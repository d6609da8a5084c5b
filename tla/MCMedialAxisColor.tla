------------------------- MODULE MCMedialAxisColor -------------------------
EXTENDS MedialAxisColor, RecordedDiagrams

MCDiagrams == {Square, Notch, Frame, Claw, Chip}
MCDart == {Dart}
=============================================================================
