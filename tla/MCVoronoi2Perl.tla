-------------------------- MODULE MCVoronoi2Perl --------------------------
EXTENDS Voronoi2Perl, RecordedDiagrams

MCDiagrams == {Square, Ell, Frame, Windows, Claw, Chip}
ASSUME DiagramsRegular == \A g \in MCDiagrams : Regular(g)

MCFlat == {Flat}
=============================================================================
