---------------------------- MODULE MCSiteEvents ----------------------------
EXTENDS Outline

SmallGrid == (0..2) \X (0..2)
=============================================================================
