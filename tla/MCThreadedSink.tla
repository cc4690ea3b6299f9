---------------------------- MODULE MCThreadedSink ----------------------------
EXTENDS ThreadedSink

CONSTANT c1

OneCall == {c1}
=============================================================================
