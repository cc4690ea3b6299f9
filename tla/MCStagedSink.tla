---------------------------- MODULE MCStagedSink ----------------------------
EXTENDS StagedSink

CONSTANTS r1, r2, b1, b2

OneRun == {r1}
TwoRuns == {r1, r2}
OneBatch == {b1}
TwoBatches == {b1, b2}
OneAttempt == {1}
TwoAttempts == {1, 2}
=============================================================================
