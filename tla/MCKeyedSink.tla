---------------------------- MODULE MCKeyedSink ----------------------------
EXTENDS KeyedSink

CONSTANTS r1, r2, b1, b2, k1, k2

OneRun == {r1}
TwoRuns == {r1, r2}
OneBatch == {b1}
TwoBatches == {b1, b2}
TwoAttempts == {1, 2}
TwoKeys == {k1, k2}
OwnKeys == [b \in TwoBatches |-> IF b = b1 THEN k1 ELSE k2]
SharedKey == [b \in TwoBatches |-> k1]
BothNamings == {OwnKeys, SharedKey}
NoKeys == {}
OneKey == {k2}
OnlyOwnKeys == {OwnKeys}
OnlyKey == {[b \in OneBatch |-> k1]}
OneAttempt == {1}
=============================================================================
