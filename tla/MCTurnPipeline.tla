--------------------------- MODULE MCTurnPipeline ---------------------------
EXTENDS TurnPipeline, TLC

CONSTANTS s1, s2, s3, r1, r2, op

OneSend == {s1}
TwoSends == {s1, s2}
ThreeSends == {s1, s2, s3}
NoRetry == {}
TwoRetries == {r1, r2}
OneRetry == {r1}
MCOps == {op}
AnyFlag == BOOLEAN
Whole == {TRUE}
Unstreamed == {}
SymmetricTwo == Permutations(TwoSends)
SymmetricRetries == Permutations(TwoRetries)
SymmetricThree == Permutations(ThreeSends)
=============================================================================
