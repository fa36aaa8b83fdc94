CONSTANTS
  Ops = {"navigate", "fill", "unknown"}
  MaxCalls = 3
  MaxRepeated = 2
  Workers = {w1, w2, w3, w4, w5, w6}
SPECIFICATION FairSpec
INVARIANT TypeOK
INVARIANT HeardIsOwn
INVARIANT SuccessIsSettled
INVARIANT EvidenceIsOwn
INVARIANT NoProgressIsARun
PROPERTY ThreadsReturn
CHECK_DEADLOCK FALSE
