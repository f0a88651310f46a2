\* Votes, sessions and the report window: one blob a block, three validators.
SPECIFICATION Spec
CONSTANTS
    a1 = a1  a2 = a2  a3 = a3
    c1 = c1  c2 = c2  c3 = c3
    Authority = {a1, a2, a3}
    SessionKeys <- RotatingSessions
    CommitmentLists <- OneList
    MaxBlobNum = 3
    MaxKeys = 1
    MaxU32 = 1
    MaxAppId = 0
    MaxBlock = 3
INVARIANTS HeaderFinal MajorityBacked
\* The chain stops at MaxBlock.
CHECK_DEADLOCK FALSE
