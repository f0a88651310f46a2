\* The key list changes while a block can still be reported.
SPECIFICATION Spec
CONSTANTS
    a1 = a1  a2 = a2  a3 = a3
    c1 = c1  c2 = c2  c3 = c3
    Authority = {a1, a2, a3}
    SessionKeys <- RotatingSessions
    CommitmentLists <- OneList
    MaxBlobNum = 3
    MaxKeys = 1
    MaxU32 = 2
    MaxAppId = 0
    MaxBlock = 2
INVARIANT CountedOnce
CHECK_DEADLOCK FALSE
