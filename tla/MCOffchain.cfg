\* A node that holds both keys of the session; two worker runs, on one block or on two,
\* race each other and the chain.  Two applications, so that blobs of two blocks may share
\* the key that their sampling results are kept under.
SPECIFICATION OffchainSpec
CONSTANTS
    a1 = a1  a2 = a2  n1 = n1  c1 = c1
    Authority = {a1, a2}
    Node = {n1}
    Holds <- OneNode
    SessionKeys <- TwoKeys
    CommitmentLists <- OneList
    MaxBlobNum = 3
    MaxKeys = 1
    MaxU32 = 1
    MaxAppId = 1
    MaxBlock = 2
    MaxRuns = 2
INVARIANTS OffchainTypeOK BackedByFindings WaitingIsJustified FindingsTakeEffect
\* The chain stops at MaxBlock.
CHECK_DEADLOCK FALSE
