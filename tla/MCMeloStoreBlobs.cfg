\* Applications, nonces, block contents and headers: blocks with more blobs than
\* clear_prefix removes, one validator.
SPECIFICATION Spec
CONSTANTS
    a1 = a1  a2 = a2  a3 = a3
    c1 = c1  c2 = c2  c3 = c3
    Authority = {a1}
    SessionKeys <- LoneValidator
    CommitmentLists <- TwoLists
    MaxBlobNum = 1
    MaxKeys = 2
    MaxU32 = 2
    MaxAppId = 1
    MaxBlock = 3
INVARIANTS TypeOK VotesExpire
PROPERTY MetadataGrows
\* The chain stops at MaxBlock.
CHECK_DEADLOCK FALSE
