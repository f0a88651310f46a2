\* Up to two blobs a block, of which the extended list is too long to be stored, and
\* two claims a block.
SPECIFICATION FortuneSpec
CONSTANTS
    a1 = a1  c1 = c1  f1 = f1
    Authority = {a1}
    SessionKeys <- LoneKey
    CommitmentLists <- OneList
    MaxBlobNum = 2
    MaxKeys = 2
    MaxU32 = 3
    MaxAppId = 0
    MaxBlock = 3
    Account = {f1}
    MaxClaimantsPerBlock = 2
    RewardAmount = 10
    MaxRow = 2
INVARIANTS StoredListsMatchHeaders RewardsMatchClaims
PROPERTY AnswersStable
\* The chain stops at MaxBlock.
CHECK_DEADLOCK FALSE
