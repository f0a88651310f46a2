SPECIFICATION NetSpec
CONSTANTS
    Workloads <- MCWorkloads
    Peer = {p1}
    ParallelLimit = 2
    MAX_RETRIES = 1
INVARIANTS SenderHeldOnce ResultsMatchKeys
PROPERTIES ReplyStable BatchesEnd
\* All calls may be answered and the network quiet.
CHECK_DEADLOCK FALSE
