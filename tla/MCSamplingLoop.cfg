\* Five blocks, of which the first two are in reach of a call, and a restart.
SPECIFICATION LoopSpec
CONSTANTS
    MaxBlock = 5
    BLOCK_SAMPLE_LIMIT = 3
    MaxRestarts = 1
INVARIANTS ProcessedHasConfidence TasksBounded SampledIsFinal
PROPERTY FirstBlocksSampled
\* Finality stops at MaxBlock.
CHECK_DEADLOCK FALSE
