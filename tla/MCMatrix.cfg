\* All layouts of up to three submissions of one or two blobs, three lost records.
SPECIFICATION MatrixSpec
CONSTANTS
    Segments = 4
    MaxApps = 3
    MaxCount = 2
    MaxLost = 3
INVARIANTS AvailableIsRecoverable AppSamplesFound SingleBlobsAvailable
PROPERTY ParityOfHeldColumnsVerifies
