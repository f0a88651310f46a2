\* Two submissions, each tried up to twice, of one application or of two.
SPECIFICATION SubmitSpec
CONSTANTS
    Submission = {s1, s2}
    NoData = NoData
    MaxAppId = 1
    MaxTries = 2
INVARIANTS PutBeforePool ErrorsAnswered RecordsVerified NoncesOfCounter
\* All submissions may be done.
CHECK_DEADLOCK FALSE
