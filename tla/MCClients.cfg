\* Light client: four headers, a channel that fills and two restarts.  Farmer: hashes of
\* two bytes of two bits, blobs of two segments of one element with a domain that just
\* fits them extended, headers without data, with commitments that can be extended and
\* that cannot, and with more rows than the hash has bits.  Store: two tasks of one
\* program.
SPECIFICATION ClientsSpec
CONSTANTS
    MaxBlock = 4
    ChannelCapacity = 2
    MaxRestarts = 2
    ByteBits = 2
    HashBytes = 2
    Segments = 2
    SegmentSize = 1
    MaxWidth = 4
    RowCounts = {0, 1, 3, 4}
    FarmCapacity = 2
    MaxSolutions = 2
    MaxBest = 4
    MaxClaims = 4
    MaxFarmRestarts = 2
    t1 = t1  t2 = t2  d1 = d1
    Task = {t1, t2}
    Connection = {d1}
    conn_of <- MCConnOf
    Key = {k1}
    Value = {v1, v2}
    NoValue = NoValue
    NoTask = NoTask
INVARIANTS LastIsHighestSampled  SelectionMirrorsValidation
PROPERTIES EarlyHeadersFinish KvImplemented
\* The program waits for ever when the channel is full.
CHECK_DEADLOCK FALSE
