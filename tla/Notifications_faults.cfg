SPECIFICATION FairSpec
CONSTANTS
    j1 = j1
    m1 = m1
    Jobs = {j1}
    Messages = {m1}
    Workers = {w1, w2}
    About <- OneMessage
    Channels <- TwoChannels
    Attempts = 3
    MaxStalls = 1
    None = None
CHECK_DEADLOCK FALSE
INVARIANTS TypeOK MailedTwiceOnlyInDoubt SentMeansDelivered CompletedMeansSent
PROPERTIES JobsEnd
