\* Two session threads, one file entry that is not in normal form, empty replies, failures, a restart.
CONSTANTS
    t1 = t1  t2 = t2  plain = plain  spaced = spaced  wide = wide
    hard = hard  r1 = r1
    Empty = Empty  Refusal = Refusal  NoInput = NoInput  NoData = NoData
    Threads = {t1, t2}
    Raws = {plain, spaced, wide}
    Norm <- WhitespaceNorm
    Static <- WideEntry
    Replies = {r1, hard}
    EmptyReplies = TRUE
    MaxRequests = 2
    MaxRestarts = 1
SPECIFICATION Spec
INVARIANTS TypeOK Provenance NoCallOnceAnswered AnswersShared
PROPERTY FirstRowStable
CHECK_DEADLOCK FALSE
