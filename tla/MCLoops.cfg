\* Memory: three proposals, so that one can be decided, one expired and one open; the
\* words of a command are a second wording besides the one fact.  Polling: batches of
\* two, and a batch more than fits; two calls fail.  Conversation: more turns and more
\* ticks than are kept.
SPECIFICATION MCSpec
CONSTANTS
    ProposalIds = {p1, p2, p3}
    MemoryIds = {m1, m2, m3}
    HerProposals = {p1, p2}
    HerMemories = {m1, m2}
    Facts = {f1}
    None = None
    MaxInbox = 1
    MaxLost = 2
    PollLimit = 2
    MaxUpdates = 4
    MaxFailures = 2
    Chats = {private}
    MaxTurns = 2
    TTL = 2
    MaxId = 5
    MaxClock = 4
    MaxQueue = 1
    MaxLostAnswers = 1
INVARIANTS
    SheDecidesAsShown
    NoneOvertaken
    ReplayWindow
PROPERTIES
    KeepsContract
    DecisionTaken
    PromptIsSession
    RetriedAlike
    AnsweredInTheEnd
CHECK_DEADLOCK FALSE
