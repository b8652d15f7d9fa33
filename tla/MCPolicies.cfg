\* The plane: limits below and above the default, costs on both sides of a threshold,
\* and two rows in each table.  The packet: a deadline that passes, two payloads, and
\* three versions.  The chain: one person, four memories of three kinds, one run.
SPECIFICATION MCSpec
CONSTANTS
    Costs = {400, 700}
    Limits = {1000, 3000}
    Percents = {50, 90}
    MaxSpend = 2600
    MaxRecords = 2
    MaxRestarts = 1
    Payloads = {plain, costly}
    CostlyPayloads = {costly}
    LastTime = 1
    MaxVersions = 3
    Senders = {p1}
    Texts <- ChainTexts
    Definitions <- Routines
    Kinds = {"BOUNDARY_MEMORY", "WORK_PREFERENCE", "CREDENTIAL"}
    MaxMemories = 4
    MaxRan = 1
INVARIANTS
    ResumedAsApproved
    TokenBound
    NothingPastThePolicies
    CompletedMeansDone
PROPERTIES
    NoWayRound
    RecordsFinal
    OnlyTheReviewerInTime
    BoundariesComeFirst
CHECK_DEADLOCK FALSE
