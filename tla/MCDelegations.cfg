\* One delegated task, two results of it and one answer; a follow-up with two
\* selections, one registration and two attempts of it; two sources, two suggestions,
\* two sendings of which one fails, one registration.
\* Two cards and two decisions about three proposals; two contents, from the owner
\* and from two messages.
SPECIFICATION MCSpec
CONSTANTS
    Tasks = {t1}
    Reasons = {r1}
    MaxTime = 1
    MaxEvents = 2
    MaxDeliveries = 2
    MaxAnswers = 1
    Choices = {"deeper_summary", "cancel_followup"}
    Authorizations = {z1}
    Fixtures = {"plain", "soiled", "failing"}
    MaxSelections = 2
    MaxFollowUps = 1
    MaxAttempts = 2
    MaxAnswered = 1
    Contents = {"review", "limits"}
    GrantTypes = {{"review", "limits"}}
    Chats = {"own", "other"}
    Costs = {c1}
    ScanFixtures = {"failing"}
    MaxGrants = 1
    MaxSources = 2
    MaxSuggestions = 2
    MaxSends = 2
    MaxFailures = 1
    MaxRegistrations = 1
    Proposals <- MCProposals
    Edits = {"better", "secret"}
    Notes = {n1, n2}
    Signals = {m1, m2}
    MaxCards = 2
    MaxDecisions = 2
    MaxStored = 2
    MaxReceipts = 1
    MaxVisible = 1
INVARIANTS
    TypesOK
    HandledOnGrounds
    AnswersWhatWasSent
    OneResult
    NothingUnasked
    SuggestedInBounds
    DelegatedStepByStep
    WrittenAsDecided
PROPERTIES
    WithdrawnStaysUndone
    NoReturnByRepetition
CHECK_DEADLOCK FALSE
