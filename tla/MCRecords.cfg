\* Two readings of the signals, two decisions and one export; three calendars, three
\* commands and a token that expires; five captures; one saved reply; three records;
\* two flows of the demos.
SPECIFICATION MCSpec
CONSTANTS
    Readings <- MCReadings
    Wishes = {"create_draft", "snooze"}
    Outputs <- MCOutputs
    MaxReceipts178 = 2
    MaxAsked = 1
    Agendas <- MCAgendas
    Life = 2
    Skew = 1
    MaxContext = 4
    MaxMeetings = 1
    MaxProposed = 4
    LastSecond = 1
    MaxCommands = 3
    Feedback <- MCFeedback
    Outcomes <- MCOutcomes
    Issues <- MCIssues
    Incidents <- MCIncidents
    Usage <- MCUsage
    PilotUsers = {"ana"}
    Month = 1
    DaysNeeded = 2
    DaysWatched = 1
    MaxCaptured = 5
    Users = {"mum", "stranger"}
    Texts <- MCTexts
    Robots = {"robbie", "other"}
    ThisRobot = "robbie"
    Ttl = 1
    MaxClock = 2
    MaxSaved = 1
    Entries <- MCEntries
    Subjects = {"s1"}
    Windows <- MCWindows
    FixedTime = 1
    MaxTime = 2
    MaxRecords = 3
    DemoRuns <- MCDemoRuns
    MaxFlows = 2
INVARIANTS
    TypesOK
    ExportedAsApproved
    OwnAndRecent
    TellsTheWindow
PROPERTIES
    HarmCounts
    StaysConnected
    PreparedFromTheCalendar
    DemosTellTheirOwn
CHECK_DEADLOCK FALSE
