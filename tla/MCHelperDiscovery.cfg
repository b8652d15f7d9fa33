\* Any text at any time; two notes, of which one may withdraw, outlive or follow
\* the other; one restart with other settings.
SPECIFICATION Spec
CONSTANTS
    TTL = 2
    MaxClock = 2
    MaxNotes = 2
    MaxRestarts = 1
INVARIANTS
    AnswersMatchSteps
PROPERTIES
    NothingUsedAfterDeadline
    KeepsContract
