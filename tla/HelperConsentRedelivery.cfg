\* One reply is lost: the very first update is handled twice.
SPECIFICATION DeliverySpec
CONSTANTS
    TTL = 2
    MaxClock = 0
    MaxNotes = 0
    MaxRestarts = 0
    MaxInbox = 1
    MaxLost = 1
INVARIANTS
    AnswersOnlyAfterConsent
