\* An answer is lost and its update handled again, the server is restarted with
\* other settings, a note is offered, the interview expires.
SPECIFICATION LiveDeliverySpec
CONSTANTS
    TTL = 1
    MaxClock = 1
    MaxNotes = 1
    MaxRestarts = 1
    MaxInbox = 1
    MaxLost = 1
INVARIANTS
    AnswersConsentedWithoutLoss
    PermissionsUndisturbed
PROPERTIES
    OverdueIsWiped
