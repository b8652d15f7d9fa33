\* A restart turns the OpenAI interviewer on while a question is open.
SPECIFICATION DeliverySpec
CONSTANTS
    TTL = 2
    MaxClock = 0
    MaxNotes = 1
    MaxRestarts = 1
    MaxInbox = 1
    MaxLost = 0
INVARIANTS
    OpenAIOnlyWithConsent
