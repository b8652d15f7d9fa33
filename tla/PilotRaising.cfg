\* One command whose handler raises, one after it.
SPECIFICATION PollSpec
CONSTANTS
    PollLimit = 2
    MaxUpdates = 2
    MaxFailures = 0
PROPERTIES
    EveryCommandAnswered
