\* A packet that may lack what its payload needs, edited once.
SPECIFICATION PacketSpec
CONSTANTS
    Payloads = {plain, costly}
    CostlyPayloads = {costly}
    LastTime = 1
    MaxVersions = 2
INVARIANT ApprovedWithEvidence
