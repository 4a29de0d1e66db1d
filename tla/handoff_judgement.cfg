CONSTANTS
    Simulated = Simulated
    Gate = {"focused_tests", "browser", "database"}
    Evidence <- MCEvidence
    GateChoices <- MCGateChoices
    MaxProofs = 2
    MaxEvidence = 1
    MaxAttempts = 2
SPECIFICATION Spec
CHECK_DEADLOCK FALSE
INVARIANT GreenIsProved
INVARIANT SetbackNamesCause
PROPERTY EvidenceStandsAtCommit
PROPERTY TesterWordNeverCounts
