SPECIFICATION MCSpec
CONSTANTS
    Codes = {"jam", "door"}
    Operators = {alice}
    MaxErrorAlerts = 2
    RateCount = 2
    RateFloor = 0
    RateWindow = 1
    AgentLimit = 1
    PrinterLimit = 2
    Grace = 1
    Cooldown = 1
    EscalateAfter = 1
    MaxTime = 3
    RuleSets = {{"supply", "rate"}, {"error"}, {"agent", "printer"}}
    MaxChanges = 3
INVARIANTS TypeOK OneStory
PROPERTIES NotResolvedWhileWrong Paced Settles
