SPECIFICATION Spec
CONSTANTS
    hall = hall
    r1 = r1
    r2 = r2
    r3 = r3
    NoRun = NoRun
    Automations <- MCOne
    Runs <- MCRuns
    Mode0 <- MCRestart
    Edits = {}
    Body <- MCPlain
INVARIANTS
    RestartLeavesOneRun
