SPECIFICATION ManagerSpec
CONSTANTS
    Procs = {p1, p2}
    Gens = {g1, g2}
    Calls = {c1}
    NoProc = NoProc
    NoGen = NoGen
    MaxJournal = 1
    MaxFaults = 2
    MaxCrashes = 1
INVARIANTS
    ExecutionIsLeased
    SettledRecordAgrees
    GenerationsKeepApart
PROPERTIES
    TerminalIsFinal
    JournalSurvives
    ImplementsLifecycle
    ResumeAnswered
CHECK_DEADLOCK FALSE
