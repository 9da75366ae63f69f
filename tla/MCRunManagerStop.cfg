SPECIFICATION ManagerSpec
CONSTANTS
    Procs = {p1}
    Gens = {g1, g2}
    Calls = {c1}
    NoProc = NoProc
    NoGen = NoGen
    MaxJournal = 0
    MaxFaults = 2
    MaxCrashes = 0
PROPERTY StopIsTerminal
CHECK_DEADLOCK FALSE
