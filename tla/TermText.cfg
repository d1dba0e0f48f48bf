\* One process changes modes while it and another print.
CONSTANTS
    Cols = 2
    Rows = 4
    Printable = {"a"}
    Procs = {p1, p2}
    NoProc = NoProc
    Switchers = {p1}
    Requests = {3, 18, 19, 275}
    MaxWrite = 2
SPECIFICATION Spec
INVARIANTS PageIntact
PROPERTIES KeepsText
