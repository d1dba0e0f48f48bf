\* Two readers, a ring of two characters whose indices wrap after two rounds.
CONSTANTS
    Readers = {p1, p2}
    Irq = irq
    NoProc = NoProc
    INPUT_BUF = 2
    UintMod = 4
    ReadSizes = {2}
SPECIFICATION Spec
INVARIANTS ReadersMissNothing ShiftFollowsKeys
PROPERTIES ImplementsLineDiscipline
SYMMETRY ReaderSymmetry
