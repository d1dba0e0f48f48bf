\* Two processes, two inodes and four blocks.  The largest file has three blocks, two of
\* them through the indirect block, which fills the disk; a transaction writes one block's
\* worth of bytes, so a write of four takes two, and the image ends within a block.
CONSTANTS
    Procs = {p1, p2}
    NoProc = NoProc
    Inums = {1, 2}
    Handles = {h1, h2}
    NBlocks = 4
    BSIZE = 2
    NDIRECT = 1
    MAXOPBLOCKS = 6
    MaxGroup = 2
    Image <- OneFile
    Old = 9
    Vals = {8}
    Sizes = {4}
    Zero = 0
SPECIFICATION Spec
SYMMETRY Symmetric
INVARIANTS BlocksHaveOneOwner
PROPERTIES ImplementsFileStore
