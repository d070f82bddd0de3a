SPECIFICATION Spec
CONSTANTS
    Writer = {w1, w2}
    Reader = {r1}
    Cert = {c1}
    Inode = {1, 2, 3, 4, 5}
    NumChunks = 2
    Faults = {"crash", "io", "power"}
    None = None
SYMMETRY Symmetry
VIEW UpToNumbers
INVARIANTS TypeOK PublishedIsComplete
PROPERTIES ImplementsAtomicStore ReadsAreStable
