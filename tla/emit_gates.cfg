SPECIFICATION EmitFairSpec
CONSTANTS
    good = good
    rough = rough
    clean = clean
    slow = slow
    wrong = wrong
    slow2 = slow2
    i1 = i1
    Writer = {w1, w2}
    Reader = {}
    Inode = {1, 2, 3, 4, 5, 6}
    NumChunks = 2
    Faults = {"crash", "io"}
    None = None
    Impl = {i1}
    Node <- Distinct
    NameOf <- DistinctName
    Cx <- MCCx
    Valid <- MCValid
    Cert <- MCCert
    Source <- MCSource
INVARIANTS EmitTypeOK StoredPassedEveryGate ReportsWhatItStored ReadableAtRest IncompleteIsOwed
PROPERTIES RunsEnd AckedBecomesComplete
CHECK_DEADLOCK FALSE
