SPECIFICATION EmitSpec
CONSTANTS
    good = good
    rough = rough
    clean = clean
    slow = slow
    wrong = wrong
    slow2 = slow2
    i1 = i1
    Writer = {w1}
    Reader = {}
    Inode = {1, 2, 3, 4, 5, 6}
    NumChunks = 1
    Faults = {}
    None = None
    Impl = {i1}
    Node <- Repeated
    NameOf <- RepeatedName
    Cx <- MCCx
    Valid <- MCValid
    Cert <- MCCert
    Source <- TwiceOnly
INVARIANT NoExceedingCertificate
CHECK_DEADLOCK FALSE
