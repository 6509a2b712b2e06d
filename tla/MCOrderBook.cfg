SPECIFICATION Spec
CONSTANTS
    o1 = o1
    o2 = o2
    n1 = n1
    n2 = n2
    t1 = t1
    OrderIds = {o1, o2}
    Wallets <- MCWallets
    Nullifiers = {n1, n2}
    Tasks = {t1}
    None = None
SYMMETRY MCSymmetry
INVARIANTS
    TypeOK
    BookWellFormed
    NullifierIndexed
    VerifiedFindable
    NoSelfMatch
    

    
CHECK_DEADLOCK FALSE
