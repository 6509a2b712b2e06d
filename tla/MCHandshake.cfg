SPECIFICATION Spec
CONSTANTS
    a = a
    b = b
    na = na
    nb = nb
    r1 = r1
    r2 = r2
    Requests = {r1, r2}
    LocalOrders = {a}
    PeerOrders = {b}
    Nullifiers = {na, nb}
    WalletNullifiers <- MCWalletNullifiers
    None = None
SYMMETRY MCSymmetry
INVARIANTS
    IndexSound
    IndexComplete
    RunningIsCancellable
    SendNeverBlocks
    AssertionsHold
    SignalledNeverOpens
CHECK_DEADLOCK FALSE
