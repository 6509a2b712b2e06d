SPECIFICATION FairSpec
CONSTANTS
    a = a
    b = b
    na = na
    nb = nb
    r1 = r1
    r2 = r2
    Requests = {r1}
    LocalOrders = {a}
    PeerOrders = {b}
    Nullifiers = {na, nb}
    WalletNullifiers <- MCWalletNullifiers
    None = None
PROPERTIES
    ShootdownEnds
CHECK_DEADLOCK FALSE
