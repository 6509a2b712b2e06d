SPECIFICATION Spec
CONSTANTS
    P = 73
    ScalarMaxBits = 7
    SignBits = 4
    WordSize = 3
    Precision = 2
    FloatBits = 3
    Alpha = 5
    Rate = 2
    Capacity = 1
    FullRounds = 2
    PartialRounds = 1
    RoundConstants <- MCRoundConstants
    MdsMatrix <- MCMdsMatrix
    Moduli = {5, 13}
    CurveModulus = 13
    CurveA = 1
    CurveD = 2
    ScalarMulBits = 3
    SpongeInputs = {0, 1, 6}
    MaxAbsorb = 4
    MaxSqueeze = 3
    MerkleHeight = 2
    FpLimit = 20
    SmallBits = 3
    MAX_BALANCES = 2
    MAX_ORDERS = 2
    MAX_FEES = 2
    OpeningLength = 2
    VectorLength = 3
INVARIANTS
    
    NonNativeRepresents
    EdwardsGroupLaw
    
    MerkleOpens
    FixedPointAgrees
    GadgetsMatchReference
    
    WitnessCommitted
CHECK_DEADLOCK FALSE
