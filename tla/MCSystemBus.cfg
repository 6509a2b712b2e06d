SPECIFICATION Spec
CONSTANTS
    ClientTopics = {a}
    DUMMY_SUBSCRIPTION_TOPIC = dummy
    Connections = {x, y}
    Publishers = {p}
    BUS_BUFFER_SIZE = 2
    None = None
CHECK_DEADLOCK FALSE
INVARIANTS
    ZombieOnlyByRace

    
