SPECIFICATION Spec
CONSTANTS
    ann = ann
    bob = bob
    Players <- MCPlayers
    Nobody = Nobody
    MaxCalls = 5
    MaxPackets = 2
    MaxBuffers = 2
INVARIANTS
    TypeOK
    JobsInPlace
    OneThreadInLibrary
CHECK_DEADLOCK FALSE
PROPERTIES
    ImplementsService
    MainComesBack
