SPECIFICATION Spec
CONSTANTS
    vm1 = vm1
    vm2 = vm2
    NoRx = NoRx
    VMs <- MCVMs
    Rates = {500, 5000}
    Times = {1, 16}
    Sizes = {2, 3}
    PacketLimit = 2
    MinRate = 500
    IdSpace = 2
    MaxSends = 2
    MaxSessions = 2
CHECK_DEADLOCK FALSE
INVARIANTS
    TypeOK
    OnlyFrontStarted
    RateIsCurrent
    InStep
    ReceiverOutlivesHandler
PROPERTIES
    OnlyLeftoversDrop
    ImplementsService
    TransfersEnd
