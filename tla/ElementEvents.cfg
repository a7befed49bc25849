SPECIFICATION Spec
CONSTANTS
    map = map
    car = car
    h1 = h1
    h2 = h2
    vm1 = vm1
    vm2 = vm2
    Elements <- MCElements
    Root = Root
    Pool <- MCPool
    Maps <- MCMaps
    Handlers <- MCHandlers
    VMs <- MCVMs
    NoElement = NoElement
    NoHandler = NoHandler
    NoVM = NoVM
    MaxScripts = 1
    MaxDestroys = 2
INVARIANTS
    TypeOK
    NothingInUseIsFreed
    DeletedAreOut
    AllReachRoot
PROPERTIES
    ImplementsService
