CONSTANTS
    i1 = i1
    i2 = i2
    Instances = {i1, i2}
    sock = sock
    sock2 = sock2
    port = port
    name = name
    web = web
    ctl = ctl
    Paths = {sock, sock2}
    Addresses <- MCAddresses
    AddressLists <- MCAddressLists
    OptionSets <- MCOptionSets
    Env <- MCEnv
    MaxFd = 8
    MaxCalls = 2
    MaxTroubles = 1
SPECIFICATION FairSpec
INVARIANTS
    BindingTypeOK
    LockKeepsPaths
    GrantedWhenUp
    AllOrNothing
    SomeoneWins
    FirstCheckIsValid
PROPERTIES
    KeepsPathsGuarded
    OthersKept
    RestartsAtOnce
    Recovers
\* Instances that are up stay as they are once the bounds are used up.
CHECK_DEADLOCK FALSE
