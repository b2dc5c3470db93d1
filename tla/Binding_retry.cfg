CONSTANTS
    i1 = i1
    i2 = i2
    Instances = {i1, i2}
    sock = sock
    sock2 = sock2
    port = port
    name = name
    web = web
    ctl = ctl
    Paths = {sock, sock2}
    Addresses <- MCAddresses
    AddressLists <- MCAddressLists
    OptionSets <- MCOptionSets
    Env <- MCEnv
    MaxFd = 8
    MaxCalls = 2
    MaxTroubles = 1
SPECIFICATION Spec
INVARIANTS
    CheckedIsValid
CHECK_DEADLOCK FALSE
