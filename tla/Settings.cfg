SPECIFICATION Spec
CONSTANTS
    missing = missing
    LowerOf <- MCLowerOf
    NumberOf <- MCNumberOf
    Digits <- MCDigits
    Hosts <- MCHosts
    HostsV6 <- MCHostsV6
    NotUtf8 = "xFF"
    U16Max = 65535
    U32Max = 2000000000
    Texts <- MCTexts
    Values <- MCValues
    Environments <- MCEnvironments
INVARIANTS
    ReadsBack
    NeverElsewhere
    AllPassed
\* A setting that is refused or bound has come to its end.
CHECK_DEADLOCK FALSE
