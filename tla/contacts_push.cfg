SPECIFICATION Spec
CONSTANTS
    ann = ann
    annie = annie
    n1 = n1
    n2 = n2
    k1 = k1
    k2 = k2
    Addresses <- MCAddresses
    Names <- MCNames
    Keys <- MCKeys
    Within <- MCWithin
    Mail <- MCMail
    Failing = FALSE
    MaxCount = 2
    MaxCommands = 2
PROPERTY
    AddedIsPushed
CHECK_DEADLOCK FALSE
