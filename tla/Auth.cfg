SPECIFICATION Spec
CONSTANTS
    Null = Null
    a1 = a1
    a2 = a2
    l1 = l1
    l2 = l2
    l3 = l3
    l4 = l4
    Logins = {l1, l2, l3, l4}
    Logouts = {o1, o2}
    Addresses = {a1, a2}
    Address <- TwoWallets
INVARIANTS
    TypeOK
    OneUserPerWallet
    AnsweredIsStored
    LogoutInvalidates
    RevokedByItsUser
CHECK_DEADLOCK FALSE
