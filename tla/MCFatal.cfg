CONSTANTS
    s = s
    m = m
    z = z
    x = x
    y = y
    n = n
    NoFee = NoFee
    FrontierReward = 160
    ByzantiumReward = 96
    ConstantinopleReward = 64
    ByzantiumBlock = 10
    ConstantinopleBlock = 20
    Sender = s
    Miner = m
    ZeroAddress = z
    Contracts = {x, y}
    Unborn = {n}
    Accounts <- MCAccounts
    InitialBalance <- MCInitialBalance
    Values = {0, 1}
    Shapes <- FatalShapes
SPECIFICATION Spec
INVARIANT
    NeverFatal
CHECK_DEADLOCK FALSE
