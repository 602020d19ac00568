\* The ACP group gA has 19-byte args.
CONSTANTS
    NInputs = 3
    Keys <- MCKeys
    Wallets <- MCWallets
    WalletKeys <- MCWalletKeys
    SighashGroups = {}
    MultisigGroups = {}
    AcpGroups = {"gA"}
    ChequeGroups = {"gC", "gCb"}
    GroupIdx <- MCGroupIdxOwner
    Owner <- MCNoOwner
    Args <- MCArgsShort
    EmptyId = EmptyId
    Addrs <- MCNoAddrs
    Threshold <- MCNoNat
    FirstN <- MCNoNat
    Rests = {"data"}
    MaxInitWitnesses = 4
    TooMany = TooMany

SPECIFICATION Spec

INVARIANT SignNeverPanics
