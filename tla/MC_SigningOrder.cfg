\* Two copies signed in different orders, from up to three witnesses.
CONSTANTS
    NInputs = 3
    Keys <- MCKeys
    Wallets <- MCWallets
    WalletKeys <- MCWalletKeys
    SighashGroups = {"gS"}
    MultisigGroups = {"gM"}
    AcpGroups = {}
    ChequeGroups = {}
    GroupIdx <- MCGroupIdx
    Owner <- MCOwner
    Args <- MCNoArgs
    EmptyId = EmptyId
    Addrs <- MCAddrs
    Threshold <- MCThreshold
    FirstN <- MCFirstN
    Rests = {"data"}
    MaxInitWitnesses = 3
    TooMany = TooMany

SPECIFICATION OrderSpec

INVARIANT SignOrderIrrelevant
