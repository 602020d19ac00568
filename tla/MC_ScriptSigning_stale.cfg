\* Any order of sign_tx calls of every group with every wallet, starting
\* from witness vectors shorter than the inputs.
CONSTANTS
    NInputs = 3
    Keys <- MCKeys
    Wallets <- MCWallets
    WalletKeys <- MCWalletKeys
    SighashGroups = {"gS"}
    MultisigGroups = {"gM"}
    AcpGroups = {}
    ChequeGroups = {}
    GroupIdx <- MCGroupIdx
    Owner <- MCOwner
    Args <- MCNoArgs
    EmptyId = EmptyId
    Addrs <- MCAddrs
    Threshold <- MCThreshold
    FirstN <- MCFirstN
    Rests = {"data"}
    MaxInitWitnesses = 4
    TooMany = TooMany

SPECIFICATION Spec

INVARIANT SignaturesCurrent
