\* Any order of sign_tx calls of every group with every wallet and either
\* cheque action, from up to six witnesses (one past the inputs).
CONSTANTS
    NInputs = 5
    Keys <- MCKeys
    Wallets <- MCWallets
    WalletKeys <- MCWalletKeys
    SighashGroups = {"gS"}
    MultisigGroups = {"gM"}
    AcpGroups = {"gA"}
    ChequeGroups = {"gC"}
    GroupIdx <- MCGroupIdxAll
    Owner <- MCOwner
    Args <- MCArgsAll
    EmptyId = EmptyId
    Addrs <- MCAddrs
    Threshold <- MCThreshold
    FirstN <- MCFirstN
    Rests = {}
    MaxInitWitnesses = 6
    TooMany = TooMany

SPECIFICATION Spec

INVARIANT TypeOK
INVARIANT SignIdempotent
INVARIANT LastSignVerifies
PROPERTY SignTouchesFirstWitnessOnly
