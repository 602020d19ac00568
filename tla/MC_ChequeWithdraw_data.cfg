\* Debug profile; cheque c5 carries 8 bytes of data.
CONSTANTS
    OutPoints <- MCOutPoints
    Scripts <- MCScripts
    ScriptIds <- MCScriptIds
    ScriptIdOf <- MCScriptIdOf
    ArgsLen <- MCArgsLen
    ArgsSender <- MCArgsSender
    Deps <- MCDeps
    Resolve <- MCResolve
    Chain <- MCChain
    SenderLocks <- MCSenderLocks
    NoScript = NoScript
    NoDep = NoDep
    NoCell = NoCell
    CapBits = 2
    AmtBits = 2
    OverflowChecks = TRUE
    MaxInputs = 3
    ChequeSince = ChequeSince

SPECIFICATION Spec

INVARIANT WithdrawRejectsBadData

\* A build call returns: its final state has no successor.
CHECK_DEADLOCK FALSE
