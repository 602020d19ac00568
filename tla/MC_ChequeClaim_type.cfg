\* Debug profile; cheque c3 holds token T2 while receiver r1 holds token T.
CONSTANTS
    OutPoints <- MCOutPoints
    Scripts <- MCScripts
    ScriptIds <- MCScriptIds
    ScriptIdOf <- MCScriptIdOf
    ArgsLen <- MCArgsLen
    ArgsSender <- MCArgsSender
    Deps <- MCDeps
    Resolve <- MCResolve
    Chain <- MCChain
    SenderLocks <- MCSenderLocks
    NoScript = NoScript
    NoDep = NoDep
    NoCell = NoCell
    CapBits = 2
    AmtBits = 2
    OverflowChecks = TRUE
    MaxInputs = 3

SPECIFICATION Spec

INVARIANT ClaimTypeUniform

\* A build call returns: its final state has no successor.
CHECK_DEADLOCK FALSE
