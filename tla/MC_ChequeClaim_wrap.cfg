\* Release profile (overflow checks off); at 3 bits capacities cannot
\* overflow, at 2 bits amounts can.
CONSTANTS
    OutPoints <- MCOutPoints
    Scripts <- MCScripts
    ScriptIds <- MCScriptIds
    ScriptIdOf <- MCScriptIdOf
    ArgsLen <- MCArgsLen
    ArgsSender <- MCArgsSender
    Deps <- MCDeps
    Resolve <- MCResolve
    Chain <- MCChain
    SenderLocks <- MCSenderLocks
    NoScript = NoScript
    NoDep = NoDep
    NoCell = NoCell
    CapBits = 3
    AmtBits = 2
    OverflowChecks = FALSE
    MaxInputs = 3

SPECIFICATION Spec

INVARIANT ClaimConservation

\* A build call returns: its final state has no successor.
CHECK_DEADLOCK FALSE
