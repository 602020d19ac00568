\* At most three outputs, of five kinds.
CONSTANTS
    OutPoints <- MCOutPoints
    Scripts <- MCScripts
    ScriptIds <- MCScriptIds
    ScriptIdOf <- MCScriptIdOf
    ArgsLen <- MCArgsLen
    ArgsSender <- MCArgsSender
    Deps <- MCDeps
    Resolve <- MCResolve
    Chain <- MCChain
    NoScript = NoScript
    NoDep = NoDep
    NoCell = NoCell
    CapBits = 2
    AmtBits = 2
    OverflowChecks = TRUE
    OutputCells <- MCOutputCells
    MaxOutputs = 3

SPECIFICATION Spec

INVARIANT TypeOK
INVARIANT TransferResult

\* A build call returns: its final state has no successor.
CHECK_DEADLOCK FALSE
