----------------------------- MODULE CkbCells -----------------------------
(***************************************************************************)
(* The chain data the cheque builders read (src/tx_builder/cheque.rs):     *)
(* cells behind out-points as served by the TransactionDependencyProvider, *)
(* scripts and their ScriptId, the CellDepResolver, and the fixed-width    *)
(* integer arithmetic of the amount (u128) and capacity (u64) sums.        *)
(*                                                                         *)
(* A script is an opaque model value.  What the builders look at in a      *)
(* script is given by constant functions:                                  *)
(*   ScriptIdOf[s]  its ScriptId (code hash + hash type): scripts with the *)
(*                  same code and different args share it;                 *)
(*   ArgsLen[s]     the length of its args in bytes;                       *)
(*   ArgsSender[s]  the lock script whose blake2b hash starts with         *)
(*                  args[20..40] (NoScript when none does); the 20-byte    *)
(*                  prefix is treated as collision free.                   *)
(* A cell's data is abstracted to its length and, when it is 16 bytes, the *)
(* little-endian u128 it encodes.                                          *)
(***************************************************************************)
EXTENDS Naturals, Sequences, FiniteSets

CONSTANTS
    OutPoints,       \* out-points the provider may be asked about
    Scripts,         \* lock and type scripts
    NoScript,        \* absent type script / unset Option<Script>
    ScriptIds,       \* ScriptId values
    ScriptIdOf,      \* [Scripts -> ScriptIds]
    ArgsLen,         \* [Scripts -> Nat]
    ArgsSender,      \* [Scripts -> Scripts \cup {NoScript}]
    Deps,            \* cell deps the resolver can return
    NoDep,           \* resolver returned None
    Resolve,         \* [ScriptIds -> Deps \cup {NoDep}]
    NoCell,          \* provider answered get_cell with an error
    Chain,           \* [OutPoints -> Cell \cup {NoCell}]
    CapBits,         \* width of capacity (64 in the code)
    AmtBits,         \* width of the sUDT amount (128 in the code)
    OverflowChecks   \* the Cargo profile's overflow-checks: TRUE panics, FALSE wraps

CapLimit == 2^CapBits
AmtLimit == 2^AmtBits

\* A live cell: CellOutput plus its data.
Cell == [cap : 0..(CapLimit - 1), lock : Scripts, type : Scripts \cup {NoScript},
         dlen : Nat, amount : 0..(AmtLimit - 1)]

ASSUME ConstantsAssumption ==
    /\ NoScript \notin Scripts
    /\ NoDep \notin Deps
    /\ NoCell \notin Cell
    /\ ScriptIdOf \in [Scripts -> ScriptIds]
    /\ ArgsLen \in [Scripts -> Nat]
    /\ ArgsSender \in [Scripts -> Scripts \cup {NoScript}]
    /\ Resolve \in [ScriptIds -> Deps \cup {NoDep}]
    /\ Chain \in [OutPoints -> Cell \cup {NoCell}]
    /\ CapBits \in Nat \ {0}
    /\ AmtBits \in Nat \ {0}
    /\ OverflowChecks \in BOOLEAN
    \* 2^w is a positive natural (stated here: the provers do not expand ^)
    /\ CapLimit \in Nat \ {0}
    /\ AmtLimit \in Nat \ {0}

\* cell_dep_resolver.resolve(&ScriptId::from(s)) returns Some(_)
Resolvable(s) == Resolve[ScriptIdOf[s]] # NoDep
DepOf(s) == Resolve[ScriptIdOf[s]]

\* `a + b` on a w-bit unsigned integer: wraps when overflow checks are off;
\* with them on the caller never reaches it with an overflowing sum.
\* Mutant: the overflow test misses a sum equal to 2^w.
OverflowsLate(a, b, limit) == a + b > limit
Overflows(a, b, limit) == a + b >= limit
AddU(a, b, limit) == (a + b) % limit

\* Sum of a sequence of naturals (exact, for the properties).
SeqSum(xs) ==
    LET s[k \in 0..Len(xs)] == IF k = 0 THEN 0 ELSE s[k - 1] + xs[k]
    IN  s[Len(xs)]

CapsOf(cells) == [k \in DOMAIN cells |-> cells[k].cap]
AmountsOf(cells) == [k \in DOMAIN cells |-> cells[k].amount]
CellsAt(ops) == [k \in DOMAIN ops |-> Chain[ops[k]]]

=============================================================================
