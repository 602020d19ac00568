# TLA+ models of the cheque builders and script signers of ckb-sdk-rust

This directory holds TLA+ models of three parts of the library:

- the transaction builders in `src/tx_builder/cheque.rs`;
- the script signers in `src/unlock/signer.rs`;
- the capacity-transfer builder in `src/tx_builder/transfer.rs`.

Each model is checked with TLC on small instances. Every safety invariant
and action property of the passing runs is also proved with TLAPS, for every
value of the constants.

## The system

The library is client-side and synchronous. A caller goes through two stages.

1. **Build.** A builder's `build_base` reads cells from a
   `TransactionDependencyProvider` (`get_cell`, `get_cell_data`). It resolves
   cell deps through a `CellDepResolver` (`ScriptId -> CellDep`), checks its
   inputs and returns an unsigned transaction or a `TxBuilderError`.
2. **Sign.** The caller then signs the transaction one lock group at a time.
   `ScriptSigner::sign_tx` builds the signing message with `generate_message`,
   asks a `Wallet` to sign it, and writes the signature into the `lock` of the
   group's first witness.

The caller keeps the returned transaction and passes it to the next signer.

Nothing runs concurrently inside a call. The hard behaviours come from three
sources:

- the order of the checks and early returns within one call;
- fixed-width arithmetic;
- the sequence of sign calls, which different groups and wallets make on one
  shared witness vector.

| Part (source) | Operation that changes state | Module |
|---|---|---|
| chain data, deps, u64/u128 sums (`cheque.rs`) | none (read only) | `CkbCells` |
| `ChequeClaimBuilder::build_base` (`cheque.rs` 30-184) | receiver checks; loop over cheques; assembly | `ChequeClaim` |
| `ChequeWithdrawBuilder::build_base` (`cheque.rs` 195-305) | empty check; loop over out-points; assembly | `ChequeWithdraw` |
| `CapacityTransferBuilder::build_base` (`transfer.rs` 22-51) | loop over outputs; assembly | `CapacityTransfer` |
| `ScriptSigner::generate_message` (`signer.rs` 60-124) | pure | `ScriptSigning` |
| `Secp256k1SighashSigner::sign_tx` (`signer.rs` 142-195) | pad, sign, write lock | `ScriptSigning` |
| `MultisigConfig` (`signer.rs` 198-250) | `new_with` checks, `to_witness_data` | `ScriptSigning` |
| `Secp256k1MultisigSigner::sign_tx` (`signer.rs` 283-351) | pad, sign for every matched address, slot scan | `ScriptSigning`, `SigningOrder` |
| `AnyoneCanPaySigner::sign_tx` (`signer.rs` 364-374) | owner id `args[0..20]`, then the sighash path | `ScriptSigning` (`AcpSign`) |
| `ChequeSigner::owner_id`, `sign_tx` (`signer.rs` 393-420) | owner id by action, then the sighash path | `ScriptSigning` (`ChequeSign`) |

## Modules

- **`CkbCells`**: the chain as the builders see it.
  - Constants:
    - `Chain` (out-point to cell, or `NoCell` when the provider errors);
    - `ScriptIdOf`, `Resolve` (`NoDep` when the resolver returns `None`);
    - `ArgsLen`;
    - `ArgsSender`: the lock whose hash prefix is `args[20..40]`;
    - the widths `CapBits`/`AmtBits`;
    - `OverflowChecks`: the Cargo profile.
  - A cell is its capacity, lock, type, data length and decoded amount.
  - With overflow checks on, an overflowing `+` is a panic (the outcome
    `"Panic"`). With them off, it is `AddU`, which is `(a + b) % 2^w`.
- **`ChequeClaim`**: one call of `build_base`.
  - State: the builder's fields, plus the locals `cell_deps` (a set, as the
    code's `HashSet`), `last_lock_script`, the two sums, the outcome and the
    returned transaction.
  - `ClaimReceiver` covers lines 38-83. `ClaimCheque` is one loop iteration
    (lines 88-141). `ClaimAssemble` covers lines 143-182.
  - Each action's error is an `IF ... ELSE IF` chain in the code's order of
    checks. The first failing check ends the call through `Fail`. The chain
    is an `IF`, not a `CASE`, because a `CASE` with two true guards may take
    either arm, and the code's early returns fix the order. The signers'
    `SighashSignTx` and `MultisigSignTx` are written the same way.
  - Line 92 reads the type script from the receiver cell. The model keeps that
    (`ChequeTypeRead`).
- **`ChequeWithdraw`**: the same shape for the withdraw builder: `WithdrawEmpty`,
  `WithdrawCheque`, `WithdrawAssemble`.
  - The cell deps are a sequence, as the code's `Vec`.
  - Bad data length is a panic, because `copy_from_slice` has no check before
    it.
- **`CapacityTransfer`**: one call of the transfer builder.
  - `TransferOutput` is one loop iteration (lines 34-43): push the output,
    then resolve its type script's dep. An unresolvable one returns
    `ResolveCellDepFailed`. `TransferAssemble` builds the transaction.
  - The outputs a caller passes are drawn from `OutputCells`; the deps are a
    set, as the code's `HashSet`.
- **`ScriptSigning`**: sign calls on one transaction's witness vector.
  - Witnesses are empty bytes (`EmptyW`), unparsable bytes (`Garbage`) or
    `WitnessArgs` with a lock and one opaque value for the other two fields.
    Raw bytes are records of their length, so that they differ from every
    `WitnessArgs` both for TLC and for the provers.
  - The message is the tuple of what `generate_message` hashes. The tx hash is
    the same for every call and is left out; blake2b is taken to be injective.
  - A signature is the pair (key, message): RFC 6979 signing is deterministic.
  - A multisig lock is the config data plus a sequence of slots. A slot is
    `Zero` or a signature.
  - ACP and cheque lock args are a record of their length and the key ids
    `args[0..20]` and `args[20..40]` stand for.
  - `AcpSign(g, w)` takes `args[0..20]` as owner id and panics (outcome
    `"Panic"`) on args shorter than 20 bytes. `ChequeSign(g, w, a)` is a
    `ChequeSigner` built with action `a`: `owner_id` picks the receiver half
    to claim, the sender half to withdraw, and the empty id for args that are
    not 40 bytes (the wallet then refuses).
  - `SighashSign(g, w)` and `MultisigSign(g, w)` are one `sign_tx` call each,
    from the padding to the write-back. An error leaves the caller's witnesses
    unchanged. `lastCall` records the call and its outcome.
  - `Keep(s, S)` is the filter of `generate_message` (line 86: the group's
    other inputs whose witnesses exist) and of the multisig signer (line 309:
    the addresses the wallet matches). `PlaceAll` is the slot scan of lines
    328-343. Both are LET recursive functions, so that the provers can reason
    about them.
- **`SigningOrder`**: two copies of `ScriptSigning` (the second through
  `INSTANCE`). The copies start from the same witnesses and are signed
  independently. This is a self-composition that compares orders of calls.
- **`ChequeClaimProofs`**, **`ChequeWithdrawProofs`**,
  **`CapacityTransferProofs`**, **`ScriptSigningProofs`**: the TLAPS proofs.
- **`PrefixInduction`**, **`CkbCellsProofs`**, **`SigningLemmas`**: the lemmas
  they rest on. `PrefixInduction` is induction over `0..n`. `CkbCellsProofs`
  states what `SeqSum` returns. `SigningLemmas` states what `Keep` and
  `PlaceAll` return.
- **`MC_*`**: the instances.
  - `MC_CkbChain` is a chain of 11 out-points and 10 scripts. It is chosen so
    that every check of both builders can fail:
    - a cheque of another token;
    - 39-byte args;
    - 8-byte data;
    - a second sender;
    - a token whose code sits in the cheque lock's dep group;
    - a lock with unknown code;
    - a receiver with no type;
    - a missing cell.
  - `MC_ScriptSigning` is a five-input transaction:
    - a 2-of-3 multisig group at inputs 1-2;
    - a sighash group at input 3;
    - an ACP group at input 4, with 21-byte args owned by D;
    - a cheque group at input 5, with receiver A and sender B.

    `signing_acp` has three one-input groups instead: the ACP lock with
    19-byte args, the same cheque lock, and a cheque lock with 39-byte args.
  - `MC_CapacityTransfer` draws up to three outputs from five: no type, two
    of token T (one dep), token T3 (whose dep is the cheque dep group), and a
    type with no known dep.

## Runs

Every cfg sets `CHECK_DEADLOCK FALSE`: a build or a sequence of sign calls
stops, and its final state has no successor.

| Run | Expect | What it shows |
|---|---|---|
| `claim` (`MC_ChequeClaim.cfg`) | pass, 101k states | With overflow checks on and up to 3 cheques:<br>- capacity is conserved and the receiver output holds its amount plus every cheque's (`ClaimConservation`);<br>- every claimed cheque names the sender output's lock (`ClaimRefundToChequeSender`). |
| `claim_type` | violation of `ClaimTypeUniform` | Receiver `r1` (token T) and cheque `c3` (token T2) give a returned claim. The check at line 107 compares the receiver's type with itself. |
| `claim_wrap` | violation of `ClaimConservation` | Release profile (`OverflowChecks = FALSE`): the amount sum wraps and tokens are lost. |
| `claim_dup` | violation of `ClaimInputsDistinct` | A cheque out-point given twice, or also as the receiver input, gives a returned claim that spends one cell twice. |
| `withdraw` | pass, 8k states | A returned withdrawal:<br>- consumes every out-point with `CHEQUE_CELL_SINCE`;<br>- sums capacity and amount into the one output;<br>- returns the cheques' own token to their own sender. |
| `withdraw_deps` | violation of `WithdrawDepsDistinct` | Cheque `c7`'s type code is in the cheque lock's dep group, so the same cell dep is listed twice. |
| `withdraw_data` | violation of `WithdrawRejectsBadData` | 8-byte cheque data (`c5`) panics instead of returning `InvalidParameter`. |
| `signing` | pass, 127k states | Any sequence of sighash, multisig, ACP and cheque (claim or withdraw) sign calls, with any of 4 wallets, on up to 6 initial witnesses:<br>- a successful call is idempotent (`SignIdempotent`);<br>- it installs, for each key it signs with, the signature over the message the verifier rebuilds by zeroing the lock (`LastSignVerifies`); the accepted key is `args[0..20]` for ACP and claims and `args[20..40]` for withdrawals;<br>- no step changes a witness other than the group's first, beyond appending empty ones (`SignTouchesFirstWitnessOnly`, an action property). |
| `signing_acp` | violation of `SignNeverPanics` | ACP args of 19 bytes: `sign_tx` panics at line 371 instead of returning a `SignError`. |
| `transfer` | pass, 596 states | A call that has returned answered Ok exactly when every type script resolves, with the outputs in order and exactly the deps of their type scripts, and `ResolveCellDepFailed` otherwise (`TransferResult`). |
| `signing_stale` | violation of `SignaturesCurrent` | From one witness: multisig group gM is signed, then the sighash group at input 3 pads witness 2. gM's message now includes witness 2, so its signature is stale. Re-signing gM with the same wallet then keeps the stale signature and spends the free slot on a new one. |
| `signing_order` | violation of `SignOrderIrrelevant` | Wallets A then B, against B then A, leave the signatures in different slots. |

Why the bounds are enough:

- **Widths.** `CapBits = AmtBits = 2` makes every sum of two or three cells
  reach the width, so both overflow paths fire.
- **Inputs.** `MaxInputs = 3` lets a first cheque set `last_lock_script` and
  two later ones be compared with it.
- **Signing.** Up to six initial witnesses, on five inputs, cover:
  - a missing other-index witness;
  - a witness past the inputs (the "outer" path);
  - garbage at a first index.

Every passing property has a mutant. A mutant is a variant of a mapped
definition, such as a dropped comparison, an off-by-one overflow test, or a
scan that ignores an equal slot. TLC finds each one violated under the run's
own cfg (listed in `PROJECT.json`).

## Fairness and liveness

No fairness is assumed and no liveness property is checked. A build call is
synchronous and single-threaded (spec section 5), and its loops run over a
`Vec`, so a call that returns does so by the shape of the code; a property
that said so would hold of any loop the model could be given. Sign calls are
driven by the caller, who may stop at any time. Every property is a safety
property.

## What is proved

`ChequeWithdrawProofs` proves `WithdrawTypeCorrect` (`Spec => []TypeOK`) and
`WithdrawSender` (`Spec => []WithdrawToChequeSender`) for every instance. Its
strengthening adds:

- **`LoopInv`.** Every out-point visited is a live typed cell with lock
  `last_lock_script` and type `last_type_script`.
- **`InputsInv`.** The inputs pushed are the visited out-points, in order,
  with `CHEQUE_CELL_SINCE`.
- **`OkInv`.** A returned transaction carries those inputs, the last args
  name the sender, and the output has the sender lock and the last type.

TLC checked that strengthening on the `withdraw` instance first.

`CapacityTransferProofs` proves `TransferContract`
(`Spec => []TransferResult`) for every resolver, list of outputs and bound.
`TransferResult` speaks only of the returned state. The strengthening carries
what the loop has built so far:

- the outputs pushed are the first `i - 1` given;
- the deps are those of their type scripts, all of which resolved;
- `done` holds exactly when an outcome is set;
- an error names the output at which the loop stopped.

TLC checked it on the `transfer` instance first. The same invariant gives
`TransferTypeCorrect` (`Spec => []TypeOK`).

For the assembly, the invariant supplies that `i = Len(outputs) + 1`, that the
pushed outputs are all of them, and that the deps are those of every type
script.

`ScriptSigningProofs` proves `SignFrame` (`Spec => SignTouchesFirstWitnessOnly`)
for every lock-group layout, wallet and initial transaction. The only
invariant it needs is that the witnesses form a sequence. Each signer's result
is its argument (on an error) or the argument padded to the group's first
input with that witness replaced (`SighashStep`, `MultisigStep`, `AcpStep`,
`ChequeStep`). `PadProps` states what the padding loop returns. The multisig
case never looks at the slots `PlaceAll` fills, so it holds whatever they are.

`ChequeClaimProofs` proves, for every chain, resolver, sender set, width,
profile and bound on the inputs:

- `TypeCorrect`: `Spec => []TypeOK`;
- `RefundToChequeSender`: `Spec => []ClaimRefundToChequeSender`.

Neither invariant is inductive on its own. Both rest on the strengthening
`IInv`, which adds three facts:

- **`LoopInv`.** Every cheque already visited is a live cell whose lock equals
  `last_lock_script`. This is what carries the code's single, after-the-loop
  args check to all cheques.
- **The receiver cell.** It exists once the loop is entered. This is needed to
  type the receiver output.
- **`OkInv`.** A returned transaction has inputs `self.inputs ++ [receiver]`,
  and a sender output whose lock is named by `last_lock_script`'s args. The
  loop has then run to the end.

TLC checked `IInv` on the `claim` instance before the proof was written. The
proof has one lemma per action (`ReceiverKeepsIInv`, `ChequeKeepsIInv`,
`AssembleKeepsIInv`) and a shared one for every early return (`FailKeepsIInv`).
The temporal step is by PTL.

The same `IInv` gives `InputsDistinctFromArgs`:
`Spec => [](DistinctArgs => ClaimInputsDistinct)`. `DistinctArgs` says the
caller's cheque out-points are pairwise distinct and exclude the receiver
input. Since a returned claim's inputs are `self.inputs ++ [receiver]`, the
double spend that the `claim_dup` run finds comes only from a caller that
repeats an out-point, which `build_base` never checks.

The assumption `ConstantsAssumption` states that `2^CapBits` and `2^AmtBits`
are positive naturals. TLC evaluates it; the provers do not expand `^`.

`ChequeWithdrawProofs` and `ChequeClaimProofs` also prove the sums:

- `WithdrawConserves`: `Spec => [](OverflowChecks => WithdrawConservation)`;
- `ClaimConserves`: `Spec => [](OverflowChecks => ClaimConservation)`.

The hypothesis is the Cargo profile: without overflow checks the sums wrap,
and the `claim_wrap` run shows the violation. Each `IInv` gains `SumInv`. It
says that the running totals are the `SeqSum` of the capacities and amounts
of the cells visited so far. An addition that the overflow check lets through
is exact (`AddUExact`), so one more cell adds its value (`SeqSumAppend`). At
assembly, the visited cells are exactly the ones the transaction spends.

`ScriptSigningProofs` also proves, for every lock-group layout, wallet set,
multisig config and initial witnesses:

- `SignTypeCorrect`: `Spec => []TypeOK`;
- `SignIdempotence`: `Spec => []SignIdempotent`;
- `SignVerifies`: `Spec => []LastSignVerifies`.

Its `IInv` adds `WInv`, the shape of the witnesses the signers leave:

- a witness at a position that is no group's first input is one the
  transaction started with, since only first witnesses are written;
- a group's first witness is an initial one, or holds its own signer's lock.
  For the sighash, ACP and cheque signers that is one signature. For the
  multisig signer it is the group's config and `Threshold` slots.

`SignTxStep` shows that one call of any signer keeps `WInv`. After a
successful call, a second call returns the same witnesses, and the lock holds
every expected signature. `SighashCore` and `MultisigCore` carry the argument:

- **`MsgSame`.** `generate_message` never reads the first witness's lock, so
  writing the lock leaves the message alone. The part that hashes the
  witnesses after the inputs rests on `SubSeqFrame`: writing one entry leaves
  every later suffix alone. It is proved from `SubSeqProperties` of the
  library's `SequenceTheorems`.
- **`MsgType`.** The message is typed.
- **The multisig case.** It rests on the lemmas of `SigningLemmas`:
  - `PlaceAllProps`: a scan that does not fail keeps the slot count, and
    leaves every signature `Stable`, that is, in the first slot that holds it
    or is all zeros;
  - `PlaceAllFixed`: a second scan therefore changes nothing;
  - `KeepProps`: every matched address has its signature.

**Recursive functions.** TLAPS reads `LET f[k \in 0..n] == ...` as
`CHOOSE f : f = [k \in 0..n |-> ...]`. Nothing is known of it until a table
satisfying the equation is shown to exist and to be unique. Both facts, and
every fact read from the table, are proved by induction on `k`.

The library's induction theorems take the property as an operator parameter,
which no installed backend can instantiate. `PrefixInduction` therefore
derives induction over `0..n`, on the set of indices where the property holds,
from `WFMin` of `WellFoundedInduction`. `WFMin` takes sets. This is why the
model writes `Keep` rather than `SelectSeq`: `SelectSeq` takes its test as an
operator.

Nothing is left to TLC alone among the properties of the passing runs. No
atomic-call refinement of a builder is stated: such a call's one return step
would say no more than the builder's result invariant (`TransferResult`,
`WithdrawConservation`), which is proved.

## Not modelled

- **`match_args` of every signer.** It changes no state and no model calls
  it. The ACP panic on short args is caught in `sign_tx` (line 371), which
  repeats the slice of `match_args` (line 360).
- **Wallet failures.** A wallet always signs for an id it matches.
- **Foreign or misaligned existing multisig locks.** These would panic at
  line 332.
- **Byte-level encodings.** This covers the serialisation of `WitnessArgs`, the
  length prefixes of the message, and the little-endian amount. The model keeps
  what they distinguish.
