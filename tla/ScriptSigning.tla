--------------------------- MODULE ScriptSigning ---------------------------
(***************************************************************************)
(* The script signers of src/unlock/signer.rs acting on one transaction:   *)
(* ScriptSigner::generate_message, Secp256k1SighashSigner and              *)
(* Secp256k1MultisigSigner, AnyoneCanPaySigner and ChequeSigner.  The     *)
(* caller signs the transaction's lock       *)
(* groups one sign_tx call at a time, with any wallet, in any order, and   *)
(* keeps the returned transaction (on an error it keeps the old one).      *)
(*                                                                         *)
(* Witness positions are 1-based here (input index k of the code is        *)
(* position k + 1).  A witness is empty bytes, bytes that do not parse as  *)
(* WitnessArgs, or a WitnessArgs whose input_type and output_type fields   *)
(* are abstracted to one opaque value `rest`.  blake2b is taken to be      *)
(* injective, so the signing message is the tuple of what the code hashes *)
(* (the transaction hash is the same for every message of one tx and is    *)
(* left out).  A wallet's signature is deterministic (RFC 6979): the pair  *)
(* of the key and the message.                                             *)
(***************************************************************************)
EXTENDS Naturals, Sequences, FiniteSets

CONSTANTS
    NInputs,         \* tx.inputs().len()
    Keys,            \* 20-byte key ids (blake160 of public keys)
    Wallets,         \* wallet handles
    WalletKeys,      \* [Wallets -> SUBSET Keys]: ids the wallet matches and signs for
    SighashGroups,   \* lock groups of the sighash script
    MultisigGroups,  \* lock groups of the multisig script
    AcpGroups,       \* lock groups of the anyone-can-pay script
    ChequeGroups,    \* lock groups of the cheque script
    GroupIdx,        \* [groups -> Seq(1..NInputs)]: script_group.input_indices
    Owner,           \* [SighashGroups -> Keys]: the script args
    Args,            \* [AcpGroups \cup ChequeGroups -> ArgsRec]: the script args
    EmptyId,         \* the empty owner id &args[0..0]
    Addrs,           \* [MultisigGroups -> Seq(Keys)]: config.sighash_addresses
    Threshold,       \* [MultisigGroups -> Nat]: config.threshold
    FirstN,          \* [MultisigGroups -> Nat]: config.require_first_n
    Rests,           \* values of the input_type/output_type fields
    MaxInitWitnesses,\* bound on the initial number of witnesses
    TooMany          \* the slot scan found no place for a signature

Groups == SighashGroups \cup MultisigGroups \cup AcpGroups \cup ChequeGroups

\* Script args of an ACP or cheque lock: their length, and the key ids
\* args[0..20] and args[20..40] stand for where the args are that long.
ArgsRec == [len : Nat, lo : Keys, hi : Keys]

\* ChequeAction
ChequeActions == {"Claim", "Withdraw"}

ASSUME SigningAssumption ==
    /\ NInputs \in Nat \ {0}
    /\ WalletKeys \in [Wallets -> SUBSET Keys]
    /\ LET kinds == <<SighashGroups, MultisigGroups, AcpGroups, ChequeGroups>>
       IN  \A a, b \in 1..4 : a # b => kinds[a] \cap kinds[b] = {}
    /\ GroupIdx \in [Groups -> Seq(1..NInputs)]
    /\ \A g \in Groups : Len(GroupIdx[g]) > 0
    \* lock groups partition the inputs
    /\ \A g, h \in Groups : \A a \in DOMAIN GroupIdx[g], b \in DOMAIN GroupIdx[h] :
          GroupIdx[g][a] = GroupIdx[h][b] => g = h /\ a = b
    /\ Owner \in [SighashGroups -> Keys]
    /\ Args \in [AcpGroups \cup ChequeGroups -> ArgsRec]
    /\ EmptyId \notin Keys
    /\ Addrs \in [MultisigGroups -> Seq(Keys)]
    /\ Threshold \in [MultisigGroups -> Nat]
    /\ FirstN \in [MultisigGroups -> Nat]
    /\ MaxInitWitnesses \in Nat

\* Raw witness bytes, by their length: empty (Bytes::default()), and one
\* byte, which does not parse as WitnessArgs.
EmptyW == [bytes |-> 0]
Garbage == [bytes |-> 1]

\* WitnessArgs.lock of None, and the 65 zero bytes of an empty signature.
NoLock == [kind |-> "none"]
Zero == [zeros |-> 65]

\* Witness values.
WA(lock, rest) == [lock |-> lock, rest |-> rest]
DefaultWA == WA(NoLock, "none")

\* The witnesses a transaction may carry before any signer has run.
InitWitness == {EmptyW, Garbage} \cup {WA(NoLock, r) : r \in Rests \cup {"none"}}

Sig(k, msg) == [key |-> k, msg |-> msg]
SigLock(s) == [kind |-> "sig", sig |-> s]
MultiLock(cfg, slots) == [kind |-> "multi", cfg |-> cfg, slots |-> slots]

First(g) == GroupIdx[g][1]

-----------------------------------------------------------------------------
(***************************************************************************)
(* MultisigConfig (lines 198-250).  new_with rejects duplicated addresses, *)
(* threshold > n and require_first_n > threshold; to_witness_data is the   *)
(* header [0, require_first_n, threshold, n as u8] and the addresses.      *)
(***************************************************************************)
NewWithError(addrs, firstN, threshold) ==
    CASE \E a, b \in DOMAIN addrs : a < b /\ addrs[a] = addrs[b] -> "InvalidMultisigConfig"
      [] threshold > Len(addrs)                                  -> "InvalidMultisigConfig"
      [] firstN > threshold                                      -> "InvalidMultisigConfig"
      [] OTHER                                                   -> "none"

ToWitnessData(g) ==
    [firstN |-> FirstN[g], threshold |-> Threshold[g],
     n |-> Len(Addrs[g]) % 256, addrs |-> Addrs[g]]

ASSUME ConfigAssumption ==
    \A g \in MultisigGroups : NewWithError(Addrs[g], FirstN[g], Threshold[g]) = "none"

-----------------------------------------------------------------------------
(***************************************************************************)
(* generate_message (lines 60-124), for a witness vector long enough and a *)
(* first witness that parses: the first witness with its lock replaced by  *)
(* zero_lock, then the group's other witnesses that exist, then the        *)
(* witnesses past the inputs.                                              *)
(***************************************************************************)
ParseWA(w) == IF w = EmptyW THEN DefaultWA ELSE w

\* The elements of s that are in S, in their order: the filter_map of line
\* 86 (witnesses.get keeps the indices below witnesses.len()) and the
\* filter of line 309 (the addresses the wallet matches).
Keep(s, S) ==
    LET f[k \in 0..Len(s)] ==
          IF k = 0 THEN << >>
          ELSE IF s[k] \in S THEN Append(f[k - 1], s[k]) ELSE f[k - 1]
    IN  f[Len(s)]

\* Mutant: the first witness is hashed with the lock it holds, not zero_lock.
GenerateMessageKeepLock(ws, g, zeroLock) ==
    LET others == Keep(Tail(GroupIdx[g]), 1..Len(ws))
    IN  << ParseWA(ws[First(g)]),
           [k \in DOMAIN others |-> ws[others[k]]],
           SubSeq(ws, NInputs + 1, Len(ws)) >>

GenerateMessage(ws, g, zeroLock) ==
    LET others == Keep(Tail(GroupIdx[g]), 1..Len(ws))
    IN  << [ParseWA(ws[First(g)]) EXCEPT !.lock = zeroLock],
           [k \in DOMAIN others |-> ws[others[k]]],
           SubSeq(ws, NInputs + 1, Len(ws)) >>

\* Mutant: the padding pushes a default WitnessArgs instead of empty bytes.
PadDefaultWA(ws, p) == IF p <= Len(ws) THEN ws ELSE ws \o [k \in 1..(p - Len(ws)) |-> DefaultWA]

\* while witnesses.len() <= witness_idx { witnesses.push(Default::default()) }
Pad(ws, p) == IF p <= Len(ws) THEN ws ELSE ws \o [k \in 1..(p - Len(ws)) |-> EmptyW]

Result(outcome, ws) == [outcome |-> outcome, ws |-> ws]

(***************************************************************************)
(* Secp256k1SighashSigner::sign_tx_with_owner_id (lines 142-179): pad,     *)
(* message with 65 zero bytes as lock, wallet.sign(owner_id), then put the *)
(* signature in the lock of the first witness.                             *)
(***************************************************************************)
\* Mutant: the message is taken with no lock instead of 65 zero bytes.
SighashZeroLockNone == NoLock
SighashZeroLock == SigLock(Zero)

SighashSignTx(g, w, ownerId, ws) ==
    LET p   == First(g)
        ws1 == Pad(ws, p)
        msg == GenerateMessage(ws1, g, SighashZeroLock)
    IN  IF ws1[p] = Garbage THEN Result("InvalidWitnessArgs", ws)
        ELSE IF ownerId \notin WalletKeys[w] THEN Result("Wallet", ws)
        ELSE Result("Ok", [ws1 EXCEPT ![p] =
                         [ParseWA(ws1[p]) EXCEPT !.lock = SigLock(Sig(ownerId, msg))]])

(***************************************************************************)
(* Secp256k1MultisigSigner::sign_tx (lines 283-351).  The zero lock is the *)
(* config data and threshold zero slots.  The wallet signs for each        *)
(* configured address it matches, in the config's order; each signature   *)
(* goes to the first slot that already holds it or is all zeros, and a     *)
(* signature with no such slot fails the call with TooManySignatures.      *)
(***************************************************************************)
MultisigZeroLock(g) == MultiLock(ToWitnessData(g), [k \in 1..Threshold[g] |-> Zero])

\* Mutant: the scan only looks for an all-zero slot.
FitSlotsZeroOnly(slots, s) ==
    {k \in DOMAIN slots : /\ slots[k] = Zero
                          /\ \A j \in 1..(k - 1) : slots[j] # Zero}

FitSlots(slots, s) ==
    {k \in DOMAIN slots : /\ slots[k] = s \/ slots[k] = Zero
                          /\ \A j \in 1..(k - 1) : slots[j] # s /\ slots[j] # Zero}

PlaceSig(slots, s) ==
    IF FitSlots(slots, s) = {} THEN TooMany
    ELSE LET k == CHOOSE k \in FitSlots(slots, s) : TRUE
         IN  IF slots[k] = s THEN slots ELSE [slots EXCEPT ![k] = s]

PlaceAll(slots, sigs) ==
    LET f[k \in 0..Len(sigs)] ==
          IF k = 0 THEN slots
          ELSE IF f[k - 1] = TooMany THEN TooMany
          ELSE PlaceSig(f[k - 1], sigs[k])
    IN  f[Len(sigs)]

MultisigSignTx(g, w, ws) ==
    LET p      == First(g)
        ws1    == Pad(ws, p)
        zl     == MultisigZeroLock(g)
        msg    == GenerateMessage(ws1, g, zl)
        mine   == Keep(Addrs[g], WalletKeys[w])
        sigs   == [k \in DOMAIN mine |-> Sig(mine[k], msg)]
        cur    == ParseWA(ws1[p])
        field  == IF cur.lock = NoLock THEN zl.slots ELSE cur.lock.slots
        placed == PlaceAll(field, sigs)
    IN  IF ws1[p] = Garbage THEN Result("InvalidWitnessArgs", ws)
        ELSE IF placed = TooMany THEN Result("TooManySignatures", ws)
        ELSE Result("Ok", [ws1 EXCEPT ![p] =
                         [cur EXCEPT !.lock = MultiLock(ToWitnessData(g), placed)]])

(***************************************************************************)
(* AnyoneCanPaySigner::sign_tx (lines 364-374): the owner id is args[0..20] *)
(* whatever the args' length; the slice panics on args shorter than 20.    *)
(***************************************************************************)
AcpSignTx(g, w, ws) ==
    IF Args[g].len < 20 THEN Result("Panic", ws)
    ELSE SighashSignTx(g, w, Args[g].lo, ws)

(***************************************************************************)
(* ChequeSigner::owner_id (lines 393-401): args[0..20] (the receiver) to  *)
(* claim, args[20..40] (the sender) to withdraw, and the empty slice when  *)
(* the args are not 40 bytes.  sign_tx (lines 410-420) signs with it.      *)
(***************************************************************************)
\* Mutant: the two halves of the args are swapped.
ChequeOwnerIdSwapped(args, action) ==
    IF args.len # 40 THEN EmptyId
    ELSE IF action = "Claim" THEN args.hi ELSE args.lo

ChequeOwnerId(args, action) ==
    IF args.len # 40 THEN EmptyId
    ELSE IF action = "Claim" THEN args.lo ELSE args.hi

ChequeSignTx(g, w, action, ws) ==
    SighashSignTx(g, w, ChequeOwnerId(Args[g], action), ws)

-----------------------------------------------------------------------------

VARIABLES
    witnesses,       \* tx.witnesses() of the caller's current transaction
    lastCall         \* the last sign_tx call: its group, wallet and outcome

vars == <<witnesses, lastCall>>

NoCall == [g |-> "none", w |-> "none", a |-> "none", outcome |-> "none"]

Init ==
    /\ witnesses \in UNION {[1..n -> InitWitness] : n \in 0..MaxInitWitnesses}
    /\ lastCall = NoCall

\* The caller keeps the returned transaction, or its own on an error.
Apply(g, w, a, r) ==
    /\ witnesses' = r.ws
    /\ lastCall' = [g |-> g, w |-> w, a |-> a, outcome |-> r.outcome]

\* Secp256k1SighashSigner::sign_tx (lines 187-195): owner_id is the args.
SighashSign(g, w) == Apply(g, w, "none", SighashSignTx(g, w, Owner[g], witnesses))

MultisigSign(g, w) == Apply(g, w, "none", MultisigSignTx(g, w, witnesses))

AcpSign(g, w) == Apply(g, w, "none", AcpSignTx(g, w, witnesses))

\* A ChequeSigner built with either action.
ChequeSign(g, w, action) == Apply(g, w, action, ChequeSignTx(g, w, action, witnesses))

Next ==
    \/ \E g \in SighashGroups, w \in Wallets : SighashSign(g, w)
    \/ \E g \in MultisigGroups, w \in Wallets : MultisigSign(g, w)
    \/ \E g \in AcpGroups, w \in Wallets : AcpSign(g, w)
    \/ \E g \in ChequeGroups, w \in Wallets, action \in ChequeActions :
          ChequeSign(g, w, action)

Spec == Init /\ [][Next]_vars

-----------------------------------------------------------------------------

\* What sign_tx(g, w) (of a ChequeSigner with action a) returns on ws.
SignTx(g, w, a, ws) ==
    CASE g \in SighashGroups  -> SighashSignTx(g, w, Owner[g], ws)
      [] g \in MultisigGroups -> MultisigSignTx(g, w, ws)
      [] g \in AcpGroups      -> AcpSignTx(g, w, ws)
      [] OTHER                -> ChequeSignTx(g, w, a, ws)

(***************************************************************************)
(* What the on-chain verifier hashes (spec 4.5.1 and section 8, item 7):   *)
(* the message with the lock's signature bytes replaced by zeros of the    *)
(* same length.                                                            *)
(***************************************************************************)
ZeroOut(lock) ==
    IF lock.kind = "sig" THEN SigLock(Zero)
    ELSE [lock EXCEPT !.slots = [k \in DOMAIN lock.slots |-> Zero]]

VerifierMessage(g, ws) == GenerateMessage(ws, g, ZeroOut(ws[First(g)].lock))

\* The signatures a witness's lock holds.
SigsIn(w) ==
    IF w \in {EmptyW, Garbage} \/ w.lock = NoLock THEN {}
    ELSE IF w.lock.kind = "sig" THEN {w.lock.sig}
    ELSE {w.lock.slots[k] : k \in DOMAIN w.lock.slots} \ {Zero}

\* Keys of wallet w the group's script accepts (for a cheque lock: from
\* the receiver when claiming, from the sender when withdrawing, spec 4.5.5).
SignerKeys(g, w, a) ==
    WalletKeys[w] \cap
        CASE g \in SighashGroups  -> {Owner[g]}
          [] g \in MultisigGroups -> {Addrs[g][k] : k \in DOMAIN Addrs[g]}
          [] g \in AcpGroups      -> {Args[g].lo}
          [] OTHER -> {IF a = "Claim" THEN Args[g].lo ELSE Args[g].hi}

Rest == Rests \cup {"none"}
ConfigData == {ToWitnessData(g) : g \in MultisigGroups}
ZeroLocks == {SighashZeroLock} \cup {MultisigZeroLock(g) : g \in MultisigGroups}
\* Signers only write the first witness of a group, so a message holds
\* witnesses as they were before any signer ran.
Message == [lock : ZeroLocks, rest : Rest] \X Seq(InitWitness) \X Seq(InitWitness)
Signature == [key : Keys, msg : Message]
Lock == [kind : {"sig"}, sig : Signature]
        \cup [kind : {"multi"}, cfg : ConfigData, slots : Seq(Signature \cup {Zero})]
Witness == InitWitness \cup [lock : Lock, rest : Rest]

TypeOK ==
    /\ witnesses \in Seq(Witness)
    /\ lastCall \in [g : Groups \cup {"none"}, w : Wallets \cup {"none"},
                     a : ChequeActions \cup {"none"},
                     outcome : {"none", "Ok", "InvalidWitnessArgs", "Wallet",
                                "TooManySignatures", "Panic"}]

HasLock(g, ws) ==
    /\ First(g) <= Len(ws)
    /\ ws[First(g)] \notin {EmptyW, Garbage}
    /\ ws[First(g)].lock # NoLock

(***************************************************************************)
(* Signing is idempotent (spec section 8, items 4 and 5): calling sign_tx  *)
(* again, with the same signer and group, on the transaction a successful  *)
(* call returned gives back that same transaction.  For multisig it rests  *)
(* on the slot scan stopping at a slot that already holds the signature,   *)
(* and on the message being taken over the zero lock, not the lock in      *)
(* place.                                                                  *)
(***************************************************************************)
SignIdempotent ==
    lastCall.outcome = "Ok" =>
        SignTx(lastCall.g, lastCall.w, lastCall.a, witnesses) = Result("Ok", witnesses)

(***************************************************************************)
(* A signature is installed for the message the verifier rebuilds (spec    *)
(* 4.5 and section 8, item 7): after a successful sign_tx, the group's     *)
(* lock holds, for every key of the wallet the group accepts, the          *)
(* signature over the message obtained by zeroing that lock's signature    *)
(* bytes in the returned transaction.  It rests on the zero lock having    *)
(* the length of the final lock and on the message being taken over the    *)
(* padded witnesses that are returned.                                     *)
(***************************************************************************)
LastSignVerifies ==
    lastCall.outcome = "Ok" =>
        \A k \in SignerKeys(lastCall.g, lastCall.w, lastCall.a) :
            Sig(k, VerifierMessage(lastCall.g, witnesses))
                \in SigsIn(witnesses[First(lastCall.g)])

(***************************************************************************)
(* A sign call touches one witness (spec 4.5: sign_tx returns the          *)
(* transaction identical to its argument except for the witness at the     *)
(* group's first input): every step keeps every other witness, and a       *)
(* witness it adds below that position is empty bytes, which every         *)
(* verifier and later generate_message treat as an absent witness.         *)
(***************************************************************************)
TouchesFirstWitnessOnly ==
    /\ Len(witnesses') >= Len(witnesses)
    /\ \A k \in DOMAIN witnesses' :
          k # First(lastCall'.g) =>
             witnesses'[k] = IF k <= Len(witnesses) THEN witnesses[k] ELSE EmptyW

SignTouchesFirstWitnessOnly == [][TouchesFirstWitnessOnly]_vars

(***************************************************************************)
(* sign_tx fails only with a SignError (spec section 7, and 4.5.4: the     *)
(* anyone-can-pay signer handles args of 20 to 22 bytes): no call panics,  *)
(* whatever the script args of the group it is given.                      *)
(***************************************************************************)
SignNeverPanics == lastCall.outcome # "Panic"

(***************************************************************************)
(* Every installed signature stays valid (spec section 8, item 7, and the  *)
(* sign_tx contract of 4.5: a call changes only the witness at the         *)
(* group's first input): whatever other groups are signed afterwards,      *)
(* every signature in a group's lock is over that group's current          *)
(* message.                                                                *)
(***************************************************************************)
SignaturesCurrent ==
    \A g \in Groups :
        HasLock(g, witnesses) =>
            \A s \in SigsIn(witnesses[First(g)]) : s.msg = VerifierMessage(g, witnesses)

=============================================================================
