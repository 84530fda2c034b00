--------------------------- MODULE NewKeyTransfer ---------------------------
(***************************************************************************)
(* Handing accounts over to Meteor Wallet without moving a secret          *)
(* (services/meteorConnect.js, meteorConnectAddKeyChain.js and             *)
(* newKeyTransferState.js): Meteor mints a key per account, this wallet    *)
(* adds it on chain with the account's own source key, Meteor proves it,   *)
(* imports the account and later removes the source key.                   *)
(*                                                                         *)
(* Three parties move on their own: this wallet (one call at a time, which *)
(* a reload or an error may cut at any await), Meteor, and the chain, on   *)
(* which a transaction that was sent lands later or never.  The journal of *)
(* the transfers belongs to Meteor's SDK, which is not part of the         *)
(* repository: the operators marked SDK say what the wallet's comments     *)
(* rely on and no more.                                                    *)
(*                                                                         *)
(* Left out: what an account can pay (a failed check is an error like any  *)
(* other), the loss of the local source key, archiving a finished transfer *)
(* (its button is commented out), and everything shown.                    *)
(***************************************************************************)
EXTENDS Naturals

CONSTANTS
    Accounts,
    Transfers,      \* client transfer ids, those that the SDK may hand out
    Source,         \* an account's own key, the one this wallet holds
    NoKey, NoTransfer, NoAccount,
    Selections,     \* the sets of accounts that an instance asks to transfer
    Operations      \* what an instance lets happen: see the guards

ASSUME TransferSentinels ==
    /\ Source \notin Transfers /\ NoKey \notin Transfers /\ NoTransfer \notin Transfers
    /\ NoKey # Source /\ NoAccount \notin Accounts
ASSUME SelectionsAssumption == Selections \subseteq (SUBSET Accounts) \ {{}}

VARIABLES
    \* the chain
    onChain,        \* account -> keys that may sign for it
    inflight,       \* transactions sent, signed with the source key, not landed
    landed,         \* <<x, a>> whose AddKey has become part of the chain
    spent,          \* <<x, a>> whose signed AddKey has a nonce that was used
    expired,        \* <<x, a>> whose signed AddKey was not accepted in time
    \* Meteor
    minted,         \* transfer -> whether it has answered, and the key per account
    proven,         \* transfers it was asked to verify
    secured,        \* transfer -> accounts it has imported
    \* the SDK's journal, in the browser's storage
    session,        \* transfer -> its record
    older,          \* <<y, x>>: transfer y was recorded before transfer x
    op,             \* transfer -> account -> how far its AddKey has got
    startResult,    \* the one slot for an answered start
    pendingVerify,  \* the one slot for the proof to verify with
    \* this wallet
    stash,          \* mnw:newKeyTransfer:pendingStart:v1
    call            \* the operation that is running

chainVars == <<onChain, inflight, landed, spent, expired>>
meteorVars == <<minted, proven, secured>>
journalVars == <<session, older, op, startResult, pendingVerify>>
vars == <<chainVars, meteorVars, journalVars, stash, call>>

-----------------------------------------------------------------------------
(* What a transfer's record says.                                          *)

NoStash == [id |-> NoTransfer, asked |-> {}]
NoCall == [pc |-> "idle", x |-> NoTransfer, asked |-> {}, replay |-> FALSE,
           rest |-> {}, a |-> NoAccount]
NoOps == [a \in Accounts |-> "none"]

Present(x) == x \in Transfers /\ session[x].state \in {"pending", "answered"}
Newest(x) == Present(x) /\ \A y \in Transfers \ {x} : Present(y) => <<y, x>> \in older
Interrupted(x) == Newest(x) /\ session[x].state = "pending"
Dest(x, a) == minted[x].key[a]
Accepted(x) == IF session[x].state = "answered" THEN {a \in Accounts : Dest(x, a) # NoKey} ELSE {}
Intents(x) == {a \in Accounts : op[x][a] # "none"}
FullySecured(x) == Accepted(x) # {} /\ Accepted(x) \subseteq session[x].secured

\* A signed AddKey whose start result is gone: its bytes may still land, so
\* nothing new may start.
Fence == {p \in Transfers \X Accounts : op[p[1]][p[2]] = "signed" /\ startResult # p[1]}

Idle == call.pc = "idle"
At(pc, x) == call.pc = pc /\ call.x = x
Return == call' = NoCall

\* SDK: clear, on a transfer without a journaled AddKey; the start result goes with
\* it, in a write of its own.
Cleared(x) ==
    /\ session' = [session EXCEPT ![x].state = "cleared"]
    /\ older' = {p \in older : x \notin {p[1], p[2]}}
    /\ pendingVerify' = IF pendingVerify = x THEN NoTransfer ELSE pendingVerify
    /\ UNCHANGED op

-----------------------------------------------------------------------------
(* startMeteorNewKeyAccountTransfer.                                       *)

\* resolveNewKeyStartReplayPlan; the fingerprint is the selection.
Replays(S) == stash.id # NoTransfer /\ stash.asked = S

\* The sweep throws when the leftover has a journaled AddKey.
Sweepable == \A x \in Transfers : x = startResult /\ Present(x) => Intents(x) = {}

KeepLeftover == UNCHANGED journalVars   \* mutant: no sweep

\* discardLeftoverStartResult; a replay does not sweep.
SweepLeftover ==
    IF Present(startResult)
    THEN Cleared(startResult) /\ startResult' = NoTransfer
    ELSE UNCHANGED journalVars

StartTransfer(S) ==
    /\ Idle /\ S \in Selections
    /\ \/ /\ Replays(S)
          /\ call' = [NoCall EXCEPT !.pc = "ask", !.asked = S, !.x = stash.id, !.replay = TRUE]
          /\ UNCHANGED journalVars
       \/ /\ ~Replays(S) /\ Sweepable
          /\ SweepLeftover
          /\ call' = [NoCall EXCEPT !.pc = "ask", !.asked = S]
    /\ UNCHANGED <<chainVars, meteorVars, stash>>

\* SDK: start writes its record before Meteor is opened, and refuses a fenced
\* device and an id that was used for another request.
OpenMeteor(x) ==
    /\ call.pc = "ask" /\ Fence = {}
    /\ IF call.replay THEN x = call.x ELSE session[x].state = "unused"
    /\ IF Present(x)
       THEN session[x].asked = call.asked /\ UNCHANGED <<session, older>>
       ELSE /\ session' = [session EXCEPT ![x] =
                              [state |-> "pending", asked |-> call.asked, secured |-> {}]]
            /\ older' = older \union {<<y, x>> : y \in {z \in Transfers : Present(z)}}
    /\ call' = [call EXCEPT !.pc = "answer", !.x = x]
    /\ UNCHANGED <<chainVars, meteorVars, op, startResult, pendingVerify, stash>>

\* Meteor journals its half; asked again under the same id it keeps its answer.
\* It may refuse accounts, and an instance may let it name the source key.
MeteorMints(x) ==
    /\ At("answer", x) /\ ~minted[x].done
    /\ \E keys \in [Accounts -> {x, NoKey} \union (IF "confuse" \in Operations THEN {Source} ELSE {})] :
          /\ \A a \in Accounts \ session[x].asked : keys[a] = NoKey
          /\ minted' = [minted EXCEPT ![x] = [done |-> TRUE, key |-> keys]]
    /\ UNCHANGED <<chainVars, proven, secured, journalVars, stash, call>>

\* SDK: the answer is journaled, unless another transfer's answer is.
HearAnswer(x) ==
    /\ At("answer", x) /\ minted[x].done
    /\ IF session[x].state = "answered"
       THEN UNCHANGED <<session, startResult>>
       ELSE /\ startResult \in {NoTransfer, x}
            /\ session' = [session EXCEPT ![x].state = "answered"]
            /\ startResult' = x
    /\ call' = [call EXCEPT !.pc = "unstash"]
    /\ UNCHANGED <<chainVars, meteorVars, older, op, pendingVerify, stash>>

Unstash ==
    /\ call.pc = "unstash"
    /\ stash' = NoStash
    /\ Return
    /\ UNCHANGED <<chainVars, meteorVars, journalVars>>

\* start throws: refused before its record is written, or the bridge session expired.
MayThrow ==
    \/ call.pc = "answer"
    \/ call.pc = "ask" /\ ("refuse" \in Operations \/ Fence # {} \/ call.replay)

\* Mutant: only an attempt that was given an id is stashed.
CatchStartWithoutStash ==
    /\ MayThrow
    /\ UNCHANGED stash
    /\ Return
    /\ UNCHANGED <<chainVars, meteorVars, journalVars>>

\* A first attempt that failed stashes the newest record, if it has no answer and if
\* the browser takes the write.
CatchStart ==
    /\ MayThrow
    /\ IF call.replay \/ ~\E x \in Transfers : Interrupted(x)
       THEN UNCHANGED stash
       ELSE \/ \E x \in Transfers :
                  Interrupted(x) /\ stash' = [id |-> x, asked |-> call.asked]
            \/ "refuse" \in Operations /\ UNCHANGED stash
    /\ Return
    /\ UNCHANGED <<chainVars, meteorVars, journalVars>>

-----------------------------------------------------------------------------
(* runMeteorNewKeyAddKeys and the wallet's half of it, account by account. *)

AddTx(x, a) == [kind |-> "add", x |-> x, a |-> a, key |-> Dest(x, a)]
Live(x, a) == <<x, a>> \notin spent \union expired
DeleteTx(x, a) == [kind |-> "delete", x |-> x, a |-> a, key |-> Dest(x, a)]

\* runActivation asks for AddKeys unless their proof is journaled already.
StartAddKeys(x) ==
    /\ Idle /\ Accepted(x) # {} /\ ~FullySecured(x)
    /\ pendingVerify # x /\ startResult = x /\ Fence = {}
    /\ call' = [NoCall EXCEPT !.pc = "addKeys", !.x = x]
    /\ UNCHANGED <<chainVars, meteorVars, journalVars, stash>>

\* One account after the other.
Turn(x, a) ==
    /\ At("addKeys", x) /\ a \in Accepted(x)
    /\ \A b \in Accepted(x) \ {a} : op[x][b] \in {"none", "final"}

Advance(x, a, from, to) ==
    /\ Turn(x, a) /\ op[x][a] = from
    /\ op' = [op EXCEPT ![x][a] = to]
    /\ UNCHANGED <<chainVars, meteorVars, session, older, startResult, pendingVerify, stash, call>>

\* SDK: intent before signing.
JournalIntent(x, a) == Advance(x, a, "none", "intent")

\* Mutant: whether the key is on the account already is not looked at.
SignUnseen(x, a) ==
    /\ Source \in onChain[a]
    /\ Advance(x, a, "intent", "signed")

\* signAddKeyTransaction, after the whole list of keys was read: the source key is
\* there and the destination key is not.  The exact bytes are journaled.
SignAddKey(x, a) ==
    /\ Source \in onChain[a] /\ Dest(x, a) \notin onChain[a]
    /\ Advance(x, a, "intent", "signed")

NeverExpired(x, a) == FALSE   \* mutant: no error is read as "expired"

\* isSignedTransactionExpired: the same bytes are sent again to find out.
Expired(x, a) == <<x, a>> \in expired

\* broadcastSignedTransaction: these bytes and no others.
Broadcast(x, a) ==
    /\ Turn(x, a) /\ op[x][a] = "signed" /\ Live(x, a)
    /\ inflight' = inflight \union {AddTx(x, a)}
    /\ UNCHANGED <<onChain, landed, spent, expired, meteorVars, journalVars, stash, call>>

\* getFinalTransactionStatus.
ProveFinal(x, a) == <<x, a>> \in landed /\ Advance(x, a, "signed", "final")

\* SDK: the proof is recorded, and the start result discarded.
FinishAddKeys(x) ==
    /\ At("addKeys", x) /\ pendingVerify = NoTransfer
    /\ \A a \in Accepted(x) : op[x][a] = "final"
    /\ pendingVerify' = x
    /\ startResult' = NoTransfer
    /\ Return
    /\ UNCHANGED <<chainVars, meteorVars, session, older, op, stash>>

-----------------------------------------------------------------------------
(* verifyMeteorNewKeyAccountTransfer, and what Meteor does with it.        *)

StartVerify(x) ==
    /\ Idle /\ pendingVerify = x
    /\ proven' = proven \union {x}
    /\ call' = [NoCall EXCEPT !.pc = "verify", !.x = x]
    /\ UNCHANGED <<chainVars, minted, secured, journalVars, stash>>

\* Meteor finds the key it minted on the account, and imports the account.
MeteorSecures(x, a) ==
    /\ x \in proven /\ Dest(x, a) = x /\ x \in onChain[a] /\ a \notin secured[x]
    /\ secured' = [secured EXCEPT ![x] = @ \union {a}]
    /\ UNCHANGED <<chainVars, minted, proven, journalVars, stash, call>>

\* SDK: the rows are recorded; a transfer secured in full needs its proof no more.
HearVerification(x) ==
    /\ At("verify", x)
    /\ session' = [session EXCEPT ![x].secured = secured[x]]
    /\ pendingVerify' = IF Accepted(x) \subseteq secured[x] THEN NoTransfer ELSE pendingVerify
    /\ Return
    /\ UNCHANGED <<chainVars, meteorVars, older, op, startResult, stash>>

\* Meteor's cleanup, signed with the key it minted.
MeteorCleansUp(x, a) ==
    /\ a \in secured[x] /\ {x, Source} \subseteq onChain[a]
    /\ onChain' = [onChain EXCEPT ![a] = @ \ {Source}]
    /\ UNCHANGED <<inflight, landed, spent, expired, meteorVars, journalVars, stash, call>>

-----------------------------------------------------------------------------
(* startOverMeteorNewKeyTransfer: resolveNewKeyStartOverPlan decides.      *)

MayRemoveAny(x, a) == TRUE   \* mutant: the check is missing

\* removeDestinationKeyWithSourceSigner, and the planner before it, refuse a
\* record by which the key to remove is the account's own.
MayRemove(x, a) == Dest(x, a) # Source

\* A screen names a transfer without secured rows; the start screen names none
\* and means the stashed one.  The stash is dropped whatever comes next.
StartsOver(x) ==
    /\ Idle /\ "startOver" \in Operations
    /\ \/ Present(x) /\ session[x].state = "answered" /\ session[x].secured = {}
       \/ (stash.id # NoTransfer /\ x = stash.id)
    /\ stash' = NoStash

\* No record: a start result that no record refers to is discarded.
DiscardStash(x) ==
    /\ StartsOver(x) /\ ~Present(x)
    /\ startResult' = IF Fence = {} /\ ~Present(startResult) THEN NoTransfer ELSE startResult
    /\ UNCHANGED <<chainVars, meteorVars, session, older, op, pendingVerify, call>>

\* Nothing reached the chain.
StartOverUnsent(x) ==
    /\ StartsOver(x) /\ Present(x) /\ Intents(x) = {}
    /\ call' = [NoCall EXCEPT !.pc = "clear", !.x = x]
    /\ UNCHANGED <<chainVars, meteorVars, journalVars>>

RefuseStartOver(x) ==
    /\ StartsOver(x) /\ Present(x) /\ Intents(x) # {}
    /\ session[x].secured # {} \/ \E a \in Intents(x) : ~MayRemove(x, a)
    /\ UNCHANGED <<chainVars, meteorVars, journalVars, call>>

StartRevocation(x) ==
    /\ StartsOver(x) /\ Present(x) /\ Intents(x) # {}
    /\ session[x].secured = {} /\ \A a \in Intents(x) : MayRemove(x, a)
    /\ call' = [NoCall EXCEPT !.pc = "revoke", !.x = x, !.rest = Intents(x)]
    /\ UNCHANGED <<chainVars, meteorVars, journalVars>>

\* isDestinationKeyAbsentOnChain.
SkipAbsent(x, a) ==
    /\ At("revoke", x) /\ a \in call.rest /\ Dest(x, a) \notin onChain[a]
    /\ call' = [call EXCEPT !.rest = @ \ {a}]
    /\ UNCHANGED <<chainVars, meteorVars, journalVars, stash>>

\* Mutant: the account whose key is being removed is not kept.
RemoveUnnamed(x, a) ==
    /\ At("revoke", x) /\ a \in call.rest /\ MayRemove(x, a)
    /\ inflight' = inflight \union {DeleteTx(x, a)}
    /\ call' = [call EXCEPT !.pc = "removing"]
    /\ UNCHANGED <<onChain, landed, spent, expired, meteorVars, journalVars, stash>>

\* The key is there, or the node could not say that it is not.
RemoveDestination(x, a) ==
    /\ At("revoke", x) /\ a \in call.rest /\ MayRemove(x, a)
    /\ inflight' = inflight \union {DeleteTx(x, a)}
    /\ call' = [call EXCEPT !.pc = "removing", !.a = a]
    /\ UNCHANGED <<onChain, landed, spent, expired, meteorVars, journalVars, stash>>

\* deleteKey has returned, and waitForDestinationKeyAbsence sees the key gone.
SeeRemoved(x) ==
    LET a == call.a IN
    /\ At("removing", x) /\ DeleteTx(x, a) \notin inflight /\ Dest(x, a) \notin onChain[a]
    /\ call' = [call EXCEPT !.pc = "revoke", !.rest = @ \ {a}, !.a = NoAccount]
    /\ UNCHANGED <<chainVars, meteorVars, journalVars, stash>>

\* SDK: markDestinationKeysRevoked sees for itself that the keys are gone.
MarkRevoked(x) ==
    /\ At("revoke", x) /\ call.rest = {}
    /\ \A a \in Intents(x) : Dest(x, a) \notin onChain[a] /\ <<x, a>> \notin Fence
    /\ op' = [op EXCEPT ![x] = NoOps]
    /\ call' = [call EXCEPT !.pc = "clear"]
    /\ UNCHANGED <<chainVars, meteorVars, session, older, startResult, pendingVerify, stash>>

ClearRecord(x) ==
    /\ At("clear", x) /\ Present(x) /\ Intents(x) = {}
    /\ Cleared(x)
    /\ call' = [call EXCEPT !.pc = "clearResult"]
    /\ UNCHANGED <<chainVars, meteorVars, startResult, stash>>

ClearResult(x) ==
    /\ At("clearResult", x)
    /\ startResult' = IF startResult = x THEN NoTransfer ELSE startResult
    /\ Return
    /\ UNCHANGED <<chainVars, meteorVars, session, older, op, pendingVerify, stash>>

-----------------------------------------------------------------------------
(* The recovery screen: one fenced AddKey at a time.                       *)

\* checkOperation: a landed AddKey is proved final; bytes that may still land are
\* sent again, which is how the node is asked whether they have expired.
Reconcile(x, a) ==
    /\ Idle /\ <<x, a>> \in Fence
    /\ IF <<x, a>> \in landed
       THEN op' = [op EXCEPT ![x][a] = "final"] /\ UNCHANGED inflight
       ELSE /\ ~Expired(x, a)
            /\ inflight' = IF Live(x, a) THEN inflight \union {AddTx(x, a)} ELSE inflight
            /\ UNCHANGED op
    /\ UNCHANGED <<onChain, landed, spent, expired, meteorVars, session, older, startResult,
                   pendingVerify, stash, call>>

\* SDK: archiveReconciledOperation sees for itself that the key is gone.
Retired(x, a) ==
    /\ Dest(x, a) \notin onChain[a]
    /\ op' = [op EXCEPT ![x][a] = "none"]
    /\ UNCHANGED <<session, older, startResult, pendingVerify>>

\* archiveOperation: the bytes can never land and the key is not there.
ArchiveFenced(x, a) ==
    /\ Idle /\ <<x, a>> \in Fence /\ Expired(x, a)
    /\ Retired(x, a)
    /\ UNCHANGED <<chainVars, meteorVars, stash, call>>

\* revokeAndArchive: the key is on the account but the AddKey cannot be proved.
RevokeFenced(x, a) ==
    /\ Idle /\ <<x, a>> \in Fence /\ Dest(x, a) \in onChain[a] /\ MayRemove(x, a)
    /\ inflight' = inflight \union {DeleteTx(x, a)}
    /\ call' = [NoCall EXCEPT !.pc = "retiring", !.x = x, !.a = a]
    /\ UNCHANGED <<onChain, landed, spent, expired, meteorVars, journalVars, stash>>

ArchiveRevoked(x) ==
    /\ At("retiring", x) /\ DeleteTx(x, call.a) \notin inflight
    /\ Retired(x, call.a)
    /\ Return
    /\ UNCHANGED <<chainVars, meteorVars, stash>>

-----------------------------------------------------------------------------
(* What cuts a call, and the chain.                                        *)

\* An await rejects: nothing of what was done is taken back.
Throw ==
    /\ \/ call.pc \in {"addKeys", "verify", "revoke", "removing", "clear", "retiring"}
       \/ call.pc = "clearResult" /\ "orphan" \in Operations
    /\ Return
    /\ UNCHANGED <<chainVars, meteorVars, journalVars, stash>>

Reload ==
    /\ "reload" \in Operations /\ ~Idle
    /\ Return
    /\ UNCHANGED <<chainVars, meteorVars, journalVars, stash>>

\* The record of the answered start is lost while AddKeys are signed.
LoseStartResult ==
    /\ "lose" \in Operations /\ Idle
    /\ \E x \in Transfers, a \in Accounts : startResult = x /\ op[x][a] = "signed"
    /\ startResult' = NoTransfer
    /\ UNCHANGED <<chainVars, meteorVars, session, older, op, pendingVerify, stash, call>>

\* What the source key has signed for an account since the last of its transactions
\* landed bears one and the same nonce: when one lands, the rest never will.
Land(tx) ==
    /\ tx \in inflight /\ Source \in onChain[tx.a]
    /\ onChain' = [onChain EXCEPT ![tx.a] =
                      IF tx.kind = "add" THEN @ \union {tx.key} ELSE @ \ {tx.key}]
    /\ inflight' = {t \in inflight : t.a # tx.a}
    /\ landed' = IF tx.kind = "add" THEN landed \union {<<tx.x, tx.a>>} ELSE landed
    /\ spent' = spent \union {<<t.x, t.a>> : t \in {u \in inflight : u.a = tx.a /\ u.kind = "add"}}
                     \union {<<x, tx.a>> : x \in {y \in Transfers : op[y][tx.a] = "signed"}}
    /\ UNCHANGED <<expired, meteorVars, journalVars, stash, call>>

\* A transaction that was not accepted in time never lands.
Expire(x, a) ==
    /\ op[x][a] = "signed" \/ AddTx(x, a) \in inflight
    /\ <<x, a>> \notin expired
    /\ expired' = expired \union {<<x, a>>}
    /\ inflight' = inflight \ {AddTx(x, a)}
    /\ UNCHANGED <<onChain, landed, spent, meteorVars, journalVars, stash, call>>

DropDelete(x, a) ==
    /\ DeleteTx(x, a) \in inflight
    /\ inflight' = inflight \ {DeleteTx(x, a)}
    /\ UNCHANGED <<onChain, landed, spent, expired, meteorVars, journalVars, stash, call>>

-----------------------------------------------------------------------------
Init ==
    /\ onChain = [a \in Accounts |-> {Source}]
    /\ inflight = {} /\ landed = {} /\ spent = {} /\ expired = {}
    /\ minted = [x \in Transfers |-> [done |-> FALSE, key |-> [a \in Accounts |-> NoKey]]]
    /\ proven = {}
    /\ secured = [x \in Transfers |-> {}]
    /\ session = [x \in Transfers |-> [state |-> "unused", asked |-> {}, secured |-> {}]]
    /\ older = {}
    /\ op = [x \in Transfers |-> NoOps]
    /\ startResult = NoTransfer /\ pendingVerify = NoTransfer
    /\ stash = NoStash
    /\ call = NoCall

Starting ==
    \/ \E S \in Selections : StartTransfer(S)
    \/ \E x \in Transfers : OpenMeteor(x) \/ HearAnswer(x)
    \/ Unstash \/ CatchStart

Activating(x) ==
    \/ StartAddKeys(x) \/ FinishAddKeys(x) \/ StartVerify(x) \/ HearVerification(x)
    \/ \E a \in Accounts :
          JournalIntent(x, a) \/ SignAddKey(x, a) \/ Broadcast(x, a) \/ ProveFinal(x, a)

StartingOver(x) ==
    \/ DiscardStash(x) \/ StartOverUnsent(x) \/ RefuseStartOver(x) \/ StartRevocation(x)
    \/ \E a \in Accounts : SkipAbsent(x, a) \/ RemoveDestination(x, a)
    \/ SeeRemoved(x) \/ MarkRevoked(x) \/ ClearRecord(x) \/ ClearResult(x)

Recovering(x) ==
    \/ \E a \in Accounts : Reconcile(x, a) \/ ArchiveFenced(x, a) \/ RevokeFenced(x, a)
    \/ ArchiveRevoked(x)

Meteor(x) ==
    MeteorMints(x) \/ \E a \in Accounts : MeteorSecures(x, a) \/ MeteorCleansUp(x, a)

Chain ==
    \/ \E tx \in inflight : Land(tx)
    \/ \E x \in Transfers, a \in Accounts : Expire(x, a) \/ DropDelete(x, a)

Next ==
    \/ Starting
    \/ \E x \in Transfers : Activating(x) \/ StartingOver(x) \/ Recovering(x) \/ Meteor(x)
    \/ Throw \/ Reload \/ LoseStartResult
    \/ Chain

Spec == Init /\ [][Next]_vars

\* The recovery screen is used for as long as the device is fenced, a call that
\* waits returns or throws in the end (sessions expire, waits are bounded), and
\* what was signed lands or expires.
Fairness ==
    /\ \A x \in Transfers, a \in Accounts :
          SF_vars(Reconcile(x, a)) /\ SF_vars(ArchiveFenced(x, a)) /\ WF_vars(Expire(x, a))
    /\ \A x \in Transfers : WF_vars(ClearResult(x))
    /\ WF_vars(Throw) /\ WF_vars(CatchStart) /\ WF_vars(Unstash)

FairSpec == Spec /\ Fairness

-----------------------------------------------------------------------------
(* Properties.                                                             *)

Key == Transfers \union {Source}
MaybeKey == Key \union {NoKey}
MaybeTransfer == Transfers \union {NoTransfer}
Tx == [kind : {"add", "delete"}, x : Transfers, a : Accounts, key : MaybeKey]
MintedType == [done : BOOLEAN, key : [Accounts -> MaybeKey]]
SessionType == [state : {"unused", "pending", "answered", "cleared"},
                asked : SUBSET Accounts, secured : SUBSET Accounts]
CallType ==
    [pc : {"idle", "ask", "answer", "unstash", "addKeys", "verify", "revoke", "removing",
           "clear", "clearResult", "retiring"},
     x : MaybeTransfer, asked : SUBSET Accounts, replay : BOOLEAN, rest : SUBSET Accounts,
     a : Accounts \union {NoAccount}]

\* Every variable holds a value of its type, and a call that removes a key knows
\* of which account.
TypeOK ==
    /\ onChain \in [Accounts -> SUBSET MaybeKey]
    /\ inflight \in SUBSET Tx
    /\ landed \in SUBSET (Transfers \X Accounts)
    /\ spent \in SUBSET (Transfers \X Accounts)
    /\ expired \in SUBSET (Transfers \X Accounts)
    /\ minted \in [Transfers -> MintedType]
    /\ proven \in SUBSET Transfers
    /\ secured \in [Transfers -> SUBSET Accounts]
    /\ session \in [Transfers -> SessionType]
    /\ older \in SUBSET (Transfers \X Transfers)
    /\ op \in [Transfers -> [Accounts -> {"none", "intent", "signed", "final"}]]
    /\ startResult \in MaybeTransfer
    /\ pendingVerify \in MaybeTransfer
    /\ stash \in [id : MaybeTransfer, asked : SUBSET Accounts]
    /\ call \in CallType
    /\ call.pc \in {"removing", "retiring"} => call.a \in Accounts /\ call.x \in Transfers

\* Somebody can sign for every account at every instant: this wallet with the
\* source key, or Meteor with a key it has secured the account under.
Holders(a) ==
    (IF Source \in onChain[a] THEN {"wallet"} ELSE {})
    \union (IF \E x \in Transfers : x \in onChain[a] /\ a \in secured[x] THEN {"meteor"} ELSE {})
AccountsKeepAHolder == \A a \in Accounts : Holders(a) # {}

\* The transfer is a safe handover of the right to sign, account by account.
Handover == INSTANCE SafeHandover WITH holders <- [a \in Accounts |-> Holders(a)]
HandsOverSafely == Handover!Spec

\* What a removal relies on: the key that it takes off is never the source key.
SourceIsNeverRemoved ==
    \A tx \in inflight : tx.a \in Accounts /\ (tx.kind = "delete" => tx.key # Source)

\* A start that was interrupted is replayed under its id when the same accounts
\* are asked for again: Meteor is not asked to mint a second set of keys.
InterruptedStartIsReplayed ==
    [][\A x, y \in Transfers :
          session[x].state = "unused" /\ session'[x].state = "pending" /\ Interrupted(y)
              => session[y].asked # session'[x].asked]_vars

\* Meteor is not asked to mint keys for an answer that the journal will refuse.
AnswersHaveASlot ==
    \A x \in Transfers : At("answer", x) /\ session[x].state = "pending"
        => startResult \in {NoTransfer, x}

\* What a fence waits for comes about: the AddKey has landed, which the recovery screen
\* proves, or the account is without the key to add, and the bytes expire. Whichever
\* keys Meteor named, and whatever was revoked or lost, no fence is left that neither
\* lifts.
FenceHasAWayOut ==
    \A x \in Transfers, a \in Accounts :
        <<x, a>> \in Fence => <<x, a>> \in landed \/ Dest(x, a) \notin onChain[a]

\* A device that is fenced can be freed from the recovery screen.
FenceIsLifted ==
    \A x \in Transfers, a \in Accounts : <<x, a>> \in Fence ~> <<x, a>> \notin Fence
=============================================================================
