---------------------------- MODULE AccountKeys -----------------------------
(***************************************************************************)
(* The keys of an account on the chain and the ones this browser signs     *)
(* with: adding a Ledger, removing every other key, disabling the Ledger,  *)
(* seed phrases as recovery methods, single keys removed from the list of  *)
(* full access keys (utils/wallet.ts, redux/actions/account.js and the     *)
(* profile screens).                                                       *)
(*                                                                         *)
(* A method of the wallet is an operation `op' that goes on from one await *)
(* to the next; every await is a call to a node, the helper or the device  *)
(* and may fail, and a transaction may take effect with its answer lost.   *)
(* The wallet works on `this.accountId': a stage reads `active' where the  *)
(* code reads that field, and `op.acct' where it kept an account object.   *)
(* `shown' is what the screens decide by: copies that may be out of date.  *)
(*                                                                         *)
(* Left out: two-factor accounts, the paths of the device (one key stands  *)
(* for it), the amounts and allowances, and the writes to the key store    *)
(* that module KeyVault has in detail.                                     *)
(***************************************************************************)
EXTENDS Naturals, FiniteSets

CONSTANTS
    Accounts,
    Phrases,     \* keys the user has the seed phrase of
    Device,      \* the key on the user's Ledger
    Fresh,       \* keys the wallet generates; bounds how many
    NoKey, NoAccount,
    Faulty,      \* operations that may fail between two steps or lose an answer
    Faults       \* what else may happen: "reload", "switch", "back"

Keys == Phrases \union {Device} \union Fresh

ASSUME KeysAssumption ==
    /\ Device \notin Phrases \union Fresh /\ Phrases \intersect Fresh = {}
    /\ NoKey \notin Keys /\ NoAccount \notin Accounts

VARIABLES
    full,        \* the full access keys of each account on the chain
    limited,     \* its __wallet__metadata keys
    methods,     \* the helper's list of recovery methods
    encrypted,   \* whether the keys are kept under a password
    store,       \* wallet.keyStore
    blob,        \* the list kept under the password
    marked,      \* keyMeta of the device's key says 'ledger'
    active,      \* wallet.accountId
    shown,       \* what the screens go by: redux's fullAccessKeys, recoveryMethods
                 \* and ledgerKey, and the key in use as the list of keys read it
    page,        \* "ledgerAdded" is /setup-ledger-success
    op

chain == <<full, limited>>
saved == <<store, blob, encrypted>>
vars == <<full, limited, methods, encrypted, store, blob, marked, active, shown, page, op>>

OnChain(a) == full[a] \union limited[a]

Idle == [kind |-> "none", pc |-> "idle", acct |-> NoAccount, keys |-> {},
         key |-> NoKey, new |-> NoKey]
Begin(kind, pc, a, keys, new) ==
    op' = [kind |-> kind, pc |-> pc, acct |-> a, keys |-> keys, key |-> NoKey, new |-> new]

\* A key no account has had and no store holds.
Unused == {k \in Fresh : \A a \in Accounts : k \notin OnChain(a) \union {store[a], blob[a]}}

-----------------------------------------------------------------------------
(* Signing and transactions.                                               *)

\* getLedgerKey: a marked device that has a key on the account signs, whatever
\* key the browser has. (localKey.permission, which it asks for, is no field of
\* an access key, so the test whether the browser has full access is not made.)
LedgerSigns(a) == marked /\ Device \in OnChain(a)
Signer(a) == IF LedgerSigns(a) THEN Device ELSE store[a]
CanSign(a) == Signer(a) \in full[a]

\* The transactions `op' may send from where it is.
Sends ==
    LET one(does, ks) == {[does |-> does, key |-> k] : k \in ks}
    IN  CASE op.pc = "addDevice"   -> one("addFull", {Device})
          [] op.pc = "addFull"     -> one("addFull", {op.new})
          [] op.pc = "addLimited"  -> one("addLimited", {op.new})
          [] op.pc = "delete"      -> one("delete", op.keys)
          [] op.pc = "deleteLocal" -> one("delete", {op.key})
          [] op.pc = "dropKey"     -> one("delete", {op.key})
          [] OTHER                 -> {}

Acceptable(tx) == CanSign(op.acct) /\ (tx.does = "delete" <=> tx.key \in OnChain(op.acct))

\* The chain takes the transaction.
Takes(tx) ==
    /\ Acceptable(tx)
    /\ full' = [full EXCEPT ![op.acct] =
                   CASE tx.does = "addFull" -> @ \union {tx.key}
                     [] tx.does = "delete"  -> @ \ {tx.key}
                     [] OTHER               -> @]
    /\ limited' = [limited EXCEPT ![op.acct] =
                   CASE tx.does = "addLimited" -> @ \union {tx.key}
                     [] tx.does = "delete"     -> @ \ {tx.key}
                     [] OTHER                  -> @]

-----------------------------------------------------------------------------
(* What the screens show, and where the user is.                           *)

\* getRecoveryMethods: the helper's list, of keys that are on the chain.
Methods(a) == methods[a] \intersect OnChain(a)

NothingShown == [full |-> {}, methods |-> {}, ledger |-> FALSE, inUse |-> NoKey]

\* A navigation: refreshAccount; on the profile fetchRecoveryMethods and, when no
\* ledger key is known yet, getLedgerKey; where the full access keys are listed
\* the entries ask the signer, once, which of them is in use.
Reads(p, old) ==
    shown' = [full    |-> full'[active'],
              methods |-> IF p = "profile" THEN Methods(active)' ELSE old.methods,
              ledger  |-> old.ledger \/ (p = "profile" /\ LedgerSigns(active)'),
              inUse   |-> IF p = "ledgerAdded" THEN NoKey ELSE Signer(active)']

Visit(p) ==
    /\ op = Idle /\ page # p
    /\ p = "ledgerAdded" => "back" \in Faults
    /\ page' = p
    /\ UNCHANGED <<chain, methods, saved, marked, active, op>>
    /\ Reads(p, shown)

\* switchAccount in the navigation bar: makeAccountActive empties redux's account.
Switch(a) ==
    /\ a # active
    /\ (op = Idle /\ page # "ledgerAdded") \/ "switch" \in Faults
    /\ active' = a
    /\ UNCHANGED <<chain, methods, saved, marked, page, op>>
    /\ Reads(page, NothingShown)

\* The page is loaded again, whatever was going on.
Reload ==
    /\ "reload" \in Faults
    /\ store' = IF encrypted THEN blob ELSE store
    /\ op' = Idle
    /\ UNCHANGED <<chain, methods, encrypted, blob, marked, active, page>>
    /\ Reads(page, NothingShown)

\* disableLedger's screen and that of a reconnected device ask for the device
\* and the methods again; the list of keys stays there with its key in use.
ShowsLedger(keys) ==
    shown' = [shown EXCEPT !.full = keys, !.methods = Methods(active)',
                           !.ledger = LedgerSigns(active)']

-----------------------------------------------------------------------------
(* How an operation ends.                                                  *)

Succeeds ==
    /\ op' = Idle
    /\ CASE op.kind = "addLedger" ->
                page' = "ledgerAdded" /\ Reads("ledgerAdded", shown)
         [] op.kind = "reconnect" ->
                ShowsLedger(shown.full) /\ UNCHANGED page
         [] op.kind = "disableLedger" ->
                ShowsLedger(full'[active]) /\ UNCHANGED page
         [] op.kind = "deletePhrase" ->
                shown' = [shown EXCEPT !.methods = Methods(active)'] /\ UNCHANGED page
         [] op.kind = "deauthorize" ->
                shown' = [shown EXCEPT !.full = full'[active]] /\ UNCHANGED page
         [] op.kind = "importLedger" ->
                page' = "profile" /\ Reads("profile", NothingShown)
         [] OTHER ->
                page' = "profile" /\ Reads("profile", shown)

\* An error: only two screens ask again for what they show.
Fails ==
    /\ op' = Idle
    /\ CASE op.kind = "disableLedger" -> ShowsLedger(full'[active]) /\ UNCHANGED page
         [] op.kind = "addPhrase"     -> page' = "profile" /\ Reads("profile", shown)
         [] OTHER                     -> UNCHANGED <<page, shown>>

\* The node refuses a transaction.
Refused ==
    /\ \E tx \in Sends : ~Acceptable(tx)
    /\ UNCHANGED <<chain, methods, saved, marked, active>>
    /\ Fails

\* A call of `op' fails without an effect, or its answer is lost.
Fault ==
    /\ op.kind \in Faulty
    /\ UNCHANGED chain \/ \E tx \in Sends : Takes(tx)
    /\ UNCHANGED <<methods, saved, marked, active>>
    /\ Fails

-----------------------------------------------------------------------------
(* addLedgerAccessKey, from SetupLedger and from "connect" on the profile. *)

StartAddLedger(kind) ==
    /\ op = Idle /\ page = "profile"
    /\ kind = "reconnect" <=> (Device \in shown.methods /\ ~shown.ledger)
    /\ Begin(kind, "read", active, {}, NoKey)
    /\ UNCHANGED <<chain, methods, saved, marked, active, shown, page>>

AddLedgerReads ==
    /\ op.kind \in {"addLedger", "reconnect"} /\ op.pc = "read"
    /\ marked' = TRUE
    /\ UNCHANGED <<chain, methods, saved, active>>
    /\ IF Device \in OnChain(op.acct)
       THEN Succeeds
       ELSE op' = [op EXCEPT !.pc = "addDevice"] /\ UNCHANGED <<page, shown>>

AddLedgerAdds ==
    /\ op.pc = "addDevice"
    /\ \E tx \in Sends : Takes(tx)
    /\ op' = [op EXCEPT !.pc = "postDevice"]
    /\ UNCHANGED <<methods, saved, marked, active, shown, page>>

\* Mutant: posts the field of the other operations, which is empty here.
AddLedgerPostsNoKey ==
    /\ op.pc = "postDevice"
    /\ methods' = [methods EXCEPT ![op.acct] = @ \union {op.key}]
    /\ UNCHANGED <<chain, saved, marked, active>>
    /\ Succeeds

AddLedgerPosts ==
    /\ op.pc = "postDevice"
    /\ methods' = [methods EXCEPT ![op.acct] = @ \union {Device}]
    /\ UNCHANGED <<chain, saved, marked, active>>
    /\ Succeeds

-----------------------------------------------------------------------------
(* removeNonLedgerAccessKeys, from the page that follows.                  *)

StartRemoveOthers ==
    /\ op = Idle /\ page = "ledgerAdded"
    /\ Begin("removeOthers", "read", active, {}, NoKey)
    /\ UNCHANGED <<chain, methods, saved, marked, active, shown, page>>

\* Mutant: the device's key is not kept out of those to delete.
RemoveOthersReadsDevice ==
    LET local == IF store[active] \in OnChain(op.acct) THEN store[active] ELSE NoKey
    IN  /\ op.kind = "removeOthers" /\ op.pc = "read"
        /\ \E k \in IF local \in limited[op.acct] THEN {NoKey} ELSE Unused :
              op' = [op EXCEPT !.pc = IF k = NoKey THEN "delete" ELSE "addLimited",
                               !.acct = active, !.keys = full[op.acct] \ {local},
                               !.key = local, !.new = k]
        /\ UNCHANGED <<chain, methods, saved, marked, active, shown, page>>

\* The keys are those of the account it began with, the account that of now.
\* A metadata key the browser holds already is kept.
RemoveOthersReads ==
    LET local  == IF store[active] \in OnChain(op.acct) THEN store[active] ELSE NoKey
        others == full[op.acct] \ ({local} \union (IF marked THEN {Device} ELSE {}))
    IN  /\ op.kind = "removeOthers" /\ op.pc = "read"
        /\ \E k \in IF local \in limited[op.acct] THEN {NoKey} ELSE Unused :
              op' = [op EXCEPT !.pc = IF k = NoKey THEN "delete" ELSE "addLimited",
                               !.acct = active, !.keys = others, !.key = local, !.new = k]
        /\ UNCHANGED <<chain, methods, saved, marked, active, shown, page>>

RemoveOthersAddsKey ==
    /\ op.kind = "removeOthers" /\ op.pc = "addLimited"
    /\ \E tx \in Sends : Takes(tx)
    /\ op' = [op EXCEPT !.pc = "delete"]
    /\ UNCHANGED <<methods, saved, marked, active, shown, page>>

RemoveOthersDeletes ==
    /\ op.kind = "removeOthers" /\ op.pc = "delete"
    /\ \E tx \in Sends : Takes(tx) /\ op' = [op EXCEPT !.keys = @ \ {tx.key}]
    /\ UNCHANGED <<methods, saved, marked, active, shown, page>>

\* Mutant: the browser's own key is replaced without being deleted.
RemoveOthersLeavesLocalKey ==
    /\ op.kind = "removeOthers" /\ op.pc = "delete" /\ op.keys = {}
    /\ op' = [op EXCEPT !.pc = "methods"]
    /\ store' = IF op.new = NoKey THEN store ELSE [store EXCEPT ![active] = op.new]
    /\ UNCHANGED <<chain, methods, encrypted, blob, marked, active, shown, page>>

\* All deleted: the browser's own key goes, and the new one takes its place, in
\* the key store only and for the account that is active by then.
RemoveOthersReplacesKey ==
    /\ op.kind = "removeOthers"
    /\ \/ /\ op.pc = "delete" /\ op.keys = {} /\ op.key # NoKey /\ op.new # NoKey
          /\ op' = [op EXCEPT !.pc = "deleteLocal"]
          /\ UNCHANGED <<chain, store>>
       \/ /\ op.pc = "delete" /\ op.keys = {} /\ NoKey \in {op.key, op.new}
          /\ op' = [op EXCEPT !.pc = "methods"]
          /\ store' = IF op.new = NoKey THEN store ELSE [store EXCEPT ![active] = op.new]
          /\ UNCHANGED chain
       \/ /\ op.pc = "deleteLocal"
          /\ \E tx \in Sends : Takes(tx)
          /\ op' = [op EXCEPT !.pc = "methods"]
          /\ store' = [store EXCEPT ![active] = op.new]
    /\ UNCHANGED <<methods, encrypted, blob, marked, active, shown, page>>

RemoveOthersReadsMethods ==
    /\ op.pc = "methods"
    /\ op' = [op EXCEPT !.pc = "drop", !.keys = Methods(active) \ {Device}, !.key = NoKey]
    /\ UNCHANGED <<chain, methods, saved, marked, active, shown, page>>

-----------------------------------------------------------------------------
(* deleteRecoveryMethod for each of op.keys.                               *)

DropReads ==
    /\ op.pc = "drop"
    /\ \E k \in op.keys :
          op' = [op EXCEPT !.pc = IF k \in OnChain(active) THEN "dropKey" ELSE "dropMethod",
                           !.acct = active, !.key = k]
    /\ UNCHANGED <<chain, methods, saved, marked, active, shown, page>>

DropKey ==
    /\ op.pc = "dropKey"
    /\ \E tx \in Sends : Takes(tx)
    /\ op' = [op EXCEPT !.pc = "dropMethod"]
    /\ UNCHANGED <<methods, saved, marked, active, shown, page>>

DropMethod ==
    /\ op.pc = "dropMethod"
    /\ methods' = [methods EXCEPT ![active] = @ \ {op.key}]
    /\ op' = [op EXCEPT !.pc = "drop", !.keys = @ \ {op.key}, !.key = NoKey]
    /\ UNCHANGED <<chain, saved, marked, active, shown, page>>

DropEnds ==
    /\ op.pc = "drop" /\ op.keys = {}
    /\ UNCHANGED <<chain, methods, saved, marked, active>>
    /\ Succeeds

-----------------------------------------------------------------------------
(* disableLedger.                                                          *)

StartDisableLedger ==
    /\ op = Idle /\ page = "profile"
    /\ shown.ledger /\ (shown.full \intersect shown.methods) \ {Device} # {}
    /\ \E k \in Unused : Begin("disableLedger", "addFull", active, {}, k)
    /\ UNCHANGED <<chain, methods, saved, marked, active, shown, page>>

\* Mutant: the new key is not put in the key store.
DisableLedgerForgetsKey ==
    /\ op.kind = "disableLedger" /\ op.pc = "addFull"
    /\ \E tx \in Sends : Takes(tx)
    /\ op' = [op EXCEPT !.pc = "askDevice"]
    /\ UNCHANGED <<methods, saved, marked, active, shown, page>>

DisableLedgerAddsKey ==
    /\ op.kind = "disableLedger" /\ op.pc = "addFull"
    /\ \E tx \in Sends : Takes(tx)
    /\ store' = [store EXCEPT ![active] = op.new]
    /\ op' = [op EXCEPT !.pc = "askDevice"]
    /\ UNCHANGED <<methods, encrypted, blob, marked, active, shown, page>>

DisableLedgerAsksDevice ==
    /\ op.pc = "askDevice"
    /\ op' = [op EXCEPT !.pc = "delete", !.acct = active, !.keys = {Device}]
    /\ UNCHANGED <<chain, methods, saved, marked, active, shown, page>>

DisableLedgerDeletes ==
    /\ op.kind = "disableLedger" /\ op.pc = "delete"
    /\ \E tx \in Sends : Takes(tx)
    /\ op' = [op EXCEPT !.pc = "drop"]
    /\ UNCHANGED <<methods, saved, marked, active, shown, page>>

-----------------------------------------------------------------------------
(* Seed phrases and single keys.                                           *)

\* Recovery: the button asks that a Ledger be there.
StartDeletePhrase(k) ==
    /\ op = Idle /\ page = "profile"
    /\ shown.ledger /\ k \in shown.methods \ {Device}
    /\ Begin("deletePhrase", "drop", active, {k}, NoKey)
    /\ UNCHANGED <<chain, methods, saved, marked, active, shown, page>>

\* FullAccessKeyRotation, on its page and on the profile: not for the key in use,
\* and the user enters the phrase of another listed key.
StartDeauthorize(k, proof) ==
    /\ op = Idle /\ page \in {"profile", "keys"}
    /\ k \in shown.full \ {shown.inUse}
    /\ proof \in (shown.full \intersect Phrases) \ {k}
    /\ Begin("deauthorize", "delete", active, {k}, NoKey)
    /\ UNCHANGED <<chain, methods, saved, marked, active, shown, page>>

DeauthorizeDeletes ==
    /\ op.kind = "deauthorize"
    /\ \E tx \in Sends : Takes(tx)
    /\ UNCHANGED <<methods, saved, marked, active>>
    /\ Succeeds

\* addAccessKeySeedPhrase: the helper is told first. The phrase is a new one, or
\* one whose adding was cut short.
StartAddPhrase(k) ==
    /\ op = Idle /\ page = "profile"
    /\ k \in Phrases /\ \A a \in Accounts \ {active} : k \notin OnChain(a)
    /\ \A a \in Accounts : k \notin {store[a], blob[a]}
    /\ Begin("addPhrase", "postPhrase", active, {}, k)
    /\ UNCHANGED <<chain, methods, saved, marked, active, shown, page>>

AddPhrasePosts ==
    /\ op.pc = "postPhrase"
    /\ methods' = [methods EXCEPT ![op.acct] = @ \union {op.new}]
    /\ op' = [op EXCEPT !.pc = "addFull"]
    /\ UNCHANGED <<chain, saved, marked, active, shown, page>>

AddPhraseAdds ==
    /\ op.kind = "addPhrase" /\ op.pc = "addFull"
    /\ IF op.new \in OnChain(op.acct)
       THEN CanSign(op.acct) /\ UNCHANGED chain   \* AddKeyAlreadyExists
       ELSE \E tx \in Sends : Takes(tx)
    /\ UNCHANGED <<methods, saved, marked, active>>
    /\ Succeeds

-----------------------------------------------------------------------------
(* Accounts brought in again: saveAccount and makeAccountActive.           *)

\* Under a password the key store is rebuilt from the list that was saved.
Saves(as, k) ==
    LET with(keys) == [a \in Accounts |-> IF a \in as THEN k ELSE keys[a]]
    IN  /\ blob' = IF encrypted THEN with(blob) ELSE blob
        /\ store' = IF encrypted THEN with(blob) ELSE with(store)
        /\ UNCHANGED encrypted

\* recoverAccountSecretKey with a phrase, also "use as current key": the
\* accounts the indexer knows for its key.
ImportPhrase(k, as) ==
    /\ op = Idle /\ page \in {"profile", "keys"}
    /\ k \in Phrases /\ as # {} /\ \A a \in as : k \in OnChain(a)
    /\ Saves(as, k)
    /\ active' \in as /\ page' = "profile"
    /\ UNCHANGED <<chain, methods, marked, op>>
    /\ Reads("profile", NothingShown)

\* addLedgerAccountId and saveAndSelectLedgerAccounts, for one account.
StartImportLedger(a) ==
    /\ op = Idle /\ page = "profile"
    /\ Device \in OnChain(a)
    /\ marked' = TRUE
    /\ \E k \in Unused \union {NoKey} :
          /\ (k = NoKey) <=> store[a] \in limited[a]
          /\ Begin("importLedger", IF k = NoKey THEN "save" ELSE "addLimited", a, {}, k)
    /\ UNCHANGED <<chain, methods, saved, active, shown, page>>

ImportLedgerAddsKey ==
    /\ op.kind = "importLedger" /\ op.pc = "addLimited"
    /\ \E tx \in Sends : Takes(tx)
    /\ op' = [op EXCEPT !.pc = "save"]
    /\ UNCHANGED <<methods, saved, marked, active, shown, page>>

ImportLedgerSaves ==
    /\ op.pc = "save"
    /\ Saves(IF op.new = NoKey THEN {} ELSE {op.acct}, op.new)
    /\ active' = op.acct
    /\ UNCHANGED <<chain, methods, marked>>
    /\ Succeeds

-----------------------------------------------------------------------------
Pages == {"profile", "keys", "ledgerAdded"}
Operations == {"none", "addLedger", "reconnect", "removeOthers", "disableLedger",
               "deletePhrase", "deauthorize", "addPhrase", "importLedger"}
Stages == {"idle", "read", "addDevice", "postDevice", "addLimited", "delete", "deleteLocal",
           "methods", "drop", "dropKey", "dropMethod", "addFull", "askDevice", "postPhrase",
           "save"}

\* Accounts the browser can sign for and the user has a recovery key of; the
\* screens have just been loaded.
Init ==
    /\ full \in [Accounts -> SUBSET Keys]
    /\ \A a \in Accounts : full[a] \intersect (Phrases \union {Device}) # {}
    /\ limited \in [Accounts -> SUBSET Fresh]
    /\ \A a \in Accounts : full[a] \intersect limited[a] = {}
    /\ methods \in [Accounts -> SUBSET (Phrases \union {Device})]
    /\ \A a \in Accounts : methods[a] \subseteq full[a]
    /\ encrypted \in BOOLEAN
    /\ store \in [Accounts -> Phrases \union Fresh \union {NoKey}]
    /\ blob = store
    /\ marked \in BOOLEAN
    /\ \A a \in Accounts : CanSign(a)
    /\ active \in Accounts
    /\ page = "profile"
    /\ shown = [full |-> full[active], methods |-> Methods(active),
                ledger |-> LedgerSigns(active), inUse |-> Signer(active)]
    /\ op = Idle

Next ==
    \/ \E p \in Pages : Visit(p)
    \/ \E a \in Accounts : Switch(a) \/ StartImportLedger(a)
    \/ Reload \/ Refused \/ Fault
    \/ \E kind \in {"addLedger", "reconnect"} : StartAddLedger(kind)
    \/ AddLedgerReads \/ AddLedgerAdds \/ AddLedgerPosts
    \/ StartRemoveOthers \/ RemoveOthersReads \/ RemoveOthersAddsKey
    \/ RemoveOthersDeletes \/ RemoveOthersReplacesKey \/ RemoveOthersReadsMethods
    \/ DropReads \/ DropKey \/ DropMethod \/ DropEnds
    \/ StartDisableLedger \/ DisableLedgerAddsKey
    \/ DisableLedgerAsksDevice \/ DisableLedgerDeletes
    \/ \E k \in Keys : StartDeletePhrase(k) \/ StartAddPhrase(k)
    \/ \E k \in Keys, proof \in Phrases : StartDeauthorize(k, proof)
    \/ DeauthorizeDeletes \/ AddPhrasePosts \/ AddPhraseAdds
    \/ \E k \in Phrases, as \in SUBSET Accounts : ImportPhrase(k, as)
    \/ ImportLedgerAddsKey \/ ImportLedgerSaves

Spec == Init /\ [][Next]_vars

\* What the code leaves to the user: to remove the other keys only of an account
\* that has the Ledger's; after an error not to go by a list that still has a
\* phrase whose key has left; to visit the list of keys again once another key is
\* in use; and to leave the account as it is while an operation runs that goes by
\* `this.accountId' at every step.
Careful ==
    /\ op = Idle =>
        /\ op'.kind = "removeOthers" => LedgerSigns(active)
        /\ op'.kind \in {"disableLedger", "deauthorize"} =>
               shown.full \intersect Phrases \subseteq full[active]
        /\ op'.kind = "deauthorize" => shown.inUse = Signer(active)
    /\ op.kind \in {"removeOthers", "disableLedger", "deletePhrase"} => active' = active

CarefulSpec == Init /\ [][Next /\ Careful]_vars

-----------------------------------------------------------------------------
(* Properties.                                                             *)

\* Keys stay keys, and an operation keeps to the accounts there are.
TypeOK ==
    /\ full \in [Accounts -> SUBSET Keys] /\ limited \in [Accounts -> SUBSET Fresh]
    /\ methods \in [Accounts -> SUBSET (Phrases \union {Device})]
    /\ store \in [Accounts -> Phrases \union Fresh \union {NoKey}]
    /\ blob \in [Accounts -> Phrases \union Fresh \union {NoKey}]
    /\ encrypted \in BOOLEAN /\ marked \in BOOLEAN
    /\ active \in Accounts /\ page \in Pages
    /\ shown \in [full : SUBSET Keys, methods : SUBSET (Phrases \union {Device}),
                  ledger : BOOLEAN, inUse : Keys \union {NoKey}]
    /\ op \in [kind : Operations, pc : Stages, acct : Accounts \union {NoAccount},
               keys : SUBSET Keys, key : Keys \union {NoKey}, new : Keys \union {NoKey}]

\* "Accounts are required to have at least one active recovery method": however
\* the operations follow each other and wherever one of them stops, a key whose
\* phrase the user has, or that of the Ledger, keeps full access to the account.
RecoveryRemains == \A a \in Accounts : full[a] \intersect (Phrases \union {Device}) # {}

\* Under a password a reload, or the next account saved, rebuilds the key store
\* from the list: a key that was put in memory only is lost to this browser.
Rebuilt(a) == encrypted /\ store'[a] = blob[a] /\ store[a] # blob[a]

\* While keys are replaced the browser stays able to sign: the new key is on the
\* chain and in the store before the old one goes, at every await and after every
\* fault, and the list of keys does not offer the one in use. What takes that away
\* is the rebuilding above and nothing else.
SignerKept ==
    [][ \A a \in Accounts : CanSign(a) /\ ~Rebuilt(a) => CanSign(a)' ]_vars

\* "Remove Existing Keys and Recovery Methods": once the wallet goes on to the
\* profile no key but the device's has full access. (The helper goes on listing
\* the phrases: they are looked up after their keys have left the chain.)
RemovalIsComplete ==
    [][ op.kind = "removeOthers" /\ page # page' =>
           full'[active] = {Device} ]_vars
=============================================================================
