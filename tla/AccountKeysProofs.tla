------------------------- MODULE AccountKeysProofs --------------------------
(***************************************************************************)
(* Proofs about AccountKeys, for any accounts, keys and operations: what   *)
(* fails or is lost, however pages are gone back to and wherever accounts  *)
(* are switched, a user who is Careful keeps a key that recovers each      *)
(* account, and the browser its ability to sign.                           *)
(***************************************************************************)
EXTENDS AccountKeys, TLAPS

-----------------------------------------------------------------------------
(* The inductive invariant.                                                *)

\* Where each operation is; one that goes by `this.accountId' is on the account
\* that is active.
AddLedgerOK ==
    op.kind \in {"addLedger", "reconnect"} =>
        /\ op.pc \in {"read", "addDevice", "postDevice"}
        /\ op.pc # "read" => marked

\* What is left to delete is never the device's key, and what is not left to
\* delete is gone.
RemoveOthersOK ==
    op.kind = "removeOthers" =>
        /\ op.pc \in {"read", "addLimited", "delete", "deleteLocal", "methods",
                      "drop", "dropKey", "dropMethod"}
        /\ op.acct = active /\ marked /\ Device \in full[active]
        /\ Device \notin op.keys /\ op.key # Device
        /\ op.new # NoKey => op.new \in Fresh \ full[active]
        /\ op.pc = "addLimited" => op.new # NoKey
        /\ op.pc \in {"addLimited", "delete"} =>
              full[active] \subseteq {Device} \union op.keys
                                     \union (IF op.new = NoKey THEN {} ELSE {op.key})
        /\ op.pc = "deleteLocal" => full[active] \subseteq {Device, op.key}
        /\ op.pc \in {"methods", "drop", "dropKey", "dropMethod"} =>
              full[active] \subseteq {Device}

\* A phrase keeps access while the device loses it, and the new key signs.
DisableLedgerOK ==
    op.kind = "disableLedger" =>
        /\ op.pc \in {"addFull", "askDevice", "delete", "drop", "dropKey", "dropMethod"}
        /\ op.acct = active
        /\ op.keys \subseteq {Device} /\ op.key \in {Device, NoKey}
        /\ op.new \in Fresh
        /\ full[active] \intersect Phrases # {}
        /\ op.pc # "addFull" => store[active] = op.new /\ op.new \in full[active]

\* The Ledger is there while a phrase goes.
DeletePhraseOK ==
    op.kind = "deletePhrase" =>
        /\ op.pc \in {"drop", "dropKey", "dropMethod"}
        /\ op.acct = active /\ marked /\ Device \in full[active]
        /\ Device \notin op.keys /\ op.key # Device

\* The phrase the user entered is not the one that goes, nor is the key in use.
DeauthorizeOK ==
    op.kind = "deauthorize" =>
        /\ op.pc = "delete"
        /\ (full[op.acct] \intersect Phrases) \ op.keys # {}
        /\ Signer(op.acct) \notin op.keys

AddPhraseOK ==
    op.kind = "addPhrase" => op.pc \in {"postPhrase", "addFull"} /\ op.new \in Phrases

ImportLedgerOK ==
    op.kind = "importLedger" =>
        /\ op.pc \in {"addLimited", "save"}
        /\ marked /\ Device \in full[op.acct]
        /\ op.new # NoKey => op.new \in Fresh \ full[op.acct]
        /\ op.pc = "addLimited" => op.new # NoKey

OperationOK ==
    /\ op.kind = "none" => op = Idle
    /\ AddLedgerOK /\ RemoveOthersOK /\ DisableLedgerOK /\ DeletePhraseOK
    /\ DeauthorizeOK /\ AddPhraseOK /\ ImportLedgerOK

\* What an operation works with: an account from its first stage on, never the
\* device's key as a new one, and a key of the right sort where it is used.
OpTyped ==
    /\ op.pc # "idle" => op.acct \in Accounts
    /\ op.new # Device
    /\ op.pc = "addLimited" => op.new \in Fresh
    /\ op.pc = "addFull" => op.new # NoKey
    /\ op.pc = "postPhrase" => op.new \in Phrases
    /\ op.pc = "save" => op.kind = "importLedger"

TypeInv == TypeOK /\ OpTyped

\* No key has full and limited access.
OneAccess == \A a \in Accounts : full[a] \intersect limited[a] = {}

\* While a Ledger is shown it is the Ledger that signs.
LedgerShown ==
    shown.ledger /\ op.kind # "disableLedger" => LedgerSigns(active)

IInv == TypeInv /\ RecoveryRemains /\ OperationOK /\ OneAccess /\ LedgerShown

-----------------------------------------------------------------------------
(* Transactions.                                                           *)

Grants(a, k) == /\ full' = [full EXCEPT ![a] = @ \union {k}]
                /\ limited' = limited
GrantsLimited(a, k) == /\ full' = full
                       /\ limited' = [limited EXCEPT ![a] = @ \union {k}]
Revokes(a, k) == /\ full' = [full EXCEPT ![a] = @ \ {k}]
                 /\ limited' = [limited EXCEPT ![a] = @ \ {k}]

\* What the chain does with what an operation sends.
LEMMA Effect ==
    ASSUME TypeOK, NEW tx \in Sends, Takes(tx)
    PROVE  /\ op.pc \in {"addDevice", "addFull", "addLimited", "delete", "deleteLocal",
                        "dropKey"}
           /\ CanSign(op.acct)
           /\ op.pc = "addDevice" =>
                 Device \notin OnChain(op.acct) /\ Grants(op.acct, Device)
           /\ op.pc = "addFull" =>
                 op.new \notin OnChain(op.acct) /\ Grants(op.acct, op.new)
           /\ op.pc = "addLimited" =>
                 op.new \notin OnChain(op.acct) /\ GrantsLimited(op.acct, op.new)
           /\ op.pc = "delete" =>
                 tx.key \in op.keys /\ Revokes(op.acct, tx.key)
           /\ op.pc \in {"deleteLocal", "dropKey"} => Revokes(op.acct, op.key)
<1>0. Acceptable(tx)
  BY DEF Takes
<1>t. /\ full \in [Accounts -> SUBSET Keys] /\ limited \in [Accounts -> SUBSET Fresh]
  BY DEF TypeOK
<1>1. CASE op.pc = "addDevice"
  <2>1. tx = [does |-> "addFull", key |-> Device]
    BY <1>1 DEF Sends
  <2>2. Grants(op.acct, Device)
    BY <2>1, <1>t DEF Takes, Grants
  <2> QED BY <1>0, <1>1, <2>1, <2>2 DEF Acceptable
<1>2. CASE op.pc = "addFull"
  <2>1. tx = [does |-> "addFull", key |-> op.new]
    BY <1>2 DEF Sends
  <2>2. Grants(op.acct, op.new)
    BY <2>1, <1>t DEF Takes, Grants
  <2> QED BY <1>0, <1>2, <2>1, <2>2 DEF Acceptable
<1>3. CASE op.pc = "addLimited"
  <2>1. tx = [does |-> "addLimited", key |-> op.new]
    BY <1>3 DEF Sends
  <2>2. GrantsLimited(op.acct, op.new)
    BY <2>1, <1>t DEF Takes, GrantsLimited
  <2> QED BY <1>0, <1>3, <2>1, <2>2 DEF Acceptable
<1>4. CASE op.pc = "delete"
  <2>1. PICK k \in op.keys : tx = [does |-> "delete", key |-> k]
    BY <1>4 DEF Sends
  <2>2. Revokes(op.acct, tx.key)
    BY <2>1, <1>t DEF Takes, Revokes
  <2> QED BY <1>0, <1>4, <2>1, <2>2 DEF Acceptable
<1>5. CASE op.pc \in {"deleteLocal", "dropKey"}
  <2>1. tx = [does |-> "delete", key |-> op.key]
    BY <1>5 DEF Sends
  <2>2. Revokes(op.acct, op.key)
    BY <2>1, <1>t DEF Takes, Revokes
  <2> QED BY <1>0, <1>5, <2>1, <2>2 DEF Acceptable
<1>6. op.pc \in {"addDevice", "addFull", "addLimited", "delete", "deleteLocal", "dropKey"}
  BY DEF Sends
<1> QED BY <1>1, <1>2, <1>3, <1>4, <1>5, <1>6

-----------------------------------------------------------------------------
(* Types, whatever is switched to, gone back to or lost on the way.        *)

ShownType == [full : SUBSET Keys, methods : SUBSET (Phrases \union {Device}),
              ledger : BOOLEAN, inUse : Keys \union {NoKey}]

\* The variables that the end of an operation leaves to what came before it.
BaseTyped ==
    /\ full \in [Accounts -> SUBSET Keys] /\ limited \in [Accounts -> SUBSET Fresh]
    /\ methods \in [Accounts -> SUBSET (Phrases \union {Device})]
    /\ store \in [Accounts -> Phrases \union Fresh \union {NoKey}]
    /\ blob \in [Accounts -> Phrases \union Fresh \union {NoKey}]
    /\ encrypted \in BOOLEAN /\ marked \in BOOLEAN
    /\ active \in Accounts

\* What the screens read is of the type of what they show.
LEMMA ReadsTyped ==
    ASSUME BaseTyped', NEW p, NEW old \in ShownType, Reads(p, old)
    PROVE  shown' \in ShownType
<1>1. full'[active'] \in SUBSET Keys /\ Methods(active)' \in SUBSET (Phrases \union {Device})
  BY DEF BaseTyped, Methods
<1>2. LedgerSigns(active)' \in BOOLEAN
  BY DEF BaseTyped, LedgerSigns
<1>3. Signer(active)' \in Keys \union {NoKey}
  BY DEF BaseTyped, Signer, Keys
<1> HIDE DEF ShownType
<1>4. (p = "profile" /\ LedgerSigns(active)') \in BOOLEAN
  BY <1>2
<1> QED BY <1>1, <1>3, <1>4 DEF Reads, ShownType

LEMMA ShowsLedgerTyped ==
    ASSUME BaseTyped', shown \in ShownType, NEW keys \in SUBSET Keys, ShowsLedger(keys)
    PROVE  shown' \in ShownType
<1>1. Methods(active)' \in SUBSET (Phrases \union {Device}) /\ LedgerSigns(active)' \in BOOLEAN
  BY DEF BaseTyped, Methods, LedgerSigns
<1> QED BY <1>1 DEF ShowsLedger, ShownType

\* An operation ends in a state of the right type.
LEMMA EndsTyped ==
    ASSUME TypeInv, BaseTyped', active' = active \/ op.kind = "importLedger", Succeeds \/ Fails
    PROVE  TypeInv'
<1>1. op' = Idle /\ page' \in Pages
  BY DEF Succeeds, Fails, TypeInv, TypeOK, Pages
<1>2. shown' \in ShownType
  <2>0. /\ shown \in ShownType /\ NothingShown \in ShownType
        /\ Methods(active)' \in SUBSET (Phrases \union {Device})
        /\ full'[active'] \in SUBSET Keys
    BY DEF TypeInv, TypeOK, ShownType, NothingShown, BaseTyped, Methods
  <2>1. shown.full \in SUBSET Keys
    BY <2>0 DEF ShownType
  <2>2. ASSUME NEW p, Reads(p, shown) PROVE shown' \in ShownType
    BY <2>0, <2>2, ReadsTyped
  <2>3. ASSUME NEW p, Reads(p, NothingShown) PROVE shown' \in ShownType
    BY <2>0, <2>3, ReadsTyped
  <2>4. ASSUME ShowsLedger(shown.full) PROVE shown' \in ShownType
    BY <2>0, <2>1, <2>4, ShowsLedgerTyped
  <2>5. ASSUME active' = active, ShowsLedger(full'[active]) PROVE shown' \in ShownType
    BY <2>0, <2>5, ShowsLedgerTyped
  <2>6. ASSUME shown' = [shown EXCEPT !.methods = Methods(active)'] PROVE shown' \in ShownType
    BY <2>0, <2>6 DEF ShownType
  <2>7. ASSUME active' = active, shown' = [shown EXCEPT !.full = full'[active]]
        PROVE  shown' \in ShownType
    BY <2>0, <2>7 DEF ShownType
  <2>8. CASE Succeeds
    <3>1. CASE op.kind = "addLedger"
      BY <2>2, <2>8, <3>1 DEF Succeeds
    <3>2. CASE op.kind = "reconnect"
      BY <2>4, <2>8, <3>2 DEF Succeeds
    <3>3. CASE op.kind = "disableLedger"
      BY <2>5, <2>8, <3>3 DEF Succeeds
    <3>4. CASE op.kind = "deletePhrase"
      BY <2>6, <2>8, <3>4 DEF Succeeds
    <3>5. CASE op.kind = "deauthorize"
      BY <2>7, <2>8, <3>5 DEF Succeeds
    <3>6. CASE op.kind = "importLedger"
      BY <2>3, <2>8, <3>6 DEF Succeeds
    <3>7. CASE op.kind \notin {"addLedger", "reconnect", "disableLedger", "deletePhrase",
                               "deauthorize", "importLedger"}
      BY <2>2, <2>8, <3>7 DEF Succeeds
    <3> QED BY <3>1, <3>2, <3>3, <3>4, <3>5, <3>6, <3>7
  <2>9. CASE Fails
    <3>1. CASE op.kind = "disableLedger"
      BY <2>5, <2>9, <3>1 DEF Fails
    <3>2. CASE op.kind = "addPhrase"
      BY <2>2, <2>9, <3>2 DEF Fails
    <3>3. CASE op.kind \notin {"disableLedger", "addPhrase"}
      BY <2>0, <2>9, <3>3 DEF Fails
    <3> QED BY <3>1, <3>2, <3>3
  <2> QED BY <2>8, <2>9
<1>3. OpTyped'
  BY <1>1, KeysAssumption DEF OpTyped, Idle, Keys
<1>4. op' \in [kind : Operations, pc : Stages, acct : Accounts \union {NoAccount},
               keys : SUBSET Keys, key : Keys \union {NoKey}, new : Keys \union {NoKey}]
  BY <1>1 DEF Idle, Operations, Stages
<1> QED BY <1>1, <1>2, <1>3, <1>4 DEF TypeInv, TypeOK, BaseTyped, ShownType

\* A transaction leaves sets of keys.
LEMMA TakesTyped ==
    ASSUME TypeInv, NEW tx \in Sends, Takes(tx)
    PROVE  full' \in [Accounts -> SUBSET Keys] /\ limited' \in [Accounts -> SUBSET Fresh]
<1>0. /\ full \in [Accounts -> SUBSET Keys] /\ limited \in [Accounts -> SUBSET Fresh]
      /\ op.new \in Keys \union {NoKey} /\ Device \in Keys
  BY DEF TypeInv, TypeOK, Keys
<1>1. TypeOK
  BY DEF TypeInv
<1>2. /\ op.pc \in {"addDevice", "addFull", "addLimited", "delete", "deleteLocal", "dropKey"}
      /\ op.pc = "addDevice" => Grants(op.acct, Device)
      /\ op.pc = "addFull" => Grants(op.acct, op.new)
      /\ op.pc = "addLimited" => GrantsLimited(op.acct, op.new)
      /\ op.pc = "delete" => Revokes(op.acct, tx.key)
      /\ op.pc \in {"deleteLocal", "dropKey"} => Revokes(op.acct, op.key)
  BY <1>1, Effect
<1> QED BY <1>0, <1>2 DEF Grants, GrantsLimited, Revokes, TypeInv, OpTyped

\* Every step leaves a state of the right type.
LEMMA TypeStep ==
    ASSUME TypeInv, [Next]_vars
    PROVE  TypeInv'
<1> USE KeysAssumption DEF Keys
<1>a. /\ BaseTyped /\ shown \in ShownType /\ page \in Pages /\ NothingShown \in ShownType
      /\ op \in [kind : Operations, pc : Stages, acct : Accounts \union {NoAccount},
                 keys : SUBSET Keys, key : Keys \union {NoKey}, new : Keys \union {NoKey}]
  BY DEF TypeInv, TypeOK, BaseTyped, ShownType, NothingShown
\* A stage that ends the operation, and one that only goes on with it.
<1>b. ASSUME BaseTyped', active' = active \/ op.kind = "importLedger", Succeeds \/ Fails
      PROVE  TypeInv'
  BY <1>b, EndsTyped
<1>c. ASSUME BaseTyped', shown' \in ShownType, page' \in Pages, op' = op
      PROVE  TypeInv'
  BY <1>a, <1>c DEF TypeInv, TypeOK, BaseTyped, ShownType, OpTyped
<1>d. ASSUME BaseTyped', shown' = shown, page' = page, OpTyped',
             op' \in [kind : Operations, pc : Stages, acct : Accounts \union {NoAccount},
                     keys : SUBSET Keys, key : Keys \union {NoKey}, new : Keys \union {NoKey}]
      PROVE  TypeInv'
  BY <1>a, <1>d DEF TypeInv, TypeOK, BaseTyped, ShownType
<1>e. ASSUME \E tx \in Sends : Takes(tx)
      PROVE  full' \in [Accounts -> SUBSET Keys] /\ limited' \in [Accounts -> SUBSET Fresh]
  BY <1>e, TakesTyped
<1> USE <1>a
<1>1. ASSUME \E p \in Pages : Visit(p) PROVE TypeInv'
  <2>1. PICK p \in Pages : Visit(p)
    BY <1>1
  <2>2. BaseTyped' /\ page' \in Pages /\ op' = op
    BY <2>1 DEF Visit, BaseTyped, chain, saved
  <2>3. PICK q, old : old \in ShownType /\ Reads(q, old)
    BY <2>1 DEF Visit
  <2> QED BY <1>c, <2>2, <2>3, ReadsTyped
<1>2. ASSUME \E a \in Accounts : Switch(a) PROVE TypeInv'
  <2>1. PICK a \in Accounts : Switch(a)
    BY <1>2
  <2>2. BaseTyped' /\ page' \in Pages /\ op' = op
    BY <2>1 DEF Switch, BaseTyped, chain, saved
  <2>3. PICK q, old : old \in ShownType /\ Reads(q, old)
    BY <2>1 DEF Switch
  <2> QED BY <1>c, <2>2, <2>3, ReadsTyped
<1>3. ASSUME Reload PROVE TypeInv'
  <2>1. BaseTyped' /\ page' \in Pages /\ op' = Idle
    BY <1>3 DEF Reload, BaseTyped, chain
  <2>2. shown' \in ShownType
    BY <1>3, <2>1, ReadsTyped DEF Reload
  <2> QED BY <2>1, <2>2 DEF TypeInv, TypeOK, BaseTyped, ShownType, OpTyped, Idle, Operations,
            Stages
<1>4. ASSUME \E kind \in {"addLedger", "reconnect"} : StartAddLedger(kind) PROVE TypeInv'
  <2>0. PICK kind \in {"addLedger", "reconnect"} : StartAddLedger(kind)
    BY <1>4
  <2>2. BaseTyped'
    BY <2>0 DEF StartAddLedger, BaseTyped, chain, saved, TypeInv, OpTyped
  <2>3. /\ op' \in [kind : Operations, pc : Stages, acct : Accounts \union {NoAccount},
                     keys : SUBSET Keys, key : Keys \union {NoKey}, new : Keys \union {NoKey}]
        /\ OpTyped'
    BY <2>0 DEF StartAddLedger, BaseTyped, Begin, Operations, Stages, TypeInv, OpTyped, Idle
  <2> QED BY <2>0, <1>d, <2>2, <2>3 DEF StartAddLedger
<1>5. ASSUME AddLedgerReads PROVE TypeInv'
  <2>1. BaseTyped'
    BY <1>5 DEF AddLedgerReads, BaseTyped, chain, saved
  <2>2. CASE Device \in OnChain(op.acct)
    BY <1>5, <1>b, <2>1, <2>2 DEF AddLedgerReads
  <2>3. CASE Device \notin OnChain(op.acct)
    <3>1. op' = [op EXCEPT !.pc = "addDevice"] /\ page' = page /\ shown' = shown
      BY <1>5, <2>3 DEF AddLedgerReads
    <3>2. op.acct \in Accounts
      BY <1>5 DEF AddLedgerReads, TypeInv, OpTyped
    <3>3. OpTyped'
      BY <3>1, <3>2 DEF OpTyped, TypeInv
    <3>4. op' \in [kind : Operations, pc : Stages, acct : Accounts \union {NoAccount},
                  keys : SUBSET Keys, key : Keys \union {NoKey}, new : Keys \union {NoKey}]
      BY <3>1 DEF Stages
    <3> QED BY <1>d, <2>1, <3>1, <3>3, <3>4
  <2> QED BY <2>2, <2>3
<1>6. ASSUME AddLedgerAdds PROVE TypeInv'
  <2>1. \E tx \in Sends : Takes(tx)
    BY <1>6 DEF AddLedgerAdds
  <2>2. BaseTyped'
    BY <1>6, <1>e, <2>1 DEF AddLedgerAdds, BaseTyped, saved, TypeInv, OpTyped
  <2>3. /\ op' \in [kind : Operations, pc : Stages, acct : Accounts \union {NoAccount},
                     keys : SUBSET Keys, key : Keys \union {NoKey}, new : Keys \union {NoKey}]
        /\ OpTyped'
    BY <1>6 DEF AddLedgerAdds, BaseTyped, Begin, Operations, Stages, TypeInv, OpTyped, Idle
  <2> QED BY <1>6, <1>d, <2>2, <2>3 DEF AddLedgerAdds
<1>7. ASSUME AddLedgerPosts PROVE TypeInv'
  <2>2. BaseTyped'
    BY <1>7 DEF AddLedgerPosts, BaseTyped, chain, saved
  <2> QED BY <1>7, <1>b, <2>2 DEF AddLedgerPosts
<1>8. ASSUME StartRemoveOthers PROVE TypeInv'
  <2>2. BaseTyped'
    BY <1>8 DEF StartRemoveOthers, BaseTyped, chain, saved, TypeInv, OpTyped
  <2>3. /\ op' \in [kind : Operations, pc : Stages, acct : Accounts \union {NoAccount},
                     keys : SUBSET Keys, key : Keys \union {NoKey}, new : Keys \union {NoKey}]
        /\ OpTyped'
    BY <1>8 DEF StartRemoveOthers, BaseTyped, Begin, Operations, Stages, TypeInv, OpTyped, Idle
  <2> QED BY <1>8, <1>d, <2>2, <2>3 DEF StartRemoveOthers
<1>9. ASSUME RemoveOthersReads PROVE TypeInv'
  <2>1. BaseTyped'
    BY <1>9 DEF RemoveOthersReads, BaseTyped, chain, saved
  <2> DEFINE local  == IF store[active] \in OnChain(op.acct) THEN store[active] ELSE NoKey
             others == full[op.acct] \ ({local} \union (IF marked THEN {Device} ELSE {}))
  <2>2. local \in Keys \union {NoKey} /\ others \in SUBSET Keys
    BY <1>9 DEF RemoveOthersReads, TypeInv, OpTyped, BaseTyped
  <2>3. PICK k \in IF local \in limited[op.acct] THEN {NoKey} ELSE Unused :
          op' = [op EXCEPT !.pc = IF k = NoKey THEN "delete" ELSE "addLimited",
                           !.acct = active, !.keys = others, !.key = local, !.new = k]
    BY <1>9, Zenon DEF RemoveOthersReads
  <2>4. k \in Fresh \union {NoKey}
    BY <2>3 DEF Unused
  <2> HIDE DEF local, others
  <2>5. op' \in [kind : Operations, pc : Stages, acct : Accounts \union {NoAccount},
                keys : SUBSET Keys, key : Keys \union {NoKey}, new : Keys \union {NoKey}]
    BY <2>2, <2>3, <2>4 DEF BaseTyped, Stages
  <2>6. OpTyped'
    BY <2>3, <2>4 DEF BaseTyped, OpTyped
  <2> QED BY <1>9, <1>d, <2>1, <2>5, <2>6 DEF RemoveOthersReads
<1>10. ASSUME RemoveOthersAddsKey PROVE TypeInv'
  <2>1. \E tx \in Sends : Takes(tx)
    BY <1>10 DEF RemoveOthersAddsKey
  <2>2. BaseTyped'
    BY <1>10, <1>e, <2>1 DEF RemoveOthersAddsKey, BaseTyped, saved, TypeInv, OpTyped
  <2>3. /\ op' \in [kind : Operations, pc : Stages, acct : Accounts \union {NoAccount},
                     keys : SUBSET Keys, key : Keys \union {NoKey}, new : Keys \union {NoKey}]
        /\ OpTyped'
    BY <1>10 DEF RemoveOthersAddsKey, BaseTyped, Begin, Operations, Stages, TypeInv, OpTyped,
            Idle
  <2> QED BY <1>10, <1>d, <2>2, <2>3 DEF RemoveOthersAddsKey
<1>11. ASSUME RemoveOthersDeletes PROVE TypeInv'
  <2>1. \E tx \in Sends : Takes(tx)
    BY <1>11 DEF RemoveOthersDeletes
  <2>2. BaseTyped'
    BY <1>11, <1>e, <2>1 DEF RemoveOthersDeletes, BaseTyped, saved, TypeInv, OpTyped
  <2>3. /\ op' \in [kind : Operations, pc : Stages, acct : Accounts \union {NoAccount},
                     keys : SUBSET Keys, key : Keys \union {NoKey}, new : Keys \union {NoKey}]
        /\ OpTyped'
    BY <1>11 DEF RemoveOthersDeletes, BaseTyped, Begin, Operations, Stages, TypeInv, OpTyped,
            Idle
  <2> QED BY <1>11, <1>d, <2>2, <2>3 DEF RemoveOthersDeletes
<1>12. ASSUME RemoveOthersReadsMethods PROVE TypeInv'
  <2>2. BaseTyped'
    BY <1>12 DEF RemoveOthersReadsMethods, BaseTyped, chain, saved, TypeInv, OpTyped
  <2>3. /\ op' \in [kind : Operations, pc : Stages, acct : Accounts \union {NoAccount},
                     keys : SUBSET Keys, key : Keys \union {NoKey}, new : Keys \union {NoKey}]
        /\ OpTyped'
    BY <1>12 DEF RemoveOthersReadsMethods, BaseTyped, Begin, Operations, Stages, TypeInv,
            OpTyped, Idle, Methods
  <2> QED BY <1>12, <1>d, <2>2, <2>3 DEF RemoveOthersReadsMethods
<1>13. ASSUME DropReads PROVE TypeInv'
  <2>1. BaseTyped'
    BY <1>13 DEF DropReads, BaseTyped, chain, saved
  <2>2. PICK k \in op.keys :
          op' = [op EXCEPT !.pc = IF k \in OnChain(active) THEN "dropKey" ELSE "dropMethod",
                           !.acct = active, !.key = k]
    BY <1>13, Zenon DEF DropReads
  <2>3. op' \in [kind : Operations, pc : Stages, acct : Accounts \union {NoAccount},
                keys : SUBSET Keys, key : Keys \union {NoKey}, new : Keys \union {NoKey}]
    BY <2>2 DEF BaseTyped, Stages
  <2>4. OpTyped'
    BY <2>2 DEF BaseTyped, OpTyped, TypeInv
  <2> QED BY <1>13, <1>d, <2>1, <2>3, <2>4 DEF DropReads
<1>14. ASSUME DropKey PROVE TypeInv'
  <2>1. \E tx \in Sends : Takes(tx)
    BY <1>14 DEF DropKey
  <2>2. BaseTyped'
    BY <1>14, <1>e, <2>1 DEF DropKey, BaseTyped, saved, TypeInv, OpTyped
  <2>3. /\ op' \in [kind : Operations, pc : Stages, acct : Accounts \union {NoAccount},
                     keys : SUBSET Keys, key : Keys \union {NoKey}, new : Keys \union {NoKey}]
        /\ OpTyped'
    BY <1>14 DEF DropKey, BaseTyped, Begin, Operations, Stages, TypeInv, OpTyped, Idle
  <2> QED BY <1>14, <1>d, <2>2, <2>3 DEF DropKey
<1>15. ASSUME DropMethod PROVE TypeInv'
  <2>2. BaseTyped'
    BY <1>15 DEF DropMethod, BaseTyped, chain, saved, TypeInv, OpTyped
  <2>3. /\ op' \in [kind : Operations, pc : Stages, acct : Accounts \union {NoAccount},
                     keys : SUBSET Keys, key : Keys \union {NoKey}, new : Keys \union {NoKey}]
        /\ OpTyped'
    BY <1>15 DEF DropMethod, BaseTyped, Begin, Operations, Stages, TypeInv, OpTyped, Idle
  <2> QED BY <1>15, <1>d, <2>2, <2>3 DEF DropMethod
<1>16. ASSUME StartDisableLedger PROVE TypeInv'
  <2>2. BaseTyped'
    BY <1>16 DEF StartDisableLedger, BaseTyped, chain, saved, TypeInv, OpTyped
  <2>3. /\ op' \in [kind : Operations, pc : Stages, acct : Accounts \union {NoAccount},
                     keys : SUBSET Keys, key : Keys \union {NoKey}, new : Keys \union {NoKey}]
        /\ OpTyped'
    BY <1>16 DEF StartDisableLedger, BaseTyped, Begin, Operations, Stages, TypeInv, OpTyped,
            Idle, Unused
  <2> QED BY <1>16, <1>d, <2>2, <2>3 DEF StartDisableLedger
<1>17. ASSUME DisableLedgerAddsKey PROVE TypeInv'
  <2>1. \E tx \in Sends : Takes(tx)
    BY <1>17 DEF DisableLedgerAddsKey
  <2>2. BaseTyped'
    BY <1>17, <1>e, <2>1 DEF DisableLedgerAddsKey, BaseTyped, saved, TypeInv, OpTyped
  <2>3. /\ op' \in [kind : Operations, pc : Stages, acct : Accounts \union {NoAccount},
                     keys : SUBSET Keys, key : Keys \union {NoKey}, new : Keys \union {NoKey}]
        /\ OpTyped'
    BY <1>17 DEF DisableLedgerAddsKey, BaseTyped, Begin, Operations, Stages, TypeInv, OpTyped,
            Idle
  <2> QED BY <1>17, <1>d, <2>2, <2>3 DEF DisableLedgerAddsKey
<1>18. ASSUME DisableLedgerAsksDevice PROVE TypeInv'
  <2>2. BaseTyped'
    BY <1>18 DEF DisableLedgerAsksDevice, BaseTyped, chain, saved, TypeInv, OpTyped
  <2>3. /\ op' \in [kind : Operations, pc : Stages, acct : Accounts \union {NoAccount},
                     keys : SUBSET Keys, key : Keys \union {NoKey}, new : Keys \union {NoKey}]
        /\ OpTyped'
    BY <1>18 DEF DisableLedgerAsksDevice, BaseTyped, Begin, Operations, Stages, TypeInv,
            OpTyped, Idle
  <2> QED BY <1>18, <1>d, <2>2, <2>3 DEF DisableLedgerAsksDevice
<1>19. ASSUME DisableLedgerDeletes PROVE TypeInv'
  <2>1. \E tx \in Sends : Takes(tx)
    BY <1>19 DEF DisableLedgerDeletes
  <2>2. BaseTyped'
    BY <1>19, <1>e, <2>1 DEF DisableLedgerDeletes, BaseTyped, saved, TypeInv, OpTyped
  <2>3. /\ op' \in [kind : Operations, pc : Stages, acct : Accounts \union {NoAccount},
                     keys : SUBSET Keys, key : Keys \union {NoKey}, new : Keys \union {NoKey}]
        /\ OpTyped'
    BY <1>19 DEF DisableLedgerDeletes, BaseTyped, Begin, Operations, Stages, TypeInv, OpTyped,
            Idle
  <2> QED BY <1>19, <1>d, <2>2, <2>3 DEF DisableLedgerDeletes
<1>20. ASSUME \E k \in Keys : StartDeletePhrase(k) PROVE TypeInv'
  <2>0. PICK k \in Keys : StartDeletePhrase(k)
    BY <1>20
  <2>2. BaseTyped'
    BY <2>0 DEF StartDeletePhrase, BaseTyped, chain, saved, TypeInv, OpTyped
  <2>3. /\ op' \in [kind : Operations, pc : Stages, acct : Accounts \union {NoAccount},
                     keys : SUBSET Keys, key : Keys \union {NoKey}, new : Keys \union {NoKey}]
        /\ OpTyped'
    BY <2>0 DEF StartDeletePhrase, BaseTyped, Begin, Operations, Stages, TypeInv, OpTyped, Idle
  <2> QED BY <2>0, <1>d, <2>2, <2>3 DEF StartDeletePhrase
<1>21. ASSUME \E k \in Keys, proof \in Phrases : StartDeauthorize(k, proof) PROVE TypeInv'
  <2>0. PICK k \in Keys, proof \in Phrases : StartDeauthorize(k, proof)
    BY <1>21
  <2>2. BaseTyped'
    BY <2>0 DEF StartDeauthorize, BaseTyped, chain, saved, TypeInv, OpTyped
  <2>3. /\ op' \in [kind : Operations, pc : Stages, acct : Accounts \union {NoAccount},
                     keys : SUBSET Keys, key : Keys \union {NoKey}, new : Keys \union {NoKey}]
        /\ OpTyped'
    BY <2>0 DEF StartDeauthorize, BaseTyped, Begin, Operations, Stages, TypeInv, OpTyped, Idle
  <2> QED BY <2>0, <1>d, <2>2, <2>3 DEF StartDeauthorize
<1>22. ASSUME DeauthorizeDeletes PROVE TypeInv'
  <2>1. \E tx \in Sends : Takes(tx)
    BY <1>22 DEF DeauthorizeDeletes
  <2>2. BaseTyped'
    BY <1>22, <1>e, <2>1 DEF DeauthorizeDeletes, BaseTyped, saved
  <2> QED BY <1>22, <1>b, <2>2 DEF DeauthorizeDeletes
<1>23. ASSUME \E k \in Keys : StartAddPhrase(k) PROVE TypeInv'
  <2>0. PICK k \in Keys : StartAddPhrase(k)
    BY <1>23
  <2>2. BaseTyped'
    BY <2>0 DEF StartAddPhrase, BaseTyped, chain, saved, TypeInv, OpTyped
  <2>3. /\ op' \in [kind : Operations, pc : Stages, acct : Accounts \union {NoAccount},
                     keys : SUBSET Keys, key : Keys \union {NoKey}, new : Keys \union {NoKey}]
        /\ OpTyped'
    BY <2>0 DEF StartAddPhrase, BaseTyped, Begin, Operations, Stages, TypeInv, OpTyped, Idle
  <2> QED BY <2>0, <1>d, <2>2, <2>3 DEF StartAddPhrase
<1>24. ASSUME AddPhrasePosts PROVE TypeInv'
  <2>2. BaseTyped'
    BY <1>24 DEF AddPhrasePosts, BaseTyped, chain, saved, TypeInv, OpTyped
  <2>3. /\ op' \in [kind : Operations, pc : Stages, acct : Accounts \union {NoAccount},
                     keys : SUBSET Keys, key : Keys \union {NoKey}, new : Keys \union {NoKey}]
        /\ OpTyped'
    BY <1>24 DEF AddPhrasePosts, BaseTyped, Begin, Operations, Stages, TypeInv, OpTyped, Idle
  <2> QED BY <1>24, <1>d, <2>2, <2>3 DEF AddPhrasePosts
<1>25. ASSUME \E k \in Phrases, as \in SUBSET Accounts : ImportPhrase(k, as) PROVE TypeInv'
  <2>1. PICK k \in Phrases, as \in SUBSET Accounts : ImportPhrase(k, as)
    BY <1>25
  <2>2. BaseTyped' /\ page' \in Pages /\ op' = op
    BY <2>1 DEF ImportPhrase, BaseTyped, chain, saved, Saves, Pages
  <2>3. PICK q, old : old \in ShownType /\ Reads(q, old)
    BY <2>1 DEF ImportPhrase
  <2> QED BY <1>c, <2>2, <2>3, ReadsTyped
<1>26. ASSUME \E a \in Accounts : StartImportLedger(a) PROVE TypeInv'
  <2>0. PICK a \in Accounts : StartImportLedger(a)
    BY <1>26
  <2>2. BaseTyped'
    BY <2>0 DEF StartImportLedger, BaseTyped, chain, saved, TypeInv, OpTyped
  <2>3. /\ op' \in [kind : Operations, pc : Stages, acct : Accounts \union {NoAccount},
                     keys : SUBSET Keys, key : Keys \union {NoKey}, new : Keys \union {NoKey}]
        /\ OpTyped'
    BY <2>0 DEF StartImportLedger, BaseTyped, Begin, Operations, Stages, TypeInv, OpTyped,
            Idle, Unused
  <2> QED BY <2>0, <1>d, <2>2, <2>3 DEF StartImportLedger
<1>27. ASSUME ImportLedgerAddsKey PROVE TypeInv'
  <2>1. \E tx \in Sends : Takes(tx)
    BY <1>27 DEF ImportLedgerAddsKey
  <2>2. BaseTyped'
    BY <1>27, <1>e, <2>1 DEF ImportLedgerAddsKey, BaseTyped, saved, TypeInv, OpTyped
  <2>3. /\ op' \in [kind : Operations, pc : Stages, acct : Accounts \union {NoAccount},
                     keys : SUBSET Keys, key : Keys \union {NoKey}, new : Keys \union {NoKey}]
        /\ OpTyped'
    BY <1>27 DEF ImportLedgerAddsKey, BaseTyped, Begin, Operations, Stages, TypeInv, OpTyped,
            Idle
  <2> QED BY <1>27, <1>d, <2>2, <2>3 DEF ImportLedgerAddsKey
<1>28. ASSUME ImportLedgerSaves PROVE TypeInv'
  <2>0. op.acct \in Accounts /\ op.new \in Phrases \union Fresh \union {NoKey}
    BY <1>28 DEF ImportLedgerSaves, TypeInv, OpTyped
  <2>1. /\ store' \in [Accounts -> Phrases \union Fresh \union {NoKey}]
        /\ blob' \in [Accounts -> Phrases \union Fresh \union {NoKey}]
        /\ encrypted' \in BOOLEAN
    BY <1>28, <2>0 DEF ImportLedgerSaves, Saves, BaseTyped
  <2>2. BaseTyped'
    BY <1>28, <2>0, <2>1 DEF ImportLedgerSaves, BaseTyped, chain
  <2>3. op.kind = "importLedger"
    BY <1>28 DEF ImportLedgerSaves, TypeInv, OpTyped
  <2> QED BY <1>28, <1>b, <2>2, <2>3 DEF ImportLedgerSaves
<1>29. ASSUME RemoveOthersReplacesKey PROVE TypeInv'
  <2>1. full' \in [Accounts -> SUBSET Keys] /\ limited' \in [Accounts -> SUBSET Fresh]
    BY <1>29, <1>e DEF RemoveOthersReplacesKey, BaseTyped, chain
  <2>2. op.new \in Phrases \union Fresh \union {NoKey}
    BY DEF TypeInv, OpTyped
  <2>3. store' \in [Accounts -> Phrases \union Fresh \union {NoKey}]
    BY <1>29, <2>2 DEF RemoveOthersReplacesKey, BaseTyped
  <2>4. BaseTyped'
    BY <1>29, <2>1, <2>3 DEF RemoveOthersReplacesKey, BaseTyped
  <2>5. \E pc \in {"deleteLocal", "methods"} : op.pc # "idle" /\ op' = [op EXCEPT !.pc = pc]
    BY <1>29 DEF RemoveOthersReplacesKey
  <2>6. op' \in [kind : Operations, pc : Stages, acct : Accounts \union {NoAccount},
                keys : SUBSET Keys, key : Keys \union {NoKey}, new : Keys \union {NoKey}]
    BY <2>5 DEF Stages
  <2>7. OpTyped'
    BY <2>5 DEF OpTyped, TypeInv
  <2> QED BY <1>29, <1>d, <2>4, <2>6, <2>7 DEF RemoveOthersReplacesKey
<1>30. ASSUME DropEnds PROVE TypeInv'
  <2>2. BaseTyped'
    BY <1>30 DEF DropEnds, BaseTyped, chain, saved
  <2> QED BY <1>30, <1>b, <2>2 DEF DropEnds
<1>31. ASSUME AddPhraseAdds PROVE TypeInv'
  <2>1. full' \in [Accounts -> SUBSET Keys] /\ limited' \in [Accounts -> SUBSET Fresh]
    BY <1>31, <1>e DEF AddPhraseAdds, BaseTyped, chain
  <2>2. BaseTyped'
    BY <1>31, <2>1 DEF AddPhraseAdds, BaseTyped, saved
  <2> QED BY <1>31, <1>b, <2>2 DEF AddPhraseAdds
<1>32. ASSUME Refused PROVE TypeInv'
  <2>2. BaseTyped'
    BY <1>32 DEF Refused, BaseTyped, chain, saved
  <2> QED BY <1>32, <1>b, <2>2 DEF Refused
<1>33. ASSUME Fault PROVE TypeInv'
  <2>1. UNCHANGED chain \/ \E tx \in Sends : Takes(tx)
    BY <1>33 DEF Fault
  <2>2. BaseTyped'
    BY <1>33, <1>e, <2>1 DEF Fault, BaseTyped, chain, saved
  <2> QED BY <1>33, <1>b, <2>2 DEF Fault
<1>s. CASE UNCHANGED vars
  BY <1>s DEF vars, TypeInv, TypeOK, OpTyped
<1> QED BY <1>1, <1>2, <1>3, <1>4, <1>5, <1>6, <1>7, <1>8, <1>9, <1>10, <1>11, <1>12, <1>13,
   <1>14, <1>15, <1>16, <1>17, <1>18, <1>19, <1>20, <1>21, <1>22, <1>23, <1>24, <1>25, <1>26,
   <1>27, <1>28, <1>29, <1>30, <1>31, <1>32, <1>33, <1>s DEF Next

LEMMA InitTyped == Init => TypeInv
<1> SUFFICES ASSUME Init PROVE TypeInv
  OBVIOUS
<1>1. Methods(active) \in SUBSET (Phrases \union {Device})
  BY DEF Init, Methods
<1>2. LedgerSigns(active) \in BOOLEAN /\ Signer(active) \in Keys \union {NoKey}
  BY DEF Init, LedgerSigns, Signer, Keys
<1>3. shown \in ShownType
  BY <1>1, <1>2 DEF Init, ShownType
<1>4. TypeOK
  BY <1>3 DEF Init, TypeOK, ShownType, Keys, Pages, Stages, Operations, Idle
<1>5. OpTyped
  BY KeysAssumption DEF Init, OpTyped, Idle, Keys
<1> QED BY <1>4, <1>5 DEF TypeInv

\* Keys stay keys and operations keep to the stages they have, also while
\* accounts are switched and answers are lost.
THEOREM Typed == Spec => []TypeOK
<1>1. TypeInv /\ [Next]_vars => TypeInv'
  BY TypeStep
<1>2. TypeInv => TypeOK
  BY DEF TypeInv
<1> QED BY InitTyped, <1>1, <1>2, PTL DEF Spec

-----------------------------------------------------------------------------
(* What a step does to the chain and to the keys of the browser.           *)

\* The chain changes by a transaction of the operation and by nothing else, the
\* key store in five actions.
LEMMA Frame ==
    ASSUME [Next]_vars
    PROVE  /\ UNCHANGED <<full, limited>> \/ \E tx \in Sends : Takes(tx)
           /\ marked' = marked \/ marked' = TRUE
           /\ \/ store' = store
              \/ Reload \/ DisableLedgerAddsKey \/ RemoveOthersReplacesKey
              \/ \E k \in Phrases, as \in SUBSET Accounts : ImportPhrase(k, as)
              \/ ImportLedgerSaves
<1> USE DEF chain, saved
<1>1. CASE UNCHANGED vars
  BY <1>1 DEF vars
<1>2. CASE \/ Refused \/ Fault \/ \E p \in Pages : Visit(p)
           \/ \E a \in Accounts : Switch(a) \/ StartImportLedger(a)
  BY <1>2 DEF Visit, Switch, StartImportLedger, Refused, Fault
<1>3. CASE \/ \E kind \in {"addLedger", "reconnect"} : StartAddLedger(kind)
           \/ AddLedgerReads \/ AddLedgerAdds \/ AddLedgerPosts
  BY <1>3 DEF StartAddLedger, AddLedgerReads, AddLedgerAdds, AddLedgerPosts
<1>4. CASE \/ StartRemoveOthers \/ RemoveOthersReads \/ RemoveOthersAddsKey
           \/ RemoveOthersDeletes \/ RemoveOthersReadsMethods
  BY <1>4 DEF StartRemoveOthers, RemoveOthersReads, RemoveOthersAddsKey, RemoveOthersDeletes,
              RemoveOthersReadsMethods
<1>5. CASE DropReads \/ DropKey \/ DropMethod \/ DropEnds
  BY <1>5 DEF DropReads, DropKey, DropMethod, DropEnds
<1>6. CASE StartDisableLedger \/ DisableLedgerAsksDevice \/ DisableLedgerDeletes
  BY <1>6 DEF StartDisableLedger, DisableLedgerAsksDevice, DisableLedgerDeletes
<1>7. CASE \/ \E k \in Keys : StartDeletePhrase(k) \/ StartAddPhrase(k)
           \/ \E k \in Keys, proof \in Phrases : StartDeauthorize(k, proof)
           \/ DeauthorizeDeletes
  BY <1>7 DEF StartDeletePhrase, StartAddPhrase, StartDeauthorize, DeauthorizeDeletes
<1>8. CASE AddPhrasePosts \/ AddPhraseAdds \/ ImportLedgerAddsKey
  BY <1>8 DEF AddPhrasePosts, AddPhraseAdds, ImportLedgerAddsKey
<1>9. CASE Reload \/ DisableLedgerAddsKey \/ RemoveOthersReplacesKey \/ ImportLedgerSaves
  BY <1>9 DEF Reload, DisableLedgerAddsKey, RemoveOthersReplacesKey, ImportLedgerSaves
<1>10. CASE \E k \in Phrases, as \in SUBSET Accounts : ImportPhrase(k, as)
  BY <1>10 DEF ImportPhrase
<1> QED BY <1>1, <1>2, <1>3, <1>4, <1>5, <1>6, <1>7, <1>8, <1>9, <1>10 DEF Next

Signs(a) == store[a] \in full[a] \/ (marked /\ Device \in full[a])

\* CanSign without the order in which the keys are tried.
LEMMA SignsWith ==
    ASSUME TypeOK, NEW a \in Accounts
    PROVE  /\ LedgerSigns(a) <=> marked /\ Device \in full[a]
           /\ CanSign(a) => Signs(a)
<1>1. Device \in OnChain(a) <=> Device \in full[a]
  BY KeysAssumption DEF TypeOK, OnChain
<1> QED BY <1>1 DEF CanSign, Signer, LedgerSigns, Signs

\* And, with the types, that Signs is enough.
LEMMA SignsEnough ==
    ASSUME TypeOK, NEW a \in Accounts, Signs(a)
    PROVE  CanSign(a)
<1>1. LedgerSigns(a) <=> marked /\ Device \in full[a]
  BY SignsWith
<1> QED BY <1>1 DEF CanSign, Signer, Signs

\* What an operation deletes leaves a key that recovers the account and one that
\* signs; it is the device's only where the Ledger is disabled or does not sign.
LEMMA DeletedKey ==
    ASSUME IInv, op.acct \in Accounts, CanSign(op.acct),
           op.pc \in {"delete", "deleteLocal", "dropKey"},
           NEW k, op.pc = "delete" => k \in op.keys, op.pc # "delete" => k = op.key
    PROVE  /\ (full[op.acct] \ {k}) \intersect (Phrases \union {Device}) # {}
           /\ \/ store[op.acct] \in full[op.acct] \ {k}
              \/ marked /\ Device \in full[op.acct] \ {k}
           /\ op.kind # "disableLedger" /\ LedgerSigns(op.acct) => k # Device
<1> USE DEF IInv, OperationOK
<1>1. CASE op.kind = "removeOthers"
  BY <1>1 DEF RemoveOthersOK
<1>2. CASE op.kind = "disableLedger"
  <2>1. /\ store[active] = op.new /\ op.new \in full[active] /\ op.acct = active
        /\ full[active] \intersect Phrases # {} /\ k \in {Device, NoKey} /\ op.new \in Fresh
    BY <1>2 DEF DisableLedgerOK
  <2>2. k # op.new /\ k \notin Phrases
    BY <2>1, KeysAssumption DEF Keys
  <2> QED BY <1>2, <2>1, <2>2
<1>3. CASE op.kind = "deletePhrase"
  BY <1>3 DEF DeletePhraseOK
<1>4. CASE op.kind = "deauthorize"
  <2>1. /\ k \in op.keys /\ (full[op.acct] \intersect Phrases) \ op.keys # {}
        /\ Signer(op.acct) \notin op.keys
    BY <1>4 DEF DeauthorizeOK
  <2>2. Signer(op.acct) \in full[op.acct] \ {k}
    BY <2>1 DEF CanSign
  <2>3. LedgerSigns(op.acct) => marked /\ Signer(op.acct) = Device
    BY DEF LedgerSigns, Signer
  <2>4. ~LedgerSigns(op.acct) => Signer(op.acct) = store[op.acct]
    BY DEF Signer
  <2> QED BY <2>1, <2>2, <2>3, <2>4
<1>5. op.kind \in {"removeOthers", "disableLedger", "deletePhrase", "deauthorize"}
  BY DEF TypeInv, TypeOK, Operations, Idle, AddLedgerOK, AddPhraseOK, ImportLedgerOK
<1> QED BY <1>1, <1>2, <1>3, <1>4, <1>5

\* No step takes the last key that recovers an account, nor, from what the wallet
\* holds, the last that signs; and while a Ledger is not disabled it goes on signing.
LEMMA ChainStep ==
    ASSUME IInv, [Next]_vars, NEW a \in Accounts
    PROVE  /\ full'[a] \intersect (Phrases \union {Device}) # {}
           /\ full'[a] \intersect limited'[a] = {}
           /\ Signs(a) => store[a] \in full'[a] \/ (marked /\ Device \in full'[a])
           /\ op.kind # "disableLedger" /\ LedgerSigns(a) => LedgerSigns(a)'
<1>t. /\ full \in [Accounts -> SUBSET Keys] /\ limited \in [Accounts -> SUBSET Fresh]
      /\ TypeOK /\ Device \notin Fresh
      /\ full[a] \intersect (Phrases \union {Device}) # {} /\ full[a] \intersect limited[a] = {}
  BY KeysAssumption DEF IInv, TypeInv, TypeOK, RecoveryRemains, OneAccess
<1>l. /\ LedgerSigns(a) <=> marked /\ Device \in full[a]
      /\ LedgerSigns(a)' <=> marked' /\ Device \in full'[a] \union limited'[a]
  BY <1>t, SignsWith DEF LedgerSigns, OnChain
<1>m. marked => marked'
  BY Frame
\* A deletion is the only thing that could take a key.
<1>1. CASE full[a] \subseteq full'[a] /\ full'[a] \intersect limited'[a] = {}
  BY <1>1, <1>t, <1>l, <1>m DEF Signs
<1>2. CASE UNCHANGED <<full, limited>>
  BY <1>1, <1>2, <1>t
<1>3. ASSUME NEW tx \in Sends, Takes(tx)
      PROVE  \/ full[a] \subseteq full'[a] /\ full'[a] \intersect limited'[a] = {}
             \/ /\ op.pc \in {"delete", "deleteLocal", "dropKey"} /\ a = op.acct
                /\ \E k : /\ op.pc = "delete" => k \in op.keys
                          /\ op.pc # "delete" => k = op.key
                          /\ full'[a] = full[a] \ {k} /\ limited'[a] = limited[a] \ {k}
                /\ CanSign(op.acct)
  <2>1. CASE op.pc \in {"addDevice", "addFull", "addLimited"}
    BY <1>3, <1>t, <2>1, Effect DEF Grants, GrantsLimited, OnChain
  <2>2. CASE op.pc \in {"delete", "deleteLocal", "dropKey"}
    <3>1. PICK k : /\ Revokes(op.acct, k) /\ CanSign(op.acct)
                   /\ op.pc = "delete" => k \in op.keys
                   /\ op.pc # "delete" => k = op.key
      BY <1>3, <1>t, <2>2, Effect
    <3>2. CASE a = op.acct
      BY <1>t, <2>2, <3>1, <3>2 DEF Revokes
    <3>3. CASE a # op.acct
      BY <1>t, <3>1, <3>3 DEF Revokes
    <3> QED BY <3>2, <3>3
  <2> QED BY <1>3, <1>t, <2>1, <2>2, Effect
<1>4. ASSUME NEW k, op.pc \in {"delete", "deleteLocal", "dropKey"}, a = op.acct,
             op.pc = "delete" => k \in op.keys, op.pc # "delete" => k = op.key,
             full'[a] = full[a] \ {k}, limited'[a] = limited[a] \ {k}, CanSign(op.acct)
      PROVE  /\ full'[a] \intersect (Phrases \union {Device}) # {}
             /\ full'[a] \intersect limited'[a] = {}
             /\ store[a] \in full'[a] \/ (marked /\ Device \in full'[a])
             /\ op.kind # "disableLedger" /\ LedgerSigns(a) => Device \in full'[a]
  BY <1>4, <1>t, <1>l, DeletedKey
<1>5. ASSUME NEW tx \in Sends, Takes(tx), ~(full[a] \subseteq full'[a] /\ full'[a] \intersect limited'[a] = {})
      PROVE  /\ full'[a] \intersect (Phrases \union {Device}) # {}
             /\ full'[a] \intersect limited'[a] = {}
             /\ Signs(a) => store[a] \in full'[a] \/ (marked /\ Device \in full'[a])
             /\ op.kind # "disableLedger" /\ LedgerSigns(a) => LedgerSigns(a)'
  <2>1. PICK k : /\ op.pc = "delete" => k \in op.keys
                 /\ op.pc # "delete" => k = op.key
                 /\ full'[a] = full[a] \ {k} /\ limited'[a] = limited[a] \ {k}
    BY <1>3, <1>5
  <2>2. op.pc \in {"delete", "deleteLocal", "dropKey"} /\ a = op.acct /\ CanSign(op.acct)
    BY <1>3, <1>5
  <2>3. /\ full'[a] \intersect (Phrases \union {Device}) # {}
        /\ full'[a] \intersect limited'[a] = {}
        /\ store[a] \in full'[a] \/ (marked /\ Device \in full'[a])
        /\ op.kind # "disableLedger" /\ LedgerSigns(a) => Device \in full'[a]
    BY <1>4, <2>1, <2>2
  <2> QED BY <1>l, <1>m, <2>3
<1> QED BY <1>1, <1>2, <1>5, Frame

-----------------------------------------------------------------------------
(* What is shown of the Ledger.                                            *)

\* The Ledger of the account that is active goes on signing.
LEMMA LedgerStays ==
    ASSUME IInv, [Next]_vars, active' = active, op.kind # "disableLedger", LedgerSigns(active)
    PROVE  LedgerSigns(active)'
<1>1. PICK a \in Accounts : a = active
  BY DEF IInv, TypeInv, TypeOK
<1>2. LedgerSigns(a)'
  BY <1>1, ChainStep DEF LedgerSigns, OnChain
<1> QED BY <1>1, <1>2 DEF LedgerSigns, OnChain

\* An operation that ends shows a Ledger only if it has asked for it or there was
\* one before.
LEMMA EndShows ==
    ASSUME IInv, [Next]_vars, Succeeds \/ Fails,
           active' = active \/ (Succeeds /\ op.kind = "importLedger")
    PROVE  LedgerShown'
<1>1. op.kind # "disableLedger" /\ active' = active /\ shown.ledger => LedgerSigns(active)'
  BY LedgerStays DEF IInv, LedgerShown
<1>2. ASSUME NEW old, Reads("profile", old) PROVE shown'.ledger => old.ledger \/ LedgerSigns(active)'
  BY <1>2 DEF Reads
<1>3. ASSUME Reads("ledgerAdded", shown) PROVE shown'.ledger => shown.ledger
  BY <1>3 DEF Reads
<1>4. ASSUME NEW keys, ShowsLedger(keys) PROVE shown'.ledger => LedgerSigns(active)'
  <2>1. shown' = [shown EXCEPT !.full = keys, !.methods = Methods(active)',
                               !.ledger = LedgerSigns(active)']
    BY <1>4 DEF ShowsLedger
  <2> QED BY <2>1 DEF IInv, TypeInv, TypeOK
<1>5. ~NothingShown.ledger
  BY DEF NothingShown
<1>6. CASE Succeeds
  <2>1. CASE op.kind = "addLedger"
    BY <1>1, <1>3, <1>6, <2>1 DEF Succeeds, LedgerShown
  <2>2. CASE op.kind \in {"reconnect", "disableLedger"}
    BY <1>4, <1>6, <2>2 DEF Succeeds, LedgerShown
  <2>3. CASE op.kind \in {"deletePhrase", "deauthorize"}
    <3>1. shown'.ledger = shown.ledger
      BY <1>6, <2>3 DEF Succeeds, IInv, TypeInv, TypeOK
    <3> QED BY <1>1, <2>3, <3>1 DEF LedgerShown
  <2>4. CASE op.kind = "importLedger"
    <3>1. Reads("profile", NothingShown)
      BY <1>6, <2>4 DEF Succeeds
    <3> QED BY <1>2, <1>5, <3>1 DEF LedgerShown
  <2>5. CASE op.kind \notin {"addLedger", "reconnect", "disableLedger", "deletePhrase",
                             "deauthorize", "importLedger"}
    <3>1. Reads("profile", shown) /\ active' = active
      BY <1>6, <2>5 DEF Succeeds
    <3> QED BY <1>1, <1>2, <2>5, <3>1 DEF LedgerShown
  <2> QED BY <2>1, <2>2, <2>3, <2>4, <2>5
<1>7. CASE ~Succeeds
  <2>0. Fails /\ active' = active
    BY <1>7
  <2>1. CASE op.kind = "disableLedger"
    BY <1>4, <2>0, <2>1 DEF Fails, LedgerShown
  <2>2. CASE op.kind = "addPhrase"
    BY <1>1, <1>2, <2>0, <2>2 DEF Fails, LedgerShown
  <2>3. CASE op.kind \notin {"disableLedger", "addPhrase"}
    <3>1. shown' = shown
      BY <2>0, <2>3 DEF Fails
    <3> QED BY <1>1, <2>0, <2>3, <3>1 DEF LedgerShown
  <2> QED BY <2>1, <2>2, <2>3
<1> QED BY <1>6, <1>7

\* What is shown of a Ledger stays true.
LEMMA ShownStep ==
    ASSUME IInv, [Next]_vars
    PROVE  LedgerShown'
<1> USE DEF chain, saved
\* Stages that leave the screens alone.
<1>a. ASSUME active' = active, shown' = shown,
             op.kind = "disableLedger" => op'.kind = "disableLedger"
      PROVE  LedgerShown'
  BY <1>a, LedgerStays DEF IInv, LedgerShown
<1>b. ASSUME NEW old, NEW p, Reads(p, old),
             old = NothingShown \/ (old = shown /\ active' = active /\ op.kind # "disableLedger")
      PROVE  LedgerShown'
  <2>1. shown'.ledger => old.ledger \/ LedgerSigns(active)'
    BY <1>b DEF Reads
  <2>2. old = shown /\ active' = active /\ op.kind # "disableLedger" /\ old.ledger
        => LedgerSigns(active)'
    BY LedgerStays DEF IInv, LedgerShown
  <2> QED BY <1>b, <2>1, <2>2 DEF NothingShown, LedgerShown
<1>1. CASE UNCHANGED vars
  BY <1>1, <1>a DEF vars
<1>2. CASE \E p \in Pages : Visit(p)
  BY <1>2, <1>b DEF Visit, Idle
<1>3. CASE \E a \in Accounts : Switch(a)
  BY <1>3, <1>b DEF Switch
<1>4. CASE Reload
  BY <1>4, <1>b DEF Reload
<1>5. CASE \E k \in Phrases, as \in SUBSET Accounts : ImportPhrase(k, as)
  BY <1>5, <1>b DEF ImportPhrase
<1>6. CASE \/ StartRemoveOthers \/ StartDisableLedger
           \/ \E kind \in {"addLedger", "reconnect"} : StartAddLedger(kind)
           \/ \E k \in Keys : StartDeletePhrase(k) \/ StartAddPhrase(k)
           \/ \E k \in Keys, proof \in Phrases : StartDeauthorize(k, proof)
           \/ \E a \in Accounts : StartImportLedger(a)
  <2>1. active' = active /\ shown' = shown /\ op = Idle
    BY <1>6 DEF StartRemoveOthers, StartDisableLedger, StartAddLedger, StartDeletePhrase,
                StartAddPhrase, StartDeauthorize, StartImportLedger
  <2> QED BY <1>a, <2>1 DEF Idle
<1>7. CASE AddLedgerReads /\ Device \notin OnChain(op.acct)
  BY <1>7, <1>a DEF AddLedgerReads
<1>8. CASE \/ AddLedgerAdds \/ RemoveOthersReads \/ RemoveOthersAddsKey \/ RemoveOthersDeletes
           \/ RemoveOthersReplacesKey \/ AddPhrasePosts \/ ImportLedgerAddsKey
  <2>1. active' = active /\ shown' = shown /\ op.kind # "disableLedger"
    BY <1>8 DEF AddLedgerAdds, RemoveOthersReads, RemoveOthersAddsKey, RemoveOthersDeletes,
                RemoveOthersReplacesKey, AddPhrasePosts, ImportLedgerAddsKey, IInv, OperationOK,
                DisableLedgerOK
  <2> QED BY <1>a, <2>1
<1>9. CASE \/ RemoveOthersReadsMethods \/ DropReads \/ DropKey \/ DropMethod
           \/ DisableLedgerAddsKey \/ DisableLedgerAsksDevice \/ DisableLedgerDeletes
  <2>1. active' = active /\ shown' = shown /\ op'.kind = op.kind
    BY <1>9 DEF RemoveOthersReadsMethods, DropReads, DropKey, DropMethod, DisableLedgerAddsKey,
                DisableLedgerAsksDevice, DisableLedgerDeletes, IInv, TypeInv, TypeOK
  <2> QED BY <1>a, <2>1
<1>10. CASE \/ AddLedgerReads /\ Device \in OnChain(op.acct)
            \/ AddLedgerPosts \/ DropEnds \/ DeauthorizeDeletes \/ AddPhraseAdds
            \/ Refused \/ Fault
  <2>1. active' = active /\ (Succeeds \/ Fails)
    BY <1>10 DEF AddLedgerReads, AddLedgerPosts, DropEnds, DeauthorizeDeletes, AddPhraseAdds,
                 Refused, Fault
  <2> QED BY <2>1, EndShows
<1>11. CASE ImportLedgerSaves
  BY <1>11, EndShows DEF ImportLedgerSaves, IInv, TypeInv, OpTyped
<1> QED BY <1>1, <1>2, <1>3, <1>4, <1>5, <1>6, <1>7, <1>8, <1>9, <1>10, <1>11 DEF Next

-----------------------------------------------------------------------------
(* Each stage leaves its operation where the invariant says it is.         *)
\* What an operation begins with, by what is shown and by what the user looks at.
LEMMA StartOK ==
    ASSUME IInv, Careful,
           \/ StartRemoveOthers \/ StartDisableLedger
           \/ \E kind \in {"addLedger", "reconnect"} : StartAddLedger(kind)
           \/ \E k \in Keys : StartDeletePhrase(k) \/ StartAddPhrase(k)
           \/ \E k \in Keys, proof \in Phrases : StartDeauthorize(k, proof)
           \/ \E a \in Accounts : StartImportLedger(a)
    PROVE  OperationOK'
<1> USE DEF chain, saved
<1>t. /\ TypeOK /\ active \in Accounts /\ full[active] \subseteq Keys
      /\ shown.methods \subseteq Phrases \union {Device}
      /\ LedgerSigns(active) <=> marked /\ Device \in full[active]
  BY SignsWith DEF IInv, TypeInv, TypeOK
<1>1. CASE StartRemoveOthers
  <2>1. /\ op' = [kind |-> "removeOthers", pc |-> "read", acct |-> active, keys |-> {},
                  key |-> NoKey, new |-> NoKey]
        /\ op = Idle /\ UNCHANGED <<full, limited, active, marked>>
    BY <1>1 DEF StartRemoveOthers, Begin
  <2>2. marked /\ Device \in full[active]
    BY <1>t, <2>1 DEF Careful
  <2>3. RemoveOthersOK'
    BY <2>1, <2>2, KeysAssumption DEF RemoveOthersOK, Keys
  <2> QED BY <2>1, <2>3 DEF OperationOK, AddLedgerOK, DisableLedgerOK, DeletePhraseOK,
                            DeauthorizeOK, AddPhraseOK, ImportLedgerOK
<1>2. CASE StartDisableLedger
  <2>1. PICK n \in Fresh :
           /\ op' = [kind |-> "disableLedger", pc |-> "addFull", acct |-> active, keys |-> {},
                     key |-> NoKey, new |-> n]
           /\ op = Idle /\ UNCHANGED <<full, active>>
           /\ (shown.full \intersect shown.methods) \ {Device} # {}
    BY <1>2 DEF StartDisableLedger, Begin, Unused
  <2>2. full[active] \intersect Phrases # {}
    BY <1>t, <2>1 DEF Careful
  <2>3. DisableLedgerOK'
    BY <2>1, <2>2 DEF DisableLedgerOK
  <2> QED BY <2>1, <2>3 DEF OperationOK, AddLedgerOK, RemoveOthersOK, DeletePhraseOK,
                            DeauthorizeOK, AddPhraseOK, ImportLedgerOK
<1>3. CASE \E kind \in {"addLedger", "reconnect"} : StartAddLedger(kind)
  BY <1>3 DEF StartAddLedger, Begin, OperationOK, AddLedgerOK, RemoveOthersOK, DisableLedgerOK,
              DeletePhraseOK, DeauthorizeOK, AddPhraseOK, ImportLedgerOK
<1>4. CASE \E k \in Keys : StartDeletePhrase(k)
  <2>1. PICK k \in Keys :
           /\ op' = [kind |-> "deletePhrase", pc |-> "drop", acct |-> active, keys |-> {k},
                     key |-> NoKey, new |-> NoKey]
           /\ op = Idle /\ shown.ledger /\ k # Device /\ UNCHANGED <<full, active, marked>>
    BY <1>4 DEF StartDeletePhrase, Begin
  <2>2. marked /\ Device \in full[active]
    BY <1>t, <2>1 DEF IInv, LedgerShown, Idle
  <2>3. DeletePhraseOK'
    BY <2>1, <2>2, KeysAssumption DEF DeletePhraseOK, Keys
  <2> QED BY <2>1, <2>3 DEF OperationOK, AddLedgerOK, RemoveOthersOK, DisableLedgerOK,
                            DeauthorizeOK, AddPhraseOK, ImportLedgerOK
<1>5. CASE \E k \in Keys : StartAddPhrase(k)
  BY <1>5 DEF StartAddPhrase, Begin, OperationOK, AddLedgerOK, RemoveOthersOK, DisableLedgerOK,
              DeletePhraseOK, DeauthorizeOK, AddPhraseOK, ImportLedgerOK
<1>6. CASE \E k \in Keys, proof \in Phrases : StartDeauthorize(k, proof)
  <2>1. PICK k \in Keys, proof \in Phrases :
           /\ op' = [kind |-> "deauthorize", pc |-> "delete", acct |-> active, keys |-> {k},
                     key |-> NoKey, new |-> NoKey]
           /\ op = Idle /\ k # shown.inUse /\ proof \in (shown.full \intersect Phrases) \ {k}
           /\ UNCHANGED <<full, limited, store, active, marked>>
    BY <1>6 DEF StartDeauthorize, Begin
  <2>2. proof \in full[active] /\ shown.inUse = Signer(active)
    BY <2>1 DEF Careful
  <2>3. (full'[active] \intersect Phrases) \ {k} # {}
    BY <2>1, <2>2
  <2>4. Signer(op.acct)' \notin {k}
    BY <2>1, <2>2 DEF Signer, LedgerSigns, OnChain
  <2>5. DeauthorizeOK'
    BY <2>1, <2>3, <2>4 DEF DeauthorizeOK
  <2> QED BY <2>1, <2>5 DEF OperationOK, AddLedgerOK, RemoveOthersOK, DisableLedgerOK,
                            DeletePhraseOK, AddPhraseOK, ImportLedgerOK
<1>7. CASE \E a \in Accounts : StartImportLedger(a)
  <2>1. PICK a \in Accounts, n \in Unused \union {NoKey} :
           /\ op' = [kind |-> "importLedger", pc |-> IF n = NoKey THEN "save" ELSE "addLimited",
                     acct |-> a, keys |-> {}, key |-> NoKey, new |-> n]
           /\ Device \in OnChain(a) /\ marked' /\ full' = full
    BY <1>7 DEF StartImportLedger, Begin
  <2>2. Device \in full[a] /\ (n # NoKey => n \in Fresh \ full[a])
    BY <1>t, <2>1, KeysAssumption DEF TypeOK, OnChain, Unused
  <2>3. ImportLedgerOK'
    BY <2>1, <2>2 DEF ImportLedgerOK
  <2> QED BY <2>1, <2>3 DEF OperationOK, AddLedgerOK, RemoveOthersOK, DisableLedgerOK,
                            DeletePhraseOK, DeauthorizeOK, AddPhraseOK
<1> QED BY <1>1, <1>2, <1>3, <1>4, <1>5, <1>6, <1>7

\* The account's other keys are set against the key the browser has.
LEMMA RemoveOthersReadsOK ==
    ASSUME IInv, RemoveOthersReads
    PROVE  OperationOK'
<1> DEFINE local == IF store[active] \in OnChain(op.acct) THEN store[active] ELSE NoKey
<1>1. /\ op.kind = "removeOthers" /\ op.pc = "read"
      /\ UNCHANGED <<full, limited, store, marked, active>>
  BY DEF RemoveOthersReads, chain, saved
<1>2. active \in Accounts /\ op.acct = active /\ marked /\ Device \in full[active]
  BY <1>1 DEF IInv, TypeInv, TypeOK, OperationOK, RemoveOthersOK
<1>3. local # Device
  BY <1>2, KeysAssumption DEF IInv, TypeInv, TypeOK, Keys
<1>4. full[active] \intersect limited[active] = {}
  BY <1>2 DEF IInv, OneAccess
<1>5. PICK k :
        /\ k \in IF local \in limited[op.acct] THEN {NoKey} ELSE Unused
        /\ op' = [op EXCEPT !.pc = IF k = NoKey THEN "delete" ELSE "addLimited", !.acct = active,
                            !.keys = full[op.acct] \ ({local} \union (IF marked THEN {Device} ELSE {})),
                            !.key = local, !.new = k]
  BY DEF RemoveOthersReads
<1>6. /\ op'.kind = "removeOthers" /\ op'.acct = active
      /\ op'.keys = full[active] \ ({local} \union {Device}) /\ op'.key = local /\ op'.new = k
      /\ op'.pc \in {"addLimited", "delete"} /\ (k = NoKey => op'.pc = "delete")
  <2> HIDE DEF local
  <2> QED BY <1>1, <1>2, <1>5 DEF IInv, TypeInv, TypeOK
<1>7. k # NoKey => k \in Fresh \ full[active]
  BY <1>2, <1>5 DEF Unused, OnChain
<1>8. k = NoKey => local \notin full[active]
  <2>1. NoKey \notin Unused
    BY KeysAssumption DEF Unused, Keys
  <2> HIDE DEF local
  <2> QED BY <1>2, <1>4, <1>5, <2>1
<1> HIDE DEF local
<1>9. RemoveOthersOK'
  BY <1>1, <1>2, <1>3, <1>6, <1>7, <1>8 DEF RemoveOthersOK
<1> QED BY <1>6, <1>9 DEF OperationOK, AddLedgerOK, DisableLedgerOK, DeletePhraseOK,
                          DeauthorizeOK, AddPhraseOK, ImportLedgerOK

\* A key is added, kept or deleted, and the operation goes on.
LEMMA TransactionOK ==
    ASSUME IInv,
           \/ AddLedgerAdds \/ RemoveOthersAddsKey \/ RemoveOthersDeletes \/ DropKey
           \/ DisableLedgerAddsKey \/ DisableLedgerDeletes \/ ImportLedgerAddsKey
    PROVE  OperationOK'
<1> USE KeysAssumption DEF Keys, OnChain, chain, saved, Idle, Operations, IInv, TypeInv, TypeOK,
           OperationOK, AddLedgerOK, RemoveOthersOK, DisableLedgerOK, DeletePhraseOK,
           DeauthorizeOK, AddPhraseOK, ImportLedgerOK
<1>0. PICK tx \in Sends : Takes(tx) /\ (RemoveOthersDeletes => op' = [op EXCEPT !.keys = @ \ {tx.key}])
  BY DEF AddLedgerAdds, RemoveOthersAddsKey, RemoveOthersDeletes, DropKey, DisableLedgerAddsKey,
         DisableLedgerDeletes, ImportLedgerAddsKey
<1>e. /\ op.pc \in {"addDevice", "addFull", "addLimited", "delete", "deleteLocal", "dropKey"}
      /\ op.pc = "addDevice" => Device \notin OnChain(op.acct) /\ Grants(op.acct, Device)
      /\ op.pc = "addFull" => op.new \notin OnChain(op.acct) /\ Grants(op.acct, op.new)
      /\ op.pc = "addLimited" => op.new \notin OnChain(op.acct) /\ GrantsLimited(op.acct, op.new)
      /\ op.pc = "delete" => tx.key \in op.keys /\ Revokes(op.acct, tx.key)
      /\ op.pc \in {"deleteLocal", "dropKey"} => Revokes(op.acct, op.key)
  BY <1>0, Effect
<1>1. CASE AddLedgerAdds
  BY <1>0, <1>e, <1>1 DEF AddLedgerAdds, Grants, GrantsLimited, Revokes
<1>2. CASE RemoveOthersAddsKey
  BY <1>0, <1>e, <1>2 DEF RemoveOthersAddsKey, Grants, GrantsLimited, Revokes
<1>3. CASE RemoveOthersDeletes
  <2>1. /\ op.kind = "removeOthers" /\ op.pc = "delete" /\ op' = [op EXCEPT !.keys = @ \ {tx.key}]
        /\ active' = active /\ marked' = marked /\ op.acct = active
        /\ tx.key \in op.keys /\ Revokes(op.acct, tx.key)
    BY <1>0, <1>e, <1>3 DEF RemoveOthersDeletes
  <2>2. full'[active] = full[active] \ {tx.key}
    BY <2>1 DEF Revokes
  <2>3. /\ op'.kind = "removeOthers" /\ op'.pc = "delete" /\ op'.acct = active
        /\ op'.keys = op.keys \ {tx.key} /\ op'.key = op.key /\ op'.new = op.new
    BY <2>1
  <2>4. RemoveOthersOK'
    BY <2>1, <2>2, <2>3 DEF RemoveOthersOK
  <2> QED BY <2>3, <2>4
<1>4. CASE DropKey
  BY <1>0, <1>e, <1>4 DEF DropKey, Grants, GrantsLimited, Revokes
<1>5. CASE DisableLedgerAddsKey
  BY <1>0, <1>e, <1>5 DEF DisableLedgerAddsKey, Grants, GrantsLimited, Revokes
<1>6. CASE DisableLedgerDeletes
  BY <1>0, <1>e, <1>6 DEF DisableLedgerDeletes, Grants, GrantsLimited, Revokes
<1>7. CASE ImportLedgerAddsKey
  BY <1>0, <1>e, <1>7 DEF ImportLedgerAddsKey, Grants, GrantsLimited, Revokes
<1> QED BY <1>1, <1>2, <1>3, <1>4, <1>5, <1>6, <1>7

\* Its own key goes when all the others have.
LEMMA RemoveOthersReplacesKeyOK ==
    ASSUME IInv, RemoveOthersReplacesKey
    PROVE  OperationOK'
<1> USE KeysAssumption DEF Keys, OnChain, chain, saved, Idle, Operations, IInv, TypeInv, TypeOK,
           OperationOK, AddLedgerOK, RemoveOthersOK, DisableLedgerOK, DeletePhraseOK,
           DeauthorizeOK, AddPhraseOK, ImportLedgerOK
<1>1. CASE op.pc # "deleteLocal"
  BY <1>1 DEF RemoveOthersReplacesKey
<1>2. CASE op.pc = "deleteLocal"
  <2>1. Revokes(op.acct, op.key)
    BY <1>2, Effect DEF RemoveOthersReplacesKey
  <2> QED BY <1>2, <2>1 DEF RemoveOthersReplacesKey, Revokes
<1> QED BY <1>1, <1>2

\* Whatever is switched to while it runs, an operation is where it should be.
LEMMA OperationStep ==
    ASSUME IInv, [Next /\ Careful]_vars
    PROVE  OperationOK'
<1> USE DEF chain, saved
<1>a. ASSUME op' = Idle PROVE OperationOK'
  BY <1>a DEF Idle, OperationOK, AddLedgerOK, RemoveOthersOK, DisableLedgerOK, DeletePhraseOK,
              DeauthorizeOK, AddPhraseOK, ImportLedgerOK
<1>b. ASSUME op' = op, UNCHANGED <<full, limited, store, marked>>,
             op.kind \in {"removeOthers", "disableLedger", "deletePhrase"} => active' = active
      PROVE  OperationOK'
  BY <1>b DEF IInv, OperationOK, AddLedgerOK, RemoveOthersOK, DisableLedgerOK, DeletePhraseOK,
              DeauthorizeOK, AddPhraseOK, ImportLedgerOK, Idle, Signer, LedgerSigns, OnChain
<1>1. CASE UNCHANGED vars
  BY <1>1, <1>b DEF vars
<1>2. CASE Next /\ Careful
  <2>1. CASE \E p \in Pages : Visit(p)
    BY <1>a, <2>1 DEF Visit
  <2>2. CASE \E a \in Accounts : Switch(a)
    BY <1>2, <1>b, <2>2 DEF Switch, Careful
  <2>3. CASE \E k \in Phrases, as \in SUBSET Accounts : ImportPhrase(k, as)
    BY <1>a, <2>3 DEF ImportPhrase
  <2>4. CASE \/ Reload \/ AddLedgerPosts \/ DropEnds \/ DeauthorizeDeletes \/ AddPhraseAdds
             \/ ImportLedgerSaves \/ Refused \/ Fault
    BY <1>a, <2>4 DEF Reload, AddLedgerPosts, DropEnds, DeauthorizeDeletes, AddPhraseAdds,
                      ImportLedgerSaves, Refused, Fault, Succeeds, Fails
  <2>5. CASE \/ StartRemoveOthers \/ StartDisableLedger
             \/ \E kind \in {"addLedger", "reconnect"} : StartAddLedger(kind)
             \/ \E k \in Keys : StartDeletePhrase(k) \/ StartAddPhrase(k)
             \/ \E k \in Keys, proof \in Phrases : StartDeauthorize(k, proof)
             \/ \E a \in Accounts : StartImportLedger(a)
    BY <1>2, <2>5, StartOK
  <2>6. CASE RemoveOthersReads
    BY <2>6, RemoveOthersReadsOK
  <2>7. CASE RemoveOthersReplacesKey
    BY <2>7, RemoveOthersReplacesKeyOK
  <2>8. CASE \/ AddLedgerAdds \/ RemoveOthersAddsKey \/ RemoveOthersDeletes \/ DropKey
             \/ DisableLedgerAddsKey \/ DisableLedgerDeletes \/ ImportLedgerAddsKey
    BY <2>8, TransactionOK
  <2>9. CASE AddLedgerReads
    <3>1. CASE Device \in OnChain(op.acct)
      BY <1>a, <2>9, <3>1 DEF AddLedgerReads, Succeeds
    <3>2. CASE Device \notin OnChain(op.acct)
      BY <2>9, <3>2 DEF AddLedgerReads, IInv, TypeInv, TypeOK, OperationOK, AddLedgerOK,
                        RemoveOthersOK, DisableLedgerOK, DeletePhraseOK, DeauthorizeOK,
                        AddPhraseOK, ImportLedgerOK
    <3> QED BY <3>1, <3>2
  <2> USE KeysAssumption DEF IInv, TypeInv, TypeOK, Keys, Operations, OperationOK, AddLedgerOK,
           RemoveOthersOK, DisableLedgerOK, DeletePhraseOK, DeauthorizeOK, AddPhraseOK,
           ImportLedgerOK, Idle
  <2>10. CASE RemoveOthersReadsMethods
    BY <2>10 DEF RemoveOthersReadsMethods
  <2>11. CASE DropReads
    BY <2>11 DEF DropReads
  <2>12. CASE DropMethod
    BY <2>12 DEF DropMethod
  <2>13. CASE DisableLedgerAsksDevice
    BY <2>13 DEF DisableLedgerAsksDevice
  <2>14. CASE AddPhrasePosts
    BY <2>14 DEF AddPhrasePosts
  <2> QED BY <1>2, <2>1, <2>2, <2>3, <2>4, <2>5, <2>6, <2>7, <2>8, <2>9, <2>10, <2>11, <2>12,
             <2>13, <2>14 DEF Next
<1> QED BY <1>1, <1>2

-----------------------------------------------------------------------------
(* The theorems.                                                           *)

\* The invariant holds when the screens have just been loaded.
LEMMA InitHolds == Init => IInv
<1> SUFFICES ASSUME Init PROVE IInv
  OBVIOUS
<1>1. TypeInv
  BY InitTyped
<1>2. OperationOK
  BY DEF Init, Idle, AddLedgerOK, RemoveOthersOK, DisableLedgerOK, DeletePhraseOK, DeauthorizeOK,
         AddPhraseOK, ImportLedgerOK, OperationOK
<1>3. RecoveryRemains /\ OneAccess
  BY DEF Init, RecoveryRemains, OneAccess
<1>4. LedgerShown
  BY DEF Init, LedgerShown
<1> QED BY <1>1, <1>2, <1>3, <1>4 DEF IInv

LEMMA StepKeeps ==
    ASSUME IInv, [Next /\ Careful]_vars
    PROVE  IInv'
<1>1. [Next]_vars
  OBVIOUS
<1>2. TypeInv'
  BY <1>1, TypeStep DEF IInv
<1>3. RecoveryRemains' /\ OneAccess'
  BY <1>1, ChainStep DEF RecoveryRemains, OneAccess
<1>4. OperationOK'
  BY OperationStep
<1>5. LedgerShown'
  BY <1>1, ShownStep
<1> QED BY <1>2, <1>3, <1>4, <1>5 DEF IInv

\* The invariant above holds in every state a careful user brings the wallet to.
THEOREM Invariance == CarefulSpec => []IInv
<1>1. Init => IInv
  BY InitHolds
<1>2. IInv /\ [Next /\ Careful]_vars => IInv'
  BY StepKeeps
<1> QED BY <1>1, <1>2, PTL DEF CarefulSpec

\* Every account keeps a key that recovers it, whatever fails or is lost, whatever
\* is switched to and wherever the operations stop.
THEOREM Recoverable == CarefulSpec => []RecoveryRemains
<1>1. IInv => RecoveryRemains
  BY DEF IInv
<1> QED BY <1>1, Invariance, PTL

\* What is saved for some accounts leaves the key of another as it was, unless
\* the store is rebuilt from an older list.
LEMMA SavesAKey ==
    ASSUME NEW as, NEW k, Saves(as, k), NEW a \in Accounts, ~Rebuilt(a)
    PROVE  store'[a] = IF a \in as THEN k ELSE store[a]
<1>1. CASE encrypted
  <2>1. store'[a] = IF a \in as THEN k ELSE blob[a]
    BY <1>1 DEF Saves
  <2> QED BY <1>1, <2>1 DEF Rebuilt
<1>2. CASE ~encrypted
  BY <1>2 DEF Saves
<1> QED BY <1>1, <1>2

\* The browser's key for an account stays, or one that signs takes its place.
LEMMA StoreStep ==
    ASSUME IInv, [Next]_vars, NEW a \in Accounts, ~Rebuilt(a)
    PROVE  \/ store'[a] = store[a]
           \/ store'[a] \in full'[a]
           \/ marked' /\ Device \in full'[a]
<1>t. TypeOK /\ full \in [Accounts -> SUBSET Keys]
      /\ store \in [Accounts -> Phrases \union Fresh \union {NoKey}]
  BY DEF IInv, TypeInv, TypeOK
<1>1. CASE Reload
  BY <1>1 DEF Reload, Rebuilt
\* disableLedger's key is on the chain when it is kept.
<1>2. CASE DisableLedgerAddsKey
  <2>1. op.acct = active
    BY <1>2 DEF DisableLedgerAddsKey, IInv, OperationOK, DisableLedgerOK
  <2>2. Grants(active, op.new) /\ store' = [store EXCEPT ![active] = op.new]
    BY <1>2, <1>t, <2>1, Effect DEF DisableLedgerAddsKey
  <2>3. CASE a = active
    BY <1>t, <2>2, <2>3 DEF Grants
  <2>4. CASE a # active
    BY <2>2, <2>4
  <2> QED BY <2>3, <2>4
\* The local key is replaced while the device's is on the chain.
<1>3. CASE RemoveOthersReplacesKey
  <2>1. store' = store \/ store' = [store EXCEPT ![active] = op.new]
    BY <1>3 DEF RemoveOthersReplacesKey
  <2>2. CASE a = active
    <3>1. marked /\ Device \in full[active] /\ op.acct = active /\ op.key # Device
      BY <1>3 DEF RemoveOthersReplacesKey, IInv, OperationOK, RemoveOthersOK
    <3>2. UNCHANGED full \/ Revokes(active, op.key)
      BY <1>3, <1>t, <3>1, Effect DEF RemoveOthersReplacesKey, chain
    <3> QED BY <1>3, <1>t, <2>2, <3>1, <3>2 DEF Revokes, RemoveOthersReplacesKey
  <2>3. CASE a # active
    BY <1>t, <2>1, <2>3
  <2> QED BY <2>2, <2>3
\* A phrase is taken as the key of accounts it has full access to.
<1>4. ASSUME NEW k \in Phrases, NEW as \in SUBSET Accounts, ImportPhrase(k, as)
      PROVE  store'[a] = store[a] \/ store'[a] \in full'[a]
  <2>1. full' = full /\ Saves(as, k) /\ \A b \in as : k \in OnChain(b)
    BY <1>4 DEF ImportPhrase, chain
  <2>2. store'[a] = IF a \in as THEN k ELSE store[a]
    BY <2>1, SavesAKey
  <2>3. a \in as => k \in full[a]
    BY <1>t, <2>1, KeysAssumption DEF OnChain, TypeOK
  <2> QED BY <2>1, <2>2, <2>3
\* An import of the Ledger keeps the device's key on the chain.
<1>5. CASE ImportLedgerSaves
  <2>1. /\ full' = full /\ marked' = marked
        /\ Saves(IF op.new = NoKey THEN {} ELSE {op.acct}, op.new)
    BY <1>5 DEF ImportLedgerSaves, chain
  <2>2. PICK as, k : as = (IF op.new = NoKey THEN {} ELSE {op.acct}) /\ k = op.new
    OBVIOUS
  <2>3. store'[a] = store[a] \/ a = op.acct
    BY <2>1, <2>2, SavesAKey
  <2>4. marked /\ Device \in full[op.acct]
    BY <1>5 DEF ImportLedgerSaves, IInv, TypeInv, OpTyped, OperationOK, ImportLedgerOK
  <2> QED BY <2>1, <2>3, <2>4
<1> QED BY <1>1, <1>2, <1>3, <1>4, <1>5, Frame

\* No step takes the browser's ability to sign for an account.
LEMMA SignerStep ==
    ASSUME IInv, [Next]_vars, NEW a \in Accounts, CanSign(a), ~Rebuilt(a)
    PROVE  CanSign(a)'
<1>1. Signs(a)
  BY SignsWith DEF IInv, TypeInv
<1>2. store[a] \in full'[a] \/ (marked /\ Device \in full'[a])
  BY <1>1, ChainStep
<1>3. marked => marked'
  BY Frame
<1>4. \/ store'[a] = store[a]
      \/ store'[a] \in full'[a]
      \/ marked' /\ Device \in full'[a]
  BY StoreStep
<1>5. Signs(a)'
  BY <1>2, <1>3, <1>4 DEF Signs
<1>6. TypeOK'
  BY TypeStep DEF IInv, TypeInv
<1> QED BY <1>5, <1>6, SignsEnough, PTL

\* No operation takes the browser's ability to sign, whatever is refused, lost or
\* cut short by a reload, and what a password can lose is what was not saved.
THEOREM SignerStays == CarefulSpec => SignerKept
<1>1. IInv /\ [Next /\ Careful]_vars =>
         \A a \in Accounts : CanSign(a) /\ ~Rebuilt(a) => CanSign(a)'
  <2>1. [Next /\ Careful]_vars => [Next]_vars
    OBVIOUS
  <2> QED BY <2>1, SignerStep
<1> QED BY <1>1, Invariance, PTL DEF CarefulSpec, SignerKept

\* A removal goes on to the profile by its end alone.
LEMMA RemovalEnds ==
    ASSUME IInv, [Next]_vars, op.kind = "removeOthers", page # page'
    PROVE  DropEnds
<1>0. op # Idle
  BY DEF Idle
<1>1. op.pc \notin {"postDevice", "postPhrase", "save"}
  BY DEF IInv, OperationOK, RemoveOthersOK
<1>2. ~UNCHANGED vars
  BY DEF vars
<1>3. ~\/ Reload \/ Refused \/ Fault \/ \E p \in Pages : Visit(p)
       \/ \E a \in Accounts : Switch(a) \/ StartImportLedger(a)
  BY <1>0 DEF Reload, Visit, Switch, StartImportLedger, Refused, Fault, Fails
<1>4. ~\/ \E kind \in {"addLedger", "reconnect"} : StartAddLedger(kind)
       \/ AddLedgerReads \/ AddLedgerAdds \/ AddLedgerPosts
  BY <1>0, <1>1 DEF StartAddLedger, AddLedgerReads, AddLedgerAdds, AddLedgerPosts
<1>5. ~\/ StartRemoveOthers \/ RemoveOthersReads \/ RemoveOthersAddsKey \/ RemoveOthersDeletes
       \/ RemoveOthersReplacesKey \/ RemoveOthersReadsMethods
  BY DEF StartRemoveOthers, RemoveOthersReads, RemoveOthersAddsKey, RemoveOthersDeletes,
         RemoveOthersReplacesKey, RemoveOthersReadsMethods
<1>6. ~(DropReads \/ DropKey \/ DropMethod)
  BY DEF DropReads, DropKey, DropMethod
<1>7. ~\/ StartDisableLedger \/ DisableLedgerAddsKey \/ DisableLedgerAsksDevice
       \/ DisableLedgerDeletes
  BY DEF StartDisableLedger, DisableLedgerAddsKey, DisableLedgerAsksDevice, DisableLedgerDeletes
<1>8. ~\/ \E k \in Keys : StartDeletePhrase(k) \/ StartAddPhrase(k)
       \/ \E k \in Keys, proof \in Phrases : StartDeauthorize(k, proof)
       \/ DeauthorizeDeletes
  BY DEF StartDeletePhrase, StartAddPhrase, StartDeauthorize, DeauthorizeDeletes
<1>9. ~\/ AddPhrasePosts \/ AddPhraseAdds \/ ImportLedgerAddsKey \/ ImportLedgerSaves
       \/ \E k \in Phrases, as \in SUBSET Accounts : ImportPhrase(k, as)
  BY <1>0, <1>1 DEF AddPhrasePosts, AddPhraseAdds, ImportLedgerAddsKey, ImportLedgerSaves,
                    ImportPhrase
<1> QED BY <1>2, <1>3, <1>4, <1>5, <1>6, <1>7, <1>8, <1>9 DEF Next

\* A removal that goes on to the profile leaves the device's key as the only full
\* access key, whatever was signed with and switched to before.
THEOREM RemovalCompletes == CarefulSpec => RemovalIsComplete
<1>1. IInv /\ [Next /\ Careful]_vars =>
         (op.kind = "removeOthers" /\ page # page' => full'[active] = {Device})
  <2> SUFFICES ASSUME IInv, [Next]_vars, op.kind = "removeOthers", page # page'
               PROVE  full'[active] = {Device}
    OBVIOUS
  <2>1. full' = full /\ op.pc = "drop"
    BY RemovalEnds DEF DropEnds, chain
  <2>2. Device \in full[active] /\ full[active] \subseteq {Device}
    BY <2>1 DEF IInv, OperationOK, RemoveOthersOK
  <2> QED BY <2>1, <2>2
<1> QED BY <1>1, Invariance, PTL DEF CarefulSpec, RemovalIsComplete
=============================================================================
