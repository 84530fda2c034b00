------------------------ MODULE NewKeyTransferProofs ------------------------
(***************************************************************************)
(* Type correctness of NewKeyTransfer, and why a transfer never leaves an  *)
(* account that nobody can sign for.                                       *)
(***************************************************************************)
EXTENDS NewKeyTransfer, TLAPS

-----------------------------------------------------------------------------
(* Types.                                                                  *)

LEMMA TypesInitially == Init => TypeOK
BY TransferSentinels DEF Init, TypeOK, NoStash, NoCall, NoOps, MaybeTransfer, MaybeKey, Key,
   MintedType, SessionType, CallType

LEMMA TransactionTypes ==
    ASSUME TypeOK, NEW x \in Transfers, NEW a \in Accounts
    PROVE  AddTx(x, a) \in Tx /\ DeleteTx(x, a) \in Tx
BY DEF TypeOK, AddTx, DeleteTx, Tx, Dest, MintedType

LEMMA UpdatedSessions ==
    ASSUME TypeOK, NEW x \in Transfers, NEW r \in SessionType
    PROVE  [session EXCEPT ![x] = r] \in [Transfers -> SessionType]
BY DEF TypeOK

LEMMA SessionStates ==
    ASSUME TypeOK, NEW x \in Transfers,
           NEW s \in {"unused", "pending", "answered", "cleared"}
    PROVE  [session EXCEPT ![x].state = s] \in [Transfers -> SessionType]
<1>1. [session[x] EXCEPT !.state = s] \in SessionType
  <2>1. session[x] \in SessionType
    BY DEF TypeOK
  <2> QED BY <2>1 DEF SessionType
<1>2. [session EXCEPT ![x] = [session[x] EXCEPT !.state = s]] \in [Transfers -> SessionType]
  BY <1>1, UpdatedSessions
<1>3. [session EXCEPT ![x].state = s] = [session EXCEPT ![x] = [session[x] EXCEPT !.state = s]]
  OBVIOUS
<1> QED BY <1>2, <1>3

\* A start that is asked for, by selection and stash.
LEMMA AskTypes ==
    ASSUME TypeOK, NEW S \in Selections
    PROVE  /\ [NoCall EXCEPT !.pc = "ask", !.asked = S, !.x = stash.id, !.replay = TRUE] \in CallType
           /\ [NoCall EXCEPT !.pc = "ask", !.asked = S] \in CallType
<1>1. S \in SUBSET Accounts /\ stash.id \in MaybeTransfer
  BY SelectionsAssumption DEF TypeOK
<1> QED BY <1>1 DEF NoCall, CallType, MaybeTransfer

LEMMA UpdatedOps ==
    ASSUME TypeOK, NEW x \in Transfers, NEW a \in Accounts,
           NEW s \in {"none", "intent", "signed", "final"}
    PROVE  [op EXCEPT ![x][a] = s] \in [Transfers -> [Accounts -> {"none", "intent", "signed", "final"}]]
<1>1. [op[x] EXCEPT ![a] = s] \in [Accounts -> {"none", "intent", "signed", "final"}]
  BY DEF TypeOK
<1>2. op \in [Transfers -> [Accounts -> {"none", "intent", "signed", "final"}]]
  BY DEF TypeOK
<1> QED BY <1>1, <1>2

\* What clear leaves of a transfer is well-typed.
LEMMA ClearedTypes ==
    ASSUME TypeOK, NEW x \in Transfers, Cleared(x)
    PROVE  /\ session' \in [Transfers -> SessionType]
           /\ older' \in SUBSET (Transfers \X Transfers)
           /\ pendingVerify' \in MaybeTransfer
           /\ op' = op
<1>1. session' \in [Transfers -> SessionType]
  BY SessionStates DEF Cleared
<1> QED BY <1>1 DEF TypeOK, Cleared, MaybeTransfer

LEMMA TypesStep == TypeOK /\ [Next]_vars => TypeOK'
<1> SUFFICES ASSUME TypeOK, [Next]_vars PROVE TypeOK'
  OBVIOUS
<1> USE SelectionsAssumption DEF TypeOK, MaybeTransfer, MaybeKey, Key, Tx, MintedType,
    SessionType, CallType, NoStash, NoCall, NoOps, Dest, chainVars, meteorVars, journalVars
<1>1. ASSUME NEW S \in Selections, StartTransfer(S) PROVE TypeOK'
  <2>0. call' \in CallType /\ call'.pc = "ask" /\ UNCHANGED <<chainVars, meteorVars, stash>>
    <3>1. call' \in CallType
      <4> HIDE DEF TypeOK, CallType, NoCall, NoStash, MaybeTransfer, chainVars, meteorVars, journalVars
      <4> QED BY <1>1, AskTypes DEF StartTransfer
    <3>2. call'.pc = "ask"
      <4> HIDE DEF TypeOK, CallType
      <4> QED BY <1>1 DEF StartTransfer
    <3>3. UNCHANGED <<chainVars, meteorVars, stash>>
      <4> HIDE DEF TypeOK, CallType, chainVars, meteorVars
      <4> QED BY <1>1 DEF StartTransfer
    <3> QED BY <3>1, <3>2, <3>3
  <2>1. CASE SweepLeftover /\ Present(startResult)
    <3>1. startResult \in Transfers /\ Cleared(startResult) /\ startResult' = NoTransfer
      BY <2>1 DEF SweepLeftover, Present
    <3>2. /\ session' \in [Transfers -> SessionType] /\ op' = op
          /\ older' \in SUBSET (Transfers \X Transfers) /\ pendingVerify' \in MaybeTransfer
      BY <3>1, ClearedTypes
    <3> QED BY <2>0, <3>1, <3>2
  <2>2. CASE UNCHANGED journalVars
    BY <2>0, <2>2
  <2> QED BY <1>1, <2>1, <2>2 DEF StartTransfer, SweepLeftover
<1>2. ASSUME NEW x \in Transfers, OpenMeteor(x) PROVE TypeOK'
  <2>1. session' \in [Transfers -> SessionType]
    <3>1. [state |-> "pending", asked |-> call.asked, secured |-> {}] \in SessionType
      OBVIOUS
    <3>2. session \in [Transfers -> SessionType]
      OBVIOUS
    <3> HIDE DEF TypeOK, SessionType
    <3> QED BY <1>2, <3>1, <3>2, UpdatedSessions DEF OpenMeteor
  <2>2. older' \in SUBSET (Transfers \X Transfers)
    BY <1>2 DEF OpenMeteor
  <2> QED BY <1>2, <2>1, <2>2 DEF OpenMeteor
<1>3. ASSUME NEW x \in Transfers, HearAnswer(x) PROVE TypeOK'
  <2>1. session' \in [Transfers -> SessionType] /\ startResult' \in MaybeTransfer
    <3>1. [session EXCEPT ![x].state = "answered"] \in [Transfers -> SessionType]
      BY SessionStates
    <3> QED BY <1>3, <3>1 DEF HearAnswer
  <2> QED BY <1>3, <2>1 DEF HearAnswer, At
<1>4. ASSUME NEW x \in Transfers, MeteorMints(x) PROVE TypeOK'
  BY <1>4 DEF MeteorMints, At
<1>5. ASSUME NEW x \in Transfers, StartAddKeys(x) PROVE TypeOK'
  BY <1>5 DEF StartAddKeys
<1>6. ASSUME NEW x \in Transfers, FinishAddKeys(x) PROVE TypeOK'
  BY <1>6 DEF FinishAddKeys, At, Return
<1>7. ASSUME NEW x \in Transfers, StartVerify(x) PROVE TypeOK'
  BY <1>7 DEF StartVerify
<1>8. ASSUME NEW x \in Transfers, HearVerification(x) PROVE TypeOK'
  <2>1. session' \in [Transfers -> SessionType]
    <3>1. [session[x] EXCEPT !.secured = secured[x]] \in SessionType
      <4>1. session[x] \in SessionType /\ secured[x] \in SUBSET Accounts
        OBVIOUS
      <4> HIDE DEF TypeOK
      <4> QED BY <4>1
    <3> HIDE DEF TypeOK, SessionType
    <3> QED BY <1>8, <3>1, UpdatedSessions DEF HearVerification
  <2>2. pendingVerify' \in MaybeTransfer
    BY <1>8 DEF HearVerification
  <2> QED BY <1>8, <2>1, <2>2 DEF HearVerification, At, Return
<1>9. ASSUME NEW x \in Transfers, DiscardStash(x) PROVE TypeOK'
  BY <1>9 DEF DiscardStash, StartsOver
<1>10. ASSUME NEW x \in Transfers, StartOverUnsent(x) PROVE TypeOK'
  BY <1>10 DEF StartOverUnsent, StartsOver
<1>11. ASSUME NEW x \in Transfers, RefuseStartOver(x) PROVE TypeOK'
  BY <1>11 DEF RefuseStartOver, StartsOver
<1>12. ASSUME NEW x \in Transfers, StartRevocation(x) PROVE TypeOK'
  BY <1>12 DEF StartRevocation, StartsOver, Intents
<1>13. ASSUME NEW x \in Transfers, SeeRemoved(x) PROVE TypeOK'
  BY <1>13 DEF SeeRemoved, At
<1>14. ASSUME NEW x \in Transfers, MarkRevoked(x) PROVE TypeOK'
  BY <1>14 DEF MarkRevoked, At
<1>15. ASSUME NEW x \in Transfers, ClearRecord(x) PROVE TypeOK'
  <2>1. /\ session' \in [Transfers -> SessionType] /\ op' = op
        /\ older' \in SUBSET (Transfers \X Transfers) /\ pendingVerify' \in MaybeTransfer
    BY <1>15, ClearedTypes DEF ClearRecord
  <2> QED BY <1>15, <2>1 DEF ClearRecord, At
<1>16. ASSUME NEW x \in Transfers, ClearResult(x) PROVE TypeOK'
  BY <1>16 DEF ClearResult, At, Return
<1>17. ASSUME NEW x \in Transfers, ArchiveRevoked(x) PROVE TypeOK'
  BY <1>17 DEF ArchiveRevoked, At, Retired, Return
<1>18. ASSUME NEW x \in Transfers, NEW a \in Accounts, JournalIntent(x, a) PROVE TypeOK'
  BY <1>18 DEF JournalIntent, Advance, Turn, At
<1>19. ASSUME NEW x \in Transfers, NEW a \in Accounts, SignAddKey(x, a) PROVE TypeOK'
  BY <1>19 DEF SignAddKey, Advance, Turn, At
<1>20. ASSUME NEW x \in Transfers, NEW a \in Accounts, Broadcast(x, a) PROVE TypeOK'
  BY <1>20, TransactionTypes DEF Broadcast
<1>21. ASSUME NEW x \in Transfers, NEW a \in Accounts, ProveFinal(x, a) PROVE TypeOK'
  BY <1>21 DEF ProveFinal, Advance, Turn, At
<1>22. ASSUME NEW x \in Transfers, NEW a \in Accounts, MeteorSecures(x, a) PROVE TypeOK'
  BY <1>22 DEF MeteorSecures
<1>23. ASSUME NEW x \in Transfers, NEW a \in Accounts, MeteorCleansUp(x, a) PROVE TypeOK'
  BY <1>23 DEF MeteorCleansUp
<1>24. ASSUME NEW x \in Transfers, NEW a \in Accounts, SkipAbsent(x, a) PROVE TypeOK'
  BY <1>24 DEF SkipAbsent, At
<1>25. ASSUME NEW x \in Transfers, NEW a \in Accounts, RemoveDestination(x, a) PROVE TypeOK'
  <2>1. inflight' \in SUBSET Tx
    BY <1>25, TransactionTypes DEF RemoveDestination
  <2> QED BY <1>25, <2>1 DEF RemoveDestination, At
<1>26. ASSUME NEW x \in Transfers, NEW a \in Accounts, Reconcile(x, a) PROVE TypeOK'
  <2>1. inflight' \in SUBSET Tx
    BY <1>26, TransactionTypes DEF Reconcile
  <2>2. op' \in [Transfers -> [Accounts -> {"none", "intent", "signed", "final"}]]
    <3>1. op \in [Transfers -> [Accounts -> {"none", "intent", "signed", "final"}]]
      OBVIOUS
    <3> HIDE DEF TypeOK
    <3> QED BY <1>26, <3>1, UpdatedOps DEF Reconcile
  <2> QED BY <1>26, <2>1, <2>2 DEF Reconcile
<1>27. ASSUME NEW x \in Transfers, NEW a \in Accounts, ArchiveFenced(x, a) PROVE TypeOK'
  BY <1>27 DEF ArchiveFenced, Retired
<1>28. ASSUME NEW x \in Transfers, NEW a \in Accounts, RevokeFenced(x, a) PROVE TypeOK'
  <2>1. inflight' \in SUBSET Tx
    BY <1>28, TransactionTypes DEF RevokeFenced
  <2> QED BY <1>28, <2>1 DEF RevokeFenced
<1>29. ASSUME NEW x \in Transfers, NEW a \in Accounts, Expire(x, a) PROVE TypeOK'
  BY <1>29 DEF Expire, AddTx
<1>30. ASSUME NEW x \in Transfers, NEW a \in Accounts, DropDelete(x, a) PROVE TypeOK'
  BY <1>30 DEF DropDelete
<1>31. CASE Unstash
  BY <1>31 DEF Unstash, Return
<1>32. CASE CatchStart
  BY <1>32 DEF CatchStart, Return
<1>33. CASE Throw
  BY <1>33 DEF Throw, Return
<1>34. CASE Reload
  BY <1>34 DEF Reload, Return
<1>35. CASE LoseStartResult
  BY <1>35 DEF LoseStartResult
<1>36. ASSUME NEW tx \in inflight, Land(tx) PROVE TypeOK'
  BY <1>36 DEF Land
<1>37. CASE UNCHANGED vars
  BY <1>37 DEF vars
<1> QED
  BY <1>1, <1>2, <1>3, <1>4, <1>5, <1>6, <1>7, <1>8, <1>9, <1>10, <1>11, <1>12, <1>13, <1>14, <1>15, <1>16, <1>17, <1>18, <1>19, <1>20, <1>21, <1>22, <1>23, <1>24, <1>25, <1>26, <1>27, <1>28, <1>29, <1>30, <1>31, <1>32, <1>33, <1>34, <1>35, <1>36, <1>37
     DEF Next, Starting, Activating, StartingOver, Recovering, Meteor, Chain

\* Every reachable state is well-typed.
THEOREM TransferTypes == Spec => []TypeOK
BY TypesInitially, TypesStep, PTL DEF Spec

-----------------------------------------------------------------------------
(* Somebody can always sign.                                               *)

\* Who holds an account changes with the keys on chain and with what Meteor has
\* secured; what is in flight must never take a source key off.
HandoverInv == TypeOK /\ SourceIsNeverRemoved /\ AccountsKeepAHolder

\* The steps that neither send, nor land, nor secure anything.
LEMMA QuietSteps ==
    ASSUME HandoverInv, UNCHANGED <<onChain, secured>>, inflight' \subseteq inflight
    PROVE  /\ SourceIsNeverRemoved' /\ AccountsKeepAHolder'
           /\ \A a \in Accounts : Holders(a)' = Holders(a)
BY DEF HandoverInv, SourceIsNeverRemoved, AccountsKeepAHolder, Holders

\* A transaction that is sent is an AddKey, or a DeleteKey of another key than the
\* source key.
LEMMA SendingSteps ==
    ASSUME HandoverInv, UNCHANGED <<onChain, secured>>,
           NEW x \in Transfers, NEW a \in Accounts,
           \/ inflight' = inflight \union {AddTx(x, a)}
           \/ inflight' = inflight \union {DeleteTx(x, a)} /\ MayRemove(x, a)
    PROVE  /\ SourceIsNeverRemoved' /\ AccountsKeepAHolder'
           /\ \A b \in Accounts : Holders(b)' = Holders(b)
BY DEF HandoverInv, SourceIsNeverRemoved, AccountsKeepAHolder, Holders, AddTx, DeleteTx, MayRemove

LEMMA JoinSteps ==
    ASSUME HandoverInv, NEW x \in Transfers, NEW a \in Accounts, MeteorSecures(x, a)
    PROVE  /\ SourceIsNeverRemoved' /\ AccountsKeepAHolder'
           /\ \A b \in Accounts \ {a} : Holders(b)' = Holders(b)
           /\ Holders(a)' = Holders(a) \union {"meteor"}
BY DEF HandoverInv, TypeOK, SourceIsNeverRemoved, AccountsKeepAHolder, Holders, MeteorSecures,
       chainVars

LEMMA ReleaseSteps ==
    ASSUME HandoverInv, NEW x \in Transfers, NEW a \in Accounts, MeteorCleansUp(x, a)
    PROVE  /\ SourceIsNeverRemoved' /\ AccountsKeepAHolder'
           /\ \A b \in Accounts \ {a} : Holders(b)' = Holders(b)
           /\ "meteor" \in Holders(a) /\ Holders(a)' = Holders(a) \ {"wallet"}
<1> USE TransferSentinels DEF HandoverInv, TypeOK, Holders, MeteorCleansUp, meteorVars
<1>1. x # Source
  OBVIOUS
<1>2. \A b \in Accounts \ {a} : Holders(b)' = Holders(b)
  OBVIOUS
<1>3. "meteor" \in Holders(a) /\ Holders(a)' = Holders(a) \ {"wallet"}
  BY <1>1
<1>4. "meteor" \in Holders(a)'
  BY <1>3
<1> QED BY <1>2, <1>3, <1>4 DEF SourceIsNeverRemoved, AccountsKeepAHolder

LEMMA LandingSteps ==
    ASSUME HandoverInv, NEW tx \in inflight, Land(tx)
    PROVE  /\ SourceIsNeverRemoved' /\ AccountsKeepAHolder' /\ tx.a \in Accounts
           /\ \A b \in Accounts \ {tx.a} : Holders(b)' = Holders(b)
           /\ "wallet" \in Holders(tx.a)
           /\ \/ Holders(tx.a)' = Holders(tx.a)
              \/ Holders(tx.a)' = Holders(tx.a) \union {"meteor"}
              \/ Holders(tx.a)' = Holders(tx.a) \ {"meteor"}
<1>1. tx.a \in Accounts /\ (tx.kind = "delete" => tx.key # Source)
  BY DEF HandoverInv, SourceIsNeverRemoved
<1>2. secured' = secured
  BY DEF Land, meteorVars
<1>3. \A b \in Accounts \ {tx.a} : onChain'[b] = onChain[b]
  BY <1>1 DEF HandoverInv, TypeOK, Land
<1>4. Source \in onChain[tx.a] /\ Source \in onChain'[tx.a]
  BY <1>1 DEF HandoverInv, TypeOK, Tx, Land
<1>5. \A b \in Accounts \ {tx.a} : Holders(b)' = Holders(b)
  BY <1>2, <1>3 DEF Holders
<1>6. "wallet" \in Holders(tx.a) /\ "wallet" \in Holders(tx.a)'
  BY <1>4 DEF Holders
<1>7. Holders(tx.a) \subseteq {"wallet", "meteor"} /\ Holders(tx.a)' \subseteq {"wallet", "meteor"}
  BY DEF Holders
<1>8. AccountsKeepAHolder'
  BY <1>5, <1>6 DEF HandoverInv, AccountsKeepAHolder
<1>9. SourceIsNeverRemoved'
  BY DEF HandoverInv, SourceIsNeverRemoved, Land
<1> QED BY <1>1, <1>5, <1>6, <1>7, <1>8, <1>9

\* One account changes hands in one of the three ways of SafeHandover, or none does.
HolderStep ==
    \/ \A a \in Accounts : Holders(a)' = Holders(a)
    \/ \E a \in Accounts :
          /\ \A b \in Accounts \ {a} : Holders(b)' = Holders(b)
          /\ \/ Holders(a)' = Holders(a) \union {"meteor"}
             \/ "wallet" \in Holders(a) /\ Holders(a)' = Holders(a) \ {"meteor"}
             \/ "meteor" \in Holders(a) /\ Holders(a)' = Holders(a) \ {"wallet"}

LEMMA HandoverSteps ==
    HandoverInv /\ [Next]_vars => SourceIsNeverRemoved' /\ AccountsKeepAHolder' /\ HolderStep
<1> SUFFICES ASSUME HandoverInv, [Next]_vars
             PROVE  SourceIsNeverRemoved' /\ AccountsKeepAHolder' /\ HolderStep
  OBVIOUS
<1> DEFINE Quiet == UNCHANGED <<onChain, secured>> /\ inflight' \subseteq inflight
           Safe == SourceIsNeverRemoved' /\ AccountsKeepAHolder' /\ HolderStep
<1>0. Quiet => Safe
  BY QuietSteps DEF HolderStep
<1>1. ASSUME NEW S \in Selections, StartTransfer(S) PROVE Safe
  BY <1>1, <1>0 DEF StartTransfer, chainVars, meteorVars
<1>2. ASSUME NEW x \in Transfers, OpenMeteor(x) PROVE Safe
  BY <1>2, <1>0 DEF OpenMeteor, chainVars, meteorVars
<1>3. ASSUME NEW x \in Transfers, HearAnswer(x) PROVE Safe
  BY <1>3, <1>0 DEF HearAnswer, chainVars, meteorVars
<1>4. ASSUME NEW x \in Transfers, MeteorMints(x) PROVE Safe
  BY <1>4, <1>0 DEF MeteorMints, chainVars, meteorVars
<1>5. ASSUME NEW x \in Transfers, StartAddKeys(x) PROVE Safe
  BY <1>5, <1>0 DEF StartAddKeys, chainVars, meteorVars
<1>6. ASSUME NEW x \in Transfers, FinishAddKeys(x) PROVE Safe
  BY <1>6, <1>0 DEF FinishAddKeys, chainVars, meteorVars
<1>7. ASSUME NEW x \in Transfers, StartVerify(x) PROVE Safe
  BY <1>7, <1>0 DEF StartVerify, chainVars, meteorVars
<1>8. ASSUME NEW x \in Transfers, HearVerification(x) PROVE Safe
  BY <1>8, <1>0 DEF HearVerification, chainVars, meteorVars
<1>9. ASSUME NEW x \in Transfers, DiscardStash(x) PROVE Safe
  BY <1>9, <1>0 DEF DiscardStash, chainVars, meteorVars
<1>10. ASSUME NEW x \in Transfers, StartOverUnsent(x) PROVE Safe
  BY <1>10, <1>0 DEF StartOverUnsent, chainVars, meteorVars
<1>11. ASSUME NEW x \in Transfers, RefuseStartOver(x) PROVE Safe
  BY <1>11, <1>0 DEF RefuseStartOver, chainVars, meteorVars
<1>12. ASSUME NEW x \in Transfers, StartRevocation(x) PROVE Safe
  BY <1>12, <1>0 DEF StartRevocation, chainVars, meteorVars
<1>13. ASSUME NEW x \in Transfers, SeeRemoved(x) PROVE Safe
  BY <1>13, <1>0 DEF SeeRemoved, chainVars, meteorVars
<1>14. ASSUME NEW x \in Transfers, MarkRevoked(x) PROVE Safe
  BY <1>14, <1>0 DEF MarkRevoked, chainVars, meteorVars
<1>15. ASSUME NEW x \in Transfers, ClearRecord(x) PROVE Safe
  BY <1>15, <1>0 DEF ClearRecord, chainVars, meteorVars
<1>16. ASSUME NEW x \in Transfers, ClearResult(x) PROVE Safe
  BY <1>16, <1>0 DEF ClearResult, chainVars, meteorVars
<1>17. ASSUME NEW x \in Transfers, ArchiveRevoked(x) PROVE Safe
  BY <1>17, <1>0 DEF ArchiveRevoked, chainVars, meteorVars
<1>18. ASSUME NEW x \in Transfers, NEW a \in Accounts, JournalIntent(x, a) PROVE Safe
  BY <1>18, <1>0 DEF JournalIntent, Advance, chainVars, meteorVars
<1>19. ASSUME NEW x \in Transfers, NEW a \in Accounts, SignAddKey(x, a) PROVE Safe
  BY <1>19, <1>0 DEF SignAddKey, Advance, chainVars, meteorVars
<1>20. ASSUME NEW x \in Transfers, NEW a \in Accounts, Broadcast(x, a) PROVE Safe
  BY <1>20, SendingSteps DEF Broadcast, HolderStep, meteorVars
<1>21. ASSUME NEW x \in Transfers, NEW a \in Accounts, ProveFinal(x, a) PROVE Safe
  BY <1>21, <1>0 DEF ProveFinal, Advance, chainVars, meteorVars
<1>22. ASSUME NEW x \in Transfers, NEW a \in Accounts, MeteorSecures(x, a) PROVE Safe
  BY <1>22, JoinSteps DEF HolderStep
<1>23. ASSUME NEW x \in Transfers, NEW a \in Accounts, MeteorCleansUp(x, a) PROVE Safe
  BY <1>23, ReleaseSteps DEF HolderStep
<1>24. ASSUME NEW x \in Transfers, NEW a \in Accounts, SkipAbsent(x, a) PROVE Safe
  BY <1>24, <1>0 DEF SkipAbsent, chainVars, meteorVars
<1>25. ASSUME NEW x \in Transfers, NEW a \in Accounts, RemoveDestination(x, a) PROVE Safe
  BY <1>25, SendingSteps DEF RemoveDestination, HolderStep, meteorVars
<1>26. ASSUME NEW x \in Transfers, NEW a \in Accounts, Reconcile(x, a) PROVE Safe
  <2>1. CASE inflight' = inflight
    BY <1>26, <2>1, <1>0 DEF Reconcile, meteorVars
  <2>2. CASE inflight' = inflight \union {AddTx(x, a)}
    BY <1>26, <2>2, SendingSteps DEF Reconcile, HolderStep, meteorVars
  <2> QED BY <1>26, <2>1, <2>2 DEF Reconcile
<1>27. ASSUME NEW x \in Transfers, NEW a \in Accounts, ArchiveFenced(x, a) PROVE Safe
  BY <1>27, <1>0 DEF ArchiveFenced, chainVars, meteorVars
<1>28. ASSUME NEW x \in Transfers, NEW a \in Accounts, RevokeFenced(x, a) PROVE Safe
  BY <1>28, SendingSteps DEF RevokeFenced, HolderStep, meteorVars
<1>29. ASSUME NEW x \in Transfers, NEW a \in Accounts, Expire(x, a) PROVE Safe
  BY <1>29, <1>0 DEF Expire, chainVars, meteorVars
<1>30. ASSUME NEW x \in Transfers, NEW a \in Accounts, DropDelete(x, a) PROVE Safe
  BY <1>30, <1>0 DEF DropDelete, chainVars, meteorVars
<1>31. CASE Unstash
  BY <1>31, <1>0 DEF Unstash, chainVars, meteorVars
<1>32. CASE CatchStart
  BY <1>32, <1>0 DEF CatchStart, chainVars, meteorVars
<1>33. CASE Throw
  BY <1>33, <1>0 DEF Throw, chainVars, meteorVars
<1>34. CASE Reload
  BY <1>34, <1>0 DEF Reload, chainVars, meteorVars
<1>35. CASE LoseStartResult
  BY <1>35, <1>0 DEF LoseStartResult, chainVars, meteorVars
<1>36. ASSUME NEW tx \in inflight, Land(tx) PROVE Safe
  BY <1>36, LandingSteps DEF HolderStep
<1>37. CASE UNCHANGED vars
  BY <1>37, <1>0 DEF vars, chainVars, meteorVars
<1> QED
  BY <1>1, <1>2, <1>3, <1>4, <1>5, <1>6, <1>7, <1>8, <1>9, <1>10, <1>11, <1>12, <1>13,
     <1>14, <1>15, <1>16, <1>17, <1>18, <1>19, <1>20, <1>21, <1>22, <1>23, <1>24, <1>25,
     <1>26, <1>27, <1>28, <1>29, <1>30, <1>31, <1>32, <1>33, <1>34, <1>35, <1>36, <1>37
     
     DEF Next, Starting, Activating, StartingOver, Recovering, Meteor, Chain

LEMMA HandoverInductive == HandoverInv /\ [Next]_vars => HandoverInv'
BY TypesStep, HandoverSteps DEF HandoverInv

LEMMA HandoverInitially == Init => HandoverInv
<1> SUFFICES ASSUME Init PROVE HandoverInv
  OBVIOUS
<1>1. SourceIsNeverRemoved
  BY DEF Init, SourceIsNeverRemoved
<1>2. AccountsKeepAHolder
  BY DEF Init, AccountsKeepAHolder, Holders
<1> QED BY <1>1, <1>2, TypesInitially DEF HandoverInv

LEMMA HandoverInvariant == Spec => []HandoverInv
BY HandoverInitially, HandoverInductive, PTL DEF Spec

\* At every instant this wallet or Meteor can sign for each account: no cut, lost
\* answer, late landing or repeated call leaves one that nobody can sign for.
THEOREM HoldersAlways == Spec => []AccountsKeepAHolder
<1>1. HandoverInv => AccountsKeepAHolder
  BY DEF HandoverInv
<1> QED BY <1>1, HandoverInvariant, PTL

\* The transfer implements SafeHandover: an account is only given up by a party whose
\* partner can sign, with a key that is already on chain.
THEOREM TransferHandsOverSafely == Spec => HandsOverSafely
<1>1. Init => Handover!Init
  BY TransferSentinels DEF Init, Handover!Init, Holders
<1>2. HandoverInv /\ [Next]_vars => [Handover!Next]_([a \in Accounts |-> Holders(a)])
  <2> SUFFICES ASSUME HandoverInv, [Next]_vars
               PROVE  [Handover!Next]_([a \in Accounts |-> Holders(a)])
    OBVIOUS
  <2> DEFINE holders == [a \in Accounts |-> Holders(a)]
  <2>1. CASE \A a \in Accounts : Holders(a)' = Holders(a)
    <3>1. holders' = holders
      BY <2>1
    <3> QED BY <3>1
  <2>2. ASSUME NEW a \in Accounts, \A b \in Accounts \ {a} : Holders(b)' = Holders(b)
        PROVE  \A s : Holders(a)' = s => holders' = [holders EXCEPT ![a] = s]
    BY <2>2
  <2>3. ASSUME NEW a \in Accounts, \A b \in Accounts \ {a} : Holders(b)' = Holders(b),
               Holders(a)' = Holders(a) \union {"meteor"}
        PROVE  Handover!Join(a)
    BY <2>2, <2>3 DEF Handover!Join
  <2>4. ASSUME NEW a \in Accounts, \A b \in Accounts \ {a} : Holders(b)' = Holders(b),
               "wallet" \in Holders(a), Holders(a)' = Holders(a) \ {"meteor"}
        PROVE  Handover!Leave(a)
    BY <2>2, <2>4 DEF Handover!Leave
  <2>5. ASSUME NEW a \in Accounts, \A b \in Accounts \ {a} : Holders(b)' = Holders(b),
               "meteor" \in Holders(a), Holders(a)' = Holders(a) \ {"wallet"}
        PROVE  Handover!Release(a)
    BY <2>2, <2>5 DEF Handover!Release
  <2>6. HolderStep
    BY HandoverSteps
  <2> QED BY <2>1, <2>3, <2>4, <2>5, <2>6 DEF HolderStep, Handover!Next
<1> QED BY <1>1, <1>2, HandoverInvariant, PTL DEF Spec, HandsOverSafely, Handover!Spec

\* What SafeHandover promises is enough: whatever hands accounts over as it says, leaves
\* each of them with somebody who can sign.
THEOREM HandoversKeepAHolder == HandsOverSafely => []AccountsKeepAHolder
<1> DEFINE holders == [a \in Accounts |-> Holders(a)]
<1>1. Handover!Init => AccountsKeepAHolder
  <2> SUFFICES ASSUME Handover!Init, NEW a \in Accounts PROVE Holders(a) # {}
    BY DEF AccountsKeepAHolder
  <2>1. holders[a] = {"wallet"}
    BY DEF Handover!Init
  <2> QED BY <2>1
<1>2. AccountsKeepAHolder /\ [Handover!Next]_holders => AccountsKeepAHolder'
  <2> SUFFICES ASSUME AccountsKeepAHolder, [Handover!Next]_holders, NEW b \in Accounts
               PROVE  Holders(b)' # {}
    BY DEF AccountsKeepAHolder
  <2>1. holders[b] = Holders(b) /\ holders'[b] = Holders(b)' /\ Holders(b) # {}
    BY DEF AccountsKeepAHolder
  <2>2. holders'[b] # {}
    <3>1. CASE holders' = holders
      BY <2>1, <3>1
    <3>2. ASSUME NEW a \in Accounts, Handover!Join(a) \/ Handover!Leave(a) \/ Handover!Release(a)
          PROVE  \E s : s # {} /\ holders' = [holders EXCEPT ![a] = s]
      <4>1. holders' = [holders EXCEPT ![a] = holders[a] \union {"meteor"}]
            \/ ("wallet" \in holders[a] /\ holders' = [holders EXCEPT ![a] = holders[a] \ {"meteor"}])
            \/ ("meteor" \in holders[a] /\ holders' = [holders EXCEPT ![a] = holders[a] \ {"wallet"}])
        BY <3>2 DEF Handover!Join, Handover!Leave, Handover!Release
      <4> HIDE DEF holders
      <4> QED BY <4>1
    <3>3. CASE \E a \in Accounts : \E s : s # {} /\ holders' = [holders EXCEPT ![a] = s]
      <4>1. holders = [a \in Accounts |-> holders[a]]
        OBVIOUS
      <4> HIDE DEF holders
      <4> QED BY <2>1, <3>3, <4>1
    <3> QED BY <3>1, <3>2, <3>3 DEF Handover!Next
  <2> QED BY <2>1, <2>2
<1> QED BY <1>1, <1>2, PTL DEF HandsOverSafely, Handover!Spec

-----------------------------------------------------------------------------
(* A fence always has a way out.                                           *)

\* An answer that was heard is one that Meteor gave.
AnswersAreMinted ==
    \A x \in Transfers : session[x].state = "answered" => minted[x].done

\* A key that Meteor names is minted for this transfer, or no key of its own at all.
KeysAreNamed == \A x \in Transfers, a \in Accounts : Dest(x, a) \in {x, NoKey, Source}

\* What is signed adds a minted key: bytes are never signed for a key that is on the
\* account, which the source key is.
SignedKeysAreMinted ==
    \A x \in Transfers, a \in Accounts :
        op[x][a] = "signed" => minted[x].done /\ Dest(x, a) = x
SentKeysAreMinted == \A tx \in inflight : tx.kind = "add" => tx.key = tx.x

\* A minted key gets on an account by its own AddKey only.
MintedKeysHaveLanded ==
    \A x \in Transfers, a \in Accounts : x \in onChain[a] => <<x, a>> \in landed

WayOut ==
    /\ AnswersAreMinted /\ KeysAreNamed
    /\ SignedKeysAreMinted /\ SentKeysAreMinted
    /\ MintedKeysHaveLanded
WayOutInv == TypeOK /\ WayOut

LEMMA FencesHoldMintedKeys == WayOutInv => FenceHasAWayOut
BY DEF WayOutInv, WayOut, SignedKeysAreMinted, MintedKeysHaveLanded, FenceHasAWayOut, Fence

\* The steps that journal neither an answer nor a signature, and leave the chain alone
\* but for what is in flight.
LEMMA JournalSteps ==
    ASSUME WayOutInv, UNCHANGED <<onChain, landed, minted>>,
           \A tx \in inflight' \ inflight : tx.kind = "add" => tx.key = tx.x,
           \A x \in Transfers : session'[x].state = "answered" => session[x].state = "answered",
           \A x \in Transfers, a \in Accounts : op'[x][a] = "signed" => op[x][a] = "signed"
    PROVE  WayOut'
<1> USE DEF WayOutInv, WayOut
<1>1. AnswersAreMinted' /\ KeysAreNamed'
  BY DEF AnswersAreMinted, KeysAreNamed, Dest
<1>2. SignedKeysAreMinted'
  BY DEF SignedKeysAreMinted, Dest
<1>3. SentKeysAreMinted'
  BY DEF SentKeysAreMinted
<1>4. MintedKeysHaveLanded'
  BY DEF MintedKeysHaveLanded
<1> QED BY <1>1, <1>2, <1>3, <1>4

\* What one entry of the journal may become without a new signature.
LEMMA RetiredOps ==
    ASSUME TypeOK, NEW x \in Transfers, NEW a \in Accounts, NEW s, s # "signed",
           op' = [op EXCEPT ![x][a] = s]
    PROVE  \A y \in Transfers, b \in Accounts : op'[y][b] = "signed" => op[y][b] = "signed"
BY DEF TypeOK

\* A transaction that is sent for a signed entry adds the key that was minted for it.
LEMMA SignedBytes ==
    ASSUME WayOutInv, NEW x \in Transfers, NEW a \in Accounts, op[x][a] = "signed"
    PROVE  AddTx(x, a).key = AddTx(x, a).x
BY DEF WayOutInv, WayOut, SignedKeysAreMinted, AddTx

LEMMA ClearedSessions ==
    ASSUME TypeOK, NEW x \in Transfers, Cleared(x)
    PROVE  /\ \A y \in Transfers : session'[y].state = "answered" => session[y].state = "answered"
           /\ op' = op
BY DEF TypeOK, Cleared, SessionType

LEMMA SweptSessions ==
    ASSUME TypeOK, SweepLeftover
    PROVE  /\ \A y \in Transfers : session'[y].state = "answered" => session[y].state = "answered"
           /\ op' = op
BY ClearedSessions DEF SweepLeftover, Present, journalVars

LEMMA MintingKeeps ==
    ASSUME WayOutInv, NEW x \in Transfers, MeteorMints(x) PROVE WayOut'
<1> USE DEF WayOutInv, WayOut, MeteorMints, chainVars, journalVars
<1>1. PICK keys \in [Accounts -> {x, NoKey, Source}] :
          minted' = [minted EXCEPT ![x] = [done |-> TRUE, key |-> keys]]
  OBVIOUS
<1>2. \A y \in Transfers \ {x} : minted'[y] = minted[y]
  BY <1>1 DEF TypeOK
<1>3. minted'[x].done /\ \A a \in Accounts : Dest(x, a)' \in {x, NoKey, Source}
  BY <1>1 DEF TypeOK, Dest
<1>4. AnswersAreMinted'
  BY <1>2, <1>3 DEF AnswersAreMinted
<1>5. KeysAreNamed'
  BY <1>2, <1>3 DEF KeysAreNamed, Dest
<1>6. SignedKeysAreMinted'
  BY <1>2 DEF SignedKeysAreMinted, Dest
<1> QED BY <1>4, <1>5, <1>6 DEF SentKeysAreMinted, MintedKeysHaveLanded

LEMMA HearingKeeps ==
    ASSUME WayOutInv, NEW x \in Transfers, HearAnswer(x) PROVE WayOut'
<1> USE DEF WayOutInv, WayOut, HearAnswer, chainVars, meteorVars
<1>1. \A y \in Transfers \ {x} : session'[y] = session[y]
  BY DEF TypeOK
<1>2. AnswersAreMinted'
  BY <1>1 DEF AnswersAreMinted
<1> QED
  BY <1>2 DEF KeysAreNamed, SignedKeysAreMinted, SentKeysAreMinted, MintedKeysHaveLanded, Dest

\* The account has the source key and not the key to add, so the latter is minted.
LEMMA SigningKeeps ==
    ASSUME WayOutInv, NEW x \in Transfers, NEW a \in Accounts, SignAddKey(x, a) PROVE WayOut'
<1> USE DEF WayOutInv, WayOut, SignAddKey, Advance, Turn, chainVars, meteorVars
<1>1. session[x].state = "answered" /\ Dest(x, a) # NoKey
  BY DEF Accepted
<1>2. minted[x].done /\ Dest(x, a) = x
  BY <1>1 DEF AnswersAreMinted, KeysAreNamed
<1>3. \A y \in Transfers, b \in Accounts :
          op'[y][b] = "signed" => op[y][b] = "signed" \/ (y = x /\ b = a)
  BY DEF TypeOK
<1>4. SignedKeysAreMinted'
  BY <1>2, <1>3 DEF SignedKeysAreMinted, Dest
<1> QED BY <1>4 DEF AnswersAreMinted, KeysAreNamed, SentKeysAreMinted, MintedKeysHaveLanded, Dest

LEMMA CleaningKeeps ==
    ASSUME WayOutInv, NEW x \in Transfers, NEW a \in Accounts, MeteorCleansUp(x, a) PROVE WayOut'
<1> USE DEF WayOutInv, WayOut, MeteorCleansUp, meteorVars, journalVars
<1>1. \A b \in Accounts : onChain'[b] \subseteq onChain[b]
  BY DEF TypeOK
<1>2. MintedKeysHaveLanded'
  BY <1>1 DEF MintedKeysHaveLanded
<1> QED
  BY <1>2 DEF AnswersAreMinted, KeysAreNamed, SignedKeysAreMinted, SentKeysAreMinted, Dest

LEMMA LandingKeeps ==
    ASSUME WayOutInv, NEW tx \in inflight, Land(tx) PROVE WayOut'
<1>1. tx \in Tx /\ tx.a \in Accounts /\ (tx.kind = "add" => tx.key = tx.x)
  BY DEF WayOutInv, TypeOK, WayOut, SentKeysAreMinted, Tx
<1>2. \A x \in Transfers, b \in Accounts :
          x \in onChain'[b] => x \in onChain[b] \/ (tx.kind = "add" /\ x = tx.x /\ b = tx.a)
  BY <1>1 DEF WayOutInv, TypeOK, Land
<1>3. landed \subseteq landed' /\ (tx.kind = "add" => <<tx.x, tx.a>> \in landed')
  BY DEF Land
<1>4. MintedKeysHaveLanded
  BY DEF WayOutInv, WayOut
<1>5. MintedKeysHaveLanded'
  BY <1>2, <1>3, <1>4 DEF MintedKeysHaveLanded
<1>6. SentKeysAreMinted'
  BY DEF WayOutInv, WayOut, Land, SentKeysAreMinted
<1>7. AnswersAreMinted' /\ KeysAreNamed' /\ SignedKeysAreMinted'
  BY DEF WayOutInv, WayOut, Land, meteorVars, journalVars,
         AnswersAreMinted, KeysAreNamed, SignedKeysAreMinted, Dest
<1> QED BY <1>5, <1>6, <1>7 DEF WayOut

LEMMA WayOutStep == WayOutInv /\ [Next]_vars => WayOut'
<1> SUFFICES ASSUME WayOutInv, [Next]_vars PROVE WayOut'
  OBVIOUS
<1> DEFINE Quiet == UNCHANGED <<onChain, landed, minted, session, op>>
                    /\ \A tx \in inflight' \ inflight : tx.kind = "add" => tx.key = tx.x
<1>0. Quiet => WayOut'
  BY JournalSteps
<1> USE DEF WayOutInv
<1>1. ASSUME NEW S \in Selections, StartTransfer(S) PROVE WayOut'
  <2>1. SweepLeftover \/ UNCHANGED journalVars
    BY <1>1 DEF StartTransfer
  <2> QED BY <1>1, <2>1, SweptSessions, JournalSteps DEF StartTransfer, journalVars, chainVars, meteorVars
<1>2. ASSUME NEW x \in Transfers, OpenMeteor(x) PROVE WayOut'
  <2>1. \A y \in Transfers : session'[y].state = "answered" => session[y].state = "answered"
    BY <1>2 DEF TypeOK, OpenMeteor
  <2> QED BY <1>2, <2>1, JournalSteps DEF OpenMeteor, chainVars, meteorVars
<1>3. ASSUME NEW x \in Transfers, HearAnswer(x) PROVE WayOut'
  BY <1>3, HearingKeeps
<1>4. ASSUME NEW x \in Transfers, MeteorMints(x) PROVE WayOut'
  BY <1>4, MintingKeeps
<1>5. ASSUME NEW x \in Transfers, StartAddKeys(x) PROVE WayOut'
  BY <1>5, <1>0 DEF StartAddKeys, chainVars, meteorVars, journalVars
<1>6. ASSUME NEW x \in Transfers, FinishAddKeys(x) PROVE WayOut'
  BY <1>6, <1>0 DEF FinishAddKeys, chainVars, meteorVars
<1>7. ASSUME NEW x \in Transfers, StartVerify(x) PROVE WayOut'
  BY <1>7, <1>0 DEF StartVerify, chainVars, journalVars
<1>8. ASSUME NEW x \in Transfers, HearVerification(x) PROVE WayOut'
  <2>1. \A y \in Transfers : session'[y].state = "answered" => session[y].state = "answered"
    BY <1>8 DEF TypeOK, HearVerification, SessionType
  <2> QED BY <1>8, <2>1, JournalSteps DEF HearVerification, chainVars, meteorVars
<1>9. ASSUME NEW x \in Transfers, DiscardStash(x) PROVE WayOut'
  BY <1>9, <1>0 DEF DiscardStash, chainVars, meteorVars
<1>10. ASSUME NEW x \in Transfers, StartOverUnsent(x) PROVE WayOut'
  BY <1>10, <1>0 DEF StartOverUnsent, chainVars, meteorVars, journalVars
<1>11. ASSUME NEW x \in Transfers, RefuseStartOver(x) PROVE WayOut'
  BY <1>11, <1>0 DEF RefuseStartOver, chainVars, meteorVars, journalVars
<1>12. ASSUME NEW x \in Transfers, StartRevocation(x) PROVE WayOut'
  BY <1>12, <1>0 DEF StartRevocation, chainVars, meteorVars, journalVars
<1>13. ASSUME NEW x \in Transfers, SeeRemoved(x) PROVE WayOut'
  BY <1>13, <1>0 DEF SeeRemoved, chainVars, meteorVars, journalVars
<1>14. ASSUME NEW x \in Transfers, MarkRevoked(x) PROVE WayOut'
  <2>1. \A y \in Transfers, b \in Accounts : op'[y][b] = "signed" => op[y][b] = "signed"
    BY <1>14 DEF TypeOK, MarkRevoked, NoOps
  <2> QED BY <1>14, <2>1, JournalSteps DEF MarkRevoked, chainVars, meteorVars
<1>15. ASSUME NEW x \in Transfers, ClearRecord(x) PROVE WayOut'
  BY <1>15, ClearedSessions, JournalSteps DEF ClearRecord, chainVars, meteorVars
<1>16. ASSUME NEW x \in Transfers, ClearResult(x) PROVE WayOut'
  BY <1>16, <1>0 DEF ClearResult, chainVars, meteorVars
<1>17. ASSUME NEW x \in Transfers, ArchiveRevoked(x) PROVE WayOut'
  <2>1. call.a \in Accounts
    BY <1>17 DEF TypeOK, ArchiveRevoked, At
  <2>2. \A y \in Transfers, b \in Accounts : op'[y][b] = "signed" => op[y][b] = "signed"
    BY <1>17, <2>1, RetiredOps DEF ArchiveRevoked, Retired
  <2> QED BY <1>17, <2>2, JournalSteps DEF ArchiveRevoked, Retired, chainVars, meteorVars
<1>18. ASSUME NEW x \in Transfers, NEW a \in Accounts, JournalIntent(x, a) PROVE WayOut'
  BY <1>18, RetiredOps, JournalSteps DEF JournalIntent, Advance, chainVars, meteorVars
<1>19. ASSUME NEW x \in Transfers, NEW a \in Accounts, SignAddKey(x, a) PROVE WayOut'
  BY <1>19, SigningKeeps
<1>20. ASSUME NEW x \in Transfers, NEW a \in Accounts, Broadcast(x, a) PROVE WayOut'
  BY <1>20, <1>0, SignedBytes DEF Broadcast, meteorVars, journalVars
<1>21. ASSUME NEW x \in Transfers, NEW a \in Accounts, ProveFinal(x, a) PROVE WayOut'
  BY <1>21, RetiredOps, JournalSteps DEF ProveFinal, Advance, chainVars, meteorVars
<1>22. ASSUME NEW x \in Transfers, NEW a \in Accounts, MeteorSecures(x, a) PROVE WayOut'
  BY <1>22, <1>0 DEF MeteorSecures, chainVars, journalVars
<1>23. ASSUME NEW x \in Transfers, NEW a \in Accounts, MeteorCleansUp(x, a) PROVE WayOut'
  BY <1>23, CleaningKeeps
<1>24. ASSUME NEW x \in Transfers, NEW a \in Accounts, SkipAbsent(x, a) PROVE WayOut'
  BY <1>24, <1>0 DEF SkipAbsent, chainVars, meteorVars, journalVars
<1>25. ASSUME NEW x \in Transfers, NEW a \in Accounts, RemoveDestination(x, a) PROVE WayOut'
  BY <1>25, <1>0 DEF RemoveDestination, DeleteTx, meteorVars, journalVars
<1>26. ASSUME NEW x \in Transfers, NEW a \in Accounts, Reconcile(x, a) PROVE WayOut'
  <2>1. op[x][a] = "signed"
    BY <1>26 DEF Reconcile, Fence
  <2>2. CASE <<x, a>> \in landed
    BY <1>26, <2>2, RetiredOps, JournalSteps DEF Reconcile, meteorVars
  <2>3. CASE <<x, a>> \notin landed
    BY <1>26, <2>1, <2>3, <1>0, SignedBytes DEF Reconcile, meteorVars
  <2> QED BY <2>2, <2>3
<1>27. ASSUME NEW x \in Transfers, NEW a \in Accounts, ArchiveFenced(x, a) PROVE WayOut'
  BY <1>27, RetiredOps, JournalSteps DEF ArchiveFenced, Retired, chainVars, meteorVars
<1>28. ASSUME NEW x \in Transfers, NEW a \in Accounts, RevokeFenced(x, a) PROVE WayOut'
  BY <1>28, <1>0 DEF RevokeFenced, DeleteTx, meteorVars, journalVars
<1>29. ASSUME NEW x \in Transfers, NEW a \in Accounts, Expire(x, a) PROVE WayOut'
  BY <1>29, <1>0 DEF Expire, meteorVars, journalVars
<1>30. ASSUME NEW x \in Transfers, NEW a \in Accounts, DropDelete(x, a) PROVE WayOut'
  BY <1>30, <1>0 DEF DropDelete, meteorVars, journalVars
<1>31. CASE Unstash
  BY <1>31, <1>0 DEF Unstash, chainVars, meteorVars, journalVars
<1>32. CASE CatchStart
  BY <1>32, <1>0 DEF CatchStart, chainVars, meteorVars, journalVars
<1>33. CASE Throw
  BY <1>33, <1>0 DEF Throw, chainVars, meteorVars, journalVars
<1>34. CASE Reload
  BY <1>34, <1>0 DEF Reload, chainVars, meteorVars, journalVars
<1>35. CASE LoseStartResult
  BY <1>35, <1>0 DEF LoseStartResult, chainVars, meteorVars
<1>36. ASSUME NEW tx \in inflight, Land(tx) PROVE WayOut'
  BY <1>36, LandingKeeps
<1>37. CASE UNCHANGED vars
  BY <1>37, <1>0 DEF vars, chainVars, meteorVars, journalVars
<1> HIDE DEF Quiet
<1> QED
  BY <1>1, <1>2, <1>3, <1>4, <1>5, <1>6, <1>7, <1>8, <1>9, <1>10, <1>11, <1>12, <1>13,
     <1>14, <1>15, <1>16, <1>17, <1>18, <1>19, <1>20, <1>21, <1>22, <1>23, <1>24, <1>25,
     <1>26, <1>27, <1>28, <1>29, <1>30, <1>31, <1>32, <1>33, <1>34, <1>35, <1>36, <1>37
     DEF Next, Starting, Activating, StartingOver, Recovering, Meteor, Chain

LEMMA WayOutInitially == Init => WayOutInv
<1> SUFFICES ASSUME Init PROVE WayOut
  BY TypesInitially DEF WayOutInv
<1>1. MintedKeysHaveLanded
  BY TransferSentinels DEF Init, MintedKeysHaveLanded
<1>2. AnswersAreMinted /\ KeysAreNamed /\ SignedKeysAreMinted /\ SentKeysAreMinted
  BY DEF Init, AnswersAreMinted, KeysAreNamed, SignedKeysAreMinted, SentKeysAreMinted, Dest, NoOps
<1> QED BY <1>1, <1>2 DEF WayOut

LEMMA WayOutInductive == WayOutInv /\ [Next]_vars => WayOutInv'
BY TypesStep, WayOutStep DEF WayOutInv

\* A device is never fenced by an AddKey that can neither be proved final nor be
\* archived once its bytes have expired: not after any cut, loss or revocation, whether
\* Meteor answered with a new key, with none or with the account's own. This is what
\* makes FenceIsLifted possible, for any number of accounts and transfers.
THEOREM FencesHaveAWayOut == Spec => []FenceHasAWayOut
BY WayOutInitially, WayOutInductive, FencesHoldMintedKeys, PTL DEF Spec
=============================================================================
