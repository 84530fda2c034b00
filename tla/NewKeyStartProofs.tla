------------------------- MODULE NewKeyStartProofs -------------------------
(***************************************************************************)
(* The first half of a transfer, the start, which may be refused, cut and  *)
(* tried again: when an interrupted start is replayed, and why Meteor is   *)
(* not asked for an answer that the journal cannot take.                   *)
(***************************************************************************)
EXTENDS NewKeyTransferProofs

\* Every start asks for the same accounts.
OneSelectionOnly == \A S, T \in Selections : S = T

Starts == {"ask", "answer", "unstash"}
Pending(y) == session[y].state = "pending"
NonePending == \A y \in Transfers : ~Pending(y)

-----------------------------------------------------------------------------
(* What the stash and the call that runs know of each other.               *)

ReplaysTheStash ==
    call.pc \in Starts /\ call.replay => call.x = stash.id /\ stash.id # NoTransfer

\* An answered start has its record, or the clear of it is on its way.  While there is a
\* stash no other transfer's answer has the slot, but for the instant at which that
\* answer was heard and the stash goes; a first attempt finds the slot free.
SlotFits ==
    /\ startResult # NoTransfer =>
          session[startResult].state = "answered" \/ At("clearResult", startResult)
    /\ stash.id # NoTransfer /\ call.pc # "unstash" => startResult \in {NoTransfer, stash.id}
    /\ call.pc \in {"ask", "answer"} /\ ~call.replay => startResult = NoTransfer

SlotInv == TypeOK /\ ReplaysTheStash /\ SlotFits

\* When all starts ask for the same accounts, the stash and the attempts do, and a
\* first attempt leaves no stash behind it.
StashAgrees ==
    /\ ReplaysTheStash
    /\ stash.id # NoTransfer => stash.asked \in Selections
    /\ call.pc \in Starts => call.asked \in Selections
    /\ call.pc \in Starts /\ ~call.replay => stash.id = NoTransfer

StartInv == TypeOK /\ StashAgrees

\* The record without an answer is the one that is stashed, or that the call waits
\* for; the catch block finds it, since no record is newer.
PendingIsKnown ==
    /\ \A y \in Transfers : Pending(y) => y = stash.id \/ At("answer", y)
    /\ call.pc = "ask" /\ ~call.replay => NonePending
    /\ call.pc = "unstash" => NonePending
    /\ \A y \in Transfers : At("answer", y) /\ ~call.replay /\ Pending(y) => Newest(y)
    /\ stash.id # NoTransfer => session[stash.id].state # "unused"

-----------------------------------------------------------------------------
(* Which steps are about a start.                                          *)

\* The other steps leave the records' states, their order, and what runs of a start
\* alone; a start result or a stash may go, and a call that waits may be cut.
Outside ==
    /\ \A y \in Transfers : session'[y].state = session[y].state
    /\ older' = older
    /\ startResult' \in {startResult, NoTransfer}
    /\ stash' = stash \/ (stash' = NoStash /\ Idle /\ "startOver" \in Operations)
    /\ \/ call' = call
       \/ /\ call'.pc \notin Starts
          /\ call.pc \in Starts => "reload" \in Operations
          /\ call.pc = "clearResult" => "reload" \in Operations \/ "orphan" \in Operations

StartStep ==
    \/ \E S \in Selections : StartTransfer(S)
    \/ \E x \in Transfers : OpenMeteor(x) \/ HearAnswer(x)
    \/ \E x \in Transfers : ClearRecord(x) \/ ClearResult(x)
    \/ Unstash \/ CatchStart

LEMMA StepKinds == TypeOK /\ [Next]_vars => Outside \/ StartStep
<1> SUFFICES ASSUME TypeOK, [Next]_vars PROVE Outside \/ StartStep
  OBVIOUS
<1> USE DEF Outside, Starts, Idle, At, Return, NoCall, chainVars, meteorVars, journalVars
<1>1. ASSUME NEW S \in Selections, StartTransfer(S) PROVE Outside \/ StartStep
  BY <1>1 DEF StartStep
<1>2. ASSUME NEW x \in Transfers, OpenMeteor(x) PROVE Outside \/ StartStep
  BY <1>2 DEF StartStep
<1>3. ASSUME NEW x \in Transfers, HearAnswer(x) PROVE Outside \/ StartStep
  BY <1>3 DEF StartStep
<1>4. ASSUME NEW x \in Transfers, MeteorMints(x) PROVE Outside \/ StartStep
  BY <1>4 DEF MeteorMints
<1>5. ASSUME NEW x \in Transfers, StartAddKeys(x) PROVE Outside \/ StartStep
  BY <1>5 DEF StartAddKeys
<1>6. ASSUME NEW x \in Transfers, FinishAddKeys(x) PROVE Outside \/ StartStep
  BY <1>6 DEF FinishAddKeys
<1>7. ASSUME NEW x \in Transfers, StartVerify(x) PROVE Outside \/ StartStep
  BY <1>7 DEF StartVerify
<1>8. ASSUME NEW x \in Transfers, HearVerification(x) PROVE Outside \/ StartStep
  BY <1>8 DEF HearVerification, TypeOK, SessionType
<1>9. ASSUME NEW x \in Transfers, DiscardStash(x) PROVE Outside \/ StartStep
  BY <1>9 DEF DiscardStash, StartsOver
<1>10. ASSUME NEW x \in Transfers, StartOverUnsent(x) PROVE Outside \/ StartStep
  BY <1>10 DEF StartOverUnsent, StartsOver
<1>11. ASSUME NEW x \in Transfers, RefuseStartOver(x) PROVE Outside \/ StartStep
  BY <1>11 DEF RefuseStartOver, StartsOver
<1>12. ASSUME NEW x \in Transfers, StartRevocation(x) PROVE Outside \/ StartStep
  BY <1>12 DEF StartRevocation, StartsOver
<1>13. ASSUME NEW x \in Transfers, SeeRemoved(x) PROVE Outside \/ StartStep
  BY <1>13 DEF SeeRemoved, TypeOK, CallType
<1>14. ASSUME NEW x \in Transfers, MarkRevoked(x) PROVE Outside \/ StartStep
  BY <1>14 DEF MarkRevoked, TypeOK, CallType
<1>15. ASSUME NEW x \in Transfers, ClearRecord(x) PROVE Outside \/ StartStep
  BY <1>15 DEF StartStep
<1>16. ASSUME NEW x \in Transfers, ClearResult(x) PROVE Outside \/ StartStep
  BY <1>16 DEF StartStep
<1>17. ASSUME NEW x \in Transfers, ArchiveRevoked(x) PROVE Outside \/ StartStep
  BY <1>17 DEF ArchiveRevoked, Retired
<1>18. ASSUME NEW x \in Transfers, NEW a \in Accounts, JournalIntent(x, a)
       PROVE Outside \/ StartStep
  BY <1>18 DEF JournalIntent, Advance
<1>19. ASSUME NEW x \in Transfers, NEW a \in Accounts, SignAddKey(x, a) PROVE Outside \/ StartStep
  BY <1>19 DEF SignAddKey, Advance
<1>20. ASSUME NEW x \in Transfers, NEW a \in Accounts, Broadcast(x, a) PROVE Outside \/ StartStep
  BY <1>20 DEF Broadcast
<1>21. ASSUME NEW x \in Transfers, NEW a \in Accounts, ProveFinal(x, a) PROVE Outside \/ StartStep
  BY <1>21 DEF ProveFinal, Advance
<1>22. ASSUME NEW x \in Transfers, NEW a \in Accounts, MeteorSecures(x, a)
       PROVE Outside \/ StartStep
  BY <1>22 DEF MeteorSecures
<1>23. ASSUME NEW x \in Transfers, NEW a \in Accounts, MeteorCleansUp(x, a)
       PROVE Outside \/ StartStep
  BY <1>23 DEF MeteorCleansUp
<1>24. ASSUME NEW x \in Transfers, NEW a \in Accounts, SkipAbsent(x, a) PROVE Outside \/ StartStep
  BY <1>24 DEF SkipAbsent, TypeOK, CallType
<1>25. ASSUME NEW x \in Transfers, NEW a \in Accounts, RemoveDestination(x, a)
       PROVE Outside \/ StartStep
  BY <1>25 DEF RemoveDestination, TypeOK, CallType
<1>26. ASSUME NEW x \in Transfers, NEW a \in Accounts, Reconcile(x, a) PROVE Outside \/ StartStep
  BY <1>26 DEF Reconcile
<1>27. ASSUME NEW x \in Transfers, NEW a \in Accounts, ArchiveFenced(x, a)
       PROVE Outside \/ StartStep
  BY <1>27 DEF ArchiveFenced, Retired
<1>28. ASSUME NEW x \in Transfers, NEW a \in Accounts, RevokeFenced(x, a) PROVE Outside \/ StartStep
  BY <1>28 DEF RevokeFenced
<1>29. ASSUME NEW x \in Transfers, NEW a \in Accounts, Expire(x, a) PROVE Outside \/ StartStep
  BY <1>29 DEF Expire
<1>30. ASSUME NEW x \in Transfers, NEW a \in Accounts, DropDelete(x, a) PROVE Outside \/ StartStep
  BY <1>30 DEF DropDelete
<1>31. CASE Unstash
  BY <1>31 DEF StartStep
<1>32. CASE CatchStart
  BY <1>32 DEF StartStep
<1>33. CASE Throw
  BY <1>33 DEF Throw
<1>34. CASE Reload
  BY <1>34 DEF Reload
<1>35. CASE LoseStartResult
  BY <1>35 DEF LoseStartResult
<1>36. ASSUME NEW tx \in inflight, Land(tx) PROVE Outside \/ StartStep
  BY <1>36 DEF Land
<1>37. CASE UNCHANGED vars
  BY <1>37 DEF vars
<1> QED
  BY <1>1, <1>2, <1>3, <1>4, <1>5, <1>6, <1>7, <1>8, <1>9, <1>10, <1>11, <1>12, <1>13,
     <1>14, <1>15, <1>16, <1>17, <1>18, <1>19, <1>20, <1>21, <1>22, <1>23, <1>24, <1>25,
     <1>26, <1>27, <1>28, <1>29, <1>30, <1>31, <1>32, <1>33, <1>34, <1>35, <1>36, <1>37
     DEF Next, Starting, Activating, StartingOver, Recovering, Meteor, Chain
-----------------------------------------------------------------------------
(* The slot of the answered start.                                         *)

\* No call is cut between the two writes of a clear.
ClearsAreWhole == Operations \cap {"orphan", "reload"} = {}

\* The leftover that a first attempt finds is swept.
LEMMA SweepFreesTheSlot ==
    ASSUME SlotInv, Idle, SweepLeftover
    PROVE  startResult' = NoTransfer
<1>1. CASE startResult = NoTransfer
  BY <1>1 DEF SweepLeftover, journalVars
<1>2. CASE startResult # NoTransfer
  <2>1. startResult \in Transfers /\ session[startResult].state = "answered"
    BY <1>2 DEF SlotInv, TypeOK, MaybeTransfer, SlotFits, Idle, At
  <2> QED BY <2>1 DEF SweepLeftover, Present
<1> QED BY <1>1, <1>2

LEMMA OutsideKeepsSlotFits ==
    ASSUME ClearsAreWhole, SlotInv, Outside PROVE ReplaysTheStash' /\ SlotFits'
<1> USE DEF ClearsAreWhole, SlotInv, TypeOK, MaybeTransfer, ReplaysTheStash, SlotFits, Outside,
        Starts, Idle, At, NoStash
<1>1. startResult' # NoTransfer =>
         session'[startResult'].state = "answered" \/ At("clearResult", startResult)'
  OBVIOUS
<1>2. stash'.id # NoTransfer /\ call'.pc # "unstash" => startResult' \in {NoTransfer, stash'.id}
  OBVIOUS
<1>3. call'.pc \in {"ask", "answer"} /\ ~call'.replay => startResult' = NoTransfer
  OBVIOUS
<1>4. ReplaysTheStash'
  OBVIOUS
<1> QED BY <1>1, <1>2, <1>3, <1>4

LEMMA SlotFitsStep ==
    ASSUME ClearsAreWhole, SlotInv, [Next]_vars
    PROVE  ReplaysTheStash' /\ SlotFits'
<1> DEFINE Fits == ReplaysTheStash /\ SlotFits
<1> USE DEF SlotInv, ReplaysTheStash, SlotFits, Starts, At, Return, NoCall, NoStash, chainVars,
        meteorVars, journalVars
<1>1. CASE Outside
  BY <1>1, OutsideKeepsSlotFits
<1>2. ASSUME NEW S \in Selections, StartTransfer(S) PROVE Fits'
  <2>1. CASE Replays(S)
    BY <1>2, <2>1 DEF StartTransfer, Replays, Idle
  <2>2. CASE ~Replays(S)
    <3>1. startResult' = NoTransfer /\ stash' = stash
      BY <1>2, <2>2, SweepFreesTheSlot DEF StartTransfer
    <3>2. call'.pc = "ask" /\ call'.replay = FALSE
      BY <1>2, <2>2 DEF StartTransfer
    <3> QED BY <3>1, <3>2
  <2> QED BY <2>1, <2>2
<1>3. ASSUME NEW x \in Transfers, OpenMeteor(x) PROVE Fits'
  <2>1. startResult' = startResult /\ stash' = stash /\ call.pc = "ask"
        /\ call'.pc = "answer" /\ call'.replay = call.replay
        /\ (call.replay => call'.x = call.x)
    BY <1>3 DEF OpenMeteor, TypeOK, CallType
  <2>2. startResult # NoTransfer => session'[startResult].state = "answered"
    BY <1>3, <2>1 DEF OpenMeteor, Present, TypeOK, MaybeTransfer
  <2> QED BY <2>1, <2>2
<1>4. ASSUME NEW x \in Transfers, HearAnswer(x) PROVE Fits'
  <2>1. startResult' # NoTransfer => session'[startResult'].state = "answered"
    BY <1>4 DEF HearAnswer, TypeOK, MaybeTransfer, SessionType
  <2>2. call.pc = "answer" /\ call.x = x /\ call'.pc = "unstash" /\ stash' = stash
        /\ startResult' \in {startResult, x} /\ call'.x = x /\ call'.replay = call.replay
    BY <1>4 DEF HearAnswer, TypeOK, CallType
  <2> QED BY <2>1, <2>2 DEF TypeOK, CallType
<1>5. ASSUME NEW x \in Transfers, ClearRecord(x) PROVE Fits'
  <2>1. startResult' = startResult /\ stash' = stash /\ call'.pc = "clearResult" /\ call'.x = x
        /\ call.pc = "clear"
    BY <1>5 DEF ClearRecord, TypeOK, CallType
  <2>2. startResult # NoTransfer /\ startResult # x => session'[startResult].state = "answered"
    BY <1>5, <2>1 DEF ClearRecord, Cleared, TypeOK, MaybeTransfer
  <2> QED BY <2>1, <2>2
<1>6. ASSUME NEW x \in Transfers, ClearResult(x) PROVE Fits'
  BY <1>6 DEF ClearResult
<1>7. CASE Unstash
  BY <1>7 DEF Unstash
<1>8. CASE CatchStart
  BY <1>8 DEF CatchStart, MayThrow
<1> QED BY <1>1, <1>2, <1>3, <1>4, <1>5, <1>6, <1>7, <1>8, StepKinds DEF StartStep

\* Meteor is not asked to mint keys for an answer that the journal cannot take, whatever
\* starts fail, are refused or started over: the sweep and the replay see to it.
THEOREM AnswersAlwaysHaveASlot ==
    ASSUME ClearsAreWhole PROVE Spec => []AnswersHaveASlot
<1>1. Init => SlotInv
  BY TypesInitially DEF Init, SlotInv, ReplaysTheStash, SlotFits, NoStash, NoCall, Starts
<1>2. SlotInv /\ [Next]_vars => SlotInv'
  BY SlotFitsStep, TypesStep DEF SlotInv
<1>3. SlotInv => AnswersHaveASlot
  BY DEF SlotInv, ReplaysTheStash, Starts, SlotFits, AnswersHaveASlot, At
<1> QED BY <1>1, <1>2, <1>3, PTL DEF Spec

-----------------------------------------------------------------------------
(* The record of an interrupted start.                                     *)

LEMMA OutsideKeepsStashAgrees ==
    ASSUME StartInv, Outside PROVE StashAgrees'
BY DEF StartInv, StashAgrees, ReplaysTheStash, Outside, Starts, Idle, NoStash

LEMMA StashAgreesStep ==
    ASSUME OneSelectionOnly, StartInv, [Next]_vars PROVE StashAgrees'
<1> USE DEF StartInv, StashAgrees, ReplaysTheStash, Starts, At, Return, NoCall, NoStash,
        chainVars, meteorVars, journalVars
<1>1. CASE Outside
  BY <1>1, OutsideKeepsStashAgrees
<1>2. ASSUME NEW S \in Selections, StartTransfer(S) PROVE StashAgrees'
  BY <1>2 DEF StartTransfer, Replays, OneSelectionOnly
<1>3. ASSUME NEW x \in Transfers, OpenMeteor(x) PROVE StashAgrees'
  BY <1>3 DEF OpenMeteor, TypeOK, CallType
<1>4. ASSUME NEW x \in Transfers, HearAnswer(x) PROVE StashAgrees'
  BY <1>4 DEF HearAnswer, TypeOK, CallType
<1>5. ASSUME NEW x \in Transfers, ClearRecord(x) PROVE StashAgrees'
  BY <1>5 DEF ClearRecord, TypeOK, CallType
<1>6. ASSUME NEW x \in Transfers, ClearResult(x) PROVE StashAgrees'
  BY <1>6 DEF ClearResult
<1>7. CASE Unstash
  BY <1>7 DEF Unstash
<1>8. CASE CatchStart
  BY <1>8 DEF CatchStart, MayThrow
<1> QED BY <1>1, <1>2, <1>3, <1>4, <1>5, <1>6, <1>7, <1>8, StepKinds DEF StartStep

LEMMA StashAgreesInvariant ==
    ASSUME OneSelectionOnly PROVE Spec => []StartInv
<1>1. Init => StartInv
  BY TypesInitially DEF Init, StartInv, StashAgrees, ReplaysTheStash, NoStash, NoCall, Starts
<1>2. StartInv /\ [Next]_vars => StartInv'
  BY StashAgreesStep, TypesStep DEF StartInv
<1> QED BY <1>1, <1>2, PTL DEF Spec

\* The page stays, the user starts nothing over, and a start is not refused before its
\* record is written, nor the stash by the browser.
StartsAreTriedAgain == Operations \cap {"reload", "startOver", "refuse"} = {}

LEMMA OutsideKeepsPendingIsKnown ==
    ASSUME StartsAreTriedAgain, StartInv, PendingIsKnown, Outside PROVE PendingIsKnown'
<1> USE DEF StartsAreTriedAgain, StartInv, TypeOK, MaybeTransfer, PendingIsKnown, NonePending,
        Pending, Outside, Starts, At
<1>1. stash' = stash
  OBVIOUS
<1>2. \A y \in Transfers : Pending(y)' = Pending(y)
  OBVIOUS
<1>3. \A y \in Transfers : Newest(y) => Newest(y)'
  BY DEF Newest, Present
<1>4. CASE call' = call
  BY <1>1, <1>2, <1>3, <1>4 DEF CallType
<1>5. CASE call'.pc \notin Starts
  <2>1. call.pc \notin Starts
    BY <1>5
  <2>2. stash.id # NoTransfer => session'[stash.id].state # "unused"
    BY <1>1
  <2> HIDE DEF StartsAreTriedAgain, StartInv, TypeOK, Outside
  <2> QED BY <1>1, <1>2, <1>5, <2>1, <2>2
<1> QED BY <1>4, <1>5

\* A start and the sweep before it leave each record as it is, or cleared.
LEMMA SweptStates ==
    ASSUME TypeOK, NEW S \in Selections, StartTransfer(S), NEW y \in Transfers
    PROVE  session'[y].state \in {session[y].state, "cleared"}
<1>1. CASE session' = session
  BY <1>1
<1>2. CASE Present(startResult) /\ Cleared(startResult)
  <2>1. startResult \in Transfers /\ session' = [session EXCEPT ![startResult].state = "cleared"]
    BY <1>2 DEF Present, Cleared
  <2>2. session[y] \in SessionType /\ session \in [Transfers -> SessionType]
    BY DEF TypeOK
  <2> QED BY <2>1, <2>2 DEF SessionType
<1> QED BY <1>1, <1>2 DEF StartTransfer, SweepLeftover, journalVars

LEMMA PendingIsKnownStep ==
    ASSUME OneSelectionOnly, StartsAreTriedAgain, StartInv, PendingIsKnown, [Next]_vars
    PROVE  PendingIsKnown'
<1> USE DEF StartInv, StashAgrees, ReplaysTheStash, PendingIsKnown, NonePending, Pending, Starts, At, Return,
        NoCall, NoStash, chainVars, meteorVars, journalVars
<1>1. CASE Outside
  BY <1>1, OutsideKeepsPendingIsKnown
<1>2. ASSUME NEW S \in Selections, StartTransfer(S) PROVE PendingIsKnown'
  <2>1. \A y \in Transfers : Pending(y)' => Pending(y)
    BY <1>2, SweptStates
  <2>2. \A y \in Transfers : session[y].state # "unused" => session'[y].state # "unused"
    BY <1>2, SweptStates
  <2>3. stash' = stash /\ call.pc = "idle" /\ call'.pc = "ask"
    BY <1>2 DEF StartTransfer, Idle
  <2>4. ~call'.replay => stash.id = NoTransfer
    BY <1>2 DEF StartTransfer, Replays, OneSelectionOnly
  <2> QED BY <2>1, <2>2, <2>3, <2>4, TransferSentinels DEF TypeOK, MaybeTransfer
<1>3. ASSUME NEW x \in Transfers, OpenMeteor(x) PROVE PendingIsKnown'
  <2>1. stash' = stash /\ call.pc = "ask" /\ call'.pc = "answer" /\ call'.x = x
        /\ call'.replay = call.replay
    BY <1>3 DEF OpenMeteor, TypeOK, CallType
  <2>2. \A y \in Transfers : y # x => session'[y] = session[y]
    BY <1>3 DEF OpenMeteor, TypeOK
  <2>3. session'[x].state # "unused"
    BY <1>3 DEF OpenMeteor, Present, TypeOK
  <2>4. ~call.replay => Newest(x)'
    BY <1>3, <2>2 DEF OpenMeteor, Newest, Present, TypeOK
  <2> QED BY <2>1, <2>2, <2>3, <2>4 DEF TypeOK, MaybeTransfer
<1>4. ASSUME NEW x \in Transfers, HearAnswer(x) PROVE PendingIsKnown'
  <2>1. stash' = stash /\ call.pc = "answer" /\ call.x = x /\ call'.pc = "unstash"
    BY <1>4 DEF HearAnswer, TypeOK, CallType
  <2>2. \A y \in Transfers : y # x => session'[y] = session[y]
    BY <1>4 DEF HearAnswer, TypeOK, SessionType
  <2>3. session'[x].state = "answered"
    BY <1>4 DEF HearAnswer, TypeOK, SessionType
  <2>4. NonePending'
    BY <2>1, <2>2, <2>3, TransferSentinels DEF TypeOK, CallType
  <2>5. stash.id # NoTransfer => session'[stash.id].state # "unused"
    BY <2>2, <2>3 DEF TypeOK, MaybeTransfer
  <2> HIDE DEF StartInv
  <2> QED BY <2>1, <2>4, <2>5
<1>5. ASSUME NEW x \in Transfers, ClearRecord(x) PROVE PendingIsKnown'
  <2>1. stash' = stash /\ call.pc = "clear" /\ call'.pc = "clearResult"
    BY <1>5 DEF ClearRecord, TypeOK, CallType
  <2>2. \A y \in Transfers : y # x => session'[y] = session[y]
    BY <1>5 DEF ClearRecord, Cleared, TypeOK, SessionType
  <2>3. session'[x].state = "cleared"
    BY <1>5 DEF ClearRecord, Cleared, TypeOK
  <2> QED BY <2>1, <2>2, <2>3 DEF TypeOK, MaybeTransfer
<1>6. ASSUME NEW x \in Transfers, ClearResult(x) PROVE PendingIsKnown'
  BY <1>6 DEF ClearResult
<1>7. CASE Unstash
  BY <1>7 DEF Unstash
<1>8. CASE CatchStart
  <2>1. session' = session /\ call' = NoCall
    BY <1>8 DEF CatchStart
  <2>2. CASE stash' = stash
    <3>1. ASSUME NEW y \in Transfers, Pending(y) PROVE y = stash.id
      <4>1. CASE At("answer", y) /\ ~call.replay
        <5>1. Interrupted(y) /\ stash.id = NoTransfer
          BY <3>1, <4>1 DEF Interrupted
        <5>2. \E x \in Transfers : stash.id = x
          BY <1>8, <2>2, <4>1, <5>1 DEF CatchStart, StartsAreTriedAgain
        <5> QED BY <5>1, <5>2, TransferSentinels
      <4> QED BY <3>1, <4>1
    <3> QED BY <2>1, <2>2, <3>1
  <2>3. ASSUME NEW x \in Transfers, Interrupted(x), ~call.replay,
               stash' = [id |-> x, asked |-> call.asked]
        PROVE  PendingIsKnown'
    <3>1. call.pc \in {"ask", "answer"} /\ stash.id = NoTransfer
      BY <1>8, <2>3 DEF CatchStart, MayThrow
    <3>2. \A y \in Transfers : Pending(y) => y = x
      BY <2>3, <3>1, TransferSentinels DEF Interrupted
    <3> QED BY <2>1, <2>3, <3>2 DEF Interrupted
  <2> QED BY <1>8, <2>2, <2>3 DEF CatchStart
<1> QED BY <1>1, <1>2, <1>3, <1>4, <1>5, <1>6, <1>7, <1>8, StepKinds DEF StartStep

\* A new record is written by a first attempt alone, which finds no interrupted one.
LEMMA RecordsAreNew ==
    ASSUME StartInv, PendingIsKnown, [Next]_vars,
           NEW x \in Transfers, session[x].state = "unused", session'[x].state = "pending"
    PROVE  NonePending
<1>1. CASE OpenMeteor(x)
  BY <1>1 DEF OpenMeteor, StartInv, StashAgrees, ReplaysTheStash, Starts, PendingIsKnown
<1>2. CASE ~OpenMeteor(x)
  <2> USE DEF StartInv, TypeOK, MaybeTransfer, SessionType, chainVars, meteorVars, journalVars
  <2>1. ~Outside
    BY DEF Outside
  <2>2. \A S \in Selections : ~StartTransfer(S)
    <3> HIDE DEF TypeOK
    <3> QED BY SweptStates
  <2>3. ASSUME NEW y \in Transfers \ {x} PROVE ~OpenMeteor(y)
    BY DEF OpenMeteor
  <2>4. \A y \in Transfers : ~HearAnswer(y) /\ ~ClearRecord(y) /\ ~ClearResult(y)
    BY DEF HearAnswer, ClearRecord, ClearResult, Cleared
  <2>5. ~Unstash /\ ~CatchStart
    BY DEF Unstash, CatchStart
  <2> QED BY <1>2, <2>1, <2>2, <2>3, <2>4, <2>5, StepKinds DEF StartStep
<1> QED BY <1>1, <1>2

\* A start that was interrupted is replayed under its id, any number of failures later:
\* no second record of the same accounts is written while the first has no answer.
THEOREM InterruptedStartsAreReplayed ==
    ASSUME OneSelectionOnly, StartsAreTriedAgain PROVE Spec => InterruptedStartIsReplayed
<1>1. Init => PendingIsKnown
  BY DEF Init, PendingIsKnown, NonePending, Pending, NoStash, NoCall
<1>2. StartInv /\ PendingIsKnown /\ [Next]_vars => PendingIsKnown'
  BY PendingIsKnownStep
<1>3. StartInv /\ PendingIsKnown /\ [Next]_vars =>
         [\A x, y \in Transfers :
            session[x].state = "unused" /\ session'[x].state = "pending" /\ Interrupted(y)
                => session[y].asked # session'[x].asked]_vars
  BY RecordsAreNew DEF NonePending, Pending, Interrupted
<1> QED BY <1>1, <1>2, <1>3, StashAgreesInvariant, PTL DEF Spec, InterruptedStartIsReplayed
=============================================================================
