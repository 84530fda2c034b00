---------------------------- MODULE LockupProofs ---------------------------
(* Theorems about Lockup. *)
EXTENDS Lockup, TLAPS

\* A larger amount divides to no less.
LEMMA DivisionMonotone ==
    ASSUME NEW a \in Nat, NEW b \in Nat, NEW c \in Nat \ {0}, a <= b
    PROVE  a \div c \in Nat /\ a \div c <= b \div c
  OBVIOUS

\* A share of the time that is left is at most the whole.
LEMMA ShareBounded ==
    ASSUME NEW a \in Nat, NEW x \in Nat, NEW c \in Nat \ {0}, x <= c
    PROVE  (a * x) \div c <= a
<1>1. a * x <= a * c
  OBVIOUS
<1>2. (a * c) \div c = a
  OBVIOUS
<1> QED
  BY <1>1, <1>2, DivisionMonotone

\* It gets smaller as time passes.
LEMMA ShareMonotone ==
    ASSUME NEW a \in Nat, NEW x \in Nat, NEW y \in Nat, NEW c \in Nat \ {0}, x <= y
    PROVE  (a * x) \div c <= (a * y) \div c
<1>1. a * x <= a * y
  OBVIOUS
<1> QED
  BY <1>1, DivisionMonotone

-----------------------------------------------------------------------------
(* The amounts.                                                            *)

\* What is said of the terms.
LEMMA TermTypes ==
    ASSUME NEW t \in Terms
    PROVE  /\ t.amount \in Nat /\ t.withdrawn \in Nat /\ t.transfers \in Nat
           /\ t.duration \in Nat /\ t.from \in Nat /\ t.release \in Nat \ {0}
           /\ t.start \in Nat /\ t.cliff \in Nat /\ t.end \in Nat /\ t.unvested \in Nat
           /\ t.vesting \in {"none", "schedule", "terminated"}
           /\ Start(t) \in Nat /\ End(t) \in Nat
           /\ t.unvested + t.withdrawn <= t.amount
           /\ End(t) <= Start(t) + t.release
  BY LockupAssumption DEF Agreements, Sound, Start, End, Larger

\* What is not released yet gets less, down to nothing.
LEMMA UnreleasedFalls ==
    ASSUME NEW t \in Terms, NEW n \in Nat, n >= Start(t)
    PROVE  /\ Unreleased(t, n) \in Nat /\ Unreleased(t, n) <= t.amount
           /\ Unreleased(t, n + 1) \in Nat /\ Unreleased(t, n + 1) <= Unreleased(t, n)
<1> USE TermTypes
<1> DEFINE left == End(t) - n
<1>1. CASE n > End(t)
  BY <1>1 DEF Unreleased
<1>2. CASE n <= End(t)
  <2>1. left \in Nat /\ left <= t.release
    BY <1>2
  <2>2. /\ (t.amount * left) \div t.release \in Nat
        /\ (t.amount * left) \div t.release <= t.amount
    <3>1. t.amount * left \in Nat
      BY <2>1
    <3>2. (t.amount * left) \div t.release \in Nat
      BY <3>1, DivisionMonotone
    <3> QED
      BY <2>1, <3>2, ShareBounded
  <2>3. Unreleased(t, n) = (t.amount * left) \div t.release
    BY <1>2 DEF Unreleased
  <2>4. CASE n + 1 > End(t)
    BY <2>2, <2>3, <2>4 DEF Unreleased
  <2>5. CASE n + 1 <= End(t)
    <3>1. left - 1 \in Nat /\ left - 1 <= left /\ End(t) - (n + 1) = left - 1
      BY <2>1, <2>5
    <3>2. t.amount * (left - 1) \in Nat
      BY <3>1
    <3>3. (t.amount * (left - 1)) \div t.release \in Nat
      BY <3>2, DivisionMonotone
    <3>4. (t.amount * (left - 1)) \div t.release <= (t.amount * left) \div t.release
      BY <2>1, <3>1, ShareMonotone
    <3>5. Unreleased(t, n + 1) = (t.amount * (left - 1)) \div t.release
      BY <2>5, <3>1 DEF Unreleased
    <3> QED
      BY <2>2, <2>3, <3>3, <3>4, <3>5
  <2> QED
    BY <2>4, <2>5
<1> QED
  BY <1>1, <1>2

\* So does what is not vested yet, over the cliff and the end.
LEMMA UnvestedFalls ==
    ASSUME NEW t \in Terms, NEW n \in Nat
    PROVE  /\ Unvested(t, n) \in Nat /\ Unvested(t, n) <= t.amount - t.withdrawn
           /\ Unvested(t, n + 1) \in Nat /\ Unvested(t, n + 1) <= Unvested(t, n)
<1> USE TermTypes
<1>1. CASE t.vesting # "schedule"
  BY <1>1 DEF Unvested
<1>2. CASE t.vesting = "schedule"
  <2> DEFINE span == t.end - t.start
             share(k) == (t.amount * (t.end - k)) \div span
  <2>1. t.withdrawn = 0 /\ t.start <= t.cliff /\ t.cliff < t.end /\ span \in Nat \ {0}
    BY <1>2, LockupAssumption DEF Sound
  <2>2. ASSUME NEW k \in Nat, k >= t.cliff, k < t.end
        PROVE  share(k) \in Nat /\ share(k) <= t.amount
    <3>1. t.end - k \in Nat /\ t.end - k <= span
      BY <2>1, <2>2
    <3>2. t.amount * (t.end - k) \in Nat
      BY <3>1
    <3>3. share(k) \in Nat
      BY <2>1, <3>2, DivisionMonotone
    <3> QED
      BY <2>1, <3>1, <3>3, ShareBounded
  <2>3. ASSUME NEW k \in Nat
        PROVE  /\ k < t.cliff => Unvested(t, k) = t.amount
               /\ k >= t.end => Unvested(t, k) = 0
               /\ k >= t.cliff /\ k < t.end => Unvested(t, k) = share(k)
    BY <1>2, <2>1 DEF Unvested
  <2>4. ASSUME n >= t.cliff, n + 1 < t.end
        PROVE  share(n + 1) <= share(n)
    <3>1. t.end - (n + 1) \in Nat /\ t.end - n \in Nat /\ t.end - (n + 1) <= t.end - n
      BY <2>4
    <3> QED
      BY <2>1, <3>1, ShareMonotone
  <2> HIDE DEF span, share
  <2>5. Unvested(t, n) \in Nat /\ Unvested(t, n) <= t.amount
    BY <2>2, <2>3
  <2>6. Unvested(t, n + 1) \in Nat /\ Unvested(t, n + 1) <= t.amount
    BY <2>2, <2>3
  <2>7. CASE n < t.cliff
    BY <2>1, <2>3, <2>5, <2>6, <2>7
  <2>8. CASE n >= t.cliff /\ n + 1 < t.end
    BY <2>1, <2>3, <2>4, <2>5, <2>6, <2>8
  <2>9. CASE n + 1 >= t.end
    BY <2>1, <2>3, <2>5, <2>6, <2>9
  <2> QED
    BY <2>7, <2>8, <2>9
<1> QED
  BY <1>1, <1>2

\* And so does what the wallet calls locked, over the start.
LEMMA LockedFalls ==
    ASSUME NEW t \in Terms, NEW n \in Nat
    PROVE  /\ LockedAmount(t, n) \in Nat
           /\ LockedAmount(t, n + 1) \in Nat /\ LockedAmount(t, n + 1) <= LockedAmount(t, n)
<1> USE TermTypes
<1>1. ASSUME NEW k \in Nat, k >= Start(t)
      PROVE  /\ LockedAmount(t, k) = Larger(Less(Unreleased(t, k), t.withdrawn), Unvested(t, k))
             /\ LockedAmount(t, k) \in Nat /\ LockedAmount(t, k) <= t.amount - t.withdrawn
  <2>1. Unreleased(t, k) \in Nat /\ Unreleased(t, k) <= t.amount
    BY <1>1, UnreleasedFalls
  <2>2. Unvested(t, k) \in Nat /\ Unvested(t, k) <= t.amount - t.withdrawn
    BY UnvestedFalls
  <2> QED
    BY <1>1, <2>1, <2>2 DEF LockedAmount, Larger, Less
<1>2. ASSUME NEW k \in Nat, k < Start(t)
      PROVE  LockedAmount(t, k) = t.amount - t.withdrawn /\ LockedAmount(t, k) \in Nat
  BY <1>2 DEF LockedAmount
<1>3. CASE n < Start(t)
  BY <1>1, <1>2, <1>3
<1>4. CASE n >= Start(t)
  <2>1. /\ LockedAmount(t, n) = Larger(Less(Unreleased(t, n), t.withdrawn), Unvested(t, n))
        /\ LockedAmount(t, n + 1)
               = Larger(Less(Unreleased(t, n + 1), t.withdrawn), Unvested(t, n + 1))
    BY <1>1, <1>4
  <2>2. /\ Unreleased(t, n) \in Nat /\ Unreleased(t, n + 1) \in Nat
        /\ Unreleased(t, n + 1) <= Unreleased(t, n)
    BY <1>4, UnreleasedFalls
  <2>3. /\ Unvested(t, n) \in Nat /\ Unvested(t, n + 1) \in Nat
        /\ Unvested(t, n + 1) <= Unvested(t, n)
    BY UnvestedFalls
  <2> QED
    BY <2>1, <2>2, <2>3 DEF Larger, Less
<1> QED
  BY <1>3, <1>4
-----------------------------------------------------------------------------
(* Types.                                                                  *)

\* Only the clock changes what is locked.
LEMMA ClockStep ==
    ASSUME now \in Nat, terms \in Terms, [Next]_vars
    PROVE  /\ now' \in Nat /\ terms' = terms
           /\ Locked \in Nat /\ Locked' \in Nat
           /\ LockedAmount(terms', now') <= LockedAmount(terms, now)
<1>1. terms' = terms /\ (now' = now \/ now' = now + 1)
  BY DEF Next, vars, StartPay, StartClaim, Step, AsksExists, AsksEnabled, AsksPool,
         AsksLiquid, AsksLocked, AsksKnown, AsksRewards, Called, Refused, Fault, Views,
         Tick, Receives, Earns, Stakes, Withdraws, ClaimsRewards, Outside
<1> QED
  BY <1>1, LockedFalls DEF Locked

\* The amounts offered and moved are natural numbers, and not more than is held.
LEMMA LiquidTypes ==
    ASSUME TypeOK
    PROVE  /\ Locked \in Nat /\ Liquid \in Nat
           /\ Liquid <= held
<1>1. Locked \in Nat
  BY LockedFalls DEF TypeOK, Locked
<1> QED
  BY <1>1, LockupAssumption DEF TypeOK, Liquid, Less

\* The transactions move no more than there is.
LEMMA TakesTypes ==
    ASSUME TypeOK, Takes
    PROVE  /\ main' \in Nat /\ held' \in Nat /\ staked' \in Nat /\ known' \in Nat
           /\ exists' \in BOOLEAN /\ rewards' \in BOOLEAN /\ pool' \in BOOLEAN /\ enabled' \in BOOLEAN
<1> USE DEF contract, Charges
<1>1. main' \in Nat /\ held' \in Nat /\ staked' \in Nat /\ known' \in Nat
  <2> USE LockupAssumption DEF TypeOK
  <2>1. CASE Votes
    BY <2>1 DEF Votes
  <2>2. CASE Refreshes
    BY <2>2 DEF Refreshes
  <2>3. CASE Transfers
    <3>1. op.liquid \in Nat /\ Liquid \in Nat /\ Liquid <= held /\ op.liquid <= Liquid
      BY <2>3, LiquidTypes DEF Transfers
    <3> QED
      BY <2>3, <3>1 DEF Transfers
  <2>4. CASE Unselects \/ AddsKey
    BY <2>4 DEF Unselects, AddsKey
  <2>5. CASE Deletes
    BY <2>5 DEF Deletes
  <2>6. CASE Pays
    <3>1. op.total \in Nat /\ main - op.total - Fee \in Nat
      BY <2>6 DEF Pays, TypeOK
    <3> QED
      BY <2>6, <3>1 DEF Pays
  <2> QED
    BY <2>1, <2>2, <2>3, <2>4, <2>5, <2>6 DEF Takes
<1>2. exists' \in BOOLEAN /\ rewards' \in BOOLEAN /\ pool' \in BOOLEAN
  BY ZenonT(30) DEF Takes, Votes, Refreshes, Transfers, Unselects, AddsKey, Deletes, Pays,
         TypeOK
<1>3. enabled' \in BOOLEAN
  BY ZenonT(30) DEF Takes, Votes, Refreshes, Transfers, Unselects, AddsKey, Deletes, Pays,
         TypeOK
<1> QED
  BY <1>1, <1>2, <1>3

Operations ==
    [kind : {"none", "pay", "claim"}, pc : Stages, total : Nat, missing : Nat,
     pool : BOOLEAN, liquid : Nat, known : Nat]

\* The operation as a record of its fields.
LEMMA OperationTypes ==
    ASSUME TypeOK
    PROVE  /\ op \in Operations /\ Idle \in Operations
           /\ \A pc \in Stages : [op EXCEPT !.pc = pc] \in Operations
<1>1. op \in Operations
  BY DEF TypeOK, Operations
<1>2. \A pc \in Stages : [op EXCEPT !.pc = pc] \in Operations
  BY <1>1 DEF Operations
<1> QED
  BY <1>1, <1>2 DEF Operations, Idle, Stages

\* Every step keeps the types.
LEMMA TypeStep ==
    ASSUME TypeOK, [Next]_vars
    PROVE  TypeOK'
<1> USE LockupAssumption
<1>0. now \in Nat /\ terms \in Terms /\ op \in Operations
  BY OperationTypes DEF TypeOK
<1>1. now' \in Nat /\ terms' \in Terms
  BY <1>0, ClockStep
<1> SUFFICES /\ main' \in Nat /\ held' \in Nat /\ staked' \in Nat /\ known' \in Nat
             /\ exists' \in BOOLEAN /\ rewards' \in BOOLEAN /\ pool' \in BOOLEAN /\ enabled' \in BOOLEAN
             /\ op' \in Operations /\ faults' \in Nat
  BY <1>1 DEF TypeOK, Operations
<1>2. ASSUME UNCHANGED <<chain, faults>>, op' \in Operations
      PROVE  /\ main' \in Nat /\ held' \in Nat /\ staked' \in Nat /\ known' \in Nat
             /\ exists' \in BOOLEAN /\ rewards' \in BOOLEAN /\ pool' \in BOOLEAN /\ enabled' \in BOOLEAN
             /\ op' \in Operations /\ faults' \in Nat
  BY <1>2 DEF TypeOK, chain, contract
<1>3. ASSUME NEW total \in Payments, StartPay(total)
      PROVE  op' \in Operations /\ UNCHANGED <<chain, faults>>
  <2>1. Less(total + Gas, main) \in Nat /\ total \in Nat
    BY <1>3 DEF TypeOK, Less
  <2> QED
    BY <1>3, <2>1 DEF StartPay, Views, Operations, Idle, Stages
<1>4. CASE StartClaim
  <2>1. op' \in Operations
    BY <1>4 DEF StartClaim, Operations, Idle, Stages
  <2> QED
    BY <1>2, <1>4, <2>1 DEF StartClaim, Views
<1>5. CASE AsksExists \/ AsksEnabled \/ AsksLocked \/ AsksRewards \/ Refused
  <2>1. op' \in Operations
    BY <1>5, OperationTypes
       DEF AsksExists, AsksEnabled, AsksLocked, AsksRewards, Refused, GoesTo, Ends, Done, Stages
  <2> QED
    BY <1>2, <1>5, <2>1 DEF AsksExists, AsksEnabled, AsksLocked, AsksRewards, Refused, Views
<1>6. CASE AsksPool
  <2>1. op' \in Operations
    BY <1>0, <1>6 DEF AsksPool, Operations, Stages, TypeOK
  <2> QED
    BY <1>2, <1>6, <2>1 DEF AsksPool, Views
<1>7. CASE AsksLiquid
  <2>1. Liquid \in Nat
    BY LiquidTypes
  <2>2. \/ Ends
        \/ \E pc \in {"transfer", "locked"} : op' = [op EXCEPT !.liquid = Liquid, !.pc = pc]
    BY <1>7 DEF AsksLiquid
  <2>3. ASSUME NEW pc \in {"transfer", "locked"}
        PROVE  [op EXCEPT !.liquid = Liquid, !.pc = pc] \in Operations
    BY <1>0, <2>1 DEF Operations, Stages
  <2>4. op' \in Operations
    BY <2>2, <2>3, OperationTypes DEF Ends
  <2> QED
    BY <1>2, <1>7, <2>4 DEF AsksLiquid, Views
<1>8. CASE AsksKnown
  <2>1. op' \in Operations
    BY <1>0, <1>8 DEF AsksKnown, Operations, Stages, TypeOK
  <2> QED
    BY <1>2, <1>8, <2>1 DEF AsksKnown, Views
<1>9. CASE Called
  <2>1. op.pc \in {"vote", "refresh", "transfer", "unselect", "addKey", "delete", "send"}
    BY <1>9 DEF Called, Takes, Votes, Refreshes, Transfers, Unselects, AddsKey, Deletes, Pays
  <2>2. Idle \in Operations /\ \A pc \in Stages : [op EXCEPT !.pc = pc] \in Operations
    BY OperationTypes
  <2>3. \/ Ends
        \/ \E pc \in {"pool", "liquid", "locked", "addKey", "delete", "send"} : GoesTo(pc)
    BY <1>9, <2>1 DEF Called, Done
  <2>4. op' \in Operations
    BY <2>2, <2>3 DEF GoesTo, Ends, Stages
  <2> QED
    BY <1>9, <2>4, TakesTypes DEF Called, TypeOK
<1>10. CASE Fault
  <2>1. op' \in Operations /\ faults' \in Nat
    BY <1>10, OperationTypes DEF Fault, Ends, TypeOK
  <2>2. CASE Takes
    BY <2>1, <2>2, TakesTypes
  <2>3. CASE UNCHANGED chain
    BY <2>1, <2>3 DEF chain, contract, TypeOK
  <2> QED
    BY <1>10, <2>2, <2>3 DEF Fault
<1>11. CASE Tick \/ Receives \/ Earns \/ ClaimsRewards
  <2>1. /\ main' \in Nat /\ held' \in Nat /\ staked' \in Nat /\ known' \in Nat
        /\ op' \in Operations /\ faults' \in Nat
    <3>1. op' = op /\ faults' = faults /\ held' = held /\ known' = known
      BY <1>11 DEF Tick, Receives, Earns, ClaimsRewards, Outside, contract
    <3>2. main' \in {main, main + 1} /\ staked' \in {staked, staked + 1}
      BY <1>11 DEF Tick, Receives, Earns, ClaimsRewards, contract
    <3> QED
      BY <1>0, <3>1, <3>2 DEF TypeOK
  <2>2. exists' = exists /\ pool' = pool /\ enabled' = enabled
    BY <1>11 DEF Tick, Receives, Earns, ClaimsRewards, Outside, contract
  <2>3. rewards' = rewards \/ rewards' = TRUE \/ rewards' = FALSE
    <3>1. CASE Earns
      BY <3>1, Zenon DEF Earns
    <3>2. CASE Tick \/ Receives \/ ClaimsRewards
      BY <3>2 DEF Tick, Receives, ClaimsRewards, contract
    <3> QED
      BY <1>11, <3>1, <3>2
  <2>4. exists' \in BOOLEAN /\ rewards' \in BOOLEAN /\ pool' \in BOOLEAN /\ enabled' \in BOOLEAN
    <3>1. exists \in BOOLEAN /\ rewards \in BOOLEAN /\ pool \in BOOLEAN /\ enabled \in BOOLEAN
      BY DEF TypeOK
    <3> QED
      BY <2>2, <2>3, <3>1, Zenon
  <2> QED
    BY <2>1, <2>4
<1>12. ASSUME NEW k \in 1 .. MostStaked, Stakes(k) \/ Withdraws(k)
       PROVE  /\ main' \in Nat /\ held' \in Nat /\ staked' \in Nat /\ known' \in Nat
              /\ exists' \in BOOLEAN /\ rewards' \in BOOLEAN /\ pool' \in BOOLEAN /\ enabled' \in BOOLEAN
              /\ op' \in Operations /\ faults' \in Nat
  <2>1. k \in Nat /\ k > 0
    BY <1>12
  <2>2. CASE Stakes(k)
    BY <1>0, <2>1, <2>2 DEF Stakes, Outside, Less, TypeOK
  <2>3. CASE Withdraws(k)
    BY <1>0, <2>1, <2>3 DEF Withdraws, Outside, Less, TypeOK
  <2> QED
    BY <1>12, <2>2, <2>3
<1>13. CASE UNCHANGED vars
  BY <1>0, <1>2, <1>13 DEF vars
<1> QED
  BY <1>2, <1>3, <1>4, <1>5, <1>6, <1>7, <1>8, <1>9, <1>10, <1>11, <1>12, <1>13 DEF Next, Step

\* The types hold initially.
LEMMA TypeInit == Init => TypeOK
<1> SUFFICES ASSUME Init PROVE TypeOK
  OBVIOUS
<1>1. terms.amount \in Nat
  BY TermTypes DEF Init
<1>2. op \in Operations
  BY DEF Init, Idle, Operations, Stages
<1>3. main \in Nat
  BY <1>1, LockupAssumption DEF Init, Less
<1>4. now \in Nat /\ terms \in Terms /\ held \in Nat /\ staked \in Nat /\ known \in Nat
      /\ faults \in Nat
  BY <1>1, LockupAssumption DEF Init
<1>5. exists \in BOOLEAN /\ rewards \in BOOLEAN /\ pool \in BOOLEAN /\ enabled \in BOOLEAN
  BY DEF Init
<1> QED
  BY <1>2, <1>3, <1>4, <1>5 DEF TypeOK, Operations

\* The model is type correct: amounts stay natural numbers.
THEOREM Typed == Spec => []TypeOK
<1>1. TypeOK /\ [Next]_vars => TypeOK'
  BY TypeStep
<1> QED
  BY <1>1, TypeInit, PTL DEF Spec

\* What is locked never grows.
THEOREM LockedAmountFalls == Spec => LockedNeverGrows
<1>1. TypeOK /\ [Next]_vars => [LockedAmount(terms', now') <= LockedAmount(terms, now)]_<<now, terms>>
  BY ClockStep DEF TypeOK
<1> QED
  BY <1>1, Typed, PTL DEF Spec, LockedNeverGrows
-----------------------------------------------------------------------------
(* A payment.  What the calls on the way may have cost so far is at most   *)
(* what has been kept back for them.                                       *)

Funds ==
    /\ op.pc \in {"exists", "send"} => op.kind = "pay"
    /\ op.pc \in {"exists", "enabled", "vote", "pool", "refresh"} => op.liquid = 0
    /\ op.kind = "pay" =>
        /\ op.pc \in {"exists", "enabled", "vote"} => main + op.missing >= op.total + Gas
        /\ op.pc \in {"pool", "refresh"} => main + op.missing + Fee >= op.total + Gas
        /\ op.pc \in {"liquid", "transfer"} => main + op.missing + 2 * Fee >= op.total + Gas
        /\ op.pc = "transfer" => op.liquid > op.missing
        /\ op.pc \in {"locked", "known", "rewards", "unselect"} => main + 3 * Fee >= op.total + Gas
        /\ op.pc = "addKey" => main + 4 * Fee >= op.total + Gas
        /\ op.pc = "delete" => main + 5 * Fee >= op.total + Gas
        /\ op.pc = "send" /\ op.liquid > 0 => main >= op.total + Fee

\* What a payment calculates with are natural numbers.
LEMMA Amounts ==
    ASSUME TypeOK
    PROVE  /\ main \in Nat /\ Gas \in Nat /\ Fee \in Nat /\ 6 * Fee <= Gas
           /\ op.total \in Nat /\ op.missing \in Nat /\ op.liquid \in Nat
           /\ op.kind \in {"none", "pay", "claim"}
  BY LockupAssumption DEF TypeOK

\* An operation that ends has nothing kept back.
LEMMA FundsOfIdle == ASSUME op' = Idle PROVE Funds'
  BY DEF Funds, Idle

\* Going on to another stage leaves the figures of the operation alone.
LEMMA StageStep ==
    ASSUME TypeOK, NEW pc \in Stages, GoesTo(pc)
    PROVE  /\ op'.pc = pc /\ op'.kind = op.kind /\ op'.total = op.total
           /\ op'.missing = op.missing /\ op'.pool = op.pool
           /\ op'.liquid = op.liquid /\ op'.known = op.known
  BY OperationTypes DEF GoesTo, Operations

\* Every step keeps the account of the fees.
LEMMA FundsStep ==
    ASSUME TypeOK, Funds, [Next]_vars
    PROVE  Funds'
<1> USE Amounts
<1>0. op \in Operations
  BY OperationTypes
<1>1. CASE op' = Idle
  BY <1>1, FundsOfIdle
<1>2. CASE op' = op /\ main' \in Nat /\ main' >= main
  BY <1>2 DEF Funds
<1>3. ASSUME NEW total \in Payments, StartPay(total)
      PROVE  Funds'
  <2>1. total \in Nat /\ Less(total + Gas, main) \in Nat
        /\ (total + Gas > main => main + Less(total + Gas, main) >= total + Gas)
    BY LockupAssumption DEF Less
  <2>2. op' = [Idle EXCEPT !.kind = "pay", !.total = total, !.missing = Less(total + Gas, main),
                           !.pc = IF total + Gas > main THEN "exists" ELSE "send"]
        /\ main' = main
    BY <1>3 DEF StartPay, Views, chain
  <2>3. /\ op'.kind = "pay" /\ op'.total = total /\ op'.missing = Less(total + Gas, main)
        /\ op'.pc = (IF total + Gas > main THEN "exists" ELSE "send") /\ op'.liquid = 0
    BY <2>2 DEF Idle
  <2> QED
    BY <2>1, <2>2, <2>3 DEF Funds
<1>4. CASE StartClaim
  BY <1>4 DEF StartClaim, Idle, Funds
<1>5. CASE AsksExists \/ AsksEnabled
  <2>1. \/ op.pc = "exists" /\ (GoesTo("enabled") \/ GoesTo("send"))
        \/ op.pc = "enabled" /\ (GoesTo("pool") \/ GoesTo("vote"))
    BY <1>5, Zenon DEF AsksExists, AsksEnabled
  <2>2. main' = main
    BY <1>5 DEF AsksExists, AsksEnabled, Views, chain
  <2>3. CASE op.pc = "exists" /\ GoesTo("enabled")
    BY <2>2, <2>3, StageStep DEF Funds, Stages
  <2>4. CASE op.pc = "exists" /\ GoesTo("send")
    BY <2>2, <2>4, StageStep DEF Funds, Stages
  <2>5. CASE op.pc = "enabled" /\ GoesTo("pool")
    BY <2>2, <2>5, StageStep DEF Funds, Stages
  <2>6. CASE op.pc = "enabled" /\ GoesTo("vote")
    BY <2>2, <2>6, StageStep DEF Funds, Stages
  <2> QED
    BY <2>1, <2>3, <2>4, <2>5, <2>6
<1>7. CASE AsksPool
  <2>1. /\ op.pc = "pool" /\ main' = main
        /\ \E pc \in {"refresh", "liquid"} : op' = [op EXCEPT !.pool = pool, !.pc = pc]
    BY <1>7 DEF AsksPool, Views, chain
  <2>2. PICK pc \in {"refresh", "liquid"} : op' = [op EXCEPT !.pool = pool, !.pc = pc]
    BY <2>1
  <2>3. /\ op'.pc = pc /\ op'.kind = op.kind /\ op'.total = op.total
        /\ op'.missing = op.missing /\ op'.liquid = op.liquid
    BY <1>0, <2>2 DEF Operations
  <2> QED
    BY <2>1, <2>3 DEF Funds
<1>8. CASE AsksLiquid /\ op' # Idle
  <2>1. Liquid \in Nat /\ main' = main
    BY <1>8, LiquidTypes DEF AsksLiquid, Views, chain
  <2> DEFINE next == [op EXCEPT !.liquid = Liquid, !.pc = IF Liquid > 0 THEN "transfer" ELSE "locked"]
  <2>2. op.pc = "liquid" /\ op' = next /\ ~(op.kind = "pay" /\ Liquid <= op.missing)
    BY <1>8 DEF AsksLiquid, Ends
  <2>3. /\ next.pc = (IF Liquid > 0 THEN "transfer" ELSE "locked") /\ next.kind = op.kind
        /\ next.total = op.total /\ next.missing = op.missing /\ next.liquid = Liquid
    BY <1>0 DEF Operations
  <2> HIDE DEF next
  <2>4. CASE op.kind # "pay"
    BY <2>1, <2>2, <2>3, <2>4 DEF Funds
  <2>5. CASE op.kind = "pay"
    <3>1. Liquid > op.missing /\ Liquid > 0
      BY <2>1, <2>2, <2>5
    <3>2. op'.pc = "transfer" /\ op'.liquid > op'.missing
      BY <2>2, <2>3, <3>1
    <3>3. main' + op'.missing + 2 * Fee >= op'.total + Gas
      BY <2>1, <2>2, <2>3, <2>5 DEF Funds
    <3> QED
      BY <3>2, <3>3 DEF Funds
  <2> QED
    BY <2>4, <2>5
<1>9. CASE AsksLocked /\ op' # Idle
  <2>1. op.pc = "locked" /\ main' = main
    BY <1>9 DEF AsksLocked, Views, chain
  <2>2. CASE Locked = 0
    <3>1. GoesTo("known")
      BY <1>9, <2>2 DEF AsksLocked, GoesTo
    <3> QED
      BY <2>1, <3>1, StageStep DEF Funds, Stages
  <2>3. CASE Locked # 0
    <3>1. op.kind = "pay" /\ GoesTo("send")
      BY <1>9, <2>3 DEF AsksLocked, Done, Ends, GoesTo
    <3> QED
      BY <2>1, <3>1, StageStep DEF Funds, Stages
  <2> QED
    BY <2>2, <2>3
<1>10. CASE AsksKnown
  BY <1>0, <1>10 DEF AsksKnown, Views, chain, Operations, Funds
<1>11. CASE AsksRewards /\ op' # Idle
  <2>1. op.pc = "rewards" /\ main' = main
    BY <1>11 DEF AsksRewards, Views, chain
  <2>2. CASE op.pool
    <3>1. GoesTo("unselect")
      BY <1>11, <2>2 DEF AsksRewards, Ends, GoesTo
    <3> QED
      BY <2>1, <3>1, StageStep DEF Funds, Stages
  <2>3. CASE ~op.pool
    <3>1. GoesTo("addKey")
      BY <1>11, <2>3 DEF AsksRewards, Ends, GoesTo
    <3> QED
      BY <2>1, <3>1, StageStep DEF Funds, Stages
  <2> QED
    BY <2>2, <2>3
<1>12. CASE Called /\ op' # Idle
  <2>1. CASE op.pc = "vote"
    <3>1. GoesTo("pool") /\ main' = main - Fee /\ main >= Fee
      BY <1>12, <2>1 DEF Called, Takes, Votes, Refreshes, Transfers, Unselects, AddsKey,
             Deletes, Pays, Charges
    <3> QED
      BY StageStep, <2>1, <3>1 DEF Funds, Stages
  <2>2. CASE op.pc = "refresh"
    <3>1. GoesTo("liquid") /\ main' = main - Fee /\ main >= Fee
      BY <1>12, <2>2 DEF Called, Takes, Votes, Refreshes, Transfers, Unselects, AddsKey,
             Deletes, Pays, Charges
    <3> QED
      BY StageStep, <2>2, <3>1 DEF Funds, Stages
  <2>3. CASE op.pc = "transfer"
    <3>1. GoesTo("locked") /\ main' = main - Fee + op.liquid /\ main >= Fee
      BY <1>12, <2>3 DEF Called, Takes, Votes, Refreshes, Transfers, Unselects, AddsKey,
             Deletes, Pays, Charges
    <3> QED
      BY StageStep, <2>3, <3>1 DEF Funds, Stages
  <2>4. CASE op.pc = "unselect"
    <3>1. GoesTo("addKey") /\ main' = main - Fee /\ main >= Fee
      BY <1>12, <2>4 DEF Called, Takes, Votes, Refreshes, Transfers, Unselects, AddsKey,
             Deletes, Pays, Charges
    <3> QED
      BY StageStep, <2>4, <3>1 DEF Funds, Stages
  <2>5. CASE op.pc = "addKey"
    <3>1. GoesTo("delete") /\ main' = main - Fee /\ main >= Fee
      BY <1>12, <2>5 DEF Called, Takes, Votes, Refreshes, Transfers, Unselects, AddsKey,
             Deletes, Pays, Charges
    <3> QED
      BY StageStep, <2>5, <3>1 DEF Funds, Stages
  <2>6. CASE op.pc = "delete"
    <3>1. op.kind = "pay" /\ GoesTo("send") /\ main' = main + held /\ held \in Nat
      BY <1>12, <2>6 DEF Called, Takes, Votes, Refreshes, Transfers, Unselects, AddsKey,
             Deletes, Pays, Done, Ends, TypeOK
    <3> QED
      BY StageStep, <2>6, <3>1 DEF Funds, Stages
  <2>7. op.pc # "send"
    BY <1>12 DEF Called, Ends
  <2> QED
    BY <1>12, <2>1, <2>2, <2>3, <2>4, <2>5, <2>6, <2>7
       DEF Called, Takes, Votes, Refreshes, Transfers, Unselects, AddsKey, Deletes, Pays
<1>13. CASE Refused \/ Fault
  BY <1>1, <1>13 DEF Refused, Fault, Ends
<1>14. CASE Tick \/ Receives \/ Earns \/ ClaimsRewards
  <2>1. op' = op /\ main' \in {main, main + 1}
    BY <1>14 DEF Tick, Receives, Earns, ClaimsRewards, Outside
  <2> QED
    BY <1>2, <2>1
<1>15. ASSUME NEW k \in 1 .. MostStaked, Stakes(k) \/ Withdraws(k)
       PROVE  Funds'
  BY <1>2, <1>15 DEF Stakes, Withdraws, Outside
<1>16. CASE UNCHANGED vars
  BY <1>2, <1>16 DEF vars, chain
<1> QED
  BY <1>1, <1>3, <1>4, <1>5, <1>7, <1>8, <1>9, <1>10, <1>11, <1>12, <1>13, <1>14, <1>15, <1>16
     DEF Next, Step

\* What was moved from the lockup suffices for the payment.
THEOREM PaymentCovered == Spec => []MovedTokensSuffice
<1>1. Init => Funds
  BY DEF Init, Idle, Funds
<1>2. TypeOK /\ Funds /\ [Next]_vars => Funds'
  BY FundsStep
<1>3. Funds => MovedTokensSuffice
  BY DEF Funds, MovedTokensSuffice
<1> QED
  BY <1>1, <1>2, <1>3, Typed, PTL DEF Spec

-----------------------------------------------------------------------------
(* The destruction.  What was looked at before the last view is still so   *)
(* when the account is deleted.                                            *)

Emptied ==
    /\ ~pool => staked = 0 /\ ~rewards
    /\ op.pc \in {"refresh", "liquid", "transfer", "locked", "known", "rewards"} => (op.pool <=> pool)
    /\ op.pc \in {"liquid", "transfer", "locked", "known", "rewards"} /\ known = 0 => staked = 0
    /\ op.pc \in {"known", "rewards", "unselect", "addKey", "delete"} => Locked = 0
    /\ op.pc = "rewards" => op.known = known
    /\ op.pc \in {"unselect", "addKey", "delete"} => staked = 0 /\ ~rewards

\* Once nothing is locked, nothing is locked again.
LEMMA Held ==
    ASSUME TypeOK, [Next]_vars
    PROVE  /\ Locked = 0 => Locked' = 0
           /\ staked \in Nat /\ known \in Nat /\ op \in Operations
<1>1. Locked \in Nat /\ Locked' \in Nat /\ Locked' <= Locked
  BY ClockStep DEF TypeOK, Locked
<1> QED
  BY <1>1, OperationTypes DEF TypeOK

\* Every step keeps what was looked at.
LEMMA EmptiedStep ==
    ASSUME TypeOK, Emptied, [Next]_vars
    PROVE  Emptied'
<1> USE Held
<1>1. CASE op' = Idle /\ (pool' \/ (staked' = 0 /\ ~rewards'))
  BY <1>1 DEF Emptied, Idle
<1>2. CASE UNCHANGED <<op, pool, staked, rewards, known>>
  BY <1>2 DEF Emptied
<1>3. ASSUME UNCHANGED <<pool, staked, rewards, known>>,
             \/ \E total \in Payments : StartPay(total)
             \/ StartClaim \/ AsksExists \/ AsksEnabled \/ Refused
      PROVE  Emptied'
  <2>1. op'.pc \in {"idle", "exists", "enabled", "vote", "pool", "send"}
    <3>1. CASE \E total \in Payments : StartPay(total)
      BY <3>1 DEF StartPay, Idle
    <3>2. CASE StartClaim \/ Refused
      <4>1. \/ op' = Idle
            \/ op' = [Idle EXCEPT !.kind = "claim", !.pc = "enabled"]
        BY <3>2 DEF StartClaim, Refused, Ends
      <4>2. CASE op' = Idle
        BY <4>2 DEF Idle
      <4>3. CASE op' = [Idle EXCEPT !.kind = "claim", !.pc = "enabled"]
        BY <4>3 DEF Idle
      <4> QED
        BY <4>1, <4>2, <4>3
    <3>3. CASE AsksExists
      BY <3>3 DEF AsksExists, GoesTo, Operations
    <3>4. CASE AsksEnabled
      BY <3>4 DEF AsksEnabled, GoesTo, Operations
    <3> QED
      BY <1>3, <3>1, <3>2, <3>3, <3>4
  <2> QED
    BY <1>3, <2>1 DEF Emptied
<1>4. CASE AsksPool
  <2>1. /\ UNCHANGED <<pool, staked, rewards, known>>
        /\ op' = [op EXCEPT !.pool = pool, !.pc = IF pool THEN "refresh" ELSE "liquid"]
    BY <1>4 DEF AsksPool, Views, chain, contract
  <2>2. op'.pool = pool /\ op'.pc = (IF pool THEN "refresh" ELSE "liquid")
    BY <2>1 DEF Operations
  <2>3. CASE pool
    BY <2>1, <2>2, <2>3 DEF Emptied
  <2>4. CASE ~pool
    BY <2>1, <2>2, <2>4 DEF Emptied
  <2> QED
    BY <2>3, <2>4
<1>5. CASE AsksLiquid
  <2>1. UNCHANGED <<pool, staked, rewards, known>> /\ op.pc = "liquid"
    BY <1>5 DEF AsksLiquid, Views, chain, contract
  <2>2. CASE op' = Idle
    BY <2>1, <2>2 DEF Emptied, Idle
  <2>3. CASE op' # Idle
    <3>1. op'.pool = op.pool /\ op'.pc \in {"transfer", "locked"}
      BY <1>5, <2>3 DEF AsksLiquid, Ends, Operations
    <3> QED
      BY <2>1, <3>1 DEF Emptied
  <2> QED
    BY <2>2, <2>3
<1>6. CASE AsksLocked
  <2>1. UNCHANGED <<pool, staked, rewards, known>> /\ op.pc = "locked"
    BY <1>6 DEF AsksLocked, Views, chain, contract
  <2>2. CASE Locked = 0
    <3>1. GoesTo("known")
      BY <1>6, <2>2 DEF AsksLocked, GoesTo
    <3>2. op'.pc = "known" /\ op'.pool = op.pool
      BY <3>1, StageStep DEF Stages
    <3> QED
      BY <2>1, <2>2, <3>2 DEF Emptied
  <2>3. CASE Locked # 0
    <3>1. op' = Idle \/ op' = [op EXCEPT !.pc = "send"]
      BY <1>6, <2>3 DEF AsksLocked, Done, Ends, GoesTo
    <3>2. op'.pc \in {"idle", "send"}
      BY <3>1 DEF Idle, Operations
    <3> QED
      BY <2>1, <3>2 DEF Emptied
  <2> QED
    BY <2>2, <2>3
<1>7. CASE AsksKnown
  <2>1. /\ UNCHANGED <<pool, staked, rewards, known>> /\ op.pc = "known"
        /\ op' = [op EXCEPT !.pc = "rewards", !.known = known]
    BY <1>7 DEF AsksKnown, Views, chain, contract
  <2>2. op'.pc = "rewards" /\ op'.known = known /\ op'.pool = op.pool
    BY <2>1 DEF Operations
  <2> QED
    BY <2>1, <2>2 DEF Emptied
<1>8. CASE AsksRewards
  <2>1. UNCHANGED <<pool, staked, rewards, known>> /\ op.pc = "rewards"
    BY <1>8 DEF AsksRewards, Views, chain, contract
  <2>2. CASE op.known # 0 \/ (op.pool /\ rewards)
    <3>1. op' = Idle
      BY <1>8, <2>2 DEF AsksRewards, Ends
    <3> QED
      BY <2>1, <3>1 DEF Emptied, Idle
  <2>3. CASE ~(op.known # 0 \/ (op.pool /\ rewards))
    <3>1. op'.pc \in {"unselect", "addKey"}
      BY <1>8, <2>3 DEF AsksRewards, GoesTo, Operations
    <3>2. staked = 0
      BY <2>1, <2>3 DEF Emptied
    <3>3. ~rewards
      BY <2>1, <2>3 DEF Emptied
    <3> QED
      BY <2>1, <3>1, <3>2, <3>3 DEF Emptied
  <2> QED
    BY <2>2, <2>3
<1>9. ASSUME Takes
      PROVE  /\ staked' = staked /\ rewards' = rewards
             /\ op.pc = "refresh" => known' = staked /\ pool' = pool
             /\ op.pc # "refresh" => known' = known
             /\ op.pc = "unselect" => ~pool'
             /\ op.pc # "unselect" => pool' = pool
  BY <1>9 DEF Takes, Votes, Refreshes, Transfers, Unselects, AddsKey, Deletes, Pays, contract
<1>10. ASSUME Takes
       PROVE  pool' \/ (staked' = 0 /\ ~rewards')
  BY <1>9, <1>10 DEF Emptied
<1>11. CASE Called
  <2>1. Takes
    BY <1>11 DEF Called
  <2>2. op.pc \in {"vote", "refresh", "transfer", "unselect", "addKey", "delete", "send"}
    BY <2>1 DEF Takes, Votes, Refreshes, Transfers, Unselects, AddsKey, Deletes, Pays
  <2>3. CASE op' = Idle
    BY <1>1, <1>10, <2>1, <2>3
  <2>4. CASE op' # Idle
    <3>1. CASE op.pc \in {"vote", "delete"}
      <4>1. op'.pc \in {"pool", "send"}
        BY <1>11, <2>4, <3>1 DEF Called, Done, Ends, GoesTo, Operations
      <4> QED
        BY <1>10, <2>1, <4>1 DEF Emptied
    <3>2. CASE op.pc = "refresh"
      <4>1. GoesTo("liquid")
        BY <1>11, <3>2 DEF Called, GoesTo
      <4>2. op'.pc = "liquid" /\ op'.pool = op.pool
        BY <4>1, StageStep DEF Stages
      <4> QED
        BY <1>9, <2>1, <3>2, <4>2 DEF Emptied
    <3>3. CASE op.pc = "transfer"
      <4>1. GoesTo("locked")
        BY <1>11, <3>3 DEF Called, GoesTo
      <4>2. op'.pc = "locked" /\ op'.pool = op.pool
        BY <4>1, StageStep DEF Stages
      <4> QED
        BY <1>9, <2>1, <3>3, <4>2 DEF Emptied
    <3>4. CASE op.pc \in {"unselect", "addKey"}
      <4>1. op'.pc \in {"addKey", "delete"}
        BY <1>11, <3>4 DEF Called, GoesTo, Operations
      <4> QED
        BY <1>9, <2>1, <3>4, <4>1 DEF Emptied
    <3>5. op.pc # "send"
      BY <1>11, <2>4 DEF Called, Ends
    <3> QED
      BY <2>2, <3>1, <3>2, <3>3, <3>4, <3>5
  <2> QED
    BY <2>3, <2>4
<1>12. CASE Fault
  <2>1. op' = Idle /\ (Takes \/ UNCHANGED <<pool, staked, rewards>>)
    BY <1>12 DEF Fault, Ends, chain, contract
  <2>2. pool' \/ (staked' = 0 /\ ~rewards')
    BY <1>10, <2>1 DEF Emptied
  <2> QED
    BY <1>1, <2>1, <2>2
<1>13. CASE Tick \/ Receives
  BY <1>2, <1>13 DEF Tick, Receives, Outside, contract
<1>14. CASE Earns
  <2>1. op' = op /\ pool' = pool /\ known' = known /\ staked # 0
    BY <1>14 DEF Earns, Outside
  <2> QED
    BY <2>1 DEF Emptied
<1>15. CASE ClaimsRewards
  <2>1. op' = op /\ op = Idle /\ pool' = pool /\ staked' = staked /\ ~rewards'
    BY <1>15 DEF ClaimsRewards, Outside
  <2> QED
    BY <2>1 DEF Emptied, Idle
<1>16. ASSUME NEW k \in 1 .. MostStaked, Stakes(k) \/ Withdraws(k)
       PROVE  Emptied'
  <2>1. op' = op /\ op = Idle /\ rewards' = rewards
    BY <1>16 DEF Stakes, Withdraws, Outside
  <2>2. pool' \/ (pool' = pool /\ k <= staked /\ staked' = staked - k)
    BY <1>16 DEF Stakes, Withdraws
  <2>3. k \in Nat /\ k > 0
    BY <1>16
  <2> QED
    BY <2>1, <2>2, <2>3 DEF Emptied, Idle
<1>17. CASE UNCHANGED vars
  BY <1>2, <1>17 DEF vars, chain, contract
<1>18. ASSUME \/ \E total \in Payments : StartPay(total)
              \/ StartClaim \/ AsksExists \/ AsksEnabled \/ Refused
       PROVE  UNCHANGED <<pool, staked, rewards, known>>
  BY <1>18 DEF StartPay, StartClaim, AsksExists, AsksEnabled, Refused, Views, chain, contract
<1> QED
  BY <1>3, <1>4, <1>5, <1>6, <1>7, <1>8, <1>11, <1>12, <1>13, <1>14, <1>15, <1>16, <1>17, <1>18
     DEF Next, Step

\* The account is deleted at one stage only.
LEMMA OnlyDeletes ==
    ASSUME [Next]_vars, exists, ~exists'
    PROVE  op.pc = "delete"
<1>1. Takes
  BY DEF Next, vars, chain, StartPay, StartClaim, Step, AsksExists, AsksEnabled, AsksPool,
         AsksLiquid, AsksLocked, AsksKnown, AsksRewards, Called, Refused, Fault, Views,
         Tick, Receives, Earns, Stakes, Withdraws, ClaimsRewards, Outside
<1> QED
  BY <1>1 DEF Takes, Votes, Refreshes, Transfers, Unselects, AddsKey, Deletes, Pays

\* A lockup is destroyed when it is empty.
THEOREM NothingLost == Spec => NothingIsLostWithIt
<1>1. Init => Emptied
  BY DEF Init, Idle, Emptied
<1>2. TypeOK /\ Emptied /\ [Next]_vars => Emptied'
  BY EmptiedStep
<1>3. Emptied /\ [Next]_vars => [exists /\ ~exists' => Locked = 0 /\ staked = 0 /\ ~rewards]_vars
  BY OnlyDeletes DEF Emptied
<1> QED
  BY <1>1, <1>2, <1>3, Typed, PTL DEF Spec, NothingIsLostWithIt

=============================================================================
