------------------------- MODULE SignRequestProofs --------------------------
(***************************************************************************)
(* Proofs about SignRequest, for a request of any size whose transactions  *)
(* carry different nonces: the slice is well-typed, a success is complete, *)
(* and retries for gas send every transaction once and in order.           *)
(***************************************************************************)
EXTENDS SignRequest, SequenceTheorems, WellFoundedInduction, TLAPS

Distinct == \A i, j \in Tx : Nonce[i] = Nonce[j] => i = j

\* The list that a rejected call trims.
Left == IF retryTransactions = NoList THEN transactions ELSE retryTransactions

-----------------------------------------------------------------------------
(* Numbers and lists.                                                      *)

\* A bounded non-empty set of positions has a greatest one.
LEMMA Greatest ==
    ASSUME NEW n \in Nat, NEW S \in SUBSET (0..n), S # {}
    PROVE  \E k \in S : \A j \in S : j <= k
<1>1. IsWellFoundedOn(OpToRel(<, Nat), Nat)
  BY NatLessThanWellFounded
<1> DEFINE T == {n - k : k \in S}
<1>2. T \subseteq Nat /\ T # {}
  <2>1. \A k \in S : n - k \in Nat
    OBVIOUS
  <2>2. T \subseteq Nat
    BY <2>1
  <2>3. PICK k \in S : TRUE
    OBVIOUS
  <2>4. n - k \in T
    OBVIOUS
  <2> QED BY <2>2, <2>4
<1>3. PICK x \in T : \A y \in T : ~(<<y, x>> \in OpToRel(<, Nat))
  <2> HIDE DEF T
  <2> QED BY <1>1, <1>2, WFMin
<1>4. \A y \in T : ~(y < x)
  <2> HIDE DEF T
  <2> QED BY <1>2, <1>3 DEF OpToRel
<1>5. PICK k \in S : x = n - k
  BY <1>3
<1>6. \A j \in S : n - j \in T
  OBVIOUS
<1>7. \A j \in S : ~(n - j < n - k)
  BY <1>4, <1>5, <1>6
<1> QED BY <1>7

\* What is removed from a list is at its front and has its hash recorded.
LEMMA RemovedIsRecorded ==
    ASSUME Distinct, NEW first \in 1..(Size + 1), NEW hashes \in Hash
    PROVE  /\ FirstLeft(first, hashes) \in first..(Size + 1)
           /\ \A i \in first..(FirstLeft(first, hashes) - 1) : Occurs(i, hashes)
<1> DEFINE S == {k \in first..(Size + 1) : Found(first, k - 1, hashes)}
           Stop(k) == /\ Found(first, k - 1, hashes)
                      /\ k <= Size => ~Found(first, k, hashes)
<1>0. Size \in Nat /\ Size >= 1
  BY SizeAssumption
<1>1. Found(first, first - 1, hashes)
  <2> DEFINE none == [i \in first..(first - 1) |-> 1]
  <2>1. first..(first - 1) = {}
    BY <1>0
  <2>2. none \in [first..(first - 1) -> DOMAIN hashes]
    BY <2>1
  <2> QED BY <2>1, <2>2 DEF Found
<1>2. S \in SUBSET (0..(Size + 1)) /\ first \in S
  BY <1>0, <1>1
<1>3. PICK k \in S : \A j \in S : j <= k
  <2> HIDE DEF S
  <2>1. Size + 1 \in Nat /\ S # {}
    BY <1>0, <1>2
  <2> QED BY <1>2, <2>1, Greatest
<1>4. Stop(k)
  <2>1. ASSUME k <= Size PROVE ~Found(first, k, hashes)
    <3>1. SUFFICES ASSUME Found(first, (k + 1) - 1, hashes) PROVE FALSE
      BY <1>0
    <3>2. k + 1 \in S
      BY <1>0, <2>1, <3>1
    <3> QED BY <1>0, <1>3, <3>2
  <2> QED BY <2>1
<1>5. FirstLeft(first, hashes) \in first..(Size + 1) /\ Stop(FirstLeft(first, hashes))
  <2>1. \E j \in first..(Size + 1) : Stop(j)
    BY <1>4
  <2> DEFINE c == CHOOSE j \in first..(Size + 1) : Stop(j)
  <2>2. c \in first..(Size + 1) /\ Stop(c)
    <3> HIDE DEF Stop
    <3> QED BY <2>1
  <2>3. c = FirstLeft(first, hashes)
    BY DEF FirstLeft
  <2> QED BY <2>2, <2>3
<1>6. ASSUME NEW i \in first..(FirstLeft(first, hashes) - 1)
      PROVE  Occurs(i, hashes)
  <2> DEFINE last == FirstLeft(first, hashes) - 1
  <2>1. PICK at \in [first..last -> DOMAIN hashes] :
            \A j \in first..last : Nonce[hashes[at[j]]] = Nonce[j]
    BY <1>5 DEF Found
  <2>2. i \in Tx /\ at[i] \in DOMAIN hashes /\ hashes[at[i]] \in Tx
    <3>1. i \in Tx /\ i \in first..last
      BY <1>0, <1>5 DEF Tx
    <3>2. at[i] \in DOMAIN hashes
      <4> HIDE DEF last
      <4> QED BY <2>1, <3>1
    <3>3. \A n \in DOMAIN hashes : hashes[n] \in Tx
      BY DEF Hash
    <3> QED BY <3>1, <3>2, <3>3
  <2>3. hashes[at[i]] = i
    BY <2>1, <2>2 DEF Distinct
  <2> QED BY <2>2, <2>3 DEF Occurs
<1> QED BY <1>5, <1>6

\* The hashes of transactions 1..m in order.
UpTo(m) == [i \in 1..m |-> i]

LEMMA UpToIsHash ==
    ASSUME NEW m \in 0..Size
    PROVE  UpTo(m) \in Hash /\ Len(UpTo(m)) = m
BY SizeAssumption DEF UpTo, Hash, Tx

\* When exactly the transactions before the m-th are recorded, the list starts there.
LEMMA LeftAfterPrefix ==
    ASSUME Distinct, NEW first \in Tx, NEW m \in first..(Size + 1)
    PROVE  /\ FirstLeft(first, UpTo(m - 1)) = m
           /\ m <= Size => ~Overrun(first, UpTo(m - 1))
<1> DEFINE h == UpTo(m - 1)
           Stop(k) == /\ Found(first, k - 1, h)
                      /\ k <= Size => ~Found(first, k, h)
<1>0. Size \in Nat /\ Size >= 1 /\ first \in 1..Size
  BY SizeAssumption DEF Tx
<1>1. ASSUME NEW last \in first..Size, Found(first, last, h)
      PROVE  last < m
  <2>1. PICK at \in [first..last -> DOMAIN h] :
            \A i \in first..last : Nonce[h[at[i]]] = Nonce[i]
    BY <1>1 DEF Found
  <2>2. at[last] \in 1..(m - 1) /\ h[at[last]] = at[last] /\ last \in Tx
    BY <1>0, <2>1 DEF UpTo, Tx
  <2>3. at[last] \in Tx /\ Nonce[at[last]] = Nonce[last]
    BY <1>0, <2>1, <2>2 DEF Tx
  <2>4. at[last] = last
    BY <2>2, <2>3 DEF Distinct
  <2> QED BY <1>0, <2>2, <2>4
<1>2. Found(first, m - 1, h)
  <2> DEFINE at == [i \in first..(m - 1) |-> i]
  <2>1. at \in [first..(m - 1) -> DOMAIN h]
    BY <1>0 DEF UpTo
  <2>2. \A i \in first..(m - 1) : h[at[i]] = i
    BY <1>0 DEF UpTo
  <2> QED BY <2>1, <2>2 DEF Found
<1>3. Stop(m)
  BY <1>0, <1>1, <1>2
<1>4. ASSUME NEW k \in first..(Size + 1), Stop(k)
      PROVE  k = m
  <2>1. k <= m
    <3>1. CASE k = first
      BY <1>0, <3>1
    <3>2. CASE k # first
      BY <1>0, <1>1, <1>4, <3>2
    <3> QED BY <3>1, <3>2
  <2>2. ASSUME k < m PROVE FALSE
    <3>1. ~Found(first, k, h)
      BY <1>0, <1>4, <2>2
    <3> DEFINE at == [i \in first..k |-> i]
    <3>2. at \in [first..k -> DOMAIN h]
      BY <1>0, <2>2 DEF UpTo
    <3>3. \A i \in first..k : h[at[i]] = i
      BY <1>0, <2>2 DEF UpTo
    <3>4. Found(first, k, h)
      BY <3>2, <3>3 DEF Found
    <3> QED BY <3>1, <3>4
  <2> QED BY <1>0, <2>1, <2>2
<1>5. FirstLeft(first, h) = m
  <2> DEFINE c == CHOOSE k \in first..(Size + 1) : Stop(k)
  <2>1. c \in first..(Size + 1) /\ Stop(c)
    <3> HIDE DEF Stop
    <3> QED BY <1>0, <1>3
  <2>2. c = FirstLeft(first, h)
    BY DEF FirstLeft
  <2> QED BY <1>4, <2>1, <2>2
<1>6. ASSUME m <= Size, Overrun(first, h) PROVE FALSE
  <2> DEFINE g == SubSeq(h, 1, Len(h) - 1)
  <2>1. h # <<>> /\ Found(first, Size, g)
    BY <1>6 DEF Overrun
  <2>2. h \in Hash /\ Len(h) = m - 1 /\ m - 1 >= 1
    <3>1. m - 1 \in 0..Size
      BY <1>0
    <3>2. h \in Hash /\ Len(h) = m - 1
      BY <3>1, UpToIsHash
    <3> QED BY <1>0, <2>1, <3>2, EmptySeq DEF UpTo
  <2>3. DOMAIN g = 1..(m - 2) /\ \A i \in 1..(m - 2) : g[i] = i
    BY <1>0, <2>2 DEF UpTo
  <2>4. PICK at \in [first..Size -> DOMAIN g] :
            \A i \in first..Size : Nonce[g[at[i]]] = Nonce[i]
    BY <2>1 DEF Found
  <2>5. at[Size] \in 1..(m - 2) /\ Nonce[at[Size]] = Nonce[Size]
    <3>1. Size \in first..Size
      BY <1>0
    <3>2. at[Size] \in DOMAIN g /\ Nonce[g[at[Size]]] = Nonce[Size]
      <4> HIDE DEF g
      <4> QED BY <2>4, <3>1
    <3> QED
      <4> HIDE DEF g
      <4> QED BY <2>3, <3>2
  <2>6. at[Size] = Size
    BY <1>0, <1>6, <2>5 DEF Distinct, Tx
  <2> QED BY <1>0, <1>6, <2>5, <2>6
<1> QED BY <1>5, <1>6

-----------------------------------------------------------------------------
(* The slice is well-typed.                                                *)

LEMMA MoreGasIsAList ==
    ASSUME NEW list \in List
    PROVE  IncreaseGas(list) \in List /\ IncreaseGas(list).first = list.first
<1> DEFINE i == FirstWithCalls(list)
<1>1. list.gas \in [Tx -> Amounts] /\ MaxGas \in Nat /\ Diff \in Nat \ {0}
  BY RequestAssumption DEF List
<1>2. ASSUME NEW j \in Tx PROVE Raised(j, list.gas[j]) \in Amounts
  BY <1>1 DEF Raised, Amounts
<1>3. [list.gas EXCEPT ![i] = Raised(i, @)] \in [Tx -> Amounts]
  <2>1. CASE i \in Tx
    BY <1>1, <1>2, <2>1
  <2>2. CASE i \notin Tx
    BY <1>1, <2>2
  <2> QED BY <2>1, <2>2
<1> HIDE DEF i
<1>4. [list EXCEPT !.gas[i] = Raised(i, @)] \in List
  BY <1>1, <1>3 DEF List
<1> QED BY <1>4 DEF IncreaseGas, List, i

LEMMA NoListIsNone == NoList \notin List /\ transactions \in List
BY SizeAssumption, RequestAssumption DEF NoList, transactions, List

LEMMA HashesAreHashes ==
    ASSUME TypeOK
    PROVE  /\ Hashes \in Hash /\ Recorded(successHashes) \in Hash
           /\ Len(Hashes) = Current - sending.first
           /\ \A i \in 1..(Current - sending.first) : Hashes[i] = sending.first + i - 1
<1> DEFINE n == Current - sending.first
<1>1. n \in Nat /\ sending.first \in 1..Size /\ sending.first + n \in 1..(Size + 1)
  BY SizeAssumption DEF TypeOK, Current, Tx
<1>2. \A i \in 1..n : sending.first + i - 1 \in Tx
  BY <1>1, SizeAssumption DEF Tx
<1>3. Hashes = [i \in 1..n |-> sending.first + i - 1]
  BY DEF Hashes
<1> HIDE DEF n
<1>4. Hashes \in Seq(Tx) /\ Len(Hashes) = n
  BY <1>1, <1>2, <1>3
<1>5. Recorded(successHashes) \in Seq(Tx)
  BY <1>4 DEF TypeOK, Recorded, Hash
<1> QED BY <1>3, <1>4, <1>5 DEF Hash, n

\* What the rejected reducer leaves is a list and a status.
LEMMA RejectKeepsTypes ==
    ASSUME TypeOK, Distinct, NEW hashes \in Hash, NEW b \in BOOLEAN, Reject(hashes, b)
    PROVE  /\ retryTransactions' \in List \cup {NoList}
           /\ status' = status \/ status' \in {"retry-tx", "error"}
           /\ status' = "retry-tx" /\ status # "retry-tx" =>
                 retryTransactions' \in List /\ retryTransactions'.first <= Size
           /\ \/ UNCHANGED <<status, retryTransactions>>
              \/ /\ retryTransactions' \in List
                 /\ retryTransactions'.first = FirstLeft(Left.first, hashes)
<1>1. Left \in List
  BY NoListIsNone DEF Left, TypeOK
<1> DEFINE left == [Left EXCEPT !.first = FirstLeft(Left.first, hashes)]
<1>2. FirstLeft(Left.first, hashes) \in 1..(Size + 1)
  <2>1. Left.first \in 1..(Size + 1)
    BY <1>1 DEF List
  <2> QED BY <2>1, RemovedIsRecorded, SizeAssumption
<1>3. left \in List /\ left.first = FirstLeft(Left.first, hashes)
  BY <1>1, <1>2 DEF List
<1>4. \/ UNCHANGED <<status, retryTransactions>>
      \/ /\ retryTransactions' = left
         /\ status' = IF b /\ AbleToIncreaseGas(left) THEN "retry-tx" ELSE "error"
  BY DEF Reject, Left
<1>5. AbleToIncreaseGas(left) => left.first <= Size
  BY <1>3, SizeAssumption DEF AbleToIncreaseGas, WithCalls, List
<1> HIDE DEF left
<1>6. CASE UNCHANGED <<status, retryTransactions>>
  BY <1>6 DEF TypeOK
<1>7. CASE /\ retryTransactions' = left
           /\ status' = IF b /\ AbleToIncreaseGas(left) THEN "retry-tx" ELSE "error"
  BY <1>3, <1>5, <1>7
<1> QED BY <1>4, <1>6, <1>7

LEMMA TypeInit == Init => TypeOK
BY SizeAssumption, BoundAssumption, EmptySeq DEF Init, TypeOK, Hash, Idle, Tx

LEMMA TypeStep ==
    ASSUME TypeOK, Distinct, [Next]_vars
    PROVE  TypeOK'
<1> USE SizeAssumption, BoundAssumption
<1>1. CASE Approve
  BY <1>1, NoListIsNone DEF Approve, TypeOK, SendFrom, transactions, Tx
<1>2. CASE ApproveRetry
  <2> DEFINE left == IF retryTransactions = NoList THEN transactions ELSE retryTransactions
  <2>1. left \in List
    BY NoListIsNone DEF TypeOK
  <2>2. IncreaseGas(left) \in List
    BY <2>1, MoreGasIsAList
  <2>3. /\ retryTransactions' = IncreaseGas(left) /\ status' = "in-progress"
        /\ sending' = LET list == IF left.first > Size THEN transactions ELSE left IN
                      [on |-> TRUE, first |-> list.first, next |-> list.first]
        /\ UNCHANGED <<successHashes, transactionHashes, ran, starts>>
    BY <1>2 DEF ApproveRetry, SendFrom
  <2> HIDE DEF left
  <2>4. /\ sending' \in [on : BOOLEAN, first : Tx, next : 1..(Size + 1)]
        /\ sending'.first <= sending'.next
    <3>1. CASE left.first > Size
      BY <2>3, <3>1 DEF transactions, Tx
    <3>2. CASE ~(left.first > Size)
      <4>1. left.first \in 1..Size
        BY <2>1, <3>2 DEF List
      <4> QED BY <2>3, <3>2, <4>1 DEF Tx
    <3> QED BY <3>1, <3>2
  <2> QED BY <2>2, <2>3, <2>4 DEF TypeOK
<1>3. CASE Reload
  BY <1>3, EmptySeq DEF Reload, TypeOK, Hash, Idle, Tx
<1>4. CASE SendRuns
  <2>1. Current \in Tx
    BY <1>4 DEF SendRuns, Busy, TypeOK, Current, Tx
  <2>2. Append(ran, Current) \in Hash
    BY <2>1 DEF TypeOK, Hash
  <2> QED BY <1>4, <2>1, <2>2 DEF SendRuns, TypeOK, slice, Current, Tx
<1>5. CASE SendRunsOutOfGas
  <2>1. successHashes' \in Hash /\ Reject(successHashes', TRUE)
    BY <1>5, HashesAreHashes DEF SendRunsOutOfGas
  <2>2. /\ retryTransactions' \in List \cup {NoList}
        /\ status' = status \/ status' \in {"retry-tx", "error"}
    BY <2>1, RejectKeepsTypes
  <2> QED BY <1>5, <2>1, <2>2 DEF SendRunsOutOfGas, TypeOK, Idle, Tx
<1>6. CASE SendFails
  <2>1. ran' \in Hash
    <3>1. Current \in Tx
      BY <1>6 DEF SendFails, Busy, TypeOK, Current, Tx
    <3>2. ran \in Hash /\ Append(ran, Current) \in Hash
      BY <3>1 DEF TypeOK, Hash
    <3>3. ran' = ran \/ ran' = Append(ran, Current)
      BY <1>6 DEF SendFails
    <3> QED BY <3>2, <3>3
  <2>2. successHashes \in Hash /\ Reject(successHashes, FALSE)
    BY <1>6 DEF SendFails, TypeOK
  <2>3. /\ retryTransactions' \in List \cup {NoList}
        /\ status' = status \/ status' \in {"retry-tx", "error"}
    BY <2>2, RejectKeepsTypes
  <2> QED BY <1>6, <2>1, <2>3 DEF SendFails, TypeOK, Idle, Tx
<1>7. CASE Finish
  BY <1>7, HashesAreHashes DEF Finish, TypeOK, Idle, Tx
<1>8. CASE UNCHANGED vars
  BY <1>8 DEF vars, slice, TypeOK
<1> QED BY <1>1, <1>2, <1>3, <1>4, <1>5, <1>6, <1>7, <1>8 DEF Next, Sends

\* Type correctness: whatever the user answers and however the calls end, the slice
\* holds what its readers expect, and no call is given more gas than it may have.
THEOREM SignTypes == ASSUME Distinct PROVE Spec => []TypeOK
<1>1. Init => TypeOK
  BY TypeInit
<1>2. TypeOK /\ [Next]_vars => TypeOK'
  BY TypeStep
<1> QED BY <1>1, <1>2, PTL DEF Spec

-----------------------------------------------------------------------------
(* A success is complete: what is not on the list to send has its hash      *)
(* recorded, and what has its hash recorded took effect.                   *)

BeforeListIsRecorded ==
    /\ \A i \in 1..(Left.first - 1) : Occurs(i, successHashes)
    /\ sending.on => \A i \in 1..(sending.first - 1) : Occurs(i, successHashes)

RecordedHasRun ==
    /\ \A i \in Tx : Occurs(i, successHashes) => Occurs(i, ran)
    /\ sending.on => \A i \in sending.first..(sending.next - 1) : Occurs(i, ran)

Reported ==
    /\ \A i \in Tx : Occurs(i, transactionHashes) => Occurs(i, ran)
    /\ status = "success" => \A i \in Tx : Occurs(i, transactionHashes)

CallIsInProgress == sending.on => status = "in-progress"

RetryHasAList ==
    status = "retry-tx" => retryTransactions \in List /\ retryTransactions.first <= Size

Backed ==
    /\ TypeOK
    /\ BeforeListIsRecorded
    /\ RecordedHasRun
    /\ Reported
    /\ CallIsInProgress
    /\ RetryHasAList

LEMMA OccursInBoth ==
    ASSUME NEW s \in Hash, NEW t \in Hash, NEW i
    PROVE  Occurs(i, s \o t) <=> Occurs(i, s) \/ Occurs(i, t)
<1>1. /\ Len(s) \in Nat /\ Len(t) \in Nat
      /\ DOMAIN s = 1..Len(s) /\ DOMAIN t = 1..Len(t)
      /\ DOMAIN (s \o t) = 1..(Len(s) + Len(t))
      /\ \A n \in 1..(Len(s) + Len(t)) :
            (s \o t)[n] = IF n <= Len(s) THEN s[n] ELSE t[n - Len(s)]
  BY ConcatProperties, LenProperties DEF Hash
<1>2. ASSUME Occurs(i, s \o t) PROVE Occurs(i, s) \/ Occurs(i, t)
  <2>1. PICK n \in 1..(Len(s) + Len(t)) : (s \o t)[n] = i
    BY <1>1, <1>2 DEF Occurs
  <2>2. CASE n <= Len(s)
    <3>1. n \in DOMAIN s /\ s[n] = i
      BY <1>1, <2>1, <2>2
    <3> QED BY <3>1 DEF Occurs
  <2>3. CASE ~(n <= Len(s))
    <3>1. n - Len(s) \in DOMAIN t /\ t[n - Len(s)] = i
      BY <1>1, <2>1, <2>3
    <3> QED BY <3>1 DEF Occurs
  <2> QED BY <2>2, <2>3
<1>3. ASSUME Occurs(i, s) PROVE Occurs(i, s \o t)
  <2>1. PICK n \in 1..Len(s) : s[n] = i
    BY <1>1, <1>3 DEF Occurs
  <2>2. n \in DOMAIN (s \o t) /\ (s \o t)[n] = i
    BY <1>1, <2>1
  <2> QED BY <2>2 DEF Occurs
<1>4. ASSUME Occurs(i, t) PROVE Occurs(i, s \o t)
  <2>1. PICK n \in 1..Len(t) : t[n] = i
    BY <1>1, <1>4 DEF Occurs
  <2>2. n + Len(s) \in DOMAIN (s \o t) /\ (s \o t)[n + Len(s)] = i
    BY <1>1, <2>1
  <2> QED BY <2>2 DEF Occurs
<1> QED BY <1>2, <1>3, <1>4

LEMMA OccursAfterAppend ==
    ASSUME NEW s \in Hash, NEW x \in Tx, NEW i
    PROVE  Occurs(i, Append(s, x)) <=> Occurs(i, s) \/ i = x
<1>1. <<x>> \in Hash /\ Append(s, x) = s \o <<x>>
  BY DEF Hash
<1>2. Occurs(i, <<x>>) <=> i = x
  BY DEF Occurs
<1> QED BY <1>1, <1>2, OccursInBoth

\* The hashes of a call are those of the transactions it has sent.
LEMMA HashesOfACall ==
    ASSUME TypeOK, NEW i
    PROVE  Occurs(i, Hashes) <=> i \in sending.first..(Current - 1)
<1>1. /\ sending.first \in Nat /\ Current \in Nat
      /\ DOMAIN Hashes = 1..(Current - sending.first)
      /\ \A n \in 1..(Current - sending.first) : Hashes[n] = sending.first + n - 1
  BY SizeAssumption DEF Hashes, TypeOK, Current, Tx
<1>2. ASSUME i \in sending.first..(Current - 1) PROVE Occurs(i, Hashes)
  <2>1. i - sending.first + 1 \in DOMAIN Hashes /\ Hashes[i - sending.first + 1] = i
    BY <1>1, <1>2
  <2> QED BY <2>1 DEF Occurs
<1>3. ASSUME Occurs(i, Hashes) PROVE i \in sending.first..(Current - 1)
  <2>1. PICK n \in 1..(Current - sending.first) : Hashes[n] = i
    BY <1>1, <1>3 DEF Occurs
  <2> QED BY <1>1, <2>1
<1> QED BY <1>2, <1>3

\* After a rejection the list still begins after nothing but recorded transactions.
LEMMA RejectKeepsTheRest ==
    ASSUME TypeOK, Distinct, BeforeListIsRecorded, RetryHasAList, sending.on, CallIsInProgress,
           NEW hashes \in Hash, NEW b \in BOOLEAN, Reject(hashes, b),
           \A i \in Tx : Occurs(i, successHashes) => Occurs(i, hashes)
    PROVE  /\ \A i \in 1..(Left'.first - 1) : Occurs(i, hashes)
           /\ RetryHasAList'
           /\ status' # "success"
<1>0. Size \in Nat /\ Left \in List /\ Left.first \in 1..(Size + 1)
  BY SizeAssumption, NoListIsNone DEF Left, TypeOK, List
<1>1. \A i \in 1..(Left.first - 1) : Occurs(i, hashes)
  BY <1>0 DEF BeforeListIsRecorded, Tx
<1>2. \/ UNCHANGED <<status, retryTransactions>>
      \/ /\ retryTransactions' \in List
         /\ retryTransactions'.first = FirstLeft(Left.first, hashes)
  BY RejectKeepsTypes
<1>3. \A i \in 1..(Left'.first - 1) : Occurs(i, hashes)
  <2>1. CASE UNCHANGED <<status, retryTransactions>>
    <3>1. Left' = Left
      BY <2>1 DEF Left
    <3> QED BY <1>1, <3>1
  <2>2. CASE /\ retryTransactions' \in List
             /\ retryTransactions'.first = FirstLeft(Left.first, hashes)
    <3>1. Left'.first = FirstLeft(Left.first, hashes)
      BY <2>2, NoListIsNone DEF Left
    <3>2. \A i \in Left.first..(FirstLeft(Left.first, hashes) - 1) : Occurs(i, hashes)
      BY <1>0, RemovedIsRecorded
    <3>3. FirstLeft(Left.first, hashes) \in Left.first..(Size + 1)
      BY <1>0, RemovedIsRecorded
    <3>4. ASSUME NEW i \in 1..(FirstLeft(Left.first, hashes) - 1) PROVE Occurs(i, hashes)
      <4>1. CASE i < Left.first
        BY <1>0, <1>1, <3>3, <4>1
      <4>2. CASE ~(i < Left.first)
        BY <1>0, <3>2, <3>3, <4>2
      <4> QED BY <4>1, <4>2
    <3> QED BY <3>1, <3>4
  <2> QED BY <1>2, <2>1, <2>2
<1>4. status' # "success" /\ RetryHasAList'
  BY RejectKeepsTypes DEF CallIsInProgress, RetryHasAList
<1> QED BY <1>3, <1>4

LEMMA BackedInit == Init => Backed
<1> SUFFICES ASSUME Init PROVE Backed
  OBVIOUS
<1>1. TypeOK
  BY TypeInit
<1>2. \A i : ~Occurs(i, <<>>)
  BY DEF Occurs
<1>3. Left = transactions /\ Left.first = 1
  BY DEF Init, Left, transactions
<1> QED
  BY <1>1, <1>2, <1>3 DEF Init, Idle, Backed, BeforeListIsRecorded, RecordedHasRun, Reported,
     CallIsInProgress, RetryHasAList

LEMMA BackedStep ==
    ASSUME Backed, Distinct, [Next]_vars
    PROVE  Backed'
<1> USE SizeAssumption
<1>0. TypeOK /\ TypeOK'
  BY TypeStep DEF Backed
<1> SUFFICES /\ BeforeListIsRecorded' /\ RecordedHasRun' /\ Reported'
             /\ CallIsInProgress' /\ RetryHasAList'
  BY <1>0 DEF Backed
<1>a. \A i : ~Occurs(i, <<>>)
  BY DEF Occurs
<1>1. CASE Approve
  <2>1. /\ retryTransactions' = NoList /\ status' = "in-progress"
        /\ sending' = [on |-> TRUE, first |-> 1, next |-> 1]
        /\ UNCHANGED <<successHashes, transactionHashes, ran>>
    BY <1>1 DEF Approve, SendFrom, transactions
  <2>2. Left'.first = 1
    BY <2>1 DEF Left, transactions
  <2> QED
    BY <2>1, <2>2 DEF Backed, BeforeListIsRecorded, RecordedHasRun, Reported,
       CallIsInProgress, RetryHasAList
<1>2. CASE ApproveRetry
  <2>1. retryTransactions \in List /\ retryTransactions.first \in 1..Size
    BY <1>2 DEF Backed, RetryHasAList, ApproveRetry, List
  <2>2. Left = retryTransactions /\ retryTransactions # NoList
    BY <2>1, NoListIsNone DEF Left
  <2>3. /\ retryTransactions' = IncreaseGas(retryTransactions) /\ status' = "in-progress"
        /\ sending'.on /\ sending'.first = retryTransactions.first
        /\ sending'.next = retryTransactions.first
        /\ UNCHANGED <<successHashes, transactionHashes, ran>>
    BY <1>2, <2>1, <2>2 DEF ApproveRetry, SendFrom
  <2>4. Left'.first = Left.first
    BY <2>1, <2>2, <2>3, MoreGasIsAList, NoListIsNone DEF Left
  <2> QED
    BY <2>1, <2>2, <2>3, <2>4 DEF Backed, BeforeListIsRecorded, RecordedHasRun, Reported,
       CallIsInProgress, RetryHasAList
<1>3. CASE Reload
  <2>1. /\ retryTransactions' = NoList /\ status' = "needs-confirmation" /\ ~sending'.on
        /\ successHashes' = <<>> /\ transactionHashes' = <<>> /\ UNCHANGED ran
    BY <1>3 DEF Reload, Idle
  <2>2. Left'.first = 1
    BY <2>1 DEF Left, transactions
  <2> QED
    BY <1>a, <2>1, <2>2 DEF BeforeListIsRecorded, RecordedHasRun, Reported,
       CallIsInProgress, RetryHasAList
<1>4. CASE SendRuns
  <2>1. /\ sending.on /\ Current \in Tx /\ ran' = Append(ran, Current)
        /\ sending'.on /\ sending'.first = sending.first /\ sending'.next = Current + 1
        /\ UNCHANGED slice
    BY <1>0, <1>4 DEF SendRuns, Busy, TypeOK, Current, Tx
  <2>2. \A i : Occurs(i, ran') <=> Occurs(i, ran) \/ i = Current
    BY <1>0, <2>1, OccursAfterAppend DEF TypeOK
  <2>3. BeforeListIsRecorded'
    BY <2>1 DEF Backed, BeforeListIsRecorded, Left, slice
  <2>4. RecordedHasRun'
    <3>1. \A i \in sending'.first..(sending'.next - 1) : Occurs(i, ran')
      <4>1. sending.first \in Nat /\ Current \in Nat
        BY <1>0, <2>1 DEF TypeOK, Tx
      <4> QED BY <2>1, <2>2, <4>1 DEF Backed, RecordedHasRun, Current
    <3> QED BY <2>1, <2>2, <3>1 DEF Backed, RecordedHasRun, slice
  <2>5. Reported' /\ CallIsInProgress' /\ RetryHasAList'
    BY <2>1, <2>2 DEF Backed, Reported, CallIsInProgress, RetryHasAList, slice
  <2> QED BY <2>3, <2>4, <2>5
<1>5. CASE SendRunsOutOfGas
  <2>1. /\ sending.on /\ ~sending'.on /\ successHashes' = successHashes \o Hashes
        /\ Reject(successHashes', TRUE) /\ UNCHANGED <<transactionHashes, ran>>
    BY <1>5 DEF SendRunsOutOfGas, Busy, Idle, Recorded
  <2>2. \A i : Occurs(i, successHashes') <=> Occurs(i, successHashes) \/ Occurs(i, Hashes)
    BY <1>0, <2>1, HashesAreHashes, OccursInBoth DEF TypeOK
  <2>3. \A i \in Tx : Occurs(i, successHashes') => Occurs(i, ran)
    BY <1>0, <2>1, <2>2, HashesOfACall DEF Backed, RecordedHasRun, Current
  <2>4. /\ \A i \in 1..(Left'.first - 1) : Occurs(i, successHashes')
        /\ RetryHasAList' /\ status' # "success"
    BY <1>0, <2>1, <2>2, RejectKeepsTheRest DEF Backed, TypeOK
  <2> QED
    BY <2>1, <2>3, <2>4 DEF Backed, BeforeListIsRecorded, RecordedHasRun, Reported,
       CallIsInProgress
<1>6. CASE SendFails
  <2>1. /\ sending.on /\ ~sending'.on
        /\ Reject(successHashes, FALSE) /\ UNCHANGED <<successHashes, transactionHashes>>
    BY <1>6 DEF SendFails, Busy, Idle
  <2>2. \A i : Occurs(i, ran) => Occurs(i, ran')
    <3>1. Current \in Tx /\ ran \in Hash
      BY <1>0, <1>6 DEF SendFails, Busy, TypeOK, Current, Tx
    <3>2. CASE ran' = ran
      BY <3>2
    <3>3. CASE ran' = Append(ran, Current)
      BY <3>1, <3>3, OccursAfterAppend
    <3> QED BY <1>6, <3>2, <3>3 DEF SendFails
  <2>3. /\ \A i \in 1..(Left'.first - 1) : Occurs(i, successHashes)
        /\ RetryHasAList' /\ status' # "success"
    BY <1>0, <2>1, RejectKeepsTheRest DEF Backed, TypeOK
  <2> QED
    BY <2>1, <2>2, <2>3 DEF Backed, BeforeListIsRecorded, RecordedHasRun, Reported,
       CallIsInProgress
<1>7. CASE Finish
  <2>1. /\ sending.on /\ ~sending'.on /\ Current = Size + 1
        /\ successHashes' = successHashes \o Hashes /\ transactionHashes' = successHashes'
        /\ status' = "success" /\ UNCHANGED <<retryTransactions, ran>>
    BY <1>0, <1>7 DEF Finish, Idle, Recorded, TypeOK, Current
  <2>2. \A i : Occurs(i, successHashes') <=> Occurs(i, successHashes) \/ Occurs(i, Hashes)
    BY <1>0, <2>1, HashesAreHashes, OccursInBoth DEF TypeOK
  <2>3. \A i \in Tx : Occurs(i, successHashes') => Occurs(i, ran)
    BY <1>0, <2>1, <2>2, HashesOfACall DEF Backed, RecordedHasRun, Current
  <2>4. ASSUME NEW i \in Tx PROVE Occurs(i, successHashes')
    <3>1. sending.first \in Nat /\ i \in 1..Size
      BY <1>0 DEF TypeOK, Tx
    <3>2. CASE i < sending.first
      BY <2>1, <2>2, <3>1, <3>2 DEF Backed, BeforeListIsRecorded
    <3>3. CASE ~(i < sending.first)
      <4>1. i \in sending.first..(Current - 1)
        BY <2>1, <3>1, <3>3
      <4> QED BY <1>0, <2>2, <4>1, HashesOfACall
    <3> QED BY <3>2, <3>3
  <2>5. BeforeListIsRecorded'
    <3>1. Left' = Left
      BY <2>1 DEF Left
    <3> QED BY <2>1, <2>2, <3>1 DEF Backed, BeforeListIsRecorded
  <2> QED
    BY <2>1, <2>3, <2>4, <2>5 DEF RecordedHasRun, Reported, CallIsInProgress, RetryHasAList
<1>8. CASE UNCHANGED vars
  BY <1>8 DEF vars, slice, Backed, BeforeListIsRecorded, RecordedHasRun, Reported,
     CallIsInProgress, RetryHasAList, Left
<1> QED BY <1>1, <1>2, <1>3, <1>4, <1>5, <1>6, <1>7, <1>8 DEF Next, Sends

\* A success means that every transaction of the request took effect and has its hash
\* handed over, whatever was retried, started over or lost before it.
THEOREM SuccessesAreComplete == ASSUME Distinct PROVE Spec => []SuccessIsComplete
<1>1. Init => Backed
  BY BackedInit
<1>2. Backed /\ [Next]_vars => Backed'
  BY BackedStep
<1>3. Backed => SuccessIsComplete
  BY DEF Backed, Reported, SuccessIsComplete
<1> QED BY <1>1, <1>2, <1>3, PTL DEF Spec

-----------------------------------------------------------------------------
(* Until the user approves the whole request once more, exactly the        *)
(* transactions before the list to send have run and are recorded.         *)

Untouched ==
    starts = 0 => /\ status = "needs-confirmation" /\ ~sending.on
                  /\ ran = <<>> /\ successHashes = <<>>

\* While a call sends.
SendsInOrder ==
    sending.on => /\ status = "in-progress"
                  /\ sending.first = Left.first
                  /\ sending.next = Len(ran) + 1
                  /\ successHashes = UpTo(sending.first - 1)

\* While the retry screen is shown.
RetriesInOrder ==
    status = "retry-tx" => /\ ~sending.on
                           /\ retryTransactions \in List
                           /\ retryTransactions.first = Len(ran) + 1
                           /\ retryTransactions.first <= Size
                           /\ FirstWithCalls(retryTransactions) = Len(ran) + 1
                           /\ retryTransactions.gas[Len(ran) + 1] < MaxGas
                           /\ successHashes = UpTo(Len(ran))

Orderly ==
    /\ TypeOK
    /\ Untouched
    /\ RunInOrderOnce
    /\ starts <= 1 => SendsInOrder /\ RetriesInOrder

\* A call that began after a recorded prefix extends it.
LEMMA CallExtendsPrefix ==
    ASSUME TypeOK, successHashes = UpTo(sending.first - 1)
    PROVE  Recorded(successHashes) = UpTo(Current - 1)
<1> DEFINE f == sending.first - 1
           n == Current - 1
<1>1. f \in 0..Size /\ n \in f..Size
  BY SizeAssumption DEF TypeOK, Current, Tx
<1>2. /\ UpTo(f) \in Seq(Tx) /\ Len(UpTo(f)) = f /\ UpTo(n) \in Seq(Tx) /\ Len(UpTo(n)) = n
  BY <1>1, UpToIsHash, SizeAssumption DEF Hash
<1>3. /\ Hashes \in Seq(Tx) /\ Len(Hashes) = n - f
      /\ \A i \in 1..(n - f) : Hashes[i] = f + i
  <2>1. sending.first \in Int /\ Current \in Int
    BY SizeAssumption DEF TypeOK, Current, Tx
  <2>2. /\ Hashes \in Seq(Tx) /\ Len(Hashes) = Current - sending.first
        /\ \A i \in 1..(Current - sending.first) : Hashes[i] = sending.first + i - 1
    BY HashesAreHashes DEF Hash
  <2>3. n - f = Current - sending.first
    BY <2>1
  <2>4. ASSUME NEW i \in 1..(n - f) PROVE Hashes[i] = f + i
    <3>1. i \in 1..(Current - sending.first)
      BY <2>3
    <3>2. Hashes[i] = sending.first + i - 1
      BY <2>2, <3>1
    <3> QED BY <2>1, <3>2
  <2> QED BY <2>2, <2>3, <2>4
<1> DEFINE r == Recorded(successHashes)
<1>4. /\ r \in Seq(Tx) /\ Len(r) = n
      /\ \A i \in 1..n : r[i] = IF i <= f THEN UpTo(f)[i] ELSE Hashes[i - f]
  <2>1. r = UpTo(f) \o Hashes
    BY DEF Recorded
  <2> HIDE DEF f, n, r
  <2>2. /\ r \in Seq(Tx) /\ Len(r) = f + (n - f)
        /\ \A i \in 1..(f + (n - f)) : r[i] = IF i <= f THEN UpTo(f)[i] ELSE Hashes[i - f]
    <3> DEFINE u == UpTo(f)
               h == Hashes
    <3>1. u \in Seq(Tx) /\ h \in Seq(Tx) /\ Len(u) = f /\ Len(h) = n - f /\ r = u \o h
      BY <1>2, <1>3, <2>1
    <3> HIDE DEF u, h
    <3>2. /\ u \o h \in Seq(Tx) /\ Len(u \o h) = Len(u) + Len(h)
          /\ \A i \in 1..(Len(u) + Len(h)) :
                (u \o h)[i] = IF i <= Len(u) THEN u[i] ELSE h[i - Len(u)]
      BY <3>1, ConcatProperties, Zenon
    <3>3. /\ r \in Seq(Tx) /\ Len(r) = f + (n - f)
          /\ \A i \in 1..(f + (n - f)) : r[i] = IF i <= f THEN u[i] ELSE h[i - f]
      BY <3>1, <3>2, Zenon
    <3> QED BY <3>3 DEF u, h
  <2>3. f + (n - f) = n
    BY <1>1
  <2> QED BY <2>2, <2>3
<1>5. \A i \in 1..n : r[i] = UpTo(n)[i]
  <2> HIDE DEF r, f, n
  <2> QED BY <1>1, <1>3, <1>4 DEF UpTo
<1>6. r = UpTo(n)
  <2> HIDE DEF r, f, n
  <2> QED BY <1>2, <1>4, <1>5, SeqEqual
<1> QED BY <1>6

\* A transaction that runs is the next of the request.
LEMMA NextInOrder ==
    ASSUME ran \in Hash, \A i \in DOMAIN ran : ran[i] = i, NEW x \in Tx, x = Len(ran) + 1
    PROVE  /\ \A i \in DOMAIN Append(ran, x) : Append(ran, x)[i] = i
           /\ Len(Append(ran, x)) = x
BY DEF Hash

LEMMA OrderlyInit == Init => Orderly
<1> SUFFICES ASSUME Init PROVE Orderly
  OBVIOUS
<1>1. TypeOK
  BY TypeInit
<1> QED
  BY <1>1 DEF Init, Idle, Orderly, Untouched, RunInOrderOnce, SendsInOrder, RetriesInOrder

LEMMA OrderlyStep ==
    ASSUME Orderly, Distinct, [Next]_vars
    PROVE  Orderly'
<1> USE SizeAssumption
<1>0. TypeOK /\ TypeOK'
  BY TypeStep DEF Orderly
<1>a. Len(ran) \in Nat
  BY <1>0 DEF TypeOK, Hash
<1> SUFFICES Untouched' /\ RunInOrderOnce' /\ (starts' <= 1 => SendsInOrder' /\ RetriesInOrder')
  BY <1>0 DEF Orderly
<1>1. CASE Approve
  <2>1. /\ starts' = starts + 1 /\ starts \in Nat
        /\ retryTransactions' = NoList /\ status' = "in-progress"
        /\ sending' = [on |-> TRUE, first |-> 1, next |-> 1]
        /\ UNCHANGED <<successHashes, ran>>
    BY <1>0, <1>1, BoundAssumption DEF Approve, SendFrom, transactions, TypeOK
  <2>2. Left'.first = 1
    BY <2>1 DEF Left, transactions
  <2>3. starts' <= 1 => ran = <<>> /\ successHashes = <<>>
    BY <2>1 DEF Orderly, Untouched
  <2>4. UpTo(0) = <<>>
    BY UpToIsHash, EmptySeq DEF UpTo, Hash
  <2> QED
    BY <2>1, <2>2, <2>3, <2>4 DEF Untouched, RunInOrderOnce, SendsInOrder, RetriesInOrder
<1>2. CASE ApproveRetry
  <2>1. /\ starts' = starts /\ starts # 0 /\ status = "retry-tx"
        /\ UNCHANGED <<successHashes, ran>> /\ status' = "in-progress"
    BY <1>2 DEF ApproveRetry, Orderly, Untouched
  <2>2. ASSUME starts <= 1 PROVE SendsInOrder' /\ RetriesInOrder'
    <3>1. /\ retryTransactions \in List /\ retryTransactions.first = Len(ran) + 1
          /\ retryTransactions.first <= Size /\ successHashes = UpTo(Len(ran))
      BY <2>1, <2>2 DEF Orderly, RetriesInOrder
    <3>2. retryTransactions # NoList
      BY <3>1, NoListIsNone
    <3>3. /\ retryTransactions' = IncreaseGas(retryTransactions)
          /\ sending' = [on |-> TRUE, first |-> Len(ran) + 1, next |-> Len(ran) + 1]
      <4>1. ~(retryTransactions.first > Size)
        BY <1>a, <3>1
      <4>2. SendFrom(retryTransactions) /\ retryTransactions' = IncreaseGas(retryTransactions)
        BY <1>2, <3>2, <4>1 DEF ApproveRetry
      <4> QED BY <3>1, <4>2 DEF SendFrom
    <3>4. Left'.first = Len(ran) + 1
      BY <3>1, <3>3, MoreGasIsAList, NoListIsNone DEF Left
    <3> QED BY <1>a, <2>1, <3>1, <3>3, <3>4 DEF SendsInOrder, RetriesInOrder
  <2> QED BY <2>1, <2>2 DEF Orderly, Untouched, RunInOrderOnce
<1>3. CASE Reload
  <2>1. /\ status' = "needs-confirmation" /\ ~sending'.on /\ successHashes' = <<>>
        /\ UNCHANGED <<ran, starts>>
    BY <1>3 DEF Reload, Idle
  <2> QED
    BY <2>1 DEF Orderly, Untouched, RunInOrderOnce, SendsInOrder, RetriesInOrder
<1>4. CASE SendRuns
  <2>1. /\ sending.on /\ Current \in Tx /\ ran' = Append(ran, Current)
        /\ sending'.on /\ sending'.first = sending.first /\ sending'.next = Current + 1
        /\ UNCHANGED <<slice, starts>>
    BY <1>0, <1>4 DEF SendRuns, Busy, TypeOK, Current, Tx
  <2>2. starts # 0
    BY <2>1 DEF Orderly, Untouched
  <2>3. ASSUME starts <= 1
        PROVE  RunInOrderOnce' /\ SendsInOrder' /\ RetriesInOrder'
    <3>1. SendsInOrder /\ RetriesInOrder /\ RunInOrderOnce
      BY <2>3 DEF Orderly
    <3>2. Current = Len(ran) + 1
      BY <2>1, <3>1 DEF SendsInOrder, Current
    <3>3. (\A i \in DOMAIN ran' : ran'[i] = i) /\ Len(ran') = Current
      BY <1>0, <2>1, <2>3, <3>1, <3>2, NextInOrder DEF TypeOK, RunInOrderOnce
    <3>4. Left' = Left
      BY <2>1 DEF Left, slice
    <3>5. status # "retry-tx"
      BY <2>1, <3>1 DEF SendsInOrder
    <3>6. RunInOrderOnce' /\ RetriesInOrder'
      BY <2>1, <3>3, <3>5 DEF RunInOrderOnce, RetriesInOrder, slice
    <3>7. SendsInOrder'
      BY <2>1, <3>1, <3>3, <3>4 DEF SendsInOrder, slice
    <3> QED BY <3>6, <3>7
  <2>4. starts' <= 1 => starts <= 1
    BY <2>1
  <2> QED BY <2>1, <2>2, <2>3, <2>4 DEF Untouched, RunInOrderOnce
<1>5. CASE SendRunsOutOfGas
  <2>0. Current \in Tx
    BY <1>0, <1>5 DEF SendRunsOutOfGas, Busy, TypeOK, Current, Tx
  <2>1. /\ sending.on /\ ~sending'.on /\ Current \in Tx /\ Calls[Current] > 0
        /\ successHashes' = Recorded(successHashes)
        /\ Reject(successHashes', TRUE) /\ UNCHANGED <<ran, starts>>
    BY <1>5, <2>0 DEF SendRunsOutOfGas, Busy, Idle
  <2>2. starts # 0
    BY <2>1 DEF Orderly, Untouched
  <2>3. ASSUME starts <= 1, status' = "retry-tx" PROVE RetriesInOrder'
    <3>1. /\ status = "in-progress" /\ sending.first = Left.first /\ Current = Len(ran) + 1
          /\ successHashes = UpTo(sending.first - 1)
      BY <2>1, <2>3 DEF Orderly, SendsInOrder, Current
    <3>2. successHashes' = UpTo(Current - 1) /\ successHashes' = UpTo(Len(ran))
      <4>1. successHashes' = UpTo(Current - 1)
        BY <1>0, <2>1, <3>1, CallExtendsPrefix
      <4>2. Current - 1 = Len(ran)
        BY <1>a, <3>1
      <4> QED BY <4>1, <4>2
    <3> DEFINE left == [Left EXCEPT !.first = FirstLeft(Left.first, successHashes')]
    <3>3. retryTransactions' = left /\ AbleToIncreaseGas(left)
      BY <2>1, <2>3, <3>1 DEF Reject, Left
    <3>4. Left \in List /\ Left.first \in Tx /\ Current \in Left.first..Size
      BY <1>0, <2>1, <3>1, NoListIsNone DEF Left, TypeOK, Current, Tx
    <3>5. FirstLeft(Left.first, successHashes') = Current
      BY <3>2, <3>4, LeftAfterPrefix
    <3>6. left \in List /\ left.first = Current
      BY <3>4, <3>5 DEF List, Tx
    <3> HIDE DEF left
    <3>7. FirstWithCalls(left) = Current
      <4>1. Current \in WithCalls(left) /\ \A j \in WithCalls(left) : Current <= j
        BY <2>1, <3>4, <3>6 DEF WithCalls, Tx
      <4>2. WithCalls(left) \subseteq Int
        BY <3>4, <3>6 DEF WithCalls, Tx
      <4>3. \A i \in WithCalls(left) : (\A j \in WithCalls(left) : i <= j) => i = Current
        BY <4>1, <4>2
      <4> QED BY <4>1, <4>3 DEF FirstWithCalls
    <3>8. left.gas[Current] < MaxGas
      BY <3>3, <3>7 DEF AbleToIncreaseGas
    <3> QED
      BY <2>1, <3>1, <3>2, <3>3, <3>4, <3>6, <3>7, <3>8 DEF RetriesInOrder, Tx
  <2> QED
    BY <2>1, <2>2, <2>3 DEF Orderly, Untouched, RunInOrderOnce, SendsInOrder, RetriesInOrder
<1>6. CASE SendFails
  <2>0. Current \in Tx
    BY <1>0, <1>6 DEF SendFails, Busy, TypeOK, Current, Tx
  <2>1. /\ sending.on /\ ~sending'.on /\ Current \in Tx /\ starts' = starts
        /\ Reject(successHashes, FALSE) /\ UNCHANGED successHashes
    BY <1>6, <2>0 DEF SendFails, Busy, Idle
  <2>2. starts # 0
    BY <2>1 DEF Orderly, Untouched
  <2>3. ASSUME starts <= 1 PROVE RunInOrderOnce' /\ status' # "retry-tx"
    <3>1. Current = Len(ran) + 1 /\ status = "in-progress"
      BY <2>1, <2>3 DEF Orderly, SendsInOrder, Current
    <3>2. status' # "retry-tx"
      BY <2>1, <3>1 DEF Reject
    <3>3. CASE ran' = ran
      BY <2>1, <3>2, <3>3 DEF Orderly, RunInOrderOnce
    <3>4. CASE ran' = Append(ran, Current)
      BY <1>0, <2>1, <2>3, <3>1, <3>2, <3>4, NextInOrder DEF Orderly, RunInOrderOnce, TypeOK
    <3> QED BY <1>6, <3>3, <3>4 DEF SendFails
  <2> QED
    BY <2>1, <2>2, <2>3 DEF Untouched, RunInOrderOnce, SendsInOrder, RetriesInOrder
<1>7. CASE Finish
  <2>1. /\ sending.on /\ ~sending'.on /\ status' = "success" /\ UNCHANGED <<ran, starts>>
    BY <1>7 DEF Finish, Idle
  <2> QED
    BY <2>1 DEF Orderly, Untouched, RunInOrderOnce, SendsInOrder, RetriesInOrder
<1>8. CASE UNCHANGED vars
  BY <1>8 DEF vars, slice, Orderly, Untouched, RunInOrderOnce, SendsInOrder, RetriesInOrder, Left
<1> QED BY <1>1, <1>2, <1>3, <1>4, <1>5, <1>6, <1>7, <1>8 DEF Next, Sends

\* Retrying for gas sends no transaction twice, skips none and changes no order.
THEOREM RetriesSendOnce == ASSUME Distinct PROVE Spec => []RunInOrderOnce
<1>1. Init => Orderly
  BY OrderlyInit
<1>2. Orderly /\ [Next]_vars => Orderly'
  BY OrderlyStep
<1>3. Orderly => RunInOrderOnce
  BY DEF Orderly
<1> QED BY <1>1, <1>2, <1>3, PTL DEF Spec

\* The retry screen gives more gas to the transaction that ran out of it.
THEOREM RetriesHelp == ASSUME Distinct PROVE Spec => []RetryHelpsTheOneThatFailed
<1>1. Init => Orderly
  BY OrderlyInit
<1>2. Orderly /\ [Next]_vars => Orderly'
  BY OrderlyStep
<1>3. Orderly => RetryHelpsTheOneThatFailed
  BY DEF Orderly, RetriesInOrder, RetryHelpsTheOneThatFailed
<1> QED BY <1>1, <1>2, <1>3, PTL DEF Spec

-----------------------------------------------------------------------------
(* Retries run out: each of them gives more gas, and gas has a limit.      *)

\* The first transaction with calls is one of the list, where there is one.
LEMMA FirstIsThere ==
    ASSUME NEW list \in List, WithCalls(list) # {}
    PROVE  FirstWithCalls(list) \in Tx
<1> DEFINE W == WithCalls(list)
           S == {Size - i : i \in W}
<1>1. Size \in Nat /\ W \subseteq 1..Size
  BY SizeAssumption DEF WithCalls, List
<1>2. S \in SUBSET (0..Size) /\ S # {}
  BY <1>1
<1>3. PICK k \in S : \A j \in S : j <= k
  <2> HIDE DEF S
  <2> QED BY <1>1, <1>2, Greatest
<1>4. PICK i \in W : k = Size - i
  BY <1>3
<1>5. \A j \in W : i <= j
  <2> TAKE j \in W
  <2>1. Size - j <= Size - i
    BY <1>3, <1>4
  <2> QED BY <1>1, <2>1
<1> HIDE DEF W, S
<1>6. \E n \in W : \A j \in W : n <= j
  BY <1>5
<1>7. (CHOOSE n \in W : \A j \in W : n <= j) \in W
  BY <1>6
<1> QED BY <1>1, <1>7 DEF FirstWithCalls, W, Tx

\* More gas is less for none, and more for one when the screen offers it.
LEMMA MoreGasIsMore ==
    ASSUME NEW list \in List
    PROVE  /\ \A i \in Tx : list.gas[i] <= IncreaseGas(list).gas[i]
           /\ AbleToIncreaseGas(list) => \E i \in Tx : list.gas[i] < IncreaseGas(list).gas[i]
<1> DEFINE n == FirstWithCalls(list)
<1>1. list.gas \in [Tx -> Amounts] /\ MaxGas \in Nat /\ Diff \in Nat \ {0}
  BY RequestAssumption DEF List
<1>2. CASE WithCalls(list) = {}
  <2>1. IncreaseGas(list) = list
    BY <1>2 DEF IncreaseGas
  <2> QED BY <1>1, <1>2, <2>1 DEF AbleToIncreaseGas, Amounts
<1>3. CASE WithCalls(list) # {}
  <2>1. n \in Tx
    BY <1>3, FirstIsThere
  <2> HIDE DEF n
  <2>2. IncreaseGas(list).gas = [list.gas EXCEPT ![n] = Raised(n, @)]
    <3>1. IncreaseGas(list) = [list EXCEPT !.gas[n] = Raised(n, @)]
      BY <1>3 DEF IncreaseGas, n
    <3> QED BY <3>1 DEF List
  <2>3. /\ list.gas[n] <= Raised(n, list.gas[n])
        /\ list.gas[n] < MaxGas => list.gas[n] < Raised(n, list.gas[n])
    <3>1. list.gas[n] \in 0..MaxGas
      BY <1>1, <2>1 DEF Amounts
    <3> QED BY <1>1, <3>1 DEF Raised
  <2>4. \A i \in Tx : list.gas[i] <= IncreaseGas(list).gas[i]
    <3> TAKE i \in Tx
    <3>1. list.gas[i] \in 0..MaxGas
      BY <1>1 DEF Amounts
    <3>2. CASE i = n
      BY <1>1, <2>2, <2>3, <3>2
    <3>3. CASE i # n
      BY <1>1, <2>2, <3>1, <3>3
    <3> QED BY <3>2, <3>3
  <2>5. ASSUME AbleToIncreaseGas(list) PROVE list.gas[n] < IncreaseGas(list).gas[n]
    <3>1. list.gas[n] < MaxGas
      BY <2>5 DEF AbleToIncreaseGas, n
    <3> QED BY <1>1, <2>1, <2>2, <2>3, <3>1
  <2> QED BY <2>1, <2>4, <2>5
<1> QED BY <1>2, <1>3

\* The retry screen is only shown for a list that can be given more.
Offers ==
    status = "retry-tx" => retryTransactions \in List /\ AbleToIncreaseGas(retryTransactions)

\* A rejection trims the list and leaves its gas.
LEMMA RejectKeepsGas ==
    ASSUME TypeOK, Distinct, Offers, NEW hashes \in Hash, NEW b \in BOOLEAN, Reject(hashes, b)
    PROVE  /\ Offers'
           /\ retryTransactions'.gas = retryTransactions.gas
           /\ status' # "in-progress" \/ status' = status
<1>1. CASE Overrun(Left.first, hashes)
  BY <1>1 DEF Reject, Left, Offers
<1>2. CASE ~Overrun(Left.first, hashes)
  <2>1. /\ retryTransactions' = [Left EXCEPT !.first = FirstLeft(Left.first, hashes)]
        /\ status' = IF b /\ AbleToIncreaseGas(retryTransactions') THEN "retry-tx" ELSE "error"
    BY <1>2 DEF Reject, Left
  <2>2. Left \in List /\ Left.gas = retryTransactions.gas
    BY NoListIsNone DEF Left, TypeOK, transactions, NoList
  <2>3. retryTransactions' \in List
    <3>1. FirstLeft(Left.first, hashes) \in 1..(Size + 1)
      <4>1. Left.first \in 1..(Size + 1)
        BY <2>2 DEF List
      <4> QED BY <4>1, RemovedIsRecorded, SizeAssumption
    <3> QED BY <2>1, <2>2, <3>1 DEF List
  <2>4. retryTransactions'.gas = Left.gas
    BY <2>1, <2>2 DEF List
  <2>5. status' = "retry-tx" => AbleToIncreaseGas(retryTransactions')
    BY <2>1
  <2> QED BY <2>1, <2>2, <2>3, <2>4, <2>5 DEF Offers
<1> QED BY <1>1, <1>2

LEMMA OffersStep ==
    ASSUME TypeOK, Distinct, Offers, [Next]_vars
    PROVE  /\ Offers'
           /\ retryTransactions' # NoList =>
                 /\ \A i \in Tx : retryTransactions.gas[i] <= retryTransactions'.gas[i]
                 /\ status = "retry-tx" /\ status' = "in-progress" =>
                       \E i \in Tx : retryTransactions.gas[i] < retryTransactions'.gas[i]
<1>t. /\ retryTransactions.gas \in [Tx -> Amounts]
      /\ \A i \in Tx : retryTransactions.gas[i] \in Nat
  BY RequestAssumption DEF TypeOK, List, NoList, Amounts
<1>u. ASSUME retryTransactions'.gas = retryTransactions.gas
      PROVE  \A i \in Tx : retryTransactions.gas[i] <= retryTransactions'.gas[i]
  BY <1>t, <1>u
<1>1. CASE Approve
  BY <1>1 DEF Approve, Offers
<1>2. CASE ApproveRetry
  <2>1. status = "retry-tx" /\ status' = "in-progress"
    BY <1>2 DEF ApproveRetry
  <2>2. retryTransactions \in List /\ AbleToIncreaseGas(retryTransactions)
    BY <2>1 DEF Offers
  <2>3. retryTransactions' = IncreaseGas(retryTransactions)
    BY <1>2, <2>2, NoListIsNone DEF ApproveRetry
  <2> QED BY <2>1, <2>2, <2>3, MoreGasIsMore DEF Offers
<1>3. CASE Reload
  BY <1>3 DEF Reload, Offers
<1>4. CASE SendRuns
  BY <1>4, <1>u DEF SendRuns, slice, Offers
<1>5. CASE SendRunsOutOfGas
  <2>1. successHashes' \in Hash /\ Reject(successHashes', TRUE)
    BY <1>5, HashesAreHashes DEF SendRunsOutOfGas
  <2>2. PICK hashes \in Hash : Reject(hashes, TRUE)
    BY <2>1
  <2> QED BY <1>u, <2>2, RejectKeepsGas
<1>6. CASE SendFails
  <2>1. successHashes \in Hash /\ Reject(successHashes, FALSE)
    BY <1>6 DEF SendFails, TypeOK
  <2> QED BY <1>u, <2>1, RejectKeepsGas
<1>7. CASE Finish
  BY <1>7, <1>u DEF Finish, Offers
<1>8. CASE UNCHANGED vars
  BY <1>8, <1>u DEF vars, slice, Offers
<1> QED BY <1>1, <1>2, <1>3, <1>4, <1>5, <1>6, <1>7, <1>8 DEF Next, Sends

\* Whatever happened before, each retry raises the gas of a call, and none is lowered: with
\* the limit on gas, which SignTypes has, the retries of a request are finitely many.
THEOREM RetriesRunOut == ASSUME Distinct PROVE Spec => EveryRetryGivesMore
<1>1. Init => TypeOK /\ Offers
  BY TypeInit DEF Init, Offers
<1>2. TypeOK /\ Offers /\ [Next]_vars => (TypeOK /\ Offers)'
  BY TypeStep, OffersStep
<1>3. TypeOK /\ Offers /\ [Next]_vars =>
         (retryTransactions' # NoList =>
            /\ \A i \in Tx : retryTransactions.gas[i] <= retryTransactions'.gas[i]
            /\ status = "retry-tx" /\ status' = "in-progress" =>
                  \E i \in Tx : retryTransactions.gas[i] < retryTransactions'.gas[i])
  BY OffersStep
<1> QED BY <1>1, <1>2, <1>3, PTL DEF Spec, EveryRetryGivesMore
=============================================================================
