---------------------------- MODULE SignRequest ----------------------------
(***************************************************************************)
(* A dApp's request to sign and send a batch of transactions               *)
(* (redux/slices/sign, redux/reducers/sign, routes/SignWrapper.js and      *)
(* Wallet.signAndSendTransactions): the user approves, the transactions go *)
(* out one after the other, and when one runs out of gas the user may      *)
(* approve the rest again with more gas.                                   *)
(*                                                                         *)
(* The list to send is always the end of the request, so a list is where   *)
(* it starts and the gas its transactions have.  Left out: private shards, *)
(* the amounts and fees shown, and requests with several signers or for an *)
(* account the wallet lacks, which the page refuses.  The account cannot   *)
(* be switched while the page is open (slices/flowLimitation).             *)
(***************************************************************************)
EXTENDS Naturals, Sequences

CONSTANTS
    Size,           \* the number of transactions of the request
    Nonce,          \* of each, as the dApp chose it
    Calls,          \* how many function calls each makes
    Gas,            \* what the dApp gave each call of a transaction
    Diff, MaxGas,   \* RETRY_TX_GAS
    MaxStarts       \* bound: how often the whole request is approved

Tx == 1..Size
Amounts == 0..MaxGas

ASSUME SizeAssumption == Size \in Nat \ {0}
ASSUME RequestAssumption ==
    /\ Calls \in [Tx -> Nat] /\ MaxGas \in Nat /\ Diff \in Nat \ {0}
    /\ Gas \in [Tx -> Amounts]
    /\ DOMAIN Nonce = Tx
ASSUME BoundAssumption == MaxStarts \in Nat

VARIABLES
    \* the slice
    status,
    successHashes,       \* the transactions whose hashes were recorded
    retryTransactions,
    transactionHashes,   \* what a success hands to the dApp
    \* signAndSendTransactions
    sending,             \* the list it works on and the next transaction
    \* what happened
    ran,                 \* the transactions that took effect, in order
    starts               \* how often the whole request was approved

slice == <<status, successHashes, retryTransactions, transactionHashes>>
vars == <<slice, sending, ran, starts>>

-----------------------------------------------------------------------------
(* Lists of transactions.                                                  *)

transactions == [first |-> 1, gas |-> Gas]
NoList == [first |-> 0, gas |-> Gas]

\* getFirstTransactionWithFunctionCallAction
WithCalls(list) == {i \in list.first..Size : Calls[i] > 0}
FirstWithCalls(list) == CHOOSE i \in WithCalls(list) : \A j \in WithCalls(list) : i <= j

RaisedUncapped(i, gas) == IF Calls[i] = 1 THEN MaxGas ELSE gas + Diff   \* mutant

\* A single call gets all there is, several get a little more each.
Raised(i, gas) == IF Calls[i] = 1 \/ gas + Diff > MaxGas THEN MaxGas ELSE gas + Diff

\* increaseGasForFirstTransaction
IncreaseGas(list) ==
    IF WithCalls(list) = {} THEN list
    ELSE [list EXCEPT !.gas[FirstWithCalls(list)] = Raised(FirstWithCalls(list), @)]

AlwaysAble(list) == WithCalls(list) # {}   \* mutant: the gas it has is not looked at

\* checkAbleToIncreaseGas
AbleToIncreaseGas(list) ==
    WithCalls(list) # {} /\ list.gas[FirstWithCalls(list)] < MaxGas

\* The transactions first..last occur in this order, by their nonces, among the hashes.
Found(first, last, hashes) ==
    \E at \in [first..last -> DOMAIN hashes] :
        /\ \A i \in first..last : Nonce[hashes[at[i]]] = Nonce[i]
        /\ \A i, j \in first..last : i < j => at[i] < at[j]

Kept(first, hashes) == first   \* mutant: nothing is removed

OneTooMany(first, hashes) ==   \* mutant: the transaction that failed is removed too
    IF hashes = <<>> THEN first ELSE hashes[Len(hashes)] + 2

\* removeSuccessTransactions compares each hash in turn with the head of the list.
FirstLeft(first, hashes) ==
    CHOOSE k \in first..(Size + 1) :
        /\ Found(first, k - 1, hashes)
        /\ k <= Size => ~Found(first, k, hashes)

\* It reads the nonce of the head of an empty list, and throws, when hashes are left
\* after the last transaction.
Overrun(first, hashes) ==
    hashes # <<>> /\ Found(first, Size, SubSeq(hashes, 1, Len(hashes) - 1))

-----------------------------------------------------------------------------
(* The page.                                                               *)

Idle == [on |-> FALSE, first |-> 1, next |-> 1]

Init ==
    /\ status = "needs-confirmation" /\ successHashes = <<>>
    /\ retryTransactions = NoList /\ transactionHashes = <<>>
    /\ sending = Idle /\ ran = <<>> /\ starts = 0

SendFrom(list) ==
    sending' = [on |-> TRUE, first |-> list.first, next |-> list.first]

\* The page offers the approval again after an error, and a popup keeps it on the
\* screen for a while after a success: the pending reducer then drops the list left.
Approve ==
    /\ status \in {"needs-confirmation", "error", "success"} /\ starts < MaxStarts
    /\ starts' = starts + 1
    /\ retryTransactions' = NoList
    /\ SendFrom(transactions)
    /\ status' = "in-progress"
    /\ UNCHANGED <<successHashes, transactionHashes, ran>>

ApproveRetry ==
    /\ status = "retry-tx"
    /\ LET left == IF retryTransactions = NoList THEN transactions ELSE retryTransactions IN
       /\ retryTransactions' = IncreaseGas(left)
       /\ SendFrom(IF left.first > Size THEN transactions ELSE left)
    /\ status' = "in-progress"
    /\ UNCHANGED <<successHashes, transactionHashes, ran, starts>>

\* A refresh parses the request from the address again.
Reload ==
    /\ status' = "needs-confirmation" /\ successHashes' = <<>>
    /\ retryTransactions' = NoList /\ transactionHashes' = <<>>
    /\ sending' = Idle
    /\ UNCHANGED <<ran, starts>>

-----------------------------------------------------------------------------
(* Sending.                                                                *)

Current == sending.next
Busy == sending.on /\ Current <= Size
Hashes == [i \in 1..(Current - sending.first) |-> sending.first + i - 1]

Recorded(hashes) == hashes \o Hashes

\* The rejected reducer; when it throws, the slice stays as it is.
Reject(hashes, outOfGas) ==
    LET list == IF retryTransactions = NoList THEN transactions ELSE retryTransactions
        left == [list EXCEPT !.first = FirstLeft(list.first, hashes)]
    IN IF Overrun(list.first, hashes) THEN UNCHANGED <<status, retryTransactions>>
       ELSE /\ retryTransactions' = left
            /\ status' = IF outOfGas /\ AbleToIncreaseGas(left) THEN "retry-tx" ELSE "error"

SendRuns ==
    /\ Busy
    /\ ran' = Append(ran, Current)
    /\ sending' = [sending EXCEPT !.next = @ + 1]
    /\ UNCHANGED <<slice, starts>>

\* The error carries the hashes so far.
SendRunsOutOfGas ==
    /\ Busy /\ Calls[Current] > 0
    /\ successHashes' = Recorded(successHashes)
    /\ Reject(successHashes', TRUE)
    /\ sending' = Idle
    /\ UNCHANGED <<transactionHashes, ran, starts>>

\* Any other error, with the transaction on chain or not, loses the hashes.
SendFails ==
    /\ Busy
    /\ \/ UNCHANGED ran
       \/ ran' = Append(ran, Current)
    /\ Reject(successHashes, FALSE)
    /\ sending' = Idle
    /\ UNCHANGED <<successHashes, transactionHashes, starts>>

Finish ==
    /\ sending.on /\ Current > Size
    /\ successHashes' = Recorded(successHashes)
    /\ transactionHashes' = successHashes'
    /\ status' = "success"
    /\ sending' = Idle
    /\ UNCHANGED <<retryTransactions, ran, starts>>

Sends == SendRuns \/ SendRunsOutOfGas \/ SendFails \/ Finish

Next == Approve \/ ApproveRetry \/ Reload \/ Sends

Spec == Init /\ [][Next]_vars

\* A call ends, and the user does not leave a retry unanswered.
FairSpec == Spec /\ WF_vars(Sends) /\ WF_vars(ApproveRetry)

-----------------------------------------------------------------------------
(* Properties.                                                             *)

Hash == Seq(Tx)
Occurs(i, hashes) == \E n \in DOMAIN hashes : hashes[n] = i
List == [first : 1..(Size + 1), gas : [Tx -> Amounts]]

\* Every part of the slice holds what the code expects there; no call is given more
\* gas than the most a call may have.
TypeOK ==
    /\ status \in {"needs-confirmation", "in-progress", "retry-tx", "success", "error"}
    /\ successHashes \in Hash /\ transactionHashes \in Hash /\ ran \in Hash
    /\ retryTransactions \in List \cup {NoList}
    /\ sending \in [on : BOOLEAN, first : Tx, next : 1..(Size + 1)]
    /\ sending.first <= sending.next
    /\ starts \in 0..MaxStarts

\* However often the user retries for gas, every transaction takes effect in the order
\* of the request and once (the list a rejected call leaves to send).
RunInOrderOnce == starts <= 1 => \A i \in DOMAIN ran : ran[i] = i

\* The screen that offers more gas offers it to the transaction that ran out of it,
\* and never to one that has all the gas there is.
RetryHelpsTheOneThatFailed ==
    status = "retry-tx" /\ starts <= 1 =>
        /\ FirstWithCalls(retryTransactions) = Len(ran) + 1
        /\ retryTransactions.first = Len(ran) + 1
        /\ retryTransactions.gas[Len(ran) + 1] < MaxGas

\* A success is reported only when every transaction of the request took effect, over
\* however many attempts and fresh starts, and with a hash of each.
SuccessIsComplete ==
    status = "success" => \A i \in Tx : Occurs(i, ran) /\ Occurs(i, transactionHashes)

\* No retry is for nothing: from one attempt to the next no call has less gas, and the
\* retry screen gives one of them more, whatever was approved anew, lost or recorded
\* before. Since gas has a limit, the screen cannot come back without end.
EveryRetryGivesMore ==
    [][ retryTransactions' # NoList =>
           /\ \A i \in Tx : retryTransactions.gas[i] <= retryTransactions'.gas[i]
           /\ status = "retry-tx" /\ status' = "in-progress" =>
                 \E i \in Tx : retryTransactions.gas[i] < retryTransactions'.gas[i] ]_vars

\* A user who keeps answering the retry screen gets to a result: neither the retries
\* nor a call in progress last forever.  Only a popup approved once more after its
\* success may hang (Overrun).
RetriesEnd == <>[](status \in {"in-progress", "retry-tx"} => transactionHashes # <<>>)
=============================================================================
