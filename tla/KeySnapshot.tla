---------------------------- MODULE KeySnapshot -----------------------------
(***************************************************************************)
(* What a caller of queryAccessKeyList is promised: "the list is one       *)
(* consistent view. An incomplete list throws". A list that is asked for   *)
(* comes as all the keys the account had in one block, or not at all.      *)
(***************************************************************************)
EXTENDS Naturals, Sequences

CONSTANT Keys

VARIABLES
    blocks,   \* the account's keys in each block so far
    status,   \* "idle", "ask", "done" or "failed"
    keys      \* the list that came back
vars == <<blocks, status, keys>>

Init == /\ \E S \in SUBSET Keys : blocks = <<S>>
        /\ status = "idle" /\ keys = {}

NewBlock == /\ \E S \in SUBSET Keys : blocks' = Append(blocks, S)
            /\ UNCHANGED <<status, keys>>

Asks == /\ status # "ask" /\ status' = "ask" /\ keys' = {}
        /\ UNCHANGED blocks

Answers == /\ status = "ask" /\ status' = "done"
           /\ \E h \in DOMAIN blocks : keys' = blocks[h]
           /\ UNCHANGED blocks

Fails == /\ status = "ask" /\ status' = "failed"
         /\ UNCHANGED <<blocks, keys>>

Next == NewBlock \/ Asks \/ Answers \/ Fails

Spec == Init /\ [][Next]_vars
=============================================================================
