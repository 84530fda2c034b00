--------------------------- MODULE MCSignRequest ----------------------------
(* Requests for SignRequest: a transfer between two transactions with calls. *)
EXTENDS SignRequest

Batch == <<2, 0, 1, 3>>
AllCalls == <<2, 1, 1, 3>>
DistinctNonces == [i \in Tx |-> i]
LittleGas == [i \in Tx |-> 1]
=============================================================================
