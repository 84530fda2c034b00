------------------------------ MODULE MCLockup -----------------------------
(* Instances of Lockup for TLC. *)
EXTENDS Lockup

Free == [amount |-> 2, withdrawn |-> 0, transfers |-> 1, duration |-> 0, from |-> 0,
         release |-> 1, broken |-> FALSE, vesting |-> "none",
         start |-> 0, cliff |-> 0, end |-> 0, unvested |-> 0]

\* Linear release, of both versions of the contract; a cliff; a termination.
FewTerms ==
    {[Free EXCEPT !.duration = 1, !.release = 2],
     [Free EXCEPT !.from = 3, !.release = 4, !.broken = TRUE],
     [Free EXCEPT !.vesting = "schedule", !.start = 0, !.cliff = 2, !.end = 4],
     [Free EXCEPT !.vesting = "terminated", !.withdrawn = 1, !.unvested = 1]}
=============================================================================
