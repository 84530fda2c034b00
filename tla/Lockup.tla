------------------------------- MODULE Lockup ------------------------------
(***************************************************************************)
(* An account whose tokens are partly in a lockup contract                 *)
(* (utils/account-with-lockup.ts): a transaction that the account cannot   *)
(* pay for takes what the contract gives free, and so does the transfer    *)
(* from the profile; a contract with nothing locked is destroyed for the   *)
(* rest.                                                                   *)
(*                                                                         *)
(* `op' goes from one await to the next.  A view is one action; a call is  *)
(* a transaction that the main account pays for, that the contract may     *)
(* refuse, and whose answer may be lost.  Around it time passes, stake     *)
(* earns, tokens come in and the user stakes and withdraws.                *)
(*                                                                         *)
(* The contract is not part of the repository: its functions are modelled  *)
(* from their use, and its own guards against being destroyed are not      *)
(* counted on.  Its locked amount is the wallet's formula for it.          *)
(***************************************************************************)
EXTENDS Integers

CONSTANTS
    Terms,       \* the agreements an instance explores
    Horizon,     \* bounds the time
    Gas,         \* CONFIG.MIN_BALANCE_FOR_GAS
    Fee,         \* what a transaction costs
    Storage,     \* what the contract keeps for its storage
    Payments,    \* what the transactions of an instance deposit
    Most,        \* bounds the tokens of the user
    MostStaked,  \* bounds the stake
    MaxFaults    \* bounds the calls that fail

Agreements ==
    [amount : Nat, withdrawn : Nat, transfers : Nat, duration : Nat, from : Nat,
     release : Nat \ {0}, broken : BOOLEAN, vesting : {"none", "schedule", "terminated"},
     start : Nat, cliff : Nat, end : Nat, unvested : Nat]

\* A schedule is not terminated yet, and no more is taken back than was granted.
Sound(t) ==
    /\ t.unvested + t.withdrawn <= t.amount
    /\ t.vesting = "schedule" => t.withdrawn = 0 /\ t.start <= t.cliff /\ t.cliff < t.end

\* Five calls are made before the user's transaction is: what a payment leaves for
\* gas has to cover them and the transaction. (300 Tgas of 0.05 NEAR.)
ASSUME LockupAssumption ==
    /\ Gas \in Nat /\ Fee \in Nat /\ 6 * Fee <= Gas
    /\ Storage \in Nat /\ Payments \subseteq Nat
    /\ {Most, MostStaked, MaxFaults, Horizon} \subseteq Nat
    /\ Terms \subseteq Agreements /\ \A t \in Terms : Sound(t)

VARIABLES
    now, terms,
    main,        \* what the main account has available
    exists,      \* the lockup account
    held,        \* its balance
    staked, known, rewards, pool,   \* in a staking pool; as the contract last knew;
                                    \* farmed there and unclaimed; which one is selected
    enabled,     \* the contract has seen that transfers were voted for
    op,
    faults

contract == <<held, staked, known, rewards, pool, enabled>>
chain == <<main, exists, contract>>
vars == <<now, terms, chain, op, faults>>

Idle == [kind |-> "none", pc |-> "idle", total |-> 0, missing |-> 0,
         pool |-> FALSE, liquid |-> 0, known |-> 0]

Larger(a, b) == IF a >= b THEN a ELSE b
Less(a, b) == IF a >= b THEN a - b ELSE 0

-----------------------------------------------------------------------------
(* The amounts.                                                            *)

Start(t) == Larger(t.transfers + t.duration, t.from)

\* Contracts of an early version count the release from the vote.
End(t) == (IF t.broken THEN t.transfers ELSE Start(t)) + t.release

Unreleased(t, n) ==
    IF n <= End(t) THEN (t.amount * (End(t) - n)) \div t.release ELSE 0

Unvested(t, n) ==
    CASE t.vesting = "terminated" -> t.unvested
      [] t.vesting = "schedule" ->
            IF n < t.cliff THEN t.amount
            ELSE IF n >= t.end THEN 0
            ELSE (t.amount * (t.end - n)) \div (t.end - t.start)
      [] OTHER -> 0

\* Mutant: what was withdrawn on a termination is taken off before the start only.
LockedUntilStart(t, n) ==
    IF n >= Start(t)
    THEN Larger(Unreleased(t, n), Unvested(t, n))
    ELSE t.amount - t.withdrawn

LockedAmount(t, n) ==
    IF n >= Start(t)
    THEN Larger(Less(Unreleased(t, n), t.withdrawn), Unvested(t, n))
    ELSE t.amount - t.withdrawn

Locked == LockedAmount(terms, now)
VotedFor == now >= terms.transfers

\* get_liquid_owners_balance.
Liquid == LET free == Less(held, Storage)
              own  == Less(held + known, Storage + Locked)
          IN  IF free <= own THEN free ELSE own

\* What the profile offers for transfer.
LiquidShown ==
    IF ~VotedFor THEN 0
    ELSE IF Locked = 0 /\ staked = 0 /\ ~(pool /\ rewards) THEN held
    ELSE Liquid

-----------------------------------------------------------------------------
(* What a transaction does, if the contract takes it.                      *)

Charges == main >= Fee /\ main' = main - Fee

Votes ==
    /\ op.pc = "vote" /\ Charges
    /\ enabled' = (enabled \/ VotedFor)
    /\ UNCHANGED <<exists, held, staked, known, rewards, pool>>

\* Mutant: the contract is not asked to look at its stake again.
RefreshesNothing == op.pc = "refresh" /\ Charges /\ UNCHANGED <<exists, contract>>

Refreshes ==
    /\ op.pc = "refresh" /\ Charges
    /\ known' = staked
    /\ UNCHANGED <<exists, held, staked, rewards, pool, enabled>>

Transfers ==
    /\ op.pc = "transfer" /\ enabled /\ op.liquid <= Liquid
    /\ main >= Fee /\ main' = main - Fee + op.liquid
    /\ held' = held - op.liquid
    /\ UNCHANGED <<exists, staked, known, rewards, pool, enabled>>

Unselects ==
    /\ op.pc = "unselect" /\ pool /\ Charges
    /\ pool' = FALSE
    /\ UNCHANGED <<exists, held, staked, known, rewards, enabled>>

\* The key is one that only this call of deleteLockupAccount holds.
AddsKey == op.pc = "addKey" /\ Charges /\ UNCHANGED <<exists, contract>>

Deletes ==
    /\ op.pc = "delete"
    /\ exists' = FALSE /\ held' = 0 /\ main' = main + held
    /\ UNCHANGED <<staked, known, rewards, pool, enabled>>

Pays ==
    /\ op.pc = "send" /\ main >= op.total + Fee
    /\ main' = main - op.total - Fee
    /\ UNCHANGED <<exists, contract>>

Takes == Votes \/ Refreshes \/ Transfers \/ Unselects \/ AddsKey \/ Deletes \/ Pays

-----------------------------------------------------------------------------
(* The steps of an operation.                                              *)

Ends == op' = Idle
GoesTo(pc) == op' = [op EXCEPT !.pc = pc]
Views == UNCHANGED <<now, terms, chain, faults>>

\* Mutant: nothing is kept back for the calls on the way.
PayWithoutReserve(total) ==
    /\ op = Idle
    /\ op' = [Idle EXCEPT !.kind = "pay", !.total = total, !.missing = Less(total, main),
                          !.pc = IF total > main THEN "exists" ELSE "send"]
    /\ Views

\* Mutant: whatever is missing, less than nothing too, is asked of the lockup.
PayAskingAlways(total) ==
    /\ op = Idle
    /\ op' = [Idle EXCEPT !.kind = "pay", !.pc = "exists", !.total = total,
                          !.missing = total + Gas - main]
    /\ Views

\* signAndSendTransaction: what is missing, and whether there is a lockup.
StartPay(total) ==
    /\ op = Idle
    /\ op' = [Idle EXCEPT !.kind = "pay", !.total = total,
                          !.missing = Less(total + Gas, main),
                          !.pc = IF total + Gas > main THEN "exists" ELSE "send"]
    /\ Views

AsksExists == op.pc = "exists" /\ GoesTo(IF exists THEN "enabled" ELSE "send") /\ Views

\* The banner of the profile.
StartClaim ==
    /\ op = Idle /\ exists /\ LiquidShown > 0
    /\ op' = [Idle EXCEPT !.kind = "claim", !.pc = "enabled"]
    /\ Views

AsksEnabled == op.pc = "enabled" /\ GoesTo(IF enabled THEN "pool" ELSE "vote") /\ Views

AsksPool ==
    /\ op.pc = "pool"
    /\ op' = [op EXCEPT !.pool = pool, !.pc = IF pool THEN "refresh" ELSE "liquid"]
    /\ Views

\* Everything that is free is moved; it has to be more than what is missing.
AsksLiquid ==
    /\ op.pc = "liquid"
    /\ IF op.kind = "pay" /\ Liquid <= op.missing
       THEN Ends
       ELSE op' = [op EXCEPT !.liquid = Liquid,
                             !.pc = IF Liquid > 0 THEN "transfer" ELSE "locked"]
    /\ Views

Done == IF op.kind = "pay" THEN GoesTo("send") ELSE Ends

AsksLocked ==
    /\ op.pc = "locked"
    /\ IF Locked = 0 THEN GoesTo("known") ELSE Done
    /\ Views

AsksKnown ==
    /\ op.pc = "known"
    /\ op' = [op EXCEPT !.pc = "rewards", !.known = known]
    /\ Views

\* Mutant: a pool that is selected is always left.
AsksRewardsOfEveryPool ==
    /\ op.pc = "rewards"
    /\ IF op.known # 0 \/ (op.pool /\ rewards) THEN Ends ELSE GoesTo("unselect")
    /\ Views

AsksRewards ==
    /\ op.pc = "rewards"
    /\ IF op.known # 0 \/ (op.pool /\ rewards)
       THEN Ends
       ELSE GoesTo(IF op.pool THEN "unselect" ELSE "addKey")
    /\ Views

\* A transaction that is taken and whose answer comes.
Called ==
    /\ Takes
    /\ CASE op.pc = "vote"     -> GoesTo("pool")
         [] op.pc = "refresh"  -> GoesTo("liquid")
         [] op.pc = "transfer" -> GoesTo("locked")
         [] op.pc = "unselect" -> GoesTo("addKey")
         [] op.pc = "addKey"   -> GoesTo("delete")
         [] op.pc = "delete"   -> Done
         [] op.pc = "send"     -> Ends
    /\ UNCHANGED <<now, terms, faults>>

\* One that cannot be paid for, or that the contract refuses.
Refused ==
    /\ \/ op.pc \in {"vote", "refresh", "transfer", "unselect", "addKey"} /\ main < Fee
       \/ op.pc = "transfer" /\ (~enabled \/ op.liquid > Liquid)
       \/ op.pc = "unselect" /\ ~pool
       \/ op.pc = "send" /\ main < op.total + Fee
    /\ Ends
    /\ Views

\* A view or a transaction fails, or its answer is lost, or the page is reloaded.
Fault ==
    /\ op # Idle /\ faults < MaxFaults
    /\ Takes \/ UNCHANGED chain
    /\ Ends
    /\ faults' = faults + 1
    /\ UNCHANGED <<now, terms>>

Step == AsksExists \/ AsksEnabled \/ AsksPool \/ AsksLiquid \/ AsksLocked \/ AsksKnown
            \/ AsksRewards \/ Called \/ Refused

-----------------------------------------------------------------------------
(* What goes on around it.                                                 *)

Outside == UNCHANGED <<terms, exists, op, faults>>
TokensCome == main + held + staked < Most

Tick == now < Horizon /\ now' = now + 1 /\ Outside /\ UNCHANGED <<main, contract>>

Receives == TokensCome /\ main' = main + 1 /\ Outside /\ UNCHANGED <<now, contract>>

\* Stake earns, and its pool may farm tokens for it.
Earns ==
    /\ 0 < staked /\ staked < MostStaked /\ TokensCome
    /\ staked' = staked + 1 /\ rewards' \in {rewards, TRUE}
    /\ Outside /\ UNCHANGED <<now, main, held, known, pool, enabled>>

\* The staking pages, when no operation is under way: a deposit from the lockup, a
\* withdrawal to it, the farmed tokens.
Stakes(k) ==
    /\ op = Idle /\ exists /\ k <= Less(held, Storage) /\ staked + k <= MostStaked
    /\ held' = held - k /\ staked' = staked + k /\ known' = known + k /\ pool' = TRUE
    /\ Outside /\ UNCHANGED <<now, main, rewards, enabled>>

Withdraws(k) ==
    /\ op = Idle /\ exists /\ k <= staked
    /\ held' = held + k /\ staked' = staked - k /\ known' = Less(known, k)
    /\ Outside /\ UNCHANGED <<now, main, rewards, pool, enabled>>

ClaimsRewards ==
    /\ op = Idle /\ exists /\ rewards
    /\ rewards' = FALSE
    /\ Outside /\ UNCHANGED <<now, main, held, staked, known, pool, enabled>>

-----------------------------------------------------------------------------
Init ==
    /\ now = 0 /\ terms \in Terms
    /\ main \in 0 .. Less(Most, Storage + terms.amount)
    /\ exists = TRUE /\ held = Storage + terms.amount
    /\ staked = 0 /\ known = 0 /\ rewards = FALSE /\ pool = FALSE
    /\ enabled = FALSE
    /\ op = Idle /\ faults = 0

Next ==
    \/ \E total \in Payments : StartPay(total)
    \/ StartClaim \/ Step \/ Fault
    \/ Tick \/ Receives \/ Earns \/ ClaimsRewards
    \/ \E k \in 1 .. MostStaked : Stakes(k) \/ Withdraws(k)

Spec == Init /\ [][Next]_vars

\* Every await ends.
FairSpec == Spec /\ WF_vars(Step)

-----------------------------------------------------------------------------
(* Properties.                                                             *)

Stages == {"idle", "exists", "enabled", "vote", "pool", "refresh", "liquid", "transfer",
           "locked", "known", "rewards", "unselect", "addKey", "delete", "send"}

\* Amounts are never negative.
TypeOK ==
    /\ now \in Nat /\ terms \in Terms
    /\ main \in Nat /\ held \in Nat /\ staked \in Nat /\ known \in Nat
    /\ exists \in BOOLEAN /\ rewards \in BOOLEAN /\ pool \in BOOLEAN /\ enabled \in BOOLEAN
    /\ op \in [kind : {"none", "pay", "claim"}, pc : Stages, total : Nat, missing : Nat,
               pool : BOOLEAN, liquid : Nat, known : Nat]
    /\ faults \in Nat

\* What was moved suffices: when the lockup has given tokens for a payment, the main
\* account can pay it and its gas, whatever the calls on the way have cost.
MovedTokensSuffice == op.pc = "send" /\ op.liquid > 0 => main >= op.total + Fee

\* A lockup is destroyed only when nothing is locked in it or staked from it and no
\* farmed tokens are left with its pool: the contract's knowledge of its stake may be
\* old, the pool was asked for some awaits earlier, and what was found may be left over
\* from an operation that was cut.
NothingIsLostWithIt == [][exists /\ ~exists' => Locked = 0 /\ staked = 0 /\ ~rewards]_vars

\* The locked amount never grows, over the vote, the start and the end of the release,
\* the cliff and the end of vesting, for contracts of both versions.
LockedNeverGrows == [][LockedAmount(terms', now') <= LockedAmount(terms, now)]_<<now, terms>>

\* An operation that was cut between any two calls is taken up where it stopped: who
\* goes on transferring what a free lockup offers gets all of it.
Claimable ==
    Locked = 0 /\ VotedFor /\ staked = 0 /\ ~rewards /\ main >= 5 * Fee
ClaimedInTheEnd ==
    <>[](exists => Claimable) /\ []<>(op.kind = "claim" \/ ~exists) => <>~exists
=============================================================================
