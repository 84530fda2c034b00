\* A payment and transfers from the profile, until everything is claimed.
\* No deadlock check: with the lockup gone and the bounds reached the wallet stops.
CONSTANTS
    Terms <- FewTerms
    Horizon = 4
    Gas = 6
    Fee = 1
    Storage = 1
    Payments = {2}
    Most = 11
    MostStaked = 2
    MaxFaults = 1
SPECIFICATION FairSpec
INVARIANTS TypeOK MovedTokensSuffice
PROPERTIES NothingIsLostWithIt LockedNeverGrows ClaimedInTheEnd
CHECK_DEADLOCK FALSE
