---------------------------- MODULE MCKeyListing ----------------------------
EXTENDS KeyListing

CONSTANTS n1, n2

\* One more connection than attempts: the third is never asked.
TwoAndOne == <<n1, n2, n1>>
=============================================================================
