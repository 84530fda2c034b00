-------------------------- MODULE MCNewKeyTransfer --------------------------
(* Instances of NewKeyTransfer for TLC. *)
EXTENDS NewKeyTransfer, TLC

OneSelection == {Accounts}
OneByOne == {{a} : a \in Accounts}
Symmetric == Permutations(Accounts) \union Permutations(Transfers)
AnySelection == (SUBSET Accounts) \ {{}}
=============================================================================
