------------------------------- MODULE MCAuth -------------------------------
(***************************************************************************)
(* Instances of Auth for TLC: one address in two spellings, and time in    *)
(* half seconds.                                                           *)
(***************************************************************************)
EXTENDS Auth, TLC

CONSTANTS ada, Ada   \* the address in lower case, and as it was typed

MCLower == [s \in {ada, Ada} |-> ada]

Symmetric == Permutations(Calls)

=============================================================================
