------------------------- MODULE MCStoreTransactions -------------------------
(***************************************************************************)
(* Small instances of StoreTransactions: two blocks of two or three rows   *)
(* and two lone audit records.                                             *)
(***************************************************************************)
EXTENDS StoreTransactions, TLC

CONSTANTS correct, delete, denial, search

MCBlock == {correct, delete}
MCSingle == {denial, search}
OneSingle == {denial}

CallsAreAlike == Permutations(MCBlock) \cup Permutations(MCSingle)
==============================================================================
