------------------------- MODULE MCRequestTransact -------------------------
(* Small instances of RequestTransact for TLC. *)
EXTENDS RequestTransact, TLC

\* Account groups are only compared for equality.
GroupSymmetry == Permutations(Groups)
=============================================================================
