--------------------------- MODULE MCInquiryCall ---------------------------
(* Small instances of InquiryCall for TLC. *)
EXTENDS InquiryCall, TLC

\* Account groups and connections are only compared for equality.
Symmetry == Permutations(Groups) \cup Permutations(Fds)
=============================================================================
