--------------------------- MODULE MCExecTransact ---------------------------
(* Small instances of ExecTransact for TLC. *)
EXTENDS ExecTransact, TLC

\* strcasecmp tells all groups apart
FoldDistinct == [g \in Groups |-> g]
=============================================================================
