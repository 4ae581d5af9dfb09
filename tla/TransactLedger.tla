--------------------------- MODULE TransactLedger ---------------------------
(***************************************************************************)
(* What the executor is for, without threads, files and restarts: every    *)
(* queue file has a position, its lines are handled one after the other    *)
(* from there, and a kill of a worker that has a line in its hands costs   *)
(* either that line's record or, when it hits the rewriting of the line    *)
(* file, the whole position of that file.                                  *)
(***************************************************************************)
EXTENDS Naturals, Sequences

CONSTANT Files

VARIABLES
    lines,      \* number of lines queued in each file
    position,   \* lines handled and remembered
    handled,    \* every line handled, in the order it happened
    rewound     \* files whose position was ever set back

vars == <<lines, position, handled, rewound>>

Init ==
    /\ lines = [f \in Files |-> 0]
    /\ position = [f \in Files |-> 0]
    /\ handled = [f \in Files |-> <<>>]
    /\ rewound = {}

Queue(f) ==
    /\ lines' = [lines EXCEPT ![f] = @ + 1]
    /\ UNCHANGED <<position, handled, rewound>>

Handle(f) ==
    /\ position[f] < lines[f]
    /\ position' = [position EXCEPT ![f] = @ + 1]
    /\ handled' = [handled EXCEPT ![f] = Append(@, position[f] + 1)]
    /\ UNCHANGED <<lines, rewound>>

SetBack(S) ==
    /\ rewound' = rewound \cup S
    /\ position' \in [Files -> Nat]
    /\ \A f \in Files : \/ f \in S /\ position'[f] \in {0, position[f] - 1}
                        \/ f \notin S /\ position'[f] = position[f]
    /\ UNCHANGED <<lines, handled>>

Next ==
    \/ \E f \in Files : Queue(f) \/ Handle(f)
    \/ \E S \in SUBSET Files : SetBack(S)

Spec == Init /\ [][Next]_vars
=============================================================================
