------------------------- MODULE MCResponseTransact -------------------------
(* Small instances of ResponseTransact for TLC. *)
EXTENDS ResponseTransact

CONSTANTS g1, g2, n1, n2

\* One group has answers on the first day, the other on the second; or both on one day.
FilesTwoDays == {<<1, g1>>, <<2, g2>>}
FilesOneDay  == {<<1, g1>>, <<1, g2>>}

\* Requests were numbered across the groups: the datakeys of the groups' files
\* of a day lie between one another.
Keys == [e \in Files \X LineNums |->
            KeyBase * e[1][1] + 2 * e[2] + (IF e[1][2] = g1 THEN 0 ELSE 1)]

\* All lines are the first service's, but for the last line of the second group.
Names1 == [e \in Files \X LineNums |-> IF e[1][2] = g2 /\ e[2] = MaxLines THEN n2 ELSE n1]

\* A service that takes all groups from the start, and one that takes the first
\* group behind its first line.
LoginsAll == {[account_group |-> All, name |-> n1, datakey |-> KeyBase],
              [account_group |-> g1, name |-> n1, datakey |-> KeyBase + 2]}
=============================================================================
