-------------------------- MODULE MCSendNodeEvent --------------------------
(* A small instance of SendNodeEvent for TLC. *)
EXTENDS SendNodeEvent

\* A service that begins with the first day, and one that had its first event.
LoginKeysTwo == {KeyBase, KeyBase + 1}
=============================================================================
