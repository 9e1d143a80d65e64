----------------------------- MODULE MCSessions ------------------------------
(* Sessions for TLC: every channel hashes to the first chat instance, so    *)
(* that a sign-out goes elsewhere only when the adult instances change.     *)
EXTENDS Sessions

CONSTANTS x1, x2

AllToOne == [c \in Channels |-> x1]
=============================================================================
