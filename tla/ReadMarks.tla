------------------------------ MODULE ReadMarks ------------------------------
(***************************************************************************)
(* What the read state of one conversation promises its user, whatever the *)
(* devices, pushes and retries in between do: a mark records how far the   *)
(* user has read; each place (the server and every device) keeps one; no   *)
(* place is ever ahead of what the user opened somewhere; and no mark ever *)
(* goes back.                                                              *)
(***************************************************************************)
EXTENDS Naturals

CONSTANTS
    Places,     \* the places that keep a mark
    Server      \* the place the user does not touch

VARIABLES
    opened,     \* the greatest message id the user opened on any device
    mark        \* the mark each place keeps

vars == <<opened, mark>>

Init ==
    /\ opened = 0
    /\ mark = [p \in Places |-> 0]

(* The user reads on a device, up to a message shown there. *)
Open(p) ==
    /\ p # Server
    /\ mark'[p] >= mark[p]
    /\ mark' = [mark EXCEPT ![p] = mark'[p]]
    /\ opened' = IF mark'[p] > opened THEN mark'[p] ELSE opened

(* A place learns of a mark that was made elsewhere. *)
Learn(p) ==
    /\ \E n \in mark[p] .. opened : mark' = [mark EXCEPT ![p] = n]
    /\ UNCHANGED opened

Next == \E p \in Places : Open(p) \/ Learn(p)

Spec == Init /\ [][Next]_vars
=============================================================================
