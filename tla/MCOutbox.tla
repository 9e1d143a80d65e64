------------------------------ MODULE MCOutbox ------------------------------
(***************************************************************************)
(* Outbox for TLC, in two situations, as part says: one plain message      *)
(* while sessions of two accounts start and stop, so that workers of two   *)
(* sessions overlap; and one session that sends an image and a bot's       *)
(* reply, which are cancelled at any time and brought back by pages after  *)
(* they were enqueued again.                                               *)
(***************************************************************************)
EXTENDS Outbox

CONSTANTS a1, a2, plain, image, reply, d1, d2

VARIABLE part

FirstOwns == [i \in Ids |-> a1]
ToTwo     == [i \in Ids |-> IF i = plain THEN d1 ELSE d2]

\* No command names another message.
Only(S) == doomed \subseteq S /\ \A i \in Ids \ S : status[i] = "none"

\* No page brings message i back while its row waits.
NotBack(i) == status[i] = "sent" \/ msg[i] # "sent"

MCInit == Init /\ part \in {"switch", "rows"}

MCNext ==
  /\ \/ part = "switch" /\ Next /\ Only({plain})' /\ NotBack(plain)' /\ doomed' = {}
     \/ part = "rows" /\ Next /\ Only({image, reply})' /\ tok' <= 1 /\ cmdAcct' # a2
  /\ UNCHANGED part

MCSpec == MCInit /\ [][MCNext]_<<part, vars>>
=============================================================================
