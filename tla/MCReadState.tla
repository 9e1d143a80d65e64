---------------------------- MODULE MCReadState ----------------------------
(***************************************************************************)
(* ReadState for TLC: two devices of one account.  The same run checks the *)
(* requests a device makes of the service (Requests): one task calls any   *)
(* one method of the client while another asks for histories.  A behaviour *)
(* is one of ReadState or one of Requests, as part says, with the other at *)
(* rest.  Requests may come to their bound; ReadState has to go on.        *)
(***************************************************************************)
EXTENDS ReadState, Requests

VARIABLE part

(* The message with the greater id was sent first. *)
Reversed == [m \in Ids |-> MaxId - m]

(* Caller c has not called before. *)
Once(c) == calls'[c].seq # calls[c].seq => calls[c].at = "idle"

AnyAndReader == "any" :> DOMAIN Methods @@ "reader" :> {"history"}

(* What the client encodes and decodes (wire.rs) is what the handlers read *)
(* and answer.                                                             *)
ASSUME TablesAssumption == TablesAgree

MCInit == part \in {"read", "requests"} /\ Init /\ RequestsInit

MCNext ==
  \/ part = "read" /\ Next /\ UNCHANGED <<part, requestVars>>
  \/ /\ part = "requests" /\ (RequestsNext \/ UNCHANGED requestVars)
     /\ Once("any")
     /\ UNCHANGED <<part, vars>>

MCSpec == MCInit /\ [][MCNext]_<<part, vars, requestVars>>

=============================================================================
