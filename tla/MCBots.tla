------------------------------- MODULE MCBots -------------------------------
(***************************************************************************)
(* Bots for TLC: one owner, one group, one device.  The same run checks    *)
(* the agent profiles these bots stand for (AgentSpecs), on two devices    *)
(* whose clocks differ.  The two share nothing: every behaviour is one of  *)
(* the one module or of the other, as part says, with the other at rest.   *)
(***************************************************************************)
EXTENDS Bots, AgentSpecs

CONSTANTS
  u1, g1, d1, s1, s2, acc1, acc2

VARIABLE part

GroupOfOne == g1 :> <<u1>>
OwnersDevice == d1 :> u1

(* The clock of s2 is ahead of that of s1. *)
Ahead == [d \in SpecDevices |-> IF d = s2 THEN 1 ELSE 0]

Scene == [session |-> [d \in SpecDevices |-> acc1], actors |-> {s1}, kinds |-> {"spec", "acct"},
          edits |-> 2, syncs |-> 2, starts |-> 0, imported |-> TRUE, backend |-> "memory"]

(* Two devices and one kind of record, on either backend; one device and   *)
(* both kinds; one device whose session is started, switched and stopped.  *)
AllScenes ==
  {[Scene EXCEPT !.actors = SpecDevices, !.kinds = {"spec"}, !.syncs = 3],
   [Scene EXCEPT !.actors = SpecDevices, !.kinds = {"acct"}]} \cup
  {[Scene EXCEPT !.actors = SpecDevices, !.kinds = {k}, !.backend = "postgres"]
     : k \in {"spec", "acct"}} \cup
  {[Scene EXCEPT !.imported = FALSE]} \cup
  {[Scene EXCEPT !.session = [@ EXCEPT ![s1] = a], !.kinds = {k}, !.starts = 2]
     : a \in {NoAccount, acc1}, k \in {"spec", "acct"}}

MCInit ==
  \/ part = "bots" /\ BotsInit /\ SpecsInit /\ scene = [Scene EXCEPT !.imported = FALSE]
  \/ part = "specs" /\ SpecsInit /\ BotsInit /\ pg
     /\ bots = (1 :> [owner |-> u1, prof |-> CHOOSE p \in ProfileIds : TRUE,
                      cfg |-> CHOOSE c \in Configs : TRUE])

MCNext ==
  \/ part = "bots" /\ BotsNext /\ UNCHANGED <<part, specVars>>
  \/ part = "specs" /\ SpecsNext /\ UNCHANGED <<part, botVars>>

MCSpec == MCInit /\ [][MCNext]_<<part, botVars, specVars>>
=============================================================================
