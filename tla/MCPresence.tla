----------------------------- MODULE MCPresence -----------------------------
(***************************************************************************)
(* Presence for TLC.  The same run checks the accounts whose presence it   *)
(* is (Accounts: passwords, tokens, devices at royal and the gateway) and  *)
(* the calls that carry them (RoyalCalls: signed requests and sealed       *)
(* passwords).  The three share nothing: every behaviour is one of one     *)
(* module, as part says, with the others at rest.                          *)
(***************************************************************************)
EXTENDS Presence, RoyalCalls, Accounts

VARIABLE part

(* A new account, one write of it may fail; an account whose password is   *)
(* changed by two requests; one whose tokens expire; one with a single     *)
(* token at the gateway.                                                   *)
FreshScene == [fresh |-> TRUE, gate |-> FALSE, tokens |-> 2, ops |-> 3, faults |-> 1, time |-> 0]
AccountScenes ==
  {FreshScene,
   [FreshScene EXCEPT !.fresh = FALSE, !.faults = 0],
   [FreshScene EXCEPT !.fresh = FALSE, !.ops = 2, !.time = TTL + 1],
   [fresh |-> FALSE, gate |-> TRUE, tokens |-> 1, ops |-> 2, faults |-> 0, time |-> TTL + 1]}

(* A sender's clock may be off by more than the skew allowed. *)
ClockOffsets == -(MAX_SKEW_SECS + 1) .. MAX_SKEW_SECS + 1
ClockBounds == [signed |-> 20, sealed |-> 7]

AccountsAtRest == AccountsInit /\ scene = FreshScene /\ redis
CallsAtRest == CallsInit /\ topic = "sealed" /\ clock = 2 * MAX_SKEW_SECS

MCInit ==
  /\ Init
  /\ \/ part = "presence" /\ AccountsAtRest /\ CallsAtRest
     \/ part = "accounts" /\ AccountsInit /\ CallsAtRest
     \/ part = "calls" /\ AccountsAtRest /\ CallsInit

MCNext ==
  \/ part = "presence" /\ Next /\ UNCHANGED <<part, accountVars, callVars>>
  \/ part = "accounts" /\ AccountsNext /\ UNCHANGED <<part, vars, callVars>>
  \/ part = "calls" /\ CallsNext /\ UNCHANGED <<part, vars, accountVars>>

MCSpec == MCInit /\ [][MCNext]_<<part, vars, accountVars, callVars>> /\ WF_vars(HubStep)
=============================================================================
