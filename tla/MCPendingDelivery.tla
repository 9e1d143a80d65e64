-------------------------- MODULE MCPendingDelivery --------------------------
(***************************************************************************)
(* Small instances of PendingDelivery for TLC.                             *)
(*                                                                         *)
(* A run looks at some of three situations, as part says: devices that log *)
(* in while two talks under one client id are handled, with the clock      *)
(* standing still; one device that pages, stores and acknowledges while    *)
(* receipts run out; and talks between three accounts, unrestricted.       *)
(***************************************************************************)
EXTENDS PendingDelivery, TLC

CONSTANTS j1, j2, c1, c2, t1, t2, x, Parts

VARIABLE part

\* Account 2 owns two devices with a channel each, or one; account 1 only sends.
OwnerTwoDevices  == (j1 :> 2) @@ (j2 :> 2)
ChannelPerDevice == (c1 :> j1) @@ (c2 :> j2)
OwnerOneDevice   == j1 :> 2
OneChannel       == c1 :> j1

\* No two accounts share an advisory lock.
DistinctKeys == [a \in Accounts |-> a]

\* A talk its client may send again under the same client id.
OneRetriedTalk == {[sender |-> 1, recv |-> {2}, cid |-> x]}
\* A client id used twice, for two destinations.
ReusedClientId == {[sender |-> 1, recv |-> {2}, cid |-> x], [sender |-> 1, recv |-> {3}, cid |-> x]}
\* Talks without a client id: every one is a message of its own.
PlainTalk == {[sender |-> 1, recv |-> {2}, cid |-> NoCid]}
RetriedOrPlain == OneRetriedTalk \cup PlainTalk
\* The reused client id, and a talk back.
ReusedAndBack == ReusedClientId \cup {[sender |-> 2, recv |-> {1}, cid |-> NoCid]}

\* Every talk in hand is one of S.
Only(S) == \A t \in Txns : pc[t] = "idle" \/ req[t] \in S

MCInit == Init /\ part \in Parts

MCNext ==
  /\ \/ part = "devices" /\ Next /\ now' = now /\ Only(OneRetriedTalk)'
     \/ part = "sync" /\ Next /\ Only(PlainTalk)' /\ pc'[t2] = "idle" /\ cpc'[c2] = "off"
     \/ part = "talks" /\ Next
  /\ UNCHANGED part

MCSpec == MCInit /\ [][MCNext]_<<part, vars>>
MCFairSpec == MCSpec /\ Fairness
=============================================================================
