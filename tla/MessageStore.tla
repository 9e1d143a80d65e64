----------------------------- MODULE MessageStore -----------------------------
(***************************************************************************)
(* What a message store promises, whatever keeps it: the trait             *)
(* services/chat/src/store/mod.rs MessageStore as its callers rely on it.  *)
(* A message, the claim on its client id and its first receipts appear in  *)
(* one step; a client id that stands for a message is never given to       *)
(* another while that message exists; a receipt, once acknowledged, is     *)
(* never pending again.  PendingDelivery (Postgres) and Bots (both         *)
(* backends, with purges) implement it.                                    *)
(***************************************************************************)
EXTENDS Integers

CONSTANTS Devices, Ids, NoCid

VARIABLES
  stored,    \* <<id, sender, client id>> of the messages the store holds
  claims,    \* <<sender, client id, id>>: the message a client id stands for
  receipts,  \* <<device, id>>: a receipt row
  acked      \* <<device, id>>: the acknowledged ones

storeVars == <<stored, claims, receipts, acked>>

StoredIds == {m[1] : m \in stored}

Init ==
  /\ acked \subseteq receipts
  /\ \A c \in claims : <<c[3], c[1], c[2]>> \in stored
  /\ \A c, d \in claims : c[1] = d[1] /\ c[2] = d[2] => c = d

Taken(sender, cid) == \E c \in claims : c[1] = sender /\ c[2] = cid

\* A message is stored under a fresh id, with the claim on its client id unless it
\* has none or another message has it, and with receipts for some devices.
Insert ==
  \E m \in stored' \ stored :
    /\ m[1] \in Ids \ StoredIds
    /\ stored' = stored \cup {m}
    /\ claims' = claims \cup (IF m[3] = NoCid \/ Taken(m[2], m[3]) THEN {} ELSE {<<m[2], m[3], m[1]>>})
    /\ receipts \subseteq receipts' /\ receipts' \subseteq receipts \cup (Devices \X {m[1]})
    /\ acked' = acked

\* A repeated talk or a login adds receipts and nothing else. A repeated talk may
\* find its message purged in between: no index offers the receipt it leaves then.
AddReceipts ==
  /\ receipts \subseteq receipts' /\ receipts' \subseteq receipts \cup (Devices \X Ids)
  /\ UNCHANGED <<stored, claims, acked>>

\* A device acknowledges receipts it has.
Acknowledge ==
  /\ acked \subseteq acked' /\ acked' \subseteq receipts
  /\ UNCHANGED <<stored, claims, receipts>>

\* Expired receipts are collected, acknowledged or not.
Collect ==
  /\ receipts' \subseteq receipts /\ acked' = acked \cap receipts'
  /\ UNCHANGED <<stored, claims>>

\* A thread is purged: messages go with their claims and their receipts.
Purge ==
  /\ stored' \subseteq stored
  /\ claims' = {c \in claims : <<c[3], c[1], c[2]>> \in stored'}
  /\ receipts' = {r \in receipts : r[2] \notin {m[1] : m \in stored \ stored'}}
  /\ acked' = acked \cap receipts'

Next == Insert \/ AddReceipts \/ Acknowledge \/ Collect \/ Purge

Spec == Init /\ [][Next]_storeVars
=============================================================================
