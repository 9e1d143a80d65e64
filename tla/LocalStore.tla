----------------------------- MODULE LocalStore -----------------------------
(***************************************************************************)
(* One conversation of an account in the SDK's SQLite file, and the        *)
(* account's contacts, as functions of the tables.  A row is keyed by the  *)
(* client id of an own message, <<"c", n>>, or by the server's message id, *)
(* <<"m", n>>; `mid` is the message id, 0 while the server has not given   *)
(* one.  Unread counters and read marks are in ReadState.                  *)
(***************************************************************************)
EXTENDS Integers, FiniteSets, FiniteSetsExt

CONSTANTS MAX_MESSAGES,   \* rows a conversation keeps
          AtOf(_)         \* the send time of a message id

EmptyThread == [there |-> FALSE, tip |-> 0, lastAt |-> 0]
EmptyDb == [rows |-> {}, outbox |-> "none", thread |-> EmptyThread, group |-> FALSE]

(* ORDER BY at, key; a client id sorts before "m...".                      *)
Before(r, s) ==
  \/ r.at < s.at
  \/ r.at = s.at /\ r.key[1] = "c" /\ s.key[1] = "m"
  \/ r.at = s.at /\ r.key[1] = s.key[1] /\ r.key[2] < s.key[2]

Newest(rows, n) == {r \in rows : Cardinality({s \in rows : Before(r, s)}) < n}
Oldest(rows) == CHOOSE r \in rows : \A s \in rows \ {r} : Before(r, s)
Sent(rows) == {r \in rows : r.status = "sent"}
Pending(rows) == {r \in rows : r.status \in {"sending", "failed"}}
CountSent(db) == Cardinality(Sent(db.rows))
MaxMessageId(db) == Max({0} \cup {r.mid : r \in db.rows})
ServerTip(db) == IF db.thread.there THEN db.thread.tip ELSE 0

(* Rows the outbox still works on stay, whatever their age. *)
Prune(db) ==
  [db EXCEPT !.rows =
    {r \in @ : \/ r.key[1] = "c" /\ db.outbox \notin {"none", "sent"}
               \/ r \in Newest(@, MAX_MESSAGES)}]

(* A client id that is queued again keeps the message id of its row. *)
InsertOwn(db, c, now) ==
  LET old == {r \in db.rows : r.key = <<"c", c>>}
  IN [db EXCEPT !.rows = (@ \ old) \cup
        {[key |-> <<"c", c>>, mid |-> Max({0} \cup {r.mid : r \in old}), at |-> now,
          status |-> "sending"]}]

UpsertOnSend(db, now) ==
  [db EXCEPT !.thread = [@ EXCEPT !.there = TRUE, !.lastAt = Max({@, now})]]

PersistEnqueue(db, c, now) ==
  Prune(UpsertOnSend([InsertOwn(db, c, now) EXCEPT !.outbox = "pending"], now))

(* The row a pushed or fetched message merges into: the one with its       *)
(* message id or the one with its key, the client's key preferred.         *)
MergesInto(db, n) == {r \in db.rows : r.mid = n \/ r.key = <<"m", n>>}
Survivor(found) ==
  CHOOSE r \in found : r.key[1] = "c" \/ \A s \in found : s.key[1] = "m"

MergeStored(prev, n) == [prev EXCEPT !.mid = n, !.at = AtOf(n), !.status = "sent"]

ApplyTalk(db, n) ==
  LET found == MergesInto(db, n)
      merged == IF found = {}
                THEN [key |-> <<"m", n>>, mid |-> n, at |-> AtOf(n), status |-> "sent"]
                ELSE MergeStored(Survivor(found), n)
  IN [db EXCEPT !.rows = (@ \ found) \cup {merged}]

ApplyIncoming(db, n) ==
  [db EXCEPT !.thread = [there |-> TRUE, tip |-> Max({@.tip, n}),
                         lastAt |-> Max({@.lastAt, AtOf(n)})]]

(* A message that changes no row leaves the thread alone. *)
PersistTalk(db, n) ==
  IF ApplyTalk(db, n) = db THEN db ELSE ApplyIncoming(ApplyTalk(db, n), n)

PersistTalks(db, ids) ==
  LET all == FoldSet(LAMBDA n, d : PersistTalk(d, n), db, ids)
  IN IF all = db THEN db ELSE Prune(all)

(* The inbox list brings the tip, and its own time even if it is older. *)
PersistInboxItem(db, tip) ==
  [db EXCEPT !.thread = [there |-> TRUE, tip |-> Max({@.tip, tip}),
                         lastAt |-> IF tip = 0 THEN @.lastAt ELSE AtOf(tip)]]

(* The thread of a group, next to the conversation modelled. *)
EnsureThread(db) == [db EXCEPT !.group = TRUE]

(* The unique index on (account, dest, message_id) refuses a second row.   *)
Twin(db, c, n) == \E r \in db.rows : r.mid = n /\ r.key # <<"c", c>>
MarkSentRefused(db, c, n) ==
  Twin(db, c, n) /\ \E r \in db.rows : r.key = <<"c", c>>

MarkSent(db, c, n) ==
  [db EXCEPT !.outbox = IF @ = "none" THEN @ ELSE "sent",
             !.rows = {IF r.key = <<"c", c>>
                       THEN [r EXCEPT !.status = "sent", !.mid = n] ELSE r : r \in @}]

MarkFailed(db, c) ==
  [db EXCEPT !.outbox = IF @ = "none" THEN @ ELSE "failed",
             !.rows = {IF r.key = <<"c", c>> THEN [r EXCEPT !.status = "failed"] ELSE r
                       : r \in @}]

(* The outbox row and the message of the client id go. *)
Cancel(db, c) == [db EXCEPT !.outbox = "none", !.rows = {r \in @ : r.key # <<"c", c>>}]

(* Only what is still to be sent, or has failed, is queued again. *)
RequeueRefused(db) == db.outbox \notin {"pending", "failed"}
Requeue(db, c) ==
  [db EXCEPT !.outbox = "pending",
             !.rows = {IF r.key = <<"c", c>> THEN [r EXCEPT !.status = "sending"] ELSE r
                       : r \in @}]

DeleteThread(db) == [EmptyDb EXCEPT !.group = db.group]

(* Rows strictly before a row, a page at a time, and whether there are more. *)
LoadPage(db, before, limit) ==
  LET older == {r \in db.rows : Before(r, before)}
  IN [rows |-> Newest(older, limit), more |-> Cardinality(older) > limit]

LoadHotWindow(db, limit) ==
  [sent |-> Newest(Sent(db.rows), limit), pending |-> Pending(db.rows),
   more |-> CountSent(db) > limit]

(* The hot window, and the sent rows from the bound on once one is set. *)
LoadTimelineWindow(db, limit, bound) ==
  LET hot == LoadHotWindow(db, limit)
      older == {r \in Sent(db.rows) : \E b \in bound : r = b \/ ~Before(r, b)}
  IN [rows |-> hot.sent \cup older \cup hot.pending, more |-> hot.more]

-----------------------------------------------------------------------------
(* Contacts: the relation of each peer, "none" without a row. *)

(* A request this device sent, and the server does not list yet, stays. *)
ReplaceContacts(contacts, server) ==
  [p \in DOMAIN contacts |->
     IF server[p] = "none" /\ contacts[p] = "outgoing" THEN "outgoing" ELSE server[p]]

UpsertOne(contacts, p, relation) == [contacts EXCEPT ![p] = relation]
DeletePeer(contacts, p) == [contacts EXCEPT ![p] = "none"]

-----------------------------------------------------------------------------
(* The change log: one slot that holds the queries touched by the commits  *)
(* of one session stamp, an account and an epoch.                          *)
NoNotice == [stamp |-> <<"", 0>>, queries |-> {}, clear |-> FALSE]

Effect(queries) == [queries |-> queries, clear |-> FALSE]
ContactsReplaced == [queries |-> {"contacts"}, clear |-> TRUE]

(* Mutant: the notice of the same stamp is replaced as well. *)
RecordLast(slot, stamp, effect) ==
  IF effect.queries = {} THEN slot
  ELSE [stamp |-> stamp, queries |-> effect.queries, clear |-> effect.clear]

(* A notice of the same stamp grows; one of another stamp is replaced. *)
Record(slot, stamp, effect) ==
  IF effect.queries = {} THEN slot
  ELSE IF slot.stamp = stamp
       THEN [slot EXCEPT !.queries = @ \cup effect.queries, !.clear = @ \/ effect.clear]
       ELSE [stamp |-> stamp, queries |-> effect.queries, clear |-> effect.clear]

(* What a record makes the slot forget. *)
Displaced(slot, stamp, effect) ==
  IF effect.queries = {} \/ slot.stamp = stamp THEN {}
  ELSE {<<slot.stamp, q>> : q \in slot.queries}
=============================================================================
