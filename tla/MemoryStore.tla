----------------------------- MODULE MemoryStore -----------------------------
(***************************************************************************)
(* services/chat/src/store/mod.rs, MemoryMessageStore with pending         *)
(* receipts: each operation as a function of the tables.  A message is     *)
(* [sender, dest, cid, sent]; a destination in Groups is a group, any      *)
(* other one an account.  Contents beyond sender and destination are left  *)
(* out: no operation looks at them.                                        *)
(***************************************************************************)
EXTENDS Integers, Sequences, FiniteSets, FiniteSetsExt, SequencesExt, TLC

CONSTANTS
  Groups,       \* group ids
  Members,      \* Members[g]: the accounts of g, in order
  Devices,      \* devices that may hold receipts (target_id)
  DeviceOwner,  \* DeviceOwner[d]: the account signed in on d
  PageCap,      \* MESSAGE_MAX_COUNT_PER_PAGE
  HistoryCap,   \* clamp_page of history, inbox and bot_pending
  NoCid         \* the empty client id

NoGroup == "none"
Send    == "send"
Recv    == "recv"

\* struct Inner: the tables of the store.
EmptyDb ==
  [contents  |-> <<>>,  \* id -> message
   byAccount |-> {},    \* indexes_by_account
   byMessage |-> {},    \* indexes_by_message
   idem      |-> <<>>,  \* <<sender, client id>> -> id
   reads     |-> <<>>,  \* <<account, conversation>> -> last read id
   versions  |-> <<>>,  \* <<account, conversation>> -> state version
   next      |-> 0,     \* next_version
   pending   |-> {},    \* <<device, id>>: receipts
   acked     |-> {},    \* those with acked_at
   turns     |-> <<>>]  \* <<bot, in_reply_to>> -> reply

Get(f, k, default) == IF k \in DOMAIN f THEN f[k] ELSE default
Set(f, k, v)       == [x \in DOMAIN f \cup {k} |-> IF x = k THEN v ELSE f[x]]

-----------------------------------------------------------------------------
(* Index rows and versions *)

\* account_b for a direct message, the group for a group message
ConvOf(row) == IF row.group = NoGroup THEN row.peer ELSE row.group

BumpVersion(db, a, conv) ==
  [db EXCEPT !.next = @ + 1, !.versions = Set(@, <<a, conv>>, db.next + 1)]

\* Each of the rows in turn: both indexes have it, and its conversation the next
\* version.
PushIndex(db, rows) ==
  LET conv(i) == <<rows[i].acct, ConvOf(rows[i])>>
      given   == [k \in {conv(i) : i \in DOMAIN rows} |->
                    db.next + Max({i \in DOMAIN rows : conv(i) = k})]
  IN  [db EXCEPT !.byAccount = @ \cup ToSet(rows), !.byMessage = @ \cup ToSet(rows),
                 !.next = @ + Len(rows),
                 !.versions = [k \in DOMAIN @ \cup DOMAIN given |->
                                 IF k \in DOMAIN given THEN given[k] ELSE @[k]]]

Row(m, id, a, b, group, dir) ==
  [acct |-> a, peer |-> b, group |-> group, dir |-> dir, id |-> id, sent |-> m.sent]

\* The rows insert writes: both sides of a direct message, every member of a group.
IndexRows(m, id) ==
  IF m.dest \in Groups
  THEN [i \in DOMAIN Members[m.dest] |->
          LET a == Members[m.dest][i]
          IN  Row(m, id, a, m.sender, m.dest, IF a = m.sender THEN Send ELSE Recv)]
  ELSE <<Row(m, id, m.sender, m.dest, NoGroup, Send), Row(m, id, m.dest, m.sender, NoGroup, Recv)>>

AccountRows(db, a)  == {r \in db.byAccount : r.acct = a}
MessageRows(db, id) == {r \in db.byMessage : r.id = id}

-----------------------------------------------------------------------------
(* Fan-out: who a stored message is pushed to *)

\* fanout_from_index_rows: what a duplicate is answered with.
FanoutFromIndexRows(rows) ==
  LET grouped == {r \in rows : r.group # NoGroup}
      sends   == {r \in rows : r.dir = Send}
      g == CHOOSE r \in grouped : TRUE
      s == CHOOSE r \in sends : TRUE
      o == CHOOSE r \in rows : TRUE
  IN  [sender     |-> IF grouped # {} THEN g.peer ELSE IF sends # {} THEN s.acct ELSE o.peer,
       dest       |-> IF grouped # {} THEN g.group ELSE IF sends # {} THEN s.peer ELSE o.acct,
       recipients |-> {r.acct : r \in rows}]

\* fanout_from_write: what the first insert is answered with.
FanoutFromWrite(m) == FanoutFromIndexRows(ToSet(IndexRows(m, 0)))

\* fanout_from_memory fails when the content is gone.
FanoutFromMemory(db, id) == FanoutFromIndexRows(MessageRows(db, id))

-----------------------------------------------------------------------------
(* Inserting *)

RecvAccounts(m) == IF m.dest \in Groups THEN ToSet(Members[m.dest]) \ {m.sender} ELSE {m.dest}

\* or_insert: a receipt that exists keeps its state.
UpsertReceipts(db, id, m, targets) ==
  [db EXCEPT !.pending = @ \cup {<<d, id>> : d \in {t \in targets : DeviceOwner[t] \in RecvAccounts(m)}}]

Claimed(db, m) == m.cid # NoCid /\ <<m.sender, m.cid>> \in DOMAIN db.idem
ClaimOf(db, m) == db.idem[<<m.sender, m.cid>>]

Claim(db, m, id) == IF m.cid = NoCid THEN db ELSE [db EXCEPT !.idem = Set(@, <<m.sender, m.cid>>, id)]

\* Content and index rows.
Write(db, m, id) ==
  PushIndex([db EXCEPT !.contents = Set(@, id, m)], IndexRows(m, id))

\* insert under the write lock: a client id claimed meanwhile makes it a duplicate.
InsertLocked(db, m, id, targets) ==
  IF Claimed(db, m) THEN UpsertReceipts(db, ClaimOf(db, m), m, targets)
  ELSE UpsertReceipts(Write(Claim(db, m, id), m, id), id, m, targets)

-----------------------------------------------------------------------------
(* Receipts *)

Ack(db, d, ids) == [db EXCEPT !.acked = @ \cup (({d} \X ids) \cap db.pending)]

\* backfill_delivery: every row of the account, its own sends included.
Backfill(db, d) ==
  [db EXCEPT !.pending = @ \cup ({d} \X {r.id : r \in AccountRows(db, DeviceOwner[d])})]

\* gc_expired_deliveries removes receipts that have expired.
GcExpired(db, expired) == [db EXCEPT !.pending = @ \ expired, !.acked = @ \ expired]

\* offline_index: a page of unacknowledged receipts; one whose message has no row
\* any more is left out after the page was cut.
OfflineIndex(db, d) ==
  LET waiting == {p[2] : p \in {q \in db.pending \ db.acked : q[1] = d}}
      page    == {i \in waiting : Cardinality({j \in waiting : j < i}) < PageCap}
  IN  [rows |-> {r.id : r \in {q \in AccountRows(db, DeviceOwner[d]) : q.id \in page}},
       more |-> Cardinality(waiting) > PageCap]

\* offline_content: only what the account has an index row for.
OfflineContent(db, a, ids) ==
  {i \in ids : i \in DOMAIN db.contents /\ \E r \in AccountRows(db, a) : r.id = i}

-----------------------------------------------------------------------------
(* Reading *)

\* conversation_state: recomputed from the rows of the conversation.
ConversationState(db, a, conv) ==
  LET rows == {r \in AccountRows(db, a) : ConvOf(r) = conv}
      read == Get(db.reads, <<a, conv>>, 0)
  IN  [read    |-> read,
       max     |-> Max({r.id : r \in rows} \cup {0}),
       unread  |-> Cardinality({r \in rows : r.dir = Recv /\ r.id > read}),
       version |-> Get(db.versions, <<a, conv>>, 0)]

\* inbox folds the account's rows, in the order they were written, into one entry
\* per conversation; the latest is the one sent last.
InboxFold(db, a) ==
  LET newer(r, e) == r.sent > e.sent \/ (r.sent = e.sent /\ r.id > e.last)
      step(acc, r) ==
        LET conv == ConvOf(r)
            old  == Get(acc, conv, [last |-> 0, sent |-> 0, unread |-> 0, max |-> 0])
            read == Get(db.reads, <<a, conv>>, 0)
            up   == [old EXCEPT !.unread = @ + (IF r.dir = Recv /\ r.id > read THEN 1 ELSE 0),
                                !.max    = IF r.id > @ THEN r.id ELSE @]
        IN  Set(acc, conv, IF newer(r, old) THEN [up EXCEPT !.last = r.id, !.sent = r.sent] ELSE up)
  IN  FoldLeft(step, <<>>, SetToSeq(AccountRows(db, a)))

\* history: the newest HistoryCap messages of a conversation before an id.
History(db, a, conv, before) ==
  LET ids == {r.id : r \in {q \in AccountRows(db, a) :
                /\ ConvOf(q) = conv /\ (before <= 0 \/ q.id < before)
                /\ q.id \in DOMAIN db.contents}}
  IN  {i \in ids : Cardinality({j \in ids : j > i}) < HistoryCap}

\* mark_read moves the mark forward only, and gives the conversation a new version.
MarkRead(db, a, conv, id) ==
  IF id <= 0 THEN db
  ELSE BumpVersion([db EXCEPT !.reads = Set(@, <<a, conv>>, Max({id, Get(@, <<a, conv>>, 0)}))], a, conv)

-----------------------------------------------------------------------------
(* Bot threads *)

\* The question of a reply: a direct message of the owner to the bot.
IsQuestion(db, owner, bot, q) ==
  /\ q \in DOMAIN db.contents
  /\ db.contents[q].sender = owner /\ db.contents[q].dest = bot
  /\ \E r \in MessageRows(db, q) : r.acct = owner /\ r.peer = bot /\ r.dir = Send /\ r.group = NoGroup

\* insert_bot_reply, all of it under the write lock.
InsertBotReply(db, bot, q, m, id, targets) ==
  LET turn == <<bot, q>>
  IN  IF ~ IsQuestion(db, m.dest, bot, q) THEN db
      ELSE IF turn \in DOMAIN db.turns THEN db
      ELSE IF Claimed(db, m)
           THEN UpsertReceipts([db EXCEPT !.turns = Set(@, turn, ClaimOf(db, m))], ClaimOf(db, m), m, targets)
      ELSE UpsertReceipts([Write(Claim(db, m, id), m, id) EXCEPT !.turns = Set(@, turn, id)], id, m, targets)

\* bot_pending: the owner's messages to the bot without a turn, oldest first.
BotPending(db, owner, bot) ==
  LET ids == {r.id : r \in {q \in AccountRows(db, owner) :
                /\ q.peer = bot /\ q.dir = Send /\ q.group = NoGroup
                /\ <<bot, q.id>> \notin DOMAIN db.turns
                /\ q.id \in DOMAIN db.contents /\ db.contents[q.id].sender = owner}}
  IN  {i \in ids : Cardinality({j \in ids : j < i}) < HistoryCap}

\* The rows of the direct thread of two accounts.
ThreadRows(rows, a, b) ==
  {r \in rows : r.group = NoGroup /\ ((r.acct = a /\ r.peer = b) \/ (r.acct = b /\ r.peer = a))}

Without(f, S) == [x \in DOMAIN f \ S |-> f[x]]

\* Mutant of PurgePeerDm: client ids of the purged messages stay claimed.
PurgePeerDmKeepsClaims(db, a, b) ==
  LET gone == ThreadRows(db.byAccount, a, b)
      ids  == {r.id : r \in gone}
      keep == db.byMessage \ ThreadRows(db.byMessage, a, b)
      dead == {i \in ids : \A r \in keep : r.id # i}
  IN  [db EXCEPT !.byAccount = @ \ gone, !.byMessage = keep, !.contents = Without(@, dead),
                 !.pending = {p \in @ : p[2] \notin ids}, !.acked = {p \in @ : p[2] \notin ids},
                 !.reads = Without(@, {<<a, b>>, <<b, a>>}), !.versions = Without(@, {<<a, b>>, <<b, a>>}),
                 !.turns = Without(@, {t \in DOMAIN @ : t[1] \in {a, b}})]

\* purge_peer_dm: rows, then contents nobody refers to, receipts, marks, turns, claims.
PurgePeerDm(db, a, b) ==
  LET gone == ThreadRows(db.byAccount, a, b)
      ids  == {r.id : r \in gone}
      keep == db.byMessage \ ThreadRows(db.byMessage, a, b)
      dead == {i \in ids : \A r \in keep : r.id # i}
  IN  [db EXCEPT !.byAccount = @ \ gone, !.byMessage = keep, !.contents = Without(@, dead),
                 !.pending = {p \in @ : p[2] \notin ids}, !.acked = {p \in @ : p[2] \notin ids},
                 !.reads = Without(@, {<<a, b>>, <<b, a>>}), !.versions = Without(@, {<<a, b>>, <<b, a>>}),
                 !.turns = Without(@, {t \in DOMAIN @ : t[1] \in {a, b}}),
                 !.idem = Without(@, {k \in DOMAIN @ : @[k] \in ids /\ k[1] \in {a, b}})]
=============================================================================
