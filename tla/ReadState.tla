------------------------------ MODULE ReadState ------------------------------
(***************************************************************************)
(* How far one account has read one conversation, on the server and on     *)
(* each of its devices.                                                    *)
(*                                                                         *)
(* The server keeps the index of the conversation's messages, the read     *)
(* cursor (conversation_reads) and a materialised inbox row whose unread   *)
(* counter is maintained by every insert and every read.  A device keeps a *)
(* local watermark, what it last heard of the server's state, a thread row *)
(* with an unread badge, and whether the conversation is on screen.  A     *)
(* worker sends the watermark to the server.                               *)
(*                                                                         *)
(* Modelled from the chat service (inbox handlers, postgres store), the    *)
(* client (mark_read_state and the dispatch of its answer) and the SDK     *)
(* (read_sync, watermarks, threads, the store's read transactions).  One   *)
(* conversation is enough: the code keys every row by conversation.        *)
(***************************************************************************)
EXTENDS Naturals, FiniteSets, FiniteSetsExt

CONSTANTS
    Devices,        \* the account's devices
    Used,           \* the devices the user touches, whose links come and go;
                    \* to the others a lost push is one still on its way
    Server,         \* the server, as a place that keeps a read mark
    MaxId,          \* message ids are 1 .. MaxId
    SendTime,       \* send_time of each message, read from the clock before
                    \* its id is drawn, so it need not follow the ids
    MaxInFlight     \* bound on pushes, requests and pages on their way at once

ASSUME ReadAssumption ==
    /\ MaxId \in Nat /\ MaxInFlight \in Nat
    /\ Server \notin Devices /\ Used \subseteq Devices

ASSUME SendTimeAssumption == SendTime \in [1 .. MaxId -> Nat]

Ids == 1 .. MaxId
None == [none |-> TRUE]

VARIABLES
    index,      \* message_index: ids stored in this conversation
    own,        \* those of them the account sent itself (direction SEND)
    lastRead,   \* conversation_reads.last_read_id
    inbox,      \* conversation_inbox: row, unread, max, last
    dev,        \* the tables and the screen of each device
    online,     \* devices with a live connection
    call,       \* the id the read worker of a device is waiting on, or 0
    reqs,       \* inbox.read requests on their way to the server
    talks,      \* message pushes on their way to each device
    syncs,      \* read-state pushes on their way to each device
    page,       \* inbox page a device has fetched and not yet stored
    opened      \* the greatest id the user opened on any device (history)

serverVars == <<index, own, lastRead, inbox>>
netVars == <<reqs, talks, syncs, page>>
vars == <<serverVars, dev, online, call, netVars, opened>>

Larger(a, b) == IF a >= b THEN a ELSE b
Tip(S) == IF S = {} THEN 0 ELSE Max(S)

SumOf(f) == MapThenSumSet(LAMBDA d : Cardinality(f[d]), Devices)

(* What is on its way between the server and the devices. *)
InFlight ==
    Cardinality(reqs) + Cardinality({d \in Devices : page[d] # None})
        + SumOf(talks) + SumOf(syncs)

(***************************************************************************)
(* The server.                                                             *)
(***************************************************************************)
UnreadIn(ids, upTo) == Cardinality({m \in ids \ own : m > upTo})

(* load_conversation_state: the cursor and the greatest id.  The unread    *)
(* count it carries is stored by the devices and never read back, and its  *)
(* version orders states only for an answer to the device's own read,      *)
(* which no device receives.                                               *)
ConversationState == [read |-> lastRead, max |-> Larger(inbox.max, Tip(index))]

(* The order in which upsert_inbox_rows replaces the last message:         *)
(* (send_time, id), not the id alone.                                      *)
Newer(m, n) == SendTime[m] > SendTime[n] \/ (SendTime[m] = SendTime[n] /\ m > n)

(* Mutant: a message is counted without looking at the read cursor. *)
UpsertInboxIgnoresCursor(m) ==
    [row |-> TRUE,
     unread |-> IF m \in own' THEN inbox.unread ELSE inbox.unread + 1,
     max |-> Larger(inbox.max, m),
     last |-> IF ~inbox.row \/ Newer(m, inbox.last) THEN m ELSE inbox.last]

(* upsert_inbox_rows for one new message: a first message creates the row, *)
(* a later one adds to the counter only if it lies above the read cursor.  *)
UpsertInbox(m) ==
    [row |-> TRUE,
     unread |-> IF m \in own' THEN inbox.unread
                ELSE IF ~inbox.row \/ m > lastRead THEN inbox.unread + 1
                ELSE inbox.unread,
     max |-> Larger(inbox.max, m),
     last |-> IF ~inbox.row \/ Newer(m, inbox.last) THEN m ELSE inbox.last]

(* A message is stored.  Ids are drawn before the inbox lock is taken, so  *)
(* messages of two senders may be stored out of id order.                  *)
Insert(m) ==
    /\ m \notin index
    /\ InFlight + Cardinality(online) <= MaxInFlight
    /\ index' = index \cup {m}
    /\ own' \in {own, own \cup {m}}
    /\ inbox' = UpsertInbox(m)
    /\ talks' = [d \in Devices |-> IF d \in online THEN talks[d] \cup {m} ELSE talks[d]]
    /\ UNCHANGED <<lastRead, dev, online, call, reqs, syncs, page, opened>>

(* Mutant: the cursor is overwritten instead of raised. *)
StoreMarkReadOverwrites(m) ==
    /\ lastRead' = m
    /\ inbox' = IF inbox.row
                THEN [inbox EXCEPT !.unread = UnreadIn(index, lastRead'),
                                   !.max = Larger(@, Tip(index))]
                ELSE inbox
    /\ UNCHANGED <<index, own>>

(* MessageStore::mark_read: the cursor only moves forward; the counter is  *)
(* recomputed from the index.                                              *)
StoreMarkRead(m) ==
    /\ lastRead' = Larger(lastRead, m)
    /\ inbox' = IF inbox.row
                THEN [inbox EXCEPT !.unread = UnreadIn(index, lastRead'),
                                   !.max = Larger(@, Tip(index))]
                ELSE inbox
    /\ UNCHANGED <<index, own>>

(* do_inbox_read: the answer goes to the caller's connection, whose pump   *)
(* knows no waiter for this kind of answer, so the worker keeps waiting;   *)
(* the new state is pushed to the account's other devices.                 *)
DoInboxRead(r) ==
    /\ r \in reqs
    /\ reqs' = reqs \ {r}
    /\ StoreMarkRead(r.id)
    /\ syncs' = [d \in Devices |->
                    IF d \in online \ {r.dev} /\ (inbox.row \/ lastRead' > 0)
                    THEN syncs[d] \cup {ConversationState'}
                    ELSE syncs[d]]
    /\ UNCHANGED <<dev, online, call, talks, page, opened>>

(* A store error answers with a status, which the pump does route: the     *)
(* call ends and the watermark is due again after a back-off.              *)
DoInboxReadFails(r) ==
    /\ r \in reqs
    /\ reqs' = reqs \ {r}
    /\ call' = [call EXCEPT ![r.dev] = IF @ = r.id THEN 0 ELSE @]
    /\ UNCHANGED <<serverVars, dev, online, talks, syncs, page, opened>>

(* MessageStore::inbox, default read path: one row aggregated from the     *)
(* index.                                                                  *)
InboxEntry ==
    [last |-> Tip(index), read |-> lastRead, max |-> Larger(inbox.max, Tip(index)),
     unread |-> UnreadIn(index, lastRead)]

(* inbox_materialized: the same entry read from the conversation_inbox row. *)
InboxMaterialized ==
    [last |-> inbox.last, read |-> lastRead, max |-> inbox.max,
     unread |-> inbox.unread]

(* do_inbox_list, called by the sync engine of a device after login, over  *)
(* either read path (KIM_INBOX_MATERIALIZED).                              *)
DoInboxList(d) ==
    /\ d \in online
    /\ page[d] = None
    /\ index # {}
    /\ InFlight < MaxInFlight
    /\ \E e \in {InboxEntry, InboxMaterialized} : page' = [page EXCEPT ![d] = e]
    /\ UNCHANGED <<serverVars, dev, online, call, reqs, talks, syncs, opened>>

(***************************************************************************)
(* The tables of a device.  A record v of dev holds read_watermarks (read), *)
(* conversation_read_state (srv, known), the thread row (thread, unread,   *)
(* last), the stored message ids (msgs) and what is on screen (fg).        *)
(* confirmed_message_id stays 0: only the answer to mark_read_state raises *)
(* it, and the pump never delivers that answer.  A watermark above it is   *)
(* due; the back-off that delays it is time, which is not modelled.        *)
(* server_max_message_id and server_unread are never read back.            *)
(***************************************************************************)
EmptyDevice ==
    [read |-> 0, srv |-> 0, known |-> 0,
     thread |-> FALSE, unread |-> 0, last |-> 0, msgs |-> {}, fg |-> FALSE]

EffectiveRead(v) == Larger(v.read, v.srv)
KnownTip(v) == Larger(Larger(v.last, v.known), Tip(v.msgs))

SetUnread(v, n) == IF v.thread THEN [v EXCEPT !.unread = n] ELSE v

BumpKnownMax(v, m) == [v EXCEPT !.known = Larger(@, m)]

AdvanceId(v, m) == BumpKnownMax([v EXCEPT !.read = Larger(@, m)], m)

(* queue_sync: the row is due at once, whatever its back-off was. *)
QueueSync(v, m) == [v EXCEPT !.read = Larger(@, m)]

(* watermarks::advance: the badge is cleared only if the tip was reached. *)
Advance(v, m) ==
    LET a == AdvanceId(v, m)
        w == QueueSync(a, EffectiveRead(a))
    IN  IF EffectiveRead(a) >= KnownTip(w) THEN SetUnread(w, 0) ELSE w

(* mark_thread_read_tx: everything the device knows of is read, whether    *)
(* it has been downloaded or not.                                          *)
MarkThreadRead(v) ==
    IF KnownTip(v) = 0 THEN v
    ELSE LET a == AdvanceId(v, KnownTip(v))
         IN  SetUnread(QueueSync(a, EffectiveRead(a)), 0)

(* watermarks::apply_server_state with from_own_ack = FALSE: every cursor  *)
(* moves forward only, and the badge is cleared once the tip is read.      *)
ApplyServerState(v, s) ==
    LET w == [v EXCEPT !.srv = Larger(@, s.read),
                       !.known = Larger(@, Larger(s.max, s.read)),
                       !.read = Larger(@, s.read)]
    IN  IF EffectiveRead(w) >= KnownTip(w)
        THEN SetUnread(w, 0)
        ELSE w

(* Mutant: the page's count replaces the badge. *)
MergedUnreadOverwrites(v, p) == p.unread

(* threads::merged_unread for an inbox entry p over the device's state v. *)
MergedUnread(v, p) ==
    LET eff == Larger(EffectiveRead(v), p.read)
        tip == Larger(Larger(p.max, p.last), v.last)
    IN  IF eff > 0 /\ tip > 0 /\ eff >= tip THEN 0
        ELSE IF EffectiveRead(v) > p.read /\ v.thread /\ v.unread = 0 THEN 0
        ELSE p.unread

PersistInboxItem(v, p) ==
    [v EXCEPT !.thread = TRUE, !.unread = MergedUnread(v, p), !.last = Larger(@, p.last)]

(* persist_talks_tx for one message: stored once; counted as unread only   *)
(* when it is new, from the peer, above the watermark, pushed live and not *)
(* on screen; on screen it is read at once.                                *)
PersistTalk(v, m, live) ==
    LET inserted == m \notin v.msgs
        delta == IF live /\ inserted /\ m \notin own /\ ~v.fg /\ m > EffectiveRead(v)
                 THEN 1 ELSE 0
        stored == BumpKnownMax([v EXCEPT !.msgs = @ \cup {m}], m)
        shown == AdvanceId(stored, m)
        seen == IF v.fg
                THEN SetUnread(QueueSync(shown, EffectiveRead(shown)), 0)
                ELSE stored
    IN  IF inserted \/ v.fg
        THEN [seen EXCEPT !.thread = TRUE, !.unread = @ + delta, !.last = Larger(@, m)]
        ELSE seen

(* outbox::delete_thread drops the thread and its messages.  The watermark *)
(* goes only when the server has confirmed it, which never happens here;   *)
(* conversation_read_state is kept.                                        *)
DropThread(v) ==
    [v EXCEPT !.thread = FALSE, !.unread = 0, !.last = 0, !.msgs = {}]

(***************************************************************************)
(* The actions of a device.                                                *)
(***************************************************************************)
Note(d) == opened' = Larger(opened, EffectiveRead(dev'[d]))

(* A live push is stored by the session's persist worker. *)
PersistPush(d) ==
    /\ \E m \in talks[d] :
        /\ dev' = [dev EXCEPT ![d] = PersistTalk(@, m, TRUE)]
        /\ talks' = [talks EXCEPT ![d] = @ \ {m}]
    /\ IF dev[d].fg THEN Note(d) ELSE UNCHANGED opened
    /\ UNCHANGED <<serverVars, online, call, reqs, syncs, page>>

(* An offline page or a history page is stored under UnreadPolicy::Keep. *)
PersistSynced(d) ==
    /\ d \in online
    /\ \E m \in index \ dev[d].msgs : dev' = [dev EXCEPT ![d] = PersistTalk(@, m, FALSE)]
    /\ IF dev[d].fg THEN Note(d) ELSE UNCHANGED opened
    /\ UNCHANGED <<serverVars, online, call, netVars>>

(* persist_inbox_tx: the read state of the page first, then its thread row. *)
PersistInbox(d) ==
    /\ page[d] # None
    /\ LET p == page[d]
           s == [read |-> p.read, max |-> Larger(p.max, p.last)]
       IN  dev' = [dev EXCEPT ![d] = PersistInboxItem(ApplyServerState(@, s), p)]
    /\ page' = [page EXCEPT ![d] = None]
    /\ UNCHANGED <<serverVars, online, call, reqs, talks, syncs, opened>>

(* The session bridge applies a read-state push of another device. *)
ApplyRemoteRead(d) ==
    /\ \E s \in syncs[d] :
        /\ dev' = [dev EXCEPT ![d] = ApplyServerState(@, s)]
        /\ syncs' = [syncs EXCEPT ![d] = @ \ {s}]
    /\ UNCHANGED <<serverVars, online, call, reqs, talks, page, opened>>

(* KimSdk::mark_read: the app reports a message id that became visible. *)
MarkRead(d) ==
    /\ \E m \in dev[d].msgs :
        /\ dev[d].unread > 0 \/ m > EffectiveRead(dev[d])
        /\ dev' = [dev EXCEPT ![d] = Advance(@, m)]
    /\ Note(d)
    /\ UNCHANGED <<serverVars, online, call, netVars>>

(* KimSdk::set_conversation_visibility: a report that shows the            *)
(* conversation reads all of it.  Reports older than the last one are      *)
(* ignored by their generation, so the accepted ones are any sequence.     *)
SetVisibility(d) ==
    /\ \E fg \in BOOLEAN :
        LET v == [dev[d] EXCEPT !.fg = fg]
        IN  dev' = [dev EXCEPT ![d] = IF fg THEN MarkThreadRead(v) ELSE v]
    /\ IF dev'[d].fg THEN Note(d) ELSE UNCHANGED opened
    /\ UNCHANGED <<serverVars, online, call, netVars>>

DeleteThread(d) ==
    /\ dev[d].thread
    /\ dev' = [dev EXCEPT ![d] = DropThread(@)]
    /\ UNCHANGED <<serverVars, online, call, netVars, opened>>

(* read_sync::pump_once: the worker takes what is due and waits for the    *)
(* answer of mark_read_state; offline it returns and tries at a later tick. *)
DueRead(v) == v.read > 0

PumpOnce(d) ==
    /\ d \in online
    /\ call[d] = 0
    /\ DueRead(dev[d])
    /\ InFlight < MaxInFlight
    /\ call' = [call EXCEPT ![d] = dev[d].read]
    /\ reqs' = reqs \cup {[dev |-> d, id |-> dev[d].read]}
    /\ UNCHANGED <<serverVars, dev, online, talks, syncs, page, opened>>

LinkUp(d) ==
    /\ d \notin online
    /\ online' = online \cup {d}
    /\ UNCHANGED <<serverVars, dev, call, netVars, opened>>

(* The connection dies: its pushes are lost and the waiting call fails.    *)
(* Its requests are lost with it, unless they have already left.           *)
LinkDown(d) ==
    /\ d \in online
    /\ online' = online \ {d}
    /\ talks' = [talks EXCEPT ![d] = {}]
    /\ syncs' = [syncs EXCEPT ![d] = {}]
    /\ page' = [page EXCEPT ![d] = None]
    /\ call' = [call EXCEPT ![d] = 0]
    /\ \E lost \in {{}, {r \in reqs : r.dev = d}} : reqs' = reqs \ lost
    /\ UNCHANGED <<serverVars, dev, opened>>

Init ==
    /\ index = {} /\ own = {} /\ lastRead = 0
    /\ inbox = [row |-> FALSE, unread |-> 0, max |-> 0, last |-> 0]
    /\ dev = [d \in Devices |-> EmptyDevice]
    /\ online = Devices /\ reqs = {} /\ opened = 0
    /\ call = [d \in Devices |-> 0]
    /\ talks = [d \in Devices |-> {}]
    /\ syncs = [d \in Devices |-> {}]
    /\ page = [d \in Devices |-> None]

Next ==
    \/ \E m \in Ids : Insert(m)
    \/ \E r \in reqs : DoInboxRead(r) \/ DoInboxReadFails(r)
    \/ \E d \in Devices :
        \/ DoInboxList(d) \/ PersistPush(d) \/ PersistSynced(d) \/ PersistInbox(d)
        \/ ApplyRemoteRead(d) \/ PumpOnce(d)
    \/ \E d \in Used :
        \/ MarkRead(d) \/ SetVisibility(d) \/ DeleteThread(d)
        \/ LinkUp(d) \/ LinkDown(d)

(* The worker ticks and the store does not fail for ever; links may stay up. *)
Fairness ==
    /\ SF_vars(\E r \in reqs : DoInboxRead(r))
    /\ \A d \in Devices : WF_vars(PumpOnce(d))

Spec == Init /\ [][Next]_vars
FairSpec == Spec /\ Fairness
(***************************************************************************)
(* Properties.                                                             *)
(***************************************************************************)
DeviceRecord ==
    [read : 0 .. MaxId, srv : 0 .. MaxId, known : 0 .. MaxId, thread : BOOLEAN, unread : Nat,
     last : 0 .. MaxId, msgs : SUBSET Ids, fg : BOOLEAN]
StateRecord == [read : 0 .. MaxId, max : 0 .. MaxId]
InboxRecord == [row : BOOLEAN, unread : Nat, max : 0 .. MaxId, last : 0 .. MaxId]
EntryRecord == [last : Ids, read : 0 .. MaxId, max : 0 .. MaxId, unread : Nat]

(* The type of every variable. *)
TypeOK ==
    /\ index \subseteq Ids /\ own \subseteq index /\ lastRead \in 0 .. MaxId
    /\ inbox \in InboxRecord
    /\ dev \in [Devices -> DeviceRecord]
    /\ online \subseteq Devices
    /\ call \in [Devices -> 0 .. MaxId]
    /\ reqs \subseteq [dev : Devices, id : Ids]
    /\ talks \in [Devices -> SUBSET Ids] /\ syncs \in [Devices -> SUBSET StateRecord]
    /\ page \in [Devices -> {None} \cup EntryRecord]
    /\ opened \in 0 .. MaxId

(* The message of S no other one of S is newer than. *)
Newest(m, S) == m \in S /\ \A n \in S \ {m} : Newer(m, n)

(* The unread counter that upsert_inbox_rows adds to and mark_read resets  *)
(* always equals the count over the index, and the two read paths of the   *)
(* inbox list (KIM_INBOX_MATERIALIZED on or off) agree on the cursor and   *)
(* the tip.  They need not name the same last message: the index answers   *)
(* with the greatest id, the row with the newest by (send_time, id), in    *)
(* whatever order the two were stored.                                     *)
InboxAgrees ==
    inbox.row =>
        /\ [InboxMaterialized EXCEPT !.last = InboxEntry.last] = InboxEntry
        /\ Newest(InboxMaterialized.last, index)

(* A thread that is read up to everything the device knows of shows no     *)
(* unread badge, in whatever order pushes, pages and remote reads came.    *)
BadgeCleared ==
    \A d \in Devices :
        dev[d].thread /\ EffectiveRead(dev[d]) >= KnownTip(dev[d]) => dev[d].unread = 0

(* The server and the devices implement the abstract read marks: no place  *)
(* gets ahead of what the user opened, and no mark ever goes back, not     *)
(* even when a thread is deleted before its mark reached the server.       *)
Marks == INSTANCE ReadMarks WITH
    Places <- Devices \cup {Server},
    mark <- [p \in Devices \cup {Server} |->
                IF p = Server THEN lastRead ELSE EffectiveRead(dev[p])]

ImplementsReadMarks == Marks!Spec

(* What a device has queued reaches the server while its link stays up.    *)
ReadReachesServer ==
    \A d \in Devices : \A m \in Ids :
        dev[d].read >= m ~> (lastRead >= m \/ d \notin online \/ dev[d].read < m)
=============================================================================
