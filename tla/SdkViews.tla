------------------------------ MODULE SdkViews ------------------------------
(***************************************************************************)
(* The SDK's views of its store: commands write through one write worker,  *)
(* every commit leaves a notice in the change log, and one publisher       *)
(* re-reads the views a notice names and sends them to their watches.      *)
(* Around them run the tasks that fill the store from the server's history *)
(* (hydrate and load_older), the outbox, the pushes of the session and the *)
(* switch from one account to another.  One conversation is modelled, with *)
(* one own message.                                                        *)
(*                                                                         *)
(* A step is what runs between two awaits.  wait_applied ends at its time- *)
(* out, so that nothing waits for the publisher here.  A read or a write   *)
(* of the store may fail, where the scene has faults.                      *)
(***************************************************************************)
EXTENDS LocalStore

CONSTANTS
  Accounts, Peers,
  NoAccount,        \* no session
  Limit,            \* the page size of the subscription, at most 50
  MaxServer,        \* server messages per conversation
  OwnAt,            \* the device's clock when the own message is queued
  MaxEpoch,
  Starts            \* the states of store and server to begin with

VARIABLES
  db,        \* account -> the conversation's tables
  people,    \* account -> peer -> relation
  srv,       \* account -> how many messages the server has
  ownId,     \* account -> the server's id of the own message, 0 if none
  session, epoch,
  starting,  \* the account start_session is switching to, after its bump
  sub,       \* the timeline subscription
  watch,     \* what its stream shows
  inbox,     \* the thread list shown: an account and its thread
  cstamp, cerr, cwatch,   \* the contacts view: stamp, sticky error, stream
  slot,      \* the change log
  pub,       \* the publisher
  writer,    \* the task whose transaction the write worker runs
  tasks,     \* running commands, pushes, hydrations and the outbox
  may, left, \* the commands of this scene, and how many may still come
  lost,      \* views whose notice another stamp displaced
  held,      \* another account has signed in since the stream was stamped
  raced,     \* a check, an account switch and a send have crossed
  late,      \* views of a list loaded before a switch or a commit, sent after
  unread,    \* views whose last refresh could not read the store
  stuck,     \* a load was in flight when its subscription was stamped anew
  filled     \* account -> up to where a finished hydrate has filled the store

store == <<db, people, srv, ownId>>
sess  == <<session, epoch, starting>>
views == <<sub, watch, inbox, cstamp, cerr, cwatch>>
feed  == <<slot, lost>>
budget == <<may, left>>
ghost == <<held, raced, late, unread, stuck, filled>>
vars  == <<store, sess, views, feed, pub, writer, tasks, budget, ghost>>

Tasks == {"cmd", "hook", "out", "older", "start", "h1", "h2"}
Idle == [pc |-> "idle", mode |-> "none"]
NoSub == [stamp |-> <<NoAccount, 0>>, open |-> FALSE, bound |-> {}, more |-> FALSE,
          loading |-> FALSE, error |-> FALSE, hydrating |-> FALSE]
FreshSub(stamp) == [NoSub EXCEPT !.stamp = stamp, !.open = TRUE]
Resync == [kind |-> "resync"]
EmptySnapshot == [kind |-> "snap", acct |-> NoAccount, rows |-> {}, more |-> FALSE,
                  loading |-> FALSE, error |-> FALSE]
NoPeople == [p \in Peers |-> "none"]
Subscribed == sub.stamp # NoSub.stamp \/ sub.open
Stamp == <<session, epoch>>

Grant(c) == c \in may /\ left > 0 /\ left' = left - 1 /\ UNCHANGED may
Fault == Grant("fault")
Become(t, r) == tasks' = [tasks EXCEPT ![t] = r]
End(t) == Become(t, Idle)

(* What a notice of an earlier epoch of the account changes: the publisher *)
(* skips it, and nothing else announces it.                                *)
Unseen(stamp, effect) ==
  IF stamp[1] = session /\ stamp # Stamp
  THEN {<<Stamp, q>> : q \in effect.queries \ {"inbox"}} ELSE {}

(* A view is lost to a displaced notice until it is noted again; the inbox *)
(* is refreshed whatever the stamp.                                        *)
Losing(old, stamp, effect) ==
  {x \in lost \cup Displaced(old, stamp, effect) :
     ~(x[2] \in effect.queries /\ (x[1] = stamp \/ x[2] = "inbox"))}
  \cup Unseen(stamp, effect)

Notify(stamp, effect) ==
  /\ slot' = Record(slot, stamp, effect)
  /\ lost' = Losing(slot, stamp, effect)

(* watch::Sender::send stores nothing once the receivers are gone. *)
Show(v) == watch' = IF sub.open THEN v ELSE watch

-----------------------------------------------------------------------------
(* The views read from the store. *)

Snapshot(s, a, rows, more) ==
  [kind |-> "snap", acct |-> a, rows |-> rows,
   more |-> IF s.bound # {} \/ s.error THEN s.more ELSE more,
   loading |-> s.loading, error |-> s.error]

LoadView(s) ==
  LET w == LoadTimelineWindow(db[s.stamp[1]], Limit, s.bound)
  IN Snapshot(s, s.stamp[1], w.rows, w.more)

(* What is shown, when the window cannot be read. *)
KeptView(s) == Snapshot(s, watch.acct, watch.rows, watch.more)

NoThreads(a) == [acct |-> a, thread |-> EmptyThread, group |-> FALSE]
LoadThreads(a) ==
  IF a = NoAccount THEN NoThreads(a)
  ELSE [acct |-> a, thread |-> db[a].thread, group |-> db[a].group]

(* A view is sent: one that was read, or what a failed read leaves of it.  *)
Sends(q, read) == unread' = IF read THEN unread \ {q} ELSE unread \cup {q}

TimelineNoticeApplies(stamp) ==
  sub.stamp = stamp /\ stamp[2] = epoch /\ session = stamp[1] /\ session # NoAccount

ContactsApply(e) ==
  epoch = e /\ session # NoAccount /\ cstamp = <<session, e>>

-----------------------------------------------------------------------------
(* The publisher. *)

Publisher(pc) == pub.pc = pc

(* Timelines first, then the inbox, then contacts; the last marks applied. *)
NextQuery(n) ==
  IF "timeline" \in n.queries THEN [pc |-> "timeline", notice |-> n]
  ELSE IF "inbox" \in n.queries THEN [pc |-> "inbox", notice |-> n]
  ELSE IF "contacts" \in n.queries THEN [pc |-> "contacts", notice |-> n]
  ELSE [pc |-> "idle"]
Done(q) == pub' = NextQuery([pub.notice EXCEPT !.queries = @ \ {q}])

(* Takes the notice; one that comes while it drains the slot counts as one *)
(* that came before.                                                       *)
Take ==
  /\ Publisher("idle") /\ slot.queries # {}
  /\ pub' = NextQuery(slot) /\ slot' = NoNotice
  /\ UNCHANGED <<store, sess, views, lost, writer, tasks, budget, ghost>>

RefreshTimelineLoad ==
  /\ Publisher("timeline")
  /\ IF Subscribed /\ TimelineNoticeApplies(pub.notice.stamp)
     THEN pub' = [pc |-> "recheck", notice |-> pub.notice, got |-> LoadView(sub),
                  read |-> TRUE, ok |-> FALSE]
     ELSE Done("timeline")
  /\ UNCHANGED <<store, sess, views, feed, writer, tasks, budget, ghost>>

(* The window cannot be read: the rows shown stay. *)
RefreshTimelineUnread ==
  /\ Publisher("timeline") /\ Fault
  /\ Subscribed /\ TimelineNoticeApplies(pub.notice.stamp)
  /\ IF watch.kind = "snap"
     THEN pub' = [pc |-> "recheck", notice |-> pub.notice, got |-> KeptView(sub),
                  read |-> FALSE, ok |-> FALSE]
     ELSE Done("timeline")
  /\ UNCHANGED <<store, sess, views, feed, writer, tasks, ghost>>

RefreshTimelineCheck ==
  /\ Publisher("recheck")
  /\ IF TimelineNoticeApplies(pub.notice.stamp)
     THEN pub' = [pub EXCEPT !.pc = "send", !.ok = TRUE]
     ELSE Done("timeline")
  /\ UNCHANGED <<store, sess, views, feed, writer, tasks, budget, ghost>>

(* The check above holds no lock: the session may have moved on. *)
RefreshTimelineSend ==
  /\ Publisher("send")
  /\ Show(pub.got) /\ Sends("timeline", pub.read) /\ Done("timeline")
  /\ raced' = (raced \/ (pub.ok /\ ~TimelineNoticeApplies(pub.notice.stamp)))
  /\ UNCHANGED <<store, sess, sub, inbox, cstamp, cerr, cwatch, feed, writer, tasks,
                 budget, held, late, stuck, filled>>

RefreshInboxLoad ==
  /\ Publisher("inbox")
  /\ pub' = [pc |-> "inboxsend", notice |-> pub.notice, got |-> LoadThreads(session),
             read |-> TRUE]
  /\ UNCHANGED <<store, sess, views, feed, writer, tasks, budget, ghost>>

(* Threads that cannot be read count as none. *)
RefreshInboxUnread ==
  /\ Publisher("inbox") /\ Fault /\ session # NoAccount
  /\ pub' = [pc |-> "inboxsend", notice |-> pub.notice, got |-> NoThreads(session),
             read |-> FALSE]
  /\ UNCHANGED <<store, sess, views, feed, writer, tasks, ghost>>

(* refresh_session_snapshot sends what it has read, whoever is signed in. *)
ShowInbox(x) == inbox' = x.got /\ Sends("inbox", x.read)

Stale(x) == x.got.acct # session \/ (x.read /\ x.got # LoadThreads(session))

RefreshInboxSend ==
  /\ Publisher("inboxsend")
  /\ ShowInbox(pub) /\ Done("inbox")
  /\ late' = IF pub.got.acct # session THEN late \cup {"inbox"}
             ELSE IF Stale(pub) THEN late ELSE late \ {"inbox"}
  /\ UNCHANGED <<store, sess, sub, watch, cstamp, cerr, cwatch, feed, writer, tasks, budget,
                 held, raced, stuck, filled>>

RefreshContactsLoad ==
  /\ Publisher("contacts")
  /\ IF ContactsApply(pub.notice.stamp[2])
     THEN pub' = [pc |-> "contactssend", notice |-> pub.notice, got |-> people[session],
                  acct |-> session]
     ELSE Done("contacts")
  /\ UNCHANGED <<store, sess, views, feed, writer, tasks, budget, ghost>>

(* Contacts that cannot be read are not sent, and the notice is gone. *)
RefreshContactsUnread ==
  /\ Publisher("contacts") /\ Fault
  /\ ContactsApply(pub.notice.stamp[2]) /\ Done("contacts")
  /\ unread' = unread \cup {"contacts"}
  /\ UNCHANGED <<store, sess, views, feed, writer, tasks, held, raced, late, stuck, filled>>

PublishContacts(a, rows, err) ==
  /\ cerr' = err
  /\ cwatch' = [acct |-> a, rows |-> rows, error |-> err]

RefreshContactsSend ==
  /\ Publisher("contactssend")
  /\ IF epoch = pub.notice.stamp[2] /\ cstamp = <<pub.acct, epoch>>
     THEN /\ PublishContacts(pub.acct, pub.got, IF pub.notice.clear THEN FALSE ELSE cerr)
          /\ Sends("contacts", TRUE)
          /\ late' = IF pub.got = people[pub.acct] THEN late \ {"contacts"} ELSE late
     ELSE UNCHANGED <<cerr, cwatch, unread, late>>
  /\ Done("contacts")
  /\ UNCHANGED <<store, sess, sub, watch, inbox, cstamp, feed, writer, tasks, budget, held, raced,
                 stuck, filled>>

Publish == \/ Take
           \/ RefreshTimelineLoad \/ RefreshTimelineCheck \/ RefreshTimelineSend
           \/ RefreshInboxLoad \/ RefreshInboxSend
           \/ RefreshContactsLoad \/ RefreshContactsSend
           \/ RefreshTimelineUnread \/ RefreshInboxUnread \/ RefreshContactsUnread

-----------------------------------------------------------------------------
(* The write worker: the epoch is compared when an operation is taken, and *)
(* the notice carries the operation's stamp when it has committed.         *)

(* The operations of a session carry its epoch.  The others are recorded   *)
(* with epoch 0: threads of created groups, and the tables of settings,    *)
(* agents and media, which no view of the feed reads.                      *)
SessionOps == {"enqueue", "talks", "inbox", "cancel", "delete", "sent", "failed", "retry", "requeue",
               "read", "due", "replace", "upsert", "remove"}
AgentOps == {"profile", "import", "rekey", "provider", "overlay", "flags"}
MediaOps == {"touch media", "upsert media"}
DeviceOps == {"settings"} \cup AgentOps \cup MediaOps
Bound(op) == op.kind \in SessionOps

Waiting(t) == tasks[t].pc = "write"

WriteStale(t) ==
  /\ Waiting(t) /\ writer = "none"
  /\ Bound(tasks[t].op) /\ tasks[t].op.stamp[2] # epoch
  /\ Become(t, [tasks[t] EXCEPT !.pc = "failed"])
  /\ UNCHANGED <<store, sess, views, feed, pub, writer, budget, ghost>>

WriteBegin(t) ==
  /\ Waiting(t) /\ writer = "none"
  /\ Bound(tasks[t].op) => tasks[t].op.stamp[2] = epoch
  /\ writer' = t
  /\ UNCHANGED <<store, sess, views, feed, pub, tasks, budget, ghost>>

ApplyDb(d, op) ==
  CASE op.kind = "enqueue" -> PersistEnqueue(d, 1, OwnAt)
    [] op.kind = "talks"   -> PersistTalks(d, op.ids)
    [] op.kind = "inbox"   -> PersistInboxItem(d, op.tip)
    [] op.kind = "sent"    -> MarkSent(d, 1, op.id)
    [] op.kind = "failed"  -> MarkFailed(d, 1)
    [] op.kind = "delete"  -> DeleteThread(d)
    [] op.kind = "cancel"  -> Cancel(d, 1)
    [] op.kind = "requeue" -> Requeue(d, 1)
    [] op.kind = "ensure"  -> EnsureThread(d)
    [] OTHER -> d

ApplyPeople(c, op) ==
  CASE op.kind = "replace" -> ReplaceContacts(c, op.rows)
    [] op.kind = "upsert"  -> UpsertOne(c, op.peer, op.relation)
    [] op.kind = "remove"  -> DeletePeer(c, op.peer)
    [] OTHER -> c

TimelineAndInbox == Effect({"timeline", "inbox"})
When(b, effect) == IF b THEN effect ELSE Effect({})

ReadEffect(moved) == When(moved, TimelineAndInbox)
NoView == Effect({})

EffectOf(op, d) ==
  CASE op.kind \in {"enqueue", "delete"} -> TimelineAndInbox
    [] op.kind \in {"sent", "cancel"} -> When(d.outbox # "none", TimelineAndInbox)
    [] op.kind \in {"failed", "retry", "requeue"} -> When(d.outbox # "none", Effect({"timeline"}))
    [] op.kind = "talks"   -> When(ApplyDb(d, op) # d, TimelineAndInbox)
    [] op.kind = "inbox"   -> Effect({"inbox"})
    [] op.kind = "ensure"  -> When(~d.group, Effect({"inbox"}))
    [] op.kind = "replace" -> ContactsReplaced
    [] op.kind = "upsert"  -> Effect({"contacts"})
    [] op.kind = "remove"  -> When(people[op.stamp[1]][op.peer] # "none", Effect({"contacts"}))
    [] op.kind = "read"    -> ReadEffect(op.moved)
    [] op.kind = "due" \/ op.kind \in DeviceOps -> NoView

Refused(op, d) ==
  \/ op.kind = "sent" /\ MarkSentRefused(d, 1, op.id)
  \/ op.kind = "requeue" /\ RequeueRefused(d)

(* BEGIN, a statement or COMMIT fails. *)
WriteFault ==
  /\ writer # "none" /\ Fault
  /\ Become(writer, [tasks[writer] EXCEPT !.pc = "failed"])
  /\ writer' = "none"
  /\ UNCHANGED <<store, sess, views, feed, pub, ghost>>

WriteFails ==
  /\ writer # "none"
  /\ LET op == tasks[writer].op IN Refused(op, db[op.stamp[1]])
  /\ Become(writer, [tasks[writer] EXCEPT !.pc = "failed"])
  /\ writer' = "none"
  /\ UNCHANGED <<store, sess, views, feed, pub, budget, ghost>>

WriteCommit ==
  /\ writer # "none"
  /\ LET op == tasks[writer].op
         a  == op.stamp[1]
     IN /\ ~Refused(op, db[a])
        /\ db' = [db EXCEPT ![a] = ApplyDb(@, op)]
        /\ people' = [people EXCEPT ![a] = ApplyPeople(@, op)]
        /\ Notify(IF Bound(op) THEN op.stamp ELSE <<a, 0>>, EffectOf(op, db[a]))
        /\ tasks' = [t \in Tasks |->
             IF t = writer THEN [tasks[t] EXCEPT !.pc = "wrote"]
             ELSE IF op.kind = "delete" /\ "clean" \in DOMAIN tasks[t]
                  THEN [tasks[t] EXCEPT !.clean = FALSE] ELSE tasks[t]]
        /\ filled' = IF op.kind = "delete" THEN [filled EXCEPT ![a] = 0] ELSE filled
  /\ writer' = "none"
  /\ UNCHANGED <<srv, ownId, sess, views, pub, budget, held, raced, late, unread, stuck>>

Write == (\E t \in Tasks : WriteStale(t) \/ WriteBegin(t)) \/ WriteFails \/ WriteFault
         \/ WriteCommit

-----------------------------------------------------------------------------
(* Loads: hydrate_latest_if_needed and load_older. *)

(* A hydrate started by a spawn or a push, or from a load_older of `older`. *)
Hydrate(pre, older) ==
  [pc |-> "hydrate", mode |-> "hydrate", pre |-> pre, older |-> older, stamp |-> NoSub.stamp, tip |-> 0,
   before |-> 0, top |-> 0, clean |-> TRUE, oldest |-> {}, want |-> 0, op |-> [kind |-> "none"]]
Alone == NoSub.stamp

(* finish_timeline_load, for the stamp the load began with. *)
Finish(stamp, bound, more, error) ==
  IF sub.stamp = stamp /\ Subscribed
  THEN /\ sub' = [sub EXCEPT !.bound = IF bound = {} THEN @ ELSE bound, !.more = more,
                             !.loading = FALSE, !.hydrating = FALSE, !.error = error]
       /\ stuck' = FALSE
       /\ Notify(stamp, Effect({"timeline"}))
  ELSE UNCHANGED <<sub, stuck, feed>>

Others == <<store, sess, watch, inbox, cstamp, cerr, cwatch, pub, writer, held, raced, late, unread>>
Rest == <<Others, budget>>

(* A load_older that asked ends its own load. *)
OlderReturns(t, more, error) ==
  /\ IF tasks[t].older # Alone
     THEN Finish(tasks[t].older, {}, more, error)
     ELSE UNCHANGED <<sub, stuck, feed>>
  /\ End(t)
  /\ UNCHANGED filled

HydrateSkipped(t) == OlderReturns(t, FALSE, FALSE) /\ UNCHANGED Rest

(* The tips or the count cannot be read. *)
HydrateUnread(t) ==
  /\ tasks[t].pc \in {"hydrate", "decide"} /\ Fault
  /\ OlderReturns(t, TRUE, TRUE)
  /\ UNCHANGED Others

HydrateTip(t) ==
  /\ tasks[t].pc = "hydrate"
  /\ IF session = NoAccount \/ ServerTip(db[session]) = 0
     THEN HydrateSkipped(t)
     ELSE /\ Become(t, [tasks[t] EXCEPT !.pc = "decide", !.stamp = Stamp,
                                       !.tip = ServerTip(db[session])])
          /\ UNCHANGED <<Rest, sub, stuck, feed, filled>>

MayHydrate(stamp) == sub.stamp = stamp /\ Subscribed /\ ~sub.hydrating

NothingToFetch(me) ==
  LET d == db[me.stamp[1]]
  IN MaxMessageId(d) >= me.tip /\ (~me.pre \/ CountSent(d) >= MAX_MESSAGES)

HydrateBegin(t) ==
  /\ tasks[t].pc = "decide" /\ ~NothingToFetch(tasks[t]) /\ MayHydrate(tasks[t].stamp)
  /\ sub' = [sub EXCEPT !.hydrating = TRUE, !.loading = TRUE, !.error = FALSE]
  /\ Notify(tasks[t].stamp, Effect({"timeline"}))
  /\ Become(t, [tasks[t] EXCEPT !.pc = "history"])
  /\ UNCHANGED <<Rest, stuck, filled>>

(* Without a protocol client the load ends at once; it counts as skipped.  *)
HydrateOffline(t) ==
  /\ tasks[t].pc = "decide" /\ ~NothingToFetch(tasks[t]) /\ MayHydrate(tasks[t].stamp)
  /\ Fault
  /\ Finish(tasks[t].stamp, {}, TRUE, FALSE)
  /\ Become(t, [tasks[t] EXCEPT !.pc = "skipped"])
  /\ UNCHANGED <<Others, filled>>

HydrateSkips(t) == tasks[t].pc = "skipped" /\ HydrateSkipped(t)

(* InFlight: the other hydrate will finish, a load_older just returns. *)
HydrateNot(t) ==
  /\ tasks[t].pc = "decide"
  /\ IF NothingToFetch(tasks[t]) THEN HydrateSkipped(t)
     ELSE ~MayHydrate(tasks[t].stamp) /\ End(t) /\ UNCHANGED <<Rest, sub, stuck, feed, filled>>

(* A page of the server's history, newest first, before an id (0: the end). *)
HistoryPage(a, before, limit) ==
  LET upto == IF before = 0 THEN srv[a] ELSE before - 1
  IN Max({1, upto - limit + 1})..upto

FetchPage(t, limit) ==
  LET me == tasks[t]
      page == HistoryPage(me.stamp[1], me.before, limit)
  IN Become(t, [me EXCEPT !.pc = IF page = {} THEN "wrote" ELSE "write",
                          !.top = IF @ = 0 THEN srv[me.stamp[1]] ELSE @,
                          !.op = [kind |-> "talks", stamp |-> me.stamp, ids |-> page]])

HydratePage(t) ==
  /\ tasks[t].pc = "history"
  /\ FetchPage(t, Limit)
  /\ UNCHANGED <<Rest, sub, stuck, feed, filled>>

Mode(t, m, pc) == tasks[t].pc = pc /\ tasks[t].mode = m

(* Mutant: a failed request just returns. *)
HydrateGivesUp(t) ==
  /\ tasks[t].pc = "history" \/ Mode(t, "hydrate", "failed")
  /\ End(t)
  /\ UNCHANGED <<Rest, sub, stuck, feed, filled>>

(* The history request or the write fails; so does a load_older that asked. *)
HydrateFails(t) ==
  /\ tasks[t].pc = "history" \/ Mode(t, "hydrate", "failed")
  /\ Finish(tasks[t].stamp, {}, TRUE, TRUE)
  /\ End(t)
  /\ UNCHANGED <<Rest, filled>>

FullPage(t, limit) == Cardinality(tasks[t].op.ids) >= limit
MorePages(t) ==
  FullPage(t, Limit) /\ CountSent(db[tasks[t].stamp[1]]) < MAX_MESSAGES

HydrateNext(t) ==
  /\ Mode(t, "hydrate", "wrote") /\ MorePages(t)
  /\ Become(t, [tasks[t] EXCEPT !.pc = "history", !.before = Min(tasks[t].op.ids)])
  /\ UNCHANGED <<Rest, sub, stuck, feed, filled>>

HydrateFinish(t, bound, more) ==
  LET me == tasks[t]
  IN /\ Finish(me.stamp, bound, more, FALSE)
     /\ filled' = IF me.clean /\ ~FullPage(t, Limit)
                  THEN [filled EXCEPT ![me.stamp[1]] = Max({@, me.top})] ELSE filled
     /\ End(t)

(* The bound becomes the start of the hot window. *)
HydrateDone(t) ==
  LET hot == LoadHotWindow(db[tasks[t].stamp[1]], Limit)
  IN /\ Mode(t, "hydrate", "wrote") /\ ~MorePages(t)
     /\ HydrateFinish(t, IF hot.sent = {} THEN {} ELSE {Oldest(hot.sent)},
                      FullPage(t, Limit) \/ hot.more)
     /\ UNCHANGED Rest

(* The count or the window cannot be read: the load ends with this page. *)
HydrateDoneUnread(t) ==
  /\ Mode(t, "hydrate", "wrote") /\ Fault
  /\ HydrateFinish(t, {}, FullPage(t, Limit))
  /\ UNCHANGED Others

LoadOlder ==
  /\ tasks["older"] = Idle /\ Subscribed /\ Grant("older")
  /\ sub' = [sub EXCEPT !.loading = TRUE, !.error = FALSE]
  /\ Notify(sub.stamp, Effect({"timeline"}))
  /\ Become("older", [Hydrate(TRUE, sub.stamp) EXCEPT !.pc = "window", !.mode = "older",
                                                      !.stamp = sub.stamp])
  /\ UNCHANGED <<store, sess, watch, inbox, cstamp, cerr, cwatch, pub, writer, ghost>>

(* The new bound: the oldest row of what was shown and the page below it. *)
OlderFinish(t, oldest, page, more) ==
  /\ Finish(tasks[t].stamp, {Oldest(oldest \cup page)}, more, FALSE)
  /\ End(t)
  /\ UNCHANGED <<Rest, filled>>

Shown(t) == sub.stamp = tasks[t].stamp /\ watch.kind = "snap"

OlderEmpty(t) ==
  /\ Mode(t, "older", "window") /\ Shown(t) /\ watch.rows = {}
  /\ Become(t, Hydrate(TRUE, tasks[t].stamp))
  /\ UNCHANGED <<Rest, sub, stuck, feed, filled>>

(* The page below what is shown, from the store if it has one, else from   *)
(* the server, as much as the store has room for.                          *)
OlderLocal(t) ==
  /\ Mode(t, "older", "window") /\ Shown(t) /\ watch.rows # {}
  /\ LET d == db[tasks[t].stamp[1]]
         oldest == {Oldest(watch.rows)}
         page == LoadPage(d, Oldest(watch.rows), Limit)
         ids == {r.mid : r \in watch.rows} \ {0}
         room == MAX_MESSAGES - CountSent(d)
     IN IF ~page.more /\ room > 0 /\ Cardinality(page.rows) < Limit /\ ids # {}
        THEN /\ Become(t, [tasks[t] EXCEPT !.pc = "older history", !.before = Min(ids),
                              !.oldest = oldest, !.want = Min({Limit, room})])
             /\ UNCHANGED <<Rest, sub, stuck, feed, filled>>
        ELSE OlderFinish(t, oldest, page.rows, page.more)

OlderHistory(t) ==
  /\ tasks[t].pc = "older history"
  /\ FetchPage(t, tasks[t].want)
  /\ UNCHANGED <<Rest, sub, stuck, feed, filled>>

OlderDone(t) ==
  LET me == tasks[t]
      d == db[me.stamp[1]]
  IN /\ Mode(t, "older", "wrote")
     /\ OlderFinish(t, me.oldest, LoadPage(d, Oldest(me.oldest), Limit).rows,
                    CountSent(d) < MAX_MESSAGES /\ FullPage(t, me.want))

OlderFails(t) ==
  /\ \/ Mode(t, "older", "window") /\ ~Shown(t)
     \/ tasks[t].pc = "older history"
     \/ Mode(t, "older", "failed")
  /\ Finish(tasks[t].stamp, {}, TRUE, TRUE)
  /\ End(t)
  /\ UNCHANGED <<Rest, filled>>

(* The page or the count cannot be read. *)
OlderUnread(t) ==
  /\ Mode(t, "older", "window") \/ Mode(t, "older", "wrote")
  /\ Fault
  /\ Finish(tasks[t].stamp, {}, TRUE, TRUE)
  /\ End(t)
  /\ UNCHANGED <<Others, filled>>

Loads(t) == \/ HydrateTip(t) \/ HydrateBegin(t) \/ HydrateNot(t) \/ HydratePage(t)
            \/ HydrateFails(t) \/ HydrateNext(t) \/ HydrateDone(t)
            \/ OlderEmpty(t) \/ OlderLocal(t) \/ OlderHistory(t) \/ OlderDone(t)
            \/ OlderFails(t)
            \/ HydrateOffline(t) \/ HydrateSkips(t)
            \/ HydrateUnread(t) \/ HydrateDoneUnread(t) \/ OlderUnread(t)

(* A history request is on its way; write_wait sets it no limit. *)
Asking(t) == tasks[t].pc \in {"history", "older history"}

-----------------------------------------------------------------------------
(* The session. *)

Spare == IF tasks["h1"] = Idle THEN {"h1"} ELSE {t \in {"h2"} : tasks[t] = Idle}
Unstamped == <<store, inbox, cstamp, cerr, cwatch, pub, writer>>
Restamped(stamp) == stuck \/ (sub.loading /\ sub.stamp # stamp)

(* A live stream is stamped again and keeps the rest of its subscription. *)
SubscribeTimeline ==
  /\ Grant("subscribe")
  /\ \E h \in Spare : Become(h, [pc |-> "record", mode |-> "spawn", stamp |-> Stamp])
  /\ IF Subscribed /\ sub.open
     THEN /\ sub' = [sub EXCEPT !.stamp = Stamp] /\ stuck' = Restamped(Stamp)
          /\ UNCHANGED watch
     ELSE /\ sub' = FreshSub(Stamp) /\ watch' = EmptySnapshot /\ stuck' = FALSE
  /\ held' = FALSE
  /\ UNCHANGED <<Unstamped, sess, feed, raced, late, unread, filled>>

SubscribeRecord(t) ==
  /\ tasks[t].pc = "record"
  /\ Notify(tasks[t].stamp, Effect({"timeline"}))
  /\ Become(t, Hydrate(TRUE, Alone))
  /\ UNCHANGED <<store, sess, views, pub, writer, budget, ghost>>

CloseTimeline ==
  /\ Grant("close")
  /\ sub.open /\ sub' = [sub EXCEPT !.open = FALSE]
  /\ UNCHANGED <<Unstamped, watch, sess, feed, tasks, ghost>>

StartBump(a) ==
  /\ Grant("start") /\ epoch < MaxEpoch
  /\ starting = NoAccount /\ tasks["start"] = Idle
  /\ epoch' = epoch + 1 /\ starting' = a
  /\ UNCHANGED <<store, session, views, feed, pub, writer, tasks, ghost>>

(* Streams of the same account are stamped anew, others are told to resync. *)
RestampOrResync(same) ==
  IF same
  THEN /\ UNCHANGED watch
       /\ IF Subscribed /\ sub.stamp[1] \in {NoAccount, starting}
          THEN /\ sub' = [sub EXCEPT !.stamp = <<starting, epoch>>]
               /\ stuck' = Restamped(<<starting, epoch>>) /\ held' = FALSE
          ELSE UNCHANGED <<sub, stuck, held>>
  ELSE Show(Resync) /\ held' = sub.open /\ UNCHANGED <<sub, stuck>>

StartSession ==
  LET stamp == <<starting, epoch>>
      same == session \in {NoAccount, starting}
  IN /\ starting # NoAccount
     /\ session' = starting /\ starting' = NoAccount
     /\ RestampOrResync(same)
     /\ cstamp' = stamp
     /\ IF same THEN UNCHANGED <<cerr, cwatch>>
        ELSE PublishContacts(starting, NoPeople, FALSE)
     /\ Notify(stamp, IF same
                      THEN Effect({"inbox", "contacts"} \cup
                                  (IF Subscribed THEN {"timeline"} ELSE {}))
                      ELSE Effect({"contacts"}))
     /\ \E h \in Spare :
          tasks' = [tasks EXCEPT !["start"] = [pc |-> "threads", mode |-> "start"],
                      ![h] = IF Subscribed THEN Hydrate(FALSE, Alone) ELSE Idle]
     /\ UNCHANGED <<store, epoch, inbox, pub, writer, budget, raced, late, unread, filled>>

StartThreads ==
  /\ tasks["start"].pc = "threads"
  /\ Become("start", [pc |-> "show", mode |-> "start", got |-> LoadThreads(session),
                      read |-> TRUE])
  /\ UNCHANGED <<store, sess, views, feed, pub, writer, budget, ghost>>

StartUnread ==
  /\ tasks["start"].pc = "threads" /\ Fault /\ session # NoAccount
  /\ Become("start", [pc |-> "show", mode |-> "start", got |-> NoThreads(session),
                      read |-> FALSE])
  /\ UNCHANGED <<store, sess, views, feed, pub, writer, ghost>>

StartShow ==
  /\ tasks["start"].pc = "show"
  /\ ShowInbox(tasks["start"]) /\ End("start")
  /\ late' = IF Stale(tasks["start"]) THEN late \cup {"inbox"} ELSE late \ {"inbox"}
  /\ UNCHANGED <<store, sess, sub, watch, cstamp, cerr, cwatch, feed, pub, writer, budget,
                 held, raced, stuck, filled>>

StopSession ==
  /\ Grant("stop") /\ epoch < MaxEpoch
  /\ starting = NoAccount /\ session # NoAccount
  /\ epoch' = epoch + 1 /\ session' = NoAccount
  /\ UNCHANGED <<store, starting, views, feed, pub, writer, tasks, ghost>>

Session == \/ SubscribeTimeline \/ CloseTimeline \/ StopSession
           \/ \E a \in Accounts : StartBump(a)
           \/ StartSession \/ StartThreads \/ StartUnread \/ StartShow

-----------------------------------------------------------------------------
(* Commands, pushes and the outbox. *)

(* The caller reads session and epoch, and waits for the worker's answer. *)
Ask(t, op) == Become(t, [pc |-> "write", mode |-> "plain", op |-> op])
Command(t, c) == Grant(c) /\ tasks[t] = Idle /\ session # NoAccount
Quietly == <<store, sess, views, feed, pub, writer, ghost>>

EnqueueMessage ==
  /\ Command("cmd", "enqueue") /\ Ask("cmd", [kind |-> "enqueue", stamp |-> Stamp])
  /\ UNCHANGED Quietly

AskDelete ==
  /\ Command("cmd", "delete") /\ Ask("cmd", [kind |-> "delete", stamp |-> Stamp])
  /\ UNCHANGED Quietly

CancelOp == [kind |-> "cancel", stamp |-> Stamp]
CancelSend ==
  /\ Command("cmd", "cancel") /\ Ask("cmd", CancelOp)
  /\ UNCHANGED Quietly

RetrySend ==
  /\ Command("cmd", "retry") /\ Ask("cmd", [kind |-> "requeue", stamp |-> Stamp])
  /\ UNCHANGED Quietly

(* A read mark, a thread read, a visibility or an answer of the read sync; *)
(* what it moves is ReadState's.                                           *)
ReadOp(moved) == [kind |-> "read", stamp |-> Stamp, moved |-> moved]
MarkRead(moved) ==
  /\ Command("cmd", "read") /\ Ask("cmd", ReadOp(moved))
  /\ UNCHANGED Quietly

(* The network is back, or the app in front: retries are due at once. *)
WakeOutbox ==
  /\ Command("cmd", "wake") /\ Ask("cmd", [kind |-> "due", stamp |-> Stamp])
  /\ UNCHANGED Quietly

DeviceOp(kind) == [kind |-> kind, stamp |-> Stamp]
WriteDevice(kind) ==
  /\ Command("cmd", "device") /\ Ask("cmd", DeviceOp(kind))
  /\ UNCHANGED Quietly

(* A group is created: its thread is another one, its write has no epoch. *)
PersistGroupCreate ==
  /\ Command("cmd", "group") /\ Ask("cmd", [kind |-> "ensure", stamp |-> Stamp])
  /\ UNCHANGED Quietly

(* A friend request, an acceptance, a request sent from here. *)
UpsertContact(p, relation) ==
  /\ Command("cmd", "contact")
  /\ Ask("cmd", [kind |-> "upsert", stamp |-> Stamp, peer |-> p, relation |-> relation])
  /\ UNCHANGED Quietly

RemoveContact(p) ==
  /\ Command("cmd", "contact") /\ Ask("cmd", [kind |-> "remove", stamp |-> Stamp, peer |-> p])
  /\ UNCHANGED Quietly

RefreshContacts ==
  /\ Command("cmd", "refresh")
  /\ Become("cmd", [pc |-> "people", mode |-> "contacts", stamp |-> Stamp])
  /\ UNCHANGED Quietly

(* The two lists of the server, a friend before a request. *)
MapPersonRefs(friends, incoming) ==
  [p \in Peers |-> IF p \in friends THEN "friend" ELSE IF p \in incoming THEN "incoming"
                   ELSE "none"]

(* replace_contacts takes the session and the epoch of now. *)
ContactsFetched(friends, incoming) ==
  /\ tasks["cmd"].pc = "people"
  /\ IF tasks["cmd"].stamp[2] = epoch /\ session # NoAccount
     THEN Ask("cmd", [kind |-> "replace", stamp |-> Stamp,
                      rows |-> MapPersonRefs(friends, incoming)])
     ELSE End("cmd")
  /\ UNCHANGED <<Quietly, budget>>

ContactsFail ==
  /\ tasks["cmd"].pc = "people"
  /\ IF tasks["cmd"].stamp[2] = epoch
     THEN Become("cmd", [tasks["cmd"] EXCEPT !.pc = "error"])
     ELSE End("cmd")
  /\ UNCHANGED <<Quietly, budget>>

(* send_contacts_error reads the contacts, none if it cannot, and sends them. *)
ErrorRead(rows, read) ==
  Become("cmd", [pc |-> "error send", mode |-> "contacts", stamp |-> tasks["cmd"].stamp,
                 rows |-> rows, read |-> read])
ContactsErrorLoad ==
  /\ tasks["cmd"].pc = "error"
  /\ IF epoch = tasks["cmd"].stamp[2] THEN ErrorRead(people[tasks["cmd"].stamp[1]], TRUE)
     ELSE End("cmd")
  /\ UNCHANGED <<Quietly, budget>>
ContactsErrorUnread ==
  /\ tasks["cmd"].pc = "error" /\ epoch = tasks["cmd"].stamp[2] /\ Fault
  /\ ErrorRead(NoPeople, FALSE)
  /\ UNCHANGED Quietly

SendContactsError ==
  /\ tasks["cmd"].pc = "error send"
  /\ LET me == tasks["cmd"] IN
     IF epoch = me.stamp[2] /\ cstamp = me.stamp
     THEN /\ PublishContacts(me.stamp[1], me.rows, TRUE)
          /\ Sends("contacts", me.read)
          /\ late' = IF me.read /\ me.rows # people[me.stamp[1]]
                     THEN late \cup {"contacts"} ELSE late \ {"contacts"}
     ELSE UNCHANGED <<cerr, cwatch, unread, late>>
  /\ End("cmd")
  /\ UNCHANGED <<store, sess, sub, watch, inbox, cstamp, feed, pub, writer, budget, held, raced,
                 stuck, filled>>

(* The session's hook stores what is pushed; some pushes never arrive. *)
Push ==
  /\ Command("hook", "push") /\ srv[session] < MaxServer
  /\ srv' = [srv EXCEPT ![session] = @ + 1]
  /\ Ask("hook", [kind |-> "talks", stamp |-> Stamp, ids |-> {srv[session] + 1}])
  /\ UNCHANGED <<db, people, ownId, sess, views, feed, pub, writer, ghost>>

PersistInbox ==
  /\ Command("hook", "inbox") /\ srv[session] > 0
  /\ Ask("hook", [kind |-> "inbox", stamp |-> Stamp, tip |-> srv[session]])
  /\ UNCHANGED Quietly

(* The outbox: the server stores the own message once, under its client id. *)
OutboxSend ==
  /\ tasks["out"] = Idle /\ session # NoAccount /\ db[session].outbox = "pending"
  /\ ownId[session] # 0 \/ srv[session] < MaxServer
  /\ LET n == IF ownId[session] # 0 THEN ownId[session] ELSE srv[session] + 1 IN
     /\ srv' = [srv EXCEPT ![session] = Max({@, n})]
     /\ ownId' = [ownId EXCEPT ![session] = n]
     /\ Ask("out", [kind |-> "sent", stamp |-> Stamp, id |-> n])
  /\ UNCHANGED <<db, people, sess, views, feed, pub, writer, budget, ghost>>

OutboxFails ==
  /\ tasks["out"] = Idle /\ session # NoAccount /\ db[session].outbox = "pending"
  /\ Ask("out", [kind |-> "failed", stamp |-> Stamp])
  /\ UNCHANGED <<Quietly, budget>>

(* The send may be tried again: how often is the outbox's affair. *)
OutboxRetry ==
  /\ Command("out", "flaky") /\ db[session].outbox = "pending"
  /\ Ask("out", [kind |-> "retry", stamp |-> Stamp])
  /\ UNCHANGED Quietly

(* delete_thread, once the rows are gone: the stream starts over, and only *)
(* a Resync that a refresh in flight may overwrite says so.                *)
DeleteEnds ==
  /\ Mode("cmd", "plain", "wrote") /\ tasks["cmd"].op.kind = "delete"
  /\ IF Subscribed
     THEN /\ sub' = [FreshSub(sub.stamp) EXCEPT !.open = sub.open]
          /\ Show(Resync) /\ stuck' = FALSE
          /\ lost' = lost \cup {<<sub.stamp, "timeline">>}
     ELSE UNCHANGED <<sub, watch, stuck, lost>>
  /\ End("cmd")
  /\ UNCHANGED <<store, sess, inbox, cstamp, cerr, cwatch, slot, pub, writer, budget, held,
                 raced, late, unread, filled>>

(* persist_inbox goes on with hydrate_watched, the others just return. *)
PlainEnds(t) ==
  /\ tasks[t].mode = "plain"
  /\ \/ tasks[t].pc = "failed" /\ End(t)
     \/ /\ tasks[t].pc = "wrote" /\ tasks[t].op.kind # "delete"
        /\ IF tasks[t].op.kind = "inbox" /\ Subscribed
           THEN Become(t, Hydrate(FALSE, Alone)) ELSE End(t)
  /\ UNCHANGED <<Quietly, budget>>

Commands ==
  \/ EnqueueMessage \/ AskDelete \/ CancelSend \/ RetrySend \/ WakeOutbox
  \/ (\E moved \in BOOLEAN : MarkRead(moved)) \/ \E k \in DeviceOps : WriteDevice(k)
  \/ PersistGroupCreate \/ RefreshContacts \/ LoadOlder
  \/ \E p \in Peers : RemoveContact(p)
  \/ \E p \in Peers, r \in {"incoming", "friend", "outgoing"} : UpsertContact(p, r)
  \/ Push \/ PersistInbox
Answers ==
  \/ ContactsErrorLoad \/ ContactsErrorUnread \/ SendContactsError
  \/ DeleteEnds \/ \E t \in Tasks : SubscribeRecord(t) \/ PlainEnds(t)
Server ==
  \/ ContactsFail
  \/ \E friends, incoming \in SUBSET Peers : ContactsFetched(friends, incoming)
Outbox == OutboxSend \/ OutboxFails \/ OutboxRetry

-----------------------------------------------------------------------------
Init ==
  /\ \E s \in Starts :
       /\ db = s.db /\ srv = s.srv /\ session = s.session
       /\ may = s.may /\ left = s.left
       /\ \E on \in BOOLEAN :
            /\ sub = IF on THEN FreshSub(<<s.session, 1>>) ELSE NoSub
            /\ watch = IF on /\ s.session # NoAccount
                       THEN [EmptySnapshot EXCEPT !.acct = s.session,
                               !.rows = LoadTimelineWindow(db[s.session], Limit, {}).rows,
                               !.more = LoadTimelineWindow(db[s.session], Limit, {}).more]
                       ELSE EmptySnapshot
  /\ inbox = LoadThreads(session)
  /\ people = [a \in Accounts |-> NoPeople]
  /\ ownId = [a \in Accounts |-> 0]
  /\ epoch = 1 /\ starting = NoAccount
  /\ cstamp = <<session, 1>> /\ cerr = FALSE
  /\ cwatch = [acct |-> session, rows |-> NoPeople, error |-> FALSE]
  /\ slot = NoNotice /\ pub = [pc |-> "idle"] /\ writer = "none"
  /\ tasks = [t \in Tasks |-> Idle]
  /\ lost = {} /\ held = FALSE /\ raced = FALSE /\ late = {} /\ unread = {} /\ stuck = FALSE
  /\ filled = [a \in Accounts |-> 0]

Next == Publish \/ Write \/ Session \/ Commands \/ Answers \/ Server \/ Outbox
        \/ \E t \in Tasks : Loads(t)

(* The publisher, the write worker and the spawned tasks are scheduled.     *)
(* Nothing is said of a request: it may be answered, fail, or never return. *)
Spec == /\ Init /\ [][Next]_vars
        /\ WF_vars(Publish) /\ WF_vars(Write) /\ WF_vars(Answers)
        /\ \A t \in Tasks : WF_vars(~Asking(t) /\ Loads(t))

-----------------------------------------------------------------------------
Settled == slot.queries = {} /\ pub.pc = "idle" /\ starting = NoAccount
           /\ session # NoAccount
           /\ \A t \in Tasks : tasks[t].pc # "record"

(* Every commit reaches the screen: with no notice pending, a stream of     *)
(* the current session shows what the store holds - its timeline window,    *)
(* its threads, its contacts - unless a notice of another stamp displaced   *)
(* its notice in the one slot, a commit begun before a restart was stamped  *)
(* with the epoch before, delete_thread has reset the stream without a      *)
(* notice of its own, or a list was sent late.  After a failed read the     *)
(* timeline still shows whether it loads and why it failed, the threads are *)
(* gone, and the contacts are those of before.                              *)
ViewsFresh ==
  Settled =>
    /\ (sub.open /\ sub.stamp = Stamp /\ <<Stamp, "timeline">> \notin lost
         /\ watch.kind = "snap") =>
         IF "timeline" \in unread
         THEN watch.loading = sub.loading /\ watch.error = sub.error
         ELSE watch = LoadView(sub)
    /\ (cstamp = Stamp /\ <<Stamp, "contacts">> \notin lost
         /\ "contacts" \notin late \cup unread)
         => cwatch.acct = session /\ cwatch.rows = people[session]
    /\ ((\A x \in lost : x[2] # "inbox") /\ "inbox" \notin late /\ tasks["start"] = Idle)
         => inbox = IF "inbox" \in unread THEN NoThreads(session) ELSE LoadThreads(session)

(* After a switch to another account the stream that stays open shows no   *)
(* rows again until it is subscribed anew, unless the switch fell between  *)
(* the publisher's last look at the session and its send.                  *)
HeldStreamIsBlank == (held /\ sub.open /\ ~raced) => watch = Resync

(* A hydrate that reached the start of the history leaves no gap: below    *)
(* its first page, every message newer than the oldest kept is kept.       *)
NoGap ==
  \A a \in Accounts : \A n \in 1..filled[a] :
     (\E r \in db[a].rows : r.mid \in 1..(n - 1)) => \E r \in db[a].rows : r.mid = n

(* A message has one row, however it came: sent, pushed or fetched. *)
OneRowPerId ==
  \A a \in Accounts : \A r, s \in db[a].rows : r.mid = s.mid /\ r.mid # 0 => r = s

(* The spinner stops: if no history request is on its way for ever, a load *)
(* of a live stream ends, unless the stream was stamped anew while the     *)
(* load was in flight, which nothing ends.                                 *)
LoadEnds ==
  (\A t \in Tasks : []<>~Asking(t)) =>
    ((sub.loading /\ sub.stamp = Stamp) ~> (~sub.loading \/ sub.stamp # Stamp \/ stuck))

(* What the screen shows is what the store holds, and the store has no gap *)
(* and no doubled row (the publisher, hydrate, the write worker).          *)
TimelineSound == ViewsFresh /\ HeldStreamIsBlank /\ NoGap /\ OneRowPerId
=============================================================================
