--------------------------- MODULE PendingDelivery ---------------------------
(***************************************************************************)
(* Durable delivery receipts of the chat system, pending-receipt mode:     *)
(*                                                                         *)
(*   services/chat/src/store/postgres.rs  the message store: insert, ack,  *)
(*                                        offline index, backfill, GC      *)
(*   services/chat/src/login.rs           login adds the location, then    *)
(*                                        backfills the device's receipts  *)
(*   services/chat/src/talk.rs            persist, answer, push (lossy)    *)
(*   crates/kim-client/src/sync.rs        page, persist, ack, stop on a    *)
(*                                        short page                       *)
(*                                                                         *)
(* A message is written once and gets one receipt row per device (JWT id,  *)
(* "jti") of every recipient.  Two writers race for a device that is just  *)
(* logging in: the talk, which reads the locations in Redis while it holds *)
(* the recipients' advisory locks, and the login, which publishes its      *)
(* location first and then backfills under the same lock.  Between them no *)
(* message may be missed, and no receipt may be handed out twice or come   *)
(* back after it was acknowledged.                                         *)
(***************************************************************************)
EXTENDS Integers, FiniteSets

CONSTANTS
  Accounts,   \* accounts; integers, so that a < b is the string order of names
  Jtis,       \* devices: the jti of the login token (pending_delivery.target_id)
  Channels,   \* connections a device can log in on
  Txns,       \* talk requests the service handles at one time
  Requests,   \* the talks clients may send: [sender, recv, cid] records
  ClientIds,  \* non-empty client ids (idempotency keys)
  NoCid,      \* the empty client id
  Owner,      \* Owner[j]  : the account device j is signed in as
  JtiOf,      \* JtiOf[c]  : the device that opens channel c
  LockKey,    \* LockKey[a]: hashtext of the account, the advisory lock's key
  Free,       \* no transaction holds the lock
  TTL,        \* receipts live this long (15 days)
  PageSize,   \* MESSAGE_MAX_COUNT_PER_PAGE = SYNC_PAGE
  MaxMsgs,    \* bound: message ids handed out
  MaxTime     \* bound: the clock

ASSUME AccountsAssumption == Accounts \subseteq Int
ASSUME OwnerAssumption    == Owner \in [Jtis -> Accounts]
ASSUME JtiOfAssumption    == JtiOf \in [Channels -> Jtis]
ASSUME LockKeyAssumption  == LockKey \in [Accounts -> Int]
ASSUME NoCidAssumption    == NoCid \notin ClientIds
ASSUME HolderAssumption   == Free \notin Txns \cup Channels /\ Txns \cap Channels = {}
ASSUME BoundsAssumption   == /\ TTL \in Nat /\ PageSize \in Nat \ {0}
                             /\ MaxMsgs \in Nat /\ MaxTime \in Nat
ASSUME RequestsAssumption ==
  /\ Requests # {}
  /\ Requests \subseteq [sender : Accounts, recv : SUBSET Accounts,
                           cid : ClientIds \cup {NoCid}]

Ids    == 1 .. MaxMsgs
NoMsg  == 0
NoRow  == -1
Keys   == {LockKey[a] : a \in Accounts}
Acct(c) == Owner[JtiOf[c]]
\* What an idle handler's request is set to.
NoReq == CHOOSE r \in Requests : TRUE

VARIABLES
  now,       \* the clock every process reads
  nextId,    \* idgen: the next message id
  loc,       \* Redis: channels with a location entry
  holder,    \* advisory locks: key -> transaction, login or Free
  \* talk handlers
  pc,        \* where the handler of a talk is
  req,       \* the talk it handles
  sent,      \* send_time stamped by the chat service
  began,     \* now() of its SQL transaction: the time it began
  mid,       \* the id it drew before it took any lock
  todo,      \* accounts it has still to lock, then to resolve
  existing,  \* the message its client id already stands for, or NoMsg
  targets,   \* devices it will give a receipt to
  \* Postgres
  msgs,      \* committed messages: [id, sender, recv, cid, sent]
  idem,      \* message_idempotency: <<sender, cid>> -> id or NoMsg
  created,   \* pending_delivery: device -> id -> created_at or NoRow
  acked,     \* pending_delivery rows with acked_at set, as <<device, id>>
  \* logins and clients
  cpc,       \* where a channel is: off, added, waiting, filling, syncing, ...
  since,     \* the time its backfill began: now() and the cutoff's base
  page,      \* the offline page its client is working on
  got,       \* messages in the device's local store
  due,       \* history: what was committed for the device when login finished
  collected  \* history: receipts the garbage collector removed

txnVars    == <<pc, req, sent, began, mid, todo, existing, targets>>
dbVars     == <<msgs, idem, created, acked, collected>>
clientVars == <<cpc, since, page, got, due>>
vars == <<now, nextId, loc, holder, txnVars, dbVars, clientVars>>

Message == [id : Ids, sender : Accounts, recv : SUBSET Accounts,
            cid : ClientIds \cup {NoCid}, sent : Nat]

TxnStates     == {"idle", "sent", "locking", "resolving", "pushing"}
ChannelStates == {"off", "added", "waiting", "filling", "syncing", "stalled", "online"}
\* A login has answered Success and its channel is in use.
LoggedIn == {"syncing", "stalled", "online"}

TypeOK ==
  /\ now \in Nat /\ nextId \in Nat \ {0}
  /\ loc \subseteq Channels
  /\ holder \in [Keys -> Txns \cup Channels \cup {Free}]
  /\ pc \in [Txns -> TxnStates]
  /\ req \in [Txns -> Requests]
  /\ sent \in [Txns -> Nat] /\ began \in [Txns -> Nat]
  /\ mid \in [Txns -> Ids \cup {NoMsg}] /\ existing \in [Txns -> Ids \cup {NoMsg}]
  /\ todo \in [Txns -> SUBSET Accounts] /\ targets \in [Txns -> SUBSET Jtis]
  /\ msgs \subseteq Message
  /\ idem \in [Accounts \X ClientIds -> Ids \cup {NoMsg}]
  /\ created \in [Jtis -> [Ids -> Nat \cup {NoRow}]]
  /\ acked \subseteq Jtis \X Ids /\ collected \subseteq Jtis \X Ids
  /\ cpc \in [Channels -> ChannelStates]
  /\ since \in [Channels -> Nat]
  /\ page \in [Channels -> SUBSET Ids] /\ due \in [Channels -> SUBSET Ids]
  /\ got \in [Jtis -> SUBSET Ids]

-----------------------------------------------------------------------------
(* Tables and helpers *)

\* The accounts a talk locks: recv_accounts plus the sender.
LockSet(t) == req[t].recv \cup {req[t].sender}

\* Mutant of IsNextToLock: the accounts are locked in the order given, not sorted.
IsNextToLockUnsorted(t, a) == a \in todo[t] /\ (req[t].sender \in todo[t] => a = req[t].sender)

\* lock_inbox_accounts sorts the names: the next one is the smallest left.
IsNextToLock(t, a) == a \in todo[t] /\ \A b \in todo[t] : a <= b

\* A transaction's advisory locks go with it, committed or rolled back.
Released(p) == [k \in Keys |-> IF holder[k] = p THEN Free ELSE holder[k]]

\* insert_receipts: INSERT ... ON CONFLICT DO NOTHING, created_at = now().
InsertReceipts(devices, ids, at) ==
  [j \in Jtis |-> [m \in Ids |->
     IF j \in devices /\ m \in ids /\ created[j][m] = NoRow THEN at ELSE created[j][m]]]

\* The message the row m of message_index / message_content describes.
Addressed(m, a) == \E r \in msgs : r.id = m /\ a \in r.recv

HasRow(j, m)  == created[j][m] # NoRow
Pending(j, m) == HasRow(j, m) /\ <<j, m>> \notin acked

\* offline_index: unacked, unexpired receipts joined with the device's index.
Visible(j) == {m \in Ids : /\ Pending(j, m) /\ created[j][m] + TTL > now
                           /\ Addressed(m, Owner[j])}

\* ORDER BY created_at, message_id
Before(j, m, n) == \/ created[j][m] < created[j][n]
                   \/ created[j][m] = created[j][n] /\ m < n

\* LIMIT: the first PageSize rows, or all of them.
IsPage(j, P) == /\ P \subseteq Visible(j)
                /\ \/ P = Visible(j) /\ Cardinality(P) <= PageSize
                   \/ Cardinality(P) = PageSize
                /\ \A m \in P, n \in Visible(j) \ P : Before(j, m, n)

Init ==
  /\ now = 0 /\ nextId = 1 /\ loc = {}
  /\ holder = [k \in Keys |-> Free]
  /\ pc = [t \in Txns |-> "idle"]
  /\ req = [t \in Txns |-> NoReq]
  /\ sent = [t \in Txns |-> 0] /\ began = [t \in Txns |-> 0]
  /\ mid = [t \in Txns |-> NoMsg] /\ existing = [t \in Txns |-> NoMsg]
  /\ todo = [t \in Txns |-> {}] /\ targets = [t \in Txns |-> {}]
  /\ msgs = {} /\ idem = [k \in Accounts \X ClientIds |-> NoMsg]
  /\ created = [j \in Jtis |-> [m \in Ids |-> NoRow]]
  /\ acked = {} /\ collected = {}
  /\ cpc = [c \in Channels |-> "off"] /\ since = [c \in Channels |-> 0]
  /\ page = [c \in Channels |-> {}] /\ due = [c \in Channels |-> {}]
  /\ got = [j \in Jtis |-> {}]

-----------------------------------------------------------------------------
(* A talk: services/chat/src/talk.rs up to the store, then insert_fanout *)

\* do_user_talk / do_group_talk stamp send_time and call the store.
Talk(t, r) ==
  /\ pc[t] = "idle"
  /\ pc' = [pc EXCEPT ![t] = "sent"]
  /\ req' = [req EXCEPT ![t] = r]
  /\ sent' = [sent EXCEPT ![t] = now]
  /\ UNCHANGED <<now, nextId, loc, holder, began, mid, todo, existing, targets,
                 dbVars, clientVars>>

\* insert_fanout_pending draws the id, then begins the transaction.
BeginInsert(t) ==
  /\ pc[t] = "sent" /\ nextId <= MaxMsgs
  /\ pc' = [pc EXCEPT ![t] = "locking"]
  /\ mid' = [mid EXCEPT ![t] = nextId] /\ nextId' = nextId + 1
  /\ began' = [began EXCEPT ![t] = now]
  /\ todo' = [todo EXCEPT ![t] = LockSet(t)]
  /\ UNCHANGED <<now, loc, holder, req, sent, existing, targets, dbVars, clientVars>>

\* One pg_advisory_xact_lock per account; a transaction may take a key again.
LockInboxAccount(t, a) ==
  /\ pc[t] = "locking" /\ IsNextToLock(t, a)
  /\ holder[LockKey[a]] \in {Free, t}
  /\ holder' = [holder EXCEPT ![LockKey[a]] = t]
  /\ todo' = [todo EXCEPT ![t] = @ \ {a}]
  /\ UNCHANGED <<now, nextId, loc, pc, req, sent, began, mid, existing, targets,
                 dbVars, clientVars>>

\* All locks held: look the client id up.
ReadIdempotency(t) ==
  /\ pc[t] = "locking" /\ todo[t] = {}
  /\ pc' = [pc EXCEPT ![t] = "resolving"]
  /\ existing' = [existing EXCEPT ![t] =
       IF req[t].cid = NoCid THEN NoMsg ELSE idem[<<req[t].sender, req[t].cid>>]]
  /\ todo' = [todo EXCEPT ![t] = req[t].recv]
  /\ UNCHANGED <<now, nextId, loc, holder, req, sent, began, mid, targets,
                 dbVars, clientVars>>

\* resolve_targets: the recipients' locations in Redis, one account at a time. (A
\* royal started without Redis has no session store and takes the caller's
\* online_targets instead; that deployment is not modelled.)
ResolveTargets(t, a) ==
  /\ pc[t] = "resolving" /\ a \in todo[t]
  /\ todo' = [todo EXCEPT ![t] = @ \ {a}]
  /\ targets' = [targets EXCEPT ![t] = @ \cup {JtiOf[c] : c \in {d \in loc : Acct(d) = a}}]
  /\ UNCHANGED <<now, nextId, loc, holder, pc, req, sent, began, mid, existing,
                 dbVars, clientVars>>

\* The client id was used before: receipts for the old message, no new one.
CommitDuplicate(t) ==
  /\ pc[t] = "resolving" /\ todo[t] = {} /\ existing[t] # NoMsg
  /\ created' = InsertReceipts(targets[t], {existing[t]}, began[t])
  /\ mid' = [mid EXCEPT ![t] = existing[t]]
  /\ holder' = Released(t)
  /\ pc' = [pc EXCEPT ![t] = "pushing"]
  /\ UNCHANGED <<now, nextId, loc, req, sent, began, todo, existing, targets,
                 msgs, idem, acked, collected, clientVars>>

\* The row the transaction writes to message_content and message_index.
NewMessage(t) == [id |-> mid[t], sender |-> req[t].sender, recv |-> req[t].recv,
                  cid |-> req[t].cid, sent |-> sent[t]]

\* INSERT INTO message_idempotency ... ON CONFLICT DO NOTHING affected no row.
ClaimLost(t) == req[t].cid # NoCid /\ idem[<<req[t].sender, req[t].cid>>] # NoMsg

\* Mutant of CommitMessage: the client id is never claimed.
CommitMessageNoClaim(t) ==
  /\ pc[t] = "resolving" /\ todo[t] = {} /\ existing[t] = NoMsg
  /\ holder' = Released(t)
  /\ pc' = [pc EXCEPT ![t] = "pushing"]
  /\ msgs' = msgs \cup {NewMessage(t)}
  /\ created' = InsertReceipts(targets[t], {mid[t]}, began[t])
  /\ UNCHANGED <<now, nextId, loc, req, sent, began, mid, todo, existing, targets,
                 idem, acked, collected, clientVars>>

\* Content, index, idempotency claim and receipts in one commit; a lost claim
\* rolls back and tries again from a fresh id.
CommitMessage(t) ==
  /\ pc[t] = "resolving" /\ todo[t] = {} /\ existing[t] = NoMsg
  /\ holder' = Released(t)
  /\ IF ClaimLost(t)
     THEN /\ pc' = [pc EXCEPT ![t] = "sent"]
          /\ UNCHANGED <<msgs, idem, created>>
     ELSE /\ pc' = [pc EXCEPT ![t] = "pushing"]
          /\ msgs' = msgs \cup {NewMessage(t)}
          /\ idem' = IF req[t].cid = NoCid THEN idem
                     ELSE [idem EXCEPT ![<<req[t].sender, req[t].cid>>] = mid[t]]
          /\ created' = InsertReceipts(targets[t], {mid[t]}, began[t])
  /\ UNCHANGED <<now, nextId, loc, req, sent, began, mid, todo, existing, targets,
                 acked, collected, clientVars>>

\* The handler is done with request t.
Forget(t) ==
  /\ pc' = [pc EXCEPT ![t] = "idle"] /\ req' = [req EXCEPT ![t] = NoReq]
  /\ sent' = [sent EXCEPT ![t] = 0] /\ began' = [began EXCEPT ![t] = 0]
  /\ mid' = [mid EXCEPT ![t] = NoMsg] /\ existing' = [existing EXCEPT ![t] = NoMsg]
  /\ todo' = [todo EXCEPT ![t] = {}] /\ targets' = [targets EXCEPT ![t] = {}]

\* A Redis error or timeout, a database error, a crash: the transaction rolls back.
AbortInsert(t) ==
  /\ pc[t] \in {"sent", "locking", "resolving"}
  /\ Forget(t)
  /\ holder' = Released(t)
  /\ UNCHANGED <<now, nextId, loc, dbVars, clientVars>>

\* Devices whose client may take the push: logged in and located.
Reachable(m) == {JtiOf[c] : c \in {d \in loc : cpc[d] \in LoggedIn /\ Addressed(m, Acct(d))}}

\* persist_then_push: dispatch to the locations found now; any push may be lost
\* on the way, dropped by a full queue or fail to persist.
PushTalk(t) ==
  /\ pc[t] = "pushing"
  /\ \E devices \in SUBSET Reachable(mid[t]) :
       got' = [j \in Jtis |-> IF j \in devices THEN got[j] \cup {mid[t]} ELSE got[j]]
  /\ Forget(t)
  /\ UNCHANGED <<now, nextId, loc, holder, dbVars, cpc, since, page, due>>

-----------------------------------------------------------------------------
(* Login, sync and logout of a channel *)

\* do_sys_login: the location is published before the backfill.
LoginAdd(c) ==
  /\ cpc[c] = "off" /\ c \notin loc
  /\ loc' = loc \cup {c}
  /\ cpc' = [cpc EXCEPT ![c] = "added"]
  /\ UNCHANGED <<now, nextId, holder, txnVars, dbVars, since, page, got, due>>

\* backfill_delivery: compute the cutoff, begin, ask for the account's lock.
BeginBackfill(c) ==
  /\ cpc[c] = "added"
  /\ cpc' = [cpc EXCEPT ![c] = "waiting"]
  /\ since' = [since EXCEPT ![c] = now]
  /\ UNCHANGED <<now, nextId, loc, holder, txnVars, dbVars, page, got, due>>

\* Mutant of LockBackfill: the backfill does not take the account's lock.
LockBackfillSkipped(c) ==
  /\ cpc[c] = "waiting"
  /\ cpc' = [cpc EXCEPT ![c] = "filling"]
  /\ UNCHANGED <<now, nextId, loc, holder, txnVars, dbVars, since, page, got, due>>

LockBackfill(c) ==
  /\ cpc[c] = "waiting"
  /\ holder[LockKey[Acct(c)]] = Free
  /\ holder' = [holder EXCEPT ![LockKey[Acct(c)]] = c]
  /\ cpc' = [cpc EXCEPT ![c] = "filling"]
  /\ UNCHANGED <<now, nextId, loc, txnVars, dbVars, since, page, got, due>>

\* The messages the INSERT ... SELECT reads: received, not older than the cutoff.
Backfillable(c) == {r.id : r \in {q \in msgs : Acct(c) \in q.recv /\ q.sent >= since[c] - TTL}}

\* Mutant of CommitBackfill: ON CONFLICT DO UPDATE SET acked_at = NULL.
CommitBackfillResets(c) ==
  /\ cpc[c] = "filling"
  /\ created' = InsertReceipts({JtiOf[c]}, Backfillable(c), since[c])
  /\ acked' = acked \ ({JtiOf[c]} \X Backfillable(c))
  /\ holder' = Released(c)
  /\ cpc' = [cpc EXCEPT ![c] = "syncing"]
  /\ due' = [due EXCEPT ![c] = Backfillable(c)]
  /\ UNCHANGED <<now, nextId, loc, txnVars, msgs, idem, collected, since, page, got>>

CommitBackfill(c) ==
  /\ cpc[c] = "filling"
  /\ created' = InsertReceipts({JtiOf[c]}, Backfillable(c), since[c])
  /\ holder' = Released(c)
  /\ cpc' = [cpc EXCEPT ![c] = "syncing"]
  /\ due' = [due EXCEPT ![c] = Backfillable(c)]
  /\ UNCHANGED <<now, nextId, loc, txnVars, msgs, idem, acked, collected, since, page, got>>

\* The channel's state is dropped; its location may outlive it when the delete
\* fails or the gateway's sign-out never reaches the chat service.
Leave(c) ==
  /\ cpc' = [cpc EXCEPT ![c] = "off"] /\ since' = [since EXCEPT ![c] = 0]
  /\ page' = [page EXCEPT ![c] = {}] /\ due' = [due EXCEPT ![c] = {}]
  /\ loc' \in {loc, loc \ {c}}

\* Mutant of FailLogin: the lock of the failed backfill is not released.
FailLoginKeepsLock(c) ==
  /\ cpc[c] \in {"added", "waiting", "filling"}
  /\ Leave(c)
  /\ UNCHANGED <<now, nextId, holder, txnVars, dbVars, got>>

\* The backfill failed: delete the location, answer SystemException.
FailLogin(c) ==
  /\ cpc[c] \in {"added", "waiting", "filling"}
  /\ Leave(c)
  /\ holder' = Released(c)
  /\ UNCHANGED <<now, nextId, txnVars, dbVars, got>>

\* do_sys_logout, or the connection is lost.
Logout(c) ==
  /\ cpc[c] \in LoggedIn
  /\ Leave(c)
  /\ UNCHANGED <<now, nextId, holder, txnVars, dbVars, got>>

\* Redis EXPIRE on the account's location hash.
ExpireLocations(a) ==
  /\ \E c \in loc : Acct(c) = a
  /\ loc' = {c \in loc : Acct(c) # a}
  /\ UNCHANGED <<now, nextId, holder, txnVars, dbVars, clientVars>>

\* SyncEngine::run asks for a page; an empty one ends the sync.
SyncPull(c) ==
  /\ cpc[c] = "syncing" /\ page[c] = {}
  /\ \E P \in SUBSET Visible(JtiOf[c]) :
       /\ IsPage(JtiOf[c], P)
       /\ page' = [page EXCEPT ![c] = P]
       /\ cpc' = [cpc EXCEPT ![c] = IF P = {} THEN "online" ELSE "syncing"]
  /\ UNCHANGED <<now, nextId, loc, holder, txnVars, dbVars, since, got, due>>

\* persist_talks wrote the page to the local store.
SyncPersist(c) ==
  /\ cpc[c] = "syncing" /\ page[c] # {} /\ ~ (page[c] \subseteq got[JtiOf[c]])
  /\ got' = [got EXCEPT ![JtiOf[c]] = @ \cup page[c]]
  /\ UNCHANGED <<now, nextId, loc, holder, txnVars, dbVars, cpc, since, page, due>>

\* persist_talks failed: SyncFailed, no ack, the session goes on without sync.
SyncPersistFailed(c) ==
  /\ cpc[c] = "syncing" /\ ~ (page[c] \subseteq got[JtiOf[c]])
  /\ cpc' = [cpc EXCEPT ![c] = "stalled"] /\ page' = [page EXCEPT ![c] = {}]
  /\ UNCHANGED <<now, nextId, loc, holder, txnVars, dbVars, since, got, due>>

\* UPDATE pending_delivery SET acked_at ... WHERE acked_at IS NULL.
Acknowledge(j, ids) == acked' = acked \cup {<<j, m>> : m \in {n \in ids : HasRow(j, n)}}

\* Mutant of SyncAck: a full page ends the sync too.
SyncAckStopsEarly(c) ==
  /\ cpc[c] = "syncing" /\ page[c] # {} /\ page[c] \subseteq got[JtiOf[c]]
  /\ Acknowledge(JtiOf[c], page[c])
  /\ page' = [page EXCEPT ![c] = {}]
  /\ cpc' = [cpc EXCEPT ![c] = IF Cardinality(page[c]) <= PageSize THEN "online" ELSE "syncing"]
  /\ UNCHANGED <<now, nextId, loc, holder, txnVars, msgs, idem, created, collected,
                 since, got, due>>

\* ack_batch of the page; a page shorter than the limit was the last.
SyncAck(c) ==
  /\ cpc[c] = "syncing" /\ page[c] # {} /\ page[c] \subseteq got[JtiOf[c]]
  /\ Acknowledge(JtiOf[c], page[c])
  /\ page' = [page EXCEPT ![c] = {}]
  /\ cpc' = [cpc EXCEPT ![c] = IF Cardinality(page[c]) < PageSize THEN "online" ELSE "syncing"]
  /\ UNCHANGED <<now, nextId, loc, holder, txnVars, msgs, idem, created, collected,
                 since, got, due>>

\* The live worker acks a pushed message it has stored.
LiveAck(c, m) ==
  /\ cpc[c] \in LoggedIn /\ m \in got[JtiOf[c]] /\ Pending(JtiOf[c], m)
  /\ Acknowledge(JtiOf[c], {m})
  /\ UNCHANGED <<now, nextId, loc, holder, txnVars, msgs, idem, created, collected, clientVars>>

-----------------------------------------------------------------------------
(* Maintenance *)

ExpiredRows == {p \in Jtis \X Ids : HasRow(p[1], p[2]) /\ created[p[1]][p[2]] + TTL < now}

\* gc_expired_deliveries deletes expired rows, a batch at a time.
GcExpiredDeliveries ==
  \E S \in SUBSET ExpiredRows :
    /\ S # {}
    /\ created' = [j \in Jtis |-> [m \in Ids |->
                     IF <<j, m>> \in S THEN NoRow ELSE created[j][m]]]
    /\ acked' = acked \ S
    /\ collected' = collected \cup S
    /\ UNCHANGED <<now, nextId, loc, holder, txnVars, msgs, idem, clientVars>>

Tick ==
  /\ now < MaxTime /\ now' = now + 1
  /\ UNCHANGED <<nextId, loc, holder, txnVars, dbVars, clientVars>>

TxnStep(t) ==
  \/ BeginInsert(t) \/ ReadIdempotency(t)
  \/ \E a \in Accounts : LockInboxAccount(t, a) \/ ResolveTargets(t, a)
  \/ CommitDuplicate(t) \/ CommitMessage(t) \/ PushTalk(t)

LoginStep(c) == BeginBackfill(c) \/ LockBackfill(c) \/ CommitBackfill(c)
SyncStep(c)  == SyncPull(c) \/ SyncPersist(c) \/ SyncAck(c)

Next ==
  \/ \E t \in Txns : \/ \E r \in Requests : Talk(t, r)
                     \/ TxnStep(t) \/ AbortInsert(t)
  \/ \E c \in Channels : \/ LoginAdd(c) \/ LoginStep(c) \/ SyncStep(c)
                         \/ FailLogin(c) \/ Logout(c) \/ SyncPersistFailed(c)
                         \/ \E m \in Ids : LiveAck(c, m)
  \/ \E a \in Accounts : ExpireLocations(a)
  \/ GcExpiredDeliveries
  \/ Tick

Spec == Init /\ [][Next]_vars

\* Handlers and clients run on while nothing fails.  Postgres queues the waiters
\* of an advisory lock, so a waiter whose lock keeps becoming free gets it.
Fairness ==
  /\ \A t \in Txns : WF_vars(TxnStep(t)) /\ SF_vars(\E a \in Accounts : LockInboxAccount(t, a))
  /\ \A c \in Channels : /\ WF_vars(LoginStep(c)) /\ SF_vars(LockBackfill(c))
                         /\ WF_vars(SyncStep(c))

FairSpec == Spec /\ Fairness

-----------------------------------------------------------------------------
(* Properties *)

\* The receipt of m on device j has run out, or the collector has removed it.
Expired(j, m) == \/ <<j, m>> \in collected
                 \/ HasRow(j, m) /\ created[j][m] + TTL <= now

\* A device whose login has finished, and whose location is published, has a
\* receipt for every committed message addressed to it within the lifetime of
\* receipts: between resolve_targets and backfill_delivery none slips through.
NoMissedReceipt ==
  \A c \in Channels, r \in msgs :
    /\ cpc[c] \in LoggedIn /\ c \in loc
    /\ Acct(c) \in r.recv /\ r.sent + TTL >= now
    => HasRow(JtiOf[c], r.id) \/ <<JtiOf[c], r.id>> \in collected

\* One message per (sender, client id), whatever retries overlap: the claim in
\* message_idempotency and the sender's lock together.
OneMessagePerClientId ==
  \A r, q \in msgs : r.sender = q.sender /\ r.cid = q.cid /\ r.cid # NoCid => r = q

\* The idempotency row a talk read stays as it read it until it commits, so the
\* retry of insert_fanout is never needed: the sender's lock is enough.
ClaimStable ==
  \A t \in Txns : pc[t] = "resolving" /\ existing[t] = NoMsg => ~ ClaimLost(t)

\* Persist, then ack: a receipt is acknowledged only when the device has stored
\* the message, on the sync path and on the live path.
PersistThenAck == \A p \in acked : p[2] \in got[p[1]]

\* A client whose sync ended normally has every message that was committed for
\* it when its login finished, except those whose receipt ran out meanwhile:
\* stopping on a short page loses nothing.
SyncDrained ==
  \A c \in Channels : cpc[c] = "online" =>
    \A m \in due[c] : m \in got[JtiOf[c]] \/ Expired(JtiOf[c], m)

\* An acknowledged receipt stays acknowledged until the collector removes it: a
\* later backfill or duplicate talk does not bring the message back.
AckIsFinal == [][\A p \in acked : p \in acked' \/ p \in collected']_vars

\* The tables as a MessageStore sees them: messages, the claims on client ids, the
\* receipt rows.
Contract == INSTANCE MessageStore WITH
  Devices  <- Jtis,
  stored   <- {<<r.id, r.sender, r.cid>> : r \in msgs},
  claims   <- {<<k[1], k[2], idem[k]>> : k \in {l \in Accounts \X ClientIds : idem[l] # NoMsg}},
  receipts <- {p \in Jtis \X Ids : HasRow(p[1], p[2])}

\* The Postgres store keeps the promise of a message store, though a talk is many
\* statements and logins, acks and the collector write the same rows: content,
\* claim and receipts appear together under a fresh id, a client id keeps its
\* message, and an acknowledged receipt is collected or stays acknowledged.
ImplementsMessageStore == Contract!Spec

\* The holder of advisory locks waits only for accounts above those it holds, so
\* talks and backfills never wait for each other in a circle.
LockOrder ==
  \A t \in Txns, a \in Accounts :
    pc[t] = "locking" /\ holder[LockKey[a]] = t => \A b \in todo[t] : a < b

\* A talk that has begun its transaction ends it: it is never left waiting for a
\* lock by another talk or by a backfill.
TalkFinishes ==
  \A t \in Txns : pc[t] \in {"locking", "resolving"} ~> pc[t] \in {"pushing", "idle"}

\* A login that published its location answers, and its sync comes to an end.
LoginFinishes == \A c \in Channels : cpc[c] = "added" ~> cpc[c] \in {"off", "online", "stalled"}

\* Neither the talk handler nor the login handler hangs, although both take the
\* advisory locks of the inbox (insert_user_message, backfill_pending).
HandlersFinish == TalkFinishes /\ LoginFinishes

-----------------------------------------------------------------------------
(* The inductive invariant behind the safety properties *)

InTxn == {"locking", "resolving"}

\* The locks a transaction has asked for and been given are its own.
LocksHeld ==
  /\ \A t \in Txns : pc[t] = "locking" =>
       /\ todo[t] \subseteq LockSet(t)
       /\ \A a \in LockSet(t) \ todo[t] : holder[LockKey[a]] = t
  /\ \A t \in Txns : pc[t] = "resolving" => \A a \in LockSet(t) : holder[LockKey[a]] = t
  /\ \A c \in Channels : cpc[c] = "filling" => holder[LockKey[Acct(c)]] = c

\* A transaction holds the locks it has asked for and no other; the ones it has
\* still to ask for come after them.
LocksOrdered ==
  \A t \in Txns, a \in Accounts : holder[LockKey[a]] = t =>
    /\ pc[t] \in InTxn
    /\ pc[t] = "locking" => a \in LockSet(t) /\ \A b \in todo[t] : a < b

\* A transaction works under an id of its own that no message has.
FreshIds ==
  /\ \A r \in msgs : r.id < nextId
  /\ \A r, q \in msgs : r.id = q.id => r = q
  /\ \A t \in Txns : pc[t] \in InTxn =>
       /\ mid[t] # NoMsg /\ mid[t] < nextId
       /\ \A r \in msgs : r.id # mid[t]
       /\ \A u \in Txns : u # t /\ pc[u] \in InTxn => mid[u] # mid[t]
  /\ \A t \in Txns : pc[t] = "pushing" => mid[t] # NoMsg

\* Every keyed message is the one its idempotency row names.
ClaimsRecorded == \A r \in msgs : r.cid # NoCid => idem[<<r.sender, r.cid>>] = r.id

\* What a talk resolved still covers every login that has finished since: such a
\* login would have needed the lock the talk holds.
TargetsComplete ==
  \A t \in Txns, c \in Channels :
    /\ pc[t] = "resolving" /\ c \in loc /\ cpc[c] \in LoggedIn
    /\ Acct(c) \in req[t].recv \ todo[t]
    => JtiOf[c] \in targets[t]

BackfillsInPast == \A c \in Channels : since[c] <= now

\* What was due at login has its receipt, or had it.
DueHasReceipt ==
  \A c \in Channels : cpc[c] \in LoggedIn =>
    \A m \in due[c] : /\ Addressed(m, Acct(c))
                      /\ HasRow(JtiOf[c], m) \/ <<JtiOf[c], m>> \in collected

\* Only a syncing client holds a page.
PageInSync == \A c \in Channels : cpc[c] # "syncing" => page[c] = {}

\* A page shorter than the limit is the rest of what is due.
ShortPageIsLast ==
  \A c \in Channels : cpc[c] = "syncing" /\ page[c] # {} /\ Cardinality(page[c]) < PageSize =>
    \A m \in due[c] : m \in page[c] \/ m \in got[JtiOf[c]] \/ Expired(JtiOf[c], m)

IInv ==
  /\ TypeOK /\ LocksHeld /\ FreshIds /\ ClaimsRecorded /\ ClaimStable
  /\ TargetsComplete /\ BackfillsInPast /\ NoMissedReceipt
  /\ PersistThenAck /\ DueHasReceipt /\ PageInSync /\ ShortPageIsLast /\ SyncDrained
=============================================================================
