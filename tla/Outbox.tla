------------------------------- MODULE Outbox -------------------------------
(***************************************************************************)
(* The SDK's outbox:                                                       *)
(*                                                                         *)
(*   crates/kim-sdk/src/lib.rs           start_session, stop_session,      *)
(*                                       enqueue_message, cancel_send,     *)
(*                                       retry_send, delete_thread,        *)
(*                                       wake_outbox, spawn_outbox_worker  *)
(*   crates/kim-sdk/src/session.rs       bump_epoch                        *)
(*   crates/kim-sdk/src/outbox/pump.rs   run_once                          *)
(*   crates/kim-sdk/src/store/outbox.rs  the outbox rows and the status of *)
(*                                       the messages they belong to       *)
(*   crates/kim-sdk/src/store/mod.rs     persist_enqueue, persist_talks_tx *)
(*                                                                         *)
(* The rows are durable.  Every session has a worker of its own, which     *)
(* outlives the session until it looks at its cancellation token; a step   *)
(* of it is what run_once does between two awaits.  Writes go through one  *)
(* store task that refuses an operation of another epoch.  The caller      *)
(* issues start_session and stop_session one after the other; attempt      *)
(* counts, bodies and the order of the rows are left out.                  *)
(***************************************************************************)
EXTENDS Naturals

CONSTANTS
  Accounts, Ids,
  Owner,      \* the account that enqueues the client id
  Dests, Dest,
  Images,     \* ids whose body must be uploaded before it is sent
  BotReplies, \* ids sent with chat.bot.reply
  NoAccount, NoId,
  KickCap,    \* the length of a worker's kick channel
  MaxEpoch    \* bound: sessions started between two crashes

ASSUME OutboxAssumption ==
  /\ Owner \in [Ids -> Accounts] /\ Dest \in [Ids -> Dests]
  /\ Images \subseteq Ids /\ BotReplies \subseteq Ids
  /\ NoAccount \notin Accounts /\ NoId \notin Ids
  /\ KickCap \in Nat \ {0} /\ MaxEpoch \in Nat

Workers == 1 .. MaxEpoch

VARIABLES
  \* the store
  status,   \* status of the outbox row, "none" without one
  due,      \* next_attempt_at has passed
  msg,      \* status of the row in messages
  numbered, \* ids whose row in messages has the server's message id
  \* KimSdk
  tok,      \* the cancellation tokens up to tok - 1 are cancelled
  epoch, session,
  client,   \* the session whose protocol client is installed, 0 before the first
  acct,     \* the account that the session's protocol client logs in with
  kickTo,   \* the session that runs: its worker's channel is in outbox_kick; 0 for none
  doomed,   \* ids that cancel_send or delete_thread is about to delete
  owed,     \* a command has committed and is about to kick
  runOf,    \* the worker whose run outbox_run cancels, 0 before the first
  cmd, cmdAcct,  \* where start_session or stop_session is
  \* the workers
  wpc, kicks, rcancel, wsess, wep, wclient, wdue, wcur, prev,
  \* the server: what it has accepted, and from whom
  accepted,
  \* history
  asked     \* ids the session was told to send, not attempted or given up since

store == <<status, due, msg, numbered>>
sdk   == <<doomed, tok, epoch, session, client, acct, kickTo, runOf, cmd, cmdAcct>>
snap  == <<rcancel, wsess, wep, wclient, wdue, wcur, prev>>
vars  == <<store, sdk, owed, wpc, kicks, snap, accepted, asked>>

Pcs == {"none", "wait", "session", "epoch", "proto", "rows",
        "upload", "recheck", "send", "ok", "retry", "fail", "drain", "again", "due", "ended"}

(***************************************************************************)
(* Helpers.                                                                *)
(***************************************************************************)
DueOf(a)     == {i \in Ids : Owner[i] = a /\ status[i] = "pending" /\ due[i]}
PendingOf(a) == {i \in Ids : Owner[i] = a /\ status[i] = "pending"}
Alive(i)     == status[i] \in {"pending", "failed"}

(* Mutant: the run's token is not a child of the session's. *)
CancelledRunOnly(w) == rcancel[w]

(* A run is cancelled by itself or with its session. *)
Cancelled(w) == rcancel[w] \/ w < tok

(* try_send on the current channel. *)
Kicked(q) == IF q < KickCap THEN q + 1 ELSE q

Goto(w, pc) == wpc' = [wpc EXCEPT ![w] = pc]

Init ==
  /\ status = [i \in Ids |-> "none"] /\ due = [i \in Ids |-> FALSE]
  /\ msg = [i \in Ids |-> "none"] /\ numbered = {}
  /\ tok = 0 /\ epoch = 0 /\ session = NoAccount /\ client = 0
  /\ acct = [w \in Workers |-> NoAccount]
  /\ kickTo = 0 /\ doomed = {} /\ owed = FALSE /\ runOf = 0 /\ cmd = "idle" /\ cmdAcct = NoAccount
  /\ wpc = [w \in Workers |-> "none"] /\ kicks = [w \in Workers |-> 0]
  /\ rcancel = [w \in Workers |-> FALSE] /\ wsess = [w \in Workers |-> NoAccount]
  /\ wep = [w \in Workers |-> 0] /\ wclient = [w \in Workers |-> 0]
  /\ wdue = [w \in Workers |-> {}] /\ wcur = [w \in Workers |-> NoId]
  /\ prev = [w \in Workers |-> {}]
  /\ accepted = {} /\ asked = {}

(***************************************************************************)
(* start_session and stop_session.                                         *)
(***************************************************************************)
(* bump_epoch: the old token is cancelled before the epoch moves on. *)
BeginStart(a) ==
  /\ cmd = "idle" /\ tok < MaxEpoch
  /\ cmd' = "start" /\ cmdAcct' = a
  /\ tok' = tok + 1
  /\ UNCHANGED <<store, doomed, epoch, session, client, acct, kickTo, runOf, owed, wpc,
                 kicks, snap, accepted, asked>>

StartBump ==
  /\ cmd = "start"
  /\ cmd' = "replace"
  /\ epoch' = epoch + 1
  /\ kickTo' = 0
  /\ asked' = {}
  /\ UNCHANGED <<store, doomed, tok, session, client, acct, runOf, cmdAcct, owed, wpc, kicks,
                 snap, accepted>>

ReplaceSession ==
  /\ cmd = "replace"
  /\ cmd' = "install"
  /\ session' = cmdAcct
  /\ UNCHANGED <<store, doomed, tok, epoch, client, acct, kickTo, runOf, cmdAcct, owed, wpc,
                 kicks, snap, accepted, asked>>

InstallProtocol ==
  /\ cmd = "install"
  /\ cmd' = "spawn"
  /\ client' = epoch
  /\ acct' = [acct EXCEPT ![epoch] = cmdAcct]
  /\ UNCHANGED <<store, doomed, tok, epoch, session, kickTo, runOf, cmdAcct, owed, wpc,
                 kicks, snap, accepted, asked>>

(* spawn_outbox_worker with its first kick, and ensure_running. *)
SpawnWorker ==
  /\ cmd = "spawn"
  /\ cmd' = "idle" /\ cmdAcct' = NoAccount
  /\ kickTo' = epoch
  /\ wpc' = [wpc EXCEPT ![epoch] = "wait"]
  /\ kicks' = [kicks EXCEPT ![epoch] = 1]
  /\ asked' = DueOf(session)
  /\ UNCHANGED <<store, doomed, tok, epoch, session, client, acct, runOf, owed, snap,
                 accepted>>

BeginStop ==
  /\ cmd = "idle" /\ tok < MaxEpoch
  /\ cmd' = "stop"
  /\ tok' = tok + 1
  /\ UNCHANGED <<store, doomed, epoch, session, client, acct, kickTo, runOf, cmdAcct, owed,
                 wpc, kicks, snap, accepted, asked>>

EndStop ==
  /\ cmd = "stop"
  /\ cmd' = "idle"
  /\ epoch' = epoch + 1
  /\ rcancel' = [w \in Workers |-> rcancel[w] \/ w = runOf]
  /\ kickTo' = 0
  /\ session' = NoAccount
  /\ asked' = {}
  /\ UNCHANGED <<store, doomed, tok, client, acct, runOf, cmdAcct, owed, wpc, kicks, wsess, wep,
                 wclient, wdue, wcur, prev, accepted>>

(* The process dies; the database and the server keep what they have. *)
Crash ==
  /\ tok > 0
  /\ tok' = 0 /\ epoch' = 0 /\ session' = NoAccount /\ client' = 0
  /\ acct' = [w \in Workers |-> NoAccount]
  /\ kickTo' = 0 /\ doomed' = {} /\ owed' = FALSE /\ runOf' = 0 /\ cmd' = "idle" /\ cmdAcct' = NoAccount
  /\ wpc' = [w \in Workers |-> "none"] /\ kicks' = [w \in Workers |-> 0]
  /\ rcancel' = [w \in Workers |-> FALSE] /\ wsess' = [w \in Workers |-> NoAccount]
  /\ wep' = [w \in Workers |-> 0] /\ wclient' = [w \in Workers |-> 0]
  /\ wdue' = [w \in Workers |-> {}] /\ wcur' = [w \in Workers |-> NoId]
  /\ prev' = [w \in Workers |-> {}]
  /\ asked' = {}
  /\ UNCHANGED <<store, accepted>>

(***************************************************************************)
(* Commands.  Each commits first and kicks afterwards.                     *)
(***************************************************************************)
(* prune: of a thread over MAX_MESSAGES the oldest messages go, whichever  *)
(* they are, but none whose outbox row is alive.                           *)
Prunable(a, d) ==
  {i \in Ids : Owner[i] = a /\ Dest[i] = d /\ msg[i] # "none" /\ ~Alive(i)}

(* Mutant: the kick is sent before the row is there. *)
InsertRowKickFirst(i, S) ==
  /\ session = Owner[i] /\ ~owed /\ kickTo # 0
  /\ status' = [status EXCEPT ![i] = "pending"]
  /\ due' = [due EXCEPT ![i] = IF status[i] = "none" THEN TRUE ELSE due[i]]
  /\ msg' = [j \in Ids |-> IF j = i THEN "sending" ELSE IF j \in S THEN "none" ELSE msg[j]]
  /\ numbered' = numbered \ (S \ {i})
  /\ asked' = IF status[i] = "none" \/ due[i] THEN asked \cup {i} ELSE asked
  /\ UNCHANGED <<sdk, owed, wpc, kicks, snap, accepted>>

(* insert_own, insert and prune in one transaction: rows of the same id    *)
(* are overwritten and keep their next_attempt_at and their message id.    *)
InsertRow(i, S) ==
  /\ session = Owner[i] /\ ~owed
  /\ status' = [status EXCEPT ![i] = "pending"]
  /\ due' = [due EXCEPT ![i] = IF status[i] = "none" THEN TRUE ELSE due[i]]
  /\ msg' = [j \in Ids |-> IF j = i THEN "sending" ELSE IF j \in S THEN "none" ELSE msg[j]]
  /\ numbered' = numbered \ (S \ {i})
  /\ owed' = TRUE
  /\ asked' = IF status[i] = "none" \/ due[i] THEN asked \cup {i} ELSE asked
  /\ UNCHANGED <<sdk, wpc, kicks, snap, accepted>>

Enqueue(i) ==
  i \notin BotReplies /\ \E S \in SUBSET Prunable(Owner[i], Dest[i]) : InsertRow(i, S)
EnqueueBotReply(i) ==
  i \in BotReplies /\ \E S \in SUBSET Prunable(Owner[i], Dest[i]) : InsertRow(i, S)

(* Talks come in and are stored.  An own one, T, that has a row with its   *)
(* message id is merged into it as sent (apply_talk, merge_stored); one    *)
(* without gets a row under the server's key, which is in SdkViews.  The   *)
(* thread is pruned then too.                                              *)
PersistTalks(d) ==
  /\ session # NoAccount
  /\ \E T \in SUBSET {i \in numbered : Owner[i] = session /\ Dest[i] = d},
        S \in SUBSET Prunable(session, d) :
       /\ msg' = [i \in Ids |-> IF i \in S THEN "none" ELSE IF i \in T THEN "sent" ELSE msg[i]]
       /\ numbered' = numbered \ S
  /\ UNCHANGED <<status, due, sdk, owed, wpc, kicks, snap, accepted, asked>>

(* Mutant: the message keeps showing as failed. *)
RetrySendRowOnly(i) ==
  /\ session = Owner[i] /\ ~owed /\ Alive(i)
  /\ status' = [status EXCEPT ![i] = "pending"]
  /\ due' = [due EXCEPT ![i] = TRUE]
  /\ owed' = TRUE
  /\ asked' = asked \cup {i}
  /\ UNCHANGED <<msg, numbered, sdk, wpc, kicks, snap, accepted>>

RetrySend(i) ==
  /\ session = Owner[i] /\ ~owed /\ Alive(i)
  /\ status' = [status EXCEPT ![i] = "pending"]
  /\ due' = [due EXCEPT ![i] = TRUE]
  /\ msg' = [msg EXCEPT ![i] = "sending"]
  /\ owed' = TRUE
  /\ asked' = asked \cup {i}
  /\ UNCHANGED <<numbered, sdk, wpc, kicks, snap, accepted>>

(* notify_radio_up, notify_foreground: due_now. *)
WakeOutbox ==
  /\ kickTo # 0 /\ ~owed
  /\ due' = [i \in Ids |-> due[i] \/ i \in PendingOf(session)]
  /\ owed' = TRUE
  /\ asked' = asked \cup PendingOf(session)
  /\ UNCHANGED <<status, msg, numbered, sdk, wpc, kicks, snap, accepted>>

KickOutbox ==
  /\ owed
  /\ owed' = FALSE
  /\ kicks' = [w \in Workers |-> IF w = kickTo THEN Kicked(kicks[w]) ELSE kicks[w]]
  /\ UNCHANGED <<store, sdk, wpc, snap, accepted, asked>>

(* cancel_send and delete_thread cancel the run in outbox_run first. *)
CancelRun(S) ==
  /\ session # NoAccount /\ doomed = {}
  /\ rcancel' = [w \in Workers |-> rcancel[w] \/ w = runOf]
  /\ doomed' = S
  /\ UNCHANGED <<store, tok, epoch, session, client, acct, kickTo, runOf, cmd, cmdAcct,
                 owed, wpc, kicks, wsess, wep, wclient, wdue, wcur,
                 prev, accepted, asked>>

CancelSend(i)   == session = Owner[i] /\ status[i] # "none" /\ CancelRun({i})
DeleteThread(d) == CancelRun({i \in Ids : Owner[i] = session /\ Dest[i] = d})

(* Then the rows go with their messages, if the session is still theirs.   *)
DeleteRows ==
  LET S == {i \in doomed : Owner[i] = session} IN
  /\ doomed # {}
  /\ doomed' = {}
  /\ status' = [i \in Ids |-> IF i \in S THEN "none" ELSE status[i]]
  /\ due' = [i \in Ids |-> due[i] /\ i \notin S]
  /\ msg' = [i \in Ids |-> IF i \in S THEN "none" ELSE msg[i]]
  /\ numbered' = numbered \ S
  /\ asked' = asked \ S
  /\ UNCHANGED <<tok, epoch, session, client, acct, kickTo, runOf, cmd, cmdAcct, owed, wpc, kicks, snap, accepted>>

(* next_attempt_at passes. *)
AttemptDue(i) ==
  /\ status[i] = "pending" /\ ~due[i]
  /\ due' = [due EXCEPT ![i] = TRUE]
  /\ UNCHANGED <<status, msg, numbered, sdk, owed, wpc, kicks, snap, accepted, asked>>

(***************************************************************************)
(* The worker's loop.                                                      *)
(***************************************************************************)
(* The worker returns: its channel and its locals are gone. *)
End(w) ==
  /\ Goto(w, "ended")
  /\ kicks' = [kicks EXCEPT ![w] = 0]
  /\ prev' = [prev EXCEPT ![w] = {}]
  /\ UNCHANGED <<store, sdk, owed, rcancel, wsess, wep, wclient, wdue, wcur, accepted, asked>>

WorkerCancelled(w) == wpc[w] \in {"wait", "again", "due"} /\ w < tok /\ End(w)
WorkerClosed(w)    == wpc[w] = "wait" /\ kickTo # w /\ kicks[w] = 0 /\ End(w)

(* A new run, with its token in outbox_run. *)
BeginRun(w) ==
  /\ w >= tok
  /\ runOf' = w
  /\ Goto(w, "session")
  /\ UNCHANGED <<store, doomed, tok, epoch, session, client, acct, kickTo, cmd, cmdAcct,
                 owed, rcancel, wsess, wep, wclient, wdue, wcur, accepted, asked>>

RecvKick(w) ==
  /\ wpc[w] = "wait" /\ kicks[w] > 0
  /\ kicks' = [kicks EXCEPT ![w] = kicks[w] - 1]
  /\ BeginRun(w)
  /\ UNCHANGED prev

(* The run gives up on some rows without an attempt. *)
GiveUp(w, S) == asked' = IF w = kickTo THEN asked \ S ELSE asked

(* The run returns early: no session or protocol, a stale epoch, a         *)
(* cancelled run, or an error of the store or of the upload.               *)
CutShort(w) ==
  /\ Goto(w, "drain")
  /\ GiveUp(w, IF wpc[w] \in {"session", "epoch"} THEN Ids ELSE wdue[w] \cup {wcur[w]})
  /\ UNCHANGED <<store, sdk, owed, kicks, snap, accepted>>

(* run_once has returned; cancelling its token has no effect any more. *)
Drain(w) ==
  /\ wpc[w] = "drain"
  /\ kicks' = [kicks EXCEPT ![w] = 0]
  /\ rcancel' = [rcancel EXCEPT ![w] = FALSE]
  /\ runOf' = IF runOf = w THEN 0 ELSE runOf
  /\ wsess' = [wsess EXCEPT ![w] = NoAccount]
  /\ wep' = [wep EXCEPT ![w] = 0]
  /\ wclient' = [wclient EXCEPT ![w] = 0]
  /\ wdue' = [wdue EXCEPT ![w] = {}]
  /\ wcur' = [wcur EXCEPT ![w] = NoId]
  /\ Goto(w, IF kicks[w] > 0 THEN "again" ELSE "due")
  /\ UNCHANGED <<store, doomed, tok, epoch, session, client, acct, kickTo, cmd,
                 cmdAcct, owed, prev, accepted, asked>>

(* outbox_due_ids: the same rows as after the last run are left alone. *)
RunAgain(w) ==
  /\ \/ wpc[w] = "again"
     \/ wpc[w] = "due" /\ DueOf(session) # {} /\ prev[w] # {DueOf(session)}
  /\ prev' = [prev EXCEPT ![w] = {DueOf(session)}]
  /\ BeginRun(w)
  /\ UNCHANGED kicks

WaitAgain(w) ==
  /\ wpc[w] = "due"
  /\ DueOf(session) = {} \/ prev[w] = {DueOf(session)}
  /\ Goto(w, "wait")
  /\ prev' = [prev EXCEPT ![w] = {}]
  /\ UNCHANGED <<store, sdk, owed, kicks, rcancel, wsess, wep, wclient, wdue, wcur,
                 accepted, asked>>

(***************************************************************************)
(* run_once.                                                               *)
(***************************************************************************)
NoSession(w) == wpc[w] = "session" /\ session = NoAccount /\ CutShort(w)

ReadSession(w) ==
  /\ wpc[w] = "session" /\ session # NoAccount
  /\ wsess' = [wsess EXCEPT ![w] = session]
  /\ Goto(w, "epoch")
  /\ UNCHANGED <<store, sdk, owed, kicks, rcancel, wep, wclient, wdue, wcur, prev,
                 accepted, asked>>

(* The epoch, then load_due. *)
ReadEpoch(w) ==
  /\ wpc[w] = "epoch"
  /\ wep' = [wep EXCEPT ![w] = epoch]
  /\ wdue' = [wdue EXCEPT ![w] = DueOf(wsess[w])]
  /\ wsess' = [wsess EXCEPT ![w] = NoAccount]   \* the ids stand for the account from here on
  /\ Goto(w, "proto")
  /\ UNCHANGED <<store, sdk, owed, kicks, rcancel, wclient, wcur, prev,
                 accepted, asked>>

ReadProtocol(w) ==
  /\ wpc[w] = "proto" /\ client # 0
  /\ wclient' = [wclient EXCEPT ![w] = client]
  /\ Goto(w, "rows")
  /\ UNCHANGED <<store, sdk, owed, kicks, rcancel, wsess, wep, wdue, wcur, prev,
                 accepted, asked>>

(* The for loop is through. *)
EndRows(w) ==
  /\ wpc[w] = "rows" /\ wdue[w] = {}
  /\ Goto(w, "drain")
  /\ UNCHANGED <<store, sdk, owed, kicks, snap, accepted, asked>>

StopRows(w) ==
  /\ wpc[w] = "rows" /\ wdue[w] # {}
  /\ Cancelled(w) \/ epoch # wep[w]
  /\ CutShort(w)

(* A row that is gone is passed over, an image is uploaded first. *)
Take(w, i) ==
  /\ wdue' = [wdue EXCEPT ![w] = wdue[w] \ {i}]
  /\ wcur' = [wcur EXCEPT ![w] = IF Alive(i) THEN i ELSE NoId]
  /\ Goto(w, IF ~Alive(i) THEN "rows" ELSE IF i \in Images THEN "upload" ELSE "recheck")
  /\ UNCHANGED <<store, sdk, owed, kicks, rcancel, wsess, wep, wclient, prev,
                 accepted, asked>>

TakeRow(w, i) ==
  wpc[w] = "rows" /\ i \in wdue[w] /\ ~Cancelled(w) /\ epoch = wep[w] /\ Take(w, i)

(* On to the next row. *)
NextRow(w) ==
  /\ Goto(w, "rows")
  /\ wcur' = [wcur EXCEPT ![w] = NoId]

Uploaded(w) ==
  /\ wpc[w] = "upload"
  /\ Goto(w, "recheck")
  /\ UNCHANGED <<store, sdk, owed, kicks, snap, accepted, asked>>

UploadFails(w) == wpc[w] = "upload" /\ CutShort(w)

Recheck(w) ==
  /\ wpc[w] = "recheck" /\ ~Cancelled(w) /\ Alive(wcur[w])
  /\ Goto(w, "send")
  /\ UNCHANGED <<store, sdk, owed, kicks, snap, accepted, asked>>

(* The run was cancelled, also while the request was out, or the row is    *)
(* gone: the row stays as it is.                                           *)
SkipRow(w) ==
  /\ \/ wpc[w] = "recheck" /\ ~Alive(wcur[w])
     \/ wpc[w] \in {"recheck", "ok"} /\ Cancelled(w)
  /\ GiveUp(w, {wcur[w]})
  /\ NextRow(w)
  /\ UNCHANGED <<store, sdk, owed, kicks, rcancel, wsess, wep, wclient, wdue, prev,
                 accepted>>

(* The server has the message, or had it already.  The connection of a     *)
(* stopped session may still carry it.  It answers ("ok"), or the answer   *)
(* is lost ("retry").                                                      *)
ServerAccepts(w, pc) ==
  /\ wpc[w] = "send"
  /\ accepted' = accepted \cup {<<acct[wclient[w]], wcur[w]>>}
  /\ Goto(w, pc)
  /\ UNCHANGED <<store, sdk, owed, kicks, snap, asked>>

BotReplyNoId(w) ==
  /\ wpc[w] = "send" /\ wcur[w] \in BotReplies
  /\ Goto(w, "fail")
  /\ UNCHANGED <<store, sdk, owed, kicks, snap, accepted, asked>>

(* Mutant: an error that may be retried counts as an answer. *)
SendFailsAsSent(w, pc) ==
  /\ wpc[w] = "send"
  /\ Goto(w, IF pc = "retry" THEN "ok" ELSE pc)
  /\ UNCHANGED <<store, sdk, owed, kicks, snap, accepted, asked>>

(* retryable_send, or not. *)
SendFails(w, pc) ==
  /\ wpc[w] = "send"
  /\ Goto(w, pc)
  /\ UNCHANGED <<store, sdk, owed, kicks, snap, accepted, asked>>

(* UPDATE ... WHERE account = ? AND client_id = ?: nothing without a row. *)
Mark(w, s, m) ==
  LET i == wcur[w] IN
  /\ epoch = wep[w]
  /\ status' = [status EXCEPT ![i] = IF status[i] = "none" THEN "none" ELSE s]
  /\ msg' = [msg EXCEPT ![i] = IF msg[i] = "none" THEN "none" ELSE m]
  /\ asked' = asked \ {i}
  /\ NextRow(w)
  /\ UNCHANGED <<sdk, owed, kicks, rcancel, wsess, wep, wclient, wdue, prev, accepted>>

MarkSent(w) ==
  /\ wpc[w] = "ok" /\ ~Cancelled(w)
  /\ Mark(w, "sent", "sent")
  /\ numbered' = IF msg[wcur[w]] = "none" THEN numbered ELSE numbered \cup {wcur[w]}
  /\ UNCHANGED due

MarkFailed(w) == wpc[w] = "fail" /\ Mark(w, "failed", "failed") /\ UNCHANGED <<due, numbered>>

(* mark_retry leaves the message as it is. *)
MarkRetry(w) ==
  /\ wpc[w] = "retry"
  /\ Mark(w, "pending", msg[wcur[w]])
  /\ due' = [due EXCEPT ![wcur[w]] = FALSE]
  /\ UNCHANGED numbered

MarkStale(w) ==
  /\ wpc[w] \in {"ok", "fail", "retry"} /\ epoch # wep[w]
  /\ wpc[w] = "ok" => ~Cancelled(w)
  /\ CutShort(w)

(* The database or its write queue refuses. *)
StoreError(w) ==
  /\ wpc[w] \in {"epoch", "rows", "recheck", "ok", "retry", "fail"}
  /\ wpc[w] = "ok" => ~Cancelled(w)
  /\ CutShort(w)

Session == \/ \E a \in Accounts : BeginStart(a)
           \/ StartBump \/ ReplaceSession \/ InstallProtocol \/ SpawnWorker
           \/ BeginStop \/ EndStop \/ Crash
Commands == \/ \E i \in Ids : Enqueue(i) \/ EnqueueBotReply(i) \/ RetrySend(i)
                              \/ CancelSend(i) \/ AttemptDue(i)
            \/ \E d \in Dests : DeleteThread(d) \/ PersistTalks(d)
            \/ DeleteRows \/ WakeOutbox \/ KickOutbox
Loop(w) == \/ WorkerCancelled(w) \/ WorkerClosed(w) \/ RecvKick(w)
           \/ Drain(w) \/ RunAgain(w) \/ WaitAgain(w)
Load(w) == \/ NoSession(w) \/ ReadSession(w) \/ ReadEpoch(w) \/ ReadProtocol(w)
Rows(w) == \/ EndRows(w) \/ StopRows(w) \/ \E i \in Ids : TakeRow(w, i)
           \/ Uploaded(w) \/ UploadFails(w) \/ Recheck(w) \/ SkipRow(w)
Send(w) == \/ \E pc \in {"ok", "retry"} : ServerAccepts(w, pc)
           \/ \E pc \in {"retry", "fail"} : SendFails(w, pc)
           \/ BotReplyNoId(w)
Marks(w) == MarkSent(w) \/ MarkFailed(w) \/ MarkRetry(w) \/ MarkStale(w)
            \/ StoreError(w)
Work(w) == Loop(w) \/ Load(w) \/ Rows(w) \/ Send(w) \/ Marks(w)

Next == Session \/ Commands \/ \E w \in Workers : Work(w)

(* Workers run, requests end, a session command runs to its end, time      *)
(* passes, and a command that has committed kicks.                         *)
Fairness ==
  /\ \A w \in Workers : WF_vars(Work(w))
  /\ WF_vars(StartBump \/ ReplaceSession \/ InstallProtocol \/ SpawnWorker \/ EndStop)
  /\ WF_vars(KickOutbox) /\ WF_vars(DeleteRows)
  /\ \A i \in Ids : WF_vars(AttemptDue(i))

Spec     == Init /\ [][Next]_vars
FairSpec == Spec /\ Fairness

(***************************************************************************)
(* Properties.                                                             *)
(***************************************************************************)
StoreTypes ==
  /\ status \in [Ids -> {"none", "pending", "failed", "sent"}]
  /\ due \in [Ids -> BOOLEAN]
  /\ msg \in [Ids -> {"none", "sending", "failed", "sent"}]
  /\ asked \subseteq Ids /\ doomed \subseteq Ids /\ numbered \subseteq Ids

SessionTypes ==
  /\ session \in Accounts \cup {NoAccount} /\ cmdAcct \in Accounts \cup {NoAccount}
  /\ acct \in [Workers -> Accounts \cup {NoAccount}]
  /\ cmd \in {"idle", "start", "replace", "install", "spawn", "stop"}
  /\ owed \in BOOLEAN

EpochTypes ==
  /\ tok \in 0 .. MaxEpoch /\ epoch \in 0 .. MaxEpoch /\ client \in 0 .. MaxEpoch
  /\ kickTo \in 0 .. MaxEpoch /\ runOf \in 0 .. MaxEpoch
  /\ kicks \in [Workers -> 0 .. KickCap]
  /\ wep \in [Workers -> 0 .. MaxEpoch] /\ wclient \in [Workers -> 0 .. MaxEpoch]

WorkerTypes ==
  /\ wpc \in [Workers -> Pcs]
  /\ rcancel \in [Workers -> BOOLEAN]
  /\ wsess \in [Workers -> Accounts \cup {NoAccount}]
  /\ wdue \in [Workers -> SUBSET Ids] /\ wcur \in [Workers -> Ids \cup {NoId}]
  /\ prev \in [Workers -> SUBSET SUBSET Ids]

(* The domains of the store, the session, the epochs and the workers; a    *)
(* kick channel never holds more than it may.                              *)
TypeOK ==
  /\ StoreTypes /\ SessionTypes /\ EpochTypes /\ WorkerTypes
  /\ accepted \subseteq (Accounts \cup {NoAccount}) \X Ids

(* No account's message goes out over another account's connection, even   *)
(* when a worker reads the session before a switch and the protocol client *)
(* after it.                                                               *)
OwnAccountOnly == \A x \in accepted : x[1] = Owner[x[2]]

(* A message that shows as sent is on the server, across cancelled runs,   *)
(* overlapping workers, repeated enqueues and crashes.                     *)
SentIsAccepted ==
  \A i \in Ids : (status[i] = "sent" \/ msg[i] = "sent") => <<Owner[i], i>> \in accepted

(* The outbox row and the message on the timeline tell the same story, and *)
(* only a message that is through may be missing from the timeline.  They  *)
(* part in one case, and then the server has the message: it was sent,     *)
(* enqueued again, and a page or push brought it back.                     *)
TimelineAgrees ==
  \A i \in Ids :
    \/ msg[i] = IF status[i] = "pending" THEN "sending" ELSE status[i]
    \/ status[i] = "sent" /\ msg[i] = "none"
    \/ status[i] \in {"pending", "failed"} /\ msg[i] = "sent"
       /\ i \in numbered /\ <<Owner[i], i>> \in accepted

(* A worker sleeps only when every row it was told to send has been        *)
(* attempted or given up by a run that was cut short since: a command that *)
(* comes while a run is under way, or while the worker decides to sleep,   *)
(* is not overlooked.                                                      *)
NoLostWakeup ==
  \A w \in Workers :
    (w = kickTo /\ cmd = "idle" /\ wpc[w] = "wait" /\ kicks[w] = 0 /\ ~owed) => asked = {}

(* docs/mobile-client.md says of the outbox "上线重放", replayed when the   *)
(* client is online again, and mark_retry computes when the next attempt   *)
(* is due.  While its session runs, the worker that sleeps on a row which  *)
(* waits for its next attempt wakes up.                                    *)
RetryIsAttempted ==
  \A i \in Ids : \A w \in Workers :
    LET Asleep    == w = kickTo /\ wpc[w] = "wait"
        Scheduled == status[i] = "pending" /\ Owner[i] = session
    IN  (Asleep /\ Scheduled /\ ~due[i]) ~> ~(Asleep /\ Scheduled)

=============================================================================
