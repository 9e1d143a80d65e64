----------------------------- MODULE ClientLink -----------------------------
(***************************************************************************)
(* The client's link to the gateway:                                       *)
(*                                                                         *)
(*   crates/kim-client/src/supervisor.rs   SessionSupervisor, Inner        *)
(*   crates/kim-client/src/link/machine.rs run_loop, run_session, serve,   *)
(*                                         dispatch_loop                   *)
(*   crates/kim-client/src/pump.rs         Live: reader, writer, heartbeat *)
(*                                         and watchdog tasks of one       *)
(*                                         connection                      *)
(*   crates/kim-client/src/client.rs       Io, connect, login, disconnect, *)
(*                                         write_wait                      *)
(*                                                                         *)
(* One task runs run_loop; a step of it is what it does from one await     *)
(* that really waits to the next.  Each connection has four tasks of its   *)
(* own that talk to the loop through the death watch and the event queue.  *)
(* stop() runs on any other thread, and callers of requests on theirs.     *)
(* Delays, attempt numbers and what an event carries are left out.         *)
(***************************************************************************)
EXTENDS Naturals, Sequences

CONSTANTS
  Requests,  \* calls of write_wait whose answer dispatch() routes, each made once
  EventCap,  \* EVENT_CAP, the length of the event queue
  MaxPush    \* bound: pushes the server sends on one connection

ASSUME BoundsAssumption == EventCap \in Nat /\ MaxPush \in Nat

(* DropReason tells a Kickout from every other cause: all of those lead to *)
(* a reconnect, and which one it was is only logged.                       *)
Reasons == {"Kickout", "Other"}
Tokens  == {"first", "renewed"}   \* ClientConfig.token, and one from login.renew

VARIABLES
  \* SessionSupervisor
  ensurePc,   \* ensure_running: "idle", or "checked" between its check and its spawn
  task,       \* Inner.task holds a handle
  stopPc,     \* stop(): "no" "flagged" "notified" "aborted" "done"
  stopped, stopPermit,
  hint,       \* hints: 1 a stored permit, 2 a permit and a woken waiter
  link,       \* LinkState
  loop,       \* where run_loop waits
  \* KimClient
  io, sess,   \* Io, and the session's token ("" after disconnect)
  expired,    \* the first token is past its exp
  \* the pump of the current connection
  sock, reader, death, evq, pushes, syncing, pingNow, probe, grace,
  \* callers
  req,
  \* history
  kicked,     \* a Kickout was what ended a connection: its event was queued ("told")
              \* or dropped, and then the reader ended before the loop did ("lost")
  renewed     \* a login.renew has arrived

supVars  == <<ensurePc, task, stopPc, stopped, stopPermit>>
pumpVars == <<sock, reader, death, evq, pushes, syncing, pingNow, probe, grace>>
vars == <<supVars, hint, link, loop, io, sess, expired,
          pumpVars, req, kicked, renewed>>

LoopPcs == {"none", "top", "connect", "login", "serve", "backoff", "ended"}
Events  == {"push", "kick", "closed"}

(***************************************************************************)
(* Helpers.                                                                *)
(***************************************************************************)
(* The first cause of death is kept. *)
Die(reason) == IF death = "none" THEN reason ELSE death

(* try_send: an event that finds the queue full is dropped. *)
TrySend(e) == IF Len(evq) < EventCap THEN Append(evq, e) ELSE evq

LoginToken == IF sess = "" THEN "first" ELSE sess

(* The oneshots of pending are dropped: callers that hold one return. *)
ClearPending ==
  [r \in Requests |-> CASE req[r] = "waiting" -> "settled"
                        [] req[r] = "writing" -> "settled"
                        [] OTHER -> req[r]]

(* Live::shutdown drops the queued frames, so a caller still writing gets  *)
(* an error.  A caller past its write waits on a oneshot whose sender      *)
(* stays in the pending map of the Live the caller itself keeps alive.     *)
Abandon ==
  [r \in Requests |-> CASE req[r] = "writing" -> "settled"
                        [] req[r] = "waiting" -> "orphan"
                        [] OTHER -> req[r]]

(* KimClient::disconnect.  The tasks of the connection are aborted, and    *)
(* its death watch and queues are never read again.                        *)
Disconnect ==
  /\ io' = "off"
  /\ sess' = ""
  /\ req' = IF io = "live" THEN Abandon ELSE req
  /\ death' = "none"
  /\ sock' = "none"
  /\ reader' = FALSE
  /\ pingNow' = 0
  /\ probe' = "idle"
  /\ grace' = FALSE
  /\ syncing' = FALSE
  /\ evq' = <<>>
  /\ pushes' = 0

(* start_split_pump. *)
StartPump ==
  /\ sock' = "open"
  /\ reader' = TRUE
  /\ death' = "none"
  /\ evq' = <<>>
  /\ pushes' = 0
  /\ pingNow' = 0
  /\ probe' = "idle"
  /\ grace' = FALSE

(* run_loop returns. *)
End ==
  /\ loop' = "ended"
  /\ link' = "Offline"

(* The reader task is waiting for a frame and may get one. *)
Reading == io = "live" /\ reader /\ sock = "open"

(* notify_waiters and notify_one: a loop in select! is woken and finds a   *)
(* permit besides; a branch other than this one loses the wake-up.         *)
NotifyHints == hint' = IF loop \in {"serve", "backoff"} THEN 2 ELSE 1
Rearm       == hint' = IF hint = 2 THEN 1 ELSE hint

(* What run_loop does with SessionEnd::Drop. *)
Dropped ==
  /\ loop' = IF stopped THEN "ended" ELSE "backoff"
  /\ link' = IF stopped THEN "Offline" ELSE "Reconnecting"

Init ==
  /\ ensurePc = "idle" /\ task = FALSE /\ stopPc = "no" /\ stopped = FALSE
  /\ stopPermit = FALSE /\ hint = 0
  /\ link = "Connecting" /\ loop = "none"
  /\ io = "off" /\ sess = "" /\ expired = FALSE
  /\ sock = "none" /\ reader = FALSE /\ death = "none" /\ evq = <<>> /\ pushes = 0
  /\ syncing = FALSE /\ pingNow = 0 /\ probe = "idle" /\ grace = FALSE
  /\ req = [r \in Requests |-> "idle"]
  /\ kicked = "no" /\ renewed = FALSE

(***************************************************************************)
(* SessionSupervisor.                                                      *)
(***************************************************************************)
EnsureCheck ==
  /\ ensurePc = "idle" /\ ~stopped /\ ~task
  /\ ensurePc' = "checked"
  /\ UNCHANGED <<task, stopPc, stopped, stopPermit, hint, link, loop, io,
                 sess, expired, pumpVars, req, kicked, renewed>>

(* Under the task lock; stop() may have run since the check. *)
EnsureSpawn ==
  /\ ensurePc = "checked" /\ ~task
  /\ ensurePc' = "idle"
  /\ task' = TRUE
  /\ loop' = "top"
  /\ UNCHANGED <<stopPc, stopped, stopPermit, hint, link, io, sess, expired,
                 pumpVars, req, kicked, renewed>>

(* notify_radio_up, notify_foreground: their ensure_running is the pair above. *)
Notify ==
  /\ NotifyHints
  /\ UNCHANGED <<ensurePc, task, stopPc, stopped, stopPermit, link, loop, io, sess,
                 expired, pumpVars, req, kicked, renewed>>

StopFlag ==
  /\ stopPc = "no"
  /\ stopPc' = "flagged"
  /\ stopped' = TRUE
  /\ link' = "Offline"
  /\ UNCHANGED <<ensurePc, task, stopPermit, hint, loop, io, sess, expired,
                 pumpVars, req, kicked, renewed>>

StopNotify ==
  /\ stopPc = "flagged"
  /\ stopPc' = "notified"
  /\ stopPermit' = TRUE
  /\ NotifyHints
  /\ UNCHANGED <<ensurePc, task, stopped, link, loop, io, sess, expired,
                 pumpVars, req, kicked, renewed>>

(* task.take() and abort: run_loop goes no further than its current step.  *)
(* A connection it was opening or logging in on is dropped with it, and so *)
(* is the sync it was running.                                             *)
StopAbort ==
  /\ stopPc = "notified"
  /\ stopPc' = "aborted"
  /\ task' = FALSE
  /\ loop' = IF task /\ loop # "none" THEN "ended" ELSE loop
  /\ io' = IF task /\ loop = "login" THEN "off" ELSE io
  /\ sock' = IF task /\ loop = "login" THEN "none" ELSE sock
  /\ syncing' = IF task THEN FALSE ELSE syncing
  /\ UNCHANGED <<ensurePc, stopped, stopPermit, hint, link, sess, expired,
                 reader, death, evq, pushes, pingNow, probe, grace, req, kicked, renewed>>

(* Mutant: the connection is left to the aborted loop. *)
StopDisconnectSkipped ==
  /\ stopPc = "aborted"
  /\ stopPc' = "done"
  /\ UNCHANGED <<ensurePc, task, stopped, stopPermit, hint, link, loop, io, sess, expired,
                 pumpVars, req, kicked, renewed>>

(* The spawned disconnect; it waits for the io lock that connect and login *)
(* hold.  Both callers of stop() are in a runtime that can spawn it.       *)
StopDisconnect ==
  /\ stopPc = "aborted"
  /\ stopPc' = "done"
  /\ Disconnect
  /\ UNCHANGED <<ensurePc, task, stopped, stopPermit, hint, link, loop,
                 expired, kicked, renewed>>

(***************************************************************************)
(* run_loop and run_session.                                               *)
(***************************************************************************)
SeeStopped ==
  /\ loop = "top" /\ stopped
  /\ loop' = "ended"
  /\ link' = "Offline"
  /\ UNCHANGED <<supVars, hint, io, sess, expired, pumpVars, req, kicked, renewed>>

(* Mutant: stopped is not looked at before connecting. *)
BeginSessionUnchecked ==
  /\ loop = "top" /\ ~expired
  /\ Disconnect
  /\ loop' = "connect"
  /\ link' = "Connecting"
  /\ UNCHANGED <<supVars, hint, expired, kicked, renewed>>

(* The top of the loop up to the await of connect. *)
BeginSession ==
  /\ loop = "top" /\ ~stopped /\ ~expired
  /\ Disconnect
  /\ loop' = "connect"
  /\ link' = "Connecting"
  /\ UNCHANGED <<supVars, hint, expired, kicked, renewed>>

(* disconnect has reset the session, so login_token is the first one. *)
TokenUnusable ==
  /\ loop = "top" /\ ~stopped /\ expired
  /\ Disconnect
  /\ End
  /\ UNCHANGED <<supVars, hint, expired, kicked, renewed>>

ConnectOk ==
  /\ loop = "connect" /\ ~stopped
  /\ loop' = "login"
  /\ io' = "handshake"
  /\ sock' = "open"
  /\ UNCHANGED <<supVars, hint, link, sess, expired, reader, death, evq, pushes,
                 syncing, pingNow, probe, grace, req, kicked, renewed>>

(* Connected, but stopped in the meantime: the connection is closed. *)
ConnectLate ==
  /\ loop = "connect" /\ stopped
  /\ End
  /\ UNCHANGED <<supVars, hint, io, sess, expired, pumpVars, req, kicked, renewed>>

ConnectErr ==
  /\ loop = "connect"
  /\ Dropped
  /\ UNCHANGED <<supVars, hint, io, sess, expired, pumpVars, req, kicked, renewed>>

ConnectStopped ==
  /\ loop = "connect" /\ stopPermit
  /\ stopPermit' = FALSE
  /\ End
  /\ UNCHANGED <<ensurePc, task, stopPc, stopped, hint, io, sess, expired, pumpVars,
                 req, kicked, renewed>>

(* login ends well: the session is stored, the pump runs, the link is      *)
(* Online, and serve starts the sync.  stopped is not looked at again.     *)
LoginOk ==
  /\ loop = "login" /\ io = "handshake"
  /\ (LoginToken = "first" => ~expired)
  /\ sess' = LoginToken
  /\ io' = "live"
  /\ StartPump
  /\ syncing' = TRUE
  /\ link' = "Online"
  /\ loop' = "serve"
  /\ UNCHANGED <<supVars, hint, expired, req, kicked, renewed>>

LoginErr ==
  /\ loop = "login"
  /\ Disconnect
  /\ Dropped
  /\ UNCHANGED <<supVars, hint, expired, kicked, renewed>>

(* is_fatal_auth *)
LoginRefused ==
  /\ loop = "login"
  /\ Disconnect
  /\ End
  /\ UNCHANGED <<supVars, hint, expired, kicked, renewed>>

BackoffSleep ==
  /\ loop = "backoff"
  /\ loop' = "top"
  /\ Rearm
  /\ UNCHANGED <<supVars, link, io, sess, expired, pumpVars, req, kicked, renewed>>

BackoffHint ==
  /\ loop = "backoff" /\ hint > 0
  /\ hint' = hint - 1
  /\ loop' = "top"
  /\ UNCHANGED <<supVars, link, io, sess, expired, pumpVars, req, kicked, renewed>>

BackoffStop ==
  /\ loop = "backoff" /\ stopPermit
  /\ stopPermit' = FALSE
  /\ loop' = "ended"
  /\ link' = "Offline"
  /\ Rearm
  /\ UNCHANGED <<ensurePc, task, stopPc, stopped, io, sess, expired, pumpVars,
                 req, kicked, renewed>>

(***************************************************************************)
(* serve and dispatch_loop: the branches of its select!, and of the one in *)
(* serve.                                                                  *)
(***************************************************************************)
(* The event is emitted. *)
RecvEvent ==
  /\ loop = "serve" /\ evq # <<>>
  /\ Head(evq) = "push"
  /\ evq' = Tail(evq)
  /\ Rearm
  /\ UNCHANGED <<supVars, link, loop, io, sess, expired, sock, reader, death, pushes,
                 syncing, pingNow, probe, grace, req, kicked, renewed>>

RecvKickout ==
  /\ loop = "serve" /\ evq # <<>>
  /\ Head(evq) = "kick"
  /\ Disconnect
  /\ End
  /\ Rearm
  /\ UNCHANGED <<supVars, expired, kicked, renewed>>

(* Event::Closed, or the queue is drained and its sender gone. *)
RecvClosed ==
  /\ loop = "serve"
  /\ IF evq = <<>> THEN ~reader ELSE Head(evq) = "closed"
  /\ Disconnect
  /\ Dropped
  /\ Rearm
  /\ UNCHANGED <<supVars, expired, kicked, renewed>>

(* wait_dead: kicked, stopped, or any other reason. *)
DeadKicked ==
  /\ loop = "serve" /\ death = "Kickout"
  /\ Disconnect
  /\ End
  /\ Rearm
  /\ UNCHANGED <<supVars, expired, kicked, renewed>>

DeadStopped ==
  /\ loop = "serve" /\ death = "Other" /\ stopped
  /\ Disconnect
  /\ End
  /\ Rearm
  /\ UNCHANGED <<supVars, expired, kicked, renewed>>

(* Mutant: a kickout reconnects like any other death. *)
DeadDroppedAny ==
  /\ loop = "serve" /\ death # "none" /\ ~stopped
  /\ Disconnect
  /\ Dropped
  /\ Rearm
  /\ UNCHANGED <<supVars, expired, kicked, renewed>>

DeadDropped ==
  /\ loop = "serve" /\ death = "Other" /\ ~stopped
  /\ Disconnect
  /\ Dropped
  /\ Rearm
  /\ UNCHANGED <<supVars, expired, kicked, renewed>>

ServeStop ==
  /\ loop = "serve" /\ stopPermit
  /\ stopPermit' = FALSE
  /\ Disconnect
  /\ End
  /\ Rearm
  /\ UNCHANGED <<ensurePc, task, stopPc, stopped, expired, kicked, renewed>>

(* Mutant: the grace is extended and ping_now is not notified. *)
ServeHintNoPing ==
  /\ loop = "serve" /\ hint > 0
  /\ hint' = hint - 1
  /\ grace' = TRUE
  /\ UNCHANGED <<supVars, link, loop, io, sess, expired, sock, reader, death, evq, pushes,
                 syncing, pingNow, probe, req, kicked, renewed>>

(* live.request_probe(): grace for the watchdog, and ping_now notified     *)
(* twice as hints is.                                                      *)
ServeHint ==
  /\ loop = "serve" /\ hint > 0
  /\ hint' = hint - 1
  /\ grace' = TRUE
  /\ pingNow' = IF probe = "idle" /\ death = "none" THEN 2 ELSE 1
  /\ UNCHANGED <<supVars, link, loop, io, sess, expired, sock, reader, death, evq,
                 pushes, syncing, probe, req, kicked, renewed>>

SyncDone ==
  /\ loop = "serve" /\ syncing /\ Reading
  /\ syncing' = FALSE
  /\ Rearm
  /\ UNCHANGED <<supVars, link, loop, io, sess, expired, sock, reader, death, evq,
                 pushes, pingNow, probe, grace, req, kicked, renewed>>

(* The sync ends with an error: the server refused, the page was not       *)
(* confirmed, or the connection is dying.                                  *)
SyncStopped ==
  /\ loop = "serve" /\ syncing /\ stopped
  /\ Disconnect
  /\ End
  /\ Rearm
  /\ UNCHANGED <<supVars, expired, kicked, renewed>>

(* The kicked session returns without a disconnect. *)
SyncKicked ==
  /\ loop = "serve" /\ syncing /\ ~stopped /\ death = "Kickout"
  /\ End
  /\ syncing' = FALSE
  /\ Rearm
  /\ UNCHANGED <<supVars, io, sess, expired, sock, reader, death, evq, pushes, pingNow, probe,
                 grace, req, kicked, renewed>>

SyncDropped ==
  /\ loop = "serve" /\ syncing /\ ~stopped /\ death # "Kickout"
  /\ Disconnect
  /\ Dropped
  /\ Rearm
  /\ UNCHANGED <<supVars, expired, kicked, renewed>>

(***************************************************************************)
(* The pump: reader, heartbeat and watchdog of the current connection.     *)
(***************************************************************************)
ReadPush ==
  /\ Reading /\ pushes < MaxPush
  /\ pushes' = pushes + 1
  /\ evq' = TrySend("push")
  /\ UNCHANGED <<supVars, hint, link, loop, io, sess, expired, sock, reader, death,
                 syncing, pingNow, probe, grace, req, kicked, renewed>>

(* login.renew: the token sink first, then the event. *)
ReadRenew ==
  /\ Reading /\ pushes < MaxPush
  /\ pushes' = pushes + 1
  /\ sess' = "renewed"
  /\ renewed' = TRUE
  /\ evq' = TrySend("push")
  /\ UNCHANGED <<supVars, hint, link, loop, io, expired, sock, reader, death,
                 syncing, pingNow, probe, grace, req, kicked>>

(* die, then try_send: with the queue full only the death watch knows. *)
ReadKickout ==
  /\ Reading /\ death # "Kickout"
  /\ death' = Die("Kickout")
  /\ kicked' = IF death # "none" THEN kicked
               ELSE IF Len(evq) < EventCap THEN "told" ELSE "dropped"
  /\ evq' = TrySend("kick")
  /\ UNCHANGED <<supVars, hint, link, loop, io, sess, expired, sock, reader, pushes,
                 syncing, pingNow, probe, grace, req, renewed>>

(* A close, a read error or a frame that does not decode ends the reader. *)
ReaderEnds ==
  /\ Reading
  /\ death' = Die("Other")
  /\ req' = ClearPending
  /\ probe' = IF probe = "waiting" THEN "failed" ELSE probe
  /\ evq' = TrySend("closed")
  /\ reader' = FALSE
  /\ kicked' = IF kicked = "dropped" THEN "lost" ELSE kicked
  /\ UNCHANGED <<supVars, hint, link, loop, io, sess, expired, sock, pushes, syncing,
                 pingNow, grace, renewed>>

(* dispatch(): the oneshot of an answer is looked up in pending. *)
Answer(r) ==
  /\ Reading
  /\ req[r] \in {"writing", "waiting"}
  /\ req' = [req EXCEPT ![r] = "settled"]
  /\ UNCHANGED <<supVars, hint, link, loop, io, sess, expired, pumpVars, kicked, renewed>>

ReadPong ==
  /\ Reading /\ probe = "waiting"
  /\ pingNow' = 0
  /\ probe' = "idle"
  /\ grace' = FALSE
  /\ UNCHANGED <<supVars, hint, link, loop, io, sess, expired, sock, reader, death,
                 evq, pushes, syncing, req, kicked, renewed>>

(* The network stops carrying frames and neither side is told. *)
GoSilent ==
  /\ io = "live" /\ sock = "open"
  /\ sock' = "silent"
  /\ UNCHANGED <<supVars, hint, link, loop, io, sess, expired, reader, death, evq,
                 pushes, syncing, pingNow, probe, grace, req, kicked, renewed>>

(* The heartbeat task takes the ping_now permit and writes the probe. *)
ProbeWrite ==
  /\ io = "live" /\ death = "none" /\ probe = "idle" /\ pingNow > 0
  /\ pingNow' = pingNow - 1
  /\ probe' = "waiting"
  /\ UNCHANGED <<supVars, hint, link, loop, io, sess, expired, sock, reader, death,
                 evq, pushes, syncing, grace, req, kicked, renewed>>

ProbeFails ==
  /\ io = "live" /\ probe \in {"waiting", "failed"}
  /\ death' = Die("Other")
  /\ probe' = "idle"
  /\ UNCHANGED <<supVars, hint, link, loop, io, sess, expired, sock, reader, evq,
                 pushes, syncing, pingNow, grace, req, kicked, renewed>>

HeartbeatFails ==
  /\ io = "live" /\ death = "none" /\ probe = "idle"
  /\ sock = "silent"
  /\ death' = "Other"
  /\ UNCHANGED <<supVars, hint, link, loop, io, sess, expired, sock, reader, evq,
                 pushes, syncing, pingNow, probe, grace, req, kicked, renewed>>

GraceEnds ==
  /\ io = "live" /\ grace
  /\ grace' = FALSE
  /\ UNCHANGED <<supVars, hint, link, loop, io, sess, expired, sock, reader, death,
                 evq, pushes, syncing, pingNow, probe, req, kicked, renewed>>

(* A tick of the watchdog more than read_idle after the last frame. *)
Watchdog ==
  /\ io = "live" /\ death = "none"
  /\ sock = "silent" /\ ~grace
  /\ death' = "Other"
  /\ UNCHANGED <<supVars, hint, link, loop, io, sess, expired, sock, reader, evq,
                 pushes, syncing, pingNow, probe, grace, req, kicked, renewed>>

(***************************************************************************)
(* Callers: write_wait on the current connection.                          *)
(***************************************************************************)
StartRequest(r) ==
  /\ req[r] = "idle" /\ io = "live" /\ sess # ""
  /\ req' = [req EXCEPT ![r] = "writing"]
  /\ UNCHANGED <<supVars, hint, link, loop, io, sess, expired, pumpVars, kicked,
                 renewed>>

WriteOk(r) ==
  /\ req[r] = "writing"
  /\ req' = [req EXCEPT ![r] = "waiting"]
  /\ UNCHANGED <<supVars, hint, link, loop, io, sess, expired, pumpVars, kicked,
                 renewed>>

(* The socket refuses the frame: pending is cleaned and the caller returns. *)
WriteErr(r) ==
  /\ req[r] = "writing" /\ ~Reading
  /\ req' = [req EXCEPT ![r] = "settled"]
  /\ UNCHANGED <<supVars, hint, link, loop, io, sess, expired, pumpVars, kicked,
                 renewed>>

WriteTimeout(r) ==
  /\ req[r] = "writing" /\ sock = "silent"
  /\ death' = Die("Other")
  /\ req' = [req EXCEPT ![r] = "settled"]
  /\ UNCHANGED <<supVars, hint, link, loop, io, sess, expired, sock, reader, evq,
                 pushes, syncing, pingNow, probe, grace, kicked, renewed>>

Return(r) ==
  /\ req[r] = "settled"
  /\ req' = [req EXCEPT ![r] = "done"]
  /\ UNCHANGED <<supVars, hint, link, loop, io, sess, expired, pumpVars, kicked,
                 renewed>>

(* The first token runs out.  A renewed one outlives the model. *)
Expire ==
  /\ ~expired
  /\ expired' = TRUE
  /\ UNCHANGED <<supVars, hint, link, loop, io, sess, pumpVars, req, kicked, renewed>>

Supervisor == EnsureCheck \/ EnsureSpawn \/ Notify
Stop == StopFlag \/ StopNotify \/ StopAbort \/ StopDisconnect
Establish == \/ SeeStopped \/ BeginSession \/ TokenUnusable
             \/ ConnectOk \/ ConnectLate \/ ConnectErr \/ ConnectStopped
             \/ LoginOk \/ LoginErr \/ LoginRefused
Serve == \/ RecvEvent \/ RecvKickout \/ RecvClosed
         \/ DeadKicked \/ DeadStopped \/ DeadDropped \/ ServeStop \/ ServeHint
Sync  == SyncDone \/ SyncStopped \/ SyncKicked \/ SyncDropped
Backoff == BackoffSleep \/ BackoffHint \/ BackoffStop
Network == \/ ReadPush \/ ReadRenew \/ ReadKickout \/ ReadPong \/ GoSilent
           \/ ReaderEnds
           \/ \E r \in Requests : Answer(r)
Keepalive == ProbeWrite \/ ProbeFails \/ HeartbeatFails \/ GraceEnds \/ Watchdog
Callers == \E r \in Requests : \/ StartRequest(r) \/ WriteOk(r) \/ WriteErr(r)
                              \/ WriteTimeout(r) \/ Return(r)

Next ==
  \/ Supervisor \/ Stop \/ Establish \/ Serve \/ Sync \/ Backoff \/ Network \/ Keepalive
  \/ Callers
  \/ Expire

(* run_loop is one task: it runs on while a branch of its select! is ready. *)
LoopTask == Establish \/ Serve \/ Backoff
Writing(r) == WriteOk(r) \/ WriteErr(r) \/ WriteTimeout(r)

(***************************************************************************)
(* Every task that can run does run and every timer fires; what the server *)
(* and the network do, and whether stop() is called, is left open.         *)
(***************************************************************************)
Fairness ==
  /\ WF_vars(EnsureSpawn) /\ WF_vars(LoopTask)
  /\ WF_vars(StopNotify) /\ WF_vars(StopAbort) /\ WF_vars(StopDisconnect)
  /\ WF_vars(ProbeWrite) /\ WF_vars(ProbeFails) /\ WF_vars(GraceEnds) /\ WF_vars(Watchdog)
  /\ \A r \in Requests : WF_vars(Writing(r)) /\ WF_vars(Return(r))

Spec     == Init /\ [][Next]_vars
FairSpec == Spec /\ Fairness

(***************************************************************************)
(* Properties.                                                             *)
(***************************************************************************)
FlagTypes ==
  /\ task \in BOOLEAN /\ stopped \in BOOLEAN /\ stopPermit \in BOOLEAN /\ expired \in BOOLEAN
  /\ reader \in BOOLEAN /\ syncing \in BOOLEAN /\ grace \in BOOLEAN
  /\ kicked \in {"no", "told", "dropped", "lost"} /\ renewed \in BOOLEAN

TaskTypes ==
  /\ ensurePc \in {"idle", "checked"} /\ loop \in LoopPcs
  /\ stopPc \in {"no", "flagged", "notified", "aborted", "done"}
  /\ link \in {"Connecting", "Online", "Reconnecting", "Offline"}

PumpTypes ==
  /\ io \in {"off", "handshake", "live"} /\ sess \in Tokens \cup {""}
  /\ sock \in {"none", "open", "silent"} /\ death \in Reasons \cup {"none"}
  /\ probe \in {"idle", "waiting", "failed"}

PermitTypes == hint \in 0..2 /\ pingNow \in 0..2

QueueTypes == evq \in Seq(Events) /\ pushes \in Nat

RequestTypes ==
  req \in [Requests -> {"idle", "writing", "waiting", "settled", "orphan", "done"}]

(* The domains of the supervisor's, the client's, the pump's and the       *)
(* callers' state.                                                         *)
TypeOK == FlagTypes /\ TaskTypes /\ PumpTypes /\ PermitTypes /\ QueueTypes /\ RequestTypes

(* A client that was kicked out (the Kickout was what ended its            *)
(* connection) never opens another one: whichever of the event queue, the  *)
(* death watch and the failing sync run_loop sees first, it ends.  That    *)
(* holds with the event dropped by a full queue too, as long as the reader *)
(* goes on; if it ends as well, the loop may see Closed and reconnect.     *)
KickedStaysOff == kicked \in {"told", "dropped"} => loop \in {"serve", "ended"}

(* Once stop() is through, there is no connection and none will be made:   *)
(* not by a loop that was connecting or logging in when stop() ran, and    *)
(* not by one that a racing ensure_running spawned after it.               *)
StoppedStaysDown ==
  stopPc = "done" => io = "off" /\ sock = "none" /\ loop \in {"none", "top", "ended"}

(* stop() takes effect: the loop ends and the connection is given up. *)
StopTakesEffect == stopped ~> [](io = "off" /\ loop \in {"none", "ended"})

(* A connection that went silent is noticed by the probe or the watchdog,  *)
(* even when radio and foreground hints keep extending the grace.          *)
SilenceIsNoticed ==
  (io = "live" /\ sock = "silent") ~> (death # "none" \/ sock # "silent")

(* A request on a connection that dies returns, with Closed if not with an *)
(* answer.                                                                 *)
RequestsReturn ==
  \A r \in Requests :
    (req[r] \in {"writing", "waiting"} /\ death # "none") ~> (req[r] = "done")

(* The loop gives up over an unusable token only if it holds no newer one. *)
RenewedTokenIsUsed ==
  [][loop = "top" /\ ~stopped /\ loop' = "ended" => ~renewed]_vars

=============================================================================
