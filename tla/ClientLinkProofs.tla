-------------------------- MODULE ClientLinkProofs --------------------------
(***************************************************************************)
(* Proofs about ClientLink, for any number of requests, any event queue    *)
(* and any number of pushes: a stopped client stays down, and a kicked one *)
(* stays off, also with its event queue full, until its reader ends.       *)
(***************************************************************************)
EXTENDS ClientLink, TLAPS

(* What stop() may rely on: while it has not aborted the task, a loop that *)
(* runs is the one whose handle it holds; a loop that is spawned late      *)
(* never leaves its first check.                                           *)
StopInv ==
  /\ stopped <=> stopPc # "no"
  /\ stopPc \notin {"aborted", "done"} /\ loop # "none" => task
  /\ stopPc \in {"aborted", "done"} => loop \in {"none", "top", "ended"}
  /\ ensurePc = "checked" => loop = "none"
  /\ stopPc = "done" => io = "off"

(* Where the loop waits and what the client holds go together. *)
LoopInv ==
  /\ loop \in {"none", "top", "connect", "backoff"} => io = "off"
  /\ loop = "login" => io # "live"
  /\ loop = "serve" => io = "live"
  /\ io = "off" => sock = "none"

OnlyPushes(q) == \A i \in 1..Len(q) : q[i] \in {"push"}

(* Until the connection dies its queue holds nothing but pushes. *)
QueueInv ==
  /\ pushes \in 0..MaxPush
  /\ death = "none" => Len(evq) <= pushes /\ OnlyPushes(evq)

(* A kickout is queued ahead of any Closed; one that was dropped has its   *)
(* reader still running, and no Closed was sent.                           *)
KickAhead(q) == \E i \in 1..Len(q) : q[i] = "kick" /\ \A j \in 1..i : q[j] # "closed"

NoClosed(q) == \A i \in 1..Len(q) : q[i] # "closed"

KickInv ==
  /\ kicked \in {"told", "dropped"} => loop \in {"serve", "ended"}
  /\ kicked \in {"told", "dropped"} /\ loop = "serve" => death = "Kickout"
  /\ kicked = "told" /\ loop = "serve" => KickAhead(evq)
  /\ kicked = "dropped" /\ loop = "serve" => reader /\ NoClosed(evq)

IInv == TypeOK /\ StopInv /\ LoopInv /\ QueueInv

(* What try_send leaves in the queue. *)
LEMMA SendFacts ==
  ASSUME evq \in Seq(Events), NEW e \in Events
  PROVE  /\ TrySend(e) \in Seq(Events)
         /\ Len(TrySend(e)) \in Nat
         /\ Len(TrySend(e)) <= Len(evq) + 1
         /\ Len(evq) <= Len(TrySend(e))
         /\ \A i \in 1..Len(evq) : TrySend(e)[i] = evq[i]
         /\ \A i \in 1..Len(TrySend(e)) : i > Len(evq) => TrySend(e)[i] = e
         /\ Len(evq) < EventCap => Len(TrySend(e)) = Len(evq) + 1
  BY BoundsAssumption DEF TrySend

(* A queue of pushes grows and shrinks as one. *)
LEMMA OnlyPushesFacts ==
  /\ OnlyPushes(<<>>)
  /\ evq \in Seq(Events) /\ OnlyPushes(evq) =>
       /\ OnlyPushes(TrySend("push"))
       /\ evq # <<>> => OnlyPushes(Tail(evq)) /\ Len(Tail(evq)) = Len(evq) - 1
<1>1. OnlyPushes(<<>>)
  BY DEF OnlyPushes
<1>2. ASSUME evq \in Seq(Events), OnlyPushes(evq), NEW e \in {"push"}
      PROVE  OnlyPushes(TrySend(e))
  <2>1. Len(evq) \in Nat /\ e \in Events
    BY <1>2 DEF Events
  <2>2. SUFFICES ASSUME NEW i \in 1..Len(TrySend(e))
                 PROVE  TrySend(e)[i] \in {"push"}
    BY DEF OnlyPushes
  <2>3. CASE i > Len(evq)
    BY <1>2, <2>1, <2>3, SendFacts
  <2>4. CASE ~(i > Len(evq))
    <3>1. Len(TrySend(e)) \in Nat
      BY <1>2, <2>1, SendFacts
    <3>2. i \in 1..Len(evq)
      BY <3>1, <2>1, <2>4
    <3>. QED
      BY <1>2, <2>1, <3>2, SendFacts DEF OnlyPushes
  <2>. QED
    BY <2>3, <2>4
<1>3. ASSUME evq \in Seq(Events), OnlyPushes(evq), evq # <<>>
      PROVE  OnlyPushes(Tail(evq)) /\ Len(Tail(evq)) = Len(evq) - 1
  BY <1>3 DEF OnlyPushes
<1>. QED
  BY <1>1, <1>2, <1>3

(* A queued kickout stays ahead of any Closed until it is received. *)
LEMMA KickFacts ==
  ASSUME evq \in Seq(Events)
  PROVE  /\ KickAhead(evq) => evq # <<>> /\ Head(evq) # "closed"
         /\ KickAhead(evq) /\ Head(evq) # "kick" => KickAhead(Tail(evq))
         /\ \A e \in Events : KickAhead(evq) => KickAhead(TrySend(e))
         /\ OnlyPushes(evq) /\ Len(evq) < EventCap => KickAhead(TrySend("kick"))
<1>l. Len(evq) \in Nat
  OBVIOUS
<1>1. KickAhead(evq) => evq # <<>> /\ Head(evq) # "closed"
  BY DEF KickAhead
<1>2. KickAhead(evq) /\ Head(evq) # "kick" => KickAhead(Tail(evq))
  <2>1. SUFFICES ASSUME KickAhead(evq), Head(evq) # "kick"
                 PROVE  KickAhead(Tail(evq))
    OBVIOUS
  <2>2. PICK i \in 1..Len(evq) : evq[i] = "kick" /\ \A j \in 1..i : evq[j] # "closed"
    BY <2>1 DEF KickAhead
  <2>3. i # 1 /\ evq # <<>>
    BY <2>1, <2>2
  <2>4. i - 1 \in 1..Len(Tail(evq)) /\ \A j \in 1..(i - 1) : Tail(evq)[j] = evq[j + 1]
    BY <2>2, <2>3
  <2>5. Tail(evq)[i - 1] = "kick" /\ \A j \in 1..(i - 1) : Tail(evq)[j] # "closed"
    BY <2>2, <2>4
  <2>. QED
    BY <2>4, <2>5 DEF KickAhead
<1>3. ASSUME NEW e \in Events, KickAhead(evq)
      PROVE  KickAhead(TrySend(e))
  <2>1. PICK i \in 1..Len(evq) : evq[i] = "kick" /\ \A j \in 1..i : evq[j] # "closed"
    BY <1>3 DEF KickAhead
  <2>2. i \in 1..Len(TrySend(e)) /\ \A j \in 1..i : TrySend(e)[j] = evq[j]
    <3>1. /\ Len(TrySend(e)) \in Nat /\ Len(evq) <= Len(TrySend(e))
          /\ \A j \in 1..Len(evq) : TrySend(e)[j] = evq[j]
      BY <1>3, SendFacts
    <3>. QED
      BY <1>l, <2>1, <3>1
  <2>. QED
    BY <2>1, <2>2 DEF KickAhead
<1>4. ASSUME OnlyPushes(evq), Len(evq) < EventCap
      PROVE  KickAhead(TrySend("kick"))
  <2>1. "kick" \in Events
    BY DEF Events
  <2>2. Len(TrySend("kick")) = Len(evq) + 1 /\ TrySend("kick")[Len(evq) + 1] = "kick"
    BY <1>4, <1>l, <2>1, SendFacts
  <2>3. \A j \in 1..(Len(evq) + 1) : TrySend("kick")[j] # "closed"
    <3>1. \A j \in 1..Len(evq) : TrySend("kick")[j] = evq[j]
      BY <2>1, SendFacts
    <3>. QED
      BY <1>4, <1>l, <2>2, <3>1 DEF OnlyPushes
  <2>. QED
    BY <1>l, <2>2, <2>3 DEF KickAhead
<1>. QED
  BY <1>1, <1>2, <1>3, <1>4

(* What a disconnect leaves of the connection. *)
LEMMA DisconnectFacts ==
  ASSUME Disconnect
  PROVE  /\ evq' = <<>> /\ Len(evq') = 0 /\ pushes' = 0
         /\ pingNow' = 0
         /\ QueueInv'
<1>1. evq' = <<>> /\ Len(evq') = 0 /\ pushes' = 0 /\ pingNow' = 0
  BY DEF Disconnect
<1>2. OnlyPushes(evq')
  BY <1>1 DEF OnlyPushes
<1>. QED
  BY <1>1, <1>2, BoundsAssumption DEF QueueInv

(* A queue of a fresh connection. *)
LEMMA StartFacts ==
  ASSUME StartPump
  PROVE  QueueInv'
<1>1. evq' = <<>> /\ Len(evq') = 0 /\ pushes' = 0
  BY DEF StartPump
<1>2. OnlyPushes(evq')
  BY <1>1 DEF OnlyPushes
<1>. QED
  BY <1>1, <1>2, BoundsAssumption DEF QueueInv

(* One more push in the queue. *)
LEMMA PushFacts ==
  ASSUME QueueTypes, QueueInv, pushes < MaxPush, pushes' = pushes + 1, death' = death,
         NEW e \in {"push"}, evq' = TrySend(e)
  PROVE  QueueInv'
<1>1. evq \in Seq(Events) /\ Len(evq) \in Nat /\ pushes \in Nat /\ e \in Events
  BY DEF QueueTypes, Events
<1>2. Len(TrySend(e)) \in Nat /\ Len(TrySend(e)) <= Len(evq) + 1
  BY <1>1, SendFacts
<1>3. OnlyPushes(evq) => OnlyPushes(TrySend(e))
  BY <1>1, OnlyPushesFacts
<1>. QED
  BY <1>1, <1>2, <1>3, BoundsAssumption DEF QueueInv

(* Steps that leave the queue alone, or follow a death. *)
LEMMA FrameFacts ==
  ASSUME QueueInv, evq' = evq, pushes' = pushes, death' = death
  PROVE  QueueInv'
  BY DEF QueueInv

LEMMA DeathFacts ==
  ASSUME QueueInv, pushes' = pushes, death' # "none"
  PROVE  QueueInv'
  BY DEF QueueInv

(* One event less. *)
LEMMA PopFacts ==
  ASSUME QueueTypes, QueueInv, pushes' = pushes, death' = death, evq # <<>>, evq' = Tail(evq)
  PROVE  QueueInv'
<1>1. evq \in Seq(Events) /\ Len(evq) \in Nat /\ pushes \in Nat
  BY DEF QueueTypes
<1>2. Len(Tail(evq)) = Len(evq) - 1
  BY <1>1
<1>3. OnlyPushes(evq) => OnlyPushes(Tail(evq))
  BY <1>1, OnlyPushesFacts
<1>. QED
  BY <1>1, <1>2, <1>3, BoundsAssumption DEF QueueInv

(* Flags stay Boolean. *)
LEMMA FlagTypesStep ==
  ASSUME FlagTypes, [Next]_vars
  PROVE  FlagTypes'
<1>. USE DEF FlagTypes, Disconnect, StartPump, supVars, pumpVars
<1>1. CASE Supervisor
  BY <1>1
     DEF Supervisor, EnsureCheck, EnsureSpawn, Notify
<1>2. CASE Stop
  BY <1>2
     DEF Stop, StopFlag, StopNotify, StopAbort, StopDisconnect
<1>3. CASE Establish
  BY <1>3
     DEF Establish, SeeStopped, BeginSession, TokenUnusable, ConnectOk, ConnectLate,
         ConnectErr, ConnectStopped, LoginOk, LoginErr, LoginRefused
<1>4. CASE Backoff
  BY <1>4
     DEF Backoff, BackoffSleep, BackoffHint, BackoffStop
<1>5. CASE Serve
  BY <1>5
     DEF Serve, RecvEvent, RecvKickout, RecvClosed, DeadKicked, DeadStopped, DeadDropped,
         ServeStop, ServeHint
<1>6. CASE Sync
  BY <1>6
     DEF Sync, SyncDone, SyncStopped, SyncKicked, SyncDropped
<1>7. CASE Network
  <2>1. CASE ReadPush
    BY <2>1 DEF ReadPush
  <2>2. CASE ReadRenew
    BY <2>2 DEF ReadRenew
  <2>3. CASE ReadKickout
    BY <2>3 DEF ReadKickout
  <2>4. CASE ReaderEnds
    BY <2>4 DEF ReaderEnds
  <2>5. CASE ReadPong
    BY <2>5 DEF ReadPong
  <2>6. CASE GoSilent
    BY <2>6 DEF GoSilent
  <2>7. ASSUME NEW r \in Requests, Answer(r) PROVE FlagTypes'
    BY <2>7 DEF Answer
  <2>. QED
    BY <1>7, <2>1, <2>2, <2>3, <2>4, <2>5, <2>6, <2>7 DEF Network
<1>8. CASE Keepalive
  BY <1>8
     DEF Keepalive, ProbeWrite, ProbeFails, HeartbeatFails, GraceEnds, Watchdog
<1>9. CASE Callers
  BY <1>9
     DEF Callers, StartRequest, WriteOk, WriteErr, WriteTimeout, Return
<1>10. CASE Expire
  BY <1>10
     DEF Expire
<1>11. CASE UNCHANGED vars
  BY <1>11 DEF vars
<1>. QED
  BY <1>1, <1>2, <1>3, <1>4, <1>5, <1>6, <1>7, <1>8, <1>9, <1>10, <1>11 DEF Next

(* The supervisor's tasks stay at one of their places. *)
LEMMA TaskTypesStep ==
  ASSUME TaskTypes, [Next]_vars
  PROVE  TaskTypes'
<1>. USE DEF TaskTypes, LoopPcs, End, Dropped, supVars, pumpVars
<1>1. CASE Supervisor
  BY <1>1
     DEF Supervisor, EnsureCheck, EnsureSpawn, Notify
<1>2. CASE Stop
  BY <1>2
     DEF Stop, StopFlag, StopNotify, StopAbort, StopDisconnect
<1>3. CASE Establish
  BY <1>3
     DEF Establish, SeeStopped, BeginSession, TokenUnusable, ConnectOk, ConnectLate,
         ConnectErr, ConnectStopped, LoginOk, LoginErr, LoginRefused
<1>4. CASE Backoff
  BY <1>4
     DEF Backoff, BackoffSleep, BackoffHint, BackoffStop
<1>5. CASE Serve
  BY <1>5
     DEF Serve, RecvEvent, RecvKickout, RecvClosed, DeadKicked, DeadStopped, DeadDropped,
         ServeStop, ServeHint
<1>6. CASE Sync
  BY <1>6
     DEF Sync, SyncDone, SyncStopped, SyncKicked, SyncDropped
<1>7. CASE Network
  BY <1>7
     DEF Network, ReadPush, ReadRenew, ReadKickout, ReaderEnds, ReadPong, GoSilent, Answer
<1>8. CASE Keepalive
  BY <1>8
     DEF Keepalive, ProbeWrite, ProbeFails, HeartbeatFails, GraceEnds, Watchdog
<1>9. CASE Callers
  BY <1>9
     DEF Callers, StartRequest, WriteOk, WriteErr, WriteTimeout, Return
<1>10. CASE Expire
  BY <1>10
     DEF Expire
<1>11. CASE UNCHANGED vars
  BY <1>11 DEF vars
<1>. QED
  BY <1>1, <1>2, <1>3, <1>4, <1>5, <1>6, <1>7, <1>8, <1>9, <1>10, <1>11 DEF Next

(* The connection stays in one of its states. *)
LEMMA PumpTypesStep ==
  ASSUME PumpTypes, [Next]_vars
  PROVE  PumpTypes'
<1>. USE DEF PumpTypes, Reasons, Tokens, LoginToken, Die, Disconnect, StartPump, supVars, pumpVars
<1>1. CASE Supervisor
  BY <1>1
     DEF Supervisor, EnsureCheck, EnsureSpawn, Notify
<1>2. CASE Stop
  BY <1>2
     DEF Stop, StopFlag, StopNotify, StopAbort, StopDisconnect
<1>3. CASE Establish
  BY <1>3
     DEF Establish, SeeStopped, BeginSession, TokenUnusable, ConnectOk, ConnectLate,
         ConnectErr, ConnectStopped, LoginOk, LoginErr, LoginRefused
<1>4. CASE Backoff
  BY <1>4
     DEF Backoff, BackoffSleep, BackoffHint, BackoffStop
<1>5. CASE Serve
  BY <1>5
     DEF Serve, RecvEvent, RecvKickout, RecvClosed, DeadKicked, DeadStopped, DeadDropped,
         ServeStop, ServeHint
<1>6. CASE Sync
  BY <1>6
     DEF Sync, SyncDone, SyncStopped, SyncKicked, SyncDropped
<1>7. CASE Network
  BY <1>7
     DEF Network, ReadPush, ReadRenew, ReadKickout, ReaderEnds, ReadPong, GoSilent, Answer
<1>8. CASE Keepalive
  BY <1>8
     DEF Keepalive, ProbeWrite, ProbeFails, HeartbeatFails, GraceEnds, Watchdog
<1>9. CASE Callers
  BY <1>9
     DEF Callers, StartRequest, WriteOk, WriteErr, WriteTimeout, Return
<1>10. CASE Expire
  BY <1>10
     DEF Expire
<1>11. CASE UNCHANGED vars
  BY <1>11 DEF vars
<1>. QED
  BY <1>1, <1>2, <1>3, <1>4, <1>5, <1>6, <1>7, <1>8, <1>9, <1>10, <1>11 DEF Next

(* No Notify holds more than a permit and a wake-up. *)
LEMMA PermitTypesStep ==
  ASSUME PermitTypes, [Next]_vars
  PROVE  PermitTypes'
<1>. USE DEF PermitTypes, Rearm, NotifyHints, StartPump, supVars, pumpVars
<1>1. CASE Supervisor
  BY <1>1
     DEF Supervisor, EnsureCheck, EnsureSpawn, Notify
<1>2. CASE Stop
  <2>1. CASE StopFlag
    BY <2>1 DEF StopFlag
  <2>2. CASE StopNotify
    BY <2>2 DEF StopNotify
  <2>3. CASE StopAbort
    BY <2>3 DEF StopAbort
  <2>4. CASE StopDisconnect
    BY <2>4, DisconnectFacts DEF StopDisconnect
  <2>. QED
    BY <1>2, <2>1, <2>2, <2>3, <2>4 DEF Stop
<1>3. CASE Establish
  BY <1>3, DisconnectFacts
     DEF Establish, SeeStopped, BeginSession, TokenUnusable, ConnectOk, ConnectLate,
         ConnectErr, ConnectStopped, LoginOk, LoginErr, LoginRefused
<1>4. CASE Backoff
  BY <1>4
     DEF Backoff, BackoffSleep, BackoffHint, BackoffStop
<1>5. CASE Serve
  BY <1>5, DisconnectFacts
     DEF Serve, RecvEvent, RecvKickout, RecvClosed, DeadKicked, DeadStopped, DeadDropped,
         ServeStop, ServeHint
<1>6. CASE Sync
  BY <1>6, DisconnectFacts
     DEF Sync, SyncDone, SyncStopped, SyncKicked, SyncDropped
<1>7. CASE Network
  BY <1>7
     DEF Network, ReadPush, ReadRenew, ReadKickout, ReaderEnds, ReadPong, GoSilent, Answer
<1>8. CASE Keepalive
  BY <1>8
     DEF Keepalive, ProbeWrite, ProbeFails, HeartbeatFails, GraceEnds, Watchdog
<1>9. CASE Callers
  BY <1>9
     DEF Callers, StartRequest, WriteOk, WriteErr, WriteTimeout, Return
<1>10. CASE Expire
  BY <1>10
     DEF Expire
<1>11. CASE UNCHANGED vars
  BY <1>11 DEF vars
<1>. QED
  BY <1>1, <1>2, <1>3, <1>4, <1>5, <1>6, <1>7, <1>8, <1>9, <1>10, <1>11 DEF Next

(* The event queue stays a queue of events. *)
LEMMA QueueTypesStep ==
  ASSUME QueueTypes, [Next]_vars
  PROVE  QueueTypes'
<1>. USE DEF QueueTypes, Events, StartPump, supVars, pumpVars
<1>1. CASE Supervisor
  BY <1>1
     DEF Supervisor, EnsureCheck, EnsureSpawn, Notify
<1>2. CASE Stop
  <2>1. CASE StopFlag
    BY <2>1 DEF StopFlag
  <2>2. CASE StopNotify
    BY <2>2 DEF StopNotify
  <2>3. CASE StopAbort
    BY <2>3 DEF StopAbort
  <2>4. CASE StopDisconnect
    BY <2>4, DisconnectFacts DEF StopDisconnect
  <2>. QED
    BY <1>2, <2>1, <2>2, <2>3, <2>4 DEF Stop
<1>3. CASE Establish
  <2>1. CASE SeeStopped
    BY <2>1 DEF SeeStopped
  <2>2. CASE BeginSession
    BY <2>2, DisconnectFacts DEF BeginSession
  <2>3. CASE TokenUnusable
    BY <2>3, DisconnectFacts DEF TokenUnusable
  <2>4. CASE ConnectOk
    BY <2>4 DEF ConnectOk
  <2>5. CASE ConnectLate
    BY <2>5 DEF ConnectLate
  <2>6. CASE ConnectErr
    BY <2>6 DEF ConnectErr
  <2>7. CASE ConnectStopped
    BY <2>7 DEF ConnectStopped
  <2>8. CASE LoginOk
    BY <2>8 DEF LoginOk
  <2>9. CASE LoginErr
    BY <2>9, DisconnectFacts DEF LoginErr
  <2>10. CASE LoginRefused
    BY <2>10, DisconnectFacts DEF LoginRefused
  <2>. QED
    BY <1>3, <2>1, <2>2, <2>3, <2>4, <2>5, <2>6, <2>7, <2>8, <2>9, <2>10 DEF Establish
<1>4. CASE Backoff
  BY <1>4
     DEF Backoff, BackoffSleep, BackoffHint, BackoffStop
<1>5. CASE Serve
  <2>1. CASE RecvEvent
    BY <2>1 DEF RecvEvent
  <2>2. CASE RecvKickout
    BY <2>2, DisconnectFacts DEF RecvKickout
  <2>3. CASE RecvClosed
    BY <2>3, DisconnectFacts DEF RecvClosed
  <2>4. CASE DeadKicked
    BY <2>4, DisconnectFacts DEF DeadKicked
  <2>5. CASE DeadStopped
    BY <2>5, DisconnectFacts DEF DeadStopped
  <2>6. CASE DeadDropped
    BY <2>6, DisconnectFacts DEF DeadDropped
  <2>7. CASE ServeStop
    BY <2>7, DisconnectFacts DEF ServeStop
  <2>8. CASE ServeHint
    BY <2>8 DEF ServeHint
  <2>. QED
    BY <1>5, <2>1, <2>2, <2>3, <2>4, <2>5, <2>6, <2>7, <2>8 DEF Serve
<1>6. CASE Sync
  <2>1. CASE SyncDone
    BY <2>1 DEF SyncDone
  <2>2. CASE SyncStopped
    BY <2>2, DisconnectFacts DEF SyncStopped
  <2>3. CASE SyncKicked
    BY <2>3 DEF SyncKicked
  <2>4. CASE SyncDropped
    BY <2>4, DisconnectFacts DEF SyncDropped
  <2>. QED
    BY <1>6, <2>1, <2>2, <2>3, <2>4 DEF Sync
<1>7. CASE Network
  BY <1>7, SendFacts
     DEF Network, ReadPush, ReadRenew, ReadKickout, ReaderEnds, ReadPong, GoSilent, Answer
<1>8. CASE Keepalive
  BY <1>8
     DEF Keepalive, ProbeWrite, ProbeFails, HeartbeatFails, GraceEnds, Watchdog
<1>9. CASE Callers
  BY <1>9
     DEF Callers, StartRequest, WriteOk, WriteErr, WriteTimeout, Return
<1>10. CASE Expire
  BY <1>10
     DEF Expire
<1>11. CASE UNCHANGED vars
  BY <1>11 DEF vars
<1>. QED
  BY <1>1, <1>2, <1>3, <1>4, <1>5, <1>6, <1>7, <1>8, <1>9, <1>10, <1>11 DEF Next

(* The types of the callers' state are kept. *)
LEMMA RequestTypesStep ==
  ASSUME RequestTypes, [Next]_vars
  PROVE  RequestTypes'
<1>. USE DEF RequestTypes, Disconnect, Abandon, ClearPending, supVars, pumpVars
<1>1. CASE Supervisor
  BY <1>1
     DEF Supervisor, EnsureCheck, EnsureSpawn, Notify
<1>2. CASE Stop
  BY <1>2
     DEF Stop, StopFlag, StopNotify, StopAbort, StopDisconnect
<1>3. CASE Establish
  BY <1>3
     DEF Establish, SeeStopped, BeginSession, TokenUnusable, ConnectOk, ConnectLate,
         ConnectErr, ConnectStopped, LoginOk, LoginErr, LoginRefused
<1>4. CASE Backoff
  BY <1>4
     DEF Backoff, BackoffSleep, BackoffHint, BackoffStop
<1>5. CASE Serve
  BY <1>5
     DEF Serve, RecvEvent, RecvKickout, RecvClosed, DeadKicked, DeadStopped, DeadDropped,
         ServeStop, ServeHint
<1>6. CASE Sync
  BY <1>6
     DEF Sync, SyncDone, SyncStopped, SyncKicked, SyncDropped
<1>7. CASE Network
  BY <1>7
     DEF Network, ReadPush, ReadRenew, ReadKickout, ReaderEnds, ReadPong, GoSilent, Answer
<1>8. CASE Keepalive
  BY <1>8
     DEF Keepalive, ProbeWrite, ProbeFails, HeartbeatFails, GraceEnds, Watchdog
<1>9. CASE Callers
  BY <1>9
     DEF Callers, StartRequest, WriteOk, WriteErr, WriteTimeout, Return
<1>10. CASE Expire
  BY <1>10
     DEF Expire
<1>11. CASE UNCHANGED vars
  BY <1>11 DEF vars
<1>. QED
  BY <1>1, <1>2, <1>3, <1>4, <1>5, <1>6, <1>7, <1>8, <1>9, <1>10, <1>11 DEF Next

(* StopInv is kept. *)
LEMMA StopStep ==
  ASSUME StopInv, LoopInv, [Next]_vars
  PROVE  StopInv'
<1>. USE DEF StopInv, LoopInv, supVars, pumpVars, Disconnect, End, Dropped, Reading
<1>1. CASE Supervisor
  BY <1>1
     DEF Supervisor, EnsureCheck, EnsureSpawn, Notify
<1>2. CASE Stop
  BY <1>2
     DEF Stop, StopFlag, StopNotify, StopAbort, StopDisconnect
<1>3. CASE Establish
  <2>1. CASE SeeStopped
    BY <2>1 DEF SeeStopped
  <2>2. CASE BeginSession
    BY <2>2 DEF BeginSession
  <2>3. CASE TokenUnusable
    BY <2>3 DEF TokenUnusable
  <2>4. CASE ConnectOk
    BY <2>4 DEF ConnectOk
  <2>5. CASE ConnectLate
    BY <2>5 DEF ConnectLate
  <2>6. CASE ConnectErr
    BY <2>6 DEF ConnectErr
  <2>7. CASE ConnectStopped
    BY <2>7 DEF ConnectStopped
  <2>8. CASE LoginOk
    BY <2>8 DEF LoginOk
  <2>9. CASE LoginErr
    BY <2>9 DEF LoginErr
  <2>10. CASE LoginRefused
    BY <2>10 DEF LoginRefused
  <2>. QED
    BY <1>3, <2>1, <2>2, <2>3, <2>4, <2>5, <2>6, <2>7, <2>8, <2>9, <2>10 DEF Establish
<1>4. CASE Backoff
  BY <1>4
     DEF Backoff, BackoffSleep, BackoffHint, BackoffStop
<1>5. CASE Serve
  <2>1. CASE RecvEvent
    BY <2>1 DEF RecvEvent
  <2>2. CASE RecvKickout
    BY <2>2 DEF RecvKickout
  <2>3. CASE RecvClosed
    BY <2>3 DEF RecvClosed
  <2>4. CASE DeadKicked
    BY <2>4 DEF DeadKicked
  <2>5. CASE DeadStopped
    BY <2>5 DEF DeadStopped
  <2>6. CASE DeadDropped
    BY <2>6 DEF DeadDropped
  <2>7. CASE ServeStop
    BY <2>7 DEF ServeStop
  <2>8. CASE ServeHint
    BY <2>8 DEF ServeHint
  <2>. QED
    BY <1>5, <2>1, <2>2, <2>3, <2>4, <2>5, <2>6, <2>7, <2>8 DEF Serve
<1>6. CASE Sync
  <2>1. CASE SyncDone
    BY <2>1 DEF SyncDone
  <2>2. CASE SyncStopped
    BY <2>2 DEF SyncStopped
  <2>3. CASE SyncKicked
    BY <2>3 DEF SyncKicked
  <2>4. CASE SyncDropped
    BY <2>4 DEF SyncDropped
  <2>. QED
    BY <1>6, <2>1, <2>2, <2>3, <2>4 DEF Sync
<1>7. CASE Network
  BY <1>7
     DEF Network, ReadPush, ReadRenew, ReadKickout, ReaderEnds, ReadPong, GoSilent, Answer
<1>8. CASE Keepalive
  BY <1>8
     DEF Keepalive, ProbeWrite, ProbeFails, HeartbeatFails, GraceEnds, Watchdog
<1>9. CASE Callers
  <2>1. ASSUME NEW r \in Requests, StartRequest(r) PROVE StopInv'
    BY <2>1 DEF StartRequest
  <2>2. ASSUME NEW r \in Requests, WriteOk(r) PROVE StopInv'
    BY <2>2 DEF WriteOk
  <2>3. ASSUME NEW r \in Requests, WriteErr(r) PROVE StopInv'
    BY <2>3 DEF WriteErr
  <2>4. ASSUME NEW r \in Requests, WriteTimeout(r) PROVE StopInv'
    BY <2>4 DEF WriteTimeout
  <2>5. ASSUME NEW r \in Requests, Return(r) PROVE StopInv'
    BY <2>5 DEF Return
  <2>. QED
    BY <1>9, <2>1, <2>2, <2>3, <2>4, <2>5 DEF Callers
<1>10. CASE Expire
  BY <1>10
     DEF Expire
<1>11. CASE UNCHANGED vars
  BY <1>11 DEF vars
<1>. QED
  BY <1>1, <1>2, <1>3, <1>4, <1>5, <1>6, <1>7, <1>8, <1>9, <1>10, <1>11 DEF Next

(* LoopInv is kept. *)
LEMMA LoopStep ==
  ASSUME TaskTypes, StopInv, LoopInv, [Next]_vars
  PROVE  LoopInv'
<1>. USE DEF TaskTypes, LoopPcs, StopInv, LoopInv, StartPump, supVars, pumpVars, Disconnect, End, Dropped, Reading
<1>1. CASE Supervisor
  BY <1>1
     DEF Supervisor, EnsureCheck, EnsureSpawn, Notify
<1>2. CASE Stop
  BY <1>2
     DEF Stop, StopFlag, StopNotify, StopAbort, StopDisconnect
<1>3. CASE Establish
  BY <1>3
     DEF Establish, SeeStopped, BeginSession, TokenUnusable, ConnectOk, ConnectLate,
         ConnectErr, ConnectStopped, LoginOk, LoginErr, LoginRefused
<1>4. CASE Backoff
  BY <1>4
     DEF Backoff, BackoffSleep, BackoffHint, BackoffStop
<1>5. CASE Serve
  BY <1>5
     DEF Serve, RecvEvent, RecvKickout, RecvClosed, DeadKicked, DeadStopped, DeadDropped,
         ServeStop, ServeHint
<1>6. CASE Sync
  BY <1>6
     DEF Sync, SyncDone, SyncStopped, SyncKicked, SyncDropped
<1>7. CASE Network
  BY <1>7
     DEF Network, ReadPush, ReadRenew, ReadKickout, ReaderEnds, ReadPong, GoSilent, Answer
<1>8. CASE Keepalive
  BY <1>8
     DEF Keepalive, ProbeWrite, ProbeFails, HeartbeatFails, GraceEnds, Watchdog
<1>9. CASE Callers
  BY <1>9
     DEF Callers, StartRequest, WriteOk, WriteErr, WriteTimeout, Return
<1>10. CASE Expire
  BY <1>10
     DEF Expire
<1>11. CASE UNCHANGED vars
  BY <1>11 DEF vars
<1>. QED
  BY <1>1, <1>2, <1>3, <1>4, <1>5, <1>6, <1>7, <1>8, <1>9, <1>10, <1>11 DEF Next

(* QueueInv is kept. *)
LEMMA QueueStep ==
  ASSUME QueueTypes, PumpTypes, QueueInv, [Next]_vars
  PROVE  QueueInv'
<1>. USE DEF Die, supVars, pumpVars
<1>1. CASE Supervisor
  BY <1>1, FrameFacts
     DEF Supervisor, EnsureCheck, EnsureSpawn, Notify
<1>2. CASE Stop
  BY <1>2, FrameFacts, DisconnectFacts
     DEF Stop, StopFlag, StopNotify, StopAbort, StopDisconnect
<1>3. CASE Establish
  BY <1>3, FrameFacts, DisconnectFacts, StartFacts
     DEF Establish, SeeStopped, BeginSession, TokenUnusable, ConnectOk, ConnectLate,
         ConnectErr, ConnectStopped, LoginOk, LoginErr, LoginRefused
<1>4. CASE Backoff
  BY <1>4, FrameFacts
     DEF Backoff, BackoffSleep, BackoffHint, BackoffStop
<1>5. CASE Serve
  BY <1>5, PopFacts, DisconnectFacts, FrameFacts
     DEF Serve, RecvEvent, RecvKickout, RecvClosed, DeadKicked, DeadStopped, DeadDropped,
         ServeStop, ServeHint
<1>6. CASE Sync
  BY <1>6, FrameFacts, DisconnectFacts
     DEF Sync, SyncDone, SyncStopped, SyncKicked, SyncDropped
<1>7. CASE Network
  BY <1>7, PushFacts, DeathFacts, FrameFacts
     DEF Network, ReadPush, ReadRenew, ReadKickout, ReaderEnds, ReadPong, GoSilent, Answer
<1>8. CASE Keepalive
  BY <1>8, FrameFacts, DeathFacts
     DEF Keepalive, ProbeWrite, ProbeFails, HeartbeatFails, GraceEnds, Watchdog
<1>9. CASE Callers
  BY <1>9, FrameFacts, DeathFacts
     DEF Callers, StartRequest, WriteOk, WriteErr, WriteTimeout, Return
<1>10. CASE Expire
  BY <1>10, FrameFacts
     DEF Expire
<1>11. CASE UNCHANGED vars
  BY <1>11, FrameFacts DEF vars
<1>. QED
  BY <1>1, <1>2, <1>3, <1>4, <1>5, <1>6, <1>7, <1>8, <1>9, <1>10, <1>11 DEF Next

(* A queue without a Closed stays one until the reader ends. *)
LEMMA NoClosedFacts ==
  ASSUME evq \in Seq(Events)
  PROVE  /\ OnlyPushes(evq) => NoClosed(evq)
         /\ NoClosed(evq) /\ evq # <<>> => Head(evq) # "closed" /\ NoClosed(Tail(evq))
         /\ \A e \in Events : e # "closed" /\ NoClosed(evq) => NoClosed(TrySend(e))
<1>1. OnlyPushes(evq) => NoClosed(evq)
  BY DEF OnlyPushes, NoClosed
<1>2. NoClosed(evq) /\ evq # <<>> => Head(evq) # "closed" /\ NoClosed(Tail(evq))
  BY DEF NoClosed
<1>3. ASSUME NEW e \in Events, e # "closed", NoClosed(evq)
      PROVE  NoClosed(TrySend(e))
  <2>1. SUFFICES ASSUME NEW i \in 1..Len(TrySend(e))
                 PROVE  TrySend(e)[i] # "closed"
    BY DEF NoClosed
  <2>2. CASE i \in 1..Len(evq)
    BY <1>3, <2>2, SendFacts DEF NoClosed
  <2>3. CASE i > Len(evq)
    BY <1>3, <2>3, SendFacts
  <2>. QED
    BY <2>2, <2>3, SendFacts
<1>. QED
  BY <1>1, <1>2, <1>3

(* KickInv is kept, whatever fills the queue. *)
LEMMA KickStep ==
  ASSUME IInv, KickInv, [Next]_vars
  PROVE  KickInv'
<1>. USE DEF KickInv, StopInv, LoopInv, LoopPcs, Die, End, Dropped, Reading, supVars, pumpVars
<1>q. evq \in Seq(Events) /\ Len(evq) \in Nat
  BY DEF IInv, TypeOK, QueueTypes
<1>r. death = "none" => OnlyPushes(evq)
  BY DEF IInv, QueueInv
<1>i. StopInv /\ LoopInv /\ kicked \in {"no", "told", "dropped", "lost"} /\ loop \in LoopPcs
  BY DEF IInv, TypeOK, FlagTypes, TaskTypes
<1>e. {"push", "kick", "closed"} \subseteq Events
  BY DEF Events
<1>1. CASE Supervisor
  BY <1>1, <1>i
     DEF Supervisor, EnsureCheck, EnsureSpawn, Notify
<1>2. CASE Stop
  <2>1. CASE StopFlag
    BY <2>1, <1>i DEF StopFlag
  <2>2. CASE StopNotify
    BY <2>2, <1>i DEF StopNotify
  <2>3. CASE StopAbort
    BY <2>3, <1>i DEF StopAbort
  <2>4. CASE StopDisconnect
    BY <2>4, <1>i DEF StopDisconnect
  <2>. QED
    BY <1>2, <2>1, <2>2, <2>3, <2>4 DEF Stop
<1>3. CASE Establish
  BY <1>3, <1>i
     DEF Establish, SeeStopped, BeginSession, TokenUnusable, ConnectOk, ConnectLate,
         ConnectErr, ConnectStopped, LoginOk, LoginErr, LoginRefused
<1>4. CASE Backoff
  BY <1>4, <1>i
     DEF Backoff, BackoffSleep, BackoffHint, BackoffStop
<1>5. CASE Serve
  <2>1. CASE RecvEvent
    BY <2>1, <1>i, <1>q, <1>r, <1>e, KickFacts, NoClosedFacts DEF RecvEvent
  <2>2. CASE RecvKickout
    BY <2>2, <1>i DEF RecvKickout
  <2>3. CASE RecvClosed
    BY <2>3, <1>i, <1>q, <1>r, <1>e, KickFacts, NoClosedFacts DEF RecvClosed
  <2>4. CASE DeadKicked
    BY <2>4, <1>i DEF DeadKicked
  <2>5. CASE DeadStopped
    BY <2>5, <1>i DEF DeadStopped
  <2>6. CASE DeadDropped
    BY <2>6, <1>i DEF DeadDropped
  <2>7. CASE ServeStop
    BY <2>7, <1>i DEF ServeStop
  <2>8. CASE ServeHint
    BY <2>8, <1>i DEF ServeHint
  <2>. QED
    BY <1>5, <2>1, <2>2, <2>3, <2>4, <2>5, <2>6, <2>7, <2>8 DEF Serve
<1>6. CASE Sync
  BY <1>6, <1>i
     DEF Sync, SyncDone, SyncStopped, SyncKicked, SyncDropped
<1>7. CASE Network
  <2>1. CASE ReadPush
    BY <2>1, <1>i, <1>q, <1>e, KickFacts, NoClosedFacts DEF ReadPush
  <2>2. CASE ReadRenew
    BY <2>2, <1>i, <1>q, <1>e, KickFacts, NoClosedFacts DEF ReadRenew
  <2>3. CASE ReadKickout
    BY <2>3, <1>i, <1>q, <1>r, <1>e, KickFacts, NoClosedFacts DEF ReadKickout
  <2>4. CASE ReaderEnds
    BY <2>4, <1>i, <1>q, <1>e, KickFacts DEF ReaderEnds
  <2>5. CASE ReadPong \/ GoSilent \/ \E r \in Requests : Answer(r)
    BY <2>5, <1>i DEF ReadPong, GoSilent, Answer
  <2>. QED
    BY <1>7, <2>1, <2>2, <2>3, <2>4, <2>5 DEF Network
<1>8. CASE Keepalive
  BY <1>8, <1>i
     DEF Keepalive, ProbeWrite, ProbeFails, HeartbeatFails, GraceEnds, Watchdog
<1>9. CASE Callers
  <2>1. ASSUME NEW r \in Requests, StartRequest(r) PROVE KickInv'
    BY <2>1, <1>i DEF StartRequest
  <2>2. ASSUME NEW r \in Requests, WriteOk(r) PROVE KickInv'
    BY <2>2, <1>i DEF WriteOk
  <2>3. ASSUME NEW r \in Requests, WriteErr(r) PROVE KickInv'
    BY <2>3, <1>i DEF WriteErr
  <2>4. ASSUME NEW r \in Requests, WriteTimeout(r) PROVE KickInv'
    BY <2>4, <1>i DEF WriteTimeout
  <2>5. ASSUME NEW r \in Requests, Return(r) PROVE KickInv'
    BY <2>5, <1>i DEF Return
  <2>. QED
    BY <1>9, <2>1, <2>2, <2>3, <2>4, <2>5 DEF Callers
<1>10. CASE Expire
  BY <1>10, <1>i
     DEF Expire
<1>11. CASE UNCHANGED vars
  BY <1>11 DEF vars
<1>. QED
  BY <1>1, <1>2, <1>3, <1>4, <1>5, <1>6, <1>7, <1>8, <1>9, <1>10, <1>11 DEF Next

(* The stopping invariant of every behaviour. *)
LEMMA Invariance == Spec => []IInv
<1>1. Init => IInv
  <2>. SUFFICES ASSUME Init PROVE IInv
    OBVIOUS
  <2>1. FlagTypes /\ TaskTypes /\ PumpTypes
    BY DEF Init, FlagTypes, TaskTypes, PumpTypes, Reasons, Tokens, LoopPcs
  <2>2. evq = <<>> /\ Len(evq) = 0 /\ pushes = 0 /\ hint = 0 /\ pingNow = 0
    BY DEF Init
  <2>3. PermitTypes /\ QueueTypes
    BY <2>2 DEF PermitTypes, QueueTypes
  <2>4. RequestTypes
    BY DEF Init, RequestTypes
  <2>5. QueueInv
    BY <2>2, BoundsAssumption DEF QueueInv, OnlyPushes
  <2>6. StopInv /\ LoopInv
    BY DEF Init, StopInv, LoopInv
  <2>. QED
    BY <2>1, <2>3, <2>4, <2>5, <2>6 DEF IInv, TypeOK
<1>2. IInv /\ [Next]_vars => IInv'
  BY FlagTypesStep, TaskTypesStep, PumpTypesStep, PermitTypesStep, QueueTypesStep, RequestTypesStep,
     StopStep, LoopStep, QueueStep DEF IInv, TypeOK
<1>. QED
  BY <1>1, <1>2, PTL DEF Spec

(* The supervisor, the client and the pump keep their state well typed. *)
THEOREM TypeCorrect == Spec => []TypeOK
<1>1. IInv => TypeOK
  BY DEF IInv
<1>. QED
  BY <1>1, Invariance, PTL

(* After stop() there is no connection and no loop that could make one,    *)
(* whatever run_loop and a racing ensure_running were doing.               *)
THEOREM StopIsFinal == Spec => []StoppedStaysDown
<1>1. IInv => StoppedStaysDown
  BY DEF IInv, StopInv, LoopInv, StoppedStaysDown
<1>. QED
  BY <1>1, Invariance, PTL

(* A kicked client opens no other connection, for every length of the      *)
(* event queue and every number of pushes: also with the kickout's event   *)
(* dropped by a full queue, until the reader of that connection ends.      *)
THEOREM KickIsFinal == Spec => []KickedStaysOff
<1>1. Init => KickInv
  BY DEF Init, KickInv
<1>2. IInv /\ KickInv /\ [Next]_vars => KickInv'
  BY KickStep
<1>3. KickInv => KickedStaysOff
  BY DEF KickInv, KickedStaysOff
<1>. QED
  BY <1>1, <1>2, <1>3, Invariance, PTL DEF Spec

=============================================================================
