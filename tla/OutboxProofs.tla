---------------------------- MODULE OutboxProofs ----------------------------
(***************************************************************************)
(* The outbox's safety, for every set of accounts, ids and conversations,  *)
(* every length of the kick channel and every number of sessions.          *)
(***************************************************************************)
EXTENDS Outbox, TLAPS

USE OutboxAssumption

Busy   == {"upload", "recheck", "send", "ok", "retry", "fail"}
Loaded == {"proto", "rows"} \cup Busy
NoRow  == {"none", "wait", "session", "epoch", "proto", "rows", "again", "due"}

(***************************************************************************)
(* The inductive invariant.                                                *)
(***************************************************************************)
\* Tokens, epochs and clients move in step with start_session and
\* stop_session; the newest client logs in with the session's account.
SessionInv ==
  /\ tok = IF cmd \in {"start", "stop"} THEN epoch + 1 ELSE epoch
  /\ client <= epoch
  /\ cmd \in {"replace", "install"} => client < epoch
  /\ cmd = "install" => session = cmdAcct
  /\ cmd = "spawn" => client = epoch /\ epoch > 0
  /\ client = epoch /\ epoch > 0 => session = acct[epoch]
  /\ kickTo # 0 => kickTo = epoch /\ client = epoch /\ cmd \in {"idle", "start", "stop"}

\* A worker belongs to a client that was installed.  The row it has in hand
\* was taken while its session ran: it is the session's, and goes out over
\* the session's client.
Hand(w) ==
  /\ wpc[w] # "none" => w <= client
  /\ cmd = "spawn" /\ w = epoch => wpc[w] = "none"
  /\ wpc[w] \in NoRow => wcur[w] = NoId
  /\ wpc[w] \in Busy =>
       /\ wep[w] = w /\ wclient[w] = w
       /\ wcur[w] \in Ids /\ Owner[wcur[w]] = acct[w] /\ wcur[w] \notin wdue[w]
  /\ wpc[w] = "ok" => <<Owner[wcur[w]], wcur[w]>> \in accepted

HandInv == \A w \in Workers : Hand(w)

\* What the worker of the newest session has read is that session's, and
\* nobody else marks its rows.
Fetched(w) ==
  w = epoch =>
    /\ wpc[w] = "epoch" => wsess[w] = session
    /\ wpc[w] \in Loaded =>
         /\ wep[w] = w
         /\ \A i \in wdue[w] : Owner[i] = session /\ status[i] \in {"none", "pending"}
    /\ wpc[w] \in Busy \cup {"rows"} => wclient[w] = w
    /\ wpc[w] \in Busy => status[wcur[w]] \in {"none", "pending"}

LoadInv == \A w \in Workers : Fetched(w)

\* The worker of the running session knows of all it is asked to send, unless
\* a kick is on its way.
Awake(w) ==
  w = kickTo /\ ~owed /\ kicks[w] = 0 =>
    /\ wpc[w] \in {"wait", "drain", "due"} => asked = {}
    /\ wpc[w] \in Loaded => asked \subseteq wdue[w] \cup {wcur[w]}

\* What a running session is asked to send is due, and is with the worker
\* unless a kick is on its way.
WakeInv ==
  /\ kickTo # 0 => asked \subseteq DueOf(session)
  /\ \A w \in Workers : Awake(w)

\* A row with a message id is there, and the server gave the id.
NumberedInv == \A i \in numbered : msg[i] # "none" /\ <<Owner[i], i>> \in accepted

\* The domains of all but what the server has accepted.
Types == StoreTypes /\ SessionTypes /\ EpochTypes /\ WorkerTypes

IInv ==
  /\ TypeOK /\ SessionInv /\ HandInv /\ LoadInv /\ WakeInv
  /\ OwnAccountOnly /\ SentIsAccepted /\ TimelineAgrees /\ NumberedInv

(***************************************************************************)
(* What a step leaves alone.                                               *)
(***************************************************************************)
LEMMA WorkFrame ==
  ASSUME NEW w \in Workers, Work(w)
  PROVE  UNCHANGED <<doomed, tok, epoch, session, client, acct, kickTo, cmd, cmdAcct, owed>>
<1>1. CASE Loop(w)
  BY <1>1 DEF Loop, WorkerCancelled, WorkerClosed, End, RecvKick, BeginRun, Drain,
     RunAgain, WaitAgain, store, sdk, snap, Goto
<1>2. CASE Load(w)
  BY <1>2 DEF Load, NoSession, ReadSession, ReadEpoch, ReadProtocol, CutShort,
     store, sdk, snap, Goto
<1>3. CASE Rows(w)
  BY <1>3 DEF Rows, EndRows, StopRows, TakeRow, Take, Uploaded, UploadFails,
     Recheck, SkipRow, NextRow, CutShort, store, sdk, snap, Goto
<1>4. CASE Send(w)
  BY <1>4 DEF Send, ServerAccepts, SendFails, BotReplyNoId, store, sdk, snap, Goto
<1>5. CASE Marks(w)
  BY <1>5 DEF Marks, MarkSent, MarkFailed, MarkRetry, MarkStale, StoreError, Mark,
     NextRow, CutShort, store, sdk, snap, Goto
<1> QED
  BY <1>1, <1>2, <1>3, <1>4, <1>5 DEF Work

LEMMA OthersRest ==
  ASSUME EpochTypes, WorkerTypes, NEW w \in Workers, Work(w), NEW v \in Workers, v # w
  PROVE  /\ wpc'[v] = wpc[v] /\ wsess'[v] = wsess[v] /\ wep'[v] = wep[v]
         /\ wclient'[v] = wclient[v] /\ wdue'[v] = wdue[v] /\ wcur'[v] = wcur[v]
         /\ kicks'[v] = kicks[v]
<1>1. CASE Loop(w)
  BY <1>1 DEF Loop, WorkerCancelled, WorkerClosed, End, RecvKick, BeginRun, Drain,
     RunAgain, WaitAgain, EpochTypes, WorkerTypes, store, sdk, snap, Goto
<1>2. CASE Load(w)
  BY <1>2 DEF Load, NoSession, ReadSession, ReadEpoch, ReadProtocol, CutShort,
     EpochTypes, WorkerTypes, store, sdk, snap, Goto
<1>3. CASE Rows(w)
  BY <1>3 DEF Rows, EndRows, StopRows, TakeRow, Take, Uploaded, UploadFails,
     Recheck, SkipRow, NextRow, CutShort, EpochTypes, WorkerTypes, store, sdk,
     snap, Goto
<1>4. CASE Send(w)
  BY <1>4 DEF Send, ServerAccepts, SendFails, BotReplyNoId, EpochTypes,
     WorkerTypes, store, sdk, snap, Goto
<1>5. CASE Marks(w)
  BY <1>5 DEF Marks, MarkSent, MarkFailed, MarkRetry, MarkStale, StoreError, Mark,
     NextRow, CutShort, EpochTypes, WorkerTypes, store, sdk, snap, Goto
<1> QED
  BY <1>1, <1>2, <1>3, <1>4, <1>5 DEF Work

LEMMA CommandsFrame ==
  ASSUME Commands
  PROVE  UNCHANGED <<tok, epoch, session, client, acct, kickTo, cmd, cmdAcct, runOf, wpc, wsess,
                     wep, wclient, wdue, wcur, prev, accepted>>
  BY DEF Commands, Enqueue, EnqueueBotReply, InsertRow, RetrySend, CancelSend, CancelRun, AttemptDue,
         DeleteThread, PersistTalks, DeleteRows, WakeOutbox, KickOutbox, store, sdk, snap

(***************************************************************************)
(* Types.                                                                  *)
(***************************************************************************)
LEMMA InsertRowTypes ==
  ASSUME StoreTypes, NEW i \in Ids, NEW S, InsertRow(i, S)
  PROVE  StoreTypes'
<1>1. status' \in [Ids -> {"none", "pending", "failed", "sent"}] /\ due' \in [Ids -> BOOLEAN]
  BY DEF InsertRow, StoreTypes
<1>2. msg' \in [Ids -> {"none", "sending", "failed", "sent"}]
  BY DEF InsertRow, StoreTypes
<1>3. asked' \subseteq Ids /\ doomed' \subseteq Ids /\ numbered' \subseteq Ids
  BY DEF InsertRow, StoreTypes, sdk
<1> QED
  BY <1>1, <1>2, <1>3 DEF StoreTypes

\* start_session, stop_session and a crash keep the types.
LEMMA SessionTypesStep ==
  ASSUME StoreTypes, SessionTypes, EpochTypes, WorkerTypes, SessionInv, Session
  PROVE  Types'
<1>1. ASSUME NEW a \in Accounts, BeginStart(a)
      PROVE  Types'
  <2>1. StoreTypes'
    BY <1>1 DEF BeginStart, StoreTypes, store, sdk, snap, Goto
  <2>2. SessionTypes'
    BY <1>1 DEF BeginStart, SessionTypes, store, sdk, snap, Goto
  <2>3. EpochTypes'
    BY <1>1 DEF BeginStart, EpochTypes, SessionTypes, SessionInv, Workers, store,
       sdk, snap, Goto
  <2>4. WorkerTypes'
    BY <1>1 DEF BeginStart, WorkerTypes, SessionTypes, EpochTypes, StoreTypes, Pcs,
       Workers, store, sdk, snap, Goto
  <2> QED
    BY <2>1, <2>2, <2>3, <2>4 DEF Types
<1>2. CASE StartBump
  <2>1. StoreTypes'
    BY <1>2 DEF StartBump, StoreTypes, store, sdk, snap, Goto
  <2>2. SessionTypes'
    BY <1>2 DEF StartBump, SessionTypes, store, sdk, snap, Goto
  <2>3. EpochTypes'
    BY <1>2 DEF StartBump, EpochTypes, SessionTypes, SessionInv, Workers, store,
       sdk, snap, Goto
  <2>4. WorkerTypes'
    BY <1>2 DEF StartBump, WorkerTypes, SessionTypes, EpochTypes, StoreTypes, Pcs,
       Workers, store, sdk, snap, Goto
  <2> QED
    BY <2>1, <2>2, <2>3, <2>4 DEF Types
<1>3. CASE ReplaceSession
  BY <1>3 DEF ReplaceSession, Types, StoreTypes, SessionTypes, EpochTypes,
     WorkerTypes, SessionInv, Workers, Pcs, store, sdk, snap, Goto
<1>4. CASE InstallProtocol
  BY <1>4 DEF InstallProtocol, Types, StoreTypes, SessionTypes, EpochTypes,
     WorkerTypes, SessionInv, Workers, Pcs, store, sdk, snap, Goto
<1>5. CASE SpawnWorker
  <2>1. StoreTypes'
    BY <1>5 DEF SpawnWorker, DueOf, StoreTypes, store, sdk, snap, Goto
  <2>2. SessionTypes'
    BY <1>5 DEF SpawnWorker, DueOf, SessionTypes, store, sdk, snap, Goto
  <2>3. EpochTypes'
    <3>1. UNCHANGED <<tok, epoch, client, runOf, wep, wclient>>
      BY <1>5 DEF SpawnWorker, sdk, snap
    <3>2. kicks' \in [Workers -> 0 .. KickCap]
      <4>1. kicks' = [kicks EXCEPT ![epoch] = 1] /\ kicks \in [Workers -> 0 .. KickCap]
        BY <1>5 DEF SpawnWorker, EpochTypes
      <4>2. 1 \in 0 .. KickCap
        OBVIOUS
      <4> QED
        BY <4>1, <4>2
    <3>3. kickTo' \in 0 .. MaxEpoch
      BY <1>5 DEF SpawnWorker, EpochTypes
    <3> QED
      BY <3>1, <3>2, <3>3 DEF EpochTypes
  <2>4. WorkerTypes'
    BY <1>5 DEF SpawnWorker, DueOf, WorkerTypes, SessionTypes, EpochTypes,
       StoreTypes, Pcs, Workers, store, sdk, snap, Goto
  <2> QED
    BY <2>1, <2>2, <2>3, <2>4 DEF Types
<1>6. CASE BeginStop
  <2>1. StoreTypes'
    BY <1>6 DEF BeginStop, StoreTypes, store, sdk, snap, Goto
  <2>2. SessionTypes'
    BY <1>6 DEF BeginStop, SessionTypes, store, sdk, snap, Goto
  <2>3. EpochTypes'
    BY <1>6 DEF BeginStop, EpochTypes, SessionTypes, SessionInv, Workers, store,
       sdk, snap, Goto
  <2>4. WorkerTypes'
    BY <1>6 DEF BeginStop, WorkerTypes, SessionTypes, EpochTypes, StoreTypes, Pcs,
       Workers, store, sdk, snap, Goto
  <2> QED
    BY <2>1, <2>2, <2>3, <2>4 DEF Types
<1>7. CASE EndStop
  <2>1. StoreTypes'
    BY <1>7 DEF EndStop, StoreTypes, store, sdk, snap, Goto
  <2>2. SessionTypes'
    BY <1>7 DEF EndStop, SessionTypes, store, sdk, snap, Goto
  <2>3. EpochTypes'
    <3>1. tok = epoch + 1 /\ epoch' = epoch + 1
      BY <1>7 DEF EndStop, SessionInv
    <3>2. kicks' = kicks /\ wep' = wep /\ wclient' = wclient /\ tok' = tok /\ client' = client
          /\ kickTo' = 0 /\ runOf' = runOf
      BY <1>7 DEF EndStop
    <3> QED
      BY <3>1, <3>2 DEF EpochTypes
  <2>4. WorkerTypes'
    BY <1>7 DEF EndStop, WorkerTypes, SessionTypes, EpochTypes, StoreTypes, Pcs,
       Workers, store, sdk, snap, Goto
  <2> QED
    BY <2>1, <2>2, <2>3, <2>4 DEF Types
<1>8. CASE Crash
  <2>1. StoreTypes'
    BY <1>8 DEF Crash, StoreTypes, store, sdk, snap, Goto
  <2>2. SessionTypes'
    BY <1>8 DEF Crash, SessionTypes, store, sdk, snap, Goto
  <2>3. EpochTypes'
    BY <1>8 DEF Crash, EpochTypes, SessionTypes, SessionInv, Workers, store, sdk,
       snap, Goto
  <2>4. WorkerTypes'
    BY <1>8 DEF Crash, WorkerTypes, SessionTypes, EpochTypes, StoreTypes, Pcs,
       Workers, store, sdk, snap, Goto
  <2> QED
    BY <2>1, <2>2, <2>3, <2>4 DEF Types
<1> QED
  BY <1>1, <1>2, <1>3, <1>4, <1>5, <1>6, <1>7, <1>8 DEF Session

\* The commands keep the types.
LEMMA CommandTypes ==
  ASSUME StoreTypes, SessionTypes, EpochTypes, WorkerTypes, SessionInv, Commands
  PROVE  Types'
<1>1. ASSUME NEW i \in Ids, Enqueue(i)
      PROVE  Types'
  <2>1. StoreTypes'
    BY <1>1, InsertRowTypes DEF Enqueue
  <2>2. SessionTypes'
    BY <1>1 DEF Enqueue, InsertRow, SessionTypes, store, sdk, snap, Goto
  <2>3. EpochTypes'
    BY <1>1 DEF Enqueue, InsertRow, EpochTypes, SessionTypes, SessionInv, Workers,
       store, sdk, snap, Goto
  <2>4. WorkerTypes'
    BY <1>1 DEF Enqueue, InsertRow, WorkerTypes, SessionTypes, EpochTypes,
       StoreTypes, Pcs, Workers, store, sdk, snap, Goto
  <2> QED
    BY <2>1, <2>2, <2>3, <2>4 DEF Types
<1>2. ASSUME NEW i \in Ids, EnqueueBotReply(i)
      PROVE  Types'
  <2>1. StoreTypes'
    BY <1>2, InsertRowTypes DEF EnqueueBotReply
  <2>2. SessionTypes'
    BY <1>2 DEF EnqueueBotReply, InsertRow, SessionTypes, store, sdk, snap, Goto
  <2>3. EpochTypes'
    BY <1>2 DEF EnqueueBotReply, InsertRow, EpochTypes, SessionTypes, SessionInv,
       Workers, store, sdk, snap, Goto
  <2>4. WorkerTypes'
    BY <1>2 DEF EnqueueBotReply, InsertRow, WorkerTypes, SessionTypes, EpochTypes,
       StoreTypes, Pcs, Workers, store, sdk, snap, Goto
  <2> QED
    BY <2>1, <2>2, <2>3, <2>4 DEF Types
<1>3. ASSUME NEW i \in Ids, RetrySend(i)
      PROVE  Types'
  BY <1>3 DEF RetrySend, Types, StoreTypes, SessionTypes, EpochTypes, WorkerTypes,
     SessionInv, Workers, Pcs, store, sdk, snap, Goto
<1>4. ASSUME NEW i \in Ids, CancelSend(i)
      PROVE  Types'
  BY <1>4 DEF CancelSend, CancelRun, Types, StoreTypes, SessionTypes, EpochTypes,
     WorkerTypes, SessionInv, Workers, Pcs, store, sdk, snap, Goto
<1>5. ASSUME NEW i \in Ids, AttemptDue(i)
      PROVE  Types'
  BY <1>5 DEF AttemptDue, Types, StoreTypes, SessionTypes, EpochTypes, WorkerTypes,
     SessionInv, Workers, Pcs, store, sdk, snap, Goto
<1>6. ASSUME NEW d \in Dests, DeleteThread(d)
      PROVE  Types'
  BY <1>6 DEF DeleteThread, CancelRun, Types, StoreTypes, SessionTypes, EpochTypes,
     WorkerTypes, SessionInv, Workers, Pcs, store, sdk, snap, Goto
<1>7. ASSUME NEW d \in Dests, PersistTalks(d)
      PROVE  Types'
  BY <1>7 DEF PersistTalks, Types, StoreTypes, SessionTypes, EpochTypes,
     WorkerTypes, SessionInv, Workers, Pcs, store, sdk, snap, Goto
<1>8. CASE DeleteRows
  BY <1>8 DEF DeleteRows, Types, StoreTypes, SessionTypes, EpochTypes, WorkerTypes,
     SessionInv, Workers, Pcs, store, sdk, snap, Goto
<1>9. CASE WakeOutbox
  BY <1>9 DEF WakeOutbox, PendingOf, Types, StoreTypes, SessionTypes, EpochTypes,
     WorkerTypes, SessionInv, Workers, Pcs, store, sdk, snap, Goto
<1>10. CASE KickOutbox
  <2>1. StoreTypes'
    BY <1>10 DEF KickOutbox, Kicked, StoreTypes, store, sdk, snap, Goto
  <2>2. SessionTypes'
    BY <1>10 DEF KickOutbox, Kicked, SessionTypes, store, sdk, snap, Goto
  <2>3. EpochTypes'
    <3>1. \A q \in 0 .. KickCap : Kicked(q) \in 0 .. KickCap
      BY DEF Kicked
    <3>2. kicks' \in [Workers -> 0 .. KickCap]
      BY <1>10, <3>1 DEF KickOutbox, EpochTypes
    <3> QED
      BY <1>10, <3>2 DEF KickOutbox, EpochTypes, sdk, snap
  <2>4. WorkerTypes'
    BY <1>10 DEF KickOutbox, Kicked, WorkerTypes, SessionTypes, EpochTypes,
       StoreTypes, Pcs, Workers, store, sdk, snap, Goto
  <2> QED
    BY <2>1, <2>2, <2>3, <2>4 DEF Types
<1> QED
  BY <1>1, <1>2, <1>3, <1>4, <1>5, <1>6, <1>7, <1>8, <1>9, <1>10 DEF Commands

\* The workers' steps keep the types.
LEMMA WorkStoreTypes ==
  ASSUME StoreTypes, HandInv, NEW w \in Workers, Work(w)
  PROVE  StoreTypes'
<1>a. doomed' = doomed
  BY WorkFrame
<1>1. CASE Loop(w)
  BY <1>1, <1>a DEF Loop, WorkerCancelled, WorkerClosed, End, RecvKick, BeginRun,
     Drain, RunAgain, WaitAgain, GiveUp, StoreTypes, store
<1>2. CASE Load(w)
  BY <1>2, <1>a DEF Load, NoSession, ReadSession, ReadEpoch, ReadProtocol,
     CutShort, GiveUp, StoreTypes, store
<1>3. CASE Rows(w)
  BY <1>3, <1>a DEF Rows, EndRows, StopRows, TakeRow, Take, Uploaded, UploadFails,
     Recheck, SkipRow, NextRow, CutShort, GiveUp, StoreTypes, store
<1>4. CASE Send(w)
  BY <1>4, <1>a DEF Send, ServerAccepts, SendFails, BotReplyNoId, GiveUp,
     StoreTypes, store
<1>5. CASE Marks(w)
  <2>1. CASE MarkSent(w)
    <3>1. wcur[w] \in Ids
      BY <2>1 DEF MarkSent, HandInv, Hand, Busy
    <3> QED
      BY <2>1, <3>1, <1>a DEF MarkSent, Mark, StoreTypes
  <2>2. CASE MarkFailed(w)
    BY <2>2, <1>a DEF MarkFailed, Mark, StoreTypes
  <2>3. CASE MarkRetry(w)
    BY <2>3, <1>a DEF MarkRetry, Mark, StoreTypes
  <2>4. CASE MarkStale(w) \/ StoreError(w)
    BY <2>4, <1>a DEF MarkStale, StoreError, CutShort, GiveUp, StoreTypes, store
  <2> QED
    BY <1>5, <2>1, <2>2, <2>3, <2>4 DEF Marks
<1> QED
  BY <1>1, <1>2, <1>3, <1>4, <1>5 DEF Work

LEMMA WorkEpochTypes ==
  ASSUME EpochTypes, NEW w \in Workers, Work(w)
  PROVE  EpochTypes'
<1>a. UNCHANGED <<tok, epoch, client, kickTo>>
  BY WorkFrame
<1>b. w \in 0 .. MaxEpoch
  BY DEF Workers
<1>1. CASE Loop(w)
  <2>1. CASE WorkerCancelled(w) \/ WorkerClosed(w)
    BY <2>1, <1>a DEF WorkerCancelled, WorkerClosed, End, EpochTypes, sdk
  <2>2. CASE RecvKick(w)
    <3>1. kicks[w] - 1 \in 0 .. KickCap
      BY <2>2 DEF RecvKick, EpochTypes
    <3> QED
      BY <2>2, <3>1, <1>a, <1>b DEF RecvKick, BeginRun, EpochTypes
  <2>3. CASE Drain(w)
    BY <2>3, <1>a DEF Drain, EpochTypes
  <2>4. CASE RunAgain(w) \/ WaitAgain(w)
    BY <2>4, <1>a, <1>b DEF RunAgain, WaitAgain, BeginRun, EpochTypes, sdk
  <2> QED
    BY <1>1, <2>1, <2>2, <2>3, <2>4 DEF Loop
<1>2. CASE Load(w)
  BY <1>2, <1>a, <1>b DEF Load, NoSession, ReadSession, ReadEpoch, ReadProtocol,
     CutShort, EpochTypes, sdk, snap
<1>3. CASE Rows(w)
  BY <1>3, <1>a, <1>b DEF Rows, EndRows, StopRows, TakeRow, Take, Uploaded,
     UploadFails, Recheck, SkipRow, NextRow, CutShort, EpochTypes, sdk, snap
<1>4. CASE Send(w)
  BY <1>4, <1>a, <1>b DEF Send, ServerAccepts, SendFails, BotReplyNoId, EpochTypes,
     sdk, snap
<1>5. CASE Marks(w)
  BY <1>5, <1>a, <1>b DEF Marks, MarkSent, MarkFailed, MarkRetry, MarkStale,
     StoreError, Mark, NextRow, CutShort, EpochTypes, sdk, snap
<1> QED
  BY <1>1, <1>2, <1>3, <1>4, <1>5 DEF Work

LEMMA WorkWorkerTypes ==
  ASSUME WorkerTypes, SessionTypes, NEW w \in Workers, Work(w)
  PROVE  WorkerTypes'
<1> USE DEF WorkerTypes, Pcs, Goto
<1>1. CASE Loop(w)
  <2>1. CASE WorkerCancelled(w) \/ WorkerClosed(w)
    BY <2>1 DEF WorkerCancelled, WorkerClosed, End
  <2>2. CASE RecvKick(w)
    BY <2>2 DEF RecvKick, BeginRun
  <2>3. CASE Drain(w)
    BY <2>3 DEF Drain
  <2>4. CASE RunAgain(w)
    BY <2>4 DEF RunAgain, BeginRun, DueOf
  <2>5. CASE WaitAgain(w)
    BY <2>5 DEF WaitAgain
  <2> QED
    BY <1>1, <2>1, <2>2, <2>3, <2>4, <2>5 DEF Loop
<1>2. CASE Load(w)
  <2>1. CASE NoSession(w) \/ ReadProtocol(w)
    BY <2>1 DEF NoSession, ReadProtocol, CutShort, snap
  <2>2. CASE ReadSession(w)
    BY <2>2 DEF ReadSession, SessionTypes
  <2>3. CASE ReadEpoch(w)
    BY <2>3 DEF ReadEpoch, DueOf
  <2> QED
    BY <1>2, <2>1, <2>2, <2>3 DEF Load
<1>3. CASE Rows(w)
  <2>1. CASE EndRows(w) \/ StopRows(w) \/ Uploaded(w) \/ UploadFails(w) \/ Recheck(w)
    BY <2>1 DEF EndRows, StopRows, Uploaded, UploadFails, Recheck, CutShort, snap
  <2>2. ASSUME NEW i \in Ids, TakeRow(w, i)
        PROVE  WorkerTypes'
    BY <2>2 DEF TakeRow, Take
  <2>3. CASE SkipRow(w)
    BY <2>3 DEF SkipRow, NextRow
  <2> QED
    BY <1>3, <2>1, <2>2, <2>3 DEF Rows
<1>4. CASE Send(w)
  BY <1>4 DEF Send, ServerAccepts, SendFails, BotReplyNoId, SessionTypes, DueOf,
     snap
<1>5. CASE Marks(w)
  BY <1>5 DEF Marks, MarkSent, MarkFailed, MarkRetry, MarkStale, StoreError, Mark,
     NextRow, CutShort, SessionTypes, DueOf, snap
<1> QED
  BY <1>1, <1>2, <1>3, <1>4, <1>5 DEF Work

LEMMA WorkTypes ==
  ASSUME Types, HandInv, NEW w \in Workers, Work(w)
  PROVE  Types'
<1>1. SessionTypes'
  BY WorkFrame DEF Types, SessionTypes
<1> QED
  BY <1>1, WorkStoreTypes, WorkEpochTypes, WorkWorkerTypes DEF Types

(***************************************************************************)
(* Sessions, tokens and epochs.                                            *)
(***************************************************************************)
LEMMA SessionStep ==
  ASSUME Types, SessionInv, Next
  PROVE  SessionInv'
<1> USE DEF Types, SessionTypes, EpochTypes, SessionInv, Workers
<1>1. ASSUME NEW a \in Accounts, BeginStart(a)
      PROVE  SessionInv'
  BY <1>1 DEF BeginStart
<1>2. CASE StartBump
  BY <1>2 DEF StartBump
<1>3. CASE ReplaceSession
  BY <1>3 DEF ReplaceSession
<1>4. CASE InstallProtocol
  BY <1>4 DEF InstallProtocol
<1>5. CASE SpawnWorker
  BY <1>5 DEF SpawnWorker
<1>6. CASE BeginStop
  BY <1>6 DEF BeginStop
<1>7. CASE EndStop
  BY <1>7 DEF EndStop
<1>8. CASE Crash
  BY <1>8 DEF Crash
<1>9. CASE Commands
  BY <1>9, CommandsFrame
<1>10. ASSUME NEW w \in Workers, Work(w)
       PROVE  SessionInv'
  BY <1>10, WorkFrame
<1> QED
  BY <1>1, <1>2, <1>3, <1>4, <1>5, <1>6, <1>7, <1>8, <1>9, <1>10 DEF Next, Session

\* A worker that was not cancelled is the newest session's.
LEMMA NotCancelled ==
  ASSUME Types, SessionInv, HandInv, NEW w \in Workers, wpc[w] # "none", ~(w < tok)
  PROVE  w = epoch /\ w = client /\ session = acct[w]
<1>1. w <= client
  BY DEF HandInv, Hand
<1> QED
  BY <1>1 DEF Types, EpochTypes, SessionInv, Workers

\* Whether a session step leaves a worker's state alone, as all but a crash do.
LEMMA SessionFrame ==
  ASSUME Session, ~Crash
  PROVE  UNCHANGED <<store, accepted, wsess, wep, wclient, wdue, wcur, owed>>
  BY DEF Session, BeginStart, StartBump, ReplaceSession, InstallProtocol, SpawnWorker,
     BeginStop, EndStop, snap

(***************************************************************************)
(* The row in hand.                                                        *)
(***************************************************************************)
\* The worker is elsewhere, without a row.
LEMMA HandLeft ==
  ASSUME NEW v \in Workers, Hand(v), wpc[v] # "none", client' = client, cmd' = cmd, epoch' = epoch,
         \/ wpc'[v] \in {"drain", "ended"}
         \/ wpc'[v] \in NoRow /\ wcur'[v] = NoId
  PROVE  Hand(v)'
  BY DEF Hand, NoRow, Busy

\* Nothing has changed for the worker.
LEMMA HandKept ==
  ASSUME NEW v \in Workers, Hand(v), client \in Nat, client' \in Nat, client <= client',
         wpc'[v] = wpc[v], wcur'[v] = wcur[v], wep'[v] = wep[v], wclient'[v] = wclient[v],
         wdue'[v] = wdue[v], acct'[v] = acct[v], accepted \subseteq accepted',
         cmd' = "spawn" /\ v = epoch' => wpc[v] = "none"
  PROVE  Hand(v)'
  BY DEF Hand, Workers

\* The worker goes on with the row it has.
LEMMA HandMoved ==
  ASSUME NEW v \in Workers, Hand(v), client' = client, cmd' = cmd, epoch' = epoch,
         wpc[v] \in Busy, wpc'[v] \in Busy,
         wpc'[v] = "ok" => <<Owner[wcur[v]], wcur[v]>> \in accepted',
         wcur'[v] = wcur[v], wep'[v] = wep[v], wclient'[v] = wclient[v],
         wdue'[v] = wdue[v], acct'[v] = acct[v]
  PROVE  Hand(v)'
  BY DEF Hand, Busy, NoRow

LEMMA HandOfWorker ==
  ASSUME Types, SessionInv, HandInv, LoadInv, NEW w \in Workers, Work(w)
  PROVE  Hand(w)'
<1> DEFINE Left == /\ wpc[w] # "none"
                   /\ \/ wpc'[w] \in {"drain", "ended"}
                      \/ wpc'[w] \in NoRow /\ wcur'[w] = NoId
           Kept == /\ wcur'[w] = wcur[w] /\ wep'[w] = wep[w] /\ wclient'[w] = wclient[w]
                   /\ wdue'[w] = wdue[w]
<1>a. client' = client /\ acct' = acct /\ cmd' = cmd /\ epoch' = epoch
  BY WorkFrame
<1>b. Hand(w)
  BY DEF HandInv
<1>c. WorkerTypes /\ EpochTypes
  BY DEF Types
<1>1. CASE Loop(w)
  <2>1. Left
    BY <1>1, <1>b, <1>c DEF Loop, WorkerCancelled, WorkerClosed, End, RecvKick, BeginRun, Drain,
       RunAgain, WaitAgain, WorkerTypes, Hand, NoRow, Goto
  <2> QED
    BY <2>1, <1>a, <1>b, HandLeft
<1>2. CASE Load(w)
  <2>1. Left
    BY <1>2, <1>b, <1>c DEF Load, NoSession, CutShort, ReadSession, ReadEpoch, ReadProtocol,
       WorkerTypes, Hand, NoRow, Goto
  <2> QED
    BY <2>1, <1>a, <1>b, HandLeft
<1>3. CASE EndRows(w) \/ StopRows(w) \/ UploadFails(w) \/ SkipRow(w)
  <2>1. Left
    BY <1>3, <1>c DEF EndRows, StopRows, UploadFails, SkipRow, CutShort, NextRow,
       WorkerTypes, NoRow, Goto
  <2> QED
    BY <2>1, <1>a, <1>b, HandLeft
<1>4. CASE Uploaded(w) \/ Recheck(w)
  <2>1. wpc[w] \in Busy /\ wpc'[w] \in Busy /\ wpc'[w] # "ok" /\ Kept
    BY <1>4, <1>c DEF Uploaded, Recheck, snap, WorkerTypes, Busy, Goto
  <2> QED
    BY <2>1, <1>a, <1>b, HandMoved
<1>5. ASSUME NEW i \in Ids, TakeRow(w, i)
      PROVE  Hand(w)'
  <2>1. /\ wpc[w] = "rows" /\ i \in wdue[w] /\ epoch = wep[w] /\ ~(w < tok)
        /\ wpc'[w] = IF ~Alive(i) THEN "rows" ELSE IF i \in Images THEN "upload" ELSE "recheck"
        /\ wcur'[w] = IF Alive(i) THEN i ELSE NoId
        /\ wdue'[w] = wdue[w] \ {i} /\ wep'[w] = wep[w] /\ wclient'[w] = wclient[w]
    BY <1>5, <1>c DEF TakeRow, Take, Cancelled, WorkerTypes, Goto
  <2>2. w = epoch /\ session = acct[w] /\ w <= client
    BY <2>1, <1>b, NotCancelled DEF Hand
  <2>3. wclient[w] = w /\ Owner[i] = session
    <3>1. Fetched(w)
      BY DEF LoadInv
    <3> QED
      BY <3>1, <2>1, <2>2 DEF Fetched, Loaded
  <2>4. CASE ~Alive(i)
    BY <2>1, <2>4, <1>a, <1>b, HandLeft DEF NoRow
  <2>5. CASE Alive(i)
    <3>1. wpc'[w] \in {"upload", "recheck"}
      BY <2>1, <2>5
    <3> QED
      BY <3>1, <2>1, <2>2, <2>3, <2>5, <1>a, <1>b DEF Hand, NoRow, Busy
  <2> QED
    BY <2>4, <2>5
<1>6. ASSUME NEW pc \in {"ok", "retry"}, ServerAccepts(w, pc)
      PROVE  Hand(w)'
  <2>1. /\ wpc[w] = "send" /\ wpc'[w] = pc /\ Kept
        /\ <<acct[wclient[w]], wcur[w]>> \in accepted'
    BY <1>6, <1>c DEF ServerAccepts, snap, WorkerTypes, Goto
  <2>2. acct[wclient[w]] = Owner[wcur[w]]
    BY <2>1, <1>b DEF Hand, Busy
  <2>3. wpc[w] \in Busy /\ wpc'[w] \in Busy
    BY <2>1 DEF Busy
  <2> QED
    BY <2>1, <2>2, <2>3, <1>a, <1>b, HandMoved
<1>7. ASSUME NEW pc \in {"retry", "fail"}, SendFails(w, pc) \/ BotReplyNoId(w)
      PROVE  Hand(w)'
  <2>1. wpc[w] \in Busy /\ wpc'[w] \in Busy /\ wpc'[w] # "ok" /\ Kept
    BY <1>7, <1>c DEF SendFails, BotReplyNoId, snap, WorkerTypes, Busy, Goto
  <2> QED
    BY <2>1, <1>a, <1>b, HandMoved
<1>8. CASE Marks(w)
  <2>1. Left
    BY <1>8, <1>c DEF Marks, MarkSent, MarkFailed, MarkRetry, MarkStale, StoreError, Mark,
       NextRow, CutShort, WorkerTypes, NoRow, Goto
  <2> QED
    BY <2>1, <1>a, <1>b, HandLeft
<1> QED
  BY <1>1, <1>2, <1>3, <1>4, <1>5, <1>6, <1>7, <1>8 DEF Work, Rows, Send

LEMMA HandStep ==
  ASSUME Types, SessionInv, HandInv, LoadInv, Next
  PROVE  HandInv'
<1> SUFFICES ASSUME NEW v \in Workers
             PROVE  Hand(v)'
  BY DEF HandInv
<1>a. Hand(v)
  BY DEF HandInv
<1>b. client \in Nat /\ epoch \in Nat /\ WorkerTypes /\ SessionTypes
  BY DEF Types, EpochTypes
<1>1. CASE Crash
  BY <1>1 DEF Crash, Hand, NoRow, Busy
<1>2. CASE Session /\ ~Crash
  <2>1. client' \in Nat /\ client <= client'
    BY <1>b, <1>2 DEF Session, BeginStart, StartBump, ReplaceSession, InstallProtocol, SpawnWorker,
       BeginStop, EndStop, SessionInv
  <2>2. CASE InstallProtocol /\ v = epoch
    <3>1. wpc[v] = "none"
      BY <2>2, <1>a, <1>b DEF InstallProtocol, SessionInv, Hand, Workers
    <3>2. wpc'[v] = "none" /\ wcur'[v] = wcur[v]
      BY <3>1, <2>2 DEF InstallProtocol, snap
    <3> QED
      BY <3>1, <3>2, <1>a DEF Hand, NoRow, Busy
  <2>3. CASE SpawnWorker /\ v = epoch
    <3>1. wpc'[v] = "wait" /\ wcur'[v] = wcur[v] /\ client' = client /\ v <= client
      BY <2>3, <1>b DEF SpawnWorker, snap, SessionInv, WorkerTypes, Workers
    <3>2. wcur[v] = NoId /\ cmd' = "idle"
      BY <2>3, <1>a DEF SpawnWorker, Hand, NoRow
    <3> QED
      BY <3>1, <3>2, <1>a DEF Hand, NoRow, Busy
  <2>4. CASE ~(InstallProtocol /\ v = epoch) /\ ~(SpawnWorker /\ v = epoch)
    <3>1. wpc'[v] = wpc[v] /\ acct'[v] = acct[v]
      BY <1>2, <2>4, <1>b DEF Session, BeginStart, StartBump, ReplaceSession, InstallProtocol,
         SpawnWorker, BeginStop, EndStop, WorkerTypes, SessionTypes
    <3>2. cmd' = "spawn" => InstallProtocol /\ epoch' = epoch
      BY <1>2 DEF Session, BeginStart, StartBump, ReplaceSession, InstallProtocol,
         SpawnWorker, BeginStop, EndStop
    <3> QED
      BY <3>1, <3>2, <2>1, <2>4, <1>2, <1>a, <1>b, HandKept, SessionFrame
  <2> QED
    BY <2>2, <2>3, <2>4
<1>3. CASE Commands
  BY <1>3, <1>a, <1>b, CommandsFrame, HandKept DEF Hand
<1>4. ASSUME NEW w \in Workers, Work(w)
      PROVE  Hand(v)'
  <2>1. CASE v = w
    BY <1>4, <2>1, HandOfWorker
  <2>2. CASE v # w
    <3>1. accepted \subseteq accepted'
      BY <1>4 DEF Work, Loop, Load, Rows, Send, Marks, WorkerCancelled, WorkerClosed, End,
         RecvKick, BeginRun, Drain, RunAgain, WaitAgain, NoSession, ReadSession, ReadEpoch,
         ReadProtocol, EndRows, StopRows, TakeRow, Take, Uploaded, UploadFails, Recheck, SkipRow,
         ServerAccepts, SendFails, BotReplyNoId, MarkSent, MarkFailed, MarkRetry, Mark,
         MarkStale, StoreError, CutShort
    <3> QED
      BY <1>4, <2>2, <3>1, <1>a, <1>b, OthersRest, WorkFrame, HandKept DEF Types, Hand
  <2> QED
    BY <2>1, <2>2
<1> QED
  BY <1>1, <1>2, <1>3, <1>4 DEF Next

(***************************************************************************)
(* What the newest session's worker has read.                              *)
(***************************************************************************)
\* Nothing has changed for the worker but what others may do to the rows.
LEMMA FetchedKept ==
  ASSUME NEW v \in Workers, Fetched(v), v = epoch' => v = epoch,
         v = epoch => session' = session,
         wpc'[v] = wpc[v], wsess'[v] = wsess[v], wep'[v] = wep[v], wclient'[v] = wclient[v],
         wdue'[v] = wdue[v], wcur'[v] = wcur[v],
         \A i \in wdue[v] : v = epoch /\ wpc[v] \in Loaded => status'[i] \in {"none", "pending"},
         v = epoch /\ wpc[v] \in Busy => status'[wcur[v]] \in {"none", "pending"}
  PROVE  Fetched(v)'
  BY DEF Fetched

\* A mark is the newest worker's, of a row that is pending or gone.
LEMMA MarkIsNewest ==
  ASSUME HandInv, LoadInv, NEW w \in Workers, MarkSent(w) \/ MarkFailed(w) \/ MarkRetry(w)
  PROVE  /\ w = epoch /\ wpc[w] \in Busy /\ wcur[w] \in Ids /\ wcur[w] \notin wdue[w]
         /\ status[wcur[w]] \in {"none", "pending"}
<1>1. wpc[w] \in Busy /\ epoch = wep[w]
  BY DEF MarkSent, MarkFailed, MarkRetry, Mark, Busy
<1>2. Hand(w) /\ Fetched(w)
  BY DEF HandInv, LoadInv
<1> QED
  BY <1>1, <1>2 DEF Hand, Fetched

LEMMA FetchedOfWorker ==
  ASSUME Types, SessionInv, HandInv, LoadInv, NEW w \in Workers, Work(w)
  PROVE  Fetched(w)'
<1> SUFFICES ASSUME w = epoch
             PROVE  Fetched(w)'
  <2>1. epoch' = epoch
    BY WorkFrame
  <2> QED
    BY <2>1 DEF Fetched
<1>a. epoch' = epoch /\ session' = session
  BY WorkFrame
<1>b. Hand(w) /\ Fetched(w)
  BY DEF HandInv, LoadInv
<1>c. WorkerTypes /\ EpochTypes /\ StoreTypes
  BY DEF Types
<1>1. CASE Loop(w)
  <2>1. wpc'[w] \notin Loaded \cup {"epoch"}
    BY <1>1, <1>c DEF Loop, WorkerCancelled, WorkerClosed, End, RecvKick, BeginRun, Drain,
       RunAgain, WaitAgain, WorkerTypes, Loaded, Busy, Goto
  <2> QED
    BY <2>1 DEF Fetched, Loaded
<1>2. CASE NoSession(w) \/ EndRows(w) \/ StopRows(w) \/ UploadFails(w) \/ MarkStale(w) \/ StoreError(w)
  <2>1. wpc'[w] = "drain"
    BY <1>2, <1>c DEF NoSession, EndRows, StopRows, UploadFails, MarkStale, StoreError, CutShort,
       WorkerTypes, Goto
  <2> QED
    BY <2>1 DEF Fetched, Loaded, Busy
<1>3. CASE ReadSession(w)
  <2>1. wpc'[w] = "epoch" /\ wsess'[w] = session
    BY <1>3, <1>c DEF ReadSession, WorkerTypes, Goto
  <2> QED
    BY <2>1, <1>a DEF Fetched, Loaded, Busy
<1>4. CASE ReadEpoch(w)
  <2>1. /\ wpc[w] = "epoch" /\ wpc'[w] = "proto" /\ wep'[w] = epoch /\ status' = status
        /\ wdue'[w] = DueOf(wsess[w])
    BY <1>4, <1>c DEF ReadEpoch, WorkerTypes, EpochTypes, store, Goto
  <2>2. \A i \in wdue'[w] : Owner[i] = session /\ status'[i] \in {"none", "pending"}
    BY <2>1, <1>b DEF Fetched, DueOf
  <2> QED
    BY <2>1, <2>2, <1>a DEF Fetched, Loaded, Busy
<1>5. CASE ReadProtocol(w)
  <2>1. /\ wpc[w] = "proto" /\ wpc'[w] = "rows" /\ wclient'[w] = client /\ status' = status
        /\ wep'[w] = wep[w] /\ wdue'[w] = wdue[w]
    BY <1>5, <1>c DEF ReadProtocol, WorkerTypes, EpochTypes, store, Goto
  <2>2. client = w
    BY <2>1, <1>b, <1>c DEF Hand, SessionInv, EpochTypes, Workers
  <2>3. wep[w] = w /\ \A i \in wdue[w] : Owner[i] = session /\ status[i] \in {"none", "pending"}
    BY <2>1, <1>b DEF Fetched, Loaded
  <2> QED
    BY <2>1, <2>2, <2>3, <1>a DEF Fetched, Loaded, Busy
<1>6. ASSUME NEW i \in Ids, TakeRow(w, i)
      PROVE  Fetched(w)'
  <2>1. /\ wpc[w] = "rows" /\ i \in wdue[w] /\ status' = status
        /\ wpc'[w] \in {"rows", "upload", "recheck"}
        /\ wpc'[w] # "rows" => wcur'[w] = i
        /\ wdue'[w] = wdue[w] \ {i} /\ wep'[w] = wep[w] /\ wclient'[w] = wclient[w]
    BY <1>6, <1>c DEF TakeRow, Take, WorkerTypes, Goto, store
  <2>2. /\ wep[w] = w /\ \A j \in wdue[w] : Owner[j] = session /\ status[j] \in {"none", "pending"}
        /\ wclient[w] = w
    BY <2>1, <1>b DEF Fetched, Loaded
  <2> QED
    BY <2>1, <2>2, <1>a DEF Fetched, Loaded, Busy
<1>7. CASE Uploaded(w) \/ Recheck(w) \/ Send(w)
  <2>1. /\ wpc[w] \in Busy /\ wpc'[w] \in Busy /\ status' = status
        /\ wdue'[w] = wdue[w] /\ wep'[w] = wep[w] /\ wclient'[w] = wclient[w] /\ wcur'[w] = wcur[w]
    BY <1>7, <1>c DEF Uploaded, Recheck, Send, ServerAccepts, SendFails, BotReplyNoId, WorkerTypes,
       Goto, store, snap, Busy
  <2> QED
    BY <2>1, <1>a, <1>b DEF Fetched, Loaded, Busy
<1>8. CASE SkipRow(w)
  <2>1. /\ wpc[w] \in Busy /\ wpc'[w] = "rows" /\ status' = status
        /\ wdue'[w] = wdue[w] /\ wep'[w] = wep[w] /\ wclient'[w] = wclient[w]
    BY <1>8, <1>c DEF SkipRow, NextRow, WorkerTypes, Goto, store, Busy
  <2> QED
    BY <2>1, <1>a, <1>b DEF Fetched, Loaded, Busy
<1>9. CASE MarkSent(w) \/ MarkFailed(w) \/ MarkRetry(w)
  <2>1. /\ wpc'[w] = "rows" /\ wdue'[w] = wdue[w] /\ wep'[w] = wep[w] /\ wclient'[w] = wclient[w]
        /\ \A j \in Ids : j # wcur[w] => status'[j] = status[j]
    BY <1>9, <1>c DEF MarkSent, MarkFailed, MarkRetry, Mark, NextRow, WorkerTypes, StoreTypes, Goto
  <2>2. wdue[w] \subseteq Ids
    BY <1>c DEF WorkerTypes
  <2> QED
    BY <2>1, <2>2, <1>9, <1>a, <1>b, MarkIsNewest DEF Fetched, Loaded, Busy
<1> QED
  BY <1>1, <1>2, <1>3, <1>4, <1>5, <1>6, <1>7, <1>8, <1>9 DEF Work, Load, Rows, Marks

LEMMA LoadStep ==
  ASSUME Types, SessionInv, HandInv, LoadInv, Next
  PROVE  LoadInv'
<1> SUFFICES ASSUME NEW v \in Workers
             PROVE  Fetched(v)'
  BY DEF LoadInv
<1>a. Hand(v) /\ Fetched(v)
  BY DEF HandInv, LoadInv
<1>b. client \in Nat /\ epoch \in Nat /\ WorkerTypes /\ StoreTypes /\ v \in Nat
  BY DEF Types, EpochTypes, Workers
<1>1. CASE Crash
  BY <1>1 DEF Crash, Fetched, Loaded, Busy
<1>2. CASE wpc[v] = "none" /\ wpc'[v] \in {"none", "wait"}
  BY <1>2 DEF Fetched, Loaded, Busy
<1>3. CASE Session /\ ~Crash /\ wpc[v] # "none"
  <2>1. v <= client
    BY <1>3, <1>a DEF Hand
  <2>2. v = epoch' => v = epoch
    BY <1>3, <2>1, <1>b DEF Session, BeginStart, StartBump, ReplaceSession, InstallProtocol,
       SpawnWorker, BeginStop, EndStop, SessionInv
  <2>3. v = epoch /\ v = epoch' => session' = session
    <3>1. ReplaceSession => v # epoch
      BY <2>1, <1>b DEF ReplaceSession, SessionInv
    <3>2. EndStop => ~(v = epoch /\ v = epoch')
      BY <1>b DEF EndStop
    <3>3. session' = session \/ ReplaceSession \/ EndStop
      BY <1>3 DEF Session, BeginStart, StartBump, InstallProtocol, SpawnWorker, BeginStop
    <3> QED
      BY <3>1, <3>2, <3>3
  <2>4. wpc'[v] = wpc[v]
    BY <1>3, <1>a, <1>b DEF Session, BeginStart, StartBump, ReplaceSession, InstallProtocol,
       SpawnWorker, BeginStop, EndStop, WorkerTypes, Hand
  <2>5. CASE v = epoch'
    BY <2>2, <2>3, <2>4, <2>5, <1>3, <1>a, <1>b, FetchedKept, SessionFrame
       DEF store, Fetched, WorkerTypes
  <2>6. CASE v # epoch'
    BY <2>6 DEF Fetched
  <2> QED
    BY <2>5, <2>6
<1>4. CASE Commands
  <2>1. \A i \in Ids : status[i] \in {"none", "pending"} => status'[i] \in {"none", "pending"}
    BY <1>4, <1>b DEF Commands, Enqueue, EnqueueBotReply, InsertRow, RetrySend, CancelSend,
       CancelRun, AttemptDue, DeleteThread, PersistTalks, DeleteRows, WakeOutbox, KickOutbox,
       store, StoreTypes
  <2>2. wdue[v] \subseteq Ids /\ (wpc[v] \in Busy => wcur[v] \in Ids)
    BY <1>a, <1>b DEF Hand, WorkerTypes
  <2>3. /\ \A i \in wdue[v] : v = epoch /\ wpc[v] \in Loaded => status'[i] \in {"none", "pending"}
        /\ v = epoch /\ wpc[v] \in Busy => status'[wcur[v]] \in {"none", "pending"}
    BY <2>1, <2>2, <1>a DEF Fetched
  <2> QED
    BY <1>4, <2>3, <1>a, CommandsFrame, FetchedKept
<1>5. ASSUME NEW w \in Workers, Work(w)
      PROVE  Fetched(v)'
  <2>1. CASE v = w
    BY <1>5, <2>1, FetchedOfWorker
  <2>2. CASE v # w /\ v # epoch
    <3>1. epoch' = epoch
      BY <1>5, WorkFrame
    <3> QED
      BY <2>2, <3>1 DEF Fetched
  <2>3. CASE v # w /\ v = epoch
    <3>1. \A u \in Workers : MarkSent(u) \/ MarkFailed(u) => u = v
      BY <2>3, MarkIsNewest
    <3>2. v # w => ~(MarkSent(w) \/ MarkFailed(w))
      BY <3>1
    <3>3. \A i \in Ids : status[i] \in {"none", "pending"} => status'[i] \in {"none", "pending"}
      <4>1. CASE MarkRetry(w)
        BY <4>1, <1>b DEF MarkRetry, Mark, StoreTypes
      <4>2. CASE ~MarkRetry(w)
        <5>1. status' = status
          BY <1>5, <2>3, <3>2, <4>2 DEF Work, Loop, Load, Rows, Send, Marks, WorkerCancelled,
             WorkerClosed, End, RecvKick, BeginRun, Drain, RunAgain, WaitAgain, NoSession,
             ReadSession, ReadEpoch, ReadProtocol, EndRows, StopRows, TakeRow, Take, Uploaded,
             UploadFails, Recheck, SkipRow, ServerAccepts, SendFails, BotReplyNoId, MarkStale,
             StoreError, CutShort, store
        <5> QED
          BY <5>1
      <4> QED
        BY <4>1, <4>2
    <3>4. wdue[v] \subseteq Ids /\ (wpc[v] \in Busy => wcur[v] \in Ids)
      BY <1>a, <1>b DEF Hand, WorkerTypes
    <3>5. /\ \A i \in wdue[v] : v = epoch /\ wpc[v] \in Loaded => status'[i] \in {"none", "pending"}
          /\ v = epoch /\ wpc[v] \in Busy => status'[wcur[v]] \in {"none", "pending"}
      BY <3>3, <3>4, <1>a DEF Fetched
    <3> QED
      BY <1>5, <2>3, <3>5, <1>a, <1>b, OthersRest, WorkFrame, FetchedKept DEF Types
  <2> QED
    BY <2>1, <2>2, <2>3
<1>6. CASE Session /\ ~Crash /\ wpc[v] = "none"
  <2>1. wpc'[v] \in {"none", "wait"}
    BY <1>6, <1>b DEF Session, BeginStart, StartBump, ReplaceSession, InstallProtocol,
       SpawnWorker, BeginStop, EndStop, WorkerTypes
  <2> QED
    BY <2>1, <1>6, <1>2
<1> QED
  BY <1>1, <1>3, <1>4, <1>5, <1>6 DEF Next

(***************************************************************************)
(* Kicks.                                                                  *)
(***************************************************************************)
LEMMA AwakeKept ==
  ASSUME NEW v \in Workers, Awake(v), kickTo' \in {kickTo, 0}, owed' = owed, asked' \subseteq asked,
         wpc'[v] = wpc[v], wdue'[v] = wdue[v], wcur'[v] = wcur[v],
         kicks'[v] = 0 => kicks[v] = 0
  PROVE  Awake(v)'
  BY DEF Awake, Workers

\* What is asked for stays due, or is given up.
LEMMA AskedStep ==
  ASSUME Types, SessionInv, HandInv, LoadInv, WakeInv, Next, kickTo' # 0
  PROVE  asked' \subseteq DueOf(session)'
<1>a. /\ kickTo # 0 => asked \subseteq DueOf(session)
      /\ StoreTypes
  BY DEF WakeInv, Types
<1>1. CASE Session
  <2>1. CASE SpawnWorker
    BY <2>1 DEF SpawnWorker, DueOf, store
  <2>2. CASE ~SpawnWorker
    <3>1. (BeginStart(cmdAcct') \/ InstallProtocol \/ ReplaceSession \/ BeginStop)
      BY <1>1, <2>2 DEF Session, BeginStart, StartBump, InstallProtocol, ReplaceSession, BeginStop,
         EndStop, Crash
    <3>2. ~ReplaceSession
      BY <3>1 DEF ReplaceSession, SessionInv
    <3> QED
      BY <3>1, <3>2, <1>a DEF BeginStart, InstallProtocol, BeginStop, DueOf, store
  <2> QED
    BY <2>1, <2>2
<1>2. CASE Commands
  <2>a. asked \subseteq DueOf(session) /\ session' = session
    BY <1>2, <1>a, CommandsFrame
  <2>1. ASSUME NEW i \in Ids, Enqueue(i) \/ EnqueueBotReply(i)
        PROVE  asked' \subseteq DueOf(session)'
    <3>1. /\ session = Owner[i] /\ status' = [status EXCEPT ![i] = "pending"]
          /\ due' = [due EXCEPT ![i] = IF status[i] = "none" THEN TRUE ELSE due[i]]
          /\ asked' = IF status[i] = "none" \/ due[i] THEN asked \cup {i} ELSE asked
      BY <2>1 DEF Enqueue, EnqueueBotReply, InsertRow
    <3>2. \A j \in asked' : j \in Ids /\ Owner[j] = session
      BY <2>a, <3>1 DEF DueOf
    <3>3. \A j \in asked' : status'[j] = "pending"
      BY <2>a, <3>1, <1>a DEF DueOf, StoreTypes
    <3>4. \A j \in asked' : due'[j]
      BY <2>a, <3>1, <1>a DEF DueOf, StoreTypes
    <3> QED
      BY <2>a, <3>2, <3>3, <3>4 DEF DueOf
  <2>2. ASSUME NEW i \in Ids, RetrySend(i) \/ CancelSend(i) \/ AttemptDue(i)
        PROVE  asked' \subseteq DueOf(session)'
    BY <2>a, <2>2, <1>a DEF RetrySend, CancelSend, CancelRun, AttemptDue, DueOf, StoreTypes, store
  <2>3. ASSUME NEW d \in Dests, DeleteThread(d) \/ PersistTalks(d)
        PROVE  asked' \subseteq DueOf(session)'
    BY <2>a, <2>3, <1>a DEF DeleteThread, CancelRun, PersistTalks, DueOf, StoreTypes, store
  <2>4. CASE DeleteRows
    BY <2>a, <2>4, <1>a DEF DeleteRows, DueOf, StoreTypes
  <2>5. CASE WakeOutbox
    BY <2>a, <2>5, <1>a DEF WakeOutbox, PendingOf, DueOf, StoreTypes
  <2>6. CASE KickOutbox
    BY <2>a, <2>6 DEF KickOutbox, DueOf, store
  <2> QED
    BY <1>2, <2>1, <2>2, <2>3, <2>4, <2>5, <2>6 DEF Commands
<1>3. ASSUME NEW w \in Workers, Work(w)
      PROVE  asked' \subseteq DueOf(session)'
  <2>a. asked \subseteq DueOf(session) /\ session' = session
    BY <1>3, <1>a, WorkFrame
  <2>1. CASE Loop(w) \/ Load(w) \/ Rows(w) \/ Send(w) \/ MarkStale(w) \/ StoreError(w)
    <3>1. asked' \subseteq asked /\ status' = status /\ due' = due
      BY <2>1 DEF Loop, Load, Rows, Send, WorkerCancelled, WorkerClosed, End, RecvKick, BeginRun,
         Drain, RunAgain, WaitAgain, NoSession, ReadSession, ReadEpoch, ReadProtocol, EndRows,
         StopRows, TakeRow, Take, Uploaded, UploadFails, Recheck, SkipRow, ServerAccepts, SendFails,
         BotReplyNoId, MarkStale, StoreError, CutShort, GiveUp, store
    <3> QED
      BY <2>a, <3>1 DEF DueOf
  <2>2. CASE MarkSent(w) \/ MarkFailed(w) \/ MarkRetry(w)
    BY <2>a, <2>2, <1>a DEF MarkSent, MarkFailed, MarkRetry, Mark, DueOf, StoreTypes
  <2> QED
    BY <1>3, <2>1, <2>2 DEF Work, Marks
<1> QED
  BY <1>1, <1>2, <1>3 DEF Next

LEMMA AwakeOfWorker ==
  ASSUME Types, SessionInv, HandInv, LoadInv, WakeInv, NEW w \in Workers, Work(w)
  PROVE  Awake(w)'
<1> SUFFICES ASSUME w = kickTo, ~owed
             PROVE  Awake(w)'
  BY WorkFrame DEF Awake
<1>a. kickTo' = kickTo /\ owed' = owed
  BY WorkFrame
<1>b. Hand(w) /\ Fetched(w) /\ Awake(w) /\ asked \subseteq DueOf(session) /\ w = epoch
  BY DEF HandInv, LoadInv, WakeInv, SessionInv, Workers
<1>c. WorkerTypes /\ EpochTypes /\ asked \subseteq Ids
  BY DEF Types, StoreTypes
<1>1. CASE WorkerCancelled(w) \/ WorkerClosed(w) \/ RecvKick(w) \/ RunAgain(w) \/ ReadSession(w)
  <2>1. wpc'[w] \in {"ended", "session", "epoch"}
    BY <1>1, <1>c DEF WorkerCancelled, WorkerClosed, End, RecvKick, RunAgain, BeginRun, ReadSession,
       WorkerTypes, Goto
  <2> QED
    BY <2>1 DEF Awake, Loaded, Busy
<1>2. CASE Drain(w)
  <2>1. /\ wpc[w] = "drain" /\ asked' = asked
        /\ wpc'[w] = IF kicks[w] > 0 THEN "again" ELSE "due"
    BY <1>2, <1>c DEF Drain, WorkerTypes, Goto
  <2>2. kicks[w] \in Nat
    BY <1>c DEF EpochTypes
  <2>3. CASE kicks[w] = 0
    BY <2>1, <2>3, <1>a, <1>b DEF Awake, Loaded, Busy
  <2>4. CASE kicks[w] # 0
    BY <2>1, <2>2, <2>4 DEF Awake, Loaded, Busy
  <2> QED
    BY <2>3, <2>4
<1>3. CASE WaitAgain(w)
  <2>1. wpc[w] = "due" /\ wpc'[w] = "wait" /\ asked' = asked /\ kicks' = kicks
    BY <1>3, <1>c DEF WaitAgain, WorkerTypes, Goto
  <2> QED
    BY <2>1, <1>a, <1>b DEF Awake, Loaded, Busy
<1>4. CASE NoSession(w)
  <2>1. wpc'[w] = "drain" /\ asked' = asked \ Ids
    BY <1>4, <1>c DEF NoSession, CutShort, GiveUp, WorkerTypes, Goto
  <2> QED
    BY <2>1, <1>c DEF Awake, Loaded, Busy
<1>5. CASE ReadEpoch(w)
  <2>1. wpc[w] = "epoch" /\ wpc'[w] = "proto" /\ wdue'[w] = DueOf(wsess[w]) /\ asked' = asked
    BY <1>5, <1>c DEF ReadEpoch, WorkerTypes, Goto
  <2>2. wsess[w] = session
    BY <2>1, <1>b DEF Fetched
  <2> QED
    BY <2>1, <2>2, <1>b DEF Awake, Loaded, Busy
<1>6. CASE ReadProtocol(w) \/ Uploaded(w) \/ Recheck(w) \/ Send(w)
  <2>1. /\ wpc[w] \in Loaded /\ wpc'[w] \in Loaded /\ asked' = asked /\ kicks' = kicks
        /\ wdue'[w] = wdue[w] /\ wcur'[w] = wcur[w]
    BY <1>6, <1>c DEF ReadProtocol, Uploaded, Recheck, Send, ServerAccepts, SendFails, BotReplyNoId,
       WorkerTypes, Goto, snap, Loaded, Busy
  <2> QED
    BY <2>1, <1>a, <1>b DEF Awake, Loaded, Busy
<1>7. CASE EndRows(w)
  <2>1. /\ wpc[w] = "rows" /\ wdue[w] = {} /\ wpc'[w] = "drain" /\ asked' = asked /\ kicks' = kicks
    BY <1>7, <1>c DEF EndRows, WorkerTypes, Goto
  <2>2. kicks[w] = 0 => asked \subseteq {wcur[w]} /\ wcur[w] = NoId
    BY <2>1, <1>a, <1>b DEF Awake, Loaded, Hand, NoRow
  <2> QED
    BY <2>1, <2>2, <1>c DEF Awake, Loaded, Busy
<1>8. CASE StopRows(w) \/ UploadFails(w) \/ MarkStale(w) \/ StoreError(w)
  <2>1. /\ wpc[w] = "epoch" \/ wpc[w] \in Loaded
        /\ wpc'[w] = "drain" /\ kicks' = kicks
        /\ asked' = asked \ (IF wpc[w] \in {"session", "epoch"} THEN Ids ELSE wdue[w] \cup {wcur[w]})
    BY <1>8, <1>c DEF StopRows, UploadFails, MarkStale, StoreError, CutShort, GiveUp, WorkerTypes,
       Goto, Loaded, Busy
  <2>2. kicks[w] = 0 => asked' = {}
    BY <2>1, <1>b, <1>c DEF Awake, Loaded, Busy
  <2> QED
    BY <2>1, <2>2 DEF Awake, Loaded, Busy
<1>9. ASSUME NEW i \in Ids, TakeRow(w, i)
      PROVE  Awake(w)'
  <2>1. /\ wpc[w] = "rows" /\ wpc'[w] \in Loaded /\ asked' = asked /\ kicks' = kicks
        /\ wdue'[w] = wdue[w] \ {i} /\ wcur'[w] = IF Alive(i) THEN i ELSE NoId
    BY <1>9, <1>c DEF TakeRow, Take, WorkerTypes, Goto, Loaded, Busy
  <2>2. wcur[w] = NoId /\ NoId \notin asked
    BY <2>1, <1>b, <1>c DEF Hand, NoRow
  <2>3. i \in asked => Alive(i)
    BY <1>b DEF DueOf, Alive
  <2>4. kicks[w] = 0 => asked \subseteq wdue[w]
    BY <2>1, <2>2, <1>a, <1>b DEF Awake, Loaded
  <2>5. kicks'[w] = 0 => asked' \subseteq wdue'[w] \cup {wcur'[w]}
    BY <2>1, <2>3, <2>4
  <2> QED
    BY <2>1, <2>5 DEF Awake, Loaded, Busy
<1>10. CASE SkipRow(w) \/ MarkSent(w) \/ MarkFailed(w) \/ MarkRetry(w)
  <2>1. /\ wpc[w] \in Loaded /\ wpc'[w] = "rows" /\ asked' = asked \ {wcur[w]} /\ kicks' = kicks
        /\ wdue'[w] = wdue[w]
    BY <1>10, <1>c DEF SkipRow, GiveUp, MarkSent, MarkFailed, MarkRetry, Mark, NextRow, WorkerTypes,
       Goto, Loaded, Busy
  <2>2. kicks[w] = 0 => asked' \subseteq wdue[w]
    BY <2>1, <1>a, <1>b DEF Awake
  <2> QED
    BY <2>1, <2>2 DEF Awake, Loaded, Busy
<1> QED
  BY <1>1, <1>2, <1>3, <1>4, <1>5, <1>6, <1>7, <1>8, <1>9, <1>10
     DEF Work, Loop, Load, Rows, Marks

LEMMA WakeStep ==
  ASSUME Types, SessionInv, HandInv, LoadInv, WakeInv, Next
  PROVE  WakeInv'
<1>a. kickTo' # 0 => asked' \subseteq DueOf(session)'
  BY AskedStep
<1> SUFFICES ASSUME NEW v \in Workers
             PROVE  Awake(v)'
  BY <1>a DEF WakeInv
<1>b. Awake(v) /\ WorkerTypes /\ EpochTypes
  BY DEF WakeInv, Types
<1>1. CASE Session
  <2>1. CASE SpawnWorker
    <3>1. epoch \in Workers => kicks'[epoch] = 1
      BY <2>1, <1>b DEF SpawnWorker, EpochTypes
    <3>2. kickTo' = epoch
      BY <2>1 DEF SpawnWorker
    <3> QED
      BY <3>1, <3>2 DEF Awake
  <2>2. CASE ~SpawnWorker /\ ~BeginStop /\ ~\E a \in Accounts : BeginStart(a)
    <3>1. kickTo' = 0
      BY <1>1, <2>2 DEF Session, StartBump, ReplaceSession, InstallProtocol, EndStop, Crash,
         SessionInv
    <3> QED
      BY <3>1 DEF Awake, Workers
  <2>3. CASE BeginStop \/ \E a \in Accounts : BeginStart(a)
    BY <2>3, <1>b, AwakeKept DEF BeginStop, BeginStart, snap
  <2> QED
    BY <2>1, <2>2, <2>3
<1>2. CASE Commands
  <2>1. CASE owed'
    BY <2>1 DEF Awake
  <2>2. CASE ~owed' /\ ~KickOutbox
    <3>1. asked' \subseteq asked /\ owed' = owed /\ kicks' = kicks
      BY <1>2, <2>2 DEF Commands, Enqueue, EnqueueBotReply, InsertRow, RetrySend, CancelSend,
         CancelRun, AttemptDue, DeleteThread, PersistTalks, DeleteRows, WakeOutbox
    <3> QED
      BY <1>2, <3>1, <1>b, CommandsFrame, AwakeKept
  <2>3. CASE KickOutbox
    <3>1. v = kickTo => kicks'[v] > 0
      BY <2>3, <1>b DEF KickOutbox, Kicked, EpochTypes
    <3>2. kickTo' = kickTo
      BY <1>2, CommandsFrame
    <3> QED
      BY <3>1, <3>2 DEF Awake
  <2> QED
    BY <2>1, <2>2, <2>3
<1>3. ASSUME NEW w \in Workers, Work(w)
      PROVE  Awake(v)'
  <2>1. CASE v = w
    BY <1>3, <2>1, AwakeOfWorker
  <2>2. CASE v # w /\ v # kickTo
    BY <1>3, <2>2, WorkFrame DEF Awake
  <2>3. CASE v # w /\ v = kickTo
    <3>1. asked' \subseteq asked
      BY <1>3 DEF Work, Loop, Load, Rows, Send, Marks, WorkerCancelled, WorkerClosed, End, RecvKick,
         BeginRun, Drain, RunAgain, WaitAgain, NoSession, ReadSession, ReadEpoch, ReadProtocol,
         EndRows, StopRows, TakeRow, Take, Uploaded, UploadFails, Recheck, SkipRow, ServerAccepts,
         SendFails, BotReplyNoId, MarkSent, MarkFailed, MarkRetry, Mark, MarkStale, StoreError,
         CutShort, GiveUp
    <3> QED
      BY <1>3, <2>3, <3>1, <1>b, OthersRest, WorkFrame, AwakeKept
  <2> QED
    BY <2>1, <2>2, <2>3
<1> QED
  BY <1>1, <1>2, <1>3 DEF Next

(***************************************************************************)
(* The properties of one step.                                             *)
(***************************************************************************)
\* What the server accepts grows by messages that go out over the client of
\* their own account.
LEMMA AcceptedStep ==
  ASSUME TypeOK, HandInv, OwnAccountOnly, Next
  PROVE  /\ OwnAccountOnly' /\ accepted \subseteq accepted'
         /\ accepted' \subseteq (Accounts \cup {NoAccount}) \X Ids
<1>1. ASSUME NEW w \in Workers, NEW pc \in {"ok", "retry"}, ServerAccepts(w, pc)
      PROVE  /\ OwnAccountOnly' /\ accepted \subseteq accepted'
             /\ accepted' \subseteq (Accounts \cup {NoAccount}) \X Ids
  <2>1. wpc[w] = "send" /\ accepted' = accepted \cup {<<acct[wclient[w]], wcur[w]>>}
    BY <1>1 DEF ServerAccepts
  <2>2. wclient[w] = w /\ wcur[w] \in Ids /\ Owner[wcur[w]] = acct[w]
    BY <2>1 DEF HandInv, Hand, Busy
  <2>3. acct[w] \in Accounts
    BY <2>2
  <2> QED
    BY <2>1, <2>2, <2>3 DEF OwnAccountOnly, TypeOK
<1>2. CASE UNCHANGED accepted
  BY <1>2 DEF OwnAccountOnly, TypeOK
<1>3. CASE Session \/ Commands
  <2>1. UNCHANGED accepted
    BY <1>3, CommandsFrame DEF Session, BeginStart, StartBump, ReplaceSession, InstallProtocol,
       SpawnWorker, BeginStop, EndStop, Crash
  <2> QED
    BY <2>1, <1>2
<1>4. ASSUME NEW w \in Workers, Work(w), ~\E pc \in {"ok", "retry"} : ServerAccepts(w, pc)
      PROVE  UNCHANGED accepted
  BY <1>4 DEF Work, Loop, Load, Rows, Send, Marks, WorkerCancelled, WorkerClosed, End, RecvKick,
     BeginRun, Drain, RunAgain, WaitAgain, NoSession, ReadSession, ReadEpoch, ReadProtocol, EndRows,
     StopRows, TakeRow, Take, Uploaded, UploadFails, Recheck, SkipRow, SendFails, BotReplyNoId,
     MarkSent, MarkFailed, MarkRetry, Mark, MarkStale, StoreError, CutShort
<1> QED
  BY <1>1, <1>2, <1>3, <1>4 DEF Next

\* A worker's step that is no mark leaves the store alone.
LEMMA StoreFrame ==
  ASSUME NEW w \in Workers, Work(w)
  PROVE  MarkSent(w) \/ MarkFailed(w) \/ MarkRetry(w) \/ (UNCHANGED <<status, msg, numbered>>)
  BY DEF Work, Loop, Load, Rows, Send, Marks, WorkerCancelled, WorkerClosed, End, RecvKick,
     BeginRun, Drain, RunAgain, WaitAgain, NoSession, ReadSession, ReadEpoch, ReadProtocol, EndRows,
     StopRows, TakeRow, Take, Uploaded, UploadFails, Recheck, SkipRow, ServerAccepts, SendFails,
     BotReplyNoId, MarkStale, StoreError, CutShort, store

LEMMA SessionStore ==
  ASSUME Session
  PROVE  UNCHANGED <<status, msg, numbered>>
  BY DEF Session, BeginStart, StartBump, ReplaceSession, InstallProtocol, SpawnWorker, BeginStop,
     EndStop, Crash, store

LEMMA SentStep ==
  ASSUME Types, HandInv, SentIsAccepted, NumberedInv, accepted \subseteq accepted', Next
  PROVE  SentIsAccepted'
<1> SUFFICES ASSUME NEW i \in Ids, status'[i] = "sent" \/ msg'[i] = "sent"
             PROVE  <<Owner[i], i>> \in accepted'
  BY DEF SentIsAccepted
<1> USE DEF Types, StoreTypes
<1>1. CASE status[i] = "sent" \/ msg[i] = "sent"
  BY <1>1 DEF SentIsAccepted
<1>3. CASE i \in numbered
  BY <1>3 DEF NumberedInv
<1>2. CASE status[i] # "sent" /\ msg[i] # "sent" /\ i \notin numbered
  <2>1. ~Session
    BY <1>2, SessionStore
  <2>2. ~Commands
    <3>1. \A j \in Ids : ~Enqueue(j) /\ ~EnqueueBotReply(j)
      BY <1>2 DEF Enqueue, EnqueueBotReply, InsertRow
    <3>2. \A j \in Ids : ~RetrySend(j) /\ ~CancelSend(j) /\ ~AttemptDue(j)
      BY <1>2 DEF RetrySend, CancelSend, CancelRun, AttemptDue, store
    <3>3. ~DeleteRows /\ ~WakeOutbox /\ ~KickOutbox
      BY <1>2 DEF DeleteRows, WakeOutbox, KickOutbox, store
    <3>4. \A d \in Dests : ~DeleteThread(d) /\ ~PersistTalks(d)
      BY <1>2 DEF DeleteThread, CancelRun, PersistTalks, store
    <3> QED
      BY <3>1, <3>2, <3>3, <3>4 DEF Commands
  <2>3. PICK w \in Workers : Work(w)
    BY <2>1, <2>2 DEF Next
  <2>4. MarkSent(w) /\ wcur[w] = i
    BY <1>2, <2>3, StoreFrame DEF MarkSent, MarkFailed, MarkRetry, Mark
  <2>5. <<Owner[wcur[w]], wcur[w]>> \in accepted
    BY <2>4 DEF MarkSent, HandInv, Hand
  <2> QED
    BY <2>4, <2>5
<1> QED
  BY <1>1, <1>2, <1>3

\* A message id comes with mark_sent, after the server's answer, and goes with
\* the row.
LEMMA NumberedStep ==
  ASSUME Types, HandInv, NumberedInv, accepted \subseteq accepted', Next
  PROVE  NumberedInv'
<1> SUFFICES ASSUME NEW i \in numbered'
             PROVE  msg'[i] # "none" /\ <<Owner[i], i>> \in accepted'
  BY DEF NumberedInv
<1>a. StoreTypes /\ (i \in numbered => i \in Ids /\ msg[i] # "none" /\ <<Owner[i], i>> \in accepted)
  BY DEF NumberedInv, Types, StoreTypes
<1>1. CASE Session
  BY <1>1, <1>a, SessionStore
<1>2. ASSUME NEW j \in Ids, Enqueue(j) \/ EnqueueBotReply(j)
      PROVE  msg'[i] # "none" /\ <<Owner[i], i>> \in accepted'
  BY <1>2, <1>a DEF Enqueue, EnqueueBotReply, InsertRow
<1>3. ASSUME NEW j \in Ids, RetrySend(j) \/ CancelSend(j) \/ AttemptDue(j)
      PROVE  msg'[i] # "none" /\ <<Owner[i], i>> \in accepted'
  BY <1>3, <1>a DEF RetrySend, CancelSend, CancelRun, AttemptDue, StoreTypes, store
<1>4. ASSUME NEW d \in Dests, DeleteThread(d) \/ PersistTalks(d)
      PROVE  msg'[i] # "none" /\ <<Owner[i], i>> \in accepted'
  BY <1>4, <1>a DEF DeleteThread, CancelRun, PersistTalks, StoreTypes, store
<1>5. CASE DeleteRows \/ WakeOutbox \/ KickOutbox
  BY <1>5, <1>a DEF DeleteRows, WakeOutbox, KickOutbox, StoreTypes, store
<1>6. ASSUME NEW w \in Workers, Work(w)
      PROVE  msg'[i] # "none" /\ <<Owner[i], i>> \in accepted'
  <2>1. CASE MarkSent(w)
    <3>1. wcur[w] \in Ids /\ <<Owner[wcur[w]], wcur[w]>> \in accepted
      BY <2>1 DEF MarkSent, HandInv, Hand, Busy
    <3> QED
      BY <2>1, <3>1, <1>a DEF MarkSent, Mark, StoreTypes
  <2>2. CASE MarkFailed(w) \/ MarkRetry(w)
    BY <2>2, <1>a DEF MarkFailed, MarkRetry, Mark, StoreTypes
  <2>3. CASE UNCHANGED <<status, msg, numbered>>
    BY <2>3, <1>a
  <2> QED
    BY <1>6, <2>1, <2>2, <2>3, StoreFrame
<1> QED
  BY <1>1, <1>2, <1>3, <1>4, <1>5, <1>6 DEF Next, Commands

\* Row and message of one id; that the server has a message shown as sent is
\* SentIsAccepted.
Agree(i) ==
  \/ msg[i] = IF status[i] = "pending" THEN "sending" ELSE status[i]
  \/ status[i] = "sent" /\ msg[i] = "none"
  \/ status[i] \in {"pending", "failed"} /\ msg[i] = "sent" /\ i \in numbered

LEMMA TimelineStep ==
  ASSUME Types, HandInv, LoadInv, TimelineAgrees, NumberedInv, SentIsAccepted', Next
  PROVE  TimelineAgrees'
<1> SUFFICES ASSUME NEW i \in Ids PROVE Agree(i)'
  BY DEF TimelineAgrees, SentIsAccepted, Agree
<1>a. StoreTypes /\ Agree(i) /\ (i \in numbered => msg[i] # "none")
  BY DEF TimelineAgrees, Types, Agree, NumberedInv
<1>1. CASE Session
  BY <1>1, <1>a, SessionStore DEF Agree
<1>2. ASSUME NEW j \in Ids, Enqueue(j) \/ EnqueueBotReply(j) PROVE Agree(i)'
  BY <1>2, <1>a DEF Enqueue, EnqueueBotReply, InsertRow, Prunable, Alive, StoreTypes, Agree
<1>3. ASSUME NEW j \in Ids, RetrySend(j) \/ CancelSend(j) \/ AttemptDue(j) PROVE Agree(i)'
  BY <1>3, <1>a DEF RetrySend, CancelSend, CancelRun, AttemptDue, StoreTypes, store, Agree
<1>4. ASSUME NEW d \in Dests, DeleteThread(d) \/ PersistTalks(d) PROVE Agree(i)'
  BY <1>4, <1>a
     DEF DeleteThread, CancelRun, PersistTalks, Prunable, Alive, StoreTypes, store, Agree
<1>5. CASE DeleteRows \/ WakeOutbox \/ KickOutbox
  BY <1>5, <1>a DEF DeleteRows, WakeOutbox, KickOutbox, StoreTypes, store, Agree
<1>6. ASSUME NEW w \in Workers, Work(w) PROVE Agree(i)'
  <2>1. CASE MarkSent(w) \/ MarkFailed(w) \/ MarkRetry(w)
    <3>1. status[wcur[w]] \in {"none", "pending"}
      BY <2>1, MarkIsNewest
    <3> QED
      BY <2>1, <3>1, <1>a DEF MarkSent, MarkFailed, MarkRetry, Mark, StoreTypes, Agree
  <2>2. CASE UNCHANGED <<status, msg, numbered>>
    BY <2>2, <1>a DEF Agree
  <2> QED
    BY <1>6, <2>1, <2>2, StoreFrame
<1> QED
  BY <1>1, <1>2, <1>3, <1>4, <1>5, <1>6 DEF Next, Commands

(***************************************************************************)
(* The theorems.                                                           *)
(***************************************************************************)
LEMMA InitInv == Init => IInv
<1> SUFFICES ASSUME Init PROVE IInv
  OBVIOUS
<1> USE DEF Init
<1>1. StoreTypes /\ SessionTypes
  BY DEF StoreTypes, SessionTypes
<1>2. EpochTypes /\ accepted \subseteq (Accounts \cup {NoAccount}) \X Ids
  BY DEF EpochTypes
<1>3. WorkerTypes
  BY DEF WorkerTypes, Pcs
<1>4. SessionInv
  BY DEF SessionInv
<1>5. HandInv /\ LoadInv /\ WakeInv
  BY DEF HandInv, Hand, LoadInv, Fetched, WakeInv, Awake, Workers, NoRow, Busy, Loaded
<1>6. OwnAccountOnly /\ SentIsAccepted /\ TimelineAgrees /\ NumberedInv
  BY DEF OwnAccountOnly, SentIsAccepted, TimelineAgrees, NumberedInv
<1> QED
  BY <1>1, <1>2, <1>3, <1>4, <1>5, <1>6 DEF IInv, TypeOK

LEMMA StepInv == IInv /\ [Next]_vars => IInv'
<1> SUFFICES ASSUME IInv, [Next]_vars
             PROVE  IInv'
  OBVIOUS
<1>1. CASE Next
  <2>a. Types /\ TypeOK /\ SessionInv /\ HandInv /\ LoadInv /\ WakeInv
    BY DEF IInv, TypeOK, Types
  <2>1. Types'
    BY <1>1, <2>a, SessionTypesStep, CommandTypes, WorkTypes DEF Next, Types
  <2>2. SessionInv' /\ HandInv' /\ LoadInv' /\ WakeInv'
    BY <1>1, <2>a, SessionStep, HandStep, LoadStep, WakeStep
  <2>3. /\ OwnAccountOnly' /\ accepted \subseteq accepted'
        /\ accepted' \subseteq (Accounts \cup {NoAccount}) \X Ids
    BY <1>1, <2>a, AcceptedStep DEF IInv
  <2>4. SentIsAccepted'
    BY <1>1, <2>a, <2>3, SentStep DEF IInv
  <2>5. TimelineAgrees' /\ NumberedInv'
    BY <1>1, <2>a, <2>3, <2>4, TimelineStep, NumberedStep DEF IInv
  <2> QED
    BY <2>1, <2>2, <2>3, <2>4, <2>5 DEF IInv, TypeOK, Types
<1>2. CASE UNCHANGED vars
  BY <1>2 DEF vars, store, sdk, snap, IInv, TypeOK, StoreTypes, SessionTypes, EpochTypes,
     WorkerTypes, SessionInv, HandInv, Hand, LoadInv, Fetched, WakeInv, Awake, DueOf,
     OwnAccountOnly, SentIsAccepted, TimelineAgrees, NumberedInv
<1> QED
  BY <1>1, <1>2

LEMMA Inductive == Spec => []IInv
<1>1. Init => IInv
  BY InitInv
<1>2. IInv /\ [Next]_vars => IInv'
  BY StepInv
<1> QED
  BY <1>1, <1>2, PTL DEF Spec

\* Every variable of the outbox keeps its type.
THEOREM TypeCorrect == Spec => []TypeOK
<1>1. IInv => TypeOK
  BY DEF IInv
<1> QED
  BY <1>1, Inductive, PTL

\* run_once never sends an account's message over another account's client,
\* however start_session, stop_session and the workers of older sessions
\* interleave.
THEOREM OwnAccountSafety == Spec => []OwnAccountOnly
<1>1. IInv => OwnAccountOnly
  BY DEF IInv
<1> QED
  BY <1>1, Inductive, PTL

\* mark_sent is only reached for a message the server has accepted.
THEOREM SentSafety == Spec => []SentIsAccepted
<1>1. IInv => SentIsAccepted
  BY DEF IInv
<1> QED
  BY <1>1, Inductive, PTL

\* The outbox row and the message row of the same id change together, but for
\* a sent message that is enqueued again and merged with what a page brings.
THEOREM TimelineSafety == Spec => []TimelineAgrees
<1>1. IInv => TimelineAgrees
  BY DEF IInv
<1> QED
  BY <1>1, Inductive, PTL

\* The worker of the running session does not go to sleep on a row it was
\* kicked for.
THEOREM WakeupSafety == Spec => []NoLostWakeup
<1>1. IInv => NoLostWakeup
  BY DEF IInv, WakeInv, Awake, NoLostWakeup
<1> QED
  BY <1>1, Inductive, PTL
=============================================================================
