------------------------------ MODULE Requests ------------------------------
(***************************************************************************)
(* The requests of one client to the chat service over one connection      *)
(* after another:                                                          *)
(*                                                                         *)
(*   crates/kim-client/src/client.rs   the methods, write_wait, write_ack  *)
(*   crates/kim-client/src/pump.rs     Live::write_wait, dispatch          *)
(*   crates/kim-client/src/wire.rs     decode_event                        *)
(*   services/chat/src/lib.rs          receive, resp_err, the dispatcher   *)
(*   crates/kim-router/src/*.rs        Router::serve, Context::resp,       *)
(*                                     Context::dispatch_cmd               *)
(*                                                                         *)
(* Requests are served side by side, so answers and pushes may arrive in   *)
(* any order.  When a connection ends its frames are lost: answers go to a *)
(* channel, and the next connection has another one.  A connection that is *)
(* given up before its reader has seen it close is ClientLink's matter.    *)
(***************************************************************************)
EXTENDS Naturals, CommandTable

CONSTANTS
  Callers,   \* tasks of the application that call methods
  Allowed,   \* bound: the methods each of them calls
  MaxCalls,  \* bound: calls made
  MaxFaults  \* bound: pushes sent to this client and connections lost

VARIABLES
  live,      \* Io::Live, and its reader running
  nextSeq,   \* KimClient.next_seq
  calls,     \* per caller: the method, its number, where it is and what it returned
  pending,   \* Live.pending: the numbers with a waiting oneshot
  up,        \* requests on their way to their handler
  down,      \* frames on their way to this client
  faults,    \* pushes and losses so far
  \* history
  served,    \* what the service answered to each number
  arrived,   \* the numbers whose answer the reader has decoded
  strays     \* the numbers a push of unknown command has carried here

requestVars == <<live, nextSeq, calls, pending, up, down, faults, served, arrived, strays>>

Idle == [method |-> "", seq |-> 0, at |-> "idle", got |-> ""]
FirstSeq == 2   \* 1 is the login's

Seqs == FirstSeq .. FirstSeq + MaxCalls - 1

(***************************************************************************)
(* Decoding and waking.                                                    *)
(***************************************************************************)
Event(k, f) == [kind |-> k, seq |-> f.seq, status |-> f.status]

(* A body of another message is taken for a connection gone wrong.         *)
DecodeBody(d, f) == IF d.body \in {"Any", f.body} THEN Event(d.event, f) ELSE Event("Garbled", f)

DecodePush(f) ==
  IF f.cmd \in DOMAIN Pushes THEN DecodeBody(Pushes[f.cmd], f) ELSE Event("Status", f)

(* The decoders of answers look at the status first. *)
DecodeAnswer(f) ==
  IF f.cmd \in DOMAIN Answers /\ f.status = "Success" THEN DecodeBody(Answers[f.cmd], f)
                                                      ELSE Event("Status", f)

Decode(f) == IF f.flag = "Push" THEN DecodePush(f) ELSE DecodeAnswer(f)

(* The events dispatch() looks for in pending. *)
Wakes ==
  {"TalkResp", "Status", "UserList", "Profile", "Inbox", "History", "OfflinePage",
   "OfflineContent", "AgentSpecSync", "AgentSpecUpsert"}

(* The closure a method gives to write_wait. *)
Take(m, e) ==
  IF e.kind = "Status"
    THEN IF e.status = "Success" /\ m.plain THEN "Ok" ELSE e.status
    ELSE IF e.kind = m.takes THEN "Ok" ELSE "mismatched"

(* Mutant: whoever waits is sent e, whatever its number. *)
WokenAny(s, e) ==
  [c \in Callers |->
     IF calls[c].at = "waiting"
       THEN [calls[c] EXCEPT !.at = "done", !.got = Take(Methods[calls[c].method], e)]
       ELSE calls[c]]

(* The oneshot of number s is sent e. *)
Woken(s, e) ==
  [c \in Callers |->
     IF calls[c].at = "waiting" /\ calls[c].seq = s
       THEN [calls[c] EXCEPT !.at = "done", !.got = Take(Methods[calls[c].method], e)]
       ELSE calls[c]]

(* Event::Closed: pending is cleared and its callers return. *)
AllClosed ==
  [c \in Callers |->
     IF calls[c].at = "waiting" THEN [calls[c] EXCEPT !.at = "done", !.got = "Closed"]
                                ELSE calls[c]]

(***************************************************************************)
(* The service.                                                            *)
(***************************************************************************)
Answer(r, st, b) ==
  [flag |-> "Response", cmd |-> r.cmd, status |-> st, body |-> b, seq |-> r.seq]

(* A handler that cannot read its request, or misses its destination. *)
Refusals(h, r) ==
  (IF h.reads \notin {"Any", r.body} THEN {"InvalidPacketBody"} ELSE {})
    \cup (IF h.dest /\ ~r.dest THEN {"NoDestination"} ELSE {})

(* resp and resp_with_error of the handler the router finds. *)
HandlerAnswers(r) ==
  LET h == Routes[r.cmd]
  IN  IF Refusals(h, r) # {}
        THEN {Answer(r, st, "Empty") : st \in Refusals(h, r)}
        ELSE {Answer(r, "Success", h.ok)} \cup {Answer(r, st, "Empty") : st \in h.fails}

(* Router::serve. *)
RouterAnswers(r) ==
  IF r.cmd \in DOMAIN Routes THEN HandlerAnswers(r)
                             ELSE {Answer(r, "CommandNotFound", "Empty")}

(* resp_err sends the request itself back, its body included. *)
ReceiveAnswers(r) == {Answer(r, st, r.body) : st \in ReceiveFails}

RequestsInit ==
  /\ live = TRUE
  /\ nextSeq = FirstSeq
  /\ calls = [c \in Callers |-> Idle]
  /\ pending = {} /\ up = {} /\ down = {}
  /\ faults = 0
  /\ served = [s \in Seqs |-> ""]
  /\ arrived = {} /\ strays = {}

MayCall(c, m) == calls[c].at \in {"idle", "done"} /\ m \in Allowed[c] /\ nextSeq \in Seqs

(* The request of a method, under its number. *)
Numbered(m, s) ==
  LET q == Methods[m].req IN [cmd |-> q.cmd, body |-> q.body, dest |-> q.dest, seq |-> s]

Sent(s, m) == up' = up \cup {Numbered(m, s)}

(* Mutant: the request is sent without leaving a oneshot. *)
CallUnregistered(c, m) ==
  /\ live /\ MayCall(c, m) /\ Methods[m].takes # "None"
  /\ nextSeq' = nextSeq + 1
  /\ calls' = [calls EXCEPT ![c] = [method |-> m, seq |-> nextSeq, at |-> "waiting", got |-> ""]]
  /\ Sent(nextSeq, m)
  /\ UNCHANGED <<live, pending, down, faults, served, arrived, strays>>

(* A method that waits: its number, its oneshot, its request. *)
Call(c, m) ==
  /\ live /\ MayCall(c, m) /\ Methods[m].takes # "None"
  /\ nextSeq' = nextSeq + 1
  /\ calls' = [calls EXCEPT ![c] = [method |-> m, seq |-> nextSeq, at |-> "waiting", got |-> ""]]
  /\ pending' = pending \cup {nextSeq}
  /\ Sent(nextSeq, m)
  /\ UNCHANGED <<live, down, faults, served, arrived, strays>>

(* write_ack: the answer is waited for by nobody. *)
Notice(c, m) ==
  /\ live /\ MayCall(c, m) /\ Methods[m].takes = "None"
  /\ nextSeq' = nextSeq + 1
  /\ calls' = [calls EXCEPT ![c] = [method |-> m, seq |-> nextSeq, at |-> "done", got |-> "Written"]]
  /\ Sent(nextSeq, m)
  /\ UNCHANGED <<live, pending, down, faults, served, arrived, strays>>

(* The write fails: the oneshot is taken out of pending again. *)
CallDead(c, m) ==
  /\ ~live /\ MayCall(c, m)
  /\ nextSeq' = nextSeq + 1
  /\ calls' = [calls EXCEPT ![c] = [method |-> m, seq |-> nextSeq, at |-> "done", got |-> "Closed"]]
  /\ UNCHANGED <<live, pending, up, down, faults, served, arrived, strays>>

(* receive: the session is looked up, the router serves the request. *)
Serve(r) ==
  /\ r \in up
  /\ up' = up \ {r}
  /\ \E a \in ReceiveAnswers(r) \cup RouterAnswers(r) :
       /\ down' = down \cup {a}
       /\ served' = [served EXCEPT ![r.seq] = a.status]
  /\ UNCHANGED <<live, nextSeq, calls, pending, faults, arrived, strays>>

(* The push of an answer to the gateway fails: the handler returns an      *)
(* error, which is logged.                                                 *)
Unanswered(r) ==
  /\ r \in up
  /\ up' = up \ {r}
  /\ UNCHANGED <<live, nextSeq, calls, pending, down, faults, served, arrived, strays>>

(* Somebody else's request makes the service push: dispatch_cmd copies the *)
(* header of that request, its number included.                            *)
Push(p, s) ==
  /\ live /\ faults < MaxFaults /\ p \in Pushed
  /\ faults' = faults + 1
  /\ down' = down \cup {[flag |-> "Push", cmd |-> p[1], status |-> "Success",
                         body |-> p[2], seq |-> s]}
  /\ UNCHANGED <<live, nextSeq, calls, pending, up, served, arrived, strays>>

(* The reader decodes a frame and dispatches the event: to the oneshot of  *)
(* its number, or to the queue of events.  One that does not decode ends   *)
(* the connection (Drop).                                                  *)
Receive(f) ==
  LET e == Decode(f)
      wakes == e.kind \in Wakes /\ e.seq \in pending
  IN  /\ live /\ f \in down /\ e.kind # "Garbled"
      /\ down' = down \ {f}
      /\ pending' = IF wakes THEN pending \ {e.seq} ELSE pending
      /\ calls' = IF wakes THEN Woken(e.seq, e) ELSE calls
      /\ arrived' = IF f.flag = "Response" THEN arrived \cup {f.seq} ELSE arrived
      /\ strays' = IF f.flag = "Push" /\ e.kind = "Status" THEN strays \cup {f.seq} ELSE strays
      /\ UNCHANGED <<live, nextSeq, up, faults, served>>

(* The connection closes under the reader. *)
Drop ==
  /\ live /\ faults < MaxFaults
  /\ live' = FALSE
  /\ faults' = faults + 1
  /\ calls' = AllClosed
  /\ pending' = {} /\ up' = {} /\ down' = {}
  /\ UNCHANGED <<nextSeq, served, arrived, strays>>

(* The loop connects and logs in again; numbers go on. *)
Reconnect ==
  /\ ~live
  /\ live' = TRUE
  /\ UNCHANGED <<nextSeq, calls, pending, up, down, faults, served, arrived, strays>>

RequestsNext ==
  \/ \E c \in Callers, m \in DOMAIN Methods : Call(c, m) \/ Notice(c, m) \/ CallDead(c, m)
  \/ \E r \in up : Serve(r) \/ Unanswered(r)
  \/ \E p \in Pushed, s \in Seqs : Push(p, s)
  \/ \E f \in down : Receive(f)
  \/ Drop
  \/ Reconnect

RequestsSpec == RequestsInit /\ [][RequestsNext]_requestVars

(***************************************************************************)
(* Properties.                                                             *)
(***************************************************************************)
(* The answers no arm of dispatch() waits for: a call whose result is one  *)
(* of them returns only when it is refused or the connection closes.       *)
Unrouted == {"RoomEnter", "BotPending", "ConversationRead", "ConversationStates"}

(* What a method returns for the status the service gave its request. *)
Told(st) == IF st = "Success" THEN "Ok" ELSE st

(* A call returns what the service answered to that very request, however  *)
(* requests, answers and reconnects interleave: never the answer to        *)
(* another one, never a result it cannot use.  The exceptions are a closed *)
(* connection, and a push of a command the client does not know, which     *)
(* dispatch() hands to the call with the pusher's number.                  *)
TrueAnswer ==
  \A c \in Callers :
    calls[c].at = "done" /\ calls[c].got \notin {"Closed", "Written"} =>
      \/ calls[c].got = Told(served[calls[c].seq])
      \/ calls[c].seq \in strays

(* A call whose answer has been decoded is no longer waiting, except for   *)
(* the four results dispatch() has no arm for.                             *)
AnsweredReturns ==
  \A c \in Callers :
    calls[c].at = "waiting" /\ calls[c].seq \in arrived =>
      Methods[calls[c].method].takes \in Unrouted /\ served[calls[c].seq] = "Success"

(* The answer a that the service may give to method m is the message the   *)
(* decoder expects, and one the waiting call takes for what it says; or no *)
(* arm of dispatch() looks for it.                                         *)
AnswerFits(m, a) ==
  LET e == Decode(a)
  IN  /\ e.kind # "Garbled"
      /\ Methods[m].takes # "None" =>
           IF e.kind \in Wakes
             THEN Take(Methods[m], e) = Told(a.status)
             ELSE Methods[m].takes \in Unrouted /\ a.status = "Success"

(* The two sides' tables agree: every request is of a command the router   *)
(* knows and in the form its handler reads, every answer fits its method,  *)
(* and every push is the message the client's decoder expects, for an      *)
(* event no call waits for.                                                *)
TablesAgree ==
  /\ \A m \in DOMAIN Methods :
       LET r == Numbered(m, FirstSeq)
       IN  /\ r.cmd \in DOMAIN Routes /\ Refusals(Routes[r.cmd], r) = {}
           /\ \A a \in ReceiveAnswers(r) \cup RouterAnswers(r) : AnswerFits(m, a)
  /\ \A p \in Pushed : p[1] \in DOMAIN Pushes =>
       Pushes[p[1]].body \in {"Any", p[2]} /\ Pushes[p[1]].event \notin Wakes
=============================================================================
