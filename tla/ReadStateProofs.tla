-------------------------- MODULE ReadStateProofs --------------------------
(***************************************************************************)
(* The read state of a conversation, for every set of devices and every    *)
(* number of messages: the counter of the inbox row agrees with the index, *)
(* a thread that is read has no badge, and the whole implements ReadMarks. *)
(*                                                                         *)
(* Then the requests of a client, for any number of callers, calls, pushes *)
(* and lost connections: a call returns the answer to its own request, and *)
(* one whose answer has been decoded returns.  Both rest on TablesAgree, a *)
(* fact about the constant tables of CommandTable that TLC evaluates;      *)
(* nothing here looks into those tables.                                   *)
(***************************************************************************)
EXTENDS ReadState, Requests, FiniteSetTheorems, WellFoundedInduction, TLAPS

-----------------------------------------------------------------------------
(***************************************************************************)
(* The requests of a client.                                               *)
(***************************************************************************)
Replies(r) == ReceiveAnswers(r) \cup RouterAnswers(r)

(***************************************************************************)
(* The inductive invariant.                                                *)
(***************************************************************************)
\* The record of a call has its four fields.
Shape(x) == x = [method |-> x.method, seq |-> x.seq, at |-> x.at, got |-> x.got]

Shapes ==
    /\ nextSeq \in Nat
    /\ calls = [c \in Callers |-> calls[c]]
    /\ \A c \in Callers :
         Shape(calls[c]) /\ calls[c].at \in {"idle", "waiting", "done"}
    /\ served = [s \in Seqs |-> served[s]]

\* A number is given to one call, in turn.
Given(s) == s \in Seqs /\ s \in Nat /\ s < nextSeq

Numbers ==
    /\ \A c \in Callers : calls[c].at # "idle" => Given(calls[c].seq)
    /\ \A c, d \in Callers :
         calls[c].at # "idle" /\ calls[d].at # "idle" /\ calls[c].seq = calls[d].seq => c = d
    /\ \A s \in arrived : Given(s)

\* A call that waits has left a oneshot.
Waiting ==
    \A c \in Callers : calls[c].at = "waiting" =>
      /\ calls[c].method \in DOMAIN Methods /\ Methods[calls[c].method].takes # "None"
      /\ calls[c].seq \in pending

\* Whoever waits under number s called method m.
CalledBy(s, m) ==
    \A c \in Callers : calls[c].at = "waiting" /\ calls[c].seq = s => calls[c].method = m

\* A request on its way has not been answered, and is its caller's.
Outgoing ==
    \A r \in up :
      /\ Given(r.seq) /\ r.seq \notin arrived
      /\ \E m \in DOMAIN Methods : r = Numbered(m, r.seq) /\ CalledBy(r.seq, m)
      /\ \A f \in down : f.flag = "Response" => f.seq # r.seq

OneEach == \A r, q \in up : r.seq = q.seq => r = q

\* A frame on its way is a push of the table, or what the service answered.
Incoming ==
    \A f \in down :
      \/ f.flag = "Push" /\ \E p \in Pushed : f.cmd = p[1] /\ f.body = p[2]
      \/ /\ f.flag = "Response" /\ Given(f.seq)
         /\ f.status = served[f.seq]
         /\ \E m \in DOMAIN Methods : f \in Replies(Numbered(m, f.seq)) /\ CalledBy(f.seq, m)

\* What a call has returned stays true: its number is not answered again.
Returned ==
    \A c \in Callers :
      calls[c].at = "done" /\ calls[c].got \notin {"Closed", "Written"} =>
        \/ calls[c].got = Told(served[calls[c].seq]) /\ calls[c].seq \in arrived
        \/ calls[c].seq \in strays

CallInv ==
    /\ Shapes /\ Numbers /\ Waiting /\ Outgoing /\ OneEach /\ Incoming /\ Returned
    /\ AnsweredReturns

(***************************************************************************)
(* Lemmas.                                                                 *)
(***************************************************************************)
LEMMA ReplyShape ==
  ASSUME NEW r, NEW a \in Replies(r)
  PROVE  a.flag = "Response" /\ a.seq = r.seq
<1>1. ASSUME NEW st, NEW b
      PROVE  Answer(r, st, b).flag = "Response" /\ Answer(r, st, b).seq = r.seq
  BY DEF Answer
<1>2. \E st, b : a = Answer(r, st, b)
  <2>1. CASE a \in ReceiveAnswers(r)
    BY <2>1 DEF ReceiveAnswers
  <2>2. CASE a \in RouterAnswers(r)
    BY <2>2 DEF RouterAnswers, HandlerAnswers
  <2> QED
    BY <2>1, <2>2 DEF Replies
<1> QED
  BY <1>1, <1>2

LEMMA NumberedSeq ==
  ASSUME NEW m, NEW s
  PROVE  Numbered(m, s).seq = s
  BY DEF Numbered

\* What an answer's number is makes no difference to who can use it.
LEMMA RepliesFit ==
  ASSUME TablesAgree, NEW m \in DOMAIN Methods, NEW s, NEW a \in Replies(Numbered(m, s))
  PROVE  AnswerFits(m, a)
<1> DEFINE r == Numbered(m, s)
           q == Numbered(m, FirstSeq)
<1>1. r.cmd = q.cmd /\ r.body = q.body /\ r.dest = q.dest
  BY DEF Numbered
<1> HIDE DEF r, q
<1>2. \A h : Refusals(h, r) = Refusals(h, q)
  BY <1>1 DEF Refusals
<1>3. PICK st, b : a = Answer(r, st, b) /\ Answer(q, st, b) \in Replies(q)
  <2>1. CASE a \in ReceiveAnswers(r)
    BY <2>1, <1>1 DEF ReceiveAnswers, Replies
  <2>2. CASE a \in RouterAnswers(r)
    <3>1. CASE r.cmd \in DOMAIN Routes
      <4>1. a \in HandlerAnswers(r)
        BY <2>2, <3>1 DEF RouterAnswers
      <4>2. \E st, b : a = Answer(r, st, b) /\ Answer(q, st, b) \in HandlerAnswers(q)
        BY <4>1, <1>1, <1>2 DEF HandlerAnswers
      <4>3. HandlerAnswers(q) \subseteq Replies(q)
        BY <3>1, <1>1 DEF RouterAnswers, Replies
      <4> QED
        BY <4>2, <4>3
    <3>2. CASE r.cmd \notin DOMAIN Routes
      BY <2>2, <3>2, <1>1 DEF RouterAnswers, Replies
    <3> QED
      BY <3>1, <3>2
  <2> QED
    BY <2>1, <2>2 DEF Replies, r
<1> DEFINE z == Answer(q, st, b)
<1>4. z.flag = a.flag /\ z.cmd = a.cmd /\ z.status = a.status /\ z.body = a.body
  BY <1>1, <1>3 DEF Answer
<1>5. AnswerFits(m, z)
  BY <1>3 DEF TablesAgree, Replies, q
<1> HIDE DEF z
<1>6. Decode(a).kind = Decode(z).kind /\ Decode(a).status = Decode(z).status
  BY <1>4 DEF Decode, DecodePush, DecodeAnswer, DecodeBody, Event
<1>7. Take(Methods[m], Decode(a)) = Take(Methods[m], Decode(z))
  BY <1>6 DEF Take
<1> QED
  BY <1>4, <1>5, <1>6, <1>7 DEF AnswerFits

\* An event carries the number and the status of its frame.
LEMMA DecodedFields ==
  ASSUME NEW f
  PROVE  Decode(f).seq = f.seq /\ Decode(f).status = f.status
<1>1. ASSUME NEW k PROVE Event(k, f).seq = f.seq /\ Event(k, f).status = f.status
  BY DEF Event
<1>2. \E k : Decode(f) = Event(k, f)
  BY DEF Decode, DecodePush, DecodeAnswer, DecodeBody
<1> QED
  BY <1>1, <1>2

\* A push that wakes a call is a Status.
LEMMA PushedKind ==
  ASSUME TablesAgree, NEW f, f.flag = "Push", NEW p \in Pushed, f.cmd = p[1], f.body = p[2],
         Decode(f).kind \in Wakes
  PROVE  Decode(f).kind = "Status"
<1>1. Decode(f) = DecodePush(f)
  BY DEF Decode
<1>2. \A k : Event(k, f).kind = k
  BY DEF Event
<1>3. CASE f.cmd \in DOMAIN Pushes
  <2>1. Pushes[f.cmd].body \in {"Any", f.body} /\ Pushes[f.cmd].event \notin Wakes
    BY <1>3 DEF TablesAgree
  <2>2. Decode(f) = Event(Pushes[f.cmd].event, f)
    BY <1>1, <1>3, <2>1 DEF DecodePush, DecodeBody
  <2> QED
    BY <1>2, <2>1, <2>2
<1>4. CASE f.cmd \notin DOMAIN Pushes
  <2>1. Decode(f) = Event("Status", f)
    BY <1>1, <1>4 DEF DecodePush
  <2> QED
    BY <1>2, <2>1
<1> QED
  BY <1>3, <1>4

LEMMA CallInit == RequestsInit => CallInv
<1> SUFFICES ASSUME RequestsInit PROVE CallInv
  OBVIOUS
<1>1. \A c \in Callers : calls[c] = Idle /\ calls[c].at = "idle"
  BY DEF RequestsInit, Idle
<1>2. Shapes
  <2>1. Shape(Idle)
    BY DEF Shape, Idle
  <2>2. calls = [c \in Callers |-> calls[c]] /\ served = [s \in Seqs |-> served[s]]
    BY DEF RequestsInit
  <2>3. nextSeq \in Nat
    BY DEF RequestsInit, FirstSeq
  <2> QED
    BY <1>1, <2>1, <2>2, <2>3 DEF Shapes
<1>3. Numbers
  BY <1>1 DEF RequestsInit, Numbers
<1>4. Outgoing /\ OneEach /\ Incoming
  BY DEF RequestsInit, Outgoing, OneEach, Incoming
<1>5. Waiting
  BY <1>1 DEF Waiting
<1>6. Returned
  BY <1>1 DEF Returned
<1>7. AnsweredReturns
  BY <1>1 DEF AnsweredReturns
<1> QED
  BY <1>2, <1>3, <1>4, <1>5, <1>6, <1>7 DEF CallInv

(***************************************************************************)
(* The steps.                                                              *)
(***************************************************************************)
LEMMA GivenNext ==
  ASSUME Shapes, nextSeq' = nextSeq + 1
  PROVE  /\ nextSeq' \in Nat
         /\ \A s : Given(s) => Given(s)' /\ s # nextSeq
         /\ nextSeq \in Seqs => \A s : s = nextSeq => Given(s)'
  BY DEF Shapes, Given

\* A caller takes the next number; its request may be on its way.
LEMMA NewCall ==
  ASSUME CallInv, NEW c \in Callers, NEW m \in DOMAIN Methods, NEW at, NEW got, nextSeq \in Seqs,
         nextSeq' = nextSeq + 1,
         calls' = [calls EXCEPT ![c] = [method |-> m, seq |-> nextSeq, at |-> at, got |-> got]],
         \/ /\ at = "waiting" /\ pending' = pending \cup {nextSeq}
            /\ Methods[m].takes # "None"
         \/ at = "done" /\ got \in {"Closed", "Written"} /\ pending' = pending,
         up' \in {up, up \cup {Numbered(m, nextSeq)}},
         UNCHANGED <<down, served, arrived, strays>>
  PROVE  CallInv'
<1>1. /\ calls'[c].method = m /\ calls'[c].seq = nextSeq /\ calls'[c].at = at /\ calls'[c].got = got
      /\ calls' = [d \in Callers |-> calls'[d]] /\ Shape(calls'[c])
      /\ \A d \in Callers : d # c => calls'[d] = calls[d]
  BY DEF CallInv, Shapes, Shape
<1>2. Shapes /\ at \in {"waiting", "done"} /\ nextSeq \in Nat
  BY DEF CallInv, Shapes
<1>3. /\ nextSeq' \in Nat /\ \A s : s = nextSeq => Given(s)'
      /\ \A s : Given(s) => Given(s)' /\ s # nextSeq
  BY <1>2, GivenNext
<1>4. Shapes'
  BY <1>1, <1>2, <1>3 DEF Shapes, Shape
<1>5. \A d \in Callers : d # c /\ calls[d].at # "idle" => calls[d].seq # nextSeq
  BY <1>3 DEF CallInv, Numbers
<1>6. Numbers'
  <2>1. \A d \in Callers : calls'[d].at # "idle" => Given(calls[d].seq)'
    <3> SUFFICES ASSUME NEW d \in Callers, calls'[d].at # "idle"
                 PROVE  Given(calls[d].seq)'
      OBVIOUS
    <3>1. CASE d = c
      BY <3>1, <1>1, <1>3 DEF Given
    <3>2. CASE d # c
      <4>1. Given(calls[d].seq)
        BY <3>2, <1>1 DEF CallInv, Numbers
      <4> QED
        BY <3>2, <4>1, <1>1, <1>3 DEF Given
    <3> QED
      BY <3>1, <3>2
  <2>2. \A s \in arrived' : Given(s)'
    BY <1>3 DEF CallInv, Numbers
  <2>3. \A d, e \in Callers :
          calls'[d].at # "idle" /\ calls'[e].at # "idle" /\ calls'[d].seq = calls'[e].seq => d = e
    BY <1>1, <1>5 DEF CallInv, Numbers
  <2> QED
    BY <2>1, <2>2, <2>3 DEF Numbers
<1>7. Waiting'
  BY <1>1 DEF CallInv, Waiting
<1>8. ASSUME NEW s, NEW n, s # nextSeq, CalledBy(s, n)
      PROVE  CalledBy(s, n)'
  BY <1>1, <1>8 DEF CalledBy
<1>9. ASSUME NEW f \in down', f.flag = "Response"
      PROVE  f \in down /\ Given(f.seq) /\ f.seq # nextSeq
  BY <1>9, <1>3 DEF CallInv, Incoming
<1>10. Outgoing'
  <2> SUFFICES ASSUME NEW r \in up'
               PROVE  /\ Given(r.seq)' /\ r.seq \notin arrived
                      /\ \E n \in DOMAIN Methods : r = Numbered(n, r.seq) /\ CalledBy(r.seq, n)'
                      /\ \A f \in down' : f.flag = "Response" => f.seq # r.seq
    BY DEF Outgoing
  <2>1. CASE r \in up
    <3>1. /\ Given(r.seq) /\ r.seq \notin arrived
          /\ \A f \in down : f.flag = "Response" => f.seq # r.seq
      BY <2>1 DEF CallInv, Outgoing
    <3>2. PICK n \in DOMAIN Methods : r = Numbered(n, r.seq) /\ CalledBy(r.seq, n)
      BY <2>1 DEF CallInv, Outgoing
    <3>3. CalledBy(r.seq, n)'
      BY <3>1, <3>2, <1>3, <1>8
    <3>4. Given(r.seq)'
      BY <3>1, <1>3
    <3> QED
      BY <3>1, <3>2, <3>3, <3>4
  <2>2. CASE r \notin up
    <3>1. r = Numbered(m, nextSeq)
      BY <2>2
    <3>2. r.seq = nextSeq
      BY <3>1, NumberedSeq
    <3>3. nextSeq \notin arrived
      BY <1>3 DEF CallInv, Numbers
    <3>5. \A f \in down' : f.flag = "Response" => f.seq # r.seq
      BY <3>2, <1>9
    <3>6. CalledBy(r.seq, m)'
      BY <3>2, <1>1, <1>5 DEF CalledBy
    <3>7. Given(r.seq)'
      BY <3>2, <1>3 DEF Given
    <3> QED
      BY <3>1, <3>2, <3>3, <3>5, <3>6, <3>7
  <2> QED
    BY <2>1, <2>2
<1>11. OneEach'
  <2>1. \A r \in up : r.seq # nextSeq
    BY <1>3 DEF CallInv, Outgoing
  <2> QED
    BY <2>1, NumberedSeq DEF CallInv, OneEach
<1>12. Incoming'
  <2> SUFFICES ASSUME NEW f \in down, f.flag # "Push"
               PROVE  /\ f.flag = "Response" /\ Given(f.seq)' /\ f.status = served[f.seq]
                      /\ \E n \in DOMAIN Methods :
                           f \in Replies(Numbered(n, f.seq)) /\ CalledBy(f.seq, n)'
    BY DEF CallInv, Incoming
  <2>1. f.flag = "Response" /\ Given(f.seq) /\ f.status = served[f.seq]
    BY DEF CallInv, Incoming
  <2>2. PICK n \in DOMAIN Methods : f \in Replies(Numbered(n, f.seq)) /\ CalledBy(f.seq, n)
    BY DEF CallInv, Incoming
  <2>3. CalledBy(f.seq, n)'
    BY <2>1, <2>2, <1>3, <1>8
  <2>4. Given(f.seq)'
    BY <2>1, <1>3
  <2> QED
    BY <2>1, <2>2, <2>3, <2>4
<1>13. Returned'
  BY <1>1 DEF CallInv, Returned
<1>14. AnsweredReturns'
  <2>1. nextSeq \notin arrived
    BY <1>3 DEF CallInv, Numbers
  <2> QED
    BY <2>1, <1>1 DEF CallInv, AnsweredReturns
<1> QED
  BY <1>4, <1>6, <1>7, <1>10, <1>11, <1>12, <1>13, <1>14 DEF CallInv

LEMMA CallStep ==
  ASSUME CallInv, NEW c \in Callers, NEW m \in DOMAIN Methods,
         Call(c, m) \/ Notice(c, m) \/ CallDead(c, m)
  PROVE  CallInv'
<1>1. CASE Call(c, m)
  BY <1>1, NewCall DEF Call, MayCall, Sent
<1>2. CASE Notice(c, m)
  BY <1>2, NewCall DEF Notice, MayCall, Sent
<1>3. CASE CallDead(c, m)
  BY <1>3, NewCall DEF CallDead, MayCall
<1> QED
  BY <1>1, <1>2, <1>3

\* A request leaves up, and an answer to it may come down.
LEMMA ServeStep ==
  ASSUME CallInv, NEW r \in up, Serve(r) \/ Unanswered(r)
  PROVE  CallInv'
<1>1. UNCHANGED <<nextSeq, calls, pending, arrived, strays>> /\ up' = up \ {r}
  BY DEF Serve, Unanswered
<1>2. Given(r.seq) /\ r.seq \notin arrived
  BY DEF CallInv, Outgoing
<1>3. PICK m \in DOMAIN Methods : r = Numbered(m, r.seq) /\ CalledBy(r.seq, m)
  BY DEF CallInv, Outgoing
<1>4. Numbers' /\ Waiting' /\ OneEach'
  BY <1>1 DEF CallInv, Numbers, Given, Waiting, OneEach
<1>5. CASE Unanswered(r)
  <2>1. UNCHANGED <<down, served>>
    BY <1>5 DEF Unanswered
  <2>2. Shapes' /\ Outgoing' /\ Incoming'
    BY <1>1, <2>1 DEF CallInv, Shapes, Shape, Outgoing, Incoming, Given, CalledBy
  <2>3. Returned' /\ AnsweredReturns'
    BY <1>1, <2>1 DEF CallInv, Returned, AnsweredReturns
  <2> QED
    BY <1>4, <2>2, <2>3 DEF CallInv
<1>6. CASE Serve(r)
  <2>1. PICK a \in Replies(r) : /\ down' = down \cup {a}
                                /\ served' = [served EXCEPT ![r.seq] = a.status]
    BY <1>6 DEF Serve, Replies
  <2>2. a.flag = "Response" /\ a.seq = r.seq
    BY ReplyShape
  <2>3. /\ served'[r.seq] = a.status /\ served' = [s \in Seqs |-> served'[s]]
        /\ \A s \in Seqs : s # r.seq => served'[s] = served[s]
    BY <2>1, <1>2 DEF CallInv, Shapes, Given
  <2>4. Shapes'
    BY <1>1, <2>3 DEF CallInv, Shapes, Shape
  <2>5. Outgoing'
    <3>1. \A q \in up' : q.seq # r.seq
      BY <1>1 DEF CallInv, OneEach
    <3> QED
      BY <1>1, <2>1, <2>2, <3>1 DEF CallInv, Outgoing, Given, CalledBy
  <2>6. Incoming'
    <3> SUFFICES ASSUME NEW f \in down', f.flag # "Push"
                 PROVE  /\ f.flag = "Response" /\ Given(f.seq)' /\ f.status = served'[f.seq]
                        /\ \E n \in DOMAIN Methods :
                             f \in Replies(Numbered(n, f.seq)) /\ CalledBy(f.seq, n)'
      <4>1. \A f \in down' : f.flag = "Push" => f \in down
        BY <2>1, <2>2
      <4> QED
        BY <4>1 DEF CallInv, Incoming
    <3>1. \A s, n : CalledBy(s, n) => CalledBy(s, n)'
      BY <1>1 DEF CalledBy
    <3>2. CASE f = a
      <4>1. f \in Replies(Numbered(m, f.seq)) /\ CalledBy(f.seq, m)
        BY <3>2, <1>3, <2>2
      <4> QED
        BY <4>1, <3>1, <3>2, <1>1, <1>2, <2>2, <2>3 DEF Given
    <3>3. CASE f # a
      <4>1. f \in down
        BY <3>3, <2>1
      <4>2. /\ f.flag = "Response" /\ Given(f.seq) /\ f.status = served[f.seq]
            /\ \E n \in DOMAIN Methods : f \in Replies(Numbered(n, f.seq)) /\ CalledBy(f.seq, n)
        BY <4>1 DEF CallInv, Incoming
      <4>3. f.seq # r.seq
        BY <4>1, <4>2 DEF CallInv, Outgoing
      <4>4. served'[f.seq] = served[f.seq]
        BY <4>2, <4>3, <2>3 DEF Given
      <4> QED
        BY <4>2, <4>4, <3>1, <1>1 DEF Given
    <3> QED
      BY <3>2, <3>3
  <2>7. Returned'
    <3> SUFFICES ASSUME NEW c \in Callers, calls[c].at = "done",
                        calls[c].got \notin {"Closed", "Written"}, calls[c].seq \notin strays
                 PROVE  calls[c].got = Told(served'[calls[c].seq]) /\ calls[c].seq \in arrived
      BY <1>1 DEF Returned
    <3>1. /\ calls[c].got = Told(served[calls[c].seq]) /\ calls[c].seq \in arrived
      BY DEF CallInv, Returned
    <3>2. calls[c].seq # r.seq /\ calls[c].seq \in Seqs
      BY <3>1, <1>2 DEF CallInv, Numbers, Given
    <3> QED
      BY <3>1, <3>2, <2>3
  <2>8. AnsweredReturns'
    <3> SUFFICES ASSUME NEW c \in Callers, calls[c].at = "waiting", calls[c].seq \in arrived
                 PROVE  /\ Methods[calls[c].method].takes \in Unrouted
                        /\ served'[calls[c].seq] = "Success"
      BY <1>1 DEF AnsweredReturns
    <3>1. calls[c].seq # r.seq /\ calls[c].seq \in Seqs
      BY <1>2 DEF CallInv, Numbers, Given
    <3> QED
      BY <3>1, <2>3 DEF CallInv, AnsweredReturns
  <2> QED
    BY <1>4, <2>4, <2>5, <2>6, <2>7, <2>8 DEF CallInv
<1> QED
  BY <1>5, <1>6

LEMMA PushStep ==
  ASSUME CallInv, NEW p \in Pushed, NEW s \in Seqs, Push(p, s)
  PROVE  CallInv'
<1>1. UNCHANGED <<nextSeq, calls, pending, up, served, arrived, strays>>
  BY DEF Push
<1> DEFINE f == [flag |-> "Push", cmd |-> p[1], status |-> "Success", body |-> p[2], seq |-> s]
<1>2. down' = down \cup {f} /\ f.flag = "Push" /\ f.cmd = p[1] /\ f.body = p[2]
  BY DEF Push
<1> HIDE DEF f
<1>3. Shapes' /\ Numbers' /\ Waiting' /\ OneEach'
  BY <1>1 DEF CallInv, Shapes, Shape, Numbers, Given, Waiting, OneEach
<1>4. Outgoing'
  BY <1>1, <1>2 DEF CallInv, Outgoing, Given, CalledBy
<1>5. Incoming'
  BY <1>1, <1>2 DEF CallInv, Incoming, Given, CalledBy
<1>6. Returned' /\ AnsweredReturns'
  BY <1>1 DEF CallInv, Returned, AnsweredReturns
<1> QED
  BY <1>3, <1>4, <1>5, <1>6 DEF CallInv

\* Calls that wait may come to return; nobody begins to wait.
LEMMA Quieter ==
  ASSUME CallInv,
         calls' = [c \in Callers |-> calls'[c]],
         \A c \in Callers : Shape(calls'[c]) /\ calls'[c].seq = calls[c].seq
                            /\ calls'[c].method = calls[c].method
                            /\ (calls'[c] # calls[c] =>
                                   calls[c].at = "waiting" /\ calls'[c].at = "done"),
         \A c \in Callers : calls'[c].at = "waiting" => calls'[c].seq \in pending',
         up' \subseteq up, down' \subseteq down,
         \A s \in arrived' : s \in arrived \/ \E f \in down : f.flag = "Response" /\ f.seq = s,
         UNCHANGED <<nextSeq, served>>
  PROVE  Shapes' /\ Numbers' /\ Waiting' /\ OneEach' /\ Incoming'
         /\ (\A s, m : CalledBy(s, m) => CalledBy(s, m)')
<1>1. \A s : Given(s) => Given(s)'
  BY DEF Given
<1>2. \A s, m : CalledBy(s, m) => CalledBy(s, m)'
  BY DEF CalledBy
<1>3. Shapes'
  BY DEF CallInv, Shapes
<1>4. Numbers'
  <2>1. \A c \in Callers : calls'[c].at # "idle" => calls[c].at # "idle"
    OBVIOUS
  <2>2. \A s \in arrived' : Given(s)'
    BY <1>1 DEF CallInv, Numbers, Incoming
  <2>3. ASSUME NEW c \in Callers, calls'[c].at # "idle"
        PROVE  Given(calls[c].seq)'
    <3>1. Given(calls[c].seq)
      BY <2>1, <2>3 DEF CallInv, Numbers
    <3> QED
      BY <3>1 DEF Given
  <2> QED
    BY <2>1, <2>2, <2>3 DEF CallInv, Numbers
<1>5. Waiting'
  BY DEF CallInv, Waiting
<1>6. OneEach'
  BY DEF CallInv, OneEach
<1>7. Incoming'
  <2> SUFFICES ASSUME NEW f \in down', f.flag # "Push"
               PROVE  /\ f.flag = "Response" /\ Given(f.seq)' /\ f.status = served[f.seq]
                      /\ \E n \in DOMAIN Methods :
                           f \in Replies(Numbered(n, f.seq)) /\ CalledBy(f.seq, n)'
    BY DEF CallInv, Incoming
  <2> QED
    BY <1>1, <1>2 DEF CallInv, Incoming
<1> QED
  BY <1>2, <1>3, <1>4, <1>5, <1>6, <1>7

\* A oneshot of number s returns what it is sent, to the one call that has it.
LEMMA WokenCalls ==
  ASSUME Shapes, NEW s, NEW e, calls' = Woken(s, e)
  PROVE  /\ calls' = [c \in Callers |-> calls'[c]]
         /\ \A c \in Callers :
              /\ Shape(calls'[c]) /\ calls'[c].seq = calls[c].seq
              /\ calls'[c].method = calls[c].method
              /\ (calls[c].at = "waiting" /\ calls[c].seq = s) =>
                   calls'[c].at = "done" /\ calls'[c].got = Take(Methods[calls[c].method], e)
              /\ ~(calls[c].at = "waiting" /\ calls[c].seq = s) => calls'[c] = calls[c]
<1>1. calls' = [c \in Callers |-> calls'[c]]
  BY DEF Woken
<1>2. ASSUME NEW c \in Callers
      PROVE  /\ Shape(calls'[c]) /\ calls'[c].seq = calls[c].seq
             /\ calls'[c].method = calls[c].method
             /\ (calls[c].at = "waiting" /\ calls[c].seq = s) =>
                  calls'[c].at = "done" /\ calls'[c].got = Take(Methods[calls[c].method], e)
             /\ ~(calls[c].at = "waiting" /\ calls[c].seq = s) => calls'[c] = calls[c]
  <2> DEFINE x == calls[c]
             t == Take(Methods[x.method], e)
  <2>1. x = [method |-> x.method, seq |-> x.seq, at |-> x.at, got |-> x.got]
    BY DEF Shapes, Shape
  <2>2. calls'[c] = IF x.at = "waiting" /\ x.seq = s
                      THEN [x EXCEPT !.at = "done", !.got = t] ELSE x
    BY DEF Woken
  <2> HIDE DEF x, t
  <2>3. CASE x.at = "waiting" /\ x.seq = s
    <3>1. calls'[c] = [method |-> x.method, seq |-> x.seq, at |-> "done", got |-> t]
      BY <2>1, <2>2, <2>3
    <3> QED
      BY <3>1, <2>3 DEF Shape, x, t
  <2>4. CASE ~(x.at = "waiting" /\ x.seq = s)
    BY <2>1, <2>2, <2>4 DEF Shape, x
  <2> QED
    BY <2>3, <2>4
<1> QED
  BY <1>1, <1>2

LEMMA ClosedCalls ==
  ASSUME Shapes, calls' = AllClosed
  PROVE  /\ calls' = [c \in Callers |-> calls'[c]]
         /\ \A c \in Callers :
              /\ Shape(calls'[c]) /\ calls'[c].seq = calls[c].seq
              /\ calls'[c].method = calls[c].method
              /\ calls[c].at = "waiting" => calls'[c].at = "done" /\ calls'[c].got = "Closed"
              /\ calls[c].at # "waiting" => calls'[c] = calls[c]
<1>1. calls' = [c \in Callers |-> calls'[c]]
  BY DEF AllClosed
<1>2. ASSUME NEW c \in Callers
      PROVE  /\ Shape(calls'[c]) /\ calls'[c].seq = calls[c].seq
             /\ calls'[c].method = calls[c].method
             /\ calls[c].at = "waiting" => calls'[c].at = "done" /\ calls'[c].got = "Closed"
             /\ calls[c].at # "waiting" => calls'[c] = calls[c]
  <2> DEFINE x == calls[c]
  <2>1. x = [method |-> x.method, seq |-> x.seq, at |-> x.at, got |-> x.got]
    BY DEF Shapes, Shape
  <2>2. calls'[c] = IF x.at = "waiting" THEN [x EXCEPT !.at = "done", !.got = "Closed"] ELSE x
    BY DEF AllClosed
  <2> HIDE DEF x
  <2>3. CASE x.at = "waiting"
    <3>1. calls'[c] = [method |-> x.method, seq |-> x.seq, at |-> "done", got |-> "Closed"]
      BY <2>1, <2>2, <2>3
    <3> QED
      BY <3>1, <2>3 DEF Shape, x
  <2>4. CASE x.at # "waiting"
    BY <2>1, <2>2, <2>4 DEF Shape, x
  <2> QED
    BY <2>3, <2>4
<1> QED
  BY <1>1, <1>2

LEMMA DropStep ==
  ASSUME CallInv, Drop
  PROVE  CallInv'
<1>1. /\ calls' = AllClosed /\ pending' = {} /\ up' = {} /\ down' = {}
      /\ UNCHANGED <<nextSeq, served, arrived, strays>>
  BY DEF Drop
<1>2. /\ calls' = [c \in Callers |-> calls'[c]]
      /\ \A c \in Callers :
           /\ Shape(calls'[c]) /\ calls'[c].seq = calls[c].seq
           /\ calls'[c].method = calls[c].method
           /\ calls[c].at = "waiting" => calls'[c].at = "done" /\ calls'[c].got = "Closed"
           /\ calls[c].at # "waiting" => calls'[c] = calls[c]
  BY <1>1, ClosedCalls DEF CallInv
<1>3. \A c \in Callers : calls'[c].at # "waiting"
  BY <1>2
<1>4. Shapes' /\ Numbers' /\ Waiting' /\ OneEach' /\ Incoming'
  <2>1. \A c \in Callers : Shape(calls'[c]) /\ calls'[c].seq = calls[c].seq
                             /\ calls'[c].method = calls[c].method
                             /\ (calls'[c] # calls[c] =>
                                   calls[c].at = "waiting" /\ calls'[c].at = "done")
    BY Zenon, <1>2
  <2>2. \A c \in Callers : calls'[c].at = "waiting" => calls'[c].seq \in pending'
    BY <1>3
  <2>3. up' \subseteq up /\ down' \subseteq down /\ arrived' = arrived
    BY <1>1
  <2>4. \A s \in arrived' : s \in arrived \/ \E f \in down : f.flag = "Response" /\ f.seq = s
    BY <2>3
  <2> QED
    BY <1>1, <1>2, <2>1, <2>2, <2>3, <2>4, Quieter
<1>5. Outgoing'
  BY <1>1 DEF Outgoing
<1>6. Returned'
  BY <1>1, <1>2 DEF CallInv, Returned
<1>7. AnsweredReturns'
  BY <1>3 DEF AnsweredReturns
<1> QED
  BY <1>4, <1>5, <1>6, <1>7 DEF CallInv

LEMMA ReceiveStep ==
  ASSUME TablesAgree, CallInv, NEW f \in down, Receive(f)
  PROVE  CallInv'
<1> DEFINE e == Decode(f)
           wakes == e.kind \in Wakes /\ e.seq \in pending
<1>1. /\ down' = down \ {f}
      /\ pending' = IF wakes THEN pending \ {e.seq} ELSE pending
      /\ calls' = IF wakes THEN Woken(e.seq, e) ELSE calls
      /\ arrived' = IF f.flag = "Response" THEN arrived \cup {f.seq} ELSE arrived
      /\ strays' = IF f.flag = "Push" /\ e.kind = "Status" THEN strays \cup {f.seq} ELSE strays
      /\ UNCHANGED <<nextSeq, up, served>>
  BY DEF Receive
<1>2. e.seq = f.seq /\ e.status = f.status
  BY DecodedFields
<1>3. f.flag = "Response" =>
        /\ Given(f.seq) /\ f.status = served[f.seq]
        /\ \E m \in DOMAIN Methods : AnswerFits(m, f) /\ CalledBy(f.seq, m)
  <2> SUFFICES ASSUME f.flag = "Response"
               PROVE  /\ Given(f.seq) /\ f.status = served[f.seq]
                      /\ \E m \in DOMAIN Methods : AnswerFits(m, f) /\ CalledBy(f.seq, m)
    OBVIOUS
  <2>1. Given(f.seq) /\ f.status = served[f.seq]
    BY DEF CallInv, Incoming
  <2>2. PICK m \in DOMAIN Methods : f \in Replies(Numbered(m, f.seq)) /\ CalledBy(f.seq, m)
    BY DEF CallInv, Incoming
  <2>3. AnswerFits(m, f)
    BY <2>1, <2>2, RepliesFit DEF Given
  <2> QED
    BY <2>1, <2>2, <2>3
<1>4. f.flag # "Response" => f.flag = "Push" /\ (e.kind \in Wakes => e.kind = "Status")
  <2> SUFFICES ASSUME f.flag # "Response"
               PROVE  f.flag = "Push" /\ (e.kind \in Wakes => e.kind = "Status")
    OBVIOUS
  <2>1. f.flag = "Push" /\ \E p \in Pushed : f.cmd = p[1] /\ f.body = p[2]
    BY DEF CallInv, Incoming
  <2> QED
    BY <2>1, PushedKind
<1> HIDE DEF e
<1>5. /\ calls' = [c \in Callers |-> calls'[c]]
      /\ \A c \in Callers :
           /\ Shape(calls'[c]) /\ calls'[c].seq = calls[c].seq
           /\ calls'[c].method = calls[c].method
           /\ wakes /\ calls[c].at = "waiting" /\ calls[c].seq = f.seq =>
                calls'[c].at = "done" /\ calls'[c].got = Take(Methods[calls[c].method], e)
           /\ ~(wakes /\ calls[c].at = "waiting" /\ calls[c].seq = f.seq) => calls'[c] = calls[c]
  <2>1. CASE wakes
    <3>1. calls' = Woken(f.seq, e)
      BY <2>1, <1>1, <1>2
    <3> QED
      BY <2>1, <3>1, WokenCalls DEF CallInv
  <2>2. CASE ~wakes
    <3>1. calls' = calls
      BY <2>2, <1>1
    <3>2. calls = [c \in Callers |-> calls[c]] /\ \A c \in Callers : Shape(calls[c])
      BY DEF CallInv, Shapes
    <3> QED
      BY <2>2, <3>1, <3>2
  <2> QED
    BY <2>1, <2>2
<1>6. \A c \in Callers : calls'[c].at = "waiting" => calls'[c].seq \in pending'
  <2> SUFFICES ASSUME NEW c \in Callers, calls'[c].at = "waiting"
               PROVE  calls[c].seq \in pending'
    BY <1>5
  <2>1. calls[c].at = "waiting" /\ ~(wakes /\ calls[c].seq = f.seq)
    BY <1>5
  <2>2. calls[c].seq \in pending
    BY <2>1 DEF CallInv, Waiting
  <2> QED
    BY <2>1, <2>2, <1>1, <1>2
<1>7. \A s \in arrived' : s \in arrived \/ \E g \in down : g.flag = "Response" /\ g.seq = s
  BY <1>1
<1>8. /\ Shapes' /\ Numbers' /\ Waiting' /\ OneEach' /\ Incoming'
      /\ \A s, m : CalledBy(s, m) => CalledBy(s, m)'
  <2>1. \A c \in Callers : Shape(calls'[c]) /\ calls'[c].seq = calls[c].seq
                             /\ calls'[c].method = calls[c].method
                             /\ (calls'[c] # calls[c] =>
                                   calls[c].at = "waiting" /\ calls'[c].at = "done")
    BY Zenon, <1>5
  <2>2. up' \subseteq up /\ down' \subseteq down /\ UNCHANGED <<nextSeq, served>>
    BY <1>1
  <2> QED
    BY <1>5, <1>6, <1>7, <2>1, <2>2, Quieter
<1>9. Outgoing'
  <2> SUFFICES ASSUME NEW r \in up
               PROVE  /\ Given(r.seq)' /\ r.seq \notin arrived'
                      /\ \E m \in DOMAIN Methods : r = Numbered(m, r.seq) /\ CalledBy(r.seq, m)'
                      /\ \A g \in down' : g.flag = "Response" => g.seq # r.seq
    BY <1>1 DEF Outgoing
  <2>1. /\ Given(r.seq) /\ r.seq \notin arrived
        /\ \E m \in DOMAIN Methods : r = Numbered(m, r.seq) /\ CalledBy(r.seq, m)
        /\ \A g \in down : g.flag = "Response" => g.seq # r.seq
    BY DEF CallInv, Outgoing
  <2>2. Given(r.seq)'
    BY <2>1, <1>1 DEF Given
  <2> QED
    BY <2>1, <2>2, <1>1, <1>8
<1>10. Returned'
  <2> SUFFICES ASSUME NEW c \in Callers, calls'[c].at = "done",
                      calls'[c].got \notin {"Closed", "Written"}, calls[c].seq \notin strays'
               PROVE  calls'[c].got = Told(served[calls[c].seq]) /\ calls[c].seq \in arrived'
    BY <1>1, <1>5 DEF Returned
  <2>1. CASE wakes /\ calls[c].at = "waiting" /\ calls[c].seq = f.seq
    <3>1. f.flag = "Response"
      BY <2>1, <1>1, <1>4
    <3>2. PICK m \in DOMAIN Methods : AnswerFits(m, f) /\ CalledBy(f.seq, m)
      BY <3>1, <1>3
    <3>3. calls[c].method = m /\ Methods[m].takes # "None"
      BY <2>1, <3>2 DEF CalledBy, CallInv, Waiting
    <3>4. Take(Methods[m], e) = Told(f.status)
      BY <2>1, <3>2, <3>3 DEF AnswerFits, e
    <3> QED
      BY <2>1, <3>1, <3>3, <3>4, <1>1, <1>3, <1>5
  <2>2. CASE ~(wakes /\ calls[c].at = "waiting" /\ calls[c].seq = f.seq)
    BY <2>2, <1>1, <1>5 DEF CallInv, Returned
  <2> QED
    BY <2>1, <2>2
<1>11. AnsweredReturns'
  <2> SUFFICES ASSUME NEW c \in Callers, calls'[c].at = "waiting", calls[c].seq \in arrived'
               PROVE  /\ Methods[calls[c].method].takes \in Unrouted
                      /\ served[calls[c].seq] = "Success"
    BY <1>1, <1>5 DEF AnsweredReturns
  <2>1. calls[c].at = "waiting" /\ ~(wakes /\ calls[c].seq = f.seq)
    BY <1>5
  <2>2. CASE calls[c].seq \in arrived
    BY <2>1, <2>2 DEF CallInv, AnsweredReturns
  <2>3. CASE calls[c].seq \notin arrived
    <3>1. f.flag = "Response" /\ calls[c].seq = f.seq
      BY <2>3, <1>1
    <3>2. PICK m \in DOMAIN Methods : AnswerFits(m, f) /\ CalledBy(f.seq, m)
      BY <3>1, <1>3
    <3>3. calls[c].method = m /\ Methods[m].takes # "None" /\ f.seq \in pending
      BY <2>1, <3>1, <3>2 DEF CalledBy, CallInv, Waiting
    <3>4. e.kind \notin Wakes
      BY <2>1, <3>1, <3>3, <1>2
    <3>5. Methods[m].takes \in Unrouted /\ f.status = "Success"
      BY <3>2, <3>3, <3>4 DEF AnswerFits, e
    <3> QED
      BY <3>1, <3>3, <3>5, <1>3
  <2> QED
    BY <2>2, <2>3
<1> QED
  BY <1>8, <1>9, <1>10, <1>11 DEF CallInv

LEMMA StillStep ==
  ASSUME CallInv, UNCHANGED <<nextSeq, calls, pending, up, down, served, arrived, strays>>
  PROVE  CallInv'
<1>1. Shapes' /\ Numbers' /\ Waiting' /\ OneEach'
  BY DEF CallInv, Shapes, Shape, Numbers, Given, Waiting, OneEach
<1>2. Outgoing' /\ Incoming'
  BY DEF CallInv, Outgoing, Incoming, Given, CalledBy
<1>3. Returned' /\ AnsweredReturns'
  BY DEF CallInv, Returned, AnsweredReturns
<1> QED
  BY <1>1, <1>2, <1>3 DEF CallInv

LEMMA CallNext ==
  ASSUME TablesAgree, CallInv, [RequestsNext]_requestVars
  PROVE  CallInv'
<1>1. CASE \E c \in Callers, m \in DOMAIN Methods : Call(c, m) \/ Notice(c, m) \/ CallDead(c, m)
  BY <1>1, CallStep
<1>2. CASE \E r \in up : Serve(r) \/ Unanswered(r)
  BY <1>2, ServeStep
<1>3. CASE \E p \in Pushed, s \in Seqs : Push(p, s)
  BY <1>3, PushStep
<1>4. CASE \E f \in down : Receive(f)
  BY <1>4, ReceiveStep
<1>5. CASE Drop
  BY <1>5, DropStep
<1>6. CASE Reconnect
  BY <1>6, StillStep DEF Reconnect
<1>7. CASE UNCHANGED requestVars
  BY <1>7, StillStep DEF requestVars
<1> QED
  BY <1>1, <1>2, <1>3, <1>4, <1>5, <1>6, <1>7 DEF RequestsNext

LEMMA CallInvariance ==
  ASSUME TablesAgree
  PROVE  RequestsSpec => []CallInv
<1>1. RequestsInit => CallInv
  BY CallInit
<1>2. CallInv /\ [RequestsNext]_requestVars => CallInv'
  BY CallNext
<1> QED
  BY <1>1, <1>2, PTL DEF RequestsSpec

\* Whatever requests, answers, pushes and reconnects interleave: when the
\* tables of the two sides agree, a call returns the answer to its own
\* request, a closed connection, or what a push of unknown command brought.
THEOREM AnswerSafety ==
  ASSUME TablesAgree
  PROVE  RequestsSpec => []TrueAnswer
<1>1. CallInv => TrueAnswer
  BY DEF CallInv, Returned, TrueAnswer
<1> QED
  BY <1>1, CallInvariance, PTL

\* A call whose answer has been decoded has returned, but for the four
\* results that no arm of dispatch() looks for.
THEOREM ReturnSafety ==
  ASSUME TablesAgree
  PROVE  RequestsSpec => []AnsweredReturns
<1>1. CallInv => AnsweredReturns
  BY DEF CallInv
<1> QED
  BY <1>1, CallInvariance, PTL

-----------------------------------------------------------------------------
(***************************************************************************)
(* The read state of a conversation.                                       *)
(***************************************************************************)
USE ReadAssumption

(***************************************************************************)
(* The greatest id of a set.                                               *)
(***************************************************************************)
LEMMA MaxExists ==
  ASSUME NEW S \in SUBSET Ids, S # {}
  PROVE  \E x \in S : \A y \in S : x >= y
<1> DEFINE T == {n \in Nat : n <= MaxId /\ MaxId - n \in S}
<1>1. T \subseteq Nat /\ T # {}
  <2>1. PICK x \in S : TRUE
    OBVIOUS
  <2>2. MaxId - x \in T
    BY <2>1 DEF Ids
  <2> QED
    BY <2>2
<1> DEFINE R == OpToRel(<, Nat)
<1>r. IsWellFoundedOn(R, Nat)
  BY NatLessThanWellFounded
<1>s. \A j, k \in Nat : j < k => <<j, k>> \in R
  BY DEF OpToRel
<1> HIDE DEF R
<1>2. PICK n \in T : \A k \in T : ~(<<k, n>> \in R)
  <2> HIDE DEF T
  <2> QED
    BY <1>1, <1>r, WFMin
<1>3. \A k \in T : k >= n
  <2>1. \A k \in T : k \in Nat /\ n \in Nat /\ ~(k < n)
    BY <1>1, <1>2, <1>s, Zenon
  <2> QED
    BY <2>1
<1>4. \A y \in S : MaxId - y \in T /\ y \in Int
  BY DEF Ids
<1>5. MaxId - n \in S /\ \A y \in S : MaxId - n >= y
  BY <1>3, <1>4 DEF Ids
<1> QED
  BY <1>5

LEMMA TipFacts ==
  ASSUME NEW S \in SUBSET Ids
  PROVE  /\ Tip(S) \in 0 .. MaxId
         /\ \A x \in S : x <= Tip(S)
         /\ S # {} => Tip(S) \in S
<1>1. CASE S = {}
  BY <1>1 DEF Tip
<1>2. CASE S # {}
  <2>1. Max(S) \in S /\ \A y \in S : Max(S) >= y
    BY <1>2, MaxExists, Zenon DEF Max
  <2>2. Tip(S) = Max(S)
    BY <1>2 DEF Tip
  <2>3. \A y \in S : y \in Nat /\ y <= MaxId
    BY DEF Ids
  <2>4. Tip(S) \in S /\ Tip(S) \in 0 .. MaxId
    BY <2>1, <2>2, <2>3
  <2>5. \A y \in S : y <= Tip(S)
    BY <2>1, <2>2, <2>3, <2>4
  <2> QED
    BY <2>4, <2>5
<1> QED
  BY <1>1, <1>2

LEMMA TipAdd ==
  ASSUME NEW S \in SUBSET Ids, NEW m \in Ids
  PROVE  Tip(S \cup {m}) = Larger(Tip(S), m)
<1>1. /\ Tip(S \cup {m}) \in S \cup {m} /\ \A x \in S \cup {m} : x <= Tip(S \cup {m})
      /\ Tip(S \cup {m}) \in Nat
  BY TipFacts
<1>2. /\ \A x \in S : x <= Tip(S)
      /\ S # {} => Tip(S) \in S
      /\ S = {} => Tip(S) = 0
      /\ Tip(S) \in Nat
  BY TipFacts DEF Tip
<1>3. m \in Nat /\ m > 0
  BY DEF Ids
<1> QED
  BY <1>1, <1>2, <1>3 DEF Larger

(***************************************************************************)
(* The tables of a device.                                                 *)
(***************************************************************************)
\* A thread that is read to its end, or is not there, has no badge.
Badge(v) ==
    /\ v.thread /\ EffectiveRead(v) >= KnownTip(v) => v.unread = 0
    /\ ~v.thread => v.unread = 0

LEMMA LargerFacts ==
  ASSUME NEW a \in Nat, NEW b \in Nat
  PROVE  /\ Larger(a, b) \in Nat /\ Larger(a, b) \in {a, b}
         /\ Larger(a, b) >= a /\ Larger(a, b) >= b
         /\ \A c \in Nat : a <= c /\ b <= c => Larger(a, b) <= c
  BY DEF Larger

LEMMA LargerBounded ==
  ASSUME NEW a \in 0 .. MaxId, NEW b \in 0 .. MaxId
  PROVE  Larger(a, b) \in 0 .. MaxId
  BY DEF Larger

LEMMA FieldTypes ==
  ASSUME NEW v \in DeviceRecord
  PROVE  /\ v.read \in 0 .. MaxId /\ v.srv \in 0 .. MaxId /\ v.known \in 0 .. MaxId
         /\ v.last \in 0 .. MaxId /\ v.unread \in Nat /\ v.thread \in BOOLEAN /\ v.fg \in BOOLEAN
         /\ v.msgs \in SUBSET Ids /\ Tip(v.msgs) \in 0 .. MaxId
         /\ EffectiveRead(v) \in 0 .. MaxId /\ KnownTip(v) \in 0 .. MaxId
<1>1. /\ v.read \in 0 .. MaxId /\ v.srv \in 0 .. MaxId /\ v.known \in 0 .. MaxId
      /\ v.last \in 0 .. MaxId /\ v.unread \in Nat /\ v.thread \in BOOLEAN /\ v.fg \in BOOLEAN
      /\ v.msgs \in SUBSET Ids
  BY DEF DeviceRecord
<1>2. Tip(v.msgs) \in 0 .. MaxId
  BY <1>1, TipFacts
<1>3. EffectiveRead(v) \in 0 .. MaxId
  BY <1>1, LargerBounded DEF EffectiveRead
<1>4. KnownTip(v) \in 0 .. MaxId
  <2>1. Larger(v.last, v.known) \in 0 .. MaxId
    BY <1>1, LargerBounded
  <2> QED
    BY <2>1, <1>2, LargerBounded DEF KnownTip
<1> QED
  BY <1>1, <1>2, <1>3, <1>4

\* The fields of what PersistTalk makes of a device.
LEMMA PersistTalkFields ==
  ASSUME NEW v \in DeviceRecord, NEW m \in Ids, NEW alive \in BOOLEAN
  PROVE  LET r == PersistTalk(v, m, alive)
             new == m \notin v.msgs
             delta == IF alive /\ new /\ m \notin own /\ ~v.fg /\ m > EffectiveRead(v) THEN 1 ELSE 0
         IN  /\ r \in DeviceRecord
             /\ r.read = IF v.fg THEN Larger(Larger(v.read, m), Larger(Larger(v.read, m), v.srv))
                                 ELSE v.read
             /\ r.srv = v.srv /\ r.fg = v.fg
             /\ r.known = IF v.fg THEN Larger(Larger(v.known, m), m) ELSE Larger(v.known, m)
             /\ r.msgs = v.msgs \cup {m}
             /\ r.thread = (v.thread \/ new \/ v.fg)
             /\ r.last = IF new \/ v.fg THEN Larger(v.last, m) ELSE v.last
             /\ r.unread = (IF v.fg /\ v.thread THEN 0 ELSE v.unread) + (IF new \/ v.fg THEN delta ELSE 0)
<1> DEFINE new == m \notin v.msgs
           delta == IF alive /\ new /\ m \notin own /\ ~v.fg /\ m > EffectiveRead(v) THEN 1 ELSE 0
           stored == BumpKnownMax([v EXCEPT !.msgs = @ \cup {m}], m)
           shown == AdvanceId(stored, m)
           read == QueueSync(shown, EffectiveRead(shown))
           seen == IF v.fg THEN SetUnread(read, 0) ELSE stored
           r == PersistTalk(v, m, alive)
<1>0. m \in 0 .. MaxId /\ delta \in Nat
  BY DEF Ids
<1>f. /\ v.read \in 0 .. MaxId /\ v.srv \in 0 .. MaxId /\ v.known \in 0 .. MaxId
      /\ v.last \in 0 .. MaxId /\ v.unread \in Nat /\ v.thread \in BOOLEAN /\ v.fg \in BOOLEAN
      /\ v.msgs \in SUBSET Ids
  BY FieldTypes
<1>1. /\ stored \in DeviceRecord /\ stored.read = v.read /\ stored.srv = v.srv /\ stored.fg = v.fg
      /\ stored.known = Larger(v.known, m) /\ stored.msgs = v.msgs \cup {m}
      /\ stored.thread = v.thread /\ stored.last = v.last /\ stored.unread = v.unread
  <2>1. Larger(v.known, m) \in 0 .. MaxId
    BY <1>0, <1>f, LargerBounded
  <2> QED
    BY <2>1 DEF BumpKnownMax, DeviceRecord
<1> HIDE DEF stored
<1>2. /\ shown \in DeviceRecord /\ shown.read = Larger(v.read, m) /\ shown.srv = v.srv
      /\ shown.fg = v.fg /\ shown.known = Larger(Larger(v.known, m), m)
      /\ shown.msgs = v.msgs \cup {m} /\ shown.thread = v.thread /\ shown.last = v.last
      /\ shown.unread = v.unread
  <2>1. /\ Larger(v.known, m) \in 0 .. MaxId /\ Larger(Larger(v.known, m), m) \in 0 .. MaxId
        /\ Larger(v.read, m) \in 0 .. MaxId
    BY <1>0, <1>f, LargerBounded
  <2> QED
    BY <1>1, <2>1 DEF AdvanceId, BumpKnownMax, DeviceRecord
<1> HIDE DEF shown
<1>3. EffectiveRead(shown) = Larger(Larger(v.read, m), v.srv)
  BY <1>2 DEF EffectiveRead
<1>4. /\ read \in DeviceRecord
      /\ read.read = Larger(Larger(v.read, m), Larger(Larger(v.read, m), v.srv))
      /\ read.srv = v.srv /\ read.fg = v.fg /\ read.known = Larger(Larger(v.known, m), m)
      /\ read.msgs = v.msgs \cup {m} /\ read.thread = v.thread /\ read.last = v.last
      /\ read.unread = v.unread
  <2>1. Larger(Larger(v.read, m), Larger(Larger(v.read, m), v.srv)) \in 0 .. MaxId
    BY <1>0, <1>f, LargerBounded
  <2> QED
    BY <1>2, <1>3, <2>1 DEF QueueSync, DeviceRecord
<1> HIDE DEF read
<1>5. /\ seen \in DeviceRecord
      /\ seen.read = IF v.fg THEN read.read ELSE v.read
      /\ seen.srv = v.srv /\ seen.fg = v.fg
      /\ seen.known = IF v.fg THEN Larger(Larger(v.known, m), m) ELSE Larger(v.known, m)
      /\ seen.msgs = v.msgs \cup {m} /\ seen.thread = v.thread /\ seen.last = v.last
      /\ seen.unread = IF v.fg /\ v.thread THEN 0 ELSE v.unread
  BY <1>1, <1>4 DEF SetUnread, DeviceRecord
<1>6. r = IF new \/ v.fg
            THEN [seen EXCEPT !.thread = TRUE, !.unread = @ + delta, !.last = Larger(@, m)]
            ELSE seen
  BY DEF PersistTalk, stored, shown, read
<1> HIDE DEF seen, delta, new
<1>7. Larger(v.last, m) \in 0 .. MaxId /\ seen.unread + delta \in Nat
  <2>1. seen.unread \in Nat
    BY <1>5, <1>f
  <2>2. seen.unread + delta \in Nat
    BY <2>1, <1>0
  <2>3. Larger(v.last, m) \in 0 .. MaxId
    BY <1>0, <1>f, LargerBounded
  <2> QED
    BY <2>2, <2>3
<1>8. CASE new \/ v.fg
  <2>1. r = [seen EXCEPT !.thread = TRUE, !.unread = seen.unread + delta, !.last = Larger(v.last, m)]
    BY <1>5, <1>6, <1>8
  <2> HIDE DEF r
  <2>2. /\ r \in DeviceRecord /\ r.read = seen.read /\ r.srv = seen.srv /\ r.fg = seen.fg
        /\ r.known = seen.known /\ r.msgs = seen.msgs /\ r.thread = TRUE
        /\ r.last = Larger(v.last, m) /\ r.unread = seen.unread + delta
    BY <1>5, <1>7, <2>1 DEF DeviceRecord
  <2> QED
    BY <2>2, <1>4, <1>5, <1>8 DEF r, delta, new
<1>9. CASE ~(new \/ v.fg)
  <2>1. r = seen
    BY <1>6, <1>9
  <2> HIDE DEF r
  <2> QED
    BY <2>1, <1>4, <1>5, <1>9, <1>f DEF r, delta, new
<1> QED
  BY <1>8, <1>9

\* PersistTalk: a message on screen is read, another is not; the badge is kept.
LEMMA PersistTalkFacts ==
  ASSUME NEW v \in DeviceRecord, NEW m \in Ids, NEW alive \in BOOLEAN, Badge(v)
  PROVE  LET r == PersistTalk(v, m, alive)
         IN  /\ r \in DeviceRecord /\ Badge(r) /\ r.msgs = v.msgs \cup {m} /\ r.fg = v.fg
             /\ EffectiveRead(r) = IF v.fg THEN Larger(EffectiveRead(v), m) ELSE EffectiveRead(v)
             /\ KnownTip(r) = Larger(KnownTip(v), m)
<1> DEFINE r == PersistTalk(v, m, alive)
           new == m \notin v.msgs
           delta == IF alive /\ new /\ m \notin own /\ ~v.fg /\ m > EffectiveRead(v) THEN 1 ELSE 0
<1>1. /\ r \in DeviceRecord
      /\ r.read = IF v.fg THEN Larger(Larger(v.read, m), Larger(Larger(v.read, m), v.srv))
                          ELSE v.read
      /\ r.srv = v.srv /\ r.fg = v.fg
      /\ r.known = IF v.fg THEN Larger(Larger(v.known, m), m) ELSE Larger(v.known, m)
      /\ r.msgs = v.msgs \cup {m}
      /\ r.thread = (v.thread \/ new \/ v.fg)
      /\ r.last = IF new \/ v.fg THEN Larger(v.last, m) ELSE v.last
      /\ r.unread = (IF v.fg /\ v.thread THEN 0 ELSE v.unread) + (IF new \/ v.fg THEN delta ELSE 0)
  BY PersistTalkFields
<1> HIDE DEF r
<1>2. /\ v.read \in Nat /\ v.srv \in Nat /\ v.known \in Nat /\ v.last \in Nat /\ v.unread \in Nat
      /\ v.thread \in BOOLEAN /\ v.fg \in BOOLEAN /\ v.msgs \in SUBSET Ids
      /\ EffectiveRead(v) \in Nat /\ KnownTip(v) \in Nat /\ m \in Nat /\ Tip(v.msgs) \in Nat
  BY FieldTypes DEF Ids
<1>3. EffectiveRead(r) = IF v.fg THEN Larger(EffectiveRead(v), m) ELSE EffectiveRead(v)
  BY <1>1, <1>2 DEF EffectiveRead, Larger
<1>4. Tip(r.msgs) = Larger(Tip(v.msgs), m)
  BY <1>1, <1>2, TipAdd
<1>5. ~new => m <= Tip(v.msgs)
  BY <1>2, TipFacts
<1>6. KnownTip(r) = Larger(KnownTip(v), m)
  BY <1>1, <1>2, <1>4, <1>5 DEF KnownTip, Larger
<1>7. Badge(r)
  <2>1. CASE v.fg
    <3>1. delta = 0
      BY <2>1
    <3>2. v.thread = FALSE => v.unread = 0
      BY DEF Badge
    <3>3. r.unread = 0
      BY <2>1, <3>1, <3>2, <1>1, <1>2
    <3> QED
      BY <3>3 DEF Badge
  <2>2. CASE ~v.fg /\ v.thread
    <3>1. r.thread /\ r.unread = v.unread + (IF new THEN delta ELSE 0)
      BY <2>2, <1>1
    <3>2. SUFFICES ASSUME EffectiveRead(r) >= KnownTip(r)
                   PROVE  r.unread = 0
      BY <3>1 DEF Badge
    <3>3. EffectiveRead(v) >= KnownTip(v) /\ EffectiveRead(v) >= m
      BY <3>2, <2>2, <1>2, <1>3, <1>6 DEF Larger
    <3>4. v.unread = 0 /\ delta = 0
      BY <3>3, <2>2, <1>2 DEF Badge
    <3> QED
      BY <3>1, <3>4
  <2>3. CASE ~v.fg /\ ~v.thread
    <3>1. v.unread = 0
      BY <2>3 DEF Badge
    <3>2. r.unread = IF new THEN delta ELSE 0
      BY <2>3, <3>1, <1>1
    <3>3. EffectiveRead(r) >= KnownTip(r) => delta = 0
      BY <2>3, <1>2, <1>3, <1>6 DEF Larger
    <3>4. ~r.thread => ~new
      BY <1>1
    <3> QED
      BY <3>2, <3>3, <3>4 DEF Badge
  <2> QED
    BY <2>1, <2>2, <2>3, <1>2
<1> QED
  BY <1>1, <1>3, <1>6, <1>7 DEF r

\* SetUnread and the cursors that only rise.
LEMMA SetUnreadFacts ==
  ASSUME NEW v \in DeviceRecord, ~v.thread => v.unread = 0
  PROVE  LET r == SetUnread(v, 0)
         IN  /\ r \in DeviceRecord /\ Badge(r) /\ r.unread = 0
             /\ r.msgs = v.msgs /\ r.fg = v.fg
             /\ EffectiveRead(r) = EffectiveRead(v) /\ KnownTip(r) = KnownTip(v)
<1> DEFINE r == SetUnread(v, 0)
<1>1. /\ r \in DeviceRecord /\ r.unread = 0 /\ r.thread = v.thread /\ r.msgs = v.msgs /\ r.fg = v.fg
      /\ r.read = v.read /\ r.srv = v.srv /\ r.known = v.known /\ r.last = v.last
  BY DEF SetUnread, DeviceRecord
<1> HIDE DEF r
<1>2. EffectiveRead(r) = EffectiveRead(v) /\ KnownTip(r) = KnownTip(v)
  BY <1>1 DEF EffectiveRead, KnownTip
<1>3. Badge(r)
  BY <1>1 DEF Badge
<1> QED
  BY <1>1, <1>2, <1>3 DEF r

\* The record that AdvanceId and QueueSync make of a device.
LEMMA AdvancedFields ==
  ASSUME NEW v \in DeviceRecord, NEW m \in 0 .. MaxId
  PROVE  LET a == AdvanceId(v, m)
             w == QueueSync(a, EffectiveRead(a))
         IN  /\ a \in DeviceRecord /\ EffectiveRead(a) = Larger(EffectiveRead(v), m)
             /\ w \in DeviceRecord /\ w.thread = v.thread /\ w.unread = v.unread
             /\ w.msgs = v.msgs /\ w.fg = v.fg
             /\ EffectiveRead(w) = Larger(EffectiveRead(v), m)
             /\ KnownTip(w) = Larger(KnownTip(v), m)
<1> DEFINE a == AdvanceId(v, m)
           w == QueueSync(a, EffectiveRead(a))
<1>0. /\ v.read \in 0 .. MaxId /\ v.srv \in 0 .. MaxId /\ v.known \in 0 .. MaxId
      /\ v.last \in 0 .. MaxId /\ Tip(v.msgs) \in 0 .. MaxId
      /\ Larger(v.read, m) \in 0 .. MaxId /\ Larger(v.known, m) \in 0 .. MaxId
      /\ Larger(Larger(v.read, m), v.srv) \in 0 .. MaxId
  BY FieldTypes, LargerBounded
<1>1. /\ a \in DeviceRecord /\ a.read = Larger(v.read, m) /\ a.srv = v.srv
      /\ a.known = Larger(v.known, m) /\ a.last = v.last /\ a.msgs = v.msgs /\ a.fg = v.fg
      /\ a.thread = v.thread /\ a.unread = v.unread
  BY <1>0 DEF AdvanceId, BumpKnownMax, DeviceRecord
<1> HIDE DEF a
<1>2. EffectiveRead(a) = Larger(Larger(v.read, m), v.srv)
  BY <1>1 DEF EffectiveRead
<1>3. Larger(a.read, EffectiveRead(a)) \in 0 .. MaxId
  BY <1>0, <1>1, <1>2, LargerBounded
<1>4. /\ w \in DeviceRecord /\ w.read = Larger(a.read, EffectiveRead(a)) /\ w.srv = v.srv
      /\ w.known = Larger(v.known, m) /\ w.last = v.last /\ w.msgs = v.msgs /\ w.fg = v.fg
      /\ w.thread = v.thread /\ w.unread = v.unread
  BY <1>1, <1>3 DEF QueueSync, DeviceRecord
<1> HIDE DEF w
<1>5. EffectiveRead(a) = Larger(EffectiveRead(v), m)
  BY <1>0, <1>2 DEF EffectiveRead, Larger
<1>6. EffectiveRead(w) = Larger(EffectiveRead(v), m)
  BY <1>0, <1>1, <1>2, <1>4 DEF EffectiveRead, Larger
<1>7. KnownTip(w) = Larger(KnownTip(v), m)
  BY <1>0, <1>4 DEF KnownTip, Larger
<1> QED
  BY <1>1, <1>4, <1>5, <1>6, <1>7 DEF a, w

\* watermarks::advance.
LEMMA AdvanceFacts ==
  ASSUME NEW v \in DeviceRecord, NEW m \in 0 .. MaxId, Badge(v)
  PROVE  LET r == Advance(v, m)
         IN  /\ r \in DeviceRecord /\ Badge(r) /\ r.msgs = v.msgs
             /\ EffectiveRead(r) = Larger(EffectiveRead(v), m)
             /\ KnownTip(r) = Larger(KnownTip(v), m)
<1> DEFINE a == AdvanceId(v, m)
           w == QueueSync(a, EffectiveRead(a))
           r == Advance(v, m)
<1>1. /\ EffectiveRead(a) = Larger(EffectiveRead(v), m)
      /\ w \in DeviceRecord /\ w.thread = v.thread /\ w.unread = v.unread /\ w.msgs = v.msgs
      /\ EffectiveRead(w) = Larger(EffectiveRead(v), m)
      /\ KnownTip(w) = Larger(KnownTip(v), m)
  BY AdvancedFields
<1>2. r = IF EffectiveRead(a) >= KnownTip(w) THEN SetUnread(w, 0) ELSE w
  BY DEF Advance
<1>3. ~w.thread => w.unread = 0
  BY <1>1 DEF Badge
<1> HIDE DEF a, w, r
<1>4. CASE EffectiveRead(a) >= KnownTip(w)
  BY <1>1, <1>2, <1>3, <1>4, SetUnreadFacts DEF r
<1>5. CASE ~(EffectiveRead(a) >= KnownTip(w))
  BY <1>1, <1>2, <1>3, <1>5 DEF Badge, r
<1> QED
  BY <1>4, <1>5

\* mark_thread_read_tx: the device reads all it knows of.
LEMMA MarkThreadReadFacts ==
  ASSUME NEW v \in DeviceRecord, Badge(v)
  PROVE  LET r == MarkThreadRead(v)
         IN  /\ r \in DeviceRecord /\ Badge(r) /\ r.msgs = v.msgs /\ r.fg = v.fg
             /\ EffectiveRead(r) = Larger(EffectiveRead(v), KnownTip(v))
             /\ KnownTip(r) = KnownTip(v)
<1> DEFINE a == AdvanceId(v, KnownTip(v))
           w == QueueSync(a, EffectiveRead(a))
           r == MarkThreadRead(v)
<1>0. KnownTip(v) \in 0 .. MaxId /\ EffectiveRead(v) \in 0 .. MaxId
  BY FieldTypes
<1>1. /\ w \in DeviceRecord /\ w.thread = v.thread /\ w.unread = v.unread /\ w.msgs = v.msgs
      /\ w.fg = v.fg /\ EffectiveRead(w) = Larger(EffectiveRead(v), KnownTip(v))
      /\ KnownTip(w) = Larger(KnownTip(v), KnownTip(v))
  BY <1>0, AdvancedFields
<1>2. r = IF KnownTip(v) = 0 THEN v ELSE SetUnread(w, 0)
  BY DEF MarkThreadRead
<1>3. ~w.thread => w.unread = 0
  BY <1>1 DEF Badge
<1>4. Larger(KnownTip(v), KnownTip(v)) = KnownTip(v)
  BY <1>0 DEF Larger
<1> HIDE DEF a, w, r
<1>5. CASE KnownTip(v) = 0
  <2>1. Larger(EffectiveRead(v), KnownTip(v)) = EffectiveRead(v)
    BY <1>0, <1>5 DEF Larger
  <2> QED
    BY <1>2, <1>5, <2>1 DEF r
<1>6. CASE KnownTip(v) # 0
  BY <1>1, <1>2, <1>3, <1>4, <1>6, SetUnreadFacts DEF r
<1> QED
  BY <1>5, <1>6

\* watermarks::apply_server_state: the cursor rises to the server's.
LEMMA ApplyFacts ==
  ASSUME NEW v \in DeviceRecord, NEW s \in StateRecord, ~v.thread => v.unread = 0
  PROVE  LET r == ApplyServerState(v, s)
         IN  /\ r \in DeviceRecord /\ Badge(r) /\ r.msgs = v.msgs /\ r.fg = v.fg
             /\ r.last = v.last /\ r.known >= s.max
             /\ EffectiveRead(r) = Larger(EffectiveRead(v), s.read) /\ EffectiveRead(r) >= s.read
             /\ KnownTip(r) = Larger(KnownTip(v), Larger(s.max, s.read))
<1> DEFINE w == [v EXCEPT !.srv = Larger(@, s.read),
                          !.known = Larger(@, Larger(s.max, s.read)),
                          !.read = Larger(@, s.read)]
           r == ApplyServerState(v, s)
<1>0. /\ s.read \in 0 .. MaxId /\ s.max \in 0 .. MaxId
      /\ v.read \in 0 .. MaxId /\ v.srv \in 0 .. MaxId /\ v.known \in 0 .. MaxId
      /\ v.last \in 0 .. MaxId /\ Tip(v.msgs) \in 0 .. MaxId
      /\ Larger(v.srv, s.read) \in 0 .. MaxId /\ Larger(v.read, s.read) \in 0 .. MaxId
      /\ Larger(v.known, Larger(s.max, s.read)) \in 0 .. MaxId
  BY FieldTypes, LargerBounded DEF StateRecord
<1>1. /\ w \in DeviceRecord /\ w.srv = Larger(v.srv, s.read) /\ w.read = Larger(v.read, s.read)
      /\ w.known = Larger(v.known, Larger(s.max, s.read)) /\ w.last = v.last /\ w.msgs = v.msgs
      /\ w.fg = v.fg /\ w.thread = v.thread /\ w.unread = v.unread
  BY <1>0 DEF DeviceRecord
<1>2. r = IF EffectiveRead(w) >= KnownTip(w) THEN SetUnread(w, 0) ELSE w
  BY DEF ApplyServerState
<1> HIDE DEF w, r
<1>3. EffectiveRead(w) = Larger(EffectiveRead(v), s.read) /\ EffectiveRead(w) >= s.read
  BY <1>0, <1>1 DEF EffectiveRead, Larger
<1>4. KnownTip(w) = Larger(KnownTip(v), Larger(s.max, s.read)) /\ w.known >= s.max
  BY <1>0, <1>1 DEF KnownTip, Larger
<1>5. CASE EffectiveRead(w) >= KnownTip(w)
  <2>1. /\ r \in DeviceRecord /\ Badge(r) /\ r.msgs = v.msgs /\ r.fg = v.fg
        /\ EffectiveRead(r) = EffectiveRead(w) /\ KnownTip(r) = KnownTip(w)
    BY <1>1, <1>2, <1>5, SetUnreadFacts
  <2>2. r.last = v.last /\ r.known = w.known
    BY <1>1, <1>2, <1>5 DEF SetUnread, DeviceRecord
  <2> QED
    BY <2>1, <2>2, <1>3, <1>4 DEF r
<1>6. CASE ~(EffectiveRead(w) >= KnownTip(w))
  <2>1. Badge(w)
    BY <1>1, <1>6 DEF Badge
  <2> QED
    BY <2>1, <1>1, <1>2, <1>3, <1>4, <1>6 DEF r
<1> QED
  BY <1>5, <1>6

\* persist_inbox_tx: merged_unread does not bring back a badge.
LEMMA InboxItemFacts ==
  ASSUME NEW v \in DeviceRecord, NEW p \in EntryRecord,
         EffectiveRead(v) >= p.read, v.known >= Larger(p.max, p.last)
  PROVE  LET r == PersistInboxItem(v, p)
         IN  /\ r \in DeviceRecord /\ Badge(r) /\ r.msgs = v.msgs
             /\ EffectiveRead(r) = EffectiveRead(v)
             /\ KnownTip(r) = KnownTip(v)
<1> DEFINE u == MergedUnread(v, p)
           r == PersistInboxItem(v, p)
<1>0. /\ p.last \in Nat /\ p.last > 0 /\ p.read \in Nat /\ p.max \in Nat /\ p.unread \in Nat
      /\ v.last \in Nat /\ v.known \in Nat /\ Tip(v.msgs) \in Nat /\ EffectiveRead(v) \in Nat
      /\ Larger(v.last, p.last) \in 0 .. MaxId
  BY FieldTypes, LargerBounded DEF EntryRecord, Ids
<1>1. u \in Nat
  BY <1>0 DEF MergedUnread
<1>2. r = [v EXCEPT !.thread = TRUE, !.unread = u, !.last = Larger(v.last, p.last)]
  BY DEF PersistInboxItem
<1> HIDE DEF u, r
<1>3. /\ r \in DeviceRecord /\ r.thread = TRUE /\ r.unread = u /\ r.last = Larger(v.last, p.last)
      /\ r.msgs = v.msgs /\ r.read = v.read /\ r.srv = v.srv /\ r.known = v.known
  BY <1>0, <1>1, <1>2 DEF DeviceRecord
<1>4. EffectiveRead(r) = EffectiveRead(v)
  BY <1>3 DEF EffectiveRead
<1>5. KnownTip(r) = KnownTip(v) /\ KnownTip(v) >= v.last /\ KnownTip(v) >= v.known
  BY <1>0, <1>3 DEF KnownTip, Larger
<1>6. KnownTip(v) \in Nat
  BY FieldTypes
<1>7. EffectiveRead(v) >= KnownTip(v) => u = 0
  <2> DEFINE eff == Larger(EffectiveRead(v), p.read)
             tip == Larger(Larger(p.max, p.last), v.last)
  <2>1. eff = EffectiveRead(v)
    BY <1>0 DEF Larger
  <2>2. tip > 0 /\ tip <= KnownTip(v)
    BY <1>0, <1>5, <1>6 DEF Larger
  <2>3. EffectiveRead(v) >= KnownTip(v) => eff > 0 /\ tip > 0 /\ eff >= tip
    BY <2>1, <2>2, <1>0, <1>6 DEF Larger
  <2> QED
    BY <2>3 DEF u, MergedUnread
<1> QED
  BY <1>3, <1>4, <1>5, <1>7 DEF Badge, r

(***************************************************************************)
(* The inductive invariant.                                                *)
(***************************************************************************)
\* The inbox row is what the index says.
ServerInv ==
    /\ inbox.row = (index # {})
    /\ inbox.max = Tip(index)
    /\ inbox.unread = UnreadIn(index, lastRead)
    /\ inbox.row => Newest(inbox.last, index)

\* Nobody reads what is not stored, and no mark is ahead of the user.
MarkInv ==
    /\ opened <= Tip(index) /\ lastRead <= opened
    /\ \A r \in reqs : r.id <= opened

Device(d) ==
    /\ dev[d].msgs \subseteq index /\ KnownTip(dev[d]) <= Tip(index)
    /\ EffectiveRead(dev[d]) <= opened
    /\ Badge(dev[d])

Transit(d) ==
    /\ talks[d] \subseteq index
    /\ \A s \in syncs[d] : s.read <= opened /\ s.max <= Tip(index)
    /\ page[d] # None =>
         page[d].read <= opened /\ page[d].max <= Tip(index) /\ page[d].last <= Tip(index)

IInv ==
    /\ TypeOK /\ ServerInv /\ MarkInv
    /\ \A d \in Devices : Device(d) /\ Transit(d)

LEMMA IndexTip ==
  ASSUME TypeOK
  PROVE  /\ Tip(index) \in 0 .. MaxId /\ Tip(index) \in Nat
         /\ \A m \in index : m \in Ids /\ m \in Nat /\ m <= Tip(index)
         /\ index # {} => Tip(index) \in index
         /\ opened \in Nat /\ lastRead \in Nat
<1>1. index \in SUBSET Ids /\ opened \in Nat /\ lastRead \in Nat
  BY DEF TypeOK
<1> QED
  BY <1>1, TipFacts DEF Ids

LEMMA EmptyRecord == EmptyDevice \in DeviceRecord /\ Badge(EmptyDevice)
                     /\ EffectiveRead(EmptyDevice) = 0 /\ KnownTip(EmptyDevice) = 0
<1>1. EmptyDevice \in DeviceRecord
  BY DEF EmptyDevice, DeviceRecord
<1>2. Tip(EmptyDevice.msgs) = 0
  BY DEF Tip, EmptyDevice
<1> QED
  BY <1>1, <1>2 DEF EmptyDevice, Badge, EffectiveRead, KnownTip, Larger

LEMMA InitInv == Init => IInv
<1> SUFFICES ASSUME Init PROVE IInv
  OBVIOUS
<1>1. TypeOK
  BY EmptyRecord DEF Init, TypeOK, InboxRecord
<1>2. Tip(index) = 0
  BY DEF Init, Tip
<1>3. UnreadIn(index, lastRead) = 0
  <2>1. {m \in index \ own : m > lastRead} = {}
    BY DEF Init
  <2> QED
    BY <2>1, FS_EmptySet DEF UnreadIn
<1>4. ServerInv
  BY <1>2, <1>3 DEF Init, ServerInv
<1>5. MarkInv
  BY <1>2 DEF Init, MarkInv
<1>6. \A d \in Devices : Device(d) /\ Transit(d)
  <2> SUFFICES ASSUME NEW d \in Devices PROVE Device(d) /\ Transit(d)
    OBVIOUS
  <2>1. dev[d] = EmptyDevice /\ talks[d] = {} /\ syncs[d] = {} /\ page[d] = None /\ opened = 0
    BY DEF Init
  <2>2. dev[d].msgs = {}
    BY <2>1 DEF EmptyDevice
  <2>3. Device(d)
    BY <2>1, <2>2, <1>2, EmptyRecord DEF Device
  <2> QED
    BY <2>1, <2>3 DEF Transit
<1> QED
  BY <1>1, <1>4, <1>5, <1>6 DEF IInv

(***************************************************************************)
(* Steps of the devices.                                                   *)
(***************************************************************************)
\* A device's tables become r; what is on its way to it gets less.
Updates(d, r) ==
    /\ dev' = [dev EXCEPT ![d] = r]
    /\ opened' = Larger(opened, EffectiveRead(r))
    /\ UNCHANGED <<serverVars, online, call, reqs>>
    /\ talks' \in [Devices -> SUBSET Ids] /\ syncs' \in [Devices -> SUBSET StateRecord]
    /\ page' \in [Devices -> {None} \cup EntryRecord]
    /\ \A e \in Devices :
         talks'[e] \subseteq talks[e] /\ syncs'[e] \subseteq syncs[e] /\ page'[e] \in {page[e], None}

LEMMA UpdateStep ==
  ASSUME IInv, NEW d \in Devices, NEW r \in DeviceRecord, Updates(d, r),
         Badge(r), r.msgs \subseteq index, KnownTip(r) <= Tip(index),
         EffectiveRead(r) <= Larger(opened, Tip(index))
  PROVE  IInv'
<1>0. /\ Tip(index) \in Nat /\ opened \in Nat /\ Tip(index) <= MaxId
      /\ opened <= Tip(index) /\ lastRead <= opened /\ lastRead \in Nat
      /\ EffectiveRead(r) \in Nat
  BY IndexTip, FieldTypes DEF IInv, MarkInv
<1>1. opened' \in Nat /\ opened <= opened' /\ opened' <= Tip(index) /\ EffectiveRead(r) <= opened'
  BY <1>0 DEF Updates, Larger
<1>u. index' = index /\ own' = own /\ lastRead' = lastRead /\ inbox' = inbox
      /\ online' = online /\ call' = call /\ reqs' = reqs
  BY DEF Updates, serverVars
<1>2. TypeOK'
  <2>1. dev' \in [Devices -> DeviceRecord]
    BY DEF Updates, IInv, TypeOK
  <2>2. opened' \in 0 .. MaxId
    BY <1>0, <1>1
  <2> QED
    BY <2>1, <2>2, <1>u DEF IInv, TypeOK, Updates
<1>3. ServerInv'
  BY <1>u DEF IInv, ServerInv, UnreadIn, Newest
<1>4. MarkInv'
  <2>1. \A q \in reqs : q.id \in Nat
    BY DEF IInv, TypeOK, Ids
  <2> QED
    BY <2>1, <1>0, <1>1, <1>u DEF IInv, MarkInv
<1>5. ASSUME NEW e \in Devices
      PROVE  Device(e)' /\ Transit(e)'
  <2>1. Device(e)'
    <3>1. CASE e = d
      <4>1. dev'[e] = r
        BY <3>1 DEF Updates, IInv, TypeOK
      <4> QED
        BY <4>1, <1>1, <1>u DEF Device, Badge, EffectiveRead, KnownTip
    <3>2. CASE e # d
      <4>1. dev'[e] = dev[e] /\ dev[e] \in DeviceRecord
        BY <3>2 DEF Updates, IInv, TypeOK
      <4>2. EffectiveRead(dev[e]) \in Nat /\ EffectiveRead(dev[e]) <= opened
        BY <4>1, FieldTypes DEF IInv, Device
      <4>3. EffectiveRead(dev[e]) <= opened'
        BY <4>2, <1>0, <1>1
      <4> QED
        BY <4>1, <4>3, <1>u DEF IInv, Device, Badge, EffectiveRead, KnownTip
    <3> QED
      BY <3>1, <3>2
  <2>2. Transit(e)'
    <3>1. Transit(e)
      BY DEF IInv
    <3>2. \A s \in syncs[e] : s.read \in Nat
      BY DEF IInv, TypeOK, StateRecord
    <3>3. page[e] # None => page[e].read \in Nat
      BY DEF IInv, TypeOK, EntryRecord
    <3>4. /\ talks'[e] \subseteq talks[e] /\ syncs'[e] \subseteq syncs[e]
          /\ page'[e] \in {page[e], None}
      BY DEF Updates
    <3>5. \A n \in Nat : n <= opened => n <= opened'
      BY <1>0, <1>1
    <3> QED
      BY <3>1, <3>2, <3>3, <3>4, <3>5, <1>u DEF Transit
  <2> QED
    BY <2>1, <2>2
<1> QED
  BY <1>2, <1>3, <1>4, <1>5 DEF IInv

\* The device's mark rises: the user opens messages there, or it learns of
\* a mark made elsewhere.
LEMMA UpdateMarks ==
  ASSUME IInv, NEW d \in Devices, NEW r \in DeviceRecord, Updates(d, r),
         EffectiveRead(dev[d]) <= EffectiveRead(r)
  PROVE  Marks!Next
<1> DEFINE mark == [p \in Devices \cup {Server} |->
                      IF p = Server THEN lastRead ELSE EffectiveRead(dev[p])]
           markP == [p \in Devices \cup {Server} |->
                      IF p = Server THEN lastRead' ELSE EffectiveRead(dev'[p])]
<1>1. d # Server /\ dev \in [Devices -> DeviceRecord] /\ opened \in Nat
  BY IndexTip DEF IInv, TypeOK
<1>2. EffectiveRead(r) \in Nat /\ EffectiveRead(dev[d]) \in Nat
  BY <1>1, FieldTypes
<1>3. markP = [mark EXCEPT ![d] = EffectiveRead(r)]
  <2>1. \A p \in Devices : dev'[p] = IF p = d THEN r ELSE dev[p]
    BY <1>1 DEF Updates
  <2>2. lastRead' = lastRead
    BY DEF Updates, serverVars
  <2> QED
    BY <1>1, <2>1, <2>2
<1>4. mark[d] = EffectiveRead(dev[d]) /\ markP[d] = EffectiveRead(r)
  BY <1>1, <1>3
<1>5. CASE EffectiveRead(r) <= opened
  <2>1. opened' = opened
    BY <1>1, <1>2, <1>5 DEF Updates, Larger
  <2>2. EffectiveRead(r) \in mark[d] .. opened
    BY <1>1, <1>2, <1>4, <1>5
  <2>3. \E n \in mark[d] .. opened : markP = [mark EXCEPT ![d] = n]
    BY <2>2, <1>3
  <2>4. Marks!Learn(d)
    BY <2>1, <2>3 DEF Marks!Learn, EffectiveRead
  <2> QED
    BY <2>4 DEF Marks!Next
<1>6. CASE ~(EffectiveRead(r) <= opened)
  <2>1. opened' = IF markP[d] > opened THEN markP[d] ELSE opened
    BY <1>1, <1>2, <1>4, <1>6 DEF Updates, Larger
  <2>2. markP[d] >= mark[d]
    BY <1>2, <1>4
  <2>3. markP = [mark EXCEPT ![d] = markP[d]]
    BY <1>3, <1>4
  <2>4. Marks!Open(d)
    BY <2>1, <2>2, <2>3, <1>1 DEF Marks!Open, EffectiveRead
  <2> QED
    BY <2>4 DEF Marks!Next
<1> QED
  BY <1>5, <1>6

\* What a step of a device needs of the state it is taken in.
LEMMA DeviceFacts ==
  ASSUME IInv, NEW d \in Devices
  PROVE  /\ dev[d] \in DeviceRecord /\ Badge(dev[d]) /\ dev[d].msgs \subseteq index
         /\ EffectiveRead(dev[d]) \in Nat /\ EffectiveRead(dev[d]) <= opened
         /\ KnownTip(dev[d]) \in Nat /\ KnownTip(dev[d]) <= Tip(index)
         /\ opened \in Nat /\ Tip(index) \in Nat /\ opened <= Tip(index)
         /\ Larger(opened, Tip(index)) = Tip(index)
         /\ \A m \in index : m \in Ids /\ m \in Nat /\ m <= Tip(index)
<1>1. dev[d] \in DeviceRecord
  BY DEF IInv, TypeOK
<1>2. /\ Badge(dev[d]) /\ dev[d].msgs \subseteq index
      /\ EffectiveRead(dev[d]) <= opened /\ KnownTip(dev[d]) <= Tip(index)
  BY DEF IInv, Device
<1>3. EffectiveRead(dev[d]) \in Nat /\ KnownTip(dev[d]) \in Nat
  BY <1>1, FieldTypes
<1>4. /\ opened \in Nat /\ Tip(index) \in Nat /\ opened <= Tip(index)
      /\ \A m \in index : m \in Ids /\ m \in Nat /\ m <= Tip(index)
  BY IndexTip DEF IInv, MarkInv
<1>5. Larger(opened, Tip(index)) = Tip(index)
  BY <1>4 DEF Larger
<1> QED
  BY <1>1, <1>2, <1>3, <1>4, <1>5

\* What is on its way to the devices stays as it is, or gets less.
Fewer ==
    /\ talks' \in [Devices -> SUBSET Ids] /\ syncs' \in [Devices -> SUBSET StateRecord]
    /\ page' \in [Devices -> {None} \cup EntryRecord]
    /\ \A e \in Devices :
         talks'[e] \subseteq talks[e] /\ syncs'[e] \subseteq syncs[e] /\ page'[e] \in {page[e], None}

LEMMA FewerFacts ==
  ASSUME TypeOK, NEW d \in Devices
  PROVE  /\ UNCHANGED <<talks, syncs, page>> => Fewer
         /\ \A m : talks' = [talks EXCEPT ![d] = @ \ {m}] /\ UNCHANGED <<syncs, page>> => Fewer
         /\ \A s : syncs' = [syncs EXCEPT ![d] = @ \ {s}] /\ UNCHANGED <<talks, page>> => Fewer
         /\ page' = [page EXCEPT ![d] = None] /\ UNCHANGED <<talks, syncs>> => Fewer
<1>1. /\ talks \in [Devices -> SUBSET Ids] /\ syncs \in [Devices -> SUBSET StateRecord]
      /\ page \in [Devices -> {None} \cup EntryRecord]
  BY DEF TypeOK
<1>2. UNCHANGED <<talks, syncs, page>> => Fewer
  BY <1>1 DEF Fewer
<1>3. ASSUME NEW m, talks' = [talks EXCEPT ![d] = @ \ {m}], UNCHANGED <<syncs, page>>
      PROVE  Fewer
  BY <1>1, <1>3 DEF Fewer
<1>4. ASSUME NEW s, syncs' = [syncs EXCEPT ![d] = @ \ {s}], UNCHANGED <<talks, page>>
      PROVE  Fewer
  BY <1>1, <1>4 DEF Fewer
<1>5. ASSUME page' = [page EXCEPT ![d] = None], UNCHANGED <<talks, syncs>>
      PROVE  Fewer
  <2>1. page' \in [Devices -> {None} \cup EntryRecord]
    BY <1>1, <1>5
  <2>2. \A e \in Devices : page'[e] \in {page[e], None}
    BY <1>1, <1>5
  <2> QED
    BY <1>1, <1>5, <2>1, <2>2 DEF Fewer
<1> QED
  BY <1>2, <1>3, <1>4, <1>5

\* The device's tables become r, and the user's furthest id is kept up.
LEMMA Updated ==
  ASSUME IInv, NEW d \in Devices, NEW r \in DeviceRecord, Fewer,
         dev' = [dev EXCEPT ![d] = r],
         opened' = opened \/ opened' = Larger(opened, EffectiveRead(r)),
         opened' = opened => EffectiveRead(r) <= opened,
         UNCHANGED <<serverVars, online, call, reqs>>,
         Badge(r), r.msgs \subseteq index, KnownTip(r) <= Tip(index),
         EffectiveRead(r) <= Tip(index), EffectiveRead(dev[d]) <= EffectiveRead(r)
  PROVE  IInv' /\ Marks!Next
<1>1. EffectiveRead(r) \in Nat /\ opened \in Nat /\ Larger(opened, Tip(index)) = Tip(index)
  BY FieldTypes, DeviceFacts
<1>2. opened' = Larger(opened, EffectiveRead(r))
  BY <1>1 DEF Larger
<1>3. Updates(d, r)
  BY <1>2 DEF Updates, Fewer
<1>4. EffectiveRead(r) <= Larger(opened, Tip(index))
  BY <1>1
<1>5. IInv'
  BY <1>3, <1>4, UpdateStep
<1>6. Marks!Next
  BY <1>3, UpdateMarks
<1> QED
  BY <1>5, <1>6

LEMMA PersistTalkStep ==
  ASSUME IInv, NEW d \in Devices, NEW m \in index, NEW alive \in BOOLEAN, Fewer,
         dev' = [dev EXCEPT ![d] = PersistTalk(@, m, alive)],
         IF dev[d].fg THEN Note(d) ELSE UNCHANGED opened,
         UNCHANGED <<serverVars, online, call, reqs>>
  PROVE  IInv' /\ Marks!Next
<1> DEFINE v == dev[d]
           r == PersistTalk(v, m, alive)
<1>1. /\ v \in DeviceRecord /\ Badge(v) /\ v.msgs \subseteq index
      /\ EffectiveRead(v) \in Nat /\ EffectiveRead(v) <= opened
      /\ KnownTip(v) \in Nat /\ KnownTip(v) <= Tip(index)
      /\ opened \in Nat /\ Tip(index) \in Nat /\ opened <= Tip(index)
      /\ m \in Ids /\ m \in Nat /\ m <= Tip(index)
  BY DeviceFacts
<1>2. /\ r \in DeviceRecord /\ Badge(r) /\ r.msgs = v.msgs \cup {m}
      /\ EffectiveRead(r) = IF v.fg THEN Larger(EffectiveRead(v), m) ELSE EffectiveRead(v)
      /\ KnownTip(r) = Larger(KnownTip(v), m)
  BY <1>1, PersistTalkFacts
<1>3. dev' = [dev EXCEPT ![d] = r] /\ dev'[d] = r
  BY DEF IInv, TypeOK
<1>4. v.fg \in BOOLEAN
  BY <1>1, FieldTypes
<1> HIDE DEF r, v
<1>5. opened' = opened \/ opened' = Larger(opened, EffectiveRead(r))
  BY <1>3 DEF Note, v
<1>6. /\ KnownTip(r) <= Tip(index) /\ EffectiveRead(r) <= Tip(index)
      /\ EffectiveRead(v) <= EffectiveRead(r)
  BY <1>1, <1>2 DEF Larger
<1>7. opened' = opened => EffectiveRead(r) <= opened
  <2>1. CASE v.fg
    <3>1. opened' = Larger(opened, EffectiveRead(r)) /\ EffectiveRead(r) \in Nat
      BY <2>1, <1>2, <1>3, FieldTypes DEF Note, v
    <3> QED
      BY <3>1, <1>1 DEF Larger
  <2>2. CASE ~v.fg
    BY <2>2, <1>1, <1>2
  <2> QED
    BY <2>1, <2>2
<1>8. r.msgs \subseteq index
  BY <1>1, <1>2
<1> QED
  BY <1>2, <1>3, <1>5, <1>6, <1>7, <1>8, Updated DEF v

LEMMA PersistPushStep ==
  ASSUME IInv, NEW d \in Devices, PersistPush(d)
  PROVE  IInv' /\ Marks!Next
<1>1. PICK m \in talks[d] : /\ dev' = [dev EXCEPT ![d] = PersistTalk(@, m, TRUE)]
                            /\ talks' = [talks EXCEPT ![d] = @ \ {m}]
  BY DEF PersistPush
<1>2. m \in index
  BY DEF IInv, Transit
<1>3. Fewer
  BY <1>1, FewerFacts DEF IInv, PersistPush
<1> QED
  BY <1>1, <1>2, <1>3, PersistTalkStep DEF PersistPush

LEMMA PersistSyncedStep ==
  ASSUME IInv, NEW d \in Devices, PersistSynced(d)
  PROVE  IInv' /\ Marks!Next
<1>1. PICK m \in index \ dev[d].msgs : dev' = [dev EXCEPT ![d] = PersistTalk(@, m, FALSE)]
  BY DEF PersistSynced
<1>2. Fewer /\ UNCHANGED reqs
  BY FewerFacts DEF IInv, PersistSynced, netVars
<1> QED
  BY <1>1, <1>2, PersistTalkStep DEF PersistSynced

\* Nothing of the user's is opened by what comes from the server.
LEMMA AppliedState ==
  ASSUME IInv, NEW d \in Devices, NEW s \in StateRecord,
         s.read <= opened, s.max <= Tip(index)
  PROVE  LET r == ApplyServerState(dev[d], s)
         IN  /\ r \in DeviceRecord /\ Badge(r) /\ r.msgs \subseteq index
             /\ KnownTip(r) <= Tip(index) /\ EffectiveRead(r) <= opened
             /\ EffectiveRead(dev[d]) <= EffectiveRead(r)
             /\ EffectiveRead(r) >= s.read /\ r.known >= s.max
             /\ EffectiveRead(r) <= Tip(index)
<1> DEFINE v == dev[d]
           r == ApplyServerState(v, s)
<1>1. /\ v \in DeviceRecord /\ Badge(v) /\ v.msgs \subseteq index
      /\ EffectiveRead(v) \in Nat /\ EffectiveRead(v) <= opened
      /\ KnownTip(v) \in Nat /\ KnownTip(v) <= Tip(index)
      /\ opened \in Nat /\ Tip(index) \in Nat /\ opened <= Tip(index)
  BY DeviceFacts
<1>2. s.read \in Nat /\ s.max \in Nat
  BY DEF StateRecord
<1>3. ~v.thread => v.unread = 0
  BY <1>1 DEF Badge
<1>4. /\ r \in DeviceRecord /\ Badge(r) /\ r.msgs = v.msgs
      /\ r.known >= s.max
      /\ EffectiveRead(r) = Larger(EffectiveRead(v), s.read) /\ EffectiveRead(r) >= s.read
      /\ KnownTip(r) = Larger(KnownTip(v), Larger(s.max, s.read))
  BY <1>1, <1>3, ApplyFacts
<1> HIDE DEF r, v
<1>5. /\ KnownTip(r) <= Tip(index) /\ EffectiveRead(r) <= opened
      /\ EffectiveRead(v) <= EffectiveRead(r) /\ EffectiveRead(r) <= Tip(index)
  BY <1>1, <1>2, <1>4 DEF Larger
<1> QED
  BY <1>1, <1>4, <1>5 DEF r, v

LEMMA ApplyRemoteReadStep ==
  ASSUME IInv, NEW d \in Devices, ApplyRemoteRead(d)
  PROVE  IInv' /\ Marks!Next
<1>1. PICK s \in syncs[d] : /\ dev' = [dev EXCEPT ![d] = ApplyServerState(@, s)]
                            /\ syncs' = [syncs EXCEPT ![d] = @ \ {s}]
  BY DEF ApplyRemoteRead
<1>2. s \in StateRecord /\ s.read <= opened /\ s.max <= Tip(index)
  BY DEF IInv, TypeOK, Transit
<1>3. Fewer
  BY <1>1, FewerFacts DEF IInv, ApplyRemoteRead
<1> DEFINE r == ApplyServerState(dev[d], s)
<1>4. /\ r \in DeviceRecord /\ Badge(r) /\ r.msgs \subseteq index
      /\ KnownTip(r) <= Tip(index) /\ EffectiveRead(r) <= opened
      /\ EffectiveRead(dev[d]) <= EffectiveRead(r) /\ EffectiveRead(r) <= Tip(index)
  BY <1>2, AppliedState
<1>5. dev' = [dev EXCEPT ![d] = r]
  BY <1>1
<1> HIDE DEF r
<1>6. opened' = opened /\ UNCHANGED <<serverVars, online, call, reqs>>
  BY DEF ApplyRemoteRead
<1> QED
  BY <1>3, <1>4, <1>5, <1>6, Updated

LEMMA PersistInboxStep ==
  ASSUME IInv, NEW d \in Devices, PersistInbox(d)
  PROVE  IInv' /\ Marks!Next
<1> DEFINE p == page[d]
           s == [read |-> p.read, max |-> Larger(p.max, p.last)]
           w == ApplyServerState(dev[d], s)
           r == PersistInboxItem(w, p)
<1>1. p # None /\ dev' = [dev EXCEPT ![d] = r]
  BY DEF PersistInbox
<1>2. p \in EntryRecord
  BY <1>1 DEF IInv, TypeOK
<1>3. /\ p.read \in 0 .. MaxId /\ p.max \in 0 .. MaxId /\ p.last \in 0 .. MaxId
      /\ p.read <= opened /\ p.max <= Tip(index) /\ p.last <= Tip(index)
  BY <1>1, <1>2 DEF IInv, Transit, EntryRecord, Ids
<1>4. s \in StateRecord /\ s.read = p.read /\ s.max = Larger(p.max, p.last)
  BY <1>3, LargerBounded DEF StateRecord
<1> HIDE DEF s
<1>5. s.read <= opened /\ s.max <= Tip(index)
  BY <1>3, <1>4 DEF Larger
<1>6. /\ w \in DeviceRecord /\ Badge(w) /\ w.msgs \subseteq index
      /\ KnownTip(w) <= Tip(index) /\ EffectiveRead(w) <= opened
      /\ EffectiveRead(dev[d]) <= EffectiveRead(w)
      /\ EffectiveRead(w) >= s.read /\ w.known >= s.max /\ EffectiveRead(w) <= Tip(index)
  BY <1>4, <1>5, AppliedState
<1> HIDE DEF w, p
<1>7. /\ r \in DeviceRecord /\ Badge(r) /\ r.msgs = w.msgs
      /\ EffectiveRead(r) = EffectiveRead(w) /\ KnownTip(r) = KnownTip(w)
  BY <1>2, <1>4, <1>6, InboxItemFacts
<1> HIDE DEF r
<1>8. Fewer
  BY FewerFacts DEF IInv, PersistInbox
<1>9. opened' = opened /\ UNCHANGED <<serverVars, online, call, reqs>>
  BY DEF PersistInbox
<1> QED
  BY <1>1, <1>6, <1>7, <1>8, <1>9, Updated

LEMMA MarkReadStep ==
  ASSUME IInv, NEW d \in Devices, MarkRead(d)
  PROVE  IInv' /\ Marks!Next
<1> DEFINE v == dev[d]
<1>1. PICK m \in v.msgs : dev' = [dev EXCEPT ![d] = Advance(@, m)]
  BY DEF MarkRead
<1> DEFINE r == Advance(v, m)
<1>2. /\ v \in DeviceRecord /\ Badge(v) /\ v.msgs \subseteq index
      /\ EffectiveRead(v) \in Nat /\ EffectiveRead(v) <= opened
      /\ KnownTip(v) \in Nat /\ KnownTip(v) <= Tip(index)
      /\ opened \in Nat /\ Tip(index) \in Nat /\ opened <= Tip(index)
      /\ m \in Ids /\ m \in Nat /\ m <= Tip(index)
  BY DeviceFacts
<1>3. m \in 0 .. MaxId
  BY <1>2 DEF Ids
<1>4. /\ r \in DeviceRecord /\ Badge(r) /\ r.msgs = v.msgs
      /\ EffectiveRead(r) = Larger(EffectiveRead(v), m)
      /\ KnownTip(r) = Larger(KnownTip(v), m)
  BY <1>2, <1>3, AdvanceFacts
<1>5. dev' = [dev EXCEPT ![d] = r] /\ dev'[d] = r
  BY <1>1 DEF IInv, TypeOK
<1> HIDE DEF r, v
<1>6. opened' = Larger(opened, EffectiveRead(r))
  BY <1>5 DEF MarkRead, Note
<1>7. /\ KnownTip(r) <= Tip(index) /\ EffectiveRead(r) <= Tip(index)
      /\ EffectiveRead(v) <= EffectiveRead(r) /\ EffectiveRead(r) \in Nat
  BY <1>2, <1>4 DEF Larger
<1>8. opened' = opened => EffectiveRead(r) <= opened
  BY <1>2, <1>6, <1>7 DEF Larger
<1>9. Fewer /\ UNCHANGED <<serverVars, online, call, reqs>>
  BY FewerFacts DEF IInv, MarkRead, netVars
<1> QED
  BY <1>2, <1>4, <1>5, <1>6, <1>7, <1>8, <1>9, Updated DEF v

LEMMA SetVisibilityStep ==
  ASSUME IInv, NEW d \in Devices, SetVisibility(d)
  PROVE  IInv' /\ Marks!Next
<1>1. PICK fg \in BOOLEAN :
        dev' = [dev EXCEPT ![d] = IF fg THEN MarkThreadRead([dev[d] EXCEPT !.fg = fg])
                                        ELSE [dev[d] EXCEPT !.fg = fg]]
  BY DEF SetVisibility
<1> DEFINE v == [dev[d] EXCEPT !.fg = fg]
           r == IF fg THEN MarkThreadRead(v) ELSE v
<1>2. /\ dev[d] \in DeviceRecord /\ Badge(dev[d]) /\ dev[d].msgs \subseteq index
      /\ EffectiveRead(dev[d]) \in Nat /\ EffectiveRead(dev[d]) <= opened
      /\ KnownTip(dev[d]) \in Nat /\ KnownTip(dev[d]) <= Tip(index)
      /\ opened \in Nat /\ Tip(index) \in Nat /\ opened <= Tip(index)
  BY DeviceFacts
<1>3. /\ v \in DeviceRecord /\ v.msgs = dev[d].msgs /\ v.thread = dev[d].thread
      /\ v.unread = dev[d].unread /\ v.read = dev[d].read /\ v.srv = dev[d].srv
      /\ v.known = dev[d].known /\ v.last = dev[d].last /\ v.fg = fg
  BY <1>2 DEF DeviceRecord
<1>4. dev' = [dev EXCEPT ![d] = r] /\ dev'[d] = r
  BY <1>1 DEF IInv, TypeOK
<1> HIDE DEF v
<1>5. EffectiveRead(v) = EffectiveRead(dev[d]) /\ KnownTip(v) = KnownTip(dev[d]) /\ Badge(v)
  BY <1>2, <1>3 DEF EffectiveRead, KnownTip, Badge
<1>6. fg => /\ r \in DeviceRecord /\ Badge(r) /\ r.msgs = v.msgs /\ r.fg = TRUE
            /\ EffectiveRead(r) = Larger(EffectiveRead(v), KnownTip(v))
            /\ KnownTip(r) = KnownTip(v)
  BY <1>3, <1>5, MarkThreadReadFacts
<1>7. ~fg => r = v
  OBVIOUS
<1> HIDE DEF r
<1>8. /\ r \in DeviceRecord /\ Badge(r) /\ r.msgs \subseteq index /\ KnownTip(r) <= Tip(index)
      /\ EffectiveRead(r) <= Tip(index) /\ EffectiveRead(dev[d]) <= EffectiveRead(r)
  <2>1. CASE fg
    BY <2>1, <1>2, <1>3, <1>5, <1>6 DEF Larger
  <2>2. CASE ~fg
    BY <2>2, <1>2, <1>3, <1>5, <1>7
  <2> QED
    BY <2>1, <2>2
<1>9. /\ opened' = opened \/ opened' = Larger(opened, EffectiveRead(r))
      /\ opened' = opened => EffectiveRead(r) <= opened
  <2>1. EffectiveRead(r) \in Nat
    BY <1>8, FieldTypes
  <2>2. CASE fg
    <3>1. opened' = Larger(opened, EffectiveRead(r))
      BY <2>2, <1>4, <1>6 DEF SetVisibility, Note
    <3> QED
      BY <3>1, <2>1, <1>2 DEF Larger
  <2>3. CASE ~fg
    <3>1. opened' = opened
      BY <2>3, <1>3, <1>4, <1>7 DEF SetVisibility
    <3> QED
      BY <3>1, <2>3, <1>2, <1>5, <1>7
  <2> QED
    BY <2>2, <2>3
<1>10. Fewer /\ UNCHANGED <<serverVars, online, call, reqs>>
  BY FewerFacts DEF IInv, SetVisibility, netVars
<1> QED
  BY <1>4, <1>8, <1>9, <1>10, Updated

LEMMA DeleteThreadStep ==
  ASSUME IInv, NEW d \in Devices, DeleteThread(d)
  PROVE  IInv' /\ Marks!Next
<1> DEFINE v == dev[d]
           r == DropThread(v)
<1>1. /\ v \in DeviceRecord /\ Badge(v)
      /\ EffectiveRead(v) \in Nat /\ EffectiveRead(v) <= opened
      /\ KnownTip(v) \in Nat /\ KnownTip(v) <= Tip(index)
      /\ opened \in Nat /\ Tip(index) \in Nat /\ opened <= Tip(index)
      /\ v.last \in Nat /\ v.known \in Nat /\ Tip(v.msgs) \in Nat
  BY DeviceFacts, FieldTypes
<1>2. /\ r \in DeviceRecord /\ r.msgs = {} /\ r.thread = FALSE /\ r.unread = 0 /\ r.last = 0
      /\ r.read = v.read /\ r.srv = v.srv /\ r.known = v.known
  <2>1. r = [v EXCEPT !.thread = FALSE, !.unread = 0, !.last = 0, !.msgs = {}]
    BY DEF DropThread
  <2>2. 0 \in 0 .. MaxId /\ 0 \in Nat /\ {} \in SUBSET Ids
    OBVIOUS
  <2> HIDE DEF r, v
  <2> QED
    BY <2>1, <2>2, <1>1 DEF DeviceRecord
<1>3. dev' = [dev EXCEPT ![d] = r]
  BY DEF DeleteThread
<1> HIDE DEF r, v
<1>4. Badge(r) /\ EffectiveRead(r) = EffectiveRead(v) /\ r.msgs \subseteq index
  BY <1>2 DEF Badge, EffectiveRead
<1>5. KnownTip(r) <= KnownTip(v) /\ KnownTip(r) \in Nat
  <2>1. Tip(r.msgs) = 0
    BY <1>2 DEF Tip
  <2> QED
    BY <2>1, <1>1, <1>2 DEF KnownTip, Larger
<1>6. KnownTip(r) <= Tip(index) /\ EffectiveRead(r) <= Tip(index)
      /\ EffectiveRead(r) <= opened /\ EffectiveRead(v) <= EffectiveRead(r)
  BY <1>1, <1>4, <1>5
<1>7. Fewer /\ opened' = opened /\ UNCHANGED <<serverVars, online, call, reqs>>
  BY FewerFacts DEF IInv, DeleteThread, netVars
<1> QED
  BY <1>2, <1>3, <1>4, <1>6, <1>7, Updated DEF v

(***************************************************************************)
(* Steps of the server and of the network.                                 *)
(***************************************************************************)
\* The user's furthest id and the server's mark, in one state.
LEMMA ServerFacts ==
  ASSUME IInv
  PROVE  /\ opened \in Nat /\ lastRead \in Nat /\ Tip(index) \in Nat /\ Tip(index) \in 0 .. MaxId
         /\ lastRead <= opened /\ opened <= Tip(index)
         /\ inbox.row \in BOOLEAN /\ inbox.unread \in Nat /\ inbox.max = Tip(index)
         /\ inbox.row <=> index # {}
         /\ inbox.unread = UnreadIn(index, lastRead)
         /\ inbox.last \in 0 .. MaxId /\ (inbox.row => Newest(inbox.last, index))
<1>1. inbox.row \in BOOLEAN /\ inbox.unread \in Nat /\ inbox.last \in 0 .. MaxId
  BY DEF IInv, TypeOK, InboxRecord
<1> QED
  BY <1>1, IndexTip DEF IInv, MarkInv, ServerInv

\* The ids that count as unread are finitely many.
LEMMA UnreadFinite ==
  ASSUME NEW S \in SUBSET Ids, NEW n \in Nat
  PROVE  /\ IsFiniteSet({m \in S : m > n})
         /\ Cardinality({m \in S : m > n}) \in Nat
<1>1. IsFiniteSet(Ids)
  BY FS_Interval DEF Ids
<1>2. {m \in S : m > n} \subseteq Ids
  OBVIOUS
<1>3. IsFiniteSet({m \in S : m > n})
  BY <1>1, <1>2, FS_Subset
<1> QED
  BY <1>3, FS_CardinalityType

\* Only requests, calls, links and what is on its way change.
LEMMA NetworkStep ==
  ASSUME IInv, UNCHANGED <<serverVars, dev, opened>>, TypeOK',
         \A q \in reqs' : q.id <= opened,
         \A d \in Devices : Transit(d)'
  PROVE  IInv' /\ UNCHANGED Marks!vars
<1>1. index' = index /\ own' = own /\ lastRead' = lastRead /\ inbox' = inbox
      /\ dev' = dev /\ opened' = opened
  BY DEF serverVars
<1>2. ServerInv'
  BY <1>1 DEF IInv, ServerInv, UnreadIn, Newest
<1>3. MarkInv'
  BY <1>1 DEF IInv, MarkInv
<1>4. \A d \in Devices : Device(d)'
  BY <1>1 DEF IInv, Device, Badge, EffectiveRead, KnownTip
<1>5. UNCHANGED Marks!vars
  BY <1>1 DEF Marks!vars, EffectiveRead
<1> QED
  BY <1>2, <1>3, <1>4, <1>5 DEF IInv

LEMMA DoInboxReadFailsStep ==
  ASSUME IInv, NEW r \in reqs, DoInboxReadFails(r)
  PROVE  IInv' /\ UNCHANGED Marks!vars
<1>1. /\ reqs' \subseteq reqs
      /\ UNCHANGED <<index, own, lastRead, inbox, dev, online, talks, syncs, page, opened>>
  BY DEF DoInboxReadFails, serverVars
<1>2. TypeOK'
  <2>1. r.dev \in Devices /\ r.id \in Ids
    BY DEF IInv, TypeOK
  <2>2. call' \in [Devices -> 0 .. MaxId]
    BY <2>1 DEF DoInboxReadFails, IInv, TypeOK
  <2> QED
    BY <1>1, <2>2 DEF IInv, TypeOK
<1>3. \A q \in reqs' : q.id <= opened
  BY <1>1 DEF IInv, MarkInv
<1>4. \A d \in Devices : Transit(d)'
  BY <1>1 DEF IInv, Transit
<1> QED
  BY <1>1, <1>2, <1>3, <1>4, NetworkStep DEF serverVars

LEMMA DoInboxListStep ==
  ASSUME IInv, NEW d \in Devices, DoInboxList(d)
  PROVE  IInv' /\ UNCHANGED Marks!vars
<1>1. /\ UNCHANGED <<index, own, lastRead, inbox, dev, online, call, reqs, talks, syncs, opened>>
      /\ index # {}
  BY DEF DoInboxList, serverVars
<1> PICK e \in {InboxEntry, InboxMaterialized} : page' = [page EXCEPT ![d] = e]
  BY DEF DoInboxList
<1>2. /\ Tip(index) \in Ids /\ Tip(index) \in Nat /\ Tip(index) \in 0 .. MaxId
      /\ Larger(inbox.max, Tip(index)) = Tip(index)
      /\ lastRead \in 0 .. MaxId /\ lastRead <= opened /\ UnreadIn(index, lastRead) \in Nat
  <2>1. Tip(index) \in Ids
    BY <1>1, IndexTip DEF IInv
  <2> QED
    BY <2>1, ServerFacts DEF Larger, IInv, TypeOK
<1>3. e \in EntryRecord /\ e.read <= opened /\ e.max = Tip(index) /\ e.last <= Tip(index)
  <2>1. /\ inbox.row /\ inbox.last \in index /\ inbox.last \in Ids
        /\ inbox.max = Tip(index) /\ inbox.unread \in Nat
    BY <1>1, ServerFacts DEF Newest, IInv, TypeOK
  <2>2. inbox.last <= Tip(index)
    BY <2>1, IndexTip DEF IInv
  <2>3. CASE e = InboxEntry
    BY <2>3, <1>2 DEF InboxEntry, EntryRecord
  <2>4. CASE e = InboxMaterialized
    BY <2>4, <2>1, <2>2, <1>2 DEF InboxMaterialized, EntryRecord
  <2> QED
    BY <2>3, <2>4
<1>4. TypeOK'
  <2>1. page' \in [Devices -> {None} \cup EntryRecord]
    BY <1>1, <1>3 DEF IInv, TypeOK
  <2> QED
    BY <1>1, <2>1 DEF IInv, TypeOK
<1>5. ASSUME NEW f \in Devices
      PROVE  Transit(f)'
  <2>1. page'[f] = page[f] \/ page'[f] = e
    BY <1>1 DEF IInv, TypeOK
  <2>2. Transit(f)
    BY DEF IInv
  <2> QED
    BY <1>1, <1>2, <1>3, <2>1, <2>2 DEF Transit
<1>6. \A q \in reqs' : q.id <= opened
  BY <1>1 DEF IInv, MarkInv
<1> QED
  BY <1>1, <1>4, <1>5, <1>6, NetworkStep DEF serverVars

LEMMA PumpOnceStep ==
  ASSUME IInv, NEW d \in Devices, PumpOnce(d)
  PROVE  IInv' /\ UNCHANGED Marks!vars
<1>1. /\ UNCHANGED <<index, own, lastRead, inbox, dev, online, talks, syncs, page, opened>>
      /\ call' = [call EXCEPT ![d] = dev[d].read]
      /\ reqs' = reqs \cup {[dev |-> d, id |-> dev[d].read]} /\ dev[d].read > 0
  BY DEF PumpOnce, serverVars, DueRead
<1>2. /\ dev[d].read \in 0 .. MaxId /\ dev[d].srv \in 0 .. MaxId /\ opened \in Nat
      /\ EffectiveRead(dev[d]) <= opened
  BY DeviceFacts, FieldTypes
<1>3. dev[d].read \in Ids /\ dev[d].read <= opened
  BY <1>1, <1>2 DEF Ids, EffectiveRead, Larger
<1>4. TypeOK'
  <2>1. call' \in [Devices -> 0 .. MaxId]
    BY <1>1, <1>2 DEF IInv, TypeOK
  <2>2. reqs' \subseteq [dev : Devices, id : Ids]
    BY <1>1, <1>3 DEF IInv, TypeOK
  <2> QED
    BY <1>1, <2>1, <2>2 DEF IInv, TypeOK
<1>5. \A q \in reqs' : q.id <= opened
  BY <1>1, <1>3 DEF IInv, MarkInv
<1>6. \A e \in Devices : Transit(e)'
  BY <1>1 DEF IInv, Transit
<1> QED
  BY <1>1, <1>4, <1>5, <1>6, NetworkStep DEF serverVars

LEMMA LinkStep ==
  ASSUME IInv, NEW d \in Devices, LinkUp(d) \/ LinkDown(d)
  PROVE  IInv' /\ UNCHANGED Marks!vars
<1>1. UNCHANGED <<index, own, lastRead, inbox, dev, opened>>
  BY DEF LinkUp, LinkDown, serverVars
<1>2. online' \subseteq Devices /\ reqs' \subseteq reqs
  BY DEF LinkUp, LinkDown, netVars, IInv, TypeOK
<1>3. call' \in [Devices -> 0 .. MaxId]
  BY DEF LinkUp, LinkDown, netVars, IInv, TypeOK
<1>4. Fewer
  <2>1. CASE LinkUp(d)
    BY <2>1, FewerFacts DEF LinkUp, netVars, IInv
  <2>2. CASE LinkDown(d)
    <3>1. talks' \in [Devices -> SUBSET Ids] /\ \A e \in Devices : talks'[e] \subseteq talks[e]
      BY <2>2 DEF LinkDown, IInv, TypeOK
    <3>2. syncs' \in [Devices -> SUBSET StateRecord] /\ \A e \in Devices : syncs'[e] \subseteq syncs[e]
      BY <2>2 DEF LinkDown, IInv, TypeOK
    <3>3. /\ page' \in [Devices -> {None} \cup EntryRecord]
          /\ \A e \in Devices : page'[e] \in {page[e], None}
      BY <2>2 DEF LinkDown, IInv, TypeOK
    <3> QED
      BY <3>1, <3>2, <3>3 DEF Fewer
  <2> QED
    BY <2>1, <2>2
<1>5. TypeOK'
  BY <1>1, <1>2, <1>3, <1>4 DEF Fewer, IInv, TypeOK
<1>6. \A q \in reqs' : q.id <= opened
  BY <1>2 DEF IInv, MarkInv
<1>7. \A e \in Devices : Transit(e)'
  BY <1>1, <1>4 DEF Fewer, IInv, Transit
<1> QED
  BY <1>1, <1>5, <1>6, <1>7, NetworkStep DEF serverVars

\* The counter of the inbox row after a message is stored: the message adds
\* to it when it is the peer's and lies above the cursor.  The first message
\* of a conversation always does, its cursor being 0.
LEMMA InsertUnread ==
  ASSUME IInv, NEW m \in Ids, Insert(m)
  PROVE  UpsertInbox(m).unread = UnreadIn(index, lastRead)'
<1> DEFINE S == {x \in index \ own : x > lastRead}
           T == {x \in index' \ own' : x > lastRead'}
<1>1. /\ m \notin index /\ index' = index \cup {m} /\ own' \in {own, own \cup {m}}
      /\ lastRead' = lastRead /\ own \subseteq index /\ index \in SUBSET Ids
  BY DEF Insert, IInv, TypeOK
<1>2. /\ lastRead \in Nat /\ (inbox.row <=> index # {})
      /\ inbox.unread = Cardinality(S)
  BY ServerFacts DEF UnreadIn
<1>3. IsFiniteSet(S) /\ Cardinality(S) \in Nat
  <2>1. index \ own \in SUBSET Ids
    BY <1>1
  <2> QED
    BY <2>1, <1>2, UnreadFinite
<1>4. UnreadIn(index, lastRead)' = Cardinality(T)
  BY DEF UnreadIn
<1>5. ~inbox.row => m > lastRead
  <2>1. ~inbox.row => lastRead = 0
    BY <1>2, ServerFacts DEF Tip
  <2> QED
    BY <2>1 DEF Ids
<1>6. CASE m \in own'
  <2>1. T = S
    BY <1>6, <1>1
  <2> QED
    BY <2>1, <1>2, <1>4, <1>6 DEF UpsertInbox
<1>7. CASE m \notin own' /\ m > lastRead
  <2>1. T = S \cup {m} /\ m \notin S
    BY <1>7, <1>1
  <2>2. Cardinality(T) = Cardinality(S) + 1
    BY <2>1, <1>3, FS_AddElement
  <2> QED
    BY <2>2, <1>2, <1>4, <1>7 DEF UpsertInbox
<1>8. CASE m \notin own' /\ ~(m > lastRead)
  <2>1. T = S
    BY <1>8, <1>1
  <2> QED
    BY <2>1, <1>2, <1>4, <1>5, <1>8 DEF UpsertInbox
<1> QED
  BY <1>6, <1>7, <1>8

\* The last message of the row is the newest of the index, whichever of the
\* two was stored first.
LEMMA InsertLast ==
  ASSUME IInv, NEW m \in Ids, Insert(m)
  PROVE  Newest(UpsertInbox(m).last, index')
<1>1. m \notin index /\ index' = index \cup {m} /\ index \in SUBSET Ids
  BY DEF Insert, IInv, TypeOK
<1>2. (inbox.row <=> index # {}) /\ (inbox.row => Newest(inbox.last, index))
  BY ServerFacts
<1>3. \A n \in Ids : n \in Nat /\ SendTime[n] \in Nat
  BY SendTimeAssumption DEF Ids
<1>4. CASE ~inbox.row
  BY <1>1, <1>2, <1>4 DEF UpsertInbox, Newest
<1>5. CASE inbox.row /\ Newer(m, inbox.last)
  <2>1. UpsertInbox(m).last = m /\ inbox.last \in index
    BY <1>2, <1>5 DEF UpsertInbox, Newest
  <2>2. ASSUME NEW n \in index PROVE Newer(m, n)
    <3>1. CASE n = inbox.last
      BY <3>1, <1>5
    <3>2. CASE n # inbox.last
      <4>1. Newer(inbox.last, n)
        BY <3>2, <1>2, <1>5 DEF Newest
      <4> QED
        BY <4>1, <2>1, <1>1, <1>3, <1>5 DEF Newer
    <3> QED
      BY <3>1, <3>2
  <2> QED
    BY <1>1, <2>1, <2>2 DEF Newest
<1>6. CASE inbox.row /\ ~Newer(m, inbox.last)
  <2>1. UpsertInbox(m).last = inbox.last /\ inbox.last \in index
    BY <1>2, <1>6 DEF UpsertInbox, Newest
  <2>2. Newer(inbox.last, m)
    BY <2>1, <1>1, <1>3, <1>6 DEF Newer
  <2> QED
    BY <1>1, <1>2, <1>6, <2>1, <2>2 DEF Newest
<1> QED
  BY <1>4, <1>5, <1>6

LEMMA InsertStep ==
  ASSUME IInv, NEW m \in Ids, Insert(m)
  PROVE  IInv' /\ UNCHANGED Marks!vars
<1>1. /\ index' = index \cup {m} /\ own' \in {own, own \cup {m}}
      /\ inbox' = UpsertInbox(m)
      /\ talks' = [d \in Devices |-> IF d \in online THEN talks[d] \cup {m} ELSE talks[d]]
      /\ UNCHANGED <<lastRead, dev, online, call, reqs, syncs, page, opened>>
  BY DEF Insert
<1>2. Tip(index') = Larger(Tip(index), m) /\ Tip(index') \in Nat /\ Tip(index) <= Tip(index')
      /\ Tip(index) \in Nat /\ Tip(index') \in 0 .. MaxId
  <2>1. index \in SUBSET Ids /\ Tip(index) \in 0 .. MaxId /\ m \in 0 .. MaxId
    BY ServerFacts DEF IInv, TypeOK, Ids
  <2> QED
    BY <1>1, <2>1, TipAdd DEF Larger
<1>3. ServerInv'
  <2>1. inbox'.row = TRUE /\ inbox'.max = Tip(index')
    BY <1>1, <1>2, ServerFacts DEF UpsertInbox
  <2>2. inbox'.unread = UnreadIn(index, lastRead)'
    BY <1>1, InsertUnread
  <2>3. Newest(inbox'.last, index')
    BY <1>1, InsertLast
  <2> QED
    BY <1>1, <2>1, <2>2, <2>3 DEF ServerInv, Newest
<1>4. TypeOK'
  <2>1. inbox' \in InboxRecord
    <3>1. inbox.unread \in Nat /\ Larger(inbox.max, m) \in 0 .. MaxId
          /\ inbox.last \in 0 .. MaxId /\ m \in 0 .. MaxId
      BY <1>2, ServerFacts DEF Ids
    <3> QED
      BY <1>1, <3>1 DEF UpsertInbox, InboxRecord
  <2>2. talks' \in [Devices -> SUBSET Ids]
    BY <1>1 DEF IInv, TypeOK
  <2> QED
    BY <1>1, <2>1, <2>2 DEF IInv, TypeOK
<1>5. MarkInv'
  <2>1. opened <= Tip(index')
    BY <1>2, ServerFacts
  <2> QED
    BY <1>1, <2>1 DEF IInv, MarkInv
<1>6. ASSUME NEW d \in Devices
      PROVE  Device(d)' /\ Transit(d)'
  <2>1. KnownTip(dev[d]) <= Tip(index')
    BY <1>2, DeviceFacts
  <2>2. Device(d)'
    BY <1>1, <2>1 DEF IInv, Device, Badge, EffectiveRead, KnownTip
  <2>3. talks'[d] \subseteq index'
    BY <1>1 DEF IInv, Transit
  <2>4. \A s \in syncs[d] : s.max \in Nat
    BY DEF IInv, TypeOK, StateRecord
  <2>5. page[d] # None => page[d].max \in Nat /\ page[d].last \in Nat
    BY DEF IInv, TypeOK, EntryRecord, Ids
  <2>6. \A n \in Nat : n <= Tip(index) => n <= Tip(index')
    BY <1>2
  <2>7. Transit(d)
    BY DEF IInv
  <2>8. Transit(d)'
    BY <1>1, <2>3, <2>4, <2>5, <2>6, <2>7 DEF Transit
  <2> QED
    BY <2>2, <2>8
<1>7. UNCHANGED Marks!vars
  BY <1>1 DEF Marks!vars, EffectiveRead
<1> QED
  BY <1>3, <1>4, <1>5, <1>6, <1>7 DEF IInv

LEMMA DoInboxReadStep ==
  ASSUME IInv, NEW r \in reqs, DoInboxRead(r)
  PROVE  IInv' /\ Marks!Next
<1>1. /\ reqs' = reqs \ {r} /\ index' = index /\ own' = own
      /\ lastRead' = Larger(lastRead, r.id)
      /\ inbox' = IF inbox.row
                  THEN [inbox EXCEPT !.unread = UnreadIn(index, lastRead'),
                                     !.max = Larger(@, Tip(index))]
                  ELSE inbox
      /\ syncs' = [d \in Devices |->
                      IF d \in online \ {r.dev} /\ (inbox.row \/ lastRead' > 0)
                      THEN syncs[d] \cup {ConversationState'}
                      ELSE syncs[d]]
      /\ UNCHANGED <<dev, online, call, talks, page, opened>>
  BY DEF DoInboxRead, StoreMarkRead
<1>2. /\ opened \in Nat /\ lastRead \in Nat /\ Tip(index) \in Nat /\ Tip(index) \in 0 .. MaxId
      /\ lastRead <= opened /\ opened <= Tip(index)
      /\ inbox.row \in BOOLEAN /\ inbox.unread \in Nat /\ inbox.max = Tip(index)
      /\ (inbox.row <=> index # {}) /\ inbox.unread = UnreadIn(index, lastRead)
      /\ inbox \in InboxRecord /\ (inbox.row => Newest(inbox.last, index))
  BY ServerFacts DEF IInv, TypeOK
<1>3. r.id \in Nat /\ r.id <= opened
  BY DEF IInv, TypeOK, MarkInv, Ids
<1>4. /\ lastRead' \in Nat /\ lastRead' >= lastRead /\ lastRead' <= opened
      /\ lastRead' \in 0 .. MaxId
  BY <1>1, <1>2, <1>3 DEF Larger
<1>5. UnreadIn(index, lastRead') \in Nat /\ UnreadIn(index, lastRead)' = UnreadIn(index, lastRead')
  <2>1. index \ own \in SUBSET Ids
    BY DEF IInv, TypeOK
  <2> QED
    BY <1>1, <1>4, <2>1, UnreadFinite DEF UnreadIn
<1>6. /\ inbox' \in InboxRecord
      /\ inbox'.row = inbox.row /\ inbox'.max = Tip(index) /\ inbox'.last = inbox.last
      /\ inbox.row => inbox'.unread = UnreadIn(index, lastRead')
      /\ ~inbox.row => inbox'.unread = inbox.unread
  <2>1. Larger(inbox.max, Tip(index)) = Tip(index)
    BY <1>2 DEF Larger
  <2>2. CASE inbox.row
    <3>1. inbox' = [inbox EXCEPT !.unread = UnreadIn(index, lastRead'), !.max = Tip(index)]
      BY <2>1, <2>2, <1>1, <1>2
    <3> HIDE DEF UnreadIn
    <3> QED
      BY <3>1, <2>2, <1>2, <1>5 DEF InboxRecord
  <2>3. CASE ~inbox.row
    BY <2>3, <1>1, <1>2
  <2> QED
    BY <2>2, <2>3, <1>2
<1>7. ServerInv'
  <2>1. ~inbox.row => inbox.unread = UnreadIn(index, lastRead')
    BY <1>2 DEF UnreadIn
  <2> QED
    BY <1>1, <1>2, <1>5, <1>6, <2>1 DEF ServerInv, Newest
<1>8. /\ ConversationState' \in StateRecord
      /\ ConversationState'.read <= opened /\ ConversationState'.max = Tip(index)
  <2>1. Larger(inbox'.max, Tip(index')) = Tip(index)
    BY <1>1, <1>2, <1>6 DEF Larger
  <2>2. ConversationState' = [read |-> lastRead', max |-> Tip(index)]
    BY <2>1 DEF ConversationState
  <2> QED
    BY <2>2, <1>2, <1>4 DEF StateRecord
<1> DEFINE cs == ConversationState'
<1> HIDE DEF cs
<1>9. syncs' \in [Devices -> SUBSET StateRecord]
      /\ \A d \in Devices : syncs'[d] \subseteq syncs[d] \cup {cs}
  <2>1. syncs \in [Devices -> SUBSET StateRecord] /\ cs \in StateRecord
    BY <1>8 DEF IInv, TypeOK, cs
  <2>2. syncs' = [d \in Devices |->
                      IF d \in online \ {r.dev} /\ (inbox.row \/ lastRead' > 0)
                      THEN syncs[d] \cup {cs} ELSE syncs[d]]
    BY <1>1 DEF cs
  <2> QED
    BY <2>1, <2>2
<1>10. TypeOK'
  BY <1>1, <1>4, <1>6, <1>9 DEF IInv, TypeOK
<1>11. MarkInv'
  BY <1>1, <1>2, <1>4 DEF IInv, MarkInv
<1>12. ASSUME NEW d \in Devices
       PROVE  Device(d)' /\ Transit(d)'
  <2>1. Device(d)'
    BY <1>1 DEF IInv, Device, Badge, EffectiveRead, KnownTip
  <2>2. cs.read <= opened /\ cs.max <= Tip(index)
    BY <1>2, <1>8 DEF cs
  <2>3. Transit(d)
    BY DEF IInv
  <2>4. Transit(d)'
    BY <1>1, <1>9, <2>2, <2>3 DEF Transit
  <2> QED
    BY <2>1, <2>4
<1>13. Marks!Next
  <2> DEFINE mark == [p \in Devices \cup {Server} |->
                       IF p = Server THEN lastRead ELSE EffectiveRead(dev[p])]
             markP == [p \in Devices \cup {Server} |->
                       IF p = Server THEN lastRead' ELSE EffectiveRead(dev'[p])]
  <2>1. markP = [mark EXCEPT ![Server] = lastRead'] /\ mark[Server] = lastRead
    BY <1>1
  <2>2. lastRead' \in mark[Server] .. opened
    BY <2>1, <1>2, <1>4
  <2>3. \E n \in mark[Server] .. opened : markP = [mark EXCEPT ![Server] = n]
    BY <2>1, <2>2
  <2>4. Marks!Learn(Server)
    BY <2>3, <1>1 DEF Marks!Learn, EffectiveRead
  <2> QED
    BY <2>4 DEF Marks!Next
<1> QED
  BY <1>7, <1>10, <1>11, <1>12, <1>13 DEF IInv

(***************************************************************************)
(* The theorems.                                                           *)
(***************************************************************************)
LEMMA StepInv ==
  ASSUME IInv, [Next]_vars
  PROVE  IInv' /\ [Marks!Next]_(Marks!vars)
<1>1. CASE UNCHANGED vars
  <2>1. UNCHANGED <<serverVars, dev, opened>> /\ UNCHANGED <<online, call, reqs, talks, syncs, page>>
    BY <1>1 DEF vars, netVars
  <2>2. TypeOK'
    BY <2>1 DEF IInv, TypeOK, serverVars
  <2>3. \A d \in Devices : Transit(d)'
    BY <2>1 DEF IInv, Transit, serverVars
  <2>4. \A q \in reqs' : q.id <= opened
    BY <2>1 DEF IInv, MarkInv
  <2> QED
    BY <2>1, <2>2, <2>3, <2>4, NetworkStep
<1>2. CASE \E m \in Ids : Insert(m)
  BY <1>2, InsertStep
<1>3. CASE \E r \in reqs : DoInboxRead(r) \/ DoInboxReadFails(r)
  BY <1>3, DoInboxReadStep, DoInboxReadFailsStep
<1>4. CASE \E d \in Devices :
             \/ DoInboxList(d) \/ PersistPush(d) \/ PersistSynced(d) \/ PersistInbox(d)
             \/ ApplyRemoteRead(d) \/ PumpOnce(d)
  BY <1>4, DoInboxListStep, PersistPushStep, PersistSyncedStep, PersistInboxStep,
     ApplyRemoteReadStep, PumpOnceStep
<1>5. CASE \E d \in Used : \/ MarkRead(d) \/ SetVisibility(d) \/ DeleteThread(d)
                           \/ LinkUp(d) \/ LinkDown(d)
  BY <1>5, MarkReadStep, SetVisibilityStep, DeleteThreadStep, LinkStep
<1> QED
  BY <1>1, <1>2, <1>3, <1>4, <1>5 DEF Next

LEMMA Invariance == Spec => []IInv
<1>1. Init => IInv
  BY InitInv
<1>2. IInv /\ [Next]_vars => IInv'
  BY StepInv
<1> QED
  BY <1>1, <1>2, PTL DEF Spec

\* Every variable of the read state keeps its type: cursors stay within the
\* ids there are and no unread counter, of the server or a device, goes
\* below zero.
THEOREM TypeCorrect == Spec => []TypeOK
<1>1. IInv => TypeOK
  BY DEF IInv
<1> QED
  BY <1>1, Invariance, PTL

\* For every number of devices and messages, stored in any order of their
\* ids and with any send times: the materialised inbox row has the counter,
\* the cursor and the tip the index aggregates to, and its last message is
\* the newest of the index.
THEOREM InboxSafety == Spec => []InboxAgrees
<1>1. IInv => InboxAgrees
  <2> SUFFICES ASSUME IInv, inbox.row PROVE
        /\ [InboxMaterialized EXCEPT !.last = InboxEntry.last] = InboxEntry
        /\ Newest(InboxMaterialized.last, index)
    BY DEF InboxAgrees
  <2>1. inbox.max = Tip(index) /\ Larger(inbox.max, Tip(index)) = Tip(index)
        /\ inbox.unread = UnreadIn(index, lastRead) /\ Newest(inbox.last, index)
    BY ServerFacts DEF Larger
  <2>2. InboxMaterialized.last = inbox.last
    BY DEF InboxMaterialized
  <2>3. [InboxMaterialized EXCEPT !.last = InboxEntry.last] = InboxEntry
    BY <2>1 DEF InboxMaterialized, InboxEntry
  <2> QED
    BY <2>1, <2>2, <2>3
<1> QED
  BY <1>1, Invariance, PTL

\* For every order of pushes, pages, remote reads, deletions and reports of
\* the screen: a thread read up to all that is known shows no badge.
THEOREM BadgeSafety == Spec => []BadgeCleared
<1>1. IInv => BadgeCleared
  BY DEF IInv, Device, Badge, BadgeCleared
<1> QED
  BY <1>1, Invariance, PTL

\* The server and the devices implement the abstract read marks: each step
\* opens messages on a device, teaches one place a mark, or changes no mark.
THEOREM Refinement == Spec => ImplementsReadMarks
<1>1. Init => Marks!Init
  <2> SUFFICES ASSUME Init PROVE Marks!Init
    OBVIOUS
  <2>1. \A p \in Devices : EffectiveRead(dev[p]) = 0
    BY EmptyRecord DEF Init
  <2>2. lastRead = 0 /\ opened = 0
    BY DEF Init
  <2> QED
    BY <2>1, <2>2 DEF Marks!Init
<1>2. IInv /\ [Next]_vars => [Marks!Next]_(Marks!vars)
  BY StepInv
<1> QED
  BY <1>1, <1>2, Invariance, PTL DEF Spec, ImplementsReadMarks, Marks!Spec
=============================================================================
