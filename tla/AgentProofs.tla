---------------------------- MODULE AgentProofs -----------------------------
(***************************************************************************)
(* Proofs about the desktop agent (AgentTurns), about the profiles and     *)
(* provider accounts it runs from (AgentSpecs) and about the bots it       *)
(* answers for (Bots).                                                     *)
(*                                                                         *)
(* AgentTurns: a question is not admitted again within RECENT_TURN_CAP     *)
(* admissions.  What makes it so is the list of remembered keys, which     *)
(* forgets: the inductive invariant compares it from the end with the      *)
(* admissions of this session, one of which it may have lost.  A turn the  *)
(* worker queues again passes this list by; the second part says how often *)
(* a turn in the queue and a turn of the worker have been run.             *)
(*                                                                         *)
(* AgentSpecs: device and server agree after a sync that nothing           *)
(* disturbed.  The invariant says, for each stage of a sync, what is known *)
(* of the two records it compares: fetched, taken over or found newer,     *)
(* picked for the push, pushed.  That records stay with their account is   *)
(* shown with a map from every edit to its home, which start_session moves *)
(* when it rekeys the rows written before the first login.                 *)
(*                                                                         *)
(* Bots: one reply to a question, one bot to a profile.  A request holds   *)
(* an account over several steps, so the invariant says what stays true of *)
(* it when the bot is deleted under it: an account is named once, its      *)
(* owner never changes, and no reply was ever stored for a bot that is     *)
(* still to be entered.                                                    *)
(***************************************************************************)
EXTENDS AgentTurns, AgentSpecs, Bots, FiniteSetTheorems, TLAPS

Stages == {"announce", "prepare", "run", "asking", "tool", "stop", "requeue", "reply", "settle"}
Results == {"none", "Reply", "Empty", "Error", "Done", "Again"}
Turns == [epoch : Nat, retried : BOOLEAN, runs : Nat]
Queued == {t \in Turns : t.runs = IF t.retried THEN 1 ELSE 0}
Started == {t \in Turns : t.runs = IF t.retried THEN 2 ELSE 1}
Working == {w \in [at : Stages, turn : Started, res : Results] :
              w.at = "requeue" => ~w.turn.retried}
Workers == {Idle} \cup Working
Keys == Nat \X Questions

TurnTypes ==
  /\ epoch \in Nat
  /\ calls \subseteq [src : Sources, bot : Bots, epoch : Nat]
  /\ queue \in [Bots -> Seq(Queued)]
  /\ admitted \in [Bots -> Seq(Keys)]
  /\ taken \in [Bots -> Seq(Questions)]
  /\ worker \in [Bots -> Workers]
  /\ beat \in [Bots -> {"off", "tick", "sending"}]

(* The heartbeat task exists while its turn is under way. *)
Quiet == {"idle", "announce", "requeue", "reply", "settle"}
BeatFollows == \A b \in Bots : beat[b] = "off" <=> worker[b].at \in Quiet

(* The k-th element from the end. *)
Back(s, k) == s[Len(s) - k]

(* Seen from the end, the keys are those of the questions last admitted in *)
(* this session, as far as both lists reach; the keys before them are of   *)
(* earlier sessions, and a list of keys with room has lost none.           *)
Remembered(keys, qs, e) ==
  /\ Len(keys) <= RECENT_TURN_CAP /\ Len(qs) <= RECENT_TURN_CAP + 1
  /\ Len(qs) <= Len(keys) \/ Len(keys) = RECENT_TURN_CAP
  /\ \A k \in Nat : k < Len(qs) /\ k < Len(keys) => Back(keys, k) = <<e, Back(qs, k)>>
  /\ \A k \in Nat : Len(qs) <= k /\ k < Len(keys) => Back(keys, k)[1] < e
  /\ \A j, k \in Nat : j < Len(qs) /\ k < Len(qs) /\ Back(qs, j) = Back(qs, k) => j = k

TurnInv ==
  /\ TurnTypes /\ BeatFollows
  /\ \A b \in Bots : Remembered(admitted[b], taken[b], epoch)

-----------------------------------------------------------------------------
(* Seen from the end, PushBack moves every element one place on, and the   *)
(* last one out when the list is full.                                     *)
LEMMA PushBackShifts ==
  ASSUME NEW S, NEW s \in Seq(S), NEW x \in S, NEW cap \in Nat \ {0}, Len(s) <= cap
  PROVE  /\ PushBack(s, x, cap) \in Seq(S)
         /\ Len(PushBack(s, x, cap)) = IF Len(s) = cap THEN cap ELSE Len(s) + 1
         /\ Back(PushBack(s, x, cap), 0) = x
         /\ \A k \in Nat : k + 1 < Len(PushBack(s, x, cap)) =>
                              Back(PushBack(s, x, cap), k + 1) = Back(s, k)
<1> DEFINE r == IF Len(s) = cap THEN Tail(s) ELSE s
           d == IF Len(s) = cap THEN 1 ELSE 0
           t == Append(r, x)
<1>1. Len(s) \in Nat /\ d \in {0, 1} /\ d <= Len(s) OBVIOUS
<1>2. /\ r \in Seq(S) /\ Len(r) = Len(s) - d
      /\ \A i \in 1 .. Len(s) - d : r[i] = s[i + d]
  <2>1. CASE Len(s) = cap
    <3>1. s # <<>> BY <2>1
    <3> QED BY <2>1, <3>1
  <2>2. CASE Len(s) # cap BY <2>2
  <2> QED BY <2>1, <2>2
<1>3. PushBack(s, x, cap) = t BY DEF PushBack
<1> HIDE DEF r, d
<1>4. /\ t \in Seq(S) /\ Len(t) = Len(s) - d + 1 /\ t[Len(t)] = x
      /\ \A i \in 1 .. Len(s) - d : t[i] = s[i + d]
  BY <1>1, <1>2
<1> HIDE DEF t
<1>5. Len(t) = IF Len(s) = cap THEN cap ELSE Len(s) + 1 BY <1>1, <1>4 DEF d
<1>6. ASSUME NEW k \in Nat, k + 1 < Len(t) PROVE t[Len(t) - (k + 1)] = s[Len(s) - k]
  <2>1. Len(t) - (k + 1) \in 1 .. Len(s) - d /\ Len(t) - (k + 1) + d = Len(s) - k
    BY <1>1, <1>4, <1>6
  <2> QED BY <1>4, <2>1
<1>7. t[Len(t) - 0] = x BY <1>1, <1>4
<1> QED BY <1>3, <1>4, <1>5, <1>6, <1>7 DEF Back

(* A question whose key is not remembered is none of the last              *)
(* RECENT_TURN_CAP admitted, and its key becomes the last one.             *)
LEMMA RememberNext ==
  ASSUME NEW keys \in Seq(Keys), NEW qs \in Seq(Questions), NEW e \in Nat, NEW q \in Questions,
         Remembered(keys, qs, e), <<e, q>> \notin ToSet(keys)
  PROVE  /\ PushBack(keys, <<e, q>>, RECENT_TURN_CAP) \in Seq(Keys)
         /\ PushBack(qs, q, RECENT_TURN_CAP + 1) \in Seq(Questions)
         /\ Remembered(PushBack(keys, <<e, q>>, RECENT_TURN_CAP),
                       PushBack(qs, q, RECENT_TURN_CAP + 1), e)
<1> DEFINE C == RECENT_TURN_CAP
           m == Len(qs)
           n == Len(keys)
           key == <<e, q>>
           g == PushBack(keys, key, C)
           f == PushBack(qs, q, C + 1)
<1>1. /\ C \in Nat \ {0} /\ C + 1 \in Nat \ {0} /\ m \in Nat /\ n \in Nat /\ n <= C /\ m <= C + 1
      /\ m <= n \/ n = C
  BY TurnBounds DEF Remembered
<1>2. key \in Keys BY DEF Keys
<1>3. /\ g \in Seq(Keys) /\ Len(g) = (IF n = C THEN C ELSE n + 1) /\ Back(g, 0) = <<e, q>>
      /\ \A k \in Nat : k + 1 < Len(g) => Back(g, k + 1) = Back(keys, k)
  <2> HIDE DEF key
  <2>1. /\ g \in Seq(Keys) /\ Len(g) = (IF n = C THEN C ELSE n + 1) /\ Back(g, 0) = key
        /\ \A k \in Nat : k + 1 < Len(g) => Back(g, k + 1) = Back(keys, k)
    BY <1>1, <1>2, PushBackShifts
  <2> QED BY <2>1 DEF key
<1>4. /\ f \in Seq(Questions) /\ Len(f) = (IF m = C + 1 THEN C + 1 ELSE m + 1) /\ Back(f, 0) = q
      /\ \A k \in Nat : k + 1 < Len(f) => Back(f, k + 1) = Back(qs, k)
  BY <1>1, PushBackShifts
<1>5. /\ \A k \in Nat : k < m /\ k < n => Back(keys, k) = <<e, Back(qs, k)>>
      /\ \A k \in Nat : m <= k /\ k < n => Back(keys, k)[1] < e
      /\ \A j, k \in Nat : j < m /\ k < m /\ Back(qs, j) = Back(qs, k) => j = k
  BY DEF Remembered
<1>6. ASSUME NEW k \in Nat, k < n, k < m PROVE Back(qs, k) # q
  <2>1. n - k \in 1 .. n /\ DOMAIN keys = 1 .. n BY <1>1, <1>6
  <2>2. keys[n - k] \in ToSet(keys) BY <2>1 DEF ToSet
  <2> QED BY <1>5, <1>6, <2>2 DEF Back
<1> HIDE DEF f, g, m, n, C
<1>7. ASSUME NEW k \in Nat, k + 1 < Len(f) PROVE k < m /\ k < n /\ Back(f, k + 1) # q
  <2>1. k < m /\ k < n BY <1>1, <1>4, <1>7
  <2> QED BY <1>4, <1>6, <1>7, <2>1
<1>8. \A k \in Nat : k = 0 \/ \E i \in Nat : k = i + 1
  <2> SUFFICES ASSUME NEW k \in Nat, k # 0 PROVE \E i \in Nat : k = i + 1 OBVIOUS
  <2>1. k - 1 \in Nat /\ k = (k - 1) + 1 OBVIOUS
  <2> QED BY <2>1
<1>9. ASSUME NEW k \in Nat, k < Len(f), k < Len(g) PROVE Back(g, k) = <<e, Back(f, k)>>
  <2>1. CASE k = 0 BY <1>3, <1>4, <2>1
  <2>2. ASSUME NEW i \in Nat, k = i + 1 PROVE Back(g, k) = <<e, Back(f, k)>>
    <3>1. i < m /\ i < n BY <1>7, <1>9, <2>2
    <3> QED BY <1>3, <1>4, <1>5, <1>9, <2>2, <3>1
  <2> QED BY <1>8, <2>1, <2>2
<1>10. ASSUME NEW k \in Nat, Len(f) <= k, k < Len(g) PROVE Back(g, k)[1] < e
  <2>1. PICK i \in Nat : k = i + 1 BY <1>1, <1>4, <1>8, <1>10
  <2>2. m <= i /\ i < n BY <1>1, <1>3, <1>4, <1>10, <2>1
  <2> QED BY <1>3, <1>5, <1>10, <2>1, <2>2
<1>11. ASSUME NEW j \in Nat, NEW k \in Nat, j < Len(f), k < Len(f), Back(f, j) = Back(f, k) PROVE j = k
  <2>1. CASE j = 0 /\ k = 0 BY <2>1
  <2>2. ASSUME NEW i \in Nat, k = i + 1, j = 0 PROVE FALSE BY <1>4, <1>7, <1>11, <2>2
  <2>3. ASSUME NEW i \in Nat, j = i + 1, k = 0 PROVE FALSE BY <1>4, <1>7, <1>11, <2>3
  <2>4. ASSUME NEW h \in Nat, NEW i \in Nat, j = h + 1, k = i + 1 PROVE j = k
    <3>1. h < m /\ i < m BY <1>7, <1>11, <2>4
    <3>2. Back(qs, h) = Back(qs, i) BY <1>4, <1>11, <2>4
    <3> QED BY <1>5, <2>4, <3>1, <3>2
  <2> QED BY <1>8, <2>1, <2>2, <2>3, <2>4
<1>12. Len(g) <= C /\ Len(f) <= C + 1 /\ (Len(f) <= Len(g) \/ Len(g) = C) BY <1>1, <1>3, <1>4
<1>13. Remembered(g, f, e) BY <1>9, <1>10, <1>11, <1>12 DEF Remembered, C
<1> QED BY <1>3, <1>4, <1>13 DEF f, g, C, key

-----------------------------------------------------------------------------
(* The worker of a bot moves on; its heartbeat, with it. *)
LEMMA WorkerMoves ==
  ASSUME TurnInv, NEW b \in Bots, NEW w \in Workers, NEW t \in {"off", "tick", "sending"},
         t = "off" <=> w.at \in Quiet,
         worker' = [worker EXCEPT ![b] = w], beat' = [beat EXCEPT ![b] = t],
         queue' \in [Bots -> Seq(Queued)], UNCHANGED sdkVars
  PROVE  TurnInv'
<1>1. UNCHANGED <<epoch, calls, admitted, taken>> BY DEF sdkVars
<1>2. TurnTypes' BY <1>1 DEF TurnInv, TurnTypes
<1>3. BeatFollows'
  <2> SUFFICES ASSUME NEW c \in Bots PROVE (beat[c] = "off" <=> worker[c].at \in Quiet)'
    BY DEF BeatFollows
  <2>1. CASE c = b BY <2>1 DEF TurnInv, TurnTypes
  <2>2. CASE c # b BY <2>2 DEF TurnInv, TurnTypes, BeatFollows
  <2> QED BY <2>1, <2>2
<1> QED BY <1>1, <1>2, <1>3 DEF TurnInv

(* A worker that is not idle holds a turn it has started. *)
LEMMA HoldsTurn ==
  ASSUME TurnInv, NEW b \in Bots, worker[b].at # "idle"
  PROVE  worker[b] \in Working
BY DEF TurnInv, TurnTypes, Workers, Idle

(* Goto, from a stage and to a stage that are both of a turn under way. *)
LEMMA Goes ==
  ASSUME TurnInv, NEW b \in Bots, NEW pc \in Stages, pc # "requeue", Goto(b, pc),
         UNCHANGED <<sdkVars, queue, beat>>, worker[b].at # "idle",
         worker[b].at \in Quiet <=> pc \in Quiet
  PROVE  TurnInv'
<1> DEFINE w == [worker[b] EXCEPT !.at = pc, !.res = worker[b].res]
<1>1. worker[b] \in Working BY HoldsTurn
<1>2. worker[b].res \in Results BY <1>1 DEF Working
<1>3. w \in Workers /\ w.at = pc BY <1>1, <1>2 DEF Workers, Working
<1>4. w = [worker[b] EXCEPT !.at = pc] BY <1>1 DEF Working
<1>5. worker' = [worker EXCEPT ![b] = w] BY <1>4 DEF Goto
<1> HIDE DEF w
<1>6. /\ beat[b] \in {"off", "tick", "sending"} /\ beat' = [beat EXCEPT ![b] = beat[b]]
      /\ beat[b] = "off" <=> worker[b].at \in Quiet
      /\ queue' \in [Bots -> Seq(Queued)] /\ UNCHANGED sdkVars
  BY DEF TurnInv, TurnTypes, BeatFollows
<1> QED BY <1>3, <1>5, <1>6, WorkerMoves

LEMMA Ends ==
  ASSUME TurnInv, NEW b \in Bots, NEW res \in Results, TurnOver(b, res),
         UNCHANGED <<sdkVars, queue, beat>>, worker[b].at \notin Quiet
  PROVE  TurnInv'
<1> DEFINE w == [worker[b] EXCEPT !.at = "stop", !.res = res]
<1>1. worker[b] \in Working BY HoldsTurn DEF Quiet
<1>2. w \in Workers /\ w.at = "stop" BY <1>1 DEF Stages, Workers, Working
<1>3. worker' = [worker EXCEPT ![b] = w] BY DEF TurnOver
<1> HIDE DEF w
<1>4. /\ beat[b] \in {"off", "tick", "sending"} /\ beat' = [beat EXCEPT ![b] = beat[b]]
      /\ beat[b] # "off"
      /\ queue' \in [Bots -> Seq(Queued)] /\ UNCHANGED sdkVars
  BY DEF TurnInv, TurnTypes, BeatFollows
<1>5. beat[b] = "off" <=> w.at \in Quiet BY <1>2, <1>4 DEF Quiet
<1> QED BY <1>2, <1>3, <1>4, <1>5, WorkerMoves

(* Only the host of a turn or its yields change. *)
LEMMA HostOnly ==
  ASSUME TurnInv, UNCHANGED <<sdkVars, queue, worker, beat>>
  PROVE  TurnInv'
BY DEF TurnInv, TurnTypes, BeatFollows, sdkVars

-----------------------------------------------------------------------------
LEMMA CallEnqueueKeeps ==
  ASSUME TurnInv, NEW src \in Sources, NEW b \in Bots, CallEnqueue(src, b)
  PROVE  TurnInv'
<1> DEFINE c == [src |-> src, bot |-> b, epoch |-> epoch]
<1>1. c \in [src : Sources, bot : Bots, epoch : Nat] BY DEF TurnInv, TurnTypes
<1>2. calls' = calls \cup {c} BY DEF CallEnqueue
<1>3. UNCHANGED <<epoch, queue, admitted, taken, worker, beat>> BY DEF CallEnqueue, turnVars
<1> HIDE DEF c
<1> QED BY <1>1, <1>2, <1>3 DEF TurnInv, TurnTypes, BeatFollows

LEMMA EnqueueTurnKeeps ==
  ASSUME TurnInv, NEW c \in calls, NEW q \in Questions, EnqueueTurn(c, q)
  PROVE  TurnInv'
<1>1. TurnTypes /\ BeatFollows /\ \A b \in Bots : Remembered(admitted[b], taken[b], epoch)
  BY DEF TurnInv
<1>2. /\ c.bot \in Bots /\ c.epoch \in Nat
      /\ calls' \subseteq [src : Sources, bot : Bots, epoch : Nat]
  BY <1>1 DEF TurnTypes, EnqueueTurn, Return
<1>3. UNCHANGED <<epoch, worker, beat>> BY DEF EnqueueTurn, turnVars
<1>4. queue' \in [Bots -> Seq(Queued)]
  <2>1. Turn(c) \in Queued BY <1>2 DEF Turn, Queued, Turns
  <2>2. queue' = queue \/ queue' = [queue EXCEPT ![c.bot] = Append(@, Turn(c))] BY DEF EnqueueTurn
  <2>3. queue \in [Bots -> Seq(Queued)] BY <1>1 DEF TurnTypes
  <2>4. CASE queue' = queue BY <2>3, <2>4
  <2>5. CASE queue' = [queue EXCEPT ![c.bot] = Append(@, Turn(c))]
    <3> DEFINE s == Append(queue[c.bot], Turn(c))
    <3>1. queue[c.bot] \in Seq(Queued) BY <1>2, <2>3
    <3>2. s \in Seq(Queued) BY <2>1, <3>1
    <3>3. queue' = [queue EXCEPT ![c.bot] = s] BY <2>5
    <3> HIDE DEF s
    <3> QED BY <1>2, <2>3, <3>2, <3>3
  <2> QED BY <2>2, <2>4, <2>5
<1>5. CASE UNCHANGED <<admitted, taken>>
  BY <1>1, <1>2, <1>3, <1>4, <1>5 DEF TurnInv, TurnTypes, BeatFollows
<1>6. CASE ~UNCHANGED <<admitted, taken>>
  <2> DEFINE b == c.bot
             keys == PushBack(admitted[b], <<epoch, q>>, RECENT_TURN_CAP)
             qs == PushBack(taken[b], q, RECENT_TURN_CAP + 1)
  <2>1. ~EnqueueRefused(c, q) /\ HasId(q) /\ Admit(c, q) BY <1>6 DEF EnqueueTurn, Admit
  <2>2. c.epoch = epoch /\ <<epoch, q>> \notin ToSet(admitted[b]) BY <2>1 DEF EnqueueRefused
  <2>3. admitted' = [admitted EXCEPT ![b] = keys] /\ taken' = [taken EXCEPT ![b] = qs]
    BY <2>1, <2>2 DEF Admit
  <2>4. /\ admitted[b] \in Seq(Keys) /\ taken[b] \in Seq(Questions) /\ epoch \in Nat
        /\ admitted \in [Bots -> Seq(Keys)] /\ taken \in [Bots -> Seq(Questions)]
    BY <1>1, <1>2 DEF TurnTypes
  <2>5. keys \in Seq(Keys) /\ qs \in Seq(Questions) /\ Remembered(keys, qs, epoch)
    BY <1>1, <1>2, <2>2, <2>4, RememberNext
  <2> HIDE DEF keys, qs
  <2>6. admitted' \in [Bots -> Seq(Keys)] /\ taken' \in [Bots -> Seq(Questions)]
    BY <2>3, <2>4, <2>5
  <2>7. ASSUME NEW d \in Bots PROVE Remembered(admitted'[d], taken'[d], epoch')
    <3>1. CASE d = b
      <4>1. admitted'[d] = keys /\ taken'[d] = qs /\ epoch' = epoch BY <1>2, <1>3, <2>3, <2>4, <3>1
      <4> QED BY <2>5, <4>1
    <3>2. CASE d # b
      <4>1. admitted'[d] = admitted[d] /\ taken'[d] = taken[d] /\ epoch' = epoch
        BY <1>3, <2>3, <2>4, <3>2
      <4> QED BY <1>1, <4>1
    <3> QED BY <3>1, <3>2
  <2> QED BY <1>1, <1>2, <1>3, <1>4, <2>6, <2>7 DEF TurnInv, TurnTypes, BeatFollows
<1> QED BY <1>5, <1>6

(* The keys remembered so far are of an earlier session now. *)
LEMMA SwitchSessionKeeps == ASSUME TurnInv, SwitchSession PROVE TurnInv'
<1>1. /\ epoch \in Nat /\ epoch' = epoch + 1 /\ admitted' = admitted
      /\ taken' = [b \in Bots |-> <<>>] /\ UNCHANGED <<calls, queue, worker, beat>>
  BY DEF TurnInv, TurnTypes, SwitchSession, turnVars
<1>2. ASSUME NEW b \in Bots PROVE Remembered(admitted'[b], taken'[b], epoch')
  <2> DEFINE keys == admitted[b]
             n == Len(keys)
             m == Len(taken[b])
  <2>1. /\ keys \in Seq(Keys) /\ taken[b] \in Seq(Questions) /\ n \in Nat /\ m \in Nat
        /\ Remembered(keys, taken[b], epoch) /\ RECENT_TURN_CAP \in Nat
    BY TurnBounds DEF TurnInv, TurnTypes
  <2>2. n <= RECENT_TURN_CAP BY <2>1 DEF Remembered
  <2>3. ASSUME NEW k \in Nat, k < n PROVE Back(keys, k)[1] < epoch'
    <3>1. keys[n - k] \in Keys
      <4>1. n - k \in 1 .. n BY <2>1, <2>3
      <4> QED BY <2>1, <4>1
    <3>2. Back(keys, k)[1] \in Nat BY <3>1 DEF Keys, Back
    <3>3. CASE m <= k
      <4>1. Back(keys, k)[1] < epoch BY <2>1, <2>3, <3>3 DEF Remembered
      <4> QED BY <1>1, <3>2, <4>1
    <3>4. CASE ~(m <= k)
      <4>1. k < m BY <2>1, <3>4
      <4>2. Back(keys, k) = <<epoch, Back(taken[b], k)>> BY <2>1, <2>3, <4>1 DEF Remembered
      <4>3. Back(keys, k)[1] = epoch BY <4>2
      <4> QED BY <1>1, <4>3
    <3> QED BY <3>3, <3>4
  <2>4. taken'[b] = <<>> /\ admitted'[b] = keys BY <1>1
  <2> HIDE DEF keys
  <2>5. Len(<<>>) = 0 /\ 0 <= n /\ 0 <= RECENT_TURN_CAP + 1 /\ \A k \in Nat : ~(k < 0) BY <2>1
  <2> QED BY <2>1, <2>2, <2>3, <2>4, <2>5 DEF Remembered
<1>3. <<>> \in Seq(Questions) OBVIOUS
<1> QED BY <1>1, <1>2, <1>3 DEF TurnInv, TurnTypes, BeatFollows

LEMMA WorkerTakeKeeps == ASSUME TurnInv, NEW b \in Bots, WorkerTake(b) PROVE TurnInv'
<1> DEFINE t == [Head(queue[b]) EXCEPT !.runs = @ + 1]
           s == [at |-> "announce", res |-> "none", turn |-> t]
<1>1. queue \in [Bots -> Seq(Queued)] /\ queue[b] \in Seq(Queued) /\ queue[b] # <<>>
  BY DEF TurnInv, TurnTypes, WorkerTake
<1>2. Head(queue[b]) \in Queued /\ Tail(queue[b]) \in Seq(Queued) BY <1>1
<1>3. t \in Started BY <1>2 DEF Queued, Started, Turns
<1>4. PICK w \in {Idle, s} : worker' = [worker EXCEPT ![b] = w] BY DEF WorkerTake
<1> HIDE DEF t
<1>5. w \in Workers /\ w.at \in Quiet
  BY <1>3 DEF Idle, Workers, Working, Stages, Results, Quiet
<1>6. beat' = [beat EXCEPT ![b] = "off"]
  BY DEF WorkerTake, At, TurnInv, TurnTypes, BeatFollows, Quiet
<1>7. UNCHANGED sdkVars /\ queue' \in [Bots -> Seq(Queued)] BY <1>1, <1>2 DEF WorkerTake
<1> QED BY <1>4, <1>5, <1>6, <1>7, WorkerMoves

LEMMA AnnounceRunningKeeps == ASSUME TurnInv, NEW b \in Bots, AnnounceRunning(b) PROVE TurnInv'
<1> DEFINE w == [worker[b] EXCEPT !.at = "prepare", !.res = worker[b].res]
<1>1. worker[b] \in Working BY HoldsTurn DEF AnnounceRunning, At
<1>2. worker[b].res \in Results BY <1>1 DEF Working
<1>3. w \in Workers /\ w.at = "prepare" BY <1>1, <1>2 DEF Stages, Workers, Working
<1>4. w = [worker[b] EXCEPT !.at = "prepare"] BY <1>1 DEF Working
<1>5. worker' = [worker EXCEPT ![b] = w] BY <1>4 DEF AnnounceRunning, Goto
<1> HIDE DEF w
<1>6. beat' = [beat EXCEPT ![b] = "tick"] /\ UNCHANGED sdkVars /\ queue' \in [Bots -> Seq(Queued)]
  BY DEF AnnounceRunning, TurnInv, TurnTypes
<1> QED BY <1>3, <1>5, <1>6, WorkerMoves DEF Quiet

LEMMA PrepareKeeps == ASSUME TurnInv, NEW b \in Bots, Prepare(b) PROVE TurnInv'
<1>1. worker[b].at = "prepare" /\ UNCHANGED <<sdkVars, queue, beat>> BY DEF Prepare, At
<1>2. TurnOver(b, "Error") \/ Goto(b, "run") BY DEF Prepare
<1> QED BY <1>1, <1>2, Ends, Goes DEF Quiet, Stages, Results

LEMMA OtherRuntimeKeeps == ASSUME TurnInv, NEW b \in Bots, OtherRuntime(b) PROVE TurnInv'
<1>1. worker[b].at = "prepare" /\ UNCHANGED <<sdkVars, queue, beat>> BY DEF OtherRuntime, At
<1>2. PICK res \in Results : TurnOver(b, res) BY DEF OtherRuntime, Results
<1> QED BY <1>1, <1>2, Ends DEF Quiet

LEMMA DriveEndKeeps == ASSUME TurnInv, NEW b \in Bots, DriveEnd(b) PROVE TurnInv'
<1>1. worker[b].at = "run" /\ UNCHANGED <<sdkVars, queue, beat>> BY DEF DriveEnd, At
<1>2. TurnOver(b, Result(host[b].out)) /\ Result(host[b].out) \in Results
  BY DEF DriveEnd, Result, Results
<1> QED BY <1>1, <1>2, Ends DEF Quiet

LEMMA DriveYieldKeeps == ASSUME TurnInv, NEW b \in Bots, DriveYield(b) PROVE TurnInv'
<1>1. worker[b].at = "run" /\ UNCHANGED <<sdkVars, queue, beat>> BY DEF DriveYield, At
<1>2. TurnOver(b, "Error") \/ Goto(b, "asking") \/ Goto(b, "tool") BY DEF DriveYield
<1> QED BY <1>1, <1>2, Ends, Goes DEF Quiet, Stages, Results

LEMMA ExecuteImToolKeeps == ASSUME TurnInv, NEW b \in Bots, ExecuteImTool(b) PROVE TurnInv'
<1>1. worker[b].at = "tool" /\ UNCHANGED <<sdkVars, queue, beat>> /\ Goto(b, "run")
  BY DEF ExecuteImTool, At
<1> QED BY <1>1, Goes DEF Quiet, Stages

LEMMA AnswerCardKeeps ==
  ASSUME TurnInv, NEW b \in Bots, NEW allow \in BOOLEAN, AnswerCard(b, allow) PROVE TurnInv'
<1>1. worker[b].at = "asking" /\ UNCHANGED <<sdkVars, queue, beat>> BY DEF AnswerCard, At
<1>2. TurnOver(b, "Error") \/ Goto(b, "run") BY DEF AnswerCard
<1> QED BY <1>1, <1>2, Ends, Goes DEF Quiet, Stages, Results

LEMMA CardTimeoutKeeps == ASSUME TurnInv, NEW b \in Bots, CardTimeout(b) PROVE TurnInv'
<1>1. worker[b].at = "asking" /\ UNCHANGED <<sdkVars, queue, beat>> /\ TurnOver(b, "Error")
  BY DEF CardTimeout, At
<1> QED BY <1>1, Ends DEF Quiet, Results

(* The task ticks and sends while the turn is under way, and only then. *)
LEMMA HeartbeatKeeps ==
  ASSUME TurnInv, NEW b \in Bots, Heartbeat(b) \/ HeartbeatSent(b) PROVE TurnInv'
<1>1. PICK t \in {"tick", "sending"} : beat' = [beat EXCEPT ![b] = t]
  BY DEF Heartbeat, HeartbeatSent
<1>2. /\ worker[b] \in Workers /\ worker' = [worker EXCEPT ![b] = worker[b]] /\ UNCHANGED sdkVars
      /\ queue' \in [Bots -> Seq(Queued)]
  BY DEF Heartbeat, HeartbeatSent, TurnInv, TurnTypes
<1>3. worker[b].at \notin Quiet BY DEF Heartbeat, HeartbeatSent, TurnInv, BeatFollows
<1> QED BY <1>1, <1>2, <1>3, WorkerMoves

LEMMA StopHeartbeatKeeps == ASSUME TurnInv, NEW b \in Bots, StopHeartbeat(b) PROVE TurnInv'
<1>1. worker[b] \in Working BY HoldsTurn DEF StopHeartbeat, At
<1>2. PICK pc \in {"requeue", "reply", "settle"} :
         Goto(b, pc) /\ (pc = "requeue" => ~worker[b].turn.retried)
  BY DEF StopHeartbeat, ShouldRequeue
<1> DEFINE w == [worker[b] EXCEPT !.at = pc, !.res = worker[b].res]
<1>3. worker[b].res \in Results BY <1>1 DEF Working
<1>4. w \in Workers /\ w.at = pc BY <1>1, <1>2, <1>3 DEF Stages, Workers, Working
<1>5. w = [worker[b] EXCEPT !.at = pc] BY <1>1 DEF Working
<1>6. worker' = [worker EXCEPT ![b] = w] BY <1>2, <1>5 DEF Goto
<1> HIDE DEF w
<1>7. beat' = [beat EXCEPT ![b] = "off"] /\ UNCHANGED sdkVars /\ queue' \in [Bots -> Seq(Queued)]
  BY DEF StopHeartbeat, TurnInv, TurnTypes
<1> QED BY <1>4, <1>6, <1>7, WorkerMoves DEF Quiet

(* The turn that is queued again was run once, and says so. *)
LEMMA RequeueKeeps == ASSUME TurnInv, NEW b \in Bots, Requeue(b) PROVE TurnInv'
<1>1. worker[b] \in Working /\ worker[b].at = "requeue" BY HoldsTurn DEF Requeue, At
<1>2. UNCHANGED <<sdkVars, beat>> BY DEF Requeue
<1>3. CASE Goto(b, "settle") /\ UNCHANGED queue BY <1>1, <1>2, <1>3, Goes DEF Quiet, Stages
<1>4. CASE ~(Goto(b, "settle") /\ UNCHANGED queue)
  <2> DEFINE t == [worker[b].turn EXCEPT !.retried = TRUE]
  <2>1. t \in Queued BY <1>1 DEF Working, Started, Queued, Turns
  <2>2. /\ queue' = [queue EXCEPT ![b] = Append(@, t)] /\ worker' = [worker EXCEPT ![b] = Idle]
    BY <1>4 DEF Requeue
  <2> HIDE DEF t
  <2>3. queue' \in [Bots -> Seq(Queued)] BY <2>1, <2>2 DEF TurnInv, TurnTypes
  <2>4. Idle \in Workers /\ Idle.at \in Quiet BY DEF Idle, Workers, Quiet
  <2>5. beat' = [beat EXCEPT ![b] = "off"]
    BY <1>1, <1>2 DEF TurnInv, TurnTypes, BeatFollows, Quiet
  <2> QED BY <1>2, <2>2, <2>3, <2>4, <2>5, WorkerMoves
<1> QED BY <1>3, <1>4

LEMMA SettleKeeps ==
  ASSUME TurnInv, NEW b \in Bots, EnqueueBotReply(b) \/ Settle(b) PROVE TurnInv'
<1>1. worker[b] \in Working /\ worker[b].at \in Quiet
  BY HoldsTurn DEF EnqueueBotReply, Settle, At, Quiet
<1>2. beat' = [beat EXCEPT ![b] = "off"] /\ UNCHANGED sdkVars /\ queue' \in [Bots -> Seq(Queued)]
  BY <1>1 DEF TurnInv, TurnTypes, BeatFollows, EnqueueBotReply, Settle
<1>3. CASE Settle(b)
  <2>1. Idle \in Workers /\ Idle.at \in Quiet BY DEF Idle, Workers, Quiet
  <2>2. worker' = [worker EXCEPT ![b] = Idle] BY <1>3 DEF Settle
  <2> QED BY <1>2, <2>1, <2>2, WorkerMoves
<1>4. CASE EnqueueBotReply(b)
  <2>1. PICK res \in {"Done", "Error"} : worker' = [worker EXCEPT ![b].at = "settle", ![b].res = res]
    BY <1>4 DEF EnqueueBotReply
  <2> DEFINE w == [worker[b] EXCEPT !.at = "settle", !.res = res]
  <2>2. w \in Workers /\ w.at = "settle" BY <1>1 DEF Stages, Results, Workers, Working
  <2>3. worker' = [worker EXCEPT ![b] = w] BY <2>1
  <2> HIDE DEF w
  <2> QED BY <1>2, <2>2, <2>3, WorkerMoves DEF Quiet
<1> QED BY <1>3, <1>4

LEMMA TurnsStart == ASSUME Init PROVE TurnInv
<1>1. Idle \in Workers /\ Idle.at \in Quiet BY DEF Idle, Workers, Quiet
<1>2. /\ <<>> \in Seq(Keys) /\ <<>> \in Seq(Questions) /\ <<>> \in Seq(Queued) /\ Len(<<>>) = 0
      /\ RECENT_TURN_CAP \in Nat
  BY TurnBounds
<1>3. Remembered(<<>>, <<>>, 1)
  <2>1. \A k \in Nat : ~(k < 0) OBVIOUS
  <2> QED BY <1>2, <2>1 DEF Remembered
<1>4. TurnTypes BY <1>1, <1>2 DEF Init, TurnTypes
<1>5. BeatFollows BY <1>1 DEF Init, BeatFollows
<1> QED BY <1>3, <1>4, <1>5 DEF Init, TurnInv

LEMMA TurnsStep == ASSUME TurnInv, [Next]_vars PROVE TurnInv'
<1>1. CASE \E src \in Sources, b \in Bots : CallEnqueue(src, b) BY <1>1, CallEnqueueKeeps
<1>2. CASE \E c \in calls, q \in Questions : EnqueueTurn(c, q) BY <1>2, EnqueueTurnKeeps
<1>3. CASE SwitchSession BY <1>3, SwitchSessionKeeps
<1>4. ASSUME NEW b \in Bots, WorkerStep(b) PROVE TurnInv'
  BY <1>4, WorkerTakeKeeps, AnnounceRunningKeeps, PrepareKeeps, DriveEndKeeps, DriveYieldKeeps,
     ExecuteImToolKeeps, StopHeartbeatKeeps, RequeueKeeps, SettleKeeps DEF WorkerStep
<1>5. ASSUME NEW b \in Bots, OtherRuntime(b) \/ HostProgress(b) \/ HostStopped(b) PROVE TurnInv'
  BY <1>5, OtherRuntimeKeeps, HostOnly DEF HostProgress, HostStopped
<1>6. ASSUME NEW b \in Bots, \/ CardTimeout(b) \/ Heartbeat(b) \/ HeartbeatSent(b)
                             \/ \E allow \in BOOLEAN : AnswerCard(b, allow)
      PROVE  TurnInv'
  BY <1>6, CardTimeoutKeeps, HeartbeatKeeps, AnswerCardKeeps
<1>7. CASE UNCHANGED vars BY <1>7, HostOnly DEF vars, sdkVars
<1> QED BY <1>1, <1>2, <1>3, <1>4, <1>5, <1>6, <1>7 DEF Next

(* A key of this session is the key of a question that was admitted. *)
LEMMA RememberedOnce == ASSUME TurnInv PROVE QuestionsOnce
<1>1. NoLateHeartbeat BY DEF TurnInv, BeatFollows, NoLateHeartbeat, Quiet
<1>2. ASSUME NEW b \in Bots PROVE IsInjective(taken[b])
  <2> DEFINE qs == taken[b]
             m == Len(qs)
  <2>1. qs \in Seq(Questions) /\ m \in Nat /\ DOMAIN qs = 1 .. m BY DEF TurnInv, TurnTypes
  <2>2. \A j, k \in Nat : j < m /\ k < m /\ Back(qs, j) = Back(qs, k) => j = k
    BY DEF TurnInv, Remembered
  <2>3. ASSUME NEW i \in 1 .. m, NEW j \in 1 .. m, qs[i] = qs[j] PROVE i = j
    <3>1. m - i \in Nat /\ m - i < m /\ m - (m - i) = i BY <2>1
    <3>2. m - j \in Nat /\ m - j < m /\ m - (m - j) = j BY <2>1
    <3>3. Back(qs, m - i) = Back(qs, m - j) BY <2>3, <3>1, <3>2 DEF Back
    <3>4. m - i = m - j BY <2>2, <3>1, <3>2, <3>3
    <3> QED BY <2>1, <3>4
  <2> QED BY <2>1, <2>3 DEF IsInjective
<1>3. ASSUME NEW b \in Bots, NEW q \in Questions, <<epoch, q>> \in ToSet(admitted[b])
      PROVE  q \in ToSet(taken[b])
  <2> DEFINE keys == admitted[b]
             n == Len(keys)
             m == Len(taken[b])
  <2>1. /\ keys \in Seq(Keys) /\ taken[b] \in Seq(Questions) /\ n \in Nat /\ m \in Nat
        /\ epoch \in Nat /\ Remembered(keys, taken[b], epoch)
    BY DEF TurnInv, TurnTypes
  <2>2. PICK i \in 1 .. n : keys[i] = <<epoch, q>> BY <1>3, <2>1 DEF ToSet
  <2> DEFINE k == n - i
  <2>3. k \in Nat /\ k < n /\ n - k = i BY <2>1
  <2> HIDE DEF k
  <2>4. Back(keys, k) = <<epoch, q>> BY <2>2, <2>3 DEF Back
  <2>5. k < m
    <3> SUFFICES ASSUME m <= k PROVE FALSE BY <2>1, <2>3
    <3>1. Back(keys, k)[1] < epoch BY <2>1, <2>3 DEF Remembered
    <3>2. Back(keys, k)[1] = epoch BY <2>4
    <3> QED BY <2>1, <3>1, <3>2
  <2>6. <<epoch, q>> = <<epoch, Back(taken[b], k)>> BY <2>1, <2>3, <2>4, <2>5 DEF Remembered
  <2>7. taken[b][m - k] = q BY <2>6 DEF Back
  <2>8. DOMAIN taken[b] = 1 .. m /\ m - k \in 1 .. m BY <2>1, <2>3, <2>5
  <2> QED BY <2>7, <2>8 DEF ToSet
<1>4. RunAtMostTwice
  <2>1. ASSUME NEW b \in Bots PROVE worker[b].turn.runs <= 2
    <3>1. worker[b] \in Workers BY DEF TurnInv, TurnTypes
    <3> QED BY <3>1 DEF Workers, Working, Started, Turns, Idle, NoTurn
  <2>2. ASSUME NEW b \in Bots, NEW i \in DOMAIN queue[b] PROVE queue[b][i].runs <= 1
    <3>1. queue[b] \in Seq(Queued) BY DEF TurnInv, TurnTypes
    <3>2. queue[b][i] \in Queued BY <2>2, <3>1
    <3> QED BY <3>2 DEF Queued, Turns
  <2> QED BY <2>1, <2>2 DEF RunAtMostTwice
<1> QED BY <1>1, <1>2, <1>3, <1>4 DEF QuestionsOnce, OneTurnPerQuestion

(* Of RECENT_TURN_CAP + 1 turns admitted in a row in a session no two are  *)
(* for one question, whoever repeats it, an admitted turn is run twice at  *)
(* most although the worker may queue it again, and no sign of life        *)
(* follows it, for any number of bots, sources and questions and any       *)
(* capacity (enqueue_turn, should_requeue, stop_hb).                       *)
THEOREM TurnSafety == Spec => []QuestionsOnce
<1>1. Init => TurnInv BY TurnsStart
<1>2. TurnInv /\ [Next]_vars => TurnInv' BY TurnsStep
<1>3. TurnInv => QuestionsOnce BY RememberedOnce
<1> QED BY <1>1, <1>2, <1>3, PTL DEF Spec

-----------------------------------------------------------------------------
(***************************************************************************)
(* Profiles and provider accounts: the inductive invariant.                *)
(***************************************************************************)
(* A row that was never written is blank. *)
Rows == {NoRow} \cup [at : Nat \ {0}, by : Nat \ {0}, del : BOOLEAN, full : BOOLEAN]
RecordRows == [RecordKinds -> Rows]

Pushing == {"push spec", "wait spec", "push acct", "wait acct", "end"}
StoreStage(k) == IF k = "spec" THEN "store spec" ELSE "store acct"
PushStage(k) == IF k = "spec" THEN "push spec" ELSE "push acct"
WaitStage(k) == IF k = "spec" THEN "wait spec" ELSE "wait acct"
Keyed == {"store spec", "pushes"} \cup Pushing
SyncStages == {"asked", "accounts", "store acct", "specs"} \cup Keyed
Syncing == [pc : SyncStages, of : Accounts, remote : RecordRows, key : AccountKeys, push : RecordRows,
            dirty : BOOLEAN, failed : BOOLEAN]
Upserts == [stage : {"read", "write", "done"}, of : Accounts, kind : RecordKinds, row : Rows,
            seen : Nat]

SpecTypes ==
  /\ tab \in [SpecDevices -> [AccountKeys -> RecordRows]]
  /\ srv \in [Accounts -> RecordRows]
  /\ session \in [SpecDevices -> AccountKeys] /\ proto \in [SpecDevices -> AccountKeys]
  /\ rekeying \in [SpecDevices -> AccountKeys]
  /\ skip \in [SpecDevices -> BOOLEAN]
  /\ clean \in [SpecDevices -> BOOLEAN] /\ agreed \in [SpecDevices -> BOOLEAN]
  /\ sync \in [SpecDevices -> {NoSync} \cup Syncing]
  /\ job \in [SpecDevices -> {NoJob} \cup Upserts]
  /\ now \in Nat \ {0} /\ edits \in Nat /\ scene \in Scenes /\ crossed \in BOOLEAN

Mine(d) == tab[d][sync[d].of]
Theirs(d) == srv[sync[d].of]

(* A record is stored because it was not older than the row when that was  *)
(* loaded; an edit since has marked the sync, a switch of the account too. *)
Storing(d, k) ==
  sync[d].pc = StoreStage(k) =>
    /\ sync[d].remote[k].at > 0
    /\ ~sync[d].dirty /\ ~crossed => sync[d].remote[k].at >= Mine(d)[k].at

(* The second statement of an upsert trusts the first. *)
Upserting(d) == job[d].stage = "write" => job[d].row.at >= job[d].seen

(* A push that is waited for is at the server. *)
Awaited(d, k) ==
  Awaits(d, k) => /\ job[d] # NoJob /\ job[d].kind = k /\ job[d].of = sync[d].of
                  /\ job[d].row = sync[d].push[k]

(* What a clean sync knows of a record of kind k ...                       *)
Took(d, k) == Mine(d)[k] = sync[d].remote[k] \/ Mine(d)[k].at > sync[d].remote[k].at
Picked(d, k) ==
  \/ sync[d].push[k] = NoRow /\ Mine(d)[k] = sync[d].remote[k]
  \/ sync[d].push[k] = Mine(d)[k] /\ Mine(d)[k].at > sync[d].remote[k].at
Pushed(d, k) ==
  /\ sync[d].push[k] = Mine(d)[k] /\ Mine(d)[k].at > sync[d].remote[k].at
  /\ Theirs(d)[k] = IF job[d].stage = "done" THEN Mine(d)[k] ELSE sync[d].remote[k]
Agree(mine, theirs, sk) ==
  \/ mine = theirs
  \/ mine.at > theirs.at /\ (sk \/ ~mine.full)

(* ... by its stage.                                                       *)
Compares(d) ==
  LET pc == sync[d].pc IN
  /\ session[d] = sync[d].of
  /\ pc \in Keyed => sync[d].key = sync[d].of
  /\ pc \notin {"asked", "wait acct", "end"} => Theirs(d)["acct"] = sync[d].remote["acct"]
  /\ pc \notin {"asked", "wait spec", "push acct", "wait acct", "end"} =>
       Theirs(d)["spec"] = sync[d].remote["spec"]
  /\ pc \in {"specs", "store spec", "pushes"} => Took(d, "acct")
  /\ pc = "store spec" => sync[d].push["spec"] = NoRow
  /\ pc \in {"pushes", "push spec"} => Picked(d, "spec")
  /\ pc = "wait spec" => Pushed(d, "spec")
  /\ pc \in {"push spec", "wait spec", "push acct"} => Picked(d, "acct")
  /\ pc = "wait acct" => Pushed(d, "acct")
  /\ pc \in {"push acct", "wait acct", "end"} /\ ~sync[d].failed =>
       Agree(Mine(d)["spec"], Theirs(d)["spec"], skip[d])
  /\ pc = "end" /\ ~sync[d].failed => Mine(d)["acct"] = Theirs(d)["acct"]

Comparing(d) == clean[d] /\ sync[d] # NoSync => Compares(d)

Agreed(d) ==
  agreed[d] => /\ sync[d] = NoSync /\ session[d] \in Accounts
               /\ tab[d][session[d]]["acct"] = srv[session[d]]["acct"]
               /\ Agree(tab[d][session[d]]["spec"], srv[session[d]]["spec"], skip[d])

(* Where a row belongs: to an account, or to a device until it is rekeyed. *)
Homes == AccountKeys \X (SpecDevices \cup {NoAccount})
HomeOf(d, a) == <<a, IF a = NoAccount THEN d ELSE NoAccount>>
HomeMaps == [RecordKinds \X Nat -> Homes]

(* Every edit belongs to one home, and every copy of it is there. *)
Lives(home, k, row, h) == row.by # 0 => row.by <= edits /\ home[<<k, row.by>>] = h
AtHome(home) ==
  /\ \A d \in SpecDevices, a \in AccountKeys, k \in RecordKinds :
       Lives(home, k, tab[d][a][k], HomeOf(d, a))
  /\ \A a \in Accounts, k \in RecordKinds : Lives(home, k, srv[a][k], <<a, NoAccount>>)
  /\ \A d \in SpecDevices : sync[d] # NoSync =>
       \A k \in RecordKinds : /\ Lives(home, k, sync[d].remote[k], <<sync[d].of, NoAccount>>)
                              /\ Lives(home, k, sync[d].push[k], <<sync[d].of, NoAccount>>)
  /\ \A d \in SpecDevices : job[d] # NoJob =>
       Lives(home, job[d].kind, job[d].row, <<job[d].of, NoAccount>>)
SomeHome == ~crossed => \E home \in HomeMaps : AtHome(home)

KeyHome(d) == ~crossed /\ sync[d].pc \in Keyed => sync[d].key = sync[d].of

DeviceInv(d) ==
  /\ \A k \in RecordKinds : Storing(d, k) /\ Awaited(d, k)
  /\ Upserting(d) /\ Comparing(d) /\ Agreed(d) /\ KeyHome(d)

SpecInv == SpecTypes /\ SomeHome /\ \A d \in SpecDevices : DeviceInv(d)

-----------------------------------------------------------------------------
LEMMA RowFacts ==
  ASSUME NEW row \in Rows
  PROVE  /\ row.at \in Nat /\ row.by \in Nat /\ row.full \in BOOLEAN
         /\ row.at = 0 => row = NoRow
         /\ row.by = 0 => row = NoRow
  <1>1. CASE row = NoRow BY <1>1 DEF NoRow
  <1>2. CASE row \in [at : Nat \ {0}, by : Nat \ {0}, del : BOOLEAN, full : BOOLEAN]
    <2>1. row.at \in Nat /\ row.at # 0 /\ row.by \in Nat /\ row.by # 0 BY <1>2
    <2>2. row.full \in BOOLEAN BY <1>2
    <2> QED BY <2>1, <2>2
  <1> QED BY <1>1, <1>2 DEF Rows

LEMMA BlankRows == NoRow \in Rows /\ NoRow.at = 0 /\ NoRow.by = 0 /\ NoRows \in RecordRows
                   /\ \A k \in RecordKinds : NoRows[k] = NoRow
  BY DEF Rows, NoRow, NoRows, RecordRows

(* What a device has, read off the types. *)
LEMMA DeviceFacts ==
  ASSUME SpecTypes, NEW d \in SpecDevices
  PROVE  /\ tab[d] \in [AccountKeys -> RecordRows]
         /\ \A a \in AccountKeys, k \in RecordKinds : tab[d][a][k] \in Rows
         /\ \A a \in Accounts, k \in RecordKinds : srv[a][k] \in Rows
         /\ session[d] \in AccountKeys /\ proto[d] \in AccountKeys /\ rekeying[d] \in AccountKeys
         /\ Accounts \subseteq AccountKeys
         /\ sync[d] # NoSync => sync[d] \in Syncing
         /\ job[d] # NoJob => job[d] \in Upserts
  <1>1. tab[d] \in [AccountKeys -> RecordRows] BY DEF SpecTypes
  <1>2. \A a \in AccountKeys, k \in RecordKinds : tab[d][a][k] \in Rows BY <1>1 DEF RecordRows
  <1>3. \A a \in Accounts, k \in RecordKinds : srv[a][k] \in Rows BY DEF SpecTypes, RecordRows
  <1>4. session[d] \in AccountKeys /\ proto[d] \in AccountKeys /\ rekeying[d] \in AccountKeys
      BY DEF SpecTypes
  <1>5. Accounts \subseteq AccountKeys BY DEF AccountKeys
  <1>6. sync[d] \in {NoSync} \cup Syncing /\ job[d] \in {NoJob} \cup Upserts BY DEF SpecTypes
  <1> QED BY <1>1, <1>2, <1>3, <1>4, <1>5, <1>6

LEMMA SyncFacts ==
  ASSUME NEW s \in Syncing
  PROVE  /\ s.pc \in SyncStages /\ s.of \in Accounts /\ s.key \in AccountKeys /\ s # NoSync
         /\ s.remote \in RecordRows /\ s.push \in RecordRows
         /\ \A k \in RecordKinds : s.remote[k] \in Rows /\ s.push[k] \in Rows
         /\ s.dirty \in BOOLEAN /\ s.failed \in BOOLEAN
  <1>1. s.pc # "idle" BY DEF Syncing, SyncStages, Keyed, Pushing
  <1>2. s # NoSync BY <1>1 DEF NoSync
  <1> QED BY <1>2 DEF Syncing, RecordRows

LEMMA JobFacts ==
  ASSUME NEW j \in Upserts
  PROVE  /\ j.stage \in {"read", "write", "done"} /\ j.of \in Accounts /\ j.kind \in RecordKinds
         /\ j.row \in Rows /\ j.seen \in Nat /\ j # NoJob
  <1>1. j.stage # "none" BY DEF Upserts
  <1>2. j # NoJob BY <1>1 DEF NoJob
  <1> QED BY <1>2 DEF Upserts

LEMMA StageFacts ==
  ASSUME SpecTypes, NEW d \in SpecDevices
  PROVE  /\ sync[d].pc = "idle" <=> sync[d] = NoSync
         /\ job[d].stage = "none" <=> job[d] = NoJob
  <1>1. sync[d] # NoSync => sync[d].pc # "idle"
      BY DeviceFacts DEF Syncing, SyncStages, Keyed, Pushing
  <1>2. job[d] # NoJob => job[d].stage # "none" BY DeviceFacts DEF Upserts
  <1> QED BY <1>1, <1>2 DEF NoSync, NoJob

(* A device nothing happens to, but that the comparison is spoilt. *)
LEMMA OtherDevice ==
  ASSUME SpecTypes, NEW e \in SpecDevices, DeviceInv(e),
         tab'[e] = tab[e], sync'[e] = sync[e], job'[e] = job[e], session'[e] = session[e],
         skip'[e] = skip[e], clean'[e] => clean[e], agreed'[e] => agreed[e],
         crossed => crossed',
         (clean'[e] \/ agreed'[e]) /\ session[e] \in Accounts => srv'[session[e]] = srv[session[e]]
  PROVE  DeviceInv(e)'
  <1>1. ASSUME NEW k \in RecordKinds PROVE Storing(e, k)' /\ Awaited(e, k)'
      BY DEF DeviceInv, Storing, StoreStage, Awaited, Awaits, SyncAt, Mine
  <1>2. Upserting(e)' /\ KeyHome(e)' BY DEF DeviceInv, Upserting, KeyHome, Keyed
  <1>3. Comparing(e)'
    <2> SUFFICES ASSUME clean'[e], sync[e] # NoSync PROVE Compares(e)'
        BY DEF Comparing
    <2>1. Compares(e) BY DEF DeviceInv, Comparing
    <2>2. sync[e].of \in Accounts /\ session[e] = sync[e].of
        BY <2>1, DeviceFacts, SyncFacts DEF Compares
    <2>3. Theirs(e)' = Theirs(e) /\ Mine(e)' = Mine(e) BY <2>2 DEF Theirs, Mine
    <2> QED BY <2>1, <2>3 DEF Compares, Took, Picked, Pushed
  <1>4. Agreed(e)'
    <2> SUFFICES ASSUME agreed'[e]
                 PROVE  /\ sync[e] = NoSync /\ session[e] \in Accounts
                        /\ tab[e][session[e]]["acct"] = srv'[session[e]]["acct"]
                        /\ Agree(tab[e][session[e]]["spec"], srv'[session[e]]["spec"], skip[e])
        BY DEF Agreed
    <2> QED BY DEF DeviceInv, Agreed
  <1> QED BY <1>1, <1>2, <1>3, <1>4 DEF DeviceInv

(* A device's sync and its upsert move on, and nothing else changes. *)
LEMMA DeviceMoves ==
  ASSUME SpecInv, NEW d \in SpecDevices, NEW r \in {NoSync} \cup Syncing,
         NEW j \in {NoJob} \cup Upserts,
         sync' = [sync EXCEPT ![d] = r], job' = [job EXCEPT ![d] = j],
         UNCHANGED <<tab, srv, scene, session, rekeying, proto, now, edits>>,
         skip' \in [SpecDevices -> BOOLEAN], clean' \in [SpecDevices -> BOOLEAN],
         agreed' \in [SpecDevices -> BOOLEAN], crossed' \in BOOLEAN, crossed => crossed',
         \A e \in SpecDevices \ {d} : skip'[e] = skip[e] /\ clean'[e] = clean[e] /\ agreed'[e] = agreed[e],
         \A home \in HomeMaps : AtHome(home) /\ ~crossed' =>
           /\ r # NoSync => \A k \in RecordKinds : /\ Lives(home, k, r.remote[k], <<r.of, NoAccount>>)
                                                   /\ Lives(home, k, r.push[k], <<r.of, NoAccount>>)
           /\ j # NoJob => Lives(home, j.kind, j.row, <<j.of, NoAccount>>),
         DeviceInv(d)'
  PROVE  SpecInv'
  <1>1. SpecTypes BY DEF SpecInv
  <1>2. /\ sync' \in [SpecDevices -> {NoSync} \cup Syncing] /\ sync'[d] = r
        /\ job' \in [SpecDevices -> {NoJob} \cup Upserts] /\ job'[d] = j
        /\ \A e \in SpecDevices \ {d} : sync'[e] = sync[e] /\ job'[e] = job[e]
      BY <1>1 DEF SpecTypes
  <1>3. SpecTypes' BY <1>1, <1>2 DEF SpecTypes
  <1>4. ASSUME NEW e \in SpecDevices PROVE DeviceInv(e)'
    <2>1. CASE e = d BY <2>1
    <2>2. CASE e # d
      <3>1. DeviceInv(e) BY DEF SpecInv
      <3> QED BY <1>1, <1>2, <2>2, <3>1, OtherDevice
    <2> QED BY <2>1, <2>2
  <1>5. SomeHome'
    <2> SUFFICES ASSUME ~crossed' PROVE \E home \in HomeMaps : AtHome(home)'
        BY DEF SomeHome
    <2>1. PICK home \in HomeMaps : AtHome(home) BY DEF SpecInv, SomeHome
    <2>2. ASSUME NEW e \in SpecDevices, sync'[e] # NoSync, NEW k \in RecordKinds
          PROVE  /\ Lives(home, k, sync'[e].remote[k], <<sync'[e].of, NoAccount>>)
                 /\ Lives(home, k, sync'[e].push[k], <<sync'[e].of, NoAccount>>)
      <3>1. CASE e = d BY <1>2, <2>1, <2>2, <3>1
      <3>2. CASE e # d BY <1>2, <2>1, <2>2, <3>2 DEF AtHome
      <3> QED BY <3>1, <3>2
    <2>3. ASSUME NEW e \in SpecDevices, job'[e] # NoJob
          PROVE  Lives(home, job'[e].kind, job'[e].row, <<job'[e].of, NoAccount>>)
      <3>1. CASE e = d BY <1>2, <2>1, <2>3, <3>1
      <3>2. CASE e # d BY <1>2, <2>1, <2>3, <3>2 DEF AtHome
      <3> QED BY <3>1, <3>2
    <2>4. AtHome(home)'
      <3>1. /\ \A e \in SpecDevices, a \in AccountKeys, k \in RecordKinds :
                 Lives(home, k, tab[e][a][k], HomeOf(e, a))'
            /\ \A a \in Accounts, k \in RecordKinds : Lives(home, k, srv[a][k], <<a, NoAccount>>)'
          BY <2>1 DEF AtHome, Lives
      <3>2. \A e \in SpecDevices : sync'[e] # NoSync =>
              \A k \in RecordKinds : /\ Lives(home, k, sync[e].remote[k], <<sync[e].of, NoAccount>>)'
                                     /\ Lives(home, k, sync[e].push[k], <<sync[e].of, NoAccount>>)'
          BY <2>2 DEF Lives
      <3>3. \A e \in SpecDevices : job'[e] # NoJob =>
              Lives(home, job[e].kind, job[e].row, <<job[e].of, NoAccount>>)'
          BY <2>3 DEF Lives
      <3> QED BY <3>1, <3>2, <3>3 DEF AtHome
    <2> QED BY <2>4
  <1> QED BY <1>3, <1>4, <1>5 DEF SpecInv

(* The sync moves on by itself. *)
LEMMA SyncMoves ==
  ASSUME SpecInv, NEW d \in SpecDevices, NEW r \in {NoSync} \cup Syncing,
         SyncTo(d, r), UNCHANGED <<tab, srv, job, scene, session, rekeying, proto, now, edits>>,
         skip' \in [SpecDevices -> BOOLEAN], clean' \in [SpecDevices -> BOOLEAN],
         agreed' \in [SpecDevices -> BOOLEAN], crossed' \in BOOLEAN, crossed => crossed',
         \A e \in SpecDevices \ {d} : skip'[e] = skip[e] /\ clean'[e] = clean[e] /\ agreed'[e] = agreed[e],
         \A home \in HomeMaps : AtHome(home) /\ ~crossed' /\ r # NoSync =>
           \A k \in RecordKinds : /\ Lives(home, k, r.remote[k], <<r.of, NoAccount>>)
                                  /\ Lives(home, k, r.push[k], <<r.of, NoAccount>>),
         DeviceInv(d)'
  PROVE  SpecInv'
  <1>1. job[d] \in {NoJob} \cup Upserts /\ job' = [job EXCEPT ![d] = job[d]]
      BY DEF SpecInv, SpecTypes
  <1>2. \A home \in HomeMaps : AtHome(home) /\ job[d] # NoJob =>
          Lives(home, job[d].kind, job[d].row, <<job[d].of, NoAccount>>)
      BY DEF AtHome
  <1> QED BY <1>1, <1>2, DeviceMoves DEF SyncTo

(* Facts about the device that moves. *)
LEMMA Acting ==
  ASSUME SpecInv, NEW d \in SpecDevices
  PROVE  /\ SpecTypes /\ DeviceInv(d)
         /\ sync[d] # NoSync => ~agreed[d]
         /\ sync[d] = NoSync => sync[d].pc = "idle"
         /\ skip \in [SpecDevices -> BOOLEAN] /\ clean \in [SpecDevices -> BOOLEAN]
         /\ agreed \in [SpecDevices -> BOOLEAN] /\ crossed \in BOOLEAN
  BY DEF SpecInv, SpecTypes, DeviceInv, Agreed, NoSync

LEMMA SyncStartKeeps ==
  ASSUME SpecInv, NEW d \in SpecDevices, SyncStart(d) PROVE SpecInv'
  <1> DEFINE r == [pc |-> "asked", of |-> proto[d], remote |-> NoRows, key |-> NoAccount,
                   push |-> NoRows, dirty |-> FALSE, failed |-> FALSE]
  <1>1. SpecTypes /\ DeviceInv(d) BY Acting
  <1>2. proto[d] \in Accounts /\ proto[d] = session[d] /\ sync' = [sync EXCEPT ![d] = r]
      BY <1>1, DeviceFacts DEF SyncStart, SyncTo, AccountKeys
  <1>3. /\ r \in Syncing /\ r.pc = "asked" /\ r.of = proto[d]
        /\ \A k \in RecordKinds : r.remote[k].by = 0 /\ r.push[k].by = 0
      BY <1>2, BlankRows DEF Syncing, SyncStages, Keyed, AccountKeys
  <1> HIDE DEF r
  <1>4. sync'[d] = r BY <1>1, <1>2 DEF SpecTypes
  <1>5. /\ clean' \in [SpecDevices -> BOOLEAN] /\ agreed' \in [SpecDevices -> BOOLEAN]
        /\ ~agreed'[d]
        /\ \A e \in SpecDevices \ {d} : clean'[e] = clean[e] /\ agreed'[e] = agreed[e]
      BY <1>1 DEF SyncStart, SpecTypes
  <1>6. UNCHANGED <<tab, srv, job, scene, session, rekeying, proto, now, edits, skip, crossed>>
      BY DEF SyncStart, local, server, who
  <1>7. DeviceInv(d)'
    <2>1. Compares(d)' BY <1>2, <1>3, <1>4, <1>6 DEF Compares, Keyed, Pushing
    <2>2. ASSUME NEW k \in RecordKinds PROVE Storing(d, k)' /\ Awaited(d, k)'
        BY <1>3, <1>4 DEF Storing, StoreStage, Awaited, Awaits, SyncAt
    <2>3. Upserting(d)' BY <1>1, <1>6 DEF DeviceInv, Upserting
    <2>4. KeyHome(d)' BY <1>3, <1>4 DEF KeyHome, Keyed, Pushing
    <2> QED BY <1>5, <2>1, <2>2, <2>3, <2>4 DEF DeviceInv, Comparing, Agreed
  <1>8. SyncTo(d, r) BY <1>2 DEF SyncTo
  <1> QED BY <1>3, <1>5, <1>6, <1>7, <1>8, Acting, SyncMoves DEF Lives

LEMMA SyncFailsKeeps ==
  ASSUME SpecInv, NEW d \in SpecDevices, SyncFails(d) PROVE SpecInv'
  <1>1. SpecTypes /\ DeviceInv(d) /\ ~agreed[d] BY Acting DEF SyncFails, SyncAt, NoSync
  <1>2. SyncTo(d, NoSync) BY DEF SyncFails
  <1>3. UNCHANGED <<tab, srv, job, scene, session, rekeying, proto, now, edits, skip, clean, agreed,
                    crossed>>
      BY DEF SyncFails, Still, Steady, local, server, who, limits
  <1>4. sync'[d] = NoSync BY <1>1, <1>2 DEF SpecTypes, SyncTo
  <1>5. DeviceInv(d)'
    <2>1. sync'[d].pc = "idle" BY <1>4 DEF NoSync
    <2> QED BY <1>1, <1>3, <1>4, <2>1
        DEF DeviceInv, Storing, StoreStage, Awaited, Awaits, SyncAt, Upserting, Comparing,
           Agreed, KeyHome, Keyed, Pushing
  <1> QED BY <1>2, <1>3, <1>5, Acting, SyncMoves

(* A sync under way, and what it may rely on. *)
LEMMA InSync ==
  ASSUME SpecInv, NEW d \in SpecDevices, sync[d].pc # "idle"
  PROVE  /\ SpecTypes /\ DeviceInv(d) /\ ~agreed[d]
         /\ sync[d] \in Syncing /\ sync[d] # NoSync /\ sync[d].of \in Accounts
         /\ sync[d].key \in AccountKeys /\ sync[d].of # NoAccount
         /\ \A k \in RecordKinds : /\ sync[d].remote[k] \in Rows /\ sync[d].push[k] \in Rows
                                   /\ Mine(d)[k] \in Rows /\ Theirs(d)[k] \in Rows
         /\ clean[d] => Compares(d)
  <1>1. SpecTypes /\ DeviceInv(d) /\ ~agreed[d] /\ sync[d] # NoSync BY Acting DEF NoSync
  <1>2. sync[d] \in Syncing BY <1>1, DeviceFacts
  <1>3. /\ sync[d].of \in Accounts /\ sync[d].key \in AccountKeys
        /\ \A k \in RecordKinds : sync[d].remote[k] \in Rows /\ sync[d].push[k] \in Rows
      BY <1>2, SyncFacts
  <1>4. \A k \in RecordKinds : Mine(d)[k] \in Rows /\ Theirs(d)[k] \in Rows
      BY <1>1, <1>3, DeviceFacts DEF Mine, Theirs
  <1>5. clean[d] => Compares(d) BY <1>1 DEF DeviceInv, Comparing
  <1> QED BY <1>1, <1>2, <1>3, <1>4, <1>5, SpecsAssumption

(* The rows a sync under way holds are of its account. *)
LEMMA Held ==
  ASSUME NEW d \in SpecDevices, sync[d] # NoSync, sync[d].of \in Accounts,
         sync[d].of # NoAccount, NEW home, AtHome(home)
  PROVE  \A k \in RecordKinds :
           /\ Lives(home, k, sync[d].remote[k], <<sync[d].of, NoAccount>>)
           /\ Lives(home, k, sync[d].push[k], <<sync[d].of, NoAccount>>)
           /\ Lives(home, k, Mine(d)[k], <<sync[d].of, NoAccount>>)
           /\ Lives(home, k, Theirs(d)[k], <<sync[d].of, NoAccount>>)
           /\ Lives(home, k, NoRow, <<sync[d].of, NoAccount>>)
  <1>1. NoRow.by = 0 BY BlankRows
  <1>2. sync[d].of \in AccountKeys BY DEF AccountKeys
  <1> QED BY <1>1, <1>2 DEF AtHome, Mine, Theirs, HomeOf, Lives

LEMMA SyncAnsweredKeeps ==
  ASSUME SpecInv, NEW d \in SpecDevices, SyncAnswered(d) PROVE SpecInv'
  <1> DEFINE s == sync[d]
             r == [s EXCEPT !.pc = "accounts", !.remote = DoAgentSpecSync(s.of)]
  <1>1. s.pc = "asked" BY DEF SyncAnswered, SyncAt
  <1>2. /\ SpecTypes /\ DeviceInv(d) /\ ~agreed[d] /\ s \in Syncing /\ s # NoSync
        /\ s.of \in Accounts
        /\ s.of # NoAccount
        /\ (clean[d] => Compares(d)) /\ \A k \in RecordKinds : Theirs(d)[k] \in Rows
      BY <1>1, InSync
  <1>3. /\ DoAgentSpecSync(s.of) \in RecordRows
        /\ \A k \in RecordKinds : DoAgentSpecSync(s.of)[k] = Theirs(d)[k]
      BY <1>2 DEF DoAgentSpecSync, RecordKinds, RecordRows, ListSpec, ListAccount, Theirs
  <1>4. /\ r \in Syncing /\ r.pc = "accounts" /\ r.of = s.of /\ r.push = s.push
        /\ \A k \in RecordKinds : r.remote[k] = Theirs(d)[k]
      BY <1>2, <1>3 DEF Syncing, SyncStages, Keyed
  <1>5. SyncTo(d, r) BY DEF SyncAnswered
  <1> HIDE DEF r
  <1>6. UNCHANGED <<tab, srv, job, scene, session, rekeying, proto, now, edits, skip, clean, agreed,
                    crossed>>
      BY DEF SyncAnswered, Still, Steady, local, server, who, limits
  <1>7. sync'[d] = r BY <1>2, <1>5 DEF SpecTypes, SyncTo
  <1>8. DeviceInv(d)'
    <2>1. Theirs(d)' = Theirs(d) BY <1>4, <1>6, <1>7 DEF Theirs
    <2>2. clean[d] => session[d] = s.of BY <1>2 DEF Compares
    <2>3. clean'[d] => Compares(d)'
        BY <1>4, <1>6, <1>7, <2>1, <2>2 DEF Compares, Keyed, Pushing, RecordKinds
    <2>4. ASSUME NEW k \in RecordKinds PROVE Storing(d, k)' /\ Awaited(d, k)'
        BY <1>4, <1>7 DEF Storing, StoreStage, Awaited, Awaits, SyncAt
    <2>5. Upserting(d)' BY <1>2, <1>6 DEF DeviceInv, Upserting
    <2>6. KeyHome(d)' BY <1>4, <1>7 DEF KeyHome, Keyed, Pushing
    <2> QED BY <1>2, <1>6, <2>3, <2>4, <2>5, <2>6 DEF DeviceInv, Comparing, Agreed
  <1>9. \A home \in HomeMaps : AtHome(home) /\ ~crossed' /\ r # NoSync =>
           \A k \in RecordKinds : /\ Lives(home, k, r.remote[k], <<r.of, NoAccount>>)
                                  /\ Lives(home, k, r.push[k], <<r.of, NoAccount>>)
      BY <1>2, <1>4, Held
  <1> QED BY <1>4, <1>5, <1>6, <1>8, <1>9, Acting, SyncMoves

LEMMA ApplyAccountsLoadKeeps ==
  ASSUME SpecInv, NEW d \in SpecDevices, ApplyAccountsLoad(d) PROVE SpecInv'
  <1> DEFINE s == sync[d]
             a == session[d]
             take == NotOlder(s.remote["acct"], tab[d][a]["acct"])
             pc == IF take THEN "store acct" ELSE "specs"
             r == [s EXCEPT !.dirty = FALSE, !.pc = pc]
  <1>1. s.pc = "accounts" BY DEF ApplyAccountsLoad, SyncAt
  <1>2. /\ SpecTypes /\ DeviceInv(d) /\ ~agreed[d] /\ s \in Syncing /\ s # NoSync
        /\ s.of \in Accounts
        /\ s.of # NoAccount /\ (clean[d] => Compares(d))
        /\ \A k \in RecordKinds : s.remote[k] \in Rows /\ Mine(d)[k] \in Rows /\ Theirs(d)[k] \in Rows
      BY <1>1, InSync
  <1>3. pc \in {"store acct", "specs"} OBVIOUS
  <1>4. /\ r \in Syncing /\ r.pc = pc /\ r.of = s.of /\ r.push = s.push /\ r.remote = s.remote
      BY <1>2, <1>3 DEF Syncing, SyncStages, Keyed
  <1>5. SyncTo(d, r) BY DEF ApplyAccountsLoad, AgentAccountKey, LoadAccount
  <1> HIDE DEF r
  <1>6. UNCHANGED <<tab, srv, job, scene, session, rekeying, proto, now, edits, skip, clean,
                    agreed>>
      BY DEF ApplyAccountsLoad, Still, Steady, local, server, who, limits
  <1>7. sync'[d] = r BY <1>2, <1>5 DEF SpecTypes, SyncTo
  <1>8. /\ crossed \in BOOLEAN /\ crossed' \in BOOLEAN /\ (crossed => crossed')
        /\ (~crossed' => a = s.of)
      BY Acting DEF ApplyAccountsLoad, Crosses, AgentAccountKey
  <1>9. a = s.of => tab[d][a]["acct"] = Mine(d)["acct"] BY DEF Mine
  <1>10. DeviceInv(d)'
    <2>1. Theirs(d)' = Theirs(d) /\ Mine(d)' = Mine(d) BY <1>4, <1>6, <1>7 DEF Theirs, Mine
    <2>2. "acct" \in RecordKinds BY DEF RecordKinds
    <2>3. /\ s.remote["acct"].at \in Nat /\ Mine(d)["acct"].at \in Nat
          /\ (s.remote["acct"].at = 0 => s.remote["acct"] = NoRow)
          /\ (Mine(d)["acct"].at = 0 => Mine(d)["acct"] = NoRow)
        BY <1>2, <2>2, RowFacts
    <2>4. ~take /\ a = s.of => Took(d, "acct") BY <1>9, <2>3 DEF NotOlder, Took
    <2>5. clean[d] => a = s.of /\ \A k \in RecordKinds : Theirs(d)[k] = s.remote[k]
        BY <1>1, <1>2 DEF Compares, RecordKinds
    <2>6. clean'[d] => Compares(d)'
        BY <1>3, <1>4, <1>6, <1>7, <2>1, <2>2, <2>4, <2>5
        DEF Compares, Keyed, Pushing, RecordKinds, Took
    <2>7. take => s.remote["acct"].at > 0 /\ (~crossed' => s.remote["acct"].at >= Mine(d)["acct"].at)
        BY <1>8, <1>9 DEF NotOlder
    <2>8. ASSUME NEW k \in RecordKinds PROVE Storing(d, k)'
        BY <1>4, <1>7, <2>1, <2>7 DEF Storing, StoreStage, RecordKinds
    <2>9. ASSUME NEW k \in RecordKinds PROVE Awaited(d, k)'
        BY <1>3, <1>4, <1>7 DEF Awaited, Awaits, SyncAt
    <2>10. Upserting(d)' BY <1>2, <1>6 DEF DeviceInv, Upserting
    <2>11. KeyHome(d)' BY <1>3, <1>4, <1>7 DEF KeyHome, Keyed, Pushing
    <2> QED BY <1>2, <1>6, <2>6, <2>8, <2>9, <2>10, <2>11 DEF DeviceInv, Comparing, Agreed
  <1>11. \A home \in HomeMaps : AtHome(home) /\ ~crossed' /\ r # NoSync =>
           \A k \in RecordKinds : /\ Lives(home, k, r.remote[k], <<r.of, NoAccount>>)
                                  /\ Lives(home, k, r.push[k], <<r.of, NoAccount>>)
      BY <1>2, <1>4, Held
  <1> QED BY <1>4, <1>5, <1>6, <1>8, <1>10, <1>11, Acting, SyncMoves

LEMMA SpecsLoadKeeps ==
  ASSUME SpecInv, NEW d \in SpecDevices, SpecsLoad(d) PROVE SpecInv'
  <1> DEFINE s == sync[d]
             a == session[d]
             mine == tab[d][a]["spec"]
             take == NotOlder(s.remote["spec"], mine)
             pc == IF take THEN "store spec" ELSE "pushes"
             row == IF take THEN NoRow ELSE mine
             push == [s.push EXCEPT !["spec"] = row]
             r == [s EXCEPT !.dirty = FALSE, !.key = a, !.pc = pc, !.push = push]
  <1>1. s.pc = "specs" BY DEF SpecsLoad, SyncAt
  <1>2. /\ SpecTypes /\ DeviceInv(d) /\ ~agreed[d] /\ s \in Syncing /\ s # NoSync
        /\ s.of \in Accounts
        /\ s.of # NoAccount /\ (clean[d] => Compares(d))
        /\ \A k \in RecordKinds : s.remote[k] \in Rows /\ Mine(d)[k] \in Rows /\ Theirs(d)[k] \in Rows
      BY <1>1, InSync
  <1>3. pc \in {"store spec", "pushes"} OBVIOUS
  <1>4. "spec" \in RecordKinds /\ "acct" \in RecordKinds BY DEF RecordKinds
  <1>5. a \in AccountKeys /\ row \in Rows
      BY <1>2, <1>4, DeviceFacts, BlankRows
  <1>6. s.push \in RecordRows BY <1>2, SyncFacts
  <1>7. push \in RecordRows /\ push["spec"] = row /\ push["acct"] = s.push["acct"]
      BY <1>4, <1>5, <1>6 DEF RecordRows
  <1>8. SyncTo(d, r) BY DEF SpecsLoad, AgentAccountKey, LoadProfile
  <1>9. /\ r \in Syncing /\ r.pc = pc /\ r.of = s.of /\ r.push = push /\ r.remote = s.remote
        /\ r.key = a
    <2> HIDE DEF push, pc
    <2> QED BY <1>2, <1>3, <1>5, <1>7 DEF Syncing, SyncStages, Keyed
  <1> HIDE DEF r, push
  <1>10. UNCHANGED <<tab, srv, job, scene, session, rekeying, proto, now, edits, skip, clean,
                     agreed>>
      BY DEF SpecsLoad, Still, Steady, local, server, who, limits
  <1>11. sync'[d] = r BY <1>2, <1>8 DEF SpecTypes, SyncTo
  <1>12. /\ crossed \in BOOLEAN /\ crossed' \in BOOLEAN /\ (crossed => crossed')
         /\ (~crossed' => a = s.of)
      BY Acting DEF SpecsLoad, Crosses, AgentAccountKey
  <1>13. a = s.of => mine = Mine(d)["spec"] BY DEF Mine
  <1>14. DeviceInv(d)'
    <2>1. Theirs(d)' = Theirs(d) /\ Mine(d)' = Mine(d) BY <1>9, <1>10, <1>11 DEF Theirs, Mine
    <2>2. /\ s.remote["spec"].at \in Nat /\ Mine(d)["spec"].at \in Nat
          /\ (s.remote["spec"].at = 0 => s.remote["spec"] = NoRow)
          /\ (Mine(d)["spec"].at = 0 => Mine(d)["spec"] = NoRow)
        BY <1>2, <1>4, RowFacts
    <2>3. clean[d] => /\ a = s.of /\ \A k \in RecordKinds : Theirs(d)[k] = s.remote[k]
                      /\ Took(d, "acct")
        BY <1>1, <1>2 DEF Compares, RecordKinds
    <2>4. ~take /\ a = s.of =>
            \/ row = NoRow /\ Mine(d)["spec"] = s.remote["spec"]
            \/ row = Mine(d)["spec"] /\ Mine(d)["spec"].at > s.remote["spec"].at
        BY <1>13, <2>2 DEF NotOlder
    <2>5. take => row = NoRow OBVIOUS
    <2>6. ASSUME clean[d] PROVE Compares(d)'
      <3>1. take => pc = "store spec" OBVIOUS
      <3>2. ~take => pc = "pushes" OBVIOUS
      <3> HIDE DEF take, row, pc, mine
      <3>3. CASE take
          BY <1>4, <1>7, <1>9, <1>10, <1>11, <2>1, <2>3, <2>5, <2>6, <3>1, <3>3
          DEF Compares, Keyed, Pushing, Took
      <3>4. CASE ~take
        <4>1. Picked(d, "spec")'
            BY <1>7, <1>9, <1>11, <2>1, <2>3, <2>4, <2>6, <3>4 DEF Picked
        <4> QED BY <1>4, <1>9, <1>10, <1>11, <2>1, <2>3, <2>6, <3>2, <3>4, <4>1
            DEF Compares, Keyed, Pushing, Took
      <3> QED BY <3>3, <3>4
    <2>7. take => s.remote["spec"].at > 0 /\ (~crossed' => s.remote["spec"].at >= Mine(d)["spec"].at)
        BY <1>12, <1>13 DEF NotOlder
    <2>8. ASSUME NEW k \in RecordKinds PROVE Storing(d, k)'
        BY <1>9, <1>11, <2>1, <2>7 DEF Storing, StoreStage, RecordKinds
    <2>9. ASSUME NEW k \in RecordKinds PROVE Awaited(d, k)'
        BY <1>3, <1>9, <1>11 DEF Awaited, Awaits, SyncAt
    <2>10. Upserting(d)' BY <1>2, <1>10 DEF DeviceInv, Upserting
    <2>11. KeyHome(d)' BY <1>9, <1>11, <1>12 DEF KeyHome, Keyed
    <2> QED BY <1>2, <1>10, <2>6, <2>8, <2>9, <2>10, <2>11 DEF DeviceInv, Comparing, Agreed
  <1>15. ASSUME NEW home \in HomeMaps, AtHome(home), ~crossed', NEW k \in RecordKinds
         PROVE  /\ Lives(home, k, r.remote[k], <<r.of, NoAccount>>)
                /\ Lives(home, k, r.push[k], <<r.of, NoAccount>>)
    <2>1. row \in {NoRow, Mine(d)["spec"]} BY <1>12, <1>13, <1>15
    <2> HIDE DEF row
    <2>2. /\ Lives(home, k, s.remote[k], <<s.of, NoAccount>>)
          /\ Lives(home, k, s.push[k], <<s.of, NoAccount>>)
          /\ Lives(home, "spec", row, <<s.of, NoAccount>>)
        BY <1>2, <1>4, <1>15, <2>1, Held
    <2> QED BY <1>7, <1>9, <2>2 DEF RecordKinds
  <1> QED BY <1>8, <1>9, <1>10, <1>12, <1>14, <1>15, Acting, SyncMoves

LEMMA PushesLoadKeeps ==
  ASSUME SpecInv, NEW d \in SpecDevices, PushesLoad(d) PROVE SpecInv'
  <1> DEFINE s == sync[d]
             mine == tab[d][s.key]["acct"]
             newer == AccountIsNewer(d, mine)
             row == IF newer THEN mine ELSE NoRow
             push == [s.push EXCEPT !["acct"] = row]
             r == [s EXCEPT !.pc = "push spec", !.push = push]
  <1>1. s.pc = "pushes" BY DEF PushesLoad, SyncAt
  <1>2. /\ SpecTypes /\ DeviceInv(d) /\ ~agreed[d] /\ s \in Syncing /\ s # NoSync
        /\ s.of \in Accounts
        /\ s.of # NoAccount /\ s.key \in AccountKeys /\ (clean[d] => Compares(d))
        /\ \A k \in RecordKinds : s.remote[k] \in Rows /\ Mine(d)[k] \in Rows /\ Theirs(d)[k] \in Rows
      BY <1>1, InSync
  <1>3. "spec" \in RecordKinds /\ "acct" \in RecordKinds BY DEF RecordKinds
  <1>4. row \in Rows BY <1>2, <1>3, DeviceFacts, BlankRows
  <1>5. s.push \in RecordRows BY <1>2, SyncFacts
  <1>6. push \in RecordRows /\ push["acct"] = row /\ push["spec"] = s.push["spec"]
      BY <1>3, <1>4, <1>5 DEF RecordRows
  <1>7. SyncTo(d, r) BY DEF PushesLoad, LoadAccount
  <1>8. /\ r \in Syncing /\ r.pc = "push spec" /\ r.of = s.of /\ r.push = push
        /\ r.remote = s.remote
        /\ r.key = s.key
    <2> HIDE DEF push
    <2> QED BY <1>2, <1>6 DEF Syncing, SyncStages, Keyed, Pushing
  <1> HIDE DEF r, push
  <1>9. UNCHANGED <<tab, srv, job, scene, session, rekeying, proto, now, edits, skip, clean, agreed,
                    crossed>>
      BY DEF PushesLoad, Still, Steady, local, server, who, limits
  <1>10. sync'[d] = r BY <1>2, <1>7 DEF SpecTypes, SyncTo
  <1>11. ~crossed => s.key = s.of BY <1>1, <1>2 DEF DeviceInv, KeyHome, Keyed
  <1>12. s.key = s.of => mine = Mine(d)["acct"] BY DEF Mine
  <1>13. DeviceInv(d)'
    <2>1. Theirs(d)' = Theirs(d) /\ Mine(d)' = Mine(d) BY <1>8, <1>9, <1>10 DEF Theirs, Mine
    <2>2. /\ s.remote["acct"].at \in Nat /\ Mine(d)["acct"].at \in Nat
        BY <1>2, <1>3, RowFacts
    <2>3. clean[d] => /\ session[d] = s.of /\ s.key = s.of
                      /\ \A k \in RecordKinds : Theirs(d)[k] = s.remote[k]
                      /\ Took(d, "acct") /\ Picked(d, "spec")
        BY <1>1, <1>2 DEF Compares, Keyed, RecordKinds
    <2>4. ASSUME clean[d] PROVE Picked(d, "acct")'
      <3>1. mine = Mine(d)["acct"] BY <1>12, <2>3, <2>4
      <3>2. newer <=> mine.at > 0 /\ s.remote["acct"].at < mine.at BY DEF AccountIsNewer
      <3>3. \/ row = NoRow /\ Mine(d)["acct"] = s.remote["acct"]
            \/ row = Mine(d)["acct"] /\ Mine(d)["acct"].at > s.remote["acct"].at
          BY <2>2, <2>3, <2>4, <3>1, <3>2 DEF Took
      <3> HIDE DEF row
      <3> QED BY <1>6, <1>8, <1>10, <2>1, <3>3 DEF Picked
    <2>5. ASSUME clean[d] PROVE Picked(d, "spec")'
        BY <1>6, <1>8, <1>10, <2>1, <2>3, <2>5 DEF Picked
    <2>6. clean'[d] => Compares(d)'
        BY <1>3, <1>8, <1>9, <1>10, <2>1, <2>3, <2>4, <2>5 DEF Compares, Keyed, Pushing
    <2>7. ASSUME NEW k \in RecordKinds PROVE Storing(d, k)' /\ Awaited(d, k)'
        BY <1>8, <1>10 DEF Storing, StoreStage, Awaited, Awaits, SyncAt
    <2>8. Upserting(d)' BY <1>2, <1>9 DEF DeviceInv, Upserting
    <2>9. KeyHome(d)' BY <1>8, <1>9, <1>10, <1>11 DEF KeyHome, Keyed
    <2> QED BY <1>2, <1>9, <2>6, <2>7, <2>8, <2>9 DEF DeviceInv, Comparing, Agreed
  <1>14. ASSUME NEW home \in HomeMaps, AtHome(home), ~crossed', NEW k \in RecordKinds
         PROVE  /\ Lives(home, k, r.remote[k], <<r.of, NoAccount>>)
                /\ Lives(home, k, r.push[k], <<r.of, NoAccount>>)
    <2>1. row \in {NoRow, Mine(d)["acct"]} BY <1>9, <1>11, <1>12, <1>14
    <2> HIDE DEF row
    <2>2. /\ Lives(home, k, s.remote[k], <<s.of, NoAccount>>)
          /\ Lives(home, k, s.push[k], <<s.of, NoAccount>>)
          /\ Lives(home, "acct", row, <<s.of, NoAccount>>)
        BY <1>2, <1>3, <1>14, <2>1, Held
    <2> QED BY <1>6, <1>8, <2>2 DEF RecordKinds
  <1> QED BY <1>7, <1>8, <1>9, <1>13, <1>14, Acting, SyncMoves

(* The steps after the rows are picked change the stage, and the failure.  *)
LEMMA StageMoves ==
  ASSUME SpecInv, NEW d \in SpecDevices, sync[d].pc \in Pushing, NEW pc \in Pushing,
         NEW failed \in BOOLEAN,
         SyncTo(d, [sync[d] EXCEPT !.pc = pc, !.failed = failed]),
         pc \notin {"wait spec", "wait acct"},
         UNCHANGED <<tab, srv, scene, session, rekeying, proto, now, edits, clean, agreed,
                     crossed>>,
         NEW j \in {NoJob, job[d]}, job' = [job EXCEPT ![d] = j],
         skip' \in [SpecDevices -> BOOLEAN], \A e \in SpecDevices \ {d} : skip'[e] = skip[e],
         clean[d] => Compares(d)'
  PROVE  SpecInv'
  <1> DEFINE s == sync[d]
             r == [s EXCEPT !.pc = pc, !.failed = failed]
  <1>1. s.pc # "idle" BY DEF Keyed, Pushing
  <1>2. /\ SpecTypes /\ DeviceInv(d) /\ ~agreed[d] /\ s \in Syncing /\ s # NoSync
        /\ s.of \in Accounts
        /\ s.of # NoAccount
      BY <1>1, InSync
  <1>3. /\ r \in Syncing /\ r.pc = pc /\ r.of = s.of /\ r.push = s.push /\ r.remote = s.remote
        /\ r.key = s.key
      BY <1>2 DEF Syncing, SyncStages, Keyed
  <1>4. sync' = [sync EXCEPT ![d] = r] BY DEF SyncTo
  <1> HIDE DEF r
  <1>5. sync'[d] = r BY <1>2, <1>4 DEF SpecTypes
  <1>6. job[d] \in {NoJob} \cup Upserts /\ job'[d] = j BY <1>2 DEF SpecTypes
  <1>7. DeviceInv(d)'
    <2>1. ASSUME NEW k \in RecordKinds PROVE Storing(d, k)' /\ Awaited(d, k)'
        BY <1>3, <1>5 DEF Storing, StoreStage, Awaited, Awaits, SyncAt, Keyed, Pushing
    <2>2. Upserting(d)'
      <3>1. CASE j = NoJob
        <4>1. NoJob.stage = "none" BY DEF NoJob
        <4>2. job'[d] = NoJob BY <1>6, <3>1
        <4> HIDE DEF NoJob
        <4> QED BY <4>1, <4>2 DEF Upserting
      <3>2. CASE j = job[d] BY <1>2, <1>6, <3>2 DEF DeviceInv, Upserting
      <3> QED BY <3>1, <3>2
    <2>3. KeyHome(d)' BY <1>2, <1>3, <1>5 DEF DeviceInv, KeyHome, Keyed
    <2> QED BY <1>2, <2>1, <2>2, <2>3 DEF DeviceInv, Comparing, Agreed
  <1>8. ASSUME NEW home \in HomeMaps, AtHome(home)
        PROVE  /\ \A k \in RecordKinds : /\ Lives(home, k, r.remote[k], <<r.of, NoAccount>>)
                                         /\ Lives(home, k, r.push[k], <<r.of, NoAccount>>)
               /\ j # NoJob => Lives(home, j.kind, j.row, <<j.of, NoAccount>>)
    <2>1. \A k \in RecordKinds : /\ Lives(home, k, r.remote[k], <<r.of, NoAccount>>)
                                 /\ Lives(home, k, r.push[k], <<r.of, NoAccount>>)
        BY <1>2, <1>3, <1>8, Held
    <2>2. j # NoJob => Lives(home, j.kind, j.row, <<j.of, NoAccount>>) BY <1>8 DEF AtHome
    <2> QED BY <2>1, <2>2
  <1> QED BY <1>3, <1>4, <1>6, <1>7, <1>8, Acting, DeviceMoves

LEMMA PushNoSpecKeeps ==
  ASSUME SpecInv, NEW d \in SpecDevices, PushNoSpec(d) PROVE SpecInv'
  <1> DEFINE s == sync[d]
             r == [s EXCEPT !.pc = "push acct", !.failed = s.failed]
  <1>1. s.pc = "push spec" BY DEF PushNoSpec, SyncAt
  <1>2. /\ SpecTypes /\ s \in Syncing /\ (clean[d] => Compares(d))
        /\ \A k \in RecordKinds : s.push[k] \in Rows /\ s.remote[k] \in Rows
      BY <1>1, InSync
  <1>3. s.failed \in BOOLEAN BY <1>2, SyncFacts
  <1>4. [s EXCEPT !.pc = "push acct"] = r BY <1>2 DEF Syncing
  <1>5. SyncTo(d, r) BY <1>4 DEF PushNoSpec, SyncStep
  <1>6. /\ r.pc = "push acct" /\ r.of = s.of /\ r.push = s.push /\ r.remote = s.remote
        /\ r.key = s.key
      BY <1>2 DEF Syncing
  <1> HIDE DEF r
  <1>7. sync'[d] = r BY <1>2, <1>5 DEF SpecTypes, SyncTo
  <1>8. UNCHANGED <<tab, srv, job, scene, session, rekeying, proto, now, edits, skip, clean, agreed,
                    crossed>>
      BY DEF PushNoSpec, Still, Steady, local, server, who, limits
  <1>9. Theirs(d)' = Theirs(d) /\ Mine(d)' = Mine(d) BY <1>6, <1>7, <1>8 DEF Theirs, Mine
  <1>10. ASSUME clean[d] PROVE Compares(d)'
    <2>1. /\ session[d] = s.of /\ s.key = s.of /\ Theirs(d)["acct"] = s.remote["acct"]
          /\ Theirs(d)["spec"] = s.remote["spec"] /\ Picked(d, "spec") /\ Picked(d, "acct")
        BY <1>1, <1>2, <1>10 DEF Compares, Keyed, Pushing
    <2>2. s.push["spec"].at > 0 => ~s.push["spec"].full \/ skip[d]
        BY DEF PushNoSpec, SpecIsPushed
    <2>3. /\ s.push["spec"].at \in Nat /\ s.remote["spec"].at \in Nat
        BY <1>2, RowFacts DEF RecordKinds
    <2>4. Agree(Mine(d)["spec"], Theirs(d)["spec"], skip[d])
        BY <2>1, <2>2, <2>3 DEF Picked, Agree
    <2>5. Picked(d, "acct")' BY <1>6, <1>7, <1>9, <2>1 DEF Picked
    <2> QED BY <1>6, <1>7, <1>8, <1>9, <2>1, <2>4, <2>5 DEF Compares, Keyed, Pushing
  <1>11. job[d] \in {NoJob, job[d]} /\ job' = [job EXCEPT ![d] = job[d]]
      BY <1>2, <1>8 DEF SpecTypes
  <1> QED BY <1>1, <1>3, <1>5, <1>8, <1>10, <1>11, Acting, StageMoves DEF Keyed, Pushing, r

LEMMA PushFailsKeeps ==
  ASSUME SpecInv, NEW d \in SpecDevices, PushFails(d) PROVE SpecInv'
  <1> DEFINE s == sync[d]
             pc == IF s.pc = "wait spec" THEN "push acct" ELSE "end"
             r == [s EXCEPT !.pc = pc, !.failed = TRUE]
  <1>1. s.pc \in {"wait spec", "wait acct"} BY DEF PushFails, SyncAt
  <1>2. /\ SpecTypes /\ s \in Syncing /\ (clean[d] => Compares(d))
      BY <1>1, InSync
  <1>3. SyncTo(d, r) BY <1>1 DEF PushFails, SyncAt
  <1>4. pc \in {"push acct", "end"} OBVIOUS
  <1>5. /\ r.pc = pc /\ r.of = s.of /\ r.push = s.push /\ r.remote = s.remote /\ r.key = s.key
        /\ r.failed = TRUE
    <2> HIDE DEF pc
    <2> QED BY <1>2 DEF Syncing
  <1>6. /\ UNCHANGED <<tab, srv, job, scene, session, rekeying, proto, now, edits, clean, agreed,
                       crossed>>
        /\ skip' \in [SpecDevices -> BOOLEAN] /\ \A e \in SpecDevices \ {d} : skip'[e] = skip[e]
    <2>1. CASE s.pc = "wait spec"
      <3>1. PICK b \in BOOLEAN : skip' = [skip EXCEPT ![d] = @ \/ ~b]
          BY <2>1 DEF PushFails, SyncAt
      <3>2. UNCHANGED <<tab, srv, job, scene, session, rekeying, proto, now, edits, clean,
                        agreed, crossed>>
          BY <2>1 DEF PushFails, SyncAt, Steady, server, who, limits
      <3> QED BY <1>2, <3>1, <3>2 DEF SpecTypes
    <2>2. CASE s.pc = "wait acct"
        BY <1>2, <2>2 DEF PushFails, SyncAt, Still, Steady, local, server, who, limits, SpecTypes
    <2> QED BY <1>1, <2>1, <2>2
  <1> HIDE DEF r
  <1>7. sync'[d] = r BY <1>2, <1>3 DEF SpecTypes, SyncTo
  <1>8. Theirs(d)' = Theirs(d) /\ Mine(d)' = Mine(d) BY <1>5, <1>6, <1>7 DEF Theirs, Mine
  <1>9. ASSUME clean[d] PROVE Compares(d)'
    <2>1. session[d] = s.of /\ s.key = s.of BY <1>1, <1>2, <1>9 DEF Compares, Keyed, Pushing
    <2>2. s.pc = "wait spec" => Theirs(d)["acct"] = s.remote["acct"] /\ Picked(d, "acct")
        BY <1>2, <1>9 DEF Compares
    <2>3. s.pc = "wait spec" => Picked(d, "acct")' BY <1>5, <1>7, <1>8, <2>2 DEF Picked
    <2> QED BY <1>1, <1>5, <1>6, <1>7, <1>8, <2>1, <2>2, <2>3 DEF Compares, Keyed, Pushing
  <1>10. job[d] \in {NoJob, job[d]} /\ job' = [job EXCEPT ![d] = job[d]]
      BY <1>2, <1>6 DEF SpecTypes
  <1>11. pc \in Pushing /\ pc \notin {"wait spec", "wait acct"} /\ s.pc \in Pushing
      BY <1>1, <1>4 DEF Keyed, Pushing
  <1> HIDE DEF pc
  <1> QED BY <1>3, <1>6, <1>9, <1>10, <1>11, StageMoves DEF r

LEMMA SyncEndsKeeps ==
  ASSUME SpecInv, NEW d \in SpecDevices, SyncEnds(d) PROVE SpecInv'
  <1> DEFINE s == sync[d]
  <1>1. s.pc = "end" \/ (s.pc = "push acct" /\ s.push["acct"].at = 0) BY DEF SyncEnds, SyncAt
  <1>2. /\ SpecTypes /\ DeviceInv(d) /\ s \in Syncing /\ s.of \in Accounts /\ (clean[d] => Compares(d))
        /\ \A k \in RecordKinds : Mine(d)[k] \in Rows /\ s.remote[k] \in Rows
      BY <1>1, InSync
  <1>3. SyncTo(d, NoSync) BY DEF SyncEnds
  <1>4. UNCHANGED <<tab, srv, job, scene, session, rekeying, proto, now, edits, skip, clean,
                    crossed>>
      BY DEF SyncEnds, Still, local, server, who, limits
  <1>5. sync'[d] = NoSync BY <1>2, <1>3 DEF SpecTypes, SyncTo
  <1>6. (clean[d] /\ ~s.failed) \in BOOLEAN OBVIOUS
  <1>7. /\ agreed' \in [SpecDevices -> BOOLEAN] /\ agreed'[d] = (clean[d] /\ ~s.failed)
        /\ \A e \in SpecDevices \ {d} : agreed'[e] = agreed[e]
      BY <1>2, <1>6 DEF SyncEnds, SpecTypes
  <1>8. Agreed(d)'
    <2> SUFFICES ASSUME clean[d], ~s.failed
                 PROVE  /\ session[d] \in Accounts
                        /\ tab[d][session[d]]["acct"] = srv[session[d]]["acct"]
                        /\ Agree(tab[d][session[d]]["spec"], srv[session[d]]["spec"], skip[d])
        BY <1>4, <1>5, <1>7 DEF Agreed
    <2>1. /\ session[d] = s.of /\ Agree(Mine(d)["spec"], Theirs(d)["spec"], skip[d])
        BY <1>1, <1>2 DEF Compares
    <2>2. Mine(d)["acct"] = Theirs(d)["acct"]
      <3>1. CASE s.pc = "end" BY <1>2, <3>1 DEF Compares
      <3>2. CASE s.pc = "push acct" /\ s.push["acct"].at = 0
        <4>1. Theirs(d)["acct"] = s.remote["acct"] /\ Picked(d, "acct") BY <1>2, <3>2 DEF Compares
        <4>2. Mine(d)["acct"].at \in Nat /\ s.remote["acct"].at \in Nat
            BY <1>2, RowFacts DEF RecordKinds
        <4>3. CASE s.push["acct"] = NoRow /\ Mine(d)["acct"] = s.remote["acct"] BY <4>1, <4>3
        <4>4. CASE s.push["acct"] = Mine(d)["acct"] /\ Mine(d)["acct"].at > s.remote["acct"].at
          <5>1. Mine(d)["acct"].at = 0 BY <3>2, <4>4
          <5>2. Mine(d)["acct"].at > s.remote["acct"].at BY <4>4
          <5> HIDE DEF s
          <5> QED BY <4>2, <5>1, <5>2
        <4> QED BY <4>1, <4>3, <4>4 DEF Picked
      <3> QED BY <1>1, <3>1, <3>2
    <2> QED BY <1>2, <2>1, <2>2 DEF Mine, Theirs
  <1>9. DeviceInv(d)'
    <2>1. sync'[d].pc = "idle" BY <1>5 DEF NoSync
    <2>2. Upserting(d)' BY <1>2, <1>4 DEF DeviceInv, Upserting
    <2> QED BY <1>5, <1>8, <2>1, <2>2
        DEF DeviceInv, Storing, StoreStage, Awaited, Awaits, SyncAt, Comparing, KeyHome, Keyed,
           Pushing
  <1> QED BY <1>3, <1>4, <1>7, <1>9, Acting, SyncMoves

LEMMA WaitsApart == \A k, l \in RecordKinds : WaitStage(k) = WaitStage(l) => k = l
  BY DEF WaitStage, RecordKinds

(* A push begins: the record read by the sync goes to the server. *)
LEMMA UpsertKeeps ==
  ASSUME SpecInv, NEW d \in SpecDevices, NEW k \in RecordKinds, sync[d].pc = PushStage(k),
         sync[d].push[k].at > 0, AgentSpecUpsert(d, k, WaitStage(k))
  PROVE  SpecInv'
  <1> DEFINE s == sync[d]
             next == WaitStage(k)
             r == [s EXCEPT !.pc = next]
             j == [stage |-> "read", of |-> s.of, kind |-> k, row |-> s.push[k], seen |-> 0]
  <1>1. s.pc \in {"push spec", "push acct"} BY DEF PushStage
  <1>0. next \in Pushing /\ next \in {"wait spec", "wait acct"} BY DEF WaitStage, Pushing
  <1> HIDE DEF next
  <1>2. /\ SpecTypes /\ DeviceInv(d) /\ ~agreed[d] /\ s \in Syncing /\ s # NoSync
        /\ s.of \in Accounts
        /\ s.of # NoAccount /\ (clean[d] => Compares(d)) /\ s.push[k] \in Rows
      BY <1>1, InSync
  <1>3. /\ r \in Syncing /\ r.pc = next /\ r.of = s.of /\ r.push = s.push /\ r.remote = s.remote
        /\ r.key = s.key /\ r.failed = s.failed
      BY <1>0, <1>2 DEF Syncing, SyncStages, Keyed
  <1>4. /\ j \in Upserts /\ j.stage = "read" /\ j.of = s.of /\ j.kind = k /\ j.row = s.push[k]
      BY <1>2 DEF Upserts
  <1>5. sync' = [sync EXCEPT ![d] = r] /\ job' = [job EXCEPT ![d] = j]
      BY DEF AgentSpecUpsert, SyncStep, SyncTo, UpsertReq, next
  <1> HIDE DEF r, j
  <1>6. UNCHANGED <<tab, srv, scene, session, rekeying, proto, now, edits, skip, clean, agreed>>
      BY DEF AgentSpecUpsert, Steady, local, who, limits
  <1>7. sync'[d] = r /\ job'[d] = j BY <1>2, <1>5 DEF SpecTypes
  <1>8. crossed' \in BOOLEAN /\ (crossed => crossed')
      BY Acting DEF AgentSpecUpsert, Crosses
  <1>9. DeviceInv(d)'
    <2>1. Theirs(d)' = Theirs(d) /\ Mine(d)' = Mine(d) BY <1>3, <1>6, <1>7 DEF Theirs, Mine
    <2>2. ASSUME clean[d] PROVE Compares(d)'
      <3>1. /\ session[d] = s.of /\ s.key = s.of /\ Theirs(d)["acct"] = s.remote["acct"]
            /\ Picked(d, "acct")
          BY <1>1, <1>2, <2>2 DEF Compares, Keyed, Pushing
      <3>2. Theirs(d)[k] = s.remote[k] /\ Picked(d, k)
        <4>1. CASE k = "spec" BY <1>2, <2>2, <4>1 DEF Compares, PushStage
        <4>2. CASE k = "acct" BY <3>1, <4>2
        <4> QED BY <4>1, <4>2 DEF RecordKinds
      <3>3. s.push[k] # NoRow
        <4>1. s.push[k].at > 0 /\ s.push[k].at \in Nat BY <1>2, RowFacts
        <4>2. s.push[k].at # 0 BY <4>1
        <4> QED BY <4>2, BlankRows
      <3>4. Pushed(d, k)'
          BY <1>3, <1>4, <1>7, <2>1, <3>2, <3>3 DEF Pushed, Picked
      <3>5. CASE k = "spec"
        <4>1. Picked(d, "acct")' BY <1>3, <1>7, <2>1, <3>1 DEF Picked
        <4>2. next = "wait spec" BY <3>5 DEF next, WaitStage
        <4> QED
            BY <1>3, <1>6, <1>7, <2>1, <3>1, <3>4, <3>5, <4>1, <4>2 DEF Compares, Keyed, Pushing
      <3>6. CASE k = "acct"
        <4>1. ~s.failed => Agree(Mine(d)["spec"], Theirs(d)["spec"], skip[d])
            BY <1>2, <2>2, <3>6 DEF Compares, PushStage
        <4>2. next = "wait acct" BY <3>6 DEF next, WaitStage
        <4> QED
            BY <1>3, <1>6, <1>7, <2>1, <3>1, <3>4, <3>6, <4>1, <4>2 DEF Compares, Keyed, Pushing
      <3> QED BY <3>5, <3>6 DEF RecordKinds
    <2>3. ASSUME NEW l \in RecordKinds PROVE Storing(d, l)'
        BY <1>0, <1>3, <1>7 DEF Storing, StoreStage
    <2>4. ASSUME NEW l \in RecordKinds PROVE Awaited(d, l)'
      <3>1. CASE l = k
        <4>1. j # NoJob BY <1>4, JobFacts
        <4> QED BY <1>3, <1>4, <1>7, <3>1, <4>1 DEF Awaited
      <3>2. CASE l # k
        <4>1. next # WaitStage(l) BY <3>2, WaitsApart DEF next
        <4> QED BY <1>3, <1>7, <4>1 DEF Awaited, Awaits, SyncAt, WaitStage
      <3> QED BY <3>1, <3>2
    <2>5. Upserting(d)' BY <1>4, <1>7 DEF Upserting
    <2>6. KeyHome(d)' BY <1>0, <1>1, <1>2, <1>3, <1>7, <1>8 DEF DeviceInv, KeyHome, Keyed, Pushing
    <2> QED BY <1>2, <1>6, <2>2, <2>3, <2>4, <2>5, <2>6 DEF DeviceInv, Comparing, Agreed
  <1>10. ASSUME NEW home \in HomeMaps, AtHome(home)
         PROVE  /\ \A l \in RecordKinds : /\ Lives(home, l, r.remote[l], <<r.of, NoAccount>>)
                                          /\ Lives(home, l, r.push[l], <<r.of, NoAccount>>)
                /\ Lives(home, j.kind, j.row, <<j.of, NoAccount>>)
      BY <1>2, <1>3, <1>4, <1>10, Held
  <1> QED BY <1>3, <1>4, <1>5, <1>6, <1>8, <1>9, <1>10, Acting, DeviceMoves

LEMMA PushSpecKeeps ==
  ASSUME SpecInv, NEW d \in SpecDevices, PushSpec(d) PROVE SpecInv'
  BY UpsertKeeps DEF PushSpec, SyncAt, SpecIsPushed, RecordKinds, PushStage, WaitStage

LEMMA PushAccountKeeps ==
  ASSUME SpecInv, NEW d \in SpecDevices, PushAccount(d) PROVE SpecInv'
  BY UpsertKeeps DEF PushAccount, SyncAt, RecordKinds, PushStage, WaitStage

(* The upsert at the server moves on by itself, or is forgotten. *)
LEMMA JobMoves ==
  ASSUME SpecInv, NEW d \in SpecDevices, NEW j \in {NoJob} \cup Upserts,
         job' = [job EXCEPT ![d] = j],
         UNCHANGED <<tab, srv, scene, session, rekeying, proto, now, edits, skip, clean, agreed,
                     crossed, sync>>,
         j = NoJob => \A k \in RecordKinds : ~Awaits(d, k),
         j # NoJob => /\ job[d] # NoJob /\ j.of = job[d].of /\ j.kind = job[d].kind
                      /\ j.row = job[d].row,
         j.stage = "write" => j.row.at >= j.seen,
         \A k \in RecordKinds : clean[d] /\ Awaits(d, k) => Pushed(d, k)'
  PROVE  SpecInv'
  <1>1. SpecTypes /\ DeviceInv(d) BY Acting
  <1>2. sync[d] \in {NoSync} \cup Syncing /\ sync' = [sync EXCEPT ![d] = sync[d]]
      BY <1>1 DEF SpecTypes
  <1>3. job'[d] = j BY <1>1 DEF SpecTypes
  <1>4. DeviceInv(d)'
    <2>1. ASSUME NEW k \in RecordKinds PROVE Storing(d, k)'
        BY <1>1 DEF DeviceInv, Storing, StoreStage, Mine
    <2>2. ASSUME NEW k \in RecordKinds PROVE Awaited(d, k)'
        BY <1>1, <1>3 DEF DeviceInv, Awaited, Awaits, SyncAt
    <2>3. Upserting(d)' BY <1>3 DEF Upserting
    <2>4. KeyHome(d)' BY <1>1 DEF DeviceInv, KeyHome
    <2>5. Comparing(d)'
      <3> SUFFICES ASSUME clean[d], sync[d] # NoSync PROVE Compares(d)'
          BY DEF Comparing
      <3>1. Compares(d) BY <1>1 DEF DeviceInv, Comparing
      <3>2. /\ sync[d].pc = "wait spec" => Pushed(d, "spec")'
            /\ sync[d].pc = "wait acct" => Pushed(d, "acct")'
          BY DEF Awaits, SyncAt, RecordKinds
      <3>3. Theirs(d)' = Theirs(d) /\ Mine(d)' = Mine(d) BY DEF Theirs, Mine
      <3>4. /\ Took(d, "acct") => Took(d, "acct")'
            /\ Picked(d, "spec") => Picked(d, "spec")'
            /\ Picked(d, "acct") => Picked(d, "acct")'
          BY <3>3 DEF Took, Picked
      <3> QED BY <3>1, <3>2, <3>3, <3>4 DEF Compares
    <2>6. Agreed(d)' BY <1>1 DEF DeviceInv, Agreed
    <2> QED BY <2>1, <2>2, <2>3, <2>4, <2>5, <2>6 DEF DeviceInv
  <1>5. ASSUME NEW home \in HomeMaps, AtHome(home)
        PROVE  /\ sync[d] # NoSync => \A k \in RecordKinds :
                     /\ Lives(home, k, sync[d].remote[k], <<sync[d].of, NoAccount>>)
                     /\ Lives(home, k, sync[d].push[k], <<sync[d].of, NoAccount>>)
               /\ j # NoJob => Lives(home, j.kind, j.row, <<j.of, NoAccount>>)
      BY <1>5 DEF AtHome
  <1> QED BY <1>2, <1>4, <1>5, Acting, DeviceMoves

LEMMA PushAnsweredKeeps ==
  ASSUME SpecInv, NEW d \in SpecDevices, PushAnswered(d) PROVE SpecInv'
  <1> DEFINE s == sync[d]
  <1>1. job[d].stage = "done" /\ job' = [job EXCEPT ![d] = NoJob] BY DEF PushAnswered
  <1>2. UNCHANGED <<tab, srv, scene, session, rekeying, proto, now, edits, skip, clean, agreed,
                    crossed>>
      BY DEF PushAnswered, Steady, local, who, limits
  <1>3. /\ SpecTypes /\ DeviceInv(d) /\ skip' \in [SpecDevices -> BOOLEAN] BY <1>2, Acting
  <1>4. ASSUME NEW k \in RecordKinds, NEW next \in {"push acct", "end"}, SyncStep(d, next),
               \/ k = "spec" /\ s.pc = "wait spec" /\ next = "push acct"
               \/ k = "acct" /\ s.pc = "wait acct" /\ next = "end"
        PROVE  SpecInv'
    <2> DEFINE r == [s EXCEPT !.pc = next, !.failed = s.failed]
    <2>1. s.pc \in {"wait spec", "wait acct"} BY <1>4
    <2>2. s \in Syncing /\ (clean[d] => Compares(d)) BY <2>1, InSync
    <2>3. s.failed \in BOOLEAN BY <2>2, SyncFacts
    <2>4. [s EXCEPT !.pc = next] = r BY <2>2 DEF Syncing
    <2>5. SyncTo(d, r) BY <1>4, <2>4 DEF SyncStep
    <2>6. /\ r.pc = next /\ r.of = s.of /\ r.push = s.push /\ r.remote = s.remote /\ r.key = s.key
          /\ r.failed = s.failed
        BY <2>2 DEF Syncing
    <2> HIDE DEF r
    <2>7. sync'[d] = r BY <1>3, <2>5 DEF SpecTypes, SyncTo
    <2>8. Theirs(d)' = Theirs(d) /\ Mine(d)' = Mine(d) BY <1>2, <2>6, <2>7 DEF Theirs, Mine
    <2>9. ASSUME clean[d] PROVE Compares(d)'
      <3>1. /\ session[d] = s.of /\ s.key = s.of /\ Pushed(d, k)
          BY <1>4, <2>1, <2>2, <2>9 DEF Compares, Keyed, Pushing
      <3>2. Mine(d)[k] = Theirs(d)[k] BY <1>1, <3>1 DEF Pushed
      <3>3. CASE k = "spec"
        <4>1. Picked(d, "acct") /\ Theirs(d)["acct"] = s.remote["acct"]
            BY <1>4, <2>2, <2>9, <3>3 DEF Compares
        <4>2. Picked(d, "acct")' BY <2>6, <2>7, <2>8, <4>1 DEF Picked
        <4>3. Agree(Mine(d)["spec"], Theirs(d)["spec"], skip[d]) BY <3>2, <3>3 DEF Agree
        <4> QED BY <1>2, <1>4, <2>6, <2>7, <2>8, <3>1, <3>3, <4>1, <4>2, <4>3
            DEF Compares, Keyed, Pushing
      <3>4. CASE k = "acct"
        <4>1. ~s.failed => Agree(Mine(d)["spec"], Theirs(d)["spec"], skip[d])
            BY <1>4, <2>2, <2>9, <3>4 DEF Compares
        <4> QED BY <1>2, <1>4, <2>6, <2>7, <2>8, <3>1, <3>2, <3>4, <4>1
            DEF Compares, Keyed, Pushing
      <3> QED BY <1>4, <3>3, <3>4
    <2>10. s.pc \in Pushing /\ next \in Pushing /\ next \notin {"wait spec", "wait acct"}
        BY <1>4, <2>1 DEF Pushing
    <2>11. NoJob \in {NoJob, job[d]} OBVIOUS
    <2> QED BY <1>1, <1>2, <1>3, <2>3, <2>5, <2>9, <2>10, <2>11, StageMoves DEF r
  <1>5. CASE SyncAt(d, "wait spec") /\ job[d].kind = "spec" /\ SyncStep(d, "push acct")
      BY <1>4, <1>5 DEF SyncAt, RecordKinds
  <1>6. CASE SyncAt(d, "wait acct") /\ job[d].kind = "acct" /\ SyncStep(d, "end")
      BY <1>4, <1>6 DEF SyncAt, RecordKinds
  <1>7. CASE /\ ~(SyncAt(d, "wait spec") /\ job[d].kind = "spec")
             /\ ~(SyncAt(d, "wait acct") /\ job[d].kind = "acct") /\ UNCHANGED sync
    <2>1. \A k \in RecordKinds : ~Awaits(d, k)
        BY <1>3, <1>7 DEF DeviceInv, Awaited, Awaits, RecordKinds
    <2>2. NoJob.stage # "write" BY DEF NoJob
    <2> QED BY <1>1, <1>2, <1>7, <2>1, <2>2, JobMoves
  <1> QED BY <1>5, <1>6, <1>7 DEF PushAnswered

-----------------------------------------------------------------------------
(* What an upsert at the server that a clean sync waits for has to say. *)
LEMMA AwaitedPush ==
  ASSUME SpecInv, NEW d \in SpecDevices, NEW k \in RecordKinds, clean[d], Awaits(d, k)
  PROVE  /\ sync[d].pc # "idle" /\ Compares(d) /\ Pushed(d, k)
         /\ job[d] # NoJob /\ job[d].kind = k /\ job[d].of = sync[d].of
         /\ job[d].row = sync[d].push[k]
  <1>1. sync[d].pc \in {"wait spec", "wait acct"} BY DEF Awaits, SyncAt
  <1>2. DeviceInv(d) /\ Compares(d) BY <1>1, InSync
  <1>3. Pushed(d, k)
    <2>1. CASE k = "spec" BY <1>2, <2>1 DEF Compares, Awaits, SyncAt
    <2>2. CASE k = "acct" BY <1>2, <2>2 DEF Compares, Awaits, SyncAt
    <2> QED BY <2>1, <2>2 DEF RecordKinds
  <1> QED BY <1>1, <1>2, <1>3 DEF DeviceInv, Awaited

(* An upsert that finds a newer record is not one a clean sync waits for. *)
LEMMA NewerFound ==
  ASSUME SpecInv, NEW d \in SpecDevices, NEW k \in RecordKinds, clean[d], Awaits(d, k),
         job[d].stage # "done"
  PROVE  KeepNewer(job[d].row, srv[job[d].of][job[d].kind])
  <1>1. /\ sync[d].pc # "idle" /\ Pushed(d, k) /\ job[d].kind = k /\ job[d].of = sync[d].of
        /\ job[d].row = sync[d].push[k]
      BY AwaitedPush
  <1>2. job[d].row = Mine(d)[k] /\ srv[job[d].of][job[d].kind] = sync[d].remote[k]
        /\ Mine(d)[k].at > sync[d].remote[k].at
      BY <1>1 DEF Pushed, Theirs
  <1>3. Mine(d)[k].at \in Nat /\ sync[d].remote[k].at \in Nat BY <1>1, InSync, RowFacts
  <1> QED BY <1>2, <1>3 DEF KeepNewer

LEMMA UpsertPgReadKeeps ==
  ASSUME SpecInv, NEW d \in SpecDevices, UpsertPgRead(d) PROVE SpecInv'
  <1> DEFINE i == job[d]
             stored == srv[i.of][i.kind]
             keep == KeepNewer(i.row, stored)
             j == [i EXCEPT !.stage = IF keep THEN "write" ELSE "done", !.seen = stored.at]
  <1>1. i.stage = "read" BY DEF UpsertPgRead
  <1>2. SpecTypes BY Acting
  <1>3. i # NoJob /\ i \in Upserts BY <1>1, <1>2, StageFacts, DeviceFacts
  <1>4. i.of \in Accounts /\ i.kind \in RecordKinds /\ i.row \in Rows BY <1>3, JobFacts
  <1>5. stored \in Rows BY <1>2, <1>4, DeviceFacts
  <1>6. stored.at \in Nat BY <1>5, RowFacts
  <1>7. job' = [job EXCEPT ![d] = j] BY <1>2, <1>3 DEF UpsertPgRead, SpecTypes
  <1>8. /\ j \in Upserts /\ j.of = i.of /\ j.kind = i.kind /\ j.row = i.row /\ j.seen = stored.at
        /\ j.stage = (IF keep THEN "write" ELSE "done")
    <2> HIDE DEF keep, stored
    <2> QED BY <1>3, <1>6 DEF Upserts
  <1> HIDE DEF j
  <1>9. UNCHANGED <<tab, srv, scene, session, rekeying, proto, now, edits, skip, clean, agreed,
                    crossed, sync>>
      BY DEF UpsertPgRead, Steady, local, who, limits
  <1>10. j # NoJob BY <1>8, JobFacts
  <1>11. j.stage = "write" => j.row.at >= j.seen BY <1>8 DEF KeepNewer
  <1>12. ASSUME NEW k \in RecordKinds, clean[d], Awaits(d, k) PROVE Pushed(d, k)'
    <2>1. keep BY <1>1, <1>12, NewerFound
    <2>2. j.stage = "write" BY <1>8, <2>1
    <2>3. job'[d] = j BY <1>2, <1>7 DEF SpecTypes
    <2>4. Pushed(d, k) BY <1>12, AwaitedPush
    <2> QED BY <1>1, <1>9, <2>2, <2>3, <2>4 DEF Pushed, Mine, Theirs
  <1> QED BY <1>3, <1>7, <1>8, <1>9, <1>10, <1>11, <1>12, JobMoves

(* The record goes into the store: the syncs that compare it are spoilt,   *)
(* but the one that waits for it.                                          *)
LEMMA RecordKeeps ==
  ASSUME SpecInv, NEW d \in SpecDevices, job[d] # NoJob, job[d].stage # "done", Record(d),
         UNCHANGED <<local, scene, who, sync, limits, crossed>>
  PROVE  SpecInv'
  <1> DEFINE i == job[d]
             j == [i EXCEPT !.stage = "done"]
  <1>1. SpecTypes /\ DeviceInv(d) BY Acting
  <1>2. i \in Upserts BY <1>1, DeviceFacts
  <1>3. i.of \in Accounts /\ i.kind \in RecordKinds /\ i.row \in Rows BY <1>2, JobFacts
  <1>4. job' = [job EXCEPT ![d] = j] BY DEF Record
  <1>5. /\ j \in Upserts /\ j.of = i.of /\ j.kind = i.kind /\ j.row = i.row /\ j.stage = "done"
      BY <1>2 DEF Upserts
  <1> HIDE DEF j
  <1>6. j # NoJob BY <1>5, JobFacts
  <1>7. /\ job' \in [SpecDevices -> {NoJob} \cup Upserts] /\ job'[d] = j
        /\ \A e \in SpecDevices \ {d} : job'[e] = job[e]
      BY <1>1, <1>4, <1>5 DEF SpecTypes
  <1>8. UNCHANGED <<tab, scene, session, rekeying, proto, now, edits, skip, crossed, sync>>
      BY DEF local, who, limits
  <1>9. /\ srv' \in [Accounts -> RecordRows]
        /\ \A a \in Accounts, k \in RecordKinds :
             srv'[a][k] = IF a = i.of /\ k = i.kind THEN i.row ELSE srv[a][k]
        /\ \A a \in Accounts : a # i.of => srv'[a] = srv[a]
    <2>1. srv' = [srv EXCEPT ![i.of] = [@ EXCEPT ![i.kind] = i.row]] BY DEF Record
    <2>2. srv \in [Accounts -> RecordRows] BY <1>1 DEF SpecTypes
    <2>3. [srv[i.of] EXCEPT ![i.kind] = i.row] \in RecordRows BY <1>3, <2>2 DEF RecordRows
    <2>4. \A k \in RecordKinds :
            [srv[i.of] EXCEPT ![i.kind] = i.row][k] = IF k = i.kind THEN i.row ELSE srv[i.of][k]
        BY <1>3, <2>2 DEF RecordRows
    <2> QED BY <1>3, <2>1, <2>2, <2>3, <2>4
  <1>10. /\ clean' \in [SpecDevices -> BOOLEAN] /\ agreed' \in [SpecDevices -> BOOLEAN]
         /\ \A e \in SpecDevices : (clean'[e] => clean[e]) /\ (agreed'[e] => agreed[e])
         /\ \A e \in SpecDevices :
              (clean'[e] \/ agreed'[e]) /\ session[e] \in Accounts /\ (e # d \/ ~Awaits(d, i.kind))
                => srv'[session[e]] = srv[session[e]]
    <2>1. CASE srv[i.of][i.kind] = i.row
      <3>1. clean' = clean /\ agreed' = agreed BY <2>1 DEF Record, Steady
      <3>2. srv' = srv BY <1>1, <1>3, <2>1 DEF Record, SpecTypes, RecordRows
      <3> QED BY <1>1, <3>1, <3>2 DEF SpecTypes
    <2>2. CASE srv[i.of][i.kind] # i.row
      <3> DEFINE ds == {e \in SpecDevices : session[e] = i.of /\ (e # d \/ ~Awaits(d, i.kind))}
      <3>1. Spoils(ds) BY <2>2 DEF Record
      <3>2. \A e \in SpecDevices : e \notin ds => session[e] # i.of \/ (e = d /\ Awaits(d, i.kind))
          OBVIOUS
      <3> HIDE DEF ds
      <3>3. /\ clean' = [e \in SpecDevices |-> clean[e] /\ e \notin ds]
            /\ agreed' = [e \in SpecDevices |-> agreed[e] /\ e \notin ds]
          BY <3>1 DEF Spoils
      <3>4. clean' \in [SpecDevices -> BOOLEAN] /\ agreed' \in [SpecDevices -> BOOLEAN] BY <3>3
      <3>5. \A e \in SpecDevices : /\ (clean'[e] => clean[e]) /\ (agreed'[e] => agreed[e])
                                   /\ (clean'[e] \/ agreed'[e] => e \notin ds)
          BY <3>3
      <3> QED BY <1>9, <3>2, <3>4, <3>5
    <2> QED BY <2>1, <2>2
  <1>11. SpecTypes' BY <1>1, <1>7, <1>8, <1>9, <1>10 DEF SpecTypes
  <1>12. ASSUME NEW e \in SpecDevices, e # d PROVE DeviceInv(e)'
    <2>1. DeviceInv(e) BY DEF SpecInv
    <2> QED BY <1>1, <1>7, <1>8, <1>10, <1>12, <2>1, OtherDevice
  <1>13. DeviceInv(d)'
    <2>1. ASSUME NEW k \in RecordKinds PROVE Storing(d, k)'
      <3>1. Storing(d, k) BY <1>1 DEF DeviceInv
      <3> QED BY <1>8, <3>1 DEF Storing, Mine
    <2>2. ASSUME NEW k \in RecordKinds PROVE Awaited(d, k)'
        BY <1>1, <1>5, <1>6, <1>7, <1>8 DEF DeviceInv, Awaited, Awaits, SyncAt
    <2>3. Upserting(d)' BY <1>5, <1>7 DEF Upserting
    <2>4. KeyHome(d)' BY <1>1, <1>8 DEF DeviceInv, KeyHome
    <2>5. Comparing(d)'
      <3> SUFFICES ASSUME clean'[d], sync[d] # NoSync PROVE Compares(d)'
          BY <1>8 DEF Comparing
      <3>1. clean[d] /\ Compares(d) BY <1>1, <1>10 DEF DeviceInv, Comparing
      <3>2. sync[d].of \in Accounts /\ session[d] = sync[d].of
          BY <1>1, <3>1, DeviceFacts, SyncFacts DEF Compares
      <3>3. Mine(d)' = Mine(d) BY <1>8 DEF Mine
      <3>4. /\ Took(d, "acct") => Took(d, "acct")'
            /\ Picked(d, "spec") => Picked(d, "spec")'
            /\ Picked(d, "acct") => Picked(d, "acct")'
          BY <1>8, <3>3 DEF Took, Picked
      <3>5. CASE ~Awaits(d, i.kind)
        <4>1. Theirs(d)' = Theirs(d) BY <1>8, <1>10, <3>2, <3>5 DEF Theirs
        <4>2. \A k \in RecordKinds : ~Awaits(d, k) BY <3>1, <3>5, AwaitedPush
        <4>3. sync[d].pc # "wait spec" /\ sync[d].pc # "wait acct"
            BY <4>2 DEF Awaits, SyncAt, RecordKinds
        <4> QED BY <1>8, <3>1, <3>3, <3>4, <4>1, <4>3 DEF Compares
      <3>6. CASE Awaits(d, i.kind)
        <4>1. Pushed(d, i.kind) /\ i.of = sync[d].of /\ i.row = sync[d].push[i.kind]
            BY <1>3, <3>1, <3>6, AwaitedPush
        <4>2. Theirs(d)'[i.kind] = Mine(d)[i.kind]
            BY <1>3, <1>8, <1>9, <4>1 DEF Theirs, Pushed
        <4>3. Pushed(d, i.kind)' BY <1>5, <1>7, <1>8, <3>3, <4>1, <4>2 DEF Pushed
        <4>4. \A k \in RecordKinds : k # i.kind => Theirs(d)'[k] = Theirs(d)[k]
            BY <1>8, <1>9, <3>2 DEF Theirs
        <4>5. CASE i.kind = "spec"
          <5>1. sync[d].pc = "wait spec" BY <3>6, <4>5 DEF Awaits, SyncAt
          <5>2. Theirs(d)'["acct"] = Theirs(d)["acct"] BY <4>4, <4>5 DEF RecordKinds
          <5>3. Pushed(d, "spec")' BY <1>5, <1>7, <4>3, <4>5
          <5> QED BY <1>8, <3>1, <3>3, <3>4, <5>1, <5>2, <5>3 DEF Compares
        <4>6. CASE i.kind = "acct"
          <5>1. sync[d].pc = "wait acct" BY <3>6, <4>6 DEF Awaits, SyncAt
          <5>2. Theirs(d)'["spec"] = Theirs(d)["spec"] BY <4>4, <4>6 DEF RecordKinds
          <5>3. Pushed(d, "acct")' BY <1>5, <1>7, <4>3, <4>6
          <5> QED BY <1>8, <3>1, <3>3, <3>4, <5>1, <5>2, <5>3 DEF Compares
        <4> QED BY <1>3, <4>5, <4>6 DEF RecordKinds
      <3> QED BY <3>5, <3>6
    <2>6. Agreed(d)'
      <3> SUFFICES ASSUME agreed'[d]
                   PROVE  /\ sync[d] = NoSync /\ session[d] \in Accounts
                          /\ tab[d][session[d]]["acct"] = srv'[session[d]]["acct"]
                          /\ Agree(tab[d][session[d]]["spec"], srv'[session[d]]["spec"], skip[d])
          BY <1>8 DEF Agreed
      <3>1. agreed[d] BY <1>10
      <3>2. sync[d] = NoSync /\ session[d] \in Accounts BY <1>1, <3>1 DEF DeviceInv, Agreed
      <3>3. sync[d].pc = "idle" BY <3>2 DEF NoSync
      <3>4. ~Awaits(d, i.kind) BY <3>3 DEF Awaits, SyncAt
      <3>5. srv'[session[d]] = srv[session[d]] BY <1>10, <3>2, <3>4
      <3> QED BY <1>1, <3>1, <3>5 DEF DeviceInv, Agreed
    <2> QED BY <2>1, <2>2, <2>3, <2>4, <2>5, <2>6 DEF DeviceInv
  <1>14. SomeHome'
    <2> SUFFICES ASSUME ~crossed PROVE \E home \in HomeMaps : AtHome(home)'
        BY <1>8 DEF SomeHome
    <2>1. PICK home \in HomeMaps : AtHome(home) BY DEF SpecInv, SomeHome
    <2>2. Lives(home, i.kind, i.row, <<i.of, NoAccount>>) BY <2>1 DEF AtHome
    <2>3. /\ \A e \in SpecDevices, a \in AccountKeys, k \in RecordKinds :
               Lives(home, k, tab[e][a][k], HomeOf(e, a))'
          /\ \A e \in SpecDevices : sync'[e] # NoSync => \A k \in RecordKinds :
               /\ Lives(home, k, sync[e].remote[k], <<sync[e].of, NoAccount>>)'
               /\ Lives(home, k, sync[e].push[k], <<sync[e].of, NoAccount>>)'
      <3>1. \A e \in SpecDevices, a \in AccountKeys, k \in RecordKinds :
              Lives(home, k, tab[e][a][k], HomeOf(e, a))'
          BY <1>8, <2>1 DEF AtHome, Lives, HomeOf
      <3>2. ASSUME NEW e \in SpecDevices, sync'[e] # NoSync, NEW k \in RecordKinds
            PROVE  /\ Lives(home, k, sync[e].remote[k], <<sync[e].of, NoAccount>>)'
                   /\ Lives(home, k, sync[e].push[k], <<sync[e].of, NoAccount>>)'
        <4>1. /\ Lives(home, k, sync[e].remote[k], <<sync[e].of, NoAccount>>)
              /\ Lives(home, k, sync[e].push[k], <<sync[e].of, NoAccount>>)
            BY <1>8, <2>1, <3>2 DEF AtHome
        <4> QED BY <1>8, <4>1 DEF Lives
      <3> QED BY <3>1, <3>2
    <2>4. ASSUME NEW a \in Accounts, NEW k \in RecordKinds
          PROVE  Lives(home, k, srv[a][k], <<a, NoAccount>>)'
      <3>1. Lives(home, k, srv[a][k], <<a, NoAccount>>) BY <2>1 DEF AtHome
      <3>2. srv'[a][k] = srv[a][k] \/ (a = i.of /\ k = i.kind /\ srv'[a][k] = i.row) BY <1>9
      <3> QED BY <1>8, <2>2, <3>1, <3>2 DEF Lives
    <2>5. ASSUME NEW e \in SpecDevices, job'[e] # NoJob
          PROVE  Lives(home, job[e].kind, job[e].row, <<job[e].of, NoAccount>>)'
      <3>1. CASE e = d BY <1>5, <1>7, <1>8, <2>2, <3>1 DEF Lives
      <3>2. CASE e # d
        <4>1. job'[e] = job[e] /\ Lives(home, job[e].kind, job[e].row, <<job[e].of, NoAccount>>)
            BY <1>7, <2>1, <2>5, <3>2 DEF AtHome
        <4> QED BY <1>8, <4>1 DEF Lives
      <3> QED BY <3>1, <3>2
    <2> QED BY <2>3, <2>4, <2>5 DEF AtHome
  <1> QED BY <1>11, <1>12, <1>13, <1>14 DEF SpecInv

LEMMA ServeKeeps ==
  ASSUME SpecInv, NEW d \in SpecDevices, Serve(d) PROVE SpecInv'
  <1>1. SpecTypes BY Acting
  <1>2. CASE UpsertPgRead(d) BY <1>2, UpsertPgReadKeeps
  <1>3. CASE UpsertPgWrite(d)
    <2>1. job[d].stage = "write" BY <1>3 DEF UpsertPgWrite
    <2> QED BY <1>1, <1>3, <2>1, StageFacts, RecordKeeps DEF UpsertPgWrite
  <1>4. CASE UpsertMemory(d)
    <2>1. job[d].stage = "read" BY <1>4 DEF UpsertMemory
    <2>2. job[d] # NoJob BY <1>1, <2>1, StageFacts
    <2>3. CASE KeepNewer(job[d].row, srv[job[d].of][job[d].kind])
        BY <1>4, <2>1, <2>2, <2>3, RecordKeeps DEF UpsertMemory
    <2>4. CASE ~KeepNewer(job[d].row, srv[job[d].of][job[d].kind])
      <3> DEFINE j == [job[d] EXCEPT !.stage = "done"]
      <3>1. job[d] \in Upserts BY <1>1, <2>2, DeviceFacts
      <3>2. job' = [job EXCEPT ![d] = j] BY <1>4, <2>4 DEF UpsertMemory
      <3>3. /\ j \in Upserts /\ j.of = job[d].of /\ j.kind = job[d].kind /\ j.row = job[d].row
            /\ j.stage = "done"
          BY <3>1 DEF Upserts
      <3> HIDE DEF j
      <3>4. UNCHANGED <<tab, srv, scene, session, rekeying, proto, now, edits, skip, clean, agreed,
                        crossed, sync>>
          BY <1>4, <2>4 DEF UpsertMemory, Steady, local, who, limits
      <3>5. ASSUME NEW k \in RecordKinds, clean[d], Awaits(d, k) PROVE FALSE
          BY <2>1, <2>4, <3>5, NewerFound
      <3>6. j # NoJob BY <3>3, JobFacts
      <3> QED BY <2>2, <3>2, <3>3, <3>4, <3>5, <3>6, JobMoves
    <2> QED BY <2>3, <2>4
  <1> QED BY <1>2, <1>3, <1>4 DEF Serve

-----------------------------------------------------------------------------
(* Only one device is touched, and its rows may change. *)
LEMMA TableMoves ==
  ASSUME SpecInv, NEW d \in SpecDevices, NEW t \in [AccountKeys -> RecordRows],
         NEW r \in {NoSync} \cup Syncing,
         tab' = [tab EXCEPT ![d] = t], sync' = [sync EXCEPT ![d] = r],
         UNCHANGED <<srv, job, scene, skip>>, now' \in Nat \ {0}, edits' \in Nat,
         session' \in [SpecDevices -> AccountKeys], proto' \in [SpecDevices -> AccountKeys],
         rekeying' \in [SpecDevices -> AccountKeys], clean' \in [SpecDevices -> BOOLEAN],
         agreed' \in [SpecDevices -> BOOLEAN], crossed' \in BOOLEAN, crossed => crossed',
         \A e \in SpecDevices \ {d} : /\ session'[e] = session[e]
                                      /\ clean'[e] = clean[e] /\ agreed'[e] = agreed[e],
         DeviceInv(d)', SomeHome'
  PROVE  SpecInv'
  <1>1. SpecTypes BY DEF SpecInv
  <1>2. /\ sync' \in [SpecDevices -> {NoSync} \cup Syncing]
        /\ tab' \in [SpecDevices -> [AccountKeys -> RecordRows]]
        /\ \A e \in SpecDevices \ {d} : sync'[e] = sync[e] /\ tab'[e] = tab[e]
      BY <1>1 DEF SpecTypes
  <1>3. SpecTypes' BY <1>1, <1>2 DEF SpecTypes
  <1>4. ASSUME NEW e \in SpecDevices PROVE DeviceInv(e)'
    <2>1. CASE e = d BY <2>1
    <2>2. CASE e # d
      <3>1. DeviceInv(e) BY DEF SpecInv
      <3> QED BY <1>1, <1>2, <2>2, <3>1, OtherDevice
    <2> QED BY <2>1, <2>2
  <1> QED BY <1>3, <1>4 DEF SpecInv

(* A sync holds what it held, with the edit noted. *)
LEMMA Marked ==
  ASSUME SpecTypes, NEW d \in SpecDevices, Dirty(d)
  PROVE  \E r \in {NoSync} \cup Syncing :
           /\ sync' = [sync EXCEPT ![d] = r] /\ sync'[d] = r
           /\ r = NoSync <=> sync[d] = NoSync
           /\ r # NoSync => /\ r.pc = sync[d].pc /\ r.of = sync[d].of /\ r.remote = sync[d].remote
                            /\ r.push = sync[d].push /\ r.key = sync[d].key /\ r.dirty = TRUE
  <1> DEFINE s == sync[d]
             r == IF "dirty" \in DOMAIN s THEN [s EXCEPT !.dirty = TRUE] ELSE s
  <1>1. sync' = [sync EXCEPT ![d] = r] BY DEF Dirty
  <1>2. sync'[d] = r BY <1>1 DEF SpecTypes
  <1>3. CASE s = NoSync
    <2>1. "dirty" \notin DOMAIN s BY <1>3 DEF NoSync
    <2>2. r = NoSync BY <1>3, <2>1
    <2> QED BY <1>1, <1>2, <1>3, <2>2
  <1>4. CASE s # NoSync
    <2>1. s \in Syncing BY <1>4, DeviceFacts
    <2>2. "dirty" \in DOMAIN s BY <2>1 DEF Syncing
    <2>3. r = [s EXCEPT !.dirty = TRUE] BY <2>2
    <2> HIDE DEF r
    <2>4. /\ r \in Syncing /\ r.pc = s.pc /\ r.of = s.of /\ r.remote = s.remote
          /\ r.push = s.push /\ r.key = s.key /\ r.dirty = TRUE
        BY <2>1, <2>3 DEF Syncing
    <2>5. r # NoSync BY <2>4, SyncFacts
    <2> QED BY <1>1, <1>2, <1>4, <2>4, <2>5
  <1> QED BY <1>3, <1>4

LEMMA Spoilt ==
  ASSUME SpecTypes, NEW d \in SpecDevices, Spoils({d})
  PROVE  /\ clean' \in [SpecDevices -> BOOLEAN] /\ agreed' \in [SpecDevices -> BOOLEAN]
         /\ ~clean'[d] /\ ~agreed'[d]
         /\ \A e \in SpecDevices \ {d} : clean'[e] = clean[e] /\ agreed'[e] = agreed[e]
  <1>1. /\ clean' = [e \in SpecDevices |-> clean[e] /\ e \notin {d}]
        /\ agreed' = [e \in SpecDevices |-> agreed[e] /\ e \notin {d}]
      BY DEF Spoils
  <1>2. clean \in [SpecDevices -> BOOLEAN] /\ agreed \in [SpecDevices -> BOOLEAN] BY DEF SpecTypes
  <1>3. clean' \in [SpecDevices -> BOOLEAN] /\ agreed' \in [SpecDevices -> BOOLEAN] BY <1>1
  <1>4. ~clean'[d] /\ ~agreed'[d] BY <1>1
  <1>5. ASSUME NEW e \in SpecDevices \ {d} PROVE clean'[e] = clean[e] /\ agreed'[e] = agreed[e]
    <2>1. clean'[e] = (clean[e] /\ e \notin {d}) /\ agreed'[e] = (agreed[e] /\ e \notin {d})
        BY <1>1
    <2>2. clean[e] \in BOOLEAN /\ agreed[e] \in BOOLEAN /\ e \notin {d} BY <1>2
    <2> QED BY <2>1, <2>2
  <1> QED BY <1>3, <1>4, <1>5

(* The device whose rows, or whose session, have just changed. *)
LEMMA EditedDevice ==
  ASSUME SpecInv, NEW d \in SpecDevices, job'[d] = job[d], ~clean'[d], ~agreed'[d],
         crossed' = crossed,
         Dirty(d) \/ (tab'[d] = tab[d] /\ sync' = sync)
  PROVE  DeviceInv(d)'
  <1>1. SpecTypes /\ DeviceInv(d) BY Acting
  <1>2. CASE tab'[d] = tab[d] /\ sync' = sync
    <2>1. ASSUME NEW k \in RecordKinds PROVE Storing(d, k)' /\ Awaited(d, k)'
      <3>1. Storing(d, k) /\ Awaited(d, k) BY <1>1 DEF DeviceInv
      <3>2. Storing(d, k)' BY <1>2, <3>1 DEF Storing, Mine
      <3>3. Awaited(d, k)' BY <1>2, <3>1 DEF Awaited, Awaits, SyncAt
      <3> QED BY <3>2, <3>3
    <2>2. Upserting(d)' /\ KeyHome(d)' BY <1>1, <1>2 DEF DeviceInv, Upserting, KeyHome
    <2> QED BY <2>1, <2>2 DEF DeviceInv, Comparing, Agreed
  <1>3. CASE Dirty(d)
    <2>1. PICK r \in {NoSync} \cup Syncing :
            /\ sync' = [sync EXCEPT ![d] = r] /\ sync'[d] = r
            /\ r = NoSync <=> sync[d] = NoSync
            /\ r # NoSync => /\ r.pc = sync[d].pc /\ r.of = sync[d].of /\ r.remote = sync[d].remote
                             /\ r.push = sync[d].push /\ r.key = sync[d].key /\ r.dirty = TRUE
        BY <1>1, <1>3, Marked
    <2>2. r.pc = sync[d].pc BY <2>1
    <2>3. ASSUME NEW k \in RecordKinds PROVE Storing(d, k)' /\ Awaited(d, k)'
      <3>1. Storing(d, k) /\ Awaited(d, k) BY <1>1 DEF DeviceInv
      <3>2. CASE r = NoSync
        <4>1. r.pc = "idle" BY <3>2 DEF NoSync
        <4>2. r.pc # StoreStage(k) BY <4>1 DEF StoreStage
        <4>3. Storing(d, k)' BY <2>1, <4>2 DEF Storing
        <4>4. sync'[d].pc = "idle" BY <2>1, <4>1
        <4>5. Awaited(d, k)' BY <4>4 DEF Awaited, Awaits, SyncAt
        <4> QED BY <4>3, <4>5
      <3>3. CASE r # NoSync
        <4>1. Storing(d, k)' BY <2>1, <3>1, <3>3 DEF Storing
        <4>2. Awaited(d, k)' BY <2>1, <3>1, <3>3 DEF Awaited, Awaits, SyncAt
        <4> QED BY <4>1, <4>2
      <3> QED BY <3>2, <3>3
    <2>4. KeyHome(d)'
      <3>1. CASE r = NoSync
        <4>1. r.pc = "idle" BY <3>1 DEF NoSync
        <4> QED BY <2>1, <4>1 DEF KeyHome, Keyed, Pushing
      <3>2. CASE r # NoSync BY <1>1, <2>1, <3>2 DEF DeviceInv, KeyHome
      <3> QED BY <3>1, <3>2
    <2>5. Upserting(d)' BY <1>1 DEF DeviceInv, Upserting
    <2> QED BY <2>3, <2>4, <2>5 DEF DeviceInv, Comparing, Agreed
  <1> QED BY <1>2, <1>3

(* Rows of an account that are at the server, in a sync or on their way    *)
(* stay where they are when only the rows of devices move.                 *)
LEMMA HomeMoves ==
  ASSUME SpecTypes, NEW home, AtHome(home), NEW new, UNCHANGED <<srv, job>>,
         NEW d \in SpecDevices, Dirty(d),
         \A k \in RecordKinds, row \in Rows, b \in Accounts :
           Lives(home, k, row, <<b, NoAccount>>) => Lives(new, k, row, <<b, NoAccount>>)',
         \A e \in SpecDevices, a \in AccountKeys, k \in RecordKinds :
           Lives(new, k, tab[e][a][k], HomeOf(e, a))'
  PROVE  AtHome(new)'
  <1>1. \A a \in Accounts, k \in RecordKinds : Lives(new, k, srv[a][k], <<a, NoAccount>>)'
    <2> TAKE a \in Accounts, k \in RecordKinds
    <2>1. Lives(home, k, srv[a][k], <<a, NoAccount>>) /\ srv[a][k] \in Rows
        BY DeviceFacts DEF AtHome
    <2> DEFINE rr == srv[a][k]
    <2>2. rr' = rr OBVIOUS
    <2>3. rr.by # 0 => rr.by <= edits' /\ new[<<k, rr.by>>] = <<a, NoAccount>> BY <2>1 DEF Lives
    <2> QED BY <2>2, <2>3 DEF Lives
  <1>2. ASSUME NEW e \in SpecDevices, job'[e] # NoJob
        PROVE  Lives(new, job[e].kind, job[e].row, <<job[e].of, NoAccount>>)'
    <2>1. job[e] \in Upserts BY <1>2, DeviceFacts
    <2>2. job[e].kind \in RecordKinds /\ job[e].row \in Rows /\ job[e].of \in Accounts
        BY <2>1, JobFacts
    <2>3. Lives(home, job[e].kind, job[e].row, <<job[e].of, NoAccount>>) BY <1>2 DEF AtHome
    <2> DEFINE kk == job[e].kind
               rr == job[e].row
               oo == job[e].of
    <2>4. kk' = kk /\ rr' = rr /\ oo' = oo OBVIOUS
    <2>5. rr.by # 0 => rr.by <= edits' /\ new[<<kk, rr.by>>] = <<oo, NoAccount>>
        BY <2>2, <2>3 DEF Lives
    <2> QED BY <2>4, <2>5 DEF Lives
  <1>3. ASSUME NEW e \in SpecDevices, sync'[e] # NoSync, NEW k \in RecordKinds
        PROVE  /\ Lives(new, k, sync[e].remote[k], <<sync[e].of, NoAccount>>)'
               /\ Lives(new, k, sync[e].push[k], <<sync[e].of, NoAccount>>)'
    <2>1. /\ sync[e] # NoSync /\ sync'[e].of = sync[e].of /\ sync'[e].remote = sync[e].remote
          /\ sync'[e].push = sync[e].push
      <3>1. PICK r \in {NoSync} \cup Syncing :
              /\ sync' = [sync EXCEPT ![d] = r] /\ sync'[d] = r
              /\ r = NoSync <=> sync[d] = NoSync
              /\ r # NoSync => /\ r.pc = sync[d].pc /\ r.of = sync[d].of /\ r.remote = sync[d].remote
                               /\ r.push = sync[d].push /\ r.key = sync[d].key /\ r.dirty = TRUE
          BY Marked
      <3>2. e # d => sync'[e] = sync[e] BY <3>1 DEF SpecTypes
      <3> QED BY <1>3, <3>1, <3>2
    <2>2. sync[e] \in Syncing BY <2>1, DeviceFacts
    <2>3. sync[e].of \in Accounts /\ sync[e].remote[k] \in Rows /\ sync[e].push[k] \in Rows
        BY <2>2, SyncFacts
    <2>4. /\ Lives(home, k, sync[e].remote[k], <<sync[e].of, NoAccount>>)
          /\ Lives(home, k, sync[e].push[k], <<sync[e].of, NoAccount>>)
        BY <2>1 DEF AtHome
    <2> DEFINE rem == sync[e].remote[k]
               psh == sync[e].push[k]
               oo == sync[e].of
    <2>5. /\ rem.by # 0 => rem.by <= edits' /\ new[<<k, rem.by>>] = <<oo, NoAccount>>
          /\ psh.by # 0 => psh.by <= edits' /\ new[<<k, psh.by>>] = <<oo, NoAccount>>
        BY <2>3, <2>4 DEF Lives
    <2>6. rem' = rem /\ psh' = psh /\ oo' = oo BY <2>1
    <2> QED BY <2>5, <2>6 DEF Lives
  <1> QED BY <1>1, <1>2, <1>3 DEF AtHome

(* An edit writes one row, which carries its number. *)
LEMMA EditKeeps ==
  ASSUME SpecInv, NEW d \in SpecDevices, NEW k \in RecordKinds, NEW row \in Rows,
         row.by = edits + 1, edits' = edits + 1,
         tab' = [tab EXCEPT ![d][session[d]][k] = row], Dirty(d), Spoils({d}),
         UNCHANGED <<skip, server, who, now, crossed>>
  PROVE  SpecInv'
  <1> DEFINE a == session[d]
             t == [tab[d] EXCEPT ![a] = [@ EXCEPT ![k] = row]]
  <1>1. SpecTypes BY Acting
  <1>2. tab[d] \in [AccountKeys -> RecordRows] /\ a \in AccountKeys BY <1>1, DeviceFacts
  <1>3. tab' = [tab EXCEPT ![d] = t] OBVIOUS
  <1>4. /\ t \in [AccountKeys -> RecordRows]
        /\ \A b \in AccountKeys, l \in RecordKinds :
             t[b][l] = IF b = a /\ l = k THEN row ELSE tab[d][b][l]
    <2>1. [tab[d][a] EXCEPT ![k] = row] \in RecordRows BY <1>2 DEF RecordRows
    <2>2. \A l \in RecordKinds :
            [tab[d][a] EXCEPT ![k] = row][l] = IF l = k THEN row ELSE tab[d][a][l]
        BY <1>2 DEF RecordRows
    <2> QED BY <1>2, <2>1, <2>2
  <1> HIDE DEF t
  <1>5. tab'[d] = t /\ \A e \in SpecDevices \ {d} : tab'[e] = tab[e] BY <1>1, <1>3 DEF SpecTypes
  <1>6. UNCHANGED <<srv, job, scene, session, rekeying, proto>> BY DEF server, who
  <1>7. edits \in Nat /\ edits' \in Nat /\ now' \in Nat \ {0} /\ crossed \in BOOLEAN
      BY <1>1 DEF SpecTypes
  <1>8. /\ clean' \in [SpecDevices -> BOOLEAN] /\ agreed' \in [SpecDevices -> BOOLEAN]
        /\ ~clean'[d] /\ ~agreed'[d]
        /\ \A e \in SpecDevices \ {d} : clean'[e] = clean[e] /\ agreed'[e] = agreed[e]
      BY <1>1, Spoilt
  <1>9. DeviceInv(d)' BY <1>6, <1>8, EditedDevice
  <1>10. PICK r \in {NoSync} \cup Syncing : sync' = [sync EXCEPT ![d] = r] BY <1>1, Marked
  <1>11. SomeHome'
    <2> SUFFICES ASSUME ~crossed PROVE \E home \in HomeMaps : AtHome(home)'
        BY DEF SomeHome
    <2>1. PICK home \in HomeMaps : AtHome(home) BY DEF SpecInv, SomeHome
    <2>2. HomeOf(d, a) \in Homes BY <1>2 DEF HomeOf, Homes
    <2>3. PICK new \in HomeMaps :
            /\ new[<<k, edits + 1>>] = HomeOf(d, a)
            /\ \A l \in RecordKinds, n \in Nat : n # edits + 1 => new[<<l, n>>] = home[<<l, n>>]
      <3> DEFINE f == [home EXCEPT ![<<k, edits + 1>>] = HomeOf(d, a)]
      <3>1. /\ f \in HomeMaps /\ f[<<k, edits + 1>>] = HomeOf(d, a)
            /\ \A l \in RecordKinds, n \in Nat : n # edits + 1 => f[<<l, n>>] = home[<<l, n>>]
          BY <1>7, <2>1, <2>2 DEF HomeMaps
      <3> HIDE DEF f
      <3> QED BY <3>1
    <2>4. ASSUME NEW l \in RecordKinds, NEW x \in Rows, NEW h, Lives(home, l, x, h)
          PROVE  x.by # 0 => x.by <= edits' /\ new[<<l, x.by>>] = h
      <3>1. x.by \in Nat BY RowFacts
      <3>2. x.by # 0 => x.by <= edits /\ home[<<l, x.by>>] = h BY <2>4 DEF Lives
      <3>3. x.by # 0 => x.by <= edits' /\ x.by # edits + 1 BY <1>7, <3>1, <3>2
      <3> QED BY <2>3, <3>1, <3>2, <3>3
    <2>5. \A l \in RecordKinds, x \in Rows, b \in Accounts :
            Lives(home, l, x, <<b, NoAccount>>) => Lives(new, l, x, <<b, NoAccount>>)'
        BY <2>4 DEF Lives
    <2>6. ASSUME NEW e \in SpecDevices, NEW b \in AccountKeys, NEW l \in RecordKinds
          PROVE  Lives(new, l, tab[e][b][l], HomeOf(e, b))'
      <3>1. CASE e = d /\ b = a /\ l = k
        <4>1. tab'[e][b][l] = row BY <1>4, <1>5, <3>1
        <4>2. row.by <= edits' /\ new[<<l, row.by>>] = HomeOf(e, b) BY <1>7, <2>3, <3>1
        <4> QED BY <4>1, <4>2 DEF Lives, HomeOf
      <3>2. CASE ~(e = d /\ b = a /\ l = k)
        <4>1. tab'[e][b][l] = tab[e][b][l] BY <1>4, <1>5, <3>2
        <4>2. Lives(home, l, tab[e][b][l], HomeOf(e, b)) /\ tab[e][b][l] \in Rows
            BY <1>1, <2>1, DeviceFacts DEF AtHome
        <4>3. tab[e][b][l].by # 0 => /\ tab[e][b][l].by <= edits'
                                     /\ new[<<l, tab[e][b][l].by>>] = HomeOf(e, b)
            BY <2>4, <4>2
        <4> QED BY <4>1, <4>3 DEF Lives, HomeOf
      <3> QED BY <3>1, <3>2
    <2>7. AtHome(new)' BY <1>1, <1>6, <2>1, <2>5, <2>6, HomeMoves
    <2> QED BY <2>3, <2>7
  <1> QED BY <1>1, <1>3, <1>4, <1>6, <1>7, <1>8, <1>9, <1>10, <1>11, TableMoves DEF SpecTypes

LEMMA EditTime ==
  ASSUME SpecTypes, NEW d \in SpecDevices
  PROVE  Now(d) \in Nat \ {0} /\ edits + 1 \in Nat \ {0}
  <1>1. now \in Nat \ {0} /\ edits \in Nat BY DEF SpecTypes
  <1>2. Skew[d] \in Nat BY SpecsAssumption
  <1> QED BY <1>1, <1>2 DEF Now

(* A new row. *)
LEMMA PutKeeps ==
  ASSUME SpecInv, NEW d \in SpecDevices, NEW k \in RecordKinds, NEW full \in BOOLEAN,
         edits' = edits + 1,
         PutRow(d, AgentAccountKey(d), k,
                [at |-> 0, by |-> edits + 1, del |-> FALSE, full |-> full]),
         Dirty(d), Spoils({d}), UNCHANGED <<skip, server, who, now, crossed>>
  PROVE  SpecInv'
  <1> DEFINE raw == [at |-> 0, by |-> edits + 1, del |-> FALSE, full |-> full]
             row == Stamped(d, raw)
  <1>1. Now(d) \in Nat \ {0} /\ edits + 1 \in Nat \ {0} BY Acting, EditTime
  <1>2. row = [raw EXCEPT !.at = Now(d)]
    <2>1. raw.at = 0 OBVIOUS
    <2>2. (IF raw.at > 0 THEN raw.at ELSE Now(d)) = Now(d) BY <2>1
    <2>3. row = [raw EXCEPT !.at = IF raw.at > 0 THEN raw.at ELSE Now(d)] BY DEF Stamped
    <2> HIDE DEF raw, row
    <2> QED BY <2>2, <2>3
  <1>3. row \in Rows /\ row.by = edits + 1
    <2> DEFINE n == edits + 1
               m == Now(d)
    <2>1. n \in Nat \ {0} /\ m \in Nat \ {0} BY <1>1
    <2>2. raw = [at |-> 0, by |-> n, del |-> FALSE, full |-> full] /\ row = [raw EXCEPT !.at = m]
        BY <1>2
    <2> HIDE DEF n, m, raw, row
    <2>3. raw \in [at : Nat, by : Nat \ {0}, del : BOOLEAN, full : BOOLEAN] /\ raw.by = n
        BY <2>1, <2>2
    <2>4. row \in [at : Nat \ {0}, by : Nat \ {0}, del : BOOLEAN, full : BOOLEAN] /\ row.by = n
        BY <2>1, <2>2, <2>3
    <2> QED BY <2>4 DEF Rows, n
  <1> HIDE DEF row
  <1>4. tab' = [tab EXCEPT ![d][session[d]][k] = row] BY DEF PutRow, AgentAccountKey, row
  <1> QED BY <1>3, <1>4, EditKeeps

LEMMA UpsertRowKeeps ==
  ASSUME SpecInv, NEW d \in SpecDevices, NEW k \in RecordKinds, UpsertRow(d, k) PROVE SpecInv'
  BY PutKeeps DEF UpsertRow

LEMMA ImportKeeps ==
  ASSUME SpecInv, NEW d \in SpecDevices, ImportAgentProfiles(d) PROVE SpecInv'
  BY PutKeeps DEF ImportAgentProfiles, RecordKinds

LEMMA DeleteRowKeeps ==
  ASSUME SpecInv, NEW d \in SpecDevices, NEW k \in RecordKinds, DeleteRow(d, k) PROVE SpecInv'
  <1> DEFINE a == session[d]
             old == tab[d][a][k]
             row == [old EXCEPT !.at = Now(d), !.del = TRUE, !.by = edits + 1]
  <1>1. SpecTypes BY Acting
  <1>2. /\ tab[d] \in [AccountKeys -> RecordRows] /\ a \in AccountKeys /\ old \in Rows
        /\ tab[d][a] \in RecordRows
      BY <1>1, DeviceFacts
  <1>3. Now(d) \in Nat \ {0} /\ edits + 1 \in Nat \ {0} BY <1>1, EditTime
  <1>4. old.at > 0 BY DEF DeleteRow, AgentAccountKey
  <1>5. old # NoRow
    <2>1. old.at \in Nat BY <1>2, RowFacts
    <2>2. old.at # 0 BY <1>4, <2>1
    <2> QED BY <2>2, BlankRows
  <1>6. row \in Rows /\ row.by = edits + 1
    <2> DEFINE n == edits + 1
               m == Now(d)
    <2>1. n \in Nat \ {0} /\ m \in Nat \ {0} BY <1>3
    <2>2. old \in [at : Nat \ {0}, by : Nat \ {0}, del : BOOLEAN, full : BOOLEAN]
        BY <1>2, <1>5 DEF Rows
    <2>3. row = [old EXCEPT !.at = m, !.del = TRUE, !.by = n] OBVIOUS
    <2> HIDE DEF n, m, old, row
    <2>4. row \in [at : Nat \ {0}, by : Nat \ {0}, del : BOOLEAN, full : BOOLEAN] /\ row.by = n
        BY <2>1, <2>2, <2>3
    <2> QED BY <2>4 DEF Rows, n
  <1>7. tab' = [tab EXCEPT ![d][a][k] = row] BY DEF DeleteRow, AgentAccountKey
  <1> HIDE DEF row
  <1> QED BY <1>6, <1>7, EditKeeps DEF DeleteRow

-----------------------------------------------------------------------------
LEMMA StartSessionKeeps ==
  ASSUME SpecInv, NEW d \in SpecDevices, NEW a \in Accounts, StartSession(d, a) PROVE SpecInv'
  <1>1. SpecTypes BY Acting
  <1>2. UNCHANGED <<tab, srv, job, scene, skip, sync, now, edits, crossed>>
      BY DEF StartSession, local, server
  <1>3. /\ clean' \in [SpecDevices -> BOOLEAN] /\ agreed' \in [SpecDevices -> BOOLEAN]
        /\ ~clean'[d] /\ ~agreed'[d]
        /\ \A e \in SpecDevices \ {d} : clean'[e] = clean[e] /\ agreed'[e] = agreed[e]
      BY <1>1, Spoilt DEF StartSession
  <1>4. a \in AccountKeys BY DEF AccountKeys
  <1>5. /\ session' \in [SpecDevices -> AccountKeys] /\ proto' \in [SpecDevices -> AccountKeys]
        /\ rekeying' \in [SpecDevices -> AccountKeys]
        /\ \A e \in SpecDevices \ {d} : session'[e] = session[e]
      BY <1>1, <1>4 DEF StartSession, SpecTypes
  <1>6. tab[d] \in [AccountKeys -> RecordRows] /\ sync[d] \in {NoSync} \cup Syncing
        /\ tab' = [tab EXCEPT ![d] = tab[d]] /\ sync' = [sync EXCEPT ![d] = sync[d]]
      BY <1>1, <1>2 DEF SpecTypes
  <1>7. DeviceInv(d)' BY <1>2, <1>3, EditedDevice
  <1>8. SomeHome'
    <2>1. SomeHome BY DEF SpecInv
    <2> QED BY <1>2, <2>1 DEF SomeHome, AtHome, Lives
  <1> QED BY <1>1, <1>2, <1>3, <1>5, <1>6, <1>7, <1>8, TableMoves DEF SpecTypes

LEMMA StopSessionKeeps ==
  ASSUME SpecInv, NEW d \in SpecDevices, StopSession(d) PROVE SpecInv'
  <1>1. SpecTypes BY Acting
  <1>2. UNCHANGED <<tab, srv, job, scene, skip, sync, now, edits, crossed, proto, rekeying>>
      BY DEF StopSession, local, server
  <1>3. /\ clean' \in [SpecDevices -> BOOLEAN] /\ agreed' \in [SpecDevices -> BOOLEAN]
        /\ ~clean'[d] /\ ~agreed'[d]
        /\ \A e \in SpecDevices \ {d} : clean'[e] = clean[e] /\ agreed'[e] = agreed[e]
      BY <1>1, Spoilt DEF StopSession
  <1>4. NoAccount \in AccountKeys BY DEF AccountKeys
  <1>5. /\ session' \in [SpecDevices -> AccountKeys]
        /\ \A e \in SpecDevices \ {d} : session'[e] = session[e]
      BY <1>1, <1>4 DEF StopSession, SpecTypes
  <1>6. tab[d] \in [AccountKeys -> RecordRows] /\ sync[d] \in {NoSync} \cup Syncing
        /\ tab' = [tab EXCEPT ![d] = tab[d]] /\ sync' = [sync EXCEPT ![d] = sync[d]]
      BY <1>1, <1>2 DEF SpecTypes
  <1>7. DeviceInv(d)' BY <1>2, <1>3, EditedDevice
  <1>8. SomeHome'
    <2>1. SomeHome BY DEF SpecInv
    <2> QED BY <1>2, <2>1 DEF SomeHome, AtHome, Lives
  <1> QED BY <1>1, <1>2, <1>3, <1>5, <1>6, <1>7, <1>8, TableMoves DEF SpecTypes

(* The rows of a device after rekeying: those of no account are gone, and  *)
(* the account has them where it had none.                                 *)
LEMMA Rekeyed ==
  ASSUME SpecTypes, NEW d \in SpecDevices, Rekey(d)
  PROVE  \E t \in [AccountKeys -> RecordRows] :
           /\ rekeying[d] \in Accounts /\ tab' = [tab EXCEPT ![d] = t] /\ tab'[d] = t
           /\ \A e \in SpecDevices \ {d} : tab'[e] = tab[e]
           /\ \A k \in RecordKinds : t[NoAccount][k] = NoRow
           /\ \A b \in Accounts, k \in RecordKinds :
                t[b][k] = IF b = rekeying[d] /\ ~(tab[d][b][k].at > 0) THEN tab[d][NoAccount][k]
                          ELSE tab[d][b][k]
  <1> DEFINE a == rekeying[d]
             rows == [k \in RecordKinds |-> IF tab[d][a][k].at > 0 THEN tab[d][a][k]
                                            ELSE tab[d][NoAccount][k]]
             t == [tab[d] EXCEPT ![a] = rows, ![NoAccount] = NoRows]
  <1>1. a \in Accounts /\ a # NoAccount BY DeviceFacts DEF Rekey, AccountKeys
  <1>2. /\ tab[d] \in [AccountKeys -> RecordRows] /\ NoAccount \in AccountKeys
        /\ a \in AccountKeys
        /\ \A k \in RecordKinds : tab[d][a][k] \in Rows /\ tab[d][NoAccount][k] \in Rows
      BY <1>1, DeviceFacts DEF AccountKeys
  <1>3. rows \in RecordRows BY <1>2 DEF RecordRows
  <1>4. \A k \in RecordKinds : rows[k] = IF ~(tab[d][a][k].at > 0) THEN tab[d][NoAccount][k]
                                         ELSE tab[d][a][k]
      OBVIOUS
  <1>5. tab' = [tab EXCEPT ![d] = t] BY DEF Rekey
  <1> HIDE DEF rows
  <1>6. /\ t \in [AccountKeys -> RecordRows] /\ t[NoAccount] = NoRows /\ t[a] = rows
        /\ \A b \in Accounts : b # a => t[b] = tab[d][b]
      BY <1>1, <1>2, <1>3, BlankRows, SpecsAssumption DEF AccountKeys
  <1> HIDE DEF t
  <1>7. tab'[d] = t /\ \A e \in SpecDevices \ {d} : tab'[e] = tab[e] BY <1>5 DEF SpecTypes
  <1>8. \A k \in RecordKinds : t[NoAccount][k] = NoRow BY <1>6, BlankRows
  <1>9. ASSUME NEW b \in Accounts, NEW k \in RecordKinds
        PROVE  t[b][k] = IF b = a /\ ~(tab[d][b][k].at > 0) THEN tab[d][NoAccount][k]
                         ELSE tab[d][b][k]
    <2>1. CASE b = a BY <1>4, <1>6, <2>1
    <2>2. CASE b # a BY <1>6, <2>2
    <2> QED BY <2>1, <2>2
  <1> QED BY <1>1, <1>5, <1>6, <1>7, <1>8, <1>9

LEMMA RekeyKeeps ==
  ASSUME SpecInv, NEW d \in SpecDevices, Rekey(d) PROVE SpecInv'
  <1>1. SpecTypes BY Acting
  <1>2. PICK t \in [AccountKeys -> RecordRows] :
          /\ rekeying[d] \in Accounts /\ tab' = [tab EXCEPT ![d] = t] /\ tab'[d] = t
          /\ \A e \in SpecDevices \ {d} : tab'[e] = tab[e]
          /\ \A k \in RecordKinds : t[NoAccount][k] = NoRow
          /\ \A b \in Accounts, k \in RecordKinds :
               t[b][k] = IF b = rekeying[d] /\ ~(tab[d][b][k].at > 0) THEN tab[d][NoAccount][k]
                         ELSE tab[d][b][k]
      BY <1>1, Rekeyed
  <1>3. UNCHANGED <<srv, job, scene, skip, session, proto, now, edits, crossed>>
      BY DEF Rekey, server, limits
  <1>4. /\ clean' \in [SpecDevices -> BOOLEAN] /\ agreed' \in [SpecDevices -> BOOLEAN]
        /\ ~clean'[d] /\ ~agreed'[d]
        /\ \A e \in SpecDevices \ {d} : clean'[e] = clean[e] /\ agreed'[e] = agreed[e]
      BY <1>1, Spoilt DEF Rekey
  <1>5. Dirty(d) BY DEF Rekey
  <1>6. rekeying' \in [SpecDevices -> AccountKeys]
    <2>1. NoAccount \in AccountKeys BY DEF AccountKeys
    <2> QED BY <1>1, <2>1 DEF Rekey, SpecTypes
  <1>7. DeviceInv(d)' BY <1>3, <1>4, <1>5, EditedDevice
  <1>8. PICK r \in {NoSync} \cup Syncing : sync' = [sync EXCEPT ![d] = r] BY <1>1, <1>5, Marked
  <1>9. SomeHome'
    <2> SUFFICES ASSUME ~crossed PROVE \E home \in HomeMaps : AtHome(home)'
        BY <1>3 DEF SomeHome
    <2>1. PICK home \in HomeMaps : AtHome(home) BY DEF SpecInv, SomeHome
    <2>2. PICK a \in Accounts : a = rekeying[d] BY <1>2
    <2>3. a # NoAccount /\ <<a, NoAccount>> \in Homes BY SpecsAssumption DEF Homes, AccountKeys
    <2>4. PICK new \in HomeMaps : \A k \in RecordKinds, n \in Nat :
            new[<<k, n>>] = IF home[<<k, n>>] = <<NoAccount, d>> THEN <<a, NoAccount>>
                            ELSE home[<<k, n>>]
      <3> DEFINE f == [x \in RecordKinds \X Nat |->
                         IF home[x] = <<NoAccount, d>> THEN <<a, NoAccount>> ELSE home[x]]
      <3>1. f \in HomeMaps BY <2>1, <2>3 DEF HomeMaps
      <3>2. \A k \in RecordKinds, n \in Nat :
              f[<<k, n>>] = IF home[<<k, n>>] = <<NoAccount, d>> THEN <<a, NoAccount>>
                            ELSE home[<<k, n>>]
          OBVIOUS
      <3> HIDE DEF f
      <3> QED BY <3>1, <3>2
    <2>5. ASSUME NEW k \in RecordKinds, NEW x \in Rows, NEW h, Lives(home, k, x, h)
          PROVE  /\ h # <<NoAccount, d>> => (x.by # 0 => x.by <= edits /\ new[<<k, x.by>>] = h)
                 /\ h = <<NoAccount, d>> =>
                      (x.by # 0 => x.by <= edits /\ new[<<k, x.by>>] = <<a, NoAccount>>)
      <3>1. x.by \in Nat BY RowFacts
      <3> QED BY <2>4, <2>5, <3>1 DEF Lives
    <2>6. \A b \in Accounts : <<b, NoAccount>> # <<NoAccount, d>> BY SpecsAssumption
    <2>7. \A k \in RecordKinds, x \in Rows, b \in Accounts :
            Lives(home, k, x, <<b, NoAccount>>) => Lives(new, k, x, <<b, NoAccount>>)'
        BY <1>3, <2>5, <2>6 DEF Lives
    <2>8. ASSUME NEW e \in SpecDevices, NEW b \in AccountKeys, NEW k \in RecordKinds
          PROVE  Lives(new, k, tab[e][b][k], HomeOf(e, b))'
      <3>1. \A x \in AccountKeys : Lives(home, k, tab[e][x][k], HomeOf(e, x)) /\ tab[e][x][k] \in Rows
          BY <1>1, <2>1, DeviceFacts DEF AtHome
      <3>2. CASE b = NoAccount /\ e = d
        <4>1. tab'[e][b][k].by = 0 BY <1>2, <3>2, BlankRows
        <4> QED BY <4>1 DEF Lives
      <3>3. CASE b = NoAccount /\ e # d
        <4>1. HomeOf(e, b) = <<NoAccount, e>> /\ HomeOf(e, b) # <<NoAccount, d>>
            BY <3>3 DEF HomeOf
        <4>2. tab'[e][b][k] = tab[e][b][k] BY <1>2, <3>3
        <4> QED BY <1>3, <2>5, <3>1, <4>1, <4>2 DEF Lives, HomeOf
      <3>4. CASE b \in Accounts
        <4>1. HomeOf(e, b) = <<b, NoAccount>> BY <3>4, SpecsAssumption DEF HomeOf
        <4>2. CASE tab'[e][b][k] = tab[e][b][k]
            BY <1>3, <2>5, <2>6, <3>1, <3>4, <4>1, <4>2 DEF Lives, HomeOf
        <4>3. CASE tab'[e][b][k] # tab[e][b][k]
          <5>1. e = d /\ b = a /\ tab'[e][b][k] = tab[d][NoAccount][k]
              BY <1>2, <2>2, <3>4, <4>3
          <5>2. HomeOf(d, NoAccount) = <<NoAccount, d>> /\ NoAccount \in AccountKeys
              BY DEF HomeOf, AccountKeys
          <5>3. /\ Lives(home, k, tab[d][NoAccount][k], <<NoAccount, d>>)
                /\ tab[d][NoAccount][k] \in Rows
              BY <3>1, <5>1, <5>2
          <5> QED BY <1>3, <2>5, <4>1, <5>1, <5>3 DEF Lives, HomeOf
        <4> QED BY <4>2, <4>3
      <3> QED BY <3>2, <3>3, <3>4 DEF AccountKeys
    <2>9. AtHome(new)' BY <1>1, <1>3, <1>5, <2>1, <2>7, <2>8, HomeMoves
    <2> QED BY <2>9
  <1> QED BY <1>1, <1>2, <1>3, <1>4, <1>6, <1>7, <1>8, <1>9, TableMoves DEF SpecTypes

(* A sync stores the record it fetched, as it is. *)
LEMMA Stored ==
  ASSUME SpecInv, NEW d \in SpecDevices, NEW k \in RecordKinds, sync[d].pc = StoreStage(k),
         PutRow(d, AgentAccountKey(d), k, sync[d].remote[k])
  PROVE  \E t \in [AccountKeys -> RecordRows] :
           /\ tab' = [tab EXCEPT ![d] = t] /\ tab'[d] = t
           /\ \A e \in SpecDevices \ {d} : tab'[e] = tab[e]
           /\ \A b \in AccountKeys, l \in RecordKinds :
                t[b][l] = IF b = session[d] /\ l = k THEN sync[d].remote[k] ELSE tab[d][b][l]
  <1> DEFINE s == sync[d]
             a == session[d]
             row == s.remote[k]
             t == [tab[d] EXCEPT ![a] = [@ EXCEPT ![k] = row]]
  <1>1. s.pc \in {"store spec", "store acct"} BY DEF StoreStage
  <1>2. /\ SpecTypes /\ DeviceInv(d) /\ ~agreed[d] /\ s \in Syncing /\ s # NoSync
        /\ s.of \in Accounts
        /\ s.of # NoAccount /\ (clean[d] => Compares(d)) /\ row \in Rows
      BY <1>1, InSync
  <1>3. row.at > 0 BY <1>2 DEF DeviceInv, Storing
  <1>4. Stamped(d, row) = row
    <2>1. Stamped(d, row) = [row EXCEPT !.at = IF row.at > 0 THEN row.at ELSE Now(d)]
        BY DEF Stamped
    <2>2. Stamped(d, row) = [row EXCEPT !.at = row.at] BY <1>3, <2>1
    <2>3. row # NoRow
      <3>1. row.at \in Nat BY <1>2, RowFacts
      <3>2. row.at # 0 BY <1>3, <3>1
      <3> QED BY <3>2, BlankRows
    <2>4. row \in [at : Nat \ {0}, by : Nat \ {0}, del : BOOLEAN, full : BOOLEAN]
        BY <1>2, <2>3 DEF Rows
    <2> HIDE DEF row
    <2> QED BY <2>2, <2>4
  <1>5. tab[d] \in [AccountKeys -> RecordRows] /\ a \in AccountKeys BY <1>2, DeviceFacts
  <1>6. tab' = [tab EXCEPT ![d] = t] BY <1>4 DEF PutRow, AgentAccountKey
  <1>7. /\ t \in [AccountKeys -> RecordRows]
        /\ \A b \in AccountKeys, l \in RecordKinds :
             t[b][l] = IF b = a /\ l = k THEN row ELSE tab[d][b][l]
    <2>1. [tab[d][a] EXCEPT ![k] = row] \in RecordRows BY <1>2, <1>5 DEF RecordRows
    <2>2. \A l \in RecordKinds :
            [tab[d][a] EXCEPT ![k] = row][l] = IF l = k THEN row ELSE tab[d][a][l]
        BY <1>5 DEF RecordRows
    <2> QED BY <1>5, <2>1, <2>2
  <1> HIDE DEF t
  <1>8. tab'[d] = t /\ \A e \in SpecDevices \ {d} : tab'[e] = tab[e] BY <1>2, <1>6 DEF SpecTypes
  <1> QED BY <1>6, <1>7, <1>8

LEMMA StoreKeeps ==
  ASSUME SpecInv, NEW d \in SpecDevices, NEW k \in RecordKinds, sync[d].pc = StoreStage(k),
         NEW next \in {"specs", "pushes"}, k = "spec" <=> next = "pushes", Store(d, k, next)
  PROVE  SpecInv'
  <1> DEFINE s == sync[d]
             a == session[d]
             row == s.remote[k]
             r == [s EXCEPT !.pc = next]
  <1>1. s.pc \in {"store spec", "store acct"} BY DEF StoreStage
  <1>2. /\ SpecTypes /\ DeviceInv(d) /\ ~agreed[d] /\ s \in Syncing /\ s # NoSync
        /\ s.of \in Accounts
        /\ s.of # NoAccount /\ (clean[d] => Compares(d)) /\ row \in Rows
      BY <1>1, InSync
  <1>3. a \in AccountKeys /\ s.of \in AccountKeys BY <1>2, DeviceFacts
  <1>7. PICK t \in [AccountKeys -> RecordRows] :
          /\ tab' = [tab EXCEPT ![d] = t] /\ tab'[d] = t
          /\ \A e \in SpecDevices \ {d} : tab'[e] = tab[e]
          /\ \A b \in AccountKeys, l \in RecordKinds :
               t[b][l] = IF b = a /\ l = k THEN row ELSE tab[d][b][l]
      BY Stored DEF Store
  <1>8. /\ r \in Syncing /\ r.pc = next /\ r.of = s.of /\ r.push = s.push /\ r.remote = s.remote
        /\ r.key = s.key
      BY <1>2 DEF Syncing, SyncStages, Keyed
  <1>9. sync' = [sync EXCEPT ![d] = r] BY DEF Store, SyncStep, SyncTo
  <1> HIDE DEF r
  <1>10. UNCHANGED <<srv, job, scene, skip, session, rekeying, proto, now, edits, clean, agreed>>
      BY DEF Store, server, who, limits, Steady
  <1>11. /\ sync'[d] = r /\ tab'[d] = t
         /\ \A e \in SpecDevices \ {d} : tab'[e] = tab[e] /\ sync'[e] = sync[e]
      BY <1>2, <1>7, <1>9 DEF SpecTypes
  <1>12. crossed' \in BOOLEAN /\ (crossed => crossed') /\ (~crossed' => a = s.of)
      BY Acting DEF Store, Crosses, AgentAccountKey
  <1>13. DeviceInv(d)'
    <2>1. Theirs(d)' = Theirs(d) BY <1>8, <1>10, <1>11 DEF Theirs
    <2>2. ASSUME clean[d] PROVE Compares(d)'
      <3>1. /\ a = s.of /\ \A l \in RecordKinds : Theirs(d)[l] = s.remote[l]
          BY <1>1, <1>2, <2>2 DEF Compares, RecordKinds
      <3>2. \A l \in RecordKinds : Mine(d)'[l] = IF l = k THEN row ELSE Mine(d)[l]
          BY <1>3, <1>7, <1>8, <1>11, <3>1 DEF Mine
      <3>3. CASE k = "acct"
        <4>1. Took(d, "acct")' BY <1>8, <1>11, <3>2, <3>3 DEF Took, RecordKinds
        <4>2. next = "specs" BY <3>3
        <4> QED
            BY <1>8, <1>10, <1>11, <2>1, <3>1, <4>1, <4>2 DEF Compares, Keyed, Pushing,
               RecordKinds
      <3>4. CASE k = "spec"
        <4>1. s.pc = "store spec" /\ next = "pushes" BY <3>4 DEF StoreStage
        <4>2. Took(d, "acct") /\ s.push["spec"] = NoRow /\ s.key = s.of
            BY <1>2, <2>2, <4>1 DEF Compares, Keyed
        <4>3. Mine(d)'["acct"] = Mine(d)["acct"] /\ Mine(d)'["spec"] = s.remote["spec"]
            BY <3>2, <3>4 DEF RecordKinds
        <4>4. Took(d, "acct")' /\ Picked(d, "spec")'
            BY <1>8, <1>11, <4>2, <4>3 DEF Took, Picked
        <4> QED BY <1>8, <1>10, <1>11, <2>1, <3>1, <4>1, <4>2, <4>4
            DEF Compares, Keyed, Pushing, RecordKinds
      <3> QED BY <3>3, <3>4 DEF RecordKinds
    <2>3. sync'[d].pc \in {"specs", "pushes"} BY <1>8, <1>11
    <2>4. ASSUME NEW l \in RecordKinds PROVE Storing(d, l)' /\ Awaited(d, l)'
      <3>1. sync'[d].pc # StoreStage(l) BY <2>3 DEF StoreStage
      <3>2. Storing(d, l)' BY <3>1 DEF Storing
      <3>3. Awaited(d, l)' BY <2>3 DEF Awaited, Awaits, SyncAt
      <3> QED BY <3>2, <3>3
    <2>5. Upserting(d)' BY <1>2, <1>10 DEF DeviceInv, Upserting
    <2>6. KeyHome(d)'
      <3>1. CASE k = "acct"
        <4>1. sync'[d].pc = "specs" BY <1>8, <1>11, <3>1
        <4> QED BY <4>1 DEF KeyHome, Keyed, Pushing
      <3>2. CASE k = "spec"
        <4>1. s.pc = "store spec" BY <3>2 DEF StoreStage
        <4>2. ~crossed => s.key = s.of BY <1>2, <4>1 DEF DeviceInv, KeyHome, Keyed
        <4> QED BY <1>8, <1>11, <1>12, <4>2 DEF KeyHome
      <3> QED BY <3>1, <3>2 DEF RecordKinds
    <2> QED BY <1>2, <1>10, <2>2, <2>4, <2>5, <2>6 DEF DeviceInv, Comparing, Agreed
  <1>14. SomeHome'
    <2> SUFFICES ASSUME ~crossed' PROVE \E home \in HomeMaps : AtHome(home)'
        BY DEF SomeHome
    <2>1. PICK home \in HomeMaps : AtHome(home) BY <1>12 DEF SpecInv, SomeHome
    <2>2. a = s.of /\ HomeOf(d, a) = <<s.of, NoAccount>> BY <1>2, <1>12 DEF HomeOf
    <2>3. Lives(home, k, row, <<s.of, NoAccount>>) BY <1>2, <2>1 DEF AtHome
    <2>4. ASSUME NEW e \in SpecDevices, NEW b \in AccountKeys, NEW l \in RecordKinds
          PROVE  Lives(home, l, tab[e][b][l], HomeOf(e, b))'
      <3>1. Lives(home, l, tab[e][b][l], HomeOf(e, b)) BY <2>1 DEF AtHome
      <3>2. CASE e = d /\ b = a /\ l = k
        <4>1. tab'[e][b][l] = row /\ Lives(home, l, row, HomeOf(e, b))
            BY <1>7, <1>11, <2>2, <2>3, <3>2
        <4> QED BY <1>10, <4>1 DEF Lives, HomeOf
      <3>3. CASE ~(e = d /\ b = a /\ l = k)
        <4>1. tab'[e][b][l] = tab[e][b][l] BY <1>7, <1>11, <3>3
        <4> QED BY <1>10, <3>1, <4>1 DEF Lives, HomeOf
      <3> QED BY <3>2, <3>3
    <2>5. /\ \A b \in Accounts, l \in RecordKinds : Lives(home, l, srv[b][l], <<b, NoAccount>>)'
          /\ \A e \in SpecDevices : job'[e] # NoJob =>
               Lives(home, job[e].kind, job[e].row, <<job[e].of, NoAccount>>)'
        BY <1>10, <2>1 DEF AtHome, Lives
    <2>6. ASSUME NEW e \in SpecDevices, sync'[e] # NoSync, NEW l \in RecordKinds
          PROVE  /\ Lives(home, l, sync[e].remote[l], <<sync[e].of, NoAccount>>)'
                 /\ Lives(home, l, sync[e].push[l], <<sync[e].of, NoAccount>>)'
      <3>1. /\ sync[e] # NoSync /\ sync'[e].of = sync[e].of /\ sync'[e].remote = sync[e].remote
            /\ sync'[e].push = sync[e].push
          BY <1>2, <1>8, <1>11, <2>6
      <3>2. /\ Lives(home, l, sync[e].remote[l], <<sync[e].of, NoAccount>>)
            /\ Lives(home, l, sync[e].push[l], <<sync[e].of, NoAccount>>)
          BY <2>1, <3>1 DEF AtHome
      <3> QED BY <1>10, <3>1, <3>2 DEF Lives
    <2>7. AtHome(home)' BY <2>4, <2>5, <2>6 DEF AtHome
    <2> QED BY <2>7
  <1> QED BY <1>2, <1>7, <1>8, <1>9, <1>10, <1>12, <1>13, <1>14, TableMoves DEF SpecTypes

LEMMA StoresKeep ==
  ASSUME SpecInv, NEW d \in SpecDevices, StoreAccount(d) \/ StoreSpec(d) PROVE SpecInv'
  <1>1. CASE StoreAccount(d) BY <1>1, StoreKeeps DEF StoreAccount, SyncAt, StoreStage, RecordKinds
  <1>2. CASE StoreSpec(d) BY <1>2, StoreKeeps DEF StoreSpec, SyncAt, StoreStage, RecordKinds
  <1> QED BY <1>1, <1>2

(* Only the clock, or a bound, moves. *)
LEMMA StillKeeps ==
  ASSUME SpecInv, now' \in Nat \ {0},
         UNCHANGED <<tab, srv, session, rekeying, proto, skip, sync, job, edits, scene, clean, agreed,
                     crossed>>
  PROVE  SpecInv'
  <1>1. SpecTypes BY DEF SpecInv
  <1>2. SpecTypes' BY <1>1 DEF SpecTypes
  <1>3. ASSUME NEW e \in SpecDevices PROVE DeviceInv(e)'
    <2>1. DeviceInv(e) BY DEF SpecInv
    <2> QED BY <1>1, <2>1, OtherDevice
  <1>4. SomeHome'
    <2>1. SomeHome BY DEF SpecInv
    <2> QED BY <2>1 DEF SomeHome, AtHome, Lives
  <1> QED BY <1>2, <1>3, <1>4 DEF SpecInv

LEMMA TickKeeps == ASSUME SpecInv, Tick PROVE SpecInv'
  <1>1. now \in Nat \ {0} BY DEF SpecInv, SpecTypes
  <1>2. now' \in Nat \ {0} BY <1>1 DEF Tick
  <1> QED BY <1>2, StillKeeps DEF Tick, local, server, who, Steady

LEMMA SyncKeeps ==
  ASSUME SpecInv, NEW d \in SpecDevices, Sync(d) PROVE SpecInv'
  BY SyncStartKeeps, SyncFailsKeeps, SyncAnsweredKeeps, ApplyAccountsLoadKeeps, StoresKeep,
     SpecsLoadKeeps, PushesLoadKeeps, PushSpecKeeps, PushNoSpecKeeps, PushAccountKeeps,
     PushFailsKeeps, PushAnsweredKeeps, SyncEndsKeeps
  DEF Sync

LEMMA SpecsStep == SpecInv /\ [SpecsNext]_specVars => SpecInv'
  <1> SUFFICES ASSUME SpecInv, [SpecsNext]_specVars PROVE SpecInv'
      OBVIOUS
  <1>1. CASE UNCHANGED specVars
    <2>1. UNCHANGED <<tab, srv, session, rekeying, proto, skip, sync, job, now, edits, scene, clean,
                      agreed, crossed>>
        BY <1>1 DEF specVars, local, server, who, limits
    <2>2. now' \in Nat \ {0} BY <2>1 DEF SpecInv, SpecTypes
    <2> QED BY <2>1, <2>2, StillKeeps
  <1>2. CASE SpecsNext
    <2>1. scene.actors \subseteq SpecDevices BY SpecsAssumption DEF SpecInv, SpecTypes
    <2>2. "spec" \in RecordKinds /\ "acct" \in RecordKinds BY DEF RecordKinds
    <2>3. CASE Tick BY <2>3, TickKeeps
    <2>4. ASSUME NEW d \in SpecDevices,
                 \/ UpsertAgentProfile(d) \/ DeleteAgentProfile(d) \/ ImportAgentProfiles(d)
                 \/ UpsertProviderAccount(d) \/ DeleteProviderAccount(d)
          PROVE  SpecInv'
        BY <2>2, <2>4, UpsertRowKeeps, DeleteRowKeeps, ImportKeeps
        DEF UpsertAgentProfile, DeleteAgentProfile, UpsertProviderAccount, DeleteProviderAccount
    <2>5. ASSUME NEW d \in SpecDevices,
                 (\E a \in Accounts : StartSession(d, a)) \/ StopSession(d) \/ Rekey(d)
          PROVE  SpecInv'
        BY <2>5, StartSessionKeeps, StopSessionKeeps, RekeyKeeps
    <2>6. ASSUME NEW d \in SpecDevices, Sync(d) \/ Serve(d) PROVE SpecInv'
        BY <2>6, SyncKeeps, ServeKeeps
    <2> QED BY <1>2, <2>1, <2>3, <2>4, <2>5, <2>6 DEF SpecsNext
  <1> QED BY <1>1, <1>2

LEMMA SpecsStart == SpecsInit => SpecInv
  <1> SUFFICES ASSUME SpecsInit PROVE SpecInv
      OBVIOUS
  <1>1. scene \in Scenes /\ session \in [SpecDevices -> AccountKeys] /\ proto = session
      BY SpecsAssumption DEF SpecsInit, AccountKeys
  <1>2. SpecTypes
    <2>1. tab \in [SpecDevices -> [AccountKeys -> RecordRows]] /\ srv \in [Accounts -> RecordRows]
        BY BlankRows DEF SpecsInit
    <2>2. rekeying \in [SpecDevices -> AccountKeys] BY DEF SpecsInit, AccountKeys
    <2>3. /\ skip \in [SpecDevices -> BOOLEAN] /\ clean \in [SpecDevices -> BOOLEAN]
          /\ agreed \in [SpecDevices -> BOOLEAN] /\ crossed \in BOOLEAN
        BY DEF SpecsInit
    <2>4. /\ sync \in [SpecDevices -> {NoSync} \cup Syncing]
          /\ job \in [SpecDevices -> {NoJob} \cup Upserts]
        BY DEF SpecsInit
    <2>5. now \in Nat \ {0} /\ edits \in Nat BY DEF SpecsInit
    <2> QED BY <1>1, <2>1, <2>2, <2>3, <2>4, <2>5 DEF SpecTypes
  <1>3. ASSUME NEW d \in SpecDevices PROVE DeviceInv(d)
    <2>1. /\ sync[d] = NoSync /\ job[d] = NoJob /\ ~clean[d] /\ ~agreed[d] BY DEF SpecsInit
    <2>2. sync[d].pc = "idle" /\ job[d].stage = "none" BY <2>1 DEF NoSync, NoJob
    <2>3. ASSUME NEW k \in RecordKinds PROVE Storing(d, k) /\ Awaited(d, k)
      <3>1. sync[d].pc # StoreStage(k) BY <2>2 DEF StoreStage
      <3>2. Storing(d, k) BY <3>1 DEF Storing
      <3>3. Awaited(d, k) BY <2>2 DEF Awaited, Awaits, SyncAt
      <3> QED BY <3>2, <3>3
    <2>4. Upserting(d) BY <2>2 DEF Upserting
    <2>5. KeyHome(d) BY <2>2 DEF KeyHome, Keyed, Pushing
    <2> QED BY <2>1, <2>3, <2>4, <2>5 DEF DeviceInv, Comparing, Agreed
  <1>4. SomeHome
    <2> DEFINE home == [x \in RecordKinds \X Nat |-> <<NoAccount, NoAccount>>]
    <2>1. home \in HomeMaps BY DEF HomeMaps, Homes, AccountKeys
    <2>2. /\ \A d \in SpecDevices, a \in AccountKeys, k \in RecordKinds : tab[d][a][k].by = 0
          /\ \A a \in Accounts, k \in RecordKinds : srv[a][k].by = 0
        BY BlankRows DEF SpecsInit
    <2>3. \A d \in SpecDevices : sync[d] = NoSync /\ job[d] = NoJob BY DEF SpecsInit
    <2> HIDE DEF home
    <2>4. AtHome(home) BY <2>2, <2>3 DEF AtHome, Lives
    <2> QED BY <2>1, <2>4 DEF SomeHome
  <1> QED BY <1>2, <1>3, <1>4 DEF SpecInv

LEMMA SpecsInvariance == SpecsSpec => []SpecInv
  <1> QED BY SpecsStart, SpecsStep, PTL DEF SpecsSpec

-----------------------------------------------------------------------------
LEMMA SpecInvSynced == SpecInv => SpecsSynced
  <1> SUFFICES ASSUME SpecInv PROVE InStep /\ SpecsStayHome
      BY DEF SpecsSynced
  <1>1. SpecTypes BY DEF SpecInv
  <1>2. ASSUME NEW d \in SpecDevices, agreed[d]
        PROVE  LET mine == tab[d][session[d]]
                   theirs == srv[session[d]]
               IN /\ mine["acct"] = theirs["acct"]
                  /\ mine["spec"].at > theirs["spec"].at => skip[d] \/ ~mine["spec"].full
                  /\ mine["spec"].at <= theirs["spec"].at => mine["spec"] = theirs["spec"]
    <2> DEFINE mine == tab[d][session[d]]["spec"]
               theirs == srv[session[d]]["spec"]
    <2>1. /\ session[d] \in Accounts
          /\ tab[d][session[d]]["acct"] = srv[session[d]]["acct"] /\ Agree(mine, theirs, skip[d])
        BY <1>2 DEF SpecInv, DeviceInv, Agreed
    <2>2. mine \in Rows /\ theirs \in Rows BY <1>1, <2>1, DeviceFacts DEF RecordKinds
    <2>3. mine.at \in Nat /\ theirs.at \in Nat BY <2>2, RowFacts
    <2>4. CASE mine = theirs BY <2>1, <2>3, <2>4
    <2>5. CASE mine.at > theirs.at /\ (skip[d] \/ ~mine.full)
      <3>1. ~(mine.at <= theirs.at) BY <2>3, <2>5
      <3> QED BY <2>1, <2>5, <3>1
    <2> QED BY <2>1, <2>4, <2>5 DEF Agree
  <1>3. InStep BY <1>2 DEF InStep
  <1>4. SpecsStayHome
    <2> SUFFICES ASSUME ~crossed, NEW x \in Places, NEW y \in Places, x[2] = y[2], x[3] = y[3], x[3] > 0
                 PROVE  x[1] = y[1]
        BY DEF SpecsStayHome
    <2>1. PICK home \in HomeMaps : AtHome(home) BY DEF SpecInv, SomeHome
    <2>2. ASSUME NEW z \in Places, z[3] > 0 PROVE home[<<z[2], z[3]>>][1] = z[1]
      <3>1. CASE z \in {<<a, k, tab[d][a][k].by>> : d \in SpecDevices, a \in AccountKeys,
                                                     k \in RecordKinds}
        <4>1. PICK d \in SpecDevices, a \in AccountKeys, k \in RecordKinds :
                z = <<a, k, tab[d][a][k].by>>
            BY <3>1
        <4>2. z[1] = a /\ z[2] = k /\ z[3] = tab[d][a][k].by BY <4>1
        <4>3. tab[d][a][k] \in Rows /\ Lives(home, k, tab[d][a][k], HomeOf(d, a))
            BY <1>1, <2>1, DeviceFacts DEF AtHome
        <4>4. tab[d][a][k].by \in Nat BY <4>3, RowFacts
        <4>5. tab[d][a][k].by # 0 BY <2>2, <4>2, <4>4
        <4> QED BY <4>2, <4>3, <4>5 DEF Lives, HomeOf
      <3>2. CASE z \in {<<a, k, srv[a][k].by>> : a \in Accounts, k \in RecordKinds}
        <4>1. PICK a \in Accounts, k \in RecordKinds : z = <<a, k, srv[a][k].by>> BY <3>2
        <4>2. z[1] = a /\ z[2] = k /\ z[3] = srv[a][k].by BY <4>1
        <4>3. srv[a][k] \in Rows /\ Lives(home, k, srv[a][k], <<a, NoAccount>>)
            BY <1>1, <2>1 DEF AtHome, SpecTypes, RecordRows
        <4>4. srv[a][k].by \in Nat BY <4>3, RowFacts
        <4>5. srv[a][k].by # 0 BY <2>2, <4>2, <4>4
        <4> QED BY <4>2, <4>3, <4>5 DEF Lives
      <3> QED BY <2>2, <3>1, <3>2 DEF Places
    <2>3. home[<<x[2], x[3]>>][1] = x[1] BY <2>2
    <2>4. y[3] > 0 OBVIOUS
    <2>5. home[<<y[2], y[3]>>][1] = y[1] BY <2>2, <2>4
    <2>6. <<x[2], x[3]>> = <<y[2], y[3]>> OBVIOUS
    <2> QED BY <2>3, <2>5, <2>6
  <1> QED BY <1>3, <1>4

(* A sync that ran to its end, with nothing edited, pushed or switched     *)
(* since it began, has left device and server with the same records, and   *)
(* no record is found under an account it was not written for unless a     *)
(* session was switched under a sync (sync_agent_specs, start_session).    *)
THEOREM SyncSafety == SpecsSpec => []SpecsSynced
  <1> QED BY SpecsInvariance, SpecInvSynced, PTL

(* An older row takes a newer one's place only by an edit between the load *)
(* and the store of a sync, or a switch of the account.                    *)
LEMMA RowsGrow ==
  ASSUME SpecInv, SpecsNext, NEW d \in SpecDevices, NEW a \in Accounts, NEW k \in RecordKinds,
         tab'[d][a][k].at < tab[d][a][k].at
  PROVE  edits' # edits \/ sync[d].dirty \/ crossed'
  <1>1. SpecTypes /\ a \in AccountKeys BY DEF SpecInv, AccountKeys
  <1>2. tab[d][a][k] \in Rows BY <1>1, DeviceFacts
  <1>3. tab[d][a][k].at \in Nat BY <1>2, RowFacts
  <1>4. tab'[d][a][k] # tab[d][a][k]
    <2>1. ~(tab[d][a][k].at < tab[d][a][k].at) BY <1>3
    <2> QED BY <2>1
  <1>5. tab' # tab BY <1>4
  <1>6. edits \in Nat BY <1>1 DEF SpecTypes
  <1>7. PICK e \in SpecDevices :
          edits' = edits + 1 \/ Rekey(e) \/ StoreAccount(e) \/ StoreSpec(e)
    <2>1. scene.actors \subseteq SpecDevices BY <1>1, SpecsAssumption DEF SpecTypes
    <2>2. ~Tick BY <1>5 DEF Tick, local
    <2>3. \A e \in SpecDevices : ~StopSession(e) /\ ~Serve(e) /\ \A b \in Accounts : ~StartSession(e, b)
        BY <1>5 DEF StopSession, StartSession, Serve, UpsertMemory, UpsertPgRead, UpsertPgWrite,
           local
    <2>4. \A e \in SpecDevices : Sync(e) => StoreAccount(e) \/ StoreSpec(e)
        BY <1>5 DEF Sync, SyncStart, SyncFails, SyncAnswered, ApplyAccountsLoad, SpecsLoad,
           PushesLoad,
               PushSpec, PushNoSpec, PushAccount, AgentSpecUpsert, PushFails, PushAnswered,
               SyncEnds,
               Still, local
    <2>5. \A e \in SpecDevices :
            \/ UpsertAgentProfile(e) \/ DeleteAgentProfile(e) \/ ImportAgentProfiles(e)
            \/ UpsertProviderAccount(e) \/ DeleteProviderAccount(e)
            => edits' = edits + 1
        BY DEF UpsertAgentProfile, DeleteAgentProfile, ImportAgentProfiles, UpsertProviderAccount,
               DeleteProviderAccount, UpsertRow, DeleteRow
    <2> QED BY <2>1, <2>2, <2>3, <2>4, <2>5 DEF SpecsNext
  <1>8. CASE edits' = edits + 1 BY <1>6, <1>8
  <1>9. CASE Rekey(e)
    <2>1. PICK t \in [AccountKeys -> RecordRows] :
            /\ rekeying[e] \in Accounts /\ tab' = [tab EXCEPT ![e] = t] /\ tab'[e] = t
            /\ \A f \in SpecDevices \ {e} : tab'[f] = tab[f]
            /\ \A l \in RecordKinds : t[NoAccount][l] = NoRow
            /\ \A b \in Accounts, l \in RecordKinds :
                 t[b][l] = IF b = rekeying[e] /\ ~(tab[e][b][l].at > 0) THEN tab[e][NoAccount][l]
                           ELSE tab[e][b][l]
        BY <1>1, <1>9, Rekeyed
    <2>2. e = d BY <1>4, <2>1
    <2>3. ~(tab[d][a][k].at > 0) BY <1>4, <2>1, <2>2
    <2>4. tab'[d][a][k] \in Rows BY <1>1, <2>1, <2>2 DEF RecordRows
    <2>5. tab'[d][a][k].at \in Nat BY <2>4, RowFacts
    <2> QED BY <1>3, <2>3, <2>5
  <1>10. ASSUME NEW l \in RecordKinds, sync[e].pc = StoreStage(l), NEW next, Store(e, l, next)
         PROVE  sync[d].dirty \/ crossed'
    <2> SUFFICES ASSUME ~sync[d].dirty, ~crossed' PROVE FALSE
        OBVIOUS
    <2>1. PICK t \in [AccountKeys -> RecordRows] :
            /\ tab' = [tab EXCEPT ![e] = t] /\ tab'[e] = t
            /\ \A f \in SpecDevices \ {e} : tab'[f] = tab[f]
            /\ \A b \in AccountKeys, m \in RecordKinds :
                 t[b][m] = IF b = session[e] /\ m = l THEN sync[e].remote[l] ELSE tab[e][b][m]
        BY <1>10, Stored DEF Store
    <2>2. e = d BY <1>4, <2>1
    <2>3. a = session[d] /\ k = l /\ tab'[d][a][k] = sync[d].remote[k]
        BY <1>1, <1>4, <2>1, <2>2
    <2>4. ~crossed /\ session[d] = sync[d].of
        BY <1>10, <2>2, Acting DEF Store, Crosses, AgentAccountKey
    <2>5. Storing(d, k) BY Acting DEF DeviceInv
    <2>6. sync[d].remote[k].at >= tab[d][a][k].at
        BY <1>10, <2>2, <2>3, <2>4, <2>5 DEF Storing, Mine
    <2>7. sync[d].pc # "idle" BY <1>10, <2>2 DEF StoreStage
    <2>8. sync[d].remote[k] \in Rows BY <2>7, InSync
    <2>9. sync[d].remote[k].at \in Nat BY <2>8, RowFacts
    <2>10. sync[d].remote[k].at < tab[d][a][k].at BY <2>3
    <2> QED BY <1>3, <2>6, <2>9, <2>10
  <1>11. CASE StoreAccount(e)
    <2>1. sync[e].pc = StoreStage("acct") BY <1>11 DEF StoreAccount, SyncAt, StoreStage
    <2> QED BY <1>10, <1>11, <2>1 DEF StoreAccount, RecordKinds
  <1>12. CASE StoreSpec(e)
    <2>1. sync[e].pc = StoreStage("spec") BY <1>12 DEF StoreSpec, SyncAt, StoreStage
    <2> QED BY <1>10, <1>12, <2>1 DEF StoreSpec, RecordKinds
  <1> QED BY <1>7, <1>8, <1>9, <1>11, <1>12

(* An older record takes a newer one's place at the server only if the     *)
(* record changed between the two statements of an upsert.                 *)
LEMMA RecordsGrow ==
  ASSUME SpecInv, SpecsNext, NEW a \in Accounts, NEW k \in RecordKinds,
         srv'[a][k].at < srv[a][k].at
  PROVE  \E d \in SpecDevices : job[d].stage = "write" /\ job[d].seen # srv[a][k].at
  <1>1. SpecTypes BY DEF SpecInv
  <1>2. srv[a][k] \in Rows BY <1>1 DEF SpecTypes, RecordRows
  <1>3. srv[a][k].at \in Nat BY <1>2, RowFacts
  <1>4. srv'[a][k] # srv[a][k]
    <2>1. ~(srv[a][k].at < srv[a][k].at) BY <1>3
    <2> QED BY <2>1
  <1>5. srv' # srv BY <1>4
  <1>6. PICK d \in SpecDevices :
          \/ UpsertPgWrite(d)
          \/ UpsertMemory(d) /\ KeepNewer(job[d].row, srv[job[d].of][job[d].kind])
    <2>1. scene.actors \subseteq SpecDevices BY <1>1, SpecsAssumption DEF SpecTypes
    <2>2. ~Tick BY <1>5 DEF Tick, server
    <2>3. \A e \in SpecDevices : ~StopSession(e) /\ ~Rekey(e) /\ \A b \in Accounts : ~StartSession(e, b)
        BY <1>5 DEF StopSession, StartSession, Rekey, server
    <2>4. \A e \in SpecDevices : ~Sync(e)
        BY <1>5 DEF Sync, SyncStart, SyncFails, SyncAnswered, ApplyAccountsLoad, StoreAccount,
           StoreSpec,
               Store, SpecsLoad, PushesLoad, PushSpec, PushNoSpec, PushAccount, AgentSpecUpsert,
               PushFails, PushAnswered, SyncEnds, Still, server
    <2>5. \A e \in SpecDevices :
            ~(\/ UpsertAgentProfile(e) \/ DeleteAgentProfile(e) \/ ImportAgentProfiles(e)
              \/ UpsertProviderAccount(e) \/ DeleteProviderAccount(e))
        BY <1>5 DEF UpsertAgentProfile, DeleteAgentProfile, ImportAgentProfiles,
           UpsertProviderAccount,
               DeleteProviderAccount, UpsertRow, DeleteRow, server
    <2>6. \E e \in SpecDevices : Serve(e) BY <2>1, <2>2, <2>3, <2>4, <2>5 DEF SpecsNext
    <2>7. \A e \in SpecDevices : ~UpsertPgRead(e) BY <1>5 DEF UpsertPgRead
    <2>8. \A e \in SpecDevices :
            UpsertMemory(e) => KeepNewer(job[e].row, srv[job[e].of][job[e].kind])
        BY <1>5 DEF UpsertMemory
    <2> QED BY <2>6, <2>7, <2>8 DEF Serve
  <1> DEFINE j == job[d]
  <1>7. j.stage \in {"read", "write"} /\ Record(d) BY <1>6 DEF UpsertPgWrite, UpsertMemory
  <1>8. j # NoJob /\ j \in Upserts BY <1>1, <1>7, StageFacts, DeviceFacts
  <1>9. j.of \in Accounts /\ j.kind \in RecordKinds /\ j.row \in Rows /\ j.seen \in Nat
      BY <1>8, JobFacts
  <1>10. a = j.of /\ k = j.kind /\ srv'[a][k] = j.row
    <2>1. srv' = [srv EXCEPT ![j.of] = [@ EXCEPT ![j.kind] = j.row]] BY <1>7 DEF Record
    <2>2. srv \in [Accounts -> RecordRows] /\ srv[j.of] \in RecordRows BY <1>1, <1>9 DEF SpecTypes
    <2>3. a = j.of BY <1>4, <2>1, <2>2
    <2>4. srv'[a] = [srv[j.of] EXCEPT ![j.kind] = j.row] BY <2>1, <2>2, <2>3
    <2> QED BY <1>4, <1>9, <2>2, <2>3, <2>4 DEF RecordRows
  <1>11. j.row.at \in Nat /\ j.row.at < srv[a][k].at BY <1>9, <1>10, RowFacts
  <1>12. CASE UpsertMemory(d) /\ KeepNewer(j.row, srv[j.of][j.kind])
    <2>1. j.row.at >= srv[a][k].at BY <1>10, <1>12 DEF KeepNewer
    <2> QED BY <1>3, <1>11, <2>1
  <1>13. CASE UpsertPgWrite(d)
    <2>1. j.stage = "write" BY <1>13 DEF UpsertPgWrite
    <2>2. j.row.at >= j.seen BY <2>1, Acting DEF DeviceInv, Upserting
    <2>3. j.seen # srv[a][k].at BY <1>3, <1>9, <1>11, <2>2
    <2> QED BY <2>1, <2>3
  <1> QED BY <1>6, <1>12, <1>13

(* The newer record wins, on a device and at the server, but for the two   *)
(* windows the code leaves open: an edit between the load and the store of *)
(* sync_agent_specs, a write between the two statements of an upsert.      *)
THEOREM NewerSafety == SpecsSpec => NewerWins
  <1>1. SpecInv /\ [SpecsNext]_specVars =>
          [/\ \A d \in SpecDevices, a \in Accounts, k \in RecordKinds :
                tab'[d][a][k].at < tab[d][a][k].at =>
                  edits' # edits \/ sync[d].dirty \/ crossed'
           /\ \A a \in Accounts, k \in RecordKinds :
                srv'[a][k].at < srv[a][k].at =>
                  \E d \in SpecDevices : job[d].stage = "write" /\ job[d].seen # srv[a][k].at]_specVars
      BY RowsGrow, RecordsGrow
  <1> QED BY <1>1, SpecsInvariance, PTL DEF SpecsSpec, NewerWins
-----------------------------------------------------------------------------
(* Bots: the accounts.                                                     *)

(* Handlers that hold an account create_bot has named and not entered yet, *)
(* that delete a bot, and that have removed its record.                    *)
Adding(h) == stage[h] = "add"
Deleting(h) == stage[h] \in {"remove", "unfriend", "purge", "purging", "evict"}
Deleted(h) == stage[h] \in {"unfriend", "purge", "purging", "evict"}

(* b was named, and is not about to be entered. *)
Named(b) == b \in Nat \ {0} /\ b < nextBot /\ \A h \in Handlers : Adding(h) => rq[h].dest # b

OwnedBy(b, u) == b \in DOMAIN bots => bots[b].owner = u

BotTypes ==
  /\ nextBot \in Nat \ {0} /\ nextId \in Nat \ {0} /\ nextBot <= MaxBots + 1
  /\ stage = [h \in Handlers |-> stage[h]] /\ rq = [h \in Handlers |-> rq[h]]
  /\ cache = [h \in Handlers |-> cache[h]]
  /\ \A h \in Handlers : DOMAIN rq[h] = DOMAIN NoReq

(* An account is named once. *)
NamesInv ==
  /\ \A b \in DOMAIN bots : Named(b)
  /\ \A b \in DOMAIN bots : DOMAIN bots[b] = {"owner", "prof", "cfg"}
  /\ \A h \in Handlers : Adding(h) => rq[h].dest \in Nat \ {0} /\ rq[h].dest < nextBot
  /\ \A h, k \in Handlers : Adding(h) /\ Adding(k) /\ rq[h].dest = rq[k].dest => h = k

(* Who was found to be the owner is the owner for as long as the bot is    *)
(* there.                                                                  *)
OwnersInv ==
  /\ \A h \in Handlers : \A b \in DOMAIN cache[h] : Named(b) /\ OwnedBy(b, cache[h][b])
  /\ \A h \in Handlers : Deleting(h) \/ stage[h] = "config" =>
       Named(rq[h].dest) /\ OwnedBy(rq[h].dest, rq[h].who)
  /\ \A h \in Handlers : Deleted(h) => rq[h].dest \notin DOMAIN bots
  /\ \A h \in Handlers : stage[h] \in {"unfriend", "befriend"} => ~pg
  /\ pg => \A f \in friends :
               f = <<f[1], f[2]>> /\ f[2] \in DOMAIN bots /\ bots[f[2]].owner = f[1]

DirectoryInv == BotTypes /\ NamesInv /\ OwnersInv /\ OneBotPerProfile
-----------------------------------------------------------------------------
LEMMA ReqFields ==
  ASSUME NEW r, DOMAIN r = DOMAIN NoReq, NEW v
  PROVE  /\ \A e \in {[r EXCEPT !.ids = v], [r EXCEPT !.again = v], [r EXCEPT !.id = v]} :
              DOMAIN e = DOMAIN NoReq /\ e.op = r.op /\ e.who = r.who /\ e.dest = r.dest /\ e.q = r.q
         /\ LET e == [r EXCEPT !.dest = v] IN
              DOMAIN e = DOMAIN NoReq /\ e.op = r.op /\ e.who = r.who /\ e.dest = v
         /\ [r EXCEPT !.id = v].id = v
BY DEF NoReq

(* Named accounts stay named, and their owners the owners. *)
LEMMA NamedStays ==
  ASSUME DirectoryInv, NEW h \in Handlers, NEW s, s # "add", stage' = [stage EXCEPT ![h] = s],
         \A k \in Handlers \ {h} : rq'[k] = rq[k], nextBot' = nextBot, NEW b, Named(b)
  PROVE  Named(b)'
<1>1. \A k \in Handlers : Adding(k)' => Adding(k) /\ k # h BY DEF DirectoryInv, BotTypes, Adding
<1> QED BY <1>1 DEF Named

LEMMA Stepped ==
  ASSUME DirectoryInv, NEW h \in Handlers, NEW s, NEW r, s # "add",
         stage' = [stage EXCEPT ![h] = s], rq' = [rq EXCEPT ![h] = r], DOMAIN r = DOMAIN NoReq,
         UNCHANGED <<pg, nextBot>>, nextId' \in Nat \ {0}, cache' = [k \in Handlers |-> cache'[k]],
         \A k \in Handlers : \A b \in DOMAIN cache'[k] : Named(b) /\ OwnedBy(b, cache'[k][b]),
         \A b \in DOMAIN bots' :
           /\ DOMAIN bots'[b] = {"owner", "prof", "cfg"}
           /\ \/ b \in DOMAIN bots /\ bots'[b].owner = bots[b].owner
              \/ Adding(h) /\ b = rq[h].dest,
         OneBotPerProfile',
         pg => \A f \in friends' : f = <<f[1], f[2]>> /\ f[2] \in DOMAIN bots' /\ bots'[f[2]].owner = f[1],
         s \in {"remove", "unfriend", "purge", "purging", "evict", "config"} =>
           Named(r.dest) /\ OwnedBy(r.dest, r.who),
         s \in {"unfriend", "purge", "purging", "evict"} => r.dest \notin DOMAIN bots',
         s \in {"unfriend", "befriend"} => ~pg
  PROVE  DirectoryInv'
<1>1. /\ stage'[h] = s /\ rq'[h] = r
      /\ \A k \in Handlers \ {h} : stage'[k] = stage[k] /\ rq'[k] = rq[k]
  BY DEF DirectoryInv, BotTypes
<1>2. BotTypes'
  <2>1. stage' = [k \in Handlers |-> stage'[k]] /\ rq' = [k \in Handlers |-> rq'[k]]
    BY DEF DirectoryInv, BotTypes
  <2>2. \A k \in Handlers : DOMAIN rq'[k] = DOMAIN NoReq BY <1>1 DEF DirectoryInv, BotTypes
  <2>3. NoReq' = NoReq BY DEF NoReq, NoOne
  <2> QED BY <2>1, <2>2, <2>3 DEF DirectoryInv, BotTypes
<1>3. \A k \in Handlers : Adding(k)' => Adding(k) /\ k # h BY <1>1 DEF Adding
<1>4. \A b : Named(b) => Named(b)' BY <1>1, NamedStays
<1>5. \A b, u : Named(b) /\ OwnedBy(b, u) => OwnedBy(b, u)' BY DEF Named, OwnedBy
<1>6. NamesInv'
  <2>1. ASSUME NEW b \in DOMAIN bots' PROVE Named(b)'
    <3>1. CASE b \in DOMAIN bots BY <3>1, <1>4 DEF DirectoryInv, NamesInv
    <3>2. CASE Adding(h) /\ b = rq[h].dest
      <4>1. b \in Nat \ {0} /\ b < nextBot' BY <3>2 DEF DirectoryInv, NamesInv
      <4>2. \A k \in Handlers : Adding(k)' => rq'[k].dest # b
        BY <1>1, <1>3, <3>2 DEF DirectoryInv, NamesInv
      <4> QED BY <4>1, <4>2 DEF Named
    <3> QED BY <3>1, <3>2
  <2>2. \A k \in Handlers : Adding(k)' => rq'[k].dest \in Nat \ {0} /\ rq'[k].dest < nextBot'
    BY <1>1, <1>3 DEF DirectoryInv, NamesInv
  <2>3. \A k, l \in Handlers : Adding(k)' /\ Adding(l)' /\ rq'[k].dest = rq'[l].dest => k = l
    BY <1>1, <1>3 DEF DirectoryInv, NamesInv
  <2> QED BY <2>1, <2>2, <2>3 DEF NamesInv
<1>7. OwnersInv'
  <2>1. \A k \in Handlers : \A b \in DOMAIN cache'[k] : Named(b)' /\ OwnedBy(b, cache[k][b])'
    <3> SUFFICES ASSUME NEW k \in Handlers, NEW b \in DOMAIN cache'[k]
                 PROVE  Named(b)' /\ OwnedBy(b, cache[k][b])'
      OBVIOUS
    <3> PICK u : u = cache'[k][b] OBVIOUS
    <3>1. Named(b) /\ OwnedBy(b, u) OBVIOUS
    <3>2. Named(b)' /\ OwnedBy(b, u)' BY <3>1, <1>4, <1>5
    <3> QED BY <3>2 DEF OwnedBy
  <2>2. ASSUME NEW k \in Handlers, Deleting(k)' \/ stage'[k] = "config"
        PROVE  Named(rq[k].dest)' /\ OwnedBy(rq[k].dest, rq[k].who)'
    <3> PICK d, w : d = rq'[k].dest /\ w = rq'[k].who OBVIOUS
    <3>1. Named(d) /\ OwnedBy(d, w)
      <4>1. CASE k = h BY <1>1, <2>2, <4>1 DEF Deleting
      <4>2. CASE k # h BY <1>1, <2>2, <4>2 DEF Deleting, DirectoryInv, OwnersInv
      <4> QED BY <4>1, <4>2
    <3>2. Named(d)' /\ OwnedBy(d, w)' BY <3>1, <1>4, <1>5
    <3> QED BY <3>2 DEF Named, OwnedBy
  <2>3. ASSUME NEW k \in Handlers, Deleted(k)' PROVE rq'[k].dest \notin DOMAIN bots'
    <3>1. CASE k = h BY <1>1, <2>3, <3>1 DEF Deleted
    <3>2. CASE k # h
      <4>1. Deleted(k) /\ Deleting(k) /\ rq'[k] = rq[k]
        BY <1>1, <2>3, <3>2 DEF Deleted, Deleting
      <4>2. Named(rq[k].dest) /\ rq[k].dest \notin DOMAIN bots BY <4>1 DEF DirectoryInv, OwnersInv
      <4> QED BY <4>1, <4>2 DEF Named
    <3> QED BY <3>1, <3>2
  <2>4. \A k \in Handlers : stage'[k] \in {"unfriend", "befriend"} => ~pg'
    BY <1>1 DEF DirectoryInv, OwnersInv
  <2> QED BY <2>1, <2>2, <2>3, <2>4 DEF OwnersInv
<1> QED BY <1>2, <1>6, <1>7 DEF DirectoryInv

(* The accounts, the friendships and the names stay. *)
LEMMA PlainStep ==
  ASSUME DirectoryInv, NEW h \in Handlers, NEW s, NEW r, s # "add",
         stage' = [stage EXCEPT ![h] = s], rq' = [rq EXCEPT ![h] = r], DOMAIN r = DOMAIN NoReq,
         UNCHANGED <<pg, nextBot, bots, friends>>, nextId' \in Nat \ {0},
         cache' = [k \in Handlers |-> cache'[k]],
         \A k \in Handlers : \A b \in DOMAIN cache'[k] : Named(b) /\ OwnedBy(b, cache'[k][b]),
         s \in {"remove", "unfriend", "purge", "purging", "evict", "config"} =>
           Named(r.dest) /\ OwnedBy(r.dest, r.who),
         s \in {"unfriend", "purge", "purging", "evict"} => r.dest \notin DOMAIN bots,
         s \in {"unfriend", "befriend"} => ~pg
  PROVE  DirectoryInv'
<1>1. \A b \in DOMAIN bots' :
        /\ DOMAIN bots'[b] = {"owner", "prof", "cfg"}
        /\ b \in DOMAIN bots /\ bots'[b].owner = bots[b].owner
  BY DEF DirectoryInv, NamesInv
<1>2. OneBotPerProfile' BY DEF DirectoryInv, OneBotPerProfile
<1>3. pg => \A f \in friends' : f = <<f[1], f[2]>> /\ f[2] \in DOMAIN bots' /\ bots'[f[2]].owner = f[1]
  BY DEF DirectoryInv, OwnersInv
<1> QED BY <1>1, <1>2, <1>3, Stepped

(* The cache of a handler's instance. *)
CacheOk ==
  /\ cache' = [k \in Handlers |-> cache'[k]]
  /\ \A k \in Handlers : \A b \in DOMAIN cache'[k] : Named(b) /\ OwnedBy(b, cache'[k][b])

LEMMA CacheStays == ASSUME DirectoryInv, UNCHANGED cache PROVE CacheOk
BY DEF DirectoryInv, BotTypes, OwnersInv, CacheOk

LEMMA LookedUp ==
  ASSUME DirectoryInv, NEW h \in Handlers, NEW b, NEW u \in Humans, LookupBot(h, b) = u
  PROVE  Named(b) /\ OwnedBy(b, u)
<1>1. u # NoOne BY BotsAssumption DEF NoOne
<1>2. CASE b \in DOMAIN cache[h] BY <1>2 DEF LookupBot, DirectoryInv, OwnersInv
<1>3. CASE b \notin DOMAIN cache[h] /\ b \in DOMAIN bots
  BY <1>3 DEF LookupBot, DirectoryInv, NamesInv, OwnedBy
<1> QED BY <1>1, <1>2, <1>3 DEF LookupBot

LEMMA PresenceStored ==
  ASSUME DirectoryInv, NEW h \in Handlers, NEW b, NEW u \in Humans, LookupBot(h, b) = u,
         StorePresence(h, b)
  PROVE  CacheOk
<1>1. u # NoOne BY BotsAssumption DEF NoOne
<1>2. Named(b) /\ OwnedBy(b, u) BY LookedUp
<1> DEFINE c == Set(cache[h], b, u)
<1>3. cache' = [cache EXCEPT ![h] = c] BY <1>1 DEF StorePresence
<1>4. \A x \in DOMAIN c : Named(x) /\ OwnedBy(x, c[x])
  BY <1>2 DEF Set, DirectoryInv, OwnersInv
<1> HIDE DEF c
<1>5. cache = [k \in Handlers |-> cache[k]] BY DEF DirectoryInv, BotTypes
<1>6. cache' = [k \in Handlers |-> cache'[k]] BY <1>3, <1>5
<1>7. cache'[h] = c /\ \A k \in Handlers \ {h} : cache'[k] = cache[k] BY <1>3, <1>5
<1> QED BY <1>4, <1>6, <1>7 DEF CacheOk, DirectoryInv, OwnersInv

LEMMA CacheShrinks ==
  ASSUME DirectoryInv, NEW h \in Handlers, NEW c, cache' = [cache EXCEPT ![h] = c],
         \A x \in DOMAIN c : x \in DOMAIN cache[h] /\ c[x] = cache[h][x]
  PROVE  CacheOk
<1>1. cache = [k \in Handlers |-> cache[k]] BY DEF DirectoryInv, BotTypes
<1>2. cache' = [k \in Handlers |-> cache'[k]] BY <1>1
<1>3. cache'[h] = c /\ \A k \in Handlers \ {h} : cache'[k] = cache[k] BY <1>1
<1> QED BY <1>2, <1>3 DEF CacheOk, DirectoryInv, OwnersInv

LEMMA Evicts ==
  ASSUME DirectoryInv, NEW h \in Handlers, NEW b, Evict(h, b)
  PROVE  CacheOk
<1> DEFINE c == Without(cache[h], {b})
<1>1. cache' = [cache EXCEPT ![h] = c] BY DEF Evict
<1>2. \A x \in DOMAIN c : x \in DOMAIN cache[h] /\ c[x] = cache[h][x] BY DEF Without
<1> HIDE DEF c
<1> QED BY <1>1, <1>2, CacheShrinks

LEMMA Requested ==
  ASSUME NEW u, NEW b, NEW cid, NEW q, NEW cfg, NEW p
  PROVE  /\ \A r \in {HttpInsertUser(u, b, cid), HttpInsertGroup(u, b),
                      HttpInsertBotReply(u, b, q, cid), HttpDeleteBot(u, b),
                      HttpUpdateBot(u, b, cfg)} :
              DOMAIN r = DOMAIN NoReq /\ r.who = u /\ r.dest = b
         /\ DOMAIN HttpCreateBot(u, p, cfg) = DOMAIN NoReq
         /\ HttpInsertUser(u, b, cid).op = "talk" /\ HttpInsertGroup(u, b).op = "talk"
         /\ HttpInsertBotReply(u, b, q, cid).op = "reply"
         /\ HttpInsertBotReply(u, b, q, cid).q = q
BY DEF HttpInsertUser, HttpInsertGroup, HttpInsertBotReply, HttpDeleteBot, HttpUpdateBot,
       HttpCreateBot, NoReq

LEMMA BeginDirectory ==
  ASSUME DirectoryInv, NEW h \in Handlers, NEW s, NEW r, Begin(h, s, r), DOMAIN r = DOMAIN NoReq,
         UNCHANGED <<pg, nextBot, bots, friends, nextId>>, CacheOk,
         s \in {"insert", "reply", "remove", "patch", "find"},
         s = "remove" => Named(r.dest) /\ OwnedBy(r.dest, r.who)
  PROVE  DirectoryInv'
<1>1. stage' = [stage EXCEPT ![h] = s] /\ rq' = [rq EXCEPT ![h] = r] BY DEF Begin
<1>2. nextId' \in Nat \ {0} BY DEF DirectoryInv, BotTypes
<1> QED BY <1>1, <1>2, PlainStep DEF CacheOk

LEMMA RequestDirectory ==
  ASSUME DirectoryInv, NEW h \in Handlers, Request(h)
  PROVE  DirectoryInv'
<1>1. ASSUME NEW u \in Humans, NEW p, NEW c, DoBotCreate(h, u, p, c) PROVE DirectoryInv'
  <2> DEFINE r == HttpCreateBot(u, p, c)
  <2>1. DOMAIN r = DOMAIN NoReq BY Requested
  <2>2. Begin(h, "find", r) /\ UNCHANGED <<pg, nextBot, bots, friends, nextId, cache>>
    BY <1>1 DEF DoBotCreate
  <2> HIDE DEF r
  <2> QED BY <2>1, <2>2, CacheStays, BeginDirectory
<1>2. ASSUME NEW u \in Humans, NEW g, DoGroupTalk(h, u, g) PROVE DirectoryInv'
  <2> DEFINE r == HttpInsertGroup(u, g)
  <2>1. DOMAIN r = DOMAIN NoReq BY Requested
  <2>2. Begin(h, "insert", r) /\ UNCHANGED <<pg, nextBot, bots, friends, nextId, cache>>
    BY <1>2 DEF DoGroupTalk
  <2> HIDE DEF r
  <2> QED BY <2>1, <2>2, CacheStays, BeginDirectory
<1>3. ASSUME NEW u \in Humans, NEW b, NEW s \in {"insert", "reply", "remove", "patch"}, NEW r,
             LookupBot(h, b) = u, Begin(h, s, r), StorePresence(h, b),
             DOMAIN r = DOMAIN NoReq, r.who = u, r.dest = b,
             UNCHANGED <<pg, nextBot, bots, friends, nextId>>
      PROVE  DirectoryInv'
  <2>1. CacheOk BY <1>3, PresenceStored
  <2>2. Named(b) /\ OwnedBy(b, u) BY <1>3, LookedUp
  <2> QED BY <1>3, <2>1, <2>2, BeginDirectory
<1>4. ASSUME NEW u \in Humans, NEW b, NEW cid, DoUserTalk(h, u, b, cid) PROVE DirectoryInv'
  <2> PICK r : r = HttpInsertUser(u, b, cid) OBVIOUS
  <2>1. DOMAIN r = DOMAIN NoReq /\ r.who = u /\ r.dest = b BY Requested
  <2> QED BY <1>3, <1>4, <2>1 DEF DoUserTalk
<1>5. ASSUME NEW u \in Humans, NEW b, NEW q, NEW cid, DoBotReply(h, u, b, q, cid)
      PROVE  DirectoryInv'
  <2> PICK r : r = HttpInsertBotReply(u, b, q, cid) OBVIOUS
  <2>1. DOMAIN r = DOMAIN NoReq /\ r.who = u /\ r.dest = b BY Requested
  <2> QED BY <1>3, <1>5, <2>1 DEF DoBotReply
<1>6. ASSUME NEW u \in Humans, NEW b, DoBotDelete(h, u, b) PROVE DirectoryInv'
  <2> PICK r : r = HttpDeleteBot(u, b) OBVIOUS
  <2>1. DOMAIN r = DOMAIN NoReq /\ r.who = u /\ r.dest = b BY Requested
  <2> QED BY <1>3, <1>6, <2>1 DEF DoBotDelete
<1>7. ASSUME NEW u \in Humans, NEW b, NEW c, DoBotUpdate(h, u, b, c) PROVE DirectoryInv'
  <2> PICK r : r = HttpUpdateBot(u, b, c) OBVIOUS
  <2>1. DOMAIN r = DOMAIN NoReq /\ r.who = u /\ r.dest = b BY Requested
  <2> QED BY <1>3, <1>7, <2>1 DEF DoBotUpdate
<1> QED BY <1>1, <1>2, <1>4, <1>5, <1>6, <1>7 DEF Request

LEMMA DoneDirectory ==
  ASSUME DirectoryInv, NEW h \in Handlers, Done(h), UNCHANGED <<pg, nextBot, bots, friends>>,
         nextId' \in Nat \ {0}, CacheOk
  PROVE  DirectoryInv'
<1>1. stage' = [stage EXCEPT ![h] = "idle"] /\ rq' = [rq EXCEPT ![h] = NoReq] BY DEF Done
<1> PICK r : r = NoReq OBVIOUS
<1> QED BY <1>1, PlainStep DEF CacheOk

(* A handler goes on with its request r, which asks for the same. *)
LEMMA GoOnDirectory ==
  ASSUME DirectoryInv, NEW h \in Handlers, NEW s, NEW r, s # "add",
         stage' = [stage EXCEPT ![h] = s], rq' = [rq EXCEPT ![h] = r], DOMAIN r = DOMAIN NoReq,
         r.who = rq[h].who, r.dest = rq[h].dest,
         UNCHANGED <<pg, nextBot, bots, friends>>, nextId' \in Nat \ {0}, CacheOk,
         s \in {"remove", "config"} => FALSE,
         s \in {"unfriend", "purge", "purging", "evict"} => Deleted(h),
         s \in {"unfriend", "befriend"} => ~pg
  PROVE  DirectoryInv'
<1>1. Deleted(h) => /\ Named(rq[h].dest) /\ OwnedBy(rq[h].dest, rq[h].who)
                    /\ rq[h].dest \notin DOMAIN bots
  BY DEF DirectoryInv, OwnersInv, Deleted, Deleting
<1> QED BY <1>1, PlainStep DEF CacheOk

LEMMA StillAsks ==
  ASSUME DirectoryInv, NEW h \in Handlers, UNCHANGED rq
  PROVE  rq' = [rq EXCEPT ![h] = rq[h]] /\ DOMAIN rq[h] = DOMAIN NoReq
BY DEF DirectoryInv, BotTypes

LEMMA InsertDirectory ==
  ASSUME DirectoryInv, NEW h \in Handlers, InsertEndpoint(h) \/ BotReplyEndpoint(h)
  PROVE  DirectoryInv'
<1>0. DOMAIN rq[h] = DOMAIN NoReq /\ nextId \in Nat \ {0} BY DEF DirectoryInv, BotTypes
<1>1. CASE InsertCheck(h)
  <2>1. UNCHANGED <<pg, bots, friends, cache, nextBot>> /\ nextId' \in Nat \ {0}
    BY <1>0, <1>1 DEF InsertCheck
  <2>2. \E v : \E s \in {"again", "write"} :
          stage' = [stage EXCEPT ![h] = s] /\ rq' = [rq EXCEPT ![h] = [rq[h] EXCEPT !.id = v]]
    <3>1. CASE Claimed(db, Msg(h))
      <4> PICK v : v = ClaimOf(db, Msg(h)) OBVIOUS
      <4>1. stage' = [stage EXCEPT ![h] = "again"] /\ rq' = [rq EXCEPT ![h] = [rq[h] EXCEPT !.id = v]]
        BY <1>1, <3>1 DEF InsertCheck
      <4> QED BY <4>1
    <3>2. CASE ~Claimed(db, Msg(h))
      <4>1. /\ stage' = [stage EXCEPT ![h] = "write"]
            /\ rq' = [rq EXCEPT ![h] = [rq[h] EXCEPT !.id = nextId]]
        BY <1>1, <3>2 DEF InsertCheck
      <4> QED BY <4>1
    <3> QED BY <3>1, <3>2
  <2>3. PICK v : \E s \in {"again", "write"} :
          stage' = [stage EXCEPT ![h] = s] /\ rq' = [rq EXCEPT ![h] = [rq[h] EXCEPT !.id = v]]
    BY <2>2
  <2>5. PICK s \in {"again", "write"} :
          stage' = [stage EXCEPT ![h] = s] /\ rq' = [rq EXCEPT ![h] = [rq[h] EXCEPT !.id = v]]
    BY <2>3
  <2> PICK r : r = [rq[h] EXCEPT !.id = v] OBVIOUS
  <2>4. DOMAIN r = DOMAIN NoReq /\ r.who = rq[h].who /\ r.dest = rq[h].dest BY <1>0, ReqFields
  <2> QED BY <2>1, <2>5, <2>4, CacheStays, GoOnDirectory
<1>2. CASE InsertAgain(h) BY <1>0, <1>2, DoneDirectory, CacheStays DEF InsertAgain
<1>3. CASE InsertWrite(h) BY <1>0, <1>3, DoneDirectory, CacheStays DEF InsertWrite
<1>4. CASE PgInsert(h) BY <1>0, <1>4, DoneDirectory, CacheStays DEF PgInsert
<1>5. CASE MemReply(h)
  <2>1. nextId' \in Nat \ {0} BY <1>0, <1>5 DEF MemReply
  <2> QED BY <2>1, <1>5, DoneDirectory, CacheStays DEF MemReply
<1>6. CASE PgReplyBegin(h)
  <2>1. UNCHANGED <<pg, bots, friends, cache, nextBot>> /\ nextId' \in Nat \ {0}
    BY <1>0, <1>6 DEF PgReplyBegin
  <2>2. CASE Done(h) BY <2>1, <2>2, DoneDirectory, CacheStays
  <2>3. CASE /\ stage' = [stage EXCEPT ![h] = "replying"]
             /\ rq' = [rq EXCEPT ![h] = [rq[h] EXCEPT !.id = nextId]]
    <3> PICK r : r = [rq[h] EXCEPT !.id = nextId] OBVIOUS
    <3>1. DOMAIN r = DOMAIN NoReq /\ r.who = rq[h].who /\ r.dest = rq[h].dest
      BY <1>0, ReqFields
    <3> QED BY <2>1, <2>3, <3>1, CacheStays, GoOnDirectory
  <2> QED BY <1>6, <2>2, <2>3 DEF PgReplyBegin
<1>7. CASE PgReplyCommit(h) BY <1>0, <1>7, DoneDirectory, CacheStays DEF PgReplyCommit
<1> QED BY <1>1, <1>2, <1>3, <1>4, <1>5, <1>6, <1>7 DEF InsertEndpoint, BotReplyEndpoint

LEMMA PurgeDirectory ==
  ASSUME DirectoryInv, NEW h \in Handlers, PurgeDmEndpoint(h) \/ EvictDeleted(h)
  PROVE  DirectoryInv'
<1>0. DOMAIN rq[h] = DOMAIN NoReq /\ nextId \in Nat \ {0} BY DEF DirectoryInv, BotTypes
<1>1. CASE MemPurge(h)
  <2>1. UNCHANGED <<pg, bots, friends, cache, nextBot, nextId>> /\ Deleted(h)
    BY <1>1 DEF MemPurge, Deleted
  <2>2. CASE Done(h) BY <1>0, <2>1, <2>2, DoneDirectory, CacheStays
  <2>3. CASE Proceed(h, "evict")
    <3>1. stage' = [stage EXCEPT ![h] = "evict"] /\ rq' = [rq EXCEPT ![h] = rq[h]]
      BY <2>3, StillAsks DEF Proceed
    <3> QED BY <1>0, <2>1, <3>1, CacheStays, GoOnDirectory
  <2> QED BY <1>1, <2>2, <2>3 DEF MemPurge, Purged
<1>2. CASE PgPurgeSelect(h)
  <2> PICK v : v = {r.id : r \in ThreadRows(db.byMessage, rq[h].who, rq[h].dest)} OBVIOUS
  <2> PICK r : r = [rq[h] EXCEPT !.ids = v] OBVIOUS
  <2>1. DOMAIN r = DOMAIN NoReq /\ r.who = rq[h].who /\ r.dest = rq[h].dest BY <1>0, ReqFields
  <2>2. /\ stage' = [stage EXCEPT ![h] = "purging"] /\ rq' = [rq EXCEPT ![h] = r]
        /\ UNCHANGED <<pg, bots, friends, cache, nextBot, nextId>> /\ Deleted(h)
    BY <1>2 DEF PgPurgeSelect, Deleted
  <2> QED BY <1>0, <2>1, <2>2, CacheStays, GoOnDirectory
<1>3. CASE PgPurgeCommit(h)
  <2>1. UNCHANGED <<pg, bots, friends, cache, nextBot, nextId>> /\ Deleted(h)
    BY <1>3 DEF PgPurgeCommit, Deleted
  <2>2. CASE Done(h) BY <1>0, <2>1, <2>2, DoneDirectory, CacheStays
  <2>3. CASE /\ stage' = [stage EXCEPT ![h] = "evict"]
             /\ rq' = [rq EXCEPT ![h] = [rq[h] EXCEPT !.ids = {}]]
    <3> PICK r : r = [rq[h] EXCEPT !.ids = {}] OBVIOUS
    <3>1. DOMAIN r = DOMAIN NoReq /\ r.who = rq[h].who /\ r.dest = rq[h].dest
      BY <1>0, ReqFields
    <3> QED BY <1>0, <2>1, <2>3, <3>1, CacheStays, GoOnDirectory
  <2> QED BY <1>3, <2>2, <2>3 DEF PgPurgeCommit
<1>4. CASE EvictDeleted(h)
  <2> PICK r : r = [rq[h] EXCEPT !.again = TRUE] OBVIOUS
  <2>1. DOMAIN r = DOMAIN NoReq /\ r.who = rq[h].who /\ r.dest = rq[h].dest BY <1>0, ReqFields
  <2>2. /\ stage' = [stage EXCEPT ![h] = "purge"] /\ rq' = [rq EXCEPT ![h] = r]
        /\ UNCHANGED <<pg, bots, friends, nextBot, nextId>> /\ Deleted(h)
    BY <1>4 DEF EvictDeleted, Deleted
  <2>3. CacheOk BY <1>4, Evicts DEF EvictDeleted
  <2> QED BY <1>0, <2>1, <2>2, <2>3, GoOnDirectory
<1> QED BY <1>1, <1>2, <1>3, <1>4 DEF PurgeDmEndpoint

(* An account goes: its settings, and in Postgres its friendship. *)
LEMMA RemoveDirectory ==
  ASSUME DirectoryInv, NEW h \in Handlers, MemRemove(h) \/ PgDelete(h) \/ MemUnfriend(h)
  PROVE  DirectoryInv'
<1>0. DOMAIN rq[h] = DOMAIN NoReq /\ nextId \in Nat \ {0} BY DEF DirectoryInv, BotTypes
<1>1. UNCHANGED <<pg, cache, nextBot, nextId>> BY DEF MemRemove, PgDelete, MemUnfriend
<1>2. CASE MemUnfriend(h)
  <2>1. Deleted(h) /\ ~pg BY <1>2 DEF MemUnfriend, Deleted, DirectoryInv, OwnersInv
  <2>2. /\ Named(rq[h].dest) /\ OwnedBy(rq[h].dest, rq[h].who) /\ rq[h].dest \notin DOMAIN bots
    BY <2>1 DEF DirectoryInv, OwnersInv, Deleted, Deleting
  <2>3. stage' = [stage EXCEPT ![h] = "purge"] /\ rq' = [rq EXCEPT ![h] = rq[h]] /\ UNCHANGED bots
    BY <1>2, StillAsks DEF MemUnfriend, Proceed
  <2>4. OneBotPerProfile' BY <2>3 DEF DirectoryInv, OneBotPerProfile
  <2>5. \A b \in DOMAIN bots' : /\ DOMAIN bots'[b] = {"owner", "prof", "cfg"}
                                /\ b \in DOMAIN bots /\ bots'[b].owner = bots[b].owner
    BY <2>3 DEF DirectoryInv, NamesInv
  <2>6. CacheOk BY <1>1, CacheStays
  <2> QED BY <1>0, <1>1, <2>1, <2>2, <2>3, <2>4, <2>5, <2>6, Stepped DEF CacheOk
<1>3. CASE Done(h) /\ UNCHANGED <<bots, friends>> BY <1>0, <1>1, <1>3, DoneDirectory, CacheStays
<1>4. ASSUME NEW s \in {"unfriend", "purge"}, stage[h] = "remove", rq[h].dest \in DOMAIN bots,
             bots' = Without(bots, {rq[h].dest}), Proceed(h, s), s = "unfriend" => ~pg,
             pg => friends' = friends \ {<<rq[h].who, rq[h].dest>>}
      PROVE  DirectoryInv'
  <2> PICK d : d = rq[h].dest OBVIOUS
  <2>1. Named(d) /\ OwnedBy(d, rq[h].who) BY <1>4 DEF DirectoryInv, OwnersInv, Deleting
  <2>2. stage' = [stage EXCEPT ![h] = s] /\ rq' = [rq EXCEPT ![h] = rq[h]]
    BY <1>4, StillAsks DEF Proceed
  <2>3. DOMAIN bots' = DOMAIN bots \ {d} /\ \A b \in DOMAIN bots' : bots'[b] = bots[b]
    BY <1>4 DEF Without
  <2>4. OneBotPerProfile' BY <2>3 DEF DirectoryInv, OneBotPerProfile
  <2>5. \A b \in DOMAIN bots' : /\ DOMAIN bots'[b] = {"owner", "prof", "cfg"}
                                /\ b \in DOMAIN bots /\ bots'[b].owner = bots[b].owner
    BY <2>3 DEF DirectoryInv, NamesInv
  <2>6. ASSUME pg, NEW f \in friends'
        PROVE  f = <<f[1], f[2]>> /\ f[2] \in DOMAIN bots' /\ bots'[f[2]].owner = f[1]
    <3>1. f \in friends /\ f # <<rq[h].who, d>> BY <1>4, <2>6
    <3>2. f[2] \in DOMAIN bots /\ bots[f[2]].owner = f[1] BY <2>6, <3>1 DEF DirectoryInv, OwnersInv
    <3>4. f = <<f[1], f[2]>> BY <2>6, <3>1 DEF DirectoryInv, OwnersInv
    <3>3. f[2] # d
      <4>1. f[2] = d => f[1] = rq[h].who BY <2>1, <3>2 DEF OwnedBy
      <4> QED BY <3>1, <3>4, <4>1
    <3> QED BY <2>3, <3>2, <3>3, <3>4
  <2>7. CacheOk BY <1>1, CacheStays
  <2>8. s # "add" /\ d \notin DOMAIN bots' BY <2>3
  <2> QED BY <1>0, <1>1, <1>4, <2>1, <2>2, <2>4, <2>5, <2>6, <2>7, <2>8, Stepped DEF CacheOk
<1>5. CASE MemRemove(h) BY <1>3, <1>4, <1>5 DEF MemRemove
<1>6. CASE PgDelete(h) BY <1>3, <1>4, <1>6 DEF PgDelete
<1> QED BY <1>2, <1>5, <1>6

(* create_bot enters an account or finds one. *)
LEMMA FoundDirectory ==
  ASSUME DirectoryInv, NEW h \in Handlers, NEW d \in ByProfile(h),
         NEW r, r = [rq[h] EXCEPT !.dest = d],
         stage' = [stage EXCEPT ![h] = "config"], rq' = [rq EXCEPT ![h] = r],
         UNCHANGED <<pg, bots, friends, cache, nextId, nextBot>>
  PROVE  DirectoryInv'
<1>2. d \in DOMAIN bots /\ bots[d].owner = rq[h].who BY DEF ByProfile, BotsOf
<1>3. Named(d) /\ OwnedBy(d, rq[h].who) BY <1>2 DEF DirectoryInv, NamesInv, OwnedBy
<1>4. DOMAIN rq[h] = DOMAIN NoReq /\ nextId' \in Nat \ {0} BY DEF DirectoryInv, BotTypes
<1>5. DOMAIN r = DOMAIN NoReq /\ r.who = rq[h].who /\ r.dest = d BY <1>4, ReqFields
<1>7. CacheOk BY CacheStays
<1> PICK s : s = "config" OBVIOUS
<1>8. /\ s # "add" /\ s \notin {"unfriend", "purge", "purging", "evict"}
      /\ s \notin {"unfriend", "befriend"} /\ stage' = [stage EXCEPT ![h] = s]
  OBVIOUS
<1>9. Named(r.dest) /\ OwnedBy(r.dest, r.who) BY <1>3, <1>5
<1> QED BY <1>4, <1>5, <1>7, <1>8, <1>9, PlainStep DEF CacheOk

(* A name is given. *)
LEMMA NamedGrows ==
  ASSUME DirectoryInv, NEW h \in Handlers, nextBot' = nextBot + 1,
         stage' = [stage EXCEPT ![h] = "add"], rq' = [rq EXCEPT ![h].dest = nextBot],
         NEW b, Named(b)
  PROVE  Named(b)'
<1> PICK r : r = [rq[h] EXCEPT !.dest = nextBot] OBVIOUS
<1>1. nextBot \in Nat /\ DOMAIN rq[h] = DOMAIN NoReq BY DEF DirectoryInv, BotTypes
<1>2. r.dest = nextBot BY <1>1, ReqFields
<1>3. /\ rq'[h] = r /\ \A k \in Handlers \ {h} : stage'[k] = stage[k] /\ rq'[k] = rq[k]
  BY DEF DirectoryInv, BotTypes
<1>4. b \in Nat \ {0} /\ b < nextBot' /\ b # nextBot BY <1>1 DEF Named
<1>5. \A k \in Handlers : Adding(k)' => rq'[k].dest # b BY <1>2, <1>3, <1>4 DEF Named, Adding
<1> QED BY <1>4, <1>5 DEF Named

LEMMA FindDirectory ==
  ASSUME DirectoryInv, NEW h \in Handlers, FindBot(h)
  PROVE  DirectoryInv'
<1>0. /\ DOMAIN rq[h] = DOMAIN NoReq /\ nextId \in Nat \ {0}
      /\ nextBot \in Nat \ {0} /\ MaxBots \in Nat
  BY BotsAssumption DEF DirectoryInv, BotTypes
<1>1. UNCHANGED <<pg, bots, friends, cache, nextId>> BY DEF FindBot
<1>2. CASE ByProfile(h) # {}
  <2> PICK d : d = CHOOSE b \in ByProfile(h) : TRUE OBVIOUS
  <2>1. d \in ByProfile(h) BY <1>2
  <2>2. /\ stage' = [stage EXCEPT ![h] = "config"] /\ rq' = [rq EXCEPT ![h] = [rq[h] EXCEPT !.dest = d]]
        /\ nextBot' = nextBot
    BY <1>2 DEF FindBot
  <2> QED BY <1>1, <2>1, <2>2, FoundDirectory
<1>3. CASE Done(h) /\ nextBot' = nextBot BY <1>0, <1>1, <1>3, DoneDirectory, CacheStays
<1>4. CASE /\ nextBot <= MaxBots /\ nextBot' = nextBot + 1
           /\ stage' = [stage EXCEPT ![h] = "add"] /\ rq' = [rq EXCEPT ![h].dest = nextBot]
  <2> PICK r : r = [rq[h] EXCEPT !.dest = nextBot] OBVIOUS
  <2>1. DOMAIN r = DOMAIN NoReq /\ r.dest = nextBot BY <1>0, ReqFields
  <2>2. /\ stage'[h] = "add" /\ rq'[h] = r
        /\ \A k \in Handlers \ {h} : stage'[k] = stage[k] /\ rq'[k] = rq[k]
    BY <1>4 DEF DirectoryInv, BotTypes
  <2>3. BotTypes'
    <3>1. stage' = [k \in Handlers |-> stage'[k]] /\ rq' = [k \in Handlers |-> rq'[k]]
      BY <1>4 DEF DirectoryInv, BotTypes
    <3>2. \A k \in Handlers : DOMAIN rq'[k] = DOMAIN NoReq
      BY <2>1, <2>2 DEF DirectoryInv, BotTypes
    <3>3. NoReq' = NoReq BY DEF NoReq, NoOne
    <3>4. nextBot' \in Nat \ {0} /\ nextBot' <= MaxBots + 1 BY <1>0, <1>4
    <3> QED BY <1>1, <3>1, <3>2, <3>3, <3>4 DEF DirectoryInv, BotTypes
  <2>4. \A k \in Handlers \ {h} : Adding(k)' <=> Adding(k) BY <2>2 DEF Adding
  <2>5. \A b : Named(b) => Named(b)' BY <1>4, NamedGrows
  <2>6. NamesInv'
    <3>1. \A k \in Handlers \ {h} : Adding(k) => rq[k].dest \in Nat \ {0} /\ rq[k].dest < nextBot
      BY DEF DirectoryInv, NamesInv
    <3>2. \A k \in Handlers : Adding(k)' => rq'[k].dest \in Nat \ {0} /\ rq'[k].dest < nextBot'
      <4> SUFFICES ASSUME NEW k \in Handlers, Adding(k)'
                   PROVE  rq'[k].dest \in Nat \ {0} /\ rq'[k].dest < nextBot'
        OBVIOUS
      <4>1. CASE k = h
        <5>1. rq'[k].dest = nextBot BY <2>1, <2>2, <4>1
        <5> QED BY <1>0, <1>4, <5>1
      <4>2. CASE k # h BY <1>0, <1>4, <2>2, <2>4, <3>1, <4>2
      <4> QED BY <4>1, <4>2
    <3>3. \A k, l \in Handlers : Adding(k)' /\ Adding(l)' /\ rq'[k].dest = rq'[l].dest => k = l
      <4>1. \A k \in Handlers \ {h} : Adding(k)' => rq'[k].dest # rq'[h].dest
        BY <1>0, <2>1, <2>2, <2>4, <3>1
      <4>2. \A k, l \in Handlers \ {h} : Adding(k)' /\ Adding(l)' /\ rq'[k].dest = rq'[l].dest => k = l
        BY <2>2, <2>4 DEF DirectoryInv, NamesInv
      <4> QED BY <4>1, <4>2
    <3>4. \A b \in DOMAIN bots : Named(b)' BY <2>5 DEF DirectoryInv, NamesInv
    <3> QED BY <1>1, <3>2, <3>3, <3>4 DEF DirectoryInv, NamesInv
  <2>7. OwnersInv'
    <3>1. \A k \in Handlers : Deleting(k)' \/ Deleted(k)' \/ stage'[k] \in {"config", "unfriend", "befriend"}
                             => k # h
      BY <2>2 DEF Deleting, Deleted
    <3>2. ASSUME NEW k \in Handlers, NEW b \in DOMAIN cache'[k]
          PROVE  Named(b)' /\ OwnedBy(b, cache[k][b])'
      BY <1>1, <2>5 DEF DirectoryInv, OwnersInv, OwnedBy
    <3>3. ASSUME NEW k \in Handlers, Deleting(k)' \/ stage'[k] = "config"
          PROVE  Named(rq[k].dest)' /\ OwnedBy(rq[k].dest, rq[k].who)'
      <4> PICK d : d = rq[k].dest OBVIOUS
      <4>1. rq'[k] = rq[k] /\ Named(d) /\ OwnedBy(d, rq[k].who)
        BY <2>2, <3>1, <3>3 DEF DirectoryInv, OwnersInv, Deleting
      <4>2. Named(d)' BY <4>1, <2>5
      <4> QED BY <1>1, <4>1, <4>2 DEF Named, OwnedBy
    <3>4. \A k \in Handlers : Deleted(k)' => rq'[k].dest \notin DOMAIN bots'
      BY <1>1, <2>2, <3>1 DEF DirectoryInv, OwnersInv, Deleted
    <3>5. \A k \in Handlers : stage'[k] \in {"unfriend", "befriend"} => ~pg'
      BY <1>1, <2>2, <3>1 DEF DirectoryInv, OwnersInv
    <3> QED BY <1>1, <3>2, <3>3, <3>4, <3>5 DEF DirectoryInv, OwnersInv
  <2>8. OneBotPerProfile' BY <1>1 DEF DirectoryInv, OneBotPerProfile
  <2> QED BY <2>3, <2>6, <2>7, <2>8 DEF DirectoryInv
<1> QED BY <1>1, <1>2, <1>3, <1>4 DEF FindBot

(* What entering an account does to the accounts there are. *)
LEMMA Entered ==
  ASSUME DirectoryInv, NEW h \in Handlers, Adding(h), ByProfile(h) = {},
         bots' = Set(bots, rq[h].dest, NewBot(h))
  PROVE  /\ OneBotPerProfile'
         /\ rq[h].dest \in DOMAIN bots' /\ bots'[rq[h].dest].owner = rq[h].who
         /\ \A b \in DOMAIN bots : b # rq[h].dest /\ b \in DOMAIN bots' /\ bots'[b] = bots[b]
         /\ \A b \in DOMAIN bots' :
              /\ DOMAIN bots'[b] = {"owner", "prof", "cfg"}
              /\ \/ b \in DOMAIN bots /\ bots'[b].owner = bots[b].owner
                 \/ Adding(h) /\ b = rq[h].dest
<1> PICK d, n : d = rq[h].dest /\ n = NewBot(h) OBVIOUS
<1>1. \A b \in DOMAIN bots : b # d BY DEF DirectoryInv, NamesInv, Named
<1>2. /\ DOMAIN bots' = DOMAIN bots \cup {d} /\ bots'[d] = n
      /\ \A b \in DOMAIN bots : bots'[b] = bots[b]
  BY <1>1 DEF Set
<1>3. DOMAIN n = {"owner", "prof", "cfg"} /\ n.owner = rq[h].who /\ n.prof = rq[h].prof
  BY DEF NewBot
<1>4. \A b \in DOMAIN bots : ~(bots[b].owner = n.owner /\ bots[b].prof = n.prof)
  BY <1>3 DEF ByProfile, BotsOf
<1>5. OneBotPerProfile' BY <1>2, <1>4 DEF DirectoryInv, OneBotPerProfile
<1>6. \A b \in DOMAIN bots' : DOMAIN bots'[b] = {"owner", "prof", "cfg"}
  BY <1>2, <1>3 DEF DirectoryInv, NamesInv
<1> QED BY <1>1, <1>2, <1>3, <1>5, <1>6

LEMMA AddDirectory ==
  ASSUME DirectoryInv, NEW h \in Handlers, MemAddBot(h) \/ PgAddBot(h)
  PROVE  DirectoryInv'
<1>0. DOMAIN rq[h] = DOMAIN NoReq /\ nextId \in Nat \ {0} BY DEF DirectoryInv, BotTypes
<1>1. Adding(h) /\ UNCHANGED <<pg, nextBot, nextId>> BY DEF MemAddBot, PgAddBot, Adding
<1>2. CASE MemAddBot(h) /\ ByProfile(h) # {}
  <2> PICK d : d = CHOOSE b \in ByProfile(h) : TRUE OBVIOUS
  <2>1. d \in ByProfile(h) BY <1>2
  <2>2. /\ stage' = [stage EXCEPT ![h] = "config"] /\ rq' = [rq EXCEPT ![h] = [rq[h] EXCEPT !.dest = d]]
        /\ UNCHANGED <<bots, friends, cache>>
    BY <1>2 DEF MemAddBot
  <2> QED BY <1>1, <2>1, <2>2, FoundDirectory
<1>3. CASE MemAddBot(h) /\ ByProfile(h) = {}
  <2>1. /\ bots' = Set(bots, rq[h].dest, NewBot(h)) /\ Proceed(h, "befriend") /\ ~pg
        /\ UNCHANGED cache
    BY <1>3 DEF MemAddBot
  <2>2. stage' = [stage EXCEPT ![h] = "befriend"] /\ rq' = [rq EXCEPT ![h] = rq[h]]
    BY <2>1, StillAsks DEF Proceed
  <2> PICK r : r = rq[h] OBVIOUS
  <2> QED BY <1>0, <1>1, <1>3, <2>1, <2>2, Entered, CacheStays, Stepped DEF CacheOk
<1>4. CASE PgAddBot(h) /\ ByProfile(h) # {}
  <2>1. UNCHANGED <<bots, friends, cache>> /\ Done(h) BY <1>4 DEF PgAddBot
  <2> QED BY <1>0, <1>1, <2>1, DoneDirectory, CacheStays
<1>5. CASE PgAddBot(h) /\ ByProfile(h) = {}
  <2>1. /\ bots' = Set(bots, rq[h].dest, NewBot(h)) /\ Done(h) /\ pg
        /\ friends' = friends \cup {<<rq[h].who, rq[h].dest>>} /\ Evict(h, rq[h].dest)
    BY <1>5 DEF PgAddBot
  <2>2. stage' = [stage EXCEPT ![h] = "idle"] /\ rq' = [rq EXCEPT ![h] = NoReq] BY <2>1 DEF Done
  <2>3. CacheOk BY <2>1, Evicts
  <2>4. /\ OneBotPerProfile'
        /\ rq[h].dest \in DOMAIN bots' /\ bots'[rq[h].dest].owner = rq[h].who
        /\ \A b \in DOMAIN bots : b \in DOMAIN bots' /\ bots'[b] = bots[b]
        /\ \A b \in DOMAIN bots' :
             /\ DOMAIN bots'[b] = {"owner", "prof", "cfg"}
             /\ \/ b \in DOMAIN bots /\ bots'[b].owner = bots[b].owner
                \/ Adding(h) /\ b = rq[h].dest
    BY <1>1, <1>5, <2>1, Entered
  <2>5. \A f \in friends' : f = <<f[1], f[2]>> /\ f[2] \in DOMAIN bots' /\ bots'[f[2]].owner = f[1]
    BY <2>1, <2>4 DEF DirectoryInv, OwnersInv
  <2> PICK r : r = NoReq OBVIOUS
  <2> QED BY <1>0, <1>1, <2>2, <2>3, <2>4, <2>5, Stepped DEF CacheOk
<1> QED BY <1>2, <1>3, <1>4, <1>5

(* New settings leave the owner and the profile. *)
LEMMA Configured ==
  ASSUME DirectoryInv, NEW b, NEW c, SetConfig(b, c)
  PROVE  /\ DOMAIN bots' = DOMAIN bots /\ OneBotPerProfile'
         /\ \A a \in DOMAIN bots : /\ DOMAIN bots'[a] = {"owner", "prof", "cfg"}
                                   /\ bots'[a].owner = bots[a].owner
<1>1. \A a \in DOMAIN bots : DOMAIN bots[a] = {"owner", "prof", "cfg"} BY DEF DirectoryInv, NamesInv
<1>2. DOMAIN bots' = DOMAIN bots BY DEF SetConfig
<1>3. \A a \in DOMAIN bots : /\ DOMAIN bots'[a] = {"owner", "prof", "cfg"}
                            /\ bots'[a].owner = bots[a].owner /\ bots'[a].prof = bots[a].prof
  BY <1>1 DEF SetConfig
<1>4. OneBotPerProfile' BY <1>2, <1>3 DEF DirectoryInv, OneBotPerProfile
<1> QED BY <1>2, <1>3, <1>4

LEMMA ConfigDirectory ==
  ASSUME DirectoryInv, NEW h \in Handlers,
         MemConfig(h) \/ PgConfig(h) \/ MemBefriend(h) \/ BotUpdateEndpoint(h)
  PROVE  DirectoryInv'
<1>0. /\ DOMAIN rq[h] = DOMAIN NoReq /\ nextId \in Nat \ {0}
      /\ \A b \in DOMAIN bots : DOMAIN bots[b] = {"owner", "prof", "cfg"}
      /\ pg => \A f \in friends : f = <<f[1], f[2]>> /\ f[2] \in DOMAIN bots /\ bots[f[2]].owner = f[1]
  BY DEF DirectoryInv, BotTypes, NamesInv, OwnersInv
<1>1. UNCHANGED <<pg, nextBot, nextId>>
  BY DEF MemConfig, PgConfig, MemBefriend, BotUpdateEndpoint, CheckPatch, StorePatch
<1> PICK d, c, r : d = rq[h].dest /\ c = rq[h].cfg /\ r = NoReq OBVIOUS
<1>2. CASE MemConfig(h)
  <2>1. SetConfig(d, c) /\ Proceed(h, "befriend") /\ ~pg /\ UNCHANGED cache BY <1>2 DEF MemConfig
  <2>2. stage' = [stage EXCEPT ![h] = "befriend"] /\ rq' = [rq EXCEPT ![h] = rq[h]]
    BY <2>1, StillAsks DEF Proceed
  <2>3. CacheOk BY <2>1, CacheStays
  <2> PICK e : e = rq[h] OBVIOUS
  <2> QED BY <1>0, <1>1, <2>1, <2>2, <2>3, Configured, Stepped DEF CacheOk
<1>3. CASE PgConfig(h) /\ d \notin DOMAIN bots
  <2>1. UNCHANGED <<bots, friends, cache>> /\ Done(h) BY <1>3 DEF PgConfig
  <2> QED BY <1>0, <1>1, <2>1, DoneDirectory, CacheStays
<1>4. CASE PgConfig(h) /\ d \in DOMAIN bots
  <2>1. /\ SetConfig(d, c) /\ friends' = friends \cup {<<rq[h].who, d>>} /\ Evict(h, d) /\ Done(h)
        /\ stage[h] = "config" /\ pg
    BY <1>4 DEF PgConfig
  <2>2. stage' = [stage EXCEPT ![h] = "idle"] /\ rq' = [rq EXCEPT ![h] = r] BY <2>1 DEF Done
  <2>3. bots[d].owner = rq[h].who BY <1>4, <2>1 DEF DirectoryInv, OwnersInv, OwnedBy
  <2>4. CacheOk BY <2>1, Evicts
  <2>5. \A f \in friends' : f = <<f[1], f[2]>> /\ f[2] \in DOMAIN bots /\ bots[f[2]].owner = f[1]
    BY <1>0, <1>4, <2>1, <2>3
  <2>6. /\ DOMAIN bots' = DOMAIN bots /\ OneBotPerProfile'
        /\ \A a \in DOMAIN bots : /\ DOMAIN bots'[a] = {"owner", "prof", "cfg"}
                                  /\ bots'[a].owner = bots[a].owner
    BY <2>1, Configured
  <2> QED BY <1>0, <1>1, <2>2, <2>4, <2>5, <2>6, Stepped DEF CacheOk
<1>5. CASE MemBefriend(h)
  <2>1. UNCHANGED bots /\ ~pg /\ Evict(h, d) /\ Done(h)
    BY <1>5 DEF MemBefriend, DirectoryInv, OwnersInv
  <2>2. stage' = [stage EXCEPT ![h] = "idle"] /\ rq' = [rq EXCEPT ![h] = r] BY <2>1 DEF Done
  <2>3. CacheOk BY <2>1, Evicts
  <2>4. OneBotPerProfile' BY <2>1 DEF DirectoryInv, OneBotPerProfile
  <2> QED BY <1>0, <1>1, <2>1, <2>2, <2>3, <2>4, Stepped DEF CacheOk
<1>6. CASE CheckPatch(h)
  <2>1. UNCHANGED <<bots, friends, cache>> BY <1>6 DEF CheckPatch
  <2>2. CASE Done(h) BY <1>0, <1>1, <2>1, <2>2, DoneDirectory, CacheStays
  <2>3. CASE Proceed(h, "store")
    <3>1. stage' = [stage EXCEPT ![h] = "store"] /\ rq' = [rq EXCEPT ![h] = rq[h]]
      BY <2>3, StillAsks DEF Proceed
    <3> QED BY <1>0, <1>1, <2>1, <3>1, CacheStays, GoOnDirectory
  <2> QED BY <1>6, <2>2, <2>3 DEF CheckPatch
<1>7. CASE StorePatch(h)
  <2>1. SetConfig(d, c) /\ Done(h) /\ UNCHANGED friends BY <1>7 DEF StorePatch
  <2>2. stage' = [stage EXCEPT ![h] = "idle"] /\ rq' = [rq EXCEPT ![h] = r] BY <2>1 DEF Done
  <2>3. CacheOk BY <1>7, Evicts, CacheStays DEF StorePatch
  <2>4. /\ DOMAIN bots' = DOMAIN bots /\ OneBotPerProfile'
        /\ \A a \in DOMAIN bots : /\ DOMAIN bots'[a] = {"owner", "prof", "cfg"}
                                  /\ bots'[a].owner = bots[a].owner
    BY <2>1, Configured
  <2>5. pg => \A f \in friends' : f = <<f[1], f[2]>> /\ f[2] \in DOMAIN bots' /\ bots'[f[2]].owner = f[1]
    BY <1>0, <2>1, <2>4
  <2> QED BY <1>0, <1>1, <2>2, <2>3, <2>4, <2>5, Stepped DEF CacheOk
<1> QED BY <1>2, <1>3, <1>4, <1>5, <1>6, <1>7 DEF BotUpdateEndpoint

LEMMA RestDirectory ==
  ASSUME DirectoryInv, UNCHANGED <<pg, bots, friends, stage, rq, nextId, nextBot>>, CacheOk
  PROVE  DirectoryInv'
<1>1. NoReq' = NoReq BY DEF NoReq, NoOne
<1>2. BotTypes' BY <1>1 DEF DirectoryInv, BotTypes, CacheOk
<1>3. NamesInv' BY DEF DirectoryInv, NamesInv, Named, Adding
<1>4. OwnersInv' BY DEF DirectoryInv, OwnersInv, Named, Adding, OwnedBy, Deleting, Deleted, CacheOk
<1>5. OneBotPerProfile' BY DEF DirectoryInv, OneBotPerProfile
<1> QED BY <1>2, <1>3, <1>4, <1>5 DEF DirectoryInv

LEMMA BotsInitial == BotsInit => DirectoryInv
<1> SUFFICES ASSUME BotsInit PROVE DirectoryInv OBVIOUS
<1>1. PICK u \in Humans, p \in ProfileIds, c \in Configs :
        bots = [b \in {1} |-> [owner |-> u, prof |-> p, cfg |-> c]] /\ friends = {<<u, 1>>}
  BY DEF BotsInit
<1> PICK n : n = [owner |-> u, prof |-> p, cfg |-> c] OBVIOUS
<1>2. DOMAIN bots = {1} /\ bots[1] = n BY <1>1
<1>3. DOMAIN n = {"owner", "prof", "cfg"} /\ n.owner = u OBVIOUS
<1>4. MaxBots \in Nat /\ MaxBots > 0 BY BotsAssumption
<1> QED
  <2>1. BotTypes
    <3>1. \A h \in Handlers : rq[h] = NoReq BY DEF BotsInit
    <3>2. nextBot = 2 /\ nextId = 2 BY DEF BotsInit
    <3>3. stage = [h \in Handlers |-> stage[h]] /\ rq = [h \in Handlers |-> rq[h]]
      BY DEF BotsInit
    <3>4. cache = [h \in Handlers |-> cache[h]] BY DEF BotsInit
    <3> QED BY <1>4, <3>1, <3>2, <3>3, <3>4 DEF BotTypes
  <2>2. NamesInv BY <1>2, <1>3 DEF NamesInv, Named, Adding, BotsInit
  <2>3. OwnersInv BY <1>1, <1>2, <1>3 DEF OwnersInv, Deleting, Deleted, BotsInit
  <2>4. OneBotPerProfile BY <1>2 DEF OneBotPerProfile
  <2> QED BY <2>1, <2>2, <2>3, <2>4 DEF DirectoryInv

LEMMA BotsPreserved == DirectoryInv /\ [BotsNext]_botVars => DirectoryInv'
<1> SUFFICES ASSUME DirectoryInv, [BotsNext]_botVars PROVE DirectoryInv' OBVIOUS
<1>1. ASSUME NEW h \in Handlers, Step(h) PROVE DirectoryInv'
  BY <1>1, InsertDirectory, PurgeDirectory, RemoveDirectory, FindDirectory, AddDirectory, ConfigDirectory
     DEF Step, BotDeleteEndpoint, BotCreateEndpoint
<1>2. ASSUME NEW h \in Handlers, FailRequest(h) PROVE DirectoryInv'
  <2>1. nextId' \in Nat \ {0} BY <1>2 DEF FailRequest, DirectoryInv, BotTypes
  <2> QED BY <1>2, <2>1, DoneDirectory, CacheStays DEF FailRequest
<1>3. ASSUME NEW h \in Handlers, ExpireCache(h) PROVE DirectoryInv'
  <2> PICK c : c = <<>> OBVIOUS
  <2>1. cache' = [cache EXCEPT ![h] = c] /\ DOMAIN c = {} BY <1>3 DEF ExpireCache
  <2>2. CacheOk BY <2>1, CacheShrinks
  <2> QED BY <1>3, <2>2, RestDirectory DEF ExpireCache
<1>4. ASSUME UNCHANGED <<pg, bots, friends, stage, rq, nextId, nextBot, cache>> PROVE DirectoryInv'
  BY <1>4, CacheStays, RestDirectory
<1>5. ASSUME NEW u, NEW v, NEW i, DoConversationRead(u, v, i) PROVE DirectoryInv'
  BY <1>4, <1>5 DEF DoConversationRead
<1>6. ASSUME NEW d, DoDelivery(d) PROVE DirectoryInv' BY <1>4, <1>6 DEF DoDelivery
<1>7. CASE UNCHANGED botVars BY <1>4, <1>7 DEF botVars
<1> QED BY <1>1, <1>2, <1>3, <1>5, <1>6, <1>7, RequestDirectory DEF BotsNext

-----------------------------------------------------------------------------
(* Turns: a reply in the thread of a bot is the one its turn was claimed   *)
(* with.                                                                   *)

ReplyInv ==
  /\ DOMAIN db = DOMAIN EmptyDb
  /\ \A h \in Handlers : stage[h] \in {"insert", "again", "write"} => rq[h].op = "talk"
  /\ \A h \in Handlers :
       stage[h] \in {"reply", "replying"} => rq[h].op = "reply" /\ Named(rq[h].dest)
  /\ \A h \in Handlers : Deleting(h) => rq[h].who \in Humans
  /\ \A i \in DOMAIN db.contents : db.contents[i].re # 0 =>
       LET turn == <<db.contents[i].sender, db.contents[i].re>> IN
       /\ Named(turn[1])
       /\ turn[1] \in DOMAIN bots => turn \in DOMAIN db.turns /\ db.turns[turn] = i

(* The same of the tables after a step. *)
TablesOk ==
  /\ DOMAIN db' = DOMAIN EmptyDb
  /\ \A i \in DOMAIN db'.contents : db'.contents[i].re # 0 =>
       LET turn == <<db'.contents[i].sender, db'.contents[i].re>> IN
       /\ Named(turn[1])
       /\ turn[1] \in DOMAIN bots' => turn \in DOMAIN db'.turns /\ db'.turns[turn] = i

LEMMA ReplyStepped ==
  ASSUME DirectoryInv, ReplyInv, NEW h \in Handlers, NEW s, NEW r,
         stage' = [stage EXCEPT ![h] = s], rq' = [rq EXCEPT ![h] = r],
         \A b : Named(b) => Named(b)', TablesOk,
         s \in {"insert", "again", "write"} => r.op = "talk",
         s \in {"reply", "replying"} => r.op = "reply" /\ Named(r.dest),
         s \in {"remove", "unfriend", "purge", "purging", "evict"} => r.who \in Humans
  PROVE  ReplyInv'
<1>1. /\ stage'[h] = s /\ rq'[h] = r
      /\ \A k \in Handlers \ {h} : stage'[k] = stage[k] /\ rq'[k] = rq[k]
  BY DEF DirectoryInv, BotTypes
<1>2. \A k \in Handlers : stage'[k] \in {"insert", "again", "write"} => rq'[k].op = "talk"
  BY <1>1 DEF ReplyInv
<1>3. ASSUME NEW k \in Handlers, stage'[k] \in {"reply", "replying"}
      PROVE  rq'[k].op = "reply" /\ Named(rq[k].dest)'
  <2> PICK d : d = rq'[k].dest OBVIOUS
  <2>1. rq'[k].op = "reply" /\ Named(d)
    <3>1. CASE k = h BY <1>1, <1>3, <3>1
    <3>2. CASE k # h BY <1>1, <1>3, <3>2 DEF ReplyInv
    <3> QED BY <3>1, <3>2
  <2>2. Named(d)' BY <2>1
  <2> QED BY <2>1, <2>2 DEF Named
<1>4. \A k \in Handlers : Deleting(k)' => rq'[k].who \in Humans BY <1>1 DEF ReplyInv, Deleting
<1>5. ASSUME NEW i \in DOMAIN db'.contents, db'.contents[i].re # 0
      PROVE  /\ Named(db.contents[i].sender)'
             /\ db'.contents[i].sender \in DOMAIN bots' =>
                  LET turn == <<db'.contents[i].sender, db'.contents[i].re>>
                  IN  turn \in DOMAIN db'.turns /\ db'.turns[turn] = i
  <2> PICK b : b = db'.contents[i].sender OBVIOUS
  <2>1. Named(b) BY <1>5 DEF TablesOk
  <2>2. Named(b)' BY <2>1
  <2>3. Named(db.contents[i].sender)' BY <2>2 DEF Named
  <2> QED BY <1>5, <2>3 DEF TablesOk
<1>6. DOMAIN db' = DOMAIN EmptyDb' BY DEF TablesOk, EmptyDb
<1> QED BY <1>2, <1>3, <1>4, <1>5, <1>6 DEF ReplyInv

(* Messages of people come and go, turns of accounts that are there stay. *)
LEMMA KeptTables ==
  ASSUME ReplyInv, DOMAIN db' = DOMAIN EmptyDb,
         \A b \in DOMAIN bots' : b \in DOMAIN bots \/ ~Named(b),
         \A i \in DOMAIN db'.contents :
           \/ db'.contents[i].re = 0
           \/ i \in DOMAIN db.contents /\ db'.contents[i] = db.contents[i],
         \A b, q : <<b, q>> \in DOMAIN db.turns /\ b \in DOMAIN bots' =>
                    <<b, q>> \in DOMAIN db'.turns /\ db'.turns[<<b, q>>] = db.turns[<<b, q>>]
  PROVE  TablesOk
<1> SUFFICES ASSUME NEW i \in DOMAIN db'.contents, db'.contents[i].re # 0
             PROVE  LET turn == <<db'.contents[i].sender, db'.contents[i].re>> IN
                    /\ Named(turn[1])
                    /\ turn[1] \in DOMAIN bots' => turn \in DOMAIN db'.turns /\ db'.turns[turn] = i
  BY DEF TablesOk
<1> PICK b, q : b = db'.contents[i].sender /\ q = db'.contents[i].re OBVIOUS
<1>1. i \in DOMAIN db.contents /\ db.contents[i] = db'.contents[i] OBVIOUS
<1>2. Named(b) /\ (b \in DOMAIN bots => <<b, q>> \in DOMAIN db.turns /\ db.turns[<<b, q>>] = i)
  BY <1>1 DEF ReplyInv
<1> QED BY <1>2

LEMMA SameTables ==
  ASSUME ReplyInv, DOMAIN db' = DOMAIN EmptyDb, db'.contents = db.contents, db'.turns = db.turns,
         \A b \in DOMAIN bots' : b \in DOMAIN bots \/ ~Named(b)
  PROVE  TablesOk
BY KeptTables

LEMMA TalkedTables ==
  ASSUME ReplyInv, DOMAIN db' = DOMAIN EmptyDb, NEW id, NEW m, m.re = 0, db'.turns = db.turns,
         db'.contents \in {db.contents, Set(db.contents, id, m)}, UNCHANGED bots
  PROVE  TablesOk
<1>1. ASSUME NEW i \in DOMAIN db'.contents
      PROVE  \/ db'.contents[i].re = 0
             \/ i \in DOMAIN db.contents /\ db'.contents[i] = db.contents[i]
  BY <1>1 DEF Set
<1> QED BY <1>1, KeptTables

LEMMA AnsweredTables ==
  ASSUME ReplyInv, DOMAIN db' = DOMAIN EmptyDb, NEW b, NEW q, NEW x, NEW id, NEW m, UNCHANGED bots,
         Named(b), <<b, q>> \notin DOMAIN db.turns, m.sender = b, m.re = q,
         db'.turns = Set(db.turns, <<b, q>>, x),
         db'.contents = db.contents \/ (x = id /\ db'.contents = Set(db.contents, id, m))
  PROVE  TablesOk
<1> SUFFICES ASSUME NEW i \in DOMAIN db'.contents, db'.contents[i].re # 0
             PROVE  LET turn == <<db'.contents[i].sender, db'.contents[i].re>> IN
                    /\ Named(turn[1])
                    /\ turn[1] \in DOMAIN bots' => turn \in DOMAIN db'.turns /\ db'.turns[turn] = i
  BY DEF TablesOk
<1> PICK a, p : a = db'.contents[i].sender /\ p = db'.contents[i].re OBVIOUS
<1>1. CASE x = id /\ db'.contents = Set(db.contents, id, m) /\ i = id
  <2>1. db'.contents[i] = m BY <1>1 DEF Set
  <2>2. <<a, p>> = <<b, q>> /\ Named(a) BY <2>1
  <2>3. <<b, q>> \in DOMAIN db'.turns /\ db'.turns[<<b, q>>] = i BY <1>1 DEF Set
  <2> QED BY <2>2, <2>3
<1>2. CASE i \in DOMAIN db.contents /\ db'.contents[i] = db.contents[i]
  <2>1. Named(a) /\ (a \in DOMAIN bots => <<a, p>> \in DOMAIN db.turns /\ db.turns[<<a, p>>] = i)
    BY <1>2 DEF ReplyInv
  <2>2. a \in DOMAIN bots => <<a, p>> # <<b, q>> BY <2>1
  <2>3. a \in DOMAIN bots => <<a, p>> \in DOMAIN db'.turns /\ db'.turns[<<a, p>>] = i
    BY <2>1, <2>2 DEF Set
  <2> QED BY <2>1, <2>3
<1>3. \/ x = id /\ db'.contents = Set(db.contents, id, m) /\ i = id
      \/ i \in DOMAIN db.contents /\ db'.contents[i] = db.contents[i]
  BY DEF Set
<1> QED BY <1>1, <1>2, <1>3
-----------------------------------------------------------------------------
(* What the operations of the store do to contents and turns. *)

LEMMA Receipted ==
  ASSUME NEW d, DOMAIN d = DOMAIN EmptyDb, NEW id, NEW m, NEW t
  PROVE  /\ DOMAIN UpsertReceipts(d, id, m, t) = DOMAIN EmptyDb
         /\ UpsertReceipts(d, id, m, t).contents = d.contents
         /\ UpsertReceipts(d, id, m, t).turns = d.turns
BY DEF UpsertReceipts, EmptyDb

LEMMA Reserved ==
  ASSUME NEW d, DOMAIN d = DOMAIN EmptyDb, NEW id, NEW m
  PROVE  /\ DOMAIN Claim(d, m, id) = DOMAIN EmptyDb
         /\ Claim(d, m, id).contents = d.contents /\ Claim(d, m, id).turns = d.turns
BY DEF Claim, EmptyDb

LEMMA PushedRows ==
  ASSUME NEW d, DOMAIN d = DOMAIN EmptyDb, NEW rows
  PROVE  /\ DOMAIN PushIndex(d, rows) = DOMAIN EmptyDb
         /\ PushIndex(d, rows).contents = d.contents /\ PushIndex(d, rows).turns = d.turns
BY DEF PushIndex, EmptyDb

LEMMA Written ==
  ASSUME NEW d, DOMAIN d = DOMAIN EmptyDb, NEW id, NEW m
  PROVE  /\ DOMAIN Write(d, m, id) = DOMAIN EmptyDb
         /\ Write(d, m, id).contents = Set(d.contents, id, m) /\ Write(d, m, id).turns = d.turns
<1> DEFINE e == [d EXCEPT !.contents = Set(d.contents, id, m)]
<1>1. DOMAIN e = DOMAIN EmptyDb /\ e.contents = Set(d.contents, id, m) /\ e.turns = d.turns
  BY DEF EmptyDb
<1>2. Write(d, m, id) = PushIndex(e, IndexRows(m, id)) BY DEF Write
<1> HIDE DEF e
<1> QED BY <1>1, <1>2, PushedRows

LEMMA Inserted ==
  ASSUME NEW d, DOMAIN d = DOMAIN EmptyDb, NEW id, NEW m, NEW t
  PROVE  LET e == InsertLocked(d, m, id, t) IN
         /\ DOMAIN e = DOMAIN EmptyDb /\ e.turns = d.turns
         /\ e.contents \in {d.contents, Set(d.contents, id, m)}
<1>1. CASE Claimed(d, m)
  <2> PICK x : x = ClaimOf(d, m) OBVIOUS
  <2>1. InsertLocked(d, m, id, t) = UpsertReceipts(d, x, m, t) BY <1>1 DEF InsertLocked
  <2> QED BY <2>1, Receipted
<1>2. CASE ~Claimed(d, m)
  <2> PICK c : c = Claim(d, m, id) OBVIOUS
  <2> PICK w : w = Write(c, m, id) OBVIOUS
  <2>1. DOMAIN c = DOMAIN EmptyDb /\ c.contents = d.contents /\ c.turns = d.turns BY Reserved
  <2>2. DOMAIN w = DOMAIN EmptyDb /\ w.contents = Set(d.contents, id, m) /\ w.turns = d.turns
    BY <2>1, Written
  <2>3. InsertLocked(d, m, id, t) = UpsertReceipts(w, id, m, t) BY <1>2 DEF InsertLocked
  <2> QED BY <2>2, <2>3, Receipted
<1> QED BY <1>1, <1>2

(* A reply claims the turn nobody has, or nothing happens. *)
LEMMA StoredReply ==
  ASSUME NEW d, DOMAIN d = DOMAIN EmptyDb, NEW b, NEW q, NEW m, NEW id, NEW t, NEW e,
         e = InsertBotReply(d, b, q, m, id, t)
  PROVE  \/ e = d
         \/ /\ DOMAIN e = DOMAIN EmptyDb /\ <<b, q>> \notin DOMAIN d.turns
            /\ \E x : /\ e.turns = Set(d.turns, <<b, q>>, x)
                      /\ e.contents = d.contents \/ (x = id /\ e.contents = Set(d.contents, id, m))
<1> PICK turn : turn = <<b, q>> OBVIOUS
<1>1. CASE ~IsQuestion(d, m.dest, b, q) \/ turn \in DOMAIN d.turns BY <1>1 DEF InsertBotReply
<1>2. CASE IsQuestion(d, m.dest, b, q) /\ turn \notin DOMAIN d.turns /\ Claimed(d, m)
  <2> PICK x : x = ClaimOf(d, m) OBVIOUS
  <2>0. PICK c : c = [d EXCEPT !.turns = Set(d.turns, turn, x)] OBVIOUS
  <2>1. e = UpsertReceipts(c, x, m, t) BY <1>2, <2>0 DEF InsertBotReply
  <2>2. DOMAIN c = DOMAIN EmptyDb /\ c.contents = d.contents /\ c.turns = Set(d.turns, turn, x)
    BY <2>0 DEF EmptyDb
  <2>3. DOMAIN e = DOMAIN EmptyDb /\ e.contents = d.contents /\ e.turns = Set(d.turns, turn, x)
    BY <2>1, <2>2, Receipted
  <2> QED BY <1>2, <2>3
<1>3. CASE IsQuestion(d, m.dest, b, q) /\ turn \notin DOMAIN d.turns /\ ~Claimed(d, m)
  <2> PICK c : c = Claim(d, m, id) OBVIOUS
  <2> PICK w : w = Write(c, m, id) OBVIOUS
  <2>1. DOMAIN c = DOMAIN EmptyDb /\ c.contents = d.contents /\ c.turns = d.turns BY Reserved
  <2>2. DOMAIN w = DOMAIN EmptyDb /\ w.contents = Set(d.contents, id, m) /\ w.turns = d.turns
    BY <2>1, Written
  <2>0. PICK v : v = [w EXCEPT !.turns = Set(w.turns, turn, id)] OBVIOUS
  <2>3. e = UpsertReceipts(v, id, m, t) BY <1>3, <2>0 DEF InsertBotReply
  <2>4. /\ DOMAIN v = DOMAIN EmptyDb /\ v.contents = Set(d.contents, id, m)
        /\ v.turns = Set(d.turns, turn, id)
    BY <2>0, <2>2 DEF EmptyDb
  <2>5. /\ DOMAIN e = DOMAIN EmptyDb /\ e.contents = Set(d.contents, id, m)
        /\ e.turns = Set(d.turns, turn, id)
    BY <2>3, <2>4, Receipted
  <2> QED BY <1>3, <2>5
<1> QED BY <1>1, <1>2, <1>3

LEMMA PgStoredReply ==
  ASSUME NEW d, d = db, DOMAIN d = DOMAIN EmptyDb, NEW b, NEW q, NEW m, NEW id, NEW t, NEW e,
         e = PgReply(m, b, q, id, t)
  PROVE  \/ e = d
         \/ /\ DOMAIN e = DOMAIN EmptyDb /\ <<b, q>> \notin DOMAIN d.turns
            /\ e.turns = Set(d.turns, <<b, q>>, id) /\ e.contents = Set(d.contents, id, m)
<1> PICK turn : turn = <<b, q>> OBVIOUS
<1>1. CASE turn \in DOMAIN d.turns BY <1>1 DEF PgReply
<1>2. CASE turn \notin DOMAIN d.turns
  <2> PICK c : c = IF Claimed(d, m) THEN d ELSE Claim(d, m, id) OBVIOUS
  <2> PICK w : w = Write(c, m, id) OBVIOUS
  <2>1. DOMAIN c = DOMAIN EmptyDb /\ c.contents = d.contents /\ c.turns = d.turns BY Reserved
  <2>2. DOMAIN w = DOMAIN EmptyDb /\ w.contents = Set(d.contents, id, m) /\ w.turns = d.turns
    BY <2>1, Written
  <2>0. PICK v : v = [w EXCEPT !.turns = Set(w.turns, turn, id)] OBVIOUS
  <2>3. e = UpsertReceipts(v, id, m, t) BY <1>2, <2>0 DEF PgReply
  <2>4. /\ DOMAIN v = DOMAIN EmptyDb /\ v.contents = Set(d.contents, id, m)
        /\ v.turns = Set(d.turns, turn, id)
    BY <2>0, <2>2 DEF EmptyDb
  <2>5. /\ DOMAIN e = DOMAIN EmptyDb /\ e.contents = Set(d.contents, id, m)
        /\ e.turns = Set(d.turns, turn, id)
    BY <2>3, <2>4, Receipted
  <2> QED BY <1>2, <2>5
<1> QED BY <1>1, <1>2

ErasedTo(e, a, b) ==
  /\ DOMAIN e = DOMAIN EmptyDb
  /\ \A i \in DOMAIN e.contents : i \in DOMAIN db.contents /\ e.contents[i] = db.contents[i]
  /\ \A x, q : <<x, q>> \in DOMAIN db.turns /\ x # a /\ x # b =>
                      <<x, q>> \in DOMAIN e.turns /\ e.turns[<<x, q>>] = db.turns[<<x, q>>]

LEMMA Erased ==
  ASSUME DOMAIN db = DOMAIN EmptyDb, NEW a, NEW b, NEW ids, NEW e,
         e = PurgePeerDm(db, a, b) \/ e = PgPurge(a, b, ids)
  PROVE  ErasedTo(e, a, b)
<1>1. CASE e = PurgePeerDm(db, a, b)
  <2>1. DOMAIN e = DOMAIN EmptyDb BY <1>1 DEF PurgePeerDm, EmptyDb
  <2>2. PICK dead : e.contents = Without(db.contents, dead) BY <1>1 DEF PurgePeerDm, EmptyDb
  <2>3. e.turns = Without(db.turns, {t \in DOMAIN db.turns : t[1] \in {a, b}})
    BY <1>1 DEF PurgePeerDm, EmptyDb
  <2> QED BY <2>1, <2>2, <2>3 DEF Without, ErasedTo
<1>2. CASE e = PgPurge(a, b, ids)
  <2>1. DOMAIN e = DOMAIN EmptyDb BY <1>2 DEF PgPurge, EmptyDb
  <2>2. e.contents = Without(db.contents, ids) BY <1>2 DEF PgPurge, EmptyDb
  <2>3. e.turns = Without(db.turns, {t \in DOMAIN db.turns : t[1] = b}) BY <1>2 DEF PgPurge, EmptyDb
  <2> QED BY <2>1, <2>2, <2>3 DEF Without, ErasedTo
<1> QED BY <1>1, <1>2

LEMMA StoreQuiet ==
  ASSUME NEW d, DOMAIN d = DOMAIN EmptyDb, NEW x, NEW y, NEW z
  PROVE  \A e \in {MarkRead(d, x, y, z), Backfill(d, x), Ack(d, x, y), GcExpired(d, x)} :
           DOMAIN e = DOMAIN EmptyDb /\ e.contents = d.contents /\ e.turns = d.turns
<1>1. LET e == MarkRead(d, x, y, z)
      IN  DOMAIN e = DOMAIN EmptyDb /\ e.contents = d.contents /\ e.turns = d.turns
  BY DEF MarkRead, BumpVersion, EmptyDb
<1>2. LET e == Backfill(d, x)
      IN  DOMAIN e = DOMAIN EmptyDb /\ e.contents = d.contents /\ e.turns = d.turns
  BY DEF Backfill, EmptyDb
<1>3. LET e == Ack(d, x, y)
      IN  DOMAIN e = DOMAIN EmptyDb /\ e.contents = d.contents /\ e.turns = d.turns
  BY DEF Ack, EmptyDb
<1>4. LET e == GcExpired(d, x)
      IN  DOMAIN e = DOMAIN EmptyDb /\ e.contents = d.contents /\ e.turns = d.turns
  BY DEF GcExpired, EmptyDb
<1> QED BY <1>1, <1>2, <1>3, <1>4
-----------------------------------------------------------------------------
(* The turns, step by step. *)

LEMMA ReplyDone ==
  ASSUME DirectoryInv, ReplyInv, NEW h \in Handlers, Done(h), nextBot' = nextBot, TablesOk
  PROVE  ReplyInv'
<1> PICK s, r : s = "idle" /\ r = NoReq OBVIOUS
<1>1. stage' = [stage EXCEPT ![h] = s] /\ rq' = [rq EXCEPT ![h] = r] BY DEF Done
<1>2. \A k \in Handlers \ {h} : rq'[k] = rq[k] BY <1>1 DEF DirectoryInv, BotTypes
<1>3. s # "add" OBVIOUS
<1>4. \A b : Named(b) => Named(b)' BY <1>1, <1>2, <1>3, NamedStays
<1> QED BY <1>1, <1>4, ReplyStepped

LEMMA ReplyGoesOn ==
  ASSUME DirectoryInv, ReplyInv, NEW h \in Handlers, NEW s, NEW r, s # "add",
         stage' = [stage EXCEPT ![h] = s], rq' = [rq EXCEPT ![h] = r], nextBot' = nextBot, TablesOk,
         s \in {"insert", "again", "write"} => r.op = "talk",
         s \in {"reply", "replying"} => r.op = "reply" /\ Named(r.dest),
         s \in {"remove", "unfriend", "purge", "purging", "evict"} => r.who \in Humans
  PROVE  ReplyInv'
<1>1. \A k \in Handlers \ {h} : rq'[k] = rq[k] BY DEF DirectoryInv, BotTypes
<1>2. \A b : Named(b) => Named(b)' BY <1>1, NamedStays
<1> QED BY <1>2, ReplyStepped

LEMMA ReplyRequest ==
  ASSUME DirectoryInv, ReplyInv, NEW h \in Handlers, Request(h)
  PROVE  ReplyInv'
<1>0. TablesOk /\ nextBot' = nextBot
  <2>1. UNCHANGED <<db, bots, nextBot>>
    BY DEF Request, DoBotCreate, DoGroupTalk, DoUserTalk, DoBotReply, DoBotDelete, DoBotUpdate
  <2>2. DOMAIN db' = DOMAIN EmptyDb BY <2>1 DEF ReplyInv
  <2> QED BY <2>1, <2>2, SameTables
<1>1. ASSUME NEW s \in {"find", "insert", "reply", "remove", "patch"}, NEW r, Begin(h, s, r),
             s = "insert" => r.op = "talk", s = "reply" => r.op = "reply" /\ Named(r.dest),
             s = "remove" => r.who \in Humans
      PROVE  ReplyInv'
  <2>1. stage' = [stage EXCEPT ![h] = s] /\ rq' = [rq EXCEPT ![h] = r] BY <1>1 DEF Begin
  <2> QED BY <1>0, <1>1, <2>1, ReplyGoesOn
<1>2. ASSUME NEW u \in Humans, NEW p, NEW c, DoBotCreate(h, u, p, c) PROVE ReplyInv'
  <2> PICK r : r = HttpCreateBot(u, p, c) OBVIOUS
  <2>1. Begin(h, "find", r) BY <1>2 DEF DoBotCreate
  <2> QED BY <1>1, <2>1
<1>3. ASSUME NEW u \in Humans, NEW g, DoGroupTalk(h, u, g) PROVE ReplyInv'
  <2> PICK r : r = HttpInsertGroup(u, g) OBVIOUS
  <2>1. Begin(h, "insert", r) /\ r.op = "talk" BY <1>3, Requested DEF DoGroupTalk
  <2> QED BY <1>1, <2>1
<1>4. ASSUME NEW u \in Humans, NEW b, NEW cid, DoUserTalk(h, u, b, cid) PROVE ReplyInv'
  <2> PICK r : r = HttpInsertUser(u, b, cid) OBVIOUS
  <2>1. Begin(h, "insert", r) /\ r.op = "talk" BY <1>4, Requested DEF DoUserTalk
  <2> QED BY <1>1, <2>1
<1>5. ASSUME NEW u \in Humans, NEW b, NEW q, NEW cid, DoBotReply(h, u, b, q, cid)
      PROVE  ReplyInv'
  <2> PICK r : r = HttpInsertBotReply(u, b, q, cid) OBVIOUS
  <2>1. Begin(h, "reply", r) /\ r.op = "reply" /\ r.dest = b BY <1>5, Requested DEF DoBotReply
  <2>2. Named(b) BY <1>5, LookedUp DEF DoBotReply
  <2> QED BY <1>1, <2>1, <2>2
<1>6. ASSUME NEW u \in Humans, NEW b, DoBotDelete(h, u, b) PROVE ReplyInv'
  <2> PICK r : r = HttpDeleteBot(u, b) OBVIOUS
  <2>1. Begin(h, "remove", r) /\ r.who = u BY <1>6, Requested DEF DoBotDelete
  <2> QED BY <1>1, <2>1
<1>7. ASSUME NEW u \in Humans, NEW b, NEW c, DoBotUpdate(h, u, b, c) PROVE ReplyInv'
  <2> PICK r : r = HttpUpdateBot(u, b, c) OBVIOUS
  <2>1. Begin(h, "patch", r) BY <1>7 DEF DoBotUpdate
  <2> QED BY <1>1, <2>1
<1> QED BY <1>2, <1>3, <1>4, <1>5, <1>6, <1>7 DEF Request

LEMMA ReplyInsert ==
  ASSUME DirectoryInv, ReplyInv, NEW h \in Handlers, InsertEndpoint(h)
  PROVE  ReplyInv'
<1>0. /\ DOMAIN rq[h] = DOMAIN NoReq /\ DOMAIN db = DOMAIN EmptyDb /\ UNCHANGED <<bots, nextBot>>
  BY DEF DirectoryInv, BotTypes, ReplyInv, InsertEndpoint, InsertCheck, InsertAgain, InsertWrite, PgInsert
<1>1. stage[h] \in {"insert", "again", "write"}
  BY DEF InsertEndpoint, InsertCheck, InsertAgain, InsertWrite, PgInsert
<1>2. rq[h].op = "talk" BY <1>1 DEF ReplyInv
<1> PICK m : m = Msg(h) OBVIOUS
<1>3. m.re = 0 BY <1>2 DEF Msg
<1>4. CASE InsertCheck(h)
  <2>1. \E v : \E s \in {"again", "write"} :
          stage' = [stage EXCEPT ![h] = s] /\ rq' = [rq EXCEPT ![h] = [rq[h] EXCEPT !.id = v]]
    <3>1. CASE Claimed(db, Msg(h))
      <4> PICK v : v = ClaimOf(db, Msg(h)) OBVIOUS
      <4>1. stage' = [stage EXCEPT ![h] = "again"] /\ rq' = [rq EXCEPT ![h] = [rq[h] EXCEPT !.id = v]]
        BY <1>4, <3>1 DEF InsertCheck
      <4> QED BY <4>1
    <3>2. CASE ~Claimed(db, Msg(h))
      <4>1. /\ stage' = [stage EXCEPT ![h] = "write"]
            /\ rq' = [rq EXCEPT ![h] = [rq[h] EXCEPT !.id = nextId]]
        BY <1>4, <3>2 DEF InsertCheck
      <4> QED BY <4>1
    <3> QED BY <3>1, <3>2
  <2>2. PICK v : \E s \in {"again", "write"} :
          stage' = [stage EXCEPT ![h] = s] /\ rq' = [rq EXCEPT ![h] = [rq[h] EXCEPT !.id = v]]
    BY <2>1
  <2>3. PICK s \in {"again", "write"} :
          stage' = [stage EXCEPT ![h] = s] /\ rq' = [rq EXCEPT ![h] = [rq[h] EXCEPT !.id = v]]
    BY <2>2
  <2> PICK r : r = [rq[h] EXCEPT !.id = v] OBVIOUS
  <2>4. r.op = "talk" BY <1>0, <1>2, ReqFields
  <2>5. UNCHANGED db BY <1>4 DEF InsertCheck
  <2>6. TablesOk BY <1>0, <2>5, SameTables
  <2> QED BY <1>0, <2>3, <2>4, <2>6, ReplyGoesOn
<1>5. ASSUME NEW d, NEW id, NEW t, d = db,
             db' = InsertLocked(d, m, id, t) \/ db' = UpsertReceipts(d, id, m, t), Done(h)
      PROVE  ReplyInv'
  <2>1. /\ DOMAIN db' = DOMAIN EmptyDb /\ db'.turns = db.turns
        /\ db'.contents \in {db.contents, Set(db.contents, id, m)}
    BY <1>0, <1>5, Inserted, Receipted
  <2>2. TablesOk BY <1>0, <1>3, <2>1, TalkedTables
  <2> QED BY <1>0, <1>5, <2>2, ReplyDone
<1> PICK d, x, n : d = db /\ x = rq[h].id /\ n = nextId OBVIOUS
<1>6. CASE InsertAgain(h)
  <2>1. PICK t \in Online : db' = UpsertReceipts(d, x, m, t) BY <1>6 DEF InsertAgain
  <2> QED BY <1>5, <1>6, <2>1 DEF InsertAgain
<1>7. CASE InsertWrite(h)
  <2>1. PICK t \in Online : db' = InsertLocked(d, m, x, t) BY <1>7 DEF InsertWrite
  <2> QED BY <1>5, <1>7, <2>1 DEF InsertWrite
<1>8. CASE PgInsert(h)
  <2>1. PICK t \in Online : db' = InsertLocked(d, m, n, t) BY <1>8 DEF PgInsert
  <2> QED BY <1>5, <1>8, <2>1 DEF PgInsert
<1> QED BY <1>4, <1>6, <1>7, <1>8 DEF InsertEndpoint

LEMMA ReplyAnswers ==
  ASSUME DirectoryInv, ReplyInv, NEW h \in Handlers, BotReplyEndpoint(h)
  PROVE  ReplyInv'
<1>0. /\ DOMAIN rq[h] = DOMAIN NoReq /\ DOMAIN db = DOMAIN EmptyDb /\ UNCHANGED <<bots, nextBot>>
  BY DEF DirectoryInv, BotTypes, ReplyInv, BotReplyEndpoint, MemReply, PgReplyBegin, PgReplyCommit
<1>1. stage[h] \in {"reply", "replying"}
  BY DEF BotReplyEndpoint, MemReply, PgReplyBegin, PgReplyCommit
<1> PICK m, d, b, q, n, x : /\ m = Msg(h) /\ d = db /\ b = rq[h].dest /\ q = rq[h].q
                           /\ n = nextId /\ x = rq[h].id
  OBVIOUS
<1>2. rq[h].op = "reply" /\ Named(b) BY <1>1 DEF ReplyInv
<1>3. m.sender = b /\ m.re = q BY <1>2 DEF Msg
<1>4. ASSUME UNCHANGED db PROVE TablesOk BY <1>0, <1>4, SameTables
<1>5. CASE MemReply(h)
  <2>1. PICK t \in Online : db' = InsertBotReply(d, b, q, m, n, t) BY <1>5 DEF MemReply
  <2> PICK e : e = InsertBotReply(d, b, q, m, n, t) OBVIOUS
  <2>2. \/ e = d
        \/ /\ DOMAIN e = DOMAIN EmptyDb /\ <<b, q>> \notin DOMAIN d.turns
           /\ \E y : /\ e.turns = Set(d.turns, <<b, q>>, y)
                     /\ e.contents = d.contents \/ (y = n /\ e.contents = Set(d.contents, n, m))
    BY <1>0, StoredReply
  <2>3. TablesOk
    <3>1. CASE e = d BY <1>4, <2>1, <3>1
    <3>2. CASE /\ DOMAIN e = DOMAIN EmptyDb /\ <<b, q>> \notin DOMAIN d.turns
               /\ \E y : /\ e.turns = Set(d.turns, <<b, q>>, y)
                         /\ e.contents = d.contents \/ (y = n /\ e.contents = Set(d.contents, n, m))
      <4>1. PICK y : /\ e.turns = Set(d.turns, <<b, q>>, y)
                     /\ e.contents = d.contents \/ (y = n /\ e.contents = Set(d.contents, n, m))
        BY <3>2
      <4> QED BY <1>0, <1>2, <1>3, <2>1, <3>2, <4>1, AnsweredTables
    <3> QED BY <2>2, <3>1, <3>2
  <2> QED BY <1>0, <1>5, <2>3, ReplyDone DEF MemReply
<1>6. CASE PgReplyBegin(h)
  <2>1. TablesOk BY <1>4, <1>6 DEF PgReplyBegin
  <2>2. CASE Done(h) BY <1>0, <2>1, <2>2, ReplyDone
  <2>3. CASE /\ stage' = [stage EXCEPT ![h] = "replying"]
             /\ rq' = [rq EXCEPT ![h] = [rq[h] EXCEPT !.id = nextId]]
    <3> PICK r : r = [rq[h] EXCEPT !.id = nextId] OBVIOUS
    <3>1. r.op = "reply" /\ r.dest = b BY <1>0, <1>2, ReqFields
    <3> QED BY <1>0, <1>2, <2>1, <2>3, <3>1, ReplyGoesOn
  <2> QED BY <1>6, <2>2, <2>3 DEF PgReplyBegin
<1>7. CASE PgReplyCommit(h)
  <2>1. PICK t \in Online : db' = PgReply(m, b, q, x, t) BY <1>7 DEF PgReplyCommit
  <2> PICK e : e = PgReply(m, b, q, x, t) OBVIOUS
  <2>2. \/ e = d
        \/ /\ DOMAIN e = DOMAIN EmptyDb /\ <<b, q>> \notin DOMAIN d.turns
           /\ e.turns = Set(d.turns, <<b, q>>, x) /\ e.contents = Set(d.contents, x, m)
    BY <1>0, PgStoredReply
  <2>3. TablesOk
    <3>1. CASE e = d BY <1>4, <2>1, <3>1
    <3>2. CASE e # d BY <1>0, <1>2, <1>3, <2>1, <2>2, <3>2, AnsweredTables
    <3> QED BY <3>1, <3>2
  <2> QED BY <1>0, <1>7, <2>3, ReplyDone DEF PgReplyCommit
<1> QED BY <1>5, <1>6, <1>7 DEF BotReplyEndpoint

LEMMA NotABot ==
  ASSUME DirectoryInv, NEW u \in Humans
  PROVE  u \notin DOMAIN bots
<1> SUFFICES ASSUME u \in DOMAIN bots PROVE FALSE OBVIOUS
<1>1. u \in Nat \ {0} /\ u < nextBot BY DEF DirectoryInv, NamesInv, Named
<1>2. nextBot \in Nat /\ nextBot <= MaxBots + 1 BY DEF DirectoryInv, BotTypes
<1>3. MaxBots \in Nat BY BotsAssumption
<1>4. u \in 1 .. MaxBots BY <1>1, <1>2, <1>3
<1> QED BY <1>4, BotsAssumption

LEMMA ReplyPurge ==
  ASSUME DirectoryInv, ReplyInv, NEW h \in Handlers, PurgeDmEndpoint(h) \/ EvictDeleted(h)
  PROVE  ReplyInv'
<1>0. /\ DOMAIN rq[h] = DOMAIN NoReq /\ DOMAIN db = DOMAIN EmptyDb /\ UNCHANGED <<bots, nextBot>>
  BY DEF DirectoryInv, BotTypes, ReplyInv, PurgeDmEndpoint, MemPurge, PgPurgeSelect, PgPurgeCommit,
         EvictDeleted
<1>1. Deleted(h) /\ Deleting(h)
  BY DEF PurgeDmEndpoint, MemPurge, PgPurgeSelect, PgPurgeCommit, EvictDeleted, Deleted, Deleting
<1> PICK u, b, x : u = rq[h].who /\ b = rq[h].dest /\ x = rq[h].ids OBVIOUS
<1>2. u \in Humans /\ b \notin DOMAIN bots BY <1>1 DEF ReplyInv, DirectoryInv, OwnersInv
<1>3. u \notin DOMAIN bots BY <1>2, NotABot
<1>4. ASSUME NEW e, db' = e, e = PurgePeerDm(db, u, b) \/ e = PgPurge(u, b, x) PROVE TablesOk
  <2>0. ErasedTo(e, u, b) BY <1>0, <1>4, Erased
  <2>1. /\ DOMAIN e = DOMAIN EmptyDb
        /\ \A i \in DOMAIN e.contents : i \in DOMAIN db.contents /\ e.contents[i] = db.contents[i]
        /\ \A c, q : <<c, q>> \in DOMAIN db.turns /\ c # u /\ c # b =>
                     <<c, q>> \in DOMAIN e.turns /\ e.turns[<<c, q>>] = db.turns[<<c, q>>]
    BY <2>0 DEF ErasedTo
  <2>2. \A c, q : <<c, q>> \in DOMAIN db.turns /\ c \in DOMAIN bots' =>
                 <<c, q>> \in DOMAIN db'.turns /\ db'.turns[<<c, q>>] = db.turns[<<c, q>>]
    BY <1>0, <1>2, <1>3, <1>4, <2>1
  <2> QED BY <1>0, <1>4, <2>1, <2>2, KeptTables
<1>5. ASSUME UNCHANGED db PROVE TablesOk BY <1>0, <1>5, SameTables
<1>6. ASSUME NEW s \in {"purge", "purging", "evict"}, NEW r, r.who = u, TablesOk,
             stage' = [stage EXCEPT ![h] = s], rq' = [rq EXCEPT ![h] = r]
      PROVE  ReplyInv'
  BY <1>0, <1>2, <1>6, ReplyGoesOn
<1>7. CASE MemPurge(h)
  <2>1. TablesOk
    <3> PICK e : e = PurgePeerDm(db, u, b) OBVIOUS
    <3>1. db' = e BY <1>7 DEF MemPurge
    <3> QED BY <1>4, <3>1
  <2>2. CASE Done(h) BY <1>0, <2>1, <2>2, ReplyDone
  <2>3. CASE Proceed(h, "evict")
    <3>1. stage' = [stage EXCEPT ![h] = "evict"] /\ rq' = [rq EXCEPT ![h] = rq[h]]
      BY <2>3, StillAsks DEF Proceed
    <3> QED BY <1>6, <2>1, <3>1
  <2> QED BY <1>7, <2>2, <2>3 DEF MemPurge, Purged
<1>8. CASE PgPurgeSelect(h)
  <2> PICK v : v = {r.id : r \in ThreadRows(db.byMessage, rq[h].who, rq[h].dest)} OBVIOUS
  <2> PICK r : r = [rq[h] EXCEPT !.ids = v] OBVIOUS
  <2>1. r.who = u BY <1>0, ReqFields
  <2>2. stage' = [stage EXCEPT ![h] = "purging"] /\ rq' = [rq EXCEPT ![h] = r] /\ UNCHANGED db
    BY <1>8 DEF PgPurgeSelect
  <2> QED BY <1>5, <1>6, <2>1, <2>2
<1>9. CASE PgPurgeCommit(h)
  <2>1. TablesOk
    <3> PICK e : e = PgPurge(u, b, x) OBVIOUS
    <3>1. db' = e BY <1>9 DEF PgPurgeCommit
    <3> QED BY <1>4, <3>1
  <2>2. CASE Done(h) BY <1>0, <2>1, <2>2, ReplyDone
  <2>3. CASE /\ stage' = [stage EXCEPT ![h] = "evict"]
             /\ rq' = [rq EXCEPT ![h] = [rq[h] EXCEPT !.ids = {}]]
    <3> PICK r : r = [rq[h] EXCEPT !.ids = {}] OBVIOUS
    <3>1. r.who = u BY <1>0, ReqFields
    <3> QED BY <1>6, <2>1, <2>3, <3>1
  <2> QED BY <1>9, <2>2, <2>3 DEF PgPurgeCommit
<1>10. CASE EvictDeleted(h)
  <2> PICK r : r = [rq[h] EXCEPT !.again = TRUE] OBVIOUS
  <2>1. r.who = u BY <1>0, ReqFields
  <2>2. stage' = [stage EXCEPT ![h] = "purge"] /\ rq' = [rq EXCEPT ![h] = r] /\ UNCHANGED db
    BY <1>10 DEF EvictDeleted
  <2> QED BY <1>5, <1>6, <2>1, <2>2
<1> QED BY <1>7, <1>8, <1>9, <1>10 DEF PurgeDmEndpoint

LEMMA ReplyRemove ==
  ASSUME DirectoryInv, ReplyInv, NEW h \in Handlers, MemRemove(h) \/ PgDelete(h) \/ MemUnfriend(h)
  PROVE  ReplyInv'
<1>0. DOMAIN db = DOMAIN EmptyDb /\ nextBot' = nextBot BY DEF ReplyInv, MemRemove, PgDelete, MemUnfriend
<1>1. rq[h].who \in Humans BY DEF ReplyInv, Deleting, MemRemove, PgDelete, MemUnfriend
<1>2. TablesOk
  <2>1. CASE UNCHANGED db /\ DOMAIN bots' \subseteq DOMAIN bots BY <1>0, <2>1, SameTables
  <2>2. CASE PgDelete(h) /\ rq[h].dest \in DOMAIN bots
    <3> PICK b, gone : b = rq[h].dest /\ gone = {t \in DOMAIN db.turns : t[1] = b} OBVIOUS
    <3>1. bots' = Without(bots, {b}) /\ db' = [db EXCEPT !.turns = Without(db.turns, gone)]
      BY <2>2 DEF PgDelete
    <3>2. /\ DOMAIN db' = DOMAIN EmptyDb /\ db'.contents = db.contents
          /\ db'.turns = Without(db.turns, gone)
      BY <1>0, <3>1 DEF EmptyDb
    <3>3. DOMAIN bots' = DOMAIN bots \ {b} BY <3>1 DEF Without
    <3>4. \A c, q : <<c, q>> \in DOMAIN db.turns /\ c \in DOMAIN bots' =>
                   <<c, q>> \in DOMAIN db'.turns /\ db'.turns[<<c, q>>] = db.turns[<<c, q>>]
      BY <3>2, <3>3 DEF Without
    <3> QED BY <3>2, <3>3, <3>4, KeptTables
  <2> QED BY <2>1, <2>2 DEF MemRemove, PgDelete, MemUnfriend, Without
<1>3. CASE Done(h) BY <1>0, <1>2, <1>3, ReplyDone
<1>4. ASSUME NEW s \in {"unfriend", "purge"}, Proceed(h, s) PROVE ReplyInv'
  <2>1. stage' = [stage EXCEPT ![h] = s] /\ rq' = [rq EXCEPT ![h] = rq[h]]
    BY <1>4, StillAsks DEF Proceed
  <2> QED BY <1>0, <1>1, <1>2, <2>1, ReplyGoesOn
<1> QED BY <1>3, <1>4 DEF MemRemove, PgDelete, MemUnfriend

LEMMA ReplySettings ==
  ASSUME DirectoryInv, ReplyInv, NEW h \in Handlers, BotCreateEndpoint(h) \/ BotUpdateEndpoint(h)
  PROVE  ReplyInv'
<1>0. DOMAIN db = DOMAIN EmptyDb /\ UNCHANGED db
  BY DEF ReplyInv, BotCreateEndpoint, BotUpdateEndpoint, FindBot, MemAddBot, MemConfig, MemBefriend,
         PgAddBot, PgConfig, CheckPatch, StorePatch
<1>1. TablesOk
  <2>1. CASE DOMAIN bots' = DOMAIN bots BY <1>0, <2>1, SameTables
  <2>2. CASE Adding(h) /\ bots' = Set(bots, rq[h].dest, NewBot(h))
    <3>1. \A b \in DOMAIN bots' : b \in DOMAIN bots \/ ~Named(b) BY <2>2 DEF Set, Named
    <3> QED BY <1>0, <3>1, SameTables
  <2> QED BY <2>1, <2>2 DEF BotCreateEndpoint, BotUpdateEndpoint, FindBot, MemAddBot, MemConfig,
        MemBefriend, PgAddBot, PgConfig, CheckPatch, StorePatch, SetConfig, Adding
<1>2. CASE Done(h) /\ nextBot' = nextBot BY <1>1, <1>2, ReplyDone
<1>3. ASSUME NEW s \in {"config", "befriend", "store"}, NEW r, nextBot' = nextBot,
             stage' = [stage EXCEPT ![h] = s], rq' = [rq EXCEPT ![h] = r]
      PROVE  ReplyInv'
  BY <1>1, <1>3, ReplyGoesOn
<1>4. ASSUME NEW s \in {"befriend", "store"}, Proceed(h, s), nextBot' = nextBot PROVE ReplyInv'
  <2>1. stage' = [stage EXCEPT ![h] = s] /\ rq' = [rq EXCEPT ![h] = rq[h]]
    BY <1>4, StillAsks DEF Proceed
  <2> QED BY <1>3, <1>4, <2>1
<1>5. ASSUME NEW d, stage' = [stage EXCEPT ![h] = "config"], nextBot' = nextBot,
             rq' = [rq EXCEPT ![h].dest = d]
      PROVE  ReplyInv'
  <2> PICK r : r = [rq[h] EXCEPT !.dest = d] OBVIOUS
  <2>1. rq' = [rq EXCEPT ![h] = r] BY <1>5
  <2> QED BY <1>3, <1>5, <2>1
<1>6. CASE /\ nextBot <= MaxBots /\ nextBot' = nextBot + 1
           /\ stage' = [stage EXCEPT ![h] = "add"] /\ rq' = [rq EXCEPT ![h].dest = nextBot]
  <2> PICK s, r : s = "add" /\ r = [rq[h] EXCEPT !.dest = nextBot] OBVIOUS
  <2>1. stage' = [stage EXCEPT ![h] = s] /\ rq' = [rq EXCEPT ![h] = r] BY <1>6
  <2>2. \A b : Named(b) => Named(b)' BY <1>6, NamedGrows
  <2> QED BY <1>1, <2>1, <2>2, ReplyStepped
<1>7. CASE FindBot(h)
  <2> PICK d : d = CHOOSE b \in ByProfile(h) : TRUE OBVIOUS
  <2> QED BY <1>2, <1>5, <1>6, <1>7 DEF FindBot
<1>8. CASE MemAddBot(h)
  <2> PICK d : d = CHOOSE b \in ByProfile(h) : TRUE OBVIOUS
  <2> QED BY <1>4, <1>5, <1>8 DEF MemAddBot
<1> QED BY <1>2, <1>4, <1>7, <1>8
        DEF BotCreateEndpoint, BotUpdateEndpoint, MemConfig, MemBefriend, PgAddBot, PgConfig,
            CheckPatch, StorePatch

LEMMA ReplyRests ==
  ASSUME ReplyInv, UNCHANGED <<bots, stage, rq, nextBot>>, DOMAIN db' = DOMAIN EmptyDb,
         db'.contents = db.contents, db'.turns = db.turns
  PROVE  ReplyInv'
BY DEF ReplyInv, EmptyDb, Deleting, Named, Adding

LEMMA ReplyInitial == BotsInit => ReplyInv
<1> SUFFICES ASSUME BotsInit PROVE ReplyInv OBVIOUS
<1>1. PICK u \in Humans :
        db = Write(EmptyDb, [sender |-> u, dest |-> 1, cid |-> NoCid, sent |-> 0, re |-> 0], 1)
  BY DEF BotsInit
<1> PICK m, e : m = [sender |-> u, dest |-> 1, cid |-> NoCid, sent |-> 0, re |-> 0] /\ e = EmptyDb
  OBVIOUS
<1>2. m.re = 0 OBVIOUS
<1>3. DOMAIN e.contents = {} BY DEF EmptyDb
<1>4. DOMAIN db = DOMAIN EmptyDb /\ db.contents = Set(e.contents, 1, m) BY <1>1, Written
<1>5. \A i \in DOMAIN db.contents : db.contents[i].re = 0 BY <1>2, <1>3, <1>4 DEF Set
<1>6. \A h \in Handlers : stage[h] = "idle" BY DEF BotsInit
<1> QED BY <1>4, <1>5, <1>6 DEF ReplyInv, Deleting

LEMMA ReplyPreserved == DirectoryInv /\ ReplyInv /\ [BotsNext]_botVars => ReplyInv'
<1> SUFFICES ASSUME DirectoryInv, ReplyInv, [BotsNext]_botVars PROVE ReplyInv' OBVIOUS
<1>0. DOMAIN db = DOMAIN EmptyDb BY DEF ReplyInv
<1>1. ASSUME NEW h \in Handlers, Step(h) PROVE ReplyInv'
  BY <1>1, ReplyInsert, ReplyAnswers, ReplyPurge, ReplyRemove, ReplySettings DEF Step, BotDeleteEndpoint
<1>2. ASSUME UNCHANGED <<bots, db>> PROVE TablesOk BY <1>0, <1>2, SameTables
<1>3. ASSUME NEW h \in Handlers, FailRequest(h) PROVE ReplyInv'
  <2>1. Done(h) /\ UNCHANGED <<bots, db, nextBot>> BY <1>3 DEF FailRequest
  <2> QED BY <1>2, <2>1, ReplyDone
<1>4. ASSUME NEW h \in Handlers, ExpireCache(h) PROVE ReplyInv'
  <2>1. UNCHANGED <<bots, stage, rq, nextBot, db>> BY <1>4 DEF ExpireCache
  <2> QED BY <1>0, <2>1, ReplyRests
<1> PICK d : d = db OBVIOUS
<1>5. ASSUME NEW x, NEW y, NEW z, UNCHANGED <<bots, stage, rq, nextBot>>,
             db' \in {MarkRead(d, x, y, z), Backfill(d, x), Ack(d, x, y), GcExpired(d, x)}
      PROVE  ReplyInv'
  <2>1. DOMAIN db' = DOMAIN EmptyDb /\ db'.contents = d.contents /\ db'.turns = d.turns
    BY <1>0, <1>5, StoreQuiet
  <2> QED BY <1>5, <2>1, ReplyRests
<1>6. ASSUME NEW u, NEW v, NEW i, DoConversationRead(u, v, i) PROVE ReplyInv'
  BY <1>5, <1>6 DEF DoConversationRead
<1>7. ASSUME NEW k, DoDelivery(k) PROVE ReplyInv'
  <2>1. UNCHANGED <<bots, stage, rq, nextBot>> BY <1>7 DEF DoDelivery
  <2>2. CASE db' = Backfill(d, k) BY <1>5, <2>1, <2>2
  <2>3. CASE db' = Ack(d, k, OfflineIndex(d, k).rows)
    <3> PICK y : y = OfflineIndex(d, k).rows OBVIOUS
    <3> QED BY <1>5, <2>1, <2>3
  <2>4. ASSUME NEW p \in db.pending, db' = GcExpired(d, {p}) PROVE ReplyInv'
    BY <1>5, <2>1, <2>4
  <2> QED BY <1>7, <2>2, <2>3, <2>4 DEF DoDelivery
<1>8. CASE UNCHANGED botVars BY <1>0, <1>8, ReplyRests DEF botVars
<1> QED BY <1>1, <1>3, <1>4, <1>6, <1>7, <1>8, ReplyRequest DEF BotsNext

LEMMA TurnsOnce == ReplyInv => OneReply
<1> SUFFICES ASSUME ReplyInv, NEW i \in DOMAIN db.contents, NEW j \in DOMAIN db.contents,
                    db.contents[i].re # 0, db.contents[i].re = db.contents[j].re,
                    db.contents[i].sender = db.contents[j].sender,
                    db.contents[i].sender \in DOMAIN bots
             PROVE  i = j
  BY DEF OneReply
<1> PICK turn : turn = <<db.contents[i].sender, db.contents[i].re>> OBVIOUS
<1>1. db.turns[turn] = i BY DEF ReplyInv
<1>2. turn = <<db.contents[j].sender, db.contents[j].re>> OBVIOUS
<1>3. db.turns[turn] = j BY <1>2 DEF ReplyInv
<1> QED BY <1>1, <1>3

(* A bot that exists answers a message of its owner at most once,          *)
(* whichever devices answer, retry or overlap, and whatever was deleted    *)
(* and created meanwhile: insert_bot_reply claims the turn with the reply, *)
(* and the turns of a bot go only with the bot.                            *)
THEOREM BotReplySafety == BotsSpec => []OneReply
<1>1. BotsInit => DirectoryInv /\ ReplyInv BY BotsInitial, ReplyInitial
<1>2. (DirectoryInv /\ ReplyInv) /\ [BotsNext]_botVars => (DirectoryInv /\ ReplyInv)'
  BY BotsPreserved, ReplyPreserved
<1> QED BY <1>1, <1>2, TurnsOnce, PTL DEF BotsSpec

(* create_bot makes one bot for a profile of an owner, and in Postgres no  *)
(* friendship is left behind by delete_bot, although both work on accounts *)
(* another request may remove or enter between two of their steps.         *)
THEOREM BotAccountSafety == BotsSpec => [](OneBotPerProfile /\ NoGhostFriend)
<1>1. DirectoryInv => OneBotPerProfile /\ NoGhostFriend
  BY DEF DirectoryInv, OwnersInv, NoGhostFriend
<1> QED BY <1>1, BotsInitial, BotsPreserved, PTL DEF BotsSpec
=============================================================================
