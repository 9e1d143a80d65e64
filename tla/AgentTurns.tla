---------------------------- MODULE AgentTurns ----------------------------
(***************************************************************************)
(* The desktop agent: MobileAgent (kim-sdk/src/agent/mod.rs) admits the    *)
(* questions sent to a bot into a queue per bot, a worker per bot runs     *)
(* them one at a time through drive_host (kim-desktop-runtime/src/drive.rs)*)
(* on a host of AgentHost, and the answer goes to the outbox.              *)
(*                                                                         *)
(* A question reaches enqueue_turn from several places, each of which may  *)
(* repeat it: the live push (replayed until admitted), the outbox pump and *)
(* catch_up. A call reads the epoch and is later admitted under the queue  *)
(* lock. The AgentTurn states for the screen and the busy indicator on the *)
(* wire are outputs nobody reads back and are left out; the task that      *)
(* repeats the indicator is not. AgentRuntime is a trait: another runtime  *)
(* than the desktop's may report a hard timeout of a turn that was active  *)
(* until then, which the worker queues a second time; drive_host never     *)
(* does.                                                                   *)
(***************************************************************************)
EXTENDS AgentHost

CONSTANTS
    Bots,               \* destinations with a profile
    Questions,          \* message ids; 0 or less is no id (in_reply_to)
    Sources,            \* who calls enqueue_turn
    QUEUE_CAP,          \* queue::QUEUE_CAP
    RECENT_TURN_CAP,    \* RECENT_TURN_CAP
    MAX_YIELDS,         \* MAX_YIELDS of drive.rs
    MAX_EPOCH           \* bound: session switches

ASSUME TurnBounds ==
    /\ QUEUE_CAP \in Nat \ {0} /\ MAX_YIELDS \in Nat /\ MAX_EPOCH \in Nat
    /\ Questions \subseteq Int
    /\ RECENT_TURN_CAP \in Nat \ {0}

VARIABLES
    epoch,      \* the session epoch of the SDK
    calls,      \* enqueue_turn calls under way: [src, bot, epoch]
    queue,      \* queue[b]: admitted turns not yet taken
    admitted,   \* admitted[b]: recent (epoch, question) keys
    worker,     \* worker[b]: where the worker is, its turn and its result
    host,       \* host[b]: the host of the running turn
    yields,     \* yields[b]: yields of the running turn
    beat,       \* beat[b]: the heartbeat task: "off", "tick" or "sending"
    taken       \* taken[b]: the last ids admitted in this epoch (history)

vars == <<epoch, calls, queue, admitted, worker, host, yields, beat,
          taken>>
turnVars == <<worker, host, yields, beat>>

(* A turn: its text and id only go to the runtime and into the reply, where*)
(* no step here reads them, and are left out. runs counts how often the    *)
(* worker started it (history).                                            *)
NoTurn == [epoch |-> 0, retried |-> FALSE, runs |-> 0]
Idle == [at |-> "idle", turn |-> NoTurn, res |-> "none"]
NoHost == BlankHost(CHOOSE p \in Profiles : TRUE)
At(b, pc) == worker[b].at = pc
Goto(b, pc) == worker' = [worker EXCEPT ![b].at = pc]

Init ==
    /\ epoch = 1
    /\ calls = {}
    /\ queue = [b \in Bots |-> <<>>]
    /\ admitted = [b \in Bots |-> <<>>]
    /\ worker = [b \in Bots |-> Idle]
    /\ host = [b \in Bots |-> NoHost]
    /\ yields = [b \in Bots |-> 0]
    /\ beat = [b \in Bots |-> "off"]
    /\ taken = [b \in Bots |-> <<>>]

-----------------------------------------------------------------------------
(* Questions arrive.                                                       *)

(* A source learns of a question and reads the epoch. Which question it is *)
(* matters when the call is admitted, and is chosen there.                 *)
CallEnqueue(src, b) ==
    /\ \A c \in calls : <<c.src, c.bot>> # <<src, b>>
    /\ calls' = calls \cup {[src |-> src, bot |-> b, epoch |-> epoch]}
    /\ UNCHANGED <<epoch, queue, admitted, taken, turnVars>>

Return(c) == calls' = calls \ {c}

(* profile_id_for_dest finds no profile, or the store fails.               *)
Lookups == BOOLEAN

HasId(q) == q > 0

(* enqueue_turn up to the end of the queue lock.                           *)
EnqueueRefused(c, q) ==
    \/ epoch # c.epoch
    \/ HasId(q) /\ <<c.epoch, q>> \in ToSet(admitted[c.bot])
    \/ Len(queue[c.bot]) = QUEUE_CAP

Turn(c) == [epoch |-> c.epoch, retried |-> FALSE, runs |-> 0]

(* A list of at most cap entries forgets its first one.                    *)
PushBack(s, x, cap) == Append(IF Len(s) = cap THEN Tail(s) ELSE s, x)

(* The key of a turn with an id is remembered; taken reaches one admission *)
(* further back than the keys do.                                          *)
Admit(c, q) ==
    IF HasId(q)
    THEN /\ admitted' = [admitted EXCEPT ![c.bot] =
                            PushBack(@, <<c.epoch, q>>, RECENT_TURN_CAP)]
         /\ taken' = [taken EXCEPT ![c.bot] = PushBack(@, q, RECENT_TURN_CAP + 1)]
    ELSE UNCHANGED <<admitted, taken>>

(* Mutant: the key is recorded before the queue accepts the turn.          *)
EnqueueTurnRecordsFirst(c, q) ==
    /\ c \in calls
    /\ IF Len(queue[c.bot]) = QUEUE_CAP /\ epoch = c.epoch /\ HasId(q)
       THEN /\ admitted' = [admitted EXCEPT ![c.bot] =
                               PushBack(@, <<c.epoch, q>>, RECENT_TURN_CAP)]
            /\ UNCHANGED <<queue, taken>>
       ELSE IF EnqueueRefused(c, q) THEN UNCHANGED <<queue, admitted, taken>>
       ELSE queue' = [queue EXCEPT ![c.bot] = Append(@, Turn(c))] /\ Admit(c, q)
    /\ Return(c)
    /\ UNCHANGED <<epoch, turnVars>>

EnqueueTurn(c, q) ==
    /\ c \in calls
    /\ \E found \in Lookups :
       IF ~found \/ EnqueueRefused(c, q)
       THEN UNCHANGED <<queue, admitted, taken>>
       ELSE queue' = [queue EXCEPT ![c.bot] = Append(@, Turn(c))] /\ Admit(c, q)
    /\ Return(c)
    /\ UNCHANGED <<epoch, turnVars>>

(* The user signs in to another account.                                   *)
SwitchSession ==
    /\ epoch < MAX_EPOCH
    /\ epoch' = epoch + 1
    /\ taken' = [b \in Bots |-> <<>>]
    /\ UNCHANGED <<calls, queue, admitted, turnVars>>

-----------------------------------------------------------------------------
(* The worker of a bot.                                                    *)

sdkVars == <<epoch, calls, admitted, taken>>

(* A turn of another epoch or without a profile is dropped in silence.     *)
WorkerTake(b) ==
    /\ At(b, "idle") /\ queue[b] # <<>>
    /\ queue' = [queue EXCEPT ![b] = Tail(@)]
    /\ \E found \in Lookups :
          worker' = [worker EXCEPT ![b] =
              IF Head(queue[b]).epoch # epoch \/ ~found THEN Idle
              ELSE [at |-> "announce", res |-> "none",
                    turn |-> [Head(queue[b]) EXCEPT !.runs = @ + 1]]]
    /\ UNCHANGED <<sdkVars, host, yields, beat>>

(* Running is emitted, the indicator lit and the heartbeat task started.   *)
AnnounceRunning(b) ==
    /\ At(b, "announce") /\ Goto(b, "prepare")
    /\ beat' = [beat EXCEPT ![b] = "tick"]
    /\ UNCHANGED <<sdkVars, queue, host, yields>>

(* The result of the turn; the host and its conversation are dropped.       *)
TurnOver(b, res) ==
    /\ worker' = [worker EXCEPT ![b].at = "stop", ![b].res = res]
    /\ host' = [host EXCEPT ![b] = NoHost]
    /\ yields' = [yields EXCEPT ![b] = 0]

(* prepare and the opening of the host, then its prompt; any may fail.     *)
Prepare(b) ==
    /\ At(b, "prepare")
    /\ \/ TurnOver(b, "Error")
       \/ /\ Goto(b, "run")
          /\ yields' = [yields EXCEPT ![b] = 0]
          /\ \E p \in {p \in Profiles : Opens(p)} : \E h \in StartPrompt(BlankHost(p)) :
                host' = [host EXCEPT ![b] = h]
    /\ UNCHANGED <<sdkVars, queue, beat>>

(* run_turn of another runtime; "Again" is the result should_requeue looks *)
(* for, recently active with a hard timeout or poisoned.                   *)
OtherRuntime(b) ==
    /\ At(b, "prepare")
    /\ \E res \in {"Reply", "Done", "Empty", "Error", "Again"} : TurnOver(b, res)
    /\ UNCHANGED <<sdkVars, queue, beat>>

HostRuns(b) == At(b, "run") /\ host[b].run # "out"

HostProgress(b) ==
    /\ HostRuns(b)
    /\ \E h \in HostStep(host[b]) : host' = [host EXCEPT ![b] = h]
    /\ UNCHANGED <<sdkVars, queue, worker, yields, beat>>

HostStopped(b) ==
    /\ HostRuns(b)
    /\ \E h \in HostTimeout(host[b]) : host' = [host EXCEPT ![b] = h]
    /\ UNCHANGED <<sdkVars, queue, worker, yields, beat>>

(* drive_host on an outcome that ends the turn, and after too many yields. *)
Result(o) ==
    IF o.k = "finished" THEN IF o.text THEN "Reply" ELSE "Empty" ELSE "Error"

DriveEnd(b) ==
    /\ At(b, "run") /\ host[b].run = "out" /\ host[b].out.k # "yielded"
    /\ TurnOver(b, Result(host[b].out))
    /\ UNCHANGED <<sdkVars, queue, beat>>

(* A yield: the card is published, or the tool of the app is run.          *)
DriveYield(b) ==
    /\ At(b, "run") /\ host[b].run = "out" /\ host[b].out.k = "yielded"
    /\ IF yields[b] = MAX_YIELDS THEN TurnOver(b, "Error")
       ELSE /\ yields' = [yields EXCEPT ![b] = @ + 1]
            /\ Goto(b, IF host[b].out.ask THEN "asking" ELSE "tool")
            /\ UNCHANGED host
    /\ UNCHANGED <<sdkVars, queue, beat>>

(* The user answers the card. Allowed or not, no tool of the app runs: an  *)
(* allowed call is handed to complete_tool, a denied one ends the turn.    *)
AnswerCard(b, allow) ==
    /\ At(b, "asking")
    /\ IF ~allow THEN TurnOver(b, "Error")
       ELSE /\ Goto(b, "run")
            /\ \E h \in Complete(host[b], host[b].out.call.id) :
                  host' = [host EXCEPT ![b] = h]
            /\ UNCHANGED yields
    /\ UNCHANGED <<sdkVars, queue, beat>>

(* Mutant: the wait for the user has no limit.                             *)
CardTimeoutNever(b) == At(b, "asking") /\ FALSE /\ UNCHANGED vars

(* 120 s without an answer, or a dropped waiter.                           *)
CardTimeout(b) ==
    /\ At(b, "asking")
    /\ TurnOver(b, "Error")
    /\ UNCHANGED <<sdkVars, queue, beat>>

ExecuteImTool(b) ==
    /\ At(b, "tool")
    /\ \E h \in Complete([host[b] EXCEPT !.ran = @ \cup {host[b].out.call.id}],
                         host[b].out.call.id) :
          host' = [host EXCEPT ![b] = h]
    /\ Goto(b, "run")
    /\ UNCHANGED <<sdkVars, queue, yields, beat>>

-----------------------------------------------------------------------------
(* The heartbeat and the end of a turn.                                    *)

Heartbeat(b) ==
    /\ beat[b] = "tick"
    /\ beat' = [beat EXCEPT ![b] = "sending"]
    /\ UNCHANGED <<sdkVars, queue, worker, host, yields>>

HeartbeatSent(b) ==
    /\ beat[b] = "sending"
    /\ beat' = [beat EXCEPT ![b] = "tick"]
    /\ UNCHANGED <<sdkVars, queue, worker, host, yields>>

ShouldRequeue(w) == w.res = "Again" /\ ~w.turn.retried

(* The stop is seen between two ticks (select! may prefer a tick that is   *)
(* due, though not forever); the worker waits for the task.                *)
StopHeartbeat(b) ==
    /\ At(b, "stop") /\ beat[b] = "tick"
    /\ beat' = [beat EXCEPT ![b] = "off"]
    /\ Goto(b, IF ShouldRequeue(worker[b]) THEN "requeue"
               ELSE IF worker[b].res = "Reply" THEN "reply" ELSE "settle")
    /\ UNCHANGED <<sdkVars, queue, host, yields>>

(* The same turn goes behind the others, past the keys, or is given up     *)
(* when the queue is full.                                                 *)
Requeue(b) ==
    /\ At(b, "requeue")
    /\ IF Len(queue[b]) = QUEUE_CAP THEN Goto(b, "settle") /\ UNCHANGED queue
       ELSE /\ queue' = [queue EXCEPT ![b] =
                            Append(@, [worker[b].turn EXCEPT !.retried = TRUE])]
            /\ worker' = [worker EXCEPT ![b] = Idle]
    /\ UNCHANGED <<sdkVars, host, yields, beat>>

(* enqueue_bot_reply, under the session of now, or its failure; the row is *)
(* a row of module Outbox.                                                 *)
EnqueueBotReply(b) ==
    /\ At(b, "reply")
    /\ \E res \in {"Done", "Error"} :
          worker' = [worker EXCEPT ![b].at = "settle", ![b].res = res]
    /\ UNCHANGED <<sdkVars, queue, host, yields, beat>>

(* The indicator goes off, the result is emitted.                          *)
Settle(b) ==
    /\ At(b, "settle")
    /\ worker' = [worker EXCEPT ![b] = Idle]
    /\ UNCHANGED <<sdkVars, queue, host, yields, beat>>

WorkerStep(b) ==
    \/ WorkerTake(b) \/ AnnounceRunning(b) \/ Prepare(b)
    \/ DriveEnd(b) \/ DriveYield(b) \/ ExecuteImTool(b)
    \/ StopHeartbeat(b) \/ Requeue(b) \/ EnqueueBotReply(b) \/ Settle(b)

Next ==
    \/ \E src \in Sources, b \in Bots : CallEnqueue(src, b)
    \/ \E c \in calls, q \in Questions : EnqueueTurn(c, q)
    \/ SwitchSession
    \/ \E b \in Bots :
          \/ WorkerStep(b)
          \/ OtherRuntime(b) \/ HostProgress(b) \/ HostStopped(b)
          \/ CardTimeout(b) \/ Heartbeat(b) \/ HeartbeatSent(b)
          \/ \E allow \in BOOLEAN : AnswerCard(b, allow)

(* Every task of the worker runs on: its own steps, the requests of the    *)
(* heartbeat (each with a timeout of the link), the deadlines of the       *)
(* harness (IdleClock and HardDeadline are timers) and the 120 s of a card.*)
(* The machine and the provider owe nothing, and neither does the user.    *)
Fairness ==
    \A b \in Bots : /\ WF_vars(WorkerStep(b))
                    /\ WF_vars(HostStopped(b))
                    /\ WF_vars(CardTimeout(b))
                    /\ WF_vars(HeartbeatSent(b))
                    /\ SF_vars(StopHeartbeat(b))

Spec == Init /\ [][Next]_vars /\ Fairness

-----------------------------------------------------------------------------
(* Properties.                                                             *)

NameOf(h, id) ==
    IF h.profile.codex THEN h.out.call.name
    ELSE (CHOOSE c \in ToSet(MadeCalls(h.conv)) : c.id = id).name

(* The call came with the last assistant message max_turns allows: then    *)
(* MaxTurnsOp, which runs before PermissionOp, ends the machine and the    *)
(* call is handed to the app without having been judged.                   *)
AtTurnLimit(h, id) ==
    \E i \in DOMAIN h.conv :
        /\ h.conv[i].kind = "request" /\ id \in CallIds(h.conv[i].calls)
        /\ AssistantTurnCount(SubSeq(h.conv, 1, i)) >= MAX_TURNS

(* A tool runs, in the machine or in the app, only when the profile allows *)
(* it without asking (or at the turn limit, see above): the cards of       *)
(* PermissionOp come before the tools of the app in session_pending, one   *)
(* waiting call holds back the calls made with it, and a NeverAllow call   *)
(* is answered instead of run.                                             *)
NoUnapprovedRun ==
    \A b \in Bots : LET h == host[b] IN
        ~h.profile.codex =>
            \A id \in h.ran : \/ h.profile.policy[NameOf(h, id)] = "AlwaysAllow"
                              \/ AtTurnLimit(h, id)

(* The same without the exception, which the code does not keep.           *)
NoUnapprovedRunAtAll ==
    \A b \in Bots : LET h == host[b] IN
        ~h.profile.codex =>
            \A id \in h.ran : h.profile.policy[NameOf(h, id)] = "AlwaysAllow"

(* A turn that finishes leaves no call unanswered (but at the turn limit): *)
(* every name the machine stops for is a name a yield is looked up by,     *)
(* although one set comes from the parts and the other from the projected  *)
(* tool set.                                                               *)
NoCallForgotten ==
    \A b \in Bots : LET h == host[b] IN
        (h.run = "out" /\ h.out.k = "finished") =>
            \A c \in ToSet(UnansweredToolRequests(h.conv)) : AtTurnLimit(h, c.id)

(* Whenever the machine would call the provider, every tool request of the *)
(* conversation has exactly one response: the operations before inference  *)
(* answer, hand out or refuse all of them, and nothing answers twice.      *)
PairedAtInference ==
    \A b \in Bots : LET h == host[b] IN
        (HostRuns(b) /\ h.run = "machine" /\ Infers(h)) =>
            \A c \in ToSet(MadeCalls(h.conv)) :
                Cardinality({i \in DOMAIN h.conv :
                    h.conv[i].kind = "response" /\ c.id \in h.conv[i].ids}) = 1

(* However often a turn yields and recovers, its machine never runs longer *)
(* than one hard budget: complete_tool continues the budget of the prompt  *)
(* and recover never refills it.                                           *)
HardBudget == \A b \in Bots : host[b].spent <= HARD

(* Of RECENT_TURN_CAP + 1 turns admitted in a row in a session no two are  *)
(* for one id, whoever repeats it, and an id that is remembered was        *)
(* admitted: a full queue stays retryable (agent/mod.rs, enqueue_turn).    *)
OneTurnPerQuestion ==
    \A b \in Bots :
        /\ IsInjective(taken[b])
        /\ \A q \in Questions :
              <<epoch, q>> \in ToSet(admitted[b]) => q \in ToSet(taken[b])

(* An admitted turn is run twice at most: the keys do not see the turn the *)
(* worker queues again, and retried goes with it (should_requeue).         *)
RunAtMostTwice ==
    \A b \in Bots : /\ worker[b].turn.runs <= 2
                    /\ \A i \in DOMAIN queue[b] : queue[b][i].runs <= 1

(* No tick of the heartbeat is under way once the worker turns the         *)
(* indicator off, so the heartbeat cannot light it after the reply.        *)
NoLateHeartbeat ==
    \A b \in Bots :
        worker[b].at \in {"idle", "announce", "requeue", "reply", "settle"} =>
            beat[b] = "off"

(* Every turn the worker starts ends, whatever the provider, the tools and *)
(* the user do: recovery budgets, MAX_YIELDS, deadlines and the wait of a  *)
(* card bound it, so the questions behind it are reached.                  *)
TurnEnds == \A b \in Bots : At(b, "announce") ~> At(b, "idle")

(* What a turn may do with the calls the model makes: run none unapproved, *)
(* forget none, answer each once, and spend one budget on them             *)
(* (session_pending, complete_tool, recover).                              *)
ToolsControlled == NoUnapprovedRun /\ NoCallForgotten /\ PairedAtInference /\ HardBudget

(* One turn for a question within the memory of the queue, two runs of a   *)
(* turn at most, and no sign of life after it (enqueue_turn,               *)
(* should_requeue, stop_hb).                                               *)
QuestionsOnce == OneTurnPerQuestion /\ RunAtMostTwice /\ NoLateHeartbeat
============================================================================
