---------------------------- MODULE AgentHost ----------------------------
(***************************************************************************)
(* The agent host of kim-agent-host: one prompt run by the goose state     *)
(* machine under the supervision of harness/mod.rs, or by an embedded      *)
(* Codex thread (codex_drive.rs).                                          *)
(*                                                                         *)
(* The desktop opens a fresh host for every turn (drive.rs), so a host is  *)
(* a record and every operation a function of it, or, where the provider   *)
(* or the clock decides, the set of the records it may leave behind.       *)
(*   conv     the conversation, a sequence of messages                     *)
(*   run      "machine" while the machine task runs, "join" when it ended, *)
(*            "pump" while the Codex pump waits, "out" with an outcome     *)
(*   out      the outcome of the last prompt or complete_tool              *)
(*   hard     what is left of the hard budget; spent is the machine time   *)
(*            of the turn so far (a history variable)                      *)
(*   compact, token, rate, fail    recovery budgets and the probe          *)
(*   pending  the call a Codex thread waits for                            *)
(*   ran      the calls that were executed (a history variable)            *)
(***************************************************************************)
EXTENDS AgentProfile

CONSTANTS
    MAX_TURNS,      \* profile.max_turns
    MAX_CALLS,      \* bound: tool calls the provider makes in one turn
    MAX_FAULTS,     \* bound: errors and cut texts of the provider in one turn
    HARD,           \* HarnessLimits.hard, in units of the clock
    MAX_RECOVERIES  \* HarnessLimits.max_*_recoveries

ASSUME HostBounds ==
    /\ {MAX_TURNS, MAX_CALLS, MAX_FAULTS, HARD, MAX_RECOVERIES} \subseteq Nat
    /\ \A p \in Profiles : p.batches \subseteq Seq(STRING)

-----------------------------------------------------------------------------
(* Messages.                                                               *)

Prompt == [kind |-> "prompt"]
HiddenText == [kind |-> "hidden"]
AssistantText(cut) == [kind |-> "text", cut |-> cut]
Placeholder == [kind |-> "blank"]
ToolRequests(calls) == [kind |-> "request", calls |-> calls]
Confirmations(calls) == [kind |-> "ask", calls |-> calls]
ToolResponses(ids, big) == [kind |-> "response", ids |-> ids, big |-> big]
Cancellation(ids) == [kind |-> "response", ids |-> ids, big |-> FALSE]
ProviderError(err) == [kind |-> "error", err |-> err]

CallIds(calls) == {c.id : c \in ToSet(calls)}
OfKind(conv, k) == SelectSeq(conv, LAMBDA m : m.kind = k)
CallsOf(conv, k) == FlattenSeq([i \in DOMAIN OfKind(conv, k) |-> OfKind(conv, k)[i].calls])
MadeCalls(conv) == CallsOf(conv, "request")

(* One prompt per host: the turn since the kickoff is the conversation.    *)
MessagesSinceKickoff(conv) == conv
AssistantTurnCount(conv) ==
    Len(SelectSeq(conv, LAMBDA m : m.kind \in {"text", "blank", "request", "ask"}))

Answered(conv) == UNION {m.ids : m \in ToSet(OfKind(conv, "response"))}

UnansweredToolRequests(conv) ==
    SelectSeq(MadeCalls(MessagesSinceKickoff(conv)),
              LAMBDA c : c.id \notin Answered(conv))

(* A card is answered by repair_conversation only, with the tool response: *)
(* no caller of the desktop sends a ToolConfirmationResponse.              *)
UnansweredConfirmations(conv) ==
    SelectSeq(CallsOf(conv, "ask"), LAMBDA c : c.id \notin Answered(conv))

Asked(conv) == CallIds(CallsOf(conv, "ask"))

KimPending(conv, p) ==
    SelectSeq(UnansweredToolRequests(conv), LAMBDA c : c.name \in p.kim)

(* Mutant: tools before cards.                                             *)
SessionPendingToolsFirst(conv, p) ==
    LET tools == KimPending(conv, p)
    IN IF tools # <<>> THEN [ask |-> FALSE, calls |-> tools]
       ELSE [ask |-> TRUE, calls |-> UnansweredConfirmations(conv)]

(* Cards before tools: a tool that waits for the user is not offered.      *)
SessionPending(conv, p) ==
    LET cards == UnansweredConfirmations(conv)
    IN IF cards # <<>> THEN [ask |-> TRUE, calls |-> cards]
       ELSE [ask |-> FALSE, calls |-> KimPending(conv, p)]

-----------------------------------------------------------------------------
(* Outcomes and the supervised run.                                        *)

Finished(text) == [k |-> "finished", text |-> text]
Yielded(ask, call) == [k |-> "yielded", ask |-> ask, call |-> call]
TimedOut == [k |-> "timed_out"]
Cancelled == [k |-> "cancelled"]
HostFailed == [k |-> "error"]

Out(h, o) == [h EXCEPT !.run = "out", !.out = o]
Push(h, m) == [h EXCEPT !.conv = Append(@, m)]

BlankHost(p) ==
    [profile |-> Assembled[p], conv |-> <<>>, run |-> "new", out |-> HostFailed,
     hard |-> HARD, spent |-> 0, compact |-> 0, token |-> 0, rate |-> 0,
     fail |-> FALSE, live |-> FALSE, pending |-> <<>>, made |-> 0, faults |-> 0, ran |-> {}]

ResetHardBudget(h) == [h EXCEPT !.hard = HARD]
ChargeHardBudget(h, elapsed) ==
    [h EXCEPT !.hard = IF elapsed > @ THEN 0 ELSE @ - elapsed]

(* run_supervised up to its loop: fresh recovery budgets and a machine.     *)
RunLoop(h) ==
    [h EXCEPT !.run = "machine", !.fail = FALSE, !.compact = MAX_RECOVERIES,
              !.token = MAX_RECOVERIES, !.rate = MAX_RECOVERIES]

PromptWithContext(h) == RunLoop(Push(ResetHardBudget(h), Prompt))

(* complete_tool: refused while a card is open and for any call but a      *)
(* pending tool of the app; the next pending tool is handed out without    *)
(* running the machine.                                                    *)
CompleteTool(h, id, big) ==
    IF \/ UnansweredConfirmations(h.conv) # <<>>
       \/ id \notin CallIds(KimPending(h.conv, h.profile))
    THEN Out(h, HostFailed)
    ELSE LET next == Push(h, ToolResponses({id}, big))
             pend == SessionPending(next.conv, h.profile).calls
         IN IF pend # <<>> THEN Out(next, Yielded(FALSE, Head(pend)))
            ELSE RunLoop(next)

(* repair_conversation: every open call and card is answered "cancelled".  *)
RepairPairing(h) ==
    LET open == CallIds(UnansweredToolRequests(h.conv))
                    \cup CallIds(UnansweredConfirmations(h.conv))
    IN IF open = {} THEN h ELSE Push(h, Cancellation(open))

-----------------------------------------------------------------------------
(* The operations of the machine, in the order of assemble_tracked. Each is *)
(* the set of hosts it may leave; {} is not_applicable.                     *)

Ended(h) == [h EXCEPT !.run = "join"]

(* Every profile profile.rs builds sets max_turns; the machine of a profile *)
(* without one has no such operation.                                      *)
MaxTurnsOp(h) ==
    IF AssistantTurnCount(MessagesSinceKickoff(h.conv)) < MAX_TURNS THEN {}
    ELSE {Ended(Push(h, AssistantText(FALSE)))}

(* PermissionOp: denied calls are answered, calls to ask about get a card  *)
(* (once) and stop the machine, the others pass.                           *)
PermissionOp(h) ==
    LET open == UnansweredToolRequests(h.conv)
        Of(policy) == SelectSeq(open, LAMBDA c : h.profile.policy[c.name] = policy)
        denied == CallIds(Of("NeverAllow"))
        ask == Of("AskBefore")
        cards == SelectSeq(ask, LAMBDA c : c.id \notin Asked(h.conv))
        refused == IF denied = {} THEN h ELSE Push(h, ToolResponses(denied, FALSE))
        carded == IF cards = <<>> THEN refused ELSE Push(refused, Confirmations(cards))
    IN IF ask # <<>> THEN {Ended(carded)}
       ELSE IF denied # {} THEN {refused} ELSE {}

DeferredKimToolOp(h) ==
    IF \E c \in ToSet(UnansweredToolRequests(h.conv)) : c.name \in h.profile.deferred
    THEN {Ended(h)} ELSE {}

(* The machine runs its own tools and answers them together.               *)
ToolOperation(h) ==
    LET mine == CallIds(SelectSeq(UnansweredToolRequests(h.conv),
                                  LAMBDA c : c.name \in h.profile.own))
    IN IF mine = {} THEN {}
       ELSE {[Push(h, ToolResponses(mine, big)) EXCEPT !.ran = @ \cup mine] :
                 big \in BOOLEAN}

(* activate_skill: every such call is answered; a skill of the catalog that *)
(* this machine has not shown yet is added as a hidden message.            *)
SkillOp(h) ==
    LET asked == CallIds(SelectSeq(UnansweredToolRequests(h.conv),
                                   LAMBDA c : c.name = "activate_skill"))
        told == Push(h, ToolResponses(asked, FALSE))
    IN IF asked = {} \/ h.profile.skills = {} THEN {} ELSE {told, Push(told, HiddenText)}

UnknownToolOp(h) ==
    LET open == CallIds(UnansweredToolRequests(h.conv))
    IN IF open = {} THEN {} ELSE {Push(h, ToolResponses(open, FALSE))}

(* A profile without tools: every call is refused.                         *)
ChatGuardOp(h) == UnknownToolOp(h)

(* What the provider may answer: text, cut or whole, nothing, calls, or an *)
(* error; a rate limit is remembered by the probe.                         *)
Numbered(h, names) ==
    [i \in DOMAIN names |-> [id |-> h.made + i, name |-> names[i]]]

InferenceRunner(h) ==
    LET faulty == [h EXCEPT !.faults = @ + 1]
    IN {Ended(Push(h, AssistantText(FALSE))), Ended(Push(h, Placeholder))}
        \cup {[Push(h, ToolRequests(Numbered(h, b))) EXCEPT !.made = @ + Len(b)] :
                  b \in {b \in h.profile.batches : h.made + Len(b) <= MAX_CALLS}}
        \cup (IF h.faults = MAX_FAULTS THEN {}
              ELSE {Ended(Push(faulty, AssistantText(TRUE))),
                    Ended(Push(faulty, ProviderError("context"))),
                    Ended(Push(faulty, ProviderError("other"))),
                    [Ended(Push(faulty, ProviderError("other"))) EXCEPT !.fail = TRUE]})

(* The first operation that applies; inference when none does.             *)
Operations(h) ==
    <<MaxTurnsOp(h)>>
        \o (IF h.profile.chat THEN <<ChatGuardOp(h)>>
            ELSE <<PermissionOp(h), DeferredKimToolOp(h), ToolOperation(h),
                   SkillOp(h), UnknownToolOp(h)>>)

Applicable(h) == SelectSeq(Operations(h), LAMBDA s : s # {})
Infers(h) == Applicable(h) = <<>>
MachineStep(h) ==
    LET ops == Applicable(h) IN IF ops = <<>> THEN InferenceRunner(h) ELSE Head(ops)

-----------------------------------------------------------------------------
(* How a machine run ends.                                                 *)

TrailingError(conv) ==
    IF conv # <<>> /\ Last(conv).kind = "error" THEN Last(conv).err ELSE "none"
StripTrailingError(h) ==
    IF TrailingError(h.conv) = "none" THEN h ELSE [h EXCEPT !.conv = Front(@)]
StripEmptyPlaceholder(h) ==
    IF Last(h.conv).kind = "blank" THEN [h EXCEPT !.conv = Front(@)] ELSE h
OutputLimitReached(conv) == \E m \in ToSet(OfKind(conv, "text")) : m.cut
ClearOutputLimitFlags(conv) ==
    [i \in DOMAIN conv |->
        IF conv[i].kind = "text" THEN AssistantText(FALSE) ELSE conv[i]]
VisibleAssistantText(conv) == Last(conv).kind = "text"

(* force: nothing precedes the turn, so only its large results can shrink. *)
Shrinkable(conv) == \E m \in ToSet(OfKind(conv, "response")) : m.big
ShrinkCurrentTurn(conv) ==
    [i \in DOMAIN conv |->
        IF conv[i].kind = "response" THEN [conv[i] EXCEPT !.big = FALSE] ELSE conv[i]]

ForceCompact(h) ==
    LET s == StripTrailingError(h)
    IN IF Shrinkable(s.conv)
       THEN [s EXCEPT !.conv = ShrinkCurrentTurn(@), !.run = "machine", !.fail = FALSE]
       ELSE Out(h, HostFailed)

RecoverContext(h) ==
    IF h.compact = 0 THEN Out(h, HostFailed)
    ELSE ForceCompact([h EXCEPT !.compact = @ - 1])

RecoverTruncated(h) ==
    IF h.token = 0 THEN Out(h, HostFailed)
    ELSE Push([h EXCEPT !.token = @ - 1, !.run = "machine",
                        !.conv = ClearOutputLimitFlags(@)], HiddenText)

(* The wait is charged to the hard budget; StripImages has no image to strip. *)
RecoverRateLimit(h, wait) ==
    IF h.rate = 0 THEN Out(h, HostFailed)
    ELSE [StripTrailingError(ChargeHardBudget(h, wait)) EXCEPT
              !.rate = @ - 1, !.run = "machine", !.fail = FALSE]

(* classify_from_conversation and the branch run_supervised takes on it;   *)
(* take_fail empties the probe.                                            *)
Classify(h0, wait) ==
    LET h == [h0 EXCEPT !.fail = FALSE]
        pend == SessionPending(h.conv, h.profile)
        err == TrailingError(h.conv)
    IN CASE pend.calls # <<>> -> Out(h, Yielded(pend.ask, Head(pend.calls)))
         [] pend.calls = <<>> /\ err = "context" -> RecoverContext(h)
         [] pend.calls = <<>> /\ err = "other" ->
              IF h0.fail THEN RecoverRateLimit(h, wait) ELSE Out(h, HostFailed)
         [] pend.calls = <<>> /\ err = "none" ->
              IF OutputLimitReached(h.conv) THEN RecoverTruncated(h)
              ELSE IF h0.fail THEN RecoverRateLimit(h, wait)
              ELSE Out(StripEmptyPlaceholder(h), Finished(VisibleAssistantText(h.conv)))

(* The select is biased: a run that ends when the hard budget is used up   *)
(* loses to the hard deadline.                                             *)
Elapses(h) == {e \in {0, 1} : e < h.hard}
Spend(h, e) == [ChargeHardBudget(h, e) EXCEPT !.spent = @ + e]

JoinRun(h) ==
    {Classify(Spend(h, e), w) : e \in Elapses(h), w \in IF h.fail THEN {0, 1} ELSE {0}}

(* Supervised::Stop: the machine obeys within the grace, or is aborted and *)
(* the host is poisoned; a poisoned host is neither charged nor repaired.  *)
StopRun(h, e) ==
    {Out(RepairPairing(Spend(h, e)), TimedOut),
     Out([h EXCEPT !.spent = @ + e], HostFailed)}

IdleTimeout(h) == UNION {StopRun(h, e) : e \in Elapses(h)}
HardTimeout(h) == StopRun(h, h.hard)

(* A panic of the machine task.                                            *)
PoisonRun(h) == {Out([h EXCEPT !.spent = @ + e], HostFailed) : e \in Elapses(h)}

-----------------------------------------------------------------------------
(* The Codex thread.                                                       *)

(* use_codex, then codex_prompt on a fresh slot: the thread may not start  *)
(* in time; a started turn is pumped under the hard deadline of the prompt.*)
CodexPrompt(h) ==
    {Out(h, HostFailed)}
        \cup (IF ~h.profile.injects THEN {}
              ELSE {[ResetHardBudget(h) EXCEPT !.run = "pump", !.live = TRUE]})

YieldView(pend) == Yielded(pend.k # "Execute", [id |-> pend.id, name |-> pend.name])
Await(h, k, n) ==
    LET pend == [k |-> k, id |-> h.made + 1, name |-> n]
    IN Out([h EXCEPT !.made = @ + 1, !.pending = <<pend>>], YieldView(pend))

PumpEvents(h) ==
    (IF h.made = MAX_CALLS THEN {}
     ELSE {Await(h, IF n \in h.profile.confirms THEN "Confirm" ELSE "Execute", n) :
               n \in h.profile.dynamic}
            \cup {Await(h, k, k) : k \in h.profile.shell})
        \cup {Out(h, Finished(replied)) : replied \in BOOLEAN}
        \cup {Out(h, Cancelled), Out(h, HostFailed)}

(* An event of the pump takes time; deadlines end the turn, and only the   *)
(* hard one interrupts the thread.                                         *)
PumpElapses(h) == {e \in {0, 1} : e <= h.hard}
Pump(h) == UNION {PumpEvents(Spend(h, e)) : e \in PumpElapses(h)}
PumpTimeout(h) ==
    {Out(Spend(h, e), TimedOut) : e \in PumpElapses(h)}
        \cup {Out([Spend(h, h.hard) EXCEPT !.live = FALSE], TimedOut)}

(* Only an Execute of that id is completed; the hard deadline stays.       *)
CodexCompleteTool(h, id) ==
    IF h.pending = <<>> \/ Head(h.pending).k # "Execute" \/ Head(h.pending).id # id
    THEN {Out(h, HostFailed)}
    ELSE {[h EXCEPT !.pending = <<>>, !.run = "pump"], Out([h EXCEPT !.pending = <<>>], HostFailed)}

StartPrompt(h) == IF h.profile.codex THEN CodexPrompt(h) ELSE {PromptWithContext(h)}
Complete(h, id) ==
    IF h.profile.codex THEN CodexCompleteTool(h, id)
    ELSE {CompleteTool(h, id, big) : big \in BOOLEAN}

(* One step of a running host.                                             *)
HostStep(h) ==
    CASE h.run = "machine" -> MachineStep(h)
      [] h.run = "join" -> JoinRun(h)
      [] h.run = "pump" -> Pump(h)

HostTimeout(h) ==
    IF h.run = "pump" THEN PumpTimeout(h)
    ELSE IdleTimeout(h) \cup HardTimeout(h) \cup PoisonRun(h)
============================================================================
