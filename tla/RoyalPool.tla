----------------------------- MODULE RoyalPool ------------------------------
(***************************************************************************)
(* The pool of royal instances in a chat process: a circuit breaker per    *)
(* instance, the choice of an instance, and the attempts of a call.        *)
(*                                                                         *)
(* Time is relative: gate[i] counts the half-open window down, a caller    *)
(* between its load of half_open_at and the compare-exchange is marked     *)
(* when somebody stores the gate meanwhile.  The pool is discovered by     *)
(* naming alone (no ROYAL_URL).  The round-robin counter is shared with    *)
(* every other handler of the process, so a call may get any healthy       *)
(* instance.  The three stores of report_failure are one step.             *)
(***************************************************************************)
EXTENDS SocialStore

CONSTANTS Tasks,         \* handler tasks of the process
          Instances,     \* royal instances
          RETRIES,       \* attempts of a call
          CIRCUIT_FAILS, \* consecutive failures that open a breaker
          HALF_OPEN,     \* length of the half-open window
          MaxFaults      \* bound: crashes, late answers and backend errors

ASSUME PoolAssumption ==
    /\ IsFiniteSet(Tasks) /\ IsFiniteSet(Instances)
    /\ {RETRIES, CIRCUIT_FAILS, HALF_OPEN} \subseteq Nat \ {0} /\ MaxFaults \in Nat

VARIABLES up,        \* instances that run
          clients,   \* the pool
          fails,     \* consecutive failures, counted to CIRCUIT_FAILS
          opened,    \* instances whose breaker is open
          gate,      \* what is left of the half-open window
          calling,   \* the call of each task
          probes,    \* requests let through in the window (history)
          mishaps    \* faults so far

poolVars == <<up, clients, fails, opened, gate, calling, probes, mishaps>>

NoReq == [ep |-> "none", a |-> "none", b |-> "none", g |-> "none"]

(* A call is off, picks, is between load and compare-exchange, is sent, or *)
(* has ended with res.                                                     *)
NoCall == [st |-> "off", req |-> NoReq, att |-> 0, inst |-> "none", lost |-> FALSE,
           res |-> "none", rows |-> {}]

Calling(r) == [NoCall EXCEPT !.st = "pick", !.req = r]

Ended(c, res, rows) ==
    [NoCall EXCEPT !.st = "end", !.req = calling[c].req, !.res = res, !.rows = rows]

(* A request goes out; an instance that is down never gets it. *)
Sends(c, i) ==
    jobs' = IF i \in up THEN jobs \cup {NewJob(c, calling[c].req, i)} ELSE jobs

(* is_open and the clock against half_open_at. *)
Probes == {i \in clients \cap opened : gate[i] = 0}

(***************************************************************************)
(* pick.                                                                   *)
(***************************************************************************)
(* try_probe, up to the load of half_open_at.  Opened instances come first.*)
LoadGate(c, i) ==
    /\ calling[c].st = "pick" /\ i \in Probes
    /\ calling' = [calling EXCEPT ![c].st = "cas", ![c].inst = i]
    /\ UNCHANGED <<storeVars, up, clients, fails, opened, gate, probes, mishaps>>

(* Somebody stored half_open_at of i. *)
GateStored(cs, i) ==
    [d \in Tasks |-> IF cs[d].st = "cas" /\ cs[d].inst = i THEN [cs[d] EXCEPT !.lost = TRUE]
                     ELSE cs[d]]

(* compare_exchange succeeds when nobody stored since the load. *)
CasHolds(c) == ~calling[c].lost

(* try_probe, the compare-exchange: the winner's request is the probe, the *)
(* loser goes on with the other clients.                                   *)
CompareExchange(c) ==
    /\ calling[c].st = "cas"
    /\ LET i == calling[c].inst
           mine == [calling EXCEPT ![c].st = IF CasHolds(c) THEN "sent" ELSE "pick",
                                   ![c].inst = IF CasHolds(c) THEN i ELSE "none",
                                   ![c].lost = FALSE]
       IN IF CasHolds(c)
          THEN /\ calling' = GateStored(mine, i)
               /\ gate' = [gate EXCEPT ![i] = HALF_OPEN]
               /\ probes' = [probes EXCEPT ![i] = @ + 1]
               /\ Sends(c, i)
          ELSE calling' = mine /\ UNCHANGED <<gate, probes, jobs>>
    /\ UNCHANGED <<backend, db, inserts, up, clients, fails, opened, mishaps>>

(* The round robin over healthy instances. *)
PickHealthy(c, i) ==
    /\ calling[c].st = "pick" /\ Probes = {} /\ i \in clients \ opened
    /\ calling' = [calling EXCEPT ![c].st = "sent", ![c].inst = i]
    /\ Sends(c, i)
    /\ UNCHANGED <<backend, db, inserts, up, clients, fails, opened, gate, probes, mishaps>>

(* "no royal available". *)
NoClient(c) ==
    /\ calling[c].st = "pick" /\ Probes = {} /\ clients \subseteq opened
    /\ calling' = [calling EXCEPT ![c] = Ended(c, "error", {})]
    /\ UNCHANGED <<storeVars, up, clients, fails, opened, gate, probes, mishaps>>

(***************************************************************************)
(* send_pb and post_maybe_empty.                                           *)
(***************************************************************************)
ReportSuccess(i) ==
    /\ fails' = [k \in Instances |-> IF k = i THEN 0 ELSE fails[k]]
    /\ opened' = opened \ {i}
    /\ probes' = [k \in Instances |-> IF k = i THEN 0 ELSE probes[k]]
    /\ UNCHANGED gate

(* cs: the calls after this step; the window of an open breaker starts     *)
(* anew.  Nothing is counted for a client that left.                       *)
ReportFailure(i, cs) ==
    IF i \notin clients
    THEN calling' = cs /\ UNCHANGED <<fails, opened, gate, probes>>
    ELSE LET n == IF fails[i] < CIRCUIT_FAILS THEN fails[i] + 1 ELSE fails[i]
             open == n = CIRCUIT_FAILS
         IN /\ fails' = [fails EXCEPT ![i] = n]
            /\ opened' = IF open THEN opened \cup {i} ELSE opened
            /\ gate' = IF open THEN [gate EXCEPT ![i] = HALF_OPEN] ELSE gate
            /\ calling' = IF open THEN GateStored(cs, i) ELSE cs
            /\ UNCHANGED probes

(* The next attempt, or the last error; a 503 is not tried again. *)
Retry(c, again) ==
    IF again /\ calling[c].att + 1 < RETRIES
    THEN [calling EXCEPT ![c].st = "pick", ![c].att = @ + 1, ![c].inst = "none"]
    ELSE [calling EXCEPT ![c] = Ended(c, "error", {})]

(* An answer: 2xx and 4xx end the call and close the breaker; 500 and 503  *)
(* count against the instance.                                             *)
Receive(c, j) ==
    /\ calling[c].st = "sent" /\ j \in jobs /\ j.by = c /\ j.live /\ j.pc = "done"
    /\ jobs' = jobs \ {j}
    /\ IF j.res \in {"error", "unavailable"}
       THEN ReportFailure(calling[c].inst, Retry(c, j.res = "error"))
       ELSE /\ ReportSuccess(calling[c].inst)
            /\ calling' = [calling EXCEPT ![c] = Ended(c, j.res, j.rows)]
    /\ UNCHANGED <<backend, db, inserts, up, clients, mishaps>>

Waiting(c) == {j \in jobs : j.by = c /\ j.live}

(* The caller no longer waits, as of this fault; a job that only reads is  *)
(* of no interest.                                                         *)
Writes(j) ==
    /\ j.pc # "done"
    /\ j.ep \notin {"friends", "incoming", "blocked", "is_friend", "is_blocked", "detail",
                   "members"}

Orphaned(c) ==
    (jobs \ Waiting(c)) \cup
    {[j EXCEPT !.live = FALSE, !.n = mishaps + 1] : j \in {k \in Waiting(c) : Writes(k)}}

(* No connection, or no answer in time: the job goes on without a caller.  *)
TransportError(c) ==
    /\ calling[c].st = "sent"
    /\ Waiting(c) # {} => mishaps < MaxFaults
    /\ mishaps' = IF Waiting(c) # {} THEN mishaps + 1 ELSE mishaps
    /\ jobs' = Orphaned(c)
    /\ ReportFailure(calling[c].inst, Retry(c, TRUE))
    /\ UNCHANGED <<backend, db, inserts, up, clients>>

(***************************************************************************)
(* Time, refresh and the instances.                                        *)
(***************************************************************************)
WindowPasses ==
    /\ \E i \in Instances : gate[i] > 0
    /\ gate' = [i \in Instances |-> IF gate[i] > 0 THEN gate[i] - 1 ELSE 0]
    /\ probes' = [i \in Instances |-> IF gate[i] <= 1 THEN 0 ELSE probes[i]]
    /\ UNCHANGED <<storeVars, up, clients, fails, opened, calling, mishaps>>

(* refresh_once and replace_with: the instances that pass their health     *)
(* checks become the pool, none changes nothing; a client that stays keeps *)
(* its breaker, one that is added is new.  A call to a client that left    *)
(* reports to nobody.                                                      *)
Refresh ==
  LET found == up IN
    /\ found # {} /\ found # clients
    /\ \A c \in Tasks : calling[c].st # "cas"
    /\ clients' = found
    /\ calling' = [c \in Tasks |-> IF calling[c].inst \in clients \ found
                                   THEN [calling[c] EXCEPT !.inst = "gone"] ELSE calling[c]]
    /\ fails' = [i \in Instances |-> IF i \in found \cap clients THEN fails[i] ELSE 0]
    /\ gate' = [i \in Instances |-> IF i \in found \cap clients THEN gate[i] ELSE 0]
    /\ probes' = [i \in Instances |-> IF i \in found \cap clients THEN probes[i] ELSE 0]
    /\ opened' = opened \cap found
    /\ UNCHANGED <<storeVars, up, mishaps>>

(* An instance stops: open transactions roll back, callers hear nothing.   *)
InstanceStops(i) ==
    /\ i \in up /\ mishaps < MaxFaults
    /\ up' = up \ {i} /\ mishaps' = mishaps + 1
    /\ jobs' = {j \in jobs : j.at # i}
    /\ UNCHANGED <<backend, db, inserts, clients, fails, opened, gate, calling, probes>>

InstanceStarts(i) ==
    /\ i \notin up
    /\ up' = up \cup {i}
    /\ UNCHANGED <<storeVars, clients, fails, opened, gate, calling, probes, mishaps>>

(* A job fails, of itself or as the victim of a deadlock. *)
ServeFails(j) ==
    /\ j \in jobs /\ BackendFails(j)
    /\ mishaps < MaxFaults /\ mishaps' = mishaps + 1
    /\ UNCHANGED <<up, clients, fails, opened, gate, calling, probes>>

PoolInit ==
    /\ up = Instances /\ clients = {}
    /\ fails = [i \in Instances |-> 0] /\ opened = {} /\ gate = [i \in Instances |-> 0]
    /\ calling = [c \in Tasks |-> NoCall]
    /\ probes = [i \in Instances |-> 0] /\ mishaps = 0

PoolNext ==
    \/ \E c \in Tasks :
         \/ \E i \in Instances : LoadGate(c, i) \/ PickHealthy(c, i)
         \/ CompareExchange(c) \/ NoClient(c) \/ TransportError(c)
         \/ \E j \in jobs : Receive(c, j)
    \/ WindowPasses
    \/ Refresh
    \/ \E i \in Instances : InstanceStops(i) \/ InstanceStarts(i)
    \/ \E j \in jobs : ServeFails(j) \/ (ServeJob(j) /\ UNCHANGED poolVars)
=============================================================================
