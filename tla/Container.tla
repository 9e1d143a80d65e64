------------------------------ MODULE Container ------------------------------
(***************************************************************************)
(* The container of one node: the clients it keeps to the instances of one *)
(* service it depends on, and the node's own life from start to shutdown.  *)
(*                                                                         *)
(* Snapshots of the service catalog arrive from a watch, each applied by a *)
(* task of its own; a loop redials what is wanted and missing; a reader    *)
(* per connection removes its slot when the connection ends; timers make   *)
(* young slots adult.  The tasks share the slot map, the dialing set and   *)
(* the wanted set.  Every table of the code is keyed by service name, so   *)
(* one service is enough.  A snapshot stands for the tcp entries of the    *)
(* catalog: entries of other protocols are filtered out before anything    *)
(* else happens.                                                           *)
(***************************************************************************)
EXTENDS Naturals, FiniteSets

CONSTANTS
    Ids,        \* instances of the service
    Flaky,      \* those whose process stops and starts
    Always,     \* those that always run; any other is listed and unreachable
    Lists,      \* the lists of instances the naming service may hold
    Snaps,      \* tasks that apply a snapshot, at most so many at once
    Conns,      \* connections, at most so many at once
    MaxMoves    \* how often the catalog moves and an instance stops or starts

None == "none"
Loop == "loop"      \* the task of reconnect_loop
First == "first"    \* start(), applying what naming.find returned
Walkers == Snaps \cup {Loop, First}

(* What the constants stand for. *)
ASSUME ContainerConstants ==
    /\ IsFiniteSet(Ids) /\ IsFiniteSet(Conns)
    /\ Flaky \subseteq Ids /\ Always \subseteq Ids \ Flaky /\ Lists \subseteq SUBSET Ids
    /\ MaxMoves \in Nat
    /\ None \notin Ids \cup Conns /\ {Loop, First} \cap Snaps = {}

VARIABLES
    up,         \* instances whose process runs (environment)
    moves,      \* moves of the environment left
    catalog,    \* instances the naming service lists as passing (environment)
    watch,      \* watch_loop: on, fresh (the index moved), has / got (an answer in hand)
    wanted,     \* Container.wanted
    dialing,    \* Container.dialing
    slots,      \* Container.clients: instance -> connection, or None
    adult,      \* the instances whose slot is ADULT
    conn,       \* connection -> instance, st, reader (its read_loop runs)
    timers,     \* connections whose insertion scheduled a promotion still to come
    walker,     \* each task: pc, todo, id, conn, stale
    boot,       \* where start() is
    halt,       \* where shutdown() is
    listed,     \* the naming service lists this node: "no", "yes", or "left" when
                \* the call to deregister failed and the entry stayed behind
    server      \* the node's own server

envVars == <<up, catalog, moves>>
EnvMoves == moves > 0 /\ moves' = moves - 1
clientVars == <<dialing, slots, adult, conn, timers>>
lifeVars == <<boot, halt, listed, server>>
containerVars == <<envVars, watch, wanted, clientVars, walker, lifeVars>>

Closed == halt # "no"
Idle == [pc |-> "idle", todo |-> {}, id |-> None, conn |-> None, stale |-> {}]
NoConn == [id |-> None, st |-> "free", reader |-> FALSE]

(* Connections some table or task still refers to. *)
InUse ==
    {c \in Conns :
        \/ conn[c].reader \/ c \in timers
        \/ \E i \in Ids : slots[i] = c
        \/ \E w \in Walkers : walker[w].conn = c \/ c \in walker[w].stale}

Swept(cs) == [c \in Conns |-> IF c \in cs THEN NoConn ELSE conn[c]]

(***************************************************************************)
(* The naming service and the instances.                                   *)
(***************************************************************************)
(* An instance registers, deregisters, passes or fails its health check. *)
CatalogMoves(S) ==
    /\ EnvMoves /\ S # catalog
    /\ catalog' = S
    /\ watch' = [watch EXCEPT !.fresh = TRUE]
    /\ UNCHANGED <<up, wanted, clientVars, walker, lifeVars>>

PeerStops(i) ==
    /\ EnvMoves /\ i \in up \cap Flaky
    /\ up' = up \ {i}
    /\ conn' = [c \in Conns |-> IF conn[c].id = i THEN [conn[c] EXCEPT !.st = "dead"]
                                ELSE conn[c]]
    /\ UNCHANGED <<catalog, watch, wanted, dialing, slots, adult, timers, walker, lifeVars>>

PeerStarts(i) ==
    /\ EnvMoves /\ i \in Flaky \ up
    /\ up' = up \cup {i}
    /\ UNCHANGED <<catalog, watch, wanted, clientVars, walker, lifeVars>>

(* watch_loop: the long poll answers when the index has moved.  An answer  *)
(* that fails is asked for again a second later.                           *)
WatchAnswers ==
    /\ watch.on /\ watch.fresh /\ ~watch.has
    /\ watch' = [watch EXCEPT !.fresh = FALSE, !.has = TRUE, !.got = catalog]
    /\ UNCHANGED <<envVars, wanted, clientVars, walker, lifeVars>>

(* The callback of connect_to_service: a task of its own per snapshot, the *)
(* subscription no longer consulted.                                       *)
WatchCalls(w) ==
    /\ watch.has
    /\ w \in Snaps /\ walker[w].pc = "idle"
    /\ walker' = [walker EXCEPT ![w] = [Idle EXCEPT !.pc = "posted", !.todo = watch.got]]
    /\ watch' = [watch EXCEPT !.has = FALSE, !.got = {}]
    /\ UNCHANGED <<envVars, wanted, clientVars, lifeVars>>

(***************************************************************************)
(* Snapshots, the reconnect loop, and the dial they share.                 *)
(***************************************************************************)
(* apply_snapshot, first part: an empty snapshot leaves the wanted set. *)
ApplySnapshot(w) ==
    /\ walker[w].pc = "posted"
    /\ wanted' = IF walker[w].todo = {} THEN wanted ELSE walker[w].todo
    /\ walker' = [walker EXCEPT ![w].pc = "next"]
    /\ UNCHANGED <<envVars, watch, clientVars, lifeVars>>

(* reconnect_loop and reconnect_missing: woken or on its interval, until   *)
(* the container is closed.                                                *)
ReconnectMissing ==
    /\ walker[Loop].pc = "idle" /\ ~Closed
    /\ boot \notin {"new", "find", "first"}
    /\ walker' = [walker EXCEPT ![Loop] = [Idle EXCEPT !.pc = "next", !.todo = wanted]]
    /\ UNCHANGED <<envVars, watch, wanted, clientVars, lifeVars>>

(* build_client: nothing to do when closed or when the slot exists. *)
BuildClient(w, i) ==
    /\ walker[w].pc = "next" /\ i \in walker[w].todo
    /\ walker' = [walker EXCEPT ![w].todo = @ \ {i},
                                ![w].id = IF Closed \/ slots[i] # None THEN None ELSE i,
                                ![w].pc = IF Closed \/ slots[i] # None THEN "next" ELSE "claim"]
    /\ UNCHANGED <<envVars, watch, wanted, clientVars, lifeVars>>

(* Mutant: the claim is recorded and not looked at. *)
ClaimIgnoresOthers(w) ==
    LET i == walker[w].id
        won == slots[i] = None
    IN /\ dialing' = IF won THEN dialing \cup {i} ELSE dialing
       /\ walker' = [walker EXCEPT ![w].pc = IF won THEN "dial" ELSE "next",
                                   ![w].id = IF won THEN i ELSE None]

(* claim_dial and the second look at the slot in dial_and_insert.  A task  *)
(* that finds the slot filled while it waited gives the claim back.        *)
Claim(w) ==
    LET i == walker[w].id
        won == i \notin dialing /\ slots[i] = None
    IN /\ dialing' = IF won THEN dialing \cup {i} ELSE dialing
       /\ walker' = [walker EXCEPT ![w].pc = IF won THEN "dial" ELSE "next",
                                   ![w].id = IF won THEN i ELSE None]

ClaimDial(w) ==
    /\ walker[w].pc = "claim"
    /\ Claim(w)
    /\ UNCHANGED <<envVars, watch, wanted, slots, adult, conn, timers, lifeVars>>

(* TcpClient::connect succeeds and the reader is spawned; the slot is      *)
(* inserted only later.                                                    *)
Dialed(w) ==
    /\ walker[w].pc = "dial" /\ walker[w].id \in up
    /\ \E c \in Conns \ InUse :
        /\ conn' = [Swept(Conns \ InUse) EXCEPT
                        ![c] = [id |-> walker[w].id, st |-> "up", reader |-> TRUE]]
        /\ walker' = [walker EXCEPT ![w].pc = "insert", ![w].conn = c]
    /\ UNCHANGED <<envVars, watch, wanted, dialing, slots, adult, timers, lifeVars>>

(* The dial is refused, fails its handshake or times out; release_dial. *)
DialFails(w) ==
    /\ walker[w].pc = "dial"
    /\ dialing' = dialing \ {walker[w].id}
    /\ walker' = [walker EXCEPT ![w].pc = "next", ![w].id = None]
    /\ UNCHANGED <<envVars, watch, wanted, slots, adult, conn, timers, lifeVars>>

(* schedule_promote: the timer knows the instance, not the slot. *)
SchedulePromote(c) == timers' = timers \cup {c}

(* dial_and_insert, the rest: a young slot, release_dial, schedule_promote. *)
InsertSlot(w) ==
    LET i == walker[w].id
        c == walker[w].conn
    IN /\ walker[w].pc = "insert"
       /\ IF slots[i] = None
          THEN /\ slots' = [slots EXCEPT ![i] = c]
               /\ adult' = adult \ {i}
               /\ SchedulePromote(c)
               /\ UNCHANGED conn
          ELSE /\ conn' = [conn EXCEPT ![c].st = IF @ = "up" THEN "shut" ELSE @]
               /\ UNCHANGED <<slots, adult, timers>>
       /\ dialing' = dialing \ {i}
       /\ walker' = [walker EXCEPT ![w].pc = "next", ![w].id = None, ![w].conn = None]
       /\ UNCHANGED <<envVars, watch, wanted, lifeVars>>

(* try_promote, force_adult: whatever slot the instance has now. *)
TryPromote(c) ==
    /\ c \in timers
    /\ timers' = timers \ {c}
    /\ adult' = IF slots[conn[c].id] # None THEN adult \cup {conn[c].id} ELSE adult
    /\ UNCHANGED <<envVars, watch, wanted, dialing, slots, conn, walker, lifeVars>>

(* The list is walked: the loop sleeps, a snapshot looks for slots that    *)
(* are no longer wanted.                                                   *)
ListDone(w) ==
    /\ walker[w].pc = "next" /\ walker[w].todo = {}
    /\ walker' = [walker EXCEPT ![w] =
            IF w = Loop \/ wanted = {} THEN Idle
            ELSE [Idle EXCEPT !.pc = "prune",
                              !.stale = {slots[i] : i \in {j \in Ids \ wanted : slots[j] # None}}]]
    /\ UNCHANGED <<envVars, watch, wanted, clientVars, lifeVars>>

(* apply_snapshot, last part: the client of a stale slot is shut down ... *)
ShutStale(w, c) ==
    /\ walker[w].pc = "prune" /\ walker[w].conn = None /\ c \in walker[w].stale
    /\ conn' = [conn EXCEPT ![c].st = IF @ = "up" THEN "shut" ELSE @]
    /\ walker' = [walker EXCEPT ![w].conn = c, ![w].stale = @ \ {c}]
    /\ UNCHANGED <<envVars, watch, wanted, dialing, slots, adult, timers, lifeVars>>

(* ... and its slot removed, if it still holds that client. *)
Removed(c) == {i \in Ids : slots[i] = c}

RemoveSlots(S) ==
    /\ slots' = [i \in Ids |-> IF i \in S THEN None ELSE slots[i]]
    /\ adult' = adult \ S

RemoveStale(w) ==
    /\ walker[w].pc = "prune" /\ walker[w].conn # None
    /\ RemoveSlots(Removed(walker[w].conn))
    /\ walker' = [walker EXCEPT ![w].conn = None]
    /\ UNCHANGED <<envVars, watch, wanted, dialing, conn, timers, lifeVars>>

PruneDone(w) ==
    /\ walker[w].pc = "prune" /\ walker[w].conn = None /\ walker[w].stale = {}
    /\ walker' = [walker EXCEPT ![w] = Idle]
    /\ UNCHANGED <<envVars, watch, wanted, clientVars, lifeVars>>

(* read_loop: the connection ended, on either side; its slot goes if it is *)
(* there by now.                                                           *)
ReadLoopEnds(c) ==
    /\ conn[c].reader /\ conn[c].st # "up"
    /\ conn' = [conn EXCEPT ![c].reader = FALSE]
    /\ RemoveSlots(Removed(c))
    /\ UNCHANGED <<envVars, watch, wanted, dialing, timers, walker, lifeVars>>

(***************************************************************************)
(* The life of the node.                                                   *)
(***************************************************************************)
(* start, connect_to_service: subscribe, ... *)
Subscribe ==
    /\ boot = "new"
    /\ boot' = "find"
    /\ watch' = [watch EXCEPT !.on = TRUE, !.fresh = TRUE]
    /\ UNCHANGED <<envVars, wanted, clientVars, walker, halt, listed, server>>

(* ... find and apply what was found, in start's own task. *)
Find ==
    /\ boot = "find"
    /\ boot' = "first"
    /\ walker' = [walker EXCEPT ![First] = [Idle EXCEPT !.pc = "posted", !.todo = catalog]]
    /\ UNCHANGED <<envVars, watch, wanted, clientVars, halt, listed, server>>

Connected ==
    /\ boot = "first" /\ walker[First].pc = "idle"
    /\ boot' = IF Closed THEN "wait" ELSE "register"
    /\ UNCHANGED <<envVars, watch, wanted, clientVars, walker, halt, listed, server>>

Register ==
    /\ boot = "register"
    /\ listed' = "yes"
    /\ boot' = "registered"
    /\ UNCHANGED <<envVars, watch, wanted, clientVars, walker, halt, server>>

(* Mutant: start does not look at closed again after it registered. *)
RecheckForgotten ==
    /\ boot' = "serve"
    /\ UNCHANGED listed

(* naming.deregister, whose error both callers ignore. *)
Delist == listed' = "no" \/ (listed # "no" /\ listed' = "left")

(* Closed while registering: the registration is taken back. *)
RecheckClosed ==
    IF Closed THEN boot' = "wait" /\ Delist
              ELSE boot' = "serve" /\ UNCHANGED listed

Registered ==
    /\ boot = "registered"
    /\ RecheckClosed
    /\ UNCHANGED <<envVars, watch, wanted, clientVars, walker, halt, server>>

SpawnServer ==
    /\ boot = "serve"
    /\ boot' = "wait"
    /\ server' = [server EXCEPT !.spawned = TRUE]
    /\ UNCHANGED <<envVars, watch, wanted, clientVars, walker, halt, listed>>

(* Server::start: a listener unless the server was shut down before. *)
ServerStarts ==
    /\ server.spawned
    /\ server' = [server EXCEPT !.spawned = FALSE, !.listening = ~server.closed]
    /\ UNCHANGED <<envVars, watch, wanted, clientVars, walker, boot, halt, listed>>

(* wait_finished: done is looked at after the waiter is registered, so a   *)
(* shutdown that ended before is seen too.                                 *)
StartReturns ==
    /\ boot = "wait" /\ halt = "done"
    /\ boot' = "returned"
    /\ UNCHANGED <<envVars, watch, wanted, clientVars, walker, halt, listed, server>>

Shutdown ==
    /\ halt = "no"
    /\ halt' = "deregister"
    /\ UNCHANGED <<envVars, watch, wanted, clientVars, walker, boot, listed, server>>

Deregister ==
    /\ halt = "deregister"
    /\ halt' = "unsubscribe"
    /\ Delist
    /\ UNCHANGED <<envVars, watch, wanted, clientVars, walker, boot, server>>

Unsubscribe ==
    /\ halt = "unsubscribe"
    /\ halt' = "server"
    /\ watch' = [watch EXCEPT !.on = FALSE]
    /\ UNCHANGED <<envVars, wanted, clientVars, walker, boot, listed, server>>

ServerShutdown ==
    /\ halt = "server"
    /\ halt' = "sweep"
    /\ server' = [server EXCEPT !.closed = TRUE, !.listening = FALSE]
    /\ UNCHANGED <<envVars, watch, wanted, clientVars, walker, boot, listed>>

SweepClients ==
    /\ halt = "sweep"
    /\ halt' = "done"
    /\ conn' = [c \in Conns |-> IF (\E i \in Ids : slots[i] = c) /\ conn[c].st = "up"
                                THEN [conn[c] EXCEPT !.st = "shut"] ELSE conn[c]]
    /\ RemoveSlots(Ids)
    /\ UNCHANGED <<envVars, watch, wanted, dialing, timers, walker, boot, listed, server>>

ContainerInit ==
    /\ up \in {Always \cup S : S \in SUBSET Flaky}
    /\ catalog \in Lists /\ moves = MaxMoves
    /\ watch = [on |-> FALSE, fresh |-> FALSE, has |-> FALSE, got |-> {}]
    /\ wanted = {} /\ dialing = {}
    /\ slots = [i \in Ids |-> None]
    /\ adult = {}
    /\ conn = [c \in Conns |-> NoConn]
    /\ timers = {}
    /\ walker = [w \in Walkers |-> Idle]
    /\ boot = "new" /\ halt = "no" /\ listed = "no"
    /\ server = [spawned |-> FALSE, listening |-> FALSE, closed |-> FALSE]

WalkerStep(w) ==
    \/ ApplySnapshot(w) \/ ClaimDial(w) \/ Dialed(w) \/ DialFails(w) \/ InsertSlot(w)
    \/ ListDone(w) \/ RemoveStale(w) \/ PruneDone(w)
    \/ \E i \in Ids : BuildClient(w, i)
    \/ \E c \in Conns : ShutStale(w, c)

BootStep ==
    \/ Subscribe \/ Find \/ Connected \/ Register \/ Registered \/ SpawnServer
    \/ ServerStarts \/ StartReturns

HaltStep == Deregister \/ Unsubscribe \/ ServerShutdown \/ SweepClients

ContainerNext ==
    \/ \E S \in Lists : CatalogMoves(S)
    \/ \E i \in Ids : PeerStops(i) \/ PeerStarts(i)
    \/ WatchAnswers
    \/ \E w \in Snaps : WatchCalls(w)
    \/ ReconnectMissing
    \/ \E w \in Walkers : WalkerStep(w)
    \/ \E c \in Conns : TryPromote(c) \/ ReadLoopEnds(c)
    \/ BootStep
    \/ Shutdown
    \/ HaltStep

ContainerSpec == ContainerInit /\ [][ContainerNext]_containerVars

(* Tasks that can run do run, timers fire, and a dial to a running         *)
(* instance does not fail for ever.  Instances, the catalog and shutdown   *)
(* owe nothing.                                                            *)
ContainerFairness ==
    /\ WF_containerVars(WatchAnswers) /\ WF_containerVars(ReconnectMissing)
    /\ \A w \in Snaps : WF_containerVars(WatchCalls(w))
    /\ \A w \in Walkers : WF_containerVars(WalkerStep(w)) /\ SF_containerVars(Dialed(w))
    /\ \A c \in Conns : WF_containerVars(TryPromote(c)) /\ WF_containerVars(ReadLoopEnds(c))
    /\ WF_containerVars(BootStep) /\ WF_containerVars(HaltStep)

ContainerFairSpec == ContainerSpec /\ ContainerFairness

(***************************************************************************)
(* Properties.                                                             *)
(***************************************************************************)
ConnOrNone == Conns \cup {None}
ConnStates == [id : Ids \cup {None}, st : {"free", "up", "shut", "dead"}, reader : BOOLEAN]
Tasks == [pc : {"idle", "posted", "next", "claim", "dial", "insert", "prune"},
          todo : SUBSET Ids, id : Ids \cup {None}, conn : ConnOrNone, stale : SUBSET Conns]

(* Every variable has its type. *)
ContainerTypeOK ==
    /\ moves \in 0 .. MaxMoves
    /\ up \subseteq Ids /\ catalog \subseteq Ids /\ wanted \subseteq Ids
    /\ dialing \subseteq Ids /\ adult \subseteq Ids /\ timers \subseteq Conns
    /\ watch \in [on : BOOLEAN, fresh : BOOLEAN, has : BOOLEAN, got : SUBSET Ids]
    /\ slots \in [Ids -> ConnOrNone]
    /\ conn \in [Conns -> ConnStates]
    /\ walker \in [Walkers -> Tasks]
    /\ boot \in {"new", "find", "first", "register", "registered", "serve", "wait", "returned"}
    /\ halt \in {"no", "deregister", "unsubscribe", "server", "sweep", "done"}
    /\ listed \in {"no", "yes", "left"}
    /\ server \in [spawned : BOOLEAN, listening : BOOLEAN, closed : BOOLEAN]

(* No connection is left open that nobody can find: an open connection is  *)
(* the one in its instance's slot or is about to be inserted there by the  *)
(* one task that claimed the dial (claim_dial, the pointer comparison of   *)
(* apply_snapshot and read_loop).                                          *)
NoOrphanConn ==
    \A c \in Conns :
        conn[c].st = "up" =>
            \/ slots[conn[c].id] = c
            \/ \E w \in Walkers : walker[w].pc = "insert" /\ walker[w].conn = c
                                  /\ slots[conn[c].id] = None

(* Once shutdown has deregistered the node and start is past its last      *)
(* look at closed, the naming service does not list the node, unless a     *)
(* call to deregister it failed (the code ignores that error), and its     *)
(* server does not listen, however the two ran into each other.            *)
StoppedMeansGone ==
    halt \in {"sweep", "done"} /\ boot \in {"wait", "returned"} =>
        listed # "yes" /\ ~server.listening

(* A young slot always has its promotion still to come: forward only uses  *)
(* adult slots, so a slot without one would never carry a packet           *)
(* (schedule_promote after every insertion, whichever task made it).       *)
YoungHasTimer ==
    \A i \in Ids : slots[i] # None /\ i \notin adult => slots[i] \in timers

(* "Dial failure / peer restart must not require Consul's passing set to   *)
(* change": an instance that is wanted and stays up is connected in the    *)
(* end.                                                                    *)
WantedIsConnected ==
    \A i \in Ids :
        []<>(i \in wanted /\ i \in up /\ ~Closed) /\ <>[](i \in up /\ i \in wanted /\ ~Closed)
            => <>(slots[i] # None /\ conn[slots[i]].st = "up")
=============================================================================
