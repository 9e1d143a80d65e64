------------------------- MODULE SessionCacheProofs -------------------------
(***************************************************************************)
(* Freshness of the location cache, for every set of accounts, channels,   *)
(* writers and lookups; and the container, for any number of instances,    *)
(* tasks and connections.                                                  *)
(*                                                                         *)
(* The container's NoOrphanConn is not inductive: that a task about to     *)
(* insert finds the slot empty needs the dialing set to be a lock          *)
(* (Claims), and that a removal takes no open connection out of its slot   *)
(* needs the connection in a pruner's hand to be closed already            *)
(* (HandClosed).  StoppedMeansGone needs to know which side of the race    *)
(* between start and shutdown is still to look (ListedWhy, ServerDown).    *)
(***************************************************************************)
EXTENDS SessionCache, Container, FiniteSetTheorems, SequenceTheorems, TLAPS

-----------------------------------------------------------------------------
(***************************************************************************)
(* The container.                                                          *)
(***************************************************************************)
Holds(w) == walker[w].pc \in {"dial", "insert"}

(* A task that dials or inserts owns its instance in the dialing set; the  *)
(* slot of an owned instance is empty.                                     *)
Claims ==
    /\ \A w \in Walkers : walker[w].pc \in {"claim", "dial", "insert"} => walker[w].id \in Ids
    /\ \A w \in Walkers : Holds(w) => walker[w].id \in dialing /\ slots[walker[w].id] = None
    /\ \A w, v \in Walkers :
          Holds(w) /\ Holds(v) /\ walker[w].id = walker[v].id => w = v

(* A connection belongs to the instance of its slot, and of its inserter. *)
Belongs ==
    /\ \A i \in Ids : slots[i] # None => conn[slots[i]].id = i
    /\ \A w \in Walkers : walker[w].pc = "insert" =>
          walker[w].conn \in Conns /\ conn[walker[w].conn].id = walker[w].id
    /\ \A c \in Conns : conn[c].st = "up" => conn[c].id \in Ids
    /\ \A c \in timers : conn[c].id \in Ids

HandClosed ==
    \A w \in Walkers :
        walker[w].pc = "prune" /\ walker[w].conn # None => conn[walker[w].conn].st # "up"

(* start's own walk has not begun before the catalog was read. *)
FirstIdle == boot \in {"new", "find"} => walker[First].pc = "idle"

ListedWhy == listed = "yes" /\ halt \notin {"no", "deregister"} => boot = "registered"

ServerDown == halt \in {"sweep", "done"} => server.closed /\ ~server.listening

ContainerInv ==
    /\ ContainerTypeOK
    /\ Claims /\ Belongs /\ HandClosed /\ FirstIdle
    /\ NoOrphanConn /\ YoungHasTimer
    /\ ListedWhy /\ ServerDown

(***************************************************************************)
(* The environment and the watch.                                          *)
(***************************************************************************)
LEMMA CatalogMovesKeeps ==
    ASSUME ContainerInv, NEW S \in Lists, CatalogMoves(S)
    PROVE  ContainerInv'
  <1>1. ContainerTypeOK'
    <2>1. moves' \in 0 .. MaxMoves
        BY ContainerConstants DEF ContainerInv, ContainerTypeOK, CatalogMoves, EnvMoves
    <2>2. catalog' \subseteq Ids
        BY ContainerConstants DEF CatalogMoves
    <2>3. watch' \in [on : BOOLEAN, fresh : BOOLEAN, has : BOOLEAN, got : SUBSET Ids]
        BY DEF ContainerInv, ContainerTypeOK, CatalogMoves
    <2> QED BY <2>1, <2>2, <2>3
        DEF ContainerInv, ContainerTypeOK, CatalogMoves, clientVars, lifeVars
  <1>2. /\ Claims' /\ Belongs' /\ HandClosed' /\ FirstIdle' /\ NoOrphanConn'
        /\ YoungHasTimer' /\ ListedWhy' /\ ServerDown'
      BY DEF ContainerInv, Claims, Holds, Belongs, HandClosed, FirstIdle, NoOrphanConn,
         YoungHasTimer, ListedWhy, ServerDown, CatalogMoves, clientVars, lifeVars
  <1> QED BY <1>1, <1>2 DEF ContainerInv

LEMMA PeerStopsKeeps ==
    ASSUME ContainerInv, NEW i \in Ids, PeerStops(i)
    PROVE  ContainerInv'
  <1>1. ContainerTypeOK'
      BY ContainerConstants DEF ContainerInv, ContainerTypeOK, ConnStates, PeerStops,
         lifeVars, EnvMoves
  <1>2. Belongs'
      BY DEF ContainerInv, ContainerTypeOK, ConnOrNone, ConnStates, Belongs, PeerStops
  <1>3. HandClosed'
      BY DEF ContainerInv, ContainerTypeOK, ConnOrNone, Tasks, HandClosed, PeerStops
  <1>4. NoOrphanConn'
      BY DEF ContainerInv, NoOrphanConn, PeerStops
  <1>5. Claims' /\ FirstIdle' /\ YoungHasTimer' /\ ListedWhy' /\ ServerDown'
      BY DEF ContainerInv, Claims, Holds, FirstIdle, YoungHasTimer, ListedWhy,
         ServerDown, PeerStops, lifeVars
  <1> QED BY <1>1, <1>2, <1>3, <1>4, <1>5 DEF ContainerInv

LEMMA PeerStartsKeeps ==
    ASSUME ContainerInv, NEW i \in Ids, PeerStarts(i)
    PROVE  ContainerInv'
  <1>1. ContainerTypeOK'
      BY ContainerConstants DEF ContainerInv, ContainerTypeOK, PeerStarts, clientVars,
         lifeVars, EnvMoves
  <1>2. /\ Claims' /\ Belongs' /\ HandClosed' /\ FirstIdle' /\ NoOrphanConn'
        /\ YoungHasTimer' /\ ListedWhy' /\ ServerDown'
      BY DEF ContainerInv, Claims, Holds, Belongs, HandClosed, FirstIdle, NoOrphanConn,
         YoungHasTimer, ListedWhy, ServerDown, PeerStarts, clientVars, lifeVars
  <1> QED BY <1>1, <1>2 DEF ContainerInv

LEMMA WatchAnswersKeeps ==
    ASSUME ContainerInv, WatchAnswers
    PROVE  ContainerInv'
  <1>1. ContainerTypeOK'
      BY ContainerConstants DEF ContainerInv, ContainerTypeOK, WatchAnswers, envVars,
         clientVars, lifeVars
  <1>2. /\ Claims' /\ Belongs' /\ HandClosed' /\ FirstIdle' /\ NoOrphanConn'
        /\ YoungHasTimer' /\ ListedWhy' /\ ServerDown'
      BY DEF ContainerInv, Claims, Holds, Belongs, HandClosed, FirstIdle, NoOrphanConn,
         YoungHasTimer, ListedWhy, ServerDown, WatchAnswers, clientVars, lifeVars
  <1> QED BY <1>1, <1>2 DEF ContainerInv

LEMMA WatchCallsKeeps ==
    ASSUME ContainerInv, NEW w \in Snaps, WatchCalls(w)
    PROVE  ContainerInv'
  <1>1. ContainerTypeOK'
      BY ContainerConstants DEF ContainerInv, ContainerTypeOK, ConnOrNone, Tasks,
         WatchCalls, Walkers, Idle, envVars, clientVars, lifeVars
  <1>2. Claims'
      BY ContainerConstants DEF ContainerInv, ContainerTypeOK, ConnOrNone, Tasks,
         Claims, Holds, WatchCalls, Walkers, Idle, clientVars
  <1>3. Belongs'
      BY ContainerConstants DEF ContainerInv, Claims, Holds, Belongs, WatchCalls,
         Walkers, Idle, clientVars
  <1>4. HandClosed'
      BY ContainerConstants DEF ContainerInv, HandClosed, WatchCalls, Walkers, Idle,
         clientVars
  <1>5. FirstIdle'
      BY ContainerConstants DEF ContainerInv, FirstIdle, WatchCalls, Walkers, Idle,
         lifeVars
  <1>6. NoOrphanConn'
      BY ContainerConstants DEF ContainerInv, NoOrphanConn, WatchCalls, Walkers, Idle,
         clientVars
  <1>7. YoungHasTimer' /\ ListedWhy' /\ ServerDown'
      BY DEF ContainerInv, YoungHasTimer, ListedWhy, ServerDown, WatchCalls, clientVars,
         lifeVars
  <1> QED BY <1>1, <1>2, <1>3, <1>4, <1>5, <1>6, <1>7 DEF ContainerInv

LEMMA ReconnectMissingKeeps ==
    ASSUME ContainerInv, ReconnectMissing
    PROVE  ContainerInv'
  <1>1. ContainerTypeOK'
    <2>1. walker' \in [Walkers -> Tasks]
        BY ContainerConstants DEF ContainerInv, ContainerTypeOK, Tasks, ConnOrNone,
           ReconnectMissing, Walkers, Idle
    <2> QED
        BY <2>1 DEF ContainerInv, ContainerTypeOK, ReconnectMissing, envVars, clientVars,
           lifeVars
  <1>2. Claims'
      BY ContainerConstants DEF ContainerInv, ConnStates, Claims, Holds,
         ReconnectMissing, Walkers, Idle, clientVars
  <1>3. Belongs'
      BY ContainerConstants DEF ContainerInv, Belongs, ReconnectMissing, Walkers, Idle,
         clientVars
  <1>4. HandClosed'
      BY ContainerConstants DEF ContainerInv, HandClosed, ReconnectMissing, Walkers,
         Idle, clientVars
  <1>5. FirstIdle'
      BY ContainerConstants DEF ContainerInv, FirstIdle, ReconnectMissing, Walkers,
         Idle, lifeVars
  <1>6. NoOrphanConn'
      BY ContainerConstants DEF ContainerInv, NoOrphanConn, ReconnectMissing, Walkers,
         Idle, clientVars
  <1>7. YoungHasTimer' /\ ListedWhy' /\ ServerDown'
      BY DEF ContainerInv, YoungHasTimer, ListedWhy, ServerDown, ReconnectMissing,
         clientVars, lifeVars
  <1> QED BY <1>1, <1>2, <1>3, <1>4, <1>5, <1>6, <1>7 DEF ContainerInv

(***************************************************************************)
(* The walk of a list, and the dial.                                       *)
(***************************************************************************)
LEMMA ApplySnapshotKeeps ==
    ASSUME ContainerInv, NEW w \in Walkers, ApplySnapshot(w)
    PROVE  ContainerInv'
  <1>1. ContainerTypeOK'
      BY ContainerConstants DEF ContainerInv, ContainerTypeOK, Tasks, ApplySnapshot,
         envVars, clientVars, lifeVars
  <1>2. Claims'
      BY DEF ContainerInv, ContainerTypeOK, Tasks, Claims, Holds, ApplySnapshot,
         clientVars
  <1>3. Belongs'
      BY DEF ContainerInv, Belongs, ApplySnapshot, clientVars
  <1>4. HandClosed'
      BY DEF ContainerInv, HandClosed, ApplySnapshot, clientVars
  <1>5. FirstIdle'
      BY ContainerConstants DEF ContainerInv, FirstIdle, ApplySnapshot, Walkers,
         lifeVars
  <1>6. NoOrphanConn'
      BY DEF ContainerInv, NoOrphanConn, ApplySnapshot, clientVars
  <1>7. YoungHasTimer' /\ ListedWhy' /\ ServerDown'
      BY DEF ContainerInv, YoungHasTimer, ListedWhy, ServerDown, ApplySnapshot,
         clientVars, lifeVars
  <1> QED BY <1>1, <1>2, <1>3, <1>4, <1>5, <1>6, <1>7 DEF ContainerInv

LEMMA ClaimDialKeeps ==
    ASSUME ContainerInv, NEW w \in Walkers, ClaimDial(w)
    PROVE  ContainerInv'
  <1>1. ContainerTypeOK'
    <2>0. walker \in [Walkers -> Tasks] /\ Claims
        BY DEF ContainerInv, ContainerTypeOK
    <2>1. ASSUME NEW v \in Walkers PROVE walker'[v] \in Tasks
        BY <2>0, <2>1 DEF Tasks, ClaimDial, Claim
    <2>2. walker' \in [Walkers -> Tasks]
        BY <2>1 DEF ContainerInv, ContainerTypeOK, ClaimDial, Claim
    <2>3. dialing' \subseteq Ids
        BY DEF ContainerInv, ContainerTypeOK, ClaimDial, Claim, Claims
    <2> QED BY <2>2, <2>3 DEF ContainerInv, ContainerTypeOK, ClaimDial, Claim, envVars, lifeVars
  <1>2. Claims'
      BY DEF ContainerInv, ContainerTypeOK, Claims, Holds, ClaimDial, Claim, envVars,
         lifeVars
  <1>3. Belongs'
      BY DEF ContainerInv, ContainerTypeOK, Belongs, ClaimDial, Claim
  <1>4. HandClosed'
      BY DEF ContainerInv, ContainerTypeOK, HandClosed, ClaimDial, Claim
  <1>5. FirstIdle'
      BY ContainerConstants DEF ContainerInv, ContainerTypeOK, FirstIdle, ClaimDial,
         Claim, Walkers, lifeVars
  <1>6. NoOrphanConn'
      BY DEF ContainerInv, ContainerTypeOK, NoOrphanConn, ClaimDial, Claim
  <1>7. YoungHasTimer' /\ ListedWhy' /\ ServerDown'
      BY DEF ContainerInv, YoungHasTimer, ListedWhy, ServerDown, ClaimDial, Claim,
         lifeVars
  <1> QED BY <1>1, <1>2, <1>3, <1>4, <1>5, <1>6, <1>7 DEF ContainerInv

LEMMA DialedKeeps ==
    ASSUME ContainerInv, NEW w \in Walkers, Dialed(w)
    PROVE  ContainerInv'
  <1>1. ContainerTypeOK'
      BY ContainerConstants DEF ContainerInv, ContainerTypeOK, Tasks, Dialed, InUse,
         Swept, NoConn
  <1>2. Claims'
      BY ContainerConstants DEF ContainerInv, ContainerTypeOK, Tasks, Dialed, InUse,
         Swept, NoConn
  <1>3. Belongs'
      BY ContainerConstants DEF ContainerInv, ContainerTypeOK, ConnOrNone, Belongs,
         Dialed, InUse, Swept, NoConn
  <1>4. HandClosed'
      BY ContainerConstants DEF ContainerInv, ContainerTypeOK, ConnOrNone, Tasks,
         Dialed, InUse, Swept, NoConn
  <1>5. FirstIdle'
      BY ContainerConstants DEF ContainerInv, ContainerTypeOK, Tasks, FirstIdle, Dialed,
         InUse, Swept, NoConn, Walkers
  <1>6. NoOrphanConn'
      BY ContainerConstants DEF ContainerInv, ContainerTypeOK, Tasks, NoOrphanConn,
         Dialed, InUse, Swept, NoConn
  <1>7. YoungHasTimer' /\ ListedWhy' /\ ServerDown'
      BY DEF ContainerInv, YoungHasTimer, ListedWhy, ServerDown, Dialed, lifeVars
  <1> QED BY <1>1, <1>2, <1>3, <1>4, <1>5, <1>6, <1>7 DEF ContainerInv

LEMMA DialFailsKeeps ==
    ASSUME ContainerInv, NEW w \in Walkers, DialFails(w)
    PROVE  ContainerInv'
  <1>1. ContainerTypeOK'
    <2>0. walker \in [Walkers -> Tasks] 
        BY DEF ContainerInv, ContainerTypeOK
    <2>1. ASSUME NEW v \in Walkers PROVE walker'[v] \in Tasks
        BY <2>0, <2>1 DEF Tasks, DialFails
    <2>2. walker' \in [Walkers -> Tasks]
        BY <2>1 DEF ContainerInv, ContainerTypeOK, DialFails
    <2> QED BY <2>2 DEF ContainerInv, ContainerTypeOK, DialFails, envVars, lifeVars
  <1>2. Claims'
      BY DEF ContainerInv, ContainerTypeOK, Claims, Holds, DialFails, envVars, lifeVars
  <1>3. Belongs'
      BY DEF ContainerInv, ContainerTypeOK, Belongs, DialFails
  <1>4. HandClosed'
      BY DEF ContainerInv, ContainerTypeOK, HandClosed, DialFails
  <1>5. FirstIdle'
      BY ContainerConstants DEF ContainerInv, ContainerTypeOK, FirstIdle, DialFails,
         Walkers, lifeVars
  <1>6. NoOrphanConn'
      BY DEF ContainerInv, ContainerTypeOK, NoOrphanConn, DialFails
  <1>7. YoungHasTimer' /\ ListedWhy' /\ ServerDown'
      BY DEF ContainerInv, YoungHasTimer, ListedWhy, ServerDown, DialFails, lifeVars
  <1> QED BY <1>1, <1>2, <1>3, <1>4, <1>5, <1>6, <1>7 DEF ContainerInv

LEMMA InsertSlotKeeps ==
    ASSUME ContainerInv, NEW w \in Walkers, InsertSlot(w)
    PROVE  ContainerInv'
  <1>1. ContainerTypeOK'
    <2>0. walker \in [Walkers -> Tasks] 
        BY DEF ContainerInv, ContainerTypeOK
    <2>1. ASSUME NEW v \in Walkers PROVE walker'[v] \in Tasks
        BY <2>0, <2>1 DEF Tasks, InsertSlot, ConnOrNone
    <2>2. walker' \in [Walkers -> Tasks]
        BY <2>1 DEF ContainerInv, ContainerTypeOK, InsertSlot
    <2>3. /\ slots' \in [Ids -> ConnOrNone] /\ timers' \subseteq Conns /\ adult' \subseteq Ids
          /\ dialing' \subseteq Ids
        BY DEF ContainerInv, ContainerTypeOK, InsertSlot, SchedulePromote, ConnOrNone,
           Belongs
    <2>4. conn' \in [Conns -> ConnStates]
      <3>1. ASSUME NEW d \in Conns PROVE conn'[d] \in ConnStates
          BY <3>1 DEF ContainerInv, ContainerTypeOK, ConnStates, InsertSlot
      <3> QED BY <3>1 DEF ContainerInv, ContainerTypeOK, InsertSlot
    <2> QED BY <2>2, <2>3, <2>4 DEF ContainerInv, ContainerTypeOK, InsertSlot, envVars, lifeVars
  <1>2. Claims'
      BY DEF ContainerInv, ContainerTypeOK, Claims, Holds, InsertSlot, SchedulePromote,
         envVars, lifeVars
  <1>3. Belongs'
      BY DEF ContainerInv, ContainerTypeOK, Claims, Holds, Belongs, InsertSlot,
         SchedulePromote
  <1>4. HandClosed'
      BY DEF ContainerInv, ContainerTypeOK, ConnOrNone, Tasks, HandClosed, InsertSlot,
         SchedulePromote
  <1>5. FirstIdle'
      BY ContainerConstants DEF ContainerInv, ContainerTypeOK, FirstIdle, InsertSlot,
         SchedulePromote, Walkers, lifeVars
  <1>6. NoOrphanConn'
      BY SMTT(60) DEF ContainerInv, ContainerTypeOK, Tasks, ConnStates, Claims, Belongs,
         NoOrphanConn, InsertSlot, SchedulePromote
  <1>7. YoungHasTimer'
      BY DEF ContainerInv, ContainerTypeOK, Belongs, YoungHasTimer, InsertSlot,
         SchedulePromote
  <1>8. ListedWhy' /\ ServerDown'
      BY DEF ContainerInv, ListedWhy, ServerDown, InsertSlot, SchedulePromote, lifeVars
  <1> QED BY <1>1, <1>2, <1>3, <1>4, <1>5, <1>6, <1>7, <1>8 DEF ContainerInv

LEMMA ListDoneKeeps ==
    ASSUME ContainerInv, NEW w \in Walkers, ListDone(w)
    PROVE  ContainerInv'
  <1>1. ContainerTypeOK'
    <2> DEFINE old == {slots[i] : i \in {j \in Ids \ wanted : slots[j] # None}}
    <2>1. old \subseteq Conns
        BY DEF ContainerInv, ContainerTypeOK, ConnOrNone
    <2>2. Idle \in Tasks /\ [Idle EXCEPT !.pc = "prune", !.stale = old] \in Tasks
        BY <2>1 DEF Tasks, Idle, ConnOrNone
    <2>3. \E r \in Tasks : walker' = [walker EXCEPT ![w] = r]
        BY <2>2 DEF ListDone
    <2>4. walker' \in [Walkers -> Tasks]
        BY <2>3 DEF ContainerInv, ContainerTypeOK
    <2> QED BY <2>4
        DEF ContainerInv, ContainerTypeOK, ListDone, envVars, clientVars, lifeVars
  <1>2. Claims'
      BY DEF ContainerInv, ContainerTypeOK, Claims, Holds, ListDone, Idle, envVars,
         clientVars, lifeVars
  <1>3. Belongs'
      BY DEF ContainerInv, Belongs, ListDone, Idle, clientVars
  <1>4. HandClosed'
      BY DEF ContainerInv, HandClosed, ListDone, Idle, clientVars
  <1>5. FirstIdle'
      BY ContainerConstants DEF ContainerInv, FirstIdle, ListDone, Idle, Walkers,
         lifeVars
  <1>6. NoOrphanConn'
      BY DEF ContainerInv, NoOrphanConn, ListDone, Idle, clientVars
  <1>7. YoungHasTimer' /\ ListedWhy' /\ ServerDown'
      BY DEF ContainerInv, YoungHasTimer, ListedWhy, ServerDown, ListDone, clientVars,
         lifeVars
  <1> QED BY <1>1, <1>2, <1>3, <1>4, <1>5, <1>6, <1>7 DEF ContainerInv

LEMMA RemoveStaleKeeps ==
    ASSUME ContainerInv, NEW w \in Walkers, RemoveStale(w)
    PROVE  ContainerInv'
  <1>1. ContainerTypeOK'
    <2>0. walker \in [Walkers -> Tasks] 
        BY DEF ContainerInv, ContainerTypeOK
    <2>1. ASSUME NEW v \in Walkers PROVE walker'[v] \in Tasks
        BY <2>0, <2>1 DEF Tasks, RemoveStale, ConnOrNone
    <2>2. walker' \in [Walkers -> Tasks]
        BY <2>1 DEF ContainerInv, ContainerTypeOK, RemoveStale
    <2>3. slots' \in [Ids -> ConnOrNone] /\ adult' \subseteq Ids
        BY DEF ContainerInv, ContainerTypeOK, RemoveStale, RemoveSlots, ConnOrNone
    <2> QED BY <2>2, <2>3
        DEF ContainerInv, ContainerTypeOK, RemoveStale, RemoveSlots, envVars, lifeVars
  <1>2. Claims'
      BY DEF ContainerInv, ContainerTypeOK, Claims, Holds, RemoveStale, RemoveSlots,
         Removed, envVars, lifeVars
  <1>3. Belongs'
      BY DEF ContainerInv, Belongs, RemoveStale, RemoveSlots, Removed
  <1>4. HandClosed'
      BY DEF ContainerInv, HandClosed, RemoveStale, RemoveSlots, Removed
  <1>5. FirstIdle'
      BY ContainerConstants DEF ContainerInv, FirstIdle, RemoveStale, RemoveSlots,
         Removed, Walkers, lifeVars
  <1>6. NoOrphanConn'
    <2>1. SUFFICES ASSUME NEW c \in Conns, conn'[c].st = "up"
                   PROVE  \/ slots'[conn'[c].id] = c
                          \/ \E v \in Walkers : walker'[v].pc = "insert" /\ walker'[v].conn = c
                                                /\ slots'[conn'[c].id] = None
        BY DEF NoOrphanConn
    <2>2. conn' = conn /\ conn[c].id \in Ids /\ c # walker[w].conn
        BY <2>1 DEF ContainerInv, RemoveStale, Belongs, HandClosed
    <2>3. CASE slots[conn[c].id] = c
        BY <2>2, <2>3 DEF RemoveStale, RemoveSlots, Removed
    <2>4. ASSUME NEW v \in Walkers, walker[v].pc = "insert", walker[v].conn = c,
                 slots[conn[c].id] = None
          PROVE  walker'[v].pc = "insert" /\ walker'[v].conn = c /\ slots'[conn'[c].id] = None
        BY <2>2, <2>4 DEF ContainerInv, RemoveStale, RemoveSlots, Removed
    <2> QED BY <2>1, <2>2, <2>3, <2>4 DEF ContainerInv, NoOrphanConn
  <1>7. YoungHasTimer'
      BY DEF ContainerInv, YoungHasTimer, RemoveStale, RemoveSlots, Removed
  <1>8. ListedWhy' /\ ServerDown'
      BY DEF ContainerInv, ListedWhy, ServerDown, RemoveStale, RemoveSlots, lifeVars
  <1> QED BY <1>1, <1>2, <1>3, <1>4, <1>5, <1>6, <1>7, <1>8 DEF ContainerInv

LEMMA PruneDoneKeeps ==
    ASSUME ContainerInv, NEW w \in Walkers, PruneDone(w)
    PROVE  ContainerInv'
  <1>1. ContainerTypeOK'
      BY ContainerConstants DEF ContainerInv, ContainerTypeOK, Tasks, PruneDone, Idle,
         envVars, clientVars, lifeVars
  <1>2. Claims'
      BY DEF ContainerInv, ContainerTypeOK, Tasks, Claims, Holds, PruneDone, Idle,
         clientVars
  <1>3. Belongs'
      BY DEF ContainerInv, Belongs, PruneDone, Idle, clientVars
  <1>4. HandClosed'
      BY DEF ContainerInv, HandClosed, PruneDone, Idle, clientVars
  <1>5. FirstIdle'
      BY ContainerConstants DEF ContainerInv, FirstIdle, PruneDone, Idle, Walkers,
         lifeVars
  <1>6. NoOrphanConn'
      BY DEF ContainerInv, NoOrphanConn, PruneDone, Idle, clientVars
  <1>7. YoungHasTimer' /\ ListedWhy' /\ ServerDown'
      BY DEF ContainerInv, YoungHasTimer, ListedWhy, ServerDown, PruneDone, clientVars,
         lifeVars
  <1> QED BY <1>1, <1>2, <1>3, <1>4, <1>5, <1>6, <1>7 DEF ContainerInv

LEMMA BuildClientKeeps ==
    ASSUME ContainerInv, NEW w \in Walkers, NEW i \in Ids, BuildClient(w, i)
    PROVE  ContainerInv'
  <1>1. ContainerTypeOK'
    <2>0. walker \in [Walkers -> Tasks] 
        BY DEF ContainerInv, ContainerTypeOK
    <2>1. ASSUME NEW v \in Walkers PROVE walker'[v] \in Tasks
        BY <2>0, <2>1 DEF Tasks, BuildClient
    <2>2. walker' \in [Walkers -> Tasks]
        BY <2>1 DEF ContainerInv, ContainerTypeOK, BuildClient
    <2> QED BY <2>2
        DEF ContainerInv, ContainerTypeOK, BuildClient, envVars, clientVars, lifeVars
  <1>2. Claims'
      BY DEF ContainerInv, ContainerTypeOK, Claims, Holds, BuildClient, envVars,
         clientVars, lifeVars
  <1>3. Belongs'
      BY DEF ContainerInv, ContainerTypeOK, Belongs, BuildClient, clientVars
  <1>4. HandClosed'
      BY DEF ContainerInv, ContainerTypeOK, HandClosed, BuildClient, clientVars
  <1>5. FirstIdle'
      BY ContainerConstants DEF ContainerInv, ContainerTypeOK, FirstIdle, BuildClient,
         Walkers, lifeVars
  <1>6. NoOrphanConn'
      BY DEF ContainerInv, ContainerTypeOK, NoOrphanConn, BuildClient, clientVars
  <1>7. YoungHasTimer' /\ ListedWhy' /\ ServerDown'
      BY DEF ContainerInv, YoungHasTimer, ListedWhy, ServerDown, BuildClient,
         clientVars, lifeVars
  <1> QED BY <1>1, <1>2, <1>3, <1>4, <1>5, <1>6, <1>7 DEF ContainerInv

LEMMA ShutStaleKeeps ==
    ASSUME ContainerInv, NEW w \in Walkers, NEW c \in Conns, ShutStale(w, c)
    PROVE  ContainerInv'
  <1>1. ContainerTypeOK'
    <2>0. walker \in [Walkers -> Tasks] 
        BY DEF ContainerInv, ContainerTypeOK
    <2>1. ASSUME NEW v \in Walkers PROVE walker'[v] \in Tasks
        BY <2>0, <2>1 DEF Tasks, ShutStale
    <2>2. walker' \in [Walkers -> Tasks]
        BY <2>1 DEF ContainerInv, ContainerTypeOK, ShutStale
    <2>3. conn' \in [Conns -> ConnStates]
      <3>1. ASSUME NEW d \in Conns PROVE conn'[d] \in ConnStates
          BY <3>1 DEF ContainerInv, ContainerTypeOK, ConnStates, ShutStale
      <3> QED BY <3>1 DEF ContainerInv, ContainerTypeOK, ShutStale
    <2> QED BY <2>2, <2>3 DEF ContainerInv, ContainerTypeOK, ShutStale, envVars, lifeVars
  <1>2. Claims'
      BY DEF ContainerInv, ContainerTypeOK, Claims, Holds, ShutStale, envVars, lifeVars
  <1>3. Belongs'
      BY DEF ContainerInv, ContainerTypeOK, Belongs, ShutStale
  <1>4. HandClosed'
      BY DEF ContainerInv, ContainerTypeOK, HandClosed, ShutStale
  <1>5. FirstIdle'
      BY ContainerConstants DEF ContainerInv, ContainerTypeOK, Tasks, FirstIdle,
         ShutStale, Walkers
  <1>6. NoOrphanConn'
      BY DEF ContainerInv, ContainerTypeOK, Tasks, NoOrphanConn, ShutStale
  <1>7. YoungHasTimer' /\ ListedWhy' /\ ServerDown'
      BY DEF ContainerInv, YoungHasTimer, ListedWhy, ServerDown, ShutStale, lifeVars
  <1> QED BY <1>1, <1>2, <1>3, <1>4, <1>5, <1>6, <1>7 DEF ContainerInv

(***************************************************************************)
(* Timers and readers.                                                     *)
(***************************************************************************)
LEMMA TryPromoteKeeps ==
    ASSUME ContainerInv, NEW c \in Conns, TryPromote(c)
    PROVE  ContainerInv'
  <1>1. ContainerTypeOK'
    <2>1. timers' \subseteq Conns
        BY DEF ContainerInv, ContainerTypeOK, TryPromote
    <2>2. adult' \subseteq Ids
        BY DEF ContainerInv, ContainerTypeOK, TryPromote, Belongs
    <2> QED BY <2>1, <2>2 DEF ContainerInv, ContainerTypeOK, TryPromote, envVars, lifeVars
  <1>2. Belongs'
      BY DEF ContainerInv, ContainerTypeOK, Belongs, TryPromote, envVars, lifeVars
  <1>3. YoungHasTimer'
      BY DEF ContainerInv, Belongs, YoungHasTimer, TryPromote
  <1>4. Claims' /\ HandClosed' /\ FirstIdle' /\ NoOrphanConn' /\ ListedWhy' /\ ServerDown'
      BY DEF ContainerInv, Claims, Holds, HandClosed, FirstIdle, NoOrphanConn,
         ListedWhy, ServerDown, TryPromote, lifeVars
  <1> QED BY <1>1, <1>2, <1>3, <1>4 DEF ContainerInv

LEMMA ReadLoopEndsKeeps ==
    ASSUME ContainerInv, NEW c \in Conns, ReadLoopEnds(c)
    PROVE  ContainerInv'
  <1>1. ContainerTypeOK'
    <2>1. slots' \in [Ids -> ConnOrNone] /\ adult' \subseteq Ids
        BY DEF ContainerInv, ContainerTypeOK, ReadLoopEnds, RemoveSlots, ConnOrNone
    <2>2. conn' \in [Conns -> ConnStates]
      <3>1. ASSUME NEW d \in Conns PROVE conn'[d] \in ConnStates
          BY <3>1 DEF ContainerInv, ContainerTypeOK, ConnStates, ReadLoopEnds
      <3> QED BY <3>1 DEF ContainerInv, ContainerTypeOK, ReadLoopEnds
    <2> QED BY <2>1, <2>2 DEF ContainerInv, ContainerTypeOK, ReadLoopEnds, envVars, lifeVars
  <1>2. Claims'
      BY DEF ContainerInv, ContainerTypeOK, Claims, Holds, ReadLoopEnds, RemoveSlots,
         Removed, envVars, lifeVars
  <1>3. Belongs'
      BY DEF ContainerInv, Belongs, ReadLoopEnds, RemoveSlots, Removed
  <1>4. HandClosed'
      BY DEF ContainerInv, HandClosed, ReadLoopEnds, RemoveSlots, Removed
  <1>5. NoOrphanConn'
      BY DEF ContainerInv, Belongs, NoOrphanConn, ReadLoopEnds, RemoveSlots, Removed
  <1>6. YoungHasTimer'
      BY DEF ContainerInv, Belongs, YoungHasTimer, ReadLoopEnds, RemoveSlots, Removed
  <1>7. FirstIdle' /\ ListedWhy' /\ ServerDown'
      BY DEF ContainerInv, FirstIdle, ListedWhy, ServerDown, ReadLoopEnds, RemoveSlots,
         lifeVars
  <1> QED BY <1>1, <1>2, <1>3, <1>4, <1>5, <1>6, <1>7 DEF ContainerInv

(***************************************************************************)
(* start.                                                                  *)
(***************************************************************************)
LEMMA SubscribeKeeps ==
    ASSUME ContainerInv, Subscribe
    PROVE  ContainerInv'
  <1>1. ContainerTypeOK'
      BY ContainerConstants DEF ContainerInv, ContainerTypeOK, Subscribe, envVars,
         clientVars
  <1>2. FirstIdle'
      BY ContainerConstants DEF ContainerInv, ContainerTypeOK, FirstIdle, Subscribe,
         Walkers
  <1>3. ListedWhy'
      BY DEF ContainerInv, ListedWhy, Subscribe
  <1>4. Claims' /\ Belongs' /\ HandClosed' /\ NoOrphanConn' /\ YoungHasTimer' /\ ServerDown'
      BY DEF ContainerInv, Claims, Holds, Belongs, HandClosed, NoOrphanConn,
         YoungHasTimer, ServerDown, Subscribe, clientVars
  <1> QED BY <1>1, <1>2, <1>3, <1>4 DEF ContainerInv

LEMMA FindKeeps ==
    ASSUME ContainerInv, Find
    PROVE  ContainerInv'
  <1>1. ContainerTypeOK'
      BY ContainerConstants DEF ContainerInv, ContainerTypeOK, ConnOrNone, Tasks, Find,
         Walkers, Idle, envVars, clientVars
  <1>2. Claims'
      BY ContainerConstants DEF ContainerInv, ContainerTypeOK, ConnOrNone, Tasks,
         FirstIdle, Claims, Holds, Find, Walkers, Idle, clientVars
  <1>3. Belongs'
      BY ContainerConstants DEF ContainerInv, Claims, Holds, FirstIdle, Belongs, Find,
         Walkers, Idle, clientVars
  <1>4. HandClosed'
      BY ContainerConstants DEF ContainerInv, FirstIdle, HandClosed, Find, Walkers,
         Idle, clientVars
  <1>5. FirstIdle'
      BY ContainerConstants DEF ContainerInv, FirstIdle, Find, Walkers, Idle
  <1>6. NoOrphanConn'
      BY ContainerConstants DEF ContainerInv, FirstIdle, NoOrphanConn, Find, Walkers,
         Idle, clientVars
  <1>7. ListedWhy'
      BY ContainerConstants DEF ContainerInv, FirstIdle, ListedWhy, Find, Walkers, Idle
  <1>8. YoungHasTimer' /\ ServerDown'
      BY DEF ContainerInv, YoungHasTimer, ServerDown, Find, clientVars
  <1> QED BY <1>1, <1>2, <1>3, <1>4, <1>5, <1>6, <1>7, <1>8 DEF ContainerInv

LEMMA ConnectedKeeps ==
    ASSUME ContainerInv, Connected
    PROVE  ContainerInv'
  <1>1. ContainerTypeOK'
      BY ContainerConstants DEF ContainerInv, ContainerTypeOK, Connected, envVars,
         clientVars
  <1>2. FirstIdle'
      BY ContainerConstants DEF ContainerInv, ContainerTypeOK, FirstIdle, Connected,
         Walkers
  <1>3. ListedWhy'
      BY DEF ContainerInv, ListedWhy, Connected
  <1>4. Claims' /\ Belongs' /\ HandClosed' /\ NoOrphanConn' /\ YoungHasTimer' /\ ServerDown'
      BY DEF ContainerInv, Claims, Holds, Belongs, HandClosed, NoOrphanConn,
         YoungHasTimer, ServerDown, Connected, clientVars
  <1> QED BY <1>1, <1>2, <1>3, <1>4 DEF ContainerInv

LEMMA RegisterKeeps ==
    ASSUME ContainerInv, Register
    PROVE  ContainerInv'
  <1>1. ContainerTypeOK'
      BY ContainerConstants DEF ContainerInv, ContainerTypeOK, Register, envVars,
         clientVars
  <1>2. FirstIdle'
      BY ContainerConstants DEF ContainerInv, ContainerTypeOK, FirstIdle, Register,
         Walkers
  <1>3. ListedWhy'
      BY DEF ContainerInv, ListedWhy, Register
  <1>4. Claims' /\ Belongs' /\ HandClosed' /\ NoOrphanConn' /\ YoungHasTimer' /\ ServerDown'
      BY DEF ContainerInv, Claims, Holds, Belongs, HandClosed, NoOrphanConn,
         YoungHasTimer, ServerDown, Register, clientVars
  <1> QED BY <1>1, <1>2, <1>3, <1>4 DEF ContainerInv

LEMMA RegisteredKeeps ==
    ASSUME ContainerInv, Registered
    PROVE  ContainerInv'
  <1>1. ContainerTypeOK'
      BY ContainerConstants DEF ContainerInv, ContainerTypeOK, Registered,
         RecheckClosed, Delist, envVars, clientVars
  <1>2. FirstIdle'
      BY ContainerConstants DEF ContainerInv, ContainerTypeOK, FirstIdle, Registered,
         RecheckClosed, Delist, Walkers
  <1>3. ListedWhy'
      BY DEF ContainerInv, ListedWhy, Registered, RecheckClosed, Delist, Closed
  <1>4. Claims' /\ Belongs' /\ HandClosed' /\ NoOrphanConn' /\ YoungHasTimer' /\ ServerDown'
      BY DEF ContainerInv, Claims, Holds, Belongs, HandClosed, NoOrphanConn,
         YoungHasTimer, ServerDown, Registered, clientVars
  <1> QED BY <1>1, <1>2, <1>3, <1>4 DEF ContainerInv

LEMMA SpawnServerKeeps ==
    ASSUME ContainerInv, SpawnServer
    PROVE  ContainerInv'
  <1>1. ContainerTypeOK'
      BY ContainerConstants DEF ContainerInv, ContainerTypeOK, SpawnServer, envVars,
         clientVars
  <1>2. FirstIdle'
      BY ContainerConstants DEF ContainerInv, ContainerTypeOK, FirstIdle, SpawnServer,
         Walkers
  <1>3. ListedWhy'
      BY DEF ContainerInv, ListedWhy, SpawnServer
  <1>4. ServerDown'
      BY DEF ContainerInv, ServerDown, SpawnServer
  <1>5. Claims' /\ Belongs' /\ HandClosed' /\ NoOrphanConn' /\ YoungHasTimer'
      BY DEF ContainerInv, Claims, Holds, Belongs, HandClosed, NoOrphanConn,
         YoungHasTimer, SpawnServer, clientVars
  <1> QED BY <1>1, <1>2, <1>3, <1>4, <1>5 DEF ContainerInv

LEMMA ServerStartsKeeps ==
    ASSUME ContainerInv, ServerStarts
    PROVE  ContainerInv'
  <1>1. ContainerTypeOK'
      BY ContainerConstants DEF ContainerInv, ContainerTypeOK, ServerStarts, envVars,
         clientVars
  <1>2. ServerDown'
      BY DEF ContainerInv, ContainerTypeOK, ServerDown, ServerStarts
  <1>3. /\ Claims' /\ Belongs' /\ HandClosed' /\ FirstIdle' /\ NoOrphanConn'
        /\ YoungHasTimer' /\ ListedWhy'
      BY DEF ContainerInv, Claims, Holds, Belongs, HandClosed, FirstIdle, NoOrphanConn,
         YoungHasTimer, ListedWhy, ServerStarts, clientVars
  <1> QED BY <1>1, <1>2, <1>3 DEF ContainerInv

LEMMA StartReturnsKeeps ==
    ASSUME ContainerInv, StartReturns
    PROVE  ContainerInv'
  <1>1. ContainerTypeOK'
      BY ContainerConstants DEF ContainerInv, ContainerTypeOK, StartReturns, envVars,
         clientVars
  <1>2. FirstIdle'
      BY ContainerConstants DEF ContainerInv, ContainerTypeOK, FirstIdle, StartReturns,
         Walkers
  <1>3. ListedWhy'
      BY DEF ContainerInv, ListedWhy, StartReturns
  <1>4. Claims' /\ Belongs' /\ HandClosed' /\ NoOrphanConn' /\ YoungHasTimer' /\ ServerDown'
      BY DEF ContainerInv, Claims, Holds, Belongs, HandClosed, NoOrphanConn,
         YoungHasTimer, ServerDown, StartReturns, clientVars
  <1> QED BY <1>1, <1>2, <1>3, <1>4 DEF ContainerInv

(***************************************************************************)
(* shutdown.                                                               *)
(***************************************************************************)
LEMMA ShutdownKeeps ==
    ASSUME ContainerInv, Shutdown
    PROVE  ContainerInv'
  <1>1. ContainerTypeOK'
      BY ContainerConstants DEF ContainerInv, ContainerTypeOK, Shutdown, envVars,
         clientVars
  <1>2. ListedWhy'
      BY DEF ContainerInv, ContainerTypeOK, ListedWhy, Shutdown
  <1>3. ServerDown'
      BY DEF ContainerInv, ServerDown, Shutdown
  <1>4. Claims' /\ Belongs' /\ HandClosed' /\ FirstIdle' /\ NoOrphanConn' /\ YoungHasTimer'
      BY DEF ContainerInv, Claims, Holds, Belongs, HandClosed, FirstIdle, NoOrphanConn,
         YoungHasTimer, Shutdown, clientVars
  <1> QED BY <1>1, <1>2, <1>3, <1>4 DEF ContainerInv

LEMMA DeregisterKeeps ==
    ASSUME ContainerInv, Deregister
    PROVE  ContainerInv'
  <1>1. ContainerTypeOK'
      BY ContainerConstants DEF ContainerInv, ContainerTypeOK, Deregister, Delist,
         envVars, clientVars
  <1>2. ListedWhy'
      BY DEF ContainerInv, ContainerTypeOK, ListedWhy, Deregister, Delist
  <1>3. ServerDown'
      BY DEF ContainerInv, ServerDown, Deregister
  <1>4. Claims' /\ Belongs' /\ HandClosed' /\ FirstIdle' /\ NoOrphanConn' /\ YoungHasTimer'
      BY DEF ContainerInv, Claims, Holds, Belongs, HandClosed, FirstIdle, NoOrphanConn,
         YoungHasTimer, Deregister, clientVars
  <1> QED BY <1>1, <1>2, <1>3, <1>4 DEF ContainerInv

LEMMA UnsubscribeKeeps ==
    ASSUME ContainerInv, Unsubscribe
    PROVE  ContainerInv'
  <1>1. ContainerTypeOK'
      BY ContainerConstants DEF ContainerInv, ContainerTypeOK, Unsubscribe, envVars,
         clientVars
  <1>2. ListedWhy'
      BY DEF ContainerInv, ContainerTypeOK, ListedWhy, Unsubscribe
  <1>3. ServerDown'
      BY DEF ContainerInv, ServerDown, Unsubscribe
  <1>4. Claims' /\ Belongs' /\ HandClosed' /\ FirstIdle' /\ NoOrphanConn' /\ YoungHasTimer'
      BY DEF ContainerInv, Claims, Holds, Belongs, HandClosed, FirstIdle, NoOrphanConn,
         YoungHasTimer, Unsubscribe, clientVars
  <1> QED BY <1>1, <1>2, <1>3, <1>4 DEF ContainerInv

LEMMA ServerShutdownKeeps ==
    ASSUME ContainerInv, ServerShutdown
    PROVE  ContainerInv'
  <1>1. ContainerTypeOK'
      BY ContainerConstants DEF ContainerInv, ContainerTypeOK, ServerShutdown, envVars,
         clientVars
  <1>2. ListedWhy'
      BY DEF ContainerInv, ContainerTypeOK, ListedWhy, ServerShutdown
  <1>3. ServerDown'
      BY DEF ContainerInv, ServerDown, ServerShutdown
  <1>4. Claims' /\ Belongs' /\ HandClosed' /\ FirstIdle' /\ NoOrphanConn' /\ YoungHasTimer'
      BY DEF ContainerInv, Claims, Holds, Belongs, HandClosed, FirstIdle, NoOrphanConn,
         YoungHasTimer, ServerShutdown, clientVars
  <1> QED BY <1>1, <1>2, <1>3, <1>4 DEF ContainerInv

LEMMA SweepClientsKeeps ==
    ASSUME ContainerInv, SweepClients
    PROVE  ContainerInv'
  <1>1. ContainerTypeOK'
    <2>1. slots' \in [Ids -> ConnOrNone] /\ adult' \subseteq Ids
        BY DEF ContainerInv, ContainerTypeOK, SweepClients, RemoveSlots, ConnOrNone
    <2>2. conn' \in [Conns -> ConnStates]
      <3>1. ASSUME NEW d \in Conns PROVE conn'[d] \in ConnStates
          BY <3>1 DEF ContainerInv, ContainerTypeOK, ConnStates, SweepClients
      <3> QED BY <3>1 DEF ContainerInv, ContainerTypeOK, SweepClients
    <2> QED BY <2>1, <2>2 DEF ContainerInv, ContainerTypeOK, SweepClients, envVars
  <1>2. Claims'
      BY DEF ContainerInv, ContainerTypeOK, Claims, Holds, SweepClients, RemoveSlots,
         envVars
  <1>3. Belongs'
      BY DEF ContainerInv, ContainerTypeOK, Belongs, SweepClients, RemoveSlots
  <1>4. HandClosed'
      BY DEF ContainerInv, ContainerTypeOK, ConnOrNone, Tasks, HandClosed, SweepClients,
         RemoveSlots
  <1>5. NoOrphanConn'
      BY DEF ContainerInv, Belongs, NoOrphanConn, SweepClients, RemoveSlots
  <1>6. YoungHasTimer'
      BY DEF ContainerInv, Belongs, YoungHasTimer, SweepClients, RemoveSlots
  <1>7. ListedWhy'
      BY DEF ContainerInv, ListedWhy, SweepClients, RemoveSlots
  <1>8. ServerDown'
      BY DEF ContainerInv, ServerDown, SweepClients, RemoveSlots
  <1>9. FirstIdle'
      BY DEF ContainerInv, FirstIdle, SweepClients, RemoveSlots
  <1> QED BY <1>1, <1>2, <1>3, <1>4, <1>5, <1>6, <1>7, <1>8, <1>9 DEF ContainerInv

(***************************************************************************)
(* Initial states, every step, and what follows.                           *)
(***************************************************************************)
LEMMA ContainerStarts == ContainerInit => ContainerInv
  <1> SUFFICES ASSUME ContainerInit PROVE ContainerInv OBVIOUS
  <1>1. ContainerTypeOK
    <2>1. up \subseteq Ids /\ catalog \subseteq Ids /\ moves \in 0 .. MaxMoves
        BY ContainerConstants DEF ContainerInit
    <2>2. Idle \in Tasks /\ NoConn \in ConnStates
        BY DEF Tasks, Idle, ConnStates, NoConn, ConnOrNone
    <2>3. /\ walker \in [Walkers -> Tasks] /\ conn \in [Conns -> ConnStates]
          /\ slots \in [Ids -> ConnOrNone]
        BY <2>2 DEF ContainerInit, ConnOrNone
    <2> QED BY <2>1, <2>3 DEF ContainerInit, ContainerTypeOK
  <1>2. Claims /\ HandClosed /\ FirstIdle
      BY DEF ContainerInit, Claims, Holds, HandClosed, FirstIdle, Idle, Walkers
  <1>3. Belongs /\ NoOrphanConn /\ YoungHasTimer
      BY DEF ContainerInit, Belongs, NoOrphanConn, YoungHasTimer, NoConn, Idle
  <1>4. ListedWhy /\ ServerDown
      BY DEF ContainerInit, ListedWhy, ServerDown
  <1> QED BY <1>1, <1>2, <1>3, <1>4 DEF ContainerInv

LEMMA ContainerStutters ==
    ASSUME ContainerInv, UNCHANGED containerVars
    PROVE  ContainerInv'
  <1>1. ContainerTypeOK'
      BY DEF ContainerInv, ContainerTypeOK, containerVars, envVars, clientVars, lifeVars
  <1>2. /\ Claims' /\ Belongs' /\ HandClosed' /\ FirstIdle' /\ NoOrphanConn'
        /\ YoungHasTimer' /\ ListedWhy' /\ ServerDown'
      BY DEF ContainerInv, Claims, Holds, Belongs, HandClosed, FirstIdle, NoOrphanConn,
         YoungHasTimer, ListedWhy, ServerDown, containerVars, clientVars, lifeVars
  <1> QED BY <1>1, <1>2 DEF ContainerInv

LEMMA WalkerKeeps ==
    ASSUME ContainerInv, NEW w \in Walkers, WalkerStep(w)
    PROVE  ContainerInv'
  BY ApplySnapshotKeeps, ClaimDialKeeps, DialedKeeps, DialFailsKeeps, InsertSlotKeeps,
     ListDoneKeeps, RemoveStaleKeeps, PruneDoneKeeps, BuildClientKeeps, ShutStaleKeeps DEF
     WalkerStep

LEMMA LifeKeeps ==
    ASSUME ContainerInv, BootStep \/ Shutdown \/ HaltStep
    PROVE  ContainerInv'
  BY SubscribeKeeps, FindKeeps, ConnectedKeeps, RegisterKeeps, RegisteredKeeps,
     SpawnServerKeeps, ServerStartsKeeps, StartReturnsKeeps, ShutdownKeeps,
     DeregisterKeeps, UnsubscribeKeeps, ServerShutdownKeeps, SweepClientsKeeps DEF
     BootStep, HaltStep

LEMMA ContainerStep ==
    ASSUME ContainerInv, [ContainerNext]_containerVars
    PROVE  ContainerInv'
  <1>1. CASE UNCHANGED containerVars BY <1>1, ContainerStutters
  <1>2. ASSUME NEW S \in Lists, CatalogMoves(S) PROVE ContainerInv'
      BY <1>2, CatalogMovesKeeps
  <1>3. ASSUME NEW i \in Ids, PeerStops(i) \/ PeerStarts(i) PROVE ContainerInv'
      BY <1>3, PeerStopsKeeps, PeerStartsKeeps
  <1>4. CASE WatchAnswers BY <1>4, WatchAnswersKeeps
  <1>5. ASSUME NEW w \in Snaps, WatchCalls(w) PROVE ContainerInv'
      BY <1>5, WatchCallsKeeps
  <1>6. CASE ReconnectMissing BY <1>6, ReconnectMissingKeeps
  <1>7. ASSUME NEW w \in Walkers, WalkerStep(w) PROVE ContainerInv'
      BY <1>7, WalkerKeeps
  <1>8. ASSUME NEW c \in Conns, TryPromote(c) \/ ReadLoopEnds(c) PROVE ContainerInv'
      BY <1>8, TryPromoteKeeps, ReadLoopEndsKeeps
  <1>9. CASE BootStep \/ Shutdown \/ HaltStep BY <1>9, LifeKeeps
  <1> QED BY <1>1, <1>2, <1>3, <1>4, <1>5, <1>6, <1>7, <1>8, <1>9 DEF ContainerNext

LEMMA ContainerInvariance == ContainerSpec => []ContainerInv
  <1>1. ContainerInv /\ [ContainerNext]_containerVars => ContainerInv' BY ContainerStep
  <1> QED BY <1>1, ContainerStarts, PTL DEF ContainerSpec

(* Every variable of the container keeps its type. *)
THEOREM ContainerTypes == ContainerSpec => []ContainerTypeOK
  <1>1. ContainerInv => ContainerTypeOK BY DEF ContainerInv
  <1> QED BY <1>1, ContainerInvariance, PTL

(* However many snapshots, redials, readers and restarts interleave, an    *)
(* open connection is the one in its instance's slot, or is about to be    *)
(* put there by the one task that holds the dial (claim_dial,              *)
(* dial_and_insert, apply_snapshot, read_loop).                            *)
THEOREM ConnSafety == ContainerSpec => []NoOrphanConn
  <1>1. ContainerInv => NoOrphanConn BY DEF ContainerInv
  <1> QED BY <1>1, ContainerInvariance, PTL

(* A slot that is not adult yet has its promotion still to come, even when *)
(* the timer of an earlier connection of the instance fires on it          *)
(* (schedule_promote, try_promote).                                        *)
THEOREM PromotionSafety == ContainerSpec => []YoungHasTimer
  <1>1. ContainerInv => YoungHasTimer BY DEF ContainerInv
  <1> QED BY <1>1, ContainerInvariance, PTL

(* However start and shutdown run into each other, once both are past      *)
(* their last look the naming service does not list the node and its       *)
(* server does not listen (Container::start, Container::shutdown).         *)
THEOREM StopSafety == ContainerSpec => []StoppedMeansGone
  <1>1. ContainerInv => StoppedMeansGone
      BY DEF ContainerInv, ListedWhy, ServerDown, StoppedMeansGone
  <1> QED BY <1>1, ContainerInvariance, PTL

-----------------------------------------------------------------------------
(***************************************************************************)
(* Freshness of the location cache.                                        *)
(***************************************************************************)
USE OwnerAssumption, ChannelsAssumption, WritersAssumption, UnknownAssumption,
    BoundsAssumption

\* The steps of the specification, one by one.
LEMMA NextCases ==
  ASSUME Next
  PROVE  \/ \E a \in Accounts : ExpireLocations(a)
         \/ \E a \in Accounts : EvictLocs(a)
         \/ \E a \in Accounts : EvictNeg(a)
         \/ \E c \in Channels : ExpireSession(c)
         \/ \E c \in Channels : EvictSession(c)
         \/ \E w \in Writers, o \in Ops : WriteRedis(w, o)
         \/ \E w \in Writers, o \in Ops : WriteTimesOut(w, o)
         \/ \E w \in Writers : PublishInv(w)
         \/ \E w \in Writers : PublishUnheard(w)
         \/ \E w \in Writers : PublishFails(w)
         \/ \E w \in Writers : ApplyAdd(w)
         \/ \E w \in Writers : ApplyDelete(w)
         \/ InvalidateAccount
         \/ DropSubscription
         \/ FlushDropped
         \/ ResubscribeFails
         \/ Resubscribe
         \/ \E f \in Fills, A \in SUBSET Accounts : BeginFill(f, A)
         \/ \E f \in Fills : QueryMisses(f)
         \/ \E f \in Fills : QueryNoDevice(f)
         \/ \E f \in Fills : FillFails(f)
         \/ \E f \in Fills, a \in Accounts : ListOne(f, a)
         \/ \E f \in Fills, a \in Accounts : InstallLocs(f, a)
         \/ \E g \in Gets, c \in Channels : BeginGet(g, c)
         \/ \E g \in Gets : QuerySession(g)
         \/ \E g \in Gets : InstallSession(g)
  BY Zenon DEF Next

LEMMA Registers == NoOp \in Ops /\ NoCh \in Channels
<1>1. NoCh \in Channels
  BY DEF NoCh
<1>2. [op |-> "add", ch |-> NoCh] \in Ops
  BY <1>1 DEF Ops
<1> QED
  BY <1>1, <1>2 DEF NoOp

LEMMA OpsType == \A o \in Ops : o.ch \in Channels /\ Owner[o.ch] \in Accounts
  BY DEF Ops

LEMMA NextMissType ==
  ASSUME TypeOK, NEW f \in Fills, NEW a \in Accounts, NextMiss(f, a)
  PROVE  /\ fpc' \in [Fills -> {"idle", "query", "fill"}]
         /\ misses' \in [Fills -> SUBSET Accounts]
         /\ stamp' \in [Fills -> 0 .. epoch]
         /\ read' \in [Fills -> [Accounts -> {Unknown} \cup SUBSET Channels]]
<1>1. CASE misses[f] = {a}
  <2>1. EndFill(f)
    BY <1>1 DEF NextMiss
  <2> QED
    BY <2>1 DEF EndFill, NothingRead, TypeOK
<1>2. CASE misses[f] # {a}
  <2>1. SkipMiss(f, a)
    BY <1>2 DEF NextMiss
  <2> QED
    BY <2>1 DEF SkipMiss, TypeOK
<1> QED
  BY <1>1, <1>2

\* The account of a writer's call, and where the writer is after its publish.
LEMMA WriterType ==
  ASSUME TypeOK, NEW w \in Writers
  PROVE  /\ Owner[wop[w].ch] \in Accounts
         /\ AfterPublish(w) => /\ wpc' \in [Writers -> {"idle", "wrote", "published"}]
                               /\ wop' \in [Writers -> Ops]
<1>1. wop \in [Writers -> Ops] /\ wpc \in [Writers -> {"idle", "wrote", "published"}]
  BY DEF TypeOK
<1>2. Owner[wop[w].ch] \in Accounts
  BY <1>1, OpsType
<1> QED
  BY <1>1, <1>2, Registers DEF AfterPublish, EndWrite

\* Every step keeps the types.
LEMMA TypeStep ==
  ASSUME TypeOK, Next
  PROVE  TypeOK'
<1> USE DEF redis, writers, link, cache, fills, gets
<1>1. ASSUME NEW a \in Accounts, ExpireLocations(a) PROVE TypeOK'
  BY <1>1, Registers, OpsType DEF ExpireLocations, TypeOK
<1>2. ASSUME NEW a \in Accounts, EvictLocs(a) PROVE TypeOK'
  BY <1>2, Registers, OpsType DEF EvictLocs, TypeOK
<1>3. ASSUME NEW a \in Accounts, EvictNeg(a) PROVE TypeOK'
  BY <1>3, Registers, OpsType DEF EvictNeg, TypeOK
<1>4. ASSUME NEW c \in Channels, ExpireSession(c) PROVE TypeOK'
  BY <1>4, Registers, OpsType DEF ExpireSession, TypeOK
<1>5. ASSUME NEW c \in Channels, EvictSession(c) PROVE TypeOK'
  BY <1>5, Registers, OpsType DEF EvictSession, TypeOK
<1>6. ASSUME NEW w \in Writers, NEW o \in Ops, WriteRedis(w, o) PROVE TypeOK'
  BY <1>6, Registers, OpsType DEF WriteRedis, AddSession, DeleteSession, TypeOK,
     Writers
<1>7. ASSUME NEW w \in Writers, NEW o \in Ops, WriteTimesOut(w, o) PROVE TypeOK'
  BY <1>7, Registers, OpsType DEF WriteTimesOut, AddSession, DeleteSession, TypeOK,
     Writers
<1>8. ASSUME NEW w \in Writers, PublishInv(w) PROVE TypeOK'
  <2>1. bus' \in Seq(Accounts)
    BY <1>8, WriterType DEF PublishInv, TypeOK
  <2>2. AfterPublish(w)
    BY <1>8 DEF PublishInv
  <2> QED
    BY <1>8, <2>1, <2>2, WriterType DEF PublishInv, TypeOK
<1>9. ASSUME NEW w \in Writers, PublishUnheard(w) PROVE TypeOK'
  <2>1. missed' \subseteq Accounts
    BY <1>9, WriterType DEF PublishUnheard, TypeOK
  <2>2. AfterPublish(w)
    BY <1>9 DEF PublishUnheard
  <2> QED
    BY <1>9, <2>1, <2>2, WriterType DEF PublishUnheard, TypeOK
<1>10. ASSUME NEW w \in Writers, PublishFails(w) PROVE TypeOK'
  <2>1. missed' \subseteq Accounts
    BY <1>10, WriterType DEF PublishFails, TypeOK
  <2>2. AfterPublish(w)
    BY <1>10 DEF PublishFails
  <2> QED
    BY <1>10, <2>1, <2>2, WriterType DEF PublishFails, TypeOK
<1>11. ASSUME NEW w \in Writers, ApplyAdd(w) PROVE TypeOK'
  BY <1>11, Registers, OpsType DEF ApplyAdd, BumpFillEpoch, Forget, EndWrite, TypeOK,
     Writers
<1>12. ASSUME NEW w \in Writers, ApplyDelete(w) PROVE TypeOK'
  BY <1>12, Registers, OpsType DEF ApplyDelete, BumpFillEpoch, Forget, EndWrite,
     TypeOK, Writers
<1>13. CASE InvalidateAccount
  <2>1. bus \in Seq(Accounts) /\ bus # <<>> /\ bus' = Tail(bus)
    BY <1>13 DEF InvalidateAccount, TypeOK
  <2>2. Head(bus) \in Accounts /\ bus' \in Seq(Accounts)
    BY <2>1, HeadTailProperties
  <2> QED
    BY <1>13, <2>2 DEF InvalidateAccount, BumpFillEpoch, Listed, Forget, TypeOK
<1>14. CASE DropSubscription
  BY <1>14, Registers, OpsType DEF DropSubscription, TypeOK
<1>15. CASE FlushDropped
  BY <1>15, Registers, OpsType DEF FlushDropped, InvalidateAll, BumpFillEpoch, TypeOK
<1>16. CASE ResubscribeFails
  BY <1>16, Registers, OpsType DEF ResubscribeFails, InvalidateAll, BumpFillEpoch,
     TypeOK
<1>17. CASE Resubscribe
  BY <1>17, Registers, OpsType DEF Resubscribe, TypeOK
<1>18. ASSUME NEW f \in Fills, NEW A \in SUBSET Accounts, BeginFill(f, A) PROVE TypeOK'
  BY <1>18, Registers, OpsType DEF BeginFill, TypeOK
<1>19. ASSUME NEW f \in Fills, QueryMisses(f) PROVE TypeOK'
  BY <1>19 DEF QueryMisses, TypeOK, Slots, NothingRead
<1>20. ASSUME NEW f \in Fills, QueryNoDevice(f) PROVE TypeOK'
  BY <1>20 DEF QueryNoDevice, EndFill, TypeOK, NothingRead
<1>21. ASSUME NEW f \in Fills, FillFails(f) PROVE TypeOK'
  BY <1>21 DEF FillFails, EndFill, TypeOK, NothingRead
<1>22. ASSUME NEW f \in Fills, NEW a \in Accounts, ListOne(f, a) PROVE TypeOK'
  BY <1>22, Registers DEF ListOne, TypeOK, Slots
<1>23. ASSUME NEW f \in Fills, NEW a \in Accounts, InstallLocs(f, a) PROVE TypeOK'
  <2>1. read[f][a] \in SUBSET Channels
    BY <1>23 DEF InstallLocs, TypeOK
  <2>2. /\ channels' \in [Accounts -> SUBSET Channels]
        /\ neg' \subseteq Accounts
        /\ locs' \in [Accounts -> {Unknown} \cup SUBSET Channels]
    BY <1>23, <2>1 DEF InstallLocs, RememberLocs, RememberEmpty, TypeOK
  <2>3. NextMiss(f, a)
    BY <1>23 DEF InstallLocs
  <2> QED
    BY <1>23, <2>2, <2>3, NextMissType DEF InstallLocs, TypeOK
<1>24. ASSUME NEW g \in Gets, NEW c \in Channels, BeginGet(g, c) PROVE TypeOK'
  BY <1>24, Registers, OpsType DEF BeginGet, TypeOK
<1>25. ASSUME NEW g \in Gets, QuerySession(g) PROVE TypeOK'
  BY <1>25, Registers, OpsType DEF QuerySession, EndGet, TypeOK
<1>26. ASSUME NEW g \in Gets, InstallSession(g) PROVE TypeOK'
  BY <1>26, Registers, OpsType DEF InstallSession, EndGet, TypeOK
<1> QED
  BY NextCases, <1>1, <1>2, <1>3, <1>4, <1>5, <1>6, <1>7, <1>8, <1>9, <1>10, <1>11,
     <1>12, <1>13, <1>14, <1>15, <1>16, <1>17, <1>18, <1>19, <1>20, <1>21, <1>22,
     <1>23, <1>24, <1>25, <1>26

---------------------------------------------------------------------------
(* What a step does to the entry, to the pending read and to the truth of  *)
(* one account.                                                            *)

\* The entry stays or goes, or a fill whose stamp matches installs its read.
EntryKept(b) == locs'[b] \in {Unknown, locs[b]} /\ (b \in neg' => b \in neg)

EntryInstalled(b) ==
  \E f \in Fills :
    /\ stamp[f] = epoch /\ read[f][b] # Unknown
    /\ UNCHANGED <<redis, writers, link, epoch>>
    /\ locs'[b] # Unknown => locs'[b] = read[f][b]
    /\ b \in neg' => read[f][b] = {}

\* A read goes, stays, or is taken from Redis.
ReadKept(f, b) == read'[f][b] = Unknown \/ (read'[f][b] = read[f][b] /\ stamp'[f] = stamp[f])

ReadTaken(f, b) == read'[f][b] = Slots({b}) /\ UNCHANGED redis

\* The account was settled and shows no more than before, or the step drops it.
TruthKept(b) ==
  Settled(b) /\ Slots({b})' \subseteq Slots({b}) /\ deleted' \cap Of(b) \subseteq deleted

Dropped(b) == locs'[b] = Unknown /\ b \notin neg' /\ epoch' = epoch + 1

\* An entry appears only by a fill whose stamp still matches.
LEMMA EntryStep ==
  ASSUME TypeOK, NEW b \in Accounts, Next
  PROVE  EntryKept(b) \/ EntryInstalled(b)
<1> USE DEF redis, writers, link, cache, fills, gets
<1>1. ASSUME NEW a \in Accounts, EvictLocs(a) PROVE EntryKept(b) \/ EntryInstalled(b)
  BY <1>1, OpsType DEF EvictLocs, EntryKept, TypeOK
<1>2. ASSUME NEW a \in Accounts, EvictNeg(a) PROVE EntryKept(b) \/ EntryInstalled(b)
  BY <1>2, OpsType DEF EvictNeg, EntryKept, TypeOK
<1>3. ASSUME NEW w \in Writers, ApplyAdd(w) PROVE EntryKept(b) \/ EntryInstalled(b)
  BY <1>3, OpsType DEF ApplyAdd, BumpFillEpoch, Forget, EndWrite, EntryKept, TypeOK
<1>4. ASSUME NEW w \in Writers, ApplyDelete(w) PROVE EntryKept(b) \/ EntryInstalled(b)
  BY <1>4, OpsType DEF ApplyDelete, BumpFillEpoch, Forget, EndWrite, EntryKept, TypeOK
<1>5. CASE InvalidateAccount
  BY <1>5, OpsType DEF InvalidateAccount, BumpFillEpoch, Listed, Forget, EntryKept,
     TypeOK
<1>6. CASE FlushDropped
  BY <1>6, OpsType DEF FlushDropped, InvalidateAll, BumpFillEpoch, EntryKept, TypeOK
<1>7. CASE ResubscribeFails
  BY <1>7, OpsType DEF ResubscribeFails, InvalidateAll, BumpFillEpoch, EntryKept,
     TypeOK
<1>8. ASSUME NEW f \in Fills, NEW a \in Accounts, InstallLocs(f, a) PROVE EntryKept(b) \/ EntryInstalled(b)
  <2>1. CASE a # b \/ stamp[f] # epoch
    <3>1. \/ UNCHANGED <<channels, neg, locs>>
          \/ a # b /\ RememberEmpty(a)
          \/ a # b /\ RememberLocs(a, read[f][a])
      BY <1>8, <2>1 DEF InstallLocs
    <3> QED
      BY <3>1 DEF RememberLocs, RememberEmpty, EntryKept, TypeOK
  <2>2. CASE a = b /\ stamp[f] = epoch
    <3>1. read[f][b] # Unknown /\ UNCHANGED <<redis, writers, link, epoch>>
      BY <1>8, <2>2 DEF InstallLocs
    <3>2. CASE read[f][b] = {}
      <4>1. RememberEmpty(b)
        BY <1>8, <2>2, <3>2 DEF InstallLocs
      <4>2. locs'[b] = Unknown
        BY <4>1 DEF RememberEmpty, TypeOK
      <4> QED
        BY <2>2, <3>1, <3>2, <4>2 DEF EntryInstalled
    <3>3. CASE read[f][b] # {}
      <4>1. RememberLocs(b, read[f][b])
        BY <1>8, <2>2, <3>3 DEF InstallLocs
      <4>2. locs'[b] = read[f][b] /\ b \notin neg'
        BY <4>1 DEF RememberLocs, TypeOK
      <4> QED
        BY <2>2, <3>1, <4>2 DEF EntryInstalled
    <3> QED
      BY <3>2, <3>3
  <2> QED
    BY <2>1, <2>2
<1>9. CASE UNCHANGED <<locs, neg>>
  BY <1>9 DEF EntryKept, TypeOK
<1> QED
  BY NextCases, <1>1, <1>2, <1>3, <1>4, <1>5, <1>6, <1>7, <1>8, <1>9 DEF
     ExpireLocations, ExpireSession, EvictSession, WriteRedis, AddSession,
     DeleteSession, WriteTimesOut, PublishInv, AfterPublish, EndWrite, PublishUnheard,
     PublishFails, DropSubscription, Resubscribe, BeginFill, QueryMisses,
     QueryNoDevice, EndFill, FillFails, ListOne, BeginGet, QuerySession, EndGet,
     InstallSession

\* A read appears only from Redis.
LEMMA ReadStep ==
  ASSUME TypeOK, IdleReadsNothing, NEW h \in Fills, NEW b \in Accounts, Next
  PROVE  ReadKept(h, b) \/ ReadTaken(h, b)
<1> USE DEF redis, writers, link, cache, fills, gets
<1>1. ASSUME NEW f \in Fills, NEW A \in SUBSET Accounts, BeginFill(f, A) PROVE ReadKept(h, b) \/ ReadTaken(h, b)
  <2>1. CASE h = f
    <3>1. read'[h] = NothingRead
      BY <1>1, <2>1 DEF BeginFill, IdleReadsNothing
    <3> QED
      BY <3>1 DEF ReadKept, NothingRead
  <2>2. CASE h # f
    BY <1>1, <2>2 DEF BeginFill, ReadKept, TypeOK
  <2> QED
    BY <2>1, <2>2
<1>2. ASSUME NEW f \in Fills, QueryMisses(f) PROVE ReadKept(h, b) \/ ReadTaken(h, b)
  <2>1. CASE h = f
    BY <1>2, <2>1 DEF QueryMisses, ReadKept, ReadTaken, NothingRead, TypeOK
  <2>2. CASE h # f
    BY <1>2, <2>2 DEF QueryMisses, ReadKept, TypeOK
  <2> QED
    BY <2>1, <2>2
<1>3. ASSUME NEW f \in Fills, QueryNoDevice(f) PROVE ReadKept(h, b) \/ ReadTaken(h, b)
  BY <1>3 DEF QueryNoDevice, EndFill, ReadKept, NothingRead, TypeOK
<1>4. ASSUME NEW f \in Fills, FillFails(f) PROVE ReadKept(h, b) \/ ReadTaken(h, b)
  BY <1>4 DEF FillFails, EndFill, ReadKept, NothingRead, TypeOK
<1>5. ASSUME NEW f \in Fills, NEW a \in Accounts, ListOne(f, a) PROVE ReadKept(h, b) \/ ReadTaken(h, b)
  <2>1. CASE h = f /\ a = b
    BY <1>5, <2>1 DEF ListOne, ReadTaken, TypeOK
  <2>2. CASE h # f \/ a # b
    BY <1>5, <2>2 DEF ListOne, ReadKept, TypeOK
  <2> QED
    BY <2>1, <2>2
<1>6. ASSUME NEW f \in Fills, NEW a \in Accounts, InstallLocs(f, a) PROVE ReadKept(h, b) \/ ReadTaken(h, b)
  <2>1. NextMiss(f, a)
    BY <1>6 DEF InstallLocs
  <2>2. CASE EndFill(f)
    BY <2>2 DEF EndFill, NothingRead, ReadKept, TypeOK
  <2>3. CASE SkipMiss(f, a)
    BY <2>3 DEF SkipMiss, ReadKept, TypeOK
  <2> QED
    BY <2>1, <2>2, <2>3 DEF NextMiss
<1>7. CASE UNCHANGED <<stamp, read>>
  BY <1>7 DEF ReadKept
<1> QED
  BY NextCases, <1>1, <1>2, <1>3, <1>4, <1>5, <1>6, <1>7 DEF ExpireLocations,
     EvictLocs, EvictNeg, ExpireSession, EvictSession, WriteRedis, AddSession,
     DeleteSession, WriteTimesOut, PublishInv, AfterPublish, EndWrite, PublishUnheard,
     PublishFails, ApplyAdd, BumpFillEpoch, Forget, ApplyDelete, InvalidateAccount,
     Listed, DropSubscription, FlushDropped, InvalidateAll, ResubscribeFails,
     Resubscribe, BeginGet, QuerySession, EndGet, InstallSession

\* Facts about the writers and the bus, one account at a time.
LEMMA BusAppend ==
  ASSUME TypeOK, NEW a \in Accounts, bus' = Append(bus, a), NEW b \in Accounts
  PROVE  OnBus(b)' <=> (OnBus(b) \/ a = b)
<1>1. /\ Len(bus') = Len(bus) + 1 /\ Len(bus) \in Nat
      /\ \A i \in 1 .. Len(bus) : bus'[i] = bus[i]
      /\ bus'[Len(bus) + 1] = a
  BY AppendProperties DEF TypeOK
<1> QED
  BY <1>1 DEF OnBus

LEMMA BusTail ==
  ASSUME TypeOK, bus # <<>>, bus' = Tail(bus), NEW b \in Accounts, OnBus(b), ~OnBus(b)'
  PROVE  b = Head(bus)
<1>1. /\ Len(bus) \in Nat \ {0} /\ Len(bus') = Len(bus) - 1 /\ Head(bus) = bus[1]
      /\ \A i \in 1 .. Len(bus') : bus'[i] = bus[i + 1]
  BY HeadTailProperties DEF TypeOK
<1>2. PICK i \in 1 .. Len(bus) : bus[i] = b
  BY DEF OnBus
<1>3. i = 1
  <2>1. SUFFICES ASSUME i # 1 PROVE FALSE
    OBVIOUS
  <2>2. i - 1 \in 1 .. Len(bus') /\ bus'[i - 1] = b
    BY <1>1, <1>2, <2>1
  <2> QED
    BY <2>2 DEF OnBus
<1> QED
  BY <1>1, <1>2, <1>3

\* A settled account was settled before and shows no more, or was just dropped.
LEMMA TruthStep ==
  ASSUME TypeOK, NEW b \in Accounts, Settled(b)', Next
  PROVE  TruthKept(b) \/ Dropped(b)
<1> USE DEF redis, writers, link, cache, fills, gets
<1>1. ASSUME NEW a \in Accounts, ExpireLocations(a) PROVE TruthKept(b) \/ Dropped(b)
  BY <1>1 DEF ExpireLocations, TruthKept, Settled, Writing, OnBus, Slots, Of
<1>2. ASSUME NEW w \in Writers, NEW o \in Ops, WriteRedis(w, o) PROVE TruthKept(b) \/ Dropped(b)
  <2>1. wpc'[w] = "wrote" /\ wop'[w] = o
    BY <1>2 DEF WriteRedis, TypeOK
  <2>2. Owner[o.ch] # b
    BY <2>1 DEF Settled, Writing
  <2>3. loc' \ {o.ch} = loc \ {o.ch} /\ deleted' \ {o.ch} = deleted \ {o.ch}
    BY <1>2 DEF WriteRedis, AddSession, DeleteSession
  <2>4. ~Writing(b)
    BY <1>2, <2>1 DEF WriteRedis, Settled, Writing, TypeOK
  <2>5. Settled(b)
    BY <1>2, <2>4 DEF WriteRedis, Settled, OnBus
  <2> QED
    BY <2>2, <2>3, <2>5 DEF TruthKept, Slots, Of
<1>3. ASSUME NEW w \in Writers, NEW o \in Ops, WriteTimesOut(w, o) PROVE TruthKept(b) \/ Dropped(b)
  <2>1. Owner[o.ch] # b /\ b \notin missed
    BY <1>3 DEF WriteTimesOut, Settled
  <2>2. loc' \ {o.ch} = loc \ {o.ch} /\ deleted' \ {o.ch} = deleted \ {o.ch}
    BY <1>3 DEF WriteTimesOut, AddSession, DeleteSession
  <2>3. Settled(b)
    BY <1>3, <2>1 DEF WriteTimesOut, Settled, Writing, OnBus
  <2> QED
    BY <2>1, <2>2, <2>3 DEF TruthKept, Slots, Of
<1>4. ASSUME NEW w \in Writers, PublishInv(w) PROVE TruthKept(b) \/ Dropped(b)
  <2>1. Owner[wop[w].ch] \in Accounts
    BY OpsType DEF TypeOK
  <2>2. Owner[wop[w].ch] # b /\ ~OnBus(b)
    BY <1>4, <2>1, BusAppend DEF PublishInv, Settled
  <2>3. ~Writing(b)
    BY <1>4, <2>2 DEF PublishInv, AfterPublish, EndWrite, Settled, Writing, TypeOK
  <2>4. Settled(b)
    BY <1>4, <2>2, <2>3 DEF PublishInv, Settled, OnBus
  <2> QED
    BY <1>4, <2>4 DEF PublishInv, TruthKept, Slots
<1>5. ASSUME NEW w \in Writers, PublishUnheard(w) PROVE TruthKept(b) \/ Dropped(b)
  <2>1. Owner[wop[w].ch] \in Accounts
    BY OpsType DEF TypeOK
  <2>2. Owner[wop[w].ch] # b
    BY <1>5 DEF PublishUnheard, Settled
  <2>3. ~Writing(b)
    BY <1>5, <2>2 DEF PublishUnheard, AfterPublish, EndWrite, Settled, Writing, TypeOK
  <2>4. Settled(b)
    BY <1>5, <2>2, <2>3 DEF PublishUnheard, Settled, OnBus
  <2> QED
    BY <1>5, <2>4 DEF PublishUnheard, TruthKept, Slots
<1>6. ASSUME NEW w \in Writers, PublishFails(w) PROVE TruthKept(b) \/ Dropped(b)
  <2>1. Owner[wop[w].ch] \in Accounts
    BY OpsType DEF TypeOK
  <2>2. Owner[wop[w].ch] # b
    BY <1>6 DEF PublishFails, Settled
  <2>3. ~Writing(b)
    BY <1>6, <2>2 DEF PublishFails, AfterPublish, EndWrite, Settled, Writing, TypeOK
  <2>4. Settled(b)
    BY <1>6, <2>2, <2>3 DEF PublishFails, Settled, OnBus
  <2> QED
    BY <1>6, <2>4 DEF PublishFails, TruthKept, Slots
<1>7. ASSUME NEW w \in Writers, ApplyAdd(w) PROVE TruthKept(b) \/ Dropped(b)
  <2>1. CASE Owner[wop[w].ch] = b
    BY <1>7, <2>1 DEF ApplyAdd, BumpFillEpoch, Forget, Dropped, TypeOK
  <2>2. CASE Owner[wop[w].ch] # b
    <3>1. ~Writing(b)
      BY <1>7, <2>2 DEF ApplyAdd, EndWrite, Settled, Writing, TypeOK
    <3>2. Settled(b)
      BY <1>7, <3>1 DEF ApplyAdd, Settled, OnBus
    <3> QED
      BY <1>7, <3>2 DEF ApplyAdd, TruthKept, Slots
  <2> QED
    BY <2>1, <2>2
<1>8. ASSUME NEW w \in Writers, ApplyDelete(w) PROVE TruthKept(b) \/ Dropped(b)
  <2>1. CASE Owner[wop[w].ch] = b
    BY <1>8, <2>1 DEF ApplyDelete, BumpFillEpoch, Forget, Dropped, TypeOK
  <2>2. CASE Owner[wop[w].ch] # b
    <3>1. ~Writing(b)
      BY <1>8, <2>2 DEF ApplyDelete, EndWrite, Settled, Writing, TypeOK
    <3>2. Settled(b)
      BY <1>8, <3>1 DEF ApplyDelete, Settled, OnBus
    <3> QED
      BY <1>8, <3>2 DEF ApplyDelete, TruthKept, Slots
  <2> QED
    BY <2>1, <2>2
<1>9. CASE InvalidateAccount
  <2>1. CASE Head(bus) = b
    BY <1>9, <2>1 DEF InvalidateAccount, BumpFillEpoch, Forget, Dropped, TypeOK
  <2>2. CASE Head(bus) # b
    <3>1. ~OnBus(b)
      BY <1>9, <2>2, BusTail DEF InvalidateAccount, Settled
    <3>2. Settled(b)
      BY <1>9, <2>2, <3>1 DEF InvalidateAccount, Settled, Writing
    <3> QED
      BY <1>9, <3>2 DEF InvalidateAccount, TruthKept, Slots
  <2> QED
    BY <2>1, <2>2
<1>10. CASE DropSubscription
  <2>1. b \notin missed /\ ~OnBus(b)
    BY <1>10 DEF DropSubscription, Settled, OnBus
  <2>2. Settled(b)
    BY <1>10, <2>1 DEF DropSubscription, Settled, Writing
  <2> QED
    BY <1>10, <2>2 DEF DropSubscription, TruthKept, Slots
<1>11. CASE FlushDropped
  BY <1>11 DEF FlushDropped, InvalidateAll, BumpFillEpoch, Dropped
<1>12. CASE ResubscribeFails
  BY <1>12 DEF ResubscribeFails, InvalidateAll, BumpFillEpoch, Dropped
<1>13. CASE UNCHANGED <<loc, deleted, wpc, wop, bus, missed>>
  BY <1>13 DEF TruthKept, Settled, Writing, OnBus, Slots
<1> QED
  BY NextCases, <1>1, <1>2, <1>3, <1>4, <1>5, <1>6, <1>7, <1>8, <1>9, <1>10, <1>11,
     <1>12, <1>13 DEF EvictLocs, EvictNeg, ExpireSession, EvictSession, Resubscribe,
     BeginFill, QueryMisses, QueryNoDevice, EndFill, FillFails, ListOne, InstallLocs,
     RememberLocs, RememberEmpty, NextMiss, BeginGet, QuerySession, EndGet,
     InstallSession

\* Only a fill that has queried holds a read.
LEMMA IdleStep ==
  ASSUME TypeOK, IdleReadsNothing, Next
  PROVE  IdleReadsNothing'
<1> USE DEF redis, writers, link, cache, fills, gets
<1>1. ASSUME NEW f \in Fills, NEW A \in SUBSET Accounts, BeginFill(f, A) PROVE IdleReadsNothing'
  BY <1>1 DEF BeginFill, IdleReadsNothing, TypeOK
<1>2. ASSUME NEW f \in Fills, QueryMisses(f) PROVE IdleReadsNothing'
  BY <1>2 DEF QueryMisses, IdleReadsNothing, TypeOK
<1>3. ASSUME NEW f \in Fills, QueryNoDevice(f) PROVE IdleReadsNothing'
  BY <1>3 DEF QueryNoDevice, EndFill, IdleReadsNothing, TypeOK
<1>4. ASSUME NEW f \in Fills, FillFails(f) PROVE IdleReadsNothing'
  BY <1>4 DEF FillFails, EndFill, IdleReadsNothing, TypeOK
<1>5. ASSUME NEW f \in Fills, NEW a \in Accounts, ListOne(f, a) PROVE IdleReadsNothing'
  BY <1>5 DEF ListOne, IdleReadsNothing, TypeOK
<1>6. ASSUME NEW f \in Fills, NEW a \in Accounts, InstallLocs(f, a) PROVE IdleReadsNothing'
  <2>1. NextMiss(f, a) /\ fpc[f] = "fill"
    BY <1>6 DEF InstallLocs
  <2>2. CASE EndFill(f)
    BY <2>2 DEF EndFill, IdleReadsNothing, TypeOK
  <2>3. CASE SkipMiss(f, a)
    BY <2>1, <2>3 DEF SkipMiss, IdleReadsNothing, TypeOK
  <2> QED
    BY <2>1, <2>2, <2>3 DEF NextMiss
<1>7. CASE UNCHANGED <<fpc, read>>
  BY <1>7 DEF IdleReadsNothing
<1> QED
  BY NextCases, <1>1, <1>2, <1>3, <1>4, <1>5, <1>6, <1>7 DEF ExpireLocations,
     EvictLocs, EvictNeg, ExpireSession, EvictSession, WriteRedis, AddSession,
     DeleteSession, WriteTimesOut, PublishInv, AfterPublish, EndWrite, PublishUnheard,
     PublishFails, ApplyAdd, BumpFillEpoch, Forget, ApplyDelete, InvalidateAccount,
     Listed, DropSubscription, FlushDropped, InvalidateAll, ResubscribeFails,
     Resubscribe, BeginGet, QuerySession, EndGet, InstallSession

\* A write moves its channel to one side.
LEMMA OnlineStep ==
  ASSUME TypeOK, OnlineNotDeleted, Next
  PROVE  OnlineNotDeleted'
<1> USE DEF redis, writers, link, cache, fills, gets
<1>1. ASSUME NEW a \in Accounts, ExpireLocations(a) PROVE OnlineNotDeleted'
  BY <1>1 DEF ExpireLocations, OnlineNotDeleted
<1>2. ASSUME NEW w \in Writers, NEW o \in Ops, WriteRedis(w, o) PROVE OnlineNotDeleted'
  BY <1>2 DEF WriteRedis, AddSession, DeleteSession, OnlineNotDeleted
<1>3. ASSUME NEW w \in Writers, NEW o \in Ops, WriteTimesOut(w, o) PROVE OnlineNotDeleted'
  BY <1>3 DEF WriteTimesOut, AddSession, DeleteSession, OnlineNotDeleted
<1>4. CASE UNCHANGED <<loc, deleted>>
  BY <1>4 DEF OnlineNotDeleted
<1> QED
  BY NextCases, <1>1, <1>2, <1>3, <1>4 DEF EvictLocs, EvictNeg, ExpireSession,
     EvictSession, PublishInv, AfterPublish, EndWrite, PublishUnheard, PublishFails,
     ApplyAdd, BumpFillEpoch, Forget, ApplyDelete, InvalidateAccount, Listed,
     DropSubscription, FlushDropped, InvalidateAll, ResubscribeFails, Resubscribe,
     BeginFill, QueryMisses, QueryNoDevice, EndFill, FillFails, ListOne, InstallLocs,
     RememberLocs, RememberEmpty, NextMiss, BeginGet, QuerySession, EndGet,
     InstallSession

\* Every install clears the entry of the other kind.
LEMMA AgreeStep ==
  ASSUME TypeOK, LookupsAgree, Next
  PROVE  LookupsAgree'
<1> USE DEF redis, writers, link, cache, fills, gets
<1>1. ASSUME NEW a \in Accounts, EvictLocs(a) PROVE LookupsAgree'
  BY <1>1, OpsType DEF EvictLocs, LookupsAgree, TypeOK
<1>2. ASSUME NEW a \in Accounts, EvictNeg(a) PROVE LookupsAgree'
  BY <1>2, OpsType DEF EvictNeg, LookupsAgree, TypeOK
<1>3. ASSUME NEW w \in Writers, ApplyAdd(w) PROVE LookupsAgree'
  BY <1>3, OpsType DEF ApplyAdd, BumpFillEpoch, Forget, EndWrite, LookupsAgree, TypeOK
<1>4. ASSUME NEW w \in Writers, ApplyDelete(w) PROVE LookupsAgree'
  BY <1>4, OpsType DEF ApplyDelete, BumpFillEpoch, Forget, EndWrite, LookupsAgree,
     TypeOK
<1>5. CASE InvalidateAccount
  BY <1>5, OpsType DEF InvalidateAccount, BumpFillEpoch, Listed, Forget, LookupsAgree,
     TypeOK
<1>6. CASE FlushDropped
  BY <1>6, OpsType DEF FlushDropped, InvalidateAll, BumpFillEpoch, LookupsAgree,
     TypeOK
<1>7. CASE ResubscribeFails
  BY <1>7, OpsType DEF ResubscribeFails, InvalidateAll, BumpFillEpoch, LookupsAgree,
     TypeOK
<1>8. ASSUME NEW f \in Fills, NEW a \in Accounts, InstallLocs(f, a) PROVE LookupsAgree'
  <2>1. \/ UNCHANGED <<channels, neg, locs>>
        \/ RememberEmpty(a)
        \/ RememberLocs(a, read[f][a])
    BY <1>8 DEF InstallLocs
  <2> QED
    BY <2>1 DEF RememberLocs, RememberEmpty, LookupsAgree, TypeOK
<1>9. CASE UNCHANGED <<neg, locs>>
  BY <1>9 DEF LookupsAgree
<1> QED
  BY NextCases, <1>1, <1>2, <1>3, <1>4, <1>5, <1>6, <1>7, <1>8, <1>9 DEF
     ExpireLocations, ExpireSession, EvictSession, WriteRedis, AddSession,
     DeleteSession, WriteTimesOut, PublishInv, AfterPublish, EndWrite, PublishUnheard,
     PublishFails, DropSubscription, Resubscribe, BeginFill, QueryMisses,
     QueryNoDevice, EndFill, FillFails, ListOne, BeginGet, QuerySession, EndGet,
     InstallSession

\* fill_epoch is never taken back.
LEMMA EpochGrows ==
  ASSUME TypeOK, Next
  PROVE  epoch' >= epoch
<1> USE DEF redis, writers, link, cache, fills, gets
<1>1. ASSUME NEW w \in Writers, ApplyAdd(w) PROVE epoch' >= epoch
  BY <1>1 DEF ApplyAdd, BumpFillEpoch, Forget, EndWrite, TypeOK
<1>2. ASSUME NEW w \in Writers, ApplyDelete(w) PROVE epoch' >= epoch
  BY <1>2 DEF ApplyDelete, BumpFillEpoch, Forget, EndWrite, TypeOK
<1>3. CASE InvalidateAccount
  BY <1>3 DEF InvalidateAccount, BumpFillEpoch, Listed, Forget, TypeOK
<1>4. CASE FlushDropped
  BY <1>4 DEF FlushDropped, InvalidateAll, BumpFillEpoch, TypeOK
<1>5. CASE ResubscribeFails
  BY <1>5 DEF ResubscribeFails, InvalidateAll, BumpFillEpoch, TypeOK
<1>6. CASE UNCHANGED <<epoch>>
  BY <1>6 DEF TypeOK
<1> QED
  BY NextCases, <1>1, <1>2, <1>3, <1>4, <1>5, <1>6 DEF ExpireLocations, EvictLocs,
     EvictNeg, ExpireSession, EvictSession, WriteRedis, AddSession, DeleteSession,
     WriteTimesOut, PublishInv, AfterPublish, EndWrite, PublishUnheard, PublishFails,
     DropSubscription, Resubscribe, BeginFill, QueryMisses, QueryNoDevice, EndFill,
     FillFails, ListOne, InstallLocs, RememberLocs, RememberEmpty, NextMiss, BeginGet,
     QuerySession, EndGet, InstallSession

---------------------------------------------------------------------------
(* The invariant.                                                          *)

\* A view that is fresh after the step.
FreshNext(b, view) == Slots({b})' \subseteq view /\ view \subseteq Of(b) \ deleted'

LEMMA FreshKept ==
  ASSUME NEW b \in Accounts, TruthKept(b), NEW view, Fresh(b, view)
  PROVE  FreshNext(b, view)
  BY DEF TruthKept, Fresh, FreshNext

\* An entry that outlives the step was fresh, or is a read that was.
LEMMA CacheStep ==
  ASSUME IInv, Next
  PROVE  CacheFresh'
<1> SUFFICES ASSUME NEW b \in Accounts, Settled(b)'
             PROVE  /\ locs'[b] # Unknown => FreshNext(b, locs'[b])
                    /\ b \in neg' => Slots({b})' = {}
  BY DEF CacheFresh, Fresh, FreshNext
<1>1. CASE Dropped(b)
  BY <1>1 DEF Dropped
<1>2. CASE TruthKept(b)
  <2>1. Settled(b) /\ Slots({b})' \subseteq Slots({b})
    BY <1>2 DEF TruthKept
  <2>2. CASE EntryKept(b)
    BY <1>2, <2>1, <2>2, FreshKept DEF EntryKept, IInv, CacheFresh
  <2>3. CASE EntryInstalled(b)
    <3>1. PICK f \in Fills : /\ stamp[f] = epoch /\ read[f][b] # Unknown
                             /\ locs'[b] # Unknown => locs'[b] = read[f][b]
                             /\ b \in neg' => read[f][b] = {}
      BY <2>3 DEF EntryInstalled
    <3>2. Fresh(b, read[f][b])
      BY <2>1, <3>1 DEF IInv, FillsFresh
    <3>3. FreshNext(b, read[f][b])
      BY <1>2, <3>2, FreshKept
    <3> QED
      BY <3>1, <3>3 DEF FreshNext
  <2> QED
    BY <2>2, <2>3, EntryStep DEF IInv
<1> QED
  BY <1>1, <1>2, TruthStep DEF IInv

\* A read that may still be installed was fresh before, or was just taken; a
\* step that drops an account leaves no stamp that matches.
LEMMA FillsStep ==
  ASSUME IInv, Next
  PROVE  FillsFresh'
<1> SUFFICES ASSUME NEW h \in Fills, NEW b \in Accounts, Settled(b)',
                    stamp'[h] = epoch', read'[h][b] # Unknown
             PROVE  FreshNext(b, read'[h][b])
  BY DEF FillsFresh, Fresh, FreshNext
<1>1. CASE ReadTaken(h, b)
  BY <1>1 DEF ReadTaken, redis, FreshNext, Slots, Of, IInv, OnlineNotDeleted, TypeOK
<1>2. CASE ReadKept(h, b)
  <2>1. read'[h][b] = read[h][b] /\ stamp'[h] = stamp[h]
    BY <1>2 DEF ReadKept
  <2>2. CASE Dropped(b)
    <3>1. stamp[h] <= epoch /\ stamp[h] \in Nat /\ epoch \in Nat
      BY DEF IInv, TypeOK
    <3>2. stamp[h] = epoch + 1
      BY <2>1, <2>2 DEF Dropped
    <3> QED
      BY <3>1, <3>2
  <2>3. CASE TruthKept(b)
    <3>1. epoch' = epoch
      <4>1. stamp[h] <= epoch /\ stamp[h] \in Nat /\ epoch \in Nat
        BY DEF IInv, TypeOK
      <4>2. epoch' >= epoch
        BY EpochGrows DEF IInv
      <4> QED
        BY <2>1, <4>1, <4>2
    <3>2. Fresh(b, read[h][b])
      BY <2>1, <2>3, <3>1 DEF TruthKept, IInv, FillsFresh
    <3> QED
      BY <2>1, <2>3, <3>2, FreshKept
  <2> QED
    BY <2>2, <2>3, TruthStep DEF IInv
<1> QED
  BY <1>1, <1>2, ReadStep DEF IInv

LEMMA InitInv == Init => IInv
  BY Registers DEF Init, IInv, TypeOK, CacheFresh, LookupsAgree, FillsFresh,
     IdleReadsNothing, OnlineNotDeleted, NothingRead

LEMMA NextInv ==
  ASSUME IInv, [Next]_vars
  PROVE  IInv'
<1>1. CASE Next
  BY <1>1, TypeStep, CacheStep, FillsStep, IdleStep, OnlineStep, AgreeStep
     DEF IInv
<1>2. CASE UNCHANGED vars
  BY <1>2 DEF vars, redis, writers, link, cache, fills, gets, IInv, TypeOK, CacheFresh,
     LookupsAgree, FillsFresh, IdleReadsNothing, OnlineNotDeleted, Settled,
     Writing, OnBus, Fresh, Slots
<1> QED
  BY <1>1, <1>2

\* The inductive invariant holds in every reachable state.
THEOREM Invariance == Spec => []IInv
  BY InitInv, NextInv, PTL DEF Spec

\* The variables of the cache and of Redis keep their types.
THEOREM TypeCorrect == Spec => []TypeOK
  BY Invariance, PTL DEF IInv

\* A location or negative entry of the cache is true once the account's
\* writers are done and their invalidations arrived, however late a fill
\* installs what it read.
THEOREM CacheIsFresh == Spec => []CacheFresh
  BY Invariance, PTL DEF IInv

\* get_location and get_locations never answer from entries that disagree.
THEOREM LookupAgreement == Spec => []LookupsAgree
  BY Invariance, PTL DEF IInv
=============================================================================
