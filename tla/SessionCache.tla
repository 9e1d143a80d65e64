---------------------------- MODULE SessionCache ----------------------------
(***************************************************************************)
(* The location cache of one chat process over the shared Redis session    *)
(* store:                                                                  *)
(*                                                                         *)
(*   crates/kim-session/src/cache.rs  CachedSessionStore: locs, neg,       *)
(*                                    sessions, channels, fill_epoch       *)
(*   crates/kim-session/src/redis.rs  add / delete, PUBLISH kim:loc:inv,   *)
(*                                    the subscriber loop                  *)
(*                                                                         *)
(* Every miss is filled over an await: the fill reads Redis now and        *)
(* installs later.  Writers of this process change Redis first and the     *)
(* cache after; writers of other processes (other chat instances, Royal)   *)
(* reach this cache only by a published invalidation, which the bus may    *)
(* deliver late or not at all.  A channel id names one connection, so a    *)
(* cached session row is modelled by its channel.                          *)
(***************************************************************************)
EXTENDS Naturals, FiniteSets, Sequences

CONSTANTS
  Accounts,      \* accounts whose devices are looked up
  Channels,      \* connections
  Owner,         \* Owner[c]: the account that is signed in on channel c
  LocalWriters,  \* login / logout handlers of this chat process
  RemoteWriters, \* handlers of the other processes that share the Redis
  Fills,         \* get_locations / get_location calls in flight
  Gets,          \* get calls in flight
  Unknown,       \* locs has no entry for the account
  RedisErrors,   \* whether a PUBLISH or the answer to a write may be lost
  MaxEpoch,      \* bound: fill_epoch (a wrapping u64 in the code)
  MaxBus         \* bound: invalidations under way at one time

ASSUME OwnerAssumption   == Owner \in [Channels -> Accounts]
ASSUME ChannelsAssumption == Channels # {}
ASSUME WritersAssumption == LocalWriters \cap RemoteWriters = {}
ASSUME UnknownAssumption == \A S \in SUBSET Channels : Unknown # S
ASSUME BoundsAssumption  == MaxEpoch \in Nat /\ MaxBus \in Nat /\ RedisErrors \in BOOLEAN

Writers == LocalWriters \cup RemoteWriters
Of(a)   == {c \in Channels : Owner[c] = a}

VARIABLES
  \* Redis
  loc,       \* fields of the login:loc:v2 hashes, as channels
  sn,        \* login:sn:v2 keys, as channels
  deleted,   \* channels deleted and not added again: what must not be seen
  \* writers
  wpc,       \* idle -> (write) wrote -> (publish) published -> (cache) idle
  wop,       \* [op, ch]: the call a writer makes
  \* the bus and its one subscriber
  sub,       \* "up", "broken" (dropped, not noticed yet), "down" (flushed)
  bus,       \* invalidations on their way to the subscriber
  missed,    \* accounts with an invalidation lost since they were last dropped
  \* the cache
  locs, neg, sessions,
  channels,  \* account -> channel ids believed to be in sessions
  epoch,     \* fill_epoch
  \* lookups in flight
  fpc,       \* a fill is idle, about to query, or filling what it read
  misses,    \* accounts it has still to fill
  stamp,     \* the epoch it began in
  read,      \* account -> slots it read and has not installed yet, or Unknown
  gpc, gch   \* a get: where it is, and the channel it is for

redis   == <<loc, sn, deleted>>
writers == <<wpc, wop>>
link    == <<sub, bus, missed>>
cache   == <<locs, neg, sessions, channels, epoch>>
fills   == <<fpc, misses, stamp, read>>
gets    == <<gpc, gch>>
vars    == <<redis, writers, link, cache, fills, gets>>

NothingRead == [a \in Accounts |-> Unknown]

Ops == [op : {"add", "delete"}, ch : Channels]

\* What the registers of an idle writer or get are set to.
NoOp == CHOOSE o \in Ops : TRUE
NoCh == CHOOSE c \in Channels : TRUE

Init ==
  /\ loc = {} /\ sn = {} /\ deleted = {}
  /\ wpc = [w \in Writers |-> "idle"]
  /\ wop = [w \in Writers |-> NoOp]
  /\ sub = "up" /\ bus = <<>> /\ missed = {}
  /\ locs = [a \in Accounts |-> Unknown]
  /\ neg = {} /\ sessions = {} /\ epoch = 0
  /\ channels = [a \in Accounts |-> {}]
  /\ fpc = [f \in Fills |-> "idle"]
  /\ misses = [f \in Fills |-> {}]
  /\ stamp = [f \in Fills |-> 0]
  /\ read = [f \in Fills |-> NothingRead]
  /\ gpc = [g \in Gets |-> "idle"]
  /\ gch = [g \in Gets |-> NoCh]

---------------------------------------------------------------------------
(* Redis: what the two writes, the TTL and HVALS do.                       *)

Slots(A) == {c \in loc : Owner[c] \in A}

\* write_session: HSET and SET in one transaction.
AddSession(c) ==
  /\ loc' = loc \cup {c}
  /\ sn' = sn \cup {c}
  /\ deleted' = deleted \ {c}

\* DELETE_LUA: both keys in one script.
DeleteSession(c) ==
  /\ loc' = loc \ {c}
  /\ sn' = sn \ {c}
  /\ deleted' = deleted \cup {c}

\* The hash of an account runs out of its TTL, with every field in it.  Every
\* write and every heartbeat renews it together with a session key, so it
\* outlives the session keys of the account.
ExpireLocations(a) ==
  /\ Slots({a}) # {}
  /\ sn \cap Of(a) = {}
  /\ loc' = loc \ Of(a)
  /\ UNCHANGED <<sn, deleted, writers, link, cache, fills, gets>>

ExpireSession(c) ==
  /\ c \in sn
  /\ sn' = sn \ {c}
  /\ UNCHANGED <<loc, deleted, writers, link, cache, fills, gets>>

---------------------------------------------------------------------------
(* Writers.                                                                *)

\* RedisSessionStore::add / delete up to the publish.
WriteRedis(w, o) ==
  /\ wpc[w] = "idle"
  /\ IF o.op = "add" THEN AddSession(o.ch) ELSE DeleteSession(o.ch)
  /\ wpc' = [wpc EXCEPT ![w] = "wrote"]
  /\ wop' = [wop EXCEPT ![w] = o]
  /\ UNCHANGED <<link, cache, fills, gets>>

\* The write took effect but its answer was lost: the call fails, nothing is
\* published and nothing is applied to the cache.
WriteTimesOut(w, o) ==
  /\ RedisErrors
  /\ wpc[w] = "idle"
  /\ IF o.op = "add" THEN AddSession(o.ch) ELSE DeleteSession(o.ch)
  /\ missed' = missed \cup {Owner[o.ch]}
  /\ UNCHANGED <<writers, sub, bus, cache, fills, gets>>

EndWrite(w) ==
  /\ wpc' = [wpc EXCEPT ![w] = "idle"]
  /\ wop' = [wop EXCEPT ![w] = NoOp]

\* After the publish a remote writer is done with this cache; a local one
\* still has to apply its write to it.
AfterPublish(w) ==
  IF w \in LocalWriters
  THEN wpc' = [wpc EXCEPT ![w] = "published"] /\ UNCHANGED wop
  ELSE EndWrite(w)

\* publish_inv: reaches the subscriber of this process if there is one.
PublishInv(w) ==
  /\ wpc[w] = "wrote"
  /\ sub = "up"
  /\ Len(bus) < MaxBus
  /\ bus' = Append(bus, Owner[wop[w].ch])
  /\ AfterPublish(w)
  /\ UNCHANGED <<redis, sub, missed, cache, fills, gets>>

PublishUnheard(w) ==
  /\ wpc[w] = "wrote"
  /\ sub # "up"
  /\ missed' = missed \cup {Owner[wop[w].ch]}
  /\ AfterPublish(w)
  /\ UNCHANGED <<redis, sub, bus, cache, fills, gets>>

\* The PUBLISH failed: the error is logged and the call succeeds.
PublishFails(w) ==
  /\ RedisErrors
  /\ wpc[w] = "wrote"
  /\ missed' = missed \cup {Owner[wop[w].ch]}
  /\ AfterPublish(w)
  /\ UNCHANGED <<redis, sub, bus, cache, fills, gets>>

---------------------------------------------------------------------------
(* The cache.  Each of these runs under the fill_epoch mutex.              *)

BumpFillEpoch == epoch < MaxEpoch /\ epoch' = epoch + 1

Forget(a) ==
  /\ locs' = [locs EXCEPT ![a] = Unknown]
  /\ neg' = neg \ {a}

\* CachedSessionStore::add and ::delete after the inner call.
ApplyAdd(w) ==
  /\ wpc[w] = "published" /\ wop[w].op = "add"
  /\ BumpFillEpoch
  /\ sessions' = sessions \cup {wop[w].ch}
  /\ channels' = [channels EXCEPT ![Owner[wop[w].ch]] = @ \cup {wop[w].ch}]
  /\ Forget(Owner[wop[w].ch])
  /\ EndWrite(w)
  /\ UNCHANGED <<redis, link, fills, gets>>

ApplyDelete(w) ==
  /\ wpc[w] = "published" /\ wop[w].op = "delete"
  /\ BumpFillEpoch
  /\ sessions' = sessions \ {wop[w].ch}
  /\ channels' = [channels EXCEPT ![Owner[wop[w].ch]] = @ \ {wop[w].ch}]
  /\ Forget(Owner[wop[w].ch])
  /\ EndWrite(w)
  /\ UNCHANGED <<redis, link, fills, gets>>

\* The session rows invalidate_account can find.
Listed(a) == channels[a] \cup (IF locs[a] = Unknown THEN {} ELSE locs[a])

\* The subscriber receives an account: invalidate_account.
InvalidateAccount ==
  /\ bus # <<>>
  /\ BumpFillEpoch
  /\ sessions' = sessions \ Listed(Head(bus))
  /\ channels' = [channels EXCEPT ![Head(bus)] = {}]
  /\ Forget(Head(bus))
  /\ missed' = missed \ {Head(bus)}
  /\ bus' = Tail(bus)
  /\ UNCHANGED <<redis, writers, sub, fills, gets>>

InvalidateAll ==
  /\ BumpFillEpoch
  /\ sessions' = {}
  /\ locs' = [a \in Accounts |-> Unknown]
  /\ neg' = {}
  /\ channels' = [a \in Accounts |-> {}]
  /\ missed' = {}

\* An entry reaches its TTL or is evicted.
EvictLocs(a) ==
  /\ locs[a] # Unknown
  /\ locs' = [locs EXCEPT ![a] = Unknown]
  /\ UNCHANGED <<redis, writers, link, neg, sessions, channels, epoch, fills, gets>>

EvictNeg(a) ==
  /\ a \in neg
  /\ neg' = neg \ {a}
  /\ UNCHANGED <<redis, writers, link, locs, sessions, channels, epoch, fills, gets>>

EvictSession(c) ==
  /\ c \in sessions
  /\ sessions' = sessions \ {c}
  /\ UNCHANGED <<redis, writers, link, locs, neg, channels, epoch, fills, gets>>

---------------------------------------------------------------------------
(* The subscriber loop.                                                    *)

\* The connection breaks: what was under way on it is lost.
DropSubscription ==
  /\ sub = "up"
  /\ sub' = "broken"
  /\ missed' = missed \cup {bus[i] : i \in 1 .. Len(bus)}
  /\ bus' = <<>>
  /\ UNCHANGED <<redis, writers, cache, fills, gets>>

\* The stream ends: the loop flushes and goes on to subscribe again.
FlushDropped ==
  /\ sub = "broken"
  /\ sub' = "down"
  /\ InvalidateAll
  /\ UNCHANGED <<redis, writers, bus, fills, gets>>

\* A failed attempt to subscribe flushes again.
ResubscribeFails ==
  /\ sub = "down"
  /\ InvalidateAll
  /\ UNCHANGED <<redis, writers, sub, bus, fills, gets>>

\* A successful one does not: what was filled since the flush stays.
Resubscribe ==
  /\ sub = "down"
  /\ sub' = "up"
  /\ UNCHANGED <<redis, writers, bus, missed, cache, fills, gets>>

---------------------------------------------------------------------------
(* get_locations (any number of accounts) and get_location (one).          *)

\* The accounts that neither neg nor locs answers, and the stamp.
BeginFill(f, A) ==
  /\ fpc[f] = "idle"
  /\ A # {}
  /\ \A a \in A : a \notin neg /\ locs[a] = Unknown
  /\ fpc' = [fpc EXCEPT ![f] = "query"]
  /\ misses' = [misses EXCEPT ![f] = A]
  /\ stamp' = [stamp EXCEPT ![f] = epoch]
  /\ UNCHANGED <<redis, writers, link, cache, read, gets>>

\* One inner call for all misses.  NotFound: every one of them is empty; a
\* single miss is filled from the answer; several are listed one by one.
QueryMisses(f) ==
  /\ fpc[f] = "query"
  /\ fpc' = [fpc EXCEPT ![f] = "fill"]
  /\ read' = [read EXCEPT ![f] =
                IF Slots(misses[f]) = {} \/ Cardinality(misses[f]) = 1
                THEN [a \in Accounts |-> IF a \in misses[f] THEN Slots({a}) ELSE Unknown]
                ELSE NothingRead]
  /\ UNCHANGED <<redis, writers, link, cache, misses, stamp, gets>>

EndFill(f) ==
  /\ fpc' = [fpc EXCEPT ![f] = "idle"]
  /\ misses' = [misses EXCEPT ![f] = {}]
  /\ read' = [read EXCEPT ![f] = NothingRead]
  /\ stamp' = [stamp EXCEPT ![f] = 0]

\* get_location found the account online, but not on the device it asked for.
QueryNoDevice(f) ==
  /\ fpc[f] = "query"
  /\ Cardinality(misses[f]) = 1
  /\ Slots(misses[f]) # {}
  /\ EndFill(f)
  /\ UNCHANGED <<redis, writers, link, cache, gets>>

\* list_locations of the next of several misses.
ListOne(f, a) ==
  /\ fpc[f] = "fill"
  /\ a \in misses[f]
  /\ read[f] = NothingRead
  /\ read' = [read EXCEPT ![f][a] = Slots({a})]
  /\ UNCHANGED <<redis, writers, link, cache, fpc, misses, stamp, gets>>

\* An inner call fails and the error is returned.
FillFails(f) ==
  /\ \/ fpc[f] = "query"
     \/ fpc[f] = "fill" /\ read[f] = NothingRead
  /\ EndFill(f)
  /\ UNCHANGED <<redis, writers, link, cache, gets>>

\* Mutant: a positive fill leaves the negative entry in place.
RememberLocsKeepsNeg(a, slots) ==
  /\ channels' = [channels EXCEPT ![a] = slots]
  /\ locs' = [locs EXCEPT ![a] = slots]
  /\ UNCHANGED neg

\* remember_locs and remember_empty, for a stamp that still matches.
RememberLocs(a, slots) ==
  /\ channels' = [channels EXCEPT ![a] = slots]
  /\ neg' = neg \ {a}
  /\ locs' = [locs EXCEPT ![a] = slots]

RememberEmpty(a) ==
  /\ channels' = [channels EXCEPT ![a] = {}]
  /\ locs' = [locs EXCEPT ![a] = Unknown]
  /\ neg' = neg \cup {a}

\* On to the next miss; after the last one the call returns.
SkipMiss(f, a) ==
  /\ misses' = [misses EXCEPT ![f] = @ \ {a}]
  /\ read' = [read EXCEPT ![f][a] = Unknown]
  /\ UNCHANGED <<fpc, stamp>>

NextMiss(f, a) == IF misses[f] = {a} THEN EndFill(f) ELSE SkipMiss(f, a)

\* Mutant: the install trusts what it read whatever happened since.
InstallLocsUnstamped(f, a) ==
  /\ fpc[f] = "fill"
  /\ read[f][a] # Unknown
  /\ IF read[f][a] = {} THEN RememberEmpty(a) ELSE RememberLocs(a, read[f][a])
  /\ NextMiss(f, a)
  /\ UNCHANGED <<redis, writers, link, sessions, epoch, gets>>

InstallLocs(f, a) ==
  /\ fpc[f] = "fill"
  /\ read[f][a] # Unknown
  /\ IF stamp[f] # epoch
     THEN UNCHANGED <<channels, neg, locs>>
     ELSE IF read[f][a] = {} THEN RememberEmpty(a) ELSE RememberLocs(a, read[f][a])
  /\ NextMiss(f, a)
  /\ UNCHANGED <<redis, writers, link, sessions, epoch, gets>>

---------------------------------------------------------------------------
(* get: the session of a channel.  No stamp is taken.                      *)

BeginGet(g, c) ==
  /\ gpc[g] = "idle"
  /\ c \notin sessions
  /\ gpc' = [gpc EXCEPT ![g] = "query"]
  /\ gch' = [gch EXCEPT ![g] = c]
  /\ UNCHANGED <<redis, writers, link, cache, fills>>

EndGet(g) ==
  /\ gpc' = [gpc EXCEPT ![g] = "idle"]
  /\ gch' = [gch EXCEPT ![g] = NoCh]

\* Found, or NotFound / an error, which caches nothing.
QuerySession(g) ==
  /\ gpc[g] = "query"
  /\ \/ gch[g] \in sn /\ gpc' = [gpc EXCEPT ![g] = "found"] /\ UNCHANGED gch
     \/ EndGet(g)
  /\ UNCHANGED <<redis, writers, link, cache, fills>>

InstallSession(g) ==
  /\ gpc[g] = "found"
  /\ channels' = [channels EXCEPT ![Owner[gch[g]]] = @ \cup {gch[g]}]
  /\ sessions' = sessions \cup {gch[g]}
  /\ EndGet(g)
  /\ UNCHANGED <<redis, writers, link, locs, neg, epoch, fills>>

---------------------------------------------------------------------------
Next ==
  \/ \E a \in Accounts : ExpireLocations(a) \/ EvictLocs(a) \/ EvictNeg(a)
  \/ \E c \in Channels : ExpireSession(c) \/ EvictSession(c)
  \/ \E w \in Writers : \/ \E o \in Ops : WriteRedis(w, o) \/ WriteTimesOut(w, o)
                        \/ PublishInv(w) \/ PublishUnheard(w) \/ PublishFails(w)
                        \/ ApplyAdd(w) \/ ApplyDelete(w)
  \/ InvalidateAccount
  \/ DropSubscription \/ FlushDropped \/ ResubscribeFails \/ Resubscribe
  \/ \E f \in Fills : \/ \E A \in SUBSET Accounts : BeginFill(f, A)
                      \/ QueryMisses(f) \/ QueryNoDevice(f) \/ FillFails(f)
                      \/ \E a \in Accounts : ListOne(f, a) \/ InstallLocs(f, a)
  \/ \E g \in Gets : \/ \E c \in Channels : BeginGet(g, c)
                     \/ QuerySession(g) \/ InstallSession(g)

Spec == Init /\ [][Next]_vars

---------------------------------------------------------------------------
(* Properties.                                                             *)

\* Every variable keeps to its set, and no fill carries a stamp from the future
\* (fill_epoch only grows).
TypeOK ==
  /\ loc \subseteq Channels /\ sn \subseteq Channels /\ deleted \subseteq Channels
  /\ wpc \in [Writers -> {"idle", "wrote", "published"}]
  /\ wop \in [Writers -> Ops]
  /\ sub \in {"up", "broken", "down"}
  /\ bus \in Seq(Accounts) /\ missed \subseteq Accounts
  /\ locs \in [Accounts -> {Unknown} \cup SUBSET Channels]
  /\ neg \subseteq Accounts /\ sessions \subseteq Channels
  /\ channels \in [Accounts -> SUBSET Channels]
  /\ epoch \in 0 .. MaxEpoch
  /\ fpc \in [Fills -> {"idle", "query", "fill"}]
  /\ misses \in [Fills -> SUBSET Accounts]
  /\ stamp \in [Fills -> 0 .. epoch]
  /\ read \in [Fills -> [Accounts -> {Unknown} \cup SUBSET Channels]]
  /\ gpc \in [Gets -> {"idle", "query", "found"}]
  /\ gch \in [Gets -> Channels]

\* No write to the account is under way, no invalidation of it is on the bus
\* and none was lost since the cache last dropped it.
Writing(a)    == \E w \in Writers : wpc[w] # "idle" /\ Owner[wop[w].ch] = a
OnBus(a)      == \E i \in 1 .. Len(bus) : bus[i] = a
Settled(a)    == ~Writing(a) /\ ~OnBus(a) /\ a \notin missed

\* A view of an account shows every device of it that is online and none that
\* was logged out (it may show one whose Redis entry ran out).
Fresh(a, view) ==
  /\ Slots({a}) \subseteq view
  /\ view \subseteq Of(a) \ deleted

\* What get_locations answers from the cache is true as soon as the writers of
\* the account are done and their invalidations arrived: no late fill brings
\* back a state from before an invalidation (cache.rs, fill_epoch).
CacheFresh ==
  \A a \in Accounts : Settled(a) =>
    /\ locs[a] # Unknown => Fresh(a, locs[a])
    /\ a \in neg => Slots({a}) = {}

\* get_locations asks neg before locs and get_location asks locs before neg;
\* they agree, because an account never has an entry in both.
LookupsAgree == \A a \in neg : locs[a] = Unknown

\* The inductive invariant of the proofs: a fill that may still install holds
\* a fresh view too, one that has not queried holds none, and no channel is
\* online and deleted.
FillsFresh ==
  \A f \in Fills, a \in Accounts :
    (Settled(a) /\ stamp[f] = epoch /\ read[f][a] # Unknown) => Fresh(a, read[f][a])

IdleReadsNothing == \A f \in Fills : fpc[f] # "fill" => read[f] = NothingRead

OnlineNotDeleted == loc \cap deleted = {}

IInv ==
  /\ TypeOK /\ CacheFresh /\ LookupsAgree
  /\ FillsFresh /\ IdleReadsNothing /\ OnlineNotDeleted

\* cache.rs, fill_epoch: "In-flight miss fills capture a stamp and refuse to
\* install if it no longer matches."  The session of a deleted channel is not
\* in the cache once the account is settled.
SessionsFresh ==
  \A c \in sessions : Settled(Owner[c]) => c \notin deleted
=============================================================================
