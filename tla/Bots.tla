-------------------------------- MODULE Bots --------------------------------
(***************************************************************************)
(* Bots and their threads: services/chat/src/bot.rs on the chat side, the  *)
(* HTTP adapters (royal.rs) and the endpoints of Royal behind them, the    *)
(* bot operations of both user directories (users.rs) and of both message  *)
(* stores (store/mod.rs, store/postgres.rs).                               *)
(*                                                                         *)
(* A bot answers each message of its owner at most once.  The answer comes *)
(* from whichever device of the owner runs the agent, so two devices, or   *)
(* one that retries, race for the same question; meanwhile the owner may   *)
(* delete the bot, which removes the account first and the thread after.   *)
(* Each request handler has a directory cache of its own: the handlers run *)
(* on different chat instances.                                            *)
(***************************************************************************)
EXTENDS MemoryStore

CONSTANTS
  Humans,     \* people
  ProfileIds, \* client_profile_id of the agents people set up
  Configs,    \* runtime settings of a bot
  Handlers,   \* requests handled at one time
  ClientIds,  \* client ids of messages
  BOT_MAX_PER_OWNER,
  MaxIds,     \* bound: message ids
  MaxBots,    \* bound: bot accounts
  MaxOps      \* bound: requests

ASSUME BotsAssumption ==
  /\ NoCid \notin ClientIds /\ DeviceOwner \in [Devices -> Humans]
  /\ {BOT_MAX_PER_OWNER, MaxIds, MaxBots, MaxOps} \subseteq Nat /\ MaxBots > 0
  /\ "nobody" \notin Humans /\ Humans \cap (1 .. MaxBots) = {}

Ids    == 1 .. MaxIds
NoOne  == "nobody"
Free   == "free"
BotIds == 1 .. MaxBots      \* bot accounts, in the order idgen names them

VARIABLES
  pg,       \* the backend: Postgres, or the in-memory stores
  db,       \* the message store
  bots,     \* users of kind bot: account -> [owner, profile, config]
  friends,  \* <<owner, bot>>
  cache,    \* CachedUserDirectory of a handler's instance: account -> owner
  lock,     \* the advisory locks of a bot thread: its holder
  stage,    \* where a handler is
  rq,       \* and its request
  nextId, nextBot, ops

botVars == <<pg, db, bots, friends, cache, lock, stage, rq, nextId, nextBot, ops>>

NoReq == [op |-> "none", who |-> NoOne, dest |-> 0, q |-> 0, cid |-> NoCid,
          prof |-> NoOne, cfg |-> NoOne, sent |-> 0, id |-> 0, ids |-> {}, again |-> FALSE]

\* The message a handler stores.  `re` names the question of a reply.
Msg(h) == IF rq[h].op = "reply"
          THEN [sender |-> rq[h].dest, dest |-> rq[h].who, cid |-> rq[h].cid, sent |-> rq[h].sent, re |-> rq[h].q]
          ELSE [sender |-> rq[h].who, dest |-> rq[h].dest, cid |-> rq[h].cid, sent |-> rq[h].sent, re |-> 0]

\* A handler answers and is free again.
Done(h) == stage' = [stage EXCEPT ![h] = "idle"] /\ rq' = [rq EXCEPT ![h] = NoReq]

Proceed(h, where) == stage' = [stage EXCEPT ![h] = where] /\ UNCHANGED rq

Begin(h, where, r) ==
  /\ stage[h] = "idle" /\ ops < MaxOps /\ ops' = ops + 1
  /\ stage' = [stage EXCEPT ![h] = where] /\ rq' = [rq EXCEPT ![h] = r]

\* Devices of the owner that are online when the message is stored.
Online == SUBSET Devices

-----------------------------------------------------------------------------
(* Directory lookups of the chat instances *)

\* cached_presence, then lookup_bot: the owner of a live bot, NoOne for the rest.
LookupBot(h, b) ==
  IF b \in DOMAIN cache[h] THEN cache[h][b] ELSE IF b \in DOMAIN bots THEN bots[b].owner ELSE NoOne

\* store_presence after a lookup that found the account.
StorePresence(h, b) ==
  cache' = [cache EXCEPT ![h] = IF LookupBot(h, b) = NoOne THEN @ ELSE Set(@, b, LookupBot(h, b))]

Evict(h, b) == cache' = [cache EXCEPT ![h] = Without(@, {b})]

\* An entry's time to live runs out.
ExpireCache(h) ==
  /\ DOMAIN cache[h] # {} /\ cache' = [cache EXCEPT ![h] = <<>>]
  /\ UNCHANGED <<pg, db, bots, friends, lock, stage, rq, nextId, nextBot, ops>>

-----------------------------------------------------------------------------
(* What the HTTP adapters of the chat service put in a request *)

HttpInsertUser(u, b, cid) ==
  [NoReq EXCEPT !.op = "talk", !.who = u, !.dest = b, !.cid = cid, !.sent = ops]
HttpInsertGroup(u, g) == [NoReq EXCEPT !.op = "talk", !.who = u, !.dest = g, !.sent = ops]
HttpInsertBotReply(u, b, q, cid) ==
  [NoReq EXCEPT !.op = "reply", !.who = u, !.dest = b, !.q = q, !.cid = cid, !.sent = ops]
HttpDeleteBot(u, b) == [NoReq EXCEPT !.op = "delete", !.who = u, !.dest = b]
HttpUpdateBot(u, b, cfg) == [NoReq EXCEPT !.op = "update", !.who = u, !.dest = b, !.cfg = cfg]
HttpCreateBot(u, p, cfg) == [NoReq EXCEPT !.op = "create", !.who = u, !.prof = p, !.cfg = cfg]

-----------------------------------------------------------------------------
(* Handlers of the chat service *)

\* do_user_talk to a bot: it is the caller's own and still a friend.
DoUserTalk(h, u, b, cid) ==
  /\ LookupBot(h, b) = u /\ <<u, b>> \in friends
  /\ Begin(h, "insert", HttpInsertUser(u, b, cid))
  /\ StorePresence(h, b)
  /\ UNCHANGED <<pg, db, bots, friends, lock, nextId, nextBot>>

\* do_group_talk: the sender is a member.
DoGroupTalk(h, u, g) ==
  /\ \E i \in DOMAIN Members[g] : Members[g][i] = u
  /\ Begin(h, "insert", HttpInsertGroup(u, g))
  /\ UNCHANGED <<pg, db, bots, friends, cache, lock, nextId, nextBot>>

\* do_bot_reply: from a session of the bot's owner.
DoBotReply(h, u, b, q, cid) ==
  /\ LookupBot(h, b) = u /\ q > 0
  /\ Begin(h, "reply", HttpInsertBotReply(u, b, q, cid))
  /\ StorePresence(h, b)
  /\ UNCHANGED <<pg, db, bots, friends, lock, nextId, nextBot>>

DoBotDelete(h, u, b) ==
  /\ LookupBot(h, b) = u
  /\ Begin(h, "remove", HttpDeleteBot(u, b))
  /\ StorePresence(h, b)
  /\ UNCHANGED <<pg, db, bots, friends, lock, nextId, nextBot>>

DoBotUpdate(h, u, b, cfg) ==
  /\ LookupBot(h, b) = u
  /\ Begin(h, "patch", HttpUpdateBot(u, b, cfg))
  /\ StorePresence(h, b)
  /\ UNCHANGED <<pg, db, bots, friends, lock, nextId, nextBot>>

DoBotCreate(h, u, p, cfg) ==
  /\ Begin(h, "find", HttpCreateBot(u, p, cfg))
  /\ UNCHANGED <<pg, db, bots, friends, cache, lock, nextId, nextBot>>

\* do_bot_pending: what the owner's agent is told to work on.
DoBotPending(h, u, b) == IF LookupBot(h, b) = u THEN BotPending(db, u, b) ELSE {}

\* do_conversation_read, up to the store.
DoConversationRead(u, conv, id) ==
  /\ ops < MaxOps /\ ops' = ops + 1
  /\ db' = MarkRead(db, u, conv, id)
  /\ UNCHANGED <<pg, bots, friends, cache, lock, stage, rq, nextId, nextBot>>

\* A device signs in, acknowledges, or its receipts expire.
DoDelivery(d) ==
  /\ ops < MaxOps /\ ops' = ops + 1
  /\ \/ db' = Backfill(db, d)
     \/ db' = Ack(db, d, OfflineIndex(db, d).rows)
     \/ \E p \in db.pending : db' = GcExpired(db, {p})
  /\ UNCHANGED <<pg, bots, friends, cache, lock, stage, rq, nextId, nextBot>>

-----------------------------------------------------------------------------
(* Royal: storing a talk *)

\* MemoryMessageStore::insert looks the client id up under the read lock.
InsertCheck(h) ==
  /\ ~ pg /\ stage[h] = "insert"
  /\ IF Claimed(db, Msg(h))
     THEN /\ stage' = [stage EXCEPT ![h] = "again"] /\ nextId' = nextId
          /\ rq' = [rq EXCEPT ![h].id = ClaimOf(db, Msg(h))]
     ELSE /\ nextId <= MaxIds /\ nextId' = nextId + 1
          /\ stage' = [stage EXCEPT ![h] = "write"] /\ rq' = [rq EXCEPT ![h].id = nextId]
  /\ UNCHANGED <<pg, db, bots, friends, cache, lock, nextBot, ops>>

\* The duplicate's receipts, after the read lock was given up.
InsertAgain(h) ==
  /\ stage[h] = "again"
  /\ \E t \in Online : db' = UpsertReceipts(db, rq[h].id, Msg(h), t)
  /\ Done(h)
  /\ UNCHANGED <<pg, bots, friends, cache, lock, nextId, nextBot, ops>>

InsertWrite(h) ==
  /\ stage[h] = "write"
  /\ \E t \in Online : db' = InsertLocked(db, Msg(h), rq[h].id, t)
  /\ Done(h)
  /\ UNCHANGED <<pg, bots, friends, cache, lock, nextId, nextBot, ops>>

\* insert_fanout of Postgres, one commit under the thread's locks (module
\* PendingDelivery has its steps).
PgInsert(h) ==
  /\ pg /\ stage[h] = "insert" /\ lock = Free /\ nextId <= MaxIds
  /\ \E t \in Online : db' = InsertLocked(db, Msg(h), nextId, t)
  /\ nextId' = nextId + 1
  /\ Done(h)
  /\ UNCHANGED <<pg, bots, friends, cache, lock, nextBot, ops>>

-----------------------------------------------------------------------------
(* Royal: storing a reply *)

MemReply(h) ==
  /\ ~ pg /\ stage[h] = "reply" /\ nextId <= MaxIds
  /\ \E t \in Online : db' = InsertBotReply(db, rq[h].dest, rq[h].q, Msg(h), nextId, t)
  /\ nextId' = IF nextId \in DOMAIN db'.contents THEN nextId + 1 ELSE nextId
  /\ Done(h)
  /\ UNCHANGED <<pg, bots, friends, cache, lock, nextBot, ops>>

\* insert_bot_reply of Postgres draws the id, takes the locks, validates.
PgReplyBegin(h) ==
  /\ pg /\ stage[h] = "reply" /\ lock = Free /\ nextId <= MaxIds
  /\ nextId' = nextId + 1
  /\ IF IsQuestion(db, rq[h].who, rq[h].dest, rq[h].q)
     THEN /\ lock' = h
          /\ stage' = [stage EXCEPT ![h] = "replying"] /\ rq' = [rq EXCEPT ![h].id = nextId]
     ELSE lock' = lock /\ Done(h)
  /\ UNCHANGED <<pg, db, bots, friends, cache, nextBot, ops>>

\* Mutant of PgReply: the turn is not claimed.
PgReplyNoTurn(m, bot, q, id, t) ==
  LET claimed == IF Claimed(db, m) THEN db ELSE Claim(db, m, id)
  IN  UpsertReceipts(Write(claimed, m, id), id, m, t)

\* Its tables: the turn is claimed or the reply is a duplicate.
PgReply(m, bot, q, id, t) ==
  LET claimed == IF Claimed(db, m) THEN db ELSE Claim(db, m, id)
  IN  IF <<bot, q>> \in DOMAIN db.turns THEN db
      ELSE UpsertReceipts([Write(claimed, m, id) EXCEPT !.turns = Set(@, <<bot, q>>, id)], id, m, t)

PgReplyCommit(h) ==
  /\ stage[h] = "replying"
  /\ \E t \in Online : db' = PgReply(Msg(h), rq[h].dest, rq[h].q, rq[h].id, t)
  /\ lock' = Free
  /\ Done(h)
  /\ UNCHANGED <<pg, bots, friends, cache, nextId, nextBot, ops>>

-----------------------------------------------------------------------------
(* Royal: deleting a bot *)

\* MemoryUserDirectory::delete_bot removes the record, then the friendship.
MemRemove(h) ==
  /\ ~ pg /\ stage[h] = "remove"
  /\ IF rq[h].dest \in DOMAIN bots
     THEN bots' = Without(bots, {rq[h].dest}) /\ Proceed(h, "unfriend")
     ELSE bots' = bots /\ Done(h)
  /\ UNCHANGED <<pg, db, friends, cache, lock, nextId, nextBot, ops>>

MemUnfriend(h) ==
  /\ stage[h] = "unfriend"
  /\ friends' = friends \ {<<rq[h].who, rq[h].dest>>}
  /\ Proceed(h, "purge")
  /\ UNCHANGED <<pg, db, bots, cache, lock, nextId, nextBot, ops>>

\* PostgresUserDirectory::delete_bot: friendship, turns and account in one commit.
PgDelete(h) ==
  /\ pg /\ stage[h] = "remove"
  /\ IF rq[h].dest \in DOMAIN bots
     THEN /\ bots' = Without(bots, {rq[h].dest})
          /\ friends' = friends \ {<<rq[h].who, rq[h].dest>>}
          /\ db' = [db EXCEPT !.turns = Without(@, {t \in DOMAIN @ : t[1] = rq[h].dest})]
          /\ Proceed(h, "purge")
     ELSE UNCHANGED <<bots, friends, db>> /\ Done(h)
  /\ UNCHANGED <<pg, cache, lock, nextId, nextBot, ops>>

\* bot_delete of Royal purges; the chat handler evicts and purges once more.
Purged(h) == IF rq[h].again THEN Done(h) ELSE Proceed(h, "evict")

MemPurge(h) ==
  /\ ~ pg /\ stage[h] = "purge"
  /\ db' = PurgePeerDm(db, rq[h].who, rq[h].dest)
  /\ Purged(h)
  /\ UNCHANGED <<pg, bots, friends, cache, lock, nextId, nextBot, ops>>

\* purge_peer_dm of Postgres reads the ids of the thread; it takes no locks.
PgPurgeSelect(h) ==
  /\ pg /\ stage[h] = "purge"
  /\ stage' = [stage EXCEPT ![h] = "purging"]
  /\ rq' = [rq EXCEPT ![h].ids = {r.id : r \in ThreadRows(db.byMessage, rq[h].who, rq[h].dest)}]
  /\ UNCHANGED <<pg, db, bots, friends, cache, lock, nextId, nextBot, ops>>

\* What it has deleted when it commits: contents, receipts and claims of the ids it
\* read, but every index row of the thread there is by then.
PgPurge(a, b, ids) ==
  [db EXCEPT !.byAccount = @ \ ThreadRows(@, a, b), !.byMessage = @ \ ThreadRows(@, a, b),
             !.contents = Without(@, ids), !.idem = Without(@, {k \in DOMAIN @ : @[k] \in ids}),
             !.pending = {p \in @ : p[2] \notin ids}, !.acked = {p \in @ : p[2] \notin ids},
             !.reads = Without(@, {<<a, b>>, <<b, a>>}), !.versions = Without(@, {<<a, b>>, <<b, a>>}),
             !.turns = Without(@, {t \in DOMAIN @ : t[1] = b})]

PgPurgeCommit(h) ==
  /\ stage[h] = "purging"
  /\ db' = PgPurge(rq[h].who, rq[h].dest, rq[h].ids)
  /\ IF rq[h].again THEN Done(h)
     ELSE stage' = [stage EXCEPT ![h] = "evict"] /\ rq' = [rq EXCEPT ![h].ids = {}]
  /\ UNCHANGED <<pg, bots, friends, cache, lock, nextId, nextBot, ops>>

\* CachedUserDirectory::delete_bot returns; do_bot_delete calls purge_peer_dm.
EvictDeleted(h) ==
  /\ stage[h] = "evict"
  /\ Evict(h, rq[h].dest)
  /\ stage' = [stage EXCEPT ![h] = "purge"] /\ rq' = [rq EXCEPT ![h].again = TRUE]
  /\ UNCHANGED <<pg, db, bots, friends, lock, nextId, nextBot, ops>>

-----------------------------------------------------------------------------
(* Royal: creating and updating a bot *)

\* find_bot_by_profile
BotsOf(u)    == {b \in DOMAIN bots : bots[b].owner = u}
ByProfile(h) == {b \in BotsOf(rq[h].who) : bots[b].prof = rq[h].prof}

NewBot(h) == [owner |-> rq[h].who, prof |-> rq[h].prof, cfg |-> rq[h].cfg]

\* create_bot, both backends: an existing bot is reused, a new one needs room.
FindBot(h) ==
  /\ stage[h] = "find"
  /\ IF ByProfile(h) # {}
     THEN /\ stage' = [stage EXCEPT ![h] = "config"] /\ nextBot' = nextBot
          /\ rq' = [rq EXCEPT ![h].dest = CHOOSE b \in ByProfile(h) : TRUE]
     ELSE IF Cardinality(BotsOf(rq[h].who)) >= BOT_MAX_PER_OWNER THEN Done(h) /\ nextBot' = nextBot
     ELSE /\ nextBot <= MaxBots /\ nextBot' = nextBot + 1
          /\ stage' = [stage EXCEPT ![h] = "add"] /\ rq' = [rq EXCEPT ![h].dest = nextBot]
  /\ UNCHANGED <<pg, db, bots, friends, cache, lock, nextId, ops>>

\* In memory the profile is looked up again under the write lock.
MemAddBot(h) ==
  /\ ~ pg /\ stage[h] = "add"
  /\ IF ByProfile(h) # {}
     THEN /\ stage' = [stage EXCEPT ![h] = "config"] /\ bots' = bots
          /\ rq' = [rq EXCEPT ![h].dest = CHOOSE b \in ByProfile(h) : TRUE]
     ELSE bots' = Set(bots, rq[h].dest, NewBot(h)) /\ Proceed(h, "befriend")
  /\ UNCHANGED <<pg, db, friends, cache, lock, nextId, nextBot, ops>>

SetConfig(b, cfg) == bots' = IF b \in DOMAIN bots THEN [bots EXCEPT ![b].cfg = cfg] ELSE bots

MemConfig(h) ==
  /\ ~ pg /\ stage[h] = "config"
  /\ SetConfig(rq[h].dest, rq[h].cfg) /\ Proceed(h, "befriend")
  /\ UNCHANGED <<pg, db, friends, cache, lock, nextId, nextBot, ops>>

\* ensure_friends, then the cached directory evicts the account.
MemBefriend(h) ==
  /\ stage[h] = "befriend"
  /\ friends' = friends \cup {<<rq[h].who, rq[h].dest>>}
  /\ Evict(h, rq[h].dest) /\ Done(h)
  /\ UNCHANGED <<pg, db, bots, lock, nextId, nextBot, ops>>

\* In Postgres the unique index on (owner, profile) refuses a second bot.
PgAddBot(h) ==
  /\ pg /\ stage[h] = "add"
  /\ IF ByProfile(h) # {} THEN UNCHANGED <<bots, friends, cache>>
     ELSE /\ bots' = Set(bots, rq[h].dest, NewBot(h))
          /\ friends' = friends \cup {<<rq[h].who, rq[h].dest>>}
          /\ Evict(h, rq[h].dest)
  /\ Done(h)
  /\ UNCHANGED <<pg, db, lock, nextId, nextBot, ops>>

\* The settings of a bot that is gone fail on bot_config's foreign key, and the
\* friendship rolls back with them.
PgConfig(h) ==
  /\ pg /\ stage[h] = "config"
  /\ IF rq[h].dest \notin DOMAIN bots THEN UNCHANGED <<bots, friends, cache>>
     ELSE /\ SetConfig(rq[h].dest, rq[h].cfg)
          /\ friends' = friends \cup {<<rq[h].who, rq[h].dest>>}
          /\ Evict(h, rq[h].dest)
  /\ Done(h)
  /\ UNCHANGED <<pg, db, lock, nextId, nextBot, ops>>

\* update_bot checks the owner, then writes.
CheckPatch(h) ==
  /\ stage[h] = "patch"
  /\ IF rq[h].dest \in DOMAIN bots THEN Proceed(h, "store") ELSE Done(h)
  /\ UNCHANGED <<pg, db, bots, friends, cache, lock, nextId, nextBot, ops>>

StorePatch(h) ==
  /\ stage[h] = "store"
  /\ SetConfig(rq[h].dest, rq[h].cfg)
  /\ IF rq[h].dest \in DOMAIN bots THEN Evict(h, rq[h].dest) ELSE UNCHANGED cache
  /\ Done(h)
  /\ UNCHANGED <<pg, db, friends, lock, nextId, nextBot, ops>>

-----------------------------------------------------------------------------
(* The system *)

\* A request fails between two steps: an error, a timeout or a crash.  What was
\* committed stays, locks go.
FailRequest(h) ==
  /\ stage[h] # "idle" /\ Done(h)
  /\ lock' = IF lock = h THEN Free ELSE lock
  /\ UNCHANGED <<pg, db, bots, friends, cache, nextId, nextBot, ops>>

\* A bot with its owner, and a first question to it.
BotsInit ==
  /\ pg \in BOOLEAN
  /\ \E u \in Humans, p \in ProfileIds, c \in Configs :
       /\ bots = [b \in {1} |-> [owner |-> u, prof |-> p, cfg |-> c]]
       /\ friends = {<<u, 1>>}
       /\ db = Write(EmptyDb, [sender |-> u, dest |-> 1, cid |-> NoCid, sent |-> 0, re |-> 0], 1)
  /\ cache = [h \in Handlers |-> <<>>]
  /\ lock = Free
  /\ stage = [h \in Handlers |-> "idle"] /\ rq = [h \in Handlers |-> NoReq]
  /\ nextId = 2 /\ nextBot = 2 /\ ops = 1

Request(h) ==
  \E u \in Humans :
    \/ \E p \in ProfileIds, c \in Configs : DoBotCreate(h, u, p, c)
    \/ \E g \in Groups : DoGroupTalk(h, u, g)
    \/ \E b \in BotIds : \/ \E cid \in ClientIds \cup {NoCid} : DoUserTalk(h, u, b, cid)
                         \/ \E q \in 1 .. nextId - 1, cid \in ClientIds : DoBotReply(h, u, b, q, cid)
                         \/ DoBotDelete(h, u, b)
                         \/ \E c \in Configs : DoBotUpdate(h, u, b, c)

\* The endpoints of Royal.
InsertEndpoint(h)    == InsertCheck(h) \/ InsertAgain(h) \/ InsertWrite(h) \/ PgInsert(h)
BotReplyEndpoint(h)  == MemReply(h) \/ PgReplyBegin(h) \/ PgReplyCommit(h)
PurgeDmEndpoint(h)   == MemPurge(h) \/ PgPurgeSelect(h) \/ PgPurgeCommit(h)
BotDeleteEndpoint(h) == MemRemove(h) \/ MemUnfriend(h) \/ PgDelete(h) \/ PurgeDmEndpoint(h)
BotCreateEndpoint(h) ==
  FindBot(h) \/ MemAddBot(h) \/ MemConfig(h) \/ MemBefriend(h) \/ PgAddBot(h) \/ PgConfig(h)
BotUpdateEndpoint(h) == CheckPatch(h) \/ StorePatch(h)

Step(h) ==
  \/ InsertEndpoint(h) \/ BotReplyEndpoint(h) \/ BotDeleteEndpoint(h)
  \/ BotCreateEndpoint(h) \/ BotUpdateEndpoint(h) \/ EvictDeleted(h)

BotsNext ==
  \/ \E h \in Handlers : Request(h) \/ Step(h) \/ FailRequest(h) \/ ExpireCache(h)
  \/ \E u \in Humans, conv \in BotIds \cup Groups, id \in DOMAIN db.contents :
       (\E r \in AccountRows(db, u) : ConvOf(r) = conv) /\ DoConversationRead(u, conv, id)
  \/ \E d \in Devices : DoDelivery(d)

BotsSpec == BotsInit /\ [][BotsNext]_botVars

-----------------------------------------------------------------------------
(* Properties *)

\* While a bot exists, each of its owner's messages has at most one reply, however
\* many devices answer, retry or overlap: the turn claimed with the reply.
OneReply ==
  \A i, j \in DOMAIN db.contents :
    /\ db.contents[i].re # 0 /\ db.contents[i].re = db.contents[j].re
    /\ db.contents[i].sender = db.contents[j].sender /\ db.contents[i].sender \in DOMAIN bots
    => i = j

\* A question to a bot that exists is either handed to the owner's agent or already
\* answered in the thread: no turn is claimed without its reply.
AskedOrAnswered ==
  \A b \in DOMAIN bots : LET u == bots[b].owner IN
    \A r \in AccountRows(db, u) : r.peer = b /\ r.dir = Send =>
      \/ \A h \in Handlers : LookupBot(h, b) = u => r.id \in DoBotPending(h, u, b)
      \/ /\ <<b, r.id>> \in DOMAIN db.turns
         /\ db.turns[<<b, r.id>>] \in History(db, u, b, 0)

\* One bot per agent profile of an owner, however often and concurrently the
\* owner's devices create it.
OneBotPerProfile ==
  \A a, b \in DOMAIN bots : bots[a].owner = bots[b].owner /\ bots[a].prof = bots[b].prof => a = b

\* In Postgres no friendship outlives its bot, although create_bot may find a bot
\* that delete_bot removes before the friendship is written.
NoGhostFriend == pg => \A f \in friends : f[2] \in DOMAIN bots

\* The store's own views agree: its two indexes hold the same rows, the inbox folded
\* row by row has the unread count and the highest id that conversation_state
\* counts, a duplicate is fanned out like the first insert, and a device
\* that is told of a message offline can fetch it.
StoreViewsAgree ==
  /\ db.byAccount = db.byMessage
  /\ \A u \in Humans : \A conv \in DOMAIN InboxFold(db, u) :
       /\ InboxFold(db, u)[conv].unread = ConversationState(db, u, conv).unread
       /\ InboxFold(db, u)[conv].max = ConversationState(db, u, conv).max
  /\ \A i \in DOMAIN db.contents : MessageRows(db, i) # {} =>
       FanoutFromMemory(db, i) = FanoutFromWrite(db.contents[i])
  /\ \A d \in Devices : LET page == OfflineIndex(db, d).rows
                        IN  OfflineContent(db, DeviceOwner[d], page) = page

Contract == INSTANCE MessageStore WITH
  stored   <- {<<i, db.contents[i].sender, db.contents[i].cid>> : i \in DOMAIN db.contents},
  claims   <- {<<k[1], k[2], db.idem[k]>> : k \in DOMAIN db.idem},
  receipts <- db.pending,
  acked    <- db.acked

\* Both backends keep the promise of a message store, deletion of bots included.
ImplementsMessageStore == Contract!Spec

(* What the bot handlers and both stores promise together: one reply to a  *)
(* question, one bot to a profile, no friendship with a deleted bot.       *)
BotsSound ==
  OneReply /\ AskedOrAnswered /\ OneBotPerProfile /\ NoGhostFriend /\ StoreViewsAgree
=============================================================================
