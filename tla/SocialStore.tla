---------------------------- MODULE SocialStore -----------------------------
(***************************************************************************)
(* What the royal service keeps about people: friend requests, friendships *)
(* and blocks, groups with their members, and the messages inserted under  *)
(* their client ids.  A request that reached an instance is a job; it runs to its  *)
(* end whether or not its caller still waits.                              *)
(*                                                                         *)
(* Two backends.  The memory directories apply an operation under one      *)
(* lock.  The PostgreSQL ones run READ COMMITTED transactions: one step    *)
(* per statement, writes visible at the commit, a row that another open    *)
(* transaction wrote blocks the statement that wants to write it.  The     *)
(* last statement and its COMMIT are one step.                             *)
(***************************************************************************)
EXTENDS Naturals, FiniteSets

CONSTANTS Humans,      \* accounts of people
          Bots,        \* bot accounts
          OwnerOf,     \* [Bots -> Humans]
          Groups,      \* ids the id generator will hand out
          ClientIds    \* client ids of messages; "none" is the empty one

ASSUME StoreAssumption ==
    /\ IsFiniteSet(Humans) /\ IsFiniteSet(Bots) /\ Humans \cap Bots = {}
    /\ OwnerOf \in [Bots -> Humans]
    /\ "none" \notin ClientIds

VARIABLES backend,     \* "memory" or "postgres"
          db,          \* committed rows
          jobs,        \* requests at the instances
          inserts      \* messages stored under each sender's client ids

storeVars == <<backend, db, jobs, inserts>>

Accounts == Humans \cup Bots

(* The key of message_idempotency. *)
MessageKeys == Accounts \X (ClientIds \cup {"none"})

(***************************************************************************)
(* Rows.                                                                   *)
(***************************************************************************)
Req(f, t) == <<"request", f, t>>
Friend(a, b) == <<"friend", {a, b}>>
Block(a, b) == <<"block", a, b>>
Group(g) == <<"group", g>>
Member(g, a) == <<"member", g, a>>

Rows ==
    {Req(f, t) : f \in Accounts, t \in Accounts} \cup
    {Block(f, t) : f \in Accounts, t \in Accounts} \cup
    {Friend(a, b) : a \in Accounts, b \in Accounts} \cup
    {Group(g) : g \in Groups} \cup {Member(g, a) : g \in Groups, a \in Accounts}

IsFriend(a, b) == a = b \/ Friend(a, b) \in db

IsBlockedEither(a, b) == {Block(a, b), Block(b, a)} \cap db # {}

ListFriends(a) == {b \in Accounts : b # a /\ Friend(a, b) \in db}

Incoming(a) == {b \in Accounts : Req(b, a) \in db}

ListBlocked(a) == {b \in Accounts : Block(a, b) \in db}

Members(g) == {a \in Accounts : Member(g, a) \in db}

(***************************************************************************)
(* MemorySocialDirectory: an operation and its answer.                     *)
(***************************************************************************)
MemRequest(f, t) ==
    IF IsBlockedEither(f, t) THEN [db |-> db, res |-> "blocked"]
    ELSE IF Friend(f, t) \in db THEN [db |-> db, res |-> "already"]
    ELSE IF Req(t, f) \in db
    THEN [db |-> (db \ {Req(t, f), Req(f, t)}) \cup {Friend(f, t)}, res |-> "accepted"]
    ELSE [db |-> db \cup {Req(f, t)}, res |-> "sent"]

MemAccept(a, f) ==
    IF IsBlockedEither(a, f) THEN [db |-> db, res |-> "blocked"]
    ELSE IF {Req(f, a), Friend(a, f)} \cap db = {} THEN [db |-> db, res |-> "notfound"]
    ELSE [db |-> (db \ {Req(f, a)}) \cup {Friend(a, f)}, res |-> "ok"]

MemReject(a, f) == [db |-> db \ {Req(f, a)}, res |-> "ok"]

MemRemove(a, p) == [db |-> db \ {Friend(a, p)}, res |-> "ok"]

MemBlock(a, p) ==
    [db |-> (db \ {Friend(a, p), Req(a, p), Req(p, a)}) \cup {Block(a, p)}, res |-> "ok"]

MemUnblock(a, p) == [db |-> db \ {Block(a, p)}, res |-> "ok"]

(***************************************************************************)
(* Jobs.  live: the caller still waits; n tells those apart that nobody    *)
(* waits for; del and ins: rows the open transaction wrote; g: the group   *)
(* of a group call, the client id of an insert.                            *)
(***************************************************************************)
NewJob(c, r, i) ==
    [by |-> c, n |-> 0, ep |-> r.ep, a |-> r.a, b |-> r.b, g |-> r.g,
     at |-> i, live |-> TRUE, pc |-> "begin", del |-> {}, ins |-> {},
     res |-> "none", rows |-> {}]

(* The answer; a job nobody waits for ends here. *)
Reply(j, res, rows) ==
    jobs' = (jobs \ {j}) \cup
            IF j.live
            THEN {[j EXCEPT !.pc = "done", !.del = {}, !.ins = {}, !.res = res, !.rows = rows]}
            ELSE {}

Goto(j, pc) == jobs' = (jobs \ {j}) \cup {[j EXCEPT !.pc = pc]}

(* A rollback and its answer. *)
Rollback(j, res) == Reply(j, res, {}) /\ UNCHANGED db

(* Rows that another open transaction wrote. *)
Locked(j) == UNION {k.del \cup k.ins : k \in jobs \ {j}}

(* DELETE of the rows of R that are there, going on at pc. *)
Delete(j, R, pc) ==
    /\ R \cap db \cap Locked(j) = {}
    /\ jobs' = (jobs \ {j}) \cup {[j EXCEPT !.del = R \cap db, !.pc = pc]}
    /\ UNCHANGED db

(* INSERT ... ON CONFLICT DO NOTHING and COMMIT. *)
InsertAndCommit(j, r, res) ==
    /\ r \notin Locked(j)
    /\ db' = (db \ j.del) \cup j.ins \cup {r}
    /\ Reply(j, res, {})

(* DELETE and COMMIT. *)
DeleteAndCommit(j, R, res) ==
    /\ R \cap db \cap Locked(j) = {}
    /\ db' = (db \ (j.del \cup R)) \cup j.ins
    /\ Reply(j, res, {})

(***************************************************************************)
(* PostgresSocialDirectory.                                                *)
(***************************************************************************)
PgRequest(j) ==
    \/ /\ j.pc = "begin"
       /\ IF IsBlockedEither(j.a, j.b) THEN Rollback(j, "blocked")
          ELSE Goto(j, "friends") /\ UNCHANGED db
    \/ /\ j.pc = "friends"
       /\ IF Friend(j.a, j.b) \in db THEN Rollback(j, "already")
          ELSE Goto(j, "reverse") /\ UNCHANGED db
    \/ /\ j.pc = "reverse"
       /\ Goto(j, IF Req(j.b, j.a) \in db THEN "take" ELSE "ask") /\ UNCHANGED db
    \/ j.pc = "take" /\ Delete(j, {Req(j.a, j.b), Req(j.b, j.a)}, "join")
    \/ j.pc = "join" /\ InsertAndCommit(j, Friend(j.a, j.b), "accepted")
    \/ j.pc = "ask" /\ InsertAndCommit(j, Req(j.a, j.b), "sent")

PgAccept(j) ==
    \/ /\ j.pc = "begin"
       /\ IF IsBlockedEither(j.a, j.b) THEN Rollback(j, "blocked")
          ELSE Goto(j, "take") /\ UNCHANGED db
    \/ j.pc = "take" /\ Delete(j, {Req(j.b, j.a)}, "already")
    \/ /\ j.pc = "already"
       /\ IF j.del = {} /\ Friend(j.a, j.b) \notin db THEN Rollback(j, "notfound")
          ELSE Goto(j, "join") /\ UNCHANGED db
    \/ j.pc = "join" /\ InsertAndCommit(j, Friend(j.a, j.b), "ok")

PgReject(j) == j.pc = "begin" /\ DeleteAndCommit(j, {Req(j.b, j.a)}, "ok")

PgRemove(j) == j.pc = "begin" /\ DeleteAndCommit(j, {Friend(j.a, j.b)}, "ok")

PgBlock(j) ==
    \/ /\ j.pc = "begin" /\ Block(j.a, j.b) \notin Locked(j)
       /\ jobs' = (jobs \ {j}) \cup {[j EXCEPT !.ins = {Block(j.a, j.b)}, !.pc = "unfriend"]}
       /\ UNCHANGED db
    \/ j.pc = "unfriend" /\ Delete(j, {Friend(j.a, j.b)}, "unask")
    \/ j.pc = "unask" /\ DeleteAndCommit(j, {Req(j.a, j.b), Req(j.b, j.a)}, "ok")

PgUnblock(j) == j.pc = "begin" /\ DeleteAndCommit(j, {Block(j.a, j.b)}, "ok")

(***************************************************************************)
(* The endpoints of royal.                                                 *)
(***************************************************************************)
(* reject_bot_social: a person's own bot is refused, another's is unknown. *)
RejectBotSocial(j) ==
    IF j.b \notin Bots THEN "none"
    ELSE IF OwnerOf[j.b] = j.a THEN "denied" ELSE "notfound"

(* An operation on a pair: refused for a bot, else the backend's. *)
PairOp(j, checked, mem, pg) ==
    /\ UNCHANGED <<backend, inserts>>
    /\ IF checked /\ j.pc = "begin" /\ RejectBotSocial(j) # "none"
       THEN Rollback(j, RejectBotSocial(j))
       ELSE IF backend = "memory" THEN j.pc = "begin" /\ db' = mem.db /\ Reply(j, mem.res, {})
       ELSE pg

FriendRequest(j) == j.ep = "request" /\ PairOp(j, TRUE, MemRequest(j.a, j.b), PgRequest(j))

FriendAccept(j) == j.ep = "accept" /\ PairOp(j, TRUE, MemAccept(j.a, j.b), PgAccept(j))

FriendReject(j) == j.ep = "reject" /\ PairOp(j, FALSE, MemReject(j.a, j.b), PgReject(j))

FriendRemove(j) == j.ep = "remove" /\ PairOp(j, TRUE, MemRemove(j.a, j.b), PgRemove(j))

BlockAdd(j) == j.ep = "block" /\ PairOp(j, TRUE, MemBlock(j.a, j.b), PgBlock(j))

BlockRemove(j) == j.ep = "unblock" /\ PairOp(j, TRUE, MemUnblock(j.a, j.b), PgUnblock(j))

(* Answers that only read. *)
Answer(j, res, rows) ==
    j.pc = "begin" /\ Reply(j, res, rows) /\ UNCHANGED <<backend, db, inserts>>

FriendList(j) == j.ep = "friends" /\ Answer(j, "ok", ListFriends(j.a))

FriendIncoming(j) == j.ep = "incoming" /\ Answer(j, "ok", Incoming(j.a))

BlockList(j) == j.ep = "blocked" /\ Answer(j, "ok", ListBlocked(j.a))

FriendCheck(j) ==
    j.ep = "is_friend" /\ Answer(j, IF IsFriend(j.a, j.b) THEN "yes" ELSE "no", {})

BlockCheck(j) ==
    j.ep = "is_blocked" /\ Answer(j, IF IsBlockedEither(j.a, j.b) THEN "yes" ELSE "no", {})

(***************************************************************************)
(* Groups.  A new id every time: a retried creation makes a second group.  *)
(***************************************************************************)
(* normalize_members: the owner is in, nobody twice. *)
NormalizeMembers(owner, others) == {owner} \cup others

MemGroupCreate(j, g) ==
    db' = db \cup {Group(g)} \cup {Member(g, a) : a \in NormalizeMembers(j.a, {j.b})}

(* One transaction, all of whose rows are new. *)
PgGroupCreate(j, g) ==
    db' = db \cup {Group(g)} \cup {Member(g, a) : a \in NormalizeMembers(j.a, {j.b})}

GroupCreate(j) ==
    /\ j.ep = "create" /\ j.pc = "begin"
    /\ \E g \in {h \in Groups : Group(h) \notin db} :
         IF backend = "memory" THEN MemGroupCreate(j, g) ELSE PgGroupCreate(j, g)
    /\ Reply(j, "ok", {})
    /\ UNCHANGED <<backend, inserts>>

MemGroupJoin(j) ==
    IF Group(j.g) \in db THEN db' = db \cup {Member(j.g, j.b)} /\ Reply(j, "ok", {})
    ELSE Rollback(j, "notfound")

(* The group is looked up, then the row is inserted if it is not there. *)
PgGroupJoin(j) ==
    \/ /\ j.pc = "begin"
       /\ IF Group(j.g) \in db THEN Goto(j, "join") /\ UNCHANGED db ELSE Rollback(j, "notfound")
    \/ j.pc = "join" /\ InsertAndCommit(j, Member(j.g, j.b), "ok")

GroupJoin(j) ==
    /\ j.ep = "join" /\ j.pc # "done"
    /\ IF backend = "memory" THEN MemGroupJoin(j) ELSE PgGroupJoin(j)
    /\ UNCHANGED <<backend, inserts>>

MemGroupQuit(j) ==
    IF Group(j.g) \in db THEN db' = db \ {Member(j.g, j.a)} /\ Reply(j, "ok", {})
    ELSE Rollback(j, "notfound")

PgGroupQuit(j) ==
    \/ /\ j.pc = "begin"
       /\ IF Group(j.g) \in db THEN Goto(j, "leave") /\ UNCHANGED db ELSE Rollback(j, "notfound")
    \/ j.pc = "leave" /\ DeleteAndCommit(j, {Member(j.g, j.a)}, "ok")

GroupQuit(j) ==
    /\ j.ep = "quit" /\ j.pc # "done"
    /\ IF backend = "memory" THEN MemGroupQuit(j) ELSE PgGroupQuit(j)
    /\ UNCHANGED <<backend, inserts>>

(* A group that exists stays, so its row and its members are one read. *)
GroupDetail(j) ==
    j.ep = "detail" /\ Answer(j, IF Group(j.g) \in db THEN "ok" ELSE "notfound", Members(j.g))

GroupMembers(j) ==
    j.ep = "members" /\ Answer(j, IF Group(j.g) \in db THEN "ok" ELSE "notfound", Members(j.g))

(***************************************************************************)
(* insert_user, in both backends: a client id that is not empty is looked  *)
(* up, and looked up again where the message is stored (under the write    *)
(* lock, or by ON CONFLICT on the idempotency row, which commits with the  *)
(* message): a second insert is answered as a duplicate.  An empty one is  *)
(* never looked up.  PendingDelivery has the locks and the receipts.       *)
(***************************************************************************)
AlreadyStored(j) == inserts[<<j.a, j.g>>] > 0

Store(j) == inserts' = [inserts EXCEPT ![<<j.a, j.g>>] = @ + 1] /\ Reply(j, "ok", {})

Duplicate(j) == UNCHANGED inserts /\ Reply(j, "ok", {})

(* The first look. *)
Looks(j) ==
    /\ j.pc = "begin"
    /\ IF j.g = "none" THEN Store(j)
       ELSE IF AlreadyStored(j) THEN Duplicate(j)
       ELSE Goto(j, "store") /\ UNCHANGED inserts

(* Mutant: the message is stored on the word of the first look. *)
InsertUnchecked(j) ==
    /\ j.ep = "insert" /\ UNCHANGED <<backend, db>>
    /\ Looks(j) \/ (j.pc = "store" /\ Store(j))

InsertUser(j) ==
    /\ j.ep = "insert" /\ UNCHANGED <<backend, db>>
    /\ \/ Looks(j)
       \/ j.pc = "store" /\ IF AlreadyStored(j) THEN Duplicate(j) ELSE Store(j)

(* The backend fails, or PostgreSQL aborts a transaction: 500.  When the   *)
(* nonce store fails the request is refused before it starts: 503.         *)
BackendFails(j) ==
    /\ j.pc # "done"
    /\ Reply(j, "error", {}) \/ (j.pc = "begin" /\ Reply(j, "unavailable", {}))
    /\ UNCHANGED <<backend, db, inserts>>

ServeJob(j) ==
    \/ FriendRequest(j) \/ FriendAccept(j) \/ FriendReject(j) \/ FriendRemove(j)
    \/ BlockAdd(j) \/ BlockRemove(j)
    \/ FriendList(j) \/ FriendIncoming(j) \/ BlockList(j) \/ FriendCheck(j) \/ BlockCheck(j)
    \/ GroupCreate(j) \/ GroupJoin(j) \/ GroupQuit(j) \/ GroupDetail(j)
    \/ GroupMembers(j) \/ InsertUser(j)
=============================================================================
