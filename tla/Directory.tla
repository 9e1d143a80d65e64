----------------------------- MODULE Directory ------------------------------
(***************************************************************************)
(* The social and group handlers of a chat process, its cache of friend    *)
(* and block answers, and the royal instances behind the pool.             *)
(*                                                                         *)
(* A task is one handler at work.  What it asks of royal goes through the  *)
(* pool (RoyalPool) and is answered by the store (SocialStore), which may  *)
(* run an attempt the caller has given up.                                 *)
(***************************************************************************)
EXTENDS RoyalPool

CONSTANTS MaxOps,              \* bound: commands
          MAX_GROUP_MEMBERS

ASSUME DirectoryAssumption == MaxOps \in Nat /\ MAX_GROUP_MEMBERS \in Nat

VARIABLES task,      \* what each handler does
          entries,   \* CachedSocial.entries: yes, no or none
          inflight,  \* keys being fetched
          issued,    \* commands so far
          wanted,    \* <<x, y>>: x asked for y or accepted y (history)
          invited,   \* <<g, a>>: let in by its creator or a member (history)
          overlap    \* keys whose last change no eviction has covered (history)

chatVars == <<task, entries, inflight, issued, wanted, invited, overlap>>
vars == <<storeVars, poolVars, chatVars>>

Pairs == {{a, b} : a \in Humans, b \in Accounts} \ {{a} : a \in Humans}
Keys == {"blocked", "friend"} \X Pairs

Resting == [op |-> "idle", at |-> "none", a |-> "none", b |-> "none", g |-> "none"]

Truth(k) ==
    IF k[1] = "friend" THEN <<"friend", k[2]>> \in db
    ELSE \E a, b \in k[2] : a # b /\ IsBlockedEither(a, b)

(* What the adapters send: a pair of accounts, a group with an account, or *)
(* a message under its client id.                                          *)
HttpSocial(t, ep) == [NoReq EXCEPT !.ep = ep, !.a = t.a, !.b = t.b]
HttpGroup(t, ep) == [NoReq EXCEPT !.ep = ep, !.a = t.a, !.b = t.b, !.g = t.g]
HttpInsert(t, ep) == [NoReq EXCEPT !.ep = ep, !.a = t.a, !.b = t.b, !.g = t.g]

RequestOf(t, ep) ==
    IF ep \in {"create", "join", "quit", "detail", "members"} THEN HttpGroup(t, ep)
    ELSE IF ep = "insert" THEN HttpInsert(t, ep) ELSE HttpSocial(t, ep)

(***************************************************************************)
(* The commands.                                                           *)
(***************************************************************************)
(* A command is a new task. *)
Begin(c, op, ep, a, b, g) ==
    /\ task[c].op = "idle"
    /\ issued < MaxOps /\ issued' = issued + 1
    /\ LET t == [op |-> op, at |-> ep, a |-> a, b |-> b, g |-> g]
       IN /\ task' = [task EXCEPT ![c] = t]
          /\ calling' = IF ep = "blocked_check" THEN calling
                        ELSE [calling EXCEPT ![c] = Calling(RequestOf(t, ep))]
    /\ UNCHANGED <<storeVars, up, clients, fails, opened, gate, probes, mishaps,
                   entries, inflight, overlap>>

Says(a, b) == wanted' = wanted \cup {<<a, b>>} /\ UNCHANGED invited
SaysNothing == UNCHANGED <<wanted, invited>>

(* dest_account, reject_bot_social and require_user. *)
Peer(a, b) == b \in Humans \ {a}

DoFriendRequest(c, a, b) ==
    Peer(a, b) /\ Begin(c, "pair", "request", a, b, "none") /\ Says(a, b)

DoFriendAccept(c, a, b) ==
    a # b /\ Begin(c, "pair", "accept", a, b, "none") /\ Says(a, b)

DoFriendReject(c, a, b) ==
    a # b /\ Begin(c, "pair", "reject", a, b, "none") /\ SaysNothing

DoFriendRemove(c, a, b) ==
    a # b /\ b \notin Bots /\ Begin(c, "pair", "remove", a, b, "none") /\ SaysNothing

DoBlockAdd(c, a, b) ==
    Peer(a, b) /\ Begin(c, "pair", "block", a, b, "none") /\ SaysNothing

DoBlockRemove(c, a, b) ==
    a # b /\ b \notin Bots /\ Begin(c, "pair", "unblock", a, b, "none") /\ SaysNothing

DoFriendList(c, a) == Begin(c, "read", "friends", a, a, "none") /\ SaysNothing

DoFriendIncoming(c, a) == Begin(c, "read", "incoming", a, a, "none") /\ SaysNothing

DoBlockList(c, a) == Begin(c, "read", "blocked", a, a, "none") /\ SaysNothing

(* do_user_talk: block, then friendship, then the insert.  A client that   *)
(* gives no id gives the empty one, and may send the same id again.        *)
DoUserTalk(c, a, b, cid) ==
    Peer(a, b) /\ Begin(c, "talk", "blocked_check", a, b, cid) /\ SaysNothing

(* do_typing asks the same two questions, without a deadline. *)
DoTyping(c, a, b) ==
    Peer(a, b) /\ Begin(c, "typing", "blocked_check", a, b, "none") /\ SaysNothing

(* do_group_create, alone or with one other member. *)
DoGroupCreate(c, a, b) ==
    /\ b \in Humans /\ Begin(c, "create", "create", a, b, "none")
    /\ Cardinality({a, b}) <= MAX_GROUP_MEMBERS
    /\ invited' = invited \cup {<<g, x>> : g \in {h \in Groups : Group(h) \notin db}, x \in {a, b}}
    /\ UNCHANGED wanted

DoGroupInvite(c, a, b, g) == Begin(c, "invite", "detail", a, b, g) /\ SaysNothing

DoGroupQuit(c, a, g) == Begin(c, "quit", "detail", a, a, g) /\ SaysNothing

(* do_group_join, do_group_detail and do_group_members only look. *)
DoGroupDetail(c, a, g) == Begin(c, "read", "detail", a, a, g) /\ SaysNothing

(***************************************************************************)
(* CachedSocial.                                                           *)
(***************************************************************************)
(* Mutant: the block answer stays. *)
EvictFriend(p) == [k \in Keys |-> IF k = <<"friend", p>> THEN "none" ELSE entries[k]]

(* evict_pair. *)
EvictPair(p) == [k \in Keys |-> IF k[2] = p THEN "none" ELSE entries[k]]

KeyOf(t) ==
    <<IF t.at \in {"blocked_check", "blocked_wait", "is_blocked"} THEN "blocked" ELSE "friend",
      {t.a, t.b}>>

Fetching(c) == task[c].at \in {"is_blocked", "is_friend"}
Waits(c) == task[c].at \in {"blocked_wait", "friend_wait"}

(* What a handler does with the answer v to its question. *)
Decide(t, v) ==
    IF KeyOf(t)[1] = "blocked"
    THEN IF v = "no" THEN [t EXCEPT !.at = "friend_check"] ELSE Resting
    ELSE IF v = "yes" /\ t.op = "talk" THEN [t EXCEPT !.at = "insert"] ELSE Resting

(* The insert that a talk goes on with. *)
CallAfter(t) == IF t.at = "insert" THEN Calling(RequestOf(t, "insert")) ELSE NoCall

(* The first to miss enters the key in inflight. *)
Claim(k) == inflight \cup {k}

(* cached_bool: a hit, else the first to miss fetches and the others wait. *)
CachedBool(c) ==
    /\ task[c].at \in {"blocked_check", "friend_check"}
    /\ LET t == task[c]
           k == KeyOf(t)
           hit == Decide(t, entries[k])
           ep == IF k[1] = "blocked" THEN "is_blocked" ELSE "is_friend"
       IN IF entries[k] # "none"
          THEN /\ task' = [task EXCEPT ![c] = hit]
               /\ calling' = [calling EXCEPT ![c] = CallAfter(hit)]
               /\ UNCHANGED inflight
          ELSE IF k \in inflight
          THEN /\ task' = [task EXCEPT ![c].at = IF k[1] = "blocked" THEN "blocked_wait"
                                                 ELSE "friend_wait"]
               /\ UNCHANGED <<calling, inflight>>
          ELSE /\ inflight' = Claim(k)
               /\ task' = [task EXCEPT ![c].at = ep]
               /\ calling' = [calling EXCEPT ![c] = Calling(RequestOf(t, ep))]
    /\ UNCHANGED <<storeVars, up, clients, fails, opened, gate, probes, mishaps,
                   entries, issued, wanted, invited, overlap>>

(* The fetch is answered: the waiters get what the fetcher got, an answer  *)
(* is stored, an error is not.                                             *)
FetchReturns(c) ==
    /\ Fetching(c) /\ calling[c].st = "end"
    /\ LET k == KeyOf(task[c])
           v == calling[c].res
           told == {c} \cup {d \in Tasks : Waits(d) /\ KeyOf(task[d]) = k}
           new == [d \in told |-> IF v \in {"yes", "no"} THEN Decide(task[d], v) ELSE Resting]
       IN /\ inflight' = inflight \ {k}
          /\ entries' = IF v \in {"yes", "no"} THEN [entries EXCEPT ![k] = v] ELSE entries
          /\ task' = [d \in Tasks |-> IF d \in told THEN new[d] ELSE task[d]]
          /\ calling' = [d \in Tasks |-> IF d \in told THEN CallAfter(new[d]) ELSE calling[d]]
    /\ UNCHANGED <<storeVars, up, clients, fails, opened, gate, probes, mishaps,
                   issued, wanted, invited, overlap>>

(* DIRECTORY_BUDGET is over: the talk is answered and its future dropped.  *)
(* The key that it was fetching stays in inflight.                         *)
DirectoryTimeout(c) ==
    /\ task[c].op = "talk" /\ (Fetching(c) \/ Waits(c)) /\ mishaps < MaxFaults
    /\ mishaps' = mishaps + 1
    /\ jobs' = Orphaned(c)
    /\ task' = [task EXCEPT ![c] = Resting] /\ calling' = [calling EXCEPT ![c] = NoCall]
    /\ UNCHANGED <<backend, db, inserts, up, clients, fails, opened, gate, probes,
                   entries, inflight, issued, wanted, invited, overlap>>

(* An entry's time is over, or evict_oldest_tenth takes it. *)
EntryGoes(k) ==
    /\ entries[k] # "none"
    /\ entries' = [entries EXCEPT ![k] = "none"]
    /\ UNCHANGED <<storeVars, poolVars, task, inflight, issued, wanted, invited, overlap>>

(***************************************************************************)
(* The calls of a handler return.                                          *)
(***************************************************************************)
HandlerEnds(c) == task' = [task EXCEPT ![c] = Resting] /\ calling' = [calling EXCEPT ![c] = NoCall]

GoesOn(c, t) ==
    task' = [task EXCEPT ![c] = t] /\ calling' = [calling EXCEPT ![c] = Calling(RequestOf(t, t.at))]

Returned(c, at) ==
    /\ task[c].at = at /\ calling[c].st = "end"
    /\ UNCHANGED <<storeVars, up, clients, fails, opened, gate, probes, mishaps,
                   inflight, issued, wanted>>

Succeeded(c) == calling[c].res \notin {"error", "blocked", "notfound", "denied"}

(* request, accept, reject, remove, block, unblock of CachedSocial: after  *)
(* a success both keys of the pair go.                                     *)
PairReturns(c) ==
    /\ task[c].op = "pair" /\ Returned(c, task[c].at) /\ HandlerEnds(c)
    /\ LET p == {task[c].a, task[c].b}
       IN IF Succeeded(c)
          THEN /\ entries' = EvictPair(p)
               /\ overlap' = {k \in overlap : k[2] = p =>
                                \E d \in Tasks : Fetching(d) /\ KeyOf(task[d]) = k}
          ELSE UNCHANGED <<entries, overlap>>
    /\ UNCHANGED invited

(* Lists, creations, joins' notices and inserts only answer. *)
PlainReturns(c) ==
    /\ task[c].op \in {"read", "create"} \/ task[c].at \in {"insert", "members", "quit"}
    /\ Returned(c, task[c].at) /\ HandlerEnds(c)
    /\ UNCHANGED <<entries, overlap, invited>>

(* is_member of the group that was read. *)
MayInvite(c) == Succeeded(c) /\ task[c].a \in calling[c].rows

(* do_group_invite after the group is read: only people who are not in it, *)
(* while there is room.                                                    *)
InviteReads(c) ==
    /\ task[c].op = "invite" /\ Returned(c, "detail")
    /\ LET t == task[c]
       IN IF /\ MayInvite(c) /\ t.b \notin calling[c].rows /\ t.b \in Humans
             /\ Cardinality(calling[c].rows) + 1 <= MAX_GROUP_MEMBERS
          THEN /\ GoesOn(c, [t EXCEPT !.at = "join"])
               /\ invited' = IF t.a \in calling[c].rows THEN invited \cup {<<t.g, t.b>>}
                             ELSE invited
          ELSE HandlerEnds(c) /\ UNCHANGED invited
    /\ UNCHANGED <<entries, overlap>>

InviteJoined(c) ==
    /\ task[c].op = "invite" /\ Returned(c, "join")
    /\ IF Succeeded(c) THEN GoesOn(c, [task[c] EXCEPT !.at = "members"]) ELSE HandlerEnds(c)
    /\ UNCHANGED <<entries, overlap, invited>>

QuitReads(c) ==
    /\ task[c].op = "quit" /\ Returned(c, "detail")
    /\ IF Succeeded(c) /\ task[c].a \in calling[c].rows
       THEN GoesOn(c, [task[c] EXCEPT !.at = "quit"]) ELSE HandlerEnds(c)
    /\ UNCHANGED <<entries, overlap, invited>>

(***************************************************************************)
(* Specification.                                                          *)
(***************************************************************************)
(* A bot is its owner's friend from its creation. *)
Owned == {Friend(x, OwnerOf[x]) : x \in Bots}

(* Two people start as strangers or as friends. *)
Init ==
    /\ backend \in {"memory", "postgres"}
    /\ \E a, b \in Humans :
         /\ a # b
         /\ \/ db = Owned /\ wanted = {}
            \/ db = Owned \cup {Friend(a, b)} /\ wanted = {<<a, b>>, <<b, a>>}
    /\ jobs = {} /\ inserts = [k \in MessageKeys |-> 0]
    /\ PoolInit
    /\ task = [c \in Tasks |-> Resting]
    /\ entries = [k \in Keys |-> "none"] /\ inflight = {} /\ issued = 0
    /\ invited = {} /\ overlap = {}

(* Group ids that a client can have. *)
Known == {g \in Groups : Group(g) \in db}

Commands(c) ==
    \/ \E a \in Humans, b \in Accounts :
         \/ DoFriendRequest(c, a, b) \/ DoFriendAccept(c, a, b) \/ DoFriendReject(c, a, b)
         \/ DoFriendRemove(c, a, b) \/ DoBlockAdd(c, a, b) \/ DoBlockRemove(c, a, b)
         \/ DoTyping(c, a, b) \/ DoGroupCreate(c, a, b)
         \/ \E cid \in ClientIds \cup {"none"} : DoUserTalk(c, a, b, cid)
         \/ \E g \in Known : DoGroupInvite(c, a, b, g)
    \/ \E a \in Humans :
         \/ DoFriendList(c, a) \/ DoFriendIncoming(c, a) \/ DoBlockList(c, a)
         \/ \E g \in Known : DoGroupQuit(c, a, g) \/ DoGroupDetail(c, a, g)

Returns(c) ==
    \/ PairReturns(c) \/ PlainReturns(c) \/ InviteReads(c) \/ InviteJoined(c) \/ QuitReads(c)
    \/ CachedBool(c) \/ FetchReturns(c) \/ DirectoryTimeout(c)

(* A step of the pool or of an instance: a change of a relation is open    *)
(* until the chat process evicts it.                                       *)
Behind ==
    /\ PoolNext
    /\ overlap' = overlap \cup {k \in Keys : Truth(k)' # Truth(k)}
    /\ UNCHANGED <<task, entries, inflight, issued, wanted, invited>>

Next ==
    \/ \E c \in Tasks : Commands(c) \/ Returns(c)
    \/ \E k \in Keys : EntryGoes(k)
    \/ Behind

Spec == Init /\ [][Next]_vars

(***************************************************************************)
(* Properties.                                                             *)
(***************************************************************************)
TypeOK ==
    /\ backend \in {"memory", "postgres"} /\ db \subseteq Rows
    /\ \A j \in jobs : j.by \in Tasks /\ j.at \in Instances /\ j.del \cup j.ins \subseteq Rows
    /\ up \subseteq Instances /\ clients \subseteq Instances /\ opened \subseteq clients
    /\ fails \in [Instances -> 0..CIRCUIT_FAILS] /\ gate \in [Instances -> 0..HALF_OPEN]
    /\ \A i \in opened : fails[i] = CIRCUIT_FAILS
    /\ entries \in [Keys -> {"none", "yes", "no"}] /\ inflight \subseteq Keys
    /\ \A c \in Tasks : Cardinality(Waiting(c)) <= 1

(* A friendship between two people was wanted by both of them: each asked  *)
(* or accepted, whatever was retried, repeated late or raced.              *)
FriendsByBoth ==
    \A a, b \in Humans : a # b /\ Friend(a, b) \in db => {<<a, b>>, <<b, a>>} \subseteq wanted

(* With the memory directory a block leaves neither a friendship nor a     *)
(* request between the two.                                                *)
BlockedApart ==
    backend = "memory" =>
        \A a, b \in Humans : Block(a, b) \in db =>
            {Friend(a, b), Req(a, b), Req(b, a)} \cap db = {}

(* An open breaker lets one request through in each half-open window.      *)
OneProbe == \A i \in Instances : probes[i] <= 1

(* A cached answer that is wrong is one whose change was never evicted     *)
(* here (its caller got an error) or whose fetch overlapped the eviction.  *)
CacheCoherent ==
    \A k \in Keys : entries[k] # "none" /\ k \notin overlap => (entries[k] = "yes") = Truth(k)

(* The attempts of all talks of a sender under one client id, retried,     *)
(* late or sent twice, store one message.  An empty id promises nothing.   *)
InsertOnce == \A k \in MessageKeys : k[2] # "none" => inserts[k] <= 1

(* Nobody is in a group without its creator or a member having let them in.*)
InvitedByMember == \A g \in Groups, a \in Accounts : Member(g, a) \in db => <<g, a>> \in invited

(* At most one task of the process fetches a key. *)
SingleFlight ==
    \A c, d \in Tasks : Fetching(c) /\ Fetching(d) /\ c # d => KeyOf(task[c]) # KeyOf(task[d])

(* The relations in the store were wanted by those they bind, a block      *)
(* holds, and a talk with a client id is stored once, whatever was         *)
(* retried, repeated late or raced (service.rs, the two directories and    *)
(* the insert of the two stores).                                          *)
RelationsSound == FriendsByBoth /\ BlockedApart /\ InvitedByMember /\ InsertOnce

(* The answers of the social cache are current or their staleness is       *)
(* explained, a key is fetched by one task, an open breaker is probed by   *)
(* one request (social_cache.rs, royal_pool.rs).                           *)
LookupsSound == CacheCoherent /\ SingleFlight /\ OneProbe
=============================================================================
