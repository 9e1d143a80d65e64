------------------------------ MODULE Accounts ------------------------------
(***************************************************************************)
(* Royal's account of one user and the tokens made for it: registration,   *)
(* login, logout, the change of the password, devices, and the three       *)
(* places that say whether a token still counts -- the users table, the    *)
(* revocation store (jti entries with a TTL, the cached epoch) and the     *)
(* device keys.  The gateway asks the same questions and renews the tokens *)
(* of open connections.  With Redis the revocation store is shared: the    *)
(* gateway reads it directly and the cached epoch has a TTL; without, the  *)
(* store is royal's memory and the gateway asks royal.                     *)
(*                                                                         *)
(* A password is a number.  A token records the password its login was     *)
(* verified with, and whether it was made after that password had been     *)
(* replaced.                                                               *)
(***************************************************************************)
EXTENDS Integers, FiniteSets

CONSTANTS
  Handlers,   \* HTTP requests royal handles at one time
  TTL,        \* jwt.ttl_secs, in royal and in the gateway
  MaxTokens,
  Scenes      \* what a behaviour starts from and how much may happen in it

ASSUME AccountsAssumption ==
  /\ TTL \in Nat /\ MaxTokens \in Nat \ {0}
  /\ \A s \in Scenes : s.tokens \in 0 .. MaxTokens

VARIABLES
  redis,
  user,     \* [exists, pw, epoch], pw = 0 without a password
  cache,    \* the cached epoch: [epoch, exp]
  gone,     \* jti -> when its revocation ends
  tokens,   \* every token handed out
  jtis,     \* jtis given so far; a device enrolled has the number of its jti
  dir, hot, \* devices enrolled, and those in the hot store
  conn,     \* jti -> its connection at the gateway
  rq,       \* handler -> the request it serves
  now, pws, ops, faults, scene,
  out,      \* jti -> exp of the token it was last revoked with (history)
  behind    \* the cached epoch was not stored, or was replaced by an older one (history)

royal == <<redis, scene, user, cache, gone>>
devices == <<dir, hot>>
gateway == <<tokens, conn>>
limits == <<now, pws, ops, faults>>
history == <<out, behind>>
accountVars == <<royal, jtis, devices, gateway, rq, limits, history>>

Jtis == 1 .. MaxTokens
NoDevice == 0
NoConn == [st |-> "none"]
NoRq == [pc |-> "idle"]

RqAt(h, pc) == rq[h].pc = pc
RqTo(h, r) == rq' = [rq EXCEPT ![h] = r]
Step(h, pc) == RqTo(h, [rq[h] EXCEPT !.pc = pc])
Request(h) == RqAt(h, "idle") /\ ops < scene.ops /\ ops' = ops + 1

(* A backend fails. *)
Fault == faults < scene.faults /\ faults' = faults + 1

-----------------------------------------------------------------------------
(* The revocation store and the users table. *)

IsRevoked(jti) == gone[jti] > now

(* Redis drops the epoch after its TTL, royal's memory keeps it. *)
RedisEpoch == IF now < cache.exp THEN cache.epoch ELSE 0
MemoryEpoch == cache.epoch
GetEpoch == IF redis THEN RedisEpoch ELSE MemoryEpoch

(* The entry lives as long as the token that was presented. *)
Revoke(jti, exp) == gone' = [gone EXCEPT ![jti] = now + (IF exp > now + 1 THEN exp - now ELSE 1)]

SetEpoch(e) == cache' = [epoch |-> e, exp |-> now + TTL]

(* upsert: the chat service saw the account sign in. *)
UserUpsert ==
  /\ ~user.exists /\ user' = [user EXCEPT !.exists = TRUE]
  /\ UNCHANGED <<redis, scene, cache, gone, jtis, devices, gateway, rq, limits, history>>

(* Mutant: the epoch stays. *)
SetPasswordOnly(h) == user' = [user EXCEPT !.pw = rq[h].new]

SetPasswordAndBumpEpoch(h) == user' = [user EXCEPT !.pw = rq[h].new, !.epoch = @ + 1]

-----------------------------------------------------------------------------
(* register, login: finish_auth binds a device and issues a token. *)

Register(h, bind) ==
  /\ Request(h) /\ pws' = pws + 1
  /\ RqTo(h, [pc |-> "create", pw |-> pws + 1, bind |-> bind, did |-> NoDevice])
  /\ UNCHANGED <<royal, jtis, devices, gateway, now, faults, history>>

Create(h) ==
  /\ RqAt(h, "create")
  /\ IF user.exists THEN RqTo(h, NoRq) /\ UNCHANGED user
     ELSE Step(h, "bind") /\ user' = [exists |-> TRUE, pw |-> rq[h].pw, epoch |-> 0]
  /\ UNCHANGED <<redis, scene, cache, gone, jtis, devices, gateway, limits, history>>

(* The hash is read here; comparing it takes a while. *)
Login(h, bind) ==
  /\ Request(h) /\ user.pw > 0
  /\ RqTo(h, [pc |-> "bind", pw |-> user.pw, bind |-> bind, did |-> NoDevice])
  /\ UNCHANGED <<royal, jtis, devices, gateway, now, pws, faults, history>>

(* A credential of a device enrolled before. *)
BindKnown(h) ==
  /\ RqAt(h, "bind") /\ rq[h].bind = "known"
  /\ \/ \E d \in dir : hot' = hot \cup {d} /\ RqTo(h, [rq[h] EXCEPT !.pc = "issue", !.did = d])
     \/ dir = {} /\ RqTo(h, NoRq) /\ UNCHANGED hot
  /\ UNCHANGED <<royal, jtis, dir, gateway, limits, history>>

BindNone(h) ==
  /\ RqAt(h, "bind") /\ rq[h].bind = "none"
  /\ Step(h, "issue")
  /\ UNCHANGED <<royal, jtis, devices, gateway, limits, history>>

(* A new device is hot before it is enrolled. *)
BindHot(h) ==
  /\ RqAt(h, "bind") /\ rq[h].bind = "enroll" /\ jtis < scene.tokens
  /\ jtis' = jtis + 1 /\ hot' = hot \cup {jtis + 1}
  /\ RqTo(h, [rq[h] EXCEPT !.pc = "enroll", !.did = jtis + 1])
  /\ UNCHANGED <<royal, dir, gateway, limits, history>>

Enroll(h) ==
  /\ RqAt(h, "enroll")
  /\ dir' = dir \cup {rq[h].did} /\ Step(h, "issue")
  /\ UNCHANGED <<royal, jtis, hot, gateway, limits, history>>

(* The key is dropped again, or stays if that fails too. *)
EnrollFails(h) ==
  /\ RqAt(h, "enroll") /\ Fault
  /\ hot' \in {hot, hot \ {rq[h].did}} /\ RqTo(h, NoRq)
  /\ UNCHANGED <<royal, jtis, dir, gateway, now, pws, ops, history>>

(* issue reads the epoch of this moment. *)
Issue(h) ==
  /\ RqAt(h, "issue") /\ (rq[h].did = NoDevice \/ rq[h].bind = "known" => jtis < scene.tokens)
  /\ LET jti == IF rq[h].bind = "enroll" THEN rq[h].did ELSE jtis + 1 IN
     /\ jtis' = IF rq[h].bind = "enroll" THEN jtis ELSE jtis + 1
     /\ tokens' = tokens \cup
          {[jti |-> jti, ver |-> user.epoch, exp |-> now + TTL, did |-> rq[h].did,
            pw |-> rq[h].pw, late |-> rq[h].pw # user.pw]}
  /\ RqTo(h, NoRq)
  /\ UNCHANGED <<royal, devices, conn, limits, history>>

Bind(h) == BindKnown(h) \/ BindNone(h) \/ BindHot(h) \/ Enroll(h) \/ EnrollFails(h)

-----------------------------------------------------------------------------
(* Requests with a token. *)

(* parse: the signature and exp. *)
BearerClaims(t) == now < t.exp

(* logout does not ask whether the token is still live. *)
Logout(h, t) ==
  /\ Request(h) /\ BearerClaims(t)
  /\ Revoke(t.jti, t.exp)
  /\ out' = [out EXCEPT ![t.jti] = t.exp]
  /\ UNCHANGED <<redis, scene, user, cache, jtis, devices, gateway, rq, now, pws, faults, behind>>

(* live_claims: the jti, then the cached epoch ... *)
LiveClaims(h, t, op) ==
  /\ Request(h) /\ BearerClaims(t) /\ ~IsRevoked(t.jti)
  /\ RqTo(h, [pc |-> "epoch", op |-> op, tok |-> t, cached |-> GetEpoch])
  /\ UNCHANGED <<royal, jtis, devices, gateway, now, pws, faults, history>>

Live(h, durable) ==
  LET epoch == IF rq[h].cached > durable THEN rq[h].cached ELSE durable IN
  rq[h].tok.ver >= epoch

(* ... then the durable one, which warms the cache. *)
AccountEpoch(h) ==
  /\ RqAt(h, "epoch")
  /\ IF user.epoch > rq[h].cached
     THEN RqTo(h, [pc |-> "warm", op |-> rq[h].op, tok |-> rq[h].tok, epoch |-> user.epoch,
                 live |-> Live(h, user.epoch)])
     ELSE IF rq[h].op = "password" /\ Live(h, user.epoch)
          THEN RqTo(h, [pc |-> "hash", tok |-> rq[h].tok])
          ELSE RqTo(h, NoRq)
  /\ UNCHANGED <<royal, jtis, devices, gateway, limits, history>>

(* A failure to warm the cache is only logged. *)
Warm(h) ==
  /\ RqAt(h, "warm")
  /\ \/ /\ SetEpoch(rq[h].epoch) /\ behind' = (behind \/ rq[h].epoch < user.epoch)
        /\ UNCHANGED faults
     \/ Fault /\ behind' = TRUE /\ UNCHANGED cache
  /\ IF rq[h].op = "password" /\ rq[h].live THEN RqTo(h, [pc |-> "hash", tok |-> rq[h].tok])
     ELSE RqTo(h, NoRq)
  /\ UNCHANGED <<redis, scene, user, gone, jtis, devices, gateway, now, pws, ops, out>>

Me(h, t) == LiveClaims(h, t, "me")

ChangePassword(h, t) == LiveClaims(h, t, "password")

(* The old password is compared with the hash read here. *)
ReadHash(h) ==
  /\ RqAt(h, "hash") /\ user.pw > 0 /\ pws' = pws + 1
  /\ RqTo(h, [pc |-> "set", tok |-> rq[h].tok, new |-> pws + 1])
  /\ UNCHANGED <<royal, jtis, devices, gateway, now, ops, faults, history>>

SetPassword(h) ==
  /\ RqAt(h, "set")
  /\ SetPasswordAndBumpEpoch(h)
  /\ RqTo(h, [pc |-> "set epoch", tok |-> rq[h].tok, epoch |-> user'.epoch])
  /\ UNCHANGED <<redis, scene, cache, gone, jtis, devices, gateway, limits, history>>

CacheEpoch(h) ==
  /\ RqAt(h, "set epoch")
  /\ \/ /\ SetEpoch(rq[h].epoch) /\ behind' = (behind \/ rq[h].epoch < user.epoch)
        /\ Step(h, "revoke") /\ UNCHANGED faults
     \/ Fault /\ behind' = TRUE /\ RqTo(h, NoRq) /\ UNCHANGED cache
  /\ UNCHANGED <<redis, scene, user, gone, jtis, devices, gateway, now, pws, ops, out>>

(* A failure to revoke the jti is only logged: the epoch covers it.  The   *)
(* kick that follows is in Sessions.                                       *)
RevokeCurrent(h) ==
  /\ RqAt(h, "revoke")
  /\ LET t == rq[h].tok IN
     \/ /\ Revoke(t.jti, t.exp) /\ out' = [out EXCEPT ![t.jti] = t.exp]
        /\ UNCHANGED faults
     \/ Fault /\ UNCHANGED <<gone, out>>
  /\ RqTo(h, NoRq)
  /\ UNCHANGED <<redis, scene, user, cache, jtis, devices, gateway, now, pws, ops, behind>>

-----------------------------------------------------------------------------
(* The gateway. *)

(* With Redis the gateway reads the cached epoch only; without, it asks    *)
(* royal, which reads both (and warms its memory, which no one reads       *)
(* without the durable epoch).  So with devices.                           *)
TokenEpoch == IF MemoryEpoch > user.epoch THEN MemoryEpoch ELSE user.epoch
GateEpoch == IF redis THEN RedisEpoch ELSE TokenEpoch
DeviceHot(d) == d \in hot
DeviceCheck(d) == DeviceHot(d) \/ d \in dir
DeviceOk(d) == d = NoDevice \/ (IF redis THEN DeviceHot(d) ELSE DeviceCheck(d))
Allowed(t) == ~IsRevoked(t.jti) /\ t.ver >= GateEpoch /\ DeviceOk(t.did)

Accept(t) ==
  /\ scene.gate /\ conn[t.jti].st = "none" /\ BearerClaims(t) /\ Allowed(t)
  /\ conn' = [conn EXCEPT ![t.jti] = [st |-> "open", tok |-> t, exp |-> t.exp, idle |-> t.exp]]
  /\ UNCHANGED <<royal, jtis, devices, tokens, rq, limits, history>>

(* heartbeat: the checks, and the connection lives on for a token's time   *)
(* ...  (A check that cannot be made keeps the connection without renewing *)
(* its token, up to a grace: Sessions.)                                    *)
Heartbeat(j) ==
  /\ conn[j].st = "open"
  /\ conn' = [conn EXCEPT ![j] =
        IF ~Allowed(@.tok) \/ now >= @.idle THEN NoConn
        ELSE [@ EXCEPT !.idle = now + TTL,
                       !.st = IF conn[j].exp - now < TTL \div 2 THEN "renew" ELSE "open"]]
  /\ UNCHANGED <<royal, jtis, devices, tokens, rq, limits, history>>

(* ... and, when less than half of its time is left, a new token with the  *)
(* same jti and version.                                                   *)
Renew(j) ==
  /\ conn[j].st = "renew"
  /\ conn' = [conn EXCEPT ![j].st = "open", ![j].exp = now + TTL]
  /\ tokens' = tokens \cup
       {[conn[j].tok EXCEPT !.exp = now + TTL,
                            !.late = @ \/ conn[j].tok.ver < user.epoch]}
  /\ UNCHANGED <<royal, jtis, devices, rq, limits, history>>

Disconnect(j) ==
  /\ conn[j].st # "none" /\ conn' = [conn EXCEPT ![j] = NoConn]
  /\ UNCHANGED <<royal, jtis, devices, tokens, rq, limits, history>>

TimePasses ==
  /\ now < scene.time /\ now' = now + 1
  /\ UNCHANGED <<royal, jtis, devices, gateway, rq, pws, ops, faults, history>>

-----------------------------------------------------------------------------
(* An account nobody has registered, or one with a token just issued.      *)
AccountsInit ==
  /\ redis \in BOOLEAN /\ scene \in Scenes
  /\ cache = [epoch |-> 0, exp |-> 0]
  /\ gone = [j \in Jtis |-> 0] /\ out = [j \in Jtis |-> 0]
  /\ \/ /\ scene.fresh
        /\ user = [exists |-> FALSE, pw |-> 0, epoch |-> 0] /\ tokens = {} /\ jtis = 0 /\ dir = {}
     \/ /\ ~scene.fresh
        /\ user = [exists |-> TRUE, pw |-> 1, epoch |-> 0] /\ jtis = 1
        /\ dir \in {{}, {1}}
        /\ tokens = {[jti |-> 1, ver |-> 0, exp |-> TTL, pw |-> 1, late |-> FALSE,
                      did |-> IF dir = {} THEN NoDevice ELSE 1]}
  /\ hot = dir
  /\ conn = [j \in Jtis |-> NoConn] /\ rq = [h \in Handlers |-> NoRq]
  /\ now = 0 /\ pws = user.pw /\ ops = 0 /\ faults = 0
  /\ behind = FALSE

Serve(h) ==
  \/ \E b \in {"none", "enroll"} : Register(h, b)
  \/ \E b \in {"none", "enroll", "known"} : Login(h, b)
  \/ Create(h) \/ Bind(h) \/ Issue(h)
  \/ \E t \in tokens : Logout(h, t) \/ Me(h, t) \/ ChangePassword(h, t)
  \/ AccountEpoch(h) \/ Warm(h) \/ ReadHash(h) \/ SetPassword(h) \/ CacheEpoch(h)
  \/ RevokeCurrent(h)

AccountsNext ==
  \/ \E h \in Handlers : Serve(h)
  \/ UserUpsert \/ TimePasses
  \/ \E t \in tokens : Accept(t)
  \/ \E j \in Jtis : Heartbeat(j) \/ Renew(j) \/ Disconnect(j)

AccountsSpec == AccountsInit /\ [][AccountsNext]_accountVars

-----------------------------------------------------------------------------
(* A changed password ends the tokens of the old one: royal refuses each,  *)
(* but for one made by a login that had compared the old password before   *)
(* the change and read the epoch after it.                                 *)
OldPasswordOut ==
  \A t \in tokens : (t.pw # user.pw /\ ~t.late) => t.ver < user.epoch

(* A logout lasts as long as the token it was given: no copy of the token  *)
(* that lives no longer than that one is accepted again.  (A copy renewed  *)
(* since lives longer, and a second logout with an older copy shortens the *)
(* entry.)                                                                 *)
LogoutLasts ==
  \A t \in tokens : (out[t.jti] >= t.exp /\ BearerClaims(t)) => IsRevoked(t.jti)

(* The gateway refuses what royal refuses for its epoch, even if it has    *)
(* only Redis to ask: once the change of a password is through, unless the *)
(* epoch could not be stored or an older one was stored after it.          *)
GateRemembers ==
  \A t \in tokens :
    (BearerClaims(t) /\ t.ver < user.epoch /\ ~t.late /\ ~behind
       /\ \A h \in Handlers : ~RqAt(h, "set epoch"))
      => t.ver < GateEpoch

(* The device a token names is enrolled, and the gateway knows it.         *)
DeviceKnown == \A t \in tokens : t.did # NoDevice => t.did \in dir \cap hot

(* A changed password ends the tokens of the old one, a logout ends every  *)
(* copy of its token, the gateway refuses a token of an epoch that has     *)
(* passed, and the device a token names is known (change_password, logout, *)
(* set_epoch, bind_device).                                                *)
TokensEnd == OldPasswordOut /\ LogoutLasts /\ GateRemembers /\ DeviceKnown
=============================================================================
