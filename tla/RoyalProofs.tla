---------------------------- MODULE RoyalProofs -----------------------------
(***************************************************************************)
(* What royal promises.  RoyalCalls, for any number of calls and callers,  *)
(* any clocks and any lifetime of a cached key: a signed call is executed  *)
(* at most once, and a request fails for its key only with cause.          *)
(* Accounts, for any number of handlers and tokens, any lifetime of a      *)
(* token and any faults: TokensEnd.                                        *)
(*                                                                         *)
(* TokensEnd is about what the stores say now; what makes it inductive is  *)
(* how they came to say it.  The entry of a jti lasts as long as the token *)
(* it was revoked with (EntryLasts); no epoch is ahead of the durable one  *)
(* (Epochs), and the cached one is only behind it while the request that   *)
(* bumped it is on its way, or where a history variable says so            *)
(* (CacheCurrent); a token made before the cached epoch ends before the    *)
(* cache forgets that epoch (Lifetimes), which a renewal keeps because it  *)
(* marks the copy late; and a device is hot and enrolled before a token    *)
(* names it (Enrolling).                                                   *)
(*                                                                         *)
(* Directory, for any accounts, groups, tasks, instances, attempts and     *)
(* faults: RelationsSound and LookupsSound.  They are inductive together   *)
(* with what is on its way: every request and every job asks for something *)
(* that was wanted, and an open transaction only holds what it may delete  *)
(* or insert (WantedInv); a job somebody waits for is the last attempt of  *)
(* its caller's call (LiveJobs), so an answer belongs to the question it   *)
(* is taken for (AskInv) and is as true as a cached one (AnswerInv); and   *)
(* whoever may win a compare-exchange saw a window that is over (GateInv). *)
(***************************************************************************)
EXTENDS RoyalCalls, Accounts, Directory, TLAPS

-----------------------------------------------------------------------------
(* Signed calls. *)

CallTypes ==
  /\ clock \in Nat
  /\ signed \in [Calls -> Int]
  /\ seen \in [Calls -> Int]
  /\ ran \in [Calls -> Nat]

(* A nonce was claimed at a time when the call's timestamp passed. *)
Claimed(c) ==
  seen[c] # None => /\ 0 <= seen[c] /\ seen[c] <= clock
                    /\ signed[c] # None
                    /\ Secs(seen[c]) - signed[c] <= MAX_SKEW_SECS
                    /\ signed[c] - Secs(seen[c]) <= MAX_SKEW_SECS

(* A call was executed when its nonce was claimed, and not again. *)
RanOnce(c) == ran[c] <= 1 /\ (seen[c] = None => ran[c] = 0)

HInv == CallTypes /\ \A c \in Calls : Claimed(c) /\ RanOnce(c)

(* As long as the timestamp passes, the nonce is kept: the skew on both    *)
(* sides and the second that rounding may take (HMAC_NONCE_TTL_SECS).      *)
LEMMA KeptWhilePassing ==
  ASSUME MAX_SKEW_SECS \in Nat, HInv, NEW c \in Calls, seen[c] # None, Verify(c)
  PROVE  Kept(c)
<1> DEFINE s == seen[c]
           g == signed[c]
<1>1. /\ clock \in Nat /\ s \in Nat /\ g \in Int /\ s <= clock
      /\ (s \div 2) - g <= MAX_SKEW_SECS /\ g - (s \div 2) <= MAX_SKEW_SECS
      /\ (clock \div 2) - g <= MAX_SKEW_SECS
  BY DEF HInv, CallTypes, Claimed, Verify, Secs, None
<1>2. (clock \div 2) - (s \div 2) <= 2 * MAX_SKEW_SECS
  BY <1>1
<1>3. (clock - s) \div 2 <= 2 * MAX_SKEW_SECS
  <2> HIDE DEF s, g
  <2> QED BY <1>1, <1>2
<1> QED BY <1>1, <1>3 DEF Kept, Secs, HMAC_NONCE_TTL_SECS, None

LEMMA SignedInit == ASSUME MAX_SKEW_SECS \in Nat, CallsInit PROVE HInv
  BY DEF CallsInit, HInv, CallTypes, Claimed, RanOnce, None

LEMMA SignedStep ==
  ASSUME MAX_SKEW_SECS \in Nat, Offsets \subseteq Int, HInv, [CallsNext]_callVars
  PROVE  HInv'
<1>1. ASSUME NEW c \in Calls, NEW off \in Offsets, Sign(c, off) PROVE HInv'
  <2>1. off \in Int /\ Secs(clock) + off \in Int
    BY DEF HInv, CallTypes, Secs
  <2>2. seen[c] = None
    BY <1>1 DEF HInv, Claimed, Sign
  <2> QED BY <1>1, <2>1, <2>2 DEF Sign, HInv, CallTypes, Claimed, RanOnce
<1>2. ASSUME NEW c \in Calls, signed[c] # None, Verify(c), ~Kept(c),
             seen' = [seen EXCEPT ![c] = clock], UNCHANGED <<clock, signed>>,
             ran' = ran \/ ran' = [ran EXCEPT ![c] = @ + 1]
      PROVE HInv'
  <2>1. seen[c] = None /\ ran[c] = 0
    BY <1>2, KeptWhilePassing DEF HInv, RanOnce
  <2>2. CallTypes'
    BY <1>2 DEF HInv, CallTypes
  <2>3. Claimed(c)' /\ RanOnce(c)'
    BY <1>2, <2>1 DEF HInv, CallTypes, Claimed, RanOnce, Verify, Secs, None
  <2>4. ASSUME NEW d \in Calls, d # c PROVE Claimed(d)' /\ RanOnce(d)'
    BY <1>2, <2>4 DEF HInv, CallTypes, Claimed, RanOnce
  <2> QED BY <2>2, <2>3, <2>4 DEF HInv
<1>3. CASE Tick
  BY <1>3 DEF Tick, HInv, CallTypes, Claimed, RanOnce, hmacVars, None
<1>4. CASE UNCHANGED <<clock, signed, seen, ran>>
  BY <1>4 DEF HInv, CallTypes, Claimed, RanOnce
<1> QED
  BY <1>1, <1>2, <1>3, <1>4
  DEF CallsNext, callVars, hmacVars, RequireHmac, ClaimFails, RotateKey, PostAuth, PasswordKey,
      StoreKey, Accepted, Mismatch, Again, GivesUp

(* A signed call is executed at most once, however often and late it       *)
(* arrives and whatever the clocks (require_hmac).                         *)
THEOREM CallSafety ==
  ASSUME MAX_SKEW_SECS \in Nat, Offsets \subseteq Int
  PROVE  CallsSpec => []ExecutedOnce
<1>1. CallsInit => HInv
  BY SignedInit
<1>2. HInv /\ [CallsNext]_callVars => HInv'
  BY SignedStep
<1>3. HInv => ExecutedOnce
  BY DEF HInv, RanOnce, ExecutedOnce
<1> QED BY <1>1, <1>2, <1>3, PTL DEF CallsSpec

-----------------------------------------------------------------------------
(* Sealed passwords. *)

(* The key a request sealed with is one that royal had since it looked:    *)
(* not older than the one it knew royal to have, unless it came from the   *)
(* cache that others filled.                                               *)
Since(x) ==
  /\ call[x].pc \in {"fetch", "store", "post"} => call[x].known \in Nat /\ call[x].known <= key
  /\ (call[x].pc = "store" \/ (call[x].pc = "post" /\ ~call[x].retry /\ ~call[x].refilled)) =>
       call[x].key \in Nat /\ call[x].known <= call[x].key /\ call[x].key <= key

(* A cache that was dropped and not filled again is empty. *)
Dropped(x) == (call[x].pc = "again" /\ ~call[x].refilled) => cached.key = 0

Pcs == {"idle", "fetch", "store", "post", "again"}
SInv ==
  /\ key \in Nat /\ spoiled = FALSE
  /\ call = [x \in Callers |-> call[x]]
  /\ \A x \in Callers : call[x].pc \in Pcs /\ Since(x) /\ Dropped(x)

(* One caller moves, royal and the cache stay as they are. *)
LEMMA OneMoves ==
  ASSUME SInv, NEW x \in Callers, NEW r, call' = [call EXCEPT ![x] = r],
         UNCHANGED <<key, spoiled>>, cached' = cached \/ cached' = NoKey,
         r.pc \in Pcs, Since(x)', Dropped(x)'
  PROVE  SInv'
<1>1. ASSUME NEW y \in Callers, y # x
      PROVE  call'[y].pc \in Pcs /\ Since(y)' /\ Dropped(y)'
  <2>1. call'[y] = call[y]
    BY <1>1 DEF SInv
  <2>2. call[y].pc \in Pcs /\ Since(y) /\ Dropped(y)
    BY DEF SInv
  <2>3. cached.key = 0 => cached'.key = 0
    BY DEF NoKey
  <2> QED BY <2>1, <2>2, <2>3 DEF Since, Dropped
<1>2. call'[x] = r /\ call' = [z \in Callers |-> call'[z]]
  BY DEF SInv
<1> QED BY <1>1, <1>2 DEF SInv

(* A request takes a key: from a fresh cache, or it will ask royal. *)
LEMMA TakesKey ==
  ASSUME SInv, NEW x \in Callers, NEW retry, NEW refilled,
         SealKey(x, retry, refilled), retry \/ refilled \/ cached.key = 0,
         UNCHANGED <<key, spoiled, cached>>
  PROVE  SInv'
<1> DEFINE r == [pc |-> IF Fresh THEN "post" ELSE "fetch", key |-> IF Fresh THEN cached.key ELSE 0,
                 retry |-> retry, known |-> key, refilled |-> refilled]
<1>1. call' = [call EXCEPT ![x] = r] /\ call'[x] = r
  BY DEF SealKey, Go, SInv
<1>2. /\ r.pc \in {"post", "fetch"} /\ r.known = key /\ r.retry = retry /\ r.refilled = refilled
      /\ r.pc = "post" => cached.key # 0
  BY DEF Fresh
<1> HIDE DEF r
<1>3. Since(x)' /\ Dropped(x)'
  BY <1>1, <1>2 DEF Since, Dropped, SInv
<1> QED BY <1>1, <1>2, <1>3, OneMoves DEF Pcs

LEMMA SealInit == ASSUME CallsInit PROVE SInv
  BY DEF CallsInit, SInv, Pcs, Since, Dropped, Idle

LEMMA SealStep == ASSUME SInv, [CallsNext]_callVars PROVE SInv'
<1>1. ASSUME NEW x \in Callers, PostAuth(x) PROVE SInv'
  BY <1>1, TakesKey DEF PostAuth
<1>2. ASSUME NEW x \in Callers, Again(x) PROVE SInv'
  BY <1>2, TakesKey DEF Again, SInv, Dropped, At
<1>3. ASSUME NEW x \in Callers, PasswordKey(x) PROVE SInv'
  <2> DEFINE r == [call[x] EXCEPT !.pc = "store", !.key = key]
  <2>1. call' = [call EXCEPT ![x] = r] /\ call'[x] = r /\ UNCHANGED <<key, spoiled, cached>>
    BY <1>3 DEF PasswordKey, Go, SInv
  <2>2. r.pc = "store" /\ r.key = key /\ r.known = call[x].known
    BY <1>3 DEF PasswordKey, At
  <2> HIDE DEF r
  <2>3. key \in Nat /\ call[x].known \in Nat /\ call[x].known <= key
    BY <1>3 DEF PasswordKey, At, SInv, Since
  <2>4. Since(x)' /\ Dropped(x)'
    BY <2>1, <2>2, <2>3 DEF Since, Dropped
  <2> QED BY <2>1, <2>2, <2>4, OneMoves DEF Pcs
<1>4. ASSUME NEW x \in Callers, StoreKey(x) PROVE SInv'
  <2>1. UNCHANGED <<key, spoiled>>
    BY <1>4 DEF StoreKey
  <2>2. ASSUME NEW y \in Callers PROVE call'[y].pc \in Pcs /\ Since(y)' /\ Dropped(y)'
    <3>1. CASE y = x
      <4> DEFINE r == [call[x] EXCEPT !.pc = "post"]
      <4>1. call'[y] = r /\ call[x].pc = "store"
        BY <1>4, <3>1 DEF StoreKey, At
      <4>2. r.pc = "post" /\ r.known = call[x].known /\ r.key = call[x].key
        OBVIOUS
      <4> HIDE DEF r
      <4> QED BY <2>1, <3>1, <4>1, <4>2 DEF SInv, Since, Dropped, Pcs
    <3>2. CASE y # x /\ At(y, "again")
      <4>1. call'[y] = [call[y] EXCEPT !.refilled = TRUE]
        BY <1>4, <3>2 DEF StoreKey
      <4>2. call'[y].pc = "again" /\ call'[y].refilled
        BY <3>2, <4>1 DEF At
      <4> QED BY <4>2 DEF Since, Dropped, Pcs
    <3>3. CASE y # x /\ ~At(y, "again")
      <4>1. call'[y] = call[y]
        BY <1>4, <3>3 DEF StoreKey
      <4> QED BY <2>1, <3>3, <4>1 DEF SInv, Since, Dropped, At
    <3> QED BY <3>1, <3>2, <3>3
  <2>3. call' = [z \in Callers |-> call'[z]]
    BY <1>4 DEF StoreKey
  <2> QED BY <2>1, <2>2, <2>3 DEF SInv
<1>5. ASSUME NEW x \in Callers, Accepted(x) PROVE SInv'
  <2>1. call' = [call EXCEPT ![x] = Idle] /\ call'[x] = Idle
    BY <1>5 DEF Accepted, Go, SInv
  <2>2. Since(x)' /\ Dropped(x)'
    BY <2>1 DEF Since, Dropped, Idle
  <2> QED BY <1>5, <2>1, <2>2, OneMoves DEF Accepted, Idle, Pcs
<1>6. ASSUME NEW x \in Callers, Mismatch(x) PROVE SInv'
  <2> DEFINE r == [pc |-> "again", refilled |-> FALSE]
  <2>1. call' = [call EXCEPT ![x] = r] /\ call'[x] = r /\ cached' = NoKey
    BY <1>6 DEF Mismatch, Go, SInv, InvalidateSealCache
  <2>2. Since(x)' /\ Dropped(x)'
    BY <2>1 DEF Since, Dropped, NoKey
  <2> QED BY <1>6, <2>1, <2>2, OneMoves DEF Mismatch, Pcs
<1>7. ASSUME NEW x \in Callers, GivesUp(x) PROVE SInv'
  <2>1. ~(call[x].known = key /\ ~call[x].refilled)
    BY <1>7 DEF GivesUp, At, Unseals, SInv, Since
  <2>2. spoiled' = spoiled
    BY <1>7, <2>1, Zenon DEF GivesUp, SInv
  <2>3. call' = [call EXCEPT ![x] = Idle] /\ call'[x] = Idle
    BY <1>7 DEF GivesUp, Go, SInv
  <2>4. Since(x)' /\ Dropped(x)'
    BY <2>3 DEF Since, Dropped, Idle
  <2> QED BY <1>7, <2>2, <2>3, <2>4, OneMoves DEF GivesUp, Idle, Pcs
<1>8. CASE RotateKey
  BY <1>8 DEF RotateKey, SInv, Since, Dropped
<1>9. CASE UNCHANGED sealVars
  BY <1>9 DEF sealVars, SInv, Since, Dropped
<1> QED
  BY <1>1, <1>2, <1>3, <1>4, <1>5, <1>6, <1>7, <1>8, <1>9
  DEF CallsNext, callVars, Tick, Sign, RequireHmac, ClaimFails

(* A request fails for its key only if royal changed the key after it had  *)
(* turned to it for the second time, or another request filled the cache   *)
(* it had dropped (post_auth, invalidate_seal_cache).                      *)
THEOREM KeySafety == CallsSpec => []KeyErrorExplained
<1>1. SInv => KeyErrorExplained
  BY DEF SInv, KeyErrorExplained
<1> QED BY SealInit, SealStep, <1>1, PTL DEF CallsSpec

-----------------------------------------------------------------------------
(* Accounts and tokens. *)

Token == [jti : Jtis, ver : Nat, exp : Nat, did : Nat, pw : Nat, late : BOOLEAN]

(* What a handler may be at: signing in, checking a token, changing the    *)
(* password.                                                               *)
SignIns == [pc : {"create", "bind", "enroll", "issue"}, pw : Nat,
            bind : {"none", "enroll", "known"}, did : Nat]
Checks == [pc : {"epoch"}, op : {"me", "password"}, tok : Token, cached : Nat]
Warmings == [pc : {"warm"}, op : {"me", "password"}, tok : Token, epoch : Nat, live : BOOLEAN]
Hashes == [pc : {"hash"}, tok : Token]
Settings == [pc : {"set"}, tok : Token, new : Nat]
Bumps == [pc : {"set epoch", "revoke"}, tok : Token, epoch : Nat]
Rqs == {NoRq} \cup SignIns \cup Checks \cup Warmings \cup Hashes \cup Settings \cup Bumps

Links == {NoConn} \cup [st : {"open", "renew"}, tok : Token, exp : Nat, idle : Nat]

AccountTypes ==
  /\ scene \in Scenes
  /\ user \in [exists : BOOLEAN, pw : Nat, epoch : Nat]
  /\ cache \in [epoch : Nat, exp : Nat]
  /\ gone \in [Jtis -> Nat] /\ out \in [Jtis -> Nat]
  /\ tokens \subseteq Token
  /\ jtis \in 0 .. MaxTokens /\ dir \subseteq 1 .. jtis
  /\ conn \in [Jtis -> Links]
  /\ rq \in [Handlers -> Rqs]
  /\ now \in Nat /\ pws \in Nat

(* Nothing was made for an account that does not exist. *)
SignedUp ==
  ~user.exists => /\ user.pw = 0 /\ user.epoch = 0 /\ tokens = {}
                  /\ \A h \in Handlers : rq[h].pc \in {"idle", "create"}

(* No epoch anywhere is ahead of the durable one. *)
Epochs ==
  /\ \A t \in tokens : t.ver <= user.epoch
  /\ cache.epoch <= user.epoch
  /\ \A h \in Handlers : rq[h].pc \in {"warm", "set epoch"} => rq[h].epoch <= user.epoch

(* A connection has a token royal or the gateway made. *)
LinkTokens == \A j \in Jtis : conn[j].st # "none" => conn[j].tok \in tokens

(* The entry of a jti lives as long as the token it was revoked with. *)
EntryLasts == \A j \in Jtis : out[j] <= gone[j]

(* A token made before the cached epoch ends before the cached epoch does. *)
Lifetimes ==
  \A t \in tokens :
    /\ t.exp <= now + TTL
    /\ t.ver < cache.epoch /\ ~t.late => t.exp <= cache.exp

(* The cached epoch is the durable one, or whoever bumped that is about to *)
(* store it.                                                               *)
CacheCurrent ==
  \/ behind \/ cache.epoch = user.epoch
  \/ \E h \in Handlers : RqAt(h, "set epoch") /\ rq[h].epoch = user.epoch

(* A device being enrolled is hot, of one request, and of no token yet.    *)
Enrolling ==
  /\ \A h \in Handlers :
       /\ rq[h].pc \in {"create", "bind"} => rq[h].did = NoDevice
       /\ RqAt(h, "enroll") => /\ rq[h].did \in 1 .. jtis /\ rq[h].did \in hot \ dir
                               /\ rq[h].bind = "enroll"
       /\ RqAt(h, "issue") => /\ rq[h].did # NoDevice => rq[h].did \in dir \cap hot
                              /\ rq[h].bind = "enroll" => rq[h].did # NoDevice
                              /\ rq[h].bind = "none" => rq[h].did = NoDevice
  /\ \A h, g \in Handlers :
       RqAt(h, "enroll") /\ RqAt(g, "enroll") /\ rq[h].did = rq[g].did => h = g

AccountInv ==
  /\ AccountTypes
  /\ SignedUp /\ Epochs /\ LinkTokens /\ EntryLasts /\ Lifetimes /\ CacheCurrent /\ Enrolling
  /\ OldPasswordOut /\ DeviceKnown

-----------------------------------------------------------------------------
(* What a handler's record is, by its stage. *)
LEMMA Stages ==
  ASSUME AccountTypes, NEW h \in Handlers
  PROVE  /\ rq[h].pc \in {"create", "bind", "enroll", "issue"} => rq[h] \in SignIns
         /\ rq[h].pc = "epoch" => rq[h] \in Checks
         /\ rq[h].pc = "warm" => rq[h] \in Warmings
         /\ rq[h].pc = "hash" => rq[h] \in Hashes
         /\ rq[h].pc = "set" => rq[h] \in Settings
         /\ rq[h].pc \in {"set epoch", "revoke"} => rq[h] \in Bumps
         /\ rq[h] \in Rqs
  <1>1. rq[h] \in Rqs BY DEF AccountTypes
  <1>2. rq[h] \in {NoRq} => rq[h].pc = "idle" BY DEF NoRq
  <1>3. rq[h] \in SignIns => rq[h].pc \in {"create", "bind", "enroll", "issue"} BY DEF SignIns
  <1>4. rq[h] \in Checks => rq[h].pc = "epoch" BY DEF Checks
  <1>5. rq[h] \in Warmings => rq[h].pc = "warm" BY DEF Warmings
  <1>6. rq[h] \in Hashes => rq[h].pc = "hash" BY DEF Hashes
  <1>7. rq[h] \in Settings => rq[h].pc = "set" BY DEF Settings
  <1>8. rq[h] \in Bumps => rq[h].pc \in {"set epoch", "revoke"} BY DEF Bumps
  <1> QED BY <1>1, <1>2, <1>3, <1>4, <1>5, <1>6, <1>7, <1>8 DEF Rqs

LEMMA RqKinds ==
  /\ SignIns \subseteq Rqs /\ Checks \subseteq Rqs /\ Warmings \subseteq Rqs
  /\ Hashes \subseteq Rqs /\ Settings \subseteq Rqs /\ Bumps \subseteq Rqs /\ NoRq \in Rqs
  BY DEF Rqs

(* A handler moves on and the others stay. *)
LEMMA RqStep ==
  ASSUME AccountTypes, NEW h \in Handlers, NEW r \in Rqs, rq' = [rq EXCEPT ![h] = r]
  PROVE  /\ rq' \in [Handlers -> Rqs] /\ rq'[h] = r
         /\ \A g \in Handlers \ {h} : rq'[g] = rq[g]
  BY DEF AccountTypes

LEMMA Numbers ==
  ASSUME AccountTypes
  PROVE  /\ user \in [exists : BOOLEAN, pw : Nat, epoch : Nat]
         /\ user.pw \in Nat /\ user.epoch \in Nat /\ user.exists \in BOOLEAN
         /\ cache.epoch \in Nat /\ cache.exp \in Nat
         /\ now \in Nat /\ pws \in Nat /\ jtis \in Nat /\ TTL \in Nat /\ now + TTL \in Nat
         /\ \A t \in tokens : /\ t \in Token /\ t.jti \in Jtis /\ t.ver \in Nat /\ t.exp \in Nat
                              /\ t.did \in Nat /\ t.pw \in Nat /\ t.late \in BOOLEAN
  <1>1. /\ user \in [exists : BOOLEAN, pw : Nat, epoch : Nat]
        /\ user.pw \in Nat /\ user.epoch \in Nat /\ user.exists \in BOOLEAN
        /\ cache.epoch \in Nat /\ cache.exp \in Nat
    BY DEF AccountTypes
  <1>2. now \in Nat /\ pws \in Nat /\ jtis \in Nat /\ TTL \in Nat /\ now + TTL \in Nat
    BY AccountsAssumption DEF AccountTypes
  <1>3. \A t \in tokens : /\ t \in Token /\ t.jti \in Jtis /\ t.ver \in Nat /\ t.exp \in Nat
                          /\ t.did \in Nat /\ t.pw \in Nat /\ t.late \in BOOLEAN
    BY DEF AccountTypes, Token
  <1> QED BY <1>1, <1>2, <1>3

(* A handler that is not about to store an epoch may end. *)
LEMMA HandlerStops ==
  ASSUME AccountInv, NEW h \in Handlers, rq[h].pc # "set epoch",
         rq' = [rq EXCEPT ![h] = NoRq],
         UNCHANGED <<royal, jtis, devices, gateway, now, pws, history>>
  PROVE  AccountInv'
  <1>1. AccountTypes BY DEF AccountInv
  <1>2. /\ rq' \in [Handlers -> Rqs] /\ rq'[h].pc = "idle"
        /\ \A g \in Handlers \ {h} : rq'[g] = rq[g]
      BY <1>1, RqStep, RqKinds DEF NoRq
  <1>3. AccountTypes'
      BY <1>1, <1>2 DEF AccountTypes, royal, devices, gateway, history
  <1>4. SignedUp' /\ Epochs'
      BY <1>2 DEF AccountInv, SignedUp, Epochs, royal, gateway
  <1>5. CacheCurrent' BY <1>2 DEF AccountInv, CacheCurrent, RqAt, royal, history
  <1>6. Enrolling' BY <1>2 DEF AccountInv, Enrolling, RqAt, devices
  <1>7. LinkTokens' /\ EntryLasts' /\ Lifetimes' /\ OldPasswordOut' /\ DeviceKnown'
      BY DEF AccountInv, LinkTokens, EntryLasts, Lifetimes, OldPasswordOut, DeviceKnown,
         royal, devices, gateway, history
  <1> QED BY <1>3, <1>4, <1>5, <1>6, <1>7 DEF AccountInv

(* A handler with a token goes on to another step with it. *)
LEMMA TokenHeld ==
  ASSUME AccountInv, NEW h \in Handlers, rq[h].pc \in {"epoch", "warm", "hash"},
         rq' \in [Handlers -> Rqs], \A g \in Handlers \ {h} : rq'[g] = rq[g],
         rq'[h].pc \in {"idle", "warm", "hash", "set"},
         rq'[h].pc = "warm" => rq'[h].epoch <= user.epoch,
         UNCHANGED <<royal, jtis, devices, gateway, now, history>>, pws' \in Nat
  PROVE  AccountInv'
  <1>1. AccountTypes'
      BY DEF AccountInv, AccountTypes, royal, devices, gateway, history
  <1>2. SignedUp' /\ Epochs' BY DEF AccountInv, SignedUp, Epochs, royal, gateway
  <1>3. CacheCurrent' BY DEF AccountInv, CacheCurrent, RqAt, royal, history
  <1>4. Enrolling' BY DEF AccountInv, Enrolling, RqAt, devices
  <1>5. LinkTokens' /\ EntryLasts' /\ Lifetimes' /\ OldPasswordOut' /\ DeviceKnown'
      BY DEF AccountInv, LinkTokens, EntryLasts, Lifetimes, OldPasswordOut, DeviceKnown,
         royal, devices, gateway, history
  <1> QED BY <1>1, <1>2, <1>3, <1>4, <1>5 DEF AccountInv

(* The entry of a jti lives at least as long as the token it is revoked with. *)
LEMMA RevokeLasts ==
  ASSUME AccountTypes, EntryLasts, NEW jti \in Jtis, NEW exp \in Nat,
         Revoke(jti, exp), out' = [out EXCEPT ![jti] = exp]
  PROVE  gone' \in [Jtis -> Nat] /\ out' \in [Jtis -> Nat] /\ EntryLasts'
  <1> DEFINE end == now + (IF exp > now + 1 THEN exp - now ELSE 1)
  <1>1. end \in Nat /\ end >= exp BY Numbers
  <1>2. gone' = [gone EXCEPT ![jti] = end] BY DEF Revoke
  <1> HIDE DEF end
  <1>3. gone' \in [Jtis -> Nat] /\ out' \in [Jtis -> Nat] BY <1>1, <1>2 DEF AccountTypes
  <1>4. EntryLasts' BY <1>1, <1>2 DEF AccountTypes, EntryLasts
  <1> QED BY <1>3, <1>4

LEMMA Squeeze ==
  \A a, b \in Nat : a <= b /\ ~(a < b) => a = b
  OBVIOUS

LEMMA Chain ==
  \A a, b, c \in Nat : a < b /\ b <= c => a < c
  OBVIOUS

(* An epoch is stored in the cache, or could not be stored: either way     *)
(* what the cache promises still holds.                                    *)
LEMMA EpochStored ==
  ASSUME AccountInv, NEW h \in Handlers, rq[h].pc \in {"warm", "set epoch"},
         rq[h].epoch \in Nat,
         rq' \in [Handlers -> Rqs], \A g \in Handlers \ {h} : rq'[g] = rq[g],
         rq'[h].pc \in {"idle", "hash", "revoke"},
         \/ SetEpoch(rq[h].epoch) /\ behind' = (behind \/ rq[h].epoch < user.epoch)
         \/ behind' = TRUE /\ UNCHANGED cache,
         UNCHANGED <<redis, scene, user, gone, jtis, devices, gateway, now, pws, out>>
  PROVE  AccountInv'
  <1>1. AccountTypes BY DEF AccountInv
  <1>2. /\ user.epoch \in Nat /\ cache.epoch \in Nat /\ cache.exp \in Nat /\ now + TTL \in Nat
        /\ rq[h].epoch <= user.epoch
      BY <1>1, Numbers DEF AccountInv, Epochs
  <1> DEFINE stored == [epoch |-> rq[h].epoch, exp |-> now + TTL]
  <1>3. /\ stored \in [epoch : Nat, exp : Nat]
        /\ stored.epoch = rq[h].epoch /\ stored.exp = now + TTL
      BY <1>2
  <1>4. \/ cache' = stored /\ behind' = (behind \/ rq[h].epoch < user.epoch)
        \/ cache' = cache /\ behind' = TRUE
      BY Zenon DEF SetEpoch
  <1> HIDE DEF stored
  <1>5. \/ /\ cache'.epoch = rq[h].epoch /\ cache'.exp = now + TTL
           /\ behind' = (behind \/ rq[h].epoch < user.epoch)
        \/ cache' = cache /\ behind' = TRUE
      BY <1>3, <1>4, Zenon
  <1>6. AccountTypes'
    <2>1. cache' \in [epoch : Nat, exp : Nat]
      <3>1. cache \in [epoch : Nat, exp : Nat] BY <1>1 DEF AccountTypes
      <3>2. cache' = stored \/ cache' = cache BY <1>4, Zenon
      <3> QED BY <1>3, <3>1, <3>2
    <2> QED BY <1>1, <2>1 DEF AccountTypes, devices, gateway
  <1>7. SignedUp' BY DEF AccountInv, SignedUp, gateway
  <1>8. Epochs' BY <1>2, <1>5 DEF AccountInv, Epochs, gateway
  <1>9. Lifetimes'
    <2>1. CASE cache' = cache BY <2>1 DEF AccountInv, Lifetimes, gateway
    <2>2. CASE cache'.exp = now + TTL BY <2>2 DEF AccountInv, Lifetimes, gateway
    <2> QED BY <1>5, <2>1, <2>2
  <1>10. CacheCurrent'
    <2>1. CASE behind' BY <2>1 DEF CacheCurrent
    <2>2. CASE ~behind'
      <3>1. cache'.epoch = rq[h].epoch /\ ~(rq[h].epoch < user.epoch) BY <1>5, <2>2
      <3>2. user' = user OBVIOUS
      <3>3. rq[h].epoch = user.epoch BY <1>2, <3>1, Squeeze
      <3>4. cache'.epoch = user'.epoch BY <3>1, <3>2, <3>3
      <3> QED BY <3>4 DEF CacheCurrent
    <2> QED BY <2>1, <2>2
  <1>11. Enrolling' BY DEF AccountInv, Enrolling, RqAt, devices
  <1>12. LinkTokens' /\ EntryLasts' /\ OldPasswordOut' /\ DeviceKnown'
      BY DEF AccountInv, LinkTokens, EntryLasts, OldPasswordOut, DeviceKnown, devices,
         gateway
  <1> QED BY <1>6, <1>7, <1>8, <1>9, <1>10, <1>11, <1>12 DEF AccountInv

(* A connection opens with a token, keeps it, or closes. *)
LEMMA LinkMoves ==
  ASSUME AccountInv, NEW j \in Jtis, NEW r \in Links, r.st = "none" \/ r.tok \in tokens,
         conn' = [conn EXCEPT ![j] = r],
         UNCHANGED <<royal, jtis, devices, tokens, rq, limits, history>>
  PROVE  AccountInv'
  <1>1. AccountTypes'
      BY DEF AccountInv, AccountTypes, royal, devices, limits, history
  <1>2. LinkTokens' BY DEF AccountInv, AccountTypes, LinkTokens
  <1>3. /\ SignedUp' /\ Epochs' /\ EntryLasts' /\ Lifetimes' /\ CacheCurrent' /\ Enrolling'
        /\ OldPasswordOut' /\ DeviceKnown'
      BY DEF AccountInv, SignedUp, Epochs, EntryLasts, Lifetimes, CacheCurrent,
         Enrolling, RqAt, OldPasswordOut, DeviceKnown, royal, devices, limits, history
  <1> QED BY <1>1, <1>2, <1>3 DEF AccountInv

-----------------------------------------------------------------------------
(* Signing in.                                                             *)

LEMMA UserUpsertKeeps ==
  ASSUME AccountInv, UserUpsert
  PROVE  AccountInv'
  <1>1. AccountTypes BY DEF AccountInv
  <1>2. AccountTypes'
    <2>1. user' \in [exists : BOOLEAN, pw : Nat, epoch : Nat]
        BY <1>1, Numbers, AccountsAssumption DEF UserUpsert, AccountTypes, royal,
           devices, gateway, limits, history
    <2> QED
        BY <1>1, <2>1 DEF UserUpsert, AccountTypes, Fault, royal, devices, gateway,
           limits, history
  <1>3. SignedUp'
      BY <1>1, Numbers DEF AccountInv, SignedUp, UserUpsert, royal, devices, gateway,
         limits, history
  <1>4. Epochs'
      BY <1>1, Numbers DEF AccountInv, Epochs, SignedUp, UserUpsert, royal, devices,
         gateway, limits, history
  <1>5. CacheCurrent'
      BY <1>1, Numbers DEF AccountInv, CacheCurrent, Epochs, SignedUp, UserUpsert, RqAt,
         royal, devices, gateway, limits, history
  <1>6. OldPasswordOut'
      BY <1>1, Numbers DEF AccountInv, OldPasswordOut, Epochs, SignedUp, UserUpsert,
         royal, devices, gateway, limits, history
  <1>7. LinkTokens' /\ EntryLasts' /\ Lifetimes' /\ Enrolling' /\ DeviceKnown'
      BY DEF AccountInv, LinkTokens, EntryLasts, Lifetimes, Enrolling, DeviceKnown,
         RqAt, UserUpsert, royal, devices, gateway, limits, history
  <1> QED BY <1>2, <1>3, <1>4, <1>5, <1>6, <1>7 DEF AccountInv

LEMMA RegisterKeeps ==
  ASSUME AccountInv, NEW h \in Handlers, NEW bind \in {"none", "enroll"}, Register(h, bind)
  PROVE  AccountInv'
  <1>1. AccountTypes /\ rq[h] \in Rqs
      BY Stages DEF AccountInv, Register, RqAt, Request, AccountTypes
  <1>2. rq'[h] \in SignIns
      BY <1>1, AccountsAssumption, Numbers DEF Register, RqTo, Request, AccountTypes,
         Rqs, SignIns, NoDevice
  <1>3. /\ rq' \in [Handlers -> Rqs]
         /\ \A g \in Handlers \ {h} : rq'[g] = rq[g]
      BY <1>1, <1>2, RqStep, RqKinds DEF Register, RqTo, Step
  <1>4. rq[h].pc = "idle" /\ rq'[h].pc = "create" /\ rq'[h].did = NoDevice
      BY <1>1, Numbers DEF Register, RqAt, RqTo, Request, Rqs, AccountTypes
  <1>5. AccountTypes'
    <2>1. pws' \in Nat
        BY <1>1, <1>2, <1>3, <1>4, Numbers, AccountsAssumption DEF Register, Request,
           AccountTypes, Rqs, royal, devices, gateway, limits, history
    <2> QED
        BY <1>1, <1>2, <1>3, <1>4, <2>1 DEF Register, AccountTypes, Fault, royal,
           devices, gateway, limits, history
  <1>6. SignedUp'
      BY <1>1, <1>2, <1>3, <1>4, Numbers DEF AccountInv, SignedUp, Register, Request,
         Rqs, royal, devices, gateway, limits, history
  <1>7. Epochs'
      BY <1>1, <1>2, <1>3, <1>4, Numbers DEF AccountInv, Epochs, SignedUp, Register,
         Request, Rqs, royal, devices, gateway, limits, history
  <1>8. CacheCurrent'
      BY <1>1, <1>2, <1>3, <1>4, Numbers DEF AccountInv, CacheCurrent, Epochs, SignedUp,
         Register, RqAt, Request, Rqs, royal, devices, gateway, limits, history
  <1>9. Enrolling'
      BY <1>1, <1>2, <1>3, <1>4, Numbers DEF AccountInv, Enrolling, Register, RqAt,
         Request, Rqs, royal, devices, gateway, limits, history, NoDevice
  <1>10. LinkTokens' /\ EntryLasts' /\ Lifetimes' /\ OldPasswordOut' /\ DeviceKnown'
      BY DEF AccountInv, LinkTokens, EntryLasts, Lifetimes, OldPasswordOut, DeviceKnown,
         Register, royal, devices, gateway, limits, history
  <1> QED BY <1>5, <1>6, <1>7, <1>8, <1>9, <1>10 DEF AccountInv

LEMMA CreateKeeps ==
  ASSUME AccountInv, NEW h \in Handlers, Create(h)
  PROVE  AccountInv'
  <1>1. AccountTypes /\ rq[h] \in SignIns /\ rq[h].pc = "create"
      BY Stages DEF AccountInv, Create, RqAt
  <1>2. CASE user.exists
      BY <1>1, <1>2, HandlerStops DEF Create, RqTo, royal, devices, gateway, limits,
         history
  <1>3. CASE ~user.exists
    <2> DEFINE r == [rq[h] EXCEPT !.pc = "bind"]
    <2>1. r \in SignIns /\ r.pc = "bind" /\ r.did = rq[h].did /\ rq[h].pw \in Nat
        BY <1>1 DEF SignIns
    <2>2. rq' = [rq EXCEPT ![h] = r] BY <1>3 DEF Create, RqTo, Step
    <2> HIDE DEF r
    <2>3. /\ rq' \in [Handlers -> Rqs] /\ rq'[h] = r
          /\ \A g \in Handlers \ {h} : rq'[g] = rq[g]
        BY <1>1, <2>1, <2>2, RqStep, RqKinds
    <2>4. user' = [exists |-> TRUE, pw |-> rq[h].pw, epoch |-> 0] BY <1>3 DEF Create
    <2>5. user' \in [exists : BOOLEAN, pw : Nat, epoch : Nat] /\ user'.exists /\ user'.epoch = 0
        BY <2>1, <2>4
    <2>6. AccountTypes'
        BY <1>1, <2>3, <2>5 DEF Create, AccountTypes, gateway, limits, history, devices
    <2>7. tokens' = {} /\ cache' = cache /\ cache.epoch = 0
      <3>1. cache.epoch \in Nat BY <1>1, Numbers
      <3>2. user.epoch = 0 /\ tokens = {} BY <1>3 DEF AccountInv, SignedUp
      <3>3. cache.epoch <= 0 BY <3>2 DEF AccountInv, Epochs
      <3> QED BY <3>1, <3>2, <3>3 DEF Create, gateway
    <2>8. \A g \in Handlers : rq'[g].pc \notin {"warm", "set epoch"}
        BY <1>3, <2>1, <2>3 DEF AccountInv, SignedUp
    <2>9. SignedUp' /\ Epochs' /\ CacheCurrent'
      <3>1. cache'.epoch = 0 /\ user'.epoch = 0 BY <2>5, <2>7
      <3>2. SignedUp' BY <2>5 DEF SignedUp
      <3>3. cache'.epoch <= user'.epoch BY <3>1
      <3>4. Epochs' BY <2>7, <2>8, <3>3 DEF Epochs
      <3>5. CacheCurrent' BY <3>1, Zenon DEF CacheCurrent
      <3> QED BY <3>2, <3>4, <3>5
    <2>10. LinkTokens' /\ EntryLasts' /\ Lifetimes' /\ OldPasswordOut' /\ DeviceKnown'
        BY <2>7 DEF AccountInv, LinkTokens, EntryLasts, Lifetimes, OldPasswordOut,
           DeviceKnown, Create, gateway, history
    <2>11. Enrolling'
        BY <1>1, <2>1, <2>3 DEF AccountInv, Enrolling, RqAt, Create, devices
    <2> QED BY <2>6, <2>9, <2>10, <2>11 DEF AccountInv
  <1> QED BY <1>2, <1>3

LEMMA LoginKeeps ==
  ASSUME AccountInv, NEW h \in Handlers, NEW bind \in {"none", "enroll", "known"}, Login(h, bind)
  PROVE  AccountInv'
  <1>1. AccountTypes /\ rq[h] \in Rqs
      BY Stages DEF AccountInv, Login, RqAt, Request, AccountTypes
  <1>2. rq'[h] \in SignIns
      BY <1>1, AccountsAssumption, Numbers DEF Login, RqTo, Request, AccountTypes, Rqs,
         SignIns, NoDevice
  <1>3. /\ rq' \in [Handlers -> Rqs]
         /\ \A g \in Handlers \ {h} : rq'[g] = rq[g]
      BY <1>1, <1>2, RqStep, RqKinds DEF Login, RqTo, Step
  <1>4. rq[h].pc = "idle" /\ rq'[h].pc = "bind" /\ rq'[h].did = NoDevice /\ user.pw > 0
      BY <1>1, Numbers DEF Login, RqAt, RqTo, Request, Rqs, AccountTypes
  <1>5. AccountTypes'
    <2> QED
        BY <1>1, <1>2, <1>3, <1>4 DEF Login, AccountTypes, Fault, royal, devices,
           gateway, limits, history
  <1>6. SignedUp'
      BY <1>1, <1>2, <1>3, <1>4, Numbers DEF AccountInv, SignedUp, Login, Request, Rqs,
         royal, devices, gateway, limits, history
  <1>7. Epochs'
      BY <1>1, <1>2, <1>3, <1>4, Numbers DEF AccountInv, Epochs, SignedUp, Login,
         Request, Rqs, royal, devices, gateway, limits, history
  <1>8. CacheCurrent'
      BY <1>1, <1>2, <1>3, <1>4, Numbers DEF AccountInv, CacheCurrent, Epochs, SignedUp,
         Login, RqAt, Request, Rqs, royal, devices, gateway, limits, history
  <1>9. Enrolling'
      BY <1>1, <1>2, <1>3, <1>4, Numbers DEF AccountInv, Enrolling, Login, RqAt,
         Request, Rqs, royal, devices, gateway, limits, history, NoDevice
  <1>10. LinkTokens' /\ EntryLasts' /\ Lifetimes' /\ OldPasswordOut' /\ DeviceKnown'
      BY DEF AccountInv, LinkTokens, EntryLasts, Lifetimes, OldPasswordOut, DeviceKnown,
         Login, royal, devices, gateway, limits, history
  <1> QED BY <1>5, <1>6, <1>7, <1>8, <1>9, <1>10 DEF AccountInv

LEMMA BindKnownKeeps ==
  ASSUME AccountInv, NEW h \in Handlers, BindKnown(h)
  PROVE  AccountInv'
  <1>1. AccountTypes /\ rq[h] \in SignIns /\ rq[h].pc = "bind" /\ rq[h].bind = "known"
      BY Stages DEF AccountInv, BindKnown, RqAt
  <1>2. CASE dir = {} /\ RqTo(h, NoRq) /\ UNCHANGED hot
      BY <1>1, <1>2, HandlerStops DEF BindKnown, RqTo, royal, devices, gateway, limits,
         history
  <1>3. ASSUME NEW d \in dir, hot' = hot \cup {d},
               RqTo(h, [rq[h] EXCEPT !.pc = "issue", !.did = d])
        PROVE  AccountInv'
    <2> DEFINE r == [rq[h] EXCEPT !.pc = "issue", !.did = d]
    <2>1. d \in Nat /\ d # NoDevice BY <1>1 DEF AccountTypes, NoDevice
    <2>2. r \in SignIns /\ r.pc = "issue" /\ r.did = d /\ r.bind = "known"
        BY <1>1, <2>1 DEF SignIns
    <2>3. rq' = [rq EXCEPT ![h] = r] BY <1>3 DEF RqTo
    <2> HIDE DEF r
    <2>4. /\ rq' \in [Handlers -> Rqs] /\ rq'[h] = r
          /\ \A g \in Handlers \ {h} : rq'[g] = rq[g]
        BY <1>1, <2>2, <2>3, RqStep, RqKinds
    <2>5. AccountTypes'
        BY <1>1, <2>4 DEF BindKnown, AccountTypes, royal, gateway, limits, history
    <2>6. SignedUp' /\ Epochs' /\ CacheCurrent'
        BY <1>1, <2>2, <2>4 DEF AccountInv, SignedUp, Epochs, CacheCurrent, RqAt,
           BindKnown, royal, gateway, history
    <2>7. Enrolling'
        BY <1>1, <1>3, <2>2, <2>4 DEF AccountInv, Enrolling, RqAt, BindKnown
    <2>8. LinkTokens' /\ EntryLasts' /\ Lifetimes' /\ OldPasswordOut' /\ DeviceKnown'
        BY <1>3 DEF AccountInv, LinkTokens, EntryLasts, Lifetimes, OldPasswordOut,
           DeviceKnown, BindKnown, royal, gateway, limits, history
    <2> QED BY <2>5, <2>6, <2>7, <2>8 DEF AccountInv
  <1> QED BY <1>2, <1>3 DEF BindKnown

LEMMA BindNoneKeeps ==
  ASSUME AccountInv, NEW h \in Handlers, BindNone(h)
  PROVE  AccountInv'
  <1>1. AccountTypes /\ rq[h] \in SignIns
      BY Stages DEF AccountInv, BindNone, RqAt, Request, AccountTypes
  <1>2. rq'[h] \in SignIns
      BY <1>1, AccountsAssumption, Numbers DEF BindNone, RqTo, Step, AccountTypes,
         SignIns
  <1>3. /\ rq' \in [Handlers -> Rqs]
         /\ \A g \in Handlers \ {h} : rq'[g] = rq[g]
      BY <1>1, <1>2, RqStep, RqKinds DEF BindNone, RqTo, Step
  <1>4. /\ rq[h].pc = "bind" /\ rq'[h].pc = "issue" /\ rq'[h].bind = "none"
         /\ rq'[h].did = rq[h].did
      BY <1>1, Numbers DEF BindNone, RqAt, RqTo, Step, SignIns, AccountTypes
  <1>5. AccountTypes'
    <2> QED
        BY <1>1, <1>2, <1>3, <1>4 DEF BindNone, AccountTypes, Fault, royal, devices,
           gateway, limits, history
  <1>6. SignedUp'
      BY <1>1, <1>2, <1>3, <1>4, Numbers DEF AccountInv, SignedUp, BindNone, Step,
         SignIns, royal, devices, gateway, limits, history
  <1>7. Epochs'
      BY <1>1, <1>2, <1>3, <1>4, Numbers DEF AccountInv, Epochs, SignedUp, BindNone,
         Step, SignIns, royal, devices, gateway, limits, history
  <1>8. CacheCurrent'
      BY <1>1, <1>2, <1>3, <1>4, Numbers DEF AccountInv, CacheCurrent, Epochs, SignedUp,
         BindNone, RqAt, Step, SignIns, royal, devices, gateway, limits, history
  <1>9. Enrolling'
      BY <1>1, <1>2, <1>3, <1>4, Numbers DEF AccountInv, Enrolling, BindNone, RqAt,
         Step, SignIns, royal, devices, gateway, limits, history, NoDevice
  <1>10. LinkTokens' /\ EntryLasts' /\ Lifetimes' /\ OldPasswordOut' /\ DeviceKnown'
      BY DEF AccountInv, LinkTokens, EntryLasts, Lifetimes, OldPasswordOut, DeviceKnown,
         BindNone, royal, devices, gateway, limits, history
  <1> QED BY <1>5, <1>6, <1>7, <1>8, <1>9, <1>10 DEF AccountInv

LEMMA BindHotKeeps ==
  ASSUME AccountInv, NEW h \in Handlers, BindHot(h)
  PROVE  AccountInv'
  <1>1. AccountTypes /\ rq[h] \in SignIns /\ rq[h].pc = "bind" /\ rq[h].bind = "enroll"
      BY Stages DEF AccountInv, BindHot, RqAt
  <1> DEFINE r == [rq[h] EXCEPT !.pc = "enroll", !.did = jtis + 1]
  <1>2. jtis \in Nat /\ jtis + 1 \in Nat /\ jtis + 1 \in 1 .. MaxTokens
    <2>1. jtis \in Nat /\ scene.tokens \in 0 .. MaxTokens /\ jtis < scene.tokens
        BY <1>1, Numbers, AccountsAssumption DEF AccountTypes, BindHot
    <2> QED BY <2>1, AccountsAssumption
  <1>3. r \in SignIns /\ r.pc = "enroll" /\ r.did = jtis + 1 /\ r.bind = "enroll"
      BY <1>1, <1>2 DEF SignIns
  <1>4. rq' = [rq EXCEPT ![h] = r] BY DEF BindHot, RqTo
  <1> HIDE DEF r
  <1>5. /\ rq' \in [Handlers -> Rqs] /\ rq'[h] = r
        /\ \A g \in Handlers \ {h} : rq'[g] = rq[g]
      BY <1>1, <1>3, <1>4, RqStep, RqKinds
  <1>6. jtis' = jtis + 1 /\ dir' = dir /\ dir \subseteq 1 .. jtis /\ hot' = hot \cup {jtis + 1}
      BY <1>1 DEF BindHot, AccountTypes
  <1>7. AccountTypes'
    <2>1. jtis' \in 0 .. MaxTokens /\ dir' \subseteq 1 .. jtis' BY <1>2, <1>6
    <2> QED BY <1>1, <1>5, <2>1
        DEF BindHot, AccountTypes, royal, gateway, limits, history
  <1>8. SignedUp' /\ Epochs' /\ CacheCurrent'
      BY <1>1, <1>3, <1>5 DEF AccountInv, SignedUp, Epochs, CacheCurrent, RqAt, BindHot,
         royal, gateway, history
  <1>9. Enrolling'
    <2>1. jtis + 1 \in 1 .. jtis' /\ jtis + 1 \notin dir /\ \A d \in 1 .. jtis : d \in 1 .. jtis'
        BY <1>2, <1>6
    <2>2. jtis + 1 \notin 1 .. jtis BY <1>2
    <2> QED BY <1>3, <1>5, <1>6, <2>1, <2>2 DEF AccountInv, Enrolling, RqAt
  <1>10. LinkTokens' /\ EntryLasts' /\ Lifetimes' /\ OldPasswordOut' /\ DeviceKnown'
      BY <1>6 DEF AccountInv, LinkTokens, EntryLasts, Lifetimes, OldPasswordOut,
         DeviceKnown, BindHot, royal, gateway, limits, history
  <1> QED BY <1>7, <1>8, <1>9, <1>10 DEF AccountInv

LEMMA EnrollKeeps ==
  ASSUME AccountInv, NEW h \in Handlers, Enroll(h)
  PROVE  AccountInv'
  <1>1. AccountTypes /\ rq[h] \in SignIns /\ rq[h].pc = "enroll"
      BY Stages DEF AccountInv, Enroll, RqAt
  <1>2. rq[h].did \in 1 .. jtis /\ rq[h].did \in hot \ dir /\ rq[h].bind = "enroll"
      BY <1>1 DEF AccountInv, Enrolling, RqAt
  <1> DEFINE r == [rq[h] EXCEPT !.pc = "issue"]
  <1>3. r \in SignIns /\ r.pc = "issue" /\ r.did = rq[h].did /\ r.bind = rq[h].bind
      BY <1>1 DEF SignIns
  <1>4. rq' = [rq EXCEPT ![h] = r] BY DEF Enroll, RqTo, Step
  <1> HIDE DEF r
  <1>5. /\ rq' \in [Handlers -> Rqs] /\ rq'[h] = r
        /\ \A g \in Handlers \ {h} : rq'[g] = rq[g]
      BY <1>1, <1>3, <1>4, RqStep, RqKinds
  <1>6. rq[h].did # NoDevice BY <1>2 DEF NoDevice
  <1>7. AccountTypes'
      BY <1>1, <1>2, <1>5 DEF Enroll, AccountTypes, royal, gateway, limits, history
  <1>8. SignedUp' /\ Epochs' /\ CacheCurrent'
      BY <1>1, <1>3, <1>5 DEF AccountInv, SignedUp, Epochs, CacheCurrent, RqAt, Enroll,
         royal, gateway, history
  <1>9. Enrolling'
      BY <1>1, <1>2, <1>3, <1>5, <1>6 DEF AccountInv, Enrolling, RqAt, Enroll
  <1>10. LinkTokens' /\ EntryLasts' /\ Lifetimes' /\ OldPasswordOut' /\ DeviceKnown'
      BY DEF AccountInv, LinkTokens, EntryLasts, Lifetimes, OldPasswordOut, DeviceKnown,
         Enroll, royal, gateway, limits, history
  <1> QED BY <1>7, <1>8, <1>9, <1>10 DEF AccountInv

LEMMA EnrollFailsKeeps ==
  ASSUME AccountInv, NEW h \in Handlers, EnrollFails(h)
  PROVE  AccountInv'
  <1>1. AccountTypes /\ rq[h] \in SignIns
      BY Stages DEF AccountInv, EnrollFails, RqAt, Request, AccountTypes
  <1>2. rq'[h] \in {NoRq}
      BY <1>1, AccountsAssumption, Numbers DEF EnrollFails, RqTo, NoRq, Fault,
         AccountTypes, SignIns
  <1>3. /\ rq' \in [Handlers -> Rqs]
         /\ \A g \in Handlers \ {h} : rq'[g] = rq[g]
      BY <1>1, <1>2, RqStep, RqKinds DEF EnrollFails, RqTo, Step
  <1>4. rq[h].pc = "enroll" /\ rq'[h].pc = "idle"
      BY <1>1, Numbers DEF EnrollFails, RqAt, RqTo, NoRq, Fault, SignIns, AccountTypes
  <1>5. AccountTypes'
    <2> QED
        BY <1>1, <1>2, <1>3, <1>4 DEF EnrollFails, AccountTypes, Fault, royal, devices,
           gateway, limits, history
  <1>6. SignedUp'
      BY <1>1, <1>2, <1>3, <1>4, Numbers DEF AccountInv, SignedUp, EnrollFails, NoRq,
         Fault, SignIns, royal, devices, gateway, limits, history
  <1>7. Epochs'
      BY <1>1, <1>2, <1>3, <1>4, Numbers DEF AccountInv, Epochs, SignedUp, EnrollFails,
         NoRq, Fault, SignIns, royal, devices, gateway, limits, history
  <1>8. CacheCurrent'
      BY <1>1, <1>2, <1>3, <1>4, Numbers DEF AccountInv, CacheCurrent, Epochs, SignedUp,
         EnrollFails, RqAt, NoRq, Fault, SignIns, royal, devices, gateway, limits, history
  <1>9. Enrolling'
      BY <1>1, <1>2, <1>3, <1>4, Numbers DEF AccountInv, Enrolling, EnrollFails, RqAt,
         NoRq, Fault, SignIns, royal, devices, gateway, limits, history, NoDevice
  <1>10. DeviceKnown'
      BY <1>1, <1>2, <1>3, <1>4, Numbers DEF AccountInv, DeviceKnown, Enrolling,
         EnrollFails, NoRq, Fault, SignIns, royal, devices, gateway, limits, history,
         NoDevice
  <1>11. LinkTokens' /\ EntryLasts' /\ Lifetimes' /\ OldPasswordOut'
      BY DEF AccountInv, LinkTokens, EntryLasts, Lifetimes, OldPasswordOut, EnrollFails,
         Fault, royal, devices, gateway, limits, history
  <1> QED BY <1>5, <1>6, <1>7, <1>8, <1>9, <1>10, <1>11 DEF AccountInv

LEMMA IssueKeeps ==
  ASSUME AccountInv, NEW h \in Handlers, Issue(h)
  PROVE  AccountInv'
  <1>1. AccountTypes /\ rq[h] \in SignIns /\ rq[h].pc = "issue"
      BY Stages DEF AccountInv, Issue, RqAt
  <1> DEFINE jti == IF rq[h].bind = "enroll" THEN rq[h].did ELSE jtis + 1
             new == [jti |-> jti, ver |-> user.epoch, exp |-> now + TTL, did |-> rq[h].did,
                     pw |-> rq[h].pw, late |-> rq[h].pw # user.pw]
  <1>2. /\ rq[h].did # NoDevice => rq[h].did \in dir \cap hot
        /\ rq[h].bind = "enroll" => rq[h].did # NoDevice
      BY <1>1 DEF AccountInv, Enrolling, RqAt
  <1>3. jtis \in 0 .. MaxTokens /\ dir \subseteq 1 .. jtis /\ scene.tokens \in 0 .. MaxTokens
      BY <1>1, AccountsAssumption DEF AccountTypes
  <1>4. rq[h].bind # "enroll" => jtis < scene.tokens
    <2>1. CASE rq[h].did = NoDevice BY <2>1 DEF Issue
    <2>2. CASE rq[h].bind = "known" BY <2>2 DEF Issue
    <2>3. rq[h].bind = "none" => rq[h].did = NoDevice
        BY <1>1 DEF AccountInv, Enrolling, RqAt
    <2> QED BY <1>1, <2>1, <2>2, <2>3 DEF SignIns
  <1>5. jti \in Jtis
    <2>1. CASE rq[h].bind = "enroll"
      <3>1. jti = rq[h].did BY <2>1
      <3>2. rq[h].did \in 1 .. jtis BY <1>2, <1>3, <2>1
      <3> QED BY <1>3, <3>1, <3>2, AccountsAssumption DEF Jtis
    <2>2. CASE rq[h].bind # "enroll" BY <1>3, <1>4, <2>2, AccountsAssumption DEF Jtis
    <2> QED BY <2>1, <2>2
  <1>6. new \in Token
    <2>1. (rq[h].pw # user.pw) \in BOOLEAN OBVIOUS
    <2>2. rq[h].pw \in Nat /\ rq[h].did \in Nat BY <1>1 DEF SignIns
    <2> HIDE DEF jti
    <2> QED BY <1>1, <1>5, <2>1, <2>2, Numbers DEF Token
  <1>7. tokens' = tokens \cup {new} BY DEF Issue
  <1>8. rq' = [rq EXCEPT ![h] = NoRq] BY DEF Issue, RqTo
  <1>9. /\ rq' \in [Handlers -> Rqs] /\ rq'[h].pc = "idle"
        /\ \A g \in Handlers \ {h} : rq'[g] = rq[g]
      BY <1>1, <1>8, RqStep, RqKinds DEF NoRq
  <1>10. /\ new.ver = user.epoch /\ new.exp = now + TTL /\ new.did = rq[h].did
         /\ new.pw = rq[h].pw /\ new.late = (rq[h].pw # user.pw)
      OBVIOUS
  <1>11. jtis' \in 0 .. MaxTokens /\ dir' \subseteq 1 .. jtis' /\ jtis' >= jtis
    <2>1. dir' = dir BY DEF Issue, devices
    <2>2. CASE rq[h].bind = "enroll" BY <1>3, <2>1, <2>2 DEF Issue
    <2>3. CASE rq[h].bind # "enroll"
      <3>1. jtis' = jtis + 1 BY <2>3 DEF Issue
      <3> QED BY <1>3, <1>4, <2>1, <2>3, <3>1, AccountsAssumption
    <2> QED BY <2>2, <2>3
  <1> HIDE DEF new, jti
  <1>12. AccountTypes'
      BY <1>1, <1>6, <1>7, <1>9, <1>11 DEF Issue, AccountTypes, royal, devices, limits,
         history
  <1>13. user.exists BY <1>1 DEF AccountInv, SignedUp
  <1>14. SignedUp' BY <1>13 DEF SignedUp, Issue, royal
  <1>15. Epochs'
    <2>1. user.epoch \in Nat /\ user.epoch <= user.epoch BY <1>1, Numbers
    <2> QED BY <1>7, <1>9, <1>10, <2>1 DEF AccountInv, Epochs, Issue, royal
  <1>16. CacheCurrent'
      BY <1>1, <1>9 DEF AccountInv, CacheCurrent, RqAt, Issue, royal, history
  <1>17. Lifetimes'
    <2>1. new.exp <= now + TTL /\ ~(new.ver < cache.epoch)
      <3>1. user.epoch \in Nat /\ cache.epoch \in Nat /\ now + TTL \in Nat BY <1>1, Numbers
      <3>2. cache.epoch <= user.epoch BY DEF AccountInv, Epochs
      <3> QED BY <1>10, <3>1, <3>2
    <2> QED BY <1>7, <2>1 DEF AccountInv, Lifetimes, Issue, royal, limits
  <1>18. OldPasswordOut'
      BY <1>7, <1>10 DEF AccountInv, OldPasswordOut, Issue, royal
  <1>19. DeviceKnown'
      BY <1>2, <1>7, <1>10 DEF AccountInv, DeviceKnown, Issue, devices
  <1>20. Enrolling'
    <2>1. \A d \in 1 .. jtis : d \in 1 .. jtis' BY <1>3, <1>11
    <2> QED BY <1>9, <2>1 DEF AccountInv, Enrolling, RqAt, Issue, devices
  <1>21. LinkTokens' /\ EntryLasts'
      BY <1>7 DEF AccountInv, LinkTokens, EntryLasts, Issue, royal, history
  <1> QED BY <1>12, <1>14, <1>15, <1>16, <1>17, <1>18, <1>19, <1>20, <1>21 DEF AccountInv

-----------------------------------------------------------------------------
(* Requests with a token.                                                  *)

LEMMA LogoutKeeps ==
  ASSUME AccountInv, NEW h \in Handlers, NEW t \in tokens, Logout(h, t)
  PROVE  AccountInv'
  <1>1. AccountTypes /\ t \in Token /\ t.jti \in Jtis /\ t.exp \in Nat /\ now \in Nat
      BY Numbers DEF AccountInv
  <1>2. /\ gone' \in [Jtis -> Nat] /\ out' \in [Jtis -> Nat] /\ EntryLasts'
      BY <1>1, RevokeLasts DEF AccountInv, Logout
  <1>3. AccountTypes'
      BY <1>1, <1>2 DEF Logout, AccountTypes, devices, gateway
  <1>4. /\ SignedUp' /\ Epochs' /\ LinkTokens' /\ Lifetimes' /\ CacheCurrent' /\ Enrolling'
        /\ OldPasswordOut' /\ DeviceKnown'
      BY DEF AccountInv, SignedUp, Epochs, LinkTokens, Lifetimes, CacheCurrent,
         Enrolling, RqAt, OldPasswordOut, DeviceKnown, Logout, devices, gateway
  <1> QED BY <1>2, <1>3, <1>4 DEF AccountInv

LEMMA LiveClaimsKeeps ==
  ASSUME AccountInv, NEW h \in Handlers, NEW t \in tokens, NEW op \in {"me", "password"},
         LiveClaims(h, t, op)
  PROVE  AccountInv'
  <1>1. AccountTypes /\ rq[h] \in Rqs
      BY Stages DEF AccountInv, LiveClaims, RqAt, Request, AccountTypes
  <1>2. rq'[h] \in Checks
      BY <1>1, AccountsAssumption, Numbers DEF LiveClaims, RqTo, Request, AccountTypes,
         Rqs, Checks, GetEpoch, RedisEpoch, MemoryEpoch, Token
  <1>3. /\ rq' \in [Handlers -> Rqs]
         /\ \A g \in Handlers \ {h} : rq'[g] = rq[g]
      BY <1>1, <1>2, RqStep, RqKinds DEF LiveClaims, RqTo, Step
  <1>4. rq[h].pc = "idle" /\ rq'[h].pc = "epoch"
      BY <1>1, Numbers DEF LiveClaims, RqAt, RqTo, Request, Rqs, AccountTypes
  <1>5. AccountTypes'
    <2> QED
        BY <1>1, <1>2, <1>3, <1>4 DEF LiveClaims, AccountTypes, Fault, royal, devices,
           gateway, limits, history
  <1>6. SignedUp'
      BY <1>1, <1>2, <1>3, <1>4, Numbers DEF AccountInv, SignedUp, LiveClaims, Request,
         Rqs, royal, devices, gateway, limits, history
  <1>7. Epochs'
      BY <1>1, <1>2, <1>3, <1>4, Numbers DEF AccountInv, Epochs, SignedUp, LiveClaims,
         Request, Rqs, royal, devices, gateway, limits, history
  <1>8. CacheCurrent'
      BY <1>1, <1>2, <1>3, <1>4, Numbers DEF AccountInv, CacheCurrent, Epochs, SignedUp,
         LiveClaims, RqAt, Request, Rqs, royal, devices, gateway, limits, history
  <1>9. Enrolling'
      BY <1>1, <1>2, <1>3, <1>4, Numbers DEF AccountInv, Enrolling, LiveClaims, RqAt,
         Request, Rqs, royal, devices, gateway, limits, history, NoDevice
  <1>10. LinkTokens' /\ EntryLasts' /\ Lifetimes' /\ OldPasswordOut' /\ DeviceKnown'
      BY DEF AccountInv, LinkTokens, EntryLasts, Lifetimes, OldPasswordOut, DeviceKnown,
         LiveClaims, royal, devices, gateway, limits, history
  <1> QED BY <1>5, <1>6, <1>7, <1>8, <1>9, <1>10 DEF AccountInv

LEMMA AccountEpochKeeps ==
  ASSUME AccountInv, NEW h \in Handlers, AccountEpoch(h)
  PROVE  AccountInv'
  <1>1. AccountTypes /\ rq[h] \in Checks /\ rq[h].pc = "epoch"
      BY Stages DEF AccountInv, AccountEpoch, RqAt
  <1>2. /\ rq[h].tok \in Token /\ rq[h].op \in {"me", "password"} /\ rq[h].cached \in Nat
        /\ user.epoch \in Nat
      BY <1>1, Numbers DEF Checks
  <1>3. CASE RqTo(h, NoRq)
      BY <1>1, <1>3, HandlerStops DEF AccountEpoch, RqTo, limits
  <1>4. CASE RqTo(h, [pc |-> "hash", tok |-> rq[h].tok])
    <2>1. [pc |-> "hash", tok |-> rq[h].tok] \in Hashes BY <1>2 DEF Hashes
    <2>2. /\ rq' \in [Handlers -> Rqs] /\ rq'[h].pc = "hash"
          /\ \A g \in Handlers \ {h} : rq'[g] = rq[g]
        BY <1>1, <1>4, <2>1, RqStep, RqKinds DEF RqTo
    <2>3. UNCHANGED <<royal, jtis, devices, gateway, now, history>> /\ pws' \in Nat
        BY <1>1, Numbers DEF AccountEpoch, limits
    <2> QED BY <1>1, <2>2, <2>3, TokenHeld
  <1>5. CASE RqTo(h, [pc |-> "warm", op |-> rq[h].op, tok |-> rq[h].tok,
                      epoch |-> user.epoch, live |-> Live(h, user.epoch)])
    <2> DEFINE r == [pc |-> "warm", op |-> rq[h].op, tok |-> rq[h].tok,
                     epoch |-> user.epoch, live |-> Live(h, user.epoch)]
    <2>1. Live(h, user.epoch) \in BOOLEAN BY DEF Live
    <2>2. r \in Warmings /\ r.pc = "warm" /\ r.epoch = user.epoch BY <1>2, <2>1 DEF Warmings
    <2>3. rq' = [rq EXCEPT ![h] = r] BY <1>5 DEF RqTo
    <2> HIDE DEF r
    <2>4. /\ rq' \in [Handlers -> Rqs] /\ rq'[h] = r
          /\ \A g \in Handlers \ {h} : rq'[g] = rq[g]
        BY <1>1, <2>2, <2>3, RqStep, RqKinds
    <2>5. UNCHANGED <<royal, jtis, devices, gateway, now, history>> /\ pws' \in Nat
        BY <1>1, Numbers DEF AccountEpoch, limits
    <2>6. rq'[h].pc = "warm" /\ rq'[h].epoch <= user.epoch BY <1>2, <2>2, <2>4
    <2> QED BY <1>1, <2>4, <2>5, <2>6, TokenHeld
  <1> QED BY <1>3, <1>4, <1>5 DEF AccountEpoch

LEMMA WarmKeeps ==
  ASSUME AccountInv, NEW h \in Handlers, Warm(h)
  PROVE  AccountInv'
  <1>1. AccountTypes /\ rq[h] \in Warmings /\ rq[h].pc = "warm"
      BY Stages DEF AccountInv, Warm, RqAt
  <1>2. rq[h].tok \in Token /\ rq[h].epoch \in Nat BY <1>1 DEF Warmings
  <1>3. /\ rq' \in [Handlers -> Rqs] /\ rq'[h].pc \in {"idle", "hash"}
        /\ \A g \in Handlers \ {h} : rq'[g] = rq[g]
    <2>1. [pc |-> "hash", tok |-> rq[h].tok] \in Hashes BY <1>2 DEF Hashes
    <2>2. CASE RqTo(h, [pc |-> "hash", tok |-> rq[h].tok])
        BY <1>1, <2>1, <2>2, RqStep, RqKinds DEF RqTo
    <2>3. CASE RqTo(h, NoRq) BY <1>1, <2>3, RqStep, RqKinds DEF RqTo, NoRq
    <2> QED BY <2>2, <2>3 DEF Warm
  <1>4. \/ SetEpoch(rq[h].epoch) /\ behind' = (behind \/ rq[h].epoch < user.epoch)
        \/ behind' = TRUE /\ UNCHANGED cache
      BY DEF Warm
  <1>5. UNCHANGED <<redis, scene, user, gone, jtis, devices, gateway, now, pws, out>>
      BY DEF Warm
  <1> QED BY <1>1, <1>2, <1>3, <1>4, <1>5, EpochStored

LEMMA ReadHashKeeps ==
  ASSUME AccountInv, NEW h \in Handlers, ReadHash(h)
  PROVE  AccountInv'
  <1>1. AccountTypes /\ rq[h] \in Hashes
      BY Stages DEF AccountInv, ReadHash, RqAt, Request, AccountTypes
  <1>2. rq'[h] \in Settings
      BY <1>1, AccountsAssumption, Numbers DEF ReadHash, RqTo, AccountTypes, Hashes,
         Settings
  <1>3. /\ rq' \in [Handlers -> Rqs]
         /\ \A g \in Handlers \ {h} : rq'[g] = rq[g]
      BY <1>1, <1>2, RqStep, RqKinds DEF ReadHash, RqTo, Step
  <1>4. rq[h].pc = "hash" /\ rq'[h].pc = "set"
      BY <1>1, Numbers DEF ReadHash, RqAt, RqTo, Hashes, AccountTypes
  <1>5. AccountTypes'
    <2>1. pws' \in Nat
        BY <1>1, <1>2, <1>3, <1>4, Numbers, AccountsAssumption DEF ReadHash,
           AccountTypes, Hashes, royal, devices, gateway, limits, history
    <2> QED
        BY <1>1, <1>2, <1>3, <1>4, <2>1 DEF ReadHash, AccountTypes, Fault, royal,
           devices, gateway, limits, history
  <1>6. SignedUp'
      BY <1>1, <1>2, <1>3, <1>4, Numbers DEF AccountInv, SignedUp, ReadHash, Hashes,
         royal, devices, gateway, limits, history
  <1>7. Epochs'
      BY <1>1, <1>2, <1>3, <1>4, Numbers DEF AccountInv, Epochs, SignedUp, ReadHash,
         Hashes, royal, devices, gateway, limits, history
  <1>8. CacheCurrent'
      BY <1>1, <1>2, <1>3, <1>4, Numbers DEF AccountInv, CacheCurrent, Epochs, SignedUp,
         ReadHash, RqAt, Hashes, royal, devices, gateway, limits, history
  <1>9. Enrolling'
      BY <1>1, <1>2, <1>3, <1>4, Numbers DEF AccountInv, Enrolling, ReadHash, RqAt,
         Hashes, royal, devices, gateway, limits, history, NoDevice
  <1>10. LinkTokens' /\ EntryLasts' /\ Lifetimes' /\ OldPasswordOut' /\ DeviceKnown'
      BY DEF AccountInv, LinkTokens, EntryLasts, Lifetimes, OldPasswordOut, DeviceKnown,
         ReadHash, royal, devices, gateway, limits, history
  <1> QED BY <1>5, <1>6, <1>7, <1>8, <1>9, <1>10 DEF AccountInv

LEMMA SetPasswordKeeps ==
  ASSUME AccountInv, NEW h \in Handlers, SetPassword(h)
  PROVE  AccountInv'
  <1>1. AccountTypes /\ rq[h] \in Settings /\ rq[h].pc = "set"
      BY Stages DEF AccountInv, SetPassword, RqAt
  <1>2. rq[h].tok \in Token /\ rq[h].new \in Nat /\ user.epoch \in Nat
      BY <1>1, Numbers DEF Settings
  <1>3. /\ user' \in [exists : BOOLEAN, pw : Nat, epoch : Nat]
        /\ user'.epoch = user.epoch + 1 /\ user'.exists = user.exists
    <2>1. user \in [exists : BOOLEAN, pw : Nat, epoch : Nat] BY <1>1, Numbers
    <2>2. user' = [user EXCEPT !.pw = rq[h].new, !.epoch = user.epoch + 1]
        BY DEF SetPassword, SetPasswordAndBumpEpoch
    <2>3. user.epoch + 1 \in Nat BY <1>2
    <2> QED BY <1>2, <2>1, <2>2, <2>3
  <1> DEFINE r == [pc |-> "set epoch", tok |-> rq[h].tok, epoch |-> user'.epoch]
  <1>4. r \in Bumps /\ r.pc = "set epoch" /\ r.epoch = user'.epoch BY <1>2, <1>3 DEF Bumps
  <1>5. rq' = [rq EXCEPT ![h] = r] BY DEF SetPassword, RqTo
  <1> HIDE DEF r
  <1>6. /\ rq' \in [Handlers -> Rqs] /\ rq'[h] = r
        /\ \A g \in Handlers \ {h} : rq'[g] = rq[g]
      BY <1>1, <1>4, <1>5, RqStep, RqKinds
  <1>7. AccountTypes'
      BY <1>1, <1>3, <1>6 DEF SetPassword, AccountTypes, devices, gateway, limits,
         history
  <1>8. user.exists BY <1>1 DEF AccountInv, SignedUp
  <1>9. SignedUp' BY <1>3, <1>8 DEF SignedUp
  <1>10. \A n \in Nat : n <= user.epoch => n < user'.epoch /\ n <= user'.epoch
      BY <1>2, <1>3
  <1>11. \A t \in tokens : t.ver \in Nat /\ t.ver <= user.epoch /\ t.ver < user'.epoch
      BY <1>1, <1>10, Numbers DEF AccountInv, Epochs
  <1>12. Epochs'
    <2>1. cache.epoch \in Nat /\ user'.epoch \in Nat BY <1>1, <1>2, <1>3, Numbers
    <2>2. cache'.epoch <= user'.epoch
        BY <1>10, <2>1 DEF AccountInv, Epochs, SetPassword
    <2>3. \A t \in tokens' : t.ver <= user'.epoch BY <1>10, <1>11 DEF SetPassword, gateway
    <2>4. ASSUME NEW g \in Handlers, rq'[g].pc \in {"warm", "set epoch"}
          PROVE  rq'[g].epoch <= user'.epoch
      <3>1. CASE g = h
        <4>1. rq'[g].epoch = user'.epoch BY <1>4, <1>6, <3>1
        <4>2. user'.epoch <= user'.epoch BY <2>1
        <4> QED BY <4>1, <4>2
      <3>2. CASE g # h
        <4>1. rq[g].epoch <= user.epoch /\ rq'[g] = rq[g]
            BY <1>6, <2>4, <3>2 DEF AccountInv, Epochs
        <4>2. rq[g].epoch \in Nat
            BY <1>1, <2>4, <4>1, Stages DEF Warmings, Bumps
        <4> QED BY <1>10, <4>1, <4>2
      <3> QED BY <3>1, <3>2
    <2> QED BY <2>2, <2>3, <2>4 DEF Epochs
  <1>13. CacheCurrent' BY <1>4, <1>6 DEF CacheCurrent, RqAt
  <1>14. OldPasswordOut' BY <1>11 DEF OldPasswordOut, SetPassword, gateway
  <1>15. Enrolling' BY <1>1, <1>4, <1>6 DEF AccountInv, Enrolling, RqAt, SetPassword, devices
  <1>16. LinkTokens' /\ EntryLasts' /\ Lifetimes' /\ DeviceKnown'
      BY DEF AccountInv, LinkTokens, EntryLasts, Lifetimes, DeviceKnown, SetPassword,
         devices, gateway, limits, history
  <1> QED BY <1>7, <1>9, <1>12, <1>13, <1>14, <1>15, <1>16 DEF AccountInv

LEMMA CacheEpochKeeps ==
  ASSUME AccountInv, NEW h \in Handlers, CacheEpoch(h)
  PROVE  AccountInv'
  <1>1. AccountTypes /\ rq[h] \in Bumps /\ rq[h].pc = "set epoch"
      BY Stages DEF AccountInv, CacheEpoch, RqAt
  <1>2. rq[h].epoch \in Nat BY <1>1 DEF Bumps
  <1>3. /\ rq' \in [Handlers -> Rqs] /\ rq'[h].pc \in {"idle", "revoke"}
        /\ \A g \in Handlers \ {h} : rq'[g] = rq[g]
    <2> DEFINE r == [rq[h] EXCEPT !.pc = "revoke"]
    <2>1. r \in Bumps /\ r.pc = "revoke" BY <1>1 DEF Bumps
    <2> HIDE DEF r
    <2>2. CASE RqTo(h, r) BY <1>1, <2>1, <2>2, RqStep, RqKinds DEF RqTo
    <2>3. CASE RqTo(h, NoRq) BY <1>1, <2>3, RqStep, RqKinds DEF RqTo, NoRq
    <2> QED BY <2>2, <2>3 DEF CacheEpoch, Step, r
  <1>4. \/ SetEpoch(rq[h].epoch) /\ behind' = (behind \/ rq[h].epoch < user.epoch)
        \/ behind' = TRUE /\ UNCHANGED cache
      BY DEF CacheEpoch
  <1>5. UNCHANGED <<redis, scene, user, gone, jtis, devices, gateway, now, pws, out>>
      BY DEF CacheEpoch
  <1> QED BY <1>1, <1>2, <1>3, <1>4, <1>5, EpochStored

LEMMA RevokeCurrentKeeps ==
  ASSUME AccountInv, NEW h \in Handlers, RevokeCurrent(h)
  PROVE  AccountInv'
  <1>1. AccountTypes /\ rq[h] \in Bumps /\ rq[h].pc = "revoke"
      BY Stages DEF AccountInv, RevokeCurrent, RqAt
  <1> DEFINE t == rq[h].tok
  <1>2. t \in Token /\ t.jti \in Jtis /\ t.exp \in Nat /\ now \in Nat
      BY <1>1, Numbers DEF Bumps, Token
  <1>3. gone' \in [Jtis -> Nat] /\ out' \in [Jtis -> Nat] /\ EntryLasts'
    <2>1. CASE Revoke(t.jti, t.exp) /\ out' = [out EXCEPT ![t.jti] = t.exp]
        BY <1>1, <1>2, <2>1, RevokeLasts DEF AccountInv
    <2>2. CASE UNCHANGED <<gone, out>>
        BY <1>1, <2>2 DEF AccountInv, AccountTypes, EntryLasts
    <2> QED BY <2>1, <2>2 DEF RevokeCurrent
  <1>4. /\ rq' \in [Handlers -> Rqs] /\ rq'[h].pc = "idle"
        /\ \A g \in Handlers \ {h} : rq'[g] = rq[g]
      BY <1>1, RqStep, RqKinds DEF NoRq, RevokeCurrent, RqTo
  <1>5. AccountTypes'
      BY <1>1, <1>3, <1>4 DEF RevokeCurrent, AccountTypes, devices, gateway
  <1>6. SignedUp' /\ Epochs'
      BY <1>4 DEF AccountInv, SignedUp, Epochs, RevokeCurrent, gateway
  <1>7. CacheCurrent' BY <1>1, <1>4 DEF AccountInv, CacheCurrent, RqAt, RevokeCurrent
  <1>8. Enrolling' BY <1>4 DEF AccountInv, Enrolling, RqAt, RevokeCurrent, devices
  <1>9. LinkTokens' /\ Lifetimes' /\ OldPasswordOut' /\ DeviceKnown'
      BY DEF AccountInv, LinkTokens, Lifetimes, OldPasswordOut, DeviceKnown,
         RevokeCurrent, devices, gateway
  <1> QED BY <1>3, <1>5, <1>6, <1>7, <1>8, <1>9 DEF AccountInv

-----------------------------------------------------------------------------
(* The gateway, and time.                                                  *)

LEMMA AcceptKeeps ==
  ASSUME AccountInv, NEW t \in tokens, Accept(t)
  PROVE  AccountInv'
  <1>1. AccountTypes /\ t \in Token /\ t.jti \in Jtis /\ t.exp \in Nat
      BY Numbers DEF AccountInv
  <1> DEFINE r == [st |-> "open", tok |-> t, exp |-> t.exp, idle |-> t.exp]
  <1>2. r \in Links /\ r.tok = t BY <1>1 DEF Links
  <1>3. conn' = [conn EXCEPT ![t.jti] = r] BY DEF Accept
  <1> HIDE DEF r
  <1> QED BY <1>1, <1>2, <1>3, LinkMoves DEF Accept

LEMMA HeartbeatKeeps ==
  ASSUME AccountInv, NEW j \in Jtis, Heartbeat(j)
  PROVE  AccountInv'
  <1>1. AccountTypes /\ now \in Nat /\ now + TTL \in Nat BY Numbers DEF AccountInv
  <1>2. conn[j] \in [st : {"open", "renew"}, tok : Token, exp : Nat, idle : Nat]
      BY <1>1 DEF Heartbeat, AccountTypes, Links, NoConn
  <1> DEFINE r == IF ~Allowed(conn[j].tok) \/ now >= conn[j].idle THEN NoConn
                  ELSE [conn[j] EXCEPT !.idle = now + TTL,
                           !.st = IF conn[j].exp - now < TTL \div 2 THEN "renew" ELSE "open"]
  <1>3. r \in Links /\ (r.st = "none" \/ r.tok = conn[j].tok)
    <2>1. CASE r = NoConn BY <2>1 DEF Links, NoConn
    <2>2. CASE r = [conn[j] EXCEPT !.idle = now + TTL,
                       !.st = IF conn[j].exp - now < TTL \div 2 THEN "renew" ELSE "open"]
        BY <1>1, <1>2, <2>2 DEF Links
    <2> QED BY <2>1, <2>2
  <1>4. conn' = [conn EXCEPT ![j] = r] BY <1>1 DEF Heartbeat, AccountTypes
  <1> HIDE DEF r
  <1>5. conn[j].tok \in tokens BY DEF AccountInv, LinkTokens, Heartbeat
  <1> QED BY <1>3, <1>4, <1>5, LinkMoves DEF Heartbeat

LEMMA RenewKeeps ==
  ASSUME AccountInv, NEW j \in Jtis, Renew(j)
  PROVE  AccountInv'
  <1>1. AccountTypes /\ now + TTL \in Nat BY Numbers DEF AccountInv
  <1>2. conn[j] \in [st : {"open", "renew"}, tok : Token, exp : Nat, idle : Nat]
      BY <1>1 DEF Renew, AccountTypes, Links, NoConn
  <1> DEFINE t == conn[j].tok
             new == [t EXCEPT !.exp = now + TTL, !.late = @ \/ t.ver < user.epoch]
             r == [conn[j] EXCEPT !.st = "open", !.exp = now + TTL]
  <1>3. t \in tokens /\ t \in Token
      BY <1>2 DEF AccountInv, LinkTokens, Renew
  <1>4. r \in Links /\ r.tok = t /\ conn' = [conn EXCEPT ![j] = r]
      BY <1>1, <1>2 DEF Links, Renew, AccountTypes
  <1>5. (t.late \/ t.ver < user.epoch) \in BOOLEAN OBVIOUS
  <1>6. /\ new \in Token /\ new.exp = now + TTL /\ new.ver = t.ver /\ new.pw = t.pw
        /\ new.did = t.did /\ new.late = (t.late \/ t.ver < user.epoch)
      BY <1>1, <1>3, <1>5 DEF Token
  <1>7. tokens' = tokens \cup {new} BY DEF Renew
  <1> HIDE DEF new, r, t
  <1>8. user.exists BY <1>3 DEF AccountInv, SignedUp
  <1>9. AccountTypes'
    <2>1. conn' \in [Jtis -> Links] BY <1>1, <1>4 DEF AccountTypes
    <2>2. tokens' \subseteq Token BY <1>1, <1>6, <1>7 DEF AccountTypes
    <2>3. UNCHANGED <<scene, user, cache, gone, out, jtis, dir, rq, now, pws>>
        BY DEF Renew, royal, devices, limits, history
    <2> QED BY <1>1, <2>1, <2>2, <2>3 DEF AccountTypes
  <1>10. SignedUp' BY <1>8 DEF SignedUp, Renew, royal
  <1>11. Epochs' BY <1>3, <1>6, <1>7 DEF AccountInv, Epochs, Renew, royal
  <1>12. LinkTokens'
      BY <1>1, <1>3, <1>4, <1>7 DEF AccountInv, AccountTypes, LinkTokens
  <1>13. Lifetimes'
    <2>1. new.exp <= now + TTL BY <1>1, <1>6
    <2>2. ~(new.ver < cache.epoch /\ ~new.late)
      <3>1. t.ver \in Nat /\ user.epoch \in Nat /\ cache.epoch \in Nat
          BY <1>1, <1>3, Numbers
      <3>2. cache.epoch <= user.epoch BY DEF AccountInv, Epochs
      <3>3. t.ver < cache.epoch => t.ver < user.epoch BY <3>1, <3>2
      <3>4. t.ver < user.epoch => new.late BY <1>6, Zenon
      <3>5. new.ver = t.ver BY <1>6
      <3> QED BY <3>3, <3>4, <3>5
    <2> QED BY <1>7, <2>1, <2>2 DEF AccountInv, Lifetimes, Renew, royal, limits
  <1>14. OldPasswordOut'
      BY <1>3, <1>6, <1>7 DEF AccountInv, OldPasswordOut, Renew, royal
  <1>15. DeviceKnown'
      BY <1>3, <1>6, <1>7 DEF AccountInv, DeviceKnown, Renew, devices
  <1>16. EntryLasts' /\ CacheCurrent' /\ Enrolling'
      BY DEF AccountInv, EntryLasts, CacheCurrent, Enrolling, RqAt, Renew, royal,
         devices, history
  <1> QED BY <1>9, <1>10, <1>11, <1>12, <1>13, <1>14, <1>15, <1>16 DEF AccountInv

LEMMA DisconnectKeeps ==
  ASSUME AccountInv, NEW j \in Jtis, Disconnect(j)
  PROVE  AccountInv'
  <1>1. NoConn \in Links /\ NoConn.st = "none" BY DEF Links, NoConn
  <1>2. conn' = [conn EXCEPT ![j] = NoConn] BY DEF Disconnect
  <1> QED BY <1>1, <1>2, LinkMoves DEF Disconnect

LEMMA TimePassesKeeps ==
  ASSUME AccountInv, TimePasses
  PROVE  AccountInv'
  <1>1. AccountTypes /\ now \in Nat /\ now' = now + 1 BY Numbers DEF AccountInv, TimePasses
  <1>2. AccountTypes'
      BY <1>1 DEF TimePasses, AccountTypes, royal, devices, gateway, history
  <1>3. Lifetimes'
    <2>1. \A t \in tokens : t.exp \in Nat /\ t.exp <= now + TTL
        BY <1>1, Numbers DEF AccountInv, Lifetimes
    <2>2. \A t \in tokens : t.exp <= now' + TTL BY <1>1, <2>1, AccountsAssumption
    <2> QED BY <2>2 DEF AccountInv, Lifetimes, TimePasses, royal, gateway
  <1>4. /\ SignedUp' /\ Epochs' /\ LinkTokens' /\ EntryLasts' /\ CacheCurrent' /\ Enrolling'
        /\ OldPasswordOut' /\ DeviceKnown'
      BY DEF AccountInv, SignedUp, Epochs, LinkTokens, EntryLasts, CacheCurrent,
         Enrolling, RqAt, OldPasswordOut, DeviceKnown, TimePasses, royal, devices, gateway,
         history
  <1> QED BY <1>2, <1>3, <1>4 DEF AccountInv

-----------------------------------------------------------------------------
(* The first state: nothing made yet, or one token at the first epoch.     *)
LEMMA AccountsStarts == ASSUME AccountsInit PROVE AccountInv
  <1>1. /\ TTL \in Nat /\ 0 + TTL \in Nat /\ TTL <= 0 + TTL /\ 1 \in Jtis /\ 1 \in 0 .. MaxTokens
        /\ 0 \in 0 .. MaxTokens
      BY AccountsAssumption DEF Jtis
  <1>2. /\ cache \in [epoch : Nat, exp : Nat] /\ cache.epoch = 0 /\ cache.exp = 0
        /\ gone \in [Jtis -> Nat] /\ out \in [Jtis -> Nat]
        /\ \A j \in Jtis : out[j] = 0 /\ gone[j] = 0
        /\ conn \in [Jtis -> Links] /\ \A j \in Jtis : conn[j].st = "none"
        /\ rq \in [Handlers -> Rqs] /\ \A h \in Handlers : rq[h].pc = "idle"
        /\ now = 0 /\ hot = dir /\ scene \in Scenes
      BY RqKinds DEF AccountsInit, Links, NoConn, NoRq
  <1>3. user.epoch = 0 BY DEF AccountsInit
  <1>4. /\ user \in [exists : BOOLEAN, pw : Nat, epoch : Nat] /\ user.pw \in Nat
        /\ tokens \subseteq Token /\ jtis \in 0 .. MaxTokens /\ dir \subseteq 1 .. jtis
        /\ ~user.exists => user.pw = 0 /\ tokens = {}
        /\ \A t \in tokens : /\ t.ver = 0 /\ t.exp = TTL /\ t.pw = user.pw
                             /\ t.did # NoDevice => t.did \in dir
    <2>1. CASE scene.fresh
      <3>1. user = [exists |-> FALSE, pw |-> 0, epoch |-> 0] /\ tokens = {} /\ jtis = 0 /\ dir = {}
          BY <2>1 DEF AccountsInit
      <3> QED BY <1>1, <3>1
    <2>2. CASE ~scene.fresh
      <3> DEFINE d == IF dir = {} THEN NoDevice ELSE 1
                 t == [jti |-> 1, ver |-> 0, exp |-> TTL, pw |-> 1, late |-> FALSE, did |-> d]
      <3>1. /\ user = [exists |-> TRUE, pw |-> 1, epoch |-> 0] /\ jtis = 1
            /\ dir \in {{}, {1}} /\ tokens = {t}
          BY <2>2 DEF AccountsInit
      <3>2. d \in Nat /\ (d # NoDevice => d \in dir) BY <3>1 DEF NoDevice
      <3> HIDE DEF d
      <3>3. /\ t \in Token /\ t.ver = 0 /\ t.exp = TTL /\ t.pw = 1 /\ t.did = d
          BY <1>1, <3>2 DEF Token
      <3> HIDE DEF t
      <3>4. dir \subseteq 1 .. jtis BY <3>1
      <3> QED BY <1>1, <3>1, <3>2, <3>3, <3>4
    <2> QED BY <2>1, <2>2
  <1>5. pws \in Nat BY <1>4 DEF AccountsInit
  <1>6. AccountTypes BY <1>1, <1>2, <1>4, <1>5 DEF AccountTypes
  <1>7. SignedUp BY <1>2, <1>3, <1>4 DEF SignedUp
  <1>8. Epochs
    <2>1. 0 <= 0 OBVIOUS
    <2> QED BY <1>2, <1>3, <1>4, <2>1 DEF Epochs
  <1>9. LinkTokens BY <1>2 DEF LinkTokens
  <1>10. EntryLasts BY <1>2 DEF EntryLasts
  <1>11. Lifetimes BY <1>1, <1>2, <1>4 DEF Lifetimes
  <1>12. CacheCurrent BY <1>2, <1>3 DEF CacheCurrent
  <1>13. Enrolling BY <1>2 DEF Enrolling, RqAt
  <1>14. OldPasswordOut BY <1>4 DEF OldPasswordOut
  <1>15. DeviceKnown BY <1>2, <1>4 DEF DeviceKnown
  <1> QED BY <1>6, <1>7, <1>8, <1>9, <1>10, <1>11, <1>12, <1>13, <1>14, <1>15 DEF AccountInv

LEMMA AccountsStep == ASSUME AccountInv, [AccountsNext]_accountVars PROVE AccountInv'
  <1>1. ASSUME NEW h \in Handlers, Serve(h) PROVE AccountInv'
    <2>1. CASE \E b \in {"none", "enroll"} : Register(h, b) BY <2>1, RegisterKeeps
    <2>2. CASE \E b \in {"none", "enroll", "known"} : Login(h, b) BY <2>2, LoginKeeps
    <2>3. CASE Create(h) BY <2>3, CreateKeeps
    <2>4. CASE Bind(h)
        BY <2>4, BindKnownKeeps, BindNoneKeeps, BindHotKeeps, EnrollKeeps,
           EnrollFailsKeeps DEF Bind
    <2>5. CASE Issue(h) BY <2>5, IssueKeeps
    <2>6. CASE \E t \in tokens : Logout(h, t) BY <2>6, LogoutKeeps
    <2>7. CASE \E t \in tokens : Me(h, t) \/ ChangePassword(h, t)
        BY <2>7, LiveClaimsKeeps DEF Me, ChangePassword
    <2>8. CASE AccountEpoch(h) BY <2>8, AccountEpochKeeps
    <2>9. CASE Warm(h) BY <2>9, WarmKeeps
    <2>10. CASE ReadHash(h) BY <2>10, ReadHashKeeps
    <2>11. CASE SetPassword(h) BY <2>11, SetPasswordKeeps
    <2>12. CASE CacheEpoch(h) BY <2>12, CacheEpochKeeps
    <2>13. CASE RevokeCurrent(h) BY <2>13, RevokeCurrentKeeps
    <2> QED BY <1>1, <2>1, <2>2, <2>3, <2>4, <2>5, <2>6, <2>7, <2>8, <2>9, <2>10, <2>11, <2>12,
               <2>13 DEF Serve
  <1>2. CASE UserUpsert BY <1>2, UserUpsertKeeps
  <1>3. CASE TimePasses BY <1>3, TimePassesKeeps
  <1>4. CASE \E t \in tokens : Accept(t) BY <1>4, AcceptKeeps
  <1>5. CASE \E j \in Jtis : Heartbeat(j) \/ Renew(j) \/ Disconnect(j)
      BY <1>5, HeartbeatKeeps, RenewKeeps, DisconnectKeeps
  <1>6. CASE UNCHANGED accountVars
    <2>1. UNCHANGED <<redis, scene, user, cache, gone, tokens, jtis, dir, hot, conn, rq, now,
                      pws, out, behind>>
        BY <1>6 DEF accountVars, royal, devices, gateway, limits, history
    <2> QED BY <2>1 DEF AccountInv, AccountTypes, SignedUp, Epochs, LinkTokens, EntryLasts,
        Lifetimes, CacheCurrent, Enrolling, RqAt, OldPasswordOut, DeviceKnown
  <1> QED BY <1>1, <1>2, <1>3, <1>4, <1>5, <1>6 DEF AccountsNext

LEMMA AccountsInvariance == AccountsSpec => []AccountInv
  <1>1. AccountsInit => AccountInv BY AccountsStarts
  <1>2. AccountInv /\ [AccountsNext]_accountVars => AccountInv' BY AccountsStep
  <1> QED BY <1>1, <1>2, PTL DEF AccountsSpec

(* An entry that lasts as long as its token ends no sooner than the token. *)
LEMMA EntriesSuffice == ASSUME AccountInv PROVE LogoutLasts
  <1> SUFFICES ASSUME NEW t \in tokens, out[t.jti] >= t.exp, BearerClaims(t)
               PROVE  IsRevoked(t.jti)
      BY DEF LogoutLasts
  <1>1. t.jti \in Jtis /\ t.exp \in Nat /\ now \in Nat BY Numbers DEF AccountInv
  <1>2. out[t.jti] \in Nat /\ gone[t.jti] \in Nat /\ out[t.jti] <= gone[t.jti]
      BY <1>1 DEF AccountInv, AccountTypes, EntryLasts
  <1>3. now < t.exp BY DEF BearerClaims
  <1>4. gone[t.jti] > now BY <1>1, <1>2, <1>3
  <1> QED BY <1>4 DEF IsRevoked

(* A token that has passed outlives the cached epoch only if it was made   *)
(* late.                                                                   *)
LEMMA CacheSuffices == ASSUME AccountInv PROVE GateRemembers
  <1> SUFFICES ASSUME NEW t \in tokens, BearerClaims(t), t.ver < user.epoch, ~t.late, ~behind,
                      \A h \in Handlers : ~RqAt(h, "set epoch")
               PROVE  t.ver < GateEpoch
      BY DEF GateRemembers
  <1>1. /\ t.ver \in Nat /\ t.exp \in Nat /\ now \in Nat /\ user.epoch \in Nat
        /\ cache.epoch \in Nat /\ cache.exp \in Nat
      BY Numbers DEF AccountInv
  <1>2. cache.epoch = user.epoch BY DEF AccountInv, CacheCurrent
  <1>3. t.exp <= cache.exp BY <1>2 DEF AccountInv, Lifetimes
  <1>4. now < cache.exp
    <2>1. now < t.exp BY DEF BearerClaims
    <2> QED BY <1>1, <1>3, <2>1, Chain
  <1>5. RedisEpoch = user.epoch /\ TokenEpoch = user.epoch
      BY <1>2, <1>4 DEF RedisEpoch, TokenEpoch, MemoryEpoch
  <1> QED BY <1>5 DEF GateEpoch

(* A changed password ends the tokens of the old one, a logout ends every  *)
(* copy of its token, the gateway refuses a token of an epoch that has     *)
(* passed and the device a token names is known, for any number of         *)
(* handlers and tokens and any lifetime of a token (change_password,       *)
(* logout, set_epoch, bind_device).                                        *)
THEOREM TokenSafety == AccountsSpec => []TokensEnd
  <1>1. AccountInv => TokensEnd
      BY EntriesSuffice, CacheSuffices DEF AccountInv, TokensEnd
  <1> QED BY <1>1, AccountsInvariance, PTL

(* Royal's tables, stores and requests stay well formed, for any number of *)
(* handlers and tokens.                                                    *)
THEOREM AccountTypeSafety == AccountsSpec => []AccountTypes
  <1>1. AccountInv => AccountTypes BY DEF AccountInv
  <1> QED BY <1>1, AccountsInvariance, PTL
-----------------------------------------------------------------------------
(* Friends, groups, the social cache and the pool of royal instances. *)

Names == Accounts \cup {"none"}
GroupIds == Groups \cup ClientIds \cup {"none"}
PairRows == {Req(x, y) : x \in Names, y \in Names} \cup {Block(x, y) : x \in Names, y \in Names}
            \cup {Friend(x, y) : x \in Names, y \in Names}

Endpoints ==
  {"none", "request", "accept", "reject", "remove", "block", "unblock", "friends", "incoming",
   "blocked", "is_friend", "is_blocked", "create", "join", "quit", "detail", "members", "insert"}
JobStages ==
  {"begin", "friends", "reverse", "take", "join", "ask", "already", "unfriend", "unask", "leave",
   "store", "done"}
JobResults ==
  {"none", "ok", "sent", "accepted", "already", "blocked", "notfound", "denied", "yes", "no",
   "error", "unavailable"}
TaskOps == {"idle", "pair", "read", "talk", "typing", "create", "invite", "quit"}
Questions == {"blocked_check", "friend_check", "blocked_wait", "friend_wait"}

ReqSet == [ep : Endpoints, a : Names, b : Names, g : GroupIds]
CallSet == [st : {"off", "pick", "cas", "sent", "end"}, req : ReqSet, att : Nat,
            inst : Instances \cup {"none", "gone"}, lost : BOOLEAN, res : JobResults,
            rows : SUBSET Accounts]
TaskSet ==
  {t \in [op : TaskOps, at : Endpoints \cup Questions, a : Names, b : Names, g : GroupIds] :
     t.op = "idle" => t.at = "none"}
JobSet == [by : Tasks, n : Nat, ep : Endpoints, a : Names, b : Names, g : GroupIds,
           at : Instances, live : BOOLEAN, pc : JobStages, del : SUBSET PairRows,
           ins : SUBSET PairRows, res : JobResults, rows : SUBSET Accounts]

DirTypes ==
  /\ calling \in [Tasks -> CallSet] /\ task \in [Tasks -> TaskSet] /\ jobs \subseteq JobSet
  /\ issued \in Nat /\ entries \in [Keys -> {"none", "yes", "no"}]

(* A probe is counted while its window lasts, and whoever may still win    *)
(* the compare-exchange has seen a window that is over.                    *)
GateInv ==
  /\ gate \in [Instances -> Nat] /\ probes \in [Instances -> Nat]
  /\ clients \subseteq Instances /\ up \subseteq Instances
  /\ \A i \in Instances : probes[i] <= 1 /\ (gate[i] = 0 => probes[i] = 0)
  /\ \A c \in Tasks : calling[c].st = "cas" /\ ~calling[c].lost =>
       calling[c].inst \in Instances /\ gate[calling[c].inst] = 0

(* A job somebody waits for is the last attempt of its caller's call. *)
Carries(j, r) == j.ep = r.ep /\ j.a = r.a /\ j.b = r.b /\ j.g = r.g
LiveJobs ==
  /\ \A j \in jobs : j.live => calling[j.by].st = "sent" /\ Carries(j, calling[j.by].req)
  /\ \A j, k \in jobs : j.live /\ k.live /\ j.by = k.by => j = k

(* A task that looks in the cache or waits calls nobody; one that fetches  *)
(* asks royal what the key is about, and holds the key.                    *)
AskInv ==
  /\ \A c \in Tasks :
       /\ task[c].op = "idle" \/ task[c].at \in Questions => calling[c].st = "off"
       /\ task[c].at \in Questions \/ Fetching(c) =>
            task[c].a \in Humans /\ task[c].b \in Humans /\ task[c].a # task[c].b
       /\ Fetching(c) =>
            /\ KeyOf(task[c]) \in inflight
            /\ calling[c].req.ep = task[c].at
            /\ calling[c].req.a = task[c].a /\ calling[c].req.b = task[c].b
  /\ SingleFlight

(* An answer under way is as true as a cached one. *)
AnswerInv ==
  /\ CacheCoherent
  /\ \A c \in Tasks : Fetching(c) /\ KeyOf(task[c]) \notin overlap =>
       /\ calling[c].st = "end" /\ calling[c].res \in {"yes", "no"} =>
            ((calling[c].res = "yes") <=> Truth(KeyOf(task[c])))
       /\ \A j \in jobs :
            j.by = c /\ j.live /\ j.pc = "done" /\ j.res \in {"yes", "no"} =>
              ((j.res = "yes") <=> Truth(KeyOf(task[c])))

(* What the rows say was wanted, and so was what is still on its way. *)
RowsInv ==
  /\ \A f, t \in Humans : Req(f, t) \in db => <<f, t>> \in wanted
  /\ FriendsByBoth /\ BlockedApart /\ InvitedByMember

ReqOk(r) ==
  /\ r.ep \in {"request", "accept"} => <<r.a, r.b>> \in wanted
  /\ r.ep = "join" => <<r.g, r.b>> \in invited
  /\ r.ep = "create" =>
       \A h \in Groups : Group(h) \notin db => <<h, r.a>> \in invited /\ <<h, r.b>> \in invited

People(j) == j.a \in Humans /\ j.b \in Humans /\ j.a # j.b
JobOk(j) ==
  /\ j.del \subseteq {Friend(j.a, j.b), Req(j.a, j.b), Req(j.b, j.a)}
  /\ j.ins \subseteq {Block(j.a, j.b)}
  /\ backend = "memory" => j.pc \in {"begin", "store", "done"}
  /\ j.ep = "request" /\ j.pc \in {"take", "join"} /\ People(j) => <<j.b, j.a>> \in wanted
  /\ j.ep = "accept" /\ People(j) /\ (j.pc = "join" \/ (j.pc = "already" /\ j.del # {})) =>
       <<j.b, j.a>> \in wanted

(* What is stored under a client id is stored once. *)
InsertsInv == inserts \in [MessageKeys -> Nat] /\ InsertOnce

WantedInv ==
  /\ RowsInv
  /\ \A c \in Tasks : calling[c].st # "off" => ReqOk(calling[c].req)
  /\ \A j \in jobs : ReqOk(j) /\ JobOk(j)
  /\ InsertsInv

DirInv == DirTypes /\ GateInv /\ LiveJobs /\ AskInv /\ AnswerInv /\ WantedInv

-----------------------------------------------------------------------------
(* Rows of different tables differ, and a friendship has no direction. *)
LEMMA FriendRow ==
  ASSUME NEW a, NEW b, NEW c, NEW d
  PROVE  /\ Friend(a, b) = Friend(b, a)
         /\ Friend(a, b) = Friend(c, d) => (a = c /\ b = d) \/ (a = d /\ b = c)
<1>1. {a, b} = {b, a} OBVIOUS
<1>2. {a, b} = {c, d} => (a = c /\ b = d) \/ (a = d /\ b = c) OBVIOUS
<1>3. Friend(a, b) = Friend(c, d) => {a, b} = {c, d} BY DEF Friend
<1> QED BY <1>1, <1>2, <1>3 DEF Friend

LEMMA OtherRows ==
  ASSUME NEW a, NEW b, NEW c, NEW d
  PROVE  /\ Req(a, b) # Friend(c, d) /\ Req(a, b) # Block(c, d) /\ Req(a, b) # Member(c, d)
         /\ Friend(a, b) # Block(c, d) /\ Friend(a, b) # Member(c, d)
         /\ Block(a, b) # Member(c, d)
         /\ Group(c) # Req(a, b) /\ Group(c) # Friend(a, b) /\ Group(c) # Block(a, b)
         /\ Group(c) # Member(a, b)
         /\ Req(a, b) = Req(c, d) => a = c /\ b = d
         /\ Block(a, b) = Block(c, d) => a = c /\ b = d
         /\ Member(a, b) = Member(c, d) => a = c /\ b = d
         /\ Group(a) = Group(b) => a = b
<1>1. DEFINE r == Req(a, b)
             f == Friend(c, d)
<1>2. Req(a, b) # Friend(c, d) /\ Req(a, b) # Block(c, d) /\ Req(a, b) # Member(c, d)
  BY DEF Req, Friend, Block, Member
<1>3. Friend(a, b) # Block(c, d) /\ Friend(a, b) # Member(c, d) /\ Block(a, b) # Member(c, d)
  BY DEF Friend, Block, Member
<1>4. /\ Group(c) # Req(a, b) /\ Group(c) # Friend(a, b) /\ Group(c) # Block(a, b)
      /\ Group(c) # Member(a, b)
  BY DEF Req, Friend, Block, Member, Group
<1>5. /\ Req(a, b) = Req(c, d) => a = c /\ b = d
      /\ Block(a, b) = Block(c, d) => a = c /\ b = d
      /\ Member(a, b) = Member(c, d) => a = c /\ b = d
      /\ Group(a) = Group(b) => a = b
  BY DEF Req, Block, Member, Group
<1> QED BY <1>2, <1>3, <1>4, <1>5

(* New rows that were wanted keep the rows' invariant, groups only come. *)
NewRow(r) ==
  /\ \A f, t \in Humans : r = Req(f, t) => <<f, t>> \in wanted
  /\ \A f, t \in Humans : r = Friend(f, t) /\ f # t => {<<f, t>>, <<t, f>>} \subseteq wanted
  /\ \A g \in Groups, a \in Accounts : r = Member(g, a) => <<g, a>> \in invited
GroupsStay == \A h \in Groups : Group(h) \in db => Group(h) \in db'

LEMMA NewRows ==
  ASSUME RowsInv, UNCHANGED <<backend, wanted, invited>>, BlockedApart',
         \A r \in db' : r \in db \/ NewRow(r)
  PROVE  RowsInv'
<1>1. \A f, t \in Humans : Req(f, t) \in db' => <<f, t>> \in wanted'
  BY DEF RowsInv, NewRow
<1>2. FriendsByBoth'
  BY DEF RowsInv, NewRow, FriendsByBoth
<1>3. InvitedByMember'
  BY DEF RowsInv, NewRow, InvitedByMember
<1> QED BY <1>1, <1>2, <1>3 DEF RowsInv

-----------------------------------------------------------------------------
(* A job answers or goes on: its successor asks for the same. *)
Same(j, k) == k \in JobSet /\ k.by = j.by /\ Carries(k, j) /\ k.live = j.live

LEMMA Answered ==
  ASSUME NEW j \in JobSet, NEW res \in JobResults, NEW rows \in SUBSET Accounts
  PROVE  [j EXCEPT !.pc = "done", !.del = {}, !.ins = {}, !.res = res, !.rows = rows] \in JobSet
<1>1. ASSUME NEW d \in SUBSET PairRows, NEW e \in SUBSET PairRows, NEW pc \in JobStages
      PROVE  [j EXCEPT !.pc = pc, !.del = d, !.ins = e, !.res = res, !.rows = rows] \in JobSet
  BY DEF JobSet
<1>2. {} \in SUBSET PairRows OBVIOUS
<1>3. "done" \in JobStages BY DEF JobStages
<1> QED BY <1>1, <1>2, <1>3

LEMMA Replies ==
  ASSUME NEW j \in JobSet, NEW res \in JobResults, NEW rows \in SUBSET Accounts,
         Reply(j, res, rows)
  PROVE  \/ jobs' = jobs \ {j}
         \/ \E k : /\ jobs' = (jobs \ {j}) \cup {k} /\ Same(j, k)
                   /\ k.pc = "done" /\ k.del = {} /\ k.ins = {} /\ k.res = res
<1> DEFINE k == [j EXCEPT !.pc = "done", !.del = {}, !.ins = {}, !.res = res, !.rows = rows]
<1>1. CASE ~j.live BY <1>1 DEF Reply
<1>2. CASE j.live
  <2>1. k.by = j.by /\ k.live = j.live /\ k.ep = j.ep /\ k.a = j.a /\ k.b = j.b /\ k.g = j.g
    BY DEF JobSet
  <2>4. k \in JobSet BY Answered
  <2>2. k.pc = "done" /\ k.del = {} /\ k.ins = {} /\ k.res = res BY DEF JobSet
  <2>3. jobs' = (jobs \ {j}) \cup {k} BY <1>2 DEF Reply
  <2> QED BY <2>1, <2>2, <2>3, <2>4 DEF Same, Carries
<1> QED BY <1>1, <1>2

LEMMA GoesTo ==
  ASSUME NEW j \in JobSet, NEW pc \in JobStages
  PROVE  LET k == [j EXCEPT !.pc = pc] IN
           Same(j, k) /\ k.pc = pc /\ k.del = j.del /\ k.ins = j.ins
BY DEF JobSet, Same, Carries

LEMMA Deletes ==
  ASSUME NEW j \in JobSet, NEW pc \in JobStages, NEW R \in SUBSET PairRows
  PROVE  LET k == [j EXCEPT !.del = R, !.pc = pc] IN
           Same(j, k) /\ k.pc = pc /\ k.del = R /\ k.ins = j.ins
BY DEF JobSet, Same, Carries

LEMMA Inserts ==
  ASSUME NEW j \in JobSet, NEW pc \in JobStages, NEW R \in SUBSET PairRows
  PROVE  LET k == [j EXCEPT !.ins = R, !.pc = pc] IN
           Same(j, k) /\ k.pc = pc /\ k.ins = R /\ k.del = j.del
BY DEF JobSet, Same, Carries

-----------------------------------------------------------------------------
(* What a step of a royal instance does to the rows and to its job. *)
TrueOf(k) ==
  k.pc = "done" /\ k.res \in {"yes", "no"} =>
    /\ k.ep = "is_friend" => db' = db /\ ((k.res = "yes") <=> IsFriend(k.a, k.b))
    /\ k.ep = "is_blocked" => db' = db /\ ((k.res = "yes") <=> IsBlockedEither(k.a, k.b))

Served(j) ==
  /\ UNCHANGED backend /\ RowsInv' /\ GroupsStay
  /\ \/ jobs' = jobs \ {j}
     \/ \E k : jobs' = (jobs \ {j}) \cup {k} /\ Same(j, k) /\ JobOk(k)' /\ TrueOf(k)

Serving(j) == /\ j \in JobSet /\ JobOk(j) /\ ReqOk(j) /\ RowsInv
              /\ UNCHANGED <<wanted, invited, backend>>

LEMMA Unmoved ==
  ASSUME RowsInv, UNCHANGED <<db, backend, wanted, invited>>
  PROVE  RowsInv' /\ GroupsStay
BY DEF RowsInv, GroupsStay, FriendsByBoth, BlockedApart, InvitedByMember

LEMMA ReplyServes ==
  ASSUME NEW j, Serving(j), NEW res \in JobResults, NEW rows \in SUBSET Accounts,
         Reply(j, res, rows), RowsInv', GroupsStay,
         res \in {"yes", "no"} =>
           /\ j.ep = "is_friend" => db' = db /\ ((res = "yes") <=> IsFriend(j.a, j.b))
           /\ j.ep = "is_blocked" => db' = db /\ ((res = "yes") <=> IsBlockedEither(j.a, j.b))
  PROVE  Served(j)
<1>1. CASE jobs' = jobs \ {j} BY <1>1 DEF Served, Serving
<1>2. ASSUME NEW k, jobs' = (jobs \ {j}) \cup {k}, Same(j, k),
             k.pc = "done", k.del = {}, k.ins = {}, k.res = res
      PROVE  Served(j)
  <2>1. JobOk(k)' BY <1>2 DEF JobOk
  <2>2. k.ep = j.ep /\ k.a = j.a /\ k.b = j.b BY <1>2 DEF Same, Carries
  <2>3. TrueOf(k) BY <1>2, <2>2 DEF TrueOf
  <2> QED BY <1>2, <2>1, <2>3 DEF Served, Serving
<1>3. j \in JobSet BY DEF Serving
<1> QED BY <1>1, <1>2, <1>3, Replies

LEMMA RollsBack ==
  ASSUME NEW j, Serving(j), NEW res \in JobResults \ {"yes", "no"}, Rollback(j, res)
  PROVE  Served(j)
<1>1. Reply(j, res, {}) /\ UNCHANGED db BY DEF Rollback
<1>2. RowsInv' /\ GroupsStay BY <1>1, Unmoved DEF Serving
<1> QED BY <1>1, <1>2, ReplyServes

LEMMA StepServes ==
  ASSUME NEW j, Serving(j), NEW k, jobs' = (jobs \ {j}) \cup {k}, Same(j, k), k.pc # "done",
         JobOk(k)', UNCHANGED db
  PROVE  Served(j)
<1>1. RowsInv' /\ GroupsStay BY Unmoved DEF Serving
<1> QED BY <1>1 DEF Served, TrueOf, Serving

(* The rows a transaction takes away are of a pair, the one it brings is   *)
(* a block or the row of its last statement.                               *)
LEMMA CommitServes ==
  ASSUME NEW j, Serving(j), NEW res \in JobResults \ {"yes", "no"}, Reply(j, res, {}),
         NEW cut, NEW new, db' = (db \ cut) \cup new,
         \A h \in Groups : Group(h) \notin cut,
         \A r \in new : NewRow(r), backend # "memory"
  PROVE  Served(j)
<1>1. BlockedApart' BY DEF BlockedApart, Serving
<1>2. RowsInv' BY <1>1, NewRows DEF Serving
<1>3. GroupsStay BY DEF GroupsStay
<1> QED BY <1>2, <1>3, ReplyServes

LEMMA PairRowsOnly ==
  ASSUME NEW j, Serving(j)
  PROVE  /\ \A h \in Groups : Group(h) \notin j.del
         /\ \A r \in j.ins : NewRow(r)
<1>1. \A h \in Groups : Group(h) \notin j.del BY OtherRows DEF Serving, JobOk
<1>2. \A a, b : NewRow(Block(a, b)) BY OtherRows DEF NewRow
<1> QED BY <1>1, <1>2 DEF Serving, JobOk

(* A friendship both people wanted. *)
LEMMA WantedFriends ==
  ASSUME NEW a, NEW b, <<a, b>> \in wanted,
         a \in Humans /\ b \in Humans /\ a # b => <<b, a>> \in wanted
  PROVE  NewRow(Friend(a, b))
<1>1. ASSUME NEW f \in Humans, NEW t \in Humans, Friend(a, b) = Friend(f, t), f # t
      PROVE  {<<f, t>>, <<t, f>>} \subseteq wanted
  <2>1. (a = f /\ b = t) \/ (a = t /\ b = f) BY <1>1, FriendRow
  <2> QED BY <2>1, <1>1
<1>2. \A f, t \in Humans : Friend(a, b) # Req(f, t) BY OtherRows
<1>3. \A g \in Groups, x \in Accounts : Friend(a, b) # Member(g, x) BY OtherRows
<1> HIDE DEF Friend
<1> QED BY <1>1, <1>2, <1>3 DEF NewRow

-----------------------------------------------------------------------------
(* The PostgreSQL directory. *)
LEMMA PgRequestServes ==
  ASSUME NEW j, Serving(j), j.ep = "request", backend # "memory", PgRequest(j)
  PROVE  Served(j)
<1> USE DEF Serving
<1>0. <<j.a, j.b>> \in wanted BY DEF ReqOk
<1>1. CASE j.pc = "begin"
  <2>1. CASE Rollback(j, "blocked") BY <2>1, RollsBack DEF JobResults
  <2>2. CASE Goto(j, "friends") /\ UNCHANGED db
    <3> DEFINE k == [j EXCEPT !.pc = "friends"]
    <3>1. Same(j, k) /\ k.pc = "friends" /\ k.del = j.del /\ k.ins = j.ins
      BY GoesTo DEF JobStages
    <3>2. JobOk(k)' BY <3>1, <1>1 DEF JobOk, Same, Carries, People
    <3> QED BY <2>2, <3>1, <3>2, StepServes DEF Goto
  <2> QED BY <1>1, <2>1, <2>2 DEF PgRequest
<1>2. CASE j.pc = "friends"
  <2>1. CASE Rollback(j, "already") BY <2>1, RollsBack DEF JobResults
  <2>2. CASE Goto(j, "reverse") /\ UNCHANGED db
    <3> DEFINE k == [j EXCEPT !.pc = "reverse"]
    <3>1. Same(j, k) /\ k.pc = "reverse" /\ k.del = j.del /\ k.ins = j.ins
      BY GoesTo DEF JobStages
    <3>2. JobOk(k)' BY <3>1 DEF JobOk, Same, Carries, People
    <3> QED BY <2>2, <3>1, <3>2, StepServes DEF Goto
  <2> QED BY <1>2, <2>1, <2>2 DEF PgRequest
<1>3. CASE j.pc = "reverse"
  <2> DEFINE pc == IF Req(j.b, j.a) \in db THEN "take" ELSE "ask"
             k == [j EXCEPT !.pc = pc]
  <2>1. Goto(j, pc) /\ UNCHANGED db BY <1>3 DEF PgRequest
  <2>2. pc \in JobStages BY DEF JobStages
  <2>3. Same(j, k) /\ k.pc = pc /\ k.del = j.del /\ k.ins = j.ins BY <2>2, GoesTo
  <2>4. People(j) /\ pc = "take" => <<j.b, j.a>> \in wanted BY DEF People, RowsInv
  <2>6. pc \notin {"begin", "done", "join", "already"} OBVIOUS
  <2>7. jobs' = (jobs \ {j}) \cup {k} BY <2>1 DEF Goto
  <2> PICK q : q = k OBVIOUS
  <2>8. /\ Same(j, q) /\ q.pc = pc /\ q.del = j.del /\ q.ins = j.ins
        /\ jobs' = (jobs \ {j}) \cup {q}
    BY <2>3, <2>7
  <2> HIDE DEF pc, k
  <2>5. JobOk(q)' BY <2>8, <2>4, <2>6, <1>3 DEF JobOk, Same, Carries, People
  <2> QED BY <2>1, <2>8, <2>5, <2>6, StepServes
<1>4. CASE j.pc = "take"
  <2> DEFINE R == {Req(j.a, j.b), Req(j.b, j.a)} \cap db
             k == [j EXCEPT !.del = R, !.pc = "join"]
  <2>1. jobs' = (jobs \ {j}) \cup {k} /\ UNCHANGED db BY <1>4 DEF PgRequest, Delete
  <2>2. R \in SUBSET PairRows BY DEF PairRows, JobSet
  <2>3. Same(j, k) /\ k.pc = "join" /\ k.del = R /\ k.ins = j.ins
    <3>1. "join" \in JobStages BY DEF JobStages
    <3> HIDE DEF R
    <3> QED BY <2>2, <3>1, Deletes
  <2>4. JobOk(k)' BY <2>3, <1>4 DEF JobOk, Same, Carries, People
  <2> QED BY <2>1, <2>3, <2>4, StepServes
<1>5. CASE j.pc = "join"
  <2>1. db' = (db \ j.del) \cup (j.ins \cup {Friend(j.a, j.b)}) /\ Reply(j, "accepted", {})
    BY <1>5 DEF PgRequest, InsertAndCommit
  <2>2. NewRow(Friend(j.a, j.b)) BY <1>0, <1>5, WantedFriends DEF JobOk, People
  <2>3. \A r \in j.ins \cup {Friend(j.a, j.b)} : NewRow(r) BY <2>2, PairRowsOnly
  <2> QED BY <2>1, <2>3, PairRowsOnly, CommitServes DEF JobResults
<1>6. CASE j.pc = "ask"
  <2>1. db' = (db \ j.del) \cup (j.ins \cup {Req(j.a, j.b)}) /\ Reply(j, "sent", {})
    BY <1>6 DEF PgRequest, InsertAndCommit
  <2>2. NewRow(Req(j.a, j.b)) BY <1>0, OtherRows DEF NewRow
  <2>3. \A r \in j.ins \cup {Req(j.a, j.b)} : NewRow(r) BY <2>2, PairRowsOnly
  <2> QED BY <2>1, <2>3, PairRowsOnly, CommitServes DEF JobResults
<1> QED BY <1>1, <1>2, <1>3, <1>4, <1>5, <1>6 DEF PgRequest

LEMMA PgAcceptServes ==
  ASSUME NEW j, Serving(j), j.ep = "accept", backend # "memory", PgAccept(j)
  PROVE  Served(j)
<1> USE DEF Serving
<1>0. <<j.a, j.b>> \in wanted BY DEF ReqOk
<1>1. CASE j.pc = "begin"
  <2>1. CASE Rollback(j, "blocked") BY <2>1, RollsBack DEF JobResults
  <2>2. CASE Goto(j, "take") /\ UNCHANGED db
    <3> DEFINE k == [j EXCEPT !.pc = "take"]
    <3>1. Same(j, k) /\ k.pc = "take" /\ k.del = j.del /\ k.ins = j.ins
      BY GoesTo DEF JobStages
    <3>2. JobOk(k)' BY <3>1, <1>1 DEF JobOk, Same, Carries, People
    <3> QED BY <2>2, <3>1, <3>2, StepServes DEF Goto
  <2> QED BY <1>1, <2>1, <2>2 DEF PgAccept
<1>2. CASE j.pc = "take"
  <2> DEFINE R == {Req(j.b, j.a)} \cap db
             k == [j EXCEPT !.del = R, !.pc = "already"]
  <2>1. jobs' = (jobs \ {j}) \cup {k} /\ UNCHANGED db BY <1>2 DEF PgAccept, Delete
  <2>2. R \in SUBSET PairRows BY DEF PairRows, JobSet
  <2>3. Same(j, k) /\ k.pc = "already" /\ k.del = R /\ k.ins = j.ins
    <3>1. "already" \in JobStages BY DEF JobStages
    <3> HIDE DEF R
    <3> QED BY <2>2, <3>1, Deletes
  <2>4. People(j) /\ R # {} => <<j.b, j.a>> \in wanted BY DEF People, RowsInv
  <2>6. R \subseteq {Friend(j.a, j.b), Req(j.a, j.b), Req(j.b, j.a)} OBVIOUS
  <2> PICK q : q = k OBVIOUS
  <2>7. /\ Same(j, q) /\ q.pc = "already" /\ q.del = R /\ q.ins = j.ins
        /\ jobs' = (jobs \ {j}) \cup {q}
    BY <2>1, <2>3
  <2> HIDE DEF k, R
  <2>5. JobOk(q)' BY <2>7, <2>4, <2>6, <1>2 DEF JobOk, Same, Carries, People
  <2> QED BY <2>1, <2>7, <2>5, StepServes
<1>3. CASE j.pc = "already"
  <2>1. CASE Rollback(j, "notfound") BY <2>1, RollsBack DEF JobResults
  <2>2. CASE Goto(j, "join") /\ UNCHANGED db /\ (j.del # {} \/ Friend(j.a, j.b) \in db)
    <3> DEFINE k == [j EXCEPT !.pc = "join"]
    <3>1. Same(j, k) /\ k.pc = "join" /\ k.del = j.del /\ k.ins = j.ins
      BY GoesTo DEF JobStages
    <3>2. People(j) => <<j.b, j.a>> \in wanted
      BY <2>2, <1>3 DEF JobOk, People, RowsInv, FriendsByBoth
    <3>3. JobOk(k)' BY <3>1, <3>2 DEF JobOk, Same, Carries, People
    <3> QED BY <2>2, <3>1, <3>3, StepServes DEF Goto
  <2> QED BY <1>3, <2>1, <2>2 DEF PgAccept
<1>4. CASE j.pc = "join"
  <2>1. db' = (db \ j.del) \cup (j.ins \cup {Friend(j.a, j.b)}) /\ Reply(j, "ok", {})
    BY <1>4 DEF PgAccept, InsertAndCommit
  <2>2. NewRow(Friend(j.a, j.b)) BY <1>0, <1>4, WantedFriends DEF JobOk, People
  <2>3. \A r \in j.ins \cup {Friend(j.a, j.b)} : NewRow(r) BY <2>2, PairRowsOnly
  <2> QED BY <2>1, <2>3, PairRowsOnly, CommitServes DEF JobResults
<1> QED BY <1>1, <1>2, <1>3, <1>4 DEF PgAccept

(* A DELETE and its COMMIT. *)
LEMMA DeleteServes ==
  ASSUME NEW j, Serving(j), backend # "memory", NEW R, NEW res \in JobResults \ {"yes", "no"},
         \A h \in Groups : Group(h) \notin R, DeleteAndCommit(j, R, res)
  PROVE  Served(j)
<1>1. db' = (db \ (j.del \cup R)) \cup j.ins /\ Reply(j, res, {}) BY DEF DeleteAndCommit
<1> QED BY <1>1, PairRowsOnly, CommitServes

LEMMA PgBlockServes ==
  ASSUME NEW j, Serving(j), j.ep = "block", backend # "memory", PgBlock(j)
  PROVE  Served(j)
<1> USE DEF Serving
<1>1. CASE j.pc = "begin"
  <2> DEFINE R == {Block(j.a, j.b)}
             k == [j EXCEPT !.ins = R, !.pc = "unfriend"]
  <2>1. jobs' = (jobs \ {j}) \cup {k} /\ UNCHANGED db BY <1>1 DEF PgBlock
  <2>2. R \in SUBSET PairRows BY DEF PairRows, JobSet
  <2>3. Same(j, k) /\ k.pc = "unfriend" /\ k.ins = R /\ k.del = j.del
    <3>1. "unfriend" \in JobStages BY DEF JobStages
    <3> HIDE DEF R
    <3> QED BY <2>2, <3>1, Inserts
  <2>4. JobOk(k)' BY <2>3 DEF JobOk, Same, Carries, People
  <2> QED BY <2>1, <2>3, <2>4, StepServes
<1>2. CASE j.pc = "unfriend"
  <2> DEFINE R == {Friend(j.a, j.b)} \cap db
             k == [j EXCEPT !.del = R, !.pc = "unask"]
  <2>1. jobs' = (jobs \ {j}) \cup {k} /\ UNCHANGED db BY <1>2 DEF PgBlock, Delete
  <2>2. R \in SUBSET PairRows BY DEF PairRows, JobSet
  <2>3. Same(j, k) /\ k.pc = "unask" /\ k.del = R /\ k.ins = j.ins
    <3>1. "unask" \in JobStages BY DEF JobStages
    <3> HIDE DEF R
    <3> QED BY <2>2, <3>1, Deletes
  <2>4. JobOk(k)' BY <2>3 DEF JobOk, Same, Carries, People
  <2> QED BY <2>1, <2>3, <2>4, StepServes
<1>3. CASE DeleteAndCommit(j, {Req(j.a, j.b), Req(j.b, j.a)}, "ok")
  BY <1>3, DeleteServes, OtherRows DEF JobResults
<1> QED BY <1>1, <1>2, <1>3 DEF PgBlock

-----------------------------------------------------------------------------
(* The memory directory: between two people who are apart nothing new. *)
LEMMA AddsUnblocked ==
  ASSUME BlockedApart, UNCHANGED backend, NEW f, NEW t, ~IsBlockedEither(f, t), NEW cut,
         NEW new \in {Friend(f, t), Req(f, t)}, db' = (db \ cut) \cup {new}
  PROVE  BlockedApart'
<1> SUFFICES ASSUME backend = "memory", NEW a \in Humans, NEW b \in Humans, Block(a, b) \in db'
             PROVE  {Friend(a, b), Req(a, b), Req(b, a)} \cap db' = {}
  BY DEF BlockedApart
<1>1. Block(a, b) \in db BY OtherRows
<1>2. {Friend(a, b), Req(a, b), Req(b, a)} \cap db = {} BY <1>1 DEF BlockedApart
<1>3. ~(f = a /\ t = b) /\ ~(f = b /\ t = a) BY <1>1 DEF IsBlockedEither
<1>4. Friend(f, t) # Friend(a, b) BY <1>3, FriendRow
<1>5. Req(f, t) # Req(a, b) /\ Req(f, t) # Req(b, a) BY <1>3, OtherRows
<1>6. new \notin {Friend(a, b), Req(a, b), Req(b, a)} BY <1>4, <1>5, OtherRows
<1> QED BY <1>2, <1>6

LEMMA Cuts ==
  ASSUME RowsInv, UNCHANGED <<backend, wanted, invited>>, NEW cut, db' = db \ cut,
         \A h \in Groups : Group(h) \notin cut
  PROVE  RowsInv' /\ GroupsStay
<1>1. BlockedApart' BY DEF RowsInv, BlockedApart
<1>2. \A r \in db' : r \in db \/ NewRow(r) OBVIOUS
<1>3. RowsInv' BY <1>1, <1>2, NewRows
<1> QED BY <1>3 DEF GroupsStay

LEMMA CutServes ==
  ASSUME NEW j, Serving(j), NEW res \in JobResults \ {"yes", "no"}, Reply(j, res, {}),
         NEW cut, db' = db \ cut, \A h \in Groups : Group(h) \notin cut
  PROVE  Served(j)
<1>1. RowsInv' /\ GroupsStay BY Cuts DEF Serving
<1> QED BY <1>1, ReplyServes

LEMMA MemAddServes ==
  ASSUME NEW j, Serving(j), NEW res \in JobResults \ {"yes", "no"}, Reply(j, res, {}),
         ~IsBlockedEither(j.a, j.b), NEW cut, NEW new \in {Friend(j.a, j.b), Req(j.a, j.b)},
         db' = (db \ cut) \cup {new}, \A h \in Groups : Group(h) \notin cut, NewRow(new)
  PROVE  Served(j)
<1>1. BlockedApart' BY AddsUnblocked DEF Serving, RowsInv
<1>2. \A r \in db' : r \in db \/ NewRow(r) OBVIOUS
<1>3. RowsInv' BY <1>1, <1>2, NewRows DEF Serving
<1>4. GroupsStay BY DEF GroupsStay
<1> QED BY <1>3, <1>4, ReplyServes

MemDone(j, mem) == db' = mem.db /\ Reply(j, mem.res, {})

LEMMA MemRequestServes ==
  ASSUME NEW j, Serving(j), j.ep = "request", MemDone(j, MemRequest(j.a, j.b))
  PROVE  Served(j)
<1>0. <<j.a, j.b>> \in wanted BY DEF Serving, ReqOk
<1>1. CASE IsBlockedEither(j.a, j.b)
  <2>1. db' = db /\ Reply(j, "blocked", {}) BY <1>1 DEF MemDone, MemRequest
  <2> QED BY <2>1, RollsBack DEF Rollback, JobResults
<1>2. CASE ~IsBlockedEither(j.a, j.b) /\ Friend(j.a, j.b) \in db
  <2>1. db' = db /\ Reply(j, "already", {}) BY <1>2 DEF MemDone, MemRequest
  <2> QED BY <2>1, RollsBack DEF Rollback, JobResults
<1>3. CASE ~IsBlockedEither(j.a, j.b) /\ Friend(j.a, j.b) \notin db /\ Req(j.b, j.a) \in db
  <2> DEFINE cut == {Req(j.b, j.a), Req(j.a, j.b)}
  <2>1. db' = (db \ cut) \cup {Friend(j.a, j.b)} /\ Reply(j, "accepted", {})
    BY <1>3 DEF MemDone, MemRequest
  <2>2. j.a \in Humans /\ j.b \in Humans => <<j.b, j.a>> \in wanted BY <1>3 DEF Serving, RowsInv
  <2>3. NewRow(Friend(j.a, j.b)) BY <1>0, <2>2, WantedFriends
  <2>4. \A h \in Groups : Group(h) \notin cut BY OtherRows
  <2> QED BY <1>3, <2>1, <2>3, <2>4, MemAddServes DEF JobResults
<1>4. CASE ~IsBlockedEither(j.a, j.b) /\ Friend(j.a, j.b) \notin db /\ Req(j.b, j.a) \notin db
  <2>1. db' = db \cup {Req(j.a, j.b)} /\ Reply(j, "sent", {}) BY <1>4 DEF MemDone, MemRequest
  <2>2. db' = (db \ {}) \cup {Req(j.a, j.b)} BY <2>1
  <2>3. NewRow(Req(j.a, j.b)) BY <1>0, OtherRows DEF NewRow
  <2> QED BY <1>4, <2>1, <2>2, <2>3, MemAddServes DEF JobResults
<1> QED BY <1>1, <1>2, <1>3, <1>4

LEMMA MemAcceptServes ==
  ASSUME NEW j, Serving(j), j.ep = "accept", MemDone(j, MemAccept(j.a, j.b))
  PROVE  Served(j)
<1>0. <<j.a, j.b>> \in wanted BY DEF Serving, ReqOk
<1>1. CASE IsBlockedEither(j.a, j.b)
  <2>1. db' = db /\ Reply(j, "blocked", {}) BY <1>1 DEF MemDone, MemAccept
  <2> QED BY <2>1, RollsBack DEF Rollback, JobResults
<1>2. CASE ~IsBlockedEither(j.a, j.b) /\ {Req(j.b, j.a), Friend(j.a, j.b)} \cap db = {}
  <2>1. db' = db /\ Reply(j, "notfound", {}) BY <1>2 DEF MemDone, MemAccept
  <2> QED BY <2>1, RollsBack DEF Rollback, JobResults
<1>3. CASE ~IsBlockedEither(j.a, j.b) /\ {Req(j.b, j.a), Friend(j.a, j.b)} \cap db # {}
  <2>1. db' = (db \ {Req(j.b, j.a)}) \cup {Friend(j.a, j.b)} /\ Reply(j, "ok", {})
    BY <1>3 DEF MemDone, MemAccept
  <2>2. j.a \in Humans /\ j.b \in Humans /\ j.a # j.b => <<j.b, j.a>> \in wanted
    BY <1>3 DEF Serving, RowsInv, FriendsByBoth
  <2>3. NewRow(Friend(j.a, j.b)) BY <1>0, <2>2, WantedFriends
  <2>4. \A h \in Groups : Group(h) \notin {Req(j.b, j.a)} BY OtherRows
  <2> QED BY <1>3, <2>1, <2>3, <2>4, MemAddServes DEF JobResults
<1> QED BY <1>1, <1>2, <1>3

LEMMA MemBlockServes ==
  ASSUME NEW j, Serving(j), MemDone(j, MemBlock(j.a, j.b))
  PROVE  Served(j)
<1> DEFINE cut == {Friend(j.a, j.b), Req(j.a, j.b), Req(j.b, j.a)}
<1>1. db' = (db \ cut) \cup {Block(j.a, j.b)} /\ Reply(j, "ok", {}) BY DEF MemDone, MemBlock
<1>2. NewRow(Block(j.a, j.b)) BY OtherRows DEF NewRow
<1>3. BlockedApart'
  <2> SUFFICES ASSUME backend = "memory", NEW a \in Humans, NEW b \in Humans, Block(a, b) \in db'
               PROVE  {Friend(a, b), Req(a, b), Req(b, a)} \cap db' = {}
    BY DEF BlockedApart, Serving
  <2>0. Block(j.a, j.b) \notin {Friend(a, b), Req(a, b), Req(b, a)} BY OtherRows
  <2>1. CASE Block(a, b) \in db
    <3>1. {Friend(a, b), Req(a, b), Req(b, a)} \cap db = {}
      BY <2>1 DEF Serving, RowsInv, BlockedApart
    <3> QED BY <1>1, <2>0, <3>1
  <2>2. CASE Block(a, b) = Block(j.a, j.b)
    <3>1. a = j.a /\ b = j.b BY <2>2, OtherRows
    <3> QED BY <1>1, <2>0, <3>1
  <2> QED BY <1>1, <2>1, <2>2
<1>4. \A r \in db' : r \in db \/ NewRow(r) BY <1>1, <1>2
<1>5. RowsInv' BY <1>3, <1>4, NewRows DEF Serving
<1>6. \A h \in Groups : Group(h) \notin cut BY OtherRows
<1>7. GroupsStay BY <1>1, <1>6 DEF GroupsStay
<1> QED BY <1>1, <1>5, <1>7, ReplyServes DEF JobResults

-----------------------------------------------------------------------------
(* The endpoints. *)
LEMMA Refused ==
  ASSUME NEW j, Serving(j), RejectBotSocial(j) # "none", Rollback(j, RejectBotSocial(j))
  PROVE  Served(j)
<1>1. RejectBotSocial(j) \in JobResults \ {"yes", "no"} BY DEF RejectBotSocial, JobResults
<1> QED BY <1>1, RollsBack

LEMMA PairEndpoints ==
  ASSUME NEW j, Serving(j),
         \/ FriendRequest(j) \/ FriendAccept(j) \/ FriendReject(j) \/ FriendRemove(j)
         \/ BlockAdd(j) \/ BlockRemove(j)
  PROVE  Served(j)
<1>1. CASE FriendRequest(j)
  <2>1. MemDone(j, MemRequest(j.a, j.b)) => Served(j) BY <1>1, MemRequestServes DEF FriendRequest
  <2>2. backend # "memory" /\ PgRequest(j) => Served(j) BY <1>1, PgRequestServes DEF FriendRequest
  <2> QED BY <1>1, <2>1, <2>2, Refused DEF FriendRequest, PairOp, MemDone
<1>2. CASE FriendAccept(j)
  <2>1. MemDone(j, MemAccept(j.a, j.b)) => Served(j) BY <1>2, MemAcceptServes DEF FriendAccept
  <2>2. backend # "memory" /\ PgAccept(j) => Served(j) BY <1>2, PgAcceptServes DEF FriendAccept
  <2> QED BY <1>2, <2>1, <2>2, Refused DEF FriendAccept, PairOp, MemDone
<1>3. CASE FriendReject(j)
  <2>1. \A h \in Groups : Group(h) \notin {Req(j.b, j.a)} BY OtherRows
  <2>2. backend # "memory" /\ PgReject(j) => Served(j)
    BY <2>1, DeleteServes DEF PgReject, JobResults
  <2>3. MemDone(j, MemReject(j.a, j.b)) => Served(j)
    <3> SUFFICES ASSUME MemDone(j, MemReject(j.a, j.b)) PROVE Served(j) OBVIOUS
    <3>1. db' = db \ {Req(j.b, j.a)} /\ Reply(j, "ok", {}) BY DEF MemDone, MemReject
    <3> QED BY <3>1, <2>1, CutServes DEF JobResults
  <2> QED BY <1>3, <2>2, <2>3, Refused DEF FriendReject, PairOp, MemDone
<1>4. CASE FriendRemove(j)
  <2>1. \A h \in Groups : Group(h) \notin {Friend(j.a, j.b)} BY OtherRows
  <2>2. backend # "memory" /\ PgRemove(j) => Served(j)
    BY <2>1, DeleteServes DEF PgRemove, JobResults
  <2>3. MemDone(j, MemRemove(j.a, j.b)) => Served(j)
    <3> SUFFICES ASSUME MemDone(j, MemRemove(j.a, j.b)) PROVE Served(j) OBVIOUS
    <3>1. db' = db \ {Friend(j.a, j.b)} /\ Reply(j, "ok", {}) BY DEF MemDone, MemRemove
    <3> QED BY <3>1, <2>1, CutServes DEF JobResults
  <2> QED BY <1>4, <2>2, <2>3, Refused DEF FriendRemove, PairOp, MemDone
<1>5. CASE BlockAdd(j)
  <2>1. MemDone(j, MemBlock(j.a, j.b)) => Served(j) BY <1>5, MemBlockServes DEF BlockAdd
  <2>2. backend # "memory" /\ PgBlock(j) => Served(j) BY <1>5, PgBlockServes DEF BlockAdd
  <2> QED BY <1>5, <2>1, <2>2, Refused DEF BlockAdd, PairOp, MemDone
<1>6. CASE BlockRemove(j)
  <2>1. \A h \in Groups : Group(h) \notin {Block(j.a, j.b)} BY OtherRows
  <2>2. backend # "memory" /\ PgUnblock(j) => Served(j)
    BY <2>1, DeleteServes DEF PgUnblock, JobResults
  <2>3. MemDone(j, MemUnblock(j.a, j.b)) => Served(j)
    <3> SUFFICES ASSUME MemDone(j, MemUnblock(j.a, j.b)) PROVE Served(j) OBVIOUS
    <3>1. db' = db \ {Block(j.a, j.b)} /\ Reply(j, "ok", {}) BY DEF MemDone, MemUnblock
    <3> QED BY <3>1, <2>1, CutServes DEF JobResults
  <2> QED BY <1>6, <2>2, <2>3, Refused DEF BlockRemove, PairOp, MemDone
<1> QED BY <1>1, <1>2, <1>3, <1>4, <1>5, <1>6

LEMMA ReadEndpoints ==
  ASSUME NEW j, Serving(j),
         \/ FriendList(j) \/ FriendIncoming(j) \/ BlockList(j) \/ FriendCheck(j) \/ BlockCheck(j)
         \/ GroupDetail(j) \/ GroupMembers(j)
  PROVE  Served(j)
<1>0. ASSUME NEW res \in JobResults, NEW rows \in SUBSET Accounts, Answer(j, res, rows),
             res \in {"yes", "no"} =>
               /\ j.ep = "is_friend" => ((res = "yes") <=> IsFriend(j.a, j.b))
               /\ j.ep = "is_blocked" => ((res = "yes") <=> IsBlockedEither(j.a, j.b))
      PROVE  Served(j)
  <2>1. Reply(j, res, rows) /\ db' = db BY <1>0 DEF Answer
  <2>2. RowsInv' /\ GroupsStay BY <2>1, Unmoved DEF Serving
  <2> QED BY <1>0, <2>1, <2>2, ReplyServes
<1>1. CASE FriendList(j)
  <2>1. ListFriends(j.a) \in SUBSET Accounts BY DEF ListFriends
  <2> QED BY <1>0, <1>1, <2>1 DEF FriendList, JobResults
<1>2. CASE FriendIncoming(j)
  <2>1. Incoming(j.a) \in SUBSET Accounts BY DEF Incoming
  <2> QED BY <1>0, <1>2, <2>1 DEF FriendIncoming, JobResults
<1>3. CASE BlockList(j)
  <2>1. ListBlocked(j.a) \in SUBSET Accounts BY DEF ListBlocked
  <2> QED BY <1>0, <1>3, <2>1 DEF BlockList, JobResults
<1>4. CASE FriendCheck(j)
  <2> DEFINE res == IF IsFriend(j.a, j.b) THEN "yes" ELSE "no"
  <2>1. res \in JobResults /\ ((res = "yes") <=> IsFriend(j.a, j.b)) BY DEF JobResults
  <2>2. j.ep = "is_friend" /\ Answer(j, res, {}) BY <1>4 DEF FriendCheck
  <2> HIDE DEF res
  <2> QED BY <1>0, <2>1, <2>2
<1>5. CASE BlockCheck(j)
  <2> DEFINE res == IF IsBlockedEither(j.a, j.b) THEN "yes" ELSE "no"
  <2>1. res \in JobResults /\ ((res = "yes") <=> IsBlockedEither(j.a, j.b)) BY DEF JobResults
  <2>2. j.ep = "is_blocked" /\ Answer(j, res, {}) BY <1>5 DEF BlockCheck
  <2> HIDE DEF res
  <2> QED BY <1>0, <2>1, <2>2
<1>6. CASE GroupDetail(j) \/ GroupMembers(j)
  <2> DEFINE res == IF Group(j.g) \in db THEN "ok" ELSE "notfound"
  <2>1. res \in JobResults \ {"yes", "no"} BY DEF JobResults
  <2>2. Answer(j, res, Members(j.g)) BY <1>6 DEF GroupDetail, GroupMembers
  <2>3. Members(j.g) \in SUBSET Accounts BY DEF Members
  <2> HIDE DEF res
  <2> QED BY <1>0, <2>1, <2>2, <2>3
<1> QED BY <1>1, <1>2, <1>3, <1>4, <1>5, <1>6

(* A group, or a member, comes. *)
LEMMA GroupRows ==
  ASSUME NEW j, Serving(j), NEW res \in JobResults \ {"yes", "no"}, Reply(j, res, {}),
         NEW new, db' = db \cup new, \A r \in new : NewRow(r),
         \A r \in new : \A x, y : r # Req(x, y) /\ r # Friend(x, y) /\ r # Block(x, y)
  PROVE  Served(j)
<1>1. BlockedApart'
  <2> SUFFICES ASSUME backend = "memory", NEW a \in Humans, NEW b \in Humans, Block(a, b) \in db'
               PROVE  {Friend(a, b), Req(a, b), Req(b, a)} \cap db' = {}
    BY DEF BlockedApart, Serving
  <2>1. Block(a, b) \in db OBVIOUS
  <2>2. {Friend(a, b), Req(a, b), Req(b, a)} \cap db = {}
    BY <2>1 DEF Serving, RowsInv, BlockedApart
  <2> QED BY <2>2
<1>2. \A r \in db' : r \in db \/ NewRow(r) OBVIOUS
<1>3. RowsInv' BY <1>1, <1>2, NewRows DEF Serving
<1>4. GroupsStay BY DEF GroupsStay
<1> QED BY <1>3, <1>4, ReplyServes

LEMMA NewMember ==
  ASSUME NEW g, NEW a, <<g, a>> \in invited
  PROVE  /\ NewRow(Member(g, a))
         /\ \A x, y : /\ Member(g, a) # Req(x, y) /\ Member(g, a) # Friend(x, y)
                      /\ Member(g, a) # Block(x, y)
<1>1. \A x, y :
        Member(g, a) # Req(x, y) /\ Member(g, a) # Friend(x, y) /\ Member(g, a) # Block(x, y)
  BY OtherRows
<1>2. \A h \in Groups, x \in Accounts : Member(g, a) = Member(h, x) => <<h, x>> \in invited
  BY OtherRows
<1> QED BY <1>1, <1>2 DEF NewRow

LEMMA GroupEndpoints ==
  ASSUME NEW j, Serving(j), GroupCreate(j) \/ GroupJoin(j) \/ GroupQuit(j)
  PROVE  Served(j)
<1>1. CASE GroupCreate(j)
  <2>1. PICK g \in Groups :
          /\ Group(g) \notin db
          /\ db' = db \cup {Group(g)} \cup {Member(g, a) : a \in NormalizeMembers(j.a, {j.b})}
    BY <1>1 DEF GroupCreate, MemGroupCreate, PgGroupCreate
  <2> DEFINE new == {Group(g)} \cup {Member(g, a) : a \in {j.a, j.b}}
  <2>2. db' = db \cup new BY <2>1 DEF NormalizeMembers
  <2>3. <<g, j.a>> \in invited /\ <<g, j.b>> \in invited
    BY <1>1, <2>1 DEF GroupCreate, Serving, ReqOk
  <2>4. /\ NewRow(Group(g))
        /\ \A x, y : Group(g) # Req(x, y) /\ Group(g) # Friend(x, y) /\ Group(g) # Block(x, y)
    <3>1. \A x, y : Group(g) # Req(x, y) /\ Group(g) # Friend(x, y) /\ Group(g) # Block(x, y)
                     /\ Group(g) # Member(x, y)
      BY OtherRows
    <3> QED BY <3>1 DEF NewRow
  <2>5. \A r \in new : r = Group(g) \/ r = Member(g, j.a) \/ r = Member(g, j.b) OBVIOUS
  <2>6. \A r \in new :
          NewRow(r) /\ \A x, y : r # Req(x, y) /\ r # Friend(x, y) /\ r # Block(x, y)
    <3> HIDE DEF new
    <3> QED BY <2>3, <2>4, <2>5, NewMember
  <2>7. Reply(j, "ok", {}) BY <1>1 DEF GroupCreate
  <2> HIDE DEF new
  <2> QED BY <2>2, <2>6, <2>7, GroupRows DEF JobResults
<1>2. CASE GroupJoin(j)
  <2>0. <<j.g, j.b>> \in invited BY <1>2 DEF GroupJoin, Serving, ReqOk
  <2>1. CASE db' = db \cup {Member(j.g, j.b)} /\ Reply(j, "ok", {})
    <3>1. \A r \in {Member(j.g, j.b)} :
            NewRow(r) /\ \A x, y : r # Req(x, y) /\ r # Friend(x, y) /\ r # Block(x, y)
      BY <2>0, NewMember
    <3>2. "ok" \in JobResults \ {"yes", "no"} BY DEF JobResults
    <3> PICK new : new = {Member(j.g, j.b)} OBVIOUS
    <3> QED BY <2>1, <3>1, <3>2, GroupRows
  <2>2. CASE Rollback(j, "notfound") BY <2>2, RollsBack DEF JobResults
  <2>3. CASE backend # "memory" /\ Goto(j, "join") /\ UNCHANGED db
    <3> DEFINE k == [j EXCEPT !.pc = "join"]
    <3>1. j \in JobSet /\ "join" \in JobStages BY DEF Serving, JobStages
    <3>2. Same(j, k) /\ k.pc = "join" /\ k.del = j.del /\ k.ins = j.ins BY <3>1, GoesTo
    <3>3. j.ep = "join" BY <1>2 DEF GroupJoin
    <3>4. JobOk(k)' BY <3>2, <3>3, <2>3 DEF JobOk, Same, Carries, People, Serving
    <3> QED BY <2>3, <3>2, <3>4, StepServes DEF Goto
  <2>4. CASE backend # "memory" /\ InsertAndCommit(j, Member(j.g, j.b), "ok")
    <3>1. db' = (db \ j.del) \cup (j.ins \cup {Member(j.g, j.b)}) /\ Reply(j, "ok", {})
      BY <2>4 DEF InsertAndCommit
    <3>2. NewRow(Member(j.g, j.b)) BY <2>0, NewMember
    <3>3. \A r \in j.ins \cup {Member(j.g, j.b)} : NewRow(r) BY <3>2, PairRowsOnly
    <3> QED BY <2>4, <3>1, <3>3, PairRowsOnly, CommitServes DEF JobResults
  <2> QED BY <1>2, <2>1, <2>2, <2>3, <2>4 DEF GroupJoin, MemGroupJoin, PgGroupJoin
<1>3. CASE GroupQuit(j)
  <2>0. \A h \in Groups : Group(h) \notin {Member(j.g, j.a)} BY OtherRows
  <2>1. CASE db' = db \ {Member(j.g, j.a)} /\ Reply(j, "ok", {})
    BY <2>0, <2>1, CutServes DEF JobResults
  <2>2. CASE Rollback(j, "notfound") BY <2>2, RollsBack DEF JobResults
  <2>3. CASE backend # "memory" /\ Goto(j, "leave") /\ UNCHANGED db
    <3> DEFINE k == [j EXCEPT !.pc = "leave"]
    <3>1. j \in JobSet /\ "leave" \in JobStages BY DEF Serving, JobStages
    <3>2. Same(j, k) /\ k.pc = "leave" /\ k.del = j.del /\ k.ins = j.ins BY <3>1, GoesTo
    <3>3. j.ep = "quit" BY <1>3 DEF GroupQuit
    <3>4. JobOk(k)' BY <3>2, <3>3, <2>3 DEF JobOk, Same, Carries, People, Serving
    <3> QED BY <2>3, <3>2, <3>4, StepServes DEF Goto
  <2>4. CASE backend # "memory" /\ DeleteAndCommit(j, {Member(j.g, j.a)}, "ok")
    BY <2>0, <2>4, DeleteServes DEF JobResults
  <2> QED BY <1>3, <2>1, <2>2, <2>3, <2>4 DEF GroupQuit, MemGroupQuit, PgGroupQuit
<1> QED BY <1>1, <1>2, <1>3

LEMMA Serves ==
  ASSUME NEW j, Serving(j), ServeJob(j) \/ BackendFails(j)
  PROVE  Served(j)
<1>1. CASE InsertUser(j)
  <2>1. \/ Rollback(j, "ok")
        \/ Goto(j, "store") /\ UNCHANGED <<backend, db>>
    BY <1>1 DEF InsertUser, Looks, Store, Duplicate, Rollback
  <2>2. CASE Rollback(j, "ok") BY <2>2, RollsBack DEF JobResults
  <2>3. CASE Goto(j, "store") /\ UNCHANGED <<backend, db>>
    <3> DEFINE k == [j EXCEPT !.pc = "store"]
    <3>1. j \in JobSet /\ "store" \in JobStages BY DEF Serving, JobStages
    <3>2. Same(j, k) /\ k.pc = "store" /\ k.del = j.del /\ k.ins = j.ins BY <3>1, GoesTo
    <3>3. j.ep = "insert" BY <1>1 DEF InsertUser
    <3>4. JobOk(k)' BY <3>2, <3>3, <2>3 DEF JobOk, Same, Carries, People, Serving
    <3> QED BY <2>3, <3>2, <3>4, StepServes DEF Goto
  <2> QED BY <2>1, <2>2, <2>3
<1>2. CASE BackendFails(j)
  <2>1. Rollback(j, "error") \/ Rollback(j, "unavailable") BY <1>2 DEF BackendFails, Rollback
  <2> QED BY <2>1, RollsBack DEF JobResults
<1> QED BY <1>1, <1>2, PairEndpoints, ReadEndpoints, GroupEndpoints DEF ServeJob

-----------------------------------------------------------------------------
(* The calls. *)
LEMMA CallShapes ==
  /\ NoReq \in ReqSet /\ NoCall \in CallSet /\ NoCall.st = "off" /\ Resting \in TaskSet
  /\ Resting.op = "idle" /\ Resting.at = "none"
  /\ \A r \in ReqSet : Calling(r) \in CallSet /\ Calling(r).st = "pick" /\ Calling(r).req = r
  /\ \A c \in Tasks : \A res \in JobResults, rows \in SUBSET Accounts :
       calling \in [Tasks -> CallSet] =>
         LET e == Ended(c, res, rows) IN
           e \in CallSet /\ e.st = "end" /\ e.req = calling[c].req /\ e.res = res
<1>1. NoReq \in ReqSet BY DEF NoReq, ReqSet, Names, GroupIds, Endpoints
<1>2. NoCall \in CallSet /\ NoCall.st = "off" BY <1>1 DEF NoCall, CallSet, JobResults
<1>3. Resting \in TaskSet /\ Resting.op = "idle" /\ Resting.at = "none"
  BY DEF Resting, TaskSet, TaskOps, Endpoints, Names, GroupIds
<1>4. ASSUME NEW r \in ReqSet
      PROVE  Calling(r) \in CallSet /\ Calling(r).st = "pick" /\ Calling(r).req = r
  BY DEF Calling, NoCall, CallSet, JobResults
<1>5. ASSUME NEW c \in Tasks, NEW res \in JobResults, NEW rows \in SUBSET Accounts,
             calling \in [Tasks -> CallSet]
      PROVE  LET e == Ended(c, res, rows) IN
               e \in CallSet /\ e.st = "end" /\ e.req = calling[c].req /\ e.res = res
  <2>1. calling[c].req \in ReqSet BY <1>5 DEF CallSet
  <2> QED BY <1>5, <2>1 DEF Ended, NoCall, CallSet
<1> QED BY <1>1, <1>2, <1>3, <1>4, <1>5

(* cs as the calls: whoever may win a compare-exchange saw a window over. *)
Gated(cs) ==
  \A c \in Tasks : cs[c].st = "cas" /\ ~cs[c].lost =>
    cs[c].inst \in Instances /\ gate[cs[c].inst] = 0

LEMMA Stored ==
  ASSUME NEW cs \in [Tasks -> CallSet], NEW i
  PROVE  /\ GateStored(cs, i) \in [Tasks -> CallSet]
         /\ \A d \in Tasks :
              LET e == GateStored(cs, i)[d] IN
                /\ e.st = cs[d].st /\ e.req = cs[d].req /\ e.res = cs[d].res
                /\ e.inst = cs[d].inst
                /\ ~e.lost => ~cs[d].lost /\ ~(cs[d].st = "cas" /\ cs[d].inst = i)
<1>1. ASSUME NEW d \in Tasks
      PROVE  LET e == [cs[d] EXCEPT !.lost = TRUE] IN
               /\ e \in CallSet /\ e.st = cs[d].st /\ e.req = cs[d].req /\ e.res = cs[d].res
               /\ e.inst = cs[d].inst /\ e.lost
  <2>1. cs[d] \in CallSet OBVIOUS
  <2> QED BY <2>1 DEF CallSet
<1>2. ASSUME NEW d \in Tasks
      PROVE  LET e == GateStored(cs, i)[d] IN
               /\ e \in CallSet /\ e.st = cs[d].st /\ e.req = cs[d].req /\ e.res = cs[d].res
               /\ e.inst = cs[d].inst
               /\ ~e.lost => ~cs[d].lost /\ ~(cs[d].st = "cas" /\ cs[d].inst = i)
  <2>1. CASE cs[d].st = "cas" /\ cs[d].inst = i
    <3>1. GateStored(cs, i)[d] = [cs[d] EXCEPT !.lost = TRUE] BY <2>1 DEF GateStored
    <3> QED BY <1>1, <3>1
  <2>2. CASE ~(cs[d].st = "cas" /\ cs[d].inst = i)
    <3>1. GateStored(cs, i)[d] = cs[d] BY <2>2 DEF GateStored
    <3> QED BY <2>2, <3>1
  <2> QED BY <2>1, <2>2
<1>3. GateStored(cs, i) = [d \in Tasks |-> GateStored(cs, i)[d]] BY DEF GateStored
<1>4. \A d \in Tasks : GateStored(cs, i)[d] \in CallSet BY <1>2
<1>5. GateStored(cs, i) \in [Tasks -> CallSet] BY <1>3, <1>4
<1> QED BY <1>2, <1>5

LEMMA Retried ==
  ASSUME calling \in [Tasks -> CallSet], NEW c \in Tasks, NEW again
  PROVE  /\ Retry(c, again) \in [Tasks -> CallSet]
         /\ \A d \in Tasks \ {c} : Retry(c, again)[d] = calling[d]
         /\ Retry(c, again)[c].st \in {"pick", "end"} /\ Retry(c, again)[c].req = calling[c].req
         /\ Retry(c, again)[c].st = "end" => Retry(c, again)[c].res = "error"
<1>1. CASE again /\ calling[c].att + 1 < RETRIES
  <2> DEFINE e == [calling[c] EXCEPT !.st = "pick", !.att = calling[c].att + 1, !.inst = "none"]
  <2>0. calling[c] \in CallSet OBVIOUS
  <2>3. calling[c].att + 1 \in Nat BY <2>0 DEF CallSet
  <2>1. e \in CallSet /\ e.st = "pick" /\ e.req = calling[c].req
    <3>1. ASSUME NEW n \in Nat
          PROVE  LET q == [calling[c] EXCEPT !.st = "pick", !.att = n, !.inst = "none"] IN
                   q \in CallSet /\ q.st = "pick" /\ q.req = calling[c].req
      BY <2>0 DEF CallSet
    <3> QED BY <2>3, <3>1
  <2>2. Retry(c, again) = [calling EXCEPT ![c] = e] BY <1>1 DEF Retry
  <2> QED BY <2>1, <2>2
<1>2. CASE ~(again /\ calling[c].att + 1 < RETRIES)
  <2> DEFINE e == Ended(c, "error", {})
  <2>1. e \in CallSet /\ e.st = "end" /\ e.req = calling[c].req /\ e.res = "error"
    BY CallShapes DEF JobResults
  <2>2. Retry(c, again) = [calling EXCEPT ![c] = e] BY <1>2 DEF Retry
  <2> QED BY <2>1, <2>2
<1> QED BY <1>1, <1>2

LEMMA FailureReported ==
  ASSUME GateInv, NEW i, NEW cs \in [Tasks -> CallSet], Gated(cs), ReportFailure(i, cs),
         UNCHANGED <<up, clients>>
  PROVE  /\ calling' \in [Tasks -> CallSet] /\ GateInv'
         /\ \A d \in Tasks : /\ calling'[d].st = cs[d].st /\ calling'[d].req = cs[d].req
                                /\ calling'[d].res = cs[d].res
<1> DEFINE n == IF fails[i] < CIRCUIT_FAILS THEN fails[i] + 1 ELSE fails[i]
<1>1. CASE calling' = cs /\ UNCHANGED <<gate, probes>>
  BY <1>1 DEF GateInv, Gated
<1>2. CASE /\ i \in clients /\ gate' = [gate EXCEPT ![i] = HALF_OPEN]
           /\ calling' = GateStored(cs, i) /\ UNCHANGED probes
  <2>0. i \in Instances /\ HALF_OPEN \in Nat \ {0} BY <1>2, PoolAssumption DEF GateInv
  <2>1. /\ gate' \in [Instances -> Nat] /\ gate'[i] > 0
        /\ \A k \in Instances \ {i} : gate'[k] = gate[k]
    BY <1>2, <2>0 DEF GateInv
  <2>2. \A d \in Tasks : calling'[d].st = "cas" /\ ~calling'[d].lost =>
          calling'[d].inst \in Instances /\ gate'[calling'[d].inst] = 0
    BY <1>2, <2>1, Stored DEF Gated
  <2>3. \A k \in Instances : probes'[k] <= 1 /\ (gate'[k] = 0 => probes'[k] = 0)
    BY <1>2, <2>1 DEF GateInv
  <2>4. probes' \in [Instances -> Nat] /\ clients' \subseteq Instances /\ up' \subseteq Instances
    BY <1>2 DEF GateInv
  <2>5. GateInv' BY <2>1, <2>2, <2>3, <2>4 DEF GateInv
  <2> QED BY <1>2, <2>5, Stored
<1> QED BY <1>1, <1>2 DEF ReportFailure

-----------------------------------------------------------------------------
(* A step of the pool: an attempt goes out, ends or is given up. *)
From(j, k) == /\ Carries(j, k) /\ j.by = k.by /\ (j.live => k.live)
              /\ j.pc = k.pc /\ j.del = k.del /\ j.ins = k.ins /\ j.res = k.res
NewlySent(j) == /\ j.by \in Tasks /\ Carries(j, calling[j.by].req) /\ calling[j.by].st # "off"
            /\ j.pc = "begin" /\ j.del = {} /\ j.ins = {}

CallMoves(c) ==
  /\ calling'[c].st = "off" <=> calling[c].st = "off"
  /\ calling'[c].req = calling[c].req
  /\ calling'[c].st = "end" /\ calling'[c].res \in {"yes", "no"} =>
       \/ calling[c].st = "end" /\ calling[c].res = calling'[c].res
       \/ \E j \in jobs : j.by = c /\ j.live /\ j.pc = "done" /\ j.res = calling'[c].res

PoolStep ==
  /\ calling' \in [Tasks -> CallSet] /\ jobs' \subseteq JobSet /\ GateInv' /\ LiveJobs'
  /\ \A c \in Tasks : CallMoves(c)
  /\ \A j \in jobs' : NewlySent(j) \/ \E k \in jobs : From(j, k)

ChatStill == UNCHANGED <<backend, db, wanted, invited, inserts, task, entries, inflight, issued,
                         overlap>>

LEMMA SameTruth ==
  ASSUME UNCHANGED db, NEW k
  PROVE  Truth(k)' = Truth(k)
BY DEF Truth, IsBlockedEither

LEMMA PoolStepKeeps ==
  ASSUME DirInv, PoolStep, ChatStill
  PROVE  DirInv'
<1> USE DEF ChatStill
<1>1. DirTypes' BY DEF DirInv, DirTypes, PoolStep
<1>2. GateInv' /\ LiveJobs' BY DEF PoolStep
<1>3. AskInv'
  <2>1. \A c \in Tasks : Fetching(c)' = Fetching(c) BY DEF Fetching
  <2>2. SingleFlight' BY DEF DirInv, AskInv, SingleFlight, Fetching, KeyOf
  <2>3. \A c \in Tasks : KeyOf(task[c])' = KeyOf(task[c]) BY DEF KeyOf
  <2> QED BY <2>1, <2>2, <2>3 DEF DirInv, AskInv, PoolStep, CallMoves
<1>4. AnswerInv'
  <2>1. CacheCoherent' BY SameTruth DEF DirInv, AnswerInv, CacheCoherent
  <2>2. \A c \in Tasks : Fetching(c)' = Fetching(c) BY DEF Fetching
  <2>3. \A c \in Tasks : KeyOf(task[c])' = KeyOf(task[c]) BY DEF KeyOf
  <2>4. \A c \in Tasks : Truth(KeyOf(task[c]))' = Truth(KeyOf(task[c]))
    BY DEF Truth, IsBlockedEither, KeyOf
  <2>5. ASSUME NEW c \in Tasks, Fetching(c), KeyOf(task[c]) \notin overlap,
               calling'[c].st = "end", calling'[c].res \in {"yes", "no"}
        PROVE  (calling'[c].res = "yes") <=> Truth(KeyOf(task[c]))
    BY <2>5 DEF DirInv, AnswerInv, PoolStep, CallMoves
  <2>6. ASSUME NEW c \in Tasks, Fetching(c), KeyOf(task[c]) \notin overlap,
               NEW j \in jobs', j.by = c, j.live, j.pc = "done", j.res \in {"yes", "no"}
        PROVE  (j.res = "yes") <=> Truth(KeyOf(task[c]))
    <3>1. PICK k \in jobs : From(j, k) BY <2>6 DEF PoolStep, NewlySent
    <3> QED BY <2>6, <3>1 DEF DirInv, AnswerInv, From
  <2> QED BY <2>1, <2>2, <2>3, <2>4, <2>5, <2>6 DEF AnswerInv
<1>5. WantedInv'
  <2>1. RowsInv' BY Unmoved DEF DirInv, WantedInv
  <2>2. \A r : ReqOk(r)' = ReqOk(r) BY DEF ReqOk
  <2>3. ASSUME NEW c \in Tasks, calling'[c].st # "off" PROVE ReqOk(calling[c].req)'
    <3>1. ReqOk(calling[c].req) /\ calling'[c].req = calling[c].req
      BY <2>3 DEF DirInv, WantedInv, PoolStep, CallMoves
    <3> QED BY <3>1 DEF ReqOk
  <2>4. ASSUME NEW j \in jobs' PROVE ReqOk(j)' /\ JobOk(j)'
    <3>1. CASE NewlySent(j)
      <4>1. ReqOk(calling[j.by].req) BY <3>1 DEF DirInv, WantedInv, NewlySent
      <4>2. ReqOk(j)' BY <4>1, <2>2, <3>1 DEF NewlySent, ReqOk, Carries
      <4> QED BY <4>2, <3>1 DEF NewlySent, JobOk
    <3>2. ASSUME NEW k \in jobs, From(j, k) PROVE ReqOk(j)' /\ JobOk(j)'
      <4>1. ReqOk(k) /\ JobOk(k) BY DEF DirInv, WantedInv
      <4>2. ReqOk(j)' BY <4>1, <3>2 DEF From, ReqOk, Carries
      <4>3. JobOk(j)' BY <4>1, <3>2 DEF From, JobOk, Carries, People
      <4> QED BY <4>2, <4>3
    <3> QED BY <3>1, <3>2 DEF PoolStep
  <2>5. InsertsInv' BY DEF DirInv, WantedInv, InsertsInv, InsertOnce
  <2> QED BY <2>1, <2>3, <2>4, <2>5 DEF WantedInv
<1> QED BY <1>1, <1>2, <1>3, <1>4, <1>5 DEF DirInv

LEMMA JobSent ==
  ASSUME DirTypes, NEW c \in Tasks, NEW i \in Instances
  PROVE  LET j == NewJob(c, calling[c].req, i) IN
           /\ j \in JobSet /\ j.by = c /\ j.live /\ Carries(j, calling[c].req)
           /\ j.pc = "begin" /\ j.del = {} /\ j.ins = {}
<1>1. calling[c].req \in ReqSet BY DEF DirTypes, CallSet
<1> QED BY <1>1 DEF NewJob, JobSet, ReqSet, JobStages, JobResults, Carries

LEMMA Orphans ==
  ASSUME DirTypes, mishaps \in Nat, NEW c \in Tasks
  PROVE  /\ Orphaned(c) \subseteq JobSet
         /\ \A j \in Orphaned(c) : /\ \E k \in jobs : From(j, k)
                                   /\ j.live => j \in jobs /\ j.by # c
<1>0. ASSUME NEW k \in JobSet, NEW n \in Nat
      PROVE  LET j == [k EXCEPT !.live = FALSE, !.n = n] IN j \in JobSet /\ From(j, k) /\ ~j.live
  BY DEF JobSet, From, Carries
<1>1. ASSUME NEW k \in JobSet
      PROVE  LET j == [k EXCEPT !.live = FALSE, !.n = mishaps + 1] IN
               j \in JobSet /\ From(j, k) /\ ~j.live
  <2>1. mishaps + 1 \in Nat OBVIOUS
  <2> QED BY <1>0, <2>1
<1>2. \A k \in jobs : From(k, k) BY DEF From, Carries
<1>3. ASSUME NEW j \in Orphaned(c)
      PROVE  j \in JobSet /\ (\E k \in jobs : From(j, k)) /\ (j.live => j \in jobs /\ j.by # c)
  <2>1. CASE j \in jobs \ Waiting(c) BY <2>1, <1>2 DEF Waiting, DirTypes
  <2>2. CASE \E k \in Waiting(c) : j = [k EXCEPT !.live = FALSE, !.n = mishaps + 1]
    <3>1. PICK k \in jobs : j = [k EXCEPT !.live = FALSE, !.n = mishaps + 1] BY <2>2 DEF Waiting
    <3>2. k \in JobSet BY DEF DirTypes
    <3> QED BY <1>1, <3>1, <3>2
  <2> QED BY <2>1, <2>2 DEF Orphaned
<1> QED BY <1>3

(* Only c's call moves. *)
LEMMA LiveKept ==
  ASSUME DirTypes, LiveJobs, NEW c \in Tasks,
         \A d \in Tasks \ {c} : calling'[d].st = calling[d].st /\ calling'[d].req = calling[d].req,
         jobs' \subseteq JobSet,
         \A j \in jobs' : j.live => j \in jobs /\ j.by # c
  PROVE  LiveJobs'
<1>1. \A j \in jobs' : j.by \in Tasks BY DEF JobSet
<1> QED BY <1>1 DEF LiveJobs

LEMMA NoneLive ==
  ASSUME LiveJobs, NEW c \in Tasks, calling[c].st # "sent", NEW j \in jobs, j.live
  PROVE  j.by # c
BY DEF LiveJobs

LEMMA SendKeeps ==
  ASSUME DirTypes, LiveJobs, NEW c \in Tasks, NEW i \in Instances, Sends(c, i),
         calling[c].st \in {"pick", "cas"}, calling'[c].st = "sent",
         calling'[c].req = calling[c].req,
         \A d \in Tasks \ {c} : calling'[d].st = calling[d].st /\ calling'[d].req = calling[d].req
  PROVE  /\ jobs' \subseteq JobSet /\ LiveJobs'
         /\ \A j \in jobs' : NewlySent(j) \/ \E k \in jobs : From(j, k)
<1> DEFINE n == NewJob(c, calling[c].req, i)
<1>1. /\ n \in JobSet /\ n.by = c /\ n.live /\ Carries(n, calling[c].req)
      /\ n.pc = "begin" /\ n.del = {} /\ n.ins = {}
  BY JobSent
<1>2. \A j \in jobs' : j \in jobs \/ j = n BY DEF Sends
<1>3. jobs' \subseteq JobSet BY <1>1, <1>2 DEF DirTypes
<1>4. NewlySent(n) BY <1>1 DEF NewlySent
<1>5. \A k \in jobs : From(k, k) BY DEF From, Carries
<1>6. \A j \in jobs : j.live => j.by # c BY NoneLive
<1>7. \A j \in jobs : j.by \in Tasks BY DEF DirTypes, JobSet
<1> HIDE DEF n
<1>8. LiveJobs' BY <1>1, <1>2, <1>6, <1>7 DEF LiveJobs
<1> QED BY <1>2, <1>3, <1>4, <1>5, <1>8

(* No job moves, and no call is sent or leaves the wire. *)
LEMMA JobsStay ==
  ASSUME DirInv, UNCHANGED jobs, calling' \in [Tasks -> CallSet],
         \A d \in Tasks :
           calling'[d].req = calling[d].req /\ (calling'[d].st = "sent" <=> calling[d].st = "sent"),
         GateInv', \A d \in Tasks : CallMoves(d)
  PROVE  PoolStep
<1>1. \A j \in jobs : From(j, j) BY DEF From, Carries
<1>2. \A j \in jobs : j.by \in Tasks BY DEF DirInv, DirTypes, JobSet
<1>3. LiveJobs' BY <1>2 DEF DirInv, LiveJobs
<1> QED BY <1>1, <1>3 DEF PoolStep, DirInv, DirTypes

(* The call of c after a step. *)
LEMMA OneCall ==
  ASSUME NEW c \in Tasks, NEW e \in CallSet, calling \in [Tasks -> CallSet],
         calling' = [calling EXCEPT ![c] = e]
  PROVE  /\ calling' \in [Tasks -> CallSet] /\ calling'[c] = e
         /\ \A d \in Tasks \ {c} : calling'[d] = calling[d]
OBVIOUS

LEMMA LoadGateMoves ==
  ASSUME DirInv, NEW c \in Tasks, NEW i \in Instances, LoadGate(c, i)
  PROVE  PoolStep
<1> DEFINE e == [calling[c] EXCEPT !.st = "cas", !.inst = i]
<1>0. calling \in [Tasks -> CallSet] /\ calling[c] \in CallSet BY DEF DirInv, DirTypes
<1>1. /\ e \in CallSet /\ e.st = "cas" /\ e.inst = i /\ e.req = calling[c].req
      /\ e.lost = calling[c].lost
  BY <1>0 DEF CallSet
<1>2. calling' = [calling EXCEPT ![c] = e] BY <1>0 DEF LoadGate
<1> HIDE DEF e
<1>3. /\ calling' \in [Tasks -> CallSet] /\ calling'[c] = e
      /\ \A d \in Tasks \ {c} : calling'[d] = calling[d]
  BY <1>0, <1>1, <1>2, OneCall
<1>4. gate[i] = 0 /\ calling[c].st = "pick" BY DEF LoadGate, Probes
<1>5. GateInv' BY <1>1, <1>3, <1>4 DEF DirInv, GateInv, LoadGate
<1>6. \A d \in Tasks : CallMoves(d) BY <1>1, <1>3, <1>4 DEF CallMoves
<1>7. UNCHANGED jobs BY DEF LoadGate, storeVars
<1> QED BY <1>1, <1>3, <1>4, <1>5, <1>6, <1>7, JobsStay

LEMMA PickMoves ==
  ASSUME DirInv, NEW c \in Tasks, NEW i \in Instances, PickHealthy(c, i)
  PROVE  PoolStep
<1> DEFINE e == [calling[c] EXCEPT !.st = "sent", !.inst = i]
<1>0. calling \in [Tasks -> CallSet] /\ calling[c] \in CallSet BY DEF DirInv, DirTypes
<1>1. e \in CallSet /\ e.st = "sent" /\ e.req = calling[c].req BY <1>0 DEF CallSet
<1>2. calling' = [calling EXCEPT ![c] = e] BY <1>0 DEF PickHealthy
<1> HIDE DEF e
<1>3. /\ calling' \in [Tasks -> CallSet] /\ calling'[c] = e
      /\ \A d \in Tasks \ {c} : calling'[d] = calling[d]
  BY <1>0, <1>1, <1>2, OneCall
<1>4. calling[c].st = "pick" /\ Sends(c, i) BY DEF PickHealthy
<1>5. GateInv' BY <1>1, <1>3 DEF DirInv, GateInv, PickHealthy
<1>6. \A d \in Tasks : CallMoves(d) BY <1>1, <1>3, <1>4 DEF CallMoves
<1>7. /\ jobs' \subseteq JobSet /\ LiveJobs'
      /\ \A j \in jobs' : NewlySent(j) \/ \E k \in jobs : From(j, k)
  BY <1>1, <1>3, <1>4, SendKeeps DEF DirInv
<1> QED BY <1>3, <1>5, <1>6, <1>7 DEF PoolStep

LEMMA NoClientMoves ==
  ASSUME DirInv, NEW c \in Tasks, NoClient(c)
  PROVE  PoolStep
<1> DEFINE e == Ended(c, "error", {})
<1>0. calling \in [Tasks -> CallSet] BY DEF DirInv, DirTypes
<1>1. e \in CallSet /\ e.st = "end" /\ e.req = calling[c].req /\ e.res = "error"
  BY <1>0, CallShapes DEF JobResults
<1>2. calling' = [calling EXCEPT ![c] = e] BY DEF NoClient
<1> HIDE DEF e
<1>3. /\ calling' \in [Tasks -> CallSet] /\ calling'[c] = e
      /\ \A d \in Tasks \ {c} : calling'[d] = calling[d]
  BY <1>0, <1>1, <1>2, OneCall
<1>4. calling[c].st = "pick" BY DEF NoClient
<1>5. GateInv' BY <1>1, <1>3 DEF DirInv, GateInv, NoClient
<1>6. \A d \in Tasks : CallMoves(d) BY <1>1, <1>3, <1>4 DEF CallMoves
<1>7. UNCHANGED jobs BY DEF NoClient, storeVars
<1> QED BY <1>1, <1>3, <1>4, <1>5, <1>6, <1>7, JobsStay

LEMMA CompareMoves ==
  ASSUME DirInv, NEW c \in Tasks, CompareExchange(c)
  PROVE  PoolStep
<1>0. calling \in [Tasks -> CallSet] /\ calling[c] \in CallSet /\ calling[c].st = "cas"
  BY DEF DirInv, DirTypes, CompareExchange
<1>1. CASE ~CasHolds(c)
  <2> DEFINE e == [calling[c] EXCEPT !.st = "pick", !.inst = "none", !.lost = FALSE]
  <2>1. e \in CallSet /\ e.st = "pick" /\ e.req = calling[c].req BY <1>0 DEF CallSet
  <2>2. calling' = [calling EXCEPT ![c] = e] /\ UNCHANGED <<gate, probes, jobs>>
    BY <1>0, <1>1 DEF CompareExchange
  <2> HIDE DEF e
  <2>3. /\ calling' \in [Tasks -> CallSet] /\ calling'[c] = e
        /\ \A d \in Tasks \ {c} : calling'[d] = calling[d]
    BY <1>0, <2>1, <2>2, OneCall
  <2>4. GateInv' BY <2>1, <2>2, <2>3 DEF DirInv, GateInv, CompareExchange
  <2>5. \A d \in Tasks : CallMoves(d) BY <1>0, <2>1, <2>3 DEF CallMoves
  <2> QED BY <1>0, <2>1, <2>2, <2>3, <2>4, <2>5, JobsStay
<1>2. CASE CasHolds(c)
  <2> DEFINE i == calling[c].inst
             e == [calling[c] EXCEPT !.st = "sent", !.inst = i, !.lost = FALSE]
             mine == [calling EXCEPT ![c] = e]
  <2>0. i \in Instances /\ gate[i] = 0 BY <1>0, <1>2 DEF CasHolds, DirInv, GateInv
  <2>1. e \in CallSet /\ e.st = "sent" /\ e.req = calling[c].req BY <1>0, <2>0 DEF CallSet
  <2>2. /\ calling' = GateStored(mine, i) /\ gate' = [gate EXCEPT ![i] = HALF_OPEN]
        /\ probes' = [probes EXCEPT ![i] = probes[i] + 1] /\ Sends(c, i)
        /\ UNCHANGED <<up, clients>>
    BY <1>0, <1>2 DEF CompareExchange
  <2>3. /\ mine \in [Tasks -> CallSet] /\ mine[c] = e
        /\ \A d \in Tasks \ {c} : mine[d] = calling[d]
    <3> HIDE DEF e
    <3> QED BY <1>0, <2>1
  <2> HIDE DEF e, mine, i
  <2>4. /\ calling' \in [Tasks -> CallSet]
        /\ \A d \in Tasks :
             /\ calling'[d].st = mine[d].st /\ calling'[d].req = mine[d].req
             /\ calling'[d].res = mine[d].res /\ calling'[d].inst = mine[d].inst
             /\ ~calling'[d].lost => ~mine[d].lost /\ ~(mine[d].st = "cas" /\ mine[d].inst = i)
    BY <2>2, <2>3, Stored
  <2>5. HALF_OPEN \in Nat \ {0} BY PoolAssumption
  <2>6. /\ gate' \in [Instances -> Nat] /\ gate'[i] > 0
        /\ probes' \in [Instances -> Nat] /\ probes'[i] = 1
        /\ \A k \in Instances \ {i} : gate'[k] = gate[k] /\ probes'[k] = probes[k]
    BY <2>0, <2>2, <2>5 DEF DirInv, GateInv
  <2>7. \A d \in Tasks : calling'[d].st = "cas" /\ ~calling'[d].lost =>
          calling'[d].inst \in Instances /\ gate'[calling'[d].inst] = 0
    BY <2>1, <2>3, <2>4, <2>6 DEF DirInv, GateInv
  <2>8. \A k \in Instances : probes'[k] <= 1 /\ (gate'[k] = 0 => probes'[k] = 0)
    BY <2>6 DEF DirInv, GateInv
  <2>9. GateInv' BY <2>2, <2>6, <2>7, <2>8 DEF DirInv, GateInv
  <2>10. \A d \in Tasks : CallMoves(d) BY <1>0, <2>1, <2>3, <2>4 DEF CallMoves
  <2>11. /\ jobs' \subseteq JobSet /\ LiveJobs'
         /\ \A j \in jobs' : NewlySent(j) \/ \E k \in jobs : From(j, k)
    BY <1>0, <2>0, <2>1, <2>2, <2>3, <2>4, SendKeeps DEF DirInv
  <2> QED BY <2>4, <2>9, <2>10, <2>11 DEF PoolStep
<1> QED BY <1>1, <1>2

(* An attempt of c is over: its failure is reported. *)
LEMMA FailureMoves ==
  ASSUME DirInv, NEW c \in Tasks, calling[c].st = "sent", NEW i, NEW again,
         ReportFailure(i, Retry(c, again)),
         UNCHANGED <<up, clients>>, jobs' \subseteq JobSet,
         \A j \in jobs' : (\E k \in jobs : From(j, k)) /\ (j.live => j \in jobs /\ j.by # c)
  PROVE  PoolStep
<1>0. calling \in [Tasks -> CallSet] BY DEF DirInv, DirTypes
<1>1. /\ Retry(c, again) \in [Tasks -> CallSet]
      /\ \A d \in Tasks \ {c} : Retry(c, again)[d] = calling[d]
      /\ Retry(c, again)[c].st \in {"pick", "end"} /\ Retry(c, again)[c].req = calling[c].req
      /\ Retry(c, again)[c].st = "end" => Retry(c, again)[c].res = "error"
  BY <1>0, Retried
<1>2. Gated(Retry(c, again)) BY <1>1 DEF Gated, DirInv, GateInv
<1> PICK cs : cs = Retry(c, again) OBVIOUS
<1>3. /\ calling' \in [Tasks -> CallSet] /\ GateInv'
      /\ \A d \in Tasks : /\ calling'[d].st = cs[d].st /\ calling'[d].req = cs[d].req
                             /\ calling'[d].res = cs[d].res
  <2>1. cs \in [Tasks -> CallSet] /\ Gated(cs) /\ ReportFailure(i, cs) /\ GateInv
    BY <1>1, <1>2 DEF DirInv
  <2> QED BY <2>1, FailureReported
<1>4. \A d \in Tasks \ {c} : calling'[d].st = calling[d].st /\ calling'[d].req = calling[d].req
  BY <1>1, <1>3
<1>5. LiveJobs' BY <1>4, LiveKept DEF DirInv
<1>6. \A d \in Tasks : CallMoves(d) BY <1>1, <1>3 DEF CallMoves
<1> QED BY <1>3, <1>5, <1>6 DEF PoolStep

LEMMA TransportMoves ==
  ASSUME DirInv, mishaps \in Nat, NEW c \in Tasks, TransportError(c)
  PROVE  PoolStep
<1>1. jobs' = Orphaned(c) BY DEF TransportError
<1>0. DirTypes BY DEF DirInv
<1>3. /\ Orphaned(c) \subseteq JobSet
      /\ \A j \in Orphaned(c) : /\ \E k \in jobs : From(j, k)
                                /\ j.live => j \in jobs /\ j.by # c
  BY <1>0, Orphans
<1>2. /\ jobs' \subseteq JobSet
      /\ \A j \in jobs' : (\E k \in jobs : From(j, k)) /\ (j.live => j \in jobs /\ j.by # c)
  BY <1>1, <1>3
<1> QED BY <1>2, FailureMoves DEF TransportError

LEMMA ReceiveMoves ==
  ASSUME DirInv, NEW c \in Tasks, NEW j \in jobs, Receive(c, j)
  PROVE  PoolStep
<1>0. /\ calling \in [Tasks -> CallSet] /\ j \in JobSet /\ calling[c].st = "sent"
      /\ j.by = c /\ j.live /\ j.pc = "done" /\ jobs' = jobs \ {j}
  BY DEF DirInv, DirTypes, Receive
<1>1. \A k \in jobs : From(k, k) BY DEF From, Carries
<1>2. \A k \in jobs' : k.live => k \in jobs /\ k.by # c BY <1>0 DEF DirInv, LiveJobs
<1>3. jobs' \subseteq JobSet BY <1>0 DEF DirInv, DirTypes
<1>4. CASE j.res \in {"error", "unavailable"}
  <2>1. PICK again : ReportFailure(calling[c].inst, Retry(c, again)) BY <1>4 DEF Receive
  <2> QED BY <1>0, <1>1, <1>2, <1>3, <2>1, FailureMoves DEF Receive
<1>5. CASE j.res \notin {"error", "unavailable"}
  <2> DEFINE e == Ended(c, j.res, j.rows)
  <2>0. j.res \in JobResults /\ j.rows \in SUBSET Accounts BY <1>0 DEF JobSet
  <2>1. e \in CallSet /\ e.st = "end" /\ e.req = calling[c].req /\ e.res = j.res
    BY <1>0, <2>0, CallShapes
  <2>2. calling' = [calling EXCEPT ![c] = e] /\ ReportSuccess(calling[c].inst)
    BY <1>5 DEF Receive
  <2> HIDE DEF e
  <2>3. /\ calling' \in [Tasks -> CallSet] /\ calling'[c] = e
        /\ \A d \in Tasks \ {c} : calling'[d] = calling[d]
    BY <1>0, <2>1, <2>2, OneCall
  <2>4. GateInv'
    <3>1. probes' \in [Instances -> Nat] /\ \A k \in Instances : probes'[k] \in {0, probes[k]}
      BY <2>2 DEF ReportSuccess, DirInv, GateInv
    <3>2. UNCHANGED <<gate, up, clients>> BY <2>2 DEF ReportSuccess, Receive
    <3>3. \A k \in Instances : probes'[k] <= 1 /\ (gate'[k] = 0 => probes'[k] = 0)
      BY <3>1, <3>2 DEF DirInv, GateInv
    <3> QED BY <2>1, <2>3, <3>1, <3>2, <3>3 DEF DirInv, GateInv
  <2>5. LiveJobs' BY <1>2, <1>3, <2>3, LiveKept DEF DirInv
  <2>6. \A d \in Tasks : CallMoves(d) BY <1>0, <2>1, <2>3 DEF CallMoves
  <2> QED BY <1>0, <1>1, <1>3, <2>3, <2>4, <2>5, <2>6 DEF PoolStep
<1> QED BY <1>4, <1>5

LEMMA StillCalls ==
  ASSUME DirInv, UNCHANGED calling
  PROVE  /\ calling' \in [Tasks -> CallSet] /\ \A d \in Tasks : CallMoves(d)
         /\ \A d \in Tasks : calling'[d] = calling[d]
BY DEF DirInv, DirTypes, CallMoves

LEMMA WindowMoves ==
  ASSUME DirInv, WindowPasses
  PROVE  PoolStep
<1>1. UNCHANGED <<jobs, up, clients, calling>> BY DEF WindowPasses, storeVars
<1>2. gate' \in [Instances -> Nat] /\ \A i \in Instances : gate[i] = 0 => gate'[i] = 0
  BY DEF WindowPasses, DirInv, GateInv
<1>3. /\ probes' \in [Instances -> Nat]
      /\ \A i \in Instances : probes'[i] <= 1 /\ (gate'[i] = 0 => probes'[i] = 0)
  BY DEF WindowPasses, DirInv, GateInv
<1>4. GateInv' BY <1>1, <1>2, <1>3 DEF DirInv, GateInv
<1> QED BY <1>1, <1>4, StillCalls, JobsStay

LEMMA RefreshMoves ==
  ASSUME DirInv, Refresh
  PROVE  PoolStep
<1>0. calling \in [Tasks -> CallSet] /\ UNCHANGED jobs
  BY DEF DirInv, DirTypes, Refresh, storeVars
<1>1. ASSUME NEW c \in Tasks
      PROVE  /\ calling'[c] \in CallSet /\ calling'[c].st = calling[c].st
             /\ calling'[c].req = calling[c].req /\ calling'[c].res = calling[c].res
  <2>0. calling[c] \in CallSet BY <1>0
  <2> DEFINE e == [calling[c] EXCEPT !.inst = "gone"]
  <2>1. /\ e \in CallSet /\ e.st = calling[c].st /\ e.req = calling[c].req
        /\ e.res = calling[c].res
    BY <2>0 DEF CallSet
  <2>2. calling'[c] = e \/ calling'[c] = calling[c] BY DEF Refresh
  <2> HIDE DEF e
  <2> QED BY <2>0, <2>1, <2>2
<1>2. calling' \in [Tasks -> CallSet]
  <2>1. calling' = [c \in Tasks |-> calling'[c]] BY DEF Refresh
  <2> QED BY <1>1, <2>1
<1>3. \A c \in Tasks : calling'[c].st # "cas" BY <1>1 DEF Refresh
<1>4. /\ gate' \in [Instances -> Nat] /\ probes' \in [Instances -> Nat]
      /\ \A i \in Instances : probes'[i] <= 1 /\ (gate'[i] = 0 => probes'[i] = 0)
  BY DEF Refresh, DirInv, GateInv
<1>5. clients' \subseteq Instances /\ up' \subseteq Instances BY DEF Refresh, DirInv, GateInv
<1>6. GateInv' BY <1>3, <1>4, <1>5 DEF GateInv
<1>7. \A d \in Tasks : CallMoves(d) BY <1>1 DEF CallMoves
<1> QED BY <1>0, <1>1, <1>2, <1>6, <1>7, JobsStay

LEMMA InstanceMoves ==
  ASSUME DirInv, NEW i \in Instances, InstanceStops(i) \/ InstanceStarts(i)
  PROVE  PoolStep
<1>1. /\ UNCHANGED <<calling, gate, probes, clients>> /\ jobs' \subseteq jobs
      /\ up' \subseteq Instances
  BY DEF InstanceStops, InstanceStarts, storeVars, DirInv, GateInv
<1>2. GateInv' BY <1>1 DEF DirInv, GateInv
<1>3. LiveJobs' BY <1>1 DEF DirInv, LiveJobs
<1>4. \A j \in jobs : From(j, j) BY DEF From, Carries
<1>5. jobs' \subseteq JobSet BY <1>1 DEF DirInv, DirTypes
<1> QED BY <1>1, <1>2, <1>3, <1>4, <1>5, StillCalls DEF PoolStep

(* The key of a question, and what it is about. *)
LEMMA KeyInKeys ==
  ASSUME NEW t, t.a \in Humans, t.b \in Humans, t.a # t.b
  PROVE  KeyOf(t) \in Keys
<1>1. {t.a, t.b} \in {{a, b} : a \in Humans, b \in Accounts} BY DEF Accounts
<1>2. {t.a, t.b} \notin {{a} : a \in Humans} OBVIOUS
<1>3. {t.a, t.b} \in Pairs BY <1>1, <1>2 DEF Pairs
<1> QED BY <1>3 DEF KeyOf, Keys

LEMMA KeyIsFriend ==
  ASSUME NEW t, t.at = "is_friend", t.a # t.b
  PROVE  Truth(KeyOf(t)) <=> IsFriend(t.a, t.b)
<1>1. KeyOf(t) = <<"friend", {t.a, t.b}>> BY DEF KeyOf
<1>2. KeyOf(t)[1] = "friend" /\ KeyOf(t)[2] = {t.a, t.b} BY <1>1
<1> QED BY <1>2 DEF Truth, IsFriend, Friend

LEMMA KeyIsBlocked ==
  ASSUME NEW t, t.at = "is_blocked", t.a # t.b
  PROVE  Truth(KeyOf(t)) <=> IsBlockedEither(t.a, t.b)
<1>1. KeyOf(t) = <<"blocked", {t.a, t.b}>> BY DEF KeyOf
<1>2. KeyOf(t)[1] = "blocked" /\ KeyOf(t)[2] = {t.a, t.b} BY <1>1
<1>3. Truth(KeyOf(t)) <=> \E a, b \in {t.a, t.b} : a # b /\ IsBlockedEither(a, b)
  BY <1>2 DEF Truth
<1>4. IsBlockedEither(t.a, t.b) <=> IsBlockedEither(t.b, t.a) BY DEF IsBlockedEither
<1> QED BY <1>3, <1>4

LEMMA InsertsKept ==
  ASSUME NEW j, ServeJob(j) \/ BackendFails(j), InsertsInv
  PROVE  InsertsInv'
<1>0. ASSUME UNCHANGED inserts PROVE InsertsInv' BY <1>0 DEF InsertsInv, InsertOnce
<1>1. CASE InsertUser(j)
  <2> PICK k : k = <<j.a, j.g>> OBVIOUS
  <2>1. \/ UNCHANGED inserts
        \/ /\ inserts' = [inserts EXCEPT ![k] = inserts[k] + 1]
           /\ k[2] = "none" \/ ~(inserts[k] > 0)
    BY <1>1 DEF InsertUser, Looks, Store, Duplicate, AlreadyStored
  <2>2. CASE /\ inserts' = [inserts EXCEPT ![k] = inserts[k] + 1]
             /\ k[2] = "none" \/ ~(inserts[k] > 0)
    <3>0. inserts \in [MessageKeys -> Nat] BY DEF InsertsInv
    <3>1. inserts' \in [MessageKeys -> Nat]
      <4>1. CASE k \in MessageKeys
        <5>1. inserts[k] + 1 \in Nat BY <3>0, <4>1
        <5> QED BY <2>2, <3>0, <5>1
      <4>2. CASE k \notin MessageKeys
        <5>1. inserts' = inserts BY <2>2, <3>0, <4>2
        <5> QED BY <3>0, <5>1
      <4> QED BY <4>1, <4>2
    <3>2. \A q \in MessageKeys : q # k => inserts'[q] = inserts[q] BY <2>2 DEF InsertsInv
    <3>3. k \in MessageKeys => inserts[k] \in Nat /\ inserts'[k] = inserts[k] + 1
      BY <2>2 DEF InsertsInv
    <3>4. ASSUME NEW q \in MessageKeys, q[2] # "none" PROVE inserts'[q] <= 1
      <4>1. CASE q = k BY <2>2, <3>3, <3>4, <4>1
      <4>2. CASE q # k BY <3>2, <3>4, <4>2 DEF InsertsInv, InsertOnce
      <4> QED BY <4>1, <4>2
    <3> QED BY <3>1, <3>4 DEF InsertsInv, InsertOnce
  <2> QED BY <2>1, <2>2, <1>0
<1>2. CASE ~InsertUser(j)
  BY <1>0, <1>2 DEF ServeJob, BackendFails, FriendRequest, FriendAccept, FriendReject, FriendRemove,
           BlockAdd, BlockRemove, PairOp, FriendList, FriendIncoming, BlockList, FriendCheck,
           BlockCheck, Answer, GroupCreate, GroupJoin, GroupQuit, GroupDetail, GroupMembers
<1> QED BY <1>1, <1>2

(* A step of an instance: the rows change, and its job. *)
LEMMA ServeKeeps ==
  ASSUME DirInv, NEW j \in jobs, Behind, ServeJob(j) \/ BackendFails(j),
         UNCHANGED <<up, clients, fails, opened, gate, calling, probes>>
  PROVE  DirInv'
<1>0. UNCHANGED <<task, entries, inflight, issued, wanted, invited>> BY DEF Behind
<1>1. Served(j)
  <2>1. UNCHANGED backend
    BY DEF ServeJob, BackendFails, FriendRequest, FriendAccept, FriendReject, FriendRemove,
           BlockAdd, BlockRemove, PairOp, FriendList, FriendIncoming, BlockList, FriendCheck,
           BlockCheck, Answer, GroupCreate, GroupJoin, GroupQuit, GroupDetail, GroupMembers,
           InsertUser
  <2>2. Serving(j) BY <1>0, <2>1 DEF Serving, DirInv, DirTypes, WantedInv
  <2> QED BY <2>2, Serves
<1>2. /\ \A q \in jobs' : q \in jobs \ {j} \/ (Same(j, q) /\ JobOk(q)' /\ TrueOf(q))
      /\ \A q, r \in jobs' : q \notin jobs \ {j} /\ r \notin jobs \ {j} => q = r
  BY <1>1 DEF Served
<1>3. /\ UNCHANGED backend /\ RowsInv' /\ GroupsStay BY <1>1 DEF Served
<1>4. DirTypes'
  <2>1. jobs' \subseteq JobSet BY <1>2 DEF Same, DirInv, DirTypes
  <2> QED BY <1>0, <2>1 DEF DirInv, DirTypes
<1>5. GateInv' BY DEF DirInv, GateInv
<1>6. LiveJobs'
  <2>1. \A q \in jobs' : q.live =>
          \/ q \in jobs \ {j}
          \/ Same(j, q) /\ j.live
    BY <1>2 DEF Same
  <2>2. \A q \in jobs' : q.live => calling[q.by].st = "sent" /\ Carries(q, calling[q.by].req)
    BY <2>1 DEF DirInv, LiveJobs, Same, Carries
  <2>3. ASSUME NEW q \in jobs', NEW r \in jobs', q.live, r.live, q.by = r.by
        PROVE  q = r
    BY <1>2, <2>1, <2>3 DEF DirInv, LiveJobs, Same
  <2> QED BY <2>2, <2>3 DEF LiveJobs
<1>7. AskInv'
  <2>1. \A c \in Tasks : Fetching(c)' = Fetching(c) BY <1>0 DEF Fetching
  <2>2. SingleFlight' BY <1>0 DEF DirInv, AskInv, SingleFlight, Fetching, KeyOf
  <2>3. \A c \in Tasks : KeyOf(task[c])' = KeyOf(task[c]) BY <1>0 DEF KeyOf
  <2> QED BY <1>0, <2>1, <2>2, <2>3 DEF DirInv, AskInv
<1>8. AnswerInv'
  <2>1. \A k \in Keys : k \notin overlap' => k \notin overlap /\ Truth(k)' = Truth(k) BY DEF Behind
  <2>2. CacheCoherent' BY <1>0, <2>1 DEF DirInv, AnswerInv, CacheCoherent
  <2>3. SUFFICES ASSUME NEW c \in Tasks, Fetching(c)', KeyOf(task[c])' \notin overlap'
                 PROVE  /\ calling'[c].st = "end" /\ calling'[c].res \in {"yes", "no"} =>
                             ((calling'[c].res = "yes") <=> Truth(KeyOf(task[c]))')
                        /\ \A q \in jobs' :
                             q.by = c /\ q.live /\ q.pc = "done" /\ q.res \in {"yes", "no"} =>
                               ((q.res = "yes") <=> Truth(KeyOf(task[c]))')
    BY <2>2 DEF AnswerInv
  <2> PICK asks : asks = KeyOf(task[c]) OBVIOUS
  <2>4. Fetching(c) /\ KeyOf(task[c])' = asks BY <1>0, <2>3 DEF Fetching, KeyOf
  <2>5. /\ task[c].a \in Humans /\ task[c].b \in Humans /\ task[c].a # task[c].b
        /\ calling[c].req.ep = task[c].at
        /\ calling[c].req.a = task[c].a /\ calling[c].req.b = task[c].b
    BY <2>4 DEF DirInv, AskInv
  <2>6. asks \in Keys BY <2>5, KeyInKeys
  <2>7. asks \notin overlap /\ Truth(asks)' = Truth(asks) BY <2>1, <2>3, <2>4, <2>6
  <2>8. Truth(KeyOf(task[c]))' = Truth(asks)
    <3>1. Truth(KeyOf(task[c]))' = Truth(asks)' BY <2>4 DEF Truth, IsBlockedEither
    <3> QED BY <2>7, <3>1
  <2>9. calling'[c].st = "end" /\ calling'[c].res \in {"yes", "no"} =>
          ((calling'[c].res = "yes") <=> Truth(asks))
    BY <2>4, <2>7 DEF DirInv, AnswerInv
  <2>10. ASSUME NEW q \in jobs', q.by = c, q.live, q.pc = "done", q.res \in {"yes", "no"}
         PROVE  (q.res = "yes") <=> Truth(asks)
    <3>1. CASE q \in jobs \ {j} BY <2>4, <2>7, <2>10, <3>1 DEF DirInv, AnswerInv
    <3>2. CASE Same(j, q) /\ TrueOf(q)
      <4>1. j.live /\ j.by = c /\ Carries(q, j) BY <2>10, <3>2 DEF Same
      <4>2. Carries(j, calling[c].req) BY <4>1 DEF DirInv, LiveJobs
      <4>3. q.ep = task[c].at /\ q.a = task[c].a /\ q.b = task[c].b
        BY <4>1, <4>2, <2>5 DEF Carries
      <4>4. CASE task[c].at = "is_friend"
        BY <2>10, <3>2, <4>3, <4>4, <2>5, KeyIsFriend DEF TrueOf
      <4>5. CASE task[c].at = "is_blocked"
        BY <2>10, <3>2, <4>3, <4>5, <2>5, KeyIsBlocked DEF TrueOf
      <4> QED BY <2>4, <4>4, <4>5 DEF Fetching
    <3> QED BY <1>2, <3>1, <3>2
  <2> QED BY <2>8, <2>9, <2>10
<1>9. WantedInv'
  <2>1. \A r : ReqOk(r) => ReqOk(r)' BY <1>0, <1>3 DEF ReqOk, GroupsStay
  <2>2. ASSUME NEW c \in Tasks, calling'[c].st # "off" PROVE ReqOk(calling[c].req)'
    <3>1. ReqOk(calling[c].req) BY <2>2 DEF DirInv, WantedInv
    <3> QED BY <1>0, <1>3, <3>1 DEF ReqOk, GroupsStay
  <2>3. ASSUME NEW q \in jobs' PROVE ReqOk(q)' /\ JobOk(q)'
    <3>1. CASE q \in jobs \ {j}
      <4>1. ReqOk(q) /\ JobOk(q) BY <3>1 DEF DirInv, WantedInv
      <4> QED BY <4>1, <2>1, <1>0, <1>3 DEF JobOk
    <3>2. CASE Same(j, q) /\ JobOk(q)'
      <4>1. ReqOk(j) BY DEF DirInv, WantedInv
      <4>2. ReqOk(q) BY <4>1, <3>2 DEF Same, Carries, ReqOk
      <4> QED BY <4>2, <2>1, <3>2
    <3> QED BY <1>2, <3>1, <3>2
  <2>4. InsertsInv' BY InsertsKept DEF DirInv, WantedInv
  <2> QED BY <1>3, <2>2, <2>3, <2>4 DEF WantedInv
<1> QED BY <1>4, <1>5, <1>6, <1>7, <1>8, <1>9 DEF DirInv

LEMMA BehindKeeps ==
  ASSUME DirInv, mishaps \in Nat, Behind
  PROVE  DirInv'
<1>1. ASSUME PoolStep, UNCHANGED <<backend, db, inserts>> PROVE DirInv'
  <2>1. \A k \in Keys : Truth(k)' = Truth(k) BY <1>1, SameTruth
  <2>2. overlap' = overlap BY <2>1 DEF Behind
  <2>3. ChatStill BY <1>1, <2>2 DEF Behind, ChatStill
  <2> QED BY <1>1, <2>3, PoolStepKeeps
<1>2. ASSUME NEW c \in Tasks, NEW i \in Instances, LoadGate(c, i) PROVE DirInv'
  BY <1>1, <1>2, LoadGateMoves DEF LoadGate, storeVars
<1>3. ASSUME NEW c \in Tasks, NEW i \in Instances, PickHealthy(c, i) PROVE DirInv'
  BY <1>1, <1>3, PickMoves DEF PickHealthy
<1>4. ASSUME NEW c \in Tasks, CompareExchange(c) PROVE DirInv'
  BY <1>1, <1>4, CompareMoves DEF CompareExchange
<1>5. ASSUME NEW c \in Tasks, NoClient(c) PROVE DirInv'
  BY <1>1, <1>5, NoClientMoves DEF NoClient, storeVars
<1>6. ASSUME NEW c \in Tasks, TransportError(c) PROVE DirInv'
  BY <1>1, <1>6, TransportMoves DEF TransportError
<1>7. ASSUME NEW c \in Tasks, NEW j \in jobs, Receive(c, j) PROVE DirInv'
  BY <1>1, <1>7, ReceiveMoves DEF Receive
<1>8. CASE WindowPasses BY <1>1, <1>8, WindowMoves DEF WindowPasses, storeVars
<1>9. CASE Refresh BY <1>1, <1>9, RefreshMoves DEF Refresh, storeVars
<1>10. ASSUME NEW i \in Instances, InstanceStops(i) \/ InstanceStarts(i) PROVE DirInv'
  BY <1>1, <1>10, InstanceMoves DEF InstanceStops, InstanceStarts, storeVars
<1>11. ASSUME NEW j \in jobs, ServeFails(j) PROVE DirInv'
  BY <1>11, ServeKeeps DEF ServeFails
<1>12. ASSUME NEW j \in jobs, ServeJob(j), UNCHANGED poolVars PROVE DirInv'
  BY <1>12, ServeKeeps DEF poolVars
<1> QED BY <1>2, <1>3, <1>4, <1>5, <1>6, <1>7, <1>8, <1>9, <1>10, <1>11, <1>12 DEF Behind, PoolNext

-----------------------------------------------------------------------------
(* A step of the chat process: some tasks move on, and with them their     *)
(* calls.                                                                  *)
Settles(d) ==
  /\ calling'[d] \in CallSet /\ task'[d] \in TaskSet /\ calling'[d].st \in {"off", "pick"}
  /\ calling'[d].st = "pick" => ReqOk(calling[d].req)'
  /\ task'[d].op = "idle" \/ task'[d].at \in Questions => calling'[d].st = "off"
  /\ task'[d].at \in Questions \/ Fetching(d)' =>
       task'[d].a \in Humans /\ task'[d].b \in Humans /\ task'[d].a # task'[d].b
  /\ Fetching(d)' =>
       /\ KeyOf(task[d])' \in inflight'
       /\ calling'[d].req.ep = task'[d].at
       /\ calling'[d].req.a = task'[d].a /\ calling'[d].req.b = task'[d].b
  /\ \A j \in jobs' : j.live => j.by # d

ChatStep(S) ==
  /\ calling' = [d \in Tasks |-> calling'[d]] /\ task' = [d \in Tasks |-> task'[d]]
  /\ \A d \in S : Settles(d)
  /\ \A d \in Tasks \ S : task'[d] = task[d] /\ calling'[d] = calling[d]
  /\ UNCHANGED <<backend, db, inserts, up, clients, gate, probes>>
  /\ jobs' \subseteq JobSet
  /\ \A j \in jobs' : (\E k \in jobs : From(j, k)) /\ (j.live => j \in jobs)
  /\ wanted \subseteq wanted' /\ invited \subseteq invited'
  /\ issued' \in Nat /\ entries' \in [Keys -> {"none", "yes", "no"}]
  /\ \A d \in Tasks \ S : Fetching(d) =>
       /\ KeyOf(task[d]) \in inflight'
       /\ KeyOf(task[d]) \in overlap => KeyOf(task[d]) \in overlap'
  /\ SingleFlight' /\ CacheCoherent'

LEMMA ChatStepKeeps ==
  ASSUME DirInv, NEW S \in SUBSET Tasks, ChatStep(S)
  PROVE  DirInv'
<1>1. DirTypes'
  <2>1. \A d \in Tasks : calling'[d] \in CallSet /\ task'[d] \in TaskSet
    BY DEF ChatStep, Settles, DirInv, DirTypes
  <2>2. calling' \in [Tasks -> CallSet] /\ task' \in [Tasks -> TaskSet]
    BY <2>1 DEF ChatStep
  <2> QED BY <2>2 DEF ChatStep, DirTypes
<1>2. GateInv'
  <2>1. \A d \in Tasks : calling'[d].st = "cas" => calling'[d] = calling[d]
    BY DEF ChatStep, Settles
  <2> QED BY <2>1 DEF ChatStep, DirInv, GateInv
<1>3. LiveJobs'
  <2>1. \A j \in jobs' : j.live => j \in jobs /\ j.by \in Tasks \ S
    BY DEF ChatStep, Settles, JobSet
  <2>2. \A j \in jobs' : j.live => calling'[j.by] = calling[j.by] BY <2>1 DEF ChatStep
  <2> QED BY <2>1, <2>2 DEF DirInv, LiveJobs
<1>4. \A d \in Tasks \ S : /\ (Fetching(d)' <=> Fetching(d))
                             /\ KeyOf(task[d])' = KeyOf(task[d])
  BY DEF ChatStep, Fetching, KeyOf
<1>5. AskInv'
  <2>1. ASSUME NEW d \in Tasks \ S
        PROVE  /\ task'[d].op = "idle" \/ task'[d].at \in Questions => calling'[d].st = "off"
               /\ task'[d].at \in Questions \/ Fetching(d)' =>
                    task'[d].a \in Humans /\ task'[d].b \in Humans /\ task'[d].a # task'[d].b
               /\ Fetching(d)' =>
                    /\ KeyOf(task[d])' \in inflight'
                    /\ calling'[d].req.ep = task'[d].at
                    /\ calling'[d].req.a = task'[d].a /\ calling'[d].req.b = task'[d].b
    BY <1>4 DEF ChatStep, DirInv, AskInv
  <2> QED BY <2>1 DEF AskInv, ChatStep, Settles
<1>6. AnswerInv'
  <2>1. SUFFICES ASSUME NEW d \in Tasks, Fetching(d)', KeyOf(task[d])' \notin overlap'
                 PROVE  /\ calling'[d].st = "end" /\ calling'[d].res \in {"yes", "no"} =>
                             ((calling'[d].res = "yes") <=> Truth(KeyOf(task[d]))')
                        /\ \A q \in jobs' :
                             q.by = d /\ q.live /\ q.pc = "done" /\ q.res \in {"yes", "no"} =>
                               ((q.res = "yes") <=> Truth(KeyOf(task[d]))')
    BY DEF AnswerInv, ChatStep
  <2>2. CASE d \in S BY <2>2 DEF ChatStep, Settles
  <2>3. CASE d \notin S
    <3>1. Fetching(d) /\ KeyOf(task[d]) \notin overlap /\ calling'[d] = calling[d]
      BY <1>4, <2>1, <2>3 DEF ChatStep
    <3>2. \A q \in jobs' : q.live => q \in jobs BY DEF ChatStep
    <3>3. Truth(KeyOf(task[d]))' = Truth(KeyOf(task[d]))
      BY <1>4, <2>3 DEF ChatStep, Truth, IsBlockedEither
    <3> QED BY <3>1, <3>2, <3>3 DEF DirInv, AnswerInv
  <2> QED BY <2>2, <2>3
<1>7. WantedInv'
  <2>0. wanted \subseteq wanted' /\ invited \subseteq invited' /\ UNCHANGED <<db, backend>>
    BY DEF ChatStep
  <2>1. RowsInv'
    BY <2>0 DEF DirInv, WantedInv, RowsInv, FriendsByBoth, BlockedApart, InvitedByMember
  <2>2. \A r : ReqOk(r) => ReqOk(r)' BY <2>0 DEF ReqOk
  <2>3. ASSUME NEW d \in Tasks, calling'[d].st # "off" PROVE ReqOk(calling[d].req)'
    <3>1. CASE d \in S BY <3>1, <2>3 DEF ChatStep, Settles
    <3>2. CASE d \notin S
      <4>1. calling'[d] = calling[d] /\ ReqOk(calling[d].req)
        BY <3>2, <2>3 DEF ChatStep, DirInv, WantedInv
      <4> QED BY <4>1, <2>0 DEF ReqOk
    <3> QED BY <3>1, <3>2
  <2>4. ASSUME NEW j \in jobs' PROVE ReqOk(j)' /\ JobOk(j)'
    <3>1. PICK k \in jobs : From(j, k) BY DEF ChatStep
    <3>2. ReqOk(k) /\ JobOk(k) BY DEF DirInv, WantedInv
    <3>3. ReqOk(j) BY <3>1, <3>2 DEF From, ReqOk, Carries
    <3>4. JobOk(j) BY <3>1, <3>2 DEF From, JobOk, Carries, People
    <3>5. JobOk(j)' BY <3>4, <2>0 DEF JobOk
    <3> QED BY <3>3, <3>5, <2>2
  <2>5. InsertsInv' BY DEF ChatStep, DirInv, WantedInv, InsertsInv, InsertOnce
  <2> QED BY <2>1, <2>3, <2>4, <2>5 DEF WantedInv
<1> QED BY <1>1, <1>2, <1>3, <1>5, <1>6, <1>7 DEF DirInv

(* One task moves on to t with the call e, and fetches nothing. *)
LEMMA OneTask ==
  ASSUME DirInv, NEW c \in Tasks, NEW t \in TaskSet, NEW e \in CallSet,
         task' = [task EXCEPT ![c] = t], calling' = [calling EXCEPT ![c] = e],
         e.st \in {"off", "pick"}, e.st = "pick" => ReqOk(e.req)',
         t.op = "idle" \/ t.at \in Questions => e.st = "off",
         t.at \notin {"is_blocked", "is_friend"},
         t.at \in Questions => t.a \in Humans /\ t.b \in Humans /\ t.a # t.b,
         UNCHANGED <<backend, db, inserts, up, clients, gate, probes, inflight>>,
         jobs' \subseteq JobSet,
         \A j \in jobs' : (\E k \in jobs : From(j, k)) /\ (j.live => j \in jobs /\ j.by # c),
         wanted \subseteq wanted', invited \subseteq invited', issued' \in Nat,
         entries' \in [Keys -> {"none", "yes", "no"}], CacheCoherent',
         \A d \in Tasks : Fetching(d) /\ KeyOf(task[d]) \in overlap => KeyOf(task[d]) \in overlap'
  PROVE  DirInv'
<1>1. task' \in [Tasks -> TaskSet] /\ calling' \in [Tasks -> CallSet]
      /\ task'[c] = t /\ calling'[c] = e
      /\ \A d \in Tasks \ {c} : task'[d] = task[d] /\ calling'[d] = calling[d]
  BY DEF DirInv, DirTypes
<1>2. ~Fetching(c)' BY <1>1 DEF Fetching
<1>3. \A d \in Tasks \ {c} : /\ (Fetching(d)' <=> Fetching(d))
                               /\ KeyOf(task[d])' = KeyOf(task[d])
  BY <1>1 DEF Fetching, KeyOf
<1>4. SingleFlight' BY <1>2, <1>3 DEF DirInv, AskInv, SingleFlight
<1>5. Settles(c)
  <2>1. ReqOk(e.req)' => ReqOk(calling[c].req)' BY <1>1 DEF ReqOk
  <2> QED BY <1>1, <1>2, <2>1 DEF Settles
<1>6. \A d \in Tasks \ {c} : Fetching(d) => KeyOf(task[d]) \in inflight'
  BY DEF DirInv, AskInv
<1>7. calling' = [d \in Tasks |-> calling'[d]] /\ task' = [d \in Tasks |-> task'[d]] BY <1>1
<1>8. ChatStep({c}) BY <1>1, <1>4, <1>5, <1>6, <1>7 DEF ChatStep
<1> QED BY <1>8, ChatStepKeeps

(* No job moves: c's call is not on the wire. *)
LEMMA JobsRest ==
  ASSUME DirInv, NEW c \in Tasks, calling[c].st # "sent", UNCHANGED jobs
  PROVE  /\ jobs' \subseteq JobSet
         /\ \A j \in jobs' : (\E k \in jobs : From(j, k)) /\ (j.live => j \in jobs /\ j.by # c)
<1>1. \A j \in jobs : From(j, j) BY DEF From, Carries
<1> QED BY <1>1, NoneLive DEF DirInv, DirTypes

(* The cache stays, and what it is about. *)
LEMMA CacheRests ==
  ASSUME DirInv, UNCHANGED <<db, entries, overlap>>
  PROVE  CacheCoherent' /\ entries' \in [Keys -> {"none", "yes", "no"}]
BY SameTruth DEF DirInv, DirTypes, AnswerInv, CacheCoherent

LEMMA RequestShape ==
  ASSUME NEW t \in TaskSet, NEW ep \in Endpoints
  PROVE  LET r == RequestOf(t, ep) IN
           /\ r \in ReqSet /\ r.ep = ep /\ r.a = t.a /\ r.b = t.b
           /\ ep \in {"create", "join", "quit", "detail", "members"} => r.g = t.g
<1>1. /\ t.a \in Names /\ t.b \in Names /\ t.g \in GroupIds BY DEF TaskSet
<1>2. NoReq \in ReqSet BY CallShapes
<1> QED BY <1>1, <1>2 DEF RequestOf, HttpGroup, HttpInsert, HttpSocial, NoReq, ReqSet

Commanded == {"pair", "read", "talk", "typing", "create", "invite", "quit"}
FirstAsked ==
  {"request", "accept", "reject", "remove", "block", "unblock", "friends", "incoming", "blocked",
   "create", "detail"}

LEMMA BeginKeeps ==
  ASSUME DirInv, NEW c \in Tasks, NEW op \in Commanded,
         NEW ep \in FirstAsked \cup {"blocked_check"},
         NEW a \in Humans, NEW b \in Accounts, NEW g \in GroupIds, Begin(c, op, ep, a, b, g),
         wanted \subseteq wanted', invited \subseteq invited',
         ep = "blocked_check" => b \in Humans /\ a # b,
         ep \in {"request", "accept"} => <<a, b>> \in wanted',
         ep = "create" => \A h \in Groups : Group(h) \notin db =>
                            <<h, a>> \in invited' /\ <<h, b>> \in invited'
  PROVE  DirInv'
<1> DEFINE t == [op |-> op, at |-> ep, a |-> a, b |-> b, g |-> g]
<1>0. /\ task[c].op = "idle" /\ issued' \in Nat
      /\ UNCHANGED <<backend, db, inserts, jobs, up, clients, gate, probes, entries, inflight,
                     overlap>>
  BY DEF Begin, storeVars, DirInv, DirTypes
<1>1. t \in TaskSet /\ t.op = op /\ t.at = ep /\ t.a = a /\ t.b = b
  BY <1>0 DEF TaskSet, TaskOps, Commanded, FirstAsked, Endpoints, Questions, Names, Accounts
<1>2. task' = [task EXCEPT ![c] = t]
      /\ calling' = IF ep = "blocked_check" THEN calling
                    ELSE [calling EXCEPT ![c] = Calling(RequestOf(t, ep))]
  BY DEF Begin
<1>3. calling[c].st = "off" BY <1>0 DEF DirInv, AskInv
<1>4. calling \in [Tasks -> CallSet] BY DEF DirInv, DirTypes
<1>5. /\ jobs' \subseteq JobSet
      /\ \A j \in jobs' : (\E k \in jobs : From(j, k)) /\ (j.live => j \in jobs /\ j.by # c)
  BY <1>0, <1>3, JobsRest
<1>6. CacheCoherent' /\ entries' \in [Keys -> {"none", "yes", "no"}] BY <1>0, CacheRests
<1>7. t.op # "idle" /\ t.at \notin {"is_blocked", "is_friend"}
      /\ (t.at \in Questions => t.at = "blocked_check")
  BY <1>1 DEF Commanded, FirstAsked, Questions
<1>8. CASE ep = "blocked_check"
  <2> PICK e : e = calling[c] OBVIOUS
  <2>1. e \in CallSet /\ e.st = "off" /\ calling' = [calling EXCEPT ![c] = e]
    BY <1>2, <1>3, <1>4, <1>8
  <2> PICK u : u = t OBVIOUS
  <2>2. /\ u \in TaskSet /\ u.at \notin {"is_blocked", "is_friend"}
        /\ task' = [task EXCEPT ![c] = u]
        /\ u.a \in Humans /\ u.b \in Humans /\ u.a # u.b
    BY <1>1, <1>2, <1>7, <1>8
  <2> HIDE DEF t
  <2> QED BY <1>0, <1>5, <1>6, <2>1, <2>2, OneTask
<1>9. CASE ep # "blocked_check"
  <2>0. ep \in Endpoints /\ ep \in FirstAsked BY <1>9 DEF FirstAsked, Endpoints
  <2> DEFINE r == RequestOf(t, ep)
  <2>1. r \in ReqSet /\ r.ep = ep /\ r.a = a /\ r.b = b BY <1>1, <2>0, RequestShape
  <2> PICK e : e = Calling(r) OBVIOUS
  <2>2. e \in CallSet /\ e.st = "pick" /\ e.req.ep = ep /\ e.req.a = a /\ e.req.b = b
    <3> HIDE DEF r
    <3> QED BY <2>1, CallShapes
  <2>3. ReqOk(e.req)' BY <2>0, <2>2, <1>0 DEF ReqOk, FirstAsked
  <2> PICK u : u = t OBVIOUS
  <2>4. /\ u \in TaskSet /\ u.op # "idle" /\ u.at \notin {"is_blocked", "is_friend"}
        /\ u.at \notin Questions /\ task' = [task EXCEPT ![c] = u]
    BY <1>1, <1>2, <1>7, <1>9
  <2>5. calling' = [calling EXCEPT ![c] = e] BY <1>2, <1>9
  <2> HIDE DEF t, r
  <2> QED BY <1>0, <1>5, <1>6, <2>2, <2>3, <2>4, <2>5, OneTask
<1> QED BY <1>8, <1>9

LEMMA CommandsKeep ==
  ASSUME DirInv, NEW c \in Tasks, Commands(c)
  PROVE  DirInv'
<1>0. \A x \in Humans : x \in Accounts BY DEF Accounts
<1>1. /\ "none" \in GroupIds /\ \A g \in Known : g \in GroupIds
      /\ \A g \in ClientIds \cup {"none"} : g \in GroupIds
  BY DEF GroupIds, Known
<1>2. ASSUME NEW a \in Humans, NEW b \in Accounts,
             \/ DoFriendRequest(c, a, b) \/ DoFriendAccept(c, a, b) \/ DoFriendReject(c, a, b)
             \/ DoFriendRemove(c, a, b) \/ DoBlockAdd(c, a, b) \/ DoBlockRemove(c, a, b)
             \/ DoTyping(c, a, b) \/ \E cid \in ClientIds \cup {"none"} : DoUserTalk(c, a, b, cid)
      PROVE  DirInv'
  <2>1. \E op \in Commanded, ep \in (FirstAsked \cup {"blocked_check"}) \ {"create"},
           g \in ClientIds \cup {"none"} :
          /\ Begin(c, op, ep, a, b, g)
          /\ wanted \subseteq wanted' /\ invited \subseteq invited'
          /\ ep = "blocked_check" => b \in Humans /\ a # b
          /\ ep \in {"request", "accept"} => <<a, b>> \in wanted'
    BY <1>2 DEF DoFriendRequest, DoFriendAccept, DoFriendReject, DoFriendRemove, DoBlockAdd,
                DoBlockRemove, DoUserTalk, DoTyping, Says, SaysNothing, Peer, Commanded, FirstAsked
  <2> QED BY <1>1, <2>1, BeginKeeps
<1>3. ASSUME NEW a \in Humans, NEW b \in Accounts, DoGroupCreate(c, a, b) PROVE DirInv'
  <2>1. Begin(c, "create", "create", a, b, "none") /\ wanted' = wanted BY <1>3 DEF DoGroupCreate
  <2>2. invited \subseteq invited'
        /\ \A h \in Groups : Group(h) \notin db => <<h, a>> \in invited' /\ <<h, b>> \in invited'
    BY <1>3 DEF DoGroupCreate
  <2>3. "create" \in Commanded /\ "create" \in FirstAsked BY DEF Commanded, FirstAsked
  <2> QED BY <1>1, <2>1, <2>2, <2>3, BeginKeeps
<1>4. ASSUME NEW a \in Humans, NEW b \in Accounts, NEW g \in Known, DoGroupInvite(c, a, b, g)
      PROVE  DirInv'
  <2>1. Begin(c, "invite", "detail", a, b, g) /\ wanted' = wanted /\ invited' = invited
    BY <1>4 DEF DoGroupInvite, SaysNothing
  <2>2. "invite" \in Commanded BY DEF Commanded
  <2>3. \E op \in Commanded : Begin(c, op, "detail", a, b, g) BY <2>1, <2>2
  <2>4. "detail" \in FirstAsked BY DEF FirstAsked
  <2>5. wanted \subseteq wanted' /\ invited \subseteq invited' /\ g \in GroupIds BY <1>1, <2>1
  <2> QED BY <2>3, <2>4, <2>5, BeginKeeps
<1>5. ASSUME NEW a \in Humans, DoFriendList(c, a) \/ DoFriendIncoming(c, a) \/ DoBlockList(c, a)
      PROVE  DirInv'
  <2>1. \E op \in Commanded, ep \in {"friends", "incoming", "blocked"} :
          Begin(c, op, ep, a, a, "none") /\ wanted' = wanted /\ invited' = invited
    BY <1>5 DEF DoFriendList, DoFriendIncoming, DoBlockList, SaysNothing, Commanded
  <2>2. {"friends", "incoming", "blocked"} \subseteq FirstAsked BY DEF FirstAsked
  <2> QED BY <1>0, <1>1, <2>1, <2>2, BeginKeeps
<1>6. ASSUME NEW a \in Humans, NEW g \in Known, DoGroupQuit(c, a, g) \/ DoGroupDetail(c, a, g)
      PROVE  DirInv'
  <2>1. \E op \in Commanded :
          Begin(c, op, "detail", a, a, g) /\ wanted' = wanted /\ invited' = invited
    BY <1>6 DEF DoGroupQuit, DoGroupDetail, SaysNothing, Commanded
  <2>2. "detail" \in FirstAsked BY DEF FirstAsked
  <2> QED BY <1>0, <1>1, <2>1, <2>2, BeginKeeps
<1> QED BY <1>2, <1>3, <1>4, <1>5, <1>6 DEF Commands
-----------------------------------------------------------------------------
(* What a handler goes on with after an answer. *)
Asked(t) == t.at \in Questions \cup {"is_blocked", "is_friend"} /\ People(t)

GoesOnWith(u, e) ==
  /\ u \in TaskSet /\ e \in CallSet /\ e.st \in {"off", "pick"}
  /\ e.st = "pick" => e.req.ep = "insert"
  /\ u.op = "idle" \/ u.at \in Questions => e.st = "off"
  /\ u.at \notin {"is_blocked", "is_friend"}
  /\ u.at \in Questions => People(u)

LEMMA RestsWith == GoesOnWith(Resting, NoCall) /\ CallAfter(Resting) = NoCall
<1>1. Resting.at \notin Questions /\ Resting.at \notin {"is_blocked", "is_friend"}
      /\ Resting.at # "insert"
  BY CallShapes DEF Questions
<1> QED BY <1>1, CallShapes DEF GoesOnWith, CallAfter

LEMMA Decided ==
  ASSUME NEW t \in TaskSet, Asked(t), NEW v
  PROVE  GoesOnWith(Decide(t, v), CallAfter(Decide(t, v)))
<1>1. CASE Decide(t, v) = Resting BY <1>1, RestsWith
<1>2. CASE Decide(t, v) = [t EXCEPT !.at = "friend_check"]
  <2> PICK u : u = [t EXCEPT !.at = "friend_check"] OBVIOUS
  <2>1. "friend_check" \in Questions BY DEF Questions
  <2>0. t.op # "idle" BY DEF Asked, TaskSet, Questions
  <2>2. u \in TaskSet /\ u.at = "friend_check" /\ u.a = t.a /\ u.b = t.b BY <2>0, <2>1 DEF TaskSet
  <2>3. CallAfter(u) = NoCall BY <2>2 DEF CallAfter
  <2>4. u = Decide(t, v) BY <1>2
  <2>5. People(u) /\ u.at \notin {"is_blocked", "is_friend"} BY <2>2 DEF Asked, People
  <2>6. NoCall \in CallSet /\ NoCall.st = "off" BY CallShapes
  <2>7. GoesOnWith(u, NoCall) BY <2>2, <2>5, <2>6 DEF GoesOnWith
  <2> QED BY <2>3, <2>4, <2>7
<1>3. CASE t.op = "talk" /\ Decide(t, v) = [t EXCEPT !.at = "insert"]
  <2> PICK u : u = [t EXCEPT !.at = "insert"] OBVIOUS
  <2>1. "insert" \in Endpoints /\ "insert" \notin Questions BY DEF Endpoints, Questions
  <2>2. u \in TaskSet /\ u.at = "insert" /\ u.op = "talk" BY <1>3, <2>1 DEF TaskSet
  <2> PICK r : r = RequestOf(u, "insert") OBVIOUS
  <2>3. r \in ReqSet /\ r.ep = "insert" BY <2>1, <2>2, RequestShape
  <2>4. CallAfter(u) = Calling(r) BY <2>2 DEF CallAfter
  <2>5. Calling(r) \in CallSet /\ Calling(r).st = "pick" /\ Calling(r).req = r
    BY <2>3, CallShapes
  <2>6. u = Decide(t, v) BY <1>3
  <2>7. u.op # "idle" /\ u.at \notin Questions /\ u.at \notin {"is_blocked", "is_friend"}
    BY <2>1, <2>2
  <2> QED BY <2>2, <2>3, <2>4, <2>5, <2>6, <2>7 DEF GoesOnWith
<1> QED BY <1>1, <1>2, <1>3 DEF Decide

LEMMA InsertIsOk ==
  ASSUME NEW r, r.ep = "insert"
  PROVE  ReqOk(r)'
BY DEF ReqOk

LEMMA CachedKeeps ==
  ASSUME DirInv, NEW c \in Tasks, CachedBool(c)
  PROVE  DirInv'
<1> PICK t : t = task[c] OBVIOUS
<1> PICK k : k = KeyOf(t) OBVIOUS
<1>1. t \in TaskSet /\ t.at \in {"blocked_check", "friend_check"}
  BY DEF DirInv, DirTypes, CachedBool
<1>2. t.at \in Questions /\ t.op # "idle" BY <1>1 DEF Questions, TaskSet
<1>3. calling[c].st = "off" /\ People(t) BY <1>2 DEF DirInv, AskInv, People
<1>4. UNCHANGED <<backend, db, inserts, jobs, up, clients, gate, probes, entries, issued, wanted,
                  invited, overlap>>
  BY DEF CachedBool, storeVars
<1>5. /\ jobs' \subseteq JobSet
      /\ \A j \in jobs' : (\E q \in jobs : From(j, q)) /\ (j.live => j \in jobs /\ j.by # c)
  BY <1>3, <1>4, JobsRest
<1>6. CacheCoherent' /\ entries' \in [Keys -> {"none", "yes", "no"}] BY <1>4, CacheRests
<1>7. issued' \in Nat BY <1>4 DEF DirInv, DirTypes
<1>8. CASE entries[k] # "none"
  <2> PICK u : u = Decide(t, entries[k]) OBVIOUS
  <2> PICK e : e = CallAfter(u) OBVIOUS
  <2>1. GoesOnWith(u, e) BY <1>1, <1>2, <1>3, Decided DEF Asked
  <2>2. /\ task' = [task EXCEPT ![c] = u] /\ calling' = [calling EXCEPT ![c] = e]
        /\ UNCHANGED inflight
    BY <1>8 DEF CachedBool
  <2>3. e.st = "pick" => ReqOk(e.req)' BY <2>1, InsertIsOk DEF GoesOnWith
  <2> QED BY <1>4, <1>5, <1>6, <1>7, <2>1, <2>2, <2>3, OneTask DEF GoesOnWith, People
<1>9. CASE entries[k] = "none" /\ k \in inflight
  <2> PICK at : at = IF k[1] = "blocked" THEN "blocked_wait" ELSE "friend_wait" OBVIOUS
  <2> PICK u : u = [t EXCEPT !.at = at] OBVIOUS
  <2> PICK e : e = calling[c] OBVIOUS
  <2>1. at \in Questions /\ at \notin {"is_blocked", "is_friend"} BY DEF Questions
  <2>2. u \in TaskSet /\ u.at = at /\ People(u) BY <1>1, <1>2, <1>3, <2>1 DEF TaskSet, People
  <2>3. task' = [task EXCEPT ![c] = u] /\ UNCHANGED <<calling, inflight>>
    BY <1>9 DEF CachedBool
  <2>4. e \in CallSet /\ e.st = "off" /\ calling' = [calling EXCEPT ![c] = e]
    BY <1>3, <2>3 DEF DirInv, DirTypes
  <2>5. u.a \in Humans /\ u.b \in Humans /\ u.a # u.b BY <2>2 DEF People
  <2>6. u \in TaskSet /\ u.at \notin {"is_blocked", "is_friend"} BY <2>1, <2>2
  <2>7. task' = [task EXCEPT ![c] = u] /\ UNCHANGED inflight BY <2>3
  <2>8. e \in CallSet /\ e.st \in {"off", "pick"} /\ e.st # "pick" BY <2>4
  <2> QED BY <1>4, <1>5, <1>6, <1>7, <2>4, <2>5, <2>6, <2>7, <2>8, OneTask
<1>10. CASE entries[k] = "none" /\ k \notin inflight
  <2> PICK ep : ep = IF k[1] = "blocked" THEN "is_blocked" ELSE "is_friend" OBVIOUS
  <2> PICK u : u = [t EXCEPT !.at = ep] OBVIOUS
  <2> PICK r : r = RequestOf(t, ep) OBVIOUS
  <2> PICK e : e = Calling(r) OBVIOUS
  <2>1. ep \in Endpoints /\ ep \notin Questions /\ ep \in {"is_blocked", "is_friend"}
    BY DEF Endpoints, Questions
  <2>2. u \in TaskSet /\ u.at = ep /\ u.op = t.op /\ u.a = t.a /\ u.b = t.b
    BY <1>1, <1>2, <2>1 DEF TaskSet
  <2>3. r \in ReqSet /\ r.ep = ep /\ r.a = t.a /\ r.b = t.b BY <1>1, <2>1, RequestShape
  <2>4. e \in CallSet /\ e.st = "pick" /\ e.req = r BY <2>3, CallShapes
  <2>5. /\ task' = [task EXCEPT ![c] = u] /\ calling' = [calling EXCEPT ![c] = e]
        /\ inflight' = inflight \cup {k}
    BY <1>10 DEF CachedBool, Claim
  <2>6. /\ task' \in [Tasks -> TaskSet] /\ calling' \in [Tasks -> CallSet]
        /\ task'[c] = u /\ calling'[c] = e
        /\ \A d \in Tasks \ {c} : task'[d] = task[d] /\ calling'[d] = calling[d]
    BY <2>2, <2>4, <2>5 DEF DirInv, DirTypes
  <2>7. k[1] = "blocked" <=> t.at = "blocked_check" BY <1>1 DEF KeyOf
  <2>8. KeyOf(u) = k
    <3>1. k[1] = "blocked" => KeyOf(u) = k BY <2>2, <2>7 DEF KeyOf
    <3>2. k[1] # "blocked" => KeyOf(u) = k BY <1>1, <2>2, <2>7 DEF KeyOf
    <3> QED BY <3>1, <3>2
  <2>9. KeyOf(task[c])' = k BY <2>6, <2>8 DEF KeyOf
  <2>10. \A d \in Tasks \ {c} : /\ (Fetching(d)' <=> Fetching(d))
                                  /\ KeyOf(task[d])' = KeyOf(task[d])
    BY <2>6 DEF Fetching, KeyOf
  <2>11. \A d \in Tasks : Fetching(d) => KeyOf(task[d]) \in inflight /\ KeyOf(task[d]) # k
    BY <1>10 DEF DirInv, AskInv
  <2>12. SingleFlight' BY <2>9, <2>10, <2>11 DEF DirInv, AskInv, SingleFlight
  <2>13. ReqOk(calling[c].req)'
    <3>1. calling'[c].req = r BY <2>4, <2>6
    <3> QED BY <2>1, <2>3, <3>1 DEF ReqOk
  <2>14. task'[c].op # "idle"
    BY <1>2, <2>2, <2>6
  <2>15. Settles(c)
    <3>1. /\ KeyOf(task[c])' \in inflight' /\ calling'[c].req.ep = task'[c].at
          /\ calling'[c].req.a = task'[c].a /\ calling'[c].req.b = task'[c].b
      BY <2>2, <2>3, <2>4, <2>5, <2>6, <2>9
    <3>2. task'[c].a \in Humans /\ task'[c].b \in Humans /\ task'[c].a # task'[c].b
      BY <1>3, <2>2, <2>6 DEF People
    <3>3. \A j \in jobs' : j.live => j.by # c BY <1>5
    <3>4. task'[c].at \notin Questions BY <2>1, <2>2, <2>6
    <3>5. calling'[c] \in CallSet /\ task'[c] \in TaskSet /\ calling'[c].st = "pick"
      BY <2>4, <2>6
    <3> QED BY <2>13, <2>14, <3>1, <3>2, <3>3, <3>4, <3>5 DEF Settles
  <2>16. calling' = [d \in Tasks |-> calling'[d]] /\ task' = [d \in Tasks |-> task'[d]]
    BY <2>6
  <2>17. ChatStep({c})
    BY <1>4, <1>5, <1>6, <1>7, <2>5, <2>6, <2>11, <2>12, <2>15, <2>16 DEF ChatStep
  <2> QED BY <2>17, ChatStepKeeps
<1> QED BY <1>8, <1>9, <1>10

LEMMA FetchKeeps ==
  ASSUME DirInv, NEW c \in Tasks, FetchReturns(c)
  PROVE  DirInv'
<1> PICK k : k = KeyOf(task[c]) OBVIOUS
<1> PICK v : v = calling[c].res OBVIOUS
<1> PICK told : told = {c} \cup {d \in Tasks : Waits(d) /\ KeyOf(task[d]) = k} OBVIOUS
<1> PICK new : new = [d \in told |-> IF v \in {"yes", "no"} THEN Decide(task[d], v) ELSE Resting]
  OBVIOUS
<1>1. Fetching(c) /\ calling[c].st = "end" BY DEF FetchReturns
<1>2. UNCHANGED <<backend, db, inserts, jobs, up, clients, gate, probes, issued, wanted, invited,
                  overlap>>
  BY DEF FetchReturns, storeVars
<1>3. /\ inflight' = inflight \ {k}
      /\ entries' = IF v \in {"yes", "no"} THEN [entries EXCEPT ![k] = v] ELSE entries
      /\ task' = [d \in Tasks |-> IF d \in told THEN new[d] ELSE task[d]]
      /\ calling' = [d \in Tasks |-> IF d \in told THEN CallAfter(new[d]) ELSE calling[d]]
  BY DEF FetchReturns
<1>4. told \in SUBSET Tasks /\ c \in told OBVIOUS
<1>5. ASSUME NEW d \in told
      PROVE  task[d] \in TaskSet /\ Asked(task[d]) /\ calling[d].st # "sent"
  <2>0. task[d] \in TaskSet BY <1>4 DEF DirInv, DirTypes
  <2>1. Waits(d) => task[d].at \in Questions BY DEF Waits, Questions
  <2>2. Fetching(d) \/ Waits(d) BY <1>1
  <2>3. task[d].at \in Questions \cup {"is_blocked", "is_friend"} BY <2>1, <2>2 DEF Fetching
  <2>4. People(task[d]) BY <1>4, <2>1, <2>2 DEF DirInv, AskInv, People
  <2>5. Waits(d) => calling[d].st = "off" BY <1>4, <2>1 DEF DirInv, AskInv
  <2> QED BY <1>1, <2>0, <2>3, <2>4, <2>5 DEF Asked
<1>6. ASSUME NEW d \in told
      PROVE  GoesOnWith(new[d], CallAfter(new[d]))
  <2>1. new[d] = Decide(task[d], v) \/ new[d] = Resting OBVIOUS
  <2>2. GoesOnWith(Decide(task[d], v), CallAfter(Decide(task[d], v))) BY <1>5, Decided
  <2> QED BY <2>1, <2>2, RestsWith
<1>7. \A d \in told : task'[d] = new[d] /\ calling'[d] = CallAfter(new[d]) BY <1>3, <1>4
<1>8. \A d \in Tasks \ told : task'[d] = task[d] /\ calling'[d] = calling[d] BY <1>3
<1>9. \A d \in told : ~Fetching(d)' BY <1>6, <1>7 DEF Fetching, GoesOnWith
<1>10. \A d \in Tasks \ told : /\ (Fetching(d)' <=> Fetching(d))
                                 /\ KeyOf(task[d])' = KeyOf(task[d])
  BY <1>8 DEF Fetching, KeyOf
<1>11. \A d \in Tasks \ told : Fetching(d) => KeyOf(task[d]) \in inflight'
  <2>1. \A d \in Tasks \ told : Fetching(d) => d # c /\ KeyOf(task[d]) # k
    BY <1>1, <1>4 DEF DirInv, AskInv, SingleFlight
  <2> QED BY <1>3, <2>1 DEF DirInv, AskInv
<1>12. SingleFlight'
  <2>1. \A d \in Tasks : Fetching(d)' => d \in Tasks \ told BY <1>9
  <2> QED BY <1>10, <2>1 DEF DirInv, AskInv, SingleFlight
<1>13. ASSUME NEW d \in told PROVE Settles(d)
  <2>1. calling'[d] = CallAfter(new[d]) /\ task'[d] = new[d] /\ ~Fetching(d)' BY <1>7, <1>9
  <2>2. calling'[d].st = "pick" => ReqOk(calling[d].req)'
    BY <1>6, <2>1 DEF GoesOnWith, ReqOk
  <2>3. \A j \in jobs' : j.live => j.by # d BY <1>2, <1>4, <1>5, NoneLive DEF DirInv
  <2> QED BY <1>6, <2>1, <2>2, <2>3 DEF Settles, GoesOnWith, People
<1>14. k \in Keys BY <1>4, <1>5, KeyInKeys DEF Asked, People
<1>15. entries' \in [Keys -> {"none", "yes", "no"}] BY <1>3, <1>14 DEF DirInv, DirTypes
<1>16. CacheCoherent'
  <2>1. \A q \in Keys : Truth(q)' = Truth(q) BY <1>2, SameTruth
  <2>2. \A q \in Keys \ {k} : entries'[q] = entries[q] BY <1>3 DEF DirInv, DirTypes
  <2>3. v \notin {"yes", "no"} => entries'[k] = entries[k] BY <1>3
  <2>4. v \in {"yes", "no"} => entries'[k] = v BY <1>3, <1>14 DEF DirInv, DirTypes
  <2>5. v \in {"yes", "no"} /\ k \notin overlap => (v = "yes") = Truth(k)
    <3>1. v \in {"yes", "no"} /\ k \notin overlap => ((v = "yes") <=> Truth(k))
      BY <1>1 DEF DirInv, AnswerInv
    <3>2. Truth(k) \in BOOLEAN
      <4>1. CASE k[1] = "friend"
        <5>1. Truth(k) = (<<"friend", k[2]>> \in db) BY <4>1 DEF Truth
        <5> QED BY <5>1
      <4>2. CASE k[1] # "friend"
        <5>1. Truth(k) = (\E a, b \in k[2] : a # b /\ IsBlockedEither(a, b)) BY <4>2 DEF Truth
        <5>2. (\E a, b \in k[2] : a # b /\ IsBlockedEither(a, b)) \in BOOLEAN OBVIOUS
        <5> QED BY <5>1, <5>2
      <4> QED BY <4>1, <4>2
    <3> QED BY <3>1, <3>2
  <2>6. ASSUME NEW q \in Keys, entries'[q] # "none", q \notin overlap'
        PROVE  (entries'[q] = "yes") = Truth(q)'
    <3>1. CASE entries'[q] = entries[q]
      BY <1>2, <2>1, <2>6, <3>1 DEF DirInv, AnswerInv, CacheCoherent
    <3>2. CASE entries'[q] # entries[q]
      <4>1. q = k /\ v \in {"yes", "no"} BY <2>2, <2>3, <3>2
      <4>2. entries'[q] = v /\ (v = "yes") = Truth(k) BY <1>2, <2>4, <2>5, <2>6, <4>1
      <4>3. Truth(q)' = Truth(k) BY <2>1, <4>1
      <4> QED BY <4>2, <4>3
    <3> QED BY <3>1, <3>2
  <2> QED BY <2>6 DEF CacheCoherent
<1>17. calling' = [d \in Tasks |-> calling'[d]] /\ task' = [d \in Tasks |-> task'[d]] BY <1>3
<1>18. /\ jobs' \subseteq JobSet /\ issued' \in Nat
       /\ \A j \in jobs' : (\E q \in jobs : From(j, q)) /\ (j.live => j \in jobs)
  <2>1. \A j \in jobs : From(j, j) BY DEF From, Carries
  <2> QED BY <1>2, <2>1 DEF DirInv, DirTypes
<1>19. ChatStep(told)
  BY <1>2, <1>8, <1>11, <1>12, <1>13, <1>15, <1>16, <1>17, <1>18 DEF ChatStep
<1> QED BY <1>4, <1>19, ChatStepKeeps

(* The handler is over. *)
LEMMA TimeoutKeeps ==
  ASSUME DirInv, mishaps \in Nat, NEW c \in Tasks, DirectoryTimeout(c)
  PROVE  DirInv'
<1>0. DirTypes BY DEF DirInv
<1>1. /\ Orphaned(c) \subseteq JobSet
      /\ \A j \in Orphaned(c) : /\ \E k \in jobs : From(j, k)
                                /\ j.live => j \in jobs /\ j.by # c
  BY <1>0, Orphans
<1>2. /\ jobs' \subseteq JobSet
      /\ \A j \in jobs' : (\E k \in jobs : From(j, k)) /\ (j.live => j \in jobs /\ j.by # c)
  BY <1>1 DEF DirectoryTimeout
<1>3. UNCHANGED <<backend, db, inserts, up, clients, gate, probes, entries, inflight, issued,
                  wanted, invited, overlap>>
  BY DEF DirectoryTimeout
<1>4. CacheCoherent' /\ entries' \in [Keys -> {"none", "yes", "no"}] BY <1>3, CacheRests
<1>5. issued' \in Nat BY <1>0, <1>3 DEF DirTypes
<1> PICK u : u = Resting OBVIOUS
<1> PICK e : e = NoCall OBVIOUS
<1>6. GoesOnWith(u, e) /\ e.st = "off" BY RestsWith, CallShapes
<1>7. task' = [task EXCEPT ![c] = u] /\ calling' = [calling EXCEPT ![c] = e]
  BY DEF DirectoryTimeout
<1> QED BY <1>2, <1>3, <1>4, <1>5, <1>6, <1>7, OneTask DEF GoesOnWith, People

LEMMA EntryKeeps ==
  ASSUME DirInv, NEW k \in Keys, EntryGoes(k)
  PROVE  DirInv'
<1>1. UNCHANGED <<backend, db, jobs, inserts, up, clients, gate, calling, probes, task, inflight,
                  issued, wanted, invited, overlap>>
  BY DEF EntryGoes, storeVars, poolVars
<1>2. entries' \in [Keys -> {"none", "yes", "no"}] BY DEF EntryGoes, DirInv, DirTypes
<1>3. CacheCoherent'
  <2>1. \A q \in Keys : Truth(q)' = Truth(q) BY <1>1, SameTruth
  <2>2. \A q \in Keys : entries'[q] \in {"none", entries[q]} BY DEF EntryGoes, DirInv, DirTypes
  <2> QED BY <1>1, <2>1, <2>2 DEF DirInv, AnswerInv, CacheCoherent
<1>4. SingleFlight' BY <1>1 DEF DirInv, AskInv, SingleFlight, Fetching, KeyOf
<1>5. \A j \in jobs : From(j, j) BY DEF From, Carries
<1>6. calling' = [d \in Tasks |-> calling'[d]] /\ task' = [d \in Tasks |-> task'[d]]
  BY <1>1 DEF DirInv, DirTypes
<1>7. jobs' \subseteq JobSet /\ issued' \in Nat BY <1>1 DEF DirInv, DirTypes
<1>8. \A d \in Tasks : Fetching(d) => KeyOf(task[d]) \in inflight' BY <1>1 DEF DirInv, AskInv
<1>9. ChatStep({}) BY <1>1, <1>2, <1>3, <1>4, <1>5, <1>6, <1>7, <1>8 DEF ChatStep
<1> QED BY <1>9, ChatStepKeeps

-----------------------------------------------------------------------------
(* A call came back, and the handler ends or goes on with another one. *)
LEMMA ReturnKeeps ==
  ASSUME DirInv, NEW c \in Tasks, NEW t, NEW e,
         \/ GoesOnWith(t, e)
         \/ /\ t \in TaskSet /\ e \in CallSet /\ e.st = "pick" /\ t.op # "idle"
            /\ t.at \notin Questions /\ t.at \notin {"is_blocked", "is_friend"} /\ ReqOk(e.req)',
         task' = [task EXCEPT ![c] = t], calling' = [calling EXCEPT ![c] = e],
         calling[c].st = "end",
         UNCHANGED <<storeVars, up, clients, gate, probes, inflight, issued, wanted>>,
         invited \subseteq invited', CacheCoherent', entries' \in [Keys -> {"none", "yes", "no"}],
         \A d \in Tasks : Fetching(d) /\ KeyOf(task[d]) \in overlap => KeyOf(task[d]) \in overlap'
  PROVE  DirInv'
<1>1. UNCHANGED <<backend, db, inserts, jobs>> BY DEF storeVars
<1>2. /\ jobs' \subseteq JobSet
      /\ \A j \in jobs' : (\E q \in jobs : From(j, q)) /\ (j.live => j \in jobs /\ j.by # c)
  BY <1>1, JobsRest
<1>3. issued' \in Nat BY DEF DirInv, DirTypes
<1>4. CASE GoesOnWith(t, e)
  <2>1. e.st = "pick" => ReqOk(e.req)' BY <1>4 DEF GoesOnWith, ReqOk
  <2>2. /\ t \in TaskSet /\ e \in CallSet /\ e.st \in {"off", "pick"}
        /\ (t.op = "idle" \/ t.at \in Questions => e.st = "off")
        /\ t.at \notin {"is_blocked", "is_friend"}
        /\ (t.at \in Questions => t.a \in Humans /\ t.b \in Humans /\ t.a # t.b)
    BY <1>4 DEF GoesOnWith, People
  <2> QED BY <1>1, <1>2, <1>3, <2>1, <2>2, OneTask
<1>5. CASE ~GoesOnWith(t, e) BY <1>1, <1>2, <1>3, <1>5, OneTask
<1> QED BY <1>4, <1>5

LEMMA PairKeeps ==
  ASSUME DirInv, NEW c \in Tasks, PairReturns(c)
  PROVE  DirInv'
<1> PICK u : u = Resting OBVIOUS
<1> PICK e : e = NoCall OBVIOUS
<1> PICK p : p = {task[c].a, task[c].b} OBVIOUS
<1>1. GoesOnWith(u, e) BY RestsWith
<1>2. /\ task' = [task EXCEPT ![c] = u] /\ calling' = [calling EXCEPT ![c] = e]
      /\ calling[c].st = "end"
      /\ UNCHANGED <<storeVars, up, clients, gate, probes, inflight, issued, wanted, invited>>
  BY DEF PairReturns, HandlerEnds, Returned
<1>3. UNCHANGED db BY <1>2 DEF storeVars
<1>4. CASE ~Succeeded(c)
  <2>1. UNCHANGED <<entries, overlap>> BY <1>4 DEF PairReturns
  <2>2. CacheCoherent' /\ entries' \in [Keys -> {"none", "yes", "no"}] BY <1>3, <2>1, CacheRests
  <2> QED BY <1>1, <1>2, <2>1, <2>2, ReturnKeeps
<1>5. CASE Succeeded(c)
  <2>1. /\ entries' = EvictPair(p)
        /\ overlap' = {k \in overlap : k[2] = p =>
                         \E d \in Tasks : Fetching(d) /\ KeyOf(task[d]) = k}
    BY <1>5 DEF PairReturns
  <2>2. entries' \in [Keys -> {"none", "yes", "no"}] BY <2>1 DEF EvictPair, DirInv, DirTypes
  <2>3. \A d \in Tasks : Fetching(d) /\ KeyOf(task[d]) \in overlap => KeyOf(task[d]) \in overlap'
    BY <2>1
  <2>4. CacheCoherent'
    <3>1. \A k \in Keys : Truth(k)' = Truth(k) BY <1>3, SameTruth
    <3>2. \A k \in Keys : entries'[k] = IF k[2] = p THEN "none" ELSE entries[k]
      BY <2>1 DEF EvictPair
    <3>3. \A k \in Keys : k \notin overlap' /\ k[2] # p => k \notin overlap BY <2>1
    <3> QED BY <3>1, <3>2, <3>3 DEF CacheCoherent, DirInv, AnswerInv
  <2> QED BY <1>1, <1>2, <2>2, <2>3, <2>4, ReturnKeeps
<1> QED BY <1>4, <1>5

(* The others leave the cache alone. *)
LEMMA EndKeeps ==
  ASSUME DirInv, NEW c \in Tasks, Returned(c, task[c].at), HandlerEnds(c),
         UNCHANGED <<entries, overlap, invited>>
  PROVE  DirInv'
<1> PICK u : u = Resting OBVIOUS
<1> PICK e : e = NoCall OBVIOUS
<1>1. GoesOnWith(u, e) BY RestsWith
<1>2. /\ task' = [task EXCEPT ![c] = u] /\ calling' = [calling EXCEPT ![c] = e]
      /\ calling[c].st = "end"
      /\ UNCHANGED <<storeVars, up, clients, gate, probes, inflight, issued, wanted, invited>>
  BY DEF HandlerEnds, Returned
<1>3. UNCHANGED db BY <1>2 DEF storeVars
<1>4. CacheCoherent' /\ entries' \in [Keys -> {"none", "yes", "no"}] BY <1>3, CacheRests
<1> QED BY <1>1, <1>2, <1>4, ReturnKeeps

LEMMA NextKeeps ==
  ASSUME DirInv, NEW c \in Tasks, NEW at \in {"join", "members", "quit"},
         task[c].op # "idle", Returned(c, task[c].at), GoesOn(c, [task[c] EXCEPT !.at = at]),
         invited \subseteq invited', UNCHANGED <<entries, overlap>>,
         at = "join" => <<task[c].g, task[c].b>> \in invited'
  PROVE  DirInv'
<1>0. at \in Endpoints /\ at \notin Questions /\ at \notin {"is_blocked", "is_friend"}
  BY DEF Endpoints, Questions
<1>1. task[c] \in TaskSet BY DEF DirInv, DirTypes
<1> PICK u : u = [task[c] EXCEPT !.at = at] OBVIOUS
<1>2. /\ u \in TaskSet /\ u.at = at /\ u.op = task[c].op /\ u.b = task[c].b /\ u.g = task[c].g
  BY <1>0, <1>1 DEF TaskSet
<1> PICK r : r = RequestOf(u, at) OBVIOUS
<1>3. r \in ReqSet /\ r.ep = at /\ r.b = u.b /\ r.g = u.g BY <1>0, <1>2, RequestShape
<1> PICK e : e = Calling(r) OBVIOUS
<1>4. e \in CallSet /\ e.st = "pick" /\ e.req = r BY <1>3, CallShapes
<1>5. ReqOk(e.req)' BY <1>2, <1>3, <1>4 DEF ReqOk
<1>6. /\ task' = [task EXCEPT ![c] = u] /\ calling' = [calling EXCEPT ![c] = e]
      /\ calling[c].st = "end"
      /\ UNCHANGED <<storeVars, up, clients, gate, probes, inflight, issued, wanted>>
  BY <1>2 DEF GoesOn, Returned
<1>7. UNCHANGED db BY <1>6 DEF storeVars
<1>8. CacheCoherent' /\ entries' \in [Keys -> {"none", "yes", "no"}] BY <1>7, CacheRests
<1>9. u.op # "idle" /\ u.at \notin Questions /\ u.at \notin {"is_blocked", "is_friend"}
  BY <1>0, <1>2
<1> QED BY <1>2, <1>4, <1>5, <1>6, <1>8, <1>9, ReturnKeeps

LEMMA ReturnsKeep ==
  ASSUME DirInv, mishaps \in Nat, NEW c \in Tasks, Returns(c)
  PROVE  DirInv'
<1>1. CASE PairReturns(c) BY <1>1, PairKeeps
<1>2. CASE PlainReturns(c) BY <1>2, EndKeeps DEF PlainReturns
<1>3. CASE InviteReads(c)
  <2>1. task[c].op = "invite" /\ Returned(c, task[c].at) /\ UNCHANGED <<entries, overlap>>
    BY <1>3 DEF InviteReads, Returned
  <2>2. CASE HandlerEnds(c) /\ UNCHANGED invited BY <2>1, <2>2, EndKeeps
  <2>3. CASE /\ task[c].a \in calling[c].rows
             /\ GoesOn(c, [task[c] EXCEPT !.at = "join"])
             /\ invited' = invited \cup {<<task[c].g, task[c].b>>}
    BY <2>1, <2>3, NextKeeps
  <2> QED BY <1>3, <2>2, <2>3 DEF InviteReads, MayInvite
<1>4. CASE InviteJoined(c)
  BY <1>4, EndKeeps, NextKeeps DEF InviteJoined, Returned
<1>5. CASE QuitReads(c)
  BY <1>5, EndKeeps, NextKeeps DEF QuitReads, Returned
<1>6. CASE CachedBool(c) BY <1>6, CachedKeeps
<1>7. CASE FetchReturns(c) BY <1>7, FetchKeeps
<1>8. CASE DirectoryTimeout(c) BY <1>8, TimeoutKeeps
<1> QED BY <1>1, <1>2, <1>3, <1>4, <1>5, <1>6, <1>7, <1>8 DEF Returns

-----------------------------------------------------------------------------
LEMMA InitHolds ==
  ASSUME Init
  PROVE  DirInv
<1>1. DirTypes
  <2>1. calling \in [Tasks -> CallSet] /\ task \in [Tasks -> TaskSet]
    BY CallShapes DEF Init, PoolInit
  <2> QED BY <2>1 DEF Init, DirTypes
<1>2. \A c \in Tasks : calling[c].st = "off" /\ task[c].op = "idle" /\ task[c].at = "none"
  BY CallShapes DEF Init, PoolInit
<1>3. GateInv BY <1>2 DEF Init, PoolInit, GateInv
<1>4. LiveJobs BY DEF Init, LiveJobs
<1>5. \A c \in Tasks : ~Fetching(c) /\ task[c].at \notin Questions BY <1>2 DEF Fetching, Questions
<1>6. AskInv BY <1>2, <1>5 DEF AskInv, SingleFlight
<1>7. AnswerInv BY <1>5 DEF Init, AnswerInv, CacheCoherent
<1>8. WantedInv
  <2>1. PICK a \in Humans, b \in Humans :
          /\ a # b
          /\ \/ db = Owned /\ wanted = {}
             \/ db = Owned \cup {Friend(a, b)} /\ wanted = {<<a, b>>, <<b, a>>}
    BY DEF Init
  <2>2. \A r \in Owned : \E x \in Bots, y \in Humans : r = Friend(x, y)
    BY StoreAssumption DEF Owned
  <2>3. \A r \in db : \E x, y : r = Friend(x, y) BY <2>1, <2>2
  <2>4. \A f, t : Req(f, t) \notin db /\ Block(f, t) \notin db /\ Member(f, t) \notin db
    BY <2>3, OtherRows
  <2>5. ASSUME NEW f \in Humans, NEW t \in Humans, f # t, Friend(f, t) \in db
        PROVE  {<<f, t>>, <<t, f>>} \subseteq wanted
    <3>1. Friend(f, t) \notin Owned
      <4>1. ASSUME NEW x \in Bots, NEW y \in Humans, Friend(f, t) = Friend(x, y) PROVE FALSE
        <5>1. f = x \/ t = x BY <4>1, FriendRow
        <5> QED BY <5>1, StoreAssumption
      <4> QED BY <4>1, <2>2
    <3>2. Friend(f, t) = Friend(a, b) /\ wanted = {<<a, b>>, <<b, a>>} BY <2>1, <2>5, <3>1
    <3>3. (f = a /\ t = b) \/ (f = b /\ t = a) BY <3>2, FriendRow
    <3> QED BY <3>2, <3>3
  <2>6. RowsInv BY <2>4, <2>5 DEF RowsInv, FriendsByBoth, BlockedApart, InvitedByMember
  <2>7. InsertsInv BY DEF Init, InsertsInv, InsertOnce
  <2> QED BY <1>2, <2>6, <2>7 DEF Init, WantedInv
<1> QED BY <1>1, <1>3, <1>4, <1>6, <1>7, <1>8 DEF DirInv

LEMMA MishapsCount ==
  ASSUME mishaps \in Nat, [Next]_vars
  PROVE  mishaps' \in Nat
<1>0. SUFFICES mishaps' = mishaps \/ mishaps' = mishaps + 1 OBVIOUS
<1>1. ASSUME NEW c \in Tasks, Commands(c) PROVE UNCHANGED mishaps
  <2>1. ASSUME NEW op, NEW ep, NEW a, NEW b, NEW g, Begin(c, op, ep, a, b, g)
        PROVE  UNCHANGED mishaps
    BY <2>1 DEF Begin
  <2>2. ASSUME NEW a, NEW b,
               \/ DoFriendRequest(c, a, b) \/ DoFriendAccept(c, a, b) \/ DoFriendReject(c, a, b)
               \/ DoFriendRemove(c, a, b) \/ DoBlockAdd(c, a, b) \/ DoBlockRemove(c, a, b)
               \/ DoTyping(c, a, b) \/ DoGroupCreate(c, a, b)
        PROVE  UNCHANGED mishaps
    BY <2>1, <2>2 DEF DoFriendRequest, DoFriendAccept, DoFriendReject, DoFriendRemove, DoBlockAdd,
                      DoBlockRemove, DoTyping, DoGroupCreate
  <2>3. ASSUME NEW a, NEW b, NEW g,
               \/ DoUserTalk(c, a, b, g) \/ DoGroupInvite(c, a, b, g) \/ DoGroupQuit(c, a, g)
               \/ DoGroupDetail(c, a, g)
        PROVE  UNCHANGED mishaps
    BY <2>1, <2>3 DEF DoUserTalk, DoGroupInvite, DoGroupQuit, DoGroupDetail
  <2>4. ASSUME NEW a, DoFriendList(c, a) \/ DoFriendIncoming(c, a) \/ DoBlockList(c, a)
        PROVE  UNCHANGED mishaps
    BY <2>1, <2>4 DEF DoFriendList, DoFriendIncoming, DoBlockList
  <2> QED BY <1>1, <2>2, <2>3, <2>4 DEF Commands
<1>2. ASSUME NEW c \in Tasks, Returns(c) PROVE mishaps' = mishaps \/ mishaps' = mishaps + 1
  BY <1>2 DEF Returns, PairReturns, PlainReturns, InviteReads, InviteJoined, QuitReads, Returned,
              CachedBool, FetchReturns, DirectoryTimeout
<1>3. ASSUME NEW k \in Keys, EntryGoes(k) PROVE UNCHANGED mishaps
  BY <1>3 DEF EntryGoes, poolVars
<1>4. CASE Behind
  BY <1>4 DEF Behind, PoolNext, poolVars, LoadGate, PickHealthy, CompareExchange, NoClient,
              TransportError, Receive, WindowPasses, Refresh, InstanceStops, InstanceStarts,
              ServeFails
<1>5. CASE UNCHANGED vars BY <1>5 DEF vars, poolVars
<1> QED BY <1>1, <1>2, <1>3, <1>4, <1>5 DEF Next

LEMMA NextHolds ==
  ASSUME DirInv, mishaps \in Nat, [Next]_vars
  PROVE  DirInv'
<1>1. ASSUME NEW c \in Tasks, Commands(c) PROVE DirInv' BY <1>1, CommandsKeep
<1>2. ASSUME NEW c \in Tasks, Returns(c) PROVE DirInv' BY <1>2, ReturnsKeep
<1>3. ASSUME NEW k \in Keys, EntryGoes(k) PROVE DirInv' BY <1>3, EntryKeeps
<1>4. CASE Behind BY <1>4, BehindKeeps
<1>5. CASE UNCHANGED vars
  <2>1. /\ UNCHANGED <<backend, db, jobs, inserts, up, clients, gate, calling, probes, task,
                       entries, inflight, issued, wanted, invited, overlap>>
    BY <1>5 DEF vars, storeVars, poolVars, chatVars
  <2>2. PoolStep
    <3>1. GateInv' BY <2>1 DEF DirInv, GateInv
    <3> QED BY <2>1, <3>1, StillCalls, JobsStay
  <2> QED BY <2>1, <2>2, PoolStepKeeps DEF ChatStill
<1> QED BY <1>1, <1>2, <1>3, <1>4, <1>5 DEF Next

(* Every friendship in the store was wanted by both, a block leaves nothing*)
(* between its two in the memory directory, nobody is in a group without   *)
(* having been let in, and a talk with a client id is stored once, for any *)
(* number of accounts, handlers, instances and attempts (service.rs, the   *)
(* two directories, the insert of the two stores).                         *)
THEOREM RelationSafety == Spec => []RelationsSound
<1> DEFINE Inv == DirInv /\ mishaps \in Nat
<1>1. Init => Inv BY InitHolds DEF Init, PoolInit
<1>2. Inv /\ [Next]_vars => Inv' BY NextHolds, MishapsCount
<1>3. Inv => RelationsSound BY DEF DirInv, WantedInv, InsertsInv, RowsInv, RelationsSound
<1> HIDE DEF Inv
<1> QED BY <1>1, <1>2, <1>3, PTL DEF Spec

(* A cached answer is current or its change is accounted for, a key is     *)
(* fetched by one task, and an open breaker lets one request through in a  *)
(* window, for any number of tasks and instances (social_cache.rs,         *)
(* royal_pool.rs).                                                         *)
THEOREM LookupSafety == Spec => []LookupsSound
<1> DEFINE Inv == DirInv /\ mishaps \in Nat
<1>1. Init => Inv BY InitHolds DEF Init, PoolInit
<1>2. Inv /\ [Next]_vars => Inv' BY NextHolds, MishapsCount
<1>3. Inv => LookupsSound BY DEF DirInv, AnswerInv, AskInv, GateInv, OneProbe, LookupsSound
<1> HIDE DEF Inv
<1> QED BY <1>1, <1>2, <1>3, PTL DEF Spec
=============================================================================
