----------------------------- MODULE RoyalCalls -----------------------------
(***************************************************************************)
(* How calls reach royal.                                                  *)
(*                                                                         *)
(* Services sign theirs: the timestamp of the sender's clock, a nonce used *)
(* once and a MAC.  The server accepts a timestamp within MAX_SKEW_SECS of *)
(* its own clock and claims the nonce, which it keeps long enough to know  *)
(* the call again as long as the timestamp passes.  Time runs in half      *)
(* seconds, because both sides round down to seconds.                      *)
(*                                                                         *)
(* Clients seal passwords with a key they fetch from royal and keep for    *)
(* SEAL_KEY_TTL; a royal that was started with another key refuses the     *)
(* seal and the client tries once more with a key fetched anew.            *)
(***************************************************************************)
EXTENDS Integers

CONSTANTS
  Calls,          \* signed calls; a call is its nonce
  Callers,        \* concurrent requests of one AuthClient
  MAX_SKEW_SECS,
  Offsets,        \* how far a sender's clock may be ahead, in seconds
  SEAL_KEY_TTL,   \* in half seconds
  MaxClock,       \* per topic
  MaxKeys, MaxRequests

VARIABLES
  clock,
  signed,   \* call -> its timestamp, or none
  seen,     \* call -> when its nonce was claimed, or none
  ran,      \* call -> how often it was executed
  key,      \* the key id royal seals with
  cached,   \* the client's seal_cache: [key, at]
  call,     \* caller -> its request
  asked,    \* requests made so far
  spoiled,  \* a request failed for its key without cause (history)
  topic     \* what a behaviour is about: signed calls or sealed passwords

hmacVars == <<signed, seen, ran>>
sealVars == <<key, cached, call, asked, spoiled, topic>>
callVars == <<clock, hmacVars, sealVars>>

None == -1
Secs(t) == t \div 2

-----------------------------------------------------------------------------
(* Signed calls. *)

(* Mutant: the nonce is kept for the skew on both sides and no longer. *)
NonceTtlTight == 2 * MAX_SKEW_SECS

HMAC_NONCE_TTL_SECS == 2 * MAX_SKEW_SECS + 1

(* Every attempt of a caller is signed anew, as a call of its own. *)
Sign(c, off) ==
  /\ topic = "signed" /\ signed[c] = None
  /\ signed' = [signed EXCEPT ![c] = Secs(clock) + off]
  /\ UNCHANGED <<clock, seen, ran, sealVars>>

Verify(c) ==
  LET d == Secs(clock) - signed[c] IN d <= MAX_SKEW_SECS /\ -d <= MAX_SKEW_SECS

Kept(c) == seen[c] # None /\ Secs(clock - seen[c]) < HMAC_NONCE_TTL_SECS

(* The call arrives, for the first time or again. *)
RequireHmac(c) ==
  /\ signed[c] # None /\ Verify(c) /\ ~Kept(c)
  /\ seen' = [seen EXCEPT ![c] = clock] /\ ran' = [ran EXCEPT ![c] = @ + 1]
  /\ UNCHANGED <<clock, signed, sealVars>>

(* The store of the nonces fails after it has taken the nonce. *)
ClaimFails(c) ==
  /\ signed[c] # None /\ Verify(c) /\ ~Kept(c)
  /\ seen' = [seen EXCEPT ![c] = clock]
  /\ UNCHANGED <<clock, signed, ran, sealVars>>

-----------------------------------------------------------------------------
(* Sealed passwords. *)

NoKey == [key |-> 0, at |-> 0]
Idle == [pc |-> "idle"]
At(x, pc) == call[x].pc = pc
Go(x, r) == call' = [call EXCEPT ![x] = r]

Fresh == cached.key # 0 /\ clock - cached.at < SEAL_KEY_TTL

(* seal_key: from the cache, or a request of its own.  known is the key    *)
(* royal had at this moment, refilled whether another request has stored a *)
(* key since this one dropped the cache.                                   *)
SealKey(x, retry, refilled) ==
  Go(x, [pc |-> IF Fresh THEN "post" ELSE "fetch", key |-> IF Fresh THEN cached.key ELSE 0,
         retry |-> retry, known |-> key, refilled |-> refilled])

PostAuth(x) ==
  /\ topic = "sealed" /\ At(x, "idle") /\ asked < MaxRequests /\ asked' = asked + 1
  /\ SealKey(x, TRUE, FALSE)
  /\ UNCHANGED <<clock, hmacVars, key, cached, spoiled, topic>>

PasswordKey(x) ==
  /\ At(x, "fetch")
  /\ Go(x, [call[x] EXCEPT !.pc = "store", !.key = key])
  /\ UNCHANGED <<clock, hmacVars, key, cached, asked, spoiled, topic>>

StoreKey(x) ==
  /\ At(x, "store")
  /\ cached' = [key |-> call[x].key, at |-> clock]
  /\ call' = [y \in Callers |-> IF y = x THEN [call[x] EXCEPT !.pc = "post"]
                                ELSE IF At(y, "again") THEN [call[y] EXCEPT !.refilled = TRUE]
                                ELSE call[y]]
  /\ UNCHANGED <<clock, hmacVars, key, asked, spoiled, topic>>

Unseals(x) == call[x].key = key

(* resolve_password_field accepts the seal; the rest is in Accounts. *)
Accepted(x) ==
  /\ At(x, "post") /\ Unseals(x) /\ Go(x, Idle)
  /\ UNCHANGED <<clock, hmacVars, key, cached, asked, spoiled, topic>>

(* Mutant: the cache is kept. *)
InvalidateNot == UNCHANGED cached

InvalidateSealCache == cached' = NoKey

Mismatch(x) ==
  /\ At(x, "post") /\ ~Unseals(x) /\ call[x].retry
  /\ InvalidateSealCache
  /\ Go(x, [pc |-> "again", refilled |-> FALSE])
  /\ UNCHANGED <<clock, hmacVars, key, asked, spoiled, topic>>

Again(x) ==
  /\ At(x, "again") /\ SealKey(x, FALSE, call[x].refilled)
  /\ UNCHANGED <<clock, hmacVars, key, cached, asked, spoiled, topic>>

GivesUp(x) ==
  /\ At(x, "post") /\ ~Unseals(x) /\ ~call[x].retry
  /\ Go(x, Idle)
  /\ spoiled' = (spoiled \/ (call[x].known = key /\ ~call[x].refilled))
  /\ UNCHANGED <<clock, hmacVars, key, cached, asked, topic>>

(* Royal is started again with another key. *)
RotateKey ==
  /\ topic = "sealed" /\ key < MaxKeys /\ key' = key + 1
  /\ UNCHANGED <<clock, hmacVars, cached, call, asked, spoiled, topic>>

-----------------------------------------------------------------------------
Tick == clock < MaxClock[topic] /\ clock' = clock + 1 /\ UNCHANGED <<hmacVars, sealVars>>

CallsInit ==
  /\ clock \in 2 * MAX_SKEW_SECS .. 2 * MAX_SKEW_SECS + 1
  /\ signed = [c \in Calls |-> None] /\ seen = [c \in Calls |-> None]
  /\ ran = [c \in Calls |-> 0]
  /\ key = 1 /\ cached = NoKey /\ call = [x \in Callers |-> Idle] /\ asked = 0
  /\ spoiled = FALSE /\ topic \in DOMAIN MaxClock

CallsNext ==
  \/ Tick \/ RotateKey
  \/ \E c \in Calls : \/ \E off \in Offsets : Sign(c, off)
                      \/ RequireHmac(c) \/ ClaimFails(c)
  \/ \E x \in Callers : \/ PostAuth(x) \/ PasswordKey(x) \/ StoreKey(x)
                        \/ Accepted(x) \/ Mismatch(x) \/ Again(x) \/ GivesUp(x)

CallsSpec == CallsInit /\ [][CallsNext]_callVars

-----------------------------------------------------------------------------
(* A signed call is executed at most once, whatever the clocks of the two  *)
(* sides and however often and late it arrives.                            *)
ExecutedOnce == \A c \in Calls : ran[c] <= 1

(* A request fails for its key only if royal changed the key after it had  *)
(* turned to it for the second time, or if another request stored a key    *)
(* after this one had dropped the cache.                                   *)
KeyErrorExplained == ~spoiled
=============================================================================
