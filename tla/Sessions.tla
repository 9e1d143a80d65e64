------------------------------ MODULE Sessions -------------------------------
(***************************************************************************)
(* One account's connections from the gateway to the session store: the    *)
(* life of a channel at the gateway, the sign-in and sign-out it forwards  *)
(* to a chat instance, the locations chat keeps, the kickouts that come    *)
(* back, and the tokens royal revokes.                                     *)
(*                                                                         *)
(* A channel id is never reused (a counter of the gateway), so a channel   *)
(* lives once.  Each channel logs in with a token of its own, which always *)
(* has a jti.  Sign-in and sign-out of a channel travel in order to one    *)
(* chat instance and are handled in order there (the lane key of chat is   *)
(* the channel id); two instances are not ordered.                         *)
(***************************************************************************)
EXTENDS Naturals, Sequences, FiniteSets

CONSTANTS
    Channels,   \* the account's channels, each used once
    Mobile,     \* those of an exclusive device
    Bound,      \* those whose token names a device
    Chats,      \* chat instances
    Home,       \* the instance the hash of a channel selects among all
    AdminAt,    \* the instance royal's chat_url names
    Grace,      \* HEARTBEAT_REVOKE_ERROR_GRACE
    MaxMoves    \* bound on logouts, password changes and changes of the adults

ASSUME SessionsAssumption ==
    /\ IsFiniteSet(Channels) /\ IsFiniteSet(Chats) /\ Mobile \subseteq Channels
    /\ Bound \subseteq Channels
    /\ Home \in [Channels -> Chats] /\ AdminAt \in Chats
    /\ Grace \in Nat \ {0} /\ MaxMoves \in Nat

None == "none"

VARIABLES
    issued,     \* channels whose client holds a token
    revoked,    \* those whose jti royal has revoked
    outdated,   \* those whose token version lies below the durable epoch
    unseen,     \* those of them above the cached epoch, which the gateway reads
    ch,         \* the channel at the gateway: st, errs, and in / out: the
                \* instance its sign-in and its sign-out were sent to
    draining,   \* the gateway has begun to shut down
    adults,     \* chat instances the gateway's container may select
    moves,      \* of MaxMoves, those left
    lane,       \* packets of a channel at an instance, not handled yet
    job,        \* the sign-in of a channel: idle, add, fill, done, refused
    locs,       \* channels with a location in the session store
    kicks,      \* channels an instance has a kickout on its way for
    admin,      \* ChatAdmin::kick: on, todo (locations left to kick)
    lost,       \* channels whose sign-out or clean-up was lost (history)
    unkicked    \* channels whose kickout was lost with an uplink (history)

royalVars == <<issued, revoked, outdated, unseen>>
gateVars == <<ch, draining>>
chatVars == <<lane, job, locs, kicks, admin>>
vars == <<royalVars, gateVars, adults, moves, chatVars, lost, unkicked>>

(* The tokens that no longer count, and those the gateway can tell. *)
Stale == revoked \cup outdated
Refused == revoked \cup (outdated \ unseen)

(***************************************************************************)
(* Royal: tokens.                                                          *)
(***************************************************************************)
(* login, register: a token is issued under the epoch of this moment. *)
Issue(c) ==
    /\ c \notin issued
    /\ issued' = issued \cup {c}
    /\ UNCHANGED <<revoked, outdated, unseen, gateVars, adults, moves, chatVars, lost, unkicked>>

(* kick_account: the request to chat is made once and may fail. *)
KickAccount == admin' \in {admin, [admin EXCEPT !.on = TRUE]}

(* logout: the token's jti is revoked, then the account is kicked. *)
Logout(c) ==
    /\ c \in issued \ Stale /\ ~admin.on /\ moves > 0
    /\ moves' = moves - 1
    /\ revoked' = revoked \cup {c}
    /\ KickAccount
    /\ UNCHANGED <<issued, outdated, unseen, gateVars, adults, lane, job, locs, kicks, lost, unkicked>>

(* change_password: every token issued so far is below the new epoch.  If  *)
(* the epoch cannot be cached the call fails here: the gateway does not    *)
(* learn of it and nobody is kicked.                                       *)
ChangePassword(c) ==
    /\ c \in issued \ Stale /\ ~admin.on /\ moves > 0
    /\ moves' = moves - 1
    /\ outdated' = issued
    /\ \/ unseen' = {} /\ KickAccount
       \/ unseen' = unseen \cup (issued \ outdated) /\ UNCHANGED admin
    /\ UNCHANGED <<issued, revoked, gateVars, adults, lane, job, locs, kicks, lost, unkicked>>

(* account_epoch: whoever asks royal about the account's epoch (a call     *)
(* with a bearer token, a gateway without Redis) writes it to the cache.   *)
WarmEpoch ==
    /\ unseen # {}
    /\ unseen' = {}
    /\ UNCHANGED <<issued, revoked, outdated, gateVars, adults, moves, chatVars, lost, unkicked>>

(***************************************************************************)
(* The gateway.                                                            *)
(***************************************************************************)
(* The selector: a function of the packet's header and of the adult        *)
(* instances (HashSelector, or RouteSelector with its slots and zones).    *)
Lookup(c) == IF Home[c] \in adults THEN Home[c] ELSE CHOOSE x \in adults : TRUE

(* Mutant: the packet overtakes what the instance has of the channel. *)
SendFirst(c, op) == lane' = [lane EXCEPT ![Lookup(c)][c] = <<op>> \o @]

(* Container::forward over the connection to that instance. *)
Send(c, op) == lane' = [lane EXCEPT ![Lookup(c)][c] = Append(@, op)]

(* accept: jti, epoch and device are checked, any error refuses the login; *)
(* the channel's meta and pending entries are kept from here on.           *)
Accept(c) ==
    /\ ch[c].st = "idle" /\ c \in issued \ Refused /\ ~draining
    /\ ch' = [ch EXCEPT ![c].st = "accepted"]
    /\ UNCHANGED <<royalVars, draining, adults, moves, chatVars, lost, unkicked>>

(* on_channel_ready: the sign-in is forwarded, the channel reads. *)
OnChannelReady(c) ==
    /\ ch[c].st = "accepted" /\ adults # {}
    /\ Send(c, "in")
    /\ ch' = [ch EXCEPT ![c].st = "open", ![c].in = Lookup(c)]
    /\ UNCHANGED <<royalVars, draining, adults, moves, job, locs, kicks, admin, lost, unkicked>>

(* No adult instance, or the connection to it fails: the login is answered *)
(* ServiceUnavailable and the channel is dropped.                          *)
ReadyFails(c) ==
    /\ ch[c].st = "accepted"
    /\ ch' = [ch EXCEPT ![c].st = "gone"]
    /\ UNCHANGED <<royalVars, draining, adults, moves, chatVars, lost, unkicked>>

(* close_channel: the read loop of the channel ends; its count of errors   *)
(* is not read again.                                                      *)
Close(c) == ch' = [ch EXCEPT ![c].st = "closing", ![c].errs = 0]

(* Mutant: only the jti is looked at. *)
CloseOnJti(c, ok, errs) == (ok.jti /\ c \in revoked) \/ errs >= Grace

(* A revoked jti, a version below the cached epoch or the Grace-th error closes.  *)
(* No operation of royal takes a device back, so device_ok never says no.  *)
CloseOnBeat(c, ok, errs) ==
    \/ ok.jti /\ c \in revoked
    \/ ok.epoch /\ c \in outdated \ unseen
    \/ errs >= Grace

(* heartbeat: jti, epoch and, for a bound token, device are asked in turn. *)
(* Each may fail and is then counted; an answer about the jti clears the   *)
(* count of the failures before it.                                        *)
Heartbeat(c, ok) ==
    /\ ch[c].st = "open"
    /\ LET failed == (IF ok.epoch THEN 0 ELSE 1) + (IF c \in Bound /\ ~ok.device THEN 1 ELSE 0)
           errs == (IF ok.jti THEN 0 ELSE ch[c].errs + 1) + failed
       IN IF CloseOnBeat(c, ok, errs) THEN Close(c) ELSE ch' = [ch EXCEPT ![c].errs = errs]
    /\ UNCHANGED <<royalVars, draining, adults, moves, chatVars, lost, unkicked>>

(* The client closes, the read times out or the write mailbox is full. *)
ConnEnds(c) ==
    /\ ch[c].st = "open"
    /\ Close(c)
    /\ UNCHANGED <<royalVars, draining, adults, moves, chatVars, lost, unkicked>>

(* deliver_down and KickHook::after_push: a kickout that is written to a   *)
(* channel closes it; one for a channel that is gone is dropped.           *)
DeliverKick(c) ==
    /\ \E x \in Chats : c \in kicks[x] /\ kicks' = [kicks EXCEPT ![x] = @ \ {c}]
    /\ IF ch[c].st = "open" THEN Close(c) ELSE UNCHANGED ch
    /\ UNCHANGED <<royalVars, draining, adults, moves, lane, job, locs, admin, lost, unkicked>>

(* disconnect: the sign-out is forwarded; if that fails nobody retries. *)
Disconnect(c) ==
    /\ ch[c].st = "closing"
    /\ \/ /\ adults # {}
          /\ Send(c, "out")
          /\ ch' = [ch EXCEPT ![c].st = "gone", ![c].out = Lookup(c)]
          /\ UNCHANGED lost
       \/ /\ ch' = [ch EXCEPT ![c].st = "gone"]
          /\ lost' = lost \cup {c}
          /\ UNCHANGED lane
    /\ UNCHANGED <<royalVars, draining, adults, moves, job, locs, kicks, admin, unkicked>>

(* The connection between the gateway and instance x dies with the packets *)
(* queued on either side: those in the lanes, and the kickouts, which were *)
(* pushed once the write loop had them.  What is being handled goes on.    *)
UplinkLost(x) ==
    /\ kicks[x] # {} \/ \E c \in Channels : lane[x][c] # <<>>
    /\ lane' = [lane EXCEPT ![x] = [c \in Channels |->
                    IF job[c] \in {"add", "fill"} /\ @[c] # <<>> /\ Head(@[c]) = "in"
                    THEN <<"in">> ELSE <<>>]]
    /\ lost' = lost \cup {c \in Channels : lane[x][c] # <<>> /\ lane[x][c][Len(lane[x][c])] = "out"}
    /\ kicks' = [kicks EXCEPT ![x] = {}]
    /\ unkicked' = unkicked \cup kicks[x]
    /\ UNCHANGED <<royalVars, gateVars, adults, moves, job, locs, admin>>

(* Server::shutdown: no new channel; those that do not end while it drains *)
(* are closed and their tasks aborted, the sign-out with them.             *)
Shutdown ==
    /\ ~draining
    /\ draining' = TRUE
    /\ UNCHANGED <<royalVars, ch, adults, moves, chatVars, lost, unkicked>>

AbortChannel(c) ==
    /\ draining /\ ch[c].st \in {"accepted", "open", "closing"}
    /\ ch' = [ch EXCEPT ![c].st = "gone", ![c].errs = 0]
    /\ lost' = lost \cup {c}
    /\ UNCHANGED <<royalVars, draining, adults, moves, chatVars, unkicked>>

(* The container's adult instances change. *)
AdultsMove(S) ==
    /\ moves > 0 /\ S # adults
    /\ adults' = S /\ moves' = moves - 1
    /\ UNCHANGED <<royalVars, gateVars, chatVars, lost, unkicked>>

(***************************************************************************)
(* Chat.                                                                   *)
(***************************************************************************)
Head1(x, c, op) == lane[x][c] # <<>> /\ Head(lane[x][c]) = op
Pop(x, c) == lane' = [lane EXCEPT ![x][c] = Tail(@)]

(* The locations a sign-in of channel c kicks out. *)
Victims(c) == IF c \in Mobile THEN (locs \cap Mobile) \ {c} ELSE {}

(* do_sys_login: locations are listed and other mobile ones kicked out;    *)
(* they leave the store only by their own sign-out.                        *)
LoginLists(x, c) ==
    /\ Head1(x, c, "in") /\ job[c] = "idle"
    /\ kicks' = [kicks EXCEPT ![x] = @ \cup Victims(c)]
    /\ job' = [job EXCEPT ![c] = "add"]
    /\ UNCHANGED <<royalVars, gateVars, adults, moves, lane, locs, admin, lost, unkicked>>

(* A lookup, the upsert or the listing fails, or the account is a bot's:   *)
(* the login is answered and no location made.                             *)
LoginFails(x, c) ==
    /\ Head1(x, c, "in") /\ job[c] \in {"idle", "add"}
    /\ Pop(x, c)
    /\ job' = [job EXCEPT ![c] = "refused"]
    /\ UNCHANGED <<royalVars, gateVars, adults, moves, locs, kicks, admin, lost, unkicked>>

LoginAdds(x, c) ==
    /\ Head1(x, c, "in") /\ job[c] = "add"
    /\ locs' = locs \cup {c}
    /\ job' = [job EXCEPT ![c] = "fill"]
    /\ UNCHANGED <<royalVars, gateVars, adults, moves, lane, kicks, admin, lost, unkicked>>

(* The receipts are backfilled; presence is told (module Presence). *)
LoginDone(x, c) ==
    /\ Head1(x, c, "in") /\ job[c] = "fill"
    /\ Pop(x, c)
    /\ job' = [job EXCEPT ![c] = "done"]
    /\ UNCHANGED <<royalVars, gateVars, adults, moves, locs, kicks, admin, lost, unkicked>>

(* The backfill fails: the location is taken back. *)
BackfillFails(x, c) ==
    /\ Head1(x, c, "in") /\ job[c] = "fill"
    /\ Pop(x, c)
    /\ job' = [job EXCEPT ![c] = "refused"]
    /\ locs' = locs \ {c}
    /\ UNCHANGED <<royalVars, gateVars, adults, moves, kicks, admin, lost, unkicked>>

(* receive and do_sys_logout: without a session the packet is answered     *)
(* SessionNotFound and forgotten.                                          *)
HandleSignOut(x, c) ==
    /\ Head1(x, c, "out")
    /\ Pop(x, c)
    /\ locs' = locs \ {c}
    /\ UNCHANGED <<royalVars, gateVars, adults, moves, job, kicks, admin, lost, unkicked>>

(* The store cannot delete: the location stays. *)
SignOutFails(x, c) ==
    /\ Head1(x, c, "out") /\ c \in locs
    /\ Pop(x, c)
    /\ lost' = lost \cup {c}
    /\ UNCHANGED <<royalVars, gateVars, adults, moves, job, locs, kicks, admin, unkicked>>

(* SESSION_TTL: no channel behind the locations has pinged for a while. *)
Expire ==
    /\ locs # {} /\ \A c \in locs : ch[c].st # "open"
    /\ locs' = {}
    /\ UNCHANGED <<royalVars, gateVars, adults, moves, lane, job, kicks, admin, lost, unkicked>>

(* ChatAdmin::kick lists the locations, then takes them one by one: the    *)
(* kickout is pushed and the location deleted.                             *)
AdminLists ==
    /\ admin.on /\ admin.todo = {}
    /\ admin' = [on |-> locs # {}, todo |-> locs]
    /\ UNCHANGED <<royalVars, gateVars, adults, moves, lane, job, locs, kicks, lost, unkicked>>

AdminKicks(c) ==
    /\ c \in admin.todo
    /\ kicks' = [kicks EXCEPT ![AdminAt] = @ \cup {c}]
    /\ locs' = locs \ {c}
    /\ admin' = [on |-> admin.todo # {c}, todo |-> admin.todo \ {c}]
    /\ UNCHANGED <<royalVars, gateVars, adults, moves, lane, job, lost, unkicked>>

(* A push that fails ends the kick, the locations behind it untouched. *)
AdminFails ==
    /\ admin.todo # {}
    /\ admin' = [on |-> FALSE, todo |-> {}]
    /\ UNCHANGED <<royalVars, gateVars, adults, moves, lane, job, locs, kicks, lost, unkicked>>

Init ==
    /\ issued = {} /\ revoked = {} /\ outdated = {} /\ unseen = {}
    /\ ch = [c \in Channels |-> [st |-> "idle", errs |-> 0, in |-> None, out |-> None]]
    /\ draining = FALSE
    /\ adults = Chats /\ moves = MaxMoves
    /\ lane = [x \in Chats |-> [c \in Channels |-> <<>>]]
    /\ job = [c \in Channels |-> "idle"]
    /\ locs = {} /\ kicks = [x \in Chats |-> {}] /\ lost = {} /\ unkicked = {}
    /\ admin = [on |-> FALSE, todo |-> {}]

GateStep(c) == OnChannelReady(c) \/ ReadyFails(c) \/ Disconnect(c)

LoginStep(x, c) ==
    \/ LoginLists(x, c) \/ LoginFails(x, c) \/ LoginAdds(x, c)
    \/ LoginDone(x, c) \/ BackfillFails(x, c)

SignOutStep(x, c) == HandleSignOut(x, c) \/ SignOutFails(x, c)

AdminStep == AdminLists \/ AdminFails \/ \E c \in Channels : AdminKicks(c)

Next ==
    \/ \E c \in Channels :
        \/ Issue(c) \/ Logout(c) \/ ChangePassword(c)
        \/ Accept(c) \/ ConnEnds(c) \/ AbortChannel(c) \/ DeliverKick(c) \/ GateStep(c)
        \/ \E ok \in [jti : BOOLEAN, epoch : BOOLEAN, device : BOOLEAN] : Heartbeat(c, ok)
        \/ \E x \in Chats : LoginStep(x, c) \/ SignOutStep(x, c)
    \/ WarmEpoch \/ Shutdown \/ Expire
    \/ \E S \in SUBSET Chats : AdultsMove(S)
    \/ \E x \in Chats : UplinkLost(x)
    \/ AdminStep

Spec == Init /\ [][Next]_vars

(* A client pings, the store answers again and again, and tasks that can   *)
(* run do run.                                                             *)
Answered == [jti |-> TRUE, epoch |-> TRUE, device |-> TRUE]

Fairness ==
    /\ \A c \in Channels : WF_vars(Heartbeat(c, Answered)) /\ WF_vars(GateStep(c))
                           /\ WF_vars(DeliverKick(c))
    /\ \A x \in Chats, c \in Channels : WF_vars(LoginStep(x, c)) /\ WF_vars(SignOutStep(x, c))
    /\ WF_vars(AdminStep)

FairSpec == Spec /\ Fairness

(***************************************************************************)
(* Properties.                                                             *)
(***************************************************************************)
TypeOK ==
    /\ issued \subseteq Channels /\ revoked \subseteq issued /\ outdated \subseteq issued
    /\ unseen \subseteq outdated
    /\ ch \in [Channels -> [st : {"idle", "accepted", "open", "closing", "gone"},
                            errs : 0 .. Grace - 1, in : Chats \cup {None}, out : Chats \cup {None}]]
    /\ draining \in BOOLEAN /\ adults \subseteq Chats /\ moves \in 0 .. MaxMoves
    /\ lane \in [Chats -> [Channels -> Seq({"in", "out"})]]
    /\ job \in [Channels -> {"idle", "add", "fill", "done", "refused"}]
    /\ locs \subseteq Channels /\ kicks \in [Chats -> SUBSET Channels]
    /\ lost \subseteq Channels /\ unkicked \subseteq Channels
    /\ admin \in [on : BOOLEAN, todo : SUBSET Channels]

(* A location whose channel is gone (a ghost: messages are pushed to it    *)
(* and are lost) and that no sign-out is coming for exists only when the   *)
(* sign-out was lost or went to another instance than the sign-in.         *)
GhostExplained ==
    \A c \in locs :
        (ch[c].st = "gone" /\ \A x \in Chats : lane[x][c] = <<>>)
            => (c \in lost \/ ch[c].in # ch[c].out)

Kicked(c) == \E x \in Chats : c \in kicks[x]

(* An open channel whose login was answered with success but that has no   *)
(* location any more (no message will reach it) has a kickout coming, or   *)
(* its kickout was lost with the connection that carried it: ChatAdmin     *)
(* deletes the location once the push is queued, and nobody pushes again.  *)
MuteIsKicked ==
    \A c \in Channels :
        (ch[c].st = "open" /\ job[c] = "done" /\ c \notin locs) => Kicked(c) \/ c \in unkicked

(* A connection whose token was revoked or outdated is closed in the end,  *)
(* as soon as the cache the gateway reads knows of the new epoch: when     *)
(* set_epoch failed it does not until account_epoch has been asked.        *)
StaleIsClosed ==
    \A c \in Channels :
        (ch[c].st = "open" /\ c \in Stale) ~> (ch[c].st # "open" \/ c \in unseen)

(* What the mobile guide says: mobile sessions exclude each other.         *)
OneMobile ==
    \A c, d \in Mobile \cap locs :
        (c # d /\ job[c] = "done" /\ job[d] = "done" /\ ch[c].st = "open" /\ ch[d].st = "open")
            => (Kicked(c) \/ Kicked(d))

(* Where the location table and the open channels differ, something is     *)
(* known to have gone wrong or is about to put it right (login, sign-out,  *)
(* kick_locations and the lanes that order them).                          *)
SessionsExplained == GhostExplained /\ MuteIsKicked
=============================================================================
