------------------------------ MODULE Presence -------------------------------
(***************************************************************************)
(* Presence of one account: chat instances are told of locations that were *)
(* added or removed and push ONLINE or OFFLINE to the friends' channels    *)
(* that have the conversation open.  Who has it open is kept in Redis in   *)
(* two indexes: interest (by conversation) and viewing (by channel).       *)
(*                                                                         *)
(* Each channel of the account and each channel of a viewer lives once.    *)
(* The debounce (45 s) and the reconnect poll sleep; everything else that  *)
(* one handler does between two of its calls to the session store is one   *)
(* step.                                                                   *)
(***************************************************************************)
EXTENDS Naturals, FiniteSets

CONSTANTS Channels, Viewers, Chats

ASSUME PresenceAssumption ==
    IsFiniteSet(Channels) /\ IsFiniteSet(Viewers) /\ IsFiniteSet(Chats)

VARIABLES
    used,       \* channels of the account that have logged in
    locs,       \* those with a location
    told,       \* hub calls to come: op, at
    gens,       \* PresenceHub.gens of each instance, 0 when absent
    tasks,      \* OFFLINE tasks: at, gen, pc (sleep, say)
    polls,      \* instances that poll after a second login
    friends,    \* viewers whose account is a friend
    vst,        \* a viewer's channel: off, on, clear, gone
    entering,   \* viewers whose room.enter passed its checks
    interest,   \* viewers in room:interest of the account
    viewing,    \* viewers with the account in their room:viewing
    leaked,     \* viewers whose location went without on_location_removed
    shown,      \* what a viewer's channel was last told
    missed      \* viewers an error kept the latest OFFLINE from (history)

hubVars == <<told, gens, tasks, polls>>
roomVars == <<friends, vst, entering, interest, viewing, leaked>>
vars == <<used, locs, hubVars, roomVars, shown, missed>>

(* fanout: viewers of the conversation that have a location.  The listing  *)
(* of the viewers may fail, and for each of them the listing of its        *)
(* locations or the push: those that fail are passed over with a warning.  *)
Fanout(status) ==
    LET reached == {v \in interest : vst[v] = "on"}
    IN  \E failed \in SUBSET reached :
            /\ shown' = [v \in Viewers |-> IF v \in reached \ failed THEN status ELSE shown[v]]
            /\ missed' = IF status = "offline" THEN missed \cup failed ELSE missed

(***************************************************************************)
(* Locations of the account.                                               *)
(***************************************************************************)
(* do_sys_login adds the location, then tells the hub. *)
AddLocation(x, c) ==
    /\ c \notin used
    /\ used' = used \cup {c} /\ locs' = locs \cup {c}
    /\ told' = told \cup {[op |-> "added", at |-> x, c |-> c]}
    /\ UNCHANGED <<gens, tasks, polls, roomVars, shown, missed>>

(* do_sys_logout deletes it, then tells the hub. *)
RemoveLocation(x, c) ==
    /\ c \in locs /\ ~\E y \in Chats : [op |-> "added", at |-> y, c |-> c] \in told
    /\ locs' = locs \ {c}
    /\ told' = told \cup {[op |-> "removed", at |-> x, c |-> c]}
    /\ missed' = {}
    /\ UNCHANGED <<used, gens, tasks, polls, roomVars, shown>>

(* ChatAdmin::kick deletes it, or SESSION_TTL passes: nobody is told. *)
DropLocation(c) ==
    /\ c \in locs
    /\ locs' = locs \ {c}
    /\ UNCHANGED <<used, hubVars, roomVars, shown, missed>>

(***************************************************************************)
(* PresenceHub.                                                            *)
(***************************************************************************)
(* on_location_added: OFFLINE tasks of the instance become outdated.  One  *)
(* location is announced; with more, a reconnect may be about to take the  *)
(* old one away, and a short poll waits for that.  If they cannot be       *)
(* listed the generation has been bumped and nothing else is done.         *)
OnLocationAdded(m) ==
    /\ m \in told /\ m.op = "added"
    /\ told' = told \ {m}
    /\ gens' = [gens EXCEPT ![m.at] = @ + 1]
    /\ \/ /\ polls' = IF Cardinality(locs) > 1 THEN polls \cup {m.at} ELSE polls
          /\ IF Cardinality(locs) = 1 THEN Fanout("online") ELSE UNCHANGED <<shown, missed>>
       \/ UNCHANGED <<polls, shown, missed>>
    /\ UNCHANGED <<used, locs, tasks, roomVars>>

(* A round of the poll: one location is announced, none or an error ends   *)
(* the poll, more than one in its last round too.                          *)
PollEnds(x) ==
    /\ x \in polls
    /\ polls' = polls \ {x}
    /\ \/ Cardinality(locs) = 1 /\ Fanout("online")
       \/ UNCHANGED <<shown, missed>>
    /\ UNCHANGED <<used, locs, told, gens, tasks, roomVars>>

(* The task that announces OFFLINE after the debounce. *)
Debounce(x) == [at |-> x, gen |-> gens[x] + 1, pc |-> "sleep"]

(* on_location_removed: the generation is bumped whether locations are     *)
(* left or not.  When they cannot be listed it is not, and no task begins. *)
OnLocationRemoved(m) ==
    /\ m \in told /\ m.op = "removed"
    /\ told' = told \ {m}
    /\ \/ /\ tasks' = IF locs = {} THEN tasks \cup {Debounce(m.at)} ELSE tasks
          /\ gens' = [gens EXCEPT ![m.at] = @ + 1]
          /\ UNCHANGED missed
       \/ missed' = Viewers /\ UNCHANGED <<tasks, gens>>
    /\ UNCHANGED <<used, locs, polls, roomVars, shown>>

(* Mutant: the generation counts as current one bump later. *)
StillLater(t) == gens[t.at] = t.gen + 1

(* Nothing was added or removed at the instance since the task began. *)
Still(t) == gens[t.at] = t.gen

(* The debounce is over: the generation is compared, then the store is     *)
(* asked; an error of it announces nothing.  A task whose generation is    *)
(* still current removes it at its end.                                    *)
DebounceEnds(t) ==
    /\ t \in tasks /\ t.pc = "sleep"
    /\ \E listed \in BOOLEAN :
        LET say == Still(t) /\ listed /\ locs = {}
        IN /\ tasks' = (tasks \ {t}) \cup (IF say THEN {[t EXCEPT !.pc = "say"]} ELSE {})
           /\ gens' = [gens EXCEPT ![t.at] = IF @ = t.gen /\ ~say THEN 0 ELSE @]
           /\ missed' = IF Still(t) /\ ~listed THEN Viewers ELSE missed
    /\ UNCHANGED <<used, locs, told, polls, roomVars, shown>>

AnnounceOffline(t) ==
    /\ t \in tasks /\ t.pc = "say"
    /\ tasks' = tasks \ {t}
    /\ gens' = [gens EXCEPT ![t.at] = IF @ = t.gen THEN 0 ELSE @]
    /\ Fanout("offline")
    /\ UNCHANGED <<used, locs, told, polls, roomVars>>

(***************************************************************************)
(* Rooms.                                                                  *)
(***************************************************************************)
ViewerSignsIn(v) ==
    /\ vst[v] = "off"
    /\ vst' = [vst EXCEPT ![v] = "on"]
    /\ UNCHANGED <<used, locs, hubVars, friends, entering, interest, viewing, leaked, shown, missed>>

(* do_room_enter: not blocked, and a friend. *)
EnterChecks(v) ==
    /\ vst[v] = "on" /\ v \in friends \ entering
    /\ entering' = entering \cup {v}
    /\ UNCHANGED <<used, locs, hubVars, friends, vst, interest, viewing, leaked, shown, missed>>

(* RoomInterestStore::enter: both indexes in one transaction. *)
Enter(v) == interest' = interest \cup {v} /\ viewing' = viewing \cup {v}

(* The rest of do_room_enter: the answer is a snapshot of the locations. *)
EnterAnswers(v) ==
    /\ v \in entering
    /\ entering' = entering \ {v}
    /\ Enter(v)
    /\ shown' = [shown EXCEPT ![v] = IF locs = {} THEN "offline" ELSE "online"]
    /\ UNCHANGED <<used, locs, hubVars, friends, vst, leaked, missed>>

(* do_room_leave and RoomInterestStore::leave. *)
Leave(v) ==
    /\ vst[v] = "on" /\ v \notin entering
    /\ interest' = interest \ {v} /\ viewing' = viewing \ {v}
    /\ shown' = [shown EXCEPT ![v] = "none"]
    /\ UNCHANGED <<used, locs, hubVars, friends, vst, entering, leaked, missed>>

(* The viewer's sign-out: the location goes, the interest is cleared next. *)
ViewerSignsOut(v) ==
    /\ vst[v] = "on" /\ v \notin entering
    /\ vst' = [vst EXCEPT ![v] = "clear"]
    /\ shown' = [shown EXCEPT ![v] = "none"]
    /\ UNCHANGED <<used, locs, hubVars, friends, entering, interest, viewing, leaked, missed>>

(* clear_channel: the conversations found in viewing are left, and viewing *)
(* is deleted.                                                             *)
ClearChannel(v) ==
    /\ interest' = IF v \in viewing THEN interest \ {v} ELSE interest
    /\ viewing' = viewing \ {v}

(* on_location_removed of the viewer clears, or fails and only warns. *)
ViewerCleared(v) ==
    /\ vst[v] = "clear"
    /\ vst' = [vst EXCEPT ![v] = "gone"]
    /\ \/ ClearChannel(v) /\ UNCHANGED leaked
       \/ leaked' = leaked \cup {v} /\ UNCHANGED <<interest, viewing>>
    /\ UNCHANGED <<used, locs, hubVars, friends, entering, shown, missed>>

(* The viewer is kicked by ChatAdmin: its sign-out finds no session. *)
ViewerKicked(v) ==
    /\ vst[v] = "on" /\ v \notin entering
    /\ vst' = [vst EXCEPT ![v] = "gone"] /\ leaked' = leaked \cup {v}
    /\ shown' = [shown EXCEPT ![v] = "none"]
    /\ UNCHANGED <<used, locs, hubVars, friends, entering, interest, viewing, missed>>

(* do_friend_remove, do_block: the friendship goes, the interest stays. *)
Unfriend(v) ==
    /\ v \in friends
    /\ friends' = friends \ {v}
    /\ UNCHANGED <<used, locs, hubVars, vst, entering, interest, viewing, leaked, shown, missed>>

Init ==
    /\ used = {} /\ locs = {}
    /\ told = {} /\ gens = [x \in Chats |-> 0] /\ tasks = {} /\ polls = {}
    /\ friends = Viewers /\ vst = [v \in Viewers |-> "off"]
    /\ entering = {} /\ interest = {} /\ viewing = {} /\ leaked = {}
    /\ shown = [v \in Viewers |-> "none"] /\ missed = {}

HubStep ==
    \/ \E m \in told : OnLocationAdded(m) \/ OnLocationRemoved(m)
    \/ \E x \in Chats : PollEnds(x)
    \/ \E t \in tasks : DebounceEnds(t) \/ AnnounceOffline(t)

Next ==
    \/ \E x \in Chats, c \in Channels : AddLocation(x, c) \/ RemoveLocation(x, c)
    \/ \E c \in Channels : DropLocation(c)
    \/ HubStep
    \/ \E v \in Viewers :
        \/ ViewerSignsIn(v) \/ EnterChecks(v) \/ EnterAnswers(v) \/ Leave(v)
        \/ ViewerSignsOut(v) \/ ViewerCleared(v) \/ ViewerKicked(v) \/ Unfriend(v)

Spec == Init /\ [][Next]_vars

(* Handlers and timers that can run do run. *)
FairSpec == Spec /\ WF_vars(HubStep)

(***************************************************************************)
(* Properties.                                                             *)
(***************************************************************************)
TypeOK ==
    /\ used \subseteq Channels /\ locs \subseteq used
    /\ told \subseteq [op : {"added", "removed"}, at : Chats, c : Channels]
    /\ gens \in [Chats -> Nat] /\ polls \subseteq Chats
    /\ \A t \in tasks : t.at \in Chats /\ t.gen \in Nat \ {0} /\ t.pc \in {"sleep", "say"}
    /\ vst \in [Viewers -> {"off", "on", "clear", "gone"}]
    /\ \A S \in {friends, entering, interest, viewing, leaked, missed} : S \subseteq Viewers
    /\ shown \in [Viewers -> {"none", "online", "offline"}]

(* Both indexes agree: what clear_channel does not find it cannot clear.   *)
(* An interest outlives its channel only when nobody was told of the end   *)
(* of the location or the clean-up failed.                                 *)
InterestEndsWithChannel ==
    /\ interest = viewing
    /\ \A v \in interest : vst[v] # "gone" \/ v \in leaked

(* After the last location was removed by a sign-out, and no login waits   *)
(* to tell the hub of a location an administrator has already deleted, a   *)
(* viewer is not left with ONLINE unless the account comes back, or the    *)
(* store or the push failed in one of the steps that announce this very    *)
(* sign-out: nobody tries again (as the test                               *)
(* debounce_storage_error_does_not_announce_offline has it).               *)
OfflineShown ==
    \A v \in Viewers :
        (locs = {} /\ told # {} /\ \A m \in told : m.op = "removed")
            ~> (shown[v] # "online" \/ locs # {} \/ v \in missed)

(* What the presence design says of the interest: no one in it is not a    *)
(* friend.                                                                 *)
OnlyFriendsWatch == \A v \in interest : vst[v] = "on" => v \in friends
=============================================================================
