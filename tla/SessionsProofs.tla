--------------------------- MODULE SessionsProofs ----------------------------
(***************************************************************************)
(* Sessions proved for any number of channels, chat instances and moves.   *)
(*                                                                         *)
(* SessionsExplained is not inductive: it speaks of a gone channel with    *)
(* empty lanes.  Explained says, for every channel, which packets its      *)
(* lanes may hold in each state of the gateway and of the login, and that  *)
(* the sign-out follows the sign-in whenever both went to one instance.    *)
(***************************************************************************)
EXTENDS Sessions, SequenceTheorems, TLAPS

(* What the lane of a channel at one instance can hold. *)
Queues == {<<>>, <<"in">>, <<"out">>, <<"in", "out">>}

HasIn(x, c) == lane[x][c] \in {<<"in">>, <<"in", "out">>}
HasOut(x, c) == lane[x][c] \in {<<"out">>, <<"in", "out">>}

(* Before on_channel_ready nothing of the channel has left the gateway. *)
Fresh(c) ==
    ch[c].st \in {"idle", "accepted"} =>
        job[c] = "idle" /\ c \notin locs /\ \A x \in Chats : lane[x][c] = <<>>

InSent(c) ==
    \A x \in Chats : HasIn(x, c) => ch[c].in = x /\ job[c] \in {"idle", "add", "fill"}

OutSent(c) ==
    \A x \in Chats : HasOut(x, c) => ch[c].out = x /\ ch[c].st = "gone"

Located(c) == c \in locs => job[c] \in {"fill", "done"} /\ ch[c].in \in Chats

(* A sign-in not handled yet, or a location, of a channel that is gone has *)
(* the sign-out behind it.                                                 *)
Behind(c) ==
    (/\ ch[c].st = "gone" /\ c \notin lost
     /\ ch[c].in \in Chats /\ ch[c].in = ch[c].out
     /\ HasIn(ch[c].in, c) \/ c \in locs)
        => HasOut(ch[c].in, c)

(* An open channel that lost its location has its kickout coming, unless   *)
(* the connection that carried it is gone.                                 *)
Mute(c) ==
    (ch[c].st = "open" /\ job[c] \in {"fill", "done"} /\ c \notin locs)
        => Kicked(c) \/ c \in unkicked

Explained(c) == Fresh(c) /\ InSent(c) /\ OutSent(c) /\ Located(c) /\ Behind(c) /\ Mute(c)

Inv ==
    /\ TypeOK
    /\ lane \in [Chats -> [Channels -> Queues]]
    /\ \A c \in Channels : Explained(c)

(***************************************************************************)
(* Lanes.                                                                  *)
(***************************************************************************)
(* The queues are told apart, and what Append, Head and Tail make of them. *)
LEMMA QueueFacts ==
    /\ <<"in">> # <<>> /\ <<"out">> # <<>> /\ <<"in", "out">> # <<>>
    /\ <<"in">> # <<"out">> /\ <<"in", "out">> # <<"in">> /\ <<"in", "out">> # <<"out">>
    /\ Append(<<>>, "in") = <<"in">> /\ Append(<<>>, "out") = <<"out">>
    /\ Append(<<"in">>, "out") = <<"in", "out">>
    /\ Head(<<"in">>) = "in" /\ Head(<<"out">>) = "out" /\ Head(<<"in", "out">>) = "in"
    /\ Tail(<<"in">>) = <<>> /\ Tail(<<"out">>) = <<>> /\ Tail(<<"in", "out">>) = <<"out">>
    /\ <<"in">>[Len(<<"in">>)] = "in" /\ <<"out">>[Len(<<"out">>)] = "out"
    /\ <<"in", "out">>[Len(<<"in", "out">>)] = "out"
  <1>1. <<"in">> # <<>> /\ <<"out">> # <<>> /\ <<"in", "out">> # <<>> OBVIOUS
  <1>2. <<"in">> # <<"out">> OBVIOUS
  <1>3. <<"in", "out">> # <<"in">> OBVIOUS
  <1>4. <<"in", "out">> # <<"out">> OBVIOUS
  <1>5. Append(<<>>, "in") = <<"in">> /\ Append(<<>>, "out") = <<"out">> OBVIOUS
  <1>6. Append(<<"in">>, "out") = <<"in", "out">>
    <2> DEFINE a == Append(<<"in">>, "out")
               b == <<"in", "out">>
    <2>1. a \in Seq({"in", "out"}) /\ b \in Seq({"in", "out"}) OBVIOUS
    <2>2. Len(a) = 2 /\ Len(b) = 2 OBVIOUS
    <2>3. a[1] = b[1] /\ a[2] = b[2] OBVIOUS
    <2> HIDE DEF a, b
    <2>4. \A i \in 1 .. Len(a) : a[i] = b[i] BY <2>2, <2>3
    <2>5. a = b BY <2>1, <2>2, <2>4, SeqEqual
    <2> QED BY <2>5 DEF a, b
  <1>7. Head(<<"in">>) = "in" /\ Head(<<"out">>) = "out" /\ Head(<<"in", "out">>) = "in" OBVIOUS
  <1>8. Tail(<<"in">>) = <<>> /\ Tail(<<"out">>) = <<>> OBVIOUS
  <1>9. Tail(<<"in", "out">>) = <<"out">> OBVIOUS
  <1>10. <<"in">>[Len(<<"in">>)] = "in" /\ <<"out">>[Len(<<"out">>)] = "out" OBVIOUS
  <1>11. <<"in", "out">>[Len(<<"in", "out">>)] = "out" OBVIOUS
  <1> QED BY <1>1, <1>2, <1>3, <1>4, <1>5, <1>6, <1>7, <1>8, <1>9, <1>10, <1>11

LEMMA QueuesType == Queues \subseteq Seq({"in", "out"})
  BY DEF Queues

(* The selector answers an instance (RouteSelector, HashSelector). *)
LEMMA LookupType ==
    ASSUME NEW c \in Channels, Home \in [Channels -> Chats],
           adults \subseteq Chats, adults # {}
    PROVE  Lookup(c) \in Chats
  BY DEF Lookup

(* What the head of a lane says of it. *)
LEMMA HeadFacts ==
    ASSUME Inv, NEW x \in Chats, NEW c \in Channels
    PROVE  /\ Head1(x, c, "in") => HasIn(x, c)
           /\ Head1(x, c, "out") => lane[x][c] = <<"out">>
  <1> lane[x][c] \in Queues BY DEF Inv
  <1> QED BY QueueFacts DEF Head1, HasIn, Queues

(* Popping a sign-in leaves nothing or the sign-out. *)
LEMMA PopFacts ==
    ASSUME Inv, NEW x \in Chats, NEW c \in Channels, Pop(x, c),
           lane[x][c] # <<>>
    PROVE  /\ lane' \in [Chats -> [Channels -> Queues]]
           /\ \A y \in Chats, d \in Channels : <<y, d>> # <<x, c>> => lane'[y][d] = lane[y][d]
           /\ lane'[x][c] \in {<<>>, <<"out">>}
           /\ lane'[x][c] = <<"out">> <=> lane[x][c] = <<"in", "out">>
  <1> lane \in [Chats -> [Channels -> Queues]] BY DEF Inv
  <1>1. lane[x][c] \in {<<"in">>, <<"out">>, <<"in", "out">>} BY DEF Queues
  <1>2. Tail(lane[x][c]) \in {<<>>, <<"out">>} BY <1>1, QueueFacts
  <1>3. Tail(lane[x][c]) = <<"out">> <=> lane[x][c] = <<"in", "out">> BY <1>1, QueueFacts
  <1>4. Tail(lane[x][c]) \in Queues BY <1>2 DEF Queues
  <1>5. lane' = [lane EXCEPT ![x][c] = Tail(lane[x][c])] BY DEF Pop
  <1>6. lane'[x][c] = Tail(lane[x][c]) BY <1>5
  <1>7. lane' \in [Chats -> [Channels -> Queues]] BY <1>4, <1>5
  <1>8. \A y \in Chats, d \in Channels : <<y, d>> # <<x, c>> => lane'[y][d] = lane[y][d] BY <1>5
  <1> QED BY <1>2, <1>3, <1>6, <1>7, <1>8

(* Sending the sign-in, or the sign-out behind it. *)
LEMMA SendFacts ==
    ASSUME Inv, NEW c \in Channels, NEW op, Send(c, op), adults # {},
           \/ op = "in" /\ \A x \in Chats : lane[x][c] = <<>>
           \/ op = "out" /\ \A x \in Chats : ~HasOut(x, c)
    PROVE  /\ lane' \in [Chats -> [Channels -> Queues]]
           /\ \A y \in Chats, d \in Channels :
                  <<y, d>> # <<Lookup(c), c>> => lane'[y][d] = lane[y][d]
           /\ Lookup(c) \in Chats
           /\ op = "in" => lane'[Lookup(c)][c] = <<"in">>
           /\ op = "out" => lane'[Lookup(c)][c] \in {<<"out">>, <<"in", "out">>}
           /\ op = "out" /\ lane'[Lookup(c)][c] = <<"in", "out">> => lane[Lookup(c)][c] = <<"in">>
  <1> DEFINE x == Lookup(c)
  <1> lane \in [Chats -> [Channels -> Queues]] BY DEF Inv
  <1>1. x \in Chats BY LookupType, SessionsAssumption DEF Inv, TypeOK
  <1> HIDE DEF x
  <1>2. lane' = [lane EXCEPT ![x][c] = Append(lane[x][c], op)] BY DEF Send, x
  <1>3. lane[x][c] \in Queues BY <1>1
  <1>4. op = "in" => Append(lane[x][c], op) = <<"in">> BY <1>1, QueueFacts
  <1>5. op = "out" => /\ Append(lane[x][c], op) \in {<<"out">>, <<"in", "out">>}
                      /\ Append(lane[x][c], op) = <<"in", "out">> => lane[x][c] = <<"in">>
    <2> SUFFICES ASSUME op = "out"
                 PROVE  /\ Append(lane[x][c], op) \in {<<"out">>, <<"in", "out">>}
                        /\ Append(lane[x][c], op) = <<"in", "out">> => lane[x][c] = <<"in">>
      OBVIOUS
    <2>1. lane[x][c] \in {<<>>, <<"in">>} BY <1>1, <1>3 DEF HasOut, Queues
    <2> QED BY <2>1, QueueFacts
  <1>6. Append(lane[x][c], op) \in Queues BY <1>4, <1>5 DEF Queues
  <1>7. lane' \in [Chats -> [Channels -> Queues]] BY <1>2, <1>6
  <1>8. lane'[x][c] = Append(lane[x][c], op) BY <1>1, <1>2
  <1>9. \A y \in Chats, d \in Channels : <<y, d>> # <<x, c>> => lane'[y][d] = lane[y][d] BY <1>2
  <1> QED BY <1>1, <1>4, <1>5, <1>7, <1>8, <1>9 DEF x

(***************************************************************************)
(* One lemma per action.                                                   *)
(***************************************************************************)
(* A step that leaves channels, lanes, logins, locations and kickouts alone. *)
LEMMA KeepsExplained ==
    ASSUME Inv, TypeOK', UNCHANGED <<ch, lane, job, locs, kicks, lost, unkicked>>
    PROVE  Inv'
  BY DEF Inv, Explained, Fresh, InSent, OutSent, Located, Behind, Mute, Kicked, HasIn, HasOut

LEMMA WarmEpochKeeps ==
    ASSUME Inv, WarmEpoch
    PROVE  Inv'
  <1>1. TypeOK' BY DEF Inv, TypeOK, WarmEpoch, gateVars, chatVars
  <1> QED BY <1>1, KeepsExplained DEF WarmEpoch, gateVars, chatVars

LEMMA IssueKeeps ==
    ASSUME Inv, NEW c \in Channels, Issue(c)
    PROVE  Inv'
  <1>1. TypeOK' BY DEF Inv, TypeOK, Issue, gateVars, chatVars
  <1> QED BY <1>1, KeepsExplained DEF Issue, gateVars, chatVars

LEMMA LogoutKeeps ==
    ASSUME Inv, NEW c \in Channels, Logout(c) \/ ChangePassword(c)
    PROVE  Inv'
  <1>1. admin' \in [on : BOOLEAN, todo : SUBSET Channels]
    BY DEF Inv, TypeOK, Logout, ChangePassword, KickAccount
  <1>2. TypeOK'
    BY <1>1, SessionsAssumption DEF Inv, TypeOK, Logout, ChangePassword, gateVars, Stale
  <1> QED BY <1>2, KeepsExplained DEF Logout, ChangePassword, gateVars

LEMMA ShutdownKeeps ==
    ASSUME Inv, Shutdown
    PROVE  Inv'
  <1>1. TypeOK' BY DEF Inv, TypeOK, Shutdown, royalVars, chatVars
  <1> QED BY <1>1, KeepsExplained DEF Shutdown, chatVars

LEMMA AdultsMoveKeeps ==
    ASSUME Inv, NEW S \in SUBSET Chats, AdultsMove(S)
    PROVE  Inv'
  <1>1. TypeOK' BY SessionsAssumption DEF Inv, TypeOK, AdultsMove, royalVars, gateVars, chatVars
  <1> QED BY <1>1, KeepsExplained DEF AdultsMove, gateVars, chatVars

LEMMA AdminKeeps ==
    ASSUME Inv, AdminLists \/ AdminFails
    PROVE  Inv'
  <1>1. (locs # {}) \in BOOLEAN /\ locs \subseteq Channels BY DEF Inv, TypeOK
  <1>2. admin' \in [on : BOOLEAN, todo : SUBSET Channels]
    <2>1. CASE AdminLists BY <1>1, <2>1 DEF AdminLists
    <2>2. CASE AdminFails BY <2>2 DEF AdminFails
    <2> QED BY <2>1, <2>2
  <1>3. TypeOK' BY <1>2 DEF Inv, TypeOK, AdminLists, AdminFails, royalVars, gateVars
  <1> QED BY <1>3, KeepsExplained DEF AdminLists, AdminFails, gateVars


(* The states of a channel after a step of the gateway. *)
ChannelType == [st : {"idle", "accepted", "open", "closing", "gone"},
                errs : 0 .. Grace - 1, in : Chats \cup {None}, out : Chats \cup {None}]

LEMMA ChType ==
    ASSUME Inv PROVE ch \in [Channels -> ChannelType]
  BY DEF Inv, TypeOK, ChannelType

LEMMA ClosedType ==
    ASSUME NEW f \in [Channels -> ChannelType], NEW c \in Channels
    PROVE  \A v \in {"accepted", "closing", "gone"} :
               /\ [f EXCEPT ![c].st = v] \in [Channels -> ChannelType]
               /\ [f EXCEPT ![c].st = v, ![c].errs = 0] \in [Channels -> ChannelType]
  <1>1. 0 \in 0 .. Grace - 1 BY SessionsAssumption
  <1> QED BY <1>1 DEF ChannelType

LEMMA SentType ==
    ASSUME NEW f \in [Channels -> ChannelType], NEW c \in Channels, NEW x \in Chats
    PROVE  /\ [f EXCEPT ![c].st = "open", ![c].in = x] \in [Channels -> ChannelType]
           /\ [f EXCEPT ![c].st = "gone", ![c].out = x] \in [Channels -> ChannelType]
  <1>1. f[c] \in ChannelType OBVIOUS
  <1>2. [f[c] EXCEPT !.st = "open", !.in = x] \in ChannelType BY <1>1 DEF ChannelType
  <1>3. [f[c] EXCEPT !.st = "gone", !.out = x] \in ChannelType BY <1>1 DEF ChannelType
  <1> QED BY <1>2, <1>3

LEMMA AcceptKeeps ==
    ASSUME Inv, NEW c \in Channels, Accept(c)
    PROVE  Inv'
  <1> USE DEF Accept, royalVars, chatVars
  <1>1. ch' \in [Channels -> ChannelType] BY ChType, ClosedType
  <1>2. TypeOK' BY <1>1 DEF Inv, TypeOK, ChannelType
  <1>3. ASSUME NEW d \in Channels PROVE Explained(d)'
    <2>1. /\ ch'[d].in = ch[d].in /\ ch'[d].out = ch[d].out
          /\ d = c => ch[d].st = "idle" /\ ch'[d].st = "accepted"
          /\ d # c => ch'[d].st = ch[d].st
      BY DEF Inv, TypeOK
    <2> QED BY <2>1 DEF Inv, Explained, Fresh, InSent, OutSent, Located, Behind, Mute, Kicked, HasIn, HasOut
  <1> QED BY <1>2, <1>3 DEF Inv

LEMMA ReadyFailsKeeps ==
    ASSUME Inv, NEW c \in Channels, ReadyFails(c)
    PROVE  Inv'
  <1> USE DEF ReadyFails, royalVars, chatVars
  <1>1. ch' \in [Channels -> ChannelType] BY ChType, ClosedType
  <1>2. TypeOK' BY <1>1 DEF Inv, TypeOK, ChannelType
  <1>3. ASSUME NEW d \in Channels PROVE Explained(d)'
    <2>1. /\ ch'[d].in = ch[d].in /\ ch'[d].out = ch[d].out
          /\ d = c => ch[d].st = "accepted" /\ ch'[d].st = "gone"
          /\ d # c => ch'[d].st = ch[d].st
      BY DEF Inv, TypeOK
    <2>2. d = c => \A x \in Chats : ~HasIn(x, d) /\ ~HasOut(x, d)
      BY <2>1, QueueFacts DEF Inv, Explained, Fresh, HasIn, HasOut
    <2> QED BY <2>1, <2>2 DEF Inv, Explained, Fresh, InSent, OutSent, Located, Behind, Mute, Kicked, HasIn, HasOut
  <1> QED BY <1>2, <1>3 DEF Inv

(* An open channel that goes on or begins to close, its kickout delivered  *)
(* or not.                                                                 *)
LEMMA ClosesKeeps ==
    ASSUME Inv, TypeOK', NEW c \in Channels, UNCHANGED <<lane, job, locs, lost, unkicked>>,
           \A d \in Channels : /\ ch'[d].in = ch[d].in /\ ch'[d].out = ch[d].out
                               /\ ch'[d].st # ch[d].st => ch[d].st = "open" /\ ch'[d].st = "closing"
                               /\ Kicked(d) /\ ~Kicked(d)' => ch'[d].st # "open"
    PROVE  Inv'
  <1> SUFFICES ASSUME NEW d \in Channels PROVE Explained(d)'
    BY DEF Inv
  <1>1. Explained(d) BY DEF Inv
  <1>2. (Fresh(d) /\ InSent(d) /\ Located(d))' BY <1>1 DEF Explained, Fresh, InSent, Located, HasIn
  <1>3. OutSent(d)' BY <1>1 DEF Explained, OutSent, HasOut
  <1>4. Behind(d)' BY <1>1 DEF Explained, Behind, HasIn, HasOut
  <1>5. Mute(d)' BY <1>1 DEF Explained, Mute
  <1> QED BY <1>2, <1>3, <1>4, <1>5 DEF Explained

LEMMA HeartbeatKeeps ==
    ASSUME Inv, NEW c \in Channels, NEW ok \in [jti : BOOLEAN, epoch : BOOLEAN, device : BOOLEAN],
           Heartbeat(c, ok)
    PROVE  Inv'
  <1> DEFINE failed == (IF ok.epoch THEN 0 ELSE 1) + (IF c \in Bound /\ ~ok.device THEN 1 ELSE 0)
             errs == (IF ok.jti THEN 0 ELSE ch[c].errs + 1) + failed
  <1>1. ch \in [Channels -> ChannelType] BY ChType
  <1>2. Grace \in Nat \ {0} BY SessionsAssumption
  <1>3. errs \in Nat BY <1>1, <1>2 DEF ChannelType
  <1>4. \/ ch' = [ch EXCEPT ![c].st = "closing", ![c].errs = 0]
        \/ ~(errs >= Grace) /\ ch' = [ch EXCEPT ![c].errs = errs]
    BY DEF Heartbeat, Close, CloseOnBeat
  <1> HIDE DEF errs
  <1>5. ch' \in [Channels -> ChannelType]
    <2>1. CASE ch' = [ch EXCEPT ![c].st = "closing", ![c].errs = 0]
      BY <1>1, <2>1, ClosedType
    <2>2. CASE ~(errs >= Grace) /\ ch' = [ch EXCEPT ![c].errs = errs]
      <3>1. errs \in 0 .. Grace - 1 BY <1>2, <1>3, <2>2
      <3> QED BY <1>1, <2>2, <3>1 DEF ChannelType
    <2> QED BY <1>4, <2>1, <2>2
  <1>6. TypeOK' BY <1>5 DEF Inv, TypeOK, ChannelType, Heartbeat, royalVars, chatVars
  <1>7. \A d \in Channels : /\ ch'[d].in = ch[d].in /\ ch'[d].out = ch[d].out
                            /\ ch'[d].st # ch[d].st => ch[d].st = "open" /\ ch'[d].st = "closing"
    BY <1>1, <1>4 DEF Heartbeat, ChannelType
  <1>8. \A d \in Channels : Kicked(d)' <=> Kicked(d) BY DEF Heartbeat, chatVars, Kicked
  <1> QED BY <1>6, <1>7, <1>8, ClosesKeeps DEF Heartbeat, chatVars

LEMMA ConnEndsKeeps ==
    ASSUME Inv, NEW c \in Channels, ConnEnds(c)
    PROVE  Inv'
  <1>1. ch \in [Channels -> ChannelType] BY ChType
  <1>2. ch' \in [Channels -> ChannelType]
    BY <1>1, ClosedType DEF ConnEnds, Close
  <1>3. TypeOK' BY <1>2 DEF Inv, TypeOK, ChannelType, ConnEnds, royalVars, chatVars
  <1>4. \A d \in Channels : /\ ch'[d].in = ch[d].in /\ ch'[d].out = ch[d].out
                            /\ ch'[d].st # ch[d].st => ch[d].st = "open" /\ ch'[d].st = "closing"
    BY <1>1 DEF ConnEnds, Close, ChannelType
  <1>5. \A d \in Channels : Kicked(d)' <=> Kicked(d) BY DEF ConnEnds, chatVars, Kicked
  <1> QED BY <1>3, <1>4, <1>5, ClosesKeeps DEF ConnEnds, chatVars

LEMMA DeliverKickKeeps ==
    ASSUME Inv, NEW c \in Channels, DeliverKick(c)
    PROVE  Inv'
  <1>1. ch \in [Channels -> ChannelType] BY ChType
  <1>2. ch' \in [Channels -> ChannelType]
    <2>1. CASE ch[c].st = "open"
      <3>1. ch' = [ch EXCEPT ![c].st = "closing", ![c].errs = 0] BY <2>1 DEF DeliverKick, Close
      <3> QED BY <1>1, <3>1, ClosedType
    <2>2. CASE ch[c].st # "open" BY <1>1, <2>2 DEF DeliverKick
    <2> QED BY <2>1, <2>2
  <1>k. PICK x \in Chats : c \in kicks[x] /\ kicks' = [kicks EXCEPT ![x] = @ \ {c}]
    BY DEF DeliverKick
  <1>s. kicks' \in [Chats -> SUBSET Channels] BY <1>k DEF Inv, TypeOK
  <1>o. \A d \in Channels : d # c => (Kicked(d) => Kicked(d)') BY <1>k DEF Inv, TypeOK, Kicked
  <1>3. TypeOK' BY <1>2, <1>s DEF Inv, TypeOK, ChannelType, DeliverKick, royalVars
  <1>4. \A d \in Channels : /\ ch'[d].in = ch[d].in /\ ch'[d].out = ch[d].out
                            /\ ch'[d].st # ch[d].st => ch[d].st = "open" /\ ch'[d].st = "closing"
                            /\ Kicked(d) /\ ~Kicked(d)' => ch'[d].st # "open"
    BY <1>1, <1>o DEF DeliverKick, Close, ChannelType
  <1> QED BY <1>3, <1>4, ClosesKeeps DEF DeliverKick


(* The sign-in leaves: the lanes were empty, one now holds it. *)
LEMMA OnChannelReadyKeeps ==
    ASSUME Inv, NEW c \in Channels, OnChannelReady(c)
    PROVE  Inv'
  <1> DEFINE x == Lookup(c)
  <1>1. ch \in [Channels -> ChannelType] BY ChType
  <1>2. Explained(c) /\ ch[c].st = "accepted" BY DEF Inv, OnChannelReady
  <1>3. \A y \in Chats : lane[y][c] = <<>> BY <1>2 DEF Explained, Fresh
  <1>4. /\ lane' \in [Chats -> [Channels -> Queues]]
        /\ \A y \in Chats, d \in Channels : <<y, d>> # <<x, c>> => lane'[y][d] = lane[y][d]
        /\ x \in Chats
        /\ lane'[x][c] = <<"in">>
    BY <1>3, SendFacts DEF OnChannelReady
  <1> HIDE DEF x
  <1>5. ch' = [ch EXCEPT ![c].st = "open", ![c].in = x] BY DEF OnChannelReady, x
  <1>6. ch' \in [Channels -> ChannelType] BY <1>1, <1>4, <1>5, SentType
  <1>7. TypeOK'
    BY <1>4, <1>6, QueuesType DEF Inv, TypeOK, ChannelType, OnChannelReady, royalVars
  <1>8. ASSUME NEW d \in Channels PROVE Explained(d)'
    <2>1. CASE d = c
      <3>1. ch'[c].st = "open" /\ ch'[c].in = x BY <1>1, <1>5 DEF ChannelType
      <3>2. \A y \in Chats : y # x => lane'[y][c] = <<>> BY <1>3, <1>4
      <3>3. \A y \in Chats : (HasIn(y, c)' => y = x) /\ ~HasOut(y, c)'
        BY <1>4, <3>2, QueueFacts DEF HasIn, HasOut
      <3>4. job'[c] = "idle" /\ c \notin locs' BY <1>2 DEF Explained, Fresh, OnChannelReady
      <3> QED BY <2>1, <3>1, <3>3, <3>4 DEF Explained, Fresh, InSent, OutSent, Located, Behind, Mute, Kicked
    <2>2. CASE d # c
      <3>1. ch'[d] = ch[d] /\ \A y \in Chats : lane'[y][d] = lane[y][d] BY <1>1, <1>4, <1>5, <2>2
      <3>2. Explained(d) BY DEF Inv
      <3> QED BY <3>1, <3>2 DEF OnChannelReady, Explained, Fresh, InSent, OutSent, Located, Behind, Mute, Kicked, HasIn, HasOut
    <2> QED BY <2>1, <2>2
  <1> QED BY <1>4, <1>7, <1>8 DEF Inv

(* The sign-out leaves behind the sign-in, or is lost. *)
LEMMA DisconnectKeeps ==
    ASSUME Inv, NEW c \in Channels, Disconnect(c)
    PROVE  Inv'
  <1> DEFINE x == Lookup(c)
  <1>1. ch \in [Channels -> ChannelType] BY ChType
  <1>2. Explained(c) /\ ch[c].st = "closing" BY DEF Inv, Disconnect
  <1>3. \A y \in Chats : ~HasOut(y, c) BY <1>2 DEF Explained, OutSent
  <1>4. ASSUME adults # {}, Send(c, "out"),
               ch' = [ch EXCEPT ![c].st = "gone", ![c].out = Lookup(c)], UNCHANGED lost
        PROVE  Inv'
    <2>1. /\ lane' \in [Chats -> [Channels -> Queues]]
          /\ \A y \in Chats, d \in Channels : <<y, d>> # <<x, c>> => lane'[y][d] = lane[y][d]
          /\ x \in Chats
          /\ lane'[x][c] \in {<<"out">>, <<"in", "out">>}
          /\ lane'[x][c] = <<"in", "out">> => lane[x][c] = <<"in">>
      BY <1>3, <1>4, SendFacts
    <2>2. ch' = [ch EXCEPT ![c].st = "gone", ![c].out = x] BY <1>4
    <2> HIDE DEF x
    <2>3. ch' \in [Channels -> ChannelType] BY <1>1, <2>1, <2>2, SentType
    <2>4. TypeOK'
      <3>1. lane' \in [Chats -> [Channels -> Seq({"in", "out"})]] BY <2>1, QueuesType
      <3> QED BY <1>4, <2>3, <3>1 DEF Inv, TypeOK, ChannelType, Disconnect, royalVars
    <2>5. ASSUME NEW d \in Channels PROVE Explained(d)'
      <3>1. CASE d = c
        <4>1. ch'[c].st = "gone" /\ ch'[c].out = x /\ ch'[c].in = ch[c].in
          BY <1>1, <2>2 DEF ChannelType
        <4>2. \A y \in Chats : /\ HasIn(y, c)' => HasIn(y, c)
                               /\ HasOut(y, c)' <=> y = x
          <5> SUFFICES ASSUME NEW y \in Chats
                       PROVE  (HasIn(y, c)' => HasIn(y, c)) /\ (HasOut(y, c)' <=> y = x)
            OBVIOUS
          <5>1. CASE y = x BY <2>1, <5>1, QueueFacts DEF HasIn, HasOut
          <5>2. CASE y # x
            <6>1. lane'[y][c] = lane[y][c] BY <2>1, <5>2
            <6> QED BY <1>3, <5>2, <6>1 DEF HasIn, HasOut
          <5> QED BY <5>1, <5>2
        <4>3. job' = job /\ locs' = locs BY DEF Disconnect
        <4>4. (Fresh(c) /\ InSent(c) /\ OutSent(c) /\ Located(c) /\ Mute(c))'
          BY <1>2, <4>1, <4>2, <4>3 DEF Explained, Fresh, InSent, OutSent, Located, Mute, Kicked
        <4>5. Behind(c)' BY <4>1, <4>2 DEF Behind
        <4> QED BY <3>1, <4>4, <4>5 DEF Explained
      <3>2. CASE d # c
        <4>1. ch'[d] = ch[d] /\ \A y \in Chats : lane'[y][d] = lane[y][d]
          BY <1>1, <2>1, <2>2, <3>2
        <4>2. Explained(d) BY DEF Inv
        <4> QED BY <1>4, <4>1, <4>2 DEF Disconnect, Explained, Fresh, InSent, OutSent, Located, Behind, Mute, Kicked, HasIn, HasOut
      <3> QED BY <3>1, <3>2
    <2> QED BY <2>1, <2>4, <2>5 DEF Inv
  <1>5. ASSUME ch' = [ch EXCEPT ![c].st = "gone"], lost' = lost \cup {c}, UNCHANGED lane
        PROVE  Inv'
    <2>1. ch' \in [Channels -> ChannelType] BY <1>1, <1>5, ClosedType
    <2>2. TypeOK' BY <1>5, <2>1 DEF Inv, TypeOK, ChannelType, Disconnect, royalVars
    <2>3. ASSUME NEW d \in Channels PROVE Explained(d)'
      <3>1. ch'[d].in = ch[d].in /\ ch'[d].out = ch[d].out
        BY <1>1, <1>5 DEF ChannelType
      <3>2. IF d = c THEN ch'[d].st = "gone" ELSE ch'[d].st = ch[d].st BY <1>1, <1>5 DEF ChannelType
      <3>3. Explained(d) BY DEF Inv
      <3> QED BY <1>2, <1>5, <3>1, <3>2, <3>3 DEF Disconnect, Explained, Fresh, InSent, OutSent, Located, Behind, Mute, Kicked, HasIn, HasOut
    <2> QED BY <1>5, <2>2, <2>3 DEF Inv
  <1> QED BY <1>4, <1>5 DEF Disconnect

(* A channel aborted with its sign-out counts as lost. *)
LEMMA AbortChannelKeeps ==
    ASSUME Inv, NEW c \in Channels, AbortChannel(c)
    PROVE  Inv'
  <1>1. ch \in [Channels -> ChannelType] BY ChType
  <1>2. ch' = [ch EXCEPT ![c].st = "gone", ![c].errs = 0] BY DEF AbortChannel
  <1>3. ch' \in [Channels -> ChannelType] BY <1>1, <1>2, ClosedType
  <1>4. TypeOK' BY <1>3 DEF Inv, TypeOK, ChannelType, AbortChannel, royalVars, chatVars
  <1>5. ASSUME NEW d \in Channels PROVE Explained(d)'
    <2>1. ch'[d].in = ch[d].in /\ ch'[d].out = ch[d].out BY <1>1, <1>2 DEF ChannelType
    <2>2. IF d = c THEN ch'[d].st = "gone" ELSE ch'[d].st = ch[d].st BY <1>1, <1>2 DEF ChannelType
    <2>3. Explained(d) BY DEF Inv
    <2> QED BY <2>1, <2>2, <2>3 DEF AbortChannel, chatVars, Explained, Fresh, InSent, OutSent, Located, Behind, Mute, Kicked, HasIn, HasOut
  <1> QED BY <1>4, <1>5 DEF Inv, AbortChannel, chatVars


(* Where a sign-in is being handled the channel has left its first states. *)
LEMMA HandledFacts ==
    ASSUME Inv, NEW x \in Chats, NEW c \in Channels, Head1(x, c, "in")
    PROVE  /\ ch[c].st \notin {"idle", "accepted"} /\ ch[c].in = x
           /\ lane[x][c] # <<>>
  <1>1. HasIn(x, c) BY HeadFacts
  <1>2. Explained(c) BY DEF Inv
  <1> QED BY <1>1, <1>2, QueueFacts DEF Explained, InSent, Fresh, HasIn

LEMMA LoginListsKeeps ==
    ASSUME Inv, NEW x \in Chats, NEW c \in Channels, LoginLists(x, c)
    PROVE  Inv'
  <1> USE DEF LoginLists, royalVars, gateVars
  <1>k. kicks' \in [Chats -> SUBSET Channels] /\ \A y \in Chats : kicks[y] \subseteq kicks'[y]
    BY DEF Inv, TypeOK, Victims
  <1>1. TypeOK' BY <1>k DEF Inv, TypeOK
  <1>2. ch[c].st \notin {"idle", "accepted"} BY HandledFacts
  <1>3. ASSUME NEW d \in Channels PROVE Explained(d)'
    <2>1. IF d = c THEN job[d] = "idle" /\ job'[d] = "add" ELSE job'[d] = job[d]
      BY DEF Inv, TypeOK
    <2>2. Explained(d) BY DEF Inv
    <2>3. Kicked(d) => Kicked(d)' BY <1>k DEF Kicked
    <2> QED BY <1>2, <2>1, <2>2, <2>3 DEF Explained, Fresh, InSent, OutSent, Located, Behind, Mute, HasIn, HasOut
  <1> QED BY <1>1, <1>3 DEF Inv

LEMMA LoginAddsKeeps ==
    ASSUME Inv, NEW x \in Chats, NEW c \in Channels, LoginAdds(x, c)
    PROVE  Inv'
  <1> USE DEF LoginAdds, royalVars, gateVars
  <1>1. TypeOK' BY DEF Inv, TypeOK
  <1>2. ch[c].st \notin {"idle", "accepted"} /\ ch[c].in = x BY HandledFacts
  <1>3. HasIn(x, c) BY HeadFacts
  <1>4. ASSUME NEW d \in Channels PROVE Explained(d)'
    <2>1. IF d = c THEN job'[d] = "fill" /\ d \in locs'
          ELSE job'[d] = job[d] /\ (d \in locs' <=> d \in locs)
      BY DEF Inv, TypeOK
    <2>2. Explained(d) BY DEF Inv
    <2> QED BY <1>2, <1>3, <2>1, <2>2 DEF Explained, Fresh, InSent, OutSent, Located, Behind, Mute, Kicked, HasIn, HasOut
  <1> QED BY <1>1, <1>4 DEF Inv

(* The packet at the head of a lane is done with and the login moves on;   *)
(* a location stays or, if the login is refused, goes.                     *)
LEMMA PopInKeeps ==
    ASSUME Inv, NEW x \in Chats, NEW c \in Channels, NEW v \in {"done", "refused"},
           Head1(x, c, "in"), Pop(x, c), job' = [job EXCEPT ![c] = v],
           IF v = "done" THEN job[c] = "fill" /\ locs' = locs ELSE locs' = locs \ {c},
           UNCHANGED <<royalVars, gateVars, adults, moves, kicks, admin, lost, unkicked>>
    PROVE  Inv'
  <1>1. /\ ch[c].st \notin {"idle", "accepted"} /\ ch[c].in = x /\ lane[x][c] # <<>>
    BY HandledFacts
  <1>2. /\ lane' \in [Chats -> [Channels -> Queues]]
        /\ \A y \in Chats, d \in Channels : <<y, d>> # <<x, c>> => lane'[y][d] = lane[y][d]
        /\ lane'[x][c] \in {<<>>, <<"out">>}
        /\ lane'[x][c] = <<"out">> <=> lane[x][c] = <<"in", "out">>
    BY <1>1, PopFacts
  <1>3. TypeOK'
    <2>1. lane' \in [Chats -> [Channels -> Seq({"in", "out"})]] BY <1>2, QueuesType
    <2>2. locs' \subseteq Channels BY DEF Inv, TypeOK
    <2> QED BY <2>1, <2>2 DEF Inv, TypeOK, royalVars, gateVars
  <1>4. ASSUME NEW d \in Channels PROVE Explained(d)'
    <2>1. CASE d = c
      <3>1. HasIn(x, c) BY HeadFacts
      <3>2. \A y \in Chats : /\ ~HasIn(y, c)'
                             /\ HasOut(y, c)' <=> HasOut(y, c)
        <4> SUFFICES ASSUME NEW y \in Chats
                     PROVE  ~HasIn(y, c)' /\ (HasOut(y, c)' <=> HasOut(y, c))
          OBVIOUS
        <4>1. CASE y = x BY <1>2, <3>1, <4>1, QueueFacts DEF HasIn, HasOut
        <4>2. CASE y # x
          <5>1. lane'[y][c] = lane[y][c] BY <1>2, <4>2
          <5>2. ~HasIn(y, c) BY <1>1, <4>2 DEF Inv, Explained, InSent
          <5> QED BY <5>1, <5>2 DEF HasIn, HasOut
        <4> QED BY <4>1, <4>2
      <3>3. job'[c] = v /\ ch' = ch /\ kicks' = kicks /\ lost' = lost BY DEF Inv, TypeOK, gateVars
      <3>4. Explained(c) BY DEF Inv
      <3>5. (Fresh(c) /\ InSent(c) /\ OutSent(c))'
        BY <1>1, <3>2, <3>3, <3>4 DEF Explained, Fresh, InSent, OutSent
      <3>6. (Located(c) /\ Mute(c))' BY <3>3, <3>4 DEF Explained, Located, Mute, Kicked
      <3>7. Behind(c)' BY <1>1, <3>1, <3>2, <3>3, <3>4 DEF Explained, Behind
      <3> QED BY <2>1, <3>5, <3>6, <3>7 DEF Explained
    <2>2. CASE d # c
      <3>1. \A y \in Chats : lane'[y][d] = lane[y][d] BY <1>2, <2>2
      <3>2. job'[d] = job[d] /\ (d \in locs' <=> d \in locs) BY <2>2 DEF Inv, TypeOK
      <3>3. Explained(d) BY DEF Inv
      <3> QED BY <3>1, <3>2, <3>3 DEF gateVars, Explained, Fresh, InSent, OutSent, Located, Behind, Mute, Kicked, HasIn, HasOut
    <2> QED BY <2>1, <2>2
  <1> QED BY <1>2, <1>3, <1>4 DEF Inv

LEMMA LoginEndsKeeps ==
    ASSUME Inv, NEW x \in Chats, NEW c \in Channels,
           LoginFails(x, c) \/ LoginDone(x, c) \/ BackfillFails(x, c)
    PROVE  Inv'
  <1>1. CASE LoginFails(x, c)
    <2>1. c \notin locs BY <1>1 DEF LoginFails, Inv, Explained, Located
    <2>2. locs' = locs \ {c} BY <1>1, <2>1 DEF LoginFails
    <2> QED BY <1>1, <2>2, PopInKeeps DEF LoginFails
  <1>2. CASE LoginDone(x, c) BY <1>2, PopInKeeps DEF LoginDone
  <1>3. CASE BackfillFails(x, c) BY <1>3, PopInKeeps DEF BackfillFails
  <1> QED BY <1>1, <1>2, <1>3

(* The sign-out is handled, or fails and is remembered as lost. *)
LEMMA SignOutKeeps ==
    ASSUME Inv, NEW x \in Chats, NEW c \in Channels, SignOutStep(x, c)
    PROVE  Inv'
  <1> USE DEF SignOutStep, HandleSignOut, SignOutFails
  <1>1. lane[x][c] = <<"out">> BY HeadFacts
  <1>2. /\ lane' \in [Chats -> [Channels -> Queues]]
        /\ \A y \in Chats, d \in Channels : <<y, d>> # <<x, c>> => lane'[y][d] = lane[y][d]
        /\ lane'[x][c] = <<>>
    BY <1>1, PopFacts, QueueFacts
  <1>3. \/ locs' = locs \ {c} /\ lost' = lost
        \/ locs' = locs /\ lost' = lost \cup {c}
    OBVIOUS
  <1>4. /\ ch' = ch /\ job' = job /\ kicks' = kicks
        /\ UNCHANGED <<issued, revoked, outdated, unseen, draining, adults, moves, admin>>
    BY DEF royalVars, gateVars
  <1> USE DEF Inv
  <1>5. TypeOK'
    <2>1. lane' \in [Chats -> [Channels -> Seq({"in", "out"})]] BY <1>2, QueuesType
    <2> QED BY <1>3, <1>4, <2>1 DEF TypeOK
  <1>6. ASSUME NEW d \in Channels PROVE Explained(d)'
    <2>1. Explained(d) OBVIOUS
    <2>2. CASE d = c
      <3>1. HasOut(x, c) BY <1>1 DEF HasOut
      <3>2. ch[c].st = "gone" /\ ch[c].out = x BY <2>1, <2>2, <3>1 DEF Explained, OutSent
      <3>3. \A y \in Chats : /\ HasIn(y, c)' => HasIn(y, c) /\ y # x
                             /\ HasOut(y, c)' => HasOut(y, c)
        <4> SUFFICES ASSUME NEW y \in Chats
                     PROVE  /\ HasIn(y, c)' => HasIn(y, c) /\ y # x
                            /\ HasOut(y, c)' => HasOut(y, c)
          OBVIOUS
        <4>1. CASE y = x BY <1>2, <4>1, QueueFacts DEF HasIn, HasOut
        <4>2. CASE y # x
          <5>1. lane'[y][c] = lane[y][c] BY <1>2, <4>2
          <5> QED BY <4>2, <5>1 DEF HasIn, HasOut
        <4> QED BY <4>1, <4>2
      <3>4. (Fresh(c) /\ InSent(c) /\ OutSent(c))'
        BY <1>3, <1>4, <2>1, <2>2, <3>2, <3>3 DEF Explained, Fresh, InSent, OutSent
      <3>5. (Located(c) /\ Mute(c))' BY <1>3, <1>4, <2>1, <2>2, <3>2 DEF Explained, Located, Mute, Kicked
      <3>6. Behind(c)' BY <1>3, <1>4, <3>2, <3>3 DEF Behind
      <3> QED BY <2>2, <3>4, <3>5, <3>6 DEF Explained
    <2>3. CASE d # c
      <3>1. \A y \in Chats : lane'[y][d] = lane[y][d] BY <1>2, <2>3
      <3>2. (d \in locs' <=> d \in locs) /\ (d \in lost' <=> d \in lost) BY <1>3, <2>3
      <3> QED BY <1>4, <2>1, <3>1, <3>2 DEF Explained, Fresh, InSent, OutSent, Located, Behind, Mute, Kicked, HasIn, HasOut
    <2> QED BY <2>2, <2>3
  <1> QED BY <1>2, <1>5, <1>6

(* Locations expire only when no channel behind one is open. *)
LEMMA ExpireKeeps ==
    ASSUME Inv, Expire
    PROVE  Inv'
  <1> USE DEF Expire, royalVars, gateVars
  <1>1. TypeOK' BY DEF Inv, TypeOK
  <1>2. ASSUME NEW d \in Channels PROVE Explained(d)'
    <2>1. Explained(d) BY DEF Inv
    <2> QED BY <2>1 DEF Explained, Fresh, InSent, OutSent, Located, Behind, Mute, Kicked, HasIn, HasOut
  <1> QED BY <1>1, <1>2 DEF Inv

(* The admin's kick takes the location and sends the kickout in one step. *)
LEMMA AdminKicksKeeps ==
    ASSUME Inv, NEW c \in Channels, AdminKicks(c)
    PROVE  Inv'
  <1> USE DEF AdminKicks, royalVars, gateVars
  <1>1. (admin.todo # {c}) \in BOOLEAN /\ admin.todo \ {c} \subseteq Channels BY DEF Inv, TypeOK
  <1>2. admin' \in [on : BOOLEAN, todo : SUBSET Channels] BY <1>1
  <1>3. TypeOK'
    <2>1. kicks' \in [Chats -> SUBSET Channels] BY SessionsAssumption DEF Inv, TypeOK
    <2> QED BY <1>2, <2>1 DEF Inv, TypeOK
  <1>4. ASSUME NEW d \in Channels PROVE Explained(d)'
    <2>1. Explained(d) BY DEF Inv
    <2>2. /\ IF d = c THEN d \notin locs' /\ Kicked(d)'
             ELSE (d \in locs' <=> d \in locs) /\ (Kicked(d) => Kicked(d)')
          /\ unkicked' = unkicked
      <3>1. /\ c \in kicks'[AdminAt] /\ AdminAt \in Chats
            /\ \A y \in Chats : kicks[y] \subseteq kicks'[y]
        BY SessionsAssumption DEF Inv, TypeOK
      <3> QED BY <3>1 DEF Kicked
    <2> QED BY <2>1, <2>2 DEF Explained, Fresh, InSent, OutSent, Located, Behind, Mute, HasIn, HasOut
  <1> QED BY <1>3, <1>4 DEF Inv


(* The packets on a dead connection are lost; a lost sign-out is recorded. *)
LEMMA UplinkLostKeeps ==
    ASSUME Inv, NEW x \in Chats, UplinkLost(x)
    PROVE  Inv'
  <1> lane \in [Chats -> [Channels -> Queues]] BY DEF Inv
  <1>1. /\ ch' = ch /\ job' = job /\ locs' = locs
        /\ kicks' = [kicks EXCEPT ![x] = {}] /\ unkicked' = unkicked \cup kicks[x]
        /\ UNCHANGED <<issued, revoked, outdated, unseen, draining, adults, moves, admin>>
    BY DEF UplinkLost, royalVars, gateVars
  <1>2. lane' = [lane EXCEPT ![x] = [c \in Channels |->
                    IF job[c] \in {"add", "fill"} /\ lane[x][c] # <<>> /\ Head(lane[x][c]) = "in"
                    THEN <<"in">> ELSE <<>>]]
    BY DEF UplinkLost
  <1>3. lane' \in [Chats -> [Channels -> Queues]] BY <1>2 DEF Queues
  <1>4. \A y \in Chats, d \in Channels : y # x => lane'[y][d] = lane[y][d] BY <1>2
  <1>5. \A d \in Channels : /\ lane'[x][d] \in {<<>>, <<"in">>}
                            /\ lane'[x][d] = <<"in">> => HasIn(x, d)
    <2> SUFFICES ASSUME NEW d \in Channels
                 PROVE  /\ lane'[x][d] \in {<<>>, <<"in">>}
                        /\ lane'[x][d] = <<"in">> => HasIn(x, d)
      OBVIOUS
    <2>1. lane'[x][d] = IF job[d] \in {"add", "fill"} /\ lane[x][d] # <<>> /\ Head(lane[x][d]) = "in"
                        THEN <<"in">> ELSE <<>>
      BY <1>2
    <2>2. lane[x][d] # <<>> /\ Head(lane[x][d]) = "in" => HasIn(x, d) BY HeadFacts DEF Head1
    <2> QED BY <2>1, <2>2, QueueFacts
  <1>6. \A d \in Channels : (d \in lost => d \in lost') /\ (HasOut(x, d) => d \in lost')
    <2> SUFFICES ASSUME NEW d \in Channels
                 PROVE  (d \in lost => d \in lost') /\ (HasOut(x, d) => d \in lost')
      OBVIOUS
    <2>1. lost' = lost \cup {c \in Channels : lane[x][c] # <<>> /\ lane[x][c][Len(lane[x][c])] = "out"}
      BY DEF UplinkLost
    <2>2. HasOut(x, d) => lane[x][d] # <<>> /\ lane[x][d][Len(lane[x][d])] = "out"
      BY QueueFacts DEF HasOut
    <2> QED BY <2>1, <2>2
  <1>7. TypeOK'
    <2>1. lane' \in [Chats -> [Channels -> Seq({"in", "out"})]] BY <1>3, QueuesType
    <2>2. kicks' \in [Chats -> SUBSET Channels] /\ unkicked' \subseteq Channels BY <1>1 DEF Inv, TypeOK
    <2>3. lost' \subseteq Channels BY DEF Inv, TypeOK, UplinkLost
    <2> QED BY <1>1, <2>1, <2>2, <2>3 DEF Inv, TypeOK
  <1>8. ASSUME NEW d \in Channels PROVE Explained(d)'
    <2>1. Explained(d) BY DEF Inv
    <2>2. \A y \in Chats : /\ HasIn(y, d)' => HasIn(y, d)
                           /\ HasOut(y, d)' <=> HasOut(y, d) /\ y # x
      <3> SUFFICES ASSUME NEW y \in Chats
                   PROVE  (HasIn(y, d)' => HasIn(y, d)) /\ (HasOut(y, d)' <=> HasOut(y, d) /\ y # x)
        OBVIOUS
      <3>1. CASE y = x BY <1>5, <3>1, QueueFacts DEF HasIn, HasOut
      <3>2. CASE y # x
        <4>1. lane'[y][d] = lane[y][d] BY <1>4, <3>2
        <4> QED BY <3>2, <4>1 DEF HasIn, HasOut
      <3> QED BY <3>1, <3>2
    <2>3. Fresh(d)'
      <3> SUFFICES ASSUME ch[d].st \in {"idle", "accepted"}, NEW y \in Chats
                   PROVE  job[d] = "idle" /\ d \notin locs /\ lane'[y][d] = <<>>
        BY <1>1 DEF Fresh
      <3>1. job[d] = "idle" /\ d \notin locs /\ lane[y][d] = <<>> BY <2>1 DEF Explained, Fresh
      <3>2. lane'[y][d] = <<>>
        <4>1. CASE y = x BY <1>5, <3>1, <4>1, QueueFacts DEF HasIn
        <4>2. CASE y # x BY <1>4, <3>1, <4>2
        <4> QED BY <4>1, <4>2
      <3> QED BY <3>1, <3>2
    <2>4. (InSent(d) /\ OutSent(d))' BY <1>1, <2>1, <2>2 DEF Explained, InSent, OutSent
    <2>5. (Located(d) /\ Mute(d))'
      <3>1. Kicked(d) => Kicked(d)' \/ d \in unkicked'
        <4> SUFFICES ASSUME NEW y \in Chats, d \in kicks[y] PROVE Kicked(d)' \/ d \in unkicked'
          BY DEF Kicked
        <4>1. CASE y = x BY <1>1, <4>1
        <4>2. CASE y # x
          <5>1. kicks'[y] = kicks[y] BY <1>1, <4>2 DEF Inv, TypeOK
          <5> QED BY <5>1 DEF Kicked
        <4> QED BY <4>1, <4>2
      <3>2. unkicked \subseteq unkicked' BY <1>1
      <3> QED BY <1>1, <2>1, <3>1, <3>2 DEF Explained, Located, Mute
    <2>6. Behind(d)' BY <1>1, <1>6, <2>1, <2>2 DEF Explained, Behind
    <2> QED BY <2>3, <2>4, <2>5, <2>6 DEF Explained
  <1> QED BY <1>3, <1>7, <1>8 DEF Inv

(***************************************************************************)
(* The theorems.                                                           *)
(***************************************************************************)
LEMMA InitInv == Init => Inv
  <1> SUFFICES ASSUME Init PROVE Inv
    OBVIOUS
  <1>1. lane \in [Chats -> [Channels -> Queues]] /\ \A x \in Chats, c \in Channels : lane[x][c] = <<>>
    BY DEF Init, Queues
  <1>2. TypeOK
    <2>1. lane \in [Chats -> [Channels -> Seq({"in", "out"})]] BY <1>1, QueuesType
    <2>2. 0 \in 0 .. Grace - 1 /\ MaxMoves \in 0 .. MaxMoves BY SessionsAssumption
    <2> QED BY <2>1, <2>2 DEF Init, TypeOK
  <1>3. ASSUME NEW c \in Channels PROVE Explained(c)
    <2>1. \A x \in Chats : ~HasIn(x, c) /\ ~HasOut(x, c) BY <1>1, QueueFacts DEF HasIn, HasOut
    <2>2. ch[c].st = "idle" /\ job[c] = "idle" /\ c \notin locs BY DEF Init
    <2> QED BY <1>1, <2>1, <2>2 DEF Explained, Fresh, InSent, OutSent, Located, Behind, Mute, Kicked
  <1> QED BY <1>1, <1>2, <1>3 DEF Inv

LEMMA NextInv == Inv /\ [Next]_vars => Inv'
  <1> SUFFICES ASSUME Inv, [Next]_vars PROVE Inv'
    OBVIOUS
  <1>1. ASSUME NEW c \in Channels,
               \/ Issue(c) \/ Logout(c) \/ ChangePassword(c)
               \/ Accept(c) \/ ConnEnds(c) \/ AbortChannel(c) \/ DeliverKick(c) \/ GateStep(c)
        PROVE  Inv'
    BY <1>1, IssueKeeps, LogoutKeeps, AcceptKeeps, ConnEndsKeeps, AbortChannelKeeps,
       DeliverKickKeeps, OnChannelReadyKeeps, ReadyFailsKeeps, DisconnectKeeps DEF GateStep
  <1>2. ASSUME NEW c \in Channels, NEW x \in Chats, LoginStep(x, c) \/ SignOutStep(x, c)
        PROVE  Inv'
    BY <1>2, LoginListsKeeps, LoginAddsKeeps, LoginEndsKeeps, SignOutKeeps DEF LoginStep
  <1>3. CASE AdminStep BY <1>3, AdminKeeps, AdminKicksKeeps DEF AdminStep
  <1>4. CASE UNCHANGED vars
    <2>1. UNCHANGED <<ch, lane, job, locs, kicks, lost, unkicked>> BY <1>4 DEF vars, gateVars, chatVars
    <2>2. TypeOK' BY <1>4 DEF vars, royalVars, gateVars, chatVars, Inv, TypeOK
    <2> QED BY <2>1, <2>2, KeepsExplained
  <1> QED BY <1>1, <1>2, <1>3, <1>4, HeartbeatKeeps, ShutdownKeeps, ExpireKeeps, AdultsMoveKeeps, WarmEpochKeeps,
             UplinkLostKeeps DEF Next

LEMMA InvExplains == Inv => SessionsExplained
  <1> SUFFICES ASSUME Inv PROVE SessionsExplained
    OBVIOUS
  <1>1. GhostExplained
    <2> SUFFICES ASSUME NEW c \in locs, ch[c].st = "gone", \A x \in Chats : lane[x][c] = <<>>,
                        c \notin lost, ch[c].in = ch[c].out
                 PROVE  FALSE
      BY DEF GhostExplained
    <2>1. c \in Channels BY DEF Inv, TypeOK
    <2>2. Located(c) /\ Behind(c) BY <2>1 DEF Inv, Explained
    <2>3. ch[c].in \in Chats BY <2>2 DEF Located
    <2>4. HasOut(ch[c].in, c) BY <2>2, <2>3 DEF Behind
    <2> QED BY <2>3, <2>4, QueueFacts DEF HasOut
  <1>2. MuteIsKicked BY DEF MuteIsKicked, Inv, Explained, Mute, Kicked
  <1> QED BY <1>1, <1>2 DEF SessionsExplained

(* Every variable keeps its type: in particular an open channel's count of *)
(* failed heartbeats stays below HEARTBEAT_REVOKE_ERROR_GRACE.             *)
THEOREM TypeCorrect == Spec => []TypeOK
  <1>1. Inv => TypeOK BY DEF Inv
  <1> QED BY InitInv, NextInv, <1>1, PTL DEF Spec

(* Every location without a channel behind it lost its sign-out or sent it *)
(* elsewhere, and every open channel without a location is being kicked or *)
(* lost its kickout with an uplink (do_sys_login, do_sys_logout,           *)
(* ChatAdmin::kick, on_channel_ready, disconnect), for every number of     *)
(* channels and chat instances.                                            *)
THEOREM SessionsSafety == Spec => []SessionsExplained
  BY InitInv, NextInv, InvExplains, PTL DEF Spec
=============================================================================
