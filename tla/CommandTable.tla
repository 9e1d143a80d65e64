---------------------------- MODULE CommandTable ----------------------------
(***************************************************************************)
(* The commands a client and the chat service exchange, as each side has   *)
(* them in its own code:                                                   *)
(*                                                                         *)
(*   crates/kim-client/src/client.rs  what a method sends and what it takes *)
(*   crates/kim-client/src/wire.rs    the encoders, decode_logic           *)
(*   services/chat/src/lib.rs         the handlers of the router           *)
(*   services/chat/src/*.rs           what each handler reads and answers  *)
(*                                                                         *)
(* Nothing but these lines makes the two sides agree.  Commands and        *)
(* messages are their names; what a message carries is left out.           *)
(***************************************************************************)
EXTENDS TLC

(***************************************************************************)
(* The methods of KimClient.  dest: the header names a destination.        *)
(* takes: the event that is the method's result.  plain: a Status of 0 is  *)
(* a result as well.  A method that takes "None" returns once its request  *)
(* is written.                                                             *)
(***************************************************************************)
Request(c, b, d) == [cmd |-> c, body |-> b, dest |-> d]
Taking(r, e, p) == [req |-> r, takes |-> e, plain |-> p]

(* The encoders. *)
EncodeTalk ==
  [user |-> Request("user.talk", "MessageReq", TRUE),
   group |-> Request("group.talk", "MessageReq", TRUE)]
EncodeAck == Request("talk.ack", "MessageAckReq", FALSE)
EncodeInbox ==
  [list |-> Request("inbox.list", "InboxReq", FALSE),
   read |-> Request("inbox.read", "ConversationReadReq", TRUE),
   states |-> Request("inbox.states", "ConversationStatesReq", FALSE),
   history |-> Request("history", "HistoryReq", TRUE)]
EncodeOffline ==
  [index |-> Request("offline.index", "MessageIndexReq", FALSE),
   content |-> Request("offline.content", "MessageContentReq", FALSE)]
EncodeDestCmd(c) == Request(c, "Empty", TRUE)
EncodeEmptyCmd(c) == Request(c, "Empty", FALSE)
EncodeUserUpdate == Request("user.update", "UserProfileUpdate", FALSE)
EncodeUserSearch == Request("user.search", "UserSearchReq", FALSE)
EncodeBot ==
  [create |-> Request("bot.create", "BotCreateReq", FALSE),
   update |-> Request("bot.update", "BotUpdateReq", TRUE),
   reply |-> Request("bot.reply", "BotReplyReq", TRUE)]
EncodeBotPending == Request("bot.pending", "InboxReq", TRUE)
EncodeBotTyping  == Request("bot.typing", "TypingReq", TRUE)
EncodeSpec ==
  [sync |-> Request("spec.sync", "Empty", FALSE),
   upsert |-> Request("spec.upsert", "AgentSpecUpsertReq", FALSE)]
EncodeRoom ==
  [enter |-> Request("room.enter", "RoomEnterReq", FALSE),
   leave |-> Request("room.leave", "RoomLeaveReq", FALSE),
   typing |-> Request("typing", "TypingReq", FALSE)]

(* Friends and bot_delete: dest_status; friend lists: user_list. *)
DestStatus(c) == Taking(EncodeDestCmd(c), "Status", TRUE)
UserListOf(c) == Taking(EncodeEmptyCmd(c), "UserList", FALSE)

TalkMethods ==
  [send_message |-> Taking(EncodeTalk.user, "TalkResp", FALSE),
   send_group   |-> Taking(EncodeTalk.group, "TalkResp", FALSE)]
InboxMethods ==
  [inbox_list          |-> Taking(EncodeInbox.list, "Inbox", FALSE),
   mark_read_state     |-> Taking(EncodeInbox.read, "ConversationRead", TRUE),
   conversation_states |-> Taking(EncodeInbox.states, "ConversationStates", FALSE),
   history             |-> Taking(EncodeInbox.history, "History", FALSE)]
OfflineMethods ==
  [offline_index   |-> Taking(EncodeOffline.index, "OfflinePage", FALSE),
   offline_content |-> Taking(EncodeOffline.content, "OfflineContent", FALSE)]
BotMethods ==
  [bot_create  |-> Taking(EncodeBot.create, "Profile", FALSE),
   bot_delete  |-> DestStatus("bot.delete")]
BotTurnMethods ==
  [bot_update  |-> Taking(EncodeBot.update, "Profile", FALSE),
   bot_reply   |-> Taking(EncodeBot.reply, "TalkResp", FALSE),
   bot_pending |-> Taking(EncodeBotPending, "BotPending", FALSE)]
SpecMethods ==
  [agent_spec_sync   |-> Taking(EncodeSpec.sync, "AgentSpecSync", FALSE),
   agent_spec_upsert |-> Taking(EncodeSpec.upsert, "AgentSpecUpsert", FALSE)]
FriendMethods ==
  [friend_request  |-> DestStatus("friend.request"),
   friend_accept   |-> DestStatus("friend.accept"),
   friend_reject   |-> DestStatus("friend.reject"),
   friend_remove   |-> DestStatus("friend.remove"),
   friend_list     |-> UserListOf("friend.list"),
   friend_incoming |-> UserListOf("friend.incoming")]
ProfileMethods ==
  [profile        |-> Taking(EncodeDestCmd("user.profile"), "Profile", FALSE),
   update_profile |-> Taking(EncodeUserUpdate, "Profile", FALSE),
   search_users   |-> Taking(EncodeUserSearch, "UserList", FALSE)]
RoomMethods ==
  [room_enter |-> Taking(EncodeRoom.enter, "RoomEnter", FALSE),
   room_leave |-> Taking(EncodeRoom.leave, "Status", TRUE)]
NoticeMethods ==
  [send_typing |-> Taking(EncodeRoom.typing, "None", FALSE),
   bot_typing  |-> Taking(EncodeBotTyping, "None", FALSE)]
AckMethods == [ack |-> Taking(EncodeAck, "None", FALSE)]

Methods ==
  TalkMethods @@ InboxMethods @@ OfflineMethods @@ BotMethods @@ BotTurnMethods @@ SpecMethods
    @@ FriendMethods @@ ProfileMethods @@ RoomMethods @@ NoticeMethods @@ AckMethods

(***************************************************************************)
(* The handlers.  reads: the message it decodes ("Any": it takes a body it *)
(* cannot decode for an empty one, or reads none).  dest: it refuses a     *)
(* header without a destination.  ok: the message of its Success.  fails:  *)
(* the statuses it may answer instead.                                     *)
(***************************************************************************)
Handler(r, d, o, f) == [reads |-> r, dest |-> d, ok |-> o, fails |-> f]

BadBody == {"InvalidPacketBody"}
Down    == {"SystemException"}

StoreStatus  == {"InvalidPacketBody", "UserNotFound", "NotBotOwner", "SystemException"}
UserStatus   == {"UserNotFound", "InvalidPacketBody", "NotBotOwner", "SystemException"}
LookupBot    == {"UserNotFound", "SystemException"}
SocialStatus == {"InvalidPacketBody", "UserNotFound", "Blocked", "BotSocialDenied",
                 "SystemException"}
RejectBotSocial == {"BotSocialDenied", "UserNotFound", "SystemException"}
SpecStatus   == {"InvalidPacketBody", "NotBotOwner", "SystemException"}
Filtered     == {"ContentBlocked"}

TalkHandlers ==
  "user.talk" :> Handler("MessageReq", TRUE, "MessageResp",
      BadBody \cup Filtered \cup Down
        \cup {"UserNotFound", "Blocked", "NotFriends", "IdempotencyConflict"})
GroupTalkHandlers ==
  "group.talk" :> Handler("MessageReq", TRUE, "MessageResp",
      BadBody \cup Filtered \cup Down \cup {"NotGroupMember", "IdempotencyConflict"})
AckHandlers ==
  "talk.ack" :> Handler("MessageAckReq", FALSE, "Empty", BadBody \cup Down)
OfflineHandlers ==
  "offline.index" :> Handler("MessageIndexReq", FALSE, "MessageIndexResp", BadBody \cup Down)
    @@ "offline.content"
         :> Handler("MessageContentReq", FALSE, "MessageContentResp", BadBody \cup Down)
InboxListHandlers ==
  "inbox.list" :> Handler("Any", FALSE, "InboxResp", Down)
HistoryHandlers ==
  "history" :> Handler("HistoryReq", TRUE, "HistoryResp", BadBody \cup Down)
ReadHandlers ==
  "inbox.read" :> Handler("ConversationReadReq", TRUE, "ConversationReadState", BadBody \cup Down)
StatesHandlers ==
  "inbox.states"
    :> Handler("ConversationStatesReq", FALSE, "ConversationStatesResp", BadBody \cup Down)
ProfileHandlers ==
  "user.profile" :> Handler("Any", FALSE, "UserProfile", {"UserNotFound"} \cup Down)
    @@ "user.update" :> Handler("UserProfileUpdate", FALSE, "UserProfile",
                                BadBody \cup Down \cup {"Unauthorized", "UserNotFound"})
SearchHandlers ==
  "user.search" :> Handler("UserSearchReq", FALSE, "UserSearchResp", BadBody \cup Down)
RoomHandlers ==
  "room.enter" :> Handler("RoomEnterReq", FALSE, "RoomEnterResp",
                          BadBody \cup Down \cup {"Blocked", "NotFriends"})
    @@ "room.leave" :> Handler("RoomLeaveReq", FALSE, "Empty", BadBody \cup Down)
TypingHandlers ==
  "typing" :> Handler("TypingReq", FALSE, "Empty",
                      BadBody \cup Down \cup {"Blocked", "NotFriends"})
FriendHandlers ==
  "friend.request" :> Handler("Any", TRUE, "Empty", SocialStatus \cup RejectBotSocial)
    @@ "friend.accept" :> Handler("Any", TRUE, "Empty", SocialStatus)
FriendEndHandlers ==
  "friend.reject" :> Handler("Any", TRUE, "Empty", SocialStatus)
    @@ "friend.remove" :> Handler("Any", TRUE, "Empty", SocialStatus \cup RejectBotSocial)
FriendListHandlers ==
  "friend.list" :> Handler("Any", FALSE, "UserListResp", SocialStatus)
    @@ "friend.incoming" :> Handler("Any", FALSE, "UserListResp", SocialStatus)
BotAdminHandlers ==
  "bot.create" :> Handler("BotCreateReq", FALSE, "BotCreateResp", UserStatus)
    @@ "bot.delete" :> Handler("Any", TRUE, "Empty", LookupBot \cup UserStatus \cup StoreStatus)
    @@ "bot.update" :> Handler("BotUpdateReq", TRUE, "BotCreateResp", LookupBot \cup UserStatus)
BotReplyHandlers ==
  "bot.reply" :> Handler("BotReplyReq", TRUE, "MessageResp",
                         BadBody \cup Filtered \cup LookupBot \cup StoreStatus)
BotTurnHandlers ==
  "bot.pending" :> Handler("Any", TRUE, "BotPendingResp", LookupBot \cup StoreStatus)
    @@ "bot.typing" :> Handler("TypingReq", TRUE, "Empty", BadBody \cup LookupBot \cup {"NotBotOwner"})
SpecHandlers ==
  "spec.sync" :> Handler("Any", FALSE, "AgentSpecSyncResp", SpecStatus)
    @@ "spec.upsert" :> Handler("AgentSpecUpsertReq", FALSE, "AgentSpecUpsertResp", SpecStatus)

(* Router::handle for each command, in the order of ChatHandler's constructor. *)
MessageRoutes ==
  TalkHandlers @@ GroupTalkHandlers @@ AckHandlers @@ OfflineHandlers
UserRoutes ==
  ProfileHandlers @@ SearchHandlers @@ RoomHandlers @@ TypingHandlers @@ FriendHandlers
    @@ FriendEndHandlers @@ FriendListHandlers
InboxRoutes ==
  InboxListHandlers @@ ReadHandlers @@ StatesHandlers @@ HistoryHandlers @@ BotAdminHandlers
    @@ BotReplyHandlers @@ BotTurnHandlers @@ SpecHandlers
Routes == MessageRoutes @@ UserRoutes @@ InboxRoutes

(* What ChatHandler::receive answers before the router is asked. *)
ReceiveFails == {"SessionNotFound", "SystemException", "Unauthorized"}

(***************************************************************************)
(* decode_logic: the message it expects of a packet and the event it makes *)
(* of it.  A packet it has no line for becomes a Status, pushes included.  *)
(***************************************************************************)
Decoder(b, e) == [body |-> b, event |-> e]

ReadAnswers ==
  "inbox.read" :> Decoder("ConversationReadState", "ConversationRead")
    @@ "inbox.states" :> Decoder("ConversationStatesResp", "ConversationStates")
RoomAnswers ==
  "room.enter" :> Decoder("RoomEnterResp", "RoomEnter")
    @@ "room.leave" :> Decoder("Any", "Status")
TalkAnswers ==
  [c \in {"user.talk", "group.talk", "bot.reply"} |-> Decoder("MessageResp", "TalkResp")]
UserAnswers ==
  [c \in {"friend.list", "friend.incoming"} |-> Decoder("UserListResp", "UserList")]
    @@ "user.search" :> Decoder("UserSearchResp", "UserList")
BotAnswers ==
  "bot.create" :> Decoder("BotCreateResp", "Profile")
    @@ "bot.pending" :> Decoder("BotPendingResp", "BotPending")
    @@ "bot.update" :> Decoder("BotCreateResp", "Profile")
ProfileAnswers ==
  [c \in {"user.profile", "user.update"} |-> Decoder("UserProfile", "Profile")]
InboxAnswers ==
  "inbox.list" :> Decoder("InboxResp", "Inbox")
    @@ "history" :> Decoder("HistoryResp", "History")
OfflineAnswers ==
  "offline.index" :> Decoder("MessageIndexResp", "OfflinePage")
    @@ "offline.content" :> Decoder("MessageContentResp", "OfflineContent")
SpecAnswers ==
  "spec.sync" :> Decoder("AgentSpecSyncResp", "AgentSpecSync")
    @@ "spec.upsert" :> Decoder("AgentSpecUpsertResp", "AgentSpecUpsert")
Answers ==
  ReadAnswers @@ RoomAnswers @@ TalkAnswers @@ UserAnswers @@ BotAnswers
    @@ ProfileAnswers @@ InboxAnswers @@ OfflineAnswers @@ SpecAnswers

SessionPushes ==
  "login.renew" :> Decoder("AuthResp", "TokenRenew")
    @@ "group.create" :> Decoder("GroupCreateNotify", "GroupCreate")
SocialPushes ==
  "friend.request" :> Decoder("FriendRequestNotify", "FriendRequest")
    @@ "friend.accept" :> Decoder("FriendRequestNotify", "FriendAccepted")
    @@ "user.updated" :> Decoder("UserProfile", "ProfileUpdated")
RoomPushes ==
  "presence" :> Decoder("PresencePush", "PresenceUpdated")
    @@ "typing" :> Decoder("TypingPush", "TypingUpdated")
    @@ "receipt.read" :> Decoder("ReadReceiptPush", "ReceiptRead")
    @@ "inbox.read.sync" :> Decoder("ConversationReadSyncPush", "ConversationReadSync")
TalkPushes ==
  [c \in {"user.talk", "group.talk"} |-> Decoder("MessagePush", "Talk")]
Pushes == SessionPushes @@ SocialPushes @@ RoomPushes @@ TalkPushes

(* What the gateway and the handlers push, and with which message. *)
RenewPushed    == {<<"login.renew", "AuthResp">>}
CreatePushed   == {<<"group.create", "GroupCreateNotify">>}
InvitePushed   == {<<"group.invite", "GroupCreateNotify">>}
FriendPushed   == {<<"friend.request", "FriendRequestNotify">>,
                   <<"friend.accept", "FriendRequestNotify">>}
ProfilePushed  == {<<"user.updated", "UserProfile">>}
PresencePushed == {<<"presence", "PresencePush">>}
TypingPushed   == {<<"typing", "TypingPush">>}
ReadPushed     == {<<"receipt.read", "ReadReceiptPush">>,
                   <<"inbox.read.sync", "ConversationReadSyncPush">>}
TalkPushed     == {<<"user.talk", "MessagePush">>, <<"group.talk", "MessagePush">>}
Pushed ==
  RenewPushed \cup CreatePushed \cup InvitePushed \cup FriendPushed \cup ProfilePushed
    \cup PresencePushed \cup TypingPushed \cup ReadPushed \cup TalkPushed
=============================================================================
