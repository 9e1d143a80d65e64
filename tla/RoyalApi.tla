------------------------------ MODULE RoyalApi ------------------------------
(***************************************************************************)
(* The calls of chat and gateway to royal: what each side of a call says   *)
(* about it, and what becomes of an answer on its way.                     *)
(*                                                                         *)
(* Chat reaches its store and directories either in its own process or     *)
(* through royal (Http* over RoyalPool).  Each side is written from its    *)
(* own source: the call as chat makes it, the route and the handler as     *)
(* royal has them.  An error of the backend becomes an HTTP status with a  *)
(* text in royal, an error of the trait again in chat, and a Status for    *)
(* the client in chat's handler.  Messages are named by their types.       *)
(***************************************************************************)
EXTENDS Integers, TLC

Call(verb, path, sends, expects) ==
  [verb |-> verb, path |-> path, sends |-> sends, expects |-> expects]
Post(path, sends, expects) == Call("POST", path, sends, expects)

(* post_maybe_empty takes whatever body comes with a success. *)
Anything == "anything"
PostMaybeEmpty(path, sends) == Post(path, sends, Anything)

-----------------------------------------------------------------------------
(* Chat's side: HttpMessageStore, HttpGroupDirectory, HttpUserDirectory,   *)
(* HttpSocialDirectory, HttpAgentSpecStore; the gateway's HttpRevoke.      *)

InsertCalls ==
  [insert_user      |-> Post("/api/v1/message/user", "InsertMessageReq", "InsertMessageResp"),
   insert_group     |-> Post("/api/v1/message/group", "InsertMessageReq", "InsertMessageResp")]

DeliveryCalls ==
  [ack               |-> PostMaybeEmpty("/api/v1/message/ack", "AckMessageReq"),
   offline_index     |-> Post("/api/v1/offline/index", "OfflineIndexReq", "MessageIndexResp"),
   backfill_delivery |-> PostMaybeEmpty("/api/v1/delivery/backfill", "DeliveryBackfillReq"),
   offline_content   |-> Post("/api/v1/offline/content", "MessageContentReq", "MessageContentResp")]

ConversationCalls ==
  [inbox     |-> Post("/api/v1/inbox", "InboxQuery", "InboxResp"),
   history   |-> Post("/api/v1/history", "HistoryQuery", "HistoryResp"),
   mark_read |-> Post("/api/v1/inbox/read", "ConversationRead", "ConversationReadState")]

StatesCall ==
  [conversation_states |->
     Post("/api/v1/inbox/states", "ConversationStatesQuery", "ConversationStatesResp")]

BotStoreCalls ==
  [insert_bot_reply |-> Post("/api/v1/bot/reply", "BotReplyStoreReq", "InsertMessageResp"),
   bot_pending      |-> Post("/api/v1/bot/pending", "BotPendingQuery", "BotPendingResp"),
   purge_peer_dm    |-> PostMaybeEmpty("/api/v1/message/purge-dm", "AccountPair")]

GroupCalls ==
  [group_create    |-> Post("/api/v1/group", "InternalGroupCreate", "GroupCreateResp"),
   group_members   |-> Post("/api/v1/group/members", "InternalGroupQuery", "GroupMembersResp"),
   group_join      |-> PostMaybeEmpty("/api/v1/group/member", "InternalGroupMember"),
   group_quit      |-> PostMaybeEmpty("/api/v1/group/quit", "InternalGroupMember"),
   group_detail    |-> Post("/api/v1/group/detail", "InternalGroupQuery", "GroupDetail"),
   group_summaries |-> Post("/api/v1/group/summaries", "GroupListReq", "GroupListResp")]

UserCalls ==
  [upsert         |-> PostMaybeEmpty("/internal/user/upsert", "AccountQuery"),
   exists         |-> Post("/internal/user/lookup", "AccountQuery", "AccountExists"),
   profile        |-> Post("/api/v1/user/profile", "AccountQuery", "UserProfile"),
   update_profile |-> Post("/api/v1/user/update", "ProfileUpdateReq", "UserProfile"),
   profiles       |-> Post("/api/v1/user/profiles", "AccountList", "UserListResp"),
   search         |-> Post("/api/v1/user/search", "UserSearchQuery", "UserSearchResp")]

BotCalls ==
  [create_bot |-> Post("/api/v1/bot", "InternalBotCreate", "BotCreateResp"),
   update_bot |-> Post("/api/v1/bot/update", "InternalBotUpdate", "BotCreateResp"),
   bot_config |-> Post("/api/v1/bot/config", "InternalBotConfig", "InternalBotConfig"),
   delete_bot |-> Call("DELETE", "/api/v1/bot", "AccountPair", "AccountExists"),
   lookup     |-> Post("/internal/user/lookup", "AccountQuery", "AccountExists")]

(* What only royal may do: chat's directory answers with an error itself.  *)
RoyalOnly == {"create", "password_hash", "set_password", "token_epoch", "bump_token_epoch",
              "set_password_and_bump_epoch", "count_bots"}

PairOp(path) == PostMaybeEmpty(path, "AccountPair")
Question(path) == Post(path, "AccountPair", "AccountExists")
Listing(path) == Post(path, "AccountQuery", "AccountList")

SocialCalls ==
  [request           |-> Question("/api/v1/friend/request"),
   accept            |-> PairOp("/api/v1/friend/accept"),
   reject            |-> PairOp("/api/v1/friend/reject"),
   remove            |-> PairOp("/api/v1/friend/remove"),
   list_friends      |-> Listing("/api/v1/friend/list"),
   incoming          |-> Listing("/api/v1/friend/incoming"),
   is_friend         |-> Question("/api/v1/friend/check"),
   block             |-> PairOp("/api/v1/block/add"),
   unblock           |-> PairOp("/api/v1/block/remove"),
   list_blocked      |-> Listing("/api/v1/block/list"),
   is_blocked_either |-> Question("/api/v1/block/check")]

SpecCalls ==
  [list           |-> Post("/api/v1/agent/spec/sync", "InternalAgentSpecQuery", "AgentSpecSyncResp"),
   spec_upsert    |-> Post("/api/v1/agent/spec/upsert", "InternalAgentSpecUpsert", "AgentSpecUpsertResp"),
   list_accounts  |-> Post("/api/v1/agent/spec/sync", "InternalAgentSpecQuery", "AgentSpecSyncResp"),
   upsert_account |-> Post("/api/v1/agent/spec/upsert", "InternalAgentSpecUpsert", "AgentSpecUpsertResp")]

GatewayCalls ==
  [is_revoked  |-> Post("/internal/revoke/check", "RevokeQuery", "RevokeStatus"),
   token_epoch |-> Post("/internal/token-epoch", "TokenEpochQuery", "TokenEpoch"),
   device_ok   |-> Post("/internal/device/check", "DeviceCheckQuery", "DeviceCheckStatus")]

(* The messages in which chat names its app. *)
AppMessages == {"AckMessageReq", "OfflineIndexReq", "DeliveryBackfillReq", "MessageContentReq",
                "InternalGroupCreate", "InternalGroupMember", "InternalGroupQuery", "GroupListReq"}

Backends ==
  [store  |-> InsertCalls @@ DeliveryCalls @@ ConversationCalls @@ StatesCall @@ BotStoreCalls,
   group  |-> GroupCalls,
   user   |-> UserCalls @@ BotCalls,
   social |-> SocialCalls,
   spec   |-> SpecCalls]

-----------------------------------------------------------------------------
(* Royal's side: the routes behind require_hmac, and the handlers.         *)

Routes ==
  [lookup    |-> <<"POST", "/internal/user/lookup">>,
   upsert    |-> <<"POST", "/internal/user/upsert">>,
   revoke    |-> <<"POST", "/internal/revoke/check">>,
   epoch     |-> <<"POST", "/internal/token-epoch">>,
   device    |-> <<"POST", "/internal/device/check">>,
   insert_user       |-> <<"POST", "/api/v1/message/user">>,
   insert_group      |-> <<"POST", "/api/v1/message/group">>,
   ack               |-> <<"POST", "/api/v1/message/ack">>,
   offline_index     |-> <<"POST", "/api/v1/offline/index">>,
   delivery_backfill |-> <<"POST", "/api/v1/delivery/backfill">>,
   offline_content   |-> <<"POST", "/api/v1/offline/content">>,
   group_create      |-> <<"POST", "/api/v1/group">>,
   group_join        |-> <<"POST", "/api/v1/group/member">>,
   group_quit        |-> <<"POST", "/api/v1/group/quit">>,
   group_members     |-> <<"POST", "/api/v1/group/members">>,
   group_detail      |-> <<"POST", "/api/v1/group/detail">>,
   group_summaries   |-> <<"POST", "/api/v1/group/summaries">>,
   user_profile      |-> <<"POST", "/api/v1/user/profile">>,
   user_update       |-> <<"POST", "/api/v1/user/update">>,
   user_profiles     |-> <<"POST", "/api/v1/user/profiles">>,
   user_search       |-> <<"POST", "/api/v1/user/search">>,
   friend_request    |-> <<"POST", "/api/v1/friend/request">>,
   friend_accept     |-> <<"POST", "/api/v1/friend/accept">>,
   friend_reject     |-> <<"POST", "/api/v1/friend/reject">>,
   friend_remove     |-> <<"POST", "/api/v1/friend/remove">>,
   friend_list       |-> <<"POST", "/api/v1/friend/list">>,
   friend_incoming   |-> <<"POST", "/api/v1/friend/incoming">>,
   friend_check      |-> <<"POST", "/api/v1/friend/check">>,
   block_add         |-> <<"POST", "/api/v1/block/add">>,
   block_remove      |-> <<"POST", "/api/v1/block/remove">>,
   block_list        |-> <<"POST", "/api/v1/block/list">>,
   block_check       |-> <<"POST", "/api/v1/block/check">>,
   inbox_list        |-> <<"POST", "/api/v1/inbox">>,
   history           |-> <<"POST", "/api/v1/history">>,
   inbox_read        |-> <<"POST", "/api/v1/inbox/read">>,
   inbox_states      |-> <<"POST", "/api/v1/inbox/states">>,
   bot_create        |-> <<"POST", "/api/v1/bot">>,
   bot_delete        |-> <<"DELETE", "/api/v1/bot">>,
   purge_dm          |-> <<"POST", "/api/v1/message/purge-dm">>,
   bot_update        |-> <<"POST", "/api/v1/bot/update">>,
   bot_config        |-> <<"POST", "/api/v1/bot/config">>,
   bot_reply         |-> <<"POST", "/api/v1/bot/reply">>,
   bot_pending       |-> <<"POST", "/api/v1/bot/pending">>,
   spec_sync         |-> <<"POST", "/api/v1/agent/spec/sync">>,
   spec_upsert       |-> <<"POST", "/api/v1/agent/spec/upsert">>]

(* A handler decodes one message, asks the backend under an app - its own, *)
(* or the one the request names - and encodes the answer, or the error     *)
(* through one of the maps below.  guards are the requests it refuses with *)
(* a status of its own.                                                    *)
Handler(decodes, answers, errors) ==
  [decodes |-> decodes, answers |-> answers, errors |-> errors, app |-> "own", guards |-> {}]
Named(h) == [h EXCEPT !.app = "request"]
Guarded(h, statuses) == [h EXCEPT !.guards = statuses]
Empty == "empty"

InsertHandlers ==
  [insert_user  |-> Handler("InsertMessageReq", "InsertMessageResp", "backend"),
   insert_group |-> Handler("InsertMessageReq", "InsertMessageResp", "backend")]

AckHandlers ==
  [ack           |-> Guarded(Handler("AckMessageReq", Empty, "backend"), {400, 503}),
   offline_index |-> Guarded(Handler("OfflineIndexReq", "MessageIndexResp", "backend"), {400, 503})]

DeliveryHandlers ==
  [delivery_backfill |-> Guarded(Handler("DeliveryBackfillReq", Empty, "backend"), {400, 503}),
   offline_content   |-> Guarded(Named(Handler("MessageContentReq", "MessageContentResp", "backend")), {400})]

ByApp(h) == Guarded(Named(h), {400})   \* require_app

GroupHandlers ==
  [group_create    |-> ByApp(Handler("InternalGroupCreate", "GroupCreateResp", "group_http")),
   group_join      |-> ByApp(Handler("InternalGroupMember", Empty, "group_http")),
   group_quit      |-> ByApp(Handler("InternalGroupMember", Empty, "group_http")),
   group_members   |-> ByApp(Handler("InternalGroupQuery", "GroupMembersResp", "group_http")),
   group_detail    |-> ByApp(Handler("InternalGroupQuery", "GroupDetail", "group_http")),
   group_summaries |-> ByApp(Handler("GroupListReq", "GroupListResp", "group_http"))]

InternalHandlers ==
  [lookup |-> Guarded(Handler("AccountQuery", "AccountExists", "user_http"), {400}),
   upsert |-> Guarded(Handler("AccountQuery", Empty, "user_http"), {400}),
   revoke |-> Guarded(Handler("RevokeQuery", "RevokeStatus", "backend"), {400}),
   epoch  |-> Guarded(Handler("TokenEpochQuery", "TokenEpoch", "backend"), {400}),
   device |-> Guarded(Handler("DeviceCheckQuery", "DeviceCheckStatus", "backend"), {400})]

UserHandlers ==
  [user_profile  |-> Guarded(Handler("AccountQuery", "UserProfile", "user_http"), {404}),
   user_update   |-> Handler("ProfileUpdateReq", "UserProfile", "user_http"),
   user_profiles |-> Handler("AccountList", "UserListResp", "user_http"),
   user_search   |-> Handler("UserSearchQuery", "UserSearchResp", "user_http")]

(* reject_bot_social asks who the peer is before the operation runs. *)
WithPeer(h) == Guarded(h, {403, 404})
Pairs(answers) == Handler("AccountPair", answers, "social_http")
Lists == Handler("AccountQuery", "AccountList", "social_http")

FriendHandlers ==
  [friend_request  |-> WithPeer(Pairs("AccountExists")),
   friend_accept   |-> WithPeer(Pairs(Empty)),
   friend_reject   |-> Pairs(Empty),
   friend_remove   |-> WithPeer(Pairs(Empty)),
   friend_list     |-> Lists,
   friend_incoming |-> Lists,
   friend_check    |-> Pairs("AccountExists")]

BlockHandlers ==
  [block_add    |-> WithPeer(Pairs(Empty)),
   block_remove |-> WithPeer(Pairs(Empty)),
   block_list   |-> Lists,
   block_check  |-> Pairs("AccountExists")]

InboxHandlers ==
  [inbox_list   |-> Handler("InboxQuery", "InboxResp", "backend"),
   history      |-> Guarded(Handler("HistoryQuery", "HistoryResp", "backend"), {400}),
   inbox_read   |-> Guarded(Handler("ConversationRead", "ConversationReadState", "backend"), {400}),
   inbox_states |-> Guarded(Handler("ConversationStatesQuery", "ConversationStatesResp", "backend"), {400})]

BotHandlers ==
  [bot_create  |-> Handler("InternalBotCreate", "BotCreateResp", "user_http"),
   bot_delete  |-> Handler("AccountPair", "AccountExists", "user_http"),
   purge_dm    |-> Handler("AccountPair", "AccountExists", "store_http"),
   bot_update  |-> Handler("InternalBotUpdate", "BotCreateResp", "user_http"),
   bot_config  |-> Handler("InternalBotConfig", "InternalBotConfig", "user_http"),
   bot_reply   |-> Guarded(Handler("BotReplyStoreReq", "InsertMessageResp", "store_http"), {400}),
   bot_pending |-> Guarded(Handler("BotPendingQuery", "BotPendingResp", "store_http"), {403, 404})]

SpecHandlers ==
  [spec_sync   |-> Guarded(Handler("InternalAgentSpecQuery", "AgentSpecSyncResp", "spec_http"), {400}),
   spec_upsert |-> Guarded(Handler("InternalAgentSpecUpsert", "AgentSpecUpsertResp", "spec_http"), {400})]

Handlers ==
  InsertHandlers @@ AckHandlers @@ DeliveryHandlers @@ GroupHandlers @@ InternalHandlers
  @@ UserHandlers @@ FriendHandlers @@ BlockHandlers @@ InboxHandlers @@ BotHandlers
  @@ SpecHandlers

-----------------------------------------------------------------------------
(* Errors: the trait's, as royal answers them, as chat reads the answer,   *)
(* as chat's handler tells its client.                                     *)

Errors ==
  [store  |-> {"Invalid", "NotFound", "Id", "Backend"},
   group  |-> {"NotFound", "Id", "Backend"},
   user   |-> {"NotFound", "InvalidProfile", "Limit", "NotBotOwner", "Conflict", "Backend"},
   social |-> {"SelfOp", "Blocked", "BotSocialDenied", "NotFound", "Backend"},
   spec   |-> {"Invalid", "NotOwner", "Backend"}]

Answer(status, text) == [status |-> status, text |-> text]
Backend500 == Answer(500, "fault")

(* The entries a map has of its own; every other error is backend's 500. *)
GroupHttp == [NotFound |-> Answer(404, "not found")]
UserHttp ==
  [NotFound |-> Answer(404, "not found"), InvalidProfile |-> Answer(400, "invalid profile"),
   Limit |-> Answer(400, "limit"), NotBotOwner |-> Answer(403, "not bot owner"),
   Conflict |-> Answer(409, "conflict")]
SocialHttp ==
  [SelfOp |-> Answer(400, "self"), Blocked |-> Answer(403, "blocked"),
   BotSocialDenied |-> Answer(403, "bot-social-denied"), NotFound |-> Answer(404, "not found")]
StoreHttp == [Invalid |-> Answer(400, "invalid"), NotFound |-> Answer(404, "not found")]
SpecHttp == [Invalid |-> Answer(400, "invalid"), NotOwner |-> Answer(403, "not bot owner")]

HttpOf(map, e) ==
  LET t == CASE map = "group_http"  -> GroupHttp
             [] map = "user_http"   -> UserHttp
             [] map = "social_http" -> SocialHttp
             [] map = "store_http"  -> StoreHttp
             [] map = "spec_http"   -> SpecHttp
             [] map = "backend"     -> [e0 \in {} |-> Backend500]
  IN IF e \in DOMAIN t THEN t[e] ELSE Backend500

group_err(a) == IF a.status = 404 THEN "NotFound" ELSE "Backend"

user_err(a) ==
  CASE a.status = 404 -> "NotFound"
    [] a.status = 409 -> "Conflict"
    [] a.status = 403 -> "NotBotOwner"
    [] a.status = 400 -> IF a.text = "limit" THEN "Limit" ELSE "InvalidProfile"
    [] OTHER -> "Backend"

social_err(a) ==
  CASE a.status = 403 -> IF a.text = "bot-social-denied" THEN "BotSocialDenied" ELSE "Blocked"
    [] a.status = 404 -> "NotFound"
    [] a.status = 400 -> "SelfOp"
    [] OTHER -> "Backend"

spec_err(a) ==
  CASE a.status = 400 -> "Invalid" [] a.status = 403 -> "NotOwner" [] OTHER -> "Backend"

(* The status chat sends its client.  Only the bot commands tell the       *)
(* store's errors apart, and profile and group commands answer a lookup.   *)
StoreStatusHttp(status) ==
  CASE status = 400 -> "InvalidPacketBody" [] status = 403 -> "NotBotOwner"
    [] status = 404 -> "UserNotFound" [] OTHER -> "SystemException"
store_status(e) ==
  CASE e = "Invalid" -> "InvalidPacketBody" [] e = "NotFound" -> "UserNotFound"
    [] OTHER -> "SystemException"
group_lookup_status(e) == IF e = "NotFound" THEN "NotGroupMember" ELSE "SystemException"
user_status(e) ==
  CASE e = "NotFound" -> "UserNotFound" [] e = "NotBotOwner" -> "NotBotOwner"
    [] e \in {"InvalidProfile", "Limit", "Conflict"} -> "InvalidPacketBody"
    [] OTHER -> "SystemException"
social_status(e) ==
  CASE e = "SelfOp" -> "InvalidPacketBody" [] e = "NotFound" -> "UserNotFound"
    [] e \in {"Blocked", "BotSocialDenied"} -> e [] OTHER -> "SystemException"
spec_status(e) ==
  CASE e = "Invalid" -> "InvalidPacketBody" [] e = "NotOwner" -> "NotBotOwner"
    [] OTHER -> "SystemException"

(* What the client hears of error e of a call, asked in chat's process ... *)
StatusInProcess(b, c, e) ==
  CASE b = "store"  -> IF c \in DOMAIN BotStoreCalls THEN store_status(e) ELSE "SystemException"
    [] b = "group"  -> group_lookup_status(e)
    [] b = "user"   -> user_status(e)
    [] b = "social" -> social_status(e)
    [] b = "spec"   -> spec_status(e)

(* ... and asked through royal.                                            *)
StatusOverHttp(b, c, a) ==
  CASE b = "store"  -> IF c \in DOMAIN BotStoreCalls THEN StoreStatusHttp(a.status)
                       ELSE "SystemException"
    [] b = "group"  -> group_lookup_status(group_err(a))
    [] b = "user"   -> user_status(user_err(a))
    [] b = "social" -> social_status(social_err(a))
    [] b = "spec"   -> spec_status(spec_err(a))

retry_http(status) == status \in 500..599 /\ status # 503
circuit_failure_status(status) == status \in {500, 502, 503, 504}

-----------------------------------------------------------------------------
(* Values that change their form on the way. *)

(* A friend request: royal answers with one bit. *)
RequestExists(outcome) == outcome \in {"AutoAccepted", "AlreadyFriends"}
RequestOutcome(exists) == IF exists THEN "AutoAccepted" ELSE "Sent"

(* A profile that is not there is a 404, and a 404 no profile; an account  *)
(* that is not there is a lookup without exists.                           *)
NoProfile == [found |-> FALSE]
ProfileAnswer(p) == IF p = NoProfile THEN Answer(404, "not found") ELSE Answer(200, p)
ProfileOf(a) == IF a.status = 404 THEN NoProfile ELSE a.text

(* An insert's answer carries its fanout; without one, nobody is told.     *)
EncodeInsert(recipients) == [fanout |-> TRUE, recipients |-> recipients]
FanoutFromResp(r) == IF r.fanout THEN r.recipients ELSE {}

(* A bot's configuration: without a visibility it is private.              *)
FromPbConfig(visibility) == IF visibility = "" THEN "private" ELSE visibility

(* Acks and offline indexes exist in two forms, one for the receipts per   *)
(* device.  Chat writes the one its own flag says, royal runs the one the  *)
(* fields say, if its own flag allows it.                                  *)
AckReq(receipts, target, ids) ==
  IF receipts THEN [target |-> target, ids |-> ids, id |-> 0, app |-> TRUE]
  ELSE [target |-> "", ids |-> <<>>, id |-> IF ids = <<>> THEN 0 ELSE ids[1], app |-> FALSE]
is_new_ack(r) == r.target # "" \/ r.ids # <<>> \/ r.app
AckRuns(receipts, r) ==
  IF ~is_new_ack(r) THEN [form |-> "cursor", id |-> r.id]
  ELSE IF receipts THEN [form |-> "receipts", target |-> r.target, ids |-> r.ids]
  ELSE [form |-> "refused", status |-> 503]

IndexReq(receipts, target, resume) ==
  IF receipts THEN [target |-> target, resume |-> resume, app |-> TRUE]
  ELSE [target |-> "", resume |-> FALSE, app |-> FALSE]
is_new_index(r) == r.target # "" \/ r.resume \/ r.app

(* backfill_delivery of a chat without receipts asks nobody.               *)
BackfillRuns(chat, royal) ==
  IF ~chat THEN "nothing" ELSE IF royal THEN "backfill" ELSE "refused"

-----------------------------------------------------------------------------
HandlersOf(c) == {h \in DOMAIN Routes : Routes[h] = <<c.verb, c.path>>}
HandlerOf(c) == Handlers[CHOOSE h \in HandlersOf(c) : TRUE]

(* Every call has one route; its handler decodes the message that is sent  *)
(* and encodes the message that is expected.  A handler that works under   *)
(* the request's app is told one.                                          *)
CallMeets(c) ==
  /\ \E h \in DOMAIN Routes : HandlersOf(c) = {h}
  /\ HandlerOf(c).decodes = c.sends
  /\ c.expects \in {HandlerOf(c).answers, Anything}
  /\ HandlerOf(c).app = "request" => c.sends \in AppMessages

CallsMeet ==
  /\ DOMAIN Handlers = DOMAIN Routes
  /\ \A b \in DOMAIN Backends : \A n \in DOMAIN Backends[b] : CallMeets(Backends[b][n])
  /\ \A n \in DOMAIN GatewayCalls : CallMeets(GatewayCalls[n])
  /\ RoyalOnly \cap DOMAIN Backends["user"] = {}

(* Whether chat has its own backends or asks royal, its client hears the   *)
(* same of every error; a purge that fails inside royal's bot_delete is    *)
(* heard like the purge that chat asks for itself.                         *)
ErrorsMeet ==
  /\ \A b \in DOMAIN Backends : \A n \in DOMAIN Backends[b] : \A e \in Errors[b] :
       StatusInProcess(b, n, e)
         = StatusOverHttp(b, n, HttpOf(HandlerOf(Backends[b][n]).errors, e))
  /\ \A e \in Errors["store"] :
       user_status(user_err(HttpOf("store_http", e))) = store_status(e)

(* Nothing but a fault of royal is repeated: an error that tells the       *)
(* caller something is answered at once and leaves the circuit closed.     *)
(* The inserts, acks and reads of the store are the exception, they answer *)
(* every error with 500.  A request that is refused is not repeated either.*)
RetriesMeet ==
  \A b \in DOMAIN Backends : \A n \in DOMAIN Backends[b] : \A e \in Errors[b] \ {"Backend", "Id"} :
    LET h == HandlerOf(Backends[b][n])
        s == HttpOf(h.errors, e).status
    IN /\ h.errors # "backend" => ~retry_http(s) /\ ~circuit_failure_status(s)
       /\ \A g \in h.guards : ~retry_http(g)

(* Values keep their meaning, but for a request to a friend, which is      *)
(* reported as accepted just now.                                          *)
ValuesMeet ==
  /\ \A o \in {"Sent", "AutoAccepted"} : RequestOutcome(RequestExists(o)) = o
  /\ RequestOutcome(RequestExists("AlreadyFriends")) = "AutoAccepted"
  /\ \A p \in {NoProfile, [found |-> TRUE]} : ProfileOf(ProfileAnswer(p)) = p
  /\ \A r \in SUBSET {1, 2} : FanoutFromResp(EncodeInsert(r)) = r
  /\ FromPbConfig("") = "private" /\ FromPbConfig("public") = "public"

(* A chat and a royal that disagree about receipts never run an ack or an  *)
(* index in the form that was not meant: it is refused, or both know it.   *)
FormsMeet ==
  \A chat, royal, resume \in BOOLEAN, target \in {"", "t"}, ids \in {<<>>, <<1>>, <<1, 2>>} :
    /\ AckRuns(royal, AckReq(chat, target, ids)) =
         IF ~chat THEN [form |-> "cursor", id |-> IF ids = <<>> THEN 0 ELSE ids[1]]
         ELSE IF royal THEN [form |-> "receipts", target |-> target, ids |-> ids]
         ELSE [form |-> "refused", status |-> 503]
    /\ is_new_index(IndexReq(chat, target, resume)) = chat
    /\ BackfillRuns(chat, royal) = "backfill" <=>
         AckRuns(royal, AckReq(chat, target, ids)).form = "receipts"

RoyalAgrees == CallsMeet /\ ErrorsMeet /\ RetriesMeet /\ ValuesMeet /\ FormsMeet
=============================================================================
