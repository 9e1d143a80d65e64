------------------------ MODULE PendingDeliveryProofs ------------------------
(***************************************************************************)
(* Safety of PendingDelivery for every set of accounts, devices, channels, *)
(* talks, lock keys and bounds.                                            *)
(***************************************************************************)
EXTENDS PendingDelivery, FiniteSetTheorems, TLAPS

\* The steps of the specification, one by one.
LEMMA NextCases ==
  ASSUME Next
  PROVE  \/ \E t \in Txns, r \in Requests : Talk(t, r)
         \/ \E t \in Txns : BeginInsert(t)
         \/ \E t \in Txns, a \in Accounts : LockInboxAccount(t, a)
         \/ \E t \in Txns : ReadIdempotency(t)
         \/ \E t \in Txns, a \in Accounts : ResolveTargets(t, a)
         \/ \E t \in Txns : CommitDuplicate(t)
         \/ \E t \in Txns : CommitMessage(t)
         \/ \E t \in Txns : AbortInsert(t)
         \/ \E t \in Txns : PushTalk(t)
         \/ \E c \in Channels : LoginAdd(c)
         \/ \E c \in Channels : BeginBackfill(c)
         \/ \E c \in Channels : LockBackfill(c)
         \/ \E c \in Channels : CommitBackfill(c)
         \/ \E c \in Channels : FailLogin(c)
         \/ \E c \in Channels : Logout(c)
         \/ \E a \in Accounts : ExpireLocations(a)
         \/ \E c \in Channels : SyncPull(c)
         \/ \E c \in Channels : SyncPersist(c)
         \/ \E c \in Channels : SyncPersistFailed(c)
         \/ \E c \in Channels : SyncAck(c)
         \/ \E c \in Channels, m \in Ids : LiveAck(c, m)
         \/ GcExpiredDeliveries
         \/ Tick
  BY Zenon DEF Next, TxnStep, LoginStep, SyncStep

USE AccountsAssumption, OwnerAssumption, JtiOfAssumption, LockKeyAssumption,
    NoCidAssumption, HolderAssumption, BoundsAssumption, RequestsAssumption

LEMMA NoReqType == NoReq \in Requests
  BY DEF NoReq

LEMMA AcctType == \A c \in Channels : Acct(c) \in Accounts /\ LockKey[Acct(c)] \in Keys
  BY DEF Acct, Keys

LEMMA InsertReceiptsType ==
  ASSUME TypeOK, NEW D, NEW S, NEW at \in Nat
  PROVE  InsertReceipts(D, S, at) \in [Jtis -> [Ids -> Nat \cup {NoRow}]]
  BY DEF TypeOK, InsertReceipts

LEMMA ReleasedType ==
  ASSUME TypeOK, NEW p
  PROVE  Released(p) \in [Keys -> Txns \cup Channels \cup {Free}]
  BY DEF TypeOK, Released

\* A commit that does not lose its claim.
CommitSucceeded(t) ==
         /\ pc[t] = "resolving" /\ todo[t] = {} /\ existing[t] = NoMsg
         /\ holder' = Released(t)
         /\ pc' = [pc EXCEPT ![t] = "pushing"]
         /\ msgs' = msgs \cup {NewMessage(t)}
         /\ idem' = IF req[t].cid = NoCid THEN idem
                    ELSE [idem EXCEPT ![<<req[t].sender, req[t].cid>>] = mid[t]]
         /\ created' = InsertReceipts(targets[t], {mid[t]}, began[t])
         /\ UNCHANGED <<now, nextId, loc, req, sent, began, mid, todo, existing, targets,
                        acked, collected, cpc, since, page, got, due>>

\* The claim is never lost, so a commit writes the message.
LEMMA CommitSucceeds ==
  ASSUME ClaimStable, NEW t \in Txns, CommitMessage(t)
  PROVE  CommitSucceeded(t)
<1>1. pc[t] = "resolving" /\ existing[t] = NoMsg
  BY DEF CommitMessage
<1>2. ~ ClaimLost(t)
  BY <1>1 DEF ClaimStable
<1> QED
  BY <1>2 DEF CommitMessage, CommitSucceeded, clientVars

\* Every step keeps every variable in its set.
LEMMA TypeStep ==
  ASSUME TypeOK, FreshIds, ClaimStable, Next
  PROVE  TypeOK'
<1> USE DEF txnVars, dbVars, clientVars, TxnStates, ChannelStates, LoggedIn
<1>1. ASSUME NEW t \in Txns, NEW r \in Requests, Talk(t, r) PROVE TypeOK'
  BY <1>1 DEF TypeOK, Talk
<1>2. ASSUME NEW t \in Txns, BeginInsert(t) PROVE TypeOK'
  BY <1>2 DEF TypeOK, BeginInsert, LockSet, Ids, NoMsg
<1>3. ASSUME NEW t \in Txns, NEW a \in Accounts, LockInboxAccount(t, a) PROVE TypeOK'
  BY <1>3 DEF TypeOK, LockInboxAccount, Keys
<1>4. ASSUME NEW t \in Txns, ReadIdempotency(t) PROVE TypeOK'
  BY <1>4 DEF TypeOK, ReadIdempotency
<1>5. ASSUME NEW t \in Txns, NEW a \in Accounts, ResolveTargets(t, a) PROVE TypeOK'
  BY <1>5 DEF TypeOK, ResolveTargets
<1>6. ASSUME NEW t \in Txns, CommitDuplicate(t) PROVE TypeOK'
  BY <1>6, InsertReceiptsType, ReleasedType DEF TypeOK, CommitDuplicate
<1>7. ASSUME NEW t \in Txns, CommitMessage(t) PROVE TypeOK'
  <2>1. CommitSucceeded(t)
    BY <1>7, CommitSucceeds
  <2>2. mid[t] \in Ids
    BY <2>1 DEF CommitSucceeded, TypeOK, FreshIds, InTxn
  <2>3. NewMessage(t) \in Message
    BY <2>2 DEF TypeOK, NewMessage, Message
  <2>4. idem' \in [Accounts \X ClientIds -> Ids \cup {NoMsg}]
    BY <2>1, <2>2 DEF CommitSucceeded, TypeOK
  <2>5. created' \in [Jtis -> [Ids -> Nat \cup {NoRow}]]
    BY <2>1, InsertReceiptsType DEF CommitSucceeded, TypeOK
  <2> QED
    BY <2>1, <2>3, <2>4, <2>5, ReleasedType DEF CommitSucceeded, TypeOK
<1>8. ASSUME NEW t \in Txns, AbortInsert(t) PROVE TypeOK'
  BY <1>8, NoReqType, ReleasedType DEF TypeOK, AbortInsert, Forget
<1>9. ASSUME NEW t \in Txns, PushTalk(t) PROVE TypeOK'
  BY <1>9, NoReqType DEF TypeOK, PushTalk, Forget, FreshIds
<1>10. ASSUME NEW c \in Channels, LoginAdd(c) PROVE TypeOK'
  BY <1>10 DEF TypeOK, LoginAdd
<1>11. ASSUME NEW c \in Channels, BeginBackfill(c) PROVE TypeOK'
  BY <1>11 DEF TypeOK, BeginBackfill
<1>12. ASSUME NEW c \in Channels, LockBackfill(c) PROVE TypeOK'
  BY <1>12, AcctType DEF TypeOK, LockBackfill
<1>13. ASSUME NEW c \in Channels, CommitBackfill(c) PROVE TypeOK'
  BY <1>13, InsertReceiptsType, ReleasedType
  DEF TypeOK, CommitBackfill, Backfillable, Message
<1>14. ASSUME NEW c \in Channels, FailLogin(c) PROVE TypeOK'
  BY <1>14, ReleasedType DEF TypeOK, FailLogin, Leave
<1>15. ASSUME NEW c \in Channels, Logout(c) PROVE TypeOK'
  BY <1>15 DEF TypeOK, Logout, Leave
<1>16. ASSUME NEW a \in Accounts, ExpireLocations(a) PROVE TypeOK'
  BY <1>16 DEF TypeOK, ExpireLocations
<1>17. ASSUME NEW c \in Channels, SyncPull(c) PROVE TypeOK'
  BY <1>17 DEF TypeOK, SyncPull, Visible
<1>18. ASSUME NEW c \in Channels, SyncPersist(c) PROVE TypeOK'
  BY <1>18 DEF TypeOK, SyncPersist
<1>19. ASSUME NEW c \in Channels, SyncPersistFailed(c) PROVE TypeOK'
  BY <1>19 DEF TypeOK, SyncPersistFailed
<1>20. ASSUME NEW c \in Channels, SyncAck(c) PROVE TypeOK'
  BY <1>20 DEF TypeOK, SyncAck, Acknowledge
<1>21. ASSUME NEW c \in Channels, NEW m \in Ids, LiveAck(c, m) PROVE TypeOK'
  BY <1>21 DEF TypeOK, LiveAck, Acknowledge
<1>22. CASE GcExpiredDeliveries
  BY <1>22 DEF TypeOK, GcExpiredDeliveries, ExpiredRows
<1>23. CASE Tick
  BY <1>23 DEF TypeOK, Tick
<1> QED
  BY NextCases, <1>1, <1>2, <1>3, <1>4, <1>5, <1>6, <1>7, <1>8, <1>9, <1>10, <1>11,
     <1>12, <1>13, <1>14, <1>15, <1>16, <1>17, <1>18, <1>19, <1>20, <1>21, <1>22, <1>23

\* A lock changes hands only through Free, so the holders keep theirs.
LEMMA LocksHeldStep ==
  ASSUME TypeOK, LocksHeld, ClaimStable, Next
  PROVE  LocksHeld'
<1> USE DEF txnVars, dbVars, clientVars, LockSet
<1>1. ASSUME NEW t \in Txns, NEW r \in Requests, Talk(t, r) PROVE LocksHeld'
  BY <1>1 DEF Talk, TypeOK, LocksHeld
<1>2. ASSUME NEW t \in Txns, BeginInsert(t) PROVE LocksHeld'
  BY <1>2 DEF BeginInsert, TypeOK, LocksHeld
<1>3. ASSUME NEW t \in Txns, NEW a \in Accounts, LockInboxAccount(t, a) PROVE LocksHeld'
  BY <1>3, AcctType DEF LockInboxAccount, TypeOK, LocksHeld, Released, Keys
<1>4. ASSUME NEW t \in Txns, ReadIdempotency(t) PROVE LocksHeld'
  BY <1>4 DEF ReadIdempotency, TypeOK, LocksHeld
<1>5. ASSUME NEW t \in Txns, NEW a \in Accounts, ResolveTargets(t, a) PROVE LocksHeld'
  BY <1>5 DEF ResolveTargets, TypeOK, LocksHeld
<1>6. ASSUME NEW t \in Txns, CommitDuplicate(t) PROVE LocksHeld'
  BY <1>6, AcctType DEF CommitDuplicate, TypeOK, LocksHeld, Released, Keys
<1>7. ASSUME NEW t \in Txns, CommitMessage(t) PROVE LocksHeld'
  <2>1. CommitSucceeded(t)
    BY <1>7, CommitSucceeds
  <2> QED
    BY <2>1, AcctType DEF CommitSucceeded, TypeOK, LocksHeld, Released, Keys
<1>8. ASSUME NEW t \in Txns, AbortInsert(t) PROVE LocksHeld'
  BY <1>8, AcctType DEF AbortInsert, Forget, TypeOK, LocksHeld, Released, Keys
<1>9. ASSUME NEW t \in Txns, PushTalk(t) PROVE LocksHeld'
  BY <1>9 DEF PushTalk, Forget, TypeOK, LocksHeld
<1>10. ASSUME NEW c \in Channels, LoginAdd(c) PROVE LocksHeld'
  BY <1>10 DEF LoginAdd, TypeOK, LocksHeld
<1>11. ASSUME NEW c \in Channels, BeginBackfill(c) PROVE LocksHeld'
  BY <1>11 DEF BeginBackfill, TypeOK, LocksHeld
<1>12. ASSUME NEW c \in Channels, LockBackfill(c) PROVE LocksHeld'
  BY <1>12, AcctType DEF LockBackfill, TypeOK, LocksHeld, Released, Keys
<1>13. ASSUME NEW c \in Channels, CommitBackfill(c) PROVE LocksHeld'
  BY <1>13, AcctType DEF CommitBackfill, TypeOK, LocksHeld, Released, Keys
<1>14. ASSUME NEW c \in Channels, FailLogin(c) PROVE LocksHeld'
  BY <1>14, AcctType DEF FailLogin, Leave, TypeOK, LocksHeld, Released, Keys
<1>15. ASSUME NEW c \in Channels, Logout(c) PROVE LocksHeld'
  BY <1>15 DEF Logout, Leave, TypeOK, LocksHeld
<1>16. ASSUME NEW a \in Accounts, ExpireLocations(a) PROVE LocksHeld'
  BY <1>16 DEF ExpireLocations, TypeOK, LocksHeld
<1>17. ASSUME NEW c \in Channels, SyncPull(c) PROVE LocksHeld'
  BY <1>17 DEF SyncPull, TypeOK, LocksHeld
<1>18. ASSUME NEW c \in Channels, SyncPersist(c) PROVE LocksHeld'
  BY <1>18 DEF SyncPersist, TypeOK, LocksHeld
<1>19. ASSUME NEW c \in Channels, SyncPersistFailed(c) PROVE LocksHeld'
  BY <1>19 DEF SyncPersistFailed, TypeOK, LocksHeld
<1>20. ASSUME NEW c \in Channels, SyncAck(c) PROVE LocksHeld'
  BY <1>20 DEF SyncAck, Acknowledge, TypeOK, LocksHeld
<1>21. ASSUME NEW c \in Channels, NEW m \in Ids, LiveAck(c, m) PROVE LocksHeld'
  BY <1>21 DEF LiveAck, Acknowledge, TypeOK, LocksHeld
<1>22. CASE GcExpiredDeliveries
  BY <1>22 DEF GcExpiredDeliveries, TypeOK, LocksHeld
<1>23. CASE Tick
  BY <1>23 DEF Tick, TypeOK, LocksHeld
<1> QED
  BY NextCases, <1>1, <1>2, <1>3, <1>4, <1>5, <1>6, <1>7, <1>8, <1>9, <1>10, <1>11, 
     <1>12, <1>13, <1>14, <1>15, <1>16, <1>17, <1>18, <1>19, <1>20, <1>21, <1>22, <1>23

\* Ids are drawn once: the counter only grows.
LEMMA FreshIdsStep ==
  ASSUME TypeOK, FreshIds, ClaimStable, Next
  PROVE  FreshIds'
<1> USE DEF txnVars, dbVars, clientVars
<1>1. ASSUME NEW t \in Txns, NEW r \in Requests, Talk(t, r) PROVE FreshIds'
  BY <1>1 DEF Talk, TypeOK, FreshIds, InTxn
<1>2. ASSUME NEW t \in Txns, BeginInsert(t) PROVE FreshIds'
  <2>1. /\ mid' = [mid EXCEPT ![t] = nextId] /\ nextId' = nextId + 1 /\ msgs' = msgs
        /\ pc' = [pc EXCEPT ![t] = "locking"] /\ pc[t] = "sent"
    BY <1>2 DEF BeginInsert
  <2>2. \A r \in msgs : r.id \in Nat /\ r.id < nextId
    BY DEF TypeOK, Message, Ids, FreshIds
  <2>3. ASSUME NEW u \in Txns, pc'[u] \in InTxn
        PROVE  /\ mid'[u] # NoMsg /\ mid'[u] < nextId'
               /\ \A r \in msgs : r.id # mid'[u]
               /\ u # t => mid'[u] < nextId
    BY <2>1, <2>2, <2>3 DEF TypeOK, FreshIds, InTxn, Ids, NoMsg
  <2>4. ASSUME NEW u \in Txns, NEW v \in Txns, u # v, pc'[u] \in InTxn, pc'[v] \in InTxn
        PROVE  mid'[u] # mid'[v]
    BY <2>1, <2>3, <2>4 DEF TypeOK, FreshIds, InTxn, Ids
  <2>5. \A u \in Txns : pc'[u] = "pushing" => mid'[u] # NoMsg
    BY <2>1 DEF TypeOK, FreshIds
  <2> QED
    BY <2>1, <2>2, <2>3, <2>4, <2>5 DEF TypeOK, FreshIds
<1>3. ASSUME NEW t \in Txns, ReadIdempotency(t) PROVE FreshIds'
  BY <1>3 DEF ReadIdempotency, TypeOK, FreshIds, InTxn
<1>4. ASSUME NEW t \in Txns, CommitDuplicate(t) PROVE FreshIds'
  BY <1>4 DEF CommitDuplicate, TypeOK, FreshIds, InTxn
<1>5. ASSUME NEW t \in Txns, CommitMessage(t) PROVE FreshIds'
  <2>1. CommitSucceeded(t)
    BY <1>5, CommitSucceeds
  <2> QED
    BY <2>1 DEF CommitSucceeded, TypeOK, FreshIds, InTxn, NewMessage, Message, Ids
<1>6. ASSUME NEW t \in Txns, AbortInsert(t) PROVE FreshIds'
  BY <1>6 DEF AbortInsert, Forget, TypeOK, FreshIds, InTxn
<1>7. ASSUME NEW t \in Txns, PushTalk(t) PROVE FreshIds'
  BY <1>7 DEF PushTalk, Forget, TypeOK, FreshIds, InTxn
<1>8. CASE UNCHANGED <<msgs, nextId, pc, mid>>
  BY <1>8 DEF TypeOK, FreshIds, InTxn
<1> QED
  BY NextCases, <1>1, <1>2, <1>3, <1>4, <1>5, <1>6, <1>7, <1>8 DEF LockInboxAccount,
     ResolveTargets, LoginAdd, BeginBackfill, LockBackfill, CommitBackfill, FailLogin,
     Leave, Logout, ExpireLocations, SyncPull, SyncPersist, SyncPersistFailed, SyncAck,
     Acknowledge, LiveAck, GcExpiredDeliveries, Tick

\* A commit records the message under its client id and touches no other claim
\* that stands for a message.
LEMMA ClaimsRecordedStep ==
  ASSUME TypeOK, FreshIds, ClaimsRecorded, ClaimStable, Next
  PROVE  ClaimsRecorded'
<1> USE DEF txnVars, dbVars, clientVars
<1>1. ASSUME NEW t \in Txns, CommitMessage(t) PROVE ClaimsRecorded'
  <2>1. CommitSucceeded(t)
    BY <1>1, CommitSucceeds
  <2>2. req[t].cid # NoCid => idem[<<req[t].sender, req[t].cid>>] = NoMsg
    BY <2>1 DEF CommitSucceeded, ClaimStable, ClaimLost
  <2>3. \A r \in msgs : r.id # NoMsg
    BY DEF TypeOK, Message, Ids, NoMsg
  <2>4. CASE req[t].cid = NoCid
    BY <2>1, <2>4 DEF CommitSucceeded, ClaimsRecorded, NewMessage
  <2>5. CASE req[t].cid # NoCid
    <3> DEFINE k == <<req[t].sender, req[t].cid>>
    <3>1. k \in Accounts \X ClientIds
      BY <2>5 DEF TypeOK
    <3>2. idem'[k] = mid[t] /\ \A q \in Accounts \X ClientIds : q # k => idem'[q] = idem[q]
      BY <2>1, <2>5, <3>1 DEF CommitSucceeded, TypeOK
    <3>3. ASSUME NEW r \in msgs, r.cid # NoCid PROVE idem'[<<r.sender, r.cid>>] = r.id
      <4>1. idem[<<r.sender, r.cid>>] = r.id /\ <<r.sender, r.cid>> \in Accounts \X ClientIds
        BY <3>3 DEF ClaimsRecorded, TypeOK, Message
      <4> QED
        BY <4>1, <2>2, <2>3, <2>5, <3>2
    <3> QED
      BY <2>1, <3>2, <3>3 DEF CommitSucceeded, ClaimsRecorded, NewMessage
  <2> QED
    BY <2>4, <2>5
<1>2. CASE UNCHANGED <<msgs, idem>>
  BY <1>2 DEF ClaimsRecorded
<1> QED
  BY NextCases, <1>1, <1>2 DEF Talk, BeginInsert, LockInboxAccount, ReadIdempotency,
     ResolveTargets, CommitDuplicate, AbortInsert, Forget, PushTalk, LoginAdd,
     BeginBackfill, LockBackfill, CommitBackfill, FailLogin, Leave, Logout,
     ExpireLocations, SyncPull, SyncPersist, SyncPersistFailed, SyncAck, Acknowledge,
     LiveAck, GcExpiredDeliveries, Tick

\* Only a talk of the same sender could take the claim, and it would need the
\* sender's lock.
LEMMA ClaimStableStep ==
  ASSUME TypeOK, LocksHeld, FreshIds, ClaimStable, Next
  PROVE  ClaimStable'
<1> USE DEF txnVars, dbVars, clientVars
<1>1. ASSUME NEW t \in Txns, NEW r \in Requests, Talk(t, r) PROVE ClaimStable'
  BY <1>1 DEF Talk, TypeOK, ClaimStable, ClaimLost
<1>2. ASSUME NEW t \in Txns, BeginInsert(t) PROVE ClaimStable'
  BY <1>2 DEF BeginInsert, TypeOK, ClaimStable, ClaimLost
<1>3. ASSUME NEW t \in Txns, ReadIdempotency(t) PROVE ClaimStable'
  BY <1>3 DEF ReadIdempotency, TypeOK, ClaimStable, ClaimLost
<1>4. ASSUME NEW t \in Txns, CommitDuplicate(t) PROVE ClaimStable'
  BY <1>4 DEF CommitDuplicate, TypeOK, ClaimStable, ClaimLost
<1>5. ASSUME NEW t \in Txns, CommitMessage(t) PROVE ClaimStable'
  <2>1. CommitSucceeded(t)
    BY <1>5, CommitSucceeds
  <2>2. SUFFICES ASSUME NEW u \in Txns, pc'[u] = "resolving", existing'[u] = NoMsg
                 PROVE  ~ ClaimLost(u)'
    BY DEF ClaimStable
  <2>3. u # t /\ pc[u] = "resolving" /\ existing[u] = NoMsg
    BY <2>1, <2>2 DEF CommitSucceeded, TypeOK
  <2>4. req[u].sender # req[t].sender
    BY <2>1, <2>3 DEF CommitSucceeded, LocksHeld, LockSet
  <2>5. ~ ClaimLost(u)
    BY <2>3 DEF ClaimStable
  <2> QED
    BY <2>1, <2>4, <2>5 DEF CommitSucceeded, ClaimLost, TypeOK
<1>6. ASSUME NEW t \in Txns, AbortInsert(t) PROVE ClaimStable'
  BY <1>6 DEF AbortInsert, Forget, TypeOK, ClaimStable, ClaimLost
<1>7. ASSUME NEW t \in Txns, PushTalk(t) PROVE ClaimStable'
  BY <1>7 DEF PushTalk, Forget, TypeOK, ClaimStable, ClaimLost
<1>8. CASE UNCHANGED <<pc, existing, req, idem>>
  BY <1>8 DEF TypeOK, ClaimStable, ClaimLost
<1> QED
  BY NextCases, <1>1, <1>2, <1>3, <1>4, <1>5, <1>6, <1>7, <1>8 DEF LockInboxAccount,
     ResolveTargets, LoginAdd, BeginBackfill, LockBackfill, CommitBackfill, FailLogin,
     Leave, Logout, ExpireLocations, SyncPull, SyncPersist, SyncPersistFailed, SyncAck,
     Acknowledge, LiveAck, GcExpiredDeliveries, Tick

\* A login can finish only under the lock of an account no talk has resolved.
LEMMA TargetsCompleteStep ==
  ASSUME TypeOK, LocksHeld, TargetsComplete, ClaimStable, Next
  PROVE  TargetsComplete'
<1> USE DEF txnVars, dbVars, clientVars
<1>1. ASSUME NEW t \in Txns, NEW r \in Requests, Talk(t, r) PROVE TargetsComplete'
  BY <1>1 DEF Talk, TypeOK, TargetsComplete, LoggedIn
<1>2. ASSUME NEW t \in Txns, BeginInsert(t) PROVE TargetsComplete'
  BY <1>2 DEF BeginInsert, TypeOK, TargetsComplete, LoggedIn
<1>3. ASSUME NEW t \in Txns, NEW a \in Accounts, LockInboxAccount(t, a) PROVE TargetsComplete'
  BY <1>3 DEF LockInboxAccount, TypeOK, TargetsComplete, LoggedIn
<1>4. ASSUME NEW t \in Txns, ReadIdempotency(t) PROVE TargetsComplete'
  BY <1>4 DEF ReadIdempotency, TypeOK, TargetsComplete, LoggedIn
<1>5. ASSUME NEW t \in Txns, NEW a \in Accounts, ResolveTargets(t, a) PROVE TargetsComplete'
  BY <1>5 DEF ResolveTargets, TypeOK, TargetsComplete, LoggedIn
<1>6. ASSUME NEW t \in Txns, CommitDuplicate(t) PROVE TargetsComplete'
  BY <1>6 DEF CommitDuplicate, TypeOK, TargetsComplete, LoggedIn
<1>7. ASSUME NEW t \in Txns, CommitMessage(t) PROVE TargetsComplete'
  <2>1. CommitSucceeded(t)
    BY <1>7, CommitSucceeds
  <2> QED
    BY <2>1 DEF CommitSucceeded, TypeOK, TargetsComplete, LoggedIn
<1>8. ASSUME NEW t \in Txns, AbortInsert(t) PROVE TargetsComplete'
  BY <1>8 DEF AbortInsert, Forget, TypeOK, TargetsComplete, LoggedIn
<1>9. ASSUME NEW t \in Txns, PushTalk(t) PROVE TargetsComplete'
  BY <1>9 DEF PushTalk, Forget, TypeOK, TargetsComplete, LoggedIn
<1>10. ASSUME NEW c \in Channels, LoginAdd(c) PROVE TargetsComplete'
  BY <1>10 DEF LoginAdd, TypeOK, TargetsComplete, LoggedIn
<1>11. ASSUME NEW c \in Channels, BeginBackfill(c) PROVE TargetsComplete'
  BY <1>11 DEF BeginBackfill, TypeOK, TargetsComplete, LoggedIn
<1>12. ASSUME NEW c \in Channels, LockBackfill(c) PROVE TargetsComplete'
  BY <1>12 DEF LockBackfill, TypeOK, TargetsComplete, LoggedIn
<1>13. ASSUME NEW c \in Channels, CommitBackfill(c) PROVE TargetsComplete'
  <2>1. SUFFICES ASSUME NEW t \in Txns, NEW d \in Channels,
                        pc'[t] = "resolving", d \in loc', cpc'[d] \in LoggedIn,
                        Acct(d) \in req'[t].recv \ todo'[t]
                 PROVE  JtiOf[d] \in targets'[t]
    BY DEF TargetsComplete
  <2>2. UNCHANGED <<pc, loc, req, todo, targets>> /\ cpc' = [cpc EXCEPT ![c] = "syncing"]
    BY <1>13 DEF CommitBackfill
  <2>3. d # c
    BY <1>13, <2>1, <2>2 DEF CommitBackfill, LocksHeld, LockSet
  <2> QED
    BY <2>1, <2>2, <2>3 DEF TypeOK, TargetsComplete
<1>14. ASSUME NEW c \in Channels, FailLogin(c) PROVE TargetsComplete'
  BY <1>14 DEF FailLogin, Leave, TypeOK, TargetsComplete, LoggedIn
<1>15. ASSUME NEW c \in Channels, Logout(c) PROVE TargetsComplete'
  BY <1>15 DEF Logout, Leave, TypeOK, TargetsComplete, LoggedIn
<1>16. ASSUME NEW a \in Accounts, ExpireLocations(a) PROVE TargetsComplete'
  BY <1>16 DEF ExpireLocations, TypeOK, TargetsComplete, LoggedIn
<1>17. ASSUME NEW c \in Channels, SyncPull(c) PROVE TargetsComplete'
  BY <1>17 DEF SyncPull, TypeOK, TargetsComplete, LoggedIn
<1>18. ASSUME NEW c \in Channels, SyncPersistFailed(c) PROVE TargetsComplete'
  BY <1>18 DEF SyncPersistFailed, TypeOK, TargetsComplete, LoggedIn
<1>19. ASSUME NEW c \in Channels, SyncAck(c) PROVE TargetsComplete'
  BY <1>19 DEF SyncAck, Acknowledge, TypeOK, TargetsComplete, LoggedIn
<1>20. CASE UNCHANGED <<pc, loc, cpc, req, todo, targets>>
  BY <1>20 DEF TypeOK, TargetsComplete, LoggedIn
<1> QED
  BY NextCases, <1>1, <1>2, <1>3, <1>4, <1>5, <1>6, <1>7, <1>8, <1>9, <1>10, <1>11,
     <1>12, <1>13, <1>14, <1>15, <1>16, <1>17, <1>18, <1>19, <1>20 DEF SyncPersist,
     LiveAck, Acknowledge, GcExpiredDeliveries, Tick

\* The clock does not go back.
LEMMA BackfillsInPastStep ==
  ASSUME TypeOK, BackfillsInPast, Next
  PROVE  BackfillsInPast'
<1> USE DEF txnVars, dbVars, clientVars
<1>1. ASSUME NEW c \in Channels, BeginBackfill(c) PROVE BackfillsInPast'
  BY <1>1 DEF BeginBackfill, TypeOK, BackfillsInPast
<1>2. ASSUME NEW c \in Channels, FailLogin(c) PROVE BackfillsInPast'
  BY <1>2 DEF FailLogin, Leave, TypeOK, BackfillsInPast
<1>3. ASSUME NEW c \in Channels, Logout(c) PROVE BackfillsInPast'
  BY <1>3 DEF Logout, Leave, TypeOK, BackfillsInPast
<1>4. CASE Tick
  BY <1>4 DEF Tick, TypeOK, BackfillsInPast
<1>5. CASE UNCHANGED <<now, since>>
  BY <1>5 DEF TypeOK, BackfillsInPast
<1> QED
  BY NextCases, <1>1, <1>2, <1>3, <1>4, <1>5 DEF Talk, BeginInsert, LockInboxAccount,
     ReadIdempotency, ResolveTargets, CommitDuplicate, CommitMessage, AbortInsert,
     Forget, PushTalk, LoginAdd, LockBackfill, CommitBackfill, ExpireLocations,
     SyncPull, SyncPersist, SyncPersistFailed, SyncAck, Acknowledge, LiveAck,
     GcExpiredDeliveries

\* insert_receipts adds the rows it is asked for and removes none.
LEMMA ReceiptsInserted ==
  ASSUME TypeOK, NEW D, NEW S, NEW at \in Nat, NEW j \in Jtis, NEW m \in Ids
  PROVE  /\ created[j][m] # NoRow => InsertReceipts(D, S, at)[j][m] = created[j][m]
         /\ j \in D /\ m \in S => InsertReceipts(D, S, at)[j][m] # NoRow
  BY DEF TypeOK, InsertReceipts, NoRow

\* The message a talk commits has a receipt for every finished login, and a login
\* that finishes finds every committed message.
LEMMA NoMissedReceiptStep ==
  ASSUME TypeOK, FreshIds, TargetsComplete, BackfillsInPast, ClaimStable, NoMissedReceipt, Next
  PROVE  NoMissedReceipt'
<1> USE DEF txnVars, dbVars, clientVars
<1>1. ASSUME NEW t \in Txns, CommitDuplicate(t) PROVE NoMissedReceipt'
  BY <1>1, ReceiptsInserted DEF CommitDuplicate, TypeOK, NoMissedReceipt, HasRow,
     LoggedIn, Message
<1>2. ASSUME NEW t \in Txns, CommitMessage(t) PROVE NoMissedReceipt'
  <2>1. CommitSucceeded(t)
    BY <1>2, CommitSucceeds
  <2>2. SUFFICES ASSUME NEW c \in Channels, NEW r \in msgs', cpc[c] \in LoggedIn, c \in loc,
                        Acct(c) \in r.recv, r.sent + TTL >= now
                 PROVE  HasRow(JtiOf[c], r.id)' \/ <<JtiOf[c], r.id>> \in collected
    BY <2>1 DEF NoMissedReceipt, CommitSucceeded
  <2>3. mid[t] \in Ids /\ began[t] \in Nat
    BY <2>1 DEF CommitSucceeded, TypeOK, FreshIds, InTxn
  <2>4. CASE r \in msgs
    BY <2>1, <2>2, <2>4, <2>3, ReceiptsInserted
    DEF CommitSucceeded, NoMissedReceipt, HasRow, TypeOK, Message
  <2>5. CASE r = NewMessage(t)
    <3>1. JtiOf[c] \in targets[t]
      BY <2>1, <2>2, <2>5 DEF CommitSucceeded, TargetsComplete, NewMessage
    <3>2. JtiOf[c] \in Jtis /\ r.id = mid[t]
      BY <2>5 DEF NewMessage
    <3>3. InsertReceipts(targets[t], {mid[t]}, began[t])[JtiOf[c]][mid[t]] # NoRow
      BY <2>3, <3>1, <3>2 DEF InsertReceipts, TypeOK, NoRow
    <3> QED
      BY <2>1, <3>2, <3>3 DEF CommitSucceeded, HasRow
  <2> QED
    BY <2>1, <2>2, <2>4, <2>5 DEF CommitSucceeded
<1>3. ASSUME NEW c \in Channels, LoginAdd(c) PROVE NoMissedReceipt'
  BY <1>3 DEF LoginAdd, TypeOK, NoMissedReceipt, HasRow, LoggedIn, Message
<1>4. ASSUME NEW c \in Channels, BeginBackfill(c) PROVE NoMissedReceipt'
  BY <1>4 DEF BeginBackfill, TypeOK, NoMissedReceipt, HasRow, LoggedIn, Message
<1>5. ASSUME NEW c \in Channels, LockBackfill(c) PROVE NoMissedReceipt'
  BY <1>5 DEF LockBackfill, TypeOK, NoMissedReceipt, HasRow, LoggedIn, Message
<1>6. ASSUME NEW c \in Channels, CommitBackfill(c) PROVE NoMissedReceipt'
  <2>1. SUFFICES ASSUME NEW d \in Channels, NEW r \in msgs, cpc'[d] \in LoggedIn, d \in loc,
                        Acct(d) \in r.recv, r.sent + TTL >= now
                 PROVE  HasRow(JtiOf[d], r.id)' \/ <<JtiOf[d], r.id>> \in collected
    BY <1>6 DEF NoMissedReceipt, CommitBackfill
  <2>2. since[c] \in Nat /\ r.id \in Ids /\ r.sent \in Nat /\ now \in Nat
    BY DEF TypeOK, Message
  <2>3. created' = InsertReceipts({JtiOf[c]}, Backfillable(c), since[c])
    BY <1>6 DEF CommitBackfill
  <2>4. CASE d = c
    <3>1. r.id \in Backfillable(c)
      BY <2>1, <2>2, <2>4 DEF Backfillable, BackfillsInPast
    <3> QED
      BY <2>2, <2>3, <2>4, <3>1, ReceiptsInserted DEF HasRow
  <2>5. CASE d # c
    <3>1. cpc[d] \in LoggedIn
      BY <1>6, <2>1, <2>5 DEF CommitBackfill, TypeOK
    <3> QED
      BY <2>1, <2>2, <2>3, <3>1, ReceiptsInserted DEF NoMissedReceipt, HasRow
  <2> QED
    BY <2>4, <2>5
<1>7. ASSUME NEW c \in Channels, FailLogin(c) PROVE NoMissedReceipt'
  BY <1>7 DEF FailLogin, Leave, TypeOK, NoMissedReceipt, HasRow, LoggedIn, Message
<1>8. ASSUME NEW c \in Channels, Logout(c) PROVE NoMissedReceipt'
  BY <1>8 DEF Logout, Leave, TypeOK, NoMissedReceipt, HasRow, LoggedIn, Message
<1>9. ASSUME NEW a \in Accounts, ExpireLocations(a) PROVE NoMissedReceipt'
  BY <1>9 DEF ExpireLocations, TypeOK, NoMissedReceipt, HasRow, LoggedIn, Message
<1>10. ASSUME NEW c \in Channels, SyncPull(c) PROVE NoMissedReceipt'
  BY <1>10 DEF SyncPull, TypeOK, NoMissedReceipt, HasRow, LoggedIn, Message
<1>11. ASSUME NEW c \in Channels, SyncPersistFailed(c) PROVE NoMissedReceipt'
  BY <1>11 DEF SyncPersistFailed, TypeOK, NoMissedReceipt, HasRow, LoggedIn, Message
<1>12. ASSUME NEW c \in Channels, SyncAck(c) PROVE NoMissedReceipt'
  BY <1>12 DEF SyncAck, Acknowledge, TypeOK, NoMissedReceipt, HasRow, LoggedIn, Message
<1>13. CASE GcExpiredDeliveries
  BY <1>13 DEF GcExpiredDeliveries, TypeOK, NoMissedReceipt, HasRow, LoggedIn, Message,
     ExpiredRows
<1>14. CASE Tick
  BY <1>14 DEF Tick, TypeOK, NoMissedReceipt, HasRow, LoggedIn, Message
<1>15. CASE UNCHANGED <<msgs, cpc, loc, now, created, collected>>
  BY <1>15 DEF TypeOK, NoMissedReceipt, HasRow, LoggedIn, Message
<1> QED
  BY NextCases, <1>1, <1>2, <1>3, <1>4, <1>5, <1>6, <1>7, <1>8, <1>9, <1>10, <1>11,
     <1>12, <1>13, <1>14, <1>15 DEF Talk, BeginInsert, LockInboxAccount,
     ReadIdempotency, ResolveTargets, AbortInsert, Forget, PushTalk, SyncPersist,
     LiveAck, Acknowledge

\* The local store only grows and both acks look at it first.
LEMMA PersistThenAckStep ==
  ASSUME TypeOK, PersistThenAck, Next
  PROVE  PersistThenAck'
<1> USE DEF txnVars, dbVars, clientVars
<1>1. ASSUME NEW t \in Txns, PushTalk(t) PROVE PersistThenAck'
  BY <1>1 DEF PushTalk, Forget, TypeOK, PersistThenAck
<1>2. ASSUME NEW c \in Channels, SyncPersist(c) PROVE PersistThenAck'
  BY <1>2 DEF SyncPersist, TypeOK, PersistThenAck
<1>3. ASSUME NEW c \in Channels, SyncAck(c) PROVE PersistThenAck'
  BY <1>3 DEF SyncAck, Acknowledge, TypeOK, PersistThenAck
<1>4. ASSUME NEW c \in Channels, NEW m \in Ids, LiveAck(c, m) PROVE PersistThenAck'
  BY <1>4 DEF LiveAck, Acknowledge, TypeOK, PersistThenAck
<1>5. CASE GcExpiredDeliveries
  BY <1>5 DEF GcExpiredDeliveries, TypeOK, PersistThenAck
<1>6. CASE UNCHANGED <<acked, got>>
  BY <1>6 DEF TypeOK, PersistThenAck
<1> QED
  BY NextCases, <1>1, <1>2, <1>3, <1>4, <1>5, <1>6 DEF Talk, BeginInsert,
     LockInboxAccount, ReadIdempotency, ResolveTargets, CommitDuplicate, CommitMessage,
     AbortInsert, Forget, LoginAdd, BeginBackfill, LockBackfill, CommitBackfill,
     FailLogin, Leave, Logout, ExpireLocations, SyncPull, SyncPersistFailed, Tick

\* No message is withdrawn, and no receipt goes except by collection.
Kept == /\ msgs \subseteq msgs' /\ collected \subseteq collected'
        /\ \A j \in Jtis, m \in Ids :
             created[j][m] # NoRow => created'[j][m] = created[j][m] \/ <<j, m>> \in collected'

\* The rows and messages a step finds are there after it.
LEMMA KeptStep ==
  ASSUME TypeOK, FreshIds, ClaimStable, Next
  PROVE  Kept
<1> USE DEF txnVars, dbVars, clientVars
<1>1. ASSUME NEW t \in Txns, CommitDuplicate(t) PROVE Kept
  BY <1>1, ReceiptsInserted DEF CommitDuplicate, Kept, TypeOK
<1>2. ASSUME NEW t \in Txns, CommitMessage(t) PROVE Kept
  <2>1. CommitSucceeded(t) /\ began[t] \in Nat
    BY <1>2, CommitSucceeds DEF TypeOK
  <2> QED
    BY <2>1, ReceiptsInserted DEF CommitSucceeded, Kept
<1>3. ASSUME NEW c \in Channels, CommitBackfill(c) PROVE Kept
  BY <1>3, ReceiptsInserted DEF CommitBackfill, Kept, TypeOK
<1>4. CASE GcExpiredDeliveries
  BY <1>4 DEF GcExpiredDeliveries, Kept, TypeOK
<1>5. CASE UNCHANGED <<msgs, created, collected>>
  BY <1>5 DEF Kept
<1> QED
  BY NextCases, <1>1, <1>2, <1>3, <1>4, <1>5 DEF Talk, BeginInsert, LockInboxAccount,
     ReadIdempotency, ResolveTargets, AbortInsert, Forget, PushTalk, LoginAdd,
     BeginBackfill, LockBackfill, FailLogin, Leave, Logout, ExpireLocations, SyncPull,
     SyncPersist, SyncPersistFailed, SyncAck, Acknowledge, LiveAck, Tick

\* Receipts of what is due at login are written with it.
LEMMA DueHasReceiptStep ==
  ASSUME TypeOK, FreshIds, ClaimStable, DueHasReceipt, Next
  PROVE  DueHasReceipt'
<1>1. Kept
  BY KeptStep
<1>2. SUFFICES ASSUME NEW c \in Channels, cpc'[c] \in LoggedIn, NEW m \in due'[c]
               PROVE  /\ Addressed(m, Acct(c))'
                      /\ HasRow(JtiOf[c], m)' \/ <<JtiOf[c], m>> \in collected'
  BY DEF DueHasReceipt
<1>3. CASE cpc[c] \in LoggedIn /\ m \in due[c]
  BY <1>1, <1>3 DEF DueHasReceipt, Kept, Addressed, HasRow, TypeOK
<1>4. CASE CommitBackfill(c)
  <2>1. m \in Backfillable(c) /\ m \in Ids /\ since[c] \in Nat /\ JtiOf[c] \in Jtis
    BY <1>2, <1>4 DEF CommitBackfill, TypeOK, Backfillable, Message
  <2>2. Addressed(m, Acct(c))'
    BY <1>1, <2>1 DEF Backfillable, Addressed, Kept
  <2>3. InsertReceipts({JtiOf[c]}, Backfillable(c), since[c])[JtiOf[c]][m] # NoRow
    BY <2>1, ReceiptsInserted
  <2> QED
    BY <1>4, <2>2, <2>3 DEF CommitBackfill, HasRow
<1>5. (cpc[c] \in LoggedIn /\ m \in due[c]) \/ CommitBackfill(c)
  <2> USE DEF TypeOK, LoggedIn, txnVars, dbVars, clientVars
  <2>1. CASE cpc' = cpc /\ due' = due
    BY <1>2, <2>1
  <2>2. ASSUME NEW d \in Channels,
               \/ LoginAdd(d) \/ BeginBackfill(d) \/ LockBackfill(d) \/ FailLogin(d)
               \/ Logout(d) \/ SyncPull(d) \/ SyncPersistFailed(d) \/ SyncAck(d)
        PROVE  cpc[c] \in LoggedIn /\ m \in due[c]
    BY <1>2, <2>2 DEF LoginAdd, BeginBackfill, LockBackfill, FailLogin, Leave, Logout,
       SyncPull, SyncPersistFailed, SyncAck
  <2>3. ASSUME NEW d \in Channels, CommitBackfill(d), d # c
        PROVE  cpc[c] \in LoggedIn /\ m \in due[c]
    BY <1>2, <2>3 DEF CommitBackfill
  <2> QED
    BY NextCases, <2>1, <2>2, <2>3 DEF Talk, BeginInsert, LockInboxAccount, ReadIdempotency,
       ResolveTargets, CommitDuplicate, CommitMessage, AbortInsert, PushTalk,
       ExpireLocations, SyncPersist, LiveAck, GcExpiredDeliveries, Tick
<1> QED
  BY <1>3, <1>4, <1>5

\* The page goes when the sync ends.
LEMMA PageInSyncStep ==
  ASSUME TypeOK, PageInSync, Next
  PROVE  PageInSync'
<1> USE DEF txnVars, dbVars, clientVars
<1>1. ASSUME NEW c \in Channels, LoginAdd(c) PROVE PageInSync'
  BY <1>1 DEF LoginAdd, TypeOK, PageInSync
<1>2. ASSUME NEW c \in Channels, BeginBackfill(c) PROVE PageInSync'
  BY <1>2 DEF BeginBackfill, TypeOK, PageInSync
<1>3. ASSUME NEW c \in Channels, LockBackfill(c) PROVE PageInSync'
  BY <1>3 DEF LockBackfill, TypeOK, PageInSync
<1>4. ASSUME NEW c \in Channels, CommitBackfill(c) PROVE PageInSync'
  BY <1>4 DEF CommitBackfill, TypeOK, PageInSync
<1>5. ASSUME NEW c \in Channels, FailLogin(c) PROVE PageInSync'
  BY <1>5 DEF FailLogin, Leave, TypeOK, PageInSync
<1>6. ASSUME NEW c \in Channels, Logout(c) PROVE PageInSync'
  BY <1>6 DEF Logout, Leave, TypeOK, PageInSync
<1>7. ASSUME NEW c \in Channels, SyncPull(c) PROVE PageInSync'
  BY <1>7 DEF SyncPull, TypeOK, PageInSync
<1>8. ASSUME NEW c \in Channels, SyncPersistFailed(c) PROVE PageInSync'
  BY <1>8 DEF SyncPersistFailed, TypeOK, PageInSync
<1>9. ASSUME NEW c \in Channels, SyncAck(c) PROVE PageInSync'
  BY <1>9 DEF SyncAck, Acknowledge, TypeOK, PageInSync
<1>10. CASE UNCHANGED <<cpc, page>>
  BY <1>10 DEF TypeOK, PageInSync
<1> QED
  BY NextCases, <1>1, <1>2, <1>3, <1>4, <1>5, <1>6, <1>7, <1>8, <1>9, <1>10 DEF Talk,
     BeginInsert, LockInboxAccount, ReadIdempotency, ResolveTargets, CommitDuplicate,
     CommitMessage, AbortInsert, Forget, PushTalk, ExpireLocations, SyncPersist,
     LiveAck, Acknowledge, GcExpiredDeliveries, Tick

\* Time and the local stores only grow.
Grows == now <= now' /\ \A j \in Jtis : got[j] \subseteq got'[j]

\* No step turns the clock back or forgets a stored message.
LEMMA GrowsStep ==
  ASSUME TypeOK, Next
  PROVE  Grows
<1> USE DEF txnVars, dbVars, clientVars
<1>1. ASSUME NEW t \in Txns, PushTalk(t) PROVE Grows
  BY <1>1 DEF PushTalk, Forget, TypeOK, Grows
<1>2. ASSUME NEW c \in Channels, SyncPersist(c) PROVE Grows
  BY <1>2 DEF SyncPersist, TypeOK, Grows
<1>3. CASE Tick
  BY <1>3 DEF Tick, TypeOK, Grows
<1>4. CASE UNCHANGED <<now, got>>
  BY <1>4 DEF TypeOK, Grows
<1> QED
  BY NextCases, <1>1, <1>2, <1>3, <1>4 DEF Talk, BeginInsert, LockInboxAccount,
     ReadIdempotency, ResolveTargets, CommitDuplicate, CommitMessage, AbortInsert,
     Forget, LoginAdd, BeginBackfill, LockBackfill, CommitBackfill, FailLogin, Leave,
     Logout, ExpireLocations, SyncPull, SyncPersistFailed, SyncAck, Acknowledge,
     LiveAck, GcExpiredDeliveries

\* A message is settled for a device once it is stored or its receipt is gone.
Settled(j, m) == m \in got[j] \/ Expired(j, m)

\* What is settled stays settled.
LEMMA SettledStep ==
  ASSUME TypeOK, FreshIds, ClaimStable, Next, NEW j \in Jtis, NEW m \in Ids, Settled(j, m)
  PROVE  Settled(j, m)'
<1>1. Kept /\ Grows
  BY KeptStep, GrowsStep
<1>2. now \in Nat /\ now' \in Nat /\ TTL \in Nat
  BY TypeStep DEF TypeOK
<1>3. created[j][m] # NoRow => created[j][m] \in Nat
  BY DEF TypeOK
<1>4. CASE m \in got[j]
  BY <1>1, <1>4 DEF Grows, Settled
<1>5. CASE <<j, m>> \in collected
  BY <1>1, <1>5 DEF Kept, Settled, Expired
<1>6. CASE HasRow(j, m) /\ created[j][m] + TTL <= now
  BY <1>1, <1>2, <1>3, <1>6 DEF Kept, Grows, Settled, Expired, HasRow
<1> QED
  BY <1>4, <1>5, <1>6 DEF Settled, Expired

\* What is due and not settled is in what offline_index would return.
LEMMA UnsettledIsVisible ==
  ASSUME TypeOK, PersistThenAck, DueHasReceipt, NEW c \in Channels, cpc[c] \in LoggedIn,
         NEW m \in due[c], ~ Settled(JtiOf[c], m)
  PROVE  m \in Visible(JtiOf[c])
<1>1. m \in Ids /\ JtiOf[c] \in Jtis /\ now \in Nat
  BY DEF TypeOK
<1>2. Addressed(m, Acct(c)) /\ HasRow(JtiOf[c], m)
  BY DEF DueHasReceipt, Settled, Expired
<1>3. created[JtiOf[c]][m] \in Nat
  BY <1>1, <1>2 DEF TypeOK, HasRow
<1>4. created[JtiOf[c]][m] + TTL > now
  BY <1>1, <1>2, <1>3 DEF Settled, Expired
<1>5. Pending(JtiOf[c], m)
  BY <1>1, <1>2 DEF Pending, PersistThenAck, Settled
<1> QED
  BY <1>1, <1>2, <1>4, <1>5 DEF Visible, Acct

\* How a channel can come to a state of its sync.
LEMMA SyncOrigin ==
  ASSUME TypeOK, Next, NEW c \in Channels, cpc'[c] \in {"syncing", "online"}
  PROVE  \/ cpc'[c] = cpc[c] /\ due'[c] = due[c] /\ page'[c] = page[c]
         \/ CommitBackfill(c) \/ SyncPull(c) \/ SyncAck(c)
<1> USE DEF TypeOK, txnVars, dbVars, clientVars
<1>1. CASE cpc' = cpc /\ due' = due /\ page' = page
  BY <1>1
<1>2. ASSUME NEW d \in Channels,
             \/ LoginAdd(d) \/ BeginBackfill(d) \/ LockBackfill(d) \/ FailLogin(d)
             \/ Logout(d) \/ SyncPersistFailed(d)
      PROVE  cpc'[c] = cpc[c] /\ due'[c] = due[c] /\ page'[c] = page[c]
  BY <1>2 DEF LoginAdd, BeginBackfill, LockBackfill, FailLogin, Leave, Logout, SyncPersistFailed
<1>3. ASSUME NEW d \in Channels, d # c, CommitBackfill(d) \/ SyncPull(d) \/ SyncAck(d)
      PROVE  cpc'[c] = cpc[c] /\ due'[c] = due[c] /\ page'[c] = page[c]
  BY <1>3 DEF CommitBackfill, SyncPull, SyncAck
<1> QED
  BY NextCases, <1>1, <1>2, <1>3 DEF Talk, BeginInsert, LockInboxAccount, ReadIdempotency,
     ResolveTargets, CommitDuplicate, CommitMessage, AbortInsert, PushTalk,
     ExpireLocations, SyncPersist, LiveAck, GcExpiredDeliveries, Tick

\* A page that is not full is everything visible, so it holds what is unsettled.
LEMMA ShortPageIsLastStep ==
  ASSUME TypeOK, FreshIds, ClaimStable, PersistThenAck, DueHasReceipt, PageInSync,
         ShortPageIsLast, Next
  PROVE  ShortPageIsLast'
<1>1. SUFFICES ASSUME NEW c \in Channels, cpc'[c] = "syncing", page'[c] # {},
                      Cardinality(page'[c]) < PageSize, NEW m \in due'[c]
               PROVE  m \in page'[c] \/ Settled(JtiOf[c], m)'
  BY DEF ShortPageIsLast, Settled
<1>2. CASE cpc'[c] = cpc[c] /\ due'[c] = due[c] /\ page'[c] = page[c]
  BY <1>1, <1>2, SettledStep DEF ShortPageIsLast, Settled, TypeOK
<1>3. CASE CommitBackfill(c)
  BY <1>1, <1>3 DEF CommitBackfill, PageInSync
<1>4. CASE SyncAck(c)
  BY <1>1, <1>4 DEF SyncAck, TypeOK
<1>5. CASE SyncPull(c)
  <2>1. PICK P \in SUBSET Visible(JtiOf[c]) : IsPage(JtiOf[c], P) /\ page' = [page EXCEPT ![c] = P]
    BY <1>5 DEF SyncPull
  <2>2. page'[c] = P /\ due' = due /\ cpc[c] = "syncing"
    BY <1>5, <2>1 DEF SyncPull, TypeOK
  <2>3. P = Visible(JtiOf[c])
    BY <1>1, <2>1, <2>2 DEF IsPage
  <2>4. m \in due[c] /\ m \in Ids /\ JtiOf[c] \in Jtis
    BY <1>1, <2>2 DEF TypeOK
  <2>5. m \in P \/ Settled(JtiOf[c], m)
    BY <2>2, <2>3, <2>4, UnsettledIsVisible DEF LoggedIn
  <2> QED
    BY <2>2, <2>4, <2>5, SettledStep
<1> QED
  BY <1>1, <1>2, <1>3, <1>4, <1>5, SyncOrigin

\* The sync ends on an empty or a short page; either leaves nothing unsettled.
LEMMA SyncDrainedStep ==
  ASSUME TypeOK, FreshIds, ClaimStable, PersistThenAck, DueHasReceipt, PageInSync,
         ShortPageIsLast, SyncDrained, Next
  PROVE  SyncDrained'
<1>1. SUFFICES ASSUME NEW c \in Channels, cpc'[c] = "online", NEW m \in due'[c]
               PROVE  Settled(JtiOf[c], m)'
  BY DEF SyncDrained, Settled
<1>2. CASE cpc'[c] = cpc[c] /\ due'[c] = due[c] /\ page'[c] = page[c]
  BY <1>1, <1>2, SettledStep DEF SyncDrained, Settled, TypeOK
<1>3. CASE CommitBackfill(c)
  BY <1>1, <1>3 DEF CommitBackfill, TypeOK
<1>4. CASE SyncAck(c)
  <2>1. /\ cpc[c] = "syncing" /\ page[c] # {} /\ Cardinality(page[c]) < PageSize
        /\ page[c] \subseteq got[JtiOf[c]] /\ due' = due
    BY <1>1, <1>4 DEF SyncAck, TypeOK
  <2>2. m \in Ids /\ JtiOf[c] \in Jtis /\ m \in due[c]
    BY <1>1, <2>1 DEF TypeOK
  <2>3. Settled(JtiOf[c], m)
    BY <2>1, <2>2 DEF ShortPageIsLast, Settled
  <2> QED
    BY <2>2, <2>3, SettledStep
<1>5. CASE SyncPull(c)
  <2>1. PICK P \in SUBSET Visible(JtiOf[c]) :
          IsPage(JtiOf[c], P) /\ cpc' = [cpc EXCEPT ![c] = IF P = {} THEN "online" ELSE "syncing"]
    BY <1>5 DEF SyncPull
  <2>2. P = {} /\ due' = due /\ cpc[c] = "syncing"
    BY <1>1, <1>5, <2>1 DEF SyncPull, TypeOK
  <2>3. Visible(JtiOf[c]) = {}
    BY <2>1, <2>2, FS_EmptySet DEF IsPage
  <2>4. m \in due[c] /\ m \in Ids /\ JtiOf[c] \in Jtis
    BY <1>1, <2>2 DEF TypeOK
  <2>5. Settled(JtiOf[c], m)
    BY <2>2, <2>3, <2>4, UnsettledIsVisible DEF LoggedIn
  <2> QED
    BY <2>4, <2>5, SettledStep
<1> QED
  BY <1>1, <1>2, <1>3, <1>4, <1>5, SyncOrigin

-----------------------------------------------------------------------------
(* The theorems *)

LEMMA InitIInv == Init => IInv
<1> SUFFICES ASSUME Init PROVE IInv
  OBVIOUS
<1>1. TypeOK
  BY NoReqType DEF Init, TypeOK, TxnStates, ChannelStates, NoRow, NoMsg
<1> QED
  BY <1>1 DEF Init, IInv, LocksHeld, FreshIds, ClaimsRecorded, ClaimStable, InTxn,
     TargetsComplete, BackfillsInPast, NoMissedReceipt, PersistThenAck, DueHasReceipt,
     PageInSync, ShortPageIsLast, SyncDrained, LoggedIn

LEMMA StutterIInv == IInv /\ UNCHANGED vars => IInv'
<1> SUFFICES ASSUME IInv, UNCHANGED vars PROVE IInv'
  OBVIOUS
<1> USE DEF IInv, vars, txnVars, dbVars, clientVars
<1>1. TypeOK' /\ LocksHeld' /\ FreshIds' /\ BackfillsInPast'
  BY DEF TypeOK, LocksHeld, LockSet, FreshIds, BackfillsInPast
<1>2. ClaimsRecorded' /\ ClaimStable' /\ TargetsComplete'
  BY DEF ClaimsRecorded, ClaimStable, ClaimLost, TargetsComplete
<1>3. NoMissedReceipt' /\ PersistThenAck' /\ DueHasReceipt'
  BY DEF NoMissedReceipt, PersistThenAck, DueHasReceipt, HasRow, Addressed
<1>4. PageInSync' /\ ShortPageIsLast' /\ SyncDrained'
  BY DEF PageInSync, ShortPageIsLast, SyncDrained, Expired, HasRow
<1> QED
  BY <1>1, <1>2, <1>3, <1>4

LEMMA StepIInv == IInv /\ [Next]_vars => IInv'
<1>1. ASSUME IInv, Next PROVE IInv'
  BY <1>1, TypeStep, LocksHeldStep, FreshIdsStep, ClaimsRecordedStep, ClaimStableStep,
     TargetsCompleteStep, BackfillsInPastStep, NoMissedReceiptStep, PersistThenAckStep,
     DueHasReceiptStep, PageInSyncStep, ShortPageIsLastStep, SyncDrainedStep DEF IInv
<1> QED
  BY <1>1, StutterIInv

\* The inductive invariant holds throughout.
THEOREM Invariance == Spec => []IInv
  BY InitIInv, StepIInv, PTL DEF Spec

\* Every variable stays in its set, for all sizes of the system.
THEOREM TypeCorrect == Spec => []TypeOK
<1>1. IInv => TypeOK
  BY DEF IInv
<1> QED
  BY <1>1, Invariance, PTL

\* No talk committed by insert_fanout_pending is missed by a device whose login
\* finished, however talks, logins, logouts, expiry and failures interleave.
THEOREM ReceiptSafety == Spec => []NoMissedReceipt
<1>1. IInv => NoMissedReceipt
  BY DEF IInv
<1> QED
  BY <1>1, Invariance, PTL

\* Retries of a client id store one message, and the claim read under the
\* sender's lock is the claim found at commit.
THEOREM Idempotency == Spec => [](OneMessagePerClientId /\ ClaimStable)
<1>1. IInv => OneMessagePerClientId /\ ClaimStable
  <2>1. SUFFICES ASSUME IInv PROVE OneMessagePerClientId
    BY DEF IInv
  <2>2. ASSUME NEW r \in msgs, NEW q \in msgs, r.sender = q.sender, r.cid = q.cid, r.cid # NoCid
        PROVE  r = q
    <3>1. r.id = q.id
      BY <2>1, <2>2 DEF IInv, ClaimsRecorded
    <3> QED
      BY <2>1, <3>1 DEF IInv, FreshIds
  <2> QED
    BY <2>2 DEF OneMessagePerClientId
<1> QED
  BY <1>1, Invariance, PTL

\* A device acknowledges only what it has stored, and a sync that ended normally
\* has fetched everything due at login.
THEOREM SyncSafety == Spec => [](PersistThenAck /\ SyncDrained)
<1>1. IInv => PersistThenAck /\ SyncDrained
  BY DEF IInv
<1> QED
  BY <1>1, Invariance, PTL

-----------------------------------------------------------------------------
(* Acknowledgement and lock order *)

\* An acknowledged row goes only by collection.
LEMMA AckedStep ==
  ASSUME TypeOK, Next
  PROVE  \A p \in acked : p \in acked' \/ p \in collected'
<1> USE DEF txnVars, dbVars, clientVars
<1>1. ASSUME NEW c \in Channels, SyncAck(c) PROVE \A p \in acked : p \in acked' \/ p \in collected'
  BY <1>1 DEF SyncAck, Acknowledge, TypeOK
<1>2. ASSUME NEW c \in Channels, NEW m \in Ids, LiveAck(c, m)
      PROVE  \A p \in acked : p \in acked' \/ p \in collected'
  BY <1>2 DEF LiveAck, Acknowledge, TypeOK
<1>3. CASE GcExpiredDeliveries
  BY <1>3 DEF GcExpiredDeliveries, TypeOK
<1>4. CASE UNCHANGED <<acked>>
  BY <1>4 DEF TypeOK
<1> QED
  BY NextCases, <1>1, <1>2, <1>3, <1>4 DEF Talk, BeginInsert, LockInboxAccount,
     ReadIdempotency, ResolveTargets, CommitDuplicate, CommitMessage, AbortInsert,
     Forget, PushTalk, LoginAdd, BeginBackfill, LockBackfill, CommitBackfill, FailLogin,
     Leave, Logout, ExpireLocations, SyncPull, SyncPersist, SyncPersistFailed, Tick

\* Neither a backfill nor a duplicate talk brings an acknowledged message back.
THEOREM AckSafety == Spec => AckIsFinal
<1>1. IInv /\ [Next]_vars => [\A p \in acked : p \in acked' \/ p \in collected']_vars
  <2>1. ASSUME IInv, Next PROVE \A p \in acked : p \in acked' \/ p \in collected'
    BY <2>1, AckedStep DEF IInv
  <2> QED
    BY <2>1
<1> QED
  BY <1>1, Invariance, PTL DEF Spec, AckIsFinal

\* Sorted locking, one account after the other.
LEMMA LocksOrderedStep ==
  ASSUME \A a, b \in Accounts : LockKey[a] = LockKey[b] => a = b,
         IInv, LocksOrdered, Next
  PROVE  LocksOrdered'
<1>0. TypeOK /\ LocksHeld /\ ClaimStable
  BY DEF IInv
<1> USE <1>0 DEF txnVars, dbVars, clientVars
<1>1. ASSUME NEW t \in Txns, NEW r \in Requests, Talk(t, r) PROVE LocksOrdered'
  BY <1>1 DEF Talk, TypeOK, LocksOrdered, InTxn, LockSet
<1>2. ASSUME NEW t \in Txns, BeginInsert(t) PROVE LocksOrdered'
  BY <1>2 DEF BeginInsert, TypeOK, LocksOrdered, InTxn, LockSet, IInv
<1>3. ASSUME NEW t \in Txns, NEW a \in Accounts, LockInboxAccount(t, a) PROVE LocksOrdered'
  BY <1>3 DEF LockInboxAccount, TypeOK, LocksOrdered, InTxn, LockSet, IsNextToLock,
     Keys, IInv, LocksHeld
<1>4. ASSUME NEW t \in Txns, ReadIdempotency(t) PROVE LocksOrdered'
  BY <1>4 DEF ReadIdempotency, TypeOK, LocksOrdered, InTxn, LockSet
<1>5. ASSUME NEW t \in Txns, NEW a \in Accounts, ResolveTargets(t, a) PROVE LocksOrdered'
  BY <1>5 DEF ResolveTargets, TypeOK, LocksOrdered, InTxn, LockSet
<1>6. ASSUME NEW t \in Txns, CommitDuplicate(t) PROVE LocksOrdered'
  BY <1>6 DEF CommitDuplicate, TypeOK, LocksOrdered, InTxn, LockSet, Released, Keys
<1>7. ASSUME NEW t \in Txns, CommitMessage(t) PROVE LocksOrdered'
  <2>1. CommitSucceeded(t)
    BY <1>7, CommitSucceeds
  <2> QED
    BY <2>1 DEF CommitSucceeded, TypeOK, LocksOrdered, InTxn, LockSet, Released, Keys
<1>8. ASSUME NEW t \in Txns, AbortInsert(t) PROVE LocksOrdered'
  BY <1>8 DEF AbortInsert, Forget, TypeOK, LocksOrdered, InTxn, LockSet, Released, Keys
<1>9. ASSUME NEW t \in Txns, PushTalk(t) PROVE LocksOrdered'
  BY <1>9 DEF PushTalk, Forget, TypeOK, LocksOrdered, InTxn, LockSet
<1>10. ASSUME NEW c \in Channels, LockBackfill(c) PROVE LocksOrdered'
  BY <1>10, AcctType DEF LockBackfill, TypeOK, LocksOrdered, InTxn, LockSet, Keys
<1>11. ASSUME NEW c \in Channels, CommitBackfill(c) PROVE LocksOrdered'
  BY <1>11 DEF CommitBackfill, TypeOK, LocksOrdered, InTxn, LockSet, Released, Keys
<1>12. ASSUME NEW c \in Channels, FailLogin(c) PROVE LocksOrdered'
  BY <1>12 DEF FailLogin, Leave, TypeOK, LocksOrdered, InTxn, LockSet, Released, Keys
<1>13. CASE UNCHANGED <<pc, req, todo, holder>>
  BY <1>13 DEF TypeOK, LocksOrdered, InTxn, LockSet
<1> QED
  BY NextCases, <1>1, <1>2, <1>3, <1>4, <1>5, <1>6, <1>7, <1>8, <1>9, <1>10, <1>11,
     <1>12, <1>13 DEF LoginAdd, BeginBackfill, Logout, Leave, ExpireLocations, SyncPull,
     SyncPersist, SyncPersistFailed, SyncAck, Acknowledge, LiveAck, GcExpiredDeliveries,
     Tick

\* When no two accounts hash to the same key, waiting for an inbox lock follows
\* the order of the accounts, so there is no cycle of waiters.
THEOREM LockOrderSafety ==
  ASSUME \A a, b \in Accounts : LockKey[a] = LockKey[b] => a = b
  PROVE  Spec => []LockOrder
<1>1. Init => LocksOrdered
  BY DEF Init, LocksOrdered, Keys
<1>2. IInv /\ LocksOrdered /\ [Next]_vars => LocksOrdered'
  <2>1. ASSUME IInv, LocksOrdered, Next PROVE LocksOrdered'
    BY <2>1, LocksOrderedStep
  <2>2. ASSUME LocksOrdered, UNCHANGED vars PROVE LocksOrdered'
    BY <2>2 DEF LocksOrdered, LockSet, vars, txnVars
  <2> QED
    BY <2>1, <2>2
<1>3. LocksOrdered => LockOrder
  BY DEF LocksOrdered, LockOrder
<1> QED
  BY <1>1, <1>2, <1>3, Invariance, PTL DEF Spec

-----------------------------------------------------------------------------
(* The tables implement MessageStore *)

\* An acknowledgement is written to a receipt row and goes with it.
AckedHaveRows == \A p \in acked : HasRow(p[1], p[2])

Rows   == {p \in Jtis \X Ids : HasRow(p[1], p[2])}
Stored == {<<r.id, r.sender, r.cid>> : r \in msgs}
Claims == {<<k[1], k[2], idem[k]>> : k \in {l \in Accounts \X ClientIds : idem[l] # NoMsg}}

\* insert_receipts adds rows for its devices and messages and removes none.
LEMMA RowsGrow ==
  ASSUME TypeOK, NEW D, NEW S, NEW at \in Nat, created' = InsertReceipts(D, S, at)
  PROVE  Rows \subseteq Rows' /\ Rows' \subseteq Rows \cup (D \X S)
<1>1. ASSUME NEW j \in Jtis, NEW m \in Ids
      PROVE  /\ HasRow(j, m) => HasRow(j, m)'
             /\ HasRow(j, m)' => HasRow(j, m) \/ (j \in D /\ m \in S)
  BY DEF TypeOK, InsertReceipts, HasRow, NoRow
<1> QED
  BY <1>1 DEF Rows

\* The commit of a talk is one insertion of the abstract store: a fresh id, the
\* claim of a client id nobody has claimed, and receipts of that message only.
LEMMA CommitInserts ==
  ASSUME IInv, NEW t \in Txns, CommitMessage(t)
  PROVE  Contract!Insert
<1> DEFINE m == <<mid[t], req[t].sender, req[t].cid>>
<1>0. TypeOK /\ FreshIds /\ ClaimStable
  BY DEF IInv
<1>1. CommitSucceeded(t)
  BY <1>0, CommitSucceeds
<1>2. mid[t] \in Ids /\ \A r \in msgs : r.id # mid[t]
  BY <1>0, <1>1 DEF CommitSucceeded, TypeOK, FreshIds, InTxn
<1>3. Stored' = Stored \cup {m} /\ m \notin Stored
  <2> DEFINE n == NewMessage(t)
  <2>1. n.id = mid[t] /\ n.sender = req[t].sender /\ n.cid = req[t].cid
    BY DEF NewMessage
  <2>2. msgs' = msgs \cup {n}
    BY <1>1 DEF CommitSucceeded
  <2> HIDE DEF n
  <2>3. Stored' = Stored \cup {<<n.id, n.sender, n.cid>>}
    BY <2>2 DEF Stored
  <2>4. m \notin Stored
    BY <1>2 DEF Stored
  <2> QED
    BY <2>1, <2>3, <2>4
<1>4. m[1] \notin {n[1] : n \in Stored}
  BY <1>2 DEF Stored
<1>5. Claims' = Claims \cup (IF m[3] = NoCid \/ (\E c \in Claims : c[1] = m[2] /\ c[2] = m[3])
                            THEN {} ELSE {<<m[2], m[3], m[1]>>})
  <2>1. CASE req[t].cid = NoCid
    BY <1>1, <2>1 DEF CommitSucceeded, Claims
  <2>2. CASE req[t].cid # NoCid
    <3> DEFINE k == <<req[t].sender, req[t].cid>>
    <3>1. k \in Accounts \X ClientIds
      BY <1>0, <2>2 DEF TypeOK
    <3>2. idem[k] = NoMsg
      BY <1>0, <1>1, <2>2 DEF CommitSucceeded, ClaimStable, ClaimLost
    <3>3. \A c \in Claims : ~(c[1] = m[2] /\ c[2] = m[3])
      BY <3>1, <3>2 DEF Claims
    <3>4. idem' = [idem EXCEPT ![k] = mid[t]] /\ mid[t] # NoMsg
      BY <1>1, <1>2, <2>2 DEF CommitSucceeded, Ids, NoMsg
    <3>5. \A l \in Accounts \X ClientIds : idem'[l] = IF l = k THEN mid[t] ELSE idem[l]
      BY <3>4, <1>0 DEF TypeOK
    <3>6. Claims' = Claims \cup {<<k[1], k[2], mid[t]>>}
      BY <3>1, <3>2, <3>4, <3>5 DEF Claims
    <3> QED
      BY <3>3, <3>6, <2>2
  <2> QED
    BY <2>1, <2>2
<1>6. Rows \subseteq Rows' /\ Rows' \subseteq Rows \cup (Jtis \X {m[1]})
  <2>1. began[t] \in Nat /\ targets[t] \subseteq Jtis
    BY <1>0 DEF TypeOK
  <2>2. Rows \subseteq Rows' /\ Rows' \subseteq Rows \cup (targets[t] \X {mid[t]})
    BY <1>0, <1>1, <2>1, RowsGrow DEF CommitSucceeded
  <2> QED
    BY <2>1, <2>2
<1>7. acked' = acked
  BY DEF CommitMessage
<1> HIDE DEF m
<1>8. \E n \in Stored' \ Stored :
        /\ n[1] \in Ids \ {x[1] : x \in Stored}
        /\ Stored' = Stored \cup {n}
        /\ Claims' = Claims \cup (IF n[3] = NoCid \/ (\E c \in Claims : c[1] = n[2] /\ c[2] = n[3])
                                THEN {} ELSE {<<n[2], n[3], n[1]>>})
        /\ Rows \subseteq Rows' /\ Rows' \subseteq Rows \cup (Jtis \X {n[1]})
        /\ acked' = acked
  <2>1. m \in Stored' \ Stored
    BY <1>3
  <2>2. m[1] \in Ids \ {x[1] : x \in Stored}
    BY <1>2, <1>4 DEF m
  <2> QED
    BY <2>1, <2>2, <1>3, <1>5, <1>6, <1>7, Zenon
<1> QED
  BY <1>8, Zenon DEF Contract!Insert, Contract!StoredIds, Contract!Taken, Stored, Claims, Rows

\* A step that only inserts receipts.
LEMMA AddsReceipts ==
  ASSUME TypeOK, AckedHaveRows, NEW D \in SUBSET Jtis, NEW S \in SUBSET Ids, NEW at \in Nat,
         created' = InsertReceipts(D, S, at), UNCHANGED <<msgs, idem, acked>>
  PROVE  Contract!AddReceipts
<1>1. Rows \subseteq Rows' /\ Rows' \subseteq Rows \cup (Jtis \X Ids)
  BY RowsGrow
<1>2. Stored' = Stored /\ Claims' = Claims
  BY DEF Stored, Claims
<1> QED
  BY <1>1, <1>2 DEF Contract!AddReceipts, Stored, Claims, Rows

\* Acknowledged rows are marked; an acknowledgement of a row that is gone is
\* lost with it.
LEMMA Acknowledges ==
  ASSUME TypeOK, AckedHaveRows, NEW j \in Jtis, NEW S \in SUBSET Ids, Acknowledge(j, S),
         UNCHANGED <<msgs, idem, created>>
  PROVE  AckedHaveRows' /\ Contract!Acknowledge
<1>1. Rows' = Rows /\ Stored' = Stored /\ Claims' = Claims
  BY DEF Rows, Stored, Claims, HasRow
<1>2. acked \subseteq acked' /\ acked' \subseteq Rows
  BY DEF Acknowledge, Rows, AckedHaveRows, TypeOK
<1>3. AckedHaveRows'
  BY <1>1, <1>2 DEF AckedHaveRows, Rows
<1> QED
  BY <1>1, <1>2, <1>3 DEF Contract!Acknowledge, Rows, Stored, Claims

\* The collector removes rows together with their acknowledgements.
LEMMA Collects ==
  ASSUME TypeOK, AckedHaveRows, GcExpiredDeliveries
  PROVE  AckedHaveRows' /\ Contract!Collect
<1>1. PICK S \in SUBSET ExpiredRows :
        /\ created' = [j \in Jtis |-> [m \in Ids |->
                         IF <<j, m>> \in S THEN NoRow ELSE created[j][m]]]
        /\ acked' = acked \ S
        /\ UNCHANGED <<msgs, idem>>
  BY DEF GcExpiredDeliveries
<1>2. \A j \in Jtis, m \in Ids : HasRow(j, m)' <=> HasRow(j, m) /\ <<j, m>> \notin S
  BY <1>1 DEF HasRow
<1>3. Rows' = Rows \ S
  BY <1>2 DEF Rows
<1>4. acked \subseteq Rows
  BY DEF AckedHaveRows, Rows, TypeOK
<1>5. acked' = acked \cap Rows' /\ AckedHaveRows'
  BY <1>1, <1>3, <1>4 DEF AckedHaveRows, Rows
<1>6. Stored' = Stored /\ Claims' = Claims
  BY <1>1 DEF Stored, Claims
<1> QED
  BY <1>3, <1>5, <1>6 DEF Contract!Collect, Rows, Stored, Claims

\* Every step is one of the abstract store, or leaves its tables alone.
LEMMA StoreStep ==
  ASSUME IInv, AckedHaveRows, Next
  PROVE  AckedHaveRows' /\ [Contract!Next]_(Contract!storeVars)
<1>0. TypeOK
  BY DEF IInv
<1> USE DEF txnVars, dbVars, clientVars
<1>1. ASSUME NEW t \in Txns, CommitMessage(t) PROVE AckedHaveRows' /\ Contract!Insert
  <2>1. CommitSucceeded(t)
    BY <1>1, CommitSucceeds DEF IInv
  <2>2. began[t] \in Nat
    BY <1>0 DEF TypeOK
  <2>3. Rows \subseteq Rows' /\ acked' = acked
    BY <1>0, <2>1, <2>2, RowsGrow DEF CommitSucceeded
  <2> QED
    BY <1>0, <1>1, <2>3, CommitInserts DEF AckedHaveRows, Rows, TypeOK
<1>2. ASSUME NEW t \in Txns, CommitDuplicate(t) PROVE AckedHaveRows' /\ Contract!AddReceipts
  <2>1. /\ created' = InsertReceipts(targets[t], {existing[t]}, began[t])
        /\ UNCHANGED <<msgs, idem, acked>>
        /\ targets[t] \in SUBSET Jtis /\ {existing[t]} \in SUBSET Ids /\ began[t] \in Nat
    BY <1>0, <1>2 DEF CommitDuplicate, TypeOK
  <2>2. Rows \subseteq Rows'
    BY <1>0, <2>1, RowsGrow
  <2> QED
    BY <1>0, <2>1, <2>2, AddsReceipts DEF AckedHaveRows, Rows, TypeOK
<1>3. ASSUME NEW c \in Channels, CommitBackfill(c) PROVE AckedHaveRows' /\ Contract!AddReceipts
  <2>1. /\ created' = InsertReceipts({JtiOf[c]}, Backfillable(c), since[c])
        /\ UNCHANGED <<msgs, idem, acked>>
    BY <1>3 DEF CommitBackfill
  <2>2. {JtiOf[c]} \in SUBSET Jtis /\ Backfillable(c) \in SUBSET Ids /\ since[c] \in Nat
    BY <1>0 DEF TypeOK, Backfillable, Message
  <2>3. Rows \subseteq Rows'
    BY <1>0, <2>1, <2>2, RowsGrow
  <2> QED
    BY <1>0, <2>1, <2>2, <2>3, AddsReceipts DEF AckedHaveRows, Rows, TypeOK
<1>4. ASSUME NEW c \in Channels, SyncAck(c) PROVE AckedHaveRows' /\ Contract!Acknowledge
  BY <1>0, <1>4, Acknowledges DEF SyncAck, TypeOK
<1>5. ASSUME NEW c \in Channels, NEW m \in Ids, LiveAck(c, m)
      PROVE  AckedHaveRows' /\ Contract!Acknowledge
  BY <1>0, <1>5, Acknowledges DEF LiveAck
<1>6. ASSUME GcExpiredDeliveries PROVE AckedHaveRows' /\ Contract!Collect
  BY <1>0, <1>6, Collects
<1>7. ASSUME UNCHANGED <<msgs, idem, created, acked>>
      PROVE  AckedHaveRows' /\ UNCHANGED Contract!storeVars
  BY <1>7 DEF AckedHaveRows, HasRow, Contract!storeVars
<1>8. \/ \E t \in Txns : CommitMessage(t) \/ CommitDuplicate(t)
      \/ \E c \in Channels : CommitBackfill(c) \/ SyncAck(c) \/ \E m \in Ids : LiveAck(c, m)
      \/ GcExpiredDeliveries
      \/ UNCHANGED <<msgs, idem, created, acked>>
  BY NextCases DEF Talk, BeginInsert, LockInboxAccount, ReadIdempotency, ResolveTargets,
     AbortInsert, Forget, PushTalk, LoginAdd, BeginBackfill, LockBackfill, FailLogin,
     Leave, Logout, ExpireLocations, SyncPull, SyncPersist, SyncPersistFailed, Tick
<1> QED
  BY <1>1, <1>2, <1>3, <1>4, <1>5, <1>6, <1>7, <1>8, Zenon DEF Contract!Next

\* The Postgres store implements the abstract message store: its many statements
\* take effect in one step, and each step is an insertion, new receipts, an
\* acknowledgement or a collection.
THEOREM StoreRefinement == Spec => ImplementsMessageStore
<1>1. Init => AckedHaveRows /\ Contract!Init
  <2> SUFFICES ASSUME Init PROVE AckedHaveRows /\ Contract!Init
    OBVIOUS
  <2>1. acked = {} /\ Claims = {}
    BY DEF Init, Claims
  <2> QED
    BY <2>1 DEF AckedHaveRows, Contract!Init, Claims
<1>2. IInv /\ AckedHaveRows /\ [Next]_vars =>
        AckedHaveRows' /\ [Contract!Next]_(Contract!storeVars)
  <2>1. ASSUME AckedHaveRows, UNCHANGED vars
        PROVE  AckedHaveRows' /\ UNCHANGED Contract!storeVars
    BY <2>1 DEF vars, dbVars, AckedHaveRows, HasRow, Contract!storeVars
  <2> QED
    BY <2>1, StoreStep
<1> QED
  BY <1>1, <1>2, Invariance, PTL DEF Spec, ImplementsMessageStore, Contract!Spec
=============================================================================
