----------------------------- MODULE AgentSpecs -----------------------------
(***************************************************************************)
(* Agent profiles ("spec") and provider accounts ("acct") of an owner, on  *)
(* several devices and on the chat service, kept in step by timestamps:    *)
(* sync_agent_specs fetches the server's records, stores those that are    *)
(* not older than the device's, and pushes the rest.  One profile and one  *)
(* provider account are modelled; a row carries the number of the edit it  *)
(* comes from.                                                             *)
(*                                                                         *)
(* Rows written before the first login live under NoAccount until          *)
(* start_session rekeys them.  The store behind the server is in memory,   *)
(* where an upsert is one step, or PostgreSQL, where it reads the stored   *)
(* timestamp and then writes.                                              *)
(***************************************************************************)
EXTENDS Integers, FiniteSets

CONSTANTS
  SpecDevices, Accounts, NoAccount,
  Skew,        \* device -> how far its clock is ahead
  MaxNow,
  Scenes       \* who is signed in, who acts on what, and how often

(* A clock may be ahead of another, and none is behind the first.          *)
ASSUME SpecsAssumption ==
  /\ NoAccount \notin Accounts
  /\ Skew \in [SpecDevices -> Nat]
  /\ \A s \in Scenes : /\ s.session \in [SpecDevices -> Accounts \cup {NoAccount}]
                        /\ s.actors \subseteq SpecDevices

RecordKinds == {"spec", "acct"}
AccountKeys == Accounts \cup {NoAccount}
NoRow == [at |-> 0, by |-> 0, del |-> FALSE, full |-> FALSE]
NoRows == [k \in RecordKinds |-> NoRow]

VARIABLES
  tab,       \* device -> account -> kind -> the device's row
  srv,       \* account -> kind -> the server's record
  session,   \* device -> the account signed in
  rekeying,  \* device -> a start_session that has yet to rekey
  proto,     \* device -> the account of the protocol client installed
  imported,  \* device -> the import marker
  skip,      \* device -> agent_spec_push_skip holds the profile
  sync,      \* device -> its sync_agent_specs
  job,       \* device -> its upsert at the server
  now, edits, syncs, starts, scene,
  clean,     \* device -> nothing it compares has changed since its sync began
  agreed,    \* device -> its last sync went through, and nothing changed since
  crossed    \* a sync has gone on after its account was switched

local == <<tab, imported, skip>>
server == <<srv, job, scene>>
who == <<session, rekeying, proto>>
limits == <<now, edits, syncs, starts>>
specVars == <<local, server, who, sync, limits, clean, agreed, crossed>>

NoSync == [pc |-> "idle"]
NoJob == [stage |-> "none"]
Now(d) == now + Skew[d]

(* A local change of a device, or of an owner's records on the server,     *)
(* spoils the comparison of the syncs that look at it.                     *)
Spoils(ds) ==
  /\ clean' = [d \in SpecDevices |-> clean[d] /\ d \notin ds]
  /\ agreed' = [d \in SpecDevices |-> agreed[d] /\ d \notin ds]
Dirty(d) == sync' = [sync EXCEPT ![d] = IF "dirty" \in DOMAIN @ THEN [@ EXCEPT !.dirty = TRUE]
                                        ELSE @]

-----------------------------------------------------------------------------
(* Edits on a device, under the account signed in. *)

AgentAccountKey(d) == session[d]
Stamped(d, row) == [row EXCEPT !.at = IF @ > 0 THEN @ ELSE Now(d)]
PutRow(d, a, k, row) == tab' = [tab EXCEPT ![d][a][k] = Stamped(d, row)]
LoadProfile(d, a) == tab[d][a]["spec"]
LoadAccount(d, a) == tab[d][a]["acct"]

UpsertRow(d, k) ==
  /\ edits < scene.edits /\ edits' = edits + 1
  /\ PutRow(d, AgentAccountKey(d), k,
            [at |-> 0, by |-> edits + 1, del |-> FALSE, full |-> TRUE])
  /\ Dirty(d) /\ Spoils({d})
  /\ UNCHANGED <<imported, skip, server, who, now, syncs, starts, crossed>>

(* A tombstone keeps the row and its body. *)
DeleteRow(d, k) ==
  /\ edits < scene.edits /\ edits' = edits + 1
  /\ LET a == AgentAccountKey(d) IN
     /\ tab[d][a][k].at > 0
     /\ tab' = [tab EXCEPT ![d][a][k] = [@ EXCEPT !.at = Now(d), !.del = TRUE, !.by = edits + 1]]
  /\ Dirty(d) /\ Spoils({d})
  /\ UNCHANGED <<imported, skip, server, who, now, syncs, starts, crossed>>

UpsertAgentProfile(d)    == UpsertRow(d, "spec")
UpsertProviderAccount(d) == UpsertRow(d, "acct")
DeleteAgentProfile(d)    == DeleteRow(d, "spec")
DeleteProviderAccount(d) == DeleteRow(d, "acct")

(* The profiles of the settings of an earlier version, once per device;    *)
(* they may lack a body.                                                   *)
ImportAgentProfiles(d) ==
  /\ ~imported[d] /\ imported' = [imported EXCEPT ![d] = TRUE]
  /\ edits < scene.edits /\ edits' = edits + 1
  /\ \E full \in BOOLEAN :
       PutRow(d, AgentAccountKey(d), "spec",
              [at |-> 0, by |-> edits + 1, del |-> FALSE, full |-> full])
  /\ Dirty(d) /\ Spoils({d})
  /\ UNCHANGED <<skip, server, who, now, syncs, starts, crossed>>

-----------------------------------------------------------------------------
(* The session. *)

(* The app starts and stops sessions one at a time. *)
StartSession(d, a) ==
  /\ rekeying[d] = NoAccount
  /\ starts < scene.starts /\ starts' = starts + 1
  /\ session' = [session EXCEPT ![d] = a] /\ proto' = [proto EXCEPT ![d] = a]
  /\ rekeying' = [rekeying EXCEPT ![d] = a]
  /\ Spoils({d})
  /\ UNCHANGED <<local, server, sync, now, edits, syncs, crossed>>

StopSession(d) ==
  /\ rekeying[d] = NoAccount
  /\ session[d] # NoAccount /\ session' = [session EXCEPT ![d] = NoAccount]
  /\ starts < scene.starts /\ starts' = starts + 1
  /\ Spoils({d})
  /\ UNCHANGED <<local, server, rekeying, proto, sync, now, edits, syncs, crossed>>

(* Mutant: the rows are copied and not deleted. *)
RekeyCopies(d) ==
  /\ rekeying[d] # NoAccount
  /\ LET a == rekeying[d] IN
     tab' = [tab EXCEPT ![d] = [@ EXCEPT
               ![a] = [k \in RecordKinds |-> IF tab[d][a][k].at > 0 THEN tab[d][a][k]
                                             ELSE tab[d][NoAccount][k]]]]
  /\ rekeying' = [rekeying EXCEPT ![d] = NoAccount]
  /\ Dirty(d) /\ Spoils({d})
  /\ UNCHANGED <<imported, skip, server, session, proto, limits, crossed>>

(* INSERT OR IGNORE: a row the account has already stays as it is. *)
Rekey(d) ==
  /\ rekeying[d] # NoAccount
  /\ LET a == rekeying[d] IN
     tab' = [tab EXCEPT ![d] = [@ EXCEPT
               ![a] = [k \in RecordKinds |-> IF tab[d][a][k].at > 0 THEN tab[d][a][k]
                                             ELSE tab[d][NoAccount][k]],
               ![NoAccount] = NoRows]]
  /\ rekeying' = [rekeying EXCEPT ![d] = NoAccount]
  /\ Dirty(d) /\ Spoils({d})
  /\ UNCHANGED <<imported, skip, server, session, proto, limits, crossed>>

-----------------------------------------------------------------------------
(* sync_agent_specs. *)

SyncAt(d, pc) == sync[d].pc = pc
SyncTo(d, r) == sync' = [sync EXCEPT ![d] = r]
SyncStep(d, pc) == SyncTo(d, [sync[d] EXCEPT !.pc = pc])
Crosses(d, a) == crossed' = (crossed \/ a # sync[d].of)
Still == <<local, server, who, limits>>
Steady == <<clean, agreed>>

(* The client of a session that was stopped refuses every request. *)
SyncStart(d) ==
  /\ SyncAt(d, "idle") /\ proto[d] # NoAccount /\ proto[d] = session[d]
  /\ syncs < scene.syncs /\ syncs' = syncs + 1
  /\ SyncTo(d, [pc |-> "asked", of |-> proto[d], remote |-> NoRows, key |-> NoAccount,
            push |-> NoRows, dirty |-> FALSE, failed |-> FALSE])
  /\ clean' = [clean EXCEPT ![d] = TRUE] /\ agreed' = [agreed EXCEPT ![d] = FALSE]
  /\ UNCHANGED <<local, server, who, now, edits, starts, crossed>>

(* The connection breaks, or the client is stopped, before the answer. *)
SyncFails(d) ==
  /\ SyncAt(d, "asked") /\ SyncTo(d, NoSync)
  /\ UNCHANGED <<Still, Steady, crossed>>

(* do_agent_spec_sync: the owner is the account of the connection. *)
ListSpec(owner)    == srv[owner]["spec"]
ListAccount(owner) == srv[owner]["acct"]
DoAgentSpecSync(owner) ==
  [k \in RecordKinds |-> IF k = "spec" THEN ListSpec(owner) ELSE ListAccount(owner)]

SyncAnswered(d) ==
  /\ SyncAt(d, "asked")
  /\ SyncTo(d, [sync[d] EXCEPT !.pc = "accounts", !.remote = DoAgentSpecSync(sync[d].of)])
  /\ UNCHANGED <<Still, Steady, crossed>>

NotOlder(remote, mine) == remote.at > 0 /\ remote.at >= mine.at

(* apply_remote_accounts reads the session again, and so does every store. *)
ApplyAccountsLoad(d) ==
  /\ SyncAt(d, "accounts")
  /\ SyncTo(d, [sync[d] EXCEPT !.dirty = FALSE,
              !.pc = IF NotOlder(sync[d].remote["acct"], LoadAccount(d, AgentAccountKey(d)))
                     THEN "store acct" ELSE "specs"])
  /\ Crosses(d, AgentAccountKey(d))
  /\ UNCHANGED <<Still, Steady>>

SpecsLoad(d) ==
  /\ SyncAt(d, "specs")
  /\ LET mine == LoadProfile(d, AgentAccountKey(d))
         take == NotOlder(sync[d].remote["spec"], mine) IN
     SyncTo(d, [sync[d] EXCEPT !.dirty = FALSE, !.key = AgentAccountKey(d),
              !.pc = IF take THEN "store spec" ELSE "pushes",
              !.push = [@ EXCEPT !["spec"] = IF take THEN NoRow ELSE mine]])
  /\ Crosses(d, AgentAccountKey(d))
  /\ UNCHANGED <<Still, Steady>>

Store(d, k, next) ==
  /\ PutRow(d, AgentAccountKey(d), k, sync[d].remote[k])
  /\ Crosses(d, AgentAccountKey(d))
  /\ SyncStep(d, next)
  /\ UNCHANGED <<imported, skip, server, who, limits, Steady>>

StoreAccount(d) == SyncAt(d, "store acct") /\ Store(d, "acct", "specs")
StoreSpec(d) == SyncAt(d, "store spec") /\ Store(d, "spec", "pushes")

AccountIsNewer(d, mine) == mine.at > 0 /\ sync[d].remote["acct"].at < mine.at

(* The accounts are loaded before the specs are pushed. *)
PushesLoad(d) ==
  /\ SyncAt(d, "pushes")
  /\ LET mine == LoadAccount(d, sync[d].key) IN
     SyncTo(d, [sync[d] EXCEPT !.pc = "push spec",
              !.push = [@ EXCEPT !["acct"] = IF AccountIsNewer(d, mine) THEN mine ELSE NoRow]])
  /\ UNCHANGED <<Still, Steady, crossed>>

SpecIsPushed(d) ==
  LET row == sync[d].push["spec"] IN row.at > 0 /\ row.full /\ ~skip[d]

(* AgentSpecUpsertReq: one record, sent over the connection of the account *)
(* the sync began with.                                                    *)
UpsertReq(d, k, row) ==
  job' = [job EXCEPT ![d] = [stage |-> "read", of |-> sync[d].of, kind |-> k, row |-> row,
                             seen |-> 0]]

AgentSpecUpsert(d, k, next) ==
  /\ job[d] = NoJob /\ UpsertReq(d, k, sync[d].push[k])
  /\ Crosses(d, sync[d].key)
  /\ SyncStep(d, next)
  /\ UNCHANGED <<local, srv, scene, who, limits, Steady>>

PushSpec(d) ==
  SyncAt(d, "push spec") /\ SpecIsPushed(d) /\ AgentSpecUpsert(d, "spec", "wait spec")

PushNoSpec(d) ==
  /\ SyncAt(d, "push spec") /\ ~SpecIsPushed(d)
  /\ SyncStep(d, "push acct")
  /\ UNCHANGED <<Still, Steady, crossed>>

PushAccount(d) ==
  SyncAt(d, "push acct") /\ sync[d].push["acct"].at > 0 /\ AgentSpecUpsert(d, "acct", "wait acct")

(* Only what NotConnected, Busy or a rate limit stopped is tried again: a  *)
(* connection that breaks under the request, or a failing backend, puts    *)
(* the profile on the skip list for the life of the process.               *)
PushFails(d) ==
  \/ /\ SyncAt(d, "wait spec")
     /\ \E retryable \in BOOLEAN : skip' = [skip EXCEPT ![d] = @ \/ ~retryable]
     /\ SyncTo(d, [sync[d] EXCEPT !.pc = "push acct", !.failed = TRUE])
     /\ UNCHANGED <<tab, imported, server, who, limits, Steady, crossed>>
  \/ /\ SyncAt(d, "wait acct")
     /\ SyncTo(d, [sync[d] EXCEPT !.pc = "end", !.failed = TRUE])
     /\ UNCHANGED <<Still, Steady, crossed>>

PushAnswered(d) ==
  /\ job[d].stage = "done"
  /\ job' = [job EXCEPT ![d] = NoJob]
  /\ \/ SyncAt(d, "wait spec") /\ job[d].kind = "spec" /\ SyncStep(d, "push acct")
     \/ SyncAt(d, "wait acct") /\ job[d].kind = "acct" /\ SyncStep(d, "end")
     \/ ~(SyncAt(d, "wait spec") /\ job[d].kind = "spec")
        /\ ~(SyncAt(d, "wait acct") /\ job[d].kind = "acct") /\ UNCHANGED sync
  /\ UNCHANGED <<local, srv, scene, who, limits, Steady, crossed>>

SyncEnds(d) ==
  /\ SyncAt(d, "end") \/ (SyncAt(d, "push acct") /\ sync[d].push["acct"].at = 0)
  /\ agreed' = [agreed EXCEPT ![d] = clean[d] /\ ~sync[d].failed]
  /\ SyncTo(d, NoSync)
  /\ UNCHANGED <<Still, clean, crossed>>

Sync(d) == \/ SyncStart(d) \/ SyncFails(d) \/ SyncAnswered(d)
           \/ ApplyAccountsLoad(d) \/ StoreAccount(d) \/ SpecsLoad(d) \/ StoreSpec(d)
           \/ PushesLoad(d) \/ PushSpec(d) \/ PushNoSpec(d) \/ PushAccount(d)
           \/ PushFails(d) \/ PushAnswered(d) \/ SyncEnds(d)

-----------------------------------------------------------------------------
(* do_agent_spec_upsert: the owner is the account of the connection.       *)

Awaits(d, k) == SyncAt(d, IF k = "spec" THEN "wait spec" ELSE "wait acct")

Record(d) ==
  LET j == job[d] IN
  /\ srv' = [srv EXCEPT ![j.of][j.kind] = j.row]
  /\ job' = [job EXCEPT ![d].stage = "done"]
  /\ IF srv[j.of][j.kind] = j.row THEN UNCHANGED Steady
     ELSE Spoils({e \in SpecDevices : session[e] = j.of
                    /\ (e # d \/ ~Awaits(d, j.kind))})

(* Mutant: an older record is stored as well. *)
KeepAny(mine, stored) == TRUE

KeepNewer(mine, stored) == mine.at >= stored.at

UpsertMemory(d) ==
  /\ job[d].stage = "read" /\ scene.backend = "memory"
  /\ IF KeepNewer(job[d].row, srv[job[d].of][job[d].kind])
     THEN Record(d)
     ELSE job' = [job EXCEPT ![d].stage = "done"] /\ UNCHANGED <<srv, Steady>>
  /\ UNCHANGED <<local, scene, who, sync, limits, crossed>>

UpsertPgRead(d) ==
  /\ job[d].stage = "read" /\ scene.backend = "postgres"
  /\ LET stored == srv[job[d].of][job[d].kind] IN
     job' = [job EXCEPT ![d].stage = IF KeepNewer(job[d].row, stored) THEN "write" ELSE "done",
                        ![d].seen = stored.at]
  /\ UNCHANGED <<local, srv, scene, who, sync, limits, Steady, crossed>>

(* ON CONFLICT DO UPDATE, without looking at the timestamp again. *)
UpsertPgWrite(d) ==
  /\ job[d].stage = "write" /\ Record(d)
  /\ UNCHANGED <<local, scene, who, sync, limits, crossed>>

Serve(d) == UpsertMemory(d) \/ UpsertPgRead(d) \/ UpsertPgWrite(d)

Tick ==
  /\ now < MaxNow /\ now' = now + 1
  /\ UNCHANGED <<local, server, who, sync, edits, syncs, starts, Steady, crossed>>

-----------------------------------------------------------------------------
SpecsInit ==
  /\ tab = [d \in SpecDevices |-> [a \in AccountKeys |-> NoRows]]
  /\ srv = [a \in Accounts |-> NoRows]
  /\ scene \in Scenes /\ session = scene.session /\ proto = session
  /\ rekeying = [d \in SpecDevices |-> NoAccount]
  /\ imported = [d \in SpecDevices |-> scene.imported] /\ skip = [d \in SpecDevices |-> FALSE]
  /\ sync = [d \in SpecDevices |-> NoSync] /\ job = [d \in SpecDevices |-> NoJob]
  /\ now = 1 /\ edits = 0 /\ syncs = 0 /\ starts = 0
  /\ clean = [d \in SpecDevices |-> FALSE] /\ agreed = [d \in SpecDevices |-> FALSE]
  /\ crossed = FALSE

SpecsNext ==
  \/ Tick
  \/ \E d \in scene.actors :
       \/ /\ "spec" \in scene.kinds
          /\ UpsertAgentProfile(d) \/ DeleteAgentProfile(d) \/ ImportAgentProfiles(d)
       \/ /\ "acct" \in scene.kinds
          /\ UpsertProviderAccount(d) \/ DeleteProviderAccount(d)
       \/ \E a \in Accounts : StartSession(d, a)
       \/ StopSession(d) \/ Rekey(d)
       \/ Sync(d) \/ Serve(d)

SpecsSpec == SpecsInit /\ [][SpecsNext]_specVars

-----------------------------------------------------------------------------
(* A sync brings device and server together: after one that ran to its end *)
(* without an error, and as long as nothing has been edited, pushed or     *)
(* switched since it began, the device holds what the server holds.        *)
(* Profiles without a body and those on the skip list stay behind.         *)
InStep ==
  \A d \in SpecDevices : agreed[d] =>
    LET mine == tab[d][session[d]]
        theirs == srv[session[d]]
    IN /\ mine["acct"] = theirs["acct"]
       /\ mine["spec"].at > theirs["spec"].at => skip[d] \/ ~mine["spec"].full
       /\ mine["spec"].at <= theirs["spec"].at => mine["spec"] = theirs["spec"]

Places ==
  UNION {{<<a, k, tab[d][a][k].by>> : d \in SpecDevices, a \in AccountKeys, k \in RecordKinds},
         {<<a, k, srv[a][k].by>> : a \in Accounts, k \in RecordKinds}}

(* What was written for one account is found under no other account, on    *)
(* no device and not at the server, unless the session was switched while  *)
(* a sync was running: each of its steps asks anew who is signed in.       *)
SpecsStayHome ==
  ~crossed => \A x, y \in Places : x[2] = y[2] /\ x[3] = y[3] /\ x[3] > 0 => x[1] = y[1]

(* A sync that runs to its end leaves device and server with the same      *)
(* records (sync_agent_specs), and records stay with the account they were *)
(* written for (start_session, agent_account_key).                         *)
SpecsSynced == InStep /\ SpecsStayHome

(* The newer record wins: a sync replaces a row by an older one only if    *)
(* the row was edited between its load and its store, and the server only  *)
(* if the record changed between the two statements of an upsert.          *)
NewerWins ==
  [][/\ \A d \in SpecDevices, a \in Accounts, k \in RecordKinds :
          tab'[d][a][k].at < tab[d][a][k].at =>
            edits' # edits \/ sync[d].dirty \/ crossed'
     /\ \A a \in Accounts, k \in RecordKinds :
          srv'[a][k].at < srv[a][k].at =>
            \E d \in SpecDevices : job[d].stage = "write" /\ job[d].seen # srv[a][k].at]_specVars
=============================================================================
