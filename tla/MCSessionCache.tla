--------------------------- MODULE MCSessionCache ---------------------------
(***************************************************************************)
(* Small instances of SessionCache and of Container for TLC, in one run.   *)
(* The cache and the container of a chat process share nothing: every      *)
(* behaviour is one of the one module or of the other, as part says, with  *)
(* the other at rest.  The cache is looked at twice: one account on one    *)
(* connection with writers in this process and in others, and two          *)
(* accounts looked up together by one call.                                *)
(***************************************************************************)
EXTENDS SessionCache, Container, TLC

CONSTANTS a1, a2, c1, c2, i1, i2

VARIABLE part

TwoAccounts == (c1 :> a1) @@ (c2 :> a2)

\* The naming service lists one of the instances or none.
OneOrNone == {{}, {i1}, {i2}}

\* The region router that sends clients to the gateways naming lists.
L == INSTANCE Lookup

ASSUME LookupAssumption == L!LookupSound

\* One account on one channel, with every kind of writer and lookup.
OneAccountOnly ==
  /\ loc \cup deleted \subseteq {c1}
  /\ \A f \in Fills : misses[f] \subseteq {a1}
  /\ \A g \in Gets : gpc[g] # "idle" => gch[g] = c1

\* One call that looks up two accounts while a handler of this process writes;
\* every invalidation arrives.
OneFillOfTwo ==
  /\ \A w \in RemoteWriters : wpc[w] = "idle"
  /\ Cardinality({f \in Fills : fpc[f] # "idle"}) <= 1
  /\ \A g \in Gets : gpc[g] = "idle"
  /\ sub = "up" /\ missed = {}

MCInit ==
  /\ Init /\ ContainerInit
  /\ \/ part \in {"one", "two"} /\ up = {} /\ catalog = {}
     \/ part = "container"

MCNext ==
  \/ part = "one" /\ Next /\ OneAccountOnly' /\ UNCHANGED <<part, containerVars>>
  \/ part = "two" /\ Next /\ OneFillOfTwo' /\ UNCHANGED <<part, containerVars>>
  \/ part = "container" /\ ContainerNext /\ UNCHANGED <<part, vars>>

MCSpec == MCInit /\ [][MCNext]_<<part, vars, containerVars>>

\* Fills are interchangeable, and so are connections; a connection that nothing
\* refers to is a free one.
Symmetry == Permutations(Conns) \cup Permutations(Fills)

View == <<part, vars, up, moves, catalog, watch, wanted, dialing, slots, adult,
          Swept(Conns \ InUse), timers, walker,
          boot, halt, listed, server>>
=============================================================================
