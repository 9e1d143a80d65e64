------------------------------- MODULE Lookup -------------------------------
(***************************************************************************)
(* The region router: GET /api/lookup tells a client which gateways to     *)
(* dial.  The client's address gives a country, the country a region, the  *)
(* hash of the account an IDC of the region and a gateway of the IDC.      *)
(*                                                                         *)
(* A net is the router's configuration and what naming lists: regions, the *)
(* default one, which region a country belongs to, and for each IDC its    *)
(* websocket and TCP gateways in the order naming gives them.  A hash is a *)
(* number; the same one picks the IDC and the gateways.                    *)
(***************************************************************************)
EXTENDS Integers, FiniteSets, SequencesExt

Idc(id, weight) == [id |-> id, weight |-> weight]

(* Loopback and unknown addresses are at the default location. *)
country(net, ip) == IF ip \in DOMAIN net.ips THEN net.ips[ip] ELSE net.location

region_of(net, place) ==
  IF place \in DOMAIN net.mapping THEN net.mapping[place] ELSE net.default

(* As many slots for an IDC as its weight says. *)
build_slots(idcs) == FlattenSeq([i \in 1..Len(idcs) |-> [j \in 1..idcs[i].weight |-> i]])

Nth(list, hash) == list[(hash % Len(list)) + 1]

(* Without a weight the first IDC is taken. *)
pick_idc(idcs, hash) ==
  IF build_slots(idcs) = <<>> THEN idcs[1].id ELSE idcs[Nth(build_slots(idcs), hash)].id

find(net, service, idc) == IF idc \in DOMAIN net[service] THEN net[service][idc] ELSE <<>>

NoGateway == [error |-> "NoGateway"]
BadConfig == [error |-> "BadConfig"]
Unauthorized == [error |-> "Unauthorized"]
Other == [error |-> "Other"]
Resp(ws, tcp) == [error |-> "", ws |-> ws, tcp |-> tcp]

pick_gateways(net, idc, hash) ==
  LET ws == find(net, "wgateway", idc)
      tcp == find(net, "tgateway", idc)
  IN IF ~net.naming THEN Other
     ELSE IF ws = <<>> THEN NoGateway
     ELSE Resp(Nth(ws, hash), IF tcp = <<>> THEN "" ELSE Nth(tcp, hash))

(* A token counts if it is signed and of this app; without one the address *)
(* is hashed.  A token may be absent.                                      *)
hash_key(token) == token \in {"none", "good"}

(* The first IDC of the default region stands in, and no other does. *)
fallback(net, hash) ==
  IF net.default \notin DOMAIN net.regions \/ net.regions[net.default] = <<>> THEN NoGateway
  ELSE pick_gateways(net, net.regions[net.default][1].id, hash)

lookup(net, ip, token, hash) ==
  LET region == region_of(net, country(net, ip))
      first == pick_gateways(net, pick_idc(net.regions[region], hash), hash)
  IN IF region \notin DOMAIN net.regions THEN BadConfig
     ELSE IF ~hash_key(token) THEN Unauthorized
     ELSE IF net.regions[region] = <<>> THEN BadConfig
     ELSE IF first = NoGateway THEN fallback(net, hash) ELSE first

handle(net, ip, token, hash) ==
  LET r == lookup(net, ip, token, hash)
  IN CASE r.error = ""             -> 200
       [] r.error = "NoGateway"    -> 503
       [] r.error = "Unauthorized" -> 401
       [] OTHER                    -> 500

-----------------------------------------------------------------------------
(* Nets to look at: a region of two weighted IDCs and a default region,    *)
(* any of the three without gateways, TCP gateways in one of them or none; *)
(* a country whose region is not configured, and one with no IDC.          *)
Gates(idc, n) == [i \in 1..n |-> <<idc, i>>]
Weights == {<<0, 0>>, <<1, 1>>, <<2, 1>>, <<3, 0>>, <<3, 2>>}
Hashes == 0..29
Net(w, up, tcp, naming) ==
  [ips |-> [ip \in {"far", "lost", "bare"} |-> ip], location |-> "home", default |-> "main",
   mapping |-> [far |-> "east", lost |-> "nowhere", bare |-> "empty"],
   regions |-> [main |-> <<Idc("m1", 0), Idc("m2", 1)>>, empty |-> <<>>,
                east |-> <<Idc("e1", w[1]), Idc("e2", w[2])>>],
   wgateway |-> [d \in up |-> Gates(d, 2)], tgateway |-> [d \in tcp |-> Gates(d, 3)],
   naming |-> naming]
Idcs == {"m1", "m2", "e1", "e2"}
Nets == {Net(w, up, tcp, TRUE) : w \in Weights, up \in SUBSET Idcs, tcp \in {{}, {"m1", "e1"}}}
        \cup {Net(<<1, 1>>, Idcs, {}, FALSE)}

(* Both gateways of an answer are of one IDC, so that a client that falls  *)
(* back from one to the other keeps its region.                            *)
OneIdc ==
  \A net \in Nets, ip \in {"far", "here"}, h \in Hashes :
    LET r == lookup(net, ip, "good", h)
    IN r.error = "" => \/ r.tcp = "" /\ find(net, "tgateway", r.ws[1]) = <<>>
                       \/ r.tcp # "" /\ r.tcp[1] = r.ws[1]

(* Where the first IDC of the default region has a gateway, every client   *)
(* of a configured region with a good token or none is sent to one; that   *)
(* IDC serves even if its weight is 0.  Otherwise a client whose IDC is    *)
(* empty is refused, although other IDCs of its region may be up.          *)
ServedIfDefaultUp ==
  \A net \in Nets, ip \in {"far", "here"}, token \in {"good", "none", "bad"}, h \in Hashes :
    LET status == handle(net, ip, token, h)
        mine == pick_idc(net.regions[region_of(net, country(net, ip))], h)
        up == DOMAIN net.wgateway
    IN IF token = "bad" THEN status = 401 ELSE IF ~net.naming THEN status = 500
       ELSE IF "m1" \in up \/ mine \in up THEN status = 200 ELSE status = 503

(* IDCs get clients in the proportion of their weights. *)
InProportion ==
  \A w \in Weights : w[1] + w[2] > 0 =>
    LET idcs == <<Idc("e1", w[1]), Idc("e2", w[2])>>
        total == w[1] + w[2]
        share(i) == Cardinality({h \in 0..(4 * total - 1) : pick_idc(idcs, h) = idcs[i].id})
    IN share(1) = 4 * w[1] /\ share(2) = 4 * w[2]

(* The gateways of one IDC, of which there are n, are all used if the IDC  *)
(* has n slots or more.  With fewer they may not be: the hash that chose   *)
(* the IDC chooses the gateway too, and with weights 1 and 1 it is always  *)
(* the same of two.                                                        *)
Used(w, n) ==
  {Nth(Gates("e1", n), h) : h \in {h \in Hashes : pick_idc(<<Idc("e1", w[1]), Idc("e2", w[2])>>, h) = "e1"}}
AllUsed ==
  /\ \A w \in Weights, n \in 1..3 : w[1] >= n => Cardinality(Used(w, n)) = n
  /\ Cardinality(Used(<<1, 1>>, 2)) = 1

(* A configuration error is the router's, whatever the token. *)
Misconfigured ==
  \A net \in Nets, h \in Hashes :
    /\ \A token \in {"good", "bad"} : handle(net, "lost", token, h) = 500
    /\ handle(net, "bare", "good", h) = 500 /\ handle(net, "bare", "bad", h) = 401

LookupSound == OneIdc /\ ServedIfDefaultUp /\ InProportion /\ AllUsed /\ Misconfigured
=============================================================================
