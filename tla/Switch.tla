------------------------------- MODULE Switch -------------------------------
(***************************************************************************)
(* Mode = switch: how the daemons learn behind which of them a station is  *)
(* (route_mac, learn_mac and age_subnets of route.c), tell each other with *)
(* ADD_SUBNET and DEL_SUBNET (protocol_subnet.c), and look an address up   *)
(* through the cache (lookup_subnet_mac of subnet.c).                      *)
(*                                                                         *)
(* The connections stay up and form a tree, every node is reachable and no *)
(* MAC address is configured as a Subnet: every entry has been learned and *)
(* every node floods it to the others.  A subnet is told by its owner and  *)
(* its address.  own[n][x] is the entry the node n itself has for x: "no", *)
(* "fresh" while expires lies ahead, "due" once it is past.                *)
(***************************************************************************)
EXTENDS Integers, Sequences, FiniteSets, FiniteSetsExt, SequencesExt

CONSTANTS
  Nodes, Links,    \* names, which are compared, and the pairs that have a connection
  Places,          \* the nodes a station can be behind
  Stations, None,
  Roamers,         \* the stations that go to another node, or do not send for
                   \* macexpire seconds
  MaxEvents        \* and how often they do

VARIABLES
  where,           \* the node a station is behind
  own, known,      \* the entries of a node that are its own, and the other owners it knows
  cache,           \* mac_cache: the owner of the entry a node has cached
  armed,           \* age_subnets_timeout is set
  chan, events

vars == <<where, own, known, cache, armed, chan, events>>

Neighbours(n) == {m \in Nodes : {m, n} \in Links}
Pairs == {p \in Nodes \X Nodes : {p[1], p[2]} \in Links}
Owners(n, x) == known[n][x] \cup (IF own[n][x] # "no" THEN {n} ELSE {})

Init ==
  /\ where \in [Stations -> Places]
  /\ own = [n \in Nodes |-> [x \in Stations |-> "no"]]
  /\ known = [n \in Nodes |-> [x \in Stations |-> {}]]
  /\ cache = [n \in Nodes |-> [x \in Stations |-> None]]
  /\ armed = [n \in Nodes |-> FALSE]
  /\ chan = [p \in Pairs |-> <<>>]
  /\ events = 0

(* lookup_subnet_mac, for all owners: the subnets of one address have the    *)
(* same weight, so the first in the tree is the one whose owner's name is    *)
(* the least.  For the owner n alone there is at most the entry of n; the    *)
(* cache is asked before the owner is.                                       *)
Search(n, x) == IF Owners(n, x) = {} THEN None ELSE Min(Owners(n, x))
Lookup(c, n, x) == IF c[x] # None THEN c[x] ELSE Search(n, x)
LookupOwn(n, x) ==
  IF cache[n][x] # None THEN cache[n][x] ELSE IF own[n][x] # "no" THEN n ELSE None

Flushed == [x \in Stations |-> None]    \* subnet_cache_flush

(* The requests a sends: to all but one of its neighbours. *)
Sent(a, but, requests) ==
  [p \in Pairs |-> IF p[1] = a /\ p[2] # but THEN chan[p] \o requests ELSE chan[p]]

(* learn_mac: an address that is not known yet is stored and told to all; of *)
(* an entry of our own the time is extended.  An entry found in the cache    *)
(* may be the one of another node: then there is nothing to do.              *)
Learned(r) == r # None
learn_mac(n, x) ==
  LET r == LookupOwn(n, x)
  IN IF ~Learned(r)
     THEN /\ own' = [own EXCEPT ![n][x] = "fresh"]
          /\ armed' = [armed EXCEPT ![n] = TRUE]
          /\ chan' = Sent(n, None, <<[req |-> "ADD_SUBNET", owner |-> n, mac |-> x]>>)
     ELSE /\ own' = IF r = n THEN [own EXCEPT ![n][x] = "fresh"] ELSE own
          /\ UNCHANGED <<armed, chan>>
AfterLearning(n, x) ==
  LET r == LookupOwn(n, x) IN IF Learned(r) THEN [cache[n] EXCEPT ![x] = r] ELSE Flushed

(* route_mac: a frame from the station x, which comes from our own device,   *)
(* is learned from first.  The destination y is looked up and the frame sent *)
(* to its owner, or to everybody if there is none (y = None).                *)
Cached(c, n, y) == IF y = None THEN c ELSE [c EXCEPT ![y] = Lookup(c, n, y)]
FromDevice(n, x, y) ==
  /\ where[x] = n
  /\ learn_mac(n, x)
  /\ cache' = [cache EXCEPT ![n] = Cached(AfterLearning(n, x), n, y)]
  /\ UNCHANGED <<where, known, events>>
FromPeer(n, y) ==
  /\ cache' = [cache EXCEPT ![n] = Cached(@, n, y)]
  /\ UNCHANGED <<where, own, known, armed, chan, events>>

(* age_subnets: the entries that have expired are deleted, everybody is      *)
(* told, and the timer is set again while there are others left.  The        *)
(* definitions called Mut... are faults a property must detect; the          *)
(* specification does not use them.                                          *)
MutDeletions(n, old) == <<>>
Deletions(n, old) == SetToSeq({[req |-> "DEL_SUBNET", owner |-> n, mac |-> x] : x \in old})
StillArmed(n) == \E x \in Stations : own[n][x] = "fresh"
AgeSubnets(n) ==
  LET old == {x \in Stations : own[n][x] = "due"}
  IN /\ armed[n]
     /\ own' = [own EXCEPT ![n] = [x \in Stations |-> IF x \in old THEN "no" ELSE @[x]]]
     /\ cache' = IF old = {} THEN cache ELSE [cache EXCEPT ![n] = Flushed]
     /\ armed' = [armed EXCEPT ![n] = StillArmed(n)]
     /\ chan' = Sent(n, None, Deletions(n, old))
     /\ UNCHANGED <<where, known, events>>

(* add_subnet_h and del_subnet_h of b, for a request a has sent.  An entry   *)
(* that is known already is not forwarded; nobody forwards one to its owner. *)
(* "Fast handoff of roaming MAC addresses": our own entry is due at once.    *)
Handoff(b, x) == IF own[b][x] = "no" THEN "no" ELSE "due"
add_subnet_h(a, b, m) ==
  IF m.owner \in known[b][m.mac] THEN chan' = [chan EXCEPT ![<<a, b>>] = Tail(@)]
                                      /\ UNCHANGED <<own, known, cache>>
  ELSE /\ known' = [known EXCEPT ![b][m.mac] = @ \cup {m.owner}]
       /\ own' = [own EXCEPT ![b][m.mac] = Handoff(b, m.mac)]
       /\ cache' = [cache EXCEPT ![b] = Flushed]
       /\ chan' = [Sent(b, a, <<m>>) EXCEPT ![<<a, b>>] = Tail(@)]
Forgotten(b) == [cache EXCEPT ![b] = Flushed]
del_subnet_h(a, b, m) ==
  IF m.owner \notin known[b][m.mac] THEN chan' = [chan EXCEPT ![<<a, b>>] = Tail(@)]
                                         /\ UNCHANGED <<known, cache>>
  ELSE /\ known' = [known EXCEPT ![b][m.mac] = @ \ {m.owner}]
       /\ cache' = Forgotten(b)
       /\ chan' = [Sent(b, a, <<m>>) EXCEPT ![<<a, b>>] = Tail(@)]
Receive(a, b) ==
  /\ chan[<<a, b>>] # <<>>
  /\ LET m == Head(chan[<<a, b>>])
     IN \/ m.req = "ADD_SUBNET" /\ add_subnet_h(a, b, m)
        \/ m.req = "DEL_SUBNET" /\ del_subnet_h(a, b, m) /\ UNCHANGED own
  /\ UNCHANGED <<where, armed, events>>

(* macexpire seconds pass since an entry was stored or extended: because the *)
(* station has gone, because what it sends extends nothing, or because it    *)
(* does not send.  They are more than a request and age_subnets take.        *)
Idle ==
  /\ \A p \in Pairs : chan[p] = <<>>
  /\ \A n \in Nodes, x \in Stations : own[n][x] # "due"
Heard(n, x) == where[x] = n /\ cache[n][x] \in {None, n}
Expire(n, x) ==
  /\ own[n][x] = "fresh" /\ Idle
  /\ own' = [own EXCEPT ![n][x] = "due"]
  /\ UNCHANGED <<where, known, cache, armed, chan>>
Elapse(n, x) == ~Heard(n, x) /\ Expire(n, x) /\ UNCHANGED events
Silence(n, x) ==
  /\ events < MaxEvents /\ x \in Roamers /\ Heard(n, x)
  /\ Expire(n, x)
  /\ events' = events + 1

Move(x, n) ==
  /\ events < MaxEvents /\ x \in Roamers /\ n \in Places \ {where[x]}
  /\ where' = [where EXCEPT ![x] = n]
  /\ events' = events + 1
  /\ UNCHANGED <<own, known, cache, armed, chan>>

(* hash_insert: the cache has one entry for all the addresses with one hash. *)
Evict(n, x) ==
  /\ cache[n][x] # None
  /\ cache' = [cache EXCEPT ![n][x] = None]
  /\ UNCHANGED <<where, own, known, armed, chan, events>>

Next ==
  \/ \E n \in Nodes, x \in Stations, y \in Stations \cup {None} : y # x /\ FromDevice(n, x, y)
  \/ \E n \in Nodes, y \in Stations : FromPeer(n, y)
  \/ \E n \in Nodes : AgeSubnets(n)
  \/ \E p \in Pairs : Receive(p[1], p[2])
  \/ \E n \in Nodes, x \in Stations : Elapse(n, x) \/ Silence(n, x) \/ Move(x, n) \/ Evict(n, x)

(* A station keeps sending, QUIC delivers, the event loop runs its timers    *)
(* and time passes.                                                          *)
Fairness ==
  /\ \A n \in Nodes, x \in Stations : WF_vars(FromDevice(n, x, None)) /\ SF_vars(Elapse(n, x))
  /\ \A n \in Nodes : WF_vars(AgeSubnets(n))
  /\ \A p \in Pairs : WF_vars(Receive(p[1], p[2]))

Spec == Init /\ [][Next]_vars /\ Fairness

TypeOK ==
  /\ where \in [Stations -> Nodes]
  /\ own \in [Nodes -> [Stations -> {"no", "fresh", "due"}]]
  /\ known \in [Nodes -> [Stations -> SUBSET Nodes]]
  /\ cache \in [Nodes -> [Stations -> Nodes \cup {None}]]
  /\ armed \in [Nodes -> BOOLEAN]
  /\ events \in 0..MaxEvents

(* A station that stays and sends is found: in the end every other node      *)
(* sends its frames to the node it is behind, whatever was learned before    *)
(* and wherever the cache kept a node from learning.                         *)
StationFound ==
  \A x \in Stations :
    <>[](\A n \in Nodes \ {where[x]} : Lookup(cache[n], n, x) = where[x])
=============================================================================
