------------------------------ MODULE Routing ------------------------------
(***************************************************************************)
(* Mode = router: what a daemon does with a packet for an address (route_- *)
(* ipv4, route_ipv6, route_arp and route_neighborsol of route.c, which all *)
(* ask lookup_subnet_ipv4 or lookup_subnet_ipv6 of subnet.c), while other  *)
(* code changes the subnets and the graph.                                 *)
(*                                                                         *)
(* A packet from the device is routed by the main thread, one from a peer  *)
(* by a worker of MsQuic (receive_packet, called in quic.c), and there is  *)
(* no lock.  A lookup, the insertion into the cache and the use of what    *)
(* was found are three steps.  A subnet is a record of its address, the    *)
(* length of its prefix, its weight and its owner; None owns the subnets   *)
(* for broadcasts.                                                         *)
(***************************************************************************)
EXTENDS Integers, FiniteSets

CONSTANTS
  Nodes, Me, None,
  Bits,          \* the length of an address
  Subnets,       \* the subnets that may be known
  Slot,          \* the place of an address in the cache, by hash_function
  Topologies,    \* the results graph() may have: up, via and nexthop
  Settings       \* the values of Forwarding, DirectOnly and DecrementTTL

Threads == {"main", "worker"}
Addresses == 0..2^Bits - 1

(* A name is a number; the difference of two weights, by which               *)
(* subnet_compare orders them, fits an int.                                  *)
ASSUME BitsAssumption == Bits \in Nat
ASSUME NodesAssumption ==
  /\ Nodes \subseteq Nat \ {0} /\ IsFiniteSet(Nodes) /\ Me \in Nodes
  /\ None \notin Nodes /\ None \notin Subnets /\ None \notin [addr : Addresses, subnet : Subnets]
ASSUME SubnetsAssumption ==
  Subnets \subseteq [addr : Addresses, len : 0..Bits, weight : -(2^30)..2^30 - 1,
                     owner : Nodes \cup {None}]
ASSUME SettingsAssumption ==
  Settings \subseteq [forwarding : {"internal", "off", "kernel"}, directonly : BOOLEAN, decrement_ttl : BOOLEAN]

VARIABLES
  subnets,       \* subnet_tree
  cache,         \* ipv4_cache: an address and a subnet for each place, or None
  topo,
  change,        \* what the main thread is in the middle of
  thread,        \* where each thread is, with its packet and the subnet it found
  raced          \* the worker was routing while the main thread changed something

vars == <<subnets, cache, topo, change, thread, raced>>

Off == [pc |-> "off", src |-> None, dst |-> 0, found |-> None]
Sources(t) == IF t = "main" THEN {Me} ELSE Nodes \ {Me}
Flushed == [k \in {Slot[a] : a \in Addresses} |-> None]    \* subnet_cache_flush

Init ==
  /\ subnets \in SUBSET Subnets
  /\ cache = Flushed
  /\ topo \in Topologies
  /\ change = "none"
  /\ thread = [t \in Threads |-> Off]
  /\ raced = FALSE

(* maskcmp, and subnet_compare: longer prefixes come first. *)
Matches(s, a) == LET m == 2^(Bits - s.len) IN a \div m = s.addr \div m
Name(o) == IF o = None THEN 0 ELSE o
Compare(s, t) ==
  \/ s.len > t.len
  \/ s.len = t.len /\ s.addr < t.addr
  \/ s.len = t.len /\ s.addr = t.addr /\ s.weight < t.weight
  \/ s.len = t.len /\ s.addr = t.addr /\ s.weight = t.weight /\ Name(s.owner) < Name(t.owner)
First(S) == CHOOSE s \in S : \A t \in S \ {s} : Compare(s, t)
Last(S) == CHOOSE s \in S : \A t \in S \ {s} : Compare(t, s)

(* lookup_subnet_ipv4 without the cache: the first that matches and whose    *)
(* owner is reachable, or else the last that matches.                        *)
Reachable(s) == s.owner = None \/ s.owner \in topo.up
MutSearch(a) ==
  LET all == {s \in subnets : Matches(s, a)} IN IF all # {} THEN First(all) ELSE None
Search(a) ==
  LET all == {s \in subnets : Matches(s, a)}
      good == {s \in all : Reachable(s)}
  IN IF good # {} THEN First(good) ELSE IF all # {} THEN Last(all) ELSE None

Hit(a) == LET c == cache[Slot[a]] IN IF c # None /\ c.addr = a THEN c.subnet ELSE None

(***************************************************************************)
(* The threads that route.                                                 *)
(***************************************************************************)
Overlaps(ch, th) == ch # "none" /\ th["worker"].pc # "off"

(* Only what was found is inserted.  The definitions called Mut... are       *)
(* faults a property must detect; the specification does not use them.       *)
Stored(hit, r) == hit = None /\ r # None

(* handle_device_data, or receive_packet: the address is looked for in the   *)
(* cache, and then in the tree.                                              *)
Lookup(t) ==
  /\ thread[t].pc = "off" /\ (t = "main" => change = "none")
  /\ \E src \in Sources(t), a \in Addresses :
       LET hit == Hit(a)
           r == IF hit # None THEN hit ELSE Search(a)
       IN thread' = [thread EXCEPT ![t] =
            [pc |-> IF Stored(hit, r) THEN "insert" ELSE "use",
             src |-> src, dst |-> a, found |-> r]]
  /\ raced' = (raced \/ Overlaps(change, thread'))
  /\ UNCHANGED <<subnets, cache, topo, change>>

(* hash_insert: whatever had this place in the cache goes. *)
Insert(t) ==
  /\ thread[t].pc = "insert"
  /\ cache' = [cache EXCEPT ![Slot[thread[t].dst]] =
                 [addr |-> thread[t].dst, subnet |-> thread[t].found]]
  /\ thread' = [thread EXCEPT ![t].pc = "use"]
  /\ UNCHANGED <<subnets, topo, change, raced>>

(* What route makes of a packet p from src whose destination is in the       *)
(* subnet s: it is sent to the owner, to everybody, or in pieces, dropped,   *)
(* or answered with an ICMP error.  p has a time to live that is used up, is *)
(* larger than the MTU of the path, or says "do not fragment".               *)
Verdict(what, to) == [what |-> what, to |-> to]
Dropped == Verdict("drop", None)
Unreachable(src) == Verdict("error", src)
TooBig(src, via, p) == IF p.df THEN Unreachable(src) ELSE Verdict("fragments", via)
Via(o) == IF topo.via[o] = Me THEN topo.nexthop[o] ELSE topo.via[o]
Forwarded(s, src) == src # Me /\ s.owner # Me
TimeExceeded(s, src, p, conf) == conf.decrement_ttl /\ Forwarded(s, src) /\ p.ttl
Known(s, src, p, conf) ==
  CASE s.owner = src -> Dropped
    [] s.owner # src /\ s.owner \notin topo.up -> Unreachable(src)
    [] OTHER ->
  CASE conf.forwarding = "off" /\ Forwarded(s, src) -> Unreachable(src)
    [] conf.forwarding # "off" /\ TimeExceeded(s, src, p, conf) -> Unreachable(src)
    [] OTHER ->
  CASE Via(s.owner) = src -> Dropped
    [] Via(s.owner) # src /\ conf.directonly /\ s.owner # Via(s.owner) -> Unreachable(src)
    [] OTHER -> IF p.big /\ Via(s.owner) # Me THEN TooBig(src, Via(s.owner), p)
                ELSE Verdict("send", s.owner)
route_ipv4(s, src, p, conf) ==
  CASE s = None -> Unreachable(src)
    [] s # None /\ s.owner = None -> Verdict("broadcast", None)
    [] OTHER -> Known(s, src, p, conf)

(* An IPv6 packet is never fragmented on its way. *)
route_ipv6(s, src, p, conf) == route_ipv4(s, src, [p EXCEPT !.df = TRUE], conf)

(* A request for the hardware address of another node's address is answered. *)
route_arp(s, src) ==
  IF src = Me /\ s # None /\ s.owner # Me THEN Verdict("reply", Me) ELSE Dropped
route_neighborsol(s, src) == route_arp(s, src)

(* With Forwarding = kernel a packet from a peer goes to the device. *)
route(s, src, p, conf) ==
  IF conf.forwarding = "kernel" /\ src # Me THEN {Verdict("send", Me)}
  ELSE {route_ipv4(s, src, p, conf), route_ipv6(s, src, p, conf)}

(* The packet is then sent, or not, and the thread goes on to the next.      *)
Use(t) ==
  /\ thread[t].pc = "use"
  /\ thread' = [thread EXCEPT ![t] = Off]
  /\ UNCHANGED <<subnets, cache, topo, change, raced>>

(***************************************************************************)
(* The main thread, when it is not routing.                                *)
(***************************************************************************)
Begin(ch) ==
  /\ change = "none" /\ thread["main"].pc = "off"
  /\ change' = ch
  /\ raced' = (raced \/ Overlaps(ch, thread))
End(ch) == change = ch /\ change' = "none" /\ UNCHANGED raced

(* subnet_add and subnet_del: the tree first, then the cache. *)
Update ==
  /\ Begin("flush")
  /\ \E s \in Subnets :
       \/ s \notin subnets /\ subnets' = subnets \cup {s}
       \/ s \in subnets /\ s.owner # None /\ subnets' = subnets \ {s}
  /\ UNCHANGED <<cache, topo, thread>>
Flush ==
  /\ End("flush")
  /\ cache' = Flushed
  /\ UNCHANGED <<subnets, topo, thread>>

(* graph(): the cache first, then sssp_bfs and check_reachability, which     *)
(* runs scripts.                                                             *)
MutGraphFlush == Begin("graph") /\ UNCHANGED <<subnets, cache, topo, thread>>
GraphFlush ==
  /\ Begin("graph")
  /\ cache' = Flushed
  /\ UNCHANGED <<subnets, topo, thread>>
GraphSearch ==
  /\ End("graph")
  /\ topo' \in Topologies
  /\ UNCHANGED <<subnets, cache, thread>>

Next ==
  \/ \E t \in Threads : Lookup(t) \/ Insert(t) \/ Use(t)
  \/ Update \/ Flush \/ GraphFlush \/ GraphSearch

Spec == Init /\ [][Next]_vars

TypeOK ==
  /\ subnets \subseteq Subnets
  /\ \A k \in DOMAIN cache :
       cache[k] # None => cache[k].addr \in Addresses /\ cache[k].subnet \in Subnets
  /\ topo \in Topologies
  /\ change \in {"none", "flush", "graph"}
  /\ \A t \in Threads : thread[t].pc \in {"off", "insert", "use"}
  /\ raced \in BOOLEAN

(* Unless the worker was routing during a change, the cache holds for every  *)
(* address what a search of the tree would find now: subnet_add, subnet_del  *)
(* and graph() flush it, and two addresses with one hash are told apart. Nor *)
(* does a thread then use a subnet that subnet_del has freed.                *)
CacheIsExact ==
  /\ ~raced /\ change = "none" => \A a \in Addresses : Hit(a) # None => Hit(a) = Search(a)
  /\ ~raced => \A t \in Threads : thread[t].found # None => thread[t].found \in subnets

(* A packet that may be forwarded goes to the owner of a subnet it is in who *)
(* can be reached, and no reachable owner has a more specific one; it is     *)
(* refused only if there is none.                                            *)
RoutedToBest ==
  \A t \in {u \in Threads : thread[u].pc = "use"}, conf \in Settings :
    LET w == thread[t]
        small == [ttl |-> FALSE, big |-> FALSE, df |-> FALSE]
        good == {s \in subnets : Matches(s, w.dst) /\ Reachable(s)}
        best == {s \in good : \A u \in good : u.len <= s.len}
    IN ~raced /\ conf.forwarding = "internal" /\ ~conf.directonly =>
         \A v \in route(w.found, w.src, small, conf) :
           /\ v.what = "send" => \E s \in best : s.owner = v.to
           /\ v.what = "broadcast" => \E s \in best : s.owner = None
           /\ v.what = "error" => good = {}
=============================================================================
