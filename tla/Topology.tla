------------------------------ MODULE Topology ------------------------------
(***************************************************************************)
(* How daemons learn of each other's edges and subnets: ADD_EDGE, DEL_EDGE *)
(* (protocol_edge.c), ADD_SUBNET and DEL_SUBNET (protocol_subnet.c) are    *)
(* forwarded to every neighbour, past requests are dropped (protocol.c), a *)
(* new connection is told everything (ack_h), one that ends is reported    *)
(* (terminate_connection), and unreachable nodes are purged (net.c).       *)
(*                                                                         *)
(* TunnelServer and StrictSubnets are off.  edges[a][e] is the weight of   *)
(* the edge e in the edge_tree of a, None if a has no such edge; it stands *)
(* for the address and the options as well.  A subnet is a pair <<owner,   *)
(* number>>.  chan[<<b, a>>] is what b has sent to a over the connection   *)
(* they have now, and active[<<a, b>>] whether a has activated it ("cur"), *)
(* has one that is dead without knowing it ("old"), or none ("no").        *)
(***************************************************************************)
EXTENDS Integers, Sequences, FiniteSets, SequencesExt

CONSTANTS
  Nodes, None,
  Starts,       \* the sets of connections there are in the beginning
  Links,        \* the sets {a, b} of nodes that may have a connection
  Weights,
  Subnets,      \* the subnets <<owner, number>> a node may have
  Events,       \* what the environment does, and with what
  MaxChanges,   \* how often it acts, if only when nothing is under way
  MaxOverlap    \* how often it acts otherwise

ASSUME NodesAssumption == Nodes \subseteq Int
ASSUME LinksAssumption == \A l \in Links : l \subseteq Nodes /\ Cardinality(l) = 2
ASSUME StartsAssumption == \A L \in Starts : L \subseteq Links
ASSUME WeightsAssumption == None \notin Weights
ASSUME SubnetsAssumption == \A s \in Subnets : s[1] \in Nodes

VARIABLES
  links,     \* the connections that QUIC keeps up
  active, chan, edges, subnets,
  seen,      \* past_request_tree, without the requests that are no longer under way
  changes, calm   \* how often the environment acted, and only when nothing was under way

vars == <<links, active, chan, edges, subnets, seen, changes, calm>>

Pairs == {p \in Nodes \X Nodes : {p[1], p[2]} \in Links}
Own(S, a) == {s \in S : s[1] = a}

(* The order of the trees. *)
Before(p, q) == p[1] < q[1] \/ (p[1] = q[1] /\ p[2] < q[2])
NodeSeq == SetToSortSeq(Nodes, <)
PairSeq == SetToSortSeq(Pairs, Before)
SubnetSeq == SetToSortSeq(Subnets, Before)

(* The nodes that graph() makes reachable for a if its edges are E. *)
Reachable(E, a) ==
  LET Joined(x, y) == <<x, y>> \in Pairs /\ E[<<x, y>>] # None /\ E[<<y, x>>] # None
      IsClosed(S) == \A x \in S, y \in Nodes : Joined(x, y) => y \in S
  IN {n \in Nodes : \A S \in SUBSET Nodes : a \in S /\ IsClosed(S) => n \in S}

(* What a daemon sends; rand() makes a new request one nobody has seen.  The *)
(* definitions called Mut... are faults a property must detect; the          *)
(* specification does not use them.                                          *)
New == 0
AddEdge(e, w) == [req |-> "ADD_EDGE", edge |-> e, weight |-> w, id |-> New]
DelEdge(e) == [req |-> "DEL_EDGE", edge |-> e, id |-> New]
AddSubnet(s) == [req |-> "ADD_SUBNET", subnet |-> s, id |-> New]
DelSubnet(s) == [req |-> "DEL_SUBNET", subnet |-> s, id |-> New]
Ack(w) == [req |-> "ACK", weight |-> w, id |-> New]

Send(to, msgs) == [i \in DOMAIN msgs |-> [to |-> to, msg |-> msgs[i]]]
Everyone(act, a) == {b \in Nodes : <<a, b>> \in Pairs /\ act[<<a, b>>] = "cur"}

UnderWay(ch) == UNION {{ch[l][i].id : i \in DOMAIN ch[l]} : l \in Pairs} \ {New}

(* The channels ch after a has sent outs, a sequence of what Send makes. *)
Sent(a, ch, outs) ==
  LET id(i) == IF outs[i].msg.id = New THEN i + Max(UnderWay(chan) \cup {New}) ELSE outs[i].msg.id
      To(b) == LET s == SelectSeq([i \in DOMAIN outs |-> i], LAMBDA i : b \in outs[i].to)
               IN [i \in DOMAIN s |-> [outs[s[i]].msg EXCEPT !.id = id(s[i])]]
  IN [l \in Pairs |-> IF l[1] = a THEN ch[l] \o To(l[2]) ELSE ch[l]]

(* The requests under way are numbered by their place: only whether two are  *)
(* the same matters.                                                         *)
Numbers(all) ==
  LET Ids(k) == {all[j].id : j \in 1..k} \ {New}
  IN {<<New, New>>} \cup {<<all[k].id, Cardinality(Ids(k))>> :
                            k \in {k \in DOMAIN all : all[k].id \notin Ids(k - 1) \cup {New}}}

(* a sends outs over the channels ch, having looked at the requests in read. *)
Emit(a, ch, outs, read) ==
  \E sent \in {outs} : \E after \in {Sent(a, ch, sent)} :
  \E all \in {FlattenSeq([k \in DOMAIN PairSeq |-> after[PairSeq[k]]])} :
  \E numbers \in {Numbers(all)} :
    LET Number(i) == CHOOSE k \in 0..Len(all) : <<i, k>> \in numbers
        Looked(n) == seen[n] \cup (IF n = a THEN read ELSE {})
    IN /\ chan' = [l \in Pairs |->
                     [k \in DOMAIN after[l] |-> [after[l][k] EXCEPT !.id = Number(@)]]]
       /\ seen' = [n \in Nodes |-> {p[2] : p \in {p \in numbers : p[1] \in Looked(n) \ {New}}}]

(* A network that has settled: what its nodes know is what there is. *)
Init ==
  /\ links \in Starts
  /\ active = [p \in Pairs |-> IF {p[1], p[2]} \in links THEN "cur" ELSE "no"]
  /\ chan = [p \in Pairs |-> <<>>]
  /\ \E w \in Weights :
       LET E == [p \in Pairs |-> IF {p[1], p[2]} \in links THEN w ELSE None]
       IN /\ edges = [a \in Nodes |-> [p \in Pairs |-> IF p[1] \in Reachable(E, a) THEN E[p] ELSE None]]
          /\ subnets = [a \in Nodes |-> {s \in Subnets : s[1] \in Reachable(E, a)}]
  /\ seen = [n \in Nodes |-> {}]
  /\ changes = 0 /\ calm = TRUE

-----------------------------------------------------------------------------
(* The handlers.  m is the request that a has read of what b sent. *)
Reply(a, b, m, outs) == Emit(a, [chan EXCEPT ![<<b, a>>] = Tail(@)], outs, {m.id})
MutForward(a, b, m) == <<>>
Forward(a, b, m) == Send(Everyone(active, a) \ {b}, <<m>>)

(* What add_edge_h does with an edge a does not have like this. *)
AddEdgeReply(a, b, m) ==
  IF m.edge[1] # a THEN Forward(a, b, m)
  ELSE IF edges[a][m.edge] # None THEN Send({b}, <<AddEdge(m.edge, edges[a][m.edge])>>)
  ELSE Send({b}, <<DelEdge(m.edge)>>)

add_edge_h(a, b, m) ==
  /\ m.req = "ADD_EDGE"
  /\ LET e == m.edge IN
     IF edges[a][e] = m.weight
     THEN Reply(a, b, m, <<>>) /\ UNCHANGED edges
     ELSE /\ Reply(a, b, m, AddEdgeReply(a, b, m))
          /\ edges' = IF e[1] = a THEN edges ELSE [edges EXCEPT ![a][e] = m.weight]
  /\ UNCHANGED <<links, active, subnets, changes, calm>>

(* "If the node is not reachable anymore but we remember it had an edge to   *)
(* us, clean it up": the edge from n to a, if E is what a has left.          *)
Leftover(E, a, n) ==
  n \notin Reachable(E, a) /\ <<n, a>> \in Pairs /\ E[<<n, a>>] # None

del_edge_h(a, b, m) ==
  /\ m.req = "DEL_EDGE"
  /\ LET e == m.edge
         E == [edges[a] EXCEPT ![e] = None]
         back == <<e[2], a>>
     IN IF edges[a][e] = None
        THEN Reply(a, b, m, <<>>) /\ UNCHANGED edges
        ELSE IF e[1] = a
        THEN Reply(a, b, m, Send({b}, <<AddEdge(e, edges[a][e])>>)) /\ UNCHANGED edges
        ELSE IF Leftover(E, a, e[2])
        THEN /\ Reply(a, b, m, Forward(a, b, m) \o Send(Everyone(active, a), <<DelEdge(back)>>))
             /\ edges' = [edges EXCEPT ![a] = [E EXCEPT ![back] = None]]
        ELSE Reply(a, b, m, Forward(a, b, m)) /\ edges' = [edges EXCEPT ![a] = E]
  /\ UNCHANGED <<links, active, subnets, changes, calm>>

(* "If we are the owner of this subnet, retaliate": the answer to b. *)
Retaliate(b, request) == Send({b}, <<request>>)

add_subnet_h(a, b, m) ==
  /\ m.req = "ADD_SUBNET"
  /\ IF m.subnet \in subnets[a]
     THEN Reply(a, b, m, <<>>) /\ UNCHANGED subnets
     ELSE IF m.subnet[1] = a
     THEN Reply(a, b, m, Retaliate(b, DelSubnet(m.subnet))) /\ UNCHANGED subnets
     ELSE /\ Reply(a, b, m, Forward(a, b, m))
          /\ subnets' = [subnets EXCEPT ![a] = @ \cup {m.subnet}]
  /\ UNCHANGED <<links, active, edges, changes, calm>>

del_subnet_h(a, b, m) ==
  /\ m.req = "DEL_SUBNET"
  /\ IF m.subnet \notin subnets[a]
     THEN Reply(a, b, m, <<>>) /\ UNCHANGED subnets
     ELSE IF m.subnet[1] = a
     THEN Reply(a, b, m, Retaliate(b, AddSubnet(m.subnet))) /\ UNCHANGED subnets
     ELSE /\ Reply(a, b, m, Forward(a, b, m))
          /\ subnets' = [subnets EXCEPT ![a] = @ \ {m.subnet}]
  /\ UNCHANGED <<links, active, edges, changes, calm>>

-----------------------------------------------------------------------------
(* send_everything: for each node its subnets and its edges, in the order of *)
(* the trees.                                                                *)
AddSubnets(S) ==
  LET s == SelectSeq(SubnetSeq, LAMBDA x : x \in S) IN [i \in DOMAIN s |-> AddSubnet(s[i])]
AddEdges(E, n) ==
  LET s == SelectSeq(PairSeq, LAMBDA p : p[1] = n /\ E[p] # None)
  IN [i \in DOMAIN s |-> AddEdge(s[i], E[s[i]])]
Everything(a, E) ==
  FlattenSeq([i \in DOMAIN NodeSeq |->
                AddSubnets(Own(subnets[a], NodeSeq[i])) \o AddEdges(E, NodeSeq[i])])

(* ack_h; a connection a still has with b is terminated first, without a     *)
(* report.                                                                   *)
ack_h(a, b, m) ==
  /\ m.req = "ACK"
  /\ LET E == [edges[a] EXCEPT ![<<a, b>>] = None]
         act == [active EXCEPT ![<<a, b>>] = "cur"]
     IN /\ active' = act
        /\ edges' = [edges EXCEPT ![a] = [E EXCEPT ![<<a, b>>] = m.weight]]
        /\ Reply(a, b, m, Send({b}, Everything(a, E))
                          \o Send(Everyone(act, a), <<AddEdge(<<a, b>>, m.weight)>>))
  /\ UNCHANGED <<links, subnets, changes, calm>>

(* terminate_connection with a report: nothing was heard of b. *)
MutClosed == "old"
Closed == "no"

MutReport(a, b, cleanup) == IF cleanup THEN <<DelEdge(<<b, a>>)>> ELSE <<>>
Report(a, b, cleanup) ==
  <<DelEdge(<<a, b>>)>> \o (IF cleanup THEN <<DelEdge(<<b, a>>)>> ELSE <<>>)

terminate_connection(a, b) ==
  /\ active[<<a, b>>] = "old"
  /\ LET E == [edges[a] EXCEPT ![<<a, b>>] = None]
         cleanup == Leftover(E, a, b)
     IN /\ edges' = [edges EXCEPT ![a] = IF cleanup THEN [E EXCEPT ![<<b, a>>] = None] ELSE E]
        /\ Emit(a, chan, Send(Everyone(active, a), Report(a, b, cleanup)), {})
  /\ active' = [active EXCEPT ![<<a, b>>] = Closed]
  /\ UNCHANGED <<links, subnets, changes, calm>>

-----------------------------------------------------------------------------
(* The environment: QUIC connects two nodes, which send their ACK, or loses  *)
(* the connection and what is under way; a node is reloaded with other       *)
(* subnets, told to purge, restarted; a past request is forgotten.           *)
Settled == \A p \in Pairs : chan[p] = <<>> /\ active[p] # "old"
Change(event) ==
  /\ event \in Events
  /\ calm' = (calm /\ Settled)
  /\ changes < IF calm' THEN MaxChanges ELSE MaxOverlap
  /\ changes' = changes + 1

Connect(a, b, w) ==
  /\ Change(<<"connect", {a, b}>>)
  /\ a < b /\ {a, b} \in Links \ links
  /\ links' = links \cup {{a, b}}
  /\ chan' = [chan EXCEPT ![<<a, b>>] = <<Ack(w)>>, ![<<b, a>>] = <<Ack(w)>>]
  /\ UNCHANGED <<active, edges, subnets, seen>>

(* What is left under way when the connections in L are lost. *)
Without(L) == [p \in Pairs |-> IF {p[1], p[2]} \in L THEN <<>> ELSE chan[p]]

Lose(a, b) ==
  /\ Change(<<"lose", {a, b}>>)
  /\ a < b /\ {a, b} \in links
  /\ links' = links \ {{a, b}}
  /\ active' = [p \in Pairs |-> IF {p[1], p[2]} = {a, b} /\ active[p] = "cur" THEN "old" ELSE active[p]]
  /\ Emit(a, Without({{a, b}}), <<>>, {})
  /\ UNCHANGED <<edges, subnets>>

(* reload_configuration, with one subnet more or one less. *)
Reload(s) ==
  /\ Change(<<"reload", s>>)
  /\ LET a == s[1]
         gone == s \in subnets[a]
     IN /\ subnets' = [subnets EXCEPT ![a] = IF gone THEN @ \ {s} ELSE @ \cup {s}]
        /\ Emit(a, chan, Send(Everyone(active, a), <<IF gone THEN DelSubnet(s) ELSE AddSubnet(s)>>), {})
  /\ UNCHANGED <<links, active, edges>>

purge(a) ==
  /\ Change(<<"purge", a>>)
  /\ LET gone == Nodes \ Reachable(edges[a], a)
         old == SelectSeq(SubnetSeq, LAMBDA s : s \in subnets[a] /\ s[1] \in gone)
         dead == SelectSeq(PairSeq, LAMBDA p : p[1] \in gone /\ edges[a][p] # None)
     IN /\ old # <<>> \/ dead # <<>>
        /\ subnets' = [subnets EXCEPT ![a] = {s \in @ : s[1] \notin gone}]
        /\ edges' = [edges EXCEPT ![a] = [p \in Pairs |-> IF p[1] \in gone THEN None ELSE @[p]]]
        /\ Emit(a, chan, Send(Everyone(active, a), [i \in DOMAIN old |-> DelSubnet(old[i])]
                                                   \o [i \in DOMAIN dead |-> DelEdge(dead[i])]), {})
  /\ UNCHANGED <<links, active>>

Restart(a) ==
  /\ Change(<<"restart", a>>)
  /\ LET L == {l \in links : a \in l} IN
     /\ links' = links \ L
     /\ active' = [p \in Pairs |-> IF p[1] = a THEN "no"
                                   ELSE IF p[2] = a /\ active[p] = "cur" THEN "old" ELSE active[p]]
     /\ Emit(a, Without(L), <<>>, {})
  /\ edges' = [edges EXCEPT ![a] = [p \in Pairs |-> None]]
  /\ subnets' = [subnets EXCEPT ![a] = Own(@, a)]

age_past_requests(a, i) ==
  /\ Change(<<"age", a>>)
  /\ i \in seen[a]
  /\ seen' = [seen EXCEPT ![a] = @ \ {i}]
  /\ UNCHANGED <<links, active, chan, edges, subnets>>

(* receive_meta, receive_request and seen_request. *)
Receive(a, b) ==
  /\ chan[<<b, a>>] # <<>>
  /\ LET m == Head(chan[<<b, a>>]) IN
     IF m.id \in seen[a]
     THEN Reply(a, b, m, <<>>) /\ UNCHANGED <<links, active, edges, subnets, changes, calm>>
     ELSE \/ add_edge_h(a, b, m) \/ del_edge_h(a, b, m)
          \/ add_subnet_h(a, b, m) \/ del_subnet_h(a, b, m) \/ ack_h(a, b, m)

Progress == \E p \in Pairs : Receive(p[1], p[2]) \/ terminate_connection(p[1], p[2])

Next ==
  \/ Progress
  \/ \E p \in Pairs, w \in Weights : Connect(p[1], p[2], w)
  \/ \E p \in Pairs : Lose(p[1], p[2])
  \/ \E s \in Subnets : Reload(s)
  \/ \E a \in Nodes : purge(a) \/ Restart(a) \/ \E i \in seen[a] : age_past_requests(a, i)

(* While something is under way, or a connection is dead, the daemons go on. *)
Spec == Init /\ [][Next]_vars /\ WF_vars(Progress)

-----------------------------------------------------------------------------
TypeOK ==
  /\ links \subseteq Links
  /\ active \in [Pairs -> {"no", "old", "cur"}]
  /\ edges \in [Nodes -> [Pairs -> Weights \cup {None}]]
  /\ subnets \in [Nodes -> SUBSET Subnets]
  /\ \A n \in Nodes : seen[n] \subseteq UnderWay(chan)

(* The nodes connected with a. *)
Connected(a) == Reachable([p \in Pairs |-> IF {p[1], p[2]} \in links THEN 1 ELSE None], a)

(* A node has, when all is settled, the subnets of every node it is          *)
(* connected with, whatever happened at the same time (add_subnet_h,         *)
(* del_subnet_h and the owner who retaliates see to it); and the edges of    *)
(* that node as it has them itself (add_edge_h, del_edge_h), if the network  *)
(* changed only when it had settled before.                                  *)
DatabasesAgree ==
  Settled => \A a \in Nodes : \A b \in Connected(a) :
    /\ Own(subnets[a], b) = Own(subnets[b], b)
    /\ calm => \A p \in Own(Pairs, b) : edges[a][p] = edges[b][p]

(* When all is settled graph() finds no node reachable that the node is not  *)
(* connected with: what terminate_connection and purge left is gone.         *)
NoPhantom ==
  Settled => \A a \in Nodes : Reachable(edges[a], a) \subseteq Connected(a)

(* "Each daemon will calculate a new route to the daemons, or mark them      *)
(* unreachable if there isn't any": those it is connected with are reachable.*)
ReachableAgrees ==
  Settled => \A a \in Nodes : Connected(a) \subseteq Reachable(edges[a], a)

(* Corrections do not go on for ever. *)
Settles == <>[]Settled
=============================================================================
