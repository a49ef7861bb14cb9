------------------------------ MODULE GraphNet ------------------------------
(***************************************************************************)
(* A network whose nodes all know the same edges: each of them runs        *)
(* graph(), and then packets travel by what they have computed.  The nodes *)
(* do not interact while they compute, so the model lets them take turns.  *)
(* Then one node broadcasts a packet, with Broadcast = mst.                *)
(***************************************************************************)
EXTENDS Graph

VARIABLES
  nexthops, msts,   \* each node's nexthop fields, and the tree its connections are on
  inflight,         \* the copies under way: <<x, n>> is what x sent with send_packet(n)
  received          \* how often each node wrote the packet to its device

CopiesMod == 4      \* the count of received copies wraps, to keep it bounded

netVars == <<vars, nexthops, msts, inflight, received>>

(* Edges as the two ends of a connection add them: in both directions, with  *)
(* the options of both (ack_h ors them) and the average of both weights.     *)
BothWays(h) == [e \in DOMAIN h \cup {<<f[2], f[1]>> : f \in DOMAIN h} |->
                  IF e[1] < e[2] THEN h[e] ELSE h[<<e[2], e[1]>>]]

First == CHOOSE n \in Nodes : \A m \in Nodes : n <= m
After(n) == CHOOSE m \in Nodes : m > n /\ \A k \in Nodes : k > n => m <= k

NetInit ==
  /\ myself = First
  /\ \E up \in SUBSET {e \in Edges : e[1] < e[2]} :
       \E h \in [up -> EdgeTypes] : InitWith(BothWays(h))
  /\ nexthops = [m \in Nodes |-> nexthop]
  /\ msts = [m \in Nodes |-> {}]
  /\ inflight = {}
  /\ received = [n \in Nodes |-> 0]

(* A node keeps its results and the next one starts from nothing. *)
NextNode ==
  /\ phase = "done"
  /\ nexthops' = [nexthops EXCEPT ![myself] = nexthop]
  /\ msts' = [msts EXCEPT ![myself] = mst]
  /\ IF \E m \in Nodes : m > myself
     THEN myself' = After(myself) /\ phase' = "idle"
     ELSE phase' = "computed" /\ UNCHANGED myself
  /\ visited' = {} /\ indirect' = {} /\ reachable' = {myself'}
  /\ nexthop' = [n \in Nodes |-> None]
  /\ via' = [n \in Nodes |-> None]
  /\ prevedge' = [n \in Nodes |-> None]
  /\ distance' = [n \in Nodes |-> 0]
  /\ node_udp_tree' = {} /\ device' = "down"
  /\ todo_list' = <<>> /\ rest' = {} /\ mst' = {} /\ scan' = None
  /\ UNCHANGED <<edges, changes, inflight, received>>

(* send_packet(n) at x: the copy goes to n->nexthop. *)
ArrivesAt(copy) == nexthops[copy[1]][copy[2]]

(* broadcast_packet(from) at x, in mode BMODE_MST: a copy to the node of     *)
(* each connection on the tree but the one the packet came over.             *)
Forwarded(x, from) ==
  {<<x, n>> : n \in {m \in Nodes : {x, m} \in msts[x] /\ m # nexthops[x][from]}}

Broadcast ==
  /\ phase = "computed"
  /\ \E x \in Nodes : inflight' = Forwarded(x, x) /\ myself' = x
  /\ phase' = "broadcast"
  /\ UNCHANGED <<edges, bfsVars, reachable, device, todo_list, rest, mst, scan, changes,
                 nexthops, msts, received>>

(* A copy arrives: it goes to the device, and on.  Copies do not interact,   *)
(* so they arrive in the order of their receivers.                           *)
BroadcastReceive ==
  /\ phase = "broadcast"
  /\ \E copy \in inflight :
       LET x == ArrivesAt(copy) IN
       /\ \A other \in inflight : x <= ArrivesAt(other)
       /\ received' = [received EXCEPT ![x] = (@ + 1) % CopiesMod]
       /\ inflight' = (inflight \ {copy}) \cup Forwarded(x, copy[1])
  /\ UNCHANGED <<vars, nexthops, msts>>

NetNext ==
  \/ GraphStep /\ UNCHANGED <<nexthops, msts, inflight, received>>
  \/ NextNode \/ Broadcast \/ BroadcastReceive

NetSpec == NetInit /\ [][NetNext]_netVars /\ WF_netVars(NetNext)

-----------------------------------------------------------------------------
(* From every node to the next hop it has computed for d. *)
Hops(d) == {<<n, nexthops[n][d]>> : n \in Nodes \ {d}}

(* A packet that every node hands to the nexthop it has computed for the     *)
(* destination gets there, from every node that has a path: the choices of   *)
(* the nodes on the way agree, and do not send it round in a circle.         *)
PacketsArrive ==
  phase = "computed" =>
    \A n, d \in Nodes : d \in ConnectedWith(n, Links) => d \in ConnectedWith(n, Hops(d))

(* Every node that is connected with the one that broadcasts receives the    *)
(* packet, exactly once, and the source does not get it back.                *)
BroadcastReachesAll ==
  phase = "broadcast" /\ inflight = {} =>
    \A n \in Nodes :
      received[n] = IF n \in ConnectedWith(myself, Links) \ {myself} THEN 1 ELSE 0
=============================================================================
