------------------------------ MODULE MCGraph -------------------------------
(* Three questions that share no state, of which each behaviour asks one:    *)
(* what graph() of one node computes from any set of directed edges, and     *)
(* after any change of one (here among three of the nodes); what a network   *)
(* does in which every node has computed it from the same edges; and what    *)
(* two daemons make of their ConnectTo, the connections whose edges graph()  *)
(* is about (Handshake).                                                     *)
EXTENDS GraphNet

CONSTANT Conns

VARIABLES
  part, connect_to, ends, link, allow_request, outgoing, inbuf, connection, announced, outgoing_list, ev, faults

handshakeVars ==
  <<connect_to, ends, link, allow_request, outgoing, inbuf, connection, announced, outgoing_list, ev, faults>>

Few(E) == \A e \in DOMAIN E : {e[1], e[2]} \subseteq {1, 2, 3} /\ E[e].weight = 1
FewEdges == {e \in Edges : {e[1], e[2]} \subseteq {1, 2, 3}}
FewTypes == {t \in EdgeTypes : t.weight = 1}

(* One of the two daemons or both have a ConnectTo. *)
AnyWay == {{<<1, 2>>}, {<<2, 1>>}, {<<1, 2>>, <<2, 1>>}}

H == INSTANCE Handshake WITH Nodes <- {1, 2}, Configs <- AnyWay, MaxFaults <- 1, edges <- announced

MCInit ==
  /\ part \in {"graph", "network", "handshake"}
  /\ H!Init
  /\ part # "handshake" => connect_to = {<<1, 2>>}
  /\ \/ part = "network" /\ NetInit
     \/ /\ part = "graph" /\ myself \in {1, 2, 3}
        /\ \E D \in SUBSET FewEdges : \E E \in [D -> FewTypes] : InitWith(E)
        /\ nexthops = <<>> /\ msts = <<>> /\ inflight = {} /\ received = <<>>
     \/ /\ part = "handshake" /\ myself = 1 /\ InitWith(<<>>)
        /\ nexthops = <<>> /\ msts = <<>> /\ inflight = {} /\ received = <<>>
MCNext ==
  /\ UNCHANGED part
  /\ \/ part = "network" /\ NetNext /\ UNCHANGED handshakeVars
     \/ part = "graph" /\ Next /\ Few(edges') /\ UNCHANGED <<nexthops, msts, inflight, received, handshakeVars>>
     \/ part = "handshake" /\ H!Next /\ UNCHANGED netVars
MCFairness == part = "handshake" => H!Fairness
MCSpec == MCInit /\ [][MCNext]_<<netVars, part, handshakeVars>> /\ MCFairness

-----------------------------------------------------------------------------
(* Of ack_h and terminate_connection: one active connection with a peer, and *)
(* an edge exactly with it (Handshake).                                      *)
EdgeIffConnected == H!EdgeIffConnected

(* A ConnectTo of one of two daemons ends in a lasting connection:           *)
(* terminate_connection and retry_outgoing see to it (Handshake).            *)
StaysConnected == part = "handshake" => H!StaysConnected
=============================================================================
