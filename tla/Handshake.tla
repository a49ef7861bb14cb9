----------------------------- MODULE Handshake ------------------------------
(***************************************************************************)
(* Meta connections between daemons: an outgoing connection is made        *)
(* (net_socket.c), the peers exchange ID and ACK (protocol_auth.c), ack_h  *)
(* decides which of two connections with the same peer stays, and a        *)
(* connection that ends is terminated and, if it was an outgoing one, made *)
(* again (net.c).                                                          *)
(*                                                                         *)
(* Nodes are numbers in the order of their names.  A connection c has a    *)
(* connection_t at each end: allow_request[c][n] is its field at the end   *)
(* of n, "none" if n has no connection_t for c.  outgoing[c] has the nodes *)
(* whose connection_t of c has an outgoing_t, and inbuf[c][n] what the     *)
(* QUIC stream delivers to n, in order.                                    *)
(***************************************************************************)
EXTENDS Integers, Sequences, FiniteSets

CONSTANTS
  Nodes, Conns, None,
  Configs,      \* sets of pairs <<n, m>>: "ConnectTo = m" is in the tinc.conf of n
  MaxFaults     \* how many connections are lost or time out, and nodes restart

VARIABLES
  connect_to,      \* the configuration
  ends,            \* the nodes of a connection: who makes it, and with whom
  link,            \* what QUIC makes of it
  allow_request, outgoing, inbuf,
  connection,      \* connection[n][m] is the field of the node_t that n has for m
  edges,           \* the pairs <<n, m>> for which n has an edge from itself to m
  outgoing_list,   \* the pairs <<n, m>> for which n has an outgoing_t
  ev,              \* those whose outgoing_t waits for retry_outgoing_handler
  faults

vars == <<connect_to, ends, link, allow_request, outgoing, inbuf, connection, edges,
          outgoing_list, ev, faults>>

From(c) == ends[c][1]
To(c) == ends[c][2]
Peer(c, n) == IF n = From(c) THEN To(c) ELSE From(c)
Exists(c, n) == allow_request[c][n] # "none"
Unused(c) == \A n \in Nodes : ~Exists(c, n)

Init ==
  /\ connect_to \in Configs
  /\ ends = [c \in Conns |-> CHOOSE p \in connect_to : TRUE]
  /\ link = [c \in Conns |-> "shut"]
  /\ allow_request = [c \in Conns |-> [n \in Nodes |-> "none"]]
  /\ outgoing = [c \in Conns |-> {}]
  /\ inbuf = [c \in Conns |-> [n \in Nodes |-> <<>>]]
  /\ connection = [n \in Nodes |-> [m \in Nodes |-> None]]
  /\ edges = {}
  /\ outgoing_list = connect_to /\ ev = connect_to
  /\ faults = 0

-----------------------------------------------------------------------------
(* do_outgoing_connection of n to m: a connection is started, or no address  *)
(* is left and retry_outgoing sets the timer.  The arguments are what the    *)
(* caller made of link, allow_request, outgoing and ev.                      *)
do_outgoing_connection(n, m, lnk, allow, out, timers) ==
  \/ \E c \in Conns :
       /\ Unused(c)
       /\ ends' = [ends EXCEPT ![c] = <<n, m>>]
       /\ link' = [lnk EXCEPT ![c] = "opening"]
       /\ allow_request' = [allow EXCEPT ![c][n] = "ID"]
       /\ outgoing' = [out EXCEPT ![c] = {n}]
       /\ ev' = timers
  \/ /\ link' = lnk /\ allow_request' = allow /\ outgoing' = out
     /\ ev' = timers \cup {<<n, m>>}
     /\ UNCHANGED ends

(* retry_outgoing_handler, setup_outgoing_connection. *)
SetupOutgoing(n, m) ==
  /\ <<n, m>> \in ev
  /\ LET c == connection[n][m]
         timers == ev \ {<<n, m>>}
     IN IF c = None
        THEN /\ do_outgoing_connection(n, m, link, allow_request, outgoing, timers)
             /\ UNCHANGED outgoing_list
        ELSE /\ ev' = timers
             /\ IF n \notin outgoing[c]
                THEN outgoing' = [outgoing EXCEPT ![c] = @ \cup {n}] /\ UNCHANGED outgoing_list
                ELSE outgoing_list' = outgoing_list \ {<<n, m>>} /\ UNCHANGED outgoing
             /\ UNCHANGED <<ends, link, allow_request>>
  /\ UNCHANGED <<connect_to, inbuf, connection, edges, faults>>

(* "Check if this was our outgoing connection."  The definitions called      *)
(* Mut... are faults a property must detect; the specification does not use  *)
(* them.                                                                     *)
MutRedials(c, n) == FALSE
Redials(c, n) == n \in outgoing[c]

(* terminate_connection of c at n, with what free_connection does to QUIC. *)
terminate_connection(c, n) ==
  LET m == Peer(c, n)
      lnk == [link EXCEPT ![c] = "shut"]
      allow == [allow_request EXCEPT ![c][n] = "none"]
      out == [outgoing EXCEPT ![c] = @ \ {n}]
  IN /\ connection' = [connection EXCEPT ![n][m] = IF @ = c THEN None ELSE @]
     /\ edges' = IF allow_request[c][n] = "ALL" THEN edges \ {<<n, m>>} ELSE edges
     /\ inbuf' = [inbuf EXCEPT ![c][n] = <<>>]
     /\ IF Redials(c, n)
        THEN do_outgoing_connection(n, m, lnk, allow, out, ev)
        ELSE link' = lnk /\ allow_request' = allow /\ outgoing' = out /\ UNCHANGED <<ends, ev>>
     /\ UNCHANGED <<connect_to, outgoing_list>>

-----------------------------------------------------------------------------
(* quic_listener_callback at the node c is made with. *)
Accept(c) ==
  /\ link[c] = "opening" /\ ~Exists(c, To(c))
  /\ link' = [link EXCEPT ![c] = "accepted"]
  /\ allow_request' = [allow_request EXCEPT ![c][To(c)] = "ID"]
  /\ UNCHANGED <<connect_to, ends, outgoing, inbuf, connection, edges, outgoing_list, ev, faults>>

(* The CONNECTED event at the node that makes c: the stream is opened. *)
Connected(c) ==
  /\ link[c] = "accepted"
  /\ link' = [link EXCEPT ![c] = "up"]
  /\ inbuf' = IF From(c) \in outgoing[c] THEN [inbuf EXCEPT ![c][To(c)] = Append(@, "ID")]
              ELSE inbuf
  /\ UNCHANGED <<connect_to, ends, allow_request, outgoing, connection, edges, outgoing_list, ev,
                 faults>>

(* id_h *)
Reply(c, n) == IF n \in outgoing[c] THEN <<"ACK">> ELSE <<"ID", "ACK">>

ReceiveId(c, n) ==
  /\ allow_request[c][n] = "ID" /\ inbuf[c][n] # <<>> /\ Head(inbuf[c][n]) = "ID"
  /\ allow_request' = [allow_request EXCEPT ![c][n] = "ACK"]
  /\ inbuf' = [inbuf EXCEPT ![c][n] = Tail(@),
                            ![c][Peer(c, n)] = IF link[c] = "up" THEN @ \o Reply(c, n) ELSE @]
  /\ UNCHANGED <<connect_to, ends, link, outgoing, connection, edges, outgoing_list, ev, faults>>

AckArrives(c, n) ==
  allow_request[c][n] = "ACK" /\ inbuf[c][n] # <<>> /\ Head(inbuf[c][n]) = "ACK"

(* ack_h, no connection with the node yet. *)
Activate(c, n) ==
  /\ AckArrives(c, n)
  /\ LET m == Peer(c, n) IN
     /\ connection[n][m] = None
     /\ connection' = [connection EXCEPT ![n][m] = c]
     /\ edges' = edges \cup {<<n, m>>}
  /\ allow_request' = [allow_request EXCEPT ![c][n] = "ALL"]
  /\ inbuf' = [inbuf EXCEPT ![c][n] = Tail(@)]
  /\ UNCHANGED <<connect_to, ends, link, outgoing, outgoing_list, ev, faults>>

(* ack_h, "we already have a connection to this node": the new one stays if  *)
(* the name of the peer is smaller, or if only the new one is outgoing.      *)
KeepsNew(c, n) ==
  \/ Peer(c, n) < n
  \/ n \in outgoing[c] /\ n \notin outgoing[connection[n][Peer(c, n)]]

(* What is left of the connection that is replaced, and what the new one     *)
(* gets: the outgoing_t that stays is always the one of the old connection.  *)
MutAllowed(c, old, n) == [allow_request EXCEPT ![c][n] = "ALL"]
Allowed(c, old, n) == [allow_request EXCEPT ![c][n] = "ALL", ![old][n] = "none"]

ReplacedEdge(n, m) == (edges \ {<<n, m>>}) \cup {<<n, m>>}

MovedOutgoing(c, old, n) ==
  [outgoing EXCEPT ![c] = IF n \in outgoing[old] THEN @ \cup {n} ELSE @ \ {n},
                   ![old] = @ \ {n}]

Replace(c, n) ==
  /\ AckArrives(c, n)
  /\ LET m == Peer(c, n)
         old == connection[n][m]
     IN /\ old # None /\ KeepsNew(c, n)
        /\ connection' = [connection EXCEPT ![n][m] = c]
        /\ edges' = ReplacedEdge(n, m)
        /\ link' = [link EXCEPT ![old] = "shut"]
        /\ allow_request' = Allowed(c, old, n)
        /\ outgoing' = MovedOutgoing(c, old, n)
        /\ inbuf' = [inbuf EXCEPT ![c][n] = Tail(@), ![old][n] = <<>>]
  /\ UNCHANGED <<connect_to, ends, outgoing_list, ev, faults>>

Reject(c, n) ==
  /\ AckArrives(c, n)
  /\ connection[n][Peer(c, n)] # None /\ ~KeepsNew(c, n)
  /\ terminate_connection(c, n)
  /\ UNCHANGED faults

-----------------------------------------------------------------------------
(* QUIC does not deliver what was sent before the connection was shut down. *)
Discard(c, n) ==
  /\ link[c] = "shut" /\ inbuf[c][n] # <<>>
  /\ inbuf' = [inbuf EXCEPT ![c][n] = <<>>]
  /\ UNCHANGED <<connect_to, ends, link, allow_request, outgoing, connection, edges,
                 outgoing_list, ev, faults>>

(* timeout_handler: nothing is heard over a connection that is shut down. *)
Timeout(c, n) ==
  /\ Exists(c, n) /\ link[c] = "shut"
  /\ terminate_connection(c, n)
  /\ UNCHANGED faults

(* timeout_handler: the peer or the network is slow. *)
EarlyTimeout(c, n) ==
  /\ faults < MaxFaults
  /\ Exists(c, n) /\ link[c] # "shut"
  /\ terminate_connection(c, n)
  /\ faults' = faults + 1

Lose(c) ==
  /\ faults < MaxFaults
  /\ link[c] # "shut"
  /\ link' = [link EXCEPT ![c] = "shut"]
  /\ faults' = faults + 1
  /\ UNCHANGED <<connect_to, ends, allow_request, outgoing, inbuf, connection, edges,
                 outgoing_list, ev>>

(* try_outgoing_connections: there is one outgoing_t for each ConnectTo. *)
Configured(n) == {p \in connect_to : p[1] = n}

(* The daemon of n is killed and started again. *)
Restart(n) ==
  /\ faults < MaxFaults
  /\ faults' = faults + 1
  /\ link' = [c \in Conns |-> IF Exists(c, n) THEN "shut" ELSE link[c]]
  /\ allow_request' = [c \in Conns |-> [allow_request[c] EXCEPT ![n] = "none"]]
  /\ outgoing' = [c \in Conns |-> outgoing[c] \ {n}]
  /\ inbuf' = [c \in Conns |-> [inbuf[c] EXCEPT ![n] = <<>>]]
  /\ connection' = [connection EXCEPT ![n] = [m \in Nodes |-> None]]
  /\ edges' = {e \in edges : e[1] # n}
  /\ outgoing_list' = outgoing_list \cup Configured(n) /\ ev' = ev \cup Configured(n)
  /\ UNCHANGED <<connect_to, ends>>

Step(c, n) ==
  \/ ReceiveId(c, n) \/ Activate(c, n) \/ Replace(c, n) \/ Reject(c, n)
  \/ Discard(c, n) \/ Timeout(c, n)

Next ==
  \/ \E n, m \in Nodes : SetupOutgoing(n, m)
  \/ \E c \in Conns : Accept(c) \/ Connected(c) \/ Lose(c)
  \/ \E c \in Conns, n \in Nodes : Step(c, n) \/ EarlyTimeout(c, n)
  \/ \E n \in Nodes : Restart(n)

(* QUIC delivers and the timers of the event loop expire.  A peer has an     *)
(* address that is tried again, so not every attempt ends in another retry.  *)
Dials(n, m) == SetupOutgoing(n, m) /\ <<n, m>> \notin ev'
Fairness ==
  /\ \A c \in Conns : WF_vars(Accept(c)) /\ WF_vars(Connected(c))
  /\ \A c \in Conns, n \in Nodes : WF_vars(Step(c, n))
  /\ \A n, m \in Nodes : SF_vars(Dials(n, m))

Spec == Init /\ [][Next]_vars /\ Fairness

-----------------------------------------------------------------------------
TypeOK ==
  /\ ends \in [Conns -> Nodes \X Nodes]
  /\ link \in [Conns -> {"opening", "accepted", "up", "shut"}]
  /\ allow_request \in [Conns -> [Nodes -> {"none", "ID", "ACK", "ALL"}]]
  /\ outgoing \in [Conns -> SUBSET Nodes]
  /\ inbuf \in [Conns -> [Nodes -> Seq({"ID", "ACK"})]]
  /\ connection \in [Nodes -> [Nodes -> Conns \cup {None}]]
  /\ edges \subseteq Nodes \X Nodes
  /\ outgoing_list \subseteq Nodes \X Nodes /\ ev \subseteq outgoing_list
  /\ faults \in 0..MaxFaults

(* A node has at most one active connection with another, and its node_t     *)
(* points to it, however many are made at the same time: ack_h and           *)
(* terminate_connection keep allow_request and node->connection together. It *)
(* announces an edge exactly while it has one; replacing a connection does   *)
(* not delete the edge.                                                      *)
EdgeIffConnected ==
  /\ \A c \in Conns, n \in Nodes :
       allow_request[c][n] = "ALL" <=> Exists(c, n) /\ connection[n][Peer(c, n)] = c
  /\ \A n, m \in Nodes : <<n, m>> \in edges <=> connection[n][m] # None

Joined(n, m) ==
  \E c \in Conns : allow_request[c][n] = "ALL" /\ allow_request[c][m] = "ALL" /\ link[c] = "up"

(* A ConnectTo is honoured: once nothing fails any more the two nodes have a *)
(* connection that both have activated, for good.  Here if only one of them  *)
(* has a ConnectTo; terminate_connection and retry_outgoing see to it.       *)
StaysConnected ==
  \A n, m \in Nodes :
    <<n, m>> \in connect_to /\ <<m, n>> \notin connect_to => <>[]Joined(n, m)

(* "It does not matter if two tinc daemons have a ConnectTo value pointing   *)
(* to each other": ack_h leaves them with a connection then as well.         *)
MutualConnects ==
  \A n, m \in Nodes :
    <<n, m>> \in connect_to /\ <<m, n>> \in connect_to => <>[]Joined(n, m)
=============================================================================
