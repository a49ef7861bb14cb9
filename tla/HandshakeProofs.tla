-------------------------- MODULE HandshakeProofs ---------------------------
(* EdgeIffConnected of Handshake holds for any number of nodes, connections  *)
(* and faults.                                                               *)
EXTENDS Handshake, TLAPS

(* The constants are what they are meant to be: a ConnectTo names a node,    *)
(* and None is no connection.                                                *)
ConstantsOK ==
  /\ None \notin Conns
  /\ \A C \in Configs : C # {} /\ C \subseteq Nodes \X Nodes

States == {"none", "ID", "ACK", "ALL"}

Types ==
  /\ ends \in [Conns -> Nodes \X Nodes]
  /\ allow_request \in [Conns -> [Nodes -> States]]
  /\ connection \in [Nodes -> [Nodes -> Conns \cup {None}]]
  /\ edges \subseteq Nodes \X Nodes

(* The connection a node_t points to is an active one with that node. *)
Active ==
  \A n, m \in Nodes : connection[n][m] # None =>
    /\ allow_request[connection[n][m]][n] = "ALL"
    /\ Peer(connection[n][m], n) = m

(* EdgeIffConnected alone is not inductive: a connection_t that is made anew *)
(* (do_outgoing_connection) must not be one that some node_t points to.      *)
IInv == Types /\ Active /\ EdgeIffConnected

-----------------------------------------------------------------------------
(* One entry of a table of two dimensions is replaced. *)
LEMMA Update ==
  ASSUME NEW A, NEW B, NEW S, NEW f \in [A -> [B -> S]], NEW a \in A, NEW b \in B, NEW v \in S,
         NEW g, g = [f EXCEPT ![a][b] = v]
  PROVE  /\ g \in [A -> [B -> S]]
         /\ \A x \in A, y \in B : g[x][y] = IF x = a /\ y = b THEN v ELSE f[x][y]
  OBVIOUS

(* The peer of a node is a node. *)
LEMMA PeerIsNode ==
  ASSUME Types, NEW c \in Conns, NEW n \in Nodes
  PROVE  Peer(c, n) \in Nodes
  BY DEF Types, Peer, From, To

(* Initially there is no connection. *)
LEMMA InitIInv == ConstantsOK /\ Init => IInv
<1> SUFFICES ASSUME ConstantsOK, Init PROVE IInv
  OBVIOUS
<1>1. ends \in [Conns -> Nodes \X Nodes]
  <2>1. (CHOOSE p \in connect_to : TRUE) \in Nodes \X Nodes
    BY DEF Init, ConstantsOK
  <2> QED BY Zenon, <2>1 DEF Init
<1>2. Types
  BY Zenon, <1>1 DEF Types, Init, States
<1>3. Active /\ EdgeIffConnected
  BY <1>2 DEF Types, Active, EdgeIffConnected, Init, Exists
<1> QED BY <1>2, <1>3 DEF IInv

(* What do_outgoing_connection does to the connection_t's there are: nothing *)
(* but what its caller did.                                                  *)
LEMMA OutgoingIsNew ==
  ASSUME Types, NEW n \in Nodes, NEW m \in Nodes, NEW lnk, NEW out, NEW timers,
         NEW allow \in [Conns -> [Nodes -> States]],
         \A x \in Conns, y \in Nodes : ~Exists(x, y) => allow[x][y] = "none",
         do_outgoing_connection(n, m, lnk, allow, out, timers)
  PROVE  /\ ends' \in [Conns -> Nodes \X Nodes]
         /\ allow_request' \in [Conns -> [Nodes -> States]]
         /\ \A x \in Conns, y \in Nodes : Exists(x, y) =>
              ends'[x] = ends[x] /\ allow_request'[x][y] = allow[x][y]
         /\ \A x \in Conns, y \in Nodes : ~Exists(x, y) => allow_request'[x][y] # "ALL"
<1>1. CASE ends' = ends /\ allow_request' = allow
  BY <1>1 DEF Types
<1>2. ASSUME NEW c \in Conns, Unused(c), ends' = [ends EXCEPT ![c] = <<n, m>>],
             allow_request' = [allow EXCEPT ![c][n] = "ID"]
      PROVE  /\ ends' \in [Conns -> Nodes \X Nodes]
             /\ allow_request' \in [Conns -> [Nodes -> States]]
             /\ \A x \in Conns, y \in Nodes : Exists(x, y) =>
                  ends'[x] = ends[x] /\ allow_request'[x][y] = allow[x][y]
             /\ \A x \in Conns, y \in Nodes : ~Exists(x, y) => allow_request'[x][y] # "ALL"
  <2>1. "ID" \in States
    BY DEF States
  <2>2. /\ allow_request' \in [Conns -> [Nodes -> States]]
        /\ \A x \in Conns, y \in Nodes :
             allow_request'[x][y] = IF x = c /\ y = n THEN "ID" ELSE allow[x][y]
    BY <1>2, <2>1, Update
  <2>3. /\ ends' \in [Conns -> Nodes \X Nodes]
        /\ \A x \in Conns : x # c => ends'[x] = ends[x]
    BY <1>2 DEF Types
  <2>4. \A y \in Nodes : ~Exists(c, y)
    BY <1>2 DEF Unused
  <2> QED BY <2>2, <2>3, <2>4
<1> QED BY <1>1, <1>2 DEF do_outgoing_connection

(* terminate_connection keeps the invariant. *)
LEMMA TerminateKeeps ==
  ASSUME ConstantsOK, IInv, NEW c \in Conns, NEW n \in Nodes, Exists(c, n), terminate_connection(c, n)
  PROVE  IInv'
<1> DEFINE m == Peer(c, n)
           allow == [allow_request EXCEPT ![c][n] = "none"]
<1>a. Types /\ Active /\ EdgeIffConnected
  BY DEF IInv
<1>b. None \notin Conns
  BY DEF ConstantsOK
<1>c. /\ ends \in [Conns -> Nodes \X Nodes]
      /\ allow_request \in [Conns -> [Nodes -> States]]
      /\ connection \in [Nodes -> [Nodes -> Conns \cup {None}]]
      /\ edges \subseteq Nodes \X Nodes
  BY <1>a DEF Types
<1>1. m \in Nodes
  BY <1>a, PeerIsNode
<1>2. /\ allow \in [Conns -> [Nodes -> States]]
      /\ \A x \in Conns, y \in Nodes : allow[x][y] = IF x = c /\ y = n THEN "none" ELSE allow_request[x][y]
  <2>1. "none" \in States
    BY DEF States
  <2>2. allow = [allow_request EXCEPT ![c][n] = "none"]
    OBVIOUS
  <2> HIDE DEF allow
  <2> QED BY <2>1, <2>2, <1>c, Update
<1>3. \A x \in Conns, y \in Nodes : ~Exists(x, y) => allow[x][y] = "none"
  BY <1>2 DEF Exists
<1> HIDE DEF allow
<1>4. /\ ends' \in [Conns -> Nodes \X Nodes]
      /\ allow_request' \in [Conns -> [Nodes -> States]]
      /\ \A x \in Conns, y \in Nodes : Exists(x, y) =>
           ends'[x] = ends[x] /\ allow_request'[x][y] = allow[x][y]
      /\ \A x \in Conns, y \in Nodes : ~Exists(x, y) => allow_request'[x][y] # "ALL"
  <2>1. CASE Redials(c, n)
    <3>1. do_outgoing_connection(n, m, [link EXCEPT ![c] = "shut"], allow,
                                 [outgoing EXCEPT ![c] = @ \ {n}], ev)
      BY <2>1 DEF terminate_connection, allow
    <3> HIDE DEF m
    <3> QED BY <1>a, <3>1, <1>1, <1>2, <1>3, OutgoingIsNew
  <2>2. CASE ~Redials(c, n)
    <3>1. ends' = ends /\ allow_request' = allow
      BY <2>2 DEF terminate_connection, allow
    <3> QED BY <3>1, <1>2, <1>3, <1>c
  <2> QED BY <2>1, <2>2
<1>5. /\ connection' \in [Nodes -> [Nodes -> Conns \cup {None}]]
      /\ \A x, y \in Nodes : connection'[x][y] =
           IF x = n /\ y = m /\ connection[n][m] = c THEN None ELSE connection[x][y]
  <2>1. connection' = [connection EXCEPT ![n][m] = IF connection[n][m] = c THEN None ELSE connection[n][m]]
    BY <1>1, <1>c DEF terminate_connection
  <2>2. (IF connection[n][m] = c THEN None ELSE connection[n][m]) \in Conns \cup {None}
    BY <1>1, <1>c
  <2> HIDE DEF m
  <2> DEFINE w == IF connection[n][m] = c THEN None ELSE connection[n][m]
  <2>3. connection' = [connection EXCEPT ![n][m] = w] /\ w \in Conns \cup {None}
    BY <2>1, <2>2
  <2> HIDE DEF w
  <2>4. /\ connection' \in [Nodes -> [Nodes -> Conns \cup {None}]]
        /\ \A x, y \in Nodes : connection'[x][y] = IF x = n /\ y = m THEN w ELSE connection[x][y]
    BY <2>3, <1>1, <1>c, Update
  <2> QED BY <2>4, <1>1 DEF w
<1>6. edges' = IF allow_request[c][n] = "ALL" THEN edges \ {<<n, m>>} ELSE edges
  BY DEF terminate_connection
<1>7. Types'
  BY <1>c, <1>4, <1>5, <1>6 DEF Types
<1>8. \A x \in Conns, y \in Nodes : Exists(x, y) => Peer(x, y)' = Peer(x, y)
  BY <1>4 DEF Peer, From, To
<1>9. allow_request[c][n] = "ALL" <=> connection[n][m] = c
  BY <1>a DEF EdgeIffConnected
<1>10. Active'
  <2> SUFFICES ASSUME NEW x \in Nodes, NEW y \in Nodes, (connection[x][y] # None)'
               PROVE  (allow_request[connection[x][y]][x] = "ALL" /\ Peer(connection[x][y], x) = y)'
    BY DEF Active
  <2>1. PICK k \in Conns : k = connection[x][y] /\ k = connection'[x][y] /\ ~(x = n /\ y = m /\ k = c)
    BY <1>1, <1>5, <1>c
  <2>2. allow_request[k][x] = "ALL" /\ Peer(k, x) = y
    BY Zenon, <2>1, <1>a, <1>b DEF Active
  <2>3. Exists(k, x) /\ allow[k][x] = "ALL"
    BY <2>1, <2>2, <1>2 DEF Exists
  <2>4. allow_request'[k][x] = "ALL" /\ Peer(k, x)' = y
    BY <2>2, <2>3, <1>4, <1>8
  <2> QED BY <2>1, <2>4 DEF Peer, From, To
<1>11. \A x \in Conns, y \in Nodes :
         (allow_request[x][y] = "ALL")' <=> (Exists(x, y) /\ connection[y][Peer(x, y)] = x)'
  <2> TAKE x \in Conns, y \in Nodes
  <2>1. CASE Exists(x, y)
    <3>1. Peer(x, y) \in Nodes /\ Peer(x, y)' = Peer(x, y)
      BY <2>1, <1>a, <1>8, PeerIsNode
    <3>2. allow_request[x][y] = "ALL" <=> connection[y][Peer(x, y)] = x
      BY <2>1, <1>a DEF EdgeIffConnected
    <3>3. allow_request'[x][y] = IF x = c /\ y = n THEN "none" ELSE allow_request[x][y]
      BY <2>1, <1>2, <1>4
    <3>4. Exists(x, y)' <=> allow_request'[x][y] # "none"
      BY DEF Exists
    <3> DEFINE p == Peer(x, y)
    <3>5. connection'[y][p] = IF y = n /\ p = m /\ connection[n][m] = c THEN None ELSE connection[y][p]
      BY <3>1, <1>5
    <3>6. CASE x = c /\ y = n
      BY <3>6, <3>1, <3>2, <3>3, <3>4, <3>5, <1>b
    <3>7. CASE ~(x = c /\ y = n)
      BY <3>7, <2>1, <3>1, <3>2, <3>3, <3>4, <3>5, <1>b DEF Exists
    <3> QED BY <3>6, <3>7
  <2>2. CASE ~Exists(x, y)
    <3>1. \A z \in Nodes : connection[y][z] # x
      BY <2>2, <1>a, <1>b DEF Active, Exists
    <3>2. Peer(x, y)' \in Nodes
      BY <1>4 DEF Peer, From, To
    <3>3. connection'[y][Peer(x, y)'] # x
      BY <3>1, <3>2, <1>5, <1>b
    <3> QED BY <2>2, <3>3, <1>4
  <2> QED BY <2>1, <2>2
<1>12. \A x, y \in Nodes : <<x, y>> \in edges' <=> connection'[x][y] # None
  <2> TAKE x, y \in Nodes
  <2>1. <<x, y>> \in edges <=> connection[x][y] # None
    BY Zenon, <1>a DEF EdgeIffConnected
  <2>2. <<x, y>> = <<n, m>> <=> x = n /\ y = m
    OBVIOUS
  <2> HIDE DEF m
  <2> QED BY <2>1, <2>2, <1>1, <1>5, <1>6, <1>9, <1>b
<1>13. EdgeIffConnected'
  BY <1>11, <1>12 DEF EdgeIffConnected
<1> QED BY <1>7, <1>10, <1>13 DEF IInv

(* What IInv says, piece by piece. *)
LEMMA Pieces ==
  ASSUME ConstantsOK, IInv
  PROVE  /\ None \notin Conns
         /\ ends \in [Conns -> Nodes \X Nodes]
         /\ allow_request \in [Conns -> [Nodes -> States]]
         /\ connection \in [Nodes -> [Nodes -> Conns \cup {None}]]
         /\ edges \subseteq Nodes \X Nodes
         /\ \A c \in Conns, n \in Nodes : Peer(c, n) \in Nodes
         /\ \A c \in Conns, n \in Nodes :
              allow_request[c][n] = "ALL" <=> connection[n][Peer(c, n)] = c
         /\ \A c \in Conns, n, m \in Nodes : connection[n][m] = c => Peer(c, n) = m
         /\ \A n, m \in Nodes : <<n, m>> \in edges <=> connection[n][m] # None
<1>1. Types /\ Active /\ EdgeIffConnected /\ None \notin Conns
  BY DEF IInv, ConstantsOK
<1>2. \A c \in Conns, n \in Nodes : Peer(c, n) \in Nodes
  BY <1>1, PeerIsNode
<1>3. ASSUME NEW c \in Conns, NEW n \in Nodes
      PROVE  allow_request[c][n] = "ALL" <=> connection[n][Peer(c, n)] = c
  BY <1>1, <1>2 DEF EdgeIffConnected, Active, Exists
<1>4. ASSUME NEW c \in Conns, NEW n \in Nodes, NEW m \in Nodes, connection[n][m] = c
      PROVE  Peer(c, n) = m
  BY <1>1, <1>4 DEF Active
<1> QED BY <1>1, <1>2, <1>3, <1>4 DEF Types, EdgeIffConnected

(* A step that makes no connection: it is enough to show what the invariant  *)
(* says in terms of the new tables.                                          *)
LEMMA FromPieces ==
  ASSUME ConstantsOK, IInv, ends' = ends,
         allow_request' \in [Conns -> [Nodes -> States]],
         connection' \in [Nodes -> [Nodes -> Conns \cup {None}]],
         edges' \subseteq Nodes \X Nodes,
         \A c \in Conns, n \in Nodes :
           allow_request'[c][n] = "ALL" <=> connection'[n][Peer(c, n)] = c,
         \A c \in Conns, n, m \in Nodes : connection'[n][m] = c => Peer(c, n) = m,
         \A n, m \in Nodes : <<n, m>> \in edges' <=> connection'[n][m] # None
  PROVE  IInv'
<1>1. Types'
  BY Pieces DEF Types
<1>2. \A c, n : Peer(c, n)' = Peer(c, n)
  BY DEF Peer, From, To
<1>3. Active'
  <2> SUFFICES ASSUME NEW x \in Nodes, NEW y \in Nodes, (connection[x][y] # None)'
               PROVE  (allow_request[connection[x][y]][x] = "ALL" /\ Peer(connection[x][y], x) = y)'
    BY DEF Active
  <2>1. PICK k \in Conns : k = connection'[x][y]
    OBVIOUS
  <2>2. Peer(k, x) = y
    BY <2>1
  <2>3. allow_request'[k][x] = "ALL"
    BY <2>1, <2>2
  <2> QED BY <2>1, <2>2, <2>3 DEF Peer, From, To
<1>4. EdgeIffConnected'
  <2>1. \A c \in Conns, n \in Nodes :
          allow_request'[c][n] = "ALL" <=> Exists(c, n)' /\ connection'[n][Peer(c, n)'] = c
    BY <1>2 DEF Exists
  <2> QED BY <2>1 DEF EdgeIffConnected
<1> QED BY <1>1, <1>3, <1>4 DEF IInv

(* A connection_t that is not active is made, or goes from ID to ACK. *)
LEMMA InactiveKeeps ==
  ASSUME ConstantsOK, IInv, NEW c \in Conns, NEW n \in Nodes, NEW v \in States \ {"ALL"},
         allow_request[c][n] # "ALL", allow_request' = [allow_request EXCEPT ![c][n] = v],
         UNCHANGED <<ends, connection, edges>>
  PROVE  IInv'
<1>1. /\ allow_request' \in [Conns -> [Nodes -> States]]
      /\ \A x \in Conns, y \in Nodes : allow_request'[x][y] = IF x = c /\ y = n THEN v ELSE allow_request[x][y]
  <2>1. allow_request \in [Conns -> [Nodes -> States]] /\ v \in States
    BY Pieces
  <2> QED BY <2>1, Update, SMTT(30)
<1>2. \A x \in Conns, y \in Nodes : allow_request'[x][y] = "ALL" <=> allow_request[x][y] = "ALL"
  BY <1>1
<1>3. connection' = connection /\ edges' = edges /\ ends' = ends
  OBVIOUS
<1>4. \A x \in Conns, y \in Nodes : allow_request'[x][y] = "ALL" <=> connection'[y][Peer(x, y)] = x
  <2>1. \A x \in Conns, y \in Nodes : allow_request[x][y] = "ALL" <=> connection[y][Peer(x, y)] = x
    BY Pieces
  <2> QED BY <2>1, <1>2, <1>3
<1>5. \A x \in Conns, y, z \in Nodes : connection'[y][z] = x => Peer(x, y) = z
  BY <1>3, Pieces
<1>6. \A y, z \in Nodes : <<y, z>> \in edges' <=> connection'[y][z] # None
  <2>1. \A y, z \in Nodes : <<y, z>> \in edges <=> connection[y][z] # None
    BY Zenon, Pieces
  <2> QED BY ONLY Zenon, <2>1, <1>3
<1>7. connection' \in [Nodes -> [Nodes -> Conns \cup {None}]] /\ edges' \subseteq Nodes \X Nodes
  BY <1>3, Pieces
<1> QED BY <1>1, <1>3, <1>4, <1>5, <1>6, <1>7, FromPieces

(* ack_h makes c the connection of n with its peer, in place of the one      *)
(* there was, or of none.                                                    *)
Activation(c, n) ==
  /\ ends' = ends
  /\ connection' = [connection EXCEPT ![n][Peer(c, n)] = c]
  /\ edges' = edges \cup {<<n, Peer(c, n)>>}
  /\ allow_request' \in [Conns -> [Nodes -> States]]
  /\ \A x \in Conns, y \in Nodes : allow_request'[x][y] =
       IF x = c /\ y = n THEN "ALL"
       ELSE IF x = connection[n][Peer(c, n)] /\ y = n THEN "none" ELSE allow_request[x][y]

(* It keeps the invariant. *)
LEMMA ActivationKeeps ==
  ASSUME ConstantsOK, IInv, NEW c \in Conns, NEW n \in Nodes, allow_request[c][n] = "ACK", Activation(c, n)
  PROVE  IInv'
<1> DEFINE m == Peer(c, n)
           old == connection[n][m]
<1>1. m \in Nodes /\ old \in Conns \cup {None} /\ None \notin Conns
  BY Pieces
<1>2. /\ connection' \in [Nodes -> [Nodes -> Conns \cup {None}]]
      /\ \A y, z \in Nodes : connection'[y][z] = IF y = n /\ z = m THEN c ELSE connection[y][z]
  <2>1. connection \in [Nodes -> [Nodes -> Conns \cup {None}]] /\ c \in Conns \cup {None}
    BY Pieces
  <2>2. connection' = [connection EXCEPT ![n][m] = c]
    BY DEF Activation
  <2> HIDE DEF m
  <2> QED BY <2>1, <2>2, <1>1, Update
<1>3. \A x \in Conns, y \in Nodes : allow_request[x][y] = "ALL" <=> connection[y][Peer(x, y)] = x
  BY Pieces
<1>4. \A x \in Conns, y \in Nodes : Peer(x, y) \in Nodes
  BY Pieces
<1>5. \A x \in Conns, y, z \in Nodes : connection[y][z] = x => Peer(x, y) = z
  BY Pieces
<1>6. \A x \in Conns, y \in Nodes : allow_request'[x][y] = "ALL" <=> connection'[y][Peer(x, y)] = x
  <2> TAKE x \in Conns, y \in Nodes
  <2>1. CASE x = c /\ y = n
    BY <2>1, <1>1, <1>2 DEF Activation
  <2>2. CASE x # c /\ x = old /\ y = n
    <3>1. Peer(x, y) = m
      BY <2>2, <1>1, <1>5
    <3>2. allow_request'[x][y] = "none"
      BY <2>2 DEF Activation
    <3> QED BY <2>2, <3>1, <3>2, <1>1, <1>2
  <2>3. CASE ~(x = c /\ y = n) /\ ~(x = old /\ y = n)
    <3>1. allow_request'[x][y] = allow_request[x][y]
      BY <2>3 DEF Activation
    <3>2. connection'[y][Peer(x, y)] = x <=> connection[y][Peer(x, y)] = x
      BY <2>3, <1>2, <1>4
    <3> QED BY <3>1, <3>2, <1>3
  <2> QED BY <2>1, <2>2, <2>3
<1>7. \A x \in Conns, y, z \in Nodes : connection'[y][z] = x => Peer(x, y) = z
  BY <1>2, <1>5
<1>8. edges' = edges \cup {<<n, m>>} /\ edges' \subseteq Nodes \X Nodes
  <2>1. edges \subseteq Nodes \X Nodes
    BY Pieces
  <2>2. edges' = edges \cup {<<n, m>>}
    BY DEF Activation
  <2> HIDE DEF m
  <2> QED BY <2>1, <2>2, <1>1
<1>9. \A y, z \in Nodes : <<y, z>> \in edges' <=> connection'[y][z] # None
  <2>1. \A y, z \in Nodes : <<y, z>> \in edges <=> connection[y][z] # None
    BY Zenon, Pieces
  <2> HIDE DEF m
  <2> TAKE y, z \in Nodes
  <2>2. <<y, z>> \in edges' <=> <<y, z>> \in edges \/ (y = n /\ z = m)
    BY Zenon, <1>8
  <2>3. connection'[y][z] = IF y = n /\ z = m THEN c ELSE connection[y][z]
    BY <1>2
  <2>4. c # None
    BY <1>1
  <2> QED BY <2>1, <2>2, <2>3, <2>4
<1>10. ends' = ends /\ allow_request' \in [Conns -> [Nodes -> States]]
  BY DEF Activation
<1> QED BY <1>2, <1>6, <1>7, <1>8, <1>9, <1>10, FromPieces

(* A daemon that starts again has no connection and no edge. *)
LEMMA RestartKeeps ==
  ASSUME ConstantsOK, IInv, NEW n \in Nodes, Restart(n)
  PROVE  IInv'
<1>1. /\ allow_request' \in [Conns -> [Nodes -> States]]
      /\ \A x \in Conns, y \in Nodes : allow_request'[x][y] = IF y = n THEN "none" ELSE allow_request[x][y]
  <2>1. allow_request \in [Conns -> [Nodes -> States]] /\ "none" \in States
    BY Pieces DEF States
  <2>2. allow_request' = [c \in Conns |-> [allow_request[c] EXCEPT ![n] = "none"]]
    BY DEF Restart
  <2> QED BY <2>1, <2>2
<1>2. /\ connection' \in [Nodes -> [Nodes -> Conns \cup {None}]]
      /\ \A y, z \in Nodes : connection'[y][z] = IF y = n THEN None ELSE connection[y][z]
  <2>1. connection \in [Nodes -> [Nodes -> Conns \cup {None}]]
    BY Pieces
  <2>2. connection' = [connection EXCEPT ![n] = [m \in Nodes |-> None]]
    BY DEF Restart
  <2> QED BY <2>1, <2>2
<1>3. edges' = {e \in edges : e[1] # n} /\ ends' = ends
  BY DEF Restart
<1>4. None \notin Conns /\ \A x \in Conns, y \in Nodes : Peer(x, y) \in Nodes
  BY Pieces
<1>5. \A x \in Conns, y \in Nodes : allow_request'[x][y] = "ALL" <=> connection'[y][Peer(x, y)] = x
  <2>1. \A x \in Conns, y \in Nodes : allow_request[x][y] = "ALL" <=> connection[y][Peer(x, y)] = x
    BY Pieces
  <2> TAKE x \in Conns, y \in Nodes
  <2>2. Peer(x, y) \in Nodes /\ x # None
    BY <1>4
  <2>3. connection'[y][Peer(x, y)] = IF y = n THEN None ELSE connection[y][Peer(x, y)]
    BY <2>2, <1>2
  <2>4. allow_request'[x][y] = IF y = n THEN "none" ELSE allow_request[x][y]
    BY <1>1
  <2> QED BY <2>1, <2>2, <2>3, <2>4
<1>6. \A x \in Conns, y, z \in Nodes : connection'[y][z] = x => Peer(x, y) = z
  <2>1. \A x \in Conns, y, z \in Nodes : connection[y][z] = x => Peer(x, y) = z
    BY Pieces
  <2> QED BY <2>1, <1>2, <1>4
<1>7. edges' \subseteq Nodes \X Nodes
  BY <1>3, Pieces
<1>8. \A y, z \in Nodes : <<y, z>> \in edges' <=> connection'[y][z] # None
  <2>1. \A y, z \in Nodes : <<y, z>> \in edges <=> connection[y][z] # None
    BY Zenon, Pieces
  <2> TAKE y, z \in Nodes
  <2>2. <<y, z>> \in edges' <=> <<y, z>> \in edges /\ y # n
    BY Zenon, <1>3
  <2>3. connection'[y][z] = IF y = n THEN None ELSE connection[y][z]
    BY <1>2
  <2> QED BY <2>1, <2>2, <2>3
<1> QED BY <1>1, <1>2, <1>3, <1>5, <1>6, <1>7, <1>8, FromPieces

-----------------------------------------------------------------------------
(* Every step of a node or of a connection keeps the invariant. *)
LEMMA StepKeeps ==
  ASSUME ConstantsOK, IInv, NEW c \in Conns, NEW n \in Nodes, Step(c, n) \/ EarlyTimeout(c, n)
  PROVE  IInv'
<1>1. CASE ReceiveId(c, n)
  <2>1. "ACK" \in States \ {"ALL"} /\ allow_request[c][n] # "ALL"
    BY <1>1 DEF ReceiveId, States
  <2>2. /\ allow_request' = [allow_request EXCEPT ![c][n] = "ACK"]
        /\ UNCHANGED <<ends, connection, edges>>
    BY <1>1 DEF ReceiveId
  <2> QED BY Zenon, <2>1, <2>2, InactiveKeeps
<1>2. CASE Activate(c, n)
  <2>1. allow_request[c][n] = "ACK" /\ connection[n][Peer(c, n)] = None /\ None \notin Conns
    BY <1>2, Pieces DEF Activate, AckArrives
  <2>2. allow_request' = [allow_request EXCEPT ![c][n] = "ALL"]
    BY <1>2 DEF Activate
  <2>3. allow_request \in [Conns -> [Nodes -> States]] /\ "ALL" \in States
    BY Pieces DEF States
  <2>4. /\ allow_request' \in [Conns -> [Nodes -> States]]
        /\ \A x \in Conns, y \in Nodes : allow_request'[x][y] = IF x = c /\ y = n THEN "ALL" ELSE allow_request[x][y]
    BY <2>2, <2>3, Update
  <2>5. /\ ends' = ends /\ edges' = edges \cup {<<n, Peer(c, n)>>}
        /\ connection' = [connection EXCEPT ![n][Peer(c, n)] = c]
    BY <1>2 DEF Activate
  <2>6. \A x \in Conns, y \in Nodes : allow_request'[x][y] =
          IF x = c /\ y = n THEN "ALL"
          ELSE IF x = connection[n][Peer(c, n)] /\ y = n THEN "none" ELSE allow_request[x][y]
    BY <2>1, <2>4
  <2>7. Activation(c, n)
    BY <2>4, <2>5, <2>6 DEF Activation
  <2> QED BY <2>1, <2>7, ActivationKeeps
<1>3. CASE Replace(c, n)
  <2> DEFINE m == Peer(c, n)
             old == connection[n][m]
             both == [allow_request EXCEPT ![c][n] = "ALL"]
  <2>1. allow_request[c][n] = "ACK" /\ old # None
    BY <1>3 DEF Replace, AckArrives
  <2>2. m \in Nodes /\ old \in Conns
    BY <2>1, Pieces
  <2>3. old # c
    <3>1. allow_request[c][n] = "ALL" <=> connection[n][m] = c
      BY Pieces
    <3> QED BY <2>1, <3>1
  <2>4. allow_request \in [Conns -> [Nodes -> States]] /\ "ALL" \in States /\ "none" \in States
    BY Zenon, Pieces DEF States
  <2>5. allow_request' = [both EXCEPT ![old][n] = "none"]
    BY <1>3 DEF Replace, Allowed
  <2>6. /\ both \in [Conns -> [Nodes -> States]]
        /\ \A x \in Conns, y \in Nodes : both[x][y] = IF x = c /\ y = n THEN "ALL" ELSE allow_request[x][y]
    <3> DEFINE b == both
    <3>1. b = [allow_request EXCEPT ![c][n] = "ALL"]
      OBVIOUS
    <3> HIDE DEF b
    <3>2. /\ b \in [Conns -> [Nodes -> States]]
          /\ \A x \in Conns, y \in Nodes : b[x][y] = IF x = c /\ y = n THEN "ALL" ELSE allow_request[x][y]
      BY <3>1, <2>4, Update
    <3> QED BY <3>2 DEF b
  <2> HIDE DEF both, old
  <2>7. /\ allow_request' \in [Conns -> [Nodes -> States]]
        /\ \A x \in Conns, y \in Nodes : allow_request'[x][y] = IF x = old /\ y = n THEN "none" ELSE both[x][y]
    BY <2>2, <2>4, <2>5, <2>6, Update, SMTT(30)
  <2>8. \A x \in Conns, y \in Nodes : allow_request'[x][y] =
          IF x = c /\ y = n THEN "ALL" ELSE IF x = old /\ y = n THEN "none" ELSE allow_request[x][y]
    BY <2>3, <2>6, <2>7
  <2>9. ends' = ends /\ connection' = [connection EXCEPT ![n][m] = c] /\ edges' = ReplacedEdge(n, m)
    BY <1>3 DEF Replace
  <2>10. edges' = edges \cup {<<n, m>>}
    BY <2>9 DEF ReplacedEdge
  <2>11. Activation(c, n)
    BY <2>7, <2>8, <2>9, <2>10 DEF Activation, old
  <2> QED BY <2>1, <2>11, ActivationKeeps
<1>4. CASE Reject(c, n)
  <2>1. Exists(c, n) /\ terminate_connection(c, n)
    BY <1>4 DEF Reject, AckArrives, Exists
  <2> QED BY <2>1, TerminateKeeps
<1>5. CASE Timeout(c, n) \/ EarlyTimeout(c, n)
  <2>1. Exists(c, n) /\ terminate_connection(c, n)
    BY <1>5 DEF Timeout, EarlyTimeout
  <2> QED BY <2>1, TerminateKeeps
<1>6. CASE Discard(c, n)
  <2>1. ends' = ends /\ allow_request' = allow_request /\ connection' = connection /\ edges' = edges
    BY <1>6 DEF Discard
  <2> QED BY <2>1 DEF IInv, Types, Active, EdgeIffConnected, Peer, From, To, Exists
<1> QED BY <1>1, <1>2, <1>3, <1>4, <1>5, <1>6 DEF Step

(* An outgoing connection that is set up, or not made as there is one        *)
(* already, keeps the invariant.                                             *)
LEMMA SetupKeeps ==
  ASSUME ConstantsOK, IInv, NEW n \in Nodes, NEW m \in Nodes, SetupOutgoing(n, m)
  PROVE  IInv'
<1>1. CASE connection[n][m] = None
  <2>1. connection' = connection /\ edges' = edges
    BY DEF SetupOutgoing
  <2>2. do_outgoing_connection(n, m, link, allow_request, outgoing, ev \ {<<n, m>>})
    BY <1>1 DEF SetupOutgoing
  <2>3. Types /\ allow_request \in [Conns -> [Nodes -> States]]
    BY Pieces DEF IInv
  <2>4. \A x \in Conns, y \in Nodes : ~Exists(x, y) => allow_request[x][y] = "none"
    BY Zenon DEF Exists
  <2>5. /\ ends' \in [Conns -> Nodes \X Nodes]
        /\ allow_request' \in [Conns -> [Nodes -> States]]
        /\ \A x \in Conns, y \in Nodes : Exists(x, y) =>
             ends'[x] = ends[x] /\ allow_request'[x][y] = allow_request[x][y]
        /\ \A x \in Conns, y \in Nodes : ~Exists(x, y) => allow_request'[x][y] # "ALL"
    BY <2>2, <2>3, <2>4, OutgoingIsNew
  <2>6. Types'
    BY <2>1, <2>3, <2>5 DEF Types
  <2>7. \A x \in Conns, y \in Nodes : Exists(x, y) => Peer(x, y)' = Peer(x, y)
    BY <2>5 DEF Peer, From, To
  <2>8. ASSUME NEW x \in Conns, NEW y \in Nodes, NEW z \in Nodes, connection[y][z] = x
        PROVE  Exists(x, y) /\ allow_request'[x][y] = "ALL" /\ Peer(x, y)' = z
    <3>1. Peer(x, y) = z
      BY <2>8, Pieces
    <3>2. allow_request[x][y] = "ALL" <=> connection[y][Peer(x, y)] = x
      BY Pieces
    <3>3. allow_request[x][y] = "ALL"
      BY <2>8, <3>1, <3>2
    <3>4. Exists(x, y)
      BY <3>3 DEF Exists
    <3> QED BY <3>1, <3>3, <3>4, <2>5, <2>7
  <2>9. Active'
    <3> SUFFICES ASSUME NEW x \in Nodes, NEW y \in Nodes, (connection[x][y] # None)'
                 PROVE  (allow_request[connection[x][y]][x] = "ALL" /\ Peer(connection[x][y], x) = y)'
      BY DEF Active
    <3>1. PICK k \in Conns : k = connection[x][y] /\ k = connection'[x][y]
      BY <2>1, Pieces
    <3>2. allow_request'[k][x] = "ALL" /\ Peer(k, x)' = y
      BY Zenon, <3>1, <2>8
    <3> QED BY <3>1, <3>2 DEF Peer, From, To
  <2>10. ASSUME NEW x \in Conns, NEW y \in Nodes
         PROVE  (allow_request[x][y] = "ALL")' <=> (Exists(x, y) /\ connection[y][Peer(x, y)] = x)'
    <3>1. Peer(x, y)' \in Nodes
      BY <2>5 DEF Peer, From, To
    <3>2. CASE Exists(x, y)
      <4>1. allow_request[x][y] = "ALL" <=> connection[y][Peer(x, y)] = x
        BY Pieces
      <4>2. Peer(x, y)' = Peer(x, y) /\ allow_request'[x][y] = allow_request[x][y]
        BY <3>2, <2>5, <2>7
      <4> QED BY <4>1, <4>2, <3>2, <2>1 DEF Exists
    <3>3. CASE ~Exists(x, y)
      <4>1. connection[y][Peer(x, y)'] # x
        BY <3>1, <3>3, <2>8
      <4> QED BY <4>1, <3>3, <2>1, <2>5
    <3> QED BY <3>2, <3>3
  <2>11. \A x, y \in Nodes : <<x, y>> \in edges' <=> connection'[x][y] # None
    BY Zenon, <2>1, Pieces
  <2>12. EdgeIffConnected'
    BY <2>10, <2>11 DEF EdgeIffConnected
  <2> QED BY <2>6, <2>9, <2>12 DEF IInv
<1>2. CASE connection[n][m] # None
  <2>1. ends' = ends /\ allow_request' = allow_request /\ connection' = connection /\ edges' = edges
    BY <1>2 DEF SetupOutgoing
  <2> QED BY <2>1 DEF IInv, Types, Active, EdgeIffConnected, Peer, From, To, Exists
<1> QED BY <1>1, <1>2

-----------------------------------------------------------------------------
(* However many daemons there are, whatever their ConnectTo's, and however   *)
(* many connections are made, lost and replaced at the same time: a node has *)
(* at most one active connection with another, the one its node_t points to, *)
(* and announces an edge exactly while it has it (ack_h,                     *)
(* terminate_connection).                                                    *)
THEOREM OneConnection ==
  ASSUME ConstantsOK
  PROVE  Spec => []EdgeIffConnected
<1>1. Init => IInv
  BY InitIInv
<1>2. IInv /\ [Next]_vars => IInv'
  <2> SUFFICES ASSUME IInv, [Next]_vars PROVE IInv'
    OBVIOUS
  <2>1. ASSUME NEW n \in Nodes, NEW m \in Nodes, SetupOutgoing(n, m) PROVE IInv'
    BY <2>1, SetupKeeps
  <2>2. ASSUME NEW c \in Conns, Accept(c) PROVE IInv'
    <3>1. To(c) \in Nodes
      BY Pieces DEF To
    <3>2. "ID" \in States \ {"ALL"} /\ allow_request[c][To(c)] # "ALL"
      BY <2>2 DEF Accept, Exists, States
    <3>3. /\ allow_request' = [allow_request EXCEPT ![c][To(c)] = "ID"]
          /\ UNCHANGED <<ends, connection, edges>>
      BY <2>2 DEF Accept
    <3> HIDE <2>2
    <3> QED BY Zenon, <3>1, <3>2, <3>3, InactiveKeeps
  <2>3. ASSUME NEW c \in Conns, Connected(c) \/ Lose(c) PROVE IInv'
    <3>1. ends' = ends /\ allow_request' = allow_request /\ connection' = connection /\ edges' = edges
      BY <2>3 DEF Connected, Lose
    <3> QED BY <3>1 DEF IInv, Types, Active, EdgeIffConnected, Peer, From, To, Exists
  <2>4. ASSUME NEW c \in Conns, NEW n \in Nodes, Step(c, n) \/ EarlyTimeout(c, n) PROVE IInv'
    BY <2>4, StepKeeps
  <2>5. ASSUME NEW n \in Nodes, Restart(n) PROVE IInv'
    BY <2>5, RestartKeeps
  <2>6. CASE UNCHANGED vars
    <3>1. ends' = ends /\ allow_request' = allow_request /\ connection' = connection /\ edges' = edges
      BY <2>6 DEF vars
    <3> QED BY <3>1 DEF IInv, Types, Active, EdgeIffConnected, Peer, From, To, Exists
  <2> QED BY <2>1, <2>2, <2>3, <2>4, <2>5, <2>6 DEF Next
<1>3. IInv => EdgeIffConnected
  BY DEF IInv
<1> QED BY <1>1, <1>2, <1>3, PTL DEF Spec
=============================================================================
