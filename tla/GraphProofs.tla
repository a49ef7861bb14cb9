---------------------------- MODULE GraphProofs -----------------------------
(***************************************************************************)
(* Proofs about graph() for every network: whatever the nodes, the edges   *)
(* and the changes between two calls are, sssp_bfs finds the connected     *)
(* component of myself, gives its nodes next hops among the neighbours of  *)
(* myself, and node_udp_tree follows.                                      *)
(***************************************************************************)
EXTENDS Graph, FiniteSetTheorems, TLAPS

USE NodesAssumption, ChangesAssumption

(* sssp_bfs always has a node to start from: its queue is not empty. *)
TypeInv == TypeOK /\ (phase = "bfs" => todo_list # <<>>)

(* The nodes that sssp_bfs can go on to are nodes. *)
LEMMA OnwardNodes == \A n : Onward(n) \subseteq Nodes
  BY DEF Onward

(* Assigning a value of its range keeps a function's type. *)
LEMMA ExceptType ==
  ASSUME NEW S, NEW T, NEW f \in [S -> T], NEW a, NEW b \in T
  PROVE  [f EXCEPT ![a] = b] \in [S -> T]
  BY Zenon

(* Appending an element keeps a sequence's type and leaves it non-empty. *)
LEMMA AppendType ==
  ASSUME NEW S, NEW s \in Seq(S), NEW e \in S
  PROVE  Append(s, e) \in Seq(S) /\ Append(s, e) # <<>>
  <1>1. Append(s, e) \in Seq(S)
    OBVIOUS
  <1>2. Len(Append(s, e)) = Len(s) + 1 /\ Len(s) \in Nat
    OBVIOUS
  <1>3. ASSUME NEW t, t = <<>> PROVE Len(t) = 0
    BY <1>3, Zenon
  <1>4. Append(s, e) # <<>>
    BY <1>2, <1>3
  <1> QED
    BY <1>1, <1>4

(* Every assignment of the model keeps its field in the field's type. *)
LEMMA TypeStep == TypeInv /\ [Next]_vars => TypeInv'
  <1> SUFFICES ASSUME TypeInv, [Next]_vars PROVE TypeInv'
    OBVIOUS
  <1> USE DEF TypeOK, TypeInv
  <1>1. CASE GraphStart
    BY <1>1, OnwardNodes DEF GraphStart
  <1>2. CASE ExamineEdge
    <2> DEFINE n == Head(todo_list)
    <2>1. n \in Nodes
      BY <1>2 DEF ExamineEdge
    <2>2. PICK to \in rest :
            /\ rest' = rest \ {to}
            /\ IF Better(n, to)
               THEN /\ nexthop' = IF TakesNexthop(n, to)
                                  THEN [nexthop EXCEPT ![to] = IF nexthop[n] = myself THEN to
                                                               ELSE nexthop[n]]
                                  ELSE nexthop
                    /\ visited' = visited \cup {to}
                    /\ indirect' = IF ViaIndirect(n, to) THEN indirect \cup {to}
                                   ELSE indirect \ {to}
                    /\ prevedge' = [prevedge EXCEPT ![to] = n]
                    /\ via' = [via EXCEPT ![to] = IF ViaIndirect(n, to) THEN via[n] ELSE to]
                    /\ distance' = [distance EXCEPT ![to] = distance[n] + 1]
                    /\ node_udp_tree' = IF to \notin reachable THEN node_udp_tree \cup {to}
                                        ELSE node_udp_tree
                    /\ todo_list' = Append(todo_list, to)
               ELSE UNCHANGED <<bfsVars, todo_list>>
      BY <1>2, Zenon DEF ExamineEdge
    <2>3. UNCHANGED <<myself, edges, phase, reachable, device, mst, scan, changes>>
      BY <1>2 DEF ExamineEdge
    <2>4. CASE Better(n, to)
      <3> HIDE DEF n
      <3>1. to \in Nodes /\ nexthop[n] \in Nodes \cup {None} /\ via[n] \in Nodes \cup {None}
            /\ distance[n] + 1 \in Int
        BY <2>1, <2>2, SMTT(30)
      <3>2. nexthop' \in [Nodes -> Nodes \cup {None}]
        <4>1. \/ nexthop' = nexthop
              \/ nexthop' = [nexthop EXCEPT ![to] = to]
              \/ nexthop' = [nexthop EXCEPT ![to] = nexthop[n]]
          BY <2>2, <2>4 DEF TypeOK
        <4> QED
          BY <3>1, <4>1, ExceptType
      <3>3. via' \in [Nodes -> Nodes \cup {None}]
        <4>1. via' = [via EXCEPT ![to] = to] \/ via' = [via EXCEPT ![to] = via[n]]
          BY <2>2, <2>4
        <4> QED
          BY <3>1, <4>1, ExceptType
      <3>4. prevedge' \in [Nodes -> Nodes \cup {None}] /\ distance' \in [Nodes -> Int]
        <4>1. /\ prevedge' = [prevedge EXCEPT ![to] = n]
              /\ distance' = [distance EXCEPT ![to] = distance[n] + 1]
          BY Zenon, <2>2, <2>4
        <4> QED
          BY <2>1, <3>1, <4>1, ExceptType
      <3>5. visited' \subseteq Nodes /\ indirect' \subseteq Nodes /\ node_udp_tree' \subseteq Nodes
        BY <2>2, <2>4, <3>1, ZenonT(30)
      <3>6. todo_list' \in Seq(Nodes) /\ todo_list' # <<>> /\ rest' \subseteq Nodes
        <4>1. todo_list' = Append(todo_list, to) /\ rest' = rest \ {to}
          BY <2>2, <2>4
        <4> QED
          BY <3>1, <4>1, AppendType, Zenon
      <3> QED
        BY <2>3, <3>2, <3>3, <3>4, <3>5, <3>6, Zenon
    <2>5. CASE ~Better(n, to)
      BY Zenon, <2>2, <2>3, <2>5 DEF bfsVars
    <2> QED
      BY <2>4, <2>5, Zenon
  <1>3. CASE NextTodo
    <2>1. todo_list' \in Seq(Nodes)
      BY <1>3 DEF NextTodo
    <2>2. rest' \subseteq Nodes
      <3>1. rest' = rest \/ rest' = Onward(Head(todo_list'))
        BY Zenon, <1>3 DEF NextTodo
      <3>2. rest \subseteq Nodes
        BY Zenon
      <3> QED
        BY ONLY Zenon, <3>1, <3>2, OnwardNodes
    <2> QED
      BY <1>3, <2>1, <2>2, Zenon DEF NextTodo, bfsVars
  <1>4. CASE CheckReachability
    <2>1. visited' \subseteq Nodes
      BY <1>4 DEF CheckReachability, Edges
    <2>2. device' \in {"up", "down"}
      BY <1>4 DEF CheckReachability
    <2>3. node_udp_tree' \subseteq Nodes /\ indirect' \subseteq Nodes
      BY <1>4 DEF CheckReachability
    <2> QED
      BY Zenon, <1>4, <2>1, <2>2, <2>3 DEF CheckReachability
  <1>5. CASE AddSafeEdge
    <2>1. PICK e \in Safe :
            /\ visited' = visited \cup {e[1], e[2]}
            /\ mst' = mst \cup {{e[1], e[2]}}
            /\ scan' \in {None, e}
      BY <1>5, Zenon DEF AddSafeEdge
    <2>2. e \in Edges /\ e[1] \in Nodes /\ e[2] \in Nodes
      BY <2>1, Zenon DEF Safe, Ahead, Edges
    <2> QED
      BY <1>5, <2>1, <2>2, ZenonT(30) DEF AddSafeEdge
  <1>6. CASE GraphDone
    BY <1>6 DEF GraphDone, bfsVars
  <1>7. CASE ChangeEdge
    <2>1. DOMAIN edges' \subseteq Edges /\ edges' \in [DOMAIN edges' -> EdgeTypes]
      <3>1. PICK e \in Edges :
              \/ \E t \in EdgeTypes :
                   edges' = [f \in DOMAIN edges \cup {e} |-> IF f = e THEN t ELSE edges[f]]
              \/ e \in DOMAIN edges /\ edges' = [f \in DOMAIN edges \ {e} |-> edges[f]]
        BY <1>7, Zenon DEF ChangeEdge
      <3>2. CASE \E t \in EdgeTypes :
                   edges' = [f \in DOMAIN edges \cup {e} |-> IF f = e THEN t ELSE edges[f]]
        BY <3>2
      <3>3. CASE edges' = [f \in DOMAIN edges \ {e} |-> edges[f]]
        BY <3>3
      <3> QED
        BY <3>1, <3>2, <3>3
    <2>2. changes' \in 0..MaxChanges
      BY <1>7 DEF ChangeEdge
    <2> QED
      BY <1>7, <2>1, <2>2 DEF ChangeEdge, bfsVars
  <1>8. CASE UNCHANGED vars
    BY <1>8 DEF vars, bfsVars
  <1> QED
    BY <1>1, <1>2, <1>3, <1>4, <1>5, <1>6, <1>7, <1>8, Zenon DEF Next, GraphStep

(* The initial states have the types. *)
LEMMA TypeInit == Init => TypeInv
  <1> SUFFICES ASSUME Init PROVE TypeInv
    OBVIOUS
  <1>1. PICK D \in SUBSET Edges : \E E \in [D -> EdgeTypes] : InitWith(E)
    BY DEF Init
  <1>2. PICK E \in [D -> EdgeTypes] : InitWith(E)
    BY <1>1
  <1> QED
    BY <1>1, <1>2 DEF Init, InitWith, TypeInv, TypeOK

(* Every field keeps its type, in every network. *)
THEOREM TypeCorrect == Spec => []TypeOK
  <1>1. TypeInv => TypeOK
    BY DEF TypeInv
  <1> QED
    BY <1>1, TypeInit, TypeStep, PTL DEF Spec

-----------------------------------------------------------------------------
(* How todo_list looks after its head is taken off. *)
LEMMA TailFacts ==
  ASSUME NEW S, NEW s \in Seq(S), s # <<>>
  PROVE  /\ Len(Tail(s)) = Len(s) - 1 /\ Len(s) \in Nat
         /\ \A i \in 1..Len(Tail(s)) : Tail(s)[i] = s[i + 1]
         /\ Head(s) = s[1]
  OBVIOUS

Component == ConnectedWith(myself, Links)

(* myself is in its own component. *)
LEMMA SourceConnected == TypeInv => myself \in Component
  BY DEF TypeInv, TypeOK, Component, ConnectedWith

(* sssp_bfs goes on from a connected node to connected nodes only. *)
LEMMA OnwardConnected ==
  ASSUME TypeInv, NEW n \in Component, NEW to \in Onward(n)
  PROVE  to \in Component
  <1>1. <<n, to>> \in Links /\ to \in Nodes
    BY DEF Links, Onward
  <1>2. ASSUME NEW S \in SUBSET Nodes, myself \in S, Closed(S, Links)
        PROVE  to \in S
    <2>1. n \in S
      BY <1>2 DEF Component, ConnectedWith
    <2> QED
      BY <1>1, <1>2, <2>1 DEF Closed
  <1> QED
    BY <1>1, <1>2 DEF Component, ConnectedWith

(* A set of visited nodes from which the search leads nowhere else is all    *)
(* of the component.                                                         *)
LEMMA ClosedContainsComponent ==
  ASSUME TypeInv, NEW S \in SUBSET Nodes, myself \in S, \A v \in S : Onward(v) \subseteq S
  PROVE  Component \subseteq S
  <1>1. Closed(S, Links)
    <2> SUFFICES ASSUME NEW e \in Links, e[1] \in S PROVE e[2] \in S
      BY DEF Closed
    <2>1. e \in Nodes \X Nodes /\ e \in DOMAIN edges /\ HasReverse(e)
      BY Zenon DEF Links, TypeInv, TypeOK, Edges
    <2>2. e = <<e[1], e[2]>> /\ e[2] \in Nodes
      BY <2>1
    <2>3. CASE e[2] = myself
      BY <2>3
    <2>4. CASE e[2] # myself
      <3>1. e[2] \in Onward(e[1])
        BY <2>1, <2>2, <2>4 DEF Onward
      <3> QED
        BY <3>1, Zenon
    <2> QED
      BY <2>3, <2>4
  <1> QED
    BY <1>1 DEF Component, ConnectedWith

(* What sssp_bfs has found at each point.  A visited node whose neighbours   *)
(* have not all been looked at is still in the queue, and of the head of the *)
(* queue only the edges in rest are left.                                    *)
Queued(v) == \E i \in 1..Len(todo_list) : todo_list[i] = v

Searching ==
  /\ myself \in visited
  /\ visited \subseteq Component
  /\ \A i \in 1..Len(todo_list) : todo_list[i] \in visited
  /\ rest \subseteq Onward(Head(todo_list))
  /\ Onward(Head(todo_list)) \ rest \subseteq visited
  /\ \A v \in visited : Onward(v) \subseteq visited \/ Queued(v)

SearchInv ==
  /\ TypeInv
  /\ phase = "bfs" => Searching
  /\ phase = "reachability" => visited = Component
  /\ phase \in {"mst", "done"} => reachable = Component

(* Every step of graph() keeps the invariant of the search. *)
LEMMA SearchStep == SearchInv /\ [Next]_vars => SearchInv'
  <1> SUFFICES ASSUME SearchInv, [Next]_vars PROVE SearchInv'
    OBVIOUS
  <1>0. TypeInv /\ TypeInv'
    BY TypeStep DEF SearchInv
  <1> DEFINE Same == UNCHANGED <<myself, edges>>
  <1>s. Same => Component' = Component /\ \A n : Onward(n)' = Onward(n)
    BY DEF Component, ConnectedWith, Links, Closed, HasReverse, Onward
  <1>1. CASE GraphStart
    <2>1. Same /\ phase' = "bfs" /\ visited' = {myself} /\ todo_list' = <<myself>>
          /\ rest' = Onward(myself)
      BY <1>1 DEF GraphStart
    <2>2. myself \in Component
      BY <1>0, SourceConnected
    <2>3. Searching'
      BY <1>s, <2>1, <2>2 DEF Searching, Queued
    <2> QED
      BY <1>0, <2>1, <2>3 DEF SearchInv
  <1>2. CASE ExamineEdge
    <2> DEFINE n == Head(todo_list)
    <2>1. Searching /\ Same /\ phase = "bfs" /\ phase' = "bfs" /\ todo_list # <<>>
      BY <1>2, <1>0 DEF ExamineEdge, SearchInv, TypeInv
    <2>2. PICK to \in rest :
            /\ rest' = rest \ {to}
            /\ \/ visited' = visited \cup {to} /\ todo_list' = Append(todo_list, to)
               \/ visited' = visited /\ todo_list' = todo_list /\ to \in visited
      BY <1>2 DEF ExamineEdge, Better, bfsVars
    <2>3. todo_list \in Seq(Nodes) /\ n \in visited /\ to \in Nodes
      <3>1. todo_list \in Seq(Nodes) /\ to \in Nodes
        BY <1>0, <2>2 DEF TypeInv, TypeOK
      <3>2. n = todo_list[1] /\ 1 \in 1..Len(todo_list)
        BY <2>1, <3>1
      <3> QED
        BY <2>1, <3>1, <3>2 DEF Searching
    <2>4. to \in Component
      BY <1>0, <2>1, <2>2, <2>3, OnwardConnected DEF Searching
    <2>5. CASE visited' = visited \cup {to} /\ todo_list' = Append(todo_list, to)
      <3>1. Head(todo_list') = n /\ Len(todo_list') = Len(todo_list) + 1
            /\ \A i \in 1..Len(todo_list) : todo_list'[i] = todo_list[i]
            /\ todo_list'[Len(todo_list) + 1] = to /\ Len(todo_list) \in Nat
        BY <2>1, <2>3, <2>5
      <3>2. \A i \in 1..Len(todo_list') : todo_list'[i] \in visited'
        BY <2>1, <2>5, <3>1 DEF Searching
      <3>3. \A v \in visited' : Onward(v) \subseteq visited' \/ Queued(v)'
        BY <2>1, <2>5, <3>1 DEF Searching, Queued
      <3>4. rest' \subseteq Onward(n) /\ Onward(n) \ rest' \subseteq visited'
        BY <2>1, <2>2, <2>5 DEF Searching
      <3> QED
        BY <1>0, <1>s, <2>1, <2>4, <2>5, <3>1, <3>2, <3>3, <3>4 DEF Searching, SearchInv
    <2>6. CASE visited' = visited /\ todo_list' = todo_list /\ to \in visited
      BY <1>0, <1>s, <2>1, <2>2, <2>6 DEF Searching, SearchInv, Queued
    <2> QED
      BY <2>2, <2>5, <2>6
  <1>3. CASE NextTodo
    <2> DEFINE n == Head(todo_list)
    <2>1. Searching /\ Same /\ phase = "bfs" /\ todo_list # <<>> /\ todo_list \in Seq(Nodes)
          /\ visited' = visited /\ reachable' = reachable /\ rest = {} /\ todo_list' = Tail(todo_list)
          /\ phase' \in {"bfs", "reachability"} /\ visited \subseteq Nodes
      BY <1>3, <1>0, SMTT(30) DEF NextTodo, SearchInv, TypeInv, TypeOK, bfsVars
    <2>2. Onward(n) \subseteq visited
      BY <2>1 DEF Searching
    <2>3. /\ Len(todo_list') = Len(todo_list) - 1 /\ Len(todo_list) \in Nat
          /\ \A i \in 1..Len(todo_list') : todo_list'[i] = todo_list[i + 1]
          /\ n = todo_list[1]
      BY <2>1, TailFacts
    <2>4. \A v \in visited : Onward(v) \subseteq visited \/ \E i \in 1..Len(todo_list') : todo_list'[i] = v
      <3> SUFFICES ASSUME NEW v \in visited, ~(Onward(v) \subseteq visited)
                   PROVE  \E i \in 1..Len(todo_list') : todo_list'[i] = v
        OBVIOUS
      <3>1. PICK i \in 1..Len(todo_list) : todo_list[i] = v
        BY <2>1 DEF Searching, Queued
      <3>2. i # 1
        BY <2>2, <2>3, <3>1
      <3>3. i - 1 \in 1..Len(todo_list') /\ todo_list'[i - 1] = v
        BY <2>3, <3>1, <3>2
      <3> QED
        BY <3>3
    <2>5. CASE todo_list' = <<>>
      <3>1. \A v \in visited : Onward(v) \subseteq visited
        BY <2>4, <2>5
      <3>2. visited = Component
        BY <1>0, <2>1, <3>1, ClosedContainsComponent, Zenon DEF Searching
      <3>3. phase' = "reachability"
        BY <1>3, <2>5 DEF NextTodo
      <3> QED
        BY <1>0, <1>s, <2>1, <3>2, <3>3 DEF SearchInv
    <2>6. CASE todo_list' # <<>>
      <3>1. phase' = "bfs" /\ rest' = Onward(Head(todo_list'))
        BY <1>3, <2>6 DEF NextTodo
      <3>2. \A i \in 1..Len(todo_list') : todo_list'[i] \in visited
        BY <2>1, <2>3 DEF Searching
      <3>3. Searching'
        BY <1>s, <2>1, <2>4, <3>1, <3>2, ZenonT(30) DEF Searching, Queued
      <3> QED
        BY <1>0, <3>1, <3>3 DEF SearchInv
    <2> QED
      BY Zenon, <2>5, <2>6
  <1>4. CASE CheckReachability
    BY <1>0, <1>4, <1>s DEF CheckReachability, SearchInv
  <1>5. CASE AddSafeEdge
    BY <1>0, <1>5, <1>s DEF AddSafeEdge, SearchInv
  <1>6. CASE GraphDone
    BY <1>0, <1>6, <1>s DEF GraphDone, SearchInv, bfsVars
  <1>7. CASE ChangeEdge
    BY <1>0, <1>7 DEF ChangeEdge, SearchInv
  <1>8. CASE UNCHANGED vars
    BY <1>0, <1>8, <1>s DEF vars, bfsVars, SearchInv, Searching, Queued
  <1> QED
    BY <1>1, <1>2, <1>3, <1>4, <1>5, <1>6, <1>7, <1>8 DEF Next, GraphStep

(* The invariant of the search holds throughout. *)
LEMMA SearchCorrect == Spec => []SearchInv
  <1>1. Init => SearchInv
    <2>1. Init => phase = "idle"
      BY DEF Init, InitWith
    <2> QED
      BY <2>1, TypeInit DEF SearchInv
  <1> QED
    BY <1>1, SearchStep, PTL DEF Spec

(* The nodes that check_reachability finds reachable are exactly those       *)
(* connected with myself by edges that both ends have announced.             *)
THEOREM ReachabilityCorrect == Spec => []ReachableIsConnected
  <1>1. SearchInv => ReachableIsConnected
    BY DEF SearchInv, ReachableIsConnected, Component
  <1> QED
    BY <1>1, SearchCorrect, PTL

-----------------------------------------------------------------------------
(* The next hops found so far are neighbours of myself. *)
HopInv ==
  /\ SearchInv
  /\ phase = "bfs" => nexthop[myself] = myself
  /\ phase \in {"bfs", "reachability"} => \A n \in visited \ {myself} : nexthop[n] \in Onward(myself)
  /\ phase \in {"mst", "done"} => \A n \in reachable \ {myself} : nexthop[n] \in Onward(myself)

(* Every step of graph() keeps the next hops among the neighbours. *)
LEMMA HopStep == HopInv /\ [Next]_vars => HopInv'
  <1> SUFFICES ASSUME HopInv, [Next]_vars PROVE HopInv'
    OBVIOUS
  <1>0. SearchInv /\ SearchInv' /\ TypeInv /\ TypeOK
    BY SearchStep DEF HopInv, SearchInv, TypeInv
  <1>s. UNCHANGED <<myself, edges>> => Onward(myself)' = Onward(myself)
    BY DEF HasReverse, Onward
  <1>1. CASE GraphStart
    <2>1. phase' = "bfs" /\ visited' = {myself} /\ myself' = myself /\ nexthop'[myself] = myself
      BY <1>0, <1>1 DEF GraphStart, TypeOK
    <2> QED
      BY <1>0, <2>1 DEF HopInv
  <1>2. CASE ExamineEdge
    <2> DEFINE n == Head(todo_list)
    <2>1. Searching /\ UNCHANGED <<myself, edges>> /\ phase = "bfs" /\ phase' = "bfs"
      BY <1>2, <1>0 DEF ExamineEdge, SearchInv
    <2>2. PICK to \in rest :
            \/ /\ nexthop' = [nexthop EXCEPT ![to] = IF nexthop[n] = myself THEN to ELSE nexthop[n]]
               /\ visited' = visited \cup {to}
            \/ nexthop' = nexthop /\ visited' = visited \cup {to} /\ to \in visited
            \/ nexthop' = nexthop /\ visited' = visited
      BY <1>2 DEF ExamineEdge, TakesNexthop, bfsVars
    <2>3. n \in visited /\ to \in Onward(n) /\ to # myself /\ to \in Nodes
      <3>1. todo_list \in Seq(Nodes) /\ todo_list # <<>>
        BY <1>0, <2>1 DEF TypeInv, TypeOK
      <3>2. n = todo_list[1] /\ 1 \in 1..Len(todo_list)
        BY <3>1
      <3> QED
        BY <2>1, <2>2, <3>2 DEF Searching, Onward
    <2>4. CASE nexthop' = nexthop /\ visited' \subseteq visited
      BY <1>0, <1>s, <2>1, <2>4 DEF HopInv
    <2>5. CASE /\ nexthop' = [nexthop EXCEPT ![to] = IF nexthop[n] = myself THEN to ELSE nexthop[n]]
               /\ visited' = visited \cup {to}
      <3>1. (IF nexthop[n] = myself THEN to ELSE nexthop[n]) \in Onward(myself)
        <4>1. CASE n = myself
          BY <2>1, <2>3, <4>1 DEF HopInv
        <4>2. CASE n # myself
          <5>1. nexthop[n] \in Onward(myself)
            BY <2>1, <2>3, <4>2 DEF HopInv
          <5>2. nexthop[n] # myself
            BY <5>1 DEF Onward
          <5> QED
            BY <5>1, <5>2
        <4> QED
          BY <4>1, <4>2
      <3>2. nexthop \in [Nodes -> Nodes \cup {None}]
        BY <1>0 DEF TypeOK
      <3>3. nexthop'[to] \in Onward(myself) /\ \A m \in Nodes \ {to} : nexthop'[m] = nexthop[m]
        BY <2>3, <2>5, <3>1, <3>2
      <3>4. visited \subseteq Nodes /\ myself \in Nodes
        BY <1>0 DEF TypeOK
      <3> QED
        BY <1>0, <1>s, <2>1, <2>3, <2>5, <3>3, <3>4 DEF HopInv
    <2> QED
      BY <2>2, <2>4, <2>5
  <1>3. CASE NextTodo
    BY <1>0, <1>3, <1>s DEF NextTodo, HopInv, bfsVars
  <1>4. CASE CheckReachability
    BY <1>0, <1>4, <1>s DEF CheckReachability, HopInv
  <1>5. CASE AddSafeEdge
    BY <1>0, <1>5, <1>s DEF AddSafeEdge, HopInv
  <1>6. CASE GraphDone
    BY <1>0, <1>6, <1>s DEF GraphDone, HopInv, bfsVars
  <1>7. CASE ChangeEdge
    BY Zenon, <1>0, <1>7 DEF ChangeEdge, HopInv
  <1>8. CASE UNCHANGED vars
    BY <1>0, <1>8, <1>s DEF vars, bfsVars, HopInv
  <1> QED
    BY <1>1, <1>2, <1>3, <1>4, <1>5, <1>6, <1>7, <1>8 DEF Next, GraphStep

(* The next hop of every reachable node is a neighbour of myself as the      *)
(* edges are now, whatever the next hops of earlier runs of graph() were.    *)
THEOREM NexthopsCorrect == Spec => []NexthopIsNeighbour
  <1>1. Init => HopInv
    <2>1. Init => phase = "idle"
      BY DEF Init, InitWith
    <2> QED
      BY <2>1, TypeInit DEF HopInv, SearchInv
  <1>2. HopInv => NexthopIsNeighbour
    BY DEF HopInv, NexthopIsNeighbour
  <1> QED
    BY <1>1, <1>2, HopStep, PTL DEF Spec

-----------------------------------------------------------------------------
(* node_udp_tree and the device follow the nodes found, or still follow the  *)
(* nodes found by the last run.                                              *)
FollowInv ==
  /\ SearchInv
  /\ myself \in reachable
  /\ phase \in {"bfs", "reachability"} => node_udp_tree = (reachable \cup visited) \ {myself}
  /\ phase \in {"idle", "mst", "done"} => node_udp_tree = reachable \ {myself}
  /\ device = "up" <=> reachable # {myself}

(* Every step keeps the UDP tree and the device in line with reachability. *)
LEMMA FollowStep == FollowInv /\ [Next]_vars => FollowInv'
  <1> SUFFICES ASSUME FollowInv, [Next]_vars PROVE FollowInv'
    OBVIOUS
  <1>0. SearchInv /\ SearchInv' /\ TypeInv /\ TypeOK
    BY SearchStep DEF FollowInv, SearchInv, TypeInv
  <1>1. CASE GraphStart
    BY <1>0, <1>1 DEF GraphStart, FollowInv
  <1>2. CASE ExamineEdge
    <2>1. UNCHANGED <<myself, phase, reachable, device>> /\ phase = "bfs"
      BY <1>2 DEF ExamineEdge
    <2>2. PICK to \in rest :
            \/ /\ visited' = visited \cup {to}
               /\ node_udp_tree' = IF to \notin reachable THEN node_udp_tree \cup {to}
                                   ELSE node_udp_tree
            \/ UNCHANGED <<visited, node_udp_tree>>
      BY <1>2 DEF ExamineEdge, bfsVars
    <2>3. to # myself
      BY <1>0, <2>1, <2>2, Zenon DEF SearchInv, Searching, Onward
    <2>4. node_udp_tree' = (reachable \cup visited') \ {myself}
      BY <2>1, <2>2, <2>3 DEF FollowInv
    <2> QED
      BY <1>0, <2>1, <2>4 DEF FollowInv
  <1>3. CASE NextTodo
    BY <1>0, <1>3 DEF NextTodo, FollowInv, bfsVars
  <1>4. CASE CheckReachability
    <2> DEFINE gained == visited \ reachable
               lost == reachable \ visited
               count == Cardinality(visited \ {myself})
    <2>1. phase = "reachability" /\ phase' = "mst" /\ myself' = myself /\ reachable' = visited
          /\ node_udp_tree' = node_udp_tree \ lost
          /\ device' = CASE count = 0 /\ lost \ {myself} # {} -> "down"
                         [] count > 0 /\ count = Cardinality(gained \ {myself}) -> "up"
                         [] OTHER -> device
      BY <1>4 DEF CheckReachability
    <2>2. myself \in visited /\ visited \subseteq Nodes
      BY <1>0, <2>1, SourceConnected DEF SearchInv, TypeOK
    <2>3. node_udp_tree' = reachable' \ {myself}
      BY <2>1 DEF FollowInv
    <2>4. IsFiniteSet(visited \ {myself}) /\ IsFiniteSet(gained \ {myself})
      BY <2>2, FS_Subset, Zenon
    <2>5. count \in Nat /\ (count = 0 <=> visited = {myself})
      BY <2>2, <2>4, FS_CardinalityType, FS_EmptySet
    <2>6. count = Cardinality(gained \ {myself}) <=> visited \ {myself} \subseteq gained
      <3>1. gained \ {myself} \subseteq visited \ {myself}
        OBVIOUS
      <3>2. Cardinality(gained \ {myself}) = count => gained \ {myself} = visited \ {myself}
        BY <2>4, <3>1, FS_Subset
      <3> QED
        BY <3>2
    <2>7. device' = "up" <=> visited # {myself}
      <3> HIDE DEF count
      <3>1. CASE visited = {myself}
        <4>1. CASE lost \ {myself} # {}
          BY <2>1, <2>5, <3>1, <4>1
        <4>2. CASE lost \ {myself} = {}
          <5>1. reachable = {myself}
            BY <3>1, <4>2 DEF FollowInv
          <5>2. device' = device
            BY <2>1, <2>5, <3>1, <4>2
          <5> QED
            BY <3>1, <5>1, <5>2 DEF FollowInv
        <4> QED
          BY <4>1, <4>2
      <3>2. CASE visited # {myself}
        <4>1. count > 0
          BY <2>5, <3>2
        <4>2. CASE visited \ {myself} \subseteq gained
          BY <2>1, <2>6, <3>2, <4>1, <4>2
        <4>3. CASE ~(visited \ {myself} \subseteq gained)
          <5>1. reachable # {myself}
            BY <4>3
          <5>2. device' = device
            BY <2>1, <2>6, <4>1, <4>3
          <5> QED
            BY <3>2, <5>1, <5>2 DEF FollowInv
        <4> QED
          BY <4>2, <4>3
      <3> QED
        BY <3>1, <3>2
    <2> QED
      BY <1>0, <2>1, <2>2, <2>3, <2>7 DEF FollowInv
  <1>5. CASE AddSafeEdge
    BY <1>0, <1>5 DEF AddSafeEdge, FollowInv
  <1>6. CASE GraphDone
    BY <1>0, <1>6 DEF GraphDone, FollowInv, bfsVars
  <1>7. CASE ChangeEdge
    BY <1>0, <1>7 DEF ChangeEdge, FollowInv, bfsVars
  <1>8. CASE UNCHANGED vars
    BY <1>0, <1>8 DEF vars, bfsVars, FollowInv
  <1> QED
    BY <1>1, <1>2, <1>3, <1>4, <1>5, <1>6, <1>7, <1>8 DEF Next, GraphStep

(* The UDP tree and the device follow reachability throughout. *)
LEMMA FollowCorrect == Spec => []FollowInv
  <1>1. Init => FollowInv
    <2> SUFFICES ASSUME Init PROVE FollowInv
      OBVIOUS
    <2>1. phase = "idle" /\ reachable = {myself} /\ node_udp_tree = {} /\ device = "down"
      BY DEF Init, InitWith
    <2> QED
      BY <2>1, TypeInit DEF FollowInv, SearchInv
  <1> QED
    BY <1>1, FollowStep, PTL DEF Spec

(* node_udp_tree holds the reachable nodes and no other after graph().       *)
THEOREM UdpTreeCorrect == Spec => []UdpTreeIsReachable
  <1>1. FollowInv => UdpTreeIsReachable
    BY DEF FollowInv, UdpTreeIsReachable
  <1> QED
    BY <1>1, FollowCorrect, PTL

(* The counts of check_reachability enable and disable a standby device at   *)
(* the right times.                                                          *)
THEOREM DeviceCorrect == Spec => []DeviceFollowsReachability
  <1>1. FollowInv => DeviceFollowsReachability
    BY DEF FollowInv, DeviceFollowsReachability
  <1> QED
    BY <1>1, FollowCorrect, PTL

=============================================================================
