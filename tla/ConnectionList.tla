--------------------------- MODULE ConnectionList ---------------------------
(* A list of list.c, and the loops over it that list_each makes: the         *)
(* connection_list, over which the event loop runs timeout_handler,          *)
(* reload_configuration, broadcast_meta and others while the worker threads  *)
(* of MsQuic add connections (quic_listener_callback) and delete them        *)
(* (ack_h).  Nothing is locked.                                              *)
EXTENDS Integers, Sequences, FiniteSets

CONSTANTS
  Conns, None,
  MaxAdded,        \* connections made in the course of one behaviour
  WorkerDeletes    \* whether a worker deletes a connection

VARIABLES
  list,            \* head, tail and count, next and prev of each node
  alive,           \* nodes that are allocated
  loop,            \* node and next of list_each, "off" outside a loop
  visited, due,    \* history: nodes visited, and nodes a loop has to visit
  added,
  crossed,         \* history: a worker deleted during a loop
  used_freed       \* history: a freed node was read in another loop

vars == <<list, alive, loop, visited, due, added, crossed, used_freed>>

Off == [at |-> None, next |-> None, on |-> FALSE, ran |-> FALSE]

Init ==
  /\ list = [head |-> None, tail |-> None, count |-> 0, next |-> [c \in Conns |-> None],
             prev |-> [c \in Conns |-> None]]
  /\ alive = {} /\ loop = Off /\ visited = {} /\ due = {}
  /\ added = 0 /\ crossed = FALSE /\ used_freed = FALSE

-----------------------------------------------------------------------------
list_insert_tail(l, c) ==
  LET m == [l EXCEPT !.next[c] = None, !.prev[c] = l.tail, !.tail = c, !.count = @ + 1]
  IN IF l.tail = None THEN [m EXCEPT !.head = c] ELSE [m EXCEPT !.next[l.tail] = c]

list_insert_head(l, c) ==
  LET m == [l EXCEPT !.prev[c] = None, !.next[c] = l.head, !.head = c, !.count = @ + 1]
  IN IF l.head = None THEN [m EXCEPT !.tail = c] ELSE [m EXCEPT !.prev[l.head] = c]

list_unlink_node(l, c) ==
  LET m == IF l.prev[c] = None THEN [l EXCEPT !.head = l.next[c]]
           ELSE [l EXCEPT !.next[l.prev[c]] = l.next[c]]
      n == IF l.next[c] = None THEN [m EXCEPT !.tail = l.prev[c]]
           ELSE [m EXCEPT !.prev[l.next[c]] = l.prev[c]]
  IN [n EXCEPT !.count = @ - 1]

-----------------------------------------------------------------------------
(* connection_add; todo_list and others are filled at the head, too. *)
Add(c) ==
  /\ c \notin alive /\ added < MaxAdded
  /\ alive' = alive \cup {c} /\ added' = added + 1
  /\ list' = list_insert_tail(list, c) \/ list' = list_insert_head(list, c)
  /\ UNCHANGED <<loop, visited, due, crossed, used_freed>>

(* connection_del: list_delete looks for the node and frees it. *)
Delete(c) ==
  /\ list' = list_unlink_node(list, c)
  /\ alive' = alive \ {c} /\ due' = due \ {c}

(* list_each: next is read before the body, which may free the node. *)
(* The definitions called Mut... are faults a property must detect; the      *)
(* specification does not use them.                                          *)
MutNextOf(c) == None
NextOf(c) == IF c = None THEN None ELSE list.next[c]
Reads(c) == used_freed' = (used_freed \/ (c # None /\ c \notin alive /\ ~crossed))

EachBegin ==
  /\ ~loop.on
  /\ loop' = [at |-> list.head, next |-> NextOf(list.head), on |-> TRUE, ran |-> FALSE]
  /\ visited' = {} /\ due' = alive /\ crossed' = FALSE
  /\ UNCHANGED <<list, alive, added, used_freed>>

Body(c) == Delete(c) \/ UNCHANGED <<list, alive, due>>

EachBody ==
  /\ loop.on /\ loop.at # None /\ ~loop.ran
  /\ loop' = [loop EXCEPT !.ran = TRUE]
  /\ visited' = visited \cup {loop.at}
  /\ IF loop.at \in alive THEN Body(loop.at) ELSE UNCHANGED <<list, alive, due>>
  /\ Reads(loop.at)
  /\ UNCHANGED <<added, crossed>>

EachNext ==
  /\ loop.ran
  /\ loop' = [loop EXCEPT !.at = loop.next, !.next = NextOf(loop.next), !.ran = FALSE]
  /\ Reads(loop.next)
  /\ UNCHANGED <<list, alive, visited, due, added, crossed>>

EachEnd ==
  /\ loop.on /\ loop.at = None
  /\ loop' = Off /\ visited' = {} /\ due' = {} /\ crossed' = FALSE
  /\ UNCHANGED <<list, alive, added, used_freed>>

(* terminate_connection on a worker, or outside a loop. *)
Terminate(c) ==
  /\ c \in alive /\ (loop.on => WorkerDeletes)
  /\ Delete(c)
  /\ crossed' = (crossed \/ loop.on)
  /\ UNCHANGED <<loop, visited, added, used_freed>>

Next ==
  \/ \E c \in Conns : Add(c) \/ Terminate(c)
  \/ EachBegin \/ EachBody \/ EachNext \/ EachEnd

Spec == Init /\ [][Next]_vars

-----------------------------------------------------------------------------
TypeOK ==
  /\ alive \subseteq Conns /\ visited \subseteq Conns /\ due \subseteq Conns
  /\ loop \in [at : Conns \cup {None}, next : Conns \cup {None}, on : BOOLEAN, ran : BOOLEAN]

(* "CAUTION: while this construct supports deleting the current item, it     *)
(* does not support deleting other nodes": as long as no worker deletes a    *)
(* connection during a loop of the event loop, the loop reads no freed node, *)
(* and at its end has visited every connection that was there at its start   *)
(* and that its body has not closed.                                         *)
EachIsSafe ==
  /\ ~used_freed
  /\ loop.on /\ loop.at = None /\ ~crossed => due \subseteq visited
=============================================================================
