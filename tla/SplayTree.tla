----------------------------- MODULE SplayTree ------------------------------
(* The splay trees of splay_tree.c.  A node belongs to one key.  A tree is a *)
(* record of its fields and of the fields of its nodes, so that an operation *)
(* is an operator from trees to trees; Less and More are the two nodes left  *)
(* and right on the stack of splay_top_down.  Left and right are names, so   *)
(* that what the code writes out for both sides is written once.             *)
EXTENDS Integers, Sequences

CONSTANTS Keys, None, Less, More,
  Generations     \* the generation counter wraps after this many

VARIABLES tree, result

vars == <<tree, result>>

Nodes == Keys \cup {Less, More}
Sides == {"left", "right"}
Other(s) == IF s = "left" THEN "right" ELSE "left"
Side(x, n) == IF x < n THEN "left" ELSE "right"

NoNode == [n \in Nodes |-> None]
EmptyTree ==
  [root |-> None, head |-> None, tail |-> None, left |-> NoNode, right |-> NoNode,
   parent |-> NoNode, next |-> NoNode, prev |-> NoNode, count |-> 0, generation |-> 0]

(* if((a->s = n)) { n->parent = a; } *)
SetChild(t, s, a, n) ==
  [t EXCEPT ![s][a] = n,
            !.parent = IF n = None THEN @ ELSE [@ EXCEPT ![n] = a]]

(* b, the child of a on side s, gets a below it. *)
Rotate(t, s, a, b) == SetChild(SetChild(t, s, a, t[Other(s)][b]), Other(s), b, a)

-----------------------------------------------------------------------------
(* splay_bottom_up: node becomes the root. *)
ChildSide(t, a, n) == IF t.left[a] = n THEN "left" ELSE "right"

Zig(t, p, n) == [Rotate(t, ChildSide(t, p, n), p, n) EXCEPT !.parent[n] = None]

(* The definitions called Mut... are faults a property must detect; the      *)
(* specification does not use them.  The great-grandparent is not told.      *)
MutHung(t, n, g, gg) == [t EXCEPT !.parent[n] = gg]
Hung(t, n, g, gg) ==
  IF gg = None THEN [t EXCEPT !.parent[n] = None]
  ELSE SetChild(t, ChildSide(t, gg, g), gg, n)

ZigZig(t, g, p, n) ==
  LET s == ChildSide(t, p, n) IN Rotate(Rotate(t, s, g, p), s, p, n)
ZigZag(t, g, p, n) ==
  LET s == ChildSide(t, p, n) IN Rotate(Rotate(t, s, p, n), Other(s), g, n)

RECURSIVE SplayBottomUp(_, _)
SplayBottomUp(t, n) ==
  LET p == t.parent[n]
      g == t.parent[p]
  IN IF p = None THEN [t EXCEPT !.root = n]
     ELSE IF g = None THEN SplayBottomUp(Zig(t, p, n), n)
     ELSE LET u == IF ChildSide(t, p, n) = ChildSide(t, g, p)
                   THEN ZigZig(t, g, p, n) ELSE ZigZag(t, g, p, n)
          IN SplayBottomUp(Hung(u, n, g, t.parent[g]), n)

-----------------------------------------------------------------------------
(* splay_top_down.  bottom is leftbottom and rightbottom; what is cut off    *)
(* goes to the tree on the other side of the one it was cut from.            *)
Cut(t, s, b, n) == SetChild(t, Other(s), b, n)
Alone(t, n) == [t EXCEPT !.parent[n] = None]

Merge(t, root, s, top, bottom) ==
  IF t[Other(s)][top] = None THEN t
  ELSE LET u == IF t[s][root] = None THEN t ELSE SetChild(t, Other(s), bottom, t[s][root])
       IN SetChild(u, s, root, u[Other(s)][top])

(* The nodes on the stack are gone after the call. *)
Forget(t) ==
  [t EXCEPT !.left[More] = None, !.right[Less] = None]

Done(t, root, bottom, x) ==
  [tree |-> Forget(Merge(Merge([t EXCEPT !.root = root], root, "left", Less, bottom.left),
                         root, "right", More, bottom.right)),
   result |-> IF x = root THEN "same" ELSE Side(x, root)]

RECURSIVE Descend(_, _, _, _)
Descend(t, root, bottom, x) ==
  LET s == Side(x, root)
      o == Other(s)
      child == t[s][root]
      d == Side(x, child)
      grandchild == t[d][child]
      single == [Alone(Cut(t, o, bottom[o], root), child) EXCEPT ![s][root] = None]
  IN IF x = root \/ child = None THEN Done(t, root, bottom, x)
     ELSE IF x = child \/ grandchild = None
          THEN Done(single, child, [bottom EXCEPT ![o] = root], x)
     ELSE IF d = s
          THEN LET u == Rotate(Cut(t, o, bottom[o], child), s, root, child)
               IN Descend([Alone(u, grandchild) EXCEPT ![s][child] = None],
                          grandchild, [bottom EXCEPT ![o] = child], x)
          ELSE LET u == [Cut(t, s, bottom[s], child) EXCEPT ![o][child] = None]
                   v == [Cut(Alone(u, grandchild), o, bottom[o], root) EXCEPT ![s][root] = None]
               IN Descend(v, grandchild, [bottom EXCEPT ![s] = child, ![o] = root], x)

SplayTopDown(t, x) ==
  IF t.root = None THEN [tree |-> t, result |-> "same"]
  ELSE Descend(t, t.root, [left |-> Less, right |-> More], x)

-----------------------------------------------------------------------------
splay_search_node(t, x) ==
  LET c == SplayTopDown(t, x)
  IN [tree |-> c.tree, node |-> IF c.result = "same" THEN c.tree.root ELSE None]

(* splay_search_closest_smaller_node and splay_search_closest_greater_node. *)
ClosestSmaller(c) ==
  IF c.result = "left" THEN c.tree.prev[c.tree.root] ELSE c.tree.root
ClosestGreater(c) ==
  IF c.result = "right" THEN c.tree.next[c.tree.root] ELSE c.tree.root

Changed(t) == (t.generation + 1) % Generations

splay_insert_top(t, n) ==
  [EmptyTree EXCEPT !.head = n, !.tail = n, !.root = n,
                    !.count = t.count + 1, !.generation = Changed(t)]

(* splay_insert_before is for the left side, splay_insert_after for the      *)
(* right one: the list is linked first, and then the tree.                   *)
Linked(t, s, at, n) ==
  LET back == IF s = "left" THEN "prev" ELSE "next"
      forth == IF s = "left" THEN "next" ELSE "prev"
      end == IF s = "left" THEN "head" ELSE "tail"
      beyond == t[back][at]
      u == [t EXCEPT ![forth][n] = at, ![back][n] = beyond, ![back][at] = n]
  IN IF beyond = None THEN [u EXCEPT ![end] = n] ELSE [u EXCEPT ![forth][beyond] = n]

InsertBeside(t, s, at, n) ==
  LET u == SplayBottomUp(Linked(t, s, at, n), at)
      v == SetChild(SetChild(u, Other(s), n, at), s, n, u[s][at])
  IN [v EXCEPT ![s][at] = None, !.parent[n] = None, !.root = n,
               !.count = @ + 1, !.generation = Changed(t)]

splay_insert_node(t, n) ==
  LET c == SplayTopDown(t, n)
  IN IF t.root = None THEN [tree |-> splay_insert_top(t, n), node |-> n]
     ELSE IF c.result = "same" THEN [tree |-> c.tree, node |-> None]
     ELSE [tree |-> InsertBeside(c.tree, c.result, c.tree.root, n), node |-> n]

(* The neighbours in the list, or the ends of it, pass n over. *)
Unlinked(t, n) ==
  LET u == IF t.prev[n] = None THEN [t EXCEPT !.head = t.next[n]]
           ELSE [t EXCEPT !.next[t.prev[n]] = t.next[n]]
  IN IF t.next[n] = None THEN [u EXCEPT !.tail = t.prev[n]]
     ELSE [u EXCEPT !.prev[t.next[n]] = t.prev[n]]

(* The left part has its greatest node at the root only if n is splayed      *)
(* first; it gets the right part below that node.                            *)
MutJoined(t, n) == [SetChild(Alone(t, t.left[n]), "right", t.left[n], t.right[n]) EXCEPT !.root = t.left[n]]
Joined(t, n) ==
  IF t.prev[n] # None
  THEN SetChild([Alone(t, t.left[n]) EXCEPT !.root = t.left[n]], "right", t.prev[n], t.right[n])
  ELSE IF t.next[n] # None THEN [Alone(t, t.right[n]) EXCEPT !.root = t.right[n]]
  ELSE [t EXCEPT !.root = None]

(* What the freed node pointed at is forgotten. *)
Freed(t, n) ==
  [t EXCEPT !.left[n] = None, !.right[n] = None, !.parent[n] = None, !.next[n] = None,
            !.prev[n] = None]

splay_unlink_node(t, n) ==
  Freed([Joined(SplayBottomUp(Unlinked(t, n), n), n) EXCEPT !.count = @ - 1, !.generation = Changed(t)], n)

-----------------------------------------------------------------------------
Init == tree = EmptyTree /\ result = None

(* splay_insert and splay_insert_node *)
Insert(n) ==
  \E r \in {splay_insert_node(tree, n)} : tree' = r.tree /\ result' = r.node

(* splay_unlink and splay_delete *)
Delete(x) ==
  \E r \in {splay_search_node(tree, x)} :
    /\ tree' = IF r.node = None THEN r.tree ELSE splay_unlink_node(r.tree, r.node)
    /\ result' = r.node

(* splay_unlink_node, splay_delete_node: the caller has the node. *)
DeleteNode(n) ==
  /\ tree.root = n \/ tree.parent[n] # None
  /\ tree' = splay_unlink_node(tree, n)
  /\ result' = n

Search(x) ==
  \E r \in {splay_search_node(tree, x)} : tree' = r.tree /\ result' = r.node

SearchClosestSmaller(x) ==
  \E c \in {SplayTopDown(tree, x)} :
    tree' = c.tree /\ result' = IF tree.root = None THEN None ELSE ClosestSmaller(c)

SearchClosestGreater(x) ==
  \E c \in {SplayTopDown(tree, x)} :
    tree' = c.tree /\ result' = IF tree.root = None THEN None ELSE ClosestGreater(c)

Next ==
  \E x \in Keys : \/ Insert(x) \/ Delete(x) \/ DeleteNode(x) \/ Search(x)
                  \/ SearchClosestSmaller(x) \/ SearchClosestGreater(x)

Spec == Init /\ [][Next]_vars

-----------------------------------------------------------------------------
RECURSIVE InOrder(_, _)
InOrder(t, n) == IF n = None THEN <<>> ELSE InOrder(t, t.left[n]) \o <<n>> \o InOrder(t, t.right[n])

RECURSIVE Follow(_, _, _)
Follow(t, way, n) == IF n = None THEN <<>> ELSE <<n>> \o Follow(t, way, t[way][n])

Contents == {InOrder(tree, tree.root)[i] : i \in DOMAIN InOrder(tree, tree.root)}

(* The list of head, next, prev and tail that splay_each walks is the tree   *)
(* in order, in both directions, count is its length, and every child        *)
(* knows its parent: the two structures that all operations change one       *)
(* after the other never disagree.                                           *)
ListIsTree ==
  \E s \in {InOrder(tree, tree.root)} :
    /\ \A i \in DOMAIN s : i > 1 => s[i - 1] < s[i]
    /\ Follow(tree, "next", tree.head) = s
    /\ Follow(tree, "prev", tree.tail) = [i \in DOMAIN s |-> s[Len(s) + 1 - i]]
    /\ tree.count = Len(s)
    /\ tree.root # None => tree.parent[tree.root] = None
    /\ \A i \in DOMAIN s, side \in Sides :
         tree[side][s[i]] # None => tree.parent[tree[side][s[i]]] = s[i]

Set == INSTANCE OrderedSet WITH contents <- Contents

(* The tree is an ordered set: what splay_search and its relatives return,   *)
(* and what splay_insert refuses, depends on nothing but the contents, in    *)
(* whatever order the searches before have splayed the tree.                 *)
IsOrderedSet == Set!Spec
=============================================================================
