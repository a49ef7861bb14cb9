----------------------------- MODULE OrderedSet -----------------------------
(* What a splay tree promises its users (splay_tree.h): an ordered set.      *)
EXTENDS Integers, FiniteSetsExt

CONSTANTS
  Keys,     \* integers
  None

VARIABLES contents, result

Below(x) == {n \in contents : n <= x}
Above(x) == {n \in contents : n >= x}

Init == contents = {} /\ result = None

(* A key that is there is refused. *)
Insert(n) ==
  /\ contents' = contents \cup {n}
  /\ result' = IF n \in contents THEN None ELSE n

Delete(n) ==
  /\ contents' = contents \ {n}
  /\ result' = IF n \in contents THEN n ELSE None

Search(x) ==
  /\ result' = IF x \in contents THEN x ELSE None
  /\ UNCHANGED contents

Smaller(x) ==
  /\ result' = IF Below(x) = {} THEN None ELSE Max(Below(x))
  /\ UNCHANGED contents

Greater(x) ==
  /\ result' = IF Above(x) = {} THEN None ELSE Min(Above(x))
  /\ UNCHANGED contents

Next == \E x \in Keys : Insert(x) \/ Delete(x) \/ Search(x) \/ Smaller(x) \/ Greater(x)

Spec == Init /\ [][Next]_<<contents, result>>
=============================================================================
