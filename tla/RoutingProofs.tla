--------------------------- MODULE RoutingProofs ----------------------------
(* CacheIsExact and RoutedToBest of Routing hold for every set of subnets,   *)
(* every hash function and every sequence of changes of the graph.           *)
EXTENDS Routing, TLAPS, FiniteSetTheorems, WellFoundedInduction

(* A set of natural numbers has a least element. *)
LEMMA Least ==
  ASSUME NEW S, S \subseteq Nat, S # {}
  PROVE  \E n \in S : \A m \in S : n <= m
<1> DEFINE R == OpToRel(<, Nat)
<1>1. IsWellFoundedOn(R, Nat)
  BY NatLessThanWellFounded, Zenon
<1>2. \A m, n \in Nat : <<m, n>> \in R <=> m < n
  BY Zenon DEF OpToRel
<1> HIDE DEF R
<1>3. PICK n \in S : \A m \in S : ~(<<m, n>> \in R)
  BY Zenon, <1>1, WFMin
<1>4. ASSUME NEW m \in S PROVE n <= m
  <2>1. m \in Nat /\ n \in Nat
    OBVIOUS
  <2>2. ~(m < n)
    BY Zenon, <1>2, <1>3, <2>1
  <2> QED BY <2>1, <2>2
<1> QED BY <1>4

(* A set of integers with a lower bound has a least element, one with an     *)
(* upper bound a greatest.                                                   *)
LEMMA LeastInt ==
  ASSUME NEW S, S \subseteq Int, S # {}, NEW b \in Int, \A x \in S : b <= x
  PROVE  \E n \in S : \A m \in S : n <= m
<1> DEFINE T == {x - b : x \in S}
<1>1. T \subseteq Nat /\ T # {}
  <2>1. \A x \in S : x \in Int /\ x - b \in Nat
    OBVIOUS
  <2> QED BY Zenon, <2>1
<1>2. PICK t \in T : \A u \in T : t <= u
  <2> HIDE DEF T
  <2> QED BY Zenon, <1>1, Least
<1>3. PICK n \in S : t = n - b
  OBVIOUS
<1>4. ASSUME NEW m \in S PROVE n <= m
  <2>1. n - b <= m - b
    BY Zenon, <1>2, <1>3
  <2> QED BY <2>1
<1> QED BY <1>4

(* A finite set of natural numbers has an upper bound. *)
LEMMA FiniteBound ==
  ASSUME NEW S, S \subseteq Nat, IsFiniteSet(S)
  PROVE  \E b \in Nat : \A x \in S : x <= b
<1>1. PICK n \in Nat : ExistsBijection(1..n, S)
  BY FS_NatBijection
<1>2. PICK f \in [1..n -> S] : \A x \in S : \E i \in 1..n : f[i] = x
  BY <1>1 DEF ExistsBijection, Bijection, Injection, Surjection
<1> DEFINE Bad == {k \in 0..n : ~\E b \in Nat : \A i \in 1..k : f[i] <= b}
<1>3. Bad = {}
  <2> SUFFICES ASSUME Bad # {} PROVE FALSE
    BY Zenon
  <2>1. PICK k \in Bad : \A m \in Bad : k <= m
    <3>1. Bad \subseteq Nat
      OBVIOUS
    <3> HIDE DEF Bad
    <3> QED BY Zenon, <3>1, Least
  <2>2. k \in 0..n /\ ~\E b \in Nat : \A i \in 1..k : f[i] <= b
    OBVIOUS
  <2>3. k # 0
    <3>1. \A i \in 1..0 : f[i] <= 0
      OBVIOUS
    <3> QED BY <2>2, <3>1
  <2>4. k \in 1..n /\ k - 1 \in 0..n /\ k - 1 \notin Bad
    <3> HIDE DEF Bad
    <3> QED BY <2>1, <2>2, <2>3
  <2>5. PICK b \in Nat : \A i \in 1..k - 1 : f[i] <= b
    BY <2>4
  <2> HIDE DEF Bad
  <2>6. f[k] \in Nat
    BY Zenon, <1>2, <2>4
  <2> DEFINE c == b + f[k]
  <2>7. c \in Nat /\ b <= c /\ f[k] <= c
    BY <2>6
  <2> HIDE DEF c
  <2>8. ASSUME NEW i \in 1..k PROVE f[i] <= c
    <3>1. CASE i = k
      BY <3>1, <2>7
    <3>2. CASE i # k
      <4>0. i \in 1..k - 1 /\ i \in 1..n
        BY <3>2, <2>4
      <4>1. i \in 1..k - 1 /\ f[i] \in Nat
        BY Zenon, <4>0, <1>2
      <4>2. f[i] <= b
        BY <4>1, <2>5
      <4> QED BY <4>1, <4>2, <2>7
    <3> QED BY <3>1, <3>2
  <2> QED BY <2>2, <2>7, <2>8
<1>4. PICK b \in Nat : \A i \in 1..n : f[i] <= b
  <2>1. n \in 0..n
    OBVIOUS
  <2> QED BY Zenon, <1>3, <2>1
<1> QED BY Zenon, <1>2, <1>4

(* In a set whose elements have four keys one comes first. *)
LEMMA Smallest ==
  ASSUME NEW S, S # {}, NEW f \in [S -> Int], NEW b \in Int, \A s \in S : b <= f[s]
  PROVE  \E s \in S : \A t \in S : f[s] <= f[t]
<1> DEFINE V == {f[s] : s \in S}
<1>1. V \subseteq Int /\ V # {} /\ \A x \in V : b <= x
  OBVIOUS
<1>2. PICK n \in V : \A m \in V : n <= m
  <2> HIDE DEF V
  <2> QED BY Zenon, <1>1, LeastInt
<1> QED BY <1>2

NotAfter(x, y) ==
  \/ x[1] < y[1]
  \/ x[1] = y[1] /\ x[2] < y[2]
  \/ x[1] = y[1] /\ x[2] = y[2] /\ x[3] < y[3]
  \/ x[1] = y[1] /\ x[2] = y[2] /\ x[3] = y[3] /\ x[4] <= y[4]

(* Of several keys of four integers, bounded from below, one comes first in   *)
(* the order that compares them one after the other.                          *)
LEMMA FirstOfFour ==
  ASSUME NEW S, S # {}, NEW b \in Int, NEW key \in [S -> [1..4 -> Int]],
         \A s \in S : \A i \in 1..4 : b <= key[s][i]
  PROVE  \E s \in S : \A t \in S : NotAfter(key[s], key[t])
<1> DEFINE f == [s \in S |-> key[s][1]]
           g == [s \in S |-> key[s][2]]
           h == [s \in S |-> key[s][3]]
           k == [s \in S |-> key[s][4]]
<1>0. /\ f \in [S -> Int] /\ g \in [S -> Int] /\ h \in [S -> Int] /\ k \in [S -> Int]
      /\ \A s \in S : b <= f[s] /\ b <= g[s] /\ b <= h[s] /\ b <= k[s]
      /\ \A s \in S : f[s] = key[s][1] /\ g[s] = key[s][2] /\ h[s] = key[s][3] /\ k[s] = key[s][4]
  OBVIOUS
<1> HIDE DEF f, g, h, k
<1>1. PICK s1 \in S : \A t \in S : f[s1] <= f[t]
  BY Zenon, <1>0, Smallest
<1> DEFINE S1 == {t \in S : f[t] = f[s1]}
           g1 == [t \in S1 |-> g[t]]
<1>2. PICK s2 \in S1 : \A t \in S1 : g[s2] <= g[t]
  <2>1. S1 # {} /\ g1 \in [S1 -> Int] /\ \A s \in S1 : b <= g1[s]
    BY <1>0
  <2>2. PICK s2 \in S1 : \A t \in S1 : g1[s2] <= g1[t]
    <3> HIDE DEF S1, g1
    <3> QED BY <2>1, Smallest
  <2> QED BY <2>2
<1> DEFINE S2 == {t \in S1 : g[t] = g[s2]}
           h2 == [t \in S2 |-> h[t]]
<1>3. PICK s3 \in S2 : \A t \in S2 : h[s3] <= h[t]
  <2>1. S2 # {} /\ h2 \in [S2 -> Int] /\ \A s \in S2 : b <= h2[s]
    BY <1>0
  <2>2. PICK s3 \in S2 : \A t \in S2 : h2[s3] <= h2[t]
    <3> HIDE DEF S2, h2
    <3> QED BY <2>1, Smallest
  <2> QED BY <2>2
<1> DEFINE S3 == {t \in S2 : h[t] = h[s3]}
           k3 == [t \in S3 |-> k[t]]
<1>4. PICK s4 \in S3 : \A t \in S3 : k[s4] <= k[t]
  <2>1. S3 # {} /\ k3 \in [S3 -> Int] /\ \A s \in S3 : b <= k3[s]
    BY <1>0
  <2>2. PICK s4 \in S3 : \A t \in S3 : k3[s4] <= k3[t]
    <3> HIDE DEF S3, k3
    <3> QED BY <2>1, Smallest
  <2> QED BY <2>2
<1>5. s4 \in S /\ f[s4] = f[s1] /\ g[s4] = g[s2] /\ h[s4] = h[s3]
  OBVIOUS
<1>6. ASSUME NEW t \in S
      PROVE  \/ f[s4] < f[t]
             \/ f[s4] = f[t] /\ g[s4] < g[t]
             \/ f[s4] = f[t] /\ g[s4] = g[t] /\ h[s4] < h[t]
             \/ f[s4] = f[t] /\ g[s4] = g[t] /\ h[s4] = h[t] /\ k[s4] <= k[t]
  <2>0. s1 \in S /\ f[t] \in Int /\ f[s1] \in Int /\ g[t] \in Int /\ g[s2] \in Int /\ h[t] \in Int /\ h[s3] \in Int
    BY <1>0
  <2>1. CASE t \notin S1
    <3>1. f[t] # f[s1] /\ f[s1] <= f[t]
      BY <2>1, <1>1
    <3> QED BY <3>1, <1>5, <2>0
  <2>2. CASE t \in S1 /\ t \notin S2
    <3>1. f[t] = f[s1] /\ g[t] # g[s2] /\ g[s2] <= g[t]
      BY <2>2, <1>2
    <3> QED BY <3>1, <1>5, <2>0
  <2>3. CASE t \in S2 /\ t \notin S3
    <3>1. f[t] = f[s1] /\ g[t] = g[s2] /\ h[t] # h[s3] /\ h[s3] <= h[t]
      BY <2>3, <1>3
    <3> QED BY <3>1, <1>5, <2>0
  <2>4. CASE t \in S3
    <3>1. f[t] = f[s1] /\ g[t] = g[s2] /\ h[t] = h[s3] /\ k[s4] <= k[t]
      BY <2>4, <1>4
    <3> QED BY <3>1, <1>5, <2>0
  <2> QED BY Zenon, <2>1, <2>2, <2>3, <2>4
<1> QED BY <1>0, <1>5, <1>6 DEF NotAfter

-----------------------------------------------------------------------------
(* The fields of a subnet have bounds, and tell it from every other. *)
LEMMA Fields ==
  \E b \in Int : \A s \in Subnets :
    /\ s.addr \in Nat /\ s.len \in Nat /\ s.weight \in Int /\ Name(s.owner) \in Nat
    /\ b <= -s.addr /\ b <= -s.len /\ b <= s.weight /\ b <= -s.weight /\ b <= -Name(s.owner) /\ b <= 0
<1>1. PICK n \in Nat : \A x \in Nodes : x <= n
  BY NodesAssumption, FiniteBound
<1> DEFINE A == 2^Bits
           W == 2^30
<1>2. A \in Int /\ W \in Int
  BY BitsAssumption
<1>3. Subnets \subseteq [addr : 0..A - 1, len : 0..Bits, weight : -W..W - 1, owner : Nodes \cup {None}]
  BY Zenon, SubnetsAssumption DEF Addresses
<1> HIDE DEF A, W
<1>4. ASSUME NEW s \in Subnets
      PROVE  /\ s.addr \in Nat /\ s.addr <= A /\ s.len \in Nat /\ s.len <= Bits
             /\ s.weight \in Int /\ -W <= s.weight /\ s.weight <= W
             /\ Name(s.owner) \in Nat /\ Name(s.owner) <= n
  <2>1. s.addr \in 0..A - 1 /\ s.len \in 0..Bits /\ s.weight \in -W..W - 1 /\ s.owner \in Nodes \cup {None}
    BY <1>3
  <2>2. Name(s.owner) \in Nat /\ Name(s.owner) <= n
    <3>1. CASE s.owner = None
      BY <3>1 DEF Name
    <3>2. CASE s.owner # None
      <4>1. s.owner \in Nodes /\ Name(s.owner) = s.owner
        BY <3>2, <2>1 DEF Name
      <4> QED BY <4>1, <1>1, NodesAssumption
    <3> QED BY <3>1, <3>2
  <2> QED BY <2>1, <2>2, <1>2, BitsAssumption
<1> DEFINE b == -(IF A < 0 THEN 0 ELSE A) - Bits - (IF W < 0 THEN 0 ELSE W) - n
<1>5. b \in Int
  BY <1>2, BitsAssumption
<1>6. ASSUME NEW s \in Subnets
      PROVE  /\ s.addr \in Nat /\ s.len \in Nat /\ s.weight \in Int /\ Name(s.owner) \in Nat
             /\ b <= -s.addr /\ b <= -s.len /\ b <= s.weight /\ b <= -s.weight
             /\ b <= -Name(s.owner) /\ b <= 0
  <2> DEFINE x == s.addr
             l == s.len
             w == s.weight
             o == Name(s.owner)
  <2>1. /\ x \in Nat /\ x <= A /\ l \in Nat /\ l <= Bits
        /\ w \in Int /\ -W <= w /\ w <= W /\ o \in Nat /\ o <= n
    BY <1>4
  <2> HIDE DEF x, l, w, o
  <2>2. /\ x \in Nat /\ l \in Nat /\ w \in Int /\ o \in Nat
        /\ b <= -x /\ b <= -l /\ b <= w /\ b <= -w /\ b <= -o /\ b <= 0
    BY <2>1, <1>2, BitsAssumption
  <2> QED BY <2>2 DEF x, l, w, o
<1> HIDE DEF b
<1> QED BY <1>5, <1>6

(* subnet_compare tells any two subnets apart: the owner's name is the last   *)
(* field it compares.                                                         *)
LEMMA SameFields ==
  ASSUME NEW s \in Subnets, NEW t \in Subnets,
         s.addr = t.addr, s.len = t.len, s.weight = t.weight, Name(s.owner) = Name(t.owner)
  PROVE  s = t
<1>1. s.owner \in Nodes \cup {None} /\ t.owner \in Nodes \cup {None}
  BY Zenon, SubnetsAssumption
<1>2. s.owner = t.owner
  BY <1>1, NodesAssumption DEF Name
<1>3. /\ s = [addr |-> s.addr, len |-> s.len, weight |-> s.weight, owner |-> s.owner]
      /\ t = [addr |-> t.addr, len |-> t.len, weight |-> t.weight, owner |-> t.owner]
  BY Zenon, SubnetsAssumption
<1> QED BY <1>2, <1>3

(* First and Last of subnet_compare exist: lookup_subnet_ipv4 finds a subnet *)
(* if there is one.                                                          *)
LEMMA FirstIsFirst ==
  ASSUME NEW S, S \subseteq Subnets, S # {}
  PROVE  First(S) \in S /\ \A t \in S \ {First(S)} : Compare(First(S), t)
<1>1. PICK b \in Int : \A s \in Subnets :
        /\ s.addr \in Nat /\ s.len \in Nat /\ s.weight \in Int /\ Name(s.owner) \in Nat
        /\ b <= -s.len /\ b <= s.weight /\ b <= 0
  BY Fields
<1> DEFINE key == [s \in S |-> <<-s.len, s.addr, s.weight, Name(s.owner)>>]
<1>2. \E s \in S : \A t \in S : NotAfter(key[s], key[t])
  <2>1. key \in [S -> [1..4 -> Int]] /\ \A s \in S : \A i \in 1..4 : b <= key[s][i]
    BY <1>1
  <2> HIDE DEF key
  <2> QED BY Zenon, <2>1, FirstOfFour
<1>3. PICK s \in S : \A t \in S :
        \/ s.len > t.len
        \/ s.len = t.len /\ s.addr < t.addr
        \/ s.len = t.len /\ s.addr = t.addr /\ s.weight < t.weight
        \/ s.len = t.len /\ s.addr = t.addr /\ s.weight = t.weight /\ Name(s.owner) <= Name(t.owner)
  BY <1>1, <1>2 DEF NotAfter
<1>4. \A t \in S \ {s} : Compare(s, t)
  BY <1>1, <1>3, SameFields DEF Compare
<1> QED BY <1>4 DEF First

(* The node that splay_search_closest ends at is in the tree. *)
LEMMA LastIsLast ==
  ASSUME NEW S, S \subseteq Subnets, S # {}
  PROVE  Last(S) \in S
<1>1. PICK b \in Int : \A s \in Subnets :
        /\ s.addr \in Nat /\ s.len \in Nat /\ s.weight \in Int /\ Name(s.owner) \in Nat
        /\ b <= -s.addr /\ b <= -s.weight /\ b <= -Name(s.owner) /\ b <= 0
  BY Fields
<1> DEFINE key == [s \in S |-> <<s.len, -s.addr, -s.weight, -Name(s.owner)>>]
<1>2. \E s \in S : \A t \in S : NotAfter(key[s], key[t])
  <2>1. key \in [S -> [1..4 -> Int]] /\ \A s \in S : \A i \in 1..4 : b <= key[s][i]
    BY <1>1
  <2> HIDE DEF key
  <2> QED BY Zenon, <2>1, FirstOfFour
<1>3. PICK s \in S : \A t \in S :
        \/ t.len > s.len
        \/ s.len = t.len /\ t.addr < s.addr
        \/ s.len = t.len /\ s.addr = t.addr /\ t.weight < s.weight
        \/ s.len = t.len /\ s.addr = t.addr /\ s.weight = t.weight /\ Name(t.owner) <= Name(s.owner)
  BY <1>1, <1>2 DEF NotAfter
<1>4. \A t \in S \ {s} : Compare(t, s)
  BY <1>1, <1>3, SameFields DEF Compare
<1> QED BY <1>4 DEF Last

-----------------------------------------------------------------------------
Slots == {Slot[a] : a \in Addresses}
Cached == [addr : Addresses, subnet : Subnets]
Workings == [pc : {"off", "insert", "use"}, src : Nodes \cup {None}, dst : Addresses \cup {0}, found : Subnets \cup {None}]

Types ==
  /\ subnets \subseteq Subnets
  /\ cache \in [Slots -> Cached \cup {None}]
  /\ change \in {"none", "flush", "graph"}
  /\ thread \in [Threads -> Workings]
  /\ raced \in BOOLEAN

(* What a thread that is routing has found is what it would find now. *)
Fresh(t) ==
  /\ thread[t].pc # "off" => thread[t].dst \in Addresses
  /\ thread[t].pc = "insert" => thread[t].found # None
  /\ thread[t].pc = "off" => thread[t].found = None
  /\ ~raced /\ thread[t].pc # "off" => change = "none" /\ thread[t].found = Search(thread[t].dst)

(* subnet_add and subnet_del change the tree before they flush the cache,    *)
(* graph() flushes it before it changes the graph: in between it may be      *)
(* wrong, or is empty.                                                       *)
CacheInv ==
  /\ ~raced /\ change = "none" => \A a \in Addresses : Hit(a) # None => Hit(a) = Search(a)
  /\ ~raced /\ change = "graph" => cache = Flushed

IInv ==
  /\ Types /\ CacheInv
  /\ \A t \in Threads : Fresh(t)
  /\ thread["main"].pc # "off" => change = "none"

(* lookup_subnet_ipv4 finds a subnet that is in the tree and matches; none   *)
(* with a reachable owner has a longer prefix, and the owner is reachable if *)
(* that of any subnet that matches is.                                       *)
LEMMA SearchFinds ==
  ASSUME subnets \subseteq Subnets, NEW a
  PROVE  LET all == {s \in subnets : Matches(s, a)}
             good == {s \in all : Reachable(s)}
         IN /\ all = {} => Search(a) = None
            /\ all # {} => Search(a) \in all
            /\ good # {} => /\ Search(a) \in good
                           /\ \A u \in good : u.len <= Search(a).len
<1> DEFINE all == {s \in subnets : Matches(s, a)}
           good == {s \in all : Reachable(s)}
<1>1. Search(a) = IF good # {} THEN First(good) ELSE IF all # {} THEN Last(all) ELSE None
  BY DEF Search
<1>2. all \subseteq Subnets /\ good \subseteq all
  OBVIOUS
<1> HIDE DEF all, good
<1>3. all # {} => Last(all) \in all
  BY <1>2, LastIsLast
<1>4. good # {} => First(good) \in good /\ \A t \in good \ {First(good)} : Compare(First(good), t)
  BY <1>2, FirstIsFirst
<1>5. ASSUME good # {}, NEW u \in good PROVE u.len <= First(good).len
  <2>1. u.len \in Nat /\ First(good).len \in Nat
    BY <1>2, <1>4, <1>5, Fields
  <2>2. CASE u = First(good)
    BY <2>1, <2>2
  <2>3. CASE u # First(good)
    <3>1. Compare(First(good), u)
      BY <2>3, <1>4, <1>5
    <3> QED BY <2>1, <3>1 DEF Compare
  <2> QED BY <2>2, <2>3
<1>6. /\ all = {} => Search(a) = None
      /\ all # {} => Search(a) \in all
      /\ good # {} => Search(a) \in good /\ \A u \in good : u.len <= Search(a).len
  BY <1>1, <1>2, <1>3, <1>4, <1>5
<1> QED BY <1>6 DEF all, good

(* lookup_subnet_ipv4 returns a subnet of the tree or NULL. *)
LEMMA SearchType ==
  ASSUME subnets \subseteq Subnets, NEW a
  PROVE  Search(a) = None \/ Search(a) \in subnets
BY SearchFinds

(* A cache slot yields a subnet or NULL. *)
LEMMA HitType ==
  ASSUME Types, NEW a \in Addresses
  PROVE  Hit(a) \in Subnets \cup {None}
<1>1. Slot[a] \in Slots
  BY DEF Slots
<1>2. cache[Slot[a]] \in Cached \cup {None}
  BY <1>1 DEF Types
<1> QED BY <1>2 DEF Hit, Cached

(* subnet_cache_flush_tables leaves a table of empty slots. *)
LEMMA FlushedType ==
  /\ Flushed \in [Slots -> Cached \cup {None}]
  /\ \A a \in Addresses : Flushed[Slot[a]] = None
BY DEF Flushed, Slots

(* At first nothing is cached and no thread is routing. *)
LEMMA InitIInv == Init => IInv
<1> SUFFICES ASSUME Init PROVE IInv
  OBVIOUS
<1>1. Types
  BY Zenon, FlushedType DEF Types, Init, Off, Workings, Threads
<1>2. CacheInv
  BY FlushedType DEF CacheInv, Init, Hit
<1>3. \A t \in Threads : thread[t].pc = "off" /\ thread[t].found = None
  BY DEF Init, Off
<1> QED BY <1>1, <1>2, <1>3 DEF IInv, Fresh, Threads

(* A search finds the same as long as the tree and the graph stay.           *)
LEMMA SearchStays ==
  ASSUME UNCHANGED <<subnets, topo>>
  PROVE  \A a : Search(a)' = Search(a)
<1>1. subnets' = subnets /\ topo' = topo
  OBVIOUS
<1>2. \A s : Reachable(s)' = Reachable(s)
  BY <1>1 DEF Reachable
<1> QED BY <1>1, <1>2 DEF Search

(* A lookup finds in the cache what it would find in the tree, or looks      *)
(* there.                                                                    *)
LEMMA LookupKeeps ==
  ASSUME IInv, NEW t \in Threads, Lookup(t)
  PROVE  IInv'
<1>1. PICK src \in Sources(t), a \in Addresses :
        LET hit == Hit(a)
            r == IF hit # None THEN hit ELSE Search(a)
        IN thread' = [thread EXCEPT ![t] = [pc |-> IF Stored(hit, r) THEN "insert" ELSE "use",
                                            src |-> src, dst |-> a, found |-> r]]
  BY Zenon DEF Lookup
<1> DEFINE hit == Hit(a)
           r == IF hit # None THEN hit ELSE Search(a)
           w == [pc |-> IF Stored(hit, r) THEN "insert" ELSE "use", src |-> src, dst |-> a, found |-> r]
<1>2. /\ thread' = [thread EXCEPT ![t] = w] /\ w.pc \in {"insert", "use"} /\ w.dst = a /\ w.found = r
      /\ UNCHANGED <<subnets, topo, cache, change>>
  BY Zenon, <1>1 DEF Lookup
<1>3. Types /\ CacheInv /\ subnets \subseteq Subnets
  BY DEF IInv, Types
<1>4. r \in Subnets \cup {None}
  BY <1>3, HitType, SearchType
<1>5. src \in Nodes
  BY NodesAssumption DEF Sources
<1>6. w \in Workings
  BY <1>4, <1>5 DEF Workings
<1> HIDE DEF w
<1>7. thread' \in [Threads -> Workings] /\ thread'[t] = w /\ \A u \in Threads \ {t} : thread'[u] = thread[u]
  BY <1>2, <1>3, <1>6 DEF Types
<1>8. raced' = (raced \/ Overlaps(change, thread'))
  BY Zenon DEF Lookup
<1>9. Types'
  BY Zenon, <1>2, <1>3, <1>7, <1>8 DEF Types, Cached
<1>10. \A b : Search(b)' = Search(b) /\ Hit(b)' = Hit(b)
  BY <1>2, SearchStays DEF Hit
<1>11. ~raced' => ~raced /\ (t = "worker" => change = "none")
  BY Zenon, <1>2, <1>7, <1>8 DEF Overlaps
<1>12. t = "main" => change = "none"
  BY DEF Lookup
<1>13. CacheInv'
  BY <1>2, <1>3, <1>10, <1>11 DEF CacheInv
<1>14. ~raced' => r = Search(a)
  <2> SUFFICES ASSUME ~raced' PROVE r = Search(a)
    OBVIOUS
  <2>1. ~raced /\ change = "none"
    BY <1>11, <1>12 DEF Threads
  <2> QED BY <2>1, <1>3 DEF CacheInv
<1>15. ASSUME NEW u \in Threads PROVE Fresh(u)'
  <2>1. CASE u = t
    <3>1. thread'[u].pc # "off" /\ thread'[u].dst = a /\ thread'[u].found = r
      BY <2>1, <1>2, <1>7
    <3>2. ~raced' => change' = "none"
      BY Zenon, <1>2, <1>11, <1>12 DEF Threads
    <3>3. thread'[u].pc = "insert" => r # None
      BY <2>1, <1>7 DEF w, Stored
    <3> QED BY <3>1, <3>2, <3>3, <1>10, <1>14 DEF Fresh
  <2>2. CASE u # t
    <3>1. Fresh(u)
      BY DEF IInv
    <3> QED BY <2>2, <3>1, <1>2, <1>7, <1>10, <1>11 DEF Fresh
  <2> QED BY <2>1, <2>2
<1>16. thread'["main"].pc # "off" => change' = "none"
  BY <1>2, <1>7, <1>12 DEF IInv, Threads
<1> QED BY <1>9, <1>13, <1>15, <1>16 DEF IInv

(* What is inserted is what a search would find. *)
LEMMA InsertKeeps ==
  ASSUME IInv, NEW t \in Threads, Insert(t)
  PROVE  IInv'
<1> DEFINE d == thread[t].dst
           r == thread[t].found
<1>1. /\ thread[t].pc = "insert" /\ UNCHANGED <<subnets, topo, change, raced>>
      /\ thread' = [thread EXCEPT ![t].pc = "use"]
      /\ cache' = [cache EXCEPT ![Slot[d]] = [addr |-> d, subnet |-> r]]
  BY DEF Insert
<1>2. Types /\ CacheInv /\ Fresh(t) /\ thread[t] \in Workings
  BY DEF IInv, Types
<1>3. d \in Addresses /\ r \in Subnets /\ Slot[d] \in Slots
  BY <1>1, <1>2 DEF Fresh, Workings, Slots
<1> DEFINE c == [addr |-> d, subnet |-> r]
<1>4. c \in Cached /\ c.addr = d /\ c.subnet = r /\ c # None
  BY <1>3, NodesAssumption DEF Cached
<1>5. thread' \in [Threads -> Workings] /\ \A u \in Threads :
        /\ thread'[u].dst = thread[u].dst /\ thread'[u].found = thread[u].found
        /\ u # t => thread'[u].pc = thread[u].pc
        /\ u = t => thread'[u].pc = "use"
  BY <1>1, <1>2 DEF Types, Workings
<1> HIDE DEF c
<1>6. cache' = [cache EXCEPT ![Slot[d]] = c]
  BY Zenon, <1>1 DEF c
<1>7. cache' \in [Slots -> Cached \cup {None}]
  BY <1>2, <1>3, <1>4, <1>6 DEF Types
<1>8. Types'
  BY <1>1, <1>2, <1>5, <1>7 DEF Types, Cached
<1>9. \A b : Search(b)' = Search(b)
  BY <1>1, SearchStays
<1>10. CacheInv'
  <2>1. ASSUME ~raced', change' = "none", NEW b \in Addresses, Hit(b)' # None PROVE Hit(b)' = Search(b)'
    <3>0. Slot[b] \in Slots
      BY DEF Slots
    <3>1. CASE Slot[b] = Slot[d]
      <4>1. cache'[Slot[b]] = c
        BY <1>2, <1>3, <1>6, <3>1 DEF Types
      <4>2. b = d /\ Hit(b)' = r
        BY <4>1, <1>4, <2>1 DEF Hit
      <4>3. r = Search(d)
        BY <1>1, <1>2, <2>1 DEF Fresh
      <4> QED BY <4>2, <4>3, <1>9
    <3>2. CASE Slot[b] # Slot[d]
      <4>1. cache'[Slot[b]] = cache[Slot[b]]
        BY <1>2, <1>3, <1>6, <3>0, <3>2 DEF Types
      <4>2. Hit(b)' = Hit(b)
        BY <4>1 DEF Hit
      <4> QED BY Zenon, <4>2, <1>1, <1>2, <1>9, <2>1 DEF CacheInv
    <3> QED BY <3>1, <3>2
  <2>2. ~raced' => change' = "none"
    BY <1>1, <1>2 DEF Fresh
  <2> QED BY <2>1, <2>2 DEF CacheInv
<1>11. ASSUME NEW u \in Threads PROVE Fresh(u)'
  <2>1. Fresh(u)
    BY DEF IInv
  <2> QED BY <2>1, <1>1, <1>5, <1>9 DEF Fresh
<1>12. thread'["main"].pc # "off" => change' = "none"
  BY <1>1, <1>5 DEF IInv, Threads
<1> QED BY <1>8, <1>10, <1>11, <1>12 DEF IInv

(* A thread that is done has found nothing. *)
LEMMA UseKeeps ==
  ASSUME IInv, NEW t \in Threads, Use(t)
  PROVE  IInv'
<1>1. thread' = [thread EXCEPT ![t] = Off] /\ UNCHANGED <<subnets, cache, topo, change, raced>>
  BY DEF Use
<1>2. Types /\ CacheInv
  BY DEF IInv
<1>3. Off \in Workings /\ Off.pc = "off" /\ Off.found = None
  BY DEF Off, Workings
<1> HIDE DEF Off
<1>4. thread' \in [Threads -> Workings] /\ thread'[t] = Off /\ \A u \in Threads \ {t} : thread'[u] = thread[u]
  BY <1>1, <1>2, <1>3 DEF Types
<1>5. Types'
  BY <1>1, <1>2, <1>4 DEF Types, Cached
<1>6. \A b : Search(b)' = Search(b) /\ Hit(b)' = Hit(b)
  BY <1>1, SearchStays DEF Hit
<1>7. CacheInv'
  BY <1>1, <1>2, <1>6 DEF CacheInv, Flushed
<1>8. ASSUME NEW u \in Threads PROVE Fresh(u)'
  <2>1. Fresh(u)
    BY DEF IInv
  <2> QED BY <2>1, <1>1, <1>3, <1>4, <1>6 DEF Fresh
<1>9. thread'["main"].pc # "off" => change' = "none"
  BY Zenon, <1>1, <1>3, <1>4 DEF IInv, Threads
<1> QED BY <1>5, <1>7, <1>8, <1>9 DEF IInv

(* The main thread begins a change: no other thread is routing, or the       *)
(* worker is and raced becomes true.                                         *)
LEMMA ChangeBegins ==
  ASSUME IInv, NEW ch \in {"flush", "graph"}, Begin(ch), UNCHANGED thread,
         subnets' \subseteq Subnets, cache' \in [Slots -> Cached \cup {None}],
         ch = "graph" => cache' = Flushed
  PROVE  IInv'
<1>1. change = "none" /\ thread["main"].pc = "off" /\ change' = ch /\ raced' = (raced \/ Overlaps(ch, thread))
  BY DEF Begin
<1>2. Types'
  BY <1>1 DEF IInv, Types, Cached
<1>3. ~raced' => \A t \in Threads : thread'[t].pc = "off"
  BY Zenon, <1>1 DEF Overlaps, Threads
<1>4. \A t \in Threads : Fresh(t)'
  BY Zenon, <1>3 DEF IInv, Fresh
<1>5. CacheInv'
  BY Zenon, <1>1 DEF CacheInv, Flushed
<1> QED BY <1>1, <1>2, <1>4, <1>5 DEF IInv

(* It ends a change: the cache is empty, unless a worker was there. *)
LEMMA ChangeEnds ==
  ASSUME IInv, NEW ch \in {"flush", "graph"}, End(ch), UNCHANGED <<thread, subnets>>,
         cache' = Flushed \/ (ch = "graph" /\ cache' = cache)
  PROVE  IInv'
<1>1. change = ch /\ change' = "none" /\ raced' = raced
  BY DEF End
<1>2. Types /\ CacheInv
  BY DEF IInv
<1>3. Types'
  BY <1>1, <1>2, FlushedType DEF Types, Cached
<1>4. ~raced' => cache' = Flushed
  BY <1>1, <1>2 DEF CacheInv
<1>5. CacheInv'
  BY Zenon, <1>1, <1>4, FlushedType DEF CacheInv, Hit
<1>6. \A t \in Threads : Fresh(t)'
  BY <1>1 DEF IInv, Fresh
<1> QED BY <1>1, <1>3, <1>5, <1>6 DEF IInv

(* Every step keeps the inductive invariant. *)
LEMMA NextIInv == IInv /\ [Next]_vars => IInv'
<1> SUFFICES ASSUME IInv, [Next]_vars PROVE IInv'
  OBVIOUS
<1>0. Types
  BY DEF IInv
<1>1. ASSUME NEW t \in Threads, Lookup(t) \/ Insert(t) \/ Use(t) PROVE IInv'
  BY <1>1, LookupKeeps, InsertKeeps, UseKeeps
<1>2. CASE Update
  <2>1. Begin("flush") /\ UNCHANGED <<cache, thread>>
    BY <1>2 DEF Update
  <2>2. subnets' \subseteq Subnets
    BY <1>2, <1>0 DEF Update, Types
  <2> QED BY <1>0, <2>1, <2>2, ChangeBegins DEF Types
<1>3. CASE Flush
  BY <1>3, ChangeEnds DEF Flush
<1>4. CASE GraphFlush
  <2>1. Begin("graph") /\ UNCHANGED <<subnets, thread>> /\ cache' = Flushed
    BY <1>4 DEF GraphFlush
  <2> QED BY <1>0, <2>1, FlushedType, ChangeBegins DEF Types
<1>5. CASE GraphSearch
  BY Zenon, <1>5, ChangeEnds DEF GraphSearch
<1>6. CASE UNCHANGED vars
  <2>1. UNCHANGED <<subnets, topo, cache, change, thread, raced>>
    BY <1>6 DEF vars
  <2>2. \A b : Search(b)' = Search(b) /\ Hit(b)' = Hit(b)
    BY <2>1, SearchStays DEF Hit
  <2> QED BY <2>1, <2>2 DEF IInv, Types, CacheInv, Fresh, Flushed, Cached
<1> QED BY <1>1, <1>2, <1>3, <1>4, <1>5, <1>6 DEF Next

-----------------------------------------------------------------------------
(* Neither the cache nor a thread has a subnet that a search would not find. *)
LEMMA CacheFollows == IInv => CacheIsExact
<1> SUFFICES ASSUME IInv PROVE CacheIsExact
  OBVIOUS
<1>1. ASSUME ~raced, NEW t \in Threads, thread[t].found # None PROVE thread[t].found \in subnets
  <2>1. Fresh(t) /\ subnets \subseteq Subnets
    BY DEF IInv, Types
  <2>2. thread[t].found = Search(thread[t].dst)
    BY Zenon, <1>1, <2>1 DEF Fresh
  <2> QED BY <1>1, <2>1, <2>2, SearchType
<1> QED BY <1>1 DEF IInv, CacheInv, CacheIsExact

(* What route_ipv4 makes of a small packet that may be forwarded. *)
LEMMA Routed ==
  ASSUME NEW s \in Subnets \cup {None}, NEW src, NEW conf \in Settings,
         conf.forwarding = "internal", ~conf.directonly,
         NEW p, p.ttl = FALSE, p.big = FALSE, NEW v, v = route_ipv4(s, src, p, conf)
  PROVE  /\ v.what = "send" => s # None /\ s.owner # None /\ s.owner \in topo.up /\ v.to = s.owner
         /\ v.what = "broadcast" => s # None /\ s.owner = None
         /\ v.what = "error" => s = None \/ (s.owner # None /\ s.owner \notin topo.up)
<1>1. CASE s = None
  BY <1>1 DEF route_ipv4, Unreachable, Verdict
<1>2. CASE s # None /\ s.owner = None
  BY Zenon, <1>2 DEF route_ipv4, Verdict
<1>3. CASE s # None /\ s.owner # None
  <2>1. v = Known(s, src, p, conf)
    BY <1>3 DEF route_ipv4
  <2>2. ~p.ttl /\ ~p.big /\ conf.forwarding # "off" /\ ~TimeExceeded(s, src, p, conf)
    BY Zenon DEF TimeExceeded
  <2>3. CASE s.owner = src
    <3>1. v = Dropped
      BY Zenon, <2>1, <2>3 DEF Known
    <3> QED BY <3>1 DEF Dropped, Verdict
  <2>4. CASE s.owner # src /\ s.owner \notin topo.up
    <3>1. v = Unreachable(src)
      BY Zenon, <2>1, <2>4 DEF Known
    <3> QED BY <1>3, <2>4, <3>1 DEF Unreachable, Verdict
  <2>5. CASE s.owner # src /\ s.owner \in topo.up
    <3>1. v = Dropped \/ v = Verdict("send", s.owner)
      <4>1. CASE Via(s.owner) = src
        BY <2>1, <2>2, <2>5, <4>1 DEF Known
      <4>2. CASE Via(s.owner) # src
        BY Zenon, <2>1, <2>2, <2>5, <4>2 DEF Known
      <4> QED BY <4>1, <4>2
    <3> QED BY <1>3, <2>5, <3>1 DEF Dropped, Verdict
  <2> QED BY <2>3, <2>4, <2>5
<1> QED BY <1>1, <1>2, <1>3

(* What the invariant says of the subnet a thread holds is what route_ipv4    *)
(* needs to send to the best of the reachable subnets.                        *)
LEMMA RouteFollows == IInv => RoutedToBest
<1> SUFFICES ASSUME IInv, NEW t \in Threads, thread[t].pc = "use", NEW conf \in Settings, ~raced,
                    conf.forwarding = "internal", ~conf.directonly
             PROVE  LET w == thread[t]
                        small == [ttl |-> FALSE, big |-> FALSE, df |-> FALSE]
                        good == {s \in subnets : Matches(s, w.dst) /\ Reachable(s)}
                        best == {s \in good : \A u \in good : u.len <= s.len}
                    IN \A v \in route(w.found, w.src, small, conf) :
                         /\ v.what = "send" => \E s \in best : s.owner = v.to
                         /\ v.what = "broadcast" => \E s \in best : s.owner = None
                         /\ v.what = "error" => good = {}
  BY DEF RoutedToBest
<1> DEFINE w == thread[t]
           small == [ttl |-> FALSE, big |-> FALSE, df |-> FALSE]
           good == {s \in subnets : Matches(s, w.dst) /\ Reachable(s)}
           best == {s \in good : \A u \in good : u.len <= s.len}
           f == w.found
<1>1. f = Search(w.dst) /\ subnets \subseteq Subnets
  BY Zenon DEF IInv, Types, Fresh
<1>2. /\ f = None \/ (f \in subnets /\ Matches(f, w.dst))
      /\ good # {} => f \in good /\ \A u \in good : u.len <= f.len
  <2> DEFINE all == {s \in subnets : Matches(s, w.dst)}
             good2 == {s \in all : Reachable(s)}
  <2>1. good2 = good
    BY Zenon
  <2>2. /\ all = {} => f = None
        /\ all # {} => f \in all
        /\ good2 # {} => f \in good2 /\ \A u \in good2 : u.len <= f.len
    BY Zenon, <1>1, SearchFinds
  <2> QED BY Zenon, <2>1, <2>2
<1>3. f # None /\ Reachable(f) => f \in best
  BY Zenon, <1>2
<1>4. None \notin Subnets
  BY Zenon, NodesAssumption
<1>5. f \in Subnets \cup {None}
  BY <1>1, <1>2
<1>6. ASSUME NEW p, p.ttl = FALSE, p.big = FALSE, NEW v, v = route_ipv4(f, w.src, p, conf)
      PROVE  /\ v.what = "send" => \E s \in best : s.owner = v.to
             /\ v.what = "broadcast" => \E s \in best : s.owner = None
             /\ v.what = "error" => good = {}
  <2> HIDE DEF f, good, best
  <2>1. /\ v.what = "send" => f # None /\ f.owner # None /\ f.owner \in topo.up /\ v.to = f.owner
        /\ v.what = "broadcast" => f # None /\ f.owner = None
        /\ v.what = "error" => f = None \/ (f.owner # None /\ f.owner \notin topo.up)
    BY Zenon, <1>5, <1>6, Routed
  <2>2. v.what = "error" => f = None \/ ~Reachable(f)
    BY <2>1 DEF Reachable
  <2>3. f \in good => f # None /\ Reachable(f)
    BY Zenon, <1>1, <1>4 DEF good
  <2>4. v.what = "error" => good = {}
    BY <1>2, <2>2, <2>3
  <2> QED BY Zenon, <2>1, <2>4, <1>3 DEF Reachable
<1>7. route(f, w.src, small, conf) = {route_ipv4(f, w.src, small, conf), route_ipv6(f, w.src, small, conf)}
  BY Zenon DEF route
<1>8. /\ route_ipv6(f, w.src, small, conf) = route_ipv4(f, w.src, [small EXCEPT !.df = TRUE], conf)
      /\ small.ttl = FALSE /\ small.big = FALSE
      /\ [small EXCEPT !.df = TRUE].ttl = FALSE /\ [small EXCEPT !.df = TRUE].big = FALSE
  BY DEF route_ipv6
<1> HIDE DEF f, good, best, small
<1>9. \A v \in route(f, w.src, small, conf) :
        /\ v.what = "send" => \E s \in best : s.owner = v.to
        /\ v.what = "broadcast" => \E s \in best : s.owner = None
        /\ v.what = "error" => good = {}
  BY Zenon, <1>6, <1>7, <1>8
<1> QED BY Zenon, <1>9 DEF f, good, best, small

(* The invariant holds always. *)
THEOREM Invariant == Spec => []IInv
BY InitIInv, NextIInv, PTL DEF Spec

(* Unless a worker routes during a change, the cache of lookup_subnet_ipv4   *)
(* holds what a search would find and no thread uses a subnet that           *)
(* subnet_del freed, for any subnets, hash function and results of graph().  *)
THEOREM CacheCorrect == Spec => []CacheIsExact
BY Invariant, CacheFollows, PTL

(* route_ipv4 and route_ipv6 then send a packet to the reachable owner of a  *)
(* subnet with the longest prefix, and refuse it only if there is none.      *)
THEOREM RouteCorrect == Spec => []RoutedToBest
BY Invariant, RouteFollows, PTL
=============================================================================
