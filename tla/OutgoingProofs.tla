--------------------------- MODULE OutgoingProofs ---------------------------
(* Proofs about Outgoing, for all peers, addresses, configurations and       *)
(* bounds: an outgoing_t has exactly one thing that carries it on, and       *)
(* do_outgoing_connection does not wait before it has tried the addresses.   *)
EXTENDS Outgoing, WellFoundedInduction, TLAPS

(* What get_recent_address has behind it when D are the addresses that were  *)
(* tried: a part of the recent addresses, of hosts.json, and of the host     *)
(* file if that is open.                                                     *)
Recent(cache, D) ==
  \A i \in 1 .. Len(cache.address) : i <= cache.tried => cache.address[i] \in D
Json(cache, D, p) ==
  /\ cache.json_addr_idx >= -2
  /\ \A i \in 1 .. Len(HostsJson[p]) :
       cache.json_addr_idx = -2 \/ i <= cache.json_addr_idx => Tried(HostsJson[p][i], D)
Rest(cfg, D, p) ==
  \E k \in Nat :
    /\ Len(HostFile[p]) = k + Len(cfg) /\ \A i \in 1 .. Len(cfg) : cfg[i] = HostFile[p][k + i]
    /\ \A i \in 1 .. k : Tried(HostFile[p][i], D)
Progress(cache, D, p) ==
  /\ cache \in CacheType
  /\ Recent(cache, D) /\ Json(cache, D, p)
  /\ cache.config_tree => Rest(cache.cfg, D, p)

(* All of them. *)
RecentDone(cache, D) == \A i \in 1 .. Len(cache.address) : cache.address[i] \in D
JsonDone(D, p) ==
  \A i \in 1 .. Len(HostsJson[p]) :
    Tried(HostsJson[p][i], D) \/ \E k \in 1 .. i - 1 : HostsJson[p][k] = <<>>
FileDone(D, p) == \A i \in 1 .. Len(HostFile[p]) : Tried(HostFile[p][i], D)
Done(cache, D, p) == RecentDone(cache, D) /\ JsonDone(D, p) /\ FileDone(D, p)

(* The answer of get_recent_address. *)
Answer(r, cache, D, p) ==
  /\ r.sa \in Addresses \cup {None} /\ r.cache \in CacheType
  /\ r.sa # None => Progress(r.cache, D \cup {r.sa}, p)
  /\ r.sa = None => Progress(r.cache, D, p) /\ Done(r.cache, D, p)
  /\ r.cache.address = cache.address

-----------------------------------------------------------------------------
(* A set of natural numbers that is not empty has a least element. *)
LEMMA Least ==
  ASSUME NEW S, S \subseteq Nat, S # {}
  PROVE  \E n \in S : \A m \in S : n <= m
<1> DEFINE R == OpToRel(<, Nat)
<1>1. IsWellFoundedOn(R, Nat)
  BY NatLessThanWellFounded, Zenon
<1>2. \A m, n \in Nat : <<m, n>> \in R <=> m < n
  BY Zenon DEF OpToRel
<1> HIDE DEF R
<1>3. PICK n \in S : \A m \in S : ~(<<m, n>> \in R)
  BY <1>1, WFMin, Zenon
<1>4. ASSUME NEW m \in S PROVE n <= m
  <2>1. m \in Nat /\ n \in Nat
    OBVIOUS
  <2>2. ~(m < n)
    BY <1>2, <1>3, <2>1, Zenon
  <2> QED BY <2>1, <2>2
<1> QED BY <1>4

(* Elements and parts of a sequence. *)
LEMMA Element ==
  ASSUME NEW S, NEW s \in Seq(S), NEW i \in 1 .. Len(s)
  PROVE  s[i] \in S
OBVIOUS

(* What is taken from the front of a list, and what is left. *)
LEMMA HeadTail ==
  ASSUME NEW S, NEW s \in Seq(S), s # <<>>
  PROVE  Head(s) \in S /\ Tail(s) \in Seq(S)
OBVIOUS

(* A part of a list: its type, its length and its elements. *)
LEMMA Part ==
  ASSUME NEW S, NEW s \in Seq(S), NEW m \in 1 .. Len(s) + 1, NEW n \in 0 .. Len(s)
  PROVE  /\ SubSeq(s, m, n) \in Seq(S)
         /\ Len(SubSeq(s, m, n)) = IF m <= n THEN (n - m) + 1 ELSE 0
         /\ \A i \in 1 .. (n - m) + 1 : SubSeq(s, m, n)[i] = s[(m + i) - 1]
<1>1. SubSeq(s, m, n) \in Seq(S)
  OBVIOUS
<1>2. Len(SubSeq(s, m, n)) = IF m <= n THEN (n - m) + 1 ELSE 0
  OBVIOUS
<1>3. \A i \in 1 .. (n - m) + 1 : SubSeq(s, m, n)[i] = s[(m + i) - 1]
  OBVIOUS
<1> QED BY <1>1, <1>2, <1>3

(* Two lists of one type, joined. *)
LEMMA Concatenation ==
  ASSUME NEW S, NEW s \in Seq(S), NEW u \in Seq(S)
  PROVE  s \o u \in Seq(S)
OBVIOUS

(* The first of the indexes of a sequence is one of them, and none is before *)
(* it.                                                                       *)
LEMMA FirstIndex ==
  ASSUME NEW n \in Nat, NEW I \in SUBSET (1 .. n)
  PROVE  /\ First(I) \in 0 .. n
         /\ First(I) # 0 => First(I) \in I /\ \A m \in I : First(I) <= m
         /\ First(I) = 0 => I = {}
<1>1. CASE I = {}
  BY <1>1 DEF First
<1>2. CASE I # {}
  <2>1. I \subseteq Nat
    OBVIOUS
  <2>2. \E k \in I : \A m \in I : k <= m
    BY Zenon, <1>2, <2>1, Least
  <2>3. Min(I) \in I /\ \A m \in I : Min(I) <= m
    BY <2>2, Zenon DEF Min
  <2>4. First(I) = Min(I)
    BY Zenon, <1>2 DEF First
  <2>5. PICK k \in 1 .. n : k = First(I) /\ k \in I /\ \A m \in I : k <= m
    BY Zenon, <2>3, <2>4
  <2>6. k \in 0 .. n /\ k # 0
    OBVIOUS
  <2> QED BY <2>5, <2>6
<1> QED BY <1>1, <1>2

(* The first of the lists that a name resolved to with an address in it. *)
LEMMA FirstList ==
  ASSUME NEW s \in Seq(Seq(Addresses))
  PROVE  LET next == First({i \in 1 .. Len(s) : s[i] # <<>>})
         IN /\ next \in 0 .. Len(s)
            /\ next # 0 => s[next] # <<>> /\ \A i \in 1 .. next - 1 : s[i] = <<>>
            /\ next = 0 => \A i \in 1 .. Len(s) : s[i] = <<>>
<1>1. PICK I : I = {i \in 1 .. Len(s) : s[i] # <<>>}
  BY Zenon
<1>2. Len(s) \in Nat /\ I \in SUBSET (1 .. Len(s))
  BY <1>1
<1>3. PICK m : m = First(I)
  OBVIOUS
<1>4. m \in 0 .. Len(s) /\ (m # 0 => m \in I /\ \A i \in I : m <= i) /\ (m = 0 => I = {})
  BY <1>2, <1>3, FirstIndex
<1>5. ASSUME m # 0, NEW i \in 1 .. m - 1 PROVE s[i] = <<>>
  <2>1. i \in 1 .. Len(s) /\ ~(m <= i)
    BY <1>4
  <2> QED BY <1>1, <1>4, <1>5, <2>1
<1> QED BY <1>1, <1>3, <1>4, <1>5

-----------------------------------------------------------------------------
(* The types of the lists of addresses. *)
LEMMA Lists ==
  ASSUME NEW p \in Peers
  PROVE  HostsJson[p] \in Seq(Seq(Addresses)) /\ HostFile[p] \in Seq(Seq(Addresses))
BY AddressesAssumption

(* The part of the host file that is left, when its first next lists were    *)
(* looked at and only the last of them resolves.                             *)
LEMMA RestGoesOn ==
  ASSUME NEW S, NEW p, NEW D, NEW cfg \in Seq(S), Rest(cfg, D, p),
         NEW next \in 1 .. Len(cfg), \A i \in 1 .. next - 1 : cfg[i] = <<>>
  PROVE  Rest(SubSeq(cfg, next + 1, Len(cfg)), D \cup {Head(cfg[next])}, p)
<1>1. PICK k \in Nat :
        /\ Len(HostFile[p]) = k + Len(cfg) /\ \A i \in 1 .. Len(cfg) : cfg[i] = HostFile[p][k + i]
        /\ \A i \in 1 .. k : Tried(HostFile[p][i], D)
  BY Zenon DEF Rest
<1> DEFINE s == SubSeq(cfg, next + 1, Len(cfg))
<1>0. Len(cfg) \in Nat /\ next + 1 \in 1 .. Len(cfg) + 1 /\ Len(cfg) \in 0 .. Len(cfg)
  OBVIOUS
<1>2. /\ s \in Seq(S) /\ Len(s) = Len(cfg) - next
      /\ \A i \in 1 .. Len(s) : s[i] = cfg[next + i]
  <2>1. /\ s \in Seq(S)
        /\ Len(s) = IF next + 1 <= Len(cfg) THEN (Len(cfg) - (next + 1)) + 1 ELSE 0
        /\ \A i \in 1 .. (Len(cfg) - (next + 1)) + 1 : s[i] = cfg[((next + 1) + i) - 1]
    BY <1>0, Part
  <2> HIDE DEF s
  <2>2. Len(s) = Len(cfg) - next
    BY <1>0, <2>1
  <2>3. ASSUME NEW i \in 1 .. Len(s) PROVE s[i] = cfg[next + i]
    <3>1. i \in 1 .. (Len(cfg) - (next + 1)) + 1 /\ ((next + 1) + i) - 1 = next + i
      BY <1>0, <2>2
    <3> QED BY <2>1, <3>1
  <2> QED BY <2>1, <2>2, <2>3
<1> HIDE DEF s
<1>3. k + next \in Nat /\ Len(HostFile[p]) = (k + next) + Len(s)
  BY <1>0, <1>1, <1>2
<1>4. ASSUME NEW i \in 1 .. Len(s) PROVE s[i] = HostFile[p][(k + next) + i]
  <2>1. next + i \in 1 .. Len(cfg) /\ k + (next + i) = (k + next) + i
    BY <1>2
  <2> QED BY <1>1, <1>2, <2>1
<1>5. ASSUME NEW i \in 1 .. k + next PROVE Tried(HostFile[p][i], D \cup {Head(cfg[next])})
  <2>1. CASE i \in 1 .. k
    BY <1>1, <2>1 DEF Tried
  <2>2. CASE i \notin 1 .. k
    <3>1. PICK j \in 1 .. next : i = k + j
      <4>1. i - k \in 1 .. next /\ i = k + (i - k)
        BY <2>2
      <4> QED BY <4>1
    <3>2. j \in 1 .. Len(cfg) /\ HostFile[p][i] = cfg[j]
      BY <1>1, <3>1
    <3>3. cfg[j] = <<>> \/ j = next
      OBVIOUS
    <3> QED BY <3>2, <3>3 DEF Tried
  <2> QED BY <2>1, <2>2
<1>6. Rest(s, D \cup {Head(cfg[next])}, p)
  BY Zenon, <1>3, <1>4, <1>5 DEF Rest
<1> QED BY <1>6 DEF s

(* What is left of the host file has only lists that do not resolve: all of  *)
(* it was tried.                                                             *)
LEMMA RestEnds ==
  ASSUME NEW S, NEW p, NEW D, NEW cfg \in Seq(S), Rest(cfg, D, p),
         \A i \in 1 .. Len(cfg) : cfg[i] = <<>>
  PROVE  FileDone(D, p)
<1>1. PICK k \in Nat :
        /\ Len(HostFile[p]) = k + Len(cfg) /\ \A i \in 1 .. Len(cfg) : cfg[i] = HostFile[p][k + i]
        /\ \A i \in 1 .. k : Tried(HostFile[p][i], D)
  BY Zenon DEF Rest
<1>2. ASSUME NEW i \in 1 .. Len(HostFile[p]), i \notin 1 .. k PROVE HostFile[p][i] = <<>>
  <2>1. PICK j \in 1 .. Len(cfg) : i = k + j
    <3>1. i - k \in 1 .. Len(cfg) /\ i = k + (i - k)
      BY <1>1, <1>2
    <3> QED BY <3>1
  <2> QED BY <1>1, <2>1
<1> QED BY <1>1, <1>2 DEF FileDone, Tried

(* The host file from its start. *)
LEMMA RestStarts ==
  ASSUME NEW p \in Peers, NEW D
  PROVE  Rest(HostFile[p], D, p)
<1>1. Len(HostFile[p]) \in Nat
  BY Lists
<1>2. Len(HostFile[p]) = 0 + Len(HostFile[p]) /\ 0 \in Nat
      /\ \A i \in 1 .. Len(HostFile[p]) : 0 + i = i
  BY <1>1
<1> QED BY <1>2 DEF Rest

-----------------------------------------------------------------------------
(* The types of the fields of a cache. *)
LEMMA CacheTypes ==
  ASSUME NEW cache \in CacheType
  PROVE  /\ cache.address \in Seq(Addresses) /\ cache.tried \in Nat /\ cache.ai \in BOOLEAN
         /\ cache.aip \in Seq(Addresses) /\ cache.json_addr_idx \in Int
         /\ cache.config_tree \in BOOLEAN /\ cache.cfg \in Seq(Seq(Addresses))
<1>1. PICK A, B : A = Seq(Addresses) /\ B = Seq(Seq(Addresses))
  OBVIOUS
<1>2. cache \in [address : A, tried : Nat, ai : BOOLEAN, aip : A, json_addr_idx : Int,
                 config_tree : BOOLEAN, cfg : B]
  BY <1>1 DEF CacheType
<1>3. /\ cache.address \in A /\ cache.tried \in Nat /\ cache.ai \in BOOLEAN
      /\ cache.aip \in A /\ cache.json_addr_idx \in Int
      /\ cache.config_tree \in BOOLEAN /\ cache.cfg \in B
  BY ONLY <1>2
<1> QED BY <1>1, <1>3

(* get_recent_address leaves the recent addresses alone; what the others of  *)
(* its assignments do to the fields of a cache.                              *)
Fields(r, cache, t, idx, tree, cfg) ==
  /\ r \in CacheType /\ r.address = cache.address
  /\ r.tried = t /\ r.json_addr_idx = idx /\ r.config_tree = tree /\ r.cfg = cfg

(* The constants get_recent_address assigns are of the fields' types. *)
LEMMA CacheConstants ==
  /\ 0 \in Int /\ -2 \in Int /\ TRUE \in BOOLEAN
  /\ <<>> \in Seq(Addresses) /\ <<>> \in Seq(Seq(Addresses))
<1>1. 0 \in Int /\ -2 \in Int
  BY SMT
<1>2. TRUE \in BOOLEAN
  BY Zenon
<1>3. <<>> \in Seq(Addresses) /\ <<>> \in Seq(Seq(Addresses))
  BY SMT
<1> QED BY Zenon, <1>1, <1>2, <1>3

(* The assignments of get_recent_address keep the type of the cache and       *)
(* change only the fields they name.                                          *)
LEMMA CacheUpdates ==
  ASSUME NEW cache \in CacheType, NEW l \in Seq(Addresses), NEW f \in Seq(Seq(Addresses)),
         NEW i \in Int, NEW b \in BOOLEAN
  PROVE  LET t == cache.tried
             j == cache.json_addr_idx
             tree == cache.config_tree
             cfg == cache.cfg
         IN /\ Fields([cache EXCEPT !.aip = l, !.config_tree = TRUE, !.cfg = f], cache, t, j, TRUE, f)
            /\ Fields([cache EXCEPT !.ai = TRUE, !.aip = l, !.config_tree = TRUE, !.cfg = f],
                      cache, t, j, TRUE, f)
            /\ Fields(Exhausted([cache EXCEPT !.config_tree = TRUE, !.cfg = <<>>]),
                      cache, t, j, FALSE, <<>>)
            /\ Fields([cache EXCEPT !.json_addr_idx = i], cache, t, i, tree, cfg)
            /\ Fields([cache EXCEPT !.json_addr_idx = i, !.ai = b, !.aip = l], cache, t, i, tree, cfg)
            /\ Fields([cache EXCEPT !.ai = TRUE, !.aip = l], cache, t, j, tree, cfg)
            /\ Fields([cache EXCEPT !.aip = l], cache, t, j, tree, cfg)
            /\ Fields([cache EXCEPT !.ai = FALSE, !.aip = <<>>, !.tried = @ + 1], cache, t + 1, j, tree, cfg)
            /\ Fields([cache EXCEPT !.tried = @ + 1], cache, t + 1, j, tree, cfg)
<1>1. PICK A, B : A = Seq(Addresses) /\ B = Seq(Seq(Addresses))
  OBVIOUS
<1> DEFINE T == [address : A, tried : Nat, ai : BOOLEAN, aip : A, json_addr_idx : Int,
                 config_tree : BOOLEAN, cfg : B]
<1>2. T = CacheType
  BY <1>1 DEF CacheType
<1>3. cache \in T /\ l \in A /\ f \in B /\ i \in Int /\ b \in BOOLEAN /\ <<>> \in A /\ <<>> \in B
  <2>1. <<>> \in Seq(Addresses) /\ <<>> \in Seq(Seq(Addresses))
    OBVIOUS
  <2> HIDE DEF T
  <2> QED BY <1>1, <1>2, <2>1, Zenon
<1>t. PICK u \in Nat : u = cache.tried + 1
  <2>1. cache.tried \in Nat
    BY ONLY <1>3
  <2> QED BY <2>1
<1> DEFINE F(r, t, idx, tree, cfg) ==
             /\ r \in T /\ r.address = cache.address
             /\ r.tried = t /\ r.json_addr_idx = idx /\ r.config_tree = tree /\ r.cfg = cfg
<1>4. F([cache EXCEPT !.aip = l, !.config_tree = TRUE, !.cfg = f], cache.tried, cache.json_addr_idx, TRUE, f)
  BY ONLY Zenon, <1>3
<1>5. F([cache EXCEPT !.ai = TRUE, !.aip = l, !.config_tree = TRUE, !.cfg = f],
        cache.tried, cache.json_addr_idx, TRUE, f)
  BY ONLY Zenon, <1>3
<1>6. F(Exhausted([cache EXCEPT !.config_tree = TRUE, !.cfg = <<>>]),
        cache.tried, cache.json_addr_idx, FALSE, <<>>)
  BY ONLY Zenon, <1>3 DEF Exhausted
<1>7. F([cache EXCEPT !.json_addr_idx = i], cache.tried, i, cache.config_tree, cache.cfg)
  BY ONLY Zenon, <1>3
<1>8. F([cache EXCEPT !.json_addr_idx = i, !.ai = b, !.aip = l], cache.tried, i, cache.config_tree, cache.cfg)
  BY ONLY Zenon, <1>3
<1>9. F([cache EXCEPT !.ai = TRUE, !.aip = l], cache.tried, cache.json_addr_idx, cache.config_tree, cache.cfg)
  BY ONLY Zenon, <1>3
<1>10. F([cache EXCEPT !.aip = l], cache.tried, cache.json_addr_idx, cache.config_tree, cache.cfg)
  BY ONLY Zenon, <1>3
<1>11. F([cache EXCEPT !.ai = FALSE, !.aip = <<>>, !.tried = @ + 1],
         cache.tried + 1, cache.json_addr_idx, cache.config_tree, cache.cfg)
  BY ONLY Zenon, <1>3, <1>t
<1>12. F([cache EXCEPT !.tried = @ + 1], cache.tried + 1, cache.json_addr_idx, cache.config_tree, cache.cfg)
  BY ONLY Zenon, <1>3, <1>t
<1>13. \A r, t, idx, tree, cfg : F(r, t, idx, tree, cfg) => Fields(r, cache, t, idx, tree, cfg)
  BY <1>2, Zenon DEF Fields
<1> HIDE DEF F, T
<1> QED BY <1>4, <1>5, <1>6, <1>7, <1>8, <1>9, <1>10, <1>11, <1>12, <1>13, Zenon

(* get_recent_address, the part about the host file. *)
LEMMA HostFileAnswer ==
  ASSUME NEW p \in Peers, NEW D, NEW cache \in CacheType, cache.config_tree => Rest(cache.cfg, D, p)
  PROVE  LET r == FromHostFile(cache, p)
         IN /\ r.sa \in Addresses \cup {None}
            /\ Fields(r.cache, cache, cache.tried, cache.json_addr_idx, r.cache.config_tree, r.cache.cfg)
            /\ r.sa # None => Rest(r.cache.cfg, D \cup {r.sa}, p)
            /\ r.sa = None => FileDone(D, p) /\ ~r.cache.config_tree
<1> DEFINE r == FromHostFile(cache, p)
           c == IF cache.config_tree THEN cache.cfg ELSE HostFile[p]
<1>1. PICK cfg \in Seq(Seq(Addresses)) : cfg = c
  BY CacheTypes, Lists
<1>2. Rest(cfg, D, p)
  BY <1>1, RestStarts
<1>3. PICK next \in 0 .. Len(cfg) :
        /\ next = First({i \in 1 .. Len(cfg) : cfg[i] # <<>>})
        /\ next # 0 => cfg[next] # <<>> /\ \A i \in 1 .. next - 1 : cfg[i] = <<>>
        /\ next = 0 => \A i \in 1 .. Len(cfg) : cfg[i] = <<>>
  BY Zenon, FirstList
<1> HIDE DEF c
<1>4. CASE cache.aip # <<>>
  <2>1. PICK l \in Seq(Addresses) : l = Tail(cache.aip) /\ Head(cache.aip) \in Addresses
    BY Zenon, <1>4, CacheTypes, HeadTail
  <2>2. PICK d : d = [cache EXCEPT !.aip = l, !.config_tree = TRUE, !.cfg = cfg]
    OBVIOUS
  <2>3. r = Returns(Head(cache.aip), d)
    BY <1>1, <1>4, <2>1, <2>2 DEF FromHostFile, c
  <2>4. r.sa = Head(cache.aip) /\ r.cache = d
    BY <2>3 DEF Returns
  <2>5. Fields(d, cache, cache.tried, cache.json_addr_idx, TRUE, cfg)
    BY Zenon, <2>2, CacheConstants, CacheUpdates
  <2>6. Rest(cfg, D \cup {r.sa}, p)
    BY <1>2 DEF Rest, Tried
  <2>7. r.sa # None
    BY Zenon, <2>1, <2>4, NoneAssumption
  <2> HIDE DEF r
  <2> QED BY <2>1, <2>4, <2>5, <2>6, <2>7 DEF r, Fields
<1>5. CASE cache.aip = <<>> /\ next # 0
  <2>1. next \in 1 .. Len(cfg) /\ cfg[next] \in Seq(Addresses)
    BY <1>3, <1>5, Element
  <2>2. PICK l \in Seq(Addresses) : l = Tail(cfg[next]) /\ Head(cfg[next]) \in Addresses
    BY Zenon, <1>3, <1>5, <2>1, HeadTail
  <2>3. PICK f \in Seq(Seq(Addresses)) : f = SubSeq(cfg, next + 1, Len(cfg))
    <3>1. next + 1 \in 1 .. Len(cfg) + 1 /\ Len(cfg) \in 0 .. Len(cfg)
      OBVIOUS
    <3> QED BY Zenon, <3>1, Part
  <2>4. PICK d : d = [cache EXCEPT !.ai = TRUE, !.aip = l, !.config_tree = TRUE, !.cfg = f]
    OBVIOUS
  <2>5. r = Returns(Head(cfg[next]), d)
    BY Zenon, <1>1, <1>3, <1>5, <2>2, <2>3, <2>4 DEF FromHostFile, c
  <2>6. r.sa = Head(cfg[next]) /\ r.cache = d
    BY <2>5 DEF Returns
  <2>7. Fields(d, cache, cache.tried, cache.json_addr_idx, TRUE, f)
    BY Zenon, <2>4, CacheConstants, CacheUpdates
  <2>8. Rest(f, D \cup {r.sa}, p)
    BY Zenon, <1>2, <1>3, <1>5, <2>1, <2>3, <2>6, RestGoesOn
  <2>9. r.sa # None
    BY <2>2, <2>6, NoneAssumption
  <2> HIDE DEF r
  <2> QED BY Zenon, <2>2, <2>6, <2>7, <2>8, <2>9 DEF r, Fields
<1>6. CASE cache.aip = <<>> /\ next = 0
  <2>1. PICK d : d = Exhausted([cache EXCEPT !.config_tree = TRUE, !.cfg = <<>>])
    BY Zenon
  <2>2. r = Returns(None, d)
    BY <1>1, <1>3, <1>6, <2>1 DEF FromHostFile, c
  <2>3. r.sa = None /\ r.cache = d
    BY <2>2 DEF Returns
  <2>4. Fields(d, cache, cache.tried, cache.json_addr_idx, FALSE, <<>>)
    <3>1. <<>> \in Seq(Addresses) /\ <<>> \in Seq(Seq(Addresses)) /\ 0 \in Int /\ TRUE \in BOOLEAN
      OBVIOUS
    <3> QED BY Zenon, <2>1, <3>1, CacheUpdates
  <2>5. FileDone(D, p)
    BY <1>2, <1>3, <1>6, RestEnds
  <2> HIDE DEF r
  <2> QED BY <2>3, <2>4, <2>5 DEF r, Fields
<1> QED BY <1>4, <1>5, <1>6

(* get_recent_address, from hosts.json on; D has all recent addresses. *)
LEMMA HostsJsonAnswer ==
  ASSUME NEW p \in Peers, NEW D, NEW cache, Progress(cache, D, p), RecentDone(cache, D)
  PROVE  Answer(FromHostsJson(cache, p), cache, D, p)
<1> DEFINE r == FromHostsJson(cache, p)
<1>1. cache \in CacheType /\ Json(cache, D, p) /\ (cache.config_tree => Rest(cache.cfg, D, p))
  BY DEF Progress
<1>2. PICK idx \in Int : idx = FirstJson(cache.json_addr_idx)
  BY <1>1, CacheTypes DEF FirstJson
<1>3. PICK n \in Nat : n = Len(HostsJson[p]) /\ HostsJson[p] \in Seq(Seq(Addresses))
  BY Lists
<1>4. \A i \in 1 .. n : i <= idx => Tried(HostsJson[p][i], D)
  BY <1>1, <1>2, <1>3, CacheTypes DEF Json, FirstJson
<1>5. ASSUME NEW d \in CacheType, d.address = cache.address, d.config_tree = cache.config_tree,
             d.cfg = cache.cfg, Json(d, D, p), JsonDone(D, p), r = FromHostFile(d, p)
      PROVE  Answer(r, cache, D, p)
  <2>1. /\ r.sa \in Addresses \cup {None}
        /\ Fields(r.cache, d, d.tried, d.json_addr_idx, r.cache.config_tree, r.cache.cfg)
        /\ r.sa # None => Rest(r.cache.cfg, D \cup {r.sa}, p)
        /\ r.sa = None => FileDone(D, p) /\ ~r.cache.config_tree
    BY Zenon, <1>1, <1>5, HostFileAnswer
  <2> HIDE DEF r
  <2>2. /\ r.cache \in CacheType /\ r.cache.address = cache.address
        /\ r.cache.json_addr_idx = d.json_addr_idx
    BY Zenon, <1>5, <2>1 DEF Fields
  <2>3. Recent(r.cache, D) /\ Json(r.cache, D, p) /\ RecentDone(r.cache, D)
    BY Zenon, <1>5, <2>2 DEF Recent, RecentDone, Json
  <2>4. Recent(r.cache, D \cup {r.sa}) /\ Json(r.cache, D \cup {r.sa}, p)
    BY <2>3 DEF Recent, Json, Tried
  <2> QED BY <1>5, <2>1, <2>2, <2>3, <2>4 DEF Answer, Progress, Done
<1>6. CASE idx < 0
  <2>1. cache.json_addr_idx = idx /\ r = FromHostFile(cache, p)
    BY <1>2, <1>6 DEF FromHostsJson, FirstJson
  <2>2. idx = -2 /\ \A i \in 1 .. n : Tried(HostsJson[p][i], D)
    BY <1>1, <1>2, <1>3, <1>6, CacheTypes DEF Json, FirstJson
  <2>3. JsonDone(D, p)
    BY Zenon, <1>3, <2>2 DEF JsonDone
  <2> QED BY <1>1, <1>5, <2>1, <2>3
<1>7. CASE idx >= n
  <2>1. PICK d : d = [cache EXCEPT !.json_addr_idx = -2]
    BY Zenon
  <2>2. r = FromHostFile(d, p)
    BY <1>2, <1>3, <1>7, <2>1 DEF FromHostsJson
  <2>3. Fields(d, cache, cache.tried, -2, cache.config_tree, cache.cfg)
    BY Zenon, <1>1, <2>1, CacheConstants, CacheUpdates
  <2>4. \A i \in 1 .. n : Tried(HostsJson[p][i], D)
    BY <1>4, <1>7
  <2>5. Json(d, D, p) /\ JsonDone(D, p)
    BY <1>3, <2>3, <2>4 DEF Json, JsonDone, Fields
  <2>6. d \in CacheType /\ d.address = cache.address /\ d.config_tree = cache.config_tree /\ d.cfg = cache.cfg
    BY <2>3 DEF Fields
  <2> QED BY <1>5, <2>2, <2>5, <2>6
<1>8. CASE idx \in 0 .. n - 1
  <2>1. PICK list \in Seq(Addresses) : list = HostsJson[p][idx + 1]
    BY <1>3, <1>8, Element
  <2>2. PICK next : next = [cache EXCEPT !.json_addr_idx = idx + 1, !.ai = (list # <<>>), !.aip = list]
    OBVIOUS
  <2>3. Fields(next, cache, cache.tried, idx + 1, cache.config_tree, cache.cfg)
    <3>1. idx + 1 \in Int /\ (list # <<>>) \in BOOLEAN /\ <<>> \in Seq(Seq(Addresses))
      OBVIOUS
    <3> QED BY Zenon, <1>1, <2>2, <3>1, CacheUpdates
  <2>4. r = IF list # <<>> THEN Returns(Head(list), [next EXCEPT !.aip = Tail(@)]) ELSE FromHostFile(next, p)
    BY <1>2, <1>3, <1>8, <2>1, <2>2 DEF FromHostsJson
  <2>5. CASE list = <<>>
    <3>1. r = FromHostFile(next, p)
      BY <2>4, <2>5
    <3>2. ASSUME NEW i \in 1 .. n, i <= idx + 1 PROVE Tried(HostsJson[p][i], D)
      <4>1. CASE i <= idx
        BY <1>4, <4>1
      <4>2. CASE i = idx + 1
        BY Zenon, <2>1, <2>5, <4>2 DEF Tried
      <4> QED BY <3>2, <4>1, <4>2
    <3>3. Json(next, D, p)
      <4>1. next.json_addr_idx = idx + 1 /\ idx + 1 >= -2 /\ idx + 1 # -2
        BY <1>8, <2>3 DEF Fields
      <4> QED BY <1>3, <3>2, <4>1 DEF Json
    <3>4. ASSUME NEW i \in 1 .. n PROVE Tried(HostsJson[p][i], D) \/ \E k \in 1 .. i - 1 : HostsJson[p][k] = <<>>
      <4>1. CASE i <= idx + 1
        BY <3>2, <4>1
      <4>2. CASE i > idx + 1
        <5>1. idx + 1 \in 1 .. i - 1
          BY <1>8, <4>2
        <5> QED BY Zenon, <2>1, <2>5, <5>1
      <4> QED BY <4>1, <4>2
    <3>5. JsonDone(D, p)
      BY <1>3, <3>4 DEF JsonDone
    <3>6. /\ next \in CacheType /\ next.address = cache.address
          /\ next.config_tree = cache.config_tree /\ next.cfg = cache.cfg
      BY Zenon, <2>3 DEF Fields
    <3> QED BY <1>5, <3>1, <3>3, <3>5, <3>6
  <2>6. CASE list # <<>>
    <3>1. PICK l \in Seq(Addresses) : l = Tail(list) /\ Head(list) \in Addresses
      BY Zenon, <2>6, HeadTail
    <3>2. next.aip = list
      <4>1. PICK A, B : A = Seq(Addresses) /\ B = Seq(Seq(Addresses))
        OBVIOUS
      <4>2. cache \in [address : A, tried : Nat, ai : BOOLEAN, aip : A, json_addr_idx : Int,
                       config_tree : BOOLEAN, cfg : B]
        BY <1>1, <4>1 DEF CacheType
      <4> QED BY ONLY <2>2, <4>2
    <3>3. PICK d : d = [next EXCEPT !.aip = l]
      BY Zenon
    <3>4. r = Returns(Head(list), d)
      BY <2>4, <2>6, <3>1, <3>2, <3>3
    <3>5. r.sa = Head(list) /\ r.cache = d
      BY <3>4 DEF Returns
    <3>6. Fields(d, next, next.tried, next.json_addr_idx, next.config_tree, next.cfg)
      <4>1. next \in CacheType
        BY <2>3 DEF Fields
      <4> QED BY Zenon, <3>3, <4>1, CacheConstants, CacheUpdates
    <3>7. /\ d \in CacheType /\ d.address = cache.address /\ d.json_addr_idx = idx + 1
          /\ d.config_tree = cache.config_tree /\ d.cfg = cache.cfg
      BY <2>3, <3>6 DEF Fields
    <3> HIDE DEF r
    <3>8. ASSUME NEW i \in 1 .. n, i <= idx + 1 PROVE Tried(HostsJson[p][i], D \cup {r.sa})
      <4>1. CASE i <= idx
        <5>1. Tried(HostsJson[p][i], D)
          BY <1>4, <4>1
        <5> QED BY <5>1 DEF Tried
      <4>2. CASE i = idx + 1
        BY <2>1, <3>5, <4>2 DEF Tried
      <4> QED BY <3>8, <4>1, <4>2
    <3>9. Json(d, D \cup {r.sa}, p)
      <4>1. idx + 1 >= -2 /\ idx + 1 # -2
        BY <1>8
      <4> QED BY Zenon, <1>3, <3>7, <3>8, <4>1 DEF Json
    <3>10. Recent(d, D \cup {r.sa}) /\ (d.config_tree => Rest(d.cfg, D \cup {r.sa}, p))
      BY Zenon, <1>1, <3>7 DEF Recent, RecentDone, Rest, Tried
    <3>11. r.sa # None /\ r.sa \in Addresses
      BY <3>1, <3>5, NoneAssumption
    <3> QED BY <3>5, <3>7, <3>9, <3>10, <3>11 DEF Answer, Progress, r
  <2> QED BY <2>5, <2>6
<1> QED BY <1>3, <1>6, <1>7, <1>8

(* get_recent_address: an address that it gives adds to what was tried, and  *)
(* when it gives none, all was tried.                                        *)
LEMMA RecentAnswer ==
  ASSUME NEW p \in Peers, NEW D, NEW cache, NEW known \in Seq(Addresses), Progress(cache, D, p)
  PROVE  Answer(get_recent_address(cache, p, known), cache, D, p)
<1> DEFINE r == get_recent_address(cache, p, known)
<1>1. cache \in CacheType /\ Recent(cache, D) /\ Json(cache, D, p)
      /\ (cache.config_tree => Rest(cache.cfg, D, p))
  BY DEF Progress
<1>2. PICK used \in Nat : used = Len(cache.address)
  BY <1>1, CacheTypes
<1>3. PICK t \in Nat : t = cache.tried
  BY <1>1, CacheTypes
<1>4. t >= used => RecentDone(cache, D)
  BY <1>1, <1>2, <1>3 DEF Recent, RecentDone
<1>e. TRUE \in BOOLEAN /\ 0 \in Int /\ <<>> \in Seq(Addresses) /\ <<>> \in Seq(Seq(Addresses))
  OBVIOUS
(* An address a, and a cache d that differs in what is left of the lists. *)
<1>5. ASSUME NEW a \in Addresses, NEW d, r = Returns(a, d),
             Fields(d, cache, d.tried, cache.json_addr_idx, cache.config_tree, cache.cfg),
             Recent(d, D \cup {a})
      PROVE  Answer(r, cache, D, p)
  <2> HIDE DEF r
  <2>1. r.sa = a /\ r.cache = d /\ r.sa # None
    BY Zenon, <1>5, NoneAssumption DEF Returns
  <2>2. /\ d \in CacheType /\ d.address = cache.address /\ d.json_addr_idx = cache.json_addr_idx
        /\ d.config_tree = cache.config_tree /\ d.cfg = cache.cfg
    BY <1>5 DEF Fields
  <2>3. Json(d, D \cup {a}, p) /\ (d.config_tree => Rest(d.cfg, D \cup {a}, p))
    BY Zenon, <1>1, <2>2 DEF Json, Rest, Tried
  <2> QED BY <1>5, <2>1, <2>2, <2>3 DEF Answer, Progress
<1>6. CASE t < used
  <2>1. PICK a \in Addresses : a = cache.address[t + 1]
    <3>1. t + 1 \in 1 .. Len(cache.address) /\ cache.address \in Seq(Addresses)
      BY <1>1, <1>2, <1>6, CacheTypes
    <3> QED BY <3>1, Element
  <2>2. PICK d : d = [cache EXCEPT !.tried = @ + 1]
    BY Zenon
  <2>3. r = Returns(a, d)
    BY <1>2, <1>3, <1>6, <2>1, <2>2 DEF get_recent_address
  <2>4. Fields(d, cache, cache.tried + 1, cache.json_addr_idx, cache.config_tree, cache.cfg)
    BY Zenon, <1>1, <1>e, <2>2, CacheUpdates
  <2>5. d.address = cache.address /\ d.tried = t + 1
    BY <1>3, <2>4 DEF Fields
  <2>6. ASSUME NEW i \in 1 .. used, i <= t + 1 PROVE cache.address[i] \in D \cup {a}
    <3>1. CASE i <= t
      BY <1>1, <1>2, <1>3, <3>1 DEF Recent
    <3>2. CASE i = t + 1
      BY <2>1, <3>2
    <3> QED BY <2>6, <3>1, <3>2
  <2>7. Recent(d, D \cup {a})
    BY <1>2, <2>5, <2>6 DEF Recent
  <2>8. Fields(d, cache, d.tried, cache.json_addr_idx, cache.config_tree, cache.cfg)
    BY <2>4 DEF Fields
  <2> QED BY <1>5, <2>3, <2>7, <2>8
<1>7. CASE t = used
  <2>1. PICK list \in Seq(Addresses) : list = IF cache.ai THEN cache.aip ELSE known
    BY <1>1, CacheTypes
  <2>2. PICK next \in 0 .. Len(list) : next = First({i \in 1 .. Len(list) : ~find_cached(cache, list[i])})
    <3>1. PICK I : I = {i \in 1 .. Len(list) : ~find_cached(cache, list[i])}
      BY Zenon
    <3>2. Len(list) \in Nat /\ I \in SUBSET (1 .. Len(list))
      BY <3>1
    <3>3. First(I) \in 0 .. Len(list)
      BY <3>2, FirstIndex
    <3> QED BY Zenon, <3>1, <3>3
  <2>3. r = FromEdges(cache, p, known)
    BY <1>2, <1>3, <1>7 DEF get_recent_address
  <2>4. CASE next # 0
    <3>1. next \in 1 .. Len(list)
      BY <2>4
    <3>2. PICK a \in Addresses : a = list[next]
      BY <3>1, Element
    <3>3. PICK l \in Seq(Addresses) : l = SubSeq(list, next + 1, Len(list))
      <4>1. next + 1 \in 1 .. Len(list) + 1 /\ Len(list) \in 0 .. Len(list)
        BY <3>1
      <4> QED BY Zenon, <4>1, Part
    <3>4. PICK d : d = [cache EXCEPT !.ai = TRUE, !.aip = l]
      OBVIOUS
    <3>5. r = Returns(a, d)
      BY Zenon, <2>1, <2>2, <2>3, <2>4, <3>2, <3>3, <3>4 DEF FromEdges
    <3>6. Fields(d, cache, cache.tried, cache.json_addr_idx, cache.config_tree, cache.cfg)
      BY Zenon, <1>1, <1>e, <3>4, CacheUpdates
    <3>7. Fields(d, cache, d.tried, cache.json_addr_idx, cache.config_tree, cache.cfg)
          /\ Recent(d, D \cup {a})
      BY Zenon, <1>1, <3>6 DEF Fields, Recent
    <3> QED BY <1>5, <3>5, <3>7
  <2>5. CASE next = 0
    <3>1. PICK d : d = [cache EXCEPT !.ai = FALSE, !.aip = <<>>, !.tried = @ + 1]
      OBVIOUS
    <3>2. r = FromHostsJson(d, p)
      BY <2>1, <2>2, <2>3, <2>5, <3>1 DEF FromEdges
    <3>3. Fields(d, cache, cache.tried + 1, cache.json_addr_idx, cache.config_tree, cache.cfg)
      BY Zenon, <1>1, <1>e, <3>1, CacheUpdates
    <3>4. /\ d \in CacheType /\ d.address = cache.address /\ d.json_addr_idx = cache.json_addr_idx
          /\ d.config_tree = cache.config_tree /\ d.cfg = cache.cfg
      BY <3>3 DEF Fields
    <3>5. RecentDone(d, D)
      BY <1>4, <1>7, <3>4 DEF RecentDone
    <3>6. Progress(d, D, p)
      BY <1>1, <3>4, <3>5 DEF Progress, Recent, RecentDone, Json
    <3>7. Answer(r, d, D, p)
      BY <3>2, <3>5, <3>6, HostsJsonAnswer
    <3> QED BY <3>4, <3>7 DEF Answer
  <2> QED BY <2>4, <2>5
<1>8. CASE t > used
  <2>1. ~(cache.tried < Len(cache.address)) /\ cache.tried # Len(cache.address)
    BY <1>2, <1>3, <1>8
  <2>2. r = FromHostsJson(cache, p)
    BY <2>1, Zenon DEF get_recent_address
  <2> QED BY <1>4, <1>8, <2>2, HostsJsonAnswer
<1> QED BY <1>6, <1>7, <1>8

-----------------------------------------------------------------------------
(* What the daemon has for a peer. *)
Connections == [outgoing : BOOLEAN, address : Addresses] \cup {None}
Node ==
  [outgoing : BOOLEAN, timeout : 0 .. maxtimeout, ev : BOOLEAN, dial : Addresses \cup {None},
   connection : Connections, elsewhere : BOOLEAN, cache : CacheType, dialled : SUBSET Addresses]

Made(n) == n.connection # None /\ n.connection.outgoing

(* Nothing carries an outgoing_t on, or one thing does. *)
Nothing(n) == ~n.ev /\ n.dial = None /\ ~Made(n)
One(n) ==
  \/ n.ev /\ n.dial = None /\ ~Made(n)
  \/ ~n.ev /\ n.dial # None /\ ~Made(n)
  \/ ~n.ev /\ n.dial = None /\ Made(n)
Carried(n) == IF n.outgoing THEN One(n) ELSE Nothing(n)

(* What get_recent_address has behind it, and that a timer has all of it. *)
Behind(n, p) == Progress(n.cache, n.dialled, p)
Waits(n, p) == n.ev /\ n.cache.tried # 0 => Done(n.cache, n.dialled, p)

Good(n, p) == n \in Node /\ Carried(n) /\ Behind(n, p) /\ Waits(n, p)

(* The inductive invariant. *)
IInv == node \in [Peers -> Node] /\ \A p \in Peers : Good(node[p], p)

(* The address of an edge of p. *)
LEMMA Known ==
  ASSUME NEW p \in Peers, NEW n
  PROVE  get_known_addresses(n, p) \in Seq(Addresses)
BY AddressesAssumption DEF get_known_addresses

(* do_outgoing_connection of an outgoing_t that nothing carries on: one      *)
(* thing does, and if it is the timer all addresses were tried.              *)
LEMMA DoOutgoing ==
  ASSUME NEW p \in Peers, NEW n \in Node, n.outgoing, Nothing(n), Behind(n, p)
  PROVE  Good(do_outgoing_connection(n, p), p)
<1>1. PICK r : r = get_recent_address(n.cache, p, get_known_addresses(n, p))
  OBVIOUS
<1>2. Answer(r, n.cache, n.dialled, p)
  BY <1>1, Known, RecentAnswer DEF Behind
<1>3. PICK m : m = do_outgoing_connection(n, p)
  BY Zenon
<1>4. CASE r.sa = None
  <2>1. PICK t \in 0 .. maxtimeout : t = Backoff(n.timeout)
    <3>1. n.timeout \in 0 .. maxtimeout
      BY Zenon DEF Node
    <3> QED BY <3>1, BoundsAssumption DEF Backoff
  <2>2. r.cache \in CacheType /\ Progress(r.cache, n.dialled, p) /\ Done(r.cache, n.dialled, p)
    BY <1>2, <1>4 DEF Answer
  <2>3. PICK c \in CacheType : c = r.cache
    BY <2>2
  <2>4. m = [[n EXCEPT !.cache = c] EXCEPT !.timeout = Backoff(@), !.ev = TRUE]
    BY <1>1, <1>3, <1>4, <2>3 DEF do_outgoing_connection, retry_outgoing
  <2>5. m = [[n EXCEPT !.cache = c] EXCEPT !.timeout = t, !.ev = TRUE]
    BY <2>1, <2>4 DEF Node
  <2>6. /\ m \in Node /\ m.outgoing = n.outgoing /\ m.ev /\ m.dial = n.dial
        /\ m.connection = n.connection /\ m.cache = c /\ m.dialled = n.dialled
    BY Zenon, <2>5 DEF Node
  <2> QED BY <1>3, <2>2, <2>3, <2>6 DEF Good, Carried, One, Nothing, Made, Behind, Waits
<1>5. CASE r.sa # None
  <2>1. PICK a \in Addresses, c \in CacheType : a = r.sa /\ c = r.cache
    BY <1>2, <1>5 DEF Answer
  <2>2. m = [[n EXCEPT !.cache = c] EXCEPT !.dial = a, !.dialled = @ \cup {a}]
    BY <1>1, <1>3, <1>5, <2>1 DEF do_outgoing_connection
  <2>3. /\ m \in Node /\ m.outgoing = n.outgoing /\ m.ev = n.ev /\ m.dial = a
        /\ m.connection = n.connection /\ m.cache = c /\ m.dialled = n.dialled \cup {a}
    BY Zenon, <2>2 DEF Node
  <2>4. Progress(c, n.dialled \cup {a}, p)
    BY <1>2, <1>5, <2>1 DEF Answer
  <2> QED BY Zenon, <1>3, <1>5, <2>1, <2>3, <2>4 DEF Good, Carried, One, Nothing, Made, Behind, Waits
<1> QED BY <1>4, <1>5

(* setup_outgoing_connection, called for an outgoing_t whose timer may have  *)
(* expired, and which no connection carries on.                              *)
LEMMA SetupOutgoing ==
  ASSUME NEW p \in Peers, NEW n \in Node, n.outgoing, n.dial = None, ~Made(n), Behind(n, p)
  PROVE  Good(setup_outgoing_connection(n, p), p)
<1>1. PICK m : m = [n EXCEPT !.ev = FALSE]
  BY Zenon
<1>2. /\ m \in Node /\ m.outgoing /\ ~m.ev /\ m.dial = None /\ m.connection = n.connection
      /\ m.elsewhere = n.elsewhere /\ m.cache = n.cache /\ m.dialled = n.dialled
  BY Zenon, <1>1 DEF Node
<1>3. Nothing(m) /\ Behind(m, p)
  BY <1>2 DEF Nothing, Made, Behind
<1>4. CASE n.connection = None
  <2>1. setup_outgoing_connection(n, p) = do_outgoing_connection(m, p)
    BY <1>1, <1>4, Zenon DEF setup_outgoing_connection
  <2> QED BY <1>2, <1>3, <2>1, DoOutgoing
<1>5. CASE n.connection # None
  <2>1. n.connection # None /\ ~n.connection.outgoing
    BY <1>5 DEF Made
  <2>2. PICK w : w = setup_outgoing_connection(n, p)
    OBVIOUS
  <2>3. w = [m EXCEPT !.connection.outgoing = TRUE]
    BY <1>1, <2>1, <2>2 DEF setup_outgoing_connection
  <2>4. PICK k : k = [n.connection EXCEPT !.outgoing = TRUE]
    BY Zenon
  <2>5. k \in Connections /\ k # None /\ k.outgoing
    <3>1. n.connection \in [outgoing : BOOLEAN, address : Addresses]
      BY <1>5 DEF Node, Connections
    <3>2. k \in [outgoing : BOOLEAN, address : Addresses] /\ k.outgoing
      BY ONLY Zenon, <2>4, <3>1
    <3> QED BY <3>2, NoneAssumption DEF Connections
  <2>6. w = [m EXCEPT !.connection = k]
    BY <1>2, <2>3, <2>4 DEF Node
  <2>7. /\ w \in Node /\ w.outgoing /\ ~w.ev /\ w.dial = None /\ w.connection = k
        /\ w.elsewhere = n.elsewhere /\ w.cache = n.cache /\ w.dialled = n.dialled
    BY <1>2, <2>5, <2>6 DEF Node
  <2>8. Carried(w)
    BY <2>4, <2>5, <2>7 DEF Carried, One, Made
  <2> QED BY <2>2, <2>7, <2>8 DEF Good, Behind, Waits
<1> QED BY <1>4, <1>5

(* terminate_connection of the connection that is made. *)
LEMMA DialTerminated ==
  ASSUME NEW p \in Peers, NEW n, Good(n, p), n.dial # None
  PROVE  Good(TerminateDial(n, p), p)
<1>1. n \in Node /\ n.outgoing /\ ~n.ev /\ ~Made(n) /\ Behind(n, p)
  BY DEF Good, Carried, One, Nothing, Node
<1>2. PICK m : m = [n EXCEPT !.dial = None]
  BY Zenon
<1>3. /\ m \in Node /\ m.outgoing /\ ~m.ev /\ m.dial = None /\ m.connection = n.connection
      /\ m.cache = n.cache /\ m.dialled = n.dialled
  BY Zenon, <1>1, <1>2 DEF Node
<1>4. Nothing(m) /\ Behind(m, p)
  BY <1>1, <1>3 DEF Nothing, Made, Behind
<1> QED BY Zenon, <1>2, <1>3, <1>4, DoOutgoing DEF TerminateDial

(* terminate_connection of the active one. *)
LEMMA ConnectionTerminated ==
  ASSUME NEW p \in Peers, NEW n, Good(n, p), n.connection # None
  PROVE  Good(Terminate(n, p), p)
<1>1. n \in Node /\ Carried(n) /\ Behind(n, p) /\ Waits(n, p)
  BY DEF Good
<1>2. PICK m : m = [n EXCEPT !.connection = None]
  BY Zenon
<1>3. /\ m \in Node /\ m.outgoing = n.outgoing /\ m.ev = n.ev /\ m.dial = n.dial /\ m.connection = None
      /\ m.cache = n.cache /\ m.dialled = n.dialled
  BY <1>1, <1>2 DEF Node, Connections
<1>4. CASE n.connection.outgoing
  <2>1. m.outgoing /\ Nothing(m) /\ Behind(m, p)
    BY Zenon, <1>1, <1>3, <1>4 DEF Carried, One, Nothing, Made, Behind
  <2> QED BY Zenon, <1>2, <1>3, <1>4, <2>1, DoOutgoing DEF Terminate
<1>5. CASE ~n.connection.outgoing
  <2>1. Terminate(n, p) = m
    BY Zenon, <1>2, <1>5 DEF Terminate
  <2>2. Carried(m)
    BY <1>1, <1>3, <1>5 DEF Carried, One, Nothing, Made
  <2> QED BY <1>1, <1>3, <2>1, <2>2 DEF Good, Behind, Waits
<1> QED BY <1>4, <1>5

(* A new outgoing_t for a node that has none. *)
LEMMA OutgoingAdded ==
  ASSUME NEW p \in Peers, NEW n, Good(n, p), ~n.outgoing
  PROVE  Good(AddOutgoing(n, p), p)
<1>1. n \in Node /\ n.dial = None /\ ~Made(n) /\ Behind(n, p)
  BY DEF Good, Carried, Nothing
<1>2. PICK m : m = [n EXCEPT !.outgoing = TRUE, !.timeout = 0]
  OBVIOUS
<1>0. 0 \in 0 .. maxtimeout
  BY BoundsAssumption
<1>3. /\ m \in Node /\ m.outgoing /\ m.dial = None /\ m.connection = n.connection
      /\ m.cache = n.cache /\ m.dialled = n.dialled
  BY Zenon, <1>0, <1>1, <1>2 DEF Node
<1>4. ~Made(m) /\ Behind(m, p)
  BY <1>1, <1>3 DEF Made, Behind
<1> QED BY Zenon, <1>2, <1>3, <1>4, SetupOutgoing DEF AddOutgoing

(* A timeout that starts anew changes nothing else. *)
LEMMA TimeoutReset ==
  ASSUME NEW p \in Peers, NEW n, Good(n, p)
  PROVE  Good([n EXCEPT !.timeout = 0], p)
<1>1. n \in Node /\ 0 \in 0 .. maxtimeout
  BY BoundsAssumption DEF Good
<1>2. PICK m : m = [n EXCEPT !.timeout = 0]
  BY Zenon
<1>3. /\ m \in Node /\ m.outgoing = n.outgoing /\ m.ev = n.ev /\ m.dial = n.dial
      /\ m.connection = n.connection /\ m.cache = n.cache /\ m.dialled = n.dialled
  BY Zenon, <1>1, <1>2 DEF Node
<1> QED BY <1>2, <1>3 DEF Good, Carried, One, Nothing, Made, Behind, Waits

(* free_outgoing of an outgoing_t without a connection. *)
LEMMA OutgoingFreed ==
  ASSUME NEW p \in Peers, NEW n, Good(n, p), ~HasConnection(n)
  PROVE  Good(FreeOutgoing(n), p)
<1>1. n \in Node /\ 0 \in 0 .. maxtimeout
  BY BoundsAssumption DEF Good
<1>2. PICK m : m = FreeOutgoing(n)
  OBVIOUS
<1>3. /\ m \in Node /\ ~m.outgoing /\ ~m.ev /\ m.dial = n.dial
      /\ m.connection = n.connection /\ m.cache = n.cache /\ m.dialled = n.dialled
  BY Zenon, <1>1, <1>2 DEF Node, FreeOutgoing
<1>4. Carried(m)
  BY <1>3 DEF Carried, Nothing, Made, HasConnection
<1> QED BY <1>2, <1>3, <1>4 DEF Good, Behind, Waits

(* The outgoing_t of a ConnectTo that is gone, or that AutoConnect drops. *)
LEMMA OutgoingDropped ==
  ASSUME NEW p \in Peers, NEW n, Good(n, p), n.outgoing
  PROVE  Good(DropOutgoing(n), p)
<1>1. n \in Node /\ 0 \in 0 .. maxtimeout /\ One(n)
  BY BoundsAssumption DEF Good, Carried
<1>2. PICK m : m = FreeOutgoing(n)
  OBVIOUS
<1>3. /\ m \in Node /\ ~m.outgoing /\ ~m.ev /\ m.dial = n.dial
      /\ m.connection = n.connection /\ m.cache = n.cache /\ m.dialled = n.dialled
  BY Zenon, <1>1, <1>2 DEF Node, FreeOutgoing
<1>4. CASE Made(n)
  <2>1. PICK w : w = [m EXCEPT !.connection = None]
    BY Zenon
  <2>2. DropOutgoing(n) = w
    BY <1>2, <1>4, <2>1 DEF DropOutgoing, Made
  <2>3. /\ w \in Node /\ ~w.outgoing /\ ~w.ev /\ w.dial = n.dial
        /\ w.connection = None /\ w.cache = n.cache /\ w.dialled = n.dialled
    BY Zenon, <1>3, <2>1 DEF Node, Connections
  <2>4. Carried(w)
    BY Zenon, <1>1, <1>4, <2>3 DEF Carried, Nothing, Made, One
  <2> QED BY <2>2, <2>3, <2>4 DEF Good, Behind, Waits
<1>5. CASE ~Made(n)
  <2>1. PICK w : w = [m EXCEPT !.dial = None]
    BY Zenon
  <2>2. DropOutgoing(n) = w
    BY <1>2, <1>5, <2>1 DEF DropOutgoing, Made
  <2>3. /\ w \in Node /\ ~w.outgoing /\ ~w.ev /\ w.dial = None
        /\ w.connection = n.connection /\ w.cache = n.cache /\ w.dialled = n.dialled
    BY Zenon, <1>3, <2>1 DEF Node
  <2>4. Carried(w)
    BY <1>5, <2>3 DEF Carried, Nothing, Made
  <2> QED BY <2>2, <2>3, <2>4 DEF Good, Behind, Waits
<1> QED BY <1>4, <1>5

(* try_outgoing_connections. *)
LEMMA OutgoingTried ==
  ASSUME NEW p \in Peers, NEW n, Good(n, p), NEW config
  PROVE  Good(TryOutgoing(n, p, config), p)
<1>1. n.outgoing \in BOOLEAN
  BY DEF Good, Node
<1>2. CASE n.outgoing /\ p \in config
  BY <1>2, TimeoutReset DEF TryOutgoing
<1>3. CASE n.outgoing /\ p \notin config
  BY <1>3, OutgoingDropped DEF TryOutgoing
<1>4. CASE ~n.outgoing /\ p \in config
  BY <1>4, OutgoingAdded DEF TryOutgoing
<1>5. CASE ~n.outgoing /\ p \notin config
  BY <1>5 DEF TryOutgoing
<1> QED BY <1>1, <1>2, <1>3, <1>4, <1>5

(* open_address_cache: nothing was tried. *)
LEMMA Opened ==
  ASSUME NEW p \in Peers, NEW file \in Seq(Addresses)
  PROVE  Progress(open_address_cache(file), {}, p) /\ open_address_cache(file).tried = 0
<1>1. PICK A, B : A = Seq(Addresses) /\ B = Seq(Seq(Addresses))
  OBVIOUS
<1>2. file \in A /\ <<>> \in A /\ <<>> \in B
  BY <1>1
<1>3. PICK c : c = open_address_cache(file)
  BY Zenon
<1>4. /\ c \in [address : A, tried : Nat, ai : BOOLEAN, aip : A, json_addr_idx : Int,
                config_tree : BOOLEAN, cfg : B]
      /\ c.tried = 0 /\ c.json_addr_idx = -1 /\ c.config_tree = FALSE
  BY ONLY <1>2, <1>3 DEF open_address_cache
<1>5. c \in CacheType
  BY <1>1, <1>4 DEF CacheType
<1>6. Recent(c, {}) /\ Json(c, {}, p)
  BY <1>4 DEF Recent, Json
<1> QED BY <1>3, <1>4, <1>5, <1>6 DEF Progress

(* add_recent_address: the recent addresses stay a list of addresses. *)
LEMMA AddedType ==
  ASSUME NEW cache \in CacheType, NEW sa \in Addresses
  PROVE  Added(cache, sa) \in Seq(Addresses)
<1>1. PICK s \in Seq(Addresses) : s = cache.address
  BY CacheTypes
<1>2. <<sa>> \in Seq(Addresses)
  OBVIOUS
<1>3. ASSUME NEW k \in 1 .. Len(s) PROVE Without(s, k) \in Seq(Addresses)
  <2>1. /\ 1 \in 1 .. Len(s) + 1 /\ k - 1 \in 0 .. Len(s)
        /\ k + 1 \in 1 .. Len(s) + 1 /\ Len(s) \in 0 .. Len(s)
    OBVIOUS
  <2>2. SubSeq(s, 1, k - 1) \in Seq(Addresses) /\ SubSeq(s, k + 1, Len(s)) \in Seq(Addresses)
    BY <2>1, Part
  <2> QED BY <2>2, Concatenation DEF Without
<1>4. CASE find_cached(cache, sa)
  <2>1. PICK I : I = {i \in 1 .. Len(s) : s[i] = sa}
    BY Zenon
  <2>2. I # {} /\ I \in SUBSET (1 .. Len(s)) /\ Len(s) \in Nat
    BY <1>1, <1>4, <2>1 DEF find_cached, Range
  <2>3. First(I) \in 1 .. Len(s)
    BY Zenon, <2>2, FirstIndex
  <2>4. Without(s, First(I)) \in Seq(Addresses)
    BY Zenon, <1>3, <2>3
  <2>5. Added(cache, sa) = <<sa>> \o Without(s, First(I))
    BY <1>1, <1>4, <2>1 DEF Added
  <2> QED BY <1>2, <2>4, <2>5, Concatenation
<1>5. CASE ~find_cached(cache, sa)
  <2>1. Len(s) \in Nat
    OBVIOUS
  <2>2. CASE Len(s) < MAX_CACHED_ADDRESSES
    BY <1>1, <1>2, <1>5, <2>2, Concatenation DEF Added, Pushed
  <2>3. CASE ~(Len(s) < MAX_CACHED_ADDRESSES)
    <3>1. Len(s) \in 1 .. Len(s)
      BY <2>1, <2>3, BoundsAssumption
    <3>2. Without(s, Len(s)) \in Seq(Addresses)
      BY Zenon, <1>3, <3>1
    <3> QED BY <1>1, <1>2, <1>5, <2>3, <3>2, Concatenation DEF Added, Pushed
  <2> QED BY <2>2, <2>3
<1> QED BY <1>4, <1>5

(* reset_address_cache: what was tried is forgotten, and so is that it was   *)
(* all.                                                                      *)
LEMMA CacheReset ==
  ASSUME NEW p \in Peers, NEW n, Good(n, p), NEW sa \in Addresses
  PROVE  Good(Reset(n, sa), p)
<1>1. n \in Node /\ n.cache \in CacheType
  BY DEF Good, Node
<1>2. PICK c : c = open_address_cache(Added(n.cache, sa))
  BY Zenon
<1>3. Progress(c, {}, p) /\ c.tried = 0
  BY <1>1, <1>2, AddedType, Opened
<1>4. PICK m : m = [n EXCEPT !.cache = c, !.dialled = {}]
  OBVIOUS
<1>5. Reset(n, sa) = m
  BY <1>1, <1>2, <1>4 DEF Node, Reset, reset_address_cache
<1>6. /\ m \in Node /\ m.outgoing = n.outgoing /\ m.ev = n.ev /\ m.dial = n.dial
      /\ m.connection = n.connection /\ m.cache = c /\ m.dialled = {}
  <2>1. c \in CacheType
    BY Zenon, <1>3 DEF Progress
  <2> QED BY Zenon, <1>1, <1>4, <2>1 DEF Node
<1>7. Carried(m)
  BY <1>6 DEF Good, Carried, One, Nothing, Made
<1> QED BY <1>3, <1>5, <1>6, <1>7 DEF Good, Behind, Waits

(* The daemon starts. *)
LEMMA StartedGood ==
  ASSUME NEW p \in Peers, NEW config, NEW file \in Seq(Addresses)
  PROVE  Good(Started(p, config, file), p)
<1>1. PICK c : c = open_address_cache(file)
  OBVIOUS
<1>2. Progress(c, {}, p) /\ c \in CacheType
  BY <1>1, Opened DEF Progress
<1>3. PICK n : n = [outgoing |-> FALSE, timeout |-> 0, ev |-> FALSE, dial |-> None,
                    connection |-> None, elsewhere |-> FALSE, cache |-> c, dialled |-> {}]
  BY Zenon
<1>4. 0 \in 0 .. maxtimeout
  BY BoundsAssumption
<1>5. n \in Node
  BY Zenon, <1>2, <1>3, <1>4 DEF Node, Connections
<1>6. ~n.outgoing /\ ~n.ev /\ n.dial = None /\ n.connection = None /\ n.cache = c /\ n.dialled = {}
  BY Zenon, <1>3
<1>7. Good(n, p)
  BY Zenon, <1>2, <1>5, <1>6 DEF Good, Carried, Nothing, Made, Behind, Waits
<1>8. Started(p, config, file) = TryOutgoing(n, p, config)
  BY <1>1, <1>3 DEF Started
<1> QED BY Zenon, <1>7, <1>8, OutgoingTried

-----------------------------------------------------------------------------
(* A step of one peer. *)
LEMMA OnePeer ==
  ASSUME IInv, NEW p \in Peers, NEW n, Good(n, p), Becomes(p, n)
  PROVE  IInv'
<1>1. n \in Node
  BY DEF Good
<1>2. node' \in [Peers -> Node]
  BY <1>1 DEF IInv, Becomes
<1>3. \A q \in Peers : node'[q] = IF q = p THEN n ELSE node[q]
  BY DEF IInv, Becomes
<1>4. \A q \in Peers : Good(node'[q], q)
  BY <1>3 DEF IInv
<1> QED BY <1>2, <1>4 DEF IInv

(* A step of all peers. *)
LEMMA AllPeers ==
  ASSUME NEW f, node' = f, f = [p \in Peers |-> f[p]], \A p \in Peers : Good(f[p], p)
  PROVE  IInv'
<1>1. \A p \in Peers : f[p] \in Node
  BY DEF Good
<1>2. f \in [Peers -> Node]
  BY <1>1
<1> QED BY <1>2 DEF IInv

(* After setup_outgoing_connections no peer has been dialled yet. *)
LEMMA InitIInv ==
  ASSUME Init
  PROVE  IInv
<1>1. <<>> \in Seq(Addresses)
  OBVIOUS
<1>2. \A p \in Peers : Good(Started(p, connect_to, <<>>), p)
  BY Zenon, <1>1, StartedGood
<1>3. \A p \in Peers : Started(p, connect_to, <<>>) \in Node
  BY <1>2 DEF Good
<1>4. node = [p \in Peers |-> Started(p, connect_to, <<>>)]
  BY DEF Init
<1>5. node \in [Peers -> Node] /\ \A p \in Peers : node[p] = Started(p, connect_to, <<>>)
  BY <1>3, <1>4
<1> QED BY <1>2, <1>5 DEF IInv

(* ack_h and the end of a connection. *)
LEMMA ConnectGood ==
  ASSUME IInv, NEW p \in Peers, Connect(p)
  PROVE  IInv'
<1>1. PICK n : n = node[p] /\ n \in Node /\ Good(n, p)
  BY DEF IInv
<1>2. n.dial \in Addresses /\ n.dial # None /\ n.dial \in Works[p]
  BY <1>1, AddressesAssumption, NoneAssumption DEF Connect
<1>3. PICK k : k = [outgoing |-> TRUE, address |-> n.dial]
  BY Zenon
<1>4. k \in Connections /\ k # None /\ k.outgoing
  <2>1. k \in [outgoing : BOOLEAN, address : Addresses] /\ k.outgoing
    BY <1>2, <1>3
  <2> QED BY <2>1, NoneAssumption DEF Connections
<1>5. PICK m : m = [n EXCEPT !.dial = None, !.connection = k]
  OBVIOUS
<1>6. /\ m \in Node /\ m.outgoing = n.outgoing /\ m.ev = n.ev /\ m.dial = None
      /\ m.connection = k /\ m.cache = n.cache /\ m.dialled = n.dialled
  BY Zenon, <1>1, <1>4, <1>5 DEF Node
<1>7. Carried(m)
  BY Zenon, <1>1, <1>2, <1>4, <1>6 DEF Good, Carried, One, Nothing, Made
<1>8. Good(m, p)
  BY <1>1, <1>6, <1>7 DEF Good, Behind, Waits
<1>9. Becomes(p, m)
  BY <1>1, <1>3, <1>5 DEF Connect
<1> QED BY <1>8, <1>9, OnePeer

(* A connection that the peer has opened carries no outgoing_t. *)
LEMMA IncomingGood ==
  ASSUME IInv, NEW p \in Peers, Incoming(p)
  PROVE  IInv'
<1>1. PICK n : n = node[p] /\ n \in Node /\ Good(n, p)
  BY DEF IInv
<1>2. PICK sa \in Works[p] : Becomes(p, [n EXCEPT !.connection = [outgoing |-> FALSE, address |-> sa]])
  BY Zenon, <1>1 DEF Incoming
<1>3. PICK k : k = [outgoing |-> FALSE, address |-> sa]
  BY Zenon
<1>4. k \in Connections /\ ~k.outgoing
  <2>1. sa \in Addresses
    BY AddressesAssumption
  <2> QED BY Zenon, <1>3, <2>1 DEF Connections
<1>5. PICK m : m = [n EXCEPT !.connection = k]
  BY Zenon
<1>6. /\ m \in Node /\ m.outgoing = n.outgoing /\ m.ev = n.ev /\ m.dial = n.dial
      /\ m.connection = k /\ m.cache = n.cache /\ m.dialled = n.dialled
  BY <1>1, <1>4, <1>5 DEF Node
<1>7. n.connection = None
  BY Zenon, <1>1 DEF Incoming
<1>8. Carried(m)
  BY Zenon, <1>1, <1>4, <1>6, <1>7 DEF Good, Carried, One, Nothing, Made
<1>9. Good(m, p)
  BY <1>1, <1>6, <1>8 DEF Good, Behind, Waits
<1> QED BY <1>2, <1>3, <1>5, <1>9, OnePeer

(* The other steps of one peer. *)
LEMMA StepGood ==
  ASSUME IInv, NEW p \in Peers, Step(p)
  PROVE  IInv'
<1>1. PICK n : n = node[p] /\ n \in Node /\ Good(n, p)
  BY DEF IInv
<1>2. CASE Retry(p)
  <2>1. n.ev /\ Becomes(p, setup_outgoing_connection(n, p))
    BY Zenon, <1>1, <1>2 DEF Retry
  <2>2. n.outgoing /\ n.dial = None /\ ~Made(n) /\ Behind(n, p)
    BY <1>1, <2>1 DEF Good, Carried, One, Nothing
  <2> QED BY <1>1, <2>1, <2>2, SetupOutgoing, OnePeer
<1>3. CASE DialFails(p)
  <2>1. n.dial # None /\ Becomes(p, TerminateDial(n, p))
    BY <1>1, <1>3 DEF DialFails
  <2> QED BY <1>1, <2>1, DialTerminated, OnePeer
<1>4. CASE Connect(p)
  BY <1>4, ConnectGood
<1>5. CASE Incoming(p)
  BY <1>5, IncomingGood
<1>6. CASE Lose(p)
  <2>1. n.connection # None /\ Becomes(p, Terminate(n, p))
    BY <1>1, <1>6 DEF Lose
  <2> QED BY <1>1, <2>1, ConnectionTerminated, OnePeer
<1>7. CASE Pong(p)
  <2>1. n.connection # None /\ Becomes(p, [Reset(n, n.connection.address) EXCEPT !.timeout = 0])
    BY <1>1, <1>7 DEF Pong
  <2>2. n.connection.address \in Addresses
    BY <1>1, <2>1 DEF Node, Connections
  <2>3. Good(Reset(n, n.connection.address), p)
    BY Zenon, <1>1, <2>2, CacheReset
  <2> QED BY <2>1, <2>3, TimeoutReset, OnePeer
<1>8. CASE UdpConfirmed(p)
  <2>1. PICK sa \in Works[p] : Becomes(p, Reset(n, sa))
    BY <1>1, <1>8 DEF UdpConfirmed
  <2>2. sa \in Addresses
    BY AddressesAssumption
  <2> QED BY Zenon, <1>1, <2>1, <2>2, CacheReset, OnePeer
<1>9. CASE Elsewhere(p)
  <2>1. PICK m : m = [n EXCEPT !.elsewhere = ~@]
    BY Zenon
  <2>2. /\ m \in Node /\ m.outgoing = n.outgoing /\ m.ev = n.ev /\ m.dial = n.dial
        /\ m.connection = n.connection /\ m.cache = n.cache /\ m.dialled = n.dialled
    BY Zenon, <1>1, <2>1 DEF Node
  <2>3. Good(m, p)
    BY <1>1, <2>2 DEF Good, Carried, One, Nothing, Made, Behind, Waits
  <2> QED BY <1>1, <1>9, <2>1, <2>3, OnePeer DEF Elsewhere
<1> QED BY Zenon, <1>2, <1>3, <1>4, <1>5, <1>6, <1>7, <1>8, <1>9 DEF Step

(* retry. *)
LEMMA RetryAllGood ==
  ASSUME IInv, RetryAll
  PROVE  IInv'
<1>1. \A p \in Peers : Good(IF node[p].outgoing THEN [node[p] EXCEPT !.timeout = 0] ELSE node[p], p)
  BY TimeoutReset DEF IInv
<1>2. \A p \in Peers : node'[p] = IF node[p].outgoing THEN [node[p] EXCEPT !.timeout = 0] ELSE node[p]
  BY DEF RetryAll
<1>3. node' = [p \in Peers |-> node'[p]]
  BY <1>2 DEF RetryAll
<1> QED BY Zenon, <1>1, <1>2, <1>3, AllPeers

(* reload_configuration: what it makes of the outgoing_t, and what closing a *)
(* connection does afterwards.                                               *)
LEMMA ReloadGood ==
  ASSUME IInv, Reload
  PROVE  IInv'
<1> DEFINE Closed(n, p) == IF n.dial # None THEN TerminateDial(n, p)
                           ELSE IF n.connection # None THEN Terminate(n, p) ELSE n
<1>1. PICK config \in ConnectTos, changed \in SUBSET Peers :
        node' = [p \in Peers |-> IF p \in changed \/ HostFile[p] = <<>>
                                 THEN Closed(TryOutgoing(node[p], p, config), p)
                                 ELSE TryOutgoing(node[p], p, config)]
  BY Zenon DEF Reload
<1>2. \A p \in Peers : Good(TryOutgoing(node[p], p, config), p)
  BY Zenon, OutgoingTried DEF IInv
<1>3. ASSUME NEW p \in Peers, NEW n, Good(n, p) PROVE Good(Closed(n, p), p)
  BY Zenon, <1>3, DialTerminated, ConnectionTerminated
<1> HIDE DEF Closed
<1>4. \A p \in Peers : \/ node'[p] = Closed(TryOutgoing(node[p], p, config), p)
                       \/ node'[p] = TryOutgoing(node[p], p, config)
  BY Zenon, <1>1
<1>5. \A p \in Peers : Good(node'[p], p)
  BY <1>2, <1>3, <1>4
<1>6. node' = [p \in Peers |-> node'[p]]
  BY <1>1
<1> QED BY <1>5, <1>6, AllPeers

(* The daemon starts again, with or without the addresses of a cache. *)
LEMMA RestartGood ==
  ASSUME IInv, Restart
  PROVE  IInv'
<1>1. PICK complete \in SUBSET Peers :
        node' = [p \in Peers |-> Started(p, connect_to, IF p \in complete
                                                        THEN node[p].cache.address ELSE <<>>)]
  BY DEF Restart
<1>2. ASSUME NEW p \in Peers PROVE Good(node'[p], p)
  <2>1. PICK file : file = IF p \in complete THEN node[p].cache.address ELSE <<>>
    OBVIOUS
  <2>2. node[p].cache \in CacheType
    BY DEF IInv, Node
  <2>3. file \in Seq(Addresses)
    BY <2>1, <2>2, CacheTypes
  <2>4. node'[p] = Started(p, connect_to, file)
    BY Zenon, <1>1, <2>1
  <2> QED BY <2>3, <2>4, StartedGood
<1>3. node' = [p \in Peers |-> node'[p]]
  BY <1>1
<1> QED BY <1>2, <1>3, AllPeers

(* do_autoconnect: it adds an outgoing_t, or drops outgoing_ts and may then  *)
(* add one, for a node whose old one is gone.                                *)
LEMMA AutoconnectGood ==
  ASSUME IInv, do_autoconnect
  PROVE  IInv'
<1>1. CASE make_new_connection
  <2>1. PICK p \in Peers : ~node[p].outgoing /\ Becomes(p, AddOutgoing(node[p], p))
    BY <1>1 DEF make_new_connection
  <2>2. Good(AddOutgoing(node[p], p), p)
    BY <2>1, OutgoingAdded DEF IInv
  <2> QED BY <2>1, <2>2, OnePeer
<1>2. CASE DropAndConnect
  <2> DEFINE N(p, s) == DropPending(IF p \in s THEN DropOutgoing(node[p]) ELSE node[p])
  <2>1. PICK s \in SUBSET Superfluous, r \in Peers \cup {None} :
          node' = [p \in Peers |-> IF p = r /\ Unreachable(N(p, s), p) /\ ~N(p, s).outgoing
                                   THEN AddOutgoing(N(p, s), p) ELSE N(p, s)]
    BY <1>2, Zenon DEF DropAndConnect
  <2>2. ASSUME NEW p \in Peers PROVE Good(N(p, s), p)
    <3>1. Good(node[p], p) /\ (p \in s => node[p].outgoing)
      BY DEF IInv, Superfluous, Good, Carried, Nothing, Made
    <3>2. PICK n : n = IF p \in s THEN DropOutgoing(node[p]) ELSE node[p]
      BY Zenon
    <3>3. Good(n, p)
      BY <3>1, <3>2, OutgoingDropped
    <3>4. Good(DropPending(n), p)
      BY <3>3, OutgoingFreed DEF DropPending
    <3> QED BY Zenon, <3>2, <3>4
  <2> HIDE DEF N
  <2>3. \A p \in Peers : \/ node'[p] = N(p, s)
                         \/ ~N(p, s).outgoing /\ node'[p] = AddOutgoing(N(p, s), p)
    BY Zenon, <2>1
  <2>4. \A p \in Peers : Good(node'[p], p)
    BY <2>2, <2>3, OutgoingAdded
  <2>5. node' = [p \in Peers |-> node'[p]]
    BY <2>1
  <2> QED BY <2>4, <2>5, AllPeers
<1> QED BY Zenon, <1>1, <1>2 DEF do_autoconnect

(* Every step keeps the inductive invariant. *)
LEMMA NextIInv ==
  ASSUME IInv, [Next]_vars
  PROVE  IInv'
<1>1. CASE \E p \in Peers : Step(p)
  BY <1>1, StepGood
<1>2. CASE RetryAll \/ Reload \/ Restart \/ do_autoconnect
  BY <1>2, RetryAllGood, ReloadGood, RestartGood, AutoconnectGood
<1>3. CASE UNCHANGED vars
  BY <1>3 DEF IInv, vars
<1> QED BY <1>1, <1>2, <1>3 DEF Next

(* The inductive invariant holds in every state. *)
LEMMA Invariant ==
  Spec => []IInv
BY InitIInv, NextIInv, PTL DEF Spec

(* What OutgoingCarried counts, for one peer. *)
LEMMA OneCarrier ==
  ASSUME NEW n, Carried(n)
  PROVE  /\ n.outgoing => \E x \in CarrierKinds : Carriers(n) = {x}
         /\ ~n.outgoing => Carriers(n) = {}
<1>1. \A x : x \in Carriers(n) <=> \/ x = "timer" /\ n.ev
                                   \/ x = "dial" /\ n.dial # None
                                   \/ x = "connection" /\ Made(n)
  BY DEF Carriers, CarrierKinds, Made
<1>2. ASSUME ~n.outgoing PROVE Carriers(n) = {}
  BY Zenon, <1>1, <1>2 DEF Carried, Nothing
<1>3. ASSUME n.outgoing PROVE \E x \in CarrierKinds : Carriers(n) = {x}
  <2>1. CASE n.ev /\ n.dial = None /\ ~Made(n)
    <3>1. Carriers(n) = {"timer"}
      BY <1>1, <2>1
    <3> QED BY <3>1 DEF CarrierKinds
  <2>2. CASE ~n.ev /\ n.dial # None /\ ~Made(n)
    <3>1. Carriers(n) = {"dial"}
      BY <1>1, <2>2
    <3> QED BY <3>1 DEF CarrierKinds
  <2>3. CASE ~n.ev /\ n.dial = None /\ Made(n)
    <3>1. Carriers(n) = {"connection"}
      BY <1>1, <2>3
    <3> QED BY <3>1 DEF CarrierKinds
  <2> QED BY <1>3, <2>1, <2>2, <2>3 DEF Carried, One
<1> QED BY <1>2, <1>3

-----------------------------------------------------------------------------
(* An outgoing_t in outgoing_list always has exactly one of its timer, the   *)
(* connection that is made for it and the active connection to carry it on,  *)
(* and a node without one has none, for all peers, addresses and             *)
(* configurations, through reload, AutoConnect and restarts.                 *)
THEOREM OutgoingCorrect ==
  Spec => []OutgoingCarried
<1>1. ASSUME IInv PROVE OutgoingCarried
  <2>1. \A p \in Peers : Carried(node[p])
    BY Zenon, <1>1 DEF IInv, Good
  <2> QED BY <2>1, OneCarrier DEF OutgoingCarried
<1> QED BY <1>1, Invariant, PTL

(* When do_outgoing_connection waits, get_recent_address has given it every  *)
(* recent address and the first address of every name since the cache was    *)
(* reset, but for those after a name in hosts.json that does not resolve.    *)
THEOREM AddressesTried ==
  Spec => []AllTried
<1>1. ASSUME IInv PROVE AllTried
  <2> SUFFICES ASSUME NEW p \in Peers, node[p].ev, node[p].cache.tried # 0
               PROVE  AllTriedFor(p)
    BY Zenon DEF AllTried
  <2>1. node[p].cache \in CacheType /\ Done(node[p].cache, node[p].dialled, p)
    BY Zenon, <1>1 DEF IInv, Good, Waits, Node
  <2>2. /\ DOMAIN HostFile[p] = 1 .. Len(HostFile[p])
        /\ DOMAIN node[p].cache.address = 1 .. Len(node[p].cache.address)
    BY <2>1, Lists, CacheTypes
  <2>3. Range(node[p].cache.address) \subseteq node[p].dialled
    BY Zenon, <2>1, <2>2 DEF Done, RecentDone, Range
  <2>4. \A list \in Range(HostFile[p]) : Tried(list, node[p].dialled)
    BY Zenon, <2>1, <2>2 DEF Done, FileDone, Range
  <2>5. JsonDone(node[p].dialled, p)
    BY <2>1 DEF Done
  <2> QED BY <2>3, <2>4, <2>5 DEF AllTriedFor, JsonDone
<1> QED BY <1>1, Invariant, PTL
=============================================================================
