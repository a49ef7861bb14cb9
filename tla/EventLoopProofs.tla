-------------------------- MODULE EventLoopProofs ---------------------------
(* EventIsCurrent of EventLoop holds for any number of connections, file     *)
(* descriptors, timeouts and signals, whatever the callbacks do.             *)
EXTENDS EventLoop, TLAPS, WellFoundedInduction

AnIo == [cb : BOOLEAN, fd : Fds \cup {PipeFd, None}, flags : SUBSET {"read", "write"}]
Walking == phase \in {"walk", "callback"}

Types ==
  /\ io \in [AllIos -> AnIo]
  /\ phase \in {"time", "timeout", "walk", "callback", "off"}
  /\ generation \in Nat /\ curgen \in Nat /\ ops \in Nat
  /\ stale \in BOOLEAN

(* No two registered io_t's have the same file descriptor. *)
Distinct ==
  /\ \A i \in io_tree : io[i].fd # None
  /\ \A i, j \in io_tree : io[i].fd = io[j].fd => i = j

(* select is given what the io_t's ask for.                                  *)
Selected ==
  /\ readfds = {io[i].fd : i \in {j \in io_tree : "read" \in io[j].flags}}
  /\ writefds = {io[i].fd : i \in {j \in io_tree : "write" \in io[j].flags}}

(* The generation of io_tree tells splay_each whether a callback has         *)
(* changed the tree: it does not come back to a value it had, and as long as *)
(* it stays the node after the current one is registered, and no file        *)
(* descriptor has a new owner.                                               *)
Guarded ==
  /\ generation <= ops /\ ops <= MaxOps /\ curgen <= generation
  /\ Walking /\ curgen = generation => reused = {} /\ next \in io_tree \cup {None}
  /\ phase = "walk" /\ current # None => curgen = generation /\ current \in io_tree

IInv == Types /\ Distinct /\ Selected /\ Guarded /\ ~stale

-----------------------------------------------------------------------------
(* A set of natural numbers has a least element. *)
LEMMA Least ==
  ASSUME NEW S, S \subseteq Nat, S # {}
  PROVE  \E n \in S : \A m \in S : n <= m
<1> DEFINE R == OpToRel(<, Nat)
<1>1. IsWellFoundedOn(R, Nat)
  BY NatLessThanWellFounded, Zenon
<1>2. \A m, n \in Nat : <<m, n>> \in R <=> m < n
  BY Zenon DEF OpToRel
<1> HIDE DEF R
<1>3. PICK n \in S : \A m \in S : ~(<<m, n>> \in R)
  BY Zenon, <1>1, WFMin
<1>4. ASSUME NEW m \in S PROVE n <= m
  <2>1. m \in Nat /\ n \in Nat
    OBVIOUS
  <2>2. ~(m < n)
    BY Zenon, <1>2, <1>3, <2>1
  <2> QED BY <2>1, <2>2
<1> QED BY <1>4

(* splay_head and splay_next give a registered io_t, or none. *)
LEMMA FirstIsThere ==
  ASSUME Types, Distinct, NEW S, S \subseteq io_tree
  PROVE  First(S) \in io_tree \cup {None}
<1>1. CASE S = {}
  BY <1>1 DEF First
<1>2. CASE S # {}
  <2> DEFINE V == {io[i].fd : i \in S}
  <2>1. \A i \in S : io[i].fd \in Nat
    BY Zenon, FdsAssumption DEF Types, Distinct, AnIo, io_tree
  <2>2. V \subseteq Nat /\ V # {}
    BY <1>2, <2>1
  <2>3. PICK n \in V : \A m \in V : n <= m
    <3> HIDE DEF V
    <3> QED BY Zenon, <2>2, Least
  <2>4. PICK i \in S : io[i].fd = n
    OBVIOUS
  <2>5. \A j \in S : io[i].fd <= io[j].fd
    BY <2>3, <2>4
  <2>6. First(S) = CHOOSE k \in S : \A j \in S : io[k].fd <= io[j].fd
    BY <1>2 DEF First
  <2>7. First(S) \in S
    BY <2>5, <2>6
  <2> QED BY <2>7
<1> QED BY <1>1, <1>2

(* event_loop starts with the ios and timeouts that main_loop added, and no   *)
(* event of select.                                                           *)
LEMMA InitIInv == Init => IInv
<1> SUFFICES ASSUME Init PROVE IInv
  OBVIOUS
<1>1. /\ io = [i \in AllIos |-> IF i = Pipe THEN [cb |-> TRUE, fd |-> PipeFd, flags |-> {"read"}]
                               ELSE IF i \in DOMAIN Started
                               THEN [cb |-> TRUE, fd |-> Started[i], flags |-> {"read"}] ELSE Off]
      /\ phase = "time" /\ generation = 0 /\ curgen = 0 /\ ops = 0 /\ stale = FALSE
      /\ readfds = {io[i].fd : i \in io_tree} /\ writefds = {}
  BY DEF Init
<1>2. \A i \in DOMAIN Started : i \in AllIos /\ i # Pipe /\ Started[i] \in Fds
  BY StartedAssumption, IosAssumption DEF AllIos
<1>3. \A i \in AllIos : io[i] \in AnIo
  BY <1>1, <1>2 DEF AnIo, Off
<1>4. io \in [AllIos -> AnIo]
  BY Zenon, <1>1, <1>3
<1>5. Types
  BY Zenon, <1>1, <1>4 DEF Types
<1>6. \A i \in io_tree : (i = Pipe \/ i \in DOMAIN Started) /\ io[i].flags = {"read"}
                         /\ io[i].fd = IF i = Pipe THEN PipeFd ELSE Started[i]
  BY <1>1, <1>2 DEF io_tree, Off
<1>7. Distinct
  BY <1>2, <1>6, StartedAssumption, FdsAssumption DEF Distinct
<1>8. \A i \in io_tree : "read" \in io[i].flags /\ "write" \notin io[i].flags
  BY <1>6
<1>9. Selected
  BY Zenon, <1>1, <1>8 DEF Selected
<1>10. Guarded
  BY <1>1, IosAssumption DEF Guarded, Walking
<1> QED BY <1>1, <1>5, <1>7, <1>9, <1>10 DEF IInv

-----------------------------------------------------------------------------
(* The steps that leave the io_t's alone. *)
LEMMA TreeStays ==
  ASSUME IInv, UNCHANGED <<io, readfds, writefds, generation>>, Guarded', Types', ~stale'
  PROVE  IInv'
<1>1. io_tree' = io_tree
  BY DEF io_tree
<1> QED BY <1>1 DEF IInv, Distinct, Selected

(* select returns, and splay_each begins. *)
LEMMA SelectKeeps ==
  ASSUME IInv, Select
  PROVE  IInv'
<1>1. /\ phase = "time" /\ reused' = {} /\ UNCHANGED <<ioVars, ops, stale>>
      /\ \/ UNCHANGED <<phase, current, next, curgen>>
         \/ phase' = "walk" /\ current' = First(io_tree) /\ next' = None /\ curgen' = generation
  BY DEF Select
<1>2. io_tree' = io_tree
  BY <1>1 DEF io_tree, ioVars
<1>3. First(io_tree) \in io_tree \cup {None}
  BY FirstIsThere DEF IInv
<1>4. Types'
  BY <1>1 DEF IInv, Types, ioVars
<1>5. generation' = generation /\ ops' = ops
  BY <1>1 DEF ioVars
<1>6. Guarded'
  <2>1. CASE UNCHANGED <<phase, current, next, curgen>>
    BY <1>1, <1>5, <2>1 DEF IInv, Guarded, Walking
  <2>2. CASE phase' = "walk" /\ current' = First(io_tree) /\ next' = None /\ curgen' = generation
    BY <1>1, <1>2, <1>3, <1>5, <2>2 DEF IInv, Guarded, Types
  <2> QED BY <1>1, <2>1, <2>2
<1> QED BY <1>1, <1>4, <1>6, TreeStays DEF ioVars, IInv

(* A callback is called for the current io_t, or splay_each goes on. *)
LEMMA WalkKeeps ==
  ASSUME IInv, Walk
  PROVE  IInv'
<1>1. phase = "walk" /\ UNCHANGED <<ioVars, curgen, ops, reused>>
  BY DEF Walk
<1>2. Types /\ Distinct /\ Guarded /\ ~stale
  BY DEF IInv
<1>3. UNCHANGED <<io, readfds, writefds, generation>> /\ io_tree' = io_tree
  BY <1>1 DEF io_tree, ioVars
<1>4. current # None => current \in io_tree /\ curgen = generation /\ reused = {}
  BY <1>1, <1>2 DEF Guarded, Walking
<1>5. current # None => After(current) \in io_tree \cup {None}
  <2>1. {j \in io_tree : io[j].fd > io[current].fd} \subseteq io_tree
    OBVIOUS
  <2> QED BY <1>2, <2>1, FirstIsThere DEF After
<1>6. CASE current = None
  <2>1. phase' \in {"time", "off"} /\ UNCHANGED <<current, next, stale>>
    BY <1>6 DEF Walk
  <2>2. Types' /\ Guarded' /\ ~stale'
    BY <1>1, <1>2, <1>3, <2>1 DEF Types, Guarded, Walking
  <2> QED BY <1>3, <2>2, TreeStays
<1>7. CASE current # None /\ Ready(current)
  <2>1. io[current].cb
    BY <1>4, <1>7 DEF io_tree
  <2>2. /\ phase' = "callback" /\ next' = After(current) /\ UNCHANGED current
        /\ stale' = (stale \/ io[current].fd \in reused)
    BY <1>7, <2>1 DEF Walk
  <2>3. Types' /\ ~stale'
    BY <1>1, <1>2, <1>3, <1>4, <1>7, <2>2 DEF Types
  <2>4. Guarded'
    BY <1>1, <1>2, <1>3, <1>4, <1>5, <1>7, <2>2 DEF Guarded
  <2> QED BY <1>3, <2>3, <2>4, TreeStays
<1>8. CASE current # None /\ ~Ready(current)
  <2>1. io[current].cb
    BY <1>4, <1>8 DEF io_tree
  <2>2. current' = After(current) /\ UNCHANGED <<phase, next, stale>>
    BY <1>8, <2>1 DEF Walk
  <2>3. Types' /\ ~stale'
    BY <1>1, <1>2, <1>3, <2>2 DEF Types
  <2>4. Guarded'
    BY <1>1, <1>2, <1>3, <1>4, <1>5, <1>8, <2>2 DEF Guarded, Walking
  <2> QED BY <1>3, <2>3, <2>4, TreeStays
<1> QED BY <1>6, <1>7, <1>8

(* After a callback splay_each goes on only if the tree is as it was. *)
LEMMA CallbackDoneKeeps ==
  ASSUME IInv, CallbackDone
  PROVE  IInv'
<1>1. /\ phase = "callback" /\ phase' = "walk" /\ next' = None
      /\ current' = IF GoesOn THEN next ELSE None
      /\ UNCHANGED <<ioVars, curgen, ops, reused, stale>>
  BY DEF CallbackDone
<1>2. UNCHANGED <<io, readfds, writefds, generation>> /\ io_tree' = io_tree
  BY <1>1 DEF io_tree, ioVars
<1>3. Types' /\ ~stale'
  BY <1>1, <1>2 DEF IInv, Types
<1>4. Guarded'
  BY <1>1, <1>2 DEF IInv, Guarded, Walking, GoesOn
<1> QED BY <1>2, <1>3, <1>4, TreeStays

(* The steps of timeouts and signals. *)
LEMMA TimeKeeps ==
  ASSUME IInv, Expire \/ ExpireDone \/ \E s \in {"TERM", "HUP"} : Signal(s)
  PROVE  IInv'
<1>1. /\ UNCHANGED <<ioVars, curgen, ops, reused, stale, next>>
      /\ \/ phase' \in {"time", "timeout"}
         \/ UNCHANGED <<phase, current>>
  BY DEF Expire, ExpireDone, Signal, walkVars
<1>2. UNCHANGED <<io, readfds, writefds, generation>> /\ io_tree' = io_tree
  BY <1>1 DEF io_tree, ioVars
<1>3. Types' /\ ~stale'
  BY <1>1, <1>2 DEF IInv, Types
<1>4. Guarded'
  BY <1>1, <1>2 DEF IInv, Guarded, Walking
<1> QED BY <1>2, <1>3, <1>4, TreeStays

-----------------------------------------------------------------------------
(* The generation does not wrap within MaxOps operations. *)
LEMMA BumpedIsNew ==
  ASSUME Types, Guarded, ops < MaxOps
  PROVE  Bumped = generation + 1
<1>1. generation \in Nat /\ MaxOps \in Nat /\ generation + 1 < MaxOps + 1
  BY IosAssumption DEF Types, Guarded
<1> QED BY <1>1 DEF Bumped

(* A change of the tree by a callback: splay_each is going to end. *)
LEMMA GenerationGuards ==
  ASSUME IInv, InCallback, generation' = Bumped, UNCHANGED <<phase, walkVars, stale>>,
         io' \in [AllIos -> AnIo]
  PROVE  Types' /\ Guarded' /\ ~stale'
<1>1. ops' = ops + 1 /\ generation' = generation + 1 /\ ops < MaxOps /\ phase \in {"callback", "timeout"}
  BY BumpedIsNew DEF InCallback, IInv
<1>2. UNCHANGED <<phase, curgen, current, next, stale>>
  BY DEF walkVars
<1>3. Types /\ Guarded /\ MaxOps \in Nat
  BY IosAssumption DEF IInv
<1>4. Types'
  BY <1>1, <1>2, <1>3 DEF Types
<1>5. Guarded'
  BY <1>1, <1>2, <1>3 DEF Guarded, Types
<1> QED BY <1>2, <1>4, <1>5 DEF IInv

(* The fields of one io_t change. *)
LEMMA IoUpdate ==
  ASSUME Types, NEW i \in AllIos, NEW v \in AnIo, io' = [io EXCEPT ![i] = v]
  PROVE  /\ io' \in [AllIos -> AnIo] /\ io'[i] = v
         /\ \A j \in AllIos \ {i} : io'[j] = io[j]
         /\ io_tree' = IF v.cb THEN io_tree \cup {i} ELSE io_tree \ {i}
<1>1. /\ io' \in [AllIos -> AnIo] /\ io'[i] = v
      /\ \A j \in AllIos \ {i} : io'[j] = io[j]
  BY DEF Types
<1>2. io_tree' = IF v.cb THEN io_tree \cup {i} ELSE io_tree \ {i}
  BY <1>1 DEF io_tree
<1> QED BY <1>1, <1>2

(* terminate_connection, of whatever connection. *)
LEMMA CloseKeeps ==
  ASSUME IInv, NEW i \in Ios, Close(i)
  PROVE  IInv'
<1>1. /\ InCallback /\ io[i].cb /\ io_set(i, {}) /\ io' = [io EXCEPT ![i] = Off] /\ generation' = Bumped
      /\ UNCHANGED <<phase, walkVars, stale>>
  BY DEF Close, io_del
<1>2. Off \in AnIo /\ ~Off.cb /\ i \in AllIos /\ Types /\ Distinct /\ Selected
  BY DEF Off, AnIo, AllIos, IInv
<1>3. /\ io' \in [AllIos -> AnIo] /\ io_tree' = io_tree \ {i}
      /\ \A j \in AllIos \ {i} : io'[j] = io[j]
  <2> HIDE DEF Off
  <2> QED BY Zenon, <1>1, <1>2, IoUpdate
<1>4. io_tree \subseteq AllIos /\ i \in io_tree
  BY <1>1, <1>2 DEF io_tree
<1>5. Distinct'
  BY <1>2, <1>3, <1>4 DEF Distinct
<1>6. \A j \in io_tree \ {i} : io[j].fd # io[i].fd /\ io'[j] = io[j]
  BY <1>2, <1>3, <1>4 DEF Distinct
<1>7. readfds' = readfds \ {io[i].fd} /\ writefds' = writefds \ {io[i].fd}
  <2>1. CASE io[i].flags = {}
    <3>1. UNCHANGED <<readfds, writefds>>
      BY <1>1, <2>1 DEF io_set
    <3>2. io[i].fd \notin readfds /\ io[i].fd \notin writefds
      BY <1>2, <1>4, <2>1 DEF Selected, Distinct
    <3> QED BY <3>1, <3>2
  <2>2. CASE io[i].flags # {}
    BY <1>1, <2>2 DEF io_set, FdSet
  <2> QED BY <2>1, <2>2
<1>8. Selected'
  <2>1. readfds' = {io'[k].fd : k \in {j \in io_tree' : "read" \in io'[j].flags}}
    BY <1>2, <1>3, <1>4, <1>6, <1>7 DEF Selected
  <2>2. writefds' = {io'[k].fd : k \in {j \in io_tree' : "write" \in io'[j].flags}}
    BY <1>2, <1>3, <1>4, <1>6, <1>7 DEF Selected
  <2> QED BY <2>1, <2>2 DEF Selected
<1>9. Types' /\ Guarded' /\ ~stale'
  BY <1>1, <1>3, GenerationGuards
<1> QED BY <1>5, <1>8, <1>9 DEF IInv

(* A new connection gets a file descriptor that no other has. *)
LEMMA AcceptKeeps ==
  ASSUME IInv, NEW i \in Ios, NEW flags \in {{"read"}, {"read", "write"}}, Accept(i, flags)
  PROVE  IInv'
<1>1. PICK fd \in Fds : fd \notin {io[j].fd : j \in io_tree} /\ io_add(i, fd, flags)
  BY DEF Accept
<1> DEFINE v == [cb |-> TRUE, fd |-> fd, flags |-> flags]
<1>2. /\ InCallback /\ UNCHANGED <<phase, walkVars, stale>> /\ ~io[i].cb /\ io' = [io EXCEPT ![i] = v]
      /\ readfds' = FdSet(readfds, fd, "read" \in flags) /\ writefds' = FdSet(writefds, fd, "write" \in flags)
      /\ generation' = Bumped
  BY Zenon, <1>1 DEF Accept, io_add
<1>3. v \in AnIo /\ v.cb /\ v.fd = fd /\ v.flags = flags /\ i \in AllIos /\ Types /\ Distinct /\ Selected
  BY DEF AnIo, AllIos, IInv
<1> HIDE DEF v
<1>4. /\ io' \in [AllIos -> AnIo] /\ io_tree' = io_tree \cup {i} /\ io'[i] = v
      /\ \A j \in AllIos \ {i} : io'[j] = io[j]
  BY Zenon, <1>2, <1>3, IoUpdate
<1>5. io_tree \subseteq AllIos /\ i \notin io_tree
  BY <1>2 DEF io_tree
<1>6. \A j \in io_tree : io'[j] = io[j] /\ io[j].fd # fd
  BY <1>1, <1>4, <1>5
<1>7. Distinct'
  BY <1>3, <1>4, <1>5, <1>6, FdsAssumption DEF Distinct
<1>8. Selected'
  <2>1. readfds = {io[k].fd : k \in {j \in io_tree : "read" \in io[j].flags}}
        /\ readfds' = readfds \cup {fd}
    BY <1>2, <1>3 DEF Selected, FdSet
  <2>2. readfds' = {io'[k].fd : k \in {j \in io_tree' : "read" \in io'[j].flags}}
    <3>1. "read" \in io'[i].flags /\ io'[i].fd = fd
      BY <1>3, <1>4
    <3> QED BY <2>1, <3>1, <1>4, <1>6
  <2>3. writefds = {io[k].fd : k \in {j \in io_tree : "write" \in io[j].flags}}
        /\ writefds' = IF "write" \in flags THEN writefds \cup {fd} ELSE writefds \ {fd}
    BY <1>2, <1>3 DEF Selected, FdSet
  <2>4. writefds' = {io'[k].fd : k \in {j \in io_tree' : "write" \in io'[j].flags}}
    <3>1. io'[i].flags = flags /\ io'[i].fd = fd
      BY <1>3, <1>4
    <3>2. CASE "write" \in flags
      BY <2>3, <3>1, <3>2, <1>4, <1>6
    <3>3. CASE "write" \notin flags
      <4>1. fd \notin writefds
        BY <2>3, <1>6
      <4> QED BY <2>3, <3>1, <3>3, <4>1, <1>4, <1>6
    <3> QED BY <3>2, <3>3
  <2> QED BY <2>2, <2>4 DEF Selected
<1>9. Types' /\ Guarded' /\ ~stale'
  BY <1>2, <1>4, GenerationGuards
<1> QED BY <1>7, <1>8, <1>9 DEF IInv

(* An operation that leaves the set of io_t's alone. *)
LEMMA OperationGuards ==
  ASSUME IInv, InCallback, UNCHANGED <<generation, phase, walkVars, reused, stale>>,
         io_tree' = io_tree, io' \in [AllIos -> AnIo]
  PROVE  Types' /\ Guarded' /\ ~stale'
<1>1. ops' = ops + 1 /\ ops < MaxOps /\ UNCHANGED <<generation, phase, curgen, current, next, reused, stale>>
  BY DEF InCallback, walkVars
<1>2. Types /\ Guarded /\ MaxOps \in Nat
  BY IosAssumption DEF IInv
<1>3. Types'
  BY <1>1, <1>2 DEF Types
<1>4. Guarded'
  BY <1>1, <1>2 DEF Guarded, Types, Walking
<1> QED BY <1>1, <1>3, <1>4 DEF IInv

(* handle_meta_write has no more to write. *)
LEMMA WaitForKeeps ==
  ASSUME IInv, WaitFor({"read"})
  PROVE  IInv'
<1>0. PICK i \in Ios : i = current
  BY DEF WaitFor
<1>v. PICK v : v = [io[i] EXCEPT !.flags = {"read"}]
  BY Zenon
<1>1. /\ InCallback /\ i \in Ios /\ io[i].cb /\ io_set(i, {"read"}) /\ io' = [io EXCEPT ![i].flags = {"read"}]
      /\ UNCHANGED <<phase, walkVars, generation, reused, stale>>
  BY <1>0 DEF WaitFor
<1>2. Types /\ Distinct /\ Selected /\ i \in AllIos /\ io[i] \in AnIo
  BY <1>1 DEF IInv, AllIos, Types
<1>3. v \in AnIo /\ v.cb /\ v.fd = io[i].fd /\ v.flags = {"read"}
  BY <1>v, <1>1, <1>2 DEF AnIo
<1>4. io' = [io EXCEPT ![i] = v]
  BY <1>v, <1>1, <1>2 DEF Types
<1>5. i \in io_tree /\ io_tree \subseteq AllIos
  BY <1>1, <1>2 DEF io_tree
<1>6. /\ io' \in [AllIos -> AnIo] /\ io_tree' = io_tree /\ io'[i] = v
      /\ \A j \in AllIos \ {i} : io'[j] = io[j]
  <2>1. /\ io' \in [AllIos -> AnIo] /\ io'[i] = v
        /\ \A j \in AllIos \ {i} : io'[j] = io[j]
        /\ io_tree' = IF v.cb THEN io_tree \cup {i} ELSE io_tree \ {i}
    BY ONLY Zenon, <1>2, <1>3, <1>4, IoUpdate
  <2>2. io_tree' = io_tree \cup {i}
    BY <2>1, <1>3
  <2> QED BY <2>1, <2>2, <1>5
<1>7. \A j \in io_tree : io'[j].fd = io[j].fd
  BY <1>3, <1>5, <1>6
<1>8. Distinct'
  BY <1>2, <1>6, <1>7 DEF Distinct
<1>9. readfds' = readfds \cup {io[i].fd} /\ writefds' = writefds \ {io[i].fd}
  <2>1. CASE io[i].flags = {"read"}
    <3>1. UNCHANGED <<readfds, writefds>>
      BY <1>1, <2>1 DEF io_set
    <3>2. io[i].fd \in readfds /\ io[i].fd \notin writefds
      BY <1>2, <1>5, <2>1 DEF Selected, Distinct
    <3> QED BY <3>1, <3>2
  <2>2. CASE io[i].flags # {"read"}
    BY <1>1, <2>2 DEF io_set, FdSet
  <2> QED BY <2>1, <2>2
<1>10. Selected'
  <2>1. \A j \in io_tree \ {i} : io'[j] = io[j] /\ io[j].fd # io[i].fd
    BY Zenon, <1>2, <1>5, <1>6 DEF Distinct
  <2>2. readfds' = {io'[k].fd : k \in {j \in io_tree' : "read" \in io'[j].flags}}
    <3>1. "read" \in io'[i].flags /\ io'[i].fd = io[i].fd
      BY <1>3, <1>6
    <3> QED BY <2>1, <3>1, <1>2, <1>5, <1>6, <1>9 DEF Selected
  <2>3. writefds' = {io'[k].fd : k \in {j \in io_tree' : "write" \in io'[j].flags}}
    <3>1. "write" \notin io'[i].flags
      BY <1>3, <1>6
    <3> QED BY <2>1, <3>1, <1>2, <1>5, <1>6, <1>9 DEF Selected
  <2> QED BY <2>2, <2>3 DEF Selected
<1>11. Types' /\ Guarded' /\ ~stale'
  BY <1>1, <1>6, OperationGuards
<1> QED BY <1>8, <1>10, <1>11 DEF IInv

(* The other operations do not touch io_tree. *)
LEMMA OthersKeep ==
  ASSUME IInv, Exit \/ \E t \in Timeouts : ArmTimeout(t) \/ DeleteTimeout(t) \/ Retry(t)
  PROVE  IInv'
<1>1. InCallback /\ UNCHANGED <<ioVars, phase, walkVars, reused, stale>>
  BY DEF Exit, ArmTimeout, DeleteTimeout, Retry
<1>2. UNCHANGED <<io, readfds, writefds, generation>> /\ io_tree' = io_tree
  BY <1>1 DEF ioVars, io_tree
<1>3. io' \in [AllIos -> AnIo]
  BY <1>2 DEF IInv, Types
<1> QED BY <1>1, <1>2, <1>3, OperationGuards, TreeStays

(* Every step of the loop and of its callbacks keeps the inductive            *)
(* invariant.                                                                 *)
LEMMA NextIInv == IInv /\ [Next]_vars => IInv'
<1> SUFFICES ASSUME IInv, [Next]_vars PROVE IInv'
  OBVIOUS
<1>1. CASE Loop
  BY <1>1, TimeKeeps, SelectKeeps, WalkKeeps, CallbackDoneKeeps DEF Loop
<1>2. CASE Operate
  BY <1>2, CloseKeeps, AcceptKeeps, WaitForKeeps, OthersKeep DEF Operate
<1>3. CASE \E s \in {"TERM", "HUP"} : Signal(s)
  BY Zenon, <1>3, TimeKeeps
<1>4. CASE UNCHANGED vars
  <2>1. UNCHANGED <<io, readfds, writefds, generation, phase, curgen, ops, current, next, reused, stale>> /\ io_tree' = io_tree
    BY <1>4 DEF vars, ioVars, walkVars, io_tree
  <2> QED BY <2>1 DEF IInv, Types, Distinct, Selected, Guarded, Walking
<1> QED BY <1>1, <1>2, <1>3, <1>4 DEF Next

(* No callback is called for an io_t that was freed or for the event of one  *)
(* that was closed, and select waits for what the io_t's ask for, whatever   *)
(* connections, timeouts and signals there are: the generation that          *)
(* event_loop compares after every callback is enough.                       *)
THEOREM EventsCorrect == Spec => []EventIsCurrent
<1>1. IInv => EventIsCurrent
  BY DEF IInv, Selected, EventIsCurrent
<1> QED BY <1>1, InitIInv, NextIInv, PTL DEF Spec
=============================================================================
