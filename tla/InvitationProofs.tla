-------------------------- MODULE InvitationProofs --------------------------
(***************************************************************************)
(* What an invitation promises, for any number of tokens, joins, daemons   *)
(* and addresses: it is used once, the addresses it gives are distinct, a  *)
(* node that has joined is in hosts.json, and a key has its certificate.   *)
(*                                                                         *)
(* The invariant follows a join.  Flow says how its two ends and the       *)
(* request between them agree, and Keys what is in the files of the        *)
(* joiner.  Lists says that every host in hosts_db and hosts.json is a     *)
(* join whose request was handled, and Entered the converse.  OneUse is    *)
(* about who holds a token, and Reserved about where an address is kept    *)
(* while it is not yet in hosts.json.                                      *)
(***************************************************************************)
EXTENDS Invitation, TLAPS

Ats == {"idle", "refused", "validating", "listing", "linking", "listed", "saving"}
Ends == [at : Ats, allow : {"ID", "INVITE_CSR"}, list : Seq(Entries)]
Clients == [on : Daemons \cup {None}, state : {"none", "open", "closed"},
            allow : {"INVITE_DATA", "INVITE_CERT", "done"}]
Kinds == {"none", "INVITE_JOIN", "INVITE_DATA", "INVITE_CSR", "INVITE_CERT"}
Requests == [kind : Kinds, token : Tokens \cup {None}]
Gifts == [token : Tokens, name : Names, ip : Addresses]
Creations == [token : Tokens, name : Names, ip : Addresses, free : BOOLEAN]

Types ==
  /\ inv \in [Tokens -> Entries \cup {None}] /\ issued \subseteq Tokens /\ accepted \subseteq Joins
  /\ creating \in Creations \cup {None}
  /\ db \in Seq(Entries) /\ disk \in Seq(Entries)
  /\ srv \in [Joins -> Ends] /\ cl \in [Joins -> Clients] /\ wire \in [Joins -> Requests]
  /\ conf \in [Daemons -> Addresses] /\ knows \in [Daemons -> BOOLEAN]
  /\ key \in [Daemons -> Joins \cup {None}] /\ cert \in [Daemons -> Joins \cup {None}]
  /\ given \in [Joins -> Gifts \cup {None}]

(* The state of one join, at both ends. *)
Flow(j) ==
  /\ wire[j].kind = "INVITE_JOIN" => wire[j].token \in issued
  /\ wire[j].kind # "none" \/ srv[j].at # "idle" \/ srv[j].allow # "ID" \/ j \in accepted
       => cl[j].state # "none"
  /\ cl[j].state # "none" => cl[j].on \in Daemons
  /\ j \in accepted => /\ srv[j].allow = "INVITE_CSR" \/ srv[j].at = "refused"
                       /\ srv[j].at # "validating"
  /\ j \in accepted \/ srv[j].at = "validating" => given[j] \in Gifts /\ given[j].token \in issued
  /\ wire[j].kind \in {"INVITE_DATA", "INVITE_CSR", "INVITE_CERT"} => j \in accepted
  /\ srv[j].at \in {"listing", "linking", "listed", "saving"} =>
       j \in accepted /\ wire[j].kind \notin {"INVITE_DATA", "INVITE_CSR"}
  /\ cl[j].allow # "INVITE_DATA" => j \in accepted /\ knows[cl[j].on]
  /\ wire[j].kind = "INVITE_DATA" => cl[j].allow = "INVITE_DATA"
  /\ wire[j].kind = "INVITE_CSR" => cl[j].allow = "INVITE_CERT"

(* The files of the joiners. *)
Keys ==
  /\ \A d \in Daemons : key[d] # None => cl[key[d]].on = d /\ cl[key[d]].allow # "INVITE_DATA"
  /\ \A j \in Joins : cl[j].state = "open" /\ cl[j].allow = "INVITE_CERT" /\ cl[j].on \notin overlapped
                        => key[cl[j].on] = j
  /\ KeyCertified
  /\ \A d \in Daemons : conf[d] # None => \E j \in accepted : cl[j].on = d /\ given[j].ip = conf[d]

(* The joins whose INVITE_CSR has led to an entry, and those entries. *)
Past(j) == /\ j \in accepted /\ srv[j].at \notin {"validating", "listing", "linking"}
           /\ wire[j].kind \notin {"INVITE_DATA", "INVITE_CSR"}
EntryOf(j) == Entry(given[j].name, given[j].ip)
Known == {EntryOf(j) : j \in {k \in Joins : Past(k)}}

Lists ==
  /\ Range(db) \subseteq Known /\ Range(disk) \subseteq Known
  /\ \A j \in Joins : Range(srv[j].list) \subseteq Known
  /\ ~Writing => Range(disk) = Range(db)
  /\ ~raced => \A j \in Joins : srv[j].at = "linking" =>
       /\ srv[j].list = db
       /\ \A i \in Joins : srv[i].at = "linking" => i = j

(* A join that has its certificate has an entry, or another join took it over. *)
Certified(j) == wire[j].kind = "INVITE_CERT" \/ cl[j].allow = "done"
Entered ==
  ~raced /\ ~torn => \A j \in Joins : Certified(j) /\ srv[j].at \notin {"listing", "linking"} =>
    Renamed(j) \/ EntryOf(j) \in Range(db)

Held == accepted \cup {j \in Joins : srv[j].at = "validating"}
OneUse ==
  /\ creating # None => creating.token \notin issued
  /\ ~raced =>
       /\ \A i, j \in Held : i # j => given[i].token # given[j].token
       /\ \A j \in accepted : inv[given[j].token] = None
       /\ \A j \in Joins : srv[j].at = "validating" /\ given[j].token \notin expired =>
            inv[given[j].token] # None /\ inv[given[j].token].ip = given[j].ip

(* Where an address is reserved: in an invitation, or by an accepted join,   *)
(* whose address is in hosts.json whenever an invitation is being created.   *)
Saved == \A j \in accepted : Holds(disk, given[j].ip)
Reserved ==
  /\ creating # None /\ ~crossed => Saved
  /\ ~crossed /\ ~raced =>
       /\ \A i, j \in accepted : i # j /\ given[i].ip # None => given[i].ip # given[j].ip
       /\ \A t, u \in Tokens : t # u /\ inv[t] # None /\ inv[u] # None /\ inv[t].ip # None =>
            inv[t].ip # inv[u].ip
       /\ \A t \in Tokens, j \in accepted : inv[t] # None /\ inv[t].ip # None => inv[t].ip # given[j].ip
       /\ creating # None /\ creating.free => \A j \in accepted : given[j].ip # creating.ip
       /\ Saved => \A a \in Pool : Holds(disk, a) => Holds(db, a)

Base == Types /\ \A j \in Joins : Flow(j)
IInv == Base /\ Keys /\ Lists /\ Entered /\ OneUse /\ Reserved

-----------------------------------------------------------------------------
(* The entries of a list, with one added in front, and from the other end. *)
LEMMA Consed ==
  ASSUME NEW l \in Seq(Entries), NEW e \in Entries
  PROVE  <<e>> \o l \in Seq(Entries) /\ Range(<<e>> \o l) = {e} \cup Range(l)
<1> DEFINE m == <<e>> \o l
<1>1. /\ m \in Seq(Entries) /\ Len(m) = 1 + Len(l) /\ DOMAIN m = 1 .. (1 + Len(l))
      /\ m[1] = e /\ \A i \in 1 .. Len(l) : m[i + 1] = l[i]
  OBVIOUS
<1>2. Len(l) \in Nat /\ DOMAIN l = 1 .. Len(l)
  OBVIOUS
<1> HIDE DEF m
<1>3. ASSUME NEW x \in Range(m) PROVE x \in {e} \cup Range(l)
  <2>1. PICK i \in 1 .. (1 + Len(l)) : x = m[i]
    BY <1>1 DEF Range
  <2>2. CASE i = 1
    BY <1>1, <2>1, <2>2
  <2>3. CASE i # 1
    <3>1. i - 1 \in 1 .. Len(l) /\ m[(i - 1) + 1] = l[i - 1] /\ (i - 1) + 1 = i
      BY <1>1, <1>2, <2>3
    <3> QED BY <1>2, <2>1, <3>1 DEF Range
  <2> QED BY <2>2, <2>3
<1>4. ASSUME NEW x \in {e} \cup Range(l) PROVE x \in Range(m)
  <2>1. CASE x = e
    <3>1. 1 \in DOMAIN m
      BY <1>1, <1>2
    <3> QED BY <1>1, <2>1, <3>1 DEF Range
  <2>2. CASE x \in Range(l)
    <3>1. PICK i \in 1 .. Len(l) : x = l[i]
      BY <1>2, <2>2 DEF Range
    <3>2. i + 1 \in DOMAIN m /\ m[i + 1] = x
      BY <1>1, <1>2, <3>1
    <3> QED BY <3>2 DEF Range
  <2> QED BY <2>1, <2>2
<1> QED BY <1>1, <1>3, <1>4 DEF m

(* hosts_json_load prepends each host: the order is reversed, the hosts are   *)
(* the same.                                                                  *)
LEMMA Reversed ==
  ASSUME NEW l \in Seq(Entries)
  PROVE  Reverse(l) \in Seq(Entries) /\ Range(Reverse(l)) = Range(l)
<1>1. Len(l) \in Nat /\ DOMAIN l = 1 .. Len(l) /\ \A i \in 1 .. Len(l) : l[i] \in Entries
  OBVIOUS
<1>2. \A i \in 1 .. Len(l) : (Len(l) - i) + 1 \in 1 .. Len(l)
  BY <1>1
<1>3. /\ DOMAIN Reverse(l) = 1 .. Len(l)
      /\ \A i \in 1 .. Len(l) : Reverse(l)[i] = l[(Len(l) - i) + 1]
  BY DEF Reverse
<1>4. Reverse(l) \in Seq(Entries)
  <2>1. Reverse(l) \in [1 .. Len(l) -> Entries]
    BY <1>1, <1>2 DEF Reverse
  <2> QED BY <1>1, <2>1
<1>5. \A x \in Range(Reverse(l)) : x \in Range(l)
  BY <1>1, <1>2, <1>3 DEF Range
<1>6. ASSUME NEW x \in Range(l) PROVE x \in Range(Reverse(l))
  <2>1. PICK i \in 1 .. Len(l) : x = l[i]
    BY <1>1 DEF Range
  <2>2. (Len(l) - i) + 1 \in 1 .. Len(l) /\ (Len(l) - ((Len(l) - i) + 1)) + 1 = i
    BY <1>1
  <2>3. Reverse(l)[(Len(l) - i) + 1] = x
    BY <1>3, <2>1, <2>2
  <2> QED BY <1>3, <2>2, <2>3 DEF Range
<1> QED BY Zenon, <1>4, <1>5, <1>6

(* An entry gets a new address. *)
LEMMA Renewed ==
  ASSUME NEW l \in Seq(Entries), NEW n \in Names, NEW a \in Addresses
  PROVE  /\ Named(l, n, a) \in Seq(Entries)
         /\ \A e \in Range(l) : e.name # n \/ a = None => e \in Range(Named(l, n, a))
         /\ \A e \in Range(Named(l, n, a)) :
              e \in Range(l) \/ (a # None /\ e = Entry(n, a) /\ Listed(l, n))
         /\ a = None => Named(l, n, a) = l
<1>1. Len(l) \in Nat /\ DOMAIN l = 1 .. Len(l) /\ \A i \in 1 .. Len(l) : l[i] \in Entries
  OBVIOUS
<1>2. Entry(n, a) \in Entries
  BY DEF Entry, Entries
<1>3. /\ DOMAIN Named(l, n, a) = 1 .. Len(l)
      /\ \A i \in 1 .. Len(l) : Named(l, n, a)[i] = IF l[i].name = n /\ a # None THEN Entry(n, a) ELSE l[i]
  BY <1>1 DEF Named
<1>4. Named(l, n, a) \in Seq(Entries)
  <2>1. Named(l, n, a) \in [1 .. Len(l) -> Entries]
    BY <1>1, <1>2 DEF Named
  <2> QED BY <1>1, <2>1
<1>5. \A e \in Range(l) : e.name # n \/ a = None => e \in Range(Named(l, n, a))
  BY <1>1, <1>3 DEF Range
<1>6. \A e \in Range(Named(l, n, a)) :
        e \in Range(l) \/ (a # None /\ e = Entry(n, a) /\ Listed(l, n))
  BY <1>1, <1>3 DEF Range, Listed
<1>7. a = None => Named(l, n, a) = l
  BY <1>1 DEF Named
<1> QED BY <1>4, <1>5, <1>6, <1>7

(* hosts_db_find and hosts_db_find_by_vpn_address look at all the entries. *)
LEMMA Found ==
  ASSUME NEW l \in Seq(Entries)
  PROVE  /\ \A n : Listed(l, n) <=> \E e \in Range(l) : e.name = n
         /\ \A a : Holds(l, a) <=> \E e \in Range(l) : e.ip = a
         /\ Range(l) \subseteq Entries
BY DEF Listed, Holds, Range

-----------------------------------------------------------------------------
(* A join of which a step changes nothing. *)
LEMMA FlowStays ==
  ASSUME NEW i \in Joins, Flow(i), srv[i]' = srv[i], cl[i]' = cl[i], wire[i]' = wire[i],
         given[i]' = given[i], i \in accepted' <=> i \in accepted, issued \subseteq issued',
         \A d \in Daemons : knows[d] => knows[d]'
  PROVE  Flow(i)'
<1>1. cl[i].allow # "INVITE_DATA" => cl[i].on \in Daemons
  BY DEF Flow
<1> QED BY <1>1 DEF Flow

(* Expire changes no more than expired. *)
LEMMA ExpireBase ==
  ASSUME Base, NEW t \in Tokens, Expire(t)
  PROVE  Base'
<1>1. UNCHANGED <<inv, issued, creating, db, disk, srv, given, accepted, cl, conf, knows, key, cert, wire>>
  BY DEF Expire, inviter, joiner
<1>2. Types'
  BY <1>1 DEF Base, Types
<1>3. \A i \in Joins : Flow(i)'
  BY <1>1, FlowStays DEF Base
<1> QED BY <1>2, <1>3 DEF Base

(* INVITE_JOIN keeps the types, and each request on its way fits its two      *)
(* ends.                                                                      *)
LEMMA JoinBase ==
  ASSUME Base, NEW j \in Joins, NEW d \in Daemons, NEW t \in Tokens, Join(j, d, t)
  PROVE  Base'
<1>1. /\ UNCHANGED <<inv, issued, creating, db, disk, srv, given, accepted, conf, knows, key, cert>>
      /\ cl[j].state = "none" /\ t \in issued
      /\ cl' = [cl EXCEPT ![j].on = d, ![j].state = "open"]
      /\ wire' = [wire EXCEPT ![j] = [kind |-> "INVITE_JOIN", token |-> t]]
  BY DEF Join, inviter
<1>2. Types'
  <2>1. cl' \in [Joins -> Clients]
    BY <1>1 DEF Base, Types, Clients
  <2>2. wire' \in [Joins -> Requests]
    BY <1>1 DEF Base, Types, Requests, Kinds
  <2> QED BY <1>1, <2>1, <2>2 DEF Base, Types
<1>3. /\ cl'[j] = [on |-> d, state |-> "open", allow |-> cl[j].allow]
      /\ wire'[j] = [kind |-> "INVITE_JOIN", token |-> t]
  BY Zenon, <1>1 DEF Base, Types, Clients
<1>4. Flow(j)'
  <2>1. Flow(j)
    BY DEF Base
  <2> QED BY <1>1, <1>3, <2>1 DEF Flow
<1>5. ASSUME NEW i \in Joins, i # j PROVE Flow(i)'
  BY <1>1, <1>5, FlowStays DEF Base, Types
<1> QED BY <1>2, <1>4, <1>5 DEF Base

(* The inviter's end of one join changes. *)
LEMMA EndChanges ==
  ASSUME Types, NEW j \in Joins, NEW a \in Ats, NEW r \in {"ID", "INVITE_CSR"}, NEW l \in Seq(Entries),
         \/ srv' = [srv EXCEPT ![j].at = a, ![j].allow = r] /\ l = srv[j].list
         \/ srv' = [srv EXCEPT ![j].at = a, ![j].list = l] /\ r = srv[j].allow
  PROVE  /\ srv' \in [Joins -> Ends] /\ \A i \in Joins \ {j} : srv'[i] = srv[i]
         /\ srv'[j].at = a /\ srv'[j].allow = r /\ srv'[j].list = l
<1>1. PICK L : L = Seq(Entries)
  OBVIOUS
<1>2. srv \in [Joins -> [at : Ats, allow : {"ID", "INVITE_CSR"}, list : L]] /\ l \in L
  BY <1>1 DEF Types, Ends
<1>3. /\ srv' \in [Joins -> [at : Ats, allow : {"ID", "INVITE_CSR"}, list : L]]
      /\ \A i \in Joins \ {j} : srv'[i] = srv[i]
      /\ srv'[j].at = a /\ srv'[j].allow = r /\ srv'[j].list = l
  <2>2. CASE srv' = [srv EXCEPT ![j].at = a, ![j].allow = r] /\ l = srv[j].list
    BY ONLY Zenon, <1>2, <2>2, j \in Joins, a \in Ats, r \in {"ID", "INVITE_CSR"}
  <2>3. CASE srv' = [srv EXCEPT ![j].at = a, ![j].list = l] /\ r = srv[j].allow
    BY ONLY Zenon, <1>2, <2>3, j \in Joins, a \in Ats
  <2> QED BY <2>2, <2>3
<1> QED BY <1>1, <1>3 DEF Ends

(* An end as it is before. *)
LEMMA EndIs ==
  ASSUME Types, NEW j \in Joins
  PROVE  srv[j].at \in Ats /\ srv[j].allow \in {"ID", "INVITE_CSR"} /\ srv[j].list \in Seq(Entries)
<1>1. PICK L : L = Seq(Entries)
  OBVIOUS
<1>2. srv \in [Joins -> [at : Ats, allow : {"ID", "INVITE_CSR"}, list : L]]
  BY <1>1 DEF Types, Ends
<1>3. srv[j].at \in Ats /\ srv[j].allow \in {"ID", "INVITE_CSR"} /\ srv[j].list \in L
  BY ONLY <1>2, j \in Joins
<1> QED BY <1>1, <1>3

(* The inviter goes on to the next step of a handler. *)
LEMMA EndMoves ==
  ASSUME Types, NEW j \in Joins, NEW a \in Ats, srv' = [srv EXCEPT ![j].at = a]
  PROVE  /\ srv' \in [Joins -> Ends] /\ \A i \in Joins \ {j} : srv'[i] = srv[i]
         /\ srv'[j].at = a /\ srv'[j].allow = srv[j].allow /\ srv'[j].list = srv[j].list
<1>1. PICK L : L = Seq(Entries)
  OBVIOUS
<1>2. srv \in [Joins -> [at : Ats, allow : {"ID", "INVITE_CSR"}, list : L]]
  BY <1>1 DEF Types, Ends
<1>3. /\ srv' \in [Joins -> [at : Ats, allow : {"ID", "INVITE_CSR"}, list : L]]
      /\ \A i \in Joins \ {j} : srv'[i] = srv[i]
      /\ srv'[j].at = a /\ srv'[j].allow = srv[j].allow /\ srv'[j].list = srv[j].list
  BY ONLY <1>2, srv' = [srv EXCEPT ![j].at = a], j \in Joins, a \in Ats
<1> QED BY <1>1, <1>3 DEF Ends

(* The inviter has used the token, and goes on to the joiner's CSR. *)
LEMMA EndAllows ==
  ASSUME Types, NEW j \in Joins, srv' = [srv EXCEPT ![j].at = "idle", ![j].allow = "INVITE_CSR"]
  PROVE  /\ srv' \in [Joins -> Ends] /\ \A i \in Joins \ {j} : srv'[i] = srv[i]
         /\ srv'[j].at = "idle" /\ srv'[j].allow = "INVITE_CSR" /\ srv'[j].list = srv[j].list
<1>1. PICK L : L = Seq(Entries)
  BY Zenon
<1>2. srv \in [Joins -> [at : Ats, allow : {"ID", "INVITE_CSR"}, list : L]] /\ "idle" \in Ats
  BY Zenon, <1>1 DEF Types, Ends, Ats
<1>3. /\ srv' \in [Joins -> [at : Ats, allow : {"ID", "INVITE_CSR"}, list : L]]
      /\ \A i \in Joins \ {j} : srv'[i] = srv[i]
      /\ srv'[j].at = "idle" /\ srv'[j].allow = "INVITE_CSR" /\ srv'[j].list = srv[j].list
  BY ONLY Zenon, <1>2, srv' = [srv EXCEPT ![j].at = "idle", ![j].allow = "INVITE_CSR"], j \in Joins
<1> QED BY Zenon, <1>1, <1>3 DEF Ends

(* Reading the token file keeps them. *)
LEMMA ReadTokenBase ==
  ASSUME Base, NEW j \in Joins, ReadToken(j)
  PROVE  Base'
<1> DEFINE t == wire[j].token
<1>1. /\ UNCHANGED <<inv, issued, creating, db, disk, accepted, cl, conf, knows, key, cert>>
      /\ wire[j].kind = "INVITE_JOIN" /\ srv[j].at = "idle" /\ Allowed(j, "INVITE_JOIN")
      /\ wire' = [wire EXCEPT ![j] = Silent]
      /\ IF inv[t] = None
         THEN srv' = [srv EXCEPT ![j].at = "refused"] /\ UNCHANGED given
         ELSE /\ srv' = [srv EXCEPT ![j].at = "validating"]
              /\ given' = [given EXCEPT ![j] = [token |-> t, name |-> inv[t].name, ip |-> inv[t].ip]]
  BY DEF ReadToken, joiner, Got
<1>2. t \in issued /\ t \in Tokens /\ inv[t] \in Entries \cup {None}
  BY <1>1 DEF Base, Flow, Types
<1> HIDE DEF t
<1>3. srv[j].allow = "ID" /\ j \notin accepted
  BY Zenon, <1>1 DEF Base, Flow, Types, Ends, Allowed
<1>4. /\ wire' \in [Joins -> Requests] /\ wire'[j] = Silent /\ \A i \in Joins \ {j} : wire'[i] = wire[i]
  BY <1>1 DEF Base, Types, Requests, Kinds, Silent, Request
<1>5. /\ srv' \in [Joins -> Ends] /\ \A i \in Joins \ {j} : srv'[i] = srv[i]
      /\ srv'[j].allow = "ID" /\ srv'[j].at = IF inv[t] = None THEN "refused" ELSE "validating"
  <2>1. "refused" \in Ats /\ "validating" \in Ats /\ Types
    BY DEF Ats, Base
  <2> QED BY <1>1, <1>3, <2>1, EndMoves
<1>6. /\ given' \in [Joins -> Gifts \cup {None}] /\ \A i \in Joins \ {j} : given'[i] = given[i]
      /\ inv[t] # None => given'[j] \in Gifts /\ given'[j].token = t
  BY <1>1, <1>2 DEF Base, Types, Gifts, Entries
<1>7. Types'
  BY <1>1, <1>4, <1>5, <1>6 DEF Base, Types
<1>8. Flow(j)'
  <2>1. Flow(j)
    BY DEF Base
  <2>2. wire'[j].kind = "none"
    BY <1>4 DEF Silent, Request
  <2> QED BY <1>1, <1>2, <1>3, <1>5, <1>6, <2>1, <2>2 DEF Flow
<1>9. ASSUME NEW i \in Joins, i # j PROVE Flow(i)'
  BY <1>1, <1>4, <1>5, <1>6, <1>9, FlowStays DEF Base
<1> QED BY <1>7, <1>8, <1>9 DEF Base

(* Deleting the token file and answering keep them. *)
LEMMA UseTokenBase ==
  ASSUME Base, NEW j \in Joins, UseToken(j)
  PROVE  Base'
<1> DEFINE t == given[j].token
<1>1. /\ UNCHANGED <<given, issued, creating, db, disk, cl, conf, knows, key, cert>>
      /\ srv[j].at = "validating" /\ inv' = Unlink(t)
      /\ IF t \in expired
         THEN srv' = [srv EXCEPT ![j].at = "refused"] /\ UNCHANGED <<wire, accepted>>
         ELSE /\ srv' = [srv EXCEPT ![j].at = "idle", ![j].allow = "INVITE_CSR"]
              /\ wire' = [wire EXCEPT ![j] = Request("INVITE_DATA")]
              /\ accepted' = accepted \cup {j}
  BY DEF UseToken, joiner
<1>2. t \in issued /\ t \in Tokens /\ given[j] \in Gifts /\ j \notin accepted
  BY <1>1 DEF Base, Flow, Types
<1>3. inv' \in [Tokens -> Entries \cup {None}]
  BY <1>1, <1>2 DEF Unlink, Base, Types
<1> HIDE DEF t
<1>4. Flow(j)
  BY DEF Base
<1>5. CASE t \in expired
  <2>1. /\ srv' \in [Joins -> Ends] /\ \A i \in Joins \ {j} : srv'[i] = srv[i]
        /\ srv'[j].at = "refused" /\ UNCHANGED <<wire, accepted>>
    <3>1. "refused" \in Ats /\ Types
      BY DEF Ats, Base
    <3> QED BY <1>1, <1>5, <3>1, EndMoves
  <2>2. Types'
    BY <1>1, <1>3, <2>1 DEF Base, Types
  <2>3. Flow(j)'
    BY <1>1, <1>2, <1>4, <2>1 DEF Flow
  <2>4. ASSUME NEW i \in Joins, i # j PROVE Flow(i)'
    BY <1>1, <2>1, <2>4, FlowStays DEF Base
  <2> QED BY <2>2, <2>3, <2>4 DEF Base
<1>6. CASE t \notin expired
  <2>1. /\ srv' \in [Joins -> Ends] /\ \A i \in Joins \ {j} : srv'[i] = srv[i]
        /\ srv'[j].at = "idle" /\ srv'[j].allow = "INVITE_CSR"
    <3>1. srv' = [srv EXCEPT ![j].at = "idle", ![j].allow = "INVITE_CSR"] /\ Types
      BY Zenon, <1>1, <1>6 DEF Base
    <3> QED BY Zenon, <3>1, EndAllows
  <2>2. /\ wire' \in [Joins -> Requests] /\ wire'[j].kind = "INVITE_DATA" /\ \A i \in Joins \ {j} : wire'[i] = wire[i]
    BY <1>1, <1>6 DEF Base, Types, Requests, Kinds, Request
  <2>3. accepted' = accepted \cup {j}
    BY <1>1, <1>6
  <2>4. Types'
    BY <1>1, <1>3, <2>1, <2>2, <2>3 DEF Base, Types
  <2>5. Flow(j)'
    BY <1>1, <1>2, <1>4, <2>1, <2>2, <2>3 DEF Flow, t
  <2>6. ASSUME NEW i \in Joins, i # j PROVE Flow(i)'
    BY <1>1, <2>1, <2>2, <2>3, <2>6, FlowStays DEF Base
  <2> QED BY <2>4, <2>5, <2>6 DEF Base
<1> QED BY <1>5, <1>6

(* The joiner's handler of INVITE_DATA keeps them. *)
LEMMA InviteDataBase ==
  ASSUME Base, NEW j \in Joins, InviteData(j)
  PROVE  Base'
<1>0. PICK d : d = cl[j].on
  OBVIOUS
<1>1. /\ UNCHANGED <<inv, issued, creating, db, disk, srv, given, accepted, cert>>
      /\ wire[j].kind = "INVITE_DATA" /\ cl[j].state = "open" /\ cl[j].allow = "INVITE_DATA"
      /\ conf' = IF given[j].ip = None THEN conf ELSE [conf EXCEPT ![d] = given[j].ip]
      /\ knows' = [knows EXCEPT ![d] = TRUE] /\ key' = [key EXCEPT ![d] = j]
      /\ wire' = [wire EXCEPT ![j] = Request("INVITE_CSR")]
      /\ cl' = [cl EXCEPT ![j].allow = "INVITE_CERT"]
  BY <1>0 DEF InviteData, inviter, SavedKey
<1>2. Flow(j) /\ d \in Daemons /\ j \in accepted /\ given[j] \in Gifts
  BY <1>0, <1>1 DEF Base, Flow
<1>3. /\ conf' \in [Daemons -> Addresses] /\ knows' \in [Daemons -> BOOLEAN] /\ key' \in [Daemons -> Joins \cup {None}]
      /\ knows'[d] /\ \A e \in Daemons : knows[e] => knows'[e]
  BY <1>1, <1>2 DEF Base, Types, Gifts
<1>4. /\ wire' \in [Joins -> Requests] /\ wire'[j].kind = "INVITE_CSR" /\ \A i \in Joins \ {j} : wire'[i] = wire[i]
  BY <1>1 DEF Base, Types, Requests, Kinds, Request
<1>5. /\ cl' \in [Joins -> Clients] /\ \A i \in Joins \ {j} : cl'[i] = cl[i]
      /\ cl'[j].on = d /\ cl'[j].state = "open" /\ cl'[j].allow = "INVITE_CERT"
  BY <1>0, <1>1 DEF Base, Types, Clients
<1>6. Types'
  BY <1>1, <1>3, <1>4, <1>5 DEF Base, Types
<1>7. Flow(j)'
  BY <1>1, <1>2, <1>3, <1>4, <1>5 DEF Flow
<1>8. ASSUME NEW i \in Joins, i # j PROVE Flow(i)'
  BY <1>1, <1>3, <1>4, <1>5, <1>8, FlowStays DEF Base
<1> QED BY <1>6, <1>7, <1>8 DEF Base

(* The joiner's handler of INVITE_CERT keeps them. *)
LEMMA InviteCertBase ==
  ASSUME Base, NEW j \in Joins, InviteCert(j)
  PROVE  Base'
<1>1. /\ UNCHANGED <<inv, issued, creating, db, disk, srv, given, accepted, conf, knows, key>>
      /\ wire[j].kind = "INVITE_CERT" /\ cl[j].state = "open" /\ cl[j].allow = "INVITE_CERT"
      /\ cert' = [cert EXCEPT ![cl[j].on] = j]
      /\ wire' = [wire EXCEPT ![j] = Silent]
      /\ cl' = [cl EXCEPT ![j].allow = "done"]
  BY DEF InviteCert, inviter
<1>2. Flow(j) /\ j \in accepted
  BY <1>1 DEF Base, Flow
<1>3. cert' \in [Daemons -> Joins \cup {None}]
  BY Zenon, <1>1 DEF Base, Types
<1>4. /\ wire' \in [Joins -> Requests] /\ wire'[j].kind = "none" /\ \A i \in Joins \ {j} : wire'[i] = wire[i]
  BY <1>1 DEF Base, Types, Requests, Kinds, Silent, Request
<1>5. /\ cl' \in [Joins -> Clients] /\ \A i \in Joins \ {j} : cl'[i] = cl[i]
      /\ cl'[j].on = cl[j].on /\ cl'[j].state = "open" /\ cl'[j].allow = "done"
  BY <1>1 DEF Base, Types, Clients
<1>6. Types'
  BY <1>1, <1>3, <1>4, <1>5 DEF Base, Types
<1>7. Flow(j)'
  BY <1>1, <1>2, <1>4, <1>5 DEF Flow
<1>8. ASSUME NEW i \in Joins, i # j PROVE Flow(i)'
  BY <1>1, <1>4, <1>5, <1>8, FlowStays DEF Base
<1> QED BY <1>6, <1>7, <1>8 DEF Base

(* The inviter's handler of INVITE_CSR, up to the answer, keeps them. *)
LEMMA InviteCsrBase ==
  ASSUME Base, NEW j \in Joins, InviteCsr(j)
  PROVE  Base'
<1>1. /\ UNCHANGED <<inv, issued, creating, db, disk, given, accepted, cl, conf, knows, key, cert>>
      /\ wire[j].kind = "INVITE_CSR" /\ srv[j].at = "idle"
      /\ wire' = [wire EXCEPT ![j] = Request("INVITE_CERT")] /\ srv' = [srv EXCEPT ![j].at = "listing"]
  BY DEF InviteCsr, joiner, Signed, Got
<1>2. Flow(j) /\ j \in accepted /\ Types
  BY <1>1 DEF Base, Flow
<1>3. /\ wire' \in [Joins -> Requests] /\ wire'[j].kind = "INVITE_CERT" /\ \A i \in Joins \ {j} : wire'[i] = wire[i]
  BY <1>1 DEF Base, Types, Requests, Kinds, Request
<1>4. /\ srv' \in [Joins -> Ends] /\ \A i \in Joins \ {j} : srv'[i] = srv[i]
      /\ srv'[j].at = "listing" /\ srv'[j].allow = srv[j].allow
  <2>1. "listing" \in Ats
    BY DEF Ats
  <2> QED BY Zenon, <1>1, <1>2, <2>1, EndMoves
<1>5. Types'
  BY <1>1, <1>3, <1>4 DEF Base, Types
<1>6. Flow(j)'
  BY <1>1, <1>2, <1>3, <1>4 DEF Flow
<1>7. ASSUME NEW i \in Joins, i # j PROVE Flow(i)'
  BY <1>1, <1>3, <1>4, <1>7, FlowStays DEF Base
<1> QED BY <1>5, <1>6, <1>7 DEF Base

(* Who takes an entry over writes it to all who look at the list. *)
LEMMA SharedEnds ==
  ASSUME Types, NEW j \in Joins, given[j] \in Gifts, FindHost(j), Listed(db, given[j].name)
  PROVE  /\ srv' \in [Joins -> Ends] /\ srv'[j].at = "listed"
         /\ \A i \in Joins : /\ srv'[i].allow = srv[i].allow
                             /\ srv'[i].list = Named(srv[i].list, given[j].name, given[j].ip)
                             /\ i # j => srv'[i].at = srv[i].at
<1>0. PICK L : L = Seq(Entries)
  OBVIOUS
<1>1. PICK n \in Names, a \in Addresses : n = given[j].name /\ a = given[j].ip
  BY DEF Gifts
<1>2. srv \in [Joins -> [at : Ats, allow : {"ID", "INVITE_CSR"}, list : L]]
  BY <1>0 DEF Types, Ends
<1>3. \A l \in L : Named(l, n, a) \in L
  BY <1>0, Renewed
<1>4. "listed" \in Ats
  BY DEF Ats
<1>5. /\ srv' = [i \in Joins |-> srv'[i]]
      /\ \A i \in Joins :
          srv'[i] = [srv[i] EXCEPT !.at = IF i = j THEN "listed" ELSE srv[i].at,
                                   !.list = Named(srv[i].list, n, a)]
  BY Zenon, <1>1 DEF FindHost
<1>6. ASSUME NEW i \in Joins
      PROVE  /\ srv'[i] \in [at : Ats, allow : {"ID", "INVITE_CSR"}, list : L]
             /\ srv'[i].allow = srv[i].allow /\ srv'[i].list = Named(srv[i].list, n, a)
             /\ srv'[i].at = IF i = j THEN "listed" ELSE srv[i].at
  <2>1. PICK r \in [at : Ats, allow : {"ID", "INVITE_CSR"}, list : L], l \in L, q \in Ats :
          r = srv[i] /\ l = Named(r.list, n, a) /\ q = IF i = j THEN "listed" ELSE r.at
    BY <1>2, <1>3, <1>4
  <2>2. srv'[i] = [r EXCEPT !.at = q, !.list = l]
    BY Zenon, <1>5, <2>1
  <2>3. /\ srv'[i] \in [at : Ats, allow : {"ID", "INVITE_CSR"}, list : L]
        /\ srv'[i].allow = r.allow /\ srv'[i].list = l /\ srv'[i].at = q
    BY ONLY Zenon, <2>2, r \in [at : Ats, allow : {"ID", "INVITE_CSR"}, list : L], l \in L, q \in Ats
  <2> QED BY <2>1, <2>3
<1>7. srv' \in [Joins -> Ends]
  BY Zenon, <1>0, <1>5, <1>6 DEF Ends
<1> QED BY <1>1, <1>6, <1>7

(* hosts_json_find, and the update of an entry in place, keep them. *)
LEMMA FindHostBase ==
  ASSUME Base, NEW j \in Joins, FindHost(j)
  PROVE  Base'
<1>1. UNCHANGED <<inv, issued, creating, disk, given, accepted, cl, conf, knows, key, cert, wire>> /\ srv[j].at = "listing"
  BY Zenon DEF FindHost, joiner
<1>2. Flow(j) /\ j \in accepted /\ Types /\ given[j] \in Gifts
  BY <1>1 DEF Base, Flow
<1>3. /\ srv' \in [Joins -> Ends] /\ db' \in Seq(Entries)
      /\ srv'[j].at \in {"listed", "linking"} /\ srv'[j].allow = srv[j].allow
      /\ \A i \in Joins \ {j} : srv'[i].at = srv[i].at /\ srv'[i].allow = srv[i].allow
  <2>1. CASE Listed(db, given[j].name)
    <3>1. PICK n \in Names, a \in Addresses : n = given[j].name /\ a = given[j].ip
      BY <1>2 DEF Gifts
    <3>2. db' = Named(db, n, a)
      BY Zenon, <2>1, <3>1 DEF FindHost
    <3>3. db' \in Seq(Entries)
      BY <1>2, <3>2, Renewed DEF Types
    <3> QED BY <1>2, <2>1, <3>3, SharedEnds
  <2>2. CASE ~Listed(db, given[j].name)
    <3>1. srv' = [srv EXCEPT ![j].at = "linking", ![j].list = db] /\ db' = db
      BY <2>2 DEF FindHost
    <3>2. "linking" \in Ats /\ srv[j].allow \in {"ID", "INVITE_CSR"} /\ db \in Seq(Entries)
      BY <1>2, EndIs DEF Ats, Types
    <3> QED BY Zenon, <1>2, <3>1, <3>2, EndChanges
  <2> QED BY <2>1, <2>2
<1>4. Types'
  BY <1>1, <1>3 DEF Base, Types
<1>5. Flow(j)'
  BY <1>1, <1>2, <1>3 DEF Flow
<1>6. ASSUME NEW i \in Joins, i # j PROVE Flow(i)'
  BY Zenon, <1>1, <1>3, <1>6 DEF Base, Flow
<1> QED BY <1>4, <1>5, <1>6 DEF Base

(* The rest of invite_csr_h. *)
LEMMA ListBase ==
  ASSUME Base, NEW j \in Joins, AddHost(j) \/ OpenHosts(j) \/ SaveHosts(j)
  PROVE  Base'
<1>1. UNCHANGED <<inv, issued, creating, given, accepted, cl, conf, knows, key, cert, wire>>
      /\ srv[j].at \in {"linking", "listed", "saving"}
  BY DEF AddHost, OpenHosts, SaveHosts, joiner
<1>2. Flow(j) /\ j \in accepted /\ Types /\ given[j] \in Gifts
  BY <1>1 DEF Base, Flow
<1>3. /\ srv' \in [Joins -> Ends] /\ db' \in Seq(Entries) /\ disk' \in Seq(Entries)
      /\ srv'[j].at \in {"listed", "saving", "idle"} /\ srv'[j].allow = srv[j].allow
      /\ \A i \in Joins \ {j} : srv'[i] = srv[i]
  <2>0. /\ "listed" \in Ats /\ "saving" \in Ats /\ "idle" \in Ats /\ srv[j].allow \in {"ID", "INVITE_CSR"}
        /\ srv[j].list \in Seq(Entries) /\ <<>> \in Seq(Entries) /\ db \in Seq(Entries) /\ disk \in Seq(Entries)
    BY <1>2, EndIs DEF Ats, Types
  <2>1. CASE AddHost(j)
    <3>1. Entry(given[j].name, given[j].ip) \in Entries
      BY <1>2 DEF Entry, Entries, Gifts
    <3>2. db' = <<Entry(given[j].name, given[j].ip)>> \o srv[j].list /\ disk' = disk
          /\ srv' = [srv EXCEPT ![j].at = "listed", ![j].list = <<>>]
      BY <2>1 DEF AddHost
    <3>3. db' \in Seq(Entries)
      BY <2>0, <3>1, <3>2, Consed
    <3> QED BY Zenon, <1>2, <2>0, <3>2, <3>3, EndChanges
  <2>2. CASE OpenHosts(j)
    BY Zenon, <1>2, <2>0, <2>2, EndMoves DEF OpenHosts
  <2>3. CASE SaveHosts(j)
    BY Zenon, <1>2, <2>0, <2>3, EndMoves DEF SaveHosts
  <2> QED BY <2>1, <2>2, <2>3
<1>4. Types'
  BY Zenon, <1>1, <1>3 DEF Base, Types
<1>5. Flow(j)'
  BY Zenon, <1>1, <1>2, <1>3 DEF Flow
<1>6. ASSUME NEW i \in Joins, i # j PROVE Flow(i)'
  BY <1>1, <1>3, <1>6, FlowStays DEF Base
<1> QED BY <1>4, <1>5, <1>6 DEF Base

(* A join that gives up keeps them. *)
LEMMA TimeoutBase ==
  ASSUME Base, NEW j \in Joins, Timeout(j)
  PROVE  Base'
<1>1. /\ UNCHANGED <<inv, issued, creating, db, disk, srv, given, accepted, conf, knows, key, cert>>
      /\ cl[j].state = "open" /\ cl' = [cl EXCEPT ![j].state = "closed"]
      /\ wire' = [wire EXCEPT ![j] = Silent] \/ wire' = wire
  BY DEF Timeout, inviter
<1>2. /\ cl' \in [Joins -> Clients] /\ \A i \in Joins \ {j} : cl'[i] = cl[i]
      /\ cl'[j].on = cl[j].on /\ cl'[j].state = "closed" /\ cl'[j].allow = cl[j].allow
  BY Zenon, <1>1 DEF Base, Types, Clients
<1>3. /\ wire' \in [Joins -> Requests] /\ (wire'[j] = wire[j] \/ wire'[j].kind = "none")
      /\ \A i \in Joins \ {j} : wire'[i] = wire[i]
  <2>1. CASE wire' = wire
    BY <2>1 DEF Base, Types
  <2>2. CASE wire' = [wire EXCEPT ![j] = Silent]
    BY <2>2 DEF Base, Types, Requests, Kinds, Silent, Request
  <2> QED BY <1>1, <2>1, <2>2
<1>4. Types'
  BY <1>1, <1>2, <1>3 DEF Base, Types
<1>5. Flow(j)'
  <2>1. Flow(j)
    BY DEF Base
  <2> QED BY <1>1, <1>2, <1>3, <2>1 DEF Flow
<1>6. ASSUME NEW i \in Joins, i # j PROVE Flow(i)'
  BY <1>1, <1>2, <1>3, <1>6, FlowStays DEF Base
<1> QED BY <1>4, <1>5, <1>6 DEF Base

(* A restart of the inviter keeps them. *)
LEMMA RestartBase ==
  ASSUME Base, Restart
  PROVE  Base'
<1>1. /\ UNCHANGED <<inv, expired, issued, disk, conf, knows, key, cert, given, accepted>>
      /\ db' = Reverse(disk) /\ creating' = None
      /\ srv' = [j \in Joins |-> IF cl[j].state = "none" THEN NoEnd ELSE [NoEnd EXCEPT !.at = "refused"]]
      /\ cl' = [j \in Joins |-> IF cl[j].state = "open" THEN [cl[j] EXCEPT !.state = "closed"] ELSE cl[j]]
      /\ wire' = [j \in Joins |-> Silent]
  BY DEF Restart
<1>2. db' \in Seq(Entries)
  BY <1>1, Reversed DEF Base, Types
<1>3. /\ srv' \in [Joins -> Ends]
      /\ \A j \in Joins : /\ srv'[j].at = IF cl[j].state = "none" THEN "idle" ELSE "refused"
                          /\ srv'[j].allow = "ID" /\ srv'[j].list = <<>>
  <2>1. PICK L : L = Seq(Entries)
    OBVIOUS
  <2>0. <<>> \in L
    BY <2>1
  <2>2. \A j \in Joins : srv'[j] = [at |-> IF cl[j].state = "none" THEN "idle" ELSE "refused",
                                   allow |-> "ID", list |-> <<>>]
    BY <1>1 DEF NoEnd
  <2>3. ASSUME NEW j \in Joins
        PROVE srv'[j] \in [at : Ats, allow : {"ID", "INVITE_CSR"}, list : L]
    <3>1. PICK q \in Ats, e \in L : q = (IF cl[j].state = "none" THEN "idle" ELSE "refused") /\ e = <<>>
      BY <2>0 DEF Ats
    <3>2. srv'[j] = [at |-> q, allow |-> "ID", list |-> e]
      BY <2>2, <3>1
    <3> QED BY ONLY <3>2, q \in Ats, e \in L
  <2>4. srv' = [j \in Joins |-> srv'[j]]
    BY <1>1
  <2> QED BY <2>1, <2>2, <2>3, <2>4 DEF Ends
<1>4. /\ cl' \in [Joins -> Clients]
      /\ \A j \in Joins : /\ cl'[j].on = cl[j].on /\ cl'[j].allow = cl[j].allow
                          /\ cl'[j].state = "none" <=> cl[j].state = "none"
                          /\ cl'[j].state # "open"
  BY Zenon, <1>1 DEF Base, Types, Clients
<1>5. wire' \in [Joins -> Requests] /\ \A j \in Joins : wire'[j].kind = "none"
  BY <1>1 DEF Silent, Request, Requests, Kinds
<1>6. Types'
  BY Zenon, <1>1, <1>2, <1>3, <1>4, <1>5 DEF Base, Types
<1>7. ASSUME NEW j \in Joins PROVE Flow(j)'
  <2>1. Flow(j)
    BY DEF Base
  <2> QED BY <1>1, <1>3, <1>4, <1>5, <2>1 DEF Flow
<1> QED BY <1>6, <1>7 DEF Base

(* Before the first invitation there is nothing to go wrong. *)
LEMMA InitIInv == Init => IInv
<1> SUFFICES ASSUME Init PROVE IInv
  OBVIOUS
<1>1. /\ inv = [t \in Tokens |-> None] /\ issued = {} /\ accepted = {} /\ creating = None
      /\ db = <<>> /\ disk = <<>>
      /\ conf = [d \in Daemons |-> None] /\ knows = [d \in Daemons |-> FALSE]
      /\ key = [d \in Daemons |-> None] /\ cert = [d \in Daemons |-> None]
      /\ given = [j \in Joins |-> None]
  BY DEF Init
<1>2. /\ srv \in [Joins -> Ends] /\ <<>> \in Seq(Entries)
      /\ \A j \in Joins : srv[j].at = "idle" /\ srv[j].allow = "ID" /\ srv[j].list = <<>>
  <2>1. PICK L : L = Seq(Entries)
    OBVIOUS
  <2>0. <<>> \in L
    BY <2>1
  <2>2. PICK e \in L : e = <<>>
    BY <2>0
  <2>3. srv = [j \in Joins |-> [at |-> "idle", allow |-> "ID", list |-> e]] /\ "idle" \in Ats
    BY <2>2 DEF Init, NoEnd, Ats
  <2>4. PICK r \in [at : Ats, allow : {"ID", "INVITE_CSR"}, list : L] :
          r = [at |-> "idle", allow |-> "ID", list |-> e]
    BY Zenon, <2>3
  <2>5. srv \in [Joins -> [at : Ats, allow : {"ID", "INVITE_CSR"}, list : L]] /\ \A j \in Joins : srv[j] = r
    BY ONLY <2>3, <2>4
  <2> QED BY <2>1, <2>2, <2>4, <2>5 DEF Ends
<1>3. /\ cl \in [Joins -> Clients] /\ wire \in [Joins -> Requests]
      /\ \A j \in Joins : cl[j].state = "none" /\ cl[j].allow = "INVITE_DATA" /\ wire[j].kind = "none"
  BY DEF Init, Clients, Silent, Request, Requests, Kinds
<1>4. Types
  BY Zenon, <1>1, <1>2, <1>3 DEF Types, Addresses
<1>5. \A j \in Joins : Flow(j)
  BY <1>1, <1>2, <1>3 DEF Flow
<1>6. Keys
  BY <1>1, <1>3 DEF Keys, KeyCertified
<1>7. Range(<<>>) = {}
  BY SMTT(20) DEF Range
<1>8. Lists /\ Entered
  BY <1>1, <1>2, <1>3, <1>7 DEF Lists, Entered, Certified
<1>9. OneUse /\ Reserved
  BY Zenon, <1>1, <1>2 DEF OneUse, Held, Reserved, Saved, Holds
<1> QED BY <1>4, <1>5, <1>6, <1>8, <1>9 DEF IInv, Base

-----------------------------------------------------------------------------
(* Keys, certificates and the VPNAddress. *)

(* A step that leaves the files of the joiners alone. *)
LEMMA KeysStay ==
  ASSUME Base, Keys, UNCHANGED <<conf, key, cert, overlapped>>, accepted \subseteq accepted',
         \A j \in Joins : cl[j]'.on = cl[j].on /\ cl[j]'.allow = cl[j].allow /\ (cl[j]'.state = "open" => cl[j].state = "open"),
         \A j \in accepted : given[j]' = given[j]
  PROVE  Keys'
<1>1. /\ key \in [Daemons -> Joins \cup {None}] /\ accepted \subseteq Joins
  BY DEF Base, Types
<1>2. ASSUME NEW d \in Daemons, key[d] # None
      PROVE key[d] \in Joins /\ cl[key[d]].on = d /\ cl[key[d]].allow # "INVITE_DATA"
  BY <1>1, <1>2 DEF Keys
<1>3. \A d \in Daemons : key'[d] # None => cl'[key'[d]].on = d /\ cl'[key'[d]].allow # "INVITE_DATA"
  BY <1>2
<1>4. \A j \in Joins : cl'[j].state = "open" /\ cl'[j].allow = "INVITE_CERT" /\ cl'[j].on \notin overlapped'
                        => key'[cl'[j].on] = j
  BY DEF Keys
<1>5. KeyCertified'
  BY <1>2 DEF Keys, KeyCertified
<1>6. \A d \in Daemons : conf'[d] # None => \E j \in accepted' : cl'[j].on = d /\ given'[j].ip = conf'[d]
  BY SMTT(20), <1>1 DEF Keys
<1> QED BY Zenon, <1>3, <1>4, <1>5, <1>6 DEF Keys

(* A daemon that begins a join has no key of another open join, unless joins  *)
(* overlap.                                                                   *)
LEMMA JoinKeys ==
  ASSUME Base, Keys, NEW j \in Joins, NEW d \in Daemons, NEW t \in Tokens, Join(j, d, t)
  PROVE  Keys'
<1>0. cl[j].state = "none" /\ cl' = [cl EXCEPT ![j].on = d, ![j].state = "open"]
  BY DEF Join
<1>1. UNCHANGED <<conf, key, cert, overlapped, accepted, given>>
  BY DEF Join, inviter
<1>2. cl[j].allow = "INVITE_DATA" /\ j \notin accepted
  BY <1>0 DEF Base, Flow
<1>3. cl'[j].allow = "INVITE_DATA" /\ \A i \in Joins \ {j} : cl'[i] = cl[i]
  BY <1>0, <1>2 DEF Base, Types, Clients
<1>4. ASSUME NEW e \in Daemons, key[e] # None
      PROVE key[e] \in Joins \ {j} /\ cl[key[e]].on = e /\ cl[key[e]].allow # "INVITE_DATA"
  BY SMTT(20), <1>2, <1>4 DEF Keys, Base, Types
<1>5. \A e \in Daemons : key'[e] # None => cl'[key'[e]].on = e /\ cl'[key'[e]].allow # "INVITE_DATA"
  BY Zenon, <1>1, <1>3, <1>4
<1>6. \A i \in Joins : cl'[i].state = "open" /\ cl'[i].allow = "INVITE_CERT" /\ cl'[i].on \notin overlapped'
                        => key'[cl'[i].on] = i
  BY Zenon, <1>1, <1>3 DEF Keys
<1>7. KeyCertified'
  BY <1>1, <1>3, <1>4 DEF Keys, KeyCertified
<1>8. \A e \in Daemons : conf'[e] # None => \E i \in accepted' : cl'[i].on = e /\ given'[i].ip = conf'[e]
  <2>1. accepted \subseteq Joins \ {j}
    BY Zenon, <1>2 DEF Base, Types
  <2> QED BY <1>1, <1>3, <2>1 DEF Keys
<1> QED BY <1>5, <1>6, <1>7, <1>8 DEF Keys

(* The key written with the request is that of the join it is sent for. *)
LEMMA InviteDataKeys ==
  ASSUME Base, Keys, NEW j \in Joins, InviteData(j)
  PROVE  Keys'
<1>0. PICK d : d = cl[j].on
  OBVIOUS
<1>1. /\ UNCHANGED <<given, accepted, cert>>
      /\ wire[j].kind = "INVITE_DATA" /\ cl[j].state = "open" /\ cl[j].allow = "INVITE_DATA"
      /\ conf' = IF given[j].ip = None THEN conf ELSE [conf EXCEPT ![d] = given[j].ip]
      /\ key' = [key EXCEPT ![d] = j]
      /\ cl' = [cl EXCEPT ![j].allow = "INVITE_CERT"]
      /\ overlapped' = IF Awaiting(d) = {} THEN overlapped ELSE overlapped \cup {d}
  BY <1>0 DEF InviteData, inviter, SavedKey
<1>2. Flow(j) /\ d \in Daemons /\ j \in accepted /\ given[j] \in Gifts /\ accepted \subseteq Joins
  BY <1>0, <1>1 DEF Base, Flow, Types
<1>3. key'[d] = j /\ \A e \in Daemons \ {d} : key'[e] = key[e]
  BY <1>1, <1>2 DEF Base, Types
<1>4. /\ \A i \in Joins \ {j} : cl'[i] = cl[i]
      /\ cl'[j].on = d /\ cl'[j].state = "open" /\ cl'[j].allow = "INVITE_CERT"
  BY <1>0, <1>1 DEF Base, Types, Clients
<1>5. ASSUME NEW e \in Daemons, key[e] # None
      PROVE key[e] \in Joins \ {j} /\ cl[key[e]].on = e /\ cl[key[e]].allow # "INVITE_DATA"
  BY SMTT(20), <1>1, <1>5 DEF Keys, Base, Types
<1>6. \A e \in Daemons : key'[e] # None => cl'[key'[e]].on = e /\ cl'[key'[e]].allow # "INVITE_DATA"
  BY <1>2, <1>3, <1>4, <1>5
<1>7. ASSUME NEW i \in Joins, cl'[i].state = "open", cl'[i].allow = "INVITE_CERT", cl'[i].on \notin overlapped'
      PROVE  key'[cl'[i].on] = i
  <2>1. CASE i = j
    BY <1>3, <1>4, <2>1
  <2>2. CASE i # j
    <3>1. cl'[i] = cl[i] /\ cl[i].on \notin overlapped /\ key[cl[i].on] = i
      BY <1>1, <1>4, <1>7, <2>2 DEF Keys
    <3>2. ASSUME cl[i].on = d PROVE FALSE
      <4>1. cl[i] = [on |-> d, state |-> "open", allow |-> "INVITE_CERT"]
        BY <1>7, <3>1, <3>2 DEF Base, Types, Clients
      <4>2. Awaiting(d) # {}
        BY Zenon, <4>1 DEF Awaiting
      <4> QED BY <1>1, <1>7, <3>1, <3>2, <4>2
    <3>3. cl[i].on \in Daemons
      BY <1>7, <3>1 DEF Base, Flow
    <3> QED BY <1>3, <3>1, <3>2, <3>3
  <2> QED BY <2>1, <2>2
<1>8. KeyCertified'
  <2> SUFFICES ASSUME NEW e \in Daemons \ overlapped', cert'[e] # None
               PROVE  key'[e] = cert'[e] \/ (key'[e] # None /\ cl'[key'[e]].allow # "done")
    BY DEF KeyCertified
  <2>1. CASE e = d
    BY <1>3, <1>4, <2>1, NoneAssumption
  <2>2. CASE e # d
    <3>1. e \in Daemons \ overlapped /\ key'[e] = key[e] /\ cert'[e] = cert[e]
      BY Zenon, <1>1, <1>3, <2>2
    <3>2. key[e] = cert[e] \/ (key[e] # None /\ cl[key[e]].allow # "done")
      BY <3>1 DEF Keys, KeyCertified
    <3> QED BY <1>4, <1>5, <3>1, <3>2
  <2> QED BY <2>1, <2>2
<1>9. ASSUME NEW e \in Daemons, conf'[e] # None
      PROVE  \E i \in accepted' : cl'[i].on = e /\ given'[i].ip = conf'[e]
  <2>1. CASE conf'[e] = conf[e]
    <3>1. PICK i \in accepted : cl[i].on = e /\ given[i].ip = conf[e]
      BY <1>9, <2>1 DEF Keys
    <3>2. cl'[i].on = e
      BY <1>0, <1>2, <1>4, <3>1
    <3> QED BY Zenon, <1>1, <2>1, <3>1, <3>2
  <2>2. CASE conf'[e] # conf[e]
    <3>1. e = d /\ conf'[e] = given[j].ip
      BY Zenon, <1>1, <1>2, <2>2 DEF Base, Types
    <3> QED BY <1>1, <1>2, <1>4, <3>1
  <2> QED BY <2>1, <2>2
<1> QED BY <1>6, <1>7, <1>8, <1>9 DEF Keys

(* The certificate goes with the key that was on disk when it was asked for,  *)
(* unless joins overlap.                                                      *)
LEMMA InviteCertKeys ==
  ASSUME Base, Keys, NEW j \in Joins, InviteCert(j)
  PROVE  Keys'
<1>0. PICK d : d = cl[j].on
  OBVIOUS
<1>1. /\ UNCHANGED <<given, accepted, conf, key, overlapped>>
      /\ cl[j].state = "open" /\ cl[j].allow = "INVITE_CERT"
      /\ cert' = [cert EXCEPT ![d] = j] /\ cl' = [cl EXCEPT ![j].allow = "done"]
  BY <1>0 DEF InviteCert, inviter
<1>2. d \in Daemons /\ accepted \subseteq Joins
  BY <1>0, <1>1 DEF Base, Flow, Types
<1>3. cert'[d] = j /\ \A e \in Daemons \ {d} : cert'[e] = cert[e]
  BY <1>1, <1>2 DEF Base, Types
<1>4. /\ \A i \in Joins \ {j} : cl'[i] = cl[i]
      /\ cl'[j].on = d /\ cl'[j].allow = "done"
  BY <1>0, <1>1 DEF Base, Types, Clients
<1>5. ASSUME NEW e \in Daemons, key[e] # None
      PROVE key[e] \in Joins /\ cl[key[e]].on = e /\ cl[key[e]].allow # "INVITE_DATA"
  BY <1>1, <1>5 DEF Keys, Base, Types
<1>6. \A e \in Daemons : key'[e] # None => cl'[key'[e]].on = e /\ cl'[key'[e]].allow # "INVITE_DATA"
  BY <1>0, <1>1, <1>4, <1>5
<1>7. \A i \in Joins : cl'[i].state = "open" /\ cl'[i].allow = "INVITE_CERT" /\ cl'[i].on \notin overlapped'
                        => key'[cl'[i].on] = i
  BY <1>1, <1>4 DEF Keys
<1>8. KeyCertified'
  <2> SUFFICES ASSUME NEW e \in Daemons \ overlapped', cert'[e] # None
               PROVE  key'[e] = cert'[e] \/ (key'[e] # None /\ cl'[key'[e]].allow # "done")
    BY DEF KeyCertified
  <2>1. CASE e = d
    BY <1>0, <1>1, <1>3, <2>1 DEF Keys
  <2>2. CASE e # d
    <3>1. e \in Daemons \ overlapped /\ key'[e] = key[e] /\ cert'[e] = cert[e]
      BY <1>1, <1>3, <2>2
    <3>2. key[e] = cert[e] \/ (key[e] # None /\ cl[key[e]].allow # "done")
      BY <3>1 DEF Keys, KeyCertified
    <3>3. key[e] # None => key[e] # j
      BY <1>0, <1>5, <2>2
    <3> QED BY <1>4, <1>5, <3>1, <3>2, <3>3
  <2> QED BY <2>1, <2>2
<1>9. \A e \in Daemons : conf'[e] # None => \E i \in accepted' : cl'[i].on = e /\ given'[i].ip = conf'[e]
  <2>1. \A i \in Joins : cl'[i].on = cl[i].on
    BY Zenon, <1>0, <1>4
  <2> QED BY <1>1, <1>2, <2>1 DEF Keys
<1> QED BY <1>6, <1>7, <1>8, <1>9 DEF Keys

-----------------------------------------------------------------------------
(* Who holds a token. *)

(* A step that leaves the invitations and the accepted joins alone. *)
LEMMA OneUseStays ==
  ASSUME Base, OneUse, UNCHANGED <<inv, accepted, given, issued>>,
         creating' # None => creating # None /\ creating'.token = creating.token,
         \A j \in Joins : srv[j]'.at = "validating" => srv[j].at = "validating",
         raced => raced', expired \subseteq expired'
  PROVE  OneUse'
<1>1. Held' \subseteq Held
  BY Zenon DEF Held
<1> QED BY <1>1 DEF OneUse

(* cmd_invite draws a fresh token. *)
LEMMA CreateOneUse ==
  ASSUME Base, OneUse, NEW n \in Names, NEW t \in Tokens, CreateInvitation(n, t)
  PROVE  OneUse'
<1>1. /\ UNCHANGED <<issued, srv, given, accepted, raced, expired>> /\ t \notin issued
      /\ inv' = [u \in Tokens |-> IF u \in expired THEN None ELSE inv[u]]
      /\ creating'.token = t
  BY Zenon DEF CreateInvitation, rest
<1>2. \A j \in Held : j \in Joins /\ given[j].token \in Tokens
  BY Zenon DEF Held, Base, Types, Flow
<1>3. Held' = Held
  BY Zenon, <1>1 DEF Held
<1>4. ASSUME ~raced'
      PROVE  /\ \A i, j \in Held' : i # j => given'[i].token # given'[j].token
             /\ \A j \in accepted' : inv'[given'[j].token] = None
             /\ \A j \in Joins : srv'[j].at = "validating" /\ given'[j].token \notin expired' =>
                  inv'[given'[j].token] # None /\ inv'[given'[j].token].ip = given'[j].ip
  <2>1. \A i, j \in Held' : i # j => given'[i].token # given'[j].token
    BY Zenon, <1>1, <1>3, <1>4 DEF OneUse
  <2>2. \A j \in accepted' : inv'[given'[j].token] = None
    BY Zenon, <1>1, <1>2, <1>4 DEF OneUse, Held
  <2>3. \A j \in Joins : srv'[j].at = "validating" /\ given'[j].token \notin expired' =>
                  inv'[given'[j].token] # None /\ inv'[given'[j].token].ip = given'[j].ip
    BY <1>1, <1>2, <1>4 DEF OneUse, Held
  <2> QED BY Zenon, <2>1, <2>2, <2>3
<1> QED BY <1>1, <1>4 DEF OneUse

(* The file of an invitation is written before its token is known. *)
LEMMA CheckInvitationsOneUse ==
  ASSUME Base, OneUse, CheckInvitations
  PROVE  OneUse'
<1>1. UNCHANGED <<srv, given, accepted, raced, expired>> /\ creating \in Creations /\ creating # None
  BY DEF CheckInvitations, rest, Base, Types
<1>2. CASE creating.ip # None /\ UsedInInvitations(creating.ip)
  <2>1. UNCHANGED <<inv, issued>> /\ creating'.token = creating.token
    BY Zenon, <1>1, <1>2 DEF CheckInvitations, Creations
  <2> QED BY <1>1, <2>1, OneUseStays
<1>3. CASE ~(creating.ip # None /\ UsedInInvitations(creating.ip))
  <2>1. /\ inv' = [inv EXCEPT ![creating.token] = Entry(creating.name, creating.ip)] /\ creating' = None
    BY <1>3 DEF CheckInvitations
  <2>2. creating.token \notin issued
    BY Zenon, <1>1 DEF OneUse
  <2>3. \A j \in Held : j \in Joins /\ given[j].token \in Tokens /\ given[j].token \in issued
    BY DEF Held, Base, Types, Flow
  <2>4. \A u \in Tokens : u # creating.token => inv'[u] = inv[u]
    BY Zenon, <2>1 DEF Base, Types
  <2>5. \A j \in Held : inv'[given[j].token] = inv[given[j].token]
    BY <2>2, <2>3, <2>4
  <2>6. Held' = Held
    BY <1>1 DEF Held
  <2>7. ASSUME ~raced'
        PROVE  /\ \A i, j \in Held' : i # j => given'[i].token # given'[j].token
               /\ \A j \in accepted' : inv'[given'[j].token] = None
               /\ \A j \in Joins : srv'[j].at = "validating" /\ given'[j].token \notin expired' =>
                    inv'[given'[j].token] # None /\ inv'[given'[j].token].ip = given'[j].ip
    <3>1. \A i, j \in Held' : i # j => given'[i].token # given'[j].token
      BY Zenon, <1>1, <2>6, <2>7 DEF OneUse
    <3>2. \A j \in accepted' : inv'[given'[j].token] = None
      BY Zenon, <1>1, <2>5, <2>7 DEF OneUse, Held
    <3>3. \A j \in Joins : srv'[j].at = "validating" /\ given'[j].token \notin expired' =>
                    inv'[given'[j].token] # None /\ inv'[given'[j].token].ip = given'[j].ip
      BY Zenon, <1>1, <2>5, <2>7 DEF OneUse, Held
    <3> QED BY <3>1, <3>2, <3>3
  <2> QED BY <2>1, <2>7 DEF OneUse
<1> QED BY <1>2, <1>3

(* What validate_invitation_token finds when it reads the file. *)
LEMMA ReadTokenDoes ==
  ASSUME Base, NEW j \in Joins, ReadToken(j)
  PROVE  /\ UNCHANGED <<inv, issued, creating, accepted, expired>> /\ j \notin accepted
         /\ \A i \in Joins \ {j} : srv'[i] = srv[i] /\ given'[i] = given[i]
         /\ raced => raced'
         /\ \/ srv'[j].at = "refused" /\ given' = given
            \/ /\ srv'[j].at = "validating" /\ given'[j].token \in issued
               /\ inv[given'[j].token] # None
               /\ given'[j].ip = inv[given'[j].token].ip
               /\ ~raced' => \A i \in Joins : srv[i].at = "validating" => given[i].token # given'[j].token
<1>0. PICK t : t = wire[j].token
  OBVIOUS
<1>1. /\ UNCHANGED <<inv, issued, creating, accepted, expired>>
      /\ wire[j].kind = "INVITE_JOIN" /\ srv[j].at = "idle" /\ Allowed(j, "INVITE_JOIN")
      /\ IF inv[t] = None
         THEN srv' = [srv EXCEPT ![j].at = "refused"] /\ UNCHANGED given
         ELSE /\ srv' = [srv EXCEPT ![j].at = "validating"]
              /\ given' = [given EXCEPT ![j] = [token |-> t, name |-> inv[t].name, ip |-> inv[t].ip]]
      /\ raced' = (raced \/ \E i \in Joins : srv[i].at = "validating" /\ given[i].token = t)
  BY <1>0 DEF ReadToken, rest, Got
<1>2. t \in issued /\ j \notin accepted
  BY <1>0, <1>1 DEF Base, Flow, Allowed
<1>3. /\ \A i \in Joins \ {j} : srv'[i] = srv[i] 
      /\ srv'[j].at = IF inv[t] = None THEN "refused" ELSE "validating"
  <2>1. "refused" \in Ats /\ "validating" \in Ats /\ Types
    BY DEF Ats, Base
  <2> QED BY <1>1, <2>1, EndMoves
<1>4. CASE inv[t] = None
  BY Zenon, <1>1, <1>2, <1>3, <1>4
<1>5. CASE inv[t] # None
  <2>1. \A i \in Joins \ {j} : given'[i] = given[i]
    BY <1>1, <1>5 DEF Base, Types
  <2>2. given'[j] = [token |-> t, name |-> inv[t].name, ip |-> inv[t].ip]
    BY Zenon, <1>1, <1>5 DEF Base, Types
  <2>3. given'[j].token = t /\ given'[j].ip = inv[t].ip
    BY <2>2
  <2>4. /\ raced => raced'
        /\ ~raced' => \A i \in Joins : srv[i].at = "validating" => given[i].token # t
    BY Zenon, <1>1
  <2> QED BY <1>1, <1>2, <1>3, <1>5, <2>1, <2>3, <2>4
<1> QED BY <1>4, <1>5

(* A second worker that reads the file of a token in use has raced the        *)
(* first.                                                                     *)
LEMMA ReadTokenOneUse ==
  ASSUME Base, OneUse, NEW j \in Joins, ReadToken(j)
  PROVE  OneUse'
<1>1. /\ UNCHANGED <<inv, issued, creating, accepted, expired>> /\ j \notin accepted /\ accepted \subseteq Joins
      /\ \A i \in Joins \ {j} : srv'[i] = srv[i] /\ given'[i] = given[i]
      /\ raced => raced'
  BY Zenon, ReadTokenDoes DEF Base, Types
<1>2. CASE srv'[j].at = "refused" /\ given' = given
  <2>1. \A i \in Joins : srv[i]'.at = "validating" => srv[i].at = "validating"
    BY <1>1, <1>2
  <2> QED BY <1>1, <1>2, <2>1, OneUseStays
<1>3. CASE /\ srv'[j].at = "validating" /\ given'[j].token \in issued
           /\ inv[given'[j].token] # None
           /\ given'[j].ip = inv[given'[j].token].ip
           /\ ~raced' => \A i \in Joins : srv[i].at = "validating" => given[i].token # given'[j].token
  <2>1. Held' = (Held \ {j}) \cup {j}
    BY <1>1, <1>3 DEF Held
  <2>2. ASSUME ~raced' PROVE \A i \in Held \ {j} : given'[i].token # given'[j].token /\ given'[i] = given[i]
    <3> SUFFICES ASSUME NEW i \in Held \ {j} PROVE given[i].token # given'[j].token /\ given'[i] = given[i]
      BY Zenon
    <3>1. i \in Joins /\ given'[i] = given[i]
      BY Zenon, <1>1 DEF Held
    <3>2. CASE i \in accepted
      BY SMTT(20), <1>1, <1>3, <2>2, <3>1, <3>2 DEF OneUse
    <3>3. CASE srv[i].at = "validating"
      BY <1>3, <2>2, <3>1, <3>3
    <3> QED BY <3>1, <3>2, <3>3 DEF Held
  <2>3. ASSUME ~raced'
        PROVE  /\ \A i, k \in Held' : i # k => given'[i].token # given'[k].token
               /\ \A i \in accepted' : inv'[given'[i].token] = None
               /\ \A i \in Joins : srv'[i].at = "validating" /\ given'[i].token \notin expired' =>
                    inv'[given'[i].token] # None /\ inv'[given'[i].token].ip = given'[i].ip
    <3>1. \A i, k \in Held' : i # k => given'[i].token # given'[k].token
      BY SMTT(20), <1>1, <2>1, <2>2, <2>3 DEF OneUse
    <3>2. \A i \in accepted' : inv'[given'[i].token] = None
      BY Zenon, <1>1, <2>3 DEF OneUse
    <3>3. \A i \in Joins : srv'[i].at = "validating" /\ given'[i].token \notin expired' =>
                    inv'[given'[i].token] # None /\ inv'[given'[i].token].ip = given'[i].ip
      BY <1>1, <1>3, <2>3 DEF OneUse
    <3> QED BY Zenon, <3>1, <3>2, <3>3
  <2> QED BY Zenon, <1>1, <2>3 DEF OneUse
<1> QED BY <1>2, <1>3, ReadTokenDoes

(* What it does next, with a token that is held. *)
LEMMA UseTokenDoes ==
  ASSUME Base, NEW j \in Joins, UseToken(j)
  PROVE  /\ UNCHANGED <<given, issued, creating, db, disk, raced, expired>>
         /\ srv[j].at = "validating" /\ j \notin accepted /\ given[j].token \in Tokens /\ given[j].token \in issued
         /\ inv'[given[j].token] = None
         /\ \A u \in Tokens : u # given[j].token => inv'[u] = inv[u]
         /\ srv'[j].at \in {"refused", "idle"} /\ \A i \in Joins \ {j} : srv'[i] = srv[i]
         /\ srv'[j].list = srv[j].list
         /\ \/ UNCHANGED <<wire, accepted>>
            \/ /\ given[j].token \notin expired /\ accepted' = accepted \cup {j}
               /\ wire'[j].kind = "INVITE_DATA" /\ \A i \in Joins \ {j} : wire'[i] = wire[i]
<1>0. PICK t : t = given[j].token
  OBVIOUS
<1>1. /\ UNCHANGED <<given, issued, creating, db, disk, raced, expired>>
      /\ srv[j].at = "validating" /\ inv' = [inv EXCEPT ![t] = None]
      /\ IF t \in expired
         THEN srv' = [srv EXCEPT ![j].at = "refused"] /\ UNCHANGED <<wire, accepted>>
         ELSE /\ srv' = [srv EXCEPT ![j].at = "idle", ![j].allow = "INVITE_CSR"]
              /\ wire' = [wire EXCEPT ![j] = Request("INVITE_DATA")]
              /\ accepted' = accepted \cup {j}
  BY <1>0 DEF UseToken, rest, Unlink
<1>2. t \in Tokens /\ t \in issued /\ j \notin accepted /\ Types
  BY <1>0, <1>1 DEF Base, Flow, Types
<1>3. inv'[t] = None /\ \A u \in Tokens : u # t => inv'[u] = inv[u]
  BY Zenon, <1>1, <1>2 DEF Types
<1>4. /\ \A i \in Joins \ {j} : srv'[i] = srv[i]
      /\ srv'[j].at \in {"refused", "idle"} /\ srv'[j].list = srv[j].list
  <2>1. "refused" \in Ats /\ "idle" \in Ats /\ srv[j].list \in Seq(Entries)
    BY <1>2, EndIs DEF Ats
  <2>2. CASE t \in expired
    BY <1>1, <1>2, <2>1, <2>2, EndMoves
  <2>3. CASE t \notin expired
    <3>1. srv' = [srv EXCEPT ![j].at = "idle", ![j].allow = "INVITE_CSR"]
      BY Zenon, <1>1, <2>3
    <3> QED BY Zenon, <1>2, <3>1, EndAllows
  <2> QED BY <2>2, <2>3
<1>5. \/ UNCHANGED <<wire, accepted>>
      \/ /\ t \notin expired /\ accepted' = accepted \cup {j}
         /\ wire'[j].kind = "INVITE_DATA" /\ \A i \in Joins \ {j} : wire'[i] = wire[i]
  <2>2. CASE t \in expired
    BY <1>1, <2>2
  <2>3. CASE t \notin expired
    <3>1. wire' = [wire EXCEPT ![j] = Request("INVITE_DATA")] /\ accepted' = accepted \cup {j}
      BY Zenon, <1>1, <2>3
    <3>2. wire \in [Joins -> Requests]
      BY Zenon, <1>2 DEF Types
    <3>3. wire'[j] = Request("INVITE_DATA") /\ \A i \in Joins \ {j} : wire'[i] = wire[i]
      BY Zenon, <3>1, <3>2
    <3>4. Request("INVITE_DATA").kind = "INVITE_DATA"
      BY Zenon DEF Request
    <3> QED BY Zenon, <2>3, <3>1, <3>3, <3>4
  <2> QED BY Zenon, <2>2, <2>3
<1> QED BY <1>0, <1>1, <1>2, <1>3, <1>4, <1>5

(* The worker that unlinks the file is the only one that held the token,      *)
(* unless one has raced it.                                                   *)
LEMMA UseTokenOneUse ==
  ASSUME Base, OneUse, NEW j \in Joins, UseToken(j)
  PROVE  OneUse'
<1>1. /\ UNCHANGED <<given, issued, creating, raced, expired>>
      /\ srv[j].at = "validating" /\ j \notin accepted
      /\ inv'[given[j].token] = None
      /\ \A u \in Tokens : u # given[j].token => inv'[u] = inv[u]
      /\ srv'[j].at # "validating" /\ \A i \in Joins \ {j} : srv'[i] = srv[i]
      /\ accepted' = accepted \/ accepted' = accepted \cup {j}
  BY Zenon, UseTokenDoes
<1>2. Held' \subseteq Held /\ j \in Held
  BY <1>1 DEF Held
<1>3. \A i \in Held : i \in Joins /\ given[i].token \in Tokens
  BY Zenon DEF Held, Base, Types, Flow
<1>4. ASSUME ~raced'
      PROVE  /\ \A i, k \in Held' : i # k => given'[i].token # given'[k].token
             /\ \A i \in accepted' : inv'[given'[i].token] = None
             /\ \A i \in Joins : srv'[i].at = "validating" /\ given'[i].token \notin expired' =>
                  inv'[given'[i].token] # None /\ inv'[given'[i].token].ip = given'[i].ip
  <2>1. \A i, k \in Held : i # k => given[i].token # given[k].token
    BY Zenon, <1>1, <1>4 DEF OneUse
  <2>2. \A i \in Held \ {j} : inv'[given[i].token] = inv[given[i].token]
    BY Zenon, <1>1, <1>2, <1>3, <2>1
  <2>3. \A i \in accepted' : inv'[given'[i].token] = None
    BY SMTT(20), <1>1, <1>4, <2>2 DEF OneUse, Held
  <2>4. \A i \in Joins : srv'[i].at = "validating" /\ given'[i].token \notin expired' =>
                  inv'[given'[i].token] # None /\ inv'[given'[i].token].ip = given'[i].ip
    BY <1>1, <1>4, <2>2 DEF OneUse, Held
  <2> QED BY <1>1, <1>2, <2>1, <2>3, <2>4
<1> QED BY <1>1, <1>4 DEF OneUse

-----------------------------------------------------------------------------
(* The lists of hosts. *)

(* A join that has an entry is not listed again. *)
LEMMA KnownGrows ==
  ASSUME \A k \in Joins : Past(k) => Past(k)' /\ EntryOf(k)' = EntryOf(k)
  PROVE  Known \subseteq Known'
BY SMTT(20) DEF Known

(* A step that leaves the lists, and the handlers of INVITE_CSR, alone. *)
LEMMA QuietLists ==
  ASSUME Base, Lists, Entered, UNCHANGED <<db, disk, torn>>, raced => raced', accepted \subseteq accepted',
         \A j \in accepted : given[j]' = given[j],
         \A j \in Joins :
           /\ srv[j]'.list = srv[j].list
           /\ \/ srv[j]'.at = srv[j].at
              \/ {srv[j].at, srv[j]'.at} \subseteq {"idle", "refused", "validating"}
           /\ Past(j) => Past(j)'
           /\ Certified(j)' => Certified(j)
  PROVE  Lists' /\ Entered'
<1>1. \A k \in accepted : EntryOf(k)' = EntryOf(k)
  BY Zenon DEF EntryOf
<1>2. Known \subseteq Known'
  BY Zenon, <1>1, KnownGrows DEF Past
<1>3. Writing' <=> Writing
  BY Zenon DEF Writing
<1>4. \A j \in Joins : srv[j]'.at \in {"listing", "linking"} <=> srv[j].at \in {"listing", "linking"}
  OBVIOUS
<1>5. \A j \in Joins : srv[j]'.at = "linking" <=> srv[j].at = "linking"
  BY Zenon, SMTT(20)
<1>6. Lists'
  <2>1. Range(db') \subseteq Known' /\ Range(disk') \subseteq Known'
    BY Zenon, <1>2 DEF Lists
  <2>2. \A j \in Joins : Range(srv[j]'.list) \subseteq Known'
    BY Zenon, <1>2 DEF Lists
  <2>3. ~Writing' => Range(disk') = Range(db')
    BY Zenon, <1>3 DEF Lists
  <2>4. ~raced' => \A j \in Joins : srv[j]'.at = "linking" =>
          /\ srv[j]'.list = db'
          /\ \A i \in Joins : srv[i]'.at = "linking" => i = j
    BY Zenon, <1>5 DEF Lists
  <2> QED BY Zenon, <2>1, <2>2, <2>3, <2>4 DEF Lists
<1>7. Entered'
  <2> SUFFICES ASSUME ~raced', ~torn', NEW j \in Joins, Certified(j)', srv[j]'.at \notin {"listing", "linking"}
               PROVE  Renamed(j)' \/ EntryOf(j)' \in Range(db')
    BY Zenon DEF Entered
  <2>1. Certified(j) /\ ~raced /\ ~torn
    BY Zenon
  <2>0. srv[j].at \notin {"listing", "linking"}
    BY Zenon, <1>4
  <2>2. j \in accepted
    BY Zenon, <2>1 DEF Base, Flow, Certified
  <2>3. Renamed(j) \/ EntryOf(j) \in Range(db)
    BY Zenon, <2>0, <2>1 DEF Entered
  <2>4. Renamed(j) => Renamed(j)'
    BY Zenon, <2>2 DEF Renamed
  <2> QED BY Zenon, <1>1, <2>2, <2>3, <2>4
<1> QED BY Zenon, <1>6, <1>7

(* The answer is sent before the host is listed: the worker is then at        *)
(* hosts_json_find.                                                           *)
LEMMA InviteCsrLists ==
  ASSUME Base, Lists, Entered, NEW j \in Joins, InviteCsr(j)
  PROVE  Lists' /\ Entered'
<1>1. /\ UNCHANGED <<db, disk, given, accepted, cl, torn, raced>>
      /\ wire[j].kind = "INVITE_CSR" /\ srv[j].at = "idle"
      /\ wire' = [wire EXCEPT ![j] = Request("INVITE_CERT")] /\ srv' = [srv EXCEPT ![j].at = "listing"]
  BY DEF InviteCsr, joiner, rest, Signed, Got
<1>2. \A i \in Joins \ {j} : wire'[i] = wire[i]
  BY <1>1 DEF Base, Types
<1>3. /\ \A i \in Joins \ {j} : srv'[i] = srv[i]
      /\ srv'[j].at = "listing" /\ srv'[j].list = srv[j].list
  <2>1. "listing" \in Ats /\ Types
    BY DEF Ats, Base
  <2> QED BY Zenon, <1>1, <2>1, EndMoves
<1>4. \A k \in Joins : Past(k) => Past(k)' /\ EntryOf(k)' = EntryOf(k)
  BY <1>1, <1>2, <1>3 DEF Past, EntryOf
<1>5. Known \subseteq Known'
  BY Zenon, <1>4, KnownGrows
<1>6. Writing'
  BY Zenon, <1>3 DEF Writing
<1>7. Lists'
  <2>1. Range(db') \subseteq Known' /\ Range(disk') \subseteq Known'
    BY Zenon, <1>1, <1>5 DEF Lists
  <2>2. \A i \in Joins : Range(srv'[i].list) \subseteq Known'
    BY <1>3, <1>5 DEF Lists
  <2>3. ~raced' => \A i \in Joins : srv'[i].at = "linking" =>
          /\ srv'[i].list = db'
          /\ \A k \in Joins : srv'[k].at = "linking" => k = i
    BY <1>1, <1>3 DEF Lists
  <2> QED BY <1>6, <2>1, <2>2, <2>3 DEF Lists
<1>8. Entered'
  <2> SUFFICES ASSUME ~raced', ~torn', NEW i \in Joins, Certified(i)', srv'[i].at \notin {"listing", "linking"}
               PROVE  Renamed(i)' \/ EntryOf(i)' \in Range(db')
    BY DEF Entered
  <2>1. i # j /\ Certified(i) /\ srv[i].at \notin {"listing", "linking"}
    BY <1>1, <1>2, <1>3 DEF Certified
  <2>2. Renamed(i) \/ EntryOf(i) \in Range(db)
    BY <1>1, <2>1 DEF Entered
  <2> QED BY Zenon, <1>1, <2>2 DEF Renamed, EntryOf
<1> QED BY <1>7, <1>8

(* A join takes an entry over: an earlier join had the name. *)
LEMMA RenewLists ==
  ASSUME Base, Lists, Entered, NEW j \in Joins, FindHost(j), Listed(db, given[j].name)
  PROVE  Lists' /\ Entered'
<1>1. /\ UNCHANGED <<disk, given, accepted, cl, wire, torn, raced>> /\ srv[j].at = "listing"
      /\ db' = Named(db, given[j].name, given[j].ip)
  BY Zenon DEF FindHost, joiner, rest
<1>2. Flow(j) /\ j \in accepted /\ Types /\ given[j] \in Gifts
  BY Zenon, <1>1 DEF Base, Flow
<1>3. PICK n \in Names, a \in Addresses : n = given[j].name /\ a = given[j].ip
  BY <1>2 DEF Gifts
<1>4. /\ srv'[j].at = "listed"
      /\ \A i \in Joins : /\ srv'[i].list = Named(srv[i].list, n, a)
                          /\ i # j => srv'[i].at = srv[i].at
  BY Zenon, <1>2, <1>3, SharedEnds
<1>5. \A k \in Joins : Past(k) => Past(k)' /\ EntryOf(k)' = EntryOf(k)
  BY <1>1, <1>4 DEF Past, EntryOf
<1>6. Known \subseteq Known'
  BY <1>5, KnownGrows
<1>7. Entry(n, a) \in Known'
  <2>1. Past(j)'
    BY Zenon, <1>1, <1>2, <1>4 DEF Past, Flow
  <2>2. EntryOf(j)' = Entry(n, a)
    BY Zenon, <1>1, <1>3 DEF EntryOf
  <2> QED BY Zenon, <2>1, <2>2 DEF Known
<1>8. ASSUME NEW l \in Seq(Entries), Range(l) \subseteq Known PROVE Range(Named(l, n, a)) \subseteq Known'
  BY SMTT(20), <1>6, <1>7, <1>8, Renewed
<1>9. Writing'
  BY <1>4 DEF Writing
<1>10. Lists'
  <2>1. Range(db') \subseteq Known' /\ Range(disk') \subseteq Known'
    BY Zenon, <1>1, <1>2, <1>3, <1>6, <1>8 DEF Lists, Types
  <2>2. \A i \in Joins : Range(srv'[i].list) \subseteq Known'
    BY Zenon, <1>2, <1>4, <1>8, EndIs DEF Lists
  <2>3. ~raced' => \A i \in Joins : srv'[i].at = "linking" =>
          /\ srv'[i].list = db'
          /\ \A k \in Joins : srv'[k].at = "linking" => k = i
    BY <1>1, <1>3, <1>4 DEF Lists
  <2> QED BY Zenon, <1>9, <2>1, <2>2, <2>3 DEF Lists
<1>11. Renamed(j)
  <2>1. PICK e \in Range(db) : e.name = given[j].name
    BY Zenon, <1>2, Found DEF Types
  <2>2. PICK k \in Joins : Past(k) /\ e = EntryOf(k)
    BY Zenon, <2>1 DEF Lists, Known
  <2>3. k \in accepted /\ k # j /\ given[k].name = given[j].name
    BY Zenon, <1>1, <2>1, <2>2 DEF Past, EntryOf, Entry
  <2> QED BY Zenon, <2>3 DEF Renamed
<1>12. Entered'
  <2> SUFFICES ASSUME ~raced', ~torn', NEW i \in Joins, Certified(i)', srv'[i].at \notin {"listing", "linking"}
               PROVE  Renamed(i)' \/ EntryOf(i)' \in Range(db')
    BY Zenon, SMTT(20) DEF Entered
  <2>1. CASE i = j
    BY Zenon, <1>1, <1>11, <2>1 DEF Renamed
  <2>2. CASE i # j
    <3>1. Certified(i) /\ srv[i].at \notin {"listing", "linking"}
      BY Zenon, <1>1, <1>4, <2>2 DEF Certified
    <3>2. Renamed(i) \/ EntryOf(i) \in Range(db)
      BY Zenon, <1>1, <3>1 DEF Entered
    <3>3. given[i].name = n => Renamed(i)
      BY Zenon, <1>2, <1>3, <2>2 DEF Renamed
    <3>4. EntryOf(i).name = given[i].name
      BY DEF EntryOf, Entry
    <3>5. Renamed(i) \/ EntryOf(i) \in Range(db')
      BY Zenon, <1>1, <1>2, <1>3, <3>2, <3>3, <3>4, Renewed DEF Types
    <3> QED BY Zenon, <1>1, <3>5 DEF Renamed, EntryOf
  <2> QED BY <2>1, <2>2
<1> QED BY <1>10, <1>12

(* A host that was not found is about to be linked to the list that was       *)
(* searched.                                                                  *)
LEMMA LinkLists ==
  ASSUME Base, Lists, Entered, NEW j \in Joins, FindHost(j), ~Listed(db, given[j].name)
  PROVE  Lists' /\ Entered'
<1>1. /\ UNCHANGED <<db, disk, given, accepted, cl, wire, torn>> /\ srv[j].at = "listing"
      /\ srv' = [srv EXCEPT ![j].at = "linking", ![j].list = db]
      /\ raced' = (raced \/ \E i \in Joins : srv[i].at = "linking")
  BY DEF FindHost, joiner, rest
<1>2. Types
  BY DEF Base
<1>3. /\ \A i \in Joins \ {j} : srv'[i] = srv[i]
      /\ srv'[j].at = "linking" /\ srv'[j].list = db
  <2>1. "linking" \in Ats /\ srv[j].allow \in {"ID", "INVITE_CSR"} /\ db \in Seq(Entries)
    BY Zenon, <1>2, EndIs DEF Ats, Types
  <2> QED BY Zenon, <1>1, <1>2, <2>1, EndChanges
<1>4. ~raced' => ~raced /\ \A i \in Joins : srv[i].at # "linking"
  BY Zenon, <1>1
<1>5. \A k \in Joins : Past(k) => Past(k)' /\ EntryOf(k)' = EntryOf(k)
  BY Zenon, <1>1, <1>3 DEF Past, EntryOf
<1>6. Known \subseteq Known'
  BY <1>5, KnownGrows
<1>7. Writing'
  BY Zenon, <1>3 DEF Writing
<1>8. Lists'
  <2>1. Range(db') \subseteq Known' /\ Range(disk') \subseteq Known'
    BY Zenon, <1>1, <1>6 DEF Lists
  <2>2. \A i \in Joins : Range(srv'[i].list) \subseteq Known'
    BY Zenon, <1>3, <1>6 DEF Lists
  <2>3. ~raced' => \A i \in Joins : srv'[i].at = "linking" =>
          /\ srv'[i].list = db'
          /\ \A k \in Joins : srv'[k].at = "linking" => k = i
    <3>1. db' = db /\ (~raced' => \A i \in Joins \ {j} : srv'[i].at # "linking")
      BY Zenon, <1>1, <1>3, <1>4
    <3> QED BY <1>3, <3>1
  <2> QED BY Zenon, <1>7, <2>1, <2>2, <2>3 DEF Lists
<1>9. Entered'
  <2> SUFFICES ASSUME ~raced', ~torn', NEW i \in Joins, Certified(i)', srv'[i].at \notin {"listing", "linking"}
               PROVE  Renamed(i)' \/ EntryOf(i)' \in Range(db')
    BY DEF Entered
  <2>1. i # j /\ Certified(i) /\ srv[i].at \notin {"listing", "linking"}
    BY Zenon, <1>1, <1>3 DEF Certified
  <2>2. Renamed(i) \/ EntryOf(i) \in Range(db)
    BY <1>1, <1>4, <2>1 DEF Entered
  <2> QED BY Zenon, <1>1, <2>2 DEF Renamed, EntryOf
<1> QED BY <1>8, <1>9

(* A new entry is linked in front of the list that was read: under ~raced,   *)
(* of the list as it is.                                                     *)
LEMMA AddLists ==
  ASSUME Base, Lists, Entered, NEW j \in Joins, AddHost(j)
  PROVE  Lists' /\ Entered'
<1>1. /\ UNCHANGED <<disk, given, accepted, cl, wire, torn, raced>> /\ srv[j].at = "linking"
      /\ db' = <<EntryOf(j)>> \o srv[j].list
  BY DEF AddHost, joiner, rest, EntryOf
<1>2. Flow(j) /\ j \in accepted /\ Types /\ given[j] \in Gifts
  BY Zenon, <1>1 DEF Base, Flow
<1>3. EntryOf(j) \in Entries
  BY Zenon, <1>2 DEF EntryOf, Entry, Entries, Gifts
<1>4. /\ \A i \in Joins \ {j} : srv'[i] = srv[i]
      /\ srv'[j].at = "listed" /\ srv'[j].list = <<>>
  <2>1. PICK L : L = Seq(Entries)
    BY SMTT(20)
  <2>2. srv \in [Joins -> [at : Ats, allow : {"ID", "INVITE_CSR"}, list : L]]
    BY Zenon, <1>2, <2>1 DEF Types, Ends
  <2>3. srv' = [srv EXCEPT ![j].at = "listed", ![j].list = <<>>]
    BY Zenon DEF AddHost
  <2> QED BY ONLY <2>2, <2>3, j \in Joins
<1>5. Range(db') = {EntryOf(j)} \cup Range(srv[j].list) /\ Range(<<>>) = {}
  <2>0. srv[j].list \in Seq(Entries)
    BY Zenon, <1>2, EndIs
  <2>1. PICK e \in Entries, l \in Seq(Entries) : e = EntryOf(j) /\ l = srv[j].list
    BY Zenon, <1>3, <2>0
  <2>2. db' = <<e>> \o l
    BY <1>1, <2>1
  <2>3. Range(<<e>> \o l) = {e} \cup Range(l)
    BY Consed
  <2>4. Range(db') = {EntryOf(j)} \cup Range(srv[j].list)
    BY <2>1, <2>2, <2>3
  <2>5. Range(<<>>) = {}
    BY SMTT(20) DEF Range
  <2> QED BY <2>4, <2>5
<1>6. \A k \in Joins : Past(k) => Past(k)' /\ EntryOf(k)' = EntryOf(k)
  BY <1>1, <1>4 DEF Past, EntryOf
<1>7. Known \subseteq Known' /\ EntryOf(j) \in Known'
  <2>1. Past(j)' /\ EntryOf(j)' = EntryOf(j)
    BY <1>1, <1>2, <1>4 DEF Past, Flow, EntryOf
  <2>2. EntryOf(j) \in Known'
    BY Zenon, <2>1 DEF Known
  <2>3. Known \subseteq Known'
    BY <1>6, KnownGrows
  <2> QED BY Zenon, <2>2, <2>3
<1>8. Lists'
  <2>1. Range(db') \subseteq Known' /\ Range(disk') \subseteq Known'
    BY Zenon, <1>1, <1>5, <1>7 DEF Lists
  <2>2. \A i \in Joins : Range(srv'[i].list) \subseteq Known'
    BY Zenon, <1>4, <1>5, <1>7 DEF Lists
  <2>3. ~raced' => \A i \in Joins : srv'[i].at # "linking"
    BY Zenon, <1>1, <1>4 DEF Lists
  <2>4. Writing'
    BY <1>4 DEF Writing
  <2> QED BY Zenon, <2>1, <2>2, <2>3, <2>4 DEF Lists
<1>9. Entered'
  <2> SUFFICES ASSUME ~raced', ~torn', NEW i \in Joins, Certified(i)', srv'[i].at \notin {"listing", "linking"}
               PROVE  Renamed(i)' \/ EntryOf(i)' \in Range(db')
    BY DEF Entered
  <2>1. CASE i = j
    BY Zenon, <1>1, <1>5, <2>1 DEF EntryOf
  <2>2. CASE i # j
    <3>1. Certified(i) /\ srv[i].at \notin {"listing", "linking"}
      BY <1>1, <1>4, <2>2 DEF Certified
    <3>2. Renamed(i) \/ EntryOf(i) \in Range(db)
      BY Zenon, <1>1, <3>1 DEF Entered
    <3>3. srv[j].list = db
      BY Zenon, <1>1 DEF Lists
    <3>4. Renamed(i) \/ EntryOf(i) \in Range(db')
      BY <1>5, <3>2, <3>3
    <3> QED BY Zenon, <1>1, <3>4 DEF Renamed, EntryOf
  <2> QED BY Zenon, <2>1, <2>2
<1> QED BY <1>8, <1>9

(* hosts_db_save *)
LEMMA SaveLists ==
  ASSUME Base, Lists, Entered, NEW j \in Joins, OpenHosts(j) \/ SaveHosts(j)
  PROVE  Lists' /\ Entered'
<1>1. /\ UNCHANGED <<db, given, accepted, cl, wire, torn, raced>>
      /\ \/ srv[j].at = "listed" /\ disk' = <<>> /\ srv' = [srv EXCEPT ![j].at = "saving"]
         \/ srv[j].at = "saving" /\ disk' = db /\ srv' = [srv EXCEPT ![j].at = "idle"]
  BY Zenon DEF OpenHosts, SaveHosts, joiner, rest
<1>2. Flow(j) /\ j \in accepted /\ Types
  BY <1>1 DEF Base, Flow
<1>3. /\ \A i \in Joins \ {j} : srv'[i] = srv[i]
      /\ srv'[j].list = srv[j].list /\ srv[j].at \in {"listed", "saving"}
      /\ \/ srv'[j].at = "saving" /\ disk' = <<>>
         \/ srv'[j].at = "idle" /\ disk' = db
  <2>1. "saving" \in Ats /\ "idle" \in Ats
    BY DEF Ats
  <2> QED BY <1>1, <1>2, <2>1, EndMoves
<1>4. UNCHANGED <<db, given, accepted, cl, wire, torn, raced>>
  BY <1>1
<1>5. \A k \in Joins : Past(k) => Past(k)' /\ EntryOf(k)' = EntryOf(k)
  BY Zenon, <1>3, <1>4 DEF Past, EntryOf
<1>6. Known \subseteq Known'
  BY Zenon, <1>5, KnownGrows
<1>7. Lists'
  <2>1. Range(<<>>) = {}
    BY SMTT(20) DEF Range
  <2>2. Range(db') \subseteq Known' /\ Range(disk') \subseteq Known'
    BY Zenon, <1>3, <1>4, <1>6, <2>1 DEF Lists
  <2>3. \A i \in Joins : Range(srv'[i].list) \subseteq Known'
    BY Zenon, <1>3, <1>6 DEF Lists
  <2>4. ~raced' => \A i \in Joins : srv'[i].at = "linking" =>
          /\ srv'[i].list = db'
          /\ \A k \in Joins : srv'[k].at = "linking" => k = i
    BY Zenon, <1>3, <1>4 DEF Lists
  <2>5. ~Writing' => disk' = db'
    BY <1>3, <1>4 DEF Writing
  <2> QED BY <2>2, <2>3, <2>4, <2>5 DEF Lists
<1>8. Entered'
  <2> SUFFICES ASSUME ~raced', ~torn', NEW i \in Joins, Certified(i)', srv'[i].at \notin {"listing", "linking"}
               PROVE  Renamed(i)' \/ EntryOf(i)' \in Range(db')
    BY Zenon DEF Entered
  <2>1. Certified(i) /\ srv[i].at \notin {"listing", "linking"}
    BY Zenon, <1>3, <1>4 DEF Certified
  <2>2. Renamed(i) \/ EntryOf(i) \in Range(db)
    BY Zenon, <1>4, <2>1 DEF Entered
  <2> QED BY Zenon, <1>4, <2>2 DEF Renamed, EntryOf
<1> QED BY <1>7, <1>8

(* What the inviter finds after a restart is what it had, unless a handler   *)
(* of INVITE_CSR was running.                                                *)
LEMMA RestartDoes ==
  ASSUME Base, Restart
  PROVE  /\ UNCHANGED <<inv, expired, issued, disk, given, accepted, raced, conf, key, cert, overlapped>>
         /\ db' \in Seq(Entries) /\ Range(db') = Range(disk) /\ creating' = None
         /\ \A j \in Joins : /\ srv'[j].at = IF cl[j].state = "none" THEN "idle" ELSE "refused"
                             /\ srv'[j].list = <<>> /\ wire'[j].kind = "none"
                             /\ cl'[j].on = cl[j].on /\ cl'[j].allow = cl[j].allow /\ cl'[j].state # "open"
         /\ (torn => torn') /\ (Writing => torn')
<1>1. /\ UNCHANGED <<inv, expired, issued, disk, given, accepted, raced, conf, key, cert, overlapped>>
      /\ db' = Reverse(disk) /\ creating' = None
  BY Zenon DEF Restart
<1>2. db' \in Seq(Entries) /\ Range(db') = Range(disk)
  BY <1>1, Reversed DEF Base, Types
<1>3. \A j \in Joins : srv'[j].at = (IF cl[j].state = "none" THEN "idle" ELSE "refused") /\ srv'[j].list = <<>>
  BY DEF Restart, NoEnd
<1>4. \A j \in Joins : wire'[j].kind = "none"
  BY DEF Restart, Silent, Request
<1>5. \A j \in Joins : cl'[j].on = cl[j].on /\ cl'[j].allow = cl[j].allow /\ cl'[j].state # "open"
  <2>1. cl' = [j \in Joins |-> IF cl[j].state = "open" THEN [cl[j] EXCEPT !.state = "closed"] ELSE cl[j]]
    BY DEF Restart
  <2> QED BY <2>1 DEF Base, Types, Clients
<1>6. torn' = (torn \/ Writing)
  BY DEF Restart
<1>7. (torn => torn') /\ (Writing => torn')
  BY Zenon, <1>6
<1> QED BY Zenon, <1>1, <1>2, <1>3, <1>4, <1>5, <1>7

(* After a restart the list is what the file holds. *)
LEMMA RestartLists ==
  ASSUME Base, Lists, Entered, Restart
  PROVE  Lists' /\ Entered'
<1>1. /\ UNCHANGED <<disk, given, accepted, raced>>
      /\ Range(db') = Range(disk)
      /\ \A j \in Joins : /\ srv'[j].at = IF cl[j].state = "none" THEN "idle" ELSE "refused"
                          /\ srv'[j].list = <<>> /\ wire'[j].kind = "none" /\ cl'[j].allow = cl[j].allow
      /\ (torn => torn') /\ (Writing => torn')
  BY Zenon, RestartDoes
<1>2. \A k \in Joins : Past(k) => Past(k)' /\ EntryOf(k)' = EntryOf(k)
  BY Zenon, <1>1 DEF Past, EntryOf
<1>3. Known \subseteq Known'
  BY Zenon, <1>2, KnownGrows
<1>4. Lists'
  <2>1. Range(<<>>) = {}
    BY SMTT(20) DEF Range
  <2>2. Range(db') \subseteq Known' /\ Range(disk') \subseteq Known'
    BY Zenon, <1>1, <1>3 DEF Lists
  <2>3. \A i \in Joins : Range(srv'[i].list) \subseteq Known' /\ srv'[i].at # "linking"
    BY <1>1, <2>1
  <2> QED BY Zenon, <1>1, <2>2, <2>3 DEF Lists
<1>5. Entered'
  <2> SUFFICES ASSUME ~raced', ~torn', NEW i \in Joins, Certified(i)', srv'[i].at \notin {"listing", "linking"}
               PROVE  Renamed(i)' \/ EntryOf(i)' \in Range(db')
    BY SMTT(20) DEF Entered
  <2>1. Certified(i) /\ ~torn /\ ~Writing /\ ~raced
    BY Zenon, <1>1 DEF Certified
  <2>2. srv[i].at \notin {"listing", "linking"}
    BY <2>1 DEF Writing
  <2>3. Renamed(i) \/ EntryOf(i) \in Range(db)
    BY Zenon, <2>1, <2>2 DEF Entered
  <2>4. Range(db') = Range(db)
    BY Zenon, <1>1, <2>1 DEF Lists
  <2> QED BY Zenon, <1>1, <2>3, <2>4 DEF Renamed, EntryOf
<1> QED BY <1>4, <1>5

-----------------------------------------------------------------------------
(* Where an address is reserved. *)

(* The watch kept on the addresses. *)
LEMMA Watched ==
  ASSUME Watch
  PROVE  (crossed => crossed') /\ (creating' # None /\ ~crossed' => Saved')
<1>1. crossed' = (crossed \/ (creating' # None /\ Adrift # {}))
  BY DEF Watch
<1>2. (crossed => crossed') /\ (creating' # None /\ ~crossed' => Adrift = {})
  BY Zenon, <1>1
<1> QED BY <1>2 DEF Adrift, Saved

(* A step that creates no invitation, and in which no token is used. *)
LEMMA ReservedStays ==
  ASSUME Reserved, UNCHANGED <<inv, accepted>>, \A j \in accepted : given[j]' = given[j],
         creating' = creating \/ creating' = None,
         creating' # None /\ ~crossed' => Saved',
         crossed => crossed', raced => raced',
         ~crossed' /\ ~raced' /\ Saved' => \A a \in Pool : Holds(disk', a) => Holds(db', a)
  PROVE  Reserved'
<1>1. ASSUME ~crossed', ~raced'
      PROVE
       /\ \A i, j \in accepted' : i # j /\ given'[i].ip # None => given'[i].ip # given'[j].ip
       /\ \A t, u \in Tokens : t # u /\ inv'[t] # None /\ inv'[u] # None /\ inv'[t].ip # None =>
            inv'[t].ip # inv'[u].ip
       /\ \A t \in Tokens, j \in accepted' : inv'[t] # None /\ inv'[t].ip # None => inv'[t].ip # given'[j].ip
       /\ creating' # None /\ creating'.free => \A j \in accepted' : given'[j].ip # creating'.ip
  BY SMTT(20), <1>1 DEF Reserved
<1> QED BY Zenon, <1>1 DEF Reserved

(* With the lists as they are, too. *)
LEMMA QuietReserved ==
  ASSUME Reserved, UNCHANGED <<inv, accepted, creating, db, disk>>, \A j \in accepted : given[j]' = given[j],
         crossed => crossed', raced => raced'
  PROVE  Reserved'
<1>1. Saved' <=> Saved
  BY Zenon DEF Saved
<1>2. creating' # None /\ ~crossed' => Saved'
  BY <1>1 DEF Reserved
<1>3. ~crossed' /\ ~raced' /\ Saved' => \A a \in Pool : Holds(disk', a) => Holds(db', a)
  BY Zenon, <1>1 DEF Reserved
<1> QED BY Zenon, <1>2, <1>3, ReservedStays

(* Candidates are counted from a list that has every accepted address,        *)
(* unless a join crosses.                                                     *)
LEMMA CreateReserved ==
  ASSUME Base, Reserved, NEW n \in Names, NEW t \in Tokens, CreateInvitation(n, t)
  PROVE  Reserved'
<1>1. /\ UNCHANGED <<db, disk, given, accepted, raced>> /\ ~creating'.free
      /\ inv' = [u \in Tokens |-> IF u \in expired THEN None ELSE inv[u]]
  BY Zenon DEF CreateInvitation
<1>2. Watch
  BY DEF CreateInvitation
<1>3. \A u \in Tokens : inv'[u] # None => inv'[u] = inv[u]
  BY <1>1
<1>4. Saved' <=> Saved
  BY <1>1 DEF Saved
<1>5. ASSUME ~crossed', ~raced'
      PROVE
       /\ \A i, j \in accepted' : i # j /\ given'[i].ip # None => given'[i].ip # given'[j].ip
       /\ \A s, u \in Tokens : s # u /\ inv'[s] # None /\ inv'[u] # None /\ inv'[s].ip # None =>
            inv'[s].ip # inv'[u].ip
       /\ \A u \in Tokens, j \in accepted' : inv'[u] # None /\ inv'[u].ip # None => inv'[u].ip # given'[j].ip
       /\ Saved' => \A a \in Pool : Holds(disk', a) => Holds(db', a)
  <2>1. ~crossed /\ ~raced /\ UNCHANGED <<db, disk, given, accepted>>
    BY <1>1, <1>2, <1>5, Watched
  <2>2. \A i, j \in accepted' : i # j /\ given'[i].ip # None => given'[i].ip # given'[j].ip
    BY Zenon, <2>1 DEF Reserved
  <2>3. ASSUME NEW s \in Tokens, NEW u \in Tokens, s # u, inv'[s] # None, inv'[u] # None, inv'[s].ip # None
        PROVE  inv'[s].ip # inv'[u].ip
    <3>1. inv'[s] = inv[s] /\ inv'[u] = inv[u]
      BY Zenon, <1>3, <2>3
    <3> QED BY Zenon, <2>1, <2>3, <3>1 DEF Reserved
  <2>4. ASSUME NEW u \in Tokens, NEW j \in accepted', inv'[u] # None, inv'[u].ip # None
        PROVE  inv'[u].ip # given'[j].ip
    <3>1. inv'[u] = inv[u] /\ j \in accepted /\ given'[j] = given[j]
      BY Zenon, <1>3, <2>1, <2>4
    <3> QED BY Zenon, <2>1, <2>4, <3>1 DEF Reserved
  <2>5. Saved' => \A a \in Pool : Holds(disk', a) => Holds(db', a)
    BY Zenon, <1>4, <2>1 DEF Reserved
  <2> QED BY Zenon, <2>2, <2>3, <2>4, <2>5
<1> QED BY Zenon, <1>1, <1>2, <1>5, Watched DEF Reserved

(* A candidate that is free in hosts_db is free for all accepted joins. *)
LEMMA CheckHostsReserved ==
  ASSUME Base, Reserved, CheckHosts
  PROVE  Reserved'
<1>1. /\ UNCHANGED <<inv, db, disk, given, accepted, raced>> /\ creating \in Creations
      /\ creating # None /\ creating.ip # None /\ ~creating.free
      /\ creating' = IF Holds(db, creating.ip) THEN [creating EXCEPT !.ip = NextCandidate(creating.ip)]
                     ELSE [creating EXCEPT !.free = TRUE]
  BY DEF CheckHosts, Base, Types
<1>2. (crossed => crossed') /\ (creating' # None /\ ~crossed' => Saved')
  BY Watched DEF CheckHosts
<1>3. creating.ip \in Pool
  BY <1>1 DEF Creations, Addresses
<1>4. creating'.free => ~Holds(db, creating.ip) /\ creating'.ip = creating.ip
  BY <1>1 DEF Creations
<1>5. Saved' <=> Saved
  BY <1>1 DEF Saved
<1>6. UNCHANGED <<inv, db, disk, given, accepted, raced>>
  BY <1>1
<1>7. ASSUME ~crossed', ~raced'
      PROVE
       /\ \A i, j \in accepted' : i # j /\ given'[i].ip # None => given'[i].ip # given'[j].ip
       /\ \A t, u \in Tokens : t # u /\ inv'[t] # None /\ inv'[u] # None /\ inv'[t].ip # None =>
            inv'[t].ip # inv'[u].ip
       /\ \A t \in Tokens, j \in accepted' : inv'[t] # None /\ inv'[t].ip # None => inv'[t].ip # given'[j].ip
       /\ Saved' => \A a \in Pool : Holds(disk', a) => Holds(db', a)
  BY Zenon, <1>2, <1>5, <1>6, <1>7 DEF Reserved
<1>8. ASSUME ~crossed', ~raced', creating' # None, creating'.free, NEW j \in accepted'
      PROVE  given'[j].ip # creating'.ip
  <2>1. Saved /\ ~crossed /\ ~raced
    BY <1>2, <1>5, <1>6, <1>8
  <2>2. Holds(disk, given[j].ip)
    BY Zenon, <1>6, <2>1 DEF Saved
  <2>3. given[j].ip \in Pool => Holds(db, given[j].ip)
    BY <2>1, <2>2 DEF Reserved
  <2> QED BY <1>3, <1>4, <1>6, <1>8, <2>3
<1> QED BY Zenon, <1>2, <1>7, <1>8 DEF Reserved

(* The address written to an invitation is in no other one, and was free.    *)
LEMMA CheckInvitationsReserved ==
  ASSUME Base, Reserved, CheckInvitations
  PROVE  Reserved'
<1>1. /\ UNCHANGED <<db, disk, given, accepted, raced>> /\ creating \in Creations /\ creating # None
      /\ creating.ip = None \/ creating.free
  BY DEF CheckInvitations, Base, Types
<1>2. (crossed => crossed') /\ (creating' # None /\ ~crossed' => Saved')
  BY Watched DEF CheckInvitations
<1>3. Saved' <=> Saved
  BY Zenon, <1>1 DEF Saved
<1>4. CASE creating.ip # None /\ UsedInInvitations(creating.ip)
  <2>1. UNCHANGED inv /\ ~creating'.free
    BY Zenon, <1>1, <1>4 DEF CheckInvitations, Creations
  <2>2. ASSUME ~crossed', ~raced'
        PROVE
         /\ \A i, j \in accepted' : i # j /\ given'[i].ip # None => given'[i].ip # given'[j].ip
         /\ \A t, u \in Tokens : t # u /\ inv'[t] # None /\ inv'[u] # None /\ inv'[t].ip # None =>
              inv'[t].ip # inv'[u].ip
         /\ \A t \in Tokens, j \in accepted' : inv'[t] # None /\ inv'[t].ip # None => inv'[t].ip # given'[j].ip
         /\ Saved' => \A a \in Pool : Holds(disk', a) => Holds(db', a)
    BY Zenon, <1>1, <1>2, <1>3, <2>1, <2>2 DEF Reserved
  <2> QED BY Zenon, <1>2, <2>1, <2>2 DEF Reserved
<1>5. CASE ~(creating.ip # None /\ UsedInInvitations(creating.ip))
  <2>0. PICK t \in Tokens, a \in Addresses : t = creating.token /\ a = creating.ip
    BY <1>1 DEF Creations
  <2>1. inv' = [inv EXCEPT ![t] = Entry(creating.name, a)] /\ creating' = None
    BY Zenon, <1>5, <2>0 DEF CheckInvitations
  <2>2. inv'[t].ip = a /\ \A u \in Tokens \ {t} : inv'[u] = inv[u]
    BY Zenon, <2>1 DEF Base, Types, Entry
  <2>3. ASSUME a # None, NEW u \in Tokens, inv[u] # None PROVE inv[u].ip # a
    BY <1>5, <2>0, <2>3 DEF UsedInInvitations, Mentions
  <2>4. ASSUME ~crossed', ~raced', a # None, NEW j \in accepted PROVE given[j].ip # a
    BY Zenon, <1>1, <1>2, <2>0, <2>4 DEF Reserved
  <2>5. ASSUME ~crossed', ~raced'
        PROVE
         /\ \A i, j \in accepted' : i # j /\ given'[i].ip # None => given'[i].ip # given'[j].ip
         /\ \A s, u \in Tokens : s # u /\ inv'[s] # None /\ inv'[u] # None /\ inv'[s].ip # None =>
              inv'[s].ip # inv'[u].ip
         /\ \A u \in Tokens, j \in accepted' : inv'[u] # None /\ inv'[u].ip # None => inv'[u].ip # given'[j].ip
         /\ Saved' => \A b \in Pool : Holds(disk', b) => Holds(db', b)
    <3>0. ~crossed /\ ~raced /\ UNCHANGED <<db, disk, given, accepted>>
      BY <1>1, <1>2, <2>5
    <3>1. \A i, j \in accepted' : i # j /\ given'[i].ip # None => given'[i].ip # given'[j].ip
      BY Zenon, <3>0 DEF Reserved
    <3>2. ASSUME NEW s \in Tokens, NEW u \in Tokens, s # u, inv'[s] # None, inv'[u] # None, inv'[s].ip # None
          PROVE  inv'[s].ip # inv'[u].ip
      <4>1. CASE s # t /\ u # t
        BY Zenon, <2>2, <3>0, <3>2, <4>1 DEF Reserved
      <4>2. CASE s = t
        BY Zenon, <2>2, <2>3, <3>2, <4>2
      <4>3. CASE u = t
        BY Zenon, <2>2, <2>3, <3>2, <4>3
      <4> QED BY <4>1, <4>2, <4>3
    <3>3. ASSUME NEW u \in Tokens, NEW j \in accepted', inv'[u] # None, inv'[u].ip # None
          PROVE  inv'[u].ip # given'[j].ip
      <4>1. CASE u = t
        BY Zenon, <2>2, <2>4, <2>5, <3>0, <3>3, <4>1
      <4>2. CASE u # t
        BY Zenon, <2>2, <3>0, <3>3, <4>2 DEF Reserved
      <4> QED BY <4>1, <4>2
    <3>4. Saved' => \A b \in Pool : Holds(disk', b) => Holds(db', b)
      BY Zenon, <1>3, <3>0 DEF Reserved
    <3> QED BY Zenon, <3>1, <3>2, <3>3, <3>4
  <2> QED BY Zenon, <2>1, <2>5 DEF Reserved
<1> QED BY <1>4, <1>5

(* The address of an invitation becomes the one of a join. *)
LEMMA UseTokenReserved ==
  ASSUME Base, Lists, OneUse, Reserved, NEW j \in Joins, UseToken(j)
  PROVE  Reserved'
<1>0. PICK t \in Tokens : t = given[j].token
  BY Zenon, UseTokenDoes
<1>1. /\ UNCHANGED <<given, creating, db, disk, raced, expired>>
      /\ srv[j].at = "validating" /\ j \notin accepted /\ inv'[t] = None
      /\ \A u \in Tokens : u # t => inv'[u] = inv[u]
      /\ \/ accepted' = accepted
         \/ t \notin expired /\ accepted' = accepted \cup {j}
  BY <1>0, UseTokenDoes
<1>2. (crossed => crossed') /\ (creating' # None /\ ~crossed' => Saved')
  BY Zenon, Watched DEF UseToken
<1>3. \A u \in Tokens : inv'[u] # None => u # t /\ inv'[u] = inv[u]
  BY Zenon, <1>1
<1>4. Saved' => Saved
  BY <1>1 DEF Saved
<1>5. ASSUME ~crossed', ~raced'
      PROVE
       /\ \A i, k \in accepted' : i # k /\ given'[i].ip # None => given'[i].ip # given'[k].ip
       /\ \A s, u \in Tokens : s # u /\ inv'[s] # None /\ inv'[u] # None /\ inv'[s].ip # None =>
            inv'[s].ip # inv'[u].ip
       /\ \A u \in Tokens, k \in accepted' : inv'[u] # None /\ inv'[u].ip # None => inv'[u].ip # given'[k].ip
       /\ creating' # None /\ creating'.free => \A k \in accepted' : given'[k].ip # creating'.ip
       /\ Saved' => \A a \in Pool : Holds(disk', a) => Holds(db', a)
  <2>0. ~crossed /\ ~raced /\ UNCHANGED <<given, creating, db, disk>>
    BY Zenon, <1>1, <1>2, <1>5
  <2>1. ASSUME NEW s \in Tokens, NEW u \in Tokens, s # u, inv'[s] # None, inv'[u] # None, inv'[s].ip # None
        PROVE  inv'[s].ip # inv'[u].ip
    <3>1. inv'[s] = inv[s] /\ inv'[u] = inv[u]
      BY Zenon, <1>3, <2>1
    <3> QED BY Zenon, <2>0, <2>1, <3>1 DEF Reserved
  <2>2. Saved' => \A a \in Pool : Holds(disk', a) => Holds(db', a)
    BY Zenon, <1>4, <2>0 DEF Reserved
  <2>3. CASE accepted' = accepted
    <3>1. \A i, k \in accepted' : i # k /\ given'[i].ip # None => given'[i].ip # given'[k].ip
      BY Zenon, <2>0, <2>3 DEF Reserved
    <3>2. ASSUME NEW u \in Tokens, NEW k \in accepted', inv'[u] # None, inv'[u].ip # None
          PROVE  inv'[u].ip # given'[k].ip
      <4>1. inv'[u] = inv[u] /\ k \in accepted /\ given'[k] = given[k]
        BY Zenon, <1>3, <2>0, <2>3, <3>2
      <4> QED BY Zenon, <2>0, <3>2, <4>1 DEF Reserved
    <3>3. creating' # None /\ creating'.free => \A k \in accepted' : given'[k].ip # creating'.ip
      BY Zenon, <2>0, <2>3 DEF Reserved
    <3> QED BY Zenon, <2>1, <2>2, <3>1, <3>2, <3>3
  <2>4. CASE t \notin expired /\ accepted' = accepted \cup {j}
    <3>1. inv[t] # None /\ inv[t].ip = given[j].ip
      BY Zenon, <1>0, <1>1, <2>0, <2>4 DEF OneUse
    <3>2. \A i \in accepted : given[j].ip # None => given[j].ip # given[i].ip
      BY Zenon, <2>0, <3>1 DEF Reserved
    <3>3. ASSUME NEW i \in accepted', NEW k \in accepted', i # k, given'[i].ip # None
          PROVE  given'[i].ip # given'[k].ip
      <4>1. \A m \in accepted' : m \in accepted \/ m = j
        BY Zenon, <2>4
      <4>2. CASE i \in accepted /\ k \in accepted
        BY Zenon, <2>0, <3>3, <4>2 DEF Reserved
      <4>3. CASE i = j \/ k = j
        BY Zenon, <2>0, <3>2, <3>3, <4>1, <4>3
      <4> QED BY Zenon, <4>1, <4>2, <4>3
    <3>4. \A u \in Tokens, k \in accepted' : inv'[u] # None /\ inv'[u].ip # None => inv'[u].ip # given'[k].ip
      <4>1. \A u \in Tokens, k \in accepted : inv'[u] # None /\ inv'[u].ip # None => inv'[u].ip # given[k].ip
        BY Zenon, <1>3, <2>0 DEF Reserved
      <4>2. \A u \in Tokens : inv'[u] # None /\ inv'[u].ip # None => inv'[u].ip # given[j].ip
        BY Zenon, <1>3, <2>0, <3>1 DEF Reserved
      <4> QED BY <2>0, <2>4, <4>1, <4>2
    <3>5. ASSUME creating' # None, creating'.free, NEW k \in accepted' PROVE given'[k].ip # creating'.ip
      <4>1. \A i \in accepted : given[i].ip # creating.ip
        BY Zenon, <2>0, <3>5 DEF Reserved
      <4>2. CASE k \in accepted
        BY Zenon, <2>0, <4>1, <4>2
      <4>3. CASE k = j
        <5>1. Holds(disk, given[j].ip) /\ disk \in Seq(Entries)
          BY <1>2, <1>5, <2>0, <3>5, <4>3 DEF Saved, Base, Types
        <5>2. PICK e \in Range(disk) : e.ip = given[j].ip
          BY Zenon, <5>1, Found
        <5>3. PICK i \in Joins : Past(i) /\ e = EntryOf(i)
          BY Zenon, <5>2 DEF Lists, Known
        <5>4. i \in accepted /\ given[i].ip = given[j].ip
          <6>1. EntryOf(i).ip = given[i].ip
            BY Zenon DEF EntryOf, Entry
          <6> QED BY Zenon, <5>2, <5>3, <6>1 DEF Past
        <5> QED BY Zenon, <2>0, <4>1, <4>3, <5>4
      <4> QED BY Zenon, <2>4, <4>2, <4>3
    <3> QED BY Zenon, <2>1, <2>2, <3>3, <3>4, <3>5
  <2> QED BY Zenon, <1>1, <2>3, <2>4
<1> QED BY Zenon, <1>2, <1>5 DEF Reserved

(* A join that takes an entry over has an address that is not yet saved. *)
LEMMA FindHostReserved ==
  ASSUME Base, Lists, Reserved, NEW j \in Joins, FindHost(j)
  PROVE  Reserved'
<1>1. UNCHANGED <<inv, creating, disk, given, accepted>> /\ srv[j].at = "listing"
  BY Zenon DEF FindHost
<1>2. (crossed => crossed') /\ (creating' # None /\ ~crossed' => Saved')
  BY Zenon, Watched DEF FindHost
<1>3. j \in accepted /\ given[j] \in Gifts /\ db \in Seq(Entries) /\ disk \in Seq(Entries)
  BY Zenon, <1>1 DEF Base, Flow, Types
<1>4. raced => raced'
  <2>1. raced' = raced \/ raced' = (raced \/ \E i \in Joins : srv[i].at = "linking")
    BY Zenon DEF FindHost
  <2> QED BY Zenon, <2>1
<1>5. Saved' <=> Saved
  BY Zenon, <1>1 DEF Saved
<1>6. ASSUME ~crossed', ~raced', Saved', NEW a \in Pool, Holds(disk', a) PROVE Holds(db', a)
  <2>1. ~crossed /\ ~raced /\ Saved /\ Holds(disk, a)
    BY Zenon, <1>1, <1>2, <1>4, <1>5, <1>6
  <2>2. Holds(db, a)
    BY Zenon, <2>1 DEF Reserved
  <2>3. given[j].ip = None
    <3> SUFFICES ASSUME given[j].ip # None PROVE FALSE
      BY Zenon
    <3>1. Holds(disk, given[j].ip)
      BY <1>3, <2>1 DEF Saved
    <3>2. PICK e \in Range(disk) : e.ip = given[j].ip
      BY Zenon, <1>3, <3>1, Found
    <3>3. PICK i \in Joins : Past(i) /\ e = EntryOf(i)
      BY Zenon, <3>2 DEF Lists, Known
    <3>4. i \in accepted /\ i # j /\ given[i].ip = given[j].ip
      BY Zenon, <1>1, <3>2, <3>3 DEF Past, EntryOf, Entry
    <3> QED BY Zenon, <1>3, <2>1, <3>4 DEF Reserved
  <2>4. CASE Listed(db, given[j].name)
    <3>1. PICK n \in Names : n = given[j].name
      BY Zenon, <1>3 DEF Gifts
    <3>2. db' = Named(db, n, None) /\ None \in Addresses
      BY Zenon, <2>3, <2>4, <3>1 DEF FindHost, Addresses
    <3>3. db' = db
      BY <1>3, <3>2, Renewed
    <3> QED BY <2>2, <3>3
  <2>5. CASE ~Listed(db, given[j].name)
    <3>1. db' = db
      BY Zenon, <2>5 DEF FindHost
    <3> QED BY <2>2, <3>1
  <2> QED BY <2>4, <2>5
<1> QED BY Zenon, <1>1, <1>2, <1>4, <1>6, ReservedStays

(* Adding the host, truncating the file and writing it keep an accepted       *)
(* address reserved.                                                          *)
LEMMA ListReserved ==
  ASSUME Base, Lists, Reserved, NEW j \in Joins, AddHost(j) \/ OpenHosts(j) \/ SaveHosts(j)
  PROVE  Reserved'
<1>1. UNCHANGED <<inv, creating, given, accepted, raced>> /\ Watch
  BY DEF AddHost, OpenHosts, SaveHosts
<1>2. (crossed => crossed') /\ (creating' # None /\ ~crossed' => Saved')
  BY <1>1, Watched
<1>3. ASSUME ~crossed', ~raced', Saved', NEW a \in Pool, Holds(disk', a) PROVE Holds(db', a)
  <2>1. CASE AddHost(j)
    <3>1. /\ srv[j].at = "linking" /\ disk' = disk
          /\ db' = <<EntryOf(j)>> \o srv[j].list
      BY <2>1 DEF AddHost, EntryOf
    <3>2. srv[j].list = db /\ ~crossed /\ Saved /\ ~raced
      BY Zenon, <1>1, <1>2, <1>3, <3>1 DEF Lists, Saved
    <3>3. Holds(db, a)
      BY Zenon, <1>3, <3>1, <3>2 DEF Reserved
    <3>4. PICK e \in Entries, l \in Seq(Entries) : e = EntryOf(j) /\ l = db
      <4>1. given[j] \in Gifts /\ db \in Seq(Entries)
        BY Zenon, <3>1 DEF Base, Flow, Types
      <4>2. EntryOf(j) \in Entries
        BY Zenon, <4>1 DEF EntryOf, Entry, Entries, Gifts
      <4> QED BY <4>1, <4>2
    <3>5. db' = <<e>> \o l
      BY Zenon, <3>1, <3>2, <3>4
    <3>6. Range(<<e>> \o l) = {e} \cup Range(l) /\ <<e>> \o l \in Seq(Entries)
      BY Consed
    <3>7. Holds(l, a)
      BY <3>3, <3>4
    <3>8. PICK m \in Seq(Entries) : m = <<e>> \o l
      BY Zenon, <3>6
    <3>9. Holds(m, a)
      <4>1. Range(l) \subseteq Range(m)
        BY Zenon, <3>6, <3>8
      <4> QED BY <3>7, <4>1, Found
    <3> QED BY <3>5, <3>8, <3>9
  <2>2. CASE OpenHosts(j)
    <3>1. disk' = <<>>
      BY <2>2 DEF OpenHosts
    <3> QED BY <1>3, <3>1 DEF Holds
  <2>3. CASE SaveHosts(j)
    <3>1. disk' = db /\ db' = db
      BY Zenon, <2>3 DEF SaveHosts
    <3> QED BY <1>3, <3>1
  <2> QED BY <2>1, <2>2, <2>3
<1> QED BY <1>1, <1>2, <1>3, ReservedStays

(* A restart ends the creation that was under way and reads the file. *)
LEMMA RestartReserved ==
  ASSUME Base, Reserved, Restart
  PROVE  Reserved'
<1>1. /\ UNCHANGED <<inv, disk, given, accepted, raced>>
      /\ db' \in Seq(Entries) /\ Range(db') = Range(disk) /\ creating' = None
  BY RestartDoes
<1>2. (crossed => crossed') /\ (creating' # None /\ ~crossed' => Saved')
  BY Zenon, Watched DEF Restart
<1>3. \A a \in Pool : Holds(disk', a) => Holds(db', a)
  <2>1. disk \in Seq(Entries)
    BY DEF Base, Types
  <2>2. PICK l \in Seq(Entries) : l = db'
    BY Zenon, <1>1
  <2>3. \A a : Holds(disk, a) => Holds(l, a)
    BY <1>1, <2>1, <2>2, Found
  <2> QED BY Zenon, <1>1, <2>2, <2>3
<1> QED BY Zenon, <1>1, <1>2, <1>3, ReservedStays

-----------------------------------------------------------------------------
(* The steps, one after the other. *)

(* What a joiner does. *)
LEMMA JoinerKeeps ==
  ASSUME IInv, NEW j \in Joins,
         (\E d \in Daemons, t \in Tokens : Join(j, d, t)) \/ InviteData(j) \/ InviteCert(j) \/ Timeout(j)
  PROVE  IInv'
<1>1. Base /\ Keys /\ Lists /\ Entered /\ OneUse /\ Reserved /\ Flow(j)
  BY DEF IInv, Base
<1>2. UNCHANGED <<inv, issued, creating, db, disk, srv, given, accepted, raced, expired, torn, crossed>>
  BY Zenon DEF Join, InviteData, InviteCert, Timeout, inviter, rest
<1>3. Base'
  BY <1>1, JoinBase, InviteDataBase, InviteCertBase, TimeoutBase
<1>4. /\ \A i \in Joins \ {j} : cl'[i] = cl[i] /\ wire'[i] = wire[i]
      /\ wire'[j].kind \in {"INVITE_DATA", "INVITE_CSR"} => wire[j].kind \in {"INVITE_DATA", "INVITE_CSR"}
      /\ Certified(j)' => Certified(j)
  <2>1. ASSUME NEW d \in Daemons, NEW t \in Tokens, Join(j, d, t)
        PROVE  /\ \A i \in Joins \ {j} : cl'[i] = cl[i] /\ wire'[i] = wire[i]
               /\ wire'[j].kind = "INVITE_JOIN" /\ cl'[j].allow = cl[j].allow
    <3>1. cl' = [cl EXCEPT ![j].on = d, ![j].state = "open"]
      BY <2>1 DEF Join
    <3>2. (\A i \in Joins \ {j} : cl'[i] = cl[i]) /\ cl'[j].allow = cl[j].allow
      BY <1>1, <3>1 DEF Base, Types, Clients
    <3>3. wire' = [wire EXCEPT ![j] = [kind |-> "INVITE_JOIN", token |-> t]]
      BY Zenon, <2>1 DEF Join
    <3>4. (\A i \in Joins \ {j} : wire'[i] = wire[i]) /\ wire'[j].kind = "INVITE_JOIN"
      BY <1>1, <3>3 DEF Base, Types
    <3> QED BY Zenon, <3>2, <3>4
  <2>2. CASE InviteData(j)
    <3>1. cl' = [cl EXCEPT ![j].allow = "INVITE_CERT"] /\ wire' = [wire EXCEPT ![j] = Request("INVITE_CSR")]
          /\ wire[j].kind = "INVITE_DATA"
      BY <2>2 DEF InviteData
    <3>2. (\A i \in Joins \ {j} : cl'[i] = cl[i]) /\ cl'[j].allow = "INVITE_CERT"
      BY <1>1, <3>1 DEF Base, Types, Clients
    <3>3. (\A i \in Joins \ {j} : wire'[i] = wire[i]) /\ wire'[j].kind = "INVITE_CSR"
      BY <1>1, <3>1 DEF Base, Types, Request
    <3> QED BY <3>1, <3>2, <3>3 DEF Certified
  <2>3. CASE InviteCert(j)
    <3>1. cl' = [cl EXCEPT ![j].allow = "done"] /\ wire' = [wire EXCEPT ![j] = Silent]
          /\ wire[j].kind = "INVITE_CERT"
      BY <2>3 DEF InviteCert
    <3>2. \A i \in Joins \ {j} : cl'[i] = cl[i]
      BY <1>1, <3>1 DEF Base, Types
    <3>3. (\A i \in Joins \ {j} : wire'[i] = wire[i]) /\ wire'[j].kind = "none"
      BY <1>1, <3>1 DEF Base, Types, Silent, Request
    <3> QED BY <3>1, <3>2, <3>3 DEF Certified
  <2>4. CASE Timeout(j)
    <3>1. cl' = [cl EXCEPT ![j].state = "closed"]
      BY <2>4 DEF Timeout
    <3>2. (\A i \in Joins \ {j} : cl'[i] = cl[i]) /\ cl'[j].allow = cl[j].allow
      BY <1>1, <3>1 DEF Base, Types, Clients
    <3>3. wire' = [wire EXCEPT ![j] = Silent] \/ wire' = wire
      BY Zenon, <2>4 DEF Timeout
    <3>4. (\A i \in Joins \ {j} : wire'[i] = wire[i]) /\ (wire'[j].kind = "none" \/ wire'[j] = wire[j])
      BY <1>1, <3>3 DEF Base, Types, Silent, Request
    <3> QED BY Zenon, <3>2, <3>4 DEF Certified
  <2> QED BY Zenon, <2>1, <2>2, <2>3, <2>4 DEF Certified
<1>5. Keys'
  <2>1. CASE Timeout(j)
    <3>1. cl' = [cl EXCEPT ![j].state = "closed"] /\ UNCHANGED <<conf, key, cert, overlapped>>
      BY <2>1 DEF Timeout
    <3>2. \A i \in Joins : cl'[i].on = cl[i].on /\ cl'[i].allow = cl[i].allow
                           /\ (cl'[i].state = "open" => cl[i].state = "open")
      BY <1>1, <3>1 DEF Base, Types, Clients
    <3> QED BY <1>1, <1>2, <3>1, <3>2, KeysStay
  <2> QED BY <1>1, <2>1, JoinKeys, InviteDataKeys, InviteCertKeys
<1>6. Lists' /\ Entered'
  <2>1. \A i \in Joins : (Past(i) => Past(i)') /\ (Certified(i)' => Certified(i))
    BY <1>2, <1>4 DEF Past, Certified
  <2> QED BY Zenon, <1>1, <1>2, <2>1, QuietLists
<1>7. OneUse' /\ Reserved'
  BY Zenon, <1>1, <1>2, OneUseStays, QuietReserved
<1> QED BY <1>3, <1>5, <1>6, <1>7 DEF IInv

(* validate_invitation_token *)
LEMMA TokenKeeps ==
  ASSUME IInv, NEW j \in Joins, ReadToken(j) \/ UseToken(j)
  PROVE  IInv'
<1>1. Base /\ Keys /\ Lists /\ Entered /\ OneUse /\ Reserved /\ Flow(j)
  BY DEF IInv, Base
<1>2. UNCHANGED <<db, disk, cl, conf, key, cert, overlapped, torn>>
  BY DEF ReadToken, UseToken, joiner, rest
<1>3. Base'
  BY <1>1, ReadTokenBase, UseTokenBase
<1>4. OneUse'
  BY Zenon, <1>1, ReadTokenOneUse, UseTokenOneUse
<1>5. CASE ReadToken(j)
  <2>1. /\ UNCHANGED <<inv, creating, accepted>> /\ j \notin accepted /\ (raced => raced')
        /\ \A i \in Joins \ {j} : srv'[i] = srv[i] /\ given'[i] = given[i]
        /\ srv'[j].at \in {"refused", "validating"}
    BY Zenon, <1>1, <1>5, ReadTokenDoes
  <2>2. srv[j].at = "idle" /\ srv'[j].list = srv[j].list
    <3>1. srv' = [srv EXCEPT ![j].at = "refused"] \/ srv' = [srv EXCEPT ![j].at = "validating"]
      BY <1>5 DEF ReadToken
    <3>2. "refused" \in Ats /\ "validating" \in Ats /\ Types
      BY <1>1 DEF Ats, Base
    <3>3. srv'[j].list = srv[j].list
      BY Zenon, <3>1, <3>2, EndMoves
    <3> QED BY Zenon, <1>5, <3>3 DEF ReadToken, Got
  <2>3. /\ wire'[j].kind = "none" /\ \A i \in Joins \ {j} : wire'[i] = wire[i]
    <3>1. wire' = [wire EXCEPT ![j] = Silent]
      BY <1>5 DEF ReadToken
    <3> QED BY <1>1, <3>1 DEF Base, Types, Silent, Request
  <2>4. \A i \in accepted : given'[i] = given[i]
    BY Zenon, <1>1, <2>1 DEF Base, Types
  <2>5. Keys'
    BY Zenon, <1>1, <1>2, <2>1, <2>4, KeysStay
  <2>6. Lists' /\ Entered'
    <3>1. \A i \in Joins : (Past(i) => Past(i)') /\ (Certified(i)' => Certified(i))
      BY Zenon, <1>2, <2>1, <2>3 DEF Past, Certified
    <3>2. \A i \in Joins :
            /\ srv'[i].list = srv[i].list
            /\ \/ srv'[i].at = srv[i].at
               \/ {srv[i].at, srv'[i].at} \subseteq {"idle", "refused", "validating"}
      BY <2>1, <2>2
    <3> QED BY Zenon, <1>1, <1>2, <2>1, <2>4, <3>1, <3>2, QuietLists
  <2>7. Reserved'
    <3>1. crossed => crossed'
      BY <1>5, Watched DEF ReadToken
    <3> QED BY Zenon, <1>1, <1>2, <2>1, <2>4, <3>1, QuietReserved
  <2> QED BY <1>3, <1>4, <2>5, <2>6, <2>7 DEF IInv
<1>6. CASE UseToken(j)
  <2>1. /\ UNCHANGED <<given, raced>> /\ accepted \subseteq accepted' /\ srv[j].at = "validating"
        /\ srv'[j].at \in {"refused", "idle"} /\ \A i \in Joins \ {j} : srv'[i] = srv[i] /\ wire'[i] = wire[i]
        /\ srv'[j].list = srv[j].list
        /\ wire'[j] = wire[j] \/ wire'[j].kind = "INVITE_DATA"
    BY Zenon, <1>1, <1>6, UseTokenDoes
  <2>2. Keys'
    BY Zenon, <1>1, <1>2, <2>1, KeysStay
  <2>3. Lists' /\ Entered'
    <3>1. \A i \in Joins : (Past(i) => Past(i)') /\ (Certified(i)' => Certified(i))
      BY Zenon, <1>2, <2>1 DEF Past, Certified
    <3> QED BY Zenon, <1>1, <1>2, <2>1, <3>1, QuietLists
  <2>4. Reserved'
    BY Zenon, <1>1, <1>6, UseTokenReserved
  <2> QED BY <1>3, <1>4, <2>2, <2>3, <2>4 DEF IInv
<1> QED BY <1>5, <1>6

(* invite_csr_h *)
LEMMA CsrKeeps ==
  ASSUME IInv, NEW j \in Joins,
         InviteCsr(j) \/ FindHost(j) \/ AddHost(j) \/ OpenHosts(j) \/ SaveHosts(j)
  PROVE  IInv'
<1>1. Base /\ Keys /\ Lists /\ Entered /\ OneUse /\ Reserved /\ Types
  BY DEF IInv, Base
<1>2. UNCHANGED <<inv, issued, creating, given, accepted, cl, conf, key, cert, overlapped, expired>>
  BY Zenon DEF InviteCsr, FindHost, AddHost, OpenHosts, SaveHosts, joiner, rest
<1>3. Base'
  BY <1>1, InviteCsrBase, FindHostBase, ListBase
<1>4. Keys'
  BY Zenon, <1>1, <1>2, KeysStay
<1>5. Lists' /\ Entered'
  BY <1>1, InviteCsrLists, RenewLists, LinkLists, AddLists, SaveLists
<1>6. raced => raced'
  <2>1. raced' = raced \/ raced' = (raced \/ \E i \in Joins : srv[i].at = "linking")
    BY Zenon DEF InviteCsr, FindHost, AddHost, OpenHosts, SaveHosts
  <2> QED BY Zenon, <2>1
<1>7. OneUse'
  <2>1. \A i \in Joins : srv'[i].at = "validating" => srv[i].at = "validating"
    <3>1. CASE FindHost(j)
      <4>1. CASE Listed(db, given[j].name)
        <5>1. given[j] \in Gifts
          BY Zenon, <1>1, <3>1 DEF Base, Flow, FindHost
        <5>2. srv'[j].at = "listed" /\ \A i \in Joins : i # j => srv'[i].at = srv[i].at
          BY Zenon, <1>1, <3>1, <4>1, <5>1, SharedEnds
        <5> QED BY <5>2
      <4>2. CASE ~Listed(db, given[j].name)
        <5>1. srv' = [srv EXCEPT ![j].at = "linking", ![j].list = db]
          BY <3>1, <4>2 DEF FindHost
        <5> QED BY <1>1, <5>1 DEF Types, Ends
      <4> QED BY Zenon, <4>1, <4>2
    <3>2. CASE AddHost(j)
      <4>1. srv' = [srv EXCEPT ![j].at = "listed", ![j].list = <<>>]
        BY <3>2 DEF AddHost
      <4> QED BY <1>1, <4>1 DEF Types, Ends
    <3>3. CASE InviteCsr(j) \/ OpenHosts(j) \/ SaveHosts(j)
      <4>1. PICK a \in {"listing", "saving", "idle"} : srv' = [srv EXCEPT ![j].at = a]
        BY <3>3 DEF InviteCsr, OpenHosts, SaveHosts, Signed
      <4>2. a \in Ats
        BY Zenon DEF Ats
      <4> QED BY <1>1, <4>1, <4>2, EndMoves
    <3> QED BY Zenon, <3>1, <3>2, <3>3
  <2> QED BY Zenon, <1>1, <1>2, <1>6, <2>1, OneUseStays
<1>8. Reserved'
  <2>1. CASE InviteCsr(j)
    <3>1. UNCHANGED <<db, disk>> /\ (crossed => crossed')
      BY <2>1, Watched DEF InviteCsr
    <3> QED BY <1>1, <1>2, <1>6, <3>1, QuietReserved
  <2> QED BY Zenon, <1>1, <2>1, FindHostReserved, ListReserved
<1> QED BY <1>3, <1>4, <1>5, <1>7, <1>8 DEF IInv

(* A restart of the inviter keeps the inductive invariant. *)
LEMMA RestartKeeps ==
  ASSUME IInv, Restart
  PROVE  IInv'
<1>1. Base /\ Keys /\ Lists /\ Entered /\ OneUse /\ Reserved
  BY DEF IInv
<1>2. Base' /\ Lists' /\ Entered' /\ Reserved'
  BY Zenon, <1>1, RestartBase, RestartLists, RestartReserved
<1>3. /\ UNCHANGED <<inv, expired, issued, given, accepted, raced, conf, key, cert, overlapped>> /\ creating' = None
      /\ \A j \in Joins : /\ srv'[j].at # "validating"
                          /\ cl'[j].on = cl[j].on /\ cl'[j].allow = cl[j].allow /\ cl'[j].state # "open"
  BY <1>1, RestartDoes
<1>4. Keys'
  BY Zenon, <1>1, <1>3, KeysStay
<1>5. OneUse'
  BY Zenon, <1>1, <1>3, OneUseStays
<1> QED BY <1>2, <1>4, <1>5 DEF IInv

LOCAL INSTANCE WellFoundedInduction

(* A nonempty set of natural numbers has a least element. *)
LEMMA Least ==
  ASSUME NEW S, S \subseteq Nat, S # {}
  PROVE  \E n \in S : \A m \in S : n <= m
<1> DEFINE R == OpToRel(<, Nat)
<1>1. IsWellFoundedOn(R, Nat)
  BY NatLessThanWellFounded, Zenon
<1>2. \A m, n \in Nat : <<m, n>> \in R <=> m < n
  BY Zenon DEF OpToRel
<1> HIDE DEF R
<1>3. PICK n \in S : \A m \in S : ~(<<m, n>> \in R)
  BY Zenon, <1>1, WFMin
<1>4. ASSUME NEW m \in S PROVE n <= m
  <2>1. m \in Nat /\ n \in Nat
    OBVIOUS
  <2>2. ~(m < n)
    BY Zenon, <1>2, <1>3, <2>1
  <2> QED BY <2>1, <2>2
<1> QED BY <1>4

(* allocate_vpn_ip tries addresses of the subnet. *)
LEMMA Candidates == FirstCandidate \in Addresses /\ \A a : NextCandidate(a) \in Addresses
<1>1. ASSUME NEW S \in SUBSET Pool, S # {} PROVE Min(S) \in Pool
  <2>1. \E n \in S : \A m \in S : n <= m
    BY Zenon, <1>1, Least, NumbersAssumption
  <2> QED BY <2>1 DEF Min
<1>2. FirstCandidate \in Addresses
  BY <1>1, NumbersAssumption DEF FirstCandidate, Addresses
<1>3. ASSUME NEW a PROVE NextCandidate(a) \in Addresses
  <2> DEFINE S == {b \in Pool : b > a}
  <2>1. S # {} => Min(S) \in Pool
    <3>1. S \in SUBSET Pool
      OBVIOUS
    <3> HIDE DEF S
    <3> QED BY <3>1, <1>1
  <2> QED BY <2>1 DEF NextCandidate, Addresses
<1> QED BY <1>2, <1>3

(* create_invitation does nothing to a join. *)
LEMMA CreateBase ==
  ASSUME Base, (\E n \in Names, t \in Tokens : CreateInvitation(n, t)) \/ CheckHosts \/ CheckInvitations
  PROVE  Base'
<1>1. /\ UNCHANGED <<db, disk, srv, given, accepted, joiner, wire>> /\ issued' \in {issued, issued \cup {creating.token}}
      /\ issued' # issued => creating \in Creations
  BY Zenon DEF CreateInvitation, CheckHosts, CheckInvitations, Base, Types
<1>2. UNCHANGED <<db, disk, srv, given, accepted, cl, conf, knows, key, cert, overlapped, wire>>
  BY <1>1 DEF joiner
<1>3. issued \subseteq issued'
  BY Zenon, <1>1
<1>4. issued' \subseteq Tokens /\ inv' \in [Tokens -> Entries \cup {None}] /\ creating' \in Creations \cup {None}
  <2>1. ASSUME NEW n \in Names, NEW t \in Tokens, CreateInvitation(n, t)
        PROVE issued' = issued /\ inv' \in [Tokens -> Entries \cup {None}] /\ creating' \in Creations
    BY Zenon, <2>1, Candidates DEF CreateInvitation, Creations, Base, Types
  <2>2. CASE CheckHosts
    BY Zenon, <2>2, Candidates DEF CheckHosts, Creations, Base, Types
  <2>3. CASE CheckInvitations
    <3>1. creating \in Creations
      BY Zenon, <2>3 DEF CheckInvitations, Base, Types
    <3>2. Entry(creating.name, creating.ip) \in Entries
      BY <3>1 DEF Entry, Entries, Creations
    <3>3. CASE creating.ip # None /\ UsedInInvitations(creating.ip)
      <4>1. NextCandidate(creating.ip) \in Addresses
        BY Candidates
      <4>2. /\ creating' = [creating EXCEPT !.ip = NextCandidate(creating.ip), !.free = FALSE]
            /\ UNCHANGED <<inv, issued>>
        BY <2>3, <3>3 DEF CheckInvitations
      <4>3. creating' \in Creations
        BY Zenon, <3>1, <4>1, <4>2 DEF Creations
      <4> QED BY <4>2, <4>3 DEF Base, Types
    <3>4. CASE ~(creating.ip # None /\ UsedInInvitations(creating.ip))
      BY Zenon, <2>3, <3>1, <3>2, <3>4 DEF CheckInvitations, Creations, Base, Types
    <3> QED BY <3>3, <3>4
  <2> QED BY <2>1, <2>2, <2>3 DEF Base, Types
<1>5. Types'
  BY <1>2, <1>4 DEF Base, Types
<1>6. \A i \in Joins : Flow(i)'
  BY Zenon, <1>2, <1>3, FlowStays DEF Base
<1> QED BY <1>5, <1>6 DEF Base

(* create_invitation, and the clock. *)
LEMMA CreateKeeps ==
  ASSUME IInv,
         (\E n \in Names, t \in Tokens : CreateInvitation(n, t)) \/ CheckHosts \/ CheckInvitations
         \/ \E t \in Tokens : Expire(t)
  PROVE  IInv'
<1>1. Base /\ Keys /\ Lists /\ Entered /\ OneUse /\ Reserved
  BY DEF IInv
<1>2. UNCHANGED <<db, disk, srv, given, accepted, cl, conf, key, cert, overlapped, wire, torn, raced>>
  BY DEF CreateInvitation, CheckHosts, CheckInvitations, Expire, inviter, joiner, rest
<1>3. Base'
  BY <1>1, CreateBase, ExpireBase
<1>4. Keys'
  BY Zenon, <1>1, <1>2, KeysStay
<1>5. Lists' /\ Entered'
  <2>1. \A j \in Joins : (Past(j) => Past(j)') /\ (Certified(j)' => Certified(j))
    BY Zenon, <1>2 DEF Past, Certified
  <2> QED BY Zenon, <1>1, <1>2, <2>1, QuietLists
<1>6. OneUse'
  <2>1. CASE CheckHosts
    <3>1. UNCHANGED <<inv, accepted, given, issued, expired, raced, srv>> /\ creating # None
      BY Zenon, <2>1 DEF CheckHosts, rest
    <3>2. creating'.token = creating.token
      BY <2>1 DEF CheckHosts, IInv, Base, Types, Creations
    <3> QED BY Zenon, <1>1, <3>1, <3>2, OneUseStays
  <2>2. ASSUME NEW t \in Tokens, Expire(t) PROVE OneUse'
    <3>1. UNCHANGED <<inv, accepted, given, issued, creating, raced, srv>> /\ expired \subseteq expired'
      BY <2>2 DEF Expire, inviter
    <3> QED BY Zenon, <1>1, <3>1, OneUseStays
  <2> QED BY <1>1, <2>1, <2>2, CreateOneUse, CheckInvitationsOneUse
<1>7. Reserved'
  <2>1. ASSUME NEW t \in Tokens, Expire(t) PROVE Reserved'
    <3>1. UNCHANGED <<inv, accepted, creating, db, disk, given, crossed, raced>>
      BY <2>1 DEF Expire, inviter
    <3> QED BY Zenon, <1>1, <3>1, QuietReserved
  <2> QED BY Zenon, <1>1, <2>1, CreateReserved, CheckHostsReserved, CheckInvitationsReserved
<1> QED BY <1>3, <1>4, <1>5, <1>6, <1>7 DEF IInv

(* Every step keeps the inductive invariant. *)
LEMMA NextIInv == IInv /\ [Next]_vars => IInv'
<1> SUFFICES ASSUME IInv, [Next]_vars PROVE IInv'
  BY Zenon
<1>1. CASE UNCHANGED vars
  <2>1. UNCHANGED <<inv, expired, issued, creating, db, disk, srv, cl, wire, conf, knows, key, cert,
                    given, accepted, crossed, raced, torn, overlapped>>
    BY <1>1 DEF vars
  <2>2. Base'
    <3>1. Types'
      <4>1. Types
        BY Zenon DEF IInv, Base
      <4> QED BY ONLY <2>1, <4>1 DEF Types
    <3>2. ASSUME NEW j \in Joins PROVE Flow(j)'
      <4>1. Flow(j)
        BY Zenon DEF IInv, Base
      <4> QED BY ONLY <2>1, <4>1, FlowStays
    <3> QED BY Zenon, <3>1, <3>2 DEF Base
  <2>3. Keys'
    BY <2>1, KeysStay DEF IInv
  <2>4. Lists' /\ Entered'
    <3>1. \A j \in Joins : (Past(j) => Past(j)') /\ (Certified(j)' => Certified(j))
      BY Zenon, <2>1 DEF Past, Certified
    <3> QED BY Zenon, <2>1, <3>1, QuietLists DEF IInv
  <2>5. OneUse' /\ Reserved'
    BY Zenon, <2>1, OneUseStays, QuietReserved DEF IInv
  <2> QED BY Zenon, <2>2, <2>3, <2>4, <2>5 DEF IInv
<1>2. CASE Next
  <2>1. CASE \/ (\E n \in Names, t \in Tokens : CreateInvitation(n, t)) \/ CheckHosts \/ CheckInvitations
             \/ \E t \in Tokens : Expire(t)
    BY <2>1, CreateKeeps
  <2>2. CASE Restart
    BY <2>2, RestartKeeps
  <2>3. ASSUME NEW j \in Joins, (\E d \in Daemons, t \in Tokens : Join(j, d, t)) \/ Joiner(j) \/ Timeout(j)
        PROVE  IInv'
    BY Zenon, <2>3, JoinerKeeps DEF Joiner
  <2>4. ASSUME NEW j \in Joins, Worker(j) PROVE IInv'
    BY <2>4, TokenKeeps, CsrKeeps DEF Worker
  <2> QED BY <1>2, <2>1, <2>2, <2>3, <2>4 DEF Next
<1> QED BY <1>1, <1>2

(* The inductive invariant holds in every reachable state. *)
LEMMA Invariant == Spec => []IInv
BY InitIInv, NextIInv, PTL DEF Spec

-----------------------------------------------------------------------------
(* validate_invitation_token lets a token be used once, unless two workers   *)
(* read its file at the same time.                                           *)
THEOREM TokensCorrect == Spec => []OneTimeUse
<1>1. IInv => OneTimeUse
  BY SMTT(20) DEF IInv, OneUse, OneTimeUse, Held
<1> QED BY <1>1, Invariant, PTL

(* allocate_vpn_ip gives every daemon an address of its own, as long as no   *)
(* invitation is created while an accepted join is not yet in hosts.json.    *)
THEOREM AddressesCorrect == Spec => []AddressesDistinct
<1>1. IInv => AddressesDistinct
  <2> SUFFICES ASSUME IInv, ~crossed, ~raced, NEW d \in Daemons, NEW e \in Daemons, d # e,
                      conf[d] # None, conf[d] = conf[e]
               PROVE  FALSE
    BY Zenon DEF AddressesDistinct, UniqueAddresses
  <2>1. PICK i \in accepted : cl[i].on = d /\ given[i].ip = conf[d]
    BY Zenon DEF IInv, Keys
  <2>2. PICK j \in accepted : cl[j].on = e /\ given[j].ip = conf[e]
    BY Zenon DEF IInv, Keys
  <2> QED BY Zenon, <2>1, <2>2 DEF IInv, Reserved
<1> QED BY <1>1, Invariant, PTL

(* A node that has its certificate is in hosts.json of the inviter, and the  *)
(* inviter in its own, also after a restart.                                 *)
THEOREM HostsCorrect == Spec => []JoinedIsMutual
<1>1. IInv => JoinedIsMutual
  <2> SUFFICES ASSUME IInv, ~raced, ~torn, ~Writing, NEW j \in Joins, cl[j].allow = "done"
               PROVE  /\ Renamed(j) \/ Entry(given[j].name, given[j].ip) \in Range(disk)
                      /\ knows[cl[j].on]
    BY Zenon, SMTT(20) DEF JoinedIsMutual
  <2>1. knows[cl[j].on]
    BY Zenon DEF IInv, Base, Flow
  <2>2. srv[j].at \notin {"listing", "linking"}
    BY Zenon DEF Writing
  <2>3. Renamed(j) \/ EntryOf(j) \in Range(db)
    BY Zenon, <2>2 DEF IInv, Entered, Certified
  <2>4. Range(disk) = Range(db)
    BY Zenon DEF IInv, Lists
  <2> QED BY <2>1, <2>3, <2>4 DEF EntryOf
<1> QED BY <1>1, Invariant, PTL

(* The key of a daemon is the one its certificate is for, unless a join is   *)
(* not complete or two of them met on it.                                    *)
THEOREM KeysCorrect == Spec => []KeyCertified
<1>1. IInv => KeyCertified
  BY DEF IInv, Keys
<1> QED BY <1>1, Invariant, PTL
=============================================================================
