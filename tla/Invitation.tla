----------------------------- MODULE Invitation -----------------------------
(***************************************************************************)
(* Invitations: invitation.c and protocol_invite.c, with the database of   *)
(* hosts_json.c.  One daemon, which holds the CA key, invites; others join.*)
(*                                                                         *)
(* `tinc invite' runs create_invitation on the main thread of the inviter, *)
(* which looks for a free VPN address one candidate after the other.  Every*)
(* `tinc join' is a connection of its own, on which the inviter answers on *)
(* a MsQuic worker: INVITE_JOIN, INVITE_DATA, INVITE_CSR, INVITE_CERT.  A  *)
(* handler of the inviter is one step for each access to what is shared:   *)
(* the invitation files, hosts_db and hosts.json.  The files outlive a     *)
(* restart of the inviter; what is buffered in a FILE is written by fclose.*)
(*                                                                         *)
(* A VPN address is its last number, or None; a key is the join that made  *)
(* it; a certificate is the key it was signed for.                         *)
(***************************************************************************)
EXTENDS Integers, Sequences, FiniteSets, FiniteSetsExt

CONSTANTS
  None,
  Tokens, Joins,   \* numbered in the order they are made and started
  Names, Daemons,  \* numbered in the order they are first used
  Pool,            \* the addresses that no other node of the network has
  MaxCrashes

ASSUME NumbersAssumption ==
  /\ Tokens \subseteq Nat /\ Joins \subseteq Nat /\ Names \subseteq Nat /\ Daemons \subseteq Nat
  /\ Pool \subseteq Nat /\ Pool # {}
ASSUME NoneAssumption == None \notin Joins

VARIABLES
  inv,             \* the invitation files, by token
  expired,         \* the tokens whose time is over
  issued,          \* the tokens `tinc invite' has printed
  creating,        \* create_invitation, while it looks for an address
  db, disk,        \* hosts_db, a list with the newest entry first; hosts.json
  srv, cl,         \* the two ends of a join
  wire,            \* the request on its stream: each side waits for the other
  conf, knows,     \* of a daemon that joins: VPNAddress in tinc.conf, and whether
                   \* its hosts.json lists the inviter
  key, cert,       \* server-key.pem and server-cert.pem
  given,           \* what a join found in the invitation: c->name, invitation_vpn_address
  accepted,        \* history: the joins whose token was good
  crossed, raced, torn, overlapped, crashes

vars == <<inv, expired, issued, creating, db, disk, srv, cl, wire, conf, knows, key, cert,
          given, accepted, crossed, raced, torn, overlapped, crashes>>
inviter == <<inv, issued, creating, db, disk, srv, given, accepted, raced>>
joiner == <<cl, conf, knows, key, cert, overlapped>>
rest == <<expired, torn, crashes>>

Reverse(s) == [i \in 1 .. Len(s) |-> s[(Len(s) - i) + 1]]
Entry(n, a) == [name |-> n, ip |-> a]
NoEnd == [at |-> "idle", allow |-> "ID", list |-> <<>>]
Request(k) == [kind |-> k, token |-> None]     \* what follows INVITE_JOIN is about given[j]
Silent == Request("none")

Init ==
  /\ inv = [t \in Tokens |-> None] /\ expired = {} /\ issued = {} /\ creating = None
  /\ db = <<>> /\ disk = <<>>
  /\ srv = [j \in Joins |-> NoEnd]
  /\ cl = [j \in Joins |-> [on |-> None, state |-> "none", allow |-> "INVITE_DATA"]]
  /\ wire = [j \in Joins |-> Silent]
  /\ conf = [d \in Daemons |-> None] /\ knows = [d \in Daemons |-> FALSE]
  /\ key = [d \in Daemons |-> None] /\ cert = [d \in Daemons |-> None]
  /\ given = [j \in Joins |-> None] /\ accepted = {}
  /\ crossed = FALSE /\ raced = FALSE /\ torn = FALSE
  /\ overlapped = {} /\ crashes = 0

Listed(list, n) == \E i \in DOMAIN list : list[i].name = n       \* hosts_db_find
Holds(list, a) == \E i \in DOMAIN list : list[i].ip = a          \* hosts_db_find_by_vpn_address

(* crossed: an invitation is being created while the address of an accepted  *)
(* join is neither in an invitation file nor in hosts.json.                  *)
Adrift == {j \in accepted' : ~Holds(disk', given'[j].ip)}
Watch == crossed' = (crossed \/ (creating' # None /\ Adrift # {}))

-----------------------------------------------------------------------------
(* create_invitation *)
FirstCandidate == Min(Pool)
NextCandidate(a) == LET S == {b \in Pool : b > a} IN IF S = {} THEN None ELSE Min(S)

(* A node that hosts_db lists is not invited.  cleanup_expired_invitations   *)
(* first; the file is opened, and empty until it is closed.                  *)
CreateInvitation(n, t) ==
  /\ creating = None /\ inv[t] = None /\ t \notin issued /\ (1 .. t - 1) \subseteq issued
  /\ ~Listed(db, n)
  /\ inv' = [u \in Tokens |-> IF u \in expired THEN None ELSE inv[u]]
  /\ creating' = [token |-> t, name |-> n, ip |-> FirstCandidate, free |-> FALSE]
  /\ UNCHANGED <<issued, db, disk, srv, given, accepted, raced, joiner, wire, rest>> /\ Watch

(* allocate_vpn_ip: ip_used_in_hosts for one candidate. *)
CheckHosts ==
  /\ creating # None /\ creating.ip # None /\ ~creating.free
  /\ creating' = IF Holds(db, creating.ip)
                 THEN [creating EXCEPT !.ip = NextCandidate(creating.ip)]
                 ELSE [creating EXCEPT !.free = TRUE]
  /\ UNCHANGED <<inv, issued, db, disk, srv, given, accepted, raced, joiner, wire, rest>> /\ Watch

(* ip_used_in_invitations: strstr finds an address also where it is only the *)
(* beginning of the one in the file, as 10.0.0.2 is of 10.0.0.20.            *)
Mentions(a, b) == a = b \/ (a # None /\ a \div 10 = b)
MutUsedInInvitations(a) == FALSE     \* mutant: pending invitations are not looked at
UsedInInvitations(a) == \E t \in Tokens : inv[t] # None /\ Mentions(inv[t].ip, a)

(* The file is written when an address is found, or when none is left.       *)
CheckInvitations ==
  /\ creating # None /\ (creating.ip = None \/ creating.free)
  /\ IF creating.ip # None /\ UsedInInvitations(creating.ip)
     THEN /\ creating' = [creating EXCEPT !.ip = NextCandidate(creating.ip), !.free = FALSE]
          /\ UNCHANGED <<inv, issued>>
     ELSE /\ inv' = [inv EXCEPT ![creating.token] = Entry(creating.name, creating.ip)]
          /\ issued' = issued \cup {creating.token}
          /\ creating' = None
  /\ UNCHANGED <<db, disk, srv, given, accepted, raced, joiner, wire, rest>> /\ Watch

(* INVITATION_VALIDITY seconds have passed. *)
Expire(t) ==
  /\ t \in issued \ expired /\ inv[t] # None
  /\ expired' = expired \cup {t}
  /\ UNCHANGED <<inviter, joiner, wire, torn, crashes, crossed>>

-----------------------------------------------------------------------------
(* process_join_request, and the CONNECTED event that sends INVITE_JOIN. *)
Join(j, d, t) ==
  /\ cl[j].state = "none" /\ t \in issued /\ \A i \in 1 .. j - 1 : cl[i].state # "none"
  /\ cl' = [cl EXCEPT ![j].on = d, ![j].state = "open"]
  /\ wire' = [wire EXCEPT ![j] = [kind |-> "INVITE_JOIN", token |-> t]]
  /\ UNCHANGED <<inviter, conf, knows, key, cert, overlapped, rest, crossed>>

(* receive_request: the first request may be INVITE_JOIN instead of ID.      *)
MutAllowed(j, k) == srv[j].allow = k     \* mutant: only ID is taken first
Allowed(j, k) == srv[j].allow = k \/ (srv[j].allow = "ID" /\ k = "INVITE_JOIN")
Got(j, k) == wire[j].kind = k /\ srv[j].at = "idle"

(* invite_join_h: validate_invitation_token reads the file ... *)
ReadToken(j) ==
  LET t == wire[j].token
  IN /\ Got(j, "INVITE_JOIN") /\ Allowed(j, "INVITE_JOIN")
     /\ wire' = [wire EXCEPT ![j] = Silent]
     /\ IF inv[t] = None
        THEN srv' = [srv EXCEPT ![j].at = "refused"] /\ UNCHANGED given
        ELSE /\ srv' = [srv EXCEPT ![j].at = "validating"]
             /\ given' = [given EXCEPT ![j] = [token |-> t, name |-> inv[t].name, ip |-> inv[t].ip]]
     /\ raced' = (raced \/ \E i \in Joins : srv[i].at = "validating" /\ given[i].token = t)
     /\ UNCHANGED <<inv, issued, creating, db, disk, accepted, joiner, rest>> /\ Watch

(* ... and deletes it, whether the token is still good or not.  A good one   *)
(* is answered with INVITE_DATA: the name, the address and the known hosts.  *)
MutUnlink(t) == inv     \* mutant: the file stays
Unlink(t) == [inv EXCEPT ![t] = None]
UseToken(j) ==
  LET t == given[j].token
  IN /\ srv[j].at = "validating"
     /\ inv' = Unlink(t)
     /\ IF t \in expired
        THEN /\ srv' = [srv EXCEPT ![j].at = "refused"]
             /\ UNCHANGED <<wire, accepted>>
        ELSE /\ srv' = [srv EXCEPT ![j].at = "idle", ![j].allow = "INVITE_CSR"]
             /\ wire' = [wire EXCEPT ![j] = Request("INVITE_DATA")]
             /\ accepted' = accepted \cup {j}
     /\ UNCHANGED <<given, issued, creating, db, disk, raced, joiner, rest>> /\ Watch

-----------------------------------------------------------------------------
(* invite_data_h: what came is written to ca-cert.pem, tinc.conf and         *)
(* hosts.json, and server-key.pem is replaced before there is a certificate  *)
(* for the new key.                                                          *)
Awaiting(d) == {j \in Joins : cl[j] = [on |-> d, state |-> "open", allow |-> "INVITE_CERT"]}
MutSavedKey(j) == key     \* mutant: the key is not saved
SavedKey(j) == [key EXCEPT ![cl[j].on] = j]
InviteData(j) ==
  LET d == cl[j].on
  IN /\ wire[j].kind = "INVITE_DATA" /\ cl[j].state = "open" /\ cl[j].allow = "INVITE_DATA"
     /\ conf' = IF given[j].ip = None THEN conf ELSE [conf EXCEPT ![d] = given[j].ip]
     /\ knows' = [knows EXCEPT ![d] = TRUE]
     /\ key' = SavedKey(j)
     /\ wire' = [wire EXCEPT ![j] = Request("INVITE_CSR")]
     /\ cl' = [cl EXCEPT ![j].allow = "INVITE_CERT"]
     /\ overlapped' = IF Awaiting(d) = {} THEN overlapped ELSE overlapped \cup {d}
     /\ UNCHANGED <<inviter, cert, rest, crossed>>

(* invite_cert_h: the result is FALSE, which does not end the connection: it *)
(* stays until timeout_handler finds it.                                     *)
InviteCert(j) ==
  /\ wire[j].kind = "INVITE_CERT" /\ cl[j].state = "open" /\ cl[j].allow = "INVITE_CERT"
  /\ cert' = [cert EXCEPT ![cl[j].on] = j]
  /\ wire' = [wire EXCEPT ![j] = Silent]
  /\ cl' = [cl EXCEPT ![j].allow = "done"]
  /\ UNCHANGED <<inviter, conf, knows, key, overlapped, rest, crossed>>

-----------------------------------------------------------------------------
(* invite_csr_h: the certificate is sent; only then is the node listed.      *)
MutSigned == "idle"     \* mutant: nothing is done after the certificate is sent
Signed == "listing"
InviteCsr(j) ==
  /\ Got(j, "INVITE_CSR") /\ Allowed(j, "INVITE_CSR")
  /\ wire' = [wire EXCEPT ![j] = Request("INVITE_CERT")]
  /\ srv' = [srv EXCEPT ![j].at = Signed]
  /\ UNCHANGED <<inv, issued, creating, db, disk, given, accepted, raced, joiner, rest>> /\ Watch

(* hosts_db_add: an entry of that name gets the new address, also as seen    *)
(* from a head of the list that was read before, since the entries are       *)
(* shared; otherwise the head is read, and replaced after.                   *)
Named(list, n, a) ==
  [i \in DOMAIN list |-> IF list[i].name = n /\ a # None THEN Entry(n, a) ELSE list[i]]
FindHost(j) ==
  /\ srv[j].at = "listing"
  /\ IF Listed(db, given[j].name)
     THEN /\ db' = Named(db, given[j].name, given[j].ip)
          /\ srv' = [i \in Joins |->
                       [srv[i] EXCEPT !.at = IF i = j THEN "listed" ELSE @,
                                      !.list = Named(@, given[j].name, given[j].ip)]]
          /\ UNCHANGED raced
     ELSE /\ srv' = [srv EXCEPT ![j].at = "linking", ![j].list = db]
          /\ raced' = (raced \/ \E i \in Joins : srv[i].at = "linking")
          /\ UNCHANGED db
  /\ UNCHANGED <<inv, issued, creating, disk, given, accepted, joiner, wire, rest>> /\ Watch

AddHost(j) ==
  /\ srv[j].at = "linking"
  /\ db' = <<Entry(given[j].name, given[j].ip)>> \o srv[j].list
  /\ srv' = [srv EXCEPT ![j].at = "listed", ![j].list = <<>>]
  /\ UNCHANGED <<inv, issued, creating, disk, given, accepted, raced, joiner, wire, rest>> /\ Watch

(* hosts_db_save: fopen leaves an empty file, fclose one with the list. *)
OpenHosts(j) ==
  /\ srv[j].at = "listed"
  /\ disk' = <<>>
  /\ srv' = [srv EXCEPT ![j].at = "saving"]
  /\ UNCHANGED <<inv, issued, creating, db, given, accepted, raced, joiner, wire, rest>> /\ Watch

SaveHosts(j) ==
  /\ srv[j].at = "saving"
  /\ disk' = db
  /\ srv' = [srv EXCEPT ![j].at = "idle"]
  /\ UNCHANGED <<inv, issued, creating, db, given, accepted, raced, joiner, wire, rest>> /\ Watch

-----------------------------------------------------------------------------
(* timeout_handler of the daemon that joins: last_ping_time of the           *)
(* connection is 0, so it is terminated at the next tick.  What was sent to  *)
(* the inviter may still reach it.                                           *)
Timeout(j) ==
  /\ cl[j].state = "open" /\ (wire[j] # Silent \/ srv[j].at = "validating")
  /\ cl' = [cl EXCEPT ![j].state = "closed"]
  /\ \/ wire' = [wire EXCEPT ![j] = Silent]
     \/ wire[j].kind \in {"INVITE_JOIN", "INVITE_CSR"} /\ UNCHANGED wire
  /\ UNCHANGED <<inviter, conf, knows, key, cert, overlapped, rest, crossed>>

(* The inviter ends and starts again: load_all_nodes adds the entries of     *)
(* hosts.json in the order of the file, so the last comes to be the first.   *)
Writing == \E j \in Joins : srv[j].at \in {"listing", "linking", "listed", "saving"}
Restart ==
  /\ crashes < MaxCrashes /\ crashes' = crashes + 1
  /\ db' = Reverse(disk)
  /\ creating' = None
  /\ srv' = [j \in Joins |-> IF cl[j].state = "none" THEN NoEnd ELSE [NoEnd EXCEPT !.at = "refused"]]
  /\ cl' = [j \in Joins |-> IF cl[j].state = "open" THEN [cl[j] EXCEPT !.state = "closed"] ELSE cl[j]]
  /\ wire' = [j \in Joins |-> Silent]
  /\ torn' = (torn \/ Writing)
  /\ UNCHANGED <<inv, expired, issued, disk, conf, knows, key, cert, given, accepted, raced, overlapped>>
  /\ Watch

Worker(j) == ReadToken(j) \/ UseToken(j) \/ InviteCsr(j) \/ FindHost(j) \/ AddHost(j)
             \/ OpenHosts(j) \/ SaveHosts(j)
Joiner(j) == InviteData(j) \/ InviteCert(j)

Next ==
  \/ \E n \in Names, t \in Tokens : n <= t /\ CreateInvitation(n, t)
  \/ CheckHosts \/ CheckInvitations \/ Restart
  \/ \E t \in Tokens : Expire(t)
  \/ \E j \in Joins : (\E d \in Daemons, t \in Tokens : d <= j /\ Join(j, d, t)) \/ Worker(j) \/ Joiner(j) \/ Timeout(j)

(* MsQuic delivers what was sent, and its workers run. *)
Fairness == \A j \in Joins : WF_vars(Worker(j)) /\ WF_vars(Joiner(j))
Spec == Init /\ [][Next]_vars /\ Fairness

-----------------------------------------------------------------------------
Addresses == Pool \cup {None}
Entries == [name : Names, ip : Addresses]
IsList(l) == Range(l) \subseteq Entries /\ Len(l) <= Cardinality(Names)

(* The types of the variables: an address is one of the subnet, no name is   *)
(* twice in a list of hosts, and every key is the one of some join.          *)
TypeOK ==
  /\ \A t \in Tokens : inv[t] # None => inv[t] \in [name : Names, ip : Addresses]
  /\ expired \subseteq issued /\ issued \subseteq Tokens
  /\ creating # None => creating \in [token : Tokens, name : Names, ip : Addresses, free : BOOLEAN]
  /\ IsList(db) /\ IsList(disk)
  /\ \A j \in Joins :
       /\ srv[j].at \in {"idle", "refused", "validating", "listing", "linking", "listed", "saving"}
       /\ srv[j].allow \in {"ID", "INVITE_CSR"}
       /\ cl[j] \in [on : Daemons \cup {None}, state : {"none", "open", "closed"}, allow : {"INVITE_DATA", "INVITE_CERT", "done"}]
       /\ wire[j].kind \in {"none", "INVITE_JOIN", "INVITE_DATA", "INVITE_CSR", "INVITE_CERT"}
  /\ conf \in [Daemons -> Addresses] /\ knows \in [Daemons -> BOOLEAN]
  /\ key \in [Daemons -> Joins \cup {None}] /\ cert \in [Daemons -> Joins \cup {None}]

(* What allocate_vpn_ip is for: no two daemons that have joined write the    *)
(* same VPNAddress to their tinc.conf.                                       *)
UniqueAddresses ==
  \A d, e \in Daemons : d # e /\ conf[d] # None => conf[d] # conf[e]

(* It keeps that promise, whatever else goes on, if no invitation is created *)
(* while an address is neither in a file nor in hosts.json, and no two joins *)
(* handle one token, or add a host, at the same time.                        *)
AddressesDistinct == ~crossed /\ ~raced => UniqueAddresses

(* An invitation is good for one join (validate_invitation_token deletes the *)
(* file), unless two workers read the file before one of them deletes it.    *)
OneTimeUse ==
  ~raced => \A i, j \in accepted : i # j => given[i].token # given[j].token

(* The name of join j was given to another join, too. *)
Renamed(j) == \E i \in accepted \ {j} : given[i].name = given[j].name

(* Once the handler is done, a daemon with a certificate is in hosts.json of *)
(* the inviter, with the address it has in its own tinc.conf, and the        *)
(* inviter is in its hosts.json; a restart of the inviter does not change    *)
(* that, unless it comes while invite_csr_h runs.  A second invitation for   *)
(* the same name takes the entry over.                                       *)
JoinedIsMutual ==
  ~raced /\ ~torn /\ ~Writing =>
    \A j \in Joins : cl[j].allow = "done" =>
      /\ Renamed(j) \/ Entry(given[j].name, given[j].ip) \in Range(disk)
      /\ knows[cl[j].on]

(* The key a daemon has on disk is the one its certificate was signed for,   *)
(* or the join that made the key has not got a certificate: invite_data_h    *)
(* replaces the key, and invite_cert_h the certificate.  Two joins at once   *)
(* on one daemon can leave the key of one with the certificate of the other. *)
KeyCertified ==
  \A d \in Daemons \ overlapped :
    cert[d] # None => key[d] = cert[d] \/ (key[d] # None /\ cl[key[d]].allow # "done")

(* A join gets its certificate, is refused, or its connection ends: neither  *)
(* side ever waits for a request that the other is not going to send, or     *)
(* that allow_request does not let through.                                  *)
JoinEnds ==
  \A j \in Joins : cl[j].state = "open" ~>
    (cl[j].allow = "done" \/ cl[j].state = "closed" \/ srv[j].at = "refused")
=============================================================================
