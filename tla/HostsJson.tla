------------------------------ MODULE HostsJson ------------------------------
(* hosts.json, the list of the nodes a daemon knows (hosts_json.c): how it   *)
(* is read and written, and how INVITE_DATA brings the inviter's list to a   *)
(* joining node (send_invite_data and create_hosts_json_from_invite,         *)
(* protocol_invite.c).                                                       *)
(*                                                                           *)
(* The file is a sequence of tokens, of which a string is one: no name and   *)
(* no address has a quote, a brace or a comma in it. An address with a       *)
(* prefix is the sequence of what its slashes separate: <<1, 24>> is an      *)
(* address with prefix 24, and <<>> the empty string. An array of addresses  *)
(* has only strings in it: parse_host_entry never returns from another.      *)
EXTENDS Integers, Sequences, FiniteSets, SequencesExt

CONSTANTS
  Lower,        \* a name in lower case, for strcasecmp
  MaxAddresses, \* MAX_HOST_ADDRESSES
  Me, Joiner,   \* the inviter and the node it invites
  Others,       \* nodes that joined before
  Owns,         \* what tinc.conf says of the inviter: Address, Port, VPNAddress
  Befores,      \* what the joining node's list may hold already
  Sizes,        \* sizes of the buffer send_invite_data writes to
  None

VARIABLES
  json,   \* the tokens of hosts.json
  hosts,  \* hosts_db->hosts: the list of entries, the last added first
  listed, \* the entries the file lists, to whoever reads it as JSON
  own,    \* the inviter's configuration
  invite  \* what the last invitation came to

Open == <<"{">>
Close == <<"}">>
OpenList == <<"[">>
CloseList == <<"]">>
Colon == <<":">>
Comma == <<",">>
End == <<"end">>
Str(x) == <<"str", x>>
Num(n) == <<"num", n>>
At(s, p) == IF p \in DOMAIN s THEN s[p] ELSE End
IsStr(t) == t[1] = "str"

parse_string(t) == IF IsStr(t) THEN t[2] ELSE <<>>
parse_number(t) == IF t[1] = "num" THEN t[2] % 65536 ELSE 0

(* The place after the value that begins at p, and the comma behind it.      *)
RECURSIVE SkipValue(_, _, _)
MutSkipValue(s, p, depth) ==
  CASE At(s, p) \in {End, Close} -> p
    [] At(s, p) = Comma -> p + 1
    [] OTHER -> SkipValue(s, p + 1, depth)
SkipValue(s, p, depth) ==
  CASE At(s, p) = End -> p
    [] At(s, p) \in {Open, OpenList} -> SkipValue(s, p + 1, depth + 1)
    [] At(s, p) \in {Close, CloseList} -> IF depth = 0 THEN p ELSE SkipValue(s, p + 1, depth - 1)
    [] At(s, p) = Comma /\ depth = 0 -> p + 1
    [] OTHER -> SkipValue(s, p + 1, depth)

(* The place of the value of a key of the object that begins at p, or 0.     *)
RECURSIVE FindFrom(_, _, _)
FindFrom(s, p, key) ==
  LET colon == IsStr(At(s, p)) /\ At(s, p + 1) = Colon IN
  CASE At(s, p) \in {End, Close} -> 0
    [] colon /\ At(s, p)[2] = key -> p + 2
    [] OTHER -> FindFrom(s, SkipValue(s, IF colon THEN p + 2 ELSE IF IsStr(At(s, p)) THEN p + 1 ELSE p, 0), key)
find_key(s, p, key) == FindFrom(s, IF At(s, p) = Open THEN p + 1 ELSE p, key)

RECURSIVE Addresses(_, _, _)
Addresses(s, p, found) ==
  IF At(s, p) \in {End, CloseList} \/ Len(found) >= MaxAddresses THEN found
  ELSE LET q == IF IsStr(At(s, p)) THEN p + 1 ELSE p
       IN Addresses(s, IF At(s, q) = Comma THEN q + 1 ELSE q,
                    IF IsStr(At(s, p)) THEN Append(found, parse_string(At(s, p))) ELSE found)

parse_host_entry(s, name) ==
  LET addresses == find_key(s, 1, "addresses")
      port == find_key(s, 1, "port")
  IN [name |-> name,
      addresses |-> IF At(s, addresses) = OpenList THEN Addresses(s, addresses + 1, <<>>) ELSE <<>>,
      port |-> IF port = 0 THEN 443 ELSE parse_number(At(s, port)),
      subnet |-> parse_string(At(s, find_key(s, 1, "subnet"))),
      vpn_address |-> parse_string(At(s, find_key(s, 1, "vpn_address")))]

hosts_db_find(db, name) == SelectInSeq(db, LAMBDA h : Lower[h.name] = Lower[name])

hosts_db_add(db, name) ==
  IF hosts_db_find(db, name) # 0 THEN db
  ELSE <<[name |-> name, addresses |-> <<>>, port |-> 443, subnet |-> <<>>, vpn_address |-> <<>>]>> \o db

(* The entry of a name, and the list with that entry changed. *)
Entry(db, name) == db[hosts_db_find(db, name)]
Changed(db, name, h) == [db EXCEPT ![hosts_db_find(db, name)] = h]

RECURSIVE EndOfObject(_, _, _)
EndOfObject(s, p, depth) ==
  IF depth = 0 \/ At(s, p) = End THEN p
  ELSE EndOfObject(s, p + 1, depth + (CASE At(s, p) = Open -> 1 [] At(s, p) = Close -> -1 [] OTHER -> 0))

RECURSIVE ParseNodes(_, _, _)
ParseNodes(s, p, db) ==
  CASE At(s, p) \in {End, Close} -> db
    [] ~IsStr(At(s, p)) -> ParseNodes(s, p + 1, db)
    [] IsStr(At(s, p)) /\ (At(s, p)[2] = "" \/ At(s, p + 1) # Colon) -> ParseNodes(s, p + 1, db)
    [] IsStr(At(s, p)) /\ At(s, p)[2] # "" /\ At(s, p + 1) = Colon /\ At(s, p + 2) # Open -> ParseNodes(s, p + 2, db)
    [] OTHER ->
         LET name == At(s, p)[2]
             q == EndOfObject(s, p + 3, 1)
         IN ParseNodes(s, IF At(s, q) = Comma THEN q + 1 ELSE q,
                       Changed(hosts_db_add(db, name), name, parse_host_entry(SubSeq(s, p + 2, q - 1), name)))

(* A missing file, an empty one and one without nodes all give an empty list. *)
parse_hosts_json(s) ==
  LET nodes == find_key(s, 1, "nodes")
  IN IF At(s, nodes) = Open THEN ParseNodes(s, nodes + 1, <<>>) ELSE <<>>

(* The elements of a sequence of texts with commas in between. *)
Listing(texts) ==
  FoldLeft(LAMBDA all, text : IF all = <<>> THEN text ELSE all \o <<Comma>> \o text, <<>>, texts)
Field(key, text) == <<Str(key), Colon>> \o text
Object(fields) == <<Open>> \o Listing(fields) \o <<Close>>
Strings(seq) == [i \in DOMAIN seq |-> <<Str(seq[i])>>]
hosts_db_save(db) ==
  Object(<<Field("nodes", Object([i \in DOMAIN db |->
    Field(db[i].name, Object(<<
      Field("addresses", <<OpenList>> \o Listing(Strings(db[i].addresses)) \o <<CloseList>>),
      Field("port", <<Num(db[i].port)>>),
      Field("subnet", <<Str(db[i].subnet)>>),
      Field("vpn_address", <<Str(db[i].vpn_address)>>)>>))]))>>)

host_add_address(h, address) ==
  IF Len(h.addresses) >= MaxAddresses \/ Contains(h.addresses, address) THEN h
  ELSE [h EXCEPT !.addresses = Append(@, address)]

host_set_vpn_address(h, address, prefix) ==
  [h EXCEPT !.vpn_address = address, !.subnet = address \o <<IF prefix > 0 THEN prefix ELSE 32>>]

(* Characters of ",Host_0=name|addresses|port|vpn|subnet", and of            *)
(* ",HostCount=" before its digits; what comes first in the buffer.          *)
HostSize(h) == 20 + 8 * Len(h.addresses) + 6 * Len(h.vpn_address) + 6 * Len(h.subnet)
CountSize == 11
Preamble == 20

(* One more host into the buffer of send_invite_data. Only a host of         *)
(* hosts_db that does not fit ends the list.                                 *)
Add(size, msg, h) ==
  IF msg.full THEN msg
  ELSE IF msg.used + HostSize(h) < size
       THEN [msg EXCEPT !.used = @ + HostSize(h), !.hosts = Append(@, h)]
       ELSE [msg EXCEPT !.full = h.name # Me]

(* What atoi makes of a number below 100 of which snprintf shows so many     *)
(* digits.                                                                   *)
CutNumber(n, shown) ==
  CASE shown <= 0 -> 0
    [] shown = 1 /\ n >= 10 -> n \div 10
    [] OTHER -> n

Inviter(o) == [name |-> Me, addresses |-> o.addresses, port |-> o.port, subnet |-> <<>>, vpn_address |-> o.vpn_address]
SentHosts(db, o) == <<Inviter(o)>> \o SelectSeq(db, LAMBDA h : Lower[h.name] # Lower[Me])

(* The Host_N values that the joining node reads. An Address with a port has *)
(* a blank in it, and sscanf's %s ends there: HostCount is then not found.   *)
send_invite_data(db, o, size) ==
  LET msg == FoldLeft(LAMBDA m, h : Add(size, m, h), [used |-> Preamble, hosts |-> <<>>, full |-> FALSE], SentHosts(db, o))
      count == CutNumber(Len(msg.hosts), size - 1 - msg.used - CountSize)
      cut == o.blank /\ Contains(msg.hosts, Inviter(o))
  IN SubSeq(msg.hosts, 1, IF cut THEN 0 ELSE count)

MutFromInvite(db, h) ==
  Changed(hosts_db_add(db, h.name), h.name, h)
parse_host_from_invite(db, h) ==
  LET added == hosts_db_add(db, h.name)
      ported == [Entry(added, h.name) EXCEPT !.port = h.port]
      placed == IF h.vpn_address # <<>>
                THEN host_set_vpn_address(ported, h.vpn_address, IF Len(h.subnet) > 1 THEN h.subnet[2] ELSE 32)
                ELSE IF h.subnet # <<>> THEN [ported EXCEPT !.subnet = h.subnet] ELSE ported
  IN Changed(added, h.name, FoldLeft(host_add_address, placed, h.addresses))

create_hosts_json_from_invite(db, sent, address) ==
  LET all == FoldLeft(parse_host_from_invite, db, sent)
      added == hosts_db_add(all, Joiner)
      entry == host_set_vpn_address(Entry(added, Joiner), <<address[1]>>, 32)
  IN IF address = <<>> THEN all
     ELSE Changed(added, Joiner, [entry EXCEPT !.port = IF @ = 0 THEN 443 ELSE @])

-----------------------------------------------------------------------------
(* Files written by hand: a node alice with any of these keys in any order,  *)
(* perhaps another one or the same one again in capitals, and perhaps keys   *)
(* that hosts_json.c does not know.                                          *)
FieldText(key) ==
  Field(key, CASE key = "addresses" -> <<OpenList>> \o Listing(Strings(<<"a", "b", "c">>)) \o <<CloseList>>
               [] key = "port" -> <<Num(655)>>
               [] key = "subnet" -> <<Str(<<1, 32>>)>>
               [] key = "vpn_address" -> <<Str(<<1>>)>>
               [] OTHER -> Object(<<Field("port", <<Num(1)>>), Field("tags", <<OpenList, Str("port"), Comma, Num(2), CloseList>>)>>))
FieldMeans(name, keys) ==
  [name |-> name,
   addresses |-> IF "addresses" \in keys THEN SubSeq(<<"a", "b", "c">>, 1, MaxAddresses) ELSE <<>>,
   port |-> IF "port" \in keys THEN 655 ELSE 443,
   subnet |-> IF "subnet" \in keys THEN <<1, 32>> ELSE <<>>,
   vpn_address |-> IF "vpn_address" \in keys THEN <<1>> ELSE <<>>]
Orders == UNION {SetToSeqs(keys) : keys \in SUBSET {"addresses", "port", "vpn_address", "note"}}
NodeText(name, keys) == Field(name, Object([i \in DOMAIN keys |-> FieldText(keys[i])]))
Document(keys, more) ==
  LET nodes == Field("nodes", Object(<<NodeText("alice", keys)>> \o [i \in DOMAIN more |-> NodeText(more[i], <<"subnet", "addresses">>)]))
      old == Field("old", Object(<<Field("nodes", Object(<<NodeText("dave", keys)>>))>>))
      another == {FieldMeans(name, {"subnet", "addresses"}) : name \in ToSet(more)}
  IN [text |-> IF Contains(keys, "note") THEN Object(<<old, nodes>>) ELSE Object(<<nodes, old>>),
      means |-> another \cup (IF more = <<"ALICE">> THEN {} ELSE {FieldMeans("alice", ToSet(keys))})]
Documents == {Document(keys, more) : keys \in Orders, more \in {<<>>, <<Me>>, <<"ALICE">>}}

(* The daemon starts with a file that was written by hand. *)
Init ==
  /\ \E d \in Documents :
       /\ json = d.text
       /\ hosts = parse_hosts_json(d.text)
       /\ listed = d.means
  /\ own \in Owns
  /\ invite = None

(* invite_csr_h lists a node that joined, and saves the list. *)
AddNode(name, address) ==
  /\ name \notin {h.name : h \in listed}
  /\ LET added == hosts_db_add(hosts, name)
         entry == Entry(added, name)
         placed == IF address = <<>> THEN entry ELSE host_set_vpn_address(entry, <<address[1]>>, address[2])
     IN /\ hosts' = Changed(added, name, placed)
        /\ json' = hosts_db_save(hosts')
  /\ listed' = {h \in listed : Lower[h.name] # Lower[name]}
               \cup (LET old == {h \in listed : Lower[h.name] = Lower[name]}
                         new == [name |-> name, addresses |-> <<>>, port |-> 443, subnet |-> <<>>, vpn_address |-> <<>>]
                         h == IF old = {} THEN new ELSE CHOOSE x \in old : TRUE
                     IN {IF address = <<>> THEN h ELSE [h EXCEPT !.vpn_address = <<address[1]>>, !.subnet = address]})
  /\ invite' = None
  /\ UNCHANGED own

(* The daemon restarts: hosts_db_init reads the file again. *)
Restart ==
  /\ hosts' = parse_hosts_json(json)
  /\ invite' = None
  /\ UNCHANGED <<json, listed, own>>

(* A node joins with the inviter's list: it saves its own, and reads that    *)
(* when it starts again.  The inviter's list does not change, so that one    *)
(* join is made of each.                                                     *)
Invite(before, size, address) ==
  /\ invite = None
  /\ LET sent == send_invite_data(hosts, own, size)
         saved == hosts_db_save(create_hosts_json_from_invite(before, sent, address))
     IN invite' = [before |-> before, size |-> size, address |-> address, hosts |-> parse_hosts_json(saved)]
  /\ UNCHANGED <<json, hosts, listed, own>>

Next ==
  \/ \E name \in Others, address \in {<<>>, <<2, 24>>} : AddNode(name, address)
  \/ Restart
  \/ \E before \in Befores, size \in Sizes, address \in {<<>>, <<3, 24>>} : Invite(before, size, address)

-----------------------------------------------------------------------------
(* What the daemon holds is what hosts.json lists, whatever the order of the *)
(* keys of an object and whatever other keys it has, and still so after any  *)
(* number of saves and restarts (find_key, parse_host_entry and              *)
(* parse_hosts_json against hosts_db_save, which writes the list in the      *)
(* reverse order each time): no entry is lost, doubled or mixed with another. *)
FileIsParsed ==
  /\ ToSet(hosts) = listed
  /\ Len(hosts) = Cardinality(listed)

(* The characters the first n of the hosts sent take with what precedes.     *)
UsedBy(all, n) == Preamble + FoldLeft(LAMBDA sum, h : sum + HostSize(h), 0, SubSeq(all, 1, n))

(* The joining node's list has every host that fits in the buffer of         *)
(* send_invite_data, the inviter first, with its port, its VPN address and   *)
(* its addresses, next to the addresses that the node knew already; it has   *)
(* the node itself, with the address that it was given, and nothing else.    *)
(* Two cases send no host at all: HostCount does not fit behind the last     *)
(* host, or the inviter's Address has a port behind a blank.                 *)
JoinerKnows ==
  invite # None =>
    LET all == SentHosts(hosts, own)
        size == invite.size
        fit == {n \in 1..Len(all) : UsedBy(all, n) < size}
        last == Cardinality(fit)
        counted == UsedBy(all, last) + CountSize + 1 < size /\ ~own.blank
        sent == IF counted THEN SubSeq(all, 1, last) ELSE <<>>
        Name(h) == Lower[h.name]
        Known(name) == Entry(invite.hosts, name)
        Before(name) == IF hosts_db_find(invite.before, name) = 0 THEN <<>> ELSE Entry(invite.before, name).addresses
    IN /\ {Name(h) : h \in ToSet(invite.hosts)} =
            {Name(h) : h \in ToSet(sent) \cup ToSet(invite.before)} \cup (IF invite.address = <<>> THEN {} ELSE {Lower[Joiner]})
       /\ Cardinality({Name(h) : h \in ToSet(invite.hosts)}) = Len(invite.hosts)
       /\ \A h \in ToSet(sent) : Name(h) # Lower[Joiner] =>
            /\ Known(h.name).port = h.port
            /\ h.vpn_address # <<>> => Known(h.name).vpn_address = h.vpn_address
            /\ ToSet(Before(h.name)) \subseteq ToSet(Known(h.name).addresses)
            /\ \/ ToSet(h.addresses) \subseteq ToSet(Known(h.name).addresses)
               \/ Len(Known(h.name).addresses) = MaxAddresses
       /\ invite.address # <<>> => Known(Joiner).vpn_address = <<invite.address[1]>>
=============================================================================
