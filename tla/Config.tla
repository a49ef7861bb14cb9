------------------------------- MODULE Config -------------------------------
(* The configuration: `tinc set', `tinc add' and `tinc del' edit tinc.conf   *)
(* and the host file through a temporary file, a daemon that joins a network *)
(* rewrites tinc.conf in place, and tincd reads both files into config_tree  *)
(* and looks variables up in it.  A file is the sequence of its lines, and   *)
(* has an inode: names and inodes differ, as a file can be renamed while it  *)
(* is open.                                                                  *)
(*                                                                           *)
(* Sources: tincctl.c (cmd_config), conf.c, net.c (reload_configuration) and *)
(* protocol_invite.c (write_vpn_address_to_conf, write_connect_to_conf).     *)
EXTENDS Integers, Sequences, SequencesExt, FiniteSets

CONSTANTS
  ServerVariables,  \* VAR_SERVER: those in tinc.conf
  HostVariables,    \* the others, in hosts/NAME
  Multiple,         \* VAR_MULTIPLE
  VPNAddress, ConnectTo, Subnet,
  Edits,            \* the commands: [action, variable, value]; a value of None is
                    \* given to "del" alone, for every value
  Address, Inviter, Invitation,  \* values that a join writes, and one it removes
  Options,          \* -o on the command line of tincd: a sequence of
                    \* [host : BOOLEAN, variable, value]
  Initial,          \* what the files contain at the start
  Commands,         \* how many commands are given
  Tincs,            \* how many of them run at a time
  Inodes,
  None

Variables == ServerVariables \cup HostVariables
Clients == 1..Tincs
Files == {"tinc.conf", "hosts"}
FileOf(v) == IF v \in ServerVariables THEN "tinc.conf" ELSE "hosts"

VARIABLES
  name, tmp,        \* the inode of each file and, or None, of its temporary file
  data,             \* what is in each inode
  client,           \* the tinc processes
  commands,         \* commands that can still be given
  join,             \* the daemon's writing to tinc.conf
  config_tree, reloaded,
  subnets, known,   \* myself->subnet_tree, and what other nodes were told of it
  requests,         \* REQ_RELOADs that tincd has not handled
  reference,        \* history: the values each variable should have, in order
  crossed           \* history: the files of which two writers were at work

vars == <<name, tmp, data, client, commands, join, config_tree, reloaded, subnets, known, requests, reference, crossed>>

Lines(f) == data[name[f]]
InUse ==
  {name[f] : f \in Files} \cup {tmp[f] : f \in Files} \cup {client[c].out : c \in Clients}
    \cup {client[c].in : c \in Clients} \cup {join.ino}
Fresh == CHOOSE i \in Inodes \ InUse : \A j \in Inodes \ InUse : i <= j

(* What a process writes goes to the inode it has opened, from its start. *)
Over(old, new) == new \o SubSeq(old, Len(new) + 1, Len(old))

ValuesOf(lines, v) == LET own == SelectSeq(lines, LAMBDA l : l.variable = v) IN [i \in DOMAIN own |-> own[i].value]

-----------------------------------------------------------------------------
(* conf.c.  An entry of the tree: file is None for the command line. *)
Entry(v, x, file, line) == [variable |-> v, value |-> x, file |-> file, line |-> line]

(* read_config_options: line is the number of the option. *)
read_config_options(host) ==
  {Entry(Options[i].variable, Options[i].value, None, i) : i \in {j \in DOMAIN Options : Options[j].host = host}}
read_config_file(f) == {Entry(Lines(f)[i].variable, Lines(f)[i].value, f, i) : i \in DOMAIN Lines(f)}
read_server_config == read_config_options(FALSE) \cup read_config_file("tinc.conf")
read_host_config == read_config_options(TRUE) \cup read_config_file("hosts")

(* config_compare, for entries of one variable: the command line comes first *)
(* and then the lower line number, whatever the file.                        *)
(* The definitions called Mut... are faults a property must detect; the      *)
(* specification does not use them.                                          *)
FileOrder(f) == IF f = "hosts" THEN 1 ELSE 2
MutBefore(a, b) == a.line < b.line \/ (a.line = b.line /\ a.file # None /\ b.file = None)
Before(a, b) ==
  IF (a.file = None) # (b.file = None) THEN a.file = None
  ELSE IF a.line # b.line THEN a.line < b.line
  ELSE a.file # None /\ FileOrder(a.file) < FileOrder(b.file)

(* The entries that lookup_config and lookup_config_next return in turn; and *)
(* the first of them.                                                        *)
Found(v) == {e \in config_tree : e.variable = v}
lookup_config(v) ==
  IF Found(v) = {} THEN None
  ELSE (CHOOSE e \in Found(v) : \A o \in Found(v) \ {e} : Before(e, o)).value

(* reload_configuration.  The options for the host are not read again.  A    *)
(* subnet that is not found again has expired; the others are kept or added, *)
(* and every change is broadcast.                                            *)
MutReadAgain == read_server_config \cup read_config_options(FALSE)
ReadAgain == read_server_config \cup read_config_options(FALSE) \cup read_config_file("hosts")
Own(tree) == {e.value : e \in {t \in tree : t.variable = Subnet}}

reload_configuration ==
  LET expired == subnets \ Own(ReadAgain)
      added == Own(ReadAgain) \ subnets
  IN /\ requests > 0
     /\ requests' = requests - 1 /\ reloaded' = TRUE
     /\ config_tree' = ReadAgain
     /\ subnets' = (subnets \cup added) \ expired
     /\ known' = (known \cup added) \ expired
     /\ UNCHANGED <<name, tmp, data, client, commands, join, reference, crossed>>

-----------------------------------------------------------------------------
(* cmd_config *)
Idle == [at |-> "idle", action |-> "none", variable |-> None, value |-> None, in |-> 0, out |-> 0, copy |-> <<>>]

Replaced(lines, v, x) ==
  LET at == {i \in DOMAIN lines : lines[i].variable = v}
      first == CHOOSE i \in at : \A j \in at : i <= j
      new == [variable |-> v, value |-> x]
      Keep(i) == IF i = first THEN <<new>> ELSE IF i \in at THEN <<>> ELSE <<lines[i]>>
  IN IF at = {} THEN Append(lines, new) ELSE FlattenSeq([i \in DOMAIN lines |-> Keep(i)])
Added(lines, v, x) ==
  LET new == [variable |-> v, value |-> x] IN IF Contains(lines, new) THEN lines ELSE Append(lines, new)
MutDeletes(l, v, x) == l.variable = v
Deletes(l, v, x) == l.variable = v /\ x \in {None, l.value}
Deleted(lines, v, x) == SelectSeq(lines, LAMBDA l : ~Deletes(l, v, x))

Edited(lines, action, v, x) ==
  CASE action = "set" -> Replaced(lines, v, x)
    [] action = "add" -> Added(lines, v, x)
    [] action = "del" -> Deleted(lines, v, x)

(* "add" is "set" for a variable that can occur only once. *)
Action(action, v) == IF action = "add" /\ v \notin Multiple THEN "set" ELSE action

(* The other writers of the file, when one begins. *)
Editing(f) == \E c \in Clients : client[c].at \notin {"idle", "notify"} /\ FileOf(client[c].variable) = f
Joining == join.at \notin {"off", "ready", "done"}
Crosses(f) == IF Editing(f) \/ (f = "tinc.conf" /\ Joining) THEN {f} ELSE {}

(* The file is opened to be read, and the temporary file to be written: if   *)
(* there is one already it is emptied.                                       *)
Open(c, e) ==
  LET f == FileOf(e.variable)
      out == IF tmp[f] = None THEN Fresh ELSE tmp[f]
  IN /\ client[c].at = "idle" /\ commands > 0 /\ \A o \in 1..c - 1 : client[o].at # "idle"
     /\ commands' = commands - 1
     /\ client' = [client EXCEPT ![c] = [at |-> "copy", action |-> Action(e.action, e.variable),
                                         variable |-> e.variable, value |-> e.value,
                                         in |-> name[f], out |-> out, copy |-> <<>>]]
     /\ tmp' = [tmp EXCEPT ![f] = out] /\ data' = [data EXCEPT ![out] = <<>>]
     /\ crossed' = crossed \cup Crosses(f)
     /\ UNCHANGED <<name, join, config_tree, reloaded, subnets, known, requests, reference>>

Copy(c) ==
  LET k == client[c]
      new == Edited(data[k.in], k.action, k.variable, k.value)
      removed == k.action # "del" \/ new # data[k.in]
  IN /\ k.at = "copy"
     /\ client' = [client EXCEPT ![c].at = "close", ![c].copy = new, ![c].in = 0,
                                 ![c].action = IF removed THEN @ ELSE "nothing"]
     /\ UNCHANGED <<name, tmp, data, commands, join, config_tree, reloaded, subnets, known, requests, reference, crossed>>

(* fclose(tf) writes what was buffered.  If nothing was deleted the          *)
(* temporary file is removed.                                                *)
CloseTmp(c) ==
  LET k == client[c]
  IN /\ k.at = "close"
     /\ data' = [data EXCEPT ![k.out] = Over(@, k.copy)]
     /\ client' = IF k.action = "nothing" THEN [client EXCEPT ![c].at = "remove", ![c].out = 0, ![c].copy = <<>>]
                  ELSE [client EXCEPT ![c].at = "rename", ![c].out = 0, ![c].copy = <<>>]
     /\ UNCHANGED <<name, tmp, commands, join, config_tree, reloaded, subnets, known, requests, reference, crossed>>

RemoveTmp(c) ==
  /\ client[c].at = "remove"
  /\ tmp' = [tmp EXCEPT ![FileOf(client[c].variable)] = None]
  /\ client' = [client EXCEPT ![c] = Idle]
  /\ UNCHANGED <<name, data, commands, join, config_tree, reloaded, subnets, known, requests, reference, crossed>>

(* History: what each command is for. *)
Intended(s, v, action, x) ==
  CASE action = "set" -> <<x>>
    [] action = "add" -> IF v \notin Multiple THEN <<x>> ELSE IF Contains(s, x) THEN s ELSE Append(s, x)
    [] action = "del" -> IF x = None THEN <<>> ELSE SelectSeq(s, LAMBDA y : y # x)

Rename(c) ==
  LET k == client[c]
      f == FileOf(k.variable)
  IN /\ k.at = "rename"
     /\ IF tmp[f] = None THEN client' = [client EXCEPT ![c] = Idle] /\ UNCHANGED <<name, tmp, reference>>
        ELSE /\ name' = [name EXCEPT ![f] = tmp[f]] /\ tmp' = [tmp EXCEPT ![f] = None]
             /\ client' = [client EXCEPT ![c].at = "notify"]
             /\ reference' = [reference EXCEPT ![k.variable] = Intended(@, k.variable, k.action, k.value)]
     /\ UNCHANGED <<data, commands, join, config_tree, reloaded, subnets, known, requests, crossed>>

Notify(c) ==
  /\ client[c].at = "notify"
  /\ requests' = requests + 1
  /\ client' = [client EXCEPT ![c] = Idle]
  /\ UNCHANGED <<name, tmp, data, commands, join, config_tree, reloaded, subnets, known, reference, crossed>>

-----------------------------------------------------------------------------
(* A daemon that has joined writes its address and its inviter to tinc.conf. *)
(* Neither is read by the daemon until it reloads.                           *)
NoJoin == [at |-> "off", ino |-> 0, content |-> <<>>]
AddressWritten(lines) ==
  IF ValuesOf(lines, VPNAddress) = <<>> THEN Append(lines, [variable |-> VPNAddress, value |-> Address])
  ELSE [i \in DOMAIN lines |-> IF lines[i].variable = VPNAddress THEN [lines[i] EXCEPT !.value = Address] ELSE lines[i]]

Inviting(l) == l.variable = ConnectTo /\ l.value = Invitation
Outviting(lines) == SelectSeq(lines, LAMBDA l : ~Inviting(l))
ToInviter == [variable |-> ConnectTo, value |-> Inviter]
InviterWritten(lines) ==
  IF Contains(lines, ToInviter) THEN Outviting(lines) ELSE Append(Outviting(lines), ToInviter)

Join(step, at, ino, content) == join.at = step /\ join' = [at |-> at, ino |-> ino, content |-> content]
joinUnchanged == <<name, tmp, client, commands, config_tree, reloaded, subnets, known, requests>>

JoinBegin ==
  /\ Join("ready", "address", 0, Lines("tinc.conf"))
  /\ crossed' = crossed \cup IF Editing("tinc.conf") THEN {"tinc.conf"} ELSE {}
  /\ UNCHANGED <<joinUnchanged, data, reference>>

(* fopen(conf_path, "w") empties the file. *)
Truncate(step, at) ==
  /\ Join(step, at, name["tinc.conf"], join.content)
  /\ data' = [data EXCEPT ![name["tinc.conf"]] = <<>>]
  /\ UNCHANGED <<joinUnchanged, reference, crossed>>

write_vpn_address_to_conf ==
  \/ Truncate("address", "address2")
  \/ /\ Join("address2", "read", 0, <<>>)
     /\ data' = [data EXCEPT ![join.ino] = Over(@, AddressWritten(join.content))]
     /\ reference' = [reference EXCEPT ![VPNAddress] = ValuesOf(AddressWritten(join.content), VPNAddress)]
     /\ UNCHANGED <<joinUnchanged, crossed>>

(* Without an entry for the invitation, the line is appended. *)
InviterKnown == reference' = [reference EXCEPT ![ConnectTo] = ValuesOf(InviterWritten(join.content), ConnectTo)]
write_connect_to_conf ==
  \/ Join("read", "inviter", 0, Lines("tinc.conf")) /\ UNCHANGED <<joinUnchanged, data, reference, crossed>>
  \/ (\E l \in ToSet(join.content) : Inviting(l)) /\ Truncate("inviter", "inviter2")
  \/ /\ Join("inviter2", "done", 0, <<>>) /\ InviterKnown
     /\ data' = [data EXCEPT ![join.ino] = Over(@, InviterWritten(join.content))]
     /\ UNCHANGED <<joinUnchanged, crossed>>
  \/ /\ ~\E l \in ToSet(join.content) : Inviting(l)
     /\ Join("inviter", "done", 0, <<>>) /\ InviterKnown
     /\ data' = [data EXCEPT ![name["tinc.conf"]] = IF Contains(join.content, ToInviter) THEN @ ELSE Append(@, ToInviter)]
     /\ UNCHANGED <<joinUnchanged, crossed>>

-----------------------------------------------------------------------------
(* setup_myself has read the files, and the options of both kinds. *)
Init ==
  /\ name = [f \in Files |-> IF f = "tinc.conf" THEN 1 ELSE 2] /\ tmp = [f \in Files |-> None]
  /\ \E i \in Initial : data = [j \in Inodes |-> IF j = 1 THEN i["tinc.conf"] ELSE IF j = 2 THEN i["hosts"] ELSE <<>>]
  /\ client = [c \in Clients |-> Idle] /\ commands = Commands
  /\ join \in {NoJoin, [NoJoin EXCEPT !.at = "ready"]}
  /\ config_tree = read_server_config \cup read_host_config
  /\ subnets = Own(config_tree) /\ known = Own(config_tree)
  /\ reloaded = FALSE /\ requests = 0 /\ crossed = {}
  /\ reference = [v \in Variables |-> ValuesOf(Lines(FileOf(v)), v)]

cmd_config(c) == Copy(c) \/ CloseTmp(c) \/ RemoveTmp(c) \/ Rename(c) \/ Notify(c)
Command(c) == \E e \in Edits : Open(c, e)
JoinStep == JoinBegin \/ write_vpn_address_to_conf \/ write_connect_to_conf

Next == reload_configuration \/ JoinStep \/ \E c \in Clients : Command(c) \/ cmd_config(c)

(* Processes run, and tincd reads its control connections. *)
Fairness == WF_vars(reload_configuration) /\ \A c \in Clients : WF_vars(cmd_config(c))

Spec == Init /\ [][Next]_vars /\ Fairness

-----------------------------------------------------------------------------
TypeOK ==
  /\ name \in [Files -> Inodes] /\ tmp \in [Files -> Inodes \cup {None}]
  /\ crossed \subseteq Files /\ requests \in 0..Commands

(* Every variable has the values that the commands and the join gave it, in  *)
(* order, at every moment and not only when cmd_config is done, as long as   *)
(* no two writers are at work on its file; only a join shows an empty file   *)
(* meanwhile.  No command loses or doubles what another one wrote.           *)
EditsKept ==
  \A v \in Variables :
    FileOf(v) \in crossed \/ (v \in ServerVariables /\ join.ino # 0) \/ ValuesOf(Lines(FileOf(v)), v) = reference[v]

(* What tincd was told on its command line goes before what is in its files, *)
(* after any number of reloads, too: except options for its own host, which  *)
(* the first reload forgets (reload_configuration does not use               *)
(* read_host_config).                                                        *)
OptionsWin ==
  \A i \in DOMAIN Options :
    LET same == {j \in DOMAIN Options : Options[j].variable = Options[i].variable}
    IN (\A j \in same : i <= j) /\ ~(Options[i].host /\ reloaded) =>
         lookup_config(Options[i].variable) = Options[i].value

(* No writer is at work, and tincd has what the files say. *)
Quiet == (\A c \in Clients : client[c].at = "idle") /\ crossed = {} /\ join.at \in {"off", "ready"}
UpToDate ==
  /\ \A v \in Variables : {e \in Found(v) : e.file # None} = {e \in read_config_file(FileOf(v)) : e.variable = v}
  /\ known = Own(config_tree)

(* tincd gets to know of every edit, and tells the other nodes: once no      *)
(* command is at work tincd has the files as they are, and the others know   *)
(* its subnets, unless writers met, or a join wrote, which tells nobody.     *)
DaemonFollows == Quiet ~> (UpToDate \/ ~Quiet)
=============================================================================
