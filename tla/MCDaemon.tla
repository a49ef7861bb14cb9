------------------------------ MODULE MCDaemon ------------------------------
(* The processes of one network, and its configuration: two machines that    *)
(* share no state, of which each behaviour runs one.                         *)
EXTENDS Daemon, Sequences

CONSTANTS VPNAddress, ConnectTo, Subnet, Address, Inviter, Invitation

VARIABLES part, names, tmp, data, editors, edits, join, config_tree, reloaded, subnets, known, requests, reference, crossed

MCBudgets == {<<3, 0>>, <<2, 1>>}

Line(v, x) == [variable |-> v, value |-> x]
MCOptions == <<[host |-> TRUE, variable |-> Subnet, value |-> Address],
               [host |-> FALSE, variable |-> ConnectTo, value |-> Address]>>
MCInitial ==
  {[f \in {"tinc.conf", "hosts"} |-> IF f = "hosts" THEN <<Line(Subnet, Inviter)>> ELSE i] :
     i \in {<<Line(ConnectTo, Invitation), Line(VPNAddress, Inviter), Line(ConnectTo, Inviter)>>,
            <<Line(ConnectTo, Inviter), Line(ConnectTo, Address)>>}}

Edit(a, v, x) == [action |-> a, variable |-> v, value |-> x]
MCEdits ==
  {Edit("set", ConnectTo, Address), Edit("del", ConnectTo, Inviter),
   Edit("add", Subnet, Address), Edit("del", Subnet, None)}

C == INSTANCE Config WITH
  ServerVariables <- {VPNAddress, ConnectTo}, HostVariables <- {Subnet}, Multiple <- {ConnectTo, Subnet},
  Edits <- MCEdits, Options <- MCOptions, Initial <- MCInitial, Commands <- 2, Inodes <- 1..6,
  name <- names, client <- editors, commands <- edits

configVars == <<names, tmp, data, editors, edits, join, config_tree, reloaded, subnets, known, requests, reference, crossed>>

MCInit ==
  /\ part \in {"daemon", "config"}
  /\ Init /\ C!Init
  /\ part = "daemon" => join = C!NoJoin /\ Len(data[1]) = 2
  /\ part = "config" => kills = 0
MCNext ==
  /\ UNCHANGED part
  /\ \/ part = "daemon" /\ Next /\ UNCHANGED configVars
     \/ part = "config" /\ C!Next /\ UNCHANGED vars

(* Fairness of Daemon and of Config, each for its own part. *)
MCFairness ==
  /\ \A d \in Pids : WF_vars(part = "daemon" /\ tincd(d))
  /\ \A c \in Clients : WF_vars(part = "daemon" /\ tinc(c))
  /\ WF_configVars(part = "config" /\ C!reload_configuration)
  /\ \A c \in C!Clients : WF_configVars(part = "config" /\ C!cmd_config(c))
MCSpec == MCInit /\ [][MCNext]_<<part, vars, configVars>> /\ MCFairness

(* The files have the values that the edits gave their variables: see        *)
(* Config.                                                                   *)
EditsKept == part = "config" => C!EditsKept
(* Options on the command line go before the files: see Config. *)
OptionsWin == part = "config" => C!OptionsWin
(* tincd has the configuration of the files once edits are done: see Config. *)
DaemonFollows == part = "config" => C!DaemonFollows
=============================================================================
