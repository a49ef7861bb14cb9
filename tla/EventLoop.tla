----------------------------- MODULE EventLoop ------------------------------
(* The event loop of event.c: io_tree, timeout_tree, signals and select().   *)
(* Time is what is left until a timeout: -1 when it has passed.  What a      *)
(* callback may do to the loop is what those of the daemon do: close a       *)
(* connection, its own or another, accept one, change what it waits for, arm *)
(* or delete a timeout, stop the loop.                                       *)
EXTENDS Integers, Sequences, FiniteSets

CONSTANTS
  Ios,            \* the io_t's of connections
  Pipe,           \* signalio, the reading end of the pipe of signals
  Fds,            \* file descriptors of connections
  Started,        \* those open when the loop starts
  Listener,       \* the io_t of the socket of init_control
  PipeFd,
  Periodic,       \* pingtimer, periodictimer: timeouts whose callback sets them again
  OneShot,        \* timeouts armed by others
  MaxDelay,
  None,
  MaxOps,         \* what callbacks do, in all
  MaxSignals

ASSUME IosAssumption == Pipe \notin Ios /\ None \notin Ios \cup {Pipe} /\ MaxOps \in Nat
ASSUME FdsAssumption == Fds \subseteq Nat /\ PipeFd \in Nat \ Fds /\ None \notin Fds \cup {PipeFd}
ASSUME StartedAssumption ==
  /\ DOMAIN Started \subseteq Ios
  /\ \A i \in DOMAIN Started : Started[i] \in Fds
  /\ \A i, j \in DOMAIN Started : Started[i] = Started[j] => i = j

Timeouts == Periodic \cup OneShot
Off == [cb |-> FALSE, fd |-> None, flags |-> {}]

VARIABLES
  running, phase,       \* where event_loop is
  io,                   \* the fields of each io_t; cb is set while it is in io_tree
  readfds, writefds,
  generation, curgen,
  readable, writable,   \* what select returned
  current, next,        \* the loop variables of splay_each, or the timeout that expired
  tv,                   \* what is left of each timeout in timeout_tree, None for the others
  pipe,                 \* signals that signal_handler wrote
  ops, signals,         \* bounds
  reused,               \* history: file descriptors registered anew since select returned
  stale                 \* history: a callback was called for an event of another io_t

ioVars == <<io, readfds, writefds, generation>>
walkVars == <<curgen, readable, writable, current, next>>
vars == <<running, phase, ioVars, walkVars, tv, pipe, ops, signals, reused, stale>>

AllIos == Ios \cup {Pipe}
io_tree == {i \in AllIos : io[i].cb}
First(S) == IF S = {} THEN None ELSE CHOOSE i \in S : \A j \in S : io[i].fd <= io[j].fd
After(i) == First({j \in io_tree : io[j].fd > io[i].fd})

Init ==
  /\ running = TRUE /\ phase = "time"
  /\ io = [i \in AllIos |-> IF i = Pipe THEN [cb |-> TRUE, fd |-> PipeFd, flags |-> {"read"}]
                            ELSE IF i \in DOMAIN Started THEN [cb |-> TRUE, fd |-> Started[i], flags |-> {"read"}]
                            ELSE Off]
  /\ readfds = {io[i].fd : i \in io_tree} /\ writefds = {}
  /\ generation = 0 /\ curgen = 0
  /\ readable = {} /\ writable = {} /\ current = None /\ next = None
  /\ tv = [t \in Timeouts |-> IF t \in Periodic THEN 0 ELSE None]
  /\ pipe = <<>> /\ ops = 0 /\ signals = 0 /\ reused = {} /\ stale = FALSE

-----------------------------------------------------------------------------
(* io_set, on the io_t as it will be. *)
FdSet(set, fd, on) == IF on THEN set \cup {fd} ELSE set \ {fd}

io_set(i, flags) ==
  IF flags = io[i].flags THEN UNCHANGED <<readfds, writefds>>
  ELSE /\ readfds' = FdSet(readfds, io[i].fd, "read" \in flags)
       /\ writefds' = FdSet(writefds, io[i].fd, "write" \in flags)

(* The generation of splay_insert_node and splay_unlink_node, which wraps. *)
MutBumped == generation
Bumped == (generation + 1) % (MaxOps + 1)

io_add(i, fd, flags) ==
  /\ ~io[i].cb
  /\ io' = [io EXCEPT ![i] = [cb |-> TRUE, fd |-> fd, flags |-> flags]]
  /\ readfds' = FdSet(readfds, fd, "read" \in flags)
  /\ writefds' = FdSet(writefds, fd, "write" \in flags)
  /\ generation' = Bumped
  /\ reused' = reused \cup {fd}

io_del(i) ==
  /\ io[i].cb
  /\ io_set(i, {})
  /\ io' = [io EXCEPT ![i] = Off]
  /\ generation' = Bumped
  /\ reused' = reused \cup {io[i].fd}

-----------------------------------------------------------------------------
(* timeout_set unlinks the timeout if it is set; timeout_del clears it. *)
timeout_set(t, delay) == tv' = [tv EXCEPT ![t] = delay]
timeout_del(t) == tv' = [tv EXCEPT ![t] = None]

Armed == {t \in Timeouts : tv[t] # None}
Soonest == CHOOSE t \in Armed : \A u \in Armed : tv[t] <= tv[u]

(* get_time_remaining: diff->tv_sec < 0. *)
MutExpired(t) == tv[t] <= 0
Expired(t) == tv[t] < 0

Expire ==
  /\ phase = "time" /\ Armed # {} /\ Expired(Soonest)
  /\ current' = Soonest
  /\ phase' = "timeout"
  /\ UNCHANGED <<running, ioVars, curgen, readable, writable, next, tv, pipe, ops, signals, reused, stale>>

(* The callback of a periodic timeout ends with timeout_set; what another    *)
(* did not set again is deleted.                                             *)
ExpireDone ==
  /\ phase = "timeout"
  /\ IF current \in Periodic
     THEN \E delay \in 0..MaxDelay : timeout_set(current, delay)
     ELSE IF tv[current] # None /\ tv[current] < 0 THEN timeout_del(current) ELSE UNCHANGED tv
  /\ phase' = "time" /\ current' = None
  /\ UNCHANGED <<running, ioVars, curgen, readable, writable, next, pipe, ops, signals, reused, stale>>

-----------------------------------------------------------------------------
(* select() returns after some time, which is less than what is left of the  *)
(* first timeout if something is ready; the pipe is ready if it is not       *)
(* empty.  Time passes as it likes while the process is not scheduled.       *)
Passed(d) == [t \in Timeouts |-> IF tv[t] = None THEN None ELSE IF tv[t] < d THEN -1 ELSE tv[t] - d]

Select ==
  /\ phase = "time"
  /\ Armed = {} \/ ~Expired(Soonest)
  /\ \E R \in SUBSET (readfds \ {PipeFd}), W \in SUBSET writefds, d \in 0..MaxDelay + 1 :
       /\ readable' = R \cup (IF pipe = <<>> THEN {} ELSE readfds \cap {PipeFd})
       /\ writable' = W
       /\ tv' = Passed(d)
       /\ readable' \cup W = {} => Armed # {} /\ d > tv[Soonest]
  /\ IF readable' \cup writable' = {}
     THEN UNCHANGED <<phase, current, next, curgen>>
     ELSE /\ phase' = "walk" /\ current' = First(io_tree) /\ next' = None
          /\ curgen' = generation
  /\ reused' = {}
  /\ UNCHANGED <<running, ioVars, pipe, ops, signals, stale>>

(* One turn of splay_each: next is read before the body.  An io_t that is    *)
(* not registered is one that was freed.  After the last, event_loop returns *)
(* unless it is to go on running.                                            *)
Ready(i) == io[i].fd \in writable \cup readable

Walk ==
  /\ phase = "walk"
  /\ IF current = None THEN phase' = (IF running THEN "time" ELSE "off") /\ UNCHANGED <<current, next, stale>>
     ELSE IF ~io[current].cb THEN stale' = TRUE /\ UNCHANGED <<phase, current, next>>
     ELSE IF Ready(current)
     THEN /\ phase' = "callback" /\ next' = After(current)
          /\ stale' = (stale \/ io[current].fd \in reused)
          /\ UNCHANGED current
     ELSE current' = After(current) /\ UNCHANGED <<phase, next, stale>>
  /\ UNCHANGED <<running, ioVars, curgen, readable, writable, tv, pipe, ops, signals, reused>>

(* The loop ends when a callback has changed the tree. *)
GoesOn == curgen = generation

CallbackDone ==
  /\ phase = "callback"
  /\ current' = IF GoesOn THEN next ELSE None
  /\ next' = None /\ phase' = "walk"
  /\ IF current = Pipe /\ pipe # <<>>
     THEN /\ pipe' = Tail(pipe)
          /\ running' = (running /\ Head(pipe) # "TERM")
     ELSE UNCHANGED <<pipe, running>>
  /\ UNCHANGED <<ioVars, curgen, readable, writable, tv, ops, signals, reused, stale>>

-----------------------------------------------------------------------------
(* What a callback does. *)
InCallback == phase \in {"callback", "timeout"} /\ ops < MaxOps /\ ops' = ops + 1

(* terminate_connection: free_connection calls io_del and closes the socket. *)
Close(i) ==
  /\ InCallback /\ i # Listener /\ io_del(i)
  /\ UNCHANGED <<running, phase, walkVars, tv, pipe, signals, stale>>

(* accept() and socket() return the lowest file descriptor that is free. *)
Accept(i, flags) ==
  /\ InCallback
  /\ \E fd \in Fds :
       /\ fd \notin {io[j].fd : j \in io_tree}
       /\ \A lower \in Fds : lower < fd => lower \in {io[j].fd : j \in io_tree}
       /\ io_add(i, fd, flags)
  /\ UNCHANGED <<running, phase, walkVars, tv, pipe, signals, stale>>

(* handle_meta_write: outbuf is empty. *)
WaitFor(flags) ==
  /\ InCallback /\ phase = "callback" /\ current \in Ios /\ io[current].cb
  /\ io_set(current, flags)
  /\ io' = [io EXCEPT ![current].flags = flags]
  /\ UNCHANGED <<running, phase, walkVars, tv, pipe, signals, generation, reused, stale>>

(* event_exit, called by control_h for REQ_STOP. *)
Exit ==
  /\ InCallback /\ phase = "callback" /\ current \in Ios /\ running
  /\ running' = FALSE
  /\ UNCHANGED <<phase, ioVars, walkVars, tv, pipe, signals, reused, stale>>

ArmTimeout(t) ==
  /\ InCallback /\ t \in OneShot
  /\ \E delay \in 0..MaxDelay : timeout_set(t, delay)
  /\ UNCHANGED <<running, phase, ioVars, walkVars, pipe, signals, reused, stale>>

DeleteTimeout(t) ==
  /\ InCallback /\ t \in OneShot /\ tv[t] # None
  /\ timeout_del(t)
  /\ UNCHANGED <<running, phase, ioVars, walkVars, pipe, signals, reused, stale>>

(* retry(), on SIGALRM and on request: pingtimer expires at once. *)
Retry(t) ==
  /\ InCallback /\ phase = "callback" /\ t \in Periodic
  /\ timeout_set(t, 0)
  /\ UNCHANGED <<running, phase, ioVars, walkVars, pipe, signals, reused, stale>>

(* The signal_handler of the process, at any time. *)
Signal(s) ==
  /\ phase # "off" /\ signals < MaxSignals
  /\ pipe' = Append(pipe, s) /\ signals' = signals + 1
  /\ UNCHANGED <<running, phase, ioVars, walkVars, tv, ops, reused, stale>>

Operate ==
  \/ \E i \in Ios : Close(i) \/ Accept(i, {"read"}) \/ Accept(i, {"read", "write"})
  \/ WaitFor({"read"}) \/ Exit
  \/ \E t \in Timeouts : ArmTimeout(t) \/ DeleteTimeout(t) \/ Retry(t)

Loop == Expire \/ ExpireDone \/ Select \/ Walk \/ CallbackDone

Next == Loop \/ Operate \/ \E s \in {"TERM", "HUP"} : Signal(s)

(* The thread runs. *)
Spec == Init /\ [][Next]_vars /\ WF_vars(Loop)

-----------------------------------------------------------------------------
TypeOK ==
  /\ phase \in {"time", "timeout", "walk", "callback", "off"}
  /\ io \in [AllIos -> [cb : BOOLEAN, fd : Fds \cup {PipeFd, None}, flags : SUBSET {"read", "write"}]]
  /\ tv \in [Timeouts -> {None} \cup -1..MaxDelay]

(* A callback is called only for an io_t that is registered and only for an  *)
(* event that select reported for it, not for one of a connection that a     *)
(* callback before it closed and whose file descriptor has a new owner; and  *)
(* select waits for what the registered io_t's ask for.                      *)
EventIsCurrent ==
  /\ ~stale
  /\ readfds = {io[i].fd : i \in {j \in io_tree : "read" \in io[j].flags}}
  /\ writefds = {io[i].fd : i \in {j \in io_tree : "write" \in io[j].flags}}

(* A signal is handled, however soon the callbacks of timeouts expire again, *)
(* unless the loop is stopped first; and after SIGTERM, or a request to      *)
(* stop, the loop ends.                                                      *)
SignalHandled ==
  /\ pipe # <<>> ~> (pipe = <<>> \/ phase = "off")
  /\ ~running ~> phase = "off"
=============================================================================
