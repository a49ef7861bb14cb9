------------------------------ MODULE QuicConn ------------------------------
(***************************************************************************)
(* The life of one QUIC connection context, quic_connection_t ("qc"), and  *)
(* of the connection_t ("c") it belongs to, from src/src/quic.c.           *)
(*                                                                         *)
(* qc is shared by the MsQuic worker that runs the callbacks of this       *)
(* connection and by the threads that send on the connection or close it:  *)
(* the event loop, and the workers of other connections, whose handlers    *)
(* forward packets and terminate connections.  No lock protects it: qc     *)
(* has an atomic reference count and an atomic closing flag, c has         *)
(* neither.                                                                *)
(*                                                                         *)
(* Each step below contains at most one access that another thread can     *)
(* interleave with.  A thread is at pc[t] inside quic_send_meta,           *)
(* quic_send_packet or free_connection; the worker is in addition at cb    *)
(* inside quic_connection_callback or quic_stream_callback, and while it   *)
(* is in the body of a callback it can itself be in one of the operations. *)
(* MsQuic is external: it is modelled by the events the callbacks handle.  *)
(* A step that dereferences freed memory is recorded in "misuse"; after a  *)
(* use of a freed qc nothing more is said of the execution.                *)
(***************************************************************************)
EXTENDS Integers, FiniteSets

CONSTANTS
  Threads,            \* threads other than the worker that handle this connection
  Worker,             \* the MsQuic worker that runs this connection's callbacks
  Senders, Closers,   \* the processes that may send on it, or free it
  Dgrams, Metas,      \* the datagram and stream send buffers in use at once
  StreamCloseWaits,   \* does StreamClose wait for the running callback?
  ConfigurationFails  \* may ConnectionSetConfiguration fail in the listener?

Procs == Threads \cup {Worker}

ASSUME ThreadsAssumption == IsFiniteSet(Threads) /\ Worker \notin Threads
ASSUME RolesAssumption == Senders \subseteq Procs /\ Closers \subseteq Procs
ASSUME FlagsAssumption == StreamCloseWaits \in BOOLEAN /\ ConfigurationFails \in BOOLEAN

VARIABLES
  (* quic_connection_t *)
  qc_mem,             \* "alloc" or "freed"
  refcount, closing,
  tinc_connection,    \* is qc->tinc_connection set?
  connection,         \* is qc->connection set?
  connected,
  control_stream,     \* is qc->control_stream set?
  control_stream_open,
  (* connection_t *)
  c_mem,              \* "alloc" or "freed"
  quic_context,       \* is c->quic_context set?
  outgoing,           \* is c->outgoing (or status.invitation) set?
  (* MsQuic *)
  mq,                 \* "handshake", "up", "down", or "done"
  stream,             \* the control stream's handle
  dgram, meta,        \* who has each send buffer
  (* control state *)
  pc, kind,           \* of each process inside an operation
  cb, ev, wc,         \* of the worker: place, event, its local pointer c
  misuse              \* which of qc, c, stream were used after they were freed

qcVars  == <<qc_mem, refcount, closing, tinc_connection, connection, connected,
             control_stream, control_stream_open>>
cVars   == <<c_mem, quic_context, outgoing>>
mqVars  == <<mq, stream, dgram, meta>>
pcVars  == <<pc, kind>>
cbVars  == <<cb, ev, wc>>
vars    == <<qcVars, cVars, mqVars, pcVars, cbVars, misuse>>

PcValues == {"idle", "s_load", "s_addref", "s_recheck", "s_check", "s_send", "s_release",
             "c_closing", "c_stream", "c_context", "c_detach", "c_shutdown", "c_release",
             "c_free"}
CbValues == {"idle", "check", "addref", "recheck", "body", "nested", "release", "complete"}
ConnEvents   == {"CERTIFICATE", "CONNECTED", "SHUTDOWN_INITIATED", "PEER_STREAM",
                 "PEER_ADDRESS", "DATAGRAM_RECEIVED", "DATAGRAM_STATE"}
StreamEvents == {"RECEIVE", "SEND_COMPLETE", "STREAM_SHUTDOWN"}
NoBuf == "nobuf"

TypeOK ==
  /\ qc_mem \in {"alloc", "freed"}
  /\ refcount \in Int
  /\ closing \in BOOLEAN
  /\ tinc_connection \in BOOLEAN
  /\ connection \in BOOLEAN
  /\ connected \in BOOLEAN
  /\ control_stream \in BOOLEAN
  /\ control_stream_open \in BOOLEAN
  /\ c_mem \in {"alloc", "freed"}
  /\ quic_context \in BOOLEAN
  /\ outgoing \in BOOLEAN
  /\ mq \in {"handshake", "up", "down", "done"}
  /\ stream \in {"none", "open", "down", "closed"}
  /\ dgram \in [Dgrams -> {"free", "sent", "leaked"}]
  /\ meta \in [Metas -> {"free", "sent", "leaked"}]
  /\ pc \in [Procs -> PcValues]
  /\ kind \in [Procs -> {"packet", "meta"}]
  /\ cb \in CbValues
  /\ ev \in [type: ConnEvents \cup StreamEvents, buf: Dgrams \cup Metas \cup {NoBuf}]
  /\ wc \in BOOLEAN
  /\ misuse \subseteq {"qc", "c", "stream"}

(* The definitions called Mut... are faults a property must detect; the      *)
(* specification does not use them.  Here: no reference is taken for MsQuic. *)
MutInitialRefcount == 1

(* A context as quic_listener_callback (incoming) or quic_connection_open    *)
(* (outgoing) leaves it: one reference for tinc, one for MsQuic.             *)
InitialRefcount == 2

Init ==
  /\ refcount = InitialRefcount
  /\ closing = FALSE
  /\ tinc_connection = TRUE
  /\ connection = TRUE
  /\ connected = FALSE
  /\ control_stream = FALSE
  /\ control_stream_open = FALSE
  /\ c_mem = "alloc"
  /\ quic_context = TRUE
  /\ outgoing \in BOOLEAN
  /\ stream = "none"
  /\ dgram = [d \in Dgrams |-> "free"]
  /\ meta = [m \in Metas |-> "free"]
  /\ kind = [t \in Procs |-> "meta"]
  /\ cb = "idle"
  /\ ev = [type |-> "CERTIFICATE", buf |-> NoBuf]
  /\ wc = FALSE
  /\ misuse = {}
  /\ \/ /\ qc_mem = "alloc"
        /\ mq = "handshake"
        /\ pc = [t \in Procs |-> "idle"]
     \/ \* ConnectionSetConfiguration failed: free(qc), then free_connection(c),
        \* on a connection MsQuic has refused
        /\ ConfigurationFails /\ ~outgoing
        /\ qc_mem = "freed"
        /\ mq = "done"
        /\ pc = [t \in Procs |-> IF t = Worker THEN "c_closing" ELSE "idle"]

-----------------------------------------------------------------------------
(* The reference count. *)

Crashed == "qc" \in misuse

qc_addref == refcount' = refcount + 1 /\ UNCHANGED qc_mem

qc_release ==
  /\ refcount' = refcount - 1
  /\ qc_mem' = IF refcount = 1 THEN "freed" ELSE qc_mem

(* What the next step of a process dereferences. *)
UsesQc(t) == pc[t] \notin {"idle", "c_context", "c_free"}
CallbackUsesQc == cb # "idle"

(* The first use of qc after it was freed. *)
UseAfterFree ==
  /\ ~Crashed
  /\ qc_mem = "freed"
  /\ (\E t \in Procs : UsesQc(t)) \/ CallbackUsesQc
  /\ misuse' = misuse \cup {"qc"}
  /\ UNCHANGED <<qcVars, cVars, mqVars, pcVars, cbVars>>

(* Every other step needs qc allocated if it dereferences it. *)
QcStep(t, from, to) ==
  /\ ~Crashed
  /\ qc_mem = "alloc"
  /\ pc[t] = from
  /\ pc' = [pc EXCEPT ![t] = to]

TouchConnection == misuse' = IF c_mem = "freed" THEN misuse \cup {"c"} ELSE misuse

(* The worker is in an operation only from the body of a callback; another  *)
(* thread finds c in connection_list or as node->connection.                *)
MayStart(t) ==
  /\ ~Crashed
  /\ pc[t] = "idle"
  /\ IF t = Worker THEN cb = "nested" ELSE c_mem = "alloc"

(* What a read of c->quic_context yields; anything, once c is freed. *)
ReadContext == IF c_mem = "alloc" THEN {quic_context} ELSE BOOLEAN

-----------------------------------------------------------------------------
(* quic_send_packet and quic_send_meta. *)

SendStart(t, k) ==
  /\ MayStart(t)
  /\ TouchConnection
  /\ \E context \in ReadContext :
       pc' = [pc EXCEPT ![t] = IF context THEN "s_load" ELSE "idle"]
  /\ kind' = [kind EXCEPT ![t] = k]
  /\ UNCHANGED <<qcVars, cVars, mqVars, cbVars>>

SendLoadClosing(t) ==
  /\ QcStep(t, "s_load", IF closing THEN "idle" ELSE "s_addref")
  /\ UNCHANGED <<qcVars, cVars, mqVars, kind, cbVars, misuse>>

SendAddref(t) ==
  /\ QcStep(t, "s_addref", "s_recheck")
  /\ qc_addref
  /\ UNCHANGED <<closing, tinc_connection, connection, connected, control_stream,
                 control_stream_open, cVars, mqVars, kind, cbVars, misuse>>

(* Keeps the reference when it gives up. *)
MutSendRecheck(t) ==
  /\ QcStep(t, "s_recheck", IF closing THEN "idle" ELSE "s_check")
  /\ UNCHANGED <<qcVars, cVars, mqVars, kind, cbVars, misuse>>

SendRecheck(t) ==
  /\ QcStep(t, "s_recheck", IF closing THEN "idle" ELSE "s_check")
  /\ IF closing THEN qc_release ELSE UNCHANGED <<refcount, qc_mem>>
  /\ UNCHANGED <<closing, tinc_connection, connection, connected, control_stream,
                 control_stream_open, cVars, mqVars, kind, cbVars, misuse>>

(* A packet needs qc->connected, a meta message qc->control_stream_open. *)
SendCheck(t) ==
  /\ LET ready == IF kind[t] = "packet" THEN connected ELSE control_stream_open
     IN QcStep(t, "s_check", IF ready THEN "s_send" ELSE "s_release")
  /\ UNCHANGED <<qcVars, cVars, mqVars, kind, cbVars, misuse>>

(* StreamSend: the buffer is MsQuic's if it accepts the send, else freed.  *)
StreamSend ==
  /\ misuse' = IF stream = "closed" THEN misuse \cup {"stream"} ELSE misuse
  /\ \/ UNCHANGED meta
     \/ \E m \in Metas : /\ meta[m] = "free"
                         /\ mq = "up" /\ stream = "open"
                         /\ meta' = [meta EXCEPT ![m] = "sent"]

SendMeta(t) ==
  /\ kind[t] = "meta"
  /\ QcStep(t, "s_send", "s_release")
  /\ StreamSend
  /\ UNCHANGED <<qcVars, cVars, mq, stream, dgram, kind, cbVars>>

(* The HEADERS frame a packet is now and then preceded by. *)
SendHeadersFrame(t) ==
  /\ kind[t] = "packet"
  /\ QcStep(t, "s_send", "s_send")
  /\ control_stream_open
  /\ StreamSend
  /\ UNCHANGED <<qcVars, cVars, mq, stream, dgram, kind, cbVars>>

(* A packet that is too large, a cleared qc->connection or a failed         *)
(* DatagramSend release the buffer again.                                   *)
SendPacket(t) ==
  /\ kind[t] = "packet"
  /\ QcStep(t, "s_send", "s_release")
  /\ \/ UNCHANGED dgram
     \/ \E d \in Dgrams : /\ dgram[d] = "free"
                          /\ connection /\ mq = "up"
                          /\ dgram' = [dgram EXCEPT ![d] = "sent"]
  /\ UNCHANGED <<qcVars, cVars, mq, stream, meta, kind, cbVars, misuse>>

SendRelease(t) ==
  /\ QcStep(t, "s_release", "idle")
  /\ qc_release
  /\ UNCHANGED <<closing, tinc_connection, connection, connected, control_stream,
                 control_stream_open, cVars, mqVars, kind, cbVars, misuse>>

-----------------------------------------------------------------------------
(* free_connection and the quic_connection_close it calls. *)

CloseStart(t) ==
  /\ MayStart(t)
  /\ TouchConnection
  /\ \E context \in ReadContext :
       pc' = [pc EXCEPT ![t] = IF context THEN "c_closing" ELSE "c_free"]
  /\ UNCHANGED <<qcVars, cVars, mqVars, kind, cbVars>>

CloseExchange(t) ==
  /\ QcStep(t, "c_closing", IF closing THEN "c_free" ELSE "c_stream")
  /\ closing' = TRUE
  /\ UNCHANGED <<qc_mem, refcount, tinc_connection, connection, connected, control_stream,
                 control_stream_open, cVars, mqVars, kind, cbVars, misuse>>

(* MsQuic's StreamClose; the handle must not be closed a second time. *)
StreamClose ==
  /\ stream' = "closed"
  /\ misuse' = IF stream = "closed" THEN misuse \cup {"stream"} ELSE misuse

CloseStream(t) ==
  /\ QcStep(t, "c_stream", "c_context")
  /\ IF control_stream
     THEN /\ StreamCloseWaits /\ t # Worker => cb = "idle"
          /\ StreamClose
          /\ control_stream' = FALSE
          /\ control_stream_open' = FALSE
     ELSE UNCHANGED <<stream, misuse, control_stream, control_stream_open>>
  /\ UNCHANGED <<qc_mem, refcount, closing, tinc_connection, connection, connected,
                 cVars, mq, dgram, meta, kind, cbVars>>

CloseContext(t) ==
  /\ ~Crashed
  /\ pc[t] = "c_context"
  /\ pc' = [pc EXCEPT ![t] = "c_detach"]
  /\ TouchConnection
  /\ quic_context' = FALSE
  /\ UNCHANGED <<qcVars, c_mem, outgoing, mqVars, kind, cbVars>>

CloseDetach(t) ==
  /\ QcStep(t, "c_detach", "c_shutdown")
  /\ tinc_connection' = FALSE
  /\ connected' = FALSE
  /\ UNCHANGED <<qc_mem, refcount, closing, connection, control_stream, control_stream_open,
                 cVars, mqVars, kind, cbVars, misuse>>

CloseShutdown(t) ==
  /\ QcStep(t, "c_shutdown", "c_release")
  /\ mq' = IF connection /\ mq \in {"handshake", "up"} THEN "down" ELSE mq
  /\ UNCHANGED <<qcVars, cVars, stream, dgram, meta, kind, cbVars, misuse>>

CloseRelease(t) ==
  /\ QcStep(t, "c_release", "c_free")
  /\ qc_release
  /\ UNCHANGED <<closing, tinc_connection, connection, connected, control_stream,
                 control_stream_open, cVars, mqVars, kind, cbVars, misuse>>

FreeConnection(t) ==
  /\ ~Crashed
  /\ pc[t] = "c_free"
  /\ pc' = [pc EXCEPT ![t] = "idle"]
  /\ TouchConnection
  /\ c_mem' = "freed"
  /\ UNCHANGED <<qcVars, quic_context, outgoing, mqVars, kind, cbVars>>

-----------------------------------------------------------------------------
(* The callbacks.  MsQuic runs one at a time for a connection. *)

Sent(buffers, b) == b \in DOMAIN buffers /\ buffers[b] = "sent"

(* When MsQuic indicates an event, and what has happened to it by then. *)
Indicate(type, b) ==
  CASE type = "CERTIFICATE"        -> b = NoBuf /\ mq = "handshake" /\ UNCHANGED <<mq, stream>>
    [] type = "CONNECTED"          -> b = NoBuf /\ mq = "handshake" /\ mq' = "up"
                                      /\ UNCHANGED stream
    [] type = "SHUTDOWN_INITIATED" -> b = NoBuf /\ mq \in {"handshake", "up"} /\ mq' = "down"
                                      /\ UNCHANGED stream
    [] type = "PEER_STREAM"        -> b = NoBuf /\ mq = "up" /\ stream = "none" /\ ~outgoing
                                      /\ stream' = "open" /\ UNCHANGED mq
    [] type = "PEER_ADDRESS"       -> b = NoBuf /\ mq = "up" /\ UNCHANGED <<mq, stream>>
    [] type = "DATAGRAM_RECEIVED"  -> b = NoBuf /\ mq = "up" /\ UNCHANGED <<mq, stream>>
    [] type = "DATAGRAM_STATE"     -> Sent(dgram, b) /\ UNCHANGED <<mq, stream>>
    [] type = "RECEIVE"            -> b = NoBuf /\ mq = "up" /\ stream = "open"
                                      /\ UNCHANGED <<mq, stream>>
    [] type = "SEND_COMPLETE"      -> Sent(meta, b) /\ UNCHANGED <<mq, stream>>
    [] type = "STREAM_SHUTDOWN"    -> b = NoBuf /\ mq \in {"up", "down"} /\ stream = "open"
                                      /\ stream' = "down" /\ UNCHANGED mq

(* Lines 864 and 1274: the callback takes c from qc before it has a reference. *)
CallbackStart(type, b) ==
  /\ ~Crashed /\ cb = "idle" /\ mq # "done" /\ pc[Worker] = "idle"
  /\ Indicate(type, b)
  /\ ev' = [type |-> type, buf |-> b]
  /\ wc' = tinc_connection
  /\ cb' = "check"
  /\ UNCHANGED <<qcVars, cVars, dgram, meta, pcVars, misuse>>

CbStep(from, to) ==
  /\ ~Crashed /\ qc_mem = "alloc"
  /\ cb = from
  /\ cb' = to

(* The buffer an event hands back: freed, or dropped by an early return. *)
Return(buffers, b, freed) ==
  IF b \in DOMAIN buffers
  THEN [buffers EXCEPT ![b] = IF freed THEN "free" ELSE "leaked"] ELSE buffers

(* Treats a stream buffer the way lines 900-905 treat a datagram's. *)
MutEarlyReturn ==
  /\ dgram' = IF ev.type = "DATAGRAM_STATE" THEN Return(dgram, ev.buf, ~wc) ELSE dgram
  /\ meta' = IF ev.type = "SEND_COMPLETE" THEN Return(meta, ev.buf, ~wc) ELSE meta

(* An early return while the connection is closing: quic_stream_callback     *)
(* frees the send buffer of SEND_COMPLETE on each such path,                 *)
(* quic_connection_callback frees the one of DATAGRAM_STATE only when it     *)
(* found qc->tinc_connection cleared (873-884, but not 900-905).             *)
EarlyReturn ==
  /\ dgram' = IF ev.type = "DATAGRAM_STATE" THEN Return(dgram, ev.buf, ~wc) ELSE dgram
  /\ meta' = IF ev.type = "SEND_COMPLETE" THEN Return(meta, ev.buf, TRUE) ELSE meta

CallbackCheck ==
  /\ \/ /\ closing \/ (~wc /\ ev.type \in StreamEvents)
        /\ CbStep("check", "idle")
        /\ EarlyReturn
     \/ /\ ~closing /\ (wc \/ ev.type \in ConnEvents)
        /\ CbStep("check", "addref")
        /\ UNCHANGED <<dgram, meta>>
  /\ UNCHANGED <<qcVars, cVars, mq, stream, pcVars, ev, wc, misuse>>

CallbackAddref ==
  /\ CbStep("addref", "recheck")
  /\ qc_addref
  /\ UNCHANGED <<closing, tinc_connection, connection, connected, control_stream,
                 control_stream_open, cVars, mqVars, pcVars, ev, wc, misuse>>

(* Keeps the reference when it gives up. *)
MutCallbackRecheck ==
  /\ \/ closing /\ CbStep("recheck", "idle") /\ EarlyReturn
     \/ ~closing /\ CbStep("recheck", "body") /\ UNCHANGED <<dgram, meta>>
  /\ UNCHANGED <<qcVars, cVars, mq, stream, pcVars, ev, wc, misuse>>

CallbackRecheck ==
  /\ \/ /\ closing
        /\ CbStep("recheck", "idle")
        /\ qc_release
        /\ EarlyReturn
     \/ /\ ~closing
        /\ CbStep("recheck", "body")
        /\ UNCHANGED <<refcount, qc_mem, dgram, meta>>
  /\ UNCHANGED <<closing, tinc_connection, connection, connected, control_stream,
                 control_stream_open, cVars, mq, stream, pcVars, ev, wc, misuse>>

CallbackRelease ==
  /\ CbStep("release", "idle")
  /\ qc_release
  /\ UNCHANGED <<closing, tinc_connection, connection, connected, control_stream,
                 control_stream_open, cVars, mqVars, pcVars, ev, wc, misuse>>

(* SHUTDOWN_COMPLETE is the last event; every send has been handed back. *)
ShutdownComplete ==
  /\ ~Crashed /\ cb = "idle" /\ pc[Worker] = "idle"
  /\ mq = "down" /\ stream # "open"
  /\ \A d \in Dgrams : dgram[d] # "sent"
  /\ \A m \in Metas : meta[m] # "sent"
  /\ mq' = "done"
  /\ connection' = FALSE
  /\ cb' = "complete"
  /\ UNCHANGED <<qc_mem, refcount, closing, tinc_connection, connected, control_stream,
                 control_stream_open, cVars, stream, dgram, meta, pcVars, ev, wc, misuse>>

ShutdownRelease ==
  /\ CbStep("complete", "idle")
  /\ qc_release
  /\ UNCHANGED <<closing, tinc_connection, connection, connected, control_stream,
                 control_stream_open, cVars, mqVars, pcVars, ev, wc, misuse>>

-----------------------------------------------------------------------------
(* The bodies of the callbacks, once a reference is held. *)

Body(type, to) == ev.type = type /\ CbStep("body", to)

(* The worker's own pointer c, which the reference on qc does not protect. *)
TouchC == misuse' = IF wc /\ c_mem = "freed" THEN misuse \cup {"c"} ELSE misuse

(* The verdict of validate_peer_certificate_x509; a failure ends the handshake. *)
PeerCertificate ==
  /\ Body("CERTIFICATE", "release")
  /\ \/ UNCHANGED mq
     \/ mq' = IF mq = "handshake" THEN "down" ELSE mq
  /\ UNCHANGED <<qcVars, cVars, stream, dgram, meta, pcVars, ev, wc, misuse>>

(* An outgoing connection opens and starts the control stream, and then     *)
(* sends its first message; either call may fail.                           *)
Connected ==
  /\ connected' = TRUE
  /\ TouchC
  /\ \/ /\ Body("CONNECTED", "release")
        /\ UNCHANGED <<control_stream, control_stream_open, stream>>
     \/ /\ wc /\ outgoing
        /\ stream' = "open"
        /\ control_stream' = TRUE
        /\ \/ /\ Body("CONNECTED", "release")
              /\ UNCHANGED control_stream_open
           \/ /\ Body("CONNECTED", "nested")
              /\ control_stream_open' = TRUE
  /\ UNCHANGED <<qc_mem, refcount, closing, tinc_connection, connection, cVars, mq, dgram,
                 meta, pcVars, ev, wc>>

ShutdownInitiated ==
  /\ Body("SHUTDOWN_INITIATED", "release")
  /\ connected' = FALSE
  /\ UNCHANGED <<qc_mem, refcount, closing, tinc_connection, connection, control_stream,
                 control_stream_open, cVars, mqVars, pcVars, ev, wc, misuse>>

(* The first stream of the peer becomes the control stream, if c still      *)
(* refers to qc when the callback looks.                                    *)
PeerStreamStarted ==
  /\ Body("PEER_STREAM", "release")
  /\ TouchC
  /\ \E context \in ReadContext :
       IF context /\ ~control_stream
       THEN control_stream' = TRUE /\ control_stream_open' = TRUE
       ELSE UNCHANGED <<control_stream, control_stream_open>>
  /\ UNCHANGED <<qc_mem, refcount, closing, tinc_connection, connection, connected, cVars,
                 mqVars, pcVars, ev, wc>>

(* Both write or read c; a received packet may be routed on, which sends. *)
PeerAddressChanged ==
  /\ Body("PEER_ADDRESS", "release")
  /\ TouchC
  /\ UNCHANGED <<qcVars, cVars, mqVars, pcVars, ev, wc>>

DatagramReceived ==
  /\ Body("DATAGRAM_RECEIVED", IF wc THEN "nested" ELSE "release")
  /\ TouchC
  /\ UNCHANGED <<qcVars, cVars, mqVars, pcVars, ev, wc>>

DatagramSendState ==
  /\ Body("DATAGRAM_STATE", "release")
  /\ dgram' = Return(dgram, ev.buf, TRUE)
  /\ UNCHANGED <<qcVars, cVars, mq, stream, meta, pcVars, ev, wc, misuse>>

(* receive_meta runs the request handlers, which send and may terminate     *)
(* this very connection, and goes back to c->inbuf after each of them.      *)
StreamReceive ==
  /\ Body("RECEIVE", IF control_stream THEN "nested" ELSE "release")
  /\ IF control_stream THEN TouchC ELSE UNCHANGED misuse
  /\ UNCHANGED <<qcVars, cVars, mqVars, pcVars, ev, wc>>

SendComplete ==
  /\ Body("SEND_COMPLETE", "release")
  /\ meta' = Return(meta, ev.buf, TRUE)
  /\ UNCHANGED <<qcVars, cVars, mq, stream, dgram, pcVars, ev, wc, misuse>>

(* The handle is closed; qc->control_stream keeps it. *)
StreamShutdownComplete ==
  /\ Body("STREAM_SHUTDOWN", "release")
  /\ StreamClose
  /\ UNCHANGED <<qcVars, cVars, mq, dgram, meta, pcVars, ev, wc>>

NestedDone ==
  /\ pc[Worker] = "idle"
  /\ CbStep("nested", "release")
  /\ IF ev.type = "RECEIVE" THEN TouchC ELSE UNCHANGED misuse
  /\ UNCHANGED <<qcVars, cVars, mqVars, pcVars, ev, wc>>

(* A handler of a message on the stream may close; the others only send. *)
NestedMayClose(t) == t = Worker => ev.type = "RECEIVE"

-----------------------------------------------------------------------------
Sending(t) ==
  \/ SendLoadClosing(t) \/ SendAddref(t) \/ SendRecheck(t) \/ SendCheck(t)
  \/ SendMeta(t) \/ SendHeadersFrame(t) \/ SendPacket(t) \/ SendRelease(t)

Closing(t) ==
  \/ CloseExchange(t) \/ CloseStream(t) \/ CloseContext(t) \/ CloseDetach(t)
  \/ CloseShutdown(t) \/ CloseRelease(t) \/ FreeConnection(t)

CallbackProgress ==
  \/ CallbackCheck \/ CallbackAddref \/ CallbackRecheck \/ CallbackRelease
  \/ PeerCertificate \/ Connected \/ ShutdownInitiated \/ PeerStreamStarted
  \/ PeerAddressChanged \/ DatagramReceived \/ DatagramSendState
  \/ StreamReceive \/ SendComplete \/ StreamShutdownComplete \/ NestedDone
  \/ ShutdownRelease

Next ==
  \/ \E t \in Senders, k \in {"packet", "meta"} : SendStart(t, k)
  \/ \E t \in Closers : NestedMayClose(t) /\ CloseStart(t)
  \/ \E t \in Procs : Sending(t) \/ Closing(t)
  \/ \E type \in ConnEvents \cup StreamEvents, b \in Dgrams \cup Metas \cup {NoBuf} :
       CallbackStart(type, b)
  \/ CallbackProgress
  \/ ShutdownComplete
  \/ UseAfterFree

(* Threads run, a request handler returns, and MsQuic hands every send back *)
(* and completes a shutdown once it is under way.                           *)
Fairness ==
  /\ \A t \in Procs :
       WF_vars(SendLoadClosing(t) \/ SendAddref(t) \/ SendRecheck(t) \/ SendCheck(t)
               \/ SendMeta(t) \/ SendPacket(t) \/ SendRelease(t) \/ Closing(t))
  /\ WF_vars(CallbackProgress)
  /\ SF_vars(NestedDone)
  /\ \A b \in Dgrams \cup Metas :
       WF_vars(CallbackStart("DATAGRAM_STATE", b) \/ CallbackStart("SEND_COMPLETE", b))
  /\ WF_vars(mq = "down" /\ CallbackStart("STREAM_SHUTDOWN", NoBuf))
  /\ WF_vars(ShutdownComplete)

Spec == Init /\ [][Next]_vars /\ Fairness

-----------------------------------------------------------------------------
(* Who holds a reference: a process between a successful addref and its      *)
(* release, the callback likewise, tinc until quic_connection_close has      *)
(* released, and MsQuic until SHUTDOWN_COMPLETE has.                         *)
SenderHolds(t) == pc[t] \in {"s_recheck", "s_check", "s_send", "s_release"}
ClosesIt(t)    == pc[t] \in {"c_stream", "c_context", "c_detach", "c_shutdown", "c_release"}
CallbackHolds  == cb \in {"recheck", "body", "nested", "release"}
TincHolds      == ~closing \/ \E t \in Procs : ClosesIt(t)
MsQuicHolds    == mq # "done" \/ cb = "complete"

One(b) == IF b THEN 1 ELSE 0
SendHolders == {t \in Procs : SenderHolds(t)}
Holders == Cardinality(SendHolders)
           + One(CallbackHolds) + One(TincHolds) + One(MsQuicHolds)

(* qc_addref and qc_release are balanced on every path of the senders, the   *)
(* closers, the callbacks and SHUTDOWN_COMPLETE, in every interleaving: as   *)
(* long as qc is allocated its count is the number of its holders.           *)
RefcountIsHolders == qc_mem = "alloc" => refcount = Holders

(* free(qc) happens only when nobody is left: the closer and MsQuic have     *)
(* both released, and no callback or sender is between addref and release.   *)
(* So a thread that passed qc_try_acquire never meets a freed qc, and        *)
(* MsQuic's reference covers the unguarded first lines of a callback (864,   *)
(* 1274) too.                                                                *)
FreedMeansReleased ==
  qc_mem = "freed" =>
    /\ cb = "idle" /\ mq = "done"
    /\ closing \/ ConfigurationFails
    /\ \A t \in Procs : ~SenderHolds(t) /\ ~ClosesIt(t)

(* At most one thread executes quic_connection_close past the exchange.      *)
OneCloser ==
  /\ \A t \in Procs : ClosesIt(t) => closing
  /\ \A t, u \in Procs : ClosesIt(t) /\ ClosesIt(u) => t = u

(* A callback that finds qc->tinc_connection cleared also finds the closing  *)
(* flag set, so the "error state or race" branches (889-894, 1294-1308) are  *)
(* never taken.                                                              *)
DetachedOnlyWhileClosing ==
  (cb \notin {"idle", "complete"} /\ ~wc) \/ ~tinc_connection => closing

(* No step dereferences qc after free(qc), but for the listener callback,    *)
(* which frees it when ConnectionSetConfiguration fails and then passes it   *)
(* on to free_connection (734-735).                                          *)
QcNeverUsedAfterFree == Crashed => ConfigurationFails /\ mq = "done" /\ ~closing

(* No step dereferences c after free(c).                                     *)
ConnectionNeverUsedAfterFree == "c" \notin misuse

(* Every datagram buffer MsQuic hands back is released to the pool.  The     *)
(* early return at 900-905 breaks this.                                      *)
DatagramBuffersReleased == \A d \in Dgrams : dgram[d] # "leaked"

(* Every stream send buffer MsQuic hands back is freed, also by the early    *)
(* returns of quic_stream_callback during a close.                           *)
StreamBuffersReleased == \A m \in Metas : meta[m] # "leaked"

(* The control stream's handle is not used once it has been closed.  It is   *)
(* closed twice when SHUTDOWN_COMPLETE of the stream (1438-1441) comes       *)
(* before quic_connection_close (1640-1645).                                 *)
StreamClosedOnce == "stream" \notin misuse

(* Once quic_connection_close has set closing, qc is eventually freed: some  *)
(* holder is the last one, and every holder releases.                        *)
ClosedIsFreed == closing ~> qc_mem = "freed"
=============================================================================
