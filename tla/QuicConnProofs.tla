--------------------------- MODULE QuicConnProofs ---------------------------
(***************************************************************************)
(* Proofs about QuicConn, for every number of threads and buffers.         *)
(***************************************************************************)
EXTENDS QuicConn, FiniteSetTheorems, TLAPS

HolderPcs == {"s_recheck", "s_check", "s_send", "s_release"}
CloserPcs == {"c_stream", "c_context", "c_detach", "c_shutdown", "c_release"}

(* Every process set of the model is finite. *)
LEMMA ProcsFinite == IsFiniteSet(Procs)
  BY ThreadsAssumption, FS_AddElement DEF Procs

(* So many senders hold a reference. *)
LEMMA SendHoldersFinite ==
  IsFiniteSet(SendHolders) /\ Cardinality(SendHolders) \in Nat
  <1>1. SendHolders \subseteq Procs
    BY Zenon DEF SendHolders
  <1> QED
    BY <1>1, ProcsFinite, FS_Subset, FS_CardinalityType

(* A step of process t that neither takes nor drops a sender's reference. *)
LEMMA SameHolders ==
  ASSUME NEW t \in Procs, NEW x, pc \in [Procs -> PcValues],
         pc' = [pc EXCEPT ![t] = x], pc[t] \in HolderPcs <=> x \in HolderPcs
  PROVE  SendHolders' = SendHolders
  BY DEF SendHolders, SenderHolds, HolderPcs

(* qc_addref by a sender adds one to the number of holders. *)
LEMMA OneMoreHolder ==
  ASSUME NEW t \in Procs, NEW x, pc \in [Procs -> PcValues],
         pc' = [pc EXCEPT ![t] = x], pc[t] \notin HolderPcs, x \in HolderPcs
  PROVE  Cardinality(SendHolders') = Cardinality(SendHolders) + 1
  <1>1. SendHolders' = SendHolders \cup {t} /\ t \notin SendHolders
    BY DEF SendHolders, SenderHolds, HolderPcs
  <1> QED
    BY <1>1, SendHoldersFinite, FS_AddElement, Zenon

(* qc_release by a sender takes one away. *)
LEMMA OneLessHolder ==
  ASSUME NEW t \in Procs, NEW x, pc \in [Procs -> PcValues],
         pc' = [pc EXCEPT ![t] = x], pc[t] \in HolderPcs, x \notin HolderPcs
  PROVE  /\ Cardinality(SendHolders') = Cardinality(SendHolders) - 1
         /\ Cardinality(SendHolders) >= 1
  <1>1. SendHolders' = SendHolders \ {t} /\ t \in SendHolders
    BY DEF SendHolders, SenderHolds, HolderPcs
  <1>2. Cardinality(SendHolders') = Cardinality(SendHolders) - 1
    BY <1>1, SendHoldersFinite, FS_RemoveElement, Zenon
  <1>3. Cardinality(SendHolders') \in Nat
    BY <1>1, SendHoldersFinite, FS_RemoveElement, FS_CardinalityType
  <1> QED
    BY <1>2, <1>3, SendHoldersFinite

(* No sender holds a reference when their number is zero. *)
LEMMA NoHolders ==
  ASSUME Cardinality(SendHolders) = 0
  PROVE  \A t \in Procs : ~SenderHolds(t)
  BY SendHoldersFinite, FS_EmptySet DEF SendHolders

-----------------------------------------------------------------------------
(* TypeOK in two parts: Zenon proves the first, SMT the second. *)
FlagsOK ==
  /\ closing \in BOOLEAN
  /\ tinc_connection \in BOOLEAN
  /\ connection \in BOOLEAN
  /\ connected \in BOOLEAN
  /\ control_stream \in BOOLEAN
  /\ control_stream_open \in BOOLEAN
  /\ quic_context \in BOOLEAN
  /\ outgoing \in BOOLEAN
  /\ wc \in BOOLEAN

OthersOK ==
  /\ qc_mem \in {"alloc", "freed"}
  /\ refcount \in Int
  /\ c_mem \in {"alloc", "freed"}
  /\ mq \in {"handshake", "up", "down", "done"}
  /\ stream \in {"none", "open", "down", "closed"}
  /\ dgram \in [Dgrams -> {"free", "sent", "leaked"}]
  /\ meta \in [Metas -> {"free", "sent", "leaked"}]
  /\ pc \in [Procs -> PcValues]
  /\ kind \in [Procs -> {"packet", "meta"}]
  /\ cb \in CbValues
  /\ ev \in [type: ConnEvents \cup StreamEvents, buf: Dgrams \cup Metas \cup {NoBuf}]
  /\ misuse \subseteq {"qc", "c", "stream"}

(* The two parts make up TypeOK. *)
LEMMA TypeParts == TypeOK <=> FlagsOK /\ OthersOK
  BY Zenon DEF TypeOK, FlagsOK, OthersOK

(* Every assignment of the model keeps its field in the field's type. *)
LEMMA TypeStep == TypeOK /\ [Next]_vars => TypeOK'
  <1> SUFFICES ASSUME TypeOK, [Next]_vars PROVE TypeOK'
    OBVIOUS
  <1>0. FlagsOK /\ OthersOK
    BY Zenon, TypeParts
  <1> USE DEF TypeOK, PcValues, CbValues, ConnEvents, StreamEvents
  <1>1. ASSUME NEW t \in Procs, NEW k \in {"packet", "meta"}, SendStart(t, k) PROVE TypeOK'
    BY <1>1 DEF SendStart, TouchConnection, qcVars, cVars, mqVars, cbVars
  <1>2. ASSUME NEW t \in Procs, CloseStart(t) PROVE TypeOK'
    BY <1>2, SMTT(30) DEF CloseStart, TouchConnection, qcVars, cVars, mqVars, cbVars
  <1>3. ASSUME NEW t \in Procs, Sending(t) PROVE TypeOK'
    <2> USE DEF qcVars, cVars, mqVars, cbVars
    <2>1. CASE SendLoadClosing(t)
      BY <2>1 DEF SendLoadClosing, QcStep
    <2>2. CASE SendAddref(t)
      BY <2>2 DEF SendAddref, QcStep, qc_addref
    <2>3. CASE SendRecheck(t)
      BY <2>3 DEF SendRecheck, QcStep, qc_release
    <2>4. CASE SendCheck(t)
      BY <2>4 DEF SendCheck, QcStep
    <2>5. CASE SendMeta(t)
      BY <2>5 DEF SendMeta, QcStep, StreamSend
    <2>6. CASE SendHeadersFrame(t)
      BY <2>6 DEF SendHeadersFrame, QcStep, StreamSend
    <2>7. CASE SendPacket(t)
      BY <2>7 DEF SendPacket, QcStep
    <2>8. CASE SendRelease(t)
      BY <2>8, SMTT(30) DEF SendRelease, QcStep, qc_release
    <2> QED
      BY Zenon, <1>3, <2>1, <2>2, <2>3, <2>4, <2>5, <2>6, <2>7, <2>8 DEF Sending
  <1>4. ASSUME NEW t \in Procs, Closing(t) PROVE TypeOK'
    <2> USE DEF qcVars, cVars, mqVars, cbVars
    <2>1. CASE CloseExchange(t)
      BY <2>1 DEF CloseExchange, QcStep
    <2>2. CASE CloseStream(t)
      <3>1. FlagsOK'
        BY <2>2, Zenon DEF CloseStream, QcStep, StreamClose, FlagsOK
      <3>2. OthersOK'
        <4>1. /\ pc' = [pc EXCEPT ![t] = "c_context"]
              /\ UNCHANGED <<qc_mem, refcount, c_mem, mq, dgram, meta, kind, cb, ev>>
          BY <2>2, Zenon DEF CloseStream, QcStep
        <4>2. /\ stream' = "closed" \/ stream' = stream
              /\ misuse' = misuse \/ misuse' = misuse \cup {"stream"}
          BY <2>2, Zenon DEF CloseStream, StreamClose
        <4>3. pc' \in [Procs -> PcValues]
          BY <4>1
        <4>4. /\ stream' \in {"none", "open", "down", "closed"}
              /\ misuse' \subseteq {"qc", "c", "stream"}
          BY <4>2, Zenon
        <4> QED
          BY <4>1, <4>3, <4>4 DEF OthersOK
      <3> QED
        BY <3>1, <3>2, Zenon DEF FlagsOK, OthersOK
    <2>3. CASE CloseContext(t)
      <3>1. FlagsOK'
        BY <2>3, Zenon DEF CloseContext, TouchConnection, FlagsOK
      <3>2. OthersOK'
        BY <2>3 DEF CloseContext, TouchConnection, OthersOK
      <3> QED
        BY <3>1, <3>2, Zenon DEF FlagsOK, OthersOK
    <2>4. CASE CloseDetach(t)
      <3>1. FlagsOK'
        BY <2>4, Zenon DEF CloseDetach, QcStep, FlagsOK
      <3>2. OthersOK'
        BY <2>4 DEF CloseDetach, QcStep, OthersOK
      <3> QED
        BY <3>1, <3>2, Zenon DEF FlagsOK, OthersOK
    <2>5. CASE CloseShutdown(t)
      BY <2>5 DEF CloseShutdown, QcStep
    <2>6. CASE CloseRelease(t)
      BY <2>6 DEF CloseRelease, QcStep, qc_release
    <2>7. CASE FreeConnection(t)
      BY <2>7 DEF FreeConnection, TouchConnection
    <2> QED
      BY Zenon, <1>4, <2>1, <2>2, <2>3, <2>4, <2>5, <2>6, <2>7 DEF Closing
  <1>5. ASSUME NEW type \in ConnEvents \cup StreamEvents, NEW b \in Dgrams \cup Metas \cup {NoBuf},
               CallbackStart(type, b)
        PROVE  TypeOK'
    <2>1. FlagsOK'
      BY <1>5, Zenon DEF CallbackStart, FlagsOK, qcVars, cVars
    <2>2. /\ mq' \in {"handshake", "up", "down", "done"}
          /\ stream' \in {"none", "open", "down", "closed"}
      BY <1>5, ZenonT(30) DEF CallbackStart, Indicate
    <2>3. ev' \in [type: ConnEvents \cup StreamEvents, buf: Dgrams \cup Metas \cup {NoBuf}]
      BY Zenon, <1>5 DEF CallbackStart
    <2>4. /\ cb' = "check"
          /\ UNCHANGED <<qc_mem, refcount, c_mem, dgram, meta, pc, kind, misuse>>
      BY <1>5, Zenon DEF CallbackStart, qcVars, cVars, pcVars
    <2>5. OthersOK'
      BY <2>2, <2>3, <2>4 DEF OthersOK
    <2> QED
      BY <2>1, <2>5, Zenon DEF FlagsOK, OthersOK
  <1>6. CASE CallbackProgress
    <2> USE DEF qcVars, cVars, mqVars, pcVars
    <2>1. CASE CallbackCheck
      BY <2>1 DEF CallbackCheck, CbStep, EarlyReturn, Return
    <2>2. CASE CallbackAddref
      BY <2>2 DEF CallbackAddref, CbStep, qc_addref
    <2>3. CASE CallbackRecheck
      BY <2>3 DEF CallbackRecheck, CbStep, qc_release, EarlyReturn, Return
    <2>4. CASE CallbackRelease
      BY <2>4 DEF CallbackRelease, CbStep, qc_release
    <2>5. CASE PeerCertificate
      BY <2>5 DEF PeerCertificate, Body, CbStep
    <2>6. CASE Connected
      <3>1. FlagsOK'
        BY <2>6, Zenon DEF Connected, Body, CbStep, TouchC, FlagsOK
      <3>2. OthersOK'
        BY <2>6 DEF Connected, Body, CbStep, TouchC, OthersOK
      <3> QED
        BY <3>1, <3>2, Zenon DEF FlagsOK, OthersOK
    <2>7. CASE ShutdownInitiated
      <3>1. FlagsOK'
        BY <2>7, Zenon DEF ShutdownInitiated, Body, CbStep, FlagsOK
      <3>2. OthersOK'
        BY <2>7 DEF ShutdownInitiated, Body, CbStep, OthersOK
      <3> QED
        BY <3>1, <3>2, Zenon DEF FlagsOK, OthersOK
    <2>8. CASE PeerStreamStarted
      <3>1. FlagsOK'
        BY <2>8, Zenon DEF PeerStreamStarted, Body, CbStep, TouchC, FlagsOK
      <3>2. OthersOK'
        BY Zenon, <2>8 DEF PeerStreamStarted, Body, CbStep, TouchC, OthersOK
      <3> QED
        BY <3>1, <3>2, Zenon DEF FlagsOK, OthersOK
    <2>9. CASE PeerAddressChanged
      BY <2>9 DEF PeerAddressChanged, Body, CbStep, TouchC
    <2>10. CASE DatagramReceived
      BY <2>10 DEF DatagramReceived, Body, CbStep, TouchC
    <2>11. CASE DatagramSendState
      BY <2>11 DEF DatagramSendState, Body, CbStep, Return
    <2>12. CASE StreamReceive
      <3>1. FlagsOK'
        BY <2>12, Zenon DEF StreamReceive, Body, CbStep, TouchC, FlagsOK
      <3>2. OthersOK'
        BY <2>12, Zenon DEF StreamReceive, Body, CbStep, TouchC, OthersOK
      <3> QED
        BY <3>1, <3>2, Zenon DEF FlagsOK, OthersOK
    <2>13. CASE SendComplete
      BY <2>13 DEF SendComplete, Body, CbStep, Return
    <2>14. CASE StreamShutdownComplete
      BY <2>14 DEF StreamShutdownComplete, Body, CbStep, StreamClose
    <2>15. CASE NestedDone
      <3>1. FlagsOK'
        BY <2>15, Zenon DEF NestedDone, CbStep, TouchC, FlagsOK
      <3>2. OthersOK'
        <4>1. misuse' = misuse \/ misuse' = misuse \cup {"c"}
          BY <2>15, Zenon DEF NestedDone, TouchC
        <4>2. cb' = "release" /\ UNCHANGED <<qc_mem, refcount, c_mem, mqVars, pcVars, ev>>
          BY <2>15, Zenon DEF NestedDone, CbStep, qcVars, cVars
        <4>3. misuse \subseteq {"qc", "c", "stream"}
          BY DEF TypeOK
        <4>4. misuse' \subseteq {"qc", "c", "stream"}
          BY <4>1, <4>3, Zenon
        <4> QED
          BY <4>2, <4>4 DEF OthersOK
      <3> QED
        BY <3>1, <3>2, Zenon DEF FlagsOK, OthersOK
    <2>16. CASE ShutdownRelease
      BY <2>16 DEF ShutdownRelease, CbStep, qc_release
    <2> QED
      BY <1>6, <2>1, <2>2, <2>3, <2>4, <2>5, <2>6, <2>7, <2>8, <2>9, <2>10, <2>11, <2>12, <2>13, <2>14, <2>15, <2>16, Zenon DEF CallbackProgress
  <1>7. CASE ShutdownComplete
    <2>1. FlagsOK'
      BY <1>7, Zenon DEF ShutdownComplete, FlagsOK, cVars
    <2>2. OthersOK'
      BY <1>7 DEF ShutdownComplete, OthersOK, cVars, pcVars
    <2> QED
      BY <2>1, <2>2, Zenon DEF FlagsOK, OthersOK
  <1>8. CASE UseAfterFree
    BY <1>8 DEF UseAfterFree, qcVars, cVars, mqVars, pcVars, cbVars
  <1>9. CASE UNCHANGED vars
    BY <1>9 DEF vars, qcVars, cVars, mqVars, pcVars, cbVars
  <1> QED
    BY <1>1, <1>2, <1>3, <1>4, <1>5, <1>6, <1>7, <1>8, <1>9, RolesAssumption, SMTT(30) DEF Next

(* The initial states have the types. *)
LEMMA InitType == Init => TypeOK
  <1> SUFFICES ASSUME Init PROVE TypeOK
    OBVIOUS
  <1>1. FlagsOK
    BY Zenon DEF Init, FlagsOK
  <1>2. OthersOK
    BY DEF Init, OthersOK, PcValues, CbValues, ConnEvents, StreamEvents, InitialRefcount
  <1> QED
    BY <1>1, <1>2, TypeParts

(* TypeOK is an invariant of the system: each of its fields keeps its type.  *)
THEOREM TypeCorrect == Spec => []TypeOK
  BY InitType, TypeStep, PTL DEF Spec

-----------------------------------------------------------------------------
(* The inductive invariant.  RefcountIsHolders alone is not inductive: that  *)
(* the last release leaves no holder needs FreedMeansReleased and OneCloser, *)
(* and that it leaves no callback needs that none runs after the last event. *)
CallbackBeforeDone ==
  /\ cb \notin {"idle", "complete"} => mq # "done"
  /\ cb = "complete" => mq = "done"
QcInv == /\ RefcountIsHolders /\ FreedMeansReleased /\ OneCloser
         /\ DetachedOnlyWhileClosing /\ CallbackBeforeDone

(* A step of process t that neither starts nor ends a close. *)
LEMMA SameClosers ==
  ASSUME NEW t \in Procs, NEW x, pc \in [Procs -> PcValues],
         pc' = [pc EXCEPT ![t] = x], pc[t] \in CloserPcs <=> x \in CloserPcs
  PROVE  \A u \in Procs : ClosesIt(u)' <=> ClosesIt(u)
  BY DEF ClosesIt, CloserPcs

(* The terms of the sum Holders are numbers. *)
LEMMA OneIsNat ==
  /\ One(CallbackHolds) \in Nat /\ One(TincHolds) \in Nat /\ One(MsQuicHolds) \in Nat
  /\ One(CallbackHolds)' \in Nat /\ One(TincHolds)' \in Nat /\ One(MsQuicHolds)' \in Nat
  BY Zenon DEF One

(* A step of a process that takes and drops no reference and frees nothing. *)
LEMMA QuietThreadStep ==
  ASSUME TypeOK, QcInv, NEW t \in Procs, NEW x,
         pc' = [pc EXCEPT ![t] = x],
         pc[t] \in HolderPcs <=> x \in HolderPcs,
         pc[t] \in CloserPcs <=> x \in CloserPcs,
         UNCHANGED <<qc_mem, refcount, closing, cb, wc>>,
         mq = "done" <=> mq' = "done",
         tinc_connection' = tinc_connection \/ closing
  PROVE  QcInv'
  <1>0. pc \in [Procs -> PcValues]
    BY DEF TypeOK
  <1>1. SendHolders' = SendHolders
    BY <1>0, SameHolders, Zenon
  <1>2. \A u \in Procs : ClosesIt(u)' <=> ClosesIt(u)
    BY <1>0, SameClosers, Zenon
  <1>3. \A u \in Procs : SenderHolds(u)' <=> SenderHolds(u)
    BY Zenon, <1>1 DEF SendHolders
  <1>4. /\ TincHolds' <=> TincHolds
        /\ MsQuicHolds' <=> MsQuicHolds
        /\ CallbackHolds' <=> CallbackHolds
    BY Zenon, <1>2 DEF TincHolds, MsQuicHolds, CallbackHolds
  <1>5. Holders' = Holders
    BY Zenon, <1>1, <1>4 DEF Holders, One
  <1>6. RefcountIsHolders'
    BY Zenon, <1>5 DEF QcInv, RefcountIsHolders
  <1>7. FreedMeansReleased'
    BY Zenon, <1>2, <1>3 DEF QcInv, FreedMeansReleased
  <1>8. OneCloser'
    BY Zenon, <1>2 DEF QcInv, OneCloser
  <1>9. DetachedOnlyWhileClosing' /\ CallbackBeforeDone'
    BY Zenon DEF QcInv, DetachedOnlyWhileClosing, CallbackBeforeDone
  <1> QED
    BY Zenon, <1>6, <1>7, <1>8, <1>9 DEF QcInv

(* The same for a step of the worker in a callback. *)
LEMMA QuietCallbackStep ==
  ASSUME TypeOK, QcInv,
         UNCHANGED <<qc_mem, refcount, closing, tinc_connection, pc>>,
         qc_mem = "alloc" \/ mq # "done",
         CallbackHolds' <=> CallbackHolds,
         MsQuicHolds' <=> MsQuicHolds,
         cb' \notin {"idle", "complete"} => mq' # "done",
         cb' = "complete" => mq' = "done",
         \/ cb' \in {"idle", "complete"}
         \/ cb \notin {"idle", "complete"} /\ wc' = wc
         \/ wc' = tinc_connection
  PROVE  QcInv'
  <1>1. qc_mem = "alloc"
    BY Zenon DEF TypeOK, QcInv, FreedMeansReleased
  <1>2. \A u \in Procs : /\ ClosesIt(u)' <=> ClosesIt(u)
                         /\ SenderHolds(u)' <=> SenderHolds(u)
    BY Zenon DEF ClosesIt, SenderHolds
  <1>3. SendHolders' = SendHolders
    BY Zenon, <1>2 DEF SendHolders
  <1>4. TincHolds' <=> TincHolds
    BY Zenon, <1>2 DEF TincHolds
  <1>5. Holders' = Holders
    BY Zenon, <1>3, <1>4 DEF Holders, One
  <1>6. RefcountIsHolders'
    BY Zenon, <1>5 DEF QcInv, RefcountIsHolders
  <1>7. FreedMeansReleased'
    BY Zenon, <1>1 DEF FreedMeansReleased
  <1>8. OneCloser'
    BY Zenon, <1>2 DEF QcInv, OneCloser
  <1>9. DetachedOnlyWhileClosing' /\ CallbackBeforeDone'
    BY Zenon DEF QcInv, DetachedOnlyWhileClosing, CallbackBeforeDone
  <1> QED
    BY Zenon, <1>6, <1>7, <1>8, <1>9 DEF QcInv

(* Four cases in which one holder releases.  Each names what it gives up;    *)
(* if the count was 1, the equation of RefcountIsHolders leaves no other.    *)
LEMMA LastHolder ==
  ASSUME TypeOK, QcInv, qc_mem = "alloc", refcount = 1
  PROVE  /\ Cardinality(SendHolders) = 1 => ~CallbackHolds /\ ~TincHolds /\ ~MsQuicHolds
         /\ CallbackHolds => Cardinality(SendHolders) = 0 /\ ~TincHolds /\ ~MsQuicHolds
         /\ TincHolds => Cardinality(SendHolders) = 0 /\ ~CallbackHolds /\ ~MsQuicHolds
         /\ MsQuicHolds => Cardinality(SendHolders) = 0 /\ ~CallbackHolds /\ ~TincHolds
         /\ Cardinality(SendHolders) <= 1
  BY SendHoldersFinite DEF QcInv, RefcountIsHolders, Holders, One

(* qc_addref by a sender keeps the invariant. *)
LEMMA SenderAcquires ==
  ASSUME TypeOK, QcInv, NEW t \in Procs, SendAddref(t)
  PROVE  QcInv'
  <1>0. /\ pc \in [Procs -> PcValues]
        /\ pc' = [pc EXCEPT ![t] = "s_recheck"]
        /\ pc[t] = "s_addref"
        /\ qc_mem = "alloc"
        /\ refcount' = refcount + 1
        /\ UNCHANGED <<qc_mem, closing, tinc_connection, mq, cb, wc>>
    BY DEF SendAddref, QcStep, qc_addref, mqVars, cbVars, TypeOK
  <1>1. Cardinality(SendHolders') = Cardinality(SendHolders) + 1
    BY <1>0, OneMoreHolder, Zenon DEF HolderPcs
  <1>2. \A u \in Procs : ClosesIt(u)' <=> ClosesIt(u)
    BY <1>0, SameClosers, Zenon DEF CloserPcs
  <1>3. /\ TincHolds' <=> TincHolds
        /\ MsQuicHolds' <=> MsQuicHolds
        /\ CallbackHolds' <=> CallbackHolds
    BY Zenon, <1>0, <1>2 DEF TincHolds, MsQuicHolds, CallbackHolds
  <1>4. RefcountIsHolders'
    BY <1>0, <1>1, <1>3, SendHoldersFinite
       DEF QcInv, RefcountIsHolders, Holders, One, TypeOK
  <1>5. FreedMeansReleased' /\ OneCloser' /\ DetachedOnlyWhileClosing' /\ CallbackBeforeDone'
    BY Zenon, <1>0, <1>2 DEF QcInv, FreedMeansReleased, OneCloser, DetachedOnlyWhileClosing,
                      CallbackBeforeDone
  <1> QED
    BY Zenon, <1>4, <1>5 DEF QcInv

(* A sender's release: from s_recheck when it lost to a close, or at the end. *)
LEMMA SenderReleases ==
  ASSUME TypeOK, QcInv, NEW t \in Procs, NEW from \in HolderPcs,
         pc[t] = from, pc' = [pc EXCEPT ![t] = "idle"], qc_mem = "alloc", qc_release,
         UNCHANGED <<closing, tinc_connection, mq, cb, wc>>
  PROVE  QcInv'
  <1>0. pc \in [Procs -> PcValues]
    BY DEF TypeOK
  <1>1. /\ Cardinality(SendHolders') = Cardinality(SendHolders) - 1
        /\ Cardinality(SendHolders) >= 1
    BY <1>0, OneLessHolder, Zenon DEF HolderPcs
  <1>2. \A u \in Procs : ClosesIt(u)' <=> ClosesIt(u)
    BY <1>0, SameClosers, Zenon DEF CloserPcs, HolderPcs
  <1>3. /\ TincHolds' <=> TincHolds
        /\ MsQuicHolds' <=> MsQuicHolds
        /\ CallbackHolds' <=> CallbackHolds
    BY Zenon, <1>2 DEF TincHolds, MsQuicHolds, CallbackHolds
  <1>4. RefcountIsHolders'
    BY <1>1, <1>3, SendHoldersFinite
       DEF QcInv, RefcountIsHolders, Holders, One, TypeOK, qc_release
  <1>5. FreedMeansReleased'
    <2> SUFFICES ASSUME qc_mem' = "freed" PROVE FreedMeansReleased'
      BY Zenon DEF FreedMeansReleased
    <2>1. refcount = 1
      BY Zenon DEF qc_release
    <2>2. Cardinality(SendHolders) = 1
      BY <1>1, <2>1, LastHolder, SendHoldersFinite
    <2>3. ~CallbackHolds /\ ~TincHolds /\ ~MsQuicHolds
      BY Zenon, <2>1, <2>2, LastHolder
    <2>4. \A u \in Procs : ~SenderHolds(u)'
      <3>1. SendHolders' = SendHolders \ {t} /\ t \in SendHolders
        BY Zenon, <1>0 DEF SendHolders, SenderHolds, HolderPcs
      <3>2. SendHolders' = {}
        BY <1>1, <2>2, <3>1, SendHoldersFinite, FS_Subset, FS_EmptySet
      <3> QED
        BY Zenon, <3>2 DEF SendHolders
    <2>5. closing /\ \A u \in Procs : ~ClosesIt(u)'
      BY Zenon, <1>2, <2>3 DEF TincHolds
    <2>6. cb = "idle" /\ mq = "done"
      BY Zenon, <2>3 DEF CallbackHolds, MsQuicHolds, QcInv, CallbackBeforeDone, TypeOK, CbValues
    <2> QED
      BY Zenon, <2>4, <2>5, <2>6 DEF FreedMeansReleased
  <1>6. OneCloser' /\ DetachedOnlyWhileClosing' /\ CallbackBeforeDone'
    BY Zenon, <1>2 DEF QcInv, OneCloser, DetachedOnlyWhileClosing, CallbackBeforeDone
  <1> QED
    BY Zenon, <1>4, <1>5, <1>6 DEF QcInv

(* The thread that wins the exchange holds tinc's reference from now on. *)
LEMMA CloserWins ==
  ASSUME TypeOK, QcInv, NEW t \in Procs, CloseExchange(t), ~closing
  PROVE  QcInv'
  <1>0. /\ pc \in [Procs -> PcValues]
        /\ pc' = [pc EXCEPT ![t] = "c_stream"]
        /\ pc[t] = "c_closing"
        /\ qc_mem = "alloc"
        /\ closing'
        /\ UNCHANGED <<qc_mem, refcount, tinc_connection, mq, cb, wc>>
    BY DEF CloseExchange, QcStep, mqVars, cbVars, TypeOK
  <1>1. SendHolders' = SendHolders
    BY <1>0, SameHolders, Zenon DEF HolderPcs
  <1>2. \A u \in Procs : ClosesIt(u)' <=> u = t
    BY Zenon, <1>0 DEF QcInv, OneCloser, ClosesIt
  <1>3. /\ TincHolds' /\ TincHolds
        /\ MsQuicHolds' <=> MsQuicHolds
        /\ CallbackHolds' <=> CallbackHolds
    BY Zenon, <1>0, <1>2 DEF TincHolds, MsQuicHolds, CallbackHolds
  <1>4. RefcountIsHolders'
    BY Zenon, <1>0, <1>1, <1>3 DEF QcInv, RefcountIsHolders, Holders, One
  <1>5. FreedMeansReleased' /\ OneCloser' /\ DetachedOnlyWhileClosing' /\ CallbackBeforeDone'
    BY Zenon, <1>0, <1>2 DEF QcInv, FreedMeansReleased, OneCloser, DetachedOnlyWhileClosing,
                      CallbackBeforeDone
  <1> QED
    BY Zenon, <1>4, <1>5 DEF QcInv

(* The release of tinc's own reference in quic_connection_close keeps it. *)
LEMMA CloserReleases ==
  ASSUME TypeOK, QcInv, NEW t \in Procs, CloseRelease(t)
  PROVE  QcInv'
  <1>0. /\ pc \in [Procs -> PcValues]
        /\ pc' = [pc EXCEPT ![t] = "c_free"]
        /\ pc[t] = "c_release"
        /\ qc_mem = "alloc"
        /\ qc_release
        /\ UNCHANGED <<closing, tinc_connection, mq, cb, wc>>
    BY DEF CloseRelease, QcStep, mqVars, cbVars, TypeOK
  <1>1. SendHolders' = SendHolders
    BY <1>0, SameHolders, Zenon DEF HolderPcs
  <1>2. ClosesIt(t) /\ closing /\ TincHolds
    BY Zenon, <1>0 DEF ClosesIt, QcInv, OneCloser, TincHolds
  <1>3. \A u \in Procs : ~ClosesIt(u)'
    BY Zenon, <1>0, <1>2 DEF QcInv, OneCloser, ClosesIt
  <1>4. /\ ~TincHolds'
        /\ MsQuicHolds' <=> MsQuicHolds
        /\ CallbackHolds' <=> CallbackHolds
    BY Zenon, <1>0, <1>2, <1>3 DEF TincHolds, MsQuicHolds, CallbackHolds
  <1>5. RefcountIsHolders'
    <2>1. /\ One(TincHolds) = 1 /\ One(TincHolds)' = 0
          /\ One(MsQuicHolds)' = One(MsQuicHolds)
          /\ One(CallbackHolds)' = One(CallbackHolds)
      BY Zenon, <1>2, <1>4 DEF One
    <2>2. Holders' = Holders - 1
      BY <1>1, <2>1, SendHoldersFinite, OneIsNat DEF Holders
    <2> QED
      BY Zenon, <1>0, <2>2 DEF QcInv, RefcountIsHolders, qc_release
  <1>6. FreedMeansReleased'
    <2> SUFFICES ASSUME qc_mem' = "freed" PROVE FreedMeansReleased'
      BY Zenon DEF FreedMeansReleased
    <2>1. refcount = 1
      BY Zenon, <1>0 DEF qc_release
    <2>2. Cardinality(SendHolders) = 0 /\ ~CallbackHolds /\ ~MsQuicHolds
      BY Zenon, <1>0, <1>2, <2>1, LastHolder
    <2>3. \A u \in Procs : ~SenderHolds(u)'
      BY Zenon, <1>1, <2>2, NoHolders DEF SendHolders
    <2>4. cb = "idle" /\ mq = "done"
      BY Zenon, <2>2 DEF CallbackHolds, MsQuicHolds, QcInv, CallbackBeforeDone, TypeOK, CbValues
    <2> QED
      BY Zenon, <1>0, <1>2, <1>3, <2>3, <2>4 DEF FreedMeansReleased
  <1>7. OneCloser' /\ DetachedOnlyWhileClosing' /\ CallbackBeforeDone'
    BY Zenon, <1>0, <1>3 DEF QcInv, OneCloser, DetachedOnlyWhileClosing, CallbackBeforeDone
  <1> QED
    BY Zenon, <1>5, <1>6, <1>7 DEF QcInv

(* qc_addref by a callback keeps it. *)
LEMMA CallbackAcquires ==
  ASSUME TypeOK, QcInv, CallbackAddref
  PROVE  QcInv'
  <1>0. /\ qc_mem = "alloc"
        /\ refcount' = refcount + 1
        /\ cb = "addref" /\ cb' = "recheck"
        /\ UNCHANGED <<qc_mem, closing, tinc_connection, mq, pc, wc>>
    BY Zenon DEF CallbackAddref, CbStep, qc_addref, mqVars, pcVars
  <1>1. \A u \in Procs : /\ ClosesIt(u)' <=> ClosesIt(u)
                         /\ SenderHolds(u)' <=> SenderHolds(u)
    BY <1>0 DEF ClosesIt, SenderHolds
  <1>2. SendHolders' = SendHolders
    BY Zenon, <1>1 DEF SendHolders
  <1>3. /\ TincHolds' <=> TincHolds
        /\ MsQuicHolds' <=> MsQuicHolds
        /\ CallbackHolds' /\ ~CallbackHolds
    BY Zenon, <1>0, <1>1 DEF TincHolds, MsQuicHolds, CallbackHolds
  <1>4. RefcountIsHolders'
    <2>1. /\ One(CallbackHolds) = 0 /\ One(CallbackHolds)' = 1
          /\ One(MsQuicHolds)' = One(MsQuicHolds)
          /\ One(TincHolds)' = One(TincHolds)
      BY Zenon, <1>3 DEF One
    <2>2. Holders' = Holders + 1
      BY <1>2, <2>1, SendHoldersFinite, OneIsNat DEF Holders
    <2> QED
      BY Zenon, <1>0, <2>2 DEF QcInv, RefcountIsHolders
  <1>5. FreedMeansReleased' /\ OneCloser' /\ DetachedOnlyWhileClosing' /\ CallbackBeforeDone'
    BY Zenon, <1>0, <1>1 DEF QcInv, FreedMeansReleased, OneCloser, DetachedOnlyWhileClosing,
                      CallbackBeforeDone
  <1> QED
    BY Zenon, <1>4, <1>5 DEF QcInv

(* The release that ends a callback, SHUTDOWN_COMPLETE's included. *)
LEMMA CallbackReleases ==
  ASSUME TypeOK, QcInv, qc_mem = "alloc", qc_release,
         cb \in {"recheck", "release", "complete"}, cb' = "idle",
         UNCHANGED <<closing, tinc_connection, mq, pc, wc>>
  PROVE  QcInv'
  <1>0. cb = "complete" => mq = "done"
    BY Zenon DEF QcInv, CallbackBeforeDone
  <1>1. \A u \in Procs : /\ ClosesIt(u)' <=> ClosesIt(u)
                         /\ SenderHolds(u)' <=> SenderHolds(u)
    BY Zenon DEF ClosesIt, SenderHolds
  <1>2. SendHolders' = SendHolders
    BY Zenon, <1>1 DEF SendHolders
  <1>3. /\ TincHolds' <=> TincHolds
        /\ ~CallbackHolds'
        /\ MsQuicHolds' <=> mq # "done"
        /\ \/ CallbackHolds /\ (MsQuicHolds <=> mq # "done")
           \/ ~CallbackHolds /\ MsQuicHolds /\ mq = "done"
    BY Zenon, <1>0, <1>1 DEF TincHolds, MsQuicHolds, CallbackHolds
  <1>4. RefcountIsHolders'
    <2>1. /\ One(TincHolds)' = One(TincHolds)
          /\ One(CallbackHolds)' = 0
          /\ \/ One(CallbackHolds) = 1 /\ One(MsQuicHolds)' = One(MsQuicHolds)
             \/ One(CallbackHolds) = 0 /\ One(MsQuicHolds) = 1 /\ One(MsQuicHolds)' = 0
      BY Zenon, <1>3 DEF One
    <2>2. Holders' = Holders - 1
      BY <1>2, <2>1, SendHoldersFinite, OneIsNat DEF Holders
    <2> QED
      BY Zenon, <2>2 DEF QcInv, RefcountIsHolders, qc_release
  <1>5. FreedMeansReleased'
    <2> SUFFICES ASSUME qc_mem' = "freed" PROVE FreedMeansReleased'
      BY Zenon DEF FreedMeansReleased
    <2>1. refcount = 1
      BY Zenon DEF qc_release
    <2>2. /\ Cardinality(SendHolders) = 0 /\ ~TincHolds
          /\ mq = "done"
      BY Zenon, <1>3, <2>1, LastHolder
    <2>3. \A u \in Procs : ~SenderHolds(u)' /\ ~ClosesIt(u)'
      BY Zenon, <1>1, <2>2, NoHolders DEF TincHolds
    <2> QED
      BY Zenon, <2>2, <2>3 DEF FreedMeansReleased, TincHolds
  <1>6. OneCloser' /\ DetachedOnlyWhileClosing' /\ CallbackBeforeDone'
    BY Zenon, <1>1 DEF QcInv, OneCloser, DetachedOnlyWhileClosing, CallbackBeforeDone
  <1> QED
    BY Zenon, <1>4, <1>5, <1>6 DEF QcInv

-----------------------------------------------------------------------------
(* QcInv is preserved by every step. *)
LEMMA SendingStep ==
  ASSUME TypeOK, QcInv, NEW t \in Procs, Sending(t)
  PROVE  QcInv'
  <1> USE DEF qcVars, mqVars, cbVars, HolderPcs, CloserPcs
  <1>1. CASE SendLoadClosing(t)
    BY <1>1, QuietThreadStep, Zenon DEF SendLoadClosing, QcStep
  <1>2. CASE SendAddref(t)
    BY Zenon, <1>2, SenderAcquires
  <1>3. CASE SendRecheck(t)
    <2>1. CASE closing
      BY <1>3, <2>1, SenderReleases, Zenon DEF SendRecheck, QcStep
    <2>2. CASE ~closing
      BY <1>3, <2>2, QuietThreadStep, Zenon DEF SendRecheck, QcStep
    <2> QED
      BY <2>1, <2>2
  <1>4. CASE SendCheck(t)
    BY <1>4, QuietThreadStep, Zenon DEF SendCheck, QcStep
  <1>5. CASE SendMeta(t)
    BY <1>5, QuietThreadStep, Zenon DEF SendMeta, QcStep
  <1>6. CASE SendHeadersFrame(t)
    BY <1>6, QuietThreadStep, Zenon DEF SendHeadersFrame, QcStep
  <1>7. CASE SendPacket(t)
    BY <1>7, QuietThreadStep, Zenon DEF SendPacket, QcStep
  <1>8. CASE SendRelease(t)
    BY <1>8, SenderReleases, Zenon DEF SendRelease, QcStep
  <1> QED
    BY <1>1, <1>2, <1>3, <1>4, <1>5, <1>6, <1>7, <1>8, SMTT(30) DEF Sending

(* Every step of quic_connection_close and free_connection keeps it. *)
LEMMA ClosingStep ==
  ASSUME TypeOK, QcInv, NEW t \in Procs, Closing(t)
  PROVE  QcInv'
  <1> USE DEF qcVars, mqVars, cbVars, HolderPcs, CloserPcs
  <1>1. CASE CloseExchange(t)
    <2>1. CASE closing
      BY <1>1, <2>1, QuietThreadStep, Zenon DEF CloseExchange, QcStep
    <2>2. CASE ~closing
      BY <1>1, <2>2, CloserWins
    <2> QED
      BY <2>1, <2>2
  <1>2. CASE CloseStream(t)
    BY <1>2, QuietThreadStep, Zenon DEF CloseStream, QcStep
  <1>3. CASE CloseContext(t)
    BY <1>3, QuietThreadStep, Zenon DEF CloseContext
  <1>4. CASE CloseDetach(t)
    <2>1. closing
      BY <1>4 DEF CloseDetach, QcStep, QcInv, OneCloser, ClosesIt
    <2> QED
      BY <1>4, <2>1, QuietThreadStep, Zenon DEF CloseDetach, QcStep
  <1>5. CASE CloseShutdown(t)
    BY <1>5, QuietThreadStep, Zenon DEF CloseShutdown, QcStep
  <1>6. CASE CloseRelease(t)
    BY <1>6, CloserReleases
  <1>7. CASE FreeConnection(t)
    BY <1>7, QuietThreadStep, Zenon DEF FreeConnection
  <1> QED
    BY <1>1, <1>2, <1>3, <1>4, <1>5, <1>6, <1>7 DEF Closing

(* Every step of a callback keeps it. *)
LEMMA CallbackStep ==
  ASSUME TypeOK, QcInv, CallbackProgress
  PROVE  QcInv'
  <1> USE DEF qcVars, mqVars, pcVars
  <1>1. CASE CallbackCheck
    <2>1. /\ qc_mem = "alloc" /\ cb = "check" /\ cb' \in {"idle", "addref"}
          /\ UNCHANGED <<qc_mem, refcount, closing, tinc_connection, pc, mq, wc>>
      BY Zenon, <1>1 DEF CallbackCheck, CbStep
    <2> QED
      BY Zenon, <2>1, QuietCallbackStep DEF QcInv, CallbackBeforeDone, CallbackHolds, MsQuicHolds
  <1>2. CASE CallbackAddref
    BY <1>2, CallbackAcquires
  <1>3. CASE CallbackRecheck
    <2>1. CASE closing
      BY Zenon, <1>3, <2>1, CallbackReleases DEF CallbackRecheck, CbStep
    <2>2. CASE ~closing
      <3>1. /\ qc_mem = "alloc" /\ cb = "recheck" /\ cb' = "body"
            /\ UNCHANGED <<qc_mem, refcount, closing, tinc_connection, pc, mq, wc>>
        BY Zenon, <1>3, <2>2 DEF CallbackRecheck, CbStep
      <3> QED
        BY Zenon, <3>1, QuietCallbackStep DEF QcInv, CallbackBeforeDone, CallbackHolds, MsQuicHolds
    <2> QED
      BY Zenon, <2>1, <2>2
  <1>4. CASE CallbackRelease
    BY Zenon, <1>4, CallbackReleases DEF CallbackRelease, CbStep
  <1>5. CASE ShutdownRelease
    BY Zenon, <1>5, CallbackReleases DEF ShutdownRelease, CbStep
  <1>6. ASSUME qc_mem = "alloc", cb \in {"body", "nested"}, cb' \in {"nested", "release"},
               UNCHANGED <<qc_mem, refcount, closing, tinc_connection, pc, wc>>,
               mq' = mq \/ mq' = "down"
        PROVE  QcInv'
    BY Zenon, <1>6, QuietCallbackStep DEF QcInv, CallbackBeforeDone, CallbackHolds, MsQuicHolds
  <1>7. CASE PeerCertificate
    BY Zenon, <1>6, <1>7 DEF PeerCertificate, Body, CbStep
  <1>8. CASE Connected
    BY Zenon, <1>6, <1>8 DEF Connected, Body, CbStep
  <1>9. CASE ShutdownInitiated
    BY Zenon, <1>6, <1>9 DEF ShutdownInitiated, Body, CbStep
  <1>10. CASE PeerStreamStarted
    BY Zenon, <1>6, <1>10 DEF PeerStreamStarted, Body, CbStep
  <1>11. CASE PeerAddressChanged
    BY Zenon, <1>6, <1>11 DEF PeerAddressChanged, Body, CbStep
  <1>12. CASE DatagramReceived
    BY Zenon, <1>6, <1>12 DEF DatagramReceived, Body, CbStep
  <1>13. CASE DatagramSendState
    BY Zenon, <1>6, <1>13 DEF DatagramSendState, Body, CbStep
  <1>14. CASE StreamReceive
    BY Zenon, <1>6, <1>14 DEF StreamReceive, Body, CbStep
  <1>15. CASE SendComplete
    BY Zenon, <1>6, <1>15 DEF SendComplete, Body, CbStep
  <1>16. CASE StreamShutdownComplete
    BY Zenon, <1>6, <1>16 DEF StreamShutdownComplete, Body, CbStep
  <1>17. CASE NestedDone
    BY Zenon, <1>6, <1>17 DEF NestedDone, CbStep
  <1> QED
    BY Zenon, <1>1, <1>2, <1>3, <1>4, <1>5, <1>7, <1>8, <1>9, <1>10, <1>11, <1>12, <1>13, <1>14, <1>15, <1>16, <1>17 DEF CallbackProgress

(* Every step of the system keeps the invariant. *)
LEMMA InvStep == TypeOK /\ QcInv /\ [Next]_vars => QcInv'
  <1> SUFFICES ASSUME TypeOK, QcInv, [Next]_vars PROVE QcInv'
    OBVIOUS
  <1> USE DEF qcVars, mqVars, cbVars, pcVars, HolderPcs, CloserPcs
  <1>1. ASSUME NEW t \in Procs, NEW k \in {"packet", "meta"}, SendStart(t, k) PROVE QcInv'
    <2>1. PICK context \in BOOLEAN :
            pc' = [pc EXCEPT ![t] = IF context THEN "s_load" ELSE "idle"]
      BY <1>1, Zenon DEF SendStart, ReadContext, TypeOK
    <2> QED
      BY <1>1, <2>1, QuietThreadStep, Zenon DEF SendStart, MayStart
  <1>2. ASSUME NEW t \in Procs, CloseStart(t) PROVE QcInv'
    <2>1. PICK context \in BOOLEAN :
            pc' = [pc EXCEPT ![t] = IF context THEN "c_closing" ELSE "c_free"]
      BY <1>2, Zenon DEF CloseStart, ReadContext, TypeOK
    <2> QED
      BY <1>2, <2>1, QuietThreadStep, Zenon DEF CloseStart, MayStart
  <1>3. ASSUME NEW type \in ConnEvents \cup StreamEvents, NEW b \in Dgrams \cup Metas \cup {NoBuf},
               CallbackStart(type, b)
        PROVE  QcInv'
    <2>1. /\ cb = "idle" /\ cb' = "check" /\ mq # "done" /\ wc' = tinc_connection
          /\ UNCHANGED <<qc_mem, refcount, closing, tinc_connection, pc>>
      BY <1>3 DEF CallbackStart
    <2>2. mq' # "done"
      BY <1>3, <2>1, Zenon DEF CallbackStart, Indicate, ConnEvents, StreamEvents
    <2> QED
      BY Zenon, <2>1, <2>2, QuietCallbackStep DEF CallbackHolds, MsQuicHolds
  <1>4. CASE CallbackProgress
    BY Zenon, <1>4, CallbackStep
  <1>5. CASE ShutdownComplete
    <2>1. /\ cb = "idle" /\ cb' = "complete" /\ mq = "down" /\ mq' = "done"
          /\ UNCHANGED <<qc_mem, refcount, closing, tinc_connection, pc, wc>>
      BY Zenon, <1>5 DEF ShutdownComplete
    <2> QED
      BY Zenon, <2>1, QuietCallbackStep DEF CallbackHolds, MsQuicHolds
  <1>6. CASE UNCHANGED <<qc_mem, refcount, closing, tinc_connection, pc, cb, mq, wc>>
    BY Zenon, <1>6 DEF QcInv, RefcountIsHolders, Holders, SendHolders, SenderHolds, CallbackHolds,
                TincHolds, ClosesIt, MsQuicHolds, FreedMeansReleased, OneCloser,
                DetachedOnlyWhileClosing, CallbackBeforeDone
  <1>7. CASE UseAfterFree
    BY Zenon, <1>6, <1>7 DEF UseAfterFree
  <1>8. CASE UNCHANGED vars
    BY Zenon, <1>6, <1>8 DEF vars
  <1> QED
    BY <1>1, <1>2, <1>3, <1>4, <1>5, <1>7, <1>8, SendingStep, ClosingStep, RolesAssumption, SMTT(30)
       DEF Next

(* The invariant holds at first. *)
LEMMA InvInit == Init => QcInv
  <1> SUFFICES ASSUME Init PROVE QcInv
    BY Zenon
  <1>1. /\ cb = "idle" /\ ~closing /\ tinc_connection /\ refcount = 2
        /\ \A t \in Procs : pc[t] \in {"idle", "c_closing"}
    BY Zenon DEF Init, InitialRefcount
  <1>2. (qc_mem = "alloc" /\ mq = "handshake") \/ (qc_mem = "freed" /\ mq = "done" /\ ConfigurationFails)
    BY Zenon DEF Init
  <1>3. SendHolders = {}
    BY Zenon, <1>1 DEF SendHolders, SenderHolds
  <1>4. Cardinality(SendHolders) = 0
    BY Zenon, <1>3, FS_EmptySet
  <1>5. RefcountIsHolders
    BY <1>1, <1>2, <1>4 DEF RefcountIsHolders, Holders, One, CallbackHolds, TincHolds, MsQuicHolds
  <1> QED
    BY <1>1, <1>2, <1>5 DEF QcInv, FreedMeansReleased, OneCloser, DetachedOnlyWhileClosing,
                            CallbackBeforeDone, SenderHolds, ClosesIt

(* The types and the invariant hold throughout. *)
LEMMA Invariance == Spec => [](TypeOK /\ QcInv)
  <1>1. Init => TypeOK /\ QcInv
    BY Zenon, InitType, InvInit
  <1>2. TypeOK /\ QcInv /\ [Next]_vars => TypeOK' /\ QcInv'
    BY TypeStep, InvStep
  <1> QED
    BY <1>1, <1>2, PTL DEF Spec

(* On every path of the senders, closers and callbacks, in every             *)
(* interleaving of any number of threads, the reference count of an          *)
(* allocated qc is the number of its holders.                                *)
THEOREM HoldersCounted == Spec => []RefcountIsHolders
  <1>1. QcInv => RefcountIsHolders
    BY DEF QcInv
  <1> QED
    BY <1>1, Invariance, PTL

(* qc_release frees qc only after tinc, MsQuic, every sender and every       *)
(* callback have given it up.                                                *)
THEOREM FreedWhenReleased == Spec => []FreedMeansReleased
  <1>1. QcInv => FreedMeansReleased
    BY DEF QcInv
  <1> QED
    BY <1>1, Invariance, PTL

(* At most one thread runs quic_connection_close past the exchange.          *)
THEOREM CloseIsExclusive == Spec => []OneCloser
  <1>1. QcInv => OneCloser
    BY DEF QcInv
  <1> QED
    BY <1>1, Invariance, PTL

(* A callback sees a cleared qc->tinc_connection only during a close.        *)
THEOREM DetachedMeansClosing == Spec => []DetachedOnlyWhileClosing
  <1>1. QcInv => DetachedOnlyWhileClosing
    BY Zenon DEF QcInv
  <1> QED
    BY <1>1, Invariance, PTL

-----------------------------------------------------------------------------
(* The discipline under which the unguarded reads of qc at the start of      *)
(* quic_send_packet, quic_send_meta and quic_connection_close are safe: one  *)
(* thread m both sends and closes, and request handlers on the connection's  *)
(* own worker only send.                                                     *)
OneCaller(m) ==
  /\ m \in Threads
  /\ Senders \subseteq {m, Worker}
  /\ Closers \subseteq {m}
  /\ ~ConfigurationFails

SendPcs == {"s_load", "s_addref"} \cup HolderPcs

CallerInv(m) ==
  /\ \A t \in Procs : pc[t] # "idle" => t \in {m, Worker}
  /\ pc[Worker] \in {"idle"} \cup SendPcs
  /\ pc[Worker] # "idle" => cb = "nested"
  /\ pc[m] \in {"c_closing"} \cup SendPcs => ~closing
  /\ closing /\ pc[m] = "idle" => c_mem = "freed"
  /\ ~Crashed

(* With one caller no step is about to use qc after it was freed. *)
LEMMA NoCrash ==
  ASSUME NEW m, OneCaller(m), TypeOK, QcInv, CallerInv(m)
  PROVE  ~UseAfterFree
  <1> SUFFICES ASSUME UseAfterFree PROVE FALSE
    BY Zenon
  <1>1. qc_mem = "freed" /\ closing /\ cb = "idle"
        /\ \A t \in Procs : ~SenderHolds(t) /\ ~ClosesIt(t)
    BY Zenon DEF UseAfterFree, QcInv, FreedMeansReleased, OneCaller
  <1>2. PICK t \in Procs : UsesQc(t)
    BY Zenon, <1>1 DEF UseAfterFree, CallbackUsesQc
  <1>3. t = m
    BY Zenon, <1>1, <1>2 DEF CallerInv, UsesQc
  <1>4. pc[t] \in PcValues
    BY Zenon DEF TypeOK
  <1> QED
    BY Zenon, <1>1, <1>2, <1>3, <1>4
       DEF CallerInv, UsesQc, SendPcs, HolderPcs, SenderHolds, ClosesIt, PcValues

(* A process other than m and the worker does nothing; a step of m or of the *)
(* worker in an operation keeps CallerInv if it respects the last conjuncts. *)
LEMMA CallerStep ==
  ASSUME NEW m, OneCaller(m), TypeOK, QcInv, CallerInv(m), [Next]_vars
  PROVE  CallerInv(m)'
  <1>0. m \in Procs /\ Worker \in Procs /\ m # Worker
    BY Zenon, ThreadsAssumption DEF OneCaller, Procs
  <1>a. pc \in [Procs -> PcValues]
    BY Zenon DEF TypeOK
  <1> USE DEF qcVars, cVars, mqVars, pcVars, cbVars, SendPcs, HolderPcs, CallerInv, Crashed
  <1>1. ASSUME NEW t \in Senders, NEW k \in {"packet", "meta"}, SendStart(t, k)
        PROVE  CallerInv(m)'
    <2>1. t \in {m, Worker}
      BY SMTT(30) DEF OneCaller
    <2>2. PICK context \in BOOLEAN :
            pc' = [pc EXCEPT ![t] = IF context THEN "s_load" ELSE "idle"]
      BY <1>1, Zenon DEF SendStart, ReadContext, TypeOK
    <2>3. /\ misuse' = misuse \/ misuse' = misuse \cup {"c"}
          /\ UNCHANGED <<closing, c_mem, cb>>
      BY Zenon, <1>1 DEF SendStart, TouchConnection
    <2> QED
      BY <1>0, <1>a, <1>1, <2>1, <2>2, <2>3, SMTT(30) DEF SendStart, MayStart
  <1>2. ASSUME NEW t \in Closers, CloseStart(t) PROVE CallerInv(m)'
    <2>1. t = m
      BY Zenon DEF OneCaller
    <2>2. PICK context \in BOOLEAN :
            pc' = [pc EXCEPT ![t] = IF context THEN "c_closing" ELSE "c_free"]
      BY <1>2, Zenon DEF CloseStart, ReadContext, TypeOK
    <2>3. /\ misuse' = misuse \/ misuse' = misuse \cup {"c"}
          /\ UNCHANGED <<closing, c_mem, cb>>
      BY Zenon, <1>2 DEF CloseStart, TouchConnection
    <2> QED
      BY <1>0, <1>a, <1>2, <2>1, <2>2, <2>3 DEF CloseStart, MayStart
  <1>3. ASSUME NEW t \in Procs, Sending(t) PROVE CallerInv(m)'
    <2>1. /\ t \in {m, Worker}
          /\ pc[t] \in SendPcs
          /\ \E x \in {"idle"} \cup SendPcs : pc' = [pc EXCEPT ![t] = x]
          /\ misuse' = misuse \/ misuse' = misuse \cup {"stream"}
          /\ UNCHANGED <<closing, c_mem, cb>>
      BY <1>3, Zenon DEF Sending, SendLoadClosing, SendAddref, SendRecheck, SendCheck, SendMeta,
                  SendHeadersFrame, SendPacket, SendRelease, QcStep, StreamSend
    <2> QED
      BY Zenon, <1>0, <1>a, <2>1
  <1>4. ASSUME NEW t \in Procs, Closing(t) PROVE CallerInv(m)'
    <2>1. /\ t = m
          /\ pc[t] \in {"c_closing", "c_stream", "c_context", "c_detach", "c_shutdown",
                        "c_release", "c_free"}
          /\ \/ pc[t] # "c_free" /\ \E x \in PcValues \ ({"idle", "c_closing"} \cup SendPcs) :
                                       pc' = [pc EXCEPT ![t] = x]
             \/ pc[t] = "c_free" /\ c_mem' = "freed" /\ pc' = [pc EXCEPT ![t] = "idle"]
          /\ misuse' = misuse \/ misuse' = misuse \cup {"stream"} \/ misuse' = misuse \cup {"c"}
          /\ cb' = cb
      <3>1. CASE CloseExchange(t)
        BY <3>1, Zenon DEF CloseExchange, QcStep, PcValues
      <3>2. CASE CloseStream(t)
        BY <3>2, Zenon DEF CloseStream, QcStep, PcValues, StreamClose
      <3>3. CASE CloseContext(t)
        BY <3>3, Zenon DEF CloseContext, TouchConnection, PcValues
      <3>4. CASE CloseDetach(t)
        BY <3>4, Zenon DEF CloseDetach, QcStep, PcValues
      <3>5. CASE CloseShutdown(t)
        BY <3>5, Zenon DEF CloseShutdown, QcStep, PcValues
      <3>6. CASE CloseRelease(t)
        BY <3>6, ZenonT(30) DEF CloseRelease, QcStep, PcValues
      <3>7. CASE FreeConnection(t)
        BY Zenon, <3>7 DEF FreeConnection, TouchConnection
      <3> QED
        BY <1>4, <3>1, <3>2, <3>3, <3>4, <3>5, <3>6, <3>7, ZenonT(30) DEF Closing
    <2> QED
      BY Zenon, <1>0, <1>a, <2>1
  <1>5. ASSUME UNCHANGED <<pc, closing, c_mem>>, pc[Worker] = "idle",
               misuse' = misuse \/ misuse' = misuse \cup {"stream"} \/ misuse' = misuse \cup {"c"}
        PROVE  CallerInv(m)'
    BY Zenon, <1>5
  <1>6. ASSUME NEW type \in ConnEvents \cup StreamEvents, NEW b \in Dgrams \cup Metas \cup {NoBuf},
               CallbackStart(type, b)
        PROVE  CallerInv(m)'
    BY Zenon, <1>5, <1>6 DEF CallbackStart
  <1>7. CASE CallbackProgress
    <2>1. UNCHANGED <<pc, closing, c_mem>>
      BY <1>7, Zenon
         DEF CallbackProgress, CallbackCheck, CallbackAddref, CallbackRecheck, CallbackRelease,
             PeerCertificate, Connected, ShutdownInitiated, PeerStreamStarted,
             PeerAddressChanged, DatagramReceived, DatagramSendState, StreamReceive,
             SendComplete, StreamShutdownComplete, NestedDone, ShutdownRelease
    <2>2. misuse' = misuse \/ misuse' = misuse \cup {"stream"} \/ misuse' = misuse \cup {"c"}
      BY <1>7, Zenon
         DEF CallbackProgress, CallbackCheck, CallbackAddref, CallbackRecheck, CallbackRelease,
             PeerCertificate, Connected, ShutdownInitiated, PeerStreamStarted,
             PeerAddressChanged, DatagramReceived, DatagramSendState, StreamReceive,
             SendComplete, StreamShutdownComplete, NestedDone, ShutdownRelease, TouchC, StreamClose
    <2>3. cb # "nested" \/ pc[Worker] = "idle"
      BY <1>7, ZenonT(30)
         DEF CallbackProgress, CallbackCheck, CallbackAddref, CallbackRecheck, CallbackRelease,
             PeerCertificate, Connected, ShutdownInitiated, PeerStreamStarted,
             PeerAddressChanged, DatagramReceived, DatagramSendState, StreamReceive,
             SendComplete, StreamShutdownComplete, NestedDone, ShutdownRelease, CbStep, Body
    <2> QED
      BY Zenon, <1>5, <2>1, <2>2, <2>3
  <1>8. CASE ShutdownComplete
    BY Zenon, <1>5, <1>8 DEF ShutdownComplete
  <1>9. CASE UNCHANGED vars
    BY <1>9 DEF vars
  <1> QED
    BY <1>1, <1>2, <1>3, <1>4, <1>6, <1>7, <1>8, <1>9, NoCrash, Zenon DEF Next

(* When one thread sends and closes and the worker's handlers only send, no  *)
(* step at all uses qc after free(qc), however the callbacks interleave with *)
(* that thread: what the worker of another connection, or a handler that     *)
(* terminates its own connection, adds to this is the window of              *)
(* QcNeverUsedAfterFree's counterexamples.                                   *)
THEOREM SafeForOneCaller ==
  ASSUME NEW m, OneCaller(m)
  PROVE  Spec => []QcNeverUsedAfterFree
  <1>1. Init => CallerInv(m)
    <2> SUFFICES ASSUME Init PROVE CallerInv(m)
      BY Zenon
    <2>1. m \in Procs /\ Worker \in Procs
      BY Zenon DEF OneCaller, Procs
    <2>2. pc = [t \in Procs |-> "idle"] /\ misuse = {}
      BY Zenon DEF Init, OneCaller
    <2> QED
      BY <2>1, <2>2 DEF CallerInv, SendPcs, HolderPcs, Crashed, Init
  <1>2. TypeOK /\ QcInv /\ CallerInv(m) /\ [Next]_vars => CallerInv(m)'
    BY Zenon, CallerStep
  <1>3. CallerInv(m) => QcNeverUsedAfterFree
    BY DEF CallerInv, QcNeverUsedAfterFree, Crashed
  <1> QED
    BY <1>1, <1>2, <1>3, Invariance, PTL DEF Spec

-----------------------------------------------------------------------------
(* A step leaves a stream buffer where it is, passes it to MsQuic or frees   *)
(* it: Return is called with TRUE on all paths of quic_stream_callback.      *)
LEMMA MetaStep ==
  ASSUME TypeOK, Next, NEW m \in Metas
  PROVE  meta'[m] \in {meta[m], "sent", "free"}
  <1>0. meta \in [Metas -> {"free", "sent", "leaked"}]
    BY DEF TypeOK
  <1>1. ASSUME NEW t \in Procs, Sending(t) PROVE meta'[m] \in {meta[m], "sent", "free"}
    <2>1. CASE SendMeta(t) \/ SendHeadersFrame(t)
      <3>1. meta' = meta \/ \E n \in Metas : meta' = [meta EXCEPT ![n] = "sent"]
        BY Zenon, <2>1 DEF SendMeta, SendHeadersFrame, StreamSend
      <3> QED BY <1>0, <3>1
    <2>2. CASE \/ SendLoadClosing(t) \/ SendAddref(t) \/ SendRecheck(t) \/ SendCheck(t)
               \/ SendPacket(t) \/ SendRelease(t)
      <3>1. meta' = meta
        BY Zenon, <2>2 DEF SendLoadClosing, SendAddref, SendRecheck, SendCheck, SendPacket, SendRelease, mqVars
      <3> QED BY <3>1
    <2> QED BY Zenon, <1>1, <2>1, <2>2 DEF Sending
  <1>2. ASSUME NEW t \in Procs, Closing(t) PROVE meta'[m] \in {meta[m], "sent", "free"}
    <2>1. meta' = meta
      BY Zenon, <1>2 DEF Closing, CloseExchange, CloseStream, CloseContext, CloseDetach, CloseShutdown,
         CloseRelease, FreeConnection, mqVars
    <2> QED BY <2>1
  <1>3. CASE CallbackProgress
    <2>1. CASE CallbackCheck \/ CallbackRecheck \/ SendComplete
      <3>1. meta' = meta \/ meta' = Return(meta, ev.buf, TRUE)
        BY Zenon, <2>1 DEF CallbackCheck, CallbackRecheck, SendComplete, EarlyReturn
      <3> QED BY <1>0, <3>1 DEF Return
    <2>2. CASE \/ CallbackAddref \/ CallbackRelease \/ PeerCertificate \/ Connected \/ ShutdownInitiated
               \/ PeerStreamStarted \/ PeerAddressChanged \/ DatagramReceived \/ DatagramSendState
               \/ StreamReceive \/ StreamShutdownComplete \/ NestedDone \/ ShutdownRelease
      <3>1. meta' = meta
        BY Zenon, <2>2 DEF CallbackAddref, CallbackRelease, PeerCertificate, Connected, ShutdownInitiated,
           PeerStreamStarted, PeerAddressChanged, DatagramReceived, DatagramSendState, StreamReceive,
           StreamShutdownComplete, NestedDone, ShutdownRelease, mqVars
      <3> QED BY <3>1
    <2> QED BY Zenon, <1>3, <2>1, <2>2 DEF CallbackProgress
  <1>4. CASE \/ \E t \in Senders, k \in {"packet", "meta"} : SendStart(t, k)
             \/ \E t \in Closers : NestedMayClose(t) /\ CloseStart(t)
             \/ \E type \in ConnEvents \cup StreamEvents, b \in Dgrams \cup Metas \cup {NoBuf} :
                  CallbackStart(type, b)
             \/ ShutdownComplete \/ UseAfterFree
    <2>1. meta' = meta
      BY Zenon, <1>4 DEF SendStart, CloseStart, CallbackStart, ShutdownComplete, UseAfterFree, mqVars
    <2> QED BY <2>1
  <1> QED BY Zenon, <1>1, <1>2, <1>3, <1>4 DEF Next

(* Every stream buffer that MsQuic hands back is freed, whatever a close has *)
(* done meanwhile (quic_stream_callback, SEND_COMPLETE).                     *)
THEOREM StreamBuffersFreed == Spec => []StreamBuffersReleased
  <1>1. Init => StreamBuffersReleased
    BY Zenon DEF Init, StreamBuffersReleased
  <1>2. TypeOK /\ StreamBuffersReleased /\ [Next]_vars => StreamBuffersReleased'
    <2> SUFFICES ASSUME TypeOK, StreamBuffersReleased, [Next]_vars PROVE StreamBuffersReleased'
      OBVIOUS
    <2>1. CASE Next
      BY Zenon, <2>1, MetaStep DEF StreamBuffersReleased
    <2>2. CASE UNCHANGED vars
      BY <2>2 DEF vars, mqVars, StreamBuffersReleased
    <2> QED BY Zenon, <2>1, <2>2
  <1> QED BY <1>1, <1>2, TypeCorrect, PTL DEF Spec
=============================================================================
