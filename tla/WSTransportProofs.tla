------------------------- MODULE WSTransportProofs -------------------------
(***************************************************************************)
(* Proofs about the WebSocket transport, for any number of calls, uploads  *)
(* and Closes, any number of connections and attempts, and any subset of   *)
(* the calls with a context that may end.                                  *)
(***************************************************************************)
EXTENDS WSTransport, TLAPS

USE DEF transport, registry, progress, network, Goto, Return, Fault

-----------------------------------------------------------------------------
(* Type correctness.                                                        *)

LEMMA ConnFacts ==
    /\ 1 \in Conn
    /\ \A c \in Conn : c \in Nat /\ 1 <= c /\ (c < MaxDials => c + 1 \in Conn)
  BY LimitAssumption DEF Conn

LEMMA GoroutineFacts ==
    /\ NoOne \notin Caller /\ NoOne \notin Uploader /\ NoOne \notin Closer
    /\ \A i \in Caller : i \notin Uploader /\ i \notin Closer
    /\ \A i \in Uploader : i \notin Caller /\ i \notin Closer
    /\ \A k \in Closer : k \notin Caller /\ k \notin Uploader
  BY GoroutineAssumption

LEMMA InboxFacts ==
    /\ NoAnswer \in Inbox /\ ConnLost \in Inbox
    /\ \A i \in Caller, y \in Replies : [from |-> i, reply |-> y] \in Inbox
  BY DEF Inbox

(* A connection is dialled only while an attempt is left, so that the       *)
(* failure of its handshake can be counted.                                 *)
AttemptsLeft ==
    \A i \in Caller : pc[i] = "handshake" => attempt[i] < MaxAttempts

(* What a call keeps of its own, and where it is.                           *)
Own ==
    /\ pc \in [Caller \cup Uploader \cup Closer ->
                 {"queued", "calling", "open", "signalled", "waiting",
                  "drained", "forced", "overdue", "closed"}
                 \cup Counted \cup Ended]
    /\ try \in [Caller -> {1, 2}]
    /\ gen \in [Caller -> Nat]
    /\ id \in [Caller -> Nat]
    /\ used \in [Caller -> Conn]
    /\ awaits \in [Caller -> Conn]
    /\ attempt \in [Caller -> 0 .. MaxAttempts]
    /\ cancelled \in [Caller -> BOOLEAN]

LEMMA ReturnTyped ==
    ASSUME TypeOK, NEW i \in Caller, NEW place \in Ended, Return(i, place)
    PROVE  Own'
  BY ConnFacts, LimitAssumption DEF TypeOK, Own

LEMMA DoCallFailsTyped ==
    ASSUME TypeOK, NEW i \in Caller, DoCallFails(i)
    PROVE  /\ Own'
           /\ pending' \in SUBSET [id : Nat, by : Caller]
           /\ inbox' \in [Caller -> Inbox]
           /\ UNCHANGED <<transport, connMu, nextID>>
  <1>1. /\ pending' \in SUBSET [id : Nat, by : Caller]
        /\ inbox' \in [Caller -> Inbox]
        /\ UNCHANGED <<transport, connMu, nextID>>
    BY InboxFacts DEF DoCallFails, TypeOK
  <1>2. CASE /\ Goto(i, "reconnect")
             /\ id' = [id EXCEPT ![i] = 0]
             /\ awaits' = [awaits EXCEPT ![i] = 1]
             /\ UNCHANGED <<try, gen, used, attempt, cancelled>>
    BY <1>1, <1>2, ConnFacts DEF TypeOK, Own, Counted
  <1>3. CASE Return(i, "failed")
    <2>1. "failed" \in Ended
      BY DEF Ended
    <2> QED
      BY <1>1, <1>3, <2>1, ReturnTyped
  <1> QED
    BY <1>1, <1>2, <1>3 DEF DoCallFails

LEMMA DoCallTyped ==
    ASSUME TypeOK, NEW i \in Caller, DoCall(i)
    PROVE  TypeOK'
  <1> USE ConnFacts, InboxFacts, LimitAssumption
  <1>1. CASE registerPending(i)
    BY <1>1 DEF registerPending, TypeOK, Counted, Registered
  <1>2. CASE AcquireWrite(i)
    BY <1>2 DEF AcquireWrite, TypeOK, Counted, Registered
  <1>3. CASE CaptureConn(i)
    BY <1>3 DEF CaptureConn, TypeOK, Counted, Registered
  <1>4. CASE DoCallFails(i) /\ UNCHANGED <<up, requests, answers>>
             /\ (Fault \/ UNCHANGED <<faulty, executed>>)
             /\ writeSem' \in {NoOne, writeSem}
    BY <1>4, DoCallFailsTyped DEF TypeOK, Own
  <1>5. CASE WriteOK(i)
    BY <1>5 DEF WriteOK, TypeOK, Counted, Registered, Request
  <1>6. CASE SnapshotReader(i)
    BY <1>6 DEF SnapshotReader, TypeOK, Counted, Registered
  <1>7. CASE Answered(i)
    BY <1>7 DEF Answered, TypeOK, Ended
  <1> QED
    BY <1>1, <1>2, <1>3, <1>4, <1>5, <1>6, <1>7
       DEF DoCall, NotAuthenticated, WriteFails, ConnectionLost, NotDecoded,
           WaitCancelled, WaitTimesOut, ReaderGone

LEMMA ReconnectTyped ==
    ASSUME TypeOK, AttemptsLeft, NEW i \in Caller, Reconnect(i)
    PROVE  TypeOK'
  <1> USE ConnFacts, LimitAssumption
  <1>1. CASE ReconnectRefused(i) \/ SleepAborted(i) \/ ReconnectGivesUp(i)
    <2>1. Return(i, "failed") /\ "failed" \in Ended
      BY <1>1 DEF ReconnectRefused, SleepAborted, ReconnectGivesUp, Ended
    <2>2. Own'
      BY <2>1, ReturnTyped
    <2> QED
      BY <1>1, <2>2 DEF ReconnectRefused, SleepAborted, ReconnectGivesUp,
                        TypeOK, Own
  <1>2. CASE AlreadyReconnected(i)
    BY <1>2 DEF AlreadyReconnected, TryAgain, TypeOK, Counted
  <1>3. CASE ReconnectLock(i)
    BY <1>3 DEF ReconnectLock, TypeOK, Counted, Reconnecting
  <1>4. CASE CloseOld(i)
    BY <1>4 DEF CloseOld, TypeOK, Counted, Reconnecting
  <1>5. CASE OldReaderDone(i)
    BY <1>5 DEF OldReaderDone, TypeOK, Counted, Reconnecting
  <1>6. CASE DialFails(i)
    BY <1>6 DEF DialFails, AttemptFails, TypeOK, Counted, Reconnecting
  <1>7. CASE DialOK(i)
    BY <1>7 DEF DialOK, TypeOK, Counted, Reconnecting
  <1>8. CASE HandshakeFails(i)
    BY <1>8 DEF HandshakeFails, AttemptFails, AttemptsLeft, TypeOK, Counted,
                Reconnecting
  <1>9. CASE HandshakeOK(i)
    BY <1>9 DEF HandshakeOK, TryAgain, TypeOK, Counted
  <1> QED
    BY <1>1, <1>2, <1>3, <1>4, <1>5, <1>6, <1>7, <1>8, <1>9 DEF Reconnect

LEMMA CallTyped ==
    ASSUME TypeOK, AttemptsLeft, NEW i \in Caller, Call(i) \/ Cancel(i)
    PROVE  TypeOK'
  <1> USE ConnFacts, InboxFacts
  <1>1. CASE AcquireSlot(i) \/ CallStart(i)
    BY <1>1 DEF AcquireSlot, CallStart, TypeOK, Counted
  <1>2. CASE GiveUp(i) \/ CallRefused(i)
    <2>1. Return(i, "failed") /\ "failed" \in Ended
      BY <1>2 DEF GiveUp, CallRefused, Ended
    <2>2. Own'
      BY <2>1, ReturnTyped
    <2> QED
      BY <1>2, <2>2 DEF GiveUp, CallRefused, TypeOK, Own
  <1>3. CASE Cancel(i)
    BY <1>3 DEF Cancel, TypeOK
  <1> QED
    BY <1>1, <1>2, <1>3, DoCallTyped, ReconnectTyped DEF Call

LEMMA OthersTyped ==
    ASSUME TypeOK,
           \/ \E i \in Uploader : UploadFile(i)
           \/ \E k \in Closer : Close(k)
    PROVE  TypeOK'
  <1>1. ASSUME NEW i \in Uploader, UploadFile(i) PROVE TypeOK'
    BY <1>1 DEF UploadFile, UploadStart, UploadEnd, TypeOK, Counted, Ended
  <1>2. ASSUME NEW k \in Closer, Close(k) PROVE TypeOK'
    <2>1. CASE CloseSignal(k)
      BY <2>1 DEF CloseSignal, TypeOK
    <2>2. CASE CloseFlip(k)
      BY <2>2 DEF CloseFlip, TypeOK
    <2>3. CASE CloseDrained(k) \/ CloseTimesOut(k)
      BY <2>3 DEF CloseDrained, CloseTimesOut, TypeOK
    <2>4. CASE CloseConn(k)
      BY <2>4 DEF CloseConn, TypeOK
    <2> QED
      BY <1>2, <2>1, <2>2, <2>3, <2>4 DEF Close
  <1> QED
    BY <1>1, <1>2

LEMMA NetworkTyped ==
    ASSUME TypeOK, (\E c \in Conn : readLoop(c)) \/ Execute \/ ConnDrops
    PROVE  TypeOK'
  <1>1. ASSUME NEW c \in Conn, ReaderDelivers(c) PROVE TypeOK'
    <2>1. PICK a \in answers :
             /\ answers' = answers \ {a}
             /\ inbox' = [i \in Caller |->
                            IF /\ [id |-> a.id, by |-> i] \in pending
                               /\ inbox[i] = NoAnswer
                            THEN [from |-> a.from, reply |-> a.reply]
                            ELSE inbox[i]]
      BY <1>1 DEF ReaderDelivers
    <2>2. [from |-> a.from, reply |-> a.reply] \in Inbox
      BY <2>1, InboxFacts DEF TypeOK, Answer
    <2>3. inbox' \in [Caller -> Inbox]
      BY <2>1, <2>2 DEF TypeOK
    <2> QED
      BY <1>1, <2>1, <2>3 DEF ReaderDelivers, TypeOK
  <1>2. ASSUME NEW c \in Conn, ReaderFails(c) \/ FrameRefused(c) PROVE TypeOK'
    BY <1>2, InboxFacts DEF ReaderFails, FrameRefused, ReaderExits, TypeOK
  <1>3. CASE Execute
    <2>1. PICK r \in requests, y \in Replies :
             /\ requests' = requests \ {r}
             /\ executed' = IF faulty THEN {} ELSE executed \cup {r}
             /\ answers' = IF r.conn \in up \cap open \cap reading
                           THEN answers \cup {[id |-> r.id, from |-> r.from,
                                               conn |-> r.conn, reply |-> y]}
                           ELSE answers
      BY <1>3 DEF Execute
    <2>2. [id |-> r.id, from |-> r.from, conn |-> r.conn, reply |-> y] \in Answer
      BY <2>1 DEF TypeOK, Request, Answer
    <2> QED
      BY <1>3, <2>1, <2>2 DEF Execute, TypeOK
  <1>4. CASE ConnDrops
    BY <1>4 DEF ConnDrops, TypeOK
  <1> QED
    BY <1>1, <1>2, <1>3, <1>4 DEF readLoop

(* The places a step takes a call to; nobody else moves.                    *)
LEMMA AttemptsLeftKept ==
    ASSUME TypeOK, AttemptsLeft, Next
    PROVE  AttemptsLeft'
  <1> USE DEF AttemptsLeft
  <1>1. ASSUME NEW i \in Caller, DoCall(i) PROVE AttemptsLeft'
    BY <1>1 DEF DoCall, registerPending, AcquireWrite, CaptureConn,
                NotAuthenticated, WriteOK, WriteFails, SnapshotReader,
                Answered, ConnectionLost, NotDecoded, WaitCancelled,
                WaitTimesOut, ReaderGone, DoCallFails, TypeOK
  <1>2. ASSUME NEW i \in Caller, Reconnect(i) PROVE AttemptsLeft'
    BY <1>2 DEF Reconnect, ReconnectRefused, AlreadyReconnected,
                ReconnectLock, SleepAborted, CloseOld, OldReaderDone,
                DialFails, DialOK, HandshakeFails, HandshakeOK,
                ReconnectGivesUp, TryAgain, AttemptFails, TypeOK
  <1>3. ASSUME NEW i \in Caller,
               \/ AcquireSlot(i) \/ GiveUp(i) \/ CallStart(i)
               \/ CallRefused(i) \/ Cancel(i)
        PROVE  AttemptsLeft'
    BY <1>3 DEF AcquireSlot, GiveUp, CallStart, CallRefused, Cancel, TypeOK
  <1>4. ASSUME NEW i \in Uploader, UploadFile(i) PROVE AttemptsLeft'
    BY <1>4, GoroutineFacts DEF UploadFile, UploadStart, UploadEnd, TypeOK
  <1>5. ASSUME NEW k \in Closer, Close(k) PROVE AttemptsLeft'
    BY <1>5, GoroutineFacts DEF Close, CloseSignal, CloseFlip, CloseDrained,
       CloseTimesOut, CloseConn, TypeOK
  <1>6. ASSUME NEW c \in Conn, readLoop(c) PROVE AttemptsLeft'
    BY <1>6 DEF readLoop, ReaderDelivers, ReaderFails, FrameRefused,
       ReaderExits
  <1>7. CASE Execute \/ ConnDrops
    BY <1>7 DEF Execute, ConnDrops
  <1> QED
    BY <1>1, <1>2, <1>3, <1>4, <1>5, <1>6, <1>7 DEF Next, Call

(* Every variable of the transport keeps its type: in particular reconnect  *)
(* makes at most MaxAttempts attempts, the locks are held by calls, and the *)
(* channel of a call holds nothing but an answer or the news that the       *)
(* connection is lost.                                                      *)
THEOREM TransportTypeCorrect == Spec => []TypeOK
  <1>1. Init => TypeOK /\ AttemptsLeft
    <2> SUFFICES ASSUME Init PROVE TypeOK /\ AttemptsLeft
      OBVIOUS
    <2>1. Own
      BY ConnFacts, LimitAssumption DEF Init, Own
    <2>2. AttemptsLeft
      BY DEF Init, AttemptsLeft
    <2> QED
      BY <2>1, <2>2, ConnFacts, InboxFacts DEF Init, TypeOK, Own
  <1>2. TypeOK /\ AttemptsLeft /\ [Next]_vars => TypeOK' /\ AttemptsLeft'
    <2> SUFFICES ASSUME TypeOK, AttemptsLeft, [Next]_vars
                 PROVE  TypeOK' /\ AttemptsLeft'
      OBVIOUS
    <2>1. CASE UNCHANGED vars
      BY <2>1 DEF vars, TypeOK, AttemptsLeft
    <2>2. CASE Next
      <3>1. TypeOK'
        BY <2>2, CallTyped, OthersTyped, NetworkTyped DEF Next
      <3> QED
        BY <2>2, <3>1, AttemptsLeftKept
    <2> QED
      BY <2>1, <2>2
  <1> QED
    BY <1>1, <1>2, PTL DEF Spec

-----------------------------------------------------------------------------
(* The inductive invariant.                                                 *)

(* Each lock is taken when it is free and given back by its holder.         *)
LEMMA LocksKept ==
    ASSUME TypeOK, TypeOK', TransportInv, Next
    PROVE  Locks'
  <1>1. ASSUME NEW i \in Caller, DoCall(i) PROVE Locks'
    <2>1. CASE \/ registerPending(i) \/ AcquireWrite(i) \/ CaptureConn(i)
              \/ WriteOK(i) \/ SnapshotReader(i) \/ Answered(i)
      BY <2>1, GoroutineFacts DEF registerPending, AcquireWrite, CaptureConn,
         WriteOK, SnapshotReader, Answered, TypeOK, TransportInv, Locks,
         Reconnecting
    <2>2. CASE \/ NotAuthenticated(i) \/ WriteFails(i) \/ ConnectionLost(i)
              \/ NotDecoded(i) \/ WaitCancelled(i) \/ WaitTimesOut(i)
              \/ ReaderGone(i)
      BY <2>2, GoroutineFacts DEF NotAuthenticated, DoCallFails, WriteFails,
         ConnectionLost, NotDecoded, WaitCancelled, WaitTimesOut, ReaderGone,
         TypeOK, TransportInv, Locks, Reconnecting
    <2> QED
      BY <1>1, <2>1, <2>2 DEF DoCall
  <1>2. ASSUME NEW i \in Caller, Reconnect(i) PROVE Locks'
    BY <1>2, GoroutineFacts DEF Reconnect, ReconnectRefused,
       AlreadyReconnected, TryAgain, ReconnectLock, SleepAborted, Sleeping,
       CloseOld, OldReaderDone, DialFails, AttemptFails, DialOK,
       HandshakeFails, HandshakeOK, ReconnectGivesUp, TypeOK, TransportInv,
       Locks, Reconnecting
  <1>3. ASSUME NEW i \in Caller,
               AcquireSlot(i) \/ GiveUp(i) \/ CallStart(i) \/
               CallRefused(i) \/ Cancel(i)
        PROVE  Locks'
    BY <1>3, GoroutineFacts DEF AcquireSlot, GiveUp, CallStart, CallRefused,
       Cancel, TypeOK, TransportInv, Locks, Reconnecting
  <1>4. ASSUME NEW i \in Uploader, UploadFile(i) PROVE Locks'
    BY <1>4, GoroutineFacts DEF UploadFile, UploadStart, UploadEnd, TypeOK,
       TransportInv, Locks, Reconnecting
  <1>5. ASSUME NEW k \in Closer, Close(k) PROVE Locks'
    BY <1>5, GoroutineFacts DEF Close, CloseSignal, CloseFlip, CloseDrained,
       CloseTimesOut, CloseConn, TypeOK, TransportInv, Locks, Reconnecting
  <1>6. ASSUME NEW c \in Conn, readLoop(c) PROVE Locks'
    BY <1>6, GoroutineFacts DEF readLoop, ReaderDelivers, ReaderFails,
       FrameRefused, ReaderExits, TypeOK, TransportInv, Locks, Reconnecting
  <1>7. CASE Execute
    BY <1>7, GoroutineFacts DEF Execute, TypeOK, TransportInv, Locks,
       Reconnecting
  <1>8. CASE ConnDrops
    BY <1>8, GoroutineFacts DEF ConnDrops, TypeOK, TransportInv, Locks,
       Reconnecting
  <1> QED
    BY <1>1, <1>2, <1>3, <1>4, <1>5, <1>6, <1>7, <1>8 DEF Next, Call

(* The old connection is closed before the next one is dialled, ...         *)
LEMMA ConnectionsKept ==
    ASSUME TypeOK, TypeOK', TransportInv, Next
    PROVE  Connections'
  <1>1. ASSUME NEW i \in Caller, DoCall(i) PROVE Connections'
    <2>1. CASE \/ registerPending(i) \/ AcquireWrite(i) \/ WriteOK(i)
              \/ SnapshotReader(i)
      BY <2>1, GoroutineFacts, ConnFacts DEF registerPending, AcquireWrite,
         WriteOK, SnapshotReader, TypeOK, TransportInv, Locks, Connections,
         Closing, Dialled, Reconnecting
    <2>2. CASE CaptureConn(i)
      <3>1. ~Dialled /\ ~Dialled'
        BY <2>2, GoroutineFacts DEF CaptureConn, TypeOK, TransportInv, Locks,
                 Dialled, Reconnecting
      <3>2. ASSUME NEW j \in Caller PROVE used[j]' <= conn
        <4>1. used[j]' = IF j = i THEN conn ELSE used[j]
          BY <2>2 DEF CaptureConn, TypeOK
        <4>2. used[j] <= conn /\ conn \in Nat
          BY ConnFacts DEF TypeOK, TransportInv, Connections
        <4> QED
          BY <4>1, <4>2
      <3> QED
        BY <2>2, <3>1, <3>2 DEF CaptureConn, TypeOK, TransportInv, Connections
    <2>3. CASE Answered(i)
      BY <2>3, GoroutineFacts, ConnFacts DEF Answered, TypeOK, TransportInv,
         Locks, Connections, Closing, Dialled, Reconnecting
    <2>4. CASE \/ NotAuthenticated(i) \/ WriteFails(i) \/ ConnectionLost(i)
              \/ NotDecoded(i) \/ WaitCancelled(i) \/ WaitTimesOut(i)
              \/ ReaderGone(i)
      BY <2>4, GoroutineFacts, ConnFacts DEF NotAuthenticated, DoCallFails,
         WriteFails, ConnectionLost, NotDecoded, WaitCancelled, WaitTimesOut,
         ReaderGone, TypeOK, TransportInv, Locks, Connections, Closing,
         Dialled, Reconnecting
    <2> QED
      BY <1>1, <2>1, <2>2, <2>3, <2>4 DEF DoCall
  <1>2. ASSUME NEW i \in Caller, Reconnect(i) PROVE Connections'
    <2>1. CASE ReconnectRefused(i) \/ SleepAborted(i) \/ ReconnectGivesUp(i)
      BY <2>1, GoroutineFacts, ConnFacts DEF ReconnectRefused, SleepAborted,
         Sleeping, ReconnectGivesUp, TypeOK, TransportInv, Locks, Connections,
         Closing, Dialled, Reconnecting
    <2>2. CASE AlreadyReconnected(i)
      BY <2>2, GoroutineFacts, ConnFacts DEF AlreadyReconnected, TryAgain,
         TypeOK, TransportInv, Locks, Connections, Closing, Dialled,
         Reconnecting
    <2>3. CASE \/ ReconnectLock(i) \/ CloseOld(i) \/ OldReaderDone(i)
              \/ DialFails(i)
      BY <2>3, GoroutineFacts, ConnFacts DEF ReconnectLock, CloseOld,
         OldReaderDone, DialFails, AttemptFails, TypeOK, TransportInv, Locks,
         Connections, Closing, Dialled, Reconnecting
    <2>4. CASE DialOK(i)
      <3>1. connMu = i /\ open = {} /\ ~closed
        BY <2>4, GoroutineFacts DEF DialOK, TransportInv, Locks, Connections,
                 Closing, Reconnecting
      <3>2. open' = {conn'} /\ Dialled'
        BY <2>4, <3>1 DEF DialOK, TypeOK, Dialled
      <3>3. ASSUME NEW j \in Caller PROVE pc[j]' \notin {"drain", "dial"}
        <4>1. j # i => pc[j] \notin {"drain", "dial"}
          BY <3>1 DEF TransportInv, Locks, Reconnecting
        <4> QED
          BY <2>4, <4>1 DEF DialOK, TypeOK
      <3>4. ASSUME NEW j \in Caller PROVE used[j]' <= conn' /\ used[j]' # conn'
        <4>1. used[j] <= conn /\ used[j] \in Nat /\ conn \in Nat
          BY ConnFacts DEF TransportInv, Connections, TypeOK
        <4>2. used' = used /\ conn' = conn + 1
          BY <2>4 DEF DialOK
        <4> QED
          BY <4>1, <4>2
      <3> QED
        BY <3>2, <3>3, <3>4 DEF Connections
    <2>5. CASE HandshakeFails(i)
      BY <2>5, GoroutineFacts, ConnFacts DEF HandshakeFails, AttemptFails,
         TypeOK, TransportInv, Locks, Connections, Closing, Dialled,
         Reconnecting
    <2>6. CASE HandshakeOK(i)
      BY <2>6, GoroutineFacts, ConnFacts DEF HandshakeOK, TryAgain, TypeOK,
         TransportInv, Locks, Connections, Closing, Dialled, Reconnecting
    <2> QED
      BY <1>2, <2>1, <2>2, <2>3, <2>4, <2>5, <2>6 DEF Reconnect
  <1>3. ASSUME NEW i \in Caller,
               AcquireSlot(i) \/ GiveUp(i) \/ CallStart(i) \/
               CallRefused(i) \/ Cancel(i)
        PROVE  Connections'
    BY <1>3, GoroutineFacts, ConnFacts DEF AcquireSlot, GiveUp, CallStart,
       CallRefused, Cancel, TypeOK, TransportInv, Locks, Connections, Closing,
       Dialled, Reconnecting
  <1>4. ASSUME NEW i \in Uploader, UploadFile(i) PROVE Connections'
    BY <1>4, GoroutineFacts, ConnFacts DEF UploadFile, UploadStart, UploadEnd,
       TypeOK, TransportInv, Locks, Connections, Closing, Dialled,
       Reconnecting
  <1>5. ASSUME NEW k \in Closer, Close(k) PROVE Connections'
    BY <1>5, GoroutineFacts, ConnFacts DEF Close, CloseSignal, CloseFlip,
       CloseDrained, CloseTimesOut, CloseConn, TypeOK, TransportInv, Locks,
       Connections, Closing, Dialled, Reconnecting
  <1>6. ASSUME NEW c \in Conn, readLoop(c) PROVE Connections'
    BY <1>6, GoroutineFacts, ConnFacts DEF readLoop, ReaderDelivers,
       ReaderFails, FrameRefused, ReaderExits, TypeOK, TransportInv, Locks,
       Connections, Closing, Dialled, Reconnecting
  <1>7. CASE Execute
    BY <1>7, GoroutineFacts, ConnFacts DEF Execute, TypeOK, TransportInv,
       Locks, Connections, Closing, Dialled, Reconnecting
  <1>8. CASE ConnDrops
    BY <1>8, GoroutineFacts, ConnFacts DEF ConnDrops, TypeOK, TransportInv,
       Locks, Connections, Closing, Dialled, Reconnecting
  <1> QED
    BY <1>1, <1>2, <1>3, <1>4, <1>5, <1>6, <1>7, <1>8 DEF Next, Call

(* ... and once closed, no call is counted and no connection dialled.       *)
LEMMA ClosingKept ==
    ASSUME TypeOK, TypeOK', TransportInv, Next
    PROVE  Closing'
  <1>1. ASSUME NEW i \in Caller, DoCall(i) PROVE Closing'
    <2>1. CASE \/ registerPending(i) \/ AcquireWrite(i) \/ CaptureConn(i)
              \/ WriteOK(i) \/ SnapshotReader(i) \/ Answered(i)
      BY <2>1, GoroutineFacts DEF registerPending, AcquireWrite, CaptureConn,
         WriteOK, SnapshotReader, Answered, TypeOK, TransportInv, Locks,
         Connections, Closing, Draining, NothingOpenAfterClose, DrainIsFinal,
         InFlight, Counted, Registered, Reconnecting, Ended
    <2>2. CASE \/ NotAuthenticated(i) \/ WriteFails(i) \/ ConnectionLost(i)
              \/ NotDecoded(i) \/ WaitCancelled(i) \/ WaitTimesOut(i)
              \/ ReaderGone(i)
      BY <2>2, GoroutineFacts DEF NotAuthenticated, DoCallFails, WriteFails,
         ConnectionLost, NotDecoded, WaitCancelled, WaitTimesOut, ReaderGone,
         TypeOK, TransportInv, Locks, Connections, Closing, Draining,
         NothingOpenAfterClose, DrainIsFinal, InFlight, Counted, Registered,
         Reconnecting, Ended
    <2> QED
      BY <1>1, <2>1, <2>2 DEF DoCall
  <1>2. ASSUME NEW i \in Caller, Reconnect(i) PROVE Closing'
    <2>1. CASE \/ CloseOld(i) \/ OldReaderDone(i) \/ DialFails(i) \/ DialOK(i)
              \/ HandshakeFails(i) \/ HandshakeOK(i)
      BY <2>1, GoroutineFacts DEF CloseOld, OldReaderDone, DialFails,
         AttemptFails, DialOK, HandshakeFails, HandshakeOK, TryAgain, TypeOK,
         TransportInv, Locks, Connections, Closing, Draining,
         NothingOpenAfterClose, DrainIsFinal, InFlight, Counted, Registered,
         Reconnecting, Ended
    <2>2. CASE \/ ReconnectRefused(i) \/ AlreadyReconnected(i)
              \/ ReconnectLock(i) \/ SleepAborted(i) \/ ReconnectGivesUp(i)
      BY <2>2, GoroutineFacts DEF ReconnectRefused, AlreadyReconnected,
         TryAgain, ReconnectLock, SleepAborted, Sleeping, ReconnectGivesUp,
         TypeOK, TransportInv, Locks, Connections, Closing, Draining,
         NothingOpenAfterClose, DrainIsFinal, InFlight, Counted, Registered,
         Reconnecting, Ended
    <2> QED
      BY <1>2, <2>1, <2>2 DEF Reconnect
  <1>3. ASSUME NEW i \in Caller,
               AcquireSlot(i) \/ GiveUp(i) \/ CallStart(i) \/
               CallRefused(i) \/ Cancel(i)
        PROVE  Closing'
    BY <1>3, GoroutineFacts DEF AcquireSlot, GiveUp, CallStart, CallRefused,
       Cancel, TypeOK, TransportInv, Locks, Connections, Closing, Draining,
       NothingOpenAfterClose, DrainIsFinal, InFlight, Counted, Registered,
       Reconnecting, Ended
  <1>4. ASSUME NEW i \in Uploader, UploadFile(i) PROVE Closing'
    BY <1>4, GoroutineFacts DEF UploadFile, UploadStart, UploadEnd, TypeOK,
       TransportInv, Locks, Connections, Closing, Draining,
       NothingOpenAfterClose, DrainIsFinal, InFlight, Counted, Registered,
       Reconnecting, Ended
  <1>5. ASSUME NEW k \in Closer, Close(k) PROVE Closing'
    <2>1. CASE CloseFlip(k)
      BY <2>1, GoroutineFacts DEF CloseFlip, TypeOK, TransportInv, Locks,
         Connections, Closing, Draining, NothingOpenAfterClose, DrainIsFinal,
         InFlight, Counted, Registered, Reconnecting, Ended
    <2>2. CASE CloseConn(k)
      BY <2>2, GoroutineFacts DEF CloseConn, TypeOK, TransportInv, Locks,
         Connections, Closing, Draining, NothingOpenAfterClose, DrainIsFinal,
         InFlight, Counted, Registered, Reconnecting, Ended
    <2>3. CASE CloseSignal(k) \/ CloseDrained(k) \/ CloseTimesOut(k)
      BY <2>3, GoroutineFacts DEF CloseSignal, CloseDrained, CloseTimesOut,
         TypeOK, TransportInv, Locks, Connections, Closing, Draining,
         NothingOpenAfterClose, DrainIsFinal, InFlight, Counted, Registered,
         Reconnecting, Ended
    <2> QED
      BY <1>5, <2>1, <2>2, <2>3 DEF Close
  <1>6. ASSUME NEW c \in Conn, readLoop(c) PROVE Closing'
    BY <1>6, GoroutineFacts DEF readLoop, ReaderDelivers, ReaderFails,
       FrameRefused, ReaderExits, TypeOK, TransportInv, Locks, Connections,
       Closing, Draining, NothingOpenAfterClose, DrainIsFinal, InFlight,
       Counted, Registered, Reconnecting, Ended
  <1>7. CASE Execute
    BY <1>7, GoroutineFacts DEF Execute, TypeOK, TransportInv, Locks,
       Connections, Closing, Draining, NothingOpenAfterClose, DrainIsFinal,
       InFlight, Counted, Registered, Reconnecting, Ended
  <1>8. CASE ConnDrops
    BY <1>8, GoroutineFacts DEF ConnDrops, TypeOK, TransportInv, Locks,
       Connections, Closing, Draining, NothingOpenAfterClose, DrainIsFinal,
       InFlight, Counted, Registered, Reconnecting, Ended
  <1> QED
    BY <1>1, <1>2, <1>3, <1>4, <1>5, <1>6, <1>7, <1>8 DEF Next, Call

(* The deferred cleanup of doCall removes what waits for the id of the call. *)
LEMMA FailureKeepsIds ==
    ASSUME TypeOK, Ids, NEW i \in Caller, pc[i] \in Registered,
           DoCallFails(i), UNCHANGED <<requests, answers>>
    PROVE  Ids'
  <1>1. PICK place \in {"reconnect", "failed"} : pc' = [pc EXCEPT ![i] = place]
    BY DEF DoCallFails
  <1>2. id' = [id EXCEPT ![i] = 0]
    BY DEF DoCallFails
  <1>3. /\ pending' = {p \in pending : p.id # id[i]}
        /\ inbox' = [inbox EXCEPT ![i] = NoAnswer]
        /\ nextID' = nextID
    BY DEF DoCallFails
  <1> QED
    BY <1>1, <1>2, <1>3, LimitAssumption, GoroutineFacts
       DEF Ids, OwnAnswer, NoAnswer, TypeOK, Registered

(* An id is new when a call registers it, and goes with the call.           *)
LEMMA IdsKept ==
    ASSUME TypeOK, TypeOK', TransportInv, Next
    PROVE  Ids'
  <1>1. ASSUME NEW i \in Caller, DoCall(i) PROVE Ids'
    <2>1. CASE registerPending(i)
      BY <2>1, GoroutineFacts, LimitAssumption DEF registerPending, TypeOK,
         TransportInv, Ids, OwnAnswer, Registered, Inbox, NoAnswer, ConnLost,
         Request, Answer
    <2>2. CASE AcquireWrite(i)
      BY <2>2, GoroutineFacts, LimitAssumption DEF AcquireWrite, TypeOK,
         TransportInv, Ids, OwnAnswer, Registered, Inbox, NoAnswer, ConnLost,
         Request, Answer
    <2>3. CASE CaptureConn(i)
      BY <2>3, GoroutineFacts, LimitAssumption DEF CaptureConn, TypeOK,
         TransportInv, Ids, OwnAnswer, Registered, Inbox, NoAnswer, ConnLost,
         Request, Answer
    <2>4. CASE WriteOK(i)
      BY <2>4, GoroutineFacts, LimitAssumption DEF WriteOK, TypeOK,
         TransportInv, Ids, OwnAnswer, Registered, Inbox, NoAnswer, ConnLost,
         Request, Answer
    <2>5. CASE SnapshotReader(i)
      BY <2>5, GoroutineFacts, LimitAssumption DEF SnapshotReader, TypeOK,
         TransportInv, Ids, OwnAnswer, Registered, Inbox, NoAnswer, ConnLost,
         Request, Answer
    <2>6. CASE Answered(i)
      BY <2>6, GoroutineFacts, LimitAssumption DEF Answered, TypeOK,
         TransportInv, Ids, OwnAnswer, Registered, Inbox, NoAnswer, ConnLost,
         Request, Answer
    <2>7. CASE \/ NotAuthenticated(i) \/ WriteFails(i) \/ ConnectionLost(i)
              \/ NotDecoded(i) \/ WaitCancelled(i) \/ WaitTimesOut(i)
              \/ ReaderGone(i)
      <3>1. /\ pc[i] \in Registered /\ DoCallFails(i)
            /\ UNCHANGED <<requests, answers>>
        BY <2>7 DEF NotAuthenticated, WriteFails, ConnectionLost, NotDecoded,
                 WaitCancelled, WaitTimesOut, ReaderGone, Registered
      <3> QED
        BY <3>1, FailureKeepsIds DEF TransportInv
    <2> QED
      BY <1>1, <2>1, <2>2, <2>3, <2>4, <2>5, <2>6, <2>7 DEF DoCall
  <1>2. ASSUME NEW i \in Caller, Reconnect(i) PROVE Ids'
    <2>1. CASE ReconnectRefused(i)
      BY <2>1, GoroutineFacts, LimitAssumption DEF ReconnectRefused, TypeOK,
         TransportInv, Ids, OwnAnswer, Registered, Inbox, NoAnswer, ConnLost,
         Request, Answer
    <2>2. CASE AlreadyReconnected(i)
      BY <2>2, GoroutineFacts, LimitAssumption DEF AlreadyReconnected,
         TryAgain, TypeOK, TransportInv, Ids, OwnAnswer, Registered, Inbox,
         NoAnswer, ConnLost, Request, Answer
    <2>3. CASE ReconnectLock(i)
      BY <2>3, GoroutineFacts, LimitAssumption DEF ReconnectLock, TypeOK,
         TransportInv, Ids, OwnAnswer, Registered, Inbox, NoAnswer, ConnLost,
         Request, Answer
    <2>4. CASE SleepAborted(i)
      BY <2>4, GoroutineFacts, LimitAssumption DEF SleepAborted, Sleeping,
         TypeOK, TransportInv, Ids, OwnAnswer, Registered, Inbox, NoAnswer,
         ConnLost, Request, Answer
    <2>5. CASE CloseOld(i)
      BY <2>5, GoroutineFacts, LimitAssumption DEF CloseOld, TypeOK,
         TransportInv, Ids, OwnAnswer, Registered, Inbox, NoAnswer, ConnLost,
         Request, Answer
    <2>6. CASE OldReaderDone(i)
      BY <2>6, GoroutineFacts, LimitAssumption DEF OldReaderDone, TypeOK,
         TransportInv, Ids, OwnAnswer, Registered, Inbox, NoAnswer, ConnLost,
         Request, Answer
    <2>7. CASE DialFails(i)
      BY <2>7, GoroutineFacts, LimitAssumption DEF DialFails, AttemptFails,
         TypeOK, TransportInv, Ids, OwnAnswer, Registered, Inbox, NoAnswer,
         ConnLost, Request, Answer
    <2>8. CASE DialOK(i)
      BY <2>8, GoroutineFacts, LimitAssumption DEF DialOK, TypeOK,
         TransportInv, Ids, OwnAnswer, Registered, Inbox, NoAnswer, ConnLost,
         Request, Answer
    <2>9. CASE HandshakeFails(i)
      BY <2>9, GoroutineFacts, LimitAssumption DEF HandshakeFails,
         AttemptFails, TypeOK, TransportInv, Ids, OwnAnswer, Registered,
         Inbox, NoAnswer, ConnLost, Request, Answer
    <2>10. CASE HandshakeOK(i)
      BY <2>10, GoroutineFacts, LimitAssumption DEF HandshakeOK, TryAgain,
         TypeOK, TransportInv, Ids, OwnAnswer, Registered, Inbox, NoAnswer,
         ConnLost, Request, Answer
    <2>11. CASE ReconnectGivesUp(i)
      BY <2>11, GoroutineFacts, LimitAssumption DEF ReconnectGivesUp, TypeOK,
         TransportInv, Ids, OwnAnswer, Registered, Inbox, NoAnswer, ConnLost,
         Request, Answer
    <2> QED
      BY <1>2, <2>1, <2>2, <2>3, <2>4, <2>5, <2>6, <2>7, <2>8, <2>9, <2>10,
         <2>11 DEF Reconnect
  <1>3. ASSUME NEW i \in Caller,
               AcquireSlot(i) \/ GiveUp(i) \/ CallStart(i) \/
               CallRefused(i) \/ Cancel(i)
        PROVE  Ids'
    <2>1. CASE AcquireSlot(i)
      BY <2>1, GoroutineFacts, LimitAssumption DEF AcquireSlot, TypeOK,
         TransportInv, Ids, OwnAnswer, Registered, Inbox, NoAnswer, ConnLost,
         Request, Answer
    <2>2. CASE GiveUp(i)
      BY <2>2, GoroutineFacts, LimitAssumption DEF GiveUp, TypeOK,
         TransportInv, Ids, OwnAnswer, Registered, Inbox, NoAnswer, ConnLost,
         Request, Answer
    <2>3. CASE CallStart(i)
      BY <2>3, GoroutineFacts, LimitAssumption DEF CallStart, TypeOK,
         TransportInv, Ids, OwnAnswer, Registered, Inbox, NoAnswer, ConnLost,
         Request, Answer
    <2>4. CASE CallRefused(i)
      BY <2>4, GoroutineFacts, LimitAssumption DEF CallRefused, TypeOK,
         TransportInv, Ids, OwnAnswer, Registered, Inbox, NoAnswer, ConnLost,
         Request, Answer
    <2>5. CASE Cancel(i)
      BY <2>5, GoroutineFacts, LimitAssumption DEF Cancel, TypeOK,
         TransportInv, Ids, OwnAnswer, Registered, Inbox, NoAnswer, ConnLost,
         Request, Answer
    <2> QED
      BY <1>3, <2>1, <2>2, <2>3, <2>4, <2>5
  <1>4. ASSUME NEW i \in Uploader, UploadFile(i) PROVE Ids'
    <2>1. CASE UploadStart(i)
      BY <2>1, GoroutineFacts, LimitAssumption DEF UploadStart, TypeOK,
         TransportInv, Ids, OwnAnswer, Registered, Inbox, NoAnswer, ConnLost,
         Request, Answer
    <2>2. CASE UploadEnd(i)
      BY <2>2, GoroutineFacts, LimitAssumption DEF UploadEnd, TypeOK,
         TransportInv, Ids, OwnAnswer, Registered, Inbox, NoAnswer, ConnLost,
         Request, Answer
    <2> QED
      BY <1>4, <2>1, <2>2 DEF UploadFile
  <1>5. ASSUME NEW k \in Closer, Close(k) PROVE Ids'
    <2>1. \A i \in Caller : pc[i]' = pc[i]
      BY <1>5, GoroutineFacts DEF Close, CloseSignal, CloseFlip, CloseDrained,
                                  CloseTimesOut, CloseConn, TypeOK
    <2>2. UNCHANGED <<registry, id, requests, answers>>
      BY <1>5 DEF Close, CloseSignal, CloseFlip, CloseDrained, CloseTimesOut,
                  CloseConn
    <2> QED
      BY <2>1, <2>2 DEF TypeOK, TransportInv, Ids, OwnAnswer
  <1>6. ASSUME NEW c \in Conn, readLoop(c) PROVE Ids'
    <2>1. CASE ReaderDelivers(c)
      BY <2>1, GoroutineFacts, LimitAssumption DEF ReaderDelivers, TypeOK,
         TransportInv, Ids, OwnAnswer, Registered, Inbox, NoAnswer, ConnLost,
         Request, Answer
    <2>2. CASE ReaderFails(c) \/ FrameRefused(c)
      BY <2>2, GoroutineFacts, LimitAssumption DEF ReaderFails, FrameRefused,
         ReaderExits, TypeOK, TransportInv, Ids, OwnAnswer, Registered,
         Inbox, NoAnswer, ConnLost, Request, Answer
    <2> QED
      BY <1>6, <2>1, <2>2 DEF readLoop
  <1>7. CASE Execute
    BY <1>7, GoroutineFacts, LimitAssumption DEF Execute, TypeOK,
       TransportInv, Ids, OwnAnswer, Registered, Inbox, NoAnswer, ConnLost,
       Request, Answer
  <1>8. CASE ConnDrops
    BY <1>8, GoroutineFacts, LimitAssumption DEF ConnDrops, TypeOK,
       TransportInv, Ids, OwnAnswer, Registered, Inbox, NoAnswer, ConnLost,
       Request, Answer
  <1> QED
    BY <1>1, <1>2, <1>3, <1>4, <1>5, <1>6, <1>7, <1>8 DEF Next, Call

(* connGen moves with the connection.                                       *)
LEMMA GenerationsKept ==
    ASSUME TypeOK, TypeOK', TransportInv, Next
    PROVE  Generations'
  <1>1. ASSUME NEW i \in Caller, DoCall(i) PROVE Generations'
    <2>1. CASE \/ registerPending(i) \/ AcquireWrite(i) \/ SnapshotReader(i)
              \/ Answered(i)
      BY <2>1, GoroutineFacts, ConnFacts DEF registerPending, AcquireWrite,
         SnapshotReader, Answered, TypeOK, TransportInv, Locks, Connections,
         Closing, Generations, Dialled, Reconnecting
    <2>2. CASE CaptureConn(i) \/ WriteOK(i)
      BY <2>2, GoroutineFacts, ConnFacts DEF CaptureConn, WriteOK, TypeOK,
         TransportInv, Locks, Connections, Closing, Generations, Dialled,
         Reconnecting
    <2>3. CASE \/ NotAuthenticated(i) \/ WriteFails(i) \/ ConnectionLost(i)
              \/ NotDecoded(i) \/ WaitCancelled(i) \/ WaitTimesOut(i)
              \/ ReaderGone(i)
      BY <2>3, GoroutineFacts, ConnFacts DEF NotAuthenticated, DoCallFails,
         WriteFails, ConnectionLost, NotDecoded, WaitCancelled, WaitTimesOut,
         ReaderGone, TypeOK, TransportInv, Locks, Connections, Closing,
         Generations, Dialled, Reconnecting
    <2> QED
      BY <1>1, <2>1, <2>2, <2>3 DEF DoCall
  <1>2. ASSUME NEW i \in Caller, Reconnect(i) PROVE Generations'
    <2>1. CASE ReconnectRefused(i) \/ SleepAborted(i) \/ ReconnectGivesUp(i)
      BY <2>1, GoroutineFacts, ConnFacts DEF ReconnectRefused, SleepAborted,
         Sleeping, ReconnectGivesUp, TypeOK, TransportInv, Locks, Connections,
         Closing, Generations, Dialled, Reconnecting
    <2>2. CASE AlreadyReconnected(i)
      BY <2>2, GoroutineFacts, ConnFacts DEF AlreadyReconnected, TryAgain,
         TypeOK, TransportInv, Locks, Connections, Closing, Generations,
         Dialled, Reconnecting
    <2>3. CASE ReconnectLock(i) \/ CloseOld(i) \/ OldReaderDone(i)
      BY <2>3, GoroutineFacts, ConnFacts DEF ReconnectLock, CloseOld,
         OldReaderDone, TypeOK, TransportInv, Locks, Connections, Closing,
         Generations, Dialled, Reconnecting
    <2>4. CASE DialFails(i) \/ HandshakeFails(i)
      BY <2>4, GoroutineFacts, ConnFacts DEF DialFails, AttemptFails,
         HandshakeFails, TypeOK, TransportInv, Locks, Connections, Closing,
         Generations, Dialled, Reconnecting
    <2>5. CASE DialOK(i)
      BY <2>5, GoroutineFacts, ConnFacts DEF DialOK, TypeOK, TransportInv,
         Locks, Connections, Closing, Generations, Dialled, Reconnecting
    <2>6. CASE HandshakeOK(i)
      BY <2>6, GoroutineFacts, ConnFacts DEF HandshakeOK, TryAgain, TypeOK,
         TransportInv, Locks, Connections, Closing, Generations, Dialled,
         Reconnecting
    <2> QED
      BY <1>2, <2>1, <2>2, <2>3, <2>4, <2>5, <2>6 DEF Reconnect
  <1>3. ASSUME NEW i \in Caller,
               AcquireSlot(i) \/ GiveUp(i) \/ CallStart(i) \/
               CallRefused(i) \/ Cancel(i)
        PROVE  Generations'
    <2>1. CASE GiveUp(i) \/ CallRefused(i)
      BY <2>1, GoroutineFacts, ConnFacts DEF GiveUp, CallRefused, TypeOK,
         TransportInv, Locks, Connections, Closing, Generations, Dialled,
         Reconnecting
    <2>2. CASE AcquireSlot(i) \/ CallStart(i) \/ Cancel(i)
      BY <2>2, GoroutineFacts, ConnFacts DEF AcquireSlot, CallStart, Cancel,
         TypeOK, TransportInv, Locks, Connections, Closing, Generations,
         Dialled, Reconnecting
    <2> QED
      BY <1>3, <2>1, <2>2
  <1>4. ASSUME NEW i \in Uploader, UploadFile(i) PROVE Generations'
    BY <1>4, GoroutineFacts, ConnFacts DEF UploadFile, UploadStart, UploadEnd,
       TypeOK, TransportInv, Locks, Connections, Closing, Generations,
       Dialled, Reconnecting
  <1>5. ASSUME NEW k \in Closer, Close(k) PROVE Generations'
    BY <1>5, GoroutineFacts, ConnFacts DEF Close, CloseSignal, CloseFlip,
       CloseDrained, CloseTimesOut, CloseConn, TypeOK, TransportInv, Locks,
       Connections, Closing, Generations, Dialled, Reconnecting
  <1>6. ASSUME NEW c \in Conn, readLoop(c) PROVE Generations'
    BY <1>6, GoroutineFacts, ConnFacts DEF readLoop, ReaderDelivers,
       ReaderFails, FrameRefused, ReaderExits, TypeOK, TransportInv, Locks,
       Connections, Closing, Generations, Dialled, Reconnecting
  <1>7. CASE Execute
    BY <1>7, GoroutineFacts, ConnFacts DEF Execute, TypeOK, TransportInv,
       Locks, Connections, Closing, Generations, Dialled, Reconnecting
  <1>8. CASE ConnDrops
    BY <1>8, GoroutineFacts, ConnFacts DEF ConnDrops, TypeOK, TransportInv,
       Locks, Connections, Closing, Generations, Dialled, Reconnecting
  <1> QED
    BY <1>1, <1>2, <1>3, <1>4, <1>5, <1>6, <1>7, <1>8 DEF Next, Call

(* A retry needs a fault, or finds the transport closed.                    *)
LEMMA UnfaultedKept ==
    ASSUME TypeOK, TypeOK', TransportInv, Next
    PROVE  Unfaulted'
  <1>1. ASSUME NEW i \in Caller, DoCall(i) PROVE Unfaulted'
    <2>1. CASE registerPending(i) \/ AcquireWrite(i)
      BY <2>1, GoroutineFacts, ConnFacts, LimitAssumption DEF registerPending,
         AcquireWrite, TypeOK, TransportInv, Locks, Connections, Closing,
         Unfaulted, Reconnecting, Ended, Inbox, NoAnswer, ConnLost, Request
    <2>2. CASE SnapshotReader(i)
      BY <2>2, GoroutineFacts, ConnFacts, LimitAssumption DEF SnapshotReader,
         TypeOK, TransportInv, Locks, Connections, Closing, Unfaulted,
         Reconnecting, Ended, Inbox, NoAnswer, ConnLost, Request
    <2>3. CASE Answered(i)
      BY <2>3, GoroutineFacts, ConnFacts, LimitAssumption DEF Answered,
         TypeOK, TransportInv, Locks, Connections, Closing, Unfaulted,
         Reconnecting, Ended, Inbox, NoAnswer, ConnLost, Request
    <2>4. CASE CaptureConn(i)
      BY <2>4, GoroutineFacts, ConnFacts, LimitAssumption DEF CaptureConn,
         TypeOK, TransportInv, Locks, Connections, Closing, Unfaulted,
         Reconnecting, Ended, Inbox, NoAnswer, ConnLost, Request
    <2>5. CASE WriteOK(i)
      BY <2>5, GoroutineFacts, ConnFacts, LimitAssumption,
         SMTT(30) DEF WriteOK, TypeOK,
         TransportInv, Locks, Connections, Closing, Unfaulted, Reconnecting,
         Ended, Inbox, NoAnswer, ConnLost, Request
    <2>6. CASE NotAuthenticated(i)
      BY <2>6 DEF NotAuthenticated, TransportInv, Unfaulted
    <2>7. CASE WriteFails(i)
      <3>1. CASE Fault
        BY <3>1 DEF Unfaulted
      <3>2. CASE used[i] \notin open \cap up /\ UNCHANGED <<faulty, executed>>
        BY <2>7, <3>2, GoroutineFacts, ConnFacts, LimitAssumption DEF
           DoCallFails, WriteFails, TypeOK, TransportInv, Unfaulted, Ended,
           Inbox, NoAnswer, Request
      <3> QED
        BY <2>7, <3>1, <3>2 DEF WriteFails
    <2>8. CASE \/ ConnectionLost(i) \/ NotDecoded(i) \/ WaitCancelled(i)
              \/ WaitTimesOut(i) \/ ReaderGone(i)
      BY <2>8, GoroutineFacts, ConnFacts, LimitAssumption DEF ConnectionLost,
         DoCallFails, NotDecoded, WaitCancelled, WaitTimesOut, ReaderGone,
         TypeOK, TransportInv, Locks, Connections, Closing, Unfaulted,
         Reconnecting, Ended, Inbox, NoAnswer, ConnLost, Request
    <2> QED
      BY <1>1, <2>1, <2>2, <2>3, <2>4, <2>5, <2>6, <2>7, <2>8
         DEF DoCall
  <1>2. ASSUME NEW i \in Caller, Reconnect(i) PROVE Unfaulted'
    <2>1. CASE ReconnectRefused(i) \/ SleepAborted(i) \/ ReconnectGivesUp(i)
      BY <2>1, GoroutineFacts, ConnFacts, LimitAssumption DEF
         ReconnectRefused, SleepAborted, Sleeping, ReconnectGivesUp, TypeOK,
         TransportInv, Locks, Connections, Closing, Unfaulted, Reconnecting,
         Ended, Inbox, NoAnswer, ConnLost, Request
    <2>2. CASE AlreadyReconnected(i) \/ ReconnectLock(i)
      BY <2>2, GoroutineFacts, ConnFacts, LimitAssumption DEF
         AlreadyReconnected, TryAgain, ReconnectLock, TypeOK, TransportInv,
         Locks, Connections, Closing, Unfaulted, Reconnecting, Ended, Inbox,
         NoAnswer, ConnLost, Request
    <2>3. CASE \/ CloseOld(i) \/ OldReaderDone(i) \/ DialFails(i) \/ DialOK(i)
              \/ HandshakeFails(i) \/ HandshakeOK(i)
      BY <2>3, GoroutineFacts, ConnFacts, LimitAssumption DEF CloseOld,
         OldReaderDone, DialFails, AttemptFails, DialOK, HandshakeFails,
         HandshakeOK, TryAgain, TypeOK, TransportInv, Locks, Connections,
         Closing, Unfaulted, Reconnecting, Ended, Inbox, NoAnswer, ConnLost,
         Request
    <2> QED
      BY <1>2, <2>1, <2>2, <2>3 DEF Reconnect
  <1>3. ASSUME NEW i \in Caller,
               AcquireSlot(i) \/ GiveUp(i) \/ CallStart(i) \/
               CallRefused(i) \/ Cancel(i)
        PROVE  Unfaulted'
    <2>1. CASE GiveUp(i)
      BY <2>1, GoroutineFacts, ConnFacts, LimitAssumption DEF GiveUp, TypeOK,
         TransportInv, Locks, Connections, Closing, Unfaulted, Reconnecting,
         Ended, Inbox, NoAnswer, ConnLost, Request
    <2>2. CASE CallRefused(i)
      BY <2>2, GoroutineFacts, ConnFacts, LimitAssumption DEF CallRefused,
         TypeOK, TransportInv, Locks, Connections, Closing, Unfaulted,
         Reconnecting, Ended, Inbox, NoAnswer, ConnLost, Request
    <2>3. CASE AcquireSlot(i)
      BY <2>3, GoroutineFacts, ConnFacts, LimitAssumption DEF AcquireSlot,
         TypeOK, TransportInv, Locks, Connections, Closing, Unfaulted,
         Reconnecting, Ended, Inbox, NoAnswer, ConnLost, Request
    <2>4. CASE CallStart(i)
      BY <2>4, GoroutineFacts, ConnFacts, LimitAssumption DEF CallStart,
         TypeOK, TransportInv, Locks, Connections, Closing, Unfaulted,
         Reconnecting, Ended, Inbox, NoAnswer, ConnLost, Request
    <2>5. CASE Cancel(i)
      BY <2>5, GoroutineFacts, ConnFacts, LimitAssumption DEF Cancel, TypeOK,
         TransportInv, Locks, Connections, Closing, Unfaulted, Reconnecting,
         Ended, Inbox, NoAnswer, ConnLost, Request
    <2> QED
      BY <1>3, <2>1, <2>2, <2>3, <2>4, <2>5
  <1>4. ASSUME NEW i \in Uploader, UploadFile(i) PROVE Unfaulted'
    <2>1. CASE UploadStart(i)
      BY <2>1, GoroutineFacts, ConnFacts, LimitAssumption DEF UploadStart,
         TypeOK, TransportInv, Locks, Connections, Closing, Unfaulted,
         Reconnecting, Ended, Inbox, NoAnswer, ConnLost, Request
    <2>2. CASE UploadEnd(i)
      BY <2>2, GoroutineFacts, ConnFacts, LimitAssumption DEF UploadEnd,
         TypeOK, TransportInv, Locks, Connections, Closing, Unfaulted,
         Reconnecting, Ended, Inbox, NoAnswer, ConnLost, Request
    <2> QED
      BY <1>4, <2>1, <2>2 DEF UploadFile
  <1>5. ASSUME NEW k \in Closer, Close(k) PROVE Unfaulted'
    <2>1. CASE CloseSignal(k)
      BY <2>1, GoroutineFacts, ConnFacts, LimitAssumption DEF CloseSignal,
         TypeOK, TransportInv, Locks, Connections, Closing, Unfaulted,
         Reconnecting, Ended, Inbox, NoAnswer, ConnLost, Request
    <2>2. CASE CloseFlip(k)
      BY <2>2, GoroutineFacts, ConnFacts, LimitAssumption DEF CloseFlip,
         TypeOK, TransportInv, Locks, Connections, Closing, Unfaulted,
         Reconnecting, Ended, Inbox, NoAnswer, ConnLost, Request
    <2>3. CASE CloseDrained(k) \/ CloseTimesOut(k)
      BY <2>3, GoroutineFacts, ConnFacts, LimitAssumption DEF CloseDrained,
         CloseTimesOut, TypeOK, TransportInv, Locks, Connections, Closing,
         Unfaulted, Reconnecting, Ended, Inbox, NoAnswer, ConnLost, Request
    <2>4. CASE CloseConn(k)
      BY <2>4, GoroutineFacts, ConnFacts, LimitAssumption DEF CloseConn,
         TypeOK, TransportInv, Closing, Draining, Unfaulted,
         Reconnecting, Ended, Inbox, NoAnswer, ConnLost, Request
    <2> QED
      BY <1>5, <2>1, <2>2, <2>3, <2>4 DEF Close
  <1>6. ASSUME NEW c \in Conn, readLoop(c) PROVE Unfaulted'
    <2>1. CASE ReaderDelivers(c)
      <3>1. \A i \in Caller : inbox[i]'.reply = "lost" => inbox[i].reply = "lost"
        BY <2>1, LimitAssumption DEF ReaderDelivers, TypeOK, Answer
      <3> QED
        BY <2>1, <3>1 DEF ReaderDelivers, TransportInv, Unfaulted
    <2>2. CASE ReaderFails(c) \/ FrameRefused(c)
      BY <2>2, GoroutineFacts, ConnFacts, LimitAssumption DEF ReaderFails,
         FrameRefused, ReaderExits, TypeOK, TransportInv, Locks, Connections,
         Closing, Unfaulted, Reconnecting, Ended, Inbox, NoAnswer, ConnLost,
         Request
    <2> QED
      BY <1>6, <2>1, <2>2 DEF readLoop
  <1>7. CASE Execute
    BY <1>7, GoroutineFacts, ConnFacts, LimitAssumption DEF Execute, TypeOK,
       TransportInv, Locks, Connections, Closing, Unfaulted, Reconnecting,
       Ended, Inbox, NoAnswer, ConnLost, Request
  <1>8. CASE ConnDrops
    BY <1>8, GoroutineFacts, ConnFacts, LimitAssumption DEF ConnDrops, TypeOK,
       TransportInv, Locks, Connections, Closing, Unfaulted, Reconnecting,
       Ended, Inbox, NoAnswer, ConnLost, Request
  <1> QED
    BY <1>1, <1>2, <1>3, <1>4, <1>5, <1>6, <1>7, <1>8 DEF Next, Call

(* The transport keeps its inductive invariant, for any number of calls,    *)
(* connections and Closes: locks, open connections, the closed flag, ids,   *)
(* generations and retries stay in step whatever fails, is cancelled or     *)
(* races Close.                                                             *)
THEOREM TransportInvariant == Spec => []TransportInv
  <1>1. Init => TransportInv
    <2> SUFFICES ASSUME Init PROVE TransportInv
      OBVIOUS
    <2>1. \A i \in Caller : pc[i] = "queued"
      BY GoroutineFacts DEF Init
    <2>2. \A k \in Closer : pc[k] = "open"
      BY DEF Init
    <2>3. Locks /\ Connections /\ Closing
      BY <2>1, <2>2, GoroutineFacts DEF Init, Locks, Connections, Closing,
         Draining, NothingOpenAfterClose, DrainIsFinal, Reconnecting
    <2>4. Ids /\ Generations
      BY <2>1, LimitAssumption
         DEF Init, Ids, OwnAnswer, NoAnswer, Generations, Registered,
             Reconnecting
    <2>5. Unfaulted
      BY <2>1 DEF Init, Unfaulted, NoAnswer
    <2> QED
      BY <2>3, <2>4, <2>5 DEF TransportInv
  <1>2. TypeOK /\ TypeOK' /\ TransportInv /\ [Next]_vars => TransportInv'
    <2> SUFFICES ASSUME TypeOK, TypeOK', TransportInv, [Next]_vars
                 PROVE  TransportInv'
      OBVIOUS
    <2>1. CASE UNCHANGED vars
      BY <2>1 DEF vars, TransportInv, Locks, Connections, Closing, Draining,
         Dialled, NothingOpenAfterClose, DrainIsFinal, InFlight, Ids,
         OwnAnswer, Generations, Unfaulted
    <2>2. CASE Next
      BY <2>2, LocksKept, ConnectionsKept, ClosingKept, IdsKept,
         GenerationsKept, UnfaultedKept DEF TransportInv
    <2> QED
      BY <2>1, <2>2
  <1> QED
    BY <1>1, <1>2, TransportTypeCorrect, PTL DEF Spec

(* Each answer reaches the call that asked, although ids outlive            *)
(* connections and late answers meet new calls.                             *)
THEOREM AnswersMatch == Spec => []OwnAnswer
  <1>1. TransportInv => OwnAnswer
    BY DEF TransportInv, Ids
  <1> QED
    BY <1>1, TransportInvariant, PTL

(* reconnect never leaves a second connection behind: at most one is open,  *)
(* whichever dials and handshakes fail.                                     *)
THEOREM SingleConnection == Spec => []OneConnection
  <1>1. TransportInv => OneConnection
    BY DEF TransportInv, Connections, OneConnection
  <1> QED
    BY <1>1, TransportInvariant, PTL

(* When the conn.Close of the Close that owned the drain is done, no        *)
(* connection is left open, not even by a reconnect that was dialling when  *)
(* Close was called.                                                        *)
THEOREM CloseLeavesNothing == Spec => []NothingOpenAfterClose
  <1>1. TransportInv => NothingOpenAfterClose
    BY DEF TransportInv, Closing
  <1> QED
    BY <1>1, TransportInvariant, PTL

(* The frames of two writers never mix on a connection: not of two          *)
(* requests, nor of a request and the handshake.                            *)
THEOREM WritersExclude == Spec => []OneWriter
  <1>1. TransportInv /\ TypeOK => OneWriter
    BY DEF TransportInv, Locks, Connections, Dialled, OneWriter, TypeOK
  <1> QED
    BY <1>1, TransportTypeCorrect, TransportInvariant, PTL

(* When Close has found the wait group at zero, it stays there: no call or  *)
(* upload is counted behind its back.                                       *)
THEOREM DrainFinal == Spec => []DrainIsFinal
  <1>1. TransportInv => DrainIsFinal
    BY DEF TransportInv, Closing
  <1> QED
    BY <1>1, TransportInvariant, PTL

(* Without a fault no call is executed twice by TrueNAS, although Call      *)
(* retries everything but an error of the API.                              *)
THEOREM ExecutedOnce == Spec => []OnceUnlessFaulty
  <1>1. TransportInv => OnceUnlessFaulty
    BY DEF TransportInv, Unfaulted, OnceUnlessFaulty
  <1> QED
    BY <1>1, TransportInvariant, PTL

(* A reconnect closes the connection its own call has failed on, and never  *)
(* one that another call has set up since.                                  *)
THEOREM ReplacesOwn == Spec => ReplacesWhatFailed
  <1>1. /\ TypeOK /\ TransportInv /\ [Next]_vars
        => [\A i \in Caller :
               pc[i] = "cooldown" /\ conn \in open /\ conn \notin open'
                  => used[i] = conn]_vars
    <2> SUFFICES ASSUME TypeOK, TransportInv, NEW i \in Caller,
                        pc[i] = "cooldown", conn \in open
                 PROVE  used[i] = conn
      OBVIOUS
    <2>1. connMu = i
      BY DEF TransportInv, Locks, Reconnecting
    <2>2. ~Dialled
      BY <2>1 DEF TransportInv, Locks, Reconnecting, Dialled
    <2> QED
      BY <2>2 DEF TransportInv, Generations, Reconnecting
  <1> QED
    BY <1>1, TransportTypeCorrect, TransportInvariant, PTL
       DEF Spec, ReplacesWhatFailed
=============================================================================
