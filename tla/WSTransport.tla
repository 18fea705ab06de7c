---------------------------- MODULE WSTransport ----------------------------
(***************************************************************************)
(* The WebSocket transport of internal/client: goroutines that share one    *)
(* connection to TrueNAS, a reader goroutine per connection that hands each *)
(* answer to the call that waits for its id, a reconnect that any failed    *)
(* call may run, and Close, which drains the calls and shuts down.          *)
(*                                                                          *)
(* Connections are numbered in the order they are dialled.  A connection is *)
(* open until this side closes it and up until the network or TrueNAS drops *)
(* it.  connMu is a read-write mutex: what the code does under its read     *)
(* lock is one step here, possible while no one holds the write lock.       *)
(* Time is left out: a timer may fire at any moment.                        *)
(***************************************************************************)
EXTENDS Integers, FiniteSets

CONSTANTS
    Caller,              \* goroutines, each of which makes one API call
    Uploader,            \* goroutines that upload files, one after the other
    Closer,              \* goroutines that call Close
    WithDeadline,        \* the callers whose context has a deadline
    Cancellable,         \* bound: the callers whose context may end
    Replies,             \* bound: what TrueNAS may answer
    MaxConcurrentCalls,  \* Config.MaxConcurrentCalls
    MaxAttempts,         \* maxReconnectAttempts (3 in the code)
    MaxDials,            \* bound: connections dialled, the first one included
    NoOne                \* no goroutine

ASSUME GoroutineAssumption ==
    /\ NoOne \notin Caller \cup Uploader \cup Closer
    /\ Caller \cap Uploader = {}
    /\ Closer \cap (Caller \cup Uploader) = {}
    /\ WithDeadline \subseteq Cancellable
    /\ Cancellable \subseteq Caller

ASSUME LimitAssumption ==
    /\ Replies \subseteq {"ok", "error"}
    /\ MaxConcurrentCalls \in Nat \ {0}
    /\ MaxAttempts \in Nat \ {0}
    /\ MaxDials \in Nat \ {0}

VARIABLES
    conn,       \* wsTransport.conn
    open,       \* the connections this side has not closed
    up,         \* the connections the other side has not dropped
    authed,     \* wsTransport.authed
    connGen,    \* wsTransport.connGen
    connMu,     \* who holds the write lock
    reader,     \* the connection of the latest reader goroutine (readerDone)
    reading,    \* the connections whose reader goroutine has not exited
    closing,    \* closeCh is closed
    closed,     \* wsTransport.closed
    closeConn,  \* the connection Close has captured
    pending,    \* wsTransport.pending: which call waits for which id
    inbox,      \* the one-slot channel of each call
    nextID,     \* wsRequestCounter
    writeSem,   \* who holds writeSem
    pc,         \* where each goroutine is
    try,        \* 1 in Call's first doCall, 2 in the second
    gen,        \* the connGen a call read first
    id,         \* the id of its request
    used,       \* the connection its request is written to
    awaits,     \* the connection whose reader its wait watches (readerDone)
    attempt,    \* reconnect's loop counter
    cancelled,  \* its context is done
    requests,   \* requests on their way to TrueNAS
    answers,    \* answers on their way back
    faulty,     \* history: a connection, a timer or an answer has failed
    executed    \* history: requests executed before anything failed

transport == <<conn, open, authed, connGen, reader, reading, closing, closed,
               closeConn>>
registry == <<pending, inbox, nextID>>
progress == <<try, gen, id, used, awaits, attempt, cancelled>>
network == <<up, requests, answers, faulty, executed>>
vars == <<transport, connMu, registry, writeSem, pc, progress, network>>

Conn == 1 .. MaxDials
Request == [id : Nat, from : Caller, conn : Conn]
Answer == [id : Nat, from : Caller, conn : Conn, reply : Replies]
NoAnswer == [from |-> NoOne, reply |-> "none"]
ConnLost == [from |-> NoOne, reply |-> "lost"]
Inbox == {NoAnswer, ConnLost} \cup [from : Caller, reply : Replies]

(* In doCall with a registered channel; in reconnect with the write lock;   *)
(* counted by the wait group.                                               *)
Registered == {"write", "capture", "send", "snapshot", "wait"}
Reconnecting == {"cooldown", "drain", "dial", "handshake"}
Counted == {"register", "reconnect", "upload"} \cup Registered \cup Reconnecting
Ended == {"answered", "failed"}
InFlight == {i \in Caller \cup Uploader : pc[i] \in Counted}

TypeOK ==
    /\ conn \in Conn /\ reader \in Conn /\ closeConn \in Conn
    /\ open \in SUBSET Conn /\ up \in SUBSET Conn /\ reading \in SUBSET Conn
    /\ authed \in BOOLEAN /\ closing \in BOOLEAN /\ closed \in BOOLEAN
    /\ connGen \in Nat /\ nextID \in Nat
    /\ connMu \in Caller \cup {NoOne}
    /\ pending \in SUBSET [id : Nat, by : Caller]
    /\ inbox \in [Caller -> Inbox]
    /\ writeSem \in Caller \cup {NoOne}
    /\ pc \in [Caller \cup Uploader \cup Closer ->
                 {"queued", "calling", "open", "signalled", "waiting",
                  "drained", "forced", "overdue", "closed"}
                 \cup Counted \cup Ended]
    /\ try \in [Caller -> {1, 2}]
    /\ gen \in [Caller -> Nat]
    /\ id \in [Caller -> Nat]
    /\ used \in [Caller -> Conn]
    /\ awaits \in [Caller -> Conn]
    /\ attempt \in [Caller -> 0 .. MaxAttempts]
    /\ cancelled \in [Caller -> BOOLEAN]
    /\ requests \in SUBSET Request
    /\ answers \in SUBSET Answer
    /\ executed \in SUBSET Request
    /\ faulty \in BOOLEAN

(* newWSTransport has dialled, authenticated and started the first reader.  *)
Init ==
    /\ conn = 1 /\ reader = 1 /\ closeConn = 1
    /\ open = {1} /\ up = {1} /\ reading = {1}
    /\ authed = TRUE /\ closing = FALSE /\ closed = FALSE
    /\ connGen = 0 /\ nextID = 0
    /\ connMu = NoOne /\ writeSem = NoOne
    /\ pending = {}
    /\ inbox = [i \in Caller |-> NoAnswer]
    /\ pc = [i \in Caller \cup Uploader \cup Closer |->
               IF i \in Closer THEN "open" ELSE "queued"]
    /\ try = [i \in Caller |-> 1]
    /\ gen = [i \in Caller |-> 0]
    /\ id = [i \in Caller |-> 0]
    /\ used = [i \in Caller |-> 1]
    /\ awaits = [i \in Caller |-> 1]
    /\ attempt = [i \in Caller |-> 0]
    /\ cancelled = [i \in Caller |-> FALSE]
    /\ requests = {} /\ answers = {} /\ executed = {}
    /\ faulty = FALSE

Goto(i, place) == pc' = [pc EXCEPT ![i] = place]

(* A call returns: its locals are gone.                                     *)
Return(i, place) ==
    /\ Goto(i, place)
    /\ try' = [try EXCEPT ![i] = 1]
    /\ gen' = [gen EXCEPT ![i] = 0]
    /\ id' = [id EXCEPT ![i] = 0]
    /\ used' = [used EXCEPT ![i] = 1]
    /\ awaits' = [awaits EXCEPT ![i] = 1]
    /\ attempt' = [attempt EXCEPT ![i] = 0]
    /\ cancelled' = [cancelled EXCEPT ![i] = FALSE]

(* Something fails: from here on a call may be executed twice.              *)
Fault == faulty' = TRUE /\ executed' = {}

-----------------------------------------------------------------------------
(* Client.call and the start of Call.                                       *)

(* Client.call takes one of the slots that bound the concurrent calls, and  *)
(* gives it back when Call has returned.                                    *)
Slots == {i \in Caller : pc[i] \in {"calling"} \cup Counted}

AcquireSlot(i) ==
    /\ pc[i] = "queued"
    /\ Cardinality(Slots) < MaxConcurrentCalls
    /\ Goto(i, "calling")
    /\ UNCHANGED <<transport, connMu, registry, writeSem, progress, network>>

(* The context of a call ends while it waits for a slot or for writeSem.    *)
GiveUp(i) ==
    /\ pc[i] \in {"queued", "write"} /\ cancelled[i]
    /\ pending' = {p \in pending : p.id # id[i]}
    /\ inbox' = [inbox EXCEPT ![i] = NoAnswer]
    /\ Return(i, "failed")
    /\ UNCHANGED <<transport, connMu, nextID, writeSem, network>>

(* Fault: the closed flag is not looked at when a call is counted.          *)
CallUnchecked(i) ==
    /\ pc[i] = "calling" /\ connMu = NoOne
    /\ Goto(i, "register")
    /\ gen' = [gen EXCEPT ![i] = connGen]
    /\ UNCHANGED <<transport, connMu, registry, writeSem, try, id, used, awaits,
                   attempt, cancelled, network>>

(* Under the read lock, Call and UploadFile are counted by the wait group,  *)
(* or refused once closed.                                                  *)
CallStart(i) ==
    /\ pc[i] = "calling" /\ connMu = NoOne
    /\ ~closed
    /\ Goto(i, "register")
    /\ gen' = [gen EXCEPT ![i] = connGen]
    /\ UNCHANGED <<transport, connMu, registry, writeSem, try, id, used, awaits,
                   attempt, cancelled, network>>

CallRefused(i) ==
    /\ pc[i] = "calling" /\ connMu = NoOne
    /\ closed
    /\ Return(i, "failed")
    /\ UNCHANGED <<transport, connMu, registry, writeSem, network>>

UploadStart(i) ==
    /\ pc[i] = "queued" /\ connMu = NoOne
    /\ Goto(i, IF closed THEN "failed" ELSE "upload")
    /\ UNCHANGED <<transport, connMu, registry, writeSem, progress, network>>

(* An upload is an HTTP request of its own, bounded by its own timeout; how *)
(* it ends does not matter here, and the next may follow.                   *)
UploadEnd(i) ==
    /\ pc[i] = "upload"
    /\ Goto(i, "queued")
    /\ UNCHANGED <<transport, connMu, registry, writeSem, progress, network>>

-----------------------------------------------------------------------------
(* doCall.                                                                  *)

(* nextWSRequestID and registerPending: a map entry and an empty channel.   *)
registerPending(i) ==
    /\ pc[i] = "register"
    /\ nextID' = nextID + 1
    /\ id' = [id EXCEPT ![i] = nextID + 1]
    /\ pending' = {p \in pending : p.id # nextID + 1}
                  \cup {[id |-> nextID + 1, by |-> i]}
    /\ inbox' = [inbox EXCEPT ![i] = NoAnswer]
    /\ Goto(i, "write")
    /\ UNCHANGED <<transport, connMu, writeSem, try, gen, used, awaits, attempt,
                   cancelled, network>>

(* doCall fails: its deferred cleanup runs, and Call reconnects unless this *)
(* was the second try or the context is done.                               *)
DoCallFails(i) ==
    /\ pending' = {p \in pending : p.id # id[i]}
    /\ inbox' = [inbox EXCEPT ![i] = NoAnswer]
    /\ \/ /\ try[i] = 1 /\ ~cancelled[i]
          /\ Goto(i, "reconnect")
          /\ id' = [id EXCEPT ![i] = 0]
          /\ awaits' = [awaits EXCEPT ![i] = 1]
          /\ UNCHANGED <<try, gen, used, attempt, cancelled>>
       \/ /\ try[i] = 2 \/ cancelled[i]
          /\ Return(i, "failed")
    /\ UNCHANGED <<transport, connMu, nextID>>

(* Fault: writeSem does not exclude.                                        *)
WriteAnyway(i) ==
    /\ pc[i] = "write"
    /\ writeSem' = i
    /\ Goto(i, "capture")
    /\ UNCHANGED <<transport, connMu, registry, progress, network>>

AcquireWrite(i) ==
    /\ pc[i] = "write" /\ writeSem = NoOne
    /\ writeSem' = i
    /\ Goto(i, "capture")
    /\ UNCHANGED <<transport, connMu, registry, progress, network>>

(* writeRequest reads the connection and authed under the read lock ...     *)
CaptureConn(i) ==
    /\ pc[i] = "capture" /\ connMu = NoOne /\ authed
    /\ used' = [used EXCEPT ![i] = conn]
    /\ Goto(i, "send")
    /\ UNCHANGED <<transport, connMu, registry, writeSem, try, gen, id, awaits,
                   attempt, cancelled, network>>

NotAuthenticated(i) ==
    /\ pc[i] = "capture" /\ connMu = NoOne /\ ~authed
    /\ DoCallFails(i)
    /\ writeSem' = NoOne
    /\ UNCHANGED network

(* ... and writes without it.  On a connection that was dropped a write may *)
(* still succeed, and the request is lost.                                  *)
WriteOK(i) ==
    /\ pc[i] = "send" /\ used[i] \in open
    /\ requests' = IF used[i] \in up
                   THEN requests \cup {[id |-> id[i], from |-> i, conn |-> used[i]]}
                   ELSE requests
    /\ writeSem' = NoOne
    /\ Goto(i, "snapshot")
    /\ UNCHANGED <<transport, connMu, registry, progress, up, answers, faulty,
                   executed>>

(* On a connection that is there, a write fails at its deadline.            *)
WriteFails(i) ==
    /\ pc[i] = "send"
    /\ DoCallFails(i)
    /\ writeSem' = NoOne
    /\ \/ used[i] \in open \cap up /\ Fault
       \/ used[i] \notin open \cap up /\ UNCHANGED <<faulty, executed>>
    /\ UNCHANGED <<up, requests, answers>>

(* doCall reads readerDone, which the wait watches.                         *)
SnapshotReader(i) ==
    /\ pc[i] = "snapshot" /\ connMu = NoOne
    /\ awaits' = [awaits EXCEPT ![i] = reader]
    /\ Goto(i, "wait")
    /\ UNCHANGED <<transport, connMu, registry, writeSem, try, gen, id, used,
                   attempt, cancelled, network>>

(* The select of doCall: any branch that is ready may be taken.             *)

(* A result or an error of the API ends the call (handleResponse).          *)
Answered(i) ==
    /\ pc[i] = "wait" /\ inbox[i].reply \in {"ok", "error"}
    /\ pending' = {p \in pending : p.id # id[i]}
    /\ inbox' = [inbox EXCEPT ![i] = NoAnswer]
    /\ Return(i, "answered")
    /\ UNCHANGED <<transport, connMu, nextID, writeSem, network>>

(* Fault: an error of the API is retried like a lost connection.            *)
ApiErrorRetried(i) ==
    /\ pc[i] = "wait" /\ inbox[i].reply \in {"lost", "error"}
    /\ DoCallFails(i)
    /\ UNCHANGED <<writeSem, network>>

ConnectionLost(i) ==
    /\ pc[i] = "wait" /\ inbox[i].reply = "lost"
    /\ DoCallFails(i)
    /\ UNCHANGED <<writeSem, network>>

(* A result that does not decode (as the caller wants it) is no API error.  *)
NotDecoded(i) ==
    /\ pc[i] = "wait" /\ inbox[i].reply = "ok"
    /\ DoCallFails(i)
    /\ Fault
    /\ UNCHANGED <<writeSem, up, requests, answers>>

WaitCancelled(i) ==
    /\ pc[i] = "wait" /\ cancelled[i]
    /\ DoCallFails(i)
    /\ UNCHANGED <<writeSem, network>>

(* Fault: a call without a deadline has no timer either.                    *)
NoTimer(i) == FALSE /\ UNCHANGED vars

(* The timer of 30 s of a call whose context has no deadline.               *)
WaitTimesOut(i) ==
    /\ pc[i] = "wait" /\ i \notin WithDeadline
    /\ DoCallFails(i)
    /\ Fault
    /\ UNCHANGED <<writeSem, up, requests, answers>>

ReaderGone(i) ==
    /\ pc[i] = "wait" /\ awaits[i] \notin reading
    /\ DoCallFails(i)
    /\ UNCHANGED <<writeSem, network>>

-----------------------------------------------------------------------------
(* reconnect, which holds the write lock from ReconnectLock on.             *)

(* Nothing is done on a closed transport.                                   *)
ReconnectRefused(i) ==
    /\ pc[i] = "reconnect" /\ connMu = NoOne
    /\ closed
    /\ Return(i, "failed")
    /\ UNCHANGED <<transport, connMu, registry, writeSem, network>>

(* Call's second doCall begins.                                             *)
TryAgain(i) ==
    /\ Goto(i, "register")
    /\ try' = [try EXCEPT ![i] = 2]
    /\ gen' = [gen EXCEPT ![i] = 0]
    /\ used' = [used EXCEPT ![i] = 1]
    /\ attempt' = [attempt EXCEPT ![i] = 0]
    /\ UNCHANGED <<id, awaits, cancelled>>

(* Another call has replaced the connection since this one read connGen.    *)
AlreadyReconnected(i) ==
    /\ pc[i] = "reconnect" /\ connMu = NoOne
    /\ ~closed /\ connGen # gen[i]
    /\ TryAgain(i)
    /\ UNCHANGED <<transport, connMu, registry, writeSem, network>>

(* Fault: the generation is not compared.                                   *)
LockAlways(i) ==
    /\ pc[i] = "reconnect" /\ connMu = NoOne
    /\ ~closed
    /\ connMu' = i
    /\ Goto(i, "cooldown")
    /\ UNCHANGED <<transport, registry, writeSem, progress, network>>

ReconnectLock(i) ==
    /\ pc[i] = "reconnect" /\ connMu = NoOne
    /\ ~closed /\ connGen = gen[i]
    /\ connMu' = i
    /\ Goto(i, "cooldown")
    /\ UNCHANGED <<transport, registry, writeSem, progress, network>>

(* Before the old connection is closed, and between two attempts.           *)
Sleeping(i) ==
    \/ pc[i] = "cooldown"
    \/ pc[i] = "dial" /\ attempt[i] \in 1 .. MaxAttempts - 1

(* Fault: an aborted reconnect keeps the lock.                              *)
AbortKeepingLock(i) ==
    /\ Sleeping(i)
    /\ closing \/ cancelled[i]
    /\ Return(i, "failed")
    /\ UNCHANGED <<transport, connMu, registry, writeSem, network>>

(* sleepInterruptible: Close or the end of the context aborts reconnect.    *)
SleepAborted(i) ==
    /\ Sleeping(i)
    /\ closing \/ cancelled[i]
    /\ connMu' = NoOne
    /\ Return(i, "failed")
    /\ UNCHANGED <<transport, registry, writeSem, network>>

(* Fault: the old connection is not closed, only marked as not usable.      *)
ForgetOld(i) ==
    /\ pc[i] = "cooldown"
    /\ authed' = FALSE
    /\ Goto(i, "drain")
    /\ UNCHANGED <<conn, open, connGen, reader, reading, closing, closed,
                   closeConn, connMu, registry, writeSem, progress, network>>

CloseOld(i) ==
    /\ pc[i] = "cooldown"
    /\ open' = open \ {conn}
    /\ authed' = FALSE
    /\ Goto(i, "drain")
    /\ UNCHANGED <<conn, connGen, reader, reading, closing, closed, closeConn,
                   connMu, registry, writeSem, progress, network>>

(* The reader of the old connection has exited.                             *)
OldReaderDone(i) ==
    /\ pc[i] = "drain" /\ reader \notin reading
    /\ Goto(i, "dial")
    /\ UNCHANGED <<transport, connMu, registry, writeSem, progress, network>>

AttemptFails(i) ==
    /\ attempt' = [attempt EXCEPT ![i] = attempt[i] + 1]
    /\ Goto(i, "dial")

(* Fault: one attempt too many.                                             *)
DialOnceMore(i) ==
    /\ pc[i] = "dial" /\ attempt[i] <= MaxAttempts
    /\ AttemptFails(i)
    /\ UNCHANGED <<transport, connMu, registry, writeSem, try, gen, id, used,
                   awaits, cancelled, network>>

DialFails(i) ==
    /\ pc[i] = "dial" /\ attempt[i] < MaxAttempts
    /\ AttemptFails(i)
    /\ UNCHANGED <<transport, connMu, registry, writeSem, try, gen, id, used,
                   awaits, cancelled, network>>

DialOK(i) ==
    /\ pc[i] = "dial" /\ attempt[i] < MaxAttempts
    /\ conn < MaxDials
    /\ conn' = conn + 1
    /\ open' = open \cup {conn + 1}
    /\ up' = up \cup {conn + 1}
    /\ Goto(i, "handshake")
    /\ UNCHANGED <<authed, connGen, reader, reading, closing, closed, closeConn,
                   connMu, registry, writeSem, progress, requests, answers,
                   faulty, executed>>

(* connect or authenticate fails, whatever the reason.                      *)
HandshakeFails(i) ==
    /\ pc[i] = "handshake"
    /\ open' = open \ {conn}
    /\ AttemptFails(i)
    /\ UNCHANGED <<conn, authed, connGen, reader, reading, closing, closed,
                   closeConn, connMu, registry, writeSem, try, gen, id, used,
                   awaits, cancelled, network>>

(* Fault: the ids start again with the new connection.                      *)
HandshakeRestartsIDs(i) ==
    /\ pc[i] = "handshake" /\ conn \in up
    /\ authed' = TRUE
    /\ reader' = conn
    /\ reading' = reading \cup {conn}
    /\ connGen' = connGen + 1
    /\ connMu' = NoOne
    /\ TryAgain(i)
    /\ nextID' = 0
    /\ UNCHANGED <<conn, open, closing, closed, closeConn, pending, inbox,
                   writeSem, network>>

(* The new connection is authenticated and has its reader: the call tries   *)
(* again.                                                                   *)
HandshakeOK(i) ==
    /\ pc[i] = "handshake" /\ conn \in up
    /\ authed' = TRUE
    /\ reader' = conn
    /\ reading' = reading \cup {conn}
    /\ connGen' = connGen + 1
    /\ connMu' = NoOne
    /\ TryAgain(i)
    /\ UNCHANGED <<conn, open, closing, closed, closeConn, registry, writeSem,
                   network>>

ReconnectGivesUp(i) ==
    /\ pc[i] = "dial" /\ attempt[i] = MaxAttempts
    /\ connMu' = NoOne
    /\ Return(i, "failed")
    /\ UNCHANGED <<transport, registry, writeSem, network>>

-----------------------------------------------------------------------------
(* readLoop, the reader goroutine of connection c.                          *)

(* An answer goes to the channel registered for its id; it is dropped if    *)
(* there is none, or if the channel is full.                                *)
ReaderDelivers(c) ==
    /\ c \in reading
    /\ \E a \in answers :
          /\ a.conn = c
          /\ answers' = answers \ {a}
          /\ inbox' = [i \in Caller |->
                         IF /\ [id |-> a.id, by |-> i] \in pending
                            /\ inbox[i] = NoAnswer
                         THEN [from |-> a.from, reply |-> a.reply] ELSE inbox[i]]
    /\ UNCHANGED <<transport, connMu, pending, nextID, writeSem, pc, progress,
                   up, requests, faulty, executed>>

(* Reading fails: every registered channel that is empty is told, and what  *)
(* was not read yet is lost.                                                *)
ReaderExits(c) ==
    /\ inbox' = [i \in Caller |->
                   IF /\ \E p \in pending : p.by = i
                      /\ inbox[i] = NoAnswer
                   THEN ConnLost ELSE inbox[i]]
    /\ reading' = reading \ {c}
    /\ answers' = {a \in answers : a.conn # c}
    /\ UNCHANGED <<conn, open, authed, connGen, reader, closing, closed,
                   closeConn, connMu, pending, nextID, writeSem, pc, progress,
                   up, requests>>

ReaderFails(c) ==
    /\ c \in reading /\ c \notin open \cap up
    /\ ReaderExits(c)
    /\ UNCHANGED <<faulty, executed>>

(* A frame that is too long or does not decode ends the reader as well, and *)
(* the connection stays open and up.                                        *)
FrameRefused(c) ==
    /\ c \in reading \cap open \cap up
    /\ ReaderExits(c)
    /\ Fault

-----------------------------------------------------------------------------
(* Close.                                                                   *)

(* closeCh is closed before connMu is asked for.                            *)
CloseSignal(k) ==
    /\ pc[k] = "open"
    /\ closing' = TRUE
    /\ Goto(k, "signalled")
    /\ UNCHANGED <<conn, open, authed, connGen, reader, reading, closed,
                   closeConn, connMu, registry, writeSem, progress, network>>

(* Fault: Close remembers the connection it saw before it had the lock.     *)
CloseEarlyCapture(k) ==
    /\ pc[k] = "signalled" /\ connMu = NoOne
    /\ IF closed
       THEN Goto(k, "closed") /\ UNCHANGED <<closed, closeConn>>
       ELSE /\ closed' = TRUE
            /\ closeConn' = 1
            /\ Goto(k, "waiting")
    /\ UNCHANGED <<conn, open, authed, connGen, reader, reading, closing,
                   connMu, registry, writeSem, progress, network>>

(* The first Close to get the lock owns the drain; the others return.       *)
CloseFlip(k) ==
    /\ pc[k] = "signalled" /\ connMu = NoOne
    /\ IF closed
       THEN Goto(k, "closed") /\ UNCHANGED <<closed, closeConn>>
       ELSE /\ closed' = TRUE
            /\ closeConn' = conn
            /\ Goto(k, "waiting")
    /\ UNCHANGED <<conn, open, authed, connGen, reader, reading, closing,
                   connMu, registry, writeSem, progress, network>>

(* The wait group is at zero, or closeTimeout has passed.                   *)
CloseDrained(k) ==
    /\ pc[k] = "waiting"
    /\ \/ InFlight = {} /\ Goto(k, "drained")
       \/ Goto(k, "forced")
    /\ UNCHANGED <<transport, connMu, registry, writeSem, progress, network>>

(* Close waits closeTimeout at most for conn.Close, and returns an error    *)
(* while that goes on.                                                      *)
CloseTimesOut(k) ==
    /\ pc[k] \in {"drained", "forced"}
    /\ Goto(k, "overdue")
    /\ UNCHANGED <<transport, connMu, registry, writeSem, progress, network>>

CloseConn(k) ==
    /\ pc[k] \in {"drained", "forced", "overdue"}
    /\ open' = open \ {closeConn}
    /\ Goto(k, "closed")
    /\ UNCHANGED <<conn, authed, connGen, reader, reading, closing, closed,
                   closeConn, connMu, registry, writeSem, progress, network>>

-----------------------------------------------------------------------------
(* The contexts, TrueNAS and the network.                                   *)

Cancel(i) ==
    /\ i \in Cancellable
    /\ ~cancelled[i] /\ pc[i] \notin Ended
    /\ cancelled' = [cancelled EXCEPT ![i] = TRUE]
    /\ UNCHANGED <<transport, connMu, registry, writeSem, pc, try, gen, id, used,
                   awaits, attempt, network>>

(* TrueNAS executes a request it has received, even if this side has closed *)
(* the connection by then; the answer is sent on the connection of the      *)
(* request, and lost if nobody reads from it any more.                      *)
Execute ==
    /\ \E r \in requests, y \in Replies :
          /\ requests' = requests \ {r}
          /\ executed' = IF faulty THEN {} ELSE executed \cup {r}
          /\ answers' = IF r.conn \in up \cap open \cap reading
                        THEN answers \cup {[id |-> r.id, from |-> r.from,
                                            conn |-> r.conn, reply |-> y]}
                        ELSE answers
    /\ UNCHANGED <<transport, connMu, registry, writeSem, pc, progress, up, faulty>>

(* The network or TrueNAS drops a connection.  The requests that are still  *)
(* on it may be executed or not, which nothing shows any more: no answer    *)
(* comes back, and executed is not kept after a fault.                      *)
ConnDrops ==
    /\ \E c \in up \cap open :
          /\ up' = up \ {c}
          /\ requests' = {r \in requests : r.conn # c}
    /\ Fault
    /\ UNCHANGED <<transport, connMu, registry, writeSem, pc, progress, answers>>

-----------------------------------------------------------------------------
DoCall(i) ==
    \/ registerPending(i) \/ AcquireWrite(i) \/ CaptureConn(i)
    \/ NotAuthenticated(i) \/ WriteOK(i) \/ WriteFails(i) \/ SnapshotReader(i)
    \/ Answered(i) \/ ConnectionLost(i) \/ NotDecoded(i) \/ WaitCancelled(i)
    \/ WaitTimesOut(i) \/ ReaderGone(i)

Reconnect(i) ==
    \/ ReconnectRefused(i) \/ AlreadyReconnected(i) \/ ReconnectLock(i)
    \/ SleepAborted(i) \/ CloseOld(i) \/ OldReaderDone(i) \/ DialFails(i)
    \/ DialOK(i) \/ HandshakeFails(i) \/ HandshakeOK(i) \/ ReconnectGivesUp(i)

Call(i) ==
    \/ AcquireSlot(i) \/ GiveUp(i) \/ CallStart(i) \/ CallRefused(i)
    \/ DoCall(i) \/ Reconnect(i)

UploadFile(i) == UploadStart(i) \/ UploadEnd(i)

Close(k) ==
    \/ CloseSignal(k) \/ CloseFlip(k) \/ CloseDrained(k)
    \/ CloseTimesOut(k) \/ CloseConn(k)

readLoop(c) == ReaderDelivers(c) \/ ReaderFails(c) \/ FrameRefused(c)

Next ==
    \/ \E i \in Caller : Call(i) \/ Cancel(i)
    \/ \E i \in Uploader : UploadFile(i)
    \/ \E k \in Closer : Close(k)
    \/ \E c \in Conn : readLoop(c)
    \/ Execute
    \/ ConnDrops

Spec == Init /\ [][Next]_vars

(* The goroutines run and a deadline passes; TrueNAS need not answer, no    *)
(* frame need be refused, Close need not be called and conn.Close need not  *)
(* end.                                                                     *)
Fairness ==
    /\ \A i \in Caller : WF_vars(Call(i))
    /\ \A i \in WithDeadline : WF_vars(Cancel(i))
    /\ \A i \in Uploader : WF_vars(UploadFile(i))
    /\ \A k \in Closer : WF_vars(CloseFlip(k) \/ CloseDrained(k) \/ CloseTimesOut(k))
    /\ \A c \in Conn : WF_vars(ReaderDelivers(c) \/ ReaderFails(c))

FairSpec == Spec /\ Fairness

-----------------------------------------------------------------------------
(* Properties.                                                              *)

(* An answer reaches the call that asked: ids are never shared, and what is *)
(* left of an earlier try or connection is not taken for it (ws.go:340).    *)
OwnAnswer ==
    \A i \in Caller : inbox[i].reply \in Replies => inbox[i].from = i

(* The transport never holds two connections, whichever attempts of which   *)
(* reconnects fail (ws.go:594-636), ...                                     *)
OneConnection == \A c, d \in open : c = d

(* The Close that owns the drain has not closed the connection yet.         *)
Draining == {"waiting", "drained", "forced", "overdue"}

(* ... and none once the conn.Close of the Close that owned the drain is    *)
(* done, as it is when Close returns without a timeout, although a          *)
(* reconnect may have been dialling when it was called (ws.go:411-491).     *)
NothingOpenAfterClose ==
    (closed /\ \A k \in Closer : pc[k] \notin Draining) => open = {}

(* No connection has two writers: the handshake, which does not take        *)
(* writeSem, never meets a request on the new connection (ws.go:841-871).   *)
OneWriter ==
    \A i, j \in Caller :
        /\ pc[i] = "send" /\ pc[j] = "handshake" => used[i] # conn
        /\ pc[i] = "send" /\ pc[j] = "send" => i = j

(* Once Close has seen the wait group at zero, no call is counted any more  *)
(* ("makes that interleaving impossible", ws.go:389).                       *)
DrainIsFinal ==
    \A k \in Closer : pc[k] = "drained" => InFlight = {}

(* Without a dropped connection, a timeout or an answer that does not       *)
(* decode, TrueNAS executes each call at most once: the retry of Call does  *)
(* not repeat a create that was answered, even by an error (ws.go:746-756). *)
OnceUnlessFaulty ==
    ~faulty => \A q, r \in executed : q.from = r.from => q = r

(* A reconnect closes only the connection on which its own call failed: a   *)
(* call that failed on an older one does not tear down what another call    *)
(* has just set up (connGen, ws.go:87-95).                                  *)
ReplacesWhatFailed ==
    [][\A i \in Caller :
          pc[i] = "cooldown" /\ conn \in open /\ conn \notin open'
             => used[i] = conn]_vars

(* Why they hold: the parts of the inductive invariant, which TLC checks    *)
(* as well.  The write lock is held from "cooldown" to "handshake", and     *)
(* writeSem while a request is written.                                     *)
Locks ==
    \A i \in Caller :
        /\ connMu = i <=> pc[i] \in Reconnecting
        /\ pc[i] \in {"capture", "send"} => writeSem = i

Dialled == \E i \in Caller : pc[i] = "handshake"

(* Only the latest connection may be open, and none while the next one is   *)
(* dialled or after a reconnect that failed.                                *)
Connections ==
    /\ open \subseteq {conn}
    /\ ~authed /\ ~Dialled => open = {}
    /\ \A i \in Caller :
          /\ pc[i] \in {"drain", "dial"} => open = {}
          /\ used[i] <= conn
          /\ pc[i] = "send" /\ Dialled => used[i] # conn

(* closed is set with the write lock free, which no reconnect takes then.   *)
Closing ==
    /\ closed => connMu = NoOne /\ closeConn = conn
    /\ \A k \in Closer : pc[k] \in Draining => closed
    /\ NothingOpenAfterClose
    /\ DrainIsFinal

(* An id belongs to one call, and what is under way with it to that call.   *)
Ids ==
    /\ \A p \in pending : pc[p.by] \in Registered /\ id[p.by] = p.id
    /\ \A i \in Caller : id[i] <= nextID
    /\ \A i, j \in Caller :
          pc[i] \in Registered /\ pc[j] \in Registered /\ id[i] = id[j] => i = j
    /\ \A r \in requests \cup answers :
          /\ r.id <= nextID
          /\ \A i \in Caller : pc[i] \in Registered /\ id[i] = r.id => r.from = i
    /\ OwnAnswer

(* As long as connGen is what a call has read, the connection it used is    *)
(* the one that is open, if any.                                            *)
Generations ==
    \A i \in Caller :
        /\ gen[i] <= connGen
        /\ pc[i] \in {"reconnect"} \cup Reconnecting => try[i] = 1
        /\ pc[i] = "cooldown" => gen[i] = connGen
        /\ /\ pc[i] \in {"send", "snapshot", "wait", "reconnect", "cooldown"}
           /\ try[i] = 1 /\ gen[i] = connGen /\ open # {} /\ ~Dialled
           => used[i] = conn

(* Until something fails, only Close takes the first connection away, and   *)
(* after it no call is retried.                                             *)
Unfaulted ==
    ~faulty =>
        /\ conn = 1 /\ reader = 1 /\ 1 \in up /\ authed /\ connMu = NoOne
        /\ reading \subseteq {1}
        /\ 1 \notin open \/ 1 \notin reading => closed
        /\ \A i \in Caller :
              /\ try[i] = 1 /\ used[i] = 1 /\ awaits[i] = 1
              /\ inbox[i].reply = "lost" \/ pc[i] = "reconnect" => closed
        /\ \A r \in requests \cup executed :
              pc[r.from] \in {"snapshot", "wait", "reconnect"} \cup Ended
        /\ \A q, r \in requests \cup executed : q.from = r.from => q = r

(* The inductive invariant.                                                 *)
TransportInv ==
    Locks /\ Connections /\ Closing /\ Ids /\ Generations /\ Unfaulted

(* Every call ends, with an answer or an error, although TrueNAS may never  *)
(* answer and connections drop at any time (ws.go:773-835).                 *)
CallReturns == \A i \in Caller : []<>(pc[i] \in Ended)

(* So does a Close that was called, although a reconnect may hold the lock  *)
(* it needs and conn.Close may hang (ws.go:377-512).                        *)
CloseReturns ==
    \A k \in Closer : []<>(pc[k] \in {"open", "overdue", "closed"})
=============================================================================
