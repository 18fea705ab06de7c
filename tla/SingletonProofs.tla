--------------------------- MODULE SingletonProofs ---------------------------
(***************************************************************************)
(* Proofs about the singleton lease, for every set of instances and every  *)
(* value of the tuning constants that Singleton's assumptions allow.       *)
(***************************************************************************)
EXTENDS Singleton, TLAPS

USE DEF Pc, Call

-----------------------------------------------------------------------------
(* Type correctness.                                                        *)

LEMMA AgeFacts ==
    /\ AgeCap \in Nat
    /\ 0 \in Age
    /\ \A a \in Age : a \in Nat /\ Older(a) \in Age /\ Older(a) <= a + 1
  BY ConfigAssumption, EnvAssumption DEF AgeCap, Age, Older

LEMMA ConstantStatusTyped ==
    /\ Absent \in Status
    /\ Unclaimed \in Status
    /\ InitialStatus \subseteq Status
  <1>1. Absent \in Status /\ Unclaimed \in Status
    BY AgeFacts DEF Absent, Unclaimed, Owner, Status
  <1>2. \A a \in Age, e \in {0, 1}, h \in {"ok", "malformed", "missing"} :
           Left(a, e, h) \in Status
    BY DEF Left, Owner, Status
  <1>3. ASSUME NEW s \in InitialStatus PROVE s \in Status
    BY <1>1, <1>2, <1>3, AgeFacts DEF InitialStatus
  <1> QED
    BY <1>1, <1>3

(* The writes and the small pieces the actions are made of.                 *)
LEMMA ClaimTyped ==
    ASSUME TypeOK, NEW i \in Instance, NEW a \in Age, Claim(i, a)
    PROVE  status' \in Status
  BY DEF TypeOK, Claim, Status, Owner

LEMMA OutdateTyped ==
    ASSUME TypeOK, Outdate
    PROVE  /\ fresh' \in [Instance -> BOOLEAN]
           /\ release' \in [Instance -> {"no", "fresh", "outdated", "done"}]
           /\ late' \in [Instance -> {"none", "claim", "clear"}]
           /\ lateBeat' \in [Instance -> Age]
  BY AgeFacts DEF TypeOK, Outdate, OutdatedRelease

LEMMA EndCallTyped ==
    ASSUME TypeOK, NEW i \in Instance, EndCall(i)
    PROVE  /\ call' \in [Instance -> Call]
           /\ beat' \in [Instance -> Age]
           /\ left' \in [Instance -> 0 .. CallLatency]
  BY AgeFacts, EnvAssumption, ConfigAssumption DEF TypeOK, EndCall

LEMMA SendTyped ==
    ASSUME TypeOK, NEW i \in Instance,
           NEW op \in {"create", "acquire", "refresh"}, Send(i, op)
    PROVE  /\ call' \in [Instance -> Call]
           /\ fresh' \in [Instance -> BOOLEAN]
           /\ beat' \in [Instance -> Age]
  BY AgeFacts DEF TypeOK, Send

LEMMA OutcomeTyped ==
    ASSUME TypeOK, NEW i \in Instance,
           Landed(i) \/ StillUnderWay(i) \/ NeverLands(i)
    PROVE  /\ status' \in Status
           /\ fresh' \in [Instance -> BOOLEAN]
           /\ release' \in [Instance -> {"no", "fresh", "outdated", "done"}]
           /\ late' \in [Instance -> {"none", "claim", "clear"}]
           /\ lateBeat' \in [Instance -> Age]
  <1>1. CASE Landed(i)
    BY <1>1, ClaimTyped, OutdateTyped DEF Landed, TypeOK
  <1>2. CASE StillUnderWay(i)
    BY <1>2 DEF StillUnderWay, TypeOK
  <1>3. CASE NeverLands(i)
    BY <1>3 DEF NeverLands, TypeOK
  <1> QED
    BY <1>1, <1>2, <1>3

LEMMA StopLoopTyped ==
    ASSUME TypeOK, NEW i \in Instance, StopLoop(i)
    PROVE  /\ loop' \in [Instance -> BOOLEAN]
           /\ errors' \in [Instance -> 0 .. maxConsecutiveRefreshErrors - 1]
           /\ tick' \in [Instance -> 0 .. RefreshInterval]
  BY ConfigAssumption DEF TypeOK, StopLoop, maxConsecutiveRefreshErrors

LEMMA CountErrorTyped ==
    ASSUME TypeOK, NEW i \in Instance, CountError(i) \/ MarkLost(i)
    PROVE  /\ pc' \in [Instance -> Pc]
           /\ loop' \in [Instance -> BOOLEAN]
           /\ errors' \in [Instance -> 0 .. maxConsecutiveRefreshErrors - 1]
           /\ tick' \in [Instance -> 0 .. RefreshInterval]
  <1>1. CASE MarkLost(i)
    BY <1>1, StopLoopTyped DEF MarkLost, TypeOK
  <1>2. CASE CountError(i) /\ ~MarkLost(i)
    BY <1>2 DEF CountError, TypeOK, maxConsecutiveRefreshErrors
  <1> QED
    BY <1>1, <1>2

LEMMA LeaveAcquireTyped ==
    ASSUME TypeOK, NEW i \in Instance, NotFoundLoop(i) \/ ExitUnwritten(i)
    PROVE  /\ pc' \in [Instance -> Pc]
           /\ epoch' \in [Instance -> Nat]
           /\ attempt' \in [Instance -> 0 .. maxAttempts - 1]
           /\ call' \in [Instance -> Call]
           /\ beat' \in [Instance -> Age]
           /\ left' \in [Instance -> 0 .. CallLatency]
  BY EndCallTyped DEF NotFoundLoop, ExitUnwritten, TypeOK, maxAttempts

(* Acquire's steps keep the types.                                          *)
LEMMA AcquireTyped ==
    ASSUME TypeOK, NEW i \in Instance, Acquire(i)
    PROVE  TypeOK'
  <1>1. CASE Start(i)
    BY <1>1 DEF Start, TypeOK
  <1>2. CASE AcquireGet(i)
    BY <1>2, SendTyped, EnvAssumption, ConfigAssumption DEF AcquireGet, TypeOK
  <1>3. CASE CasAcquire(i)
    <2>1. CASE NotFoundLoop(i) \/ ExitUnwritten(i)
      BY <1>3, <2>1, LeaveAcquireTyped DEF CasAcquire, TypeOK, Send
    <2>2. CASE ~(NotFoundLoop(i) \/ ExitUnwritten(i))
      <3>1. AcquiredEpoch(i) \in Nat
        BY DEF AcquiredEpoch, TypeOK, Status
      <3> QED
        BY <1>3, <2>2, <3>1, SendTyped, EnvAssumption, ConfigAssumption
           DEF CasAcquire, TypeOK
    <2> QED
      BY <2>1, <2>2
  <1>4. CASE AcquireOK(i)
    <2>1. beat[i] \in Age
      BY DEF TypeOK
    <2> QED
      BY <1>4, <2>1, ClaimTyped, OutdateTyped, EndCallTyped, ConfigAssumption
         DEF AcquireOK, TypeOK, maxConsecutiveRefreshErrors
  <1>5. CASE AcquireConflict(i)
    BY <1>5, LeaveAcquireTyped, EndCallTyped, OutcomeTyped
       DEF AcquireConflict, TypeOK
  <1>6. CASE AcquireReadError(i)
    BY <1>6, LeaveAcquireTyped DEF AcquireReadError, TypeOK
  <1>7. CASE AcquireWriteError(i)
    BY <1>7, LeaveAcquireTyped, EndCallTyped, OutcomeTyped
       DEF AcquireWriteError, TypeOK
  <1> QED
    BY <1>1, <1>2, <1>3, <1>4, <1>5, <1>6, <1>7 DEF Acquire

(* So do the steps of the heartbeat loop.                                   *)
LEMMA RunTyped ==
    ASSUME TypeOK, NEW i \in Instance, Run(i)
    PROVE  TypeOK'
  <1>1. CASE RefreshTick(i)
    BY <1>1, EnvAssumption, ConfigAssumption DEF RefreshTick, TypeOK
  <1>2. CASE RefreshRead(i)
    <2>1. CASE CountError(i) \/ MarkLost(i)
      BY <1>2, <2>1, CountErrorTyped, EndCallTyped, SendTyped
         DEF RefreshRead, TypeOK
    <2>2. CASE ~(CountError(i) \/ MarkLost(i))
      BY <1>2, <2>2, SendTyped DEF RefreshRead, TypeOK
    <2> QED
      BY <2>1, <2>2
  <1>3. CASE RefreshOK(i)
    <2>1. beat[i] \in Age
      BY DEF TypeOK
    <2> QED
      BY <1>3, <2>1, ClaimTyped, OutdateTyped, EndCallTyped
         DEF RefreshOK, TypeOK, maxConsecutiveRefreshErrors
  <1>4. CASE RefreshConflict(i)
    BY <1>4, CountErrorTyped, EndCallTyped, OutcomeTyped, AgeFacts
       DEF RefreshConflict, TypeOK
  <1>5. CASE RefreshError(i)
    BY <1>5, CountErrorTyped, EndCallTyped, OutcomeTyped
       DEF RefreshError, TypeOK
  <1> QED
    BY <1>1, <1>2, <1>3, <1>4, <1>5 DEF Run

(* And those of the shutdown.                                               *)
LEMMA ShutdownTyped ==
    ASSUME TypeOK, NEW i \in Instance, Shutdown(i)
    PROVE  TypeOK'
  <1>1. CASE Terminate(i)
    BY <1>1, StopLoopTyped, EndCallTyped, OutcomeTyped
       DEF Terminate, TypeOK, CutOff
  <1>2. CASE RunFails(i)
    BY <1>2 DEF RunFails, TypeOK
  <1>3. CASE Crash(i)
    <2>1. CASE CutOff(i)
      BY <1>3, <2>1, StopLoopTyped, EndCallTyped, OutcomeTyped
         DEF Crash, TypeOK, Gone, CutOff
    <2>2. CASE ~CutOff(i)
      BY <1>3, <2>2, StopLoopTyped, EndCallTyped DEF Crash, TypeOK, Gone
    <2> QED
      BY <2>1, <2>2
  <1>4. CASE ReleaseRead(i)
    BY <1>4 DEF ReleaseRead, TypeOK
  <1>5. CASE ReleaseOK(i)
    BY <1>5, AgeFacts, ConstantStatusTyped
       DEF ReleaseOK, OutdatedRelease, TypeOK
  <1>6. CASE ReleaseConflict(i)
    BY <1>6 DEF ReleaseConflict, TypeOK
  <1>7. CASE ReleaseFails(i)
    BY <1>7 DEF ReleaseFails, TypeOK
  <1>8. CASE Exit(i)
    BY <1>8, StopLoopTyped, EndCallTyped, OutcomeTyped
       DEF Exit, TypeOK, Gone, CutOff
  <1> QED
    BY <1>1, <1>2, <1>3, <1>4, <1>5, <1>6, <1>7, <1>8 DEF Shutdown

(* And those of the environment.                                            *)
LEMMA EnvironmentTyped ==
    ASSUME TypeOK,
           \/ \E i \in Instance : LandLate(i) \/ TouchStatus(i)
           \/ DeleteStatus
           \/ AdvanceTime
    PROVE  TypeOK'
  <1>1. ASSUME NEW i \in Instance, LandLate(i)
        PROVE  TypeOK'
    <2>1. lateBeat[i] \in Age
      BY DEF TypeOK
    <2> QED
      BY <1>1, <2>1, ClaimTyped, OutdateTyped, ConstantStatusTyped
         DEF LandLate, TypeOK
  <1>2. ASSUME NEW i \in Instance, TouchStatus(i)
        PROVE  TypeOK'
    BY <1>2, OutdateTyped, AgeFacts DEF TouchStatus, TypeOK, Status
  <1>3. CASE DeleteStatus
    BY <1>3, OutdateTyped, ConstantStatusTyped DEF DeleteStatus, TypeOK
  <1>4. CASE AdvanceTime
    <2>1. status' \in Status
      BY <1>4, AgeFacts DEF AdvanceTime, TypeOK, Status
    <2>2. /\ beat' \in [Instance -> Age]
          /\ lateBeat' \in [Instance -> Age]
      BY <1>4, AgeFacts DEF AdvanceTime, TypeOK
    <2>3. /\ tick' \in [Instance -> 0 .. RefreshInterval]
          /\ left' \in [Instance -> 0 .. CallLatency]
      BY <1>4, ConfigAssumption, EnvAssumption DEF AdvanceTime, TypeOK
    <2> QED
      BY <1>4, <2>1, <2>2, <2>3 DEF AdvanceTime, TypeOK
  <1> QED
    BY <1>1, <1>2, <1>3, <1>4

(* Every step.                                                              *)
LEMMA TypedStep ==
    ASSUME TypeOK, [Next]_vars
    PROVE  TypeOK'
  <1>1. CASE UNCHANGED vars
    BY <1>1 DEF vars, TypeOK
  <1>2. CASE Next
    BY <1>2, AcquireTyped, RunTyped, ShutdownTyped, EnvironmentTyped DEF Next
  <1> QED
    BY <1>1, <1>2

(* Type correctness: every reachable state of the lease protocol has the    *)
(* values TypeOK lists, in particular Run never counts more errors than     *)
(* its limit allows and Acquire never exceeds its attempts.                 *)
THEOREM TypeCorrect == Spec => []TypeOK
  <1>1. Init => TypeOK
    BY AgeFacts, ConstantStatusTyped, ConfigAssumption, EnvAssumption
       DEF Init, TypeOK, maxAttempts, maxConsecutiveRefreshErrors
  <1>2. TypeOK /\ [Next]_vars => TypeOK'
    BY TypedStep
  <1> QED
    BY <1>1, <1>2, PTL DEF Spec

-----------------------------------------------------------------------------
(* Mutual exclusion.                                                        *)
(*                                                                          *)
(* AtMostOneActive is not inductive: a claim computed earlier may land.     *)
(* LeaseInv says why none lands against an active process.  One lemma per   *)
(* action shows that the action keeps the four parts of LeaseInv.           *)

(* A process that starts is not active yet and has sent nothing.            *)
LEMMA StartKeepsLease ==
    ASSUME SafeTiming, TypeOK, TypeOK', LeaseInv, NEW k \in Instance,
           Start(k)
    PROVE  LeaseInv'
  <1> USE ConfigAssumption, EnvAssumption, IdAssumption
  <1>1. Goroutines'
    BY DEF Goroutines, Start, LeaseInv, TypeOK, maxConsecutiveRefreshErrors,
           Active
  <1>2. CallsInTime'
    BY DEF CallsInTime, Goroutines, Start, LeaseInv, TypeOK,
           maxConsecutiveRefreshErrors, Active
  <1>3. ActiveOwns'
    BY DEF ActiveOwns, NoWriteAgainstActive, Goroutines, CallsInTime,
           HeartbeatBound, Intervals, Status, Start, LeaseInv, TypeOK,
           maxConsecutiveRefreshErrors, Active
  <1>4. NoWriteAgainstActive'
    BY DEF ActiveOwns, NoWriteAgainstActive, Goroutines, Status, Start,
           LeaseInv, TypeOK, maxConsecutiveRefreshErrors, Active
  <1> QED
    BY <1>1, <1>2, <1>3, <1>4 DEF LeaseInv

(* A Create is sent only when there is no resource, so no one is active.    *)
LEMMA AcquireGetKeepsLease ==
    ASSUME SafeTiming, TypeOK, TypeOK', LeaseInv, NEW k \in Instance,
           AcquireGet(k)
    PROVE  LeaseInv'
  <1> USE ConfigAssumption, EnvAssumption, IdAssumption
  <1>1. Goroutines'
    BY DEF Goroutines, AcquireGet, Send, LeaseInv, TypeOK,
           maxConsecutiveRefreshErrors, Active
  <1>2. CallsInTime'
    BY DEF CallsInTime, Goroutines, AcquireGet, Send, LeaseInv, TypeOK,
           maxConsecutiveRefreshErrors, Active
  <1>3. ActiveOwns'
    BY DEF ActiveOwns, NoWriteAgainstActive, Goroutines, CallsInTime,
           HeartbeatBound, Intervals, Status, AcquireGet, Send, LeaseInv,
           TypeOK, maxConsecutiveRefreshErrors, Active
  <1>4. NoWriteAgainstActive'
    BY DEF ActiveOwns, NoWriteAgainstActive, Goroutines, Status, AcquireGet,
           Send, LeaseInv, TypeOK, maxConsecutiveRefreshErrors, Active
  <1> QED
    BY <1>1, <1>2, <1>3, <1>4 DEF LeaseInv

(* The mutator of casAcquire computes a claim only when no other process is *)
(* active: an active one has a heartbeat that every clock finds fresh.      *)
LEMMA CasAcquireKeepsLease ==
    ASSUME SafeTiming, TypeOK, TypeOK', LeaseInv, NEW k \in Instance,
           CasAcquire(k)
    PROVE  LeaseInv'
  <1> USE ConfigAssumption, EnvAssumption, IdAssumption
  <1>1. Goroutines'
    BY DEF Goroutines, CasAcquire, NotFoundLoop, ExitUnwritten, EndCall, Send,
           LeaseInv, TypeOK, maxConsecutiveRefreshErrors, Active
  <1>2. CallsInTime'
    BY DEF CallsInTime, Goroutines, CasAcquire, NotFoundLoop, ExitUnwritten,
           EndCall, Send, LeaseInv, TypeOK, maxConsecutiveRefreshErrors, Active
  <1>3. ActiveOwns'
    BY DEF ActiveOwns, NoWriteAgainstActive, Goroutines, CallsInTime,
           HeartbeatBound, Intervals, Status, CasAcquire, NotFoundLoop,
           ExitUnwritten, EndCall, Send, LeaseInv, TypeOK,
           maxConsecutiveRefreshErrors, Active
  <1>4. NoWriteAgainstActive'
    <2>1. ASSUME NEW j \in Instance, Active(j), status.owner = j
          PROVE  Held(k) \/ j = k
      <3>1. /\ status.heartbeat = "ok" /\ status.age <= HeartbeatBound(j)
            /\ j \notin {NoOwner}
        BY <2>1 DEF LeaseInv, ActiveOwns
      <3>2. HeartbeatBound(j) <= 3 * RefreshInterval + 2 * CallLatency
        BY <2>1
           DEF LeaseInv, HeartbeatBound, Intervals, TypeOK, CallsInTime,
               Goroutines, Active, maxConsecutiveRefreshErrors
      <3>3. HeartbeatBound(j) \in Int
        BY DEF HeartbeatBound, Intervals, TypeOK
      <3>4. leaseAge(k) < StaleAfter
        <4>1. leaseAge(k) = status.age + skew[k] - skew[j]
          BY <2>1, <3>1 DEF leaseAge
        <4>2. /\ skew[k] \in 0 .. MaxSkew /\ skew[j] \in 0 .. MaxSkew
              /\ status.age \in Int
          BY DEF TypeOK, Status, Age, AgeCap
        <4> QED
          BY <3>1, <3>2, <3>3, <4>1, <4>2
             DEF SafeTiming, maxConsecutiveRefreshErrors
      <3> QED
        BY <2>1, <3>1, <3>4 DEF Held
    <2>2. ASSUME NEW i \in Instance, NEW j \in Instance, Active(j)'
          PROVE /\ (call[i] \in {"acquire", "refresh"} /\ fresh[i] => i = j)'
                /\ (late[i] = "claim" => i = j)'
                /\ (release[i] # "fresh")' /\ (late[i] # "clear")'
      <3>1. Active(j) /\ status.owner = j /\ status.exists
        BY <2>2
           DEF LeaseInv, ActiveOwns, CasAcquire, NotFoundLoop, ExitUnwritten,
               TypeOK, Active
      <3>2. \/ ExitUnwritten(k) \/ j = k
        BY <2>1, <3>1 DEF CasAcquire
      <3>3. j # k
        BY <3>1 DEF CasAcquire, Active
      <3> QED
        BY <2>2, <3>1, <3>2, <3>3
           DEF LeaseInv, NoWriteAgainstActive, CasAcquire, ExitUnwritten,
               EndCall, TypeOK
    <2> QED BY <2>2 DEF NoWriteAgainstActive
  <1> QED
    BY <1>1, <1>2, <1>3, <1>4 DEF LeaseInv

(* The write that makes a process active outdates every other one.          *)
LEMMA AcquireOKKeepsLease ==
    ASSUME SafeTiming, TypeOK, TypeOK', LeaseInv, NEW k \in Instance,
           AcquireOK(k)
    PROVE  LeaseInv'
  <1> USE ConfigAssumption, EnvAssumption, IdAssumption
  <1>1. Goroutines'
    BY DEF Goroutines, AcquireOK, CanLand, Claim, Outdate, OutdatedRelease,
           EndCall, LeaseInv, TypeOK, maxConsecutiveRefreshErrors, Active
  <1>2. CallsInTime'
    BY DEF CallsInTime, Goroutines, AcquireOK, CanLand, Claim, Outdate,
           OutdatedRelease, EndCall, LeaseInv, TypeOK,
           maxConsecutiveRefreshErrors, Active
  <1>3. ActiveOwns'
    <2>1. \A i \in Instance : Active(i) => i = k
      BY DEF LeaseInv, AcquireOK, CanLand, ActiveOwns, NoWriteAgainstActive
    <2>2. \A i \in Instance : Active(i)' => i = k
      BY <2>1 DEF AcquireOK, Active, TypeOK
    <2>3. /\ status'.exists /\ status'.owner = k /\ status'.heartbeat = "ok"
          /\ status'.age = beat[k] /\ late'[k] = "none"
      BY DEF AcquireOK, Claim, Outdate, TypeOK
    <2>4. beat[k] <= CallLatency
      BY DEF LeaseInv, CallsInTime, AcquireOK, TypeOK, Age, AgeCap
    <2>5. HeartbeatBound(k)' = CallLatency
      BY DEF HeartbeatBound, Intervals, AcquireOK, EndCall, TypeOK
    <2> QED BY <2>2, <2>3, <2>4, <2>5 DEF ActiveOwns
  <1>4. NoWriteAgainstActive'
    BY DEF ActiveOwns, NoWriteAgainstActive, Goroutines, Status, AcquireOK,
           CanLand, Claim, Outdate, OutdatedRelease, EndCall, LeaseInv,
           TypeOK, maxConsecutiveRefreshErrors, Active
  <1> QED
    BY <1>1, <1>2, <1>3, <1>4 DEF LeaseInv

(* A refused write changes nothing.                                         *)
LEMMA AcquireConflictKeepsLease ==
    ASSUME SafeTiming, TypeOK, TypeOK', LeaseInv, NEW k \in Instance,
           AcquireConflict(k)
    PROVE  LeaseInv'
  <1> USE ConfigAssumption, EnvAssumption, IdAssumption
  <1>1. Goroutines'
    BY DEF Goroutines, AcquireConflict, NotFoundLoop, ExitUnwritten, EndCall,
           NeverLands, LeaseInv, TypeOK, maxConsecutiveRefreshErrors, Active
  <1>2. CallsInTime'
    BY DEF CallsInTime, Goroutines, AcquireConflict, NotFoundLoop,
           ExitUnwritten, EndCall, NeverLands, LeaseInv, TypeOK,
           maxConsecutiveRefreshErrors, Active
  <1>3. ActiveOwns'
    BY DEF ActiveOwns, NoWriteAgainstActive, Goroutines, CallsInTime,
           HeartbeatBound, Intervals, Status, AcquireConflict, NotFoundLoop,
           ExitUnwritten, EndCall, NeverLands, LeaseInv, TypeOK,
           maxConsecutiveRefreshErrors, Active
  <1>4. NoWriteAgainstActive'
    BY DEF ActiveOwns, NoWriteAgainstActive, Goroutines, Status,
           AcquireConflict, NotFoundLoop, ExitUnwritten, EndCall, NeverLands,
           LeaseInv, TypeOK, maxConsecutiveRefreshErrors, Active
  <1> QED
    BY <1>1, <1>2, <1>3, <1>4 DEF LeaseInv

(* A failed read changes nothing.                                           *)
LEMMA AcquireReadErrorKeepsLease ==
    ASSUME SafeTiming, TypeOK, TypeOK', LeaseInv, NEW k \in Instance,
           AcquireReadError(k)
    PROVE  LeaseInv'
  <1> USE ConfigAssumption, EnvAssumption, IdAssumption
  <1>1. Goroutines'
    BY DEF Goroutines, AcquireReadError, ExitUnwritten, EndCall, LeaseInv,
           TypeOK, maxConsecutiveRefreshErrors, Active
  <1>2. CallsInTime'
    BY DEF CallsInTime, Goroutines, AcquireReadError, ExitUnwritten, EndCall,
           LeaseInv, TypeOK, maxConsecutiveRefreshErrors, Active
  <1>3. ActiveOwns'
    BY DEF ActiveOwns, NoWriteAgainstActive, Goroutines, CallsInTime,
           HeartbeatBound, Intervals, Status, AcquireReadError, ExitUnwritten,
           EndCall, LeaseInv, TypeOK, maxConsecutiveRefreshErrors, Active
  <1>4. NoWriteAgainstActive'
    BY DEF ActiveOwns, NoWriteAgainstActive, Goroutines, Status,
           AcquireReadError, ExitUnwritten, EndCall, LeaseInv, TypeOK,
           maxConsecutiveRefreshErrors, Active
  <1> QED
    BY <1>1, <1>2, <1>3, <1>4 DEF LeaseInv

(* A claim that lands, or may land, without its caller knowing was computed *)
(* while no one else was active.                                            *)
LEMMA AcquireWriteErrorKeepsLease ==
    ASSUME SafeTiming, TypeOK, TypeOK', LeaseInv, NEW k \in Instance,
           AcquireWriteError(k)
    PROVE  LeaseInv'
  <1> USE ConfigAssumption, EnvAssumption, IdAssumption
  <1>1. Goroutines'
    BY DEF Goroutines, AcquireWriteError, ExitUnwritten, EndCall, NeverLands,
           Landed, StillUnderWay, CanLand, Claim, Outdate, OutdatedRelease,
           LeaseInv, TypeOK, maxConsecutiveRefreshErrors, Active
  <1>2. CallsInTime'
    BY DEF CallsInTime, Goroutines, AcquireWriteError, ExitUnwritten, EndCall,
           NeverLands, Landed, StillUnderWay, CanLand, Claim, Outdate,
           OutdatedRelease, LeaseInv, TypeOK, maxConsecutiveRefreshErrors,
           Active
  <1>3. ActiveOwns'
    BY DEF ActiveOwns, NoWriteAgainstActive, Goroutines, CallsInTime,
           HeartbeatBound, Intervals, Status, AcquireWriteError,
           ExitUnwritten, EndCall, NeverLands, Landed, StillUnderWay, CanLand,
           Claim, Outdate, OutdatedRelease, LeaseInv, TypeOK,
           maxConsecutiveRefreshErrors, Active
  <1>4. NoWriteAgainstActive'
    BY DEF ActiveOwns, NoWriteAgainstActive, Goroutines, Status,
           AcquireWriteError, ExitUnwritten, EndCall, NeverLands, Landed,
           StillUnderWay, CanLand, Claim, Outdate, OutdatedRelease, LeaseInv,
           TypeOK, maxConsecutiveRefreshErrors, Active
  <1> QED
    BY <1>1, <1>2, <1>3, <1>4 DEF LeaseInv

(* A tick starts one more interval; the bound on the heartbeat is the same. *)
LEMMA RefreshTickKeepsLease ==
    ASSUME SafeTiming, TypeOK, TypeOK', LeaseInv, NEW k \in Instance,
           RefreshTick(k)
    PROVE  LeaseInv'
  <1> USE ConfigAssumption, EnvAssumption, IdAssumption
  <1>1. Goroutines'
    BY DEF Goroutines, RefreshTick, LeaseInv, TypeOK,
           maxConsecutiveRefreshErrors, Active
  <1>2. CallsInTime'
    BY DEF CallsInTime, Goroutines, RefreshTick, LeaseInv, TypeOK,
           maxConsecutiveRefreshErrors, Active
  <1>3. ActiveOwns'
    BY DEF ActiveOwns, NoWriteAgainstActive, Goroutines, CallsInTime,
           HeartbeatBound, Intervals, Status, RefreshTick, LeaseInv, TypeOK,
           maxConsecutiveRefreshErrors, Active
  <1>4. NoWriteAgainstActive'
    BY DEF ActiveOwns, NoWriteAgainstActive, Goroutines, Status, RefreshTick,
           LeaseInv, TypeOK, maxConsecutiveRefreshErrors, Active
  <1> QED
    BY <1>1, <1>2, <1>3, <1>4 DEF LeaseInv

(* refresh claims only its own lease, or one no one owns.                   *)
LEMMA RefreshReadKeepsLease ==
    ASSUME SafeTiming, TypeOK, TypeOK', LeaseInv, NEW k \in Instance,
           RefreshRead(k)
    PROVE  LeaseInv'
  <1> USE ConfigAssumption, EnvAssumption, IdAssumption
  <1>1. Goroutines'
    BY DEF Goroutines, RefreshRead, CountError, MarkLost, StopLoop, EndCall,
           Send, Stolen, LeaseInv, TypeOK, maxConsecutiveRefreshErrors, Active
  <1>2. CallsInTime'
    BY DEF CallsInTime, Goroutines, RefreshRead, CountError, MarkLost,
           StopLoop, EndCall, Send, Stolen, LeaseInv, TypeOK,
           maxConsecutiveRefreshErrors, Active
  <1>3. ActiveOwns'
    BY DEF ActiveOwns, NoWriteAgainstActive, Goroutines, CallsInTime,
           HeartbeatBound, Intervals, Status, RefreshRead, CountError,
           MarkLost, StopLoop, EndCall, Send, Stolen, LeaseInv, TypeOK,
           maxConsecutiveRefreshErrors, Active
  <1>4. NoWriteAgainstActive'
    BY DEF ActiveOwns, NoWriteAgainstActive, Goroutines, Status, RefreshRead,
           CountError, MarkLost, StopLoop, EndCall, Send, Stolen, LeaseInv,
           TypeOK, maxConsecutiveRefreshErrors, Active
  <1> QED
    BY <1>1, <1>2, <1>3, <1>4 DEF LeaseInv

(* A refresh that succeeds carries a heartbeat taken after its tick.        *)
LEMMA RefreshOKKeepsLease ==
    ASSUME SafeTiming, TypeOK, TypeOK', LeaseInv, NEW k \in Instance,
           RefreshOK(k)
    PROVE  LeaseInv'
  <1> USE ConfigAssumption, EnvAssumption, IdAssumption
  <1>1. Goroutines'
    BY DEF Goroutines, RefreshOK, Claim, Outdate, OutdatedRelease, EndCall,
           LeaseInv, TypeOK, maxConsecutiveRefreshErrors, Active
  <1>2. CallsInTime'
    BY DEF CallsInTime, Goroutines, RefreshOK, Claim, Outdate,
           OutdatedRelease, EndCall, LeaseInv, TypeOK,
           maxConsecutiveRefreshErrors, Active
  <1>3. ActiveOwns'
    <2>1. \A i \in Instance : Active(i) => i = k
      BY DEF LeaseInv, RefreshOK, NoWriteAgainstActive
    <2>2. \A i \in Instance : Active(i)' => i = k
      BY <2>1 DEF RefreshOK, Active, TypeOK
    <2>3. /\ status'.exists /\ status'.owner = k /\ status'.heartbeat = "ok"
          /\ status'.age = beat[k] /\ late'[k] = "none"
      BY DEF RefreshOK, Claim, Outdate, TypeOK
    <2>4. beat[k] + tick[k] <= RefreshInterval
      BY DEF LeaseInv, CallsInTime, RefreshOK
    <2>5. HeartbeatBound(k)' = CallLatency + RefreshInterval - tick[k]
      BY DEF HeartbeatBound, Intervals, RefreshOK, EndCall, TypeOK
    <2>6. beat[k] \in Int /\ tick[k] \in Int
      BY DEF TypeOK, Age, AgeCap
    <2>7. status'.age <= HeartbeatBound(k)'
      BY <2>3, <2>4, <2>5, <2>6
    <2> QED BY <2>2, <2>3, <2>7 DEF ActiveOwns
  <1>4. NoWriteAgainstActive'
    BY DEF ActiveOwns, NoWriteAgainstActive, Goroutines, Status, RefreshOK,
           Claim, Outdate, OutdatedRelease, EndCall, LeaseInv, TypeOK,
           maxConsecutiveRefreshErrors, Active
  <1> QED
    BY <1>1, <1>2, <1>3, <1>4 DEF LeaseInv

(* A refused refresh reads again, or counts as a failure.                   *)
LEMMA RefreshConflictKeepsLease ==
    ASSUME SafeTiming, TypeOK, TypeOK', LeaseInv, NEW k \in Instance,
           RefreshConflict(k)
    PROVE  LeaseInv'
  <1> USE ConfigAssumption, EnvAssumption, IdAssumption
  <1>1. Goroutines'
    BY DEF Goroutines, RefreshConflict, CountError, MarkLost, StopLoop,
           EndCall, NeverLands, LeaseInv, TypeOK, maxConsecutiveRefreshErrors,
           Active
  <1>2. CallsInTime'
    BY DEF CallsInTime, Goroutines, RefreshConflict, CountError, MarkLost,
           StopLoop, EndCall, NeverLands, LeaseInv, TypeOK,
           maxConsecutiveRefreshErrors, Active
  <1>3. ActiveOwns'
    BY DEF ActiveOwns, NoWriteAgainstActive, Goroutines, CallsInTime,
           HeartbeatBound, Intervals, Status, RefreshConflict, CountError,
           MarkLost, StopLoop, EndCall, NeverLands, LeaseInv, TypeOK,
           maxConsecutiveRefreshErrors, Active
  <1>4. NoWriteAgainstActive'
    BY DEF ActiveOwns, NoWriteAgainstActive, Goroutines, Status,
           RefreshConflict, CountError, MarkLost, StopLoop, EndCall,
           NeverLands, LeaseInv, TypeOK, maxConsecutiveRefreshErrors, Active
  <1> QED
    BY <1>1, <1>2, <1>3, <1>4 DEF LeaseInv

(* A failed refresh counts the interval it was given.                       *)
LEMMA RefreshErrorKeepsLease ==
    ASSUME SafeTiming, TypeOK, TypeOK', LeaseInv, NEW k \in Instance,
           RefreshError(k)
    PROVE  LeaseInv'
  <1> USE ConfigAssumption, EnvAssumption, IdAssumption
  <1>1. Goroutines'
    BY DEF Goroutines, RefreshError, CountError, MarkLost, StopLoop, EndCall,
           NeverLands, Landed, StillUnderWay, CanLand, Claim, Outdate,
           OutdatedRelease, LeaseInv, TypeOK, maxConsecutiveRefreshErrors,
           Active
  <1>2. CallsInTime'
    BY DEF CallsInTime, Goroutines, RefreshError, CountError, MarkLost,
           StopLoop, EndCall, NeverLands, Landed, StillUnderWay, CanLand,
           Claim, Outdate, OutdatedRelease, LeaseInv, TypeOK,
           maxConsecutiveRefreshErrors, Active
  <1>3. ActiveOwns'
    <2>1. \A i \in Instance : Active(i)' => Active(i)
      BY DEF RefreshError, CountError, MarkLost, Active, TypeOK
    <2>2. \A i \in Instance : Active(i)' => HeartbeatBound(i)' = HeartbeatBound(i)
      BY DEF RefreshError, CountError, MarkLost, StopLoop, EndCall, Active,
             TypeOK, HeartbeatBound, Intervals, maxConsecutiveRefreshErrors
    <2>3. CASE NeverLands(k)
      BY <2>1, <2>2, <2>3 DEF NeverLands, LeaseInv, ActiveOwns
    <2>4. CASE call[k] = "refresh" /\ CanLand(k)
      <3>1. \A i \in Instance : Active(i) => i = k
        BY <2>4 DEF LeaseInv, CanLand, NoWriteAgainstActive
      <3>2. beat[k] <= HeartbeatBound(k)
        BY <2>4
           DEF LeaseInv, CallsInTime, HeartbeatBound, Intervals, TypeOK, Age, AgeCap
      <3>3. CASE Landed(k)
        <4>1. /\ status'.exists /\ status'.owner = k /\ status'.heartbeat = "ok"
              /\ status'.age = beat[k] /\ late'[k] = "none"
          BY <3>3 DEF Landed, Claim, Outdate, TypeOK
        <4> QED BY <2>1, <2>2, <3>1, <3>2, <4>1 DEF ActiveOwns
      <3>4. CASE StillUnderWay(k)
        <4>1. status' = status /\ lateBeat'[k] = beat[k]
          BY <3>4 DEF StillUnderWay, TypeOK
        <4> QED BY <2>1, <2>2, <3>1, <3>2, <4>1 DEF LeaseInv, ActiveOwns
      <3>5. CASE NeverLands(k)
        BY <2>3, <3>5
      <3> QED BY <3>3, <3>4, <3>5 DEF RefreshError
    <2> QED BY <2>3, <2>4 DEF RefreshError, Landed, StillUnderWay
  <1>4. NoWriteAgainstActive'
    BY DEF ActiveOwns, NoWriteAgainstActive, Goroutines, Status, RefreshError,
           CountError, MarkLost, StopLoop, EndCall, NeverLands, Landed,
           StillUnderWay, CanLand, Claim, Outdate, OutdatedRelease, LeaseInv,
           TypeOK, maxConsecutiveRefreshErrors, Active
  <1> QED
    BY <1>1, <1>2, <1>3, <1>4 DEF LeaseInv

(* A process that shuts down is no longer active; its refresh may still land. *)
LEMMA TerminateKeepsLease ==
    ASSUME SafeTiming, TypeOK, TypeOK', LeaseInv, NEW k \in Instance,
           Terminate(k)
    PROVE  LeaseInv'
  <1> USE ConfigAssumption, EnvAssumption, IdAssumption
  <1>1. Goroutines'
    BY DEF Goroutines, Terminate, StopLoop, EndCall, CutOff, NeverLands,
           StillUnderWay, CanLand, LeaseInv, TypeOK,
           maxConsecutiveRefreshErrors, Active
  <1>2. CallsInTime'
    BY DEF CallsInTime, Goroutines, Terminate, StopLoop, EndCall, CutOff,
           NeverLands, StillUnderWay, CanLand, LeaseInv, TypeOK,
           maxConsecutiveRefreshErrors, Active
  <1>3. ActiveOwns'
    BY DEF ActiveOwns, NoWriteAgainstActive, Goroutines, CallsInTime,
           HeartbeatBound, Intervals, Status, Terminate, StopLoop, EndCall,
           CutOff, NeverLands, StillUnderWay, CanLand, LeaseInv, TypeOK,
           maxConsecutiveRefreshErrors, Active
  <1>4. NoWriteAgainstActive'
    BY DEF ActiveOwns, NoWriteAgainstActive, Goroutines, Status, Terminate,
           StopLoop, EndCall, CutOff, NeverLands, StillUnderWay, CanLand,
           LeaseInv, TypeOK, maxConsecutiveRefreshErrors, Active
  <1> QED
    BY <1>1, <1>2, <1>3, <1>4 DEF LeaseInv

(* Nor is one whose ip.Run has failed.                                      *)
LEMMA RunFailsKeepsLease ==
    ASSUME SafeTiming, TypeOK, TypeOK', LeaseInv, NEW k \in Instance,
           RunFails(k)
    PROVE  LeaseInv'
  <1> USE ConfigAssumption, EnvAssumption, IdAssumption
  <1>1. Goroutines'
    BY DEF Goroutines, RunFails, LeaseInv, TypeOK,
           maxConsecutiveRefreshErrors, Active
  <1>2. CallsInTime'
    BY DEF CallsInTime, Goroutines, RunFails, LeaseInv, TypeOK,
           maxConsecutiveRefreshErrors, Active
  <1>3. ActiveOwns'
    BY DEF ActiveOwns, NoWriteAgainstActive, Goroutines, CallsInTime,
           HeartbeatBound, Intervals, Status, RunFails, LeaseInv, TypeOK,
           maxConsecutiveRefreshErrors, Active
  <1>4. NoWriteAgainstActive'
    BY DEF ActiveOwns, NoWriteAgainstActive, Goroutines, Status, RunFails,
           LeaseInv, TypeOK, maxConsecutiveRefreshErrors, Active
  <1> QED
    BY <1>1, <1>2, <1>3, <1>4 DEF LeaseInv

(* Nor one that is killed.                                                  *)
LEMMA CrashKeepsLease ==
    ASSUME SafeTiming, TypeOK, TypeOK', LeaseInv, NEW k \in Instance,
           Crash(k)
    PROVE  LeaseInv'
  <1> USE ConfigAssumption, EnvAssumption, IdAssumption
  <1>1. Goroutines'
    BY DEF Goroutines, Crash, Gone, StopLoop, EndCall, CutOff, NeverLands,
           StillUnderWay, CanLand, LeaseInv, TypeOK,
           maxConsecutiveRefreshErrors, Active
  <1>2. CallsInTime'
    BY DEF CallsInTime, Goroutines, Crash, Gone, StopLoop, EndCall, CutOff,
           NeverLands, StillUnderWay, CanLand, LeaseInv, TypeOK,
           maxConsecutiveRefreshErrors, Active
  <1>3. ActiveOwns'
    BY DEF ActiveOwns, NoWriteAgainstActive, Goroutines, CallsInTime,
           HeartbeatBound, Intervals, Status, Crash, Gone, StopLoop, EndCall,
           CutOff, NeverLands, StillUnderWay, CanLand, LeaseInv, TypeOK,
           maxConsecutiveRefreshErrors, Active
  <1>4. NoWriteAgainstActive'
    BY DEF ActiveOwns, NoWriteAgainstActive, Goroutines, Status, Crash, Gone,
           StopLoop, EndCall, CutOff, NeverLands, StillUnderWay, CanLand,
           LeaseInv, TypeOK, maxConsecutiveRefreshErrors, Active
  <1> QED
    BY <1>1, <1>2, <1>3, <1>4 DEF LeaseInv

(* Release clears only a lease it owns, so no one is active.                *)
LEMMA ReleaseReadKeepsLease ==
    ASSUME SafeTiming, TypeOK, TypeOK', LeaseInv, NEW k \in Instance,
           ReleaseRead(k)
    PROVE  LeaseInv'
  <1> USE ConfigAssumption, EnvAssumption, IdAssumption
  <1>1. Goroutines'
    BY DEF Goroutines, ReleaseRead, LeaseInv, TypeOK,
           maxConsecutiveRefreshErrors, Active
  <1>2. CallsInTime'
    BY DEF CallsInTime, Goroutines, ReleaseRead, LeaseInv, TypeOK,
           maxConsecutiveRefreshErrors, Active
  <1>3. ActiveOwns'
    BY DEF ActiveOwns, NoWriteAgainstActive, Goroutines, CallsInTime,
           HeartbeatBound, Intervals, Status, ReleaseRead, LeaseInv, TypeOK,
           maxConsecutiveRefreshErrors, Active
  <1>4. NoWriteAgainstActive'
    BY DEF ActiveOwns, NoWriteAgainstActive, Goroutines, Status, ReleaseRead,
           LeaseInv, TypeOK, maxConsecutiveRefreshErrors, Active
  <1> QED
    BY <1>1, <1>2, <1>3, <1>4 DEF LeaseInv

(* And when the clearing lands no one is.                                   *)
LEMMA ReleaseOKKeepsLease ==
    ASSUME SafeTiming, TypeOK, TypeOK', LeaseInv, NEW k \in Instance,
           ReleaseOK(k)
    PROVE  LeaseInv'
  <1> USE ConfigAssumption, EnvAssumption, IdAssumption
  <1>1. Goroutines'
    BY DEF Goroutines, ReleaseOK, OutdatedRelease, LeaseInv, TypeOK,
           maxConsecutiveRefreshErrors, Active
  <1>2. CallsInTime'
    BY DEF CallsInTime, Goroutines, ReleaseOK, OutdatedRelease, LeaseInv,
           TypeOK, maxConsecutiveRefreshErrors, Active
  <1>3. ActiveOwns'
    BY DEF ActiveOwns, NoWriteAgainstActive, Goroutines, CallsInTime,
           HeartbeatBound, Intervals, Status, ReleaseOK, OutdatedRelease,
           LeaseInv, TypeOK, maxConsecutiveRefreshErrors, Active
  <1>4. NoWriteAgainstActive'
    BY DEF ActiveOwns, NoWriteAgainstActive, Goroutines, Status, ReleaseOK,
           OutdatedRelease, LeaseInv, TypeOK, maxConsecutiveRefreshErrors,
           Active
  <1> QED
    BY <1>1, <1>2, <1>3, <1>4 DEF LeaseInv

(* A refused Release reads again.                                           *)
LEMMA ReleaseConflictKeepsLease ==
    ASSUME SafeTiming, TypeOK, TypeOK', LeaseInv, NEW k \in Instance,
           ReleaseConflict(k)
    PROVE  LeaseInv'
  <1> USE ConfigAssumption, EnvAssumption, IdAssumption
  <1>1. Goroutines'
    BY DEF Goroutines, ReleaseConflict, LeaseInv, TypeOK,
           maxConsecutiveRefreshErrors, Active
  <1>2. CallsInTime'
    BY DEF CallsInTime, Goroutines, ReleaseConflict, LeaseInv, TypeOK,
           maxConsecutiveRefreshErrors, Active
  <1>3. ActiveOwns'
    BY DEF ActiveOwns, NoWriteAgainstActive, Goroutines, CallsInTime,
           HeartbeatBound, Intervals, Status, ReleaseConflict, LeaseInv,
           TypeOK, maxConsecutiveRefreshErrors, Active
  <1>4. NoWriteAgainstActive'
    BY DEF ActiveOwns, NoWriteAgainstActive, Goroutines, Status,
           ReleaseConflict, LeaseInv, TypeOK, maxConsecutiveRefreshErrors,
           Active
  <1> QED
    BY <1>1, <1>2, <1>3, <1>4 DEF LeaseInv

(* A Release that gives up may still land, while no one is active.          *)
LEMMA ReleaseFailsKeepsLease ==
    ASSUME SafeTiming, TypeOK, TypeOK', LeaseInv, NEW k \in Instance,
           ReleaseFails(k)
    PROVE  LeaseInv'
  <1> USE ConfigAssumption, EnvAssumption, IdAssumption
  <1>1. Goroutines'
    BY DEF Goroutines, ReleaseFails, LeaseInv, TypeOK,
           maxConsecutiveRefreshErrors, Active
  <1>2. CallsInTime'
    BY DEF CallsInTime, Goroutines, ReleaseFails, LeaseInv, TypeOK,
           maxConsecutiveRefreshErrors, Active
  <1>3. ActiveOwns'
    BY DEF ActiveOwns, NoWriteAgainstActive, Goroutines, CallsInTime,
           HeartbeatBound, Intervals, Status, ReleaseFails, LeaseInv, TypeOK,
           maxConsecutiveRefreshErrors, Active
  <1>4. NoWriteAgainstActive'
    BY DEF ActiveOwns, NoWriteAgainstActive, Goroutines, Status, ReleaseFails,
           LeaseInv, TypeOK, maxConsecutiveRefreshErrors, Active
  <1> QED
    BY <1>1, <1>2, <1>3, <1>4 DEF LeaseInv

(* The process ends after Release.                                          *)
LEMMA ExitKeepsLease ==
    ASSUME SafeTiming, TypeOK, TypeOK', LeaseInv, NEW k \in Instance,
           Exit(k)
    PROVE  LeaseInv'
  <1> USE ConfigAssumption, EnvAssumption, IdAssumption
  <1>1. Goroutines'
    BY DEF Goroutines, Exit, Gone, StopLoop, EndCall, CutOff, NeverLands,
           StillUnderWay, CanLand, LeaseInv, TypeOK,
           maxConsecutiveRefreshErrors, Active
  <1>2. CallsInTime'
    BY DEF CallsInTime, Goroutines, Exit, Gone, StopLoop, EndCall, CutOff,
           NeverLands, StillUnderWay, CanLand, LeaseInv, TypeOK,
           maxConsecutiveRefreshErrors, Active
  <1>3. ActiveOwns'
    BY DEF ActiveOwns, NoWriteAgainstActive, Goroutines, CallsInTime,
           HeartbeatBound, Intervals, Status, Exit, Gone, StopLoop, EndCall,
           CutOff, NeverLands, StillUnderWay, CanLand, LeaseInv, TypeOK,
           maxConsecutiveRefreshErrors, Active
  <1>4. NoWriteAgainstActive'
    BY DEF ActiveOwns, NoWriteAgainstActive, Goroutines, Status, Exit, Gone,
           StopLoop, EndCall, CutOff, NeverLands, StillUnderWay, CanLand,
           LeaseInv, TypeOK, maxConsecutiveRefreshErrors, Active
  <1> QED
    BY <1>1, <1>2, <1>3, <1>4 DEF LeaseInv

(* A late write lands only while no other process is active, and is not older *)
(* than the bound.                                                          *)
LEMMA LandLateKeepsLease ==
    ASSUME SafeTiming, TypeOK, TypeOK', LeaseInv, NEW k \in Instance,
           LandLate(k)
    PROVE  LeaseInv'
  <1> USE ConfigAssumption, EnvAssumption, IdAssumption
  <1>1. Goroutines'
    BY DEF Goroutines, LandLate, Claim, Outdate, OutdatedRelease, LeaseInv,
           TypeOK, maxConsecutiveRefreshErrors, Active
  <1>2. CallsInTime'
    BY DEF CallsInTime, Goroutines, LandLate, Claim, Outdate, OutdatedRelease,
           LeaseInv, TypeOK, maxConsecutiveRefreshErrors, Active
  <1>3. ActiveOwns'
    BY DEF ActiveOwns, NoWriteAgainstActive, Goroutines, CallsInTime,
           HeartbeatBound, Intervals, Status, LandLate, Claim, Outdate,
           OutdatedRelease, LeaseInv, TypeOK, maxConsecutiveRefreshErrors,
           Active
  <1>4. NoWriteAgainstActive'
    BY DEF ActiveOwns, NoWriteAgainstActive, Goroutines, Status, LandLate,
           Claim, Outdate, OutdatedRelease, LeaseInv, TypeOK,
           maxConsecutiveRefreshErrors, Active
  <1> QED
    BY <1>1, <1>2, <1>3, <1>4 DEF LeaseInv

(* A touch leaves the heartbeat and outdates every write.                   *)
LEMMA TouchStatusKeepsLease ==
    ASSUME SafeTiming, TypeOK, TypeOK', LeaseInv, NEW k \in Instance,
           TouchStatus(k)
    PROVE  LeaseInv'
  <1> USE ConfigAssumption, EnvAssumption, IdAssumption
  <1>1. Goroutines'
    BY DEF Goroutines, TouchStatus, Outdate, OutdatedRelease, LeaseInv,
           TypeOK, maxConsecutiveRefreshErrors, Active
  <1>2. CallsInTime'
    BY DEF CallsInTime, Goroutines, TouchStatus, Outdate, OutdatedRelease,
           LeaseInv, TypeOK, maxConsecutiveRefreshErrors, Active
  <1>3. ActiveOwns'
    BY DEF ActiveOwns, NoWriteAgainstActive, Goroutines, CallsInTime,
           HeartbeatBound, Intervals, Status, TouchStatus, Outdate,
           OutdatedRelease, LeaseInv, TypeOK, maxConsecutiveRefreshErrors,
           Active
  <1>4. NoWriteAgainstActive'
    BY DEF ActiveOwns, NoWriteAgainstActive, Goroutines, Status, TouchStatus,
           Outdate, OutdatedRelease, LeaseInv, TypeOK,
           maxConsecutiveRefreshErrors, Active
  <1> QED
    BY <1>1, <1>2, <1>3, <1>4 DEF LeaseInv

(* Time passes for the heartbeat, the tick and the call alike.              *)
LEMMA AdvanceTimeKeepsLease ==
    ASSUME SafeTiming, TypeOK, TypeOK', LeaseInv, AdvanceTime
    PROVE  LeaseInv'
  <1> USE ConfigAssumption, EnvAssumption
  <1>1. Goroutines'
    BY DEF AdvanceTime, LeaseInv, Goroutines, Active
  <1>2. \A i \in Instance :
           /\ beat[i] \in Nat /\ beat'[i] \in Nat /\ beat'[i] <= beat[i] + 1
           /\ lateBeat[i] \in Nat /\ lateBeat'[i] \in Nat
           /\ lateBeat'[i] <= lateBeat[i] + 1
           /\ tick[i] \in Nat /\ left[i] \in Nat
           /\ loop[i] /\ tick[i] > 0 => tick'[i] = tick[i] - 1
           /\ call[i] # "none" => left[i] > 0 /\ left'[i] = left[i] - 1
           /\ call[i] = "none" /\ loop[i] => tick[i] > 0
    BY AgeFacts DEF AdvanceTime, TypeOK
  <1>3. /\ status.age \in Nat /\ status'.age \in Nat
        /\ status'.age <= status.age + 1
        /\ status'.exists = status.exists /\ status'.owner = status.owner
        /\ status'.heartbeat = status.heartbeat
    BY AgeFacts DEF AdvanceTime, TypeOK, Status
  <1>4. CallsInTime'
    <2> SUFFICES ASSUME NEW i \in Instance
                 PROVE  /\ (call[i] \in {"create", "acquire"}
                              => beat[i] + left[i] <= CallLatency)'
                        /\ (call[i] \in {"read", "refresh"}
                              => left[i] + RefreshInterval <= CallLatency + tick[i])'
                        /\ (call[i] = "refresh"
                              => beat[i] + tick[i] <= RefreshInterval)'
      BY DEF CallsInTime
    <2>1. call' = call
      BY DEF AdvanceTime
    <2>2. CASE call[i] \in {"read", "refresh"}
      <3>1. loop[i] /\ left[i] + RefreshInterval <= CallLatency + tick[i]
        BY <2>2 DEF LeaseInv, Goroutines, CallsInTime
      <3>2. tick[i] > 0
        BY <1>2, <2>2, <3>1
      <3> QED
        BY <1>2, <2>1, <2>2, <3>1, <3>2 DEF LeaseInv, CallsInTime
    <2>3. CASE call[i] \notin {"read", "refresh"}
      BY <1>2, <2>1, <2>3 DEF LeaseInv, CallsInTime
    <2> QED
      BY <2>2, <2>3
  <1>5. ActiveOwns'
    <2> SUFFICES ASSUME NEW i \in Instance, Active(i)'
                 PROVE  /\ (status.exists /\ status.owner = i
                              /\ status.heartbeat = "ok")'
                        /\ (status.age <= HeartbeatBound(i))'
                        /\ (late[i] = "claim" => lateBeat[i] <= HeartbeatBound(i))'
      BY DEF ActiveOwns
    <2>1. /\ call' = call /\ errors' = errors /\ late' = late /\ Active(i)
          /\ loop[i]
      BY DEF AdvanceTime, Active, LeaseInv, Goroutines
    <2>2. tick[i] > 0
      BY <1>2, <2>1 DEF LeaseInv, CallsInTime, Goroutines, Active, TypeOK
    <2>3. HeartbeatBound(i) \in Int /\ HeartbeatBound(i)' = HeartbeatBound(i) + 1
      BY <1>2, <2>1, <2>2 DEF HeartbeatBound, Intervals
    <2> QED
      BY <1>2, <1>3, <2>1, <2>3 DEF LeaseInv, ActiveOwns
  <1>6. NoWriteAgainstActive'
    BY DEF AdvanceTime, LeaseInv, NoWriteAgainstActive, Active
  <1> QED
    BY <1>1, <1>4, <1>5, <1>6 DEF LeaseInv

(* The lease protocol keeps its inductive invariant, for every number of    *)
(* processes: an active process owns the resource with a heartbeat no older *)
(* than the intervals it may still miss, and no write computed before it    *)
(* became active can land.  The resource is assumed not to be deleted, and  *)
(* the tuning values to meet SafeTiming.                                    *)
THEOREM LeaseInvariant ==
    ASSUME SafeTiming, ~MayDelete
    PROVE  Spec => []LeaseInv
  <1>1. Init => LeaseInv
    BY DEF Init, LeaseInv, Goroutines, CallsInTime, ActiveOwns,
           NoWriteAgainstActive, Active
  <1>2. TypeOK /\ TypeOK' /\ LeaseInv /\ [Next]_vars => LeaseInv'
    <2> SUFFICES ASSUME TypeOK, TypeOK', LeaseInv, [Next]_vars PROVE LeaseInv'
      OBVIOUS
    <2>1. CASE UNCHANGED vars
      BY <2>1 DEF vars, LeaseInv, Goroutines, CallsInTime, ActiveOwns,
                  NoWriteAgainstActive, Active, HeartbeatBound, Intervals
    <2>2. ASSUME NEW k \in Instance, Acquire(k) PROVE LeaseInv'
      BY <2>2, StartKeepsLease, AcquireGetKeepsLease, CasAcquireKeepsLease,
         AcquireOKKeepsLease, AcquireConflictKeepsLease,
         AcquireReadErrorKeepsLease, AcquireWriteErrorKeepsLease
         DEF Acquire
    <2>3. ASSUME NEW k \in Instance, Run(k) PROVE LeaseInv'
      BY <2>3, RefreshTickKeepsLease, RefreshReadKeepsLease,
         RefreshOKKeepsLease, RefreshConflictKeepsLease, RefreshErrorKeepsLease
         DEF Run
    <2>4. ASSUME NEW k \in Instance, Shutdown(k) PROVE LeaseInv'
      BY <2>4, TerminateKeepsLease, RunFailsKeepsLease, CrashKeepsLease,
         ReleaseReadKeepsLease, ReleaseOKKeepsLease,
         ReleaseConflictKeepsLease, ReleaseFailsKeepsLease, ExitKeepsLease
         DEF Shutdown
    <2>5. ASSUME NEW k \in Instance, LandLate(k) \/ TouchStatus(k) PROVE LeaseInv'
      BY <2>5, LandLateKeepsLease, TouchStatusKeepsLease
    <2>6. CASE AdvanceTime
      BY <2>6, AdvanceTimeKeepsLease
    <2>7. ~DeleteStatus
      BY DEF DeleteStatus
    <2> QED
      BY <2>1, <2>2, <2>3, <2>4, <2>5, <2>6, <2>7 DEF Next
  <1> QED
    BY <1>1, <1>2, TypeCorrect, PTL DEF Spec

(* "exactly one active provisioner per provider ID": when StaleAfter leaves *)
(* room for the refreshes a holder may miss, for its calls and for the      *)
(* difference of two clocks, no two provider processes are ever active      *)
(* together, whatever is lost, late or killed.                              *)
THEOREM MutualExclusion ==
    ASSUME SafeTiming, ~MayDelete
    PROVE  Spec => []AtMostOneActive
  <1>1. LeaseInv => AtMostOneActive
    BY DEF LeaseInv, ActiveOwns, AtMostOneActive
  <1> QED
    BY <1>1, LeaseInvariant, PTL

-----------------------------------------------------------------------------
(* The refinement of Lease.                                                 *)

(* A process becomes active by an Acquire that returns, and by nothing      *)
(* else.                                                                    *)
LEMMA OnlyAcquireActivates ==
    ASSUME TypeOK, ~MayDelete, Next, \A k \in Instance : ~AcquireOK(k),
           NEW j \in Instance, Active(j)'
    PROVE  Active(j)
  <1>1. ASSUME NEW k \in Instance, Acquire(k) PROVE Active(j)
    BY <1>1 DEF Acquire, Start, AcquireGet, CasAcquire, AcquireConflict,
                AcquireReadError, AcquireWriteError, NotFoundLoop,
                ExitUnwritten, Active, TypeOK
  <1>2. ASSUME NEW k \in Instance, Run(k) PROVE Active(j)
    BY <1>2 DEF Run, RefreshTick, RefreshRead, RefreshOK, RefreshConflict,
                RefreshError, CountError, MarkLost, Active, TypeOK
  <1>3. ASSUME NEW k \in Instance, Shutdown(k) PROVE Active(j)
    BY <1>3 DEF Shutdown, Terminate, RunFails, Crash, ReleaseRead, ReleaseOK,
                ReleaseConflict, ReleaseFails, Exit, Gone, Active, TypeOK
  <1>4. ASSUME NEW k \in Instance, LandLate(k) \/ TouchStatus(k)
        PROVE  Active(j)
    BY <1>4 DEF LandLate, TouchStatus, Active
  <1>5. ASSUME AdvanceTime \/ DeleteStatus PROVE Active(j)
    BY <1>5 DEF AdvanceTime, DeleteStatus, Active
  <1> QED
    BY <1>1, <1>2, <1>3, <1>4, <1>5 DEF Next

(* The step in which an active process stops does not move the record: the  *)
(* one write that such a step may contain, a refresh whose reply is lost,   *)
(* names the process itself.                                                *)
LEMMA StoppingKeepsOwner ==
    ASSUME TypeOK, ~MayDelete, LeaseInv, Next,
           NEW j \in Instance, Active(j), ~Active(j)'
    PROVE  status'.owner = status.owner
  <1>1. ASSUME NEW k \in Instance, Acquire(k) PROVE FALSE
    BY <1>1 DEF Acquire, Start, AcquireGet, CasAcquire, AcquireOK,
                AcquireConflict, AcquireReadError, AcquireWriteError,
                NotFoundLoop, ExitUnwritten, Active, TypeOK, LeaseInv,
                Goroutines
  <1>2. ASSUME NEW k \in Instance, Run(k) PROVE status'.owner = status.owner
    <2>1. k = j
      BY <1>2 DEF Run, RefreshTick, RefreshRead, RefreshOK, RefreshConflict,
                  RefreshError, CountError, MarkLost, Active, TypeOK
    <2>2. status.owner = k
      BY <2>1 DEF LeaseInv, ActiveOwns
    <2> QED
      BY <1>2, <2>2 DEF Run, RefreshTick, RefreshRead, RefreshOK,
                  RefreshConflict, RefreshError, Landed, StillUnderWay,
                  NeverLands, Claim
  <1>3. ASSUME NEW k \in Instance, Shutdown(k)
        PROVE  status'.owner = status.owner
    <2>1. CASE ReleaseOK(k)
      BY <2>1 DEF ReleaseOK, Active
    <2>2. CASE Terminate(k) \/ RunFails(k)
      BY <2>2 DEF Terminate, RunFails, CutOff, StillUnderWay, NeverLands
    <2>3. CASE Crash(k) \/ Exit(k)
      BY <2>3 DEF Crash, Exit, CutOff, StillUnderWay, NeverLands
    <2>4. CASE ReleaseRead(k) \/ ReleaseConflict(k) \/ ReleaseFails(k)
      BY <2>4 DEF ReleaseRead, ReleaseConflict, ReleaseFails
    <2> QED
      BY <1>3, <2>1, <2>2, <2>3, <2>4 DEF Shutdown
  <1>4. ASSUME NEW k \in Instance, LandLate(k) \/ TouchStatus(k) PROVE FALSE
    BY <1>4 DEF LandLate, TouchStatus, Active
  <1>5. ASSUME AdvanceTime \/ DeleteStatus PROVE FALSE
    BY <1>5 DEF AdvanceTime, DeleteStatus, Active
  <1> QED
    BY <1>1, <1>2, <1>3, <1>4, <1>5 DEF Next

(* When an Acquire returns, no process is active: the write would be        *)
(* outdated, or the Create would find the resource there.                   *)
LEMMA AcquireFindsNoneActive ==
    ASSUME TypeOK, LeaseInv, NEW k \in Instance, AcquireOK(k)
    PROVE  \A j \in Instance : ~Active(j)
  BY DEF AcquireOK, CanLand, LeaseInv, Goroutines, ActiveOwns,
         NoWriteAgainstActive, Active

(* The compare-and-swap protocol implements the lease main.go relies on:    *)
(* under SafeTiming and with the resource not deleted, every step of the    *)
(* processes, the server and the clocks is a grant to a process while none  *)
(* is active, the end of the active one with the record left alone, a       *)
(* change of the record while none is active, or nothing the rest of the    *)
(* provider can see.                                                        *)
THEOREM Refinement ==
    ASSUME SafeTiming, ~MayDelete
    PROVE  Spec => ImplementsLease
  <1> DEFINE A == {i \in Instance : Active(i)}
  <1>1. Init => LeaseService!Init
    <2> SUFFICES ASSUME Init PROVE LeaseService!Init
      OBVIOUS
    <2>1. A = {}
      BY DEF Init, Active
    <2>2. status.owner \in {Prior, NoOwner}
      BY DEF Init, InitialStatus, Absent, Unclaimed, Left
    <2> QED
      BY <2>1, <2>2, IdAssumption DEF LeaseService!Init, Owner
  <1>2. /\ TypeOK /\ TypeOK' /\ LeaseInv /\ LeaseInv' /\ [Next]_vars
        => [LeaseService!Next]_(LeaseService!vars)
    <2> SUFFICES ASSUME TypeOK, TypeOK', LeaseInv, LeaseInv', [Next]_vars
                 PROVE  [LeaseService!Next]_(LeaseService!vars)
      OBVIOUS
    <2>1. CASE UNCHANGED vars
      BY <2>1 DEF vars, LeaseService!vars, Active
    <2>2. ASSUME NEW k \in Instance, AcquireOK(k) PROVE LeaseService!Grant(k)
      <3>1. A = {}
        BY <2>2, AcquireFindsNoneActive
      <3>2. A' = {k}
        BY <2>2, <3>1 DEF AcquireOK, Active, TypeOK
      <3>3. status'.owner = k
        BY <2>2 DEF AcquireOK, Claim
      <3> QED
        BY <3>1, <3>2, <3>3 DEF LeaseService!Grant
    <2>3. ASSUME Next, \A k \in Instance : ~AcquireOK(k)
          PROVE  [LeaseService!Next]_(LeaseService!vars)
      <3>1. A' \subseteq A
        BY <2>3, OnlyAcquireActivates
      <3>2. CASE A = {}
        <4>1. A' = {} /\ status'.owner \in Owner
          BY <3>1, <3>2 DEF TypeOK, Status
        <4> QED
          BY <3>2, <4>1 DEF LeaseService!Next, LeaseService!Reassign
      <3>3. CASE A # {}
        <4>1. PICK j \in Instance : Active(j)
          BY <3>3
        <4>2. A = {j} /\ status.owner = j
          BY <4>1 DEF LeaseInv, ActiveOwns
        <4>3. CASE Active(j)'
          <5>1. A' = A /\ status'.owner = j
            BY <3>1, <4>2, <4>3 DEF LeaseInv, ActiveOwns
          <5> QED
            BY <4>2, <5>1 DEF LeaseService!vars
        <4>4. CASE ~Active(j)'
          <5>1. A' = A \ {j}
            BY <3>1, <4>2, <4>4
          <5>2. status'.owner = status.owner
            BY <2>3, <4>1, <4>4, StoppingKeepsOwner
          <5> QED
            BY <4>2, <5>1, <5>2 DEF LeaseService!Next, LeaseService!Resign
        <4> QED
          BY <4>3, <4>4
      <3> QED
        BY <3>2, <3>3
    <2> QED
      BY <2>1, <2>2, <2>3 DEF LeaseService!Next
  <1> QED
    BY <1>1, <1>2, TypeCorrect, LeaseInvariant, PTL
       DEF Spec, ImplementsLease, LeaseService!Spec
=============================================================================
