------------------------- MODULE SingletonCASProofs -------------------------
(***************************************************************************)
(* Proofs about the annotations of the singleton lease that need no        *)
(* timing: what compare-and-swap alone guarantees, for every set of        *)
(* instances, every tuning value, clocks of any skew, and a resource that  *)
(* may be deleted at any moment.                                           *)
(***************************************************************************)
EXTENDS SingletonProofs

-----------------------------------------------------------------------------
(* The goroutines.                                                          *)

(* Run, main and the call under way agree, whatever the timing.             *)
LEMMA GoroutinesStep ==
    ASSUME TypeOK, Goroutines, [Next]_vars
    PROVE  Goroutines'
<1> USE DEF Goroutines, TypeOK, Active
<1>1. CASE UNCHANGED vars
  BY <1>1 DEF vars
<1>2. ASSUME NEW k \in Instance, Acquire(k) PROVE Goroutines'
  <2>1. CASE Start(k) \/ AcquireGet(k)
    BY <2>1 DEF Start, AcquireGet, Send
  <2>2. CASE CasAcquire(k)
    BY <2>2 DEF CasAcquire, NotFoundLoop, ExitUnwritten, EndCall, Send
  <2>3. CASE AcquireOK(k)
    BY <2>3 DEF AcquireOK, EndCall
  <2>4. CASE AcquireConflict(k)
    BY <2>4 DEF AcquireConflict, NotFoundLoop, ExitUnwritten, EndCall
  <2>5. CASE AcquireReadError(k) \/ AcquireWriteError(k)
    BY <2>5 DEF AcquireReadError, AcquireWriteError, ExitUnwritten, EndCall
  <2> QED
    BY <1>2, <2>1, <2>2, <2>3, <2>4, <2>5 DEF Acquire
<1>3. ASSUME NEW k \in Instance, Run(k) PROVE Goroutines'
  <2>1. CASE RefreshTick(k)
    BY <2>1 DEF RefreshTick
  <2>2. CASE RefreshRead(k)
    BY <2>2 DEF RefreshRead, CountError, MarkLost, StopLoop, EndCall, Send
  <2>3. CASE RefreshOK(k)
    BY <2>3 DEF RefreshOK, EndCall
  <2>4. CASE RefreshConflict(k)
    BY <2>4 DEF RefreshConflict, CountError, MarkLost, StopLoop, EndCall
  <2>5. CASE RefreshError(k)
    BY <2>5 DEF RefreshError, CountError, MarkLost, StopLoop, EndCall
  <2> QED
    BY <1>3, <2>1, <2>2, <2>3, <2>4, <2>5 DEF Run
<1>4. ASSUME NEW k \in Instance, Shutdown(k) PROVE Goroutines'
  <2>1. CASE Terminate(k) \/ RunFails(k)
    BY <2>1 DEF Terminate, RunFails, StopLoop, EndCall
  <2>2. CASE Crash(k) \/ Exit(k)
    BY <2>2 DEF Crash, Exit, Gone, StopLoop, EndCall
  <2>3. CASE ReleaseRead(k) \/ ReleaseOK(k) \/ ReleaseConflict(k)
               \/ ReleaseFails(k)
    BY <2>3 DEF ReleaseRead, ReleaseOK, ReleaseConflict, ReleaseFails
  <2> QED
    BY <1>4, <2>1, <2>2, <2>3 DEF Shutdown
<1>5. ASSUME NEW k \in Instance, LandLate(k) \/ TouchStatus(k)
      PROVE  Goroutines'
  BY <1>5 DEF LandLate, TouchStatus
<1>6. CASE DeleteStatus \/ AdvanceTime
  BY <1>6 DEF DeleteStatus, AdvanceTime
<1> QED
  BY <1>1, <1>2, <1>3, <1>4, <1>5, <1>6 DEF Next

-----------------------------------------------------------------------------
(* What a step does to the annotations.                                     *)

(* It leaves the holder, and does not make its heartbeat older than time    *)
(* does,                                                                    *)
SameHolder ==
    /\ status'.owner = status.owner
    /\ status'.epoch = status.epoch
    /\ status'.heartbeat = status.heartbeat
    /\ status'.exists = status.exists
    /\ status.owner \in Instance => status'.age <= Older(status.age)

(* or takes the annotations away: with the resource, or because their own   *)
(* holder has shut down,                                                    *)
Cleared ==
    /\ status'.owner = NoOwner
    /\ status'.epoch = 0
    /\ status'.exists =>
          \E k \in Instance : status.owner = k /\ pc[k] \in {"stopping", "dead"}

(* or claims them for k, which may do so.                                   *)
Claimed(k) ==
    /\ status'.exists
    /\ status'.owner = k
    /\ status'.epoch = epoch[k]
    /\ status'.heartbeat = "ok"
    /\ \/ status.owner = NoOwner
       \/ status.owner = k /\ status'.age <= status.age
       \/ status.owner # k /\ MayTake(k)

(* Every other call that has read the resource is outdated by then.         *)
Outdating ==
    \A j \in Instance :
        ~fresh'[j] /\ late'[j] = "none" /\ release'[j] # "fresh"

LEMMA OutdateOutdates ==
    ASSUME Outdate
    PROVE  Outdating
  BY DEF Outdate, OutdatedRelease, Outdating

(* A write of Acquire that the server takes is a takeover its mutator found *)
(* justified, or a Create where there is nothing.                           *)
LEMMA AcquireClaims ==
    ASSUME TypeOK, CASInv, NEW k \in Instance,
           call[k] \in {"create", "acquire"}, CanLand(k), Claim(k, beat[k])
    PROVE  Claimed(k)
<1>1. status.owner # k
  BY DEF CASInv, Goroutines, AcquiringUnwritten
<1>2. CASE call[k] = "create"
  BY <1>2 DEF CanLand, Claim, CASInv, RecordOfOwner, Claimed
<1>3. CASE call[k] = "acquire"
  <2>1. MayTake(k)
    BY <1>3 DEF CanLand, CASInv, ClaimsCurrent
  <2> QED
    BY <1>1, <2>1 DEF Claim, Claimed
<1> QED
  BY <1>2, <1>3

(* A refresh the server takes is of the holder, or of no one's lease.       *)
LEMMA RefreshClaims ==
    ASSUME TypeOK, CASInv, NEW k \in Instance,
           call[k] = "refresh", fresh[k], Claim(k, beat[k])
    PROVE  Claimed(k)
  BY DEF Claim, CASInv, ClaimsCurrent, Claimed

(* A claim that lands late is still justified.                              *)
LEMMA LateClaims ==
    ASSUME TypeOK, CASInv, NEW k \in Instance,
           late[k] = "claim", Claim(k, lateBeat[k])
    PROVE  Claimed(k)
  BY DEF Claim, CASInv, ClaimsCurrent, Claimed

-----------------------------------------------------------------------------
(* The steps that write the resource keep the invariant.                    *)

(* A justified claim leaves nothing behind that could land.                 *)
LEMMA ClaimedKeeps ==
    ASSUME CASInv, Goroutines', NEW k \in Instance, Claimed(k), Outdating,
           UNCHANGED epoch, pc'[k] \notin {"new", "get", "cas"}
    PROVE  CASInv'
<1>1. RecordOfOwner'
  BY IdAssumption DEF Claimed, RecordOfOwner
<1>2. AcquiringUnwritten'
  BY DEF Claimed, Outdating, AcquiringUnwritten
<1>3. ClaimsCurrent' /\ ClearsCurrent'
  BY DEF Outdating, ClaimsCurrent, ClearsCurrent
<1> QED
  BY <1>1, <1>2, <1>3 DEF CASInv

(* Nor does the end of a lease.                                             *)
LEMMA ClearedKeeps ==
    ASSUME CASInv, Goroutines', Cleared, Outdating
    PROVE  CASInv'
<1>1. RecordOfOwner' /\ AcquiringUnwritten'
  BY IdAssumption DEF Cleared, Outdating, RecordOfOwner, AcquiringUnwritten
<1>2. ClaimsCurrent' /\ ClearsCurrent'
  BY DEF Outdating, ClaimsCurrent, ClearsCurrent
<1> QED
  BY <1>1, <1>2 DEF CASInv

(* Nor does a write of the spec by the SDK.                                 *)
LEMMA TouchedKeeps ==
    ASSUME CASInv, Goroutines', SameHolder, Outdating, UNCHANGED <<epoch, pc>>
    PROVE  CASInv'
<1>1. RecordOfOwner' /\ AcquiringUnwritten'
  BY DEF CASInv, SameHolder, Outdating, RecordOfOwner, AcquiringUnwritten
<1>2. ClaimsCurrent' /\ ClearsCurrent'
  BY DEF Outdating, ClaimsCurrent, ClearsCurrent
<1> QED
  BY <1>1, <1>2 DEF CASInv

(* Every step that writes is one of the three.                              *)
LEMMA AcquireOKKeepsCAS ==
    ASSUME TypeOK, CASInv, Goroutines', NEW k \in Instance, AcquireOK(k)
    PROVE  CASInv' /\ Claimed(k)
<1>1. Claimed(k)
  BY AcquireClaims DEF AcquireOK
<1>2. pc'[k] = "running"
  BY DEF AcquireOK, TypeOK
<1> QED
  BY <1>1, <1>2, OutdateOutdates, ClaimedKeeps DEF AcquireOK

LEMMA RefreshOKKeepsCAS ==
    ASSUME TypeOK, CASInv, Goroutines', NEW k \in Instance, RefreshOK(k)
    PROVE  CASInv' /\ Claimed(k)
<1>1. Claimed(k)
  BY RefreshClaims DEF RefreshOK
<1>2. pc'[k] \in {"running", "stopping"}
  BY DEF RefreshOK, CASInv, Goroutines
<1> QED
  BY <1>1, <1>2, OutdateOutdates, ClaimedKeeps DEF RefreshOK

LEMMA AcquireLandedKeepsCAS ==
    ASSUME TypeOK, CASInv, Goroutines', NEW k \in Instance,
           AcquireWriteError(k), Landed(k)
    PROVE  CASInv' /\ Claimed(k)
<1>1. Claimed(k)
  BY AcquireClaims DEF AcquireWriteError, Landed
<1>2. pc'[k] = "dead" /\ UNCHANGED epoch
  <2>1. status'.owner = k /\ status.owner # k
    BY DEF AcquireWriteError, Landed, Claim, CASInv, Goroutines,
           AcquiringUnwritten
  <2> QED
    BY <2>1 DEF AcquireWriteError, NeverLands, TypeOK
<1> QED
  BY <1>1, <1>2, OutdateOutdates, ClaimedKeeps DEF Landed

LEMMA RefreshLandedKeepsCAS ==
    ASSUME TypeOK, CASInv, Goroutines', NEW k \in Instance,
           RefreshError(k), call[k] = "refresh", Landed(k)
    PROVE  CASInv' /\ Claimed(k)
<1>1. Claimed(k)
  BY RefreshClaims DEF Landed, CanLand
<1>2. pc'[k] \in {"running", "stopping"} /\ UNCHANGED epoch
  BY DEF RefreshError, CountError, MarkLost, CASInv, Goroutines, TypeOK
<1> QED
  BY <1>1, <1>2, OutdateOutdates, ClaimedKeeps DEF Landed

LEMMA ReleaseOKKeepsCAS ==
    ASSUME TypeOK, CASInv, Goroutines', NEW k \in Instance, ReleaseOK(k)
    PROVE  CASInv' /\ Cleared
<1>1. Outdating
  BY DEF ReleaseOK, OutdatedRelease, Outdating, TypeOK
<1>2. Cleared
  BY DEF ReleaseOK, Unclaimed, Cleared, CASInv, ClearsCurrent
<1> QED
  BY <1>1, <1>2, ClearedKeeps

LEMMA DeleteKeepsCAS ==
    ASSUME TypeOK, CASInv, Goroutines', DeleteStatus
    PROVE  CASInv' /\ Cleared
<1>1. Outdating
  BY OutdateOutdates DEF DeleteStatus
<1>2. Cleared
  BY DEF DeleteStatus, Absent, Cleared
<1> QED
  BY <1>1, <1>2, ClearedKeeps

LEMMA LandLateKeepsCAS ==
    ASSUME TypeOK, CASInv, Goroutines', NEW k \in Instance, LandLate(k)
    PROVE  CASInv' /\ (Claimed(k) \/ Cleared)
<1>1. Outdating
  BY OutdateOutdates DEF LandLate
<1>2. CASE late[k] = "claim"
  <2>1. Claimed(k)
    BY <1>2, LateClaims DEF LandLate
  <2>2. pc'[k] \notin {"new", "get", "cas"}
    BY <1>2 DEF LandLate, CASInv, AcquiringUnwritten
  <2> QED
    BY <1>1, <2>1, <2>2, ClaimedKeeps DEF LandLate
<1>3. CASE late[k] = "clear"
  <2>1. Cleared
    BY <1>3 DEF LandLate, Unclaimed, Cleared, CASInv, ClearsCurrent
  <2> QED
    BY <1>1, <2>1, ClearedKeeps
<1> QED
  BY <1>2, <1>3 DEF LandLate, TypeOK

LEMMA TouchKeepsCAS ==
    ASSUME TypeOK, CASInv, Goroutines', NEW k \in Instance, TouchStatus(k)
    PROVE  CASInv' /\ SameHolder
<1>1. Outdating
  BY OutdateOutdates DEF TouchStatus
<1>2. status.age \in Age /\ status.age <= Older(status.age)
  BY AgeFacts DEF TypeOK, Status, Older, Age
<1>3. SameHolder
  BY <1>2, AgeFacts
     DEF TouchStatus, SameHolder, TypeOK, Status, CASInv, RecordOfOwner
<1> QED
  BY <1>1, <1>3, TouchedKeeps DEF TouchStatus

-----------------------------------------------------------------------------
(* So do the steps that only read, decide, send or give up.                 *)

(* A process that starts has read nothing.                                  *)
LEMMA StartKeepsCAS ==
    ASSUME TypeOK, CASInv, Goroutines', NEW k \in Instance, Start(k)
    PROVE  CASInv' /\ UNCHANGED status
<1>1. RecordOfOwner' /\ UNCHANGED status
  BY DEF CASInv, RecordOfOwner, AcquiringUnwritten, Goroutines, TypeOK,
         Start
<1>2. AcquiringUnwritten'
  BY DEF CASInv, AcquiringUnwritten, Goroutines, TypeOK, Start
<1>3. ClaimsCurrent'
  BY DEF CASInv, ClaimsCurrent, AcquiringUnwritten, MayTake, leaseAge,
         Goroutines, TypeOK, Start
<1>4. ClearsCurrent'
  BY DEF CASInv, ClearsCurrent, Goroutines, TypeOK, Start
<1> QED
  BY <1>1, <1>2, <1>3, <1>4 DEF CASInv

(* Nothing is owned where there is no resource to Create.                   *)
LEMMA AcquireGetKeepsCAS ==
    ASSUME TypeOK, CASInv, Goroutines', NEW k \in Instance, AcquireGet(k)
    PROVE  CASInv' /\ UNCHANGED status
<1>1. RecordOfOwner' /\ UNCHANGED status
  BY DEF CASInv, RecordOfOwner, AcquiringUnwritten, Goroutines, TypeOK,
         AcquireGet, Send
<1>2. AcquiringUnwritten'
  BY DEF CASInv, AcquiringUnwritten, Goroutines, TypeOK, AcquireGet, Send
<1>3. ClaimsCurrent'
  BY DEF CASInv, ClaimsCurrent, AcquiringUnwritten, MayTake, leaseAge,
         Goroutines, TypeOK, AcquireGet, Send
<1>4. ClearsCurrent'
  BY DEF CASInv, ClearsCurrent, Goroutines, TypeOK, AcquireGet, Send
<1> QED
  BY <1>1, <1>2, <1>3, <1>4 DEF CASInv

(* The mutator of casAcquire decides on the resource it has just read.      *)
LEMMA CasAcquireKeepsCAS ==
    ASSUME TypeOK, CASInv, Goroutines', NEW k \in Instance, CasAcquire(k)
    PROVE  CASInv' /\ UNCHANGED status
<1>u. /\ UNCHANGED <<status, skew, late, lateBeat, release>>
      /\ pc[k] = "cas" /\ status.owner # k /\ late[k] # "claim"
  BY DEF CasAcquire, CASInv, AcquiringUnwritten
<1>o. \A i \in Instance \ {k} :
         /\ pc'[i] = pc[i] /\ epoch'[i] = epoch[i] /\ call'[i] = call[i]
         /\ fresh'[i] = fresh[i] /\ beat'[i] = beat[i]
  BY DEF CasAcquire, NotFoundLoop, ExitUnwritten, EndCall, Send, TypeOK
<1>1. RecordOfOwner'
  BY <1>u, <1>o DEF CASInv, RecordOfOwner
<1>2. AcquiringUnwritten'
  BY <1>u, <1>o DEF CASInv, AcquiringUnwritten
<1>3. ClaimsCurrent'
  <2>1. ASSUME call'[k] = "acquire" PROVE MayTake(k)'
    <3>1. ~Held(k) /\ epoch'[k] = AcquiredEpoch(k)
      BY <2>1 DEF CasAcquire, NotFoundLoop, ExitUnwritten, EndCall, TypeOK
    <3>2. epoch'[k] = status.epoch + 1
      BY <3>1, <1>u DEF AcquiredEpoch
    <3>3. leaseAge(k) \in Int
      BY DEF leaseAge, TypeOK, Status, Age
    <3>4. status.owner \in Instance => leaseAge(k) >= StaleAfter
      BY <3>1, <3>3, <1>u, IdAssumption, ConfigAssumption
         DEF Held, CASInv, RecordOfOwner
    <3>5. leaseAge(k)' = leaseAge(k)
      BY <1>u DEF leaseAge
    <3> QED
      BY <3>2, <3>4, <3>5, <1>u DEF MayTake
  <2>2. call'[k] # "refresh"
    BY DEF CasAcquire, NotFoundLoop, ExitUnwritten, EndCall, Send, TypeOK
  <2>3. \A i \in Instance \ {k} : MayTake(i) => MayTake(i)'
    BY <1>u, <1>o DEF MayTake, leaseAge
  <2> QED
    BY <1>u, <1>o, <2>1, <2>2, <2>3 DEF CASInv, ClaimsCurrent
<1>4. ClearsCurrent'
  BY <1>u, <1>o DEF CASInv, ClearsCurrent
<1> QED
  BY <1>u, <1>1, <1>2, <1>3, <1>4 DEF CASInv

(* A write that was refused never lands.                                    *)
LEMMA AcquireConflictKeepsCAS ==
    ASSUME TypeOK, CASInv, Goroutines', NEW k \in Instance, AcquireConflict(k)
    PROVE  CASInv' /\ UNCHANGED status
<1>1. RecordOfOwner' /\ UNCHANGED status
  BY DEF CASInv, RecordOfOwner, AcquiringUnwritten, Goroutines, TypeOK,
         AcquireConflict, NotFoundLoop, ExitUnwritten, EndCall, NeverLands
<1>2. AcquiringUnwritten'
  BY DEF CASInv, AcquiringUnwritten, Goroutines, TypeOK, AcquireConflict,
         NotFoundLoop, ExitUnwritten, EndCall, NeverLands
<1>3. ClaimsCurrent'
  BY DEF CASInv, ClaimsCurrent, AcquiringUnwritten, MayTake, leaseAge,
         Goroutines, TypeOK, AcquireConflict, NotFoundLoop, ExitUnwritten,
         EndCall, NeverLands
<1>4. ClearsCurrent'
  BY DEF CASInv, ClearsCurrent, Goroutines, TypeOK, AcquireConflict,
         NotFoundLoop, ExitUnwritten, EndCall, NeverLands
<1> QED
  BY <1>1, <1>2, <1>3, <1>4 DEF CASInv

(* Acquire gives up before it has sent anything.                            *)
LEMMA AcquireReadErrorKeepsCAS ==
    ASSUME TypeOK, CASInv, Goroutines', NEW k \in Instance, AcquireReadError(k)
    PROVE  CASInv' /\ UNCHANGED status
<1>1. RecordOfOwner' /\ UNCHANGED status
  BY DEF CASInv, RecordOfOwner, AcquiringUnwritten, Goroutines, TypeOK,
         AcquireReadError, ExitUnwritten, EndCall
<1>2. AcquiringUnwritten'
  BY DEF CASInv, AcquiringUnwritten, Goroutines, TypeOK, AcquireReadError,
         ExitUnwritten, EndCall
<1>3. ClaimsCurrent'
  BY DEF CASInv, ClaimsCurrent, AcquiringUnwritten, MayTake, leaseAge,
         Goroutines, TypeOK, AcquireReadError, ExitUnwritten, EndCall
<1>4. ClearsCurrent'
  BY DEF CASInv, ClearsCurrent, Goroutines, TypeOK, AcquireReadError,
         ExitUnwritten, EndCall
<1> QED
  BY <1>1, <1>2, <1>3, <1>4 DEF CASInv

(* Acquire gives up with its write outstanding, or refused: in the first case*)
(* its id is never used again.                                              *)
LEMMA AcquireWriteErrorKeepsCAS ==
    ASSUME TypeOK, CASInv, Goroutines', NEW k \in Instance,
           AcquireWriteError(k), ~Landed(k)
    PROVE  CASInv' /\ UNCHANGED status
<1>1. RecordOfOwner' /\ UNCHANGED status
  BY DEF CASInv, RecordOfOwner, AcquiringUnwritten, Goroutines, TypeOK,
         AcquireWriteError, ExitUnwritten, EndCall, NeverLands,
         StillUnderWay, CanLand
<1>2. AcquiringUnwritten'
  BY DEF CASInv, AcquiringUnwritten, Goroutines, TypeOK, AcquireWriteError,
         ExitUnwritten, EndCall, NeverLands, StillUnderWay, CanLand
<1>3. ClaimsCurrent'
  BY DEF CASInv, RecordOfOwner, ClaimsCurrent, AcquiringUnwritten, MayTake,
         leaseAge, Goroutines, TypeOK, AcquireWriteError, ExitUnwritten,
         EndCall, NeverLands, StillUnderWay, CanLand
<1>4. ClearsCurrent'
  BY DEF CASInv, ClearsCurrent, Goroutines, TypeOK, AcquireWriteError,
         ExitUnwritten, EndCall, NeverLands, StillUnderWay, CanLand
<1> QED
  BY <1>1, <1>2, <1>3, <1>4 DEF CASInv

(* A refresh begins.                                                        *)
LEMMA RefreshTickKeepsCAS ==
    ASSUME TypeOK, CASInv, Goroutines', NEW k \in Instance, RefreshTick(k)
    PROVE  CASInv' /\ UNCHANGED status
<1>1. RecordOfOwner' /\ UNCHANGED status
  BY DEF CASInv, RecordOfOwner, AcquiringUnwritten, Goroutines, TypeOK,
         RefreshTick
<1>2. AcquiringUnwritten'
  BY DEF CASInv, AcquiringUnwritten, Goroutines, TypeOK, RefreshTick
<1>3. ClaimsCurrent'
  BY DEF CASInv, ClaimsCurrent, AcquiringUnwritten, MayTake, leaseAge,
         Goroutines, TypeOK, RefreshTick
<1>4. ClearsCurrent'
  BY DEF CASInv, ClearsCurrent, Goroutines, TypeOK, RefreshTick
<1> QED
  BY <1>1, <1>2, <1>3, <1>4 DEF CASInv

(* The mutator of refresh decides on the resource it has just read.         *)
LEMMA RefreshReadKeepsCAS ==
    ASSUME TypeOK, CASInv, Goroutines', NEW k \in Instance, RefreshRead(k)
    PROVE  CASInv' /\ UNCHANGED status
<1>1. RecordOfOwner' /\ UNCHANGED status
  BY DEF CASInv, RecordOfOwner, AcquiringUnwritten, Goroutines, TypeOK,
         RefreshRead, CountError, MarkLost, StopLoop, EndCall, Send, Stolen,
         Status, Age
<1>2. AcquiringUnwritten'
  BY DEF CASInv, AcquiringUnwritten, Goroutines, TypeOK, RefreshRead,
         CountError, MarkLost, StopLoop, EndCall, Send, Stolen, Status, Age
<1>3. ClaimsCurrent'
  BY DEF CASInv, ClaimsCurrent, AcquiringUnwritten, MayTake, leaseAge,
         Goroutines, TypeOK, RefreshRead, CountError, MarkLost, StopLoop,
         EndCall, Send, Stolen, Status, Age
<1>4. ClearsCurrent'
  BY DEF CASInv, ClearsCurrent, Goroutines, TypeOK, RefreshRead, CountError,
         MarkLost, StopLoop, EndCall, Send, Stolen, Status, Age
<1> QED
  BY <1>1, <1>2, <1>3, <1>4 DEF CASInv

(* A refresh that was refused reads again.                                  *)
LEMMA RefreshConflictKeepsCAS ==
    ASSUME TypeOK, CASInv, Goroutines', NEW k \in Instance, RefreshConflict(k)
    PROVE  CASInv' /\ UNCHANGED status
<1>1. RecordOfOwner' /\ UNCHANGED status
  BY DEF CASInv, RecordOfOwner, AcquiringUnwritten, Goroutines, TypeOK,
         RefreshConflict, CountError, MarkLost, StopLoop, EndCall,
         NeverLands
<1>2. AcquiringUnwritten'
  BY DEF CASInv, AcquiringUnwritten, Goroutines, TypeOK, RefreshConflict,
         CountError, MarkLost, StopLoop, EndCall, NeverLands
<1>3. ClaimsCurrent'
  BY DEF CASInv, ClaimsCurrent, AcquiringUnwritten, MayTake, leaseAge,
         Goroutines, TypeOK, RefreshConflict, CountError, MarkLost,
         StopLoop, EndCall, NeverLands
<1>4. ClearsCurrent'
  BY DEF CASInv, ClearsCurrent, Goroutines, TypeOK, RefreshConflict,
         CountError, MarkLost, StopLoop, EndCall, NeverLands
<1> QED
  BY <1>1, <1>2, <1>3, <1>4 DEF CASInv

(* A refresh fails, with its write outstanding or not.                      *)
LEMMA RefreshErrorKeepsCAS ==
    ASSUME TypeOK, CASInv, Goroutines', NEW k \in Instance,
           RefreshError(k), ~(call[k] = "refresh" /\ Landed(k))
    PROVE  CASInv' /\ UNCHANGED status
<1>1. RecordOfOwner' /\ UNCHANGED status
  BY DEF CASInv, RecordOfOwner, AcquiringUnwritten, Goroutines, TypeOK,
         RefreshError, CountError, MarkLost, StopLoop, EndCall, NeverLands,
         StillUnderWay, CanLand
<1>2. AcquiringUnwritten'
  BY DEF CASInv, AcquiringUnwritten, Goroutines, TypeOK, RefreshError,
         CountError, MarkLost, StopLoop, EndCall, NeverLands, StillUnderWay,
         CanLand
<1>3. ClaimsCurrent'
  BY DEF CASInv, ClaimsCurrent, AcquiringUnwritten, MayTake, leaseAge,
         Goroutines, TypeOK, RefreshError, CountError, MarkLost, StopLoop,
         EndCall, NeverLands, StillUnderWay, CanLand
<1>4. ClearsCurrent'
  BY DEF CASInv, ClearsCurrent, Goroutines, TypeOK, RefreshError,
         CountError, MarkLost, StopLoop, EndCall, NeverLands, StillUnderWay,
         CanLand
<1> QED
  BY <1>1, <1>2, <1>3, <1>4 DEF CASInv

(* A signal cuts a refresh off.                                             *)
LEMMA TerminateKeepsCAS ==
    ASSUME TypeOK, CASInv, Goroutines', NEW k \in Instance, Terminate(k)
    PROVE  CASInv' /\ UNCHANGED status
<1>1. RecordOfOwner' /\ UNCHANGED status
  BY DEF CASInv, RecordOfOwner, AcquiringUnwritten, Goroutines, TypeOK,
         Terminate, StopLoop, EndCall, CutOff, NeverLands, StillUnderWay,
         CanLand
<1>2. AcquiringUnwritten'
  BY DEF CASInv, AcquiringUnwritten, Goroutines, TypeOK, Terminate,
         StopLoop, EndCall, CutOff, NeverLands, StillUnderWay, CanLand
<1>3. ClaimsCurrent'
  BY DEF CASInv, ClaimsCurrent, AcquiringUnwritten, MayTake, leaseAge,
         Goroutines, TypeOK, Terminate, StopLoop, EndCall, CutOff,
         NeverLands, StillUnderWay, CanLand
<1>4. ClearsCurrent'
  BY DEF CASInv, ClearsCurrent, Goroutines, TypeOK, Terminate, StopLoop,
         EndCall, CutOff, NeverLands, StillUnderWay, CanLand
<1> QED
  BY <1>1, <1>2, <1>3, <1>4 DEF CASInv

(* Shutdown begins with the heartbeat still running.                        *)
LEMMA RunFailsKeepsCAS ==
    ASSUME TypeOK, CASInv, Goroutines', NEW k \in Instance, RunFails(k)
    PROVE  CASInv' /\ UNCHANGED status
<1>1. RecordOfOwner' /\ UNCHANGED status
  BY DEF CASInv, RecordOfOwner, AcquiringUnwritten, Goroutines, TypeOK,
         RunFails
<1>2. AcquiringUnwritten'
  BY DEF CASInv, AcquiringUnwritten, Goroutines, TypeOK, RunFails
<1>3. ClaimsCurrent'
  BY DEF CASInv, ClaimsCurrent, AcquiringUnwritten, MayTake, leaseAge,
         Goroutines, TypeOK, RunFails
<1>4. ClearsCurrent'
  BY DEF CASInv, ClearsCurrent, Goroutines, TypeOK, RunFails
<1> QED
  BY <1>1, <1>2, <1>3, <1>4 DEF CASInv

(* A process dies with a claim or a clear outstanding.                      *)
LEMMA CrashKeepsCAS ==
    ASSUME TypeOK, CASInv, Goroutines', NEW k \in Instance, Crash(k)
    PROVE  CASInv' /\ UNCHANGED status
<1>1. RecordOfOwner' /\ UNCHANGED status
  BY DEF CASInv, RecordOfOwner, AcquiringUnwritten, Goroutines, TypeOK,
         Crash, Gone, StopLoop, EndCall, CutOff, NeverLands, StillUnderWay,
         CanLand
<1>2. AcquiringUnwritten'
  BY DEF CASInv, AcquiringUnwritten, Goroutines, TypeOK, Crash, Gone,
         StopLoop, EndCall, CutOff, NeverLands, StillUnderWay, CanLand
<1>3. ClaimsCurrent'
  BY DEF CASInv, RecordOfOwner, ClaimsCurrent, AcquiringUnwritten, MayTake,
         leaseAge, Goroutines, TypeOK, Crash, Gone, StopLoop, EndCall,
         CutOff, NeverLands, StillUnderWay, CanLand
<1>4. ClearsCurrent'
  BY DEF CASInv, ClearsCurrent, Goroutines, TypeOK, Crash, Gone, StopLoop,
         EndCall, CutOff, NeverLands, StillUnderWay, CanLand
<1> QED
  BY <1>1, <1>2, <1>3, <1>4 DEF CASInv

(* So it may when it exits.                                                 *)
LEMMA ExitKeepsCAS ==
    ASSUME TypeOK, CASInv, Goroutines', NEW k \in Instance, Exit(k)
    PROVE  CASInv' /\ UNCHANGED status
<1>1. RecordOfOwner' /\ UNCHANGED status
  BY DEF CASInv, RecordOfOwner, AcquiringUnwritten, Goroutines, TypeOK,
         Exit, Gone, StopLoop, EndCall, CutOff, NeverLands, StillUnderWay,
         CanLand
<1>2. AcquiringUnwritten'
  BY DEF CASInv, AcquiringUnwritten, Goroutines, TypeOK, Exit, Gone,
         StopLoop, EndCall, CutOff, NeverLands, StillUnderWay, CanLand
<1>3. ClaimsCurrent'
  BY DEF CASInv, ClaimsCurrent, AcquiringUnwritten, MayTake, leaseAge,
         Goroutines, TypeOK, Exit, Gone, StopLoop, EndCall, CutOff,
         NeverLands, StillUnderWay, CanLand
<1>4. ClearsCurrent'
  BY DEF CASInv, ClearsCurrent, Goroutines, TypeOK, Exit, Gone, StopLoop,
         EndCall, CutOff, NeverLands, StillUnderWay, CanLand
<1> QED
  BY <1>1, <1>2, <1>3, <1>4 DEF CASInv

(* Release goes on to clear only what it has found to be its own.           *)
LEMMA ReleaseReadKeepsCAS ==
    ASSUME TypeOK, CASInv, Goroutines', NEW k \in Instance, ReleaseRead(k)
    PROVE  CASInv' /\ UNCHANGED status
<1>1. RecordOfOwner' /\ UNCHANGED status
  BY DEF CASInv, RecordOfOwner, AcquiringUnwritten, Goroutines, TypeOK,
         ReleaseRead
<1>2. AcquiringUnwritten'
  BY DEF CASInv, AcquiringUnwritten, Goroutines, TypeOK, ReleaseRead
<1>3. ClaimsCurrent'
  BY DEF CASInv, ClaimsCurrent, AcquiringUnwritten, MayTake, leaseAge,
         Goroutines, TypeOK, ReleaseRead
<1>4. ClearsCurrent'
  BY DEF CASInv, ClearsCurrent, Goroutines, TypeOK, ReleaseRead
<1> QED
  BY <1>1, <1>2, <1>3, <1>4 DEF CASInv

(* A Release that was refused reads again.                                  *)
LEMMA ReleaseConflictKeepsCAS ==
    ASSUME TypeOK, CASInv, Goroutines', NEW k \in Instance, ReleaseConflict(k)
    PROVE  CASInv' /\ UNCHANGED status
<1>1. RecordOfOwner' /\ UNCHANGED status
  BY DEF CASInv, RecordOfOwner, AcquiringUnwritten, Goroutines, TypeOK,
         ReleaseConflict
<1>2. AcquiringUnwritten'
  BY DEF CASInv, AcquiringUnwritten, Goroutines, TypeOK, ReleaseConflict
<1>3. ClaimsCurrent'
  BY DEF CASInv, ClaimsCurrent, AcquiringUnwritten, MayTake, leaseAge,
         Goroutines, TypeOK, ReleaseConflict
<1>4. ClearsCurrent'
  BY DEF CASInv, ClearsCurrent, Goroutines, TypeOK, ReleaseConflict
<1> QED
  BY <1>1, <1>2, <1>3, <1>4 DEF CASInv

(* Release gives up with its write outstanding, or not.                     *)
LEMMA ReleaseFailsKeepsCAS ==
    ASSUME TypeOK, CASInv, Goroutines', NEW k \in Instance, ReleaseFails(k)
    PROVE  CASInv' /\ UNCHANGED status
<1>1. RecordOfOwner' /\ UNCHANGED status
  BY DEF CASInv, RecordOfOwner, AcquiringUnwritten, Goroutines, TypeOK,
         ReleaseFails
<1>2. AcquiringUnwritten'
  BY DEF CASInv, AcquiringUnwritten, Goroutines, TypeOK, ReleaseFails
<1>3. ClaimsCurrent'
  BY DEF CASInv, ClaimsCurrent, AcquiringUnwritten, MayTake, leaseAge,
         Goroutines, TypeOK, ReleaseFails
<1>4. ClearsCurrent'
  BY DEF CASInv, ClearsCurrent, Goroutines, TypeOK, ReleaseFails
<1> QED
  BY <1>1, <1>2, <1>3, <1>4 DEF CASInv

(* A claim and the heartbeat it was computed from age together.             *)
LEMMA OlderMonotone ==
    \A a, b \in Age : /\ Older(a) \in Age /\ a <= Older(a)
                      /\ a <= b => Older(a) <= Older(b)
  BY AgeFacts DEF Age, Older

LEMMA AdvanceTimeKeepsCAS ==
    ASSUME TypeOK, CASInv, Goroutines', AdvanceTime
    PROVE  CASInv' /\ SameHolder
<1>1. /\ status.age \in Age /\ status'.age \in {status.age, Older(status.age)}
      /\ status'.owner = status.owner /\ status'.epoch = status.epoch
      /\ status'.heartbeat = status.heartbeat /\ status'.exists = status.exists
  BY DEF AdvanceTime, TypeOK, Status
<1>2. status.owner \in Instance => status'.age = Older(status.age)
  BY IdAssumption DEF AdvanceTime, TypeOK, Status, CASInv, RecordOfOwner
<1>3. status'.age \in Age /\ status.age <= status'.age
  BY <1>1, OlderMonotone DEF Age
<1>4. SameHolder
  BY <1>1, <1>2, <1>3 DEF SameHolder, Age
<1>5. UNCHANGED <<skew, pc, epoch, call, fresh, release, late>>
  BY DEF AdvanceTime
<1>6. RecordOfOwner' /\ AcquiringUnwritten' /\ ClearsCurrent'
  BY <1>1, <1>5 DEF CASInv, RecordOfOwner, AcquiringUnwritten, ClearsCurrent
<1>7. ClaimsCurrent'
  <2>1. ASSUME NEW i \in Instance, MayTake(i) PROVE MayTake(i)'
    <3>1. CASE status.owner \in Instance
      <4> DEFINE there == IF status.heartbeat = "ok" /\ status.owner \in Instance
                          THEN skew[status.owner] ELSE 0
      <4>1. leaseAge(i) = status.age + skew[i] - there
        BY DEF leaseAge
      <4>2. leaseAge(i)' = status'.age + skew[i] - there
        BY <1>1, <1>5 DEF leaseAge
      <4>3. there \in Int /\ skew[i] \in Int
        BY <3>1 DEF TypeOK
      <4> HIDE DEF there
      <4>4. leaseAge(i)' >= StaleAfter
        BY <2>1, <1>1, <1>3, <3>1, <4>1, <4>2, <4>3, ConfigAssumption
           DEF MayTake, Age
      <4> QED
        BY <2>1, <1>1, <1>5, <4>4 DEF MayTake
    <3>2. CASE status.owner \notin Instance
      BY <2>1, <1>1, <1>5, <3>2 DEF MayTake
    <3> QED
      BY <3>1, <3>2
  <2>2. ASSUME NEW i \in Instance, status.owner = i
        PROVE  /\ call[i] = "refresh" /\ beat[i] <= status.age
                     => beat'[i] <= status'.age
               /\ late[i] = "claim" /\ lateBeat[i] <= status.age
                     => lateBeat'[i] <= status'.age
    <3>1. beat[i] \in Age /\ lateBeat[i] \in Age
      BY DEF TypeOK
    <3>2. /\ call[i] = "refresh" => beat'[i] = Older(beat[i])
          /\ late[i] = "claim" => lateBeat'[i] = Older(lateBeat[i])
      BY DEF AdvanceTime
    <3> QED
      BY <1>1, <1>2, <2>2, <3>1, <3>2, OlderMonotone
  <2> QED
    BY <1>1, <1>5, <2>1, <2>2 DEF CASInv, ClaimsCurrent
<1> QED
  BY <1>4, <1>6, <1>7 DEF CASInv

-----------------------------------------------------------------------------
(* Every step.                                                              *)

LEMMA InitCAS == Init => CASInv
<1> SUFFICES ASSUME Init PROVE CASInv
  OBVIOUS
<1>1. /\ status.owner \in {Prior, NoOwner}
      /\ status.owner = NoOwner => status.epoch = 0
      /\ ~status.exists => status.owner = NoOwner
  BY IdAssumption DEF Init, InitialStatus, Absent, Unclaimed, Left
<1> QED
  BY <1>1, IdAssumption
     DEF Init, CASInv, Goroutines, RecordOfOwner, AcquiringUnwritten,
         ClaimsCurrent, ClearsCurrent, Active

(* What any step does to the annotations, and that it keeps the invariant.  *)
LEMMA RecordStep ==
    ASSUME TypeOK, CASInv, [Next]_vars
    PROVE  /\ CASInv'
           /\ \/ SameHolder
              \/ Cleared
              \/ \E k \in Instance : Claimed(k)
<1>g. Goroutines'
  BY GoroutinesStep DEF CASInv
<1>u. UNCHANGED status => SameHolder
  <2>1. status.age \in Age
    BY DEF TypeOK, Status
  <2> QED
    BY <2>1, OlderMonotone DEF SameHolder
<1>1. CASE UNCHANGED vars
  <2>1. CASInv'
    BY <1>1, <1>g DEF vars, CASInv, RecordOfOwner, AcquiringUnwritten,
          ClaimsCurrent, ClearsCurrent, MayTake, leaseAge
  <2> QED
    BY <1>1, <1>u, <2>1 DEF vars
<1>2. ASSUME NEW k \in Instance, Acquire(k)
      PROVE  CASInv' /\ (SameHolder \/ Claimed(k))
  BY <1>2, <1>g, <1>u, StartKeepsCAS, AcquireGetKeepsCAS, CasAcquireKeepsCAS,
     AcquireOKKeepsCAS, AcquireConflictKeepsCAS, AcquireReadErrorKeepsCAS,
     AcquireWriteErrorKeepsCAS, AcquireLandedKeepsCAS
     DEF Acquire
<1>3. ASSUME NEW k \in Instance, Run(k)
      PROVE  CASInv' /\ (SameHolder \/ Claimed(k))
  BY <1>3, <1>g, <1>u, RefreshTickKeepsCAS, RefreshReadKeepsCAS,
     RefreshOKKeepsCAS, RefreshConflictKeepsCAS, RefreshErrorKeepsCAS,
     RefreshLandedKeepsCAS
     DEF Run
<1>4. ASSUME NEW k \in Instance, Shutdown(k)
      PROVE  CASInv' /\ (SameHolder \/ Cleared)
  BY <1>4, <1>g, <1>u, TerminateKeepsCAS, RunFailsKeepsCAS, CrashKeepsCAS,
     ExitKeepsCAS, ReleaseReadKeepsCAS, ReleaseOKKeepsCAS,
     ReleaseConflictKeepsCAS, ReleaseFailsKeepsCAS
     DEF Shutdown
<1>5. ASSUME NEW k \in Instance, LandLate(k) \/ TouchStatus(k)
      PROVE  CASInv' /\ (SameHolder \/ Cleared \/ Claimed(k))
  BY <1>5, <1>g, LandLateKeepsCAS, TouchKeepsCAS
<1>6. CASE DeleteStatus \/ AdvanceTime
  BY <1>6, <1>g, DeleteKeepsCAS, AdvanceTimeKeepsCAS
<1> QED
  BY <1>1, <1>2, <1>3, <1>4, <1>5, <1>6 DEF Next

(* The compare-and-swap works: whatever is late, lost or killed, however    *)
(* the clocks differ and whoever deletes the resource, no write of Acquire, *)
(* refresh or Release that can still land rests on a state of the resource  *)
(* that is gone.                                                            *)
THEOREM CASInvariant == Spec => []CASInv
<1>1. TypeOK /\ CASInv /\ [Next]_vars => CASInv'
  BY RecordStep
<1> QED
  BY <1>1, InitCAS, TypeCorrect, PTL DEF Spec

(* refresh's "epoch advanced under us" test (singleton.go:489) never fires  *)
(* while the resource still names the holder or no one.                     *)
THEOREM EpochFollowsOwner == Spec => []EpochMovesWithOwner
<1>1. TypeOK /\ CASInv => EpochMovesWithOwner
  BY DEF TypeOK, CASInv, RecordOfOwner, EpochMovesWithOwner
<1> QED
  BY <1>1, CASInvariant, TypeCorrect, PTL

(* The lease of one process passes to another only if its heartbeat is      *)
(* stale by the taker's clock when the taker's write lands, also when the   *)
(* write lands after its caller has given up or died.                       *)
THEOREM TakeoverStale == Spec => TakeoverOnlyWhenStale
<1>1. TypeOK /\ CASInv /\ [Next]_vars =>
        [\A i, j \in Instance :
            i # j /\ status.owner = j /\ status'.owner = i
               => leaseAge(i) >= StaleAfter]_vars
  BY RecordStep, IdAssumption DEF SameHolder, Cleared, Claimed, MayTake
<1> QED
  BY <1>1, CASInvariant, TypeCorrect, PTL DEF Spec, TakeoverOnlyWhenStale

(* A takeover takes exactly the next epoch: no two holders that follow one  *)
(* another share a fencing token.                                           *)
THEOREM TakeoverEpoch == Spec => TakeoverBumpsEpoch
<1>1. TypeOK /\ CASInv /\ [Next]_vars =>
        [\A i \in Instance :
            status.owner \notin {i, NoOwner} /\ status'.owner = i
               => status'.epoch = status.epoch + 1]_vars
  BY RecordStep, IdAssumption DEF SameHolder, Cleared, Claimed, MayTake
<1> QED
  BY <1>1, CASInvariant, TypeCorrect, PTL DEF Spec, TakeoverBumpsEpoch

(* Nobody clears the annotations of a process that stays active: a Release, *)
(* late or not, is always of the lease it clears.                           *)
THEOREM HolderKept == Spec => HolderNotCleared
<1>1. TypeOK /\ CASInv /\ [Next]_vars =>
        [\A i \in Instance :
            Active(i) /\ Active(i)' /\ status.owner = i /\ status'.exists
               => status'.owner # NoOwner]_vars
  BY RecordStep, IdAssumption DEF SameHolder, Cleared, Claimed, Active
<1> QED
  BY <1>1, CASInvariant, TypeCorrect, PTL DEF Spec, HolderNotCleared

(* The heartbeat of a holder never goes back in time, whatever order its    *)
(* refreshes and its late writes land in.                                   *)
THEOREM HeartbeatMonotone == Spec => HeartbeatNeverGoesBack
<1>1. ASSUME TypeOK, CASInv, [Next]_vars
      PROVE  \A i \in Instance :
                status.owner = i /\ status'.owner = i
                   => status'.age <= Older(status.age)
  <2>1. status.age \in Age
    BY <1>1 DEF TypeOK, Status
  <2>2. \/ SameHolder
        \/ Cleared
        \/ \E k \in Instance : Claimed(k)
    BY <1>1, RecordStep
  <2>3. status'.age \in Age
    BY <1>1, TypedStep DEF TypeOK, Status
  <2> QED
    BY <2>1, <2>2, <2>3, OlderMonotone, IdAssumption
       DEF SameHolder, Cleared, Claimed, Age
<1>2. TypeOK /\ CASInv /\ [Next]_vars =>
        [\A i \in Instance :
            status.owner = i /\ status'.owner = i
               => status'.age <= Older(status.age)]_vars
  BY <1>1
<1> QED
  BY <1>2, CASInvariant, TypeCorrect, PTL DEF Spec, HeartbeatNeverGoesBack
=============================================================================
