------------------------------ MODULE Singleton ------------------------------
(***************************************************************************)
(* The singleton lease of internal/singleton, as main.go wires it: provider *)
(* processes that share a PROVIDER_ID compete for three annotations         *)
(* (instance id, heartbeat, epoch) on one ProviderStatus resource kept by   *)
(* Omni, which they change by compare-and-swap.                             *)
(*                                                                          *)
(* Time is relative, so that behaviours never run out of it: an annotation  *)
(* or a write under way carries the AGE of its heartbeat, counted up to     *)
(* AgeCap, after which no comparison can tell ages apart.  A process reads  *)
(* its own clock, which is ahead of true time by skew[i].                   *)
(*                                                                          *)
(* A compare-and-swap (safe.StateUpdateWithConflicts) is a read that        *)
(* computes the write, and a write that lands only if the resource has not  *)
(* changed since: versions are abstracted to fresh[i], "the version the     *)
(* call read is still the current one".  A write whose caller has given up  *)
(* may still be under way (late[i]); the server rejects it once outdated,   *)
(* which is modelled by forgetting it.                                      *)
(***************************************************************************)
EXTENDS Integers

CONSTANTS
    Instance,         \* the instance ids (a UUID per process start)
    Prior,            \* the id of a process that is gone, on the resource initially
    NoOwner,          \* no instance-id annotation
    RefreshInterval,  \* Config.RefreshInterval
    StaleAfter,       \* Config.StaleAfter
    CallLatency,      \* assumed bound on one call of the Omni API
    MaxSkew,          \* assumed bound on the difference of two clocks
    MayDelete         \* whether the resource may be deleted by an operator

ASSUME IdAssumption ==
    /\ Prior \notin Instance
    /\ NoOwner \notin Instance
    /\ Prior # NoOwner

(* What New checks of its configuration.                                    *)
ASSUME ConfigAssumption ==
    /\ RefreshInterval \in Nat \ {0}
    /\ StaleAfter \in Nat
    /\ StaleAfter >= 2 * RefreshInterval

(* What is assumed of the environment: a call ends before the next tick.    *)
ASSUME EnvAssumption ==
    /\ CallLatency \in 0 .. RefreshInterval
    /\ MaxSkew \in Nat
    /\ MayDelete \in BOOLEAN

VARIABLES
    status,    \* the ProviderStatus resource and its three annotations
    skew,      \* how far each process's clock is ahead of true time
    pc,        \* where the main goroutine of each process is
    loop,      \* whether the goroutine running Lease.Run is alive
    attempt,   \* Acquire's loop counter
    epoch,     \* Lease.epoch
    errors,    \* Run's consecutiveErrors
    tick,      \* time until the ticker of Run fires
    call,      \* the call under way in Acquire or in refresh
    fresh,     \* the version that call read is the current one
    beat,      \* the age of the heartbeat that call carries
    left,      \* the time within which that call ends
    release,   \* where Release is: "no", "fresh", "outdated" or "done"
    late,      \* a write still under way after its caller gave up
    lateBeat   \* the age of the heartbeat it carries

vars == <<status, skew, pc, loop, attempt, epoch, errors, tick, call, fresh,
          beat, left, release, late, lateBeat>>

maxAttempts == 3
maxConsecutiveRefreshErrors == 3

AgeCap == StaleAfter + MaxSkew
Age == 0 .. AgeCap
Older(a) == IF a < AgeCap THEN a + 1 ELSE a

Owner == Instance \cup {Prior, NoOwner}

Pc == {"new", "get", "cas", "running", "stopping", "dead"}
Call == {"none", "create", "acquire", "read", "refresh"}
Status == [exists : BOOLEAN, owner : Owner, age : Age, epoch : Nat,
           heartbeat : {"ok", "malformed", "missing"}]

TypeOK ==
    /\ status \in Status
    /\ skew \in [Instance -> 0 .. MaxSkew]
    /\ pc \in [Instance -> Pc]
    /\ loop \in [Instance -> BOOLEAN]
    /\ attempt \in [Instance -> 0 .. maxAttempts - 1]
    /\ epoch \in [Instance -> Nat]
    /\ errors \in [Instance -> 0 .. maxConsecutiveRefreshErrors - 1]
    /\ tick \in [Instance -> 0 .. RefreshInterval]
    /\ call \in [Instance -> Call]
    /\ fresh \in [Instance -> BOOLEAN]
    /\ beat \in [Instance -> Age]
    /\ left \in [Instance -> 0 .. CallLatency]
    /\ release \in [Instance -> {"no", "fresh", "outdated", "done"}]
    /\ late \in [Instance -> {"none", "claim", "clear"}]
    /\ lateBeat \in [Instance -> Age]

-----------------------------------------------------------------------------
(* The resource.                                                            *)

Absent == [exists |-> FALSE, owner |-> NoOwner, age |-> 0, epoch |-> 0,
           heartbeat |-> "missing"]
Unclaimed == [exists |-> TRUE, owner |-> NoOwner, age |-> 0, epoch |-> 0,
              heartbeat |-> "missing"]

(* What a predecessor may have left: nothing, a released lease, a crashed   *)
(* holder, a holder of a release without epochs or without heartbeats, or   *)
(* an annotation that does not parse.                                       *)
Left(a, e, h) == [exists |-> TRUE, owner |-> Prior, age |-> a, epoch |-> e,
                  heartbeat |-> h]
InitialStatus ==
    {Absent, Unclaimed}
    \cup {Left(a, e, h) : a \in Age, e \in {0, 1}, h \in {"ok", "missing"}}
    \cup {Left(0, e, "malformed") : e \in {0, 1}}

(* Fault: the server keeps a write that is outdated.                        *)
OutdateCallsOnly ==
    /\ fresh' = [j \in Instance |-> FALSE]
    /\ UNCHANGED <<release, late, lateBeat>>

(* Any write changes the version: calls that read the old one are outdated. *)
OutdatedRelease == [j \in Instance |->
    IF release[j] = "fresh" THEN "outdated" ELSE release[j]]

Outdate ==
    /\ fresh' = [j \in Instance |-> FALSE]
    /\ release' = OutdatedRelease
    /\ late' = [j \in Instance |-> "none"]
    /\ lateBeat' = [j \in Instance |-> 0]

(* Fault: every write of the annotations raises the epoch.                  *)
ClaimRaisingEpoch(i, a) ==
    status' = [exists |-> TRUE, owner |-> i, age |-> a, epoch |-> epoch[i] + 1,
               heartbeat |-> "ok"]

(* The three annotations set by tryCreate, casAcquire and refresh alike.    *)
Claim(i, a) ==
    status' = [exists |-> TRUE, owner |-> i, age |-> a, epoch |-> epoch[i],
               heartbeat |-> "ok"]

(* leaseAge, as process i computes it with its own clock; a heartbeat that  *)
(* is present was written with its owner's clock.                           *)
leaseAge(i) ==
    status.age + skew[i]
    - (IF status.heartbeat = "ok" /\ status.owner \in Instance
       THEN skew[status.owner] ELSE 0)

(* Faults: the wrong duration, and no staleness test at all.                *)
HeldForAnInterval(i) ==
    /\ status.owner \notin {i, NoOwner}
    /\ status.heartbeat # "malformed"
    /\ leaseAge(i) < RefreshInterval
HeldForever(i) ==
    /\ status.owner \notin {i, NoOwner}
    /\ status.heartbeat # "malformed"

(* casAcquire returns a LeaseHeldError.                                     *)
Held(i) ==
    /\ status.owner \notin {i, NoOwner}
    /\ status.heartbeat # "malformed"
    /\ leaseAge(i) < StaleAfter

(* Fault: a takeover that forgets to raise the epoch.                       *)
AcquiredEpochKept(i) == IF epoch[i] = 0 THEN status.epoch ELSE epoch[i]

(* The epoch casAcquire's mutator takes.                                    *)
AcquiredEpoch(i) ==
    IF status.owner = i
    THEN IF epoch[i] = 0 THEN status.epoch ELSE epoch[i]
    ELSE status.epoch + 1

(* refresh finds that the lease is no longer its own.                       *)
Stolen(i) ==
    \/ status.owner \notin {i, NoOwner}
    \/ epoch[i] # 0 /\ status.epoch > epoch[i]

-----------------------------------------------------------------------------
Init ==
    /\ status \in InitialStatus
    /\ skew \in [Instance -> 0 .. MaxSkew]
    /\ pc = [i \in Instance |-> "new"]
    /\ loop = [i \in Instance |-> FALSE]
    /\ attempt = [i \in Instance |-> 0]
    /\ epoch = [i \in Instance |-> 0]
    /\ errors = [i \in Instance |-> 0]
    /\ tick = [i \in Instance |-> RefreshInterval]
    /\ call = [i \in Instance |-> "none"]
    /\ fresh = [i \in Instance |-> FALSE]
    /\ beat = [i \in Instance |-> 0]
    /\ left = [i \in Instance |-> 0]
    /\ release = [i \in Instance |-> "no"]
    /\ late = [i \in Instance |-> "none"]
    /\ lateBeat = [i \in Instance |-> 0]

(* The call in Acquire or refresh ends.                                     *)
EndCall(i) ==
    /\ call' = [call EXCEPT ![i] = "none"]
    /\ beat' = [beat EXCEPT ![i] = 0]
    /\ left' = [left EXCEPT ![i] = 0]

(* The process ends without having acquired.  It is restarted with another  *)
(* UUID; when its own was never written, and cannot be any more, the model  *)
(* uses the id again for the restarted process.                             *)
ExitUnwritten(i) ==
    /\ pc' = [pc EXCEPT ![i] = "new"]
    /\ EndCall(i)
    /\ epoch' = [epoch EXCEPT ![i] = 0]
    /\ attempt' = [attempt EXCEPT ![i] = 0]

(* A write is sent, computed from the resource as it is now.                *)
Send(i, op) ==
    /\ call' = [call EXCEPT ![i] = op]
    /\ fresh' = [fresh EXCEPT ![i] = TRUE]
    /\ beat' = [beat EXCEPT ![i] = 0]

Start(i) ==
    /\ pc[i] = "new"
    /\ pc' = [pc EXCEPT ![i] = "get"]
    /\ UNCHANGED <<status, skew, loop, attempt, epoch, errors, tick, call,
                   fresh, beat, left, release, late, lateBeat>>

(* The Get of Acquire; when there is no resource, tryCreate sets the epoch  *)
(* and sends the Create.                                                    *)
AcquireGet(i) ==
    /\ pc[i] = "get" /\ call[i] = "none"
    /\ IF status.exists
       THEN /\ pc' = [pc EXCEPT ![i] = "cas"]
            /\ UNCHANGED <<epoch, call, fresh, beat, left>>
       ELSE /\ epoch' = [epoch EXCEPT ![i] = 1]
            /\ Send(i, "create")
            /\ left' = [left EXCEPT ![i] = CallLatency]
            /\ UNCHANGED pc
    /\ UNCHANGED <<status, skew, loop, attempt, errors, tick, release, late,
                   lateBeat>>

(* NotFound from casAcquire: Acquire loops, at most maxAttempts times.      *)
NotFoundLoop(i) ==
    IF attempt[i] + 1 < maxAttempts
    THEN /\ attempt' = [attempt EXCEPT ![i] = @ + 1]
         /\ pc' = [pc EXCEPT ![i] = "get"]
         /\ EndCall(i)
         /\ UNCHANGED epoch
    ELSE ExitUnwritten(i)

(* casAcquire reads the resource and its mutator decides.                   *)
CasAcquire(i) ==
    /\ pc[i] = "cas" /\ call[i] = "none"
    /\ \/ /\ ~status.exists
          /\ NotFoundLoop(i)
          /\ UNCHANGED fresh
       \/ /\ status.exists /\ Held(i)
          /\ ExitUnwritten(i)
          /\ UNCHANGED fresh
       \/ /\ status.exists /\ ~Held(i)
          /\ epoch' = [epoch EXCEPT ![i] = AcquiredEpoch(i)]
          /\ Send(i, "acquire")
          /\ left' = [left EXCEPT ![i] = CallLatency]
          /\ UNCHANGED <<pc, attempt>>
    /\ UNCHANGED <<status, skew, loop, errors, tick, release, late, lateBeat>>

(* Fault: an unconditional Update.                                          *)
CanLandUnchecked(i) == call[i] = "create" => ~status.exists

(* The server takes the write of a call: a Create needs the resource to be  *)
(* absent, an Update the version the call has read.                         *)
CanLand(i) == IF call[i] = "create" THEN ~status.exists ELSE fresh[i]

(* What becomes of the write a call sent when the caller sees an error (the *)
(* reply lost or malformed, a deadline, the process gone): it has landed,   *)
(* it is still under way, or it never lands.                                *)
Landed(i) ==
    /\ CanLand(i)
    /\ Claim(i, beat[i])
    /\ Outdate

StillUnderWay(i) ==
    /\ CanLand(i)
    /\ fresh' = [fresh EXCEPT ![i] = FALSE]
    /\ late' = [late EXCEPT ![i] = "claim"]
    /\ lateBeat' = [lateBeat EXCEPT ![i] = beat[i]]
    /\ UNCHANGED <<status, release>>

NeverLands(i) ==
    /\ fresh' = [fresh EXCEPT ![i] = FALSE]
    /\ UNCHANGED <<status, release, late, lateBeat>>

(* The write lands and its reply arrives: Acquire returns nil and main      *)
(* starts Run, or refresh returns and Run resets its error count.           *)
AcquireOK(i) ==
    /\ call[i] \in {"create", "acquire"} /\ CanLand(i)
    /\ Claim(i, beat[i])
    /\ Outdate
    /\ pc' = [pc EXCEPT ![i] = "running"]
    /\ loop' = [loop EXCEPT ![i] = TRUE]
    /\ errors' = [errors EXCEPT ![i] = 0]
    /\ tick' = [tick EXCEPT ![i] = RefreshInterval]
    /\ EndCall(i)
    /\ UNCHANGED <<skew, attempt, epoch>>

(* The write is refused because the resource has changed: a Create falls    *)
(* through to casAcquire, an Update reads again (or reports NotFound).      *)
AcquireConflict(i) ==
    /\ call[i] \in {"create", "acquire"} /\ ~CanLand(i)
    /\ IF call[i] = "acquire" /\ ~status.exists
       THEN NotFoundLoop(i)
       ELSE /\ pc' = [pc EXCEPT ![i] = "cas"]
            /\ EndCall(i)
            /\ UNCHANGED <<attempt, epoch>>
    /\ NeverLands(i)
    /\ UNCHANGED <<skew, loop, errors, tick>>

(* Acquire fails on a read.                                                 *)
AcquireReadError(i) ==
    /\ pc[i] \in {"get", "cas"} /\ call[i] = "none"
    /\ ExitUnwritten(i)
    /\ UNCHANGED <<status, skew, loop, errors, tick, fresh, release, late,
                   lateBeat>>

(* Acquire's write fails and the process ends; an id that may be on the     *)
(* resource is not used again.                                              *)
AcquireWriteError(i) ==
    /\ call[i] \in {"create", "acquire"}
    /\ \/ /\ Landed(i) \/ StillUnderWay(i)
          /\ pc' = [pc EXCEPT ![i] = "dead"]
          /\ EndCall(i)
          /\ UNCHANGED <<epoch, attempt>>
       \/ NeverLands(i) /\ ExitUnwritten(i)
    /\ UNCHANGED <<skew, loop, errors, tick>>

-----------------------------------------------------------------------------
(* Run: the heartbeat loop.                                                 *)

RefreshTick(i) ==
    /\ loop[i] /\ call[i] = "none" /\ tick[i] = 0
    /\ call' = [call EXCEPT ![i] = "read"]
    /\ tick' = [tick EXCEPT ![i] = RefreshInterval]
    /\ left' = [left EXCEPT ![i] = CallLatency]
    /\ UNCHANGED <<status, skew, pc, loop, attempt, epoch, errors, fresh, beat,
                   release, late, lateBeat>>

(* markLost: Run returns, and main cancels the root context.                *)
StopLoop(i) ==
    /\ loop' = [loop EXCEPT ![i] = FALSE]
    /\ errors' = [errors EXCEPT ![i] = 0]
    /\ tick' = [tick EXCEPT ![i] = RefreshInterval]

(* Fault: main is not told.                                                 *)
MarkLostUnheard(i) == StopLoop(i) /\ UNCHANGED pc

MarkLost(i) ==
    /\ StopLoop(i)
    /\ pc' = [pc EXCEPT ![i] = "stopping"]

(* Fault: one error too many.                                               *)
CountErrorLate(i) ==
    IF errors[i] + 1 > maxConsecutiveRefreshErrors
    THEN MarkLost(i)
    ELSE /\ errors' = [errors EXCEPT ![i] = @ + 1]
         /\ UNCHANGED <<pc, loop, tick>>

CountError(i) ==
    IF errors[i] + 1 >= maxConsecutiveRefreshErrors
    THEN MarkLost(i)
    ELSE /\ errors' = [errors EXCEPT ![i] = @ + 1]
         /\ UNCHANGED <<pc, loop, tick>>

(* refresh reads the resource and its mutator decides; without a resource   *)
(* it fails with NotFound, without an owner it claims the lease again.      *)
RefreshRead(i) ==
    /\ call[i] = "read"
    /\ \/ /\ ~status.exists
          /\ CountError(i)
          /\ EndCall(i)
          /\ UNCHANGED fresh
       \/ /\ status.exists /\ Stolen(i)
          /\ MarkLost(i)
          /\ EndCall(i)
          /\ UNCHANGED fresh
       \/ /\ status.exists /\ ~Stolen(i)
          /\ Send(i, "refresh")
          /\ UNCHANGED <<pc, loop, errors, tick, left>>
    /\ UNCHANGED <<status, skew, attempt, epoch, release, late, lateBeat>>

RefreshOK(i) ==
    /\ call[i] = "refresh" /\ fresh[i]
    /\ Claim(i, beat[i])
    /\ Outdate
    /\ errors' = [errors EXCEPT ![i] = 0]
    /\ EndCall(i)
    /\ UNCHANGED <<skew, pc, loop, attempt, epoch, tick>>

RefreshConflict(i) ==
    /\ call[i] = "refresh" /\ ~fresh[i]
    /\ IF status.exists
       THEN /\ call' = [call EXCEPT ![i] = "read"]
            /\ beat' = [beat EXCEPT ![i] = 0]
            /\ UNCHANGED <<pc, loop, errors, tick, left>>
       ELSE EndCall(i) /\ CountError(i)
    /\ NeverLands(i)
    /\ UNCHANGED <<skew, attempt, epoch>>

RefreshError(i) ==
    /\ call[i] \in {"read", "refresh"}
    /\ \/ call[i] = "refresh" /\ Landed(i)
       \/ call[i] = "refresh" /\ StillUnderWay(i)
       \/ NeverLands(i)
    /\ CountError(i)
    /\ EndCall(i)
    /\ UNCHANGED <<skew, attempt, epoch>>

-----------------------------------------------------------------------------
(* Shutdown.                                                                *)

(* What becomes of a refresh that is cut off by the end of its goroutine.   *)
CutOff(i) ==
    \/ call[i] \in {"create", "acquire", "refresh"} /\ StillUnderWay(i)
    \/ NeverLands(i)

(* A signal cancels the root context: Run and ip.Run return.                *)
Terminate(i) ==
    /\ pc[i] = "running"
    /\ pc' = [pc EXCEPT ![i] = "stopping"]
    /\ StopLoop(i)
    /\ EndCall(i)
    /\ CutOff(i)
    /\ UNCHANGED <<skew, attempt, epoch>>

(* ip.Run returns an error: the deferred release runs before the deferred   *)
(* cancel, so Run is still refreshing.                                      *)
RunFails(i) ==
    /\ pc[i] = "running"
    /\ pc' = [pc EXCEPT ![i] = "stopping"]
    /\ UNCHANGED <<status, skew, loop, attempt, epoch, errors, tick, call,
                   fresh, beat, left, release, late, lateBeat>>

(* The process is gone, and with it every goroutine.                        *)
Gone(i) ==
    /\ pc' = [pc EXCEPT ![i] = "dead"]
    /\ StopLoop(i)
    /\ EndCall(i)

(* Fault: Release does not ask whose lease it clears.                       *)
ReleaseReadAny(i) ==
    /\ pc[i] = "stopping" /\ release[i] = "no"
    /\ release' = [release EXCEPT ![i] = IF status.exists THEN "fresh" ELSE "done"]
    /\ UNCHANGED <<status, skew, pc, loop, attempt, epoch, errors, tick, call,
                   fresh, beat, left, late, lateBeat>>

(* Release reads the resource: when the lease is not its own, or there is   *)
(* no resource, there is nothing to clear.                                  *)
ReleaseRead(i) ==
    /\ pc[i] = "stopping" /\ release[i] = "no"
    /\ release' = [release EXCEPT ![i] = IF status.exists /\ status.owner = i
                                         THEN "fresh" ELSE "done"]
    /\ UNCHANGED <<status, skew, pc, loop, attempt, epoch, errors, tick, call,
                   fresh, beat, left, late, lateBeat>>

(* Release's write lands: all three annotations are deleted.  (When its     *)
(* reply is malformed Release counts it as landed, so nothing differs.)     *)
ReleaseOK(i) ==
    /\ pc[i] = "stopping" /\ release[i] = "fresh"
    /\ status' = Unclaimed
    /\ fresh' = [j \in Instance |-> FALSE]
    /\ late' = [j \in Instance |-> "none"]
    /\ lateBeat' = [j \in Instance |-> 0]
    /\ release' = [OutdatedRelease EXCEPT ![i] = "done"]
    /\ UNCHANGED <<skew, pc, loop, attempt, epoch, errors, tick, call, beat,
                   left>>

ReleaseConflict(i) ==
    /\ pc[i] = "stopping" /\ release[i] = "outdated"
    /\ release' = [release EXCEPT ![i] = "no"]
    /\ UNCHANGED <<status, skew, pc, loop, attempt, epoch, errors, tick, call,
                   fresh, beat, left, late, lateBeat>>

(* Release fails, or runs into its timeout: its write may be under way.     *)
ReleaseFails(i) ==
    /\ pc[i] = "stopping" /\ release[i] # "done"
    /\ release' = [release EXCEPT ![i] = "done"]
    /\ \/ /\ release[i] = "fresh"
          /\ late' = [late EXCEPT ![i] = "clear"]
       \/ UNCHANGED late
    /\ UNCHANGED <<status, skew, pc, loop, attempt, epoch, errors, tick, call,
                   fresh, beat, left, lateBeat>>

(* Release has returned and so does main: the process ends.                 *)
Exit(i) ==
    /\ pc[i] = "stopping" /\ release[i] = "done"
    /\ Gone(i)
    /\ CutOff(i)
    /\ UNCHANGED <<skew, attempt, epoch>>

(* The process is killed: a write of it may still be under way.             *)
Crash(i) ==
    /\ \/ pc[i] \in {"running", "stopping"}
       \/ call[i] \in {"create", "acquire"} /\ CanLand(i)
    /\ Gone(i)
    /\ \/ CutOff(i)
       \/ /\ release[i] = "fresh"
          /\ late' = [late EXCEPT ![i] = "clear"]
          /\ fresh' = [fresh EXCEPT ![i] = FALSE]
          /\ UNCHANGED <<status, release, lateBeat>>
    /\ UNCHANGED <<skew, attempt, epoch>>

-----------------------------------------------------------------------------
(* The environment.                                                         *)

(* A write whose caller gave up lands after all.                            *)
LandLate(i) ==
    /\ late[i] # "none"
    /\ IF late[i] = "claim" THEN Claim(i, lateBeat[i]) ELSE status' = Unclaimed
    /\ Outdate
    /\ UNCHANGED <<skew, pc, loop, attempt, epoch, errors, tick, call, beat,
                   left>>

(* The SDK of a running process rewrites the spec of the resource: its      *)
(* version and its update time change, its annotations do not.              *)
TouchStatus(i) ==
    /\ pc[i] = "running" /\ status.exists
    /\ status' = [status EXCEPT !.age = IF status.heartbeat = "missing"
                                        THEN 0 ELSE @]
    /\ Outdate
    /\ UNCHANGED <<skew, pc, loop, attempt, epoch, errors, tick, call, beat,
                   left>>

DeleteStatus ==
    /\ MayDelete /\ status.exists
    /\ status' = Absent
    /\ Outdate
    /\ UNCHANGED <<skew, pc, loop, attempt, epoch, errors, tick, call, beat,
                   left>>

(* Time passes, but not beyond a tick that is due nor beyond the time       *)
(* within which a call ends.                                                *)
AdvanceTime ==
    /\ \A i \in Instance :
          IF call[i] = "none" THEN loop[i] => tick[i] > 0 ELSE left[i] > 0
    /\ status' = [status EXCEPT !.age =
                     IF status.owner = NoOwner \/ status.heartbeat = "malformed"
                     THEN @ ELSE Older(@)]
    /\ beat' = [i \in Instance |->
                  IF call[i] \in {"create", "acquire", "refresh"}
                  THEN Older(beat[i]) ELSE beat[i]]
    /\ lateBeat' = [i \in Instance |->
                      IF late[i] = "claim" THEN Older(lateBeat[i]) ELSE lateBeat[i]]
    /\ tick' = [i \in Instance |->
                  IF loop[i] /\ tick[i] > 0 THEN tick[i] - 1 ELSE tick[i]]
    /\ left' = [i \in Instance |->
                  IF call[i] # "none" THEN left[i] - 1 ELSE left[i]]
    /\ UNCHANGED <<skew, pc, loop, attempt, epoch, errors, call, fresh, release,
                   late>>

-----------------------------------------------------------------------------
Acquire(i) ==
    \/ Start(i) \/ AcquireGet(i) \/ CasAcquire(i) \/ AcquireOK(i)
    \/ AcquireConflict(i) \/ AcquireReadError(i) \/ AcquireWriteError(i)

Run(i) ==
    \/ RefreshTick(i) \/ RefreshRead(i) \/ RefreshOK(i)
    \/ RefreshConflict(i) \/ RefreshError(i)

Shutdown(i) ==
    \/ Terminate(i) \/ RunFails(i) \/ Crash(i)
    \/ ReleaseRead(i) \/ ReleaseOK(i) \/ ReleaseConflict(i)
    \/ ReleaseFails(i) \/ Exit(i)

Next ==
    \/ \E i \in Instance :
          Acquire(i) \/ Run(i) \/ Shutdown(i) \/ LandLate(i) \/ TouchStatus(i)
    \/ DeleteStatus
    \/ AdvanceTime

Spec == Init /\ [][Next]_vars

-----------------------------------------------------------------------------
(* Properties.                                                              *)

Active(i) == pc[i] = "running"

(* "exactly one active provisioner per provider ID" (the package comment):  *)
(* no two processes are past Acquire and not yet shutting down.             *)
AtMostOneActive ==
    \A i, j \in Instance : Active(i) /\ Active(j) => i = j

(* What main.go builds on (acquireProviderLease): the heartbeats, the       *)
(* compare-and-swap and the retries implement the lease of module Lease, in *)
(* which the record of the owner never moves while a process is active, and *)
(* no process becomes active without it.                                    *)
LeaseService == INSTANCE Lease WITH
    Process <- Instance,
    Recorded <- Owner,
    owner <- status.owner,
    active <- {i \in Instance : Active(i)}
ImplementsLease == LeaseService!Spec

(* The relation between the tuning values, the calls and the clocks under   *)
(* which the lease keeps that promise: a holder that cannot refresh gives   *)
(* up before any other process finds its heartbeat stale.                   *)
SafeTiming ==
    StaleAfter > maxConsecutiveRefreshErrors * RefreshInterval
                 + 2 * CallLatency + MaxSkew

(* Why it holds: the argument of the proof, which TLC checks as well.       *)

(* Run's goroutine, the main goroutine and the call under way agree.        *)
Goroutines ==
    \A i \in Instance :
        /\ Active(i) => loop[i]
        /\ loop[i] => pc[i] \in {"running", "stopping"}
        /\ call[i] \in {"create", "acquire"} => pc[i] \in {"get", "cas"}
        /\ call[i] \in {"read", "refresh"} => loop[i]

(* How old the heartbeat of an active holder can be: one interval for each  *)
(* refresh that has failed and for the one to come, and the duration of     *)
(* Acquire's call.  The refresh under way counts as failed.                 *)
Intervals(n) == IF n = 0 THEN 0
                ELSE IF n = 1 THEN RefreshInterval
                ELSE IF n = 2 THEN 2 * RefreshInterval ELSE 3 * RefreshInterval
HeartbeatBound(i) ==
    CallLatency + RefreshInterval - tick[i] + Intervals(errors[i])
    + (IF call[i] = "none" THEN 0 ELSE RefreshInterval)

CallsInTime ==
    \A i \in Instance :
        /\ call[i] \in {"create", "acquire"} => beat[i] + left[i] <= CallLatency
        /\ call[i] \in {"read", "refresh"} =>
              left[i] + RefreshInterval <= CallLatency + tick[i]
        /\ call[i] = "refresh" => beat[i] + tick[i] <= RefreshInterval

(* An active process owns the lease, with a heartbeat younger than that;    *)
(* so does the write of it that may still land.                             *)
ActiveOwns ==
    \A i \in Instance : Active(i) =>
        /\ status.exists /\ status.owner = i /\ status.heartbeat = "ok"
        /\ status.age <= HeartbeatBound(i)
        /\ late[i] = "claim" => lateBeat[i] <= HeartbeatBound(i)

(* While another process is active, no claim can land, and while any        *)
(* process is active no lease can be cleared: whoever became active since   *)
(* the write was computed has outdated it.                                  *)
NoWriteAgainstActive ==
    \A i, j \in Instance : Active(j) =>
        /\ call[i] \in {"acquire", "refresh"} /\ fresh[i] => i = j
        /\ late[i] = "claim" => i = j
        /\ release[i] # "fresh"
        /\ late[i] # "clear"

(* The inductive invariant.                                                 *)
LeaseInv == Goroutines /\ CallsInTime /\ ActiveOwns /\ NoWriteAgainstActive

(* refresh's "epoch advanced under us" test (singleton.go:489) never fires  *)
(* while the resource still names the holder, or no one: whoever raises the *)
(* epoch puts its own id there in the same write.                           *)
EpochMovesWithOwner ==
    \A i \in Instance :
        loop[i] /\ status.owner \in {i, NoOwner} => status.epoch <= epoch[i]

(* Why that and the properties below hold, for any timing and although the  *)
(* resource may be deleted.  What the annotations say of their owner:       *)
RecordOfOwner ==
    /\ status.owner = NoOwner => status.epoch = 0
    /\ ~status.exists => status.owner = NoOwner
    /\ \A i \in Instance : status.owner = i =>
          status.epoch = epoch[i] /\ status.heartbeat = "ok"

(* The id of a process that is still in Acquire has never been written, and *)
(* no write of it is left behind by an earlier attempt.                     *)
AcquiringUnwritten ==
    \A i \in Instance : pc[i] \in {"new", "get", "cas"} =>
        status.owner # i /\ late[i] # "claim"

(* What the mutator of a write that takes the lease has found, and what is  *)
(* still so as long as the write can land.                                  *)
MayTake(i) ==
    /\ epoch[i] = status.epoch + 1
    /\ status.owner \in Instance => leaseAge(i) >= StaleAfter

(* A claim that can still land was computed from the resource as it is now. *)
ClaimsCurrent ==
    \A i \in Instance :
        /\ call[i] = "acquire" /\ fresh[i] => MayTake(i)
        /\ call[i] = "refresh" /\ fresh[i] =>
              \/ status.owner = NoOwner
              \/ status.owner = i /\ beat[i] <= status.age
        /\ late[i] = "claim" =>
              \/ status.owner = NoOwner
              \/ status.owner = i /\ lateBeat[i] <= status.age
              \/ status.owner # i /\ MayTake(i)

(* So was a Release.                                                        *)
ClearsCurrent ==
    \A i \in Instance :
        release[i] = "fresh" \/ late[i] = "clear" =>
           status.owner = i /\ pc[i] \in {"stopping", "dead"}

(* Compare-and-swap does its work: no write that can still land, however    *)
(* late, rests on a state of the resource that is gone.                     *)
CASInv ==
    Goroutines /\ RecordOfOwner /\ AcquiringUnwritten /\ ClaimsCurrent
      /\ ClearsCurrent

(* Whatever the clocks and the calls do, the lease of one process passes to *)
(* another only if, by the taker's clock, its heartbeat is at least         *)
(* StaleAfter old at the moment the write lands, not just when the taker    *)
(* read it.                                                                 *)
TakeoverOnlyWhenStale ==
    [][\A i, j \in Instance :
          i # j /\ status.owner = j /\ status'.owner = i
             => leaseAge(i) >= StaleAfter]_vars

(* A takeover from a holder takes the next epoch, even when the taker       *)
(* computed it before a conflict, or its Create lost a race.                *)
TakeoverBumpsEpoch ==
    [][\A i \in Instance :
          status.owner \notin {i, NoOwner} /\ status'.owner = i
             => status'.epoch = status.epoch + 1]_vars

(* Release clears its own lease only: the annotations of a process that     *)
(* stays active are never cleared, not even by a Release that is late.      *)
HolderNotCleared ==
    [][\A i \in Instance :
          Active(i) /\ Active(i)' /\ status.owner = i /\ status'.exists
             => status'.owner # NoOwner]_vars

(* The heartbeat of a holder never goes back in time, although an earlier   *)
(* refresh may land after its caller has given up and tried again.          *)
HeartbeatNeverGoesBack ==
    [][\A i \in Instance :
          status.owner = i /\ status'.owner = i
             => status'.age <= Older(status.age)]_vars

(* Two processes do not stay active side by side: a holder whose lease was  *)
(* taken either stops, because its next refreshes find the other owner or   *)
(* fail, or it finds the lease given back.                                  *)
SplitBrainEnds ==
    \A i \in Instance :
        (Active(i) /\ status.owner \notin {i, NoOwner}) ~>
        (~Active(i) \/ status.owner \in {i, NoOwner})

(* While a process can still be started, the provider does not stay without *)
(* an active one: leases left by crashed processes and by writes that       *)
(* landed late go stale and are taken over.                                 *)
Successor ==
    (\E i \in Instance : pc[i] = "new") ~>
    \/ \E i \in Instance : Active(i)
    \/ \A i \in Instance : pc[i] \in {"stopping", "dead"}

(* Processes are restarted and run, time passes, calls end, and the calls   *)
(* of Acquire do not fail every time.  A Release ends, if only by its       *)
(* timeout.  Nothing makes a process shut down.                             *)
Fairness ==
    /\ WF_vars(AdvanceTime)
    /\ \A i \in Instance :
          /\ WF_vars(Start(i))
          /\ SF_vars(AcquireGet(i))
          /\ SF_vars(CasAcquire(i))
          /\ SF_vars(AcquireOK(i))
          /\ WF_vars(AcquireConflict(i))
          /\ WF_vars(Run(i))
          /\ WF_vars(ReleaseFails(i))
          /\ WF_vars(Exit(i))

FairSpec == Spec /\ Fairness
=============================================================================
