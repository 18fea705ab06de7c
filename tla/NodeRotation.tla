---------------------------- MODULE NodeRotation ----------------------------
(***************************************************************************)
(* Rotation of one MachineSet by internal/noderotation, together with the  *)
(* writers it shares the set with: the scale-up RPC of                     *)
(* internal/autoscaler, the operator, and Omni's MachineRequestSet         *)
(* controller, which turns MachineCount into MachineRequests.              *)
(*                                                                         *)
(* A reconciler tick is Discover (three reads of Omni that are not one     *)
(* snapshot: classes, sets, requests), Plan (a pure function of what was   *)
(* read) and Execute (one or three writes).  Other writers act between     *)
(* any two of those.  A write of the set is                                *)
(* safe.StateUpdateWithConflicts, which re-runs its callback until the     *)
(* compare-and-swap succeeds: one atomic read-modify-write.                *)
(*                                                                         *)
(* The rotation-state annotation is the age of its timestamp, counted up   *)
(* to Expired; an absent annotation reads like an expired one everywhere,  *)
(* so Expired stands for both.  Generation hashes are model values:        *)
(* equality is all that is ever asked of them.                             *)
(***************************************************************************)
EXTENDS Integers, FiniteSets, Sequences

CONSTANTS
    Reconciler,     \* the node-rotation processes (one, when the lease holds)
    Gen,            \* generations, the hashes of a class's auto_provision block
    Strategy,       \* the strategies the operator sets, of AnyStrategy
    Id,             \* ids of MachineRequests
    NoId,           \* no request
    InitialCount,   \* MachineCount to begin with
    MaxCount,       \* the largest MachineCount asked for: autoscale-max, and
                    \* the largest value an operator writes
    MinHealthy,     \* Config.MinHealthy
    EngineTTL,      \* Engine.lockTTL
    ScalerTTL,      \* autoscaler's rotationLockTTL
    TickInterval,   \* longest time from one finished tick to the next
    MaxEdits,       \* bound on the operator's edits
    StrategyEdits,  \* whether the operator switches strategies
    MidCycleEdits,  \* whether the operator edits a class during a surge cycle
    CountEdits,     \* whether the operator edits MachineCount
    Scaler,         \* whether the autoscaler is deployed
    MayStall,       \* whether calls fail and reconcilers crash or fall behind
    MayFail         \* whether provisioning may fail

(* The strategies of annotations.go, and "off": not opted in, or refused by *)
(* the parser or by the role check.                                         *)
AnyStrategy == {"in-place", "surge", "off"}

Distinct(ids) == \A i, j \in DOMAIN ids : i # j => ids[i] # ids[j]

ASSUME RotationAssumption ==
    /\ Gen # {}
    /\ Strategy # {} /\ Strategy \subseteq AnyStrategy
    /\ NoId \notin Id
    /\ \E ids \in [1 .. InitialCount -> Id] : Distinct(ids)
    /\ InitialCount \in Nat /\ MaxCount \in Nat /\ InitialCount <= MaxCount
    /\ MinHealthy \in Nat
    /\ EngineTTL \in Nat \ {0} /\ ScalerTTL \in Nat \ {0}
    /\ TickInterval \in Nat \ {0}
    /\ MaxEdits \in Nat
    /\ {StrategyEdits, MidCycleEdits, CountEdits, Scaler, MayStall, MayFail}
          \subseteq BOOLEAN

VARIABLES
    class,     \* the MachineClass: generation of its spec, class-generation
               \* annotation, rotation strategy
    set,       \* the MachineSet: MachineCount, rotation-state lock,
               \* surge-phase annotation and the OriginalCount in it
    requests,  \* its MachineRequests, oldest first
    pc,        \* where each reconciler is in its tick
    seenClass, \* what Discover read of the class
    seenSet,   \* what Discover read of the set
    plan,      \* the Decision being executed
    idle,      \* time since each reconciler last finished a tick
    group,     \* the NodeGroup a scale-up RPC has discovered
    edits,     \* how many edits the operator has made
    nominal    \* history: the count operator and autoscaler asked for

vars == <<class, set, requests, pc, seenClass, seenSet, plan, idle, group,
          edits, nominal>>

Expired == IF EngineTTL > ScalerTTL THEN EngineTTL ELSE ScalerTTL
Older(age) == IF age < Expired THEN age + 1 ELSE age

Phase == {"none", "wait-up", "wait-down"}
Stage == {"unknown", "provisioning", "provisioned", "failed"}
Pc == {"idle", "class", "set", "planned", "locked", "torn"}
Action == {"wait", "stamp", "teardown", "surge-up", "surge-down",
           "complete", "aborted"}

Class == [gen : Gen, stamped : Gen, strategy : AnyStrategy]
Set == [count : Nat, lock : 0 .. Expired, phase : Phase, orig : Nat]
Request == [id : Id, gen : Gen, stage : Stage]
Decision == [action : Action, gen : Gen, target : Id \cup {NoId},
             orig : Nat, inSurge : BOOLEAN]
NodeGroup == [size : Nat, max : Nat, delta : Nat]

(* What a variable holds while it means nothing.                            *)
AnyGen == CHOOSE g \in Gen : TRUE
NoGroup == [size |-> 0, max |-> 0, delta |-> 0]
NoClass == [gen |-> AnyGen, stamped |-> AnyGen, strategy |-> "off"]
NoSet == [count |-> 0, lock |-> Expired, phase |-> "none", orig |-> 0]
NoPlan == [action |-> "wait", gen |-> AnyGen, target |-> NoId, orig |-> 0,
           inSurge |-> FALSE]

TypeOK ==
    /\ class \in Class
    /\ set \in Set
    /\ requests \in Seq(Request)
    /\ pc \in [Reconciler -> Pc]
    /\ seenClass \in [Reconciler -> Class]
    /\ seenSet \in [Reconciler -> Set]
    /\ plan \in [Reconciler -> Decision]
    /\ idle \in [Reconciler -> 0 .. TickInterval]
    /\ group \in NodeGroup
    /\ edits \in 0 .. MaxEdits
    /\ nominal \in Nat

InitialIds == CHOOSE ids \in [1 .. InitialCount -> Id] : Distinct(ids)

(* A set at rest: as many provisioned members as it asks for, all of the    *)
(* class's generation, which is stamped.                                    *)
Init ==
    /\ \E g \in Gen, s \in Strategy :
          /\ class = [gen |-> g, stamped |-> g, strategy |-> s]
          /\ requests = [i \in 1 .. InitialCount |->
                           [id |-> InitialIds[i], gen |-> g, stage |-> "provisioned"]]
    /\ set = [count |-> InitialCount, lock |-> Expired, phase |-> "none",
              orig |-> 0]
    /\ pc = [r \in Reconciler |-> "idle"]
    /\ seenClass = [r \in Reconciler |-> NoClass]
    /\ seenSet = [r \in Reconciler |-> NoSet]
    /\ plan = [r \in Reconciler |-> NoPlan]
    /\ idle = [r \in Reconciler |-> 0]
    /\ group = NoGroup
    /\ edits = 0
    /\ nominal = InitialCount

-----------------------------------------------------------------------------
(* What Plan asks of the requests it was given.                             *)

StaleRequests(reqs, gen) == {i \in DOMAIN reqs : reqs[i].gen # gen}
Provisioned(reqs) == {i \in DOMAIN reqs : reqs[i].stage = "provisioned"}
FreshCount(reqs, gen) ==
    Cardinality(Provisioned(reqs) \ StaleRequests(reqs, gen))
hasInFlightProvisioning(reqs) ==
    \E i \in DOMAIN reqs : reqs[i].stage = "provisioning"

(* The requests are sorted by age, so the oldest stale one comes first.     *)
OldestStale(reqs, gen) ==
    LET stale == StaleRequests(reqs, gen)
    IN  reqs[CHOOSE i \in stale : \A j \in stale : i <= j].id

HasActiveLock(s) == s.lock < EngineTTL
isRotationLockActive(s) == s.lock < ScalerTTL

(* planInPlace: tear down the oldest stale member once nothing is           *)
(* provisioning and the fresh members alone meet the floor.                 *)
planInPlace(reqs, gen) ==
    IF \/ StaleRequests(reqs, gen) = {}
       \/ hasInFlightProvisioning(reqs)
       \/ FreshCount(reqs, gen) < MinHealthy
    THEN [action |-> "wait", target |-> NoId]
    ELSE [action |-> "teardown", target |-> OldestStale(reqs, gen)]

(* planSurge, idle: start a cycle when enough members serve, old or new.    *)
planSurgeIdle(reqs, gen) ==
    IF \/ StaleRequests(reqs, gen) = {}
       \/ Cardinality(Provisioned(reqs)) < MinHealthy
    THEN "wait"
    ELSE "surge-up"

(* Fault: the replacement is not counted.                                   *)
expectedFreshLow(s, reqs, gen) ==
    LET n == s.orig - Cardinality(StaleRequests(reqs, gen))
    IN  IF n < 1 THEN 1 ELSE n

(* planSurge, wait-up: how many fresh members it takes before the count     *)
(* may drop again.                                                          *)
expectedFresh(s, reqs, gen) ==
    LET n == s.orig - Cardinality(StaleRequests(reqs, gen)) + 1
    IN  IF n < 1 THEN 1 ELSE n

planWaitUp(s, reqs, gen) ==
    IF s.count # s.orig + 1 THEN "aborted"
    ELSE IF FreshCount(reqs, gen) < expectedFresh(s, reqs, gen) THEN "wait"
    ELSE "surge-down"

(* Fault: wait-down waits for one removal too many.                         *)
planWaitDownOn(s, reqs) ==
    IF s.count # s.orig THEN "aborted"
    ELSE IF Len(reqs) >= s.orig THEN "wait" ELSE "complete"

(* Fault: wait-down does not wait for the removal.                          *)
planWaitDownAtOnce(s, reqs) ==
    IF s.count # s.orig THEN "aborted" ELSE "complete"

planWaitDown(s, reqs) ==
    IF s.count # s.orig THEN "aborted"
    ELSE IF Len(reqs) > s.orig THEN "wait" ELSE "complete"

planSurge(s, reqs, gen) ==
    IF s.phase = "none" THEN planSurgeIdle(reqs, gen)
    ELSE IF s.phase = "wait-up" THEN planWaitUp(s, reqs, gen)
    ELSE planWaitDown(s, reqs)

(* Plan.  The class is stamped before anything else; a lock without a       *)
(* surge phase is another step's.                                           *)
PlanAction(c, s, reqs) ==
    IF c.stamped # c.gen THEN [action |-> "stamp", target |-> NoId]
    ELSE IF HasActiveLock(s) /\ s.phase = "none"
         THEN [action |-> "wait", target |-> NoId]
    ELSE IF c.strategy = "in-place" THEN planInPlace(reqs, c.gen)
    ELSE [action |-> planSurge(s, reqs, c.gen), target |-> NoId]

(* The Decision.  OriginalCount is taken from the count Discover read when  *)
(* a cycle starts, and handed on from the annotation afterwards.            *)
Plan(c, s, reqs) ==
    LET p == PlanAction(c, s, reqs)
    IN  [action  |-> p.action,
         gen     |-> c.gen,
         target  |-> p.target,
         orig    |-> IF s.phase = "none" THEN s.count ELSE s.orig,
         inSurge |-> s.phase # "none"]

-----------------------------------------------------------------------------
(* The reconciler: one tick.                                                *)

(* Discover, first read.  A class that is not a candidate ends the tick.    *)
ReadClass(r) ==
    /\ pc[r] = "idle"
    /\ IF class.strategy = "off"
       THEN /\ idle' = [idle EXCEPT ![r] = 0]
            /\ UNCHANGED <<pc, seenClass>>
       ELSE /\ pc' = [pc EXCEPT ![r] = "class"]
            /\ seenClass' = [seenClass EXCEPT ![r] = class]
            /\ UNCHANGED idle
    /\ UNCHANGED <<class, set, requests, seenSet, plan, group, edits, nominal>>

(* Discover, second read.                                                   *)
ReadSet(r) ==
    /\ pc[r] = "class"
    /\ pc' = [pc EXCEPT ![r] = "set"]
    /\ seenSet' = [seenSet EXCEPT ![r] = set]
    /\ UNCHANGED <<class, set, requests, seenClass, plan, idle, group, edits,
                   nominal>>

(* Discover, third read, and Plan.  When the listing of stages fails every  *)
(* request is taken to be UNKNOWN.  The stages are listed just before the   *)
(* requests; a stage that changes in between is as if it changed after.     *)
(* Plan waits for nothing, so it is evaluated in the same step.             *)
Observed(listed) ==
    [i \in DOMAIN requests |->
       [requests[i] EXCEPT !.stage = IF listed THEN @ ELSE "unknown"]]

ReadRequests(r, listed) ==
    /\ listed \/ MayStall
    /\ pc[r] = "set"
    /\ pc' = [pc EXCEPT ![r] = "planned"]
    /\ plan' = [plan EXCEPT ![r] =
                  Plan(seenClass[r], seenSet[r], Observed(listed))]
    /\ seenClass' = [seenClass EXCEPT ![r] = NoClass]
    /\ seenSet' = [seenSet EXCEPT ![r] = NoSet]
    /\ UNCHANGED <<class, set, requests, idle, group, edits, nominal>>

Executing(r, action) == pc[r] = "planned" /\ plan[r].action = action

(* The end of a tick.  What it read and decided is garbage from here on.    *)
Finish(r) ==
    /\ pc' = [pc EXCEPT ![r] = "idle"]
    /\ idle' = [idle EXCEPT ![r] = 0]
    /\ plan' = [plan EXCEPT ![r] = NoPlan]
    /\ seenClass' = [seenClass EXCEPT ![r] = NoClass]
    /\ seenSet' = [seenSet EXCEPT ![r] = NoSet]
    /\ UNCHANGED <<group, edits, nominal>>

(* Fault: a wait leaves the lock alone.                                     *)
RefreshLockNever(r) ==
    /\ Executing(r, "wait")
    /\ Finish(r)
    /\ UNCHANGED <<class, set, requests>>

(* Nothing to do: refresh the lock if Discover saw a cycle under way.       *)
RefreshLock(r) ==
    /\ Executing(r, "wait")
    /\ Finish(r)
    /\ set' = IF plan[r].inSurge THEN [set EXCEPT !.lock = 0] ELSE set
    /\ UNCHANGED <<class, requests>>

stampGeneration(r) ==
    /\ Executing(r, "stamp")
    /\ Finish(r)
    /\ class' = [class EXCEPT !.stamped = plan[r].gen]
    /\ UNCHANGED <<set, requests>>

(* Fault: two writes, the second of which may be lost.                      *)
withSurgeStepTwice(phase, orig, delta) ==
    \E d \in {0, delta} :
        set' = [count |-> set.count + d, lock |-> 0, phase |-> phase,
                orig |-> orig]

(* withSurgeStep: lock, phase and count in one write.  The phase comes from *)
(* the Decision, the count from the set as it is now.                       *)
withSurgeStep(phase, orig, delta) ==
    set' = [count |-> set.count + delta, lock |-> 0, phase |-> phase,
            orig |-> orig]

SurgeUp(r) ==
    /\ Executing(r, "surge-up")
    /\ Finish(r)
    /\ withSurgeStep("wait-up", plan[r].orig, 1)
    /\ UNCHANGED <<class, requests>>

(* Fault: the count may drop below zero.                                    *)
SurgeDownUnchecked(r) ==
    /\ Executing(r, "surge-down")
    /\ Finish(r)
    /\ withSurgeStep("wait-down", plan[r].orig, -1)
    /\ UNCHANGED <<class, requests>>

SurgeDown(r) ==
    /\ Executing(r, "surge-down")
    /\ Finish(r)
    /\ IF set.count - 1 < 0
       THEN UNCHANGED set
       ELSE withSurgeStep("wait-down", plan[r].orig, -1)
    /\ UNCHANGED <<class, requests>>

clearSurgeAndLock(r) ==
    /\ Executing(r, "complete") \/ Executing(r, "aborted")
    /\ Finish(r)
    /\ set' = [set EXCEPT !.phase = "none", !.orig = 0, !.lock = Expired]
    /\ UNCHANGED <<class, requests>>

(* withLock around an in-place teardown: take the lock, destroy, release.   *)
setLock(r) ==
    /\ Executing(r, "teardown")
    /\ pc' = [pc EXCEPT ![r] = "locked"]
    /\ set' = [set EXCEPT !.lock = 0]
    /\ UNCHANGED <<class, requests, seenClass, seenSet, plan, idle, group,
                   edits, nominal>>

Without(s, i) ==
    [j \in 1 .. Len(s) - 1 |-> IF j < i THEN s[j] ELSE s[j + 1]]

teardownRequest(r) ==
    /\ pc[r] = "locked"
    /\ \E i \in DOMAIN requests :
          /\ requests[i].id = plan[r].target
          /\ requests' = Without(requests, i)
    /\ pc' = [pc EXCEPT ![r] = "torn"]
    /\ UNCHANGED <<class, set, seenClass, seenSet, plan, idle, group, edits,
                   nominal>>

(* The request is gone already: an error, which leaves the lock behind.     *)
teardownNotFound(r) ==
    /\ pc[r] = "locked"
    /\ \A i \in DOMAIN requests : requests[i].id # plan[r].target
    /\ Finish(r)
    /\ UNCHANGED <<class, set, requests>>

clearLock(r) ==
    /\ pc[r] = "torn"
    /\ Finish(r)
    /\ set' = [set EXCEPT !.lock = Expired]
    /\ UNCHANGED <<class, requests>>

(* A call fails, or the process dies: whatever was not written yet is not   *)
(* written.  The next tick starts from what Omni holds.                     *)
Abandon(r) ==
    /\ MayStall
    /\ pc[r] # "idle"
    /\ Finish(r)
    /\ UNCHANGED <<class, set, requests>>

Discover(r) ==
    ReadClass(r) \/ ReadSet(r) \/ \E listed \in BOOLEAN : ReadRequests(r, listed)
Execute(r) ==
    \/ RefreshLock(r) \/ stampGeneration(r)
    \/ SurgeUp(r) \/ SurgeDown(r) \/ clearSurgeAndLock(r)
    \/ setLock(r) \/ teardownRequest(r) \/ teardownNotFound(r) \/ clearLock(r)

-----------------------------------------------------------------------------
(* The autoscaler: NodeGroupIncreaseSize.                                   *)

(* Discover pins a locked group at its current size; a delta the group has  *)
(* no room for is rejected at once and leaves no trace.                     *)
ScaleDiscover(delta) ==
    /\ Scaler
    /\ group = NoGroup
    /\ LET max == IF isRotationLockActive(set) THEN set.count ELSE MaxCount
       IN  /\ set.count + delta <= max
           /\ group' = [size |-> set.count, max |-> max, delta |-> delta]
    /\ UNCHANGED <<class, set, requests, pc, seenClass, seenSet, plan, idle,
                   edits, nominal>>

(* Fault: the bound is not looked at again.                                 *)
IncreaseMachineCountUnchecked ==
    /\ group # NoGroup
    /\ ~isRotationLockActive(set)
    /\ set' = [set EXCEPT !.count = @ + group.delta]
    /\ nominal' = nominal + group.delta
    /\ group' = NoGroup
    /\ UNCHANGED <<class, requests, pc, seenClass, seenSet, plan, idle, edits>>

(* IncreaseMachineCount: the lock and the bound are looked at again in the  *)
(* callback of the write.                                                   *)
IncreaseMachineCount ==
    /\ group # NoGroup
    /\ ~isRotationLockActive(set)
    /\ set.count + group.delta <= group.max
    /\ set' = [set EXCEPT !.count = @ + group.delta]
    /\ nominal' = nominal + group.delta
    /\ group' = NoGroup
    /\ UNCHANGED <<class, requests, pc, seenClass, seenSet, plan, idle, edits>>

(* Denied by the capacity gate, deferred for the lock, out of bounds, or    *)
(* failed: nothing is written.                                              *)
ScaleRejected ==
    /\ group # NoGroup
    /\ group' = NoGroup
    /\ UNCHANGED <<class, set, requests, pc, seenClass, seenSet, plan, idle,
                   edits, nominal>>

-----------------------------------------------------------------------------
(* The operator.                                                            *)

MayEdit == edits < MaxEdits /\ edits' = edits + 1

EditClass(g) ==
    /\ MayEdit
    /\ MidCycleEdits \/ set.phase = "none"
    /\ g # class.gen
    /\ class' = [class EXCEPT !.gen = g]
    /\ UNCHANGED <<set, requests, pc, seenClass, seenSet, plan, idle, group,
                   nominal>>

EditStrategy(s) ==
    /\ StrategyEdits
    /\ MayEdit
    /\ MidCycleEdits \/ set.phase = "none"
    /\ s # class.strategy
    /\ class' = [class EXCEPT !.strategy = s]
    /\ UNCHANGED <<set, requests, pc, seenClass, seenSet, plan, idle, group,
                   nominal>>

EditCount(n) ==
    /\ CountEdits
    /\ MayEdit
    /\ n # set.count
    /\ set' = [set EXCEPT !.count = n]
    /\ nominal' = n
    /\ UNCHANGED <<class, requests, pc, seenClass, seenSet, plan, idle, group>>

-----------------------------------------------------------------------------
(* Omni: the MachineRequestSet controller brings the number of requests to  *)
(* MachineCount, creating at the class's generation and removing the oldest *)
(* first, and the provider provisions them.                                 *)

UsedIds == {requests[i].id : i \in DOMAIN requests}
             \cup {plan[r].target : r \in Reconciler}

CreateRequest ==
    /\ Len(requests) < set.count
    /\ Id \ UsedIds # {}
    /\ requests' = Append(requests,
                          [id    |-> CHOOSE id \in Id \ UsedIds : TRUE,
                           gen   |-> class.gen,
                           stage |-> "unknown"])
    /\ UNCHANGED <<class, set, pc, seenClass, seenSet, plan, idle, group,
                   edits, nominal>>

RemoveOldest ==
    /\ Len(requests) > set.count
    /\ requests' = Tail(requests)
    /\ UNCHANGED <<class, set, pc, seenClass, seenSet, plan, idle, group,
                   edits, nominal>>

ChangeStage(from, to) ==
    /\ \E i \in DOMAIN requests :
          /\ requests[i].stage = from
          /\ requests' = [requests EXCEPT ![i].stage = to]
    /\ UNCHANGED <<class, set, pc, seenClass, seenSet, plan, idle, group,
                   edits, nominal>>

StartProvisioning == ChangeStage("unknown", "provisioning")
Provision == ChangeStage("provisioning", "provisioned")
FailProvisioning == MayFail /\ ChangeStage("provisioning", "failed")

(* The SDK runs the steps of a failed request again.                        *)
RetryProvisioning == ChangeStage("failed", "provisioning")

-----------------------------------------------------------------------------
(* Time ages the lock, also in the copies Discover took.  Unless it may     *)
(* stall, a reconciler finishes a tick every TickInterval.                  *)
AdvanceTime ==
    /\ MayStall \/ \A r \in Reconciler : idle[r] < TickInterval
    /\ set' = [set EXCEPT !.lock = Older(@)]
    /\ seenSet' = [r \in Reconciler |-> [seenSet[r] EXCEPT !.lock = Older(@)]]
    /\ idle' = IF MayStall THEN idle
               ELSE [r \in Reconciler |-> idle[r] + 1]
    /\ <<set, seenSet, idle>>' # <<set, seenSet, idle>>
    /\ UNCHANGED <<class, requests, pc, seenClass, plan, group, edits, nominal>>

Operator ==
    \/ \E g \in Gen : EditClass(g)
    \/ \E s \in Strategy : EditStrategy(s)
    \/ \E n \in 0 .. MaxCount : EditCount(n)

Autoscaler ==
    \/ \E delta \in 1 .. MaxCount : ScaleDiscover(delta)
    \/ IncreaseMachineCount
    \/ ScaleRejected

Omni == CreateRequest \/ RemoveOldest
          \/ StartProvisioning \/ Provision
          \/ FailProvisioning \/ RetryProvisioning

Next ==
    \/ \E r \in Reconciler : Discover(r) \/ Execute(r) \/ Abandon(r)
    \/ Autoscaler
    \/ Operator
    \/ Omni
    \/ AdvanceTime

Spec == Init /\ [][Next]_vars

(* Omni and the provider get their work done, and what is tried again and   *)
(* again does not fail every time.  A reconciler goes on ticking            *)
(* (Run), and no call fails, and no process dies, at the same point of      *)
(* every tick for ever: strong fairness of each step that Abandon can       *)
(* preempt.                                                                 *)
Fairness ==
    /\ \A r \in Reconciler :
          /\ WF_vars(ReadClass(r))
          /\ SF_vars(ReadSet(r)) /\ SF_vars(ReadRequests(r, TRUE))
          /\ SF_vars(RefreshLock(r)) /\ SF_vars(stampGeneration(r))
          /\ SF_vars(SurgeUp(r)) /\ SF_vars(SurgeDown(r))
          /\ SF_vars(clearSurgeAndLock(r))
          /\ SF_vars(setLock(r)) /\ SF_vars(clearLock(r))
          /\ SF_vars(teardownRequest(r)) /\ SF_vars(teardownNotFound(r))
    /\ WF_vars(CreateRequest) /\ WF_vars(RemoveOldest)
    /\ WF_vars(StartProvisioning)
    /\ SF_vars(Provision) /\ WF_vars(RetryProvisioning)
    /\ WF_vars(AdvanceTime)

FairSpec == Spec /\ Fairness

-----------------------------------------------------------------------------
(* Properties.                                                              *)

SoleReconciler == \A r, s \in Reconciler : r = s

(* withSurgeStep and clearSurgeAndLock account for every change the engine  *)
(* makes to MachineCount: while the engine is the only writer of the count, *)
(* it is what was asked for, plus one exactly while the surge-phase         *)
(* annotation says wait-up, and the annotation remembers the right count,   *)
(* whatever crashes, failed calls, expired locks and edits of the class     *)
(* come in between.                                                         *)
CountAccounted ==
    /\ set.count = nominal + (IF set.phase = "wait-up" THEN 1 ELSE 0)
    /\ set.phase # "none" => set.orig = nominal

(* AbortKindCountDriftWaitUp and ...WaitDown mean what actions.go says of   *)
(* them, "operator edit or external writer": while the engine is the only   *)
(* writer of the count, Plan never aborts a cycle.                          *)
AbortMeansForeignWriter == \A r \in Reconciler : plan[r].action # "aborted"

(* However the engine's surge steps interleave with the autoscaler's and    *)
(* the operator's writes of the count, what a lost update leaves behind     *)
(* does not add up: the count is never more than one above the largest      *)
(* count asked for at rest, and two in wait-up.                             *)
SurgeOvershootBounded ==
    set.count <= MaxCount + (IF set.phase = "wait-up" THEN 2 ELSE 1)

(* min-healthy: a removal the rotation causes, an in-place teardown or the  *)
(* controller's answer to SurgeDown, leaves the floor standing.             *)
FloorRespected ==
    [][Len(requests') < Len(requests)
         => Cardinality(Provisioned(requests')) >= MinHealthy]_vars

(* The ticks, the annotations and the controller implement the rolling      *)
(* replacement of module RollingSet, "only when min-healthy capacity        *)
(* allows" (docs/node-rotation.md:22): each surge cycle asks for one member *)
(* more, then, while the floor has one to spare, for one less, and ends     *)
(* when that one has left (planSurge), in this order and once each,         *)
(* wherever ticks end and restart.                                          *)
RollingService == INSTANCE RollingSet WITH
    Floor <- MinHealthy,
    Nominal <- InitialCount,
    cycle <- set.phase,
    asked <- set.count,
    members <- Len(requests),
    serving <- Cardinality(Provisioned(requests))
ImplementsRollingSet == RollingService!Spec

(* The lock is refreshed often enough for the autoscaler to stay paused     *)
(* from SurgeUp until the cycle ends.                                       *)
LockCoversCycle == set.phase # "none" => isRotationLockActive(set)

(* The set is whole, and nothing of a cycle is left behind.                 *)
AtRest ==
    /\ Provisioned(requests) = 1 .. set.count
    /\ set.count = nominal
    /\ set.phase = "none"
    /\ ~isRotationLockActive(set)

Rotated == AtRest /\ StaleRequests(requests, class.gen) = {}

(* planInPlace counts fresh members only: it does not begin before          *)
(* MinHealthy of them serve, however many old ones do.                      *)
HeldByFloor ==
    /\ AtRest
    /\ class.strategy = "in-place"
    /\ FreshCount(requests, class.gen) < MinHealthy

(* A surge cycle whose class was switched to in-place before its first      *)
(* write landed: nothing but planSurge looks at the phase again.            *)
Interrupted == class.strategy = "in-place" /\ set.phase # "none"

(* Rotation ends: once the operator stops editing, every member is of the   *)
(* class's generation, the count is what was asked for and the autoscaler   *)
(* is no longer paused, although ticks, processes and replacements fail.    *)
(* With strategy surge this is always so; the in-place strategy has two     *)
(* exceptions, what its floor keeps from starting, which leaves the set     *)
(* whole, and a surge cycle it does not know how to end.                    *)
EventuallyRotated == <>[](Rotated \/ HeldByFloor \/ Interrupted)
=============================================================================
