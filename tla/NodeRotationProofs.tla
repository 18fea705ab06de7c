------------------------- MODULE NodeRotationProofs -------------------------
(* Proofs about NodeRotation for every value of its constants.              *)
EXTENDS NodeRotation, WellFoundedInduction, NaturalsInduction, TLAPS

(* A non-empty set of naturals has a least element.                         *)
LEMMA LeastElement ==
    ASSUME NEW S \in SUBSET Nat, S # {}
    PROVE  \E i \in S : \A j \in S : i <= j
<1>1. IsWellFoundedOn(OpToRel(<, Nat), Nat)
  BY NatLessThanWellFounded
<1>2. PICK i \in S : \A j \in S : ~(<<j, i>> \in OpToRel(<, Nat))
  BY <1>1, WFMin
<1>3. \A j \in S : ~(j < i)
  BY <1>2 DEF OpToRel
<1> QED
  BY <1>3

(* The victim OldestStale picks is one of the requests.                     *)
LEMMA OldestStaleIsRequest ==
    ASSUME NEW reqs \in Seq(Request), NEW gen, StaleRequests(reqs, gen) # {}
    PROVE  OldestStale(reqs, gen) \in Id
<1> DEFINE stale == StaleRequests(reqs, gen)
<1>1. stale \in SUBSET Nat /\ \A i \in stale : reqs[i] \in Request
  BY DEF StaleRequests
<1>2. \E i \in stale : \A j \in stale : i <= j
  BY <1>1, LeastElement
<1>3. (CHOOSE i \in stale : \A j \in stale : i <= j) \in stale
  BY <1>2
<1> QED
  BY <1>1, <1>3 DEF OldestStale, Request

(* Removing one member of a sequence of requests.                           *)
LEMMA WithoutType ==
    ASSUME NEW s \in Seq(Request), NEW i \in DOMAIN s
    PROVE  Without(s, i) \in Seq(Request)
<1>1. Len(s) \in Nat /\ Len(s) >= 1 /\ i \in 1 .. Len(s)
  OBVIOUS
<1>2. \A j \in 1 .. Len(s) - 1 :
         (IF j < i THEN s[j] ELSE s[j + 1]) \in Request
  BY <1>1
<1> QED
  BY <1>1, <1>2 DEF Without

(* What Plan decides is a Decision.                                         *)
LEMMA PlanType ==
    ASSUME NEW c \in Class, NEW s \in Set, NEW reqs \in Seq(Request)
    PROVE  Plan(c, s, reqs) \in Decision
<1> USE DEF Class, Set, Phase
<1>1. planInPlace(reqs, c.gen) \in [action : Action, target : Id \cup {NoId}]
  BY OldestStaleIsRequest DEF planInPlace, Action
<1>2. planSurge(s, reqs, c.gen) \in Action
  BY DEF planSurge, planSurgeIdle, planWaitUp, planWaitDown, Action
<1>3. PlanAction(c, s, reqs) \in [action : Action, target : Id \cup {NoId}]
  BY <1>1, <1>2 DEF PlanAction, Action
<1> QED
  BY <1>3 DEF Plan, Decision

(* The constants, as the steps below need them.                             *)
LEMMA NatConstants ==
    /\ Expired \in Nat
    /\ TickInterval \in Nat
    /\ MaxCount \in Nat
    /\ MaxEdits \in Nat
  BY RotationAssumption DEF Expired

LEMMA OlderType == \A s \in Set : [s EXCEPT !.lock = Older(@)] \in Set
  BY NatConstants DEF Set, Older

LEMMA Defaults ==
    /\ NoClass \in Class
    /\ NoSet \in Set
    /\ NoPlan \in Decision
    /\ NoGroup \in NodeGroup
<1>1. AnyGen \in Gen
  BY RotationAssumption DEF AnyGen
<1> QED
  BY <1>1, NatConstants
  DEF NoClass, NoSet, NoPlan, NoGroup, Class, Set, Decision, NodeGroup,
      AnyStrategy, Phase, Action

-----------------------------------------------------------------------------
(* Type correctness.                                                        *)

USE DEF Pc

(* The initial state.                                                       *)
LEMMA InitTyped == Init => TypeOK
<1>1. InitialIds \in [1 .. InitialCount -> Id]
  BY RotationAssumption DEF InitialIds
<1> SUFFICES ASSUME Init PROVE TypeOK
  OBVIOUS
<1>2. InitialCount \in Nat /\ Strategy \subseteq AnyStrategy
  BY RotationAssumption
<1>3. PICK g \in Gen, s \in Strategy :
          /\ class = [gen |-> g, stamped |-> g, strategy |-> s]
          /\ requests = [i \in 1 .. InitialCount |->
                [id |-> InitialIds[i], gen |-> g, stage |-> "provisioned"]]
  BY DEF Init
<1>4. class \in Class
  BY <1>2, <1>3 DEF Class
<1>5. \A i \in 1 .. InitialCount :
         [id |-> InitialIds[i], gen |-> g, stage |-> "provisioned"] \in Request
  BY <1>1 DEF Request, Stage
<1>6. requests \in Seq(Request)
  BY <1>2, <1>3, <1>5
<1>7. set \in Set
  BY <1>2, NatConstants DEF Init, Set, Phase
<1> QED
  BY <1>2, <1>4, <1>6, <1>7, NatConstants, Defaults DEF Init, TypeOK

(* A tick that ends leaves its own variables well typed.                    *)
LEMMA FinishTyped ==
    ASSUME TypeOK, NEW r \in Reconciler, Finish(r)
    PROVE  /\ pc' \in [Reconciler -> Pc]
           /\ seenClass' \in [Reconciler -> Class]
           /\ seenSet' \in [Reconciler -> Set]
           /\ plan' \in [Reconciler -> Decision]
           /\ idle' \in [Reconciler -> 0 .. TickInterval]
           /\ group' \in NodeGroup
           /\ edits' \in 0 .. MaxEdits
           /\ nominal' \in Nat
  BY NatConstants, Defaults DEF TypeOK, Finish

(* A request whose stage changes.                                           *)
LEMMA StageWrite ==
    \A q \in Request, t \in Stage : [q EXCEPT !.stage = t] \in Request
  BY DEF Request

(* What a tick reads of the requests.                                       *)
LEMMA ObservedType ==
    ASSUME TypeOK, NEW listed \in BOOLEAN
    PROVE  Observed(listed) \in Seq(Request)
<1>1. \A i \in DOMAIN requests :
         [requests[i] EXCEPT !.stage = IF listed THEN @ ELSE "unknown"]
            \in Request
  <2> TAKE i \in DOMAIN requests
  <2>1. requests[i] \in Request
    BY DEF TypeOK
  <2>2. requests[i].stage \in Stage
    BY <2>1 DEF Request
  <2>3. CASE listed = TRUE
    BY <2>1, <2>2, <2>3, StageWrite
  <2>4. CASE listed = FALSE
    BY <2>1, <2>4, StageWrite DEF Stage
  <2> QED
    BY <2>3, <2>4
<1> QED
  BY <1>1, SMTT(30) DEF Observed, TypeOK

(* The steps of Discover.                                                   *)
LEMMA DiscoverTyped ==
    ASSUME TypeOK, NEW r \in Reconciler, Discover(r)
    PROVE  TypeOK'
<1>1. CASE ReadClass(r)
  <2>1. idle' \in [Reconciler -> 0 .. TickInterval]
    <3>1. 0 \in 0 .. TickInterval /\ idle \in [Reconciler -> 0 .. TickInterval]
      BY NatConstants DEF TypeOK
    <3>2. UNCHANGED idle \/ idle' = [idle EXCEPT ![r] = 0]
      BY <1>1 DEF ReadClass
    <3> QED
      BY <3>1, <3>2
  <2> QED
    BY <1>1, <2>1 DEF ReadClass, TypeOK
<1>2. CASE ReadSet(r)
  BY <1>2 DEF ReadSet, TypeOK
<1>3. ASSUME NEW listed \in BOOLEAN, ReadRequests(r, listed)
      PROVE  TypeOK'
  <2>1. Observed(listed) \in Seq(Request)
    BY ObservedType
  <2>2. Plan(seenClass[r], seenSet[r], Observed(listed)) \in Decision
    BY <2>1, PlanType DEF TypeOK
  <2> QED
    BY <1>3, <2>2, Defaults DEF ReadRequests, TypeOK
<1> QED
  BY <1>1, <1>2, <1>3 DEF Discover

(* The shapes in which the set is written.                                  *)
LEMMA SetWrites ==
    ASSUME NEW s \in Set
    PROVE  /\ \A l \in 0 .. Expired : [s EXCEPT !.lock = l] \in Set
           /\ \A n \in Nat : [s EXCEPT !.count = n] \in Set
           /\ [s EXCEPT !.phase = "none", !.orig = 0, !.lock = Expired] \in Set
           /\ 0 \in 0 .. Expired /\ Expired \in 0 .. Expired
           /\ s.count \in Nat
<1>1. \A l \in 0 .. Expired : [s EXCEPT !.lock = l] \in Set
  BY DEF Set
<1>2. \A n \in Nat : [s EXCEPT !.count = n] \in Set
  BY DEF Set
<1>3. 0 \in 0 .. Expired /\ Expired \in 0 .. Expired
  BY NatConstants
<1>4. [s EXCEPT !.phase = "none", !.orig = 0, !.lock = Expired] \in Set
  BY <1>3 DEF Set, Phase
<1>5. s.count \in Nat
  BY DEF Set
<1> QED
  BY <1>1, <1>2, <1>3, <1>4, <1>5

LEMMA SurgeWrite ==
    ASSUME NEW n \in Nat, NEW phase \in Phase, NEW orig \in Nat
    PROVE  [count |-> n, lock |-> 0, phase |-> phase, orig |-> orig] \in Set
  BY NatConstants DEF Set

(* The steps of Execute, and a tick given up.                               *)
LEMMA ExecuteTyped ==
    ASSUME TypeOK, NEW r \in Reconciler, Execute(r) \/ Abandon(r)
    PROVE  TypeOK'
<1>s. set \in Set /\ plan[r] \in Decision /\ class \in Class
  BY DEF TypeOK
<1>d. plan[r].orig \in Nat /\ plan[r].gen \in Gen
  BY <1>s DEF Decision
<1>1. CASE RefreshLock(r)
  <2>1. set' \in Set
    BY <1>1, <1>s, SetWrites DEF RefreshLock
  <2> QED
    BY <1>1, <2>1, FinishTyped DEF RefreshLock, TypeOK
<1>2. CASE stampGeneration(r)
  <2>1. class' \in Class
    BY <1>2, <1>s, <1>d DEF stampGeneration, Class
  <2> QED
    BY <1>2, <2>1, FinishTyped DEF stampGeneration, TypeOK
<1>3. CASE SurgeUp(r)
  <2>1. set.count + 1 \in Nat
    BY <1>s DEF Set
  <2>2. set' \in Set
    BY <1>3, <1>d, <2>1, SurgeWrite DEF SurgeUp, withSurgeStep, Phase
  <2> QED
    BY <1>3, <2>2, FinishTyped DEF SurgeUp, TypeOK
<1>4. CASE SurgeDown(r)
  <2>1. CASE set.count - 1 < 0
    BY <1>4, <2>1, FinishTyped DEF SurgeDown, TypeOK
  <2>2. CASE ~(set.count - 1 < 0)
    <3>1. set.count \in Nat
      BY <1>s DEF Set
    <3>2. set.count + (-1) \in Nat
      BY <2>2, <3>1
    <3>3. set' \in Set
      BY <1>4, <1>d, <2>2, <3>2, SurgeWrite DEF SurgeDown, withSurgeStep, Phase
    <3> QED
      BY <1>4, <3>3, FinishTyped DEF SurgeDown, TypeOK
  <2> QED
    BY <2>1, <2>2
<1>5. CASE clearSurgeAndLock(r)
  <2>1. set' \in Set
    BY <1>5, <1>s, SetWrites DEF clearSurgeAndLock
  <2> QED
    BY <1>5, <2>1, FinishTyped DEF clearSurgeAndLock, TypeOK
<1>6. CASE setLock(r)
  <2>1. set' \in Set
    BY <1>6, <1>s, SetWrites DEF setLock
  <2> QED
    BY <1>6, <2>1 DEF setLock, TypeOK
<1>7. CASE teardownRequest(r)
  <2>1. requests' \in Seq(Request)
    BY <1>7, WithoutType DEF teardownRequest, TypeOK
  <2> QED
    BY <1>7, <2>1 DEF teardownRequest, TypeOK
<1>8. CASE teardownNotFound(r)
  BY <1>8, FinishTyped DEF teardownNotFound, TypeOK
<1>9. CASE clearLock(r)
  <2>1. set' \in Set
    BY <1>9, <1>s, SetWrites DEF clearLock
  <2> QED
    BY <1>9, <2>1, FinishTyped DEF clearLock, TypeOK
<1>10. CASE Abandon(r)
  BY <1>10, FinishTyped DEF Abandon, TypeOK
<1> QED
  BY <1>1, <1>2, <1>3, <1>4, <1>5, <1>6, <1>7, <1>8, <1>9, <1>10 DEF Execute

(* The other writers.                                                       *)
LEMMA AutoscalerTyped ==
    ASSUME TypeOK, Autoscaler
    PROVE  TypeOK'
<1>s. set \in Set /\ set.count \in Nat /\ group \in NodeGroup
  BY SetWrites DEF TypeOK
<1>1. ASSUME NEW delta \in 1 .. MaxCount, ScaleDiscover(delta) PROVE TypeOK'
  <2>1. delta \in Nat
    BY NatConstants
  <2>2. group' \in NodeGroup
    BY <1>1, <1>s, <2>1, NatConstants DEF ScaleDiscover, NodeGroup
  <2> QED
    BY <1>1, <2>2 DEF ScaleDiscover, TypeOK
<1>2. CASE IncreaseMachineCount
  <2>1. group.delta \in Nat
    BY <1>s DEF NodeGroup
  <2>2. set.count + group.delta \in Nat
    BY <1>s, <2>1
  <2>3. set' \in Set
    BY <1>2, <1>s, <2>2, SetWrites DEF IncreaseMachineCount
  <2>4. nominal' \in Nat
    BY <1>2, <2>1 DEF IncreaseMachineCount, TypeOK
  <2> QED
    BY <1>2, <2>3, <2>4, Defaults DEF IncreaseMachineCount, TypeOK
<1>3. CASE ScaleRejected
  BY <1>3, Defaults DEF ScaleRejected, TypeOK
<1> QED
  BY <1>1, <1>2, <1>3 DEF Autoscaler

(* The operator.                                                            *)
LEMMA OperatorTyped ==
    ASSUME TypeOK, Operator
    PROVE  TypeOK'
<1>s. set \in Set /\ class \in Class
  BY DEF TypeOK
<1>e. MayEdit => edits' \in 0 .. MaxEdits
  BY NatConstants DEF MayEdit, TypeOK
<1>1. ASSUME NEW g \in Gen, EditClass(g) PROVE TypeOK'
  <2>1. class' \in Class
    BY <1>1, <1>s DEF EditClass, Class
  <2> QED
    BY <1>1, <1>e, <2>1 DEF EditClass, TypeOK
<1>2. ASSUME NEW s \in Strategy, EditStrategy(s) PROVE TypeOK'
  <2>1. s \in AnyStrategy
    BY RotationAssumption
  <2>2. class' \in Class
    BY <1>2, <1>s, <2>1 DEF EditStrategy, Class
  <2> QED
    BY <1>2, <1>e, <2>2 DEF EditStrategy, TypeOK
<1>3. ASSUME NEW n \in 0 .. MaxCount, EditCount(n) PROVE TypeOK'
  <2>1. n \in Nat
    BY NatConstants
  <2>2. set' \in Set
    BY <1>3, <1>s, <2>1, SetWrites DEF EditCount
  <2> QED
    BY <1>3, <1>e, <2>1, <2>2 DEF EditCount, TypeOK
<1> QED
  BY <1>1, <1>2, <1>3 DEF Operator

(* The MachineRequestSet controller and the provider.                       *)
LEMMA OmniTyped ==
    ASSUME TypeOK, Omni
    PROVE  TypeOK'
<1>1. CASE CreateRequest
  <2> DEFINE new == CHOOSE id \in Id \ UsedIds : TRUE
  <2>1. new \in Id
    BY <1>1 DEF CreateRequest
  <2>2. [id |-> new, gen |-> class.gen, stage |-> "unknown"] \in Request
    BY <2>1 DEF TypeOK, Class, Request, Stage
  <2> HIDE DEF new
  <2>3. requests' = Append(requests, [id |-> new, gen |-> class.gen,
                                      stage |-> "unknown"])
    BY <1>1 DEF CreateRequest, new
  <2>4. requests' \in Seq(Request)
    BY <2>2, <2>3 DEF TypeOK
  <2> QED
    BY <1>1, <2>4 DEF CreateRequest, TypeOK
<1>2. CASE RemoveOldest
  <2>1. requests # << >>
    <3>1. set.count \in Nat
      BY DEF TypeOK, Set
    <3> QED
      BY <1>2, <3>1 DEF RemoveOldest
  <2>2. requests' \in Seq(Request)
    BY <1>2, <2>1 DEF RemoveOldest, TypeOK
  <2> QED
    BY <1>2, <2>2 DEF RemoveOldest, TypeOK
<1>3. ASSUME NEW from \in Stage, NEW to \in Stage, ChangeStage(from, to)
      PROVE  TypeOK'
  <2>1. PICK i \in DOMAIN requests :
                requests' = [requests EXCEPT ![i].stage = to]
    BY <1>3 DEF ChangeStage
  <2>2. [requests[i] EXCEPT !.stage = to] \in Request
    BY StageWrite DEF TypeOK
  <2>3. requests' \in Seq(Request)
    BY <2>1, <2>2 DEF TypeOK
  <2> QED
    BY <1>3, <2>3 DEF ChangeStage, TypeOK
<1> QED
  BY <1>1, <1>2, <1>3
  DEF Omni, StartProvisioning, Provision, FailProvisioning, RetryProvisioning,
      Stage

(* Time.                                                                    *)
LEMMA AdvanceTimeTyped ==
    ASSUME TypeOK, AdvanceTime
    PROVE  TypeOK'
<1>1. set' \in Set /\ seenSet' \in [Reconciler -> Set]
  BY OlderType DEF AdvanceTime, TypeOK
<1>2. idle' \in [Reconciler -> 0 .. TickInterval]
  <2>1. CASE MayStall
    BY <2>1 DEF AdvanceTime, TypeOK
  <2>2. CASE ~MayStall
    BY <2>2, NatConstants DEF AdvanceTime, TypeOK
  <2> QED
    BY <2>1, <2>2
<1> QED
  BY <1>1, <1>2 DEF AdvanceTime, TypeOK

(* Every step.                                                              *)
LEMMA NextTyped == TypeOK /\ [Next]_vars => TypeOK'
<1> SUFFICES ASSUME TypeOK, [Next]_vars PROVE TypeOK'
  OBVIOUS
<1>1. CASE UNCHANGED vars
  BY <1>1 DEF vars, TypeOK
<1> QED
  BY <1>1, DiscoverTyped, ExecuteTyped, AutoscalerTyped, OperatorTyped,
     OmniTyped, AdvanceTimeTyped DEF Next

(* TypeOK holds in every state: in particular the surge-down step never     *)
(* takes MachineCount, an unsigned number, below zero, whatever operator    *)
(* and autoscaler write between its plan and its write.                     *)
THEOREM RotationTypeCorrect == Spec => []TypeOK
  BY InitTyped, NextTyped, PTL DEF Spec

-----------------------------------------------------------------------------
(* The surge steps.                                                         *)

(* Two copies of the set that differ at most in the age of the lock.        *)
SameSurge(s, t) == s.count = t.count /\ s.phase = t.phase /\ s.orig = t.orig

(* A step that neither touches what the surge cycle rests on nor reads it.  *)
Quiet ==
    /\ SameSurge(set', set)
    /\ UNCHANGED nominal
    /\ group' \in {group, NoGroup}
    /\ \A r \in Reconciler :
          /\ plan'[r] \in {plan[r], NoPlan}
          /\ pc'[r] = "set" => pc[r] = "set" /\ SameSurge(seenSet'[r], seenSet[r])

(* What the phase was that Plan saw, from the action it chose.              *)
LEMMA PlanPhase ==
    ASSUME NEW c \in Class, NEW s \in Set, NEW reqs \in Seq(Request)
    PROVE  LET p == Plan(c, s, reqs) IN
           /\ p.action = "surge-up" => s.phase = "none" /\ p.orig = s.count
           /\ p.action = "surge-down" => s.phase = "wait-up" /\ p.orig = s.orig
           /\ p.action = "complete" => s.phase = "wait-down"
           /\ p.action = "aborted" =>
                \/ s.phase = "wait-up" /\ s.count # s.orig + 1
                \/ s.phase = "wait-down" /\ s.count # s.orig
<1> DEFINE a == PlanAction(c, s, reqs).action
           surge == planSurge(s, reqs, c.gen)
<1>1. planInPlace(reqs, c.gen).action \in {"wait", "teardown"}
  BY DEF planInPlace
<1>2. a \in {"stamp", "wait", "teardown"} \/ a = surge
  BY <1>1 DEF PlanAction
<1>3. s.phase \in Phase
  BY DEF Set
<1>4. s.phase = "none" => surge \in {"wait", "surge-up"}
  BY DEF planSurge, planSurgeIdle
<1>5. s.phase = "wait-up" =>
        \/ surge \in {"wait", "surge-down"}
        \/ surge = "aborted" /\ s.count # s.orig + 1
  BY DEF planSurge, planWaitUp
<1>6. s.phase = "wait-down" =>
        \/ surge \in {"wait", "complete"}
        \/ surge = "aborted" /\ s.count # s.orig
  BY DEF planSurge, planWaitDown
<1>7. /\ Plan(c, s, reqs).action = a
      /\ Plan(c, s, reqs).orig = IF s.phase = "none" THEN s.count ELSE s.orig
  BY DEF Plan
<1> HIDE DEF a, surge
<1> QED
  BY <1>2, <1>3, <1>4, <1>5, <1>6, <1>7 DEF Phase

LEMMA FinishQuiet ==
    ASSUME TypeOK, NEW r \in Reconciler, Finish(r)
    PROVE  /\ UNCHANGED <<nominal, group>>
           /\ \A q \in Reconciler :
                 /\ plan'[q] \in {plan[q], NoPlan}
                 /\ pc'[q] = "set" => pc[q] = "set" /\ seenSet'[q] = seenSet[q]
           /\ plan'[r] = NoPlan
           /\ pc'[r] = "idle"
  BY DEF TypeOK, Finish

(* The steps that are not quiet.                                            *)
LEMMA LoudSteps ==
    ASSUME TypeOK, [Next]_vars
    PROVE  \/ Quiet
           \/ \E r \in Reconciler :
                \/ ReadSet(r)
                \/ \E listed \in BOOLEAN : ReadRequests(r, listed)
                \/ SurgeUp(r) \/ SurgeDown(r) \/ clearSurgeAndLock(r)
           \/ \E delta \in 1 .. MaxCount : ScaleDiscover(delta)
           \/ IncreaseMachineCount
           \/ \E n \in 0 .. MaxCount : EditCount(n)
<1>s. set \in Set
  BY DEF TypeOK
<1>l. \A l : SameSurge([set EXCEPT !.lock = l], set)
  BY <1>s DEF SameSurge, Set
<1>u. \A s : SameSurge(s, s)
  BY DEF SameSurge
<1>1. CASE UNCHANGED vars
  BY <1>1, <1>u DEF vars, Quiet
<1>2. ASSUME NEW r \in Reconciler, ReadClass(r) PROVE Quiet
  BY <1>2, <1>u DEF ReadClass, Quiet, TypeOK
<1>3. ASSUME NEW r \in Reconciler,
             RefreshLock(r) \/ stampGeneration(r) \/ teardownNotFound(r)
               \/ clearLock(r) \/ Abandon(r)
      PROVE  Quiet
  <2>1. Finish(r) /\ SameSurge(set', set)
    BY <1>3, <1>l, <1>u DEF RefreshLock, stampGeneration, teardownNotFound,
                            clearLock, Abandon
  <2> QED
    BY <2>1, <1>u, FinishQuiet DEF Quiet
<1>4. ASSUME NEW r \in Reconciler, setLock(r) \/ teardownRequest(r) PROVE Quiet
  <2>1. SameSurge(set', set)
    BY <1>4, <1>l, <1>u DEF setLock, teardownRequest
  <2> QED
    BY <1>4, <1>u, <2>1 DEF setLock, teardownRequest, Quiet, TypeOK
<1>5. CASE ScaleRejected
  BY <1>5, <1>u DEF ScaleRejected, Quiet
<1>6. ASSUME NEW g, EditClass(g) \/ EditStrategy(g) PROVE Quiet
  BY <1>6, <1>u DEF EditClass, EditStrategy, Quiet
<1>7. CASE Omni
  BY <1>7, <1>u DEF Omni, CreateRequest, RemoveOldest, StartProvisioning,
                   Provision, FailProvisioning, RetryProvisioning,
                   ChangeStage, Quiet
<1>8. CASE AdvanceTime
  <2>1. SameSurge(set', set)
    BY <1>8, <1>l DEF AdvanceTime
  <2>2. \A r \in Reconciler : SameSurge(seenSet'[r], seenSet[r])
    BY <1>8 DEF AdvanceTime, SameSurge, TypeOK, Set
  <2> QED
    BY <1>8, <2>1, <2>2 DEF AdvanceTime, Quiet
<1> QED
  BY <1>1, <1>2, <1>3, <1>4, <1>5, <1>6, <1>7, <1>8
  DEF Next, Discover, Execute, Operator, Autoscaler

(* The strengthening of CountAccounted.  What a reconciler has read of the  *)
(* set since its tick began is still true, and so is what its Decision      *)
(* assumes of the phase: no other writer comes between.                     *)
ReadIsCurrent ==
    \A r \in Reconciler : pc[r] = "set" => SameSurge(seenSet[r], set)

PlanIsCurrent ==
    \A r \in Reconciler :
        /\ plan[r].action = "surge-up" =>
              set.phase = "none" /\ plan[r].orig = set.count
        /\ plan[r].action = "surge-down" =>
              set.phase = "wait-up" /\ plan[r].orig = set.orig
        /\ plan[r].action = "complete" => set.phase = "wait-down"

CountInv ==
    /\ TypeOK
    /\ group = NoGroup
    /\ CountAccounted
    /\ AbortMeansForeignWriter
    /\ ReadIsCurrent
    /\ PlanIsCurrent

LEMMA CountInit == Init => CountInv
<1> SUFFICES ASSUME Init PROVE CountInv
  OBVIOUS
<1>1. TypeOK
  BY InitTyped
<1>2. \A r \in Reconciler : pc[r] = "idle" /\ plan[r].action = "wait"
  BY DEF Init, NoPlan
<1>3. CountAccounted
  <2>1. InitialCount \in Nat
    BY RotationAssumption
  <2> QED
    BY <2>1 DEF Init, CountAccounted
<1> QED
  BY <1>1, <1>2, <1>3
  DEF Init, CountInv, AbortMeansForeignWriter, ReadIsCurrent, PlanIsCurrent

(* A step of the only reconciler says everything about plans and reads.     *)
LEMMA OwnStep ==
    ASSUME SoleReconciler, NEW r \in Reconciler, TypeOK, Finish(r)
    PROVE  \A q \in Reconciler : plan'[q] = NoPlan /\ pc'[q] = "idle"
  BY FinishQuiet DEF SoleReconciler

LEMMA CountStep ==
    ASSUME SoleReconciler, ~Scaler, ~CountEdits, CountInv, [Next]_vars
    PROVE  CountInv'
<1> USE DEF CountInv
<1>t. TypeOK'
  BY NextTyped
<1>n. NoPlan.action = "wait"
  BY DEF NoPlan
<1>s. /\ set.count \in Nat /\ set.orig \in Nat /\ nominal \in Nat
      /\ set.phase \in Phase
  BY DEF TypeOK, Set
<1>1. CASE Quiet
  <2>1. CountAccounted'
    BY <1>1 DEF Quiet, SameSurge, CountAccounted
  <2>2. AbortMeansForeignWriter'
    BY <1>1, <1>n DEF Quiet, AbortMeansForeignWriter
  <2>3. ReadIsCurrent'
    BY <1>1 DEF Quiet, ReadIsCurrent, SameSurge
  <2>4. PlanIsCurrent'
    BY <1>1, <1>n DEF Quiet, PlanIsCurrent, SameSurge
  <2> QED
    BY <1>1, <1>t, <2>1, <2>2, <2>3, <2>4 DEF Quiet
<1>2. ASSUME NEW r \in Reconciler, ReadSet(r) PROVE CountInv'
  <2>1. ReadIsCurrent'
    BY <1>2 DEF ReadSet, ReadIsCurrent, SameSurge, SoleReconciler, TypeOK
  <2> QED
    BY <1>2, <1>t, <2>1 DEF ReadSet, CountAccounted, AbortMeansForeignWriter,
                            PlanIsCurrent
<1>3. ASSUME NEW r \in Reconciler, NEW listed \in BOOLEAN,
             ReadRequests(r, listed)
      PROVE  CountInv'
  <2>1. PICK p \in Decision :
           /\ plan' = [plan EXCEPT ![r] = p]
           /\ p = Plan(seenClass[r], seenSet[r], Observed(listed))
    <3>1. plan'[r] \in Decision /\ plan'[r] =
             Plan(seenClass[r], seenSet[r], Observed(listed))
      BY <1>3, <1>t DEF ReadRequests, TypeOK
    <3> QED
      BY <1>3, <3>1 DEF ReadRequests
  <2>2. SameSurge(seenSet[r], set)
    BY <1>3 DEF ReadRequests, ReadIsCurrent
  <2>3. Observed(listed) \in Seq(Request)
    BY ObservedType
  <2>4. /\ p.action = "surge-up" => set.phase = "none" /\ p.orig = set.count
        /\ p.action = "surge-down" =>
              set.phase = "wait-up" /\ p.orig = set.orig
        /\ p.action = "complete" => set.phase = "wait-down"
        /\ p.action = "aborted" =>
              \/ set.phase = "wait-up" /\ set.count # set.orig + 1
              \/ set.phase = "wait-down" /\ set.count # set.orig
    BY <2>1, <2>2, <2>3, PlanPhase DEF TypeOK, SameSurge
  <2>5. p.action # "aborted"
    BY <2>4, <1>s DEF CountAccounted
  <2>6. \A q \in Reconciler : plan'[q] = p /\ pc'[q] = "planned"
    BY <1>3, <2>1 DEF ReadRequests, TypeOK, SoleReconciler
  <2> QED
    BY <1>3, <1>t, <2>4, <2>5, <2>6
    DEF ReadRequests, CountAccounted, AbortMeansForeignWriter, ReadIsCurrent,
        PlanIsCurrent
<1>4. ASSUME NEW r \in Reconciler,
             SurgeUp(r) \/ SurgeDown(r) \/ clearSurgeAndLock(r)
      PROVE  CountInv'
  <2>1. Finish(r)
    BY <1>4 DEF SurgeUp, SurgeDown, clearSurgeAndLock
  <2>2. AbortMeansForeignWriter' /\ ReadIsCurrent' /\ PlanIsCurrent'
    BY <2>1, <1>n, OwnStep
    DEF AbortMeansForeignWriter, ReadIsCurrent, PlanIsCurrent
  <2>3. group' = NoGroup /\ nominal' = nominal
    BY <2>1 DEF Finish
  <2>4. CASE SurgeUp(r)
    <3>1. set.phase = "none" /\ plan[r].orig = set.count
      BY <2>4 DEF SurgeUp, Executing, PlanIsCurrent
    <3>2. CountAccounted'
      BY <2>3, <2>4, <3>1, <1>s DEF SurgeUp, withSurgeStep, CountAccounted
    <3> QED
      BY <1>t, <2>2, <2>3, <3>2
  <2>5. CASE SurgeDown(r)
    <3>1. set.phase = "wait-up" /\ plan[r].orig = set.orig
      BY <2>5 DEF SurgeDown, Executing, PlanIsCurrent
    <3>2. ~(set.count - 1 < 0)
      BY <3>1, <1>s DEF CountAccounted
    <3>3. CountAccounted'
      BY <2>3, <2>5, <3>1, <3>2, <1>s
      DEF SurgeDown, withSurgeStep, CountAccounted
    <3> QED
      BY <1>t, <2>2, <2>3, <3>3
  <2>6. CASE clearSurgeAndLock(r)
    <3>1. set.phase = "wait-down"
      BY <2>6 DEF clearSurgeAndLock, Executing, PlanIsCurrent,
                  AbortMeansForeignWriter
    <3>2. set'.phase = "none" /\ set'.count = set.count
      BY <2>6 DEF clearSurgeAndLock, TypeOK, Set
    <3>3. CountAccounted'
      BY <2>3, <3>1, <3>2 DEF CountAccounted
    <3> QED
      BY <1>t, <2>2, <2>3, <3>3
  <2> QED
    BY <1>4, <2>4, <2>5, <2>6
<1>5. ASSUME NEW delta, ScaleDiscover(delta) PROVE FALSE
  BY <1>5 DEF ScaleDiscover
<1>6. CASE IncreaseMachineCount
  BY <1>6 DEF IncreaseMachineCount
<1>7. ASSUME NEW n, EditCount(n) PROVE FALSE
  BY <1>7 DEF EditCount
<1> HIDE DEF CountInv
<1> QED
  BY <1>1, <1>2, <1>3, <1>4, <1>5, <1>6, <1>7, LoudSteps DEF CountInv

(* While one reconciler is the only writer of MachineCount, every change it *)
(* makes is accounted for by the surge-phase annotation, for any number of  *)
(* members and edits of the class, any lock TTLs, and whatever crashes,     *)
(* fails or expires on the way.                                             *)
THEOREM CountInvariant ==
    ASSUME SoleReconciler, ~Scaler, ~CountEdits
    PROVE  Spec => []CountAccounted
<1>1. Init => CountInv
  BY CountInit
<1>2. CountInv /\ [Next]_vars => CountInv'
  BY CountStep
<1>3. CountInv => CountAccounted
  BY DEF CountInv
<1> QED
  BY <1>1, <1>2, <1>3, PTL DEF Spec

(* planWaitUp and planWaitDown give a cycle up only for a count that is not *)
(* theirs (plan.go:167, :211): as long as nobody else writes MachineCount,  *)
(* no crash, failed call, expired lock or edit of class and strategy makes  *)
(* Plan abort.                                                              *)
THEOREM AbortNeedsForeignWriter ==
    ASSUME SoleReconciler, ~Scaler, ~CountEdits
    PROVE  Spec => []AbortMeansForeignWriter
<1>1. Init => CountInv
  BY CountInit
<1>2. CountInv /\ [Next]_vars => CountInv'
  BY CountStep
<1>3. CountInv => AbortMeansForeignWriter
  BY DEF CountInv
<1> QED
  BY <1>1, <1>2, <1>3, PTL DEF Spec

(* The strengthening of SurgeOvershootBounded, with the other writers       *)
(* about: the phase a reconciler has read, or decided on, is still the      *)
(* phase of the set, for nobody else writes it; and the count it has read   *)
(* is still the count, or somebody has written one that was asked for.      *)
Asked == set.count <= MaxCount

PhaseIsCurrent ==
    \A r \in Reconciler :
        /\ pc[r] = "set" =>
              /\ seenSet[r].phase = set.phase /\ seenSet[r].orig = set.orig
              /\ seenSet[r].count = set.count \/ Asked
        /\ plan[r].action = "surge-up" =>
              set.phase = "none" /\ (plan[r].orig = set.count \/ Asked)
        /\ plan[r].action = "surge-down" => set.phase = "wait-up"
        /\ plan[r].action = "complete" => set.phase = "wait-down"
        /\ plan[r].action = "aborted" => set.count <= MaxCount + 1

OvershootInv ==
    /\ TypeOK
    /\ SurgeOvershootBounded
    /\ set.phase = "wait-up" /\ set.count = MaxCount + 2
          => set.orig = MaxCount + 1
    /\ group # NoGroup => group.max = MaxCount
    /\ PhaseIsCurrent

LEMMA OvershootInit == Init => OvershootInv
<1> SUFFICES ASSUME Init PROVE OvershootInv
  OBVIOUS
<1>1. TypeOK
  BY InitTyped
<1>2. \A r \in Reconciler : pc[r] = "idle" /\ plan[r].action = "wait"
  BY DEF Init, NoPlan
<1>3. InitialCount \in Nat /\ MaxCount \in Nat /\ InitialCount <= MaxCount
  BY RotationAssumption
<1> QED
  BY <1>1, <1>2, <1>3
  DEF Init, OvershootInv, SurgeOvershootBounded, PhaseIsCurrent

(* A count somebody asked for, written while the phase stays as it is,      *)
(* satisfies everything.                                                    *)
LEMMA AskedWrite ==
    ASSUME OvershootInv, TypeOK', NEW n \in Nat, n <= MaxCount,
           set' = [set EXCEPT !.count = n],
           group' \in {group, NoGroup},
           UNCHANGED <<pc, seenSet, plan>>
    PROVE  OvershootInv'
<1>1. /\ set'.count = n /\ set'.phase = set.phase /\ set'.orig = set.orig
  BY DEF OvershootInv, TypeOK, Set
<1>2. MaxCount \in Nat
  BY NatConstants
<1>3. SurgeOvershootBounded' /\ set'.count # MaxCount + 2
  BY <1>1, <1>2 DEF SurgeOvershootBounded
<1>4. PhaseIsCurrent'
  BY <1>1, <1>2 DEF OvershootInv, PhaseIsCurrent, Asked
<1> QED
  BY <1>3, <1>4 DEF OvershootInv

LEMMA OvershootStep ==
    ASSUME SoleReconciler, OvershootInv, [Next]_vars
    PROVE  OvershootInv'
<1> USE DEF OvershootInv
<1>t. TypeOK'
  BY NextTyped
<1>n. NoPlan.action = "wait"
  BY DEF NoPlan
<1>m. MaxCount \in Nat
  BY NatConstants
<1>s. set.count \in Nat /\ set.orig \in Nat /\ set.phase \in Phase
  BY DEF TypeOK, Set
<1>1. CASE Quiet
  <2>1. set'.count = set.count /\ set'.phase = set.phase /\ set'.orig = set.orig
    BY <1>1 DEF Quiet, SameSurge
  <2>2. SurgeOvershootBounded'
    BY <2>1 DEF SurgeOvershootBounded
  <2>3. PhaseIsCurrent'
    <3> SUFFICES ASSUME NEW r \in Reconciler
        PROVE  PhaseIsCurrent!(r)'
      BY DEF PhaseIsCurrent
    <3>1. CASE plan'[r] = plan[r]
      BY <1>1, <2>1, <3>1 DEF Quiet, SameSurge, PhaseIsCurrent, Asked
    <3>2. CASE plan'[r] = NoPlan
      BY <1>1, <2>1, <3>2, <1>n DEF Quiet, SameSurge, PhaseIsCurrent, Asked
    <3> QED
      BY <1>1, <3>1, <3>2 DEF Quiet
  <2> QED
    BY <1>1, <1>t, <2>1, <2>2, <2>3 DEF Quiet
<1>2. ASSUME NEW r \in Reconciler, ReadSet(r) PROVE OvershootInv'
  <2>1. \A q \in Reconciler : seenSet'[q] = set
    BY <1>2 DEF ReadSet, SoleReconciler, TypeOK
  <2>2. PhaseIsCurrent'
    BY <1>2, <2>1 DEF ReadSet, PhaseIsCurrent, Asked
  <2> QED
    BY <1>2, <1>t, <2>2 DEF ReadSet, SurgeOvershootBounded
<1>3. ASSUME NEW r \in Reconciler, NEW listed \in BOOLEAN,
             ReadRequests(r, listed)
      PROVE  OvershootInv'
  <2> DEFINE seen == seenSet[r]
             p == Plan(seenClass[r], seen, Observed(listed))
  <2>1. Observed(listed) \in Seq(Request)
    BY ObservedType
  <2>2. seenClass[r] \in Class /\ seen \in Set
    BY DEF TypeOK
  <2>3. /\ p.action = "surge-up" => seen.phase = "none" /\ p.orig = seen.count
        /\ p.action = "surge-down" => seen.phase = "wait-up"
        /\ p.action = "complete" => seen.phase = "wait-down"
        /\ p.action = "aborted" =>
              \/ seen.phase = "wait-up" /\ seen.count # seen.orig + 1
              \/ seen.phase = "wait-down" /\ seen.count # seen.orig
    BY <2>1, <2>2, PlanPhase
  <2>4. \A q \in Reconciler : plan'[q] = p /\ pc'[q] = "planned"
    BY <1>3 DEF ReadRequests, TypeOK, SoleReconciler
  <2> HIDE DEF p
  <2>5. /\ seen.phase = set.phase /\ seen.orig = set.orig
        /\ seen.count = set.count \/ Asked
    BY <1>3 DEF ReadRequests, PhaseIsCurrent
  <2> HIDE DEF seen
  <2>6. p.action = "aborted" => set.count <= MaxCount + 1
    BY <2>3, <2>5, <1>m, <1>s DEF SurgeOvershootBounded, Asked
  <2>7. set' = set /\ group' = group
    BY <1>3 DEF ReadRequests
  <2>8. PhaseIsCurrent'
    BY <2>3, <2>4, <2>5, <2>6, <2>7 DEF PhaseIsCurrent, Asked
  <2> QED
    BY <1>t, <2>7, <2>8 DEF SurgeOvershootBounded
<1>4. ASSUME NEW r \in Reconciler,
             SurgeUp(r) \/ SurgeDown(r) \/ clearSurgeAndLock(r)
      PROVE  OvershootInv'
  <2>1. Finish(r)
    BY <1>4 DEF SurgeUp, SurgeDown, clearSurgeAndLock
  <2>2. PhaseIsCurrent'
    BY <2>1, <1>n, OwnStep DEF PhaseIsCurrent
  <2>3. group' = group
    BY <2>1 DEF Finish
  <2>4. /\ set'.phase = "wait-up" /\ set'.count = MaxCount + 2
              => set'.orig = MaxCount + 1
        /\ SurgeOvershootBounded'
    <3>1. CASE SurgeUp(r)
      <4>1. set.phase = "none" /\ (plan[r].orig = set.count \/ Asked)
        BY <3>1 DEF SurgeUp, Executing, PhaseIsCurrent
      <4>2. set' = [count |-> set.count + 1, lock |-> 0, phase |-> "wait-up",
                    orig |-> plan[r].orig]
        BY <3>1 DEF SurgeUp, withSurgeStep
      <4> QED
        BY <4>1, <4>2, <1>m, <1>s DEF SurgeOvershootBounded, Asked
    <3>2. CASE SurgeDown(r)
      <4>1. set.phase = "wait-up"
        BY <3>2 DEF SurgeDown, Executing, PhaseIsCurrent
      <4>2. CASE UNCHANGED set
        BY <4>2 DEF SurgeOvershootBounded
      <4>3. CASE set' = [count |-> set.count + (-1), lock |-> 0,
                         phase |-> "wait-down", orig |-> plan[r].orig]
        BY <4>1, <4>3, <1>m, <1>s DEF SurgeOvershootBounded
      <4> QED
        BY <3>2, <4>2, <4>3 DEF SurgeDown, withSurgeStep
    <3>3. CASE clearSurgeAndLock(r)
      <4>1. set.phase = "wait-down" \/ set.count <= MaxCount + 1
        BY <3>3 DEF clearSurgeAndLock, Executing, PhaseIsCurrent
      <4>2. set'.phase = "none" /\ set'.count = set.count
        BY <3>3 DEF clearSurgeAndLock, TypeOK, Set
      <4> QED
        BY <4>1, <4>2, <1>m, <1>s DEF SurgeOvershootBounded
    <3> QED
      BY <1>4, <3>1, <3>2, <3>3
  <2> QED
    BY <1>t, <2>2, <2>3, <2>4
<1>5. ASSUME NEW delta \in 1 .. MaxCount, ScaleDiscover(delta)
      PROVE  OvershootInv'
  <2>1. delta \in Nat /\ delta > 0
    BY <1>m
  <2>2. group'.max = MaxCount
    BY <1>5, <1>s, <1>m, <2>1 DEF ScaleDiscover
  <2> QED
    BY <1>5, <1>t, <2>2
    DEF ScaleDiscover, SurgeOvershootBounded, PhaseIsCurrent, Asked
<1>6. CASE IncreaseMachineCount
  <2>1. group.delta \in Nat
    BY DEF TypeOK, NodeGroup
  <2>2. /\ set.count + group.delta \in Nat
        /\ set.count + group.delta <= MaxCount
    BY <1>6, <1>s, <2>1 DEF IncreaseMachineCount
  <2>3. set' = [set EXCEPT !.count = set.count + group.delta]
    BY <1>6 DEF IncreaseMachineCount
  <2> QED
    BY <1>6, <1>t, <2>2, <2>3, AskedWrite DEF IncreaseMachineCount
<1>7. ASSUME NEW n \in 0 .. MaxCount, EditCount(n) PROVE OvershootInv'
  <2>1. n \in Nat /\ n <= MaxCount
    BY <1>m
  <2> QED
    BY <1>7, <1>t, <2>1, AskedWrite DEF EditCount
<1> HIDE DEF OvershootInv
<1> QED
  BY <1>1, <1>2, <1>3, <1>4, <1>5, <1>6, <1>7, LoudSteps DEF OvershootInv

(* Lost updates between rotation, autoscaler and operator never add up to   *)
(* more than one machine above the largest count asked for at rest, two     *)
(* while a surge waits for its replacement, however long the system runs.   *)
THEOREM OvershootBound ==
    ASSUME SoleReconciler
    PROVE  Spec => []SurgeOvershootBounded
<1>1. Init => OvershootInv
  BY OvershootInit
<1>2. OvershootInv /\ [Next]_vars => OvershootInv'
  BY OvershootStep
<1>3. OvershootInv => SurgeOvershootBounded
  BY DEF OvershootInv
<1> QED
  BY <1>1, <1>2, <1>3, PTL DEF Spec
=============================================================================
