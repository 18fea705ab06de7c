---------------------- MODULE NodeRotationServiceProofs ----------------------
(***************************************************************************)
(* What the rotation promises to those who depend on the set, for every    *)
(* value of the constants: the autoscaler stays paused from the first      *)
(* write of a surge cycle to its last, and removals leave the floor of     *)
(* healthy members standing.                                               *)
(***************************************************************************)
EXTENDS NodeRotationProofs, FiniteSetTheorems, SequenceTheorems

-----------------------------------------------------------------------------
(* The lock.                                                                *)
(*                                                                          *)
(* A tick that finds a cycle under way refreshes the lock, unless it is     *)
(* spent on something else: on stamping a generation, or on a SurgeDown     *)
(* that finds a count of zero.  Either takes an edit of the operator, and   *)
(* no edit pays for two such ticks: the lock is never older than the time   *)
(* since the last tick and one interval for each edit that is used up.  The *)
(* debt of a state is the number of edits whose ticks are still to come.    *)

(* The tick under way is going to stamp,                                    *)
Stamping(r) ==
    \/ pc[r] \in {"class", "set"} /\ seenClass[r].stamped # seenClass[r].gen
    \/ pc[r] = "planned" /\ plan[r].action = "stamp"

(* this generation.                                                         *)
StampGen(r) == IF pc[r] = "planned" THEN plan[r].gen ELSE seenClass[r].gen

(* A class edited since then takes another stamp.                           *)
StampDebt(r) ==
    IF Stamping(r) THEN IF class.gen = StampGen(r) THEN 1 ELSE 2
    ELSE IF class.gen = class.stamped THEN 0 ELSE 1

(* The tick under way may come to a SurgeDown that it cannot do.            *)
DownBlocked(r) ==
    /\ set.count = 0
    /\ \/ pc[r] = "set" /\ seenSet[r].count # 0
       \/ pc[r] = "planned" /\ plan[r].action = "surge-down"

CountDebt(r) == IF DownBlocked(r) THEN 1 ELSE 0

Debt(r) == StampDebt(r) + CountDebt(r)

(* The time that n ticks without a refresh take.                            *)
Budget(n) == TickInterval * n

(* What the tick under way goes by is still so: without edits of the        *)
(* strategy a cycle is only begun, and only met, by the surge strategy.     *)
TickIsCurrent ==
    /\ set.phase # "none" => class.strategy = "surge"
    /\ \A r \in Reconciler :
          /\ class.strategy = "off" => pc[r] = "idle"
          /\ pc[r] \in {"class", "set"} => seenClass[r].strategy = class.strategy
          /\ pc[r] = "set" => seenSet[r].phase = set.phase
          /\ pc[r] = "planned" =>
                /\ plan[r].inSurge <=> set.phase # "none"
                /\ plan[r].action = "teardown" => class.strategy = "in-place"
                /\ plan[r].action \in {"surge-up", "surge-down"} =>
                      class.strategy = "surge"
          /\ pc[r] \in {"locked", "torn"} => class.strategy = "in-place"

LockAge ==
    set.phase # "none" =>
       \E r \in Reconciler : set.lock <= idle[r] + Budget(edits - Debt(r))

LockInv ==
    /\ TypeOK
    /\ TickIsCurrent
    /\ \A r \in Reconciler : Debt(r) <= edits
    /\ LockAge

(* Intervals add up.                                                        *)
LEMMA BudgetFacts ==
    /\ \A n \in Int : Budget(n) \in Int /\ Budget(n + 1) = Budget(n) + TickInterval
    /\ \A m, n \in Int : m <= n => Budget(m) <= Budget(n)
    /\ Budget(0) = 0
<1>1. TickInterval \in Nat
  BY RotationAssumption
<1>2. \A n \in Int : Budget(n) \in Int /\ Budget(n + 1) = Budget(n) + TickInterval
  BY <1>1 DEF Budget
<1>3. ASSUME NEW m \in Int, NEW n \in Int, m <= n
      PROVE  Budget(m) <= Budget(n)
  <2>1. n - m \in Nat /\ n = m + (n - m)
    BY <1>3
  <2>2. TickInterval * (n - m) \in Nat
    BY <1>1, <2>1
  <2>3. TickInterval * n = TickInterval * m + TickInterval * (n - m)
    BY <1>1
  <2> QED
    BY <1>1, <2>2, <2>3 DEF Budget
<1> QED
  BY <1>1, <1>2, <1>3 DEF Budget

LEMMA DebtType ==
    ASSUME NEW r \in Reconciler
    PROVE  Debt(r) \in Nat /\ StampDebt(r) \in Nat /\ CountDebt(r) \in Nat
  BY DEF Debt, StampDebt, CountDebt

(* What Plan's choice says of the class and of the count it was given.      *)
LEMMA PlanChoice ==
    ASSUME NEW c \in Class, NEW s \in Set, NEW reqs \in Seq(Request)
    PROVE  LET p == Plan(c, s, reqs) IN
           /\ p.gen = c.gen
           /\ p.inSurge <=> s.phase # "none"
           /\ p.action = "stamp" <=> c.stamped # c.gen
           /\ p.action = "teardown" => c.strategy = "in-place"
           /\ p.action \in {"surge-up", "surge-down"} => c.strategy # "in-place"
           /\ p.action = "surge-down" => s.count # 0
<1> DEFINE a == PlanAction(c, s, reqs).action
           surge == planSurge(s, reqs, c.gen)
           place == planInPlace(reqs, c.gen).action
<1>1. place \in {"wait", "teardown"}
  BY DEF planInPlace
<1>2. surge \in {"wait", "surge-up", "surge-down", "complete", "aborted"}
  BY DEF planSurge, planSurgeIdle, planWaitUp, planWaitDown
<1>3. surge = "surge-down" => s.count = s.orig + 1
  BY DEF planSurge, planSurgeIdle, planWaitUp, planWaitDown
<1>4. \/ c.stamped # c.gen /\ a = "stamp"
      \/ c.stamped = c.gen /\ a = "wait"
      \/ c.stamped = c.gen /\ c.strategy = "in-place" /\ a = place
      \/ c.stamped = c.gen /\ c.strategy # "in-place" /\ a = surge
  BY DEF PlanAction
<1>5. s.orig \in Nat /\ s.count \in Nat
  BY DEF Set
<1>6. Plan(c, s, reqs).action = a /\ Plan(c, s, reqs).gen = c.gen
  BY DEF Plan
<1>7. Plan(c, s, reqs).inSurge <=> s.phase # "none"
  BY DEF Plan
<1> HIDE DEF a, surge, place
<1> QED
  BY <1>1, <1>2, <1>3, <1>4, <1>5, <1>6, <1>7

(* A tick that ends.                                                        *)
LEMMA FinishEnds ==
    ASSUME TypeOK, NEW r \in Reconciler, Finish(r)
    PROVE  /\ pc'[r] = "idle" /\ idle'[r] = 0
           /\ edits' = edits
  BY DEF TypeOK, Finish

(* The ways a step can treat the lock.  It never makes a debt that no edit  *)
(* pays for; and it ends the cycle, or refreshes the lock, or leaves it     *)
(* alone in the middle of a tick, or spends a tick and an edit, or lets     *)
(* time pass.                                                               *)
LEMMA LockTreated ==
    ASSUME SoleReconciler, LockInv, TypeOK', NEW r \in Reconciler,
           Debt(r)' - Debt(r) <= edits' - edits,
           \/ set'.phase = "none"
           \/ set'.lock = 0
           \/ /\ set'.phase = set.phase
              /\ \/ set'.lock = set.lock /\ idle'[r] = idle[r]
                 \/ /\ set'.lock = set.lock
                    /\ Debt(r)' - Debt(r) + 1 <= edits' - edits
                 \/ set'.lock <= set.lock + 1 /\ idle'[r] = idle[r] + 1
    PROVE  LockAge' /\ \A q \in Reconciler : Debt(q)' <= edits'
<1>1. /\ Debt(r) \in Nat /\ edits \in Nat /\ edits' \in Nat
      /\ idle[r] \in 0 .. TickInterval /\ idle'[r] \in 0 .. TickInterval
      /\ set.lock \in Nat /\ set'.lock \in Nat /\ TickInterval \in Nat
  BY DebtType, NatConstants DEF LockInv, TypeOK, Set
<1>2. Debt(r)' \in Nat
  BY DEF Debt, StampDebt, CountDebt
<1>3. Debt(r) <= edits /\ \A q \in Reconciler : q = r
  BY DEF LockInv, SoleReconciler
<1>4. Debt(r)' <= edits'
  BY <1>1, <1>2, <1>3
<1> DEFINE m == edits - Debt(r)
           n == edits' - Debt(r)'
<1>5. m \in Int /\ n \in Int /\ 0 <= n /\ m <= n
  BY <1>1, <1>2, <1>3, <1>4
<1>6. /\ Budget(m) \in Int /\ Budget(n) \in Int
      /\ 0 <= Budget(n) /\ Budget(m) <= Budget(n)
  BY <1>5, BudgetFacts
<1>7. set.phase # "none" => set.lock <= idle[r] + Budget(m)
  BY <1>3 DEF LockInv, LockAge
<1>8. ASSUME set'.phase # "none" PROVE set'.lock <= idle'[r] + Budget(n)
  <2>1. CASE set'.lock = 0
    BY <1>1, <1>6, <2>1
  <2>2. CASE /\ set'.phase = set.phase
             /\ set'.lock = set.lock /\ idle'[r] = idle[r]
    BY <1>1, <1>6, <1>7, <1>8, <2>2
  <2>3. CASE /\ set'.phase = set.phase /\ set'.lock = set.lock
             /\ Debt(r)' - Debt(r) + 1 <= edits' - edits
    <3>1. m + 1 <= n /\ m + 1 \in Int
      BY <1>1, <1>2, <2>3
    <3>2. Budget(m) + TickInterval <= Budget(n)
      BY <1>5, <3>1, BudgetFacts
    <3> HIDE DEF m, n
    <3> QED
      BY <1>1, <1>6, <1>7, <1>8, <2>3, <3>2
  <2>4. CASE /\ set'.phase = set.phase
             /\ set'.lock <= set.lock + 1 /\ idle'[r] = idle[r] + 1
    <3> HIDE DEF m, n
    <3> QED
      BY <1>1, <1>6, <1>7, <1>8, <2>4
  <2> QED
    BY <1>8, <2>1, <2>2, <2>3, <2>4
<1> QED
  BY <1>3, <1>4, <1>8 DEF LockAge

(* The steps of Discover.                                                   *)
LEMMA DiscoverKeepsLock ==
    ASSUME SoleReconciler, LockInv, TypeOK', NEW r \in Reconciler, Discover(r)
    PROVE  LockInv'
<1>o. \A q \in Reconciler : q = r
  BY DEF SoleReconciler
<1> USE DEF LockInv
<1>1. CASE ReadClass(r)
  <2>1. Debt(r)' <= Debt(r) /\ edits' = edits /\ set' = set
    BY <1>1 DEF ReadClass, Debt, StampDebt, CountDebt, DownBlocked, Stamping,
                StampGen, TypeOK
  <2>2. set'.phase = "none" \/ idle'[r] = idle[r]
    BY <1>1 DEF ReadClass, TickIsCurrent
  <2>3. TickIsCurrent'
    BY <1>1, <1>o DEF ReadClass, TickIsCurrent, TypeOK
  <2>4. Debt(r)' \in Nat
    BY DEF Debt, StampDebt, CountDebt
  <2>5. Debt(r)' - Debt(r) <= edits' - edits
    BY <2>1, <2>4, DebtType DEF TypeOK
  <2>6. LockAge' /\ \A q \in Reconciler : Debt(q)' <= edits'
    BY <2>1, <2>2, <2>5, LockTreated
  <2> QED
    BY <2>3, <2>6
<1>2. CASE ReadSet(r)
  <2>1. Debt(r)' <= Debt(r) /\ edits' = edits /\ set' = set /\ idle' = idle
    BY <1>2 DEF ReadSet, Debt, StampDebt, CountDebt, DownBlocked, Stamping,
                StampGen, TypeOK
  <2>2. TickIsCurrent'
    BY <1>2, <1>o DEF ReadSet, TickIsCurrent, TypeOK
  <2>3. Debt(r)' \in Nat
    BY DEF Debt, StampDebt, CountDebt
  <2> QED
    BY <2>1, <2>2, <2>3, DebtType, LockTreated DEF TypeOK
<1>3. ASSUME NEW listed \in BOOLEAN, ReadRequests(r, listed) PROVE LockInv'
  <2> DEFINE p == Plan(seenClass[r], seenSet[r], Observed(listed))
  <2>1. /\ seenClass[r] \in Class /\ seenSet[r] \in Set
        /\ Observed(listed) \in Seq(Request)
    BY ObservedType DEF TypeOK
  <2>2. /\ p.gen = seenClass[r].gen
        /\ p.inSurge <=> seenSet[r].phase # "none"
        /\ p.action = "stamp" <=> seenClass[r].stamped # seenClass[r].gen
        /\ p.action = "teardown" => seenClass[r].strategy = "in-place"
        /\ p.action \in {"surge-up", "surge-down"} =>
              seenClass[r].strategy # "in-place"
        /\ p.action = "surge-down" => seenSet[r].count # 0
    BY <2>1, PlanChoice
  <2> HIDE DEF p
  <2>3. /\ pc[r] = "set" /\ pc'[r] = "planned" /\ plan'[r] = p
        /\ UNCHANGED <<class, set, idle, edits>>
    BY <1>3 DEF ReadRequests, TypeOK, p
  <2>4. /\ seenClass[r].strategy = class.strategy
        /\ class.strategy \in AnyStrategy /\ class.strategy # "off"
        /\ seenSet[r].phase = set.phase
    BY <2>3 DEF TickIsCurrent, TypeOK, Class
  <2>5. TickIsCurrent'
    BY <1>o, <2>2, <2>3, <2>4 DEF TickIsCurrent, AnyStrategy
  <2>6. Debt(r)' <= Debt(r)
    <3>1. StampDebt(r)' = StampDebt(r)
      BY <2>2, <2>3 DEF StampDebt, Stamping, StampGen
    <3>2. CountDebt(r)' <= CountDebt(r)
      BY <2>2, <2>3 DEF CountDebt, DownBlocked
    <3>3. StampDebt(r)' \in Nat /\ CountDebt(r)' \in Nat
      BY DEF StampDebt, CountDebt
    <3> QED
      BY <3>1, <3>2, <3>3, DebtType DEF Debt
  <2>7. Debt(r)' \in Nat
    BY DEF Debt, StampDebt, CountDebt
  <2> QED
    BY <2>3, <2>5, <2>6, <2>7, DebtType, LockTreated DEF TypeOK
<1> QED
  BY <1>1, <1>2, <1>3 DEF Discover

(* A tick that ends leaves the debt of the class alone, and no other.       *)
LEMMA FinishDebt ==
    ASSUME TypeOK, NEW r \in Reconciler, Finish(r)
    PROVE  /\ Debt(r)' = IF class'.gen = class'.stamped THEN 0 ELSE 1
           /\ edits' = edits /\ edits \in Nat
           /\ idle'[r] = 0 /\ pc'[r] = "idle"
<1>1. pc'[r] = "idle" /\ idle'[r] = 0 /\ edits' = edits /\ edits \in Nat
  BY FinishEnds DEF TypeOK
<1>2. ~Stamping(r)' /\ ~DownBlocked(r)'
  BY <1>1 DEF Stamping, DownBlocked
<1> QED
  BY <1>1, <1>2 DEF Debt, StampDebt, CountDebt

(* The steps of Execute that end a tick.                                    *)
LEMMA FinishKeepsLock ==
    ASSUME SoleReconciler, LockInv, TypeOK', NEW r \in Reconciler,
           \/ RefreshLock(r) \/ stampGeneration(r) \/ SurgeUp(r) \/ SurgeDown(r)
           \/ clearSurgeAndLock(r) \/ teardownNotFound(r) \/ clearLock(r)
    PROVE  LockInv'
<1> USE DEF LockInv
<1>o. \A q \in Reconciler : q = r
  BY DEF SoleReconciler
<1>f. Finish(r)
  BY DEF RefreshLock, stampGeneration, SurgeUp, SurgeDown, clearSurgeAndLock,
         teardownNotFound, clearLock
<1>e. /\ Debt(r)' = IF class'.gen = class'.stamped THEN 0 ELSE 1
      /\ edits' = edits /\ edits \in Nat /\ pc'[r] = "idle"
      /\ Debt(r) \in Nat
  BY <1>f, FinishDebt, DebtType
<1>k. ASSUME class' = class, class.strategy = "surge" \/ set'.phase = "none"
      PROVE  TickIsCurrent'
  BY <1>k, <1>o, <1>e DEF TickIsCurrent
<1>d. ASSUME class' = class, pc[r] = "planned", plan[r].action # "stamp"
      PROVE  Debt(r)' <= Debt(r) - CountDebt(r)
  <2>1. ~Stamping(r)
    BY <1>d DEF Stamping
  <2> QED
    BY <1>d, <1>e, <2>1, DebtType DEF Debt, StampDebt
<1>1. CASE RefreshLock(r)
  <2>1. /\ class' = class /\ pc[r] = "planned" /\ plan[r].action = "wait"
        /\ set'.phase = set.phase
        /\ set.phase # "none" => set'.lock = 0
    BY <1>1 DEF RefreshLock, Executing, TickIsCurrent, TypeOK, Set
  <2>2. Debt(r)' - Debt(r) <= edits' - edits
    BY <1>d, <1>e, <2>1, DebtType
  <2>3. TickIsCurrent'
    BY <1>k, <2>1 DEF TickIsCurrent
  <2> QED
    BY <2>1, <2>2, <2>3, LockTreated
<1>2. CASE stampGeneration(r)
  <2>1. /\ set' = set /\ pc[r] = "planned" /\ plan[r].action = "stamp"
        /\ class'.gen = class.gen /\ class'.stamped = plan[r].gen
        /\ class'.strategy = class.strategy
    BY <1>2 DEF stampGeneration, Executing, TypeOK, Class
  <2>2. StampDebt(r) = IF class.gen = plan[r].gen THEN 1 ELSE 2
    BY <2>1 DEF StampDebt, Stamping, StampGen
  <2>3. Debt(r)' - Debt(r) + 1 <= edits' - edits
    BY <1>e, <2>1, <2>2, DebtType DEF Debt
  <2>4. TickIsCurrent'
    BY <1>o, <1>e, <2>1 DEF TickIsCurrent
  <2> QED
    BY <1>e, <2>1, <2>3, <2>4, LockTreated
<1>3. CASE SurgeUp(r)
  <2>1. /\ class' = class /\ pc[r] = "planned" /\ plan[r].action = "surge-up"
        /\ set'.lock = 0
    BY <1>3 DEF SurgeUp, Executing, withSurgeStep
  <2>2. Debt(r)' - Debt(r) <= edits' - edits
    BY <1>d, <1>e, <2>1, DebtType
  <2>3. TickIsCurrent'
    BY <1>k, <2>1 DEF TickIsCurrent
  <2> QED
    BY <2>1, <2>2, <2>3, LockTreated
<1>4. CASE SurgeDown(r)
  <2>1. /\ class' = class /\ pc[r] = "planned" /\ plan[r].action = "surge-down"
        /\ \/ set' = set /\ set.count = 0
           \/ set'.lock = 0
    BY <1>4, SMTT(30) DEF SurgeDown, Executing, withSurgeStep, TypeOK, Set
  <2>2. Debt(r)' - Debt(r) <= edits' - edits
    BY <1>d, <1>e, <2>1, DebtType
  <2>3. set' = set /\ set.count = 0 => Debt(r)' - Debt(r) + 1 <= edits' - edits
    <3>1. set.count = 0 => CountDebt(r) = 1
      BY <2>1 DEF CountDebt, DownBlocked
    <3> QED
      BY <1>d, <1>e, <2>1, <3>1, DebtType
  <2>4. TickIsCurrent'
    BY <1>k, <2>1 DEF TickIsCurrent
  <2> QED
    BY <2>1, <2>2, <2>3, <2>4, LockTreated
<1>5. CASE clearSurgeAndLock(r)
  <2>1. /\ class' = class /\ pc[r] = "planned" /\ plan[r].action # "stamp"
        /\ set'.phase = "none"
    BY <1>5 DEF clearSurgeAndLock, Executing, TypeOK, Set
  <2>2. Debt(r)' - Debt(r) <= edits' - edits
    BY <1>d, <1>e, <2>1, DebtType
  <2> QED
    BY <1>k, <2>1, <2>2, LockTreated
<1>6. CASE teardownNotFound(r) \/ clearLock(r)
  <2>1. /\ class' = class /\ pc[r] \in {"locked", "torn"}
        /\ set'.phase = set.phase
    BY <1>6 DEF teardownNotFound, clearLock, TypeOK, Set
  <2>2. set'.phase = "none"
    BY <2>1 DEF TickIsCurrent
  <2>3. ~Stamping(r)
    BY <2>1 DEF Stamping
  <2>4. Debt(r)' - Debt(r) <= edits' - edits
    BY <1>e, <2>1, <2>3, DebtType DEF Debt, StampDebt
  <2> QED
    BY <1>k, <2>1, <2>2, <2>4, LockTreated
<1> QED
  BY <1>1, <1>2, <1>3, <1>4, <1>5, <1>6

(* The steps inside an in-place teardown: there is no cycle.                *)
LEMMA TeardownKeepsLock ==
    ASSUME SoleReconciler, LockInv, TypeOK', NEW r \in Reconciler,
           setLock(r) \/ teardownRequest(r)
    PROVE  LockInv'
<1> USE DEF LockInv
<1>o. \A q \in Reconciler : q = r
  BY DEF SoleReconciler
<1>1. /\ \/ pc[r] = "planned" /\ plan[r].action = "teardown"
         \/ pc[r] = "locked"
      /\ pc'[r] \in {"locked", "torn"}
      /\ UNCHANGED <<class, plan, seenClass, seenSet, edits>>
      /\ set'.phase = set.phase
  BY DEF setLock, teardownRequest, Executing, TypeOK, Set
<1>2. class.strategy = "in-place" /\ set'.phase = "none"
  BY <1>1 DEF TickIsCurrent
<1>3. Debt(r)' - Debt(r) <= edits' - edits
  <2>1. StampDebt(r)' = StampDebt(r)
    BY <1>1 DEF StampDebt, Stamping
  <2>2. CountDebt(r)' = 0
    BY <1>1 DEF CountDebt, DownBlocked
  <2> QED
    BY <1>1, <2>1, <2>2, DebtType DEF Debt, TypeOK
<1>4. TickIsCurrent'
  BY <1>o, <1>1, <1>2 DEF TickIsCurrent
<1> QED
  BY <1>2, <1>3, <1>4, LockTreated

(* The writers of the count.  An edit pays for the debt it makes.           *)
LEMMA CountWriteKeepsLock ==
    ASSUME SoleReconciler, LockInv, TypeOK',
           set'.phase = set.phase, set'.lock = set.lock,
           UNCHANGED <<class, pc, seenClass, seenSet, plan, idle>>,
           \/ edits' = edits /\ (set'.count = 0 => set.count = 0)
           \/ edits' = edits + 1
    PROVE  LockInv'
<1> USE DEF LockInv
<1>1. TickIsCurrent'
  BY DEF TickIsCurrent
<1>2. CASE Reconciler = {}
  BY <1>1, <1>2 DEF LockAge
<1>3. ASSUME NEW r \in Reconciler PROVE LockInv'
  <2>1. StampDebt(r)' = StampDebt(r)
    BY DEF StampDebt, Stamping, StampGen
  <2>3. /\ CountDebt(r) \in 0 .. 1 /\ CountDebt(r)' \in 0 .. 1
        /\ edits \in Nat
    BY DEF CountDebt, TypeOK
  <2>2. CountDebt(r)' - CountDebt(r) <= edits' - edits
    <3>1. CASE edits' = edits + 1
      BY <2>3, <3>1
    <3>2. CASE edits' = edits /\ (set'.count = 0 => set.count = 0)
      <4>1. DownBlocked(r)' => DownBlocked(r)
        BY <3>2 DEF DownBlocked
      <4>2. CountDebt(r)' <= CountDebt(r)
        BY <4>1 DEF CountDebt
      <4> QED
        BY <2>3, <3>2, <4>2
    <3> QED
      BY <3>1, <3>2
  <2>4. Debt(r)' - Debt(r) <= edits' - edits
    BY <2>1, <2>2, <2>3, DebtType DEF Debt, TypeOK
  <2> QED
    BY <1>1, <2>4, LockTreated
<1> QED
  BY <1>2, <1>3

(* So does an edit of the class.                                            *)
LEMMA EditClassKeepsLock ==
    ASSUME SoleReconciler, LockInv, TypeOK', NEW g \in Gen, EditClass(g)
    PROVE  LockInv'
<1> USE DEF LockInv
<1>1. /\ UNCHANGED <<set, pc, seenClass, seenSet, plan, idle>>
      /\ edits' = edits + 1 /\ edits \in Nat
      /\ class'.stamped = class.stamped /\ class'.strategy = class.strategy
  BY DEF EditClass, MayEdit, TypeOK, Class
<1>2. TickIsCurrent'
  BY <1>1 DEF TickIsCurrent
<1>3. CASE Reconciler = {}
  BY <1>1, <1>2, <1>3 DEF LockAge
<1>4. ASSUME NEW r \in Reconciler PROVE LockInv'
  <2>1. StampDebt(r)' <= StampDebt(r) + 1
    BY <1>1 DEF StampDebt, Stamping, StampGen
  <2>2. CountDebt(r)' = CountDebt(r)
    BY <1>1 DEF CountDebt, DownBlocked
  <2>3. StampDebt(r)' \in Nat
    BY DEF StampDebt
  <2>4. Debt(r)' - Debt(r) <= edits' - edits
    BY <1>1, <2>1, <2>2, <2>3, DebtType DEF Debt
  <2> QED
    BY <1>1, <1>2, <2>4, LockTreated
<1> QED
  BY <1>3, <1>4

(* Time passes for the lock and for the tick alike.                         *)
LEMMA AdvanceTimeKeepsLock ==
    ASSUME SoleReconciler, ~MayStall, LockInv, TypeOK', AdvanceTime
    PROVE  LockInv'
<1> USE DEF LockInv
<1>1. /\ UNCHANGED <<class, pc, seenClass, plan, edits>>
      /\ set'.phase = set.phase /\ set'.count = set.count
      /\ set'.lock <= set.lock + 1
      /\ \A r \in Reconciler : /\ seenSet'[r].phase = seenSet[r].phase
                                /\ seenSet'[r].count = seenSet[r].count
                                /\ idle'[r] = idle[r] + 1
  <2>1. UNCHANGED <<class, pc, seenClass, plan, edits>>
    BY DEF AdvanceTime
  <2>2. /\ set' = [set EXCEPT !.lock = Older(set.lock)]
        /\ set \in Set /\ set.lock \in Int
    BY NatConstants DEF AdvanceTime, TypeOK, Set
  <2>3. /\ set'.phase = set.phase /\ set'.count = set.count
        /\ set'.lock <= set.lock + 1
    BY <2>2 DEF Set, Older
  <2>4. ASSUME NEW r \in Reconciler
        PROVE  /\ seenSet'[r].phase = seenSet[r].phase
               /\ seenSet'[r].count = seenSet[r].count
               /\ idle'[r] = idle[r] + 1
    <3>1. /\ seenSet[r] \in Set
          /\ seenSet'[r] = [seenSet[r] EXCEPT !.lock = Older(seenSet[r].lock)]
          /\ idle' = [q \in Reconciler |-> idle[q] + 1]
      BY DEF AdvanceTime, TypeOK
    <3> QED
      BY <3>1 DEF Set
  <2> QED
    BY <2>1, <2>3, <2>4
<1>2. TickIsCurrent'
  BY <1>1 DEF TickIsCurrent
<1>3. CASE Reconciler = {}
  BY <1>1, <1>2, <1>3 DEF LockAge
<1>4. ASSUME NEW r \in Reconciler PROVE LockInv'
  <2>1. StampDebt(r)' = StampDebt(r)
    BY <1>1 DEF StampDebt, Stamping, StampGen
  <2>2. CountDebt(r)' = CountDebt(r)
    BY <1>1 DEF CountDebt, DownBlocked
  <2>3. Debt(r)' - Debt(r) <= edits' - edits
    BY <1>1, <2>1, <2>2, DebtType DEF Debt, TypeOK
  <2> QED
    BY <1>1, <1>2, <2>3, LockTreated
<1> QED
  BY <1>3, <1>4

LEMMA LockInit == Init => LockInv
<1> SUFFICES ASSUME Init PROVE LockInv
  OBVIOUS
<1>1. TypeOK
  BY InitTyped
<1>2. /\ \A r \in Reconciler : pc[r] = "idle"
      /\ set.phase = "none" /\ class.gen = class.stamped /\ edits = 0
  BY DEF Init
<1>3. \A r \in Reconciler : Debt(r) = 0
  BY <1>2 DEF Debt, StampDebt, CountDebt, Stamping, DownBlocked
<1> QED
  BY <1>1, <1>2, <1>3 DEF LockInv, TickIsCurrent, LockAge

LEMMA LockStep ==
    ASSUME SoleReconciler, ~MayStall, ~StrategyEdits, LockInv, [Next]_vars
    PROVE  LockInv'
<1>t. TypeOK /\ TypeOK'
  BY NextTyped DEF LockInv
<1>s. set \in Set /\ group \in NodeGroup /\ set.count \in Nat
  BY <1>t DEF TypeOK, Set
<1>1. CASE UNCHANGED vars
  BY <1>1, <1>t, CountWriteKeepsLock DEF vars
<1>2. ASSUME NEW r \in Reconciler, Discover(r) \/ Execute(r) \/ Abandon(r)
      PROVE  LockInv'
  <2>1. ~Abandon(r)
    BY DEF Abandon
  <2> QED
    BY <1>2, <1>t, <2>1, DiscoverKeepsLock, FinishKeepsLock, TeardownKeepsLock
       DEF Execute
<1>3. CASE Autoscaler
  <2>1. ASSUME NEW delta, ScaleDiscover(delta) PROVE LockInv'
    BY <2>1, <1>t, CountWriteKeepsLock DEF ScaleDiscover
  <2>2. CASE IncreaseMachineCount
    <3>1. group.delta \in Nat
      BY <1>s DEF NodeGroup
    <3>2. set' = [set EXCEPT !.count = set.count + group.delta]
      BY <2>2 DEF IncreaseMachineCount
    <3>3. /\ set'.phase = set.phase /\ set'.lock = set.lock
          /\ set'.count = 0 => set.count = 0
      BY <1>s, <3>1, <3>2 DEF Set
    <3> QED
      BY <2>2, <1>t, <3>3, CountWriteKeepsLock DEF IncreaseMachineCount
  <2>3. CASE ScaleRejected
    BY <2>3, <1>t, CountWriteKeepsLock DEF ScaleRejected
  <2> QED
    BY <1>3, <2>1, <2>2, <2>3 DEF Autoscaler
<1>4. CASE Operator
  <2>1. ASSUME NEW n, EditCount(n) PROVE LockInv'
    <3>1. set'.phase = set.phase /\ set'.lock = set.lock
      BY <2>1, <1>s DEF EditCount, Set
    <3> QED
      BY <2>1, <1>t, <3>1, CountWriteKeepsLock DEF EditCount, MayEdit
  <2>2. ASSUME NEW s, EditStrategy(s) PROVE FALSE
    BY <2>2 DEF EditStrategy
  <2> QED
    BY <1>4, <1>t, <2>1, <2>2, EditClassKeepsLock DEF Operator
<1>5. CASE Omni
  BY <1>5, <1>t, CountWriteKeepsLock
     DEF Omni, CreateRequest, RemoveOldest, StartProvisioning, Provision,
         FailProvisioning, RetryProvisioning, ChangeStage
<1>6. CASE AdvanceTime
  BY <1>6, <1>t, AdvanceTimeKeepsLock
<1> QED
  BY <1>1, <1>2, <1>3, <1>4, <1>5, <1>6 DEF Next

(* The autoscaler's TTL leaves room for the ticks that the operator's edits *)
(* can use up, and for one more.                                            *)
LockTiming == ScalerTTL > TickInterval * (MaxEdits + 1)

(* The autoscaler stays paused from SurgeUp until the cycle ends: while one *)
(* reconciler finishes a tick every TickInterval and the strategy stays,    *)
(* the rotation lock of a set in a surge cycle is younger than the          *)
(* autoscaler's TTL, whoever edits the class or writes the count, and even  *)
(* when ticks go into stamping or a SurgeDown that finds a count of zero.   *)
THEOREM LockCovers ==
    ASSUME SoleReconciler, ~MayStall, ~StrategyEdits, LockTiming
    PROVE  Spec => []LockCoversCycle
<1>1. Init => LockInv
  BY LockInit
<1>2. LockInv /\ [Next]_vars => LockInv'
  BY LockStep
<1>3. LockInv => LockCoversCycle
  <2> SUFFICES ASSUME LockInv, set.phase # "none" PROVE set.lock < ScalerTTL
    BY DEF LockCoversCycle, isRotationLockActive
  <2>1. PICK r \in Reconciler : set.lock <= idle[r] + Budget(edits - Debt(r))
    BY DEF LockInv, LockAge
  <2>2. /\ Debt(r) \in Nat /\ edits \in 0 .. MaxEdits /\ MaxEdits \in Nat
        /\ idle[r] \in 0 .. TickInterval /\ TickInterval \in Nat
        /\ set.lock \in Nat /\ ScalerTTL \in Nat
    BY DebtType, RotationAssumption DEF LockInv, TypeOK, Set
  <2>3. /\ Budget(edits - Debt(r)) <= Budget(MaxEdits)
        /\ Budget(edits - Debt(r)) \in Int /\ Budget(MaxEdits) \in Int
        /\ Budget(MaxEdits + 1) = Budget(MaxEdits) + TickInterval
    <3>1. /\ edits - Debt(r) \in Int /\ MaxEdits \in Int
          /\ edits - Debt(r) <= MaxEdits
      BY <2>2
    <3> QED
      BY <3>1, BudgetFacts
  <2>4. ScalerTTL > Budget(MaxEdits + 1)
    BY DEF LockTiming, Budget
  <2> QED
    BY <2>1, <2>2, <2>3, <2>4
<1> QED
  BY <1>1, <1>2, <1>3, PTL DEF Spec

-----------------------------------------------------------------------------
(* The floor.                                                               *)
(*                                                                          *)
(* Plan looks at the floor when it decides, several steps and possibly      *)
(* several ticks before a member goes: an in-place teardown comes two       *)
(* writes later, and the member that a surge cycle gives up goes at Omni's  *)
(* pleasure after SurgeDown.  The invariant carries the margin that Plan    *)
(* saw from one to the other.                                               *)

DistinctIds ==
    \A i, j \in DOMAIN requests : requests[i].id = requests[j].id => i = j

(* The serving members that the teardown of id leaves,                      *)
Spared(reqs, id) == {i \in Provisioned(reqs) : reqs[i].id # id}

(* and those that were there when the cycle began.                          *)
Veterans(reqs, n) == {i \in Provisioned(reqs) : i <= n}

(* A tick that meets a cycle has read the class of the cycle, and one that  *)
(* has locked the set is about to tear down.                                *)
TickIsSound ==
    \A r \in Reconciler :
        /\ pc[r] \in {"class", "set"} =>
              /\ seenClass[r].strategy # "off"
              /\ set.phase # "none" => seenClass[r] = class
        /\ pc[r] = "locked" => plan[r].action = "teardown"

(* Only SurgeDown leaves a member to be removed, and only one.              *)
SizeBound ==
    Len(requests) <= set.count + (IF set.phase = "wait-down" THEN 1 ELSE 0)

(* The members that served when the cycle began keep serving, and the one   *)
(* that joins is of the class's generation; together they leave the margin  *)
(* that the removal takes.                                                  *)
CycleFloor ==
    /\ set.phase = "wait-up" /\ class.strategy = "surge" =>
          /\ Cardinality(Veterans(requests, set.orig)) >= MinHealthy
          /\ Len(requests) = set.orig + 1 =>
                requests[set.orig + 1].gen = class.gen
    /\ set.phase = "wait-down" =>
          /\ class.strategy = "surge"
          /\ Len(requests) > set.count =>
                Cardinality(Provisioned(requests)) >= MinHealthy + 1

(* What Plan found of the floor is still so when its Decision is executed.  *)
PlanFloor ==
    \A r \in Reconciler :
        /\ plan[r].action = "surge-up" =>
              Cardinality(Provisioned(requests)) >= MinHealthy
        /\ plan[r].action = "surge-down" =>
              /\ class.strategy = "surge"
              /\ Cardinality(Provisioned(requests)) >= MinHealthy + 1
        /\ plan[r].action = "complete" => Len(requests) <= set.count
        /\ plan[r].action = "teardown" =>
              /\ set.phase # "none" => class.strategy = "in-place"
              /\ Cardinality(Spared(requests, plan[r].target)) >= MinHealthy

FloorInv ==
    /\ CountInv
    /\ DistinctIds
    /\ TickIsSound
    /\ SizeBound
    /\ CycleFloor
    /\ PlanFloor

LEMMA FirstNaturals ==
    ASSUME NEW n \in Nat
    PROVE  IsFiniteSet(1 .. n) /\ Cardinality(1 .. n) = n
<1>1. 1 \in Int /\ n \in Int
  OBVIOUS
<1>2. /\ IsFiniteSet(1 .. n)
      /\ Cardinality(1 .. n) = IF 1 > n THEN 0 ELSE n - 1 + 1
  BY <1>1, FS_Interval
<1> QED
  BY <1>2

(* Counting the members of a set.                                           *)
LEMMA MemberSets ==
    ASSUME NEW s \in Seq(Request), NEW S \in SUBSET DOMAIN s
    PROVE  /\ IsFiniteSet(S) /\ Cardinality(S) \in Nat
           /\ Cardinality(S) <= Len(s)
           /\ \A T \in SUBSET S : /\ Cardinality(T) \in Nat
                                  /\ Cardinality(T) <= Cardinality(S)
<1>1. DOMAIN s = 1 .. Len(s) /\ Len(s) \in Nat
  OBVIOUS
<1>2. IsFiniteSet(1 .. Len(s)) /\ Cardinality(1 .. Len(s)) = Len(s)
  BY <1>1, FirstNaturals
<1>3. IsFiniteSet(S) /\ Cardinality(S) <= Len(s)
  BY <1>1, <1>2, FS_Subset
<1>4. \A T \in SUBSET S : IsFiniteSet(T) /\ Cardinality(T) <= Cardinality(S)
  BY <1>3, FS_Subset
<1> QED
  BY <1>3, <1>4, FS_CardinalityType

(* What is left of a set of members when the i-th one goes.                 *)
Survivors(s, i, S) ==
    {j \in 1 .. Len(s) - 1 : (IF j < i THEN j ELSE j + 1) \in S}

LEMMA SurvivorsCount ==
    ASSUME NEW s \in Seq(Request), NEW i \in DOMAIN s,
           NEW S \in SUBSET DOMAIN s
    PROVE  Cardinality(S \ {i}) <= Cardinality(Survivors(s, i, S))
<1> DEFINE f == [k \in S \ {i} |-> IF k < i THEN k ELSE k - 1]
           W == Survivors(s, i, S)
<1>1. DOMAIN s = 1 .. Len(s) /\ Len(s) \in Nat
  OBVIOUS
<1>2. \A k \in S \ {i} : (IF k < i THEN k ELSE k - 1) \in W
  BY <1>1 DEF Survivors
<1>3. f \in [S \ {i} -> W]
  BY <1>2
<1>4. \A k, l \in S \ {i} : f[k] = f[l] => k = l
  BY <1>1
<1>5. f \in Injection(S \ {i}, W)
  BY <1>3, <1>4 DEF Injection, IsInjective
<1>6. IsFiniteSet(W)
  <2>1. W \in SUBSET (1 .. Len(s))
    BY <1>1 DEF Survivors
  <2> QED
    BY <1>1, <2>1, FirstNaturals, FS_Subset
<1> QED
  BY <1>5, <1>6, FS_Injection

(* A member fewer: what became of those that serve.                         *)
LEMMA WithoutMembers ==
    ASSUME NEW s \in Seq(Request), NEW i \in DOMAIN s
    PROVE  /\ Len(Without(s, i)) = Len(s) - 1
           /\ Provisioned(Without(s, i)) = Survivors(s, i, Provisioned(s))
           /\ \A id : Spared(Without(s, i), id) = Survivors(s, i, Spared(s, id))
           /\ \A j \in 1 .. Len(s) - 1 :
                 Without(s, i)[j] = s[IF j < i THEN j ELSE j + 1]
<1> DEFINE w == Without(s, i)
<1>1. DOMAIN s = 1 .. Len(s) /\ Len(s) \in Nat /\ i \in 1 .. Len(s)
  OBVIOUS
<1>2. w \in Seq(Request) /\ DOMAIN w = 1 .. Len(s) - 1 /\ Len(s) - 1 \in Nat
  BY <1>1, WithoutType DEF Without
<1>3. Len(w) = Len(s) - 1
  BY <1>2
<1>4. \A j \in 1 .. Len(s) - 1 : w[j] = s[IF j < i THEN j ELSE j + 1]
  BY <1>1 DEF Without
<1>5. \A j \in 1 .. Len(s) - 1 : (IF j < i THEN j ELSE j + 1) \in DOMAIN s
  BY <1>1
<1> HIDE DEF w
<1>6. Provisioned(w) = Survivors(s, i, Provisioned(s))
  BY <1>2, <1>4, <1>5 DEF Provisioned, Survivors
<1>7. \A id : Spared(w, id) = Survivors(s, i, Spared(s, id))
  BY <1>2, <1>4, <1>5 DEF Provisioned, Survivors, Spared
<1> QED
  BY <1>3, <1>4, <1>6, <1>7 DEF w

(* Dropping the oldest member is removing the first.                        *)
LEMMA TailIsWithout ==
    ASSUME NEW s \in Seq(Request), Len(s) > 0
    PROVE  Tail(s) = Without(s, 1) /\ 1 \in DOMAIN s
<1> DEFINE w == Without(s, 1)
<1>1. /\ Tail(s) \in Seq(Request) /\ Len(Tail(s)) = Len(s) - 1
      /\ \A j \in 1 .. Len(s) - 1 : Tail(s)[j] = s[j + 1]
      /\ 1 \in DOMAIN s
  OBVIOUS
<1>2. w \in Seq(Request)
  BY <1>1, WithoutType
<1>3. Len(w) = Len(s) - 1 /\ \A j \in 1 .. Len(s) - 1 : w[j] = s[j + 1]
  <2>1. /\ Len(w) = Len(s) - 1
        /\ \A j \in 1 .. Len(s) - 1 : w[j] = s[IF j < 1 THEN j ELSE j + 1]
    BY <1>1, WithoutMembers
  <2>2. \A j \in 1 .. Len(s) - 1 : ~(j < 1)
    OBVIOUS
  <2> HIDE DEF w
  <2> QED
    BY <2>1, <2>2
<1> HIDE DEF w
<1>4. Tail(s) = w
  BY <1>1, <1>2, <1>3, SeqEqual
<1> QED
  BY <1>1, <1>4 DEF w

(* How many serve after a removal.                                          *)
LEMMA RemovalCount ==
    ASSUME NEW s \in Seq(Request), NEW i \in DOMAIN s
    PROVE  /\ Cardinality(Provisioned(Without(s, i)))
                >= Cardinality(Provisioned(s)) - 1
           /\ \A id : s[i].id = id =>
                 Cardinality(Spared(Without(s, i), id))
                    >= Cardinality(Spared(s, id))
<1>1. Provisioned(s) \in SUBSET DOMAIN s
  BY DEF Provisioned
<1>2. \A id : Spared(s, id) \in SUBSET DOMAIN s
  BY DEF Provisioned, Spared
<1> DEFINE P == Provisioned(s)
           W == Without(s, i)
<1>3. W \in Seq(Request)
  BY WithoutType
<1>4. /\ Cardinality(P) \in Nat /\ IsFiniteSet(P)
      /\ Cardinality(P \ {i}) \in Nat
  BY <1>1, MemberSets
<1>5. Cardinality(P \ {i}) >= Cardinality(P) - 1
  <2>1. Cardinality(P \ {i}) =
           IF i \in P THEN Cardinality(P) - 1 ELSE Cardinality(P)
    BY <1>4, FS_RemoveElement
  <2> HIDE DEF P
  <2> QED
    BY <1>4, <2>1
<1>6. Cardinality(P \ {i}) <= Cardinality(Provisioned(W))
  BY <1>1, WithoutMembers, SurvivorsCount
<1>7. Cardinality(Provisioned(W)) \in Nat
  <2>1. Provisioned(W) \in SUBSET DOMAIN W
    BY DEF Provisioned
  <2> HIDE DEF W
  <2> QED
    BY <1>3, <2>1, MemberSets
<1>8. ASSUME NEW id, s[i].id = id
      PROVE  Cardinality(Spared(W, id)) >= Cardinality(Spared(s, id))
  <2>1. Spared(s, id) \ {i} = Spared(s, id)
    BY <1>8 DEF Spared
  <2>2. Spared(W, id) = Survivors(s, i, Spared(s, id))
    BY WithoutMembers
  <2>3. Cardinality(Spared(s, id)) <= Cardinality(Spared(W, id))
    BY <1>2, <2>1, <2>2, SurvivorsCount
  <2>4. Cardinality(Spared(s, id)) \in Nat
    BY <1>2, MemberSets
  <2>5. Cardinality(Spared(W, id)) \in Nat
    <3>1. Spared(W, id) \in SUBSET DOMAIN W
      BY DEF Spared, Provisioned
    <3> HIDE DEF W
    <3> QED
      BY <1>3, <3>1, MemberSets
  <2> HIDE DEF W
  <2> QED
    BY <2>3, <2>4, <2>5
<1> HIDE DEF P, W
<1>9. Cardinality(Provisioned(W)) >= Cardinality(P) - 1
  BY <1>4, <1>5, <1>6, <1>7
<1> QED
  BY <1>8, <1>9 DEF P, W

(* More members serve when none goes and none of them stops.                *)
LEMMA GrowthCount ==
    ASSUME NEW s \in Seq(Request), NEW t \in Seq(Request),
           Provisioned(s) \subseteq Provisioned(t),
           \A i \in DOMAIN s : i \in DOMAIN t /\ t[i].id = s[i].id
    PROVE  /\ Cardinality(Provisioned(s)) <= Cardinality(Provisioned(t))
           /\ \A id : Cardinality(Spared(s, id)) <= Cardinality(Spared(t, id))
           /\ \A n : Cardinality(Veterans(s, n)) <= Cardinality(Veterans(t, n))
<1>1. Provisioned(t) \in SUBSET DOMAIN t /\ Provisioned(s) \in SUBSET DOMAIN s
  BY DEF Provisioned
<1>2. \A id : /\ Spared(t, id) \in SUBSET DOMAIN t
              /\ Spared(s, id) \in SUBSET Spared(t, id)
  BY <1>1 DEF Spared
<1>3. \A n : /\ Veterans(t, n) \in SUBSET DOMAIN t
             /\ Veterans(s, n) \in SUBSET Veterans(t, n)
  BY <1>1 DEF Veterans
<1> QED
  BY <1>1, <1>2, <1>3, MemberSets

(* The numbers the invariant is about.                                      *)
LEMMA MembersServing ==
    ASSUME NEW s \in Seq(Request)
    PROVE  /\ Cardinality(Provisioned(s)) \in Nat
           /\ \A id : Cardinality(Spared(s, id)) \in Nat
           /\ \A n : Cardinality(Veterans(s, n)) \in Nat
<1>1. /\ Provisioned(s) \in SUBSET DOMAIN s
      /\ \A id : Spared(s, id) \in SUBSET DOMAIN s
      /\ \A n : Veterans(s, n) \in SUBSET DOMAIN s
  BY DEF Provisioned, Spared, Veterans
<1> QED
  BY <1>1, MemberSets

LEMMA FloorTypes ==
    ASSUME TypeOK
    PROVE  /\ requests \in Seq(Request) /\ Len(requests) \in Nat
           /\ DOMAIN requests = 1 .. Len(requests)
           /\ set.count \in Nat /\ set.orig \in Nat /\ MinHealthy \in Nat
           /\ set.phase \in {"none", "wait-up", "wait-down"}
<1>1. /\ requests \in Seq(Request) /\ Len(requests) \in Nat
      /\ DOMAIN requests = 1 .. Len(requests)
  BY DEF TypeOK
<1>2. /\ set.count \in Nat /\ set.orig \in Nat /\ MinHealthy \in Nat
      /\ set.phase \in {"none", "wait-up", "wait-down"}
  BY RotationAssumption DEF TypeOK, Set, Phase
<1> QED
  BY <1>1, <1>2

LEMMA FloorInit == Init => FloorInv
<1> SUFFICES ASSUME Init PROVE FloorInv
  OBVIOUS
<1>1. CountInv
  BY CountInit
<1>2. /\ \A r \in Reconciler : pc[r] = "idle" /\ plan[r].action = "wait"
      /\ set.phase = "none" /\ set.count = InitialCount
  BY DEF Init, NoPlan
<1>3. DOMAIN requests = 1 .. InitialCount
  BY DEF Init
<1>4. Len(requests) = InitialCount
  BY <1>1, <1>3, RotationAssumption DEF CountInv, TypeOK
<1>5. \A i \in 1 .. InitialCount : requests[i].id = InitialIds[i]
  BY DEF Init
<1>6. InitialIds \in [1 .. InitialCount -> Id] /\ Distinct(InitialIds)
  BY RotationAssumption DEF InitialIds
<1>7. DistinctIds
  BY <1>3, <1>5, <1>6 DEF DistinctIds, Distinct
<1>8. SizeBound
  BY <1>2, <1>4, RotationAssumption DEF SizeBound
<1> QED
  BY <1>1, <1>2, <1>7, <1>8
  DEF FloorInv, TickIsSound, CycleFloor, PlanFloor

(* The steps that leave the members, and what is planned for them, alone.   *)
LEMMA MembersAlone ==
    ASSUME FloorInv, CountInv', TickIsSound', requests' = requests,
           SameSurge(set', set),
           \/ class'.gen = class.gen /\ class'.strategy = class.strategy
           \/ set.phase = "none",
           \A r \in Reconciler : plan'[r] \in {plan[r], NoPlan}
    PROVE  FloorInv'
<1>n. NoPlan.action = "wait"
  BY DEF NoPlan
<1>s. /\ set'.count = set.count /\ set'.phase = set.phase
      /\ set'.orig = set.orig
  BY DEF SameSurge
<1>1. DistinctIds' /\ SizeBound'
  BY <1>s DEF FloorInv, DistinctIds, SizeBound
<1>2. CycleFloor'
  BY <1>s DEF FloorInv, CycleFloor
<1>3. PlanFloor'
  <2> SUFFICES ASSUME NEW r \in Reconciler, plan'[r] = plan[r]
               PROVE  PlanFloor!(r)'
    BY <1>n DEF PlanFloor
  <2>1. plan[r].action = "surge-down" => set.phase = "wait-up"
    BY DEF FloorInv, CountInv, PlanIsCurrent
  <2> QED
    BY <1>s, <2>1 DEF FloorInv, PlanFloor
<1> QED
  BY <1>1, <1>2, <1>3 DEF FloorInv

(* A member joins, or one gets further with its provisioning.               *)
Joins ==
    /\ Len(requests') = Len(requests) + 1
    /\ Len(requests) < set.count
    /\ requests'[Len(requests) + 1].gen = class.gen
    /\ \A i \in DOMAIN requests :
          requests'[Len(requests) + 1].id # requests[i].id

SameMembers ==
    \A i \in DOMAIN requests : /\ i \in DOMAIN requests'
                               /\ requests'[i].id = requests[i].id
                               /\ requests'[i].gen = requests[i].gen

Grown ==
    /\ UNCHANGED <<class, set, pc, seenClass, plan>>
    /\ Provisioned(requests) \subseteq Provisioned(requests')
    /\ SameMembers
    /\ Len(requests') = Len(requests) \/ Joins

(* The margins grow with the members.                                       *)
Margins ==
    /\ Cardinality(Provisioned(requests')) >= Cardinality(Provisioned(requests))
    /\ \A id : Cardinality(Spared(requests', id)) >= Cardinality(Spared(requests, id))
    /\ \A n : Cardinality(Veterans(requests', n)) >= Cardinality(Veterans(requests, n))

LEMMA GrownMargins ==
    ASSUME TypeOK, TypeOK', Grown
    PROVE  Margins
<1>1. requests \in Seq(Request) /\ requests' \in Seq(Request)
  BY DEF TypeOK
<1>2. /\ Cardinality(Provisioned(requests)) \in Nat
      /\ \A id : Cardinality(Spared(requests, id)) \in Nat
      /\ \A n : Cardinality(Veterans(requests, n)) \in Nat
  BY <1>1, MembersServing
<1>4. /\ Cardinality(Provisioned(requests')) \in Nat
      /\ \A id : Cardinality(Spared(requests', id)) \in Nat
      /\ \A n : Cardinality(Veterans(requests', n)) \in Nat
  BY <1>1, MembersServing
<1>5. /\ Provisioned(requests) \subseteq Provisioned(requests')
      /\ \A i \in DOMAIN requests :
            i \in DOMAIN requests' /\ requests'[i].id = requests[i].id
  BY DEF Grown, SameMembers
<1>6. /\ Cardinality(Provisioned(requests)) <= Cardinality(Provisioned(requests'))
      /\ \A id : Cardinality(Spared(requests, id))
                    <= Cardinality(Spared(requests', id))
      /\ \A n : Cardinality(Veterans(requests, n))
                    <= Cardinality(Veterans(requests', n))
  BY <1>1, <1>5, GrowthCount
<1> QED
  BY <1>2, <1>4, <1>6 DEF Margins

LEMMA GrownKeepsFloor ==
    ASSUME FloorInv, CountInv', Grown
    PROVE  FloorInv'
<1>t. TypeOK /\ TypeOK'
  BY DEF FloorInv, CountInv
<1>u. UNCHANGED <<class, set, pc, seenClass, plan>>
  BY DEF Grown
<1>a. /\ Len(requests) \in Nat /\ Len(requests') \in Nat
      /\ set.count \in Nat /\ set.orig \in Nat /\ MinHealthy \in Nat
  BY <1>t, FloorTypes DEF TypeOK
<1>q. requests \in Seq(Request) /\ requests' \in Seq(Request)
  BY <1>t DEF TypeOK
<1>d. /\ DOMAIN requests = 1 .. Len(requests)
      /\ DOMAIN requests' = 1 .. Len(requests')
  BY <1>t DEF TypeOK
<1>m. Margins
  BY <1>t, GrownMargins
<1>n. /\ Cardinality(Provisioned(requests)) \in Nat
      /\ Cardinality(Provisioned(requests')) \in Nat
  BY <1>q, MembersServing
<1>o. /\ \A id : /\ Cardinality(Spared(requests, id)) \in Nat
                 /\ Cardinality(Spared(requests', id)) \in Nat
      /\ \A n : /\ Cardinality(Veterans(requests, n)) \in Nat
                /\ Cardinality(Veterans(requests', n)) \in Nat
  BY <1>q, MembersServing
<1>j. Len(requests') = Len(requests) \/ Joins
  BY DEF Grown
<1>1. DistinctIds'
  <2>1. DistinctIds /\ SameMembers
    BY DEF FloorInv, Grown
  <2>2. CASE Len(requests') = Len(requests)
    BY <1>d, <2>1, <2>2 DEF DistinctIds, SameMembers
  <2>3. CASE Joins
    <3>1. DOMAIN requests' = DOMAIN requests \cup {Len(requests) + 1}
      BY <1>a, <1>d, <2>3 DEF Joins
    <3> QED
      BY <2>1, <2>3, <3>1 DEF DistinctIds, SameMembers, Joins
  <2> QED
    BY <1>j, <2>2, <2>3
<1>2. TickIsSound'
  BY <1>u DEF FloorInv, TickIsSound
<1>3. SizeBound'
  <2>1. SizeBound
    BY DEF FloorInv
  <2> QED
    BY <1>a, <1>j, <1>u, <2>1 DEF SizeBound, Joins
<1>4. CycleFloor'
  <2>1. ASSUME set.phase = "wait-up", class.strategy = "surge"
        PROVE  /\ Cardinality(Veterans(requests', set.orig)) >= MinHealthy
               /\ Len(requests') = set.orig + 1 =>
                     requests'[set.orig + 1].gen = class.gen
    <3>1. /\ Cardinality(Veterans(requests, set.orig)) >= MinHealthy
          /\ Len(requests) = set.orig + 1 =>
                requests[set.orig + 1].gen = class.gen
      BY <2>1 DEF FloorInv, CycleFloor
    <3>2. Cardinality(Veterans(requests', set.orig)) >= MinHealthy
      <4>1. Cardinality(Veterans(requests', set.orig))
              >= Cardinality(Veterans(requests, set.orig))
        BY <1>m DEF Margins
      <4>2. /\ Cardinality(Veterans(requests, set.orig)) \in Nat
            /\ Cardinality(Veterans(requests', set.orig)) \in Nat
        BY <1>o
      <4> QED
        BY <1>a, <3>1, <4>1, <4>2
    <3>3. ASSUME Len(requests') = set.orig + 1
          PROVE  requests'[set.orig + 1].gen = class.gen
      <4>1. CASE Len(requests') = Len(requests)
        <5>1. set.orig + 1 \in DOMAIN requests
          BY <1>a, <1>d, <3>3, <4>1
        <5> QED
          BY <3>1, <3>3, <4>1, <5>1 DEF Grown, SameMembers
      <4>2. CASE Joins
        <5>1. Len(requests) = set.orig
          BY <1>a, <3>3, <4>2 DEF Joins
        <5> QED
          BY <4>2, <5>1 DEF Joins
      <4> QED
        BY <1>j, <4>1, <4>2
    <3> QED
      BY <3>2, <3>3
  <2>2. ASSUME set.phase = "wait-down"
        PROVE  /\ class.strategy = "surge"
               /\ Len(requests') > set.count =>
                     Cardinality(Provisioned(requests')) >= MinHealthy + 1
    <3>1. /\ class.strategy = "surge"
          /\ Len(requests) > set.count =>
                Cardinality(Provisioned(requests)) >= MinHealthy + 1
      BY <2>2 DEF FloorInv, CycleFloor
    <3>2. Len(requests') > set.count => Len(requests) > set.count
      BY <1>a, <1>j DEF Joins
    <3> QED
      BY <1>a, <1>m, <1>n, <3>1, <3>2 DEF Margins
  <2> QED
    BY <1>u, <2>1, <2>2 DEF CycleFloor
<1>5. PlanFloor'
  <2> SUFFICES ASSUME NEW r \in Reconciler PROVE PlanFloor!(r)'
    BY DEF PlanFloor
  <2>1. PlanFloor!(r)
    BY DEF FloorInv, PlanFloor
  <2>2. plan[r].action = "complete" => Len(requests') <= set.count
    BY <1>a, <1>j, <2>1 DEF Joins
  <2>3. plan[r].action = "teardown" =>
           Cardinality(Spared(requests', plan[r].target)) >= MinHealthy
    <3>1. Cardinality(Spared(requests', plan[r].target))
            >= Cardinality(Spared(requests, plan[r].target))
      BY <1>m DEF Margins
    <3>2. /\ Cardinality(Spared(requests, plan[r].target)) \in Nat
          /\ Cardinality(Spared(requests', plan[r].target)) \in Nat
      BY <1>o
    <3> QED
      BY <1>a, <2>1, <3>1, <3>2
  <2>4. /\ plan[r].action = "surge-up" =>
              Cardinality(Provisioned(requests')) >= MinHealthy
        /\ plan[r].action = "surge-down" =>
              Cardinality(Provisioned(requests')) >= MinHealthy + 1
    BY <1>a, <1>m, <1>n, <2>1 DEF Margins
  <2> QED
    BY <1>u, <2>1, <2>2, <2>3, <2>4
<1> QED
  BY <1>1, <1>2, <1>3, <1>4, <1>5 DEF FloorInv

(* Plan tears down only what the floor can spare: the victim is stale, and  *)
(* the fresh members that serve meet the floor without it.                  *)
LEMMA TeardownMargin ==
    ASSUME NEW reqs \in Seq(Request), NEW gen,
           \A i, j \in DOMAIN reqs : reqs[i].id = reqs[j].id => i = j,
           planInPlace(reqs, gen).action = "teardown"
    PROVE  Cardinality(Spared(reqs, planInPlace(reqs, gen).target)) >= MinHealthy
<1> DEFINE stale == StaleRequests(reqs, gen)
           fresh == Provisioned(reqs) \ stale
           id == OldestStale(reqs, gen)
<1>1. /\ stale # {} /\ planInPlace(reqs, gen).target = id
      /\ ~(Cardinality(fresh) < MinHealthy)
  BY DEF planInPlace, FreshCount
<1>2. stale \in SUBSET Nat /\ stale \subseteq DOMAIN reqs
  BY DEF StaleRequests
<1>3. \E i \in stale : \A j \in stale : i <= j
  BY <1>1, <1>2, LeastElement
<1>4. PICK k \in stale : id = reqs[k].id
  BY <1>3 DEF OldestStale
<1>5. fresh \subseteq Spared(reqs, id)
  BY <1>2, <1>4 DEF Spared, Provisioned
<1>6. Spared(reqs, id) \in SUBSET DOMAIN reqs
  BY DEF Spared, Provisioned
<1>7. /\ Cardinality(fresh) \in Nat /\ Cardinality(Spared(reqs, id)) \in Nat
      /\ Cardinality(fresh) <= Cardinality(Spared(reqs, id))
  BY <1>5, <1>6, MemberSets
<1>8. MinHealthy \in Nat
  BY RotationAssumption
<1> HIDE DEF fresh, id
<1>9. Cardinality(Spared(reqs, id)) >= MinHealthy
  BY <1>1, <1>7, <1>8
<1> QED
  BY <1>1, <1>9

(* Plan lowers the count again only when the replacement is there and every *)
(* fresh member serves.                                                     *)
LEMMA SurgeDownMargin ==
    ASSUME NEW reqs \in Seq(Request), NEW s \in Set, NEW gen,
           planWaitUp(s, reqs, gen) = "surge-down",
           Len(reqs) <= s.orig + 1
    PROVE  /\ Len(reqs) = s.orig + 1
           /\ \A i \in DOMAIN reqs : reqs[i].gen = gen => i \in Provisioned(reqs)
<1> DEFINE stale == StaleRequests(reqs, gen)
           fresh == Provisioned(reqs) \ stale
           all == DOMAIN reqs
<1>1. ~(Cardinality(fresh) < expectedFresh(s, reqs, gen))
  BY DEF planWaitUp, FreshCount
<1>2. /\ stale \in SUBSET all /\ fresh \in SUBSET (all \ stale)
      /\ all \ stale \in SUBSET all
  BY DEF StaleRequests, Provisioned
<1>3. /\ IsFiniteSet(all) /\ Cardinality(all) = Len(reqs)
      /\ Len(reqs) \in Nat /\ s.orig \in Nat
  <2>1. all = 1 .. Len(reqs) /\ Len(reqs) \in Nat
    OBVIOUS
  <2> QED
    BY <2>1, FirstNaturals DEF Set
<1>4. /\ IsFiniteSet(all \ stale) /\ Cardinality(all \ stale) \in Nat
      /\ Cardinality(stale) \in Nat /\ Cardinality(fresh) \in Nat
      /\ Cardinality(fresh) <= Cardinality(all \ stale)
  BY <1>2, MemberSets
<1>5. Cardinality(all \ stale) = Len(reqs) - Cardinality(stale)
  <2>1. all \cap stale = stale
    BY <1>2
  <2> HIDE DEF stale, all
  <2>2. Cardinality(all \ stale) = Cardinality(all) - Cardinality(all \cap stale)
    BY <1>3, FS_Difference
  <2> QED
    BY <1>3, <2>1, <2>2
<1>6. expectedFresh(s, reqs, gen) =
         IF s.orig - Cardinality(stale) + 1 < 1 THEN 1
         ELSE s.orig - Cardinality(stale) + 1
  BY DEF expectedFresh
<1> HIDE DEF stale, fresh, all
<1>7. Len(reqs) = s.orig + 1 /\ Cardinality(fresh) = Cardinality(all \ stale)
  BY <1>1, <1>3, <1>4, <1>5, <1>6
<1>8. fresh = all \ stale
  BY <1>2, <1>4, <1>7, FS_Subset
<1> QED
  BY <1>7, <1>8 DEF fresh, all, stale, StaleRequests

(* What Plan finds of the floor.                                            *)
LEMMA PlanMargins ==
    ASSUME NEW c \in Class, NEW s \in Set, NEW reqs \in Seq(Request),
           c.strategy # "off",
           \A i, j \in DOMAIN reqs : reqs[i].id = reqs[j].id => i = j
    PROVE  LET p == Plan(c, s, reqs) IN
           /\ p.action = "surge-up" =>
                 ~(Cardinality(Provisioned(reqs)) < MinHealthy)
           /\ p.action = "surge-down" =>
                 /\ c.strategy = "surge"
                 /\ planWaitUp(s, reqs, c.gen) = "surge-down"
           /\ p.action = "complete" => s.count = s.orig /\ Len(reqs) <= s.orig
           /\ p.action = "teardown" =>
                 /\ c.strategy = "in-place"
                 /\ Cardinality(Spared(reqs, p.target)) >= MinHealthy
<1> DEFINE q == PlanAction(c, s, reqs)
           surge == planSurge(s, reqs, c.gen)
           place == planInPlace(reqs, c.gen)
<1>1. \/ q.action \in {"stamp", "wait"}
      \/ c.strategy = "in-place" /\ q = place
      \/ c.strategy = "surge" /\ q.action = surge
  BY DEF PlanAction, Class, AnyStrategy
<1>2. place.action \in {"wait", "teardown"}
  BY DEF planInPlace
<1>3. place.action = "teardown" =>
         Cardinality(Spared(reqs, place.target)) >= MinHealthy
  BY TeardownMargin
<1>4. s.phase \in Phase /\ s.orig \in Nat /\ Len(reqs) \in Nat
  BY DEF Set
<1>5. /\ surge = "surge-up" => ~(Cardinality(Provisioned(reqs)) < MinHealthy)
      /\ surge = "surge-down" => planWaitUp(s, reqs, c.gen) = "surge-down"
      /\ surge = "complete" => s.count = s.orig /\ ~(Len(reqs) > s.orig)
      /\ surge # "teardown"
  <2>1. CASE s.phase = "none"
    BY <2>1 DEF planSurge, planSurgeIdle
  <2>2. CASE s.phase = "wait-up"
    BY <2>2 DEF planSurge, planWaitUp
  <2>3. CASE s.phase = "wait-down"
    BY <2>3 DEF planSurge, planWaitDown
  <2> QED
    BY <1>4, <2>1, <2>2, <2>3 DEF Phase
<1>6. Plan(c, s, reqs).action = q.action /\ Plan(c, s, reqs).target = q.target
  BY DEF Plan
<1> HIDE DEF q, surge, place
<1> QED
  BY <1>1, <1>2, <1>3, <1>4, <1>5, <1>6

(* Every stage Discover reports served is one that serves.                  *)
LEMMA ObservedMembers ==
    ASSUME TypeOK, NEW listed \in BOOLEAN
    PROVE  /\ Observed(listed) \in Seq(Request)
           /\ Len(Observed(listed)) = Len(requests)
           /\ DOMAIN Observed(listed) = DOMAIN requests
           /\ \A i \in DOMAIN requests :
                 /\ Observed(listed)[i].id = requests[i].id
                 /\ Observed(listed)[i].gen = requests[i].gen
           /\ Provisioned(Observed(listed)) \subseteq Provisioned(requests)
<1> DEFINE seen == Observed(listed)
<1>1. seen \in Seq(Request)
  BY ObservedType
<1>2. requests \in Seq(Request) /\ \A i \in DOMAIN requests : requests[i] \in Request
  BY DEF TypeOK
<1>3. DOMAIN seen = DOMAIN requests
  BY DEF Observed
<1>4. \A i \in DOMAIN requests :
         seen[i] = [requests[i] EXCEPT !.stage =
                      IF listed THEN requests[i].stage ELSE "unknown"]
  BY DEF Observed
<1> HIDE DEF seen
<1>5. \A i \in DOMAIN requests :
         /\ seen[i].id = requests[i].id /\ seen[i].gen = requests[i].gen
         /\ seen[i].stage \in {requests[i].stage, "unknown"}
  BY <1>2, <1>4 DEF Request
<1>6. Provisioned(seen) \subseteq Provisioned(requests)
  BY <1>3, <1>5 DEF Provisioned
<1>7. Len(seen) = Len(requests)
  BY <1>1, <1>2, <1>3
<1> QED
  BY <1>1, <1>3, <1>5, <1>6, <1>7 DEF seen

(* Discover's last read, and Plan.                                          *)
LEMMA ReadRequestsKeepsFloor ==
    ASSUME SoleReconciler, FloorInv, CountInv', NEW r \in Reconciler,
           NEW listed \in BOOLEAN, ReadRequests(r, listed)
    PROVE  FloorInv'
<1>t. TypeOK /\ TypeOK' /\ CountInv
  BY DEF FloorInv, CountInv
<1> DEFINE c == seenClass[r]
           s == seenSet[r]
           seen == Observed(listed)
           p == Plan(c, s, seen)
<1>1. /\ UNCHANGED <<class, set, requests>>
      /\ pc[r] = "set" /\ plan'[r] = p /\ pc'[r] = "planned"
      /\ c \in Class /\ s \in Set
      /\ \A q \in Reconciler : q = r
  BY <1>t DEF ReadRequests, TypeOK, SoleReconciler
<1>2. /\ SameSurge(s, set)
      /\ c.strategy # "off" /\ (set.phase # "none" => c = class)
  BY <1>1, <1>t DEF CountInv, ReadIsCurrent, FloorInv, TickIsSound
<1>3. /\ seen \in Seq(Request) /\ Len(seen) = Len(requests)
      /\ DOMAIN seen = DOMAIN requests
      /\ \A i \in DOMAIN requests : /\ seen[i].id = requests[i].id
                                    /\ seen[i].gen = requests[i].gen
      /\ Provisioned(seen) \subseteq Provisioned(requests)
  BY <1>t, ObservedMembers
<1>4. \A i, j \in DOMAIN seen : seen[i].id = seen[j].id => i = j
  BY <1>3 DEF FloorInv, DistinctIds
<1>5. requests \in Seq(Request) /\ Len(requests) \in Nat
  BY <1>t, FloorTypes
<1>6. /\ s.count = set.count /\ s.orig = set.orig /\ s.phase = set.phase
      /\ set.count \in Nat /\ set.orig \in Nat /\ MinHealthy \in Nat
  BY <1>2, <1>t, FloorTypes DEF SameSurge
<1> HIDE DEF seen
<1>7. /\ Cardinality(Provisioned(seen)) <= Cardinality(Provisioned(requests))
      /\ \A id : Cardinality(Spared(seen, id)) <= Cardinality(Spared(requests, id))
  BY <1>3, <1>5, GrowthCount
<1>8. /\ Cardinality(Provisioned(seen)) \in Nat
      /\ Cardinality(Provisioned(requests)) \in Nat
      /\ \A id : /\ Cardinality(Spared(seen, id)) \in Nat
                 /\ Cardinality(Spared(requests, id)) \in Nat
  BY <1>3, <1>5, MembersServing
<1>9. /\ p.action = "surge-up" =>
            ~(Cardinality(Provisioned(seen)) < MinHealthy)
      /\ p.action = "surge-down" =>
            c.strategy = "surge" /\ planWaitUp(s, seen, c.gen) = "surge-down"
      /\ p.action = "complete" => s.count = s.orig /\ Len(seen) <= s.orig
      /\ p.action = "teardown" =>
            /\ c.strategy = "in-place"
            /\ Cardinality(Spared(seen, p.target)) >= MinHealthy
  BY <1>1, <1>2, <1>3, <1>4, PlanMargins
<1>10. p.action = "surge-down" => set.phase = "wait-up"
  BY <1>1, <1>3, <1>6, PlanPhase
<1> HIDE DEF p, c, s
<1>11. p.action = "surge-up" => Cardinality(Provisioned(requests)) >= MinHealthy
  BY <1>6, <1>7, <1>8, <1>9
<1>12. p.action = "complete" => Len(requests) <= set.count
  BY <1>3, <1>6, <1>9
<1>13. p.action = "teardown" =>
          /\ set.phase # "none" => class.strategy = "in-place"
          /\ Cardinality(Spared(requests, p.target)) >= MinHealthy
  <2>1. /\ Cardinality(Spared(seen, p.target))
             <= Cardinality(Spared(requests, p.target))
        /\ Cardinality(Spared(seen, p.target)) \in Nat
        /\ Cardinality(Spared(requests, p.target)) \in Nat
    BY <1>7, <1>8
  <2> QED
    BY <1>2, <1>6, <1>9, <2>1
<1>14. ASSUME p.action = "surge-down"
       PROVE  /\ class.strategy = "surge"
              /\ Cardinality(Provisioned(requests)) >= MinHealthy + 1
  <2>1. set.phase = "wait-up" /\ c = class /\ class.strategy = "surge"
    BY <1>2, <1>9, <1>10, <1>14
  <2>2. Len(requests) <= set.count /\ set.count = set.orig + 1
    BY <2>1, <1>5, <1>6 DEF FloorInv, SizeBound, CountInv, CountAccounted
  <2>3. /\ Len(seen) = s.orig + 1
        /\ \A i \in DOMAIN seen : seen[i].gen = c.gen => i \in Provisioned(seen)
    <3>1. planWaitUp(s, seen, c.gen) = "surge-down" /\ Len(seen) <= s.orig + 1
      BY <1>3, <1>5, <1>6, <1>9, <1>14, <2>2
    <3>2. s \in Set
      BY <1>1 DEF s
    <3> QED
      BY <1>3, <3>1, <3>2, SurgeDownMargin
  <2>4. /\ Len(requests) = set.orig + 1
        /\ Cardinality(Veterans(requests, set.orig)) >= MinHealthy
        /\ requests[set.orig + 1].gen = class.gen
    BY <1>3, <1>6, <2>1, <2>3 DEF FloorInv, CycleFloor
  <2>5. set.orig + 1 \in Provisioned(requests)
    <3>1. set.orig + 1 \in DOMAIN seen
      BY <1>3, <1>5, <1>6, <2>4
    <3> QED
      BY <1>3, <2>1, <2>3, <2>4, <3>1
  <2> DEFINE V == Veterans(requests, set.orig)
             W == V \cup {set.orig + 1}
             P == Provisioned(requests)
  <2>6. /\ V \in SUBSET DOMAIN requests /\ P \in SUBSET DOMAIN requests
        /\ W \in SUBSET P /\ set.orig + 1 \notin V
    BY <1>6, <2>5 DEF Veterans, Provisioned
  <2>7. /\ IsFiniteSet(V) /\ Cardinality(V) \in Nat
        /\ Cardinality(W) \in Nat /\ Cardinality(W) <= Cardinality(P)
    BY <1>5, <2>6, MemberSets
  <2>8. Cardinality(W) = Cardinality(V) + 1
    <3> HIDE DEF V
    <3> QED
      BY <2>6, <2>7, FS_AddElement
  <2> HIDE DEF V, W, P
  <2>9. Cardinality(P) >= MinHealthy + 1
    <3>1. Cardinality(V) >= MinHealthy /\ Cardinality(P) \in Nat
      BY <1>8, <2>4 DEF V, P
    <3> QED
      BY <1>6, <2>7, <2>8, <3>1
  <2> QED
    BY <2>1, <2>9 DEF P
<1>15. PlanFloor'
  BY <1>1, <1>11, <1>12, <1>13, <1>14 DEF PlanFloor, p, c, s
<1>16. DistinctIds' /\ SizeBound' /\ CycleFloor' /\ TickIsSound'
  BY <1>1 DEF FloorInv, DistinctIds, SizeBound, CycleFloor, TickIsSound
<1> QED
  BY <1>15, <1>16 DEF FloorInv

(* The surge steps: each turns the margin its Decision found into that of   *)
(* the phase it begins.                                                     *)
LEMMA SurgeKeepsFloor ==
    ASSUME SoleReconciler, FloorInv, CountInv', NEW r \in Reconciler,
           SurgeUp(r) \/ SurgeDown(r) \/ clearSurgeAndLock(r)
    PROVE  FloorInv'
<1>t. TypeOK /\ TypeOK' /\ CountInv
  BY DEF FloorInv, CountInv
<1>a. /\ Len(requests) \in Nat /\ set.count \in Nat /\ set.orig \in Nat
      /\ MinHealthy \in Nat /\ nominal \in Nat
  BY <1>t, FloorTypes DEF TypeOK
<1>1. Finish(r) /\ UNCHANGED <<class, requests>>
  BY DEF SurgeUp, SurgeDown, clearSurgeAndLock
<1>2. \A q \in Reconciler : plan'[q].action = "wait" /\ pc'[q] = "idle"
  BY <1>1, <1>t, OwnStep DEF NoPlan
<1>3. DistinctIds' /\ TickIsSound' /\ PlanFloor'
  BY <1>1, <1>2 DEF FloorInv, DistinctIds, TickIsSound, PlanFloor
<1>4. SizeBound
  BY DEF FloorInv
<1>5. CASE SurgeUp(r)
  <2>1. /\ set.phase = "none" /\ plan[r].orig = set.count
        /\ Cardinality(Provisioned(requests)) >= MinHealthy
    BY <1>5, <1>t DEF SurgeUp, Executing, CountInv, PlanIsCurrent, FloorInv,
                      PlanFloor
  <2>2. /\ set'.count = set.count + 1 /\ set'.phase = "wait-up"
        /\ set'.orig = set.count
    BY <1>5, <2>1 DEF SurgeUp, withSurgeStep
  <2>3. Len(requests) <= set.count
    BY <1>4, <1>a, <2>1 DEF SizeBound
  <2>4. Veterans(requests, set.count) = Provisioned(requests)
    <3>1. \A i \in DOMAIN requests : i <= set.count
      BY <1>a, <1>t, <2>3, FloorTypes
    <3> QED
      BY <3>1 DEF Veterans, Provisioned
  <2>5. CycleFloor'
    BY <1>1, <1>a, <2>1, <2>2, <2>3, <2>4 DEF CycleFloor
  <2>6. SizeBound'
    BY <1>1, <1>a, <2>2, <2>3 DEF SizeBound
  <2> QED
    BY <1>3, <2>5, <2>6 DEF FloorInv
<1>6. CASE SurgeDown(r)
  <2>1. /\ set.phase = "wait-up" /\ class.strategy = "surge"
        /\ Cardinality(Provisioned(requests)) >= MinHealthy + 1
    BY <1>6, <1>t DEF SurgeDown, Executing, CountInv, PlanIsCurrent, FloorInv,
                      PlanFloor
  <2>2. set.count = nominal + 1
    BY <1>t, <2>1 DEF CountInv, CountAccounted
  <2>3. set'.count = set.count - 1 /\ set'.phase = "wait-down"
    BY <1>6, <1>a, <2>2 DEF SurgeDown, withSurgeStep
  <2>4. CycleFloor'
    BY <1>1, <2>1, <2>3 DEF CycleFloor
  <2>5. SizeBound'
    BY <1>1, <1>4, <1>a, <2>1, <2>3 DEF SizeBound
  <2> QED
    BY <1>3, <2>4, <2>5 DEF FloorInv
<1>7. CASE clearSurgeAndLock(r)
  <2>1. Len(requests) <= set.count
    BY <1>7, <1>t DEF clearSurgeAndLock, Executing, CountInv,
                      AbortMeansForeignWriter, FloorInv, PlanFloor
  <2>2. set'.count = set.count /\ set'.phase = "none"
    BY <1>7, <1>t DEF clearSurgeAndLock, TypeOK, Set
  <2>3. SizeBound' /\ CycleFloor'
    BY <1>1, <1>a, <2>1, <2>2 DEF SizeBound, CycleFloor
  <2> QED
    BY <1>3, <2>3 DEF FloorInv
<1> QED
  BY <1>5, <1>6, <1>7

(* The members that stay keep their ids apart.                              *)
LEMMA RemovalKeepsIds ==
    ASSUME FloorInv, NEW i \in DOMAIN requests,
           requests' = Without(requests, i)
    PROVE  DistinctIds' /\ Len(requests') = Len(requests) - 1
<1>1. /\ requests \in Seq(Request) /\ Len(requests) \in Nat
      /\ DOMAIN requests = 1 .. Len(requests)
  BY FloorTypes DEF FloorInv, CountInv
<1>2. /\ Len(requests') = Len(requests) - 1
      /\ \A j \in 1 .. Len(requests) - 1 :
            requests'[j] = requests[IF j < i THEN j ELSE j + 1]
  BY <1>1, WithoutMembers
<1>3. DOMAIN requests' = 1 .. Len(requests) - 1
  BY DEF Without
<1>4. ASSUME NEW j \in DOMAIN requests', NEW k \in DOMAIN requests',
             requests'[j].id = requests'[k].id
      PROVE  j = k
  <2> DEFINE up(n) == IF n < i THEN n ELSE n + 1
  <2>1. up(j) \in DOMAIN requests /\ up(k) \in DOMAIN requests
    BY <1>1, <1>3
  <2>2. requests[up(j)].id = requests[up(k)].id
    BY <1>2, <1>3, <1>4
  <2>3. up(j) = up(k)
    <3> HIDE DEF up
    <3> QED
      BY <2>1, <2>2 DEF FloorInv, DistinctIds
  <2> QED
    BY <1>1, <1>3, <2>3
<1> QED
  BY <1>2, <1>4 DEF DistinctIds

(* An in-place teardown takes its victim, and the floor stands.             *)
LEMMA TeardownKeepsFloor ==
    ASSUME SoleReconciler, FloorInv, CountInv', NEW r \in Reconciler,
           teardownRequest(r)
    PROVE  FloorInv' /\ Cardinality(Provisioned(requests')) >= MinHealthy
<1>t. TypeOK /\ TypeOK'
  BY DEF FloorInv, CountInv
<1>a. /\ Len(requests) \in Nat /\ set.count \in Nat /\ MinHealthy \in Nat
      /\ requests \in Seq(Request) /\ requests' \in Seq(Request)
      /\ set.phase \in {"none", "wait-up", "wait-down"}
  BY <1>t, FloorTypes DEF TypeOK
<1>0. plan[r].action = "teardown"
  BY DEF teardownRequest, FloorInv, TickIsSound
<1>1. PICK i \in DOMAIN requests :
         requests[i].id = plan[r].target /\ requests' = Without(requests, i)
  BY DEF teardownRequest
<1>2. UNCHANGED <<class, set, plan, seenClass>> /\ pc'[r] = "torn"
  BY <1>t DEF teardownRequest, TypeOK
<1>3. DistinctIds' /\ Len(requests') = Len(requests) - 1
  BY <1>1, RemovalKeepsIds
<1>4. Cardinality(Spared(requests', plan[r].target)) >= MinHealthy
  <2>1. /\ Cardinality(Spared(requests', plan[r].target))
             >= Cardinality(Spared(requests, plan[r].target))
        /\ Cardinality(Spared(requests, plan[r].target)) >= MinHealthy
    BY <1>0, <1>1, <1>a, RemovalCount DEF FloorInv, PlanFloor
  <2>2. /\ Cardinality(Spared(requests', plan[r].target)) \in Nat
        /\ Cardinality(Spared(requests, plan[r].target)) \in Nat
    BY <1>a, MembersServing
  <2> QED
    BY <1>a, <2>1, <2>2
<1>5. Cardinality(Provisioned(requests')) >= MinHealthy
  <2> DEFINE T == Spared(requests', plan[r].target)
             P == Provisioned(requests')
  <2>1. T \in SUBSET P /\ P \in SUBSET DOMAIN requests'
    BY DEF Spared, Provisioned
  <2>2. /\ Cardinality(T) <= Cardinality(P)
        /\ Cardinality(T) \in Nat /\ Cardinality(P) \in Nat
    BY <1>a, <2>1, MemberSets
  <2>3. Cardinality(T) >= MinHealthy
    BY <1>4
  <2> HIDE DEF T, P
  <2>4. Cardinality(P) >= MinHealthy
    BY <1>a, <2>2, <2>3
  <2> QED
    BY <2>4 DEF P
<1>6. set.phase # "none" => class.strategy = "in-place"
  BY <1>0 DEF FloorInv, PlanFloor
<1>7. set.phase # "wait-down"
  BY <1>6 DEF FloorInv, CycleFloor
<1>8. CycleFloor'
  BY <1>2, <1>6, <1>7 DEF CycleFloor
<1>9. SizeBound'
  BY <1>2, <1>3, <1>a DEF FloorInv, SizeBound
<1>10. PlanFloor'
  <2> SUFFICES ASSUME NEW q \in Reconciler PROVE PlanFloor!(q)'
    BY DEF PlanFloor
  <2>1. plan'[q] = plan[r]
    BY <1>2 DEF SoleReconciler
  <2> QED
    BY <1>0, <1>2, <1>4, <1>6, <2>1
<1>11. TickIsSound'
  BY <1>2 DEF SoleReconciler, TickIsSound
<1> QED
  BY <1>3, <1>5, <1>8, <1>9, <1>10, <1>11 DEF FloorInv

(* The controller's answer to SurgeDown.                                    *)
LEMMA RemoveOldestKeepsFloor ==
    ASSUME FloorInv, CountInv', RemoveOldest
    PROVE  FloorInv' /\ Cardinality(Provisioned(requests')) >= MinHealthy
<1>t. TypeOK /\ TypeOK' /\ CountInv
  BY DEF FloorInv, CountInv
<1>a. /\ Len(requests) \in Nat /\ set.count \in Nat /\ MinHealthy \in Nat
      /\ requests \in Seq(Request) /\ requests' \in Seq(Request)
      /\ set.phase \in {"none", "wait-up", "wait-down"}
  BY <1>t, FloorTypes DEF TypeOK
<1>1. /\ UNCHANGED <<class, set, pc, seenClass, plan>>
      /\ Len(requests) > set.count /\ requests' = Tail(requests)
  BY DEF RemoveOldest
<1>2. requests' = Without(requests, 1) /\ 1 \in DOMAIN requests
  BY <1>1, <1>a, TailIsWithout
<1>3. DistinctIds' /\ Len(requests') = Len(requests) - 1
  BY <1>2, RemovalKeepsIds
<1>4. /\ set.phase = "wait-down" /\ Len(requests) <= set.count + 1
      /\ class.strategy = "surge"
      /\ Cardinality(Provisioned(requests)) >= MinHealthy + 1
  <2>1. set.phase = "wait-down" /\ Len(requests) <= set.count + 1
    BY <1>1, <1>a DEF FloorInv, SizeBound
  <2> QED
    BY <1>1, <2>1 DEF FloorInv, CycleFloor
<1>5. Cardinality(Provisioned(requests')) >= MinHealthy
  <2>1. Cardinality(Provisioned(requests'))
          >= Cardinality(Provisioned(requests)) - 1
    BY <1>2, <1>a, RemovalCount
  <2>2. /\ Cardinality(Provisioned(requests)) \in Nat
        /\ Cardinality(Provisioned(requests')) \in Nat
    BY <1>a, MembersServing
  <2> QED
    BY <1>4, <1>a, <2>1, <2>2
<1>6. Len(requests') <= set.count
  BY <1>3, <1>4, <1>a
<1>7. SizeBound' /\ CycleFloor'
  <2>1. Len(requests') \in Nat /\ ~(Len(requests') > set.count)
    BY <1>6, <1>a
  <2> QED
    BY <1>1, <1>4, <1>6, <1>a, <2>1 DEF SizeBound, CycleFloor
<1>8. \A r \in Reconciler : plan[r].action \notin {"surge-up", "surge-down"}
  BY <1>4, <1>t DEF CountInv, PlanIsCurrent
<1>9. \A r \in Reconciler : plan[r].action # "teardown"
  BY <1>4 DEF FloorInv, PlanFloor
<1>10. PlanFloor' /\ TickIsSound'
  BY <1>1, <1>6, <1>8, <1>9 DEF PlanFloor, TickIsSound, FloorInv
<1> QED
  BY <1>3, <1>5, <1>7, <1>10 DEF FloorInv

(* Omni's other steps add a member, or take one further.                    *)
LEMMA OmniGrows ==
    ASSUME TypeOK, TypeOK',
           \/ CreateRequest \/ StartProvisioning \/ Provision
           \/ FailProvisioning \/ RetryProvisioning
    PROVE  Grown
<1>q. /\ requests \in Seq(Request) /\ Len(requests) \in Nat
      /\ DOMAIN requests = 1 .. Len(requests)
  BY FloorTypes
<1>1. CASE CreateRequest
  <2> DEFINE id == CHOOSE x \in Id \ UsedIds : TRUE
             new == [id |-> id, gen |-> class.gen, stage |-> "unknown"]
  <2>1. /\ UNCHANGED <<class, set, pc, seenClass, plan>>
        /\ Len(requests) < set.count /\ requests' = Append(requests, new)
        /\ Id \ UsedIds # {}
    BY <1>1 DEF CreateRequest
  <2>2. id \in Id \ UsedIds
    BY <2>1
  <2>3. \A i \in DOMAIN requests : id # requests[i].id
    BY <2>2 DEF UsedIds
  <2> HIDE DEF id
  <2>4. new \in Request
    BY <2>2 DEF Request, Stage, TypeOK, Class
  <2>5. new.id = id /\ new.gen = class.gen
    OBVIOUS
  <2> HIDE DEF new
  <2>6. /\ Len(requests') = Len(requests) + 1
        /\ requests'[Len(requests) + 1] = new
        /\ DOMAIN requests' = 1 .. Len(requests) + 1
        /\ \A i \in 1 .. Len(requests) : requests'[i] = requests[i]
    BY <1>q, <2>1, <2>4
  <2>7. SameMembers /\ Provisioned(requests) \subseteq Provisioned(requests')
    BY <1>q, <2>6 DEF SameMembers, Provisioned
  <2>8. Joins
    BY <2>1, <2>3, <2>5, <2>6 DEF Joins
  <2> QED
    BY <2>1, <2>7, <2>8 DEF Grown
<1>2. ASSUME NEW from, NEW to, ChangeStage(from, to), from # "provisioned"
      PROVE  Grown
  <2>1. UNCHANGED <<class, set, pc, seenClass, plan>>
    BY <1>2 DEF ChangeStage
  <2>2. PICK i \in DOMAIN requests :
           /\ requests[i].stage = from
           /\ requests' = [requests EXCEPT ![i].stage = to]
    BY <1>2 DEF ChangeStage
  <2>3. \A j \in DOMAIN requests : requests[j] \in Request
    BY <1>q
  <2>4. /\ DOMAIN requests' = DOMAIN requests
        /\ \A j \in DOMAIN requests : j # i => requests'[j] = requests[j]
        /\ requests'[i] = [requests[i] EXCEPT !.stage = to]
    BY <1>q, <2>2
  <2>5. /\ requests'[i].id = requests[i].id /\ requests'[i].gen = requests[i].gen
    BY <2>3, <2>4 DEF Request
  <2>6. SameMembers
    BY <2>4, <2>5 DEF SameMembers
  <2>7. Provisioned(requests) \subseteq Provisioned(requests')
    BY <1>2, <2>2, <2>4 DEF Provisioned
  <2>8. Len(requests') = Len(requests)
    BY <1>q, <2>4 DEF TypeOK
  <2> QED
    BY <2>1, <2>6, <2>7, <2>8 DEF Grown
<1> QED
  BY <1>1, <1>2
  DEF StartProvisioning, Provision, FailProvisioning, RetryProvisioning

(* The reconciler's other steps, those of the operator, and time.           *)
LEMMA OthersKeepFloor ==
    ASSUME SoleReconciler, ~Scaler, ~CountEdits, ~MidCycleEdits,
           FloorInv, CountInv',
           \/ UNCHANGED vars
           \/ \E r \in Reconciler :
                 \/ ReadClass(r) \/ ReadSet(r) \/ RefreshLock(r)
                 \/ stampGeneration(r) \/ setLock(r) \/ teardownNotFound(r)
                 \/ clearLock(r) \/ Abandon(r)
           \/ Autoscaler \/ Operator \/ AdvanceTime
    PROVE  FloorInv'
<1>t. TypeOK /\ CountInv /\ TickIsSound
  BY DEF FloorInv, CountInv
<1>s. set \in Set /\ class \in Class
  BY <1>t DEF TypeOK
<1>l. \A l : SameSurge([set EXCEPT !.lock = l], set)
  BY <1>s DEF SameSurge, Set
<1>u. SameSurge(set, set)
  BY DEF SameSurge
<1>1. CASE UNCHANGED vars
  BY <1>1, <1>t, <1>u, MembersAlone DEF vars, TickIsSound
<1>2. ASSUME NEW r \in Reconciler, ReadClass(r) PROVE FloorInv'
  <2>1. TickIsSound'
    BY <1>2, <1>t DEF ReadClass, TickIsSound, TypeOK, SoleReconciler
  <2> QED
    BY <1>2, <1>u, <2>1, MembersAlone DEF ReadClass
<1>3. ASSUME NEW r \in Reconciler, ReadSet(r) PROVE FloorInv'
  <2>1. TickIsSound'
    BY <1>3, <1>t DEF ReadSet, TickIsSound, TypeOK, SoleReconciler
  <2> QED
    BY <1>3, <1>u, <2>1, MembersAlone DEF ReadSet
<1>4. ASSUME NEW r \in Reconciler,
             RefreshLock(r) \/ stampGeneration(r) \/ teardownNotFound(r)
               \/ clearLock(r) \/ Abandon(r)
      PROVE  FloorInv'
  <2>1. Finish(r) /\ SameSurge(set', set) /\ requests' = requests
    BY <1>4, <1>l, <1>u DEF RefreshLock, stampGeneration, teardownNotFound,
                            clearLock, Abandon
  <2>2. class'.gen = class.gen /\ class'.strategy = class.strategy
    BY <1>4, <1>s DEF RefreshLock, stampGeneration, teardownNotFound,
                      clearLock, Abandon, Class
  <2>3. \A q \in Reconciler : plan'[q] = NoPlan /\ pc'[q] = "idle"
    BY <1>t, <2>1, OwnStep
  <2>4. TickIsSound'
    BY <2>3 DEF TickIsSound
  <2> QED
    BY <2>1, <2>2, <2>3, <2>4, MembersAlone
<1>5. ASSUME NEW r \in Reconciler, setLock(r) PROVE FloorInv'
  <2>1. SameSurge(set', set) /\ UNCHANGED <<class, requests, plan>>
    BY <1>5, <1>l DEF setLock
  <2>2. TickIsSound'
    <3>1. \A q \in Reconciler : pc'[q] = "locked" /\ plan'[q].action = "teardown"
      BY <1>5, <1>t DEF setLock, Executing, TypeOK, SoleReconciler
    <3> QED
      BY <3>1 DEF TickIsSound
  <2> QED
    BY <2>1, <2>2, MembersAlone
<1>6. CASE Autoscaler
  <2>1. group = NoGroup
    BY <1>t DEF CountInv
  <2> QED
    BY <1>6, <2>1 DEF Autoscaler, ScaleDiscover, IncreaseMachineCount,
                      ScaleRejected
<1>7. CASE Operator
  <2>1. PICK x : EditClass(x) \/ EditStrategy(x)
    BY <1>7 DEF Operator, EditCount
  <2>2. /\ set.phase = "none"
        /\ UNCHANGED <<set, requests, pc, seenClass, plan>>
    BY <2>1 DEF EditClass, EditStrategy
  <2>3. TickIsSound'
    BY <1>t, <2>2 DEF TickIsSound
  <2> QED
    BY <1>u, <2>2, <2>3, MembersAlone
<1>8. CASE AdvanceTime
  <2>1. SameSurge(set', set) /\ UNCHANGED <<class, requests, pc, seenClass, plan>>
    BY <1>8, <1>l DEF AdvanceTime
  <2>2. TickIsSound'
    BY <1>t, <2>1 DEF TickIsSound, SameSurge
  <2> QED
    BY <2>1, <2>2, MembersAlone
<1> QED
  BY <1>1, <1>2, <1>3, <1>4, <1>5, <1>6, <1>7, <1>8

LEMMA FloorStep ==
    ASSUME SoleReconciler, ~Scaler, ~CountEdits, ~MidCycleEdits,
           FloorInv, [Next]_vars
    PROVE  /\ FloorInv'
           /\ Len(requests') < Len(requests) =>
                 Cardinality(Provisioned(requests')) >= MinHealthy
<1>t. TypeOK /\ TypeOK' /\ CountInv /\ CountInv'
  BY NextTyped, CountStep DEF FloorInv, CountInv
<1>l. Len(requests) \in Nat /\ Len(requests') \in Nat
  BY <1>t DEF TypeOK
<1>1. ASSUME NEW r \in Reconciler, teardownRequest(r)
      PROVE  FloorInv' /\ Cardinality(Provisioned(requests')) >= MinHealthy
  BY <1>1, <1>t, TeardownKeepsFloor
<1>2. CASE RemoveOldest
  BY <1>2, <1>t, RemoveOldestKeepsFloor
<1>3. CASE \/ CreateRequest \/ StartProvisioning \/ Provision
           \/ FailProvisioning \/ RetryProvisioning
  <2>1. Grown
    BY <1>3, <1>t, OmniGrows
  <2>2. ~(Len(requests') < Len(requests))
    BY <2>1, <1>l DEF Grown, Joins
  <2> QED
    BY <1>t, <2>1, <2>2, GrownKeepsFloor
<1>4. ASSUME NEW r \in Reconciler, NEW listed \in BOOLEAN,
             ReadRequests(r, listed)
      PROVE  FloorInv' /\ requests' = requests
  BY <1>4, <1>t, ReadRequestsKeepsFloor DEF ReadRequests
<1>5. ASSUME NEW r \in Reconciler,
             SurgeUp(r) \/ SurgeDown(r) \/ clearSurgeAndLock(r)
      PROVE  FloorInv' /\ requests' = requests
  BY <1>5, <1>t, SurgeKeepsFloor DEF SurgeUp, SurgeDown, clearSurgeAndLock
<1>6. ASSUME \/ UNCHANGED vars
             \/ \E r \in Reconciler :
                   \/ ReadClass(r) \/ ReadSet(r) \/ RefreshLock(r)
                   \/ stampGeneration(r) \/ setLock(r) \/ teardownNotFound(r)
                   \/ clearLock(r) \/ Abandon(r)
             \/ Autoscaler \/ Operator \/ AdvanceTime
      PROVE  FloorInv' /\ requests' = requests
  <2>1. requests' = requests
    BY <1>6 DEF vars, ReadClass, ReadSet, RefreshLock, stampGeneration, setLock,
                teardownNotFound, clearLock, Abandon, Autoscaler, ScaleDiscover,
                IncreaseMachineCount, ScaleRejected, Operator, EditClass,
                EditStrategy, EditCount, AdvanceTime
  <2> QED
    BY <1>6, <1>t, <2>1, OthersKeepFloor
<1>7. requests' = requests => ~(Len(requests') < Len(requests))
  BY <1>l
<1> QED
  BY <1>1, <1>2, <1>3, <1>4, <1>5, <1>6, <1>7
  DEF Next, Discover, Execute, Omni

(* min-healthy is kept: while one reconciler is the only writer of the      *)
(* count and a class is not edited in the middle of a cycle, no removal     *)
(* that the rotation causes leaves fewer than MinHealthy serving members,   *)
(* for sets of any size, under either strategy and after switching between  *)
(* them, whatever crashes, failed calls, failed provisioning, unlisted      *)
(* stages and expired locks come between Plan's look at the floor           *)
(* (plan.go:94, :142, :187) and the removal.                                *)
THEOREM FloorKept ==
    ASSUME SoleReconciler, ~Scaler, ~CountEdits, ~MidCycleEdits
    PROVE  Spec => FloorRespected
<1>1. Init => FloorInv
  BY FloorInit
<1>2. FloorInv /\ [Next]_vars => FloorInv'
  BY FloorStep
<1>3. FloorInv /\ [Next]_vars =>
         [Len(requests') < Len(requests)
            => Cardinality(Provisioned(requests')) >= MinHealthy]_vars
  BY FloorStep
<1> QED
  BY <1>1, <1>2, <1>3, PTL DEF Spec, FloorRespected

-----------------------------------------------------------------------------
(* The rolling replacement that the rotation implements.                    *)

(* A removal takes at most one of those that serve, and adds none.          *)
LEMMA RemovalServing ==
    ASSUME NEW s \in Seq(Request), NEW i \in DOMAIN s
    PROVE  Cardinality(Provisioned(Without(s, i)))
             \in {Cardinality(Provisioned(s)), Cardinality(Provisioned(s)) - 1}
<1> DEFINE P == Provisioned(s)
           W == Provisioned(Without(s, i))
           f == [j \in W |-> IF j < i THEN j ELSE j + 1]
<1>1. P \in SUBSET DOMAIN s /\ DOMAIN s = 1 .. Len(s) /\ Len(s) \in Nat
  BY DEF Provisioned
<1>2. W = Survivors(s, i, P)
  BY WithoutMembers
<1>3. f \in [W -> P] /\ \A j, k \in W : f[j] = f[k] => j = k
  BY <1>1, <1>2 DEF Survivors
<1>4. f \in Injection(W, P)
  BY <1>3 DEF Injection, IsInjective
<1>5. IsFiniteSet(P)
  BY <1>1, MemberSets
<1>6. Cardinality(W) <= Cardinality(P)
  BY <1>4, <1>5, FS_Injection
<1>7. Cardinality(W) >= Cardinality(P) - 1
  BY RemovalCount
<1>8. Cardinality(W) \in Nat /\ Cardinality(P) \in Nat
  BY WithoutType, MembersServing
<1> HIDE DEF W, P
<1>9. Cardinality(W) \in {Cardinality(P), Cardinality(P) - 1}
  BY <1>6, <1>7, <1>8
<1> QED
  BY <1>9 DEF W, P

(* Both ways a member leaves.                                               *)
LEMMA RemovalLeaves ==
    ASSUME TypeOK, NEW i \in DOMAIN requests,
           requests' = Without(requests, i),
           set'.count = set.count, set'.phase = set.phase,
           set.phase = "wait-down" => Len(requests) > set.count,
           Cardinality(Provisioned(requests')) >= MinHealthy
    PROVE  RollingService!Leave
<1>1. requests \in Seq(Request)
  BY DEF TypeOK
<1>2. Len(requests') = Len(requests) - 1
  BY <1>1, WithoutMembers
<1>3. Cardinality(Provisioned(requests'))
         \in {Cardinality(Provisioned(requests)),
              Cardinality(Provisioned(requests)) - 1}
  BY <1>1, RemovalServing
<1> QED
  BY <1>2, <1>3 DEF RollingService!Leave

(* A member that is created does not serve yet.                             *)
LEMMA CreateJoins ==
    ASSUME TypeOK, TypeOK', CreateRequest
    PROVE  RollingService!Join
<1>1. /\ requests \in Seq(Request) /\ requests' \in Seq(Request)
      /\ Len(requests) \in Nat /\ DOMAIN requests = 1 .. Len(requests)
  BY DEF TypeOK
<1>2. PICK new : /\ requests' = Append(requests, new)
                 /\ new.stage = "unknown"
  BY DEF CreateRequest
<1>3. UNCHANGED set /\ Len(requests) < set.count
  BY DEF CreateRequest
<1>4. /\ Len(requests') = Len(requests) + 1
      /\ DOMAIN requests' = 1 .. Len(requests) + 1
      /\ requests'[Len(requests) + 1] = new
      /\ \A i \in 1 .. Len(requests) : requests'[i] = requests[i]
  BY <1>1, <1>2
<1>5. Provisioned(requests') = Provisioned(requests)
  BY <1>1, <1>2, <1>4 DEF Provisioned
<1> QED
  BY <1>3, <1>4, <1>5 DEF RollingService!Join

(* A stage that changes: one more serves, or nothing is seen of it.         *)
LEMMA StageServes ==
    ASSUME TypeOK, TypeOK', NEW from, NEW to, ChangeStage(from, to),
           from # "provisioned"
    PROVE  RollingService!Serve \/ UNCHANGED RollingService!vars
<1>1. /\ requests \in Seq(Request) /\ requests' \in Seq(Request)
      /\ Len(requests) \in Nat /\ DOMAIN requests = 1 .. Len(requests)
  BY DEF TypeOK
<1>2. PICK i \in DOMAIN requests :
         /\ requests[i].stage = from
         /\ requests' = [requests EXCEPT ![i].stage = to]
  BY DEF ChangeStage
<1>3. UNCHANGED set
  BY DEF ChangeStage
<1>4. /\ DOMAIN requests' = DOMAIN requests
      /\ \A j \in DOMAIN requests : j # i => requests'[j] = requests[j]
      /\ requests'[i] = [requests[i] EXCEPT !.stage = to]
      /\ requests[i] \in Request
  BY <1>1, <1>2
<1>5. Len(requests') = Len(requests)
  BY <1>1, <1>4
<1>6. requests'[i].stage = to
  BY <1>4 DEF Request
<1> DEFINE P == Provisioned(requests)
           Q == Provisioned(requests')
<1>7. CASE to # "provisioned"
  <2>1. Q = P
    BY <1>2, <1>4, <1>6, <1>7 DEF Provisioned
  <2> QED
    BY <1>3, <1>5, <2>1 DEF RollingService!vars
<1>8. CASE to = "provisioned"
  <2>1. Q = P \cup {i} /\ i \notin P
    BY <1>2, <1>4, <1>6, <1>8 DEF Provisioned
  <2>2. P \in SUBSET DOMAIN requests /\ Q \in SUBSET DOMAIN requests
    BY <1>4 DEF Provisioned
  <2>3. /\ IsFiniteSet(P) /\ Cardinality(P) \in Nat
        /\ Cardinality(Q) <= Len(requests)
    BY <1>1, <2>2, MemberSets
  <2> HIDE DEF P, Q
  <2>4. Cardinality(Q) = Cardinality(P) + 1
    BY <2>1, <2>3, FS_AddElement
  <2>5. Cardinality(P) < Len(requests)
    BY <1>1, <2>3, <2>4
  <2> QED
    BY <1>3, <1>5, <2>4, <2>5 DEF RollingService!Serve, P, Q
<1> QED
  BY <1>7, <1>8

(* The three writes of a surge cycle.                                       *)
LEMMA SurgeRolls ==
    ASSUME FloorInv, NEW r \in Reconciler,
           SurgeUp(r) \/ SurgeDown(r) \/ clearSurgeAndLock(r)
    PROVE  RollingService!Begin \/ RollingService!GiveUp \/ RollingService!End
<1>t. TypeOK /\ CountInv
  BY DEF FloorInv, CountInv
<1>a. /\ set.count \in Nat /\ nominal \in Nat /\ MinHealthy \in Nat
      /\ Cardinality(Provisioned(requests)) \in Nat
  BY <1>t, FloorTypes, MembersServing DEF TypeOK
<1>1. CASE SurgeUp(r)
  BY <1>1, <1>t DEF SurgeUp, Executing, withSurgeStep, CountInv, PlanIsCurrent,
                    FloorInv, PlanFloor, RollingService!Begin
<1>2. CASE SurgeDown(r)
  <2>1. /\ set.phase = "wait-up" /\ UNCHANGED requests
        /\ Cardinality(Provisioned(requests)) >= MinHealthy + 1
    BY <1>2, <1>t DEF SurgeDown, Executing, CountInv, PlanIsCurrent, FloorInv,
                      PlanFloor
  <2>2. set.count = nominal + 1
    BY <1>t, <2>1 DEF CountInv, CountAccounted
  <2>3. set'.count = set.count - 1 /\ set'.phase = "wait-down"
    BY <1>2, <1>a, <2>2 DEF SurgeDown, withSurgeStep
  <2>4. Cardinality(Provisioned(requests)) > MinHealthy
    BY <1>a, <2>1
  <2> QED
    BY <2>1, <2>3, <2>4 DEF RollingService!GiveUp
<1>3. CASE clearSurgeAndLock(r)
  <2>1. plan[r].action = "complete"
    BY <1>3, <1>t DEF clearSurgeAndLock, Executing, CountInv,
                      AbortMeansForeignWriter
  <2>2. Len(requests) <= set.count /\ set.phase = "wait-down"
    BY <1>t, <2>1 DEF CountInv, PlanIsCurrent, FloorInv, PlanFloor
  <2>3. /\ set'.count = set.count /\ set'.phase = "none"
        /\ UNCHANGED requests
    BY <1>3, <1>t DEF clearSurgeAndLock, TypeOK, Set
  <2> QED
    BY <2>2, <2>3 DEF RollingService!End
<1> QED
  BY <1>1, <1>2, <1>3

(* Nothing is seen of the other steps.                                      *)
LEMMA UnseenSteps ==
    ASSUME ~CountEdits, FloorInv,
           \/ UNCHANGED vars
           \/ \E r \in Reconciler :
                 \/ ReadClass(r) \/ ReadSet(r)
                 \/ \E listed \in BOOLEAN : ReadRequests(r, listed)
                 \/ RefreshLock(r) \/ stampGeneration(r) \/ setLock(r)
                 \/ teardownNotFound(r) \/ clearLock(r) \/ Abandon(r)
           \/ (~Scaler /\ Autoscaler) \/ Operator \/ AdvanceTime
    PROVE  UNCHANGED RollingService!vars
<1>s. set \in Set /\ group = NoGroup
  BY DEF FloorInv, CountInv, TypeOK
<1>1. UNCHANGED requests /\ \/ UNCHANGED set
                            \/ \E l : set' = [set EXCEPT !.lock = l]
  <2>1. CASE UNCHANGED vars
    BY <2>1 DEF vars
  <2>2. ASSUME NEW r \in Reconciler,
               \/ ReadClass(r) \/ ReadSet(r)
               \/ \E listed \in BOOLEAN : ReadRequests(r, listed)
               \/ stampGeneration(r) \/ teardownNotFound(r) \/ Abandon(r)
        PROVE  UNCHANGED <<set, requests>>
    BY <2>2 DEF ReadClass, ReadSet, ReadRequests, stampGeneration,
                teardownNotFound, Abandon
  <2>3. ASSUME NEW r \in Reconciler,
               RefreshLock(r) \/ setLock(r) \/ clearLock(r)
        PROVE  UNCHANGED requests /\ \/ UNCHANGED set
                                     \/ \E l : set' = [set EXCEPT !.lock = l]
    BY <2>3 DEF RefreshLock, setLock, clearLock
  <2>4. CASE ~Scaler /\ Autoscaler
    BY <2>4, <1>s DEF Autoscaler, ScaleDiscover, IncreaseMachineCount,
                      ScaleRejected
  <2>5. CASE Operator
    BY <2>5 DEF Operator, EditClass, EditStrategy, EditCount
  <2>6. CASE AdvanceTime
    BY <2>6 DEF AdvanceTime
  <2> QED
    BY <2>1, <2>2, <2>3, <2>4, <2>5, <2>6
<1>2. set'.count = set.count /\ set'.phase = set.phase
  BY <1>1, <1>s DEF Set
<1> QED
  BY <1>1, <1>2 DEF RollingService!vars

(* The rotation implements the rolling replacement that its users see:      *)
(* while one reconciler is the only writer of the count and a class is not  *)
(* edited in the middle of a cycle, every step of ticks that may end        *)
(* anywhere, of the controller, of provisioning and of time is one of       *)
(* RollingSet, or nothing is seen of it, for sets of any size.              *)
THEOREM RotationRefines ==
    ASSUME SoleReconciler, ~Scaler, ~CountEdits, ~MidCycleEdits
    PROVE  Spec => ImplementsRollingSet
<1>1. Init => FloorInv
  BY FloorInit
<1>2. FloorInv /\ [Next]_vars => FloorInv'
  BY FloorStep
<1>3. Init => RollingService!Init
  <2> SUFFICES ASSUME Init PROVE RollingService!Init
    OBVIOUS
  <2>1. TypeOK /\ InitialCount \in Nat
    BY InitTyped, RotationAssumption
  <2>2. /\ set.phase = "none" /\ set.count = InitialCount
        /\ DOMAIN requests = 1 .. InitialCount
        /\ \A i \in 1 .. InitialCount : requests[i].stage = "provisioned"
    BY DEF Init
  <2>3. Len(requests) = InitialCount
    BY <2>1, <2>2 DEF TypeOK
  <2>4. Provisioned(requests) = 1 .. InitialCount
    BY <2>2 DEF Provisioned
  <2>5. Cardinality(Provisioned(requests)) = InitialCount
    BY <2>1, <2>4, FirstNaturals
  <2> QED
    BY <2>2, <2>3, <2>5 DEF RollingService!Init
<1>4. FloorInv /\ FloorInv' /\ [Next]_vars
        => [RollingService!Next]_(RollingService!vars)
  <2> SUFFICES ASSUME FloorInv, FloorInv', [Next]_vars
               PROVE  [RollingService!Next]_(RollingService!vars)
    OBVIOUS
  <2>t. TypeOK /\ TypeOK' /\ CountInv /\ CountInv'
    BY DEF FloorInv, CountInv
  <2>1. ASSUME NEW r \in Reconciler, teardownRequest(r)
        PROVE  RollingService!Leave
    <3>1. PICK i \in DOMAIN requests : requests' = Without(requests, i)
      BY <2>1 DEF teardownRequest
    <3>2. UNCHANGED set
      BY <2>1 DEF teardownRequest
    <3>3. Cardinality(Provisioned(requests')) >= MinHealthy
      BY <2>1, <2>t, TeardownKeepsFloor
    <3>4. set.phase # "wait-down"
      BY <2>1 DEF teardownRequest, FloorInv, TickIsSound, PlanFloor, CycleFloor
    <3> QED
      BY <2>t, <3>1, <3>2, <3>3, <3>4, RemovalLeaves
  <2>2. CASE RemoveOldest
    <3>1. /\ UNCHANGED set /\ Len(requests) > set.count
          /\ requests' = Tail(requests)
      BY <2>2 DEF RemoveOldest
    <3>2. requests' = Without(requests, 1) /\ 1 \in DOMAIN requests
      BY <2>t, <3>1, FloorTypes, TailIsWithout
    <3>3. Cardinality(Provisioned(requests')) >= MinHealthy
      BY <2>2, <2>t, RemoveOldestKeepsFloor
    <3> QED
      BY <2>t, <3>1, <3>2, <3>3, RemovalLeaves DEF RollingService!Next
  <2>3. CASE CreateRequest
    BY <2>3, <2>t, CreateJoins DEF RollingService!Next
  <2>4. CASE StartProvisioning \/ Provision \/ FailProvisioning \/ RetryProvisioning
    BY <2>4, <2>t, StageServes
    DEF StartProvisioning, Provision, FailProvisioning, RetryProvisioning,
        RollingService!Next
  <2>5. ASSUME NEW r \in Reconciler,
               SurgeUp(r) \/ SurgeDown(r) \/ clearSurgeAndLock(r)
        PROVE  RollingService!Next
    BY <2>5, SurgeRolls DEF RollingService!Next
  <2>6. ASSUME \/ UNCHANGED vars
               \/ \E r \in Reconciler :
                     \/ ReadClass(r) \/ ReadSet(r)
                     \/ \E listed \in BOOLEAN : ReadRequests(r, listed)
                     \/ RefreshLock(r) \/ stampGeneration(r) \/ setLock(r)
                     \/ teardownNotFound(r) \/ clearLock(r) \/ Abandon(r)
               \/ Autoscaler \/ Operator \/ AdvanceTime
        PROVE  UNCHANGED RollingService!vars
    BY <2>6, UnseenSteps
  <2> QED
    BY <2>1, <2>2, <2>3, <2>4, <2>5, <2>6
    DEF Next, Discover, Execute, Omni, RollingService!Next
<1> QED
  BY <1>1, <1>2, <1>3, <1>4, PTL
  DEF Spec, ImplementsRollingSet, RollingService!Spec
=============================================================================
