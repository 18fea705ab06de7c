------------------------- MODULE ProvisioningProofs -------------------------
(* Proofs about Provisioning for every value of its constants.              *)
EXTENDS Provisioning, TLAPS

-----------------------------------------------------------------------------
(* Type correctness.                                                        *)

(* Every action watches the steady requests.                                *)
LEMMA Watches == Next => Watch
<1>1. ASSUME NEW q \in Request,
             \/ Reconcile(q) \/ StepFails(q) \/ ForgetVM(q) \/ NoVMFound(q)
             \/ EnsureZvol(q) \/ CreateVM(q) \/ EnsureExtraZvol(q)
             \/ StartVM(q) \/ HealthCheck(q)
      PROVE  Watch
  BY <1>1 DEF Reconcile, StepFails, ForgetVM, NoVMFound, EnsureZvol, CreateZvol, CreateVM,
              EnsureExtraZvol, StartVM, HealthCheck
<1>2. ASSUME NEW q \in Request, NEW v \in Vm,
             \/ RefuseToAdopt(q, v) \/ FoundRunning(q, v) \/ StartFound(q, v)
             \/ RecoverVM(q, v) \/ ReplaceVM(q, v)
      PROVE  Watch
  BY <1>2 DEF RefuseToAdopt, FoundRunning, StartFound, RecoverVM, ReplaceVM
<1>3. ASSUME NEW q \in Request,
             AddCDROM(q) \/ AddDisk(q) \/ AddExtraDisk(q) \/ AddNIC(q)
      PROVE  Watch
  BY <1>3 DEF AddCDROM, AddDisk, AddExtraDisk, AddNIC, Attach
<1>4. ASSUME NEW q \in Request, TearDown(q)
      PROVE  Watch
  BY <1>4 DEF TearDown, Deprovision, CleanupVM, CleanupZvol, Deprovisioned
<1>5. CASE Cleanup
  BY <1>5 DEF Cleanup, ListManagedZvols, LiveRequestIDs, ListVMs,
     ListVMsFails, VMsSwept, ListVMNames, ZvolsSwept, DeleteOrphanVM,
     DeleteOrphanZvol
<1>6. CASE Environment
  BY <1>6 DEF Environment, Crash, CreateRequest, DeleteRequest, DropRequest,
     VMStops, Meddle
<1> QED
  BY <1>1, <1>2, <1>3, <1>4, <1>5, <1>6 DEF Next, Provision

LEMMA WatchTyped == TypeOK /\ Watch => steady' \subseteq Request
  BY DEF TypeOK, Watch

(* The default values.                                                      *)
LEMMA Defaults ==
    /\ NoMachine \in Machine
    /\ NoSweep \in Sweep
    /\ Absent \in VirtualMachine
    /\ "root" \in Disk
<1>1. NoSweep \in Sweep
  BY DEF NoSweep, Sweep
<1> QED
  BY <1>1 DEF NoMachine, Machine, Absent, VirtualMachine, Disk

(* The shapes in which a machine's state is written.                        *)
LEMMA MachineWrites ==
    ASSUME NEW w \in Machine
    PROVE  /\ \A v \in Vm \cup {NoVm} : [w EXCEPT !.vm = v] \in Machine
           /\ \A d \in Disk :
                 /\ [w EXCEPT !.disks = @ \cup {d}] \in Machine
                 /\ [w EXCEPT !.disks = @ \ {d}] \in Machine
           /\ [w EXCEPT !.disks = @ \ {"extra"}] \in Machine
<1>1. w.vm \in Vm \cup {NoVm} /\ w.disks \in SUBSET Disk
  BY DEF Machine
<1>2. \A v \in Vm \cup {NoVm} : [w EXCEPT !.vm = v] \in Machine
  BY DEF Machine
<1>3. \A D \in SUBSET Disk : [w EXCEPT !.disks = D] \in Machine
  BY DEF Machine
<1> QED
  BY <1>1, <1>2, <1>3

(* What a reconcile leaves of the steps and of the machine's state.         *)
TypedReconcile ==
    /\ step \in [Request -> Step]
    /\ work \in [Request -> Machine]
    /\ saved \in [Request -> Machine]

LEMMA ReconcileTyped ==
    ASSUME TypedReconcile, NEW q \in Request, NEW w \in Machine, NEW s \in Step,
           Goto(q, s, w) \/ Retry(q, w) \/ Fail(q, w) \/ Done(q, s, w)
    PROVE  TypedReconcile'
<1>1. "idle" \in Step /\ NoMachine \in Machine /\ work[q] \in Machine
  BY Defaults DEF Step, TypedReconcile
<1>2. CASE Goto(q, s, w)
  BY <1>2 DEF TypedReconcile, Goto
<1>3. ASSUME End(q) PROVE (step' \in [Request -> Step]) /\ work' \in [Request -> Machine]
  BY <1>1, <1>3 DEF TypedReconcile, End
<1>4. CASE Retry(q, w)
  BY <1>3, <1>4 DEF TypedReconcile, Retry
<1>5. ASSUME NEW u \in Machine, Fail(q, u) PROVE TypedReconcile'
  BY <1>3, <1>5 DEF TypedReconcile, Fail
<1> QED
  BY <1>1, <1>2, <1>4, <1>5 DEF Done

(* The shapes in which the VMs are written.                                 *)
LEMMA VmWrites ==
    ASSUME vm \in [Vm -> VirtualMachine], NEW v \in Vm
    PROVE  /\ Started(v) \in [Vm -> VirtualMachine]
           /\ Removed(v) \in [Vm -> VirtualMachine]
           /\ NotRemoved(v) \subseteq [Vm -> VirtualMachine]
           /\ \A s \in {"STOPPED", "ERROR"} :
                 [vm EXCEPT ![v].state = s] \in [Vm -> VirtualMachine]
           /\ \A d \in Device :
                 [vm EXCEPT ![v].devices = @ \cup {d}]
                    \in [Vm -> VirtualMachine]
           /\ \A n, t \in Request \cup {NoRequest}, m \in BOOLEAN :
                 [vm EXCEPT ![v] = NewVM(n, m, t)] \in [Vm -> VirtualMachine]
           /\ [vm EXCEPT ![v].marked = ~@] \in [Vm -> VirtualMachine]
           /\ [vm EXCEPT ![v] = Absent] \in [Vm -> VirtualMachine]
<1>1. \A t \in VirtualMachine : [vm EXCEPT ![v] = t] \in [Vm -> VirtualMachine]
  OBVIOUS
<1>2. vm[v] \in VirtualMachine
  OBVIOUS
<1>3. \A s \in {"ABSENT", "STOPPED", "RUNNING", "ERROR"} :
         [vm[v] EXCEPT !.state = s] \in VirtualMachine
  BY <1>2 DEF VirtualMachine
<1>4. \A s \in {"ABSENT", "STOPPED", "RUNNING", "ERROR"} :
         [vm EXCEPT ![v].state = s] \in [Vm -> VirtualMachine]
  BY <1>3
<1>5. \A d \in Device : [vm[v] EXCEPT !.devices = @ \cup {d}] \in VirtualMachine
  <2>1. vm[v].devices \in SUBSET Device
    BY <1>2 DEF VirtualMachine
  <2> QED
    BY <1>2, <2>1 DEF VirtualMachine
<1>6. \A d \in Device :
         [vm EXCEPT ![v].devices = @ \cup {d}] \in [Vm -> VirtualMachine]
  BY <1>5
<1>7. \A n, t \in Request \cup {NoRequest}, m \in BOOLEAN :
         NewVM(n, m, t) \in VirtualMachine
  BY DEF NewVM, VirtualMachine
<1>11. [vm EXCEPT ![v].marked = ~@] \in [Vm -> VirtualMachine]
  <2>1. \A m \in BOOLEAN : [vm[v] EXCEPT !.marked = m] \in VirtualMachine
    BY <1>2 DEF VirtualMachine
  <2>2. (~vm[v].marked) \in BOOLEAN
    OBVIOUS
  <2> QED
    BY <2>1, <2>2
<1>8. Started(v) \in [Vm -> VirtualMachine]
  BY <1>4 DEF Started
<1>9. Removed(v) \in [Vm -> VirtualMachine]
  BY <1>1, Defaults DEF Removed
<1>10. NotRemoved(v) \subseteq [Vm -> VirtualMachine]
  <2>1. vm[v].state \in {"ABSENT", "STOPPED", "RUNNING", "ERROR"}
    BY <1>2 DEF VirtualMachine
  <2>2. [vm EXCEPT ![v].state = IF @ = "RUNNING" THEN "STOPPED" ELSE @]
           \in [Vm -> VirtualMachine]
    BY <1>4, <2>1
  <2> QED
    BY <2>2 DEF NotRemoved
<1> QED
  BY <1>1, <1>4, <1>6, <1>7, <1>8, <1>9, <1>10, <1>11, Defaults

(* TypeOK after a step, in the parts that actions write together.           *)
LEMMA TypeParts ==
    ASSUME TypedReconcile',
           request' \in [Request -> {"none", "live", "provisioned", "deleting"}],
           vm' \in [Vm -> VirtualMachine],
           zvol' \subseteq Request \X Disk,
           errorCount' \in [Vm -> 0 .. MaxErrorRecoveries],
           sweep' \in Sweep,
           steady' \subseteq Request
    PROVE  TypeOK'
  BY DEF TypeOK, TypedReconcile

LEMMA InitTyped == Init => TypeOK
<1>1. 0 \in 0 .. MaxErrorRecoveries /\ "idle" \in Step
  BY ProvisioningAssumption DEF Step
<1> QED
  BY <1>1, Defaults DEF Init, TypeOK

(* The error counters.                                                      *)
LEMMA CounterWrites ==
    ASSUME TypeOK, NEW v \in Vm
    PROVE  /\ [errorCount EXCEPT ![v] = 0] \in [Vm -> 0 .. MaxErrorRecoveries]
           /\ MaxErrorRecoveries > 0 /\ ~Exhausted(v) =>
                 [errorCount EXCEPT ![v] = @ + 1]
                    \in [Vm -> 0 .. MaxErrorRecoveries]
<1>1. MaxErrorRecoveries \in Nat
  BY ProvisioningAssumption
<1>2. 0 \in 0 .. MaxErrorRecoveries
  BY <1>1
<1>3. errorCount[v] \in 0 .. MaxErrorRecoveries
  BY DEF TypeOK
<1>4. MaxErrorRecoveries > 0 /\ ~Exhausted(v) =>
         errorCount[v] + 1 \in 0 .. MaxErrorRecoveries
  BY <1>1, <1>3 DEF Exhausted
<1> QED
  BY <1>2, <1>4 DEF TypeOK

(* createVM, and the ends of every step.                                    *)
LEMMA ProvisionTyped ==
    ASSUME TypeOK, NEW q \in Request, Provision(q)
    PROVE  TypeOK'
<1>w. steady' \subseteq Request
  BY Watches, WatchTyped DEF Next
<1>p. TypedReconcile
  BY DEF TypeOK, TypedReconcile
<1>s. /\ {"idle", "check", "zvol", "vm", "cdrom", "disk", "nic", "start",
          "health"} \subseteq Step
      /\ ExtraDisk => {"extra zvol", "extra disk"} \subseteq Step
  BY DEF Step
<1>q. /\ work[q] \in Machine /\ saved[q] \in Machine
      /\ work[q].vm \in Vm \cup {NoVm}
  BY DEF TypeOK, Machine
<1>a. \A v \in Vm \cup {NoVm} : Adopted(q, v) \in Machine
  BY <1>q, MachineWrites DEF Adopted
<1>v. vm \in [Vm -> VirtualMachine]
  BY DEF TypeOK
<1>1. ASSUME UNCHANGED <<request, vm, zvol, errorCount, sweep>>, TypedReconcile'
      PROVE  TypeOK'
  BY <1>1, <1>w, TypeParts DEF TypeOK
<1>2. CASE Reconcile(q) \/ StepFails(q) \/ NoVMFound(q)
  BY <1>1, <1>2, <1>p, <1>q, <1>s, ReconcileTyped
  DEF Reconcile, StepFails, NoVMFound
<1>3. CASE ForgetVM(q)
  <2>1. [work[q] EXCEPT !.vm = NoVm] \in Machine
    BY <1>q, MachineWrites
  <2> QED
    BY <1>1, <1>3, <1>p, <1>s, <2>1, ReconcileTyped DEF ForgetVM
<1>4. ASSUME NEW v \in Vm, RefuseToAdopt(q, v)
      PROVE  TypeOK'
  BY <1>1, <1>4, <1>p, <1>s, <1>a, ReconcileTyped DEF RefuseToAdopt
<1>5. ASSUME NEW v \in Vm, FoundRunning(q, v)
      PROVE  TypeOK'
  <2>1. TypedReconcile'
    BY <1>5, <1>p, <1>s, <1>a, ReconcileTyped DEF FoundRunning
  <2> QED
    BY <1>5, <1>w, <2>1, CounterWrites, TypeParts DEF FoundRunning, TypeOK
<1>6. ASSUME NEW v \in Vm, StartFound(q, v)
      PROVE  TypeOK'
  <2>1. TypedReconcile'
    BY <1>6, <1>p, <1>s, <1>a, ReconcileTyped DEF StartFound
  <2> QED
    BY <1>6, <1>v, <1>w, <2>1, VmWrites, TypeParts DEF StartFound, TypeOK
<1>7. ASSUME NEW v \in Vm, RecoverVM(q, v)
      PROVE  TypeOK'
  <2>1. TypedReconcile'
    BY <1>7, <1>p, <1>s, <1>a, ReconcileTyped DEF RecoverVM
  <2>2. errorCount' \in [Vm -> 0 .. MaxErrorRecoveries]
    BY <1>7, CounterWrites DEF RecoverVM, TypeOK
  <2>3. vm' \in [Vm -> VirtualMachine]
    BY <1>7, <1>v, VmWrites DEF RecoverVM
  <2> QED
    BY <1>7, <1>w, <2>1, <2>2, <2>3, TypeParts DEF RecoverVM, TypeOK
<1>8. ASSUME NEW v \in Vm, ReplaceVM(q, v)
      PROVE  TypeOK'
  <2>1. TypedReconcile'
    BY <1>8, <1>p, <1>s, <1>a, ReconcileTyped DEF ReplaceVM
  <2>2. vm' \in [Vm -> VirtualMachine]
    BY <1>8, <1>v, VmWrites DEF ReplaceVM
  <2> QED
    BY <1>8, <1>w, <2>1, <2>2, CounterWrites, TypeParts DEF ReplaceVM, TypeOK
<1>9. CASE EnsureZvol(q)
  <2>1. [work[q] EXCEPT !.disks = @ \cup {"root"}] \in Machine
    BY <1>q, MachineWrites, Defaults
  <2>2. TypedReconcile'
    BY <1>9, <1>p, <1>s, <2>1, ReconcileTyped DEF EnsureZvol, CreateZvol
  <2>3. zvol' \subseteq Request \X Disk
    BY <1>9, Defaults DEF EnsureZvol, CreateZvol, TypeOK
  <2> QED
    BY <1>9, <1>w, <2>2, <2>3, TypeParts DEF EnsureZvol, CreateZvol, TypeOK
<1>10. CASE CreateVM(q)
  <2>1. PICK v \in Vm :
            /\ vm' = [vm EXCEPT ![v] = NewVM(q, TRUE, q)]
            /\ errorCount' = [errorCount EXCEPT ![v] = 0]
            /\ Done(q, "cdrom", Adopted(q, v))
    BY <1>10 DEF CreateVM, NewIds
  <2>2. TypedReconcile'
    BY <1>p, <1>s, <1>a, <2>1, ReconcileTyped
  <2> QED
    BY <1>10, <1>v, <1>w, <2>1, <2>2, CounterWrites, VmWrites, TypeParts
    DEF CreateVM, TypeOK
<1>11. ASSUME NEW from \in Step, NEW device \in Device, NEW to \in Step,
              NEW w \in Machine, Attach(q, from, device, to, w)
       PROVE  TypeOK'
  <2>1. TypedReconcile'
    BY <1>11, <1>p, ReconcileTyped DEF Attach
  <2>2. vm' \in [Vm -> VirtualMachine]
    BY <1>11, <1>v, VmWrites DEF Attach, Exists
  <2> QED
    BY <1>11, <1>w, <2>1, <2>2, TypeParts DEF Attach, TypeOK
<1>12. CASE AddCDROM(q) \/ AddNIC(q)
  <2>1. {"cdrom", "nic"} \subseteq Device
    BY DEF Device
  <2> QED
    BY <1>11, <1>12, <1>q, <1>s, <2>1 DEF AddCDROM, AddNIC
<1>13. CASE AddDisk(q)
  <2>1. [work[q] EXCEPT !.disks = @ \ {"extra"}] \in Machine
    BY <1>q, MachineWrites
  <2>2. (IF ExtraDisk THEN "extra zvol" ELSE "nic") \in Step
    BY <1>s, ProvisioningAssumption
  <2>3. "root" \in Device
    BY Defaults DEF Device
  <2> QED
    BY <1>11, <1>13, <1>s, <2>1, <2>2, <2>3 DEF AddDisk
<1>14. CASE EnsureExtraZvol(q)
  <2>1. ExtraDisk
    BY <1>14, <1>p DEF EnsureExtraZvol, CreateZvol, TypedReconcile, Step
  <2>2. TypedReconcile'
    BY <1>14, <1>p, <1>q, <1>s, <2>1, ReconcileTyped DEF EnsureExtraZvol, CreateZvol
  <2>3. zvol' \subseteq Request \X Disk
    <3>1. <<q, "extra">> \in Request \X Disk
      BY <2>1 DEF Disk
    <3> QED
      BY <1>14, <3>1 DEF EnsureExtraZvol, CreateZvol, TypeOK
  <2> QED
    BY <1>14, <1>w, <2>2, <2>3, TypeParts DEF EnsureExtraZvol, CreateZvol, TypeOK
<1>15. CASE AddExtraDisk(q)
  <2>1. ExtraDisk
    BY <1>15, <1>p DEF AddExtraDisk, Attach, TypedReconcile, Step
  <2>2. "extra" \in Disk /\ "extra" \in Device
    BY <2>1 DEF Disk, Device
  <2>3. [work[q] EXCEPT !.disks = @ \cup {"extra"}] \in Machine
    BY <1>q, <2>2, MachineWrites
  <2> QED
    BY <1>11, <1>15, <1>s, <2>1, <2>2, <2>3 DEF AddExtraDisk
<1>16. CASE StartVM(q)
  <2>1. TypedReconcile'
    BY <1>16, <1>p, <1>q, <1>s, ReconcileTyped DEF StartVM
  <2>2. vm' \in [Vm -> VirtualMachine]
    BY <1>16, <1>v, VmWrites DEF StartVM, Exists
  <2> QED
    BY <1>16, <1>w, <2>1, <2>2, TypeParts DEF StartVM, TypeOK
<1>17. CASE HealthCheck(q)
  <2>1. [work[q] EXCEPT !.vm = NoVm] \in Machine
    BY <1>q, MachineWrites
  <2>2. TypedReconcile'
    BY <1>17, <1>p, <1>q, <1>s, <2>1, ReconcileTyped DEF HealthCheck
  <2>3. request' \in [Request -> {"none", "live", "provisioned", "deleting"}]
    BY <1>17 DEF HealthCheck, TypeOK
  <2> QED
    BY <1>17, <1>w, <2>2, <2>3, TypeParts DEF HealthCheck, TypeOK
<1> QED
  BY <1>2, <1>3, <1>4, <1>5, <1>6, <1>7, <1>8, <1>9, <1>10, <1>12, <1>13,
     <1>14, <1>15, <1>16, <1>17 DEF Provision

(* Deprovision.                                                             *)
LEMMA TearDownTyped ==
    ASSUME TypeOK, NEW q \in Request, TearDown(q)
    PROVE  TypeOK'
<1>w. steady' \subseteq Request
  BY Watches, WatchTyped DEF Next
<1>p. TypedReconcile
  BY DEF TypeOK, TypedReconcile
<1>s. {"idle", "delete vm", "delete disks"} \subseteq Step
  BY DEF Step
<1>q. /\ work[q] \in Machine /\ saved[q] \in Machine
      /\ work[q].vm \in Vm \cup {NoVm}
  BY DEF TypeOK, Machine
<1>1. CASE Deprovision(q)
  <2>1. TypedReconcile'
    BY <1>1, <1>p, <1>q, <1>s, ReconcileTyped DEF Deprovision
  <2> QED
    BY <1>1, <1>w, <2>1, TypeParts DEF Deprovision, TypeOK
<1>2. CASE CleanupVM(q)
  <2>1. TypedReconcile'
    BY <1>2, <1>p, <1>q, <1>s, ReconcileTyped DEF CleanupVM
  <2>2. vm' \in [Vm -> VirtualMachine]
    <3>1. vm \in [Vm -> VirtualMachine]
      BY DEF TypeOK
    <3>2. CASE UNCHANGED vm
      BY <3>1, <3>2
    <3>3. CASE /\ work[q].vm \in Vm
               /\ vm' \in NotRemoved(work[q].vm) \cup {Removed(work[q].vm)}
      BY <3>1, <3>3, VmWrites
    <3> QED
      BY <1>2, <3>2, <3>3 DEF CleanupVM, Exists
  <2> QED
    BY <1>2, <1>w, <2>1, <2>2, TypeParts DEF CleanupVM, TypeOK
<1>3. ASSUME NEW d \in Disk, CleanupZvol(q, d)
      PROVE  TypeOK'
  <2>1. [work[q] EXCEPT !.disks = @ \ {d}] \in Machine
    BY <1>q, MachineWrites
  <2>2. TypedReconcile'
    BY <1>3, <1>p, <1>s, <2>1, ReconcileTyped DEF CleanupZvol
  <2>3. zvol' \subseteq Request \X Disk
    BY <1>3 DEF CleanupZvol, TypeOK
  <2> QED
    BY <1>3, <1>w, <2>2, <2>3, TypeParts DEF CleanupZvol, TypeOK
<1>4. CASE Deprovisioned(q)
  <2>1. TypedReconcile'
    BY <1>4, <1>p, <1>s, ReconcileTyped, Defaults DEF Deprovisioned
  <2>2. request' \in [Request -> {"none", "live", "provisioned", "deleting"}]
    BY <1>4 DEF Deprovisioned, TypeOK
  <2>3. errorCount' \in [Vm -> 0 .. MaxErrorRecoveries]
    BY <1>4, <1>q, CounterWrites DEF Deprovisioned, TypeOK
  <2> QED
    BY <1>4, <1>w, <2>1, <2>2, <2>3, TypeParts DEF Deprovisioned, TypeOK
<1> QED
  BY <1>1, <1>2, <1>3, <1>4 DEF TearDown

(* The shapes in which the sweep is written.                                *)
LEMMA SweepWrites ==
    ASSUME NEW s \in Sweep
    PROVE  /\ \A x \in {"idle", "live", "list", "vms", "names", "zvols"} :
                 [s EXCEPT !.pc = x] \in Sweep
           /\ \A b \in BOOLEAN : [s EXCEPT !.known = b] \in Sweep
           /\ \A Q \in SUBSET Request : [s EXCEPT !.live = Q] \in Sweep
           /\ \A V \in SUBSET Vm : [s EXCEPT !.vms = V] \in Sweep
           /\ \A Z \in SUBSET (Request \X Disk) : [s EXCEPT !.zvols = Z] \in Sweep
           /\ s.vms \in SUBSET Vm
           /\ s.zvols \in SUBSET (Request \X Disk)
  BY DEF Sweep

(* The cleanup goroutine.                                                   *)
LEMMA CleanupTyped ==
    ASSUME TypeOK, Cleanup
    PROVE  TypeOK'
<1>w. steady' \subseteq Request
  BY Watches, WatchTyped DEF Next
<1>s. sweep \in Sweep /\ sweep.vms \in SUBSET Vm
      /\ sweep.zvols \in SUBSET (Request \X Disk)
  BY SweepWrites DEF TypeOK
<1>1. ASSUME UNCHANGED <<request, saved, step, work, errorCount>>,
             vm' \in [Vm -> VirtualMachine], zvol' \subseteq Request \X Disk,
             sweep' \in Sweep
      PROVE  TypeOK'
  BY <1>1, <1>w DEF TypeOK
<1>2. CASE ListManagedZvols
  <2>1. zvol \in SUBSET (Request \X Disk)
    BY DEF TypeOK
  <2>2. [NoSweep EXCEPT !.zvols = zvol] \in Sweep
    BY <2>1, SweepWrites, Defaults
  <2>3. [[NoSweep EXCEPT !.zvols = zvol] EXCEPT !.pc = "live"] \in Sweep
    BY <2>2, SweepWrites
  <2>4. sweep' \in Sweep
    BY <1>2, <2>3 DEF ListManagedZvols, NoSweep
  <2> QED
    BY <1>1, <1>2, <2>4 DEF ListManagedZvols, TypeOK
<1>3. CASE LiveRequestIDs
  <2> DEFINE Q == {q \in Request : request[q] # "none"}
  <2>1. Q \in SUBSET Request
    OBVIOUS
  <2> HIDE DEF Q
  <2>2. [sweep EXCEPT !.pc = "list"] \in Sweep
    BY <1>s, SweepWrites
  <2>3. [[sweep EXCEPT !.pc = "list"] EXCEPT !.known = TRUE] \in Sweep
    BY <2>2, SweepWrites
  <2>4. [[[sweep EXCEPT !.pc = "list"] EXCEPT !.known = TRUE] EXCEPT !.live = Q]
           \in Sweep
    BY <2>1, <2>3, SweepWrites
  <2>5. sweep' \in Sweep
    BY <1>3, <2>2, <2>4 DEF LiveRequestIDs, Q
  <2> QED
    BY <1>1, <1>3, <2>5 DEF LiveRequestIDs, TypeOK
<1>4. CASE ListVMs
  <2> DEFINE V == {v \in Vm : OrphanVM(v)}
  <2>1. V \in SUBSET Vm
    OBVIOUS
  <2>2. sweep' = [[sweep EXCEPT !.pc = "vms"] EXCEPT !.vms = V]
    BY <1>4 DEF ListVMs
  <2> HIDE DEF V
  <2>3. sweep' \in Sweep
    BY <1>s, <2>1, <2>2, SweepWrites
  <2> QED
    BY <1>1, <1>4, <2>3 DEF ListVMs, TypeOK
<1>5. CASE ListVMsFails \/ VMsSwept \/ ZvolsSwept
  <2>1. sweep' \in Sweep
    BY <1>5, <1>s, SweepWrites, Defaults DEF ListVMsFails, VMsSwept, ZvolsSwept
  <2> QED
    BY <1>1, <1>5, <2>1 DEF ListVMsFails, VMsSwept, ZvolsSwept, TypeOK
<1>6. CASE ListVMNames
  <2> DEFINE Z == {z \in sweep.zvols : NotLive(z[1]) \/ Named(z[1]) = {}}
  <2>1. Z \in SUBSET (Request \X Disk)
    BY <1>s
  <2>2. sweep' = [[sweep EXCEPT !.pc = "zvols"] EXCEPT !.zvols = Z]
    BY <1>6 DEF ListVMNames
  <2> HIDE DEF Z
  <2>3. sweep' \in Sweep
    BY <1>s, <2>1, <2>2, SweepWrites
  <2> QED
    BY <1>1, <1>6, <2>3 DEF ListVMNames, TypeOK
<1>7. ASSUME NEW v \in Vm, DeleteOrphanVM(v)
      PROVE  TypeOK'
  <2>1. sweep.vms \ {v} \in SUBSET Vm
    BY <1>s
  <2>2. sweep' \in Sweep
    BY <1>7, <1>s, <2>1, SweepWrites DEF DeleteOrphanVM
  <2>3. vm' \in [Vm -> VirtualMachine]
    <3>1. vm \in [Vm -> VirtualMachine]
      BY DEF TypeOK
    <3>2. vm' \in NotRemoved(v) \cup {Removed(v)}
      BY <1>7 DEF DeleteOrphanVM
    <3> QED
      BY <3>1, <3>2, VmWrites
  <2> QED
    BY <1>1, <1>7, <2>2, <2>3 DEF DeleteOrphanVM, TypeOK
<1>8. ASSUME NEW z \in Request \X Disk, DeleteOrphanZvol(z)
      PROVE  TypeOK'
  <2>1. sweep.zvols \ {z} \in SUBSET (Request \X Disk)
    BY <1>s
  <2>2. sweep' \in Sweep
    BY <1>8, <1>s, <2>1, SweepWrites DEF DeleteOrphanZvol
  <2>3. zvol' \subseteq Request \X Disk
    BY <1>8 DEF DeleteOrphanZvol, TypeOK
  <2> QED
    BY <1>1, <1>8, <2>2, <2>3 DEF DeleteOrphanZvol, TypeOK
<1> QED
  BY <1>2, <1>3, <1>4, <1>5, <1>6, <1>7, <1>8 DEF Cleanup

(* Omni, the hypervisor, the operator and crashes.                          *)
LEMMA EnvironmentTyped ==
    ASSUME TypeOK, Environment
    PROVE  TypeOK'
<1>w. steady' \subseteq Request
  BY Watches, WatchTyped DEF Next
<1>1. CASE Crash
  <2>1. 0 \in 0 .. MaxErrorRecoveries /\ "idle" \in Step
    BY ProvisioningAssumption DEF Step
  <2> QED
    BY <1>1, <1>w, <2>1, Defaults DEF Crash, TypeOK
<1>2. ASSUME NEW q \in Request,
             CreateRequest(q) \/ DeleteRequest(q) \/ DropRequest(q)
      PROVE  TypeOK'
  <2>1. saved' \in [Request -> Machine]
    BY <1>2, Defaults DEF CreateRequest, DeleteRequest, DropRequest, TypeOK
  <2>2. request' \in [Request -> {"none", "live", "provisioned", "deleting"}]
    BY <1>2 DEF CreateRequest, DeleteRequest, DropRequest, TypeOK
  <2> QED
    BY <1>2, <1>w, <2>1, <2>2
    DEF CreateRequest, DeleteRequest, DropRequest, TypeOK
<1>3. ASSUME NEW v \in Vm, VMStops(v) \/ Meddle(v)
      PROVE  TypeOK'
  <2>1. vm' \in [Vm -> VirtualMachine]
    <3>1. vm \in [Vm -> VirtualMachine]
      BY DEF TypeOK
    <3>2. CASE VMStops(v)
      <4>1. \A s \in {"STOPPED", "ERROR"} :
               [vm EXCEPT ![v].state = s] \in [Vm -> VirtualMachine]
        BY <3>1, VmWrites
      <4>2. \E s \in {"STOPPED", "ERROR"} : vm' = [vm EXCEPT ![v].state = s]
        BY <3>2 DEF VMStops
      <4> QED
        BY <4>1, <4>2
    <3>3. CASE Meddle(v)
      <4>1. /\ [vm EXCEPT ![v] = Absent] \in [Vm -> VirtualMachine]
            /\ [vm EXCEPT ![v].marked = ~@] \in [Vm -> VirtualMachine]
        BY <3>1, VmWrites
      <4>2. ASSUME NEW n \in Request \cup {NoRequest}, NEW m \in BOOLEAN,
                   NEW t \in Request \cup {NoRequest},
                   vm' = [vm EXCEPT ![v] = NewVM(n, m, t)]
            PROVE  vm' \in [Vm -> VirtualMachine]
        BY <3>1, <4>2, VmWrites
      <4> QED
        BY <3>3, <4>1, <4>2 DEF Meddle
    <3> QED
      BY <1>3, <3>2, <3>3
  <2> QED
    BY <1>3, <1>w, <2>1 DEF VMStops, Meddle, TypeOK
<1> QED
  BY <1>1, <1>2, <1>3 DEF Environment

LEMMA NextTyped == TypeOK /\ [Next]_vars => TypeOK'
<1> SUFFICES ASSUME TypeOK, [Next]_vars PROVE TypeOK'
  OBVIOUS
<1>1. CASE UNCHANGED vars
  BY <1>1 DEF vars, TypeOK
<1> QED
  BY <1>1, ProvisionTyped, TearDownTyped, CleanupTyped, EnvironmentTyped
  DEF Next

(* TypeOK holds in every state: in particular the count of a VM's errors    *)
(* never passes MaxErrorRecoveries, because the breaker replaces the VM at  *)
(* that moment, whatever crashes or is deleted by other hands.              *)
THEOREM ProvisionTypeCorrect == Spec => []TypeOK
  BY InitTyped, NextTyped, PTL DEF Spec

-----------------------------------------------------------------------------
(* What a step may do to a VM.                                              *)

(* A VM that exists after a step is new, or its name and request id are     *)
(* those it had before.                                                     *)
Kept(v) ==
    Exists(v)' =>
       \/ v \in NewIds
       \/ /\ Exists(v)
          /\ vm'[v].name = vm[v].name
          /\ vm'[v].tag = vm[v].tag

LEMMA WritesKeep ==
    ASSUME vm \in [Vm -> VirtualMachine], NEW u \in Vm, NEW v \in Vm,
           \/ UNCHANGED vm
           \/ vm' \in NotRemoved(u) \cup {Removed(u)}
           \/ Exists(u) /\ vm' = Started(u)
           \/ \E s : Exists(u) /\ vm' = [vm EXCEPT ![u].state = s]
           \/ \E d : Exists(u) /\ vm' = [vm EXCEPT ![u].devices = @ \cup {d}]
           \/ Exists(u) /\ vm' = [vm EXCEPT ![u].marked = ~@]
           \/ vm' = [vm EXCEPT ![u] = Absent]
           \/ \E t : u \in NewIds /\ vm' = [vm EXCEPT ![u] = t]
    PROVE  Kept(v)
<1>1. CASE UNCHANGED vm
  BY <1>1 DEF Kept, Exists
<1>2. ASSUME NEW s, vm' = [vm EXCEPT ![u].state = s],
             Exists(u) \/ s = vm[u].state
      PROVE  Kept(v)
  <2>1. vm'[v].name = vm[v].name /\ vm'[v].tag = vm[v].tag
    BY <1>2 DEF VirtualMachine
  <2>2. Exists(v)' => Exists(v)
    BY <1>2 DEF Exists, VirtualMachine
  <2> QED
    BY <2>1, <2>2 DEF Kept
<1>3. CASE vm' \in NotRemoved(u)
  <2>1. CASE vm[u].state = "RUNNING"
    BY <1>1, <1>2, <1>3, <2>1 DEF NotRemoved, Exists
  <2>2. CASE vm[u].state # "RUNNING"
    BY <1>1, <1>2, <1>3, <2>2 DEF NotRemoved
  <2> QED
    BY <2>1, <2>2
<1>4. CASE vm' = [vm EXCEPT ![u] = Absent]
  BY <1>4 DEF Kept, Exists, Absent
<1>5. CASE Exists(u) /\ vm' = Started(u)
  BY <1>2, <1>5 DEF Started
<1>6. ASSUME NEW d, Exists(u), vm' = [vm EXCEPT ![u].devices = @ \cup {d}]
      PROVE  Kept(v)
  BY <1>6 DEF Kept, Exists, VirtualMachine
<1>8. CASE Exists(u) /\ vm' = [vm EXCEPT ![u].marked = ~@]
  BY <1>8 DEF Kept, Exists, VirtualMachine
<1>7. ASSUME NEW t, u \in NewIds, vm' = [vm EXCEPT ![u] = t]
      PROVE  Kept(v)
  <2>1. CASE v = u
    BY <1>7, <2>1 DEF Kept
  <2>2. CASE v # u
    BY <1>7, <2>2 DEF Kept, Exists
  <2> QED
    BY <2>1, <2>2
<1> QED
  BY <1>1, <1>2, <1>3, <1>4, <1>5, <1>6, <1>7, <1>8 DEF Removed

(* The steps of createVM and of Deprovision that write a VM, and how.       *)
LEMMA ReconcileWrites ==
    ASSUME TypeOK, NEW q \in Request, Provision(q) \/ TearDown(q)
    PROVE  /\ UNCHANGED sweep
           /\ \/ UNCHANGED vm
              \/ \E u \in Vm :
                    \/ /\ u \in NewIds
                       /\ vm' = [vm EXCEPT ![u] = NewVM(q, TRUE, q)]
                    \/ /\ Exists(u)
                       /\ \/ vm[u].marked
                          \/ work[q].vm = u /\ step[q] \in Building
                       /\ \/ vm' \in NotRemoved(u) \cup {Removed(u)}
                          \/ vm' = Started(u)
                          \/ \E d : vm' =
                                [vm EXCEPT ![u].devices = @ \cup {d}]
<1>1. CASE \/ Reconcile(q) \/ StepFails(q) \/ ForgetVM(q) \/ NoVMFound(q)
           \/ EnsureZvol(q) \/ EnsureExtraZvol(q) \/ HealthCheck(q)
           \/ Deprovision(q) \/ Deprovisioned(q)
           \/ \E v \in Vm : RefuseToAdopt(q, v) \/ FoundRunning(q, v)
           \/ \E d \in Disk : CleanupZvol(q, d)
  BY <1>1 DEF Reconcile, StepFails, ForgetVM, NoVMFound, EnsureZvol, CreateZvol,
     EnsureExtraZvol, HealthCheck, Deprovision, Deprovisioned, RefuseToAdopt,
     FoundRunning, CleanupZvol
<1>2. ASSUME NEW v \in Vm, StartFound(q, v) \/ RecoverVM(q, v) \/ ReplaceVM(q, v)
      PROVE  /\ UNCHANGED sweep
             /\ Exists(v) /\ vm[v].marked
             /\ \/ UNCHANGED vm
                \/ vm' \in NotRemoved(v) \cup {Removed(v)}
                \/ vm' = Started(v)
  BY <1>2 DEF StartFound, RecoverVM, ReplaceVM, Found
<1>3. CASE CreateVM(q)
  BY <1>3 DEF CreateVM, NewIds
<1>4. CASE AddCDROM(q) \/ AddDisk(q) \/ AddExtraDisk(q) \/ AddNIC(q)
  BY <1>4 DEF AddCDROM, AddDisk, AddExtraDisk, AddNIC, Attach,
              Exists, Building
<1>5. CASE StartVM(q)
  BY <1>5 DEF StartVM, Exists, Building
<1>6. CASE CleanupVM(q)
  BY <1>6 DEF CleanupVM, Exists
<1> QED
  BY <1>1, <1>2, <1>3, <1>4, <1>5, <1>6 DEF Provision, TearDown

LEMMA StepKeeps ==
    ASSUME TypeOK, [Next]_vars, NEW v \in Vm
    PROVE  Kept(v)
<1>t. vm \in [Vm -> VirtualMachine]
  BY DEF TypeOK
<1>1. CASE UNCHANGED vm
  BY <1>1, <1>t, WritesKeep
<1>2. ASSUME NEW q \in Request, Provision(q) \/ TearDown(q)
      PROVE  Kept(v)
  BY <1>1, <1>2, <1>t, ReconcileWrites, WritesKeep
<1>3. CASE Cleanup
  <2>1. ASSUME NEW u \in Vm, DeleteOrphanVM(u)
        PROVE  Kept(v)
    BY <2>1, <1>t, WritesKeep DEF DeleteOrphanVM
  <2> QED
    BY <1>1, <1>3, <2>1
    DEF Cleanup, ListManagedZvols, LiveRequestIDs, ListVMs, ListVMsFails,
        VMsSwept, ListVMNames, ZvolsSwept, DeleteOrphanZvol
<1>4. CASE Environment
  <2>1. ASSUME NEW u \in Vm, VMStops(u)
        PROVE  Kept(v)
    BY <2>1, <1>t, WritesKeep DEF VMStops, Exists
  <2>2. ASSUME NEW u \in Vm, Meddle(u)
        PROVE  Kept(v)
    BY <2>2, <1>t, WritesKeep DEF Meddle
  <2> QED
    BY <1>1, <1>4, <2>1, <2>2
    DEF Environment, Crash, CreateRequest, DeleteRequest, DropRequest
<1> QED
  BY <1>1, <1>2, <1>3, <1>4 DEF Next, vars

-----------------------------------------------------------------------------
(* Only VMs that are the provider's by their description.                   *)

(* The strengthening of ForeignVMUntouched: the VM that createVM builds on  *)
(* names its request, and the VMs in the sweep's list name one, however     *)
(* much later they are worked on.                                           *)
MarkerInv ==
    /\ \A q \in Request :
          step[q] \in Building /\ Exists(work[q].vm) => vm[work[q].vm].tag = q
    /\ \A v \in sweep.vms : Exists(v) => vm[v].tag # NoRequest

(* The VM a request builds on: the one it built on before, or a new one.    *)
SameBuild(q) ==
    step'[q] \in Building =>
       \/ step[q] \in Building /\ work'[q].vm = work[q].vm
       \/ (Exists(work[q].vm) /\ vm[work[q].vm].tag = q)'

LEMMA ReconcileMoves ==
    ASSUME TypeOK, NEW q \in Request, NEW w, NEW s,
           Goto(q, s, w) \/ Retry(q, w) \/ Fail(q, w) \/ Done(q, s, w)
    PROVE  /\ \A p \in Request \ {q} : step'[p] = step[p] /\ work'[p] = work[p]
           /\ step'[q] = "idle" \/ (step'[q] = s /\ work'[q] = w)
  BY DEF TypeOK, Goto, Retry, Fail, Done, End

LEMMA OthersBuild ==
    ASSUME NEW q \in Request, NEW p \in Request,
           step'[p] = step[p], work'[p] = work[p]
    PROVE  SameBuild(p)
  BY DEF SameBuild

LEMMA StepBuilds ==
    ASSUME TypeOK, [Next]_vars, NEW p \in Request
    PROVE  SameBuild(p)
<1>m. ASSUME NEW q \in Request, NEW w, NEW s, s \notin Building,
             Goto(q, s, w) \/ Retry(q, w) \/ Fail(q, w) \/ Done(q, s, w)
      PROVE  SameBuild(p)
  <2>1. /\ \A o \in Request \ {q} : step'[o] = step[o] /\ work'[o] = work[o]
        /\ step'[q] = "idle" \/ (step'[q] = s /\ work'[q] = w)
    BY <1>m, ReconcileMoves
  <2>2. CASE p = q
    BY <1>m, <2>1, <2>2 DEF SameBuild, Building
  <2>3. CASE p # q
    BY <2>1, <2>3, OthersBuild
  <2> QED
    BY <2>2, <2>3
<1>b. ASSUME NEW q \in Request, NEW w, NEW s, step[q] \in Building,
             w.vm = work[q].vm,
             Goto(q, s, w) \/ Retry(q, w) \/ Fail(q, w) \/ Done(q, s, w)
      PROVE  SameBuild(p)
  <2>1. /\ \A o \in Request \ {q} : step'[o] = step[o] /\ work'[o] = work[o]
        /\ step'[q] = "idle" \/ (step'[q] = s /\ work'[q] = w)
    BY <1>b, ReconcileMoves
  <2>2. CASE p = q
    BY <1>b, <2>1, <2>2 DEF SameBuild, Building
  <2>3. CASE p # q
    BY <2>1, <2>3, OthersBuild
  <2> QED
    BY <2>2, <2>3
<1>o. {"check", "zvol", "vm", "health", "idle", "delete vm", "delete disks"}
         \cap Building = {}
  BY DEF Building
<1>u. UNCHANGED <<step, work>> => SameBuild(p)
  BY OthersBuild
<1>1. ASSUME NEW q \in Request,
             \/ Reconcile(q) \/ StepFails(q) \/ ForgetVM(q) \/ NoVMFound(q)
             \/ EnsureZvol(q) \/ HealthCheck(q) \/ TearDown(q)
             \/ \E v \in Vm :
                   \/ RefuseToAdopt(q, v) \/ FoundRunning(q, v)
                   \/ StartFound(q, v) \/ RecoverVM(q, v) \/ ReplaceVM(q, v)
      PROVE  SameBuild(p)
  BY <1>1, <1>m, <1>o
  DEF Reconcile, StepFails, ForgetVM, NoVMFound, EnsureZvol, CreateZvol, HealthCheck,
      TearDown, Deprovision, CleanupVM, CleanupZvol, Deprovisioned,
      RefuseToAdopt, FoundRunning, StartFound, RecoverVM, ReplaceVM
<1>2. ASSUME NEW q \in Request, CreateVM(q)
      PROVE  SameBuild(p)
  <2>1. PICK v \in Vm :
            /\ vm' = [vm EXCEPT ![v] = NewVM(q, TRUE, q)]
            /\ Done(q, "cdrom", Adopted(q, v))
    BY <1>2 DEF CreateVM, NewIds
  <2>2. Adopted(q, v).vm = v
    BY DEF Adopted, TypeOK, Machine
  <2>3. Exists(v)' /\ vm'[v].tag = q
    <3>1. vm'[v] = NewVM(q, TRUE, q)
      BY <2>1 DEF TypeOK
    <3> QED
      BY <3>1 DEF Exists, NewVM
  <2>4. CASE p = q
    <3>1. \/ step'[q] = "idle"
          \/ step'[q] = "cdrom" /\ work'[q] = Adopted(q, v)
      BY <2>1, ReconcileMoves
    <3> QED
      BY <2>2, <2>3, <2>4, <3>1 DEF SameBuild, Building, Exists
  <2>5. CASE p # q
    BY <2>1, <2>5, ReconcileMoves, OthersBuild
  <2> QED
    BY <2>4, <2>5
<1>3. ASSUME NEW q \in Request,
             \/ AddCDROM(q) \/ AddDisk(q) \/ EnsureExtraZvol(q)
             \/ AddExtraDisk(q) \/ AddNIC(q) \/ StartVM(q)
      PROVE  SameBuild(p)
  <2>1. work[q] \in Machine
    BY DEF TypeOK
  <2>2. /\ [work[q] EXCEPT !.disks = @ \ {"extra"}].vm = work[q].vm
        /\ [work[q] EXCEPT !.disks = @ \cup {"extra"}].vm = work[q].vm
    BY <2>1 DEF Machine
  <2>3. step[q] \in Building
    BY <1>3 DEF AddCDROM, AddDisk, EnsureExtraZvol, CreateZvol, AddExtraDisk, AddNIC,
                StartVM, Attach, Building
  <2> QED
    BY <1>3, <1>b, <2>2, <2>3
    DEF AddCDROM, AddDisk, EnsureExtraZvol, CreateZvol, AddExtraDisk, AddNIC, StartVM, Attach
<1>4. CASE Cleanup
  BY <1>4, <1>u
  DEF Cleanup, ListManagedZvols, LiveRequestIDs, ListVMs, ListVMsFails,
      VMsSwept, ListVMNames, ZvolsSwept, DeleteOrphanVM, DeleteOrphanZvol
<1>5. CASE Crash
  BY <1>5, <1>o DEF Crash, SameBuild
<1>6. CASE Environment /\ ~Crash
  BY <1>6, <1>u
  DEF Environment, CreateRequest, DeleteRequest, DropRequest, VMStops, Meddle
<1>7. CASE UNCHANGED vars
  BY <1>7, <1>u DEF vars
<1> QED
  BY <1>1, <1>2, <1>3, <1>4, <1>5, <1>6, <1>7 DEF Next, Provision

(* What a step leaves of the list of VMs to sweep.                          *)
LEMMA StepSweeps ==
    ASSUME TypeOK, [Next]_vars
    PROVE  \/ UNCHANGED sweep
           \/ Crash
           \/ UNCHANGED step /\ UNCHANGED work /\ Cleanup
<1>1. ASSUME NEW q \in Request, Provision(q) \/ TearDown(q)
      PROVE  UNCHANGED sweep
  BY <1>1, ReconcileWrites
<1>2. CASE Cleanup
  BY <1>2
  DEF Cleanup, ListManagedZvols, LiveRequestIDs, ListVMs, ListVMsFails,
      VMsSwept, ListVMNames, ZvolsSwept, DeleteOrphanVM, DeleteOrphanZvol
<1>3. CASE Environment /\ ~Crash
  BY <1>3
  DEF Environment, CreateRequest, DeleteRequest, DropRequest, VMStops, Meddle
<1> QED
  BY <1>1, <1>2, <1>3 DEF Next, vars

(* The VMs in the list are those it had, or those OrphanVM chose.           *)
LEMMA VMsListed ==
    ASSUME TypeOK, Cleanup, NEW v \in sweep'.vms
    PROVE  \/ v \in sweep.vms
           \/ v \in Vm /\ OrphanVM(v) /\ ListVMs
<1>s. sweep \in Sweep
  BY DEF TypeOK
<1>a. CASE ListManagedZvols
  BY <1>a DEF ListManagedZvols, NoSweep
<1>b. CASE LiveRequestIDs
  <2> DEFINE Q == {q \in Request : request[q] # "none"}
  <2>1. \/ sweep' = [sweep EXCEPT !.pc = "list", !.known = TRUE, !.live = Q]
        \/ sweep' = [sweep EXCEPT !.pc = "list"]
    BY <1>b DEF LiveRequestIDs
  <2> HIDE DEF Q
  <2> QED
    BY <1>s, <2>1 DEF Sweep
<1>c. CASE ListVMNames
  <2> DEFINE Z == {z \in sweep.zvols : NotLive(z[1]) \/ Named(z[1]) = {}}
  <2>1. sweep' = [sweep EXCEPT !.pc = "zvols", !.zvols = Z]
    BY <1>c DEF ListVMNames
  <2> HIDE DEF Z
  <2> QED
    BY <1>s, <2>1 DEF Sweep
<1>1. CASE ListVMsFails \/ VMsSwept \/ ZvolsSwept
  BY <1>1, <1>s DEF ListVMsFails, VMsSwept, ZvolsSwept, NoSweep, Sweep
<1>2. CASE ListVMs
  BY <1>2, <1>s DEF ListVMs, Sweep
<1>3. CASE \/ \E u \in Vm : DeleteOrphanVM(u)
           \/ \E z \in Request \X Disk : DeleteOrphanZvol(z)
  BY <1>3, <1>s DEF DeleteOrphanVM, DeleteOrphanZvol, Sweep
<1> QED
  BY <1>a, <1>b, <1>c, <1>1, <1>2, <1>3 DEF Cleanup

LEMMA MarkerStep ==
    ASSUME TypeOK, MarkerInv, [Next]_vars
    PROVE  MarkerInv'
<1>k. \A v \in Remembered : Exists(v)' =>
         Exists(v) /\ vm'[v].tag = vm[v].tag
  <2> SUFFICES ASSUME NEW v \in Remembered, Exists(v)'
               PROVE  Exists(v) /\ vm'[v].tag = vm[v].tag
    OBVIOUS
  <2>1. v \in Vm
    BY DEF Exists
  <2>2. v \notin NewIds
    BY DEF NewIds
  <2> QED
    BY <2>1, <2>2, StepKeeps DEF Kept
<1>1. ASSUME NEW q \in Request, step'[q] \in Building, Exists(work[q].vm)'
      PROVE  (vm[work[q].vm].tag = q)'
  <2>1. CASE step[q] \in Building /\ work'[q].vm = work[q].vm
    <3>1. work[q].vm \in Remembered
      BY DEF Remembered
    <3>2. Exists(work[q].vm)
      BY <1>k, <1>1, <2>1, <3>1 DEF Exists
    <3>3. vm'[work[q].vm].tag = vm[work[q].vm].tag
      BY <1>k, <1>1, <2>1, <3>1 DEF Exists
    <3> QED
      BY <2>1, <3>2, <3>3 DEF MarkerInv
  <2> QED
    BY <1>1, <2>1, StepBuilds DEF SameBuild
<1>2. ASSUME NEW v \in sweep'.vms, Exists(v)'
      PROVE  vm'[v].tag # NoRequest
  <2>1. CASE v \in sweep.vms
    BY <1>k, <1>2, <2>1 DEF Remembered, MarkerInv
  <2>2. CASE v \in Vm /\ OrphanVM(v) /\ ListVMs
    BY <2>2 DEF OrphanVM, ListVMs
  <2>3. CASE Crash
    BY <1>2, <2>3 DEF Crash, NoSweep
  <2> QED
    BY <1>2, <2>1, <2>2, <2>3, StepSweeps, VMsListed
<1> QED
  BY <1>1, <1>2 DEF MarkerInv

LEMMA MarkerInit == Init => MarkerInv
  BY DEF Init, MarkerInv, Building, NoSweep

(* Who changes a VM without the marker.                                     *)
LEMMA ForeignStep ==
    ASSUME TypeOK, MarkerInv, [Next]_vars, NEW v \in Vm,
           Exists(v), ~vm[v].marked, vm'[v] # vm[v]
    PROVE  \/ UNCHANGED <<step, work, sweep>>
           \/ vm[v].tag # NoRequest /\ UNCHANGED <<step, work>>
           \/ \E q \in Request : /\ step[q] \in Building
                                 /\ work[q].vm = v /\ vm[v].tag = q
<1>t. vm \in [Vm -> VirtualMachine]
  BY DEF TypeOK
<1>o. ASSUME NEW u \in Vm, u # v,
             \/ vm' \in NotRemoved(u) \cup {Removed(u)}
             \/ vm' = Started(u)
             \/ \E d : vm' = [vm EXCEPT ![u].devices = @ \cup {d}]
             \/ \E t : vm' = [vm EXCEPT ![u] = t]
      PROVE  vm'[v] = vm[v]
  BY <1>o, <1>t DEF NotRemoved, Removed, Started
<1>1. ASSUME NEW q \in Request, Provision(q) \/ TearDown(q)
      PROVE  step[q] \in Building /\ work[q].vm = v /\ vm[v].tag = q
  <2>1. PICK u \in Vm :
            \/ /\ u \in NewIds
               /\ vm' = [vm EXCEPT ![u] = NewVM(q, TRUE, q)]
            \/ /\ Exists(u)
               /\ vm[u].marked \/ (work[q].vm = u /\ step[q] \in Building)
               /\ \/ vm' \in NotRemoved(u) \cup {Removed(u)}
                  \/ vm' = Started(u)
                  \/ \E d : vm' = [vm EXCEPT ![u].devices = @ \cup {d}]
    BY <1>1, ReconcileWrites
  <2>2. v \notin NewIds
    BY DEF NewIds
  <2>3. u = v
    BY <1>o, <2>1
  <2>4. work[q].vm = v /\ step[q] \in Building
    BY <2>1, <2>2, <2>3
  <2> QED
    BY <2>4 DEF MarkerInv
<1>2. CASE Cleanup
  <2>1. ASSUME NEW u \in Vm, DeleteOrphanVM(u)
        PROVE  vm[v].tag # NoRequest /\ UNCHANGED <<step, work>>
    <3>1. u = v
      BY <1>o, <2>1 DEF DeleteOrphanVM
    <3> QED
      BY <2>1, <3>1 DEF DeleteOrphanVM, MarkerInv
  <2> QED
    BY <1>2, <2>1
    DEF Cleanup, ListManagedZvols, LiveRequestIDs, ListVMs, ListVMsFails,
        VMsSwept, ListVMNames, ZvolsSwept, DeleteOrphanZvol
<1>3. CASE Environment
  BY <1>3
  DEF Environment, Crash, CreateRequest, DeleteRequest, DropRequest, VMStops,
      Meddle
<1> QED
  BY <1>1, <1>2, <1>3 DEF Next, vars

(* A VM without the management marker is safe from the steps, and one that  *)
(* names no request from the sweep too, for any number of requests and VMs  *)
(* and however an operator creates and describes VMs: createVM builds only  *)
(* on what it created itself, everything else it touches it has just seen   *)
(* the marker of, and the sweep's list holds VMs with a request id only,    *)
(* none of whose ids is given to another VM before the sweep is done.       *)
THEOREM ForeignSafe == Spec => ForeignVMUntouched
<1>1. Init => TypeOK /\ MarkerInv
  BY InitTyped, MarkerInit
<1>2. TypeOK /\ MarkerInv /\ [Next]_vars => (TypeOK /\ MarkerInv)'
  BY NextTyped, MarkerStep
<1>3. TypeOK /\ MarkerInv /\ [Next]_vars =>
        [\A v \in Vm :
           Exists(v) /\ ~vm[v].marked /\ vm'[v] # vm[v] =>
              \/ UNCHANGED <<step, work, sweep>>
              \/ vm[v].tag # NoRequest /\ UNCHANGED <<step, work>>
              \/ \E q \in Request : /\ step[q] \in Building
                                    /\ work[q].vm = v /\ vm[v].tag = q]_vars
  BY ForeignStep
<1> QED
  BY <1>1, <1>2, <1>3, PTL DEF Spec, ForeignVMUntouched

-----------------------------------------------------------------------------
(* The sweep and the machines in service.                                   *)

(* The strengthening of SweepSparesServing: what the lists of a sweep must  *)
(* say of the machines that have been in service since it began.            *)
Served == \A q \in steady : Serving(q)

DiskListed ==
    sweep.pc \in {"live", "list", "vms", "names"} =>
       \A q \in steady : <<q, "root">> \in sweep.zvols

RequestListed ==
    /\ sweep.known => steady \subseteq sweep.live
    /\ sweep.pc \in {"idle", "live"} => ~sweep.known

VMSpared ==
    /\ sweep.pc # "vms" => sweep.vms = {}
    /\ \A q \in steady, v \in sweep.vms : ~IsMachine(v, q)

DiskSpared ==
    sweep.pc = "zvols" =>
       \A q \in steady, d \in Disk : <<q, d>> \notin sweep.zvols

SteadyInv ==
    /\ Served
    /\ DiskListed
    /\ RequestListed
    /\ VMSpared
    /\ DiskSpared

LEMMA SteadyInit == Init => SteadyInv
  BY DEF Init, SteadyInv, Served, DiskListed, RequestListed, VMSpared,
         DiskSpared, NoSweep

(* The history variable: who is steady is in service, and while a sweep     *)
(* runs nobody becomes steady.                                              *)
LEMMA SteadyStep ==
    ASSUME TypeOK, Served, [Next]_vars
    PROVE  /\ Served'
           /\ sweep.pc # "idle" => steady' \subseteq steady
<1>1. CASE Next
  BY <1>1, Watches DEF Watch, Served
<1>2. CASE UNCHANGED vars
  BY <1>2 DEF vars, Served, Serving, IsMachine, Exists
<1> QED
  BY <1>1, <1>2

(* A VM in the list does not become a request's machine.                    *)
LEMMA ListedStays ==
    ASSUME TypeOK, [Next]_vars, NEW q, NEW v \in sweep.vms, ~IsMachine(v, q)
    PROVE  ~IsMachine(v, q)'
<1>1. v \in Vm /\ v \notin NewIds
  BY DEF TypeOK, Sweep, NewIds, Remembered
<1> QED
  BY <1>1, StepKeeps DEF Kept, IsMachine

(* A machine in service is not what OrphanVM looks for.                     *)
LEMMA SteadyNotOrphan ==
    ASSUME SteadyInv, sweep.pc = "list", NEW q \in steady, NEW v,
           IsMachine(v, q)
    PROVE  ~OrphanVM(v)
<1>1. vm[v].tag = q
  BY DEF IsMachine
<1>2. ~NotLive(q)
  BY DEF NotLive, SteadyInv, RequestListed
<1>3. <<q, "root">> \in sweep.zvols /\ <<q, "root">>[1] = q
  BY DEF SteadyInv, DiskListed
<1> QED
  BY <1>1, <1>2, <1>3 DEF OrphanVM

(* The steps of a sweep.                                                    *)
LEMMA CleanupSteady ==
    ASSUME TypeOK, SteadyInv, Cleanup
    PROVE  SteadyInv'
<1>n. [Next]_vars
  BY DEF Next
<1>s. sweep \in Sweep
  BY DEF TypeOK
<1>w. /\ Served'
      /\ sweep.pc # "idle" => steady' \subseteq steady
  BY <1>n, SteadyStep DEF SteadyInv
<1>v. \A q \in steady, v \in sweep.vms : ~IsMachine(v, q)'
  BY <1>n, ListedStays DEF SteadyInv, VMSpared
<1>1. CASE ListManagedZvols
  <2>1. sweep' = [pc |-> "live", zvols |-> zvol, vms |-> {}, known |-> FALSE,
                  live |-> {}]
    BY <1>1 DEF ListManagedZvols, NoSweep
  <2>2. zvol' = zvol
    BY <1>1 DEF ListManagedZvols
  <2>3. DiskListed'
    BY <1>w, <2>1, <2>2 DEF DiskListed, Served, Serving
  <2> QED
    BY <1>w, <2>1, <2>3 DEF SteadyInv, RequestListed, VMSpared, DiskSpared
<1>2. CASE LiveRequestIDs
  <2> DEFINE Q == {q \in Request : request[q] # "none"}
  <2>1. \/ sweep' = [sweep EXCEPT !.pc = "list", !.known = TRUE, !.live = Q]
        \/ sweep' = [sweep EXCEPT !.pc = "list"]
    BY <1>2 DEF LiveRequestIDs
  <2>2. \A q \in steady : q \in Q
    BY DEF SteadyInv, Served, Serving, TypeOK
  <2> HIDE DEF Q
  <2>3. /\ sweep.pc = "live" /\ sweep.vms = {}
        /\ \A q \in steady : <<q, "root">> \in sweep.zvols
    BY <1>2 DEF LiveRequestIDs, SteadyInv, VMSpared, DiskListed
  <2>4. /\ sweep'.pc = "list"
        /\ sweep'.vms = {}
        /\ sweep'.zvols = sweep.zvols
        /\ sweep'.known => sweep'.live = Q
    BY <1>s, <2>1, <2>3 DEF Sweep, SteadyInv, RequestListed
  <2> QED
    BY <1>w, <2>2, <2>3, <2>4
    DEF SteadyInv, DiskListed, RequestListed, VMSpared, DiskSpared
<1>3. CASE ListVMs
  <2> DEFINE V == {v \in Vm : OrphanVM(v)}
  <2>1. sweep' = [sweep EXCEPT !.pc = "vms", !.vms = V]
    BY <1>3 DEF ListVMs
  <2>2. /\ sweep.pc = "list"
        /\ UNCHANGED vm
    BY <1>3 DEF ListVMs
  <2>3. \A q \in steady, v \in V : ~IsMachine(v, q)
    BY <2>2, SteadyNotOrphan
  <2> HIDE DEF V
  <2>4. \A q \in steady, v \in V : ~IsMachine(v, q)'
    BY <2>2, <2>3 DEF IsMachine, Exists
  <2>5. /\ sweep'.pc = "vms"
        /\ sweep'.vms = V
        /\ sweep'.zvols = sweep.zvols
        /\ sweep'.known = sweep.known
        /\ sweep'.live = sweep.live
    BY <1>s, <2>1 DEF Sweep
  <2> QED
    BY <1>w, <2>2, <2>4, <2>5
    DEF SteadyInv, DiskListed, RequestListed, VMSpared, DiskSpared
<1>4. CASE /\ sweep.pc \in {"list", "vms"} /\ sweep.vms = {}
           /\ sweep' = [sweep EXCEPT !.pc = "names"]
  <2>1. /\ sweep'.pc = "names"
        /\ sweep'.vms = {}
        /\ sweep'.zvols = sweep.zvols
        /\ sweep'.known = sweep.known
        /\ sweep'.live = sweep.live
    BY <1>4, <1>s DEF Sweep
  <2> QED
    BY <1>4, <1>w, <2>1
    DEF SteadyInv, DiskListed, RequestListed, VMSpared, DiskSpared
<1>5. CASE sweep' = NoSweep
  BY <1>5, <1>w
  DEF SteadyInv, DiskListed, RequestListed, VMSpared, DiskSpared, NoSweep
<1>6. CASE ListVMNames
  <2> DEFINE Z == {z \in sweep.zvols : NotLive(z[1]) \/ Named(z[1]) = {}}
  <2>1. sweep' = [sweep EXCEPT !.pc = "zvols", !.zvols = Z]
    BY <1>6 DEF ListVMNames
  <2>2. ASSUME NEW q \in steady, NEW d \in Disk
        PROVE  <<q, d>> \notin Z
    <3>1. ~NotLive(q)
      BY DEF NotLive, SteadyInv, RequestListed
    <3>2. Named(q) # {}
      BY DEF SteadyInv, Served, Serving, IsMachine, Named
    <3> QED
      BY <3>1, <3>2
  <2> HIDE DEF Z
  <2>3. sweep.pc = "names" /\ sweep.vms = {}
    BY <1>6 DEF ListVMNames, SteadyInv, VMSpared
  <2>4. /\ sweep'.pc = "zvols"
        /\ sweep'.vms = {}
        /\ sweep'.zvols = Z
        /\ sweep'.known = sweep.known
        /\ sweep'.live = sweep.live
    BY <1>s, <2>1, <2>3 DEF Sweep
  <2> QED
    BY <1>w, <2>2, <2>3, <2>4
    DEF SteadyInv, DiskListed, RequestListed, VMSpared, DiskSpared
<1>7. ASSUME NEW u \in Vm, DeleteOrphanVM(u)
      PROVE  SteadyInv'
  <2>1. /\ sweep.pc = "vms"
        /\ sweep'.pc = "vms"
        /\ sweep'.vms = sweep.vms \ {u}
        /\ sweep'.zvols = sweep.zvols
        /\ sweep'.known = sweep.known
        /\ sweep'.live = sweep.live
    BY <1>7, <1>s DEF DeleteOrphanVM, Sweep
  <2> QED
    BY <1>v, <1>w, <2>1
    DEF SteadyInv, DiskListed, RequestListed, VMSpared, DiskSpared
<1>8. ASSUME NEW z \in Request \X Disk, DeleteOrphanZvol(z)
      PROVE  SteadyInv'
  <2>1. /\ sweep.pc = "zvols" /\ sweep.vms = {}
        /\ sweep'.pc = "zvols"
        /\ sweep'.vms = sweep.vms
        /\ sweep'.zvols \subseteq sweep.zvols
        /\ sweep'.known = sweep.known
        /\ sweep'.live = sweep.live
    BY <1>8, <1>s DEF DeleteOrphanZvol, Sweep, SteadyInv, VMSpared
  <2> QED
    BY <1>w, <2>1
    DEF SteadyInv, DiskListed, RequestListed, VMSpared, DiskSpared
<1> QED
  BY <1>1, <1>2, <1>3, <1>4, <1>5, <1>6, <1>7, <1>8
  DEF Cleanup, ListVMsFails, VMsSwept, ZvolsSwept, SteadyInv, VMSpared

LEMMA SteadyInvStep ==
    ASSUME TypeOK, SteadyInv, [Next]_vars
    PROVE  SteadyInv'
<1>w. /\ Served'
      /\ sweep.pc # "idle" => steady' \subseteq steady
  BY SteadyStep DEF SteadyInv
<1>1. CASE UNCHANGED sweep
  <2>1. CASE sweep.pc = "idle"
    BY <1>1, <1>w, <2>1
    DEF SteadyInv, DiskListed, RequestListed, VMSpared, DiskSpared
  <2>2. CASE sweep.pc # "idle"
    <3>1. \A q \in steady, v \in sweep.vms : ~IsMachine(v, q)'
      BY ListedStays DEF SteadyInv, VMSpared
    <3> QED
      BY <1>1, <1>w, <2>2, <3>1
      DEF SteadyInv, DiskListed, RequestListed, VMSpared, DiskSpared
  <2> QED
    BY <2>1, <2>2
<1>2. CASE Crash
  BY <1>2, <1>w DEF Crash, SteadyInv, DiskListed, RequestListed, VMSpared,
                    DiskSpared, NoSweep
<1> QED
  BY <1>1, <1>2, CleanupSteady, StepSweeps

(* A step of the sweep leaves the machines in service alone.                *)
LEMMA SpareStep ==
    ASSUME TypeOK, SteadyInv, [Next]_vars, sweep' # sweep, NEW q \in steady
    PROVE  /\ \A v \in Vm : IsMachine(v, q) => IsMachine(v, q)'
           /\ \A d \in Disk : <<q, d>> \in zvol => <<q, d>> \in zvol'
<1>1. CASE UNCHANGED <<vm, zvol>>
  BY <1>1 DEF IsMachine, Exists
<1>2. ASSUME NEW u \in Vm, DeleteOrphanVM(u)
      PROVE  /\ UNCHANGED zvol
             /\ \A v \in Vm : IsMachine(v, q) => IsMachine(v, q)'
  <2>1. ~IsMachine(u, q) /\ UNCHANGED zvol
    BY <1>2 DEF DeleteOrphanVM, SteadyInv, VMSpared
  <2>2. \A v \in Vm \ {u} : vm'[v] = vm[v]
    BY <1>2 DEF DeleteOrphanVM, NotRemoved, Removed, TypeOK
  <2> QED
    BY <2>1, <2>2 DEF IsMachine, Exists
<1>3. ASSUME NEW z \in Request \X Disk, DeleteOrphanZvol(z)
      PROVE  /\ UNCHANGED vm
             /\ \A d \in Disk : <<q, d>> \in zvol => <<q, d>> \in zvol'
  BY <1>3 DEF DeleteOrphanZvol, SteadyInv, DiskSpared
<1>4. Cleanup \/ Crash
  BY StepSweeps
<1> QED
  BY <1>1, <1>2, <1>3, <1>4
  DEF Cleanup, Crash, ListManagedZvols, LiveRequestIDs, ListVMs, ListVMsFails,
      VMsSwept, ListVMNames, ZvolsSwept, IsMachine, Exists

(* A sweep never takes a VM or a disk from a machine that has been in       *)
(* service since it began, for any number of requests and VMs, whatever is  *)
(* created, deleted, adopted or lost while it works on its lists.           *)
THEOREM SweepSafe == Spec => SweepSparesServing
<1>1. Init => TypeOK /\ SteadyInv
  BY InitTyped, SteadyInit
<1>2. TypeOK /\ SteadyInv /\ [Next]_vars => (TypeOK /\ SteadyInv)'
  BY NextTyped, SteadyInvStep
<1>3. TypeOK /\ SteadyInv /\ [Next]_vars =>
        [sweep' # sweep =>
           \A q \in steady :
              /\ \A v \in Vm : IsMachine(v, q) => IsMachine(v, q)'
              /\ \A d \in Disk : <<q, d>> \in zvol => <<q, d>> \in zvol']_vars
  BY SpareStep
<1> QED
  BY <1>1, <1>2, <1>3, PTL DEF Spec, SweepSparesServing
=============================================================================
