---------------------------- MODULE Provisioning ----------------------------
(***************************************************************************)
(* What the provider does on TrueNAS for its MachineRequests: the step     *)
(* createVM and the step healthCheck of internal/provisioner, Deprovision, *)
(* and the sweep of internal/cleanup, which runs beside them in a          *)
(* goroutine of its own and decides from lists read one after the other.   *)
(*                                                                         *)
(* One action is one call of the TrueNAS API together with the code that   *)
(* leads up to it.  A call may fail before it has an effect, or after it   *)
(* (the transport lost the reply).  The Omni SDK reconciles one request at *)
(* a time: it runs the steps again until they succeed, and stores the      *)
(* machine's state when a step asks for a retry or is done; whether it     *)
(* stores it when a step fails is left open.                               *)
(*                                                                         *)
(* Validation, free space, memory and ISO checks can only make a step fail *)
(* early; sizes, names, MACs and config patches are left out.              *)
(***************************************************************************)
EXTENDS Integers

CONSTANTS
    Request,             \* MachineRequest ids
    Vm,                  \* VM ids of TrueNAS
    NoVm,                \* the zero VmId
    NoRequest,           \* no name
    ExtraDisk,           \* whether the class has an additional disk
    MaxErrorRecoveries,  \* ProviderConfig.MaxErrorRecoveries; 0 stands for the
                         \* negative values, which disable the breaker
    MayCrash,            \* whether the provider process crashes
    MayMeddle            \* whether an operator creates, describes and deletes
                         \* VMs by hand

ASSUME ProvisioningAssumption ==
    /\ NoVm \notin Vm
    /\ NoRequest \notin Request
    /\ ExtraDisk \in BOOLEAN
    /\ MaxErrorRecoveries \in Nat
    /\ {MayCrash, MayMeddle} \subseteq BOOLEAN

VARIABLES
    request,     \* the MachineRequests in Omni
    saved,       \* the machine state Omni keeps for each
    vm,          \* the VMs on TrueNAS
    zvol,        \* the managed zvols on TrueNAS, by request and disk
    step,        \* where the reconcile of each request is
    work,        \* the machine state it works on
    errorCount,  \* Provisioner.errorCounts
    sweep,       \* the cleanup goroutine: what it has listed
    steady       \* history: the requests that have had a VM and a root disk
                 \* ever since the sweep began

vars == <<request, saved, vm, zvol, step, work, errorCount, sweep, steady>>

Disk == IF ExtraDisk THEN {"root", "extra"} ELSE {"root"}
Device == Disk \cup {"cdrom", "nic"}

(* The steps of createVM that work on the VM it has just created.           *)
Building == {"cdrom", "disk", "extra zvol", "extra disk", "nic", "start"}
Step == {"idle", "check", "zvol", "vm", "cdrom", "disk", "nic", "start",
         "health", "delete vm", "delete disks"}
        \cup {s \in {"extra zvol", "extra disk"} : ExtraDisk}
Machine == [vm : Vm \cup {NoVm}, disks : SUBSET Disk]
Sweep == [pc : {"idle", "live", "list", "vms", "names", "zvols"},
          zvols : SUBSET (Request \X Disk), vms : SUBSET Vm,
          known : BOOLEAN, live : SUBSET Request]
VirtualMachine ==
    [state : {"ABSENT", "STOPPED", "RUNNING", "ERROR"},
     name : Request \cup {NoRequest},  \* the request whose VM name it has
     marked : BOOLEAN,                 \* the description begins with the marker
     tag : Request \cup {NoRequest},   \* the request id the sweep reads off it
     devices : SUBSET Device]

NoMachine == [vm |-> NoVm, disks |-> {}]
NoSweep == [pc |-> "idle", zvols |-> {}, vms |-> {}, known |-> FALSE,
            live |-> {}]
Absent == [state |-> "ABSENT", name |-> NoRequest, marked |-> FALSE,
           tag |-> NoRequest, devices |-> {}]

TypeOK ==
    /\ request \in [Request -> {"none", "live", "provisioned", "deleting"}]
    /\ saved \in [Request -> Machine]
    /\ vm \in [Vm -> VirtualMachine]
    /\ zvol \subseteq Request \X Disk
    /\ step \in [Request -> Step]
    /\ work \in [Request -> Machine]
    /\ errorCount \in [Vm -> 0 .. MaxErrorRecoveries]
    /\ sweep \in Sweep
    /\ steady \subseteq Request

Init ==
    /\ request = [q \in Request |-> "none"]
    /\ saved = [q \in Request |-> NoMachine]
    /\ vm = [v \in Vm |-> Absent]
    /\ zvol = {}
    /\ step = [q \in Request |-> "idle"]
    /\ work = [q \in Request |-> NoMachine]
    /\ errorCount = [v \in Vm |-> 0]
    /\ sweep = NoSweep
    /\ steady = {}

-----------------------------------------------------------------------------
(* TrueNAS.                                                                 *)

Exists(v) == v \in Vm /\ vm[v].state # "ABSENT"
Named(q) == {v \in Vm : Exists(v) /\ vm[v].name = q}

(* TrueNAS numbers its VMs and never gives a number out again.  An id that  *)
(* nobody remembers is as good as a new one.                                *)
Remembered ==
    {saved[q].vm : q \in Request} \cup {work[q].vm : q \in Request}
    \cup sweep.vms
NewIds == {v \in Vm : ~Exists(v)} \ Remembered

NewVM(n, m, t) ==
    [state |-> "STOPPED", name |-> n, marked |-> m, tag |-> t, devices |-> {}]

(* A VM starts when the disks attached to it exist.                         *)
CanStart(v) ==
    /\ vm[v].state \in {"STOPPED", "ERROR"}
    /\ \A d \in Disk \cap vm[v].devices : <<vm[v].name, d>> \in zvol
Started(v) == [vm EXCEPT ![v].state = "RUNNING"]

(* StopVM and DeleteVM, each of which may fail.                             *)
Removed(v) == [vm EXCEPT ![v] = Absent]
NotRemoved(v) ==
    {vm, [vm EXCEPT ![v].state = IF @ = "RUNNING" THEN "STOPPED" ELSE @]}

(* A zvol that a running VM has open cannot be deleted.                     *)
Busy(z) ==
    \E v \in Named(z[1]) : vm[v].state = "RUNNING" /\ z[2] \in vm[v].devices

(* A machine in service: Omni has its request, and TrueNAS its VM, with the *)
(* name and the request id createVM gave it, and its disk.                  *)
IsMachine(v, q) == Exists(v) /\ vm[v].name = q /\ vm[v].tag = q
Serving(q) ==
    /\ request[q] # "none"
    /\ \E v \in Vm : IsMachine(v, q)
    /\ <<q, "root">> \in zvol

(* Every action ends with Watch, which keeps the history variable.          *)
Watch ==
    steady' = {q \in IF sweep.pc = "idle" THEN Request ELSE steady : Serving(q)'}

-----------------------------------------------------------------------------
(* How a reconcile goes on and how it ends.                                 *)

Goto(q, s, w) ==
    /\ step' = [step EXCEPT ![q] = s]
    /\ work' = [work EXCEPT ![q] = w]
    /\ UNCHANGED saved

End(q) ==
    /\ step' = [step EXCEPT ![q] = "idle"]
    /\ work' = [work EXCEPT ![q] = NoMachine]

(* The step returns a RetryInterval or nil: the state is stored.            *)
Retry(q, w) == End(q) /\ saved' = [saved EXCEPT ![q] = w]

(* The step returns an error.                                               *)
Fail(q, w) ==
    /\ End(q)
    /\ \/ saved' = [saved EXCEPT ![q] = w]
       \/ UNCHANGED saved

(* A call had its effect; its reply arrives, or it is lost.                 *)
Done(q, s, w) == Goto(q, s, w) \/ Fail(q, work[q])

Reconcile(q) ==
    /\ request[q] \in {"live", "provisioned"} /\ step[q] = "idle"
    /\ Goto(q, "check", saved[q])
    /\ UNCHANGED <<request, vm, zvol, errorCount, sweep>>
    /\ Watch

(* Any call of any step fails without an effect.                            *)
StepFails(q) ==
    /\ step[q] # "idle"
    /\ Fail(q, work[q])
    /\ UNCHANGED <<request, vm, zvol, errorCount, sweep>>
    /\ Watch

-----------------------------------------------------------------------------
(* createVM, first part: checkExistingVM and handleExistingVM.              *)

(* The VM of the stored id is gone: forget it, and look it up by name.      *)
ForgetVM(q) ==
    /\ step[q] = "check"
    /\ work[q].vm # NoVm /\ ~Exists(work[q].vm)
    /\ Goto(q, "check", [work[q] EXCEPT !.vm = NoVm])
    /\ UNCHANGED <<request, vm, zvol, errorCount, sweep>>
    /\ Watch

(* No VM of that name either: go on to create one.                          *)
NoVMFound(q) ==
    /\ step[q] = "check" /\ work[q].vm = NoVm /\ Named(q) = {}
    /\ Goto(q, "zvol", work[q])
    /\ UNCHANGED <<request, vm, zvol, errorCount, sweep>>
    /\ Watch

(* The VM found by its id, or else by its name.                             *)
Found(q, v) ==
    /\ step[q] = "check" /\ Exists(v)
    /\ IF work[q].vm = NoVm THEN vm[v].name = q ELSE work[q].vm = v

Adopted(q, v) == [work[q] EXCEPT !.vm = v]

RefuseToAdopt(q, v) ==
    /\ Found(q, v) /\ ~vm[v].marked
    /\ Fail(q, Adopted(q, v))
    /\ UNCHANGED <<request, vm, zvol, errorCount, sweep>>
    /\ Watch

FoundRunning(q, v) ==
    /\ Found(q, v) /\ vm[v].marked /\ vm[v].state = "RUNNING"
    /\ errorCount' = [errorCount EXCEPT ![v] = 0]
    /\ Goto(q, "health", Adopted(q, v))
    /\ UNCHANGED <<request, vm, zvol, sweep>>
    /\ Watch

(* A VM that is not running is started as it is.  (ENOMEM is a failure like *)
(* any other: the count of attempts changes the words of the error only.)   *)
StartFound(q, v) ==
    /\ Found(q, v) /\ vm[v].marked /\ vm[v].state = "STOPPED"
    /\ CanStart(v)
    /\ vm' = Started(v)
    /\ Retry(q, Adopted(q, v)) \/ Fail(q, Adopted(q, v))
    /\ UNCHANGED <<request, zvol, errorCount, sweep>>
    /\ Watch

(* Fault: the breaker opens one error too late.                             *)
ExhaustedLate(v) ==
    MaxErrorRecoveries > 0 /\ errorCount[v] > MaxErrorRecoveries

(* recordVMError has brought the count beyond MaxErrorRecoveries.           *)
Exhausted(v) ==
    MaxErrorRecoveries > 0 /\ errorCount[v] + 1 > MaxErrorRecoveries

(* resetNVRAMIfNeeded: the NVRAM is reset and the VM started again, unless  *)
(* one of the two fails.                                                    *)
RecoverVM(q, v) ==
    /\ Found(q, v) /\ vm[v].marked /\ vm[v].state = "ERROR"
    /\ ~Exhausted(v)
    /\ errorCount' = IF MaxErrorRecoveries > 0
                     THEN [errorCount EXCEPT ![v] = @ + 1] ELSE errorCount
    /\ \/ CanStart(v) /\ vm' = Started(v)
       \/ UNCHANGED vm
    /\ Retry(q, Adopted(q, v))
    /\ UNCHANGED <<request, zvol, sweep>>
    /\ Watch

(* The circuit breaker: cleanupVM, whose failure is ignored, and a retry    *)
(* that will create the VM anew on the old disk.                            *)
ReplaceVM(q, v) ==
    /\ Found(q, v) /\ vm[v].marked /\ vm[v].state = "ERROR"
    /\ Exhausted(v)
    /\ errorCount' = [errorCount EXCEPT ![v] = 0]
    /\ vm' \in NotRemoved(v) \cup {Removed(v)}
    /\ Retry(q, Adopted(q, v))
    /\ UNCHANGED <<request, zvol, sweep>>
    /\ Watch

-----------------------------------------------------------------------------
(* createVM, second part: create everything from scratch.                   *)

(* A new zvol is tagged with its request, and passphrase, from the start.   *)
CreateZvol(q, d) == zvol' = zvol \cup {<<q, d>>}

(* ensureZvol: a zvol that exists already is kept (unlocked, and grown).    *)
EnsureZvol(q) ==
    /\ step[q] = "zvol"
    /\ CreateZvol(q, "root")
    /\ Done(q, "vm", [work[q] EXCEPT !.disks = @ \cup {"root"}])
    /\ UNCHANGED <<request, vm, errorCount, sweep>>
    /\ Watch

(* The counter is that of a new id, which nothing has counted for yet.      *)
CreateVM(q) ==
    /\ step[q] = "vm" /\ Named(q) = {}
    /\ \E v \in NewIds :
          /\ vm' = [vm EXCEPT ![v] = NewVM(q, TRUE, q)]
          /\ errorCount' = [errorCount EXCEPT ![v] = 0]
          /\ Done(q, "cdrom", Adopted(q, v))
    /\ UNCHANGED <<request, zvol, sweep>>
    /\ Watch

(* One of the calls that add a device to the new VM.                        *)
Attach(q, from, device, to, w) ==
    /\ step[q] = from /\ Exists(work[q].vm)
    /\ device \in Disk => <<q, device>> \in zvol
    /\ vm' = [vm EXCEPT ![work[q].vm].devices = @ \cup {device}]
    /\ Done(q, to, w)
    /\ UNCHANGED <<request, zvol, errorCount, sweep>>
    /\ Watch

AddCDROM(q) == Attach(q, "cdrom", "cdrom", "disk", work[q])

(* The list of additional disks is reset once the root disk is attached.    *)
AddDisk(q) ==
    Attach(q, "disk", "root", IF ExtraDisk THEN "extra zvol" ELSE "nic",
           [work[q] EXCEPT !.disks = @ \ {"extra"}])

EnsureExtraZvol(q) ==
    /\ step[q] = "extra zvol"
    /\ CreateZvol(q, "extra")
    /\ Done(q, "extra disk", work[q])
    /\ UNCHANGED <<request, vm, errorCount, sweep>>
    /\ Watch

(* An additional disk is recorded when it has been attached, not before.    *)
AddExtraDisk(q) ==
    Attach(q, "extra disk", "extra", "nic",
           [work[q] EXCEPT !.disks = @ \cup {"extra"}])

AddNIC(q) == Attach(q, "nic", "nic", "start", work[q])

StartVM(q) ==
    /\ step[q] = "start" /\ Exists(work[q].vm) /\ CanStart(work[q].vm)
    /\ vm' = Started(work[q].vm)
    /\ Retry(q, work[q]) \/ Fail(q, work[q])
    /\ UNCHANGED <<request, zvol, errorCount, sweep>>
    /\ Watch

(* healthCheck: a VM that is there is all it asks for; one that is gone is  *)
(* forgotten, its disk is not.                                              *)
HealthCheck(q) ==
    /\ step[q] = "health"
    /\ IF Exists(work[q].vm)
       THEN /\ request' = [request EXCEPT ![q] =
                             IF @ = "live" THEN "provisioned" ELSE @]
            /\ Retry(q, work[q])
       ELSE /\ Retry(q, [work[q] EXCEPT !.vm = NoVm])
            /\ UNCHANGED request
    /\ UNCHANGED <<vm, zvol, errorCount, sweep>>
    /\ Watch

-----------------------------------------------------------------------------
(* Deprovision.                                                             *)

Deprovision(q) ==
    /\ request[q] = "deleting" /\ step[q] = "idle"
    /\ Goto(q, "delete vm", saved[q])
    /\ UNCHANGED <<request, vm, zvol, errorCount, sweep>>
    /\ Watch

(* cleanupVM: stop and delete the VM, if there is one and it is ours.       *)
CleanupVM(q) ==
    /\ step[q] = "delete vm"
    /\ \/ /\ ~Exists(work[q].vm)
          /\ Goto(q, "delete disks", work[q])
          /\ UNCHANGED vm
       \/ /\ Exists(work[q].vm)
          /\ vm[work[q].vm].marked
          /\ \/ vm' = Removed(work[q].vm) /\ Done(q, "delete disks", work[q])
             \/ vm' \in NotRemoved(work[q].vm) /\ Fail(q, work[q])
    /\ UNCHANGED <<request, zvol, errorCount, sweep>>
    /\ Watch

(* cleanupZvol, the root disk last.  A disk that is deleted is struck from  *)
(* the state; the code keeps its path, and finds it gone the next time.     *)
CleanupZvol(q, d) ==
    /\ step[q] = "delete disks" /\ d \in work[q].disks
    /\ d = "root" => work[q].disks = {"root"}
    /\ ~Busy(<<q, d>>)
    /\ zvol' = zvol \ {<<q, d>>}
    /\ Done(q, "delete disks", [work[q] EXCEPT !.disks = @ \ {d}])
    /\ UNCHANGED <<request, vm, errorCount, sweep>>
    /\ Watch

(* The SDK removes its state and Omni the request.                          *)
Deprovisioned(q) ==
    /\ step[q] = "delete disks" /\ work[q].disks = {}
    /\ errorCount' = IF work[q].vm = NoVm THEN errorCount
                     ELSE [errorCount EXCEPT ![work[q].vm] = 0]
    /\ request' = [request EXCEPT ![q] = "none"]
    /\ Retry(q, NoMachine)
    /\ UNCHANGED <<vm, zvol, sweep>>
    /\ Watch

-----------------------------------------------------------------------------
(* The sweep: Cleaner.runOnce.                                              *)

(* ListManagedZvols; when it fails nothing is swept.                        *)
ListManagedZvols ==
    /\ sweep.pc = "idle"
    /\ sweep' = [NoSweep EXCEPT !.pc = "live", !.zvols = zvol]
    /\ UNCHANGED <<request, saved, vm, zvol, step, work, errorCount>>
    /\ Watch

(* Fault: a failed read of Omni passes for an empty list.                   *)
LiveRequestIDsOrNone ==
    /\ sweep.pc = "live"
    /\ \/ sweep' = [sweep EXCEPT !.pc = "list", !.known = TRUE,
                                 !.live = {q \in Request : request[q] # "none"}]
       \/ sweep' = [sweep EXCEPT !.pc = "list", !.known = TRUE]
    /\ UNCHANGED <<request, saved, vm, zvol, step, work, errorCount>>
    /\ Watch

LiveRequestIDs ==
    /\ sweep.pc = "live"
    /\ \/ sweep' = [sweep EXCEPT !.pc = "list", !.known = TRUE,
                                 !.live = {q \in Request : request[q] # "none"}]
       \/ sweep' = [sweep EXCEPT !.pc = "list"]
    /\ UNCHANGED <<request, saved, vm, zvol, step, work, errorCount>>
    /\ Watch

NotLive(q) == sweep.known /\ q \notin sweep.live

(* Fault: VMs are swept for want of their disk only.                        *)
OrphanVMNoCrossReference(v) ==
    /\ Exists(v) /\ vm[v].tag # NoRequest
    /\ \A z \in sweep.zvols : z[1] # vm[v].tag

(* Fault: the request is taken from the VM's name, as it was before v0.15.3. *)
OrphanVMByName(v) ==
    /\ Exists(v) /\ vm[v].name # NoRequest
    /\ \/ NotLive(vm[v].name)
       \/ \A z \in sweep.zvols : z[1] # vm[v].name

(* maybeDeleteOrphanVM: no request, or no disk in the list.  The request    *)
(* is the one the description names anywhere in it, and the marker is not   *)
(* looked at.                                                               *)
OrphanVM(v) ==
    /\ Exists(v) /\ vm[v].tag # NoRequest
    /\ \/ NotLive(vm[v].tag)
       \/ \A z \in sweep.zvols : z[1] # vm[v].tag

(* cleanupOrphanVMs lists the VMs; what it will do to each follows from the *)
(* lists.  When it cannot list them it does nothing.                        *)
ListVMs ==
    /\ sweep.pc = "list"
    /\ sweep' = [sweep EXCEPT !.pc = "vms",
                              !.vms = {v \in Vm : OrphanVM(v)}]
    /\ UNCHANGED <<request, saved, vm, zvol, step, work, errorCount>>
    /\ Watch

ListVMsFails ==
    /\ sweep.pc \in {"list", "names"}
    /\ sweep' = IF sweep.pc = "list" THEN [sweep EXCEPT !.pc = "names"]
                ELSE NoSweep
    /\ UNCHANGED <<request, saved, vm, zvol, step, work, errorCount>>
    /\ Watch

(* The VM is stopped and deleted, or the calls fail and it stays.           *)
DeleteOrphanVM(v) ==
    /\ sweep.pc = "vms" /\ v \in sweep.vms
    /\ vm' \in NotRemoved(v) \cup {Removed(v)}
    /\ sweep' = [sweep EXCEPT !.vms = @ \ {v}]
    /\ UNCHANGED <<request, saved, zvol, step, work, errorCount>>
    /\ Watch

VMsSwept ==
    /\ sweep.pc = "vms" /\ sweep.vms = {}
    /\ sweep' = [sweep EXCEPT !.pc = "names"]
    /\ UNCHANGED <<request, saved, vm, zvol, step, work, errorCount>>
    /\ Watch

(* cleanupOrphanZvols lists the VMs again: a zvol is an orphan when its     *)
(* request is gone or no VM has the name that belongs to it.                *)
ListVMNames ==
    /\ sweep.pc = "names"
    /\ sweep' = [sweep EXCEPT !.pc = "zvols",
                   !.zvols = {z \in @ : NotLive(z[1]) \/ Named(z[1]) = {}}]
    /\ UNCHANGED <<request, saved, vm, zvol, step, work, errorCount>>
    /\ Watch

DeleteOrphanZvol(z) ==
    /\ sweep.pc = "zvols" /\ z \in sweep.zvols
    /\ \/ zvol' = zvol \ {z} /\ ~Busy(z)
       \/ UNCHANGED zvol
    /\ sweep' = [sweep EXCEPT !.zvols = @ \ {z}]
    /\ UNCHANGED <<request, saved, vm, step, work, errorCount>>
    /\ Watch

ZvolsSwept ==
    /\ sweep.pc = "zvols" /\ sweep.zvols = {}
    /\ sweep' = NoSweep
    /\ UNCHANGED <<request, saved, vm, zvol, step, work, errorCount>>
    /\ Watch

-----------------------------------------------------------------------------
(* The environment.                                                         *)

(* The provider dies and is restarted: what it had in memory is gone.       *)
Crash ==
    /\ MayCrash
    /\ step' = [q \in Request |-> "idle"]
    /\ work' = [q \in Request |-> NoMachine]
    /\ errorCount' = [v \in Vm |-> 0]
    /\ sweep' = NoSweep
    /\ UNCHANGED <<request, saved, vm, zvol>>
    /\ Watch

CreateRequest(q) ==
    /\ request[q] = "none"
    /\ request' = [request EXCEPT ![q] = "live"]
    /\ UNCHANGED <<saved, vm, zvol, step, work, errorCount, sweep>>
    /\ Watch

DeleteRequest(q) ==
    /\ request[q] \in {"live", "provisioned"}
    /\ request' = [request EXCEPT ![q] = "deleting"]
    /\ UNCHANGED <<saved, vm, zvol, step, work, errorCount, sweep>>
    /\ Watch

(* The SDK loses the machine's state and never calls Deprovision.           *)
DropRequest(q) ==
    /\ request[q] = "deleting" /\ step[q] = "idle"
    /\ request' = [request EXCEPT ![q] = "none"]
    /\ saved' = [saved EXCEPT ![q] = NoMachine]
    /\ UNCHANGED <<vm, zvol, step, work, errorCount, sweep>>
    /\ Watch

(* A running VM ends: its guest shuts down, or the hypervisor reports an    *)
(* error.                                                                   *)
VMStops(v) ==
    /\ vm[v].state = "RUNNING"
    /\ \E s \in {"STOPPED", "ERROR"} : vm' = [vm EXCEPT ![v].state = s]
    /\ UNCHANGED <<request, saved, zvol, step, work, errorCount, sweep>>
    /\ Watch

(* An operator deletes a VM; writes a note before its description, or takes *)
(* it away again, which hides or shows the marker and keeps the request id; *)
(* or creates a VM, under the name of a request that has no VM or another,  *)
(* with any description.                                                    *)
Meddle(v) ==
    /\ MayMeddle
    /\ \/ Exists(v) /\ vm' = [vm EXCEPT ![v] = Absent]
       \/ Exists(v) /\ vm' = [vm EXCEPT ![v].marked = ~@]
       \/ \E n, t \in Request \cup {NoRequest}, m \in BOOLEAN :
             /\ v \in NewIds
             /\ n # NoRequest => Named(n) = {}
             /\ vm' = [vm EXCEPT ![v] = NewVM(n, m, t)]
    /\ UNCHANGED <<request, saved, zvol, step, work, errorCount, sweep>>
    /\ Watch

-----------------------------------------------------------------------------
Provision(q) ==
    \/ Reconcile(q) \/ StepFails(q) \/ ForgetVM(q) \/ NoVMFound(q)
    \/ \E v \in Vm :
          \/ RefuseToAdopt(q, v) \/ FoundRunning(q, v) \/ StartFound(q, v)
          \/ RecoverVM(q, v) \/ ReplaceVM(q, v)
    \/ EnsureZvol(q) \/ CreateVM(q) \/ AddCDROM(q) \/ AddDisk(q)
    \/ EnsureExtraZvol(q) \/ AddExtraDisk(q) \/ AddNIC(q) \/ StartVM(q)
    \/ HealthCheck(q)

TearDown(q) ==
    \/ Deprovision(q) \/ CleanupVM(q)
    \/ \E d \in Disk : CleanupZvol(q, d)
    \/ Deprovisioned(q)

Cleanup ==
    \/ ListManagedZvols \/ LiveRequestIDs \/ ListVMs \/ ListVMsFails
    \/ VMsSwept \/ ListVMNames \/ ZvolsSwept
    \/ \E v \in Vm : DeleteOrphanVM(v)
    \/ \E z \in Request \X Disk : DeleteOrphanZvol(z)

Environment ==
    \/ Crash
    \/ \E q \in Request : CreateRequest(q) \/ DeleteRequest(q) \/ DropRequest(q)
    \/ \E v \in Vm : VMStops(v) \/ Meddle(v)

Next ==
    \/ \E q \in Request : Provision(q) \/ TearDown(q)
    \/ Cleanup
    \/ Environment

Spec == Init /\ [][Next]_vars

-----------------------------------------------------------------------------
(* Properties.                                                              *)

(* The lists of a sweep grow old while it works.  A machine that has been   *)
(* in service ever since the sweep began loses neither its VM nor a disk to *)
(* it, whatever else is created, deleted or fails meanwhile, and whether or *)
(* not Omni could be read (cleanup.go: "never mass-delete on a transient    *)
(* Omni read failure").                                                     *)
SweepSparesServing ==
    [][sweep' # sweep =>
         \A q \in steady :
            /\ \A v \in Vm : IsMachine(v, q) => IsMachine(v, q)'
            /\ \A d \in Disk : <<q, d>> \in zvol => <<q, d>> \in zvol']_vars

(* A VM whose description does not begin with the management marker is      *)
(* changed by nobody but the operator and the hypervisor, with two          *)
(* exceptions the code makes: createVM goes on with the VM it has itself    *)
(* created and named after its request, and the sweep, which never looks at *)
(* the marker, removes a VM whose description names a request.  Whatever    *)
(* the provider finds by name or by a stored id it leaves alone, and the    *)
(* sweep never touches a VM with neither marker nor request id.             *)
ForeignVMUntouched ==
    [][\A v \in Vm :
         Exists(v) /\ ~vm[v].marked /\ vm'[v] # vm[v] =>
            \/ UNCHANGED <<step, work, sweep>>
            \/ vm[v].tag # NoRequest /\ UNCHANGED <<step, work>>
            \/ \E q \in Request : /\ step[q] \in Building
                                  /\ work[q].vm = v /\ vm[v].tag = q]_vars

HasResources(q) ==
    \/ \E v \in Vm : IsMachine(v, q)
    \/ \E d \in Disk : <<q, d>> \in zvol

(* What a request that is gone has left on TrueNAS, a VM whose id was never *)
(* stored, a disk that was not recorded, a failed or skipped Deprovision,   *)
(* is removed in the end.                                                   *)
NothingLeaks ==
    \A q \in Request :
        (request[q] = "none" /\ HasResources(q)) ~>
        (request[q] # "none" \/ ~HasResources(q))

(* The sweep is run again and again, and from some moment on the process    *)
(* stays up and the sweep's calls succeed.                                  *)
SweepSucceeds ==
    /\ sweep.pc # "idle" /\ sweep'.pc = "idle"
          => sweep.pc = "zvols" /\ sweep.zvols = {}
    /\ sweep.pc = "live" /\ sweep'.pc = "list" => sweep'.known
    /\ sweep.pc = "list" => sweep'.pc # "names"
    /\ sweep.pc = "vms"
          => \A v \in sweep.vms \ sweep'.vms : vm'[v] = Absent
    /\ sweep.pc = "zvols"
          => \A z \in sweep.zvols \ sweep'.zvols : z \notin zvol' \/ Busy(z)

Fairness == WF_vars(Cleanup /\ SweepSucceeds) /\ <>[][SweepSucceeds]_vars

FairSpec == Spec /\ Fairness
=============================================================================
