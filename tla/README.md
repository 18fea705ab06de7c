# Verification of omni-infra-provider-truenas

TLA+ specifications of the Omni infrastructure provider for TrueNAS, model-checked
with TLC on small instances, with theorems proved by TLAPS for every value of the
constants. Source paths are relative to the repository root (`src/` here).

    tlc -workers 2 -config <run>.cfg <MC module>.tla      # one run of the table below
    tlapm <Component>Proofs.tla                           # one proof module

`PROJECT.json` lists components, runs, mutants, findings, hazards, theorems, and for
every definition the source lines it stands for.

## 1. Inventory

The provider is a Go process that turns Omni's *MachineRequests* into TrueNAS VMs.
Subcommands of the same binary run a cluster autoscaler and a node-rotation engine.
Everything persistent lives elsewhere: in Omni (resources changed by
compare-and-swap), on TrueNAS (VMs, zvols, ISO files). What a process keeps in memory
is lost when it dies.

| Component | State | Operations | Interacts with |
|---|---|---|---|
| Singleton lease (`internal/singleton`, `main.go:452`) | three annotations on a ProviderStatus (instance id, heartbeat, epoch); in memory the epoch, an error count, two channels | Acquire, casAcquire, Run, refresh, Release | Omni by CAS; `main` stops the process when the lease is lost |
| Node rotation (`internal/noderotation`) | annotations on MachineClass (generation) and MachineSet (lock, surge phase and original count); MachineCount | tick = Discover, Plan, Execute | Omni; autoscaler and operator write the same set |
| Autoscaler (`internal/autoscaler`) | none of its own | gRPC: NodeGroupIncreaseSize and read-only calls | MachineSet, rotation lock, capacity gate |
| Provisioning steps (`internal/provisioner`) | machine state stored by the Omni SDK; error and OOM counters, active image ids in memory | createSchematic, uploadISO, createVM, healthCheck, Deprovision | TrueNAS calls; SDK |
| Cleanup (`internal/cleanup`) | nothing between sweeps | Run: sweep of ISOs, VMs, zvols | TrueNAS, Omni's list of requests; a goroutine beside the steps |
| ISO cache (`provisioner/iso_tofu.go`, `stepUploadISO`) | files on TrueNAS, user properties (baseline, poison marker), singleflight | classify, download or reuse, verify, re-verify, poison | provisioning steps, ISO sweep |
| WebSocket transport (`internal/client/ws.go`) | connection and its generation, pending calls, a write slot, a wait group, a closed flag | Call, readLoop, reconnect, Close | every TrueNAS call |
| TrueNAS client (`internal/client`) | a semaphore | one function per API call | transport |
| Capacity gate (`autoscaler/capacity.go`) | none | decides on free pool and memory | autoscaler |
| Health, monitor, telemetry, config patches, MAC and name formatting, subcommand wiring | a cached health result; metrics | - | - |

**What is hard.** Two processes and a lease whose writes may land late, under skewed
clocks. Three writers of one unsigned count that read it at different times. A sweep
that deletes by lists several calls old while machines come and go. Calls that fail
after their effect, steps that fail halfway and are run again from a stored state that
may or may not include what the attempt did. Reconnects while calls are pending. A
trust-on-first-use cache whose files change between check and use.

**What makes each correct.**

* Lease: at most one active process; takeovers only of stale leases, with a new epoch;
  nobody clears or ages another's lease; a split brain ends; somebody serves.
* Rotation: each surge increment is undone exactly once; Plan aborts only for foreign
  writers; lost updates do not add up; the floor stands; the lock covers the cycle;
  rotation by surge ends, and in-place rotation too once the floor lets it begin.
* Provisioning and cleanup: the steps never touch a VM without the provider's marker
  that they did not create, the sweep never touches one with neither marker nor request
  id; machines in service are never swept; nothing leaks for ever.
* ISO cache: a file that differs from its record is not attached; the record is the
  first one until an operator clears it or the sweep deletes it; no two uploads of one
  file; a process wipes the cache at most once.
* Transport: each call gets its own answer or an error; a call is executed again only
  after a fault; one connection and one writer; Close is final; nobody waits for ever.

## 2. Plan

Done, in this order: **Singleton** (model, checks, mutual exclusion proved),
**NodeRotation** with autoscaler, operator and controller (count and overshoot
invariants proved), **Provisioning** with cleanup, crashes and an operator (safety
proved), **WSTransport** (all safety properties proved), **ISOCache** with its sweep
(all safety properties proved), **Lease**, the abstract specification that Singleton
implements (checked and proved), the proofs of the compare-and-swap properties of the
lease, of the rotation lock and of the rotation's floor, and **RollingSet**, the
abstract specification that NodeRotation implements (checked and proved). Every
invariant, every action property and both refinements that the runs check are theorems.

What is left: an abstract specification of the transport (calls that are answered,
refused or lost), which WSTransport would be shown to implement.

## 3. Modules

### Singleton (`Singleton.tla`, `MCSingleton.tla`, `SingletonProofs.tla`, `SingletonCASProofs.tla`)

`status` is the ProviderStatus with its annotations. Per process: `pc` (main
goroutine), `loop` (goroutine of `Run`), `attempt`, `epoch`, `errors`, `tick`, and the
API call under way. Time is relative: each annotation or pending write carries its
*age*, capped at `AgeCap = StaleAfter + MaxSkew`, so behaviours do not run out of time.
A compare-and-swap is a read (which computes the write) and a write that lands only if
the version is still current; versions are abstracted to "still current" bits
(`fresh`), which `Outdate` clears on any change. A write whose caller gave up stays in
`late` and may land until outdated. `AcquireGet`/`CasAcquire`/... are the steps of
`Acquire`; `Tick`, `RefreshRead`, `RefreshOK`, ... those of `Run` and `refresh`;
`Release*` those of `Release`, which runs while `Run` may still refresh, because
deferred calls run in reverse (`main.go:405`).

**Lease** (`Lease.tla`) is what the rest of the provider relies on: a recorded owner, a
set of active processes, and three steps: a process is granted the lease while no
other is active, it resigns, or the record changes while nobody is active. Clocks,
heartbeats and versions do not occur in it. `ImplementsLease` instantiates it with
`owner <- status.owner` and `active <-` the processes past Acquire and before their
stop; every step of Singleton is then a step of Lease or a stutter.

### NodeRotation (`NodeRotation.tla`, `MCNodeRotation.tla`, `NodeRotationProofs.tla`, `NodeRotationServiceProofs.tla`)

One MachineClass, one MachineSet, its requests oldest first. A tick is `ReadClass`,
`ReadSet`, `ReadRequests` (three reads, not a snapshot), the pure `Plan`
(`planInPlace`, `planSurge`, stamping first) and the writes of `Execute`. The
autoscaler's `NodeGroupIncreaseSize` is `ScaleDiscover` then `IncreaseMachineCount`,
between which anything may happen. Omni's controller creates requests for the class's
present generation and removes the oldest when there are too many (modelled from how
the code relies on it). `Abandon` is a failed call or a crash at any point of a tick.
Generation hashes are model values; the lock is its age. A replacement may fail
(`FailProvisioning`) and is tried again (`RetryProvisioning`).

**RollingSet** (`RollingSet.tla`) is what those who depend on the MachineSet see of it: how
many members it is asked for, has, and has serving, and where the surge cycle is. A cycle
begins while the floor stands, gives a member up while more than the floor serve, and
ends when that member has left; a member leaves only if the floor still stands without
it, and in wait-down only if there are more than were asked for. Annotations, locks,
reads, plans and generations do not occur in it. `ImplementsRollingSet` instantiates it
with `cycle <- set.phase`, `asked <- set.count`, `members <- Len(requests)` and
`serving <-` the number of provisioned requests; the reads, the plans, the refreshes and
the ticks that end early are stutters.

### Provisioning (`Provisioning.tla`, `MCProvisioning.tla`, `ProvisioningProofs.tla`)

`vm` and `zvol` are TrueNAS; `saved` is what Omni stores of a machine; `step`/`work`
are the reconcile in progress. One action is one TrueNAS call with the code that leads
to it. `Done` says: the call had its effect, and its reply arrives or is lost;
`StepFails`: it failed without effect (validation, space, memory and ISO checks
included). `Fail` leaves open whether the SDK stores the state of a failed step.
`checkExistingVM`/`handleExistingVM` are `ForgetVM`, `NoVMFound`, `RefuseToAdopt`,
`FoundRunning`, `StartFound`, `RecoverVM`, `ReplaceVM`; the rest of `createVM` is
`EnsureZvol` to `StartVM`; `Deprovision` is `CleanupVM`, `CleanupZvol`,
`Deprovisioned`. The sweep keeps in `sweep` what it has listed: zvols, then live
requests (or none known), then the VMs it decided to delete, then the zvols. Whose a VM
is, the code asks in three ways, which a VM keeps apart: its `name`; `marked`, the marker
at the start of its description, which the steps ask for; `tag`, the request id anywhere in
the description, which is all that the sweep asks for. `Meddle` is an operator who deletes
VMs, creates them under any name and description, or writes something before a description
(which hides the marker and keeps the request id); a change of name or request id is left
out, as is one between the read of a VM and the call that deletes it. `steady`
is a history variable: the requests that have had a VM and a root disk ever since the
sweep began. VM ids are never reused by TrueNAS; ids nobody remembers are recycled in
the model to keep it finite.

### WSTransport (`WSTransport.tla`, `MCWSTransport.tla`, `WSTransportProofs.tla`)

Each caller is a goroutine in `Client.call` (the semaphore: `AcquireSlot`, `GiveUp`)
and `wsTransport.Call`: `CallStart`/`CallRefused` (the closed flag and the wait group
under one read lock), then `doCall`: `registerPending`, `AcquireWrite`, `CaptureConn`,
`WriteOK`/`WriteFails`, `SnapshotReader`, and the select of its wait (`Answered`,
`ConnectionLost`, `NotDecoded`, `WaitCancelled`, `WaitTimesOut`, `ReaderGone`). A
connection error leads to `reconnect` (`ReconnectLock` to `HandshakeOK`, or
`AlreadyReconnected` when `connGen` has moved) and one more `doCall`. `readLoop` is one
goroutine per connection, which hands answers to `pending` and tells the calls of its
connection when it dies. `Close` is `CloseSignal`, `CloseFlip`, `CloseDrained` or the
end of its grace period, `CloseConn`. `connMu` is its write lock; what the code does
under the read lock is one step. When `conn.Close` takes too long Close returns without
it (`CloseTimesOut`), and it ends later or never. A reader ends when its connection does
(`ReaderFails`) or at a frame that does not decode or is too long, with the connection
still open (`FrameRefused`). TrueNAS (`Execute`) answers in any order or not at all, and
answers that find no reader are lost; connections drop at any moment (`ConnDrops`), with
the requests that had not been executed. `faulty` and `executed` are history.

### ISOCache (`ISOCache.tla`, `MCISOCache.tla`, `ISOCacheProofs.tla`)

A slot is a dataset and an image; `file` is what StatFile tells of it, `props` its three
user properties. `UploadISO` joins or leads the flight of its image (`isoGroup`);
`StatFile`, `verifyCachedISO`, `setIfPoisonable` are the check, shared with
`reverifyISOBeforeAttach` in createVM; `EnsureDataset`, `ReadHash`, `StartUpload`,
`EndUpload`, `StatUploaded`, `RecordHash`, `RecordSize`, `RecordMtime` are the download
and its record, each of which may fail on its own. `ListFiles`, `AllStale`,
`DeleteDataset`, `CreateDataset` are `cleanupISOs`. `Restart` empties what is in memory;
`Drift`, `RemoveFile`, `ClearRecord` are other workloads and the operator. Times of
modification are only compared: a write takes one that nothing recorded or read has.
`tainted`, `hashes` and `sweep.wiped` are history: the files changed since their record
was complete; the hashes recorded since an operator cleared the record, with the mark
"swept" once `DeleteDataset` has taken it away; whether this process has deleted the
dataset. A change that happens after the check has
read the file is not `tainted` in `seen`: no check can see it.

## 4. Runs

| Run | Shows | Bounds |
|---|---|---|
| `singleton_safe` | AtMostOneActive, the inductive LeaseInv and ImplementsLease under SafeTiming | 2 processes, interval 2, StaleAfter 10, latency 1, skew 1 |
| `singleton_cas` | the inductive CASInv; epoch, takeover, release and heartbeat properties for any timing and with deletion of the resource | 2 processes, interval 1, StaleAfter 2 |
| `singleton_live` | a split brain ends, a successor appears | 2 processes, interval 1, latency 0 |
| `singleton_default_timing` | **violation** of AtMostOneActive with StaleAfter = 3 intervals | as the default ratio |
| `rotation_cycle` | CountAccounted, AbortMeansForeignWriter, FloorRespected, ImplementsRollingSet, for edits of the class between cycles only | 3 members, floor 2, 3 edits, all strategies, failures and stalls |
| `rotation_writers` | TypeOK, SurgeOvershootBounded, LockCoversCycle with autoscaler and operator | counts to 2, 3 edits of class and count at any time, either strategy, TTL 5 |
| `rotation_live` | EventuallyRotated | 3 members, the default floor of 1, 2 edits of class or strategy, both strategies, failed ticks and replacements |
| `provision_safe` | TypeOK, SweepSparesServing, ForeignVMUntouched | 1 request, 2 VM ids, 1 disk, crashes, operator |
| `provision_leak` | NothingLeaks | 1 request, 2 VM ids, 2 disks, crashes |
| `ws_calls` | TransportInv (at most one open connection is part of it), OwnAnswer, NothingOpenAfterClose, OneWriter, DrainIsFinal, OnceUnlessFaulty, ReplacesWhatFailed | 2 callers, 1 uploader, 1 Close, 2 dials of 2 attempts; results, which may not decode, and errors; symmetry of the callers; no cancellations |
| `ws_live` | CallReturns, CloseReturns | 2 callers, one with a deadline and a cancellation, 1 Close, 2 dials of 1 attempt, TrueNAS never answers |
| `iso` | CacheInv, DriftNotAttached, OneUpload, TrustOnFirstUse, WipesOnce | 2 machines, 1 dataset, 1 image beside a stale ISO, 2 restarts or changes by others |

**Why the bounds are enough.** Two processes suffice for a lease taken from one by the
other with a third party's write outstanding, because each process may have a late
write and may be restarted under a new call; the theorem covers any number. Ages are
compared with StaleAfter and sums of intervals only, so small numbers reach every
order of events. Three members with floor two give rotation a victim, a survivor and a
replacement in flight; three edits reach A, B, A. One request and two VM ids give
provisioning an old VM and its replacement, or a foreign VM of the same name; requests
meet only in the pool of ids and in the sweep's lists, which treat each by itself, and
the theorems cover any number. `MaxErrorRecoveries = 1` opens the breaker at the
second error. Time in NodeRotation: TTL 5 against a tick every unit leaves
`LockCoversCycle` room for every tick that stamps instead of refreshing (one per
edit) and fails for a lock that is never refreshed; with a TTL of 4 a cycle whose every
tick is lost to an edit outlives the lock, so the bound of the theorem is sharp. Two callers give the transport a
call that fails on a connection another call has replaced, and a writer that meets a
handshake; two dials, the first included, give one reconnect that succeeds and one that
does not. In `ws_live` a redial may succeed, so a
call goes through its second try, a second reader and the wait on the new connection;
nobody is ever answered, because an answer only lets a call return sooner, and the
upload, which counts in the wait group as a call does, is left to `ws_calls`.
Two machines give the ISO cache a leader and a passenger,
or an uploader and a checker; two faults give drift followed by a restart, a cleared
record or a removed file. There are as many times of modification as can be told apart, so a
write is never held up by the bound. The theorems cover any numbers in both.

`CHECK_DEADLOCK FALSE` stands where the system may come to rest: a rotated set once the
edits are used up; a closed transport whose calls have returned; machines that have
booted, with nothing left to sweep. `iso` uses symmetry of the machines, which boot the
same image from the same dataset.

**Fairness.** Singleton: processes are started and run, time passes, calls end
(bounded by the client's timeouts), and the calls of `Acquire` do not fail every time
they are tried (strong fairness; `Acquire` retries them). Nothing forces a process to
shut down, and refreshes may fail for ever. NodeRotation: the ticker fires and no call
fails at the same point of every tick for ever (strong fairness of each step that
`Abandon` preempts); the controller makes progress, a replacement is tried again after a
failure and does not fail for ever (strong fairness of `Provision`). Provisioning: only
the sweep is fair: its ticker fires again and again, and from some moment on the
process stays up and the sweep's own calls succeed (`SweepSucceeds`; a zvol that a
running VM holds open may still refuse). No step of the provisioning itself is fair,
so `NothingLeaks` rests on the sweep alone. WSTransport: goroutines that can go on do,
timers fire, and a deadline passes; TrueNAS need not answer, connections need not drop, no
frame need be refused, nobody need call Close, and `conn.Close` need not end.

## 5. Findings

* **Two active providers with the default timing** (`singleton_default_timing`).
  `Run` gives up at the third failed refresh, which ends later than three intervals
  after the last heartbeat, when `StaleAfter = 3 * RefreshInterval` already lets
  another process in. `SafeTiming` (`StaleAfter > 3 * interval + 2 * latency + skew`)
  is what the proof needs.

Observed while modelling, and not kept as runs. Most were reproduced with TLC:

* A scale-up between Discover and SurgeUp is lost: the engine takes the lock only with
  its first surge write, applies its delta to the live count and records the old one
  (`engine.go:246` against `docs/node-rotation.md:139`); the abort then leaves the set
  one machine off.
* A half-built VM is adopted: after a failure between `CreateVM` and `StartVM` the retry
  finds the VM by id or name, starts it as it is, and never attaches what is missing
  (`steps.go:1706` against `:422`); `healthCheck` accepts it. The check of the ISO in
  createVM comes after CreateVM, so a poisoned ISO ends the same way.
* The sweep deletes a VM whose request is live when its zvol was created after the zvols
  were listed (`cleanup.go:297` against `docs/architecture.md:193`); the configured grace
  period (`cleanup.go:27`) is never read.
* Release erases the epoch, so the next holder starts at 1 again (`singleton.go:530`
  against `:53` and `docs/hardening.md:351`).
* A clock that is ahead by StaleAfter takes a live lease (`singleton.go:385` against
  `:286`): TakeoverOnlyWhenStale is stated by the taker's clock for that reason.
* In-place rotation of a set whose members are all stale never begins with the default
  floor of 1, whatever the size of the set: the floor counts fresh members only
  (`plan.go:85-94`), of which there is none (`docs/node-rotation.md:54`, `:85`).
  EventuallyRotated names this outcome (`HeldByFloor`) beside rotation.
* In-place rotation may have two members out at once (`plan.go:259` against
  `docs/node-rotation.md:21`): the replacement of the last victim is not in the list yet.
* An operator's count edit between Discover and SurgeUp leaves the set one off
  (`engine.go:246` against `:126`); an edit during wait-up may leave the cycle waiting
  (`plan.go:182`).
* SurgeDown lets the controller remove its oldest member, which may be fresh when the
  class was edited back (`plan.go:120`).
* A class edited during a surge cycle may cost the floor: `expectedFresh` subtracts the
  members that are stale by the generation just read (`plan.go:182`), and when the
  replacement was created for another generation, SurgeDown goes ahead with no
  replacement serving, where `plan.go:135` says that "Surge does NOT drop healthy below
  the current count". FloorRespected, and its theorem, are for cycles without such edits.
* A strategy switched to in-place during a surge cycle, or between the plan of SurgeUp and
  its write, strands the surge annotation and the additional member (`Interrupted`).
* The sweep deletes a VM without the marker when its description names a request: it looks
  at the name and at the request id, anywhere in the description (`cleanup.go:267-287`,
  `meta.go:49`), where `ownership.go:25` says that VMs without the marker "must not be
  deleted or adopted".
* Provisioning: the OOM budget only changes the wording of an error; the sweep can
  delete the zvol of a live request whose VM is being recreated, leaving a VM whose
  disk is gone; the id of a foreign VM of the same name is stored, and Deprovision then
  refuses for ever; cleanup starts before the lease is acquired (`main.go:399`).
* Transport: a call that writes on a connection whose reader has died, just before a
  reconnect replaces it, takes the new reader for its own and waits for its whole timer,
  where the comment at `ws.go:802` says "we return promptly".
* ISO cache: a poison marker may be overwritten by the record of an upload that was under
  way; a record of which one part is missing poisons a good ISO although the log says it
  "will degrade for this field" (`iso_tofu_test.go:258` expects it); an upload that broke
  off, or hit the cap, leaves a short file without a record, which the next check accepts
  as older than the record; the set of active images is in memory, so the first sweep
  after a restart may delete ISOs that machines still need (`docs/architecture.md:192`);
  the sweep takes baselines and poison markers with the dataset, after
  which the next download is a first use again, although `docs/hardening.md:337-347`
  leaves that to the operator (TrustOnFirstUse exempts it by name); a machine that is told
  its ISO is there between the listing and the deletion loses it; when the poison marker
  of a mismatching download cannot be written over a record that holds only a hash, the
  next check accepts the file as a first use; flights are keyed by image alone, so a passenger from another dataset is told its ISO
  is there when it is not; a marker outlives the file, so removing the file does not make
  an ISO usable again.
* Capacity gate: `capacity.go:104` says a soft gate "always returns OutcomeAllowed or
  OutcomeWarnedSoft", but a failed query returns OutcomeErrored, which denies.

## 6. Proofs

All by TLAPS, from the constants' assumptions in each module (`ConfigAssumption`,
`EnvAssumption`, `RotationAssumption`, `ProvisioningAssumption`, `GoroutineAssumption`,
`LimitAssumption`, `CacheAssumption`).

**SingletonProofs.** `TypeCorrect`; `LeaseInvariant` and `MutualExclusion`, under
`SafeTiming` and `~MayDelete`. AtMostOneActive is not inductive: that nobody takes a
lease depends on how old its heartbeat may be. `LeaseInv` adds that the goroutines and
the calls agree (`Goroutines`), that calls end in time (`CallsInTime`), that an active
process owns the lease with a heartbeat no older than its error count, the rest of its
interval and its latency allow (`ActiveOwns`), and that no write against it can land
(`NoWriteAgainstActive`). The third failure thus comes before any clock sees StaleAfter.
`Refinement` (Spec => ImplementsLease, same assumptions) uses the same invariant: only
AcquireOK makes a process active, and LeaseInv says that no other is active when its
write can land; a step that changes the owner while a process is active would be a write
against it.

**SingletonCASProofs.** The properties of `singleton_cas`, with no assumption on timing,
skew or latency, and although the resource may be deleted: what SafeTiming is not needed
for. They follow from `CASInv`: a write that can still land, in a call or given up and
late, rests on the record as it stands. A claim by Acquire finds its epoch one above the
recorded one and, if there is an owner, a heartbeat that is stale by the claimer's clock
(`ClaimsCurrent`: both stay so because a heartbeat only ages and any change of the
resource makes the write outdated); a refresh finds its own lease, with a heartbeat no
younger than its own; a release finds its own lease, and its process is stopping
(`ClearsCurrent`). What the record says of a process is what that process remembers
(`RecordOfOwner`), and a process still in Acquire has left no write behind
(`AcquiringUnwritten`). Each step then does one of three things to the record: keeps the
holder, clears it or installs a claimer (`RecordStep`), and the six theorems read off
what each allows.

**NodeRotationProofs.** `RotationTypeCorrect`: the count, an unsigned number in the
code, never goes below zero. `CountInvariant` for one reconciler as the only writer:
`CountInv` adds to CountAccounted that what a reconciler has read of the set is still
true (`ReadIsCurrent`) and that its plan matches the phase (`PlanIsCurrent`); the same
invariant gives `AbortNeedsForeignWriter`.
`OvershootBound` with all writers: the invariant follows a stale plan's delta and the
autoscaler's pending delta through every interleaving.

**NodeRotationServiceProofs.** What the set's other users rely on.
`LockCovers` (LockCoversCycle for one reconciler that ticks every TickInterval, while the
strategy stays, with the autoscaler and every edit of class and count): the age of the
lock alone is not inductive, because a tick that finds a cycle may be spent on a stamp,
or on a SurgeDown that finds the count at zero, and refreshes nothing. Either takes an
edit. The *debt* of a state is the number of edits whose tick is still to be lost (a
stamp that is due, a second one when the class changed after the tick read it, a
SurgeDown about to be refused); `LockInv` bounds the lock's age by the time since the
last tick and one interval for each edit already used up, `edits - Debt`. No step makes
a debt that no edit pays for (`LockTreated`). `LockTiming`, `ScalerTTL > TickInterval *
(MaxEdits + 1)`, is then enough, and TLC shows that less is not. With the code's five
minutes and a tick every 30 seconds that is eight edits in a row, each just before a
tick; nothing in the code stops more of them from starving the lock.
`FloorKept` (FloorRespected for one reconciler as the only writer of the count, without
edits of the class in a cycle): Plan looks at the floor several steps, or ticks, before a
member goes. `FloorInv` carries what it saw: what a planned teardown leaves serving
(`Spared`; the ids are distinct and a new request takes none that a plan names), the
members that served when the cycle began and the generation of the one that joined
(`CycleFloor`), the margin of one after SurgeDown, and that Omni removes a member in no
other phase (`SizeBound`). The heart is `SurgeDownMargin`: with at most `orig + 1`
members, `expectedFresh` is met only if all `orig + 1` are there and every fresh one
serves, so the newest serves beside those the cycle began with.
`RotationRefines` (ImplementsRollingSet, under the assumptions of FloorKept): `FloorInv`
says of each write that the abstract guard holds when it lands, not only when it was
planned (a SurgeUp finds the floor standing, a SurgeDown one more than the floor, the end
of a cycle no more members than asked for), and of each removal that the floor stands;
every other step leaves the four mapped values as they are. Both invariants were
checked with TLC on the instances of `rotation_writers` and `rotation_cycle` first.

**ProvisioningProofs.** `ProvisionTypeCorrect`. `SweepSafe` from `SteadyInv`: steady
requests are in service; their root disk is in the sweep's list of zvols; they are in
its list of requests if it has one; no VM it will delete is theirs, and no such VM can
become theirs because an id on its list is not given out (`StepKeeps`: a step either
keeps a VM's name and request id or the VM is new); no zvol it will delete is theirs.
`ForeignSafe` from `MarkerInv`: the description of whatever createVM builds on names its
request, and whatever is on the sweep's list names some request, although the operator
edits descriptions meanwhile and the check lies several calls back.

**WSTransportProofs.** Every safety property of `ws_calls`, and `OneConnection`, follows
from `TransportInv`.
`Locks`: who is in a reconnect holds `connMu`, who writes holds `writeSem`.
`Connections`: only the latest connection is open, and none while the next is dialled.
`Closing`: `closed` is set while no reconnect holds the lock and none takes it
afterwards, so what Close captured is the last connection there is; and a call is counted
only under the read lock with `closed` unset, so the drain is final. `Ids`: ids are given
out once, so what is under way with an id is its owner's. `Generations`: as long as
`connGen` is what a call has read, the connection it used is the open one, so
`ReplacesWhatFailed`. `Unfaulted`: until something fails there is one connection and no
second try, hence no second execution.

**ISOCacheProofs.** Every safety property of `iso` follows from `CacheInv`. `Flights`:
only the leader of a flight gets beyond joining it, so one machine per image downloads,
and no two write one file. `FirstHash`: the recorded hash, and the one an upload has read
as its baseline, is the only one recorded so far, unless the sweep has deleted the record; nobody else can record one between the
leader's read and its write. `Drifted`: while a file differs from its record nobody
writes either, and who has seen such a file has seen a time that is not recorded and that
no one who is recording has seen; a check that compares times therefore refuses it, then
and later. Most steps leave it alone for one reason, stated once (`QuietSteps`).
`Sweeping`: after its wipe a process finds only ISOs of images in `activeImageIDs`, because
an upload is tracked before it begins and nothing is untracked, so never again is
everything that was listed stale. The types need `Flights` (whoever
records a hash has one), so both are proved together.

**Only model-checked**: the liveness properties (SplitBrainEnds, Successor,
EventuallyRotated, NothingLeaks, CallReturns, CloseReturns), since fairness and ENABLED
are out of the prover's reach.

## 7. Not modelled, and why

* createSchematic (a lookup at the image factory), the CD-ROM swap of an upgrade (it
  replaces a device without a look at the record) and disk resizing: in Provisioning they
  can only fail early.
* The lease composed with provisioning and rotation: Lease is what they would be composed
  with; the code checks the lease nowhere but in `main`, which stops everything.
* Several sets and classes per rotation tick: handled one after the other, independent.
* Parsing and formatting (annotations, names, config patches, MACs): reduced to their
  result. Sizes and messages: no property depends on them.
* Health, monitor, telemetry: read-only; nothing depends on them but metrics and logs.
* The autoscaler's read-only RPCs; the capacity gate, a
  pure decision, is a nondeterministic rejection.
