------------------------------ MODULE ISOCache ------------------------------
(***************************************************************************)
(* The cache of boot ISOs on TrueNAS: stepUploadISO, which downloads an ISO *)
(* once for all the machines that boot it and records what was uploaded in  *)
(* user properties of the dataset; the check of a cached ISO against that   *)
(* record, which stepCreateVM repeats before it attaches the CD-ROM; and    *)
(* the sweep that empties the cache.  Around them, the provider restarts,   *)
(* calls fail, an operator removes files or clears properties, and other    *)
(* workloads, replication or a rollback change a file.                      *)
(*                                                                          *)
(* A file is what StatFile tells of it: its size and its time of            *)
(* modification.  Times are only compared, so a write gives a file one that *)
(* nothing recorded or read has.  A call that fails may be followed by      *)
(* another attempt, without end.                                            *)
(***************************************************************************)
EXTENDS Integers, FiniteSets

CONSTANTS
    Machine,       \* machine requests
    Dataset,       \* the <basePath>/talos-iso datasets
    Image,         \* image ids
    Home,          \* the dataset of each machine
    Boots,         \* the image of each machine
    Pool,          \* the dataset that cleanup.Config.Pool names
    Legacy,        \* slots that hold an ISO of a provider without the record
    Mtime,         \* times of modification
    MaxFaults,     \* bound on restarts and on changes by others than the provider
    Exposed,       \* bound: the slots that others change
    NoOne          \* no machine

Slot == Dataset \X Image

ASSUME CacheAssumption ==
    /\ Home \in [Machine -> Dataset] /\ Boots \in [Machine -> Image]
    /\ Pool \in Dataset
    /\ Legacy \subseteq Slot /\ Exposed \subseteq Slot
    /\ 0 \notin Mtime /\ Mtime # {}
    /\ MaxFaults \in Nat
    /\ NoOne \notin Machine

VARIABLES
    dataset,   \* the datasets that exist
    file,      \* the file of each slot
    props,     \* the user properties recorded for each slot
    step,      \* the provision step each machine is at, or how it ended
    pc,        \* where it is in that step
    seen,      \* what StatFile returned to it
    expected,  \* the recorded hash it read before its download
    got,       \* the hash of what it downloaded
    flight,    \* isoGroup: who runs the upload of each image
    tracked,   \* Provisioner.activeImageIDs
    sweep,     \* cleanupISOs
    faults,    \* restarts and changes by others so far
    tainted,   \* history: slots whose file others changed after its record
               \* was complete
    hashes     \* history: the hashes recorded since an operator cleared the
               \* record, with "swept" once the sweep has deleted it

cache == <<dataset, file, props, tainted, hashes>>
locals == <<seen, expected, got>>
vars == <<cache, step, pc, locals, flight, tracked, sweep, faults>>

(* An upload that is not complete, or was cut at the cap, is short.         *)
Short == 1
Whole == 2
Size == {0, Short, Whole}
Time == Mtime \cup {0}
File == [size : Size, mtime : Time]
NoFile == [size |-> 0, mtime |-> 0]
Stat == [size : Size, mtime : Time, tainted : BOOLEAN]
NoStat == [size |-> 0, mtime |-> 0, tainted |-> FALSE]

(* The factory serves the ISO of the first use or another one.  A property  *)
(* that is not set is "none" or 0.                                          *)
Props == [hash : {"none", "iso", "other", "poisoned"}, size : Size,
          mtime : Time]
NoProps == [hash |-> "none", size |-> 0, mtime |-> 0]

(* wiped is history: a sweep of this process has deleted the dataset.       *)
Sweep == [pc : {"idle", "listed", "delete", "create"}, listed : SUBSET Image,
          wiped : BOOLEAN]
NoSweep == [pc |-> "idle", listed |-> {}, wiped |-> FALSE]

(* The places of downloadOrReuseISO and verifyCachedISO.                    *)
Places == {"idle", "joined", "stat", "props", "poison", "ensure", "hash",
           "download", "upload", "statUploaded", "recordHash", "recordSize",
           "recordMtime", "attach"}

TypeOK ==
    /\ dataset \in SUBSET Dataset
    /\ file \in [Slot -> File]
    /\ props \in [Slot -> Props]
    /\ tainted \in SUBSET Slot
    /\ hashes \in [Slot -> SUBSET {"iso", "other", "swept"}]
    /\ step \in [Machine -> {"uploadISO", "createVM", "attached", "adopted"}]
    /\ pc \in [Machine -> Places]
    /\ seen \in [Machine -> Stat]
    /\ expected \in [Machine -> {"none", "iso", "other"}]
    /\ got \in [Machine -> {"none", "iso", "other"}]
    /\ flight \in [Image -> Machine \cup {NoOne}]
    /\ tracked \in SUBSET Image
    /\ sweep \in Sweep
    /\ faults \in 0 .. MaxFaults

FirstMtime == CHOOSE t \in Mtime : TRUE

Init ==
    /\ dataset = {l[1] : l \in Legacy}
    /\ file = [s \in Slot |-> IF s \in Legacy
                              THEN [size |-> Whole, mtime |-> FirstMtime]
                              ELSE NoFile]
    /\ props = [s \in Slot |-> NoProps]
    /\ tainted = {}
    /\ hashes = [s \in Slot |-> {}]
    /\ step = [m \in Machine |-> "uploadISO"]
    /\ pc = [m \in Machine |-> "idle"]
    /\ seen = [m \in Machine |-> NoStat]
    /\ expected = [m \in Machine |-> "none"]
    /\ got = [m \in Machine |-> "none"]
    /\ flight = [i \in Image |-> NoOne]
    /\ tracked = {}
    /\ sweep = NoSweep
    /\ faults = 0

SlotOf(m) == <<Home[m], Boots[m]>>

(* A file is written: its time is one that nothing recorded or read has.    *)
Fresh(s) == Mtime \ ({file[s].mtime, props[s].mtime}
                       \cup {seen[m].mtime : m \in Machine})
Write(s, size) ==
    /\ Fresh(s) # {}
    /\ file' = [file EXCEPT ![s] = [size |-> size,
                                   mtime |-> CHOOSE t \in Fresh(s) : TRUE]]

(* The record is complete, describes the file as it is, and no machine is   *)
(* writing either.                                                          *)
Writing == {"upload", "statUploaded", "recordHash", "recordSize", "recordMtime"}
Recorded(s) ==
    /\ props[s].hash \in {"iso", "other"}
    /\ props[s].size = file[s].size /\ props[s].mtime = file[s].mtime
    /\ \A m \in Machine : SlotOf(m) = s => pc[m] \notin Writing

-----------------------------------------------------------------------------
(* Steps and flights.                                                       *)

Goto(m, place) ==
    /\ pc' = [pc EXCEPT ![m] = place]
    /\ UNCHANGED <<step, flight>>

(* The machines whose step returns with m's: those who joined its flight.   *)
Passengers(m) ==
    IF step[m] = "uploadISO"
    THEN {m} \cup {n \in Machine : pc[n] = "joined" /\ Boots[n] = Boots[m]}
    ELSE {m}

(* The step of m, and of whoever shares its result, goes on to another.     *)
Return(m, next) ==
    /\ step' = [n \in Machine |-> IF n \in Passengers(m) THEN next ELSE step[n]]
    /\ pc' = [n \in Machine |-> IF n \in Passengers(m) THEN "idle" ELSE pc[n]]
    /\ flight' = [i \in Image |-> IF flight[i] = m THEN NoOne ELSE flight[i]]
    /\ seen' = [seen EXCEPT ![m] = NoStat]
    /\ expected' = [expected EXCEPT ![m] = "none"]
    /\ got' = [got EXCEPT ![m] = "none"]

(* A step that fails is run again.  The VM exists when createVM checks the  *)
(* ISO, so the next createVM adopts it as it is.                            *)
Fails(m) == Return(m, IF step[m] = "createVM" THEN "adopted" ELSE step[m])

(* What verifyCachedISO does when the ISO may be used.                      *)
Accepts(m) ==
    \/ step[m] = "uploadISO" /\ Return(m, "createVM")
    \/ step[m] = "createVM" /\ Goto(m, "attach") /\ UNCHANGED locals

(* Any call of a step fails without an effect.                              *)
CallFails(m) ==
    /\ pc[m] \in {"stat", "props", "ensure", "hash", "download", "attach"}
    /\ Fails(m)
    /\ UNCHANGED <<cache, tracked, sweep, faults>>

(* Fault: the image is not tracked.                                         *)
TrackNothing(m) == UNCHANGED tracked

(* The image counts as active from here on.                                 *)
TrackImageID(m) == tracked' = tracked \cup {Boots[m]}

(* Fault: every machine runs its own upload.                                *)
UploadISOAlone(m) ==
    /\ step[m] = "uploadISO" /\ pc[m] = "idle"
    /\ TrackImageID(m)
    /\ flight' = [flight EXCEPT ![Boots[m]] = m]
    /\ pc' = [pc EXCEPT ![m] = "stat"]
    /\ UNCHANGED <<cache, step, locals, sweep, faults>>

(* stepUploadISO: the upload of an image is run by one machine at a time,   *)
(* whatever the dataset.                                                    *)
UploadISO(m) ==
    /\ step[m] = "uploadISO" /\ pc[m] = "idle"
    /\ TrackImageID(m)
    /\ \/ /\ flight[Boots[m]] = NoOne
          /\ flight' = [flight EXCEPT ![Boots[m]] = m]
          /\ pc' = [pc EXCEPT ![m] = "stat"]
       \/ /\ flight[Boots[m]] # NoOne
          /\ pc' = [pc EXCEPT ![m] = "joined"]
          /\ UNCHANGED flight
    /\ UNCHANGED <<cache, step, locals, sweep, faults>>

(* stepCreateVM has created the VM and checks the ISO again.                *)
reverifyISOBeforeAttach(m) ==
    /\ step[m] = "createVM" /\ pc[m] = "idle"
    /\ Goto(m, "stat")
    /\ UNCHANGED <<cache, locals, tracked, sweep, faults>>

-----------------------------------------------------------------------------
(* The check of a cached ISO.                                               *)

StatFile(m) ==
    /\ pc[m] = "stat"
    /\ LET s == SlotOf(m) IN
       IF file[s] # NoFile
       THEN /\ seen' = [seen EXCEPT ![m] =
                          [size |-> file[s].size, mtime |-> file[s].mtime,
                           tainted |-> s \in tainted]]
            /\ Goto(m, "props")
            /\ UNCHANGED <<expected, got>>
       ELSE IF step[m] = "uploadISO"
            THEN Goto(m, "ensure") /\ UNCHANGED locals
            ELSE Fails(m)
    /\ UNCHANGED <<cache, tracked, sweep, faults>>

GetDatasetUserProperties(m) == props[SlotOf(m)]

(* Fault: only the size is compared.                                        *)
verifyISOSize(p, stat) ==
    IF p.size = 0 /\ p.mtime = 0 THEN "firstUse"
    ELSE IF p.size = stat.size THEN "match" ELSE "mismatch"

(* What verifyISOMetadata says of the file that was read.                   *)
verifyISOMetadata(p, stat) ==
    IF p.size = 0 /\ p.mtime = 0 THEN "firstUse"
    ELSE IF p.size = stat.size /\ p.mtime = stat.mtime THEN "match"
    ELSE "mismatch"

verifyCachedISO(m) ==
    /\ pc[m] = "props"
    /\ LET p == GetDatasetUserProperties(m)
           result == verifyISOMetadata(p, seen[m]) IN
       \/ p.hash = "poisoned" /\ Fails(m)
       \/ p.hash = "none" /\ Accepts(m)
       \/ /\ p.hash \notin {"none", "poisoned"}
          /\ \/ result = "match" /\ Accepts(m)
             \/ result = "firstUse" /\ Goto(m, "recordSize") /\ UNCHANGED locals
             \/ result = "mismatch" /\ Goto(m, "poison") /\ UNCHANGED locals
    /\ UNCHANGED <<cache, tracked, sweep, faults>>

(* A property is written, unless the call fails or there is no dataset.     *)
SetProperty(m, p) ==
    /\ Home[m] \in dataset
    /\ props' = [props EXCEPT ![SlotOf(m)] = p]

(* setIfPoisonable: the last of its attempts; the step fails either way.    *)
setIfPoisonable(m) ==
    /\ pc[m] = "poison"
    /\ \/ SetProperty(m, [props[SlotOf(m)] EXCEPT !.hash = "poisoned"])
       \/ UNCHANGED props
    /\ Fails(m)
    /\ UNCHANGED <<dataset, file, tainted, hashes, tracked, sweep, faults>>

-----------------------------------------------------------------------------
(* The download.                                                            *)

EnsureDataset(m) ==
    /\ pc[m] = "ensure"
    /\ dataset' = dataset \cup {Home[m]}
    /\ Goto(m, "hash")
    /\ UNCHANGED <<file, props, tainted, hashes, locals, tracked, sweep,
                   faults>>

(* Fault: the marker passes for a hash.                                     *)
ReadHashUnchecked(m) ==
    /\ pc[m] = "hash"
    /\ expected' = [expected EXCEPT ![m] = GetDatasetUserProperties(m).hash]
    /\ Goto(m, "download")
    /\ UNCHANGED <<seen, got>>
    /\ UNCHANGED <<cache, tracked, sweep, faults>>

ReadHash(m) ==
    /\ pc[m] = "hash"
    /\ LET h == GetDatasetUserProperties(m).hash IN
       IF h = "poisoned" THEN Fails(m)
       ELSE /\ expected' = [expected EXCEPT ![m] = h]
            /\ Goto(m, "download")
            /\ UNCHANGED <<seen, got>>
    /\ UNCHANGED <<cache, tracked, sweep, faults>>

(* The first bytes of the download arrive in the file.                      *)
StartUpload(m) ==
    /\ pc[m] = "download" /\ Home[m] \in dataset
    /\ Write(SlotOf(m), Short)
    /\ tainted' = tainted \ {SlotOf(m)}
    /\ Goto(m, "upload")
    /\ UNCHANGED <<dataset, props, hashes, locals, tracked, sweep, faults>>

(* The last ones: a file that was removed meanwhile does not come back.     *)
Complete(m) ==
    \/ file[SlotOf(m)] # NoFile /\ Write(SlotOf(m), Whole)
    \/ file[SlotOf(m)] = NoFile /\ UNCHANGED file

(* Fault: the download is not compared with the recorded hash.              *)
EndUploadUnchecked(m) ==
    /\ pc[m] = "upload"
    /\ Complete(m)
    /\ \E hash \in {"iso", "other"} : got' = [got EXCEPT ![m] = hash]
    /\ Goto(m, "statUploaded")
    /\ UNCHANGED <<dataset, props, tainted, hashes, seen, expected, tracked,
                   sweep, faults>>

(* The recorded hash, which is no marker, and that of the download.         *)
classifyTOFU(stored, downloaded) ==
    IF stored = "none" THEN "firstUse"
    ELSE IF stored = downloaded THEN "match" ELSE "mismatch"

(* The factory serves what it served at first use, or something else.       *)
EndUpload(m) ==
    /\ pc[m] = "upload"
    /\ Complete(m)
    /\ \E hash \in {"iso", "other"} :
          /\ IF classifyTOFU(expected[m], hash) # "mismatch"
             THEN /\ got' = [got EXCEPT ![m] = hash]
                  /\ Goto(m, "statUploaded")
             ELSE /\ Goto(m, "poison")
                  /\ UNCHANGED got
    /\ UNCHANGED <<dataset, props, tainted, hashes, seen, expected, tracked,
                   sweep, faults>>

(* The upload breaks off, exceeds the cap, or its answer is lost.           *)
UploadFails(m) ==
    /\ pc[m] = "upload"
    /\ Complete(m) \/ UNCHANGED file
    /\ Fails(m)
    /\ UNCHANGED <<dataset, props, tainted, hashes, tracked, sweep, faults>>

(* Without an answer, or a file, only the hash is recorded.                 *)
StatUploaded(m) ==
    /\ pc[m] = "statUploaded"
    /\ LET s == SlotOf(m) IN
       \/ UNCHANGED seen
       \/ /\ file[s] # NoFile
          /\ seen' = [seen EXCEPT ![m] = [size |-> file[s].size,
                                          mtime |-> file[s].mtime,
                                          tainted |-> FALSE]]
    /\ Goto(m, "recordHash")
    /\ UNCHANGED <<cache, expected, got, tracked, sweep, faults>>

(* recordTOFUProperty, three times: a write that fails is not repeated.     *)
RecordHash(m) ==
    /\ pc[m] = "recordHash"
    /\ \/ /\ SetProperty(m, [props[SlotOf(m)] EXCEPT !.hash = got[m]])
          /\ hashes' = [hashes EXCEPT ![SlotOf(m)] =
                           hashes[SlotOf(m)] \cup {got[m]}]
       \/ UNCHANGED <<props, hashes>>
    /\ IF seen[m] = NoStat THEN Return(m, "createVM")
       ELSE Goto(m, "recordSize") /\ UNCHANGED locals
    /\ UNCHANGED <<dataset, file, tainted, tracked, sweep, faults>>

RecordSize(m) ==
    /\ pc[m] = "recordSize"
    /\ \/ SetProperty(m, [props[SlotOf(m)] EXCEPT !.size = seen[m].size])
       \/ UNCHANGED props
    /\ Goto(m, "recordMtime")
    /\ UNCHANGED <<dataset, file, tainted, hashes, locals, tracked, sweep,
                   faults>>

RecordMtime(m) ==
    /\ pc[m] = "recordMtime"
    /\ \/ SetProperty(m, [props[SlotOf(m)] EXCEPT !.mtime = seen[m].mtime])
       \/ UNCHANGED props
    /\ Accepts(m)
    /\ UNCHANGED <<dataset, file, tainted, hashes, tracked, sweep, faults>>

(* TrueNAS refuses a CD-ROM whose file is missing.                          *)
AddCDROM(m) ==
    /\ pc[m] = "attach" /\ file[SlotOf(m)] # NoFile
    /\ Return(m, "attached")
    /\ UNCHANGED <<cache, tracked, sweep, faults>>

-----------------------------------------------------------------------------
(* cleanupISOs, which knows the dataset of the pool only.                   *)

ListFiles ==
    /\ sweep.pc = "idle"
    /\ sweep' = [sweep EXCEPT !.pc = "listed",
                              !.listed = {i \in Image : file[<<Pool, i>>] # NoFile}]
    /\ UNCHANGED <<cache, step, pc, locals, flight, tracked, faults>>

SweepEnds == sweep' = [sweep EXCEPT !.pc = "idle", !.listed = {}]

(* Only if every ISO that was listed is stale, the dataset is recreated.    *)
AllStale ==
    /\ sweep.pc = "listed"
    /\ IF sweep.listed # {} /\ sweep.listed \cap tracked = {}
       THEN sweep' = [sweep EXCEPT !.pc = "delete"]
       ELSE SweepEnds
    /\ UNCHANGED <<cache, step, pc, locals, flight, tracked, faults>>

(* Records are gone, and with them what a file differed from.               *)
Forget(lost) ==
    /\ props' = [s \in Slot |-> IF s \in lost THEN NoProps ELSE props[s]]
    /\ tainted' = tainted \ lost
    /\ seen' = [m \in Machine |->
                  IF SlotOf(m) \in lost
                  THEN [size |-> seen[m].size, mtime |-> seen[m].mtime,
                        tainted |-> FALSE]
                  ELSE seen[m]]

(* The files and the properties go with the dataset.                        *)
DeleteDataset ==
    /\ sweep.pc = "delete"
    /\ dataset' = dataset \ {Pool}
    /\ file' = [s \in Slot |-> IF s[1] = Pool THEN NoFile ELSE file[s]]
    /\ Forget({s \in Slot : s[1] = Pool})
    /\ hashes' = [s \in Slot |-> IF s[1] = Pool /\ props[s] # NoProps
                                 THEN hashes[s] \cup {"swept"} ELSE hashes[s]]
    /\ sweep' = [sweep EXCEPT !.pc = "create", !.wiped = TRUE]
    /\ UNCHANGED <<step, pc, expected, got, flight, tracked, faults>>

CreateDataset ==
    /\ sweep.pc = "create"
    /\ dataset' = dataset \cup {Pool}
    /\ SweepEnds
    /\ UNCHANGED <<file, props, tainted, hashes, step, pc, locals, flight,
                   tracked, faults>>

SweepFails ==
    /\ sweep.pc \in {"delete", "create"}
    /\ SweepEnds
    /\ UNCHANGED <<cache, step, pc, locals, flight, tracked, faults>>

-----------------------------------------------------------------------------
(* The environment.                                                         *)

Fault == faults < MaxFaults /\ faults' = faults + 1

(* The provider dies and comes back: what it had in memory is gone, and the *)
(* SDK resumes each machine at its step.                                    *)
Restart ==
    /\ Fault
    /\ step' = [m \in Machine |-> IF step[m] = "createVM" /\ pc[m] # "idle"
                                  THEN "adopted" ELSE step[m]]
    /\ pc' = [m \in Machine |-> "idle"]
    /\ seen' = [m \in Machine |-> NoStat]
    /\ expected' = [m \in Machine |-> "none"]
    /\ got' = [m \in Machine |-> "none"]
    /\ flight' = [i \in Image |-> NoOne]
    /\ tracked' = {}
    /\ sweep' = NoSweep
    /\ UNCHANGED cache

(* Something other than the provider writes a cached file.                  *)
Drift(s) ==
    /\ file[s] # NoFile
    /\ Fault
    /\ \E size \in {Short, Whole} : Write(s, size)
    /\ tainted' = IF Recorded(s) THEN tainted \cup {s} ELSE tainted
    /\ UNCHANGED <<dataset, props, hashes, step, pc, locals, flight, tracked,
                   sweep>>

(* The operator removes a file, or clears the record of an ISO.             *)
RemoveFile(s) ==
    /\ file[s] # NoFile
    /\ Fault
    /\ file' = [file EXCEPT ![s] = NoFile]
    /\ tainted' = tainted \ {s}
    /\ UNCHANGED <<dataset, props, hashes, step, pc, locals, flight, tracked,
                   sweep>>

ClearRecord(s) ==
    /\ props[s] # NoProps
    /\ Fault
    /\ Forget({s})
    /\ hashes' = [hashes EXCEPT ![s] = {}]
    /\ UNCHANGED <<dataset, file, step, pc, expected, got, flight, tracked,
                   sweep>>

-----------------------------------------------------------------------------
Provision(m) ==
    \/ UploadISO(m) \/ reverifyISOBeforeAttach(m) \/ StatFile(m)
    \/ verifyCachedISO(m) \/ setIfPoisonable(m) \/ EnsureDataset(m)
    \/ ReadHash(m) \/ StartUpload(m) \/ EndUpload(m) \/ UploadFails(m)
    \/ StatUploaded(m) \/ RecordHash(m) \/ RecordSize(m) \/ RecordMtime(m)
    \/ AddCDROM(m) \/ CallFails(m)

cleanupISOs ==
    ListFiles \/ AllStale \/ DeleteDataset \/ CreateDataset \/ SweepFails

Environment ==
    \/ Restart
    \/ \E s \in Exposed : Drift(s) \/ RemoveFile(s) \/ ClearRecord(s)

Next == (\E m \in Machine : Provision(m)) \/ cleanupISOs \/ Environment

Spec == Init /\ [][Next]_vars

-----------------------------------------------------------------------------
(* Properties.                                                              *)

(* A file that has changed since it was recorded is not attached, unless it *)
(* changed after the check before the attach had read its metadata, however *)
(* the poison marker, other machines, sweeps and restarts come in between   *)
(* (iso_tofu.go:295).                                                       *)
DriftNotAttached ==
    \A m \in Machine : pc[m] = "attach" => ~seen[m].tainted

(* Two uploads never write the same file (steps.go:230).                    *)
OneUpload ==
    \A m, n \in Machine :
        pc[m] = "upload" /\ pc[n] = "upload" /\ SlotOf(m) = SlotOf(n) => m = n

(* Trust on first use: until an operator clears the record or the           *)
(* provider's own sweep deletes it, every download that is recorded has the *)
(* same hash, although the baseline is read minutes before the new hash is  *)
(* written (steps.go:266-300).                                              *)
TrustOnFirstUse ==
    \A s \in Slot :
        "swept" \notin hashes[s] => \A g, h \in hashes[s] : g = h

(* A process wipes the cache at most once: whatever it lists after that are *)
(* ISOs of images it tracks (steps.go:216).  The ISO that a machine was     *)
(* told is there, a baseline or a poison marker, can be lost to this        *)
(* process once, not by every sweep (cleanup.go:159-205).                   *)
WipesOnce ==
    [][sweep.wiped => ~(sweep.pc = "delete" /\ sweep'.pc = "create")]_vars

(* Why they hold: the parts of the inductive invariant, which TLC checks    *)
(* as well.  In stepUploadISO only the leader of a flight gets anywhere,    *)
(* and only there is an ISO downloaded; whoever has a file open has seen    *)
(* one, and whoever records a hash has one.                                 *)
Downloading == {"ensure", "hash", "download", "upload", "statUploaded",
                "recordHash"}
Flights ==
    \A m \in Machine :
        /\ step[m] = "uploadISO" /\ pc[m] \notin {"idle", "joined"}
              => flight[Boots[m]] = m
        /\ pc[m] \in Downloading \cup {"joined"} => step[m] = "uploadISO"
        /\ pc[m] # "idle" => step[m] \in {"uploadISO", "createVM"}
        /\ pc[m] \in {"idle", "joined", "stat"} \cup Downloading
              => seen[m] = NoStat \/ pc[m] = "recordHash"
        /\ seen[m] # NoStat => seen[m].mtime \in Mtime
        /\ pc[m] \in {"props", "recordSize", "recordMtime"} => seen[m] # NoStat
        /\ pc[m] \in {"statUploaded", "recordHash"} => got[m] # "none"

(* The hash that is recorded, or that an upload will record, is the first.  *)
FirstHash ==
    /\ \A s \in Slot :
          "swept" \notin hashes[s] =>
             /\ props[s].hash = "none" => hashes[s] = {}
             /\ props[s].hash \in {"iso", "other"} => hashes[s] = {props[s].hash}
             /\ \A g, h \in hashes[s] : g = h
    /\ \A m \in Machine :
          /\ /\ pc[m] \in {"download", "upload", "statUploaded", "recordHash"}
             /\ "swept" \notin hashes[SlotOf(m)]
             => hashes[SlotOf(m)] \subseteq {expected[m]}
          /\ pc[m] \in {"statUploaded", "recordHash"}
                => expected[m] \in {"none", got[m]}

(* While a file differs from its record, nobody writes either; who has seen *)
(* such a file has seen a time that is not recorded, and will not be.       *)
Drifted ==
    /\ \A s \in Slot : file[s] # NoFile => file[s].mtime \in Mtime
    /\ \A s \in tainted :
          /\ props[s].hash # "none"
          /\ props[s].mtime \notin {0, file[s].mtime}
          /\ \A n \in Machine : SlotOf(n) = s => pc[n] \notin Writing
    /\ \A m \in Machine :
          /\ pc[m] \in {"recordHash", "recordSize", "recordMtime", "attach"}
                => ~seen[m].tainted
          /\ seen[m].tainted =>
                /\ props[SlotOf(m)].hash # "none"
                /\ props[SlotOf(m)].mtime \notin {0, seen[m].mtime}
                /\ \A n \in Machine :
                      SlotOf(n) = SlotOf(m) =>
                         /\ pc[n] \in {"recordHash", "recordSize", "recordMtime"}
                               => seen[n].mtime # seen[m].mtime
                         /\ pc[n] \in {"upload", "statUploaded"}
                               => file[SlotOf(n)].mtime # seen[m].mtime

(* After its wipe, a process finds only ISOs of images it tracks.           *)
Sweeping ==
    /\ \A m \in Machine : step[m] = "uploadISO" /\ pc[m] # "idle"
                           => Boots[m] \in tracked
    /\ sweep.wiped =>
          /\ \A i \in Image : file[<<Pool, i>>] # NoFile => i \in tracked
          /\ sweep.pc = "listed" => sweep.listed \subseteq tracked
          /\ sweep.pc # "delete"

(* The inductive invariant.                                                 *)
CacheInv == Flights /\ FirstHash /\ Drifted /\ Sweeping
=============================================================================
