--------------------------- MODULE ISOCacheProofs ---------------------------
(***************************************************************************)
(* Proofs about the ISO cache, for any number of machines, datasets and    *)
(* images, and any number of restarts and of changes by others.            *)
(***************************************************************************)
EXTENDS ISOCache, TLAPS

USE DEF cache, locals

-----------------------------------------------------------------------------
(* Type correctness.                                                        *)

LEMMA SlotFacts ==
    /\ \A m \in Machine : SlotOf(m) \in Slot /\ Home[m] \in Dataset
                          /\ Boots[m] \in Image
    /\ \A s \in Slot : s[1] \in Dataset
  BY CacheAssumption DEF SlotOf, Slot

LEMMA ValueFacts ==
    /\ NoFile \in File /\ NoStat \in Stat /\ NoProps \in Props
    /\ NoSweep \in Sweep
  BY DEF NoFile, File, NoStat, Stat, NoProps, Props, NoSweep, Sweep, Size, Time

(* A file that is written gets a size and a new time.                       *)
LEMMA WriteFacts ==
    ASSUME TypeOK, NEW s \in Slot, NEW size \in {Short, Whole}, Write(s, size)
    PROVE  /\ file' \in [Slot -> File]
           /\ file' = [file EXCEPT ![s] = file'[s]]
           /\ file'[s].mtime \in Mtime
           /\ file'[s].mtime \notin {file[s].mtime, props[s].mtime}
           /\ \A m \in Machine : file'[s].mtime # seen[m].mtime
           /\ file'[s] # NoFile
  <1> DEFINE t == CHOOSE t \in Fresh(s) : TRUE
  <1>1. t \in Fresh(s)
    BY DEF Write
  <1>2. file' = [file EXCEPT ![s] = [size |-> size, mtime |-> t]]
    BY DEF Write
  <1>3. t \in Mtime /\ t # 0
    BY <1>1, CacheAssumption DEF Fresh
  <1>4. [size |-> size, mtime |-> t] \in File
    BY <1>3 DEF File, Size, Time
  <1> HIDE DEF t
  <1>5. file'[s] = [size |-> size, mtime |-> t]
    BY <1>2 DEF TypeOK
  <1>6. \A m \in Machine : t # seen[m].mtime
    BY <1>1 DEF Fresh
  <1> QED
    BY <1>1, <1>2, <1>3, <1>4, <1>5, <1>6 DEF TypeOK, Fresh, NoFile, Short, Whole

(* What a step that returns leaves of its locals.                           *)
Steps ==
    /\ step \in [Machine -> {"uploadISO", "createVM", "attached", "adopted"}]
    /\ pc \in [Machine -> Places]
    /\ seen \in [Machine -> Stat]
    /\ expected \in [Machine -> {"none", "iso", "other"}]
    /\ got \in [Machine -> {"none", "iso", "other"}]
    /\ flight \in [Image -> Machine \cup {NoOne}]

LEMMA ReturnTyped ==
    ASSUME TypeOK, NEW m \in Machine,
           NEW next \in {"uploadISO", "createVM", "attached", "adopted"},
           Return(m, next)
    PROVE  Steps'
  BY ValueFacts DEF Return, TypeOK, Steps, Places

LEMMA FailsTyped ==
    ASSUME TypeOK, NEW m \in Machine, Fails(m)
    PROVE  Steps'
  <1> DEFINE next == IF step[m] = "createVM" THEN "adopted" ELSE step[m]
  <1>1. next \in {"uploadISO", "createVM", "attached", "adopted"}
    BY DEF TypeOK
  <1>2. Return(m, next)
    BY DEF Fails
  <1> HIDE DEF next
  <1> QED
    BY <1>1, <1>2, ReturnTyped

LEMMA AcceptsTyped ==
    ASSUME TypeOK, NEW m \in Machine, Accepts(m)
    PROVE  Steps'
  <1>1. CASE Return(m, "createVM")
    BY <1>1, ReturnTyped
  <1>2. CASE Goto(m, "attach") /\ UNCHANGED locals
    BY <1>2 DEF Goto, TypeOK, Steps, Places
  <1> QED
    BY <1>1, <1>2 DEF Accepts

LEMMA SetPropertyTyped ==
    ASSUME TypeOK, NEW m \in Machine, NEW p \in Props, SetProperty(m, p)
    PROVE  props' \in [Slot -> Props]
  BY DEF SetProperty, TypeOK

LEMMA ProvisionTyped ==
    ASSUME TypeOK, Flights, NEW m \in Machine, Provision(m)
    PROVE  TypeOK'
  <1> USE SlotFacts
  <1>1. CASE UploadISO(m)
    <2>1. flight' \in [Image -> Machine \cup {NoOne}]
      BY <1>1 DEF UploadISO, TypeOK
    <2>2. pc' \in [Machine -> Places]
      BY <1>1 DEF UploadISO, TypeOK, Places
    <2>3. tracked' \in SUBSET Image
      BY <1>1 DEF UploadISO, TrackImageID, TypeOK
    <2>4. UNCHANGED <<cache, step, locals, sweep, faults>>
      BY <1>1 DEF UploadISO
    <2> QED
      BY <2>1, <2>2, <2>3, <2>4 DEF TypeOK
  <1>2. CASE reverifyISOBeforeAttach(m)
    BY <1>2 DEF reverifyISOBeforeAttach, Goto, TypeOK, Places
  <1>3. CASE StatFile(m)
    <2>1. CASE file[SlotOf(m)] # NoFile
      <3>1. [size |-> file[SlotOf(m)].size, mtime |-> file[SlotOf(m)].mtime,
             tainted |-> SlotOf(m) \in tainted] \in Stat
        BY DEF TypeOK, File, Stat
      <3>2. seen' \in [Machine -> Stat]
        BY <1>3, <2>1, <3>1 DEF StatFile, TypeOK
      <3>3. Goto(m, "props") /\ UNCHANGED <<expected, got>>
        BY <1>3, <2>1 DEF StatFile
      <3> QED
        BY <1>3, <3>2, <3>3 DEF StatFile, Goto, TypeOK, Places
    <2>2. CASE file[SlotOf(m)] = NoFile /\ step[m] = "uploadISO"
      BY <1>3, <2>2 DEF StatFile, Goto, TypeOK, Places
    <2>3. CASE Fails(m)
      BY <1>3, <2>3, FailsTyped DEF StatFile, TypeOK, Steps
    <2> QED
      BY <1>3, <2>1, <2>2, <2>3 DEF StatFile
  <1>4. CASE verifyCachedISO(m)
    <2>1. CASE Fails(m)
      BY <1>4, <2>1, FailsTyped DEF verifyCachedISO, TypeOK, Steps
    <2>2. CASE Accepts(m)
      BY <1>4, <2>2, AcceptsTyped DEF verifyCachedISO, TypeOK, Steps
    <2>3. CASE (Goto(m, "recordSize") \/ Goto(m, "poison")) /\ UNCHANGED locals
      BY <1>4, <2>3 DEF verifyCachedISO, Goto, TypeOK, Places
    <2> QED
      BY <1>4, <2>1, <2>2, <2>3 DEF verifyCachedISO
  <1>5. CASE setIfPoisonable(m)
    <2>1. [props[SlotOf(m)] EXCEPT !.hash = "poisoned"] \in Props
      BY DEF TypeOK, Props
    <2>2. props' \in [Slot -> Props]
      BY <1>5, <2>1, SetPropertyTyped DEF setIfPoisonable, TypeOK
    <2> QED
      BY <1>5, <2>2, FailsTyped DEF setIfPoisonable, TypeOK, Steps
  <1>6. CASE EnsureDataset(m)
    BY <1>6 DEF EnsureDataset, Goto, TypeOK, Places
  <1>7. CASE ReadHash(m)
    <2>1. CASE Fails(m)
      BY <1>7, <2>1, FailsTyped DEF ReadHash, TypeOK, Steps
    <2>2. CASE props[SlotOf(m)].hash # "poisoned"
      <3>1. props[SlotOf(m)].hash \in {"none", "iso", "other"}
        BY <2>2 DEF TypeOK, Props
      <3> QED
        BY <1>7, <2>2, <3>1
           DEF ReadHash, GetDatasetUserProperties, Goto, TypeOK, Places
    <2> QED
      BY <1>7, <2>1, <2>2 DEF ReadHash, GetDatasetUserProperties
  <1>8. CASE StartUpload(m)
    BY <1>8, WriteFacts DEF StartUpload, Goto, TypeOK, Places
  <1>9. CASE EndUpload(m)
    <2>1. file' \in [Slot -> File]
      BY <1>9, WriteFacts DEF EndUpload, Complete, TypeOK
    <2> QED
      BY <1>9, <2>1 DEF EndUpload, Goto, TypeOK, Places
  <1>10. CASE UploadFails(m)
    <2>1. file' \in [Slot -> File]
      BY <1>10, WriteFacts DEF UploadFails, Complete, TypeOK
    <2> QED
      BY <1>10, <2>1, FailsTyped DEF UploadFails, TypeOK, Steps
  <1>11. CASE StatUploaded(m)
    <2>1. [size |-> file[SlotOf(m)].size, mtime |-> file[SlotOf(m)].mtime,
           tainted |-> FALSE] \in Stat
      BY DEF TypeOK, File, Stat
    <2> QED
      <3>1. seen' \in [Machine -> Stat]
        BY <1>11, <2>1 DEF StatUploaded, TypeOK
      <3>2. pc' \in [Machine -> Places]
        BY <1>11 DEF StatUploaded, Goto, TypeOK, Places
      <3>3. UNCHANGED <<cache, expected, got, tracked, sweep, faults, step,
                        flight>>
        BY <1>11 DEF StatUploaded, Goto
      <3> QED
        BY <3>1, <3>2, <3>3 DEF TypeOK
  <1>12. CASE RecordHash(m)
    <2>1. got[m] \in {"iso", "other"}
      BY <1>12 DEF RecordHash, Flights, TypeOK
    <2>2. [props[SlotOf(m)] EXCEPT !.hash = got[m]] \in Props
      <3>1. props[SlotOf(m)] \in Props
        BY DEF TypeOK
      <3> QED
        BY <2>1, <3>1 DEF Props
    <2>3. props' \in [Slot -> Props] /\ hashes' \in [Slot -> SUBSET {"iso", "other", "swept"}]
      BY <1>12, <2>1, <2>2, SetPropertyTyped DEF RecordHash, TypeOK
    <2>4. Steps'
      BY <1>12, ReturnTyped DEF RecordHash, Goto, TypeOK, Steps, Places
    <2> QED
      BY <1>12, <2>3, <2>4 DEF RecordHash, TypeOK, Steps
  <1>13. CASE RecordSize(m)
    <2>1. [props[SlotOf(m)] EXCEPT !.size = seen[m].size] \in Props
      <3>1. seen[m].size \in Size
        BY DEF TypeOK, Stat
      <3>2. props[SlotOf(m)] \in Props
        BY DEF TypeOK
      <3> QED
        BY <3>1, <3>2 DEF Props
    <2> QED
      BY <1>13, <2>1, SetPropertyTyped DEF RecordSize, Goto, TypeOK, Places
  <1>14. CASE RecordMtime(m)
    <2>1. [props[SlotOf(m)] EXCEPT !.mtime = seen[m].mtime] \in Props
      <3>1. seen[m].mtime \in Time
        BY DEF TypeOK, Stat
      <3>2. props[SlotOf(m)] \in Props
        BY DEF TypeOK
      <3> QED
        BY <3>1, <3>2 DEF Props
    <2> QED
      BY <1>14, <2>1, SetPropertyTyped, AcceptsTyped
         DEF RecordMtime, TypeOK, Steps
  <1>15. CASE AddCDROM(m)
    BY <1>15, ReturnTyped DEF AddCDROM, TypeOK, Steps
  <1>16. CASE CallFails(m)
    BY <1>16, FailsTyped DEF CallFails, TypeOK, Steps
  <1> QED
    BY <1>1, <1>2, <1>3, <1>4, <1>5, <1>6, <1>7, <1>8, <1>9, <1>10, <1>11,
       <1>12, <1>13, <1>14, <1>15, <1>16 DEF Provision

LEMMA ForgetTyped ==
    ASSUME TypeOK, NEW lost \in SUBSET Slot, Forget(lost)
    PROVE  /\ props' \in [Slot -> Props]
           /\ tainted' \in SUBSET Slot
           /\ seen' \in [Machine -> Stat]
  <1>1. \A m \in Machine :
           [size |-> seen[m].size, mtime |-> seen[m].mtime, tainted |-> FALSE]
              \in Stat
    BY DEF TypeOK, Stat
  <1> QED
    BY <1>1, ValueFacts DEF Forget, TypeOK

(* The two writes of a sweep that does not touch the dataset.               *)
LEMMA SweepWrites ==
    ASSUME NEW s \in Sweep
    PROVE  /\ [s EXCEPT !.pc = "delete"] \in Sweep
           /\ [s EXCEPT !.pc = "delete"].pc = "delete"
           /\ [s EXCEPT !.pc = "delete"].wiped = s.wiped
           /\ [s EXCEPT !.pc = "idle", !.listed = {}] \in Sweep
           /\ [s EXCEPT !.pc = "idle", !.listed = {}].pc = "idle"
           /\ [s EXCEPT !.pc = "idle", !.listed = {}].wiped = s.wiped
  <1>1. /\ [s EXCEPT !.pc = "delete"] \in Sweep
        /\ [s EXCEPT !.pc = "delete"].pc = "delete"
        /\ [s EXCEPT !.pc = "delete"].wiped = s.wiped
    BY DEF Sweep
  <1>2. /\ [s EXCEPT !.pc = "idle", !.listed = {}] \in Sweep
        /\ [s EXCEPT !.pc = "idle", !.listed = {}].pc = "idle"
        /\ [s EXCEPT !.pc = "idle", !.listed = {}].wiped = s.wiped
    BY DEF Sweep
  <1> QED
    BY <1>1, <1>2

LEMMA SweepTyped ==
    ASSUME TypeOK, cleanupISOs
    PROVE  TypeOK'
  <1>1. CASE ListFiles
    BY <1>1 DEF ListFiles, TypeOK, Sweep
  <1>2. CASE AllStale \/ SweepFails
    <2>1. sweep \in Sweep
      BY DEF TypeOK
    <2>2. \/ sweep' = [sweep EXCEPT !.pc = "delete"]
          \/ sweep' = [sweep EXCEPT !.pc = "idle", !.listed = {}]
      BY <1>2 DEF AllStale, SweepFails, SweepEnds
    <2>3. sweep' \in Sweep
      BY <2>1, <2>2, SweepWrites
    <2>4. UNCHANGED <<cache, step, pc, locals, flight, tracked, faults>>
      BY <1>2 DEF AllStale, SweepFails
    <2> QED
      BY <2>3, <2>4 DEF TypeOK
  <1>3. CASE DeleteDataset
    <2> DEFINE lost == {s \in Slot : s[1] = Pool}
    <2>1. lost \in SUBSET Slot /\ Forget(lost)
      BY <1>3 DEF DeleteDataset
    <2>2. file' \in [Slot -> File]
      BY <1>3, ValueFacts DEF DeleteDataset, TypeOK
    <2>3. sweep' \in Sweep /\ hashes' \in [Slot -> SUBSET {"iso", "other", "swept"}]
      BY <1>3 DEF DeleteDataset, TypeOK, Sweep
    <2> HIDE DEF lost
    <2> QED
      BY <1>3, <2>1, <2>2, <2>3, ForgetTyped DEF DeleteDataset, TypeOK
  <1>4. CASE CreateDataset
    BY <1>4, CacheAssumption DEF CreateDataset, SweepEnds, TypeOK, Sweep
  <1> QED
    BY <1>1, <1>2, <1>3, <1>4 DEF cleanupISOs

LEMMA EnvironmentTyped ==
    ASSUME TypeOK, Environment
    PROVE  TypeOK'
  <1> USE CacheAssumption, ValueFacts
  <1>1. CASE Restart
    BY <1>1 DEF Restart, Fault, TypeOK, Places
  <1>2. ASSUME NEW s \in Exposed, Drift(s) PROVE TypeOK'
    <2>1. s \in Slot /\ file' \in [Slot -> File]
      BY <1>2, WriteFacts DEF Drift
    <2> QED
      BY <1>2, <2>1 DEF Drift, Fault, TypeOK
  <1>3. ASSUME NEW s \in Exposed, RemoveFile(s) PROVE TypeOK'
    BY <1>3 DEF RemoveFile, Fault, TypeOK
  <1>4. ASSUME NEW s \in Exposed, ClearRecord(s) PROVE TypeOK'
    <2>1. {s} \in SUBSET Slot /\ Forget({s})
      BY <1>4 DEF ClearRecord
    <2> QED
      BY <1>4, <2>1, ForgetTyped DEF ClearRecord, Fault, TypeOK
  <1> QED
    BY <1>1, <1>2, <1>3, <1>4 DEF Environment

-----------------------------------------------------------------------------
(* The inductive invariant.                                                 *)

(* A step that returns, with whoever shares its result, is over; a flight   *)
(* it led has landed.                                                       *)
LEMMA ReturnKeepsFlights ==
    ASSUME TypeOK, Flights, NEW m \in Machine, NEW next, Return(m, next)
    PROVE  Flights'
  <1> SUFFICES ASSUME NEW n \in Machine
               PROVE  /\ step'[n] = "uploadISO" /\ pc'[n] \notin {"idle", "joined"}
                            => flight'[Boots[n]] = n
                      /\ pc'[n] \in Downloading \cup {"joined"}
                            => step'[n] = "uploadISO"
                      /\ pc'[n] # "idle" => step'[n] \in {"uploadISO", "createVM"}
                      /\ pc'[n] \in {"idle", "joined", "stat"} \cup Downloading
                            => seen'[n] = NoStat \/ pc'[n] = "recordHash"
                      /\ seen'[n] # NoStat => seen'[n].mtime \in Mtime
                      /\ pc'[n] \in {"props", "recordSize", "recordMtime"}
                            => seen'[n] # NoStat
                      /\ pc'[n] \in {"statUploaded", "recordHash"}
                            => got'[n] # "none"
    BY DEF Flights
  <1>1. CASE n \in Passengers(m)
    <2>1. pc'[n] = "idle"
      BY <1>1 DEF Return
    <2>2. seen'[n] = NoStat
      BY <1>1 DEF Return, Passengers, Flights, TypeOK, Downloading
    <2> QED
      BY <2>1, <2>2 DEF Downloading
  <1>2. CASE n \notin Passengers(m)
    <2>1. n # m
      BY <1>2 DEF Passengers
    <2>2. /\ pc'[n] = pc[n] /\ step'[n] = step[n]
          /\ seen'[n] = seen[n] /\ got'[n] = got[n]
      BY <1>2, <2>1 DEF Return, TypeOK
    <2>3. flight[Boots[n]] = n => flight'[Boots[n]] = n
      BY <2>1, SlotFacts DEF Return
    <2> QED
      BY <2>2, <2>3 DEF Flights
  <1> QED
    BY <1>1, <1>2

LEMMA FailsKeepsFlights ==
    ASSUME TypeOK, Flights, NEW m \in Machine, Fails(m)
    PROVE  Flights'
  <1> DEFINE next == IF step[m] = "createVM" THEN "adopted" ELSE step[m]
  <1>1. Return(m, next)
    BY DEF Fails
  <1> HIDE DEF next
  <1> QED
    BY <1>1, ReturnKeepsFlights

(* Who is not called back keeps the place, and no step returns to a place   *)
(* where something is recorded.                                             *)
LEMMA ReturnPlaces ==
    ASSUME TypeOK, NEW m \in Machine, NEW next, Return(m, next)
    PROVE  \A n \in Machine :
              /\ pc'[n] \in {"idle", pc[n]}
              /\ pc'[n] # "idle" => n # m
              /\ n # m => /\ seen'[n] = seen[n] /\ expected'[n] = expected[n]
                          /\ got'[n] = got[n]
              /\ seen'[m] = NoStat
  BY DEF Return, Passengers, TypeOK

LEMMA FailsPlaces ==
    ASSUME TypeOK, NEW m \in Machine, Fails(m)
    PROVE  \A n \in Machine :
              /\ pc'[n] \in {"idle", pc[n]}
              /\ pc'[n] # "idle" => n # m
              /\ n # m => /\ seen'[n] = seen[n] /\ expected'[n] = expected[n]
                          /\ got'[n] = got[n]
              /\ seen'[m] = NoStat
  <1> DEFINE next == IF step[m] = "createVM" THEN "adopted" ELSE step[m]
  <1>1. Return(m, next)
    BY DEF Fails
  <1> HIDE DEF next
  <1> QED
    BY <1>1, ReturnPlaces

LEMMA SetPropertyFacts ==
    ASSUME TypeOK, NEW m \in Machine, NEW p, SetProperty(m, p)
    PROVE  \A s \in Slot : props'[s] = IF s = SlotOf(m) THEN p ELSE props[s]
  BY SlotFacts DEF SetProperty, TypeOK

(* What is forgotten with a record: only that a file differed from it.      *)
LEMMA ForgetFacts ==
    ASSUME TypeOK, Flights, NEW lost, Forget(lost)
    PROVE  /\ \A s \in Slot :
                 /\ s \in lost => props'[s] = NoProps
                 /\ s \notin lost => props'[s] = props[s]
           /\ \A m \in Machine :
                 /\ seen'[m].mtime = seen[m].mtime
                 /\ seen'[m] = NoStat <=> seen[m] = NoStat
                 /\ SlotOf(m) \in lost => seen'[m].tainted = FALSE
                 /\ SlotOf(m) \notin lost => seen'[m] = seen[m]
           /\ tainted' = tainted \ lost
  <1>1. ASSUME NEW m \in Machine
        PROVE  /\ seen'[m].mtime = seen[m].mtime
               /\ SlotOf(m) \in lost => seen'[m].tainted = FALSE
               /\ SlotOf(m) \notin lost => seen'[m] = seen[m]
               /\ seen[m] = NoStat => seen'[m] = NoStat
    <2>1. seen'[m] = IF SlotOf(m) \in lost
                     THEN [size |-> seen[m].size, mtime |-> seen[m].mtime,
                           tainted |-> FALSE]
                     ELSE seen[m]
      BY DEF Forget
    <2>2. CASE SlotOf(m) \in lost
      <3>1. /\ seen'[m].mtime = seen[m].mtime /\ seen'[m].tainted = FALSE
            /\ seen'[m] = [size |-> seen[m].size, mtime |-> seen[m].mtime,
                           tainted |-> FALSE]
        BY <2>1, <2>2
      <3>2. ASSUME seen[m] = NoStat PROVE seen'[m] = NoStat
        <4>1. seen[m].size = 0 /\ seen[m].mtime = 0
          BY <3>2 DEF NoStat
        <4> QED
          BY <3>1, <4>1 DEF NoStat
      <3> QED
        BY <2>2, <3>1, <3>2
    <2>3. CASE SlotOf(m) \notin lost
      BY <2>1, <2>3
    <2> QED
      BY <2>2, <2>3
  <1>2. ASSUME NEW m \in Machine, seen'[m] = NoStat PROVE seen[m] = NoStat
    <2>1. seen[m].mtime = 0
      <3>1. seen'[m].mtime = seen[m].mtime
        BY <1>1
      <3> QED
        BY <1>2, <3>1 DEF NoStat
    <2> QED
      BY <2>1, CacheAssumption DEF Flights
  <1>3. \A s \in Slot :
           /\ s \in lost => props'[s] = NoProps
           /\ s \notin lost => props'[s] = props[s]
    BY SlotFacts DEF Forget
  <1> QED
    <2>1. tainted' = tainted \ lost
      BY DEF Forget
    <2> QED
      BY <1>1, <1>2, <1>3, <2>1

(* A step of a machine adds a file of a tracked image, if any: an upload is *)
(* begun by a machine of this process, and images stay in activeImageIDs.   *)
LEMMA ProvisionKeepsSweeping ==
    ASSUME TypeOK, CacheInv, NEW m \in Machine, Provision(m)
    PROVE  Sweeping'
  <1>1. sweep' = sweep /\ tracked \subseteq tracked'
    BY DEF Provision, UploadISO, TrackImageID, reverifyISOBeforeAttach,
       StatFile, verifyCachedISO, setIfPoisonable, EnsureDataset, ReadHash,
       StartUpload, EndUpload, UploadFails, StatUploaded, RecordHash,
       RecordSize, RecordMtime, AddCDROM, CallFails
  <1>2. ASSUME NEW n \in Machine, step'[n] = "uploadISO", pc'[n] # "idle"
        PROVE  Boots[n] \in tracked'
    <2>1. CASE UploadISO(m)
      BY <1>1, <1>2, <2>1 DEF UploadISO, TrackImageID, CacheInv, Sweeping,
                              TypeOK
    <2>2. CASE pc'[n] \in {"idle", pc[n]} /\ step'[n] = step[n]
      BY <1>1, <1>2, <2>2 DEF CacheInv, Sweeping
    <2>3. CASE pc[n] # "idle" /\ step'[n] = step[n]
      BY <1>1, <1>2, <2>3 DEF CacheInv, Sweeping
    <2>4. ASSUME NEW next, Return(m, next)
          PROVE  pc'[n] = pc[n] /\ step'[n] = step[n]
      BY <1>2, <2>4 DEF Return
    <2>5. ASSUME NEW place, Goto(m, place)
          PROVE  /\ step'[n] = step[n]
                 /\ n # m => pc'[n] = pc[n]
      BY <2>5 DEF Goto, TypeOK
    <2>6. CASE reverifyISOBeforeAttach(m)
      BY <1>2, <2>2, <2>5, <2>6 DEF reverifyISOBeforeAttach
    <2>7. CASE ~UploadISO(m) /\ ~reverifyISOBeforeAttach(m)
      <3>1. pc[m] # "idle"
        BY <2>7 DEF Provision, StatFile, verifyCachedISO, setIfPoisonable,
           EnsureDataset, ReadHash, StartUpload, EndUpload, UploadFails,
           StatUploaded, RecordHash, RecordSize, RecordMtime, AddCDROM,
           CallFails
      <3>2. \/ \E place : Goto(m, place)
            \/ \E next : Return(m, next)
        BY <2>7 DEF Provision, StatFile, verifyCachedISO, setIfPoisonable,
           EnsureDataset, ReadHash, StartUpload, EndUpload, UploadFails,
           StatUploaded, RecordHash, RecordSize, RecordMtime, AddCDROM,
           CallFails, Fails, Accepts
      <3> QED
        BY <2>2, <2>3, <2>4, <2>5, <3>1, <3>2
    <2> QED
      BY <2>1, <2>6, <2>7
  <1>3. ASSUME NEW s \in Slot, file'[s] # NoFile
        PROVE  file[s] # NoFile \/ (s = SlotOf(m) /\ Boots[m] \in tracked)
    <2>1. CASE StartUpload(m) \/ EndUpload(m) \/ UploadFails(m)
      <3>1. Boots[m] \in tracked
        BY <2>1 DEF StartUpload, EndUpload, UploadFails, CacheInv, Flights,
                    Downloading, Sweeping
      <3>2. \/ UNCHANGED file
            \/ \E size \in {Short, Whole} : Write(SlotOf(m), size)
        BY <2>1 DEF StartUpload, EndUpload, UploadFails, Complete
      <3>3. s # SlotOf(m) => file'[s] = file[s]
        BY <3>2, WriteFacts, SlotFacts DEF TypeOK
      <3> QED
        BY <1>3, <3>1, <3>3
    <2>2. CASE UNCHANGED file
      BY <1>3, <2>2
    <2> QED
      BY <2>1, <2>2 DEF Provision, UploadISO, reverifyISOBeforeAttach,
         StatFile, verifyCachedISO, setIfPoisonable, EnsureDataset, ReadHash,
         StatUploaded, RecordHash, RecordSize, RecordMtime, AddCDROM,
         CallFails
  <1>4. ASSUME sweep.wiped, NEW i \in Image, file'[<<Pool, i>>] # NoFile
        PROVE  i \in tracked'
    <2>1. <<Pool, i>> \in Slot
      BY CacheAssumption DEF Slot
    <2>2. <<Pool, i>> = SlotOf(m) => i = Boots[m]
      BY DEF SlotOf
    <2>3. file[<<Pool, i>>] # NoFile => i \in tracked
      BY <1>4 DEF CacheInv, Sweeping
    <2> QED
      BY <1>1, <1>3, <1>4, <2>1, <2>2, <2>3
  <1> QED
    BY <1>1, <1>2, <1>4 DEF CacheInv, Sweeping

LEMMA SweepingKept ==
    ASSUME TypeOK, TypeOK', CacheInv, Next
    PROVE  Sweeping'
  <1>1. ASSUME NEW m \in Machine, Provision(m) PROVE Sweeping'
    BY <1>1, ProvisionKeepsSweeping
  <1>2. CASE ListFiles
    BY <1>2 DEF ListFiles, CacheInv, Sweeping, TypeOK, Sweep
  <1>3. CASE AllStale
    <2>1. /\ UNCHANGED <<file, step, pc, tracked>>
          /\ sweep'.wiped = sweep.wiped
          /\ sweep'.pc \in {"delete", "idle"}
      <3>1. UNCHANGED <<file, step, pc, tracked>>
        BY <1>3 DEF AllStale, cache
      <3>2. \/ sweep' = [sweep EXCEPT !.pc = "delete"]
            \/ sweep' = [sweep EXCEPT !.pc = "idle", !.listed = {}]
        BY <1>3 DEF AllStale, SweepEnds
      <3>3. sweep \in Sweep
        BY DEF TypeOK
      <3> QED
        BY <3>1, <3>2, <3>3, SweepWrites
    <2>2. sweep'.wiped => sweep'.pc # "delete"
      <3>1. sweep'.pc = "delete" =>
               sweep.listed # {} /\ sweep.listed \cap tracked = {}
        <4>1. CASE sweep.listed # {} /\ sweep.listed \cap tracked = {}
          BY <4>1
        <4>2. CASE ~(sweep.listed # {} /\ sweep.listed \cap tracked = {})
          <5>1. sweep' = [sweep EXCEPT !.pc = "idle", !.listed = {}]
            BY <1>3, <4>2 DEF AllStale, SweepEnds
          <5>2. sweep \in Sweep
            BY DEF TypeOK
          <5> QED
            BY <5>1, <5>2, SweepWrites
        <4> QED
          BY <4>1, <4>2
      <3>2. sweep.wiped => sweep.listed \subseteq tracked
        BY <1>3 DEF AllStale, CacheInv, Sweeping
      <3> QED
        BY <2>1, <3>1, <3>2
    <2> QED
      BY <2>1, <2>2 DEF CacheInv, Sweeping
  <1>4. CASE DeleteDataset
    <2>1. \A i \in Image : file'[<<Pool, i>>] = NoFile
      BY <1>4, CacheAssumption DEF DeleteDataset, Slot
    <2> QED
      BY <1>4, <2>1 DEF DeleteDataset, CacheInv, Sweeping, TypeOK, Sweep
  <1>5. CASE CreateDataset \/ SweepFails
    <2>1. /\ UNCHANGED <<file, step, pc, tracked>>
          /\ sweep'.wiped = sweep.wiped
          /\ sweep'.pc = "idle"
      <3>1. UNCHANGED <<file, step, pc, tracked>>
        BY <1>5 DEF CreateDataset, SweepFails
      <3>2. sweep' = [sweep EXCEPT !.pc = "idle", !.listed = {}]
        BY <1>5 DEF CreateDataset, SweepFails, SweepEnds
      <3>3. sweep \in Sweep
        BY DEF TypeOK
      <3> QED
        BY <3>1, <3>2, <3>3, SweepWrites
    <2> QED
      BY <2>1 DEF CacheInv, Sweeping
  <1>6. CASE Restart
    BY <1>6 DEF Restart, Sweeping, NoSweep
  <1>7. ASSUME NEW s \in Exposed, Drift(s) \/ RemoveFile(s) \/ ClearRecord(s)
        PROVE  Sweeping'
    <2>1. \A t \in Slot : file'[t] # NoFile => file[t] # NoFile
      BY <1>7, WriteFacts, CacheAssumption
         DEF Drift, RemoveFile, ClearRecord, TypeOK
    <2>2. UNCHANGED <<step, pc, tracked, sweep>>
      BY <1>7 DEF Drift, RemoveFile, ClearRecord
    <2>3. \A i \in Image : <<Pool, i>> \in Slot
      BY CacheAssumption DEF Slot
    <2> QED
      BY <2>1, <2>2, <2>3 DEF CacheInv, Sweeping
  <1> QED
    BY <1>1, <1>2, <1>3, <1>4, <1>5, <1>6, <1>7 DEF Next, cleanupISOs,
       Environment

(* One machine leads the flight of an image.                                *)
LEMMA FlightsKept ==
    ASSUME TypeOK, TypeOK', CacheInv, Next
    PROVE  Flights'
  <1>1. ASSUME NEW m \in Machine, Provision(m) PROVE Flights'
    <2>1. CASE UploadISO(m)
      BY <2>1, SlotFacts, CacheAssumption DEF UploadISO, TrackImageID,
         CacheInv, Flights, Downloading, NoStat, TypeOK
    <2>2. CASE reverifyISOBeforeAttach(m)
      BY <2>2, SlotFacts, CacheAssumption DEF reverifyISOBeforeAttach, Goto,
         CacheInv, Flights, Downloading, NoStat, TypeOK
    <2>3. CASE StatFile(m)
      <3>1. CASE Fails(m)
        BY <3>1, FailsKeepsFlights DEF CacheInv
      <3>2. CASE file[SlotOf(m)] # NoFile
        <4>1. file[SlotOf(m)].mtime \in Mtime
          BY <3>2, SlotFacts DEF CacheInv, Drifted
        <4>2. seen'[m].mtime \in Mtime /\ seen'[m] # NoStat
          BY <2>3, <3>2, <4>1, CacheAssumption DEF StatFile, TypeOK, NoStat
        <4>3. \A n \in Machine : n # m => seen'[n] = seen[n] /\ pc'[n] = pc[n]
          BY <2>3, <3>2 DEF StatFile, Goto, TypeOK
        <4>4. pc'[m] = "props" /\ UNCHANGED <<step, flight, got>>
          BY <2>3, <3>2 DEF StatFile, Goto, TypeOK
        <4> QED
          BY <2>3, <4>2, <4>3, <4>4 DEF StatFile, CacheInv, Flights, Downloading
      <3>3. CASE file[SlotOf(m)] = NoFile /\ Goto(m, "ensure") /\ UNCHANGED locals
                 /\ step[m] = "uploadISO"
        BY <2>3, <3>3 DEF StatFile, Goto, CacheInv, Flights, Downloading, TypeOK
      <3> QED
        BY <2>3, <3>1, <3>2, <3>3 DEF StatFile
    <2>4. CASE verifyCachedISO(m)
      <3>1. CASE Fails(m)
        BY <3>1, FailsKeepsFlights DEF CacheInv
      <3>2. CASE Return(m, "createVM")
        BY <3>2, ReturnKeepsFlights DEF CacheInv
      <3>3. CASE /\ \/ Goto(m, "attach") \/ Goto(m, "recordSize")
                    \/ Goto(m, "poison")
                 /\ UNCHANGED locals
        BY <2>4, <3>3 DEF verifyCachedISO, Goto, CacheInv, Flights, Downloading,
                 TypeOK
      <3> QED
        BY <2>4, <3>1, <3>2, <3>3 DEF verifyCachedISO, Accepts
    <2>5. CASE setIfPoisonable(m)
      BY <2>5, FailsKeepsFlights DEF setIfPoisonable, CacheInv
    <2>6. CASE EnsureDataset(m)
      BY <2>6, SlotFacts, CacheAssumption DEF EnsureDataset, Goto, CacheInv,
         Flights, Downloading, NoStat, TypeOK
    <2>7. CASE ReadHash(m)
      <3>1. CASE Fails(m)
        BY <3>1, FailsKeepsFlights DEF CacheInv
      <3>2. CASE Goto(m, "download") /\ UNCHANGED <<seen, got>>
        BY <2>7, <3>2 DEF ReadHash, Goto, CacheInv, Flights, Downloading, TypeOK
      <3> QED
        BY <2>7, <3>1, <3>2 DEF ReadHash
    <2>8. CASE StartUpload(m)
      BY <2>8, SlotFacts, CacheAssumption DEF StartUpload, Goto, CacheInv,
         Flights, Downloading, NoStat, TypeOK
    <2>9. CASE EndUpload(m)
      BY <2>9, SlotFacts, CacheAssumption DEF EndUpload, Goto, CacheInv,
         Flights, Downloading, NoStat, TypeOK
    <2>10. CASE UploadFails(m)
      BY <2>10, FailsKeepsFlights DEF UploadFails, CacheInv
    <2>11. CASE StatUploaded(m)
      <3>1. seen'[m] # NoStat => seen'[m].mtime \in Mtime
        BY <2>11, SlotFacts DEF StatUploaded, CacheInv, Flights, Drifted, TypeOK
      <3>2. /\ \A n \in Machine : n # m => seen'[n] = seen[n] /\ pc'[n] = pc[n]
            /\ pc'[m] = "recordHash" /\ UNCHANGED <<step, flight, got>>
        BY <2>11 DEF StatUploaded, Goto, TypeOK
      <3> QED
        BY <2>11, <3>1, <3>2 DEF StatUploaded, CacheInv, Flights, Downloading
    <2>12. CASE RecordHash(m)
      BY <2>12, SlotFacts, CacheAssumption DEF RecordHash, SetProperty, Goto,
         Return, Passengers, CacheInv, Flights, Downloading, NoStat, TypeOK
    <2>13. CASE RecordSize(m)
      BY <2>13, SlotFacts, CacheAssumption DEF RecordSize, SetProperty, Goto,
         CacheInv, Flights, Downloading, NoStat, TypeOK
    <2>14. CASE RecordMtime(m)
      BY <2>14, SlotFacts, CacheAssumption DEF RecordMtime, SetProperty,
         Accepts, Goto, Return, Passengers, CacheInv, Flights, Downloading,
         NoStat, TypeOK
    <2>15. CASE AddCDROM(m)
      BY <2>15, ReturnKeepsFlights DEF AddCDROM, CacheInv
    <2>16. CASE CallFails(m)
      BY <2>16, FailsKeepsFlights DEF CallFails, CacheInv
    <2> QED
      BY <1>1, <2>1, <2>2, <2>3, <2>4, <2>5, <2>6, <2>7, <2>8, <2>9, <2>10,
         <2>11, <2>12, <2>13, <2>14, <2>15, <2>16 DEF Provision
  <1>2. CASE ListFiles
    BY <1>2, SlotFacts, CacheAssumption DEF ListFiles, CacheInv, Flights,
       Downloading, NoStat, TypeOK
  <1>3. CASE AllStale
    BY <1>3, SlotFacts, CacheAssumption DEF AllStale, CacheInv, Flights,
       Downloading, NoStat, TypeOK
  <1>4. CASE DeleteDataset
    BY <1>4, ForgetFacts DEF DeleteDataset, CacheInv, Flights
  <1>5. CASE CreateDataset
    BY <1>5, SlotFacts, CacheAssumption DEF CreateDataset, CacheInv, Flights,
       Downloading, NoStat, TypeOK
  <1>6. CASE SweepFails
    BY <1>6, SlotFacts, CacheAssumption DEF SweepFails, CacheInv, Flights,
       Downloading, NoStat, TypeOK
  <1>7. CASE Restart
    BY <1>7, SlotFacts, CacheAssumption DEF Restart, Fault, CacheInv, Flights,
       Downloading, NoStat, TypeOK
  <1>8. ASSUME NEW s \in Exposed, Drift(s) PROVE Flights'
    BY <1>8, SlotFacts, CacheAssumption DEF Drift, Fault, CacheInv, Flights,
       Downloading, NoStat, TypeOK
  <1>9. ASSUME NEW s \in Exposed, RemoveFile(s) PROVE Flights'
    BY <1>9, SlotFacts, CacheAssumption DEF RemoveFile, Fault, CacheInv,
       Flights, Downloading, NoStat, TypeOK
  <1>10. ASSUME NEW s \in Exposed, ClearRecord(s) PROVE Flights'
    BY <1>10, ForgetFacts DEF ClearRecord, CacheInv, Flights
  <1> QED
    BY <1>1, <1>2, <1>3, <1>4, <1>5, <1>6, <1>7, <1>8, <1>9, <1>10 DEF Next,
       cleanupISOs, Environment

(* Nobody else records a hash between the leader's read and its write.     *)
LEMMA FirstHashKept ==
    ASSUME TypeOK, TypeOK', CacheInv, Next
    PROVE  FirstHash'
  <1>1. ASSUME NEW m \in Machine, Provision(m) PROVE FirstHash'
    <2>1. CASE UploadISO(m)
      BY <2>1, SlotFacts, CacheAssumption DEF UploadISO, TrackImageID,
         CacheInv, Flights, FirstHash, Downloading, TypeOK
    <2>2. CASE reverifyISOBeforeAttach(m)
      BY <2>2, SlotFacts, CacheAssumption DEF reverifyISOBeforeAttach, Goto,
         CacheInv, Flights, FirstHash, Downloading, TypeOK
    <2>3. CASE StatFile(m)
      BY <2>3, SlotFacts, CacheAssumption DEF StatFile, Goto, Fails, Return,
         Passengers, CacheInv, Flights, FirstHash, Downloading, TypeOK
    <2>4. CASE verifyCachedISO(m)
      BY <2>4, SlotFacts, CacheAssumption,
         SMTT(30) DEF verifyCachedISO, Goto, Fails,
         Accepts, Return, Passengers, CacheInv, Flights, FirstHash,
         Downloading, TypeOK
    <2>5. CASE setIfPoisonable(m)
      <3>1. \A s \in Slot : props'[s].hash \in {"poisoned", props[s].hash}
        <4>1. CASE UNCHANGED props
          BY <4>1
        <4>2. CASE SetProperty(m, [props[SlotOf(m)] EXCEPT !.hash = "poisoned"])
          <5>1. props[SlotOf(m)] \in Props
            BY SlotFacts DEF TypeOK
          <5>2. props'[SlotOf(m)].hash = "poisoned"
            BY <4>2, <5>1, SetPropertyFacts, SlotFacts DEF Props
          <5> QED
            BY <4>2, <5>2, SetPropertyFacts
        <4> QED
          BY <2>5, <4>1, <4>2 DEF setIfPoisonable
      <3>2. UNCHANGED hashes
        BY <2>5 DEF setIfPoisonable
      <3>3. \A n \in Machine :
               /\ pc'[n] \in {"idle", pc[n]}
               /\ pc'[n] # "idle" => /\ expected'[n] = expected[n]
                                     /\ got'[n] = got[n]
        BY <2>5, FailsPlaces DEF setIfPoisonable
      <3> QED
        BY <3>1, <3>2, <3>3, SlotFacts DEF CacheInv, FirstHash
    <2>6. CASE EnsureDataset(m)
      BY <2>6, SlotFacts, CacheAssumption DEF EnsureDataset, Goto, CacheInv,
         Flights, FirstHash, Downloading, TypeOK
    <2>7. CASE ReadHash(m)
      BY <2>7, SlotFacts, CacheAssumption DEF ReadHash,
         GetDatasetUserProperties, Goto, Fails, Return, Passengers, CacheInv,
         Flights, FirstHash, Downloading, TypeOK
    <2>8. CASE StartUpload(m)
      BY <2>8, SlotFacts, CacheAssumption DEF StartUpload, Goto, CacheInv,
         Flights, FirstHash, Downloading, TypeOK
    <2>9. CASE EndUpload(m)
      <3>1. PICK hash \in {"iso", "other"} :
               IF classifyTOFU(expected[m], hash) # "mismatch"
               THEN /\ got' = [got EXCEPT ![m] = hash]
                    /\ Goto(m, "statUploaded")
               ELSE /\ Goto(m, "poison")
                    /\ UNCHANGED got
        BY <2>9 DEF EndUpload
      <3>2. CASE classifyTOFU(expected[m], hash) # "mismatch"
        <4>1. expected[m] \in {"none", hash}
          BY <3>2 DEF classifyTOFU
        <4> QED
          BY <2>9, <3>1, <3>2, <4>1, SlotFacts
             DEF EndUpload, Goto, CacheInv, FirstHash, TypeOK
      <3>3. CASE classifyTOFU(expected[m], hash) = "mismatch"
        BY <2>9, <3>1, <3>3, SlotFacts
           DEF EndUpload, Goto, CacheInv, FirstHash, TypeOK
      <3> QED
        BY <3>2, <3>3
    <2>10. CASE UploadFails(m)
      BY <2>10, SlotFacts, CacheAssumption DEF UploadFails, Fails, Return,
         Passengers, CacheInv, Flights, FirstHash, Downloading, TypeOK
    <2>11. CASE StatUploaded(m)
      BY <2>11, SlotFacts, CacheAssumption DEF StatUploaded, Goto, CacheInv,
         Flights, FirstHash, Downloading, TypeOK
    <2>12. CASE RecordHash(m)
      <3> DEFINE s == SlotOf(m)
      <3>1. /\ got[m] \in {"iso", "other"}
            /\ "swept" \notin hashes[s] => hashes[s] \subseteq {got[m]}
            /\ expected[m] \in {"none", got[m]} /\ s \in Slot
        BY <2>12, SlotFacts DEF RecordHash, CacheInv, Flights, FirstHash, TypeOK
      <3>2. \A n \in Machine : n # m /\ pc[n] \in Downloading => SlotOf(n) # s
        BY <2>12, CacheAssumption, SlotFacts
           DEF RecordHash, CacheInv, Flights, Downloading, SlotOf
      <3>3. \A n \in Machine :
               /\ pc'[n] \in {"idle", "recordSize", pc[n]}
               /\ pc'[n] \in Downloading => n # m
               /\ n # m => expected'[n] = expected[n] /\ got'[n] = got[n]
        <4>1. CASE Return(m, "createVM")
          BY <4>1, ReturnPlaces DEF Downloading
        <4>2. CASE Goto(m, "recordSize") /\ UNCHANGED locals
          BY <4>2 DEF Goto, TypeOK, Downloading
        <4> QED
          BY <2>12, <4>1, <4>2 DEF RecordHash
      <3>4. CASE UNCHANGED <<props, hashes>>
        BY <3>3, <3>4, SlotFacts DEF CacheInv, FirstHash, Downloading
      <3>5. CASE /\ SetProperty(m, [props[s] EXCEPT !.hash = got[m]])
                 /\ hashes' = [hashes EXCEPT ![s] = hashes[s] \cup {got[m]}]
        <4>1. /\ props'[s].hash = got[m]
              /\ "swept" \notin hashes'[s] => hashes'[s] = {got[m]}
          <5>1. props[s] \in Props
            BY <3>1 DEF TypeOK
          <5>2. props'[s] = [props[s] EXCEPT !.hash = got[m]]
            BY <3>1, <3>5, SetPropertyFacts
          <5>3. hashes'[s] = hashes[s] \cup {got[m]}
            BY <3>1, <3>5 DEF TypeOK
          <5> QED
            BY <3>1, <5>1, <5>2, <5>3 DEF Props
        <4>2. \A t \in Slot : t # s => props'[t] = props[t] /\ hashes'[t] = hashes[t]
          BY <3>5, SetPropertyFacts DEF TypeOK
        <4>3. \A n \in Machine : pc'[n] \in Downloading =>
                 hashes'[SlotOf(n)] = hashes[SlotOf(n)] /\ pc'[n] = pc[n]
          BY <3>2, <3>3, <4>2, SlotFacts DEF Downloading
        <4> HIDE DEF s
        <4> QED
          BY <3>1, <3>3, <4>1, <4>2, <4>3, SlotFacts
             DEF CacheInv, FirstHash, Downloading
      <3>6. \/ UNCHANGED <<props, hashes>>
            \/ /\ SetProperty(m, [props[s] EXCEPT !.hash = got[m]])
               /\ hashes' = [hashes EXCEPT ![s] = hashes[s] \cup {got[m]}]
        BY <2>12 DEF RecordHash
      <3> QED
        BY <3>4, <3>5, <3>6
    <2>13. CASE RecordSize(m)
      <3>1. \A s \in Slot : props'[s].hash = props[s].hash
        <4>1. CASE UNCHANGED props
          BY <4>1
        <4>2. CASE SetProperty(m, [props[SlotOf(m)] EXCEPT !.size = seen[m].size])
          <5>1. props[SlotOf(m)] \in Props
            BY SlotFacts DEF TypeOK
          <5>2. props'[SlotOf(m)].hash = props[SlotOf(m)].hash
            BY <4>2, <5>1, SetPropertyFacts, SlotFacts DEF Props
          <5> QED
            BY <4>2, <5>2, SetPropertyFacts
        <4> QED
          BY <2>13, <4>1, <4>2 DEF RecordSize
      <3> QED
        <4>1. /\ UNCHANGED <<hashes, expected, got>>
              /\ \A n \in Machine : pc'[n] \in {"recordMtime", pc[n]}
          BY <2>13 DEF RecordSize, Goto, TypeOK
        <4> QED
          BY <3>1, <4>1, SlotFacts DEF CacheInv, FirstHash
    <2>14. CASE RecordMtime(m)
      <3>1. \A s \in Slot : props'[s].hash = props[s].hash
        <4>1. CASE UNCHANGED props
          BY <4>1
        <4>2. CASE SetProperty(m, [props[SlotOf(m)] EXCEPT !.mtime = seen[m].mtime])
          <5>1. props[SlotOf(m)] \in Props
            BY SlotFacts DEF TypeOK
          <5>2. props'[SlotOf(m)].hash = props[SlotOf(m)].hash
            BY <4>2, <5>1, SetPropertyFacts, SlotFacts DEF Props
          <5> QED
            BY <4>2, <5>2, SetPropertyFacts
        <4> QED
          BY <2>14, <4>1, <4>2 DEF RecordMtime
      <3> QED
        <4>1. CASE Return(m, "createVM")
          BY <2>14, <3>1, <4>1, ReturnPlaces, SlotFacts
             DEF RecordMtime, CacheInv, FirstHash
        <4>2. CASE Goto(m, "attach") /\ UNCHANGED locals
          <5>1. /\ UNCHANGED <<hashes, expected, got>>
                /\ \A n \in Machine : pc'[n] \in {"attach", pc[n]}
            BY <2>14, <4>2 DEF RecordMtime, Goto, TypeOK
          <5> QED
            BY <3>1, <5>1, SlotFacts DEF CacheInv, FirstHash
        <4> QED
          BY <2>14, <4>1, <4>2 DEF RecordMtime, Accepts
    <2>15. CASE AddCDROM(m)
      BY <2>15, SlotFacts, CacheAssumption DEF AddCDROM, Return, Passengers,
         CacheInv, Flights, FirstHash, Downloading, TypeOK
    <2>16. CASE CallFails(m)
      BY <2>16, SlotFacts, CacheAssumption DEF CallFails, Fails, Return,
         Passengers, CacheInv, Flights, FirstHash, Downloading, TypeOK
    <2> QED
      BY <1>1, <2>1, <2>2, <2>3, <2>4, <2>5, <2>6, <2>7, <2>8, <2>9, <2>10,
         <2>11, <2>12, <2>13, <2>14, <2>15, <2>16 DEF Provision
  <1>2. CASE ListFiles
    BY <1>2, SlotFacts, CacheAssumption DEF ListFiles, CacheInv, Flights,
       FirstHash, Downloading, TypeOK
  <1>3. CASE AllStale
    BY <1>3, SlotFacts, CacheAssumption DEF AllStale, CacheInv, Flights,
       FirstHash, Downloading, TypeOK
  <1>4. CASE DeleteDataset
    <2>1. UNCHANGED <<pc, expected, got>>
      BY <1>4 DEF DeleteDataset
    <2>2. ASSUME NEW t \in Slot, "swept" \notin hashes'[t]
          PROVE  hashes'[t] = hashes[t] /\ props'[t] = props[t]
      <3>1. hashes'[t] = IF t[1] = Pool /\ props[t] # NoProps
                         THEN hashes[t] \cup {"swept"} ELSE hashes[t]
        BY <1>4 DEF DeleteDataset
      <3>2. props'[t] = IF t[1] = Pool THEN NoProps ELSE props[t]
        BY <1>4 DEF DeleteDataset, Forget
      <3> QED
        BY <2>2, <3>1, <3>2
    <2> QED
      BY <2>1, <2>2, SlotFacts DEF CacheInv, FirstHash
  <1>5. CASE CreateDataset
    BY <1>5, SlotFacts, CacheAssumption DEF CreateDataset, CacheInv, Flights,
       FirstHash, Downloading, TypeOK
  <1>6. CASE SweepFails
    BY <1>6, SlotFacts, CacheAssumption DEF SweepFails, CacheInv, Flights,
       FirstHash, Downloading, TypeOK
  <1>7. CASE Restart
    BY <1>7, SlotFacts, CacheAssumption DEF Restart, Fault, CacheInv, Flights,
       FirstHash, Downloading, TypeOK
  <1>8. ASSUME NEW s \in Exposed, Drift(s) PROVE FirstHash'
    BY <1>8, SlotFacts, CacheAssumption DEF Drift, Fault, CacheInv, Flights,
       FirstHash, Downloading, TypeOK
  <1>9. ASSUME NEW s \in Exposed, RemoveFile(s) PROVE FirstHash'
    BY <1>9, SlotFacts, CacheAssumption DEF RemoveFile, Fault, CacheInv,
       Flights, FirstHash, Downloading, TypeOK
  <1>10. ASSUME NEW s \in Exposed, ClearRecord(s) PROVE FirstHash'
    <2>1. UNCHANGED <<pc, expected, got>>
      BY <1>10 DEF ClearRecord
    <2>2. ASSUME NEW t \in Slot
          PROVE  \/ props'[t] = NoProps /\ hashes'[t] = {}
                 \/ props'[t] = props[t] /\ hashes'[t] = hashes[t]
      <3>1. hashes'[t] = IF t = s THEN {} ELSE hashes[t]
        BY <1>10 DEF ClearRecord, TypeOK
      <3>2. props'[t] = IF t = s THEN NoProps ELSE props[t]
        BY <1>10 DEF ClearRecord, Forget
      <3> QED
        BY <3>1, <3>2
    <2>3. NoProps.hash = "none"
      BY DEF NoProps
    <2> QED
      BY <2>1, <2>2, <2>3, SlotFacts DEF CacheInv, FirstHash
  <1> QED
    BY <1>1, <1>2, <1>3, <1>4, <1>5, <1>6, <1>7, <1>8, <1>9, <1>10 DEF Next,
       cleanupISOs, Environment

(* What most steps do to Drifted: nothing.  No time is recorded, a file     *)
(* that is written gets a time nobody has seen, and nobody begins to        *)
(* record.                                                                  *)
Quiet(n) ==
    \/ pc'[n] \notin Writing \cup {"attach"} /\ seen'[n] \in {seen[n], NoStat}
    \/ pc'[n] = pc[n] /\ seen'[n] = seen[n]
    \/ /\ pc[n] \in {"recordHash", "recordSize"} /\ seen'[n] = seen[n]
       /\ pc'[n] \in {"recordSize", "recordMtime"}
    \/ /\ pc'[n] \in {"upload", "statUploaded"} /\ seen'[n] = seen[n]
       /\ SlotOf(n) \notin tainted'
       /\ \A m \in Machine :
             seen[m].tainted /\ SlotOf(m) = SlotOf(n)
                => file'[SlotOf(n)].mtime # seen[m].mtime

Untimed(s) ==
    /\ props'[s].mtime = props[s].mtime
    /\ props[s].hash # "none" => props'[s].hash # "none"
    /\ \/ file'[s] = file[s]
       \/ /\ s \notin tainted'
          /\ file'[s] # NoFile => file'[s].mtime \in Mtime
          /\ \A m \in Machine :
                seen[m].tainted => file'[s].mtime # seen[m].mtime

LEMMA QuietSteps ==
    ASSUME TypeOK, Drifted, tainted' \subseteq tainted,
           \A s \in Slot : Untimed(s),
           \A n \in Machine : Quiet(n)
    PROVE  Drifted'
  <1> USE SlotFacts
  <1>1. \A n \in Machine : seen'[n].tainted => seen'[n] = seen[n]
    BY DEF Quiet, NoStat
  <1>2. \A s \in Slot : file'[s] # NoFile => file'[s].mtime \in Mtime
    BY DEF Untimed, Drifted
  <1>3. ASSUME NEW s \in tainted'
        PROVE  /\ props'[s].hash # "none"
               /\ props'[s].mtime \notin {0, file'[s].mtime}
               /\ \A n \in Machine : SlotOf(n) = s => pc'[n] \notin Writing
    <2>1. s \in Slot /\ s \in tainted
      BY <1>3 DEF TypeOK
    <2>2. file'[s] = file[s]
      BY <1>3, <2>1 DEF Untimed
    <2>3. \A n \in Machine : SlotOf(n) = s => pc'[n] \notin Writing
      BY <1>3, <2>1 DEF Quiet, Drifted, Writing
    <2> QED
      BY <2>1, <2>2, <2>3 DEF Untimed, Drifted
  <1>4. ASSUME NEW m \in Machine,
               pc'[m] \in {"recordHash", "recordSize", "recordMtime", "attach"}
        PROVE  ~seen'[m].tainted
    BY <1>4 DEF Quiet, Drifted, Writing
  <1>5. ASSUME NEW m \in Machine, seen'[m].tainted
        PROVE  /\ props'[SlotOf(m)].hash # "none"
               /\ props'[SlotOf(m)].mtime \notin {0, seen'[m].mtime}
    BY <1>1, <1>5 DEF Untimed, Drifted
  <1>6. ASSUME NEW m \in Machine, seen'[m].tainted,
               NEW n \in Machine, SlotOf(n) = SlotOf(m)
        PROVE  /\ pc'[n] \in {"recordHash", "recordSize", "recordMtime"}
                     => seen'[n].mtime # seen'[m].mtime
               /\ pc'[n] \in {"upload", "statUploaded"}
                     => file'[SlotOf(n)].mtime # seen'[m].mtime
    <2>1. seen'[m] = seen[m] /\ seen[m].tainted
      BY <1>1, <1>6
    <2>2. /\ pc[n] \in {"recordHash", "recordSize", "recordMtime"}
                => seen[n].mtime # seen[m].mtime
          /\ pc[n] \in {"upload", "statUploaded"}
                => file[SlotOf(n)].mtime # seen[m].mtime
      BY <1>6, <2>1 DEF Drifted
    <2>3. file'[SlotOf(n)] # file[SlotOf(n)]
             => file'[SlotOf(n)].mtime # seen[m].mtime
      BY <2>1 DEF Untimed
    <2> QED
      BY <1>6, <2>1, <2>2, <2>3 DEF Quiet, Writing
  <1> QED
    BY <1>2, <1>3, <1>4, <1>5, <1>6 DEF Drifted

(* Whoever saw a file that differed has seen a time.                        *)
LEMMA TaintedTimed ==
    ASSUME Flights, NEW m \in Machine, seen[m].tainted
    PROVE  seen[m].mtime \in Mtime /\ seen[m].mtime # 0
  BY CacheAssumption DEF Flights, NoStat

LEMMA ReturnQuiet ==
    ASSUME TypeOK, NEW m \in Machine, NEW next, Return(m, next)
    PROVE  \A n \in Machine : Quiet(n)
  BY ReturnPlaces DEF Quiet, Writing

LEMMA FailsQuiet ==
    ASSUME TypeOK, NEW m \in Machine, Fails(m)
    PROVE  \A n \in Machine : Quiet(n)
  BY FailsPlaces DEF Quiet, Writing

(* The rest of the download arrives, or nothing does.                       *)
LEMMA CompleteUntimed ==
    ASSUME TypeOK, CacheInv, NEW m \in Machine, pc[m] = "upload", Complete(m),
           SlotOf(m) \notin tainted, UNCHANGED <<props, tainted>>
    PROVE  /\ \A t \in Slot : Untimed(t)
           /\ \A n \in Machine : seen[n].tainted /\ SlotOf(n) = SlotOf(m)
                 => file'[SlotOf(m)].mtime # seen[n].mtime
  <1>1. CASE Write(SlotOf(m), Whole)
    <2>1. /\ file'[SlotOf(m)].mtime \in Mtime
          /\ \A n \in Machine : file'[SlotOf(m)].mtime # seen[n].mtime
          /\ \A t \in Slot : t # SlotOf(m) => file'[t] = file[t]
      BY <1>1, WriteFacts, SlotFacts DEF TypeOK
    <2> QED
      BY <2>1 DEF Untimed
  <1>2. CASE UNCHANGED file
    BY <1>2 DEF Untimed, CacheInv, Drifted
  <1> QED
    BY <1>1, <1>2 DEF Complete

(* A time that differs from the recorded one stays different.              *)
LEMMA DriftedKept ==
    ASSUME TypeOK, TypeOK', CacheInv, Next
    PROVE  Drifted'
  <1>1. ASSUME NEW m \in Machine, Provision(m) PROVE Drifted'
    <2>1. CASE UploadISO(m)
      <3>1. \A n \in Machine : Quiet(n)
        BY <2>1 DEF UploadISO, Goto, Quiet, Writing, TypeOK
      <3>2. UNCHANGED cache
        BY <2>1 DEF UploadISO
      <3> QED
        BY <3>1, <3>2, QuietSteps DEF CacheInv, Untimed
    <2>2. CASE reverifyISOBeforeAttach(m)
      <3>1. \A n \in Machine : Quiet(n)
        BY <2>2 DEF reverifyISOBeforeAttach, Goto, Quiet, Writing, TypeOK
      <3>2. UNCHANGED cache
        BY <2>2 DEF reverifyISOBeforeAttach
      <3> QED
        BY <3>1, <3>2, QuietSteps DEF CacheInv, Untimed
    <2>3. CASE StatFile(m)
      <3>1. UNCHANGED cache /\ pc[m] = "stat"
        BY <2>3 DEF StatFile
      <3>2. CASE Fails(m)
        BY <3>1, <3>2, FailsQuiet, QuietSteps DEF CacheInv, Untimed
      <3>3. CASE Goto(m, "ensure") /\ UNCHANGED locals
        <4>1. \A n \in Machine : Quiet(n)
          BY <3>3 DEF Goto, Quiet, Writing, TypeOK
        <4> QED
          BY <3>1, <4>1, QuietSteps DEF CacheInv, Untimed
      <3>4. CASE file[SlotOf(m)] # NoFile
        <4>1. /\ seen'[m].mtime = file[SlotOf(m)].mtime
              /\ seen'[m].tainted = (SlotOf(m) \in tainted)
              /\ pc'[m] = "props"
          BY <2>3, <3>4 DEF StatFile, Goto, TypeOK
        <4>2. \A n \in Machine : n # m => pc'[n] = pc[n] /\ seen'[n] = seen[n]
          BY <2>3, <3>4 DEF StatFile, Goto, TypeOK
        <4>3. ASSUME seen'[m].tainted
              PROVE  /\ props[SlotOf(m)].hash # "none"
                     /\ props[SlotOf(m)].mtime \notin {0, seen'[m].mtime}
                     /\ \A n \in Machine :
                           SlotOf(n) = SlotOf(m) => pc'[n] \notin Writing
          BY <4>1, <4>2, <4>3 DEF CacheInv, Drifted, Writing
        <4> QED
          BY <3>1, <4>1, <4>2, <4>3 DEF CacheInv, Drifted, Writing
      <3> QED
        BY <2>3, <3>2, <3>3, <3>4 DEF StatFile
    <2>4. CASE verifyCachedISO(m)
      <3> DEFINE s == SlotOf(m)
      <3>1. UNCHANGED cache /\ pc[m] = "props"
        BY <2>4 DEF verifyCachedISO
      <3>2. CASE Fails(m)
        BY <3>1, <3>2, FailsQuiet, QuietSteps DEF CacheInv, Untimed
      <3>3. CASE Return(m, "createVM")
        BY <3>1, <3>3, ReturnQuiet, QuietSteps DEF CacheInv, Untimed
      <3>4. CASE Goto(m, "poison") /\ UNCHANGED locals
        <4>1. \A n \in Machine : Quiet(n)
          BY <3>4 DEF Goto, Quiet, Writing, TypeOK
        <4> QED
          BY <3>1, <4>1, QuietSteps DEF CacheInv, Untimed
      <3>5. CASE /\ props[s].hash = "none" \/ props[s].mtime = seen[m].mtime
                 /\ Goto(m, "attach") /\ UNCHANGED locals
        <4>1. ~seen[m].tainted
          BY <3>5 DEF CacheInv, Drifted
        <4>2. pc' = [pc EXCEPT ![m] = "attach"] /\ UNCHANGED seen
          BY <3>5 DEF Goto
        <4> HIDE DEF s
        <4> QED
          BY <3>1, <4>1, <4>2 DEF CacheInv, Drifted, Writing, TypeOK
      <3>6. CASE props[s].mtime = 0 /\ Goto(m, "recordSize") /\ UNCHANGED locals
        <4>1. /\ s \notin tainted
              /\ \A n \in Machine : SlotOf(n) = s => ~seen[n].tainted
          BY <3>6 DEF CacheInv, Drifted
        <4>2. pc' = [pc EXCEPT ![m] = "recordSize"] /\ UNCHANGED seen
          BY <3>6 DEF Goto
        <4> QED
          BY <3>1, <4>1, <4>2 DEF CacheInv, Drifted, Writing, TypeOK
      <3> QED
        BY <2>4, <3>2, <3>3, <3>4, <3>5, <3>6
           DEF verifyCachedISO, verifyISOMetadata, GetDatasetUserProperties,
               Accepts
    <2>5. CASE setIfPoisonable(m)
      <3>1. \A t \in Slot : /\ props'[t].hash \in {"poisoned", props[t].hash}
                            /\ props'[t].mtime = props[t].mtime
        <4>1. CASE UNCHANGED props
          BY <4>1
        <4>2. CASE SetProperty(m, [props[SlotOf(m)] EXCEPT !.hash = "poisoned"])
          <5>1. props[SlotOf(m)] \in Props
            BY SlotFacts DEF TypeOK
          <5>2. /\ props'[SlotOf(m)].hash = "poisoned"
                /\ props'[SlotOf(m)].mtime = props[SlotOf(m)].mtime
            BY <4>2, <5>1, SetPropertyFacts, SlotFacts DEF Props
          <5> QED
            BY <4>2, <5>2, SetPropertyFacts
        <4> QED
          BY <2>5, <4>1, <4>2 DEF setIfPoisonable
      <3>2. \A n \in Machine : Quiet(n)
        BY <2>5, FailsQuiet DEF setIfPoisonable
      <3>3. UNCHANGED <<file, tainted>>
        BY <2>5 DEF setIfPoisonable
      <3> QED
        BY <3>1, <3>2, <3>3, QuietSteps DEF CacheInv, Untimed
    <2>6. CASE EnsureDataset(m)
      <3>1. \A n \in Machine : Quiet(n)
        BY <2>6 DEF EnsureDataset, Goto, Quiet, Writing, TypeOK
      <3>2. UNCHANGED <<file, props, tainted>>
        BY <2>6 DEF EnsureDataset
      <3> QED
        BY <3>1, <3>2, QuietSteps DEF CacheInv, Untimed
    <2>7. CASE ReadHash(m)
      <3>1. \A n \in Machine : Quiet(n)
        <4>1. CASE Fails(m)
          BY <4>1, FailsQuiet
        <4>2. CASE Goto(m, "download") /\ UNCHANGED seen
          BY <4>2 DEF Goto, Quiet, Writing, TypeOK
        <4> QED
          BY <2>7, <4>1, <4>2 DEF ReadHash
      <3>2. UNCHANGED cache
        BY <2>7 DEF ReadHash
      <3> QED
        BY <3>1, <3>2, QuietSteps DEF CacheInv, Untimed
    <2>8. CASE StartUpload(m)
      <3>1. Write(SlotOf(m), Short) /\ UNCHANGED <<props, seen>>
            /\ tainted' = tainted \ {SlotOf(m)}
        BY <2>8 DEF StartUpload
      <3>2. /\ file'[SlotOf(m)].mtime \in Mtime
            /\ \A n \in Machine : file'[SlotOf(m)].mtime # seen[n].mtime
            /\ \A t \in Slot : t # SlotOf(m) => file'[t] = file[t]
        BY <3>1, WriteFacts, SlotFacts DEF TypeOK
      <3>3. \A n \in Machine : Quiet(n)
        BY <2>8, <3>1, <3>2 DEF StartUpload, Goto, Quiet, TypeOK
      <3> QED
        BY <3>1, <3>2, <3>3, QuietSteps DEF CacheInv, Untimed
    <2>9. CASE EndUpload(m)
      <3>1. Complete(m) /\ pc[m] = "upload" /\ UNCHANGED <<props, seen, tainted>>
        BY <2>9 DEF EndUpload
      <3>2. \A n \in Machine :
               \/ pc'[n] = pc[n]
               \/ n = m /\ pc'[n] \in {"statUploaded", "poison"}
        BY <2>9 DEF EndUpload, Goto, TypeOK
      <3>3. SlotOf(m) \notin tainted
        BY <3>1 DEF CacheInv, Drifted, Writing
      <3>4. /\ \A t \in Slot : Untimed(t)
            /\ \A n \in Machine : seen[n].tainted /\ SlotOf(n) = SlotOf(m)
                  => file'[SlotOf(m)].mtime # seen[n].mtime
        BY <3>1, <3>3, CompleteUntimed DEF CacheInv
      <3>5. \A n \in Machine : Quiet(n)
        BY <3>1, <3>2, <3>3, <3>4 DEF Quiet, Writing
      <3> QED
        BY <3>1, <3>4, <3>5, QuietSteps DEF CacheInv
    <2>10. CASE UploadFails(m)
      <3>1. /\ Complete(m) \/ UNCHANGED file
            /\ pc[m] = "upload" /\ UNCHANGED <<props, tainted>>
        BY <2>10 DEF UploadFails
      <3>2. SlotOf(m) \notin tainted
        BY <3>1 DEF CacheInv, Drifted, Writing
      <3>3. \A t \in Slot : Untimed(t)
        <4>1. CASE Complete(m)
          BY <3>1, <3>2, <4>1, CompleteUntimed DEF CacheInv
        <4>2. CASE UNCHANGED file
          BY <3>1, <4>2 DEF Untimed
        <4> QED
          BY <3>1, <4>1, <4>2
      <3>4. \A n \in Machine : Quiet(n)
        BY <2>10, FailsQuiet DEF UploadFails
      <3> QED
        BY <3>1, <3>3, <3>4, QuietSteps DEF CacheInv
    <2>11. CASE StatUploaded(m)
      <3> DEFINE s == SlotOf(m)
      <3>1. /\ UNCHANGED <<file, props, tainted>>
            /\ pc[m] = "statUploaded" /\ pc' = [pc EXCEPT ![m] = "recordHash"]
            /\ \A n \in Machine : n # m => seen'[n] = seen[n]
        BY <2>11 DEF StatUploaded, Goto, TypeOK
      <3>2. /\ ~seen'[m].tainted
            /\ seen'[m].mtime \in {0, file[s].mtime}
        <4>1. seen[m] = NoStat
          BY <3>1 DEF CacheInv, Flights, Downloading
        <4> QED
          BY <2>11, <4>1 DEF StatUploaded, NoStat, TypeOK
      <3>3. \A n \in Machine : seen[n].tainted /\ SlotOf(n) = s
               => seen'[m].mtime # seen[n].mtime
        BY <3>1, <3>2, TaintedTimed DEF CacheInv, Drifted
      <3> QED
        BY <3>1, <3>2, <3>3 DEF CacheInv, Drifted, Writing, TypeOK
    <2>12. CASE RecordHash(m)
      <3>1. \A t \in Slot : /\ props[t].hash # "none" => props'[t].hash # "none"
                            /\ props'[t].mtime = props[t].mtime
        <4>1. CASE UNCHANGED props
          BY <4>1
        <4>2. CASE SetProperty(m, [props[SlotOf(m)] EXCEPT !.hash = got[m]])
          <5>1. props[SlotOf(m)] \in Props /\ got[m] # "none"
            BY <2>12, SlotFacts DEF RecordHash, CacheInv, Flights, TypeOK
          <5>2. /\ props'[SlotOf(m)].hash = got[m]
                /\ props'[SlotOf(m)].mtime = props[SlotOf(m)].mtime
            BY <4>2, <5>1, SetPropertyFacts, SlotFacts DEF Props
          <5> QED
            BY <4>2, <5>1, <5>2, SetPropertyFacts
        <4> QED
          BY <2>12, <4>1, <4>2 DEF RecordHash
      <3>2. \A n \in Machine : Quiet(n)
        <4>1. CASE Return(m, "createVM")
          BY <4>1, ReturnQuiet
        <4>2. CASE Goto(m, "recordSize") /\ UNCHANGED locals
          BY <2>12, <4>2 DEF RecordHash, Goto, Quiet, Writing, TypeOK
        <4> QED
          BY <2>12, <4>1, <4>2 DEF RecordHash
      <3>3. UNCHANGED <<file, tainted>>
        BY <2>12 DEF RecordHash
      <3> QED
        BY <3>1, <3>2, <3>3, QuietSteps DEF CacheInv, Untimed
    <2>13. CASE RecordSize(m)
      <3>1. \A t \in Slot : /\ props'[t].hash = props[t].hash
                            /\ props'[t].mtime = props[t].mtime
        <4>1. CASE UNCHANGED props
          BY <4>1
        <4>2. CASE SetProperty(m, [props[SlotOf(m)] EXCEPT !.size = seen[m].size])
          <5>1. props[SlotOf(m)] \in Props
            BY SlotFacts DEF TypeOK
          <5>2. /\ props'[SlotOf(m)].hash = props[SlotOf(m)].hash
                /\ props'[SlotOf(m)].mtime = props[SlotOf(m)].mtime
            BY <4>2, <5>1, SetPropertyFacts, SlotFacts DEF Props
          <5> QED
            BY <4>2, <5>2, SetPropertyFacts
        <4> QED
          BY <2>13, <4>1, <4>2 DEF RecordSize
      <3>2. \A n \in Machine : Quiet(n)
        BY <2>13 DEF RecordSize, Goto, Quiet, Writing, TypeOK
      <3>3. UNCHANGED <<file, tainted>>
        BY <2>13 DEF RecordSize
      <3> QED
        BY <3>1, <3>2, <3>3, QuietSteps DEF CacheInv, Untimed
    <2>14. CASE RecordMtime(m)
      <3> DEFINE s == SlotOf(m)
      <3>1. s \in Slot /\ s \notin tainted /\ ~seen[m].tainted
        BY <2>14, SlotFacts DEF RecordMtime, CacheInv, Drifted, Writing
      <3>2. seen[m].mtime # 0
        BY <2>14, CacheAssumption DEF RecordMtime, CacheInv, Flights
      <3>3. \A n \in Machine : seen[n].tainted /\ SlotOf(n) = s
               => seen[m].mtime # seen[n].mtime
        BY <2>14 DEF RecordMtime, CacheInv, Drifted
      <3>4. \A t \in Slot :
               /\ props'[t].hash = props[t].hash
               /\ props'[t].mtime # props[t].mtime
                     => t = s /\ props'[t].mtime = seen[m].mtime
        <4>1. CASE UNCHANGED props
          BY <4>1
        <4>2. CASE SetProperty(m, [props[s] EXCEPT !.mtime = seen[m].mtime])
          <5>1. props[s] \in Props
            BY <3>1 DEF TypeOK
          <5>2. /\ props'[s].hash = props[s].hash
                /\ props'[s].mtime = seen[m].mtime
            BY <3>1, <4>2, <5>1, SetPropertyFacts DEF Props
          <5> QED
            BY <4>2, <5>2, SetPropertyFacts
        <4> QED
          BY <2>14, <4>1, <4>2 DEF RecordMtime
      <3>5. UNCHANGED <<file, tainted>>
        BY <2>14 DEF RecordMtime
      <3>6. \A n \in Machine :
               /\ pc'[n] \in {"idle", "attach", pc[n]}
               /\ pc'[n] = "attach" => pc[n] = "attach" \/ n = m
               /\ seen'[n] \in {seen[n], NoStat}
               /\ pc'[n] \in Writing => seen'[n] = seen[n]
        <4>1. CASE Return(m, "createVM")
          BY <4>1, ReturnPlaces DEF Writing
        <4>2. CASE Goto(m, "attach") /\ UNCHANGED locals
          BY <4>2 DEF Goto, TypeOK, Writing
        <4> QED
          BY <2>14, <4>1, <4>2 DEF RecordMtime, Accepts
      <3>7. \A n \in Machine : seen'[n].tainted => seen'[n] = seen[n]
        BY <3>6 DEF NoStat
      <3> HIDE DEF s
      <3>8. \A n \in Machine :
               pc'[n] \in {"recordHash", "recordSize", "recordMtime", "attach"}
                  => ~seen'[n].tainted
        BY <3>1, <3>6, <3>7 DEF CacheInv, Drifted
      <3>9. \A t \in tainted :
               /\ props'[t].hash # "none"
               /\ props'[t].mtime \notin {0, file[t].mtime}
               /\ \A n \in Machine : SlotOf(n) = t => pc'[n] \notin Writing
        <4> SUFFICES ASSUME NEW t \in tainted
                     PROVE  /\ props'[t].hash # "none"
                            /\ props'[t].mtime \notin {0, file[t].mtime}
                            /\ \A n \in Machine :
                                  SlotOf(n) = t => pc'[n] \notin Writing
          OBVIOUS
        <4>1. t \in Slot /\ t # s
          BY <3>1 DEF TypeOK
        <4>2. props'[t].hash = props[t].hash /\ props'[t].mtime = props[t].mtime
          BY <3>4, <4>1
        <4>3. \A n \in Machine : SlotOf(n) = t => pc'[n] \notin Writing
          BY <3>6 DEF CacheInv, Drifted, Writing
        <4> QED
          BY <4>2, <4>3 DEF CacheInv, Drifted
      <3>10. ASSUME NEW k \in Machine, seen'[k].tainted
             PROVE  /\ props'[SlotOf(k)].hash # "none"
                    /\ props'[SlotOf(k)].mtime \notin {0, seen'[k].mtime}
                    /\ \A n \in Machine :
                          SlotOf(n) = SlotOf(k) =>
                             /\ pc'[n] \in {"recordHash", "recordSize", "recordMtime"}
                                   => seen'[n].mtime # seen'[k].mtime
                             /\ pc'[n] \in {"upload", "statUploaded"}
                                   => file'[SlotOf(n)].mtime # seen'[k].mtime
        <4>1. seen'[k] = seen[k] /\ seen[k].tainted /\ SlotOf(k) \in Slot
          BY <3>7, <3>10, SlotFacts
        <4>2. /\ props'[SlotOf(k)].hash # "none"
              /\ props'[SlotOf(k)].mtime \notin {0, seen'[k].mtime}
          BY <3>2, <3>3, <3>4, <4>1 DEF CacheInv, Drifted
        <4> QED
          BY <3>5, <3>6, <4>1, <4>2 DEF CacheInv, Drifted, Writing
      <3> QED
        BY <3>5, <3>8, <3>9, <3>10 DEF CacheInv, Drifted
    <2>15. CASE AddCDROM(m)
      <3>1. \A n \in Machine : Quiet(n)
        BY <2>15, ReturnQuiet DEF AddCDROM
      <3>2. UNCHANGED cache
        BY <2>15 DEF AddCDROM
      <3> QED
        BY <3>1, <3>2, QuietSteps DEF CacheInv, Untimed
    <2>16. CASE CallFails(m)
      <3>1. \A n \in Machine : Quiet(n)
        BY <2>16, FailsQuiet DEF CallFails
      <3>2. UNCHANGED cache
        BY <2>16 DEF CallFails
      <3> QED
        BY <3>1, <3>2, QuietSteps DEF CacheInv, Untimed
    <2> QED
      BY <1>1, <2>1, <2>2, <2>3, <2>4, <2>5, <2>6, <2>7, <2>8, <2>9, <2>10,
         <2>11, <2>12, <2>13, <2>14, <2>15, <2>16 DEF Provision
  <1>2. CASE ListFiles
    <2>1. UNCHANGED <<file, props, tainted, pc, seen>>
      BY <1>2 DEF ListFiles
    <2> QED
      BY <2>1, QuietSteps DEF CacheInv, Untimed, Quiet
  <1>3. CASE AllStale
    <2>1. UNCHANGED <<file, props, tainted, pc, seen>>
      BY <1>3 DEF AllStale
    <2> QED
      BY <2>1, QuietSteps DEF CacheInv, Untimed, Quiet
  <1>4. CASE DeleteDataset
    <2> DEFINE lost == {t \in Slot : t[1] = Pool}
    <2>1. Forget(lost)
      BY <1>4 DEF DeleteDataset
    <2>2. UNCHANGED pc
      BY <1>4 DEF DeleteDataset
    <2>3. Flights
      BY DEF CacheInv
    <2>4. \A t \in Slot : \/ file'[t] = file[t]
                          \/ t \in lost /\ file'[t] = NoFile
      BY <1>4 DEF DeleteDataset
    <2> HIDE DEF lost
    <2>5. \A t \in Slot :
             /\ t \in lost => props'[t] = NoProps
             /\ t \notin lost => props'[t] = props[t]
      BY <2>1, <2>3, ForgetFacts
    <2>6. ASSUME NEW n \in Machine
           PROVE  /\ seen'[n].mtime = seen[n].mtime
                  /\ SlotOf(n) \in lost => seen'[n].tainted = FALSE
                  /\ SlotOf(n) \notin lost => seen'[n] = seen[n]
      BY <2>1, <2>3, ForgetFacts
    <2>7. tainted' = tainted \ lost
      BY <2>1, <2>3, ForgetFacts
    <2>8. \A t \in Slot : file'[t] # NoFile => file'[t].mtime \in Mtime
      BY <2>4 DEF CacheInv, Drifted
    <2>9. \A t \in tainted' :
             /\ props'[t].hash # "none"
             /\ props'[t].mtime \notin {0, file'[t].mtime}
             /\ \A n \in Machine : SlotOf(n) = t => pc'[n] \notin Writing
      BY <2>2, <2>4, <2>5, <2>6, <2>7 DEF CacheInv, Drifted, TypeOK
    <2>10. \A n \in Machine :
             pc'[n] \in {"recordHash", "recordSize", "recordMtime", "attach"}
                => ~seen'[n].tainted
      BY <2>2, <2>5, <2>6, <2>7 DEF CacheInv, Drifted
    <2>11. ASSUME NEW k \in Machine, seen'[k].tainted
          PROVE  /\ props'[SlotOf(k)].hash # "none"
                 /\ props'[SlotOf(k)].mtime \notin {0, seen'[k].mtime}
                 /\ \A n \in Machine :
                       SlotOf(n) = SlotOf(k) =>
                          /\ pc'[n] \in {"recordHash", "recordSize", "recordMtime"}
                                => seen'[n].mtime # seen'[k].mtime
                          /\ pc'[n] \in {"upload", "statUploaded"}
                                => file'[SlotOf(n)].mtime # seen'[k].mtime
      <3>1. SlotOf(k) \notin lost /\ SlotOf(k) \in Slot
        BY <2>6, <2>11, SlotFacts
      <3>2. seen'[k] = seen[k] /\ seen[k].tainted
        BY <2>6, <2>11, <3>1
      <3>3. file'[SlotOf(k)] = file[SlotOf(k)] /\ props'[SlotOf(k)] = props[SlotOf(k)]
        BY <2>4, <2>5, <3>1
      <3> QED
        <4>1. /\ props[SlotOf(k)].hash # "none"
              /\ props[SlotOf(k)].mtime \notin {0, seen[k].mtime}
          BY <3>2 DEF CacheInv, Drifted
        <4>2. ASSUME NEW n \in Machine, SlotOf(n) = SlotOf(k)
              PROVE  /\ pc[n] \in {"recordHash", "recordSize", "recordMtime"}
                           => seen[n].mtime # seen[k].mtime
                     /\ pc[n] \in {"upload", "statUploaded"}
                           => file[SlotOf(n)].mtime # seen[k].mtime
          BY <3>2, <4>2 DEF CacheInv, Drifted
        <4>3. \A n \in Machine : SlotOf(n) = SlotOf(k) =>
                 pc'[n] = pc[n] /\ seen'[n].mtime = seen[n].mtime
          BY <2>2, <2>6
        <4>4. \A n \in Machine : SlotOf(n) = SlotOf(k) =>
                 file'[SlotOf(n)].mtime = file[SlotOf(n)].mtime
          BY <3>3
        <4>5. ASSUME NEW n \in Machine, SlotOf(n) = SlotOf(k)
              PROVE  /\ pc'[n] \in {"recordHash", "recordSize", "recordMtime"}
                           => seen'[n].mtime # seen'[k].mtime
                     /\ pc'[n] \in {"upload", "statUploaded"}
                           => file'[SlotOf(n)].mtime # seen'[k].mtime
          BY <3>2, <4>2, <4>3, <4>4, <4>5
        <4> QED
          BY <3>2, <3>3, <4>1, <4>5
    <2> QED
      BY <2>8, <2>9, <2>10, <2>11 DEF Drifted
  <1>5. CASE CreateDataset
    <2>1. UNCHANGED <<file, props, tainted, pc, seen>>
      BY <1>5 DEF CreateDataset
    <2> QED
      BY <2>1, QuietSteps DEF CacheInv, Untimed, Quiet
  <1>6. CASE SweepFails
    <2>1. UNCHANGED <<file, props, tainted, pc, seen>>
      BY <1>6 DEF SweepFails
    <2> QED
      BY <2>1, QuietSteps DEF CacheInv, Untimed, Quiet
  <1>7. CASE Restart
    <2>1. \A n \in Machine : Quiet(n)
      BY <1>7 DEF Restart, Quiet, Writing
    <2>2. UNCHANGED cache
      BY <1>7 DEF Restart
    <2> QED
      BY <2>1, <2>2, QuietSteps DEF CacheInv, Untimed
  <1>8. ASSUME NEW s \in Exposed, Drift(s) PROVE Drifted'
    <2>1. PICK size \in {Short, Whole} : Write(s, size)
      BY <1>8 DEF Drift
    <2>2. s \in Slot
      BY CacheAssumption
    <2>3. /\ file'[s].mtime \in Mtime /\ file'[s].mtime # props[s].mtime
          /\ \A n \in Machine : file'[s].mtime # seen[n].mtime
          /\ \A t \in Slot : t # s => file'[t] = file[t]
      BY <2>1, <2>2, WriteFacts DEF TypeOK
    <2>4. UNCHANGED <<props, pc, seen>> /\ file[s] # NoFile
      BY <1>8 DEF Drift
    <2>5. tainted' \subseteq tainted \cup {s}
      BY <1>8 DEF Drift
    <2>6. s \in tainted' =>
             /\ props[s].hash # "none" /\ props[s].mtime # 0
             /\ \A n \in Machine : SlotOf(n) = s => pc[n] \notin Writing
      <3>1. CASE Recorded(s)
        BY <2>2, <2>4, <3>1, CacheAssumption DEF Recorded, CacheInv, Drifted
      <3>2. CASE ~Recorded(s)
        BY <1>8, <3>2 DEF Drift, CacheInv, Drifted
      <3> QED
        BY <3>1, <3>2
    <2>7. \A t \in tainted' :
             /\ props[t].hash # "none"
             /\ props[t].mtime \notin {0, file'[t].mtime}
             /\ \A n \in Machine : SlotOf(n) = t => pc[n] \notin Writing
      BY <2>2, <2>3, <2>5, <2>6 DEF CacheInv, Drifted, TypeOK
    <2> QED
      BY <2>2, <2>3, <2>4, <2>7, SlotFacts DEF CacheInv, Drifted
  <1>9. ASSUME NEW s \in Exposed, RemoveFile(s) PROVE Drifted'
    <2>1. /\ UNCHANGED <<props, pc, seen>> /\ tainted' = tainted \ {s}
          /\ file' = [file EXCEPT ![s] = NoFile]
      BY <1>9 DEF RemoveFile
    <2>2. \A n \in Machine : seen[n].tainted => NoFile.mtime # seen[n].mtime
      BY TaintedTimed DEF CacheInv, NoFile
    <2>3. \A t \in Slot : Untimed(t)
      BY <2>1, <2>2 DEF Untimed, TypeOK
    <2>4. \A n \in Machine : Quiet(n)
      BY <2>1 DEF Quiet
    <2> QED
      BY <2>1, <2>3, <2>4, QuietSteps DEF CacheInv
  <1>10. ASSUME NEW s \in Exposed, ClearRecord(s) PROVE Drifted'
    <2> DEFINE lost == {s}
    <2>1. Forget(lost)
      BY <1>10 DEF ClearRecord
    <2>2. UNCHANGED pc
      BY <1>10 DEF ClearRecord
    <2>3. Flights
      BY DEF CacheInv
    <2>4. \A t \in Slot : \/ file'[t] = file[t]
                          \/ t \in lost /\ file'[t] = NoFile
      BY <1>10 DEF ClearRecord
    <2> HIDE DEF lost
    <2>5. \A t \in Slot :
             /\ t \in lost => props'[t] = NoProps
             /\ t \notin lost => props'[t] = props[t]
      BY <2>1, <2>3, ForgetFacts
    <2>6. ASSUME NEW n \in Machine
           PROVE  /\ seen'[n].mtime = seen[n].mtime
                  /\ SlotOf(n) \in lost => seen'[n].tainted = FALSE
                  /\ SlotOf(n) \notin lost => seen'[n] = seen[n]
      BY <2>1, <2>3, ForgetFacts
    <2>7. tainted' = tainted \ lost
      BY <2>1, <2>3, ForgetFacts
    <2>8. \A t \in Slot : file'[t] # NoFile => file'[t].mtime \in Mtime
      BY <2>4 DEF CacheInv, Drifted
    <2>9. \A t \in tainted' :
             /\ props'[t].hash # "none"
             /\ props'[t].mtime \notin {0, file'[t].mtime}
             /\ \A n \in Machine : SlotOf(n) = t => pc'[n] \notin Writing
      BY <2>2, <2>4, <2>5, <2>6, <2>7 DEF CacheInv, Drifted, TypeOK
    <2>10. \A n \in Machine :
             pc'[n] \in {"recordHash", "recordSize", "recordMtime", "attach"}
                => ~seen'[n].tainted
      BY <2>2, <2>5, <2>6, <2>7 DEF CacheInv, Drifted
    <2>11. ASSUME NEW k \in Machine, seen'[k].tainted
          PROVE  /\ props'[SlotOf(k)].hash # "none"
                 /\ props'[SlotOf(k)].mtime \notin {0, seen'[k].mtime}
                 /\ \A n \in Machine :
                       SlotOf(n) = SlotOf(k) =>
                          /\ pc'[n] \in {"recordHash", "recordSize", "recordMtime"}
                                => seen'[n].mtime # seen'[k].mtime
                          /\ pc'[n] \in {"upload", "statUploaded"}
                                => file'[SlotOf(n)].mtime # seen'[k].mtime
      <3>1. SlotOf(k) \notin lost /\ SlotOf(k) \in Slot
        BY <2>6, <2>11, SlotFacts
      <3>2. seen'[k] = seen[k] /\ seen[k].tainted
        BY <2>6, <2>11, <3>1
      <3>3. file'[SlotOf(k)] = file[SlotOf(k)] /\ props'[SlotOf(k)] = props[SlotOf(k)]
        BY <2>4, <2>5, <3>1
      <3> QED
        <4>1. /\ props[SlotOf(k)].hash # "none"
              /\ props[SlotOf(k)].mtime \notin {0, seen[k].mtime}
          BY <3>2 DEF CacheInv, Drifted
        <4>2. ASSUME NEW n \in Machine, SlotOf(n) = SlotOf(k)
              PROVE  /\ pc[n] \in {"recordHash", "recordSize", "recordMtime"}
                           => seen[n].mtime # seen[k].mtime
                     /\ pc[n] \in {"upload", "statUploaded"}
                           => file[SlotOf(n)].mtime # seen[k].mtime
          BY <3>2, <4>2 DEF CacheInv, Drifted
        <4>3. \A n \in Machine : SlotOf(n) = SlotOf(k) =>
                 pc'[n] = pc[n] /\ seen'[n].mtime = seen[n].mtime
          BY <2>2, <2>6
        <4>4. \A n \in Machine : SlotOf(n) = SlotOf(k) =>
                 file'[SlotOf(n)].mtime = file[SlotOf(n)].mtime
          BY <3>3
        <4>5. ASSUME NEW n \in Machine, SlotOf(n) = SlotOf(k)
              PROVE  /\ pc'[n] \in {"recordHash", "recordSize", "recordMtime"}
                           => seen'[n].mtime # seen'[k].mtime
                     /\ pc'[n] \in {"upload", "statUploaded"}
                           => file'[SlotOf(n)].mtime # seen'[k].mtime
          BY <3>2, <4>2, <4>3, <4>4, <4>5
        <4> QED
          BY <3>2, <3>3, <4>1, <4>5
    <2> QED
      BY <2>8, <2>9, <2>10, <2>11 DEF Drifted
  <1> QED
    BY <1>1, <1>2, <1>3, <1>4, <1>5, <1>6, <1>7, <1>8, <1>9, <1>10 DEF Next,
       cleanupISOs, Environment

-----------------------------------------------------------------------------
(* The theorems.                                                            *)

LEMMA InitHolds ==
    ASSUME Init
    PROVE  TypeOK /\ CacheInv
  <1>1. TypeOK
    <2>1. FirstMtime \in Mtime
      BY CacheAssumption DEF FirstMtime
    <2>2. [size |-> Whole, mtime |-> FirstMtime] \in File
      BY <2>1 DEF File, Size, Time, Whole
    <2>3. file \in [Slot -> File]
      BY <2>2, ValueFacts DEF Init
    <2>4. dataset \in SUBSET Dataset
      BY CacheAssumption, SlotFacts DEF Init
    <2> QED
      BY <2>3, <2>4, ValueFacts, CacheAssumption DEF Init, TypeOK, Places
  <1>2. Flights
    BY DEF Init, Flights, Downloading
  <1>3. FirstHash
    BY DEF Init, FirstHash, NoProps
  <1>4. Drifted
    <2>1. FirstMtime \in Mtime
      BY CacheAssumption DEF FirstMtime
    <2>2. \A s \in Slot : file[s] # NoFile => file[s].mtime \in Mtime
      BY <2>1 DEF Init
    <2> QED
      BY <2>2 DEF Init, Drifted, NoStat
  <1>5. Sweeping
    BY DEF Init, Sweeping, NoSweep
  <1> QED
    BY <1>1, <1>2, <1>3, <1>4, <1>5 DEF CacheInv

LEMMA StepHolds ==
    ASSUME TypeOK, CacheInv, [Next]_vars
    PROVE  TypeOK' /\ CacheInv'
  <1>1. CASE Next
    <2>1. TypeOK'
      <3>1. Flights
        BY DEF CacheInv
      <3>2. CASE \E m \in Machine : Provision(m)
        BY <3>1, <3>2, ProvisionTyped
      <3>3. CASE cleanupISOs
        BY <3>3, SweepTyped
      <3>4. CASE Environment
        BY <3>4, EnvironmentTyped
      <3> QED
        BY <1>1, <3>2, <3>3, <3>4 DEF Next
    <2>2. Flights'
      BY <1>1, <2>1, FlightsKept
    <2>3. FirstHash'
      BY <1>1, <2>1, FirstHashKept
    <2>4. Drifted'
      BY <1>1, <2>1, DriftedKept
    <2>5. Sweeping'
      BY <1>1, <2>1, SweepingKept
    <2> QED
      BY <2>1, <2>2, <2>3, <2>4, <2>5 DEF CacheInv
  <1>2. CASE UNCHANGED vars
    BY <1>2 DEF vars, TypeOK, CacheInv, Flights, FirstHash, Drifted, Sweeping
  <1> QED
    BY <1>1, <1>2

(* Every step of the cache, of the sweep and of the environment keeps the   *)
(* variables in their types: an upload has a hash when it records one, and  *)
(* the marker is never taken for one.                                       *)
THEOREM CacheTypeCorrect == Spec => []TypeOK
  BY InitHolds, StepHolds, PTL DEF Spec

(* The inductive invariant holds in every reachable state.                  *)
THEOREM CacheInvariant == Spec => []CacheInv
  BY InitHolds, StepHolds, PTL DEF Spec

(* isoGroup: no two uploads write the same file, whatever machines,         *)
(* datasets and images there are.                                           *)
THEOREM SingleUpload == Spec => []OneUpload
  <1>1. TypeOK /\ CacheInv => OneUpload
    BY CacheAssumption, SlotFacts
       DEF CacheInv, Flights, Downloading, OneUpload, SlotOf
  <1> QED
    BY <1>1, InitHolds, StepHolds, PTL DEF Spec

(* Until the operator clears the record of an ISO or the provider's own     *)
(* sweep deletes it, every download that is recorded has the hash of the    *)
(* first.                                                                   *)
THEOREM FirstUseTrusted == Spec => []TrustOnFirstUse
  <1>1. CacheInv => TrustOnFirstUse
    BY DEF CacheInv, FirstHash, TrustOnFirstUse
  <1> QED
    BY <1>1, InitHolds, StepHolds, PTL DEF Spec

(* reverifyISOBeforeAttach lets no file through that it saw differ from its *)
(* record, whoever records, poisons, sweeps or restarts in between.         *)
THEOREM DriftRefused == Spec => []DriftNotAttached
  <1>1. CacheInv => DriftNotAttached
    BY DEF CacheInv, Drifted, DriftNotAttached
  <1> QED
    BY <1>1, InitHolds, StepHolds, PTL DEF Spec

(* cleanupISOs deletes the dataset at most once in the life of a process:   *)
(* every ISO that is there after that was uploaded by a machine whose image *)
(* it tracks.                                                               *)
THEOREM SweepsOnce == Spec => WipesOnce
  <1>1. CacheInv /\ [Next]_vars
           => [sweep.wiped => ~(sweep.pc = "delete" /\ sweep'.pc = "create")]_vars
    BY DEF CacheInv, Sweeping
  <1> QED
    BY <1>1, InitHolds, StepHolds, PTL DEF Spec, WipesOnce
=============================================================================
