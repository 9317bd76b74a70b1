--------------------------- MODULE JobManagerProofs ---------------------------
(***************************************************************************)
(* What JobManager guarantees for every number of jobs, workers,           *)
(* recoverers and clients, every queue capacity and every pattern of save  *)
(* failures, stalls, expiries and crashes: records keep their payloads,    *)
(* every job the process knows of is in the store, and a job cached as     *)
(* queued or running is attended.                                          *)
(***************************************************************************)
EXTENDS JobManager, TLAPS

-----------------------------------------------------------------------------
(* The queue.                                                              *)

(* A non-blocking send keeps what is queued and the channel's bound; when  *)
(* there is room, the id is in the queue afterwards.                       *)
LEMMA SendFacts ==
  ASSUME TypeOK, NEW j \in Jobs, queue' = Sent(j)
  PROVE  /\ queue' \in Seq(Jobs)
         /\ Len(queue') <= QueueCap
         /\ \A k \in Jobs : InQueue(k) => InQueue(k)'
         /\ \A k \in Jobs : InQueue(k)' => InQueue(k) \/ k = j
         /\ HasRoom => InQueue(j)'
<1> USE JobManagerAssumption DEF TypeOK
<1>1. CASE ~HasRoom
  BY <1>1 DEF Sent, InQueue
<1>2. CASE HasRoom
  <2>1. queue' = Append(queue, j)
    BY <1>2 DEF Sent
  <2>2. /\ queue' \in Seq(Jobs)
        /\ Len(queue') = Len(queue) + 1
        /\ \A i \in 1..Len(queue) : queue'[i] = queue[i]
        /\ queue'[Len(queue) + 1] = j
    BY <2>1
  <2>3. Len(queue) \in Nat
    OBVIOUS
  <2>4. Len(queue') <= QueueCap
    BY <1>2, <2>2, <2>3 DEF HasRoom
  <2>5. \A k \in Jobs : InQueue(k) => InQueue(k)'
    BY <2>2, <2>3 DEF InQueue
  <2>6. \A k \in Jobs : InQueue(k)' => InQueue(k) \/ k = j
    <3> SUFFICES ASSUME NEW k \in Jobs, InQueue(k)', k # j PROVE InQueue(k)
      OBVIOUS
    <3>1. PICK i \in 1..Len(queue') : queue'[i] = k
      BY DEF InQueue
    <3>2. i \in 1..Len(queue)
      BY <2>2, <2>3, <3>1
    <3> QED BY <2>2, <3>1, <3>2 DEF InQueue
  <2>7. InQueue(j)'
    BY <2>2, <2>3 DEF InQueue
  <2> QED BY <2>2, <2>4, <2>5, <2>6, <2>7
<1> QED BY <1>1, <1>2

(* Taking the head leaves every other id queued.                           *)
LEMMA TakeFacts ==
  ASSUME TypeOK, queue # <<>>, queue' = Tail(queue)
  PROVE  /\ queue' \in Seq(Jobs)
         /\ Len(queue') <= QueueCap
         /\ Head(queue) \in Jobs
         /\ InQueue(Head(queue))
         /\ \A k \in Jobs : InQueue(k) => InQueue(k)' \/ k = Head(queue)
         /\ \A k \in Jobs : InQueue(k)' => InQueue(k)
<1> USE JobManagerAssumption DEF TypeOK
<1>1. /\ queue' \in Seq(Jobs)
      /\ Len(queue) \in Nat \ {0}
      /\ Len(queue') = Len(queue) - 1
      /\ \A i \in 1..Len(queue') : queue'[i] = queue[i + 1]
      /\ Head(queue) = queue[1]
      /\ Head(queue) \in Jobs
  OBVIOUS
<1>2. \A k \in Jobs : InQueue(k) => InQueue(k)' \/ k = Head(queue)
  <2> SUFFICES ASSUME NEW k \in Jobs, InQueue(k), k # Head(queue) PROVE InQueue(k)'
    OBVIOUS
  <2>1. PICK i \in 1..Len(queue) : queue[i] = k
    BY DEF InQueue
  <2>2. i - 1 \in 1..Len(queue') /\ queue'[i - 1] = k
    BY <1>1, <2>1
  <2> QED BY <2>2 DEF InQueue
<1>3. \A k \in Jobs : InQueue(k)' => InQueue(k)
  <2> SUFFICES ASSUME NEW k \in Jobs, InQueue(k)' PROVE InQueue(k)
    OBVIOUS
  <2>1. PICK i \in 1..Len(queue') : queue'[i] = k
    BY DEF InQueue
  <2>2. i + 1 \in 1..Len(queue) /\ queue[i + 1] = k
    BY <1>1, <2>1
  <2> QED BY <2>2 DEF InQueue
<1> QED BY <1>1, <1>2, <1>3 DEF InQueue

(* A save writes the record or leaves the store alone, and so for the disk.*)
LEMMA SaveFacts ==
  ASSUME TypeOK, NEW j \in Jobs, NEW rec \in Record, NEW o \in SaveOutcomes,
         Save(j, rec, o)
  PROVE  /\ store' \in [Jobs -> Record] /\ disk' \in [Jobs -> Record]
         /\ \A k \in Jobs : k # j => store'[k] = store[k]
         /\ store'[j] = rec \/ store'[j] = store[j]
         /\ o = "ok" => store'[j] = rec /\ disk' = store'
         /\ o # "ok" => disk' = disk
BY DEF TypeOK, Save, Saved

-----------------------------------------------------------------------------
(* Type correctness.                                                       *)

LEMMA TypeInit == Init => TypeOK
<1> SUFFICES ASSUME Init PROVE TypeOK
  OBVIOUS
<1>1. 1 \in Jobs /\ NoRecord \in Record
  BY JobManagerAssumption DEF Jobs, NoRecord, Record, Status
<1>2. queue \in Seq(Jobs) /\ Len(queue) <= QueueCap
  BY JobManagerAssumption DEF Init
<1>3. /\ IdleWorker \in [pc : WorkerPC, job : Jobs, rec : Record]
      /\ IdleClient \in [pc : ClientPC, job : Jobs, rec : Record]
      /\ IdleRecoverer \in [pc : RecPC, job : Jobs, snap : [Jobs -> Record]]
  BY <1>1 DEF IdleWorker, IdleClient, IdleRecoverer, WorkerPC, ClientPC, RecPC
<1>4. /\ mem \in [Jobs -> Status]
      /\ enq \in [Jobs -> EnqPC]
      /\ crashes \in 0..MaxCrashes
  BY JobManagerAssumption DEF Init, Status, EnqPC
<1> QED
  BY <1>1, <1>2, <1>3, <1>4 DEF Init, TypeOK

(* The process restarts in well-typed states.                              *)
LEMMA TypeRestart ==
  ASSUME TypeOK, Restarted
  PROVE  /\ store' \in [Jobs -> Record]
         /\ mem' \in [Jobs -> Status]
         /\ payloads' \subseteq Jobs
         /\ queue' \in Seq(Jobs)
         /\ Len(queue') <= QueueCap
         /\ enq' \in [Jobs -> EnqPC]
         /\ wk' \in [Workers -> [pc : WorkerPC, job : Jobs, rec : Record]]
         /\ rc' \in [Recoverers -> [pc : RecPC, job : Jobs, snap : [Jobs -> Record]]]
         /\ cl' \in [Clients -> [pc : ClientPC, job : Jobs, rec : Record]]
         /\ published' \in BOOLEAN
         /\ stray' \subseteq Jobs
<1>1. 1 \in Jobs /\ NoRecord \in Record
  BY JobManagerAssumption DEF Jobs, NoRecord, Record, Status
<1>2. queue' \in Seq(Jobs) /\ Len(queue') <= QueueCap
  BY JobManagerAssumption DEF Restarted
<1>3. /\ IdleWorker \in [pc : WorkerPC, job : Jobs, rec : Record]
      /\ IdleClient \in [pc : ClientPC, job : Jobs, rec : Record]
      /\ IdleRecoverer \in [pc : RecPC, job : Jobs, snap : [Jobs -> Record]]
  BY <1>1 DEF IdleWorker, IdleClient, IdleRecoverer, WorkerPC, ClientPC, RecPC
<1>4. enq' \in [Jobs -> EnqPC]
  BY DEF Restarted, TypeOK, EnqPC
<1> QED
  BY <1>2, <1>3, <1>4 DEF Restarted, Status, TypeOK

LEMMA TypeEnqueue ==
  ASSUME TypeOK, NEW j \in Jobs, EnqueueStep(j)
  PROVE  TypeOK'
<1> USE DEF stored, cached, life
<1>1. /\ QueuedRecord \in Record
      /\ jobToRecord("failed", TRUE) \in Record
  BY DEF QueuedRecord, jobToRecord, Record, Status, Open, Finished
<1>2. CASE EnqueuePersist(j)
  BY <1>1, <1>2, SaveFacts DEF EnqueuePersist, TypeOK, EnqPC
<1>3. CASE EnqueueCache(j)
  BY <1>1, <1>3 DEF EnqueueCache, TypeOK, EnqPC, recordToJob, Record
<1>4. CASE EnqueueSend(j)
  BY <1>4, SendFacts DEF EnqueueSend, TypeOK, EnqPC
<1>5. CASE EnqueueRejectSave(j)
  BY <1>1, <1>5, SaveFacts DEF EnqueueRejectSave, TypeOK, EnqPC
<1>6. CASE EnqueueRejectCache(j)
  BY <1>6 DEF EnqueueRejectCache, TypeOK, EnqPC, Status, Finished
<1> QED BY <1>2, <1>3, <1>4, <1>5, <1>6 DEF EnqueueStep

LEMMA TypeWorker ==
  ASSUME TypeOK, NEW w \in Workers, WorkerStep(w)
  PROVE  TypeOK'
<1> DEFINE WorkerState == [pc : WorkerPC, job : Jobs, rec : Record]
           j == wk[w].job
<1> USE DEF stored, cached, life
<1>1. /\ j \in Jobs
      /\ wk[w].rec \in Record
      /\ wk[w].rec.payload \in BOOLEAN
      /\ 1 \in Jobs
      /\ NoRecord \in Record
      /\ \A status \in Status, p \in BOOLEAN : jobToRecord(status, p) \in Record
  BY JobManagerAssumption DEF TypeOK, Jobs, NoRecord, Record, Status, jobToRecord
<1>2. ASSUME NEW pc \in WorkerPC, NEW k \in Jobs, NEW rec \in Record, SetWorker(w, pc, k, rec)
      PROVE  wk' \in [Workers -> WorkerState]
  BY <1>2 DEF SetWorker, TypeOK
<1>3. CASE WorkerTake(w)
  <2>1. wk' \in [Workers -> WorkerState]
    BY <1>1, <1>2, <1>3, TakeFacts DEF WorkerTake, WorkerPC
  <2> QED BY <1>3, <2>1, TakeFacts DEF WorkerTake, TypeOK
<1>4. CASE WorkerLoad(w)
  <2>1. store[j] \in Record /\ mem[j] \in Status
    BY <1>1 DEF TypeOK
  <2>2. wk' \in [Workers -> WorkerState]
    BY <1>1, <1>2, <1>4, <2>1 DEF WorkerLoad, WorkerPC
  <2> QED BY <1>4, <2>2 DEF WorkerLoad, TypeOK
<1>5. CASE WorkerStart(w)
  <2>1. jobToRecord("running", wk[w].rec.payload) \in Record
    BY <1>1 DEF Status, Open
  <2>2. wk' \in [Workers -> WorkerState]
    BY <1>1, <1>2, <1>5, <2>1 DEF WorkerStart, WorkerPC
  <2>3. store' \in [Jobs -> Record] /\ disk' \in [Jobs -> Record]
    BY <1>1, <1>5, <2>1, SaveFacts DEF WorkerStart
  <2> QED BY <1>5, <2>2, <2>3 DEF WorkerStart, TypeOK
<1>6. CASE WorkerCacheRunning(w)
  <2>1. wk' \in [Workers -> WorkerState]
    BY <1>1, <1>2, <1>6 DEF WorkerCacheRunning, WorkerPC
  <2>2. recordToJob(wk[w].rec) \in Status
    BY <1>1 DEF recordToJob, Record
  <2>3. mem' \in [Jobs -> Status] /\ payloads' \subseteq Jobs
    BY <1>1, <1>6, <2>2 DEF WorkerCacheRunning, TypeOK
  <2> QED BY <1>6, <2>1, <2>3 DEF WorkerCacheRunning, TypeOK
<1>7. CASE WorkerRun(w) \/ WorkerReadPayload(w) \/ WorkerCachePayload(w)
  <2>1. ASSUME NEW statuses, statuses \subseteq Status, Ran(w, statuses)
        PROVE  wk' \in [Workers -> WorkerState]
    BY <1>1, <1>2, <2>1 DEF Ran, WorkerPC
  <2>2. Finished \subseteq Status /\ {"failed"} \subseteq Status
    BY DEF Finished, Status
  <2>3. wk' \in [Workers -> WorkerState]
    BY <1>1, <1>2, <1>7, <2>1, <2>2
       DEF WorkerRun, WorkerReadPayload, WorkerCachePayload, WorkerPC
  <2>4. payloads' \subseteq Jobs /\ mem' = mem
    BY <1>1, <1>7 DEF WorkerRun, WorkerReadPayload, WorkerCachePayload, TypeOK
  <2> QED BY <1>7, <2>3, <2>4 DEF WorkerRun, WorkerReadPayload, WorkerCachePayload, TypeOK
<1>8. CASE WorkerFinish(w)
  <2>1. wk' \in [Workers -> WorkerState]
    BY <1>1, <1>2, <1>8 DEF WorkerFinish, WorkerPC
  <2>2. store' \in [Jobs -> Record] /\ disk' \in [Jobs -> Record]
    BY <1>1, <1>8, SaveFacts DEF WorkerFinish
  <2> QED BY <1>8, <2>1, <2>2 DEF WorkerFinish, TypeOK
<1>9. CASE WorkerCacheFinished(w)
  <2>1. wk' \in [Workers -> WorkerState]
    BY <1>1, <1>2, <1>9 DEF WorkerCacheFinished, WorkerPC
  <2>2. recordToJob(wk[w].rec) \in Status
    BY <1>1 DEF recordToJob, Record
  <2>3. mem' \in [Jobs -> Status] /\ payloads' \subseteq Jobs
    BY <1>1, <1>9, <2>2 DEF WorkerCacheFinished, TypeOK
  <2> QED BY <1>9, <2>1, <2>3 DEF WorkerCacheFinished, TypeOK
<1>10. CASE WorkerPanic(w)
  BY <1>10, TypeRestart DEF WorkerPanic, TypeOK
<1> QED BY <1>3, <1>4, <1>5, <1>6, <1>7, <1>8, <1>9, <1>10 DEF WorkerStep

LEMMA TypeRecover ==
  ASSUME TypeOK, NEW r \in Recoverers, RecoverStep(r)
  PROVE  TypeOK'
<1> DEFINE RecovererState == [pc : RecPC, job : Jobs, snap : [Jobs -> Record]]
           i == rc[r].job
<1> USE DEF stored, cached, life
<1>1. /\ i \in Jobs /\ 1 \in Jobs
      /\ rc[r].snap \in [Jobs -> Record]
      /\ NoRecord \in Record
  BY JobManagerAssumption DEF TypeOK, Jobs, NoRecord, Record, Status
<1>2. ASSUME NEW pc \in RecPC, NEW k \in Jobs, NEW snap \in [Jobs -> Record],
             SetRecoverer(r, pc, k, snap)
      PROVE  rc' \in [Recoverers -> RecovererState]
  BY <1>2 DEF SetRecoverer, TypeOK
<1>3. \A k \in Jobs : /\ WithoutJob(rc[r].snap, k) \in [Jobs -> Record]
                     /\ rc[r].snap[k] \in Record
                     /\ Requeued(rc[r].snap[k]) \in Record
                     /\ recordToJob(Requeued(rc[r].snap[k])) \in Status
  BY <1>1 DEF WithoutJob, Requeued, recordToJob, Record, Status, Open
<1>4. CASE RecoverList(r)
  <2>1. [k \in Jobs |-> IF k \in Listed THEN store[k] ELSE NoRecord] \in [Jobs -> Record]
    BY <1>1 DEF TypeOK
  <2>2. rc' \in [Recoverers -> RecovererState]
    BY <1>1, <1>2, <1>4, <2>1 DEF RecoverList, RecPC
  <2> QED BY <1>4, <2>2 DEF RecoverList, TypeOK
<1>5. CASE RecoverSave(r)
  <2>1. PICK k \in Pending(r), o \in SaveOutcomes :
          /\ Save(k, Requeued(rc[r].snap[k]), o)
          /\ SetRecoverer(r, "cache", k, rc[r].snap)
    BY <1>5 DEF RecoverSave
  <2>2. k \in Jobs
    BY DEF Pending
  <2>3. rc' \in [Recoverers -> RecovererState]
    BY <1>1, <1>2, <2>1, <2>2 DEF RecPC
  <2>4. store' \in [Jobs -> Record] /\ disk' \in [Jobs -> Record]
    BY <1>3, <2>1, <2>2, SaveFacts
  <2> QED BY <1>5, <2>3, <2>4 DEF RecoverSave, TypeOK
<1>6. CASE RecoverSkip(r)
  <2>1. rc' \in [Recoverers -> RecovererState]
    BY <1>1, <1>2, <1>3, <1>6 DEF RecoverSkip, RecPC
  <2> QED BY <1>6, <2>1 DEF RecoverSkip, TypeOK
<1>7. CASE RecoverCache(r)
  <2>1. rc' \in [Recoverers -> RecovererState]
    BY <1>1, <1>2, <1>7 DEF RecoverCache, RecPC
  <2>2. mem' \in [Jobs -> Status] /\ payloads' \subseteq Jobs
    BY <1>1, <1>3, <1>7 DEF RecoverCache, TypeOK
  <2> QED BY <1>7, <2>1, <2>2 DEF RecoverCache, TypeOK
<1>8. CASE RecoverSend(r)
  <2>1. rc' \in [Recoverers -> RecovererState]
    BY <1>1, <1>2, <1>3, <1>8 DEF RecoverSend, RecPC
  <2>2. /\ queue' \in Seq(Jobs) /\ Len(queue') <= QueueCap
        /\ stray' \subseteq Jobs
    BY <1>1, <1>8, SendFacts DEF RecoverSend, TypeOK
  <2> QED BY <1>8, <2>1, <2>2 DEF RecoverSend, TypeOK
<1>9. CASE RecoverDone(r)
  <2>1. IdleRecoverer \in RecovererState
    BY <1>1 DEF IdleRecoverer, RecPC
  <2>2. rc' \in [Recoverers -> RecovererState]
    BY <1>9, <2>1 DEF RecoverDone, TypeOK
  <2>3. published' = TRUE \/ published' = FALSE
    <3>1. published' = (published \/ r = Boot)
      BY <1>9, Zenon DEF RecoverDone
    <3> HIDE DEF TypeOK
    <3> QED BY <3>1, Zenon
  <2> QED BY <1>9, <2>2, <2>3 DEF RecoverDone, TypeOK
<1> QED BY <1>4, <1>5, <1>6, <1>7, <1>8, <1>9 DEF RecoverStep

LEMMA TypeReaper ==
  ASSUME TypeOK, NEW j \in Jobs, ReapExpired(j) \/ ReapStalled(j)
  PROVE  TypeOK'
<1>1. /\ NoRecord \in Record
      /\ \A p \in BOOLEAN : jobToRecord("queued", p) \in Record
  BY DEF NoRecord, Record, Status, Open, jobToRecord
<1>2. CASE ReapExpired(j)
  <2>1. store' \in [Jobs -> Record] /\ disk' \in [Jobs -> Record]
    BY <1>1, <1>2, SaveFacts DEF ReapExpired
  <2> QED BY <1>2, <2>1 DEF ReapExpired, TypeOK, Status, threads
<1>3. CASE ReapStalled(j)
  <2>1. store' \in [Jobs -> Record] /\ disk' \in [Jobs -> Record]
    <3>1. PICK o \in SaveOutcomes : Save(j, jobToRecord("queued", j \in payloads), o)
      BY <1>3 DEF ReapStalled
    <3>2. (j \in payloads) \in BOOLEAN
      OBVIOUS
    <3>3. jobToRecord("queued", j \in payloads) \in Record
      BY <1>1, <3>2
    <3> QED BY <3>1, <3>3, SaveFacts
  <2>2. queue' \in Seq(Jobs) /\ Len(queue') <= QueueCap
    BY <1>3, SendFacts DEF ReapStalled
  <2> QED BY <1>3, <2>1, <2>2 DEF ReapStalled, TypeOK, Status, Open, threads, life
<1> QED BY <1>2, <1>3

ClientStep(c) ==
  \/ \E j \in Jobs : GetMiss(c, j) \/ PatchRead(c, j)
  \/ GetRead(c) \/ GetCache(c) \/ PatchSave(c) \/ PatchCache(c)

LEMMA TypeClient ==
  ASSUME TypeOK, NEW c \in Clients, ClientStep(c)
  PROVE  TypeOK'
<1> DEFINE ClientState == [pc : ClientPC, job : Jobs, rec : Record]
           i == cl[c].job
<1> USE DEF stored, cached, life
<1>1. /\ i \in Jobs /\ 1 \in Jobs
      /\ cl[c].rec \in Record /\ recordToJob(cl[c].rec) \in Status
      /\ NoRecord \in Record
  BY JobManagerAssumption DEF TypeOK, Jobs, NoRecord, Record, Status, recordToJob
<1>2. IdleClient \in ClientState
  BY <1>1 DEF IdleClient, ClientPC
<1>3. ASSUME NEW pc \in ClientPC, NEW k \in Jobs, NEW rec \in Record, SetClient(c, pc, k, rec)
      PROVE  cl' \in [Clients -> ClientState]
  BY <1>3 DEF SetClient, TypeOK
<1>4. ASSUME NEW j \in Jobs, GetMiss(c, j) PROVE TypeOK'
  <2>1. cl' \in [Clients -> ClientState]
    BY <1>1, <1>3, <1>4 DEF GetMiss, ClientPC
  <2> QED BY <1>4, <2>1 DEF GetMiss, TypeOK
<1>5. ASSUME NEW j \in Jobs, PatchRead(c, j) PROVE TypeOK'
  <2>1. PICK status \in Finished :
          SetClient(c, "patchSave", j, jobToRecord(status, store[j].payload))
    BY <1>5 DEF PatchRead
  <2>2. jobToRecord(status, store[j].payload) \in Record
    BY DEF TypeOK, jobToRecord, Record, Status
  <2>3. cl' \in [Clients -> ClientState]
    BY <1>3, <2>1, <2>2 DEF ClientPC
  <2> QED BY <1>5, <2>3 DEF PatchRead, TypeOK
<1>6. CASE GetCache(c)
  <2>1. mem' \in [Jobs -> Status] /\ payloads' \subseteq Jobs /\ stray' \subseteq Jobs
    BY <1>1, <1>6 DEF GetCache, TypeOK
  <2>2. cl' \in [Clients -> ClientState]
    BY <1>2, <1>6 DEF GetCache, TypeOK
  <2> QED BY <1>6, <2>1, <2>2 DEF GetCache, TypeOK
<1>7. CASE PatchSave(c)
  <2>1. PICK o \in SaveOutcomes :
          /\ Save(i, cl[c].rec, o)
          /\ cl' = [cl EXCEPT ![c] = IF o = "ok" THEN [@ EXCEPT !.pc = "patchCache"]
                                                ELSE IdleClient]
    BY <1>7 DEF PatchSave
  <2>2. store' \in [Jobs -> Record] /\ disk' \in [Jobs -> Record]
    BY <1>1, <2>1, SaveFacts
  <2>3. [cl[c] EXCEPT !.pc = "patchCache"] \in ClientState
    BY DEF TypeOK, ClientPC
  <2>4. cl' \in [Clients -> ClientState]
    BY <1>2, <2>1, <2>3 DEF TypeOK
  <2> QED BY <1>7, <2>2, <2>4 DEF PatchSave, TypeOK
<1>8. CASE PatchCache(c)
  <2>1. cl' \in [Clients -> ClientState] /\ mem' \in [Jobs -> Status]
    BY <1>1, <1>2, <1>8 DEF PatchCache, TypeOK
  <2> QED BY <1>8, <2>1 DEF PatchCache, TypeOK
<1>9. CASE GetRead(c)
  <2>1. [cl[c] EXCEPT !.pc = "getCache", !.rec = store[i]] \in ClientState
    BY <1>1 DEF TypeOK, ClientPC
  <2>2. cl' \in [Clients -> ClientState]
    BY <1>2, <1>9, <2>1 DEF GetRead, TypeOK
  <2> QED BY <1>9, <2>2 DEF GetRead, TypeOK
<1> QED BY <1>4, <1>5, <1>6, <1>7, <1>8, <1>9 DEF ClientStep

LEMMA TypeCrash ==
  ASSUME TypeOK, Crash
  PROVE  TypeOK'
<1>1. crashes' \in 0..MaxCrashes
  BY JobManagerAssumption DEF Crash, TypeOK
<1> QED BY <1>1, TypeRestart DEF Crash, TypeOK

LEMMA TypeNext ==
  ASSUME TypeOK, [Next]_vars
  PROVE  TypeOK'
<1>1. CASE UNCHANGED vars
  BY <1>1 DEF vars, TypeOK
<1>2. CASE Next
  BY <1>2, TypeEnqueue, TypeWorker, TypeRecover, TypeReaper, TypeClient, TypeCrash
     DEF Next, ClientStep
<1> QED BY <1>1, <1>2

(* The manager's variables keep their types, and the queue its bound.      *)
THEOREM TypeCorrect == Spec => []TypeOK
<1>1. Init => TypeOK
  BY TypeInit
<1>2. TypeOK /\ [Next]_vars => TypeOK'
  BY TypeNext
<1> QED BY <1>1, <1>2, PTL DEF Spec

-----------------------------------------------------------------------------
(* No job that can still be executed loses its payload.                    *)

(* Saving a record that has its payload, or deleting one, keeps the rest.  *)
LEMMA PayloadSaved ==
  ASSUME TypeOK, RecordsKeepPayload, NEW j \in Jobs, NEW rec \in Record,
         NEW o \in SaveOutcomes, Save(j, rec, o),
         rec.status # "none" => rec.payload
  PROVE  RecordsKeepPayload'
BY SaveFacts DEF RecordsKeepPayload

LEMMA StoreUntouched ==
  ASSUME RecordsKeepPayload, UNCHANGED stored
  PROVE  RecordsKeepPayload'
BY DEF RecordsKeepPayload, stored

(* One cached job changes: to a finished or absent one, or with a payload. *)
LEMMA PayloadCached ==
  ASSUME TypeOK, CacheHasPayload, NEW j \in Jobs, NEW status \in Status,
         mem' = [mem EXCEPT ![j] = status],
         payloads \ {j} \subseteq payloads',
         status \in Open => j \in payloads'
  PROVE  CacheHasPayload'
BY DEF TypeOK, CacheHasPayload

LEMMA CacheUntouched ==
  ASSUME CacheHasPayload, UNCHANGED mem, payloads \subseteq payloads'
  PROVE  CacheHasPayload'
BY DEF CacheHasPayload

LEMMA PayloadEnqueue ==
  ASSUME TypeOK, LocalStates, PayloadKept, NEW j \in Jobs, EnqueueStep(j)
  PROVE  LocalStates' /\ PayloadKept'
<1>1. LocalStates'
  BY DEF LocalStates, WorkersLocal, RecoverersLocal, ClientsLocal, EnqueueStep, EnqueuePersist,
         EnqueueCache, EnqueueSend, EnqueueRejectSave, EnqueueRejectCache
<1>2. RecordsKeepPayload'
  <2>1. /\ QueuedRecord \in Record /\ QueuedRecord.payload
        /\ jobToRecord("failed", TRUE) \in Record /\ jobToRecord("failed", TRUE).payload
    BY DEF QueuedRecord, jobToRecord, Record, Status, Open, Finished
  <2>2. CASE EnqueuePersist(j)
    BY <2>1, <2>2, PayloadSaved DEF EnqueuePersist, PayloadKept
  <2>3. CASE EnqueueRejectSave(j)
    BY <2>1, <2>3, PayloadSaved DEF EnqueueRejectSave, PayloadKept
  <2>4. CASE EnqueueCache(j) \/ EnqueueSend(j) \/ EnqueueRejectCache(j)
    BY <2>4, StoreUntouched DEF EnqueueCache, EnqueueSend, EnqueueRejectCache, PayloadKept
  <2> QED BY <2>2, <2>3, <2>4 DEF EnqueueStep
<1>3. CacheHasPayload'
  <2>1. CASE EnqueueCache(j)
    <3>1. recordToJob(QueuedRecord) \in Status
      BY DEF recordToJob, QueuedRecord, jobToRecord, Status, Open
    <3> QED BY <2>1, <3>1, PayloadCached DEF EnqueueCache, PayloadKept
  <2>2. CASE EnqueueRejectCache(j)
    <3>1. "failed" \in Status /\ "failed" \notin Open
      BY DEF Status, Open, Finished
    <3> QED BY <2>2, <3>1, PayloadCached DEF EnqueueRejectCache, PayloadKept
  <2>3. CASE EnqueuePersist(j) \/ EnqueueSend(j) \/ EnqueueRejectSave(j)
    BY <2>3, CacheUntouched DEF EnqueuePersist, EnqueueSend, EnqueueRejectSave, PayloadKept, cached
  <2> QED BY <2>1, <2>2, <2>3 DEF EnqueueStep
<1> QED BY <1>1, <1>2, <1>3 DEF PayloadKept

LEMMA PayloadWorker ==
  ASSUME TypeOK, LocalStates, PayloadKept, NEW w \in Workers, WorkerStep(w), ~WorkerPanic(w)
  PROVE  LocalStates' /\ PayloadKept'
<1> DEFINE j == wk[w].job
<1>1. /\ j \in Jobs /\ wk[w].rec \in Record
      /\ store[j] \in Record /\ mem[j] \in Status
      /\ recordToJob(wk[w].rec) = wk[w].rec.status /\ wk[w].rec.status \in Status
      /\ "running" \in Status /\ Finished \cap Open = {} /\ Finished \subseteq Status
  BY DEF TypeOK, recordToJob, Record, Status, Open, Finished
<1>2. RecoverersLocal' /\ ClientsLocal'
  BY DEF LocalStates, RecoverersLocal, ClientsLocal, WorkerStep, WorkerTake, WorkerLoad, WorkerStart,
         WorkerCacheRunning, WorkerRun, WorkerReadPayload, WorkerCachePayload, WorkerFinish,
         WorkerCacheFinished
<1>3. ASSUME NEW pc, NEW k, NEW rec, SetWorker(w, pc, k, rec),
             pc \in {"cacheRunning"} \cup RunPC => rec.status = "running",
             pc \in {"finish", "cacheFinished"} => rec.status \in Finished,
             pc \notin {"idle", "load"} => rec.payload
      PROVE  WorkersLocal'
  BY <1>3 DEF SetWorker, TypeOK, LocalStates, WorkersLocal
<1>4. CASE WorkerTake(w)
  <2>1. WorkersLocal'
    BY <1>3, <1>4 DEF WorkerTake, RunPC
  <2>2. RecordsKeepPayload' /\ CacheHasPayload'
    BY <1>4, StoreUntouched, CacheUntouched DEF WorkerTake, PayloadKept, cached
  <2> QED BY <1>2, <2>1, <2>2 DEF PayloadKept, LocalStates
<1>5. CASE WorkerLoad(w)
  <2>1. jobToRecord(mem[j], TRUE).payload
    BY DEF jobToRecord
  <2>2. store[j].status # "none" => store[j].payload
    BY <1>1 DEF PayloadKept, RecordsKeepPayload
  <2>3. WorkersLocal'
    BY <1>3, <1>5, <2>1, <2>2 DEF WorkerLoad, RunPC
  <2>4. RecordsKeepPayload' /\ CacheHasPayload'
    BY <1>5, StoreUntouched, CacheUntouched DEF WorkerLoad, PayloadKept, cached
  <2> QED BY <1>2, <2>3, <2>4 DEF PayloadKept, LocalStates
<1>6. CASE WorkerStart(w)
  <2> DEFINE rec == jobToRecord("running", wk[w].rec.payload)
  <2>1. wk[w].rec.payload
    BY <1>6 DEF WorkerStart, LocalStates, WorkersLocal
  <2>2. rec \in Record /\ rec.status = "running" /\ rec.payload
    BY <1>1, <2>1 DEF jobToRecord, Record
  <2>3. WorkersLocal'
    BY <1>3, <1>6, <2>2 DEF WorkerStart, RunPC
  <2>4. RecordsKeepPayload'
    BY <1>1, <1>6, <2>2, PayloadSaved DEF WorkerStart, PayloadKept
  <2>5. CacheHasPayload'
    BY <1>6, CacheUntouched DEF WorkerStart, PayloadKept, cached
  <2> QED BY <1>2, <2>3, <2>4, <2>5 DEF PayloadKept, LocalStates
<1>7. CASE WorkerCacheRunning(w)
  <2>1. wk[w].rec.payload /\ wk[w].rec.status = "running"
    BY <1>7 DEF WorkerCacheRunning, LocalStates, WorkersLocal
  <2>2. WorkersLocal'
    BY <1>3, <1>7, <2>1 DEF WorkerCacheRunning, RunPC
  <2>3. CacheHasPayload'
    BY <1>1, <1>7, <2>1, PayloadCached DEF WorkerCacheRunning, PayloadKept
  <2>4. RecordsKeepPayload'
    BY <1>7, StoreUntouched DEF WorkerCacheRunning, PayloadKept
  <2> QED BY <1>2, <2>2, <2>3, <2>4 DEF PayloadKept, LocalStates
<1>8. CASE WorkerRun(w) \/ WorkerReadPayload(w) \/ WorkerCachePayload(w)
  <2>1. wk[w].rec.payload /\ wk[w].rec.status = "running"
    BY <1>8 DEF WorkerRun, WorkerReadPayload, WorkerCachePayload, LocalStates, WorkersLocal, RunPC
  <2>2. ASSUME NEW statuses, statuses \subseteq Finished, Ran(w, statuses) PROVE WorkersLocal'
    <3>1. PICK status \in statuses :
            SetWorker(w, "finish", j, jobToRecord(status, wk[w].rec.payload))
      BY <2>2 DEF Ran
    <3>2. /\ jobToRecord(status, wk[w].rec.payload).status \in Finished
          /\ jobToRecord(status, wk[w].rec.payload).payload
      BY <2>1, <2>2 DEF jobToRecord
    <3> QED BY <1>3, <3>1, <3>2 DEF RunPC
  <2>3. {"failed"} \subseteq Finished
    BY DEF Finished
  <2>4. ASSUME NEW pc \in RunPC, SetWorker(w, pc, j, wk[w].rec) PROVE WorkersLocal'
    BY <1>3, <2>1, <2>4 DEF RunPC
  <2>5. WorkersLocal'
    BY <1>8, <2>2, <2>3, <2>4 DEF WorkerRun, WorkerReadPayload, WorkerCachePayload, RunPC
  <2>6. RecordsKeepPayload'
    BY <1>8, StoreUntouched DEF WorkerRun, WorkerReadPayload, WorkerCachePayload, PayloadKept
  <2>7. CacheHasPayload'
    BY <1>8, CacheUntouched DEF WorkerRun, WorkerReadPayload, WorkerCachePayload, PayloadKept, cached
  <2> QED BY <1>2, <2>5, <2>6, <2>7 DEF PayloadKept, LocalStates
<1>9. CASE WorkerFinish(w)
  <2>1. wk[w].rec.payload /\ wk[w].rec.status \in Finished
    BY <1>9 DEF WorkerFinish, LocalStates, WorkersLocal
  <2>2. WorkersLocal'
    BY <1>3, <1>9, <2>1 DEF WorkerFinish, RunPC
  <2>3. RecordsKeepPayload'
    BY <1>1, <1>9, <2>1, PayloadSaved DEF WorkerFinish, PayloadKept
  <2>4. CacheHasPayload'
    BY <1>9, CacheUntouched DEF WorkerFinish, PayloadKept, cached
  <2> QED BY <1>2, <2>2, <2>3, <2>4 DEF PayloadKept, LocalStates
<1>10. CASE WorkerCacheFinished(w)
  <2>1. wk[w].rec.status \in Finished
    BY <1>10 DEF WorkerCacheFinished, LocalStates, WorkersLocal
  <2>2. WorkersLocal'
    BY <1>3, <1>10 DEF WorkerCacheFinished, RunPC
  <2>3. CacheHasPayload'
    BY <1>1, <1>10, <2>1, PayloadCached DEF WorkerCacheFinished, PayloadKept
  <2>4. RecordsKeepPayload'
    BY <1>10, StoreUntouched DEF WorkerCacheFinished, PayloadKept
  <2> QED BY <1>2, <2>2, <2>3, <2>4 DEF PayloadKept, LocalStates
<1> QED BY <1>4, <1>5, <1>6, <1>7, <1>8, <1>9, <1>10 DEF WorkerStep

LEMMA PayloadRecover ==
  ASSUME TypeOK, LocalStates, PayloadKept, NEW r \in Recoverers, RecoverStep(r)
  PROVE  LocalStates' /\ PayloadKept'
<1> DEFINE i == rc[r].job
<1>1. /\ i \in Jobs /\ rc[r].snap \in [Jobs -> Record]
      /\ NoRecord.status = "none"
      /\ \A k \in Jobs : rc[r].snap[k].status # "none" => rc[r].snap[k].payload
  BY DEF TypeOK, NoRecord, LocalStates, RecoverersLocal
<1>2. WorkersLocal' /\ ClientsLocal'
  BY DEF LocalStates, WorkersLocal, ClientsLocal, RecoverStep, RecoverList, RecoverSave, RecoverSkip,
         RecoverCache, RecoverSend, RecoverDone
<1>3. ASSUME NEW pc, NEW k \in Jobs, NEW snap \in [Jobs -> Record], SetRecoverer(r, pc, k, snap),
             \A m \in Jobs : snap[m].status # "none" => snap[m].payload,
             pc \in {"cache", "send"} => snap[k].status # "none"
      PROVE  RecoverersLocal'
  BY <1>3 DEF SetRecoverer, TypeOK, LocalStates, RecoverersLocal
<1>4. /\ WithoutJob(rc[r].snap, i) \in [Jobs -> Record]
      /\ \A m \in Jobs : WithoutJob(rc[r].snap, i)[m].status # "none"
                             => WithoutJob(rc[r].snap, i)[m].payload
  BY <1>1 DEF WithoutJob, NoRecord, Record, Status
<1>5. 1 \in Jobs
  BY JobManagerAssumption DEF Jobs
<1>6. \A k \in Jobs : /\ Requeued(rc[r].snap[k]) \in Record
                     /\ Requeued(rc[r].snap[k]).status = "queued"
                     /\ Requeued(rc[r].snap[k]).payload = rc[r].snap[k].payload
  BY <1>1 DEF Requeued, Record, Status, Open
<1>7. CASE RecoverList(r)
  <2> DEFINE snap == [k \in Jobs |-> IF k \in Listed THEN store[k] ELSE NoRecord]
  <2>1. snap \in [Jobs -> Record]
    BY DEF TypeOK, NoRecord, Record, Status
  <2>2. \A m \in Jobs : snap[m].status # "none" => snap[m].payload
    BY <1>1 DEF PayloadKept, RecordsKeepPayload
  <2>3. SetRecoverer(r, "scan", 1, snap)
    BY <1>7 DEF RecoverList
  <2> HIDE DEF snap
  <2>4. RecoverersLocal'
    BY <1>3, <1>5, <2>1, <2>2, <2>3
  <2>5. RecordsKeepPayload' /\ CacheHasPayload'
    BY <1>7, StoreUntouched, CacheUntouched DEF RecoverList, PayloadKept, cached
  <2> QED BY <1>2, <2>4, <2>5 DEF PayloadKept, LocalStates
<1>8. CASE RecoverSave(r)
  <2>1. PICK k \in Pending(r), o \in SaveOutcomes :
          /\ Save(k, Requeued(rc[r].snap[k]), o)
          /\ SetRecoverer(r, "cache", k, rc[r].snap)
    BY <1>8 DEF RecoverSave
  <2>2. k \in Jobs /\ rc[r].snap[k].status # "none" /\ rc[r].snap[k].payload
    BY <1>1 DEF Pending
  <2>3. RecoverersLocal'
    BY <1>1, <1>3, <2>1, <2>2
  <2>4. RecordsKeepPayload'
    BY <1>6, <2>1, <2>2, PayloadSaved DEF PayloadKept
  <2>5. CacheHasPayload'
    BY <1>8, CacheUntouched DEF RecoverSave, PayloadKept, cached
  <2> QED BY <1>2, <2>3, <2>4, <2>5 DEF PayloadKept, LocalStates
<1>9. CASE RecoverSkip(r)
  <2>1. RecoverersLocal'
    BY <1>3, <1>4, <1>5, <1>9 DEF RecoverSkip
  <2>2. RecordsKeepPayload' /\ CacheHasPayload'
    BY <1>9, StoreUntouched, CacheUntouched DEF RecoverSkip, PayloadKept, cached
  <2> QED BY <1>2, <2>1, <2>2 DEF PayloadKept, LocalStates
<1>10. CASE RecoverCache(r)
  <2>1. rc[r].snap[i].status # "none" /\ rc[r].snap[i].payload
    BY <1>1, <1>10 DEF RecoverCache, LocalStates, RecoverersLocal
  <2>2. RecoverersLocal'
    BY <1>1, <1>3, <1>10, <2>1 DEF RecoverCache
  <2>3. recordToJob(Requeued(rc[r].snap[i])) \in Status
    BY <1>1, <1>6 DEF recordToJob, Record
  <2>4. CacheHasPayload'
    BY <1>1, <1>10, <2>1, <2>3, PayloadCached DEF RecoverCache, PayloadKept
  <2>5. RecordsKeepPayload'
    BY <1>10, StoreUntouched DEF RecoverCache, PayloadKept
  <2> QED BY <1>2, <2>2, <2>4, <2>5 DEF PayloadKept, LocalStates
<1>11. CASE RecoverSend(r)
  <2>1. RecoverersLocal'
    BY <1>3, <1>4, <1>5, <1>11 DEF RecoverSend
  <2>2. RecordsKeepPayload' /\ CacheHasPayload'
    BY <1>11, StoreUntouched, CacheUntouched DEF RecoverSend, PayloadKept, cached
  <2> QED BY <1>2, <2>1, <2>2 DEF PayloadKept, LocalStates
<1>12. CASE RecoverDone(r)
  <2>1. RecoverersLocal'
    BY <1>12 DEF RecoverDone, IdleRecoverer, NoRecord, TypeOK, LocalStates, RecoverersLocal
  <2>2. RecordsKeepPayload' /\ CacheHasPayload'
    BY <1>12, StoreUntouched, CacheUntouched DEF RecoverDone, PayloadKept, cached
  <2> QED BY <1>2, <2>1, <2>2 DEF PayloadKept, LocalStates
<1> QED BY <1>7, <1>8, <1>9, <1>10, <1>11, <1>12 DEF RecoverStep

(* The reaper writes m.payloads[id] back: it has one for a running job.    *)
LEMMA PayloadReaper ==
  ASSUME TypeOK, LocalStates, PayloadKept, NEW j \in Jobs, ReapExpired(j) \/ ReapStalled(j)
  PROVE  LocalStates' /\ PayloadKept'
<1>1. LocalStates'
  BY DEF LocalStates, WorkersLocal, RecoverersLocal, ClientsLocal, ReapExpired, ReapStalled, threads
<1>2. CASE ReapExpired(j)
  <2>1. NoRecord \in Record /\ NoRecord.status = "none"
    BY DEF NoRecord, Record, Status
  <2>2. RecordsKeepPayload'
    BY <1>2, <2>1, PayloadSaved DEF ReapExpired, PayloadKept
  <2>3. "none" \in Status /\ "none" \notin Open
    BY DEF Status, Open
  <2>4. CacheHasPayload'
    BY <1>2, <2>3, PayloadCached DEF ReapExpired, PayloadKept
  <2> QED BY <1>1, <2>2, <2>4 DEF PayloadKept
<1>3. CASE ReapStalled(j)
  <2>1. j \in payloads
    BY <1>3 DEF ReapStalled, PayloadKept, CacheHasPayload, Open
  <2>2. (j \in payloads) = TRUE
    BY <2>1
  <2>3. PICK o \in SaveOutcomes : Save(j, jobToRecord("queued", TRUE), o)
    BY <1>3, <2>2 DEF ReapStalled
  <2>4. /\ jobToRecord("queued", TRUE) \in Record
        /\ jobToRecord("queued", TRUE).payload
    BY DEF jobToRecord, Record, Status, Open
  <2>5. RecordsKeepPayload'
    BY <2>3, <2>4, PayloadSaved DEF PayloadKept
  <2>6. CacheHasPayload'
    BY <1>3, <2>1, PayloadCached DEF ReapStalled, PayloadKept, Status, Open
  <2> QED BY <1>1, <2>5, <2>6 DEF PayloadKept
<1> QED BY <1>2, <1>3

LEMMA PayloadClient ==
  ASSUME TypeOK, LocalStates, PayloadKept, NEW c \in Clients, ClientStep(c)
  PROVE  LocalStates' /\ PayloadKept'
<1> DEFINE i == cl[c].job
<1>1. /\ i \in Jobs /\ cl[c].rec \in Record
      /\ recordToJob(cl[c].rec) = cl[c].rec.status /\ cl[c].rec.status \in Status
      /\ Finished \cap Open = {} /\ "none" \notin Finished
  BY DEF TypeOK, recordToJob, Record, Open, Finished
<1>2. WorkersLocal' /\ RecoverersLocal'
  BY DEF LocalStates, WorkersLocal, RecoverersLocal, ClientStep, GetMiss, GetRead, GetCache, PatchRead,
         PatchSave, PatchCache
<1>3. /\ cl[c].pc \in {"patchSave", "patchCache"} => cl[c].rec.status \in Finished
      /\ cl[c].pc \notin {"idle", "getRead"} => cl[c].rec.payload /\ cl[c].rec.status # "none"
  BY DEF LocalStates, ClientsLocal
<1>4. \A j \in Jobs : store[j].status # "none" => store[j].payload
  BY DEF PayloadKept, RecordsKeepPayload
<1>5. ASSUME NEW j \in Jobs, GetMiss(c, j) PROVE LocalStates' /\ PayloadKept'
  <2>1. ClientsLocal'
    BY <1>5 DEF GetMiss, SetClient, TypeOK, LocalStates, ClientsLocal
  <2>2. RecordsKeepPayload' /\ CacheHasPayload'
    BY <1>5, StoreUntouched, CacheUntouched DEF GetMiss, PayloadKept, cached
  <2> QED BY <1>2, <2>1, <2>2 DEF PayloadKept, LocalStates
<1>6. ASSUME NEW j \in Jobs, PatchRead(c, j) PROVE LocalStates' /\ PayloadKept'
  <2>1. PICK status \in Finished :
          SetClient(c, "patchSave", j, jobToRecord(status, store[j].payload))
    BY <1>6 DEF PatchRead
  <2>2. store[j].payload
    BY <1>4, <1>6 DEF PatchRead
  <2>3. ClientsLocal'
    BY <1>1, <2>1, <2>2 DEF SetClient, jobToRecord, TypeOK, LocalStates, ClientsLocal
  <2>4. RecordsKeepPayload' /\ CacheHasPayload'
    BY <1>6, StoreUntouched, CacheUntouched DEF PatchRead, PayloadKept, cached
  <2> QED BY <1>2, <2>3, <2>4 DEF PayloadKept, LocalStates
<1>7. CASE GetCache(c)
  <2>1. ClientsLocal'
    BY <1>7 DEF GetCache, IdleClient, TypeOK, LocalStates, ClientsLocal
  <2>2. RecordsKeepPayload'
    BY <1>7, StoreUntouched DEF GetCache, PayloadKept
  <2>3. CacheHasPayload'
    BY <1>1, <1>3, <1>7, PayloadCached DEF GetCache, PayloadKept
  <2> QED BY <1>2, <2>1, <2>2, <2>3 DEF PayloadKept, LocalStates
<1>8. CASE PatchSave(c)
  <2>1. ClientsLocal'
    BY <1>3, <1>8 DEF PatchSave, IdleClient, TypeOK, LocalStates, ClientsLocal
  <2>2. RecordsKeepPayload'
    BY <1>1, <1>3, <1>8, PayloadSaved DEF PatchSave, PayloadKept
  <2>3. CacheHasPayload'
    BY <1>8, CacheUntouched DEF PatchSave, PayloadKept, cached
  <2> QED BY <1>2, <2>1, <2>2, <2>3 DEF PayloadKept, LocalStates
<1>9. CASE PatchCache(c)
  <2>1. ClientsLocal'
    BY <1>9 DEF PatchCache, IdleClient, TypeOK, LocalStates, ClientsLocal
  <2>2. RecordsKeepPayload'
    BY <1>9, StoreUntouched DEF PatchCache, PayloadKept
  <2>3. CacheHasPayload'
    BY <1>1, <1>3, <1>9, PayloadCached DEF PatchCache, PayloadKept
  <2> QED BY <1>2, <2>1, <2>2, <2>3 DEF PayloadKept, LocalStates
<1>10. CASE GetRead(c)
  <2>1. ClientsLocal'
    BY <1>1, <1>4, <1>10 DEF GetRead, IdleClient, TypeOK, LocalStates, ClientsLocal
  <2>2. RecordsKeepPayload' /\ CacheHasPayload'
    BY <1>10, StoreUntouched, CacheUntouched DEF GetRead, PayloadKept, cached
  <2> QED BY <1>2, <2>1, <2>2 DEF PayloadKept, LocalStates
<1> QED BY <1>5, <1>6, <1>7, <1>8, <1>9, <1>10 DEF ClientStep

LEMMA PayloadRestart ==
  ASSUME PayloadKept, Restarted, UNCHANGED disk
  PROVE  LocalStates' /\ PayloadKept'
<1>1. WorkersLocal'
  BY DEF Restarted, WorkersLocal, IdleWorker, RunPC
<1>2. RecoverersLocal'
  BY DEF Restarted, RecoverersLocal, IdleRecoverer, NoRecord
<1>3. ClientsLocal'
  BY DEF Restarted, ClientsLocal, IdleClient
<1>4. RecordsKeepPayload' /\ CacheHasPayload'
  BY DEF Restarted, PayloadKept, RecordsKeepPayload, CacheHasPayload, Open
<1> QED BY <1>1, <1>2, <1>3, <1>4 DEF LocalStates, PayloadKept

LEMMA PayloadInit == Init => LocalStates /\ PayloadKept
BY DEF Init, LocalStates, WorkersLocal, RecoverersLocal, ClientsLocal, PayloadKept, RecordsKeepPayload,
       CacheHasPayload, IdleWorker, IdleRecoverer, IdleClient, NoRecord, Open, RunPC

LEMMA PayloadNext ==
  ASSUME TypeOK, LocalStates, PayloadKept, [Next]_vars
  PROVE  LocalStates' /\ PayloadKept'
<1>1. CASE UNCHANGED vars
  BY <1>1 DEF vars, LocalStates, WorkersLocal, RecoverersLocal, ClientsLocal, PayloadKept,
              RecordsKeepPayload, CacheHasPayload
<1>2. ASSUME NEW w \in Workers, WorkerStep(w) PROVE LocalStates' /\ PayloadKept'
  BY <1>2, PayloadWorker, PayloadRestart DEF WorkerPanic
<1>3. CASE Crash
  BY <1>3, PayloadRestart DEF Crash
<1> QED BY <1>1, <1>2, <1>3, PayloadEnqueue, PayloadRecover, PayloadReaper, PayloadClient
        DEF Next, ClientStep

(* Whatever interleaving of enqueues, executions, recoveries, patches,     *)
(* polls, reaper ticks, failed saves and crashes happens, a record keeps   *)
(* its payload and so does every job the cache calls queued or running.    *)
THEOREM PayloadIsKept == Spec => []PayloadKept
<1>1. Init => TypeOK /\ LocalStates /\ PayloadKept
  BY TypeInit, PayloadInit
<1>2. (TypeOK /\ LocalStates /\ PayloadKept) /\ [Next]_vars
        => (TypeOK /\ LocalStates /\ PayloadKept)'
  BY TypeNext, PayloadNext
<1> QED BY <1>1, <1>2, PTL DEF Spec

-----------------------------------------------------------------------------
(* KnownJobsPersisted.                                                     *)

(* No record disappears, neither from the store nor, when the store has    *)
(* it, from the disk.                                                      *)
RecordsStay ==
  \A k \in Jobs : store[k].status # "none" =>
    /\ store'[k].status # "none"
    /\ disk[k].status # "none" => disk'[k].status # "none"

LEMMA SaveStays ==
  ASSUME TypeOK, NEW j \in Jobs, NEW rec \in Record, NEW o \in SaveOutcomes,
         Save(j, rec, o), rec.status # "none"
  PROVE  RecordsStay
<1>1. CASE o = "ok"
  BY <1>1, SaveFacts DEF RecordsStay
<1>2. CASE o # "ok"
  BY <1>2, SaveFacts DEF RecordsStay
<1> QED BY <1>1, <1>2

LEMMA UnchangedStays == UNCHANGED stored => RecordsStay
BY DEF stored, RecordsStay

(* Enough for a step: what it refers to was referred to, or is stored, and *)
(* a job whose enqueue begins is on the disk.                              *)
LEMMA ReferencesKept ==
  ASSUME ReferredArePersisted, RecordsStay, UNCHANGED expired,
         \A k \in Jobs : Referred(k)' => Referred(k) \/ store'[k].status # "none",
         \A k \in Jobs : enq'[k] \notin {"new", "refused"} =>
                           enq[k] \notin {"new", "refused"} \/ disk'[k].status # "none"
  PROVE  ReferredArePersisted'
<1> SUFFICES ASSUME NEW k \in Jobs \ expired
             PROVE  /\ Referred(k)' => store'[k].status # "none"
                    /\ enq'[k] \notin {"new", "refused"} => disk'[k].status # "none"
  BY DEF ReferredArePersisted
<1>1. Referred(k) => store[k].status # "none"
  BY DEF ReferredArePersisted
<1>2. enq[k] \notin {"new", "refused"} => Referred(k) /\ disk[k].status # "none"
  BY DEF ReferredArePersisted, Referred
<1> QED BY <1>1, <1>2 DEF RecordsStay

LEMMA ReferredEnqueue ==
  ASSUME TypeOK, ReferredArePersisted, NEW j \in Jobs, EnqueueStep(j)
  PROVE  ReferredArePersisted'
<1>1. /\ QueuedRecord \in Record /\ QueuedRecord.status # "none"
      /\ jobToRecord("failed", TRUE) \in Record /\ jobToRecord("failed", TRUE).status # "none"
  BY DEF QueuedRecord, jobToRecord, Record, Status, Open, Finished
<1>2. CASE EnqueuePersist(j)
  <2>1. PICK o \in SaveOutcomes :
          /\ Save(j, QueuedRecord, o)
          /\ enq' = [enq EXCEPT ![j] = IF o = "ok" THEN "cache" ELSE "refused"]
    BY <1>2 DEF EnqueuePersist
  <2>2. /\ o = "ok" => store'[j].status # "none" /\ disk'[j].status # "none"
        /\ RecordsStay
    BY <1>1, <2>1, SaveFacts, SaveStays
  <2>3. \A k \in Jobs : enq'[k] = IF k = j THEN IF o = "ok" THEN "cache" ELSE "refused" ELSE enq[k]
    BY <2>1 DEF TypeOK
  <2>4. \A k \in Jobs : Referred(k)' => Referred(k) \/ store'[k].status # "none"
    BY <1>2, <2>2, <2>3 DEF EnqueuePersist, Referred, InQueue, Holds, cached
  <2> QED BY <1>2, <2>2, <2>3, <2>4, ReferencesKept DEF EnqueuePersist, life
<1>3. CASE EnqueueCache(j)
  <2>1. \A k \in Jobs : Referred(k)' => Referred(k)
    BY <1>3 DEF EnqueueCache, Referred, InQueue, Holds, TypeOK
  <2> QED BY <1>3, <2>1, UnchangedStays, ReferencesKept DEF EnqueueCache, TypeOK, life
<1>4. CASE EnqueueSend(j)
  <2>1. \A k \in Jobs : InQueue(k)' => InQueue(k) \/ k = j
    BY <1>4, SendFacts DEF EnqueueSend
  <2>2. \A k \in Jobs : Referred(k)' => Referred(k)
    BY <1>4, <2>1 DEF EnqueueSend, Referred, Holds, TypeOK, cached
  <2> QED BY <1>4, <2>2, UnchangedStays, ReferencesKept DEF EnqueueSend, TypeOK, life
<1>5. CASE EnqueueRejectSave(j)
  <2>1. RecordsStay
    BY <1>1, <1>5, SaveStays DEF EnqueueRejectSave
  <2>2. \A k \in Jobs : Referred(k)' => Referred(k)
    BY <1>5 DEF EnqueueRejectSave, Referred, InQueue, Holds, TypeOK, cached
  <2> QED BY <1>5, <2>1, <2>2, ReferencesKept DEF EnqueueRejectSave, TypeOK, life
<1>6. CASE EnqueueRejectCache(j)
  <2>1. \A k \in Jobs : Referred(k)' => Referred(k)
    BY <1>6 DEF EnqueueRejectCache, Referred, InQueue, Holds, TypeOK
  <2> QED BY <1>6, <2>1, UnchangedStays, ReferencesKept DEF EnqueueRejectCache, TypeOK, life
<1> QED BY <1>2, <1>3, <1>4, <1>5, <1>6 DEF EnqueueStep

LEMMA ReferredWorker ==
  ASSUME TypeOK, LocalStates, ReferredArePersisted, NEW w \in Workers, WorkerStep(w), ~WorkerPanic(w)
  PROVE  ReferredArePersisted'
<1> DEFINE j == wk[w].job
<1>1. /\ j \in Jobs /\ wk[w].rec \in Record
      /\ "running" # "none" /\ Finished \subseteq Status /\ "none" \notin Finished
  BY DEF TypeOK, Finished, Status
<1>2. UNCHANGED <<enq, rc, cl, expired>>
  BY DEF WorkerStep, WorkerTake, WorkerLoad, WorkerStart, WorkerCacheRunning, WorkerRun,
         WorkerReadPayload, WorkerCachePayload, WorkerFinish, WorkerCacheFinished, life
<1>3. ASSUME NEW pc, NEW rec, SetWorker(w, pc, j, rec), wk[w].pc # "idle"
      PROVE  \A v \in Workers, k \in Jobs : Holds(v, k)' => Holds(v, k)
  BY <1>3 DEF SetWorker, Holds, TypeOK
<1>4. ASSUME NEW k, NEW rec, SetWorker(w, "idle", k, rec)
      PROVE  \A v \in Workers, i \in Jobs : Holds(v, i)' => Holds(v, i)
  BY <1>4 DEF SetWorker, Holds, TypeOK
<1>5. ASSUME RecordsStay, \A k \in Jobs : InQueue(k)' => InQueue(k),
             \A k \in Jobs : mem'[k] # "none" => mem[k] # "none" \/ Referred(k),
             \A v \in Workers, k \in Jobs : Holds(v, k)' => Holds(v, k) \/ Referred(k)
      PROVE  ReferredArePersisted'
  <2>1. \A k \in Jobs : Referred(k)' => Referred(k)
    BY <1>2, <1>5 DEF Referred
  <2> QED BY <1>2, <1>5, <2>1, ReferencesKept
<1>6. wk[w].pc # "idle" => Referred(j)
  BY DEF Referred, Holds
<1>7. CASE WorkerTake(w)
  <2>1. /\ Head(queue) \in Jobs /\ Referred(Head(queue))
        /\ \A k \in Jobs : InQueue(k)' => InQueue(k)
    BY <1>7, TakeFacts DEF WorkerTake, Referred
  <2>2. \A v \in Workers, k \in Jobs : Holds(v, k)' => Holds(v, k) \/ Referred(k)
    BY <1>7, <2>1 DEF WorkerTake, SetWorker, Holds, TypeOK
  <2> QED BY <1>5, <1>7, <2>1, <2>2, UnchangedStays DEF WorkerTake, cached
<1>8. CASE WorkerLoad(w)
  <2>1. \A v \in Workers, k \in Jobs : Holds(v, k)' => Holds(v, k)
    BY <1>3, <1>4, <1>8 DEF WorkerLoad
  <2> QED BY <1>5, <1>8, <2>1, UnchangedStays DEF WorkerLoad, cached, InQueue
<1>9. CASE WorkerStart(w)
  <2> DEFINE rec == jobToRecord("running", wk[w].rec.payload)
  <2>1. rec \in Record /\ rec.status # "none"
    BY <1>1 DEF jobToRecord, Record, Status, Open
  <2>2. RecordsStay
    BY <1>1, <1>9, <2>1, SaveStays DEF WorkerStart
  <2>3. \A v \in Workers, k \in Jobs : Holds(v, k)' => Holds(v, k)
    BY <1>3, <1>9 DEF WorkerStart
  <2> QED BY <1>5, <1>9, <2>2, <2>3 DEF WorkerStart, cached, InQueue
<1>10. CASE WorkerCacheRunning(w) \/ WorkerCacheFinished(w)
  <2>1. \A v \in Workers, k \in Jobs : Holds(v, k)' => Holds(v, k)
    BY <1>3, <1>4, <1>10 DEF WorkerCacheRunning, WorkerCacheFinished
  <2>2. \A k \in Jobs : mem'[k] # "none" => mem[k] # "none" \/ Referred(k)
    BY <1>1, <1>6, <1>10 DEF WorkerCacheRunning, WorkerCacheFinished, TypeOK
  <2> QED BY <1>5, <1>10, <2>1, <2>2, UnchangedStays
          DEF WorkerCacheRunning, WorkerCacheFinished, InQueue
<1>11. CASE WorkerRun(w) \/ WorkerReadPayload(w) \/ WorkerCachePayload(w)
  <2>1. wk[w].pc # "idle" /\ \E pc, rec : SetWorker(w, pc, j, rec)
    BY <1>11 DEF WorkerRun, WorkerReadPayload, WorkerCachePayload, Ran
  <2>2. \A v \in Workers, k \in Jobs : Holds(v, k)' => Holds(v, k)
    BY <1>3, <2>1
  <2>3. UNCHANGED <<stored, mem, queue>>
    BY <1>11 DEF WorkerRun, WorkerReadPayload, WorkerCachePayload, cached
  <2> QED BY <1>5, <2>2, <2>3, UnchangedStays DEF InQueue
<1>12. CASE WorkerFinish(w)
  <2>1. wk[w].rec.status # "none"
    BY <1>1, <1>12 DEF WorkerFinish, LocalStates, WorkersLocal
  <2>2. RecordsStay
    BY <1>1, <1>12, <2>1, SaveStays DEF WorkerFinish
  <2>3. \A v \in Workers, k \in Jobs : Holds(v, k)' => Holds(v, k)
    BY <1>3, <1>12 DEF WorkerFinish
  <2> QED BY <1>5, <1>12, <2>2, <2>3 DEF WorkerFinish, cached, InQueue
<1> QED BY <1>7, <1>8, <1>9, <1>10, <1>11, <1>12 DEF WorkerStep

LEMMA ReferredRecover ==
  ASSUME TypeOK, LocalStates, ReferredArePersisted, NEW r \in Recoverers, RecoverStep(r)
  PROVE  ReferredArePersisted'
<1> DEFINE i == rc[r].job
<1>1. /\ i \in Jobs /\ rc[r].snap \in [Jobs -> Record]
      /\ \A k \in Jobs : /\ Requeued(rc[r].snap[k]) \in Record
                         /\ Requeued(rc[r].snap[k]).status # "none"
      /\ \A k \in Jobs : rc[r].snap[k].status # "none" => Referred(k)
      /\ \A k \in Jobs : WithoutJob(rc[r].snap, i)[k].status # "none" => rc[r].snap[k].status # "none"
  <2>1. i \in Jobs /\ rc[r].snap \in [Jobs -> Record]
    BY DEF TypeOK
  <2> QED BY <2>1 DEF Requeued, Record, Status, Open, Referred, WithoutJob, NoRecord
<1>2. UNCHANGED <<enq, wk, cl, expired>>
  BY DEF RecoverStep, RecoverList, RecoverSave, RecoverSkip, RecoverCache, RecoverSend, RecoverDone, life
<1>3. rc[r].pc \in {"cache", "send"} => Referred(i)
  BY <1>1 DEF LocalStates, RecoverersLocal
<1>4. ASSUME RecordsStay, \A k \in Jobs : InQueue(k)' => InQueue(k) \/ Referred(k),
             \A k \in Jobs : mem'[k] # "none" => mem[k] # "none" \/ Referred(k),
             \A q \in Recoverers, k \in Jobs : rc'[q].snap[k].status # "none"
               => rc[q].snap[k].status # "none" \/ store'[k].status # "none"
      PROVE  ReferredArePersisted'
  <2>1. \A k \in Jobs : Referred(k)' => Referred(k) \/ store'[k].status # "none"
    BY <1>2, <1>4 DEF Referred, Holds
  <2> QED BY <1>2, <1>4, <2>1, ReferencesKept
<1>5. ASSUME NEW pc, NEW k, NEW snap, SetRecoverer(r, pc, k, snap),
             \A m \in Jobs : snap[m].status # "none" => rc[r].snap[m].status # "none"
      PROVE  \A q \in Recoverers, m \in Jobs : rc'[q].snap[m].status # "none"
               => rc[q].snap[m].status # "none"
  BY <1>5 DEF SetRecoverer, TypeOK
<1>6. CASE RecoverList(r)
  <2>1. \A q \in Recoverers, k \in Jobs : rc'[q].snap[k].status # "none"
               => rc[q].snap[k].status # "none" \/ store[k].status # "none"
    BY <1>6 DEF RecoverList, SetRecoverer, TypeOK, NoRecord
  <2> QED BY <1>4, <1>6, <2>1, UnchangedStays DEF RecoverList, cached, stored, InQueue
<1>7. CASE RecoverSave(r)
  <2>1. PICK k \in Pending(r), o \in SaveOutcomes :
          /\ Save(k, Requeued(rc[r].snap[k]), o)
          /\ SetRecoverer(r, "cache", k, rc[r].snap)
    BY <1>7 DEF RecoverSave
  <2>2. RecordsStay
    BY <1>1, <2>1, SaveStays DEF Pending
  <2> QED BY <1>4, <1>5, <1>7, <2>1, <2>2 DEF RecoverSave, cached, InQueue
<1>8. CASE RecoverSkip(r)
  BY <1>1, <1>4, <1>5, <1>8, UnchangedStays DEF RecoverSkip, cached, InQueue
<1>9. CASE RecoverCache(r)
  <2>1. \A k \in Jobs : mem'[k] # "none" => mem[k] # "none" \/ Referred(k)
    BY <1>1, <1>3, <1>9 DEF RecoverCache, TypeOK
  <2> QED BY <1>4, <1>5, <1>9, <2>1, UnchangedStays DEF RecoverCache, InQueue
<1>10. CASE RecoverSend(r)
  <2>1. \A k \in Jobs : InQueue(k)' => InQueue(k) \/ Referred(k)
    BY <1>1, <1>3, <1>10, SendFacts DEF RecoverSend
  <2> QED BY <1>1, <1>4, <1>5, <1>10, <2>1, UnchangedStays DEF RecoverSend, cached
<1>11. CASE RecoverDone(r)
  <2>1. \A q \in Recoverers, k \in Jobs : rc'[q].snap[k].status # "none" => rc[q].snap[k].status # "none"
    BY <1>11 DEF RecoverDone, IdleRecoverer, NoRecord, TypeOK
  <2> QED BY <1>4, <1>11, <2>1, UnchangedStays DEF RecoverDone, cached, InQueue
<1> QED BY <1>6, <1>7, <1>8, <1>9, <1>10, <1>11 DEF RecoverStep

(* Only the reaper deletes a record, and then the job is expired.          *)
LEMMA ReferredReaper ==
  ASSUME TypeOK, ReferredArePersisted, NEW j \in Jobs, ReapExpired(j) \/ ReapStalled(j)
  PROVE  ReferredArePersisted'
<1>1. CASE ReapExpired(j)
  <2>1. NoRecord \in Record
    BY DEF NoRecord, Record, Status
  <2>2. PICK o \in SaveOutcomes : Save(j, NoRecord, o)
    BY <1>1 DEF ReapExpired
  <2>3. \A k \in Jobs : k # j /\ store[k].status # "none" =>
          /\ store'[k].status # "none"
          /\ disk[k].status # "none" => disk'[k].status # "none"
    BY <2>1, <2>2, SaveFacts
  <2>4. expired' = expired \cup {j} /\ UNCHANGED enq
    BY <1>1 DEF ReapExpired, threads
  <2>5. \A k \in Jobs : Referred(k)' => Referred(k)
    BY <1>1 DEF ReapExpired, Referred, InQueue, Holds, threads, TypeOK
  <2>6. SUFFICES ASSUME NEW k \in Jobs \ expired, k # j
                 PROVE  /\ Referred(k)' => store'[k].status # "none"
                        /\ enq'[k] \notin {"new", "refused"} => disk'[k].status # "none"
    BY <2>4 DEF ReferredArePersisted
  <2>7. /\ Referred(k) => store[k].status # "none"
        /\ enq[k] \notin {"new", "refused"} => Referred(k) /\ disk[k].status # "none"
    BY DEF ReferredArePersisted, Referred
  <2> QED BY <2>3, <2>4, <2>5, <2>6, <2>7
<1>2. CASE ReapStalled(j)
  <2> DEFINE rec == jobToRecord("queued", j \in payloads)
  <2>1. /\ jobToRecord("queued", TRUE) \in Record /\ jobToRecord("queued", FALSE) \in Record
        /\ jobToRecord("queued", TRUE).status # "none" /\ jobToRecord("queued", FALSE).status # "none"
    BY DEF jobToRecord, Record, Status, Open
  <2>2. rec \in Record /\ rec.status # "none"
    <3>1. CASE j \in payloads
      <4>1. (j \in payloads) = TRUE
        BY <3>1
      <4> QED BY <2>1, <4>1
    <3>2. CASE j \notin payloads
      <4>1. (j \in payloads) = FALSE
        BY <3>2
      <4> QED BY <2>1, <4>1
    <3> QED BY <3>1, <3>2
  <2>3. RecordsStay
    BY <1>2, <2>2, SaveStays DEF ReapStalled
  <2>4. Referred(j) /\ \A k \in Jobs : InQueue(k)' => InQueue(k) \/ k = j
    BY <1>2, SendFacts DEF ReapStalled, Referred
  <2>5. \A k \in Jobs : Referred(k)' => Referred(k)
    BY <1>2, <2>4 DEF ReapStalled, Referred, Holds, threads, TypeOK
  <2> QED BY <1>2, <2>3, <2>5, ReferencesKept DEF ReapStalled, threads, life
<1> QED BY <1>1, <1>2

LEMMA ReferredClient ==
  ASSUME TypeOK, LocalStates, ReferredArePersisted, NEW c \in Clients, ClientStep(c)
  PROVE  ReferredArePersisted'
<1> DEFINE i == cl[c].job
           At(d, k) == cl[d].job = k /\ cl[d].pc \notin {"idle", "getRead"}
<1>1. /\ i \in Jobs /\ cl[c].rec \in Record
      /\ cl[c].pc \notin {"idle", "getRead"} => cl[c].rec.status # "none" /\ Referred(i)
  BY DEF TypeOK, LocalStates, ClientsLocal, Referred
<1>2. UNCHANGED <<queue, enq, wk, rc, expired>>
  BY DEF ClientStep, GetMiss, GetRead, GetCache, PatchRead, PatchSave, PatchCache, life
<1>3. ASSUME RecordsStay,
             \A k \in Jobs : mem'[k] # "none" => mem[k] # "none" \/ Referred(k),
             \A d \in Clients, k \in Jobs : At(d, k)' => At(d, k) \/ store'[k].status # "none"
      PROVE  ReferredArePersisted'
  <2>1. \A k \in Jobs : Referred(k)' => Referred(k) \/ store'[k].status # "none"
    BY <1>2, <1>3 DEF Referred, Holds, InQueue
  <2> QED BY <1>2, <1>3, <2>1, ReferencesKept
<1>4. ASSUME NEW j \in Jobs, GetMiss(c, j) \/ PatchRead(c, j) PROVE ReferredArePersisted'
  <2>1. \A d \in Clients, k \in Jobs : At(d, k)' => At(d, k) \/ store[k].status # "none"
    <3>1. CASE GetMiss(c, j)
      BY <3>1 DEF GetMiss, SetClient, TypeOK
    <3>2. CASE PatchRead(c, j)
      BY <3>2 DEF PatchRead, SetClient, TypeOK
    <3> QED BY <1>4, <3>1, <3>2
  <2>2. UNCHANGED <<store, disk, mem>>
    BY <1>4 DEF GetMiss, PatchRead, cached, stored
  <2> QED BY <1>3, <2>1, <2>2, UnchangedStays DEF stored
<1>5. CASE PatchSave(c)
  <2>1. RecordsStay
    BY <1>1, <1>5, SaveStays DEF PatchSave
  <2>2. \A d \in Clients, k \in Jobs : At(d, k)' => At(d, k)
    BY <1>5 DEF PatchSave, IdleClient, TypeOK
  <2> QED BY <1>3, <1>5, <2>1, <2>2 DEF PatchSave, cached
<1>6. CASE GetCache(c) \/ PatchCache(c)
  <2>1. \A k \in Jobs : mem'[k] # "none" => mem[k] # "none" \/ Referred(k)
    BY <1>1, <1>6 DEF GetCache, PatchCache, TypeOK
  <2>2. \A d \in Clients, k \in Jobs : At(d, k)' => At(d, k)
    BY <1>6 DEF GetCache, PatchCache, IdleClient, TypeOK
  <2> QED BY <1>3, <1>6, <2>1, <2>2, UnchangedStays DEF GetCache, PatchCache
<1>7. CASE GetRead(c)
  <2>1. \A d \in Clients, k \in Jobs : At(d, k)' => At(d, k) \/ store[k].status # "none"
    BY <1>7 DEF GetRead, IdleClient, TypeOK
  <2> QED BY <1>3, <1>7, <2>1, UnchangedStays DEF GetRead, cached, stored
<1> QED BY <1>4, <1>5, <1>6, <1>7 DEF ClientStep

(* After a restart only accepted jobs are referred to, and those were on   *)
(* the disk.                                                               *)
LEMMA ReferredRestart ==
  ASSUME TypeOK, ReferredArePersisted, Restarted, UNCHANGED <<disk, expired>>
  PROVE  ReferredArePersisted'
<1> SUFFICES ASSUME NEW k \in Jobs \ expired
             PROVE  /\ Referred(k)' => store'[k].status # "none"
                    /\ enq'[k] \notin {"new", "refused"} => disk'[k].status # "none"
  BY DEF ReferredArePersisted
<1>1. /\ enq'[k] \notin {"new", "refused"} => enq[k] = "accepted"
      /\ store' = disk
  BY DEF Restarted
<1>2. ~InQueue(k)'
  BY DEF Restarted, InQueue
<1>3. Referred(k)' => enq'[k] \notin {"new", "refused"}
  BY <1>2 DEF Restarted, Referred, Holds, IdleWorker, IdleRecoverer, IdleClient, NoRecord
<1> QED BY <1>1, <1>3 DEF ReferredArePersisted

LEMMA ReferredInit == Init => ReferredArePersisted
<1> SUFFICES ASSUME Init, NEW k \in Jobs PROVE ~Referred(k) /\ enq[k] = "new"
  BY DEF ReferredArePersisted
<1>1. ~InQueue(k)
  BY DEF Init, InQueue
<1> QED BY <1>1 DEF Init, Referred, Holds, IdleWorker, IdleRecoverer, IdleClient, NoRecord

LEMMA ReferredNext ==
  ASSUME TypeOK, LocalStates, ReferredArePersisted, [Next]_vars
  PROVE  ReferredArePersisted'
<1>1. CASE UNCHANGED vars
  BY <1>1 DEF vars, ReferredArePersisted, Referred, InQueue, Holds
<1>2. ASSUME NEW w \in Workers, WorkerStep(w) PROVE ReferredArePersisted'
  BY <1>2, ReferredWorker, ReferredRestart DEF WorkerPanic
<1>3. CASE Crash
  BY <1>3, ReferredRestart DEF Crash
<1> QED BY <1>1, <1>2, <1>3, ReferredEnqueue, ReferredRecover, ReferredReaper, ReferredClient
        DEF Next, ClientStep

(* Whatever the process knows of, in its cache, its queue or a worker's    *)
(* hands, is in the store, and what was accepted is on the disk, where a   *)
(* restart finds it; unless the reaper has expired it.                     *)
THEOREM KnownArePersisted == Spec => []KnownJobsPersisted
<1>1. Init => TypeOK /\ LocalStates /\ PayloadKept /\ ReferredArePersisted
  BY TypeInit, PayloadInit, ReferredInit
<1>2. (TypeOK /\ LocalStates /\ PayloadKept /\ ReferredArePersisted) /\ [Next]_vars
        => (TypeOK /\ LocalStates /\ PayloadKept /\ ReferredArePersisted)'
  BY TypeNext, PayloadNext, ReferredNext
<1>3. ReferredArePersisted => KnownJobsPersisted
  BY DEF ReferredArePersisted, KnownJobsPersisted, Referred
<1> QED BY <1>1, <1>2, <1>3, PTL DEF Spec

-----------------------------------------------------------------------------
(* NoJobStranded.                                                          *)

Tended == RunningIsExecuted /\ NoJobStranded

LEMMA Statuses ==
  /\ Open \cap Finished = {} /\ "none" \notin Open
  /\ "queued" \in Open /\ "running" \in Open /\ "failed" \in Finished
  /\ "running" \notin Finished
BY DEF Open, Finished

(* Enough for a step: a job that is open afterwards was open before and is *)
(* still attended, or is attended now; and one that is running afterwards  *)
(* was running before and is still executed, or is executed now.           *)
LEMMA StillTended ==
  ASSUME Tended, stray \subseteq stray',
         \A k \in Jobs : KnownOpen(k)' /\ k \notin stray' =>
           Attended(k)' \/ (KnownOpen(k) /\ (Attended(k) => Attended(k)')),
         \A k \in Jobs : mem'[k] = "running" /\ k \notin stray' =>
           \/ \E v \in Workers : Executing(v, k)'
           \/ mem[k] = "running" /\ \A v \in Workers : Executing(v, k) => Executing(v, k)'
  PROVE  Tended'
<1>1. NoJobStranded'
  BY DEF Tended, NoJobStranded
<1>2. RunningIsExecuted'
  BY DEF Tended, RunningIsExecuted
<1> QED BY <1>1, <1>2 DEF Tended

LEMMA TendedEnqueue ==
  ASSUME TypeOK, Tended, NEW j \in Jobs, EnqueueStep(j)
  PROVE  Tended'
<1>1. UNCHANGED <<wk, rc, stray>>
  BY DEF EnqueueStep, EnqueuePersist, EnqueueCache, EnqueueSend, EnqueueRejectSave,
         EnqueueRejectCache, life
<1>2. /\ \A k \in Jobs : mem'[k] = "running" => mem[k] = "running"
      /\ \A v \in Workers, k \in Jobs : /\ Holds(v, k)' <=> Holds(v, k)
                                       /\ Executing(v, k)' <=> Executing(v, k)
  BY <1>1, Statuses DEF EnqueueStep, EnqueuePersist, EnqueueCache, EnqueueSend, EnqueueRejectSave,
         EnqueueRejectCache, cached, TypeOK, recordToJob, QueuedRecord, jobToRecord, Holds, Executing
<1>3. \A k \in Jobs : InQueue(k) => InQueue(k)'
  BY SendFacts DEF EnqueueStep, EnqueuePersist, EnqueueCache, EnqueueSend, EnqueueRejectSave,
         EnqueueRejectCache, InQueue
<1>4. ASSUME NEW k \in Jobs, KnownOpen(k)', k # j PROVE KnownOpen(k) /\ (Attended(k) => Attended(k)')
  <2>1. mem'[k] = mem[k] /\ enq'[k] = enq[k]
    BY <1>4 DEF EnqueueStep, EnqueuePersist, EnqueueCache, EnqueueSend, EnqueueRejectSave,
           EnqueueRejectCache, cached, TypeOK
  <2> QED BY <1>1, <1>3, <1>4, <2>1 DEF KnownOpen, Attended, Holds
<1>5. ASSUME KnownOpen(j)' PROVE Attended(j)' \/ (KnownOpen(j) /\ (Attended(j) => Attended(j)'))
  <2>1. CASE EnqueuePersist(j)
    BY <1>1, <1>3, <1>5, <2>1 DEF EnqueuePersist, cached, KnownOpen, Attended, Holds, TypeOK
  <2>2. CASE EnqueueCache(j)
    BY <2>2 DEF EnqueueCache, Attended, TypeOK
  <2>3. CASE EnqueueSend(j)
    BY <2>3, SendFacts DEF EnqueueSend, Attended, TypeOK
  <2>4. CASE EnqueueRejectSave(j)
    BY <2>4 DEF EnqueueRejectSave, Attended, TypeOK
  <2>5. CASE EnqueueRejectCache(j)
    BY <1>5, <2>5, Statuses DEF EnqueueRejectCache, KnownOpen, TypeOK
  <2> QED BY <2>1, <2>2, <2>3, <2>4, <2>5 DEF EnqueueStep
<1> QED BY <1>1, <1>2, <1>4, <1>5, StillTended

LEMMA TendedWorker ==
  ASSUME TypeOK, LocalStates, PayloadKept, Tended, NEW w \in Workers, WorkerStep(w), ~WorkerPanic(w)
  PROVE  Tended'
<1>0. PICK j \in Jobs : j = wk[w].job
  BY DEF TypeOK
<1>1. /\ UNCHANGED <<enq, rc, stray>>
      /\ recordToJob(wk[w].rec) = wk[w].rec.status
  BY DEF TypeOK, WorkerStep, WorkerTake, WorkerLoad, WorkerStart, WorkerCacheRunning, WorkerRun,
         WorkerReadPayload, WorkerCachePayload, WorkerFinish, WorkerCacheFinished, life, recordToJob
<1>2. ASSUME NEW pc, NEW k, NEW rec, SetWorker(w, pc, k, rec)
      PROVE  /\ wk'[w].job = k /\ wk'[w].pc = pc
             /\ \A v \in Workers \ {w} : wk'[v] = wk[v]
  BY <1>2 DEF SetWorker, TypeOK, Holds, Executing
<1>3. ASSUME NEW pc, NEW rec, SetWorker(w, pc, j, rec), pc # "idle", UNCHANGED queue
      PROVE  \A k \in Jobs : Attended(k) => Attended(k)'
  <2>1. \A v \in Workers, k \in Jobs : Holds(v, k) => Holds(v, k)'
    BY <1>0, <1>2, <1>3 DEF Holds
  <2> QED BY <1>0, <1>1, <1>3, <2>1 DEF Attended, InQueue
<1>4. ASSUME NEW pc, NEW rec, SetWorker(w, pc, j, rec),
             Executing(w, j) => pc \in RunPC \cup {"finish", "cacheFinished"}
      PROVE  \A v \in Workers, k \in Jobs : Executing(v, k) => Executing(v, k)'
  BY <1>0, <1>2, <1>4 DEF Executing
<1>5. CASE WorkerTake(w)
  <2>1. PICK h \in Jobs : /\ h = Head(queue)
                         /\ \A k \in Jobs : InQueue(k) => InQueue(k)' \/ k = h
    BY <1>5, TakeFacts DEF WorkerTake
  <2>2. SetWorker(w, "load", h, NoRecord) /\ wk[w].pc = "idle" /\ UNCHANGED mem
    BY <1>5, <2>1 DEF WorkerTake, cached
  <2>3. Holds(w, h)' /\ \A v \in Workers, k \in Jobs : Holds(v, k) => Holds(v, k)'
    BY <1>0, <1>2, <2>2 DEF Holds
  <2>4. \A k \in Jobs : Attended(k) => Attended(k)'
    BY <1>0, <1>1, <2>1, <2>3 DEF Attended
  <2>5. \A v \in Workers, k \in Jobs : Executing(v, k) => Executing(v, k)'
    BY <1>0, <1>2, <2>2 DEF Executing, RunPC
  <2> QED BY <1>0, <1>1, <2>2, <2>4, <2>5, StillTended DEF KnownOpen
<1>6. CASE WorkerLoad(w)
  <2>1. UNCHANGED <<mem, queue>> /\ wk[w].pc = "load"
    BY <1>6 DEF WorkerLoad, cached
  <2>2. \A v \in Workers, k \in Jobs : Executing(v, k) => Executing(v, k)'
    BY <1>0, <1>2, <1>6, <2>1 DEF WorkerLoad, Executing, RunPC
  <2>3. CASE \E rec : SetWorker(w, "start", j, rec)
    <3>1. \A k \in Jobs : Attended(k) => Attended(k)'
      BY <1>0, <1>3, <2>1, <2>3
    <3> QED BY <1>0, <1>1, <2>1, <2>2, <3>1, StillTended DEF KnownOpen
  <2>4. CASE SetWorker(w, "idle", 1, NoRecord) /\ ~(mem[j] # "none" /\ j \in payloads)
    <3>1. ~KnownOpen(j)
      BY <1>0, <1>1, <2>4, Statuses DEF KnownOpen, PayloadKept, CacheHasPayload
    <3>2. \A k \in Jobs \ {j} : Attended(k) => Attended(k)'
      <4>1. \A v \in Workers, k \in Jobs \ {j} : Holds(v, k) => Holds(v, k)'
        BY <1>0, <1>2, <2>4 DEF Holds
      <4> QED BY <1>0, <1>1, <2>1, <4>1 DEF Attended, InQueue
    <3> QED BY <1>0, <1>1, <2>1, <2>2, <3>1, <3>2, StillTended DEF KnownOpen
  <2> QED BY <1>0, <1>6, <2>3, <2>4 DEF WorkerLoad
<1>7. CASE \/ WorkerStart(w) \/ WorkerFinish(w)
          \/ WorkerRun(w) \/ WorkerReadPayload(w) \/ WorkerCachePayload(w)
  <2>1. UNCHANGED <<mem, queue>>
    BY <1>7 DEF WorkerStart, WorkerRun, WorkerReadPayload, WorkerCachePayload, WorkerFinish, cached
  <2>2. PICK pc \in {"cacheRunning", "readPayload", "cachePayload", "finish", "cacheFinished"} :
          (\E rec : SetWorker(w, pc, j, rec)) /\ (pc = "cacheRunning" => wk[w].pc = "start")
    BY <1>0, <1>7 DEF WorkerStart, WorkerRun, WorkerReadPayload, WorkerCachePayload, WorkerFinish, Ran
  <2>3. \A k \in Jobs : Attended(k) => Attended(k)'
    BY <1>0, <1>3, <2>1, <2>2
  <2>4. \A v \in Workers, k \in Jobs : Executing(v, k) => Executing(v, k)'
    BY <1>0, <1>4, <2>2 DEF Executing, RunPC
  <2> QED BY <1>0, <1>1, <2>1, <2>3, <2>4, StillTended DEF KnownOpen
<1>8. CASE WorkerCacheRunning(w)
  <2>1. /\ SetWorker(w, "run", j, wk[w].rec) /\ UNCHANGED queue
        /\ \A k \in Jobs : k # j => mem'[k] = mem[k]
    BY <1>0, <1>1, <1>8 DEF WorkerCacheRunning, TypeOK
  <2>2. Executing(w, j)' /\ Holds(w, j)'
    BY <1>0, <1>2, <2>1 DEF Executing, Holds, RunPC
  <2>3. \A k \in Jobs : Attended(k) => Attended(k)'
    BY <1>0, <1>3, <2>1
  <2>4. \A v \in Workers, k \in Jobs : Executing(v, k) => Executing(v, k)'
    BY <1>0, <1>4, <2>1 DEF RunPC
  <2>5. Attended(j)'
    BY <2>2 DEF Attended
  <2> QED BY <1>0, <1>1, <2>1, <2>2, <2>3, <2>4, <2>5, StillTended DEF KnownOpen
<1>9. CASE WorkerCacheFinished(w)
  <2>1. /\ SetWorker(w, "idle", 1, NoRecord) /\ UNCHANGED queue
        /\ mem'[j] \in Finished
        /\ \A k \in Jobs : k # j => mem'[k] = mem[k]
    BY <1>0, <1>1, <1>9 DEF WorkerCacheFinished, LocalStates, WorkersLocal, TypeOK
  <2>2. \A v \in Workers, k \in Jobs : k # j /\ Holds(v, k) => Holds(v, k)'
    BY <1>0, <1>2, <2>1 DEF Holds
  <2>3. \A v \in Workers, k \in Jobs : k # j /\ Executing(v, k) => Executing(v, k)'
    BY <1>0, <1>2, <2>1 DEF Executing
  <2>4. \A k \in Jobs : k # j /\ Attended(k) => Attended(k)'
    BY <1>1, <2>1, <2>2 DEF Attended, InQueue
  <2>5. ~KnownOpen(j)' /\ mem'[j] # "running"
    BY <2>1, Statuses DEF KnownOpen
  <2>6. \A k \in Jobs : KnownOpen(k)' => k # j /\ KnownOpen(k)
    BY <2>1, <2>5 DEF KnownOpen
  <2> QED BY <1>1, <2>1, <2>3, <2>4, <2>5, <2>6, StillTended
<1> QED BY <1>5, <1>6, <1>7, <1>8, <1>9 DEF WorkerStep

(* A recovered job is about to be sent, sent, or, when the queue is full,  *)
(* one of stray.                                                           *)
LEMMA TendedRecover ==
  ASSUME TypeOK, Tended, NEW r \in Recoverers, RecoverStep(r)
  PROVE  Tended'
<1>0. PICK i \in Jobs : i = rc[r].job
  BY DEF TypeOK
<1>1. /\ UNCHANGED <<enq, wk>> /\ stray \subseteq stray'
      /\ \A v \in Workers, k \in Jobs : Executing(v, k) => Executing(v, k)'
      /\ \A k \in Jobs : InQueue(k) => InQueue(k)'
  <2>1. /\ UNCHANGED <<enq, wk>> /\ stray \subseteq stray'
    BY DEF RecoverStep, RecoverList, RecoverSave, RecoverSkip, RecoverCache, RecoverSend, RecoverDone, life
  <2>2. \A k \in Jobs : InQueue(k) => InQueue(k)'
    BY <1>0, SendFacts DEF RecoverStep, RecoverList, RecoverSave, RecoverSkip, RecoverCache, RecoverSend,
                           RecoverDone, InQueue
  <2> QED BY <2>1, <2>2 DEF Executing
<1>2. ASSUME UNCHANGED mem,
             \A q \in Recoverers : rc[q].pc = "send" => rc'[q] = rc[q]
      PROVE  Tended'
  <2>1. \A k \in Jobs : Attended(k) => Attended(k)'
    BY <1>1, <1>2 DEF Attended, Holds
  <2> QED BY <1>1, <1>2, <2>1, StillTended DEF KnownOpen
<1>3. ASSUME NEW pc, NEW k, NEW snap, SetRecoverer(r, pc, k, snap)
      PROVE  /\ rc'[r].pc = pc /\ rc'[r].job = k
             /\ \A q \in Recoverers : q # r => rc'[q] = rc[q]
  BY <1>3 DEF SetRecoverer, TypeOK
<1>4. CASE RecoverList(r) \/ RecoverSave(r) \/ RecoverSkip(r)
  <2>1. UNCHANGED mem /\ rc[r].pc # "send"
    BY <1>4 DEF RecoverList, RecoverSave, RecoverSkip, cached
  <2>2. \E pc, k, snap : SetRecoverer(r, pc, k, snap)
    BY <1>4 DEF RecoverList, RecoverSave, RecoverSkip
  <2> QED BY <1>2, <1>3, <2>1, <2>2
<1>5. CASE RecoverDone(r)
  <2>1. UNCHANGED mem /\ rc[r].pc # "send" /\ \A q \in Recoverers : q # r => rc'[q] = rc[q]
    BY <1>5 DEF RecoverDone, cached, TypeOK
  <2> QED BY <1>2, <2>1
<1>6. CASE RecoverCache(r)
  <2>1. /\ SetRecoverer(r, "send", i, rc[r].snap) /\ rc[r].pc = "cache"
        /\ \A k \in Jobs : mem'[k] = IF k = i THEN "queued" ELSE mem[k]
    BY <1>0, <1>6 DEF RecoverCache, recordToJob, Requeued, Record, TypeOK
  <2>2. Attended(i)'
    BY <1>3, <2>1 DEF Attended
  <2>3. \A q \in Recoverers : rc[q].pc = "send" => rc'[q] = rc[q]
    BY <1>3, <2>1
  <2>4. \A k \in Jobs : Attended(k) => Attended(k)'
    BY <1>1, <2>3 DEF Attended, Holds
  <2>5. \A k \in Jobs : KnownOpen(k)' => k = i \/ KnownOpen(k)
    BY <2>1 DEF KnownOpen
  <2> QED BY <1>1, <2>1, <2>2, <2>4, <2>5, StillTended
<1>7. CASE RecoverSend(r)
  <2>1. /\ \E snap : SetRecoverer(r, "scan", 1, snap)
        /\ rc[r].job = i /\ UNCHANGED mem
        /\ InQueue(i)' \/ i \in stray'
    BY <1>0, <1>7, SendFacts DEF RecoverSend, cached
  <2>2. \A q \in Recoverers : q # r => rc'[q] = rc[q]
    BY <1>3, <2>1
  <2>3. \A k \in Jobs : k # i /\ Attended(k) => Attended(k)'
    BY <1>1, <2>1, <2>2 DEF Attended, Holds
  <2>4. InQueue(i)' => Attended(i)'
    BY DEF Attended
  <2> QED BY <1>1, <2>1, <2>3, <2>4, StillTended DEF KnownOpen
<1> QED BY <1>4, <1>5, <1>6, <1>7 DEF RecoverStep

(* The reaper requeues only what is cached as running: some worker is      *)
(* executing it, so that it is attended even when the queue is full.       *)
LEMMA TendedReaper ==
  ASSUME TypeOK, Tended, NEW j \in Jobs, ReapExpired(j) \/ ReapStalled(j)
  PROVE  Tended'
<1>1. /\ UNCHANGED <<enq, wk, rc, stray>>
      /\ \A k \in Jobs : InQueue(k) => InQueue(k)'
  BY SendFacts DEF ReapExpired, ReapStalled, threads, life, InQueue
<1>2. /\ \A v \in Workers, k \in Jobs : Executing(v, k) => Executing(v, k)'
      /\ \A k \in Jobs : Attended(k) => Attended(k)'
  BY <1>1 DEF Executing, Attended, Holds
<1>3. CASE ReapExpired(j)
  <2>1. \A k \in Jobs : mem'[k] = IF k = j THEN "none" ELSE mem[k]
    BY <1>3 DEF ReapExpired, TypeOK
  <2>2. \A k \in Jobs : KnownOpen(k)' => KnownOpen(k)
    BY <2>1, Statuses DEF KnownOpen
  <2> QED BY <1>1, <1>2, <2>1, <2>2, StillTended
<1>4. CASE ReapStalled(j)
  <2>1. mem[j] = "running" /\ \A k \in Jobs : mem'[k] = IF k = j THEN "queued" ELSE mem[k]
    BY <1>4 DEF ReapStalled, TypeOK
  <2>2. \A k \in Jobs : KnownOpen(k)' => KnownOpen(k)
    BY <2>1, Statuses DEF KnownOpen
  <2> QED BY <1>1, <1>2, <2>1, <2>2, StillTended
<1> QED BY <1>3, <1>4

LEMMA TendedClient ==
  ASSUME TypeOK, LocalStates, Tended, NEW c \in Clients, ClientStep(c)
  PROVE  Tended'
<1>0. PICK i \in Jobs : i = cl[c].job
  BY DEF TypeOK
<1>1. UNCHANGED <<queue, enq, wk, rc>> /\ stray \subseteq stray'
  BY DEF ClientStep, GetMiss, GetRead, GetCache, PatchRead, PatchSave, PatchCache, life
<1>2. /\ \A v \in Workers, k \in Jobs : Executing(v, k) => Executing(v, k)'
      /\ \A k \in Jobs : Attended(k) => Attended(k)'
  BY <1>1 DEF Executing, Attended, Holds, InQueue
<1>3. CASE UNCHANGED mem
  BY <1>1, <1>2, <1>3, StillTended DEF KnownOpen
<1>4. CASE GetCache(c)
  <2>1. /\ \A k \in Jobs : k # i => mem'[k] = mem[k]
        /\ mem'[i] \in Open => i \in stray'
    BY <1>0, <1>4 DEF GetCache, recordToJob, TypeOK
  <2>2. mem'[i] = "running" => i \in stray'
    BY <2>1, Statuses
  <2> QED BY <1>1, <1>2, <2>1, <2>2, StillTended DEF KnownOpen
<1>5. CASE PatchCache(c)
  <2>1. /\ \A k \in Jobs : k # i => mem'[k] = mem[k]
        /\ mem'[i] \in Finished
    BY <1>0, <1>5 DEF PatchCache, recordToJob, TypeOK, LocalStates, ClientsLocal
  <2>2. mem'[i] \notin Open /\ mem'[i] # "running"
    BY <2>1, Statuses
  <2> QED BY <1>1, <1>2, <2>1, <2>2, StillTended DEF KnownOpen
<1> QED BY <1>3, <1>4, <1>5 DEF ClientStep, GetMiss, GetRead, PatchRead, PatchSave, cached

LEMMA TendedRestart == Restarted => Tended'
BY Statuses DEF Restarted, Tended, RunningIsExecuted, NoJobStranded, KnownOpen

LEMMA TendedInit == Init => Tended
BY Statuses DEF Init, Tended, RunningIsExecuted, NoJobStranded, KnownOpen

LEMMA TendedNext ==
  ASSUME TypeOK, LocalStates, PayloadKept, Tended, [Next]_vars
  PROVE  Tended'
<1>1. CASE UNCHANGED vars
  BY <1>1 DEF vars, Tended, RunningIsExecuted, NoJobStranded, KnownOpen, Attended, InQueue, Holds, Executing
<1>2. ASSUME NEW w \in Workers, WorkerStep(w) PROVE Tended'
  BY <1>2, TendedWorker, TendedRestart DEF WorkerPanic
<1>3. CASE Crash
  BY <1>3, TendedRestart DEF Crash
<1> QED BY <1>1, <1>2, <1>3, TendedEnqueue, TendedRecover, TendedReaper, TendedClient
        DEF Next, ClientStep

(* A job that polling shows as queued or running is in the queue, in a     *)
(* worker's hands or about to be sent; only a recovery that found the      *)
(* queue full and a Get that cached an old answer strand one.              *)
THEOREM NoneIsStranded == Spec => []NoJobStranded
<1>1. Init => TypeOK /\ LocalStates /\ PayloadKept /\ Tended
  BY TypeInit, PayloadInit, TendedInit
<1>2. (TypeOK /\ LocalStates /\ PayloadKept /\ Tended) /\ [Next]_vars
        => (TypeOK /\ LocalStates /\ PayloadKept /\ Tended)'
  BY TypeNext, PayloadNext, TendedNext
<1>3. Tended => NoJobStranded
  BY DEF Tended
<1> QED BY <1>1, <1>2, <1>3, PTL DEF Spec

=============================================================================
