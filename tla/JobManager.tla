------------------------------ MODULE JobManager ------------------------------
(***************************************************************************)
(* internal/jobs/manager.go: the asynchronous job manager.  HTTP handlers  *)
(* enqueue generation jobs, a few workers execute them, a reaper and every *)
(* job request recover "open" jobs from the store, and clients poll and    *)
(* patch results.  The store survives a crash; the in-memory cache         *)
(* (mem, payloads), the queue channel and every goroutine do not.          *)
(*                                                                         *)
(* One action stands for the code between two points where another         *)
(* goroutine can get in: a call of the store, or one critical section of   *)
(* Manager.mu.  Job data is abstracted to what the properties tell apart:  *)
(* a status, and whether the payload is there.                             *)
(***************************************************************************)
EXTENDS Naturals, Sequences, FiniteSets

CONSTANTS
  NumJobs,            \* jobs that may be enqueued; the bound of the model
  Workers,            \* the worker goroutines (2 in httpapi)
  Recoverers,         \* goroutines that call recoverOpenJobs
  Boot,               \* the one of them that runs NewManager
  Clients,            \* goroutines that serve Get and the Patch operations
  QueueCap,           \* capacity of the queue channel (256)
  ListLimit,          \* limit given to ListOpenGenerationJobs (500)
  SaveOutcomes,       \* what SaveGenerationJob may do: see Saved
  MaxCrashes,         \* bound on process crashes from outside
  MayStall,           \* can a run outlast the reaper's 20 minutes?
  MayExpire,          \* can a finished job reach the TTL?
  RunnerNeedsServer   \* does the runner go through Server.jobs (httpapi)?

ASSUME JobManagerAssumption ==
  /\ NumJobs \in Nat \ {0}
  /\ QueueCap \in Nat
  /\ ListLimit \in Nat
  /\ MaxCrashes \in Nat
  /\ Boot \in Recoverers
  /\ SaveOutcomes \subseteq {"ok", "lost", "applied"}
  /\ {MayStall, MayExpire, RunnerNeedsServer} \subseteq BOOLEAN

VARIABLES
  store,      \* the generation_jobs records the store answers with
  disk,       \* those that a restarted process finds
  mem,        \* Manager.jobs
  payloads,   \* the domain of Manager.payloads
  queue,      \* Manager.queue
  enq,        \* where the enqueue of each job stands
  wk,         \* the workers' local state
  rc,         \* the recoverers' local state
  cl,         \* the clients' local state
  published,  \* has NewManager returned, so that Server.jobs is set?
  crashes,    \* crashes so far
  stray,      \* history: ids whose recovery send found the queue full, or
              \* that a Get cached while open
  expired     \* history: ids the reaper has deleted

stored  == <<store, disk>>
cached  == <<mem, payloads>>
threads == <<enq, wk, rc, cl>>
life    == <<published, crashes, stray, expired>>
vars    == <<store, disk, mem, payloads, queue, enq, wk, rc, cl, published, crashes,
             stray, expired>>

-----------------------------------------------------------------------------
Jobs     == 1..NumJobs
Open     == {"queued", "running"}
Finished == {"succeeded", "failed"}
Status   == {"none"} \cup Open \cup Finished

Record   == [status : Status, payload : BOOLEAN]
NoRecord == [status |-> "none", payload |-> FALSE]

(* What is kept of a job (jobToRecord) is its status and the payload the   *)
(* caller passes; a job read back (recordToJob) is its status.             *)
jobToRecord(status, payload) == [status |-> status, payload |-> payload]
recordToJob(rec) == rec.status

(* SaveGenerationJob replaces the whole record.  It can fail: the SQL      *)
(* stores then keep the old record ("lost"), the JSON store has already    *)
(* replaced it in memory when writing the file fails ("applied"); the next *)
(* write that succeeds puts everything it has in the file.                 *)
Saved(j, rec, outcome) ==
  IF outcome = "lost" THEN store ELSE [store EXCEPT ![j] = rec]

Save(j, rec, outcome) ==
  /\ store' = Saved(j, rec, outcome)
  /\ disk' = IF outcome = "ok" THEN Saved(j, rec, outcome) ELSE disk

(* A non-blocking send on the queue channel.                               *)
HasRoom == Len(queue) < QueueCap
BlindlySent(j) == Append(queue, j)   \* mutant: no default branch

Sent(j) == IF HasRoom THEN Append(queue, j) ELSE queue

InQueue(j) == \E i \in 1..Len(queue) : queue[i] = j

IdleWorker    == [pc |-> "idle", job |-> 1, rec |-> NoRecord]
IdleClient    == [pc |-> "idle", job |-> 1, rec |-> NoRecord]
IdleRecoverer == [pc |-> "idle", job |-> 1, snap |-> [j \in Jobs |-> NoRecord]]

EnqPC    == {"new", "cache", "send", "rejectSave", "rejectCache", "accepted", "refused"}
WorkerPC == {"idle", "load", "start", "cacheRunning", "run", "readPayload", "cachePayload",
             "finish", "cacheFinished"}
ClientPC == {"idle", "getRead", "getCache", "patchSave", "patchCache"}
RecPC    == {"idle", "scan", "cache", "send"}

(* A worker is executing j once it has put the running status in the       *)
(* cache, and holds j from the moment it has taken the id.                 *)
RunPC == {"run", "readPayload", "cachePayload"}

Holds(w, j)     == wk[w].job = j /\ wk[w].pc # "idle"
Executing(w, j) == wk[w].job = j /\ wk[w].pc \in RunPC \cup {"finish", "cacheFinished"}

TypeOK ==
  /\ store \in [Jobs -> Record] /\ disk \in [Jobs -> Record]
  /\ mem \in [Jobs -> Status]
  /\ payloads \subseteq Jobs
  /\ queue \in Seq(Jobs)
  /\ Len(queue) <= QueueCap
  /\ enq \in [Jobs -> EnqPC]
  /\ wk \in [Workers -> [pc : WorkerPC, job : Jobs, rec : Record]]
  /\ rc \in [Recoverers -> [pc : RecPC, job : Jobs, snap : [Jobs -> Record]]]
  /\ cl \in [Clients -> [pc : ClientPC, job : Jobs, rec : Record]]
  /\ published \in BOOLEAN
  /\ crashes \in 0..MaxCrashes
  /\ stray \subseteq Jobs
  /\ expired \subseteq Jobs

Init ==
  /\ store = [j \in Jobs |-> NoRecord]
  /\ disk = store
  /\ mem = [j \in Jobs |-> "none"]
  /\ payloads = {}
  /\ queue = <<>>
  /\ enq = [j \in Jobs |-> "new"]
  /\ wk = [w \in Workers |-> IdleWorker]
  /\ rc = [r \in Recoverers |-> IdleRecoverer]
  /\ cl = [c \in Clients |-> IdleClient]
  /\ published = FALSE
  /\ crashes = 0
  /\ stray = {}
  /\ expired = {}

-----------------------------------------------------------------------------
(* enqueue: persist, cache, then a non-blocking send.  Ids are fresh, so a *)
(* job is enqueued once; jobs are numbered in the order they are persisted.*)

QueuedRecord == jobToRecord("queued", TRUE)

(* Mutant: the error of persist is ignored. *)
EnqueuePersistIgnoringErrors(j) ==
  /\ published
  /\ enq[j] = "new"
  /\ \A k \in Jobs : k < j => enq[k] # "new"
  /\ \E o \in SaveOutcomes : Save(j, QueuedRecord, o)
  /\ enq' = [enq EXCEPT ![j] = "cache"]
  /\ UNCHANGED <<cached, queue, wk, rc, cl, life>>

EnqueuePersist(j) ==
  /\ published
  /\ enq[j] = "new"
  /\ \A k \in Jobs : k < j => enq[k] # "new"
  /\ \E o \in SaveOutcomes :
       /\ Save(j, QueuedRecord, o)
       /\ enq' = [enq EXCEPT ![j] = IF o = "ok" THEN "cache" ELSE "refused"]
  /\ UNCHANGED <<cached, queue, wk, rc, cl, life>>

EnqueueCache(j) ==
  /\ enq[j] = "cache"
  /\ mem' = [mem EXCEPT ![j] = recordToJob(QueuedRecord)]
  /\ payloads' = payloads \cup {j}
  /\ enq' = [enq EXCEPT ![j] = "send"]
  /\ UNCHANGED <<stored, queue, wk, rc, cl, life>>

(* Mutant: a full queue is not noticed. *)
EnqueueSendUnchecked(j) ==
  /\ enq[j] = "send"
  /\ queue' = Sent(j)
  /\ enq' = [enq EXCEPT ![j] = "accepted"]
  /\ UNCHANGED <<stored, cached, wk, rc, cl, life>>

EnqueueSend(j) ==
  /\ enq[j] = "send"
  /\ queue' = Sent(j)
  /\ enq' = [enq EXCEPT ![j] = IF HasRoom THEN "accepted" ELSE "rejectSave"]
  /\ UNCHANGED <<stored, cached, wk, rc, cl, life>>

(* The queue is full: the job is marked failed, in the store and then in   *)
(* the cache, and the caller gets the error.                               *)
EnqueueRejectSave(j) ==
  /\ enq[j] = "rejectSave"
  /\ \E o \in SaveOutcomes :
       Save(j, jobToRecord("failed", TRUE), o)
  /\ enq' = [enq EXCEPT ![j] = "rejectCache"]
  /\ UNCHANGED <<cached, queue, wk, rc, cl, life>>

EnqueueRejectCache(j) ==
  /\ enq[j] = "rejectCache"
  /\ payloads' = payloads \ {j}
  /\ mem' = [mem EXCEPT ![j] = "failed"]
  /\ enq' = [enq EXCEPT ![j] = "refused"]
  /\ UNCHANGED <<stored, queue, wk, rc, cl, life>>

EnqueueStep(j) ==
  \/ EnqueuePersist(j)
  \/ EnqueueCache(j)
  \/ EnqueueSend(j)
  \/ EnqueueRejectSave(j)
  \/ EnqueueRejectCache(j)

-----------------------------------------------------------------------------
(* worker and execute                                                      *)

SetWorker(w, pc, j, rec) == wk' = [wk EXCEPT ![w] = [pc |-> pc, job |-> j, rec |-> rec]]

WorkerTake(w) ==
  /\ wk[w].pc = "idle"
  /\ queue # <<>>
  /\ queue' = Tail(queue)
  /\ SetWorker(w, "load", Head(queue), NoRecord)
  /\ UNCHANGED <<stored, cached, enq, rc, cl, life>>

(* loadForExecute: the cache when it has both job and payload, else the    *)
(* store; the status found does not matter.                                *)
WorkerLoad(w) ==
  LET j == wk[w].job IN
  /\ wk[w].pc = "load"
  /\ \/ /\ mem[j] # "none" /\ j \in payloads
        /\ SetWorker(w, "start", j, jobToRecord(mem[j], TRUE))
     \/ /\ ~(mem[j] # "none" /\ j \in payloads)
        /\ store[j].status # "none"
        /\ SetWorker(w, "start", j, store[j])
     \/ /\ ~(mem[j] # "none" /\ j \in payloads)
        /\ store[j].status = "none"
        /\ SetWorker(w, "idle", 1, NoRecord)
  /\ UNCHANGED <<stored, cached, queue, enq, rc, cl, life>>

WorkerStart(w) ==
  LET rec == jobToRecord("running", wk[w].rec.payload) IN
  /\ wk[w].pc = "start"
  /\ \E o \in SaveOutcomes : Save(wk[w].job, rec, o)
  /\ SetWorker(w, "cacheRunning", wk[w].job, rec)
  /\ UNCHANGED <<cached, queue, enq, rc, cl, life>>

(* Mutant: the payload is not handed to cache. *)
WorkerCacheRunningBare(w) ==
  /\ wk[w].pc = "cacheRunning"
  /\ mem' = [mem EXCEPT ![wk[w].job] = recordToJob(wk[w].rec)]
  /\ payloads' = payloads \ {wk[w].job}
  /\ SetWorker(w, "run", wk[w].job, wk[w].rec)
  /\ UNCHANGED <<stored, queue, enq, rc, cl, life>>

(* cache: a nil payload deletes the cached one.                            *)
WorkerCacheRunning(w) ==
  /\ wk[w].pc = "cacheRunning"
  /\ mem' = [mem EXCEPT ![wk[w].job] = recordToJob(wk[w].rec)]
  /\ payloads' = IF wk[w].rec.payload THEN payloads \cup {wk[w].job}
                                      ELSE payloads \ {wk[w].job}
  /\ SetWorker(w, "run", wk[w].job, wk[w].rec)
  /\ UNCHANGED <<stored, queue, enq, rc, cl, life>>

(* The runner asks Manager.Payload for the payload, which is in the cache, *)
(* or is read from the store and then cached; without one it fails.        *)
(* Otherwise it succeeds or fails.                                         *)
Ran(w, statuses) ==
  \E status \in statuses :
    SetWorker(w, "finish", wk[w].job, jobToRecord(status, wk[w].rec.payload))

WorkerRun(w) ==
  /\ wk[w].pc = "run"
  /\ published \/ ~RunnerNeedsServer
  /\ IF wk[w].job \in payloads THEN Ran(w, Finished)
     ELSE SetWorker(w, "readPayload", wk[w].job, wk[w].rec)
  /\ UNCHANGED <<stored, cached, queue, enq, rc, cl, life>>

WorkerReadPayload(w) ==
  /\ wk[w].pc = "readPayload"
  /\ IF store[wk[w].job].payload THEN SetWorker(w, "cachePayload", wk[w].job, wk[w].rec)
     ELSE Ran(w, {"failed"})
  /\ UNCHANGED <<stored, cached, queue, enq, rc, cl, life>>

WorkerCachePayload(w) ==
  /\ wk[w].pc = "cachePayload"
  /\ payloads' = payloads \cup {wk[w].job}
  /\ Ran(w, Finished)
  /\ UNCHANGED <<stored, mem, queue, enq, rc, cl, life>>

WorkerFinish(w) ==
  /\ wk[w].pc = "finish"
  /\ \E o \in SaveOutcomes : Save(wk[w].job, wk[w].rec, o)
  /\ SetWorker(w, "cacheFinished", wk[w].job, wk[w].rec)
  /\ UNCHANGED <<cached, queue, enq, rc, cl, life>>

(* Mutant: the finished job is persisted but not cached. *)
WorkerForgetsCache(w) ==
  /\ wk[w].pc = "cacheFinished"
  /\ SetWorker(w, "idle", 1, NoRecord)
  /\ UNCHANGED <<stored, cached, queue, enq, rc, cl, life>>

WorkerCacheFinished(w) ==
  /\ wk[w].pc = "cacheFinished"
  /\ mem' = [mem EXCEPT ![wk[w].job] = recordToJob(wk[w].rec)]
  /\ payloads' = payloads \ {wk[w].job}
  /\ SetWorker(w, "idle", 1, NoRecord)
  /\ UNCHANGED <<stored, queue, enq, rc, cl, life>>

-----------------------------------------------------------------------------
(* recoverOpenJobs, called by NewManager, by SetStore on every job request *)
(* and by every tick of the reaper.                                        *)

SetRecoverer(r, pc, j, snap) == rc' = [rc EXCEPT ![r] = [pc |-> pc, job |-> j, snap |-> snap]]

(* Mutant: only running jobs are listed. *)
ListedRunning == {j \in Jobs : store[j].status = "running"}

(* ListOpenGenerationJobs: the oldest ListLimit open records.              *)
Listed ==
  LET open == {j \in Jobs : store[j].status \in Open}
  IN  {j \in open : Cardinality({k \in open : k < j}) < ListLimit}

RecoverList(r) ==
  /\ rc[r].pc = "idle"
  /\ published \/ r = Boot
  /\ SetRecoverer(r, "scan", 1, [j \in Jobs |-> IF j \in Listed THEN store[j] ELSE NoRecord])
  /\ UNCHANGED <<stored, cached, queue, enq, wk, cl, life>>

Pending(r) == {j \in Jobs : rc[r].snap[j].status # "none"}

Requeued(rec) == [rec EXCEPT !.status = "queued"]

(* The record saved is the one listed, whatever the store holds by now.    *)
RecoverSave(r) ==
  /\ rc[r].pc = "scan"
  /\ \E j \in Pending(r), o \in SaveOutcomes :
       /\ \A k \in Pending(r) : j <= k
       /\ Save(j, Requeued(rc[r].snap[j]), o)
       /\ SetRecoverer(r, "cache", j, rc[r].snap)
  /\ UNCHANGED <<cached, queue, enq, wk, cl, life>>

KnownOpen(j) == mem[j] \in Open

WithoutJob(snap, j) == [snap EXCEPT ![j] = NoRecord]

RecoverSkip(r) ==
  /\ rc[r].pc = "cache"
  /\ KnownOpen(rc[r].job)
  /\ SetRecoverer(r, "scan", 1, WithoutJob(rc[r].snap, rc[r].job))
  /\ UNCHANGED <<stored, cached, queue, enq, wk, cl, life>>

(* Mutant: the recovered job is cached but never sent. *)
RecoverCacheOnly(r) ==
  LET j == rc[r].job IN
  /\ rc[r].pc = "cache"
  /\ ~KnownOpen(j)
  /\ mem' = [mem EXCEPT ![j] = recordToJob(Requeued(rc[r].snap[j]))]
  /\ payloads' = IF rc[r].snap[j].payload THEN payloads \cup {j} ELSE payloads
  /\ SetRecoverer(r, "scan", 1, WithoutJob(rc[r].snap, j))
  /\ UNCHANGED <<stored, queue, enq, wk, cl, life>>

RecoverCache(r) ==
  LET j == rc[r].job IN
  /\ rc[r].pc = "cache"
  /\ ~KnownOpen(j)
  /\ mem' = [mem EXCEPT ![j] = recordToJob(Requeued(rc[r].snap[j]))]
  /\ payloads' = IF rc[r].snap[j].payload THEN payloads \cup {j} ELSE payloads
  /\ SetRecoverer(r, "send", j, rc[r].snap)
  /\ UNCHANGED <<stored, queue, enq, wk, cl, life>>

RecoverSend(r) ==
  LET j == rc[r].job IN
  /\ rc[r].pc = "send"
  /\ queue' = Sent(j)
  /\ stray' = IF HasRoom THEN stray ELSE stray \cup {j}
  /\ SetRecoverer(r, "scan", 1, WithoutJob(rc[r].snap, j))
  /\ UNCHANGED <<stored, cached, enq, wk, cl, published, crashes, expired>>

(* The loop is over; when it is NewManager's, the manager is published.    *)
RecoverDone(r) ==
  /\ rc[r].pc = "scan"
  /\ Pending(r) = {}
  /\ rc' = [rc EXCEPT ![r] = IdleRecoverer]
  /\ published' = (published \/ r = Boot)
  /\ UNCHANGED <<stored, cached, queue, enq, wk, cl, crashes, stray, expired>>

RecoverStep(r) ==
  \/ RecoverList(r)
  \/ RecoverSave(r)
  \/ RecoverSkip(r)
  \/ RecoverCache(r)
  \/ RecoverSend(r)
  \/ RecoverDone(r)

-----------------------------------------------------------------------------
(* reaper: what a tick does to one cached job, all of it under Manager.mu. *)

ReapExpired(j) ==
  /\ MayExpire /\ published
  /\ mem[j] \in Finished
  /\ mem' = [mem EXCEPT ![j] = "none"]
  /\ payloads' = payloads \ {j}
  /\ \E o \in SaveOutcomes : Save(j, NoRecord, o)
  /\ expired' = expired \cup {j}
  /\ UNCHANGED <<queue, threads, published, crashes, stray>>

ReapStalled(j) ==
  /\ MayStall /\ published
  /\ mem[j] = "running"
  /\ mem' = [mem EXCEPT ![j] = "queued"]
  /\ \E o \in SaveOutcomes :
       Save(j, jobToRecord("queued", j \in payloads), o)
  /\ queue' = Sent(j)
  /\ UNCHANGED <<payloads, threads, life>>

-----------------------------------------------------------------------------
(* Get, when the cache misses: read the store, then fill the cache, each   *)
(* without what was known before.                                          *)

SetClient(c, pc, j, rec) == cl' = [cl EXCEPT ![c] = [pc |-> pc, job |-> j, rec |-> rec]]

GetMiss(c, j) ==
  /\ published
  /\ cl[c].pc = "idle"
  /\ mem[j] = "none"
  /\ SetClient(c, "getRead", j, NoRecord)
  /\ UNCHANGED <<stored, cached, queue, enq, wk, rc, life>>

GetRead(c) ==
  LET j == cl[c].job IN
  /\ cl[c].pc = "getRead"
  /\ cl' = [cl EXCEPT ![c] = IF store[j].status = "none" THEN IdleClient
                             ELSE [@ EXCEPT !.pc = "getCache", !.rec = store[j]]]
  /\ UNCHANGED <<stored, cached, queue, enq, wk, rc, life>>

GetCache(c) ==
  LET j == cl[c].job IN
  /\ cl[c].pc = "getCache"
  /\ mem' = [mem EXCEPT ![j] = recordToJob(cl[c].rec)]
  /\ payloads' = IF cl[c].rec.payload THEN payloads \cup {j} ELSE payloads
  /\ stray' = IF cl[c].rec.status \in Open THEN stray \cup {j} ELSE stray
  /\ cl' = [cl EXCEPT ![c] = IdleClient]
  /\ UNCHANGED <<stored, queue, enq, wk, rc, published, crashes, expired>>

(* PatchOutlineResult, PatchSVGSlide, PatchSVGSlides: read the record,     *)
(* save it with the patched result and a finished status, fill the cache.  *)
PatchRead(c, j) ==
  /\ published
  /\ cl[c].pc = "idle"
  /\ store[j].status # "none"
  /\ \E status \in Finished :
       SetClient(c, "patchSave", j, jobToRecord(status, store[j].payload))
  /\ UNCHANGED <<stored, cached, queue, enq, wk, rc, life>>

PatchSave(c) ==
  /\ cl[c].pc = "patchSave"
  /\ \E o \in SaveOutcomes :
       /\ Save(cl[c].job, cl[c].rec, o)
       /\ cl' = [cl EXCEPT ![c] = IF o = "ok" THEN [@ EXCEPT !.pc = "patchCache"]
                                              ELSE IdleClient]
  /\ UNCHANGED <<cached, queue, enq, wk, rc, life>>

PatchCache(c) ==
  /\ cl[c].pc = "patchCache"
  /\ mem' = [mem EXCEPT ![cl[c].job] = recordToJob(cl[c].rec)]
  /\ cl' = [cl EXCEPT ![c] = IdleClient]
  /\ UNCHANGED <<stored, payloads, queue, enq, wk, rc, life>>

-----------------------------------------------------------------------------
(* The process dies and starts again: only the store is left.  Requests in *)
(* flight end in a connection error.                                       *)

Restarted ==
  /\ store' = disk
  /\ mem' = [j \in Jobs |-> "none"]
  /\ payloads' = {}
  /\ queue' = <<>>
  /\ enq' = [j \in Jobs |-> IF enq[j] \in {"new", "accepted"} THEN enq[j] ELSE "refused"]
  /\ wk' = [w \in Workers |-> IdleWorker]
  /\ rc' = [r \in Recoverers |-> IdleRecoverer]
  /\ cl' = [c \in Clients |-> IdleClient]
  /\ published' = FALSE
  /\ stray' = {}

Crash ==
  /\ crashes < MaxCrashes
  /\ crashes' = crashes + 1
  /\ Restarted
  /\ UNCHANGED <<disk, expired>>

(* Server.jobs is nil until NewManager has returned: a runner that reaches *)
(* it before that panics, and nothing in a worker recovers the panic.      *)
WorkerPanic(w) ==
  /\ wk[w].pc = "run"
  /\ RunnerNeedsServer /\ ~published
  /\ Restarted
  /\ UNCHANGED <<disk, crashes, expired>>

WorkerStep(w) ==
  \/ WorkerTake(w)
  \/ WorkerLoad(w)
  \/ WorkerStart(w)
  \/ WorkerCacheRunning(w)
  \/ WorkerRun(w) \/ WorkerReadPayload(w) \/ WorkerCachePayload(w)
  \/ WorkerFinish(w)
  \/ WorkerCacheFinished(w)
  \/ WorkerPanic(w)

Next ==
  \/ \E j \in Jobs : EnqueueStep(j) \/ ReapExpired(j) \/ ReapStalled(j)
  \/ \E w \in Workers : WorkerStep(w)
  \/ \E r \in Recoverers : RecoverStep(r)
  \/ \E c \in Clients : \/ \E j \in Jobs : GetMiss(c, j) \/ PatchRead(c, j)
                        \/ GetRead(c) \/ GetCache(c) \/ PatchSave(c) \/ PatchCache(c)
  \/ Crash

Spec == Init /\ [][Next]_vars

(* Goroutines that can run do run; a run ends (every LLM call has a        *)
(* timeout of ten minutes); the ticker makes recovery start again.  There  *)
(* is no fairness for clients, the reaper's clock, or crashes.             *)
FairSpec ==
  /\ Spec
  /\ \A j \in Jobs : WF_vars(EnqueueCache(j) \/ EnqueueSend(j) \/ EnqueueRejectSave(j)
                              \/ EnqueueRejectCache(j))
  /\ \A w \in Workers : WF_vars(WorkerStep(w))
  /\ \A r \in Recoverers : WF_vars(RecoverStep(r))

-----------------------------------------------------------------------------
(* Properties.                                                             *)

(* A job that can still be executed never loses its parameters: every      *)
(* record keeps its payload whatever mixture of enqueue, execution,        *)
(* recovery, patching and reaping rewrites it, and the cache has the       *)
(* payload of every job it calls queued or running, which is what the      *)
(* reaper writes back (m.payloads[id]).                                    *)
RecordsKeepPayload ==
  \A records \in {store, disk}, j \in Jobs :
    records[j].status # "none" => records[j].payload
CacheHasPayload == \A j \in Jobs : mem[j] \in Open => j \in payloads

PayloadKept == RecordsKeepPayload /\ CacheHasPayload

(* Somebody is going to move j on: it is in the queue, a worker has it, or *)
(* an enqueue or a recovery is about to send it.                           *)
Attended(j) ==
  \/ InQueue(j)
  \/ \E w \in Workers : Holds(w, j)
  \/ enq[j] \in {"send", "rejectSave", "rejectCache"}
  \/ \E r \in Recoverers : rc[r].pc = "send" /\ rc[r].job = j

(* A job the cache calls queued or running is attended, so that polling it *)
(* ends: recoverOpenJobs skips such a job, and nothing else would pick it  *)
(* up.  The exceptions are the ids in stray.                               *)
NoJobStranded == \A j \in Jobs : KnownOpen(j) /\ j \notin stray => Attended(j)

(* Whatever the process knows of in memory is in the store, and what was   *)
(* accepted is there for a restart as well, so that a crash at any point   *)
(* forgets no accepted job; only expiry deletes one.                       *)
KnownJobsPersisted ==
  \A j \in Jobs \ expired :
    /\ \/ mem[j] # "none" \/ InQueue(j)
       \/ \E w \in Workers : Holds(w, j)
       => store[j].status # "none"
    /\ enq[j] = "accepted" => store[j].status # "none" /\ disk[j].status # "none"

(* The inductive strengthening of the invariants above: what the           *)
(* goroutines' local states promise about the record they are about to     *)
(* write.  The status a worker or a patch carries fits its pc, whatever a  *)
(* goroutine carries has its payload, and it is a job the store has.       *)
WorkersLocal ==
  \A w \in Workers :
    /\ wk[w].pc \in {"cacheRunning"} \cup RunPC => wk[w].rec.status = "running"
    /\ wk[w].pc \in {"finish", "cacheFinished"} => wk[w].rec.status \in Finished
    /\ wk[w].pc \notin {"idle", "load"} => wk[w].rec.payload
RecoverersLocal ==
  \A r \in Recoverers :
    /\ \A j \in Jobs : rc[r].snap[j].status # "none" => rc[r].snap[j].payload
    /\ rc[r].pc \in {"cache", "send"} => rc[r].snap[rc[r].job].status # "none"
ClientsLocal ==
  \A c \in Clients :
    /\ cl[c].pc \in {"patchSave", "patchCache"} => cl[c].rec.status \in Finished
    /\ cl[c].pc \notin {"idle", "getRead"} => cl[c].rec.payload /\ cl[c].rec.status # "none"

LocalStates == WorkersLocal /\ RecoverersLocal /\ ClientsLocal

(* Only a worker that is executing a job makes the cache say running.      *)
RunningIsExecuted ==
  \A j \in Jobs : mem[j] = "running" /\ j \notin stray => \E w \in Workers : Executing(w, j)

(* Everything that refers to a job refers to a persisted one.              *)
Referred(j) ==
  \/ enq[j] \notin {"new", "refused"}
  \/ mem[j] # "none"
  \/ InQueue(j)
  \/ \E w \in Workers : Holds(w, j)
  \/ \E r \in Recoverers : rc[r].snap[j].status # "none"
  \/ \E c \in Clients : cl[c].job = j /\ cl[c].pc \notin {"idle", "getRead"}

ReferredArePersisted ==
  \A j \in Jobs \ expired :
    /\ Referred(j) => store[j].status # "none"
    /\ enq[j] \notin {"new", "refused"} => disk[j].status # "none"

(* What Manager.Get answers a client that polls j.                         *)
Answer(j) == IF mem[j] # "none" THEN mem[j] ELSE store[j].status

(* An accepted job gets to a point where polling it says it is finished.   *)
PollingEnds == \A j \in Jobs : enq[j] = "accepted" ~> Answer(j) \in Finished

(* manager.go:22 "process restart requeues open jobs": a job that is open  *)
(* in the store comes to an end.                                           *)
OpenJobsResume == \A j \in Jobs : store[j].status \in Open ~> store[j].status \in Finished

(* The code does not keep what follows (README, section 4).                *)

(* manager.go:379 "queue full; leave persisted queued for later process":  *)
(* an open job whose recovery finds the queue full is processed later.     *)
LeftJobsProcessed ==
  \A j \in Jobs : j \in stray /\ store[j].status \in Open ~> store[j].status \in Finished

(* manager_test.go:45-56: a job that Get reports finished is finished the  *)
(* same way in the store.                                                  *)
FinishedIsPersisted ==
  \A j \in Jobs : mem[j] \in Finished => store[j].status = mem[j]

=============================================================================
