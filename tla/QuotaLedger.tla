------------------------------- MODULE QuotaLedger -------------------------------
(***************************************************************************)
(* The daily slide quota of one user: the usage row of internal/store and  *)
(* the requests that reserve, commit and release slides on it.             *)
(*                                                                         *)
(* A synchronous request (httpapi/handlers.go) holds its reservation while *)
(* it generates, under the client's context.  A job request                *)
(* (httpapi/job_handlers.go) puts the reservation in the payload of a job; *)
(* whichever execution of the job settles it, and a job is executed as     *)
(* long as its record is open (see JobManager), so possibly several times. *)
(*                                                                         *)
(* The JSON store keeps its data in memory and writes all of it to a file  *)
(* under one lock; the SQL stores run one statement or transaction per     *)
(* operation and give up when the caller's context is done.                *)
(***************************************************************************)
EXTENDS Integers, FiniteSets

CONSTANTS
  SyncRequests,   \* requests to handleGenerateSVG or handleGenerateOneSVG
  JobRequests,    \* requests to handleCreateSVGJob, and the jobs they create
  SlidesOf,       \* the slides each request reserves
  Runners,        \* the worker goroutines of the job manager
  Backends,       \* the stores that may be configured: "json", "sql"
  Limits,         \* the daily limits an administrator may set
  Failures,       \* can an operation of the store fail?
  QueueMayFill,   \* can the job queue be full?
  Reopens,        \* can a finished job's record become open again?
  MaxRuns,        \* bound on the executions of jobs
  MaxCrashes      \* bound on the crashes of the process

Requests == SyncRequests \cup JobRequests

ASSUME QuotaLedgerAssumption ==
  /\ SyncRequests \cap JobRequests = {}
  /\ IsFiniteSet(Requests) /\ Requests # {}
  /\ SlidesOf \in [Requests -> Nat \ {0}]
  /\ Backends \subseteq {"json", "sql"}
  /\ Limits \subseteq Nat
  /\ {Failures, QueueMayFill, Reopens} \subseteq BOOLEAN
  /\ MaxRuns \in Nat /\ MaxCrashes \in Nat

VARIABLES
  backend,    \* the store in use
  limit,      \* DailySlideLimit of the user's effective quota
  data,       \* what the store answers from: the usage row, the job records
  disk,       \* what a restart finds of it
  rq,         \* each request: where it stands, the limit seen, slides made
  gone,       \* requests whose client has disconnected: r.Context() is done
  run,        \* what each worker goroutine is doing, for which job
  runs,       \* executions so far
  crashes,    \* crashes so far
  highest,    \* history: the highest limit there has been
  abandoned   \* history: requests under way whose client left or that died

store   == <<backend, limit, highest>>
threads == <<rq, gone, run, runs, crashes, abandoned>>
vars    == <<backend, limit, data, disk, rq, gone, run, runs, crashes, highest, abandoned>>

-----------------------------------------------------------------------------
(* The row: slides used and slides reserved.  owing and extra are history: *)
(* the requests whose reservation is in the row, and the slides of         *)
(* reservations that were settled when they were not in it any more.       *)

Data ==
  [used : Nat, reserved : Nat, job : [JobRequests -> {"none", "open", "closed"}],
   owing : SUBSET Requests, extra : Nat]

EmptyData ==
  [used |-> 0, reserved |-> 0, job |-> [r \in JobRequests |-> "none"], owing |-> {}, extra |-> 0]

Unclamped(n) == n   \* mutant: reserved may fall below zero

NonNegative(n) == IF n < 0 THEN 0 ELSE n

(* BuildEffectiveQuota: SlidesRemaining.                                   *)
Remaining(dailyLimit) == NonNegative(dailyLimit - data.used - data.reserved)

(* Mutant: only the slides used count. *)
ReserveIgnoringReserved(r, seen) == data.used + SlidesOf[r] <= seen

(* The guard of ReserveDailyQuota: the JSON store compares with the slides *)
(* remaining, the SQL UPDATE has it in its WHERE clause.                   *)
MayReserve(r, seen) ==
  IF backend = "json" THEN Remaining(seen) >= SlidesOf[r]
                      ELSE data.used + data.reserved + SlidesOf[r] <= seen

Reserved(r) ==
  [data EXCEPT !.reserved = @ + SlidesOf[r], !.owing = @ \cup {r}]

(* Mutant: the reservation stays when the slides are charged. *)
ChargedOnTop(r, actualSlides) ==
  [data EXCEPT !.used = @ + actualSlides, !.owing = @ \ {r},
               !.extra = IF r \in data.owing THEN @ ELSE @ + SlidesOf[r]]

(* CommitDailyQuota takes the reservation off, but not below zero, and     *)
(* charges what was made.                                                  *)
Committed(r, actualSlides) ==
  [data EXCEPT !.used = @ + actualSlides,
               !.reserved = NonNegative(@ - SlidesOf[r]),
               !.owing = @ \ {r},
               !.extra = IF r \in data.owing THEN @ ELSE @ + SlidesOf[r]]

Released(r) ==
  [data EXCEPT !.reserved = NonNegative(@ - SlidesOf[r]),
               !.owing = @ \ {r},
               !.extra = IF r \in data.owing THEN @ ELSE @ + SlidesOf[r]]

WithJob(r, status) == [data EXCEPT !.job[r] = status]

(* A write of the store.  A SQL store whose context is done changes        *)
(* nothing; one that fails has changed nothing either, or has changed the  *)
(* row when only the answer is lost.  The JSON store has changed its       *)
(* memory when writing the file fails, and pays no attention to the        *)
(* context.                                                                *)
Outcomes(done) ==
  IF backend = "json" THEN IF Failures THEN {"ok", "unsaved"} ELSE {"ok"}
  ELSE IF done THEN {"lost"}
  ELSE IF Failures THEN {"ok", "lost", "unanswered"} ELSE {"ok"}

Written(new, outcome) ==
  /\ data' = IF outcome = "lost" THEN data ELSE new
  /\ disk' = IF outcome \in {"ok", "unanswered"} THEN new ELSE disk

-----------------------------------------------------------------------------
RequestPC ==
  {"new", "reserve", "work", "commit", "reply", "release", "enqueue", "send", "reject", "ended"}
RunPC == {"idle", "work", "commit", "reply", "release", "finish"}

NewRequest == [pc |-> "new", seen |-> 0, slides |-> 0]
IdleRun    == [pc |-> "idle", req |-> CHOOSE r \in Requests : TRUE, slides |-> 0]

TypeOK ==
  /\ backend \in Backends
  /\ limit \in Limits /\ highest \in Limits
  /\ data \in Data /\ disk \in Data
  /\ rq \in [Requests -> [pc : RequestPC, seen : Nat, slides : Nat]]
  /\ \A r \in Requests : /\ rq[r].slides <= SlidesOf[r]
                         /\ rq[r].pc \in {"enqueue", "send", "reject"} => r \in JobRequests
  /\ run \in [Runners -> [pc : RunPC, req : Requests, slides : Nat]]
  /\ \A x \in Runners : run[x].pc # "idle" => /\ run[x].req \in JobRequests
                                              /\ run[x].slides <= SlidesOf[run[x].req]
  /\ runs \in 0..MaxRuns /\ crashes \in 0..MaxCrashes
  /\ gone \subseteq Requests /\ abandoned \subseteq Requests

Init ==
  /\ backend \in Backends
  /\ limit \in Limits /\ highest = limit
  /\ data = EmptyData /\ disk = EmptyData
  /\ rq = [r \in Requests |-> NewRequest]
  /\ run = [x \in Runners |-> IdleRun]
  /\ runs = 0 /\ crashes = 0
  /\ gone = {} /\ abandoned = {}

-----------------------------------------------------------------------------
(* Requests.                                                               *)

SetRequest(r, pc) == rq' = [rq EXCEPT ![r].pc = pc]

(* What to do once the reservation is made.                                *)
Reservee(r) == IF r \in SyncRequests THEN "work" ELSE "enqueue"

(* The SQL stores read the limit before they open the transaction.         *)
ReadLimit(r) ==
  /\ backend = "sql" /\ rq[r].pc = "new"
  /\ rq' = [rq EXCEPT ![r] = [@ EXCEPT !.pc = "reserve", !.seen = limit]]
  /\ UNCHANGED <<store, data, disk, gone, run, runs, crashes, abandoned>>

ReserveDailyQuota(r) ==
  LET seen == IF backend = "sql" THEN rq[r].seen ELSE limit IN
  /\ rq[r].pc = IF backend = "sql" THEN "reserve" ELSE "new"
  /\ \/ /\ ~MayReserve(r, seen)
        /\ SetRequest(r, "ended")
        /\ UNCHANGED <<data, disk>>
     \/ /\ MayReserve(r, seen)
        /\ \E o \in Outcomes(r \in gone) :
             /\ Written(Reserved(r), o)
             /\ SetRequest(r, IF o = "ok" THEN Reservee(r) ELSE "ended")
  /\ UNCHANGED <<store, gone, run, runs, crashes, abandoned>>

(* Mutant: a failed generation returns without the deferred release. *)
SyncWorkKeeping(r) ==
  /\ rq[r].pc = "work"
  /\ \/ SetRequest(r, "ended")
     \/ \E n \in 0..SlidesOf[r] :
          rq' = [rq EXCEPT ![r] = [@ EXCEPT !.pc = "commit", !.slides = n]]
  /\ UNCHANGED <<store, data, disk, gone, run, runs, crashes, abandoned>>

(* A synchronous request generates its slides, or fails to.                *)
SyncWork(r) ==
  /\ rq[r].pc = "work"
  /\ \/ SetRequest(r, "release")
     \/ \E n \in 0..SlidesOf[r] :
          rq' = [rq EXCEPT ![r] = [@ EXCEPT !.pc = "commit", !.slides = n]]
  /\ UNCHANGED <<store, data, disk, gone, run, runs, crashes, abandoned>>

SyncCommit(r) ==
  /\ rq[r].pc = "commit"
  /\ \E o \in Outcomes(r \in gone) :
       /\ Written(Committed(r, rq[r].slides), o)
       /\ SetRequest(r, IF o = "ok" THEN "reply" ELSE "release")
  /\ UNCHANGED <<store, gone, run, runs, crashes, abandoned>>

(* CommitDailyQuota ends by reading the effective quota, and returns an    *)
(* error when that fails: the deferred release then runs all the same.     *)
ReadLost(r) == backend = "sql" /\ r \in gone

SyncReply(r) ==
  /\ rq[r].pc = "reply"
  /\ \/ ~ReadLost(r) /\ SetRequest(r, "ended")
     \/ (Failures \/ ReadLost(r)) /\ SetRequest(r, "release")
  /\ UNCHANGED <<store, data, disk, gone, run, runs, crashes, abandoned>>

(* The deferred release, and the release of a job that was not enqueued;   *)
(* its error is ignored.                                                   *)
Release(r) ==
  /\ rq[r].pc = "release"
  /\ \E o \in Outcomes(r \in gone) : Written(Released(r), o)
  /\ SetRequest(r, "ended")
  /\ UNCHANGED <<store, gone, run, runs, crashes, abandoned>>

(* Manager.enqueue, under its own context: persist the job, send its id.   *)
EnqueuePersist(r) ==
  /\ rq[r].pc = "enqueue"
  /\ \E o \in Outcomes(FALSE) :
       /\ Written(WithJob(r, "open"), o)
       /\ SetRequest(r, IF o = "ok" THEN "send" ELSE "release")
  /\ UNCHANGED <<store, gone, run, runs, crashes, abandoned>>

EnqueueSend(r) ==
  /\ rq[r].pc = "send"
  /\ SetRequest(r, "ended") \/ (QueueMayFill /\ SetRequest(r, "reject"))
  /\ UNCHANGED <<store, data, disk, gone, run, runs, crashes, abandoned>>

EnqueueReject(r) ==
  /\ rq[r].pc = "reject"
  /\ \E o \in Outcomes(FALSE) : Written(WithJob(r, "closed"), o)
  /\ SetRequest(r, "release")
  /\ UNCHANGED <<store, gone, run, runs, crashes, abandoned>>

ClientLeaves(r) ==
  /\ rq[r].pc \notin {"new", "ended"} /\ r \notin gone
  /\ gone' = gone \cup {r}
  /\ abandoned' = abandoned \cup {r}
  /\ UNCHANGED <<store, data, disk, rq, run, runs, crashes>>

RequestStep(r) ==
  \/ ReadLimit(r) \/ ReserveDailyQuota(r)
  \/ SyncWork(r) \/ SyncCommit(r) \/ SyncReply(r) \/ Release(r)
  \/ EnqueuePersist(r) \/ EnqueueSend(r) \/ EnqueueReject(r)

-----------------------------------------------------------------------------
(* Executions of jobs: runSVGJob.                                          *)

SetRun(x, pc) == run' = [run EXCEPT ![x].pc = pc]

(* The manager starts an execution of an open job.  That it may have two   *)
(* at a time goes with Reopens.                                            *)
RunStart(x) ==
  /\ run[x].pc = "idle" /\ runs < MaxRuns
  /\ \E r \in JobRequests :
       /\ data.job[r] = "open"
       /\ Reopens \/ \A y \in Runners : run[y].pc = "idle" \/ run[y].req # r
       /\ run' = [run EXCEPT ![x] = [pc |-> "work", req |-> r, slides |-> 0]]
  /\ runs' = runs + 1
  /\ UNCHANGED <<store, data, disk, rq, gone, crashes, abandoned>>

(* A payload that the end of another execution of the job took from memory *)
(* is read from the store: when that fails the run returns before it has   *)
(* deferred the release.  It commits only when some slide was made.        *)
RunWork(x) ==
  /\ run[x].pc = "work"
  /\ \/ SetRun(x, "release")
     \/ Failures /\ Reopens /\ backend = "sql" /\ SetRun(x, "finish")
     \/ \E n \in 1..SlidesOf[run[x].req] :
          run' = [run EXCEPT ![x] = [@ EXCEPT !.pc = "commit", !.slides = n]]
  /\ UNCHANGED <<store, data, disk, rq, gone, runs, crashes, abandoned>>

RunCommit(x) ==
  /\ run[x].pc = "commit"
  /\ \E o \in Outcomes(FALSE) :
       /\ Written(Committed(run[x].req, run[x].slides), o)
       /\ SetRun(x, IF o = "ok" THEN "reply" ELSE "release")
  /\ UNCHANGED <<store, rq, gone, runs, crashes, abandoned>>

RunReply(x) ==
  /\ run[x].pc = "reply"
  /\ SetRun(x, "finish") \/ (Failures /\ SetRun(x, "release"))
  /\ UNCHANGED <<store, data, disk, rq, gone, runs, crashes, abandoned>>

(* Mutant: a failed run does not release. *)
RunForgetsRelease(x) ==
  /\ run[x].pc = "release"
  /\ SetRun(x, "finish")
  /\ UNCHANGED <<store, data, disk, rq, gone, runs, crashes, abandoned>>

RunRelease(x) ==
  /\ run[x].pc = "release"
  /\ \E o \in Outcomes(FALSE) : Written(Released(run[x].req), o)
  /\ SetRun(x, "finish")
  /\ UNCHANGED <<store, rq, gone, runs, crashes, abandoned>>

(* The manager saves the finished record.                                  *)
RunFinish(x) ==
  /\ run[x].pc = "finish"
  /\ \E o \in Outcomes(FALSE) : Written(WithJob(run[x].req, "closed"), o)
  /\ SetRun(x, "idle")
  /\ UNCHANGED <<store, rq, gone, runs, crashes, abandoned>>

(* recoverOpenJobs and the reaper write "queued" over whatever record      *)
(* there is by then.                                                       *)
Reopen(r) ==
  /\ Reopens /\ data.job[r] = "closed"
  /\ Written(WithJob(r, "open"), "ok")
  /\ UNCHANGED <<store, threads>>

RunStep(x) ==
  \/ RunStart(x) \/ RunWork(x) \/ RunCommit(x) \/ RunReply(x) \/ RunRelease(x) \/ RunFinish(x)

-----------------------------------------------------------------------------
SetLimit ==
  /\ limit' \in Limits \ {limit}
  /\ highest' = IF limit' > highest THEN limit' ELSE highest
  /\ UNCHANGED <<backend, data, disk, threads>>

(* The process dies and starts again with what is on disk.                 *)
Crash ==
  LET underWay == {r \in Requests : rq[r].pc \notin {"new", "ended"}} IN
  /\ crashes < MaxCrashes
  /\ crashes' = crashes + 1
  /\ data' = disk
  /\ rq' = [r \in Requests |-> IF r \in underWay THEN [rq[r] EXCEPT !.pc = "ended"] ELSE rq[r]]
  /\ run' = [x \in Runners |-> IdleRun]
  /\ abandoned' = abandoned \cup underWay
  /\ UNCHANGED <<store, disk, gone, runs>>

Next ==
  \/ \E r \in Requests : RequestStep(r) \/ ClientLeaves(r)
  \/ \E r \in JobRequests : Reopen(r)
  \/ \E x \in Runners : RunStep(x)
  \/ SetLimit
  \/ Crash

Spec == Init /\ [][Next]_vars

(* A handler that runs goes on, and so does an execution under way.  That  *)
(* an open job is executed at all is not assumed (see JobManager); nor are *)
(* clients, administrators, crashes and reopenings under any obligation.   *)
FairSpec ==
  /\ Spec
  /\ \A r \in Requests : WF_vars(RequestStep(r) /\ rq[r].pc # "new")
  /\ \A x \in Runners : WF_vars(RunStep(x) /\ run[x].pc # "idle")

-----------------------------------------------------------------------------
(* Properties.                                                             *)

(* The slides of the reservations that are in the row.                     *)
SlidesFor(requests) == UNION {{r} \X (1..SlidesOf[r]) : r \in requests}
Owed(d) == Cardinality(SlidesFor(d.owing))

(* Whatever is executed, retried, cancelled or killed, the slides owed to  *)
(* requests under way are reserved, except for those that settling some    *)
(* reservation a second time took away.                                    *)
ReservationsCovered(d) == Owed(d) <= d.reserved + d.extra

(* The daily limit holds up to the same: what is charged and what is owed  *)
(* exceed the highest limit at most by the slides settled twice.           *)
ChargesBounded(d) == d.used + Owed(d) <= highest + d.extra

LedgerOK == \A d \in {data, disk} : ReservationsCovered(d) /\ ChargesBounded(d)

(* No slide is reserved in nobody's name: one that is reserved is owed to  *)
(* a request, so that it can still be charged or given back.               *)
NothingPhantom == \A d \in {data, disk} : d.reserved <= Owed(d)

(* The strengthening: no request works with a limit there never was, and   *)
(* one that has not reserved yet is not in the row.                        *)
LimitsSeen == limit <= highest /\ \A r \in Requests : rq[r].seen <= highest
FreshOweNothing ==
  \A r \in Requests :
    rq[r].pc \in {"new", "reserve"} => r \notin data.owing /\ r \notin disk.owing

Executed(r) == \E x \in Runners : run[x].pc # "idle" /\ run[x].req = r
HandedOver(r) == r \in JobRequests /\ rq[r].pc = "ended" /\ data.job[r] = "open"

(* An execution under way settles the reservation of its job, whichever    *)
(* way it goes; when the process dies under it, the job is still open for  *)
(* the next one, unless the request that was rejecting it died too.        *)
JobsSettle ==
  \A r \in JobRequests : \A n \in 0..MaxCrashes :
    Executed(r) /\ crashes = n
      ~> r \notin data.owing \/ (crashes > n /\ (data.job[r] = "open" \/ r \in abandoned))

(* Every reservation is settled or handed over to an open job, unless the  *)
(* client leaves or the process dies under the request.                    *)
RequestsSettle ==
  \A r \in Requests : r \in data.owing ~> r \notin data.owing \/ r \in abandoned \/ HandedOver(r)

(* The code does not keep what follows (README, section 4).                *)

(* rules.go:20 "page quota is the active limit".                           *)
DailyLimitHolds == data.used <= highest

(* handlers.go:206 "keep reservation released": no request that has ended  *)
(* still has its reservation in the row.                                   *)
EndedHoldNothing == \A r \in SyncRequests : rq[r].pc = "ended" => r \notin data.owing

=============================================================================
