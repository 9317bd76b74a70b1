------------------------------- MODULE SVGResult -------------------------------
(***************************************************************************)
(* The record of an SVG job, with the slides of its result, and everybody  *)
(* who writes it: its executions by the workers, child jobs that make some *)
(* slides again and then replace the slides of their parent by theirs,     *)
(* requests for a single slide, which patch it into the result, recovery,  *)
(* which writes back the record it has listed, and the reaper.  All but    *)
(* the reaper read the record, save theirs and put it in the manager's     *)
(* cache in separate steps; nothing makes these one.                       *)
(*                                                                         *)
(* An SVG is abstracted to who made it.  Payloads, crashes and expiry are  *)
(* JobManager's, reservations are QuotaLedger's; here a commit either      *)
(* charges or fails.                                                       *)
(***************************************************************************)
EXTENDS Naturals, Sequences, FiniteSets, Functions

CONSTANTS
  Ids,        \* slide ids
  Outlines,   \* outlines to look at: sequences of slide ids
  Runs,       \* executions of the job by a worker
  Others,     \* who else writes it: each of them is a child job, a request
              \* for one slide, or a recovery of open jobs
  NoSVG,      \* a slide with an error, or not made yet
  QueueCap    \* capacity of the queue channel (256)

Writers == Runs \cup Others

ASSUME SVGResultAssumption ==
  /\ Outlines \subseteq Seq(Ids) /\ <<>> \notin Outlines
  /\ Runs \cap Others = {}
  /\ NoSVG \notin Writers
  /\ QueueCap \in Nat \ {0}

VARIABLES
  outline,    \* the outline in every request
  record,     \* the job's record in the store
  cached,     \* the job in the manager's cache
  work,       \* the writers' locals
  sent,       \* how often the job's id is in the queue
  apart       \* history: has something let cache and store differ?

vars == <<outline, record, cached, work, sent, apart>>

-----------------------------------------------------------------------------
Slide    == [id : Ids, svg : Writers \cup {NoSVG}]
Open     == {"queued", "running"}
Statuses == Open \cup {"succeeded", "failed"}
Record   == [status : Statuses, slides : Seq(Slide)]

PCs  == {"new", "load", "start", "startCache", "run", "fail", "sync", "syncCache",
         "finish", "finishCache", "save", "cache", "recover", "recoverCache", "send", "done"}
(* targets: the slides asked for; size: how many were reserved; existing:  *)
(* the slides the client sent along; slides: those made so far; charged:   *)
(* the slides it committed; rec: the record it has read; ok: no error.     *)
Work == [pc : PCs, targets : SUBSET Ids, size : Nat, existing : Seq(Slide),
         slides : Seq(Slide), charged : Nat, rec : Record,
         ok : BOOLEAN]

Made(s)        == s.svg # NoSVG
First(ss, id)  == CHOOSE i \in DOMAIN ss : ss[i].id = id /\ \A k \in 1..(i - 1) : ss[k].id # id
Last(ss, id)   == CHOOSE i \in DOMAIN ss : ss[i].id = id
                                           /\ \A k \in (i + 1)..Len(ss) : ss[k].id # id
Has(ss, id)    == \E s \in Range(ss) : s.id = id
AllFailed(ss)  == ss # <<>> /\ \A s \in Range(ss) : ~Made(s)

(* Mutant: slides that were sent along are forgotten. *)
MergeNothing(existing) == [i \in DOMAIN outline |-> [id |-> outline[i], svg |-> NoSVG]]

(* The slides of the outline, as they were sent along or not yet made; of  *)
(* two slides with one id the later counts.                                *)
mergeExistingSlides(existing) ==
  [i \in DOMAIN outline |->
     IF Has(existing, outline[i]) THEN existing[Last(existing, outline[i])]
     ELSE [id |-> outline[i], svg |-> NoSVG]]

(* upsertSlide of every slide made: each replaces the first with its id.   *)
upsertSlide(ss, made) ==
  [i \in DOMAIN ss |->
     IF ss[i].id \in DOMAIN made /\ i = First(ss, ss[i].id)
     THEN [id |-> ss[i].id, svg |-> made[ss[i].id]] ELSE ss[i]]

(* Mutant: counts the slides of the whole deck. *)
CountAll(ss, ids) == Cardinality({i \in DOMAIN ss : Made(ss[i])})

countSlideResultsByIDs(ss, ids) ==
  Cardinality({i \in DOMAIN ss : ss[i].id \in ids /\ Made(ss[i])})

(* Mutant: a status nobody knows for results with failed slides. *)
JudgedPartial(ss) ==
  [status |-> IF \E s \in Range(ss) : ~Made(s) THEN "partial" ELSE "succeeded", slides |-> ss]

(* Mutant: a failed deck is judged like any other. *)
JudgedGood(ss) == [status |-> "succeeded", slides |-> ss]

(* The record after a patch: failed when every slide is.                   *)
Judged(ss) ==
  [status |-> IF AllFailed(ss) THEN "failed" ELSE "succeeded", slides |-> ss]

(* PatchSVGSlide's result: s in the place of the slide with its id.        *)
Patched(ss, s) ==
  IF Has(ss, s.id) THEN [ss EXCEPT ![First(ss, s.id)] = s] ELSE Append(ss, s)

TypeOK ==
  /\ outline \in Outlines
  /\ record \in Record /\ cached \in Record
  /\ work \in [Writers -> Work]
  /\ sent \in 0..QueueCap
  /\ apart \in BOOLEAN

Empty == [status |-> "queued", slides |-> <<>>]
Idle  == [pc |-> "new", targets |-> {}, size |-> 0, existing |-> <<>>, slides |-> <<>>,
          charged |-> 0, rec |-> Empty, ok |-> TRUE]

(* What a job may be asked for, and how many slides are reserved for it:   *)
(* the whole outline, or some of its slides.                               *)
Asks == {<<Range(outline), Len(outline)>>}
          \cup {<<ids, Cardinality(ids)>> : ids \in SUBSET Range(outline) \ {{}}}

(* The job has been created: it is saved, cached and its id is queued.     *)
Init ==
  /\ outline \in Outlines
  /\ record = Empty /\ cached = Empty
  /\ sent = 1
  /\ \E ask \in Asks :
       work = [w \in Writers |->
                 IF w \in Runs THEN [Idle EXCEPT !.targets = ask[1], !.size = ask[2]] ELSE Idle]
  /\ apart = FALSE

Go(w, pc) == work' = [work EXCEPT ![w].pc = pc]

Ends(w)   == work' = [work EXCEPT ![w] = [Idle EXCEPT !.pc = "done"]]

(* w saves next as the record and is going to cache it: cache and store    *)
(* agree then, unless another writer is between the two.  A worker or      *)
(* recovery that could not save caches all the same; a patch ends with an  *)
(* error, even when the JSON store has kept what it could not put in the   *)
(* file.                                                                   *)
Caching(w) == work[w].pc \in {"startCache", "syncCache", "finishCache", "cache", "recoverCache"}
Saves(w, next, then) ==
  /\ record' = next
  /\ apart' = \E v \in Writers \ {w} : Caching(v)
  /\ work' = [work EXCEPT ![w].pc = then, ![w].rec = next]
Unsaved(w, next, then) ==
  /\ apart' = TRUE
  /\ work' = [work EXCEPT ![w].pc = then, ![w].rec = next]
  /\ UNCHANGED record
Refused(w, next) ==
  /\ Ends(w)
  /\ \/ UNCHANGED <<record, apart>>
     \/ record' = next /\ apart' = TRUE
Caches(w, then) ==
  /\ cached' = work[w].rec
  /\ IF then = "done" THEN Ends(w) ELSE Go(w, then)

(* A non-blocking send; the queue has other jobs' ids as well.             *)
Sends == sent' = sent \/ (sent < QueueCap /\ sent' = sent + 1)

-----------------------------------------------------------------------------
(* A child job is created for some slides or for all, and sent along what  *)
(* its client has of the parent's slides.  When it is executed again, it   *)
(* does what another one with the same payload does.                       *)
handleCreateSVGJob(w) ==
  /\ work[w].pc = "new"
  /\ \E ask \in Asks :
       work' = [work EXCEPT ![w].pc = "run", ![w].targets = ask[1], ![w].size = ask[2],
                            ![w].existing = cached.slides]
  /\ UNCHANGED <<outline, record, cached, sent, apart>>

(* worker and execute: an open job is taken from the cache, which has its  *)
(* payload, another perhaps from the store.  Its running state is saved,   *)
(* with the result of the copy, and cached.                                *)
WorkerTake(w) ==
  /\ work[w].pc = "new"
  /\ sent > 0
  /\ sent' = sent - 1
  /\ Go(w, "load")
  /\ UNCHANGED <<outline, record, cached, apart>>

WorkerLoad(w) ==
  /\ work[w].pc = "load"
  /\ \E job \in {cached} \cup (IF cached.status \in Open THEN {} ELSE {record}) :
       work' = [work EXCEPT ![w].pc = "start", ![w].rec = job]
  /\ UNCHANGED <<outline, record, cached, sent, apart>>

WorkerStart(w) ==
  LET running == [work[w].rec EXCEPT !.status = "running"] IN
  /\ work[w].pc = "start"
  /\ Saves(w, running, "startCache") \/ Unsaved(w, running, "startCache")
  /\ UNCHANGED <<outline, cached, sent>>

WorkerCacheRunning(w) ==
  /\ work[w].pc = "startCache"
  /\ Caches(w, "run")
  /\ UNCHANGED <<outline, record, sent, apart>>

(* runSVGJob: make the targets, count those with an SVG, charge them.  A   *)
(* failed commit ends the job with its slides but without telling the      *)
(* parent; an error before the work ends it with those it was loaded with. *)
runSVGJob(w) ==
  /\ work[w].pc = "run"
  /\ \E made \in [work[w].targets -> {w, NoSVG}] :
       LET slides  == upsertSlide(mergeExistingSlides(work[w].existing), made)
           success == countSlideResultsByIDs(slides, work[w].targets)
           next    == IF w \in Runs THEN "finish" ELSE "sync"
           goes(pc, charge, ok) ==
             work' = [work EXCEPT ![w].pc = pc, ![w].slides = slides, ![w].charged = charge,
                                  ![w].ok = ok]
       IN \/ goes(next, success, success > 0)
          \/ success > 0 /\ w \in Runs /\ goes("finish", 0, FALSE)
          \/ success > 0 /\ w \in Others /\ Ends(w)
  /\ UNCHANGED <<outline, record, cached, sent, apart>>

RunFails(w) ==
  /\ work[w].pc = "run"
  /\ IF w \in Runs THEN Go(w, "fail") ELSE Ends(w)
  /\ UNCHANGED <<outline, record, cached, sent, apart>>

(* syncParentSVGJob: the parent's slides become the child's, whatever they *)
(* are; the record is read for its owner only.                             *)
SyncSave(w) ==
  /\ work[w].pc = "sync"
  /\ \/ Saves(w, Judged(work[w].slides), "syncCache")
     \/ Refused(w, Judged(work[w].slides))
  /\ UNCHANGED <<outline, cached, sent>>

SyncCache(w) ==
  /\ work[w].pc = "syncCache"
  /\ Caches(w, "done")
  /\ UNCHANGED <<outline, record, sent, apart>>

(* The end of execute; what a child saves there is its own record.         *)
WorkerFinish(w) ==
  LET failed == work[w].pc = "fail"
      next   == [status |-> IF work[w].ok /\ ~failed THEN "succeeded" ELSE "failed",
                 slides |-> IF failed THEN work[w].rec.slides ELSE work[w].slides] IN
  /\ work[w].pc \in {"finish", "fail"}
  /\ Saves(w, next, "finishCache") \/ Unsaved(w, next, "finishCache")
  /\ UNCHANGED <<outline, cached, sent>>

WorkerCacheFinished(w) ==
  /\ work[w].pc = "finishCache"
  /\ Caches(w, "done")
  /\ UNCHANGED <<outline, record, sent, apart>>

-----------------------------------------------------------------------------
(* recoverOpenJobs: the record that was listed is saved again as queued,   *)
(* whatever the store holds by now, and then, unless the cache says that   *)
(* the job is open, cached and sent.                                       *)
RecoverList(w) ==
  /\ work[w].pc = "new"
  /\ record.status \in Open
  /\ work' = [work EXCEPT ![w].pc = "recover", ![w].rec = record]
  /\ UNCHANGED <<outline, record, cached, sent, apart>>

RecoverSave(w) ==
  LET queued == [work[w].rec EXCEPT !.status = "queued"] IN
  /\ work[w].pc = "recover"
  /\ Saves(w, queued, "recoverCache") \/ Unsaved(w, queued, "recoverCache")
  /\ UNCHANGED <<outline, cached, sent>>

(* Mutant: a job that is finished in the cache is skipped as well.         *)
RecoverSkipAny(w) ==
  /\ work[w].pc = "recoverCache"
  /\ Ends(w)
  /\ UNCHANGED <<outline, record, cached, sent, apart>>

RecoverSkip(w) ==
  /\ work[w].pc = "recoverCache"
  /\ cached.status \in Open
  /\ Ends(w)
  /\ UNCHANGED <<outline, record, cached, sent, apart>>

RecoverCache(w) ==
  /\ work[w].pc = "recoverCache"
  /\ cached.status \notin Open
  /\ Caches(w, "send")
  /\ UNCHANGED <<outline, record, sent, apart>>

RecoverSend(w) ==
  /\ work[w].pc = "send"
  /\ Sends
  /\ Ends(w)
  /\ UNCHANGED <<outline, record, cached, apart>>

(* The reaper requeues a job that has been running for long, all of it     *)
(* under Manager.mu: what the cache has is saved, or not.                  *)
ReapStalled ==
  /\ cached.status = "running"
  /\ cached' = [cached EXCEPT !.status = "queued"]
  /\ \/ record' = cached' /\ apart' = \E w \in Writers : Caching(w)
     \/ UNCHANGED <<record, apart>>
  /\ Sends
  /\ UNCHANGED <<outline, work>>

-----------------------------------------------------------------------------
(* handleGenerateOneSVG: make one slide, charge it, read the record to     *)
(* patch it in; a slide that failed is patched in too.                     *)
handleGenerateOneSVG(w) ==
  /\ work[w].pc = "new"
  /\ \E id \in Range(outline), svg \in {w, NoSVG} :
       work' = [work EXCEPT ![w].pc = "save", ![w].targets = {id}, ![w].size = 1,
                            ![w].slides = <<[id |-> id, svg |-> svg]>>,
                            ![w].charged = IF svg = NoSVG THEN 0 ELSE 1, ![w].rec = record]
  /\ UNCHANGED <<outline, record, cached, sent, apart>>

PatchSVGSlide(w) ==
  LET patched == Judged(Patched(work[w].rec.slides, work[w].slides[1])) IN
  /\ work[w].pc = "save"
  /\ Saves(w, patched, "cache") \/ Refused(w, patched)
  /\ UNCHANGED <<outline, cached, sent>>

PatchCache(w) ==
  /\ work[w].pc = "cache"
  /\ Caches(w, "done")
  /\ UNCHANGED <<outline, record, sent, apart>>

-----------------------------------------------------------------------------
WorkerStep(w) ==
  \/ WorkerTake(w) \/ WorkerLoad(w) \/ WorkerStart(w) \/ WorkerCacheRunning(w)
  \/ WorkerFinish(w) \/ WorkerCacheFinished(w)

RecoverStep(w) ==
  \/ RecoverList(w) \/ RecoverSave(w) \/ RecoverSkip(w) \/ RecoverCache(w) \/ RecoverSend(w)

Next ==
  \/ \E w \in Runs : WorkerStep(w)
  \/ \E w \in Writers : runSVGJob(w) \/ RunFails(w)
  \/ \E w \in Others :
       \/ handleCreateSVGJob(w) \/ SyncSave(w) \/ SyncCache(w)
       \/ handleGenerateOneSVG(w) \/ PatchSVGSlide(w) \/ PatchCache(w)
       \/ RecoverStep(w)
  \/ ReapStalled

Spec == Init /\ [][Next]_vars

-----------------------------------------------------------------------------
(* Properties.                                                             *)

(* The SVGs a result has of a slide.                                       *)
SVGs(ss, id) == {s.svg : s \in {t \in Range(ss) : t.id = id}} \ {NoSVG}

Distinct == \A i, k \in DOMAIN outline : i # k => outline[i] # outline[k]

(* The slides w knew of when it made what it saves: those its client sent  *)
(* along, or for a patch, for the running state and for recovery those it  *)
(* has read.                                                               *)
Seen(w) == IF work[w].pc \in {"save", "start", "fail", "recover"} THEN work[w].rec.slides
           ELSE work[w].existing

(* Whoever saves the result changes, besides the slides it was asked for,  *)
(* only slides of which it had an older or no view: with a client whose    *)
(* slides are current, a child job keeps every slide of its parent, and a  *)
(* patch or a recovery every slide that was not written while it was under *)
(* way.  (The reaper saves what the cache has.)                            *)
OthersKept ==
  [][\A w \in Writers : work'[w] # work[w] /\ Distinct =>
       \A id \in Ids \ work[w].targets :
         \/ SVGs(record'.slides, id) = SVGs(record.slides, id)
         \/ SVGs(Seen(w), id) # SVGs(record.slides, id)]_vars

(* When the cache says that the job is finished and nobody is between its  *)
(* save and its cache, clients are answered with the record of the store,  *)
(* recovery's and the reaper's writes included, unless the last writers    *)
(* saved and cached in different orders or the last save failed.           *)
CacheFollowsStore ==
  cached.status \notin Open /\ ~(\E w \in Writers : Caching(w)) /\ ~apart => cached = record

(* A result that is called succeeded has a slide to show, whoever wrote it *)
(* last; the worker counts its targets and the patches count all slides.   *)
SucceededShows == record.status = "succeeded" => \E s \in Range(record.slides) : Made(s)

(* Nobody is charged more slides than were reserved for it, when no id is  *)
(* in the outline twice: the slides are reserved by ids and counted by     *)
(* entries of the result.                                                  *)
ChargedAsReserved == Distinct => \A w \in Writers : work[w].charged <= work[w].size

=============================================================================
