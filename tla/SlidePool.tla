-------------------------------- MODULE SlidePool --------------------------------
(***************************************************************************)
(* internal/service/generation/service.go, GenerateSlideSVGs: a pool of    *)
(* workers turns the slides of an outline into SVGs.  A producer sends the *)
(* slides over the unbuffered channel jobs until ctx is cancelled, each    *)
(* worker generates what it receives and sends the outcome over the        *)
(* unbuffered channel results, a closer closes results when every worker   *)
(* has left, and the caller collects.  The pool's size is what             *)
(* internal/domain/concurrency.go makes of the user's, the group's and the *)
(* system's limits.                                                        *)
(*                                                                         *)
(* A send and the receive it meets on an unbuffered channel are one        *)
(* action; what the receiver does next is local to it and is part of it.   *)
(***************************************************************************)
EXTENDS Integers, FiniteSets

CONSTANTS
  NumSlides,      \* len(outline.Slides) = len(slides)
  UserLimit,      \* the user's SlideConcurrencyLimit, or NoLimit when nil
  GroupLimit,     \* the group's SlideConcurrencyLimit
  SystemLimit,    \* settings.DefaultSlideConcurrencyLimit
  NoLimit

ASSUME SlidePoolAssumption ==
  /\ NumSlides \in Nat
  /\ GroupLimit \in Int /\ SystemLimit \in Int
  /\ UserLimit \in Int \/ UserLimit = NoLimit

-----------------------------------------------------------------------------
(* internal/domain/concurrency.go                                          *)

defaultSlideConcurrency == 2
maxSlideConcurrency == 10

ClampSlideConcurrency(limit, slideCount) ==
  LET known   == IF limit < 1 THEN defaultSlideConcurrency ELSE limit
      bounded == IF known > maxSlideConcurrency THEN maxSlideConcurrency ELSE known
  IN  IF slideCount > 0 /\ bounded > slideCount THEN slideCount ELSE bounded

ResolveSlideConcurrency(userLimit, groupLimit, systemLimit, slideCount) ==
  ClampSlideConcurrency(
    IF userLimit # NoLimit THEN userLimit
    ELSE IF groupLimit > 0 THEN groupLimit
    ELSE systemLimit,
    slideCount)

Slides  == 1..NumSlides
Workers == 1..ResolveSlideConcurrency(UserLimit, GroupLimit, SystemLimit, NumSlides)

-----------------------------------------------------------------------------
VARIABLES
  next,           \* the producer's loop index
  jobsClosed,     \* has the producer returned, closing jobs?
  wk,             \* each worker: what it does, its slide, the slide's outcome
  resultsClosed,
  slides,         \* the caller's result slice
  failed,         \* the caller's count of failures
  cancelled,      \* is ctx.Err() non-nil?
  returned        \* "no" until the call has returned, then what it returned

vars == <<next, jobsClosed, wk, resultsClosed, slides, failed, cancelled, returned>>

Outcomes == {"svg", "error"}
Returned == {"no", "ok", "ctxErr", "allFailed"}
Idle     == [pc |-> "receive", index |-> 0, outcome |-> "none"]

WorkerState ==
  [pc : {"receive", "generate", "send", "left"}, index : 0..NumSlides,
   outcome : Outcomes \cup {"none"}]

TypeOK ==
  /\ next \in 1..NumSlides + 1
  /\ jobsClosed \in BOOLEAN
  /\ wk \in [Workers -> WorkerState]
  /\ resultsClosed \in BOOLEAN
  /\ slides \in [Slides -> Outcomes \cup {"none"}]
  /\ failed \in 0..NumSlides
  /\ cancelled \in BOOLEAN
  /\ returned \in Returned

Init ==
  /\ next = 1
  /\ jobsClosed = FALSE
  /\ wk = [w \in Workers |-> Idle]
  /\ resultsClosed = FALSE
  /\ slides = [i \in Slides |-> "none"]
  /\ failed = 0
  /\ cancelled = FALSE
  /\ returned = "no"

-----------------------------------------------------------------------------
(* The producer.  When ctx is cancelled and a worker is ready, the select  *)
(* takes either branch.                                                    *)

(* Mutant: a slide may be sent a second time. *)
DispatchAgain(w) ==
  /\ ~jobsClosed /\ next <= NumSlides
  /\ wk[w].pc = "receive"
  /\ wk' = [wk EXCEPT ![w] = [pc |-> "generate", index |-> next, outcome |-> "none"]]
  /\ \E n \in {next, next + 1} : next' = n
  /\ UNCHANGED <<jobsClosed, resultsClosed, slides, failed, cancelled, returned>>

(* Mutant: the loop runs one slide too far. *)
DispatchPastEnd(w) ==
  /\ ~jobsClosed /\ next <= NumSlides + 1
  /\ wk[w].pc = "receive"
  /\ wk' = [wk EXCEPT ![w] = [pc |-> "generate", index |-> next, outcome |-> "none"]]
  /\ next' = next + 1
  /\ UNCHANGED <<jobsClosed, resultsClosed, slides, failed, cancelled, returned>>

CanDispatch(w) == ~jobsClosed /\ next <= NumSlides /\ wk[w].pc = "receive"

Dispatch(w) ==
  /\ CanDispatch(w)
  /\ wk' = [wk EXCEPT ![w] = [pc |-> "generate", index |-> next, outcome |-> "none"]]
  /\ next' = next + 1
  /\ UNCHANGED <<jobsClosed, resultsClosed, slides, failed, cancelled, returned>>

CanStopSending == ~jobsClosed /\ (cancelled \/ next > NumSlides)

ProducerReturns ==
  /\ CanStopSending
  /\ jobsClosed' = TRUE
  /\ UNCHANGED <<next, wk, resultsClosed, slides, failed, cancelled, returned>>

-----------------------------------------------------------------------------
(* The workers.                                                            *)

CanGenerate(w) == wk[w].pc = "generate"

Generate(w) ==
  /\ CanGenerate(w)
  /\ \E outcome \in Outcomes :
       wk' = [wk EXCEPT ![w] = [@ EXCEPT !.pc = "send", !.outcome = outcome]]
  /\ UNCHANGED <<next, jobsClosed, resultsClosed, slides, failed, cancelled, returned>>

(* Mutant: a failure is written over the slide but not counted. *)
CollectUncounted(w) ==
  /\ wk[w].pc = "send" /\ ~resultsClosed
  /\ slides' = [slides EXCEPT ![wk[w].index] = wk[w].outcome]
  /\ wk' = [wk EXCEPT ![w] = Idle]
  /\ UNCHANGED <<next, jobsClosed, resultsClosed, failed, cancelled, returned>>

(* Mutant: a failed slide is counted but not written. *)
CollectDroppingErrors(w) ==
  /\ wk[w].pc = "send" /\ ~resultsClosed
  /\ slides' = IF wk[w].outcome = "error" THEN slides
               ELSE [slides EXCEPT ![wk[w].index] = wk[w].outcome]
  /\ failed' = IF wk[w].outcome = "error" THEN failed + 1 ELSE failed
  /\ wk' = [wk EXCEPT ![w] = Idle]
  /\ UNCHANGED <<next, jobsClosed, resultsClosed, cancelled, returned>>

CanCollect(w) == wk[w].pc = "send" /\ ~resultsClosed

(* The worker sends its result and the caller stores it at its index.      *)
Collect(w) ==
  /\ CanCollect(w)
  /\ slides' = [slides EXCEPT ![wk[w].index] = wk[w].outcome]
  /\ failed' = IF wk[w].outcome = "error" THEN failed + 1 ELSE failed
  /\ wk' = [wk EXCEPT ![w] = Idle]
  /\ UNCHANGED <<next, jobsClosed, resultsClosed, cancelled, returned>>

CanLeave(w) == wk[w].pc = "receive" /\ jobsClosed

WorkerLeaves(w) ==
  /\ CanLeave(w)
  /\ wk' = [wk EXCEPT ![w] = [@ EXCEPT !.pc = "left"]]
  /\ UNCHANGED <<next, jobsClosed, resultsClosed, slides, failed, cancelled, returned>>

-----------------------------------------------------------------------------
(* The closer, the caller and its context.                                 *)

(* Mutant: results is closed when some worker has left. *)
CloseResultsEarly ==
  /\ ~resultsClosed
  /\ \E w \in Workers : wk[w].pc = "left"
  /\ resultsClosed' = TRUE
  /\ UNCHANGED <<next, jobsClosed, wk, slides, failed, cancelled, returned>>

CanClose == ~resultsClosed /\ \A w \in Workers : wk[w].pc = "left"

CloseResults ==
  /\ CanClose
  /\ resultsClosed' = TRUE
  /\ UNCHANGED <<next, jobsClosed, wk, slides, failed, cancelled, returned>>

Result ==
  IF cancelled /\ failed = NumSlides THEN "ctxErr"
  ELSE IF failed = NumSlides /\ NumSlides > 0 THEN "allFailed"
  ELSE "ok"

CanReturn == resultsClosed /\ returned = "no"

Return ==
  /\ CanReturn
  /\ returned' = Result
  /\ UNCHANGED <<next, jobsClosed, wk, resultsClosed, slides, failed, cancelled>>

Cancel ==
  /\ ~cancelled /\ returned = "no"
  /\ cancelled' = TRUE
  /\ UNCHANGED <<next, jobsClosed, wk, resultsClosed, slides, failed, returned>>

(* After the return nothing of the pool is left; TLC then finds no         *)
(* deadlock but those before the return.                                   *)
Finished == returned # "no" /\ UNCHANGED vars

PoolStep ==
  \/ \E w \in Workers : Dispatch(w) \/ Generate(w) \/ Collect(w) \/ WorkerLeaves(w)
  \/ ProducerReturns
  \/ CloseResults
  \/ Return

Next == PoolStep \/ Cancel \/ Finished

Spec == Init /\ [][Next]_vars

(* Goroutines that can run do, and a generation ends: llm.Generate has a   *)
(* timeout.  Nothing is assumed of ctx.                                    *)
FairSpec ==
  /\ Spec
  /\ \A w \in Workers : WF_vars(Dispatch(w) \/ Generate(w) \/ Collect(w) \/ WorkerLeaves(w))
  /\ WF_vars(ProducerReturns)
  /\ WF_vars(CloseResults)
  /\ WF_vars(Return)

-----------------------------------------------------------------------------
(* Properties.                                                             *)

Busy(w) == wk[w].pc \in {"generate", "send"}

(* No slide is generated twice, and the one a worker has is one nobody has *)
(* written: the workers' writes never clash, and a page is paid for once.  *)
OneAttempt ==
  \A w \in Workers : Busy(w) =>
    /\ wk[w].index \in Slides /\ wk[w].index < next
    /\ slides[wk[w].index] = "none"
    /\ \A v \in Workers : Busy(v) /\ wk[v].index = wk[w].index => v = w

(* A slide the producer has sent is with a worker or has its outcome; so   *)
(* none is lost between the two channels, also while they are closed.      *)
NoneLost ==
  \A i \in Slides :
    i < next <=> slides[i] # "none" \/ \E w \in Workers : Busy(w) /\ wk[w].index = i

(* The shutdown goes from the producer to the workers to the closer to the *)
(* caller, and starts when the loop is over or ctx is cancelled; with the  *)
(* invariants above it is inductive.                                       *)
ShutdownInOrder ==
  /\ \A w \in Workers : wk[w].pc = "left" => jobsClosed
  /\ \A w \in Workers : wk[w].pc = "send" => wk[w].outcome \in Outcomes
  /\ jobsClosed => cancelled \/ next > NumSlides
  /\ resultsClosed => \A w \in Workers : wk[w].pc = "left"
  /\ returned # "no" => resultsClosed

(* The caller's count, on which the error returned depends, is right.      *)
FailedIsCounted == failed = Cardinality({i \in Slides : slides[i] = "error"})

(* The code does not keep what follows (README, section 4).                *)

(* service.go:184 "Partial failures are represented on each slide": when   *)
(* the call returns without an error every slide has an SVG or an error.   *)
FailuresRepresented ==
  returned = "ok" => \A i \in Slides : slides[i] # "none"

(* What its callers are promised.                                          *)
Map == INSTANCE SlideMap WITH NumSlides <- NumSlides, slides <- slides,
         cancelled <- cancelled, returned <- returned
ImplementsMap == Map!FairSpec

=============================================================================
