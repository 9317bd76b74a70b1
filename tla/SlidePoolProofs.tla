---------------------------- MODULE SlidePoolProofs ----------------------------
(***************************************************************************)
(* SlidePool for every deck and every combination of limits: no slide is   *)
(* lost or generated twice, the count of failures is right, the pool       *)
(* implements SlideMap, an error or an incomplete result has the reason it *)
(* should have, and the call is never stuck and has only so many steps to  *)
(* take before it returns.                                                 *)
(***************************************************************************)
EXTENDS SlidePool, FiniteSetTheorems, TLAPS

-----------------------------------------------------------------------------
(* The size of the pool.                                                   *)

(* ClampSlideConcurrency, on any int: between one and ten workers, and     *)
(* never more than slides.                                                 *)
THEOREM ClampBounds ==
  ASSUME NEW limit \in Int, NEW slideCount \in Int
  PROVE  /\ ClampSlideConcurrency(limit, slideCount) \in 1..maxSlideConcurrency
         /\ slideCount > 0 => ClampSlideConcurrency(limit, slideCount) <= slideCount
         /\ limit \in 1..maxSlideConcurrency /\ limit <= slideCount
              => ClampSlideConcurrency(limit, slideCount) = limit
BY DEF ClampSlideConcurrency, defaultSlideConcurrency, maxSlideConcurrency

(* So there is at least one worker, whichever of the limits applies.       *)
LEMMA SomeWorker == 1 \in Workers /\ Workers \subseteq Nat /\ IsFiniteSet(Workers)
<1> DEFINE limit == IF UserLimit # NoLimit THEN UserLimit
                    ELSE IF GroupLimit > 0 THEN GroupLimit ELSE SystemLimit
<1>1. limit \in Int /\ NumSlides \in Int
  BY SlidePoolAssumption
<1>2. ClampSlideConcurrency(limit, NumSlides) \in 1..maxSlideConcurrency
  BY <1>1, ClampBounds
<1>3. Workers = 1..ClampSlideConcurrency(limit, NumSlides)
  BY DEF Workers, ResolveSlideConcurrency
<1> HIDE DEF limit
<1>4. IsFiniteSet(Workers)
  BY <1>2, <1>3, FS_Interval DEF maxSlideConcurrency
<1> QED BY <1>2, <1>3, <1>4 DEF maxSlideConcurrency

-----------------------------------------------------------------------------
(* The set of failed slides.                                               *)

FailuresIn(results) == {i \in Slides : results[i] = "error"}
Failures == FailuresIn(slides)

(* It is finite, and it is all of Slides just when it is as large.         *)
LEMMA CountFailures ==
  ASSUME NEW results
  PROVE  /\ IsFiniteSet(FailuresIn(results))
         /\ Cardinality(FailuresIn(results)) \in 0..NumSlides
         /\ Cardinality(FailuresIn(results)) = NumSlides
              <=> \A i \in Slides : results[i] = "error"
<1>1. IsFiniteSet(Slides) /\ Cardinality(Slides) = NumSlides
  BY SlidePoolAssumption, FS_Interval DEF Slides
<1>2. FailuresIn(results) \in SUBSET Slides
  BY DEF FailuresIn
<1>3. /\ IsFiniteSet(FailuresIn(results))
      /\ Cardinality(FailuresIn(results)) <= Cardinality(Slides)
      /\ Cardinality(Slides) = Cardinality(FailuresIn(results)) => Slides = FailuresIn(results)
  BY <1>1, <1>2, FS_Subset
<1>4. Cardinality(FailuresIn(results)) \in Nat
  BY <1>3, FS_CardinalityType
<1> QED BY <1>1, <1>3, <1>4, SlidePoolAssumption DEF FailuresIn

-----------------------------------------------------------------------------
(* The inductive invariant.                                                *)

PoolInv == TypeOK /\ OneAttempt /\ NoneLost /\ ShutdownInOrder /\ FailedIsCounted

LEMMA PoolInit == Init => PoolInv
<1> SUFFICES ASSUME Init PROVE PoolInv
  OBVIOUS
<1>1. TypeOK
  <2>1. Idle \in WorkerState
    BY SlidePoolAssumption DEF WorkerState, Idle
  <2>2. next \in 1..NumSlides + 1 /\ failed \in 0..NumSlides
    BY SlidePoolAssumption DEF Init
  <2> QED BY <2>1, <2>2 DEF Init, TypeOK, Returned
<1>2. OneAttempt /\ NoneLost /\ ShutdownInOrder
  BY SlidePoolAssumption DEF Init, OneAttempt, NoneLost, ShutdownInOrder, Busy, Idle, Slides
<1>3. {i \in Slides : slides[i] = "error"} = {}
  BY DEF Init
<1>4. FailedIsCounted
  BY <1>3, FS_EmptySet DEF Init, FailedIsCounted
<1> QED BY <1>1, <1>2, <1>4 DEF PoolInv

LEMMA DispatchKeeps ==
  ASSUME PoolInv, NEW w \in Workers, Dispatch(w)
  PROVE  PoolInv'
<1> USE SlidePoolAssumption DEF PoolInv
<1> DEFINE new == [pc |-> "generate", index |-> next, outcome |-> "none"]
<1>1. /\ next \in Slides /\ next' = next + 1 /\ next \in Nat
      /\ wk' = [wk EXCEPT ![w] = new]
      /\ UNCHANGED <<jobsClosed, resultsClosed, slides, failed, cancelled, returned>>
      /\ ~jobsClosed
  BY DEF Dispatch, CanDispatch, TypeOK, Slides
<1>2. slides[next] = "none" /\ \A v \in Workers : Busy(v) => wk[v].index # next
  BY <1>1 DEF NoneLost
<1>3. new \in WorkerState
  BY <1>1 DEF WorkerState, Slides
<1>4. wk'[w] = new /\ \A v \in Workers : v # w => wk'[v] = wk[v]
  BY <1>1 DEF TypeOK
<1>5. TypeOK'
  BY <1>1, <1>3 DEF TypeOK, Slides
<1>6. \A v \in Workers : Busy(v)' => /\ wk'[v].index \in Slides
                                     /\ wk'[v].index < next'
                                     /\ slides'[wk'[v].index] = "none"
  BY <1>1, <1>2, <1>4 DEF OneAttempt, Busy, Slides
<1>7. \A u, v \in Workers : Busy(u)' /\ Busy(v)' /\ wk'[v].index = wk'[u].index => v = u
  BY <1>2, <1>4 DEF OneAttempt, Busy
<1>8. OneAttempt'
  BY <1>6, <1>7 DEF OneAttempt
<1>9. NoneLost'
  <2> SUFFICES ASSUME NEW i \in Slides
               PROVE  i < next' <=> slides'[i] # "none"
                                      \/ \E v \in Workers : Busy(v)' /\ wk'[v].index = i
    BY DEF NoneLost
  <2>1. i \in Nat /\ i < next' <=> i < next \/ i = next
    BY <1>1 DEF Slides
  <2>2. ~Busy(w)
    BY DEF Dispatch, CanDispatch, Busy
  <2>3. Busy(w)' /\ wk'[w].index = next
    BY <1>4 DEF Busy
  <2>4. \A v \in Workers : v # w => (Busy(v)' <=> Busy(v)) /\ wk'[v].index = wk[v].index
    BY <1>4 DEF Busy
  <2> QED BY <1>1, <2>1, <2>2, <2>3, <2>4 DEF NoneLost
<1>10. ShutdownInOrder'
  BY <1>1, <1>4 DEF ShutdownInOrder, Dispatch, CanDispatch, TypeOK
<1>11. FailedIsCounted'
  BY <1>1 DEF FailedIsCounted
<1> QED BY <1>5, <1>8, <1>9, <1>10, <1>11

(* A worker's step that changes neither what it is busy with nor a slide.  *)
LEMMA GenerateKeeps ==
  ASSUME PoolInv, NEW w \in Workers, Generate(w)
  PROVE  PoolInv'
<1> USE SlidePoolAssumption DEF PoolInv
<1>1. PICK outcome \in Outcomes :
        wk' = [wk EXCEPT ![w] = [@ EXCEPT !.pc = "send", !.outcome = outcome]]
  BY DEF Generate, CanGenerate
<1>2. /\ wk[w] \in WorkerState /\ wk[w].pc = "generate"
      /\ UNCHANGED <<next, jobsClosed, resultsClosed, slides, failed, cancelled, returned>>
  BY DEF Generate, CanGenerate, TypeOK
<1>3. wk'[w] = [pc |-> "send", index |-> wk[w].index, outcome |-> outcome]
  BY <1>1, <1>2 DEF TypeOK, WorkerState
<1>4. \A v \in Workers : v # w => wk'[v] = wk[v]
  BY <1>1 DEF TypeOK
<1>5. TypeOK'
  BY <1>1, <1>2, <1>3 DEF TypeOK, WorkerState
<1>6. \A v \in Workers : (Busy(v)' <=> Busy(v)) /\ wk'[v].index = wk[v].index
  BY <1>2, <1>3, <1>4 DEF Busy
<1>7. OneAttempt' /\ NoneLost'
  BY <1>2, <1>6 DEF OneAttempt, NoneLost
<1>8. ShutdownInOrder'
  BY <1>2, <1>3, <1>4 DEF ShutdownInOrder
<1>9. FailedIsCounted'
  BY <1>2 DEF FailedIsCounted
<1> QED BY <1>5, <1>7, <1>8, <1>9

(* A busy worker's slide is unwritten and the call is still running.       *)
LEMMA CollectFacts ==
  ASSUME PoolInv, NEW w \in Workers, Collect(w)
  PROVE  /\ wk[w].index \in Slides /\ slides[wk[w].index] = "none"
         /\ wk[w].outcome \in Outcomes
         /\ returned = "no"
BY DEF PoolInv, Collect, CanCollect, OneAttempt, ShutdownInOrder, Busy

LEMMA CollectKeeps ==
  ASSUME PoolInv, NEW w \in Workers, Collect(w)
  PROVE  PoolInv'
<1> USE SlidePoolAssumption DEF PoolInv
<1> DEFINE i == wk[w].index
<1>1. /\ i \in Slides /\ slides[i] = "none" /\ wk[w].outcome \in Outcomes
      /\ returned = "no"
  BY CollectFacts
<1>2. /\ slides' = [slides EXCEPT ![i] = wk[w].outcome]
      /\ wk' = [wk EXCEPT ![w] = Idle]
      /\ failed' = IF wk[w].outcome = "error" THEN failed + 1 ELSE failed
      /\ UNCHANGED <<next, jobsClosed, resultsClosed, cancelled, returned>>
      /\ wk[w].pc = "send" /\ ~resultsClosed
  BY DEF Collect, CanCollect
<1>3. /\ wk'[w] = Idle
      /\ \A v \in Workers : v # w => wk'[v] = wk[v]
      /\ slides'[i] = wk[w].outcome
      /\ \A k \in Slides : k # i => slides'[k] = slides[k]
      /\ slides' \in [Slides -> Outcomes \cup {"none"}]
  BY <1>1, <1>2 DEF TypeOK
<1>4. Busy(w) /\ ~Busy(w)'
  BY <1>2, <1>3 DEF Busy, Idle
<1>5. \A v \in Workers : v # w => (Busy(v)' <=> Busy(v)) /\ wk'[v].index = wk[v].index
  BY <1>3 DEF Busy
<1>6. OneAttempt'
  BY <1>1, <1>2, <1>3, <1>4, <1>5 DEF OneAttempt
<1>7. NoneLost'
  <2> SUFFICES ASSUME NEW k \in Slides
               PROVE  k < next' <=> slides'[k] # "none"
                                      \/ \E v \in Workers : Busy(v)' /\ wk'[v].index = k
    BY DEF NoneLost
  <2>1. CASE k = i
    BY <1>1, <1>2, <1>3, <1>4, <2>1 DEF OneAttempt, Outcomes
  <2>2. CASE k # i
    BY <1>2, <1>3, <1>4, <1>5, <2>2 DEF NoneLost
  <2> QED BY <2>1, <2>2
<1>8. ShutdownInOrder'
  BY <1>2, <1>3 DEF ShutdownInOrder, Idle
<1>9. FailedIsCounted'
  <2>1. failed = Cardinality(Failures) /\ IsFiniteSet(Failures) /\ i \notin Failures
    BY <1>1, CountFailures DEF FailedIsCounted, Failures, FailuresIn
  <2>2. CASE wk[w].outcome = "error"
    <3>1. Failures' = Failures \cup {i}
      BY <1>1, <1>3, <2>2 DEF Failures, FailuresIn
    <3>2. Cardinality(Failures \cup {i}) = failed + 1
      BY <2>1, FS_AddElement
    <3> QED BY <1>2, <2>2, <3>1, <3>2 DEF FailedIsCounted, Failures, FailuresIn
  <2>3. CASE wk[w].outcome = "svg"
    <3>1. Failures' = Failures
      BY <1>1, <1>3, <2>3 DEF Failures, FailuresIn
    <3> QED BY <1>2, <2>1, <2>3, <3>1 DEF FailedIsCounted, Failures, FailuresIn
  <2> QED BY <1>1, <2>2, <2>3 DEF Outcomes
<1>10. failed' \in 0..NumSlides
  BY <1>9, CountFailures DEF FailedIsCounted, FailuresIn
<1>11. TypeOK'
  BY <1>2, <1>3, <1>10 DEF TypeOK, WorkerState, Idle
<1> QED BY <1>6, <1>7, <1>8, <1>9, <1>11

LEMMA WorkerLeavesKeeps ==
  ASSUME PoolInv, NEW w \in Workers, WorkerLeaves(w)
  PROVE  PoolInv'
<1> USE SlidePoolAssumption DEF PoolInv
<1>1. /\ wk' = [wk EXCEPT ![w] = [@ EXCEPT !.pc = "left"]]
      /\ wk[w] \in WorkerState /\ wk[w].pc = "receive" /\ jobsClosed
      /\ UNCHANGED <<next, jobsClosed, resultsClosed, slides, failed, cancelled, returned>>
  BY DEF WorkerLeaves, CanLeave, TypeOK
<1>2. /\ wk'[w] = [pc |-> "left", index |-> wk[w].index, outcome |-> wk[w].outcome]
      /\ \A v \in Workers : v # w => wk'[v] = wk[v]
  BY <1>1 DEF TypeOK, WorkerState
<1>3. TypeOK'
  BY <1>1, <1>2 DEF TypeOK, WorkerState
<1>4. \A v \in Workers : (Busy(v)' <=> Busy(v)) /\ wk'[v].index = wk[v].index
  BY <1>1, <1>2 DEF Busy
<1>5. OneAttempt' /\ NoneLost'
  BY <1>1, <1>4 DEF OneAttempt, NoneLost
<1>6. ShutdownInOrder'
  BY <1>1, <1>2 DEF ShutdownInOrder
<1>7. FailedIsCounted'
  BY <1>1 DEF FailedIsCounted
<1> QED BY <1>3, <1>5, <1>6, <1>7

(* The steps that touch neither the workers nor the slides.                *)
LEMMA OthersKeep ==
  ASSUME PoolInv, ProducerReturns \/ CloseResults \/ Return \/ Cancel \/ UNCHANGED vars
  PROVE  PoolInv'
<1> USE DEF PoolInv
<1>1. UNCHANGED <<next, wk, slides, failed>>
  BY DEF ProducerReturns, CloseResults, Return, Cancel, vars
<1>2. OneAttempt' /\ NoneLost' /\ FailedIsCounted'
  BY <1>1 DEF OneAttempt, NoneLost, FailedIsCounted, Busy
<1>3. TypeOK'
  BY DEF TypeOK, ProducerReturns, CloseResults, Return, Cancel, vars, Result, Returned
<1>4. ShutdownInOrder'
  BY DEF ShutdownInOrder, ProducerReturns, CanStopSending, CloseResults, CanClose, Return,
         CanReturn, Cancel, vars
<1> QED BY <1>2, <1>3, <1>4

LEMMA PoolNext == PoolInv /\ [Next]_vars => PoolInv'
BY DispatchKeeps, GenerateKeeps, CollectKeeps, WorkerLeavesKeeps, OthersKeep
   DEF Next, PoolStep, Finished

LEMMA PoolInvariant == Spec => []PoolInv
BY PoolInit, PoolNext, PTL DEF Spec

(* The pool's variables keep their types: in particular the index that the *)
(* caller writes at and the count of failures stay in range.               *)
THEOREM PoolTypeCorrect == Spec => []TypeOK
BY PoolInvariant, PTL DEF PoolInv

(* No slide is generated twice.                                            *)
THEOREM OneAttemptHolds == Spec => []OneAttempt
BY PoolInvariant, PTL DEF PoolInv

(* Every slide the producer has sent is with a worker or has its outcome.  *)
THEOREM NoneIsLost == Spec => []NoneLost
BY PoolInvariant, PTL DEF PoolInv

(* The caller's count of failures, on which the error it returns depends,  *)
(* is the number of slides that have an error (FailedIsCounted).           *)
THEOREM FailuresAreCounted == Spec => []FailedIsCounted
BY PoolInvariant, PTL DEF PoolInv

-----------------------------------------------------------------------------
(* The refinement.                                                         *)

LEMMA ReturnFacts ==
  ASSUME PoolInv, Return
  PROVE  /\ cancelled \/ \A i \in Slides : slides[i] # "none"
         /\ Result = Map!Result
<1> USE SlidePoolAssumption DEF PoolInv
<1>1. \A w \in Workers : ~Busy(w) /\ jobsClosed
  BY DEF Return, CanReturn, ShutdownInOrder, Busy
<1>2. cancelled \/ next > NumSlides
  BY <1>1, SomeWorker DEF ShutdownInOrder
<1>3. cancelled \/ \A i \in Slides : slides[i] # "none"
  BY <1>1, <1>2 DEF NoneLost, Slides, TypeOK
<1>4. failed = NumSlides <=> Map!AllFailed
  BY CountFailures DEF FailedIsCounted, Failures, FailuresIn, Map!AllFailed, Map!Slides, Slides
<1>5. Result = Map!Result
  BY <1>4 DEF Result, Map!Result
<1> QED BY <1>3, <1>5

LEMMA MapStep == PoolInv /\ [Next]_vars => [Map!Next]_(Map!vars)
<1> SUFFICES ASSUME PoolInv, [Next]_vars PROVE [Map!Next]_(Map!vars)
  OBVIOUS
<1>1. ASSUME NEW w \in Workers, Collect(w) PROVE Map!Next
  <2>1. Map!Attempt(wk[w].index)
    BY <1>1, CollectFacts DEF Collect, CanCollect, Map!Attempt, Outcomes
  <2> QED BY <1>1, <2>1, CollectFacts DEF Map!Next, Map!Slides, Slides
<1>2. CASE Return
  BY <1>2, ReturnFacts DEF Return, CanReturn, Map!Next, Map!Return, Map!Slides, Slides
<1>3. CASE Cancel
  BY <1>3 DEF Cancel, Map!Next, Map!Cancel
<1>4. ASSUME NEW w \in Workers, Dispatch(w) \/ Generate(w) \/ WorkerLeaves(w)
      PROVE  UNCHANGED Map!vars
  BY <1>4 DEF Dispatch, Generate, WorkerLeaves, Map!vars
<1>5. CASE ProducerReturns \/ CloseResults \/ Finished \/ UNCHANGED vars
  BY <1>5 DEF ProducerReturns, CloseResults, Finished, vars, Map!vars
<1> QED BY <1>1, <1>2, <1>3, <1>4, <1>5 DEF Next, PoolStep

(* GenerateSlideSVGs keeps SlideMap's promise, its liveness left to TLC:   *)
(* it writes each slide at most once, returns only when all are written or *)
(* ctx is cancelled, and returns an error just when all of them failed.    *)
THEOREM PoolImplementsMap == Spec => Map!Spec
<1>1. Init => Map!Init
  BY DEF Init, Map!Init, Map!Slides, Slides
<1> QED BY <1>1, MapStep, PoolInvariant, PTL DEF Spec, Map!Spec

-----------------------------------------------------------------------------
(* What the caller has when the call has returned.                         *)

ErrorsExplained ==
  returned # "no" =>
    IF returned = "ok" THEN NumSlides = 0 \/ \E i \in Slides : slides[i] # "error"
    ELSE \A i \in Slides : slides[i] = "error"

CompleteUnlessCancelled ==
  returned # "no" /\ ~cancelled => \A i \in Slides : slides[i] # "none"

ReturnInv == ErrorsExplained /\ CompleteUnlessCancelled

LEMMA ReturnNext == PoolInv /\ ReturnInv /\ [Next]_vars => ReturnInv'
<1> SUFFICES ASSUME PoolInv, ReturnInv, [Next]_vars PROVE ReturnInv'
  OBVIOUS
<1>1. CASE Return
  <2>1. /\ cancelled \/ \A i \in Slides : slides[i] # "none"
        /\ failed = NumSlides <=> \A i \in Slides : slides[i] = "error"
    BY <1>1, ReturnFacts, CountFailures DEF PoolInv, FailedIsCounted, FailuresIn
  <2>2. returned' = Result /\ UNCHANGED <<slides, cancelled>>
    BY <1>1 DEF Return
  <2>3. /\ failed = NumSlides => Result # "ok" \/ NumSlides = 0
        /\ Result # "ok" => failed = NumSlides
    BY SlidePoolAssumption DEF Result
  <2> QED BY <2>1, <2>2, <2>3 DEF ReturnInv, ErrorsExplained, CompleteUnlessCancelled
<1>2. CASE Cancel
  BY <1>2 DEF Cancel, ReturnInv, ErrorsExplained, CompleteUnlessCancelled
<1>3. ASSUME NEW w \in Workers, Collect(w) PROVE ReturnInv'
  BY <1>3, CollectFacts DEF Collect, ReturnInv, ErrorsExplained, CompleteUnlessCancelled
<1>4. CASE UNCHANGED <<slides, cancelled, returned>>
  BY <1>4 DEF ReturnInv, ErrorsExplained, CompleteUnlessCancelled
<1> QED BY <1>1, <1>2, <1>3, <1>4
     DEF Next, PoolStep, Dispatch, Generate, WorkerLeaves, ProducerReturns, CloseResults,
         Finished, vars

LEMMA ReturnInvariant == Spec => []ReturnInv
<1>1. Init => ReturnInv
  BY DEF Init, ReturnInv, ErrorsExplained, CompleteUnlessCancelled
<1> QED BY <1>1, ReturnNext, PoolInvariant, PTL DEF Spec

(* service.go:184: the call returns an error only when every slide has     *)
(* failed, so that no SVG is thrown away with an error, and none when some *)
(* slide did not; for every deck, limits and moment of a cancellation.     *)
THEOREM ErrorsAreExplained == Spec => []ErrorsExplained
BY ReturnInvariant, PTL DEF ReturnInv

(* What FailuresRepresented says holds of every call that is not cancelled *)
(* before it returns: a slide without an outcome is a cancellation's doing *)
(* and never the pool's.                                                   *)
THEOREM CompleteWithoutCancellation == Spec => []CompleteUnlessCancelled
BY ReturnInvariant, PTL DEF ReturnInv

-----------------------------------------------------------------------------
(* The call returns: what of it does not need fairness.  Some goroutine    *)
(* always can take a step, and each step brings the end closer.            *)

CanStep ==
  \/ \E w \in Workers : CanDispatch(w) \/ CanGenerate(w) \/ CanCollect(w) \/ CanLeave(w)
  \/ CanStopSending \/ CanClose \/ CanReturn

NeverStuck == returned = "no" => CanStep

(* Each slide is dispatched, generated and collected; each worker leaves;  *)
(* the producer, the closer and the caller come to their end.              *)
At(f, pc) == {w \in Workers : f[w].pc = pc}

Count(f, pc) == Cardinality(At(f, pc))

ProducerLeft == IF jobsClosed THEN 0 ELSE 1
CloserLeft   == IF resultsClosed THEN 0 ELSE 1
CallerLeft   == IF returned = "no" THEN 1 ELSE 0
WorkersLeft  == Cardinality(Workers) - Count(wk, "left")

StepsLeft ==
  3 * (NumSlides + 1 - next) + 2 * Count(wk, "generate") + Count(wk, "send")
    + WorkersLeft + ProducerLeft + CloserLeft + CallerLeft

LEMMA CountBounds ==
  ASSUME NEW f, NEW pc
  PROVE  /\ IsFiniteSet(At(f, pc)) /\ Count(f, pc) \in Nat
         /\ Cardinality(Workers) - Count(f, pc) \in Nat
<1>1. IsFiniteSet(Workers)
  BY SomeWorker
<1>2. At(f, pc) \in SUBSET Workers
  BY DEF At
<1>3. IsFiniteSet(At(f, pc)) /\ Cardinality(At(f, pc)) <= Cardinality(Workers)
  BY <1>1, <1>2, FS_Subset
<1>4. Cardinality(At(f, pc)) \in Nat /\ Cardinality(Workers) \in Nat
  BY <1>1, <1>3, FS_CardinalityType
<1> QED BY <1>3, <1>4 DEF Count

(* One worker goes from one state to another. *)
Moves(f, g, w) == \A v \in Workers : v # w => g[v] = f[v]

LEMMA CountMoves ==
  ASSUME NEW f, NEW g, NEW w \in Workers, Moves(f, g, w), NEW pc
  PROVE  /\ g[w].pc = pc /\ f[w].pc # pc => Count(g, pc) = Count(f, pc) + 1
         /\ g[w].pc # pc /\ f[w].pc = pc => Count(g, pc) = Count(f, pc) - 1
         /\ (g[w].pc = pc <=> f[w].pc = pc) => Count(g, pc) = Count(f, pc)
<1>1. IsFiniteSet(At(f, pc)) /\ Count(f, pc) \in Nat
  BY CountBounds
<1>2. CASE g[w].pc = pc /\ f[w].pc # pc
  <2>1. At(g, pc) = At(f, pc) \cup {w} /\ w \notin At(f, pc)
    BY <1>2 DEF At, Moves
  <2>2. Cardinality(At(g, pc)) = Cardinality(At(f, pc)) + 1
    BY <1>1, <2>1, FS_AddElement
  <2> QED BY <1>2, <2>2 DEF Count
<1>3. CASE g[w].pc # pc /\ f[w].pc = pc
  <2>1. At(g, pc) = At(f, pc) \ {w} /\ w \in At(f, pc)
    BY <1>3 DEF At, Moves
  <2>2. Cardinality(At(g, pc)) = Cardinality(At(f, pc)) - 1
    BY <1>1, <2>1, FS_RemoveElement
  <2> QED BY <1>3, <2>2 DEF Count
<1>4. CASE g[w].pc = pc <=> f[w].pc = pc
  <2>1. At(g, pc) = At(f, pc)
    BY <1>4 DEF At, Moves
  <2> QED BY <1>4, <2>1 DEF Count
<1> QED BY <1>2, <1>3, <1>4

LEMMA StepsLeftType == PoolInv => StepsLeft \in Nat
<1> SUFFICES ASSUME PoolInv PROVE StepsLeft \in Nat
  OBVIOUS
<1>1. NumSlides + 1 - next \in Nat
  BY SlidePoolAssumption DEF PoolInv, TypeOK
<1>2. ProducerLeft \in Nat /\ CloserLeft \in Nat /\ CallerLeft \in Nat
  BY DEF ProducerLeft, CloserLeft, CallerLeft
<1>3. WorkersLeft \in Nat /\ Count(wk, "generate") \in Nat /\ Count(wk, "send") \in Nat
  BY CountBounds DEF WorkersLeft
<1> QED BY <1>1, <1>2, <1>3 DEF StepsLeft

LEMMA SomeCanStep == PoolInv => NeverStuck
<1> SUFFICES ASSUME PoolInv, returned = "no" PROVE CanStep
  BY DEF NeverStuck
<1>1. CASE resultsClosed
  BY <1>1 DEF CanStep, CanReturn
<1>2. CASE ~resultsClosed /\ \A w \in Workers : wk[w].pc = "left"
  BY <1>2 DEF CanStep, CanClose
<1>3. ASSUME ~resultsClosed, NEW w \in Workers, wk[w].pc # "left" PROVE CanStep
  <2>1. wk[w].pc \in {"receive", "generate", "send"}
    BY <1>3 DEF PoolInv, TypeOK, WorkerState
  <2>2. CASE wk[w].pc \in {"generate", "send"}
    BY <1>3, <2>2 DEF CanStep, CanGenerate, CanCollect
  <2>3. CASE wk[w].pc = "receive"
    <3>1. next <= NumSlides \/ next > NumSlides
      BY SlidePoolAssumption DEF PoolInv, TypeOK
    <3> QED BY <2>3, <3>1 DEF CanStep, CanDispatch, CanLeave, CanStopSending
  <2> QED BY <2>1, <2>2, <2>3
<1> QED BY <1>1, <1>2, <1>3

LEMMA StepsDecrease == PoolInv /\ PoolStep => StepsLeft' < StepsLeft
<1> SUFFICES ASSUME PoolInv, PoolStep PROVE StepsLeft' < StepsLeft
  OBVIOUS
<1>1. /\ next \in Int /\ NumSlides \in Int /\ Cardinality(Workers) \in Int
      /\ DOMAIN wk = Workers /\ \A w \in Workers : wk[w] \in WorkerState
  BY SlidePoolAssumption, SomeWorker, FS_CardinalityType DEF PoolInv, TypeOK
<1>2. /\ Count(wk, "generate") \in Int /\ Count(wk, "send") \in Int /\ Count(wk, "left") \in Int
  BY CountBounds
<1>3. ProducerLeft \in Int /\ CloserLeft \in Int /\ CallerLeft \in Int
  BY DEF ProducerLeft, CloserLeft, CallerLeft
<1>4. WorkersLeft \in Int
  BY <1>1, <1>2 DEF WorkersLeft
<1>5. ASSUME NEW w \in Workers, Dispatch(w) PROVE StepsLeft' < StepsLeft
  <2>1. /\ wk'[w].pc = "generate" /\ wk[w].pc = "receive" /\ Moves(wk, wk', w) /\ next' = next + 1
        /\ UNCHANGED <<jobsClosed, resultsClosed, returned>>
    BY <1>1, <1>5 DEF Dispatch, CanDispatch, Moves
  <2>2. /\ Count(wk', "generate") = Count(wk, "generate") + 1
        /\ Count(wk', "send") = Count(wk, "send") /\ Count(wk', "left") = Count(wk, "left")
    BY <2>1, CountMoves
  <2>3. UNCHANGED <<ProducerLeft, CloserLeft, CallerLeft>>
    BY <2>1 DEF ProducerLeft, CloserLeft, CallerLeft
  <2> QED BY <1>1, <1>2, <1>3, <2>1, <2>2, <2>3 DEF StepsLeft, WorkersLeft
<1>6. ASSUME NEW w \in Workers, Generate(w) PROVE StepsLeft' < StepsLeft
  <2>1. /\ wk'[w].pc = "send" /\ wk[w].pc = "generate" /\ Moves(wk, wk', w)
        /\ UNCHANGED <<next, jobsClosed, resultsClosed, returned>>
    BY <1>1, <1>6 DEF Generate, CanGenerate, WorkerState, Moves
  <2>2. /\ Count(wk', "generate") = Count(wk, "generate") - 1
        /\ Count(wk', "send") = Count(wk, "send") + 1 /\ Count(wk', "left") = Count(wk, "left")
    BY <2>1, CountMoves
  <2>3. UNCHANGED <<ProducerLeft, CloserLeft, CallerLeft>>
    BY <2>1 DEF ProducerLeft, CloserLeft, CallerLeft
  <2> QED BY <1>1, <1>2, <1>3, <2>1, <2>2, <2>3 DEF StepsLeft, WorkersLeft
<1>7. ASSUME NEW w \in Workers, Collect(w) PROVE StepsLeft' < StepsLeft
  <2>1. /\ wk'[w].pc = "receive" /\ wk[w].pc = "send" /\ Moves(wk, wk', w)
        /\ UNCHANGED <<next, jobsClosed, resultsClosed, returned>>
    BY <1>1, <1>7 DEF Collect, CanCollect, Idle, Moves
  <2>2. /\ Count(wk', "generate") = Count(wk, "generate")
        /\ Count(wk', "send") = Count(wk, "send") - 1 /\ Count(wk', "left") = Count(wk, "left")
    BY <2>1, CountMoves
  <2>3. UNCHANGED <<ProducerLeft, CloserLeft, CallerLeft>>
    BY <2>1 DEF ProducerLeft, CloserLeft, CallerLeft
  <2> QED BY <1>1, <1>2, <1>3, <2>1, <2>2, <2>3 DEF StepsLeft, WorkersLeft
<1>8. ASSUME NEW w \in Workers, WorkerLeaves(w) PROVE StepsLeft' < StepsLeft
  <2>1. /\ wk'[w].pc = "left" /\ wk[w].pc = "receive" /\ Moves(wk, wk', w)
        /\ UNCHANGED <<next, jobsClosed, resultsClosed, returned>>
    BY <1>1, <1>8 DEF WorkerLeaves, CanLeave, WorkerState, Moves
  <2>2. /\ Count(wk', "generate") = Count(wk, "generate")
        /\ Count(wk', "send") = Count(wk, "send") /\ Count(wk', "left") = Count(wk, "left") + 1
    BY <2>1, CountMoves
  <2>3. UNCHANGED <<ProducerLeft, CloserLeft, CallerLeft>>
    BY <2>1 DEF ProducerLeft, CloserLeft, CallerLeft
  <2> QED BY <1>1, <1>2, <1>3, <2>1, <2>2, <2>3 DEF StepsLeft, WorkersLeft
<1>9. CASE ProducerReturns
  <2>1. UNCHANGED <<next, wk, resultsClosed, returned>> /\ ~jobsClosed /\ jobsClosed'
    BY <1>9 DEF ProducerReturns, CanStopSending
  <2>2. ProducerLeft = 1 /\ ProducerLeft' = 0 /\ UNCHANGED <<CloserLeft, CallerLeft, WorkersLeft>>
    BY <2>1 DEF ProducerLeft, CloserLeft, CallerLeft, WorkersLeft
  <2> QED BY <1>1, <1>2, <1>3, <1>4, <2>1, <2>2 DEF StepsLeft
<1>10. CASE CloseResults
  <2>1. UNCHANGED <<next, wk, jobsClosed, returned>> /\ ~resultsClosed /\ resultsClosed'
    BY <1>10 DEF CloseResults, CanClose
  <2>2. CloserLeft = 1 /\ CloserLeft' = 0 /\ UNCHANGED <<ProducerLeft, CallerLeft, WorkersLeft>>
    BY <2>1 DEF ProducerLeft, CloserLeft, CallerLeft, WorkersLeft
  <2> QED BY <1>1, <1>2, <1>3, <1>4, <2>1, <2>2 DEF StepsLeft
<1>11. CASE Return
  <2>1. UNCHANGED <<next, wk, jobsClosed, resultsClosed>> /\ returned = "no" /\ returned' # "no"
    BY <1>11 DEF Return, CanReturn, Result
  <2>2. CallerLeft = 1 /\ CallerLeft' = 0 /\ UNCHANGED <<ProducerLeft, CloserLeft, WorkersLeft>>
    BY <2>1 DEF ProducerLeft, CloserLeft, CallerLeft, WorkersLeft
  <2> QED BY <1>1, <1>2, <1>3, <1>4, <2>1, <2>2 DEF StepsLeft
<1> QED BY <1>5, <1>6, <1>7, <1>8, <1>9, <1>10, <1>11 DEF PoolStep

(* In every state before the return some goroutine can take a step.        *)
THEOREM PoolNeverStuck == Spec => []NeverStuck
BY SomeCanStep, PoolInvariant, PTL

(* Each step of a goroutine leaves fewer of them to take, and what ctx     *)
(* does leaves no more; there are at most three for each slide, one for    *)
(* each worker and three more.  With PoolNeverStuck: however the           *)
(* goroutines are scheduled, the call has returned after that many steps.  *)
THEOREM PoolStepsAreBounded ==
  Spec => /\ StepsLeft = 3 * NumSlides + Cardinality(Workers) + 3
          /\ [](StepsLeft \in Nat)
          /\ [][StepsLeft' <= StepsLeft /\ (PoolStep => StepsLeft' < StepsLeft)]_vars
<1>1. Init => StepsLeft = 3 * NumSlides + Cardinality(Workers) + 3
  <2> SUFFICES ASSUME Init PROVE StepsLeft = 3 * NumSlides + Cardinality(Workers) + 3
    OBVIOUS
  <2>1. \A pc : pc # "receive" => At(wk, pc) = {}
    BY DEF Init, At, Idle
  <2>2. Count(wk, "generate") = 0 /\ Count(wk, "send") = 0 /\ Count(wk, "left") = 0
    BY <2>1, FS_EmptySet DEF Count
  <2>3. Cardinality(Workers) \in Int
    BY SomeWorker, FS_CardinalityType
  <2> QED BY <2>2, <2>3, SlidePoolAssumption
       DEF Init, StepsLeft, ProducerLeft, CloserLeft, CallerLeft, WorkersLeft
<1>2. PoolInv => StepsLeft \in Nat
  BY StepsLeftType
<1>3. PoolInv' => (StepsLeft \in Nat)'
  BY <1>2, PTL
<1>4. PoolInv /\ [Next]_vars
        => [StepsLeft' <= StepsLeft /\ (PoolStep => StepsLeft' < StepsLeft)]_vars
  <2> SUFFICES ASSUME PoolInv, Next
               PROVE  StepsLeft' <= StepsLeft /\ (PoolStep => StepsLeft' < StepsLeft)
    OBVIOUS
  <2>1. StepsLeft \in Nat /\ StepsLeft' \in Nat
    <3>1. PoolInv'
      BY PoolNext
    <3> QED BY <1>2, <1>3, <3>1
  <2>2. CASE PoolStep
    BY <2>1, <2>2, StepsDecrease
  <2>3. CASE ~PoolStep
    <3>1. UNCHANGED <<next, wk, jobsClosed, resultsClosed, returned>>
      BY <2>3 DEF Next, Cancel, Finished, vars
    <3>2. StepsLeft' = StepsLeft
      BY <3>1 DEF StepsLeft, ProducerLeft, CloserLeft, CallerLeft, WorkersLeft
    <3> QED BY <2>1, <2>3, <3>2
  <2> QED BY <2>2, <2>3
<1> QED BY <1>1, <1>2, <1>4, PoolInvariant, PTL DEF Spec

=============================================================================
