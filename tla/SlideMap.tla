-------------------------------- MODULE SlideMap --------------------------------
(***************************************************************************)
(* What GenerateSlideSVGs promises its callers, with no pool in it: every  *)
(* slide is attempted at most once, in any order, and ends up with an SVG  *)
(* or with an error; unless the caller's context is cancelled, the call    *)
(* returns when all of them have been attempted.  The result is an error   *)
(* when every slide failed.                                                *)
(***************************************************************************)
EXTENDS Naturals

CONSTANT NumSlides

VARIABLES
  slides,     \* the caller's result slice: "none" where nothing was written
  cancelled,  \* is ctx.Err() non-nil?
  returned    \* "no" until the call has returned, then what it returned

vars == <<slides, cancelled, returned>>

Slides == 1..NumSlides

AllFailed == \A i \in Slides : slides[i] = "error"

Result ==
  IF ~AllFailed THEN "ok"
  ELSE IF cancelled THEN "ctxErr"
  ELSE IF NumSlides > 0 THEN "allFailed"
  ELSE "ok"

Init ==
  /\ slides = [i \in Slides |-> "none"]
  /\ cancelled = FALSE
  /\ returned = "no"

Attempt(i) ==
  /\ returned = "no"
  /\ slides[i] = "none"
  /\ \E result \in {"svg", "error"} : slides' = [slides EXCEPT ![i] = result]
  /\ UNCHANGED <<cancelled, returned>>

Cancel ==
  /\ ~cancelled /\ returned = "no"
  /\ cancelled' = TRUE
  /\ UNCHANGED <<slides, returned>>

Return ==
  /\ returned = "no"
  /\ cancelled \/ \A i \in Slides : slides[i] # "none"
  /\ returned' = Result
  /\ UNCHANGED <<slides, cancelled>>

Next == (\E i \in Slides : Attempt(i)) \/ Cancel \/ Return

Spec == Init /\ [][Next]_vars

(* The call returns.                                                       *)
Returns == <>(returned # "no")

FairSpec == Spec /\ Returns

=============================================================================
