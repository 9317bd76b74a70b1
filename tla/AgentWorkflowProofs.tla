-------------------------- MODULE AgentWorkflowProofs --------------------------
(***************************************************************************)
(* AgentWorkflow for any administrators, runs, providers and workflows.    *)
(*                                                                         *)
(* That saving something else preserves the workflow rests on what every   *)
(* request knows: the workflow it would write back is the stored one, or   *)
(* it has been marked as old.  That what was seen and found reaches the    *)
(* outline rests on what a run knows of its summary: a summarising step    *)
(* lies behind it, and when none can follow, nothing is seen or found any  *)
(* more.  Both hold whatever NormalizeWorkflow returns.                    *)
(*                                                                         *)
(* Why a run fails rests on what it does return, for every workflow: by    *)
(* induction over the loop, the steps that have a kind, with an enabled    *)
(* outline step among them.  So what is stored is the empty column or in   *)
(* that form, and a run has behind it no step that ends it for certain.    *)
(***************************************************************************)
EXTENDS AgentWorkflow, WellFoundedInduction, TLAPS

SettingsFields == {"prompts", "provider", "workflow"}
RunFields == {"pc", "provider", "workflow", "index", "files", "search", "notes", "asks",
              "vision", "found", "summary", "context", "result"}

(* A request under way, given the workflow that is stored. *)
RequestOK(q, workflow) ==
  \/ q = NoRequest
  \/ /\ DOMAIN q = {"pc", "sets", "new", "stale"} /\ q.pc \in {"save", "second"}
     /\ DOMAIN q.new = SettingsFields
     /\ q.sets # "workflow" /\ ~q.stale => q.new.workflow = workflow

(* A run of the agent: its summary is of everything it has, if no step     *)
(* that finds something comes after one that summarises.                   *)
RunOK(x) ==
  /\ DOMAIN x = RunFields /\ x.index \in Nat
  /\ x.summary # {} =>
       \E i \in DOMAIN x.workflow : i \in Nat /\ i < x.index /\ x.workflow[i].kind = "summarize"
  /\ x.summary # {} /\ SummarizesLast(x.workflow) => x.vision \cup x.found \subseteq x.summary
  /\ x.result = "outline" =>
       /\ x.pc = "ended"
       /\ SummarizesLast(x.workflow) => x.vision \cup x.found \subseteq x.context

RequestsOK == DOMAIN req = Admins /\ \A a \in Admins : RequestOK(req[a], settings.workflow)
RunsOK     == DOMAIN run = Runs /\ \A r \in Runs : RunOK(run[r])

IInv == DOMAIN settings = SettingsFields /\ RequestsOK /\ RunsOK

-----------------------------------------------------------------------------
LEMMA InitInv == Init => IInv
<1> SUFFICES ASSUME Init PROVE IInv
  OBVIOUS
<1>1. DOMAIN settings = SettingsFields
  BY DEF Init, NewSettings, SettingsFields
<1>2. RequestsOK
  BY DEF Init, RequestsOK, RequestOK
<1>3. RunOK(NewRun)
  BY DEF RunOK, NewRun, RunFields
<1>4. RunsOK
  BY <1>3 DEF Init, RunsOK
<1> QED BY <1>1, <1>2, <1>4 DEF IInv

(* A run goes from its locals to x. *)
LEMMA RunMoves ==
  ASSUME RunsOK, NEW r \in Runs, NEW x, RunOK(x), run' = [run EXCEPT ![r] = x]
  PROVE  RunsOK'
<1>1. DOMAIN run' = Runs /\ \A q \in Runs : run'[q] = IF q = r THEN x ELSE run[q]
  BY DEF RunsOK
<1>2. \A q \in Runs : RunOK(run'[q])
  BY <1>1 DEF RunsOK
<1>3. ASSUME NEW q \in Runs PROVE RunOK(run[q])'
  BY <1>2 DEF RunOK, SummarizesLast
<1> QED BY <1>1, <1>3 DEF RunsOK

(* A step of the workflow that leaves the summary as it is, and finds      *)
(* something only when it is a step that does.                             *)
LEMMA StepMoves ==
  ASSUME RunsOK, NEW r \in Runs, AtStep(r), NEW x, Went(r, x),
         DOMAIN x = RunFields, x.index = run[r].index, x.workflow = run[r].workflow,
         x.summary = run[r].summary, x.result = run[r].result, x.pc = run[r].pc,
         \/ x.vision = run[r].vision /\ x.found = run[r].found
         \/ Current(r).kind \in {"vision", "search"}
  PROVE  RunsOK'
<1> DEFINE y == [x EXCEPT !.index = @ + 1]
<1>1. RunOK(run[r]) /\ run' = [run EXCEPT ![r] = y]
  BY DEF RunsOK, Went
<1>2. /\ DOMAIN y = RunFields /\ y.index = run[r].index + 1 /\ y.workflow = run[r].workflow
      /\ y.summary = run[r].summary /\ y.result = run[r].result
      /\ y.vision = x.vision /\ y.found = x.found
  BY DEF RunFields
<1> HIDE DEF y
<1>3. run[r].index \in Nat /\ run[r].index \in DOMAIN run[r].workflow /\ run[r].pc = "step"
  BY <1>1 DEF RunOK, AtStep, Workflow
<1>4. y.summary # {} =>
        \E i \in DOMAIN y.workflow : i \in Nat /\ i < y.index /\ y.workflow[i].kind = "summarize"
  <2> SUFFICES ASSUME run[r].summary # {}
               PROVE  \E i \in DOMAIN y.workflow :
                        i \in Nat /\ i < y.index /\ y.workflow[i].kind = "summarize"
    BY <1>2
  <2>1. PICK i \in DOMAIN run[r].workflow :
          i \in Nat /\ i < run[r].index /\ run[r].workflow[i].kind = "summarize"
    BY <1>1 DEF RunOK
  <2> QED BY <1>2, <1>3, <2>1
<1>5. y.summary # {} /\ SummarizesLast(y.workflow) => y.vision \cup y.found \subseteq y.summary
  <2> SUFFICES ASSUME run[r].summary # {}, SummarizesLast(run[r].workflow)
               PROVE  x.vision \cup x.found \subseteq run[r].summary
    BY <1>2
  <2>1. PICK i \in DOMAIN run[r].workflow :
          i \in Nat /\ i < run[r].index /\ run[r].workflow[i].kind = "summarize"
    BY <1>1 DEF RunOK
  <2>2. ~(run[r].workflow[run[r].index].kind \in {"vision", "search"})
    BY <1>3, <2>1 DEF SummarizesLast
  <2>3. x.vision = run[r].vision /\ x.found = run[r].found
    BY <2>2 DEF Current, Workflow
  <2> QED BY <1>1, <2>3 DEF RunOK
<1>6. y.result # "outline"
  BY <1>1, <1>2, <1>3 DEF RunOK
<1>7. RunOK(y)
  BY <1>2, <1>3, <1>4, <1>5, <1>6 DEF RunOK
<1> QED BY <1>1, <1>7, RunMoves

(* Nothing of the others' concern changes. *)
LEMMA OthersSame ==
  ASSUME IInv, RunsOK', UNCHANGED <<settings, req>>
  PROVE  IInv'
BY DEF IInv, RequestsOK, RequestOK

LEMMA RequestsSame ==
  ASSUME IInv, UNCHANGED run PROVE RunsOK'
BY DEF IInv, RunsOK, RunOK, SummarizesLast

-----------------------------------------------------------------------------
(* The runs.                                                               *)

LEMMA StartStep ==
  ASSUME IInv, NEW r \in Runs, StartRun(r)
  PROVE  IInv'
<1>1. PICK files, search, notes :
        run' = [run EXCEPT ![r] =
          [NewRun EXCEPT !.pc = "step", !.files = files, !.search = search, !.notes = notes,
             !.provider = settings.provider,
             !.workflow = NormalizeWorkflow(ParseWorkflowJSON(settings.workflow))]]
  BY DEF StartRun
<1> DEFINE workflow == NormalizeWorkflow(ParseWorkflowJSON(settings.workflow))
           x == [NewRun EXCEPT !.pc = "step", !.files = files, !.search = search, !.notes = notes,
                               !.provider = settings.provider, !.workflow = workflow]
<1> HIDE DEF workflow
<1>2. RunOK(x)
  BY DEF RunOK, NewRun, RunFields
<1>3. run' = [run EXCEPT ![r] = x]
  BY <1>1 DEF workflow
<1> HIDE DEF x
<1>4. RunsOK'
  BY <1>2, <1>3, RunMoves DEF IInv
<1> QED BY <1>4, OthersSame DEF StartRun

LEMMA QuietStep ==
  ASSUME IInv, NEW r \in Runs, Went(r, run[r]), AtStep(r)
  PROVE  IInv'
<1>1. RunOK(run[r])
  BY DEF IInv, RunsOK
<1>2. RunsOK'
  BY <1>1, StepMoves DEF RunOK, IInv
<1> QED BY <1>2, OthersSame DEF Went

LEMMA EndStep ==
  ASSUME IInv, NEW r \in Runs, NEW result, NEW context, Ends(r, result, context),
         result = "outline" => context = Context(r)
  PROVE  IInv'
<1> DEFINE x == [run[r] EXCEPT !.pc = "ended", !.result = result, !.context = context]
<1>1. RunOK(run[r]) /\ run' = [run EXCEPT ![r] = x]
  BY DEF IInv, RunsOK, Ends
<1>2. /\ DOMAIN x = RunFields /\ x.index = run[r].index /\ x.workflow = run[r].workflow
      /\ x.summary = run[r].summary /\ x.vision = run[r].vision /\ x.found = run[r].found
      /\ x.pc = "ended" /\ x.result = result /\ x.context = context
  BY <1>1 DEF RunOK, RunFields
<1> HIDE DEF x
<1>3. result = "outline" /\ SummarizesLast(x.workflow) => x.vision \cup x.found \subseteq context
  BY <1>1, <1>2 DEF Context, RunOK
<1>4. RunOK(x)
  BY <1>1, <1>2, <1>3 DEF RunOK
<1>5. RunsOK'
  BY <1>1, <1>4, RunMoves DEF IInv
<1> QED BY <1>5, OthersSame DEF Ends

LEMMA VisionStep ==
  ASSUME IInv, NEW r \in Runs, runVision(r)
  PROVE  IInv'
<1>1. PICK asks \in BOOLEAN :
        Went(r, [run[r] EXCEPT !.vision = IF run[r].files THEN {"files"} ELSE {}, !.asks = asks])
  BY DEF runVision
<1> DEFINE x == [run[r] EXCEPT !.vision = IF run[r].files THEN {"files"} ELSE {}, !.asks = asks]
<1>2. RunOK(run[r]) /\ AtStep(r) /\ Current(r).kind = "vision"
  BY DEF IInv, RunsOK, runVision, Executes
<1>3. /\ DOMAIN x = RunFields /\ x.index = run[r].index /\ x.workflow = run[r].workflow
      /\ x.summary = run[r].summary /\ x.result = run[r].result /\ x.pc = run[r].pc
  BY <1>2 DEF RunOK, RunFields
<1>4. Went(r, x)
  BY <1>1
<1> HIDE DEF x
<1>5. RunsOK'
  BY <1>2, <1>3, <1>4, StepMoves DEF IInv
<1> QED BY <1>4, <1>5, OthersSame DEF Went

LEMMA SearchStep ==
  ASSUME IInv, NEW r \in Runs, runSearch(r)
  PROVE  IInv'
<1>1. PICK text \in SUBSET {"search"} : Went(r, [run[r] EXCEPT !.found = text])
  BY DEF runSearch
<1> DEFINE x == [run[r] EXCEPT !.found = text]
<1>2. RunOK(run[r]) /\ AtStep(r) /\ Current(r).kind = "search"
  BY DEF IInv, RunsOK, runSearch, Executes
<1>3. /\ DOMAIN x = RunFields /\ x.index = run[r].index /\ x.workflow = run[r].workflow
      /\ x.summary = run[r].summary /\ x.result = run[r].result /\ x.pc = run[r].pc
  BY <1>2 DEF RunOK, RunFields
<1>4. Went(r, x)
  BY <1>1
<1> HIDE DEF x
<1>5. RunsOK'
  BY <1>2, <1>3, <1>4, StepMoves DEF IInv
<1> QED BY <1>4, <1>5, OthersSame DEF Went

(* A new summary has all there is, or nothing. *)
LEMMA SummarizeStep ==
  ASSUME IInv, NEW r \in Runs, runSummarize(r)
  PROVE  IInv'
<1>1. PICK text \in {{}, run[r].vision \cup run[r].found \cup run[r].notes} :
        Went(r, [run[r] EXCEPT !.summary = text])
  BY DEF runSummarize
<1> DEFINE x == [run[r] EXCEPT !.summary = text]
           y == [x EXCEPT !.index = @ + 1]
<1>2. /\ RunOK(run[r]) /\ run[r].pc = "step" /\ run[r].index \in DOMAIN run[r].workflow
      /\ run[r].workflow[run[r].index].kind = "summarize"
  BY DEF IInv, RunsOK, runSummarize, Executes, AtStep, Current, Workflow
<1>3. /\ DOMAIN y = RunFields /\ y.index = run[r].index + 1 /\ y.workflow = run[r].workflow
      /\ y.summary = text /\ y.result = run[r].result
      /\ y.vision = run[r].vision /\ y.found = run[r].found
  BY <1>2 DEF RunOK, RunFields
<1>4. run' = [run EXCEPT ![r] = y] /\ UNCHANGED <<settings, req>>
  BY <1>1 DEF Went
<1> HIDE DEF x, y
<1>5. run[r].index \in Nat /\ run[r].index < y.index /\ y.index \in Nat
  BY <1>2, <1>3 DEF RunOK
<1>6. RunOK(y)
  <2>1. \E i \in DOMAIN y.workflow : i \in Nat /\ i < y.index /\ y.workflow[i].kind = "summarize"
    BY <1>2, <1>3, <1>5
  <2>2. y.summary # {} => y.vision \cup y.found \subseteq y.summary
    BY <1>1, <1>3
  <2>3. y.result # "outline"
    BY <1>2, <1>3 DEF RunOK
  <2> QED BY <1>3, <1>5, <2>1, <2>2, <2>3 DEF RunOK
<1>7. RunsOK'
  BY <1>4, <1>6, RunMoves DEF IInv
<1> QED BY <1>4, <1>7, OthersSame

LEMMA RunStepInv ==
  ASSUME IInv, NEW r \in Runs, RunStep(r)
  PROVE  IInv'
<1>1. CASE Skip(r)
  BY <1>1, QuietStep DEF Skip
<1>2. CASE Unresolved(r)
  <2>1. CASE Current(r).kind = "outline"
    BY <1>2, <2>1, EndStep DEF Unresolved
  <2>2. CASE Current(r).kind # "outline"
    BY <1>2, <2>2, QuietStep DEF Unresolved, Executes
  <2> QED BY <2>1, <2>2
<1>3. CASE CallFails(r)
  BY <1>3, QuietStep DEF CallFails, Executes
<1>4. CASE runVision(r)
  BY <1>4, VisionStep
<1>5. CASE runSearch(r)
  BY <1>5, SearchStep
<1>6. CASE runSummarize(r)
  BY <1>6, SummarizeStep
<1>7. CASE runOutline(r)
  BY <1>7, EndStep DEF runOutline
<1>8. CASE NoStepLeft(r)
  BY <1>8, EndStep DEF NoStepLeft
<1> QED BY <1>1, <1>2, <1>3, <1>4, <1>5, <1>6, <1>7, <1>8 DEF RunStep

-----------------------------------------------------------------------------
(* The administrators.                                                     *)

LEMMA BeginStep ==
  ASSUME IInv, NEW a \in Admins, NEW sets, NEW new, NEW stale, Begin(a, sets, new, stale),
         DOMAIN new = SettingsFields,
         sets # "workflow" /\ ~stale => new.workflow = settings.workflow
  PROVE  IInv'
<1> DEFINE q == [pc |-> "save", sets |-> sets, new |-> new, stale |-> stale]
<1>1. req' = [req EXCEPT ![a] = q] /\ UNCHANGED <<settings, run>>
  BY DEF Begin
<1>2. RequestOK(q, settings.workflow)
  BY DEF RequestOK
<1> HIDE DEF q
<1>3. DOMAIN req' = Admins /\ \A b \in Admins : RequestOK(req'[b], settings.workflow)
  BY <1>1, <1>2 DEF IInv, RequestsOK
<1>4. RequestsOK'
  BY <1>1, <1>3 DEF RequestsOK, RequestOK
<1> QED BY <1>1, <1>4, RequestsSame DEF IInv

LEMMA Administers ==
  ASSUME IInv, NEW a \in Admins,
         \/ handleAdminPrompts(a) \/ handleAdminPromptsReset(a)
         \/ handleAdminAgentWorkflow(a) \/ handleAdminAgentWorkflowReset(a)
  PROVE  IInv'
<1>1. CASE handleAdminPrompts(a)
  <2>1. PICK p \in Providers, prev \in {settings, NewSettings} :
          Begin(a, "roles", [prompts |-> p, provider |-> p, workflow |-> prev.workflow],
                prev.workflow # settings.workflow)
    BY <1>1 DEF handleAdminPrompts
  <2> DEFINE new   == [prompts |-> p, provider |-> p, workflow |-> prev.workflow]
             stale == prev.workflow # settings.workflow
  <2>2. DOMAIN new = SettingsFields /\ (~stale => new.workflow = settings.workflow)
    BY DEF SettingsFields
  <2>3. Begin(a, "roles", new, stale)
    BY <2>1
  <2> HIDE DEF new, stale
  <2> QED BY <2>2, <2>3, BeginStep
<1>2. CASE handleAdminPromptsReset(a)
  <2> DEFINE new == [settings EXCEPT !.prompts = None]
  <2>1. DOMAIN new = SettingsFields /\ new.workflow = settings.workflow
    BY DEF IInv, SettingsFields
  <2>2. Begin(a, "prompts", new, FALSE)
    BY <1>2 DEF handleAdminPromptsReset
  <2> HIDE DEF new
  <2> QED BY <2>1, <2>2, BeginStep
<1>3. ASSUME NEW w, Begin(a, "workflow", [settings EXCEPT !.workflow = w], FALSE)
      PROVE  IInv'
  <2> DEFINE new == [settings EXCEPT !.workflow = w]
  <2>1. DOMAIN new = SettingsFields /\ Begin(a, "workflow", new, FALSE)
    BY <1>3 DEF IInv
  <2> HIDE DEF new
  <2> QED BY <2>1, BeginStep
<1> QED BY <1>1, <1>2, <1>3 DEF handleAdminAgentWorkflow, handleAdminAgentWorkflowReset

(* A save that writes the workflow: it is the request's, and who has read  *)
(* another one is marked.                                                  *)
LEMMA WriteStep ==
  ASSUME IInv, NEW a \in Admins, req[a].pc # "idle", Wrote(a), UNCHANGED run,
         DOMAIN settings' = SettingsFields
  PROVE  IInv'
<1>1. ASSUME NEW b \in Admins PROVE RequestOK(req'[b], settings'.workflow)
  <2>1. RequestOK(req[b], settings.workflow)
    BY DEF IInv, RequestsOK
  <2>2. CASE req'[b] = NoRequest
    BY <2>2 DEF RequestOK
  <2>3. CASE req'[b] # NoRequest
    <3>1. /\ req[b].pc # "idle"
          /\ req'[b] = [req[b] EXCEPT !.stale = @ \/ settings'.workflow # settings.workflow]
      BY <2>3 DEF Wrote
    <3>2. req[b] # NoRequest
      BY <3>1 DEF NoRequest
    <3>3. /\ DOMAIN req'[b] = DOMAIN req[b] /\ req'[b].pc = req[b].pc
          /\ req'[b].sets = req[b].sets /\ req'[b].new = req[b].new
          /\ req'[b].stale = (req[b].stale \/ settings'.workflow # settings.workflow)
      BY <2>1, <3>1, <3>2 DEF RequestOK
    <3> QED BY <2>1, <3>2, <3>3 DEF RequestOK
  <2> QED BY <2>2, <2>3
<1>2. DOMAIN req' = Admins
  BY DEF Wrote
<1>3. RequestsOK'
  BY <1>1, <1>2 DEF RequestsOK, RequestOK
<1> QED BY <1>3, RequestsSame DEF IInv

LEMMA SaveStep ==
  ASSUME IInv, NEW a \in Admins, SaveJSON(a) \/ SaveFirst(a) \/ SaveSecond(a) \/ SaveFails(a)
  PROVE  IInv'
<1>1. RequestOK(req[a], settings.workflow) /\ DOMAIN settings = SettingsFields
  BY DEF IInv, RequestsOK
<1>2. req[a].pc # "idle" /\ UNCHANGED run /\ req[a] # NoRequest
  BY DEF SaveJSON, SaveFirst, SaveSecond, SaveFails, NoRequest
<1>3. CASE SaveJSON(a)
  BY <1>1, <1>2, <1>3, WriteStep DEF SaveJSON, RequestOK
<1>4. CASE SaveSecond(a)
  BY <1>1, <1>2, <1>4, WriteStep DEF SaveSecond, RequestOK
<1>5. CASE SaveFirst(a)
  <2> DEFINE q == [req[a] EXCEPT !.pc = "second"]
  <2>1. /\ settings'.workflow = settings.workflow /\ DOMAIN settings' = SettingsFields
        /\ req' = [req EXCEPT ![a] = q]
    BY <1>1, <1>5 DEF SaveFirst, SettingsFields, IInv, RequestsOK
  <2>2. RequestOK(q, settings.workflow)
    BY <1>1, <1>2 DEF RequestOK
  <2> HIDE DEF q
  <2>3. DOMAIN req' = Admins /\ \A b \in Admins : RequestOK(req'[b], settings'.workflow)
    BY <2>1, <2>2 DEF IInv, RequestsOK
  <2>4. RequestsOK'
    BY <2>3 DEF RequestsOK, RequestOK
  <2> QED BY <1>2, <2>1, <2>4, RequestsSame DEF IInv
<1>6. CASE SaveFails(a)
  <2>1. req' = [req EXCEPT ![a] = NoRequest] /\ UNCHANGED settings
    BY <1>6 DEF SaveFails
  <2>2. RequestsOK'
    BY <2>1 DEF IInv, RequestsOK, RequestOK
  <2> QED BY <1>2, <2>1, <2>2, RequestsSame DEF IInv
<1> QED BY <1>3, <1>4, <1>5, <1>6

LEMMA NextInv == IInv /\ [Next]_vars => IInv'
<1> SUFFICES ASSUME IInv, [Next]_vars PROVE IInv'
  OBVIOUS
<1>1. ASSUME NEW a \in Admins,
             \/ handleAdminPrompts(a) \/ handleAdminPromptsReset(a)
             \/ handleAdminAgentWorkflow(a) \/ handleAdminAgentWorkflowReset(a)
      PROVE  IInv'
  BY <1>1, Administers
<1>2. ASSUME NEW a \in Admins, SaveJSON(a) \/ SaveFirst(a) \/ SaveSecond(a) \/ SaveFails(a)
      PROVE  IInv'
  BY <1>2, SaveStep
<1>3. ASSUME NEW p \in Providers,
             CreateLLMProvider(p) \/ UpdateLLMProvider(p) \/ DeleteLLMProvider(p)
      PROVE  IInv'
  <2>1. UNCHANGED <<settings, req, run>>
    BY <1>3 DEF CreateLLMProvider, UpdateLLMProvider, DeleteLLMProvider
  <2> QED BY <2>1, RequestsSame, OthersSame
<1>4. ASSUME NEW r \in Runs, StartRun(r) \/ SettingsUnread(r) PROVE IInv'
  BY <1>4, StartStep, EndStep DEF SettingsUnread
<1>5. ASSUME NEW r \in Runs, RunStep(r) PROVE IInv'
  BY <1>5, RunStepInv
<1>6. CASE UNCHANGED vars
  <2>1. UNCHANGED <<settings, req, run>>
    BY <1>6 DEF vars
  <2> QED BY <2>1, RequestsSame, OthersSame
<1> QED BY <1>1, <1>2, <1>3, <1>4, <1>5, <1>6 DEF Next

LEMMA Inductive == Spec => []IInv
BY InitInv, NextInv, PTL DEF Spec

-----------------------------------------------------------------------------
(* runner.go: whatever fails between, the outline gets what vision and     *)
(* search found, in a workflow that summarises last.                       *)
THEOREM NotesCorrect == Spec => []NotesReachOutline
<1>1. IInv => NotesReachOutline
  BY DEF IInv, RunsOK, RunOK, NotesReachOutline, Workflow
<1> QED BY <1>1, Inductive, PTL

(* admin_prompts.go and admin_agent.go: as long as every save used a read  *)
(* that succeeded and is not from before another save, only a request that *)
(* sets the workflow changes it, in both kinds of store.                   *)
THEOREM WorkflowCorrect == Spec => WorkflowPreserved
<1> DEFINE Sets == \E a \in Admins :
                     req[a].pc # "idle" /\ req[a].sets = "workflow" /\ req'[a].pc = "idle"
<1>1. ASSUME IInv, Next, settings'.workflow # settings.workflow, ~excused'
      PROVE  Sets
  <2>1. PICK a \in Admins : SaveJSON(a) \/ SaveSecond(a)
    <3>1. ASSUME NEW a \in Admins, SaveFirst(a) PROVE FALSE
      BY <1>1, <3>1 DEF SaveFirst, IInv, SettingsFields
    <3>2. (\E a \in Admins : SaveJSON(a) \/ SaveSecond(a)) \/ UNCHANGED settings
      BY <1>1, <3>1 DEF Next, handleAdminPrompts, handleAdminPromptsReset,
           handleAdminAgentWorkflow, handleAdminAgentWorkflowReset, Begin, SaveFails,
           CreateLLMProvider, UpdateLLMProvider, DeleteLLMProvider, StartRun, SettingsUnread, RunStep, Skip,
           Unresolved, CallFails, runVision, runSearch, runSummarize, runOutline, NoStepLeft,
           Went, Ends
    <3> QED BY <1>1, <3>2
  <2>2. RequestOK(req[a], settings.workflow) /\ req[a].pc # "idle" /\ req[a] # NoRequest
    BY <1>1, <2>1 DEF IInv, RequestsOK, SaveJSON, SaveSecond, NoRequest
  <2>3. settings'.workflow = req[a].new.workflow /\ Wrote(a)
    BY <2>1, <2>2 DEF SaveJSON, SaveSecond, RequestOK, SettingsFields
  <2>4. req[a].sets = "workflow"
    BY <1>1, <2>2, <2>3 DEF Wrote, RequestOK
  <2>5. req'[a] = NoRequest
    BY <2>3 DEF Wrote
  <2> QED BY <2>2, <2>4, <2>5 DEF NoRequest
<1>2. IInv /\ [Next]_vars => [settings'.workflow # settings.workflow /\ ~excused' => Sets]_vars
  BY <1>1 DEF vars
<1> QED BY <1>2, Inductive, PTL DEF Spec, WorkflowPreserved

-----------------------------------------------------------------------------
(* The loop of NormalizeWorkflow.                                          *)

(* Induction for a set instead of a predicate: every non-empty set of      *)
(* numbers has a least one.                                                *)
LEMMA Induction ==
  ASSUME NEW T, 0 \in T, \A n \in Nat : n \in T => n + 1 \in T
  PROVE  Nat \subseteq T
<1> DEFINE Out == Nat \ T
<1>1. ASSUME NEW n \in Out, \A m \in Out : ~(<<m, n>> \in OpToRel(<, Nat)) PROVE FALSE
  <2>1. n # 0 /\ n - 1 \in Nat /\ n - 1 + 1 = n
    OBVIOUS
  <2>2. n - 1 \in Out
    BY <2>1
  <2>3. <<n - 1, n>> \in OpToRel(<, Nat)
    BY <2>1 DEF OpToRel
  <2> QED BY <1>1, <2>2, <2>3
<1>2. Out \subseteq Nat
  OBVIOUS
<1> HIDE DEF Out
<1>3. Out = {}
  BY <1>1, <1>2, NatLessThanWellFounded, WFMin
<1> QED BY <1>3 DEF Out

(* f holds what the loop over the steps has kept after each of the first n. *)
Loop(f, workflow, n) ==
  /\ f = [i \in 0..n |-> f[i]] /\ f[0] = << >>
  /\ \A i \in 1..n : f[i] = Keep(f[i - 1], workflow[i])

LEMMA LoopExists ==
  ASSUME NEW workflow, NEW n \in Nat
  PROVE  \E f : Loop(f, workflow, n)
<1> DEFINE T == {m \in Nat : \E f : Loop(f, workflow, m)}
<1>1. 0 \in T
  <2> DEFINE f == [i \in 0..0 |-> << >>]
  <2>1. f = [i \in 0..0 |-> f[i]] /\ f[0] = << >>
    OBVIOUS
  <2> HIDE DEF f
  <2>2. Loop(f, workflow, 0)
    BY <2>1 DEF Loop
  <2> QED BY <2>2
<1>2. ASSUME NEW m \in Nat, m \in T PROVE m + 1 \in T
  <2>1. PICK f : Loop(f, workflow, m)
    BY <1>2
  <2> DEFINE last == Keep(f[m], workflow[m + 1])
             g == [i \in 0..m + 1 |-> IF i = m + 1 THEN last ELSE f[i]]
  <2> HIDE DEF last
  <2>2. g = [i \in 0..m + 1 |-> g[i]] /\ g[m + 1] = last /\ \A i \in 0..m : g[i] = f[i]
    OBVIOUS
  <2> HIDE DEF g
  <2>3. g[0] = << >>
    BY <2>1, <2>2 DEF Loop
  <2>4. ASSUME NEW i \in 1..m + 1 PROVE g[i] = Keep(g[i - 1], workflow[i])
    <3>1. CASE i = m + 1
      <4>1. m \in 0..m /\ m + 1 - 1 = m
        OBVIOUS
      <4>2. g[m + 1] = Keep(g[m + 1 - 1], workflow[m + 1])
        BY <2>2, <4>1 DEF last
      <4> QED BY <3>1, <4>2
    <3>2. CASE i # m + 1
      <4>1. i \in 1..m /\ i \in 0..m /\ i - 1 \in 0..m
        BY <3>2
      <4>2. f[i] = Keep(f[i - 1], workflow[i])
        BY <2>1, <4>1 DEF Loop
      <4>3. g[i] = f[i] /\ g[i - 1] = f[i - 1]
        BY <2>2, <4>1
      <4> QED BY <4>2, <4>3
    <3> QED BY <3>1, <3>2
  <2>5. Loop(g, workflow, m + 1)
    BY <2>2, <2>3, <2>4 DEF Loop
  <2> QED BY <2>5
<1> HIDE DEF T
<1>3. n \in T
  BY <1>1, <1>2, Induction
<1> QED BY <1>3 DEF T

LEMMA KeptLoop ==
  ASSUME NEW S, NEW workflow \in Seq(S)
  PROVE  \E f : Loop(f, workflow, Len(workflow)) /\ KeptSteps(workflow) = f[Len(workflow)]
<1> DEFINE n == Len(workflow)
           IsLoop(f) == f = [i \in 0..n |->
                          IF i = 0 THEN << >> ELSE Keep(f[i - 1], workflow[i])]
           f == CHOOSE f : IsLoop(f)
<1>1. n \in Nat
  OBVIOUS
<1>2. PICK g : Loop(g, workflow, n)
  BY <1>1, LoopExists
<1>3. g = [i \in 0..n |-> IF i = 0 THEN << >> ELSE Keep(g[i - 1], workflow[i])]
  <2>1. \A i \in 0..n : i = 0 \/ i \in 1..n
    BY <1>1
  <2> QED BY <1>2, <2>1 DEF Loop
<1>4. IsLoop(f)
  BY <1>3, Zenon
<1>5. KeptSteps(workflow) = f[n]
  BY Zenon DEF KeptSteps
<1>6. Loop(f, workflow, n)
  <2> HIDE DEF f
  <2>1. f = [i \in 0..n |-> f[i]] /\ f[0] = << >>
    BY <1>1, <1>4
  <2>2. \A i \in 1..n : f[i] = Keep(f[i - 1], workflow[i])
    BY <1>1, <1>4
  <2> QED BY <2>1, <2>2 DEF Loop
<1> QED BY <1>5, <1>6

(* pos says which step of the workflow each of the kept ones is.           *)
Selects(pos, kept, workflow, n) ==
  /\ pos \in [1..Len(kept) -> 1..n]
  /\ \A k \in 1..Len(kept) : kept[k] = workflow[pos[k]]
  /\ \A k, l \in 1..Len(kept) : k < l => pos[k] < pos[l]
  /\ \A i \in 1..n : workflow[i].kind # "" => \E k \in 1..Len(kept) : pos[k] = i

Named(S) == {s \in S : s.kind # ""}

(* One more step. *)
LEMMA KeepSelects ==
  ASSUME NEW S, NEW workflow, NEW n \in Nat, workflow[n + 1] \in S,
         NEW kept \in Seq(Named(S)), NEW pos, Selects(pos, kept, workflow, n)
  PROVE  /\ Keep(kept, workflow[n + 1]) \in Seq(Named(S))
         /\ \E q : Selects(q, Keep(kept, workflow[n + 1]), workflow, n + 1)
<1> DEFINE len == Len(kept)
<1>1. len \in Nat /\ \A i \in 1..n + 1 : i \in 1..n \/ i = n + 1
  OBVIOUS
<1>2. CASE workflow[n + 1].kind = ""
  <2>1. Keep(kept, workflow[n + 1]) = kept
    BY <1>2 DEF Keep
  <2>2. pos \in [1..len -> 1..n + 1]
    <3>1. pos \in [1..len -> 1..n]
      BY DEF Selects
    <3>2. 1..n \subseteq 1..n + 1
      OBVIOUS
    <3> HIDE DEF len
    <3> QED BY <3>1, <3>2
  <2>3. Selects(pos, kept, workflow, n + 1)
    BY <1>1, <1>2, <2>2 DEF Selects
  <2> QED BY <2>1, <2>3
<1>3. CASE workflow[n + 1].kind # ""
  <2> DEFINE new == Append(kept, workflow[n + 1])
             q   == [k \in 1..len + 1 |-> IF k = len + 1 THEN n + 1 ELSE pos[k]]
  <2>1. workflow[n + 1] \in Named(S) /\ Keep(kept, workflow[n + 1]) = new
    BY <1>3 DEF Keep, Named
  <2>2. /\ new \in Seq(Named(S)) /\ Len(new) = len + 1 /\ new[len + 1] = workflow[n + 1]
        /\ \A k \in 1..len : new[k] = kept[k]
    BY <2>1
  <2>3. /\ \A k \in 1..len : kept[k] = workflow[pos[k]] /\ pos[k] \in 1..n
        /\ \A k, l \in 1..len : k < l => pos[k] < pos[l]
        /\ \A i \in 1..n : workflow[i].kind # "" => \E k \in 1..len : pos[k] = i
    BY DEF Selects
  <2> HIDE DEF new, len
  <2>4. /\ \A k \in 1..len + 1 : k \in 1..len \/ k = len + 1
        /\ len + 1 \in 1..len + 1 /\ 1..len \subseteq 1..len + 1
        /\ q[len + 1] = n + 1 /\ \A k \in 1..len : q[k] = pos[k]
    BY <1>1
  <2>5. q \in [1..len + 1 -> 1..n + 1]
    <3>1. n + 1 \in 1..n + 1 /\ 1..n \subseteq 1..n + 1
      OBVIOUS
    <3>2. \A k \in 1..len + 1 : k = len + 1 \/ pos[k] \in 1..n + 1
      BY <2>3, <2>4, <3>1
    <3> QED BY <3>1, <3>2
  <2> HIDE DEF q
  <2>6. \A k \in 1..len + 1 : new[k] = workflow[q[k]]
    <3> TAKE k \in 1..len + 1
    <3>1. CASE k = len + 1
      BY <2>2, <2>4, <3>1
    <3>2. CASE k \in 1..len
      BY <2>2, <2>3, <2>4, <3>2
    <3> QED BY <2>4, <3>1, <3>2
  <2>7. ASSUME NEW k \in 1..len + 1, NEW l \in 1..len + 1, k < l PROVE q[k] < q[l]
    <3>1. k \in 1..len
      BY <1>1, <2>7
    <3>2. CASE l = len + 1
      <4>1. q[k] \in 1..n /\ q[l] = n + 1
        BY <2>3, <2>4, <3>1, <3>2
      <4> QED BY <4>1
    <3>3. CASE l \in 1..len
      BY <2>3, <2>4, <2>7, <3>1, <3>3
    <3> QED BY <2>4, <3>2, <3>3
  <2>8. ASSUME NEW i \in 1..n + 1, workflow[i].kind # "" PROVE \E k \in 1..len + 1 : q[k] = i
    <3>1. CASE i = n + 1
      BY <2>4, <3>1
    <3>2. CASE i \in 1..n
      <4>1. PICK k \in 1..len : pos[k] = i
        BY <2>3, <2>8, <3>2
      <4> QED BY <2>4, <4>1
    <3> QED BY <1>1, <3>1, <3>2
  <2>9. Selects(q, new, workflow, n + 1)
    BY <2>2, <2>5, <2>6, <2>7, <2>8 DEF Selects
  <2> QED BY <2>1, <2>2, <2>9
<1> QED BY <1>2, <1>3

Filtered(kept, S, workflow, n) ==
  kept \in Seq(Named(S)) /\ \E pos : Selects(pos, kept, workflow, n)

(* The loop is a filter: it keeps the steps of a kind, all of them, in     *)
(* their order.                                                            *)
LEMMA KeptIsFiltered ==
  ASSUME NEW S, NEW workflow \in Seq(S)
  PROVE  Filtered(KeptSteps(workflow), S, workflow, Len(workflow))
<1> DEFINE N == Len(workflow)
<1>1. N \in Nat /\ \A i \in 1..N : workflow[i] \in S
  OBVIOUS
<1>2. PICK f : Loop(f, workflow, N) /\ KeptSteps(workflow) = f[N]
  BY KeptLoop
<1>0. f[0] = << >> /\ \A i \in 1..N : f[i] = Keep(f[i - 1], workflow[i])
  BY <1>2 DEF Loop
<1> DEFINE T == {n \in Nat : n <= N => Filtered(f[n], S, workflow, n)}
<1> HIDE DEF N
<1>3. 0 \in T
  <2>1. f[0] = << >>
    BY <1>0
  <2>2. Selects(<< >>, << >>, workflow, 0)
    BY DEF Selects
  <2>3. Filtered(f[0], S, workflow, 0)
    BY <2>1, <2>2 DEF Filtered
  <2> QED BY <2>3
<1>4. ASSUME NEW n \in Nat, n \in T, n + 1 <= N PROVE Filtered(f[n + 1], S, workflow, n + 1)
  <2>1. n + 1 \in 1..N /\ n + 1 - 1 = n /\ n <= N
    BY <1>1, <1>4
  <2>2. f[n + 1] = Keep(f[n], workflow[n + 1]) /\ workflow[n + 1] \in S
    <3>1. f[n + 1] = Keep(f[n + 1 - 1], workflow[n + 1])
      BY <1>0, <2>1
    <3> QED BY <1>1, <2>1, <3>1
  <2>3. Filtered(f[n], S, workflow, n)
    BY <1>4, <2>1
  <2>4. f[n] \in Seq(Named(S)) /\ \E pos : Selects(pos, f[n], workflow, n)
    BY <2>3 DEF Filtered
  <2> HIDE DEF T
  <2> QED BY <2>2, <2>4, KeepSelects DEF Filtered
<1>5. \A n \in Nat : n \in T => n + 1 \in T
  BY <1>4
<1> HIDE DEF T
<1>6. N \in T
  BY <1>1, <1>3, <1>5, Induction
<1> QED BY <1>1, <1>2, <1>6 DEF T, N

AllNamed(workflow) == \A i \in 1..Len(workflow) : workflow[i].kind # ""

Copied(kept, S, workflow, n) ==
  kept \in Seq(S) /\ Len(kept) = n /\ \A i \in 1..n : kept[i] = workflow[i]

(* Nothing changes when every step has a kind. *)
LEMMA KeptAll ==
  ASSUME NEW S, NEW workflow \in Seq(S), AllNamed(workflow)
  PROVE  KeptSteps(workflow) = workflow
<1> DEFINE N == Len(workflow)
<1>1. N \in Nat /\ \A i \in 1..N : workflow[i] \in S
  OBVIOUS
<1>2. PICK f : Loop(f, workflow, N) /\ KeptSteps(workflow) = f[N]
  BY KeptLoop
<1>3. \A i \in 1..N : workflow[i].kind # ""
  BY DEF AllNamed
<1>0. f[0] = << >> /\ \A i \in 1..N : f[i] = Keep(f[i - 1], workflow[i])
  BY <1>2 DEF Loop
<1> DEFINE T == {n \in Nat : n <= N => Copied(f[n], S, workflow, n)}
<1> HIDE DEF N
<1>4. 0 \in T
  <2>1. f[0] = << >>
    BY <1>0
  <2>2. Copied(f[0], S, workflow, 0)
    BY <2>1 DEF Copied
  <2> QED BY <2>2
<1>5. ASSUME NEW n \in Nat, n \in T, n + 1 <= N PROVE Copied(f[n + 1], S, workflow, n + 1)
  <2>1. n + 1 \in 1..N /\ n + 1 - 1 = n /\ n <= N
    BY <1>1, <1>5
  <2>2. f[n + 1] = Append(f[n], workflow[n + 1]) /\ workflow[n + 1] \in S
    <3>1. f[n + 1] = Keep(f[n + 1 - 1], workflow[n + 1])
      BY <1>0, <2>1
    <3>2. f[n + 1] = Keep(f[n], workflow[n + 1])
      BY <2>1, <3>1
    <3> QED BY <1>1, <1>3, <2>1, <3>2 DEF Keep
  <2>3. Copied(f[n], S, workflow, n)
    BY <1>5, <2>1
  <2>4. \A i \in 1..n + 1 : i \in 1..n \/ i = n + 1
    OBVIOUS
  <2> HIDE DEF T
  <2> QED BY <2>2, <2>3, <2>4 DEF Copied
<1>6. \A n \in Nat : n \in T => n + 1 \in T
  BY <1>5
<1> HIDE DEF T
<1>7. N \in T
  BY <1>1, <1>4, <1>6, Induction
<1>8. Copied(KeptSteps(workflow), S, workflow, N)
  BY <1>1, <1>2, <1>7 DEF T
<1> QED BY <1>8 DEF Copied, N

-----------------------------------------------------------------------------
(* What NormalizeWorkflow makes of a workflow.                             *)

NormalForm(workflow) == workflow \in Seq(Steps) /\ HasOutline(workflow)

LEMMA StepTypes ==
  /\ Named(SentSteps) = Steps /\ Steps \subseteq SentSteps
  /\ OutlineStep \in Steps /\ DefaultWorkflow \in Seq(Steps)
<1>1. \A kind \in Kinds, enabled \in BOOLEAN, condition \in {"always", "has_files", "needs_search"} :
        Step(kind, enabled, condition, None) \in Steps
  BY DEF Step, Steps, StepsOf
<1>2. /\ OutlineStep \in Steps /\ Step("vision", TRUE, "has_files", None) \in Steps
      /\ Step("search", TRUE, "needs_search", None) \in Steps
      /\ Step("summarize", TRUE, "always", None) \in Steps
  BY <1>1 DEF OutlineStep, Kinds
<1>3. DefaultWorkflow \in Seq(Steps)
  <2> DEFINE a == Step("vision", TRUE, "has_files", None)
             b == Step("search", TRUE, "needs_search", None)
             c == Step("summarize", TRUE, "always", None)
             d == OutlineStep
  <2>1. a \in Steps /\ b \in Steps /\ c \in Steps /\ d \in Steps /\ DefaultWorkflow = <<a, b, c, d>>
    BY <1>2 DEF DefaultWorkflow
  <2> HIDE DEF a, b, c, d
  <2> QED BY <2>1
<1>4. Named(SentSteps) = Steps /\ Steps \subseteq SentSteps
  BY DEF Named, SentSteps, Steps, StepsOf, Kinds
<1> QED BY <1>2, <1>3, <1>4

LEMMA DefaultIsNormal == NormalForm(DefaultWorkflow)
<1>1. 4 \in DOMAIN DefaultWorkflow /\ DefaultWorkflow[4] = OutlineStep
  BY DEF DefaultWorkflow
<1>2. OutlineStep.kind = "outline" /\ OutlineStep.enabled
  BY DEF OutlineStep, Step
<1> QED BY <1>1, <1>2, StepTypes DEF NormalForm, HasOutline

(* Whatever is sent, the result has steps of a kind only, and an outline   *)
(* step that is enabled.                                                   *)
LEMMA NormalizeIsNormal ==
  ASSUME NEW workflow \in Seq(SentSteps)
  PROVE  NormalForm(NormalizeWorkflow(workflow))
<1> DEFINE steps == KeptSteps(workflow)
<1>1. steps \in Seq(Steps)
  BY KeptIsFiltered, StepTypes DEF Filtered
<1> HIDE DEF steps
<1>2. CASE steps = << >>
  BY <1>2, DefaultIsNormal DEF NormalizeWorkflow, steps
<1>3. CASE steps # << >> /\ HasOutline(steps)
  BY <1>1, <1>3 DEF NormalizeWorkflow, NormalForm, steps
<1>4. CASE steps # << >> /\ ~HasOutline(steps)
  <2> DEFINE new == Append(steps, OutlineStep)
             last == Len(steps) + 1
  <2>1. new \in Seq(Steps) /\ last \in DOMAIN new /\ new[last] = OutlineStep
    BY <1>1, StepTypes
  <2>2. OutlineStep.kind = "outline" /\ OutlineStep.enabled
    BY DEF OutlineStep, Step
  <2>3. NormalizeWorkflow(workflow) = new
    BY <1>4 DEF NormalizeWorkflow, steps
  <2> HIDE DEF new, last
  <2> QED BY <2>1, <2>2, <2>3 DEF NormalForm, HasOutline
<1> QED BY <1>2, <1>3, <1>4

(* A workflow in normal form is left as it is. *)
LEMMA NormalIsKept ==
  ASSUME NEW workflow, NormalForm(workflow)
  PROVE  NormalizeWorkflow(workflow) = workflow
<1>1. workflow \in Seq(Steps) /\ HasOutline(workflow)
  BY DEF NormalForm
<1>2. AllNamed(workflow)
  <2>1. \A i \in 1..Len(workflow) : workflow[i] \in Steps
    BY <1>1
  <2>2. \A step \in Steps : step.kind # ""
    BY DEF Steps, StepsOf, Kinds
  <2> QED BY <2>1, <2>2 DEF AllNamed
<1>3. KeptSteps(workflow) = workflow
  BY <1>1, <1>2, KeptAll
<1>4. workflow # << >>
  BY <1>1 DEF HasOutline
<1> QED BY <1>1, <1>3, <1>4 DEF NormalizeWorkflow

(* workflow.go, NormalizeWorkflow, for every workflow: normalising again   *)
(* changes nothing, so that the handler that saves a workflow, the parser  *)
(* that reads it and the runner that executes it, each of which normalises *)
(* it, agree on its steps.                                                 *)
THEOREM NormalizeIsIdempotent ==
  ASSUME NEW workflow \in Seq(SentSteps)
  PROVE  NormalizeWorkflow(NormalizeWorkflow(workflow)) = NormalizeWorkflow(workflow)
BY NormalizeIsNormal, NormalIsKept

LEMMA NothingIn == \A k : k \notin 1..Len(<< >>)
OBVIOUS

(* workflow.go, NormalizeWorkflow: of a workflow in which some step has a  *)
(* kind exactly the steps of a kind are kept, in their order, whatever     *)
(* provider they name, and one outline step is put behind them if none of  *)
(* them is an enabled outline step.                                        *)
THEOREM NormalizeKeepsSteps ==
  ASSUME NEW workflow \in Seq(SentSteps),
         NEW j \in 1..Len(workflow), workflow[j].kind # ""
  PROVE  \E kept \in Seq(Steps) :
           /\ \E pos : Selects(pos, kept, workflow, Len(workflow))
           /\ NormalizeWorkflow(workflow) =
                IF HasOutline(kept) THEN kept ELSE Append(kept, OutlineStep)
<1> DEFINE kept == KeptSteps(workflow)
<1>1. kept \in Seq(Steps) /\ \E pos : Selects(pos, kept, workflow, Len(workflow))
  BY KeptIsFiltered, StepTypes DEF Filtered
<1> HIDE DEF kept
<1>2. PICK pos : Selects(pos, kept, workflow, Len(workflow))
  BY <1>1
<1>3. PICK k \in 1..Len(kept) : pos[k] = j
  BY <1>2, Zenon DEF Selects
<1>4. kept # << >>
  BY <1>3, NothingIn, Zenon
<1>5. NormalizeWorkflow(workflow) = IF HasOutline(kept) THEN kept ELSE Append(kept, OutlineStep)
  BY <1>4 DEF NormalizeWorkflow, kept
<1> QED BY <1>1, <1>5

-----------------------------------------------------------------------------
(* What is stored and what is executed.  A stored workflow is the empty    *)
(* column or in normal form, and a run has behind it no step that ends it  *)
(* for certain.                                                            *)

Stored(workflow) == workflow = << >> \/ NormalForm(workflow)

SettingsSafe == settings \in Settings /\ Stored(settings.workflow)

RequestSafe(q) == q = NoRequest \/ (q \in Request /\ Stored(q.new.workflow))

Certain(step) == step.kind = "outline" /\ step.enabled /\ step.condition = "always"

RunSafe(x) ==
  /\ x \in RunState
  /\ x.pc # "idle" /\ x.result # "unread" => NormalForm(x.workflow)
  /\ x.pc # "ended" => x.result = "none"
  /\ \A i \in DOMAIN x.workflow : i < x.index => ~Certain(x.workflow[i])
  /\ x.result = "failed" => x.index \in DOMAIN x.workflow /\ x.workflow[x.index].kind = "outline"
  /\ x.result = "noOutline" => x.index \notin DOMAIN x.workflow

RestSafe == /\ sql \in BOOLEAN /\ excused \in BOOLEAN /\ requests \in 0..MaxRequests
            /\ providers \in [Providers -> {"absent", "enabled", "disabled", "deleted"}]

RequestsSafe == req = [a \in Admins |-> req[a]] /\ \A a \in Admins : RequestSafe(req[a])
RunsSafe     == run = [r \in Runs |-> run[r]] /\ \A r \in Runs : RunSafe(run[r])

Safe == RestSafe /\ SettingsSafe /\ RequestsSafe /\ RunsSafe

LEMMA NewSafe == NewSettings \in Settings /\ NewRun \in RunState
<1>1. << >> \in Seq(Steps)
  OBVIOUS
<1>2. NewSettings \in Settings
  BY <1>1 DEF NewSettings, Settings
<1>3. NewRun \in RunState
  BY <1>1 DEF NewRun, RunState, Sources
<1> QED BY <1>2, <1>3

LEMMA InitSafe == Init => Safe
<1> SUFFICES ASSUME Init PROVE Safe
  OBVIOUS
<1>1. RestSafe
  <2>1. 0 \in 0..MaxRequests
    BY AgentWorkflowAssumption
  <2>2. providers \in [Providers -> {"absent", "enabled", "disabled", "deleted"}]
    BY DEF Init
  <2> QED BY <2>1, <2>2 DEF Init, RestSafe
<1>2. SettingsSafe
  BY NewSafe DEF Init, SettingsSafe, Stored, NewSettings
<1>3. RequestsSafe
  BY DEF Init, RequestsSafe, RequestSafe
<1>4. RunSafe(NewRun)
  <2>1. /\ NewRun.pc = "idle" /\ NewRun.result = "none" /\ NewRun.workflow = << >>
        /\ NewRun.index = 1
    BY DEF NewRun
  <2>2. DOMAIN NewRun.workflow = {}
    BY <2>1
  <2> QED BY <2>1, <2>2, NewSafe DEF RunSafe
<1>5. RunsSafe
  BY <1>4 DEF Init, RunsSafe
<1> QED BY <1>1, <1>2, <1>3, <1>5 DEF Safe

(* A run goes to safe locals. *)
LEMMA RunGoes ==
  ASSUME Safe, NEW r \in Runs, NEW x, RunSafe(x), run' = [run EXCEPT ![r] = x],
         UNCHANGED <<sql, settings, providers, req, requests, excused>>
  PROVE  Safe'
<1>1. RestSafe' /\ SettingsSafe' /\ RequestsSafe'
  BY DEF Safe, RestSafe, SettingsSafe, RequestsSafe, RequestSafe, Stored, NormalForm, HasOutline
<1>2. run' = [q \in Runs |-> IF q = r THEN x ELSE run[q]]
  BY DEF Safe, RunsSafe
<1>3. \A q \in Runs : run'[q] = IF q = r THEN x ELSE run[q]
  BY <1>2
<1>4. \A q \in Runs : RunSafe(run[q])
  BY DEF Safe, RunsSafe
<1>5. \A q \in Runs : RunSafe(run'[q])
  BY <1>3, <1>4
<1>6. run' = [q \in Runs |-> run'[q]]
  BY <1>2
<1>7. RunsSafe'
  BY <1>5, <1>6 DEF RunsSafe, RunSafe, NormalForm, HasOutline, Certain
<1> QED BY <1>1, <1>7 DEF Safe

LEMMA StoredNormalizes ==
  ASSUME NEW workflow, Stored(workflow)
  PROVE  /\ NormalizeWorkflow(ParseWorkflowJSON(workflow)) =
              IF workflow = << >> THEN DefaultWorkflow ELSE workflow
         /\ NormalForm(NormalizeWorkflow(ParseWorkflowJSON(workflow)))
<1>1. CASE workflow = << >>
  <2>1. ParseWorkflowJSON(workflow) = DefaultWorkflow
    BY <1>1 DEF ParseWorkflowJSON
  <2> QED BY <1>1, <2>1, DefaultIsNormal, NormalIsKept
<1>2. CASE workflow # << >>
  <2>1. NormalForm(workflow)
    BY <1>2 DEF Stored
  <2>2. ParseWorkflowJSON(workflow) = workflow
    BY <1>2, <2>1, NormalIsKept DEF ParseWorkflowJSON
  <2> QED BY <1>2, <2>1, <2>2, NormalIsKept
<1> QED BY <1>1, <1>2

LEMMA StartSafe ==
  ASSUME Safe, NEW r \in Runs, StartRun(r)
  PROVE  Safe'
<1> DEFINE workflow == NormalizeWorkflow(ParseWorkflowJSON(settings.workflow))
<1>1. PICK files \in BOOLEAN, search \in BOOLEAN, notes \in SUBSET {"notes"} :
        run' = [run EXCEPT ![r] =
          [NewRun EXCEPT !.pc = "step", !.files = files, !.search = search, !.notes = notes,
             !.provider = settings.provider, !.workflow = workflow]]
  BY DEF StartRun
<1> DEFINE x == [NewRun EXCEPT !.pc = "step", !.files = files, !.search = search, !.notes = notes,
                               !.provider = settings.provider, !.workflow = workflow]
<1>2. NormalForm(workflow) /\ workflow \in Seq(Steps)
  BY StoredNormalizes DEF Safe, SettingsSafe, NormalForm
<1>3. settings.provider \in Providers \cup {None}
  BY DEF Safe, SettingsSafe, Settings
<1>4. run' = [run EXCEPT ![r] = x]
  BY <1>1
<1> HIDE DEF workflow
<1>5. /\ x.pc = "step" /\ x.workflow = workflow /\ x.index = 1 /\ x.result = "none"
      /\ x \in RunState
  <2> DEFINE y == [NewRun EXCEPT !.files = files, !.search = search, !.notes = notes]
             z == [y EXCEPT !.pc = "step", !.provider = settings.provider, !.workflow = workflow]
  <2>1. y \in RunState /\ y.index = 1 /\ y.result = "none"
    BY NewSafe DEF RunState, NewRun
  <2>2. x = z
    BY DEF NewRun
  <2> HIDE DEF y, x
  <2> QED BY <1>2, <1>3, <2>1, <2>2 DEF RunState
<1> HIDE DEF x
<1>6. \A i \in DOMAIN x.workflow : ~(i < x.index)
  BY <1>2, <1>5
<1>7. RunSafe(x)
  BY <1>2, <1>5, <1>6 DEF RunSafe
<1> QED BY <1>4, <1>7, RunGoes DEF StartRun

(* A step that is passed: it was not the certain end. *)
LEMMA WentSafe ==
  ASSUME Safe, NEW r \in Runs, AtStep(r), ~Certain(Current(r)), NEW x, Went(r, x),
         x \in RunState, x.pc = run[r].pc, x.index = run[r].index,
         x.workflow = run[r].workflow, x.result = run[r].result
  PROVE  Safe'
<1> DEFINE y == [x EXCEPT !.index = @ + 1]
<1>1. RunSafe(run[r]) /\ run' = [run EXCEPT ![r] = y]
  BY DEF Safe, RunsSafe, Went
<1>2. x.index \in Nat /\ x.index + 1 \in Nat \ {0}
  BY DEF RunState
<1>3. /\ y \in RunState /\ y.index = run[r].index + 1 /\ y.workflow = run[r].workflow
      /\ y.pc = run[r].pc /\ y.result = run[r].result
  BY <1>2 DEF RunState
<1> HIDE DEF y
<1>4. run[r].pc = "step" /\ run[r].result = "none" /\ NormalForm(run[r].workflow)
  BY <1>1 DEF AtStep, RunSafe
<1>5. ASSUME NEW i \in DOMAIN y.workflow, i < y.index PROVE ~Certain(y.workflow[i])
  <2>1. i \in Nat /\ run[r].index \in Nat
    BY <1>1, <1>3, <1>4 DEF NormalForm, RunSafe, RunState
  <2>2. i < run[r].index \/ i = run[r].index
    BY <1>3, <1>5, <2>1
  <2> QED BY <1>1, <1>3, <1>5, <2>2 DEF RunSafe, Current, Workflow
<1>6. RunSafe(y)
  BY <1>3, <1>4, <1>5 DEF RunSafe
<1> QED BY <1>1, <1>6, RunGoes DEF Went

LEMMA EndsSafe ==
  ASSUME Safe, NEW r \in Runs, NEW result \in {"unread", "outline", "failed", "noOutline"},
         NEW context \in SUBSET Sources, Ends(r, result, context),
         run[r].pc = "step" \/ result = "unread",
         result = "failed" => AtStep(r) /\ Current(r).kind = "outline",
         result = "noOutline" => run[r].index \notin DOMAIN Workflow(r)
  PROVE  Safe'
<1> DEFINE x == [run[r] EXCEPT !.pc = "ended", !.result = result, !.context = context]
<1>1. RunSafe(run[r]) /\ run' = [run EXCEPT ![r] = x]
  BY DEF Safe, RunsSafe, Ends
<1>2. run[r] \in RunState
  BY <1>1 DEF RunSafe
<1>3. /\ x \in RunState /\ x.index = run[r].index /\ x.workflow = run[r].workflow
      /\ x.pc = "ended" /\ x.result = result
  BY <1>2 DEF RunState
<1> HIDE DEF x
<1>4. RunSafe(x)
  BY <1>1, <1>3 DEF RunSafe, AtStep, Current, Workflow
<1> QED BY <1>1, <1>4, RunGoes DEF Ends

(* A step that is certain is executed, whatever the input. *)
LEMMA CertainExecutes ==
  ASSUME NEW r, AtStep(r), Certain(Current(r))
  PROVE  Executes(r)
BY DEF Certain, Executes, matchCondition

LEMMA RunStepSafe ==
  ASSUME Safe, NEW r \in Runs, RunStep(r)
  PROVE  Safe'
<1>1. RunSafe(run[r]) /\ run[r] \in RunState /\ run[r].pc = "step"
  BY DEF Safe, RunsSafe, RunSafe, RunStep, Skip, Unresolved, CallFails, runVision, runSearch,
         runSummarize, runOutline, NoStepLeft, Executes, AtStep
<1>2. CASE Skip(r)
  <2>1. AtStep(r) /\ Went(r, run[r])
    BY <1>2 DEF Skip
  <2>2. ~Certain(Current(r))
    BY <1>2, CertainExecutes DEF Skip, Certain
  <2> QED BY <1>1, <2>1, <2>2, WentSafe
<1>3. CASE Unresolved(r)
  <2>1. CASE Current(r).kind = "outline"
    <3>1. Ends(r, "failed", {}) /\ AtStep(r)
      BY <1>3, <2>1 DEF Unresolved, Executes
    <3>2. {} \in SUBSET Sources
      OBVIOUS
    <3> QED BY <1>1, <2>1, <3>1, <3>2, EndsSafe
  <2>2. CASE Current(r).kind # "outline"
    <3>1. Went(r, run[r]) /\ AtStep(r) /\ ~Certain(Current(r))
      BY <1>3, <2>2 DEF Unresolved, Executes, Certain
    <3> QED BY <1>1, <3>1, WentSafe
  <2> QED BY <2>1, <2>2
<1>4. CASE CallFails(r)
  <2>1. Went(r, run[r]) /\ AtStep(r) /\ ~Certain(Current(r))
    BY <1>4 DEF CallFails, Executes, Certain
  <2> QED BY <1>1, <2>1, WentSafe
<1>5. CASE runVision(r)
  <2>1. PICK asks \in BOOLEAN :
          Went(r, [run[r] EXCEPT !.vision = IF run[r].files THEN {"files"} ELSE {}, !.asks = asks])
    BY <1>5 DEF runVision
  <2> DEFINE x == [run[r] EXCEPT !.vision = IF run[r].files THEN {"files"} ELSE {}, !.asks = asks]
  <2>2. /\ x \in RunState /\ x.index = run[r].index /\ x.workflow = run[r].workflow
        /\ x.result = run[r].result /\ x.pc = run[r].pc
    BY <1>1 DEF RunState
  <2>3. Went(r, x)
    BY <2>1
  <2> HIDE DEF x
  <2>4. AtStep(r) /\ ~Certain(Current(r))
    BY <1>5 DEF runVision, Executes, Certain
  <2> QED BY <2>2, <2>3, <2>4, WentSafe
<1>6. CASE runSearch(r)
  <2>1. PICK text \in SUBSET {"search"} : Went(r, [run[r] EXCEPT !.found = text])
    BY <1>6 DEF runSearch
  <2> DEFINE x == [run[r] EXCEPT !.found = text]
  <2>2. /\ x \in RunState /\ x.index = run[r].index /\ x.workflow = run[r].workflow
        /\ x.result = run[r].result /\ x.pc = run[r].pc
    BY <1>1 DEF RunState
  <2>3. Went(r, x)
    BY <2>1
  <2> HIDE DEF x
  <2>4. AtStep(r) /\ ~Certain(Current(r))
    BY <1>6 DEF runSearch, Executes, Certain
  <2> QED BY <2>2, <2>3, <2>4, WentSafe
<1>7. CASE runSummarize(r)
  <2>1. PICK text \in {{}, run[r].vision \cup run[r].found \cup run[r].notes} :
          Went(r, [run[r] EXCEPT !.summary = text])
    BY <1>7 DEF runSummarize
  <2> DEFINE x == [run[r] EXCEPT !.summary = text]
  <2>2. text \in SUBSET Sources
    BY <1>1 DEF RunState, Sources
  <2>3. /\ x \in RunState /\ x.index = run[r].index /\ x.workflow = run[r].workflow
        /\ x.result = run[r].result /\ x.pc = run[r].pc
    BY <1>1, <2>2 DEF RunState
  <2>4. Went(r, x)
    BY <2>1
  <2> HIDE DEF x
  <2>5. AtStep(r) /\ ~Certain(Current(r))
    BY <1>7 DEF runSummarize, Executes, Certain
  <2> QED BY <2>3, <2>4, <2>5, WentSafe
<1>8. CASE runOutline(r)
  <2>1. PICK result \in {"outline", "failed"} : Ends(r, result, Context(r))
    BY <1>8 DEF runOutline
  <2>2. AtStep(r) /\ Current(r).kind = "outline"
    BY <1>8 DEF runOutline, Executes
  <2>3. Context(r) \in SUBSET Sources
    BY <1>1 DEF RunState, Context, Sources
  <2> QED BY <1>1, <2>1, <2>2, <2>3, EndsSafe
<1>9. CASE NoStepLeft(r)
  <2>1. Ends(r, "noOutline", {}) /\ run[r].index \notin DOMAIN Workflow(r)
    BY <1>9 DEF NoStepLeft
  <2>2. {} \in SUBSET Sources
    OBVIOUS
  <2> QED BY <1>1, <2>1, <2>2, EndsSafe
<1> QED BY <1>2, <1>3, <1>4, <1>5, <1>6, <1>7, <1>8, <1>9 DEF RunStep

(* The requests change, and the runs do not. *)
LEMMA RequestsGo ==
  ASSUME Safe, RestSafe', SettingsSafe', req' = [a \in Admins |-> req'[a]],
         \A a \in Admins : RequestSafe(req'[a]), UNCHANGED run
  PROVE  Safe'
<1>1. RequestsSafe'
  BY DEF RequestsSafe, RequestSafe, Stored, NormalForm, HasOutline
<1>2. RunsSafe'
  BY DEF Safe, RunsSafe, RunSafe, NormalForm, HasOutline, Certain
<1> QED BY <1>1, <1>2 DEF Safe

LEMMA BeginSafe ==
  ASSUME Safe, NEW a \in Admins, NEW sets \in {"roles", "prompts", "workflow"},
         NEW new \in Settings, NEW stale \in BOOLEAN, Begin(a, sets, new, stale),
         Stored(new.workflow)
  PROVE  Safe'
<1> DEFINE q == [pc |-> "save", sets |-> sets, new |-> new, stale |-> stale]
<1>1. req' = [req EXCEPT ![a] = q] /\ UNCHANGED <<settings, run>>
  BY DEF Begin
<1>2. RequestSafe(q)
  BY DEF RequestSafe, Request
<1> HIDE DEF q
<1>3. req' = [b \in Admins |-> req'[b]] /\ \A b \in Admins : RequestSafe(req'[b])
  BY <1>1, <1>2 DEF Safe, RequestsSafe
<1>4. requests + 1 \in 0..MaxRequests
  BY AgentWorkflowAssumption DEF Begin, Safe, RestSafe
<1>5. RestSafe'
  BY <1>4 DEF Begin, Safe, RestSafe
<1>6. SettingsSafe'
  BY <1>1 DEF Safe, SettingsSafe, Stored, NormalForm, HasOutline
<1> QED BY <1>1, <1>3, <1>5, <1>6, RequestsGo

LEMMA AdministersSafe ==
  ASSUME Safe, NEW a \in Admins,
         \/ handleAdminPrompts(a) \/ handleAdminPromptsReset(a)
         \/ handleAdminAgentWorkflow(a) \/ handleAdminAgentWorkflowReset(a)
  PROVE  Safe'
<1>0. settings \in Settings /\ Stored(settings.workflow) /\ NewSettings.workflow = << >>
  BY DEF Safe, SettingsSafe, NewSettings
<1>1. CASE handleAdminPrompts(a)
  <2>1. PICK p \in Providers, prev \in {settings, NewSettings} :
          Begin(a, "roles", [prompts |-> p, provider |-> p, workflow |-> prev.workflow],
                prev.workflow # settings.workflow)
    BY <1>1 DEF handleAdminPrompts
  <2> DEFINE new   == [prompts |-> p, provider |-> p, workflow |-> prev.workflow]
             stale == prev.workflow # settings.workflow
  <2>2. prev \in Settings /\ Stored(prev.workflow)
    BY <1>0, NewSafe DEF Stored
  <2>3. new \in Settings /\ Stored(new.workflow) /\ stale \in BOOLEAN
    BY <2>2 DEF Settings
  <2>4. Begin(a, "roles", new, stale)
    BY <2>1
  <2> HIDE DEF new, stale
  <2> QED BY <2>3, <2>4, BeginSafe
<1>2. CASE handleAdminPromptsReset(a)
  <2> DEFINE new == [settings EXCEPT !.prompts = None]
  <2>1. new \in Settings /\ new.workflow = settings.workflow
    BY <1>0 DEF Settings
  <2>2. Begin(a, "prompts", new, FALSE)
    BY <1>2 DEF handleAdminPromptsReset
  <2> HIDE DEF new
  <2> QED BY <1>0, <2>1, <2>2, BeginSafe
<1>3. ASSUME NEW w, NormalForm(w), Begin(a, "workflow", [settings EXCEPT !.workflow = w], FALSE)
      PROVE  Safe'
  <2> DEFINE new == [settings EXCEPT !.workflow = w]
  <2>1. w \in Seq(Steps)
    BY <1>3 DEF NormalForm
  <2>2. new \in Settings /\ new.workflow = w
    BY <1>0, <2>1 DEF Settings
  <2>3. Begin(a, "workflow", new, FALSE)
    BY <1>3
  <2> HIDE DEF new
  <2> QED BY <1>3, <2>2, <2>3, BeginSafe DEF Stored
<1>4. CASE handleAdminAgentWorkflow(a)
  <2>1. PICK workflow \in Workflows :
          Begin(a, "workflow", [settings EXCEPT !.workflow = NormalizeWorkflow(workflow)], FALSE)
    BY <1>4 DEF handleAdminAgentWorkflow
  <2>2. workflow \in Seq(SentSteps)
    BY WorkflowsAssumption
  <2>3. NormalForm(NormalizeWorkflow(workflow))
    BY <2>2, NormalizeIsNormal
  <2> QED BY <1>3, <2>1, <2>3
<1>5. CASE handleAdminAgentWorkflowReset(a)
  BY <1>3, <1>5, DefaultIsNormal DEF handleAdminAgentWorkflowReset
<1> QED BY <1>1, <1>2, <1>4, <1>5

LEMMA WroteSafe ==
  ASSUME Safe, NEW a \in Admins, req[a].pc # "idle", Wrote(a), SettingsSafe',
         UNCHANGED <<sql, providers, requests, run>>
  PROVE  Safe'
<1>1. req' = [b \in Admins |-> req'[b]]
  BY DEF Wrote
<1>2. ASSUME NEW b \in Admins PROVE RequestSafe(req'[b])
  <2>1. RequestSafe(req[b])
    BY DEF Safe, RequestsSafe
  <2>2. CASE req'[b] = NoRequest
    BY <2>2 DEF RequestSafe
  <2>3. CASE req'[b] # NoRequest
    <3> DEFINE stale == req[b].stale \/ settings'.workflow # settings.workflow
    <3>1. /\ req[b].pc # "idle"
          /\ req'[b] = [req[b] EXCEPT !.stale = stale]
      BY <2>3 DEF Wrote
    <3>2. stale \in BOOLEAN
      OBVIOUS
    <3> HIDE DEF stale
    <3>3. req[b] \in Request /\ Stored(req[b].new.workflow)
      BY <2>1, <3>1 DEF RequestSafe, NoRequest
    <3>4. req'[b] \in Request /\ req'[b].new = req[b].new
      BY <3>1, <3>2, <3>3 DEF Request
    <3> QED BY <3>3, <3>4 DEF RequestSafe
  <2> QED BY <2>2, <2>3
<1>3. excused' \in BOOLEAN
  BY DEF Wrote
<1>4. RestSafe'
  BY <1>3 DEF Safe, RestSafe
<1> QED BY <1>1, <1>2, <1>4, RequestsGo

LEMMA SaveSafe ==
  ASSUME Safe, NEW a \in Admins, SaveJSON(a) \/ SaveFirst(a) \/ SaveSecond(a) \/ SaveFails(a)
  PROVE  Safe'
<1>1. /\ req[a].pc # "idle" /\ UNCHANGED <<sql, providers, requests, run>>
      /\ settings \in Settings /\ Stored(settings.workflow)
  BY DEF SaveJSON, SaveFirst, SaveSecond, SaveFails, Safe, SettingsSafe
<1>2. req[a] \in Request /\ Stored(req[a].new.workflow) /\ req[a].new \in Settings
  <2>1. RequestSafe(req[a]) /\ req[a] # NoRequest
    BY <1>1 DEF Safe, RequestsSafe, NoRequest
  <2> QED BY <2>1 DEF RequestSafe, Request
<1>3. CASE SaveJSON(a)
  <2>1. SettingsSafe'
    BY <1>2, <1>3 DEF SaveJSON, SettingsSafe, Stored, NormalForm, HasOutline
  <2> QED BY <1>1, <1>3, <2>1, WroteSafe DEF SaveJSON
<1>4. CASE SaveSecond(a)
  <2> DEFINE new == [req[a].new EXCEPT !.prompts = settings.prompts]
  <2>1. new \in Settings /\ new.workflow = req[a].new.workflow
    BY <1>1, <1>2 DEF Settings
  <2>2. settings' = new
    BY <1>4 DEF SaveSecond
  <2> HIDE DEF new
  <2>3. SettingsSafe'
    BY <1>2, <2>1, <2>2 DEF SettingsSafe, Stored, NormalForm, HasOutline
  <2> QED BY <1>1, <1>4, <2>3, WroteSafe DEF SaveSecond
<1>5. CASE SaveFirst(a)
  <2> DEFINE new == [settings EXCEPT !.prompts = req[a].new.prompts]
             q   == [req[a] EXCEPT !.pc = "second"]
  <2>1. new \in Settings /\ new.workflow = settings.workflow
    BY <1>1, <1>2 DEF Settings
  <2>2. q \in Request /\ q.new = req[a].new
    BY <1>2 DEF Request
  <2>3. settings' = new /\ req' = [req EXCEPT ![a] = q] /\ UNCHANGED excused
    BY <1>5 DEF SaveFirst
  <2> HIDE DEF new, q
  <2>4. SettingsSafe'
    BY <1>1, <2>1, <2>3 DEF SettingsSafe, Stored, NormalForm, HasOutline
  <2>5. RequestSafe(q)
    BY <1>2, <2>2 DEF RequestSafe
  <2>6. req' = [b \in Admins |-> req'[b]] /\ \A b \in Admins : RequestSafe(req'[b])
    BY <2>3, <2>5 DEF Safe, RequestsSafe
  <2>7. RestSafe'
    BY <1>1, <2>3 DEF Safe, RestSafe
  <2> QED BY <1>1, <2>4, <2>6, <2>7, RequestsGo
<1>6. CASE SaveFails(a)
  <2>1. req' = [req EXCEPT ![a] = NoRequest] /\ UNCHANGED <<settings, excused>>
    BY <1>6 DEF SaveFails
  <2>2. SettingsSafe' /\ RestSafe'
    BY <1>1, <2>1 DEF Safe, RestSafe, SettingsSafe, Stored, NormalForm, HasOutline
  <2>3. RequestSafe(NoRequest)
    BY DEF RequestSafe
  <2>4. req' = [b \in Admins |-> req'[b]] /\ \A b \in Admins : RequestSafe(req'[b])
    BY <2>1, <2>3 DEF Safe, RequestsSafe
  <2> QED BY <1>1, <2>2, <2>4, RequestsGo
<1> QED BY <1>3, <1>4, <1>5, <1>6

LEMMA ProviderSafe ==
  ASSUME Safe, NEW p \in Providers,
         CreateLLMProvider(p) \/ UpdateLLMProvider(p) \/ DeleteLLMProvider(p)
  PROVE  Safe'
<1>1. PICK status \in {"enabled", "disabled", "deleted"} :
        providers' = [providers EXCEPT ![p] = status]
  BY DEF CreateLLMProvider, UpdateLLMProvider, DeleteLLMProvider
<1>2. UNCHANGED <<sql, settings, req, requests, run, excused>>
  BY DEF CreateLLMProvider, UpdateLLMProvider, DeleteLLMProvider
<1>3. RestSafe'
  BY <1>1, <1>2 DEF Safe, RestSafe
<1> QED BY <1>2, <1>3
     DEF Safe, SettingsSafe, RequestsSafe, RequestSafe, RunsSafe, RunSafe, Stored, NormalForm,
         HasOutline, Certain

LEMMA NextSafe == Safe /\ [Next]_vars => Safe'
<1> SUFFICES ASSUME Safe, [Next]_vars PROVE Safe'
  OBVIOUS
<1>1. ASSUME NEW a \in Admins,
             \/ handleAdminPrompts(a) \/ handleAdminPromptsReset(a)
             \/ handleAdminAgentWorkflow(a) \/ handleAdminAgentWorkflowReset(a)
      PROVE  Safe'
  BY <1>1, AdministersSafe
<1>2. ASSUME NEW a \in Admins, SaveJSON(a) \/ SaveFirst(a) \/ SaveSecond(a) \/ SaveFails(a)
      PROVE  Safe'
  BY <1>2, SaveSafe
<1>3. ASSUME NEW p \in Providers,
             CreateLLMProvider(p) \/ UpdateLLMProvider(p) \/ DeleteLLMProvider(p)
      PROVE  Safe'
  BY <1>3, ProviderSafe
<1>4. ASSUME NEW r \in Runs, StartRun(r) \/ SettingsUnread(r) PROVE Safe'
  BY <1>4, StartSafe, EndsSafe DEF SettingsUnread
<1>5. ASSUME NEW r \in Runs, RunStep(r) PROVE Safe'
  BY <1>5, RunStepSafe
<1>6. CASE UNCHANGED vars
  BY <1>6 DEF vars, Safe, RestSafe, SettingsSafe, RequestsSafe, RequestSafe, RunsSafe, RunSafe,
              Stored, NormalForm, HasOutline, Certain
<1> QED BY <1>1, <1>2, <1>3, <1>4, <1>5, <1>6 DEF Next

LEMMA SafeAlways == Spec => []Safe
BY InitSafe, NextSafe, PTL DEF Spec

(* Every state is of its type: what is stored and what is executed is a    *)
(* sequence of steps of a kind, whatever administrators send.              *)
THEOREM TypeCorrect == Spec => []TypeOK
<1>1. Safe => TypeOK
  <2> SUFFICES ASSUME Safe PROVE TypeOK
    OBVIOUS
  <2>1. req \in [Admins -> {NoRequest} \cup Request]
    BY DEF Safe, RequestsSafe, RequestSafe
  <2>2. run \in [Runs -> RunState]
    BY DEF Safe, RunsSafe, RunSafe
  <2> QED BY <2>1, <2>2 DEF Safe, RestSafe, SettingsSafe, TypeOK
<1> QED BY <1>1, SafeAlways, PTL

(* runner.go and workflow.go: only an outline step fails a run, and a run  *)
(* finds no outline only when every enabled outline step of its workflow,  *)
(* of which there is one, has a condition.                                 *)
THEOREM FailuresCorrect == Spec => []FailuresExplained
<1>1. Safe => FailuresExplained
  <2> SUFFICES ASSUME Safe, NEW r \in Runs
               PROVE  /\ run[r].result = "failed" => Current(r).kind = "outline"
                      /\ run[r].result = "noOutline" =>
                           /\ HasOutline(Workflow(r))
                           /\ \A i \in DOMAIN Workflow(r) :
                                Workflow(r)[i].kind = "outline" /\ Workflow(r)[i].enabled
                                  => Workflow(r)[i].condition # "always"
    BY DEF FailuresExplained
  <2>1. RunSafe(run[r])
    BY DEF Safe, RunsSafe
  <2>2. run[r].result = "failed" => Current(r).kind = "outline"
    BY <2>1 DEF RunSafe, Current, Workflow
  <2>3. ASSUME run[r].result = "noOutline"
        PROVE  /\ HasOutline(Workflow(r))
               /\ \A i \in DOMAIN Workflow(r) : ~Certain(Workflow(r)[i])
    <3>1. /\ NormalForm(run[r].workflow) /\ run[r].index \notin DOMAIN run[r].workflow
          /\ run[r].index \in Nat \ {0}
      BY <2>1, <2>3 DEF RunSafe, RunState
    <3>2. \A i \in DOMAIN run[r].workflow : i < run[r].index
      BY <3>1 DEF NormalForm
    <3> QED BY <2>1, <3>1, <3>2 DEF RunSafe, Workflow, NormalForm
  <2> QED BY <2>2, <2>3 DEF Certain
<1> QED BY <1>1, SafeAlways, PTL

(* runner.go:28: parsing and normalising a stored workflow changes nothing *)
(* about it: a run executes the steps that are stored, or the default ones *)
(* when there are none.                                                    *)
THEOREM RunsWhatIsStored ==
  Spec => [][\A r \in Runs :
               StartRun(r) => run'[r].workflow = IF settings.workflow = << >> THEN DefaultWorkflow
                                                 ELSE settings.workflow]_vars
<1> DEFINE Executed(r) ==
             run'[r].workflow = IF settings.workflow = << >> THEN DefaultWorkflow
                                ELSE settings.workflow
<1>1. ASSUME Safe, NEW r \in Runs, StartRun(r) PROVE Executed(r)
  <2> DEFINE workflow == NormalizeWorkflow(ParseWorkflowJSON(settings.workflow))
  <2>1. run'[r].workflow = workflow
    BY <1>1 DEF StartRun, Safe, RunsSafe, NewRun
  <2>2. workflow = IF settings.workflow = << >> THEN DefaultWorkflow ELSE settings.workflow
    BY <1>1, StoredNormalizes DEF Safe, SettingsSafe
  <2> QED BY <2>1, <2>2
<1>2. Safe => \A r \in Runs : StartRun(r) => Executed(r)
  BY <1>1
<1> QED BY <1>2, SafeAlways, PTL

=============================================================================
