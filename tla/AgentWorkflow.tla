----------------------------- MODULE AgentWorkflow -----------------------------
(***************************************************************************)
(* The outline agent and the settings it reads.  Administrators save the   *)
(* roles and the workflow (httpapi/admin_prompts.go, admin_agent.go), each *)
(* by reading all settings, changing some and writing all back, and edit   *)
(* the providers (admin_providers.go); a run of the agent                  *)
(* (service/agent/runner.go) reads the settings once, normalises the       *)
(* workflow (agent/workflow.go) and goes through its steps, each with a    *)
(* provider it looks up at that moment.                                    *)
(*                                                                         *)
(* Of the settings the prompts stand for what the first statement of an    *)
(* SQL save writes; provider and workflow are written by the second.  A    *)
(* text is what it is about: a set of sources, empty for an empty text.    *)
(***************************************************************************)
EXTENDS Naturals, Sequences

CONSTANTS
  Admins,      \* requests of administrators, each handled more than once
  Runs,        \* runs of the agent, one outline job each
  Providers,   \* ids of LLM providers
  None,        \* the empty id
  Workflows,   \* what administrators send: sequences of steps
  MaxRequests  \* bound: requests of administrators

ASSUME AgentWorkflowAssumption == None \notin Providers /\ MaxRequests \in Nat

-----------------------------------------------------------------------------
(* agent/workflow.go                                                       *)

Kinds == {"vision", "search", "summarize", "outline", "other"}

StepsOf(kinds) ==
  [kind : kinds, enabled : BOOLEAN, condition : {"always", "has_files", "needs_search"},
   provider : Providers \cup {None}]

Steps     == StepsOf(Kinds)
SentSteps == StepsOf(Kinds \cup {""})

ASSUME WorkflowsAssumption == Workflows \subseteq Seq(SentSteps)

Step(kind, enabled, condition, provider) ==
  [kind |-> kind, enabled |-> enabled, condition |-> condition, provider |-> provider]

OutlineStep == Step("outline", TRUE, "always", None)

DefaultWorkflow ==
  << Step("vision", TRUE, "has_files", None), Step("search", TRUE, "needs_search", None),
     Step("summarize", TRUE, "always", None), OutlineStep >>

HasOutline(steps) ==
  \E i \in DOMAIN steps : steps[i].kind = "outline" /\ steps[i].enabled

(* The loop over the steps: one whose kind is empty is left out. *)
Keep(steps, step) == IF step.kind = "" THEN steps ELSE Append(steps, step)

KeptSteps(workflow) ==
  LET out[i \in 0..Len(workflow)] ==
        IF i = 0 THEN << >> ELSE Keep(out[i - 1], workflow[i])
  IN  out[Len(workflow)]

(* Mutant: a disabled outline step counts. *)
NormalizeAnyOutline(workflow) ==
  LET steps == KeptSteps(workflow)
  IN  IF steps = << >> THEN DefaultWorkflow
      ELSE IF \E i \in DOMAIN steps : steps[i].kind = "outline" THEN steps
      ELSE Append(steps, OutlineStep)

NormalizeWorkflow(workflow) ==
  LET steps == KeptSteps(workflow)
  IN  IF steps = << >> THEN DefaultWorkflow
      ELSE IF HasOutline(steps) THEN steps
      ELSE Append(steps, OutlineStep)

(* The empty sequence stands for the empty column too. *)
ParseWorkflowJSON(workflow) ==
  IF workflow = << >> THEN DefaultWorkflow ELSE NormalizeWorkflow(workflow)

-----------------------------------------------------------------------------
VARIABLES
  sql,         \* is the store an SQL database, whose save is two statements?
  settings,    \* the row of prompt settings
  providers,
  req,         \* each administrator's request under way
  requests,    \* how many there have been
  run,         \* each run's locals
  excused      \* history: a save wrote a workflow that it had not read or that was old

vars == <<sql, settings, providers, req, requests, run, excused>>

Settings  == [prompts : Providers \cup {None}, provider : Providers \cup {None}, workflow : Seq(Steps)]
Sources   == {"notes", "files", "search"}
NoRequest == [pc |-> "idle"]

Request ==
  [pc : {"save", "second"}, sets : {"roles", "prompts", "workflow"}, new : Settings, stale : BOOLEAN]

RunState ==
  [pc : {"idle", "step", "ended"}, provider : Providers \cup {None}, workflow : Seq(Steps),
   index : Nat \ {0}, files : BOOLEAN, search : BOOLEAN, notes : SUBSET {"notes"},
   asks : BOOLEAN, vision : SUBSET {"files"}, found : SUBSET {"search"},
   summary : SUBSET Sources, context : SUBSET Sources,
   result : {"none", "unread", "outline", "failed", "noOutline"}]

TypeOK ==
  /\ sql \in BOOLEAN
  /\ settings \in Settings
  /\ providers \in [Providers -> {"absent", "enabled", "disabled", "deleted"}]
  /\ req \in [Admins -> {NoRequest} \cup Request]
  /\ requests \in 0..MaxRequests
  /\ run \in [Runs -> RunState]
  /\ excused \in BOOLEAN

NewSettings == [prompts |-> None, provider |-> None, workflow |-> << >>]

NewRun == [pc |-> "idle", provider |-> None, workflow |-> << >>,
           index |-> 1, files |-> FALSE, search |-> FALSE,
           notes |-> {}, asks |-> FALSE, vision |-> {}, found |-> {}, summary |-> {},
           context |-> {}, result |-> "none"]

Init ==
  /\ sql \in BOOLEAN
  /\ settings = NewSettings
  /\ providers \in [Providers -> {"absent", "enabled"}]
  /\ req = [a \in Admins |-> NoRequest]
  /\ requests = 0
  /\ run = [r \in Runs |-> NewRun]
  /\ excused = FALSE

-----------------------------------------------------------------------------
(* Administrators.                                                         *)

Begin(a, sets, new, stale) ==
  /\ req[a].pc = "idle" /\ requests < MaxRequests
  /\ requests' = requests + 1
  /\ req' = [req EXCEPT ![a] = [pc |-> "save", sets |-> sets, new |-> new, stale |-> stale]]
  /\ UNCHANGED <<sql, settings, providers, run, excused>>

(* Mutant: the roles are saved without the workflow. *)
PutRolesAlone(a) ==
  \E p \in Providers :
    Begin(a, "roles", [prompts |-> p, provider |-> p, workflow |-> << >>], FALSE)

(* The error of the read that preserves the workflow is dropped; validated *)
(* is only that a provider is named, not that it exists.                   *)
handleAdminPrompts(a) ==
  \E p \in Providers, prev \in {settings, NewSettings} :
    Begin(a, "roles", [prompts |-> p, provider |-> p, workflow |-> prev.workflow],
          prev.workflow # settings.workflow)

handleAdminPromptsReset(a) ==
  Begin(a, "prompts", [settings EXCEPT !.prompts = None], FALSE)

handleAdminAgentWorkflow(a) ==
  \E workflow \in Workflows :
    Begin(a, "workflow", [settings EXCEPT !.workflow = NormalizeWorkflow(workflow)], FALSE)

handleAdminAgentWorkflowReset(a) ==
  Begin(a, "workflow", [settings EXCEPT !.workflow = DefaultWorkflow], FALSE)

(* What the others have read is old once a workflow is written. *)
Wrote(a) ==
  /\ req' = [b \in Admins |->
       IF b = a THEN NoRequest
       ELSE IF req[b].pc = "idle" THEN NoRequest
       ELSE [req[b] EXCEPT !.stale = @ \/ settings'.workflow # settings.workflow]]
  /\ excused' = (excused \/ (req[a].sets # "workflow" /\ req[a].stale))

SaveJSON(a) ==
  /\ ~sql /\ req[a].pc = "save"
  /\ settings' = req[a].new
  /\ Wrote(a)
  /\ UNCHANGED <<sql, providers, requests, run>>

SaveFirst(a) ==
  /\ sql /\ req[a].pc = "save"
  /\ settings' = [settings EXCEPT !.prompts = req[a].new.prompts]
  /\ req' = [req EXCEPT ![a].pc = "second"]
  /\ UNCHANGED <<sql, providers, requests, run, excused>>

SaveSecond(a) ==
  /\ sql /\ req[a].pc = "second"
  /\ settings' = [req[a].new EXCEPT !.prompts = settings.prompts]
  /\ Wrote(a)
  /\ UNCHANGED <<sql, providers, requests, run>>

(* The request ends before its statement: an error, a client that left.    *)
SaveFails(a) ==
  /\ req[a].pc # "idle"
  /\ req' = [req EXCEPT ![a] = NoRequest]
  /\ UNCHANGED <<sql, settings, providers, requests, run, excused>>

CreateLLMProvider(p) ==
  /\ providers[p] = "absent"
  /\ \E status \in {"enabled", "disabled"} : providers' = [providers EXCEPT ![p] = status]
  /\ UNCHANGED <<sql, settings, req, requests, run, excused>>

UpdateLLMProvider(p) ==
  /\ providers[p] \in {"enabled", "disabled"}
  /\ \E status \in {"enabled", "disabled"} : providers' = [providers EXCEPT ![p] = status]
  /\ UNCHANGED <<sql, settings, req, requests, run, excused>>

(* Nothing looks whether a role or a step names the provider. *)
DeleteLLMProvider(p) ==
  /\ providers[p] \in {"enabled", "disabled"}
  /\ providers' = [providers EXCEPT ![p] = "deleted"]
  /\ UNCHANGED <<sql, settings, req, requests, run, excused>>

-----------------------------------------------------------------------------
(* A run: GenerateOutline.                                                 *)

(* The outline job's input: has it files of its user, does the topic look  *)
(* like it needs a search, are there notes? *)
StartRun(r) ==
  /\ run[r].pc = "idle"
  /\ \E files \in BOOLEAN, search \in BOOLEAN, notes \in SUBSET {"notes"} :
       run' = [run EXCEPT ![r] =
         [NewRun EXCEPT !.pc = "step", !.files = files, !.search = search, !.notes = notes,
            !.provider = settings.provider,
            !.workflow = NormalizeWorkflow(ParseWorkflowJSON(settings.workflow))]]
  /\ UNCHANGED <<sql, settings, providers, req, requests, excused>>

Workflow(r) == run[r].workflow
Current(r)  == Workflow(r)[run[r].index]
AtStep(r)   == run[r].pc = "step" /\ run[r].index \in DOMAIN Workflow(r)

matchCondition(r) ==
  CASE Current(r).condition = "has_files"    -> run[r].files
    [] Current(r).condition = "needs_search" -> run[r].search \/ (run[r].vision # {} /\ run[r].asks)
    [] OTHER                                 -> TRUE

Executes(r) == AtStep(r) /\ Current(r).enabled /\ matchCondition(r)

(* resolveStepRole: the step's provider, else the architect's. *)
ProviderOf(r) ==
  IF Current(r).provider # None THEN Current(r).provider ELSE run[r].provider

Resolves(r) == ProviderOf(r) # None /\ providers[ProviderOf(r)] = "enabled"

Went(r, locals) ==
  /\ run' = [run EXCEPT ![r] = [locals EXCEPT !.index = @ + 1]]
  /\ UNCHANGED <<sql, settings, providers, req, requests, excused>>

Ends(r, result, context) ==
  /\ run' = [run EXCEPT ![r] = [@ EXCEPT !.pc = "ended", !.result = result, !.context = context]]
  /\ UNCHANGED <<sql, settings, providers, req, requests, excused>>

(* The settings cannot be read. *)
SettingsUnread(r) ==
  /\ run[r].pc = "idle"
  /\ Ends(r, "unread", {})

(* Disabled, condition not met, or a kind nobody knows. *)
Skip(r) ==
  /\ AtStep(r)
  /\ \/ ~Executes(r)
     \/ Resolves(r) /\ Current(r).kind = "other"
  /\ Went(r, run[r])

(* (To the run a look-up that fails is a CallFails or a failed outline.)   *)
Unresolved(r) ==
  /\ Executes(r) /\ ~Resolves(r)
  /\ IF Current(r).kind = "outline" THEN Ends(r, "failed", {}) ELSE Went(r, run[r])

(* The call of a step other than the outline fails: a trace, nothing else. *)
CallFails(r) ==
  /\ Executes(r) /\ Resolves(r)
  /\ Current(r).kind \in {"vision", "search", "summarize"}
  /\ Went(r, run[r])

runVision(r) ==
  /\ Executes(r) /\ Resolves(r) /\ Current(r).kind = "vision"
  /\ \E asks \in BOOLEAN :
       Went(r, [run[r] EXCEPT !.vision = IF run[r].files THEN {"files"} ELSE {},
                              !.asks = asks])

(* The model may answer with an empty text. *)
runSearch(r) ==
  /\ Executes(r) /\ Resolves(r) /\ Current(r).kind = "search"
  /\ \E text \in SUBSET {"search"} : Went(r, [run[r] EXCEPT !.found = text])

runSummarize(r) ==
  /\ Executes(r) /\ Resolves(r) /\ Current(r).kind = "summarize"
  /\ \E text \in {{}, run[r].vision \cup run[r].found \cup run[r].notes} :
       Went(r, [run[r] EXCEPT !.summary = text])

(* Mutant: the outline only gets the summary. *)
ContextSummary(r) == IF run[r].summary # {} THEN run[r].summary ELSE run[r].notes

Context(r) ==
  IF run[r].summary # {} THEN run[r].summary
  ELSE IF run[r].vision \cup run[r].found # {} THEN run[r].vision \cup run[r].found
  ELSE run[r].notes

runOutline(r) ==
  /\ Executes(r) /\ Resolves(r) /\ Current(r).kind = "outline"
  /\ \E result \in {"outline", "failed"} : Ends(r, result, Context(r))

NoStepLeft(r) ==
  /\ run[r].pc = "step" /\ run[r].index \notin DOMAIN Workflow(r)
  /\ Ends(r, "noOutline", {})

RunStep(r) ==
  \/ Skip(r) \/ Unresolved(r) \/ CallFails(r) \/ runVision(r) \/ runSearch(r)
  \/ runSummarize(r) \/ runOutline(r) \/ NoStepLeft(r)

Next ==
  \/ \E a \in Admins :
       \/ handleAdminPrompts(a) \/ handleAdminPromptsReset(a)
       \/ handleAdminAgentWorkflow(a) \/ handleAdminAgentWorkflowReset(a)
       \/ SaveJSON(a) \/ SaveFirst(a) \/ SaveSecond(a) \/ SaveFails(a)
  \/ \E p \in Providers : CreateLLMProvider(p) \/ UpdateLLMProvider(p) \/ DeleteLLMProvider(p)
  \/ \E r \in Runs : StartRun(r) \/ SettingsUnread(r) \/ RunStep(r)

Spec == Init /\ [][Next]_vars

-----------------------------------------------------------------------------
(* Properties.                                                             *)

(* Why a run fails.  runner.go:99: a step other than the outline never     *)
(* stops it, whatever becomes of its provider meanwhile.  workflow.go:125: *)
(* there always is an enabled outline step, so that a run finds none only  *)
(* when each of them has a condition, which was not met.                   *)
FailuresExplained ==
  \A r \in Runs :
    /\ run[r].result = "failed" => Current(r).kind = "outline"
    /\ run[r].result = "noOutline" =>
         /\ HasOutline(Workflow(r))
         /\ \A i \in DOMAIN Workflow(r) :
              Workflow(r)[i].kind = "outline" /\ Workflow(r)[i].enabled
                => Workflow(r)[i].condition # "always"

(* When the workflow summarises last, what was seen in the files and found *)
(* by the search reaches the outline, also when a summary fails or is      *)
(* empty.  (A search after the summary is lost, and so are the user's      *)
(* notes when there are others and no summary.)                            *)
SummarizesLast(steps) ==
  \A i, k \in DOMAIN steps :
    steps[i].kind = "summarize" /\ steps[k].kind \in {"vision", "search"} => k < i

NotesReachOutline ==
  \A r \in Runs :
    run[r].result = "outline" /\ SummarizesLast(Workflow(r))
      => run[r].vision \cup run[r].found \subseteq run[r].context

(* admin_prompts.go:45 "Preserve workflow JSON when saving roles": as long *)
(* as no save has used a failed read or one from before another save, only *)
(* a request that sets the workflow changes it.                            *)
WorkflowPreserved ==
  [][settings'.workflow # settings.workflow /\ ~excused'
       => \E a \in Admins : req[a].pc # "idle" /\ req[a].sets = "workflow" /\ req'[a].pc = "idle"]_vars

=============================================================================
