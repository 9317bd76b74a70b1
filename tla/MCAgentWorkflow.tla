-------------------------- MODULE MCAgentWorkflow --------------------------
(* AgentWorkflow on small instances: workflows with steps in the default   *)
(* order and not, with a provider of their own, disabled, with conditions, *)
(* and of unknown kinds.                                                   *)
EXTENDS AgentWorkflow, TLC

CONSTANT p1

MCWorkflows ==
  { << Step("search", TRUE, "always", p1), Step("outline", FALSE, "always", None) >>,
    << Step("vision", TRUE, "always", None), Step("outline", TRUE, "needs_search", None) >>,
    << Step("summarize", TRUE, "always", None), Step("search", TRUE, "always", None),
       Step("other", TRUE, "always", None), Step("", TRUE, "always", None) >> }

Symmetry == Permutations(Admins)

=============================================================================
