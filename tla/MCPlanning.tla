------------------------------ MODULE MCPlanning ------------------------------
(* Values of PlanningStart's constants for TLC. *)
EXTENDS PlanningStart

MCPaths == {"lib", "test", "new", "ci"}
MCTrusted == {"lib", "test", "new", "ci"}
MCProtected == {"ci"}
MCKnown == {"lib", "test", "ci"}

Step(q, c) == [title |-> TRUE, paths |-> q, creates |-> c]
Task(k, d, q, n, h) == [key |-> k, deps |-> d, text |-> TRUE, paths |-> q, new |-> n, human |-> h]
Proposal(ts) == [shape |-> TRUE, goal |-> "goal", boundaries |-> TRUE, tasks |-> ts]

\* What a provider returns: a recipe, which is accepted (plans derived from
\* steps are those of MCStepLists); a structured proposal with a forward
\* dependency, a file that does not exist and is not declared, a human-only
\* task.
MCProposals ==
    [recipe   |-> RecipeProposal(<<{"test"}, {"new"}>>, "goal", MCKnown),
     forward  |-> Proposal(<<Task("a", <<"b">>, {"lib"}, {}, FALSE),
                             Task("b", <<>>, {"test"}, {}, FALSE)>>),
     phantom  |-> DerivedProposal(<<Step({"new"}, FALSE)>>, "goal", MCKnown, FALSE),
     human    |-> Proposal(<<Task("a", <<>>, {"lib"}, {}, TRUE)>>)]

MCSteps == {Step({"lib"}, FALSE), Step({"new", "test"}, FALSE), Step({"new"}, TRUE),
            Step({}, FALSE), Step({"ci"}, FALSE)}
MCStepLists == UNION {[1..n -> MCSteps] : n \in 0..3}
===============================================================================
