------------------------- MODULE MCRoutedExecution -------------------------
(***************************************************************************)
(* Two providers: 1 is preferred and its adapter takes sessions again, 2   *)
(* is the fallback.  One retry and one replan.                              *)
(***************************************************************************)
EXTENDS RoutedExecution

ProvidersDef == {1, 2}

DescriptorsDef ==
    [p \in ProvidersDef |->
        [capabilities |-> {"GITHUB_SOURCE", "AUTO_CREATE_PR", "HOSTED_EXECUTION"},
         priority |-> 10 * p, enabled |-> TRUE]]

RequestDef ==
    [required |-> {"GITHUB_SOURCE"}, allowed |-> ProvidersDef, preferred |-> <<1>>]

UpsertsDef ==
    {[availability |-> "QUOTA_PAUSED", resume |-> 1],
     [availability |-> "UNAUTHORIZED", resume |-> None]}

=============================================================================
