---------------------------- MODULE KubeSourceMC ----------------------------
(***************************************************************************)
(* KubeSource with the constants given their values for TLC.               *)
(***************************************************************************)
EXTENDS KubeSource

CONSTANTS web, app, sidecar

\* One pod of two containers, all of them streamed.
MCContainers == [p \in Pods |-> <<app, sidecar>>]
All == [kind |-> "all", names |-> <<>>]

\* Before and since stdout and stderr can be asked for one by one.
MCVersions == {[major |-> 1, minor |-> 31], [major |-> 1, minor |-> 32]}

=============================================================================
