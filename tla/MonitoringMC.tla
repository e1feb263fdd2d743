---------------------------- MODULE MonitoringMC ----------------------------
(***************************************************************************)
(* Monitoring with the constants given their values for TLC.               *)
(***************************************************************************)
EXTENDS Monitoring

CONSTANTS alive, ready   \* the checks

Check(threshold) == [startup |-> "enabled", threshold |-> threshold, probes |-> TRUE]
Disabled == [startup |-> "disabled", threshold |-> 1, probes |-> TRUE]
NoProbe == [startup |-> "enabled", threshold |-> 1, probes |-> FALSE]

Alert(name, onCheck, attempts) ==
  [name |-> name, onCheck |-> onCheck, attempts |-> attempts, url |-> TRUE]

\* An alert whose url resolves to nothing.
Unsent(name, onCheck) == [Alert(name, onCheck, 1) EXCEPT !.url = FALSE]

\* The same check with two thresholds beside another that is disabled or absent,
\* and the other alone, which probes nothing.  Every plan has ops hear of `alive'.
Careful == [checks |-> alive :> Check(2) @@ ready :> Disabled,
            alerts |-> <<Alert("ops", {alive, ready}, 1)>>, depth |-> 1]
Eager == [checks |-> alive :> Check(1),
          alerts |-> <<Unsent("dev", {alive}), Alert("ops", {alive}, 0)>>, depth |-> 1]
Other == [checks |-> ready :> NoProbe, alerts |-> <<Alert("ops", {alive}, 2)>>, depth |-> 2]

SafetyPlans == {Careful, Eager, Other}

\* Two alerts share a queue that a replan replaces; one has no url.
Shared(depth) ==
  [checks |-> alive :> Check(1),
   alerts |-> <<Alert("ops", {alive}, 1), Unsent("dev", {alive})>>, depth |-> depth]

LivePlans == {Shared(2), Shared(1)}

InOrder == <<alive, ready>>
=============================================================================
