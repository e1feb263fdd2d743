---------------------------- MODULE SupervisorMC ----------------------------
(***************************************************************************)
(* Supervisor with the constants given their values for TLC.               *)
(***************************************************************************)
EXTENDS Supervisor

CONSTANTS db, web   \* two of the services

\* A crash loop makes one retry.
MCConfig(onSuccess, onFailure) ==
  [onSuccess |-> onSuccess, onFailure |-> onFailure,
   delay |-> 1, num |-> 2, den |-> 1, limit |-> 2]

OneShot == {MCConfig("ignore", "ignore")}
OneShotOrShutdown == {MCConfig("ignore", "ignore"), MCConfig("shutdown", "shutdown")}
Restarting == {MCConfig("ignore", "restart")}
FailureStops == {MCConfig("ignore", "shutdown")}

MCDefaultDelay == 1

Alone == [startup |-> "enabled", after |-> {}, requires |-> {}, before |-> {},
          onCheckFailure |-> "ignore"]

PlanOf(f) == [s \in Services |-> IF s \in DOMAIN f THEN f[s] ELSE Alone]

\* No dependency at all.
Flat == PlanOf(<<>>)

WebRequiresDb == PlanOf(web :> [Alone EXCEPT !.requires = {db}])

\* A chain: db, then the others but web, then web.
Others == Services \ {db, web}
Chain == PlanOf([s \in Others |-> [Alone EXCEPT !.requires = {db}]]
                  @@ web :> [Alone EXCEPT !.after = Others])

\* web waits for the two others, by two different declarations, and comes first
\* of the two that wait for db.
FanIn == PlanOf([s \in Others |-> [Alone EXCEPT !.after = {db}, !.before = {web}]]
                  @@ web :> [Alone EXCEPT !.after = {db}])

\* web waits for a service the plan does not have; db is not autostarted.
Blocked == PlanOf(web :> [Alone EXCEPT !.after = {NoService}]
                    @@ db :> [Alone EXCEPT !.startup = "disabled"])

ChecksShutDown == PlanOf(db :> [Alone EXCEPT !.onCheckFailure = "shutdown"]
                           @@ web :> [Alone EXCEPT !.onCheckFailure = "success-shutdown"])
ChecksRestart == PlanOf(db :> [Alone EXCEPT !.onCheckFailure = "restart"]
                          @@ web :> [Alone EXCEPT !.requires = {db}])

BootPlans == {Flat, Chain, FanIn, Blocked}
FlatPlan == {Flat}
RequiresPlan == {WebRequiresDb}
SafetyPlans == {ChecksShutDown, ChecksRestart, WebRequiresDb}

InOrder2 == <<db, web>>
InOrder3 == <<db, web>> \o SetToSeq(Others)
=============================================================================
