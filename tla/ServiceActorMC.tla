--------------------------- MODULE ServiceActorMC ---------------------------
(***************************************************************************)
(* ServiceActor with the constants given their values for TLC.  One        *)
(* service: actors share nothing but the overlord's channels, which are    *)
(* Supervisor's subject.                                                   *)
(***************************************************************************)
EXTENDS ServiceActor

\* Delays 1, 2 and then the limit: a crash loop makes two retries and gives up.
Delays == [delay |-> 1, num |-> 2, den |-> 1, limit |-> 4]

With(onSuccess, onFailure) ==
  [onSuccess |-> onSuccess, onFailure |-> onFailure, delay |-> Delays.delay,
   num |-> Delays.num, den |-> Delays.den, limit |-> Delays.limit]

\* Every policy, and with "shutdown" both of its exit codes.
MCConfigs ==
  {With("restart", "restart"), With("ignore", "restart"),
   With("shutdown", "shutdown"), With("success-shutdown", "failure-shutdown")}

\* 500 ms in the unit of Delays would do; 3 differs from every configured delay.
MCDefaultDelay == 3
=============================================================================
