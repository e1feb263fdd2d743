------------------------------ MODULE ReplanMC ------------------------------
(***************************************************************************)
(* Replan with the constants given their values for TLC.                   *)
(***************************************************************************)
EXTENDS Replan

CONSTANTS db, web   \* the names

MCFiles == <<"base", "local">>

Service(command, startup, requires) ==
  [command |-> command, startup |-> startup, requires |-> requires,
   override_mode |-> "merge", override |-> Unset]

Check(http, exec, startup) ==
  [http |-> http, exec |-> exec, startup |-> startup, override_mode |-> "merge"]

Alert(url, format, onCheck) ==
  [url |-> url, format |-> format, onCheck |-> onCheck, override_mode |-> "merge"]

Layer(services) ==
  [services |-> services, checks |-> <<>>, alerts |-> <<>>, queueDepth |-> Unset]

CONSTANTS whole, overlay, documented, replacing

\* Two services, a check and an alert.
Whole ==
  [services |-> web :> Service("serve", "enabled", {db}) @@ db :> Service("store", "enabled", {}),
   checks |-> web :> Check("get", Unset, "enabled"),
   alerts |-> web :> Alert("here", "webhook", {web}),
   queueDepth |-> "many"]

\* One field of each is set.
Overlay ==
  [services |-> web :> Service("debug", "disabled", {}),
   checks |-> web :> Check(Unset, "true", "disabled"),
   alerts |-> web :> Alert(Unset, "otlp-logs", {db}),
   queueDepth |-> Unset]

\* As the documentation writes it, and as the code reads it.
Documented == Layer(web :> [Service(Unset, "enabled", {}) EXCEPT !.override = "replace"])
Replacing ==
  Layer(web :> [Service("stub", "enabled", {}) EXCEPT !.override_mode = "replace"]
          @@ db :> Service("archive", "disabled", {}))

MCText ==
  whole :> Whole @@ overlay :> Overlay @@ documented :> Documented
    @@ replacing :> Replacing

Directory(base, local) == "base" :> base @@ "local" :> local

MCDirectories ==
  {Directory(whole, documented), Directory(Missing, overlay), Directory(replacing, overlay)}
=============================================================================
