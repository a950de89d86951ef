---------------------------- MODULE Monitoring ----------------------------
(***************************************************************************)
(* The observability of the API process: the usage recorder and the issue  *)
(* notifier run side by side on one database, and a restart of the process *)
(* stops both.                                                             *)
(***************************************************************************)
EXTENDS Usage, Notifier

VARIABLE faults

CONSTANT MaxFaults  \* bound: failed calls and restarts

vars == <<usageVars, notifierVars, faults>>

Init == UsageInit /\ NotifierInit /\ faults = 0

Restart == UsageStops /\ NotifierStops

Fault ==
  /\ faults < MaxFaults /\ faults' = faults + 1
  /\ \/ (FlushFails \/ FlushPanics) /\ UNCHANGED notifierVars
     \/ NotifierFails /\ UNCHANGED usageVars
     \/ Restart

Next ==
  \/ UsageNext /\ UNCHANGED <<notifierVars, faults>>
  \/ NotifierNext /\ UNCHANGED <<usageVars, faults>>
  \/ Fault

Spec == Init /\ [][Next]_vars /\ NotifierFairness
=============================================================================
