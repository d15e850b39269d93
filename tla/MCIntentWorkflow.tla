--------------------------- MODULE MCIntentWorkflow ---------------------------
(***************************************************************************)
(* An instance of IntentWorkflow for TLC.  The reports of one workflow: a  *)
(* start, a completion, a reopening, and every way to go wrong about them: *)
(* another status or event for the same revision, no support, an event     *)
(* used before, another task.                                              *)
(***************************************************************************)
EXTENDS IntentWorkflowProps

MCReport(t, e, n, s, ok) ==
  [task |-> t, event |-> e, revision |-> n, status |-> s, supported |-> ok]

MCReports == {
  MCReport("t1", "e1", 1, "active", TRUE),
  MCReport("t1", "e1", 1, "closed", TRUE),
  MCReport("t1", "e2", 2, "completed", TRUE),
  MCReport("t1", "e2", 2, "completed", FALSE),
  MCReport("t1", "e3", 2, "active", FALSE),
  MCReport("t1", "e3", 3, "active", TRUE),
  MCReport("t1", "e1", 4, "closed", TRUE),
  MCReport("t2", "e4", 4, "closed", TRUE) }

MCClaims == [report : {MCReport("t1", "e3", 3, "active", TRUE)}, by : Reporters \ {Local}]
=============================================================================
