----------------------------- MODULE StatusMirror -----------------------------
(***************************************************************************)
(* What docs/guides/WORKFLOW_REPORTS.md promises of an intent's status: it *)
(* mirrors a log of reports that only grows, whose revisions increase,     *)
(* whose events are new, and which all speak of the task and come from the *)
(* reporter of the first one.  Nothing else moves the status.              *)
(***************************************************************************)
EXTENDS Naturals, Sequences

CONSTANTS
  Reports,      \* records with a task, an event, a revision and a status
  Reporters,
  Anonymous, Local

VARIABLES
  log,          \* the accepted reports and who made them
  status

Entries == [report : Reports, by : Reporters]

\* The owner of this computer is one reporter under two names.
Same(a, b) == a = b \/ (a = Anonymous /\ b = Local)

Init == log = <<>> /\ status = "active"

Accept(e) ==
  /\ \A i \in 1..Len(log) : log[i].report.event # e.report.event
  /\ log # <<>> =>
       LET last == log[Len(log)] IN
         /\ e.report.revision > last.report.revision
         /\ e.report.task = last.report.task
         /\ Same(last.by, e.by)
  /\ log' = Append(log, e)
  /\ status' = e.report.status

Next == \E e \in Entries : Accept(e)

Spec == Init /\ [][Next]_<<log, status>>
=============================================================================
