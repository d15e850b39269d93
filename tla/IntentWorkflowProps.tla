------------------------- MODULE IntentWorkflowProps -------------------------
(* What reports promise to a workflow, whatever else edits the intent. *)
EXTENDS IntentWorkflow

Contexts == [external : Entries \cup {None}, history : Seq(Entries),
             outcomes : SUBSET Outcomes, evaluation : Evaluations \cup {None}]

\* The report in force is the last one of the history.
Coherent(c) ==
  /\ c.external = None <=> c.history = <<>>
  /\ c.history # <<>> => c.external = c.history[Len(c.history)]

\* Shape of the stored context, and of what an evaluation carries: the report
\* in force and the history are restored together by every edit of the context.
TypeOK ==
  /\ status \in Statuses
  /\ context \in Contexts /\ Coherent(context)
  /\ evaluating \in Contexts \cup {None}
  /\ watched \in [report : Reports, by : Reporters,
                  answer : {"applied", "unchanged", "refused"}] \cup {None}

Mirror == INSTANCE StatusMirror WITH log <- context.history

\* The history and the status implement the mirror: reports apply in the order
\* of their revisions, once, for one task and reporter, and no edit, outcome or
\* evaluation started before a report undoes or fabricates one.
MirrorsReports == Mirror!Spec

\* A workflow told that its report was applied, or was already there, finds it
\* in the history ever after, and a completion it reported was supported.
AnsweredStays ==
  watched # None /\ watched.answer # "refused" =>
    /\ Consistent(watched.report)
    /\ \E i \in 1..Len(context.history) : context.history[i].report = watched.report

\* The first consistent report to arrive comes into force.
FirstAccepted == (watched # None /\ context.external = None) => ~ Consistent(watched.report)

\* No report that has arrived is newer than the one in force: when two overtake
\* each other on the way, the status ends as the newer says.  Reports on another
\* task, of another reporter, inconsistent or with a used event are refused.
NotNewer ==
  (watched # None /\ context.external # None) =>
    \/ ~ Consistent(watched.report)
    \/ watched.report.task # context.external.report.task
    \/ ~ SameReporter(context.external.by, watched.by)
    \/ UsedEvent(watched.report)
    \/ watched.report.revision <= context.external.report.revision

NewestWins == FirstAccepted /\ NotNewer

\* An intent that its workflow completed or closed carries no suggestion to
\* complete it, even one evaluated while it was active and written later.
SettledWithoutSuggestion == status # "active" => context.evaluation = None

=============================================================================
