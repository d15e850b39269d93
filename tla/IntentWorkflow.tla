---------------------------- MODULE IntentWorkflow ----------------------------
(***************************************************************************)
(* One intent: the workflow reports of core/intent_workflow.py, and the    *)
(* generic edits, outcomes and completion evaluations of core/storage.py   *)
(* and routers/intents.py that rewrite the same JSON context.              *)
(*                                                                         *)
(* A workflow's reports arrive in any order and any number of times, from  *)
(* several reporters.  Each write is one BEGIN IMMEDIATE transaction.  An  *)
(* evaluation is not: its request reads the intent and later writes back   *)
(* the context it read, and tool threads write in between.                 *)
(*                                                                         *)
(* Not here: description and priority, the author fields and who may call, *)
(* credentials in a report, the audit log.                                 *)
(***************************************************************************)
EXTENDS Naturals, Sequences

CONSTANTS
  Tasks, Events,
  Reports,              \* the reports that workflows send
  Reporters,            \* actors allowed to report on this intent
  Anonymous, Local,     \* two of them: the owner before and since accounts
  Claims,               \* reports that edits of the context pretend to
  Outcomes,             \* advisory outcomes to record
  None

Statuses == {"active", "completed", "closed"}
Evaluations == {"suggested", "incomplete"}

\* supported: there is evidence, and every check has passed.
ASSUME ReportsAssumption ==
  Reports \subseteq [task : Tasks, event : Events, revision : Nat \ {0},
                    status : Statuses, supported : BOOLEAN]

Entries == [report : Reports, by : Reporters]

ASSUME ClaimsAssumption == Claims \subseteq Entries
ASSUME NoneAssumption == None \notin Evaluations \cup Entries

VARIABLES
  status,       \* column status of the intent
  context,      \* column context: the keys the operations read or write
  evaluating,   \* the context an evaluation in progress has read
  watched       \* some delivery of a report, with the answer it got (history)

vars == <<status, context, evaluating, watched>>

\* set_intent: a new intent has no reports, whatever context it is given.
Init ==
  /\ status = "active"
  /\ \E e \in Evaluations \cup {None} :
       context = [external |-> None, history |-> <<>>, outcomes |-> {}, evaluation |-> e]
  /\ evaluating = None
  /\ watched = None

-----------------------------------------------------------------------------
(* Reports *)

\* IntentWorkflowReport.consistent_completion
Consistent(r) == r.status = "completed" => r.supported

\* Mutant: the two names of the owner stand for each other.
SameOwner(existing, new) == existing = new \/ {existing, new} = {Anonymous, Local}

SameReporter(existing, new) == existing = new \/ (existing = Anonymous /\ new = Local)

\* The report in force, if any, speaks of the same task and reporter.
Linked(r, a) ==
  context.external # None =>
    /\ context.external.report.task = r.task
    /\ SameReporter(context.external.by, a)

\* Mutant: only the revision in force is compared, not the older ones.
LateIfEqual(r) == context.external # None /\ r.revision = context.external.report.revision

Late(r) == context.external # None /\ r.revision <= context.external.report.revision

UsedEvent(r) == \E i \in 1..Len(context.history) : context.history[i].report.event = r.event

Acceptable(r, a) == Consistent(r) /\ Linked(r, a) /\ ~ Late(r) /\ ~ UsedEvent(r)

\* Mutant: a report is recognised by its event alone.
RepeatedEvent(r, a) ==
  Consistent(r) /\ Linked(r, a) /\ Late(r) /\ context.external.report.event = r.event

Repeated(r, a) == Consistent(r) /\ Linked(r, a) /\ Late(r) /\ context.external.report = r

\* The context with the report applied: a suggestion does not outlive it.
Reported(r, a) ==
  LET e == [report |-> r, by |-> a] IN
    [context EXCEPT !.external = e, !.history = Append(@, e), !.evaluation = None]

Watch(r, a, answer) ==
  \/ UNCHANGED watched
  \/ watched = None /\ watched' = [report |-> r, by |-> a, answer |-> answer]

Apply(r, a) ==
  /\ Acceptable(r, a)
  /\ status' = r.status
  /\ context' = Reported(r, a)
  /\ Watch(r, a, "applied")
  /\ UNCHANGED evaluating

Repeat(r, a) ==
  /\ Repeated(r, a)
  /\ Watch(r, a, "unchanged")
  /\ UNCHANGED <<status, context, evaluating>>

Refuse(r, a) ==
  /\ ~ Acceptable(r, a) /\ ~ Repeated(r, a)
  /\ Watch(r, a, "refused")
  /\ UNCHANGED <<status, context, evaluating>>

-----------------------------------------------------------------------------
(* Everything else that writes the context *)

\* What update_intent stores for the context c of its caller.
Updated(c) ==
  [c EXCEPT !.external = context.external,
            !.history = context.history,
            !.evaluation = IF status = "active" THEN @ ELSE None]

\* A generic edit brings a context of its own, claims about reports included.
Edit(kept, evaluation, forged) ==
  /\ context' = Updated([external |-> forged,
                         history |-> IF forged = None THEN <<>> ELSE <<forged>>,
                         outcomes |-> kept,
                         evaluation |-> evaluation])
  /\ UNCHANGED <<status, evaluating, watched>>

AppendOutcome(o) ==
  /\ o \notin context.outcomes
  /\ context' = [context EXCEPT !.outcomes = @ \cup {o}]
  /\ UNCHANGED <<status, evaluating, watched>>

\* Requests run one at a time on the event loop: one evaluation at a time.
BeginEvaluate ==
  /\ evaluating = None
  /\ evaluating' = context
  /\ UNCHANGED <<status, context, watched>>

EndEvaluate(evaluation) ==
  /\ evaluating # None
  /\ context' = Updated([evaluating EXCEPT !.evaluation = evaluation])
  /\ evaluating' = None
  /\ UNCHANGED <<status, watched>>

Crash ==
  /\ evaluating # None
  /\ evaluating' = None
  /\ UNCHANGED <<status, context, watched>>

Next ==
  \/ \E r \in Reports, a \in Reporters : Apply(r, a) \/ Repeat(r, a) \/ Refuse(r, a)
  \/ \E kept \in SUBSET Outcomes, e \in Evaluations \cup {None}, f \in Claims \cup {None} :
       Edit(kept, e, f)
  \/ \E o \in Outcomes : AppendOutcome(o)
  \/ BeginEvaluate
  \/ \E e \in Evaluations : EndEvaluate(e)
  \/ Crash

Spec == Init /\ [][Next]_vars
=============================================================================
