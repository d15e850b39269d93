---------------------- MODULE IntentsPurgeStoresProofs ----------------------
(***************************************************************************)
(* Proofs about IntentWorkflow, for any reports, reporters, claims and     *)
(* outcomes, about RepositoryPurge, for any set of memory ids, and about   *)
(* StorageBackends, for any processes, memories, evidence, repositories    *)
(* and backups.  The three share no state, and no part cites another.      *)
(***************************************************************************)
EXTENDS IntentWorkflowProps, RepositoryPurgeProps, StorageBackends, FiniteSetTheorems, TLAPS

(***************************************************************************)
(* IntentWorkflow.                                                         *)
(***************************************************************************)
USE DEF Statuses, Evaluations, Entries

\* A report in force is an entry, so it is not None.
LEMMA EntriesAreReports ==
  /\ \A e \in Entries : e # None /\ e.report \in Reports /\ e.by \in Reporters
  /\ \A r \in Reports : r.status \in Statuses /\ r.revision \in Nat
BY NoneAssumption, ReportsAssumption

\* Adding the newest report leaves the older ones where they were.
LEMMA AppendKeeps ==
  ASSUME NEW h \in Seq(Entries), NEW e \in Entries
  PROVE  /\ Append(h, e) \in Seq(Entries) /\ Append(h, e) # <<>>
         /\ Len(Append(h, e)) = Len(h) + 1
         /\ Append(h, e)[Len(h) + 1] = e
         /\ \A i \in 1..Len(h) : Append(h, e)[i] = h[i]
OBVIOUS

\* What a report makes of a well-formed context is well formed.
LEMMA ReportedOK ==
  ASSUME TypeOK, NEW r \in Reports, NEW a \in Reporters
  PROVE  Reported(r, a) \in Contexts /\ Coherent(Reported(r, a))
<1> DEFINE e == [report |-> r, by |-> a]
<1>1. e \in Entries /\ e # None
  BY NoneAssumption
<1>2. context.history \in Seq(Entries)
  BY DEF TypeOK, Contexts
<1>3. /\ Append(context.history, e) \in Seq(Entries) /\ Append(context.history, e) # <<>>
      /\ Append(context.history, e)[Len(Append(context.history, e))] = e
  BY <1>1, <1>2, AppendKeeps
<1> HIDE DEF e
<1>4. Reported(r, a) = [context EXCEPT !.external = e, !.history = Append(context.history, e),
                                       !.evaluation = None]
  BY DEF Reported, e
<1> QED
  BY <1>1, <1>3, <1>4 DEF TypeOK, Contexts, Coherent

\* What update_intent stores is well formed whatever its caller brings.
LEMMA UpdatedOK ==
  ASSUME TypeOK, NEW c \in Contexts
  PROVE  Updated(c) \in Contexts /\ Coherent(Updated(c))
BY DEF TypeOK, Contexts, Coherent, Updated

\* The stored context keeps its shape: the report in force is the last one of
\* the history, whichever edits, outcomes, evaluations and reports interleave.
THEOREM TypeCorrect == Spec => []TypeOK
<1>1. Init => TypeOK
  BY DEF Init, TypeOK, Contexts, Coherent
<1>2. TypeOK /\ [Next]_vars => TypeOK'
  <2> SUFFICES ASSUME TypeOK, [Next]_vars PROVE TypeOK'
    OBVIOUS
  <2>1. ASSUME NEW r \in Reports, NEW a \in Reporters, Apply(r, a) PROVE TypeOK'
    <3>1. status' \in Statuses /\ context' = Reported(r, a) /\ Watch(r, a, "applied")
          /\ UNCHANGED evaluating
      BY <2>1, EntriesAreReports DEF Apply
    <3>2. context' \in Contexts /\ Coherent(context')
      BY <3>1, ReportedOK
    <3> QED
      BY <3>1, <3>2 DEF TypeOK, Watch, Coherent
  <2>2. ASSUME NEW r \in Reports, NEW a \in Reporters, Repeat(r, a) PROVE TypeOK'
    BY <2>2 DEF Repeat, TypeOK, Watch, Coherent
  <2>3. ASSUME NEW r \in Reports, NEW a \in Reporters, Refuse(r, a) PROVE TypeOK'
    BY <2>3 DEF Refuse, TypeOK, Watch, Coherent
  <2>4. ASSUME NEW kept \in SUBSET Outcomes, NEW e \in Evaluations \cup {None},
               NEW f \in Claims \cup {None}, Edit(kept, e, f)
        PROVE  TypeOK'
    <3> DEFINE c == [external |-> f, history |-> IF f = None THEN <<>> ELSE <<f>>,
                     outcomes |-> kept, evaluation |-> e]
    <3>1. c \in Contexts
      <4>1. f # None => f \in Entries /\ <<f>> \in Seq(Entries)
        BY ClaimsAssumption
      <4>2. <<>> \in Seq(Entries)
        OBVIOUS
      <4> QED
        BY <4>1, <4>2 DEF Contexts
    <3>2. context' = Updated(c) /\ UNCHANGED <<status, evaluating, watched>>
      BY <2>4 DEF Edit
    <3> HIDE DEF c
    <3> QED
      BY <3>1, <3>2, UpdatedOK DEF TypeOK, Coherent
  <2>5. ASSUME NEW o \in Outcomes, AppendOutcome(o) PROVE TypeOK'
    BY <2>5 DEF AppendOutcome, TypeOK, Contexts, Coherent
  <2>6. CASE BeginEvaluate
    BY <2>6 DEF BeginEvaluate, TypeOK, Coherent
  <2>7. ASSUME NEW e \in Evaluations, EndEvaluate(e) PROVE TypeOK'
    <3>1. [evaluating EXCEPT !.evaluation = e] \in Contexts
      BY <2>7 DEF EndEvaluate, TypeOK, Contexts
    <3> QED
      BY <2>7, <3>1, UpdatedOK DEF EndEvaluate, TypeOK, Coherent
  <2>8. CASE Crash
    BY <2>8 DEF Crash, TypeOK, Coherent
  <2>9. CASE UNCHANGED vars
    BY <2>9 DEF vars, TypeOK, Coherent
  <2> QED
    BY <2>1, <2>2, <2>3, <2>4, <2>5, <2>6, <2>7, <2>8, <2>9 DEF Next
<1> QED
  BY <1>1, <1>2, PTL DEF Spec

-----------------------------------------------------------------------------
\* Only a report moves the status or the history: every other step of the
\* intent, a replayed or refused report included, leaves both alone.
LEMMA OthersKeepReports ==
  ASSUME TypeOK, [Next]_vars, ~ \E r \in Reports, a \in Reporters : Apply(r, a)
  PROVE  UNCHANGED <<status, context.history, context.external>>
<1>1. ASSUME NEW r \in Reports, NEW a \in Reporters, Repeat(r, a) \/ Refuse(r, a)
      PROVE  UNCHANGED <<status, context>>
  BY <1>1 DEF Repeat, Refuse
<1>2. ASSUME NEW kept \in SUBSET Outcomes, NEW e \in Evaluations \cup {None},
             NEW f \in Claims \cup {None}, Edit(kept, e, f)
      PROVE  UNCHANGED <<status, context.history, context.external>>
  BY <1>2 DEF Edit, Updated
<1>3. ASSUME NEW o \in Outcomes, AppendOutcome(o)
      PROVE  UNCHANGED <<status, context.history, context.external>>
  BY <1>3 DEF AppendOutcome, TypeOK, Contexts
<1>4. ASSUME NEW e \in Evaluations, EndEvaluate(e)
      PROVE  UNCHANGED <<status, context.history, context.external>>
  <2>1. evaluating \in Contexts
    BY <1>4 DEF EndEvaluate, TypeOK
  <2> QED
    BY <1>4, <2>1 DEF EndEvaluate, Updated, Contexts
<1>5. CASE BeginEvaluate \/ Crash \/ UNCHANGED vars
  BY <1>5 DEF BeginEvaluate, Crash, vars
<1> QED
  BY <1>1, <1>2, <1>3, <1>4, <1>5 DEF Next

\* The intent implements the mirror of its reports.
THEOREM Implements == Spec => MirrorsReports
<1>1. Init => Mirror!Init
  BY DEF Init, Mirror!Init
<1>2. TypeOK /\ [Next]_vars => [Mirror!Next]_<<context.history, status>>
  <2> SUFFICES ASSUME TypeOK, [Next]_vars
               PROVE  [Mirror!Next]_<<context.history, status>>
    OBVIOUS
  <2>1. ASSUME NEW r \in Reports, NEW a \in Reporters, Apply(r, a)
        PROVE  Mirror!Next
    <3> DEFINE e == [report |-> r, by |-> a]
    <3>1. e \in Mirror!Entries
      BY DEF Mirror!Entries
    <3>2. \A i \in 1..Len(context.history) : context.history[i].report.event # e.report.event
      BY <2>1 DEF Apply, Acceptable, UsedEvent
    <3>3. context.history # <<>> =>
            /\ context.external = context.history[Len(context.history)]
            /\ context.external \in Entries /\ context.external # None
      BY EntriesAreReports DEF TypeOK, Contexts, Coherent
    <3>4. context.external \in Entries =>
            context.external.report.revision \in Nat /\ r.revision \in Nat
      BY EntriesAreReports
    <3>5. context.history # <<>> =>
            LET last == context.history[Len(context.history)] IN
              /\ e.report.revision > last.report.revision
              /\ e.report.task = last.report.task
              /\ Mirror!Same(last.by, e.by)
      BY <2>1, <3>3, <3>4 DEF Apply, Acceptable, Late, Linked, SameReporter, Mirror!Same
    <3>6. context'.history = Append(context.history, e) /\ status' = e.report.status
      BY <2>1 DEF Apply, Reported, TypeOK, Contexts
    <3>7. Mirror!Accept(e)
      BY <3>2, <3>5, <3>6 DEF Mirror!Accept
    <3> QED
      BY <3>1, <3>7 DEF Mirror!Next
  <2> QED
    BY <2>1, OthersKeepReports
<1> QED
  BY <1>1, <1>2, TypeCorrect, PTL DEF Spec, MirrorsReports, Mirror!Spec

\* The context of a settled intent carries no suggestion, however late an
\* evaluation is written.
THEOREM Settled == Spec => []SettledWithoutSuggestion
<1>1. Init => SettledWithoutSuggestion
  BY DEF Init, SettledWithoutSuggestion
<1>2. TypeOK /\ SettledWithoutSuggestion /\ [Next]_vars => SettledWithoutSuggestion'
  <2> SUFFICES ASSUME TypeOK, SettledWithoutSuggestion, [Next]_vars
               PROVE  SettledWithoutSuggestion'
    OBVIOUS
  <2>1. ASSUME NEW r \in Reports, NEW a \in Reporters, Apply(r, a)
        PROVE  context'.evaluation = None
    BY <2>1 DEF Apply, Reported, TypeOK, Contexts
  <2>2. ASSUME NEW kept \in SUBSET Outcomes, NEW e \in Evaluations \cup {None},
               NEW f \in Claims \cup {None}, Edit(kept, e, f), status # "active"
        PROVE  context'.evaluation = None
    BY <2>2 DEF Edit, Updated
  <2>3. ASSUME NEW e \in Evaluations, EndEvaluate(e), status # "active"
        PROVE  context'.evaluation = None
    BY <2>3 DEF EndEvaluate, Updated, TypeOK, Contexts
  <2>4. ASSUME NEW o \in Outcomes, AppendOutcome(o)
        PROVE  context'.evaluation = context.evaluation
    BY <2>4 DEF AppendOutcome, TypeOK, Contexts
  <2>5. ASSUME NEW r \in Reports, NEW a \in Reporters, Repeat(r, a) \/ Refuse(r, a)
        PROVE  UNCHANGED context
    BY <2>5 DEF Repeat, Refuse
  <2>6. CASE BeginEvaluate \/ Crash \/ UNCHANGED vars
    BY <2>6 DEF BeginEvaluate, Crash, vars, SettledWithoutSuggestion
  <2> QED
    BY <2>1, <2>2, <2>3, <2>4, <2>5, <2>6, OthersKeepReports DEF Next, SettledWithoutSuggestion
<1> QED
  BY <1>1, <1>2, TypeCorrect, PTL DEF Spec
-----------------------------------------------------------------------------
\* What a step does to the history, as far as the next two theorems care: it
\* stays, or one acceptable report is added and comes into force.
LEMMA HistoryStep ==
  ASSUME TypeOK, [Next]_vars
  PROVE  \/ UNCHANGED <<context.history, context.external>>
         \/ \E r \in Reports, a \in Reporters :
              /\ Apply(r, a)
              /\ context'.external = [report |-> r, by |-> a]
              /\ context'.history = Append(context.history, context'.external)
<1>1. ASSUME NEW r \in Reports, NEW a \in Reporters, Apply(r, a)
      PROVE  /\ context'.external = [report |-> r, by |-> a]
             /\ context'.history = Append(context.history, context'.external)
  BY <1>1 DEF Apply, Reported, TypeOK, Contexts
<1> QED
  BY <1>1, OthersKeepReports

\* An entry of the history is there for good, in the same place.
LEMMA HistoryGrows ==
  ASSUME TypeOK, [Next]_vars, NEW i \in 1..Len(context.history)
  PROVE  i \in 1..Len(context'.history) /\ context'.history[i] = context.history[i]
<1>1. context.history \in Seq(Entries)
  BY DEF TypeOK, Contexts
<1>2. ASSUME NEW r \in Reports, NEW a \in Reporters,
             context'.history = Append(context.history, [report |-> r, by |-> a])
      PROVE  i \in 1..Len(context'.history) /\ context'.history[i] = context.history[i]
  BY <1>1, <1>2, AppendKeeps
<1> QED
  BY <1>2, HistoryStep

\* Only the delivery of a report is watched, with the answer it gets.
LEMMA Delivery ==
  ASSUME [Next]_vars, watched' # watched
  PROVE  \E r \in Reports, a \in Reporters :
           \/ Apply(r, a) /\ watched' = [report |-> r, by |-> a, answer |-> "applied"]
           \/ Repeat(r, a) /\ watched' = [report |-> r, by |-> a, answer |-> "unchanged"]
           \/ Refuse(r, a) /\ watched' = [report |-> r, by |-> a, answer |-> "refused"]
<1>1. \A kept, e, f : ~ Edit(kept, e, f)
  BY DEF Edit
<1>2. \A o : ~ AppendOutcome(o)
  BY DEF AppendOutcome
<1>3. ~ BeginEvaluate /\ ~ Crash /\ ~ UNCHANGED vars /\ \A e : ~ EndEvaluate(e)
  BY DEF BeginEvaluate, Crash, EndEvaluate, vars
<1>4. PICK r \in Reports, a \in Reporters : Apply(r, a) \/ Repeat(r, a) \/ Refuse(r, a)
  BY <1>1, <1>2, <1>3 DEF Next
<1>5. Apply(r, a) => watched' = [report |-> r, by |-> a, answer |-> "applied"]
  BY DEF Apply, Watch
<1>6. Repeat(r, a) => watched' = [report |-> r, by |-> a, answer |-> "unchanged"]
  BY DEF Repeat, Watch
<1>7. Refuse(r, a) => watched' = [report |-> r, by |-> a, answer |-> "refused"]
  BY DEF Refuse, Watch
<1> QED
  BY <1>4, <1>5, <1>6, <1>7

\* A delivery that was answered well is in the history at once.
LEMMA AnsweredNow ==
  ASSUME TypeOK, [Next]_vars, watched' # watched, watched'.answer # "refused"
  PROVE  AnsweredStays'
<1>1. PICK r \in Reports, a \in Reporters :
        (Apply(r, a) \/ Repeat(r, a)) /\ watched'.report = r
  BY Delivery
<1>2. watched'.report = r /\ Consistent(r)
  BY <1>1 DEF Apply, Repeat, Acceptable, Repeated
<1>3. context.history \in Seq(Entries) /\ [report |-> r, by |-> a] \in Entries
  BY DEF TypeOK, Contexts
<1>4. CASE Apply(r, a)
  <2>1. context'.history = Append(context.history, [report |-> r, by |-> a])
    BY <1>4 DEF Apply, Reported, TypeOK, Contexts
  <2>2. /\ Len(context.history) + 1 \in 1..Len(context'.history)
        /\ context'.history[Len(context.history) + 1].report = r
    BY <1>3, <2>1, AppendKeeps
  <2> QED
    BY <1>2, <2>2 DEF AnsweredStays, Consistent
<1>5. CASE Repeat(r, a)
  <2>1. context.history # <<>> /\ context.history[Len(context.history)].report = r
    BY <1>5 DEF Repeat, Repeated, Late, TypeOK, Coherent
  <2>2. Len(context.history) \in 1..Len(context.history)
    BY <1>3, <2>1
  <2> QED
    BY <1>2, <1>5, <2>1, <2>2 DEF Repeat, AnsweredStays, Consistent
<1> QED
  BY <1>1, <1>4, <1>5

\* What a workflow was told stays true.
THEOREM Answered == Spec => []AnsweredStays
<1>1. Init => AnsweredStays
  BY DEF Init, AnsweredStays
<1>2. TypeOK /\ AnsweredStays /\ [Next]_vars => AnsweredStays'
  <2> SUFFICES ASSUME TypeOK, AnsweredStays, [Next]_vars, watched' # None,
                      watched'.answer # "refused"
               PROVE  AnsweredStays'
    BY DEF AnsweredStays
  <2>1. CASE watched' = watched
    BY <2>1, HistoryGrows DEF AnsweredStays, Consistent
  <2> QED
    BY <2>1, AnsweredNow
<1> QED
  BY <1>1, <1>2, TypeCorrect, PTL DEF Spec

\* A delivery that is watched from this step on and is not older than the
\* report in force, nor ruled out, has just come into force.
LEMMA ArrivesInOrder ==
  ASSUME TypeOK, [Next]_vars, watched' # watched
  PROVE  NewestWins'
<1>1. PICK r \in Reports, a \in Reporters :
        /\ Apply(r, a) \/ Repeat(r, a) \/ Refuse(r, a)
        /\ watched'.report = r /\ watched'.by = a
  BY Delivery
<1>2. CASE Apply(r, a)
  <2>1. context'.external = [report |-> r, by |-> a] /\ context'.external # None
    BY <1>2, EntriesAreReports DEF Apply, Reported, TypeOK, Contexts
  <2>2. r.revision <= r.revision
    BY EntriesAreReports
  <2> QED
    BY <1>1, <2>1, <2>2 DEF NewestWins, NotNewer, FirstAccepted
<1>3. CASE Repeat(r, a) \/ Refuse(r, a)
  <2>1. UNCHANGED context
    BY <1>3 DEF Repeat, Refuse
  <2>2. CASE ~ Consistent(r)
    BY <1>1, <2>2 DEF NewestWins, NotNewer, FirstAccepted, Consistent
  <2>3. CASE ~ Linked(r, a)
    BY <1>1, <2>1, <2>3 DEF Linked, NewestWins, NotNewer, FirstAccepted, SameReporter
  <2>4. CASE Late(r)
    BY <1>1, <2>1, <2>4 DEF Late, NewestWins, NotNewer, FirstAccepted
  <2>5. CASE UsedEvent(r)
    <3>1. context.history # <<>>
      BY <2>5 DEF UsedEvent
    <3> QED
      BY <1>1, <2>1, <2>5, <3>1 DEF UsedEvent, NewestWins, NotNewer, FirstAccepted, TypeOK, Coherent
  <2> QED
    BY <1>3, <2>2, <2>3, <2>4, <2>5 DEF Repeat, Refuse, Repeated, Acceptable
<1> QED
  BY <1>1, <1>2, <1>3

\* Reports that overtake each other leave the newest in force.  The inductive
\* invariant adds FirstAccepted: whatever arrived first is in force.
THEOREM Newest == Spec => []NewestWins
<1>1. Init => NewestWins
  BY DEF Init, NewestWins, NotNewer, FirstAccepted
<1>2. TypeOK /\ NewestWins /\ [Next]_vars => NewestWins'
  <2> SUFFICES ASSUME TypeOK, NewestWins, [Next]_vars, watched' = watched
               PROVE  NewestWins'
    BY ArrivesInOrder
  <2>1. UsedEvent(watched.report) => UsedEvent(watched.report)'
    BY HistoryGrows DEF UsedEvent
  <2>2. CASE UNCHANGED <<context.history, context.external>>
    BY <2>1, <2>2 DEF NewestWins, NotNewer, FirstAccepted, Consistent, UsedEvent
  <2>3. ASSUME NEW r \in Reports, NEW a \in Reporters, Apply(r, a),
               context'.external = [report |-> r, by |-> a], watched # None
        PROVE  NewestWins'
    <3>1. context'.external # None
      BY <2>3, NoneAssumption
    <3>2. CASE context.external = None
      BY <2>3, <3>1, <3>2 DEF NewestWins, NotNewer, FirstAccepted, Consistent
    <3>3. CASE context.external # None
      <4>1. context.external \in Entries /\ watched.report \in Reports
        BY <2>3, <3>3 DEF TypeOK, Contexts
      <4>2. /\ context.external.report.revision \in Nat /\ watched.report.revision \in Nat
            /\ r.revision \in Nat /\ context.external.report.revision < r.revision
        BY <2>3, <3>3, <4>1, EntriesAreReports DEF Apply, Acceptable, Late
      <4>3. /\ context.external.report.task = r.task
            /\ SameReporter(context.external.by, a)
        BY <2>3, <3>3 DEF Apply, Acceptable, Linked
      <4>4. SameReporter(a, watched.by) => SameReporter(context.external.by, watched.by)
        BY <4>3 DEF SameReporter
      <4>5. /\ \/ ~ Consistent(watched.report)
               \/ watched.report.task # context.external.report.task
               \/ ~ SameReporter(context.external.by, watched.by)
               \/ UsedEvent(watched.report)
               \/ watched.report.revision <= context.external.report.revision
        BY <2>3, <3>3 DEF NewestWins, NotNewer, FirstAccepted
      <4>6. \/ ~ Consistent(watched.report)
            \/ watched.report.task # r.task
            \/ ~ SameReporter(a, watched.by)
            \/ UsedEvent(watched.report)'
            \/ watched.report.revision <= r.revision
        BY <2>1, <4>2, <4>3, <4>4, <4>5
      <4> QED
        BY <2>3, <3>1, <4>6 DEF NewestWins, NotNewer, FirstAccepted, Consistent, UsedEvent, SameReporter
    <3> QED
      BY <3>2, <3>3
  <2>4. CASE watched = None
    BY <2>4 DEF NewestWins, NotNewer, FirstAccepted
  <2> QED
    BY <2>2, <2>3, <2>4, HistoryStep
<1> QED
  BY <1>1, <1>2, TypeCorrect, PTL DEF Spec

(***************************************************************************)
(* RepositoryPurge.                                                        *)
(***************************************************************************)
USE DEF Kinds, Checks, Purging

\* The records of a purge request keep their shape.
LEMMA IdleOK == Idle \in Requests /\ Idle.at = "idle" /\ Idle.kept = {} /\ Idle.next = 1
BY DEF Idle, Requests

\* A purge request keeps its shape under the changes that the steps make to it.
LEMMA Keeps ==
  ASSUME NEW p \in Requests
  PROVE  /\ \A m \in Ids : /\ [p EXCEPT !.todo = @ \ {m}, !.kept = @ \ {m}] \in Requests
                          /\ [p EXCEPT !.todo = @ \ {m}, !.bad = TRUE] \in Requests
         /\ [p EXCEPT !.at = "verify", !.kept = @ \ Kinds] \in Requests
         /\ [p EXCEPT !.at = "verify", !.bad = TRUE] \in Requests
         /\ \A b \in BOOLEAN : p.next <= Len(Checks) =>
              [p EXCEPT !.next = @ + 1, !.bad = @ \/ b] \in Requests
<1>1. \A m \in Ids : [p EXCEPT !.todo = @ \ {m}, !.kept = @ \ {m}] \in Requests
  BY DEF Requests
<1>2. \A m \in Ids : [p EXCEPT !.todo = @ \ {m}, !.bad = TRUE] \in Requests
  BY DEF Requests
<1>3. [p EXCEPT !.at = "verify", !.kept = @ \ Kinds] \in Requests
  BY DEF Requests
<1>4. [p EXCEPT !.at = "verify", !.bad = TRUE] \in Requests
  BY DEF Requests
<1>5. ASSUME NEW b \in BOOLEAN, p.next <= Len(Checks)
      PROVE  [p EXCEPT !.next = @ + 1, !.bad = @ \/ b] \in Requests
  <2>1. p.next + 1 \in 1..(Len(Checks) + 1)
    BY <1>5 DEF Requests
  <2>2. (p.bad \/ b) \in BOOLEAN
    OBVIOUS
  <2> QED
    BY <2>1, <2>2 DEF Requests
<1> QED
  BY <1>1, <1>2, <1>3, <1>4, <1>5

\* The steps of the purge that change the store leave the lock alone, and the
\* request stays where the lock is held.
LEMMA PurgeStep ==
  ASSUME PurgeTypeOK, (\E m \in Ids : DeleteListed(m)) \/ DeleteChildren \/ Verify
  PROVE  /\ purge.at \in {"delete", "verify"}
         /\ purge' \in Requests /\ purge'.at \in {"delete", "verify"}
         /\ rows' \subseteq rows /\ children' \subseteq children
         /\ UNCHANGED <<repo, tombstone, lock, write>>
<1>1. purge \in Requests
  BY DEF PurgeTypeOK
<1>2. ASSUME NEW m \in Ids, DeleteListed(m)
      PROVE  /\ purge.at = "delete" /\ purge' \in Requests /\ purge'.at = "delete"
             /\ rows' \subseteq rows /\ children' = children
             /\ UNCHANGED <<repo, tombstone, lock, write>>
  <2>1. CASE purge' = [purge EXCEPT !.todo = @ \ {m}, !.kept = @ \ {m}] /\ rows' = rows \ {m}
    <3>1. purge' \in Requests
      BY <2>1, <1>1, Keeps, Zenon
    <3>2. purge'.at = purge.at
      BY <2>1, <1>1 DEF Requests
    <3> QED
      BY <3>1, <3>2, <2>1, <1>2, Zenon DEF DeleteListed
  <2>2. CASE purge' = [purge EXCEPT !.todo = @ \ {m}, !.bad = TRUE] /\ rows' = rows
    <3>1. purge' \in Requests
      BY <2>2, <1>1, Keeps, Zenon
    <3>2. purge'.at = purge.at
      BY <2>2, <1>1 DEF Requests
    <3> QED
      BY <3>1, <3>2, <2>2, <1>2, Zenon DEF DeleteListed
  <2> QED
    BY <2>1, <2>2, <1>2, Zenon DEF DeleteListed
<1>3. CASE DeleteChildren
  <2>1. purge' \in Requests
    BY <1>1, <1>3, Keeps, Zenon DEF DeleteChildren
  <2>2. CASE purge' = [purge EXCEPT !.at = "verify", !.kept = @ \ Kinds] /\ children' = {}
    BY <2>1, <2>2, <1>1, <1>3 DEF DeleteChildren, Requests
  <2>3. CASE purge' = [purge EXCEPT !.at = "verify", !.bad = TRUE] /\ children' = children
    BY <2>1, <2>3, <1>1, <1>3 DEF DeleteChildren, Requests
  <2> QED
    BY <2>2, <2>3, <1>3, Zenon DEF DeleteChildren
<1>4. CASE Verify
  <2>1. PICK b \in BOOLEAN : purge' = [purge EXCEPT !.next = @ + 1, !.bad = @ \/ b]
    BY <1>4 DEF Verify
  <2>2. purge' \in Requests
    BY <2>1, <1>1, <1>4, Keeps, Zenon DEF Verify
  <2>3. purge'.at = purge.at
    BY <2>1, <1>1 DEF Requests
  <2> QED
    BY <2>2, <2>3, <1>4, Zenon DEF Verify
<1> QED
  BY <1>2, <1>3, <1>4

\* PurgeTypeOK: every change of the lock goes with the beginning or the end of the
\* write or purge that holds it.
LEMMA PurgeTypeKept == PurgeTypeOK /\ [PurgeNext]_purgeVars => PurgeTypeOK'
<1> SUFFICES ASSUME PurgeTypeOK, [PurgeNext]_purgeVars PROVE PurgeTypeOK'
  OBVIOUS
<1> USE PurgeAssumption DEF PurgeTypeOK
<1>1. ASSUME NEW m \in Ids, BeginWrite(m) PROVE PurgeTypeOK'
  BY <1>1 DEF BeginWrite
<1>2. ASSUME NEW m \in Ids, Delete(m) PROVE PurgeTypeOK'
  BY <1>2 DEF Delete, Requests
<1>3. ASSUME NEW m \in Ids, DeleteListed(m) PROVE PurgeTypeOK'
  BY <1>3, PurgeStep
<1>4. CASE Insert
  BY <1>4 DEF Insert, Registered
<1>5. CASE EndWrite
  BY <1>5 DEF EndWrite
<1>6. CASE Register
  BY <1>6 DEF Register
<1>7. ASSUME NEW k \in Kinds, AddChild(k) PROVE PurgeTypeOK'
  BY <1>7 DEF AddChild, Registered
<1>8. ASSUME NEW s \in SUBSET Ids, NEW k \in SUBSET {"intent", "evidence"}, Import(s, k) PROVE PurgeTypeOK'
  BY <1>8 DEF Import
<1>9. CASE Find
  <2>1. purge' = [at |-> "found", todo |-> {}, next |-> 1, bad |-> FALSE, kept |-> {}]
    BY <1>9 DEF Find, Idle
  <2>2. purge' \in Requests
    BY <2>1 DEF Requests
  <2>3. purge'.at = "found" /\ lock # "purge"
    BY <2>1, <1>9 DEF Find
  <2> QED
    BY <1>9, <2>2, <2>3 DEF Find
<1>10. CASE BeginPurge
  BY <1>10 DEF BeginPurge, Requests
<1>11. CASE List
  BY <1>11 DEF List, Requests
<1>12. CASE DeleteChildren
  BY <1>12, PurgeStep
<1>13. CASE Verify
  BY <1>13, PurgeStep
<1>14. CASE DeleteRepository
  BY <1>14 DEF DeleteRepository, Verified, Requests
<1>15. CASE EndPurge
  BY <1>15, IdleOK DEF EndPurge, Verified
<1>16. CASE Restart
  BY <1>16, IdleOK DEF Restart, Registered
<1>17. CASE UNCHANGED purgeVars
  BY <1>17 DEF purgeVars
<1> QED
  BY <1>1, <1>2, <1>3, <1>4, <1>5, <1>6, <1>7, <1>8, <1>9, <1>10, <1>11, <1>12,
     <1>13, <1>14, <1>15, <1>16, <1>17 DEF PurgeNext

\* The shapes hold, and the lock is held by the write or the purge under way.
THEOREM PurgeTypeCorrect == PurgeSpec => []PurgeTypeOK
<1>1. PurgeInit => PurgeTypeOK
  BY IdleOK, PurgeAssumption DEF PurgeInit, PurgeTypeOK
<1> QED
  BY <1>1, PurgeTypeKept, PTL DEF PurgeSpec

\* Who holds the lock and who may set or remove the tombstone, step by step.
LEMMA ExclusionKept ==
  PurgeTypeOK /\ WritesExcluded /\ DeclaredIsOpen /\ [PurgeNext]_purgeVars
    => WritesExcluded' /\ DeclaredIsOpen'
<1> SUFFICES ASSUME PurgeTypeOK, WritesExcluded, DeclaredIsOpen, [PurgeNext]_purgeVars
             PROVE  WritesExcluded' /\ DeclaredIsOpen'
  OBVIOUS
<1> USE PurgeAssumption DEF PurgeTypeOK, WritesExcluded, DeclaredIsOpen
<1>1. ASSUME NEW m \in Ids, BeginWrite(m) PROVE WritesExcluded' /\ DeclaredIsOpen'
  BY <1>1 DEF BeginWrite
<1>2. ASSUME NEW m \in Ids, Delete(m) PROVE WritesExcluded' /\ DeclaredIsOpen'
  BY <1>2 DEF Delete, Requests
<1>3. CASE Insert \/ EndWrite \/ Register
  BY <1>3 DEF Insert, EndWrite, Register, Registered
<1>4. ASSUME NEW k \in Kinds, AddChild(k) PROVE WritesExcluded' /\ DeclaredIsOpen'
  BY <1>4 DEF AddChild, Registered
<1>5. ASSUME NEW s \in SUBSET Ids, NEW k \in SUBSET {"intent", "evidence"}, Import(s, k)
      PROVE  WritesExcluded' /\ DeclaredIsOpen'
  BY <1>5 DEF Import
<1>6. CASE Find
  BY <1>6, IdleOK DEF Find, Idle
<1>7. CASE BeginPurge
  BY <1>7 DEF BeginPurge, Requests
<1>8. CASE List
  BY <1>8 DEF List, Requests
<1>9. CASE (\E m \in Ids : DeleteListed(m)) \/ DeleteChildren \/ Verify
  BY <1>9, PurgeStep
<1>10. CASE DeleteRepository
  <2>1. repo' \in {repo, "none"} /\ UNCHANGED <<tombstone, write, lock>>
    BY <1>10 DEF DeleteRepository
  <2>2. write = NoWrite
    BY <1>10 DEF DeleteRepository, Verified
  <2> QED
    BY <2>1, <2>2
<1>11. CASE EndPurge
  BY <1>11, IdleOK DEF EndPurge, Verified, Purged
<1>12. CASE Restart
  BY <1>12, IdleOK DEF Restart, Registered
<1>13. CASE UNCHANGED purgeVars
  BY <1>13 DEF purgeVars
<1> QED
  BY <1>1, <1>2, <1>3, <1>4, <1>5, <1>6, <1>7, <1>8, <1>9, <1>10, <1>11, <1>12, <1>13
  DEF PurgeNext

\* No memory is stored during a purge, nor after one until a registration.
THEOREM Excluded == PurgeSpec => []WritesExcluded
<1>1. PurgeInit => WritesExcluded /\ DeclaredIsOpen
  BY DEF PurgeInit, WritesExcluded, DeclaredIsOpen
<1> QED
  BY <1>1, PurgeTypeCorrect, ExclusionKept, PTL DEF PurgeSpec

\* Only deletions make what the purge found smaller, and each deletion of the
\* purge is accounted for.
LEMMA ProgressKept == PurgeTypeOK /\ Progress /\ [PurgeNext]_purgeVars => Progress'
<1> SUFFICES ASSUME PurgeTypeOK, Progress, [PurgeNext]_purgeVars PROVE Progress'
  OBVIOUS
<1> USE PurgeAssumption DEF PurgeTypeOK, Progress
<1>1. ASSUME NEW m \in Ids, BeginWrite(m) PROVE Progress'
  BY <1>1 DEF BeginWrite
<1>2. ASSUME NEW m \in Ids, Delete(m) PROVE Progress'
  BY <1>2 DEF Delete, Requests
<1>3. ASSUME NEW m \in Ids, DeleteListed(m) PROVE Progress'
  <2>1. purge.at = "delete" /\ repo' = repo
    BY <1>3 DEF DeleteListed
  <2>2. CASE rows' = rows \ {m} /\ purge' = [purge EXCEPT !.todo = @ \ {m}, !.kept = @ \ {m}]
    <3>1. purge'.at = "delete" /\ purge'.kept = purge.kept \ {m}
      BY <2>1, <2>2 DEF Requests
    <3> QED
      BY <2>1, <2>2, <3>1
  <2>3. CASE rows' = rows /\ purge' = [purge EXCEPT !.todo = @ \ {m}, !.bad = TRUE]
    <3>1. purge'.at = "delete" /\ purge'.kept = purge.kept
      BY <2>1, <2>3 DEF Requests
    <3> QED
      BY <2>1, <2>3, <3>1
  <2> QED
    BY <1>3, <2>2, <2>3 DEF DeleteListed
<1>4. CASE Insert
  BY <1>4 DEF Insert, Registered
<1>5. CASE EndWrite \/ Register
  BY <1>5 DEF EndWrite, Register
<1>6. ASSUME NEW k \in Kinds, AddChild(k) PROVE Progress'
  BY <1>6 DEF AddChild, Registered
<1>7. ASSUME NEW s \in SUBSET Ids, NEW k \in SUBSET {"intent", "evidence"}, Import(s, k) PROVE Progress'
  BY <1>7 DEF Import
<1>8. CASE Find
  BY <1>8 DEF Find, Idle, Requests
<1>9. CASE BeginPurge
  BY <1>9 DEF BeginPurge, Requests
<1>10. CASE List
  BY <1>10 DEF List, Requests
<1>11. CASE DeleteChildren
  <2>1. purge.at = "delete" /\ repo' = repo /\ rows' = rows /\ purge.next = 1
    BY <1>11 DEF DeleteChildren
  <2>2. CASE purge' = [purge EXCEPT !.at = "verify", !.kept = @ \ Kinds]
    <3>1. purge'.at = "verify" /\ purge'.kept = purge.kept \ Kinds
      BY <2>2 DEF Requests
    <3>2. purge'.next = 1
      BY <2>1, <2>2 DEF Requests
    <3> QED
      BY <2>1, <3>1, <3>2
  <2>3. CASE purge' = [purge EXCEPT !.at = "verify", !.bad = TRUE]
    <3>1. purge'.at = "verify" /\ purge'.kept = purge.kept /\ purge'.bad
      BY <2>3 DEF Requests
    <3> QED
      BY <2>1, <3>1
  <2> QED
    BY <1>11, <2>2, <2>3 DEF DeleteChildren
<1>12. CASE Verify
  BY <1>12 DEF Verify, Residual, Requests
<1>13. CASE DeleteRepository
  <2>1. /\ purge.at = "verify" /\ purge.next > 1 /\ ~ purge.bad /\ rows' = rows
        /\ repo # "none"
    BY <1>13 DEF DeleteRepository, Verified, Requests
  <2>2. CASE purge' = [purge EXCEPT !.at = "check"]
    <3>1. purge'.at = "check" /\ purge'.kept = purge.kept /\ purge'.bad = purge.bad
      BY <2>2 DEF Requests
    <3> QED
      BY <2>1, <3>1
  <2>3. CASE repo' = repo /\ purge' = [purge EXCEPT !.at = "check", !.bad = TRUE]
    <3>1. purge'.at = "check" /\ purge'.kept = purge.kept /\ purge'.bad
      BY <2>3 DEF Requests
    <3> QED
      BY <2>1, <2>3, <3>1
  <2> QED
    BY <1>13, <2>2, <2>3 DEF DeleteRepository
<1>14. CASE EndPurge \/ Restart
  BY <1>14, IdleOK DEF EndPurge, Restart
<1>15. CASE UNCHANGED purgeVars
  BY <1>15 DEF purgeVars
<1> QED
  BY <1>1, <1>2, <1>3, <1>4, <1>5, <1>6, <1>7, <1>8, <1>9, <1>10, <1>11, <1>12,
     <1>13, <1>14, <1>15 DEF PurgeNext

\* The report of a purge is truthful about what the purge found.
THEOREM Truthful == PurgeSpec => TruthfulReport
<1>1. PurgeInit => Progress
  BY IdleOK DEF PurgeInit, Progress
<1>2. PurgeTypeOK /\ Progress /\ EndPurge => IF Purged THEN purge.kept = {} ELSE repo # "none"
  BY DEF PurgeTypeOK, Requests, Progress, EndPurge, Verified, Purged
<1> QED
  BY <1>1, <1>2, PurgeTypeCorrect, ProgressKept, PTL DEF PurgeSpec, TruthfulReport

(***************************************************************************)
(* The inductive invariant of the SQLite file.                             *)
(***************************************************************************)

\* What an old file cites is there, in the same repository.
OldFileOK(f) ==
  \A l \in f.links : /\ l[1] \in DOMAIN f.memory /\ l[2] \in DOMAIN f.evidence
                     /\ f.memory[l[1]].repo = f.evidence[l[2]].repo

FileNew ==
  file.version = Sql!Unversioned =>
     /\ DOMAIN file.memory = {} /\ DOMAIN file.evidence = {} /\ file.links = {}
     /\ file = original \/ original.tables = "none"

FileOld == file.version \in Sql!Migratable => OldFileOK(file)

\* A process that creates tables or writes passed the check of a file that is still new, or
\* sound; the old file of a deployment is never one of these.
WorkerOK(p) ==
  proc[p].kind \in {"local", "server"} =>
     /\ proc[p].at \in {"create", "stamp", "open"} =>
          \/ file.version = Sql!Unversioned /\ original.tables = "none"
          \/ file.version = Sql!Current /\ Sql!Valid(file)
     /\ proc[p].at = "stamp" => file.tables = "all"
     /\ proc[p].at = "open" => file.version = Sql!Current

\* An upgrade works alone, on the file that it copied.
UpgradeOK(p) ==
  proc[p].kind = "upgrade" =>
     /\ proc[p].into \in Copies
     /\ \A q \in Procs \ {p} : proc[q].kind = "none"
     /\ proc[p].at = "migrate" =>
          /\ proc[p].into \in DOMAIN copy /\ copy[proc[p].into] = file
          /\ file.version \in Sql!Migratable /\ file.tables = "all"
     /\ proc[p].at = "copying" =>
          proc[p].into \in DOMAIN copy /\ copy[proc[p].into] = Sql!Nothing

\* Between versions the file is the one found; of the current one it is sound.
FileSound ==
  \/ file = original
  \/ file.version = Sql!Unversioned
  \/ file.version = Sql!Current /\ Sql!Valid(file)

SqlInv ==
  /\ Sql!TypeOK
  /\ FileNew
  /\ FileOld
  /\ \A p \in Procs : WorkerOK(p) /\ UpgradeOK(p)
  /\ FileSound
  /\ SqliteKept

(***************************************************************************)
(* The inductive invariant of the ArcadeDB directory.                      *)
(***************************************************************************)

\* What was ever given an id: an id of the graph, of an attestation that
\* outlived its belief, or of a memory that the purge deleted.
Given ==
  /\ DOMAIN memory \subseteq used /\ DOMAIN evidence \subseteq used
  /\ \A n \in DOMAIN attested : attested[n] \in used
  /\ sweep.gone \subseteq used /\ sweep.gone \cap DOMAIN memory = {}

\* A prohibition has one attestation, anything else none.
OneAuthority ==
  /\ \A l \in authority : memory[l[1]].kind = "prohibition"
  /\ \A l, k \in authority : l[1] = k[1] => l = k
  /\ \A m \in DOMAIN memory : memory[m].kind = "prohibition" => \E l \in authority : l[1] = m

BeliefsKept ==
  \A m \in DOMAIN memory : memory[m].layer = "semantic" => (\E e \in Evidence : <<m, e>> \in cites) \/ m \in spoiled

\* An attestation outlives its belief while a purge may still delete it, or for good.
AttestedKept == \A n \in DOMAIN attested : attested[n] \in DOMAIN memory \cup stranded \cup sweep.gone

\* How far the purge is: what its repository may still hold.
Swept ==
  /\ sweep.at = "delete" =>
       \A m \in DOMAIN memory : memory[m].repo = sweep.repo => m \in sweep.todo \cup spoiled
  /\ sweep.at = "evidence" =>
       \A m \in DOMAIN memory : memory[m].repo = sweep.repo => m \in spoiled
  /\ sweep.at = "record" =>
       /\ \A m \in DOMAIN memory : memory[m].repo # sweep.repo
       /\ \A n \in DOMAIN attested : attested[n] \notin sweep.gone

ArcInv ==
  /\ Arc!TypeOK
  /\ Given
  /\ Arc!LinksSound
  /\ Arc!KindsMatch
  /\ Arc!AuthoritySound
  /\ OneAuthority
  /\ BeliefsKept
  /\ AttestedKept
  /\ Swept

(***************************************************************************)
(* The inductive invariant of the Neo4j database and its backup file.      *)
(***************************************************************************)

\* A graph as the code leaves it, in the database or in a file: governed, or as it was before
\* evidence was, with ids that were all given out.
Whole(governed, mem, evi, links, given) ==
  /\ DOMAIN mem \subseteq given /\ DOMAIN evi \subseteq given
  /\ \A l \in links : l[1] \in DOMAIN mem /\ l[2] \in DOMAIN evi
  /\ \A m \in DOMAIN mem :
       /\ \A e \in Neo!EvidenceIds : e \in mem[m].ids <=> <<m, e>> \in links
       /\ \A e \in mem[m].ids : evi[e] = mem[m].repo
       /\ governed /\ mem[m].layer # "intent" => mem[m].ids # {}
  /\ ~governed => DOMAIN evi = {}

Sound(g) == Neo!IsGraph(g) /\ Whole(g.governed, g.memory, g.evidence, g.cites, nUsed)

\* What a process may have found when it opened the database.
Opened ==
  \A c \in Procs : /\ nClient[c] # "closed" => nGoverned \/ DOMAIN nMemory = {}
                   /\ nClient[c] = "open" => nGoverned

\* Between its backup and its commit a migration owns what it saved.
Saved ==
  nAdmin = "saved" => /\ \E f \in nFile : f.memory = nMemory
                      /\ DOMAIN nEvidence = {}
                      /\ nGoverned => DOMAIN nMemory = {}

\* What a repository that a purge has verified holds was stored since, by another process.
NoneFound ==
  nPurge.at = "record" =>
    \A m \in DOMAIN nMemory : nMemory[m].repo = nPurge.repo => m \in nPurge.later

NeoInv ==
  /\ Neo!TypeOK
  /\ Whole(nGoverned, nMemory, nEvidence, nCites, nUsed)
  /\ \A f \in nFile : Sound(f)
  /\ Opened
  /\ Saved
  /\ NoneFound
  /\ Neo4jKept

StoresInv == SqlInv /\ ArcInv /\ NeoInv

LEMMA SqlInit == Sql!Init => SqlInv
<1> SUFFICES ASSUME Sql!Init PROVE SqlInv
  OBVIOUS
<1>1. Sql!TypeOK
  <2>1. Sql!IsFile(file)
    <3>1. /\ Sql!IsFile(Sql!OldFile(Sql!Unversioned, <<>>, <<>>, {}))
          /\ Sql!IsFile(Sql!Nothing)
      <4>1. /\ \E S \in SUBSET Memories : <<>> \in [S -> Sql!Row]
            /\ \E S \in SUBSET (Memories \cup FewEvidence) : <<>> \in [S -> Sql!Source]
        <5>1. <<>> \in [{} -> Sql!Row] /\ <<>> \in [{} -> Sql!Source]
          OBVIOUS
        <5> QED
          BY <5>1, {} \in SUBSET Memories, {} \in SUBSET (Memories \cup FewEvidence)
      <4>2. Sql!Unversioned \in 0 .. Sql!Current + 1
        BY DEF Sql!Unversioned, Sql!Current
      <4> QED
        BY <4>1, <4>2 DEF Sql!IsFile, Sql!Nothing, Sql!OldFile
    <3>2. ASSUME NEW version \in 2 .. Sql!Current + 1, NEW m \in Sql!OldMemories(version),
                 NEW e \in Sql!OldEvidence(version), NEW links \in SUBSET ((DOMAIN m) \X (DOMAIN e))
          PROVE  Sql!IsFile(Sql!OldFile(version, m, e, links))
      <4>1. \E S \in SUBSET Memories : m \in [S -> Sql!Row]
        BY DEF Sql!OldMemories
      <4>2. \E S \in SUBSET FewEvidence : e \in [S -> Sql!Source]
        <5>1. CASE version = 2
          BY <5>1, <<>> \in [{} -> Sql!Source], {} \in SUBSET FewEvidence DEF Sql!OldEvidence
        <5>2. CASE version # 2
          BY <5>2 DEF Sql!OldEvidence
        <5> QED
          BY <5>1, <5>2
      <4>3. links \subseteq Memories \X FewEvidence
        BY <4>1, <4>2
      <4> QED
        BY <4>1, <4>2, <4>3 DEF Sql!IsFile, Sql!OldFile, Sql!Current
    <3> QED
      BY <3>1, <3>2 DEF Sql!Init
  <2> QED
    BY <2>1, StoresAssumption DEF Sql!Init, Sql!TypeOK, Sql!Kinds
<1>2. FileNew /\ FileOld
  BY DEF Sql!Init, FileNew, FileOld, OldFileOK, Sql!Nothing, Sql!OldFile, Sql!Migratable, Sql!Unversioned,
         Sql!Current
<1>3. ASSUME NEW p \in Procs PROVE WorkerOK(p) /\ UpgradeOK(p)
  BY DEF Sql!Init, WorkerOK, UpgradeOK
<1> QED
  BY <1>1, <1>2, <1>3 DEF Sql!Init, SqlInv, FileSound, SqliteKept

\* A process that starts, stops or is refused changes no file.
LEMMA SqlIdleStep ==
  ASSUME SqlInv, NEW p \in Procs, file' = file, original' = original, copy' = copy,
         created' = created, NEW k, NEW a, NEW d,
         proc' = [proc EXCEPT ![p] = [kind |-> k, at |-> a, into |-> d]],
         k \in Sql!Kinds \cup {"none"}, d \in Copies \cup {Absent},
         a \in {"down", "begin", "refused"},
         k = "upgrade" => d \in Copies /\ \A q \in Procs \ {p} : proc[q].kind = "none",
         k # "none" => \A q \in Procs \ {p} : proc[q].kind # "upgrade"
  PROVE  SqlInv'
<1>1. /\ \A q \in Procs \ {p} : proc'[q] = proc[q]
      /\ proc'[p] = [kind |-> k, at |-> a, into |-> d]
  BY DEF SqlInv, Sql!TypeOK
<1>2. Sql!TypeOK'
  BY DEF SqlInv, Sql!TypeOK, Sql!IsFile
<1>3. FileNew' /\ FileOld' /\ FileSound' /\ SqliteKept'
  BY DEF SqlInv, FileNew, FileOld, OldFileOK, FileSound, SqliteKept, Sql!Valid, Sql!Linked
<1>4. ASSUME NEW q \in Procs PROVE WorkerOK(q)'
  <2>1. CASE q = p
    BY <1>1, <2>1 DEF WorkerOK
  <2>2. CASE q # p
    BY <1>1, <2>2 DEF SqlInv, WorkerOK, Sql!Valid, Sql!Linked
  <2> QED
    BY <2>1, <2>2
<1>5. ASSUME NEW q \in Procs PROVE UpgradeOK(q)'
  <2>1. CASE q = p
    BY <1>1, <2>1 DEF UpgradeOK
  <2>2. CASE q # p
    <3>1. proc'[q] = proc[q] /\ proc'[p].kind = k /\ UpgradeOK(q)
      BY <1>1, <2>2 DEF SqlInv
    <3>2. proc[q].kind = "upgrade" => k = "none"
      BY <2>2
    <3> QED
      BY <1>1, <2>2, <3>1, <3>2 DEF UpgradeOK, Sql!Nothing, Sql!Unversioned
  <2> QED
    BY <2>1, <2>2
<1> QED
  BY <1>2, <1>3, <1>4, <1>5 DEF SqlInv

\* An opening process goes on with the file as it is.
LEMMA SqlWorkerStep ==
  ASSUME SqlInv, NEW p \in Procs, file' = file, original' = original, copy' = copy,
         created' = created, NEW a \in {"create", "stamp"}, proc' = [proc EXCEPT ![p].at = a],
         proc[p].kind \in {"local", "server"},
         \/ file.version = Sql!Unversioned /\ original.tables = "none"
         \/ file.version = Sql!Current /\ Sql!Valid(file),
         a = "stamp" => file.tables = "all"
  PROVE  SqlInv'
<1>1. /\ \A q \in Procs \ {p} : proc'[q] = proc[q]
      /\ proc'[p] = [proc[p] EXCEPT !.at = a]
      /\ proc'[p].kind = proc[p].kind /\ proc'[p].at = a
      /\ \A q \in Procs : proc'[q].kind = proc[q].kind /\ proc'[q].into = proc[q].into
  BY DEF SqlInv, Sql!TypeOK
<1>2. Sql!TypeOK'
  BY DEF SqlInv, Sql!TypeOK, Sql!IsFile
<1>3. FileNew' /\ FileOld' /\ FileSound' /\ SqliteKept'
  BY DEF SqlInv, FileNew, FileOld, OldFileOK, FileSound, SqliteKept, Sql!Valid, Sql!Linked
<1>4. ASSUME NEW q \in Procs PROVE WorkerOK(q)'
  <2>1. CASE q = p
    BY <1>1, <2>1 DEF WorkerOK, Sql!Valid, Sql!Linked
  <2>2. CASE q # p
    BY <1>1, <2>2 DEF SqlInv, WorkerOK, Sql!Valid, Sql!Linked
  <2> QED
    BY <2>1, <2>2
<1>5. ASSUME NEW q \in Procs PROVE UpgradeOK(q)'
  <2>1. CASE q = p
    BY <1>1, <2>1 DEF UpgradeOK
  <2>2. CASE q # p
    BY <1>1, <2>2 DEF SqlInv, UpgradeOK, Sql!Nothing, Sql!Unversioned
  <2> QED
    BY <2>1, <2>2
<1> QED
  BY <1>2, <1>3, <1>4, <1>5 DEF SqlInv

\* An open store has no upgrade beside it, and a file that is still new or sound.
LEMMA SqlWorking ==
  ASSUME SqlInv, NEW p \in Procs, proc[p].kind \in {"local", "server"},
         proc[p].at \in {"create", "stamp", "open"}
  PROVE  /\ \/ file.version = Sql!Unversioned /\ original.tables = "none"
            \/ file.version = Sql!Current /\ Sql!Valid(file)
         /\ \A q \in Procs : proc[q].kind # "upgrade"
         /\ proc[p].at = "stamp" => file.tables = "all"
         /\ proc[p].at = "open" => file.version = Sql!Current
<1>1. WorkerOK(p)
  BY DEF SqlInv
<1>2. ASSUME NEW q \in Procs PROVE proc[q].kind # "upgrade"
  <2>1. UpgradeOK(q)
    BY DEF SqlInv
  <2> QED
    BY <2>1 DEF UpgradeOK
<1> QED
  BY <1>1, <1>2 DEF WorkerOK

LEMMA SqlStart ==
  ASSUME SqlInv, NEW p \in Procs, NEW kind \in Sql!Kinds, Sql!Start(p, kind) PROVE SqlInv'
<1>1. PICK d \in Copies :
        proc' = [proc EXCEPT ![p] = [kind |-> kind, at |-> "begin",
                                     into |-> IF kind = "upgrade" THEN d ELSE Absent]]
  BY DEF Sql!Start
<1>2. ASSUME NEW q \in Procs \ {p}
      PROVE  /\ kind = "upgrade" => proc[q].kind = "none"
             /\ kind # "none" => proc[q].kind # "upgrade"
  <2>1. \A r \in Sql!RoleOf(kind) :
          IF r = "server" THEN Sql!RoleOf(proc[q].kind) = {} ELSE "server" \notin Sql!RoleOf(proc[q].kind)
    BY DEF Sql!Start, Sql!Role!Compatible
  <2>2. kind # "none" /\ Sql!RoleOf(kind) # {}
    BY DEF Sql!RoleOf, Sql!Kinds
  <2> QED
    BY <2>1, <2>2 DEF Sql!RoleOf
<1>3. (IF kind = "upgrade" THEN d ELSE Absent) \in Copies \cup {Absent}
  OBVIOUS
<1> QED
  BY <1>1, <1>2, <1>3, SqlIdleStep DEF Sql!Start

LEMMA SqlEnds ==
  ASSUME SqlInv, NEW p \in Procs, Sql!Ends(p) \/ Sql!Refuse(p),
         file' = file, original' = original, copy' = copy, created' = created
  PROVE  SqlInv'
<1>1. CASE Sql!Ends(p)
  BY <1>1, SqlIdleStep DEF Sql!Ends
<1>2. CASE Sql!Refuse(p)
  BY <1>2, SqlIdleStep DEF Sql!Refuse
<1> QED
  BY <1>1, <1>2

LEMMA SqlCheck == ASSUME SqlInv, NEW p \in Procs, Sql!Check(p) PROVE SqlInv'
<1>1. CASE Sql!Openable
  <2>1. \/ file.version = Sql!Unversioned /\ original.tables = "none"
        \/ file.version = Sql!Current /\ Sql!Valid(file)
    BY <1>1 DEF Sql!Openable, SqlInv, FileNew
  <2> QED
    BY <1>1, <2>1, SqlWorkerStep DEF Sql!Check, Sql!At, Sql!Go
<1>2. CASE ~Sql!Openable
  BY <1>2, SqlEnds DEF Sql!Check
<1> QED
  BY <1>1, <1>2

\* A process opening a new file makes its tables one after the other.
LEMMA SqlCreate == ASSUME SqlInv, NEW p \in Procs, Sql!Create(p) PROVE SqlInv'
<1>1. proc[p].kind \in {"local", "server"} /\ proc[p].at = "create"
  BY DEF Sql!Create, Sql!At
<1>2. /\ \/ file.version = Sql!Unversioned /\ original.tables = "none"
         \/ file.version = Sql!Current /\ Sql!Valid(file)
      /\ \A q \in Procs : proc[q].kind # "upgrade"
  BY <1>1, SqlWorking
<1>3. CASE file.tables = "all"
  <2>1. Sql!Go(p, "stamp") /\ file' = file
    BY <1>3 DEF Sql!Create
  <2> QED
    BY <1>1, <1>2, <1>3, <2>1, SqlWorkerStep DEF Sql!Create, Sql!Go
<1>4. CASE file.tables # "all"
  <2> DEFINE t == IF file.tables = "none" THEN "some" ELSE "all"
  <2>1. file.version = Sql!Unversioned /\ original.tables = "none"
    BY <1>2, <1>4 DEF Sql!Valid
  <2>2. /\ file' = [file EXCEPT !.tables = t] /\ proc' = proc /\ copy' = copy
        /\ original' = original /\ created' = created
    BY <1>4 DEF Sql!Create
  <2>3. /\ file' = [tables |-> t, version |-> file.version, memory |-> file.memory,
                    evidence |-> file.evidence, links |-> file.links]
        /\ Sql!IsFile(file')
    BY <2>2 DEF SqlInv, Sql!TypeOK, Sql!IsFile
  <2>4. Sql!TypeOK'
    BY <2>2, <2>3 DEF SqlInv, Sql!TypeOK, Sql!IsFile
  <2>5. file'.version = 0
    BY <2>1, <2>3 DEF Sql!Unversioned
  <2>6. FileNew' /\ FileOld' /\ FileSound' /\ SqliteKept'
    BY <2>1, <2>2, <2>3, <2>5
       DEF SqlInv, FileNew, FileOld, FileSound, SqliteKept, Sql!Migratable, Sql!Current, Sql!Unversioned
  <2>7. ASSUME NEW q \in Procs PROVE WorkerOK(q)' /\ UpgradeOK(q)'
    <3>1. WorkerOK(q)
      BY DEF SqlInv
    <3>2. proc[q].at = "stamp" /\ proc[q].kind \in {"local", "server"} => FALSE
      BY <3>1, <1>4 DEF WorkerOK
    <3>3. proc[q].at = "open" /\ proc[q].kind \in {"local", "server"} => FALSE
      BY <3>1, <2>1 DEF WorkerOK, Sql!Current, Sql!Unversioned
    <3> QED
      BY <3>2, <3>3, <1>2, <2>1, <2>2, <2>5 DEF WorkerOK, UpgradeOK, Sql!Unversioned
  <2> QED
    BY <2>4, <2>6, <2>7 DEF SqlInv
<1> QED
  BY <1>3, <1>4

\* What a worker does to a file leaves it sound, and an upgrade's copy where it is.
LEMMA SqlWorked ==
  ASSUME SqlInv, NEW p \in Procs, proc[p].kind \in {"local", "server"},
         proc[p].at \in {"stamp", "open"},
         Sql!IsFile(file'), file'.version = Sql!Current, Sql!Valid(file)',
         proc' = [proc EXCEPT ![p].at = "open"],
         copy' = copy, original' = original, created' \in 0 .. MaxCreated
  PROVE  SqlInv'
<1>1. /\ \/ file.version = Sql!Unversioned /\ original.tables = "none"
         \/ file.version = Sql!Current
      /\ \A q \in Procs : proc[q].kind # "upgrade"
  BY SqlWorking
<1>2. \A q \in Procs : /\ proc'[q].kind = proc[q].kind
                       /\ q # p => proc'[q] = proc[q]
  BY DEF SqlInv, Sql!TypeOK
<1>3. Sql!TypeOK'
  BY DEF SqlInv, Sql!TypeOK, Sql!IsFile
<1>4. FileNew' /\ FileOld' /\ FileSound'
  BY DEF FileNew, FileOld, FileSound, Sql!Unversioned, Sql!Current, Sql!Migratable
<1>5. SqliteKept'
  BY <1>1 DEF SqlInv, SqliteKept
<1>6. ASSUME NEW q \in Procs PROVE WorkerOK(q)' /\ UpgradeOK(q)'
  <2>1. file'.tables = "all"
    BY DEF Sql!Valid
  <2> QED
    BY <1>1, <1>2, <2>1 DEF WorkerOK, UpgradeOK
<1> QED
  BY <1>3, <1>4, <1>5, <1>6 DEF SqlInv

LEMMA SqlStamp == ASSUME SqlInv, NEW p \in Procs, Sql!Stamp(p) PROVE SqlInv'
<1>1. proc[p].kind \in {"local", "server"} /\ proc[p].at = "stamp"
  BY DEF Sql!Stamp, Sql!At
<1>2. /\ \/ file.version = Sql!Unversioned
         \/ file.version = Sql!Current /\ Sql!Valid(file)
      /\ file.tables = "all"
  BY <1>1, SqlWorking
<1>3. file' = [tables |-> "all", version |-> Sql!Current, memory |-> file.memory,
               evidence |-> file.evidence, links |-> file.links]
  BY <1>2 DEF Sql!Stamp, SqlInv, Sql!TypeOK, Sql!IsFile
<1>4. Sql!IsFile(file') /\ file'.version = Sql!Current
  BY <1>3 DEF SqlInv, Sql!TypeOK, Sql!IsFile, Sql!Current
<1>5. Sql!Valid(file)'
  <2>1. CASE file.version = Sql!Unversioned
    BY <1>3, <2>1 DEF SqlInv, FileNew, Sql!Valid, Sql!Linked
  <2>2. CASE Sql!Valid(file)
    BY <1>3, <2>2 DEF Sql!Valid, Sql!Linked
  <2> QED
    BY <1>2, <2>1, <2>2
<1>6. created' \in 0 .. MaxCreated
  BY DEF Sql!Stamp, SqlInv, Sql!TypeOK
<1> QED
  BY <1>1, <1>4, <1>5, <1>6, SqlWorked DEF Sql!Stamp, Sql!Go

\* A belief and the evidence it cites leave a sound file sound.
LEMMA SqlWrite ==
  ASSUME SqlInv, NEW p \in Procs, NEW m \in Memories, NEW e \in FewEvidence, NEW r \in {Unscoped},
         Sql!Write(p, m, e, r)
  PROVE  SqlInv'
<1> DEFINE row == [layer |-> "semantic", repo |-> r, secret |-> FALSE, typed |-> TRUE]
           source == [repo |-> r, sound |-> TRUE, secret |-> FALSE]
<1>1. proc[p].kind \in {"local", "server"} /\ proc[p].at = "open"
  BY DEF Sql!Write, Sql!At
<1>2. Sql!Valid(file) /\ file.version = Sql!Current
  BY <1>1, SqlWorking DEF Sql!Unversioned, Sql!Current
<1>3. file' = [tables |-> file.tables, version |-> file.version,
               memory |-> Sql!With(file.memory, m, row),
               evidence |-> Sql!With(file.evidence, e, source),
               links |-> file.links \cup {<<m, e>>}]
  BY DEF Sql!Write, SqlInv, Sql!TypeOK, Sql!IsFile
<1>4. m \notin DOMAIN file.memory /\ e \notin DOMAIN file.evidence
  BY DEF Sql!Write
<1>5. /\ DOMAIN Sql!With(file.memory, m, row) = DOMAIN file.memory \cup {m}
      /\ Sql!With(file.memory, m, row)[m] = row
      /\ \A k \in DOMAIN file.memory : Sql!With(file.memory, m, row)[k] = file.memory[k]
      /\ DOMAIN Sql!With(file.evidence, e, source) = DOMAIN file.evidence \cup {e}
      /\ Sql!With(file.evidence, e, source)[e] = source
      /\ \A k \in DOMAIN file.evidence : Sql!With(file.evidence, e, source)[k] = file.evidence[k]
  BY <1>4 DEF Sql!With
<1>6. Sql!IsFile(file')
  <2>1. \E S \in SUBSET Memories : file'.memory \in [S -> Sql!Row]
    <3>1. PICK S \in SUBSET Memories : file.memory \in [S -> Sql!Row]
      BY DEF SqlInv, Sql!TypeOK, Sql!IsFile
    <3>2. row \in Sql!Row
      BY DEF Sql!Row
    <3>3. Sql!With(file.memory, m, row) \in [S \cup {m} -> Sql!Row]
      BY <3>1, <3>2 DEF Sql!With
    <3> QED
      BY <1>3, <3>3
  <2>2. \E S \in SUBSET (Memories \cup FewEvidence) : file'.evidence \in [S -> Sql!Source]
    <3>1. PICK S \in SUBSET (Memories \cup FewEvidence) : file.evidence \in [S -> Sql!Source]
      BY DEF SqlInv, Sql!TypeOK, Sql!IsFile
    <3>2. source \in Sql!Source
      BY DEF Sql!Source
    <3>3. Sql!With(file.evidence, e, source) \in [S \cup {e} -> Sql!Source]
      BY <3>1, <3>2 DEF Sql!With
    <3> QED
      BY <1>3, <3>3
  <2>3. file'.links \subseteq Memories \X (Memories \cup FewEvidence)
    BY <1>3 DEF SqlInv, Sql!TypeOK, Sql!IsFile
  <2>4. file.tables \in {"none", "some", "all"} /\ file.version \in 0 .. Sql!Current + 1
    BY DEF SqlInv, Sql!TypeOK, Sql!IsFile
  <2> HIDE DEF row, source
  <2> QED
    BY <1>3, <2>1, <2>2, <2>3, <2>4 DEF Sql!IsFile
<1>7. Sql!Valid(file)'
  <2> HIDE DEF row, source
  <2>1. row.typed = TRUE /\ row.layer = "semantic" /\ row.repo = source.repo /\ source.sound = TRUE
        /\ source.secret = FALSE
    BY DEF row, source
  <2>2. Sql!Linked(file)'
    BY <1>2, <1>3, <1>5 DEF Sql!Valid, Sql!Linked
  <2>3. \A l \in file'.links : /\ l[1] \in DOMAIN file'.memory /\ l[2] \in DOMAIN file'.evidence
                               /\ file'.memory[l[1]].repo = file'.evidence[l[2]].repo
    BY <1>2, <1>3, <1>5, <2>1 DEF Sql!Valid
  <2>4. /\ \A k \in DOMAIN file'.memory : file'.memory[k].typed <=> file'.memory[k].layer = "semantic"
        /\ \A k \in DOMAIN file'.evidence : file'.evidence[k].sound /\ ~file'.evidence[k].secret
    BY <1>2, <1>3, <1>5, <2>1 DEF Sql!Valid
  <2> QED
    BY <1>2, <1>3, <2>2, <2>3, <2>4 DEF Sql!Valid
<1>8. file'.version = Sql!Current
  BY <1>2, <1>3
<1>9. proc' = [proc EXCEPT ![p].at = "open"] /\ created' \in 0 .. MaxCreated
  BY <1>1, StoresAssumption DEF Sql!Write, SqlInv, Sql!TypeOK
<1> QED
  BY <1>1, <1>6, <1>7, <1>8, <1>9, SqlWorked DEF Sql!Write

\* An upgrade goes on alone: what holds of the others holds of processes that are not there.
LEMMA SqlAlone ==
  ASSUME SqlInv, NEW p \in Procs, proc[p].kind = "upgrade"
  PROVE  /\ proc[p].into \in Copies
         /\ \A q \in Procs \ {p} : proc[q].kind = "none"
         /\ proc[p].at = "migrate" =>
              /\ proc[p].into \in DOMAIN copy /\ copy[proc[p].into] = file
              /\ file.version \in Sql!Migratable /\ file.tables = "all"
         /\ proc[p].at = "copying" =>
              proc[p].into \in DOMAIN copy /\ copy[proc[p].into] = Sql!Nothing
BY DEF SqlInv, UpgradeOK

LEMMA SqlBackup == ASSUME SqlInv, NEW p \in Procs, Sql!Backup(p) PROVE SqlInv'
<1>1. proc[p].kind = "upgrade" /\ proc[p].at = "begin"
  BY DEF Sql!Backup, Sql!At
<1>2. proc[p].into \in Copies /\ \A q \in Procs \ {p} : proc[q].kind = "none"
  BY <1>1, SqlAlone
<1>3. CASE ~(file.version \in Sql!Migratable /\ file.tables = "all" /\ proc[p].into \notin DOMAIN copy)
  <2>1. Sql!Ends(p) /\ copy' = copy /\ file' = file /\ original' = original /\ created' = created
    BY <1>3 DEF Sql!Backup
  <2> QED
    BY <2>1, SqlEnds
<1>4. CASE file.version \in Sql!Migratable /\ file.tables = "all" /\ proc[p].into \notin DOMAIN copy
  <2>1. PICK c, a : /\ copy' = Sql!With(copy, proc[p].into, c)
                    /\ proc' = [proc EXCEPT ![p].at = a]
                    /\ \/ c = file /\ a = "migrate"
                       \/ c = Sql!Nothing /\ a = "copying"
    BY <1>4 DEF Sql!Backup, Sql!Go
  <2>2. file' = file /\ original' = original /\ created' = created
    BY DEF Sql!Backup
  <2>3. /\ DOMAIN copy' = DOMAIN copy \cup {proc[p].into} /\ copy'[proc[p].into] = c
        /\ \A d \in DOMAIN copy : copy'[d] = copy[d]
    BY <1>4, <2>1 DEF Sql!With
  <2>4. /\ proc'[p] = [proc[p] EXCEPT !.at = a] /\ proc'[p].at = a
        /\ \A q \in Procs : /\ proc'[q].kind = proc[q].kind /\ proc'[q].into = proc[q].into
                            /\ q # p => proc'[q] = proc[q]
    BY <2>1 DEF SqlInv, Sql!TypeOK
  <2>5. Sql!TypeOK'
    <3>1. DOMAIN copy' \subseteq Copies
      BY <1>2, <2>3 DEF SqlInv, Sql!TypeOK
    <3> QED
      BY <2>1, <2>2, <3>1 DEF SqlInv, Sql!TypeOK, Sql!IsFile
  <2>6. FileNew' /\ FileOld' /\ FileSound'
    BY <2>2 DEF SqlInv, FileNew, FileOld, OldFileOK, FileSound, Sql!Valid, Sql!Linked
  <2>7. SqliteKept'
    BY <2>2, <2>3 DEF SqlInv, SqliteKept
  <2>8. ASSUME NEW q \in Procs PROVE WorkerOK(q)' /\ UpgradeOK(q)'
    <3>1. CASE q = p
      BY <1>1, <1>2, <1>4, <2>1, <2>2, <2>3, <2>4, <3>1 DEF WorkerOK, UpgradeOK, Sql!Nothing
    <3>2. CASE q # p
      BY <1>2, <2>4, <3>2 DEF WorkerOK, UpgradeOK
    <3> QED
      BY <3>1, <3>2
  <2> QED
    BY <2>5, <2>6, <2>7, <2>8 DEF SqlInv
<1> QED
  BY <1>3, <1>4

\* The directory of a copy that failed goes; it is none that holds the old file.
LEMMA SqlBackupFails == ASSUME SqlInv, NEW p \in Procs, Sql!BackupFails(p) PROVE SqlInv'
<1>1. proc[p].kind = "upgrade" /\ proc[p].at = "copying"
  BY DEF Sql!BackupFails, Sql!At
<1>2. /\ \A q \in Procs \ {p} : proc[q].kind = "none"
      /\ proc[p].into \in DOMAIN copy /\ copy[proc[p].into] = Sql!Nothing
  BY <1>1, SqlAlone
<1>3. /\ file' = file /\ original' = original /\ created' = created
      /\ proc' = [proc EXCEPT ![p] = [kind |-> "none", at |-> "down", into |-> Absent]]
      /\ copy' = [d \in DOMAIN copy \ {proc[p].into} |-> copy[d]]
  BY DEF Sql!BackupFails, Sql!Ends, Sql!Restrict
<1>4. \A q \in Procs : proc'[q].kind = "none" /\ proc' \in [Procs -> [kind : Sql!Kinds \cup {"none"},
        into : Copies \cup {Absent}, at : {"down", "begin", "refused", "create", "stamp", "open",
        "copying", "migrate"}]]
  BY <1>2, <1>3 DEF SqlInv, Sql!TypeOK
<1>5. Sql!TypeOK'
  BY <1>3, <1>4 DEF SqlInv, Sql!TypeOK, Sql!IsFile
<1>6. FileNew' /\ FileOld' /\ FileSound'
  BY <1>3 DEF SqlInv, FileNew, FileOld, OldFileOK, FileSound, Sql!Valid, Sql!Linked
<1>7. SqliteKept'
  <2>1. original.tables = "all" => copy[proc[p].into] # original
    BY <1>2 DEF Sql!Nothing
  <2> QED
    BY <1>3, <2>1 DEF SqlInv, SqliteKept
<1>8. \A q \in Procs : WorkerOK(q)' /\ UpgradeOK(q)'
  BY <1>4 DEF WorkerOK, UpgradeOK
<1> QED
  BY <1>5, <1>6, <1>7, <1>8 DEF SqlInv

\* What the migration makes of a sound old file is a sound file of this build.
LEMMA MigratedSound ==
  ASSUME NEW f, Sql!IsFile(f), f.version \in Sql!Migratable, f.tables = "all", OldFileOK(f),
         Sql!Prevalid(f), Sql!Integral(f)
  PROVE  Sql!IsFile(Sql!Migrated(f)) /\ Sql!Valid(Sql!Migrated(f))
         /\ Sql!Migrated(f).version = Sql!Current
<1>1. PICK g : g = IF f.version = 2 THEN Sql!WithEvidence(f) ELSE f
  OBVIOUS
<1>2. PICK h : h = IF f.version < 4 THEN Sql!WithTypes(g) ELSE g
  OBVIOUS
<1>3. Sql!Migrated(f) = [h EXCEPT !.version = Sql!Current]
  BY <1>1, <1>2 DEF Sql!Migrated
<1>4. f.version \in {2, 3, 4}
  BY DEF Sql!Migratable
<1>5. /\ Sql!IsFile(g) /\ g.tables = "all" /\ OldFileOK(g)
      /\ f.version \in {2, 3} => Sql!Linked(g) /\ \A e \in DOMAIN g.evidence : g.evidence[e].sound /\ ~g.evidence[e].secret
  <2>1. CASE f.version # 2
    BY <1>1, <1>4, <2>1 DEF Sql!Integral, Sql!Prevalid
  <2>2. CASE f.version = 2
    <3>1. PICK s : s = [m \in DOMAIN f.memory |->
                          [f.memory[m] EXCEPT !.repo = IF @ = Blank THEN Unscoped ELSE @]]
      OBVIOUS
    <3>2. PICK e : e = [m \in DOMAIN s |-> [repo |-> s[m].repo, sound |-> TRUE, secret |-> s[m].secret]]
      OBVIOUS
    <3>3. g = [tables |-> "all", version |-> 2, memory |-> s, evidence |-> e,
               links |-> {<<m, m>> : m \in DOMAIN s}]
      BY <1>1, <2>2, <3>1, <3>2 DEF Sql!WithEvidence, Sql!IsFile
    <3>4. PICK S \in SUBSET Memories : f.memory \in [S -> Sql!Row]
      BY DEF Sql!IsFile
    <3>5. s \in [S -> Sql!Row] /\ \A m \in S : s[m].secret = f.memory[m].secret
      BY <3>1, <3>4 DEF Sql!Row
    <3>6. e \in [S -> Sql!Source]
      BY <3>2, <3>5 DEF Sql!Row, Sql!Source
    <3>7. Sql!IsFile(g)
      <4>1. S \in SUBSET (Memories \cup FewEvidence) /\ DOMAIN s = S
        BY <3>5
      <4>2. {<<m, m>> : m \in DOMAIN s} \subseteq Memories \X (Memories \cup FewEvidence)
        BY <4>1
      <4> QED
        BY <3>3, <3>5, <3>6, <4>1, <4>2 DEF Sql!IsFile, Sql!Current
    <3>8. \A m \in S : ~f.memory[m].secret
      BY <1>4, <2>2, <3>4 DEF Sql!Prevalid
    <3>9. Sql!Linked(g)
      BY <3>2, <3>3 DEF Sql!Linked
    <3>10. \A m \in DOMAIN g.evidence : g.evidence[m].sound /\ ~g.evidence[m].secret
      BY <3>2, <3>3, <3>5, <3>8
    <3>11. OldFileOK(g)
      BY <3>2, <3>3 DEF OldFileOK
    <3> QED
      BY <3>3, <3>7, <3>9, <3>10, <3>11
  <2> QED
    BY <2>1, <2>2
<1>6. CASE f.version = 4
  <2>1. h = f /\ Sql!Valid(f)
    BY <1>1, <1>2, <1>6 DEF Sql!Prevalid
  <2>2. Sql!Migrated(f) = [tables |-> f.tables, version |-> Sql!Current, memory |-> f.memory,
                           evidence |-> f.evidence, links |-> f.links]
    BY <1>3, <2>1 DEF Sql!IsFile
  <2>3. Sql!IsFile(Sql!Migrated(f))
    BY <2>2 DEF Sql!IsFile, Sql!Current
  <2>4. Sql!Linked(Sql!Migrated(f))
    BY <2>1, <2>2 DEF Sql!Valid, Sql!Linked
  <2> QED
    BY <2>1, <2>2, <2>3, <2>4 DEF Sql!Valid
<1>7. CASE f.version \in {2, 3}
  <2>1. PICK t : t = [m \in DOMAIN g.memory |-> [g.memory[m] EXCEPT !.typed = g.memory[m].layer = "semantic"]]
    OBVIOUS
  <2>2. h = [tables |-> "all", version |-> g.version, memory |-> t, evidence |-> g.evidence,
             links |-> g.links]
    <3>1. h = [g EXCEPT !.memory = t]
      BY <1>2, <1>7, <2>1 DEF Sql!WithTypes
    <3> QED
      BY <1>5, <3>1 DEF Sql!IsFile
  <2>3. Sql!Migrated(f) = [tables |-> "all", version |-> Sql!Current, memory |-> t,
                           evidence |-> g.evidence, links |-> g.links]
    BY <1>3, <2>2
  <2>4. PICK S \in SUBSET Memories : g.memory \in [S -> Sql!Row]
    BY <1>5 DEF Sql!IsFile
  <2>5. /\ t \in [S -> Sql!Row]
        /\ \A m \in S : /\ t[m].typed <=> t[m].layer = "semantic"
                        /\ t[m].layer = g.memory[m].layer /\ t[m].repo = g.memory[m].repo
    BY <2>1, <2>4 DEF Sql!Row
  <2>6. Sql!IsFile(Sql!Migrated(f))
    BY <1>5, <2>3, <2>5 DEF Sql!IsFile, Sql!Current
  <2>7. Sql!Linked(Sql!Migrated(f))
    BY <1>5, <1>7, <2>3, <2>4, <2>5 DEF Sql!Linked
  <2>8. DOMAIN t = S /\ DOMAIN g.memory = S
    BY <2>4, <2>5
  <2>9. \A l \in g.links : /\ l[1] \in DOMAIN t /\ l[2] \in DOMAIN g.evidence
                           /\ t[l[1]].repo = g.evidence[l[2]].repo
    BY <1>5, <2>5, <2>8 DEF OldFileOK
  <2> QED
    BY <1>5, <1>7, <2>3, <2>5, <2>6, <2>7, <2>8, <2>9 DEF Sql!Valid
<1> QED
  BY <1>4, <1>6, <1>7

LEMMA SqlMigrate == ASSUME SqlInv, NEW p \in Procs, Sql!Migrate(p) PROVE SqlInv'
<1>1. proc[p].kind = "upgrade" /\ proc[p].at = "migrate"
  BY DEF Sql!Migrate, Sql!At
<1>2. /\ \A q \in Procs \ {p} : proc[q].kind = "none"
      /\ proc[p].into \in DOMAIN copy /\ copy[proc[p].into] = file
      /\ file.version \in Sql!Migratable /\ file.tables = "all"
  BY <1>1, SqlAlone
<1>3. CASE UNCHANGED <<file, original>>
  BY <1>3, SqlEnds DEF Sql!Migrate
<1>4. CASE Sql!Prevalid(file) /\ Sql!Integral(file) /\ original' = file /\ file' = Sql!Migrated(file)
  <2>1. Sql!IsFile(file) /\ OldFileOK(file)
    BY <1>2 DEF SqlInv, Sql!TypeOK, FileOld
  <2>2. Sql!IsFile(file') /\ Sql!Valid(file)' /\ file'.version = Sql!Current
    <3>1. Sql!Valid(Sql!Migrated(file)) /\ Sql!IsFile(Sql!Migrated(file))
          /\ Sql!Migrated(file).version = Sql!Current
      BY <1>2, <1>4, <2>1, MigratedSound
    <3> QED
      BY <1>4, <3>1 DEF Sql!Valid, Sql!Linked
  <2>3. /\ copy' = copy /\ created' = created
        /\ proc' = [proc EXCEPT ![p] = [kind |-> "none", at |-> "down", into |-> Absent]]
    BY DEF Sql!Migrate, Sql!Ends
  <2>4. /\ \A q \in Procs : proc'[q].kind = "none"
        /\ proc' \in [Procs -> [kind : Sql!Kinds \cup {"none"},
             into : Copies \cup {Absent}, at : {"down", "begin", "refused", "create", "stamp", "open",
             "copying", "migrate"}]]
    BY <1>2, <2>3 DEF SqlInv, Sql!TypeOK
  <2>5. Sql!TypeOK'
    BY <1>4, <2>1, <2>2, <2>3, <2>4 DEF SqlInv, Sql!TypeOK
  <2>6. FileNew' /\ FileOld' /\ FileSound'
    BY <2>2 DEF FileNew, FileOld, FileSound, Sql!Unversioned, Sql!Current, Sql!Migratable
  <2>7. SqliteKept'
    BY <1>2, <1>4, <2>3 DEF SqliteKept
  <2>8. \A q \in Procs : WorkerOK(q)' /\ UpgradeOK(q)'
    BY <2>4 DEF WorkerOK, UpgradeOK
  <2> QED
    BY <2>5, <2>6, <2>7, <2>8 DEF SqlInv
<1> QED
  BY <1>3, <1>4 DEF Sql!Migrate

LEMMA SqlStep == ASSUME SqlInv, Sql!Next PROVE SqlInv'
<1>1. PICK p \in Procs :
        \/ \E kind \in Sql!Kinds : Sql!Start(p, kind)
        \/ Sql!Stop(p) \/ Sql!Check(p) \/ Sql!Create(p) \/ Sql!Stamp(p)
        \/ \E m \in Memories, e \in FewEvidence, r \in {Unscoped} : Sql!Write(p, m, e, r)
        \/ Sql!Backup(p) \/ Sql!BackupFails(p) \/ Sql!Migrate(p)
  BY DEF Sql!Next
<1>2. CASE Sql!Stop(p)
  BY <1>2, SqlEnds DEF Sql!Stop
<1> QED
  BY <1>1, <1>2, SqlStart, SqlCheck, SqlCreate, SqlStamp, SqlWrite, SqlBackup, SqlBackupFails, SqlMigrate

LEMMA SqlStutter == ASSUME SqlInv, UNCHANGED sqlite PROVE SqlInv'
<1>1. file' = file /\ copy' = copy /\ proc' = proc /\ original' = original /\ created' = created
  BY DEF sqlite
<1> QED
  BY <1>1 DEF SqlInv, Sql!TypeOK, Sql!IsFile, FileNew, FileOld, OldFileOK, FileSound, SqliteKept,
              WorkerOK, UpgradeOK, Sql!Valid, Sql!Linked, Sql!Nothing

Sweeps == [at: Arc!Steps, repo: Repositories \cup {Absent}, todo: SUBSET Memories,
           gone: SUBSET Memories, errors: BOOLEAN]

LEMMA IdleSweeps ==
  /\ Arc!Idle \in Sweeps
  /\ Arc!Idle.at = "idle" /\ Arc!Idle.gone = {}
  /\ \A r \in Repositories : [Arc!Idle EXCEPT !.at = "list", !.repo = r] \in Sweeps
<1>1. {} \in SUBSET Memories
  OBVIOUS
<1> QED
  BY <1>1 DEF Arc!Idle, Arc!Steps, Sweeps

LEMMA ArcInit == Arc!Init => ArcInv
<1> SUFFICES ASSUME Arc!Init PROVE ArcInv
  OBVIOUS
<1>1. Arc!TypeOK
  <2>1. sweep \in Sweeps
    BY IdleSweeps DEF Arc!Init
  <2>2. DOMAIN memory = {} /\ DOMAIN evidence = {} /\ DOMAIN attested = {}
    BY DEF Arc!Init
  <2>3. /\ cites = {} /\ authority = {} /\ declared = {} /\ purged = {} /\ used = {} /\ spoiled = {}
        /\ stranded = {} /\ opened = FALSE /\ marker \in {"none", "previous"}
    BY DEF Arc!Init
  <2> QED
    BY <2>1, <2>2, <2>3 DEF Arc!TypeOK, Sweeps
<1>2. Given /\ OneAuthority /\ BeliefsKept /\ AttestedKept /\ Swept
  BY DEF Arc!Init, Given, OneAuthority, BeliefsKept, AttestedKept, Swept, Arc!Idle
<1>3. Arc!LinksSound /\ Arc!KindsMatch /\ Arc!AuthoritySound
  BY DEF Arc!Init, Arc!LinksSound, Arc!KindsMatch, Arc!AuthoritySound
<1> QED
  BY <1>1, <1>2, <1>3 DEF ArcInv

\* A step that leaves the graph as it is has only the purge's progress to answer for.
LEMMA ArcGraphKept ==
  ASSUME ArcInv, memory' = memory, evidence' = evidence, cites' = cites, attested' = attested,
         authority' = authority, used' = used, spoiled' = spoiled,
         Arc!TypeOK', Swept', AttestedKept', sweep'.gone \subseteq sweep.gone
  PROVE  ArcInv'
<1>1. Given' /\ OneAuthority' /\ BeliefsKept'
  BY DEF ArcInv, Given, OneAuthority, BeliefsKept
<1>2. Arc!LinksSound' /\ Arc!KindsMatch' /\ Arc!AuthoritySound'
  BY DEF ArcInv, Arc!LinksSound, Arc!KindsMatch, Arc!AuthoritySound
<1> QED
  BY <1>1, <1>2 DEF ArcInv

\* What is stranded stays so, and so do the beliefs gone whose attestation is left.
LEMMA ArcStrand ==
  ASSUME ArcInv, NEW gone, Arc!Strand(gone)
  PROVE  /\ stranded' \subseteq Memories /\ stranded \subseteq stranded'
         /\ \A n \in DOMAIN attested : attested[n] \in gone => attested[n] \in stranded'
BY DEF Arc!Strand, ArcInv, Arc!TypeOK

\* Opening, closing and registering.
LEMMA ArcOpenClose ==
  ASSUME ArcInv, Arc!Open \/ Arc!Close \/ \E r \in Repositories : Arc!Register(r)
  PROVE  ArcInv'
<1>1. /\ memory' = memory /\ evidence' = evidence /\ cites' = cites /\ attested' = attested
      /\ authority' = authority /\ used' = used /\ spoiled' = spoiled
      /\ sweep' = sweep \/ sweep' = Arc!Idle
  BY DEF Arc!Open, Arc!Close, Arc!Register, Arc!graph
<1>2. stranded' \subseteq Memories /\ AttestedKept'
  <2>1. CASE Arc!Close
    <3>1. Arc!Strand(sweep.gone)
      BY <2>1 DEF Arc!Close
    <3> QED
      BY <1>1, <3>1, ArcStrand DEF ArcInv, AttestedKept
  <2>2. CASE ~Arc!Close
    <3>1. sweep' = sweep /\ stranded' = stranded
      BY <2>2 DEF Arc!Open, Arc!Register
    <3> QED
      BY <1>1, <3>1 DEF ArcInv, Arc!TypeOK, AttestedKept
  <2> QED
    BY <2>1, <2>2
<1>3. Arc!TypeOK'
  <2>1. marker' \in {"none", "previous", "current"} /\ opened' \in BOOLEAN
        /\ declared' \subseteq Repositories /\ purged' \subseteq Repositories
    BY DEF ArcInv, Arc!TypeOK, Arc!Open, Arc!Close, Arc!Register
  <2>2. sweep' \in Sweeps
    BY <1>1, IdleSweeps DEF ArcInv, Arc!TypeOK, Sweeps
  <2> QED
    BY <1>1, <1>2, <2>1, <2>2 DEF ArcInv, Arc!TypeOK, Sweeps
<1>4. Swept' /\ sweep'.gone \subseteq sweep.gone
  BY <1>1 DEF ArcInv, Swept, Arc!Idle
<1> QED
  BY <1>1, <1>2, <1>3, <1>4, ArcGraphKept

\* The steps of a purge that delete nothing.
LEMMA ArcSweepControl ==
  ASSUME ArcInv,
         \/ \E r \in Repositories : Arc!BeginPurge(r)
         \/ Arc!ListMemories \/ Arc!MemoriesDone \/ Arc!ListLinks \/ Arc!Verify
         \/ Arc!DeleteRepository
  PROVE  ArcInv'
<1>1. /\ memory' = memory /\ evidence' = evidence /\ cites' = cites /\ attested' = attested
      /\ authority' = authority /\ used' = used /\ spoiled' = spoiled
      /\ marker' = marker /\ opened' = opened
      /\ declared' \in SUBSET Repositories /\ purged' \in SUBSET Repositories
  BY DEF ArcInv, Arc!TypeOK, Arc!BeginPurge, Arc!ListMemories, Arc!MemoriesDone, Arc!ListLinks,
         Arc!Verify, Arc!DeleteRepository, Arc!graph
<1>0. stranded' \subseteq Memories /\ stranded \subseteq stranded'
  <2>1. CASE stranded' = stranded
    BY <2>1 DEF ArcInv, Arc!TypeOK
  <2>2. CASE Arc!Strand(sweep.gone)
    BY <2>2, ArcStrand
  <2> QED
    BY <2>1, <2>2 DEF Arc!BeginPurge, Arc!ListMemories, Arc!MemoriesDone, Arc!ListLinks, Arc!Verify,
                      Arc!DeleteRepository
<1>2. sweep \in Sweeps
  BY DEF ArcInv, Arc!TypeOK, Sweeps
<1>3. sweep' \in Sweeps /\ sweep'.gone \subseteq sweep.gone /\ Swept'
  <2>0. ASSUME sweep' = Arc!Idle
        PROVE  sweep' \in Sweeps /\ sweep'.gone \subseteq sweep.gone /\ Swept'
    BY <2>0, IdleSweeps DEF Swept
  <2>1. CASE \E r \in Repositories : Arc!BeginPurge(r)
    <3>1. PICK r \in Repositories : sweep' = [Arc!Idle EXCEPT !.at = "list", !.repo = r]
      BY <2>1 DEF Arc!BeginPurge
    <3>2. sweep'.at = "list" /\ sweep'.gone = {}
      BY <3>1 DEF Arc!Idle
    <3> QED
      BY <3>1, <3>2, IdleSweeps DEF Swept
  <2>2. CASE Arc!ListMemories
    <3>1. PICK left : left = {m \in DOMAIN memory : memory[m].repo = sweep.repo}
      OBVIOUS
    <3>2. left \in SUBSET Memories
      BY <3>1 DEF ArcInv, Arc!TypeOK
    <3>3. CASE sweep' = [sweep EXCEPT !.at = "delete", !.todo = left]
      <4>1. sweep' \in Sweeps /\ sweep'.gone = sweep.gone
        BY <1>2, <3>2, <3>3 DEF Arc!Steps, Sweeps
      <4>2. sweep'.at = "delete" /\ sweep'.todo = left /\ sweep'.repo = sweep.repo
        BY <1>2, <3>3 DEF Sweeps
      <4> QED
        BY <1>1, <3>1, <4>1, <4>2 DEF Swept
    <3>4. CASE Arc!Err("verify")
      BY <1>2, <3>4 DEF Arc!Err, Arc!Steps, Sweeps, Swept
    <3> QED
      BY <2>2, <3>1, <3>3, <3>4 DEF Arc!ListMemories
  <2>3. CASE Arc!MemoriesDone
    BY <1>1, <1>2, <2>3 DEF Arc!MemoriesDone, Arc!Move, Arc!Steps, Swept, ArcInv, Sweeps
  <2>4. CASE Arc!ListLinks
    BY <1>2, <2>4 DEF Arc!ListLinks, Arc!Move, Arc!Err, Arc!Steps, Swept, Sweeps
  <2>5. CASE Arc!Verify
    <3>1. CASE ~Arc!Residual /\ Arc!Move("record")
      <4>1. /\ sweep' \in Sweeps /\ sweep'.gone = sweep.gone /\ sweep'.at = "record"
            /\ sweep'.repo = sweep.repo
        BY <1>2, <3>1 DEF Arc!Move, Arc!Steps, Sweeps
      <4> QED
        BY <1>1, <3>1, <4>1 DEF Arc!Residual, Arc!Spent, Swept
    <3> QED
      BY <2>0, <2>5, <3>1 DEF Arc!Verify
  <2>6. CASE Arc!DeleteRepository
    BY <2>0, <2>6 DEF Arc!DeleteRepository
  <2> QED
    BY <2>1, <2>2, <2>3, <2>4, <2>5, <2>6
<1>4. Arc!TypeOK'
  BY <1>0, <1>1, <1>3 DEF ArcInv, Arc!TypeOK, Sweeps
<1>5. AttestedKept'
  <2>1. CASE Arc!Verify \/ Arc!DeleteRepository
    <3>1. CASE sweep' = sweep \/ sweep'.gone = sweep.gone
      BY <1>0, <1>1, <3>1 DEF ArcInv, AttestedKept
    <3>2. CASE Arc!Verify /\ sweep' = Arc!Idle /\ Arc!Strand(sweep.gone)
      BY <1>1, <3>2, ArcStrand DEF ArcInv, AttestedKept
    <3>3. CASE Arc!DeleteRepository
      <4>1. \A n \in DOMAIN attested : attested[n] \notin sweep.gone
        BY <3>3 DEF Arc!DeleteRepository, ArcInv, Swept
      <4> QED
        BY <1>0, <1>1, <4>1 DEF ArcInv, AttestedKept
    <3>4. Arc!Verify => sweep'.gone = sweep.gone \/ (sweep' = Arc!Idle /\ Arc!Strand(sweep.gone))
      BY <1>2 DEF Arc!Verify, Arc!Move, Sweeps
    <3> QED
      BY <2>1, <3>1, <3>2, <3>3, <3>4
  <2>2. CASE \E r \in Repositories : Arc!BeginPurge(r)
    <3>1. sweep.gone = {}
      BY <2>2, IdleSweeps DEF Arc!BeginPurge
    <3>2. stranded' = stranded
      BY <2>2 DEF Arc!BeginPurge
    <3> QED
      BY <1>1, <3>1, <3>2 DEF ArcInv, AttestedKept
  <2>3. CASE Arc!ListMemories \/ Arc!MemoriesDone \/ Arc!ListLinks
    <3>1. sweep'.gone = sweep.gone /\ stranded' = stranded
      BY <1>2, <2>3 DEF Arc!ListMemories, Arc!MemoriesDone, Arc!ListLinks, Arc!Move, Arc!Err, Sweeps
    <3> QED
      BY <1>1, <3>1 DEF ArcInv, AttestedKept
  <2> QED
    BY <2>1, <2>2, <2>3
<1> QED
  BY <1>1, <1>3, <1>4, <1>5, ArcGraphKept

\* With adds one entry and leaves the others.
LEMMA ArcWith ==
  ASSUME NEW f, NEW k, NEW v
  PROVE  /\ DOMAIN Arc!With(f, k, v) = DOMAIN f \cup {k}
         /\ Arc!With(f, k, v)[k] = v
         /\ \A j \in DOMAIN f \ {k} : Arc!With(f, k, v)[j] = f[j]
         /\ \A j \in DOMAIN Arc!With(f, k, v) : j # k => j \in DOMAIN f /\ Arc!With(f, k, v)[j] = f[j]
BY DEF Arc!With

LEMMA ArcStoreEvidence ==
  ASSUME ArcInv, NEW e \in Evidence, NEW r \in Repositories, Arc!StoreEvidence(e, r)
  PROVE  ArcInv'
<1>1. /\ memory' = memory /\ cites' = cites /\ attested' = attested /\ authority' = authority
      /\ sweep' = sweep /\ spoiled' = spoiled /\ stranded' = stranded
      /\ marker' = marker /\ opened' = opened
      /\ declared' = declared /\ purged' = purged /\ used' = used \cup {e}
      /\ evidence' = Arc!With(evidence, e, r) /\ e \notin used
  BY DEF Arc!StoreEvidence
<1>2. /\ DOMAIN evidence' = DOMAIN evidence \cup {e} /\ evidence'[e] = r
      /\ \A k \in DOMAIN evidence : evidence'[k] = evidence[k]
  <2>1. e \notin DOMAIN evidence
    BY <1>1 DEF ArcInv, Given
  <2> QED
    BY <1>1, <2>1 DEF Arc!With
<1>3. Arc!TypeOK'
  BY <1>1, <1>2 DEF ArcInv, Arc!TypeOK
<1>4. Given' /\ OneAuthority' /\ BeliefsKept' /\ AttestedKept' /\ Swept'
  BY <1>1, <1>2 DEF ArcInv, Given, OneAuthority, BeliefsKept, AttestedKept, Swept
<1>5. Arc!LinksSound' /\ Arc!KindsMatch' /\ Arc!AuthoritySound'
  BY <1>1, <1>2 DEF ArcInv, Arc!LinksSound, Arc!KindsMatch, Arc!AuthoritySound
<1> QED
  BY <1>3, <1>4, <1>5 DEF ArcInv

LEMMA ArcAttachEvidence ==
  ASSUME ArcInv, NEW m \in DOMAIN memory, NEW own \in SUBSET DOMAIN evidence,
         Arc!AttachEvidence(m, own)
  PROVE  ArcInv'
<1>1. /\ memory' = memory /\ evidence' = evidence /\ attested' = attested /\ authority' = authority
      /\ sweep' = sweep /\ spoiled' = spoiled /\ stranded' = stranded
      /\ marker' = marker /\ opened' = opened
      /\ declared' = declared /\ purged' = purged /\ used' = used
      /\ cites' = cites \cup ({m} \X own)
  BY DEF Arc!AttachEvidence
<1>2. \A e \in own : e \in DOMAIN evidence /\ evidence[e] = memory[m].repo
  BY DEF Arc!AttachEvidence, Arc!Citable, Arc!Resolved
<1>3. Arc!TypeOK'
  <2>1. {m} \X own \subseteq Memories \X Evidence
    BY DEF ArcInv, Arc!TypeOK
  <2> QED
    BY <1>1, <2>1 DEF ArcInv, Arc!TypeOK
<1>4. Given' /\ OneAuthority' /\ BeliefsKept' /\ AttestedKept' /\ Swept'
  BY <1>1 DEF ArcInv, Given, OneAuthority, BeliefsKept, AttestedKept, Swept
<1>5. Arc!LinksSound'
  BY <1>1, <1>2 DEF ArcInv, Arc!LinksSound
<1>6. Arc!KindsMatch' /\ Arc!AuthoritySound'
  BY <1>1 DEF ArcInv, Arc!KindsMatch, Arc!AuthoritySound
<1> QED
  BY <1>3, <1>4, <1>5, <1>6 DEF ArcInv

LEMMA ArcUpdateMemory ==
  ASSUME ArcInv, NEW m \in Memories, Arc!UpdateMemory(m) PROVE ArcInv'
<1>1. /\ evidence' = evidence /\ cites' = cites /\ attested' = attested /\ authority' = authority
      /\ sweep' = sweep /\ spoiled' = spoiled /\ stranded' = stranded
      /\ marker' = marker /\ opened' = opened
      /\ declared' = declared /\ purged' = purged /\ used' = used
      /\ m \in DOMAIN memory /\ memory' = [memory EXCEPT ![m].trashed = ~@]
  BY DEF Arc!UpdateMemory
<1>2. /\ DOMAIN memory' = DOMAIN memory
      /\ \A k \in DOMAIN memory : /\ memory'[k] \in Arc!MemoryRecord
                                  /\ memory'[k].repo = memory[k].repo
                                  /\ memory'[k].layer = memory[k].layer
                                  /\ memory'[k].kind = memory[k].kind
  BY <1>1 DEF ArcInv, Arc!TypeOK, Arc!MemoryRecord
<1>3. Arc!TypeOK'
  BY <1>1, <1>2 DEF ArcInv, Arc!TypeOK
<1>4. Given' /\ BeliefsKept' /\ AttestedKept' /\ Swept'
  BY <1>1, <1>2 DEF ArcInv, Given, BeliefsKept, AttestedKept, Swept
<1>5. Arc!LinksSound' /\ Arc!KindsMatch' /\ Arc!AuthoritySound'
  BY <1>1, <1>2 DEF ArcInv, Arc!LinksSound, Arc!KindsMatch, Arc!AuthoritySound
<1>6. OneAuthority'
  <2>1. \A l \in authority : l[1] \in DOMAIN memory
    BY DEF ArcInv, Arc!AuthoritySound
  <2> QED
    BY <1>1, <1>2, <2>1 DEF ArcInv, OneAuthority
<1> QED
  BY <1>3, <1>4, <1>5, <1>6 DEF ArcInv

\* Deleted vertices take their edges along: what is left is as sound as it was.
LEMMA ArcWithout ==
  ASSUME ArcInv, NEW gone, Arc!Without(gone), used' = used, marker' = marker, opened' = opened,
         declared' = declared, purged' = purged, spoiled' = spoiled,
         sweep' \in Sweeps, sweep'.at = sweep.at, sweep'.repo = sweep.repo,
         sweep.at = "delete" => sweep.todo \ gone \subseteq sweep'.todo,
         sweep.at = "record" => sweep'.gone = sweep.gone,
         sweep.gone \subseteq sweep'.gone,
         sweep'.gone \subseteq sweep.gone \cup (gone \cap DOMAIN memory),
         stranded' \subseteq Memories, stranded \subseteq stranded',
         \A n \in DOMAIN attested : attested[n] \in gone => attested[n] \in stranded' \cup sweep'.gone
  PROVE  ArcInv'
<1>1. /\ evidence' = evidence /\ attested' = attested
      /\ DOMAIN memory' = DOMAIN memory \ gone
      /\ \A k \in DOMAIN memory \ gone : memory'[k] = memory[k]
      /\ cites' = {l \in cites : l[1] \notin gone}
      /\ authority' = {l \in authority : l[1] \notin gone}
  BY DEF Arc!Without, Arc!Restrict
<1>2. Arc!TypeOK'
  BY <1>1 DEF ArcInv, Arc!TypeOK, Sweeps
<1>3. Given'
  BY <1>1 DEF ArcInv, Given
<1>4. Arc!LinksSound' /\ Arc!KindsMatch' /\ Arc!AuthoritySound'
  BY <1>1 DEF ArcInv, Arc!LinksSound, Arc!KindsMatch, Arc!AuthoritySound
<1>5. OneAuthority'
  BY <1>1 DEF ArcInv, OneAuthority, Arc!AuthoritySound
<1>6. BeliefsKept'
  BY <1>1 DEF ArcInv, BeliefsKept
<1>7. Swept'
  BY <1>1 DEF ArcInv, Swept
<1>8. AttestedKept'
  BY <1>1 DEF ArcInv, AttestedKept
<1> QED
  BY <1>2, <1>3, <1>4, <1>5, <1>6, <1>7, <1>8 DEF ArcInv

LEMMA ArcDeleteMemory ==
  ASSUME ArcInv, NEW m \in Memories, Arc!DeleteMemory(m) PROVE ArcInv'
<1>1. /\ Arc!Without({m}) /\ used' = used /\ marker' = marker /\ opened' = opened
      /\ declared' = declared /\ purged' = purged /\ spoiled' = spoiled /\ sweep' = sweep
      /\ Arc!Strand({m})
  BY DEF Arc!DeleteMemory
<1>2. sweep \in Sweeps
  BY DEF ArcInv, Arc!TypeOK, Sweeps
<1>3. /\ stranded' \subseteq Memories /\ stranded \subseteq stranded'
      /\ \A n \in DOMAIN attested : attested[n] \in {m} => attested[n] \in stranded'
  BY <1>1, ArcStrand
<1> QED
  BY <1>1, <1>2, <1>3, ArcWithout

LEMMA ArcPurgeMemory == ASSUME ArcInv, Arc!PurgeMemory PROVE ArcInv'
<1>1. PICK m \in sweep.todo :
        \/ /\ m \in DOMAIN memory
           /\ Arc!Without({m})
           /\ sweep' = [sweep EXCEPT !.todo = @ \ {m}, !.gone = @ \cup {m}]
           /\ UNCHANGED spoiled
        \/ /\ sweep' = [sweep EXCEPT !.todo = @ \ {m}, !.errors = TRUE]
           /\ spoiled' = spoiled \cup ({m} \cap DOMAIN memory)
           /\ UNCHANGED Arc!graph
  BY DEF Arc!PurgeMemory
<1>2. /\ sweep.at = "delete" /\ used' = used /\ marker' = marker /\ opened' = opened
      /\ declared' = declared /\ purged' = purged /\ sweep \in Sweeps /\ m \in Memories
      /\ stranded' = stranded /\ stranded \subseteq Memories
  BY DEF Arc!PurgeMemory, ArcInv, Arc!TypeOK, Sweeps
<1>3. CASE /\ m \in DOMAIN memory
           /\ Arc!Without({m})
           /\ sweep' = [sweep EXCEPT !.todo = @ \ {m}, !.gone = @ \cup {m}]
           /\ UNCHANGED spoiled
  <2>1. /\ sweep' \in Sweeps /\ sweep'.at = sweep.at /\ sweep'.repo = sweep.repo
        /\ sweep'.todo = sweep.todo \ {m} /\ sweep'.gone = sweep.gone \cup {m}
    BY <1>2, <1>3 DEF Sweeps
  <2> QED
    BY <1>2, <1>3, <2>1, ArcWithout
<1>4. CASE /\ sweep' = [sweep EXCEPT !.todo = @ \ {m}, !.errors = TRUE]
           /\ spoiled' = spoiled \cup ({m} \cap DOMAIN memory)
           /\ UNCHANGED Arc!graph
  <2>1. /\ sweep' \in Sweeps /\ sweep'.at = sweep.at /\ sweep'.repo = sweep.repo
        /\ sweep'.todo = sweep.todo \ {m} /\ sweep'.gone = sweep.gone
    BY <1>2, <1>4 DEF Sweeps
  <2>2. /\ memory' = memory /\ evidence' = evidence /\ cites' = cites /\ attested' = attested
        /\ authority' = authority
    BY <1>4 DEF Arc!graph
  <2>3. Arc!TypeOK'
    BY <1>2, <1>4, <2>1, <2>2 DEF ArcInv, Arc!TypeOK, Sweeps
  <2>4. Given' /\ OneAuthority' /\ BeliefsKept' /\ AttestedKept' /\ Swept'
    BY <1>2, <1>4, <2>1, <2>2
       DEF ArcInv, Given, OneAuthority, BeliefsKept, AttestedKept, Swept
  <2>5. Arc!LinksSound' /\ Arc!KindsMatch' /\ Arc!AuthoritySound'
    BY <2>2 DEF ArcInv, Arc!LinksSound, Arc!KindsMatch, Arc!AuthoritySound
  <2> QED
    BY <2>3, <2>4, <2>5 DEF ArcInv
<1> QED
  BY <1>1, <1>3, <1>4

\* The memory, the evidence it is captured with, its citations and its attestation go in one
\* transaction, under ids that were never given out.
LEMMA ArcStoreMemory ==
  ASSUME ArcInv, NEW m \in Memories, NEW r \in Repositories, NEW layer \in Arc!Layers,
         NEW kind \in Arc!Kinds, NEW sources \in SUBSET DOMAIN memory,
         NEW own \in SUBSET DOMAIN evidence, NEW new \in Evidence \cup {Absent}, new \notin used,
         NEW nonce \in Nonces \cup {Absent},
         Arc!StoreMemory(m, r, layer, kind, sources, own, new, nonce)
  PROVE  ArcInv'
<1> DEFINE row == [repo |-> r, layer |-> layer, kind |-> kind, sources |-> sources, trashed |-> FALSE]
<1>1. PICK known, brought :
        /\ known = IF new = Absent THEN evidence ELSE Arc!With(evidence, new, r)
        /\ brought = IF new = Absent THEN own ELSE {new}
        /\ Arc!Citable(r, layer, sources, brought, known)
        /\ memory' = Arc!With(memory, m, row)
        /\ evidence' = known
        /\ cites' = cites \cup ({m} \X Arc!Resolved(sources, brought))
  BY DEF Arc!StoreMemory
<1> HIDE DEF row
<1>2. row \in Arc!MemoryRecord
  BY DEF row, Arc!MemoryRecord, ArcInv, Arc!TypeOK
<1>3. /\ row.repo = r /\ row.layer = layer /\ row.kind = kind
  BY DEF row
<1>4. /\ Arc!Writable(r) /\ m \notin used /\ (kind # "none" <=> layer = "semantic")
      /\ IF kind = "prohibition" THEN nonce \in Nonces \ DOMAIN attested ELSE nonce = Absent
      /\ attested' = IF nonce = Absent THEN attested ELSE Arc!With(attested, nonce, m)
      /\ authority' = IF nonce = Absent THEN authority ELSE authority \cup {<<m, nonce>>}
      /\ used' = used \cup {m} \cup (IF new = Absent THEN {} ELSE {new})
      /\ marker' = marker /\ opened' = opened /\ declared' = declared /\ purged' = purged
      /\ sweep' = sweep /\ spoiled' = spoiled /\ stranded' = stranded
  BY DEF Arc!StoreMemory
<1>5. m \notin DOMAIN memory /\ new \notin DOMAIN evidence
  BY <1>4 DEF ArcInv, Given
<1>6. /\ DOMAIN memory' = DOMAIN memory \cup {m} /\ memory'[m] = row
      /\ \A k \in DOMAIN memory : memory'[k] = memory[k]
  BY <1>1, <1>5 DEF Arc!With
<1>7. /\ DOMAIN evidence' = DOMAIN evidence \cup (IF new = Absent THEN {} ELSE {new})
      /\ \A k \in DOMAIN evidence : evidence'[k] = evidence[k]
      /\ new # Absent => evidence'[new] = r
  BY <1>1, <1>5 DEF Arc!With
<1>8. /\ layer = "semantic" => Arc!Resolved(sources, brought) # {}
      /\ \A e \in Arc!Resolved(sources, brought) : e \in DOMAIN evidence' /\ evidence'[e] = r
  BY <1>1 DEF Arc!Citable
<1>9. DOMAIN evidence' \subseteq Evidence
  BY <1>7 DEF ArcInv, Arc!TypeOK
<1>10. Absent \notin Nonces
  BY StoresAssumption
<1>11. /\ nonce # Absent => /\ DOMAIN attested' = DOMAIN attested \cup {nonce} /\ attested'[nonce] = m
                            /\ nonce \notin DOMAIN attested
                            /\ \A n \in DOMAIN attested : attested'[n] = attested[n]
       /\ nonce = Absent => attested' = attested
       /\ kind = "prohibition" <=> nonce # Absent
  <2>1. nonce # Absent => nonce \notin DOMAIN attested
    BY <1>4
  <2>2. nonce # Absent => /\ DOMAIN attested' = DOMAIN attested \cup {nonce} /\ attested'[nonce] = m
                          /\ \A n \in DOMAIN attested : attested'[n] = attested[n]
    BY <1>4, <2>1 DEF Arc!With
  <2>3. kind = "prohibition" <=> nonce # Absent
    BY <1>4, <1>10
  <2> QED
    BY <1>4, <2>1, <2>2, <2>3
<1>12. Arc!TypeOK'
  <2>1. DOMAIN memory' \subseteq Memories /\ \A k \in DOMAIN memory' : memory'[k] \in Arc!MemoryRecord
    BY <1>2, <1>6 DEF ArcInv, Arc!TypeOK
  <2>2. \A e \in DOMAIN evidence' : evidence'[e] \in Repositories
    BY <1>7 DEF ArcInv, Arc!TypeOK
  <2>3. cites' \subseteq Memories \X Evidence
    BY <1>1, <1>8, <1>9 DEF ArcInv, Arc!TypeOK
  <2>4. DOMAIN attested' \subseteq Nonces /\ \A n \in DOMAIN attested' : attested'[n] \in Memories
    BY <1>11 DEF ArcInv, Arc!TypeOK
  <2>5. authority' \subseteq Memories \X Nonces
    BY <1>4 DEF ArcInv, Arc!TypeOK
  <2>6. used' \subseteq Memories \cup Evidence
    BY <1>4 DEF ArcInv, Arc!TypeOK
  <2> QED
    BY <1>4, <1>9, <2>1, <2>2, <2>3, <2>4, <2>5, <2>6 DEF ArcInv, Arc!TypeOK
<1>13. Given'
  <2>1. \A n \in DOMAIN attested' : attested'[n] \in used'
    BY <1>4, <1>11 DEF ArcInv, Given
  <2>2. sweep'.gone \subseteq used' /\ sweep'.gone \cap DOMAIN memory' = {}
    BY <1>4, <1>6 DEF ArcInv, Given
  <2>3. DOMAIN memory' \subseteq used' /\ DOMAIN evidence' \subseteq used'
    BY <1>4, <1>6, <1>7 DEF ArcInv, Given
  <2> QED
    BY <2>1, <2>2, <2>3 DEF Given
<1>14. Arc!LinksSound'
  <2>1. ASSUME NEW l \in cites' PROVE l[1] \in DOMAIN memory' /\ l[2] \in DOMAIN evidence'
                                      /\ memory'[l[1]].repo = evidence'[l[2]]
    <3>1. CASE l \in cites
      BY <1>6, <1>7, <3>1 DEF ArcInv, Arc!LinksSound
    <3>2. CASE l \in {m} \X Arc!Resolved(sources, brought)
      BY <1>3, <1>6, <1>8, <3>2
    <3> QED
      BY <1>1, <2>1, <3>1, <3>2
  <2> QED
    BY <2>1 DEF Arc!LinksSound
<1>15. Arc!KindsMatch'
  BY <1>3, <1>4, <1>6 DEF ArcInv, Arc!KindsMatch
<1>16. Arc!AuthoritySound'
  <2>1. ASSUME NEW l \in authority'
        PROVE l[1] \in DOMAIN memory' /\ l[2] \in DOMAIN attested' /\ attested'[l[2]] = l[1]
    <3>1. CASE l \in authority
      BY <1>6, <1>11, <3>1 DEF ArcInv, Arc!AuthoritySound
    <3>2. CASE nonce # Absent /\ l = <<m, nonce>>
      BY <1>6, <1>11, <3>2
    <3> QED
      BY <1>4, <2>1, <3>1, <3>2
  <2> QED
    BY <2>1 DEF Arc!AuthoritySound
<1>17. OneAuthority'
  <2>1. \A l \in authority : l[1] \in DOMAIN memory /\ l[1] # m
    BY <1>5 DEF ArcInv, Arc!AuthoritySound
  <2>2. CASE nonce = Absent
    BY <1>3, <1>4, <1>6, <1>11, <2>1, <2>2 DEF ArcInv, OneAuthority
  <2>3. CASE nonce # Absent
    <3>1. authority' = authority \cup {<<m, nonce>>} /\ kind = "prohibition"
      BY <1>4, <1>11, <2>3
    <3>2. \A l \in authority' : memory'[l[1]].kind = "prohibition"
      BY <1>3, <1>6, <2>1, <3>1 DEF ArcInv, OneAuthority
    <3>3. \A l, k \in authority' : l[1] = k[1] => l = k
      BY <2>1, <3>1 DEF ArcInv, OneAuthority
    <3>4. ASSUME NEW k \in DOMAIN memory', memory'[k].kind = "prohibition"
          PROVE  \E l \in authority' : l[1] = k
      <4>1. CASE k = m
        BY <3>1, <4>1, <<m, nonce>>[1] = m
      <4>2. CASE k # m
        BY <1>6, <3>1, <3>4, <4>2 DEF ArcInv, OneAuthority
      <4> QED
        BY <4>1, <4>2
    <3> QED
      BY <3>2, <3>3, <3>4 DEF OneAuthority
  <2> QED
    BY <2>2, <2>3
<1>18. BeliefsKept'
  <2>1. ASSUME NEW k \in DOMAIN memory', memory'[k].layer = "semantic"
        PROVE  (\E e \in Evidence : <<k, e>> \in cites') \/ k \in spoiled'
    <3>1. CASE k = m
      <4>1. PICK e \in Arc!Resolved(sources, brought) : TRUE
        BY <1>3, <1>6, <1>8, <2>1, <3>1
      <4>2. e \in Evidence /\ <<k, e>> \in cites'
        BY <1>1, <1>8, <1>9, <3>1
      <4> QED
        BY <4>2
    <3>2. CASE k # m
      BY <1>1, <1>4, <1>6, <2>1, <3>2 DEF ArcInv, BeliefsKept
    <3> QED
      BY <3>1, <3>2
  <2> QED
    BY <2>1 DEF BeliefsKept
<1>19. Swept'
  <2>1. sweep.repo # r
    BY <1>4 DEF Arc!Writable
  <2>2. \A n \in DOMAIN attested' : (n \in DOMAIN attested /\ attested'[n] = attested[n]) \/ attested'[n] = m
    BY <1>11
  <2>3. m \notin sweep.gone
    BY <1>4 DEF ArcInv, Given
  <2>4. \A k \in DOMAIN memory' : memory'[k].repo = sweep.repo => k \in DOMAIN memory /\ memory'[k] = memory[k]
    BY <1>3, <1>6, <2>1
  <2> QED
    BY <1>4, <2>2, <2>3, <2>4 DEF ArcInv, Swept
<1>20. AttestedKept'
  <2>1. ASSUME NEW n \in DOMAIN attested'
        PROVE  attested'[n] \in DOMAIN memory' \cup stranded' \cup sweep'.gone
    <3>1. CASE n \in DOMAIN attested /\ attested'[n] = attested[n]
      BY <1>4, <1>6, <3>1 DEF ArcInv, AttestedKept
    <3>2. CASE attested'[n] = m
      BY <1>6, <3>2
    <3> QED
      BY <1>11, <2>1, <3>1, <3>2
  <2> QED
    BY <2>1 DEF AttestedKept
<1> QED
  BY <1>12, <1>13, <1>14, <1>15, <1>16, <1>17, <1>18, <1>19, <1>20 DEF ArcInv

\* The evidence of a repository goes when all that is left of its memories are set aside.
LEMMA ArcDeleteEvidence == ASSUME ArcInv, Arc!DeleteEvidence PROVE ArcInv'
<1>1. /\ sweep.at = "evidence" /\ sweep \in Sweeps
      /\ used' = used /\ spoiled' = spoiled /\ stranded' = stranded
      /\ marker' = marker /\ opened' = opened
      /\ declared' = declared /\ purged' = purged
      /\ memory' = memory /\ attested' = attested /\ authority' = authority
  BY DEF Arc!DeleteEvidence, ArcInv, Arc!TypeOK, Sweeps, Arc!graph
<1>2. CASE (Arc!Move("links") \/ Arc!Err("links")) /\ UNCHANGED Arc!graph
  <2>1. /\ sweep' \in Sweeps /\ sweep'.gone = sweep.gone /\ sweep'.at = "links"
    BY <1>1, <1>2 DEF Arc!Move, Arc!Err, Sweeps, Arc!Steps
  <2>2. evidence' = evidence /\ cites' = cites
    BY <1>2 DEF Arc!graph
  <2>3. Arc!TypeOK' /\ AttestedKept' /\ Swept'
    BY <1>1, <2>1, <2>2 DEF ArcInv, Arc!TypeOK, Sweeps, AttestedKept, Swept
  <2> QED
    BY <1>1, <2>1, <2>2, <2>3, ArcGraphKept
<1>3. CASE \E e \in DOMAIN evidence : /\ evidence[e] = sweep.repo
                                      /\ evidence' = Arc!Restrict(evidence, DOMAIN evidence \ {e})
                                      /\ cites' = {l \in cites : l[2] # e}
                                      /\ sweep' = sweep
  <2>1. PICK e \in DOMAIN evidence : /\ evidence[e] = sweep.repo
                                     /\ evidence' = Arc!Restrict(evidence, DOMAIN evidence \ {e})
                                     /\ cites' = {l \in cites : l[2] # e}
                                     /\ sweep' = sweep
    BY <1>3
  <2>2. /\ DOMAIN evidence' = DOMAIN evidence \ {e}
        /\ \A k \in DOMAIN evidence \ {e} : evidence'[k] = evidence[k]
    BY <2>1 DEF Arc!Restrict
  <2>3. Arc!TypeOK'
    BY <1>1, <2>1, <2>2 DEF ArcInv, Arc!TypeOK
  <2>4. Given' /\ OneAuthority' /\ AttestedKept' /\ Swept'
    BY <1>1, <2>1, <2>2 DEF ArcInv, Given, OneAuthority, AttestedKept, Swept
  <2>5. Arc!LinksSound' /\ Arc!KindsMatch' /\ Arc!AuthoritySound'
    BY <1>1, <2>1, <2>2 DEF ArcInv, Arc!LinksSound, Arc!KindsMatch, Arc!AuthoritySound
  <2>6. BeliefsKept'
    <3>1. ASSUME NEW m \in DOMAIN memory, memory[m].layer = "semantic", m \notin spoiled
          PROVE  \E k \in Evidence : <<m, k>> \in cites'
      <4>1. PICK k \in Evidence : <<m, k>> \in cites
        BY <3>1 DEF ArcInv, BeliefsKept
      <4>2. memory[m].repo # sweep.repo
        BY <1>1, <3>1 DEF ArcInv, Swept
      <4>3. memory[m].repo = evidence[k]
        BY <4>1 DEF ArcInv, Arc!LinksSound
      <4>4. <<m, k>> \in cites'
        BY <2>1, <4>1, <4>2, <4>3
      <4> QED
        BY <4>4
    <3> QED
      BY <1>1, <3>1 DEF BeliefsKept
  <2> QED
    BY <2>3, <2>4, <2>5, <2>6 DEF ArcInv
<1> QED
  BY <1>2, <1>3 DEF Arc!DeleteEvidence

\* The attestations of memories that went authorise nothing that is left.
LEMMA ArcDeleteAttestations == ASSUME ArcInv, Arc!DeleteAttestations PROVE ArcInv'
<1>1. /\ sweep.at = "attestations" /\ sweep \in Sweeps
      /\ used' = used /\ spoiled' = spoiled /\ stranded' = stranded
      /\ marker' = marker /\ opened' = opened
      /\ declared' = declared /\ purged' = purged
      /\ memory' = memory /\ evidence' = evidence /\ cites' = cites /\ authority' = authority
  BY DEF Arc!DeleteAttestations, ArcInv, Arc!TypeOK, Sweeps
<1>2. CASE (Arc!Move("verify") \/ Arc!Err("verify")) /\ attested' = attested
  <2>1. /\ sweep' \in Sweeps /\ sweep'.gone = sweep.gone /\ sweep'.at = "verify"
    BY <1>1, <1>2 DEF Arc!Move, Arc!Err, Sweeps, Arc!Steps
  <2>2. Arc!TypeOK' /\ AttestedKept' /\ Swept'
    BY <1>1, <1>2, <2>1 DEF ArcInv, Arc!TypeOK, Sweeps, AttestedKept, Swept
  <2> QED
    BY <1>1, <1>2, <2>1, <2>2, ArcGraphKept
<1>3. CASE \E n \in Arc!Spent : attested' = Arc!Restrict(attested, DOMAIN attested \ {n}) /\ sweep' = sweep
  <2>1. PICK n \in Arc!Spent : attested' = Arc!Restrict(attested, DOMAIN attested \ {n}) /\ sweep' = sweep
    BY <1>3
  <2>2. /\ DOMAIN attested' = DOMAIN attested \ {n}
        /\ \A k \in DOMAIN attested \ {n} : attested'[k] = attested[k]
        /\ attested[n] \in sweep.gone
    BY <2>1 DEF Arc!Restrict, Arc!Spent
  <2>3. Arc!TypeOK'
    BY <1>1, <2>1, <2>2 DEF ArcInv, Arc!TypeOK
  <2>4. Given' /\ OneAuthority' /\ Swept' /\ BeliefsKept' /\ AttestedKept'
    BY <1>1, <2>1, <2>2 DEF ArcInv, Given, OneAuthority, Swept, BeliefsKept, AttestedKept
  <2>5. Arc!AuthoritySound'
    BY <1>1, <2>1, <2>2 DEF ArcInv, Given, Arc!AuthoritySound
  <2>6. Arc!LinksSound' /\ Arc!KindsMatch'
    BY <1>1 DEF ArcInv, Arc!LinksSound, Arc!KindsMatch
  <2> QED
    BY <2>3, <2>4, <2>5, <2>6 DEF ArcInv
<1> QED
  BY <1>2, <1>3 DEF Arc!DeleteAttestations

LEMMA ArcStep == ASSUME ArcInv, Arc!Next PROVE ArcInv'
<1>1. CASE Arc!Open \/ Arc!Close
  BY <1>1, ArcOpenClose
<1>2. CASE Arc!Write
  <2>1. CASE \E r \in Repositories : Arc!Register(r)
    BY <2>1, ArcOpenClose
  <2>2. CASE \E e \in Evidence, r \in Repositories : Arc!StoreEvidence(e, r)
    BY <2>2, ArcStoreEvidence
  <2>3. CASE \E m \in Memories \ used, r \in Repositories, layer \in Arc!Layers :
               \E sources \in SUBSET DOMAIN memory, own \in SUBSET DOMAIN evidence,
                  kind \in IF layer = "semantic" THEN {"fact", "prohibition"} ELSE {"none"},
                  new \in (Evidence \ used) \cup {Absent}, nonce \in Nonces \cup {Absent} :
                  Arc!StoreMemory(m, r, layer, kind, sources, own, new, nonce)
    <3>1. Absent \notin used
      BY StoresAssumption DEF ArcInv, Arc!TypeOK
    <3>2. \A layer : (IF layer = "semantic" THEN {"fact", "prohibition"} ELSE {"none"}) \subseteq Arc!Kinds
      BY DEF Arc!Kinds
    <3> QED
      BY <2>3, <3>1, <3>2, ArcStoreMemory
  <2>4. CASE \E m \in DOMAIN memory, own \in SUBSET DOMAIN evidence : Arc!AttachEvidence(m, own)
    BY <2>4, ArcAttachEvidence
  <2>5. CASE \E m \in Memories : Arc!UpdateMemory(m) \/ Arc!DeleteMemory(m)
    BY <2>5, ArcUpdateMemory, ArcDeleteMemory
  <2> QED
    BY <1>2, <2>1, <2>2, <2>3, <2>4, <2>5 DEF Arc!Write
<1>3. CASE Arc!PurgeStep
  BY <1>3, ArcSweepControl, ArcPurgeMemory, ArcDeleteEvidence, ArcDeleteAttestations
     DEF Arc!PurgeStep
<1> QED
  BY <1>1, <1>2, <1>3 DEF Arc!Next

LEMMA ArcStutter == ASSUME ArcInv, UNCHANGED arcade PROVE ArcInv'
<1>1. /\ memory' = memory /\ evidence' = evidence /\ cites' = cites /\ attested' = attested
      /\ authority' = authority /\ used' = used /\ spoiled' = spoiled /\ stranded' = stranded /\ marker' = marker
      /\ opened' = opened /\ declared' = declared /\ purged' = purged /\ sweep' = sweep
  BY DEF arcade
<1>2. Arc!TypeOK' /\ AttestedKept' /\ Swept'
  BY <1>1 DEF ArcInv, Arc!TypeOK, AttestedKept, Swept
<1> QED
  BY <1>1, <1>2, ArcGraphKept

\* The record of a purge that ends is deleted only from a state that holds nothing of it.
LEMMA ArcPurged == ASSUME ArcInv, Arc!Next PROVE ArcadePurges
<1>1. SUFFICES ASSUME sweep.repo \in declared \ declared'
               PROVE  /\ \A m \in DOMAIN memory' : memory'[m].repo # sweep.repo
                      /\ \A n \in DOMAIN attested' : attested'[n] \notin sweep.gone
  BY DEF ArcadePurges
<1>2. Arc!DeleteRepository
  <2>1. ~Arc!Open /\ ~Arc!Close /\ ~\E r \in Repositories : Arc!Register(r)
    BY <1>1 DEF Arc!Open, Arc!Close, Arc!Register
  <2>2. /\ ~\E e \in Evidence, r \in Repositories : Arc!StoreEvidence(e, r)
        /\ \A m, r, layer, kind, sources, own, new, nonce :
             ~Arc!StoreMemory(m, r, layer, kind, sources, own, new, nonce)
        /\ \A m, own : ~Arc!AttachEvidence(m, own)
        /\ \A m : ~Arc!UpdateMemory(m) /\ ~Arc!DeleteMemory(m)
    BY <1>1 DEF Arc!StoreEvidence, Arc!StoreMemory, Arc!AttachEvidence, Arc!UpdateMemory,
                Arc!DeleteMemory
  <2>3. ~Arc!Write
    BY <2>1, <2>2 DEF Arc!Write
  <2>4. /\ \A r : ~Arc!BeginPurge(r)
        /\ ~Arc!ListMemories /\ ~Arc!PurgeMemory /\ ~Arc!MemoriesDone
        /\ ~Arc!DeleteEvidence /\ ~Arc!ListLinks /\ ~Arc!DeleteAttestations /\ ~Arc!Verify
    BY <1>1 DEF Arc!BeginPurge, Arc!ListMemories, Arc!PurgeMemory, Arc!MemoriesDone,
                Arc!DeleteEvidence, Arc!ListLinks, Arc!DeleteAttestations, Arc!Verify
  <2> QED
    BY <2>1, <2>3, <2>4 DEF Arc!Next, Arc!PurgeStep
<1>3. memory' = memory /\ attested' = attested /\ sweep.at = "record"
  BY <1>2 DEF Arc!DeleteRepository, Arc!graph
<1> QED
  BY <1>3 DEF ArcInv, Swept

\* The instance counts as FiniteSets does.
LEMMA ArcCardinality == \A set : Arc!Cardinality(set) = Cardinality(set)
BY DEF Arc!Cardinality, Cardinality

\* A new file that is not finished, one as it was found, or a sound one.
LEMMA SqlInvReopens == SqlInv => SqliteReopens
BY DEF SqlInv, FileNew, FileSound, SqliteReopens, Unfinished, Sql!Openable

\* What the invariant says is what opening the store checks, the two leftovers aside.
LEMMA ArcInvReopens == ArcInv => ArcadeReopens
<1> SUFFICES ASSUME ArcInv PROVE ArcadeReopens
  OBVIOUS
<1>1. Arc!AuthorityComplete
  <2> SUFFICES ASSUME NEW m \in DOMAIN memory
               PROVE  Cardinality({l \in authority : l[1] = m})
                        = IF memory[m].kind = "prohibition" THEN 1 ELSE 0
    BY ArcCardinality DEF Arc!AuthorityComplete
  <2>1. CASE memory[m].kind = "prohibition"
    <3>1. PICK l \in authority : l[1] = m
      BY <2>1 DEF ArcInv, OneAuthority
    <3>2. {k \in authority : k[1] = m} = {l}
      BY <3>1 DEF ArcInv, OneAuthority
    <3> QED
      BY <2>1, <3>2, FS_Singleton
  <2>2. CASE memory[m].kind # "prohibition"
    <3>1. {k \in authority : k[1] = m} = {}
      BY <2>2 DEF ArcInv, OneAuthority
    <3> QED
      BY <2>2, <3>1, FS_EmptySet
  <2> QED
    BY <2>1, <2>2
<1>2. Uncited \subseteq spoiled
  BY DEF ArcInv, BeliefsKept, Uncited, Arc!CitedBy
<1>3. Orphaned \subseteq stranded \cup sweep.gone
  BY DEF ArcInv, AttestedKept, Orphaned
<1> QED
  BY <1>1, <1>2, <1>3 DEF ArcInv, ArcadeReopens

\* The shape of the graph, variable by variable.
GraphTyped ==
  /\ nVersion \in {"none", "previous", "current"} /\ nGoverned \in BOOLEAN
  /\ DOMAIN nMemory \subseteq Memories /\ nMemory \in [DOMAIN nMemory -> Neo!MemoryRecord]
  /\ DOMAIN nEvidence \subseteq Neo!EvidenceIds /\ nEvidence \in [DOMAIN nEvidence -> Repositories]
  /\ nCites \subseteq Memories \X Neo!EvidenceIds /\ nDeclared \subseteq Repositories

LEMMA GraphTypes ==
  /\ GraphTyped <=> Neo!IsGraph(Neo!Snapshot)
  /\ GraphTyped' <=> Neo!IsGraph(Neo!Snapshot)'
<1>1. ASSUME NEW f, NEW T, NEW B
      PROVE  (\E S \in SUBSET B : f \in [S -> T]) <=> DOMAIN f \subseteq B /\ f \in [DOMAIN f -> T]
  <2>1. ASSUME NEW S \in SUBSET B, f \in [S -> T] PROVE DOMAIN f \subseteq B /\ f \in [DOMAIN f -> T]
    BY <2>1
  <2>2. ASSUME DOMAIN f \subseteq B, f \in [DOMAIN f -> T] PROVE \E S \in SUBSET B : f \in [S -> T]
    BY <2>2
  <2> QED
    BY <2>1, <2>2
<1>2. /\ (\E S \in SUBSET Memories : nMemory \in [S -> Neo!MemoryRecord])
           <=> DOMAIN nMemory \subseteq Memories /\ nMemory \in [DOMAIN nMemory -> Neo!MemoryRecord]
      /\ (\E S \in SUBSET Neo!EvidenceIds : nEvidence \in [S -> Repositories])
           <=> DOMAIN nEvidence \subseteq Neo!EvidenceIds /\ nEvidence \in [DOMAIN nEvidence -> Repositories]
  BY <1>1
<1>3. /\ (\E S \in SUBSET Memories : nMemory' \in [S -> Neo!MemoryRecord])
           <=> DOMAIN nMemory' \subseteq Memories /\ nMemory' \in [DOMAIN nMemory' -> Neo!MemoryRecord]
      /\ (\E S \in SUBSET Neo!EvidenceIds : nEvidence' \in [S -> Repositories])
           <=> DOMAIN nEvidence' \subseteq Neo!EvidenceIds /\ nEvidence' \in [DOMAIN nEvidence' -> Repositories]
  BY <1>1
<1>4. GraphTyped <=> Neo!IsGraph(Neo!Snapshot)
  BY <1>2 DEF GraphTyped, Neo!IsGraph, Neo!Snapshot
<1>5. GraphTyped' <=> Neo!IsGraph(Neo!Snapshot)'
  BY <1>3 DEF GraphTyped, Neo!IsGraph, Neo!Snapshot
<1> QED
  BY <1>4, <1>5

\* What can be known of a purge.
PurgeRecords ==
  [by: Procs \cup {Absent}, at: {"idle", "delete", "verify", "record"},
   repo: Repositories \cup {Absent}, todo: SUBSET Memories, errors: BOOLEAN,
   later: SUBSET Memories]

LEMMA IdlePurgeRecord == Neo!Idle \in PurgeRecords
<1>1. {} \in SUBSET Memories
  OBVIOUS
<1> QED
  BY <1>1 DEF Neo!Idle, PurgeRecords

\* The shape of the rest.
ControlTyped ==
  /\ nClient \in [Procs -> {"closed", "fresh", "older", "marked", "open"}]
  /\ nPurge \in PurgeRecords
  /\ nAdmin \in {"idle", "saved"}
  /\ nUsed \subseteq Memories \cup FewEvidence

LEMMA NeoTyped == NeoInv => GraphTyped /\ ControlTyped
BY GraphTypes DEF NeoInv, Neo!TypeOK, ControlTyped, PurgeRecords

\* A graph that was saved stays sound: ids are never taken back.
LEMMA SoundStays ==
  ASSUME NEW g, Sound(g), nUsed \subseteq nUsed' PROVE Sound(g)'
<1>1. DOMAIN g.memory \subseteq nUsed' /\ DOMAIN g.evidence \subseteq nUsed'
  BY DEF Sound, Whole
<1>2. Whole(g.governed, g.memory, g.evidence, g.cites, nUsed')
  BY <1>1 DEF Sound, Whole
<1>3. Neo!IsGraph(g)
  BY DEF Sound
<1> QED
  BY <1>2, <1>3 DEF Sound

\* What a step that leaves the backup file and the history alone has to show.
LEMMA NeoStays ==
  ASSUME NeoInv, GraphTyped', ControlTyped', nFile' = nFile, nLegacy' = nLegacy,
         nUsed \subseteq nUsed', Opened', Saved', NoneFound',
         Whole(nGoverned', nMemory', nEvidence', nCites', nUsed')
  PROVE  NeoInv'
<1>1. \A f \in nFile : Sound(f) /\ Sound(f)'
  BY SoundStays DEF NeoInv
<1>2. Neo!TypeOK'
  BY <1>1, GraphTypes DEF Neo!TypeOK, ControlTyped, PurgeRecords, Sound
<1>3. Neo4jKept'
  BY DEF NeoInv, Neo4jKept
<1> QED
  BY <1>1, <1>2, <1>3 DEF NeoInv

LEMMA NeoInit == Neo!Init => NeoInv
<1> SUFFICES ASSUME Neo!Init PROVE NeoInv
  OBVIOUS
<1>1. /\ nClient = [c \in Procs |-> "closed"] /\ nPurge = Neo!Idle /\ nAdmin = "idle" /\ nFile = {}
      /\ nLegacy = {} /\ nUsed = DOMAIN nMemory /\ nGoverned = FALSE /\ nCites = {} /\ nDeclared = {}
      /\ nEvidence = <<>>
  BY DEF Neo!Init
<1> DEFINE Legacy == /\ nVersion \in {"none", "previous", "current"} /\ DOMAIN nMemory \subseteq Memories
                     /\ \A m \in DOMAIN nMemory : nMemory[m].ids = {}
                     /\ nMemory \in [DOMAIN nMemory -> Neo!MemoryRecord]
<1>2. Legacy
  <2>1. CASE nVersion = "none" /\ nMemory = <<>>
    <3>1. <<>> \in [{} -> Neo!MemoryRecord] /\ DOMAIN <<>> = {}
      OBVIOUS
    <3> QED
      BY <2>1, <3>1
  <2>2. ASSUME NEW S \in SUBSET Memories, NEW r \in [S -> Repositories],
               NEW from \in [S -> SUBSET S], nVersion \in {"previous", "current"},
               nMemory = [m \in S |-> [repo |-> r[m], layer |-> "semantic",
                                       sources |-> from[m], trashed |-> FALSE, ids |-> {}]]
        PROVE  Legacy
    <3>1. ASSUME NEW m \in S
          PROVE  [repo |-> r[m], layer |-> "semantic", sources |-> from[m], trashed |-> FALSE,
                  ids |-> {}] \in Neo!MemoryRecord
      <4>1. from[m] \in SUBSET Memories /\ {} \in SUBSET Neo!EvidenceIds
        OBVIOUS
      <4> QED
        BY <4>1 DEF Neo!MemoryRecord, Neo!Layers
    <3> QED
      BY <2>2, <3>1
  <2> QED
    BY <2>1, <2>2 DEF Neo!Init
<1>3. <<>> \in [{} -> Repositories] /\ DOMAIN <<>> = {}
  OBVIOUS
<1>4. GraphTyped
  BY <1>1, <1>2, <1>3 DEF GraphTyped
<1>5. ControlTyped
  BY <1>1, <1>2, IdlePurgeRecord DEF ControlTyped
<1>6. Whole(nGoverned, nMemory, nEvidence, nCites, nUsed)
  BY <1>1, <1>2, <1>3 DEF Whole
<1>7. Opened /\ Saved /\ NoneFound /\ Neo4jKept
  BY <1>1 DEF Opened, Saved, NoneFound, Neo!Idle, Neo4jKept
<1>8. Neo!TypeOK
  BY <1>1, <1>4, <1>5, GraphTypes DEF Neo!TypeOK, ControlTyped, PurgeRecords
<1> QED
  BY <1>1, <1>6, <1>7, <1>8 DEF NeoInv

\* Opening the database changes no memory, no evidence and no citation.
LEMMA NeoOpening ==
  ASSUME NeoInv, NEW c \in Procs, Neo!Probe(c) \/ Neo!Mark(c) \/ Neo!Govern(c) \/ Neo!Stop(c)
  PROVE  NeoInv'
<1>1. /\ nMemory' = nMemory /\ nEvidence' = nEvidence /\ nCites' = nCites /\ nDeclared' = nDeclared
      /\ nAdmin' = nAdmin /\ nFile' = nFile /\ nUsed' = nUsed /\ nLegacy' = nLegacy
  BY DEF Neo!Probe, Neo!Mark, Neo!Govern, Neo!Stop, Neo!graph
<1>2. GraphTyped /\ ControlTyped
  BY NeoTyped
<1>3. PICK to \in {"closed", "fresh", "older", "marked", "open"} :
        /\ nClient' = [nClient EXCEPT ![c] = to]
        /\ \/ to = "closed" /\ nGoverned' = nGoverned
           \/ to = "open" /\ nGoverned' = TRUE /\ nClient[c] # "closed"
           \/ to \in {"fresh", "older", "marked"} /\ nGoverned' = nGoverned /\ nClient[c] # "closed"
           \/ to \in {"fresh", "older", "marked"} /\ nGoverned' = nGoverned /\ Neo!Compatible
  <2>1. CASE Neo!Probe(c)
    <3>1. nVersion \in {"none", "previous", "current"}
      BY <1>2 DEF GraphTyped
    <3> QED
      BY <2>1, <3>1 DEF Neo!Probe, Neo!graph
  <2>2. CASE Neo!Mark(c)
    BY <2>2 DEF Neo!Mark
  <2>3. CASE Neo!Govern(c)
    BY <2>3 DEF Neo!Govern
  <2>4. CASE Neo!Stop(c)
    BY <2>4 DEF Neo!Stop, Neo!graph
  <2> QED
    BY <2>1, <2>2, <2>3, <2>4
<1>4. /\ nVersion' \in {"none", "previous", "current"} /\ nGoverned' \in BOOLEAN
      /\ nPurge' = nPurge \/ nPurge' = Neo!Idle
  BY <1>2 DEF Neo!Probe, Neo!Mark, Neo!Govern, Neo!Stop, Neo!graph, GraphTyped
<1>5. GraphTyped'
  BY <1>1, <1>2, <1>4 DEF GraphTyped
<1>6. ControlTyped'
  <2>1. nClient' \in [Procs -> {"closed", "fresh", "older", "marked", "open"}]
    BY <1>2, <1>3 DEF ControlTyped
  <2> QED
    BY <1>1, <1>2, <1>4, <2>1, IdlePurgeRecord DEF ControlTyped
<1>7. /\ nGoverned => nGoverned'
      /\ to # "closed" => nGoverned' \/ DOMAIN nMemory = {}
      /\ nGoverned' => nGoverned \/ DOMAIN nMemory = {}
  <2>1. nClient[c] # "closed" => nGoverned \/ DOMAIN nMemory = {}
    BY DEF NeoInv, Opened
  <2>2. Neo!Compatible => nGoverned \/ DOMAIN nMemory = {}
    BY DEF Neo!Compatible
  <2> QED
    BY <1>3, <2>1, <2>2
<1>8. Opened'
  BY <1>1, <1>2, <1>3, <1>7 DEF NeoInv, Opened, ControlTyped
<1>9. Saved'
  BY <1>1, <1>7 DEF NeoInv, Saved
<1>10. Whole(nGoverned', nMemory', nEvidence', nCites', nUsed')
  BY <1>1, <1>7 DEF NeoInv, Whole
<1>11. NoneFound'
  BY <1>1, <1>4 DEF NeoInv, NoneFound, Neo!Idle
<1> QED
  BY <1>1, <1>5, <1>6, <1>8, <1>9, <1>10, <1>11, NeoStays

\* A governed write keeps the graph governed, and no migration is under way.
LEMMA NeoWrites ==
  ASSUME NeoInv, NEW c \in Procs, Neo!Governed(c), GraphTyped', ControlTyped',
         nClient' = nClient, nGoverned' = nGoverned, nAdmin' = nAdmin, NoneFound',
         nFile' = nFile, nLegacy' = nLegacy, nUsed \subseteq nUsed',
         Whole(nGoverned', nMemory', nEvidence', nCites', nUsed')
  PROVE  NeoInv'
<1>1. nGoverned /\ nAdmin = "idle"
  BY DEF Neo!Governed, NeoInv, Opened
<1>2. Opened' /\ Saved'
  BY <1>1 DEF Opened, Saved
<1> QED
  BY <1>2, NeoStays

LEMMA NeoStoreEvidence ==
  ASSUME NeoInv, NEW c \in Procs, NEW e \in FewEvidence, NEW r \in Repositories,
         Neo!StoreEvidence(c, e, r)
  PROVE  NeoInv'
<1>1. /\ Neo!Governed(c) /\ e \notin nUsed /\ nEvidence' = Neo!With(nEvidence, e, r)
      /\ nUsed' = nUsed \cup {e}
      /\ nVersion' = nVersion /\ nGoverned' = nGoverned /\ nMemory' = nMemory /\ nCites' = nCites
      /\ nDeclared' = nDeclared /\ nClient' = nClient /\ nPurge' = nPurge /\ nAdmin' = nAdmin
      /\ nFile' = nFile /\ nLegacy' = nLegacy
  BY DEF Neo!StoreEvidence
<1>2. GraphTyped /\ ControlTyped
  BY NeoTyped
<1>3. e \notin DOMAIN nEvidence /\ nGoverned
  BY <1>1 DEF NeoInv, Whole, Neo!Governed, Opened
<1>4. /\ DOMAIN nEvidence' = DOMAIN nEvidence \cup {e} /\ nEvidence'[e] = r
      /\ \A k \in DOMAIN nEvidence : nEvidence'[k] = nEvidence[k]
      /\ nEvidence' \in [DOMAIN nEvidence' -> Repositories]
  BY <1>1, <1>2, <1>3 DEF Neo!With, GraphTyped
<1>5. GraphTyped'
  BY <1>1, <1>2, <1>4 DEF GraphTyped, Neo!EvidenceIds
<1>6. ControlTyped'
  BY <1>1, <1>2 DEF ControlTyped
<1>7. Whole(nGoverned', nMemory', nEvidence', nCites', nUsed')
  <2>1. \A m \in DOMAIN nMemory : nMemory[m].ids \subseteq DOMAIN nEvidence
    <3>1. ASSUME NEW m \in DOMAIN nMemory, NEW k \in nMemory[m].ids PROVE k \in DOMAIN nEvidence
      <4>1. k \in Neo!EvidenceIds
        BY <1>2 DEF GraphTyped, Neo!MemoryRecord
      <4>2. <<m, k>> \in nCites
        BY <4>1 DEF NeoInv, Whole
      <4> QED
        BY <4>2 DEF NeoInv, Whole
    <3> QED
      BY <3>1
  <2> QED
    BY <1>1, <1>3, <1>4, <2>1 DEF NeoInv, Whole
<1>8. NoneFound'
  BY <1>1 DEF NeoInv, NoneFound
<1> QED
  BY <1>1, <1>5, <1>6, <1>7, <1>8, NeoWrites

LEMMA NeoAttachEvidence ==
  ASSUME NeoInv, NEW c \in Procs, NEW m \in DOMAIN nMemory, NEW own \in SUBSET DOMAIN nEvidence,
         Neo!AttachEvidence(c, m, own)
  PROVE  NeoInv'
<1>1. /\ Neo!Governed(c) /\ nMemory' = [nMemory EXCEPT ![m].ids = @ \cup own]
      /\ nCites' = nCites \cup ({m} \X own)
      /\ nVersion' = nVersion /\ nGoverned' = nGoverned /\ nEvidence' = nEvidence
      /\ nDeclared' = nDeclared /\ nClient' = nClient /\ nPurge' = nPurge /\ nAdmin' = nAdmin
      /\ nFile' = nFile /\ nUsed' = nUsed /\ nLegacy' = nLegacy
      /\ \A e \in own : nEvidence[e] = nMemory[m].repo
  BY DEF Neo!AttachEvidence, Neo!Citable, Neo!Resolved
<1>2. GraphTyped /\ ControlTyped
  BY NeoTyped
<1>3. own \in SUBSET Neo!EvidenceIds
  BY <1>2 DEF GraphTyped
<1>4. /\ DOMAIN nMemory' = DOMAIN nMemory
      /\ nMemory'[m] = [nMemory[m] EXCEPT !.ids = @ \cup own]
      /\ \A k \in DOMAIN nMemory \ {m} : nMemory'[k] = nMemory[k]
  BY <1>1, <1>2 DEF GraphTyped
<1>5. /\ nMemory'[m] \in Neo!MemoryRecord /\ nMemory'[m].ids = nMemory[m].ids \cup own
      /\ nMemory'[m].repo = nMemory[m].repo /\ nMemory'[m].layer = nMemory[m].layer
  <2>1. nMemory[m] \in Neo!MemoryRecord
    BY <1>2 DEF GraphTyped
  <2> QED
    BY <1>3, <1>4, <2>1 DEF Neo!MemoryRecord
<1>6. GraphTyped'
  <2>1. nMemory' \in [DOMAIN nMemory' -> Neo!MemoryRecord]
    BY <1>1, <1>2, <1>4, <1>5 DEF GraphTyped
  <2>2. {m} \X own \subseteq Memories \X Neo!EvidenceIds
    BY <1>2, <1>3 DEF GraphTyped
  <2> QED
    BY <1>1, <1>2, <1>4, <2>1, <2>2 DEF GraphTyped
<1>7. ControlTyped'
  BY <1>1, <1>2 DEF ControlTyped
<1>8. Whole(nGoverned', nMemory', nEvidence', nCites', nUsed')
  <2>1. \A l \in nCites' : l \in nCites \/ (l[1] = m /\ l[2] \in own)
    BY <1>1
  <2>2. \A k, e : <<k, e>> \in nCites' <=> <<k, e>> \in nCites \/ (k = m /\ e \in own)
    BY <1>1
  <2>3. ASSUME NEW k \in DOMAIN nMemory
        PROVE  /\ \A e \in Neo!EvidenceIds : e \in nMemory'[k].ids <=> <<k, e>> \in nCites'
               /\ \A e \in nMemory'[k].ids : nEvidence[e] = nMemory'[k].repo
               /\ nGoverned /\ nMemory'[k].layer # "intent" => nMemory'[k].ids # {}
    <3>1. CASE k = m
      BY <1>1, <1>5, <2>2, <3>1 DEF NeoInv, Whole
    <3>2. CASE k # m
      BY <1>4, <2>2, <3>2 DEF NeoInv, Whole
    <3> QED
      BY <3>1, <3>2
  <2> QED
    BY <1>1, <1>4, <2>1, <2>3 DEF NeoInv, Whole
<1>9. NoneFound'
  BY <1>1, <1>4, <1>5 DEF NeoInv, NoneFound
<1> QED
  BY <1>1, <1>6, <1>7, <1>8, <1>9, NeoWrites

LEMMA NeoUpdateMemory ==
  ASSUME NeoInv, NEW c \in Procs, NEW m \in Memories, Neo!UpdateMemory(c, m) PROVE NeoInv'
<1>1. /\ Neo!Governed(c) /\ m \in DOMAIN nMemory /\ nMemory' = [nMemory EXCEPT ![m].trashed = ~@]
      /\ nCites' = nCites
      /\ nVersion' = nVersion /\ nGoverned' = nGoverned /\ nEvidence' = nEvidence
      /\ nDeclared' = nDeclared /\ nClient' = nClient /\ nPurge' = nPurge /\ nAdmin' = nAdmin
      /\ nFile' = nFile /\ nUsed' = nUsed /\ nLegacy' = nLegacy
  BY DEF Neo!UpdateMemory
<1>2. GraphTyped /\ ControlTyped
  BY NeoTyped
<1>3. /\ DOMAIN nMemory' = DOMAIN nMemory
      /\ \A k \in DOMAIN nMemory : /\ nMemory'[k] \in Neo!MemoryRecord
                                   /\ nMemory'[k].ids = nMemory[k].ids
                                   /\ nMemory'[k].repo = nMemory[k].repo
                                   /\ nMemory'[k].layer = nMemory[k].layer
  BY <1>1, <1>2 DEF GraphTyped, Neo!MemoryRecord
<1>4. GraphTyped'
  <2>1. nMemory' \in [DOMAIN nMemory' -> Neo!MemoryRecord]
    BY <1>1, <1>2, <1>3 DEF GraphTyped
  <2> QED
    BY <1>1, <1>2, <1>3, <2>1 DEF GraphTyped
<1>5. ControlTyped'
  BY <1>1, <1>2 DEF ControlTyped
<1>6. Whole(nGoverned', nMemory', nEvidence', nCites', nUsed')
  BY <1>1, <1>3 DEF NeoInv, Whole
<1>7. NoneFound'
  BY <1>1, <1>3 DEF NeoInv, NoneFound
<1> QED
  BY <1>1, <1>4, <1>5, <1>6, <1>7, NeoWrites

\* A memory that goes takes its citations, and its id leaves the sources of the others.
LEMMA NeoGone ==
  ASSUME GraphTyped, Whole(nGoverned, nMemory, nEvidence, nCites, nUsed), NEW m, Neo!Gone(m),
         nVersion' = nVersion, nGoverned' = nGoverned, nEvidence' = nEvidence,
         nDeclared' = nDeclared, nUsed' = nUsed
  PROVE  /\ GraphTyped' /\ DOMAIN nMemory' \subseteq DOMAIN nMemory
         /\ \A k \in DOMAIN nMemory' : nMemory'[k].repo = nMemory[k].repo
         /\ Whole(nGoverned', nMemory', nEvidence', nCites', nUsed')
<1>1. /\ nMemory' = [k \in DOMAIN nMemory \ {m} |-> [nMemory[k] EXCEPT !.sources = @ \ {m}]]
      /\ nCites' = {l \in nCites : l[1] # m}
  BY DEF Neo!Gone
<1>2. /\ DOMAIN nMemory' = DOMAIN nMemory \ {m}
      /\ \A k \in DOMAIN nMemory' : /\ nMemory'[k] \in Neo!MemoryRecord
                                    /\ nMemory'[k].ids = nMemory[k].ids
                                    /\ nMemory'[k].repo = nMemory[k].repo
                                    /\ nMemory'[k].layer = nMemory[k].layer
  BY <1>1 DEF GraphTyped, Neo!MemoryRecord
<1>3. nMemory' \in [DOMAIN nMemory' -> Neo!MemoryRecord]
  BY <1>1, <1>2
<1>4. GraphTyped'
  BY <1>1, <1>2, <1>3 DEF GraphTyped
<1>5. \A k, e : k # m => (<<k, e>> \in nCites' <=> <<k, e>> \in nCites)
  BY <1>1
<1>6. \A l \in nCites' : l \in nCites /\ l[1] # m
  BY <1>1
<1>7. Whole(nGoverned', nMemory', nEvidence', nCites', nUsed')
  BY <1>2, <1>5, <1>6 DEF Whole
<1> QED
  BY <1>2, <1>4, <1>7

LEMMA NeoDeleteMemory ==
  ASSUME NeoInv, NEW c \in Procs, NEW m \in Memories, Neo!DeleteMemory(c, m) PROVE NeoInv'
<1>1. /\ Neo!Governed(c) /\ Neo!Gone(m)
      /\ nVersion' = nVersion /\ nGoverned' = nGoverned /\ nEvidence' = nEvidence
      /\ nDeclared' = nDeclared /\ nClient' = nClient /\ nPurge' = nPurge /\ nAdmin' = nAdmin
      /\ nFile' = nFile /\ nUsed' = nUsed /\ nLegacy' = nLegacy
  BY DEF Neo!DeleteMemory
<1>2. GraphTyped /\ ControlTyped /\ Whole(nGoverned, nMemory, nEvidence, nCites, nUsed)
  BY NeoTyped DEF NeoInv
<1>3. ControlTyped'
  BY <1>1, <1>2 DEF ControlTyped
<1>4. GraphTyped' /\ Whole(nGoverned', nMemory', nEvidence', nCites', nUsed')
  BY <1>1, <1>2, NeoGone
<1>5. NoneFound'
  <2>1. /\ DOMAIN nMemory' \subseteq DOMAIN nMemory
        /\ \A k \in DOMAIN nMemory' : nMemory'[k].repo = nMemory[k].repo
    BY <1>1, <1>2, NeoGone
  <2> QED
    BY <1>1, <2>1 DEF NeoInv, NoneFound
<1> QED
  BY <1>1, <1>3, <1>4, <1>5, NeoWrites

\* What a memory cites is there.
LEMMA NeoCited ==
  ASSUME NeoInv, NEW m \in DOMAIN nMemory, NEW k \in nMemory[m].ids
  PROVE  k \in Neo!EvidenceIds /\ <<m, k>> \in nCites /\ k \in DOMAIN nEvidence
<1>1. k \in Neo!EvidenceIds
  BY NeoTyped DEF GraphTyped, Neo!MemoryRecord
<1>2. <<m, k>> \in nCites
  BY <1>1 DEF NeoInv, Whole
<1> QED
  BY <1>1, <1>2 DEF NeoInv, Whole

LEMMA NeoStoreMemory ==
  ASSUME NeoInv, NEW c \in Procs, NEW m \in Memories, NEW r \in Repositories,
         NEW layer \in Neo!Layers, NEW sources \in SUBSET DOMAIN nMemory,
         NEW own \in SUBSET DOMAIN nEvidence, NEW new \in FewEvidence \cup {Absent}, new \notin nUsed,
         Neo!StoreMemory(c, m, r, layer, sources, own, new)
  PROVE  NeoInv'
<1>1. PICK known, brought, ids :
        /\ known = IF new = Absent THEN nEvidence ELSE Neo!With(nEvidence, new, r)
        /\ brought = IF new = Absent THEN own ELSE {new}
        /\ ids = Neo!Resolved(sources, brought)
        /\ Neo!Citable(r, layer, sources, brought, known)
        /\ nMemory' = Neo!With(nMemory, m, [repo |-> r, layer |-> layer, sources |-> sources,
                                            trashed |-> FALSE, ids |-> ids])
        /\ nEvidence' = known
        /\ nCites' = nCites \cup ({m} \X ids)
  BY DEF Neo!StoreMemory
<1>2. /\ Neo!Governed(c) /\ m \notin nUsed
      /\ IF layer = "episodic" /\ own = {} THEN new # Absent ELSE new = Absent
      /\ nDeclared' = nDeclared \cup {r}
      /\ nUsed' = nUsed \cup {m} \cup (IF new = Absent THEN {} ELSE {new})
      /\ nVersion' = nVersion /\ nGoverned' = nGoverned
      /\ nClient' = nClient /\ nAdmin' = nAdmin
      /\ nFile' = nFile /\ nLegacy' = nLegacy
      /\ Neo!Writable(c, r)
      /\ nPurge' = IF nPurge.at = "record" /\ nPurge.repo = r /\ nPurge.by # c
                   THEN [nPurge EXCEPT !.later = @ \cup {m}] ELSE nPurge
  BY StoresAssumption DEF Neo!StoreMemory
<1>3. GraphTyped /\ ControlTyped
  BY NeoTyped
<1>4. m \notin DOMAIN nMemory /\ new \notin DOMAIN nEvidence /\ nGoverned
  BY <1>2 DEF NeoInv, Whole, Neo!Governed, Opened
<1>5. /\ DOMAIN nEvidence' = DOMAIN nEvidence \cup (IF new = Absent THEN {} ELSE {new})
      /\ \A k \in DOMAIN nEvidence : nEvidence'[k] = nEvidence[k]
      /\ new # Absent => nEvidence'[new] = r
      /\ nEvidence' \in [DOMAIN nEvidence' -> Repositories]
  <2>1. CASE new = Absent
    BY <1>1, <1>3, <2>1 DEF GraphTyped
  <2>2. CASE new # Absent
    BY <1>1, <1>3, <1>4, <2>2 DEF GraphTyped, Neo!With
  <2> QED
    BY <2>1, <2>2
<1>6. /\ \A e \in ids : e \in DOMAIN nEvidence' /\ nEvidence'[e] = r
      /\ layer = "semantic" => ids # {}
  BY <1>1 DEF Neo!Citable
<1>7. layer # "intent" => ids # {}
  <2>1. CASE layer = "episodic"
    <3>1. brought # {} /\ brought \subseteq ids
      BY <1>1, <1>2, <2>1 DEF Neo!Resolved
    <3> QED
      BY <3>1
  <2> QED
    BY <1>6, <2>1 DEF Neo!Layers
<1>8. DOMAIN nEvidence' \subseteq Neo!EvidenceIds
  BY <1>3, <1>5 DEF GraphTyped, Neo!EvidenceIds
<1>9. /\ DOMAIN nMemory' = DOMAIN nMemory \cup {m}
      /\ \A k \in DOMAIN nMemory : nMemory'[k] = nMemory[k]
      /\ nMemory'[m] = [repo |-> r, layer |-> layer, sources |-> sources,
                        trashed |-> FALSE, ids |-> ids]
  BY <1>1, <1>4 DEF Neo!With
<1>10. nMemory'[m] \in Neo!MemoryRecord
  <2>1. sources \in SUBSET Memories /\ ids \in SUBSET Neo!EvidenceIds
    BY <1>3, <1>6, <1>8 DEF GraphTyped
  <2> QED
    BY <1>9, <2>1 DEF Neo!MemoryRecord
<1>11. GraphTyped'
  <2>1. nMemory' \in [DOMAIN nMemory' -> Neo!MemoryRecord]
    <3>1. \A k \in DOMAIN nMemory' : nMemory'[k] \in Neo!MemoryRecord
      BY <1>3, <1>9, <1>10 DEF GraphTyped
    <3>2. nMemory' = [k \in DOMAIN nMemory' |-> nMemory'[k]]
      BY <1>1 DEF Neo!With
    <3> QED
      BY <3>1, <3>2
  <2>2. nCites' \subseteq Memories \X Neo!EvidenceIds
    BY <1>1, <1>3, <1>6, <1>8 DEF GraphTyped
  <2> QED
    BY <1>2, <1>3, <1>5, <1>8, <1>9, <2>1, <2>2 DEF GraphTyped
<1>12. ControlTyped' /\ NoneFound'
  <2>1. nPurge \in PurgeRecords
    BY <1>3 DEF ControlTyped
  <2>2. CASE nPurge.at = "record" /\ nPurge.repo = r
    <3>1. nPurge.by # c
      BY <1>2, <2>2 DEF Neo!Writable
    <3>2. nPurge' = [nPurge EXCEPT !.later = @ \cup {m}]
      BY <1>2, <2>2, <3>1
    <3>3. /\ nPurge' \in PurgeRecords /\ nPurge'.repo = nPurge.repo
          /\ nPurge'.later = nPurge.later \cup {m}
      BY <2>1, <3>2 DEF PurgeRecords
    <3>4. NoneFound'
      BY <1>9, <2>2, <3>3 DEF NeoInv, NoneFound
    <3> QED
      BY <1>2, <1>3, <3>3, <3>4 DEF ControlTyped
  <2>3. CASE ~(nPurge.at = "record" /\ nPurge.repo = r)
    <3>1. nPurge' = nPurge
      BY <1>2, <2>3
    <3>2. nMemory'[m].repo = r
      BY <1>9
    <3>3. NoneFound'
      BY <1>9, <2>3, <3>1, <3>2 DEF NeoInv, NoneFound
    <3> QED
      BY <1>2, <1>3, <3>1, <3>3 DEF ControlTyped
  <2> QED
    BY <2>2, <2>3
<1>13. Whole(nGoverned', nMemory', nEvidence', nCites', nUsed')
  <2>1. \A l \in nCites' : l \in nCites \/ (l[1] = m /\ l[2] \in ids)
    BY <1>1
  <2>2. \A k, e : <<k, e>> \in nCites' <=> <<k, e>> \in nCites \/ (k = m /\ e \in ids)
    BY <1>1
  <2>3. \A e : <<m, e>> \notin nCites
    <3>1. ASSUME NEW e, <<m, e>> \in nCites PROVE FALSE
      BY <1>4, <3>1 DEF NeoInv, Whole
    <3> QED
      BY <3>1
  <2>4. DOMAIN nMemory' \subseteq nUsed' /\ DOMAIN nEvidence' \subseteq nUsed'
    BY <1>2, <1>5, <1>9 DEF NeoInv, Whole
  <2>5. \A l \in nCites' : l[1] \in DOMAIN nMemory' /\ l[2] \in DOMAIN nEvidence'
    BY <1>5, <1>6, <1>9, <2>1 DEF NeoInv, Whole
  <2>6. ASSUME NEW k \in DOMAIN nMemory'
        PROVE  /\ \A e \in Neo!EvidenceIds : e \in nMemory'[k].ids <=> <<k, e>> \in nCites'
               /\ \A e \in nMemory'[k].ids : nEvidence'[e] = nMemory'[k].repo
               /\ nMemory'[k].layer # "intent" => nMemory'[k].ids # {}
    <3>1. CASE k = m
      BY <1>6, <1>7, <1>9, <2>2, <2>3, <3>1
    <3>2. CASE k # m
      <4>1. k \in DOMAIN nMemory /\ nMemory'[k] = nMemory[k]
        BY <1>9, <2>6, <3>2
      <4>2. \A e \in nMemory[k].ids : nEvidence'[e] = nMemory[k].repo
        <5>1. \A e \in nMemory[k].ids : e \in DOMAIN nEvidence /\ nEvidence[e] = nMemory[k].repo
          BY <4>1, NeoCited DEF NeoInv, Whole
        <5> QED
          BY <1>5, <5>1
      <4> QED
        BY <1>4, <2>2, <3>2, <4>1, <4>2 DEF NeoInv, Whole
    <3> QED
      BY <3>1, <3>2
  <2> QED
    BY <1>2, <1>4, <2>4, <2>5, <2>6 DEF Whole
<1> QED
  BY <1>2, <1>11, <1>12, <1>13, NeoWrites

\* Registering, and the steps of a purge that delete nothing of the graph.
LEMMA NeoControl ==
  ASSUME NeoInv,
         \/ \E c \in Procs, r \in Repositories : Neo!Register(c, r) \/ Neo!BeginPurge(c, r)
         \/ Neo!Verify \/ Neo!DeleteRepository
  PROVE  NeoInv'
<1>1. /\ nVersion' = nVersion /\ nGoverned' = nGoverned /\ nMemory' = nMemory
      /\ nEvidence' = nEvidence /\ nCites' = nCites /\ nClient' = nClient /\ nAdmin' = nAdmin
      /\ nFile' = nFile /\ nUsed' = nUsed /\ nLegacy' = nLegacy
  BY DEF Neo!Register, Neo!BeginPurge, Neo!Verify, Neo!DeleteRepository, Neo!graph
<1>2. GraphTyped /\ ControlTyped
  BY NeoTyped
<1>3. nDeclared' \subseteq Repositories
  BY <1>2 DEF Neo!Register, Neo!BeginPurge, Neo!Verify, Neo!DeleteRepository, Neo!graph, GraphTyped
<1>4. nPurge' \in PurgeRecords
  <2>1. Neo!Idle \in PurgeRecords
    BY IdlePurgeRecord
  <2>2. CASE \E c \in Procs, r \in Repositories : Neo!Register(c, r)
    BY <1>2, <2>2 DEF Neo!Register, ControlTyped
  <2>3. CASE \E c \in Procs, r \in Repositories : Neo!BeginPurge(c, r)
    <3>1. PICK c \in Procs, r \in Repositories, todo \in SUBSET Memories :
            \/ nPurge' = [by |-> c, at |-> "delete", repo |-> r, errors |-> FALSE, todo |-> todo,
                        later |-> {}]
            \/ nPurge' = [by |-> c, at |-> "verify", repo |-> r, errors |-> TRUE, todo |-> todo,
                        later |-> {}]
      <4>1. PICK c \in Procs, r \in Repositories : Neo!BeginPurge(c, r)
        BY <2>3
      <4>2. /\ {k \in DOMAIN nMemory : nMemory[k].repo = r} \in SUBSET Memories
            /\ {} \in SUBSET Memories
        BY <1>2 DEF GraphTyped
      <4> QED
        BY <4>1, <4>2 DEF Neo!BeginPurge
    <3>2. ASSUME NEW a \in {"delete", "verify"}, NEW e \in BOOLEAN
          PROVE  [by |-> c, at |-> a, repo |-> r, errors |-> e, todo |-> todo, later |-> {}]
                   \in PurgeRecords
      <4>1. {} \in SUBSET Memories
        OBVIOUS
      <4> QED
        BY <4>1 DEF PurgeRecords
    <3> QED
      BY <3>1, <3>2
  <2>4. CASE Neo!Verify
    BY <1>2, <2>1, <2>4 DEF Neo!Verify, ControlTyped, PurgeRecords
  <2>5. CASE Neo!DeleteRepository
    BY <2>1, <2>5 DEF Neo!DeleteRepository
  <2> QED
    BY <2>2, <2>3, <2>4, <2>5
<1>5. GraphTyped' /\ ControlTyped'
  BY <1>1, <1>2, <1>3, <1>4 DEF GraphTyped, ControlTyped
<1>6. Opened' /\ Saved' /\ Whole(nGoverned', nMemory', nEvidence', nCites', nUsed')
  BY <1>1 DEF NeoInv, Opened, Saved
<1>7. NoneFound'
  <2>1. nPurge'.at = "record" => nPurge' = nPurge \/ Neo!Verify
    BY DEF Neo!Register, Neo!BeginPurge, Neo!DeleteRepository, Neo!Idle
  <2>2. nPurge' = nPurge => NoneFound'
    BY <1>1 DEF NeoInv, NoneFound
  <2>3. Neo!Verify => NoneFound'
    <3>1. Neo!Verify /\ nPurge'.at = "record" => nPurge' = [nPurge EXCEPT !.at = "record"]
      BY DEF Neo!Verify, Neo!Idle
    <3>2. [nPurge EXCEPT !.at = "record"].repo = nPurge.repo
      BY <1>2 DEF ControlTyped, PurgeRecords
    <3>3. Neo!Verify /\ nPurge'.at = "record" => \A m \in DOMAIN nMemory : nMemory[m].repo # nPurge.repo
      BY DEF Neo!Verify, Neo!Idle
    <3> QED
      BY <1>1, <3>1, <3>2, <3>3 DEF NoneFound
  <2> QED
    BY <2>1, <2>2, <2>3 DEF NoneFound
<1> QED
  BY <1>1, <1>5, <1>6, <1>7, NeoStays

LEMMA NeoPurgeMemory == ASSUME NeoInv, Neo!PurgeMemory PROVE NeoInv'
<1>1. /\ nAdmin = "idle" /\ nPurge.at = "delete"
      /\ nVersion' = nVersion /\ nGoverned' = nGoverned /\ nEvidence' = nEvidence
      /\ nDeclared' = nDeclared /\ nClient' = nClient /\ nAdmin' = nAdmin /\ nFile' = nFile
      /\ nUsed' = nUsed /\ nLegacy' = nLegacy
  BY DEF Neo!PurgeMemory
<1>2. GraphTyped /\ ControlTyped /\ Whole(nGoverned, nMemory, nEvidence, nCites, nUsed)
  BY NeoTyped DEF NeoInv
<1>3. PICK m \in nPurge.todo :
        /\ Neo!Gone(m) \/ (nMemory' = nMemory /\ nCites' = nCites)
        /\ \/ nPurge' = [nPurge EXCEPT !.todo = @ \ {m}]
           \/ nPurge' = [nPurge EXCEPT !.todo = @ \ {m}, !.errors = TRUE]
  BY DEF Neo!PurgeMemory
<1>4. /\ GraphTyped' /\ DOMAIN nMemory' \subseteq DOMAIN nMemory
      /\ Whole(nGoverned', nMemory', nEvidence', nCites', nUsed')
  <2>1. CASE Neo!Gone(m)
    BY <1>1, <1>2, <2>1, NeoGone
  <2>2. CASE nMemory' = nMemory /\ nCites' = nCites
    BY <1>1, <1>2, <2>2 DEF GraphTyped
  <2> QED
    BY <1>3, <2>1, <2>2
<1>5. ControlTyped' /\ NoneFound'
  <2>1. nPurge' \in PurgeRecords /\ nPurge'.at = "delete"
    BY <1>1, <1>2, <1>3 DEF ControlTyped, PurgeRecords
  <2> QED
    BY <1>1, <1>2, <2>1 DEF ControlTyped, NoneFound
<1>6. Opened' /\ Saved'
  BY <1>1, <1>4 DEF NeoInv, Opened, Saved
<1> QED
  BY <1>1, <1>4, <1>5, <1>6, NeoStays

\* Evidence of a repository goes only when none of its memories is left, and nothing else
\* cites it.
LEMMA NeoPurgeChildren == ASSUME NeoInv, Neo!PurgeChildren PROVE NeoInv'
<1>1. /\ nAdmin = "idle" /\ nVersion' = nVersion /\ nGoverned' = nGoverned /\ nMemory' = nMemory
      /\ nDeclared' = nDeclared /\ nClient' = nClient /\ nAdmin' = nAdmin /\ nFile' = nFile
      /\ nUsed' = nUsed /\ nLegacy' = nLegacy
      /\ \/ nPurge' = [nPurge EXCEPT !.at = "verify"]
         \/ nPurge' = [nPurge EXCEPT !.at = "verify", !.errors = TRUE]
  BY DEF Neo!PurgeChildren
<1>2. GraphTyped /\ ControlTyped
  BY NeoTyped
<1>3. /\ GraphTyped'
      /\ Whole(nGoverned', nMemory', nEvidence', nCites', nUsed')
  <2>1. CASE nEvidence' = nEvidence /\ nCites' = nCites
    BY <1>1, <1>2, <2>1 DEF GraphTyped, NeoInv
  <2>2. ASSUME \A m \in DOMAIN nMemory : nMemory[m].repo # nPurge.repo,
               NEW left, left = {e \in DOMAIN nEvidence : nEvidence[e] # nPurge.repo},
               nEvidence' = Neo!Restrict(nEvidence, left), nCites' = {l \in nCites : l[2] \in left}
        PROVE  GraphTyped' /\ Whole(nGoverned', nMemory', nEvidence', nCites', nUsed')
    <3>1. /\ DOMAIN nEvidence' = left /\ \A e \in left : nEvidence'[e] = nEvidence[e]
          /\ left \subseteq DOMAIN nEvidence
          /\ nEvidence' \in [DOMAIN nEvidence' -> Repositories]
      BY <1>2, <2>2 DEF Neo!Restrict, GraphTyped
    <3>2. GraphTyped'
      BY <1>1, <1>2, <2>2, <3>1 DEF GraphTyped
    <3>3. ASSUME NEW m \in DOMAIN nMemory, NEW e \in nMemory[m].ids PROVE e \in left /\ <<m, e>> \in nCites'
      <4>1. e \in DOMAIN nEvidence /\ <<m, e>> \in nCites
        BY NeoCited
      <4>2. nEvidence[e] = nMemory[m].repo
        BY DEF NeoInv, Whole
      <4> QED
        BY <2>2, <4>1, <4>2
    <3>4. ASSUME NEW m \in DOMAIN nMemory
          PROVE  /\ \A e \in Neo!EvidenceIds : e \in nMemory[m].ids <=> <<m, e>> \in nCites'
                 /\ \A e \in nMemory[m].ids : nEvidence'[e] = nMemory[m].repo
                 /\ nGoverned /\ nMemory[m].layer # "intent" => nMemory[m].ids # {}
      BY <2>2, <3>1, <3>3 DEF NeoInv, Whole
    <3>5. \A l \in nCites' : l[1] \in DOMAIN nMemory /\ l[2] \in DOMAIN nEvidence'
      BY <2>2, <3>1 DEF NeoInv, Whole
    <3>6. /\ DOMAIN nMemory \subseteq nUsed /\ DOMAIN nEvidence' \subseteq nUsed
          /\ ~nGoverned => DOMAIN nEvidence' = {}
      BY <3>1 DEF NeoInv, Whole
    <3> QED
      BY <1>1, <3>2, <3>4, <3>5, <3>6 DEF Whole
  <2> QED
    BY <2>1, <2>2 DEF Neo!PurgeChildren
<1>4. ControlTyped' /\ NoneFound'
  <2>1. nPurge' \in PurgeRecords /\ nPurge'.at = "verify"
    BY <1>1, <1>2 DEF ControlTyped, PurgeRecords
  <2> QED
    BY <1>1, <1>2, <2>1 DEF ControlTyped, NoneFound
<1>5. Opened' /\ Saved'
  BY <1>1 DEF NeoInv, Opened, Saved
<1> QED
  BY <1>1, <1>3, <1>4, <1>5, NeoStays

\* Backing up, and beginning a migration: the file holds the graph as it is.
LEMMA NeoSaves ==
  ASSUME NeoInv, Neo!Backup \/ Neo!BeginMigration PROVE NeoInv'
<1>1. /\ nVersion' = nVersion /\ nGoverned' = nGoverned /\ nMemory' = nMemory
      /\ nEvidence' = nEvidence /\ nCites' = nCites /\ nDeclared' = nDeclared
      /\ nClient' = nClient /\ nPurge' = nPurge /\ nUsed' = nUsed /\ nLegacy' = nLegacy
      /\ nAdmin = "idle" /\ nFile = {} /\ nFile' = {Neo!Snapshot}
      /\ \/ nAdmin' = nAdmin
         \/ nAdmin' = "saved" /\ ~nGoverned
  BY DEF Neo!Backup, Neo!BeginMigration, Neo!graph
<1>2. GraphTyped /\ ControlTyped
  BY NeoTyped
<1>3. GraphTyped' /\ ControlTyped'
  BY <1>1, <1>2 DEF GraphTyped, ControlTyped
<1>4. /\ Whole(nGoverned, nMemory, nEvidence, nCites, nUsed)
      /\ Whole(nGoverned', nMemory', nEvidence', nCites', nUsed')
  BY <1>1 DEF NeoInv
<1>5. PICK g : g = Neo!Snapshot
  OBVIOUS
<1>6. /\ g.governed = nGoverned /\ g.memory = nMemory /\ g.evidence = nEvidence /\ g.cites = nCites
      /\ nFile' = {g}
  BY <1>1, <1>5 DEF Neo!Snapshot
<1>7. Neo!IsGraph(g)
  BY <1>2, <1>5, GraphTypes
<1>8. Whole(g.governed, g.memory, g.evidence, g.cites, nUsed')
  BY <1>1, <1>4, <1>6
<1>9. Sound(g)'
  BY <1>7, <1>8 DEF Sound
<1>10. Neo!TypeOK'
  <2>1. \A f \in nFile' : Neo!IsGraph(f)
    BY <1>6, <1>7
  <2> QED
    BY <1>3, <2>1, GraphTypes DEF Neo!TypeOK, ControlTyped, PurgeRecords
<1>11. Opened'
  BY <1>1 DEF NeoInv, Opened
<1>12. Saved'
  BY <1>1, <1>4, <1>6 DEF Saved, Whole
<1>13. Neo4jKept' /\ NoneFound'
  BY <1>1 DEF NeoInv, Neo4jKept, NoneFound
<1>14. \A f \in nFile' : Sound(f)'
  BY <1>6, <1>9
<1> QED
  BY <1>4, <1>10, <1>11, <1>12, <1>13, <1>14 DEF NeoInv

\* The migration: every memory cites evidence of its own, and its graph was saved before.
LEMMA NeoMigrate == ASSUME NeoInv, Neo!Migrate PROVE NeoInv'
<1>1. /\ nAdmin = "saved" /\ nAdmin' = "idle" /\ nVersion' = "current" /\ nGoverned' = TRUE
      /\ nEvidence' = [e \in DOMAIN nMemory \cup DOMAIN nEvidence |->
                         IF e \in DOMAIN nMemory THEN nMemory[e].repo ELSE nEvidence[e]]
      /\ nCites' = nCites \cup {<<m, m>> : m \in DOMAIN nMemory}
      /\ nMemory' = [m \in DOMAIN nMemory |-> [nMemory[m] EXCEPT !.ids = {m}]]
      /\ nDeclared' = nDeclared \cup {nMemory[m].repo : m \in DOMAIN nMemory}
      /\ nLegacy' = nLegacy \cup {Neo!Snapshot}
      /\ nClient' = nClient /\ nPurge' = nPurge /\ nFile' = nFile /\ nUsed' = nUsed
  BY DEF Neo!Migrate
<1>2. GraphTyped /\ ControlTyped
  BY NeoTyped
<1>3. /\ DOMAIN nEvidence = {} /\ \E f \in nFile : f.memory = nMemory
  BY <1>1 DEF NeoInv, Saved
<1>4. nCites = {}
  BY <1>3 DEF NeoInv, Whole
<1>5. /\ DOMAIN nMemory' = DOMAIN nMemory
      /\ \A m \in DOMAIN nMemory : /\ nMemory'[m] \in Neo!MemoryRecord /\ nMemory'[m].ids = {m}
                                   /\ nMemory'[m].repo = nMemory[m].repo
                                   /\ nMemory[m].repo \in Repositories
  <2>1. ASSUME NEW m \in DOMAIN nMemory
        PROVE  /\ [nMemory[m] EXCEPT !.ids = {m}] \in Neo!MemoryRecord
               /\ [nMemory[m] EXCEPT !.ids = {m}].ids = {m}
               /\ [nMemory[m] EXCEPT !.ids = {m}].repo = nMemory[m].repo
               /\ nMemory[m].repo \in Repositories
    <3>1. {m} \in SUBSET Neo!EvidenceIds
      BY <1>2 DEF GraphTyped, Neo!EvidenceIds
    <3>2. nMemory[m] \in Neo!MemoryRecord
      BY <1>2 DEF GraphTyped
    <3> QED
      BY <3>1, <3>2 DEF Neo!MemoryRecord
  <2> QED
    BY <1>1, <2>1
<1>6. /\ DOMAIN nEvidence' = DOMAIN nMemory
      /\ \A m \in DOMAIN nMemory : nEvidence'[m] = nMemory[m].repo
      /\ nEvidence' \in [DOMAIN nEvidence' -> Repositories]
  <2>1. DOMAIN nMemory \cup DOMAIN nEvidence = DOMAIN nMemory
    BY <1>3
  <2>2. nEvidence' = [e \in DOMAIN nMemory |-> nMemory[e].repo]
    BY <1>1, <2>1
  <2> QED
    BY <1>5, <2>2
<1>7. GraphTyped'
  <2>1. nMemory' \in [DOMAIN nMemory' -> Neo!MemoryRecord]
    BY <1>1, <1>5
  <2>2. DOMAIN nEvidence' \subseteq Neo!EvidenceIds
    BY <1>2, <1>6 DEF GraphTyped, Neo!EvidenceIds
  <2>3. nCites' \subseteq Memories \X Neo!EvidenceIds
    BY <1>1, <1>2, <1>4 DEF GraphTyped, Neo!EvidenceIds
  <2>4. nDeclared' \subseteq Repositories
    BY <1>1, <1>2, <1>5 DEF GraphTyped
  <2> QED
    BY <1>1, <1>2, <1>5, <1>6, <2>1, <2>2, <2>3, <2>4 DEF GraphTyped
<1>8. ControlTyped'
  BY <1>1, <1>2 DEF ControlTyped
<1>9. Whole(nGoverned', nMemory', nEvidence', nCites', nUsed')
  <2>1. \A l \in nCites' : l[1] \in DOMAIN nMemory /\ l[2] = l[1]
    BY <1>1, <1>4
  <2>2. ASSUME NEW m \in DOMAIN nMemory
        PROVE  \A e \in Neo!EvidenceIds : e \in nMemory'[m].ids <=> <<m, e>> \in nCites'
    <3>1. \A e : <<m, e>> \in nCites' <=> e = m
      <4>1. nCites' = {<<k, k>> : k \in DOMAIN nMemory}
        BY <1>1, <1>4
      <4> QED
        BY <4>1
    <3> QED
      BY <1>5, <3>1
  <2>3. DOMAIN nMemory' \subseteq nUsed' /\ DOMAIN nEvidence' \subseteq nUsed'
    BY <1>1, <1>5, <1>6 DEF NeoInv, Whole
  <2>4. \A l \in nCites' : l[1] \in DOMAIN nMemory' /\ l[2] \in DOMAIN nEvidence'
    BY <1>5, <1>6, <2>1
  <2>5. \A m \in DOMAIN nMemory' :
          \A e \in Neo!EvidenceIds : e \in nMemory'[m].ids <=> <<m, e>> \in nCites'
    BY <1>5, <2>2
  <2>6. \A m \in DOMAIN nMemory' : \A e \in nMemory'[m].ids : nEvidence'[e] = nMemory'[m].repo
    <3> SUFFICES ASSUME NEW m \in DOMAIN nMemory', NEW e \in nMemory'[m].ids
                 PROVE  nEvidence'[e] = nMemory'[m].repo
      OBVIOUS
    <3>1. m \in DOMAIN nMemory /\ e = m
      BY <1>5
    <3> QED
      BY <1>5, <1>6, <3>1
  <2>7. \A m \in DOMAIN nMemory' : nMemory'[m].ids # {}
    BY <1>5
  <2>8. nGoverned'
    BY <1>1
  <2> QED
    BY <2>3, <2>4, <2>5, <2>6, <2>7, <2>8 DEF Whole
<1>10. Opened' /\ Saved'
  BY <1>1 DEF Opened, Saved
<1>11. \A f \in nFile : Sound(f) /\ Sound(f)'
  BY <1>1, SoundStays DEF NeoInv
<1>12. Neo!TypeOK'
  BY <1>1, <1>7, <1>8, <1>11, GraphTypes DEF Neo!TypeOK, ControlTyped, PurgeRecords, Sound
<1>14. NoneFound'
  BY <1>1, <1>5 DEF NeoInv, NoneFound
<1>13. Neo4jKept'
  <2>1. Neo!Snapshot.memory = nMemory
    BY DEF Neo!Snapshot
  <2> QED
    BY <1>1, <1>3, <2>1 DEF NeoInv, Neo4jKept
<1> QED
  BY <1>1, <1>9, <1>10, <1>11, <1>12, <1>13, <1>14 DEF NeoInv

\* Abandoning a migration leaves the graph as it was.
LEMMA NeoAbandon == ASSUME NeoInv, Neo!AbandonMigration PROVE NeoInv'
<1>1. /\ nVersion' = nVersion /\ nGoverned' = nGoverned /\ nMemory' = nMemory
      /\ nEvidence' = nEvidence /\ nCites' = nCites /\ nDeclared' = nDeclared
      /\ nClient' = nClient /\ nPurge' = nPurge /\ nUsed' = nUsed /\ nLegacy' = nLegacy
      /\ nAdmin' = "idle" /\ nFile' = nFile
  BY DEF Neo!AbandonMigration, Neo!graph
<1>2. GraphTyped' /\ ControlTyped'
  BY <1>1, NeoTyped DEF GraphTyped, ControlTyped
<1>3. Opened' /\ Saved' /\ NoneFound' /\ Whole(nGoverned', nMemory', nEvidence', nCites', nUsed')
  BY <1>1 DEF NeoInv, Opened, Saved, NoneFound
<1> QED
  BY <1>1, <1>2, <1>3, NeoStays

\* An empty database, or one restored into it, with every process stopped.
LEMMA NeoReplaced == ASSUME NeoInv, Neo!Reset \/ Neo!Restore PROVE NeoInv'
<1>1. /\ nAdmin = "idle" /\ nAdmin' = nAdmin /\ nPurge = Neo!Idle
      /\ \A c \in Procs : nClient[c] = "closed"
      /\ nClient' = nClient /\ nPurge' = nPurge /\ nFile' = nFile /\ nUsed' = nUsed
      /\ nLegacy' = nLegacy
  BY DEF Neo!Reset, Neo!Restore
<1>2. PICK g : /\ nVersion' = g.version /\ nGoverned' = g.governed /\ nMemory' = g.memory
               /\ nEvidence' = g.evidence /\ nCites' = g.cites /\ nDeclared' = g.declared
               /\ Neo!IsGraph(g) /\ Whole(g.governed, g.memory, g.evidence, g.cites, nUsed)
  <2>1. CASE Neo!Reset
    <3>1. Neo!Becomes(Neo!Empty)
      BY <2>1 DEF Neo!Reset
    <3>2. Neo!IsGraph(Neo!Empty)
      <4>1. <<>> \in [{} -> Neo!MemoryRecord] /\ <<>> \in [{} -> Repositories]
        OBVIOUS
      <4>2. /\ \E S \in SUBSET Memories : <<>> \in [S -> Neo!MemoryRecord]
            /\ \E S \in SUBSET Neo!EvidenceIds : <<>> \in [S -> Repositories]
        BY <4>1, {} \in SUBSET Memories, {} \in SUBSET Neo!EvidenceIds
      <4> QED
        BY <4>2 DEF Neo!IsGraph, Neo!Empty
    <3>3. Whole(FALSE, <<>>, <<>>, {}, nUsed)
      <4>1. DOMAIN <<>> = {}
        OBVIOUS
      <4> QED
        BY <4>1 DEF Whole
    <3>4. PICK g : g = Neo!Empty
      OBVIOUS
    <3>5. /\ g.version = "none" /\ g.governed = FALSE /\ g.memory = <<>>
          /\ g.evidence = <<>> /\ g.cites = {} /\ g.declared = {}
      BY <3>4 DEF Neo!Empty
    <3>6. /\ nVersion' = g.version /\ nGoverned' = g.governed /\ nMemory' = g.memory
          /\ nEvidence' = g.evidence /\ nCites' = g.cites /\ nDeclared' = g.declared
      BY <3>1, <3>4 DEF Neo!Becomes
    <3>7. Neo!IsGraph(g) /\ Whole(g.governed, g.memory, g.evidence, g.cites, nUsed)
      BY <3>2, <3>3, <3>4, <3>5
    <3> QED
      BY <3>6, <3>7
  <2>2. CASE Neo!Restore
    BY <2>2 DEF Neo!Restore, Neo!Becomes, NeoInv, Sound
  <2> QED
    BY <2>1, <2>2
<1>3. GraphTyped'
  <2>1. Neo!Snapshot' = g
    BY <1>2 DEF Neo!Snapshot, Neo!IsGraph
  <2>2. Neo!IsGraph(Neo!Snapshot)'
    BY <1>2, <2>1 DEF Neo!IsGraph
  <2> QED
    BY <2>2, GraphTypes
<1>4. ControlTyped'
  BY <1>1, NeoTyped DEF ControlTyped
<1>5. Opened' /\ Saved' /\ NoneFound'
  BY <1>1 DEF Opened, Saved, NoneFound, Neo!Idle
<1>6. Whole(nGoverned', nMemory', nEvidence', nCites', nUsed')
  BY <1>1, <1>2
<1> QED
  BY <1>1, <1>3, <1>4, <1>5, <1>6, NeoStays

LEMMA NeoStep == ASSUME NeoInv, Neo!Next PROVE NeoInv'
<1>1. CASE Neo!Opening
  BY <1>1, NeoOpening DEF Neo!Opening
<1>2. CASE Neo!Write
  <2>1. PICK c \in Procs :
          \/ \E r \in Repositories : Neo!Register(c, r)
          \/ \E e \in FewEvidence, r \in Repositories : Neo!StoreEvidence(c, e, r)
          \/ \E m \in Memories \ nUsed, r \in Repositories, layer \in Neo!Layers,
                sources \in SUBSET DOMAIN nMemory, own \in SUBSET DOMAIN nEvidence,
                new \in (FewEvidence \ nUsed) \cup {Absent} :
                Neo!StoreMemory(c, m, r, layer, sources, own, new)
          \/ \E m \in DOMAIN nMemory, own \in SUBSET DOMAIN nEvidence : Neo!AttachEvidence(c, m, own)
          \/ \E m \in Memories : Neo!UpdateMemory(c, m) \/ Neo!DeleteMemory(c, m)
    BY <1>2 DEF Neo!Write
  <2>2. Absent \notin nUsed
    BY StoresAssumption, NeoTyped DEF ControlTyped
  <2>3. CASE \E m \in Memories \ nUsed, r \in Repositories, layer \in Neo!Layers,
                sources \in SUBSET DOMAIN nMemory, own \in SUBSET DOMAIN nEvidence,
                new \in (FewEvidence \ nUsed) \cup {Absent} :
                Neo!StoreMemory(c, m, r, layer, sources, own, new)
    BY <2>2, <2>3, NeoStoreMemory
  <2>4. CASE \E r \in Repositories : Neo!Register(c, r)
    BY <2>4, NeoControl
  <2> QED
    BY <2>1, <2>3, <2>4, NeoStoreEvidence, NeoAttachEvidence, NeoUpdateMemory, NeoDeleteMemory
<1>3. CASE Neo!PurgeStep
  BY <1>3, NeoControl, NeoPurgeMemory, NeoPurgeChildren DEF Neo!PurgeStep
<1>4. CASE Neo!Operator
  BY <1>4, NeoSaves, NeoMigrate, NeoAbandon, NeoReplaced DEF Neo!Operator
<1> QED
  BY <1>1, <1>2, <1>3, <1>4 DEF Neo!Next

LEMMA NeoStutter == ASSUME NeoInv, UNCHANGED neo4j PROVE NeoInv'
<1>1. /\ nVersion' = nVersion /\ nGoverned' = nGoverned /\ nMemory' = nMemory
      /\ nEvidence' = nEvidence /\ nCites' = nCites /\ nDeclared' = nDeclared
      /\ nClient' = nClient /\ nPurge' = nPurge /\ nUsed' = nUsed /\ nLegacy' = nLegacy
      /\ nAdmin' = nAdmin /\ nFile' = nFile
  BY DEF neo4j
<1>2. GraphTyped' /\ ControlTyped'
  BY <1>1, NeoTyped DEF GraphTyped, ControlTyped
<1>3. Opened' /\ Saved' /\ NoneFound' /\ Whole(nGoverned', nMemory', nEvidence', nCites', nUsed')
  BY <1>1 DEF NeoInv, Opened, Saved, NoneFound
<1> QED
  BY <1>1, <1>2, <1>3, NeoStays

\* A governed graph is what opening the database checks.
LEMMA NeoInvReopens == NeoInv => Neo4jReopens
<1> SUFFICES ASSUME NeoInv, nGoverned, NEW m \in DOMAIN nMemory
             PROVE  /\ nMemory[m].ids = {e \in Neo!CitedBy(m) : e \in DOMAIN nEvidence}
                    /\ \A e \in Neo!CitedBy(m) \cap DOMAIN nEvidence : nEvidence[e] = nMemory[m].repo
                    /\ nMemory[m].layer # "intent" => nMemory[m].ids # {}
  BY DEF Neo4jReopens, Neo!Valid
<1>1. \A e \in nMemory[m].ids : e \in Neo!CitedBy(m) /\ e \in DOMAIN nEvidence
  BY NeoCited DEF Neo!CitedBy
<1>2. \A e \in Neo!CitedBy(m) : e \in nMemory[m].ids
  BY DEF NeoInv, Whole, Neo!CitedBy
<1>3. nMemory[m].ids = {e \in Neo!CitedBy(m) : e \in DOMAIN nEvidence}
  BY <1>1, <1>2
<1>4. /\ \A e \in nMemory[m].ids : nEvidence[e] = nMemory[m].repo
      /\ nMemory[m].layer # "intent" => nMemory[m].ids # {}
  BY DEF NeoInv, Whole
<1> QED
  BY <1>2, <1>3, <1>4

LEMMA StoresInvInit == StoresInit => StoresInv
BY SqlInit, ArcInit, NeoInit DEF StoresInit, StoresInv

LEMMA StoresInvStep == StoresInv /\ [StoresNext]_storesVars => StoresInv'
<1> SUFFICES ASSUME StoresInv, [StoresNext]_storesVars PROVE StoresInv'
  OBVIOUS
<1>1. SqlInv /\ ArcInv /\ NeoInv
  BY DEF StoresInv
<1>2. CASE Sqlite
  BY <1>1, <1>2, SqlStep, ArcStutter, NeoStutter DEF Sqlite, StoresInv
<1>3. CASE Neo4j
  BY <1>1, <1>3, SqlStutter, ArcStutter, NeoStep DEF Neo4j, StoresInv
<1>4. CASE ArcadeDB
  BY <1>1, <1>4, SqlStutter, ArcStep, NeoStutter DEF ArcadeDB, StoresInv
<1>5. CASE UNCHANGED storesVars
  BY <1>1, <1>5, SqlStutter, ArcStutter, NeoStutter DEF storesVars, StoresInv
<1> QED
  BY <1>2, <1>3, <1>4, <1>5 DEF StoresNext

LEMMA StoresInvariant == StoresSpec => []StoresInv
BY StoresInvInit, StoresInvStep, PTL DEF StoresSpec

\* The rows of every store keep their shape, whatever is written, purged, migrated or restored.
THEOREM StoresTypes == StoresSpec => []StoresTypeOK
<1>1. StoresInv => StoresTypeOK
  BY DEF StoresInv, SqlInv, ArcInv, NeoInv, StoresTypeOK
<1> QED
  BY <1>1, StoresInvariant, PTL

\* Whichever store is in use, no sequence of writes, purges that fail half-way, crashes,
\* migrations and restores leaves a graph that the next start refuses, but for the leftovers
\* named: a file without rows whose creation was cut short, beliefs that a purge of ArcadeDB
\* could not delete, and attestations there of beliefs that delete_memory or a purge that did
\* not succeed deleted.
THEOREM RefusesLeftoversOnly == StoresSpec => []RefusedForLeftoversOnly
<1>1. StoresInv => RefusedForLeftoversOnly
  BY SqlInvReopens, ArcInvReopens, NeoInvReopens DEF StoresInv, RefusedForLeftoversOnly
<1> QED
  BY <1>1, StoresInvariant, PTL

\* An old store is as it was found, or what it held is saved.
THEOREM AlwaysKept == StoresSpec => []OldStoresKept
<1>1. StoresInv => OldStoresKept
  BY DEF StoresInv, SqlInv, NeoInv, OldStoresKept
<1> QED
  BY <1>1, StoresInvariant, PTL

\* Of Neo4j only the purge, or an operator's empty database, loses a repository's record.
LEMMA NeoPurged == ASSUME NeoInv, Neo!Next PROVE Neo4jPurges
<1>1. SUFFICES ASSUME nPurge.repo \in nDeclared \ nDeclared'
               PROVE  \A m \in DOMAIN nMemory' : nMemory'[m].repo = nPurge.repo => m \in nPurge.later
  BY DEF Neo4jPurges
<1>2. Neo!DeleteRepository
  <2>1. ~Neo!Opening
    BY <1>1 DEF Neo!Opening, Neo!Probe, Neo!Mark, Neo!Govern, Neo!Stop, Neo!graph
  <2>2. ~Neo!Write
    <3>1. /\ \A c, r : ~Neo!Register(c, r)
          /\ \A c, m, r, layer, sources, own, new : ~Neo!StoreMemory(c, m, r, layer, sources, own, new)
      BY <1>1 DEF Neo!Register, Neo!StoreMemory
    <3>2. /\ \A c, e, r : ~Neo!StoreEvidence(c, e, r)
          /\ \A c, m, own : ~Neo!AttachEvidence(c, m, own)
          /\ \A c, m : ~Neo!UpdateMemory(c, m) /\ ~Neo!DeleteMemory(c, m)
      BY <1>1 DEF Neo!StoreEvidence, Neo!AttachEvidence, Neo!UpdateMemory, Neo!DeleteMemory
    <3> QED
      BY <3>1, <3>2 DEF Neo!Write
  <2>3. ~Neo!Operator
    <3>1. ~Neo!Backup /\ ~Neo!BeginMigration /\ ~Neo!Migrate /\ ~Neo!AbandonMigration
      BY <1>1 DEF Neo!Backup, Neo!BeginMigration, Neo!Migrate, Neo!AbandonMigration, Neo!graph
    <3>2. nPurge # Neo!Idle
      <4>1. nPurge.repo \in Repositories
        BY <1>1, NeoTyped DEF GraphTyped
      <4> QED
        BY <4>1, StoresAssumption DEF Neo!Idle
    <3> QED
      BY <3>1, <3>2 DEF Neo!Operator, Neo!Reset, Neo!Restore
  <2>4. /\ \A c, r : ~Neo!BeginPurge(c, r)
        /\ ~Neo!PurgeMemory /\ ~Neo!PurgeChildren /\ ~Neo!Verify
    BY <1>1 DEF Neo!BeginPurge, Neo!PurgeMemory, Neo!PurgeChildren, Neo!Verify, Neo!graph
  <2> QED
    BY <2>1, <2>2, <2>3, <2>4 DEF Neo!Next, Neo!PurgeStep
<1>3. nMemory' = nMemory /\ nPurge.at = "record"
  BY <1>2 DEF Neo!DeleteRepository
<1> QED
  BY <1>3 DEF NeoInv, NoneFound

\* The record of a repository goes, in ArcadeDB, only when none of its memories is left and no
\* attestation of what the purge deleted; in Neo4j, only when each of its memories that is left
\* was stored by another process after the purge had found none.
THEOREM AlwaysPurged == StoresSpec => PurgeLeavesNothing
<1>1. StoresInv /\ [StoresNext]_storesVars => [ArcadePurges /\ Neo4jPurges]_storesVars
  <2> SUFFICES ASSUME StoresInv, StoresNext PROVE ArcadePurges /\ Neo4jPurges
    OBVIOUS
  <2>1. CASE ArcadeDB
    <3>1. nDeclared' = nDeclared
      BY <2>1 DEF ArcadeDB, neo4j
    <3> QED
      BY <2>1, <3>1, ArcPurged DEF ArcadeDB, StoresInv, Neo4jPurges
  <2>2. CASE Neo4j
    <3>1. declared' = declared
      BY <2>2 DEF Neo4j, arcade
    <3> QED
      BY <2>2, <3>1, NeoPurged DEF Neo4j, StoresInv, ArcadePurges
  <2>3. CASE Sqlite
    <3>1. declared' = declared /\ nDeclared' = nDeclared
      BY <2>3 DEF Sqlite, arcade, neo4j
    <3> QED
      BY <3>1 DEF ArcadePurges, Neo4jPurges
  <2> QED
    BY <2>1, <2>2, <2>3 DEF StoresNext
<1> QED
  BY <1>1, StoresInvariant, PTL DEF StoresSpec, PurgeLeavesNothing
=============================================================================
