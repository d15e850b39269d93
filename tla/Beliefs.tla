------------------------------ MODULE Beliefs ------------------------------
(***************************************************************************)
(* Where memories come from and how they go: store_memory with sources,    *)
(* revise_memory and delete_memory of core/storage.py, and the trash, the  *)
(* purge and its cascade of core/lifecycle.py.                             *)
(*                                                                         *)
(* Requests to the lifecycle manager run one at a time on the server's     *)
(* event loop.  Workers are the threads in which tools store and revise;   *)
(* they interleave with a purge between any two of its commits.  The       *)
(* vector index is a second store: a row is committed before its vector is *)
(* written, and its vector is deleted before the row.                      *)
(*                                                                         *)
(* Not here: pins and holds, which block a purge like the active status    *)
(* does, the auto-link of a new row, and the calls' validation of content, *)
(* evidence and authority.  Retention purges a set of retired rows.  Of    *)
(* the statuses, "superseded" stands for "merged" too and "pending" for    *)
(* "quarantined" and "rejected": no step here tells them apart.            *)
(***************************************************************************)
EXTENDS Naturals, FiniteSets

CONSTANTS
  Beliefs,      \* ids; one is used for at most one row
  Seeds,        \* rows of the initial store
  Workers,      \* threads that store and revise
  NoBelief,
  MaxMoves,     \* bound on moves to the trash and on PATCHes
  MaxFaults     \* bound on failing calls and process exits

ASSUME IdsAssumption == Seeds \subseteq Beliefs /\ NoBelief \notin Beliefs
ASSUME BoundsAssumption == MaxMoves \in Nat /\ MaxFaults \in Nat

VARIABLES
  row,      \* row[b]: the row of b in memories
  vec,      \* beliefs with an entry in the vector index
  job,      \* job[w]: what worker w is doing
  req,      \* the purge in progress
  crashed,  \* history: whether the process ever ended with work under way
  moves, faults

beliefVars == <<row, vec, job, req, crashed, moves, faults>>
beliefBounds == <<crashed, moves, faults>>

\* "unused" and "gone" are the absence of a row.
Absent == {"unused", "gone"}
NonServable == {"deleted", "superseded"}   \* NON_SERVABLE_STATUSES
Servable == {"active", "pending", "archived"}
BeliefStatuses == Servable \cup NonServable \cup Absent

Stored(b) == row[b].status \notin Absent
Asserted(b) == row[b].status = "active" /\ ~ row[b].revoked
Retired(b) == Stored(b) /\ row[b].status # "active"

\* cites: source_ids; was: deletion.previous_status.
NoRow(s) == [status |-> s, revoked |-> FALSE, cites |-> {}, was |-> "none"]
NewRow(sources) == [NoRow("active") EXCEPT !.cites = sources]

NoJob == [at |-> "idle", new |-> NoBelief, old |-> NoBelief, sources |-> {},
          was |-> "none"]
NoPurge == [at |-> "idle", left |-> {}, derived |-> {}, now |-> NoBelief,
            known |-> {}]

BeliefsInit ==
  /\ row = [b \in Beliefs |-> IF b \in Seeds THEN NewRow({}) ELSE NoRow("unused")]
  /\ vec = Seeds
  /\ job = [w \in Workers |-> NoJob]
  /\ req = NoPurge
  /\ crashed = FALSE /\ moves = 0 /\ faults = 0

\* A call fails.
Fault == faults < MaxFaults /\ faults' = faults + 1

\* An id nobody has yet.
Fresh(b) == row[b].status = "unused" /\ \A w \in Workers : job[w].new # b

-----------------------------------------------------------------------------
(* store_memory *)

\* _validate_belief_references: the sources exist and are not in the trash.
Sources(S) == \A s \in S : Stored(s) /\ row[s].status # "deleted"

\* An episode: its evidence is inserted first, so the check of the sources
\* and the insertion are one write transaction.
StoreEpisode(w, b, S) ==
  /\ job[w].at = "idle" /\ Fresh(b)
  /\ S # {} /\ Sources(S)
  /\ row' = [row EXCEPT ![b] = NewRow(S)]
  /\ job' = [job EXCEPT ![w] = [NoJob EXCEPT !.at = "index", !.new = b]]
  /\ UNCHANGED <<vec, req, beliefBounds>>

\* A semantic belief that brings its evidence: the sources are only read.
CheckSources(w, b, S) ==
  /\ job[w].at = "idle" /\ Fresh(b)
  /\ S # {} /\ Sources(S)
  /\ job' = [job EXCEPT ![w] = [NoJob EXCEPT !.at = "insert", !.new = b, !.sources = S]]
  /\ UNCHANGED <<row, vec, req, beliefBounds>>

\* ... and the row is inserted by the transaction that follows.
Insert(w) ==
  /\ job[w].at = "insert"
  /\ row' = [row EXCEPT ![job[w].new] = NewRow(job[w].sources)]
  /\ job' = [job EXCEPT ![w].at = "index"]
  /\ UNCHANGED <<vec, req, beliefBounds>>

\* The vector is upserted; a failure is logged and the row stays.
Index(w) ==
  /\ job[w].at = "index"
  /\ \/ vec' = vec \cup {job[w].new} /\ UNCHANGED faults
     \/ Fault /\ UNCHANGED vec
  /\ job' = [job EXCEPT ![w] = IF job[w].old = NoBelief THEN NoJob ELSE [@ EXCEPT !.at = "relate"]]
  /\ UNCHANGED <<row, req, crashed, moves>>

-----------------------------------------------------------------------------
(* revise_memory *)

\* The belief is read and found revisable; its successor cites no sources.
Revise(w, b, old) ==
  /\ job[w].at = "idle" /\ Fresh(b)
  /\ Stored(old) /\ row[old].status \notin NonServable
  /\ job' = [job EXCEPT ![w] = [NoJob EXCEPT !.at = "insert", !.new = b, !.old = old,
                                             !.was = row[old].was]]
  /\ UNCHANGED <<row, vec, req, beliefBounds>>

\* add_relationship: both ends must still exist.
Relate(w) ==
  /\ job[w].at = "relate"
  /\ \/ Stored(job[w].new) /\ Stored(job[w].old)
        /\ job' = [job EXCEPT ![w].at = "mark"] /\ UNCHANGED faults
     \/ ~ (Stored(job[w].new) /\ Stored(job[w].old))
        /\ job' = [job EXCEPT ![w].at = "compensate"] /\ UNCHANGED faults
     \/ Fault /\ job' = [job EXCEPT ![w].at = "compensate"]
  /\ UNCHANGED <<row, vec, req, crashed, moves>>

\* Mutant: a predecessor that could not be marked is nobody's concern.
MarkMissed(w) == NoJob

\* The successor goes again when its predecessor could not be marked.
Missed(w) == [job[w] EXCEPT !.at = "compensate"]

\* The predecessor is superseded; its metadata is written from what was read.
Mark(w) ==
  LET old == job[w].old IN
  /\ job[w].at = "mark"
  /\ \/ /\ Stored(old)
        /\ row' = [row EXCEPT ![old].status = "superseded", ![old].was = job[w].was]
        /\ job' = [job EXCEPT ![w] = NoJob]
        /\ UNCHANGED faults
     \/ /\ (~ Stored(old) /\ UNCHANGED faults) \/ Fault
        /\ job' = [job EXCEPT ![w] = Missed(w)]
        /\ UNCHANGED row
  /\ UNCHANGED <<vec, req, crashed, moves>>

\* delete_memory's transaction: the row goes, and nobody cites it any more.
Without(b) ==
  [c \in Beliefs |-> IF c = b THEN NoRow("gone") ELSE [row[c] EXCEPT !.cites = @ \ {b}]]

\* The successor is deleted again, unless that fails, which is only logged.
Compensate(w) ==
  LET b == job[w].new IN
  /\ job[w].at = "compensate"
  /\ \/ /\ Stored(b)
        /\ vec' = vec \ {b} /\ row' = Without(b) /\ UNCHANGED faults
     \/ ~ Stored(b) /\ UNCHANGED <<row, vec, faults>>
     \/ Fault /\ UNCHANGED <<row, vec>>
  /\ job' = [job EXCEPT ![w] = NoJob]
  /\ UNCHANGED <<req, crashed, moves>>

-----------------------------------------------------------------------------
(* the trash and status changes *)

\* soft_delete
MoveToTrash(b) ==
  /\ req.at = "idle" /\ moves < MaxMoves
  /\ Stored(b)
  /\ row' = [row EXCEPT ![b].status = "deleted", ![b].was = row[b].status]
  /\ moves' = moves + 1
  /\ UNCHANGED <<vec, job, req, crashed, faults>>

\* restore: a status that cannot be restored becomes active.
Restore(b) ==
  /\ req.at = "idle"
  /\ row[b].status = "deleted"
  /\ row' = [row EXCEPT ![b].status = IF row[b].was = "archived"
                                      THEN "archived" ELSE "active",
                        ![b].was = "none"]
  /\ UNCHANGED <<vec, job, req, beliefBounds>>

\* PATCH /memories/{id} writes the status that it is given over any other; with metadata of its
\* own it drops the record of a deletion.
Patch(b, s, was) ==
  /\ req.at = "idle"
  /\ Stored(b)
  /\ moves < MaxMoves /\ moves' = moves + 1
  /\ s \in Servable \cup NonServable /\ was \in {row[b].was, "none"}
  /\ row' = [row EXCEPT ![b].status = s, ![b].was = was]
  /\ UNCHANGED <<vec, job, req, crashed, faults>>

-----------------------------------------------------------------------------
(* purge *)

\* Mutant: whoever cites what is purged is left alone.
CascadeNone(S) == {b \in {} : row[b].cites \cap S # {}}

\* Active rows derived from what is purged.
Cascade(S) == {b \in Beliefs : row[b].status = "active" /\ row[b].cites \cap S # {}}

\* purge_preview: nothing active is purged; missing ids are skipped.
BeginPurge(S) ==
  /\ req.at = "idle"
  /\ S # {} /\ \A b \in S : Retired(b)
  /\ req' = [NoPurge EXCEPT !.at = "revoke", !.left = S, !.derived = Cascade(S),
               !.known = {b \in Beliefs : row[b].status = "active"}]
  /\ UNCHANGED <<row, vec, job, beliefBounds>>

\* _revoke_derived, one belief.
RevokeDerived(b) ==
  /\ req.at = "revoke" /\ b \in req.derived
  /\ row' = IF Stored(b) THEN [row EXCEPT ![b].revoked = TRUE] ELSE row
  /\ req' = [req EXCEPT !.derived = @ \ {b}]
  /\ UNCHANGED <<vec, job, beliefBounds>>

\* delete_memory answers no and keeps the row, to be purged again.
VectorFault(b) == [req EXCEPT !.left = @ \ {b}]

\* delete_memory, one memory: its vector first.
DropVector(b) ==
  /\ req.at = "revoke" /\ req.derived = {} /\ b \in req.left
  /\ \/ /\ vec' = vec \ {b}
        /\ req' = [req EXCEPT !.at = "row", !.now = b]
        /\ UNCHANGED faults
     \/ /\ Fault
        /\ req' = VectorFault(b)
        /\ UNCHANGED vec
  /\ UNCHANGED <<row, job, crashed, moves>>

DropRow ==
  /\ req.at = "row"
  /\ row' = Without(req.now)
  /\ req' = [req EXCEPT !.at = "revoke", !.left = @ \ {req.now}, !.now = NoBelief]
  /\ UNCHANGED <<vec, job, beliefBounds>>

EndPurge ==
  /\ req.at = "revoke" /\ req.derived = {} /\ req.left = {}
  /\ req' = NoPurge
  /\ UNCHANGED <<row, vec, job, beliefBounds>>

\* The process ends: whatever was under way stays as far as it got.
Exit ==
  /\ Fault
  /\ req # NoPurge \/ \E w \in Workers : job[w] # NoJob
  /\ crashed' = TRUE
  /\ job' = [w \in Workers |-> NoJob]
  /\ req' = NoPurge
  /\ UNCHANGED <<row, vec, moves>>

BeliefsNext ==
  \/ \E w \in Workers, b \in Beliefs, S \in SUBSET Beliefs :
       StoreEpisode(w, b, S) \/ CheckSources(w, b, S)
  \/ \E w \in Workers, b, old \in Beliefs : Revise(w, b, old)
  \/ \E w \in Workers : Insert(w) \/ Index(w) \/ Relate(w) \/ Mark(w) \/ Compensate(w)
  \/ \E b \in Beliefs : MoveToTrash(b) \/ Restore(b)
  \/ \E b \in Beliefs, s, was \in BeliefStatuses \cup {"none"} : Patch(b, s, was)
  \/ \E S \in SUBSET Beliefs : BeginPurge(S)
  \/ \E b \in Beliefs : RevokeDerived(b) \/ DropVector(b)
  \/ DropRow \/ EndPurge \/ Exit

BeliefsSpec == BeliefsInit /\ [][BeliefsNext]_beliefVars
=============================================================================
