------------------------------ MODULE Dreaming ------------------------------
(***************************************************************************)
(* Dreaming cycles of one project (core/dreaming): a run plans proposals   *)
(* from the rows, merges automatically the exact copies it may, and leaves *)
(* the rest for review; each change is journaled and can be undone.        *)
(*                                                                         *)
(* Runs, reviews and undos are each one BEGIN IMMEDIATE transaction, on    *)
(* threads of their own.  Beside them the rows are written by people       *)
(* (update_memory), by soft deletion and restoring, which read a row and   *)
(* later write back the metadata they read, and by importance decay, which *)
(* does that with a whole page of rows.                                    *)
(*                                                                         *)
(* A fingerprint is the row itself: access counts are not part of it.      *)
(* Not here: windows and limits (the project fits one window), proposals   *)
(* that can only be dismissed, the schedule, the vector index, archived    *)
(* projects, the merges of core/lifecycle.py (module Merge).               *)
(***************************************************************************)
EXTENDS Naturals, Sequences, FiniteSets

CONSTANTS
  Ids,            \* memory ids, episodic notes of one scope
  Texts,          \* contents
  Derived,        \* ids of notes with source_ids: reviewed, never automatic
  Expired,        \* ids of notes whose valid_to has passed
  Related,        \* ids of notes that may have links before the first cycle
  DecayEnabled,   \* configuration: importance decay runs
  None,
  Elsewhere,      \* an archived_at that dreaming did not write
  MaxRuns, MaxWrites

Statuses == {"unstored", "active", "archived", "merged", "deleted", "purged"}
Kinds == {"duplicate", "expired"}

\* The metadata that dreaming, people and deletion write.
Plain == [mark |-> None, into |-> None, pin |-> FALSE, deleted |-> None]

ASSUME DreamingAssumption ==
  /\ Derived \subseteq Ids /\ Expired \subseteq Ids /\ Related \subseteq Ids
  /\ DecayEnabled \in BOOLEAN
  /\ None \notin Ids \cup Statuses \cup {Elsewhere}
  /\ MaxRuns \in Nat /\ MaxWrites \in Nat

VARIABLES
  mem,          \* table memories
  linked,       \* ids with graph links or derived notes
  runs,         \* table dream_runs: the items of each run
  actions,      \* table dream_actions
  dismissals,   \* table dream_dismissals: signatures
  page,         \* metadata of the rows that a decay pass has read, not yet written
  request,      \* a soft deletion or restoring that has read its row
  writes        \* number of writes, requests and passes begun, at most MaxWrites

vars == <<mem, linked, runs, actions, dismissals, page, request, writes>>
journal == <<runs, actions, dismissals>>

Stored(t) == [status |-> "active", text |-> t, meta |-> Plain, arch |-> None, faded |-> FALSE]
NoRow(s) == [Stored(None) EXCEPT !.status = s]

Init ==
  /\ \E s \in SUBSET Ids, t \in [Ids -> Texts] :
       mem = [m \in Ids |-> IF m \in s THEN Stored(t[m]) ELSE NoRow("unstored")]
  /\ linked \in SUBSET Related
  /\ runs = <<>>
  /\ actions = {}
  /\ dismissals = {}
  /\ page = << >>
  /\ request = None
  /\ writes = 0

-----------------------------------------------------------------------------
(* Planning *)

Active == {m \in Ids : mem[m].status = "active"}

\* safe_duplicate_key: everything that carries trust and scope.
Key(m) == <<mem[m].text, mem[m].meta, mem[m].faded, m \in Expired>>

Copies(m) == {n \in Active : Key(n) = Key(m)}
Duplicates == {g \in {Copies(m) : m \in Active} : Cardinality(g) > 1}

Protected(m) == mem[m].meta.pin

\* review_merge_blocker
Blocked(g) == \E m \in g : Protected(m) \/ m \in linked

Automatic(g) == ~ Blocked(g) /\ g \cap Derived = {}

Lapsed == {{m} : m \in {n \in Active \cap Expired : ~ Protected(n)}}

Fingerprints(g) == [m \in g |-> mem[m]]

\* Mutant: the order by use, which decides the copy kept, is part of it.
SignatureWithOrder(i) == <<i.kind, i.ids, i.keep, i.seen>>

\* A proposal's identity and signature, which a dismissal remembers.
Signature(i) == <<i.kind, i.ids, i.seen>>

\* The copy kept is the most used one: any, as reads are not modelled.
Proposal(kind, g, k) == [kind |-> kind, ids |-> g, keep |-> k, seen |-> Fingerprints(g)]

\* _plan: kept is the copy that each group keeps.
Report(kept) ==
  {i \in {Proposal("duplicate", g, kept[g]) : g \in Duplicates}
           \cup {Proposal("expired", g, None) : g \in Lapsed} : Signature(i) \notin dismissals}

Merged(kept) == {i \in Report(kept) : i.kind = "duplicate" /\ Automatic(i.ids)}

-----------------------------------------------------------------------------
(* The journal: apply and undo *)

ActionId(r, i) == <<r, i.kind, i.ids>>

Changed(i) == IF i.kind = "duplicate" THEN i.ids \ {i.keep} ELSE i.ids

\* Mutant: fingerprints are not compared.
UnchangedStatus(i) == \A m \in i.ids : mem[m].status = "active"

\* If a source has changed, nothing is applied.
Unchanged(i) == \A m \in i.ids : mem[m].status = "active" /\ mem[m] = i.seen[m]

\* What apply makes of row v.
Applied(v, r, i) ==
  IF i.kind = "duplicate"
  THEN [v EXCEPT !.status = "merged", !.meta.mark = ActionId(r, i), !.meta.into = i.keep]
  ELSE [v EXCEPT !.status = "archived", !.meta.mark = ActionId(r, i), !.arch = ActionId(r, i)]

\* The row of table dream_actions: the rows before the change and after it.
Action(r, i) ==
  [run |-> r, item |-> i,
   before |-> [m \in Changed(i) |-> mem[m]],
   after |-> [m \in Changed(i) |-> Applied(mem[m], r, i)],
   status |-> "applied"]

\* apply for all items of set s, which share no id.
Applying(s, r) ==
  /\ mem' = [m \in Ids |-> IF \E i \in s : m \in Changed(i)
                           THEN Applied(mem[m], r, CHOOSE i \in s : m \in Changed(i))
                           ELSE mem[m]]
  /\ actions' = actions \cup {Action(r, i) : i \in s}

\* Mutant: archived_at stays.
UndoneInPart(v, b) == [v EXCEPT !.status = b.status, !.meta = b.meta]

\* status, metadata and archived_at go back; the rest is as it is.
Undone(v, b) == [v EXCEPT !.status = b.status, !.meta = b.meta, !.arch = b.arch]

\* The run's report is saved with an item's resolution.
Resolve(r, i, resolution) == runs' = [runs EXCEPT ![r][i] = resolution]

-----------------------------------------------------------------------------
(* The operations *)

\* run: what may be merged is, and the report says what has become of each item.
Run(kept) ==
  LET r == Len(runs) + 1
      report == [i \in Report(kept) |-> IF i \in Merged(kept) THEN "applied" ELSE "pending"]
  IN /\ r <= MaxRuns
     /\ Applying(Merged(kept), r)
     /\ runs' = Append(runs, report)
     /\ UNCHANGED <<linked, dismissals, page, request, writes>>

\* review: merge copies or archive a lapsed note.
Review(r, i) ==
  /\ runs[r][i] = "pending"
  /\ i.kind = "duplicate" => ~ Blocked(i.ids)
  /\ Unchanged(i)
  /\ Applying({i}, r)
  /\ Resolve(r, i, "applied")
  /\ UNCHANGED <<linked, dismissals, page, request, writes>>

Dismiss(r, i) ==
  /\ runs[r][i] = "pending"
  /\ Resolve(r, i, "dismissed")
  /\ dismissals' = dismissals \cup {Signature(i)}
  /\ UNCHANGED <<mem, linked, actions, page, request, writes>>

Undo(a) ==
  /\ a.status = "applied"
  /\ \A m \in DOMAIN a.after : mem[m] = a.after[m]
  /\ mem' = [m \in Ids |-> IF m \in DOMAIN a.after THEN Undone(mem[m], a.before[m]) ELSE mem[m]]
  /\ actions' = (actions \ {a}) \cup {[a EXCEPT !.status = "undone"]}
  /\ dismissals' = dismissals \cup {Signature(a.item)}
  /\ UNCHANGED <<linked, runs, page, request, writes>>

-----------------------------------------------------------------------------
(* Other writers of the rows *)

Exists(m) == mem[m].status \notin {"unstored", "purged"}

Write == writes < MaxWrites /\ writes' = writes + 1

Store(m, t) ==
  /\ Write
  /\ mem[m].status = "unstored"
  /\ mem' = [mem EXCEPT ![m] = Stored(t)]
  /\ UNCHANGED <<linked, journal, page, request>>

\* update_memory: new content, pinning with the metadata kept or replaced.
Edit(m) ==
  /\ Write
  /\ Exists(m)
  /\ \/ \E t \in Texts : mem' = [mem EXCEPT ![m].text = t]
     \/ \E p \in BOOLEAN, d \in {mem[m].meta, Plain} :
          mem' = [mem EXCEPT ![m].meta = [d EXCEPT !.pin = p]]
  /\ UNCHANGED <<linked, journal, page, request>>

\* update_memory: a new status and archived_at with it.
SetStatus(m) ==
  /\ Write
  /\ Exists(m)
  /\ \/ mem' = [mem EXCEPT ![m].status = "active", ![m].arch = None]
     \/ mem' = [mem EXCEPT ![m].status = "archived",
                           ![m].arch = IF @ = None THEN Elsewhere ELSE @]
     \/ mem' = [mem EXCEPT ![m].status = "merged"]
  /\ UNCHANGED <<linked, journal, page, request>>

Purge(m) ==
  /\ Write
  /\ Exists(m)
  /\ mem' = [mem EXCEPT ![m] = NoRow("purged")]
  /\ UNCHANGED <<linked, journal, page, request>>

Relate(m) ==
  /\ Write
  /\ linked' \in {linked \cup {m}, linked \ {m}}
  /\ UNCHANGED <<mem, journal, page, request>>

\* soft_delete and restore read the row.
ReadRow(m) ==
  /\ Write
  /\ request = None
  /\ Exists(m)
  /\ request' = [id |-> m, status |-> mem[m].status, meta |-> mem[m].meta]
  /\ UNCHANGED <<mem, linked, journal, page>>

\* soft_delete keeps the status it read in the metadata it read.
SoftDelete ==
  LET m == request.id IN
  /\ request # None
  /\ mem' = IF Exists(m)
            THEN [mem EXCEPT ![m].status = "deleted",
                             ![m].meta = [request.meta EXCEPT !.deleted = request.status]]
            ELSE mem
  /\ request' = None
  /\ UNCHANGED <<linked, journal, page, writes>>

\* restore: only to active or archived.
Restore ==
  LET m == request.id
      s == IF request.meta.deleted = "archived" THEN "archived" ELSE "active"
  IN /\ request # None
     /\ request.status = "deleted"
     /\ mem' = IF Exists(m)
               THEN [mem EXCEPT ![m].status = s,
                                ![m].meta = [request.meta EXCEPT !.deleted = None],
                                ![m].arch = IF s = "active" THEN None
                                            ELSE IF @ = None THEN Elsewhere ELSE @]
               ELSE mem
     /\ request' = None
     /\ UNCHANGED <<linked, journal, page, writes>>

\* decay_old_memories reads a page of active rows that have faded enough.
ReadPage ==
  /\ DecayEnabled
  /\ Write
  /\ DOMAIN page = {}
  /\ \E s \in SUBSET {m \in Active : ~ mem[m].faded} :
       page' = [m \in s |-> mem[m].meta]
  /\ UNCHANGED <<mem, linked, journal, request>>

\* It writes each row's importance, with the metadata of the page.
Fade(m) ==
  /\ mem' = IF Exists(m) THEN [mem EXCEPT ![m].faded = TRUE, ![m].meta = page[m]] ELSE mem
  /\ page' = [n \in DOMAIN page \ {m} |-> page[n]]
  /\ UNCHANGED <<linked, journal, request, writes>>

\* A pass, or a request, ends early.
Crash ==
  /\ page' = << >>
  /\ request' = None
  /\ UNCHANGED <<mem, linked, journal, writes>>

Next ==
  \/ \E kept \in [Duplicates -> Ids] : (\A g \in Duplicates : kept[g] \in g) /\ Run(kept)
  \/ \E r \in DOMAIN runs : \E i \in DOMAIN runs[r] : Review(r, i) \/ Dismiss(r, i)
  \/ \E a \in actions : Undo(a)
  \/ \E m \in Ids, t \in Texts : Store(m, t)
  \/ \E m \in Ids : \/ Edit(m) \/ SetStatus(m) \/ Purge(m)
                    \/ Relate(m) \/ ReadRow(m)
  \/ SoftDelete
  \/ Restore
  \/ ReadPage
  \/ \E m \in DOMAIN page : Fade(m)
  \/ Crash

Spec == Init /\ [][Next]_vars
=============================================================================
