----------------------------- MODULE VectorIndex -----------------------------
(***************************************************************************)
(* The vector index beside the SQLite rows (core/storage.py): how writes,  *)
(* deletions, imports and rebuilds keep it up to date, and how a search    *)
(* copes with an index that is not.                                        *)
(*                                                                         *)
(* The index is not part of any transaction.  Each operation runs on a     *)
(* thread; a step is one commit, one read of rows, or one call of the      *)
(* index.  An import holds SQLite's write lock while it writes its         *)
(* vectors; every other operation takes the lock for one commit at a time. *)
(*                                                                         *)
(* One layer and one repository, of a layer whose content may be edited; a *)
(* text either has a term of the query or has not.  Results are sets: any  *)
(* subset of the right size may be the best.  Not here: turn keys, the     *)
(* backfill of a new collection, the other tables that an import fills.    *)
(***************************************************************************)
EXTENDS Naturals, FiniteSets, FiniteSetsExt, Functions

CONSTANTS
  Ids,          \* memory ids; a stored memory gets one that was never used
  Workers,      \* threads
  Limit,        \* results of a search
  None,
  MaxWrites,    \* bound on rows stored and updated, and on imports
  MaxFaults     \* bound on failing calls of the index and process exits

ASSUME IndexAssumption ==
  /\ IsFiniteSet(Ids) /\ None \notin Ids \cup Workers
  /\ Limit \in Nat /\ MaxWrites \in Nat /\ MaxFaults \in Nat

Present == {"active", "archived"}
Texts == {"match", "other"}
Entries == [status : Present, text : Texts]

VARIABLES
  row,      \* row[m]: status and text; status "unborn" or "gone": no row
  vec,      \* entries of the index: a function from ids
  job,      \* job[w]: the operation of w and its local variables
  writer,   \* the worker that holds SQLite's write lock for an import
  stale,    \* history: ids whose entry need not agree with their row
  writes, faults

vars == <<row, vec, job, writer, stale, writes, faults>>

Stored(m) == row[m].status \in Present
Live(r) == {m \in Ids : r[m].status = "active"}
Matching(r) == {m \in Live(r) : r[m].text = "match"}

\* put: entries to be written; adds: rows to be inserted; left: hits not read
\* yet; found: results.  History: sole, ids on which no other operation has been
\* under way; steady, active matches ever since a search began; never, ids that
\* have not been active since.
Idle == [at |-> "idle", id |-> None, text |-> None, put |-> <<>>, adds |-> <<>>,
         left |-> {}, found |-> {}, sole |-> {}, steady |-> {}, never |-> {}]

\* The ids whose entry an operation is going to write or remove.
Busy(j) == DOMAIN j.put \cup ({j.id} \ {None})
Others(w) == UNION {Busy(job[v]) : v \in Workers \ {w}}

\* w turns to operation j, as rows become r and w begins to work on ids s; what
\* that means for the history variables of the others.
Noticed(j, r, s) ==
  [j EXCEPT !.sole = @ \ s, !.steady = @ \cap Matching(r), !.never = @ \ Live(r)]
Turns(w, j, r, s) ==
  job' = [v \in Workers |-> IF v = w THEN j ELSE Noticed(job[v], r, s)]

\* w begins operation j on ids s: two operations on an id may leave an entry
\* that is of neither.
Begins(w, j, r, s) ==
  /\ Turns(w, [j EXCEPT !.sole = s \ Others(w)], r, s)
  /\ stale' = stale \cup (s \cap Others(w))

\* w goes on with j, changing no row and touching no new id.
Goes(w, j) == job' = [job EXCEPT ![w] = j] /\ UNCHANGED stale

\* w ends, having brought the entries and the rows of ids s together.
Ends(w, r, s) == Turns(w, Idle, r, {}) /\ stale' = stale \ (job[w].sole \cap s)

\* w gives up, with a log entry at most; the entries of s are left behind.
GivesUp(w, s) == job' = [job EXCEPT ![w] = Idle] /\ stale' = stale \cup s

Fault == faults < MaxFaults /\ faults' = faults + 1
Written(f) == [m \in DOMAIN f \cup DOMAIN vec |-> IF m \in DOMAIN f THEN f[m] ELSE vec[m]]
Without(s) == Restrict(vec, DOMAIN vec \ s)
Entry(m, s, t) == [x \in {m} |-> [status |-> s, text |-> t]]

Init ==
  /\ row = [m \in Ids |-> [status |-> "unborn", text |-> "other"]]
  /\ vec = <<>>
  /\ job = [w \in Workers |-> Idle]
  /\ writer = None
  /\ stale = {}
  /\ writes = 0 /\ faults = 0

(***************************************************************************)
(* store_memory: the row is committed, then its entry written; a failure   *)
(* of the index is logged.                                                 *)
(***************************************************************************)
Store(w, m, t) ==
  /\ job[w].at = "idle" /\ writer = None
  /\ row[m].status = "unborn"
  /\ writes < MaxWrites /\ writes' = writes + 1
  /\ row' = [row EXCEPT ![m] = [status |-> "active", text |-> t]]
  /\ Begins(w, [Idle EXCEPT !.at = "index", !.put = Entry(m, "active", t)], row', {m})
  /\ UNCHANGED <<vec, writer, faults>>

Index(w) ==
  /\ job[w].at = "index"
  /\ \/ /\ vec' = Written(job[w].put)
        /\ Ends(w, row, DOMAIN job[w].put)
        /\ UNCHANGED faults
     \/ Fault /\ GivesUp(w, DOMAIN job[w].put) /\ UNCHANGED vec
  /\ UNCHANGED <<row, writer, writes>>

(***************************************************************************)
(* update_memory and sync_vector_entry: the row is committed, read back,   *)
(* and its status copied to the entry together with the text of the call;  *)
(* an id without an entry gets none.                                       *)
(***************************************************************************)
Update(w, m, s, t) ==
  /\ job[w].at = "idle" /\ writer = None
  /\ Stored(m) /\ <<s, t>> # <<None, None>>
  /\ writes < MaxWrites /\ writes' = writes + 1
  /\ row' = [row EXCEPT ![m] = [status |-> IF s = None THEN @.status ELSE s,
                                text |-> IF t = None THEN @.text ELSE t]]
  /\ Begins(w, [Idle EXCEPT !.at = "sync", !.id = m, !.text = t], row', {m})
  /\ UNCHANGED <<vec, writer, faults>>

ReadBack(w) ==
  /\ job[w].at = "sync"
  /\ LET m == job[w].id IN
     IF Stored(m)
       THEN Goes(w, [job[w] EXCEPT !.at = "copy",
                       !.put = Entry(m, row[m].status, job[w].text)])
       ELSE GivesUp(w, {})
  /\ UNCHANGED <<row, vec, writer, writes, faults>>

\* The second alternative: the new text could not be embedded, the status is
\* copied all the same.
Copy(w) ==
  /\ job[w].at = "copy"
  /\ LET m == job[w].id
         new == job[w].put[m]
         keep == [status |-> new.status, text |-> vec[m].text]
     IN \/ /\ m \in DOMAIN vec
           /\ vec' = [vec EXCEPT ![m] = IF new.text = None THEN keep ELSE new]
           /\ Ends(w, row, IF new.text = None THEN {} ELSE {m})
           /\ UNCHANGED faults
        \/ /\ m \in DOMAIN vec /\ new.text # None
           /\ Fault
           /\ vec' = [vec EXCEPT ![m] = keep]
           /\ GivesUp(w, {m})
        \/ m \notin DOMAIN vec /\ GivesUp(w, {}) /\ UNCHANGED <<vec, faults>>
        \/ Fault /\ GivesUp(w, {m}) /\ UNCHANGED vec
  /\ UNCHANGED <<row, writer, writes>>

(***************************************************************************)
(* delete_memory: the entry goes first, and the row only after it.         *)
(***************************************************************************)
Delete(w, m) ==
  /\ job[w].at = "idle"
  /\ Stored(m)
  /\ Begins(w, [Idle EXCEPT !.at = "drop", !.id = m], row, {m})
  /\ UNCHANGED <<row, vec, writer, writes, faults>>

\* Mutant: the row goes although its entry could not be removed.
DropHopefully(w) ==
  /\ job[w].at = "drop"
  /\ \/ /\ vec' = Without({job[w].id})
        /\ Goes(w, [job[w] EXCEPT !.at = "remove"])
        /\ UNCHANGED faults
     \/ Fault /\ Goes(w, [job[w] EXCEPT !.at = "remove"]) /\ UNCHANGED vec
  /\ UNCHANGED <<row, writer, writes>>

Drop(w) ==
  /\ job[w].at = "drop"
  /\ \/ /\ vec' = Without({job[w].id})
        /\ Goes(w, [job[w] EXCEPT !.at = "remove"])
        /\ UNCHANGED faults
     \/ Fault /\ GivesUp(w, {}) /\ UNCHANGED vec
  /\ UNCHANGED <<row, writer, writes>>

Remove(w) ==
  /\ job[w].at = "remove"
  /\ LET m == job[w].id IN
     \/ /\ writer = None
        /\ row' = [row EXCEPT ![m] = [status |-> "gone", text |-> "other"]]
        /\ Ends(w, row', {m})
        /\ UNCHANGED faults
     \/ Fault /\ GivesUp(w, {m}) /\ UNCHANGED row
  /\ UNCHANGED <<vec, writer, writes>>

(***************************************************************************)
(* rebuild_embedding_index: the rows of a scope are read at once; those    *)
(* that could be embedded are written in one call.                         *)
(***************************************************************************)
Rebuild(w, s) ==
  /\ job[w].at = "idle"
  /\ s # {} /\ \A m \in s : Stored(m)
  /\ Begins(w, [Idle EXCEPT !.at = "upsert", !.put = Restrict(row, s)], row, s)
  /\ UNCHANGED <<row, vec, writer, writes, faults>>

Upsert(w) ==
  /\ job[w].at = "upsert"
  /\ \/ /\ vec' = Written(job[w].put)
        /\ Ends(w, row, DOMAIN job[w].put)
        /\ UNCHANGED faults
     \/ Fault /\ GivesUp(w, {}) /\ UNCHANGED vec
  /\ UNCHANGED <<row, writer, writes>>

(***************************************************************************)
(* import_graph of memories f, in one transaction: the write lock, the     *)
(* collision checks, the entries that are missing, the commit; after any   *)
(* failure a rollback, and then the removal of those entries.              *)
(***************************************************************************)
Missing(f) == Restrict(f, DOMAIN f \ DOMAIN vec)
Collides(f) == \E m \in DOMAIN f : Stored(m) /\ row[m] # f[m]

Import(w, f) ==
  /\ job[w].at = "idle" /\ writer = None
  /\ \A m \in DOMAIN f \cap DOMAIN vec : Stored(m)      \* else it is refused
  /\ writes < MaxWrites /\ writes' = writes + 1
  /\ LET j == [Idle EXCEPT !.put = Missing(f),
                 !.adds = Restrict(f, {m \in DOMAIN f : ~ Stored(m)})]
     IN IF Collides(f)
          THEN /\ Begins(w, [j EXCEPT !.at = "undo"], row, DOMAIN j.put)
               /\ UNCHANGED writer
          ELSE /\ Begins(w, [j EXCEPT !.at = "fill"], row, DOMAIN j.put)
               /\ writer' = w
  /\ UNCHANGED <<row, vec, faults>>

Fill(w) ==
  /\ job[w].at = "fill"
  /\ \/ /\ vec' = Written(job[w].put)
        /\ Goes(w, [job[w] EXCEPT !.at = "commit"])
        /\ UNCHANGED <<writer, faults>>
     \/ /\ Fault
        /\ Goes(w, [job[w] EXCEPT !.at = "undo"])
        /\ writer' = None
        /\ UNCHANGED vec
  /\ UNCHANGED <<row, writes>>

Commit(w) ==
  /\ job[w].at = "commit"
  /\ \/ /\ row' = [m \in Ids |-> IF m \in DOMAIN job[w].adds THEN job[w].adds[m] ELSE row[m]]
        /\ Ends(w, row', DOMAIN job[w].put)
        /\ UNCHANGED faults
     \/ Fault /\ Goes(w, [job[w] EXCEPT !.at = "undo"]) /\ UNCHANGED row
  /\ writer' = None
  /\ UNCHANGED <<vec, writes>>

Undo(w) ==
  /\ job[w].at = "undo"
  /\ \/ vec' = Without(DOMAIN job[w].put) /\ GivesUp(w, {}) /\ UNCHANGED faults
     \/ Fault /\ GivesUp(w, DOMAIN job[w].put) /\ UNCHANGED vec
  /\ UNCHANGED <<row, writer, writes>>

(***************************************************************************)
(* search_memories: the nearest entries with status active; the row of     *)
(* each; then, for want of results, the best of the rows with a term of    *)
(* the query, from a window that makes up for those already found.         *)
(***************************************************************************)
Search(w) ==
  /\ job[w].at = "idle"
  /\ Goes(w, [Idle EXCEPT !.at = "query", !.steady = Matching(row), !.never = Ids \ Live(row)])
  /\ UNCHANGED <<row, vec, writer, writes, faults>>

Least(a, b) == IF a < b THEN a ELSE b
Best(n, s) == kSubset(Least(n, Cardinality(s)), s)

Query(w) ==
  /\ job[w].at = "query"
  /\ \/ /\ \E hits \in Best(Limit, {m \in DOMAIN vec : vec[m].status = "active"}) :
             Goes(w, [job[w] EXCEPT !.at = "read", !.left = hits])
        /\ UNCHANGED faults
     \/ Fault /\ Goes(w, [job[w] EXCEPT !.at = "read"])
  /\ UNCHANGED <<row, vec, writer, writes>>

\* Mutant: the status of the entry is trusted.
ReadHitTrustfully(w, m) ==
  /\ job[w].at = "read" /\ m \in job[w].left
  /\ Goes(w, [job[w] EXCEPT !.left = @ \ {m},
                !.found = IF Stored(m) THEN @ \cup {m} ELSE @])
  /\ UNCHANGED <<row, vec, writer, writes, faults>>

ReadHit(w, m) ==
  /\ job[w].at = "read" /\ m \in job[w].left
  /\ Goes(w, [job[w] EXCEPT !.left = @ \ {m},
                !.found = IF m \in Live(row) THEN @ \cup {m} ELSE @])
  /\ UNCHANGED <<row, vec, writer, writes, faults>>

\* Mutant: the window takes no account of the results already found.
TextSearchNarrow(w) ==
  /\ job[w].at = "read" /\ job[w].left = {}
  /\ LET found == job[w].found
         wanted == Limit - Cardinality(found)
     IN \E window \in Best(wanted, Matching(row)) :
        \E taken \in Best(wanted, window \ found) :
          Goes(w, [job[w] EXCEPT !.at = "done", !.found = found \cup taken])
  /\ UNCHANGED <<row, vec, writer, writes, faults>>

TextSearch(w) ==
  /\ job[w].at = "read" /\ job[w].left = {}
  /\ LET found == job[w].found
         wanted == Limit - Cardinality(found)
     IN \E window \in Best(wanted + Cardinality(found), Matching(row)) :
        \E taken \in Best(wanted, window \ found) :
          Goes(w, [job[w] EXCEPT !.at = "done", !.found = found \cup taken])
  /\ UNCHANGED <<row, vec, writer, writes, faults>>

Reply(w) ==
  /\ job[w].at = "done"
  /\ Goes(w, Idle)
  /\ UNCHANGED <<row, vec, writer, writes, faults>>

\* The process exits: SQLite rolls the import back, and nobody removes its
\* entries.
Crash ==
  /\ Fault
  /\ stale' = stale \cup UNION {Busy(job[w]) : w \in Workers}
  /\ job' = [w \in Workers |-> Idle]
  /\ writer' = None
  /\ UNCHANGED <<row, vec, writes>>

Next ==
  \/ \E w \in Workers :
       \/ \E m \in Ids, t \in Texts : Store(w, m, t)
       \/ \E m \in Ids, s \in Present \cup {None}, t \in Texts \cup {None} : Update(w, m, s, t)
       \/ \E m \in Ids : Delete(w, m) \/ ReadHit(w, m)
       \/ \E s \in SUBSET Ids : Rebuild(w, s) \/ \E f \in [s -> Entries] : Import(w, f)
       \/ Index(w) \/ ReadBack(w) \/ Copy(w) \/ Drop(w) \/ Remove(w) \/ Upsert(w)
       \/ Fill(w) \/ Commit(w) \/ Undo(w)
       \/ Search(w) \/ Query(w) \/ TextSearch(w) \/ Reply(w)
  \/ Crash

Spec == Init /\ [][Next]_vars
=============================================================================
