------------------------------- MODULE Merge -------------------------------
(***************************************************************************)
(* MemoryLifecycleManager.merge and undo_merge of core/lifecycle.py, over  *)
(* the rows and relationships of the SQLite store and the operations of    *)
(* lifecycle.db, with the trash (soft_delete, restore) and the removal of  *)
(* rows that interfere with an undo.                                       *)
(*                                                                         *)
(* A merge is a sequence of separate commits: the journal entry, one per   *)
(* copied relationship, one per memory row, the journal entry again.  An   *)
(* exception inside it starts a rollback; a process that dies, or an       *)
(* exception inside the rollback or an undo, just stops where it is.       *)
(* Lifecycle requests run one at a time on the server's event loop; other  *)
(* writers of a row (tools and maintenance in worker threads) do not wait  *)
(* for them.                                                               *)
(*                                                                         *)
(* All memories are of one project and scope and are not semantic beliefs, *)
(* so the previews' other refusals do not arise.                           *)
(***************************************************************************)
EXTENDS Naturals, FiniteSets

CONSTANTS
  Memories,
  Ops,          \* merge operations that may be started
  NoMemory,
  NoOp,
  Scenes        \* how many of what may happen in one behaviour: a set of records of
                \*   initially: statuses of the initial rows
                \*   links: relationships of the initial graph
                \*   merges: merges that may be started
                \*   edits: changes made outside merges and undos
                \*   errors: exceptions inside a merge
                \*   crashes: stops in the middle of a merge, rollback or undo
                \*   threads: whether rows are also written while a lifecycle request runs

ASSUME NamesAssumption == NoMemory \notin Memories /\ NoOp \notin Ops
ASSUME ScenesAssumption == Scenes \subseteq
  [initially : SUBSET {"active", "archived"}, links : Nat, merges : Nat, edits : Nat,
   errors : Nat, crashes : Nat, threads : BOOLEAN]

VARIABLES
  scene,    \* the bounds of this behaviour (never changes)
  mem,      \* mem[m]: the row of m
  edges,    \* relationship rows
  graph,    \* the relationships of the initial graph (never changes)
  fresh,    \* the next unused relationship number
  journal,  \* journal[o]: the row of o in memory_merge_operations
  at,       \* where the running lifecycle request is
  run,      \* its local variables
  edits, errors, crashes

vars == <<scene, mem, edges, graph, fresh, journal, at, run, edits, errors, crashes>>
bounds == <<scene, edits, errors, crashes>>

Mergeable == {"active", "archived"}
Statuses == Mergeable \cup {"merged", "deleted", "purged"}   \* purged: no row
Kinds == {"related_to", "typed"}

\* A relationship without its random id; [key, n] stands for the row.
Keys == [src : Memories, tgt : Memories, kind : Kinds]
Key(e) == [src |-> e.src, tgt |-> e.tgt, kind |-> e.kind]
KeysOf(E) == {Key(e) : e \in E}
Edge(k, n) == [src |-> k.src, tgt |-> k.tgt, kind |-> k.kind, n |-> n]

Present(m) == mem[m].status # "purged"
Members == {run.target} \cup run.sources

NoRows == [m \in {} |-> NoMemory]
NoRun == [op |-> NoOp, undo |-> FALSE, target |-> NoMemory, sources |-> {},
          tags |-> {}, text |-> 0, snap |-> NoRows, before |-> {}, seen |-> {},
          todo |-> {}, made |-> {}, created |-> {}, displaced |-> {}, left |-> {}]
NoEntry == [status |-> "none", no |-> 0, target |-> NoMemory, snap |-> NoRows,
            post |-> NoRows, created |-> {}, displaced |-> {}]

Init ==
  /\ scene \in Scenes
  /\ \E st \in [Memories -> scene.initially] :
       mem = [m \in Memories |-> [status |-> st[m], tags |-> {m}, text |-> 0,
                                 into |-> NoMemory, by |-> NoOp, ops |-> {}, was |-> "none"]]
  /\ \E f \in [1 .. scene.links -> {k \in Keys : k.src # k.tgt}] :
       graph = {f[i] : i \in 1 .. scene.links}
  /\ edges = {Edge(k, 0) : k \in graph}
  /\ fresh = 1
  /\ journal = [o \in Ops |-> NoEntry]
  /\ at = "idle"
  /\ run = NoRun
  /\ edits = 0 /\ errors = 0 /\ crashes = 0

Goto(from, to) == at = from /\ at' = to
Started == {o \in Ops : journal[o].status # "none"}
Stop == at' = "idle" /\ run' = NoRun

\* add_relationship: a typed relationship drops the inferred ones of its pair.
Added(E, k, n) ==
  {e \in E : ~ /\ k.kind = "typed" /\ e.kind = "related_to"
               /\ {e.src, e.tgt} = {k.src, k.tgt}} \cup {Edge(k, n)}

-----------------------------------------------------------------------------
(* merge *)

\* preview_merge: the group is valid; its merged tags and the target's text
\* are those of this moment.
Preview(o, t, S) ==
  /\ Goto("idle", "previewed")
  /\ o \notin Started /\ Cardinality(Started) < scene.merges
  /\ S # {} /\ t \notin S
  /\ \A m \in S \cup {t} : mem[m].status \in Mergeable
  /\ run' = [NoRun EXCEPT !.op = o, !.target = t, !.sources = S,
                          !.tags = UNION {mem[m].tags : m \in S \cup {t}},
                          !.text = mem[t].text]
  /\ UNCHANGED <<mem, edges, graph, fresh, journal, bounds>>

\* The group is read again, without being validated again, and journalled.
Record ==
  LET snap == [m \in Members |-> mem[m]]
      before == {e \in edges : run.target \in {e.src, e.tgt}}
  IN /\ Goto("previewed", "copy")
     /\ run' = [run EXCEPT !.snap = snap, !.before = before, !.seen = KeysOf(before),
                           !.todo = {e \in edges : {e.src, e.tgt} \cap run.sources # {}}]
     /\ journal' = [journal EXCEPT ![run.op] =
          [NoEntry EXCEPT !.status = "pending", !.target = run.target, !.snap = snap,
             !.no = Cardinality(Started)]]
     /\ UNCHANGED <<mem, edges, graph, fresh, bounds>>

\* Mutant: only outgoing relationships are re-pointed.
RetargetOutgoing(e) ==
  LET onto(m) == IF m \in run.sources THEN run.target ELSE m
  IN [src |-> onto(e.src), tgt |-> e.tgt, kind |-> e.kind]

\* The copy of a source's relationship that starts or ends at the target.
Retarget(e) ==
  LET onto(m) == IF m \in run.sources THEN run.target ELSE m
  IN [src |-> onto(e.src), tgt |-> onto(e.tgt), kind |-> e.kind]

\* _retarget_relationships, one row in whatever order the query returned them.
Copy(e) ==
  LET k == Retarget(e) IN
  /\ at = "copy" /\ e \in run.todo
  /\ IF k.src = k.tgt \/ k \in run.seen
     THEN /\ run' = [run EXCEPT !.todo = @ \ {e}]
          /\ UNCHANGED <<edges, fresh>>
     ELSE /\ run' = [run EXCEPT !.todo = @ \ {e}, !.seen = @ \cup {k},
                                !.made = @ \cup {Edge(k, fresh)}]
          /\ edges' = Added(edges, k, fresh)
          /\ fresh' = fresh + 1
  /\ UNCHANGED <<mem, graph, journal, at, bounds>>

\* Mutant: what adding a relationship dropped is not remembered.
DisplacedNone(before) == before \cap {}

\* _displaced: the target's relationships that re-pointing removed.
Displaced(before) == before \ edges

\* Only now does the merge know which relationships it created.
CopiesDone ==
  /\ Goto("copy", "target")
  /\ run.todo = {}
  /\ run' = [run EXCEPT !.created = run.made, !.displaced = Displaced(run.before)]
  /\ UNCHANGED <<mem, edges, graph, fresh, journal, bounds>>

UpdateTarget ==
  /\ Goto("target", "sources")
  /\ mem' = [mem EXCEPT ![run.target] =
       [run.snap[run.target] EXCEPT !.status = "active", !.tags = run.tags,
                                    !.text = run.text, !.ops = @ \cup {run.op}]]
  /\ run' = [run EXCEPT !.left = run.sources]
  /\ UNCHANGED <<edges, graph, fresh, journal, bounds>>

\* Status and metadata are written from the copy read before; the rest stays.
UpdateSource(m) ==
  /\ at = "sources" /\ m \in run.left
  /\ mem' = [mem EXCEPT ![m] =
       [run.snap[m] EXCEPT !.status = "merged", !.into = run.target, !.by = run.op,
                           !.tags = mem[m].tags, !.text = mem[m].text]]
  /\ run' = [run EXCEPT !.left = @ \ {m}]
  /\ UNCHANGED <<edges, graph, fresh, journal, at, bounds>>

\* The rows after the merge, which an undo expects to find.
Post == [m \in Members |-> mem[m]]

Finish ==
  /\ at = "sources" /\ run.left = {}
  /\ journal' = [journal EXCEPT ![run.op].status = "completed", ![run.op].post = Post,
                                ![run.op].created = run.created,
                                ![run.op].displaced = run.displaced]
  /\ Stop
  /\ UNCHANGED <<mem, edges, graph, fresh, bounds>>

-----------------------------------------------------------------------------
(* rollback and undo *)

\* An exception in the merge's try block: what Copy made and has not yet
\* reported is not among the relationships to delete.
Error ==
  /\ errors < scene.errors
  /\ at \in {"copy", "target", "sources"}
  /\ errors' = errors + 1
  /\ at' = "restore"
  /\ run' = [run EXCEPT !.left = Members]
  /\ UNCHANGED <<mem, edges, graph, fresh, journal, scene, edits, crashes>>

\* Mutant: the marks of the merge are enough.
CanUndoMarked(o) ==
  LET j == journal[o] IN
  /\ j.status = "completed"
  /\ \A m \in DOMAIN j.snap :
       /\ Present(m)
       /\ IF m = j.target THEN o \in mem[m].ops
          ELSE mem[m].status = "merged" /\ mem[m].by = o /\ mem[m].into = j.target

\* Mutant: only the target is compared with its row after the merge.
CanUndoTarget(o) ==
  LET j == journal[o] IN
  /\ j.status = "completed"
  /\ \A m \in DOMAIN j.snap :
       /\ Present(m)
       /\ IF m = j.target THEN mem[m] = j.post[m] /\ o \in mem[m].ops
          ELSE mem[m].status = "merged" /\ mem[m].by = o /\ mem[m].into = j.target

\* The checks of undo_merge.
CanUndo(o) ==
  LET j == journal[o] IN
  /\ j.status = "completed"
  /\ \A m \in DOMAIN j.snap :
       /\ Present(m)
       /\ mem[m] = j.post[m]
       /\ IF m = j.target THEN o \in mem[m].ops
          ELSE mem[m].status = "merged" /\ mem[m].by = o /\ mem[m].into = j.target

Undo(o) ==
  LET j == journal[o] IN
  /\ Goto("idle", "restore")
  /\ CanUndo(o)
  /\ run' = [NoRun EXCEPT !.op = o, !.undo = TRUE, !.target = j.target,
                          !.sources = DOMAIN j.snap \ {j.target}, !.snap = j.snap,
                          !.left = DOMAIN j.snap,
                          !.created = j.created, !.displaced = j.displaced]
  /\ UNCHANGED <<mem, edges, graph, fresh, journal, bounds>>

\* Mutant: the metadata that the merge wrote stays.
RestoredStatus(m) == [mem[m] EXCEPT !.status = run.snap[m].status,
                                    !.tags = run.snap[m].tags, !.text = run.snap[m].text]

\* A row as it was when the merge read it.
Restored(m) == run.snap[m]

\* _restore_snapshots, one row.
RestoreRow(m) ==
  /\ at = "restore" /\ m \in run.left
  /\ mem' = [mem EXCEPT ![m] = Restored(m)]
  /\ run' = [run EXCEPT !.left = @ \ {m}]
  /\ UNCHANGED <<edges, graph, fresh, journal, at, bounds>>

\* _restore_relationships: the created relationships go.  A rollback has
\* recomputed what was displaced.
Unlink ==
  /\ Goto("restore", "relink")
  /\ run.left = {}
  /\ run' = [run EXCEPT !.displaced = IF run.undo THEN @ ELSE Displaced(run.before)]
  /\ edges' = edges \ run.created
  /\ UNCHANGED <<mem, graph, fresh, journal, bounds>>

\* ... and the displaced ones come back, under new ids, unless an equal one
\* is there or an end was purged.  None of them is typed.
Relink ==
  /\ Goto("relink", "settle")
  /\ edges' = edges \cup {Edge(e, fresh) : e \in {d \in run.displaced :
                             Key(d) \notin KeysOf(edges) /\ Present(d.src) /\ Present(d.tgt)}}
  /\ fresh' = fresh + 1
  /\ UNCHANGED <<mem, graph, journal, run, bounds>>

Settle ==
  /\ at = "settle"
  /\ journal' = [journal EXCEPT ![run.op].status = IF run.undo THEN "undone" ELSE "failed"]
  /\ Stop
  /\ UNCHANGED <<mem, edges, graph, fresh, bounds>>

\* The process ends, or an exception leaves a rollback, an undo or the last
\* write of the journal.
Crash ==
  /\ crashes < scene.crashes
  /\ at \notin {"idle", "previewed"}
  /\ crashes' = crashes + 1
  /\ Stop
  /\ UNCHANGED <<mem, edges, graph, fresh, journal, scene, edits, errors>>

-----------------------------------------------------------------------------
(* other requests *)

Outside == edits < scene.edits /\ edits' = edits + 1

\* soft_delete, of a row in any status.
SoftDelete(m) ==
  /\ at = "idle" /\ Outside
  /\ Present(m)
  /\ mem' = [mem EXCEPT ![m].status = "deleted", ![m].was = mem[m].status]
  /\ UNCHANGED <<edges, graph, fresh, journal, at, run, scene, errors, crashes>>

\* A row out of the trash: a status that cannot be restored becomes active.
Undeleted(r) == [r EXCEPT !.status = IF r.was \in Mergeable THEN r.was ELSE "active",
                          !.was = "none"]

\* restore
Undelete(m) ==
  /\ at = "idle" /\ Outside
  /\ mem[m].status = "deleted"
  /\ mem' = [mem EXCEPT ![m] = Undeleted(mem[m])]
  /\ UNCHANGED <<edges, graph, fresh, journal, at, run, scene, errors, crashes>>

\* Removal of a row that is not active, with its relationships (see Purge).
Remove(m) ==
  /\ at = "idle"
  /\ Present(m) /\ mem[m].status # "active"
  /\ mem' = [mem EXCEPT ![m] = [status |-> "purged", tags |-> {}, text |-> 0,
                                into |-> NoMemory, by |-> NoOp, ops |-> {}, was |-> "none"]]
  /\ edges' = {e \in edges : m \notin {e.src, e.tgt}}
  /\ UNCHANGED <<graph, fresh, journal, at, run, bounds>>

\* update_memory by somebody else: content, tags or importance.
Edit(m) ==
  /\ at = "idle" \/ scene.threads
  /\ Outside
  /\ Present(m)
  /\ mem' = [mem EXCEPT ![m].text = @ + 1]
  /\ UNCHANGED <<edges, graph, fresh, journal, at, run, scene, errors, crashes>>

Next ==
  \/ \E o \in Ops, t \in Memories, S \in SUBSET Memories : Preview(o, t, S)
  \/ Record
  \/ \E e \in run.todo : Copy(e)
  \/ CopiesDone \/ UpdateTarget \/ Finish
  \/ \E m \in Memories : UpdateSource(m) \/ RestoreRow(m)
  \/ Error \/ Crash
  \/ \E o \in Ops : Undo(o)
  \/ Unlink \/ Relink \/ Settle
  \/ \E m \in Memories : SoftDelete(m) \/ Undelete(m) \/ Remove(m) \/ Edit(m)

Spec == Init /\ [][Next]_vars
=============================================================================
