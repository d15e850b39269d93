------------------------ MODULE MergeAndBeliefsProofs ------------------------
(***************************************************************************)
(* Proofs about Merge, for any number of memories, merges, edits, errors   *)
(* and crashes, and about Beliefs, for any number of beliefs, threads and  *)
(* failing calls.  The two specifications share no state, and neither part *)
(* cites the other.                                                        *)
(***************************************************************************)
EXTENDS MergeProps, BeliefsProps, FiniteSetTheorems, TLAPS

(***************************************************************************)
(* Merge.                                                                  *)
(***************************************************************************)
RowType == [status : Statuses, tags : SUBSET Memories, text : Nat,
            into : Memories \cup {NoMemory}, by : Ops \cup {NoOp}, ops : SUBSET Ops,
            was : Statuses \cup {"none"}]
EdgeType == [src : Memories, tgt : Memories, kind : Kinds, n : Nat]
Snaps == UNION {[D -> RowType] : D \in SUBSET Memories}
EntryType == [status : {"none", "pending", "completed", "failed", "undone"}, no : Nat,
              target : Memories \cup {NoMemory}, snap : Snaps, post : Snaps,
              created : SUBSET EdgeType, displaced : SUBSET EdgeType]
RunType == [op : Ops \cup {NoOp}, undo : BOOLEAN, target : Memories \cup {NoMemory},
            sources : SUBSET Memories, tags : SUBSET Memories, text : Nat, snap : Snaps,
            before : SUBSET EdgeType, seen : SUBSET Keys, todo : SUBSET EdgeType,
            made : SUBSET EdgeType, created : SUBSET EdgeType, displaced : SUBSET EdgeType,
            left : SUBSET Memories]

Merging == {"copy", "target", "sources"}
Restoring == {"restore", "relink", "settle"}
Working == Merging \cup Restoring

TypeOK ==
  /\ scene \in Scenes
  /\ mem \in [Memories -> RowType]
  /\ edges \in SUBSET EdgeType /\ graph \in SUBSET Keys /\ fresh \in Nat \ {0}
  /\ journal \in [Ops -> EntryType]
  /\ at \in {"idle", "previewed"} \cup Working
  /\ run \in RunType
  /\ edits \in Nat /\ errors \in Nat /\ crashes \in Nat

\* What the running request knows, and what the journal says of a merge that was started.
Shaped ==
  /\ at = "idle" => run = NoRun
  /\ at # "idle" => run.op \in Ops /\ run.target \in Memories /\ run.target \notin run.sources
  /\ at = "previewed" => /\ journal[run.op].status = "none" /\ ~run.undo
                         /\ run.left = {} /\ run.made = {}
                         /\ \A m \in Members : mem[m].status \in Mergeable
  /\ at \in Working => /\ journal[run.op].status = IF run.undo THEN "completed" ELSE "pending"
                       /\ run.snap = journal[run.op].snap
                       /\ run.target = journal[run.op].target
                       /\ DOMAIN run.snap = Members
                       /\ run.left \subseteq Members
                       /\ \A m \in Members : Present(m)
  /\ at \in Merging => ~run.undo /\ run.left \subseteq run.sources
  /\ at \in {"relink", "settle"} => run.left = {}

Journalled ==
  /\ IsFiniteSet(Started)
  /\ \A o \in Started : /\ journal[o].target \in Group(o)
                        /\ \A m \in Group(o) : journal[o].snap[m].status \in Mergeable
                        /\ journal[o].no < Cardinality(Started)
                        /\ \A q \in Started \ {o} : journal[q].no # journal[o].no
  /\ \A o \in Ops : journal[o].status = "completed" => DOMAIN journal[o].post = Group(o)
  /\ at \in Working /\ ~run.undo => \A q \in Started \ {run.op} : journal[q].no < journal[run.op].no

\* The operations that a row remembers.
Marks(r) == r.ops \cup ({r.by} \ {NoOp})

Marked ==
  /\ \A m \in Memories : \A s \in Marks(mem[m]) : s \in Started /\ m \in Group(s)
  /\ \A o \in Started : \A m \in Group(o) : \A s \in Marks(journal[o].snap[m]) :
       s \in Started /\ s # o /\ m \in Group(s)
  /\ at = "sources" => /\ run.op \in mem[run.target].ops
                       /\ \A m \in run.sources \ run.left : mem[m].by = run.op
  /\ at \in Restoring => \A m \in Members \ run.left : run.op \notin Marks(mem[m])

\* A row that no merge has written; a row or snapshot of m whose marks, by the
\* journal j, tell which merges are in it.
Clean(r, m) == /\ r.status \in Mergeable /\ r.tags = {m} /\ r.text = 0
               /\ r.ops = {} /\ r.into = NoMemory /\ r.by = NoOp
Whole(j, r, m) == /\ Marks(r) = {} => Clean(r, m)
                  /\ r.status \in Mergeable => r.by = NoOp
                  /\ \A s \in Marks(r) : Marks(j[s].snap[m]) \subseteq Marks(r)

\* While nobody else changes rows, every row carries the marks of all merges
\* that are in it, and of no merge that was rolled back or undone.
Restorable ==
  edits = 0 =>
    /\ \A m \in Memories : Present(m) => Whole(journal, mem[m], m)
    /\ \A o \in Started : \A m \in Group(o) : Whole(journal, journal[o].snap[m], m)
    /\ \A m \in Memories : \A s \in Marks(mem[m]) : ~Over(s)
    /\ at \in Merging => \A m \in Members : Marks(run.snap[m]) \subseteq Marks(mem[m])
    /\ at \in Restoring => \A m \in run.left : Marks(run.snap[m]) \subseteq Marks(mem[m])

\* A merge numbered n or later, in the journal j, is in the row r.
Since(j, r, n) == \E s \in Marks(r) : j[s].no >= n

\* While no request was cut short, the rows of a merge that stands show it or
\* a later one, now and in the snapshots of later ones; so only the newest
\* merge of a row finds the row that it left there.
Nested ==
  /\ \A o \in Ops : journal[o].status = "completed" =>
       \A m \in Group(o) : \A s \in Marks(journal[o].post[m]) :
         s \in Started /\ journal[s].no <= journal[o].no
  /\ crashes = 0 =>
       \A q \in Ops : journal[q].status = "completed" =>
         /\ q # run.op => \A m \in Group(q) : Present(m) => Since(journal, mem[m], journal[q].no)
         /\ \A o \in Started : journal[q].no < journal[o].no =>
              \A m \in Group(q) \cap Group(o) : Since(journal, journal[o].snap[m], journal[q].no)
         /\ at \in Restoring /\ run.undo /\ journal[q].no > journal[run.op].no =>
              Group(q) \cap Members = {}

\* What an undo has yet to restore is what its merge left.
Untouched ==
  ~scene.threads /\ at = "restore" /\ run.undo =>
    \A m \in run.left : mem[m] = journal[run.op].post[m]

Rest == Shaped /\ Journalled /\ Marked /\ Restorable /\ Nested /\ Untouched
IInv == TypeOK /\ Rest

USE DEF Merging, Restoring, Working

-----------------------------------------------------------------------------
LEMMA SnapsOK ==
  /\ NoRows \in Snaps
  /\ \A f \in Snaps : DOMAIN f \subseteq Memories /\ \A m \in DOMAIN f : f[m] \in RowType
  /\ \A D \in SUBSET Memories : \A f \in [D -> RowType] : f \in Snaps /\ DOMAIN f = D
<1>1. NoRows \in [{} -> RowType]
  BY DEF NoRows
<1> QED BY <1>1 DEF Snaps

LEMMA NoRunOK == NoRun \in RunType
BY SnapsOK DEF NoRun, RunType

LEMMA NoEntryOK == NoEntry \in EntryType
BY SnapsOK DEF NoEntry, EntryType

LEMMA RunParts ==
  ASSUME NEW r \in RunType
  PROVE  /\ r.op \in Ops \cup {NoOp} /\ r.undo \in BOOLEAN
         /\ r.target \in Memories \cup {NoMemory} /\ r.sources \in SUBSET Memories
         /\ r.tags \in SUBSET Memories /\ r.text \in Nat /\ r.snap \in Snaps
         /\ r.before \in SUBSET EdgeType /\ r.seen \in SUBSET Keys
         /\ r.todo \in SUBSET EdgeType /\ r.made \in SUBSET EdgeType
         /\ r.created \in SUBSET EdgeType /\ r.displaced \in SUBSET EdgeType
         /\ r.left \in SUBSET Memories
BY DEF RunType

LEMMA EntryParts ==
  ASSUME NEW j \in EntryType
  PROVE  /\ j.status \in {"none", "pending", "completed", "failed", "undone"} /\ j.no \in Nat
         /\ j.target \in Memories \cup {NoMemory} /\ j.snap \in Snaps /\ j.post \in Snaps
         /\ j.created \in SUBSET EdgeType /\ j.displaced \in SUBSET EdgeType
BY DEF EntryType

LEMMA RowParts ==
  ASSUME NEW r \in RowType
  PROVE  /\ r.status \in Statuses /\ r.tags \in SUBSET Memories /\ r.text \in Nat
         /\ r.into \in Memories \cup {NoMemory} /\ r.by \in Ops \cup {NoOp}
         /\ r.ops \in SUBSET Ops /\ r.was \in Statuses \cup {"none"}
BY DEF RowType

LEMMA KeyOK ==
  ASSUME NEW e \in EdgeType
  PROVE  /\ e.src \in Memories /\ e.tgt \in Memories /\ e.kind \in Kinds /\ e.n \in Nat
         /\ Key(e) \in Keys
         /\ Key(e).src = e.src /\ Key(e).tgt = e.tgt /\ Key(e).kind = e.kind
BY DEF EdgeType, Key, Keys

LEMMA EdgeOK ==
  ASSUME NEW k \in Keys, NEW n \in Nat
  PROVE  /\ Edge(k, n) \in EdgeType /\ Edge(k, n).src = k.src /\ Edge(k, n).tgt = k.tgt
         /\ Edge(k, n).kind = k.kind /\ Edge(k, n).n = n /\ Key(Edge(k, n)) = k
BY DEF Edge, EdgeType, Key, Keys

LEMMA AddedOK ==
  ASSUME NEW E \in SUBSET EdgeType, NEW k \in Keys, NEW n \in Nat
  PROVE  Added(E, k, n) \in SUBSET EdgeType
BY EdgeOK DEF Added

-----------------------------------------------------------------------------
\* Types.
LEMMA InitTypes == Init => TypeOK
<1> SUFFICES ASSUME Init PROVE TypeOK
  OBVIOUS
<1>1. PICK st \in [Memories -> scene.initially] :
        mem = [m \in Memories |-> [status |-> st[m], tags |-> {m}, text |-> 0,
                                  into |-> NoMemory, by |-> NoOp, ops |-> {}, was |-> "none"]]
  BY DEF Init
<1>2. scene \in Scenes /\ scene.initially \subseteq {"active", "archived"}
  BY ScenesAssumption DEF Init
<1>3. mem \in [Memories -> RowType]
  BY <1>1, <1>2 DEF RowType, Statuses, Mergeable
<1>4. graph \in SUBSET Keys
  BY DEF Init
<1>5. edges \in SUBSET EdgeType
  BY <1>4, EdgeOK DEF Init
<1> QED BY <1>2, <1>3, <1>4, <1>5, NoRunOK, NoEntryOK DEF Init, TypeOK

LEMMA StopTypes == ASSUME Stop PROVE run' \in RunType /\ at' = "idle"
BY NoRunOK DEF Stop

LEMMA PreviewTypes ==
  ASSUME TypeOK, NEW o \in Ops, NEW t \in Memories, NEW S \in SUBSET Memories, Preview(o, t, S)
  PROVE  TypeOK'
<1> DEFINE tags == UNION {mem[m].tags : m \in S \cup {t}}
<1>1. tags \in SUBSET Memories /\ mem[t].text \in Nat
  <2>1. \A m \in S \cup {t} : mem[m].tags \subseteq Memories /\ mem[m].text \in Nat
    BY RowParts DEF TypeOK
  <2> QED BY <2>1
<1>2. run' = [NoRun EXCEPT !.op = o, !.target = t, !.sources = S, !.tags = tags,
                           !.text = mem[t].text]
  BY DEF Preview
<1> HIDE DEF tags
<1>3. run' \in RunType
  BY <1>1, <1>2, NoRunOK DEF RunType
<1>4. at' = "previewed" /\ UNCHANGED <<mem, edges, graph, fresh, journal, bounds>>
  BY DEF Preview, Goto
<1> QED BY <1>3, <1>4 DEF TypeOK, bounds

LEMMA RecordTypes == ASSUME TypeOK, Shaped, Journalled, Record PROVE TypeOK'
<1> DEFINE snap == [m \in Members |-> mem[m]]
           before == {e \in edges : run.target \in {e.src, e.tgt}}
           todo == {e \in edges : {e.src, e.tgt} \cap run.sources # {}}
           entry == [NoEntry EXCEPT !.status = "pending", !.target = run.target, !.snap = snap,
                                    !.no = Cardinality(Started)]
<1>1. /\ at = "previewed" /\ run.op \in Ops /\ run.target \in Memories /\ run \in RunType
      /\ edges \subseteq EdgeType
  BY DEF Record, Goto, Shaped, TypeOK
<1>2. snap \in Snaps /\ DOMAIN snap = Members /\ Members \subseteq Memories
  <2>1. Members \in SUBSET Memories
    BY <1>1, RunParts DEF Members
  <2>2. snap \in [Members -> RowType]
    BY <2>1 DEF TypeOK
  <2> QED BY <2>1, <2>2, SnapsOK
<1>3. before \in SUBSET EdgeType /\ todo \in SUBSET EdgeType /\ KeysOf(before) \in SUBSET Keys
  BY <1>1, KeyOK DEF KeysOf
<1>4. /\ run' = [run EXCEPT !.snap = snap, !.before = before, !.seen = KeysOf(before),
                            !.todo = todo]
      /\ journal' = [journal EXCEPT ![run.op] = entry]
      /\ at' = "copy" /\ UNCHANGED <<mem, edges, graph, fresh, bounds>>
  BY DEF Record, Goto
<1>5. Cardinality(Started) \in Nat
  BY FS_CardinalityType DEF Journalled
<1> HIDE DEF snap, before, todo
<1>6. entry \in EntryType
  BY <1>1, <1>2, <1>5, NoEntryOK DEF EntryType
<1>7. run' \in RunType
  BY <1>1, <1>2, <1>3, <1>4 DEF RunType
<1> HIDE DEF entry
<1>8. journal' \in [Ops -> EntryType]
  BY <1>1, <1>4, <1>6 DEF TypeOK
<1> QED BY <1>4, <1>7, <1>8 DEF TypeOK, bounds

LEMMA RetargetOK ==
  ASSUME NEW e \in EdgeType, run \in RunType, run.target \in Memories
  PROVE  /\ Retarget(e) \in Keys
         /\ Retarget(e).src = IF e.src \in run.sources THEN run.target ELSE e.src
         /\ Retarget(e).tgt = IF e.tgt \in run.sources THEN run.target ELSE e.tgt
BY KeyOK DEF Retarget, Keys

LEMMA CopyTypes == ASSUME TypeOK, Shaped, NEW e \in run.todo, Copy(e) PROVE TypeOK'
<1> DEFINE k == Retarget(e)
<1>1. /\ at = "copy" /\ run.target \in Memories /\ run \in RunType /\ edges \in SUBSET EdgeType
      /\ fresh \in Nat \ {0}
  BY DEF Copy, Shaped, TypeOK
<1>2. k \in Keys /\ e \in EdgeType
  BY <1>1, RetargetOK, RunParts
<1>3. UNCHANGED <<mem, graph, journal, at, bounds>>
  BY DEF Copy
<1>4. CASE k.src = k.tgt \/ k \in run.seen
  <2>1. run' = [run EXCEPT !.todo = @ \ {e}] /\ UNCHANGED <<edges, fresh>>
    BY <1>4 DEF Copy
  <2>2. run' \in RunType
    BY <1>1, <2>1 DEF RunType
  <2> QED BY <1>3, <2>1, <2>2 DEF TypeOK, bounds
<1>5. CASE ~(k.src = k.tgt \/ k \in run.seen)
  <2>1. /\ run' = [run EXCEPT !.todo = @ \ {e}, !.seen = @ \cup {k},
                              !.made = @ \cup {Edge(k, fresh)}]
        /\ edges' = Added(edges, k, fresh) /\ fresh' = fresh + 1
    BY <1>5 DEF Copy
  <2> HIDE DEF k
  <2>2. Edge(k, fresh) \in EdgeType /\ edges' \in SUBSET EdgeType /\ fresh' \in Nat \ {0}
    BY <1>1, <1>2, <2>1, EdgeOK, AddedOK
  <2>3. run' \in RunType
    BY <1>1, <1>2, <2>1, <2>2 DEF RunType
  <2> QED BY <1>3, <2>2, <2>3 DEF TypeOK, bounds
<1> QED BY <1>4, <1>5

LEMMA CopiesDoneTypes == ASSUME TypeOK, CopiesDone PROVE TypeOK'
<1>1. /\ at' = "target" /\ UNCHANGED <<mem, edges, graph, fresh, journal, bounds>>
      /\ run' = [run EXCEPT !.created = run.made, !.displaced = run.before \ edges]
      /\ run \in RunType
  BY DEF CopiesDone, Goto, TypeOK, Displaced
<1>2. run.made \in SUBSET EdgeType /\ run.before \ edges \in SUBSET EdgeType
  BY <1>1, RunParts
<1>3. run' \in RunType
  BY <1>1, <1>2 DEF RunType
<1> QED BY <1>1, <1>3 DEF TypeOK, bounds

LEMMA LeftTypes ==
  ASSUME run \in RunType, NEW L \in SUBSET Memories, run' = [run EXCEPT !.left = L]
  PROVE  run' \in RunType
BY DEF RunType

\* What a merge writes into a row.
TargetRow == [run.snap[run.target] EXCEPT !.status = "active", !.tags = run.tags,
                                         !.text = run.text, !.ops = @ \cup {run.op}]
SourceRow(m) == [run.snap[m] EXCEPT !.status = "merged", !.into = run.target, !.by = run.op,
                                    !.tags = mem[m].tags, !.text = mem[m].text]

LEMMA TargetRowOK ==
  ASSUME TypeOK, Shaped, at = "target"
  PROVE  /\ TargetRow \in RowType /\ TargetRow.status = "active"
         /\ TargetRow.ops = run.snap[run.target].ops \cup {run.op}
         /\ TargetRow.by = run.snap[run.target].by
<1>1. run.snap \in Snaps /\ run.target \in DOMAIN run.snap /\ run.op \in Ops
  BY RunParts DEF TypeOK, Shaped, Members
<1>2. run.snap[run.target] \in RowType
  BY <1>1, SnapsOK
<1>3. run.tags \in SUBSET Memories /\ run.text \in Nat
  BY RunParts DEF TypeOK
<1> QED BY <1>1, <1>2, <1>3 DEF TargetRow, RowType, Statuses, Mergeable

LEMMA SourceRowOK ==
  ASSUME TypeOK, Shaped, at = "sources", NEW m \in run.left
  PROVE  /\ m \in Memories /\ m \in Members /\ m # run.target
         /\ SourceRow(m) \in RowType /\ SourceRow(m).status = "merged"
         /\ SourceRow(m).ops = run.snap[m].ops /\ SourceRow(m).by = run.op
<1>1. /\ run.snap \in Snaps /\ m \in DOMAIN run.snap /\ run.op \in Ops /\ m \in Memories
      /\ run.target \in Memories /\ m \in Members /\ m # run.target
  BY RunParts DEF TypeOK, Shaped, Members
<1>2. run.snap[m] \in RowType /\ mem[m] \in RowType
  BY <1>1, SnapsOK DEF TypeOK
<1>3. mem[m].tags \in SUBSET Memories /\ mem[m].text \in Nat
  BY <1>2, RowParts
<1> QED BY <1>1, <1>2, <1>3 DEF SourceRow, RowType, Statuses, Mergeable

LEMMA UpdateTargetTypes == ASSUME TypeOK, Shaped, UpdateTarget PROVE TypeOK'
<1>1. /\ at = "target" /\ at' = "sources" /\ mem' = [mem EXCEPT ![run.target] = TargetRow]
      /\ run' = [run EXCEPT !.left = run.sources]
      /\ UNCHANGED <<edges, graph, fresh, journal, bounds>>
  BY DEF UpdateTarget, Goto, TargetRow
<1>2. run' \in RunType
  BY <1>1, RunParts, LeftTypes DEF TypeOK
<1>3. mem' \in [Memories -> RowType]
  BY <1>1, TargetRowOK DEF TypeOK
<1> QED BY <1>1, <1>2, <1>3 DEF TypeOK, bounds

LEMMA UpdateSourceTypes ==
  ASSUME TypeOK, Shaped, NEW m \in Memories, UpdateSource(m) PROVE TypeOK'
<1>1. /\ at = "sources" /\ m \in run.left /\ mem' = [mem EXCEPT ![m] = SourceRow(m)]
      /\ run' = [run EXCEPT !.left = run.left \ {m}]
      /\ UNCHANGED <<edges, graph, fresh, journal, at, bounds>>
  BY DEF UpdateSource, SourceRow
<1>2. run' \in RunType
  BY <1>1, RunParts, LeftTypes DEF TypeOK
<1>3. mem' \in [Memories -> RowType]
  BY <1>1, SourceRowOK DEF TypeOK
<1> QED BY <1>1, <1>2, <1>3 DEF TypeOK, bounds

LEMMA FinishTypes == ASSUME TypeOK, Shaped, Finish PROVE TypeOK'
<1>1. /\ at = "sources" /\ UNCHANGED <<mem, edges, graph, fresh, bounds>> /\ Stop
      /\ journal' = [journal EXCEPT ![run.op].status = "completed", ![run.op].post = Post,
                                    ![run.op].created = run.created,
                                    ![run.op].displaced = run.displaced]
  BY DEF Finish
<1>2. run.op \in Ops /\ journal[run.op] \in EntryType /\ Members \in SUBSET Memories
  BY <1>1, RunParts DEF TypeOK, Shaped, Members
<1>3. Post \in Snaps
  <2>1. Post \in [Members -> RowType]
    BY <1>2 DEF Post, TypeOK
  <2> QED BY <1>2, <2>1, SnapsOK
<1>4. run.created \in SUBSET EdgeType /\ run.displaced \in SUBSET EdgeType
  BY RunParts DEF TypeOK
<1> DEFINE j == [journal[run.op] EXCEPT !.status = "completed", !.post = Post,
                    !.created = run.created, !.displaced = run.displaced]
<1>5. j \in EntryType
  BY <1>2, <1>3, <1>4 DEF EntryType
<1>6. journal' = [journal EXCEPT ![run.op] = j]
  BY <1>1, <1>2 DEF TypeOK
<1> HIDE DEF j
<1>7. journal' \in [Ops -> EntryType]
  BY <1>2, <1>5, <1>6 DEF TypeOK
<1> QED BY <1>1, <1>7, StopTypes DEF TypeOK, bounds

LEMMA ErrorTypes == ASSUME TypeOK, Shaped, Error PROVE TypeOK'
<1>1. /\ at \in Merging /\ at' = "restore" /\ run' = [run EXCEPT !.left = Members]
      /\ errors' = errors + 1
      /\ UNCHANGED <<mem, edges, graph, fresh, journal, scene, edits, crashes>>
  BY DEF Error
<1>2. Members \in SUBSET Memories
  BY <1>1, RunParts DEF TypeOK, Shaped, Members
<1>3. run' \in RunType
  BY <1>1, <1>2, LeftTypes DEF TypeOK
<1> QED BY <1>1, <1>3 DEF TypeOK

LEMMA UndoTypes == ASSUME TypeOK, NEW o \in Ops, Undo(o) PROVE TypeOK'
<1> DEFINE j == journal[o]
<1>1. /\ at' = "restore" /\ UNCHANGED <<mem, edges, graph, fresh, journal, bounds>>
      /\ run' = [NoRun EXCEPT !.op = o, !.undo = TRUE, !.target = j.target,
                          !.sources = DOMAIN j.snap \ {j.target}, !.snap = j.snap,
                          !.left = DOMAIN j.snap,
                          !.created = j.created, !.displaced = j.displaced]
  BY DEF Undo, Goto
<1>2. j \in EntryType
  BY DEF TypeOK
<1>3. /\ j.snap \in Snaps /\ j.target \in Memories \cup {NoMemory}
      /\ j.created \in SUBSET EdgeType /\ j.displaced \in SUBSET EdgeType
  BY <1>2, EntryParts
<1>4. DOMAIN j.snap \in SUBSET Memories
  BY <1>3, SnapsOK
<1> HIDE DEF j
<1>5. run' \in RunType
  BY <1>1, <1>3, <1>4, NoRunOK DEF RunType
<1> QED BY <1>1, <1>5 DEF TypeOK, bounds

LEMMA RestoreRowTypes ==
  ASSUME TypeOK, Shaped, NEW m \in Memories, RestoreRow(m) PROVE TypeOK'
<1>1. /\ at = "restore" /\ m \in run.left /\ mem' = [mem EXCEPT ![m] = run.snap[m]]
      /\ run' = [run EXCEPT !.left = run.left \ {m}]
      /\ UNCHANGED <<edges, graph, fresh, journal, at, bounds>>
  BY DEF RestoreRow, Restored
<1>2. run' \in RunType
  BY <1>1, RunParts, LeftTypes DEF TypeOK
<1>3. run.snap[m] \in RowType
  BY <1>1, RunParts, SnapsOK DEF TypeOK, Shaped
<1>4. mem' \in [Memories -> RowType]
  BY <1>1, <1>3 DEF TypeOK
<1> QED BY <1>1, <1>2, <1>4 DEF TypeOK, bounds

LEMMA UnlinkTypes == ASSUME TypeOK, Unlink PROVE TypeOK'
<1>1. /\ at' = "relink" /\ UNCHANGED <<mem, graph, fresh, journal, bounds>>
      /\ run' = [run EXCEPT !.displaced = IF run.undo THEN run.displaced
                                          ELSE run.before \ edges]
      /\ edges' = edges \ run.created
  BY DEF Unlink, Goto, Displaced
<1>2. /\ (IF run.undo THEN run.displaced ELSE run.before \ edges) \in SUBSET EdgeType
      /\ edges' \in SUBSET EdgeType
  BY <1>1, RunParts DEF TypeOK
<1>3. run' \in RunType
  BY <1>1, <1>2 DEF TypeOK, RunType
<1> QED BY <1>1, <1>2, <1>3 DEF TypeOK, bounds

LEMMA RelinkTypes == ASSUME TypeOK, Relink PROVE TypeOK'
<1>1. /\ at' = "settle" /\ fresh' = fresh + 1 /\ UNCHANGED <<mem, graph, journal, run, bounds>>
      /\ edges' = edges \cup {Edge(e, fresh) : e \in {d \in run.displaced :
                             Key(d) \notin KeysOf(edges) /\ Present(d.src) /\ Present(d.tgt)}}
  BY DEF Relink, Goto
<1>2. \A e \in run.displaced : Edge(e, fresh) \in EdgeType
  BY RunParts DEF TypeOK, Edge, EdgeType
<1>3. edges' \in SUBSET EdgeType
  BY <1>1, <1>2 DEF TypeOK
<1> QED BY <1>1, <1>3 DEF TypeOK, bounds

LEMMA StatusTypes ==
  ASSUME TypeOK, NEW o \in Ops, NEW s \in {"failed", "undone"},
         journal' = [journal EXCEPT ![o].status = s]
  PROVE  journal' \in [Ops -> EntryType]
<1> DEFINE j == [journal[o] EXCEPT !.status = s]
<1>1. j \in EntryType
  BY DEF TypeOK, EntryType
<1>2. journal' = [journal EXCEPT ![o] = j]
  BY DEF TypeOK
<1> HIDE DEF j
<1> QED BY <1>1, <1>2 DEF TypeOK

LEMMA SettleTypes == ASSUME TypeOK, Shaped, Settle PROVE TypeOK'
<1>1. /\ at = "settle" /\ Stop /\ UNCHANGED <<mem, edges, graph, fresh, bounds>>
      /\ journal' = [journal EXCEPT ![run.op].status = IF run.undo THEN "undone" ELSE "failed"]
  BY DEF Settle
<1>2. journal' \in [Ops -> EntryType]
  BY <1>1, StatusTypes DEF Shaped
<1> QED BY <1>1, <1>2, StopTypes DEF TypeOK, bounds

LEMMA CrashTypes == ASSUME TypeOK, Crash PROVE TypeOK'
BY StopTypes DEF Crash, TypeOK

\* Writes of others leave the operations that a row remembers.
LEMMA RowWritten ==
  ASSUME NEW r \in RowType,
         NEW x \in {[r EXCEPT !.status = "deleted", !.was = r.status], Undeleted(r),
                    [r EXCEPT !.text = r.text + 1]}
  PROVE  x \in RowType /\ x.ops = r.ops /\ x.by = r.by /\ Marks(x) = Marks(r)
         /\ (x.status # "purged" \/ x.status = r.status)
<1>1. /\ r.status \in Statuses /\ r.ops \in SUBSET Ops /\ r.by \in Ops \cup {NoOp}
      /\ r.text \in Nat
  BY RowParts
<1>2. CASE x = [r EXCEPT !.status = "deleted", !.was = r.status]
  <2>1. x \in RowType /\ x.ops = r.ops /\ x.by = r.by /\ x.status = "deleted"
    BY <1>1, <1>2 DEF RowType, Statuses
  <2> QED BY <2>1 DEF Marks
<1>3. CASE x = Undeleted(r)
  <2>1. x \in RowType /\ x.ops = r.ops /\ x.by = r.by /\ x.status \in Mergeable
    BY <1>1, <1>3 DEF Undeleted, RowType, Statuses, Mergeable
  <2> QED BY <2>1 DEF Marks, Mergeable
<1>4. CASE x = [r EXCEPT !.text = r.text + 1]
  <2>1. x \in RowType /\ x.ops = r.ops /\ x.by = r.by /\ x.status = r.status
    BY <1>1, <1>4 DEF RowType
  <2> QED BY <2>1 DEF Marks
<1> QED BY <1>2, <1>3, <1>4

LEMMA OthersTypes ==
  ASSUME TypeOK, NEW m \in Memories, SoftDelete(m) \/ Undelete(m) \/ Remove(m) \/ Edit(m)
  PROVE  TypeOK'
<1>1. mem[m] \in RowType
  BY DEF TypeOK
<1>2. CASE SoftDelete(m)
  <2>1. mem' = [mem EXCEPT ![m] = [mem[m] EXCEPT !.status = "deleted", !.was = mem[m].status]]
    BY <1>2 DEF SoftDelete, TypeOK
  <2>2. mem' \in [Memories -> RowType]
    BY <1>1, <2>1, RowWritten DEF TypeOK
  <2> QED BY <1>2, <2>2 DEF SoftDelete, Outside, TypeOK
<1>3. CASE Undelete(m)
  <2>1. mem' = [mem EXCEPT ![m] = Undeleted(mem[m])]
    BY <1>3 DEF Undelete
  <2>2. mem' \in [Memories -> RowType]
    BY <1>1, <2>1, RowWritten DEF TypeOK
  <2> QED BY <1>3, <2>2 DEF Undelete, Outside, TypeOK
<1>4. CASE Remove(m)
  <2> DEFINE gone == [status |-> "purged", tags |-> {}, text |-> 0,
                      into |-> NoMemory, by |-> NoOp, ops |-> {}, was |-> "none"]
  <2>1. gone \in RowType
    BY DEF RowType, Statuses
  <2>2. mem' = [mem EXCEPT ![m] = gone] /\ edges' \subseteq edges
    BY <1>4 DEF Remove
  <2> HIDE DEF gone
  <2> QED BY <1>4, <2>1, <2>2 DEF Remove, TypeOK, bounds
<1>5. CASE Edit(m)
  <2>1. mem' = [mem EXCEPT ![m] = [mem[m] EXCEPT !.text = mem[m].text + 1]]
    BY <1>5 DEF Edit, TypeOK
  <2>2. mem' \in [Memories -> RowType]
    BY <1>1, <2>1, RowWritten DEF TypeOK
  <2> QED BY <1>5, <2>2 DEF Edit, Outside, TypeOK
<1> QED BY <1>2, <1>3, <1>4, <1>5

LEMMA NextTypes == ASSUME TypeOK, Shaped, Journalled, [Next]_vars PROVE TypeOK'
<1>1. CASE UNCHANGED vars
  BY <1>1 DEF vars, TypeOK
<1>2. CASE Next
  BY <1>2, PreviewTypes, RecordTypes, CopyTypes, CopiesDoneTypes, UpdateTargetTypes,
     UpdateSourceTypes, FinishTypes, ErrorTypes, UndoTypes, RestoreRowTypes, UnlinkTypes,
     RelinkTypes, SettleTypes, CrashTypes, OthersTypes, Zenon DEF Next
<1> QED BY <1>1, <1>2
-----------------------------------------------------------------------------
\* Facts about the running request and the journal.
LEMMA MarksOK == ASSUME NEW r \in RowType PROVE Marks(r) \subseteq Ops
BY RowParts DEF Marks

LEMMA GroupOK ==
  ASSUME TypeOK, NEW o \in Ops
  PROVE  /\ Group(o) \subseteq Memories
         /\ \A m \in Group(o) : journal[o].snap[m] \in RowType
         /\ \A m \in DOMAIN journal[o].post : journal[o].post[m] \in RowType
BY EntryParts, SnapsOK DEF TypeOK, Group

LEMMA WorkingOK ==
  ASSUME IInv, at \in Working
  PROVE  /\ run.op \in Ops /\ run.op \in Started /\ run.op # NoOp
         /\ Members \subseteq Memories /\ run.target \in Members /\ run.sources \subseteq Members
         /\ Group(run.op) = Members /\ run.target = journal[run.op].target
         /\ run.snap = journal[run.op].snap
         /\ \A m \in Members : /\ Present(m) /\ run.snap[m] \in RowType
                              /\ run.snap[m].status \in Mergeable
                              /\ run.op \notin Marks(run.snap[m])
<1>1. /\ run.op \in Ops /\ run.target \in Memories /\ run.snap = journal[run.op].snap
      /\ DOMAIN run.snap = Members /\ run.target = journal[run.op].target
      /\ \A m \in Members : Present(m)
      /\ journal[run.op].status \in {"completed", "pending"}
  BY DEF IInv, Rest, Shaped
<1>2. run.op \in Started /\ run.op # NoOp
  BY <1>1, NamesAssumption DEF Started
<1>3. Members \subseteq Memories /\ run.target \in Members /\ run.sources \subseteq Members
  BY <1>1, RunParts DEF Members, IInv, TypeOK
<1>4. Group(run.op) = Members
  BY <1>1 DEF Group
<1>5. \A m \in Members : /\ run.snap[m] \in RowType /\ run.snap[m].status \in Mergeable
                        /\ run.op \notin Marks(run.snap[m])
  BY <1>1, <1>2, <1>4, GroupOK DEF IInv, Rest, Journalled, Marked
<1> QED BY <1>1, <1>2, <1>3, <1>4, <1>5

\* Facts about marks depend only on the snapshots and numbers of the journal.
LEMMA WholeKept ==
  ASSUME NEW j, NEW k, NEW r, NEW m, Whole(j, r, m),
         \A s \in Marks(r) : k[s].snap[m] = j[s].snap[m]
  PROVE  Whole(k, r, m)
BY DEF Whole

LEMMA SinceKept ==
  ASSUME NEW j, NEW k, NEW r, NEW n, Since(j, r, n), \A s \in Marks(r) : k[s].no = j[s].no
  PROVE  Since(k, r, n)
BY DEF Since

-----------------------------------------------------------------------------
(* Steps that write neither rows nor the journal. *)

LEMMA Carried ==
  ASSUME IInv, UNCHANGED <<mem, journal, scene, edits, crashes>>, at \in Working, at' \in Working,
         run'.op = run.op, run'.undo = run.undo, run'.target = run.target,
         run'.sources = run.sources, run'.snap = run.snap,
         \/ at \in Merging /\ at' \in {"copy", "target"} /\ run'.left = run.left
         \/ at \in Merging /\ at' = "restore" /\ run'.left = Members
         \/ at \in Restoring /\ run.left = {} /\ run'.left = {} /\ at' \in {"relink", "settle"}
  PROVE  Rest'
<1>1. Members' = Members
  BY DEF Members
<1>2. Started' = Started /\ \A o : Group(o)' = Group(o) /\ Over(o)' = Over(o)
  BY DEF Started, Group, Over
<1>3. Shaped'
  BY <1>1 DEF IInv, Rest, Shaped, Present
<1>4. Journalled'
  BY <1>2 DEF IInv, Rest, Journalled
<1>5. Marked'
  BY <1>1, <1>2 DEF IInv, Rest, Marked
<1>6. Restorable'
  BY <1>1, <1>2 DEF IInv, Rest, Restorable, Present
<1>7. Nested'
  BY <1>1, <1>2 DEF IInv, Rest, Nested, Present, Shaped
<1>8. Untouched'
  BY DEF IInv, Rest, Untouched, Shaped
<1> QED BY <1>3, <1>4, <1>5, <1>6, <1>7, <1>8 DEF Rest

LEMMA CopyRest == ASSUME IInv, NEW e \in run.todo, Copy(e) PROVE Rest'
<1>1. /\ UNCHANGED <<mem, journal, at, bounds>> /\ at = "copy"
      /\ \/ run' = [run EXCEPT !.todo = @ \ {e}]
         \/ run' = [run EXCEPT !.todo = @ \ {e}, !.seen = @ \cup {Retarget(e)},
                               !.made = @ \cup {Edge(Retarget(e), fresh)}]
  BY DEF Copy
<1>2. /\ run'.op = run.op /\ run'.undo = run.undo /\ run'.target = run.target
      /\ run'.sources = run.sources /\ run'.snap = run.snap /\ run'.left = run.left
  BY <1>1 DEF IInv, TypeOK, RunType
<1> QED BY <1>1, <1>2, Carried DEF bounds

LEMMA CopiesDoneRest == ASSUME IInv, CopiesDone PROVE Rest'
<1>1. /\ UNCHANGED <<mem, journal, bounds>> /\ at = "copy" /\ at' = "target"
      /\ run' = [run EXCEPT !.created = run.made, !.displaced = Displaced(run.before)]
  BY DEF CopiesDone, Goto
<1>2. /\ run'.op = run.op /\ run'.undo = run.undo /\ run'.target = run.target
      /\ run'.sources = run.sources /\ run'.snap = run.snap /\ run'.left = run.left
  BY <1>1 DEF IInv, TypeOK, RunType
<1> QED BY <1>1, <1>2, Carried DEF bounds

LEMMA ErrorRest == ASSUME IInv, Error PROVE Rest'
<1>1. /\ UNCHANGED <<mem, journal, scene, edits, crashes>> /\ at \in Merging /\ at' = "restore"
      /\ run' = [run EXCEPT !.left = Members]
  BY DEF Error
<1>2. /\ run'.op = run.op /\ run'.undo = run.undo /\ run'.target = run.target
      /\ run'.sources = run.sources /\ run'.snap = run.snap /\ run'.left = Members
  BY <1>1 DEF IInv, TypeOK, RunType
<1> QED BY <1>1, <1>2, Carried

LEMMA UnlinkRest == ASSUME IInv, Unlink PROVE Rest'
<1>1. /\ UNCHANGED <<mem, journal, bounds>> /\ at = "restore" /\ at' = "relink" /\ run.left = {}
      /\ run' = [run EXCEPT !.displaced = IF run.undo THEN @ ELSE Displaced(run.before)]
  BY DEF Unlink, Goto
<1>2. /\ run'.op = run.op /\ run'.undo = run.undo /\ run'.target = run.target
      /\ run'.sources = run.sources /\ run'.snap = run.snap /\ run'.left = {}
  BY <1>1 DEF IInv, TypeOK, RunType
<1> QED BY <1>1, <1>2, Carried DEF bounds

LEMMA RelinkRest == ASSUME IInv, Relink PROVE Rest'
<1>1. /\ UNCHANGED <<mem, journal, run, bounds>> /\ at = "relink" /\ at' = "settle"
      /\ run.left = {}
  BY DEF Relink, Goto, IInv, Rest, Shaped
<1> QED BY <1>1, Carried DEF bounds

-----------------------------------------------------------------------------
(* The journal. *)

\* A change of an entry that keeps its merge, snapshot and number.
LEMMA EntryKept ==
  ASSUME IInv, NEW o \in Started, NEW j, journal' = [journal EXCEPT ![o] = j],
         j.status # "none", j.no = journal[o].no, j.target = journal[o].target,
         j.snap = journal[o].snap
  PROVE  /\ Started' = Started
         /\ \A q \in Ops : /\ Group(q)' = Group(q) /\ journal'[q].snap = journal[q].snap
                           /\ journal'[q].no = journal[q].no
                           /\ journal'[q].target = journal[q].target
         /\ journal'[o] = j /\ \A q \in Ops \ {o} : journal'[q] = journal[q]
<1>1. o \in Ops /\ journal[o].status # "none"
  BY DEF Started
<1>2. journal'[o] = j /\ \A q \in Ops \ {o} : journal'[q] = journal[q]
  BY <1>1 DEF IInv, TypeOK
<1> QED BY <1>1, <1>2 DEF Started, Group

LEMMA JournalSame ==
  ASSUME IInv, Started' = Started,
         \A q \in Ops : /\ Group(q)' = Group(q) /\ journal'[q].snap = journal[q].snap
                        /\ journal'[q].no = journal[q].no
                        /\ journal'[q].target = journal[q].target
  PROVE  /\ IsFiniteSet(Started')
         /\ \A o \in Started' : /\ journal'[o].target \in Group(o)'
                        /\ \A m \in Group(o)' : journal'[o].snap[m].status \in Mergeable
                        /\ journal'[o].no < Cardinality(Started')
                        /\ \A q \in Started' \ {o} : journal'[q].no # journal'[o].no
<1>1. Started \subseteq Ops
  BY DEF Started
<1> QED BY <1>1 DEF IInv, Rest, Journalled

LEMMA FinishRest == ASSUME IInv, Finish PROVE Rest'
<1> SUFFICES ASSUME NEW o, o = run.op PROVE Rest'
  OBVIOUS
<1> DEFINE j == [journal[o] EXCEPT !.status = "completed", !.post = Post,
                    !.created = run.created, !.displaced = run.displaced]
<1>1. /\ at = "sources" /\ run.left = {} /\ at' = "idle" /\ run' = NoRun
      /\ UNCHANGED <<mem, edges, graph, fresh, bounds>>
  BY DEF Finish, Stop
<1>2. o \in Ops /\ o \in Started /\ Group(o) = Members /\ Members \subseteq Memories
  BY <1>1, WorkingOK
<1>3. journal' = [journal EXCEPT ![o] = j]
  BY <1>2 DEF Finish, IInv, TypeOK
<1>4. /\ j.status = "completed" /\ j.no = journal[o].no /\ j.target = journal[o].target
      /\ j.snap = journal[o].snap /\ j.post = Post
  BY <1>2 DEF IInv, TypeOK, EntryType
<1> HIDE DEF j
<1>5. /\ Started' = Started
      /\ \A q \in Ops : /\ Group(q)' = Group(q) /\ journal'[q].snap = journal[q].snap
                        /\ journal'[q].no = journal[q].no
                        /\ journal'[q].target = journal[q].target
      /\ journal'[o] = j /\ \A q \in Ops \ {o} : journal'[q] = journal[q]
  BY <1>2, <1>3, <1>4, EntryKept
<1>6. /\ ~run.undo /\ \A q \in Started \ {o} : journal[q].no < journal[o].no
      /\ \A m \in Members : Present(m)
  BY <1>1, WorkingOK DEF IInv, Rest, Journalled, Shaped
<1>7. \A m \in Members : o \in Marks(mem[m])
  BY <1>1, <1>2, WorkingOK DEF IInv, Rest, Marked, Members, Marks
<1>8. Shaped'
  BY <1>1 DEF Shaped
<1>9. Journalled'
  <2>1. DOMAIN journal'[o].post = Group(o)'
    BY <1>2, <1>4, <1>5 DEF Post
  <2>2. \A q \in Ops : journal'[q].status = "completed" => DOMAIN journal'[q].post = Group(q)'
    BY <1>5, <2>1 DEF IInv, Rest, Journalled
  <2> QED BY <1>1, <1>5, <2>2, JournalSame DEF IInv, Rest, Journalled
<1>10. Marked'
  BY <1>1, <1>2, <1>5 DEF IInv, Rest, Marked, Started
<1>11. Restorable'
  <2> SUFFICES ASSUME edits = 0 PROVE Restorable'
    BY <1>1 DEF Restorable, bounds
  <2>1. \A m \in Memories : Present(m) => Whole(journal', mem[m], m)
    BY <1>5, WholeKept, MarksOK DEF IInv, Rest, Restorable, TypeOK
  <2>2. \A q \in Started : \A m \in Group(q) : Whole(journal', journal[q].snap[m], m)
    BY <1>5, WholeKept, GroupOK, MarksOK DEF IInv, Rest, Restorable, Started
  <2>3. \A m \in Memories : \A s \in Marks(mem[m]) : ~Over(s)'
    BY <1>4, <1>5, MarksOK DEF IInv, Rest, Restorable, Over, TypeOK
  <2> QED BY <1>1, <1>5, <2>1, <2>2, <2>3 DEF Restorable, Present, Started
<1>12. Nested'
  <2>1. ASSUME NEW q \in Ops, journal'[q].status = "completed", NEW m \in Group(q)',
               NEW s \in Marks(journal'[q].post[m])
        PROVE  s \in Started' /\ journal'[s].no <= journal'[q].no
    <3>1. CASE q = o
      <4>1. m \in Members /\ s \in Marks(mem[m])
        BY <1>2, <1>4, <1>5, <2>1, <3>1 DEF Post
      <4>2. s \in Started /\ s \in Ops
        BY <1>2, <4>1 DEF IInv, Rest, Marked, Started
      <4>3. journal[s].no \in Nat /\ journal[o].no \in Nat
        BY <1>2, <4>2, EntryParts DEF IInv, TypeOK
      <4> QED BY <1>2, <1>5, <1>6, <3>1, <4>2, <4>3
    <3>2. CASE q # o
      BY <1>5, <2>1, <3>2 DEF IInv, Rest, Nested, Started
    <3> QED BY <3>1, <3>2
  <2>2. ASSUME crashes = 0, NEW q \in Ops, journal'[q].status = "completed",
               NEW m \in Group(q), Present(m)
        PROVE  Since(journal', mem[m], journal'[q].no)
    <3>1. CASE q = o
      <4>1. m \in Members /\ o \in Marks(mem[m]) /\ journal'[o].no >= journal'[o].no
        BY <1>2, <1>4, <1>5, <1>7, <3>1, EntryParts DEF IInv, TypeOK
      <4> QED BY <3>1, <4>1 DEF Since
    <3>2. CASE q # o
      <4>1. Since(journal, mem[m], journal[q].no) /\ mem[m] \in RowType
        BY <1>5, <2>2, <3>2, GroupOK DEF IInv, Rest, Nested, TypeOK
      <4> QED BY <1>5, <2>2, <4>1, SinceKept, MarksOK
    <3> QED BY <3>1, <3>2
  <2>3. ASSUME crashes = 0, NEW q \in Ops, journal'[q].status = "completed",
               NEW p \in Started, journal'[q].no < journal'[p].no, NEW m \in Group(q) \cap Group(p)
        PROVE  Since(journal', journal'[p].snap[m], journal'[q].no)
    <3>1. p \in Ops /\ journal[q].no \in Nat /\ journal[p].no \in Nat /\ journal[o].no \in Nat
      BY <1>2, EntryParts DEF IInv, TypeOK, Started
    <3>2. q # o /\ journal[q].status = "completed" /\ journal[q].no < journal[p].no
      BY <1>2, <1>5, <1>6, <2>3, <3>1
    <3>3. Since(journal, journal[p].snap[m], journal[q].no) /\ journal[p].snap[m] \in RowType
      BY <2>3, <3>1, <3>2, GroupOK DEF IInv, Rest, Nested
    <3> QED BY <1>5, <3>1, <3>3, SinceKept, MarksOK
  <2>4. UNCHANGED <<mem, crashes>> /\ at' = "idle" /\ \A q \in Ops : Group(q)' = Group(q)
    BY <1>1, <1>5 DEF bounds
  <2>5. Started' = Started /\ Started \subseteq Ops
    BY <1>5 DEF Started
  <2>6. \A m \in Memories : Present(m)' = Present(m)
    BY <2>4 DEF Present
  <2>7. \A q \in Ops : Group(q) \subseteq Memories
    BY GroupOK DEF IInv
  <2>8. \A q \in Ops : journal'[q].status = "completed" =>
          \A m \in Group(q)' : \A s \in Marks(journal'[q].post[m]) :
            s \in Started' /\ journal'[s].no <= journal'[q].no
    BY <2>1
  <2>9. ASSUME crashes' = 0, NEW q \in Ops, journal'[q].status = "completed"
        PROVE  /\ \A m \in Group(q)' : Present(m)' => Since(journal', mem'[m], journal'[q].no)
               /\ \A p \in Started' : journal'[q].no < journal'[p].no =>
                    \A m \in Group(q)' \cap Group(p)' :
                      Since(journal', journal'[p].snap[m], journal'[q].no)
    BY <2>2, <2>3, <2>4, <2>5, <2>6, <2>7, <2>9
  <2> QED BY <2>4, <2>8, <2>9 DEF Nested
<1>13. Untouched'
  BY <1>1 DEF Untouched
<1> QED BY <1>8, <1>9, <1>10, <1>11, <1>12, <1>13 DEF Rest

LEMMA SettleRest == ASSUME IInv, Settle PROVE Rest'
<1> SUFFICES ASSUME NEW o, o = run.op PROVE Rest'
  OBVIOUS
<1> DEFINE st == IF run.undo THEN "undone" ELSE "failed"
           j == [journal[o] EXCEPT !.status = st]
<1>1. /\ at = "settle" /\ run.left = {} /\ at' = "idle" /\ run' = NoRun
      /\ UNCHANGED <<mem, edges, graph, fresh, bounds>>
  BY DEF Settle, Stop, IInv, Rest, Shaped
<1>2. o \in Ops /\ o \in Started /\ Group(o) = Members /\ Members \subseteq Memories
  BY <1>1, WorkingOK
<1>3. journal' = [journal EXCEPT ![o] = j]
  BY <1>2 DEF Settle, IInv, TypeOK
<1>4. /\ j.status \in {"failed", "undone"} /\ j.no = journal[o].no /\ j.target = journal[o].target
      /\ j.snap = journal[o].snap /\ j.post = journal[o].post
  BY <1>2 DEF IInv, TypeOK, EntryType
<1> HIDE DEF j, st
<1>5. /\ Started' = Started
      /\ \A q \in Ops : /\ Group(q)' = Group(q) /\ journal'[q].snap = journal[q].snap
                        /\ journal'[q].no = journal[q].no
                        /\ journal'[q].target = journal[q].target
      /\ journal'[o] = j /\ \A q \in Ops \ {o} : journal'[q] = journal[q]
  BY <1>2, <1>3, <1>4, EntryKept
<1>6. \A q \in Ops : journal'[q].status = "completed" =>
        q # o /\ journal[q].status = "completed" /\ journal'[q] = journal[q]
  BY <1>4, <1>5
<1>7. \A m \in Memories : o \notin Marks(mem[m])
  <2>1. \A m \in Members : o \notin Marks(mem[m])
    BY <1>1 DEF IInv, Rest, Marked
  <2> QED BY <1>2, <2>1 DEF IInv, Rest, Marked
<1>8. Shaped'
  BY <1>1 DEF Shaped
<1>9. Journalled'
  <2>1. \A q \in Ops : journal'[q].status = "completed" => DOMAIN journal'[q].post = Group(q)'
    BY <1>5, <1>6 DEF IInv, Rest, Journalled
  <2> QED BY <1>1, <1>5, <2>1, JournalSame DEF IInv, Rest, Journalled
<1>10. Marked'
  BY <1>1, <1>2, <1>5 DEF IInv, Rest, Marked, Started
<1>11. Restorable'
  <2> SUFFICES ASSUME edits = 0 PROVE Restorable'
    BY <1>1 DEF Restorable, bounds
  <2>1. \A m \in Memories : Present(m) => Whole(journal', mem[m], m)
    BY <1>5, WholeKept, MarksOK DEF IInv, Rest, Restorable, TypeOK
  <2>2. \A q \in Started : \A m \in Group(q) : Whole(journal', journal[q].snap[m], m)
    BY <1>5, WholeKept, GroupOK, MarksOK DEF IInv, Rest, Restorable, Started
  <2>3. \A m \in Memories : \A s \in Marks(mem[m]) : ~Over(s)'
    BY <1>5, <1>7, MarksOK DEF IInv, Rest, Restorable, Over, TypeOK
  <2> QED BY <1>1, <1>5, <2>1, <2>2, <2>3 DEF Restorable, Present, Started
<1>12. Nested'
  <2>1. UNCHANGED <<mem, crashes>> /\ at' = "idle" /\ \A q \in Ops : Group(q)' = Group(q)
    BY <1>1, <1>5 DEF bounds
  <2>2. Started' = Started /\ Started \subseteq Ops
    BY <1>5 DEF Started
  <2>3. \A m \in Memories : Present(m)' = Present(m)
    BY <2>1 DEF Present
  <2>4. ASSUME NEW q \in Ops, journal'[q].status = "completed",
               NEW m \in Group(q)', NEW s \in Marks(journal'[q].post[m])
        PROVE  s \in Started' /\ journal'[s].no <= journal'[q].no
    BY <1>5, <1>6, <2>2, <2>4 DEF IInv, Rest, Nested
  <2>5. ASSUME crashes' = 0, NEW q \in Ops, journal'[q].status = "completed",
               NEW m \in Group(q)', Present(m)'
        PROVE  Since(journal', mem'[m], journal'[q].no)
    <3>1. m \in Memories /\ m \in Group(q) /\ Present(m) /\ mem[m] \in RowType
      BY <2>1, <2>3, <2>5, GroupOK DEF IInv, TypeOK
    <3>2. Since(journal, mem[m], journal[q].no)
      BY <1>6, <2>1, <2>5, <3>1 DEF IInv, Rest, Nested
    <3> QED BY <1>5, <2>1, <2>5, <3>1, <3>2, SinceKept, MarksOK
  <2>6. ASSUME crashes' = 0, NEW q \in Ops, journal'[q].status = "completed",
               NEW p \in Started', journal'[q].no < journal'[p].no,
               NEW m \in Group(q)' \cap Group(p)'
        PROVE  Since(journal', journal'[p].snap[m], journal'[q].no)
    <3>1. p \in Ops /\ p \in Started /\ m \in Group(q) \cap Group(p)
          /\ journal[p].snap[m] \in RowType
      BY <1>5, <2>2, <2>6, GroupOK DEF IInv
    <3>2. Since(journal, journal[p].snap[m], journal[q].no)
      BY <1>5, <1>6, <2>1, <2>6, <3>1 DEF IInv, Rest, Nested
    <3> QED BY <1>5, <2>6, <3>1, <3>2, SinceKept, MarksOK
  <2> QED BY <2>1, <2>4, <2>5, <2>6 DEF Nested
<1>13. Untouched'
  BY <1>1 DEF Untouched
<1> QED BY <1>8, <1>9, <1>10, <1>11, <1>12, <1>13 DEF Rest

LEMMA CrashRest == ASSUME IInv, Crash PROVE Rest'
<1>1. /\ at' = "idle" /\ run' = NoRun /\ crashes' # 0
      /\ UNCHANGED <<mem, edges, graph, fresh, journal, scene, edits, errors>>
  BY DEF Crash, Stop, IInv, TypeOK
<1>2. Started' = Started /\ \A o : Group(o)' = Group(o) /\ Over(o)' = Over(o)
  BY <1>1 DEF Started, Group, Over
<1>3. Shaped'
  BY <1>1 DEF Shaped
<1>4. Journalled'
  BY <1>1, <1>2 DEF IInv, Rest, Journalled
<1>5. Marked'
  BY <1>1, <1>2 DEF IInv, Rest, Marked
<1>6. Restorable'
  BY <1>1, <1>2 DEF IInv, Rest, Restorable, Present
<1>7. Nested'
  BY <1>1, <1>2 DEF IInv, Rest, Nested
<1>8. Untouched'
  BY <1>1 DEF Untouched
<1> QED BY <1>3, <1>4, <1>5, <1>6, <1>7, <1>8 DEF Rest

-----------------------------------------------------------------------------
(* Other requests. *)

\* A row is written that keeps the marks of merges.
LEMMA Written ==
  ASSUME IInv, UNCHANGED <<journal, run, at, scene, crashes>>, edits' = edits + 1,
         NEW m \in Memories, NEW x \in RowType, mem' = [mem EXCEPT ![m] = x], Present(m),
         x.ops = mem[m].ops, x.by = mem[m].by, x.status # "purged",
         at = "idle" \/ (scene.threads /\ x.status = mem[m].status)
  PROVE  Rest'
<1>1. Members' = Members /\ Started' = Started /\ \A o : Group(o)' = Group(o)
  BY DEF Members, Started, Group
<1>2. \A k \in Memories : /\ Marks(mem'[k]) = Marks(mem[k]) /\ Present(k)' = Present(k)
                          /\ mem'[k].ops = mem[k].ops /\ mem'[k].by = mem[k].by
                          /\ at # "idle" => mem'[k].status = mem[k].status
  BY DEF IInv, TypeOK, Marks, Present
<1>3. Members \subseteq Memories \/ at = "idle"
  BY RunParts DEF Members, IInv, TypeOK, Rest, Shaped
<1>4. \A o \in Ops : Group(o) \subseteq Memories
  BY GroupOK DEF IInv
<1>5. Shaped'
  BY <1>1, <1>2, <1>3 DEF IInv, Rest, Shaped
<1>6. Journalled'
  BY <1>1 DEF IInv, Rest, Journalled
<1>7. Marked'
  <2>1. at # "idle" => run.target \in Memories /\ run.sources \subseteq Members
    BY <1>1 DEF IInv, Rest, Shaped, Members
  <2> QED BY <1>1, <1>2, <1>3, <2>1 DEF IInv, Rest, Marked
<1>8. Restorable'
  BY DEF IInv, TypeOK, Restorable
<1>9. Nested'
  <2>1. \A k \in Memories, n \in Nat :
          Since(journal, mem[k], n) => Since(journal', mem'[k], n)
    BY <1>2 DEF Since
  <2>2. \A q \in Ops : journal[q].no \in Nat
    BY EntryParts DEF IInv, TypeOK
  <2> QED BY <1>1, <1>2, <1>4, <2>1, <2>2 DEF IInv, Rest, Nested
<1>10. Untouched'
  BY DEF IInv, Rest, Untouched
<1> QED BY <1>5, <1>6, <1>7, <1>8, <1>9, <1>10 DEF Rest

LEMMA SoftDeleteRest == ASSUME IInv, NEW m \in Memories, SoftDelete(m) PROVE Rest'
<1> DEFINE x == [mem[m] EXCEPT !.status = "deleted", !.was = mem[m].status]
<1>1. mem[m] \in RowType
  BY DEF IInv, TypeOK
<1>2. /\ mem' = [mem EXCEPT ![m] = x] /\ at = "idle" /\ Present(m) /\ edits' = edits + 1
      /\ UNCHANGED <<journal, run, at, scene, crashes>>
  BY DEF SoftDelete, Outside, IInv, TypeOK
<1>3. x.status = "deleted"
  BY <1>1 DEF RowType
<1>4. x \in RowType /\ x.ops = mem[m].ops /\ x.by = mem[m].by
  BY <1>1, RowWritten
<1> HIDE DEF x
<1> QED BY <1>2, <1>3, <1>4, Written

LEMMA UndeleteRest == ASSUME IInv, NEW m \in Memories, Undelete(m) PROVE Rest'
<1> DEFINE x == Undeleted(mem[m])
<1>1. mem[m] \in RowType
  BY DEF IInv, TypeOK
<1>2. /\ mem' = [mem EXCEPT ![m] = x] /\ at = "idle" /\ Present(m) /\ edits' = edits + 1
      /\ UNCHANGED <<journal, run, at, scene, crashes>> /\ mem[m].status = "deleted"
  BY DEF Undelete, Outside, Present
<1>3. x \in RowType /\ x.ops = mem[m].ops /\ x.by = mem[m].by /\ x.status # "purged"
  BY <1>1, <1>2, RowWritten
<1> HIDE DEF x
<1> QED BY <1>2, <1>3, Written

LEMMA EditRest == ASSUME IInv, NEW m \in Memories, Edit(m) PROVE Rest'
<1> DEFINE x == [mem[m] EXCEPT !.text = mem[m].text + 1]
<1>1. mem[m] \in RowType
  BY DEF IInv, TypeOK
<1>2. /\ mem' = [mem EXCEPT ![m] = x] /\ (at = "idle" \/ scene.threads) /\ Present(m)
      /\ edits' = edits + 1 /\ UNCHANGED <<journal, run, at, scene, crashes>>
  BY DEF Edit, Outside, IInv, TypeOK
<1>3. x.status = mem[m].status
  BY <1>1 DEF RowType
<1>4. x \in RowType /\ x.ops = mem[m].ops /\ x.by = mem[m].by
  BY <1>1, RowWritten
<1> HIDE DEF x
<1> QED BY <1>2, <1>3, <1>4, Written DEF Present

LEMMA RemoveRest == ASSUME IInv, NEW m \in Memories, Remove(m) PROVE Rest'
<1> DEFINE gone == [status |-> "purged", tags |-> {}, text |-> 0,
                    into |-> NoMemory, by |-> NoOp, ops |-> {}, was |-> "none"]
<1>1. /\ mem' = [mem EXCEPT ![m] = gone] /\ at = "idle"
      /\ UNCHANGED <<journal, run, at, scene, edits, errors, crashes>>
  BY DEF Remove, bounds
<1>2. gone.status = "purged" /\ Marks(gone) = {}
  BY DEF Marks
<1> HIDE DEF gone
<1>3. Started' = Started /\ \A o : Group(o)' = Group(o) /\ Over(o)' = Over(o)
  BY <1>1 DEF Started, Group, Over
<1>4. \A k \in Memories : IF k = m THEN mem'[k] = gone ELSE mem'[k] = mem[k]
  BY <1>1 DEF IInv, TypeOK
<1>5. \A k \in Memories : Present(k)' => Present(k) /\ mem'[k] = mem[k]
  BY <1>2, <1>4 DEF Present
<1>6. \A k \in Memories : Marks(mem'[k]) \subseteq Marks(mem[k])
  BY <1>2, <1>4
<1>7. \A o \in Ops : Group(o) \subseteq Memories
  BY GroupOK DEF IInv
<1>8. Shaped'
  BY <1>1 DEF IInv, Rest, Shaped
<1>9. Journalled'
  BY <1>1, <1>3 DEF IInv, Rest, Journalled
<1>10. Marked'
  BY <1>1, <1>3, <1>6 DEF IInv, Rest, Marked
<1>11. Restorable'
  BY <1>1, <1>3, <1>5, <1>6 DEF IInv, Rest, Restorable
<1>12. Nested'
  BY <1>1, <1>3, <1>5, <1>7 DEF IInv, Rest, Nested
<1>13. Untouched'
  BY <1>1 DEF Untouched
<1> QED BY <1>8, <1>9, <1>10, <1>11, <1>12, <1>13 DEF Rest

-----------------------------------------------------------------------------
(* Requests begin. *)

LEMMA InitRest == Init => Rest
<1> SUFFICES ASSUME Init PROVE Rest
  OBVIOUS
<1>1. PICK st \in [Memories -> scene.initially] :
        mem = [m \in Memories |-> [status |-> st[m], tags |-> {m}, text |-> 0,
                                  into |-> NoMemory, by |-> NoOp, ops |-> {}, was |-> "none"]]
  BY DEF Init
<1>2. scene.initially \subseteq Mergeable
  BY ScenesAssumption DEF Init, Mergeable
<1>3. \A m \in Memories : Clean(mem[m], m) /\ Marks(mem[m]) = {}
  BY <1>1, <1>2 DEF Clean, Marks
<1>4. Started = {} /\ at = "idle" /\ run = NoRun /\ \A o \in Ops : journal[o].status = "none"
  BY DEF Init, Started, NoEntry
<1>5. Shaped /\ Untouched
  BY <1>4 DEF Shaped, Untouched
<1>6. Journalled
  BY <1>4, FS_EmptySet DEF Journalled
<1>7. Marked
  BY <1>3, <1>4 DEF Marked
<1>8. Restorable
  BY <1>3, <1>4 DEF Restorable, Whole, Clean
<1>9. Nested
  BY <1>4 DEF Nested
<1> QED BY <1>5, <1>6, <1>7, <1>8, <1>9 DEF Rest

LEMMA PreviewRest ==
  ASSUME IInv, NEW o \in Ops, NEW t \in Memories, NEW S \in SUBSET Memories, Preview(o, t, S)
  PROVE  Rest'
<1>1. /\ at = "idle" /\ at' = "previewed" /\ UNCHANGED <<mem, journal, bounds>>
      /\ o \notin Started /\ t \notin S /\ \A m \in S \cup {t} : mem[m].status \in Mergeable
      /\ run' = [NoRun EXCEPT !.op = o, !.target = t, !.sources = S,
                          !.tags = UNION {mem[m].tags : m \in S \cup {t}},
                          !.text = mem[t].text]
  BY DEF Preview, Goto
<1>2. run'.op = o /\ run'.target = t /\ run'.sources = S /\ ~run'.undo
      /\ run'.left = {} /\ run'.made = {} /\ run.op = NoOp
  BY <1>1 DEF NoRun, IInv, Rest, Shaped
<1>3. Started' = Started /\ \A q : Group(q)' = Group(q) /\ Over(q)' = Over(q)
  BY <1>1 DEF Started, Group, Over
<1>4. journal[o].status = "none" /\ Members' = S \cup {t}
  BY <1>1, <1>2 DEF Started, Members
<1>5. Shaped'
  BY <1>1, <1>2, <1>4 DEF Shaped
<1>6. Journalled'
  BY <1>1, <1>3 DEF IInv, Rest, Journalled
<1>7. Marked'
  BY <1>1, <1>3 DEF IInv, Rest, Marked
<1>8. Restorable'
  BY <1>1, <1>3 DEF IInv, Rest, Restorable, Present, bounds
<1>9. Nested'
  BY <1>1, <1>2, <1>3, NamesAssumption DEF IInv, Rest, Nested, Present, bounds
<1>10. Untouched'
  BY <1>1 DEF Untouched
<1> QED BY <1>5, <1>6, <1>7, <1>8, <1>9, <1>10 DEF Rest

LEMMA RecordRest == ASSUME IInv, Record PROVE Rest'
<1> SUFFICES ASSUME NEW o, o = run.op PROVE Rest'
  OBVIOUS
<1> DEFINE snap == [m \in Members |-> mem[m]]
           j == [NoEntry EXCEPT !.status = "pending", !.target = run.target, !.snap = snap,
                   !.no = Cardinality(Started)]
<1>1. /\ at = "previewed" /\ at' = "copy" /\ journal' = [journal EXCEPT ![o] = j]
      /\ run' = [run EXCEPT !.snap = snap,
                    !.before = {e \in edges : run.target \in {e.src, e.tgt}},
                    !.seen = KeysOf({e \in edges : run.target \in {e.src, e.tgt}}),
                    !.todo = {e \in edges : {e.src, e.tgt} \cap run.sources # {}}]
      /\ UNCHANGED <<mem, edges, graph, fresh, bounds>>
  BY DEF Record, Goto
<1>2. /\ o \in Ops /\ run.target \in Memories /\ run.target \notin run.sources
      /\ journal[o].status = "none" /\ ~run.undo /\ Started \subseteq Ops /\ o \notin Started
      /\ \A m \in Members : mem[m].status \in Mergeable
  BY <1>1 DEF IInv, Rest, Shaped, Started
<1>3. Members \subseteq Memories /\ run.target \in Members /\ run.sources \subseteq Memories
  BY <1>2, RunParts DEF Members, IInv, TypeOK
<1>4. DOMAIN snap = Members /\ \A m \in Members : snap[m] = mem[m]
  OBVIOUS
<1>5. /\ run'.op = o /\ run'.undo = run.undo /\ run'.target = run.target
      /\ run'.sources = run.sources /\ run'.snap = snap /\ run'.left = run.left
  BY <1>1 DEF IInv, TypeOK, RunType
<1>6. /\ j.status = "pending" /\ j.target = run.target /\ j.snap = snap
      /\ j.no = Cardinality(Started)
  BY DEF NoEntry
<1> HIDE DEF snap, j
<1>7. /\ Started' = Started \cup {o} /\ journal'[o] = j
      /\ \A q \in Ops \ {o} : journal'[q] = journal[q] /\ Group(q)' = Group(q)
      /\ Group(o)' = Members /\ Members' = Members
  BY <1>1, <1>2, <1>4, <1>5, <1>6 DEF Started, Group, IInv, TypeOK, Members
<1>8. /\ IsFiniteSet(Started) /\ Cardinality(Started) \in Nat
      /\ IsFiniteSet(Started') /\ Cardinality(Started') = Cardinality(Started) + 1
  BY <1>2, <1>7, FS_CardinalityType, FS_AddElement DEF IInv, Rest, Journalled
<1>9. /\ \A q \in Started : journal'[q].no \in Nat /\ journal'[q].no < journal'[o].no
                            /\ journal'[q].no = journal[q].no
      /\ journal'[o].no \in Nat /\ journal'[o].no < Cardinality(Started')
  BY <1>2, <1>6, <1>7, <1>8, EntryParts DEF IInv, Rest, Journalled, TypeOK
<1>10. /\ \A m \in Memories : \A s \in Marks(mem[m]) : s \in Started /\ s # o
       /\ \A q \in Started : \A m \in Group(q) : \A s \in Marks(journal[q].snap[m]) :
            s \in Started /\ s # o
  BY <1>2 DEF IInv, Rest, Marked
<1>11. Shaped'
  <2>1. run.left \subseteq Members /\ run.left \subseteq run.sources
    BY <1>1 DEF IInv, Rest, Shaped
  <2> QED BY <1>1, <1>2, <1>4, <1>5, <1>6, <1>7, <2>1 DEF Shaped, Present, Mergeable
<1>12. Journalled'
  <2>1. ASSUME NEW q \in Started
        PROVE  /\ journal'[q].target \in Group(q)'
               /\ \A m \in Group(q)' : journal'[q].snap[m].status \in Mergeable
               /\ journal'[q].no < Cardinality(Started')
               /\ \A p \in Started' \ {q} : journal'[p].no # journal'[q].no
    BY <1>2, <1>7, <1>8, <1>9 DEF IInv, Rest, Journalled
  <2>2. /\ journal'[o].target \in Group(o)'
        /\ \A m \in Group(o)' : journal'[o].snap[m].status \in Mergeable
        /\ \A p \in Started' \ {o} : journal'[p].no # journal'[o].no
    BY <1>2, <1>3, <1>4, <1>6, <1>7, <1>9
  <2>3. \A q \in Ops : journal'[q].status = "completed" => DOMAIN journal'[q].post = Group(q)'
    BY <1>6, <1>7 DEF IInv, Rest, Journalled
  <2> QED BY <1>5, <1>7, <1>8, <1>9, <2>1, <2>2, <2>3 DEF Journalled
<1>13. Marked'
  <2>1. \A m \in Memories : \A s \in Marks(mem'[m]) : s \in Started' /\ m \in Group(s)'
    BY <1>1, <1>2, <1>7, <1>10 DEF IInv, Rest, Marked
  <2>2. ASSUME NEW q \in Started', NEW m \in Group(q)', NEW s \in Marks(journal'[q].snap[m])
        PROVE  s \in Started' /\ s # q /\ m \in Group(s)'
    <3>1. CASE q = o
      <4>1. m \in Members /\ m \in Memories /\ s \in Marks(mem[m])
        BY <1>3, <1>4, <1>6, <1>7, <2>2, <3>1
      <4> QED BY <1>2, <1>7, <1>10, <3>1, <4>1 DEF IInv, Rest, Marked
    <3>2. CASE q # o
      BY <1>2, <1>7, <1>10, <2>2, <3>2 DEF IInv, Rest, Marked
    <3> QED BY <3>1, <3>2
  <2> QED BY <1>1, <2>1, <2>2 DEF Marked
<1>14. Restorable'
  <2> SUFFICES ASSUME edits = 0 PROVE Restorable'
    BY <1>1 DEF Restorable, bounds
  <2>1. \A m \in Memories : Present(m) => Whole(journal', mem[m], m)
    BY <1>2, <1>7, <1>10, WholeKept DEF IInv, Rest, Restorable
  <2>2. ASSUME NEW q \in Started', NEW m \in Group(q)'
        PROVE  Whole(journal', journal'[q].snap[m], m)
    <3>1. CASE q = o
      <4>1. m \in Members /\ m \in Memories /\ journal'[q].snap[m] = mem[m] /\ Present(m)
        BY <1>2, <1>3, <1>4, <1>6, <1>7, <2>2, <3>1 DEF Present, Mergeable
      <4> QED BY <2>1, <4>1
    <3>2. CASE q # o
      <4>1. q \in Started /\ q \in Ops /\ m \in Group(q) /\ journal'[q] = journal[q]
        BY <1>2, <1>7, <2>2, <3>2
      <4>2. Whole(journal, journal[q].snap[m], m)
        BY <4>1 DEF IInv, Rest, Restorable
      <4> QED BY <1>2, <1>7, <1>10, <4>1, <4>2, WholeKept
    <3> QED BY <3>1, <3>2
  <2>3. \A m \in Memories : \A s \in Marks(mem[m]) : ~Over(s)'
    BY <1>2, <1>7, <1>10 DEF IInv, Rest, Restorable, Over
  <2>4. \A m \in Members : Marks(run'.snap[m]) = Marks(mem[m])
    BY <1>4, <1>5
  <2>5. UNCHANGED mem
    BY <1>1
  <2> QED BY <1>1, <1>7, <2>1, <2>2, <2>3, <2>4, <2>5 DEF Restorable, Present
<1>15. Nested'
  <2>1. ASSUME NEW q \in Ops, journal'[q].status = "completed"
        PROVE  /\ q # o /\ journal[q].status = "completed" /\ q \in Started
               /\ journal'[q] = journal[q] /\ Group(q)' = Group(q) /\ Group(q) \subseteq Memories
    BY <1>6, <1>7, <2>1, GroupOK DEF Started, IInv
  <2>2. ASSUME NEW q \in Ops, journal'[q].status = "completed",
               NEW m \in Group(q)', NEW s \in Marks(journal'[q].post[m])
        PROVE  s \in Started' /\ journal'[s].no <= journal'[q].no
    <3>1. s \in Started /\ journal[s].no <= journal[q].no
      BY <2>1, <2>2 DEF IInv, Rest, Nested
    <3> QED BY <1>7, <1>9, <2>1, <2>2, <3>1
  <2>3. ASSUME crashes = 0, NEW q \in Ops, journal'[q].status = "completed",
               NEW m \in Group(q), Present(m)
        PROVE  Since(journal', mem[m], journal'[q].no)
    <3>1. Since(journal, mem[m], journal[q].no)
      BY <1>1, <2>1, <2>3 DEF IInv, Rest, Nested
    <3> QED BY <1>9, <1>10, <2>1, <2>3, <3>1, SinceKept
  <2>4. ASSUME crashes = 0, NEW q \in Ops, journal'[q].status = "completed",
               NEW p \in Started', journal'[q].no < journal'[p].no,
               NEW m \in Group(q)' \cap Group(p)'
        PROVE  Since(journal', journal'[p].snap[m], journal'[q].no)
    <3>1. CASE p = o
      <4>1. m \in Members /\ journal'[p].snap[m] = mem[m] /\ Present(m)
        BY <1>2, <1>4, <1>6, <1>7, <2>4, <3>1 DEF Present, Mergeable
      <4> QED BY <2>1, <2>3, <2>4, <4>1
    <3>2. CASE p # o
      <4>1. p \in Started /\ p \in Ops /\ journal'[p] = journal[p] /\ m \in Group(p)
        BY <1>2, <1>7, <2>4, <3>2
      <4>2. Since(journal, journal[p].snap[m], journal[q].no)
        BY <2>1, <2>4, <4>1 DEF IInv, Rest, Nested
      <4> QED BY <1>9, <1>10, <2>1, <2>4, <4>1, <4>2, SinceKept
    <3> QED BY <3>1, <3>2
  <2>5. UNCHANGED <<mem, crashes>> /\ \A m : Present(m)' = Present(m)
    BY <1>1 DEF Present, bounds
  <2>6. at' = "copy"
    BY <1>1
  <2> QED BY <2>1, <2>2, <2>3, <2>4, <2>5, <2>6 DEF Nested
<1>16. Untouched'
  BY <1>1 DEF Untouched
<1> QED BY <1>11, <1>12, <1>13, <1>14, <1>15, <1>16 DEF Rest

LEMMA UndoRest == ASSUME IInv, NEW o \in Ops, Undo(o) PROVE Rest'
<1> DEFINE j == journal[o]
<1>1. /\ at = "idle" /\ at' = "restore" /\ UNCHANGED <<mem, journal, bounds>>
      /\ j.status = "completed"
      /\ \A m \in Group(o) :
           /\ Present(m) /\ mem[m] = j.post[m]
           /\ IF m = j.target THEN o \in mem[m].ops
              ELSE mem[m].status = "merged" /\ mem[m].by = o /\ mem[m].into = j.target
      /\ run' = [NoRun EXCEPT !.op = o, !.undo = TRUE, !.target = j.target,
                          !.sources = Group(o) \ {j.target}, !.snap = j.snap, !.left = Group(o),
                          !.created = j.created, !.displaced = j.displaced]
  BY DEF Undo, CanUndo, Goto, Group
<1> HIDE DEF j
<1>2. /\ run'.op = o /\ run'.undo /\ run'.target = j.target /\ run'.snap = j.snap
      /\ run'.sources = Group(o) \ {j.target} /\ run'.left = Group(o)
  BY <1>1 DEF NoRun
<1>3. Started' = Started /\ \A q : Group(q)' = Group(q) /\ Over(q)' = Over(q)
  BY <1>1 DEF Started, Group, Over
<1>4. o \in Started /\ j.target \in Group(o) /\ Group(o) \subseteq Memories /\ Members' = Group(o)
  BY <1>1, <1>2, GroupOK DEF Started, IInv, Rest, Journalled, Members, j
<1>5. \A m \in Group(o) : o \in Marks(mem[m])
  BY <1>1, NamesAssumption DEF Marks
<1>6. run = NoRun /\ run.op = NoOp /\ UNCHANGED <<scene, edits, crashes>>
  BY <1>1 DEF IInv, Rest, Shaped, NoRun, bounds
<1>7. Shaped'
  BY <1>1, <1>2, <1>4 DEF Shaped, Present, j, Group
<1>8. Journalled'
  BY <1>1, <1>2, <1>3 DEF IInv, Rest, Journalled
<1>9. Marked'
  BY <1>1, <1>2, <1>3, <1>4 DEF IInv, Rest, Marked
<1>10. Restorable'
  <2> SUFFICES ASSUME edits = 0 PROVE Restorable'
    BY <1>6 DEF Restorable
  <2>1. \A m \in Group(o) : Marks(j.snap[m]) \subseteq Marks(mem[m])
    BY <1>1, <1>4, <1>5 DEF IInv, Rest, Restorable, Whole, j
  <2> QED BY <1>1, <1>2, <1>3, <2>1 DEF IInv, Rest, Restorable, Present
<1>11. Nested'
  <2>1. ASSUME crashes = 0, NEW q \in Ops, journal[q].status = "completed",
               journal[q].no > journal[o].no, NEW m \in Group(q) \cap Group(o)
        PROVE  FALSE
    <3>1. q # run.op
      BY <1>6, NamesAssumption
    <3>2. Since(journal, mem[m], journal[q].no)
      BY <1>1, <2>1, <3>1 DEF IInv, Rest, Nested
    <3>3. PICK s \in Marks(mem[m]) : journal[s].no >= journal[q].no
      BY <3>2 DEF Since
    <3>4. s \in Started /\ s \in Ops /\ journal[s].no <= journal[o].no
      BY <1>1, <3>3 DEF IInv, Rest, Nested, Started, j
    <3>5. journal[s].no \in Nat /\ journal[q].no \in Nat /\ journal[o].no \in Nat
      BY <3>4, EntryParts DEF IInv, TypeOK
    <3> QED BY <2>1, <3>3, <3>4, <3>5
  <2>2. ASSUME crashes' = 0, NEW q \in Ops, journal'[q].status = "completed"
        PROVE  /\ q # run'.op =>
                    \A m \in Group(q)' : Present(m)' => Since(journal', mem'[m], journal'[q].no)
               /\ \A p \in Started' : journal'[q].no < journal'[p].no =>
                    \A m \in Group(q)' \cap Group(p)' :
                      Since(journal', journal'[p].snap[m], journal'[q].no)
               /\ journal'[q].no > journal'[run'.op].no => Group(q)' \cap Members' = {}
    <3>1. q # run.op
      BY <1>6, NamesAssumption
    <3>2. journal[q].no > journal[o].no => Group(q) \cap Group(o) = {}
      BY <1>1, <1>6, <2>1, <2>2
    <3> QED BY <1>1, <1>2, <1>3, <1>4, <1>6, <2>2, <3>1, <3>2 DEF IInv, Rest, Nested, Present
  <2>3. \A q \in Ops : journal'[q].status = "completed" =>
          \A m \in Group(q)' : \A s \in Marks(journal'[q].post[m]) :
            s \in Started' /\ journal'[s].no <= journal'[q].no
    BY <1>1, <1>3 DEF IInv, Rest, Nested
  <2> QED BY <2>2, <2>3 DEF Nested
<1>12. Untouched'
  BY <1>1, <1>2 DEF Untouched, j
<1> QED BY <1>7, <1>8, <1>9, <1>10, <1>11, <1>12 DEF Rest

-----------------------------------------------------------------------------
(* Steps that write a row of the group. *)

\* The row m is written, with x, by the running request.
LEMMA RowStep ==
  ASSUME IInv, at \in Working, NEW m \in Members, NEW x \in RowType, x.status # "purged",
         mem' = [mem EXCEPT ![m] = x], UNCHANGED <<journal, scene, edits, crashes>>,
         run'.op = run.op, run'.undo = run.undo, run'.target = run.target,
         run'.sources = run.sources, run'.snap = run.snap
  PROVE  /\ Members' = Members /\ Started' = Started
         /\ \A q : Group(q)' = Group(q) /\ Over(q)' = Over(q)
         /\ mem'[m] = x /\ \A k \in Memories \ {m} : mem'[k] = mem[k]
         /\ m \in Memories /\ \A k \in Memories : Present(k)' <=> Present(k)
<1>1. m \in Memories /\ Present(m)
  BY WorkingOK
<1>2. mem'[m] = x /\ \A k \in Memories \ {m} : mem'[k] = mem[k]
  BY <1>1 DEF IInv, TypeOK
<1>3. \A k \in Memories : Present(k)' <=> Present(k)
  BY <1>1, <1>2 DEF Present
<1> QED BY <1>1, <1>2, <1>3 DEF Members, Started, Group, Over

\* What every such step keeps, when the marks of x are of merges of m that
\* stand and the newest merge of m is still to be seen.
LEMMA RowRest ==
  ASSUME IInv, at \in Working, NEW m \in Members, NEW x \in RowType, x.status # "purged",
         mem' = [mem EXCEPT ![m] = x], UNCHANGED <<journal, scene, edits, crashes>>,
         run'.op = run.op, run'.undo = run.undo, run'.target = run.target,
         run'.sources = run.sources, run'.snap = run.snap,
         at' \in Working, at' \in Restoring => at \in Restoring,
         \A s \in Marks(x) : s \in Started /\ m \in Group(s),
         edits = 0 => Whole(journal, x, m) /\ \A s \in Marks(x) : ~Over(s),
         crashes = 0 => \A q \in Ops : journal[q].status = "completed" /\ q # run.op
                                       /\ m \in Group(q) => Since(journal, x, journal[q].no)
  PROVE  /\ Journalled' /\ Nested'
         /\ \A k \in Memories : \A s \in Marks(mem'[k]) : s \in Started' /\ k \in Group(s)'
         /\ \A o \in Started' : \A k \in Group(o)' : \A s \in Marks(journal'[o].snap[k]) :
              s \in Started' /\ s # o /\ k \in Group(s)'
         /\ edits' = 0 =>
              /\ \A k \in Memories : Present(k)' => Whole(journal', mem'[k], k)
              /\ \A o \in Started' : \A k \in Group(o)' : Whole(journal', journal'[o].snap[k], k)
              /\ \A k \in Memories : \A s \in Marks(mem'[k]) : ~Over(s)'
<1>1. /\ Members' = Members /\ Started' = Started
      /\ \A q : Group(q)' = Group(q) /\ Over(q)' = Over(q)
      /\ mem'[m] = x /\ \A k \in Memories \ {m} : mem'[k] = mem[k]
      /\ m \in Memories /\ \A k \in Memories : Present(k)' <=> Present(k)
  BY RowStep
<1>2. Journalled'
  BY <1>1 DEF IInv, Rest, Journalled
<1>3. Nested'
  <2>1. \A q \in Ops : Group(q) \subseteq Memories
    BY GroupOK DEF IInv
  <2>2. \A q \in Ops : journal'[q].status = "completed" =>
          \A k \in Group(q)' : \A s \in Marks(journal'[q].post[k]) :
            s \in Started' /\ journal'[s].no <= journal'[q].no
    BY <1>1 DEF IInv, Rest, Nested
  <2>3. ASSUME crashes' = 0, NEW q \in Ops, journal'[q].status = "completed", q # run'.op,
               NEW k \in Group(q)', Present(k)'
        PROVE  Since(journal', mem'[k], journal'[q].no)
    <3>1. k \in Group(q) /\ k \in Memories /\ Present(k)
      BY <1>1, <2>1, <2>3
    <3> QED BY <1>1, <2>3, <3>1 DEF IInv, Rest, Nested
  <2>4. ASSUME crashes' = 0, NEW q \in Ops, journal'[q].status = "completed"
        PROVE  /\ \A p \in Started' : journal'[q].no < journal'[p].no =>
                    \A k \in Group(q)' \cap Group(p)' :
                      Since(journal', journal'[p].snap[k], journal'[q].no)
               /\ at' \in Restoring /\ run'.undo /\ journal'[q].no > journal'[run'.op].no =>
                    Group(q)' \cap Members' = {}
    BY <1>1, <2>4 DEF IInv, Rest, Nested
  <2> QED BY <2>2, <2>3, <2>4 DEF Nested
<1>4. \A k \in Memories : \A s \in Marks(mem'[k]) : s \in Started' /\ k \in Group(s)'
  BY <1>1 DEF IInv, Rest, Marked
<1>5. \A o \in Started' : \A k \in Group(o)' : \A s \in Marks(journal'[o].snap[k]) :
              s \in Started' /\ s # o /\ k \in Group(s)'
  BY <1>1 DEF IInv, Rest, Marked
<1>6. ASSUME edits' = 0
      PROVE  /\ \A k \in Memories : Present(k)' => Whole(journal', mem'[k], k)
             /\ \A o \in Started' : \A k \in Group(o)' : Whole(journal', journal'[o].snap[k], k)
             /\ \A k \in Memories : \A s \in Marks(mem'[k]) : ~Over(s)'
  BY <1>1, <1>6 DEF IInv, Rest, Restorable
<1> QED BY <1>2, <1>3, <1>4, <1>5, <1>6

\* A row with the marks of its snapshot and of the running merge is such a row.
LEMMA MergeRow ==
  ASSUME IInv, at \in Merging, NEW m \in Members, NEW x \in RowType,
         run.op \in Marks(x), Marks(x) \subseteq Marks(run.snap[m]) \cup {run.op},
         edits = 0 => /\ Marks(run.snap[m]) \subseteq Marks(x)
                      /\ x.status \in Mergeable => x.by = NoOp
  PROVE  /\ \A s \in Marks(x) : s \in Started /\ m \in Group(s)
         /\ edits = 0 => Whole(journal, x, m) /\ \A s \in Marks(x) : ~Over(s)
         /\ crashes = 0 => \A q \in Ops : journal[q].status = "completed" /\ q # run.op
                                       /\ m \in Group(q) => Since(journal, x, journal[q].no)
<1>1. /\ run.op \in Ops /\ run.op \in Started /\ Group(run.op) = Members /\ m \in Memories
      /\ run.snap[m] = journal[run.op].snap[m] /\ Present(m)
      /\ journal[run.op].status = "pending" /\ ~run.undo
  BY WorkingOK DEF IInv, Rest, Shaped
<1>2. \A s \in Marks(x) : s \in Started /\ m \in Group(s)
  BY <1>1 DEF IInv, Rest, Marked
<1>3. ASSUME edits = 0 PROVE Whole(journal, x, m) /\ \A s \in Marks(x) : ~Over(s)
  <2>1. Whole(journal, run.snap[m], m) /\ Marks(run.snap[m]) \subseteq Marks(mem[m])
    BY <1>1, <1>3 DEF IInv, Rest, Restorable
  <2>2. Whole(journal, x, m)
    BY <1>1, <1>3, <2>1 DEF Whole
  <2>3. \A s \in Marks(x) : ~Over(s)
    BY <1>1, <1>3, <2>1 DEF IInv, Rest, Restorable, Over
  <2> QED BY <2>2, <2>3
<1>4. ASSUME NEW q \in Ops, journal[q].status = "completed", q # run.op
      PROVE  Since(journal, x, journal[q].no)
  <2>1. q \in Started /\ journal[q].no < journal[run.op].no
    BY <1>1, <1>4 DEF IInv, Rest, Journalled, Started
  <2>2. journal[q].no \in Nat /\ journal[run.op].no \in Nat
    BY <1>1, EntryParts DEF IInv, TypeOK
  <2> QED BY <2>1, <2>2 DEF Since
<1> QED BY <1>2, <1>3, <1>4

LEMMA UpdateTargetRest == ASSUME IInv, UpdateTarget PROVE Rest'
<1> SUFFICES ASSUME NEW t, t = run.target, NEW x, x = TargetRow PROVE Rest'
  OBVIOUS
<1>1. /\ at = "target" /\ at' = "sources" /\ mem' = [mem EXCEPT ![t] = x]
      /\ run' = [run EXCEPT !.left = run.sources]
      /\ UNCHANGED <<edges, graph, fresh, journal, bounds>>
  BY DEF UpdateTarget, Goto, TargetRow
<1>2. /\ run'.op = run.op /\ run'.undo = run.undo /\ run'.target = run.target
      /\ run'.sources = run.sources /\ run'.snap = run.snap /\ run'.left = run.sources
  BY <1>1 DEF IInv, TypeOK, RunType
<1>3. /\ t \in Members /\ t \in Memories /\ run.sources \subseteq Members /\ t \notin run.sources
      /\ run.op # NoOp /\ run.snap[t] \in RowType /\ run.snap[t].status \in Mergeable
      /\ run.snap = journal[run.op].snap /\ run.op \in Started /\ t \in Group(run.op)
  BY <1>1, WorkingOK DEF IInv, Rest, Shaped
<1>4. /\ x \in RowType /\ x.status = "active" /\ x.by = run.snap[t].by
      /\ x.ops = run.snap[t].ops \cup {run.op}
  BY <1>1, TargetRowOK DEF IInv, Rest
<1>5. Marks(x) = Marks(run.snap[t]) \cup {run.op}
  BY <1>3, <1>4 DEF Marks
<1>6. edits = 0 => x.by = NoOp
  BY <1>3, <1>4 DEF IInv, Rest, Restorable, Whole
<1>7. /\ \A s \in Marks(x) : s \in Started /\ t \in Group(s)
      /\ edits = 0 => Whole(journal, x, t) /\ \A s \in Marks(x) : ~Over(s)
      /\ crashes = 0 => \A q \in Ops : journal[q].status = "completed" /\ q # run.op
                                       /\ t \in Group(q) => Since(journal, x, journal[q].no)
  BY <1>1, <1>3, <1>4, <1>5, <1>6, MergeRow
<1>8. /\ Members' = Members /\ mem'[t] = x /\ \A k \in Memories \ {t} : mem'[k] = mem[k]
      /\ Members \subseteq Memories /\ \A k \in Memories : Present(k)' <=> Present(k)
  BY <1>1, <1>2, <1>3, <1>4, RowStep, WorkingOK DEF bounds
<1>9. /\ Journalled' /\ Nested'
      /\ \A k \in Memories : \A s \in Marks(mem'[k]) : s \in Started' /\ k \in Group(s)'
      /\ \A o \in Started' : \A k \in Group(o)' : \A s \in Marks(journal'[o].snap[k]) :
              s \in Started' /\ s # o /\ k \in Group(s)'
      /\ edits' = 0 =>
              /\ \A k \in Memories : Present(k)' => Whole(journal', mem'[k], k)
              /\ \A o \in Started' : \A k \in Group(o)' : Whole(journal', journal'[o].snap[k], k)
              /\ \A k \in Memories : \A s \in Marks(mem'[k]) : ~Over(s)'
  BY <1>1, <1>2, <1>3, <1>4, <1>7, RowRest DEF bounds
<1>10. Shaped'
  BY <1>1, <1>2, <1>3, <1>8 DEF IInv, Rest, Shaped
<1>11. Marked'
  BY <1>1, <1>2, <1>3, <1>4, <1>8, <1>9 DEF Marked
<1>12. Restorable'
  <2>1. edits = 0 => \A k \in Members : Marks(run.snap[k]) \subseteq Marks(mem'[k])
    BY <1>1, <1>5, <1>8 DEF IInv, Rest, Restorable
  <2> QED BY <1>1, <1>2, <1>8, <1>9, <2>1 DEF Restorable, bounds
<1>13. Untouched'
  BY <1>1 DEF Untouched
<1> QED BY <1>9, <1>10, <1>11, <1>12, <1>13 DEF Rest

LEMMA UpdateSourceRest == ASSUME IInv, NEW m \in Memories, UpdateSource(m) PROVE Rest'
<1> SUFFICES ASSUME NEW x, x = SourceRow(m) PROVE Rest'
  OBVIOUS
<1>1. /\ at = "sources" /\ at' = "sources" /\ m \in run.left /\ mem' = [mem EXCEPT ![m] = x]
      /\ run' = [run EXCEPT !.left = run.left \ {m}]
      /\ UNCHANGED <<edges, graph, fresh, journal, bounds>>
  BY DEF UpdateSource, SourceRow
<1>2. /\ run'.op = run.op /\ run'.undo = run.undo /\ run'.target = run.target
      /\ run'.sources = run.sources /\ run'.snap = run.snap /\ run'.left = run.left \ {m}
  BY <1>1 DEF IInv, TypeOK, RunType
<1>3. /\ x \in RowType /\ x.status = "merged" /\ x.ops = run.snap[m].ops /\ x.by = run.op
      /\ m \in Members /\ m # run.target
  BY <1>1, SourceRowOK DEF IInv, Rest
<1>4. /\ run.op # NoOp /\ run.snap[m] \in RowType /\ run.snap[m].status \in Mergeable
      /\ run.snap = journal[run.op].snap /\ run.op \in Started /\ m \in Group(run.op)
      /\ run.sources \subseteq Members /\ run.target \in Memories
  BY <1>1, <1>3, WorkingOK
<1>5. run.op \in Marks(x) /\ Marks(x) \subseteq Marks(run.snap[m]) \cup {run.op}
  BY <1>3, <1>4 DEF Marks
<1>6. edits = 0 => Marks(run.snap[m]) \subseteq Marks(x)
  BY <1>3, <1>4 DEF IInv, Rest, Restorable, Whole, Marks
<1>7. /\ \A s \in Marks(x) : s \in Started /\ m \in Group(s)
      /\ edits = 0 => Whole(journal, x, m) /\ \A s \in Marks(x) : ~Over(s)
      /\ crashes = 0 => \A q \in Ops : journal[q].status = "completed" /\ q # run.op
                                       /\ m \in Group(q) => Since(journal, x, journal[q].no)
  BY <1>1, <1>3, <1>4, <1>5, <1>6, MergeRow DEF Mergeable
<1>8. /\ Members' = Members /\ mem'[m] = x /\ \A k \in Memories \ {m} : mem'[k] = mem[k]
      /\ Members \subseteq Memories /\ \A k \in Memories : Present(k)' <=> Present(k)
  BY <1>1, <1>2, <1>3, <1>4, RowStep, WorkingOK DEF bounds
<1>9. /\ Journalled' /\ Nested'
      /\ \A k \in Memories : \A s \in Marks(mem'[k]) : s \in Started' /\ k \in Group(s)'
      /\ \A o \in Started' : \A k \in Group(o)' : \A s \in Marks(journal'[o].snap[k]) :
              s \in Started' /\ s # o /\ k \in Group(s)'
      /\ edits' = 0 =>
              /\ \A k \in Memories : Present(k)' => Whole(journal', mem'[k], k)
              /\ \A o \in Started' : \A k \in Group(o)' : Whole(journal', journal'[o].snap[k], k)
              /\ \A k \in Memories : \A s \in Marks(mem'[k]) : ~Over(s)'
  BY <1>1, <1>2, <1>3, <1>4, <1>7, RowRest DEF bounds
<1>10. Shaped'
  BY <1>1, <1>2, <1>3, <1>4, <1>8 DEF IInv, Rest, Shaped
<1>11. Marked'
  <2>1. run.op \in mem[run.target].ops /\ \A k \in run.sources \ run.left : mem[k].by = run.op
    BY <1>1 DEF IInv, Rest, Marked
  <2>2. run.op \in mem'[run.target].ops
    BY <1>3, <1>4, <1>8, <2>1
  <2>3. \A k \in run.sources \ (run.left \ {m}) : mem'[k].by = run.op
    BY <1>3, <1>4, <1>8, <2>1
  <2> QED BY <1>1, <1>2, <1>9, <2>2, <2>3 DEF Marked
<1>12. Restorable'
  <2>1. edits = 0 => \A k \in Members : Marks(run.snap[k]) \subseteq Marks(mem'[k])
    BY <1>1, <1>6, <1>8 DEF IInv, Rest, Restorable
  <2> QED BY <1>1, <1>2, <1>8, <1>9, <2>1 DEF Restorable, bounds
<1>13. Untouched'
  BY <1>1 DEF Untouched
<1> QED BY <1>9, <1>10, <1>11, <1>12, <1>13 DEF Rest

LEMMA RestoreRowRest == ASSUME IInv, NEW m \in Memories, RestoreRow(m) PROVE Rest'
<1> SUFFICES ASSUME NEW x, x = run.snap[m] PROVE Rest'
  OBVIOUS
<1>1. /\ at = "restore" /\ at' = "restore" /\ m \in run.left /\ mem' = [mem EXCEPT ![m] = x]
      /\ run' = [run EXCEPT !.left = run.left \ {m}]
      /\ UNCHANGED <<edges, graph, fresh, journal, bounds>>
  BY DEF RestoreRow, Restored
<1>2. /\ run'.op = run.op /\ run'.undo = run.undo /\ run'.target = run.target
      /\ run'.sources = run.sources /\ run'.snap = run.snap /\ run'.left = run.left \ {m}
  BY <1>1 DEF IInv, TypeOK, RunType
<1>3. /\ m \in Members /\ run.left \subseteq Members /\ Members \subseteq Memories
  BY <1>1, WorkingOK DEF IInv, Rest, Shaped
<1>4. /\ x \in RowType /\ x.status \in Mergeable /\ run.op \notin Marks(x) /\ run.op \in Ops
      /\ run.snap = journal[run.op].snap /\ run.op \in Started /\ Group(run.op) = Members
      /\ Present(m)
  BY <1>1, <1>3, WorkingOK
<1>5. /\ \A s \in Marks(x) : s \in Started /\ m \in Group(s)
      /\ edits = 0 => Whole(journal, x, m) /\ \A s \in Marks(x) : ~Over(s)
  BY <1>1, <1>3, <1>4 DEF IInv, Rest, Marked, Restorable
<1>6. ASSUME crashes = 0, NEW q \in Ops, journal[q].status = "completed", q # run.op, m \in Group(q)
      PROVE  Since(journal, x, journal[q].no)
  <2>1. q \in Started /\ m \in Group(q) \cap Group(run.op)
    BY <1>3, <1>4, <1>6 DEF Started
  <2>2. journal[q].no # journal[run.op].no
    BY <1>4, <1>6, <2>1 DEF IInv, Rest, Journalled
  <2>3. ~(journal[q].no > journal[run.op].no)
    <3>1. CASE run.undo
      BY <1>1, <1>3, <1>6, <3>1 DEF IInv, Rest, Nested
    <3>2. CASE ~run.undo
      <4>1. journal[q].no < journal[run.op].no
        BY <1>1, <1>6, <2>1, <3>2 DEF IInv, Rest, Journalled
      <4> QED BY <1>4, <4>1, EntryParts DEF IInv, TypeOK
    <3> QED BY <3>1, <3>2
  <2>4. journal[q].no < journal[run.op].no
    BY <1>4, <2>2, <2>3, EntryParts DEF IInv, TypeOK
  <2> QED BY <1>4, <1>6, <2>1, <2>4 DEF IInv, Rest, Nested
<1>7. /\ Members' = Members /\ mem'[m] = x /\ \A k \in Memories \ {m} : mem'[k] = mem[k]
      /\ \A k \in Memories : Present(k)' <=> Present(k)
  BY <1>1, <1>2, <1>3, <1>4, RowStep DEF bounds, Mergeable
<1>8. /\ Journalled' /\ Nested'
      /\ \A k \in Memories : \A s \in Marks(mem'[k]) : s \in Started' /\ k \in Group(s)'
      /\ \A o \in Started' : \A k \in Group(o)' : \A s \in Marks(journal'[o].snap[k]) :
              s \in Started' /\ s # o /\ k \in Group(s)'
      /\ edits' = 0 =>
              /\ \A k \in Memories : Present(k)' => Whole(journal', mem'[k], k)
              /\ \A o \in Started' : \A k \in Group(o)' : Whole(journal', journal'[o].snap[k], k)
              /\ \A k \in Memories : \A s \in Marks(mem'[k]) : ~Over(s)'
  BY <1>1, <1>2, <1>3, <1>4, <1>5, <1>6, RowRest DEF bounds, Mergeable
<1>9. Shaped'
  BY <1>1, <1>2, <1>3, <1>7 DEF IInv, Rest, Shaped
<1>10. Marked'
  <2>1. \A k \in Members \ run'.left : run.op \notin Marks(mem'[k])
    BY <1>1, <1>2, <1>3, <1>4, <1>7 DEF IInv, Rest, Marked
  <2> QED BY <1>1, <1>2, <1>7, <1>8, <2>1 DEF Marked
<1>11. Restorable'
  <2>1. edits = 0 => \A k \in run'.left : Marks(run.snap[k]) \subseteq Marks(mem'[k])
    BY <1>1, <1>2, <1>3, <1>7 DEF IInv, Rest, Restorable
  <2> QED BY <1>1, <1>2, <1>8, <2>1 DEF Restorable, bounds
<1>12. Untouched'
  BY <1>1, <1>2, <1>3, <1>7 DEF IInv, Rest, Untouched, bounds
<1> QED BY <1>8, <1>9, <1>10, <1>11, <1>12 DEF Rest

-----------------------------------------------------------------------------
LEMMA Unchanged == ASSUME IInv, UNCHANGED vars PROVE Rest'
<1>1. /\ Members' = Members /\ Started' = Started
      /\ \A o : Group(o)' = Group(o) /\ Over(o)' = Over(o) /\ Present(o)' = Present(o)
  BY DEF vars, Members, Started, Group, Over, Present
<1>2. Shaped' /\ Journalled' /\ Marked' /\ Untouched'
  BY <1>1 DEF vars, IInv, Rest, Shaped, Journalled, Marked, Untouched
<1>3. Restorable' /\ Nested'
  BY <1>1 DEF vars, IInv, Rest, Restorable, Nested
<1> QED BY <1>2, <1>3 DEF Rest

LEMMA NextRest == ASSUME IInv, [Next]_vars PROVE Rest'
<1>1. CASE Next
  BY <1>1, PreviewRest, RecordRest, CopyRest, CopiesDoneRest, UpdateTargetRest, UpdateSourceRest,
     FinishRest, ErrorRest, UndoRest, RestoreRowRest, UnlinkRest, RelinkRest, SettleRest,
     CrashRest, SoftDeleteRest, UndeleteRest, RemoveRest, EditRest, Zenon DEF Next
<1> QED BY <1>1, Unchanged

THEOREM Invariant == Spec => []IInv
<1>1. Init => IInv
  BY InitTypes, InitRest DEF IInv
<1>2. IInv /\ [Next]_vars => IInv'
  BY NextTypes, NextRest DEF IInv, Rest
<1> QED BY <1>1, <1>2, PTL DEF Spec

\* When every merge failed or was undone, in any nesting, and nobody else
\* changed a row, each row that was not purged is the initial one, whatever
\* errors, crashes and removals happened on the way.
THEOREM RowsRestored == Spec => []MemoriesRestored
<1>1. IInv => MemoriesRestored
  <2> SUFFICES ASSUME IInv, edits = 0, \A o \in Ops : Over(o), NEW m \in Memories, Present(m)
               PROVE  Clean(mem[m], m)
    BY DEF MemoriesRestored, Clean
  <2>1. Marks(mem[m]) = {}
    BY MarksOK DEF IInv, TypeOK, Rest, Restorable
  <2> QED BY <2>1 DEF IInv, Rest, Restorable, Whole
<1> QED BY <1>1, Invariant, PTL

\* An undo puts its snapshots only over the rows that its merge left, as long
\* as no other thread writes rows meanwhile.
THEOREM UndoIsGuarded == Spec => UndoOverwritesNothing
<1>1. IInv /\ [Next]_vars =>
        (~scene.threads /\ at = "restore" /\ run.undo /\ at' = at =>
           \A m \in run.left \ run'.left : mem[m] = journal[run.op].post[m])
  BY DEF IInv, Rest, Untouched
<1> QED BY <1>1, Invariant, PTL DEF UndoOverwritesNothing, Spec

\* While no request was cut short, merges that share a row are undone newest first.
THEOREM NewestUndoneFirst == Spec => UndoNewestFirst
<1> DEFINE Undone == \A o \in Ops :
              crashes = 0 /\ journal[o].status = "completed" /\ journal'[o].status = "undone" =>
                \A q \in Ops : journal[q].status = "completed" /\ journal[q].no > journal[o].no =>
                                 Group(q) \cap Group(o) = {}
<1>1. ASSUME IInv, [Next]_vars PROVE Undone
  <2> SUFFICES ASSUME NEW o \in Ops, crashes = 0, journal[o].status = "completed",
                      journal'[o].status = "undone", NEW q \in Ops,
                      journal[q].status = "completed", journal[q].no > journal[o].no
               PROVE  Group(q) \cap Group(o) = {}
    OBVIOUS
  <2>1. at = "settle" /\ run.op = o /\ run.undo
    <3>1. journal' # journal
      OBVIOUS
    <3>2. Record \/ Finish \/ Settle
      BY <1>1, <3>1 DEF Next, vars, Preview, Copy, CopiesDone, UpdateTarget, UpdateSource, Error,
         Undo, RestoreRow, Unlink, Relink, Crash, SoftDelete, Undelete, Remove, Edit
    <3>3. CASE Record
      BY <1>1, <3>3 DEF Record, NoEntry, IInv, TypeOK
    <3>4. CASE Finish
      <4>1. at = "sources" /\ run.op \in Ops
        BY <1>1, <3>4, WorkingOK DEF Finish
      <4>2. PICK j : journal' = [journal EXCEPT ![run.op] = j] /\ j.status = "completed"
        <5> DEFINE j == [journal[run.op] EXCEPT !.status = "completed", !.post = Post,
                           !.created = run.created, !.displaced = run.displaced]
        <5>1. journal' = [journal EXCEPT ![run.op] = j]
          BY <1>1, <3>4, <4>1 DEF Finish, IInv, TypeOK
        <5>2. j.status = "completed"
          BY <1>1, <4>1 DEF IInv, TypeOK, EntryType
        <5> QED BY <5>1, <5>2
      <4> QED BY <1>1, <4>1, <4>2 DEF IInv, TypeOK
    <3>5. CASE Settle
      BY <1>1, <3>5 DEF Settle, IInv, TypeOK
    <3> QED BY <3>2, <3>3, <3>4, <3>5
  <2>2. Group(o) = Members
    BY <1>1, <2>1, WorkingOK
  <2> QED BY <1>1, <2>1, <2>2 DEF IInv, Rest, Nested
<1> QED BY <1>1, Invariant, PTL DEF UndoNewestFirst, Spec

-----------------------------------------------------------------------------
(* The graph, while at most one merge was ever started. *)

Pair(e) == {e.src, e.tgt}
\* The initial relationships between the rows that are left, and those rows' keys.
Standing == {k \in graph : Present(k.src) /\ Present(k.tgt)}
Drawn(K) == {Edge(k, 0) : k \in K}

\* The relationships E, without C and with D, are those of the keys S of G.
Linked(E, S, G, C, D) ==
  /\ E \subseteq Drawn(S) \cup C /\ Drawn(S) \ E \subseteq D /\ D \subseteq Drawn(G)
  /\ \A e \in C : e.n # 0

\* The rows t and x are neighbours in E.
Joined(E, t, x) == \E c \in E : Pair(c) = {t, x}

\* What a merge copied has joined the target to the neighbours that the
\* relationship e gives a row of S outside the group M.
Carries(E, e, S, t, M) == Pair(e) \cap S # {} => \A x \in Pair(e) \ M : Joined(E, t, x)

\* The relationships of sources that are still to be copied are in todo, and
\* every pair that a copy has, or found taken, is related.
Copying ==
  at = "copy" =>
    /\ edges \subseteq Drawn(Standing) \cup run.made /\ Drawn(Standing) \ edges \subseteq run.before
    /\ run.before = {e \in Drawn(Standing) : run.target \in Pair(e)}
    /\ \A e \in run.made : e.n # 0
    /\ \A e \in run.todo : Pair(e) \cap run.sources # {}
    /\ \A k \in run.seen : Joined(edges, k.src, k.tgt)
    /\ \A e \in edges \ run.todo : Carries(edges, e, run.sources, run.target, Members)

Copied ==
  at \in {"target", "sources"} =>
    /\ Linked(edges, Standing, graph, run.created, run.displaced)
    /\ \A e \in edges : Carries(edges, e, run.sources, run.target, Members)

Relinking ==
  run.undo =>
    /\ at = "restore" => Linked(edges, Standing, graph, run.created, run.displaced)
    /\ at = "relink" => Linked(edges, Standing, graph, {}, run.displaced)
    /\ at = "settle" => KeysOf(edges) = Standing

\* A merge that stands can be undone as long as its mark is on all rows, and
\* has given the target the neighbours of the sources that show its mark.
Undoable(o) ==
  at \notin {"relink", "settle"} /\ (\A m \in Group(o) : o \in Marks(mem[m])) =>
    Linked(edges, Standing, graph, journal[o].created, journal[o].displaced)
Entered(o) ==
  Present(journal[o].target) =>
    \A e \in edges :
      Carries(edges, e, {m \in Group(o) \ {journal[o].target} : mem[m].by = o},
              journal[o].target, Group(o))

Graphed ==
  Single =>
    /\ Started = {} => edges = Drawn(Standing)
    /\ Copying /\ Copied /\ Relinking
    /\ \A o \in Ops : /\ journal[o].status = "completed" => Undoable(o) /\ Entered(o)
                      /\ journal[o].status = "undone" => KeysOf(edges) = Standing

\* At most one merge: the one of the running request.
LEMMA OnlyOne == ASSUME IInv, Single, NEW o \in Started, NEW q \in Started PROVE o = q
<1> SUFFICES ASSUME o # q PROVE FALSE
  OBVIOUS
<1>1. IsFiniteSet(Started) /\ Cardinality(Started) \in Nat
  BY FS_CardinalityType DEF IInv, Rest, Journalled
<1>2. Cardinality(Started) # 0
  BY <1>1, FS_EmptySet
<1>3. Cardinality(Started) = 1
  BY <1>1, <1>2 DEF Single
<1> QED BY <1>1, <1>3, FS_Singleton

LEMMA StandingSame ==
  ASSUME TypeOK, graph' = graph, \A m \in Memories : Present(m)' <=> Present(m)
  PROVE  Standing' = Standing
<1>1. \A k \in graph : k.src \in Memories /\ k.tgt \in Memories
  BY DEF TypeOK, Keys
<1> QED BY <1>1 DEF Standing

LEMMA CarriesLess ==
  ASSUME NEW E, NEW e, NEW S, NEW T, S \subseteq T, NEW t, NEW M, Carries(E, e, T, t, M)
  PROVE  Carries(E, e, S, t, M)
BY DEF Carries

\* Steps that change neither the graph nor which rows there are nor the journal.
LEMMA GraphFrame ==
  ASSUME IInv, Graphed, UNCHANGED <<journal, edges, graph>>,
         \A m \in Memories : Present(m)' <=> Present(m),
         \A o \in Ops : Single /\ journal[o].status = "completed" =>
           /\ at' \notin {"relink", "settle"} /\ (\A m \in Group(o) : o \in Marks(mem'[m])) =>
                at \notin {"relink", "settle"} /\ \A m \in Group(o) : o \in Marks(mem[m])
           /\ \A m \in Group(o) : mem'[m].by = o => mem[m].by = o,
         Single => Copying' /\ Copied' /\ Relinking'
  PROVE  Graphed'
<1>1. Standing' = Standing
  BY StandingSame DEF IInv
<1>2. Started' = Started /\ Single' = Single /\ \A o : Group(o)' = Group(o)
  BY DEF Started, Single, Group
<1> SUFFICES ASSUME Single PROVE Graphed'
  BY <1>2 DEF Graphed
<1>3. ASSUME NEW o \in Ops, journal[o].status = "completed"
      PROVE  Undoable(o)' /\ Entered(o)'
  <2>1. Undoable(o) /\ Entered(o) /\ o \in Started
    BY <1>3 DEF Graphed, Started
  <2>2. Undoable(o)'
    BY <1>1, <1>2, <1>3, <2>1 DEF Undoable
  <2>3. Present(journal[o].target)' => Present(journal[o].target)
    <3>1. journal[o].target \in Memories
      BY <2>1, GroupOK DEF IInv, Rest, Journalled, Started
    <3> QED BY <3>1 DEF Present
  <2>4. Entered(o)'
    <3> SUFFICES ASSUME Present(journal[o].target), NEW e \in edges
                 PROVE  Carries(edges, e, {m \in Group(o) \ {journal[o].target} : mem'[m].by = o},
                                journal[o].target, Group(o))
      BY <1>2, <2>3 DEF Entered
    <3>1. Carries(edges, e, {m \in Group(o) \ {journal[o].target} : mem[m].by = o},
                  journal[o].target, Group(o))
      BY <2>1 DEF Entered
    <3>2. {m \in Group(o) \ {journal[o].target} : mem'[m].by = o}
            \subseteq {m \in Group(o) \ {journal[o].target} : mem[m].by = o}
      BY <1>3
    <3> QED BY <3>1, <3>2, CarriesLess
  <2> QED BY <2>2, <2>4
<1> QED BY <1>1, <1>2, <1>3 DEF Graphed

\* While a request works on the only merge, that merge has the status of the request.
LEMMA Alone ==
  ASSUME IInv, Single, at \in Working, NEW o \in Ops, journal[o].status # "none"
  PROVE  /\ o = run.op /\ journal[o].status = IF run.undo THEN "completed" ELSE "pending"
         /\ Group(o) = Members /\ journal[o].target = run.target
<1>1. o \in Started /\ run.op \in Started
  BY WorkingOK DEF Started
<1>2. o = run.op
  BY <1>1, OnlyOne
<1> QED BY <1>2, WorkingOK DEF IInv, Rest, Shaped

LEMMA PreviewGraph ==
  ASSUME IInv, Graphed, NEW o \in Ops, NEW t \in Memories, NEW S \in SUBSET Memories,
         Preview(o, t, S)
  PROVE  Graphed'
<1>1. /\ at = "idle" /\ at' = "previewed" /\ UNCHANGED <<mem, journal, edges, graph>>
      /\ run' = [NoRun EXCEPT !.op = o, !.target = t, !.sources = S,
                          !.tags = UNION {mem[m].tags : m \in S \cup {t}},
                          !.text = mem[t].text]
  BY DEF Preview, Goto
<1>2. Copying' /\ Copied' /\ Relinking'
  BY <1>1 DEF Copying, Copied, Relinking
<1> QED BY <1>1, <1>2, GraphFrame DEF Present

LEMMA CopiesDoneGraph == ASSUME IInv, Graphed, CopiesDone PROVE Graphed'
<1>1. /\ UNCHANGED <<mem, graph, edges, journal>> /\ at = "copy" /\ at' = "target"
      /\ run' = [run EXCEPT !.created = run.made, !.displaced = run.before \ edges]
      /\ run.todo = {} /\ ~run.undo
  BY DEF CopiesDone, Goto, Displaced, IInv, Rest, Shaped
<1>2. /\ run'.op = run.op /\ run'.undo = run.undo /\ run'.target = run.target
      /\ run'.sources = run.sources /\ run'.created = run.made
      /\ run'.displaced = run.before \ edges /\ Members' = Members
  BY <1>1 DEF IInv, TypeOK, RunType, Members
<1>3. \A m \in Memories : Present(m)' <=> Present(m)
  BY <1>1 DEF Present
<1>4. Standing' = Standing /\ Standing \subseteq graph
  BY <1>1, <1>3, StandingSame DEF IInv, Standing
<1>5. ASSUME Single PROVE Copied'
  <2>1. Copying
    BY <1>5 DEF Graphed
  <2>2. Linked(edges, Standing, graph, run.made, run.before \ edges)
    BY <1>1, <1>4, <2>1 DEF Copying, Linked, Drawn
  <2>3. \A e \in edges : Carries(edges, e, run.sources, run.target, Members)
    BY <1>1, <2>1 DEF Copying
  <2> QED BY <1>1, <1>2, <1>4, <2>2, <2>3 DEF Copied
<1>6. Copying' /\ Relinking'
  BY <1>1, <1>2 DEF Copying, Relinking
<1> QED BY <1>1, <1>3, <1>5, <1>6, GraphFrame

LEMMA UpdateTargetGraph == ASSUME IInv, Graphed, UpdateTarget PROVE Graphed'
<1>1. /\ at = "target" /\ at' = "sources" /\ UNCHANGED <<edges, graph, journal>>
      /\ mem' = [mem EXCEPT ![run.target] = TargetRow]
      /\ run' = [run EXCEPT !.left = run.sources] /\ ~run.undo
      /\ UNCHANGED <<scene, edits, crashes>>
  BY DEF UpdateTarget, Goto, TargetRow, IInv, Rest, Shaped, bounds
<1>2. /\ run'.op = run.op /\ run'.undo = run.undo /\ run'.target = run.target
      /\ run'.sources = run.sources /\ run'.created = run.created /\ run'.snap = run.snap
      /\ run'.displaced = run.displaced /\ Members' = Members
  BY <1>1 DEF IInv, TypeOK, RunType, Members
<1>3. TargetRow \in RowType /\ TargetRow.status # "purged"
  BY <1>1, TargetRowOK DEF IInv, Rest
<1>4. \A m \in Memories : Present(m)' <=> Present(m)
  BY <1>1, <1>2, <1>3, RowStep, WorkingOK
<1>5. Standing' = Standing
  BY <1>1, <1>4, StandingSame DEF IInv
<1>6. ASSUME Single PROVE Copied'
  BY <1>1, <1>2, <1>5, <1>6 DEF Graphed, Copied
<1>7. Copying' /\ Relinking'
  BY <1>1, <1>2 DEF Copying, Relinking
<1>8. \A o \in Ops : Single => journal[o].status # "completed"
  BY <1>1, Alone
<1> QED BY <1>1, <1>4, <1>6, <1>7, <1>8, GraphFrame

LEMMA UpdateSourceGraph ==
  ASSUME IInv, Graphed, NEW m \in Memories, UpdateSource(m) PROVE Graphed'
<1>1. /\ at = "sources" /\ at' = "sources" /\ UNCHANGED <<edges, graph, journal>>
      /\ mem' = [mem EXCEPT ![m] = SourceRow(m)] /\ m \in run.left
      /\ run' = [run EXCEPT !.left = run.left \ {m}] /\ ~run.undo
      /\ UNCHANGED <<scene, edits, crashes>>
  BY DEF UpdateSource, SourceRow, IInv, Rest, Shaped, bounds
<1>2. /\ run'.op = run.op /\ run'.undo = run.undo /\ run'.target = run.target
      /\ run'.sources = run.sources /\ run'.created = run.created /\ run'.snap = run.snap
      /\ run'.displaced = run.displaced /\ Members' = Members
  BY <1>1 DEF IInv, TypeOK, RunType, Members
<1>3. m \in Members /\ SourceRow(m) \in RowType /\ SourceRow(m).status # "purged"
  BY <1>1, SourceRowOK DEF IInv, Rest
<1>4. \A k \in Memories : Present(k)' <=> Present(k)
  BY <1>1, <1>2, <1>3, RowStep
<1>5. Standing' = Standing
  BY <1>1, <1>4, StandingSame DEF IInv
<1>6. ASSUME Single PROVE Copied'
  BY <1>1, <1>2, <1>5, <1>6 DEF Graphed, Copied
<1>7. Copying' /\ Relinking'
  BY <1>1, <1>2 DEF Copying, Relinking
<1>8. \A o \in Ops : Single => journal[o].status # "completed"
  BY <1>1, Alone
<1> QED BY <1>1, <1>4, <1>6, <1>7, <1>8, GraphFrame

LEMMA ErrorGraph == ASSUME IInv, Graphed, Error PROVE Graphed'
<1>1. /\ UNCHANGED <<mem, edges, graph, journal>> /\ at \in Merging /\ at' = "restore"
      /\ run' = [run EXCEPT !.left = Members] /\ ~run.undo
  BY DEF Error, IInv, Rest, Shaped
<1>2. run'.undo = run.undo
  BY <1>1 DEF IInv, TypeOK, RunType
<1>3. Copying' /\ Copied' /\ Relinking'
  BY <1>1, <1>2 DEF Copying, Copied, Relinking
<1> QED BY <1>1, <1>3, GraphFrame DEF Present

LEMMA UndoGraph == ASSUME IInv, Graphed, NEW o \in Ops, Undo(o) PROVE Graphed'
<1>1. /\ at = "idle" /\ at' = "restore" /\ UNCHANGED <<mem, journal, edges, graph>>
      /\ journal[o].status = "completed"
      /\ \A m \in Group(o) : IF m = journal[o].target THEN o \in mem[m].ops ELSE mem[m].by = o
      /\ run' = [NoRun EXCEPT !.op = o, !.undo = TRUE, !.target = journal[o].target,
                          !.sources = Group(o) \ {journal[o].target}, !.snap = journal[o].snap,
                          !.left = Group(o),
                          !.created = journal[o].created, !.displaced = journal[o].displaced]
  BY DEF Undo, CanUndo, Goto, Group
<1>2. run'.created = journal[o].created /\ run'.displaced = journal[o].displaced
  BY <1>1 DEF NoRun
<1>3. Standing' = Standing
  BY <1>1 DEF Standing, Present
<1>4. ASSUME Single PROVE Relinking'
  <2>1. Linked(edges, Standing, graph, journal[o].created, journal[o].displaced)
    BY <1>1, <1>4, NamesAssumption DEF Graphed, Undoable, Marks
  <2> QED BY <1>1, <1>2, <1>3, <2>1 DEF Relinking
<1>5. Copying' /\ Copied'
  BY <1>1 DEF Copying, Copied
<1> QED BY <1>1, <1>4, <1>5, GraphFrame DEF Present

LEMMA RestoreRowGraph ==
  ASSUME IInv, Graphed, NEW m \in Memories, RestoreRow(m) PROVE Graphed'
<1>1. /\ at = "restore" /\ at' = "restore" /\ UNCHANGED <<edges, graph, journal>>
      /\ mem' = [mem EXCEPT ![m] = run.snap[m]] /\ m \in run.left
      /\ run' = [run EXCEPT !.left = run.left \ {m}] /\ UNCHANGED <<scene, edits, crashes>>
  BY DEF RestoreRow, Restored, bounds
<1>2. /\ run'.op = run.op /\ run'.undo = run.undo /\ run'.target = run.target
      /\ run'.sources = run.sources /\ run'.created = run.created /\ run'.snap = run.snap
      /\ run'.displaced = run.displaced
  BY <1>1 DEF IInv, TypeOK, RunType
<1>3. /\ m \in Members /\ run.snap[m] \in RowType /\ run.snap[m].status # "purged"
      /\ run.op \notin Marks(run.snap[m]) /\ run.op # NoOp
  BY <1>1, WorkingOK DEF IInv, Rest, Shaped, Mergeable
<1>4. /\ \A k \in Memories : Present(k)' <=> Present(k)
      /\ mem'[m] = run.snap[m] /\ \A k \in Memories \ {m} : mem'[k] = mem[k]
  BY <1>1, <1>2, <1>3, RowStep
<1>5. Standing' = Standing
  BY <1>1, <1>4, StandingSame DEF IInv
<1>6. ASSUME Single PROVE Relinking'
  BY <1>1, <1>2, <1>5, <1>6 DEF Graphed, Relinking
<1>7. Copying' /\ Copied'
  BY <1>1 DEF Copying, Copied
<1>8. ASSUME NEW o \in Ops, Single, journal[o].status = "completed"
      PROVE  /\ (\A k \in Group(o) : o \in Marks(mem'[k])) =>
                  \A k \in Group(o) : o \in Marks(mem[k])
             /\ \A k \in Group(o) : mem'[k].by = o => mem[k].by = o
  <2>1. o = run.op /\ Group(o) \subseteq Memories
    BY <1>1, <1>8, Alone, GroupOK DEF IInv
  <2>2. o \notin Marks(mem'[m]) /\ mem'[m].by # o
    BY <1>3, <1>4, <2>1 DEF Marks
  <2> QED BY <1>4, <2>1, <2>2
<1> QED BY <1>1, <1>4, <1>6, <1>7, <1>8, GraphFrame

LEMMA CrashGraph == ASSUME IInv, Graphed, Crash PROVE Graphed'
<1>1. /\ at' = "idle" /\ run' = NoRun /\ UNCHANGED <<mem, edges, graph, journal>>
      /\ at \notin {"idle", "previewed"}
  BY DEF Crash, Stop
<1>2. Copying' /\ Copied' /\ Relinking'
  BY <1>1 DEF Copying, Copied, Relinking, NoRun
<1>3. ASSUME NEW o \in Ops, Single, journal[o].status = "completed",
             \A m \in Group(o) : o \in Marks(mem[m])
      PROVE  at \notin {"relink", "settle"}
  <2> SUFFICES ASSUME at \in {"relink", "settle"} PROVE FALSE
    OBVIOUS
  <2>1. o = run.op /\ Group(o) = Members /\ run.target \in Members
    BY <1>3, Alone, WorkingOK
  <2>2. run.left = {} /\ \A m \in Members : run.op \notin Marks(mem[m])
    BY DEF IInv, Rest, Shaped, Marked
  <2> QED BY <1>3, <2>1, <2>2
<1> QED BY <1>1, <1>2, <1>3, GraphFrame DEF Present

LEMMA WrittenGraph ==
  ASSUME IInv, Graphed, NEW m \in Memories, SoftDelete(m) \/ Undelete(m) \/ Edit(m)
  PROVE  Graphed'
<1>1. mem[m] \in RowType
  BY DEF IInv, TypeOK
<1>2. PICK x \in RowType : /\ mem' = [mem EXCEPT ![m] = x]
                           /\ x.by = mem[m].by /\ Marks(x) = Marks(mem[m])
                           /\ x.status # "purged" \/ x.status = mem[m].status
  <2>1. CASE SoftDelete(m)
    <3>1. mem' = [mem EXCEPT ![m] = [mem[m] EXCEPT !.status = "deleted", !.was = mem[m].status]]
      BY <2>1 DEF SoftDelete, IInv, TypeOK
    <3> QED BY <1>1, <3>1, RowWritten
  <2>2. CASE Undelete(m)
    <3>1. mem' = [mem EXCEPT ![m] = Undeleted(mem[m])]
      BY <2>2 DEF Undelete
    <3> QED BY <1>1, <3>1, RowWritten
  <2>3. CASE Edit(m)
    <3>1. mem' = [mem EXCEPT ![m] = [mem[m] EXCEPT !.text = mem[m].text + 1]]
      BY <2>3 DEF Edit, IInv, TypeOK
    <3> QED BY <1>1, <3>1, RowWritten
  <2> QED BY <2>1, <2>2, <2>3
<1>3. UNCHANGED <<edges, graph, journal, at, run>> /\ Present(m)
  BY DEF SoftDelete, Undelete, Edit, Present
<1>4. \A k \in Memories : /\ Present(k)' <=> Present(k)
                          /\ Marks(mem'[k]) = Marks(mem[k])
                          /\ mem'[k].by = mem[k].by
  BY <1>2, <1>3 DEF IInv, TypeOK, Present
<1>5. Standing' = Standing
  BY <1>3, <1>4, StandingSame DEF IInv
<1>6. Members' = Members
  BY <1>3 DEF Members
<1>7. Single => Copying' /\ Copied' /\ Relinking'
  BY <1>3, <1>5, <1>6 DEF Graphed, Copying, Copied, Relinking
<1>8. ASSUME NEW o \in Ops, NEW k \in Group(o)
      PROVE  (o \in Marks(mem'[k]) => o \in Marks(mem[k])) /\ (mem'[k].by = o => mem[k].by = o)
  <2>1. k \in Memories
    BY <1>8, GroupOK DEF IInv
  <2> QED BY <1>4, <2>1
<1>9. \A k \in Memories : Present(k)' <=> Present(k)
  BY <1>4
<1>10. UNCHANGED <<journal, edges, graph, at>>
  BY <1>3
<1> QED BY <1>7, <1>8, <1>9, <1>10, GraphFrame

LEMMA InitGraph == Init => Graphed
<1> SUFFICES ASSUME Init PROVE Graphed
  OBVIOUS
<1>1. at = "idle" /\ run = NoRun /\ \A o \in Ops : journal[o].status = "none"
  BY DEF Init, NoEntry
<1>2. PICK st \in [Memories -> scene.initially] :
        mem = [m \in Memories |-> [status |-> st[m], tags |-> {m}, text |-> 0,
                                  into |-> NoMemory, by |-> NoOp, ops |-> {}, was |-> "none"]]
  BY DEF Init
<1>3. scene.initially \subseteq {"active", "archived"}
  BY ScenesAssumption DEF Init
<1>4. \A m \in Memories : Present(m)
  BY <1>2, <1>3 DEF Present
<1>5. \A k \in graph : k.src \in Memories /\ k.tgt \in Memories
  BY InitTypes DEF TypeOK, Keys
<1>6. Standing = graph /\ edges = Drawn(graph)
  BY <1>4, <1>5 DEF Init, Standing, Drawn
<1> QED BY <1>1, <1>6 DEF Graphed, Copying, Copied, Relinking, NoRun

LEMMA RecordGraph == ASSUME IInv, Graphed, Record PROVE Graphed'
<1> SUFFICES ASSUME NEW o, o = run.op, Single' PROVE Graphed'
  BY DEF Graphed
<1> DEFINE before == {e \in edges : run.target \in Pair(e)}
           todo == {e \in edges : Pair(e) \cap run.sources # {}}
           j == [NoEntry EXCEPT !.status = "pending", !.target = run.target,
                   !.snap = [m \in Members |-> mem[m]], !.no = Cardinality(Started)]
<1>1. /\ at = "previewed" /\ at' = "copy" /\ UNCHANGED <<mem, edges, graph>>
      /\ run' = [run EXCEPT !.snap = [m \in Members |-> mem[m]], !.before = before,
                            !.seen = KeysOf(before), !.todo = todo]
      /\ journal' = [journal EXCEPT ![o] = j]
      /\ o \in Ops /\ o \notin Started /\ ~run.undo /\ run.made = {}
  BY DEF Record, Goto, Pair, IInv, Rest, Shaped, Started
<1>2. j.status = "pending"
  BY DEF NoEntry
<1> HIDE DEF j, before, todo
<1>3. /\ run'.undo = run.undo /\ run'.target = run.target /\ run'.sources = run.sources
      /\ run'.made = run.made /\ run'.before = before /\ run'.seen = KeysOf(before)
      /\ run'.todo = todo
  BY <1>1 DEF IInv, TypeOK, RunType
<1>4. journal'[o] = j /\ Started' = Started \cup {o}
      /\ \A q \in Ops \ {o} : journal'[q] = journal[q]
  BY <1>1, <1>2 DEF IInv, TypeOK, Started
<1>5. Started = {}
  <2>1. /\ IsFiniteSet(Started) /\ Cardinality(Started) \in Nat
        /\ Cardinality(Started') = Cardinality(Started) + 1
    BY <1>1, <1>4, FS_CardinalityType, FS_AddElement DEF IInv, Rest, Journalled
  <2>2. Cardinality(Started) = 0
    BY <2>1 DEF Single
  <2> QED BY <2>1, <2>2, FS_EmptySet
<1>6. Single /\ edges = Drawn(Standing)
  BY <1>5, FS_EmptySet DEF Graphed, Single
<1>7. Standing' = Standing
  BY <1>1 DEF Standing, Present
<1>8. \A k \in KeysOf(before) : Joined(edges, k.src, k.tgt)
  BY DEF before, KeysOf, Key, Joined, Pair
<1>9. \A e \in edges \ todo : Carries(edges, e, run.sources, run.target, Members')
  BY DEF todo, Carries
<1>10. Copying'
  BY <1>1, <1>3, <1>6, <1>7, <1>8, <1>9 DEF Copying, before, todo
<1>11. Copied' /\ Relinking'
  BY <1>1, <1>3 DEF Copied, Relinking
<1>12. \A q \in Ops : journal'[q].status \notin {"completed", "undone"}
  BY <1>1, <1>2, <1>4, <1>5 DEF Started
<1> QED BY <1>1, <1>4, <1>10, <1>11, <1>12 DEF Graphed

LEMMA AddedJoins ==
  ASSUME NEW E, NEW k \in Keys, NEW n \in Nat
  PROVE  /\ Joined(Added(E, k, n), k.src, k.tgt)
         /\ \A a, b : Joined(E, a, b) => Joined(Added(E, k, n), a, b)
         /\ \A e \in E \ Added(E, k, n) : Pair(e) = {k.src, k.tgt}
         /\ Added(E, k, n) \subseteq E \cup {Edge(k, n)}
<1>1. Pair(Edge(k, n)) = {k.src, k.tgt} /\ Edge(k, n) \in Added(E, k, n)
  BY EdgeOK DEF Pair, Added
<1>2. \A e \in E \ Added(E, k, n) : Pair(e) = {k.src, k.tgt}
  BY DEF Added, Pair
<1>3. ASSUME NEW a, NEW b, Joined(E, a, b) PROVE Joined(Added(E, k, n), a, b)
  <2>1. PICK c \in E : Pair(c) = {a, b}
    BY <1>3 DEF Joined
  <2>2. CASE c \in Added(E, k, n)
    BY <2>1, <2>2 DEF Joined
  <2>3. CASE c \notin Added(E, k, n)
    BY <1>1, <1>2, <2>1, <2>3 DEF Joined
  <2> QED BY <2>2, <2>3
<1>4. Joined(Added(E, k, n), k.src, k.tgt)
  BY <1>1 DEF Joined
<1>5. Added(E, k, n) \subseteq E \cup {Edge(k, n)}
  BY DEF Added
<1> QED BY <1>2, <1>3, <1>4, <1>5

\* The copy of a source's relationship joins the target to its other end.
LEMMA RetargetPair ==
  ASSUME NEW e \in EdgeType, run \in RunType, run.target \in Memories,
         run.target \notin run.sources, Pair(e) \cap run.sources # {}
  PROVE  /\ run.target \in {Retarget(e).src, Retarget(e).tgt}
         /\ Retarget(e).src \notin run.sources /\ Retarget(e).tgt \notin run.sources
         /\ \A x \in Pair(e) \ Members : /\ {Retarget(e).src, Retarget(e).tgt} = {run.target, x}
                                         /\ Retarget(e).src # Retarget(e).tgt
BY RetargetOK DEF Pair, Members

LEMMA CopyGraph == ASSUME IInv, Graphed, NEW e \in run.todo, Copy(e) PROVE Graphed'
<1> SUFFICES ASSUME NEW k, k = Retarget(e), Single PROVE Graphed'
  BY DEF Copy, Graphed, Single, Started
<1>1. /\ at = "copy" /\ at' = "copy" /\ UNCHANGED <<mem, graph, journal>>
      /\ run \in RunType /\ run.target \in Memories /\ run.target \notin run.sources
      /\ ~run.undo /\ fresh \in Nat /\ fresh # 0 /\ Copying
  BY DEF Copy, IInv, TypeOK, Rest, Shaped, Graphed
<1>2. e \in EdgeType /\ Pair(e) \cap run.sources # {}
  BY <1>1, RunParts DEF Copying
<1>3. k \in Keys /\ run.target \in {k.src, k.tgt} /\ k.src \notin run.sources
      /\ k.tgt \notin run.sources
      /\ \A x \in Pair(e) \ Members : {k.src, k.tgt} = {run.target, x} /\ k.src # k.tgt
  BY <1>1, <1>2, RetargetOK, RetargetPair
<1>4. Standing' = Standing
  BY <1>1 DEF Standing, Present
<1>5. Copying'
  <2>1. CASE k.src = k.tgt \/ k \in run.seen
    <3>1. run' = [run EXCEPT !.todo = @ \ {e}] /\ edges' = edges
      BY <2>1 DEF Copy
    <3>2. /\ run'.target = run.target /\ run'.sources = run.sources /\ run'.made = run.made
          /\ run'.before = run.before /\ run'.seen = run.seen /\ run'.todo = run.todo \ {e}
      BY <1>1, <3>1 DEF RunType
    <3>3. Members' = Members
      BY <3>2 DEF Members
    <3>4. Carries(edges, e, run.sources, run.target, Members)
      BY <1>1, <1>3, <2>1 DEF Carries, Copying, Joined
    <3> QED BY <1>1, <1>4, <3>1, <3>2, <3>3, <3>4 DEF Copying
  <2>2. CASE ~(k.src = k.tgt \/ k \in run.seen)
    <3>1. /\ run' = [run EXCEPT !.todo = @ \ {e}, !.seen = @ \cup {k},
                               !.made = @ \cup {Edge(k, fresh)}]
          /\ edges' = Added(edges, k, fresh)
      BY <2>2 DEF Copy
    <3>2. /\ run'.target = run.target /\ run'.sources = run.sources
          /\ run'.made = run.made \cup {Edge(k, fresh)} /\ run'.before = run.before
          /\ run'.seen = run.seen \cup {k} /\ run'.todo = run.todo \ {e}
      BY <1>1, <3>1 DEF RunType
    <3>3. Members' = Members
      BY <3>2 DEF Members
    <3>4. /\ Joined(edges', k.src, k.tgt)
          /\ \A a, b : Joined(edges, a, b) => Joined(edges', a, b)
          /\ \A d \in edges \ edges' : Pair(d) = {k.src, k.tgt}
          /\ edges' \subseteq edges \cup {Edge(k, fresh)}
      BY <1>1, <1>3, <3>1, AddedJoins
    <3>5. Edge(k, fresh).n # 0 /\ Pair(Edge(k, fresh)) = {k.src, k.tgt}
      BY <1>1, <1>3, EdgeOK DEF Pair
    <3>6. edges' \subseteq Drawn(Standing) \cup run'.made
      BY <1>1, <3>2, <3>4 DEF Copying
    <3>7. Drawn(Standing) \ edges' \subseteq run'.before
      BY <1>1, <1>3, <3>2, <3>4 DEF Copying
    <3>8. \A d \in run'.made : d.n # 0
      BY <1>1, <3>2, <3>5 DEF Copying
    <3>9. \A d \in run'.seen : Joined(edges', d.src, d.tgt)
      BY <1>1, <3>2, <3>4 DEF Copying
    <3>10. ASSUME NEW d \in edges' \ run'.todo
           PROVE  Carries(edges', d, run.sources, run.target, Members)
      <4>1. CASE d = Edge(k, fresh)
        BY <1>3, <3>5, <4>1 DEF Carries
      <4>2. CASE d = e
        BY <1>3, <3>4, <4>2 DEF Carries, Joined
      <4>3. CASE d \in edges \ run.todo
        BY <1>1, <3>4, <4>3 DEF Carries, Copying
      <4> QED BY <3>2, <3>4, <3>10, <4>1, <4>2, <4>3
    <3> QED BY <1>1, <1>4, <3>2, <3>3, <3>6, <3>7, <3>8, <3>9, <3>10 DEF Copying
  <2> QED BY <2>1, <2>2
<1>6. run'.undo = run.undo
  BY <1>1 DEF Copy, RunType
<1>7. Copied' /\ Relinking'
  BY <1>1, <1>6 DEF Copied, Relinking
<1>8. \A o \in Ops : journal[o].status \notin {"completed", "undone"}
  BY <1>1, Alone
<1>9. Started' = Started /\ Started # {}
  BY <1>1, WorkingOK DEF Started
<1> QED BY <1>1, <1>5, <1>7, <1>8, <1>9 DEF Graphed

LEMMA FinishGraph == ASSUME IInv, Graphed, Finish PROVE Graphed'
<1> SUFFICES ASSUME NEW o, o = run.op PROVE Graphed'
  OBVIOUS
<1> DEFINE j == [journal[o] EXCEPT !.status = "completed", !.post = Post,
                    !.created = run.created, !.displaced = run.displaced]
<1>1. /\ at = "sources" /\ at' = "idle" /\ run' = NoRun /\ UNCHANGED <<mem, edges, graph>>
  BY DEF Finish, Stop
<1>2. o \in Ops /\ o \in Started /\ Group(o) = Members /\ run.sources \subseteq Members
      /\ run.target = journal[o].target /\ ~run.undo
  BY <1>1, WorkingOK DEF IInv, Rest, Shaped
<1>3. journal' = [journal EXCEPT ![o] = j]
  BY <1>2 DEF Finish, IInv, TypeOK
<1>4. /\ j.status = "completed" /\ j.no = journal[o].no /\ j.target = journal[o].target
      /\ j.snap = journal[o].snap /\ j.created = run.created /\ j.displaced = run.displaced
  BY <1>2 DEF IInv, TypeOK, EntryType
<1> HIDE DEF j
<1>5. /\ Started' = Started /\ \A q \in Ops : Group(q)' = Group(q)
      /\ journal'[o] = j /\ \A q \in Ops \ {o} : journal'[q] = journal[q]
  BY <1>2, <1>3, <1>4, EntryKept
<1> SUFFICES ASSUME Single PROVE Graphed'
  BY <1>5 DEF Graphed, Single
<1>6. Standing' = Standing /\ Copied
  BY <1>1 DEF Standing, Present, Graphed
<1>7. Copying' /\ Copied' /\ Relinking'
  BY <1>1 DEF Copying, Copied, Relinking, NoRun
<1>8. ASSUME NEW q \in Ops, journal'[q].status \in {"completed", "undone"}
      PROVE  q = o
  BY <1>1, <1>2, <1>5, <1>8, Alone
<1>9. Undoable(o)'
  BY <1>1, <1>4, <1>5, <1>6 DEF Undoable, Copied
<1>10. Entered(o)'
  <2> SUFFICES ASSUME NEW e \in edges
               PROVE  Carries(edges, e, {m \in Members \ {run.target} : mem[m].by = o},
                              run.target, Members)
    BY <1>1, <1>2, <1>4, <1>5 DEF Entered
  <2>1. {m \in Members \ {run.target} : mem[m].by = o} \subseteq run.sources
    BY DEF Members
  <2>2. Carries(edges, e, run.sources, run.target, Members)
    BY <1>1, <1>6 DEF Copied
  <2> QED BY <2>1, <2>2, CarriesLess
<1> QED BY <1>2, <1>4, <1>5, <1>7, <1>8, <1>9, <1>10 DEF Graphed

\* Once every row is restored, no row shows the mark of the merge.
LEMMA NothingEntered ==
  ASSUME IInv, Single, at \in Restoring, run.left = {}, NEW o \in Ops,
         journal[o].status = "completed"
  PROVE  o = run.op /\ run.undo /\ Group(o) = Members /\ \A m \in Group(o) : mem[m].by # o
<1>1. o = run.op /\ run.undo /\ Group(o) = Members /\ run.op # NoOp
  BY Alone, WorkingOK
<1>2. \A m \in Members : run.op \notin Marks(mem[m])
  BY DEF IInv, Rest, Marked
<1> QED BY <1>1, <1>2 DEF Marks

LEMMA UnlinkGraph == ASSUME IInv, Graphed, Unlink PROVE Graphed'
<1>1. /\ at = "restore" /\ at' = "relink" /\ UNCHANGED <<mem, graph, journal>> /\ run.left = {}
      /\ run' = [run EXCEPT !.displaced = IF run.undo THEN @ ELSE Displaced(run.before)]
      /\ edges' = edges \ run.created
  BY DEF Unlink, Goto
<1>2. run'.undo = run.undo /\ run.undo => run'.displaced = run.displaced
  BY <1>1 DEF IInv, TypeOK, RunType
<1>3. Started' = Started /\ Single' = Single /\ Standing' = Standing
      /\ \A q : Group(q)' = Group(q)
  BY <1>1 DEF Started, Single, Group, Standing, Present
<1> SUFFICES ASSUME Single PROVE Graphed'
  BY <1>3 DEF Graphed
<1>4. Relinking'
  <2> SUFFICES ASSUME run.undo PROVE Linked(edges', Standing, graph, {}, run.displaced)
    BY <1>1, <1>2, <1>3 DEF Relinking
  <2>1. Linked(edges, Standing, graph, run.created, run.displaced)
    BY <1>1 DEF Graphed, Relinking
  <2>2. \A k \in Standing : Edge(k, 0).n = 0
    BY DEF Edge
  <2> QED BY <1>1, <2>1, <2>2 DEF Linked, Drawn
<1>5. Copying' /\ Copied'
  BY <1>1 DEF Copying, Copied
<1>6. ASSUME NEW o \in Ops, journal'[o].status \in {"completed", "undone"}
      PROVE  journal[o].status = "completed" /\ Undoable(o)' /\ Entered(o)'
  <2>1. journal[o].status = "completed"
    BY <1>1, <1>6, Alone
  <2>2. \A m \in Group(o) : mem[m].by # o
    BY <1>1, <2>1, NothingEntered
  <2>3. {m \in Group(o) \ {journal[o].target} : mem[m].by = o} = {}
    BY <2>2
  <2>4. Entered(o)'
    BY <1>1, <1>3, <2>3 DEF Entered, Carries
  <2> QED BY <1>1, <2>1, <2>4 DEF Undoable
<1>7. Started # {}
  BY <1>1, WorkingOK
<1> QED BY <1>1, <1>3, <1>4, <1>5, <1>6, <1>7 DEF Graphed

LEMMA RelinkGraph == ASSUME IInv, Graphed, Relink PROVE Graphed'
<1> DEFINE back == {d \in run.displaced :
                      Key(d) \notin KeysOf(edges) /\ Present(d.src) /\ Present(d.tgt)}
<1>1. /\ at = "relink" /\ at' = "settle" /\ UNCHANGED <<mem, graph, journal, run>>
      /\ edges' = edges \cup {Edge(d, fresh) : d \in back} /\ run.left = {}
  BY DEF Relink, Goto, IInv, Rest, Shaped
<1>2. Started' = Started /\ Single' = Single /\ Standing' = Standing
      /\ \A q : Group(q)' = Group(q)
  BY <1>1 DEF Started, Single, Group, Standing, Present
<1> SUFFICES ASSUME Single PROVE Graphed'
  BY <1>2 DEF Graphed
<1>3. Relinking'
  <2> SUFFICES ASSUME run.undo PROVE KeysOf(edges') = Standing
    BY <1>1, <1>2 DEF Relinking
  <2>1. Linked(edges, Standing, graph, {}, run.displaced)
    BY <1>1 DEF Graphed, Relinking
  <2>2. graph \subseteq Keys /\ Standing \subseteq graph /\ fresh \in Nat
    BY DEF IInv, TypeOK, Standing
  <2>3. \A k \in graph : Key(Edge(k, 0)) = k /\ Edge(k, 0).src = k.src /\ Edge(k, 0).tgt = k.tgt
    BY <2>2, EdgeOK
  <2>4. \A d : Key(Edge(d, fresh)) = Key(d)
    BY DEF Key, Edge
  <2>5. ASSUME NEW c \in edges' PROVE Key(c) \in Standing
    <3>1. CASE c \in edges
      BY <2>1, <2>2, <2>3, <3>1 DEF Linked, Drawn
    <3>2. CASE c \notin edges
      <4>1. PICK d \in back : c = Edge(d, fresh)
        BY <1>1, <2>5, <3>2
      <4>2. PICK k \in graph : d = Edge(k, 0)
        BY <2>1, <4>1 DEF Linked, Drawn
      <4>3. Key(c) = k /\ Present(k.src) /\ Present(k.tgt)
        BY <2>3, <2>4, <4>1, <4>2
      <4> QED BY <4>3 DEF Standing
    <3> QED BY <3>1, <3>2
  <2>6. ASSUME NEW k \in Standing PROVE \E c \in edges' : Key(c) = k
    <3>1. CASE Edge(k, 0) \in edges
      BY <1>1, <2>2, <2>3, <3>1
    <3>2. CASE Edge(k, 0) \notin edges
      <4>1. Edge(k, 0) \in run.displaced
        BY <2>1, <3>2 DEF Linked, Drawn
      <4>2. CASE k \in KeysOf(edges)
        BY <1>1, <4>2 DEF KeysOf
      <4>3. CASE k \notin KeysOf(edges)
        <5>1. Edge(k, 0) \in back
          BY <2>2, <2>3, <4>1, <4>3 DEF Standing
        <5>2. Edge(Edge(k, 0), fresh) \in edges' /\ Key(Edge(Edge(k, 0), fresh)) = k
          BY <1>1, <2>2, <2>3, <2>4, <5>1
        <5> QED BY <5>2
      <4> QED BY <4>2, <4>3
    <3> QED BY <3>1, <3>2
  <2> QED BY <2>5, <2>6 DEF KeysOf
<1>4. Copying' /\ Copied'
  BY <1>1 DEF Copying, Copied
<1>5. ASSUME NEW o \in Ops, journal'[o].status \in {"completed", "undone"}
      PROVE  journal[o].status = "completed" /\ Undoable(o)' /\ Entered(o)'
  <2>1. journal[o].status = "completed"
    BY <1>1, <1>5, Alone
  <2>2. \A m \in Group(o) : mem[m].by # o
    BY <1>1, <2>1, NothingEntered
  <2>3. {m \in Group(o) \ {journal[o].target} : mem[m].by = o} = {}
    BY <2>2
  <2>4. Entered(o)'
    BY <1>1, <1>2, <2>3 DEF Entered, Carries
  <2> QED BY <1>1, <2>1, <2>4 DEF Undoable
<1>6. Started # {}
  BY <1>1, WorkingOK
<1> QED BY <1>1, <1>2, <1>3, <1>4, <1>5, <1>6 DEF Graphed

LEMMA SettleGraph == ASSUME IInv, Graphed, Settle PROVE Graphed'
<1> SUFFICES ASSUME NEW o, o = run.op PROVE Graphed'
  OBVIOUS
<1> DEFINE st == IF run.undo THEN "undone" ELSE "failed"
           j == [journal[o] EXCEPT !.status = st]
<1>1. /\ at = "settle" /\ at' = "idle" /\ run' = NoRun /\ UNCHANGED <<mem, edges, graph>>
  BY DEF Settle, Stop
<1>2. o \in Ops /\ o \in Started
  BY <1>1, WorkingOK
<1>3. journal' = [journal EXCEPT ![o] = j]
  BY <1>2 DEF Settle, IInv, TypeOK
<1>4. /\ j.status = st /\ j.no = journal[o].no /\ j.target = journal[o].target
      /\ j.snap = journal[o].snap
  BY <1>2 DEF IInv, TypeOK, EntryType
<1> HIDE DEF j
<1>5. /\ Started' = Started
      /\ journal'[o] = j /\ \A q \in Ops \ {o} : journal'[q] = journal[q]
  BY <1>2, <1>3, <1>4, EntryKept
<1> SUFFICES ASSUME Single PROVE Graphed'
  BY <1>5 DEF Graphed, Single
<1>6. Standing' = Standing
  BY <1>1 DEF Standing, Present
<1>7. Copying' /\ Copied' /\ Relinking'
  BY <1>1 DEF Copying, Copied, Relinking, NoRun
<1>8. ASSUME NEW q \in Ops, journal'[q].status \in {"completed", "undone"}
      PROVE  journal'[q].status = "undone" /\ KeysOf(edges) = Standing
  <2>1. q = o
    BY <1>1, <1>5, <1>8, Alone
  <2> QED BY <1>1, <1>4, <1>5, <1>8, <2>1 DEF Graphed, Relinking
<1>9. KeysOf(edges)' = KeysOf(edges)
  BY <1>1 DEF KeysOf
<1> QED BY <1>2, <1>5, <1>6, <1>7, <1>8, <1>9 DEF Graphed

LEMMA RemoveGraph == ASSUME IInv, Graphed, NEW m \in Memories, Remove(m) PROVE Graphed'
<1> DEFINE gone == [status |-> "purged", tags |-> {}, text |-> 0,
                    into |-> NoMemory, by |-> NoOp, ops |-> {}, was |-> "none"]
<1>1. /\ mem' = [mem EXCEPT ![m] = gone] /\ at = "idle" /\ UNCHANGED <<journal, graph, run, at>>
      /\ edges' = {e \in edges : m \notin Pair(e)} /\ ~run.undo
  BY DEF Remove, Pair, IInv, Rest, Shaped, NoRun
<1>2. gone.status = "purged" /\ Marks(gone) = {} /\ gone.by = NoOp
  BY DEF Marks
<1> HIDE DEF gone
<1>3. mem'[m] = gone /\ \A k \in Memories \ {m} : mem'[k] = mem[k]
  BY <1>1 DEF IInv, TypeOK
<1>4. Started' = Started /\ Single' = Single /\ \A q : Group(q)' = Group(q)
  BY <1>1 DEF Started, Single, Group
<1>5. Standing' = {k \in Standing : m \notin {k.src, k.tgt}}
  <2>1. \A k \in graph : k.src \in Memories /\ k.tgt \in Memories
    BY DEF IInv, TypeOK, Keys
  <2> QED BY <1>1, <1>2, <1>3, <2>1 DEF Standing, Present
<1>6. \A k \in Standing : Key(Edge(k, 0)) = k /\ Pair(Edge(k, 0)) = {k.src, k.tgt}
  BY EdgeOK DEF Standing, IInv, TypeOK, Pair
<1>7. Drawn(Standing') = {e \in Drawn(Standing) : m \notin Pair(e)}
  BY <1>5, <1>6 DEF Drawn
<1> SUFFICES ASSUME Single PROVE Graphed'
  BY <1>4 DEF Graphed
<1>8. Copying' /\ Copied' /\ Relinking'
  BY <1>1 DEF Copying, Copied, Relinking
<1>9. Started = {} => edges' = Drawn(Standing')
  BY <1>1, <1>7 DEF Graphed
<1>10. KeysOf(edges) = Standing => KeysOf(edges') = Standing'
  <2>1. \A e : Pair(e) = {Key(e).src, Key(e).tgt}
    BY DEF Pair, Key
  <2> QED BY <1>1, <1>5, <2>1 DEF KeysOf
<1>11. ASSUME NEW o \in Ops, journal[o].status = "completed" PROVE Undoable(o)' /\ Entered(o)'
  <2>1. /\ Undoable(o) /\ Entered(o) /\ Group(o) \subseteq Memories
        /\ journal[o].target \in Memories /\ o # NoOp
    BY <1>11, GroupOK, NamesAssumption DEF Graphed, IInv, Rest, Journalled, Started
  <2>2. Undoable(o)'
    <3> SUFFICES ASSUME \A k \in Group(o) : o \in Marks(mem'[k])
                 PROVE  Linked(edges', Standing', graph, journal[o].created, journal[o].displaced)
      BY <1>1, <1>4 DEF Undoable
    <3>1. \A k \in Group(o) : o \in Marks(mem[k])
      BY <1>2, <1>3, <2>1
    <3>2. Linked(edges, Standing, graph, journal[o].created, journal[o].displaced)
      BY <1>1, <2>1, <3>1 DEF Undoable
    <3> QED BY <1>1, <1>7, <3>2 DEF Linked
  <2>3. Entered(o)'
    <3> DEFINE t == journal[o].target
               S == {k \in Group(o) \ {t} : mem[k].by = o}
    <3>1. {k \in Group(o) \ {t} : mem'[k].by = o} \subseteq S
      BY <1>2, <1>3, <2>1
    <3> SUFFICES ASSUME Present(t)', NEW e \in edges' PROVE Carries(edges', e, S, t, Group(o))
      BY <1>1, <1>4, <3>1, CarriesLess DEF Entered
    <3>2. t # m /\ Present(t)
      BY <1>1, <1>2, <1>3, <2>1 DEF Present
    <3>3. Carries(edges, e, S, t, Group(o)) /\ m \notin Pair(e)
      BY <1>1, <2>1, <3>2 DEF Entered
    <3> HIDE DEF t, S
    <3>4. ASSUME NEW x \in Pair(e), Joined(edges, t, x) PROVE Joined(edges', t, x)
      BY <1>1, <3>2, <3>3, <3>4 DEF Joined
    <3> QED BY <3>3, <3>4 DEF Carries
  <2> QED BY <2>2, <2>3
<1> QED BY <1>1, <1>4, <1>8, <1>9, <1>10, <1>11 DEF Graphed, KeysOf

LEMMA UnchangedGraph == ASSUME IInv, Graphed, UNCHANGED vars PROVE Graphed'
<1>1. Copying' = Copying /\ Copied' = Copied /\ Relinking' = Relinking
  BY DEF vars, Copying, Copied, Relinking, Standing, Present, Members, KeysOf
<1>2. Single => Copying' /\ Copied' /\ Relinking'
  BY <1>1 DEF Graphed
<1> QED BY <1>2, GraphFrame DEF vars, Present

LEMMA NextGraph == ASSUME IInv, Graphed, [Next]_vars PROVE Graphed'
<1>1. CASE Next
  BY <1>1, PreviewGraph, RecordGraph, CopyGraph, CopiesDoneGraph, UpdateTargetGraph,
     UpdateSourceGraph, FinishGraph, ErrorGraph, UndoGraph, RestoreRowGraph, UnlinkGraph,
     RelinkGraph, SettleGraph, CrashGraph, WrittenGraph, RemoveGraph, Zenon DEF Next
<1> QED BY <1>1, UnchangedGraph

\* After the undo of the only merge the relationships are the initial ones
\* between the rows that are left, and while it stands its target has the
\* neighbours of its sources.
THEOREM GraphRestored == Spec => []GraphKept
<1>1. Init => IInv /\ Graphed
  BY InitTypes, InitRest, InitGraph DEF IInv
<1>2. IInv /\ Graphed /\ [Next]_vars => IInv' /\ Graphed'
  BY NextTypes, NextRest, NextGraph DEF IInv, Rest
<1>3. IInv /\ Graphed => GraphKept
  <2> SUFFICES ASSUME IInv, Graphed PROVE RestoresGraph /\ NeighboursKept
    BY DEF GraphKept
  <2>1. RestoresGraph
    <3> SUFFICES ASSUME Single, at = "idle",
                        \A o \in Ops : journal[o].status \in {"none", "undone"}
                 PROVE  KeysOf(edges) = Standing
      BY DEF RestoresGraph, Idle, Standing
    <3>1. CASE Started = {}
      <4>1. \A k \in Standing : Key(Edge(k, 0)) = k
        BY EdgeOK DEF Standing, IInv, TypeOK
      <4> QED BY <3>1, <4>1 DEF Graphed, Drawn, KeysOf
    <3>2. CASE Started # {}
      BY <3>2 DEF Graphed, Started
    <3> QED BY <3>1, <3>2
  <2>2. NeighboursKept
    <3> SUFFICES ASSUME Single, NEW o \in Ops, journal[o].status = "completed", NEW e \in edges,
                        NEW m \in {e.src, e.tgt} \cap (Group(o) \ {journal[o].target})
                 PROVE  mem[m].status = "merged" /\ mem[m].by = o /\ Present(journal[o].target) =>
                          \A x \in {e.src, e.tgt} \ Group(o) :
                            \E c \in edges : {c.src, c.tgt} = {journal[o].target, x}
      BY DEF NeighboursKept
    <3> SUFFICES ASSUME mem[m].by = o, Present(journal[o].target),
                        NEW x \in {e.src, e.tgt} \ Group(o)
                 PROVE  \E c \in edges : {c.src, c.tgt} = {journal[o].target, x}
      OBVIOUS
    <3>1. Carries(edges, e, {k \in Group(o) \ {journal[o].target} : mem[k].by = o},
                  journal[o].target, Group(o))
      BY DEF Graphed, Entered
    <3> QED BY <3>1 DEF Carries, Pair, Joined
  <2> QED BY <2>1, <2>2
<1> QED BY <1>1, <1>2, <1>3, PTL DEF Spec

(***************************************************************************)
(* Beliefs.                                                                *)
(***************************************************************************)
BeliefRow == [status : BeliefStatuses, revoked : BOOLEAN, cites : SUBSET Beliefs,
            was : BeliefStatuses \cup {"none"}]
JobType == [at : {"idle", "insert", "index", "relate", "mark", "compensate"},
            new : Beliefs \cup {NoBelief}, old : Beliefs \cup {NoBelief},
            sources : SUBSET Beliefs, was : BeliefStatuses \cup {"none"}]
PurgeType == [at : {"idle", "revoke", "row"}, left : SUBSET Beliefs, derived : SUBSET Beliefs,
              now : Beliefs \cup {NoBelief}, known : SUBSET Beliefs]

BeliefsTypeOK ==
  /\ row \in [Beliefs -> BeliefRow] /\ vec \in SUBSET Beliefs
  /\ job \in [Workers -> JobType] /\ req \in PurgeType
  /\ crashed \in BOOLEAN /\ moves \in Nat /\ faults \in Nat

Used(b) == row[b].status # "unused"
Revising == {"relate", "mark", "compensate"}

\* What a worker knows of the belief that it stores and of the one that it
\* revises: a successor is taken back only for a failing call, or because one
\* of the two has gone.
Sound(j) ==
  /\ j.at = "idle" => j = NoJob
  /\ j.at # "idle" => j.new \in Beliefs
  /\ j.at # "idle" => ((j.at = "insert") <=> ~ Used(j.new))
  /\ j.old # NoBelief => Used(j.old)
  /\ j.at \in Revising => j.old # NoBelief
  /\ j.at = "compensate" => faults > 0 \/ ~ Stored(j.new) \/ ~ Stored(j.old)

AllSound == \A w \in Workers : Sound(job[w])
Apart == \A w \in Workers : \A v \in Workers \ {w} :
           job[w].new # NoBelief => job[v].new # job[w].new

\* Of the beliefs that were active when the purge began, those that are
\* asserted and have not been visited yet cite nothing that is left to purge.
Revoking ==
  /\ req.at = "idle" => req = NoPurge
  /\ \A b \in req.left \cup req.known : Used(b)
  /\ req.at = "row" => req.derived = {} /\ req.now \in req.left
  /\ \A c \in req.known \ req.derived : Asserted(c) => row[c].cites \cap req.left = {}

BeliefsRest == AllSound /\ Apart /\ Revoking /\ (crashed => faults > 0)
BeliefsIInv == BeliefsTypeOK /\ BeliefsRest

-----------------------------------------------------------------------------
LEMMA RowsOK ==
  /\ \A s \in BeliefStatuses : NoRow(s) \in BeliefRow
  /\ \A S \in SUBSET Beliefs : NewRow(S) \in BeliefRow
  /\ NoJob \in JobType /\ NoPurge \in PurgeType
BY DEF NoRow, NewRow, BeliefRow, BeliefStatuses, Servable, NonServable, Absent, NoJob, JobType, NoPurge, PurgeType

LEMMA InitOK == BeliefsInit => BeliefsIInv
<1> SUFFICES ASSUME BeliefsInit PROVE BeliefsIInv
  OBVIOUS
<1>1. BeliefsTypeOK
  BY RowsOK, IdsAssumption DEF BeliefsInit, BeliefsTypeOK, BeliefStatuses, Servable, NonServable, Absent
<1>2. AllSound /\ Apart /\ Revoking
  BY DEF BeliefsInit, AllSound, Sound, Apart, Revoking, NoJob, NoPurge, Revising
<1>3. crashed => faults > 0
  BY DEF BeliefsInit
<1> QED BY <1>1, <1>2, <1>3 DEF BeliefsIInv, BeliefsRest

-----------------------------------------------------------------------------
(* What a step may do to rows that there are, s after r. *)
Tame(r, s) ==
  /\ s.status = "unused" <=> r.status = "unused"
  /\ s.status \notin Absent => r.status \notin Absent

\* The rows outside B, which are all that there are, are treated so, and
\* faults are not forgotten; the process goes on.
Frame(B) ==
  /\ \A b \in B : ~ Used(b)
  /\ \A b \in Beliefs \ B : Tame(row[b], row'[b])
  /\ faults <= faults' /\ (crashed' => crashed)

LEMMA SoundKept ==
  ASSUME BeliefsTypeOK, BeliefsTypeOK', NEW B \in SUBSET Beliefs, Frame(B),
         NEW j \in JobType, Sound(j),
         j.new \notin B
  PROVE  Sound(j)'
<1>1. j.new \in Beliefs \cup {NoBelief} /\ j.old \in Beliefs \cup {NoBelief}
  BY DEF JobType
<1>2. faults > 0 => faults' > 0
  BY DEF Frame, BeliefsTypeOK
<1>3. \A b \in Beliefs : Used(b) => b \notin B
  BY DEF Frame
<1>4. \A b \in Beliefs \ B : Used(b)' <=> Used(b)
  BY DEF Frame, Tame, Used
<1>5. \A b \in Beliefs \ B : Stored(b)' => Stored(b)
  BY DEF Frame, Tame, Stored
<1>6. j.at # "idle" => j.new \in Beliefs \ B
  BY DEF Sound
<1>7. j.old # NoBelief => j.old \in Beliefs \ B
  BY <1>1, <1>3 DEF Sound
<1>8. j.old # NoBelief => Used(j.old)'
  BY <1>4, <1>7 DEF Sound
<1>9. j.at # "idle" => ((j.at = "insert") <=> ~ Used(j.new)')
  BY <1>4, <1>6 DEF Sound
<1>10. j.at = "compensate" => faults' > 0 \/ ~ Stored(j.new)' \/ ~ Stored(j.old)'
  BY <1>2, <1>5, <1>6, <1>7 DEF Sound, Revising
<1> QED BY <1>8, <1>9, <1>10 DEF Sound, Used, Stored

\* Of a purge that goes on, while rows are only asserted less and cite less.
LEMMA RevokingKept ==
  ASSUME BeliefsTypeOK, Revoking, NEW B \in SUBSET Beliefs, Frame(B), req' = req,
         req.at # "idle" => \A c \in Beliefs \ B :
           Asserted(c)' => Asserted(c) /\ row'[c].cites \subseteq row[c].cites
  PROVE  Revoking'
<1>1. req.left \subseteq Beliefs /\ req.known \subseteq Beliefs
  BY DEF BeliefsTypeOK, PurgeType
<1>2. \A b \in Beliefs : Used(b) => b \notin B /\ Used(b)'
  BY DEF Frame, Tame, Used
<1>3. CASE req.at = "idle"
  BY <1>3 DEF Revoking, NoPurge
<1>4. CASE req.at # "idle"
  <2>1. ASSUME NEW c \in req.known \ req.derived, Asserted(c)'
        PROVE  row'[c].cites \cap req.left = {}
    <3>1. Used(c)
      BY DEF Revoking
    <3>2. c \in Beliefs \ B
      BY <1>1, <1>2, <3>1
    <3>3. Asserted(c) /\ row'[c].cites \subseteq row[c].cites
      BY <1>4, <2>1, <3>2
    <3> QED BY <3>3 DEF Revoking
  <2> QED BY <1>1, <1>2, <2>1 DEF Revoking
<1> QED BY <1>3, <1>4

-----------------------------------------------------------------------------
\* A step of one worker, or of nobody, that leaves j as its job.
LEMMA OneMoves ==
  ASSUME BeliefsIInv, BeliefsTypeOK', NEW B \in SUBSET Beliefs, Frame(B), Revoking',
         NEW w \in Workers, NEW j \in JobType, job' = [job EXCEPT ![w] = j], Sound(j)',
         \A v \in Workers \ {w} : j.new # NoBelief => job[v].new # j.new,
         \A b \in B : b = j.new
  PROVE  BeliefsIInv'
<1>1. job'[w] = j /\ \A v \in Workers \ {w} : job'[v] = job[v]
  BY DEF BeliefsIInv, BeliefsTypeOK
<1>2. AllSound'
  <2>1. ASSUME NEW v \in Workers \ {w}, NEW k \in JobType, k = job[v] PROVE Sound(k)'
    <3>1. k.new \notin B
      BY <2>1, IdsAssumption
    <3>2. Sound(k)
      BY <2>1 DEF BeliefsIInv, BeliefsRest, AllSound
    <3> QED BY <3>1, <3>2, SoundKept DEF BeliefsIInv
  <2>2. \A v \in Workers \ {w} : job[v] \in JobType
    BY DEF BeliefsIInv, BeliefsTypeOK
  <2> QED BY <1>1, <2>1, <2>2 DEF AllSound, Sound
<1>3. Apart'
  BY <1>1 DEF BeliefsIInv, BeliefsRest, Apart
<1>4. crashed' => faults' > 0
  BY DEF Frame, BeliefsIInv, BeliefsRest, BeliefsTypeOK
<1> QED BY <1>2, <1>3, <1>4 DEF BeliefsIInv, BeliefsRest

\* A step that leaves the jobs alone.
LEMMA NoneMoves ==
  ASSUME BeliefsIInv, BeliefsTypeOK', Frame({}), Revoking', job' = job
  PROVE  BeliefsIInv'
<1>1. AllSound'
  <2>1. ASSUME NEW v \in Workers, NEW k \in JobType, k = job[v] PROVE Sound(k)'
    BY <2>1, SoundKept DEF BeliefsIInv, BeliefsRest, AllSound
  <2>2. \A v \in Workers : job[v] \in JobType
    BY DEF BeliefsIInv, BeliefsTypeOK
  <2> QED BY <2>1, <2>2 DEF AllSound, Sound
<1>2. Apart'
  BY DEF BeliefsIInv, BeliefsRest, Apart
<1>3. crashed' => faults' > 0
  BY DEF Frame, BeliefsIInv, BeliefsRest, BeliefsTypeOK
<1> QED BY <1>1, <1>2, <1>3 DEF BeliefsIInv, BeliefsRest

-----------------------------------------------------------------------------
(* The actions. *)
LEMMA BeliefRowParts ==
  ASSUME NEW r \in BeliefRow
  PROVE  /\ r.status \in BeliefStatuses /\ r.revoked \in BOOLEAN /\ r.cites \in SUBSET Beliefs
         /\ r.was \in BeliefStatuses \cup {"none"}
BY DEF BeliefRow

LEMMA JobParts ==
  ASSUME NEW j \in JobType
  PROVE  /\ j.at \in {"idle", "insert", "index", "relate", "mark", "compensate"}
         /\ j.new \in Beliefs \cup {NoBelief} /\ j.old \in Beliefs \cup {NoBelief}
         /\ j.sources \in SUBSET Beliefs /\ j.was \in BeliefStatuses \cup {"none"}
         /\ \A a \in {"insert", "index", "relate", "mark", "compensate"} :
              LET k == [j EXCEPT !.at = a] IN
                /\ k \in JobType /\ k.at = a /\ k.new = j.new /\ k.old = j.old
                /\ k.sources = j.sources /\ k.was = j.was
BY DEF JobType

LEMMA NewRowParts ==
  ASSUME NEW S
  PROVE  NewRow(S).status = "active" /\ NewRow(S).cites = S
BY DEF NewRow, NoRow

LEMMA NoParts ==
  /\ NoJob.at = "idle" /\ NoJob.new = NoBelief /\ NoJob.old = NoBelief
  /\ NoPurge.at = "idle" /\ NoPurge.left = {} /\ NoPurge.known = {} /\ NoPurge.derived = {}
  /\ NoBelief \notin Beliefs
BY IdsAssumption DEF NoJob, NoPurge

LEMMA TypeParts ==
  ASSUME BeliefsTypeOK
  PROVE  /\ \A b \in Beliefs : row[b] \in BeliefRow
         /\ \A w \in Workers : job[w] \in JobType
         /\ faults \in Nat
BY DEF BeliefsTypeOK

\* A worker that has nothing to do answers for no belief.
LEMMA Resting ==
  ASSUME AllSound, NEW w \in Workers, job[w].at = "idle"
  PROVE  job[w] = NoJob
BY DEF AllSound, Sound

LEMMA FrameSame == ASSUME BeliefsTypeOK, row' = row, faults <= faults', crashed' = crashed
                   PROVE  Frame({})
BY DEF Frame, Tame

\* A row is inserted.
LEMMA FrameNew ==
  ASSUME BeliefsTypeOK, NEW b \in Beliefs, ~ Used(b), NEW r \in BeliefRow, r.status = "active",
         row' = [row EXCEPT ![b] = r], faults' = faults, crashed' = crashed
  PROVE  Frame({b}) /\ row'[b] = r
BY DEF BeliefsTypeOK, Frame, Tame

LEMMA StoreEpisodeOK ==
  ASSUME BeliefsIInv, NEW w \in Workers, NEW b \in Beliefs, NEW S \in SUBSET Beliefs,
         StoreEpisode(w, b, S)
  PROVE  BeliefsIInv'
<1>1. PICK j \in JobType : j = [NoJob EXCEPT !.at = "index", !.new = b]
  BY RowsOK DEF JobType, NoJob
<1>2. PICK r \in BeliefRow : r = NewRow(S)
  BY RowsOK
<1>3. j.at = "index" /\ j.new = b /\ j.old = NoBelief /\ r.status = "active"
  BY <1>1, <1>2, NewRowParts DEF NoJob
<1>4. /\ row' = [row EXCEPT ![b] = r] /\ job' = [job EXCEPT ![w] = j]
      /\ vec' = vec /\ req' = req /\ crashed' = crashed /\ moves' = moves /\ faults' = faults
      /\ job[w] = NoJob /\ ~ Used(b) /\ \A v \in Workers : job[v].new # b
  BY <1>1, <1>2, Resting DEF StoreEpisode, beliefBounds, Fresh, Used, BeliefsIInv, BeliefsRest
<1>5. BeliefsTypeOK'
  BY <1>4 DEF BeliefsIInv, BeliefsTypeOK
<1>6. Frame({b}) /\ row'[b] = r
  BY <1>3, <1>4, FrameNew DEF BeliefsIInv
<1>7. Sound(j)'
  BY <1>3, <1>6 DEF Sound, Used, Stored, Revising
<1>8. Revoking'
  <2>1. \A c \in Beliefs \ {b} : row'[c] = row[c]
    BY <1>4 DEF BeliefsIInv, BeliefsTypeOK
  <2>2. \A c \in Beliefs \ {b} : Asserted(c)' => Asserted(c) /\ row'[c].cites \subseteq row[c].cites
    BY <2>1 DEF Asserted
  <2> QED BY <1>4, <1>6, <2>2, RevokingKept DEF BeliefsIInv, BeliefsRest
<1>10. {b} \in SUBSET Beliefs
  OBVIOUS
<1>11. \A c \in {b} : c = j.new
  BY <1>3, <1>6
<1>12. \A v \in Workers \ {w} : j.new # NoBelief => job[v].new # j.new
  BY <1>3, <1>4
<1> QED BY <1>4, <1>5, <1>6, <1>7, <1>8, <1>10, <1>11, <1>12, OneMoves, Zenon

\* A call has read that it may start, and nothing else.
LEMMA StartOK ==
  ASSUME BeliefsIInv, NEW w \in Workers, NEW b \in Beliefs, NEW j \in JobType,
         job[w].at = "idle", Fresh(b), j.at = "insert", j.new = b,
         j.old # NoBelief => Used(j.old),
         job' = [job EXCEPT ![w] = j], UNCHANGED <<row, vec, req, beliefBounds>>
  PROVE  BeliefsIInv'
<1>1. /\ row' = row /\ vec' = vec /\ req' = req
      /\ crashed' = crashed /\ moves' = moves /\ faults' = faults
      /\ job[w] = NoJob /\ ~ Used(b) /\ \A v \in Workers : job[v].new # b
  BY Resting DEF beliefBounds, Fresh, Used, BeliefsIInv, BeliefsRest
<1>2. BeliefsTypeOK'
  BY <1>1 DEF BeliefsIInv, BeliefsTypeOK
<1>3. Frame({})
  BY <1>1, FrameSame DEF BeliefsIInv, BeliefsTypeOK
<1>4. Sound(j)'
  BY <1>1 DEF Sound, Used, Stored, Revising
<1>5. Revoking'
  BY <1>1 DEF BeliefsIInv, BeliefsRest, Revoking, Used, Asserted
<1>7. \A v \in Workers \ {w} : j.new # NoBelief => job[v].new # j.new
  BY <1>1
<1>8. /\ {} \in SUBSET Beliefs
      /\ \A c \in {} : c = j.new
  OBVIOUS
<1> QED BY <1>1, <1>2, <1>3, <1>4, <1>5, <1>7, <1>8, OneMoves, Zenon

LEMMA CheckSourcesOK ==
  ASSUME BeliefsIInv, NEW w \in Workers, NEW b \in Beliefs, NEW S \in SUBSET Beliefs,
         CheckSources(w, b, S)
  PROVE  BeliefsIInv'
<1>1. PICK j \in JobType : j = [NoJob EXCEPT !.at = "insert", !.new = b, !.sources = S]
  BY RowsOK DEF JobType, NoJob
<1>2. j.at = "insert" /\ j.new = b /\ j.old = NoBelief
  BY <1>1 DEF NoJob
<1> QED BY <1>1, <1>2, StartOK DEF CheckSources

LEMMA ReviseOK ==
  ASSUME BeliefsIInv, NEW w \in Workers, NEW b \in Beliefs, NEW old \in Beliefs, Revise(w, b, old)
  PROVE  BeliefsIInv'
<1>1. PICK j \in JobType : j = [NoJob EXCEPT !.at = "insert", !.new = b, !.old = old,
                                            !.was = row[old].was]
  BY RowsOK DEF JobType, NoJob, BeliefsIInv, BeliefsTypeOK, BeliefRow
<1>2. j.at = "insert" /\ j.new = b /\ j.old = old
  BY <1>1 DEF NoJob
<1>3. Used(old)
  BY DEF Revise, Used, Stored, Absent
<1> QED BY <1>1, <1>2, <1>3, StartOK DEF Revise

LEMMA InsertOK ==
  ASSUME BeliefsIInv, NEW w \in Workers, Insert(w)
  PROVE  BeliefsIInv'
<1>1. PICK i \in JobType : i = job[w]
  BY DEF BeliefsIInv, BeliefsTypeOK
<1>2. PICK j \in JobType : j = [i EXCEPT !.at = "index"]
  BY JobParts
<1>3. PICK r \in BeliefRow : r = NewRow(i.sources)
  BY JobParts, RowsOK
<1>4. PICK b : b = i.new
  OBVIOUS
<1>5. j.at = "index" /\ j.new = b /\ j.old = i.old /\ r.status = "active"
  BY <1>2, <1>3, <1>4, JobParts, NewRowParts
<1>6. /\ row' = [row EXCEPT ![b] = r] /\ job' = [job EXCEPT ![w] = j]
      /\ vec' = vec /\ req' = req /\ crashed' = crashed /\ moves' = moves /\ faults' = faults
      /\ i.at = "insert"
  BY <1>1, <1>2, <1>3, <1>4 DEF Insert, beliefBounds, BeliefsIInv, BeliefsTypeOK
<1>7. /\ b \in Beliefs /\ ~ Used(b)
      /\ i.old # NoBelief => Used(i.old)
      /\ \A v \in Workers \ {w} : job[v].new # b
  BY <1>1, <1>4, <1>6, NoParts DEF BeliefsIInv, BeliefsRest, AllSound, Sound, Apart
<1>8. BeliefsTypeOK'
  BY <1>6, <1>7 DEF BeliefsIInv, BeliefsTypeOK
<1>9. Frame({b}) /\ row'[b] = r
  BY <1>5, <1>6, <1>7, FrameNew DEF BeliefsIInv
<1>10. Sound(j)'
  <2>1. i.old # NoBelief => i.old \in Beliefs \ {b}
    BY <1>7, JobParts DEF Used
  <2>2. i.old # NoBelief => Used(i.old)'
    BY <1>6, <1>7, <2>1 DEF Used, BeliefsIInv, BeliefsTypeOK
  <2> QED BY <1>5, <1>7, <1>9, <2>2 DEF Sound, Used, Stored, Revising
<1>11. Revoking'
  <2>1. \A c \in Beliefs \ {b} : row'[c] = row[c]
    BY <1>6 DEF BeliefsIInv, BeliefsTypeOK
  <2>2. \A c \in Beliefs \ {b} : Asserted(c)' => Asserted(c) /\ row'[c].cites \subseteq row[c].cites
    BY <2>1 DEF Asserted
  <2> QED BY <1>6, <1>7, <1>9, <2>2, RevokingKept DEF BeliefsIInv, BeliefsRest
<1>13. {b} \in SUBSET Beliefs
  BY <1>7
<1>14. \A c \in {b} : c = j.new
  BY <1>5, <1>7, <1>9
<1>15. \A v \in Workers \ {w} : j.new # NoBelief => job[v].new # j.new
  BY <1>5, <1>7
<1> QED BY <1>6, <1>8, <1>9, <1>10, <1>11, <1>13, <1>14, <1>15, OneMoves, Zenon

\* A worker goes on with its belief, or has done with it.
LEMMA WorkerMoves ==
  ASSUME BeliefsIInv, BeliefsTypeOK', Frame({}), Revoking', NEW w \in Workers, NEW j \in JobType,
         job' = [job EXCEPT ![w] = j], Sound(j)', j.new \in {NoBelief, job[w].new}
  PROVE  BeliefsIInv'
<1>1. /\ {} \in SUBSET Beliefs
      /\ \A c \in {} : c = j.new
  OBVIOUS
<1>2. \A v \in Workers \ {w} : j.new # NoBelief => job[v].new # j.new
  BY DEF BeliefsIInv, BeliefsRest, Apart
<1> QED BY <1>1, <1>2, OneMoves, Zenon

LEMMA NoJobSound == Sound(NoJob) /\ Sound(NoJob)' /\ NoJob \in JobType
BY RowsOK, NoParts DEF Sound, Revising

\* What a worker knows that has inserted its row.
LEMMA Inserted ==
  ASSUME BeliefsIInv, NEW w \in Workers, NEW i, i = job[w], i.at \in {"index"} \cup Revising
  PROVE  /\ i \in JobType /\ Sound(i) /\ i.new \in Beliefs /\ Used(i.new)
         /\ i.at \in Revising => i.old \in Beliefs /\ Used(i.old)
<1>1. i \in JobType /\ Sound(i)
  BY DEF BeliefsIInv, BeliefsTypeOK, BeliefsRest, AllSound
<1> QED BY <1>1, JobParts, NoParts DEF Sound, Revising

\* Steps of a worker that leave the rows alone.
LEMMA RowsStay ==
  ASSUME BeliefsIInv, row' = row, vec' \in SUBSET Beliefs, req' = req, crashed' = crashed,
         moves' = moves, faults' \in Nat, faults <= faults',
         NEW w \in Workers, NEW j \in JobType,
         job' = [job EXCEPT ![w] = j], Sound(j)', j.new \in {NoBelief, job[w].new}
  PROVE  BeliefsIInv'
<1>1. BeliefsTypeOK'
  BY DEF BeliefsIInv, BeliefsTypeOK
<1>2. Frame({})
  BY FrameSame DEF BeliefsIInv
<1>3. Revoking'
  BY DEF BeliefsIInv, BeliefsRest, Revoking, Used, Asserted
<1> QED BY <1>1, <1>2, <1>3, WorkerMoves, Zenon

LEMMA IndexOK ==
  ASSUME BeliefsIInv, NEW w \in Workers, Index(w)
  PROVE  BeliefsIInv'
<1>1. PICK i : i = job[w]
  OBVIOUS
<1>2. /\ i.at = "index" /\ row' = row /\ req' = req /\ crashed' = crashed /\ moves' = moves
      /\ vec' = vec \cup {i.new} \/ vec' = vec
      /\ faults' = faults \/ faults' = faults + 1
  BY <1>1 DEF Index, Fault
<1>3. /\ i \in JobType /\ i.new \in Beliefs /\ Used(i.new) /\ Sound(i)
  BY <1>1, <1>2, Inserted
<1>4. vec' \in SUBSET Beliefs /\ faults' \in Nat /\ faults <= faults'
  BY <1>2, <1>3 DEF BeliefsIInv, BeliefsTypeOK
<1>5. CASE i.old = NoBelief
  <2>1. job' = [job EXCEPT ![w] = NoJob]
    BY <1>1, <1>5 DEF Index
  <2>3. NoJob.new \in {NoBelief, job[w].new}
    BY NoParts
  <2> QED BY <1>2, <1>4, <2>1, <2>3, NoJobSound, RowsStay, Zenon
<1>6. CASE i.old # NoBelief
  <2>1. PICK j \in JobType : j = [i EXCEPT !.at = "relate"]
    BY <1>3, JobParts
  <2>2. j.at = "relate" /\ j.new = i.new /\ j.old = i.old
    BY <1>3, <2>1, JobParts
  <2>3. job' = [job EXCEPT ![w] = j]
    BY <1>1, <1>6, <2>1 DEF Index, BeliefsIInv, BeliefsTypeOK
  <2>4. Sound(j)'
    BY <1>2, <1>3, <1>6, <2>2 DEF Sound, Revising, Used, Stored
  <2>5. j.new \in {NoBelief, job[w].new}
    BY <1>1, <2>2
  <2> QED BY <1>2, <1>4, <2>3, <2>4, <2>5, RowsStay, Zenon
<1> QED BY <1>5, <1>6

LEMMA RelateOK ==
  ASSUME BeliefsIInv, NEW w \in Workers, Relate(w)
  PROVE  BeliefsIInv'
<1>1. PICK i : i = job[w]
  OBVIOUS
<1>2. /\ i.at = "relate" /\ row' = row /\ vec' = vec /\ req' = req
      /\ crashed' = crashed /\ moves' = moves
      /\ faults' = faults \/ faults' = faults + 1
  BY <1>1 DEF Relate, Fault
<1>3. /\ i \in JobType /\ i.new \in Beliefs /\ Used(i.new) /\ Sound(i)
      /\ i.old \in Beliefs /\ Used(i.old)
  BY <1>1, <1>2, Inserted DEF Revising
<1>4. vec' \in SUBSET Beliefs /\ faults' \in Nat /\ faults <= faults'
  BY <1>2 DEF BeliefsIInv, BeliefsTypeOK
<1>5. PICK a \in {"mark", "compensate"} :
        /\ job' = [job EXCEPT ![w].at = a]
        /\ a = "compensate" => ~ Stored(i.new) \/ ~ Stored(i.old) \/ faults' = faults + 1
  <2>1. \/ job' = [job EXCEPT ![w].at = "mark"]
        \/ /\ job' = [job EXCEPT ![w].at = "compensate"]
           /\ ~ Stored(i.new) \/ ~ Stored(i.old) \/ faults' = faults + 1
    BY <1>1 DEF Relate, Fault
  <2> QED BY <2>1
<1>6. PICK j \in JobType : j = [i EXCEPT !.at = a]
  BY <1>3, JobParts
<1>7. j.at = a /\ j.new = i.new /\ j.old = i.old
  BY <1>3, <1>6, JobParts
<1>8. job' = [job EXCEPT ![w] = j]
  BY <1>1, <1>5, <1>6 DEF BeliefsIInv, BeliefsTypeOK
<1>9. Sound(j)'
  <2>1. a = "compensate" => faults' > 0 \/ ~ Stored(i.new) \/ ~ Stored(i.old)
    BY <1>5, <1>4 DEF BeliefsIInv, BeliefsTypeOK
  <2>2. i.old # NoBelief
    BY <1>3, NoParts
  <2> QED BY <1>2, <1>3, <1>7, <2>1, <2>2 DEF Sound, Revising, Used, Stored
<1>10. j.new \in {NoBelief, job[w].new}
  BY <1>1, <1>7
<1> QED BY <1>2, <1>4, <1>8, <1>9, <1>10, RowsStay, Zenon

LEMMA MarkOK ==
  ASSUME BeliefsIInv, NEW w \in Workers, Mark(w)
  PROVE  BeliefsIInv'
<1>1. PICK i : i = job[w]
  OBVIOUS
<1>2. /\ i.at = "mark" /\ vec' = vec /\ req' = req
      /\ crashed' = crashed /\ moves' = moves
      /\ faults' = faults \/ faults' = faults + 1
  BY <1>1 DEF Mark, Fault
<1>3. /\ i \in JobType /\ i.new \in Beliefs /\ Used(i.new) /\ Sound(i)
      /\ i.old \in Beliefs /\ Used(i.old)
  BY <1>1, <1>2, Inserted DEF Revising
<1>4. vec' \in SUBSET Beliefs /\ faults' \in Nat /\ faults <= faults'
  BY <1>2 DEF BeliefsIInv, BeliefsTypeOK
<1>5. ASSUME row' = row, job' = [job EXCEPT ![w] = Missed(w)],
             ~ Stored(i.old) \/ faults' = faults + 1
      PROVE  BeliefsIInv'
  <2>1. PICK j \in JobType : j = [i EXCEPT !.at = "compensate"]
    BY <1>3, JobParts
  <2>2. j.at = "compensate" /\ j.new = i.new /\ j.old = i.old
    BY <1>3, <2>1, JobParts
  <2>3. job' = [job EXCEPT ![w] = j]
    BY <1>1, <1>5, <2>1 DEF Missed
  <2>4. Sound(j)'
    <3>1. faults' > 0 \/ ~ Stored(i.old)
      BY <1>4, <1>5 DEF BeliefsIInv, BeliefsTypeOK
    <3>2. i.old # NoBelief
      BY <1>3, NoParts
    <3> QED BY <1>3, <1>5, <2>2, <3>1, <3>2 DEF Sound, Revising, Used, Stored
  <2>5. j.new \in {NoBelief, job[w].new}
    BY <1>1, <2>2
  <2> QED BY <1>2, <1>4, <1>5, <2>3, <2>4, <2>5, RowsStay, Zenon
<1>6. ASSUME NEW r \in BeliefRow, row' = [row EXCEPT ![i.old] = r], Stored(i.old),
             r.status = "superseded", faults' = faults,
             job' = [job EXCEPT ![w] = NoJob]
      PROVE  BeliefsIInv'
  <2>1. BeliefsTypeOK'
    BY <1>2, <1>3, <1>6, NoJobSound DEF BeliefsIInv, BeliefsTypeOK
  <2>2. row'[i.old] = r /\ \A b \in Beliefs \ {i.old} : row'[b] = row[b]
    BY <1>3, <1>6 DEF BeliefsIInv, BeliefsTypeOK
  <2>3. Frame({})
    BY <1>2, <1>4, <1>6, <2>2 DEF Frame, Tame, Stored, Absent
  <2>4. Revoking'
    <3>1. \A c \in Beliefs \ {} :
            Asserted(c)' => Asserted(c) /\ row'[c].cites \subseteq row[c].cites
      BY <1>6, <2>2 DEF Asserted
    <3> QED BY <1>2, <2>3, <3>1, RevokingKept DEF BeliefsIInv, BeliefsRest
  <2>6. NoJob.new \in {NoBelief, job[w].new}
    BY NoParts
  <2> QED BY <1>6, <2>1, <2>3, <2>4, <2>6, NoJobSound, WorkerMoves, Zenon
<1>7. CASE /\ row' = row /\ job' = [job EXCEPT ![w] = Missed(w)]
           /\ ~ Stored(i.old) \/ faults' = faults + 1
  BY <1>5, <1>7
<1>8. CASE /\ Stored(i.old) /\ job' = [job EXCEPT ![w] = NoJob] /\ faults' = faults
           /\ row' = [row EXCEPT ![i.old].status = "superseded", ![i.old].was = i.was]
  <2>1. row[i.old] \in BeliefRow
    BY <1>3, TypeParts, JobParts DEF BeliefsIInv
  <2>2. PICK r \in BeliefRow :
          r = [row[i.old] EXCEPT !.status = "superseded", !.was = i.was]
    BY <1>3, <2>1, BeliefRowParts, JobParts DEF BeliefRow, BeliefStatuses, Servable, NonServable
  <2>3. r.status = "superseded"
    BY <2>1, <2>2 DEF BeliefRow
  <2>4. row' = [row EXCEPT ![i.old] = r]
    BY <1>3, <1>8, <2>2 DEF BeliefsIInv, BeliefsTypeOK
  <2> QED BY <1>6, <1>8, <2>3, <2>4
<1> QED BY <1>1, <1>7, <1>8 DEF Mark, Fault

\* delete_memory takes a row, and itself out of the citations of the others.
LEMMA WithoutRows ==
  ASSUME BeliefsTypeOK, NEW b \in Beliefs, Used(b), row' = Without(b),
         faults' = faults, crashed' = crashed
  PROVE  /\ row' \in [Beliefs -> BeliefRow] /\ Frame({}) /\ ~ Stored(b)'
         /\ \A c \in Beliefs :
              Asserted(c)' => Asserted(c) /\ row'[c].cites \subseteq row[c].cites \ {b}
<1>1. NoRow("gone") \in BeliefRow /\ NoRow("gone").status = "gone"
  BY RowsOK DEF NoRow, BeliefStatuses, Servable, NonServable, Absent
<1>2. row'[b] = NoRow("gone")
  BY DEF Without
<1>3. ASSUME NEW c \in Beliefs \ {b}
      PROVE  /\ row'[c] \in BeliefRow /\ row'[c].status = row[c].status
             /\ row'[c].revoked = row[c].revoked
             /\ row'[c].cites = row[c].cites \ {b}
  <2>1. row'[c] = [row[c] EXCEPT !.cites = row[c].cites \ {b}] /\ row[c] \in BeliefRow
    BY DEF Without, BeliefsTypeOK
  <2> QED BY <2>1 DEF BeliefRow
<1>4. row' = [c \in Beliefs |-> row'[c]]
  BY DEF Without
<1>5. row' \in [Beliefs -> BeliefRow]
  BY <1>1, <1>2, <1>3, <1>4
<1>6. \A c \in Beliefs : Tame(row[c], row'[c])
  BY <1>1, <1>2, <1>3 DEF Tame, Used, Absent
<1>7. Frame({})
  BY <1>6 DEF Frame, BeliefsTypeOK
<1> QED BY <1>1, <1>2, <1>3, <1>5, <1>7 DEF Stored, Absent, Asserted

LEMMA CompensateOK ==
  ASSUME BeliefsIInv, NEW w \in Workers, Compensate(w)
  PROVE  BeliefsIInv'
<1>1. PICK i : i = job[w]
  OBVIOUS
<1>2. /\ i.at = "compensate" /\ req' = req /\ crashed' = crashed /\ moves' = moves
      /\ job' = [job EXCEPT ![w] = NoJob]
  BY <1>1 DEF Compensate
<1>3. /\ i \in JobType /\ i.new \in Beliefs /\ Used(i.new) /\ Sound(i)
      /\ i.old \in Beliefs /\ Used(i.old)
  BY <1>1, <1>2, Inserted DEF Revising
<1>4. NoJob.new \in {NoBelief, job[w].new}
  BY NoParts
<1>5. CASE vec' = vec \ {i.new} /\ row' = Without(i.new) /\ faults' = faults
  <2>1. /\ row' \in [Beliefs -> BeliefRow] /\ Frame({}) /\ ~ Stored(i.new)'
        /\ \A c \in Beliefs :
             Asserted(c)' => Asserted(c) /\ row'[c].cites \subseteq row[c].cites \ {i.new}
    BY <1>2, <1>3, <1>5, WithoutRows DEF BeliefsIInv
  <2>2. BeliefsTypeOK'
    BY <1>2, <1>5, <2>1, NoJobSound DEF BeliefsIInv, BeliefsTypeOK
  <2>3. Revoking'
    <3>1. \A c \in Beliefs \ {} :
            Asserted(c)' => Asserted(c) /\ row'[c].cites \subseteq row[c].cites
      BY <2>1
    <3> QED BY <1>2, <2>1, <3>1, RevokingKept DEF BeliefsIInv, BeliefsRest
  <2> QED BY <1>2, <1>4, <2>1, <2>2, <2>3, NoJobSound, WorkerMoves, Zenon
<1>6. CASE /\ row' = row /\ vec' = vec
           /\ (~ Stored(i.new) /\ faults' = faults) \/ faults' = faults + 1
  <2>1. vec' \in SUBSET Beliefs /\ faults' \in Nat /\ faults <= faults'
    BY <1>6 DEF BeliefsIInv, BeliefsTypeOK
  <2> QED BY <1>2, <1>4, <1>6, <2>1, NoJobSound, RowsStay, Zenon
<1> QED BY <1>1, <1>5, <1>6 DEF Compensate, Fault

\* A row that there is is written while no purge is going on.
LEMMA WriteOK ==
  ASSUME BeliefsIInv, req.at = "idle", NEW b \in Beliefs, NEW r \in BeliefRow,
         row' = [row EXCEPT ![b] = r], Tame(row[b], r), vec' = vec, job' = job,
         req' = req, crashed' = crashed, faults' = faults,
         moves' \in Nat
  PROVE  BeliefsIInv'
<1>1. BeliefsTypeOK'
  BY DEF BeliefsIInv, BeliefsTypeOK
<1>2. row'[b] = r /\ \A c \in Beliefs \ {b} : row'[c] = row[c]
  BY DEF BeliefsIInv, BeliefsTypeOK
<1>3. Frame({})
  BY <1>2 DEF Frame, Tame, BeliefsIInv, BeliefsTypeOK
<1>4. Revoking'
  BY <1>3, RevokingKept DEF BeliefsIInv, BeliefsRest
<1> QED BY <1>1, <1>3, <1>4, NoneMoves

LEMMA MoveToTrashOK ==
  ASSUME BeliefsIInv, NEW b \in Beliefs, MoveToTrash(b)
  PROVE  BeliefsIInv'
<1>1. row[b] \in BeliefRow /\ Stored(b)
  BY TypeParts DEF BeliefsIInv, MoveToTrash
<1>2. PICK r \in BeliefRow : r = [row[b] EXCEPT !.status = "deleted", !.was = row[b].status]
  BY <1>1, BeliefRowParts DEF BeliefRow, BeliefStatuses, Servable, NonServable
<1>3. r.status = "deleted"
  BY <1>1, <1>2 DEF BeliefRow
<1>4. Tame(row[b], r)
  BY <1>1, <1>3 DEF Tame, Stored, Absent
<1>5. row' = [row EXCEPT ![b] = r] /\ moves' \in Nat
  <2>1. row' = [row EXCEPT ![b].status = "deleted", ![b].was = row[b].status]
    BY DEF MoveToTrash
  <2>2. row' = [row EXCEPT ![b] = r]
    BY <1>2, <2>1 DEF BeliefsIInv, BeliefsTypeOK
  <2>3. moves' = moves + 1 /\ moves \in Nat
    BY DEF MoveToTrash, BeliefsIInv, BeliefsTypeOK
  <2> QED BY <2>2, <2>3
<1> QED BY <1>4, <1>5, WriteOK DEF MoveToTrash

LEMMA RestoreOK ==
  ASSUME BeliefsIInv, NEW b \in Beliefs, Restore(b)
  PROVE  BeliefsIInv'
<1>1. row[b] \in BeliefRow /\ row[b].status = "deleted"
  BY TypeParts DEF BeliefsIInv, Restore
<1>2. PICK s \in {"archived", "active"} :
        row' = [row EXCEPT ![b].status = s, ![b].was = "none"]
  BY DEF Restore
<1>3. PICK r \in BeliefRow : r = [row[b] EXCEPT !.status = s, !.was = "none"]
  BY <1>1, BeliefRowParts DEF BeliefRow, BeliefStatuses, Servable, NonServable
<1>4. r.status = s
  BY <1>1, <1>3 DEF BeliefRow
<1>5. Tame(row[b], r)
  BY <1>1, <1>4 DEF Tame, Absent
<1>6. row' = [row EXCEPT ![b] = r] /\ moves' \in Nat
  BY <1>2, <1>3 DEF Restore, beliefBounds, BeliefsIInv, BeliefsTypeOK
<1> QED BY <1>5, <1>6, WriteOK DEF Restore, beliefBounds

LEMMA PatchOK ==
  ASSUME BeliefsIInv, NEW b \in Beliefs, NEW s, NEW was, Patch(b, s, was)
  PROVE  BeliefsIInv'
<1>1. /\ row[b] \in BeliefRow /\ Stored(b)
      /\ s \in Servable \cup NonServable /\ was \in {row[b].was, "none"}
  BY TypeParts DEF BeliefsIInv, Patch
<1>2. s \in BeliefStatuses \ Absent
  BY <1>1 DEF BeliefStatuses, Servable, NonServable, Absent
<1>3. PICK r \in BeliefRow : r = [row[b] EXCEPT !.status = s, !.was = was]
  BY <1>1, <1>2, BeliefRowParts DEF BeliefRow
<1>4. r.status = s
  BY <1>1, <1>3 DEF BeliefRow
<1>5. Tame(row[b], r)
  BY <1>1, <1>2, <1>4 DEF Tame, Stored, Absent
<1>6. row' = [row EXCEPT ![b] = r] /\ moves' \in Nat
  <2>1. moves' = moves + 1 /\ moves \in Nat
    BY DEF Patch, BeliefsIInv, BeliefsTypeOK
  <2>2. row' = [row EXCEPT ![b] = r]
    BY <1>3 DEF Patch, BeliefsIInv, BeliefsTypeOK
  <2> QED BY <2>1, <2>2
<1> QED BY <1>5, <1>6, WriteOK DEF Patch

\* A purge goes on, and writes no row.
LEMMA PurgeMoves ==
  ASSUME BeliefsIInv, row' = row, job' = job, vec' \in SUBSET Beliefs, req' \in PurgeType,
         crashed' = crashed, moves' = moves, faults' \in Nat, faults <= faults', Revoking'
  PROVE  BeliefsIInv'
<1>1. BeliefsTypeOK'
  BY DEF BeliefsIInv, BeliefsTypeOK
<1>2. Frame({})
  BY FrameSame DEF BeliefsIInv
<1> QED BY <1>1, <1>2, NoneMoves

LEMMA BeginPurgeOK ==
  ASSUME BeliefsIInv, NEW S \in SUBSET Beliefs, BeginPurge(S)
  PROVE  BeliefsIInv'
<1> DEFINE known == {b \in Beliefs : row[b].status = "active"}
<1>1. PICK q : q = [NoPurge EXCEPT !.at = "revoke", !.left = S, !.derived = Cascade(S),
                             !.known = known]
  OBVIOUS
<1>2. q \in PurgeType /\ q.at = "revoke" /\ q.left = S /\ q.derived = Cascade(S) /\ q.known = known
  BY <1>1, RowsOK DEF NoPurge, PurgeType, Cascade
<1>3. req' = q /\ row' = row
  BY <1>1 DEF BeginPurge
<1>4. \A b \in S \cup known : Used(b)
  BY DEF BeginPurge, Retired, Stored, Absent, Used
<1>5. \A c \in known \ Cascade(S) : row[c].cites \cap S = {}
  BY DEF Cascade
<1>6. Revoking'
  BY <1>2, <1>3, <1>4, <1>5 DEF Revoking, Used
<1> QED BY <1>2, <1>3, <1>6, PurgeMoves DEF BeginPurge, beliefBounds, BeliefsIInv, BeliefsTypeOK

LEMMA RevokeDerivedOK ==
  ASSUME BeliefsIInv, NEW b \in Beliefs, RevokeDerived(b)
  PROVE  BeliefsIInv'
<1>1. PICK q : q = [req EXCEPT !.derived = req.derived \ {b}]
  OBVIOUS
<1>2. req' = q /\ req.at = "revoke" /\ job' = job /\ vec' = vec /\ crashed' = crashed
      /\ moves' = moves /\ faults' = faults
  BY <1>1 DEF RevokeDerived, beliefBounds
<1>3. /\ q \in PurgeType /\ q.at = "revoke" /\ q.left = req.left
      /\ q.derived = req.derived \ {b} /\ q.known = req.known /\ q.known \subseteq Beliefs
  BY <1>1, <1>2 DEF BeliefsIInv, BeliefsTypeOK, PurgeType
<1>4. /\ row' \in [Beliefs -> BeliefRow] /\ ~ Asserted(b)'
      /\ \A c \in Beliefs : /\ row'[c].status = row[c].status
                            /\ row'[c].cites = row[c].cites
      /\ \A c \in Beliefs \ {b} : row'[c] = row[c]
  <2>1. CASE Stored(b)
    <3>0. row[b] \in BeliefRow
      BY TypeParts DEF BeliefsIInv
    <3>1. PICK r \in BeliefRow : r = [row[b] EXCEPT !.revoked = TRUE]
      BY <3>0, BeliefRowParts DEF BeliefRow
    <3>2. /\ r.status = row[b].status
          /\ r.cites = row[b].cites /\ r.revoked
      BY <3>0, <3>1 DEF BeliefRow
    <3>3. row' = [row EXCEPT ![b] = r]
      BY <2>1, <3>1 DEF RevokeDerived, BeliefsIInv, BeliefsTypeOK
    <3>4. row'[b] = r /\ \A c \in Beliefs \ {b} : row'[c] = row[c]
      BY <3>3 DEF BeliefsIInv, BeliefsTypeOK
    <3> QED BY <3>2, <3>3, <3>4 DEF Asserted, BeliefsIInv, BeliefsTypeOK
  <2>2. CASE ~ Stored(b)
    BY <2>2 DEF RevokeDerived, Stored, Absent, Asserted, BeliefsIInv, BeliefsTypeOK
  <2> QED BY <2>1, <2>2
<1>5. BeliefsTypeOK'
  BY <1>2, <1>3, <1>4 DEF BeliefsIInv, BeliefsTypeOK
<1>6. Frame({})
  BY <1>2, <1>4 DEF Frame, Tame, BeliefsIInv, BeliefsTypeOK
<1>7. Revoking'
  <2>1. ASSUME NEW c \in q.known \ q.derived, Asserted(c)' PROVE row'[c].cites \cap q.left = {}
    <3>1. c # b /\ c \in Beliefs /\ c \in req.known \ req.derived
      BY <1>3, <1>4, <2>1
    <3>2. Asserted(c) /\ row'[c].cites = row[c].cites
      BY <1>4, <2>1, <3>1 DEF Asserted
    <3> QED BY <1>3, <3>1, <3>2 DEF BeliefsIInv, BeliefsRest, Revoking
  <2>2. \A c \in q.left \cup q.known : Used(c)'
    BY <1>3, <1>4 DEF BeliefsIInv, BeliefsRest, Revoking, Used, BeliefsTypeOK, PurgeType
  <2> QED BY <1>2, <1>3, <2>1, <2>2 DEF Revoking
<1> QED BY <1>2, <1>5, <1>6, <1>7, NoneMoves

LEMMA DropVectorOK ==
  ASSUME BeliefsIInv, NEW b \in Beliefs, DropVector(b)
  PROVE  BeliefsIInv'
<1>1. /\ req.at = "revoke" /\ req.derived = {} /\ b \in req.left /\ row' = row /\ job' = job
      /\ crashed' = crashed /\ moves' = moves
  BY DEF DropVector
<1>2. PICK q : q = req'
  OBVIOUS
<1>3. vec' \in SUBSET Beliefs /\ faults' \in Nat /\ faults <= faults'
  BY DEF DropVector, Fault, BeliefsIInv, BeliefsTypeOK
<1>4. /\ q \in PurgeType /\ q.derived = {} /\ q.known = req.known /\ q.left \subseteq req.left
      /\ q.at = "revoke" \/ (q.at = "row" /\ q.now \in q.left)
  <2>1. req \in PurgeType
    BY DEF BeliefsIInv, BeliefsTypeOK
  <2>2. CASE q = [req EXCEPT !.at = "row", !.now = b]
    BY <1>1, <2>1, <2>2 DEF PurgeType
  <2>3. CASE q = [req EXCEPT !.left = req.left \ {b}]
    <3>1. q \in PurgeType /\ q.at = req.at /\ q.derived = req.derived /\ q.known = req.known
      BY <2>1, <2>3 DEF PurgeType
    <3>2. q.left = req.left \ {b}
      BY <2>1, <2>3 DEF PurgeType
    <3> QED BY <1>1, <3>1, <3>2
  <2> QED BY <1>2, <2>2, <2>3 DEF DropVector, VectorFault
<1>5. Revoking'
  BY <1>1, <1>2, <1>4 DEF BeliefsIInv, BeliefsRest, Revoking, Used, Asserted
<1> QED BY <1>1, <1>2, <1>3, <1>4, <1>5, PurgeMoves

LEMMA DropRowOK ==
  ASSUME BeliefsIInv, DropRow
  PROVE  BeliefsIInv'
<1>1. PICK b : b = req.now
  OBVIOUS
<1>2. PICK q : q = [req EXCEPT !.at = "revoke", !.left = req.left \ {b}, !.now = NoBelief]
  OBVIOUS
<1>3. /\ req.at = "row" /\ row' = Without(b) /\ req' = q /\ vec' = vec /\ job' = job
      /\ crashed' = crashed /\ moves' = moves /\ faults' = faults
  BY <1>1, <1>2 DEF DropRow, beliefBounds
<1>4. b \in Beliefs /\ b \in req.left /\ Used(b) /\ req.derived = {}
  BY <1>1, <1>3 DEF BeliefsIInv, BeliefsRest, Revoking, BeliefsTypeOK, PurgeType
<1>5. /\ q \in PurgeType /\ q.at = "revoke" /\ q.left = req.left \ {b} /\ q.known = req.known
      /\ q.derived = {} /\ q.known \subseteq Beliefs /\ q.left \subseteq Beliefs
  BY <1>2, <1>4 DEF BeliefsIInv, BeliefsTypeOK, PurgeType
<1>6. /\ row' \in [Beliefs -> BeliefRow] /\ Frame({})
      /\ \A c \in Beliefs :
           Asserted(c)' => Asserted(c) /\ row'[c].cites \subseteq row[c].cites
  BY <1>3, <1>4, WithoutRows DEF BeliefsIInv
<1>7. BeliefsTypeOK'
  BY <1>3, <1>5, <1>6 DEF BeliefsIInv, BeliefsTypeOK
<1>8. Revoking'
  <2>1. \A c \in q.left \cup q.known : Used(c)'
    BY <1>4, <1>5, <1>6 DEF BeliefsIInv, BeliefsRest, Revoking, Frame, Tame, Used
  <2>2. ASSUME NEW c \in q.known \ q.derived, Asserted(c)' PROVE row'[c].cites \cap q.left = {}
    BY <1>4, <1>5, <1>6, <2>2 DEF BeliefsIInv, BeliefsRest, Revoking
  <2> QED BY <1>3, <1>5, <2>1, <2>2 DEF Revoking
<1> QED BY <1>3, <1>6, <1>7, <1>8, NoneMoves

LEMMA EndPurgeOK ==
  ASSUME BeliefsIInv, EndPurge
  PROVE  BeliefsIInv'
<1>1. Revoking'
  BY NoParts DEF EndPurge, Revoking
<1> QED BY <1>1, NoParts, RowsOK, PurgeMoves DEF EndPurge, beliefBounds, BeliefsIInv, BeliefsTypeOK

LEMMA ExitOK ==
  ASSUME BeliefsIInv, Exit
  PROVE  BeliefsIInv'
<1>1. /\ row' = row /\ vec' = vec /\ req' = NoPurge
      /\ crashed' /\ crashed' = TRUE /\ moves' = moves /\ faults' = faults + 1
      /\ job' = [v \in Workers |-> NoJob]
  BY DEF Exit, Fault
<1>2. BeliefsTypeOK'
  BY <1>1, RowsOK DEF BeliefsIInv, BeliefsTypeOK
<1>3. AllSound' /\ Apart'
  BY <1>1, NoParts DEF AllSound, Apart, Sound, Revising
<1>5. Revoking'
  BY <1>1, NoParts DEF Revoking
<1>6. faults' > 0
  BY <1>1 DEF BeliefsIInv, BeliefsTypeOK
<1> QED BY <1>2, <1>3, <1>5, <1>6 DEF BeliefsIInv, BeliefsRest

LEMMA NextOK == BeliefsIInv /\ [BeliefsNext]_beliefVars => BeliefsIInv'
<1> SUFFICES ASSUME BeliefsIInv, [BeliefsNext]_beliefVars PROVE BeliefsIInv'
  OBVIOUS
<1>1. CASE UNCHANGED beliefVars
  BY <1>1 DEF beliefVars, BeliefsIInv, BeliefsTypeOK, BeliefsRest, AllSound, Sound, Apart,
     Revoking, Used, Stored, Asserted
<1>2. CASE BeliefsNext
  BY <1>2, StoreEpisodeOK, CheckSourcesOK, ReviseOK, InsertOK, IndexOK, RelateOK, MarkOK,
     CompensateOK, MoveToTrashOK, RestoreOK, PatchOK, BeginPurgeOK, RevokeDerivedOK, DropVectorOK,
     DropRowOK, EndPurgeOK, ExitOK, Zenon DEF BeliefsNext
<1> QED BY <1>1, <1>2

THEOREM BeliefsInvariant == BeliefsSpec => []BeliefsIInv
BY InitOK, NextOK, PTL DEF BeliefsSpec

\* Whatever number of threads revise the same beliefs, with purges, PATCHes
\* and trips to the trash between their commits, a successor that stays has
\* replaced its predecessor, unless the process ended or two calls failed: if
\* the compensation of a failed revision fails as well, both versions stay.
THEOREM RevisionsSettle == BeliefsSpec => RevisionSettles
<1>1. ASSUME BeliefsIInv, [BeliefsNext]_beliefVars
      PROVE  \A w \in Workers :
               job[w].old # NoBelief /\ job'[w] = NoJob /\ crashed' = crashed /\ faults' <= 1 =>
                 row'[job[w].new].status \in Absent \/ row'[job[w].old].status \notin Servable
  <2> SUFFICES ASSUME NEW w \in Workers, job[w].old # NoBelief, job'[w] = NoJob,
                      crashed' = crashed, faults' <= 1
               PROVE  \/ row'[job[w].new].status \in Absent
                      \/ row'[job[w].old].status \notin Servable
    OBVIOUS
  <2>1. PICK i \in JobType : i = job[w]
    BY <1>1 DEF BeliefsIInv, BeliefsTypeOK
  <2>2. job' # job /\ i.old # NoBelief
    BY <1>1, <2>1, NoParts
  <2>3. Mark(w) \/ Compensate(w)
    <3>1. ASSUME NEW v \in Workers, NEW b \in Beliefs, NEW S \in SUBSET Beliefs,
                 StoreEpisode(v, b, S) \/ CheckSources(v, b, S)
          PROVE  FALSE
      BY <1>1, <2>1, <2>2, <3>1, Resting, NoParts DEF StoreEpisode, CheckSources, BeliefsIInv,
         BeliefsRest, BeliefsTypeOK
    <3>2. ASSUME NEW v \in Workers, NEW b \in Beliefs, NEW old \in Beliefs, Revise(v, b, old)
          PROVE  FALSE
      BY <1>1, <2>1, <2>2, <3>2, Resting, NoParts DEF Revise, BeliefsIInv, BeliefsRest,
         BeliefsTypeOK
    <3>3. ASSUME NEW v \in Workers, Insert(v) \/ Index(v) \/ Relate(v) PROVE FALSE
      <4>1. ASSUME NEW a \in {"index", "relate", "mark", "compensate"},
                   job' = [job EXCEPT ![v].at = a]
            PROVE  FALSE
        <5>1. job[v] \in JobType /\ job'[v] = [job[v] EXCEPT !.at = a]
          BY <1>1, <4>1 DEF BeliefsIInv, BeliefsTypeOK
        <5>2. job'[v].at = a
          BY <5>1, JobParts
        <5>3. v # w
          BY <1>1, <5>2, NoParts
        <5> QED BY <1>1, <2>1, <2>2, <4>1, <5>3, NoParts DEF BeliefsIInv, BeliefsTypeOK
      <4>2. CASE Insert(v) \/ Relate(v)
        BY <4>1, <4>2 DEF Insert, Relate
      <4>3. CASE Index(v) /\ job[v].old = NoBelief
        <5>1. v # w /\ job' = [job EXCEPT ![v] = NoJob]
          BY <1>1, <4>3 DEF Index, BeliefsIInv, BeliefsTypeOK
        <5> QED BY <1>1, <2>1, <2>2, <5>1, NoParts DEF BeliefsIInv, BeliefsTypeOK
      <4>4. CASE Index(v) /\ job[v].old # NoBelief
        <5>1. job' = [job EXCEPT ![v].at = "relate"]
          BY <1>1, <4>4 DEF Index, BeliefsIInv, BeliefsTypeOK
        <5> QED BY <4>1, <5>1
      <4> QED BY <3>3, <4>2, <4>3, <4>4
    <3>4. ASSUME NEW v \in Workers \ {w}, Mark(v) \/ Compensate(v) PROVE FALSE
      BY <1>1, <2>1, <2>2, <3>4, NoParts DEF Mark, Compensate, BeliefsIInv, BeliefsTypeOK
    <3>5. ~ Exit
      BY <1>1 DEF Exit, Fault, BeliefsIInv, BeliefsRest, BeliefsTypeOK
    <3>6. ASSUME NEW b \in Beliefs PROVE ~ MoveToTrash(b) /\ ~ Restore(b)
      BY <2>2 DEF MoveToTrash, Restore
    <3>7. ASSUME NEW b \in Beliefs, NEW s, NEW was PROVE ~ Patch(b, s, was)
      BY <2>2 DEF Patch
    <3>8. ASSUME NEW S PROVE ~ BeginPurge(S)
      BY <2>2 DEF BeginPurge
    <3>9. ASSUME NEW b \in Beliefs PROVE ~ RevokeDerived(b) /\ ~ DropVector(b)
      BY <2>2 DEF RevokeDerived, DropVector
    <3>10. ~ DropRow /\ ~ EndPurge
      BY <2>2 DEF DropRow, EndPurge
    <3>11. BeliefsNext
      BY <1>1, <2>2 DEF beliefVars
    <3> QED BY <3>1, <3>2, <3>3, <3>4, <3>5, <3>6, <3>7, <3>8, <3>9, <3>10, <3>11 DEF BeliefsNext
  <2>4. CASE Mark(w)
    <3>1. job'[w] # Missed(w)
      <4>1. [i EXCEPT !.at = "compensate"].at = "compensate"
        BY JobParts
      <4> QED BY <1>1, <2>1, <4>1, NoParts DEF Missed
    <3>2. row' = [row EXCEPT ![i.old].status = "superseded", ![i.old].was = i.was]
      <4>1. CASE job' = [job EXCEPT ![w] = Missed(w)]
        BY <1>1, <3>1, <4>1 DEF BeliefsIInv, BeliefsTypeOK
      <4> QED BY <2>1, <2>4, <4>1 DEF Mark
    <3>3. row[i.old] \in BeliefRow /\ i.old \in Beliefs
      <4>1. i.old \in Beliefs
        BY <2>2, JobParts
      <4> QED BY <1>1, <4>1 DEF BeliefsIInv, BeliefsTypeOK
    <3>4. row'[i.old].status = "superseded"
      BY <1>1, <3>2, <3>3 DEF BeliefRow, BeliefsIInv, BeliefsTypeOK
    <3> QED BY <2>1, <3>4 DEF Servable
  <2>5. CASE Compensate(w)
    <3>1. i.at = "compensate" /\ i.new \in Beliefs /\ Sound(i)
      <4>1. i.at = "compensate" /\ i.at \in {"index"} \cup Revising
        BY <2>1, <2>5 DEF Compensate, Revising
      <4> QED BY <1>1, <2>1, <4>1, Inserted
    <3>2. CASE row' = Without(i.new)
      <4>1. row'[i.new].status = "gone"
        BY <3>1, <3>2 DEF Without, NoRow
      <4> QED BY <2>1, <4>1 DEF Absent
    <3>3. CASE row' = row /\ ~ Stored(i.new)
      BY <2>1, <3>3 DEF Stored
    <3>4. CASE row' = row /\ faults' = faults + 1
      <4>1. ~ Stored(i.new) \/ ~ Stored(i.old)
        BY <1>1, <3>1, <3>4 DEF Sound, BeliefsIInv, BeliefsTypeOK
      <4> QED BY <2>1, <3>4, <4>1 DEF Stored, Absent, Servable
    <3> QED BY <2>1, <2>5, <3>2, <3>3, <3>4 DEF Compensate, Fault
  <2> QED BY <2>3, <2>4, <2>5
<1> QED BY <1>1, BeliefsInvariant, PTL DEF RevisionSettles, BeliefsSpec

\* Whatever workers store and revise meanwhile, a purge takes no belief that
\* one of those it knew to be active still cites and asserts.
THEOREM PurgesRevokeFirst == BeliefsSpec => RevokedFirst
<1>1. ASSUME BeliefsIInv, [BeliefsNext]_beliefVars
      PROVE  \A b \in Beliefs : Purged(b) =>
               \A c \in req.known : Asserted(c) => b \notin row[c].cites
  <2> SUFFICES ASSUME NEW b \in Beliefs, Purged(b), NEW c \in req.known, Asserted(c)
               PROVE  b \notin row[c].cites
    OBVIOUS
  <2>1. req.now = b /\ req'.now = NoBelief /\ row' # row
    BY DEF Purged, Removed, Stored, Absent
  <2>2. req' # req
    BY <2>1, NoParts
  <2>3. ASSUME NEW d \in Beliefs PROVE ~ RevokeDerived(d)
    BY <1>1, <2>1, NoParts DEF RevokeDerived, BeliefsIInv, BeliefsTypeOK, PurgeType
  <2>4. DropRow
    BY <1>1, <2>1, <2>2, <2>3 DEF BeliefsNext, beliefVars, beliefBounds, StoreEpisode,
       CheckSources, Revise, Insert,
       Index, Relate, Mark, Compensate, MoveToTrash, Restore, Patch, BeginPurge, DropVector,
       EndPurge, Exit
  <2> QED BY <1>1, <2>1, <2>4 DEF DropRow, BeliefsIInv, BeliefsRest, Revoking
<1> QED BY <1>1, BeliefsInvariant, PTL DEF RevokedFirst, BeliefsSpec
=============================================================================
