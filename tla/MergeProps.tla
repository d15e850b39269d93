----------------------------- MODULE MergeProps -----------------------------
(* What merges and their undos promise. *)
EXTENDS Merge

Idle == at = "idle"
Over(o) == journal[o].status \in {"none", "failed", "undone"}
Group(o) == DOMAIN journal[o].snap
Single == Cardinality(Started) <= 1

\* "Merge failed and was rolled back" and "undone" mean that the rows are
\* what they were: when every merge failed or was undone, in any nesting, and
\* nobody else changed a row, each row that was not purged is the initial one.
MemoriesRestored ==
  Idle /\ edits = 0 /\ (\A o \in Ops : Over(o)) =>
    \A m \in Memories : Present(m) =>
      /\ mem[m].status \in Mergeable
      /\ mem[m].tags = {m} /\ mem[m].text = 0 /\ mem[m].ops = {}
      /\ mem[m].into = NoMemory /\ mem[m].by = NoOp

\* The same for the graph (CHANGELOG.md: undoing a manual merge restores the
\* edges that re-pointing replaced and deletes none that was there): after the
\* undo of one merge the relationships are the initial ones between the rows that are left.
RestoresGraph ==
  Idle /\ Single /\ (\A o \in Ops : journal[o].status \in {"none", "undone"}) =>
    KeysOf(edges) = {k \in graph : Present(k.src) /\ Present(k.tgt)}

\* Merging re-points links: while one merge stands, every neighbour of a source
\* outside the group is a neighbour of the target (_retarget_relationships).
NeighboursKept ==
  Idle /\ Single => \A o \in Ops : journal[o].status = "completed" =>
    \A e \in edges : \A m \in {e.src, e.tgt} \cap (Group(o) \ {journal[o].target}) :
      LET t == journal[o].target
          others == {e.src, e.tgt} \ Group(o)
      IN mem[m].status = "merged" /\ mem[m].by = o /\ Present(t) =>
           \A x \in others : \E c \in edges : {c.src, c.tgt} = {t, x}

\* What merging may and may not do to the relationships.
GraphKept == RestoresGraph /\ NeighboursKept

\* undo_merge refuses while a later merge builds on the same rows: merges
\* that share a row are undone newest first. This is so while no request was
\* cut short: a process that stops inside an undo leaves a "completed" merge
\* whose rows are as before it, and an older one is no longer kept back by it.
UndoNewestFirst ==
  [][\A o \in Ops :
       crashes = 0 /\ journal[o].status = "completed" /\ journal'[o].status = "undone" =>
       \A q \in Ops : journal[q].status = "completed" /\ journal[q].no > journal[o].no =>
                        Group(q) \cap Group(o) = {}]_vars

\* "Merge cannot be undone after its target/source has changed": an undo
\* writes a row only over what the merge left there, while no other thread writes rows.
UndoOverwritesNothing ==
  [][~scene.threads /\ at = "restore" /\ run.undo /\ at' = at =>
       \A m \in run.left \ run'.left : mem[m] = journal[run.op].post[m]]_vars
=============================================================================
