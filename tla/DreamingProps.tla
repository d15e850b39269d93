---------------------------- MODULE DreamingProps ----------------------------
(* What dreaming promises: exact copies only, everything can be taken back. *)
EXTENDS Dreaming

Marks == (1..MaxRuns) \X Kinds \X SUBSET Ids
Metadata == [mark : Marks \cup {None}, into : Ids \cup {None}, pin : BOOLEAN,
             deleted : Statuses \cup {None}]
Notes == [status : Statuses, text : Texts \cup {None}, meta : Metadata,
          arch : Marks \cup {None, Elsewhere}, faded : BOOLEAN]

Item(i) ==
  /\ i.kind \in Kinds /\ i.ids \subseteq Ids
  /\ i.keep \in (IF i.kind = "duplicate" THEN i.ids ELSE {None})
  /\ i.seen \in [i.ids -> Notes]

\* A change of the journal is of an item that its run reports as applied, and
\* holds the rows it changed, before and after.
Journaled(a) ==
  /\ a.run \in DOMAIN runs /\ a.item \in DOMAIN runs[a.run]
  /\ runs[a.run][a.item] = "applied"
  /\ a.status \in {"applied", "undone"}
  /\ a.before \in [Changed(a.item) -> Notes]
  /\ a.after = [m \in Changed(a.item) |-> Applied(a.before[m], a.run, a.item)]

\* Shapes, and the tables of the journal agree: a change has one row, and each
\* applied item has its change.
TypeOK ==
  /\ mem \in [Ids -> Notes]
  /\ linked \subseteq Ids
  /\ Len(runs) \in 0..MaxRuns /\ runs \in Seq({runs[r] : r \in DOMAIN runs})
  /\ \A r \in DOMAIN runs : \A i \in DOMAIN runs[r] :
       /\ Item(i)
       /\ runs[r][i] \in {"pending", "applied", "dismissed"}
       /\ runs[r][i] = "applied" => \E a \in actions : a.run = r /\ a.item = i
  /\ \A a \in actions : Journaled(a)
  /\ \A a, b \in actions : a.run = b.run /\ a.item = b.item => a = b
  /\ DOMAIN page \subseteq Ids /\ \A m \in DOMAIN page : page[m] \in Metadata
  /\ request \in [id : Ids, status : Statuses, meta : Metadata] \cup {None}
  /\ writes \in 0..MaxWrites

\* The changes that this step makes.
Made == {a \in actions' : a.run \notin DOMAIN runs \/ runs[a.run][a.item] # "applied"}

\* An undo is the exact inverse of the change: it finds the rows as the change
\* left them and leaves them as the change found them, whatever people, decay,
\* deletions and other cycles wrote in between.
UndoIsInverse ==
  [][\A a \in actions : a \notin actions' =>
       \A m \in Changed(a.item) : mem[m] = a.after[m] /\ mem'[m] = a.before[m]]_vars

\* A merge retires only copies: their text stays with a note that is active
\* before and after and was not pinned, linked or changed since the proposal.
MergesExactCopies ==
  [][\A a \in Made : a.item.kind = "duplicate" =>
       LET k == a.item.keep IN
       /\ mem[k].status = "active" /\ mem'[k] = mem[k]
       /\ \A m \in a.item.ids :
            /\ mem[m] = a.item.seen[m]
            /\ mem[m].text = mem[k].text
            /\ ~ mem[m].meta.pin /\ m \notin linked
            /\ m # k => mem'[m].status = "merged" /\ mem'[m].meta.into = k]_vars

\* What was dismissed or undone is not done again by a later cycle on its own,
\* as long as its sources are what they were.
Refused == {a.item : a \in {b \in actions : b.status = "undone"}}
             \cup UNION {{i \in DOMAIN runs[r] : runs[r][i] = "dismissed"} : r \in DOMAIN runs}

NotReapplied ==
  [][\A a \in Made : a.run \notin DOMAIN runs =>
       ~ \E i \in Refused : i.ids = a.item.ids /\ i.kind = a.item.kind
                            /\ \A m \in i.ids : mem[m] = i.seen[m]]_vars
=============================================================================
