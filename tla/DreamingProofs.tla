--------------------------- MODULE DreamingProofs ---------------------------
(* Proofs about Dreaming, for any notes, contents and numbers of runs. *)
EXTENDS DreamingProps, TLAPS

USE DEF Statuses, Kinds

-----------------------------------------------------------------------------
(* Rows and items *)

\* What the writers make of a row is a row.
LEMMA RowsOK ==
  /\ Plain \in Metadata
  /\ \A s \in Statuses : NoRow(s) \in Notes
  /\ \A t \in Texts : Stored(t) \in Notes
BY DEF Plain, Metadata, NoRow, Stored, Notes

LEMMA AppliedOK ==
  ASSUME NEW v \in Notes, NEW r \in 1..MaxRuns, NEW i, Item(i)
  PROVE  Applied(v, r, i) \in Notes
<1>1. ActionId(r, i) \in Marks
  BY DEF ActionId, Marks, Item
<1>2. i.kind = "duplicate" => i.keep \in Ids
  BY DEF Item
<1> QED
  BY <1>1, <1>2 DEF Applied, Notes, Metadata

\* Putting status, metadata and archived_at back restores the whole row.
LEMMA UndoneApplied ==
  ASSUME NEW v \in Notes, NEW r, NEW i
  PROVE  Undone(Applied(v, r, i), v) = v
BY DEF Undone, Applied, Notes, Metadata

LEMMA AppliedMerges ==
  ASSUME NEW v \in Notes, NEW r, NEW i, i.kind = "duplicate"
  PROVE  Applied(v, r, i).status = "merged" /\ Applied(v, r, i).meta.into = i.keep
BY DEF Applied, Notes, Metadata

LEMMA FingerprintsOK ==
  ASSUME TypeOK, NEW g \in SUBSET Ids
  PROVE  Fingerprints(g) \in [g -> Notes]
BY DEF Fingerprints, TypeOK

\* A run proposes groups of copies with one of them to keep, and lapsed notes,
\* with the rows as they are.
LEMMA ProposalsOK ==
  ASSUME TypeOK, NEW kept, \A g \in Duplicates : kept[g] \in g, NEW i \in Report(kept)
  PROVE  /\ Item(i) /\ i.seen = Fingerprints(i.ids)
         /\ i.kind = "duplicate" =>
              i.ids \in Duplicates /\ i = Proposal("duplicate", i.ids, kept[i.ids])
<1>1. CASE \E g \in Duplicates : i = Proposal("duplicate", g, kept[g])
  <2>1. PICK g \in Duplicates : i = Proposal("duplicate", g, kept[g])
    BY <1>1
  <2>2. g \in SUBSET Ids
    BY <2>1 DEF Duplicates, Copies, Active
  <2>3. Fingerprints(g) \in [g -> Notes]
    BY <2>2, FingerprintsOK
  <2> QED
    BY <2>1, <2>2, <2>3 DEF Proposal, Item
<1>2. CASE \E g \in Lapsed : i = Proposal("expired", g, None)
  <2>1. PICK g \in Lapsed : i = Proposal("expired", g, None)
    BY <1>2
  <2>2. g \in SUBSET Ids
    BY <2>1 DEF Lapsed, Active
  <2>3. Fingerprints(g) \in [g -> Notes]
    BY <2>2, FingerprintsOK
  <2> QED
    BY <2>1, <2>2, <2>3 DEF Proposal, Item
<1> QED
  BY <1>1, <1>2 DEF Report

\* Groups of copies are classes: two that share a note are the same.
LEMMA GroupsDisjoint ==
  ASSUME NEW g \in Duplicates, NEW h \in Duplicates, NEW m \in g, m \in h
  PROVE  g = h
BY DEF Duplicates, Copies

LEMMA OneItemPerNote ==
  ASSUME TypeOK, NEW kept, \A g \in Duplicates : kept[g] \in g,
         NEW i \in Merged(kept), NEW j \in Merged(kept), NEW m \in i.ids, m \in j.ids
  PROVE  i = j
<1>1. i \in Report(kept) /\ j \in Report(kept) /\ i.kind = "duplicate" /\ j.kind = "duplicate"
  BY DEF Merged
<1>2. i.ids = j.ids
  BY <1>1, ProposalsOK, GroupsDisjoint
<1> QED
  BY <1>1, <1>2, ProposalsOK

LEMMA ChangedOK ==
  ASSUME NEW i, Item(i)
  PROVE  Changed(i) \subseteq i.ids /\ Changed(i) \subseteq Ids
BY DEF Changed, Item

-----------------------------------------------------------------------------
(* Type correctness *)

\* The three parts of the state that TypeOK relates.
RowsType == mem \in [Ids -> Notes]

ReportsType ==
  /\ Len(runs) \in 0..MaxRuns /\ runs \in Seq({runs[r] : r \in DOMAIN runs})
  /\ \A r \in DOMAIN runs : \A i \in DOMAIN runs[r] :
       /\ Item(i)
       /\ runs[r][i] \in {"pending", "applied", "dismissed"}

JournalType ==
  /\ \A r \in DOMAIN runs : \A i \in DOMAIN runs[r] :
       runs[r][i] = "applied" => \E a \in actions : a.run = r /\ a.item = i
  /\ \A a \in actions : Journaled(a)
  /\ \A a, b \in actions : a.run = b.run /\ a.item = b.item => a = b

WritersType ==
  /\ linked \subseteq Ids
  /\ DOMAIN page \subseteq Ids /\ \A m \in DOMAIN page : page[m] \in Metadata
  /\ request \in [id : Ids, status : Statuses, meta : Metadata] \cup {None}
  /\ writes \in 0..MaxWrites

LEMMA TypeParts == TypeOK <=> RowsType /\ ReportsType /\ JournalType /\ WritersType
BY DEF TypeOK, RowsType, ReportsType, JournalType, WritersType

\* A report is added after the others.
LEMMA AppendReport ==
  ASSUME NEW S, NEW s \in Seq(S), NEW e
  PROVE  /\ DOMAIN Append(s, e) = 1..Len(s) + 1 /\ Len(Append(s, e)) = Len(s) + 1
         /\ DOMAIN s = 1..Len(s) /\ Len(s) \in Nat
         /\ Append(s, e)[Len(s) + 1] = e
         /\ \A r \in 1..Len(s) : Append(s, e)[r] = s[r]
         /\ Append(s, e) \in Seq({Append(s, e)[r] : r \in DOMAIN Append(s, e)})
<1> DEFINE t == Append(s, e)  T == {t[r] : r \in DOMAIN t}
<1>1. s \in Seq(S \cup {e}) /\ e \in S \cup {e}
  OBVIOUS
<1>2. /\ t \in Seq(S \cup {e}) /\ Len(t) = Len(s) + 1 /\ t[Len(s) + 1] = e
      /\ \A r \in 1..Len(s) : t[r] = s[r]
  BY <1>1
<1> HIDE DEF t
<1>3. t \in Seq(T)
  BY <1>2
<1> QED
  BY <1>1, <1>2, <1>3 DEF t

\* Applying items to their rows gives rows, and journals them.
LEMMA ApplyingOK ==
  ASSUME TypeOK, NEW s, NEW r \in 1..MaxRuns, \A i \in s : Item(i), Applying(s, r)
  PROVE  /\ RowsType'
         /\ \A i \in s : /\ Action(r, i).before \in [Changed(i) -> Notes]
                         /\ Action(r, i).after = [m \in Changed(i) |->
                                  Applied(Action(r, i).before[m], r, i)]
<1>1. ASSUME NEW m \in Ids, \E i \in s : m \in Changed(i)
      PROVE  Applied(mem[m], r, CHOOSE i \in s : m \in Changed(i)) \in Notes
  <2> DEFINE i == CHOOSE i \in s : m \in Changed(i)
  <2>1. i \in s
    BY <1>1
  <2>2. mem[m] \in Notes
    BY DEF TypeOK
  <2> HIDE DEF i
  <2>3. Applied(mem[m], r, i) \in Notes
    BY <2>1, <2>2, AppliedOK
  <2> QED
    BY <2>3 DEF i
<1>2. \A i \in s : \A m \in Changed(i) : mem[m] \in Notes
  BY ChangedOK DEF TypeOK
<1> QED
  BY <1>1, <1>2 DEF Applying, RowsType, TypeOK, Action

\* Only rows, as a writer leaves them.
LEMMA RowWritten ==
  ASSUME TypeOK, NEW m \in Ids, NEW v \in Notes, mem' = [mem EXCEPT ![m] = v]
  PROVE  RowsType'
BY DEF TypeOK, RowsType

LEMMA SeqOver ==
  ASSUME NEW X, NEW T, NEW t \in Seq(X), \A q \in DOMAIN t : t[q] \in T
  PROVE  t \in Seq(T)
OBVIOUS

\* A resolution changes one item of one report.
LEMMA ResolvedOK ==
  ASSUME TypeOK, NEW r \in DOMAIN runs, NEW i \in DOMAIN runs[r],
         NEW v \in {"pending", "applied", "dismissed"}, runs' = [runs EXCEPT ![r][i] = v]
  PROVE  /\ ReportsType' /\ DOMAIN runs' = DOMAIN runs
         /\ \A q \in DOMAIN runs : DOMAIN runs'[q] = DOMAIN runs[q]
         /\ \A q \in DOMAIN runs : \A j \in DOMAIN runs[q] :
              runs'[q][j] = IF q = r /\ j = i THEN v ELSE runs[q][j]
<1>1. runs \in Seq({runs[q] : q \in DOMAIN runs}) /\ Len(runs) \in 0..MaxRuns
  BY DEF TypeOK
<1> DEFINE e == [runs[r] EXCEPT ![i] = v]
<1>2. runs' = [runs EXCEPT ![r] = e]
  OBVIOUS
<1>3. runs \in Seq({runs[q] : q \in DOMAIN runs} \cup {e})
  BY <1>1
<1>4. runs' \in Seq({runs[q] : q \in DOMAIN runs} \cup {e})
      /\ Len(runs') = Len(runs) /\ DOMAIN runs' = DOMAIN runs
      /\ \A q \in DOMAIN runs : runs'[q] = IF q = r THEN e ELSE runs[q]
  BY <1>1, <1>2, <1>3
<1>5. /\ \A q \in DOMAIN runs : DOMAIN runs'[q] = DOMAIN runs[q]
      /\ \A q \in DOMAIN runs : \A j \in DOMAIN runs[q] :
           runs'[q][j] = IF q = r /\ j = i THEN v ELSE runs[q][j]
  BY <1>4
<1> HIDE DEF e
<1>6. runs' \in Seq({runs'[q] : q \in DOMAIN runs'})
  <2> DEFINE T == {runs'[q] : q \in DOMAIN runs'}
             X == {runs[q] : q \in DOMAIN runs} \cup {e}
  <2>1. \A q \in DOMAIN runs' : runs'[q] \in T
    OBVIOUS
  <2>2. runs' \in Seq(X)
    BY <1>4
  <2> HIDE DEF T, X
  <2>3. runs' \in Seq(T)
    BY <2>1, <2>2, SeqOver
  <2> QED
    BY <2>3 DEF T
<1> QED
  BY <1>1, <1>4, <1>5, <1>6 DEF ReportsType, TypeOK

LEMMA JournalKept ==
  ASSUME TypeOK, UNCHANGED journal
  PROVE  ReportsType' /\ JournalType'
BY TypeParts DEF journal, ReportsType, JournalType, Journaled

\* A run journals what it merges and reports everything it found.
LEMMA RunOK ==
  ASSUME TypeOK, NEW kept, \A g \in Duplicates : kept[g] \in g, Run(kept)
  PROVE  TypeOK'
<1> DEFINE r == Len(runs) + 1
           report == Report(kept)
           merged == Merged(kept)
           new == [i \in report |-> IF i \in merged THEN "applied" ELSE "pending"]
<1>1. /\ r \in 1..MaxRuns /\ Applying(merged, r) /\ runs' = Append(runs, new)
      /\ UNCHANGED <<linked, dismissals, page, request, writes>>
  BY DreamingAssumption DEF Run, TypeOK
<1>2. /\ DOMAIN runs = 1..Len(runs) /\ Len(runs) \in Nat
      /\ DOMAIN runs' = 1..r /\ Len(runs') = r /\ runs'[r] = new
      /\ \A q \in 1..Len(runs) : runs'[q] = runs[q]
      /\ runs' \in Seq({runs'[q] : q \in DOMAIN runs'})
  <2>1. runs \in Seq({runs[q] : q \in DOMAIN runs})
    BY DEF TypeOK
  <2> HIDE DEF new
  <2> QED
    BY <1>1, <2>1, AppendReport
<1>3. \A i \in report : Item(i)
  BY ProposalsOK
<1>4. merged \subseteq report
  BY DEF Merged
<1>5. RowsType' /\ \A i \in merged :
        /\ Action(r, i).before \in [Changed(i) -> Notes]
        /\ Action(r, i).after = [m \in Changed(i) |-> Applied(Action(r, i).before[m], r, i)]
  <2>1. \A i \in merged : Item(i)
    BY <1>3, <1>4
  <2> HIDE DEF r, merged
  <2> QED
    BY <1>1, <2>1, ApplyingOK
<1>6. \A i \in report : new[i] = IF i \in merged THEN "applied" ELSE "pending"
  OBVIOUS
<1>7. DOMAIN new = report
  OBVIOUS
<1> HIDE DEF report, merged, new
<1>8. ReportsType'
  <2>1. \A q \in DOMAIN runs' : q \in DOMAIN runs \/ q = r
    BY <1>2
  <2>2. r \in 0..MaxRuns
    BY <1>1
  <2> QED
    BY <1>2, <1>3, <1>6, <1>7, <2>1, <2>2 DEF ReportsType, TypeOK
<1>9. \A i \in merged : LET a == Action(r, i) IN a.run = r /\ a.item = i /\ a.status = "applied"
  BY DEF Action
<1>10. actions' = actions \cup {Action(r, i) : i \in merged}
  BY <1>1 DEF Applying
<1>11. \A a \in actions : a.run \in DOMAIN runs /\ a.run # r
  <2>1. \A a \in actions : a.run \in DOMAIN runs
    BY DEF TypeOK, Journaled
  <2> QED
    BY <1>2, <2>1
<1>12. JournalType'
  <2>1. ASSUME NEW a \in actions' PROVE Journaled(a)'
    <3>1. CASE a \in actions
      <4>1. Journaled(a) /\ a.run \in DOMAIN runs /\ a.run \in 1..Len(runs)
        BY <3>1, <1>2 DEF TypeOK, Journaled
      <4>2. runs'[a.run] = runs[a.run] /\ a.run \in DOMAIN runs'
        BY <4>1, <1>2
      <4> QED
        BY <4>1, <4>2 DEF Journaled
    <3>2. ASSUME NEW i \in merged, a = Action(r, i) PROVE Journaled(a)'
      BY <3>2, <1>1, <1>2, <1>4, <1>5, <1>6, <1>7, <1>9 DEF Journaled
    <3> QED
      BY <3>1, <3>2, <1>10
  <2>2. ASSUME NEW q \in DOMAIN runs', NEW i \in DOMAIN runs'[q], runs'[q][i] = "applied"
        PROVE  \E a \in actions' : a.run = q /\ a.item = i
    <3>1. CASE q = r
      <4>1. i \in merged
        BY <1>2, <1>6, <1>7, <2>2, <3>1
      <4> QED
        BY <4>1, <3>1, <1>9, <1>10
    <3>2. CASE q # r
      <4>1. q \in DOMAIN runs /\ runs'[q] = runs[q]
        BY <1>2, <3>2
      <4> QED
        BY <2>2, <4>1, <1>10 DEF TypeOK
    <3> QED
      BY <3>1, <3>2
  <2>3. ASSUME NEW a \in actions', NEW b \in actions', a.run = b.run, a.item = b.item
        PROVE  a = b
    BY <2>3, <1>9, <1>10, <1>11 DEF TypeOK
  <2> QED
    BY <2>1, <2>2, <2>3 DEF JournalType
<1>13. WritersType'
  BY <1>1 DEF WritersType, TypeOK
<1> QED
  BY <1>5, <1>8, <1>12, <1>13 DEF TypeOK, RowsType, ReportsType, JournalType, WritersType

\* A review journals the item that it resolves.
LEMMA ReviewOK ==
  ASSUME TypeOK, NEW r \in DOMAIN runs, NEW i \in DOMAIN runs[r], Review(r, i)
  PROVE  TypeOK'
<1>1. /\ runs[r][i] = "pending" /\ Applying({i}, r)
      /\ runs' = [runs EXCEPT ![r][i] = "applied"]
      /\ UNCHANGED <<linked, dismissals, page, request, writes>>
  BY DEF Review, Resolve
<1>2. Item(i) /\ Len(runs) \in 0..MaxRuns /\ DOMAIN runs = 1..Len(runs)
  BY DEF TypeOK
<1>3. r \in 1..MaxRuns
  BY <1>2, DreamingAssumption
<1>4. RowsType' /\ Action(r, i).before \in [Changed(i) -> Notes]
      /\ Action(r, i).after = [m \in Changed(i) |-> Applied(Action(r, i).before[m], r, i)]
  <2>1. \A j \in {i} : Item(j)
    BY <1>2
  <2> QED
    BY <1>1, <1>3, <2>1, ApplyingOK
<1>5. /\ ReportsType' /\ DOMAIN runs' = DOMAIN runs
      /\ \A q \in DOMAIN runs : DOMAIN runs'[q] = DOMAIN runs[q]
      /\ \A q \in DOMAIN runs : \A j \in DOMAIN runs[q] :
           runs'[q][j] = IF q = r /\ j = i THEN "applied" ELSE runs[q][j]
  BY <1>1, ResolvedOK
<1>6. LET a == Action(r, i) IN a.run = r /\ a.item = i /\ a.status = "applied"
  BY DEF Action
<1>7. actions' = actions \cup {Action(r, i)}
  BY <1>1 DEF Applying
<1>8. \A a \in actions : ~ (a.run = r /\ a.item = i)
  BY <1>1 DEF TypeOK, Journaled
<1>9. JournalType'
  <2>1. ASSUME NEW a \in actions PROVE Journaled(a)'
    <3>1. Journaled(a) /\ a.run \in DOMAIN runs /\ a.item \in DOMAIN runs[a.run]
      BY <2>1 DEF TypeOK, Journaled
    <3> QED
      BY <3>1, <1>5 DEF Journaled
  <2>2. ASSUME NEW a, a = Action(r, i) PROVE Journaled(a)'
    BY <2>2, <1>4, <1>5, <1>6 DEF Journaled
  <2>3. \A q \in DOMAIN runs' : \A j \in DOMAIN runs'[q] :
          runs'[q][j] = "applied" => \E a \in actions' : a.run = q /\ a.item = j
    BY <1>5, <1>6, <1>7 DEF TypeOK
  <2>4. \A a, b \in actions' : a.run = b.run /\ a.item = b.item => a = b
    BY <1>6, <1>7, <1>8 DEF TypeOK
  <2> QED
    BY <2>1, <2>2, <2>3, <2>4, <1>7 DEF JournalType
<1>10. WritersType'
  BY <1>1 DEF WritersType, TypeOK
<1> QED
  BY <1>4, <1>5, <1>9, <1>10 DEF TypeOK, RowsType, ReportsType, JournalType, WritersType

LEMMA DismissOK ==
  ASSUME TypeOK, NEW r \in DOMAIN runs, NEW i \in DOMAIN runs[r], Dismiss(r, i)
  PROVE  TypeOK'
<1>1. /\ runs[r][i] = "pending" /\ runs' = [runs EXCEPT ![r][i] = "dismissed"]
      /\ UNCHANGED <<mem, linked, actions, page, request, writes>>
  BY DEF Dismiss, Resolve
<1>2. /\ ReportsType' /\ DOMAIN runs' = DOMAIN runs
      /\ \A q \in DOMAIN runs : DOMAIN runs'[q] = DOMAIN runs[q]
      /\ \A q \in DOMAIN runs : \A j \in DOMAIN runs[q] :
           runs'[q][j] = IF q = r /\ j = i THEN "dismissed" ELSE runs[q][j]
  BY <1>1, ResolvedOK
<1>3. JournalType'
  <2>1. ASSUME NEW a \in actions PROVE Journaled(a)'
    <3>1. Journaled(a) /\ a.run \in DOMAIN runs /\ a.item \in DOMAIN runs[a.run]
          /\ runs[a.run][a.item] = "applied"
      BY <2>1 DEF TypeOK, Journaled
    <3> QED
      BY <3>1, <1>1, <1>2 DEF Journaled
  <2>2. \A q \in DOMAIN runs' : \A j \in DOMAIN runs'[q] :
          runs'[q][j] = "applied" => \E a \in actions' : a.run = q /\ a.item = j
    BY <1>1, <1>2 DEF TypeOK
  <2> QED
    BY <2>1, <2>2, <1>1 DEF JournalType, TypeOK
<1>4. RowsType' /\ WritersType'
  BY <1>1 DEF TypeOK, RowsType, WritersType
<1> QED
  BY <1>2, <1>3, <1>4 DEF TypeOK, RowsType, ReportsType, JournalType, WritersType

LEMMA UndoOK ==
  ASSUME TypeOK, NEW a \in actions, Undo(a)
  PROVE  TypeOK'
<1> DEFINE b == [a EXCEPT !.status = "undone"]
<1>1. Journaled(a)
  BY DEF TypeOK
<1>2. /\ actions' = (actions \ {a}) \cup {b}
      /\ UNCHANGED <<linked, runs, page, request, writes>>
      /\ \A m \in DOMAIN a.after : mem[m] = a.after[m]
      /\ mem' = [m \in Ids |-> IF m \in DOMAIN a.after THEN Undone(mem[m], a.before[m])
                                 ELSE mem[m]]
  BY DEF Undo
<1>3. RowsType'
  <2>1. ASSUME NEW m \in DOMAIN a.after PROVE Undone(mem[m], a.before[m]) \in Notes
    BY <1>1, <1>2, <2>1, UndoneApplied DEF Journaled
  <2> QED
    BY <1>2, <2>1 DEF RowsType, TypeOK
<1>4. b.run = a.run /\ b.item = a.item /\ b.before = a.before /\ b.after = a.after
      /\ b.status = "undone"
  OBVIOUS
<1> HIDE DEF b
<1>5. JournalType'
  BY <1>1, <1>2, <1>4 DEF JournalType, TypeOK, Journaled
<1> QED
  BY <1>2, <1>3, <1>5 DEF TypeOK, RowsType, ReportsType, JournalType, WritersType

\* Writers other than dreaming leave the journal alone and rows well formed.
LEMMA WritersOK ==
  ASSUME TypeOK,
         \/ \E m \in Ids, t \in Texts : Store(m, t)
         \/ \E m \in Ids : \/ Edit(m) \/ SetStatus(m) \/ Purge(m)
                           \/ Relate(m) \/ ReadRow(m)
         \/ SoftDelete \/ Restore \/ ReadPage \/ Crash
         \/ \E m \in DOMAIN page : Fade(m)
  PROVE  TypeOK'
<1>1. /\ mem \in [Ids -> Notes] /\ \A m \in Ids : mem[m].meta \in Metadata
      /\ \A m \in DOMAIN page : m \in Ids /\ page[m] \in Metadata
      /\ writes \in Nat /\ MaxWrites \in Nat
  BY DreamingAssumption DEF TypeOK, Notes
<1>2. ReportsType' /\ JournalType'
  <2>1. UNCHANGED journal
    BY DEF Store, Edit, SetStatus, Purge, Relate, ReadRow, SoftDelete, Restore, ReadPage, Fade,
           Crash, journal
  <2> QED
    BY <2>1, JournalKept
<1>3. Write => writes' \in 0..MaxWrites
  BY <1>1 DEF Write
<1>4. ASSUME NEW m \in Ids, NEW t \in Texts, Store(m, t) PROVE RowsType' /\ WritersType'
  BY <1>1, <1>3, <1>4, RowsOK DEF Store, RowsType, WritersType, TypeOK
<1>5. ASSUME NEW m \in Ids, Edit(m) PROVE RowsType' /\ WritersType'
  <2>1. \A p \in BOOLEAN, d \in Metadata : [d EXCEPT !.pin = p] \in Metadata
    BY DEF Metadata
  <2>2. ASSUME \E t \in Texts : mem' = [mem EXCEPT ![m].text = t] PROVE RowsType'
    <3>1. PICK t \in Texts : mem' = [mem EXCEPT ![m] = [mem[m] EXCEPT !.text = t]]
      BY <2>2
    <3> DEFINE v == [mem[m] EXCEPT !.text = t]
    <3>2. v \in Notes
      BY <1>1 DEF Notes
    <3> HIDE DEF v
    <3>3. mem' = [mem EXCEPT ![m] = v]
      BY <3>1 DEF v
    <3> QED
      BY <3>2, <3>3, RowWritten
  <2>3. ASSUME \E p \in BOOLEAN, d \in {mem[m].meta, Plain} :
                 mem' = [mem EXCEPT ![m].meta = [d EXCEPT !.pin = p]]
        PROVE  RowsType'
    <3>1. PICK p \in BOOLEAN, d \in {mem[m].meta, Plain} :
            mem' = [mem EXCEPT ![m] = [mem[m] EXCEPT !.meta = [d EXCEPT !.pin = p]]]
      BY <2>3
    <3>2. [d EXCEPT !.pin = p] \in Metadata
      BY <1>1, <2>1, RowsOK
    <3> DEFINE v == [mem[m] EXCEPT !.meta = [d EXCEPT !.pin = p]]
    <3>3. v \in Notes
      BY <1>1, <3>2 DEF Notes
    <3>4. mem' = [mem EXCEPT ![m] = v]
      BY <3>1
    <3> HIDE DEF v
    <3> QED
      BY <3>3, <3>4, RowWritten
  <2> QED
    BY <1>3, <1>5, <2>2, <2>3 DEF Edit, RowsType, WritersType, TypeOK
<1>6. ASSUME NEW m \in Ids, SetStatus(m) PROVE RowsType' /\ WritersType'
  <2>1. RowsType'
    BY <1>1, <1>6 DEF SetStatus, RowsType, Notes
  <2> QED
    BY <1>3, <1>6, <2>1 DEF SetStatus, WritersType, TypeOK
<1>7. ASSUME NEW m \in Ids, Purge(m) PROVE RowsType' /\ WritersType'
  BY <1>1, <1>3, <1>7, RowsOK DEF Purge, RowsType, WritersType, TypeOK
<1>8. ASSUME NEW m \in Ids, Relate(m) PROVE RowsType' /\ WritersType'
  BY <1>3, <1>8 DEF Relate, RowsType, WritersType, TypeOK
<1>9. ASSUME NEW m \in Ids, ReadRow(m) PROVE RowsType' /\ WritersType'
  BY <1>1, <1>3, <1>9 DEF ReadRow, RowsType, WritersType, TypeOK, Notes
<1>10. ASSUME SoftDelete PROVE RowsType' /\ WritersType'
  <2>1. request \in [id : Ids, status : Statuses, meta : Metadata]
    BY <1>10 DEF SoftDelete, TypeOK
  <2>2. [request.meta EXCEPT !.deleted = request.status] \in Metadata
    BY <2>1 DEF Metadata
  <2> DEFINE v == [mem[request.id] EXCEPT !.status = "deleted",
                     !.meta = [request.meta EXCEPT !.deleted = request.status]]
  <2>3. request.id \in Ids /\ mem[request.id] \in Notes
    BY <1>1, <2>1
  <2>4. v \in Notes
    BY <2>2, <2>3 DEF Notes
  <2>5. mem' = mem \/ mem' = [mem EXCEPT ![request.id] = v]
    BY <1>10 DEF SoftDelete
  <2> HIDE DEF v
  <2>6. RowsType'
    BY <1>1, <2>3, <2>4, <2>5, RowWritten DEF RowsType
  <2> QED
    BY <1>10, <2>6 DEF SoftDelete, WritersType, TypeOK
<1>11. ASSUME Restore PROVE RowsType' /\ WritersType'
  <2>1. request \in [id : Ids, status : Statuses, meta : Metadata]
    BY <1>11 DEF Restore, TypeOK
  <2>2. [request.meta EXCEPT !.deleted = None] \in Metadata
    BY <2>1 DEF Metadata
  <2> DEFINE s == IF request.meta.deleted = "archived" THEN "archived" ELSE "active"
  <2> DEFINE a == IF s = "active" THEN None
                  ELSE IF mem[request.id].arch = None THEN Elsewhere
                  ELSE mem[request.id].arch
  <2> DEFINE v == [mem[request.id] EXCEPT !.status = s,
                     !.meta = [request.meta EXCEPT !.deleted = None], !.arch = a]
  <2>3. request.id \in Ids /\ mem[request.id] \in Notes
    BY <1>1, <2>1
  <2>4. s \in Statuses /\ a \in Marks \cup {None, Elsewhere}
    BY <2>3 DEF Statuses, Notes
  <2>5. mem' = mem \/ mem' = [mem EXCEPT ![request.id] = v]
    BY <1>11 DEF Restore
  <2> HIDE DEF s, a
  <2>6. v \in Notes
    BY <2>2, <2>3, <2>4 DEF Notes
  <2> HIDE DEF v
  <2>7. RowsType'
    BY <1>1, <2>3, <2>5, <2>6, RowWritten DEF RowsType
  <2> QED
    BY <1>11, <2>7 DEF Restore, WritersType, TypeOK
<1>12. ASSUME ReadPage PROVE RowsType' /\ WritersType'
  BY <1>1, <1>3, <1>12 DEF ReadPage, Active, RowsType, WritersType, TypeOK
<1>13. ASSUME NEW m \in DOMAIN page, Fade(m) PROVE RowsType' /\ WritersType'
  <2> DEFINE v == [mem[m] EXCEPT !.faded = TRUE, !.meta = page[m]]
  <2>1. m \in Ids /\ page[m] \in Metadata /\ mem[m] \in Notes
    BY <1>1 DEF TypeOK
  <2>2. v \in Notes
    BY <2>1 DEF Notes
  <2>3. mem' = mem \/ mem' = [mem EXCEPT ![m] = v]
    BY <1>1, <1>13, <2>1 DEF Fade, RowsType
  <2> HIDE DEF v
  <2>4. RowsType'
    BY <1>1, <2>1, <2>2, <2>3, RowWritten DEF RowsType
  <2>5. /\ page' = [n \in DOMAIN page \ {m} |-> page[n]]
        /\ linked' = linked /\ request' = request /\ writes' = writes
    BY <1>13 DEF Fade
  <2>6. DOMAIN page' \subseteq Ids /\ \A n \in DOMAIN page' : page'[n] \in Metadata
    BY <1>1, <2>5
  <2>7. WritersType'
    BY <2>5, <2>6 DEF WritersType, TypeOK
  <2> QED
    BY <2>4, <2>7
<1>14. ASSUME Crash PROVE RowsType' /\ WritersType'
  BY <1>14 DEF Crash, RowsType, WritersType, TypeOK
<1>15. RowsType' /\ WritersType'
  BY <1>4, <1>5, <1>6, <1>7, <1>8, <1>9, <1>10, <1>11, <1>12, <1>13, <1>14
<1> QED
  BY <1>2, <1>15 DEF TypeOK, RowsType, ReportsType, JournalType, WritersType

\* Rows keep their shape and the tables of the journal agree, whichever runs,
\* reviews, undos and writes interleave: each applied item has one change.
THEOREM TypeCorrect == Spec => []TypeOK
<1>1. Init => TypeOK
  BY RowsOK, DreamingAssumption DEF Init, TypeOK
<1>2. TypeOK /\ [Next]_vars => TypeOK'
  <2> SUFFICES ASSUME TypeOK, [Next]_vars PROVE TypeOK'
    OBVIOUS
  <2>1. CASE UNCHANGED vars
    <3>1. UNCHANGED journal /\ RowsType' /\ WritersType'
      BY <2>1 DEF vars, journal, RowsType, WritersType, TypeOK
    <3> QED
      BY <3>1, JournalKept DEF TypeOK, RowsType, ReportsType, JournalType, WritersType
  <2> QED
    BY <2>1, RunOK, ReviewOK, DismissOK, UndoOK, WritersOK DEF Next
<1> QED
  BY <1>1, <1>2, PTL DEF Spec

-----------------------------------------------------------------------------
(* Undo *)

\* A change leaves the journal only when it is undone, and finds the rows as it
\* left them: an undo is the exact inverse of the change.
THEOREM Inverse == Spec => UndoIsInverse
<1>1. TypeOK /\ [Next]_vars =>
        [\A a \in actions : a \notin actions' =>
           \A m \in Changed(a.item) : mem[m] = a.after[m] /\ mem'[m] = a.before[m]]_vars
  <2> SUFFICES ASSUME TypeOK, [Next]_vars, NEW a \in actions, a \notin actions',
                      NEW m \in Changed(a.item)
               PROVE  mem[m] = a.after[m] /\ mem'[m] = a.before[m]
    OBVIOUS
  <2>1. Undo(a)
    <3>1. ASSUME NEW kept, Run(kept) PROVE actions \subseteq actions'
      BY <3>1 DEF Run, Applying
    <3>2. ASSUME NEW r, NEW i, Review(r, i) \/ Dismiss(r, i) PROVE actions \subseteq actions'
      BY <3>2 DEF Review, Dismiss, Applying
    <3>3. ASSUME NEW b \in actions, Undo(b), b # a PROVE a \in actions'
      BY <3>3 DEF Undo
    <3> QED
      BY <3>1, <3>2, <3>3 DEF Next, vars, journal, Store, Edit, SetStatus, Purge, Relate,
           ReadRow, SoftDelete, Restore, ReadPage, Fade, Crash
  <2>2. Journaled(a)
    BY DEF TypeOK
  <2>3. /\ m \in DOMAIN a.after /\ m \in Ids /\ a.before[m] \in Notes
        /\ a.after[m] = Applied(a.before[m], a.run, a.item)
    BY <2>2, ChangedOK DEF TypeOK, Journaled
  <2> QED
    BY <2>1, <2>3, UndoneApplied DEF Undo
<1> QED
  BY <1>1, TypeCorrect, PTL DEF Spec, UndoIsInverse

-----------------------------------------------------------------------------
(* Refusals are remembered *)

Remembered == \A i \in Refused : Signature(i) \in dismissals

\* The new items of the journal, in a step of a run and of a review.
LEMMA RunMakes ==
  ASSUME TypeOK, NEW kept, \A g \in Duplicates : kept[g] \in g, Run(kept)
  PROVE  /\ Len(runs) + 1 \notin DOMAIN runs
         /\ \A q \in DOMAIN runs' : \/ q \in DOMAIN runs /\ runs'[q] = runs[q]
                                   \/ /\ q = Len(runs) + 1 /\ DOMAIN runs'[q] = Report(kept)
                                      /\ \A i \in DOMAIN runs'[q] : runs'[q][i] # "dismissed"
         /\ actions' = actions \cup {Action(Len(runs) + 1, i) : i \in Merged(kept)}
         /\ mem' = [m \in Ids |-> IF \E i \in Merged(kept) : m \in Changed(i)
                    THEN Applied(mem[m], Len(runs) + 1,
                                 CHOOSE i \in Merged(kept) : m \in Changed(i))
                    ELSE mem[m]]
<1> DEFINE new == [i \in Report(kept) |-> IF i \in Merged(kept) THEN "applied" ELSE "pending"]
<1>1. Applying(Merged(kept), Len(runs) + 1) /\ runs' = Append(runs, new)
  BY DEF Run
<1>2. runs \in Seq({runs[q] : q \in DOMAIN runs})
  BY DEF TypeOK
<1>3. DOMAIN new = Report(kept) /\ \A i \in DOMAIN new : new[i] # "dismissed"
  OBVIOUS
<1> HIDE DEF new
<1>4. /\ DOMAIN runs = 1..Len(runs) /\ Len(runs) \in Nat
      /\ DOMAIN runs' = 1..Len(runs) + 1 /\ runs'[Len(runs) + 1] = new
      /\ \A q \in 1..Len(runs) : runs'[q] = runs[q]
  BY <1>1, <1>2, AppendReport
<1> QED
  BY <1>1, <1>3, <1>4 DEF Applying

LEMMA Remembers ==
  ASSUME TypeOK, Remembered, [Next]_vars
  PROVE  Remembered'
<1>1. ASSUME NEW kept, \A g \in Duplicates : kept[g] \in g, Run(kept)
      PROVE  Remembered'
  <2>1. Refused' \subseteq Refused /\ UNCHANGED dismissals
    BY <1>1, RunMakes DEF Refused, Action, Run
  <2> QED
    BY <2>1 DEF Remembered, Signature
<1>2. ASSUME NEW r \in DOMAIN runs, NEW i \in DOMAIN runs[r], Review(r, i)
      PROVE  Remembered'
  <2>1. runs' = [runs EXCEPT ![r][i] = "applied"] /\ UNCHANGED dismissals
        /\ actions' = actions \cup {Action(r, i)} /\ Action(r, i).status = "applied"
    BY <1>2 DEF Review, Resolve, Applying, Action
  <2>2. Refused' \subseteq Refused
    BY <2>1, ResolvedOK DEF Refused
  <2> QED
    BY <2>1, <2>2 DEF Remembered, Signature
<1>3. ASSUME NEW r \in DOMAIN runs, NEW i \in DOMAIN runs[r], Dismiss(r, i)
      PROVE  Remembered'
  <2>1. /\ runs' = [runs EXCEPT ![r][i] = "dismissed"] /\ UNCHANGED actions
        /\ dismissals' = dismissals \cup {Signature(i)}
    BY <1>3 DEF Dismiss, Resolve
  <2>2. Refused' \subseteq Refused \cup {i}
    BY <2>1, ResolvedOK DEF Refused
  <2> QED
    BY <2>1, <2>2 DEF Remembered, Signature
<1>4. ASSUME NEW a \in actions, Undo(a) PROVE Remembered'
  <2>1. /\ UNCHANGED runs /\ dismissals' = dismissals \cup {Signature(a.item)}
        /\ actions' = (actions \ {a}) \cup {[a EXCEPT !.status = "undone"]}
    BY <1>4 DEF Undo
  <2> DEFINE b == [a EXCEPT !.status = "undone"]
  <2>3. b.item = a.item
    OBVIOUS
  <2> HIDE DEF b
  <2>4. actions' = (actions \ {a}) \cup {b}
    BY <2>1 DEF b
  <2>2. Refused' \subseteq Refused \cup {a.item}
    BY <2>1, <2>3, <2>4 DEF Refused
  <2> QED
    BY <2>1, <2>2 DEF Remembered, Signature
<1>5. CASE UNCHANGED journal
  <2>1. Refused' = Refused /\ UNCHANGED dismissals
    BY <1>5 DEF journal, Refused
  <2> QED
    BY <2>1 DEF Remembered, Signature
<1> QED
  BY <1>1, <1>2, <1>3, <1>4, <1>5 DEF Next, vars, journal, Store, Edit, SetStatus, Purge, Relate,
     ReadRow, SoftDelete, Restore, ReadPage, Fade, Crash

\* What was dismissed or undone is in the dismissals under its signature, so a
\* later run does not take it up while its sources have the same fingerprints.
THEOREM NeverReapplied == Spec => NotReapplied
<1>1. Init => Remembered
  BY DEF Init, Remembered, Refused
<1>2. TypeOK /\ Remembered /\ [Next]_vars => Remembered'
  BY Remembers
<1>3. TypeOK /\ Remembered /\ [Next]_vars =>
        [\A a \in Made : a.run \notin DOMAIN runs =>
           ~ \E i \in Refused : i.ids = a.item.ids /\ i.kind = a.item.kind
                                /\ \A m \in i.ids : mem[m] = i.seen[m]]_vars
  <2> SUFFICES ASSUME TypeOK, Remembered, [Next]_vars, NEW a \in actions',
                      a.run \notin DOMAIN runs, NEW i \in Refused,
                      i.ids = a.item.ids, i.kind = a.item.kind,
                      \A m \in i.ids : mem[m] = i.seen[m]
               PROVE  FALSE
    BY DEF Made
  <2>1. PICK kept : (\A g \in Duplicates : kept[g] \in g) /\ Run(kept)
    <3>1. \A b \in actions : b.run \in DOMAIN runs
      BY DEF TypeOK, Journaled
    <3>2. ASSUME NEW r \in DOMAIN runs, NEW j, Review(r, j) \/ Dismiss(r, j)
          PROVE  \A b \in actions' : b.run \in DOMAIN runs
      BY <3>1, <3>2 DEF Review, Dismiss, Applying, Action
    <3>3. ASSUME NEW b \in actions, Undo(b)
          PROVE  \A c \in actions' : c.run \in DOMAIN runs
      <4>1. [b EXCEPT !.status = "undone"].run = b.run
        BY <3>3 DEF TypeOK, Journaled
      <4> QED
        BY <3>1, <3>3, <4>1 DEF Undo
    <3>4. CASE UNCHANGED journal
      BY <3>1, <3>4 DEF journal
    <3> QED
      BY <3>2, <3>3, <3>4 DEF Next, vars, journal, Store, Edit, SetStatus, Purge, Relate,
         ReadRow, SoftDelete, Restore, ReadPage, Fade, Crash
  <2>2. PICK j \in Merged(kept) : a = Action(Len(runs) + 1, j)
    <3>1. \A b \in actions : b.run \in DOMAIN runs
      BY DEF TypeOK, Journaled
    <3> QED
      BY <2>1, <3>1, RunMakes
  <2>3. a.item = j /\ j \in Report(kept)
    BY <2>2 DEF Action, Merged
  <2>4. Item(j) /\ j.seen = Fingerprints(j.ids) /\ Signature(j) \notin dismissals
    <3>1. Signature(j) \notin dismissals
      BY <2>3 DEF Report
    <3> QED
      BY <2>1, <2>3, <3>1, ProposalsOK
  <2>5. Item(i)
    <3>1. (\E b \in actions : i = b.item) \/ (\E r \in DOMAIN runs : i \in DOMAIN runs[r])
      BY DEF Refused
    <3>2. \A b \in actions : b.run \in DOMAIN runs /\ b.item \in DOMAIN runs[b.run]
      BY DEF TypeOK, Journaled
    <3>3. \A r \in DOMAIN runs : \A l \in DOMAIN runs[r] : Item(l)
      BY DEF TypeOK
    <3> QED
      BY <3>1, <3>2, <3>3
  <2>6. i.seen = j.seen
    BY <2>3, <2>4, <2>5 DEF Item, Fingerprints
  <2> QED
    BY <2>3, <2>4, <2>6 DEF Remembered, Signature
<1> QED
  BY <1>1, <1>2, <1>3, TypeCorrect, PTL DEF Spec, NotReapplied

-----------------------------------------------------------------------------
(* Merges are of copies *)

\* The texts of a duplicate item were equal when it was proposed.
Alike ==
  \A r \in DOMAIN runs : \A i \in DOMAIN runs[r] :
    i.kind = "duplicate" => \A m, n \in i.ids : i.seen[m].text = i.seen[n].text

LEMMA ReportAlike ==
  ASSUME TypeOK, NEW kept, \A g \in Duplicates : kept[g] \in g,
         NEW i \in Report(kept), i.kind = "duplicate"
  PROVE  /\ \A m \in i.ids : mem[m].status = "active" /\ i.seen[m] = mem[m]
         /\ \A m, n \in i.ids : i.seen[m].text = i.seen[n].text
<1>1. i.ids \in Duplicates /\ i.seen = Fingerprints(i.ids)
  BY ProposalsOK
<1>2. \A m, n \in i.ids : mem[m].status = "active" /\ mem[m].text = mem[n].text
  BY <1>1 DEF Duplicates, Copies, Active, Key
<1> QED
  BY <1>1, <1>2 DEF Fingerprints

LEMMA StaysAlike ==
  ASSUME TypeOK, Alike, [Next]_vars
  PROVE  Alike'
<1>1. ASSUME NEW kept, \A g \in Duplicates : kept[g] \in g, Run(kept) PROVE Alike'
  BY <1>1, RunMakes, ReportAlike DEF Alike
<1>2. ASSUME NEW r \in DOMAIN runs, NEW i \in DOMAIN runs[r], Review(r, i) \/ Dismiss(r, i)
      PROVE  Alike'
  <2>1. \E v \in {"applied", "dismissed"} : runs' = [runs EXCEPT ![r][i] = v]
    BY <1>2 DEF Review, Dismiss, Resolve
  <2>2. DOMAIN runs' = DOMAIN runs /\ \A q \in DOMAIN runs : DOMAIN runs'[q] = DOMAIN runs[q]
    BY <2>1, ResolvedOK
  <2> QED
    BY <2>2 DEF Alike
<1>3. CASE UNCHANGED runs
  BY <1>3 DEF Alike
<1> QED
  BY <1>1, <1>2, <1>3 DEF Next, vars, journal, Undo, Store, Edit, SetStatus, Purge, Relate,
     ReadRow, SoftDelete, Restore, ReadPage, Fade, Crash

\* What a merge of item i, and of no other with a note of i, makes of its rows.
Exact(i) ==
  LET k == i.keep IN
  /\ mem[k].status = "active" /\ mem'[k] = mem[k]
  /\ \A m \in i.ids :
       /\ mem[m] = i.seen[m]
       /\ mem[m].text = mem[k].text
       /\ ~ mem[m].meta.pin /\ m \notin linked
       /\ m # k => mem'[m].status = "merged" /\ mem'[m].meta.into = k

LEMMA MergeExact ==
  ASSUME TypeOK, NEW r, NEW s, NEW i \in s, Item(i), i.kind = "duplicate",
         \A m \in i.ids : mem[m].status = "active" /\ mem[m] = i.seen[m],
         \A m, n \in i.ids : i.seen[m].text = i.seen[n].text,
         ~ Blocked(i.ids),
         \A j \in s : Changed(j) \cap i.ids # {} => j = i,
         mem' = [m \in Ids |-> IF \E j \in s : m \in Changed(j)
                               THEN Applied(mem[m], r, CHOOSE j \in s : m \in Changed(j))
                               ELSE mem[m]]
  PROVE  Exact(i)
<1>1. i.keep \in i.ids /\ i.ids \subseteq Ids /\ Changed(i) = i.ids \ {i.keep}
  BY DEF Item, Changed
<1>2. mem'[i.keep] = mem[i.keep]
  <2>1. ~ \E j \in s : i.keep \in Changed(j)
    BY <1>1
  <2> QED
    BY <1>1, <2>1
<1>3. ASSUME NEW m \in i.ids, m # i.keep
      PROVE  mem'[m].status = "merged" /\ mem'[m].meta.into = i.keep
  <2>1. m \in Changed(i) /\ \A j \in s : m \in Changed(j) => j = i
    BY <1>1, <1>3
  <2>2. (CHOOSE j \in s : m \in Changed(j)) = i
    BY <2>1
  <2>3. mem'[m] = Applied(mem[m], r, i)
    BY <1>1, <2>1, <2>2
  <2>4. mem[m] \in Notes
    BY <1>1 DEF TypeOK
  <2> QED
    BY <2>3, <2>4, AppliedMerges
<1> QED
  BY <1>1, <1>2, <1>3 DEF Exact, Blocked, Protected

\* A merge, automatic or reviewed, retires notes whose text stays with an active
\* note, and none that is pinned, linked or has changed since it was proposed.
THEOREM ExactCopies == Spec => MergesExactCopies
<1>1. Init => Alike
  BY DEF Init, Alike
<1>2. TypeOK /\ Alike /\ [Next]_vars => Alike'
  BY StaysAlike
<1>3. TypeOK /\ Alike /\ [Next]_vars =>
        [\A a \in Made : a.item.kind = "duplicate" => Exact(a.item)]_vars
  <2> SUFFICES ASSUME TypeOK, Alike, [Next]_vars, NEW a \in Made, a.item.kind = "duplicate"
               PROVE  Exact(a.item)
    OBVIOUS
  <2>1. \A b \in actions : b.run \in DOMAIN runs /\ runs[b.run][b.item] = "applied"
    BY DEF TypeOK, Journaled
  <2>2. a \in actions' /\ (a.run \notin DOMAIN runs \/ runs[a.run][a.item] # "applied")
    BY DEF Made
  <2>3. a \notin actions
    BY <2>1, <2>2
  <2>4. ASSUME NEW kept, \A g \in Duplicates : kept[g] \in g, Run(kept)
        PROVE  Exact(a.item)
    <3>1. PICK i \in Merged(kept) : a = Action(Len(runs) + 1, i)
      BY <2>3, <2>2, <2>4, RunMakes
    <3>2. a.item = i /\ i \in Report(kept) /\ ~ Blocked(i.ids)
      BY <3>1 DEF Action, Merged, Automatic
    <3>3. /\ \A m \in i.ids : mem[m].status = "active" /\ mem[m] = i.seen[m]
          /\ \A m, n \in i.ids : i.seen[m].text = i.seen[n].text
      BY <3>2, <2>4, ReportAlike
    <3>4. \A j \in Merged(kept) : Item(j)
      BY <2>4, ProposalsOK DEF Merged
    <3>5. \A j \in Merged(kept) : Changed(j) \cap i.ids # {} => j = i
      BY <2>4, <3>4, OneItemPerNote, ChangedOK
    <3>6. mem' = [m \in Ids |-> IF \E j \in Merged(kept) : m \in Changed(j)
                    THEN Applied(mem[m], Len(runs) + 1,
                                 CHOOSE j \in Merged(kept) : m \in Changed(j))
                    ELSE mem[m]]
      BY <2>4, RunMakes
    <3> QED
      BY <3>2, <3>3, <3>4, <3>5, <3>6, MergeExact, ZenonT(40)
  <2>5. ASSUME NEW r \in DOMAIN runs, NEW i \in DOMAIN runs[r], Review(r, i)
        PROVE  Exact(a.item)
    <3>1. a = Action(r, i) /\ a.item = i
      BY <2>2, <2>3, <2>5 DEF Review, Applying, Action
    <3>2. ~ Blocked(i.ids) /\ Applying({i}, r)
          /\ \A m \in i.ids : mem[m].status = "active" /\ mem[m] = i.seen[m]
      BY <2>5, <3>1 DEF Review, Unchanged
    <3>3. Item(i) /\ \A m, n \in i.ids : i.seen[m].text = i.seen[n].text
      BY <3>1 DEF Alike, TypeOK
    <3>4. mem' = [m \in Ids |-> IF \E j \in {i} : m \in Changed(j)
                    THEN Applied(mem[m], r, CHOOSE j \in {i} : m \in Changed(j))
                    ELSE mem[m]]
      BY <3>2 DEF Applying
    <3> QED
      BY <3>1, <3>2, <3>3, <3>4, MergeExact
  <2>6. ASSUME NEW b \in actions, Undo(b) PROVE FALSE
    <3>1. [b EXCEPT !.status = "undone"].run = b.run
          /\ [b EXCEPT !.status = "undone"].item = b.item
      OBVIOUS
    <3> QED
      BY <2>1, <2>2, <2>3, <2>6, <3>1 DEF Undo
  <2>7. CASE UNCHANGED actions
    BY <2>2, <2>3, <2>7
  <2> QED
    BY <2>4, <2>5, <2>6, <2>7 DEF Next, vars, journal, Dismiss, Store, Edit, SetStatus, Purge,
       Relate, ReadRow, SoftDelete, Restore, ReadPage, Fade, Crash
<1> QED
  BY <1>1, <1>2, <1>3, TypeCorrect, PTL DEF Spec, MergesExactCopies, Exact

=============================================================================
