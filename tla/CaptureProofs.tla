--------------------------- MODULE CaptureProofs ----------------------------
(***************************************************************************)
(* That no manifest says more than what was stored, that claims cite the    *)
(* text they were found in, that a capture without failures completes its   *)
(* text, and that only faults make captures store a thing again, for any    *)
(* number of captures, sources, texts and faults.                           *)
(*                                                                         *)
(* Memories are never forgotten here (a removed one keeps its row), so what *)
(* is said of rows stays true as they grow, Grows; every step is then the   *)
(* affair of one capture, Local.                                            *)
(***************************************************************************)
EXTENDS CaptureProps, FiniteSetTheorems, SequenceTheorems, TLAPS

Statements == (Sources \cup Texts) \X Nat \X (Quotes \cup {None})
RowType == [says : SUBSET Statements, from : SUBSET Nat, gone : {"no", "trashed", "purged"}]
OverType == [text : Texts, ids : Seq(Nat), done : BOOLEAN]
ChunkType == [text : Texts, keys : SUBSET Quotes, out : SUBSET Nat, done : BOOLEAN]
ManifestType ==
  [source : [Keys -> Sources \cup {None}], over : OverType \cup {None},
   chunk : [1..Turns -> ChunkType \cup {None}]]

Places == {"idle", "ended", "seen", "parts", "begin", "reuse", "sources", "stored", "chunk",
           "claims", "learned", "noted", "closed", "finish"}
RunType ==
  [at : Places, what : Sources \cup Texts \cup {None}, data : ManifestType, saving : BOOLEAN,
   ids : Seq(Nat), turn : Nat, todo : SUBSET Quotes, keys : SUBSET Quotes, out : SUBSET Nat,
   failed : BOOLEAN, clean : BOOLEAN]

Holds(R, thing) == \E m \in 1..Len(R) : thing \in R[m].says
SourceIn(R, s) == \A n \in 1..Parts[s] : Holds(R, <<s, n, None>>)
TurnsIn(R, ids, t) ==
  \A i \in 1..Len(ids) : ids[i] \in 1..Len(R) /\ <<t, i, None>> \in R[ids[i]].says
KeysIn(R, t, n, K) == \A q \in K : Holds(R, <<t, n, q>>)

\* The entries of the manifest m are borne out by the rows R.
GoodSources(R, m) == \A k \in Keys : m.source[k] # None => SourceIn(R, m.source[k])
GoodOver(R, m) == m.over # None =>
  /\ Len(m.over.ids) <= Turns /\ TurnsIn(R, m.over.ids, m.over.text)
  /\ m.over.done => \A n \in 1..Turns :
       /\ Holds(R, <<m.over.text, n, None>>)
       /\ KeysIn(R, m.over.text, n, Says[m.over.text][n])
GoodChunks(R, m) == \A n \in 1..Turns : m.chunk[n] # None =>
  /\ KeysIn(R, m.chunk[n].text, n, m.chunk[n].keys)
  /\ m.chunk[n].done => KeysIn(R, m.chunk[n].text, n, Says[m.chunk[n].text][n])
Good(R, m) == GoodSources(R, m) /\ GoodOver(R, m) /\ GoodChunks(R, m)

InSources == {"reuse", "sources", "stored"}
InClaims == {"claims", "learned", "noted", "closed"}
InChunks == {"chunk", "finish"} \cup InClaims

\* What a capture r that is at some place has done.
PartsDone(R, r) == r.at = "parts" =>
  r.turn <= Parts[r.what] /\ \A n \in 1..r.turn : Holds(R, <<r.what, n, None>>)
TurnsDone(R, r) == r.at \in InSources \cup InChunks =>
  Len(r.ids) <= Turns /\ TurnsIn(R, r.ids, r.what)
ChunksDone(r) == r.at \in InChunks =>
  /\ r.turn \in 1..(Turns + 1) /\ Len(r.ids) = Turns
  /\ \A n \in 1..(r.turn - 1) : r.data.chunk[n] # None => r.data.chunk[n].text = r.what
  /\ r.at = "finish" => r.turn = Turns + 1
ClaimsDone(R, r) == r.at \in InClaims =>
  /\ r.turn <= Turns
  /\ KeysIn(R, r.what, r.turn, r.keys)
  /\ ~r.failed => Says[r.what][r.turn] \subseteq
                    IF r.at = "closed" THEN r.keys ELSE r.keys \cup r.todo
Local(R, r) ==
  /\ r \in RunType /\ Good(R, r.data)
  /\ r.at \in {"seen", "parts"} => r.what \in Sources
  /\ r.at \in {"begin"} \cup InSources \cup InChunks => r.what \in Texts
  /\ r.at = "begin" => r.ids = <<>>
  /\ r.at \in InSources => r.data.over \in OverType /\ r.data.over.text = r.what
                              /\ ~r.data.over.done
  /\ PartsDone(R, r) /\ TurnsDone(R, r) /\ ChunksDone(r) /\ ClaimsDone(R, r)

\* Every claim of R cites a record of its text.
Cites(R) == \A m \in 1..Len(R) : \A thing \in R[m].says : thing[3] # None =>
  \E s \in R[m].from : s \in 1..Len(R) /\ <<thing[1], thing[2], None>> \in R[s].says
RowsGood(R) == R \in Seq(RowType) /\ Cites(R)

IInv ==
  /\ RowsGood(rows)
  /\ file \in ManifestType \cup {None}
  /\ file # None => Good(rows, file)
  /\ run \in [Procs -> RunType]
  /\ \A p \in Procs : Local(rows, run[p])

Grows(R, Q) ==
  /\ Len(R) \in Nat /\ Len(Q) \in Nat /\ Len(R) <= Len(Q)
  /\ \A m \in 1..Len(R) : R[m].says \subseteq Q[m].says

USE DEF Places, InSources, InClaims, InChunks

-----------------------------------------------------------------------------
\* What is true of rows stays true when they grow.
LEMMA HoldsGrows ==
  ASSUME NEW R, NEW Q, Grows(R, Q), NEW thing, Holds(R, thing)
  PROVE  Holds(Q, thing)
BY SMT DEF Holds, Grows

LEMMA TurnsGrow ==
  ASSUME NEW R, NEW Q, Grows(R, Q), NEW ids, NEW t, TurnsIn(R, ids, t)
  PROVE  TurnsIn(Q, ids, t)
BY SMTT(30) DEF TurnsIn, Grows

LEMMA KeysGrow ==
  ASSUME NEW R, NEW Q, Grows(R, Q), NEW t, NEW n, NEW K, KeysIn(R, t, n, K)
  PROVE  KeysIn(Q, t, n, K)
BY HoldsGrows, Zenon DEF KeysIn

LEMMA GoodGrows ==
  ASSUME NEW R, NEW Q, Grows(R, Q), NEW m, Good(R, m)
  PROVE  Good(Q, m)
<1>1. GoodSources(Q, m)
  BY HoldsGrows DEF Good, GoodSources, SourceIn
<1>2. GoodOver(Q, m)
  BY HoldsGrows, TurnsGrow, KeysGrow DEF Good, GoodOver
<1>3. GoodChunks(Q, m)
  BY KeysGrow DEF Good, GoodChunks
<1> QED BY <1>1, <1>2, <1>3 DEF Good

LEMMA LocalGrows ==
  ASSUME NEW R, NEW Q, Grows(R, Q), NEW r, Local(R, r)
  PROVE  Local(Q, r)
<1>1. Good(Q, r.data)
  BY GoodGrows DEF Local
<1>2. PartsDone(Q, r)
  BY HoldsGrows DEF Local, PartsDone
<1>3. TurnsDone(Q, r)
  BY TurnsGrow DEF Local, TurnsDone
<1>4. ClaimsDone(Q, r)
  BY KeysGrow DEF Local, ClaimsDone
<1> QED BY <1>1, <1>2, <1>3, <1>4 DEF Local

LEMMA SameGrows ==
  ASSUME NEW R, R \in Seq(RowType) PROVE Grows(R, R)
BY SMT DEF Grows

LEMMA AppendGrows ==
  ASSUME NEW R, R \in Seq(RowType), NEW x \in RowType
  PROVE  /\ Grows(R, Append(R, x)) /\ Append(R, x) \in Seq(RowType)
         /\ Len(Append(R, x)) = Len(R) + 1 /\ Append(R, x)[Len(R) + 1] = x
         /\ \A m \in 1..Len(R) : Append(R, x)[m] = R[m]
BY SMT DEF Grows

-----------------------------------------------------------------------------
\* Whether the file is being written does not matter.
LEMMA LocalSaving ==
  ASSUME NEW R, NEW r, Local(R, r), NEW b \in BOOLEAN
  PROVE  Local(R, [r EXCEPT !.saving = b])
<1> DEFINE s == [r EXCEPT !.saving = b]
<1>0. r \in RunType
  BY DEF Local
<1>1. s \in RunType
  BY <1>0 DEF RunType
<1>2. /\ s.at = r.at /\ s.what = r.what /\ s.data = r.data /\ s.ids = r.ids
      /\ s.turn = r.turn /\ s.todo = r.todo /\ s.keys = r.keys /\ s.failed = r.failed
  BY <1>0 DEF RunType
<1> HIDE DEF s
<1>3. Local(R, s)
  BY <1>1, <1>2 DEF Local, PartsDone, TurnsDone, ChunksDone, ClaimsDone
<1> QED BY <1>3 DEF s

\* A step of one capture.
LEMMA Step ==
  ASSUME IInv, NEW p \in Procs, NEW r,
         RowsGood(rows'), Grows(rows, rows'),
         run' = [run EXCEPT ![p] = r], Local(rows', r),
         file' \in {file, None, run[p].data}
  PROVE  IInv'
<1>1. /\ file' \in ManifestType \cup {None}
      /\ file' # None => Good(rows', file')
  <2>1. Local(rows, run[p])
    BY DEF IInv
  <2>2. run[p].data \in ManifestType /\ Good(rows, run[p].data)
    BY <2>1 DEF Local, RunType
  <2> QED BY <2>2, GoodGrows DEF IInv
<1>2. r \in RunType
  BY DEF Local
<1>3. run' \in [Procs -> RunType]
  BY <1>2 DEF IInv
<1>4. ASSUME NEW q \in Procs PROVE Local(rows', run'[q])
  <2>1. CASE q = p
    BY <2>1 DEF IInv
  <2>2. CASE q # p
    BY <2>2, LocalGrows DEF IInv
  <2> QED BY <2>1, <2>2
<1> QED BY <1>1, <1>3, <1>4 DEF IInv

LEMMA SetStep ==
  ASSUME IInv, NEW p \in Procs, NEW r, SetRun(p, r),
         RowsGood(rows'), Grows(rows, rows'), Local(rows', r)
  PROVE  IInv'
BY Step DEF SetRun

LEMMA ReadStep ==
  ASSUME IInv, NEW p \in Procs, NEW r, SetRun(p, r), rows' = rows, Local(rows, r)
  PROVE  IInv'
<1>1. RowsGood(rows') /\ Grows(rows, rows')
  BY SameGrows DEF IInv, RowsGood
<1> QED BY <1>1, Step DEF SetRun

LEMMA SaveStep ==
  ASSUME IInv, NEW p \in Procs, NEW r, Save(p, r), rows' = rows, Local(rows, r)
  PROVE  IInv'
<1>1. RowsGood(rows') /\ Grows(rows, rows')
  BY SameGrows DEF IInv, RowsGood
<1>2. Local(rows', [r EXCEPT !.saving = TRUE])
  BY LocalSaving
<1> QED BY <1>1, <1>2, Step DEF Save

-----------------------------------------------------------------------------
\* The saves' changes of a manifest.
LEMMA SetSource ==
  ASSUME NEW R, NEW m \in ManifestType, Good(R, m), NEW s \in Sources, SourceIn(R, s)
  PROVE  LET d == [m EXCEPT !.source[Identity[s]] = s]
         IN d \in ManifestType /\ Good(R, d)
<1> DEFINE d == [m EXCEPT !.source[Identity[s]] = s]
<1>1. d \in ManifestType
  BY DEF ManifestType, Keys
<1>2. d.over = m.over /\ d.chunk = m.chunk
  BY DEF ManifestType
<1>3. \A k \in Keys : d.source[k] = m.source[k] \/ d.source[k] = s
  BY DEF ManifestType
<1> HIDE DEF d
<1>4. Good(R, d)
  BY <1>2, <1>3 DEF Good, GoodSources, GoodOver, GoodChunks
<1> QED BY <1>1, <1>4 DEF d

LEMMA SetOver ==
  ASSUME NEW R, NEW m \in ManifestType, Good(R, m), NEW o \in OverType,
         Len(o.ids) <= Turns, TurnsIn(R, o.ids, o.text),
         o.done => \A n \in 1..Turns :
           Holds(R, <<o.text, n, None>>) /\ KeysIn(R, o.text, n, Says[o.text][n])
  PROVE  LET d == [m EXCEPT !.over = o]
         IN d \in ManifestType /\ Good(R, d) /\ d.over = o /\ d.chunk = m.chunk
<1> DEFINE d == [m EXCEPT !.over = o]
<1>1. d \in ManifestType /\ d.over = o /\ d.chunk = m.chunk /\ d.source = m.source
  BY DEF ManifestType
<1> HIDE DEF d
<1>2. GoodSources(R, d) /\ GoodChunks(R, d)
  BY <1>1 DEF Good, GoodSources, GoodChunks
<1>3. GoodOver(R, d)
  BY <1>1 DEF GoodOver
<1> QED BY <1>1, <1>2, <1>3 DEF d, Good

LEMMA SetChunk ==
  ASSUME NEW R, NEW m \in ManifestType, Good(R, m), NEW n \in 1..Turns, NEW c \in ChunkType,
         KeysIn(R, c.text, n, c.keys), c.done => KeysIn(R, c.text, n, Says[c.text][n])
  PROVE  LET d == [m EXCEPT !.chunk[n] = c]
         IN /\ d \in ManifestType /\ Good(R, d) /\ d.over = m.over
            /\ d.chunk = [m.chunk EXCEPT ![n] = c]
<1> DEFINE d == [m EXCEPT !.chunk[n] = c]
<1>1. d \in ManifestType
  BY DEF ManifestType
<1>2. d.over = m.over /\ d.source = m.source /\ d.chunk = [m.chunk EXCEPT ![n] = c]
  BY DEF ManifestType
<1>3. \A k \in 1..Turns : d.chunk[k] = IF k = n THEN c ELSE m.chunk[k]
  BY <1>2 DEF ManifestType
<1> HIDE DEF d
<1>4. GoodSources(R, d) /\ GoodOver(R, d)
  BY <1>2 DEF Good, GoodSources, GoodOver
<1>5. GoodChunks(R, d)
  BY <1>3 DEF Good, GoodChunks
<1> QED BY <1>1, <1>2, <1>4, <1>5 DEF d, Good

-----------------------------------------------------------------------------
LEMMA LoadedGood ==
  ASSUME IInv PROVE Loaded \in ManifestType /\ Good(rows, Loaded)
<1>1. Unwritten \in ManifestType /\ Good(rows, Unwritten)
  BY DEF Unwritten, ManifestType, Good, GoodSources, GoodOver, GoodChunks
<1> QED BY <1>1 DEF IInv, Loaded

LEMMA NoRunGood ==
  ASSUME NEW R PROVE NoRun \in RunType /\ Local(R, NoRun)
<1>1. Unwritten \in ManifestType /\ Good(R, Unwritten)
  BY DEF Unwritten, ManifestType, Good, GoodSources, GoodOver, GoodChunks
<1>2. NoRun \in RunType
  BY <1>1 DEF NoRun, RunType
<1>3. NoRun.at = "idle" /\ NoRun.data = Unwritten
  BY DEF NoRun
<1> QED BY <1>1, <1>2, <1>3 DEF Local, PartsDone, TurnsDone, ChunksDone, ClaimsDone

LEMMA InitInv == Init => IInv
<1> SUFFICES ASSUME Init PROVE IInv
  OBVIOUS
<1>1. RowsGood(rows)
  BY DEF Init, RowsGood, Cites
<1>2. file \in ManifestType /\ Good(rows, file)
  BY DEF Init, Unwritten, ManifestType, Good, GoodSources, GoodOver, GoodChunks
<1>3. run \in [Procs -> RunType] /\ \A p \in Procs : Local(rows, run[p])
  BY NoRunGood DEF Init
<1> QED BY <1>1, <1>2, <1>3 DEF IInv

LEMMA FillStep == ASSUME IInv, NEW p \in Procs, Fill(p) PROVE IInv'
<1> DEFINE r == [run[p] EXCEPT !.saving = FALSE]
<1>1. Local(rows, r)
  BY LocalSaving DEF IInv
<1>2. RowsGood(rows') /\ Grows(rows, rows') /\ rows' = rows
  BY SameGrows DEF IInv, RowsGood, Fill
<1> HIDE DEF r
<1>3. run' = [run EXCEPT ![p] = r]
  BY DEF Fill, r, IInv, RunType
<1>4. file' \in {file, None, run[p].data}
  BY DEF Fill
<1> QED BY <1>1, <1>2, <1>3, <1>4, Step

LEMMA StartStep == ASSUME IInv, NEW p \in Procs, NEW s \in Sources, Start(p, s) PROVE IInv'
<1> DEFINE place == IF Seen(Loaded, s) THEN "seen" ELSE "parts"
           r == [NoRun EXCEPT !.at = place, !.what = s, !.data = Loaded]
<1>0. NoRun \in RunType
  BY NoRunGood
<1>1. r \in RunType
  BY <1>0, LoadedGood DEF RunType
<1>2. r.at \in {"seen", "parts"} /\ r.what = s /\ r.data = Loaded /\ r.turn = 0
  BY DEF NoRun
<1>3. SetRun(p, r) /\ rows' = rows
  BY DEF Start, Begin
<1> HIDE DEF r
<1>4. Local(rows, r)
  BY <1>1, <1>2, LoadedGood, SourcesAssumption
     DEF Local, PartsDone, TurnsDone, ChunksDone, ClaimsDone
<1> QED BY <1>3, <1>4, ReadStep

LEMMA UnchangedStep == ASSUME IInv, NEW p \in Procs, Unchanged(p) PROVE IInv'
<1> DEFINE r == [run[p] EXCEPT !.at = "ended"]
<1>0. run[p] \in RunType /\ Local(rows, run[p])
  BY DEF IInv
<1>1. r \in RunType /\ r.at = "ended" /\ r.data = run[p].data
  BY <1>0 DEF RunType
<1>2. Save(p, r) /\ rows' = rows
  BY DEF Unchanged
<1> HIDE DEF r
<1>3. Local(rows, r)
  BY <1>0, <1>1 DEF Local, PartsDone, TurnsDone, ChunksDone, ClaimsDone
<1> QED BY <1>2, <1>3, SaveStep

LEMMA NewRow ==
  ASSUME NEW R, RowsGood(R), NEW thing \in Statements, NEW from \in SUBSET Nat,
         thing[3] # None => \E s \in from :
           s \in 1..Len(R) /\ <<thing[1], thing[2], None>> \in R[s].says
  PROVE  /\ RowsGood(Append(R, Row(thing, from)))
         /\ Grows(R, Append(R, Row(thing, from)))
         /\ Len(Append(R, Row(thing, from))) = Len(R) + 1
         /\ thing \in Append(R, Row(thing, from))[Len(R) + 1].says
         /\ Holds(Append(R, Row(thing, from)), thing)
<1> DEFINE x == Row(thing, from)
           Q == Append(R, x)
<1>1. x \in RowType /\ x.says = {thing} /\ x.from = from
  BY DEF Row, RowType
<1>2. R \in Seq(RowType)
  BY DEF RowsGood
<1> HIDE DEF x
<1>3. /\ Grows(R, Q) /\ Q \in Seq(RowType) /\ Len(Q) = Len(R) + 1 /\ Q[Len(R) + 1] = x
      /\ \A m \in 1..Len(R) : Q[m] = R[m]
  BY <1>1, <1>2, AppendGrows
<1> HIDE DEF Q
<1>4. Len(R) \in Nat
  BY <1>2
<1>5. Cites(Q)
  <2> SUFFICES ASSUME NEW m \in 1..Len(Q), NEW t \in Q[m].says, t[3] # None
               PROVE  \E s \in Q[m].from :
                        s \in 1..Len(Q) /\ <<t[1], t[2], None>> \in Q[s].says
    BY DEF Cites
  <2>1. CASE m = Len(R) + 1
    BY <2>1, <1>1, <1>3, <1>4
  <2>2. CASE m \in 1..Len(R)
    <3>1. PICK s \in R[m].from : s \in 1..Len(R) /\ <<t[1], t[2], None>> \in R[s].says
      BY <2>2, <1>3 DEF RowsGood, Cites
    <3> QED BY <3>1, <2>2, <1>3, <1>4
  <2>3. m = Len(R) + 1 \/ m \in 1..Len(R)
    BY <1>3, <1>4
  <2> QED BY <2>1, <2>2, <2>3
<1>6. thing \in Q[Len(R) + 1].says /\ Len(R) + 1 \in 1..Len(Q)
  BY <1>1, <1>3, <1>4
<1>7. Holds(Q, thing)
  BY <1>6 DEF Holds
<1> QED BY <1>3, <1>5, <1>6, <1>7 DEF Q, x, RowsGood

LEMMA TurnTo ==
  ASSUME NEW r \in RunType, NEW k \in Nat, NEW s, s = [r EXCEPT !.turn = k]
  PROVE  s \in RunType /\ s.at = r.at /\ s.data = r.data /\ s.what = r.what /\ s.turn = k
BY DEF RunType

LEMMA StorePartStep == ASSUME IInv, NEW p \in Procs, StorePart(p) PROVE IInv'
<1> DEFINE r == run[p]
           s == [r EXCEPT !.turn = r.turn + 1]
           thing == <<r.what, r.turn + 1, None>>
<1>0. r \in RunType /\ Local(rows, r) /\ r.at = "parts" /\ r.turn < Parts[r.what]
  BY DEF IInv, StorePart, At
<1>1. r.what \in Sources /\ r.turn \in Nat /\ Parts[r.what] \in Nat
  BY <1>0, SourcesAssumption DEF Local, RunType
<1>2. s \in RunType /\ s.at = "parts" /\ s.data = r.data /\ s.what = r.what
      /\ s.turn = r.turn + 1
  <2> HIDE DEF r
  <2>1. r.turn + 1 \in Nat
    BY <1>1
  <2> QED
    BY <1>0, <2>1, TurnTo
<1>3. thing \in Statements /\ thing[3] = None
  BY <1>1 DEF Statements
<1>4. rows' = Append(rows, Row(thing, {})) /\ SetRun(p, s)
  BY DEF StorePart
<1> HIDE DEF s
<1>5. RowsGood(rows') /\ Grows(rows, rows') /\ Holds(rows', thing)
  BY <1>3, <1>4, NewRow DEF IInv
<1>6. Good(rows', s.data)
  BY <1>0, <1>2, <1>5, GoodGrows DEF Local
<1>7. PartsDone(rows', s)
  <2> SUFFICES ASSUME NEW n \in 1..(r.turn + 1) PROVE Holds(rows', <<r.what, n, None>>)
    BY <1>0, <1>1, <1>2 DEF PartsDone
  <2>1. CASE n = r.turn + 1
    BY <2>1, <1>5
  <2>2. CASE n \in 1..r.turn
    BY <2>2, <1>0, <1>5, HoldsGrows DEF Local, PartsDone
  <2> QED BY <2>1, <2>2, <1>1
<1>8. Local(rows', s)
  BY <1>1, <1>2, <1>6, <1>7 DEF Local, TurnsDone, ChunksDone, ClaimsDone
<1> QED BY <1>4, <1>5, <1>8, SetStep

LEMMA RecordSourceStep == ASSUME IInv, NEW p \in Procs, RecordSource(p) PROVE IInv'
<1> DEFINE r == run[p]
           d == [r.data EXCEPT !.source[Identity[r.what]] = r.what]
           s == [r EXCEPT !.data.source[Identity[r.what]] = r.what, !.at = "ended"]
<1>0. r \in RunType /\ Local(rows, r) /\ r.at = "parts" /\ r.turn = Parts[r.what]
  BY DEF IInv, RecordSource, At
<1>1. r.what \in Sources /\ SourceIn(rows, r.what)
  BY <1>0 DEF Local, PartsDone, SourceIn
<1>2. d \in ManifestType /\ Good(rows, d)
  BY <1>0, <1>1, SetSource DEF Local, RunType
<1>3. s = [r EXCEPT !.data = d, !.at = "ended"]
  BY <1>0 DEF RunType
<1>4. Save(p, s) /\ rows' = rows
  BY DEF RecordSource
<1> HIDE DEF d
<1>5. s \in RunType /\ s.at = "ended" /\ s.data = d
  BY <1>0, <1>2, <1>3 DEF RunType
<1> HIDE DEF s
<1>6. Local(rows, s)
  BY <1>2, <1>5 DEF Local, PartsDone, TurnsDone, ChunksDone, ClaimsDone
<1> QED BY <1>4, <1>6, SaveStep

LEMMA StartTextStep == ASSUME IInv, NEW p \in Procs, NEW t \in Texts, StartText(p, t) PROVE IInv'
<1> DEFINE over == Loaded.over
           known == over # None /\ over.text = t
           place == IF ~known THEN "begin" ELSE IF over.done THEN "ended" ELSE "reuse"
           r == [NoRun EXCEPT !.what = t, !.data = Loaded, !.ids = Saved(over, t), !.at = place]
<1>0. NoRun \in RunType
  BY NoRunGood
<1>1. Loaded \in ManifestType /\ Good(rows, Loaded)
  BY LoadedGood
<1>2. /\ over \in OverType \cup {None}
      /\ over # None => over \in OverType /\ Len(over.ids) <= Turns
                        /\ TurnsIn(rows, over.ids, over.text)
  BY <1>1 DEF ManifestType, Good, GoodOver
<1>3. Saved(over, t) \in Seq(Nat) /\ (known => Saved(over, t) = over.ids)
  BY <1>2 DEF Saved, OverType
<1>4. SetRun(p, r) /\ rows' = rows
  BY DEF StartText, Begin
<1> DEFINE ids == Saved(over, t)
<1>5. r.at = place /\ r.what = t /\ r.data = Loaded /\ r.ids = ids
  BY DEF NoRun
<1>6. place \in {"begin", "ended", "reuse"} /\ (place = "reuse" => known /\ ~over.done)
      /\ (place = "begin" => ids = <<>>)
  BY DEF Saved
<1> HIDE DEF place, ids
<1>7. r \in RunType
  BY <1>0, <1>1, <1>3, <1>6 DEF RunType, ids
<1> HIDE DEF r
<1>8. Local(rows, r)
  <2>1. CASE place = "reuse"
    <3>1. r.at = "reuse" /\ r.data.over \in OverType /\ r.data.over.text = t
          /\ Len(r.ids) <= Turns /\ TurnsIn(rows, r.ids, t) /\ ~r.data.over.done
      BY <2>1, <1>2, <1>3, <1>5, <1>6 DEF ids
    <3> QED BY <3>1, <1>1, <1>5, <1>7
            DEF Local, PartsDone, TurnsDone, ChunksDone, ClaimsDone
  <2>2. CASE place \in {"begin", "ended"}
    BY <2>2, <1>1, <1>5, <1>6, <1>7 DEF Local, PartsDone, TurnsDone, ChunksDone, ClaimsDone
  <2> QED BY <2>1, <2>2, <1>6
<1> QED BY <1>4, <1>8, ReadStep

LEMMA RecordTextStep == ASSUME IInv, NEW p \in Procs, RecordText(p) PROVE IInv'
<1> DEFINE r == run[p]
           o == Overall(r.what, <<>>, FALSE)
           d == [r.data EXCEPT !.over = o]
           s == [r EXCEPT !.data.over = o, !.at = "reuse"]
<1>0. r \in RunType /\ Local(rows, r) /\ r.at = "begin" /\ r.what \in Texts
      /\ r.ids = <<>>
  BY DEF IInv, RecordText, At, Local
<1>1. o \in OverType /\ o.ids = <<>> /\ o.text = r.what /\ ~o.done
  BY <1>0 DEF Overall, OverType
<1>2. TurnsIn(rows, <<>>, r.what) /\ Len(<<>>) <= Turns
  BY TurnsAssumption DEF TurnsIn
<1>3. d \in ManifestType /\ Good(rows, d) /\ d.over = o
  <2>1. r.data \in ManifestType /\ Good(rows, r.data)
    BY <1>0 DEF Local, RunType
  <2>2. Len(o.ids) <= Turns /\ TurnsIn(rows, o.ids, o.text)
    BY <1>1, <1>2
  <2> HIDE DEF o
  <2> QED BY <2>1, <2>2, <1>1, SetOver
<1>4. s = [r EXCEPT !.data = d, !.at = "reuse"]
  BY <1>0 DEF RunType
<1>5. Save(p, s) /\ rows' = rows
  BY DEF RecordText
<1> HIDE DEF d, o
<1>6. s \in RunType /\ s.at = "reuse" /\ s.data = d /\ s.what = r.what /\ s.ids = <<>>
  BY <1>0, <1>3, <1>4 DEF RunType
<1> HIDE DEF s
<1>7. Local(rows, s)
  BY <1>0, <1>1, <1>2, <1>3, <1>6 DEF Local, PartsDone, TurnsDone, ChunksDone, ClaimsDone
<1> QED BY <1>5, <1>7, SaveStep

LEMMA ReuseStep == ASSUME IInv, NEW p \in Procs, Reuse(p) PROVE IInv'
<1> DEFINE r == run[p]
<1>0. r \in RunType /\ Local(rows, r) /\ r.at = "reuse"
  BY DEF IInv, Reuse, At
<1>1. PICK n \in 0..Len(r.ids) :
        SetRun(p, [r EXCEPT !.ids = SubSeq(r.ids, 1, n), !.at = "sources"]) /\ rows' = rows
  BY DEF Reuse
<1> DEFINE ids == SubSeq(r.ids, 1, n)
           s == [r EXCEPT !.ids = ids, !.at = "sources"]
<1>2. r.ids \in Seq(Nat) /\ r.what \in Texts /\ Len(r.ids) <= Turns /\ TurnsIn(rows, r.ids, r.what)
  BY <1>0 DEF Local, RunType, TurnsDone
<1>3. ids \in Seq(Nat) /\ Len(ids) = n /\ n <= Len(r.ids) /\ \A i \in 1..n : ids[i] = r.ids[i]
  BY <1>2
<1> HIDE DEF ids
<1>4. TurnsIn(rows, ids, r.what) /\ Len(ids) <= Turns
  <2>1. \A i \in 1..n : i \in 1..Len(r.ids)
    BY <1>2, <1>3
  <2>2. TurnsIn(rows, ids, r.what)
    BY <1>2, <1>3, <2>1 DEF TurnsIn
  <2>3. Len(ids) <= Turns
    BY <1>2, <1>3, TurnsAssumption
  <2> QED BY <2>2, <2>3
<1>5. s \in RunType /\ s.at = "sources" /\ s.data = r.data /\ s.what = r.what /\ s.ids = ids
  BY <1>0, <1>3 DEF RunType
<1>6. SetRun(p, s)
  BY <1>1 DEF ids
<1> HIDE DEF s
<1>7. Local(rows, s)
  BY <1>0, <1>2, <1>4, <1>5 DEF Local, PartsDone, TurnsDone, ChunksDone, ClaimsDone
<1> QED BY <1>1, <1>6, <1>7, ReadStep

LEMMA StoreTurnStep == ASSUME IInv, NEW p \in Procs, StoreTurn(p) PROVE IInv'
<1> DEFINE r == run[p]
           ids == Append(r.ids, Len(rows) + 1)
           s == [r EXCEPT !.ids = ids, !.at = "stored"]
           thing == <<r.what, Len(r.ids) + 1, None>>
<1>0. r \in RunType /\ Local(rows, r) /\ r.at = "sources" /\ Len(r.ids) < Turns
  BY DEF IInv, StoreTurn, At
<1>1. r.ids \in Seq(Nat) /\ r.what \in Texts /\ TurnsIn(rows, r.ids, r.what)
  BY <1>0 DEF Local, RunType, TurnsDone
<1>2. thing \in Statements /\ thing[3] = None
  BY <1>1 DEF Statements
<1>3. rows' = Append(rows, Row(thing, {})) /\ SetRun(p, s)
  BY DEF StoreTurn
<1>4. /\ RowsGood(rows') /\ Grows(rows, rows') /\ Len(rows') = Len(rows) + 1
      /\ thing \in rows'[Len(rows) + 1].says /\ Len(rows) \in Nat
  BY <1>2, <1>3, NewRow DEF IInv, Grows
<1>5. /\ ids \in Seq(Nat) /\ Len(ids) = Len(r.ids) + 1 /\ ids[Len(r.ids) + 1] = Len(rows) + 1
      /\ \A i \in 1..Len(r.ids) : ids[i] = r.ids[i]
  BY <1>1, <1>4
<1> HIDE DEF ids
<1>6. TurnsIn(rows', ids, r.what)
  <2>0. TurnsIn(rows', r.ids, r.what)
    BY <1>1, <1>4, TurnsGrow
  <2> SUFFICES ASSUME NEW i \in 1..(Len(r.ids) + 1)
               PROVE  ids[i] \in 1..Len(rows') /\ <<r.what, i, None>> \in rows'[ids[i]].says
    BY <1>5 DEF TurnsIn
  <2>1. CASE i = Len(r.ids) + 1
    BY <2>1, <1>4, <1>5
  <2>2. CASE i \in 1..Len(r.ids)
    BY <2>0, <2>2, <1>5 DEF TurnsIn
  <2> QED BY <2>1, <2>2, <1>1
<1>7. s \in RunType /\ s.at = "stored" /\ s.data = r.data /\ s.what = r.what /\ s.ids = ids
  BY <1>0, <1>5 DEF RunType
<1>8. Len(ids) <= Turns
  BY <1>0, <1>1, <1>5, TurnsAssumption
<1> HIDE DEF s
<1>9. Good(rows', s.data)
  BY <1>0, <1>4, <1>7, GoodGrows DEF Local
<1>10. Local(rows', s)
  BY <1>0, <1>1, <1>6, <1>7, <1>8, <1>9
     DEF Local, PartsDone, TurnsDone, ChunksDone, ClaimsDone
<1> QED BY <1>3, <1>4, <1>10, SetStep

LEMMA NoteTurnStep == ASSUME IInv, NEW p \in Procs, NoteTurn(p) PROVE IInv'
<1> DEFINE r == run[p]
           o == [r.data.over EXCEPT !.ids = r.ids]
           d == [r.data EXCEPT !.over = o]
           s == [r EXCEPT !.data.over.ids = r.ids, !.at = "sources"]
<1>0. r \in RunType /\ Local(rows, r) /\ r.at = "stored"
  BY DEF IInv, NoteTurn, At
<1>1. /\ r.data \in ManifestType /\ r.data.over \in OverType /\ r.data.over.text = r.what
      /\ r.what \in Texts /\ r.ids \in Seq(Nat) /\ Len(r.ids) <= Turns
      /\ TurnsIn(rows, r.ids, r.what) /\ Good(rows, r.data)
  BY <1>0 DEF Local, RunType, TurnsDone
<1>2. /\ o \in OverType /\ o.ids = r.ids /\ o.text = r.what /\ o.done = r.data.over.done
  BY <1>1 DEF OverType
<1>3. ~o.done
  BY <1>0, <1>2 DEF Local
<1> HIDE DEF o
<1>4. d \in ManifestType /\ Good(rows, d) /\ d.over = o
  BY <1>1, <1>2, <1>3, SetOver
<1>5. s = [r EXCEPT !.data = d, !.at = "sources"]
  BY <1>0, <1>1 DEF RunType, ManifestType, o
<1>6. Save(p, s) /\ rows' = rows
  BY DEF NoteTurn
<1> HIDE DEF d
<1>7. s \in RunType /\ s.at = "sources" /\ s.data = d /\ s.what = r.what /\ s.ids = r.ids
  BY <1>0, <1>4, <1>5 DEF RunType
<1> HIDE DEF s
<1>8. Local(rows, s)
  BY <1>1, <1>2, <1>3, <1>4, <1>7 DEF Local, PartsDone, TurnsDone, ChunksDone, ClaimsDone
<1> QED BY <1>6, <1>8, SaveStep

LEMMA SourcedStep == ASSUME IInv, NEW p \in Procs, Sourced(p) PROVE IInv'
<1> DEFINE r == run[p]
           o == Overall(r.what, r.ids, FALSE)
           d == [r.data EXCEPT !.over = o]
           s == [r EXCEPT !.data.over = o, !.at = "chunk", !.turn = 1]
<1>0. r \in RunType /\ Local(rows, r) /\ r.at = "sources" /\ Len(r.ids) = Turns
  BY DEF IInv, Sourced, At
<1>1. /\ r.data \in ManifestType /\ Good(rows, r.data) /\ r.what \in Texts
      /\ r.ids \in Seq(Nat) /\ Len(r.ids) <= Turns /\ TurnsIn(rows, r.ids, r.what)
  BY <1>0 DEF Local, RunType, TurnsDone
<1>2. o \in OverType /\ o.ids = r.ids /\ o.text = r.what /\ ~o.done
  BY <1>1 DEF Overall, OverType
<1> HIDE DEF o
<1>3. d \in ManifestType /\ Good(rows, d)
  BY <1>1, <1>2, SetOver
<1>4. s = [r EXCEPT !.data = d, !.at = "chunk", !.turn = 1]
  BY <1>0 DEF RunType
<1>5. Save(p, s) /\ rows' = rows
  BY DEF Sourced, o
<1> HIDE DEF d
<1>6. /\ s \in RunType /\ s.at = "chunk" /\ s.data = d /\ s.what = r.what /\ s.ids = r.ids
      /\ s.turn = 1
  BY <1>0, <1>3, <1>4 DEF RunType
<1> HIDE DEF s
<1>7. Local(rows, s)
  BY <1>0, <1>1, <1>3, <1>6, TurnsAssumption
     DEF Local, PartsDone, TurnsDone, ChunksDone, ClaimsDone
<1> QED BY <1>5, <1>7, SaveStep

-----------------------------------------------------------------------------
\* A capture r whose current chunk has had the items K stored.
AtChunk(R, r) ==
  /\ r \in RunType /\ Good(R, r.data) /\ r.what \in Texts
  /\ Len(r.ids) = Turns /\ TurnsIn(R, r.ids, r.what)
  /\ r.turn \in 1..Turns
  /\ \A n \in 1..(r.turn - 1) : r.data.chunk[n] # None => r.data.chunk[n].text = r.what
InChunkWith(R, r) == AtChunk(R, r) /\ KeysIn(R, r.what, r.turn, r.keys)

LEMMA MineGood ==
  ASSUME NEW p \in Procs, IInv, InChunk(p)
  PROVE  /\ AtChunk(rows, run[p]) /\ run[p].at = "chunk"
         /\ Mine(p).keys \subseteq Quotes /\ Mine(p).out \subseteq Nat
         /\ KeysIn(rows, run[p].what, run[p].turn, Mine(p).keys)
         /\ Mine(p).done => run[p].data.chunk[run[p].turn].text = run[p].what
<1> DEFINE r == run[p]
           c == r.data.chunk[r.turn]
<1>1. r \in RunType /\ Local(rows, r) /\ r.at = "chunk" /\ r.turn <= Turns
  BY DEF IInv, InChunk, At
<1>2. AtChunk(rows, r)
  <2>1. r.turn \in 1..Turns
    BY <1>1, TurnsAssumption DEF Local, ChunksDone, RunType
  <2> QED BY <1>1, <2>1 DEF AtChunk, Local, TurnsDone, ChunksDone
<1>3. c \in ChunkType \cup {None}
  BY <1>2 DEF AtChunk, RunType, ManifestType
<1>4. c # None => KeysIn(rows, c.text, r.turn, c.keys)
  BY <1>2 DEF AtChunk, Good, GoodChunks
<1>5. CASE c # None /\ c.text = r.what
  <2>1. Mine(p) = c
    BY <1>5 DEF Mine, Entry
  <2> QED BY <1>1, <1>2, <1>3, <1>4, <1>5, <2>1 DEF ChunkType
<1>6. CASE ~(c # None /\ c.text = r.what)
  <2>1. Mine(p) = NoChunk
    BY <1>6 DEF Mine, Entry
  <2>2. NoChunk.keys = {} /\ NoChunk.out = {} /\ ~NoChunk.done
    BY DEF NoChunk, Chunk
  <2> QED BY <1>1, <1>2, <2>1, <2>2 DEF KeysIn
<1> QED BY <1>5, <1>6

\* The chunk's entry is set.
LEMMA RecordedGood ==
  ASSUME NEW R, NEW r, InChunkWith(R, r), NEW K \in {{}, r.keys}, NEW done \in BOOLEAN,
         done => Says[r.what][r.turn] \subseteq r.keys
  PROVE  /\ AtChunk(R, Recorded(r, K, done))
         /\ Recorded(r, K, done).what = r.what /\ Recorded(r, K, done).turn = r.turn
         /\ Recorded(r, K, done).keys = r.keys /\ Recorded(r, K, done).todo = r.todo
         /\ Recorded(r, K, done).failed = r.failed
         /\ Recorded(r, K, done).data.chunk[r.turn].text = r.what
<1> DEFINE c == Chunk(r.what, K, r.out, done)
           d == [r.data EXCEPT !.chunk[r.turn] = c]
           s == Recorded(r, K, done)
<1>0. /\ r \in RunType /\ Good(R, r.data) /\ r.data \in ManifestType /\ r.turn \in 1..Turns
      /\ r.what \in Texts /\ r.keys \subseteq Quotes /\ r.out \subseteq Nat
  BY DEF InChunkWith, AtChunk, RunType
<1>1. c \in ChunkType /\ c.text = r.what /\ c.keys = K /\ c.done = done
  BY <1>0 DEF Chunk, ChunkType
<1>2. KeysIn(R, r.what, r.turn, K) /\ (done => KeysIn(R, r.what, r.turn, Says[r.what][r.turn]))
  BY DEF InChunkWith, KeysIn
<1> HIDE DEF c
<1>3. /\ d \in ManifestType /\ Good(R, d) /\ d.over = r.data.over
      /\ d.chunk = [r.data.chunk EXCEPT ![r.turn] = c]
  BY <1>0, <1>1, <1>2, SetChunk
<1>4. s = [r EXCEPT !.data = d]
  BY <1>0 DEF RunType, Recorded, c
<1> HIDE DEF d
<1>5. /\ s \in RunType /\ s.data = d /\ s.what = r.what /\ s.ids = r.ids /\ s.turn = r.turn
      /\ s.keys = r.keys /\ s.todo = r.todo /\ s.failed = r.failed
  BY <1>0, <1>3, <1>4 DEF RunType
<1>6. \A n \in 1..Turns : d.chunk[n] = IF n = r.turn THEN c ELSE r.data.chunk[n]
  BY <1>0, <1>3 DEF ManifestType
<1> HIDE DEF s
<1>7. \A n \in 1..(r.turn - 1) : d.chunk[n] # None => d.chunk[n].text = r.what
  BY <1>0, <1>6, TurnsAssumption DEF InChunkWith, AtChunk
<1>8. AtChunk(R, s)
  BY <1>3, <1>5, <1>7 DEF InChunkWith, AtChunk
<1>9. d.chunk[r.turn].text = r.what
  BY <1>0, <1>1, <1>6
<1> QED BY <1>5, <1>8, <1>9 DEF s

\* A capture that moves to another place in its chunk.
LEMMA InClaimsLocal ==
  ASSUME NEW R, NEW r, AtChunk(R, r), KeysIn(R, r.what, r.turn, r.keys), r.at \in InClaims,
         ~r.failed => Says[r.what][r.turn] \subseteq
                        IF r.at = "closed" THEN r.keys ELSE r.keys \cup r.todo
  PROVE  Local(R, r)
<1>1. Turns \in Nat /\ r.turn \in 1..Turns
  BY TurnsAssumption DEF AtChunk
<1>2. ChunksDone(r)
  BY <1>1 DEF ChunksDone, AtChunk
<1>3. TurnsDone(R, r)
  BY <1>1 DEF TurnsDone, AtChunk
<1>4. ClaimsDone(R, r)
  BY <1>1 DEF ClaimsDone
<1>5. PartsDone(R, r)
  BY DEF PartsDone
<1> QED BY <1>2, <1>3, <1>4, <1>5 DEF Local, AtChunk

LEMMA ClaimsGood ==
  ASSUME NEW R, NEW r, Local(R, r), r.at \in InClaims
  PROVE  /\ InChunkWith(R, r)
         /\ ~r.failed => Says[r.what][r.turn] \subseteq
                           IF r.at = "closed" THEN r.keys ELSE r.keys \cup r.todo
<1>1. r.turn \in 1..Turns
  BY TurnsAssumption DEF Local, ChunksDone, ClaimsDone
<1>2. AtChunk(R, r)
  BY <1>1 DEF Local, ChunksDone, TurnsDone, AtChunk
<1> QED BY <1>2 DEF InChunkWith, Local, ClaimsDone

LEMMA RecordedLocal ==
  ASSUME NEW R, NEW r, InChunkWith(R, r), NEW K \in {{}, r.keys}, NEW done \in BOOLEAN,
         done => Says[r.what][r.turn] \subseteq r.keys,
         NEW place \in {"noted", "claims", "closed"},
         ~r.failed => Says[r.what][r.turn] \subseteq
                        IF place = "closed" THEN r.keys ELSE r.keys \cup r.todo
  PROVE  Local(R, [Recorded(r, K, done) EXCEPT !.at = place])
<1> DEFINE t == Recorded(r, K, done)
           s == [t EXCEPT !.at = place]
<1>1. /\ AtChunk(R, t) /\ t.what = r.what /\ t.turn = r.turn /\ t.keys = r.keys
      /\ t.todo = r.todo /\ t.failed = r.failed
  BY RecordedGood
<1> HIDE DEF t
<1>2. t \in RunType /\ KeysIn(R, r.what, r.turn, r.keys)
  BY <1>1 DEF AtChunk, InChunkWith
<1>3. /\ s \in RunType /\ s.at = place /\ s.data = t.data /\ s.ids = t.ids
      /\ s.what = r.what /\ s.turn = r.turn /\ s.keys = r.keys /\ s.todo = r.todo
      /\ s.failed = r.failed /\ s.what = t.what /\ s.turn = t.turn
  BY <1>1, <1>2 DEF RunType
<1> HIDE DEF s
<1>4. AtChunk(R, s)
  BY <1>1, <1>3 DEF AtChunk
<1>5. Local(R, s)
  BY <1>2, <1>3, <1>4, InClaimsLocal
<1> QED BY <1>5 DEF s, t

LEMMA SkipChunkStep == ASSUME IInv, NEW p \in Procs, SkipChunk(p) PROVE IInv'
<1> DEFINE r == run[p]
           s == [r EXCEPT !.turn = r.turn + 1]
<1>1. AtChunk(rows, r) /\ r.at = "chunk" /\ r.data.chunk[r.turn].text = r.what
  BY MineGood DEF SkipChunk
<1>2. r \in RunType /\ r.turn \in 1..Turns /\ Turns \in Nat
  BY <1>1, TurnsAssumption DEF AtChunk
<1>3. /\ s \in RunType /\ s.at = "chunk" /\ s.data = r.data /\ s.what = r.what
      /\ s.ids = r.ids /\ s.turn = r.turn + 1
  BY <1>1, <1>2 DEF RunType
<1>4. SetRun(p, s) /\ rows' = rows
  BY DEF SkipChunk
<1> HIDE DEF s
<1>5. \A n \in 1..(s.turn - 1) : s.data.chunk[n] # None => s.data.chunk[n].text = s.what
  BY <1>1, <1>2, <1>3 DEF AtChunk
<1>6. ChunksDone(s)
  BY <1>1, <1>2, <1>3, <1>5 DEF ChunksDone, AtChunk
<1>7. Local(rows, s)
  BY <1>1, <1>2, <1>3, <1>6 DEF Local, AtChunk, PartsDone, TurnsDone, ClaimsDone
<1> QED BY <1>4, <1>7, ReadStep

LEMMA AskFailsStep == ASSUME IInv, NEW p \in Procs, AskFails(p) PROVE IInv'
<1> DEFINE c == run[p]
           r == [c EXCEPT !.out = Mine(p).out, !.keys = Mine(p).keys, !.failed = TRUE,
                          !.clean = FALSE]
           s == [Recorded(r, {}, FALSE) EXCEPT !.at = "closed"]
<1>1. /\ AtChunk(rows, c) /\ Mine(p).keys \subseteq Quotes /\ Mine(p).out \subseteq Nat
      /\ KeysIn(rows, c.what, c.turn, Mine(p).keys)
  BY MineGood DEF AskFails
<1>2. /\ r \in RunType /\ r.failed /\ r.keys = Mine(p).keys /\ r.data = c.data
      /\ r.what = c.what /\ r.turn = c.turn /\ r.ids = c.ids
  BY <1>1 DEF AtChunk, RunType
<1>3. Save(p, s) /\ rows' = rows
  BY DEF AskFails
<1> HIDE DEF r
<1>4. InChunkWith(rows, r)
  BY <1>1, <1>2 DEF InChunkWith, AtChunk
<1>5. Local(rows, s)
  BY <1>2, <1>4, RecordedLocal
<1> QED BY <1>3, <1>5, SaveStep

LEMMA AskStep == ASSUME IInv, NEW p \in Procs, NEW refused \in BOOLEAN, Ask(p, refused) PROVE IInv'
<1> DEFINE r == run[p]
           todo == Says[r.what][r.turn] \ Mine(p).keys
           s == [r EXCEPT !.at = "claims", !.keys = Mine(p).keys, !.out = Mine(p).out,
                          !.todo = todo, !.failed = refused, !.clean = r.clean /\ ~refused]
<1>1. /\ AtChunk(rows, r) /\ Mine(p).keys \subseteq Quotes /\ Mine(p).out \subseteq Nat
      /\ KeysIn(rows, r.what, r.turn, Mine(p).keys)
  BY MineGood DEF Ask
<1>2. Says[r.what][r.turn] \subseteq Quotes
  BY <1>1, SaysAssumption DEF AtChunk
<1>3. SetRun(p, s) /\ rows' = rows
  BY DEF Ask
<1>4. todo \subseteq Quotes /\ Says[r.what][r.turn] \subseteq Mine(p).keys \cup todo
  BY <1>2
<1> HIDE DEF todo
<1>5. /\ s \in RunType /\ s.at = "claims" /\ s.keys = Mine(p).keys /\ s.todo = todo
      /\ s.data = r.data /\ s.what = r.what /\ s.turn = r.turn /\ s.ids = r.ids
  BY <1>1, <1>4 DEF AtChunk, RunType
<1> HIDE DEF s
<1>6. AtChunk(rows, s)
  BY <1>1, <1>5 DEF AtChunk
<1>7. Local(rows, s)
  BY <1>1, <1>4, <1>5, <1>6, InClaimsLocal
<1> QED BY <1>3, <1>7, ReadStep

\* A claim has been learned: the rows are now Q.
LEMMA LearnedLocal ==
  ASSUME IInv, NEW p \in Procs, At(p, "claims"), NEW q \in Quotes, NEW id \in Nat,
         NEW Q, Grows(rows, Q), Holds(Q, Item(p, q))
  PROVE  Local(Q, [run[p] EXCEPT !.at = "learned", !.todo = @ \ {q}, !.keys = @ \cup {q},
                                 !.out = @ \cup {id}])
<1> DEFINE r == run[p]
           s == [r EXCEPT !.at = "learned", !.todo = @ \ {q}, !.keys = @ \cup {q},
                          !.out = @ \cup {id}]
<1>1. r \in RunType /\ Local(Q, r) /\ r.at = "claims"
  BY LocalGrows DEF IInv, At
<1>2. InChunkWith(Q, r) /\ (~r.failed => Says[r.what][r.turn] \subseteq r.keys \cup r.todo)
  BY <1>1, ClaimsGood
<1>3. /\ s \in RunType /\ s.at = "learned" /\ s.keys = r.keys \cup {q}
      /\ s.todo = r.todo \ {q} /\ s.data = r.data /\ s.what = r.what /\ s.turn = r.turn
      /\ s.ids = r.ids /\ s.failed = r.failed
  BY <1>1 DEF RunType
<1> HIDE DEF s
<1>4. AtChunk(Q, s)
  BY <1>2, <1>3 DEF InChunkWith, AtChunk
<1>5. KeysIn(Q, s.what, s.turn, s.keys)
  BY <1>2, <1>3 DEF InChunkWith, KeysIn, Item
<1>6. Local(Q, s)
  BY <1>2, <1>3, <1>4, <1>5, InClaimsLocal
<1> QED BY <1>6 DEF s

\* What a claim cites has its turn.
LEMMA CitedTurn ==
  ASSUME IInv, NEW p \in Procs, At(p, "claims")
  PROVE  /\ Cited(p) \subseteq Nat
         /\ \E s \in Cited(p) : /\ s \in 1..Len(rows)
                               /\ <<run[p].what, run[p].turn, None>> \in rows[s].says
         /\ run[p].what \in Texts /\ run[p].turn \in Nat
<1> DEFINE r == run[p]
<1>1. InChunkWith(rows, r) /\ r \in RunType
  BY ClaimsGood DEF IInv, At
<1>2. /\ r.turn \in 1..Turns /\ Turns \in Nat /\ Len(r.ids) = Turns /\ r.ids \in Seq(Nat)
      /\ TurnsIn(rows, r.ids, r.what) /\ r.what \in Texts
  BY <1>1, TurnsAssumption DEF InChunkWith, AtChunk, RunType
<1>3. r.ids[r.turn] \in Cited(p)
  BY <1>2 DEF Cited
<1>4. Cited(p) \subseteq Nat
  BY <1>2 DEF Cited
<1>5. r.ids[r.turn] \in 1..Len(rows) /\ <<r.what, r.turn, None>> \in rows[r.ids[r.turn]].says
  BY <1>2 DEF TurnsIn
<1> QED BY <1>2, <1>3, <1>4, <1>5

\* A claim that is stored, or folded into the memory m.
LEMMA ClaimAdded ==
  ASSUME IInv, NEW p \in Procs, At(p, "claims"), NEW q \in Quotes, Adds(p, q)
  PROVE  RowsGood(rows') /\ Grows(rows, rows') /\ Holds(rows', Item(p, q))
<1> DEFINE thing == Item(p, q)
<1>1. rows' = Append(rows, Row(thing, Cited(p)))
  BY DEF Adds
<1>2. thing \in Statements /\ thing[1] = run[p].what /\ thing[2] = run[p].turn
  BY CitedTurn DEF Statements, Item
<1>3. Cited(p) \in SUBSET Nat
  BY CitedTurn
<1>4. \E i \in Cited(p) : i \in 1..Len(rows) /\ <<thing[1], thing[2], None>> \in rows[i].says
  BY <1>2, CitedTurn
<1> HIDE DEF thing
<1> QED BY <1>1, <1>2, <1>3, <1>4, NewRow DEF IInv, thing

LEMMA LearnNewStep == ASSUME IInv, NEW p \in Procs, NEW q \in Quotes, LearnNew(p, q) PROVE IInv'
<1> DEFINE s == [run[p] EXCEPT !.at = "learned", !.todo = @ \ {q}, !.keys = @ \cup {q},
                               !.out = @ \cup {Len(rows) + 1}]
<1>1. At(p, "claims") /\ Adds(p, q) /\ SetRun(p, s)
  BY DEF LearnNew, Learned
<1>2. RowsGood(rows') /\ Grows(rows, rows') /\ Holds(rows', Item(p, q))
  BY <1>1, ClaimAdded
<1>3. Len(rows) + 1 \in Nat
  BY <1>2 DEF Grows
<1>4. Local(rows', s)
  BY <1>1, <1>2, <1>3, LearnedLocal
<1> QED BY <1>1, <1>2, <1>4, SetStep

\* The claim thing is folded into the row m.
LEMMA FoldRow ==
  ASSUME NEW R, RowsGood(R), NEW m \in 1..Len(R), NEW thing \in Statements,
         NEW from \in SUBSET Nat,
         \E s \in from : s \in 1..Len(R) /\ <<thing[1], thing[2], None>> \in R[s].says
  PROVE  LET Q == [R EXCEPT ![m].says = @ \cup {thing}, ![m].from = @ \cup from]
         IN RowsGood(Q) /\ Grows(R, Q) /\ Holds(Q, thing)
<1> DEFINE x == [R[m] EXCEPT !.says = @ \cup {thing}, !.from = @ \cup from]
           Q == [R EXCEPT ![m].says = @ \cup {thing}, ![m].from = @ \cup from]
<1>1. R \in Seq(RowType) /\ R[m] \in RowType /\ Len(R) \in Nat
  BY DEF RowsGood
<1>2. x \in RowType /\ x.says = R[m].says \cup {thing} /\ x.from = R[m].from \cup from
  BY <1>1 DEF RowType
<1>3. Q = [R EXCEPT ![m] = x]
  BY <1>1
<1> HIDE DEF x, Q
<1>4. /\ Q \in Seq(RowType) /\ Len(Q) = Len(R)
      /\ \A i \in 1..Len(R) : Q[i] = IF i = m THEN x ELSE R[i]
  BY <1>1, <1>2, <1>3
<1>5. /\ Grows(R, Q)
      /\ \A i \in 1..Len(R) : R[i].from \subseteq Q[i].from
  BY <1>1, <1>2, <1>4 DEF Grows
<1>6. Cites(Q)
  <2> SUFFICES ASSUME NEW i \in 1..Len(R), NEW t \in Q[i].says, t[3] # None
               PROVE  \E s \in Q[i].from :
                        s \in 1..Len(R) /\ <<t[1], t[2], None>> \in Q[s].says
    BY <1>4 DEF Cites
  <2>1. CASE t \in R[i].says
    <3>1. PICK s \in R[i].from : s \in 1..Len(R) /\ <<t[1], t[2], None>> \in R[s].says
      BY <2>1 DEF RowsGood, Cites
    <3> QED BY <3>1, <1>5 DEF Grows
  <2>2. CASE i = m /\ t = thing
    <3>1. PICK s \in from : s \in 1..Len(R) /\ <<thing[1], thing[2], None>> \in R[s].says
      OBVIOUS
    <3>2. s \in Q[i].from /\ <<thing[1], thing[2], None>> \in Q[s].says
      BY <2>2, <3>1, <1>2, <1>4, <1>5 DEF Grows
    <3> QED BY <2>2, <3>1, <3>2
  <2> QED BY <2>1, <2>2, <1>2, <1>4
<1>7. thing \in Q[m].says
  BY <1>2, <1>4
<1>8. Holds(Q, thing)
  BY <1>4, <1>7 DEF Holds
<1> QED BY <1>4, <1>5, <1>6, <1>8 DEF Q, RowsGood

LEMMA ClaimFolded ==
  ASSUME IInv, NEW p \in Procs, At(p, "claims"), NEW q \in Quotes, NEW m \in Ids, Folds(p, q, m)
  PROVE  RowsGood(rows') /\ Grows(rows, rows') /\ Holds(rows', Item(p, q))
<1> DEFINE thing == Item(p, q)
<1>1. /\ m \in 1..Len(rows)
      /\ rows' = [rows EXCEPT ![m].says = @ \cup {thing}, ![m].from = @ \cup Cited(p)]
  BY DEF Folds, Ids
<1>2. thing \in Statements /\ thing[1] = run[p].what /\ thing[2] = run[p].turn
  BY CitedTurn DEF Statements, Item
<1>3. Cited(p) \in SUBSET Nat
  BY CitedTurn
<1>4. \E i \in Cited(p) : i \in 1..Len(rows) /\ <<thing[1], thing[2], None>> \in rows[i].says
  BY <1>2, CitedTurn
<1> HIDE DEF thing
<1> QED BY <1>1, <1>2, <1>3, <1>4, FoldRow DEF IInv, thing

LEMMA LearnFoldsStep ==
  ASSUME IInv, NEW p \in Procs, NEW q \in Quotes, NEW m \in Ids, LearnFolds(p, q, m)
  PROVE  IInv'
<1> DEFINE s == [run[p] EXCEPT !.at = "learned", !.todo = @ \ {q}, !.keys = @ \cup {q},
                               !.out = @ \cup {m}]
<1>1. At(p, "claims") /\ SetRun(p, s) /\ m \in Nat /\ Folds(p, q, m)
  BY DEF LearnFolds, Learned, Ids
<1>2. RowsGood(rows') /\ Grows(rows, rows') /\ Holds(rows', Item(p, q))
  BY <1>1, ClaimFolded
<1>3. Local(rows', s)
  BY <1>1, <1>2, LearnedLocal
<1> QED BY <1>1, <1>2, <1>3, SetStep

LEMMA LearnFailsStep == ASSUME IInv, NEW p \in Procs, LearnFails(p) PROVE IInv'
<1> DEFINE r == run[p]
           s == [r EXCEPT !.todo = {}, !.failed = TRUE, !.clean = FALSE]
<1>1. r \in RunType /\ r.at = "claims" /\ InChunkWith(rows, r) /\ At(p, "claims")
  BY ClaimsGood DEF IInv, LearnFails, At
<1>2. PICK q \in r.todo : rows' = rows \/ Adds(p, q) \/ \E m \in Ids : Folds(p, q, m)
  BY DEF LearnFails
<1>3. RowsGood(rows') /\ Grows(rows, rows')
  <2>1. q \in Quotes
    BY <1>1 DEF RunType
  <2>2. CASE rows' = rows
    BY <2>2, SameGrows DEF IInv, RowsGood
  <2> QED BY <1>1, <1>2, <2>1, <2>2, ClaimAdded, ClaimFolded
<1>4. SetRun(p, s)
  BY DEF LearnFails
<1>5. /\ s \in RunType /\ s.at = "claims" /\ s.failed /\ s.data = r.data /\ s.what = r.what
      /\ s.turn = r.turn /\ s.ids = r.ids /\ s.keys = r.keys
  BY <1>1 DEF RunType
<1> HIDE DEF s
<1>6. AtChunk(rows, s) /\ KeysIn(rows, s.what, s.turn, s.keys)
  BY <1>1, <1>5 DEF InChunkWith, AtChunk
<1>7. Local(rows', s)
  BY <1>3, <1>5, <1>6, InClaimsLocal, LocalGrows
<1> QED BY <1>3, <1>4, <1>7, SetStep

LEMMA NoteClaimStep == ASSUME IInv, NEW p \in Procs, NoteClaim(p) PROVE IInv'
<1>1. /\ InChunkWith(rows, run[p])
      /\ ~run[p].failed => Says[run[p].what][run[p].turn] \subseteq run[p].keys \cup run[p].todo
  BY ClaimsGood DEF IInv, NoteClaim, At
<1>2. Local(rows, [Recorded(run[p], {}, FALSE) EXCEPT !.at = "noted"])
  BY <1>1, RecordedLocal
<1> QED BY <1>2, SaveStep DEF NoteClaim

LEMMA NoteKeysStep == ASSUME IInv, NEW p \in Procs, NoteKeys(p) PROVE IInv'
<1>1. /\ InChunkWith(rows, run[p])
      /\ ~run[p].failed => Says[run[p].what][run[p].turn] \subseteq run[p].keys \cup run[p].todo
  BY ClaimsGood DEF IInv, NoteKeys, At
<1>2. Local(rows, [Recorded(run[p], run[p].keys, FALSE) EXCEPT !.at = "claims"])
  BY <1>1, RecordedLocal
<1> QED BY <1>2, SaveStep DEF NoteKeys

LEMMA CloseChunkStep == ASSUME IInv, NEW p \in Procs, CloseChunk(p) PROVE IInv'
<1>1. /\ InChunkWith(rows, run[p]) /\ run[p] \in RunType
      /\ ~run[p].failed => Says[run[p].what][run[p].turn] \subseteq run[p].keys
  BY ClaimsGood DEF IInv, CloseChunk, At
<1>3. Local(rows, [Recorded(run[p], {}, ~run[p].failed) EXCEPT !.at = "closed"])
  BY <1>1, RecordedLocal
<1> QED BY <1>3, SaveStep DEF CloseChunk

LEMMA CloseKeysStep == ASSUME IInv, NEW p \in Procs, CloseKeys(p) PROVE IInv'
<1> DEFINE r == run[p]
           t == Recorded(r, r.keys, ~r.failed)
           s == [t EXCEPT !.at = "chunk", !.turn = r.turn + 1]
<1>1. /\ InChunkWith(rows, r) /\ r \in RunType
      /\ ~r.failed => Says[r.what][r.turn] \subseteq r.keys
  BY ClaimsGood DEF IInv, CloseKeys, At
<1>2. /\ AtChunk(rows, t) /\ t.data.chunk[r.turn].text = r.what
      /\ t.what = r.what /\ t.turn = r.turn
  BY <1>1, RecordedGood, ZenonT(40)
<1>3. Save(p, s) /\ rows' = rows
  BY DEF CloseKeys
<1>4. r.turn \in 1..Turns /\ Turns \in Nat
  BY <1>1, TurnsAssumption DEF InChunkWith, AtChunk
<1> HIDE DEF t
<1>5. t \in RunType /\ t.what = r.what /\ t.turn = r.turn
  BY <1>2 DEF AtChunk
<1>6. /\ s \in RunType /\ s.at = "chunk" /\ s.data = t.data /\ s.what = t.what
      /\ s.ids = t.ids /\ s.turn = t.turn + 1
  <2>1. r.turn + 1 \in Nat
    BY <1>4
  <2>2. s \in RunType
    BY <1>5, <2>1 DEF RunType
  <2>3. /\ s.at = "chunk" /\ s.data = t.data /\ s.what = t.what /\ s.ids = t.ids
        /\ s.turn = r.turn + 1
    BY <1>5 DEF RunType
  <2> QED BY <1>5, <2>2, <2>3
<1> HIDE DEF s
<1>7. \A n \in 1..(s.turn - 1) : s.data.chunk[n] # None => s.data.chunk[n].text = s.what
  BY <1>2, <1>4, <1>5, <1>6 DEF AtChunk
<1>8. ChunksDone(s)
  BY <1>2, <1>4, <1>5, <1>6, <1>7 DEF ChunksDone, AtChunk
<1>9. Local(rows, s)
  BY <1>2, <1>6, <1>4, <1>8 DEF Local, AtChunk, PartsDone, TurnsDone, ClaimsDone
<1> QED BY <1>3, <1>9, SaveStep

\* All chunks are behind it.
LEMMA AllBehind ==
  ASSUME IInv, NEW p \in Procs, run[p].at \in {"chunk", "finish"}, run[p].turn > Turns
  PROVE  LET r == run[p] IN
         /\ r \in RunType /\ r.data \in ManifestType /\ Good(rows, r.data)
         /\ r.what \in Texts /\ r.ids \in Seq(Nat) /\ Len(r.ids) = Turns
         /\ TurnsIn(rows, r.ids, r.what)
         /\ \A n \in 1..Turns : r.data.chunk[n] # None => r.data.chunk[n].text = r.what
         /\ r.turn = Turns + 1
<1> DEFINE r == run[p]
<1>1. r \in RunType /\ Local(rows, r) /\ Turns \in Nat
  BY TurnsAssumption DEF IInv
<1>2. r.turn = Turns + 1
  BY <1>1 DEF Local, ChunksDone
<1>3. \A n \in 1..Turns : r.data.chunk[n] # None => r.data.chunk[n].text = r.what
  BY <1>1, <1>2 DEF Local, ChunksDone
<1> QED BY <1>1, <1>2, <1>3 DEF RunType, Local, TurnsDone, ChunksDone

LEMMA FinishStep == ASSUME IInv, NEW p \in Procs, Finish(p) PROVE IInv'
<1> DEFINE r == run[p]
           o == Overall(r.what, <<>>, FALSE)
           d == [r.data EXCEPT !.over = o]
           s == [r EXCEPT !.data.over = o, !.at = "finish"]
<1>0. /\ r \in RunType /\ r.data \in ManifestType /\ Good(rows, r.data) /\ r.what \in Texts
      /\ r.ids \in Seq(Nat) /\ Len(r.ids) = Turns /\ TurnsIn(rows, r.ids, r.what)
      /\ \A n \in 1..Turns : r.data.chunk[n] # None => r.data.chunk[n].text = r.what
      /\ r.turn = Turns + 1
  BY AllBehind DEF Finish, At
<1>1. o \in OverType /\ o.ids = <<>> /\ o.text = r.what /\ ~o.done
  BY <1>0 DEF Overall, OverType
<1>2. Len(o.ids) <= Turns /\ TurnsIn(rows, o.ids, o.text)
  <2>1. TurnsIn(rows, <<>>, r.what) /\ Len(<<>>) <= Turns
    BY TurnsAssumption DEF TurnsIn
  <2> HIDE DEF o
  <2> QED BY <1>1, <2>1
<1> HIDE DEF o
<1>3. d \in ManifestType /\ Good(rows, d) /\ d.over = o /\ d.chunk = r.data.chunk
  BY <1>0, <1>1, <1>2, SetOver
<1>4. s = [r EXCEPT !.data = d, !.at = "finish"]
  BY <1>0 DEF RunType
<1>5. Save(p, s) /\ rows' = rows
  BY DEF Finish, o
<1> HIDE DEF d
<1>6. /\ s \in RunType /\ s.at = "finish" /\ s.data = d /\ s.what = r.what /\ s.ids = r.ids
      /\ s.turn = r.turn
  BY <1>0, <1>3, <1>4 DEF RunType
<1> HIDE DEF s
<1>7. ChunksDone(s)
  BY <1>0, <1>3, <1>6, TurnsAssumption DEF ChunksDone
<1>8. Local(rows, s)
  BY <1>0, <1>3, <1>6, <1>7, TurnsAssumption DEF Local, PartsDone, TurnsDone, ClaimsDone
<1> QED BY <1>5, <1>8, SaveStep

LEMMA CompleteStep == ASSUME IInv, NEW p \in Procs, Complete(p) PROVE IInv'
<1> DEFINE r == run[p]
           done == AllChunksComplete(r.data)
           o == Overall(r.what, r.ids, done)
           d == [r.data EXCEPT !.over = o]
           s == [r EXCEPT !.data.over = o, !.at = "ended"]
<1>0. /\ r \in RunType /\ r.data \in ManifestType /\ Good(rows, r.data) /\ r.what \in Texts
      /\ r.ids \in Seq(Nat) /\ Len(r.ids) = Turns /\ TurnsIn(rows, r.ids, r.what)
      /\ \A n \in 1..Turns : r.data.chunk[n] # None => r.data.chunk[n].text = r.what
  <2>1. run[p].at = "finish" /\ run[p].turn > Turns
    BY TurnsAssumption DEF Complete, At, IInv, Local, ChunksDone
  <2> QED BY <2>1, AllBehind
<1>1. done \in BOOLEAN
  BY DEF AllChunksComplete
<1>2. done => \A n \in 1..Turns : KeysIn(rows, r.what, n, Says[r.what][n])
  BY <1>0 DEF AllChunksComplete, Good, GoodChunks
<1>3. \A n \in 1..Turns : Holds(rows, <<r.what, n, None>>)
  BY <1>0 DEF TurnsIn, Holds
<1> HIDE DEF done
<1>4. o \in OverType /\ o.ids = r.ids /\ o.text = r.what /\ o.done = done
  BY <1>0, <1>1 DEF Overall, OverType
<1> HIDE DEF o
<1>5. Len(o.ids) <= Turns
  BY <1>0, <1>4, TurnsAssumption
<1>6. o.done => \A n \in 1..Turns :
        Holds(rows, <<o.text, n, None>>) /\ KeysIn(rows, o.text, n, Says[o.text][n])
  BY <1>2, <1>3, <1>4
<1>7. d \in ManifestType /\ Good(rows, d)
  BY <1>0, <1>4, <1>5, <1>6, SetOver
<1>8. s = [r EXCEPT !.data = d, !.at = "ended"]
  BY <1>0 DEF RunType
<1>9. Save(p, s) /\ rows' = rows
  BY DEF Complete, o, done
<1> HIDE DEF d
<1>10. s \in RunType /\ s.at = "ended" /\ s.data = d
  BY <1>0, <1>7, <1>8 DEF RunType
<1> HIDE DEF s
<1>11. Local(rows, s)
  BY <1>7, <1>10 DEF Local, PartsDone, TurnsDone, ChunksDone, ClaimsDone
<1> QED BY <1>9, <1>11, SaveStep

\* The memory that a failing call may have stored.
LEMMA FailedStore ==
  ASSUME IInv, NEW p \in Procs, StoreFails(p)
  PROVE  /\ run[p].what \in Sources \cup Texts
         /\ \/ rows' = rows
            \/ \E n \in Nat : rows' = Append(rows, Row(<<run[p].what, n, None>>, {}))
<1> DEFINE r == run[p]
<1>1. r \in RunType /\ Local(rows, r) /\ (r.at = "parts" \/ r.at = "sources")
  BY DEF IInv, StoreFails, At
<1>2. r.what \in Sources \cup Texts /\ r.turn + 1 \in Nat /\ Len(r.ids) + 1 \in Nat
  BY <1>1 DEF Local, RunType
<1> QED BY <1>2 DEF StoreFails

LEMMA StoreFailsStep == ASSUME IInv, NEW p \in Procs, StoreFails(p) PROVE IInv'
<1> DEFINE r == run[p]
           s == [r EXCEPT !.at = "ended", !.clean = FALSE]
<1>1. r \in RunType /\ Local(rows, r)
  BY DEF IInv
<1>2. SetRun(p, s)
  BY DEF StoreFails
<1>3. s \in RunType /\ s.at = "ended" /\ s.data = r.data
  BY <1>1 DEF RunType
<1>4. RowsGood(rows') /\ Grows(rows, rows')
  <2>1. CASE rows' = rows
    BY <2>1, SameGrows DEF IInv, RowsGood
  <2>2. ASSUME NEW n \in Nat, rows' = Append(rows, Row(<<r.what, n, None>>, {}))
        PROVE  RowsGood(rows') /\ Grows(rows, rows')
    <3> DEFINE thing == <<r.what, n, None>>
    <3>1. thing \in Statements /\ thing[3] = None
      BY FailedStore DEF Statements
    <3>2. {} \in SUBSET Nat
      OBVIOUS
    <3> HIDE DEF thing
    <3> QED BY <2>2, <3>1, <3>2, NewRow DEF IInv, thing
  <2> QED BY <2>1, <2>2, FailedStore
<1> HIDE DEF s
<1>5. Local(rows, s)
  BY <1>1, <1>3 DEF Local, PartsDone, TurnsDone, ChunksDone, ClaimsDone
<1> QED BY <1>2, <1>4, <1>5, LocalGrows, SetStep

LEMMA CrashStep == ASSUME IInv, NEW p \in Procs, Crash(p) PROVE IInv'
BY NoRunGood, ReadStep DEF Crash

LEMMA RemoveStep ==
  ASSUME IInv, NEW m, NEW how, Remove(m, how) PROVE IInv'
<1>1. /\ rows \in Seq(RowType) /\ m \in 1..Len(rows) /\ how \in {"trashed", "purged"}
      /\ rows' = [rows EXCEPT ![m].gone = how]
  BY DEF IInv, RowsGood, Remove, Ids
<1> DEFINE x == [rows[m] EXCEPT !.gone = how]
<1>0. rows[m] \in RowType
  BY <1>1
<1>2. x \in RowType /\ x.says = rows[m].says /\ x.from = rows[m].from
  BY <1>0, <1>1 DEF RowType
<1>3. rows' = [rows EXCEPT ![m] = x]
  BY <1>1
<1> HIDE DEF x
<1>4. /\ rows' \in Seq(RowType) /\ Len(rows') = Len(rows) /\ Len(rows) \in Nat
      /\ \A i \in 1..Len(rows) : rows'[i].says = rows[i].says /\ rows'[i].from = rows[i].from
  BY <1>1, <1>2, <1>3
<1>5. Grows(rows, rows')
  BY <1>4 DEF Grows
<1>6. Cites(rows')
  BY <1>4 DEF IInv, RowsGood, Cites
<1>7. file' = file /\ run' = run
  BY DEF Remove
<1>8. /\ file' # None => Good(rows', file')
      /\ \A p \in Procs : Local(rows', run'[p])
  BY <1>5, <1>7, GoodGrows, LocalGrows DEF IInv
<1> QED BY <1>4, <1>6, <1>7, <1>8 DEF IInv, RowsGood

LEMMA NextInv == ASSUME IInv, [Next]_vars PROVE IInv'
<1>1. CASE UNCHANGED vars
  BY <1>1 DEF vars, IInv
<1>2. ASSUME NEW p \in Procs, ConversationStep(p) PROVE IInv'
  BY <1>2, RecordTextStep, ReuseStep, StoreTurnStep, NoteTurnStep, SourcedStep, SkipChunkStep,
     AskFailsStep, AskStep, LearnNewStep, LearnFoldsStep, LearnFailsStep, NoteClaimStep,
     NoteKeysStep, CloseChunkStep, CloseKeysStep, FinishStep, CompleteStep
     DEF ConversationStep
<1>3. CASE Next
  BY <1>2, <1>3, StartStep, StartTextStep, FillStep, UnchangedStep, StorePartStep,
     RecordSourceStep, StoreFailsStep, CrashStep, RemoveStep DEF Next
<1> QED BY <1>1, <1>3

\* The invariant holds in every behaviour.
THEOREM Invariance == Spec => []IInv
BY InitInv, NextInv, PTL DEF Spec

\* No entry that is passed over stands for something that was not stored, for any number of
\* captures, kills, torn writes and removed memories (CaptureManifest, parse_text).
THEOREM ManifestsHonest == Spec => []EntriesHonest
<1>1. IInv => EntriesHonest
  <2> SUFFICES ASSUME IInv, NEW m \in Manifests
               PROVE  HonestSources(m) /\ HonestChunks(m) /\ HonestOverall(m)
    BY DEF EntriesHonest
  <2>1. Good(rows, m)
    BY DEF Manifests, IInv, Local
  <2>2. \A thing : Holds(rows, thing) => Stored(thing)
    BY DEF Holds, Stored, Ids
  <2>3. HonestSources(m)
    BY <2>1, <2>2 DEF HonestSources, SourceStored, Good, GoodSources, SourceIn
  <2>4. HonestChunks(m)
    BY <2>1, <2>2 DEF HonestChunks, ClaimsStored, Good, GoodChunks, KeysIn
  <2>5. HonestOverall(m)
    BY <2>1, <2>2 DEF HonestOverall, TurnStored, ClaimsStored, Good, GoodOver, KeysIn
  <2> QED BY <2>3, <2>4, <2>5
<1> QED BY <1>1, Invariance, PTL

\* Claims cite the version of the text that they were found in (_prepare_source_episodes).
THEOREM ClaimsCiteTheirText == Spec => []EvidenceOfItsText
<1>1. IInv => EvidenceOfItsText
  BY DEF IInv, RowsGood, Cites, EvidenceOfItsText, Ids
<1> QED BY <1>1, Invariance, PTL

(***************************************************************************)
(* A capture in which nothing failed has completed every chunk behind it,   *)
(* and, at its end, the conversation.                                       *)
(***************************************************************************)
ChunkDone(d, n) == d.chunk[n] # None /\ d.chunk[n].done
Smooth(r) == r.clean /\ r.what \in Texts =>
  /\ ~r.failed
  /\ r.at \in InChunks => \A n \in 1..(r.turn - 1) : ChunkDone(r.data, n)
  /\ r.at = "ended" => r.data.over # None /\ r.data.over.text = r.what /\ r.data.over.done

AllSmooth == \A p \in Procs : Smooth(run[p])

LEMMA SmoothStep ==
  ASSUME IInv, AllSmooth, NEW p \in Procs, NEW r, Smooth(r),
         \/ SetRun(p, r)
         \/ Save(p, r) /\ r \in RunType
         \/ run' = [run EXCEPT ![p] = r]
  PROVE  AllSmooth'
<1>1. CASE run' = [run EXCEPT ![p] = r]
  BY <1>1 DEF AllSmooth, IInv
<1>2. CASE Save(p, r) /\ r \in RunType
  <2> DEFINE s == [r EXCEPT !.saving = TRUE]
  <2>1. /\ s.at = r.at /\ s.what = r.what /\ s.clean = r.clean /\ s.failed = r.failed
        /\ s.turn = r.turn /\ s.data = r.data
    BY <1>2 DEF RunType
  <2>2. run' = [run EXCEPT ![p] = s]
    BY <1>2 DEF Save
  <2> HIDE DEF s
  <2>3. Smooth(s)
    BY <2>1 DEF Smooth
  <2> QED BY <2>2, <2>3 DEF AllSmooth, IInv
<1> QED BY <1>1, <1>2 DEF SetRun

\* The steps that neither end a capture of the conversation nor touch a chunk.
LEMMA SmoothBefore ==
  ASSUME IInv, AllSmooth, NEW p \in Procs,
         \/ Fill(p) \/ Unchanged(p) \/ StorePart(p) \/ RecordSource(p)
         \/ RecordText(p) \/ Reuse(p) \/ StoreTurn(p) \/ NoteTurn(p) \/ Sourced(p)
         \/ (\E s \in Sources : Start(p, s)) \/ StoreFails(p) \/ Crash(p)
  PROVE  AllSmooth'
<1> DEFINE r == run[p]
<1>0. r \in RunType /\ Local(rows, r) /\ Smooth(r)
  BY DEF IInv, AllSmooth
<1>1. CASE Fill(p)
  <2> DEFINE s == [r EXCEPT !.saving = FALSE]
  <2>1. /\ s.at = r.at /\ s.what = r.what /\ s.clean = r.clean /\ s.failed = r.failed
        /\ s.turn = r.turn /\ s.data = r.data
    BY <1>0 DEF RunType
  <2>2. run' = [run EXCEPT ![p] = s]
    BY <1>0, <1>1 DEF Fill, RunType, IInv
  <2> HIDE DEF s
  <2>3. Smooth(s)
    BY <1>0, <2>1 DEF Smooth
  <2> QED BY <2>2, <2>3, SmoothStep
<1>2. CASE Unchanged(p)
  <2> DEFINE s == [r EXCEPT !.at = "ended"]
  <2>1. s \in RunType /\ s.what = r.what /\ r.what \in Sources
    BY <1>0, <1>2 DEF RunType, Unchanged, At, Local
  <2>2. Smooth(s)
    BY <2>1, SourcesAssumption DEF Smooth
  <2> QED BY <1>2, <2>1, <2>2, SmoothStep DEF Unchanged
<1>3. CASE StorePart(p)
  <2> DEFINE s == [r EXCEPT !.turn = r.turn + 1]
  <2>1. s.what = r.what /\ r.what \in Sources
    BY <1>0, <1>3 DEF RunType, StorePart, At, Local
  <2>2. Smooth(s)
    BY <2>1, SourcesAssumption DEF Smooth
  <2> QED BY <1>3, <2>2, SmoothStep DEF StorePart
<1>4. CASE RecordSource(p)
  <2> DEFINE d == [r.data EXCEPT !.source[Identity[r.what]] = r.what]
             s == [r EXCEPT !.data = d, !.at = "ended"]
  <2>1. r.what \in Sources /\ r.data \in ManifestType
    BY <1>0, <1>4 DEF RunType, RecordSource, At, Local
  <2>2. d \in ManifestType
    BY <2>1 DEF ManifestType, Keys
  <2>3. Save(p, s)
    BY <1>0, <1>4 DEF RecordSource, RunType
  <2> HIDE DEF d
  <2>4. s \in RunType /\ s.what = r.what
    BY <1>0, <2>2 DEF RunType
  <2> HIDE DEF s
  <2>5. Smooth(s)
    BY <2>1, <2>4, SourcesAssumption DEF Smooth
  <2> QED BY <2>3, <2>4, <2>5, SmoothStep
<1>5. CASE RecordText(p)
  <2> DEFINE o == Overall(r.what, <<>>, FALSE)
             d == [r.data EXCEPT !.over = o]
             s == [r EXCEPT !.data = d, !.at = "reuse"]
  <2>1. r.what \in Texts /\ r.data \in ManifestType
    BY <1>0, <1>5 DEF RunType, RecordText, At, Local
  <2>2. d \in ManifestType
    <3>1. o \in OverType
      BY <2>1 DEF OverType, Overall
    <3> HIDE DEF o
    <3> QED BY <2>1, <3>1 DEF ManifestType
  <2>3. Save(p, s)
    BY <1>0, <1>5 DEF RecordText, RunType
  <2> HIDE DEF d
  <2>4. /\ s \in RunType /\ s.what = r.what /\ s.clean = r.clean /\ s.failed = r.failed
        /\ s.at = "reuse"
    BY <1>0, <2>2 DEF RunType
  <2> HIDE DEF s
  <2>5. Smooth(s)
    BY <1>0, <2>4 DEF Smooth
  <2> QED BY <2>3, <2>4, <2>5, SmoothStep
<1>6. CASE Reuse(p)
  <2>1. PICK ids : SetRun(p, [r EXCEPT !.ids = ids, !.at = "sources"])
    BY <1>6 DEF Reuse
  <2> DEFINE s == [r EXCEPT !.ids = ids, !.at = "sources"]
  <2>2. s.what = r.what /\ s.clean = r.clean /\ s.failed = r.failed /\ s.at = "sources"
    BY <1>0 DEF RunType
  <2> HIDE DEF s
  <2>3. Smooth(s)
    BY <1>0, <2>2 DEF Smooth
  <2> QED BY <2>1, <2>3, SmoothStep DEF s
<1>7. CASE StoreTurn(p)
  <2> DEFINE s == [r EXCEPT !.ids = Append(r.ids, Len(rows) + 1), !.at = "stored"]
  <2>1. SetRun(p, s)
    BY <1>7 DEF StoreTurn
  <2>2. s.what = r.what /\ s.clean = r.clean /\ s.failed = r.failed /\ s.at = "stored"
    BY <1>0 DEF RunType
  <2> HIDE DEF s
  <2>3. Smooth(s)
    BY <1>0, <2>2 DEF Smooth
  <2> QED BY <2>1, <2>3, SmoothStep
<1>8. CASE NoteTurn(p)
  <2> DEFINE o == [r.data.over EXCEPT !.ids = r.ids]
             d == [r.data EXCEPT !.over = o]
             s == [r EXCEPT !.data = d, !.at = "sources"]
  <2>1. r.data.over \in OverType /\ r.data \in ManifestType /\ r.ids \in Seq(Nat)
    BY <1>0, <1>8 DEF RunType, NoteTurn, At, Local
  <2>2. d \in ManifestType
    BY <2>1 DEF ManifestType, OverType
  <2>3. Save(p, s)
    BY <1>0, <1>8 DEF NoteTurn, RunType, ManifestType
  <2> HIDE DEF d
  <2>4. /\ s \in RunType /\ s.what = r.what /\ s.clean = r.clean /\ s.failed = r.failed
        /\ s.at = "sources"
    BY <1>0, <2>2 DEF RunType
  <2> HIDE DEF s
  <2>5. Smooth(s)
    BY <1>0, <2>4 DEF Smooth
  <2> QED BY <2>3, <2>4, <2>5, SmoothStep
<1>9. CASE Sourced(p)
  <2> DEFINE o == Overall(r.what, r.ids, FALSE)
             d == [r.data EXCEPT !.over = o]
             s == [r EXCEPT !.data = d, !.at = "chunk", !.turn = 1]
  <2>1. r.what \in Texts /\ r.data \in ManifestType /\ r.ids \in Seq(Nat)
    BY <1>0, <1>9 DEF RunType, Sourced, At, Local
  <2>2. d \in ManifestType
    BY <2>1 DEF ManifestType, OverType, Overall
  <2>3. Save(p, s)
    BY <1>0, <1>9 DEF Sourced, RunType
  <2> HIDE DEF d
  <2>4. s \in RunType /\ s.what = r.what /\ s.clean = r.clean /\ s.failed = r.failed
        /\ s.at = "chunk" /\ s.turn = 1
    BY <1>0, <2>2 DEF RunType
  <2> HIDE DEF s
  <2>5. Smooth(s)
    BY <1>0, <2>4 DEF Smooth
  <2> QED BY <2>3, <2>4, <2>5, SmoothStep
<1>10. ASSUME NEW s \in Sources, Start(p, s) PROVE AllSmooth'
  <2>1. PICK at : SetRun(p, [NoRun EXCEPT !.at = at, !.what = s, !.data = Loaded])
    BY <1>10 DEF Start, Begin
  <2>2. Smooth([NoRun EXCEPT !.at = at, !.what = s, !.data = Loaded])
    BY SourcesAssumption DEF Smooth, NoRun
  <2> QED BY <2>1, <2>2, SmoothStep
<1>11. CASE StoreFails(p)
  <2> DEFINE s == [r EXCEPT !.at = "ended", !.clean = FALSE]
  <2>1. SetRun(p, s)
    BY <1>11 DEF StoreFails
  <2>2. s.clean = FALSE
    BY <1>0 DEF RunType
  <2> HIDE DEF s
  <2>3. Smooth(s)
    BY <2>2 DEF Smooth
  <2> QED BY <2>1, <2>3, SmoothStep
<1>12. CASE Crash(p)
  <2>1. NoRun.what = None
    BY DEF NoRun
  <2>2. Smooth(NoRun)
    BY <2>1, NoneAssumption DEF Smooth
  <2> QED BY <1>12, <2>2, SmoothStep DEF Crash
<1> QED
  BY <1>1, <1>2, <1>3, <1>4, <1>5, <1>6, <1>7, <1>8, <1>9, <1>10, <1>11, <1>12

LEMMA SmoothStart ==
  ASSUME IInv, AllSmooth, NEW p \in Procs, NEW t \in Texts, StartText(p, t) PROVE AllSmooth'
<1> DEFINE over == Loaded.over
           known == over # None /\ over.text = t
           place == IF ~known THEN "begin" ELSE IF over.done THEN "ended" ELSE "reuse"
           r == [NoRun EXCEPT !.what = t, !.data = Loaded, !.ids = Saved(over, t), !.at = place]
<1>1. SetRun(p, r)
  BY DEF StartText, Begin
<1>2. r.at = place /\ r.what = t /\ r.data = Loaded /\ r.failed = FALSE
  BY DEF NoRun
<1>3. /\ place \in {"begin", "ended", "reuse"}
      /\ place = "ended" => over # None /\ over.text = t /\ over.done
  <2>1. over # None => over.done \in BOOLEAN
    BY LoadedGood DEF ManifestType, OverType
  <2> QED BY <2>1
<1> HIDE DEF place, r
<1>4. Smooth(r)
  BY <1>2, <1>3 DEF Smooth
<1> QED BY <1>1, <1>4, SmoothStep

\* The chunk's entry is set; those before it stay.
LEMMA RecordedDone ==
  ASSUME NEW R, NEW r, InChunkWith(R, r), NEW K \in {{}, r.keys}, NEW done \in BOOLEAN,
         done => Says[r.what][r.turn] \subseteq r.keys
  PROVE  LET s == Recorded(r, K, done) IN
         /\ s \in RunType /\ s.clean = r.clean /\ s.failed = r.failed
         /\ s.what = r.what /\ s.turn = r.turn
         /\ \A n \in 1..(r.turn - 1) : ChunkDone(r.data, n) => ChunkDone(s.data, n)
         /\ done => ChunkDone(s.data, r.turn)
<1> DEFINE c == Chunk(r.what, K, r.out, done)
           d == [r.data EXCEPT !.chunk[r.turn] = c]
           s == Recorded(r, K, done)
<1>0. /\ r \in RunType /\ r.data \in ManifestType /\ r.turn \in 1..Turns /\ Turns \in Nat
      /\ s \in RunType /\ s.what = r.what /\ s.turn = r.turn /\ s.failed = r.failed
  <2>1. AtChunk(R, s) /\ s.what = r.what /\ s.turn = r.turn /\ s.failed = r.failed
    BY RecordedGood
  <2> HIDE DEF s
  <2> QED BY <2>1, TurnsAssumption DEF InChunkWith, AtChunk, RunType
<1>1. c.done = done /\ c # None
  <2>1. c.done = done /\ c.text = r.what /\ c \in ChunkType
    BY <1>0 DEF Chunk, ChunkType, RunType, InChunkWith, AtChunk
  <2> QED BY <2>1, NoneAssumption DEF ChunkType
<1> HIDE DEF c
<1>2. \A n \in 1..Turns : d.chunk[n] = IF n = r.turn THEN c ELSE r.data.chunk[n]
  BY <1>0 DEF ManifestType
<1>3. s = [r EXCEPT !.data = d]
  BY <1>0 DEF RunType, Recorded, c
<1> HIDE DEF d
<1>4. s.data = d /\ s.clean = r.clean
  BY <1>0, <1>3 DEF RunType
<1> HIDE DEF s
<1>5. \A n \in 1..(r.turn - 1) : ChunkDone(r.data, n) => ChunkDone(d, n)
  BY <1>0, <1>2 DEF ChunkDone
<1>6. done => ChunkDone(d, r.turn)
  BY <1>0, <1>1, <1>2 DEF ChunkDone
<1> QED BY <1>0, <1>4, <1>5, <1>6 DEF s

LEMMA SmoothClaims ==
  ASSUME IInv, AllSmooth, NEW p \in Procs,
         \/ NoteClaim(p) \/ NoteKeys(p) \/ CloseChunk(p) \/ CloseKeys(p)
  PROVE  AllSmooth'
<1> DEFINE r == run[p]
<1>0. r \in RunType /\ Local(rows, r) /\ Smooth(r) /\ r.at \in InClaims
  BY DEF IInv, AllSmooth, NoteClaim, NoteKeys, CloseChunk, CloseKeys, At
<1>1. /\ InChunkWith(rows, r) /\ r.turn \in 1..Turns /\ Turns \in Nat
      /\ ~r.failed => Says[r.what][r.turn] \subseteq
                        IF r.at = "closed" THEN r.keys ELSE r.keys \cup r.todo
  BY <1>0, ClaimsGood, TurnsAssumption DEF InChunkWith, AtChunk
\* A save that stays in the chunk.
<1>2. ASSUME NEW K \in {{}, r.keys}, NEW done \in BOOLEAN, NEW place \in InClaims,
             done => Says[r.what][r.turn] \subseteq r.keys,
             Save(p, [Recorded(r, K, done) EXCEPT !.at = place])
      PROVE  AllSmooth'
  <2> DEFINE t == Recorded(r, K, done)
             s == [t EXCEPT !.at = place]
  <2>1. /\ t \in RunType /\ t.clean = r.clean /\ t.failed = r.failed
        /\ t.what = r.what /\ t.turn = r.turn
        /\ \A n \in 1..(r.turn - 1) : ChunkDone(r.data, n) => ChunkDone(t.data, n)
    <3> HIDE DEF r
    <3> QED BY <1>1, <1>2, RecordedDone, ZenonT(40)
  <2> HIDE DEF t
  <2>2. /\ s \in RunType /\ s.at = place /\ s.clean = t.clean /\ s.failed = t.failed
        /\ s.what = t.what /\ s.turn = t.turn /\ s.data = t.data
    BY <2>1 DEF RunType
  <2>3. Save(p, s)
    BY <1>2 DEF t
  <2> HIDE DEF s
  <2>4. Smooth(s)
    BY <1>0, <1>2, <2>1, <2>2 DEF Smooth
  <2> QED BY <2>2, <2>3, <2>4, SmoothStep
<1>3. CASE NoteClaim(p)
  BY <1>2, <1>3 DEF NoteClaim
<1>4. CASE NoteKeys(p)
  BY <1>2, <1>4 DEF NoteKeys
<1>5. CASE CloseChunk(p)
  <2>1. ~r.failed => Says[r.what][r.turn] \subseteq r.keys
    BY <1>1, <1>5 DEF CloseChunk, At
  <2> QED BY <1>0, <1>2, <1>5, <2>1 DEF CloseChunk, RunType
<1>6. CASE CloseKeys(p)
  <2> DEFINE done == ~r.failed
             t == Recorded(r, r.keys, done)
             s == [t EXCEPT !.at = "chunk", !.turn = r.turn + 1]
  <2>1. done \in BOOLEAN /\ (done => Says[r.what][r.turn] \subseteq r.keys)
    BY <1>0, <1>1, <1>6 DEF CloseKeys, At, RunType
  <2>2. Save(p, s)
    BY <1>6 DEF CloseKeys
  <2>3. /\ t \in RunType /\ t.clean = r.clean /\ t.failed = r.failed
        /\ t.what = r.what /\ t.turn = r.turn
        /\ \A n \in 1..(r.turn - 1) : ChunkDone(r.data, n) => ChunkDone(t.data, n)
        /\ done => ChunkDone(t.data, r.turn)
    BY <1>1, <2>1, RecordedDone, ZenonT(40)
  <2> HIDE DEF t
  <2>4. r.turn + 1 \in Nat
    BY <1>1
  <2>5. /\ s \in RunType /\ s.at = "chunk" /\ s.clean = t.clean /\ s.failed = t.failed
        /\ s.what = t.what /\ s.turn = r.turn + 1 /\ s.data = t.data
    BY <2>3, <2>4 DEF RunType
  <2> HIDE DEF s
  <2>6. ASSUME s.clean, s.what \in Texts
        PROVE  ~s.failed /\ \A n \in 1..(s.turn - 1) : ChunkDone(s.data, n)
    <3>1. ~r.failed /\ done /\ \A n \in 1..(r.turn - 1) : ChunkDone(r.data, n)
      BY <1>0, <2>3, <2>5, <2>6 DEF Smooth
    <3>2. \A n \in 1..(s.turn - 1) : n \in 1..(r.turn - 1) \/ n = r.turn
      BY <1>1, <2>5
    <3> QED BY <2>3, <2>5, <3>1, <3>2
  <2>7. Smooth(s)
    BY <2>5, <2>6 DEF Smooth
  <2> QED BY <2>2, <2>5, <2>7, SmoothStep
<1> QED BY <1>3, <1>4, <1>5, <1>6

LEMMA SmoothChunks ==
  ASSUME IInv, AllSmooth, NEW p \in Procs,
         \/ SkipChunk(p) \/ AskFails(p) \/ (\E refused \in BOOLEAN : Ask(p, refused))
         \/ (\E q \in Quotes : LearnNew(p, q) \/ \E m \in Ids : LearnFolds(p, q, m))
         \/ LearnFails(p)
  PROVE  AllSmooth'
<1> DEFINE r == run[p]
<1>0. r \in RunType /\ Local(rows, r) /\ Smooth(r)
  BY DEF IInv, AllSmooth
<1>1. CASE SkipChunk(p)
  <2> DEFINE s == [r EXCEPT !.turn = r.turn + 1]
  <2>1. AtChunk(rows, r) /\ r.at = "chunk" /\ Mine(p).done
    BY <1>1, MineGood DEF SkipChunk
  <2>2. r.turn \in 1..Turns /\ Turns \in Nat
    BY <2>1, TurnsAssumption DEF AtChunk
  <2>3. ChunkDone(r.data, r.turn)
    <3>1. ~NoChunk.done
      BY DEF NoChunk, Chunk
    <3> QED BY <2>1, <3>1 DEF Mine, Entry, ChunkDone
  <2>4. /\ s.at = "chunk" /\ s.clean = r.clean /\ s.failed = r.failed
        /\ s.what = r.what /\ s.turn = r.turn + 1 /\ s.data = r.data
    BY <1>0, <2>1 DEF RunType
  <2>5. SetRun(p, s)
    BY <1>1 DEF SkipChunk
  <2> HIDE DEF s
  <2>6. \A n \in 1..(s.turn - 1) : n \in 1..(r.turn - 1) \/ n = r.turn
    BY <2>2, <2>4
  <2>7. Smooth(s)
    BY <1>0, <2>1, <2>3, <2>4, <2>6 DEF Smooth
  <2> QED BY <2>5, <2>7, SmoothStep
<1>2. CASE AskFails(p)
  <2> DEFINE c == [r EXCEPT !.out = Mine(p).out, !.keys = Mine(p).keys, !.failed = TRUE,
                            !.clean = FALSE]
             t == Recorded(c, {}, FALSE)
             s == [t EXCEPT !.at = "closed"]
  <2>1. /\ AtChunk(rows, r) /\ Mine(p).keys \subseteq Quotes /\ Mine(p).out \subseteq Nat
        /\ KeysIn(rows, r.what, r.turn, Mine(p).keys)
    BY <1>2, MineGood DEF AskFails
  <2>2. /\ c \in RunType /\ c.keys = Mine(p).keys /\ c.data = r.data
        /\ c.what = r.what /\ c.turn = r.turn /\ c.ids = r.ids /\ c.clean = FALSE
    BY <2>1 DEF AtChunk, RunType
  <2>3. Save(p, s)
    BY <1>2 DEF AskFails
  <2> HIDE DEF c
  <2>4. InChunkWith(rows, c)
    BY <2>1, <2>2 DEF InChunkWith, AtChunk
  <2>5. t \in RunType /\ t.clean = c.clean
    BY <2>4, RecordedDone
  <2> HIDE DEF t
  <2>6. s \in RunType /\ s.clean = FALSE
    BY <2>2, <2>5 DEF RunType
  <2> HIDE DEF s
  <2>7. Smooth(s)
    BY <2>6 DEF Smooth
  <2> QED BY <2>3, <2>6, <2>7, SmoothStep
<1>3. ASSUME NEW refused \in BOOLEAN, Ask(p, refused) PROVE AllSmooth'
  <2> DEFINE s == [r EXCEPT !.at = "claims", !.keys = Mine(p).keys, !.out = Mine(p).out,
                     !.todo = Says[r.what][r.turn] \ Mine(p).keys,
                     !.failed = refused, !.clean = r.clean /\ ~refused]
  <2>1. SetRun(p, s) /\ r.at = "chunk"
    BY <1>3 DEF Ask, InChunk, At
  <2>2. /\ s.at = "claims" /\ s.clean = (r.clean /\ ~refused) /\ s.failed = refused
        /\ s.what = r.what /\ s.turn = r.turn /\ s.data = r.data
    BY <1>0 DEF RunType
  <2> HIDE DEF s
  <2>3. Smooth(s)
    BY <1>0, <2>1, <2>2 DEF Smooth
  <2> QED BY <2>1, <2>3, SmoothStep
<1>4. ASSUME NEW q \in Quotes, NEW id, At(p, "claims"), Learned(p, q, id) PROVE AllSmooth'
  <2> DEFINE s == [r EXCEPT !.at = "learned", !.todo = @ \ {q}, !.keys = @ \cup {q},
                            !.out = @ \cup {id}]
  <2>1. SetRun(p, s) /\ r.at = "claims"
    BY <1>4 DEF Learned, At
  <2>2. /\ s.at = "learned" /\ s.clean = r.clean /\ s.failed = r.failed
        /\ s.what = r.what /\ s.turn = r.turn /\ s.data = r.data
    BY <1>0 DEF RunType
  <2> HIDE DEF s
  <2>3. Smooth(s)
    BY <1>0, <2>1, <2>2 DEF Smooth
  <2> QED BY <2>1, <2>3, SmoothStep
<1>5. CASE LearnFails(p)
  <2> DEFINE s == [r EXCEPT !.todo = {}, !.failed = TRUE, !.clean = FALSE]
  <2>1. SetRun(p, s)
    BY <1>5 DEF LearnFails
  <2>2. s.clean = FALSE
    BY <1>0 DEF RunType
  <2> HIDE DEF s
  <2>3. Smooth(s)
    BY <2>2 DEF Smooth
  <2> QED BY <2>1, <2>3, SmoothStep
<1> QED BY <1>1, <1>2, <1>3, <1>4, <1>5 DEF LearnNew, LearnFolds

LEMMA SmoothEnd ==
  ASSUME IInv, AllSmooth, NEW p \in Procs, Finish(p) \/ Complete(p) PROVE AllSmooth'
<1> DEFINE r == run[p]
<1>0. /\ r \in RunType /\ Smooth(r) /\ r.data \in ManifestType /\ r.what \in Texts
      /\ r.ids \in Seq(Nat) /\ r.turn = Turns + 1 /\ Turns \in Nat
      /\ r.at \in {"chunk", "finish"}
  <2>1. r.at \in {"chunk", "finish"} /\ r.turn > Turns
    BY TurnsAssumption DEF Finish, Complete, At, IInv, Local, ChunksDone
  <2> QED BY <2>1, AllBehind, TurnsAssumption DEF AllSmooth
<1>1. ASSUME NEW o \in OverType, NEW place \in {"finish", "ended"},
             Save(p, [r EXCEPT !.data.over = o, !.at = place]),
             place = "ended" => o.text = r.what /\ o.done = AllChunksComplete(r.data)
      PROVE  AllSmooth'
  <2> DEFINE d == [r.data EXCEPT !.over = o]
             s == [r EXCEPT !.data = d, !.at = place]
  <2>1. d \in ManifestType /\ d.over = o /\ d.chunk = r.data.chunk
    BY <1>0 DEF ManifestType
  <2>2. Save(p, s)
    BY <1>0, <1>1 DEF RunType
  <2> HIDE DEF d
  <2>3. /\ s \in RunType /\ s.at = place /\ s.clean = r.clean /\ s.failed = r.failed
        /\ s.what = r.what /\ s.turn = r.turn /\ s.data = d
    BY <1>0, <2>1 DEF RunType
  <2> HIDE DEF s
  <2>4. ASSUME r.clean PROVE ~r.failed /\ \A n \in 1..Turns : ChunkDone(r.data, n)
    BY <1>0, <2>4 DEF Smooth
  <2>5. r.clean /\ place = "ended" => o.done
    BY <1>1, <2>4 DEF AllChunksComplete, ChunkDone
  <2>6. o # None
    BY NoneAssumption DEF OverType
  <2>7. Smooth(s)
    BY <1>0, <1>1, <2>1, <2>3, <2>4, <2>5, <2>6 DEF Smooth, ChunkDone
  <2> QED BY <2>2, <2>3, <2>7, SmoothStep
<1>2. CASE Finish(p)
  <2>1. Overall(r.what, <<>>, FALSE) \in OverType
    BY <1>0 DEF Overall, OverType
  <2> QED BY <1>1, <1>2, <2>1 DEF Finish
<1>3. CASE Complete(p)
  <2> DEFINE o == Overall(r.what, r.ids, AllChunksComplete(r.data))
  <2>1. AllChunksComplete(r.data) \in BOOLEAN
    BY DEF AllChunksComplete
  <2>2. o \in OverType /\ o.text = r.what /\ o.done = AllChunksComplete(r.data)
    BY <1>0, <2>1 DEF Overall, OverType
  <2>3. Save(p, [r EXCEPT !.data.over = o, !.at = "ended"])
    BY <1>3 DEF Complete
  <2> HIDE DEF o
  <2> QED BY <1>1, <2>2, <2>3
<1> QED BY <1>2, <1>3

LEMMA NextSmooth == ASSUME IInv, AllSmooth, [Next]_vars PROVE AllSmooth'
<1>1. CASE UNCHANGED run
  BY <1>1 DEF AllSmooth
<1>2. ASSUME NEW p \in Procs, ConversationStep(p) PROVE AllSmooth'
  BY <1>2, SmoothBefore, SmoothChunks, SmoothClaims, SmoothEnd DEF ConversationStep
<1>3. CASE Next
  BY <1>1, <1>2, <1>3, SmoothBefore, SmoothStart DEF Next, Remove
<1>4. CASE UNCHANGED vars
  BY <1>1, <1>4 DEF vars
<1> QED BY <1>3, <1>4

\* A capture of a conversation that meets no failure leaves it completed, whatever the
\* manifest it began with says and whatever other captures do meanwhile
\* (ConversationCapture._record_claims, _all_chunks_complete).
THEOREM CleanRunsComplete == Spec => []RetryCompletes
<1>1. Init => AllSmooth
  BY NoneAssumption DEF Init, AllSmooth, Smooth, NoRun
<1>2. AllSmooth => RetryCompletes
  BY DEF AllSmooth, Smooth, RetryCompletes, At
<1>3. Spec => []AllSmooth
  BY <1>1, NextSmooth, Invariance, PTL DEF Spec
<1> QED BY <1>2, <1>3, PTL
(***************************************************************************)
(* Captures that do not overlap store what belongs to a conversation again  *)
(* only after a process was killed, a call of the store raised or a memory  *)
(* was removed, and a commit's or report's memories only after a fault.     *)
(*                                                                         *)
(* Times counts what is said; a manifest says which of it a capture will    *)
(* not store again.  What it does say is paid for by an entry (Fits): the   *)
(* one thing that a capture has stored and not yet entered is what a kill   *)
(* or an error costs.  The first of a text's records that was purged, or    *)
(* that the store raised on, is what all records behind it, which are then  *)
(* stored again, cost.                                                      *)
(***************************************************************************)
Times(R, thing) == Cardinality({m \in 1..Len(R) : thing \in R[m].says})

\* No other version of the text, or source of the same identity, is among S.
Lone(S, x) == \A y \in S \ {x} :
  IF x \in Texts THEN y \notin Texts ELSE y \in Texts \/ Identity[y] # Identity[x]

\* 1 if one of the first n of the records ids was purged.
Gone(R, ids, n) ==
  IF \E i \in 1..Len(ids) : i <= n /\ R[ids[i]].gone = "purged" THEN 1 ELSE 0
TurnsOnce(R, b, t, ids) == \A n \in Nat :
  Times(R, <<t, n, None>>) + Gone(R, ids, n) <= b + (IF n <= Len(ids) THEN 1 ELSE 0)

\* The bounds of a source x and a text t when a capture is at r with the manifest m; f and b
\* are the faults that allow a source and a text to be stored again.
Entered(x, r, m, n) ==
  m.source[Identity[x]] = x \/ (r.at = "parts" /\ r.what = x /\ n <= r.turn)
PartsOnce(R, f, x, r, m) == \A n \in Nat, q \in Quotes \cup {None} :
  Times(R, <<x, n, q>>) <= f + (IF Entered(x, r, m, n) THEN 1 ELSE 0)

InText == {"begin"} \cup InSources \cup InChunks
RecordsOnce(R, b, t, r, m) ==
  /\ r.what = t /\ r.at \in InText => TurnsOnce(R, b, t, r.ids)
  /\ r.what = t /\ r.at = "finish" => Saved(m.over, t) = <<>>
  /\ ~(r.what = t /\ r.at = "finish") =>
       TurnsOnce(R, IF r.what = t /\ r.at = "stored" THEN b + 1 ELSE b, t, Saved(m.over, t))

KeysNow(r, m, t, n) ==
  IF r.what = t /\ r.at \in InClaims /\ r.turn = n THEN r.keys
  ELSE IF n \in 1..Turns THEN Entry(m, t, n).keys ELSE {}
ClaimsOnce(R, b, t, r, m) == \A n \in Nat, q \in Quotes :
  Times(R, <<t, n, q>>) <= b + (IF q \in KeysNow(r, m, t, n) THEN 1 ELSE 0)

Fits(S, R, f, b, r, m) ==
  /\ \A x \in Sources : Lone(S, x) => PartsOnce(R, f, x, r, m)
  /\ \A t \in Texts : Lone(S, t) => RecordsOnce(R, b, t, r, m) /\ ClaimsOnce(R, b, t, r, m)
  /\ r.at = "parts" => m.source[Identity[r.what]] # r.what
  /\ r.at \in {"claims", "learned", "noted"} => r.todo \cap r.keys = {}

FitsNow(r, m) == Fits(started, rows, faults, cuts + removals, r, m)

\* One capture at a time, and it has the manifest that there is.
Orderly == ~overlap =>
  /\ \A p, q \in Procs : Busy(p) /\ Busy(q) => p = q
  /\ \A p \in Procs : Busy(p) =>
       /\ run[p].what \in started
       /\ IF run[p].saving THEN file = None ELSE Loaded = run[p].data
       /\ FitsNow(run[p], run[p].data)
  /\ (\A p \in Procs : ~Busy(p)) => FitsNow(NoRun, Loaded)

Counted == faults \in Nat /\ cuts \in Nat /\ removals \in Nat

-----------------------------------------------------------------------------
\* Counting.
LEMMA TimesNat ==
  ASSUME NEW R, R \in Seq(RowType), NEW thing
  PROVE  Times(R, thing) \in Nat /\ IsFiniteSet({m \in 1..Len(R) : thing \in R[m].says})
<1>1. Len(R) \in Nat
  OBVIOUS
<1>2. IsFiniteSet(1..Len(R))
  BY <1>1, FS_Interval
<1>3. IsFiniteSet({m \in 1..Len(R) : thing \in R[m].says})
  BY <1>2, FS_Subset, Zenon
<1> QED BY <1>3, FS_CardinalityType DEF Times

LEMMA TimesAppend ==
  ASSUME NEW R, R \in Seq(RowType), NEW x \in RowType, NEW thing
  PROVE  Times(Append(R, x), thing) =
           Times(R, thing) + (IF thing \in x.says THEN 1 ELSE 0)
<1> DEFINE Q == Append(R, x)
           M == {m \in 1..Len(R) : thing \in R[m].says}
           N == {m \in 1..Len(Q) : thing \in Q[m].says}
<1>1. /\ Len(Q) = Len(R) + 1 /\ Q[Len(R) + 1] = x /\ Len(R) \in Nat
      /\ \A m \in 1..Len(R) : Q[m] = R[m]
  BY AppendGrows
<1> HIDE DEF Q
<1>2. IsFiniteSet(M) /\ Len(R) + 1 \notin M /\ Cardinality(M) \in Nat
  <2>1. IsFiniteSet(M)
    BY TimesNat, Zenon
  <2>2. Len(R) + 1 \notin M
    BY <1>1
  <2> QED BY <2>1, <2>2, FS_CardinalityType
<1>3. CASE thing \in x.says
  <2>1. N = M \cup {Len(R) + 1}
    BY <1>1, <1>3
  <2>2. Cardinality(N) = Cardinality(M) + 1
    BY <1>2, <2>1, FS_AddElement
  <2> QED BY <1>3, <2>2 DEF Times, Q
<1>4. CASE thing \notin x.says
  <2>1. N = M
    BY <1>1, <1>4
  <2>2. Times(R, thing) = Cardinality(M) /\ Times(Q, thing) = Cardinality(N)
    BY DEF Times
  <2> HIDE DEF M, N
  <2> QED BY <1>2, <1>4, <2>1, <2>2 DEF Q
<1> QED BY <1>3, <1>4

LEMMA TimesSame ==
  ASSUME NEW R, NEW Q, Len(Q) = Len(R), NEW thing,
         \A m \in 1..Len(R) : thing \in Q[m].says <=> thing \in R[m].says
  PROVE  Times(Q, thing) = Times(R, thing)
<1>1. {m \in 1..Len(Q) : thing \in Q[m].says} = {m \in 1..Len(R) : thing \in R[m].says}
  OBVIOUS
<1> QED BY <1>1 DEF Times

LEMMA TimesFold ==
  ASSUME NEW R, R \in Seq(RowType), NEW Q, Len(Q) = Len(R), NEW thing, NEW k \in 1..Len(R),
         \A m \in 1..Len(R) \ {k} : thing \in Q[m].says <=> thing \in R[m].says
  PROVE  Times(Q, thing) <= Times(R, thing) + 1
<1> DEFINE M == {m \in 1..Len(R) : thing \in R[m].says}
           N == {m \in 1..Len(Q) : thing \in Q[m].says}
<1>1. IsFiniteSet(M) /\ Cardinality(M) \in Nat
  BY TimesNat DEF Times
<1>2. N \subseteq M \cup {k}
  OBVIOUS
<1> HIDE DEF M, N
<1>3. IsFiniteSet(M \cup {k}) /\ Cardinality(M \cup {k}) <= Cardinality(M) + 1
  <2>1. IsFiniteSet(M \cup {k})
    BY <1>1, FS_AddElement
  <2>2. Cardinality(M \cup {k}) = IF k \in M THEN Cardinality(M) ELSE Cardinality(M) + 1
    BY <1>1, FS_AddElement
  <2> QED BY <1>1, <2>1, <2>2
<1>4. Cardinality(N) <= Cardinality(M \cup {k}) /\ Cardinality(M \cup {k}) \in Nat
      /\ Cardinality(N) \in Nat
  BY <1>2, <1>3, FS_Subset, FS_CardinalityType
<1>5. Cardinality(N) <= Cardinality(M) + 1
  BY <1>1, <1>3, <1>4
<1> QED BY <1>5 DEF Times, M, N

\* The rows Q say item at most once more than R, and nothing else.
More(R, Q, item) ==
  /\ \A thing : thing # item => Times(Q, thing) = Times(R, thing)
  /\ Times(Q, item) <= Times(R, item) + 1
  /\ \A m \in 1..Len(R) : Q[m].gone = R[m].gone

LEMMA AppendMore ==
  ASSUME NEW R, R \in Seq(RowType), NEW item \in Statements, NEW from \in SUBSET Nat
  PROVE  LET Q == Append(R, Row(item, from)) IN
         /\ More(R, Q, item) /\ Q \in Seq(RowType)
         /\ Q[Len(R) + 1].gone = "no"
<1> DEFINE x == Row(item, from)
<1>1. x \in RowType /\ x.says = {item} /\ x.gone = "no"
  BY DEF Row, RowType
<1> HIDE DEF x
<1>2. \A thing : /\ Times(Append(R, x), thing) =
                      Times(R, thing) + (IF thing \in x.says THEN 1 ELSE 0)
                 /\ Times(R, thing) \in Nat
  BY <1>1, TimesAppend, TimesNat
<1>3. \A thing : thing # item => Times(Append(R, x), thing) = Times(R, thing)
  BY <1>1, <1>2
<1>4. Times(Append(R, x), item) <= Times(R, item) + 1
  BY <1>1, <1>2
<1>5. /\ Append(R, x) \in Seq(RowType) /\ Append(R, x)[Len(R) + 1] = x
      /\ \A m \in 1..Len(R) : Append(R, x)[m] = R[m]
  BY <1>1, AppendGrows
<1> QED BY <1>1, <1>3, <1>4, <1>5 DEF x, More

LEMMA FoldMore ==
  ASSUME NEW R, R \in Seq(RowType), NEW k \in 1..Len(R), NEW item \in Statements,
         NEW from \in SUBSET Nat
  PROVE  LET Q == [R EXCEPT ![k].says = @ \cup {item}, ![k].from = @ \cup from]
         IN More(R, Q, item) /\ Q \in Seq(RowType)
<1> DEFINE x == [R[k] EXCEPT !.says = @ \cup {item}, !.from = @ \cup from]
           Q == [R EXCEPT ![k].says = @ \cup {item}, ![k].from = @ \cup from]
<1>1. R[k] \in RowType /\ Len(R) \in Nat
  OBVIOUS
<1>2. x \in RowType /\ x.says = R[k].says \cup {item} /\ x.gone = R[k].gone
  BY <1>1 DEF RowType
<1>3. Q = [R EXCEPT ![k] = x]
  BY <1>1
<1> HIDE DEF x, Q
<1>4. /\ Q \in Seq(RowType) /\ Len(Q) = Len(R)
      /\ \A i \in 1..Len(R) : Q[i] = IF i = k THEN x ELSE R[i]
  BY <1>1, <1>2, <1>3
<1>5. ASSUME NEW thing, thing # item PROVE Times(Q, thing) = Times(R, thing)
  <2>1. \A m \in 1..Len(R) : thing \in Q[m].says <=> thing \in R[m].says
    BY <1>2, <1>4, <1>5
  <2> QED BY <1>4, <2>1, TimesSame
<1>6. Times(Q, item) <= Times(R, item) + 1
  <2>1. \A m \in 1..Len(R) \ {k} : item \in Q[m].says <=> item \in R[m].says
    BY <1>4
  <2> QED BY <1>4, <2>1, TimesFold
<1>7. \A m \in 1..Len(R) : Q[m].gone = R[m].gone
  BY <1>2, <1>4
<1> QED BY <1>4, <1>5, <1>6, <1>7 DEF Q, More

LEMMA SelfMore ==
  ASSUME NEW R, R \in Seq(RowType), NEW item PROVE More(R, R, item)
<1>1. Times(R, item) \in Nat
  BY TimesNat
<1> QED BY <1>1 DEF More

LEMMA MoreThan ==
  ASSUME NEW R, R \in Seq(RowType), NEW Q, Q \in Seq(RowType), NEW item, More(R, Q, item),
         NEW thing
  PROVE  /\ Times(R, thing) \in Nat /\ Times(Q, thing) \in Nat
         /\ Times(Q, thing) <= Times(R, thing) + 1
<1>1. Times(R, thing) \in Nat /\ Times(Q, thing) \in Nat
  BY TimesNat
<1>2. CASE thing = item
  BY <1>1, <1>2 DEF More
<1>3. CASE thing # item
  BY <1>1, <1>3 DEF More
<1> QED BY <1>1, <1>2, <1>3
-----------------------------------------------------------------------------
\* What a step leaves alone.
SameOf(R, Q, x) == \A n \in Nat, q \in Quotes \cup {None} :
  Times(Q, <<x, n, q>>) = Times(R, <<x, n, q>>)
SameTurns(R, Q, t) == \A n \in Nat : Times(Q, <<t, n, None>>) = Times(R, <<t, n, None>>)
SameClaims(R, Q, t) ==
  \A n \in Nat, q \in Quotes : Times(Q, <<t, n, q>>) = Times(R, <<t, n, q>>)
Standing(R, Q) == \A m \in 1..Len(R) : Q[m].gone = R[m].gone
Within(R, ids) == ids \in Seq(Nat) /\ \A i \in 1..Len(ids) : ids[i] \in 1..Len(R)

LEMMA GoneNat ==
  ASSUME NEW R, NEW ids, NEW n PROVE Gone(R, ids, n) \in {0, 1}
BY DEF Gone

LEMMA GoneStanding ==
  ASSUME NEW R, NEW Q, Standing(R, Q), NEW ids, Within(R, ids), NEW n
  PROVE  Gone(Q, ids, n) = Gone(R, ids, n)
<1>1. \A i \in 1..Len(ids) : Q[ids[i]].gone = R[ids[i]].gone
  BY DEF Standing, Within
<1> QED BY <1>1, Zenon DEF Gone

LEMMA TurnsCarried ==
  ASSUME NEW R, NEW Q, R \in Seq(RowType), Standing(R, Q), NEW t, SameTurns(R, Q, t),
         NEW ids, Within(R, ids), NEW b \in Nat, NEW c \in Nat, b <= c, TurnsOnce(R, b, t, ids)
  PROVE  TurnsOnce(Q, c, t, ids)
<1> SUFFICES ASSUME NEW n \in Nat
             PROVE  Times(Q, <<t, n, None>>) + Gone(Q, ids, n)
                      <= c + (IF n <= Len(ids) THEN 1 ELSE 0)
  BY DEF TurnsOnce
<1>1. /\ Times(Q, <<t, n, None>>) = Times(R, <<t, n, None>>)
      /\ Gone(Q, ids, n) = Gone(R, ids, n) /\ Gone(R, ids, n) \in {0, 1}
      /\ Times(R, <<t, n, None>>) \in Nat
  <2>1. Times(Q, <<t, n, None>>) = Times(R, <<t, n, None>>)
    BY DEF SameTurns
  <2>2. Gone(Q, ids, n) = Gone(R, ids, n)
    BY GoneStanding
  <2>3. Gone(R, ids, n) \in {0, 1}
    BY GoneNat
  <2>4. Times(R, <<t, n, None>>) \in Nat
    BY TimesNat
  <2> QED BY <2>1, <2>2, <2>3, <2>4
<1>2. Times(R, <<t, n, None>>) + Gone(R, ids, n) <= b + (IF n <= Len(ids) THEN 1 ELSE 0)
  BY DEF TurnsOnce
<1> HIDE DEF TurnsOnce
<1> QED BY <1>1, <1>2

\* What is known of a turn after an error of the store, which may have stored one thing.
LEMMA TurnsMore ==
  ASSUME NEW R, R \in Seq(RowType), NEW Q, Q \in Seq(RowType), NEW item, More(R, Q, item),
         NEW t, NEW ids, Within(R, ids), NEW b \in Nat, TurnsOnce(R, b, t, ids)
  PROVE  TurnsOnce(Q, b + 1, t, ids)
<1> SUFFICES ASSUME NEW n \in Nat
             PROVE  Times(Q, <<t, n, None>>) + Gone(Q, ids, n)
                      <= b + 1 + (IF n <= Len(ids) THEN 1 ELSE 0)
  BY DEF TurnsOnce
<1>1. Gone(Q, ids, n) = Gone(R, ids, n) /\ Gone(R, ids, n) \in {0, 1}
  BY GoneStanding, GoneNat DEF More, Standing
<1>2. /\ Times(R, <<t, n, None>>) \in Nat /\ Times(Q, <<t, n, None>>) \in Nat
      /\ Times(Q, <<t, n, None>>) <= Times(R, <<t, n, None>>) + 1
  BY MoreThan
<1>3. Times(R, <<t, n, None>>) + Gone(R, ids, n) <= b + (IF n <= Len(ids) THEN 1 ELSE 0)
  BY DEF TurnsOnce
<1> QED BY <1>1, <1>2, <1>3

\* When the records behind the first k are not reused, though none of the k was purged.
LEMMA TurnsDropped ==
  ASSUME NEW R, R \in Seq(RowType), NEW t, NEW ids \in Seq(Nat), NEW b \in Nat,
         NEW k \in 0..Len(ids), \A i \in 1..k : R[ids[i]].gone # "purged",
         TurnsOnce(R, b, t, ids)
  PROVE  TurnsOnce(R, b + 1, t, SubSeq(ids, 1, k))
<1> DEFINE cut == SubSeq(ids, 1, k)
<1>1. Len(cut) = k /\ \A i \in 1..k : cut[i] = ids[i]
  OBVIOUS
<1> HIDE DEF cut
<1> SUFFICES ASSUME NEW n \in Nat
             PROVE  Times(R, <<t, n, None>>) + Gone(R, cut, n)
                      <= b + 1 + (IF n <= Len(cut) THEN 1 ELSE 0)
  BY DEF TurnsOnce, cut
<1>2. Gone(R, cut, n) = 0
  BY <1>1 DEF Gone
<1>3. /\ Times(R, <<t, n, None>>) + Gone(R, ids, n) <= b + (IF n <= Len(ids) THEN 1 ELSE 0)
      /\ Times(R, <<t, n, None>>) \in Nat /\ Gone(R, ids, n) \in {0, 1}
  BY TimesNat, GoneNat DEF TurnsOnce
<1> QED BY <1>1, <1>2, <1>3

LEMMA TurnsAfterKill ==
  ASSUME NEW R, R \in Seq(RowType), NEW t, NEW ids \in Seq(Nat), NEW b \in Nat,
         TurnsOnce(R, b, t, ids)
  PROVE  TurnsOnce(R, b + 1, t, <<>>)
<1>1. SubSeq(ids, 1, 0) = <<>> /\ 0 \in 0..Len(ids)
  OBVIOUS
<1>2. \A i \in 1..0 : R[ids[i]].gone # "purged"
  OBVIOUS
<1> QED BY <1>1, <1>2, TurnsDropped

LEMMA SavedWithin ==
  ASSUME NEW R, NEW m \in ManifestType, Good(R, m), NEW t \in Texts
  PROVE  Within(R, Saved(m.over, t))
<1>1. CASE m.over # None /\ m.over.text = t
  <2>1. m.over \in OverType /\ TurnsIn(R, m.over.ids, t)
    BY <1>1 DEF Good, GoodOver, ManifestType
  <2> QED BY <1>1, <2>1 DEF Saved, Within, TurnsIn, OverType
<1>2. CASE ~(m.over # None /\ m.over.text = t)
  BY <1>2 DEF Saved, Within
<1> QED BY <1>1, <1>2

LEMMA PartsKept ==
  ASSUME NEW R, NEW Q, NEW x, SameOf(R, Q, x), NEW f \in Nat, NEW g \in Nat, f <= g,
         R \in Seq(RowType), NEW r, NEW s, NEW m, NEW d, PartsOnce(R, f, x, r, m),
         \A n \in Nat : Entered(x, r, m, n) => Entered(x, s, d, n)
  PROVE  PartsOnce(Q, g, x, s, d)
<1> SUFFICES ASSUME NEW n \in Nat, NEW q \in Quotes \cup {None}
             PROVE  Times(Q, <<x, n, q>>) <= g + (IF Entered(x, s, d, n) THEN 1 ELSE 0)
  BY DEF PartsOnce
<1>1. /\ Times(Q, <<x, n, q>>) = Times(R, <<x, n, q>>) /\ Times(R, <<x, n, q>>) \in Nat
      /\ Times(R, <<x, n, q>>) <= f + (IF Entered(x, r, m, n) THEN 1 ELSE 0)
  BY TimesNat DEF SameOf, PartsOnce
<1> QED BY <1>1

LEMMA ClaimsKept ==
  ASSUME NEW R, NEW Q, NEW t, SameClaims(R, Q, t), NEW b \in Nat, NEW c \in Nat, b <= c,
         R \in Seq(RowType), NEW r, NEW s, NEW m, NEW d, ClaimsOnce(R, b, t, r, m),
         \A n \in Nat : KeysNow(r, m, t, n) \subseteq KeysNow(s, d, t, n)
  PROVE  ClaimsOnce(Q, c, t, s, d)
<1> SUFFICES ASSUME NEW n \in Nat, NEW q \in Quotes
             PROVE  Times(Q, <<t, n, q>>) <= c + (IF q \in KeysNow(s, d, t, n) THEN 1 ELSE 0)
  BY DEF ClaimsOnce
<1>1. /\ Times(Q, <<t, n, q>>) = Times(R, <<t, n, q>>) /\ Times(R, <<t, n, q>>) \in Nat
      /\ Times(R, <<t, n, q>>) <= b + (IF q \in KeysNow(r, m, t, n) THEN 1 ELSE 0)
  BY TimesNat DEF SameClaims, ClaimsOnce
<1>2. q \in KeysNow(r, m, t, n) => q \in KeysNow(s, d, t, n)
  OBVIOUS
<1> QED BY <1>1, <1>2

LEMMA ClaimsMore ==
  ASSUME NEW R, R \in Seq(RowType), NEW Q, Q \in Seq(RowType), NEW item, More(R, Q, item),
         NEW t, NEW b \in Nat, NEW r, NEW s, NEW m, NEW d, ClaimsOnce(R, b, t, r, m),
         \A n \in Nat : KeysNow(r, m, t, n) \subseteq KeysNow(s, d, t, n)
  PROVE  ClaimsOnce(Q, b + 1, t, s, d)
<1> SUFFICES ASSUME NEW n \in Nat, NEW q \in Quotes
             PROVE  Times(Q, <<t, n, q>>) <= b + 1 + (IF q \in KeysNow(s, d, t, n) THEN 1 ELSE 0)
  BY DEF ClaimsOnce
<1>1. /\ Times(R, <<t, n, q>>) \in Nat /\ Times(Q, <<t, n, q>>) \in Nat
      /\ Times(Q, <<t, n, q>>) <= Times(R, <<t, n, q>>) + 1
  BY MoreThan
<1>2. /\ Times(R, <<t, n, q>>) <= b + (IF q \in KeysNow(r, m, t, n) THEN 1 ELSE 0)
      /\ q \in KeysNow(r, m, t, n) => q \in KeysNow(s, d, t, n)
  BY DEF ClaimsOnce
<1> QED BY <1>1, <1>2

\* Of a capture, these fields matter.
LEMMA FitsAlike ==
  ASSUME NEW S, NEW R, NEW f, NEW b, NEW r, NEW s, NEW m, Fits(S, R, f, b, r, m),
         s.at = r.at, s.what = r.what, s.ids = r.ids, s.turn = r.turn, s.todo = r.todo,
         s.keys = r.keys
  PROVE  Fits(S, R, f, b, s, m)
<1>1. \A x \in Sources : PartsOnce(R, f, x, r, m) => PartsOnce(R, f, x, s, m)
  BY DEF PartsOnce, Entered
<1>2. \A t \in Texts : RecordsOnce(R, b, t, r, m) => RecordsOnce(R, b, t, s, m)
  BY DEF RecordsOnce
<1>3. \A t, n : KeysNow(s, m, t, n) = KeysNow(r, m, t, n)
  BY DEF KeysNow
<1>4. \A t \in Texts : ClaimsOnce(R, b, t, r, m) => ClaimsOnce(R, b, t, s, m)
  BY <1>3 DEF ClaimsOnce
<1> QED BY <1>1, <1>2, <1>4 DEF Fits

LEMMA FitsEnded ==
  ASSUME NEW S, NEW R, NEW f, NEW b, NEW r, NEW m, Fits(S, R, f, b, r, m),
         NEW s, r.at \in {"idle", "ended"}, s.at \in {"idle", "ended"}
  PROVE  Fits(S, R, f, b, s, m)
<1>1. \A x \in Sources : PartsOnce(R, f, x, r, m) => PartsOnce(R, f, x, s, m)
  BY DEF PartsOnce, Entered
<1>2. \A t \in Texts : RecordsOnce(R, b, t, r, m) => RecordsOnce(R, b, t, s, m)
  BY DEF RecordsOnce, InText
<1>3. \A t, n : KeysNow(s, m, t, n) = KeysNow(r, m, t, n)
  BY DEF KeysNow
<1>4. \A t \in Texts : ClaimsOnce(R, b, t, r, m) => ClaimsOnce(R, b, t, s, m)
  BY <1>3 DEF ClaimsOnce
<1> QED BY <1>1, <1>2, <1>4 DEF Fits
\* A step of the capture that is in progress.
LEMMA BusyStep ==
  ASSUME IInv, Orderly, NEW p \in Procs, Busy(p), ~run[p].saving,
         started' = started, overlap' = overlap, NEW s \in RunType, s.what = run[p].what,
         ~overlap => Fits(started, rows', faults', cuts' + removals', s, s.data),
         \/ SetRun(p, s) /\ s.data = run[p].data /\ ~s.saving
         \/ Save(p, s)
  PROVE  Orderly'
<1> SUFFICES ASSUME ~overlap
             PROVE  /\ \A q, k \in Procs : Busy(q)' /\ Busy(k)' => q = k
                    /\ \A q \in Procs : Busy(q)' =>
                         /\ run'[q].what \in started'
                         /\ IF run'[q].saving THEN file' = None ELSE Loaded' = run'[q].data
                         /\ FitsNow(run[q], run[q].data)'
                    /\ (\A q \in Procs : ~Busy(q)') => FitsNow(NoRun, Loaded)'
  BY DEF Orderly
<1>1. PICK v : /\ run' = [run EXCEPT ![p] = v] /\ v.data = s.data /\ v.at = s.at
               /\ v.what = s.what /\ v.ids = s.ids /\ v.turn = s.turn /\ v.todo = s.todo
               /\ v.keys = s.keys
               /\ IF v.saving THEN file' = None ELSE file' = file /\ s.data = run[p].data
  <2>1. CASE SetRun(p, s) /\ s.data = run[p].data /\ ~s.saving
    BY <2>1 DEF SetRun
  <2>2. CASE Save(p, s)
    <3> DEFINE u == [s EXCEPT !.saving = TRUE]
    <3>1. /\ u.data = s.data /\ u.at = s.at /\ u.what = s.what /\ u.ids = s.ids
          /\ u.turn = s.turn /\ u.todo = s.todo /\ u.keys = s.keys /\ u.saving
      BY DEF RunType
    <3>2. run' = [run EXCEPT ![p] = u] /\ file' = None
      BY <2>2 DEF Save
    <3> HIDE DEF u
    <3> QED BY <3>1, <3>2
  <2> QED BY <2>1, <2>2
<1>2. run'[p] = v /\ \A q \in Procs \ {p} : run'[q] = run[q] /\ ~Busy(q)
  BY <1>1 DEF Orderly, IInv
<1>3. \A q \in Procs : Busy(q)' => q = p
  BY <1>2 DEF Busy
<1>4. Loaded = run[p].data /\ run[p].what \in started
  BY DEF Orderly
<1>5. ~v.saving => Loaded' = v.data
  BY <1>1, <1>4 DEF Loaded
<1>6. Fits(started', rows', faults', cuts' + removals', v, v.data)
  BY <1>1, FitsAlike
<1>7. FitsNow(run[p], run[p].data)'
  BY <1>2, <1>6 DEF FitsNow
<1>8. ASSUME ~Busy(p)' PROVE FitsNow(NoRun, Loaded)'
  <2>1. ~v.saving /\ v.at \in {"idle", "ended"} /\ NoRun.at = "idle"
    BY <1>2, <1>8 DEF Busy, NoRun
  <2>2. Fits(started', rows', faults', cuts' + removals', NoRun, v.data)
    BY <1>6, <2>1, FitsEnded
  <2> QED BY <1>5, <2>1, <2>2 DEF FitsNow
<1> QED BY <1>1, <1>2, <1>3, <1>4, <1>5, <1>7, <1>8

\* A capture of a source leaves what is known of texts.
LEMMA SourceFitsWith ==
  ASSUME IInv, Counted, Orderly, ~overlap, NEW p \in Procs, Busy(p),
         run[p].what \in Sources, run[p].at \in {"seen", "parts"},
         NEW s, s.what = run[p].what, s.at \in {"parts", "ended"},
         NEW d, d.over = run[p].data.over, d.chunk = run[p].data.chunk,
         NEW Q, Standing(rows, Q),
         \A t \in Texts : SameTurns(rows, Q, t) /\ SameClaims(rows, Q, t),
         NEW f, \A x \in Sources : Lone(started, x) => PartsOnce(Q, f, x, s, d),
         s.at = "parts" => d.source[Identity[s.what]] # s.what,
         NEW c \in Nat, cuts + removals <= c
  PROVE  Fits(started, Q, f, c, s, d)
<1> DEFINE r == run[p]
           m == r.data
           b == cuts + removals
<1>1. /\ r \in RunType /\ m \in ManifestType /\ Good(rows, m) /\ rows \in Seq(RowType)
      /\ b \in Nat
  BY DEF IInv, Local, RunType, RowsGood, Counted
<1>2. ASSUME NEW t \in Texts, Lone(started, t)
      PROVE  RecordsOnce(Q, c, t, s, d) /\ ClaimsOnce(Q, c, t, s, d)
  <2>1. RecordsOnce(rows, b, t, r, m) /\ ClaimsOnce(rows, b, t, r, m) /\ r.what # t
    BY <1>2, SourcesAssumption DEF Orderly, FitsNow, Fits
  <2>2. TurnsOnce(rows, b, t, Saved(m.over, t))
    BY <2>1 DEF RecordsOnce
  <2>3. TurnsOnce(Q, c, t, Saved(m.over, t))
    BY <1>1, <2>2, SavedWithin, TurnsCarried
  <2>4. RecordsOnce(Q, c, t, s, d)
    BY <2>1, <2>3 DEF RecordsOnce
  <2>5. \A n \in Nat : KeysNow(r, m, t, n) = KeysNow(s, d, t, n)
    BY <2>1 DEF KeysNow, Entry
  <2>6. ClaimsOnce(Q, c, t, s, d)
    BY <1>1, <2>1, <2>5, ClaimsKept
  <2> QED BY <2>4, <2>6
<1>3. s.at \notin {"claims", "learned", "noted"}
  OBVIOUS
<1> QED BY <1>2, <1>3 DEF Fits

LEMMA SourceFits ==
  ASSUME IInv, Counted, Orderly, ~overlap, NEW p \in Procs, Busy(p),
         run[p].what \in Sources, run[p].at \in {"seen", "parts"},
         NEW s, s.what = run[p].what, s.at \in {"parts", "ended"},
         NEW d, d.over = run[p].data.over, d.chunk = run[p].data.chunk,
         NEW Q, Standing(rows, Q),
         \A t \in Texts : SameTurns(rows, Q, t) /\ SameClaims(rows, Q, t),
         NEW f, \A x \in Sources : Lone(started, x) => PartsOnce(Q, f, x, s, d),
         s.at = "parts" => d.source[Identity[s.what]] # s.what
  PROVE  Fits(started, Q, f, cuts + removals, s, d)
<1>1. cuts + removals \in Nat /\ cuts + removals <= cuts + removals
  BY DEF Counted
<1> QED BY <1>1, SourceFitsWith

\* A capture of the conversation leaves what is known of sources, and no other version of
\* the text is alone.
LEMMA TextFits ==
  ASSUME IInv, Counted, Orderly, ~overlap, NEW p \in Procs, Busy(p),
         run[p].what \in Texts, run[p].at # "parts",
         NEW s, s.at # "parts", s.at \in {"claims", "learned", "noted"} => s.todo \cap s.keys = {},
         NEW d, d.source = run[p].data.source,
         NEW Q, \A x \in Sources : SameOf(rows, Q, x),
         NEW f \in Nat, faults <= f, NEW c,
         LET t == run[p].what
             b == cuts + removals
         IN /\ RecordsOnce(rows, b, t, run[p], run[p].data)
            /\ ClaimsOnce(rows, b, t, run[p], run[p].data)
            => RecordsOnce(Q, c, t, s, d) /\ ClaimsOnce(Q, c, t, s, d)
  PROVE  Fits(started, Q, f, c, s, d)
<1> DEFINE r == run[p]
           m == r.data
           b == cuts + removals
<1>1. rows \in Seq(RowType) /\ faults \in Nat /\ r.what \in started
  BY DEF IInv, RowsGood, Counted, Orderly
<1>2. FitsNow(r, m)
  BY DEF Orderly
<1>3. ASSUME NEW x \in Sources, Lone(started, x) PROVE PartsOnce(Q, f, x, s, d)
  <2>1. PartsOnce(rows, faults, x, r, m)
    BY <1>2, <1>3 DEF FitsNow, Fits
  <2>2. \A n \in Nat : Entered(x, r, m, n) => Entered(x, s, d, n)
    BY DEF Entered
  <2> QED BY <1>1, <2>1, <2>2, PartsKept
<1>4. ASSUME NEW t \in Texts, Lone(started, t)
      PROVE  RecordsOnce(Q, c, t, s, d) /\ ClaimsOnce(Q, c, t, s, d)
  <2>1. t = r.what
    BY <1>1, <1>4 DEF Lone
  <2>2. RecordsOnce(rows, b, t, r, m) /\ ClaimsOnce(rows, b, t, r, m)
    BY <1>2, <1>4 DEF FitsNow, Fits
  <2> QED BY <2>1, <2>2
<1> QED BY <1>3, <1>4 DEF Fits
\* Where a thing that is added does not count.
LEMMA MoreElsewhere ==
  ASSUME NEW R, NEW Q, NEW x, NEW n, NEW q, More(R, Q, <<x, n, q>>)
  PROVE  /\ Standing(R, Q)
         /\ \A y : y # x => SameOf(R, Q, y) /\ SameTurns(R, Q, y) /\ SameClaims(R, Q, y)
         /\ \A y : q # None => SameTurns(R, Q, y)
         /\ \A y : q = None => SameClaims(R, Q, y)
<1> DEFINE item == <<x, n, q>>
<1>1. \A thing : thing # item => Times(Q, thing) = Times(R, thing)
  BY DEF More
<1>2. \A y, k, c : <<y, k, c>> = item => y = x /\ k = n /\ c = q
  OBVIOUS
<1> HIDE DEF item
<1>3. \A y : y # x => SameOf(R, Q, y) /\ SameTurns(R, Q, y) /\ SameClaims(R, Q, y)
  BY <1>1, <1>2 DEF SameOf, SameTurns, SameClaims
<1>4. \A y : q # None => SameTurns(R, Q, y)
  BY <1>1, <1>2 DEF SameTurns
<1>5. \A y : q = None => SameClaims(R, Q, y)
  BY <1>1, <1>2, NoneAssumption DEF SameClaims
<1> QED BY <1>3, <1>4, <1>5 DEF Standing, More

LEMMA NothingMore ==
  ASSUME NEW R
  PROVE  /\ Standing(R, R)
         /\ \A y : SameOf(R, R, y) /\ SameTurns(R, R, y) /\ SameClaims(R, R, y)
BY DEF Standing, SameOf, SameTurns, SameClaims

LEMMA UnchangedOnce ==
  ASSUME IInv, Counted, Orderly, NEW p \in Procs, Unchanged(p) PROVE Orderly'
<1> DEFINE r == run[p]
           s == [r EXCEPT !.at = "ended"]
<1>1. /\ r \in RunType /\ Local(rows, r) /\ r.at = "seen" /\ ~r.saving /\ Busy(p)
      /\ r.what \in Sources
  BY DEF IInv, Local, Unchanged, At, Busy
<1>2. s \in RunType /\ s.at = "ended" /\ s.what = r.what /\ s.data = r.data /\ s.saving = r.saving
  BY <1>1 DEF RunType
<1>3. Save(p, s) /\ rows' = rows /\ UNCHANGED counts
  BY DEF Unchanged
<1> HIDE DEF s
<1>4. ASSUME ~overlap PROVE Fits(started, rows, faults, cuts + removals, s, s.data)
  <2>1. FitsNow(r, r.data)
    BY <1>1, <1>4 DEF Orderly
  <2>2. ASSUME NEW x \in Sources, Lone(started, x) PROVE PartsOnce(rows, faults, x, s, s.data)
    <3>1. PartsOnce(rows, faults, x, r, r.data)
      BY <2>1, <2>2 DEF FitsNow, Fits
    <3>2. \A n \in Nat : Entered(x, r, r.data, n) => Entered(x, s, s.data, n)
      BY <1>1, <1>2 DEF Entered
    <3>3. /\ SameOf(rows, rows, x) /\ faults \in Nat /\ faults <= faults
          /\ rows \in Seq(RowType)
      <4>1. SameOf(rows, rows, x)
        BY DEF SameOf
      <4>2. faults \in Nat /\ faults <= faults
        BY DEF Counted
      <4> QED BY <4>1, <4>2 DEF IInv, RowsGood
    <3> HIDE DEF r
    <3> QED BY <3>1, <3>2, <3>3, PartsKept
  <2> QED BY <1>1, <1>2, <1>4, <2>2, NothingMore, SourceFits
<1> QED BY <1>1, <1>2, <1>3, <1>4, BusyStep DEF counts

LEMMA StorePartOnce ==
  ASSUME IInv, Counted, Orderly, NEW p \in Procs, StorePart(p) PROVE Orderly'
<1> DEFINE r == run[p]
           s == [r EXCEPT !.turn = r.turn + 1]
           item == <<r.what, r.turn + 1, None>>
<1>1. /\ r \in RunType /\ Local(rows, r) /\ r.at = "parts" /\ ~r.saving /\ Busy(p)
      /\ r.what \in Sources /\ r.turn \in Nat /\ rows \in Seq(RowType)
  BY DEF IInv, Local, StorePart, At, Busy, RunType, RowsGood
<1>2. r.turn + 1 \in Nat
  BY <1>1
<1>3. s \in RunType /\ s.at = r.at /\ s.data = r.data /\ s.what = r.what /\ s.turn = r.turn + 1
  BY <1>1, <1>2, TurnTo
<1>4. s.saving = r.saving
  BY <1>1 DEF RunType
<1>5. /\ SetRun(p, s) /\ UNCHANGED counts
      /\ rows' = Append(rows, Row(item, {}))
  BY DEF StorePart
<1>6. item \in Statements
  BY <1>1, <1>2 DEF Statements
<1>7. More(rows, rows', item)
  BY <1>1, <1>5, <1>6, AppendMore
<1>8. /\ Standing(rows, rows')
      /\ \A y : y # r.what => SameOf(rows, rows', y) /\ SameTurns(rows, rows', y)
                                /\ SameClaims(rows, rows', y)
  BY <1>7, MoreElsewhere
<1> HIDE DEF s
<1>9. ASSUME ~overlap PROVE Fits(started, rows', faults, cuts + removals, s, s.data)
  <2>1. FitsNow(r, r.data)
    BY <1>1, <1>9 DEF Orderly
  <2>2. r.data.source[Identity[r.what]] # r.what
    BY <1>1, <2>1 DEF FitsNow, Fits
  <2>3. ASSUME NEW x \in Sources, Lone(started, x) PROVE PartsOnce(rows', faults, x, s, s.data)
    <3>1. PartsOnce(rows, faults, x, r, r.data)
      BY <2>1, <2>3 DEF FitsNow, Fits
    <3>2. CASE x # r.what
      <4>1. \A n \in Nat : Entered(x, r, r.data, n) => Entered(x, s, s.data, n)
        BY <1>3, <3>2 DEF Entered
      <4>2. SameOf(rows, rows', x) /\ faults \in Nat /\ faults <= faults
        BY <1>8, <3>2 DEF Counted
      <4>3. rows \in Seq(RowType)
        BY <1>1
      <4> HIDE DEF r
      <4> QED BY <3>1, <4>1, <4>2, <4>3, PartsKept
    <3>3. CASE x = r.what
      <4> SUFFICES ASSUME NEW n \in Nat, NEW q \in Quotes \cup {None}
                   PROVE  Times(rows', <<x, n, q>>) <=
                            faults + (IF Entered(x, s, s.data, n) THEN 1 ELSE 0)
        BY DEF PartsOnce
      <4>1. /\ Times(rows, <<x, n, q>>) <=
                 faults + (IF Entered(x, r, r.data, n) THEN 1 ELSE 0)
            /\ Times(rows, <<x, n, q>>) \in Nat
        BY <1>1, <3>1, TimesNat DEF PartsOnce
      <4>2. CASE <<x, n, q>> = item
        <5>1. n = r.turn + 1
          BY <4>2
        <5>2. ~Entered(x, r, r.data, n) /\ Entered(x, s, s.data, n)
          BY <1>1, <1>3, <2>2, <3>3, <5>1 DEF Entered
        <5>3. Times(rows', <<x, n, q>>) <= Times(rows, <<x, n, q>>) + 1
          BY <1>7, <4>2 DEF More
        <5>4. rows' \in Seq(RowType)
          BY <1>1, <1>5, <1>6, AppendMore
        <5>5. Times(rows', <<x, n, q>>) \in Nat
          BY <5>4, TimesNat
        <5> QED BY <4>1, <5>2, <5>3, <5>5 DEF Counted
      <4>3. CASE <<x, n, q>> # item
        <5>1. Times(rows', <<x, n, q>>) = Times(rows, <<x, n, q>>)
          BY <1>7, <4>3 DEF More
        <5>2. Entered(x, r, r.data, n) => Entered(x, s, s.data, n)
          BY <1>1, <1>3 DEF Entered
        <5> QED BY <4>1, <5>1, <5>2 DEF Counted
      <4> QED BY <4>2, <4>3
    <3> QED BY <3>2, <3>3
  <2>4. \A t \in Texts : SameTurns(rows, rows', t) /\ SameClaims(rows, rows', t)
    BY <1>1, <1>8, SourcesAssumption
  <2> QED BY <1>1, <1>3, <1>8, <1>9, <2>2, <2>3, <2>4, SourceFits
<1>10. faults' = faults /\ cuts' = cuts /\ removals' = removals /\ started' = started
       /\ overlap' = overlap
  BY <1>5 DEF counts
<1> QED BY <1>1, <1>3, <1>4, <1>5, <1>9, <1>10, BusyStep

LEMMA RecordSourceOnce ==
  ASSUME IInv, Counted, Orderly, NEW p \in Procs, RecordSource(p) PROVE Orderly'
<1> DEFINE r == run[p]
           d == [r.data EXCEPT !.source[Identity[r.what]] = r.what]
           s == [r EXCEPT !.data = d, !.at = "ended"]
<1>1. /\ r \in RunType /\ Local(rows, r) /\ r.at = "parts" /\ ~r.saving /\ Busy(p)
      /\ r.what \in Sources /\ r.data \in ManifestType /\ Good(rows, r.data)
      /\ r.turn = Parts[r.what]
  BY DEF IInv, Local, RecordSource, At, Busy, RunType
<1>2. SourceIn(rows, r.what)
  BY <1>1, SourcesAssumption DEF Local, PartsDone, SourceIn
<1>3. d \in ManifestType
  BY <1>1, <1>2, SetSource
<1>4. /\ d.over = r.data.over /\ d.chunk = r.data.chunk
      /\ \A k \in Keys : d.source[k] = IF k = Identity[r.what] THEN r.what ELSE r.data.source[k]
  BY <1>1 DEF ManifestType
<1>5. Save(p, s) /\ rows' = rows /\ UNCHANGED counts
  BY <1>1 DEF RecordSource, RunType
<1> HIDE DEF d
<1>6. s \in RunType /\ s.at = "ended" /\ s.what = r.what /\ s.data = d
  BY <1>1, <1>3 DEF RunType
<1> HIDE DEF s
<1>7. ASSUME ~overlap PROVE Fits(started, rows, faults, cuts + removals, s, d)
  <2>1. FitsNow(r, r.data) /\ r.what \in started
    BY <1>1, <1>7 DEF Orderly
  <2>2. ASSUME NEW x \in Sources, Lone(started, x) PROVE PartsOnce(rows, faults, x, s, d)
    <3>1. PartsOnce(rows, faults, x, r, r.data)
      BY <2>1, <2>2 DEF FitsNow, Fits
    <3>2. \A n \in Nat : Entered(x, r, r.data, n) => Entered(x, s, d, n)
      <4>1. Identity[x] \in Keys /\ Identity[r.what] \in Keys
        BY <1>1 DEF Keys
      <4>2. CASE x = r.what
        BY <1>4, <4>1, <4>2 DEF Entered
      <4>3. CASE x # r.what
        <5>1. Identity[r.what] # Identity[x]
          BY <1>1, <2>1, <2>2, <4>3, SourcesAssumption DEF Lone
        <5> QED BY <1>4, <4>1, <4>3, <5>1 DEF Entered
      <4> QED BY <4>2, <4>3
    <3>3. /\ SameOf(rows, rows, x) /\ faults \in Nat /\ faults <= faults
          /\ rows \in Seq(RowType)
      <4>1. SameOf(rows, rows, x)
        BY DEF SameOf
      <4>2. faults \in Nat /\ faults <= faults
        BY DEF Counted
      <4> QED BY <4>1, <4>2 DEF IInv, RowsGood
    <3> HIDE DEF r
    <3> QED BY <3>1, <3>2, <3>3, PartsKept
  <2> QED BY <1>1, <1>4, <1>6, <1>7, <2>2, NothingMore, SourceFits
<1> QED BY <1>1, <1>5, <1>6, <1>7, BusyStep DEF counts
\* A step of the capture of a text that is not about a chunk's claims.
LEMMA RecordStep ==
  ASSUME IInv, Counted, Orderly, NEW p \in Procs, Busy(p), ~run[p].saving,
         run[p].what \in Texts, run[p].at \notin InClaims \cup {"parts"},
         NEW s \in RunType, s.what = run[p].what, s.at \notin InClaims \cup {"parts"},
         s.data.source = run[p].data.source, s.data.chunk = run[p].data.chunk,
         \A x \in Sources : SameOf(rows, rows', x), SameClaims(rows, rows', run[p].what),
         faults' \in Nat, faults <= faults', cuts' = cuts, removals' = removals,
         started' = started, overlap' = overlap,
         \/ SetRun(p, s) /\ s.data = run[p].data /\ ~s.saving
         \/ Save(p, s),
         RecordsOnce(rows, cuts + removals, run[p].what, run[p], run[p].data) =>
           RecordsOnce(rows', cuts + removals, run[p].what, s, s.data)
  PROVE  Orderly'
<1> DEFINE r == run[p]
           t == r.what
           b == cuts + removals
<1>1. rows \in Seq(RowType) /\ b \in Nat /\ b <= b
  BY DEF IInv, RowsGood, Counted
<1>2. ASSUME ClaimsOnce(rows, b, t, r, r.data) PROVE ClaimsOnce(rows', b, t, s, s.data)
  <2>1. \A n \in Nat : KeysNow(r, r.data, t, n) \subseteq KeysNow(s, s.data, t, n)
    BY DEF KeysNow, Entry
  <2> HIDE DEF r
  <2> QED BY <1>1, <1>2, <2>1, ClaimsKept DEF r
<1>3. ~overlap => Fits(started, rows', faults', b, s, s.data)
  BY <1>2, TextFits
<1> QED BY <1>3, BusyStep

\* A step of the capture of a text that is about a chunk.
LEMMA ChunkStep ==
  ASSUME IInv, Counted, Orderly, NEW p \in Procs, Busy(p), ~run[p].saving,
         run[p].what \in Texts, run[p].at \in InClaims \cup {"chunk"},
         NEW s \in RunType, s.what = run[p].what, s.at \in InClaims \cup {"chunk"},
         s.ids = run[p].ids, s.data.source = run[p].data.source, s.data.over = run[p].data.over,
         ~overlap /\ s.at \in {"claims", "learned", "noted"} => s.todo \cap s.keys = {},
         \A x \in Sources : SameOf(rows, rows', x), SameTurns(rows, rows', run[p].what),
         Standing(rows, rows'),
         faults' \in Nat, faults <= faults', cuts' = cuts, removals' = removals,
         started' = started, overlap' = overlap,
         \/ SetRun(p, s) /\ s.data = run[p].data /\ ~s.saving
         \/ Save(p, s),
         ~overlap /\ ClaimsOnce(rows, cuts + removals, run[p].what, run[p], run[p].data) =>
           ClaimsOnce(rows', cuts + removals, run[p].what, s, s.data)
  PROVE  Orderly'
<1> DEFINE r == run[p]
           t == r.what
           b == cuts + removals
           m == r.data
<1>1. rows \in Seq(RowType) /\ b \in Nat /\ b <= b
  BY DEF IInv, RowsGood, Counted
<1>2. Within(rows, r.ids) /\ Within(rows, Saved(m.over, t))
  <2>1. m \in ManifestType /\ Good(rows, m)
    BY DEF IInv, Local, RunType
  <2>2. Within(rows, r.ids)
    BY DEF IInv, Local, TurnsDone, TurnsIn, Within, RunType
  <2> QED BY <2>1, <2>2, SavedWithin
<1>3. ASSUME RecordsOnce(rows, b, t, r, m) PROVE RecordsOnce(rows', b, t, s, s.data)
  <2>1. TurnsOnce(rows, b, t, r.ids) /\ TurnsOnce(rows, b, t, Saved(m.over, t))
    BY <1>3 DEF RecordsOnce, InText
  <2>2. TurnsOnce(rows', b, t, r.ids)
    BY <1>1, <1>2, <2>1, TurnsCarried
  <2>3. TurnsOnce(rows', b, t, Saved(m.over, t))
    BY <1>1, <1>2, <2>1, TurnsCarried
  <2> QED BY <2>2, <2>3 DEF RecordsOnce
<1>4. ~overlap => Fits(started, rows', faults', b, s, s.data)
  BY <1>3, TextFits
<1> QED BY <1>4, BusyStep

\* A step of the capture of a text in which the store raises.
LEMMA CutStep ==
  ASSUME IInv, Counted, Orderly, NEW p \in Procs, Busy(p), ~run[p].saving,
         run[p].what \in Texts, run[p].at # "parts",
         NEW s \in RunType, s.what = run[p].what, s.at # "parts",
         SetRun(p, s), s.data = run[p].data, ~s.saving,
         s.at \in {"claims", "learned", "noted"} => s.todo \cap s.keys = {},
         rows' \in Seq(RowType), NEW n, NEW q, More(rows, rows', <<run[p].what, n, q>>),
         \A k \in Nat : KeysNow(run[p], run[p].data, run[p].what, k)
                          \subseteq KeysNow(s, s.data, run[p].what, k),
         Cut, removals' = removals, UNCHANGED history,
         RecordsOnce(rows, cuts + removals, run[p].what, run[p], run[p].data) =>
           RecordsOnce(rows', cuts + removals + 1, run[p].what, s, s.data)
  PROVE  Orderly'
<1> DEFINE r == run[p]
           t == r.what
           b == cuts + removals
<1>1. rows \in Seq(RowType) /\ b \in Nat
  BY DEF IInv, RowsGood, Counted
<1>2. \A x \in Sources : SameOf(rows, rows', x)
  BY MoreElsewhere, SourcesAssumption
<1>3. ASSUME ClaimsOnce(rows, b, t, r, r.data) PROVE ClaimsOnce(rows', b + 1, t, s, s.data)
  <2> HIDE DEF r, b
  <2> QED BY <1>1, <1>3, ClaimsMore DEF r
<1>4. /\ faults' \in Nat /\ faults <= faults' /\ cuts' + removals' = b + 1
      /\ started' = started /\ overlap' = overlap
  BY DEF Cut, Fault, Counted, history
<1>5. ~overlap => Fits(started, rows', faults', b + 1, s, s.data)
  BY <1>2, <1>3, <1>4, TextFits
<1> QED BY <1>4, <1>5, BusyStep

\* The entry of the whole text is set.
LEMMA SavedIs ==
  ASSUME NEW o \in OverType PROVE Saved(o, o.text) = o.ids
BY NoneAssumption DEF Saved, OverType

OverTo(r, o, place, k) == [r EXCEPT !.data.over = o, !.at = place, !.turn = k]

LEMMA OverSet ==
  ASSUME NEW r \in RunType, NEW o \in OverType, NEW place \in Places, NEW k \in Nat
  PROVE  LET s == OverTo(r, o, place, k) IN
         /\ s \in RunType /\ s.at = place /\ s.what = r.what /\ s.ids = r.ids
         /\ s.data.source = r.data.source /\ s.data.chunk = r.data.chunk /\ s.data.over = o
<1> DEFINE d == [r.data EXCEPT !.over = o]
           s == OverTo(r, o, place, k)
<1>1. r.data \in ManifestType
  BY DEF RunType
<1>2. /\ d \in ManifestType /\ d.source = r.data.source /\ d.chunk = r.data.chunk
      /\ d.over = o
  BY <1>1 DEF ManifestType
<1>3. s = [r EXCEPT !.data = d, !.at = place, !.turn = k]
  BY DEF RunType, OverTo
<1> HIDE DEF d, s
<1>4. /\ s \in RunType /\ s.at = place /\ s.what = r.what /\ s.ids = r.ids /\ s.data = d
  BY <1>2, <1>3 DEF RunType
<1> QED BY <1>2, <1>4 DEF s

\* A save of the entry of the whole text.
LEMMA OverStep ==
  ASSUME IInv, Counted, Orderly, NEW p \in Procs, Busy(p), ~run[p].saving,
         run[p].what \in Texts, run[p].at \notin InClaims \cup {"parts"},
         NEW o \in OverType, NEW place \in Places \ (InClaims \cup {"parts"}), NEW k \in Nat,
         Save(p, OverTo(run[p], o, place, k)), rows' = rows, UNCHANGED counts, o.text = run[p].what,
         RecordsOnce(rows, cuts + removals, run[p].what, run[p], run[p].data) =>
           /\ place \in InText => TurnsOnce(rows, cuts + removals, run[p].what, run[p].ids)
           /\ IF place = "finish" THEN o.ids = <<>>
              ELSE TurnsOnce(rows, cuts + removals, run[p].what, o.ids),
         place # "stored"
  PROVE  Orderly'
<1> DEFINE r == run[p]
           s == OverTo(r, o, place, k)
<1>0. r \in RunType /\ faults \in Nat /\ faults <= faults
  BY DEF IInv, Counted
<1>1. /\ s \in RunType /\ s.at = place /\ s.what = r.what /\ s.ids = r.ids
      /\ s.data.source = r.data.source /\ s.data.chunk = r.data.chunk /\ s.data.over = o
  <2>1. place \in Places
    OBVIOUS
  <2> HIDE DEF Places, InClaims
  <2> QED BY <1>0, <2>1, OverSet
<1>2. Save(p, s)
  OBVIOUS
<1> HIDE DEF s
<1>3. Saved(o, r.what) = o.ids
  BY SavedIs
<1>4. ASSUME RecordsOnce(rows, cuts + removals, r.what, r, r.data)
      PROVE  RecordsOnce(rows, cuts + removals, r.what, s, s.data)
  BY <1>1, <1>3, <1>4 DEF RecordsOnce
<1>5. /\ faults' = faults /\ cuts' = cuts /\ removals' = removals /\ started' = started
      /\ overlap' = overlap
  BY DEF counts
<1>6. (\A x \in Sources : SameOf(rows, rows', x)) /\ SameClaims(rows, rows', r.what)
  BY NothingMore
<1> QED BY <1>0, <1>1, <1>2, <1>4, <1>5, <1>6, RecordStep
\* What a capture of a text knows when it is about to step.
LEMMA AtText ==
  ASSUME IInv, Counted, NEW p \in Procs, NEW place \in InText, At(p, place)
  PROVE  LET r == run[p] IN
         /\ r \in RunType /\ Local(rows, r) /\ r.at = place /\ ~r.saving /\ Busy(p)
         /\ r.what \in Texts /\ r.ids \in Seq(Nat) /\ r.turn \in Nat
         /\ rows \in Seq(RowType) /\ cuts + removals \in Nat
         /\ place \notin {"begin"} => Within(rows, r.ids)
<1> DEFINE r == run[p]
<1>1. r \in RunType /\ Local(rows, r) /\ r.at = place /\ ~r.saving
  BY DEF IInv, At
<1>2. Busy(p) /\ r.what \in Texts
  BY <1>1 DEF Busy, InText, Local
<1>3. r.ids \in Seq(Nat) /\ r.turn \in Nat
  BY <1>1 DEF RunType
<1>4. place \notin {"begin"} => Within(rows, r.ids)
  BY <1>1, <1>3 DEF InText, Local, TurnsDone, TurnsIn, Within
<1>5. rows \in Seq(RowType) /\ cuts + removals \in Nat
  BY DEF IInv, RowsGood, Counted
<1> QED BY <1>1, <1>2, <1>3, <1>4, <1>5

LEMMA RecordTextOnce ==
  ASSUME IInv, Counted, Orderly, NEW p \in Procs, RecordText(p) PROVE Orderly'
<1> DEFINE r == run[p]
           o == Overall(r.what, <<>>, FALSE)
           b == cuts + removals
<1>1. At(p, "begin")
  BY DEF RecordText
<1>2. /\ r \in RunType /\ Local(rows, r) /\ r.at = "begin" /\ ~r.saving /\ Busy(p)
      /\ r.what \in Texts /\ r.turn \in Nat
  BY <1>1, AtText DEF InText
<1>3. r.ids = <<>>
  BY <1>2 DEF Local
<1>4. o \in OverType /\ o.text = r.what /\ o.ids = <<>>
  BY <1>2 DEF Overall, OverType
<1>5. Save(p, OverTo(r, o, "reuse", r.turn)) /\ rows' = rows /\ UNCHANGED counts
  <2>1. OverTo(r, o, "reuse", r.turn) = [r EXCEPT !.data.over = o, !.at = "reuse"]
    BY <1>2 DEF OverTo, RunType
  <2> QED BY <2>1 DEF RecordText
<1> HIDE DEF o
<1>6. ASSUME RecordsOnce(rows, b, r.what, r, r.data)
      PROVE  TurnsOnce(rows, b, r.what, r.ids)
  BY <1>2, <1>6 DEF RecordsOnce, InText
<1>7. "reuse" \in Places \ (InClaims \cup {"parts"}) /\ r.at \notin InClaims \cup {"parts"}
  BY <1>2
<1> HIDE DEF Places, InClaims
<1> QED BY <1>2, <1>3, <1>4, <1>5, <1>6, <1>7, OverStep

LEMMA NoteTurnOnce ==
  ASSUME IInv, Counted, Orderly, NEW p \in Procs, NoteTurn(p) PROVE Orderly'
<1> DEFINE r == run[p]
           o == [r.data.over EXCEPT !.ids = r.ids]
           b == cuts + removals
<1>1. At(p, "stored")
  BY DEF NoteTurn
<1>2. /\ r \in RunType /\ Local(rows, r) /\ r.at = "stored" /\ ~r.saving /\ Busy(p)
      /\ r.what \in Texts /\ r.turn \in Nat /\ r.ids \in Seq(Nat)
  BY <1>1, AtText DEF InText
<1>3. r.data.over \in OverType /\ r.data.over.text = r.what /\ r.data \in ManifestType
  BY <1>2 DEF Local, RunType
<1>4. o \in OverType /\ o.text = r.what /\ o.ids = r.ids
  BY <1>2, <1>3 DEF OverType
<1>5. Save(p, OverTo(r, o, "sources", r.turn)) /\ rows' = rows /\ UNCHANGED counts
  <2>1. OverTo(r, o, "sources", r.turn) = [r EXCEPT !.data.over.ids = r.ids, !.at = "sources"]
    BY <1>2, <1>3 DEF OverTo, RunType, ManifestType
  <2> QED BY <2>1 DEF NoteTurn
<1> HIDE DEF o
<1>6. ASSUME RecordsOnce(rows, b, r.what, r, r.data)
      PROVE  TurnsOnce(rows, b, r.what, r.ids)
  BY <1>2, <1>6 DEF RecordsOnce, InText
<1>7. "sources" \in Places \ (InClaims \cup {"parts"}) /\ r.at \notin InClaims \cup {"parts"}
  BY <1>2
<1> HIDE DEF Places, InClaims
<1> QED BY <1>2, <1>4, <1>5, <1>6, <1>7, OverStep

LEMMA SourcedOnce ==
  ASSUME IInv, Counted, Orderly, NEW p \in Procs, Sourced(p) PROVE Orderly'
<1> DEFINE r == run[p]
           o == Overall(r.what, r.ids, FALSE)
           b == cuts + removals
<1>1. At(p, "sources")
  BY DEF Sourced
<1>2. /\ r \in RunType /\ Local(rows, r) /\ r.at = "sources" /\ ~r.saving /\ Busy(p)
      /\ r.what \in Texts /\ r.ids \in Seq(Nat)
  BY <1>1, AtText DEF InText
<1>4. o \in OverType /\ o.text = r.what /\ o.ids = r.ids
  BY <1>2 DEF Overall, OverType
<1>5. Save(p, OverTo(r, o, "chunk", 1)) /\ rows' = rows /\ UNCHANGED counts
  BY DEF OverTo, Sourced
<1> HIDE DEF o
<1>6. ASSUME RecordsOnce(rows, b, r.what, r, r.data)
      PROVE  TurnsOnce(rows, b, r.what, r.ids)
  BY <1>2, <1>6 DEF RecordsOnce, InText
<1>7. "chunk" \in Places \ (InClaims \cup {"parts"}) /\ r.at \notin InClaims \cup {"parts"}
  BY <1>2
<1> HIDE DEF Places, InClaims
<1> QED BY <1>2, <1>4, <1>5, <1>6, <1>7, OverStep

LEMMA FinishOnce ==
  ASSUME IInv, Counted, Orderly, NEW p \in Procs, Finish(p) PROVE Orderly'
<1> DEFINE r == run[p]
           o == Overall(r.what, <<>>, FALSE)
           b == cuts + removals
<1>1. At(p, "chunk")
  BY DEF Finish
<1>2. /\ r \in RunType /\ r.at = "chunk" /\ ~r.saving /\ Busy(p)
      /\ r.what \in Texts /\ r.turn \in Nat
  BY <1>1, AtText DEF InText
<1>4. o \in OverType /\ o.text = r.what /\ o.ids = <<>>
  BY <1>2 DEF Overall, OverType
<1>5. Save(p, OverTo(r, o, "finish", r.turn)) /\ rows' = rows /\ UNCHANGED counts
  <2>1. OverTo(r, o, "finish", r.turn) = [r EXCEPT !.data.over = o, !.at = "finish"]
    BY <1>2 DEF OverTo, RunType
  <2> QED BY <2>1 DEF Finish
<1> HIDE DEF o
<1>6. ASSUME RecordsOnce(rows, b, r.what, r, r.data)
      PROVE  TurnsOnce(rows, b, r.what, r.ids)
  BY <1>2, <1>6 DEF RecordsOnce, InText
<1>7. "finish" \in Places \ (InClaims \cup {"parts"}) /\ r.at \notin InClaims \cup {"parts"}
  BY <1>2
<1> HIDE DEF Places, InClaims
<1> QED BY <1>2, <1>4, <1>5, <1>6, <1>7, OverStep

LEMMA CompleteOnce ==
  ASSUME IInv, Counted, Orderly, NEW p \in Procs, Complete(p) PROVE Orderly'
<1> DEFINE r == run[p]
           done == AllChunksComplete(r.data)
           o == Overall(r.what, r.ids, done)
           b == cuts + removals
<1>1. At(p, "finish")
  BY DEF Complete
<1>2. /\ r \in RunType /\ r.at = "finish" /\ ~r.saving /\ Busy(p)
      /\ r.what \in Texts /\ r.turn \in Nat /\ r.ids \in Seq(Nat)
  BY <1>1, AtText DEF InText
<1>3. done \in BOOLEAN
  BY DEF AllChunksComplete
<1>5. Save(p, OverTo(r, o, "ended", r.turn)) /\ rows' = rows /\ UNCHANGED counts
  <2>1. OverTo(r, o, "ended", r.turn) = [r EXCEPT !.data.over = o, !.at = "ended"]
    BY <1>2 DEF OverTo, RunType
  <2> QED BY <2>1 DEF Complete
<1> HIDE DEF done
<1>4. o \in OverType /\ o.text = r.what /\ o.ids = r.ids
  BY <1>2, <1>3 DEF Overall, OverType
<1> HIDE DEF o
<1>6. ASSUME RecordsOnce(rows, b, r.what, r, r.data)
      PROVE  TurnsOnce(rows, b, r.what, r.ids)
  BY <1>2, <1>6 DEF RecordsOnce, InText
<1>7. "ended" \in Places \ (InClaims \cup {"parts"}) /\ r.at \notin InClaims \cup {"parts"}
  BY <1>2
<1> HIDE DEF Places, InClaims
<1> QED BY <1>2, <1>4, <1>5, <1>6, <1>7, OverStep
\* What is behind a record that was purged is stored again, and has not been before.
LEMMA TurnsReused ==
  ASSUME NEW R, R \in Seq(RowType), NEW t, NEW b \in Nat, NEW ids \in Seq(Nat),
         NEW k \in 0..Len(ids), \A i \in 1..k : R[ids[i]].gone # "purged",
         k < Len(ids) => R[ids[k + 1]].gone = "purged",
         TurnsOnce(R, b, t, ids)
  PROVE  TurnsOnce(R, b, t, SubSeq(ids, 1, k))
<1> DEFINE cut == SubSeq(ids, 1, k)
<1>1. Len(cut) = k /\ \A i \in 1..k : cut[i] = ids[i]
  OBVIOUS
<1> HIDE DEF cut
<1> SUFFICES ASSUME NEW n \in Nat
             PROVE  Times(R, <<t, n, None>>) + Gone(R, cut, n)
                      <= b + (IF n <= Len(cut) THEN 1 ELSE 0)
  BY DEF TurnsOnce, cut
<1>2. Gone(R, cut, n) = 0
  BY <1>1 DEF Gone
<1>3. /\ Times(R, <<t, n, None>>) + Gone(R, ids, n) <= b + (IF n <= Len(ids) THEN 1 ELSE 0)
      /\ Times(R, <<t, n, None>>) \in Nat /\ Gone(R, ids, n) \in {0, 1}
  BY TimesNat, GoneNat DEF TurnsOnce
<1>4. CASE n <= k
  BY <1>1, <1>2, <1>3, <1>4
<1>5. CASE k < n /\ n <= Len(ids)
  <2>1. k + 1 \in 1..Len(ids) /\ k + 1 <= n
    BY <1>5
  <2>2. Gone(R, ids, n) = 1
    BY <1>5, <2>1 DEF Gone
  <2> QED BY <1>1, <1>2, <1>3, <1>5, <2>2
<1>6. CASE Len(ids) < n
  BY <1>1, <1>2, <1>3, <1>6
<1> QED BY <1>4, <1>5, <1>6

LEMMA ReuseOnce ==
  ASSUME IInv, Counted, Orderly, NEW p \in Procs, Reuse(p) PROVE Orderly'
<1> DEFINE r == run[p]
           b == cuts + removals
<1>1. At(p, "reuse")
  BY DEF Reuse
<1>2. /\ r \in RunType /\ Local(rows, r) /\ r.at = "reuse" /\ ~r.saving /\ Busy(p)
      /\ r.what \in Texts /\ r.ids \in Seq(Nat) /\ rows \in Seq(RowType) /\ b \in Nat
  BY <1>1, AtText DEF InText
<1>3. PICK n \in 0..Len(r.ids) :
        /\ \A i \in 1..n : rows[r.ids[i]].gone # "purged"
        /\ \/ /\ n < Len(r.ids) => ~(rows[r.ids[n + 1]].gone # "purged")
              /\ UNCHANGED <<faults, cuts>>
           \/ n < Len(r.ids) /\ Cut
        /\ SetRun(p, [r EXCEPT !.ids = SubSeq(r.ids, 1, n), !.at = "sources"])
  BY DEF Reuse
<1> DEFINE ids == SubSeq(r.ids, 1, n)
           s == [r EXCEPT !.ids = ids, !.at = "sources"]
           old == Saved(r.data.over, r.what)
<1>4. ids \in Seq(Nat)
  BY <1>2
<1>5. SetRun(p, s) /\ rows' = rows /\ UNCHANGED <<removals, history>>
  BY <1>3 DEF Reuse
<1>6. TurnsOnce(rows, b, r.what, r.ids) => TurnsOnce(rows, b + 1, r.what, ids)
  BY <1>2, <1>3, TurnsDropped
<1>7. ASSUME n < Len(r.ids) => ~(rows[r.ids[n + 1]].gone # "purged")
      PROVE  TurnsOnce(rows, b, r.what, r.ids) => TurnsOnce(rows, b, r.what, ids)
  BY <1>2, <1>3, <1>7, TurnsReused
<1> HIDE DEF ids
<1>8. /\ s \in RunType /\ s.at = "sources" /\ s.data = r.data /\ s.what = r.what /\ s.ids = ids
      /\ s.saving = r.saving
  BY <1>2, <1>4 DEF RunType
<1> HIDE DEF s
<1>9. CASE /\ n < Len(r.ids) => ~(rows[r.ids[n + 1]].gone # "purged")
           /\ UNCHANGED <<faults, cuts>>
  <2>1. ASSUME RecordsOnce(rows, b, r.what, r, r.data)
        PROVE  RecordsOnce(rows, b, r.what, s, s.data)
    BY <1>2, <1>7, <1>8, <1>9, <2>1 DEF RecordsOnce, InText
  <2>2. /\ faults' = faults /\ cuts' = cuts /\ removals' = removals /\ started' = started
        /\ overlap' = overlap /\ faults \in Nat /\ faults <= faults
    BY <1>5, <1>9 DEF history, Counted
  <2>3. (\A x \in Sources : SameOf(rows, rows', x)) /\ SameClaims(rows, rows', r.what)
    BY <1>5, NothingMore
  <2> QED BY <1>2, <1>5, <1>8, <2>1, <2>2, <2>3, RecordStep
<1>10. CASE Cut
  <2>1. ASSUME RecordsOnce(rows, b, r.what, r, r.data)
        PROVE  RecordsOnce(rows', b + 1, r.what, s, s.data)
    <3>1. TurnsOnce(rows, b, r.what, r.ids) /\ TurnsOnce(rows, b, r.what, old)
      BY <1>2, <2>1 DEF RecordsOnce, InText
    <3>2. Within(rows, old)
      BY <1>2, SavedWithin DEF Local, RunType
    <3>3. TurnsOnce(rows, b + 1, r.what, old)
      <4> HIDE DEF b, old, r
      <4> QED BY <1>2, <3>1, <3>2, SelfMore, TurnsMore
    <3> QED BY <1>5, <1>6, <1>8, <3>1, <3>3 DEF RecordsOnce
  <2>2. More(rows, rows', <<r.what, 0, None>>)
    BY <1>2, <1>5, SelfMore
  <2>3. \A k \in Nat : KeysNow(r, r.data, r.what, k) \subseteq KeysNow(s, s.data, r.what, k)
    BY <1>2, <1>8 DEF KeysNow
  <2> QED BY <1>2, <1>5, <1>8, <1>10, <2>1, <2>2, <2>3, CutStep
<1> QED BY <1>3, <1>9, <1>10

LEMMA StoreTurnOnce ==
  ASSUME IInv, Counted, Orderly, NEW p \in Procs, StoreTurn(p) PROVE Orderly'
<1> DEFINE r == run[p]
           t == r.what
           k == Len(r.ids) + 1
           b == cuts + removals
           ids == Append(r.ids, Len(rows) + 1)
           s == [r EXCEPT !.ids = ids, !.at = "stored"]
           item == <<t, k, None>>
<1>1. At(p, "sources")
  BY DEF StoreTurn
<1>2. /\ r \in RunType /\ r.at = "sources" /\ ~r.saving /\ Busy(p) /\ Local(rows, r)
      /\ r.what \in Texts /\ r.ids \in Seq(Nat) /\ rows \in Seq(RowType) /\ b \in Nat
      /\ Within(rows, r.ids)
  BY <1>1, AtText DEF InText
<1>3. /\ SetRun(p, s) /\ rows' = Append(rows, Row(item, {})) /\ UNCHANGED counts
  BY DEF StoreTurn
<1>4. item \in Statements
  BY <1>2 DEF Statements
<1>5. /\ More(rows, rows', item) /\ rows' \in Seq(RowType)
      /\ rows'[Len(rows) + 1].gone = "no"
  BY <1>2, <1>3, <1>4, AppendMore
<1>6. /\ Standing(rows, rows') /\ SameClaims(rows, rows', t)
      /\ \A x \in Sources : SameOf(rows, rows', x)
  BY <1>2, <1>5, MoreElsewhere, SourcesAssumption
<1>7. /\ ids \in Seq(Nat) /\ Len(ids) = k /\ ids[k] = Len(rows) + 1 /\ k \in Nat
      /\ Len(r.ids) \in Nat /\ \A i \in 1..Len(r.ids) : ids[i] = r.ids[i]
  BY <1>2
<1> HIDE DEF ids
<1>8. /\ s \in RunType /\ s.at = "stored" /\ s.data = r.data /\ s.what = r.what /\ s.ids = ids
      /\ s.saving = r.saving
  BY <1>2, <1>7 DEF RunType
<1> HIDE DEF s
<1>9. ASSUME RecordsOnce(rows, b, t, r, r.data) PROVE RecordsOnce(rows', b, t, s, s.data)
  <2> DEFINE old == Saved(r.data.over, t)
  <2>1. TurnsOnce(rows, b, t, r.ids) /\ TurnsOnce(rows, b, t, old)
    BY <1>2, <1>9 DEF RecordsOnce, InText
  <2>2. Within(rows, old)
    BY <1>2, SavedWithin DEF Local, RunType
  <2> HIDE DEF old
  <2>3. ASSUME NEW n \in Nat
        PROVE  /\ Times(rows', <<t, n, None>>) \in Nat /\ Times(rows, <<t, n, None>>) \in Nat
               /\ Times(rows', <<t, n, None>>) <= Times(rows, <<t, n, None>>) + 1
               /\ n # k => Times(rows', <<t, n, None>>) = Times(rows, <<t, n, None>>)
    <3>1. Times(rows', <<t, n, None>>) \in Nat /\ Times(rows, <<t, n, None>>) \in Nat
      BY <1>2, <1>5, TimesNat
    <3>2. n # k => <<t, n, None>> # item
      OBVIOUS
    <3>3. n # k => Times(rows', <<t, n, None>>) = Times(rows, <<t, n, None>>)
      BY <1>5, <3>2 DEF More
    <3>4. n = k => Times(rows', <<t, n, None>>) <= Times(rows, <<t, n, None>>) + 1
      BY <1>5 DEF More
    <3> QED BY <3>1, <3>3, <3>4
  <2>4. ASSUME NEW n \in Nat
        PROVE  Times(rows', <<t, n, None>>) + Gone(rows', ids, n)
                 <= b + (IF n <= Len(ids) THEN 1 ELSE 0)
    <3>1. Gone(rows', ids, n) = Gone(rows, r.ids, n)
      <4>1. Gone(rows', r.ids, n) = Gone(rows, r.ids, n)
        BY <1>2, <1>6, GoneStanding
      <4>2. \A i \in 1..Len(ids) : i \in 1..Len(r.ids) \/ i = k
        BY <1>7
      <4>3. /\ rows'[ids[k]].gone # "purged"
            /\ \A i \in 1..Len(r.ids) : i \in 1..Len(ids) /\ rows'[ids[i]] = rows'[r.ids[i]]
        BY <1>5, <1>7, SMTT(30)
      <4>4. (\E i \in 1..Len(ids) : i <= n /\ rows'[ids[i]].gone = "purged")
              <=> \E i \in 1..Len(r.ids) : i <= n /\ rows'[r.ids[i]].gone = "purged"
        BY <4>2, <4>3, SMTT(30)
      <4> QED BY <4>1, <4>4 DEF Gone
    <3>2. Times(rows, <<t, n, None>>) + Gone(rows, r.ids, n)
            <= b + (IF n <= Len(r.ids) THEN 1 ELSE 0)
      BY <2>1 DEF TurnsOnce
    <3>3. Gone(rows, r.ids, n) \in {0, 1}
      BY GoneNat
    <3> HIDE DEF b, t
    <3>4. CASE n = k
      BY <1>2, <1>7, <2>3, <3>1, <3>2, <3>3, <3>4, SMTT(30)
    <3>5. CASE n # k
      BY <1>2, <1>7, <2>3, <3>1, <3>2, <3>3, <3>5, SMTT(30)
    <3> QED BY <3>4, <3>5
  <2>5. TurnsOnce(rows', b, t, ids)
    BY <2>4 DEF TurnsOnce
  <2>6. ASSUME NEW n \in Nat
        PROVE  Times(rows', <<t, n, None>>) + Gone(rows', old, n)
                 <= b + 1 + (IF n <= Len(old) THEN 1 ELSE 0)
    <3>1. Gone(rows', old, n) = Gone(rows, old, n) /\ Gone(rows, old, n) \in {0, 1}
      BY <1>2, <1>6, <2>2, GoneStanding, GoneNat
    <3>2. Times(rows, <<t, n, None>>) + Gone(rows, old, n)
            <= b + (IF n <= Len(old) THEN 1 ELSE 0)
      BY <2>1 DEF TurnsOnce
    <3> HIDE DEF b, t
    <3> QED BY <1>2, <2>3, <3>1, <3>2
  <2>7. TurnsOnce(rows', b + 1, t, old)
    BY <2>6 DEF TurnsOnce
  <2> QED BY <1>8, <2>5, <2>7 DEF RecordsOnce, old
<1>10. /\ faults' = faults /\ cuts' = cuts /\ removals' = removals /\ started' = started
       /\ overlap' = overlap /\ faults \in Nat /\ faults <= faults
  BY <1>3 DEF counts, Counted
<1> QED BY <1>2, <1>3, <1>6, <1>8, <1>9, <1>10, RecordStep

LEMMA PartFailsOnce ==
  ASSUME IInv, Counted, Orderly, NEW p \in Procs, StoreFails(p), At(p, "parts") PROVE Orderly'
<1> DEFINE r == run[p]
           s == [r EXCEPT !.at = "ended", !.clean = FALSE]
           item == <<r.what, r.turn + 1, None>>
<1>1. /\ r \in RunType /\ Local(rows, r) /\ rows \in Seq(RowType) /\ r.at = "parts"
      /\ ~r.saving /\ Busy(p) /\ r.what \in Sources /\ r.turn \in Nat
  BY DEF IInv, RowsGood, At, Busy, Local, RunType
<1>2. /\ SetRun(p, s) /\ Cut /\ removals' = removals /\ UNCHANGED history
      /\ rows' = rows \/ rows' = Append(rows, Row(item, {}))
  BY DEF StoreFails, At
<1>3. /\ s \in RunType /\ s.at = "ended" /\ s.data = r.data /\ s.what = r.what
      /\ s.saving = r.saving
  BY <1>1 DEF RunType
<1> HIDE DEF s
<1>4. /\ faults' = faults + 1 /\ faults \in Nat /\ cuts' + removals' = cuts + removals + 1
      /\ cuts + removals \in Nat /\ started' = started /\ overlap' = overlap
  BY <1>2 DEF Cut, Fault, Counted, history
<1>5. More(rows, rows', item) /\ rows' \in Seq(RowType)
  <2>1. item \in Statements /\ {} \in SUBSET Nat
    BY <1>1 DEF Statements
  <2>2. CASE rows' = rows
    BY <1>1, <2>2, SelfMore
  <2>3. CASE rows' = Append(rows, Row(item, {}))
    <3> HIDE DEF item
    <3> QED BY <1>1, <2>1, <2>3, AppendMore
  <2> QED BY <1>2, <2>2, <2>3
<1>6. Standing(rows, rows') /\ \A t \in Texts : SameTurns(rows, rows', t) /\ SameClaims(rows, rows', t)
  BY <1>1, <1>5, MoreElsewhere, SourcesAssumption
<1>7. ASSUME ~overlap PROVE Fits(started, rows', faults', cuts' + removals', s, s.data)
  <2>1. FitsNow(r, r.data) /\ r.data.source[Identity[r.what]] # r.what
    BY <1>1, <1>7 DEF Orderly, FitsNow, Fits
  <2>2. ASSUME NEW x \in Sources, Lone(started, x)
        PROVE  PartsOnce(rows', faults', x, s, s.data)
    <3>1. PartsOnce(rows, faults, x, r, r.data)
      BY <2>1, <2>2 DEF FitsNow, Fits
    <3> SUFFICES ASSUME NEW n \in Nat, NEW q \in Quotes \cup {None}
                 PROVE  Times(rows', <<x, n, q>>) <=
                          faults' + (IF Entered(x, s, s.data, n) THEN 1 ELSE 0)
      BY DEF PartsOnce
    <3>2. /\ Times(rows, <<x, n, q>>) <=
               faults + (IF Entered(x, r, r.data, n) THEN 1 ELSE 0)
          /\ Times(rows, <<x, n, q>>) \in Nat
      BY <1>1, <3>1, TimesNat DEF PartsOnce
    <3>3. CASE <<x, n, q>> = item
      <4>1. x = r.what /\ n = r.turn + 1
        BY <3>3
      <4>2. ~Entered(x, r, r.data, n)
        BY <1>1, <2>1, <4>1 DEF Entered
      <4>3. Times(rows', <<x, n, q>>) <= Times(rows, <<x, n, q>>) + 1
            /\ Times(rows', <<x, n, q>>) \in Nat
        BY <1>1, <1>5, MoreThan
      <4> QED BY <1>4, <3>2, <4>2, <4>3
    <3>4. CASE <<x, n, q>> # item
      <4>1. Times(rows', <<x, n, q>>) = Times(rows, <<x, n, q>>)
        BY <1>5, <3>4 DEF More
      <4> QED BY <1>4, <3>2, <4>1
    <3> QED BY <3>3, <3>4
  <2>3. cuts' + removals' \in Nat /\ cuts + removals <= cuts' + removals'
    BY <1>4
  <2> HIDE DEF r
  <2> QED BY <1>1, <1>3, <1>6, <1>7, <2>2, <2>3, SourceFitsWith DEF r
<1> QED BY <1>1, <1>2, <1>3, <1>4, <1>7, BusyStep

LEMMA TurnFailsOnce ==
  ASSUME IInv, Counted, Orderly, NEW p \in Procs, StoreFails(p), At(p, "sources") PROVE Orderly'
<1> DEFINE r == run[p]
           b == cuts + removals
           s == [r EXCEPT !.at = "ended", !.clean = FALSE]
           item == <<r.what, Len(r.ids) + 1, None>>
           old == Saved(r.data.over, r.what)
<1>1. /\ r \in RunType /\ Local(rows, r) /\ r.at = "sources" /\ ~r.saving /\ Busy(p)
      /\ r.what \in Texts /\ r.ids \in Seq(Nat) /\ rows \in Seq(RowType) /\ b \in Nat
  BY AtText DEF InText
<1>2. /\ SetRun(p, s) /\ Cut /\ removals' = removals /\ UNCHANGED history
      /\ rows' = rows \/ rows' = Append(rows, Row(item, {}))
  BY DEF StoreFails, At
<1>3. /\ s \in RunType /\ s.at = "ended" /\ s.data = r.data /\ s.what = r.what
      /\ s.saving = r.saving
  BY <1>1 DEF RunType
<1> HIDE DEF s
<1>4. More(rows, rows', item) /\ rows' \in Seq(RowType)
  <2>1. item \in Statements /\ {} \in SUBSET Nat
    BY <1>1 DEF Statements
  <2>2. CASE rows' = rows
    BY <1>1, <2>2, SelfMore
  <2>3. CASE rows' = Append(rows, Row(item, {}))
    <3> HIDE DEF item
    <3> QED BY <1>1, <2>1, <2>3, AppendMore
  <2> QED BY <1>2, <2>2, <2>3
<1>5. ASSUME RecordsOnce(rows, b, r.what, r, r.data)
      PROVE  RecordsOnce(rows', b + 1, r.what, s, s.data)
  <2>1. TurnsOnce(rows, b, r.what, old)
    BY <1>1, <1>5 DEF RecordsOnce
  <2>2. Within(rows, old)
    BY <1>1, SavedWithin DEF Local, RunType
  <2>3. TurnsOnce(rows', b + 1, r.what, old)
    <3> HIDE DEF b, old, r, item
    <3> QED BY <1>1, <1>4, <2>1, <2>2, TurnsMore
  <2> QED BY <1>3, <2>3 DEF RecordsOnce, InText
<1>6. \A k \in Nat : KeysNow(r, r.data, r.what, k) \subseteq KeysNow(s, s.data, r.what, k)
  BY <1>1, <1>3 DEF KeysNow
<1> QED BY <1>1, <1>2, <1>3, <1>4, <1>5, <1>6, CutStep

LEMMA StoreFailsOnce ==
  ASSUME IInv, Counted, Orderly, NEW p \in Procs, StoreFails(p) PROVE Orderly'
BY PartFailsOnce, TurnFailsOnce DEF StoreFails
\* The entry of a chunk is set.
LEMMA RecordedFields ==
  ASSUME NEW R, NEW r, InChunkWith(R, r), NEW K \in {{}, r.keys}, NEW done \in BOOLEAN
  PROVE  LET s == Recorded(r, K, done) IN
         /\ s \in RunType /\ s.what = r.what /\ s.turn = r.turn /\ s.ids = r.ids
         /\ s.keys = r.keys /\ s.todo = r.todo
         /\ s.data.over = r.data.over /\ s.data.source = r.data.source
         /\ \A n \in 1..Turns \ {r.turn} : s.data.chunk[n] = r.data.chunk[n]
         /\ Entry(s.data, r.what, r.turn).keys = K
<1> DEFINE c == Chunk(r.what, K, r.out, done)
           d == [r.data EXCEPT !.chunk[r.turn] = c]
           s == Recorded(r, K, done)
<1>0. /\ r \in RunType /\ r.data \in ManifestType /\ r.turn \in 1..Turns
      /\ r.what \in Texts /\ r.keys \subseteq Quotes /\ r.out \subseteq Nat
  BY DEF InChunkWith, AtChunk, RunType
<1>1. c \in ChunkType /\ c.text = r.what /\ c.keys = K
  BY <1>0 DEF Chunk, ChunkType
<1>2. s = [r EXCEPT !.data = d]
  BY <1>0 DEF RunType, Recorded
<1> HIDE DEF c
<1>3. /\ d \in ManifestType /\ d.over = r.data.over /\ d.source = r.data.source
      /\ \A n \in 1..Turns : d.chunk[n] = IF n = r.turn THEN c ELSE r.data.chunk[n]
  BY <1>0, <1>1 DEF ManifestType
<1> HIDE DEF d
<1>4. c # None
  BY <1>1, NoneAssumption DEF ChunkType
<1>5. Entry(d, r.what, r.turn).keys = K
  BY <1>0, <1>1, <1>3, <1>4 DEF Entry
<1>6. /\ s \in RunType /\ s.data = d /\ s.what = r.what /\ s.turn = r.turn /\ s.ids = r.ids
      /\ s.keys = r.keys /\ s.todo = r.todo
  BY <1>0, <1>2, <1>3 DEF RunType
<1> HIDE DEF s
<1> QED BY <1>3, <1>5, <1>6 DEF s

\* A save in the middle of a chunk.
LEMMA ClaimsSave ==
  ASSUME IInv, Counted, Orderly, NEW p \in Procs, Busy(p), ~run[p].saving,
         run[p].what \in Texts, run[p].at \in InClaims \cup {"chunk"},
         NEW c, InChunkWith(rows, c), c.what = run[p].what, c.turn = run[p].turn,
         c.ids = run[p].ids, c.data = run[p].data,
         KeysNow(run[p], run[p].data, run[p].what, run[p].turn) \subseteq c.keys,
         NEW K \in {{}, c.keys}, NEW done \in BOOLEAN, NEW place \in {"noted", "claims", "closed"},
         ~overlap /\ place # "closed" => c.todo \cap c.keys = {},
         Save(p, [Recorded(c, K, done) EXCEPT !.at = place]),
         rows' = rows, faults' \in Nat, faults <= faults', cuts' = cuts, removals' = removals,
         started' = started, overlap' = overlap
  PROVE  Orderly'
<1> DEFINE r == run[p]
           t == r.what
           u == Recorded(c, K, done)
           s == [u EXCEPT !.at = place]
<1>1. /\ u \in RunType /\ u.what = c.what /\ u.turn = c.turn /\ u.ids = c.ids
      /\ u.keys = c.keys /\ u.todo = c.todo
      /\ u.data.over = c.data.over /\ u.data.source = c.data.source
      /\ \A n \in 1..Turns \ {c.turn} : u.data.chunk[n] = c.data.chunk[n]
  BY RecordedFields, SMTT(30)
<1> HIDE DEF u
<1>2. /\ s \in RunType /\ s.at = place /\ s.data = u.data /\ s.what = c.what
      /\ s.turn = c.turn /\ s.ids = c.ids /\ s.keys = c.keys /\ s.todo = c.todo
  BY <1>1 DEF RunType
<1>3. Save(p, s)
  BY DEF u
<1> HIDE DEF s
<1>4. /\ c.turn \in 1..Turns
  BY DEF InChunkWith, AtChunk
<1>5. ASSUME NEW n \in Nat PROVE KeysNow(r, r.data, t, n) \subseteq KeysNow(s, s.data, t, n)
  <2>1. CASE n = c.turn
    BY <1>2, <2>1, SMTT(30) DEF KeysNow
  <2>2. CASE n # c.turn
    BY <1>1, <1>2, <2>2 DEF KeysNow, Entry
  <2> QED BY <2>1, <2>2
<1>6. SameClaims(rows, rows', t) /\ SameTurns(rows, rows', t) /\ Standing(rows, rows')
      /\ \A x \in Sources : SameOf(rows, rows', x)
  BY NothingMore
<1>7. /\ rows \in Seq(RowType) /\ cuts + removals \in Nat
      /\ cuts + removals <= cuts + removals
  BY DEF IInv, RowsGood, Counted
<1>8. ASSUME ClaimsOnce(rows, cuts + removals, t, r, r.data)
      PROVE  ClaimsOnce(rows', cuts + removals, t, s, s.data)
  <2> HIDE DEF r
  <2> QED BY <1>5, <1>6, <1>7, <1>8, ClaimsKept
<1>9. ~overlap /\ s.at \in {"claims", "learned", "noted"} => s.todo \cap s.keys = {}
  BY <1>2
<1> QED BY <1>1, <1>2, <1>3, <1>6, <1>8, <1>9, ChunkStep

LEMMA AskFailsOnce ==
  ASSUME IInv, Counted, Orderly, NEW p \in Procs, AskFails(p) PROVE Orderly'
<1> DEFINE r == run[p]
           c == [r EXCEPT !.out = Mine(p).out, !.keys = Mine(p).keys, !.failed = TRUE,
                          !.clean = FALSE]
<1>1. /\ AtChunk(rows, r) /\ Mine(p).keys \subseteq Quotes /\ Mine(p).out \subseteq Nat
      /\ KeysIn(rows, r.what, r.turn, Mine(p).keys)
  BY MineGood DEF AskFails
<1>2. /\ c \in RunType /\ c.keys = Mine(p).keys /\ c.data = r.data
      /\ c.what = r.what /\ c.turn = r.turn /\ c.ids = r.ids
  BY <1>1 DEF AtChunk, RunType
<1>3. /\ Save(p, [Recorded(c, {}, FALSE) EXCEPT !.at = "closed"]) /\ rows' = rows
      /\ faults' = faults + 1 /\ cuts' = cuts /\ removals' = removals /\ started' = started
      /\ overlap' = overlap /\ At(p, "chunk")
  BY DEF AskFails, Fault, history, InChunk
<1> HIDE DEF c
<1>4. InChunkWith(rows, c)
  BY <1>1, <1>2 DEF InChunkWith, AtChunk
<1>5. r.at = "chunk" /\ ~r.saving /\ Busy(p) /\ r.what \in Texts
  BY <1>3, AtText DEF InText
<1>6. KeysNow(r, r.data, r.what, r.turn) \subseteq c.keys
  BY <1>1, <1>2, <1>5 DEF KeysNow, Mine, AtChunk
<1>7. faults' \in Nat /\ faults <= faults'
  BY <1>3 DEF Counted
<1> QED BY <1>2, <1>3, <1>4, <1>5, <1>6, <1>7, ClaimsSave

\* The saves that follow what a chunk's claims came to.
LEMMA ClaimsSavedOnce ==
  ASSUME IInv, Counted, Orderly, NEW p \in Procs,
         NoteClaim(p) \/ NoteKeys(p) \/ CloseChunk(p)
  PROVE  Orderly'
<1> DEFINE r == run[p]
<1>1. PICK K \in {{}, r.keys}, done \in BOOLEAN, place \in {"noted", "claims", "closed"} :
        /\ Save(p, [Recorded(r, K, done) EXCEPT !.at = place])
        /\ place # "closed" => r.at \in {"learned", "noted"}
  <2>1. CASE NoteClaim(p)
    BY <2>1 DEF NoteClaim, At
  <2>2. CASE NoteKeys(p)
    BY <2>2 DEF NoteKeys, At
  <2>3. CASE CloseChunk(p)
    BY <2>3 DEF CloseChunk, IInv, RunType
  <2> QED BY <2>1, <2>2, <2>3
<1>2. /\ r.at \in {"claims", "learned", "noted"} /\ ~r.saving /\ Busy(p) /\ r.what \in Texts
      /\ Local(rows, r)
  <2>1. At(p, "claims") \/ At(p, "learned") \/ At(p, "noted")
    BY DEF NoteClaim, NoteKeys, CloseChunk
  <2> QED BY <2>1, AtText DEF InText
<1>3. InChunkWith(rows, r)
  BY <1>2, ClaimsGood
<1>4. KeysNow(r, r.data, r.what, r.turn) \subseteq r.keys
  BY <1>2 DEF KeysNow
<1>5. ~overlap => r.todo \cap r.keys = {}
  BY <1>2 DEF Orderly, FitsNow, Fits
<1>6. /\ rows' = rows /\ faults' = faults /\ cuts' = cuts /\ removals' = removals
      /\ started' = started /\ overlap' = overlap /\ faults \in Nat /\ faults <= faults
  BY DEF NoteClaim, NoteKeys, CloseChunk, counts, Counted
<1> HIDE DEF r
<1> QED BY <1>1, <1>2, <1>3, <1>4, <1>5, <1>6, ClaimsSave DEF r

LEMMA CloseKeysOnce ==
  ASSUME IInv, Counted, Orderly, NEW p \in Procs, CloseKeys(p) PROVE Orderly'
<1> DEFINE r == run[p]
           t == r.what
           u == Recorded(r, r.keys, ~r.failed)
           s == [u EXCEPT !.at = "chunk", !.turn = r.turn + 1]
<1>1. /\ r \in RunType /\ r.at = "closed" /\ ~r.saving /\ Busy(p) /\ r.what \in Texts
      /\ Local(rows, r) /\ r.turn \in Nat /\ At(p, "closed")
  <2>1. At(p, "closed")
    BY DEF CloseKeys
  <2> QED BY <2>1, AtText DEF InText
<1>2. InChunkWith(rows, r)
  BY <1>1, ClaimsGood
<1>3. /\ u \in RunType /\ u.what = r.what /\ u.turn = r.turn /\ u.ids = r.ids
      /\ u.data.over = r.data.over /\ u.data.source = r.data.source
      /\ \A n \in 1..Turns \ {r.turn} : u.data.chunk[n] = r.data.chunk[n]
      /\ Entry(u.data, r.what, r.turn).keys = r.keys
  <2>1. r.keys \in {{}, r.keys} /\ (~r.failed) \in BOOLEAN
    BY <1>1 DEF RunType
  <2> DEFINE done == ~r.failed
  <2>2. done \in BOOLEAN
    BY <2>1
  <2> HIDE DEF done, r
  <2>3. LET v == Recorded(r, r.keys, done) IN
        /\ v \in RunType /\ v.what = r.what /\ v.turn = r.turn /\ v.ids = r.ids
        /\ v.data.over = r.data.over /\ v.data.source = r.data.source
        /\ \A n \in 1..Turns \ {r.turn} : v.data.chunk[n] = r.data.chunk[n]
        /\ Entry(v.data, r.what, r.turn).keys = r.keys
    BY <1>2, <2>1, <2>2, RecordedFields
  <2> QED BY <2>3 DEF done
<1>4. Save(p, s) /\ rows' = rows /\ UNCHANGED counts
  BY DEF CloseKeys
<1> HIDE DEF u
<1>5. r.turn + 1 \in Nat
  BY <1>1
<1>6. /\ s \in RunType /\ s.at = "chunk" /\ s.data = u.data /\ s.what = r.what /\ s.ids = r.ids
  BY <1>3, <1>5 DEF RunType
<1> HIDE DEF s
<1>7. ASSUME NEW n \in Nat PROVE KeysNow(r, r.data, t, n) \subseteq KeysNow(s, s.data, t, n)
  <2>1. r.turn \in 1..Turns
    BY <1>2 DEF InChunkWith, AtChunk
  <2>2. CASE n = r.turn
    BY <1>1, <1>3, <1>6, <2>1, <2>2 DEF KeysNow
  <2>3. CASE n # r.turn
    BY <1>1, <1>3, <1>6, <2>3 DEF KeysNow, Entry
  <2> QED BY <2>2, <2>3
<1>8. SameClaims(rows, rows', t) /\ SameTurns(rows, rows', t) /\ Standing(rows, rows')
      /\ \A x \in Sources : SameOf(rows, rows', x)
  BY <1>4, NothingMore
<1>9. /\ rows \in Seq(RowType) /\ cuts + removals \in Nat
      /\ cuts + removals <= cuts + removals
  BY DEF IInv, RowsGood, Counted
<1>10. ASSUME ClaimsOnce(rows, cuts + removals, t, r, r.data)
       PROVE  ClaimsOnce(rows', cuts + removals, t, s, s.data)
  <2> HIDE DEF r
  <2> QED BY <1>7, <1>8, <1>9, <1>10, ClaimsKept
<1>11. /\ faults' = faults /\ cuts' = cuts /\ removals' = removals /\ started' = started
       /\ overlap' = overlap /\ faults \in Nat /\ faults <= faults
  BY <1>4 DEF counts, Counted
<1> QED BY <1>1, <1>3, <1>4, <1>6, <1>8, <1>10, <1>11, ChunkStep
\* A step in a chunk that stores nothing and saves nothing.
LEMMA ClaimsRead ==
  ASSUME IInv, Counted, Orderly, NEW p \in Procs, Busy(p), ~run[p].saving,
         run[p].what \in Texts, run[p].at \in InClaims \cup {"chunk"},
         NEW s \in RunType, s.what = run[p].what, s.at \in InClaims \cup {"chunk"},
         s.ids = run[p].ids, s.data = run[p].data, ~s.saving, SetRun(p, s),
         ~overlap /\ s.at \in {"claims", "learned", "noted"} => s.todo \cap s.keys = {},
         \A n \in Nat : KeysNow(run[p], run[p].data, run[p].what, n)
                          \subseteq KeysNow(s, s.data, run[p].what, n),
         rows' = rows, faults' \in Nat, faults <= faults', cuts' = cuts, removals' = removals,
         started' = started, overlap' = overlap
  PROVE  Orderly'
<1> DEFINE r == run[p]
           t == r.what
<1>1. SameClaims(rows, rows', t) /\ SameTurns(rows, rows', t) /\ Standing(rows, rows')
      /\ \A x \in Sources : SameOf(rows, rows', x)
  BY NothingMore
<1>2. /\ rows \in Seq(RowType) /\ cuts + removals \in Nat
      /\ cuts + removals <= cuts + removals
  BY DEF IInv, RowsGood, Counted
<1>3. ASSUME ClaimsOnce(rows, cuts + removals, t, r, r.data)
      PROVE  ClaimsOnce(rows', cuts + removals, t, s, s.data)
  BY <1>1, <1>2, <1>3, ClaimsKept
<1> QED BY <1>1, <1>3, ChunkStep

LEMMA SkipChunkOnce ==
  ASSUME IInv, Counted, Orderly, NEW p \in Procs, SkipChunk(p) PROVE Orderly'
<1> DEFINE r == run[p]
           s == [r EXCEPT !.turn = r.turn + 1]
<1>1. /\ r \in RunType /\ r.at = "chunk" /\ ~r.saving /\ Busy(p) /\ r.what \in Texts
      /\ r.turn + 1 \in Nat
  <2>1. At(p, "chunk")
    BY DEF SkipChunk, InChunk
  <2> QED BY <2>1, AtText DEF InText
<1>2. SetRun(p, s) /\ rows' = rows /\ UNCHANGED counts
  BY DEF SkipChunk
<1>3. /\ s \in RunType /\ s.at = "chunk" /\ s.data = r.data /\ s.what = r.what /\ s.ids = r.ids
      /\ s.saving = r.saving
  BY <1>1 DEF RunType
<1> HIDE DEF s
<1>4. \A n \in Nat : KeysNow(r, r.data, r.what, n) \subseteq KeysNow(s, s.data, r.what, n)
  BY <1>1, <1>3 DEF KeysNow
<1>5. /\ faults' = faults /\ cuts' = cuts /\ removals' = removals /\ started' = started
      /\ overlap' = overlap /\ faults \in Nat /\ faults <= faults
  BY <1>2 DEF counts, Counted
<1> QED BY <1>1, <1>2, <1>3, <1>4, <1>5, ClaimsRead

LEMMA AskOnce ==
  ASSUME IInv, Counted, Orderly, NEW p \in Procs, NEW refused \in BOOLEAN, Ask(p, refused)
  PROVE  Orderly'
<1> DEFINE r == run[p]
           todo == Says[r.what][r.turn] \ Mine(p).keys
           s == [r EXCEPT !.at = "claims", !.keys = Mine(p).keys, !.out = Mine(p).out,
                          !.todo = todo, !.failed = refused, !.clean = r.clean /\ ~refused]
<1>1. /\ AtChunk(rows, r) /\ Mine(p).keys \subseteq Quotes /\ Mine(p).out \subseteq Nat
  BY MineGood DEF Ask
<1>2. /\ r \in RunType /\ r.at = "chunk" /\ ~r.saving /\ Busy(p) /\ r.what \in Texts
  <2>1. At(p, "chunk")
    BY DEF Ask, InChunk
  <2> QED BY <2>1, AtText DEF InText
<1>3. Says[r.what][r.turn] \subseteq Quotes
  BY <1>1, SaysAssumption DEF AtChunk
<1>4. /\ SetRun(p, s) /\ rows' = rows /\ cuts' = cuts /\ removals' = removals
      /\ started' = started /\ overlap' = overlap /\ faults' \in {faults, faults + 1}
  BY DEF Ask, Fault, NoFault, history
<1>5. todo \subseteq Quotes /\ todo \cap Mine(p).keys = {}
  BY <1>3
<1> HIDE DEF todo
<1>6. /\ s \in RunType /\ s.at = "claims" /\ s.keys = Mine(p).keys /\ s.todo = todo
      /\ s.data = r.data /\ s.what = r.what /\ s.turn = r.turn /\ s.ids = r.ids
      /\ s.saving = r.saving
  BY <1>1, <1>5 DEF AtChunk, RunType
<1> HIDE DEF s
<1>7. ASSUME NEW n \in Nat
      PROVE  KeysNow(r, r.data, r.what, n) \subseteq KeysNow(s, s.data, r.what, n)
  <2>1. CASE n = r.turn
    BY <1>1, <1>2, <1>6, <2>1 DEF KeysNow, Mine, AtChunk
  <2>2. CASE n # r.turn
    BY <1>2, <1>6, <2>2 DEF KeysNow
  <2> QED BY <2>1, <2>2
<1>8. faults' \in Nat /\ faults <= faults'
  BY <1>4 DEF Counted
<1> QED BY <1>2, <1>4, <1>5, <1>6, <1>7, <1>8, ClaimsRead

LEMMA ClaimMore ==
  ASSUME IInv, NEW p \in Procs, At(p, "claims"), NEW q \in Quotes,
         Adds(p, q) \/ \E m \in Ids : Folds(p, q, m)
  PROVE  More(rows, rows', Item(p, q)) /\ rows' \in Seq(RowType)
<1>1. rows \in Seq(RowType)
  BY DEF IInv, RowsGood
<1>2. Item(p, q) \in Statements /\ Cited(p) \in SUBSET Nat
  BY CitedTurn DEF Item, Statements
<1>3. CASE Adds(p, q)
  BY <1>1, <1>2, <1>3, AppendMore DEF Adds
<1>4. ASSUME NEW m \in Ids, Folds(p, q, m)
      PROVE  More(rows, rows', Item(p, q)) /\ rows' \in Seq(RowType)
  <2>1. m \in 1..Len(rows)
    BY DEF Ids
  <2>2. rows' = [rows EXCEPT ![m].says = @ \cup {Item(p, q)}, ![m].from = @ \cup Cited(p)]
    BY <1>4 DEF Folds
  <2> QED BY <1>1, <1>2, <2>1, <2>2, FoldMore
<1> QED BY <1>3, <1>4

LEMMA LearnFailsOnce ==
  ASSUME IInv, Counted, Orderly, NEW p \in Procs, LearnFails(p) PROVE Orderly'
<1> DEFINE r == run[p]
           b == cuts + removals
           s == [r EXCEPT !.todo = {}, !.failed = TRUE, !.clean = FALSE]
           old == Saved(r.data.over, r.what)
<1>0. At(p, "claims")
  BY DEF LearnFails
<1>1. /\ r \in RunType /\ Local(rows, r) /\ r.at = "claims" /\ ~r.saving /\ Busy(p)
      /\ r.what \in Texts /\ rows \in Seq(RowType) /\ b \in Nat /\ Within(rows, r.ids)
  BY <1>0, AtText DEF InText
<1>2. SetRun(p, s) /\ removals' = removals /\ UNCHANGED history
  BY DEF LearnFails
<1>3. PICK q \in r.todo :
        \/ NoFault /\ UNCHANGED <<rows, cuts>>
        \/ Cut /\ (rows' = rows \/ Adds(p, q) \/ \E m \in Ids : Folds(p, q, m))
  BY DEF LearnFails
<1>4. /\ s \in RunType /\ s.at = "claims" /\ s.data = r.data /\ s.what = r.what
      /\ s.turn = r.turn /\ s.ids = r.ids /\ s.keys = r.keys /\ s.todo = {}
      /\ s.saving = r.saving
  BY <1>1 DEF RunType
<1> HIDE DEF s
<1>5. \A n \in Nat : KeysNow(r, r.data, r.what, n) \subseteq KeysNow(s, s.data, r.what, n)
  BY <1>1, <1>4 DEF KeysNow
<1>6. CASE NoFault /\ UNCHANGED <<rows, cuts>>
  <2>1. /\ faults' \in Nat /\ faults <= faults' /\ rows' = rows /\ cuts' = cuts
        /\ started' = started /\ overlap' = overlap
    BY <1>2, <1>6 DEF NoFault, Counted, history
  <2> QED BY <1>1, <1>2, <1>4, <1>5, <2>1, ClaimsRead
<1>7. CASE Cut /\ (rows' = rows \/ Adds(p, q) \/ \E m \in Ids : Folds(p, q, m))
  <2>1. q \in Quotes
    BY <1>1 DEF RunType
  <2>2. More(rows, rows', <<r.what, r.turn, q>>) /\ rows' \in Seq(RowType)
    <3>1. CASE rows' = rows
      BY <1>1, <3>1, SelfMore
    <3>2. CASE Adds(p, q) \/ \E m \in Ids : Folds(p, q, m)
      BY <1>0, <2>1, <3>2, ClaimMore DEF Item
    <3> QED BY <1>7, <3>1, <3>2
  <2>3. ASSUME RecordsOnce(rows, b, r.what, r, r.data)
        PROVE  RecordsOnce(rows', b + 1, r.what, s, s.data)
    <3>1. TurnsOnce(rows, b, r.what, r.ids) /\ TurnsOnce(rows, b, r.what, old)
      BY <1>1, <2>3 DEF RecordsOnce, InText
    <3>2. Within(rows, old)
      BY <1>1, SavedWithin DEF Local, RunType
    <3>3. TurnsOnce(rows', b + 1, r.what, r.ids) /\ TurnsOnce(rows', b + 1, r.what, old)
      <4> HIDE DEF b, old, r
      <4> QED BY <1>1, <2>2, <3>1, <3>2, TurnsMore
    <3> QED BY <1>4, <3>3 DEF RecordsOnce
  <2> QED BY <1>1, <1>2, <1>4, <1>5, <1>7, <2>2, <2>3, CutStep
<1> QED BY <1>3, <1>6, <1>7

\* A claim is learned that was not among the chunk's keys.
LEMMA LearnedOnce ==
  ASSUME IInv, Counted, Orderly, NEW p \in Procs, At(p, "claims"), NEW q \in Quotes,
         q \in run[p].todo, NEW id \in Nat, Learned(p, q, id),
         More(rows, rows', Item(p, q)), rows' \in Seq(RowType), UNCHANGED counts
  PROVE  Orderly'
<1> DEFINE r == run[p]
           t == r.what
           b == cuts + removals
           s == [r EXCEPT !.at = "learned", !.todo = @ \ {q}, !.keys = @ \cup {q},
                          !.out = @ \cup {id}]
           item == <<t, r.turn, q>>
<1>1. /\ r \in RunType /\ r.at = "claims" /\ ~r.saving /\ Busy(p) /\ t \in Texts
      /\ r.turn \in Nat /\ rows \in Seq(RowType) /\ b \in Nat
  BY AtText DEF InText
<1>2. SetRun(p, s)
  BY DEF Learned
<1>3. /\ s \in RunType /\ s.at = "learned" /\ s.data = r.data /\ s.what = t
      /\ s.turn = r.turn /\ s.ids = r.ids /\ s.keys = r.keys \cup {q} /\ s.todo = r.todo \ {q}
      /\ s.saving = r.saving
  BY <1>1 DEF RunType
<1> HIDE DEF s
<1>4. More(rows, rows', item)
  BY DEF Item
<1>5. /\ Standing(rows, rows') /\ SameTurns(rows, rows', t)
      /\ \A x \in Sources : SameOf(rows, rows', x)
  BY <1>1, <1>4, MoreElsewhere, SourcesAssumption, NoneAssumption
<1>6. ~overlap => r.todo \cap r.keys = {}
  BY <1>1 DEF Orderly, FitsNow, Fits
<1>7. ASSUME ~overlap, ClaimsOnce(rows, b, t, r, r.data)
      PROVE  ClaimsOnce(rows', b, t, s, s.data)
  <2> SUFFICES ASSUME NEW n \in Nat, NEW c \in Quotes
               PROVE  Times(rows', <<t, n, c>>) <=
                        b + (IF c \in KeysNow(s, s.data, t, n) THEN 1 ELSE 0)
    BY DEF ClaimsOnce
  <2>1. Times(rows, <<t, n, c>>) <= b + (IF c \in KeysNow(r, r.data, t, n) THEN 1 ELSE 0)
    BY <1>7 DEF ClaimsOnce
  <2>2. Times(rows, <<t, n, c>>) \in Nat /\ Times(rows', <<t, n, c>>) \in Nat
    BY <1>1, TimesNat
  <2>3. c \in KeysNow(r, r.data, t, n) => c \in KeysNow(s, s.data, t, n)
    BY <1>1, <1>3 DEF KeysNow
  <2>4. CASE n = r.turn /\ c = q
    <3>1. c \notin KeysNow(r, r.data, t, n) /\ c \in KeysNow(s, s.data, t, n)
      BY <1>1, <1>3, <1>6, <1>7, <2>4 DEF KeysNow
    <3>2. Times(rows', <<t, n, c>>) <= Times(rows, <<t, n, c>>) + 1
      BY <1>4, <2>4 DEF More
    <3> HIDE DEF b, t
    <3> QED BY <1>1, <2>1, <2>2, <3>1, <3>2
  <2>5. CASE ~(n = r.turn /\ c = q)
    <3>1. <<t, n, c>> # item
      BY <2>5
    <3>2. Times(rows', <<t, n, c>>) = Times(rows, <<t, n, c>>)
      BY <1>4, <3>1 DEF More
    <3> HIDE DEF b, t
    <3> QED BY <1>1, <2>1, <2>2, <2>3, <3>2
  <2> QED BY <2>4, <2>5
<1>8. /\ faults' = faults /\ cuts' = cuts /\ removals' = removals /\ started' = started
      /\ overlap' = overlap /\ faults \in Nat /\ faults <= faults
  BY DEF counts, Counted
<1>9. ~overlap => s.todo \cap s.keys = {}
  BY <1>3, <1>6
<1> QED BY <1>1, <1>2, <1>3, <1>5, <1>7, <1>8, <1>9, ChunkStep

LEMMA LearnOnce ==
  ASSUME IInv, Counted, Orderly, NEW p \in Procs, NEW q \in Quotes,
         LearnNew(p, q) \/ \E m \in Ids : LearnFolds(p, q, m)
  PROVE  Orderly'
<1>1. CASE LearnNew(p, q)
  <2>1. /\ At(p, "claims") /\ q \in run[p].todo /\ UNCHANGED counts
        /\ Adds(p, q) /\ Learned(p, q, Len(rows) + 1)
    BY <1>1 DEF LearnNew
  <2>2. Len(rows) + 1 \in Nat
    BY DEF IInv, RowsGood
  <2> QED BY <2>1, <2>2, ClaimMore, LearnedOnce
<1>2. ASSUME NEW m \in Ids, LearnFolds(p, q, m) PROVE Orderly'
  <2>1. /\ At(p, "claims") /\ q \in run[p].todo /\ UNCHANGED counts
        /\ Folds(p, q, m) /\ Learned(p, q, m) /\ m \in Nat
    BY <1>2 DEF LearnFolds, Ids
  <2> QED BY <2>1, ClaimMore, LearnedOnce
<1> QED BY <1>1, <1>2
-----------------------------------------------------------------------------
\* The manifest of a capture that was saving is the one on disk.
LEMMA ManifestNotNone == None \notin ManifestType
BY NoneAssumption DEF ManifestType, Keys, OverType, ChunkType

LEMMA FillOnce ==
  ASSUME IInv, Counted, Orderly, NEW p \in Procs, Fill(p) PROVE Orderly'
<1> DEFINE r == run[p]
           s == [r EXCEPT !.saving = FALSE]
<1> SUFFICES ASSUME ~overlap
             PROVE  /\ \A q, k \in Procs : Busy(q)' /\ Busy(k)' => q = k
                    /\ \A q \in Procs : Busy(q)' =>
                         /\ run'[q].what \in started'
                         /\ IF run'[q].saving THEN file' = None ELSE Loaded' = run'[q].data
                         /\ FitsNow(run[q], run[q].data)'
                    /\ (\A q \in Procs : ~Busy(q)') => FitsNow(NoRun, Loaded)'
  BY DEF Orderly, Fill, counts
<1>1. /\ r \in RunType /\ r.data \in ManifestType /\ r.saving /\ Busy(p)
  BY DEF IInv, Fill, Busy, RunType
<1>2. file = None /\ r.what \in started /\ FitsNow(r, r.data)
  BY <1>1 DEF Orderly
<1>3. /\ ~s.saving /\ s.at = r.at /\ s.data = r.data /\ s.what = r.what /\ s.ids = r.ids
      /\ s.turn = r.turn /\ s.todo = r.todo /\ s.keys = r.keys
  BY <1>1 DEF RunType
<1>4. run' = [run EXCEPT ![p] = s]
  BY <1>1 DEF Fill, IInv, RunType
<1>5. file' = r.data /\ rows' = rows /\ UNCHANGED counts
  BY <1>2 DEF Fill
<1> HIDE DEF s
<1>6. run'[p] = s /\ \A q \in Procs \ {p} : run'[q] = run[q] /\ ~Busy(q)
  BY <1>1, <1>4 DEF Orderly, IInv
<1>7. \A q \in Procs : Busy(q)' => q = p
  BY <1>6 DEF Busy
<1>8. Loaded' = s.data
  BY <1>1, <1>3, <1>5, ManifestNotNone DEF Loaded
<1>9. FitsNow(s, s.data)
  BY <1>2, <1>3, FitsAlike DEF FitsNow
<1>10. Fits(started', rows', faults', cuts' + removals', s, s.data)
  BY <1>5, <1>9 DEF FitsNow, counts
<1>11. FitsNow(run[p], run[p].data)'
  BY <1>6, <1>10 DEF FitsNow
<1>12. ASSUME ~Busy(p)' PROVE FitsNow(NoRun, Loaded)'
  <2>1. s.at \in {"idle", "ended"} /\ NoRun.at = "idle"
    BY <1>6, <1>12 DEF Busy, NoRun
  <2>2. Fits(started', rows', faults', cuts' + removals', NoRun, s.data)
    BY <1>10, <2>1, FitsEnded
  <2> QED BY <1>8, <2>2 DEF FitsNow
<1>13. started' = started
  BY <1>5 DEF counts
<1> QED BY <1>2, <1>3, <1>6, <1>7, <1>8, <1>11, <1>12, <1>13

-----------------------------------------------------------------------------
\* A capture that is killed.
LEMMA TurnsKnown ==
  ASSUME NEW R, NEW b, NEW t \in Texts, NEW r \in RunType, NEW m \in ManifestType, Good(R, m),
         RecordsOnce(R, b, t, r, m)
  PROVE  \E ids \in Seq(Nat) : TurnsOnce(R, b, t, ids)
<1>1. Saved(m.over, t) \in Seq(Nat)
  BY SavedWithin DEF Within
<1>2. CASE r.what = t /\ r.at \in InText
  <2>1. TurnsOnce(R, b, t, r.ids) /\ r.ids \in Seq(Nat)
    BY <1>2 DEF RecordsOnce, RunType
  <2> QED BY <2>1
<1>3. CASE ~(r.what = t /\ r.at \in InText)
  <2>1. TurnsOnce(R, b, t, Saved(m.over, t))
    BY <1>3 DEF RecordsOnce, InText
  <2> QED BY <1>1, <2>1
<1> QED BY <1>2, <1>3

LEMMA TurnsSaved ==
  ASSUME NEW R, R \in Seq(RowType), NEW b \in Nat, NEW t \in Texts, NEW r \in RunType,
         NEW m \in ManifestType, Good(R, m), RecordsOnce(R, b, t, r, m),
         NEW d, d = m \/ d = Unwritten
  PROVE  TurnsOnce(R, b + 1, t, Saved(d.over, t))
<1>1. PICK ids \in Seq(Nat) : TurnsOnce(R, b, t, ids)
  BY TurnsKnown
<1>2. TurnsOnce(R, b + 1, t, <<>>)
  BY <1>1, TurnsAfterKill
<1>3. Saved(Unwritten.over, t) = <<>>
  BY DEF Unwritten, Saved
<1>4. CASE d = m
  <2>1. CASE r.what = t /\ r.at = "finish"
    BY <1>2, <1>4, <2>1 DEF RecordsOnce
  <2>2. CASE r.what = t /\ r.at = "stored"
    BY <1>4, <2>2 DEF RecordsOnce
  <2>3. CASE ~(r.what = t /\ r.at \in {"finish", "stored"})
    <3>1. TurnsOnce(R, b, t, Saved(m.over, t))
      BY <2>3 DEF RecordsOnce
    <3>2. SameTurns(R, R, t) /\ Standing(R, R)
      BY NothingMore
    <3>3. Within(R, Saved(m.over, t))
      BY SavedWithin
    <3>4. b + 1 \in Nat /\ b <= b + 1
      OBVIOUS
    <3>5. TurnsOnce(R, b + 1, t, Saved(m.over, t))
      BY <3>1, <3>2, <3>3, <3>4, TurnsCarried
    <3> QED BY <1>4, <3>5
  <2> QED BY <2>1, <2>2, <2>3
<1> QED BY <1>2, <1>3, <1>4

LEMMA KillFits ==
  ASSUME IInv, Counted, NEW r \in RunType, NEW m \in ManifestType, Good(rows, m),
         FitsNow(r, m), NEW d, d = m \/ d = Unwritten
  PROVE  Fits(started, rows, faults + 1, cuts + 1 + removals, NoRun, d)
<1> DEFINE b == cuts + removals
<1>1. /\ rows \in Seq(RowType) /\ faults \in Nat /\ b \in Nat /\ cuts + 1 + removals = b + 1
  BY DEF IInv, RowsGood, Counted
<1>2. NoRun.at = "idle" /\ NoRun.what = None
  BY DEF NoRun
<1>3. ASSUME NEW x \in Sources, Lone(started, x)
      PROVE  PartsOnce(rows, faults + 1, x, NoRun, d)
  <2> SUFFICES ASSUME NEW n \in Nat, NEW q \in Quotes \cup {None}
               PROVE  Times(rows, <<x, n, q>>)
                        <= faults + 1 + (IF Entered(x, NoRun, d, n) THEN 1 ELSE 0)
    BY DEF PartsOnce
  <2>1. Times(rows, <<x, n, q>>) <= faults + (IF Entered(x, r, m, n) THEN 1 ELSE 0)
    BY <1>3 DEF FitsNow, Fits, PartsOnce
  <2>2. Times(rows, <<x, n, q>>) \in Nat
    BY <1>1, TimesNat
  <2> QED BY <1>1, <2>1, <2>2
<1>4. ASSUME NEW t \in Texts, Lone(started, t)
      PROVE  RecordsOnce(rows, b + 1, t, NoRun, d)
  <2>1. RecordsOnce(rows, b, t, r, m)
    BY <1>4 DEF FitsNow, Fits
  <2>2. TurnsOnce(rows, b + 1, t, Saved(d.over, t))
    BY <1>1, <2>1, TurnsSaved
  <2>3. NoRun.what # t
    BY <1>2, NoneAssumption
  <2> QED BY <2>2, <2>3 DEF RecordsOnce
<1>5. ASSUME NEW t \in Texts, Lone(started, t)
      PROVE  ClaimsOnce(rows, b + 1, t, NoRun, d)
  <2> SUFFICES ASSUME NEW n \in Nat, NEW q \in Quotes
               PROVE  Times(rows, <<t, n, q>>)
                        <= b + 1 + (IF q \in KeysNow(NoRun, d, t, n) THEN 1 ELSE 0)
    BY DEF ClaimsOnce
  <2>1. Times(rows, <<t, n, q>>) <= b + (IF q \in KeysNow(r, m, t, n) THEN 1 ELSE 0)
    BY <1>5 DEF FitsNow, Fits, ClaimsOnce
  <2>2. Times(rows, <<t, n, q>>) \in Nat
    BY <1>1, TimesNat
  <2> HIDE DEF b
  <2> QED BY <1>1, <2>1, <2>2
<1> QED BY <1>1, <1>2, <1>3, <1>4, <1>5 DEF Fits

LEMMA CrashOnce ==
  ASSUME IInv, Counted, Orderly, NEW p \in Procs, Crash(p) PROVE Orderly'
<1> DEFINE r == run[p]
<1>1. /\ run' = [run EXCEPT ![p] = NoRun] /\ file' = file /\ rows' = rows /\ Busy(p)
      /\ faults' = faults + 1 /\ cuts' = cuts + 1 /\ removals' = removals
      /\ started' = started /\ overlap' = overlap
  BY DEF Crash, Cut, Fault, SetRun, history
<1>2. r \in RunType /\ r.data \in ManifestType /\ Good(rows, r.data)
  BY DEF IInv, Local, RunType
<1>3. ASSUME ~overlap
      PROVE  (\A q \in Procs : ~Busy(q)') /\ FitsNow(NoRun, Loaded)'
  <2>1. \A q \in Procs : ~Busy(q)'
    <3>1. ~NoRun.saving /\ NoRun.at = "idle"
      BY DEF NoRun
    <3>2. run'[p] = NoRun /\ \A q \in Procs \ {p} : run'[q] = run[q] /\ ~Busy(q)
      BY <1>1, <1>3 DEF IInv, Orderly
    <3> QED BY <3>1, <3>2 DEF Busy
  <2>2. FitsNow(r, r.data) /\ (Loaded = r.data \/ Loaded = Unwritten)
    BY <1>1, <1>3 DEF Orderly, Loaded
  <2>3. Fits(started, rows, faults + 1, cuts + 1 + removals, NoRun, Loaded)
    BY <1>2, <2>2, KillFits
  <2>4. Loaded' = Loaded
    BY <1>1 DEF Loaded
  <2> QED BY <1>1, <2>1, <2>3, <2>4 DEF FitsNow
<1> QED BY <1>1, <1>3 DEF Orderly
-----------------------------------------------------------------------------
\* A capture that begins.
LEMMA BeginFits ==
  ASSUME NEW S, NEW Z, S \subseteq Z, NEW R, NEW f, NEW b, NEW m,
         Fits(S, R, f, b, NoRun, m),
         NEW s, s.at \in {"idle", "seen", "parts", "begin", "ended", "reuse"},
         s.at \in InText => s.ids = Saved(m.over, s.what),
         s.at = "parts" => m.source[Identity[s.what]] # s.what,
         R \in Seq(RowType), f \in Nat
  PROVE  Fits(Z, R, f, b, s, m)
<1>1. \A x : Lone(Z, x) => Lone(S, x)
  BY DEF Lone
<1>2. NoRun.at = "idle" /\ NoRun.what = None
  BY DEF NoRun
<1>3. ASSUME NEW x \in Sources, Lone(Z, x) PROVE PartsOnce(R, f, x, s, m)
  <2>1. PartsOnce(R, f, x, NoRun, m)
    BY <1>1, <1>3 DEF Fits
  <2>2. \A n \in Nat : Entered(x, NoRun, m, n) => Entered(x, s, m, n)
    BY <1>2 DEF Entered
  <2>3. SameOf(R, R, x) /\ f <= f
    BY NothingMore
  <2> QED BY <2>1, <2>2, <2>3, PartsKept
<1>4. ASSUME NEW t \in Texts, Lone(Z, t) PROVE RecordsOnce(R, b, t, s, m)
  <2>1. RecordsOnce(R, b, t, NoRun, m) /\ NoRun.what # t
    BY <1>1, <1>2, <1>4, NoneAssumption DEF Fits
  <2>2. TurnsOnce(R, b, t, Saved(m.over, t))
    BY <2>1 DEF RecordsOnce
  <2> QED BY <2>2 DEF RecordsOnce
<1>5. ASSUME NEW t \in Texts, Lone(Z, t) PROVE ClaimsOnce(R, b, t, s, m)
  <2>1. ClaimsOnce(R, b, t, NoRun, m)
    BY <1>1, <1>5 DEF Fits
  <2>2. \A n : KeysNow(s, m, t, n) = KeysNow(NoRun, m, t, n)
    BY <1>2 DEF KeysNow
  <2> QED BY <2>1, <2>2 DEF ClaimsOnce
<1> QED BY <1>3, <1>4, <1>5 DEF Fits

LEMMA BeginOnce ==
  ASSUME IInv, Counted, Orderly, NEW p \in Procs, NEW s \in RunType, Begin(p, s),
         ~s.saving, s.data = Loaded,
         s.at \in {"seen", "parts", "begin", "ended", "reuse"},
         s.at \in InText => s.ids = Saved(Loaded.over, s.what),
         s.at = "parts" => Loaded.source[Identity[s.what]] # s.what
  PROVE  Orderly'
<1>1. /\ run' = [run EXCEPT ![p] = s] /\ file' = file /\ rows' = rows /\ faults' = faults
      /\ cuts' = cuts /\ removals' = removals /\ started' = started \cup {s.what} /\ ~Busy(p)
      /\ overlap' = (overlap \/ \E q \in Procs \ {p} : Busy(q))
  BY DEF Begin, SetRun
<1> SUFFICES ASSUME ~overlap'
             PROVE  /\ \A q, k \in Procs : Busy(q)' /\ Busy(k)' => q = k
                    /\ \A q \in Procs : Busy(q)' =>
                         /\ run'[q].what \in started'
                         /\ IF run'[q].saving THEN file' = None ELSE Loaded' = run'[q].data
                         /\ FitsNow(run[q], run[q].data)'
                    /\ (\A q \in Procs : ~Busy(q)') => FitsNow(NoRun, Loaded)'
  BY DEF Orderly
<1>2. ~overlap /\ \A q \in Procs : ~Busy(q)
  BY <1>1
<1>3. FitsNow(NoRun, Loaded)
  BY <1>2 DEF Orderly
<1>4. run'[p] = s /\ \A q \in Procs \ {p} : run'[q] = run[q] /\ ~Busy(q)
  BY <1>1, <1>2 DEF IInv
<1>5. \A q \in Procs : Busy(q)' => q = p
  BY <1>4 DEF Busy
<1>6. Loaded' = Loaded
  BY <1>1 DEF Loaded
<1>7. rows \in Seq(RowType) /\ faults \in Nat /\ started \subseteq started'
  BY <1>1 DEF IInv, RowsGood, Counted
<1>8. FitsNow(run[p], run[p].data)'
  <2>1. Fits(started', rows, faults, cuts + removals, s, Loaded)
    BY <1>3, <1>7, BeginFits DEF FitsNow
  <2> QED BY <1>1, <1>4, <2>1 DEF FitsNow
<1>9. FitsNow(NoRun, Loaded)'
  <2>1. NoRun.at = "idle"
    BY DEF NoRun
  <2>2. Fits(started', rows, faults, cuts + removals, NoRun, Loaded)
    BY <1>3, <1>7, <2>1, BeginFits DEF FitsNow, InText
  <2> QED BY <1>1, <1>6, <2>2 DEF FitsNow
<1> QED BY <1>1, <1>4, <1>5, <1>6, <1>8, <1>9

LEMMA StartOnce ==
  ASSUME IInv, Counted, Orderly, NEW p \in Procs, NEW x \in Sources, Start(p, x)
  PROVE  Orderly'
<1> DEFINE place == IF Seen(Loaded, x) THEN "seen" ELSE "parts"
           s == [NoRun EXCEPT !.at = place, !.what = x, !.data = Loaded]
<1>0. NoRun \in RunType
  BY NoRunGood
<1>1. s \in RunType
  BY <1>0, LoadedGood DEF RunType
<1>2. s.at = place /\ s.what = x /\ s.data = Loaded /\ s.saving = FALSE
  BY DEF NoRun
<1>3. Begin(p, s)
  BY DEF Start
<1> HIDE DEF s
<1>4. s.at \in {"seen", "parts"} /\ s.at \notin InText
  BY <1>2 DEF InText
<1>5. s.at = "parts" => Loaded.source[Identity[s.what]] # s.what
  BY <1>2 DEF Seen
<1> HIDE DEF place
<1> QED BY <1>1, <1>2, <1>3, <1>4, <1>5, BeginOnce

LEMMA StartTextOnce ==
  ASSUME IInv, Counted, Orderly, NEW p \in Procs, NEW t \in Texts, StartText(p, t)
  PROVE  Orderly'
<1> DEFINE over == Loaded.over
           known == over # None /\ over.text = t
           place == IF ~known THEN "begin" ELSE IF over.done THEN "ended" ELSE "reuse"
           s == [NoRun EXCEPT !.what = t, !.data = Loaded, !.ids = Saved(over, t),
                              !.at = place]
<1>0. NoRun \in RunType /\ Saved(over, t) \in Seq(Nat)
  BY NoRunGood, LoadedGood, SavedWithin DEF Within
<1>1. place \in {"begin", "ended", "reuse"}
  OBVIOUS
<1>2. Begin(p, s)
  BY DEF StartText
<1> HIDE DEF place
<1>3. s \in RunType
  BY <1>0, <1>1, LoadedGood DEF RunType
<1>4. /\ s.at = place /\ s.what = t /\ s.data = Loaded /\ s.saving = FALSE
      /\ s.ids = Saved(over, t)
  BY DEF NoRun
<1> HIDE DEF s
<1>5. /\ ~s.saving /\ s.data = Loaded /\ s.at \in {"seen", "parts", "begin", "ended", "reuse"}
      /\ s.ids = Saved(Loaded.over, s.what) /\ s.at # "parts"
  BY <1>1, <1>4
<1> QED BY <1>2, <1>3, <1>5, BeginOnce

-----------------------------------------------------------------------------
\* A memory is removed.
LEMMA RemoveFits ==
  ASSUME NEW S, NEW R, NEW Q, R \in Seq(RowType), NEW f \in Nat, NEW b \in Nat, NEW r, NEW m,
         Fits(S, R, f, b, r, m), \A thing : Times(Q, thing) = Times(R, thing)
  PROVE  Fits(S, Q, f, b + 1, r, m)
<1>1. ASSUME NEW t, NEW ids, NEW c \in Nat, TurnsOnce(R, c, t, ids)
      PROVE  TurnsOnce(Q, c + 1, t, ids)
  <2> SUFFICES ASSUME NEW n \in Nat
               PROVE  Times(Q, <<t, n, None>>) + Gone(Q, ids, n)
                        <= c + 1 + (IF n <= Len(ids) THEN 1 ELSE 0)
    BY DEF TurnsOnce
  <2>1. Times(R, <<t, n, None>>) + Gone(R, ids, n) <= c + (IF n <= Len(ids) THEN 1 ELSE 0)
    BY <1>1 DEF TurnsOnce
  <2>2. Gone(R, ids, n) \in {0, 1} /\ Gone(Q, ids, n) \in {0, 1}
    BY GoneNat
  <2>3. Times(R, <<t, n, None>>) \in Nat /\ Times(Q, <<t, n, None>>) = Times(R, <<t, n, None>>)
    BY TimesNat
  <2> QED BY <2>1, <2>2, <2>3
<1>2. ASSUME NEW x \in Sources, PartsOnce(R, f, x, r, m) PROVE PartsOnce(Q, f, x, r, m)
  BY <1>2 DEF PartsOnce
<1>3. ASSUME NEW t \in Texts, RecordsOnce(R, b, t, r, m)
      PROVE  RecordsOnce(Q, b + 1, t, r, m)
  <2>1. r.what = t /\ r.at \in InText => TurnsOnce(Q, b + 1, t, r.ids)
    BY <1>1, <1>3 DEF RecordsOnce
  <2>2. CASE r.what = t /\ r.at = "stored"
    <3>1. TurnsOnce(R, b + 1, t, Saved(m.over, t))
      BY <1>3, <2>2 DEF RecordsOnce
    <3>2. TurnsOnce(Q, b + 1 + 1, t, Saved(m.over, t))
      BY <1>1, <3>1
    <3> QED BY <1>3, <2>1, <2>2, <3>2 DEF RecordsOnce
  <2>3. CASE r.what = t /\ r.at = "finish"
    BY <1>3, <2>1, <2>3 DEF RecordsOnce
  <2>4. CASE ~(r.what = t /\ r.at \in {"stored", "finish"})
    <3>1. TurnsOnce(R, b, t, Saved(m.over, t))
      BY <1>3, <2>4 DEF RecordsOnce
    <3>2. TurnsOnce(Q, b + 1, t, Saved(m.over, t))
      BY <1>1, <3>1
    <3> QED BY <1>3, <2>1, <2>4, <3>2 DEF RecordsOnce
  <2> QED BY <2>2, <2>3, <2>4
<1>4. ASSUME NEW t \in Texts, ClaimsOnce(R, b, t, r, m) PROVE ClaimsOnce(Q, b + 1, t, r, m)
  <2>1. SameClaims(R, Q, t) /\ b + 1 \in Nat /\ b <= b + 1
    BY DEF SameClaims
  <2> QED BY <1>4, <2>1, ClaimsKept
<1> QED BY <1>2, <1>3, <1>4 DEF Fits

LEMMA RemoveOnce ==
  ASSUME IInv, Counted, Orderly, NEW k, NEW how, Remove(k, how) PROVE Orderly'
<1>1. /\ rows \in Seq(RowType) /\ k \in 1..Len(rows) /\ how \in {"trashed", "purged"}
      /\ rows' = [rows EXCEPT ![k].gone = how]
  BY DEF IInv, RowsGood, Remove, Ids
<1> DEFINE x == [rows[k] EXCEPT !.gone = how]
<1>2. rows[k] \in RowType
  BY <1>1
<1>3. x \in RowType /\ x.says = rows[k].says
  BY <1>1, <1>2 DEF RowType
<1>4. rows' = [rows EXCEPT ![k] = x]
  BY <1>1
<1> HIDE DEF x
<1>5. /\ Len(rows') = Len(rows) /\ \A i \in 1..Len(rows) : rows'[i].says = rows[i].says
  BY <1>1, <1>3, <1>4
<1>6. \A thing : Times(rows', thing) = Times(rows, thing)
  BY <1>5, TimesSame
<1>7. /\ file' = file /\ run' = run /\ faults' = faults /\ cuts' = cuts
      /\ removals' = removals + 1 /\ started' = started /\ overlap' = overlap
  BY DEF Remove, history
<1>8. /\ faults \in Nat /\ cuts + removals \in Nat
      /\ cuts + (removals + 1) = cuts + removals + 1
  BY DEF Counted
<1>9. ASSUME NEW r, NEW m, FitsNow(r, m)
      PROVE  Fits(started', rows', faults', cuts' + removals', r, m)
  <2>1. Fits(started, rows', faults, cuts + removals + 1, r, m)
    BY <1>1, <1>6, <1>8, <1>9, RemoveFits DEF FitsNow
  <2> QED BY <1>7, <1>8, <2>1
<1>10. Loaded' = Loaded
  BY <1>7 DEF Loaded
<1>11. \A p \in Procs : FitsNow(run[p], run[p].data) => FitsNow(run[p], run[p].data)'
  BY <1>7, <1>9 DEF FitsNow
<1>12. FitsNow(NoRun, Loaded) => FitsNow(NoRun, Loaded)'
  BY <1>9, <1>10 DEF FitsNow
<1>13. \A p \in Procs : Busy(p)' <=> Busy(p)
  BY <1>7 DEF Busy
<1> QED BY <1>7, <1>10, <1>11, <1>12, <1>13 DEF Orderly

-----------------------------------------------------------------------------
LEMMA NextCounted == ASSUME Counted, [Next]_vars PROVE Counted'
<1>1. CASE UNCHANGED vars
  BY <1>1 DEF vars, Counted
<1>2. ASSUME NEW p \in Procs, ConversationStep(p) PROVE Counted'
  <2>1. UNCHANGED counts => Counted'
    BY DEF counts, Counted
  <2>2. /\ Cut /\ removals' = removals => Counted'
        /\ Fault /\ UNCHANGED <<cuts, removals>> => Counted'
        /\ UNCHANGED <<faults, cuts, removals>> => Counted'
    BY DEF Cut, Fault, Counted
  <2>3. ASSUME RecordText(p) \/ StoreTurn(p) \/ NoteTurn(p) \/ Sourced(p)
        PROVE  Counted'
    BY <2>1, <2>3 DEF RecordText, StoreTurn, NoteTurn, Sourced
  <2>4. ASSUME \/ SkipChunk(p) \/ NoteClaim(p) \/ NoteKeys(p) \/ CloseChunk(p)
               \/ CloseKeys(p) \/ Finish(p) \/ Complete(p)
        PROVE  Counted'
    BY <2>1, <2>4 DEF SkipChunk, NoteClaim, NoteKeys, CloseChunk, CloseKeys, Finish, Complete
  <2>5. ASSUME NEW q, LearnNew(p, q) \/ \E m \in Ids : LearnFolds(p, q, m) PROVE Counted'
    BY <2>1, <2>5, Zenon DEF LearnNew, LearnFolds
  <2>6. ASSUME AskFails(p) \/ \E refused \in BOOLEAN : Ask(p, refused) PROVE Counted'
    BY <2>2, <2>6 DEF AskFails, Ask, NoFault, history
  <2>7. ASSUME Reuse(p) PROVE Counted'
    <3>1. removals' = removals /\ (Cut \/ UNCHANGED <<faults, cuts>>)
      BY <2>7 DEF Reuse
    <3> QED BY <2>2, <3>1
  <2>8. ASSUME LearnFails(p) PROVE Counted'
    <3>1. removals' = removals /\ (Cut \/ UNCHANGED <<faults, cuts>>)
      BY <2>8 DEF LearnFails, NoFault
    <3> QED BY <2>2, <3>1
  <2> QED BY <1>2, <2>3, <2>4, <2>5, <2>6, <2>7, <2>8 DEF ConversationStep
<1>3. ASSUME NEW p \in Procs, \/ Fill(p) \/ Unchanged(p) \/ StorePart(p) \/ RecordSource(p)
                              \/ StoreFails(p) \/ Crash(p)
      PROVE  Counted'
  BY <1>3 DEF Counted, counts, history, Cut, Fault, Fill, Unchanged, StorePart, RecordSource,
     StoreFails, Crash
<1>4. ASSUME NEW p \in Procs, NEW x \in Sources \cup Texts, Start(p, x) \/ StartText(p, x)
      PROVE  Counted'
  BY <1>4 DEF Counted, Start, StartText, Begin
<1>5. ASSUME NEW m, NEW how, Remove(m, how) PROVE Counted'
  BY <1>5 DEF Counted, Remove, history
<1> QED BY <1>1, <1>2, <1>3, <1>4, <1>5 DEF Next

LEMMA NextOrderly == ASSUME IInv, Counted, Orderly, [Next]_vars PROVE Orderly'
<1>1. CASE UNCHANGED vars
  BY <1>1 DEF vars, Orderly, Busy, Loaded, FitsNow
<1>2. ASSUME NEW p \in Procs, ConversationStep(p) PROVE Orderly'
  BY <1>2, RecordTextOnce, ReuseOnce, StoreTurnOnce, NoteTurnOnce, SourcedOnce, SkipChunkOnce,
     AskFailsOnce, AskOnce, LearnOnce, LearnFailsOnce, ClaimsSavedOnce, CloseKeysOnce,
     FinishOnce, CompleteOnce, Zenon DEF ConversationStep
<1>3. CASE Next
  BY <1>2, <1>3, StartOnce, StartTextOnce, FillOnce, UnchangedOnce, StorePartOnce,
     RecordSourceOnce, StoreFailsOnce, CrashOnce, RemoveOnce, Zenon DEF Next
<1> QED BY <1>1, <1>3

LEMMA InitOrderly == Init => Counted /\ Orderly
<1> SUFFICES ASSUME Init PROVE Counted /\ Orderly
  OBVIOUS
<1>1. Counted /\ rows = <<>> /\ Loaded = Unwritten /\ \A p \in Procs : ~Busy(p)
  BY ManifestNotNone DEF Init, Counted, Loaded, Busy, NoRun
<1>2. \A thing : Times(rows, thing) = 0
  <2>1. {m \in 1..Len(rows) : TRUE} = {}
    BY <1>1
  <2>2. \A thing : {m \in 1..Len(rows) : thing \in rows[m].says} = {}
    BY <1>1
  <2> QED BY <2>2, FS_EmptySet DEF Times
<1>3. /\ NoRun.at = "idle" /\ NoRun.what = None
      /\ \A t : Saved(Unwritten.over, t) = <<>>
  BY DEF NoRun, Saved, Unwritten
<1>4. faults = 0 /\ cuts + removals = 0
  BY DEF Init
<1>5. \A t \in Texts : RecordsOnce(rows, 0, t, NoRun, Unwritten)
  <2>1. \A t, n : Gone(rows, <<>>, n) = 0
    BY DEF Gone
  <2>2. \A t : TurnsOnce(rows, 0, t, <<>>)
    BY <1>2, <2>1 DEF TurnsOnce
  <2> QED BY <1>3, <2>2, NoneAssumption DEF RecordsOnce
<1>6. FitsNow(NoRun, Unwritten)
  BY <1>2, <1>3, <1>4, <1>5 DEF FitsNow, Fits, PartsOnce, ClaimsOnce
<1> QED BY <1>1, <1>6 DEF Orderly

LEMMA CountIsTimes ==
  ASSUME NEW thing PROVE Count(thing) = Times(rows, thing)
BY DEF Count, Times, Ids
\* Without overlapping captures, what was captured of a conversation under a key that nothing
\* else uses is stored once, and at most once more for each kill, each error of the store,
\* before or after a commit, and each removed memory; a report's or commit's memories for each
\* fault (completed_item_keys, _prepare_source_episodes, CaptureManifest.check).
THEOREM StoredAgainForFaultsOnly == Spec => []StoredOnce
<1>1. IInv /\ Counted /\ Orderly => StoredOnce
  <2> SUFFICES ASSUME IInv, Counted, Orderly, ~overlap, NEW x \in started, Alone(x),
                      NEW thing \in Things(x)
               PROVE  Count(thing) <= 1 + (IF x \in Texts THEN cuts + removals ELSE faults)
    BY DEF StoredOnce
  <2>1. PICK r, m : FitsNow(r, m) /\ (r.at \in Places)
    <3>1. CASE \E p \in Procs : Busy(p)
      BY <3>1 DEF Orderly, IInv, RunType
    <3>2. CASE \A p \in Procs : ~Busy(p)
      BY <3>2, NoRunGood DEF Orderly, RunType
    <3> QED BY <3>1, <3>2
  <2>2. Lone(started, x)
    BY DEF Alone, Lone
  <2>3. rows \in Seq(RowType) /\ faults \in Nat /\ cuts + removals \in Nat
    BY DEF IInv, RowsGood, Counted
  <2>4. PICK n \in Nat, q \in Quotes \cup {None} :
          thing = <<x, n, q>> /\ x \in Sources \cup Texts
    <3>1. PICK k \in 1..Len(rows) : thing \in rows[k].says
      BY DEF Things, Ids
    <3>2. thing \in Statements
      <4>1. rows[k] \in RowType
        BY <2>3
      <4>2. rows[k].says \subseteq Statements
        BY <4>1 DEF RowType
      <4> QED BY <3>1, <4>2
    <3>3. thing[1] = x
      BY DEF Things
    <3> QED BY <3>2, <3>3 DEF Statements
  <2>5. Count(thing) = Times(rows, <<x, n, q>>) /\ Times(rows, <<x, n, q>>) \in Nat
    BY <2>3, <2>4, CountIsTimes, TimesNat
  <2>6. CASE x \notin Texts
    <3>1. Times(rows, <<x, n, q>>) <= faults + (IF Entered(x, r, m, n) THEN 1 ELSE 0)
      BY <2>1, <2>2, <2>4, <2>6 DEF FitsNow, Fits, PartsOnce
    <3> QED BY <2>3, <2>5, <2>6, <3>1
  <2>7. CASE x \in Texts /\ q # None
    <3>1. Times(rows, <<x, n, q>>) <=
            cuts + removals + (IF q \in KeysNow(r, m, x, n) THEN 1 ELSE 0)
      BY <2>1, <2>2, <2>4, <2>7 DEF FitsNow, Fits, ClaimsOnce
    <3> QED BY <2>3, <2>5, <2>7, <3>1
  <2>8. CASE x \in Texts /\ q = None
    <3>1. \E ids : TurnsOnce(rows, cuts + removals, x, ids)
      <4>1. RecordsOnce(rows, cuts + removals, x, r, m)
        BY <2>1, <2>2, <2>8 DEF FitsNow, Fits
      <4>2. CASE r.what = x /\ r.at \in InText
        BY <4>1, <4>2 DEF RecordsOnce
      <4>3. CASE ~(r.what = x /\ r.at \in InText)
        BY <4>1, <4>3 DEF RecordsOnce, InText
      <4> QED BY <4>2, <4>3
    <3>2. PICK ids : TurnsOnce(rows, cuts + removals, x, ids)
      BY <3>1
    <3>3. Times(rows, <<x, n, None>>) + Gone(rows, ids, n) <=
            cuts + removals + (IF n <= Len(ids) THEN 1 ELSE 0)
      BY <3>2 DEF TurnsOnce
    <3>4. Gone(rows, ids, n) \in {0, 1}
      BY GoneNat
    <3> QED BY <2>3, <2>5, <2>8, <3>3, <3>4
  <2> QED BY <2>6, <2>7, <2>8
<1>2. IInv /\ Counted /\ Orderly /\ [Next]_vars => (Counted /\ Orderly)'
  BY NextCounted, NextOrderly
<1> QED BY <1>1, <1>2, InitOrderly, Invariance, PTL DEF Spec
=============================================================================
