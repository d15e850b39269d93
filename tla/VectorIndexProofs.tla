--------------------------- MODULE VectorIndexProofs ---------------------------
(***************************************************************************)
(* Proofs about the searches of VectorIndex: whatever the index holds, for *)
(* any set of ids and threads and any limit.                               *)
(***************************************************************************)
EXTENDS VectorIndexProps, FiniteSetTheorems, TLAPS

USE DEF Present, Texts, Points

(***************************************************************************)
(* Partial functions.                                                      *)
(***************************************************************************)
LEMMA PartialIs ==
  ASSUME NEW T, NEW f
  PROVE  f \in Partial(T) <=> DOMAIN f \subseteq Ids /\ f \in [DOMAIN f -> T]
BY DEF Partial

LEMMA EmptyOK == ASSUME NEW T PROVE <<>> \in Partial(T)
BY DEF Partial

LEMMA RestrictOK ==
  ASSUME NEW T, NEW f, DOMAIN f \subseteq Ids, NEW s \in SUBSET DOMAIN f,
         \A m \in s : f[m] \in T
  PROVE  Restrict(f, s) \in Partial(T) /\ DOMAIN Restrict(f, s) = s
BY DEF Partial, Restrict

LEMMA EntryOK ==
  ASSUME NEW m \in Ids, NEW s \in Present, NEW T, NEW t \in T
  PROVE  /\ Entry(m, s, t) \in Partial([status : Present, text : T])
         /\ DOMAIN Entry(m, s, t) = {m}
<1> DEFINE r == [status |-> s, text |-> t]
<1>1. r \in [status : Present, text : T]
  OBVIOUS
<1> HIDE DEF r
<1>2. Entry(m, s, t) = [x \in {m} |-> r]
  BY DEF Entry, r
<1>3. [x \in {m} |-> r] \in [{m} -> [status : Present, text : T]] /\ {m} \in SUBSET Ids
  BY <1>1
<1> QED
  BY <1>2, <1>3 DEF Partial

LEMMA EntriesAreUpdates == Entries \subseteq Updates /\ Partial(Entries) \subseteq Partial(Updates)
<1>1. Entries \subseteq Updates
  BY DEF Entries, Updates
<1>2. ASSUME NEW f \in Partial(Entries) PROVE f \in Partial(Updates)
  BY <1>1, PartialIs
<1> QED
  BY <1>1, <1>2

LEMMA WrittenOK ==
  ASSUME vec \in Partial(Entries), NEW f \in Partial(Entries)
  PROVE  Written(f) \in Partial(Entries)
<1>1. /\ DOMAIN f \subseteq Ids /\ f \in [DOMAIN f -> Entries]
      /\ DOMAIN vec \subseteq Ids /\ vec \in [DOMAIN vec -> Entries]
  BY PartialIs
<1>2. Written(f) \in [DOMAIN f \cup DOMAIN vec -> Entries]
  BY <1>1 DEF Written
<1> QED
  BY <1>1, <1>2 DEF Partial

LEMMA WithoutOK ==
  ASSUME vec \in Partial(Entries), NEW s
  PROVE  Without(s) \in Partial(Entries)
<1>1. DOMAIN vec \subseteq Ids /\ vec \in [DOMAIN vec -> Entries]
  BY PartialIs
<1> QED
  BY <1>1, RestrictOK DEF Without

(***************************************************************************)
(* Operations as the others change rows.                                   *)
(***************************************************************************)
LEMMA IdleOK == Idle \in Jobs /\ Idle.at = "idle" /\ \A r : Fits(Idle, r)
<1>1. Idle \in Jobs /\ Idle.at = "idle"
  BY EmptyOK DEF Idle, Jobs
<1>2. ASSUME NEW r PROVE Fits(Idle, r)
  BY EmptyOK, FS_EmptySet, IndexAssumption DEF Idle, Fits
<1> QED
  BY <1>1, <1>2

LEMMA NoticedOK ==
  ASSUME NEW j \in Jobs, NEW r, NEW s, Fits(j, row)
  PROVE  /\ Noticed(j, r, s) \in Jobs
         /\ Noticed(j, r, s).at = j.at
         /\ Fits(Noticed(j, r, s), r)
<1> DEFINE n == Noticed(j, r, s)
<1>1. n \in Jobs
  BY DEF Noticed, Jobs
<1>2. /\ n.at = j.at /\ n.put = j.put /\ n.id = j.id /\ n.found = j.found /\ n.left = j.left
      /\ n.steady = j.steady \cap Matching(r) /\ n.never = j.never \ Live(r)
  BY DEF Noticed, Jobs
<1>3. Fits(n, r)
  BY <1>2 DEF Fits
<1> QED
  BY <1>1, <1>2, <1>3

LEMMA TurnsOK ==
  ASSUME TypeOK, AllFit, NEW w \in Workers, NEW j \in Jobs, NEW r, NEW s,
         Fits(j, r), Turns(w, j, r, s)
  PROVE  /\ job' \in [Workers -> Jobs]
         /\ \A v \in Workers : Fits(job'[v], r)
         /\ job'[w] = j
         /\ \A v \in Workers \ {w} : job'[v].at = job[v].at
<1>1. \A v \in Workers : job[v] \in Jobs /\ Fits(job[v], row)
  BY DEF TypeOK, AllFit
<1> QED
  BY <1>1, NoticedOK DEF Turns

\* Without a change of rows.
LEMMA StaysOK ==
  ASSUME TypeOK, AllFit, NEW w \in Workers, NEW j \in Jobs, Fits(j, row),
         job' = [job EXCEPT ![w] = j]
  PROVE  /\ job' \in [Workers -> Jobs]
         /\ \A v \in Workers : Fits(job'[v], row)
         /\ job'[w] = j
         /\ \A v \in Workers \ {w} : job'[v].at = job[v].at
BY DEF TypeOK, AllFit

(***************************************************************************)
(* The text search makes up for what the index lacks: if it is not full,   *)
(* its window was everything that matches, and it took all of it.          *)
(***************************************************************************)
LEMMA WindowSuffices ==
  ASSUME NEW found \in SUBSET Ids, Cardinality(found) <= Limit,
         NEW all \in SUBSET Ids,
         NEW window \in Best((Limit - Cardinality(found)) + Cardinality(found), all),
         NEW taken \in Best(Limit - Cardinality(found), window \ found)
  PROVE  /\ window \subseteq all /\ taken \subseteq window \ found
         /\ Cardinality(found \cup taken) <= Limit
         /\ Cardinality(found \cup taken) < Limit => all \subseteq found \cup taken
<1> DEFINE wanted == Limit - Cardinality(found)
<1>1. IsFiniteSet(found) /\ IsFiniteSet(all) /\ Limit \in Nat
  BY IndexAssumption, FS_Subset
<1>2. Cardinality(found) \in Nat /\ Cardinality(all) \in Nat
  BY <1>1, FS_CardinalityType
<1>3. window \in SUBSET all /\ Cardinality(window) = Least(Limit, Cardinality(all))
  <2>1. wanted + Cardinality(found) = Limit
    BY <1>1, <1>2
  <2> QED
    BY <2>1 DEF Best, kSubset
<1>4. taken \in SUBSET (window \ found)
      /\ Cardinality(taken) = Least(wanted, Cardinality(window \ found))
  BY DEF Best, kSubset

<1>5. IsFiniteSet(window) /\ IsFiniteSet(window \ found) /\ IsFiniteSet(taken)
  BY <1>1, <1>3, <1>4, FS_Subset
<1>6. Cardinality(window \ found) \in Nat /\ Cardinality(taken) \in Nat
      /\ Cardinality(window) \in Nat /\ Cardinality(window \cap found) \in Nat
  <2>1. IsFiniteSet(window \cap found)
    BY <1>1, FS_Subset
  <2> QED
    BY <2>1, <1>5, FS_CardinalityType
<1>7. Cardinality(found \cup taken) = Cardinality(found) + Cardinality(taken)
  <2>1. Cardinality(found \cap taken) = 0
    <3>1. found \cap taken = {}
      BY <1>4
    <3> QED
      BY <3>1, FS_EmptySet
  <2>2. Cardinality(found \cup taken)
          = Cardinality(found) + Cardinality(taken) - Cardinality(found \cap taken)
    BY <1>1, <1>5, FS_Union
  <2> QED
    BY <2>1, <2>2, <1>2, <1>6
<1>8. Cardinality(taken) <= wanted
  BY <1>1, <1>2, <1>4, <1>6 DEF Least
<1>9. ASSUME Cardinality(found \cup taken) < Limit
      PROVE  all \subseteq found \cup taken
  <2>1. Cardinality(taken) < wanted
    BY <1>1, <1>2, <1>6, <1>7, <1>9
  <2>2. Cardinality(taken) = Cardinality(window \ found)
    BY <2>1, <1>1, <1>2, <1>4, <1>6 DEF Least
  <2>3. taken = window \ found
    BY <2>2, <1>4, <1>5, FS_Subset
  <2>4. Cardinality(window) < Limit
    <3>1. Cardinality(window \ found) = Cardinality(window) - Cardinality(window \cap found)
      BY <1>5, FS_Difference
    <3>2. Cardinality(window \cap found) <= Cardinality(found)
      BY <1>1, FS_Subset
    <3>3. Cardinality(window) - Cardinality(window \cap found) < Limit - Cardinality(found)
      BY <2>1, <2>2, <3>1
    <3> QED
      BY <3>2, <3>3, <1>1, <1>2, <1>6
  <2>5. Cardinality(window) = Cardinality(all)
    BY <2>4, <1>1, <1>2, <1>3 DEF Least
  <2>6. window = all
    BY <2>5, <1>1, <1>3, FS_Subset
  <2> QED
    BY <2>3, <2>6
<1> QED
  BY <1>1, <1>2, <1>3, <1>4, <1>6, <1>7, <1>8, <1>9

(***************************************************************************)
(* What a step has to show: the operation j that w turns to is well formed *)
(* and fits the rows, and w holds the write lock exactly if j needs it.    *)
(***************************************************************************)
Moves(w, j) ==
  \/ \E s \in SUBSET Ids : Turns(w, j, row', s)
  \/ job' = [job EXCEPT ![w] = j] /\ row' = row

LEMMA MovesOK ==
  ASSUME TypeOK, AllFit, NEW w \in Workers, NEW j \in Jobs, Fits(j, row'), Moves(w, j),
         row' \in [Ids -> Rows], vec' \in Partial(Entries), stale' \in SUBSET Ids,
         \/ writer' = writer /\ (j.at \in {"fill", "commit"} <=> job[w].at \in {"fill", "commit"})
         \/ writer' = w /\ writer = None /\ j.at \in {"fill", "commit"}
         \/ writer' = None /\ writer \in {w, None} /\ j.at \notin {"fill", "commit"}
  PROVE  TypeOK' /\ AllFit'
<1>1. /\ job' \in [Workers -> Jobs]
      /\ \A v \in Workers : Fits(job'[v], row')
      /\ job'[w] = j
      /\ \A v \in Workers \ {w} : job'[v].at = job[v].at
  <2>1. CASE \E s \in SUBSET Ids : Turns(w, j, row', s)
    BY <2>1, TurnsOK
  <2>2. CASE job' = [job EXCEPT ![w] = j] /\ row' = row
    BY <2>2, StaysOK
  <2> QED
    BY <2>1, <2>2 DEF Moves
<1>2. writer' \in Workers \cup {None}
  BY DEF TypeOK
<1>3. ASSUME NEW v \in Workers
      PROVE  job'[v].at \in {"fill", "commit"} <=> writer' = v
  <2>1. /\ job[v].at \in {"fill", "commit"} <=> writer = v
        /\ job[w].at \in {"fill", "commit"} <=> writer = w
        /\ v # None /\ w # None
    BY IndexAssumption DEF TypeOK
  <2>2. CASE v = w
    BY <2>1, <2>2, <1>1
  <2>3. CASE v # w
    BY <2>1, <2>3, <1>1
  <2> QED
    BY <2>2, <2>3
<1> QED
  BY <1>1, <1>2, <1>3 DEF TypeOK, AllFit

\* The beginning of an operation, which has neither found nor missed anything.
LEMMA BeginsOK ==
  ASSUME TypeOK, NEW w \in Workers, NEW j \in Jobs, NEW s \in SUBSET Ids,
         Fits(j, row'), Begins(w, j, row', s)
  PROVE  \E n \in Jobs : /\ Fits(n, row') /\ n.at = j.at /\ Moves(w, n)
                         /\ stale' \in SUBSET Ids
<1> DEFINE n == [j EXCEPT !.sole = s \ Others(w)]
<1>1. n \in Jobs
  BY DEF Jobs
<1>2. /\ n.at = j.at /\ n.put = j.put /\ n.id = j.id /\ n.found = j.found /\ n.left = j.left
      /\ n.steady = j.steady /\ n.never = j.never
  BY DEF Jobs
<1>3. Fits(n, row')
  BY <1>2 DEF Fits
<1>4. Turns(w, n, row', s) /\ stale' = stale \cup (s \cap Others(w))
  BY DEF Begins
<1>5. Moves(w, n)
  BY <1>4 DEF Moves
<1>6. stale' \in SUBSET Ids
  BY <1>4 DEF TypeOK
<1> HIDE DEF n
<1> QED
  BY <1>1, <1>2, <1>3, <1>5, <1>6

\* The end of an operation leaves Idle.
LEMMA EndsOK ==
  ASSUME TypeOK, NEW w \in Workers, NEW s,
         \/ Ends(w, row', s)
         \/ GivesUp(w, s) /\ s \in SUBSET Ids /\ row' = row
  PROVE  Moves(w, Idle) /\ stale' \in SUBSET Ids
<1>1. CASE Ends(w, row', s)
  BY <1>1 DEF Ends, Moves, TypeOK
<1>2. CASE GivesUp(w, s) /\ s \in SUBSET Ids /\ row' = row
  BY <1>2 DEF GivesUp, Moves, TypeOK
<1> QED
  BY <1>1, <1>2

(***************************************************************************)
(* Operations as they begin.                                               *)
(***************************************************************************)
LEMMA WritingOK ==
  ASSUME NEW a \in {"index", "upsert"}, NEW p \in Partial(Entries), NEW r
  PROVE  LET j == [Idle EXCEPT !.at = a, !.put = p]
         IN j \in Jobs /\ j.at = a /\ Fits(j, r)
<1> DEFINE j == [Idle EXCEPT !.at = a, !.put = p]
<1>1. j \in Jobs
  BY EntriesAreUpdates, EmptyOK DEF Idle, Jobs
<1>2. /\ j.at = a /\ j.put = p /\ j.found = {} /\ j.left = {} /\ j.steady = {} /\ j.never = {}
  BY DEF Idle
<1>3. Fits(j, r)
  BY <1>2, FS_EmptySet, IndexAssumption DEF Fits
<1> QED
  BY <1>1, <1>2, <1>3

LEMMA EditingOK ==
  ASSUME NEW m \in Ids, NEW t \in Texts \cup {None}, NEW r
  PROVE  LET j == [Idle EXCEPT !.at = "sync", !.id = m, !.text = t]
         IN j \in Jobs /\ j.at = "sync" /\ Fits(j, r)
<1> DEFINE j == [Idle EXCEPT !.at = "sync", !.id = m, !.text = t]
<1>1. j \in Jobs
  BY EmptyOK DEF Idle, Jobs
<1>2. /\ j.at = "sync" /\ j.id = m /\ j.put = <<>>
      /\ j.found = {} /\ j.left = {} /\ j.steady = {} /\ j.never = {}
  BY DEF Idle
<1> HIDE DEF j
<1>3. j.put \in Partial(Entries) /\ Cardinality(j.found \cup j.left) = 0
  BY <1>2, EmptyOK, FS_EmptySet
<1>4. Fits(j, r)
  BY <1>2, <1>3, IndexAssumption DEF Fits
<1> QED
  BY <1>1, <1>2, <1>4 DEF j

LEMMA DeletingOK ==
  ASSUME NEW m \in Ids, NEW r
  PROVE  LET j == [Idle EXCEPT !.at = "drop", !.id = m]
         IN j \in Jobs /\ j.at = "drop" /\ Fits(j, r)
<1> DEFINE j == [Idle EXCEPT !.at = "drop", !.id = m]
<1>1. j \in Jobs
  BY EmptyOK DEF Idle, Jobs
<1>2. /\ j.at = "drop" /\ j.id = m /\ j.put = <<>>
      /\ j.found = {} /\ j.left = {} /\ j.steady = {} /\ j.never = {}
  BY DEF Idle
<1> HIDE DEF j
<1>3. j.put \in Partial(Entries) /\ Cardinality(j.found \cup j.left) = 0
  BY <1>2, EmptyOK, FS_EmptySet
<1>4. Fits(j, r)
  BY <1>2, <1>3, IndexAssumption DEF Fits
<1> QED
  BY <1>1, <1>2, <1>4 DEF j

LEMMA ImportingOK ==
  ASSUME NEW a \in {"fill", "undo"}, NEW p \in Partial(Entries), NEW q \in Partial(Entries), NEW r
  PROVE  LET j == [[Idle EXCEPT !.put = p, !.adds = q] EXCEPT !.at = a]
         IN j \in Jobs /\ j.at = a /\ Fits(j, r)
<1> DEFINE j == [[Idle EXCEPT !.put = p, !.adds = q] EXCEPT !.at = a]
<1>1. j \in Jobs
  BY EntriesAreUpdates DEF Idle, Jobs
<1>2. /\ j.at = a /\ j.put = p
      /\ j.found = {} /\ j.left = {} /\ j.steady = {} /\ j.never = {}
  BY DEF Idle
<1>3. Fits(j, r)
  BY <1>2, FS_EmptySet, IndexAssumption DEF Fits
<1> QED
  BY <1>1, <1>2, <1>3

LEMMA SearchingOK ==
  LET j == [Idle EXCEPT !.at = "query", !.steady = Matching(row), !.never = Ids \ Live(row)]
  IN j \in Jobs /\ j.at = "query" /\ Fits(j, row)
<1> DEFINE j == [Idle EXCEPT !.at = "query", !.steady = Matching(row), !.never = Ids \ Live(row)]
<1>1. j \in Jobs
  <2>1. Matching(row) \in SUBSET Ids /\ Ids \ Live(row) \in SUBSET Ids
    BY DEF Matching, Live
  <2> QED
    BY <2>1, EmptyOK DEF Idle, Jobs
<1>2. /\ j.at = "query" /\ j.put = <<>>
      /\ j.found = {} /\ j.left = {} /\ j.steady = Matching(row) /\ j.never = Ids \ Live(row)
  BY DEF Idle
<1> HIDE DEF j
<1>3. j.put \in Partial(Entries) /\ Cardinality(j.found \cup j.left) = 0
  BY <1>2, EmptyOK, FS_EmptySet
<1>4. Fits(j, row)
  BY <1>2, <1>3, IndexAssumption DEF Fits
<1> QED
  BY <1>1, <1>2, <1>4 DEF j

(***************************************************************************)
(* One lemma per operation of the system, one step per action.             *)
(***************************************************************************)
LEMMA StoreKeeps ==
  ASSUME TypeOK, AllFit, NEW w \in Workers,
         (\E m \in Ids, t \in Texts : Store(w, m, t)) \/ Index(w)
  PROVE  TypeOK' /\ AllFit'
<1>1. ASSUME NEW m \in Ids, NEW t \in Texts, Store(w, m, t)
      PROVE  TypeOK' /\ AllFit'
  <2> DEFINE p == Entry(m, "active", t)
             j == [Idle EXCEPT !.at = "index", !.put = p]
  <2>1. p \in Partial(Entries)
    BY EntryOK DEF Entries
  <2>2. j \in Jobs /\ j.at = "index" /\ Fits(j, row')
    BY <2>1, WritingOK
  <2>3. Begins(w, j, row', {m}) /\ {m} \in SUBSET Ids
    BY <1>1 DEF Store
  <2> HIDE DEF j
  <2>4. PICK n \in Jobs : Fits(n, row') /\ n.at = "index" /\ Moves(w, n) /\ stale' \in SUBSET Ids
    BY <2>2, <2>3, BeginsOK
  <2>5. row' \in [Ids -> Rows]
    BY <1>1 DEF Store, TypeOK, Rows
  <2>6. vec' = vec /\ writer' = writer /\ job[w].at = "idle"
    BY <1>1 DEF Store
  <2> QED
    BY <2>4, <2>5, <2>6, MovesOK DEF TypeOK
<1>2. CASE Index(w)
  <2>1. job[w].at = "index" /\ row' = row /\ writer' = writer
    BY <1>2 DEF Index
  <2>2. job[w].put \in Partial(Entries) /\ DOMAIN job[w].put \in SUBSET Ids
    BY <2>1, PartialIs DEF AllFit, Fits
  <2>3. vec' \in Partial(Entries)
    BY <1>2, <2>2, WrittenOK DEF Index, TypeOK
  <2>4. Moves(w, Idle) /\ stale' \in SUBSET Ids
    BY <1>2, <2>1, <2>2, EndsOK DEF Index
  <2> QED
    BY <2>1, <2>3, <2>4, IdleOK, MovesOK DEF TypeOK
<1> QED
  BY <1>1, <1>2

LEMMA UpdateKeeps ==
  ASSUME TypeOK, AllFit, NEW w \in Workers,
         \/ \E m \in Ids, s \in Present \cup {None}, t \in Texts \cup {None} : Update(w, m, s, t)
         \/ ReadBack(w) \/ Copy(w)
  PROVE  TypeOK' /\ AllFit'
<1>1. ASSUME NEW m \in Ids, NEW s \in Present \cup {None}, NEW t \in Texts \cup {None},
             Update(w, m, s, t)
      PROVE  TypeOK' /\ AllFit'
  <2> DEFINE j == [Idle EXCEPT !.at = "sync", !.id = m, !.text = t]
  <2>1. j \in Jobs /\ j.at = "sync" /\ Fits(j, row')
    BY EditingOK
  <2>2. Begins(w, j, row', {m}) /\ {m} \in SUBSET Ids
    BY <1>1 DEF Update
  <2> HIDE DEF j
  <2>3. PICK n \in Jobs : Fits(n, row') /\ n.at = "sync" /\ Moves(w, n) /\ stale' \in SUBSET Ids
    BY <2>1, <2>2, BeginsOK
  <2>4. row' \in [Ids -> Rows]
    BY <1>1 DEF Update, TypeOK, Rows
  <2>5. vec' = vec /\ writer' = writer /\ job[w].at = "idle"
    BY <1>1 DEF Update
  <2> QED
    BY <2>3, <2>4, <2>5, MovesOK DEF TypeOK
<1>2. CASE ReadBack(w)
  <2> DEFINE m == job[w].id
             p == Entry(m, row[m].status, job[w].text)
             j == [job[w] EXCEPT !.at = "copy", !.put = p]
  <2>1. job[w].at = "sync" /\ row' = row /\ writer' = writer /\ vec' = vec
    BY <1>2 DEF ReadBack
  <2>2. job[w] \in Jobs /\ Fits(job[w], row) /\ m \in Ids
    BY <2>1 DEF TypeOK, AllFit, Fits
  <2>3. CASE Stored(m)
    <3>1. row[m].status \in Present /\ job[w].text \in Texts \cup {None}
      BY <2>2, <2>3 DEF Stored, Jobs
    <3>2. p \in Partial(Updates) /\ DOMAIN p = {m}
      BY <2>2, <3>1, EntryOK DEF Updates
    <3> HIDE DEF p
    <3>3. j \in Jobs
      BY <2>2, <3>2 DEF Jobs
    <3>4. /\ j.at = "copy" /\ j.id = m /\ j.put = p
          /\ j.found = job[w].found /\ j.left = job[w].left
          /\ j.steady = job[w].steady /\ j.never = job[w].never
      BY <2>2 DEF Jobs
    <3>5. Fits(j, row)
      BY <2>2, <3>2, <3>4 DEF Fits
    <3>6. job' = [job EXCEPT ![w] = j] /\ stale' = stale
      BY <1>2, <2>3 DEF ReadBack, Goes, p
    <3> HIDE DEF j
    <3> QED
      BY <2>1, <3>3, <3>4, <3>5, <3>6, MovesOK DEF TypeOK, Moves
  <2>4. CASE ~ Stored(m)
    <3>1. Moves(w, Idle) /\ stale' \in SUBSET Ids
      BY <1>2, <2>1, <2>4, EndsOK DEF ReadBack
    <3> QED
      BY <2>1, <3>1, IdleOK, MovesOK DEF TypeOK
  <2> QED
    BY <2>3, <2>4
<1>3. CASE Copy(w)
  <2> DEFINE m == job[w].id
             new == job[w].put[m]
             keep == [status |-> new.status, text |-> vec[m].text]
  <2>1. job[w].at = "copy" /\ row' = row /\ writer' = writer
    BY <1>3 DEF Copy
  <2>2. m \in Ids /\ m \in DOMAIN job[w].put /\ job[w].put \in Partial(Updates)
    BY <2>1 DEF TypeOK, AllFit, Fits, Jobs
  <2>3. new \in Updates
    BY <2>2, PartialIs
  <2>4. vec \in [DOMAIN vec -> Entries] /\ DOMAIN vec \subseteq Ids
    BY PartialIs DEF TypeOK
  <2>5. m \in DOMAIN vec => keep \in Entries
    BY <2>3, <2>4 DEF Updates, Entries
  <2>6. new.text # None => new \in Entries
    BY <2>3 DEF Updates, Entries
  <2>7. \/ vec' = vec
        \/ m \in DOMAIN vec /\ vec' = [vec EXCEPT ![m] = keep]
        \/ m \in DOMAIN vec /\ new.text # None /\ vec' = [vec EXCEPT ![m] = new]
    BY <1>3 DEF Copy
  <2>8. vec' \in Partial(Entries)
    <3> HIDE DEF keep, new
    <3>1. vec' \in [DOMAIN vec -> Entries]
      BY <2>4, <2>5, <2>6, <2>7
    <3> QED
      BY <3>1, <2>4 DEF Partial
  <2>9. Moves(w, Idle) /\ stale' \in SUBSET Ids
    <3>1. \/ \E s : Ends(w, row, s)
          \/ GivesUp(w, {m}) \/ GivesUp(w, {})
      BY <1>3 DEF Copy
    <3> QED
      BY <3>1, <2>1, <2>2, EndsOK
  <2> QED
    BY <2>1, <2>8, <2>9, IdleOK, MovesOK DEF TypeOK
<1> QED
  BY <1>1, <1>2, <1>3

LEMMA DeleteKeeps ==
  ASSUME TypeOK, AllFit, NEW w \in Workers,
         (\E m \in Ids : Delete(w, m)) \/ Drop(w) \/ Remove(w)
  PROVE  TypeOK' /\ AllFit'
<1>1. ASSUME NEW m \in Ids, Delete(w, m)
      PROVE  TypeOK' /\ AllFit'
  <2> DEFINE j == [Idle EXCEPT !.at = "drop", !.id = m]
  <2>1. j \in Jobs /\ j.at = "drop" /\ Fits(j, row')
    BY DeletingOK
  <2>2. /\ Begins(w, j, row', {m}) /\ {m} \in SUBSET Ids
        /\ row' = row /\ vec' = vec /\ writer' = writer /\ job[w].at = "idle"
    BY <1>1 DEF Delete
  <2> HIDE DEF j
  <2>3. PICK n \in Jobs : Fits(n, row') /\ n.at = "drop" /\ Moves(w, n) /\ stale' \in SUBSET Ids
    BY <2>1, <2>2, BeginsOK
  <2> QED
    BY <2>2, <2>3, MovesOK DEF TypeOK
<1>2. CASE Drop(w)
  <2>1. job[w].at = "drop" /\ row' = row /\ writer' = writer
    BY <1>2 DEF Drop
  <2>2. job[w] \in Jobs /\ Fits(job[w], row)
    BY DEF TypeOK, AllFit
  <2>3. vec' \in Partial(Entries)
    BY <1>2, WithoutOK DEF Drop, TypeOK
  <2>4. CASE Goes(w, [job[w] EXCEPT !.at = "remove"])
    <3> DEFINE j == [job[w] EXCEPT !.at = "remove"]
    <3>1. j \in Jobs
      BY <2>2 DEF Jobs
    <3>2. /\ j.at = "remove" /\ j.id = job[w].id /\ j.put = job[w].put
          /\ j.found = job[w].found /\ j.left = job[w].left
          /\ j.steady = job[w].steady /\ j.never = job[w].never
      BY <2>2 DEF Jobs
    <3>3. Fits(j, row)
      BY <2>1, <2>2, <3>2 DEF Fits
    <3>4. job' = [job EXCEPT ![w] = j] /\ stale' = stale
      BY <2>4 DEF Goes
    <3> HIDE DEF j
    <3> QED
      BY <2>1, <2>3, <3>1, <3>2, <3>3, <3>4, MovesOK DEF TypeOK, Moves
  <2>5. CASE GivesUp(w, {})
    <3>1. Moves(w, Idle) /\ stale' \in SUBSET Ids
      BY <2>1, <2>5, EndsOK
    <3> QED
      BY <2>1, <2>3, <3>1, IdleOK, MovesOK DEF TypeOK
  <2> QED
    BY <1>2, <2>4, <2>5 DEF Drop
<1>3. CASE Remove(w)
  <2>1. job[w].at = "remove" /\ vec' = vec /\ writer' = writer
    BY <1>3 DEF Remove
  <2>2. job[w].id \in Ids
    BY <2>1 DEF AllFit, Fits
  <2>3. row' \in [Ids -> Rows]
    BY <1>3 DEF Remove, TypeOK, Rows
  <2>4. Moves(w, Idle) /\ stale' \in SUBSET Ids
    BY <1>3, <2>2, EndsOK DEF Remove
  <2> QED
    BY <2>1, <2>3, <2>4, IdleOK, MovesOK DEF TypeOK
<1> QED
  BY <1>1, <1>2, <1>3

LEMMA RebuildKeeps ==
  ASSUME TypeOK, AllFit, NEW w \in Workers,
         (\E s \in SUBSET Ids : Rebuild(w, s)) \/ Upsert(w)
  PROVE  TypeOK' /\ AllFit'
<1>1. ASSUME NEW s \in SUBSET Ids, Rebuild(w, s)
      PROVE  TypeOK' /\ AllFit'
  <2> DEFINE p == Restrict(row, s)
             j == [Idle EXCEPT !.at = "upsert", !.put = p]
  <2>1. \A m \in s : row[m] \in Entries
    BY <1>1 DEF Rebuild, Stored, TypeOK, Rows, Entries
  <2>2. p \in Partial(Entries)
    BY <2>1, RestrictOK DEF TypeOK
  <2>3. j \in Jobs /\ j.at = "upsert" /\ Fits(j, row')
    BY <2>2, WritingOK
  <2>4. /\ Begins(w, j, row', s)
        /\ row' = row /\ vec' = vec /\ writer' = writer /\ job[w].at = "idle"
    BY <1>1 DEF Rebuild
  <2> HIDE DEF j
  <2>5. PICK n \in Jobs : Fits(n, row') /\ n.at = "upsert" /\ Moves(w, n) /\ stale' \in SUBSET Ids
    BY <2>3, <2>4, BeginsOK
  <2> QED
    BY <2>4, <2>5, MovesOK DEF TypeOK
<1>2. CASE Upsert(w)
  <2>1. job[w].at = "upsert" /\ row' = row /\ writer' = writer
    BY <1>2 DEF Upsert
  <2>2. job[w].put \in Partial(Entries)
    BY <2>1 DEF AllFit, Fits
  <2>3. vec' \in Partial(Entries)
    BY <1>2, <2>2, WrittenOK DEF Upsert, TypeOK
  <2>4. Moves(w, Idle) /\ stale' \in SUBSET Ids
    BY <1>2, <2>1, EndsOK DEF Upsert
  <2> QED
    BY <2>1, <2>3, <2>4, IdleOK, MovesOK DEF TypeOK
<1> QED
  BY <1>1, <1>2

\* A failed step of an import goes on to the compensation.
LEMMA UndoingOK ==
  ASSUME NEW j \in Jobs, NEW r, Fits(j, r), j.at \in {"fill", "commit"},
         NEW a \in {"commit", "undo"}
  PROVE  LET n == [j EXCEPT !.at = a] IN n \in Jobs /\ n.at = a /\ Fits(n, r)
<1> DEFINE n == [j EXCEPT !.at = a]
<1>1. n \in Jobs
  BY DEF Jobs
<1>2. /\ n.at = a /\ n.put = j.put /\ n.found = j.found /\ n.left = j.left
      /\ n.steady = j.steady /\ n.never = j.never
  BY DEF Jobs
<1>3. Fits(n, r)
  BY <1>2 DEF Fits
<1> QED
  BY <1>1, <1>2, <1>3

LEMMA ImportKeeps ==
  ASSUME TypeOK, AllFit, NEW w \in Workers,
         \/ \E s \in SUBSET Ids : \E f \in [s -> Entries] : Import(w, f)
         \/ Fill(w) \/ Commit(w) \/ Undo(w)
  PROVE  TypeOK' /\ AllFit'
<1>0. job[w] \in Jobs /\ Fits(job[w], row)
  BY DEF TypeOK, AllFit
<1>1. ASSUME NEW s \in SUBSET Ids, NEW f \in [s -> Entries], Import(w, f)
      PROVE  TypeOK' /\ AllFit'
  <2> DEFINE p == Missing(f)
             q == Restrict(f, {m \in DOMAIN f : ~ Stored(m)})
             a == IF Collides(f) THEN "undo" ELSE "fill"
             j == [[Idle EXCEPT !.put = p, !.adds = q] EXCEPT !.at = a]
  <2>1. p \in Partial(Entries) /\ DOMAIN p \in SUBSET Ids
    <3> DEFINE lacking == DOMAIN f \ DOMAIN vec
    <3>1. DOMAIN f \subseteq Ids /\ lacking \in SUBSET DOMAIN f /\ \A m \in lacking : f[m] \in Entries
      OBVIOUS
    <3>2. p = Restrict(f, lacking)
      BY DEF Missing
    <3> HIDE DEF p, lacking
    <3>3. p \in Partial(Entries) /\ DOMAIN p = lacking
      BY <3>1, <3>2, RestrictOK
    <3> QED
      BY <3>1, <3>3
  <2>2. q \in Partial(Entries)
    BY RestrictOK
  <2>3. /\ row' = row /\ vec' = vec /\ job[w].at = "idle" /\ writer = None
        /\ writer' = IF Collides(f) THEN writer ELSE w
    BY <1>1 DEF Import
  <2>4. Begins(w, j, row', DOMAIN p)
    <3>1. [Idle EXCEPT !.put = p, !.adds = q].put = p
      BY DEF Idle
    <3> QED
      BY <1>1, <2>3, <3>1 DEF Import
  <2> HIDE DEF p, q
  <2>5. a \in {"fill", "undo"} /\ (a = "undo" <=> Collides(f))
    OBVIOUS
  <2> HIDE DEF a
  <2>6. j \in Jobs /\ j.at = a /\ Fits(j, row')
    BY <2>1, <2>2, <2>5, ImportingOK
  <2> HIDE DEF j
  <2>7. PICK n \in Jobs : Fits(n, row') /\ n.at = a /\ Moves(w, n) /\ stale' \in SUBSET Ids
    BY <2>1, <2>4, <2>6, BeginsOK
  <2>8. CASE a = "undo"
    BY <2>3, <2>5, <2>7, <2>8, MovesOK DEF TypeOK
  <2>9. CASE a = "fill"
    BY <2>3, <2>5, <2>7, <2>9, MovesOK DEF TypeOK
  <2> QED
    BY <2>5, <2>8, <2>9
<1>2. CASE Fill(w)
  <2>1. job[w].at = "fill" /\ row' = row /\ writer = w
    BY <1>2 DEF Fill, TypeOK
  <2>2. vec' \in Partial(Entries)
    BY <1>0, <1>2, <2>1, WrittenOK DEF Fill, TypeOK, Fits
  <2>3. PICK a \in {"commit", "undo"} :
          /\ Goes(w, [job[w] EXCEPT !.at = a])
          /\ writer' = IF a = "commit" THEN writer ELSE None
    BY <1>2 DEF Fill
  <2> DEFINE j == [job[w] EXCEPT !.at = a]
  <2>4. j \in Jobs /\ j.at = a /\ Fits(j, row)
    BY <1>0, <2>1, UndoingOK
  <2>5. job' = [job EXCEPT ![w] = j] /\ stale' = stale
    BY <2>3 DEF Goes
  <2> HIDE DEF j
  <2>6. Moves(w, j) /\ stale' \in SUBSET Ids
    BY <2>1, <2>5 DEF Moves, TypeOK
  <2> QED
    BY <2>1, <2>2, <2>3, <2>4, <2>6, MovesOK DEF TypeOK
<1>3. CASE Commit(w)
  <2>1. job[w].at = "commit" /\ vec' = vec /\ writer = w /\ writer' = None
    BY <1>3 DEF Commit, TypeOK
  <2>2. CASE /\ row' = [m \in Ids |-> IF m \in DOMAIN job[w].adds THEN job[w].adds[m] ELSE row[m]]
             /\ Ends(w, row', DOMAIN job[w].put)
    <3>1. job[w].adds \in [DOMAIN job[w].adds -> Entries]
      BY <1>0, PartialIs DEF Jobs
    <3>2. Entries \subseteq Rows
      BY DEF Entries, Rows
    <3>3. row' \in [Ids -> Rows]
      BY <2>2, <3>1, <3>2 DEF TypeOK
    <3>4. Moves(w, Idle) /\ stale' \in SUBSET Ids
      BY <2>2, EndsOK
    <3> QED
      BY <2>1, <3>3, <3>4, IdleOK, MovesOK DEF TypeOK
  <2>3. CASE Goes(w, [job[w] EXCEPT !.at = "undo"]) /\ row' = row
    <3> DEFINE j == [job[w] EXCEPT !.at = "undo"]
    <3>1. j \in Jobs /\ j.at = "undo" /\ Fits(j, row)
      BY <1>0, <2>1, UndoingOK
    <3>2. job' = [job EXCEPT ![w] = j] /\ stale' = stale
      BY <2>3 DEF Goes
    <3> HIDE DEF j
    <3>3. Moves(w, j) /\ stale' \in SUBSET Ids
      BY <2>3, <3>2 DEF Moves, TypeOK
    <3> QED
      BY <2>1, <2>3, <3>1, <3>3, MovesOK DEF TypeOK
  <2> QED
    BY <1>3, <2>2, <2>3 DEF Commit
<1>4. CASE Undo(w)
  <2>1. job[w].at = "undo" /\ row' = row /\ writer' = writer
    BY <1>4 DEF Undo
  <2>2. DOMAIN job[w].put \in SUBSET Ids
    BY <1>0, PartialIs DEF Jobs
  <2>3. vec' \in Partial(Entries)
    BY <1>4, WithoutOK DEF Undo, TypeOK
  <2>4. Moves(w, Idle) /\ stale' \in SUBSET Ids
    BY <1>4, <2>1, <2>2, EndsOK DEF Undo
  <2> QED
    BY <2>1, <2>3, <2>4, IdleOK, MovesOK DEF TypeOK
<1> QED
  BY <1>1, <1>2, <1>3, <1>4

LEMMA SearchKeeps ==
  ASSUME TypeOK, AllFit, NEW w \in Workers,
         \/ Search(w) \/ Query(w) \/ (\E m \in Ids : ReadHit(w, m)) \/ TextSearch(w) \/ Reply(w)
  PROVE  TypeOK' /\ AllFit'
<1>0. job[w] \in Jobs /\ Fits(job[w], row)
  BY DEF TypeOK, AllFit
\* A step that turns to an operation that fits is all there is to show.
<1>1. ASSUME NEW j \in Jobs, Fits(j, row), Goes(w, j), UNCHANGED <<row, vec, writer>>,
             j.at \notin {"fill", "commit"}, job[w].at \notin {"fill", "commit"}
      PROVE  TypeOK' /\ AllFit'
  <2>1. Moves(w, j) /\ stale' \in SUBSET Ids
    BY <1>1 DEF Goes, Moves, TypeOK
  <2> QED
    BY <1>1, <2>1, MovesOK DEF TypeOK
<1>2. CASE Search(w)
  <2> DEFINE j == [Idle EXCEPT !.at = "query", !.steady = Matching(row), !.never = Ids \ Live(row)]
  <2>1. j \in Jobs /\ j.at = "query" /\ Fits(j, row)
    BY SearchingOK
  <2>2. Goes(w, j) /\ UNCHANGED <<row, vec, writer>> /\ job[w].at = "idle"
    BY <1>2 DEF Search
  <2> HIDE DEF j
  <2> QED
    BY <1>1, <2>1, <2>2
<1>3. CASE Reply(w)
  BY <1>1, <1>3, IdleOK DEF Reply
<1>4. CASE Query(w)
  <2>1. job[w].at = "query" /\ UNCHANGED <<row, vec, writer>> /\ job[w].found = {}
    BY <1>0, <1>4 DEF Query, Fits
  <2>2. ASSUME NEW hits \in Best(Limit, {m \in DOMAIN vec : vec[m].status = "active"}),
               Goes(w, [job[w] EXCEPT !.at = "read", !.left = hits])
        PROVE  TypeOK' /\ AllFit'
    <3> DEFINE all == {m \in DOMAIN vec : vec[m].status = "active"}
               j == [job[w] EXCEPT !.at = "read", !.left = hits]
    <3>1. all \in SUBSET Ids
      BY PartialIs DEF TypeOK
    <3>2. hits \in SUBSET all /\ Cardinality(hits) = Least(Limit, Cardinality(all))
      BY DEF Best, kSubset
    <3>3. Cardinality(all) \in Nat /\ Limit \in Nat
      BY <3>1, IndexAssumption, FS_Subset, FS_CardinalityType
    <3> HIDE DEF all
    <3>4. hits \in SUBSET Ids /\ Cardinality(hits) <= Limit
      BY <3>1, <3>2, <3>3 DEF Least
    <3>5. j \in Jobs
      BY <1>0, <3>4 DEF Jobs
    <3>6. /\ j.at = "read" /\ j.put = job[w].put /\ j.found = {} /\ j.left = hits
          /\ j.steady = job[w].steady /\ j.never = job[w].never
      BY <1>0, <2>1 DEF Jobs
    <3>7. j.found \cup j.left = hits
      BY <3>6
    <3>8. Fits(j, row)
      BY <1>0, <2>1, <3>4, <3>6, <3>7 DEF Fits
    <3>9. Goes(w, j)
      BY <2>2
    <3> HIDE DEF j
    <3> QED
      BY <1>1, <2>1, <3>5, <3>6, <3>8, <3>9
  <2>3. CASE Goes(w, [job[w] EXCEPT !.at = "read"])
    <3> DEFINE j == [job[w] EXCEPT !.at = "read"]
    <3>1. j \in Jobs
      BY <1>0 DEF Jobs
    <3>2. /\ j.at = "read" /\ j.put = job[w].put
          /\ j.found = job[w].found /\ j.left = job[w].left
          /\ j.steady = job[w].steady /\ j.never = job[w].never
      BY <1>0 DEF Jobs
    <3>3. Fits(j, row)
      BY <1>0, <2>1, <3>2 DEF Fits
    <3>4. Goes(w, j)
      BY <2>3
    <3> HIDE DEF j
    <3> QED
      BY <1>1, <2>1, <3>1, <3>2, <3>3, <3>4
  <2> QED
    BY <1>4, <2>2, <2>3 DEF Query
<1>5. ASSUME NEW m \in Ids, ReadHit(w, m)
      PROVE  TypeOK' /\ AllFit'
  <2>1. job[w].at = "read" /\ UNCHANGED <<row, vec, writer>> /\ m \in job[w].left
    BY <1>5 DEF ReadHit
  <2> DEFINE met == IF m \in Live(row) THEN job[w].found \cup {m} ELSE job[w].found
             j == [job[w] EXCEPT !.left = @ \ {m}, !.found = met]
  <2>2. met \in SUBSET Ids /\ met \cap job[w].never = {}
        /\ met \cup (job[w].left \ {m}) \subseteq job[w].found \cup job[w].left
    BY <1>0, <2>1 DEF Jobs, Fits
  <2>3. Goes(w, j)
    BY <1>5 DEF ReadHit
  <2> HIDE DEF met
  <2>4. j \in Jobs
    BY <1>0, <2>2 DEF Jobs
  <2>5. /\ j.at = "read" /\ j.put = job[w].put /\ j.found = met /\ j.left = job[w].left \ {m}
        /\ j.steady = job[w].steady /\ j.never = job[w].never
    BY <1>0, <2>1 DEF Jobs
  <2> HIDE DEF j
  <2>6. Cardinality(j.found \cup j.left) <= Limit
    <3> DEFINE old == job[w].found \cup job[w].left
               new == j.found \cup j.left
    <3>1. old \in SUBSET Ids /\ new \in SUBSET old
      BY <1>0, <2>2, <2>5 DEF Jobs
    <3>2. IsFiniteSet(old) /\ Cardinality(old) <= Limit
      BY <1>0, <3>1, IndexAssumption, FS_Subset DEF Fits
    <3> HIDE DEF old, new
    <3>3. /\ Cardinality(new) <= Cardinality(old)
          /\ Cardinality(new) \in Nat /\ Cardinality(old) \in Nat
      BY <3>1, <3>2, FS_Subset, FS_CardinalityType
    <3>4. Cardinality(new) <= Limit
      BY <3>2, <3>3, IndexAssumption
    <3> QED
      BY <3>4 DEF new
  <2>7. Fits(j, row)
    BY <1>0, <2>1, <2>2, <2>5, <2>6 DEF Fits
  <2> QED
    BY <1>1, <2>1, <2>3, <2>4, <2>5, <2>7
<1>6. CASE TextSearch(w)
  <2> DEFINE found == job[w].found
             wanted == Limit - Cardinality(found)
  <2>1. job[w].at = "read" /\ UNCHANGED <<row, vec, writer>> /\ job[w].left = {}
    BY <1>6 DEF TextSearch
  <2>2. PICK window \in Best(wanted + Cardinality(found), Matching(row)) :
          \E taken \in Best(wanted, window \ found) :
            Goes(w, [job[w] EXCEPT !.at = "done", !.found = found \cup taken])
    BY <1>6 DEF TextSearch
  <2>3. PICK taken \in Best(wanted, window \ found) :
          Goes(w, [job[w] EXCEPT !.at = "done", !.found = found \cup taken])
    BY <2>2
  <2>4. found \in SUBSET Ids /\ Matching(row) \in SUBSET Ids /\ Matching(row) \subseteq Live(row)
    BY <1>0 DEF Jobs, Matching, Live
  <2>5. Cardinality(found) <= Limit
    <3>1. found \cup job[w].left = found
      BY <2>1
    <3> QED
      BY <1>0, <3>1 DEF Fits
  <2> DEFINE got == found \cup taken
             j == [job[w] EXCEPT !.at = "done", !.found = got]
  <2>6. /\ taken \subseteq Matching(row)
        /\ Cardinality(got) <= Limit
        /\ Cardinality(got) < Limit => Matching(row) \subseteq got
    BY <2>4, <2>5, WindowSuffices
  <2>7. got \in SUBSET Ids /\ got \cap job[w].never = {}
    BY <1>0, <2>4, <2>6 DEF Fits
  <2>8. Goes(w, j)
    BY <2>3
  <2> HIDE DEF got
  <2>9. j \in Jobs
    BY <1>0, <2>7 DEF Jobs
  <2>10. /\ j.at = "done" /\ j.put = job[w].put /\ j.found = got /\ j.left = {}
         /\ j.steady = job[w].steady /\ j.never = job[w].never
    BY <1>0, <2>1 DEF Jobs
  <2>11. j.found \cup j.left = got
    BY <2>10
  <2>12. Fits(j, row)
    BY <1>0, <2>1, <2>6, <2>7, <2>10, <2>11 DEF Fits
  <2> HIDE DEF j
  <2> QED
    BY <1>1, <2>1, <2>8, <2>9, <2>10, <2>12
<1> QED
  BY <1>2, <1>3, <1>4, <1>5, <1>6

LEMMA InitOK == Init => TypeOK /\ AllFit
BY IdleOK, EmptyOK, IndexAssumption DEF Init, TypeOK, AllFit, Rows

LEMMA InvariantKept == TypeOK /\ AllFit /\ [Next]_vars => TypeOK' /\ AllFit'
<1> SUFFICES ASSUME TypeOK, AllFit, [Next]_vars PROVE TypeOK' /\ AllFit'
  OBVIOUS
<1>1. CASE Crash
  <2>1. row' = row /\ vec' = vec /\ writer' = None /\ job' = [w \in Workers |-> Idle]
    BY <1>1 DEF Crash
  <2>2. ASSUME NEW w \in Workers PROVE Busy(job[w]) \subseteq Ids
    <3>1. job[w] \in Jobs
      BY DEF TypeOK
    <3>2. DOMAIN job[w].put \subseteq Ids /\ job[w].id \in Ids \cup {None}
      BY <3>1, PartialIs DEF Jobs
    <3> QED
      BY <3>2 DEF Busy
  <2>3. stale' \in SUBSET Ids
    BY <1>1, <2>2 DEF Crash, TypeOK
  <2> QED
    BY <2>1, <2>3, IdleOK, IndexAssumption DEF TypeOK, AllFit
<1>2. CASE UNCHANGED vars
  BY <1>2 DEF vars, TypeOK, AllFit
<1>3. ASSUME NEW w \in Workers,
             \/ \E m \in Ids, t \in Texts : Store(w, m, t)
             \/ \E m \in Ids, s \in Present \cup {None}, t \in Texts \cup {None} : Update(w, m, s, t)
             \/ \E m \in Ids : Delete(w, m) \/ ReadHit(w, m)
             \/ \E s \in SUBSET Ids : Rebuild(w, s) \/ \E f \in [s -> Entries] : Import(w, f)
             \/ Index(w) \/ ReadBack(w) \/ Copy(w) \/ Drop(w) \/ Remove(w) \/ Upsert(w)
             \/ Fill(w) \/ Commit(w) \/ Undo(w)
             \/ Search(w) \/ Query(w) \/ TextSearch(w) \/ Reply(w)
      PROVE  TypeOK' /\ AllFit'
  BY <1>3, StoreKeeps, UpdateKeeps, DeleteKeeps, RebuildKeeps, ImportKeeps, SearchKeeps, Zenon
<1> QED
  BY <1>1, <1>2, <1>3, Zenon DEF Next

(***************************************************************************)
(* The theorems.                                                           *)
(***************************************************************************)

\* Every variable keeps its shape, and an import is the only operation that
\* holds SQLite's write lock across steps, from its checks to its commit or
\* rollback.
THEOREM TypeCorrect == Spec => []TypeOK
<1>1. Spec => [](TypeOK /\ AllFit)
  BY InitOK, InvariantKept, PTL DEF Spec
<1> QED
  BY <1>1, PTL

\* A search that is not full has found every memory that was an active match
\* throughout, for any set of memories, any limit, any number of threads and
\* whatever is in the index.
THEOREM Complete == Spec => []SearchFinds
<1>1. TypeOK /\ AllFit => SearchFinds
  BY DEF AllFit, Fits, SearchFinds
<1>2. Spec => [](TypeOK /\ AllFit)
  BY InitOK, InvariantKept, PTL DEF Spec
<1> QED
  BY <1>1, <1>2, PTL

\* No search returns a memory that was not active at some time during it.
THEOREM LiveOnly == Spec => []ServesLive
<1>1. TypeOK /\ AllFit => ServesLive
  BY DEF AllFit, Fits, ServesLive
<1>2. Spec => [](TypeOK /\ AllFit)
  BY InitOK, InvariantKept, PTL DEF Spec
<1> QED
  BY <1>1, <1>2, PTL

(***************************************************************************)
(* The index follows the rows.  The invariant says what an operation that  *)
(* has been alone on an id knows of it, what an operation finds at an id   *)
(* whose entry agrees with its row, and that the ids in agreement are the  *)
(* ones of at most one operation, which has been alone on them.            *)
(***************************************************************************)
Kept(m, r, x) ==
  IF r[m].status \in Present THEN m \in DOMAIN x /\ x[m] = r[m] ELSE m \notin DOMAIN x

Shaped(j) ==
  /\ j.sole \subseteq Busy(j)
  /\ j.at \notin {"sync", "copy", "drop", "remove"} => j.id = None
  /\ j.at \in {"idle", "sync", "drop", "remove", "query", "read", "done"} => DOMAIN j.put = {}
  /\ j.at = "copy" => DOMAIN j.put = {j.id}
  /\ j.at \in {"fill", "commit"} => DOMAIN j.adds \subseteq DOMAIN j.put

Knows(j, m, r, x) ==
  /\ j.at \in {"index", "upsert"} => r[m].status \in Present /\ j.put[m] = r[m]
  /\ j.at \in {"sync", "copy"} => r[m].status \in Present /\ (j.text = None \/ j.text = r[m].text)
  /\ j.at = "copy" => j.put[m] = [status |-> r[m].status, text |-> j.text]
  /\ j.at = "remove" => m \notin DOMAIN x
  /\ j.at \in {"fill", "commit"} =>
       IF m \in DOMAIN j.adds THEN r[m].status \notin Present /\ j.adds[m] = j.put[m]
                              ELSE r[m].status \in Present /\ j.put[m] = r[m]
  /\ j.at = "commit" => m \in DOMAIN x /\ x[m] = j.put[m]

Finds(j, m, r, x) ==
  /\ j.at \in {"drop", "upsert"} => Kept(m, r, x)
  /\ j.at \in {"sync", "copy"} => m \in DOMAIN x /\ (j.text = None => x[m].text = r[m].text)
  /\ j.at \in {"fill", "commit", "undo"} => r[m].status \notin Present

Sound(j, s, r, x) ==
  /\ Shaped(j)
  /\ Busy(j) \ s \subseteq j.sole
  /\ \A m \in j.sole : Knows(j, m, r, x)
  /\ \A m \in Busy(j) \ s : Finds(j, m, r, x)

Apart == \A w \in Workers : \A v \in Workers \ {w} : job[w].sole \cap Busy(job[v]) = {}
AllSound == \A w \in Workers : Sound(job[w], stale, row, vec)

Followed == TypeOK /\ AllFit /\ Apart /\ AllSound /\ IndexFollows

\* What an operation knows of an id is about its row, its entry and what the
\* operation is going to write.
Same(j, n) == n.at = j.at /\ n.id = j.id /\ n.text = j.text /\ n.put = j.put /\ n.adds = j.adds
Alike(m, r, x, q, y) ==
  /\ q[m] = r[m]
  /\ m \in DOMAIN y <=> m \in DOMAIN x
  /\ m \in DOMAIN x => y[m] = x[m]

LEMMA Local ==
  ASSUME NEW j, NEW n, Same(j, n), NEW m, NEW r, NEW x, NEW q, NEW y, Alike(m, r, x, q, y)
  PROVE  /\ Busy(n) = Busy(j)
         /\ Kept(m, r, x) => Kept(m, q, y)
         /\ Knows(j, m, r, x) => Knows(n, m, q, y)
         /\ Finds(j, m, r, x) => Finds(n, m, q, y)
<1>1. Busy(n) = Busy(j)
  BY DEF Same, Busy
<1>2. Kept(m, r, x) => Kept(m, q, y)
  BY DEF Alike, Kept
<1>3. Knows(j, m, r, x) => Knows(n, m, q, y)
  BY DEF Same, Alike, Knows
<1>4. Finds(j, m, r, x) => Finds(n, m, q, y)
  BY <1>2 DEF Same, Alike, Finds
<1> QED
  BY <1>1, <1>2, <1>3, <1>4

\* What a step of w has to show: it touches the rows and entries of its own ids
\* and of those it begins to work on, s; it leaves stale, or in step, what it no
\* longer works on; and the operation it turns to is sound.
LEMMA FollowedStep ==
  ASSUME Followed, TypeOK', AllFit', NEW w \in Workers, NEW s \in SUBSET Ids,
         \A v \in Workers \ {w} : Same(job[v], job'[v]) /\ job'[v].sole = job[v].sole \ s,
         \A m \in Ids \ (Busy(job[w]) \cup s) : Alike(m, row, vec, row', vec'),
         Busy(job'[w]) \subseteq Busy(job[w]) \cup s,
         job'[w].sole \subseteq job[w].sole \cup (s \ Others(w)),
         s \cap Others(w) \subseteq stale', stale \ job[w].sole \subseteq stale',
         Sound(job'[w], stale', row', vec'),
         \A m \in (Busy(job[w]) \cup s) \ (Busy(job'[w]) \cup stale') : Kept(m, row', vec')
  PROVE  Followed'
<1>1. /\ Apart /\ AllSound /\ IndexFollows
      /\ \A v \in Workers : Shaped(job[v]) /\ job[v].sole \subseteq Busy(job[v])
                            /\ Busy(job[v]) \ stale \subseteq job[v].sole
  BY DEF Followed, AllSound, Sound, Shaped
<1>2. \A v \in Workers \ {w} : Busy(job'[v]) = Busy(job[v])
  BY DEF Same, Busy
<1>3. \A v \in Workers \ {w} : Busy(job[v]) \subseteq Others(w)
  BY DEF Others
<1>5. Apart'
  <2> SUFFICES ASSUME NEW u \in Workers, NEW v \in Workers \ {u}
               PROVE  job'[u].sole \cap Busy(job'[v]) = {}
    BY DEF Apart
  <2>1. job[u].sole \cap Busy(job[v]) = {}
    BY <1>1 DEF Apart
  <2>2. CASE u = w
    BY <2>1, <2>2, <1>2, <1>3
  <2>3. CASE v = w
    BY <2>1, <2>3
  <2>4. CASE u # w /\ v # w
    BY <2>1, <2>4, <1>2
  <2> QED
    BY <2>2, <2>3, <2>4
<1>6. ASSUME NEW v \in Workers \ {w}
      PROVE  Sound(job'[v], stale', row', vec')
  <2>1. /\ Sound(job[v], stale, row, vec) /\ Same(job[v], job'[v])
        /\ job'[v].sole = job[v].sole \ s /\ Busy(job'[v]) = Busy(job[v])
        /\ job[v].sole \cap Busy(job[w]) = {} /\ job[w].sole \cap Busy(job[v]) = {}
    BY <1>1, <1>2 DEF AllSound, Apart
  <2>2. Shaped(job'[v])
    BY <2>1 DEF Sound, Shaped, Same
  <2>3. ASSUME NEW m \in Busy(job[v]), m \notin stale'
        PROVE  m \notin stale /\ m \in job'[v].sole
    BY <2>1, <2>3, <1>1, <1>3
  <2>4. ASSUME NEW m \in job'[v].sole
        PROVE  Alike(m, row, vec, row', vec')
    <3>1. job[v] \in Jobs
      BY DEF Followed, TypeOK
    <3>2. m \in Ids
      BY <2>1, <3>1 DEF Jobs
    <3> QED
      BY <2>1, <3>2
  <2>5. \A m \in job'[v].sole : Knows(job'[v], m, row', vec')
    BY <2>1, <2>4, Local DEF Sound
  <2>6. \A m \in Busy(job'[v]) \ stale' : Finds(job'[v], m, row', vec')
    BY <2>1, <2>3, <2>4, Local DEF Sound
  <2> QED
    BY <2>1, <2>2, <2>3, <2>5, <2>6 DEF Sound
<1>7. IndexFollows'
  <2> SUFFICES ASSUME NEW m \in Ids, m \notin stale', \A v \in Workers : m \notin Busy(job'[v])
               PROVE  Kept(m, row', vec')
    BY DEF IndexFollows, Kept, Stored
  <2>1. CASE m \in Busy(job[w]) \cup s
    BY <2>1
  <2>2. CASE m \notin Busy(job[w]) \cup s
    <3>1. m \notin stale
      BY <1>1, <2>2
    <3>2. \A v \in Workers : m \notin Busy(job[v])
      BY <1>2, <2>2
    <3>3. Kept(m, row, vec)
      BY <1>1, <3>1, <3>2 DEF IndexFollows, Kept, Stored
    <3>4. Alike(m, row, vec, row', vec')
      BY <2>2
    <3> QED
      BY <3>3, <3>4 DEF Alike, Kept
  <2> QED
    BY <2>1, <2>2
<1>8. AllSound'
  BY <1>6 DEF AllSound
<1> QED
  BY <1>5, <1>7, <1>8 DEF Followed

LEMMA OwnOK ==
  ASSUME Followed, NEW w \in Workers
  PROVE  /\ job[w] \in Jobs /\ Fits(job[w], row) /\ Busy(job[w]) \in SUBSET Ids
         /\ Sound(job[w], stale, row, vec) /\ Shaped(job[w])
         /\ job[w].sole \subseteq Busy(job[w]) /\ Busy(job[w]) \ stale \subseteq job[w].sole
         /\ job[w].sole \cap Others(w) = {}
<1>1. job[w] \in Jobs /\ Fits(job[w], row) /\ Sound(job[w], stale, row, vec)
  BY DEF Followed, TypeOK, AllFit, AllSound
<1>2. DOMAIN job[w].put \subseteq Ids /\ job[w].id \in Ids \cup {None}
  BY <1>1, PartialIs DEF Jobs
<1>3. Busy(job[w]) \in SUBSET Ids
  BY <1>2 DEF Busy
<1>4. job[w].sole \cap Others(w) = {}
  BY DEF Followed, Apart, Others
<1> QED
  BY <1>1, <1>3, <1>4 DEF Sound, Shaped

LEMMA IdleSound == Busy(Idle) = {} /\ Idle.sole = {} /\ \A s, r, x : Sound(Idle, s, r, x)
<1>1. Busy(Idle) = {} /\ Idle.sole = {} /\ Idle.at = "idle" /\ DOMAIN Idle.put = {}
      /\ Idle.id = None
  BY DEF Idle, Busy
<1>2. Shaped(Idle)
  BY <1>1 DEF Shaped
<1> QED
  BY <1>1, <1>2 DEF Sound

LEMMA TurnsLeaves ==
  ASSUME Followed, NEW w \in Workers, NEW j, NEW r, NEW s, Turns(w, j, r, s)
  PROVE  /\ job'[w] = j
         /\ \A v \in Workers \ {w} : Same(job[v], job'[v]) /\ job'[v].sole = job[v].sole \ s
<1>1. \A v \in Workers : job[v] \in Jobs
  BY DEF Followed, TypeOK
<1>2. job'[w] = j /\ \A v \in Workers \ {w} : job'[v] = Noticed(job[v], r, s)
  BY DEF Turns
<1>3. ASSUME NEW k \in Jobs
      PROVE  Same(k, Noticed(k, r, s)) /\ Noticed(k, r, s).sole = k.sole \ s
  BY DEF Same, Noticed, Jobs
<1> QED
  BY <1>1, <1>2, <1>3

LEMMA GoesLeaves ==
  ASSUME Followed, NEW w \in Workers, NEW j, job' = [job EXCEPT ![w] = j]
  PROVE  /\ job'[w] = j
         /\ \A v \in Workers \ {w} : Same(job[v], job'[v]) /\ job'[v].sole = job[v].sole \ {}
BY DEF Followed, TypeOK, Same

\* The beginning of an operation, on ids s.
LEMMA BeginsFollowed ==
  ASSUME Followed, TypeOK', AllFit', NEW w \in Workers, NEW j \in Jobs, NEW s \in SUBSET Ids,
         job[w].at = "idle", Begins(w, j, row', s), Busy(j) = s, vec' = vec,
         \A m \in Ids \ s : row'[m] = row[m],
         \A k : Same(j, k) /\ k.sole \subseteq s => Shaped(k),
         \A m \in s \ Others(w) : Knows(j, m, row', vec'),
         \A m \in s \ (stale \cup Others(w)) : Kept(m, row, vec) => Finds(j, m, row', vec')
  PROVE  Followed'
<1> DEFINE n == [j EXCEPT !.sole = s \ Others(w)]
<1>1. Same(j, n) /\ n.sole = s \ Others(w)
  BY DEF Jobs, Same
<1>2. Turns(w, n, row', s) /\ stale' = stale \cup (s \cap Others(w))
  BY DEF Begins
<1> HIDE DEF n
<1>3. /\ Busy(n) = s
      /\ \A m, r, x : Knows(j, m, r, x) => Knows(n, m, r, x)
      /\ \A m, r, x : Finds(j, m, r, x) => Finds(n, m, r, x)
  <2>1. \A m, r, x : Alike(m, r, x, r, x)
    BY DEF Alike
  <2> QED
    BY <1>1, <2>1, Local
<1>4. Shaped(n)
  BY <1>1
<1>5. job'[w] = n /\ \A v \in Workers \ {w} : Same(job[v], job'[v]) /\ job'[v].sole = job[v].sole \ s
  BY <1>2, TurnsLeaves
<1>6. Busy(job[w]) = {} /\ job[w].sole = {}
  <2>1. Shaped(job[w]) /\ job[w].sole \subseteq Busy(job[w])
    BY OwnOK
  <2> QED
    BY <2>1 DEF Shaped, Busy
<1>7. ASSUME NEW m \in s, m \notin stale, m \notin Others(w)
      PROVE  Kept(m, row, vec)
  <2>1. \A v \in Workers : m \notin Busy(job[v])
    BY <1>6, <1>7 DEF Others
  <2> QED
    BY <1>7, <2>1 DEF Followed, IndexFollows, Kept, Stored
<1>8. Sound(n, stale', row', vec')
  <2>1. Busy(n) \ stale' = s \ (stale \cup Others(w))
    BY <1>2, <1>3
  <2>2. \A m \in n.sole : Knows(n, m, row', vec')
    BY <1>1, <1>3
  <2>3. \A m \in Busy(n) \ stale' : Finds(n, m, row', vec')
    BY <1>3, <1>7, <2>1
  <2> QED
    BY <1>1, <1>4, <2>1, <2>2, <2>3 DEF Sound
<1>9. \A m \in Ids \ (Busy(job[w]) \cup s) : Alike(m, row, vec, row', vec')
  BY DEF Alike
<1> QED
  BY <1>1, <1>2, <1>3, <1>5, <1>6, <1>8, <1>9, FollowedStep

\* An operation goes on, on the same ids.
LEMMA GoesFollowed ==
  ASSUME Followed, TypeOK', AllFit', NEW w \in Workers, NEW j,
         Goes(w, j), Busy(j) = Busy(job[w]), j.sole = job[w].sole, Shaped(j),
         row' = row, \A m \in Ids \ Busy(job[w]) : Alike(m, row, vec, row, vec'),
         \A m \in j.sole : Knows(j, m, row, vec'),
         \A m \in Busy(j) \ stale : Finds(j, m, row, vec')
  PROVE  Followed'
<1>1. job'[w] = j /\ \A v \in Workers \ {w} : Same(job[v], job'[v]) /\ job'[v].sole = job[v].sole \ {}
  BY GoesLeaves DEF Goes
<1>2. stale' = stale
  BY DEF Goes
<1>3. Sound(j, stale', row', vec')
  BY <1>2, OwnOK DEF Sound
<1>4. {} \in SUBSET Ids
  OBVIOUS
<1> QED
  BY <1>1, <1>2, <1>3, <1>4, FollowedStep

\* An operation ends or gives up: what it leaves unmarked is in step.
LEMMA LeavesFollowed ==
  ASSUME Followed, TypeOK', AllFit', NEW w \in Workers, NEW d,
         \/ Ends(w, row', d)
         \/ GivesUp(w, d) /\ row' = row,
         \A m \in Ids \ Busy(job[w]) : Alike(m, row, vec, row', vec'),
         \A m \in job[w].sole : m \notin stale' => Kept(m, row', vec')
  PROVE  Followed'
<1>1. job'[w] = Idle /\ \A v \in Workers \ {w} : Same(job[v], job'[v]) /\ job'[v].sole = job[v].sole \ {}
  <2>1. CASE Ends(w, row', d)
    <3>1. Turns(w, Idle, row', {})
      BY <2>1 DEF Ends
    <3> QED
      BY <3>1, TurnsLeaves
  <2>2. CASE GivesUp(w, d)
    <3>1. job' = [job EXCEPT ![w] = Idle]
      BY <2>2 DEF GivesUp
    <3> QED
      BY <3>1, GoesLeaves
  <2> QED
    BY <2>1, <2>2
<1>2. stale \ job[w].sole \subseteq stale'
  BY DEF Ends, GivesUp
<1>3. Busy(job[w]) \ stale' \subseteq job[w].sole
  BY OwnOK DEF Ends, GivesUp
<1>4. Busy(job'[w]) = {} /\ job'[w].sole = {} /\ Sound(job'[w], stale', row', vec')
  BY <1>1, IdleSound
<1>5. {} \in SUBSET Ids /\ job[w].sole \subseteq Busy(job[w])
  BY OwnOK
<1>6. \A m \in (Busy(job[w]) \cup {}) \ (Busy(job'[w]) \cup stale') : Kept(m, row', vec')
  BY <1>3, <1>4
<1> QED
  BY <1>1, <1>2, <1>4, <1>5, <1>6, FollowedStep

(***************************************************************************)
(* One lemma per operation, one step per action.                           *)
(***************************************************************************)
\* The entries of an operation are written.
LEMMA WritesFollowed ==
  ASSUME Followed, TypeOK', AllFit', NEW w \in Workers,
         job[w].at \in {"index", "upsert"}, row' = row,
         \/ vec' = Written(job[w].put) /\ Ends(w, row, DOMAIN job[w].put)
         \/ GivesUp(w, DOMAIN job[w].put) /\ vec' = vec
         \/ job[w].at = "upsert" /\ GivesUp(w, {}) /\ vec' = vec
  PROVE  Followed'
<1> DEFINE j == job[w]
<1>1. /\ j.put \in Partial(Entries) /\ Sound(j, stale, row, vec) /\ Shaped(j)
      /\ j.sole \subseteq Busy(j) /\ Busy(j) = DOMAIN j.put
  <2>1. Fits(j, row) /\ Sound(j, stale, row, vec) /\ Shaped(j) /\ j.sole \subseteq Busy(j)
    BY OwnOK
  <2>2. j.id = None /\ j.put \in Partial(Entries)
    BY <2>1 DEF Shaped, Fits
  <2> QED
    BY <2>1, <2>2 DEF Busy
<1>2. \A m \in j.sole : Stored(m) /\ j.put[m] = row[m] /\ m \in DOMAIN j.put
  BY <1>1 DEF Sound, Knows, Stored
<1>3. CASE vec' = Written(j.put) /\ Ends(w, row, DOMAIN j.put)
  <2>1. \A m \in Ids \ Busy(j) : Alike(m, row, vec, row', vec')
    BY <1>1, <1>3 DEF Alike, Written
  <2>2. \A m \in j.sole : Kept(m, row', vec')
    BY <1>2, <1>3 DEF Kept, Written, Stored
  <2> QED
    BY <1>3, <2>1, <2>2, LeavesFollowed
<1>4. CASE GivesUp(w, DOMAIN j.put) /\ vec' = vec
  <2>1. \A m \in Ids \ Busy(j) : Alike(m, row, vec, row', vec')
    BY <1>4 DEF Alike
  <2>2. \A m \in j.sole : m \in stale'
    BY <1>2, <1>4 DEF GivesUp
  <2> QED
    BY <1>4, <2>1, <2>2, LeavesFollowed
<1>5. CASE j.at = "upsert" /\ GivesUp(w, {}) /\ vec' = vec
  <2>1. \A m \in Ids \ Busy(j) : Alike(m, row, vec, row', vec')
    BY <1>5 DEF Alike
  <2>2. \A m \in j.sole : m \notin stale' => Kept(m, row', vec')
    BY <1>1, <1>5 DEF GivesUp, Sound, Finds
  <2> QED
    BY <1>5, <2>1, <2>2, LeavesFollowed
<1> QED
  BY <1>3, <1>4, <1>5

LEMMA StoreFollowed ==
  ASSUME Followed, TypeOK', AllFit', NEW w \in Workers,
         (\E m \in Ids, t \in Texts : Store(w, m, t)) \/ Index(w)
  PROVE  Followed'
<1>1. ASSUME NEW m \in Ids, NEW t \in Texts, Store(w, m, t)
      PROVE  Followed'
  <2> DEFINE p == Entry(m, "active", t)
             j == [Idle EXCEPT !.at = "index", !.put = p]
  <2>1. p \in Partial(Entries) /\ DOMAIN p = {m}
    BY EntryOK DEF Entries
  <2>2. p[m] = [status |-> "active", text |-> t]
    BY DEF Entry
  <2>3. row' = [row EXCEPT ![m] = [status |-> "active", text |-> t]] /\ vec' = vec
        /\ job[w].at = "idle" /\ Begins(w, j, row', {m})
    BY <1>1 DEF Store
  <2> HIDE DEF p
  <2>4. j \in Jobs
    BY <2>1, WritingOK
  <2>5. j.at = "index" /\ j.put = p /\ j.id = None
    BY DEF Idle
  <2> HIDE DEF j
  <2>6. Busy(j) = {m}
    BY <2>1, <2>5 DEF Busy
  <2>7. \A k : Same(j, k) /\ k.sole \subseteq {m} => Shaped(k)
    BY <2>5, <2>6 DEF Same, Shaped, Busy
  <2>8. row'[m] = p[m] /\ p[m].status \in Present /\ \A x \in Ids \ {m} : row'[x] = row[x]
    BY <2>2, <2>3 DEF Followed, TypeOK
  <2>9. Knows(j, m, row', vec')
    BY <2>5, <2>8 DEF Knows
  <2>10. Finds(j, m, row', vec')
    BY <2>5 DEF Finds
  <2> QED
    BY <2>3, <2>4, <2>6, <2>7, <2>8, <2>9, <2>10, BeginsFollowed
<1>2. CASE Index(w)
  BY <1>2, WritesFollowed DEF Index
<1> QED
  BY <1>1, <1>2

LEMMA UpdateFollowed ==
  ASSUME Followed, TypeOK', AllFit', NEW w \in Workers,
         \/ \E m \in Ids, s \in Present \cup {None}, t \in Texts \cup {None} : Update(w, m, s, t)
         \/ ReadBack(w)
  PROVE  Followed'
<1>1. ASSUME NEW m \in Ids, NEW s \in Present \cup {None}, NEW t \in Texts \cup {None},
             Update(w, m, s, t)
      PROVE  Followed'
  <2> DEFINE j == [Idle EXCEPT !.at = "sync", !.id = m, !.text = t]
  <2>1. /\ Stored(m) /\ vec' = vec /\ job[w].at = "idle" /\ Begins(w, j, row', {m})
        /\ row' = [row EXCEPT ![m] = [status |-> IF s = None THEN @.status ELSE s,
                                      text |-> IF t = None THEN @.text ELSE t]]
    BY <1>1 DEF Update
  <2>2. j \in Jobs
    BY EditingOK
  <2>3. j.at = "sync" /\ j.put = <<>> /\ j.id = m /\ j.text = t
    BY DEF Idle
  <2> HIDE DEF j
  <2>4. m # None
    BY IndexAssumption
  <2>5. Busy(j) = {m}
    BY <2>3, <2>4 DEF Busy
  <2>6. \A k : Same(j, k) /\ k.sole \subseteq {m} => Shaped(k)
    BY <2>3, <2>5 DEF Same, Shaped, Busy
  <2>7. \A x \in Ids \ {m} : row'[x] = row[x]
    BY <2>1 DEF Followed, TypeOK
  <2>8. /\ row'[m].status \in Present
        /\ row'[m].text = IF t = None THEN row[m].text ELSE t
    BY <2>1 DEF Followed, TypeOK, Stored
  <2>9. Knows(j, m, row', vec')
    BY <2>3, <2>8 DEF Knows
  <2>10. ASSUME Kept(m, row, vec) PROVE Finds(j, m, row', vec')
    <3>1. m \in DOMAIN vec /\ vec[m] = row[m]
      BY <2>1, <2>10 DEF Kept, Stored
    <3> QED
      BY <2>1, <2>3, <2>8, <3>1 DEF Finds
  <2> QED
    BY <2>1, <2>2, <2>5, <2>6, <2>7, <2>9, <2>10, BeginsFollowed, ZenonT(40)
<1>2. CASE ReadBack(w)
  <2> DEFINE m == job[w].id
             p == Entry(m, row[m].status, job[w].text)
             j == [job[w] EXCEPT !.at = "copy", !.put = p]
  <2>1. /\ job[w].at = "sync" /\ row' = row /\ vec' = vec
        /\ IF Stored(m) THEN Goes(w, j) ELSE GivesUp(w, {})
    BY <1>2 DEF ReadBack
  <2>2. job[w] \in Jobs /\ Fits(job[w], row) /\ Sound(job[w], stale, row, vec) /\ Shaped(job[w])
        /\ job[w].sole \subseteq Busy(job[w]) /\ Busy(job[w]) \ stale \subseteq job[w].sole
    BY OwnOK
  <2>3. m \in Ids /\ m # None /\ Busy(job[w]) = {m}
    BY <2>1, <2>2, IndexAssumption DEF Fits, Shaped, Busy
  <2>4. CASE Stored(m)
    <3>1. DOMAIN p = {m} /\ p[m] = [status |-> row[m].status, text |-> job[w].text]
      BY DEF Entry
    <3> HIDE DEF p
    <3>2. j.at = "copy" /\ j.put = p /\ j.id = m /\ j.text = job[w].text /\ j.sole = job[w].sole
      BY <2>2 DEF Jobs
    <3>3. Goes(w, j)
      BY <2>1, <2>4
    <3> HIDE DEF j
    <3>4. Busy(j) = {m}
      BY <2>3, <3>1, <3>2 DEF Busy
    <3>5. Shaped(j)
      BY <2>2, <2>3, <3>1, <3>2, <3>4 DEF Shaped
    <3>6. \A x \in Ids \ Busy(job[w]) : Alike(x, row, vec, row, vec')
      BY <2>1 DEF Alike
    <3>7. \A x \in j.sole : x = m
      BY <2>2, <2>3, <3>2
    <3>8. \A x \in j.sole : Knows(j, x, row, vec')
      BY <2>1, <2>2, <3>1, <3>2, <3>7 DEF Sound, Knows
    <3>9. \A x \in Busy(j) \ stale : Finds(j, x, row, vec')
      BY <2>1, <2>2, <2>3, <3>2, <3>4 DEF Sound, Finds
    <3> QED
      BY <2>1, <2>3, <3>2, <3>3, <3>4, <3>5, <3>6, <3>8, <3>9, GoesFollowed
  <2>5. CASE ~ Stored(m)
    <3>1. job[w].sole = {}
      BY <2>1, <2>2, <2>3, <2>5 DEF Sound, Knows, Stored
    <3>2. \A x \in Ids \ Busy(job[w]) : Alike(x, row, vec, row', vec')
      BY <2>1 DEF Alike
    <3>3. GivesUp(w, {})
      BY <2>1, <2>5
    <3> QED
      BY <2>1, <3>1, <3>2, <3>3, LeavesFollowed
  <2> QED
    BY <2>4, <2>5
<1> QED
  BY <1>1, <1>2

LEMMA CopyFollowed ==
  ASSUME Followed, TypeOK', AllFit', NEW w \in Workers, Copy(w)
  PROVE  Followed'
<1> DEFINE m == job[w].id
           new == job[w].put[m]
           keep == [status |-> new.status, text |-> vec[m].text]
<1>1. job[w].at = "copy" /\ row' = row
  BY DEF Copy
<1>2. /\ job[w] \in Jobs /\ Fits(job[w], row) /\ Sound(job[w], stale, row, vec) /\ Shaped(job[w])
      /\ job[w].sole \subseteq Busy(job[w]) /\ Busy(job[w]) \ stale \subseteq job[w].sole
  BY OwnOK
<1>3. m \in Ids /\ m # None /\ Busy(job[w]) = {m}
  BY <1>1, <1>2, IndexAssumption DEF Fits, Shaped, Busy
<1>4. ASSUME m \in job[w].sole
      PROVE  /\ row[m].status \in Present
             /\ new.status = row[m].status /\ new.text = job[w].text
             /\ new = [status |-> row[m].status, text |-> job[w].text]
             /\ job[w].text = None \/ job[w].text = row[m].text
  BY <1>1, <1>2, <1>4 DEF Sound, Knows
<1>5. ASSUME m \notin stale
      PROVE  /\ m \in job[w].sole /\ m \in DOMAIN vec
             /\ job[w].text = None => vec[m].text = row[m].text
  BY <1>1, <1>2, <1>3, <1>5 DEF Sound, Finds
<1>6. row[m] = [status |-> row[m].status, text |-> row[m].text]
  BY <1>3 DEF Followed, TypeOK, Rows
<1>7. vec \in [DOMAIN vec -> Entries]
  BY PartialIs DEF Followed, TypeOK
<1> HIDE DEF new
<1>8. CASE /\ m \in DOMAIN vec
           /\ vec' = [vec EXCEPT ![m] = IF new.text = None THEN keep ELSE new]
           /\ Ends(w, row, IF new.text = None THEN {} ELSE {m})
  <2>1. \A x \in Ids \ Busy(job[w]) : Alike(x, row, vec, row', vec')
    BY <1>1, <1>3, <1>7, <1>8 DEF Alike
  <2>2. ASSUME m \in job[w].sole, m \notin stale' PROVE Kept(m, row', vec')
    <3>1. m \notin stale \/ new.text # None
      BY <1>8, <2>2 DEF Ends
    <3>2. vec'[m] = row[m]
      BY <1>4, <1>5, <1>6, <1>7, <1>8, <2>2, <3>1
    <3> QED
      BY <1>1, <1>4, <1>8, <2>2, <3>2 DEF Kept
  <2>3. \A x \in job[w].sole : x \notin stale' => Kept(x, row', vec')
    BY <1>2, <1>3, <2>2
  <2>4. Ends(w, row', IF new.text = None THEN {} ELSE {m})
    BY <1>1, <1>8
  <2> QED
    BY <1>1, <2>1, <2>3, <2>4, LeavesFollowed
<1>9. CASE m \in DOMAIN vec /\ vec' = [vec EXCEPT ![m] = keep] /\ GivesUp(w, {m})
  <2>1. \A x \in Ids \ Busy(job[w]) : Alike(x, row, vec, row', vec')
    BY <1>1, <1>3, <1>7, <1>9 DEF Alike
  <2>2. \A x \in job[w].sole : x \in stale'
    BY <1>2, <1>3, <1>9 DEF GivesUp
  <2> QED
    BY <1>1, <1>9, <2>1, <2>2, LeavesFollowed
<1>10. CASE /\ vec' = vec
            /\ \/ m \notin DOMAIN vec /\ GivesUp(w, {})
               \/ GivesUp(w, {m})
  <2>1. \A x \in Ids \ Busy(job[w]) : Alike(x, row, vec, row', vec')
    BY <1>1, <1>10 DEF Alike
  <2>2. \A x \in job[w].sole : x \in stale'
    BY <1>2, <1>3, <1>5, <1>10 DEF GivesUp
  <2> QED
    BY <1>1, <1>10, <2>1, <2>2, LeavesFollowed
<1> QED
  BY <1>8, <1>9, <1>10 DEF Copy, new

LEMMA DeleteFollowed ==
  ASSUME Followed, TypeOK', AllFit', NEW w \in Workers,
         (\E m \in Ids : Delete(w, m)) \/ Drop(w) \/ Remove(w)
  PROVE  Followed'
<1>0. /\ job[w] \in Jobs /\ Fits(job[w], row) /\ Sound(job[w], stale, row, vec) /\ Shaped(job[w])
      /\ job[w].sole \subseteq Busy(job[w]) /\ Busy(job[w]) \ stale \subseteq job[w].sole
  BY OwnOK
<1> DEFINE d == job[w].id
<1>1. ASSUME NEW m \in Ids, Delete(w, m)
      PROVE  Followed'
  <2> DEFINE j == [Idle EXCEPT !.at = "drop", !.id = m]
  <2>1. Stored(m) /\ vec' = vec /\ row' = row /\ job[w].at = "idle" /\ Begins(w, j, row', {m})
    BY <1>1 DEF Delete
  <2>2. j \in Jobs
    BY DeletingOK
  <2>3. j.at = "drop" /\ j.put = <<>> /\ j.id = m
    BY DEF Idle
  <2> HIDE DEF j
  <2>4. m # None
    BY IndexAssumption
  <2>5. Busy(j) = {m}
    BY <2>3, <2>4 DEF Busy
  <2>6. \A k : Same(j, k) /\ k.sole \subseteq {m} => Shaped(k)
    BY <2>3, <2>5 DEF Same, Shaped, Busy
  <2>7. Knows(j, m, row', vec')
    BY <2>3 DEF Knows
  <2>8. Kept(m, row, vec) => Finds(j, m, row', vec')
    BY <2>1, <2>3 DEF Finds
  <2> QED
    BY <2>1, <2>2, <2>5, <2>6, <2>7, <2>8, BeginsFollowed
<1>2. CASE Drop(w)
  <2>1. job[w].at = "drop" /\ row' = row
    BY <1>2 DEF Drop
  <2>2. d \in Ids /\ d # None /\ Busy(job[w]) = {d}
    BY <1>0, <2>1, IndexAssumption DEF Fits, Shaped, Busy
  <2>3. CASE vec' = Without({d}) /\ Goes(w, [job[w] EXCEPT !.at = "remove"])
    <3> DEFINE j == [job[w] EXCEPT !.at = "remove"]
    <3>1. j.at = "remove" /\ j.put = job[w].put /\ j.id = d /\ j.sole = job[w].sole
      BY <1>0 DEF Jobs
    <3>2. Goes(w, j)
      BY <2>3
    <3> HIDE DEF j
    <3>3. Busy(j) = {d} /\ Shaped(j)
      BY <1>0, <2>1, <2>2, <3>1 DEF Busy, Shaped
    <3>4. \A m \in Ids \ Busy(job[w]) : Alike(m, row, vec, row, vec')
      BY <2>2, <2>3 DEF Alike, Without, Restrict
    <3>5. d \notin DOMAIN vec'
      BY <2>3 DEF Without, Restrict
    <3>6. \A m \in j.sole : Knows(j, m, row, vec')
      BY <1>0, <2>2, <3>1, <3>5 DEF Knows
    <3>7. \A m \in Busy(j) \ stale : Finds(j, m, row, vec')
      BY <3>1 DEF Finds
    <3> QED
      BY <2>1, <2>2, <3>1, <3>2, <3>3, <3>4, <3>6, <3>7, GoesFollowed
  <2>4. CASE GivesUp(w, {}) /\ vec' = vec
    <3>1. \A m \in Ids \ Busy(job[w]) : Alike(m, row, vec, row', vec')
      BY <2>1, <2>4 DEF Alike
    <3>2. \A m \in job[w].sole : m \notin stale' => Kept(m, row', vec')
      BY <1>0, <2>1, <2>4 DEF GivesUp, Sound, Finds
    <3> QED
      BY <2>1, <2>4, <3>1, <3>2, LeavesFollowed
  <2> QED
    BY <1>2, <2>3, <2>4 DEF Drop
<1>3. CASE Remove(w)
  <2>1. job[w].at = "remove" /\ vec' = vec
    BY <1>3 DEF Remove
  <2>2. d \in Ids /\ d # None /\ Busy(job[w]) = {d}
    BY <1>0, <2>1, IndexAssumption DEF Fits, Shaped, Busy
  <2>3. CASE row' = [row EXCEPT ![d] = [status |-> "gone", text |-> "other"]] /\ Ends(w, row', {d})
    <3>1. \A m \in Ids \ Busy(job[w]) : Alike(m, row, vec, row', vec')
      BY <2>1, <2>2, <2>3 DEF Alike, Followed, TypeOK
    <3>2. row'[d].status = "gone"
      BY <2>2, <2>3 DEF Followed, TypeOK
    <3>3. \A m \in job[w].sole : Kept(m, row', vec')
      BY <1>0, <2>1, <2>2, <3>2 DEF Sound, Knows, Kept
    <3> QED
      BY <2>3, <3>1, <3>3, LeavesFollowed
  <2>4. CASE GivesUp(w, {d}) /\ row' = row
    <3>1. \A m \in Ids \ Busy(job[w]) : Alike(m, row, vec, row', vec')
      BY <2>1, <2>4 DEF Alike
    <3>2. \A m \in job[w].sole : m \in stale'
      BY <1>0, <2>2, <2>4 DEF GivesUp
    <3> QED
      BY <2>4, <3>1, <3>2, LeavesFollowed
  <2> QED
    BY <1>3, <2>3, <2>4 DEF Remove
<1> QED
  BY <1>1, <1>2, <1>3

LEMMA RebuildFollowed ==
  ASSUME Followed, TypeOK', AllFit', NEW w \in Workers,
         (\E s \in SUBSET Ids : Rebuild(w, s)) \/ Upsert(w)
  PROVE  Followed'
<1>1. ASSUME NEW s \in SUBSET Ids, Rebuild(w, s)
      PROVE  Followed'
  <2> DEFINE p == Restrict(row, s)
             j == [Idle EXCEPT !.at = "upsert", !.put = p]
  <2>1. /\ \A m \in s : Stored(m)
        /\ vec' = vec /\ row' = row /\ job[w].at = "idle" /\ Begins(w, j, row', s)
    BY <1>1 DEF Rebuild
  <2>2. DOMAIN p = s /\ \A m \in s : p[m] = row[m]
    BY DEF Restrict, Followed, TypeOK
  <2>3. p \in Partial(Entries)
    <3>1. \A m \in s : row[m] \in Entries
      BY <2>1 DEF Stored, Entries, Rows, Followed, TypeOK
    <3>2. DOMAIN row = Ids
      BY DEF Followed, TypeOK
    <3> QED
      BY <3>1, <3>2, RestrictOK
  <2> HIDE DEF p
  <2>4. j \in Jobs
    BY <2>3, WritingOK
  <2>5. j.at = "upsert" /\ j.put = p /\ j.id = None
    BY DEF Idle
  <2> HIDE DEF j
  <2>6. Busy(j) = s
    BY <2>2, <2>5 DEF Busy
  <2>7. \A k : Same(j, k) /\ k.sole \subseteq s => Shaped(k)
    BY <2>5, <2>6 DEF Same, Shaped, Busy
  <2>8. \A m \in s : Knows(j, m, row', vec')
    BY <2>1, <2>2, <2>5 DEF Knows, Stored
  <2>9. \A m \in s : Kept(m, row, vec) => Finds(j, m, row', vec')
    BY <2>1, <2>5 DEF Finds
  <2> QED
    BY <2>1, <2>4, <2>6, <2>7, <2>8, <2>9, BeginsFollowed
<1>2. CASE Upsert(w)
  BY <1>2, WritesFollowed DEF Upsert
<1> QED
  BY <1>1, <1>2

LEMMA ImportFollowed ==
  ASSUME Followed, TypeOK', AllFit', NEW w \in Workers,
         NEW s \in SUBSET Ids, NEW f \in [s -> Entries], Import(w, f)
  PROVE  Followed'
<1> DEFINE new == {m \in DOMAIN f : ~ Stored(m)}
           p == Missing(f)
           q == Restrict(f, new)
           a == IF Collides(f) THEN "undo" ELSE "fill"
           j == [[Idle EXCEPT !.put = p, !.adds = q] EXCEPT !.at = a]
<1>1. /\ row' = row /\ vec' = vec /\ job[w].at = "idle"
      /\ \A m \in DOMAIN f \cap DOMAIN vec : Stored(m)
  BY DEF Import
<1>2. Begins(w, j, row', DOMAIN p)
  <2>1. [Idle EXCEPT !.put = p, !.adds = q].put = p
    BY DEF Idle
  <2> QED
    BY <1>1, <2>1 DEF Import
<1>3. DOMAIN f = s /\ \A m \in s : f[m] \in Entries
  OBVIOUS
<1>4. /\ p \in Partial(Entries) /\ DOMAIN p = s \ DOMAIN vec /\ \A m \in DOMAIN p : p[m] = f[m]
      /\ q \in Partial(Entries) /\ DOMAIN q = new /\ \A m \in new : q[m] = f[m]
  <2>1. new \in SUBSET DOMAIN f /\ s \ DOMAIN vec \in SUBSET DOMAIN f
    BY <1>3
  <2>2. p = Restrict(f, s \ DOMAIN vec)
    BY <1>3 DEF Missing
  <2> HIDE DEF p, new
  <2>3. /\ Restrict(f, s \ DOMAIN vec) \in Partial(Entries)
        /\ DOMAIN Restrict(f, s \ DOMAIN vec) = s \ DOMAIN vec
    BY <1>3, <2>1, RestrictOK
  <2>4. q \in Partial(Entries) /\ DOMAIN q = new
    BY <1>3, <2>1, RestrictOK
  <2> QED
    BY <2>2, <2>3, <2>4 DEF Restrict
<1>5. new \subseteq DOMAIN p
  BY <1>1, <1>3, <1>4
<1> HIDE DEF p, q
<1>6. a \in {"fill", "undo"} /\ (a = "fill" => ~ Collides(f))
  OBVIOUS
<1> HIDE DEF a
<1>7. j \in Jobs
  BY <1>4, <1>6, ImportingOK
<1>8. j.at = a /\ j.put = p /\ j.adds = q /\ j.id = None
  BY DEF Idle
<1> HIDE DEF j
<1>9. Busy(j) = DOMAIN p
  BY <1>8 DEF Busy
<1>10. \A k : Same(j, k) /\ k.sole \subseteq DOMAIN p => Shaped(k)
  BY <1>4, <1>5, <1>6, <1>8, <1>9 DEF Same, Shaped, Busy
<1>11. ASSUME NEW m \in DOMAIN p PROVE Knows(j, m, row', vec')
  <2>1. ~ Collides(f) /\ m \notin DOMAIN q => Stored(m) /\ p[m] = row[m]
    BY <1>3, <1>4 DEF Collides
  <2>2. m \in DOMAIN q => ~ Stored(m) /\ q[m] = p[m]
    BY <1>4
  <2> HIDE DEF new
  <2> QED
    BY <1>1, <1>6, <1>8, <2>1, <2>2 DEF Knows, Stored
<1>12. ASSUME NEW m \in DOMAIN p, Kept(m, row, vec) PROVE Finds(j, m, row', vec')
  <2>1. row[m].status \notin Present
    BY <1>4, <1>12 DEF Kept
  <2> QED
    BY <1>1, <1>6, <1>8, <2>1 DEF Finds
<1>13. DOMAIN p \in SUBSET Ids
  BY <1>4
<1> QED
  BY <1>1, <1>2, <1>7, <1>9, <1>10, <1>11, <1>12, <1>13, BeginsFollowed

LEMMA ImportGoesFollowed ==
  ASSUME Followed, TypeOK', AllFit', NEW w \in Workers, Fill(w) \/ Commit(w) \/ Undo(w)
  PROVE  Followed'
<1> DEFINE put == job[w].put
           adds == job[w].adds
<1>1. /\ job[w] \in Jobs /\ Sound(job[w], stale, row, vec) /\ Shaped(job[w])
      /\ job[w].sole \subseteq Busy(job[w]) /\ Busy(job[w]) \ stale \subseteq job[w].sole
  BY OwnOK
<1>2. job[w].at \in {"fill", "commit", "undo"} /\ Busy(job[w]) = DOMAIN put
  BY <1>1 DEF Fill, Commit, Undo, Shaped, Busy
\* The entries are to be removed again.
<1>3. ASSUME Goes(w, [job[w] EXCEPT !.at = "undo"]), row' = row, vec' = vec
      PROVE  Followed'
  <2> DEFINE j == [job[w] EXCEPT !.at = "undo"]
  <2>1. j.at = "undo" /\ j.put = put /\ j.id = job[w].id /\ j.sole = job[w].sole
    BY <1>1 DEF Jobs
  <2>2. Goes(w, j)
    BY <1>3
  <2> HIDE DEF j
  <2>3. Busy(j) = Busy(job[w]) /\ Shaped(j)
    BY <1>1, <1>2, <2>1 DEF Busy, Shaped
  <2>4. \A m \in Ids \ Busy(job[w]) : Alike(m, row, vec, row, vec')
    BY <1>3 DEF Alike
  <2>5. \A m \in j.sole : Knows(j, m, row, vec')
    BY <2>1 DEF Knows
  <2>6. \A m \in Busy(j) \ stale : Finds(j, m, row, vec')
    BY <1>1, <1>2, <2>1, <2>3 DEF Sound, Finds
  <2> QED
    BY <1>3, <2>1, <2>2, <2>3, <2>4, <2>5, <2>6, GoesFollowed
<1>4. CASE Fill(w)
  <2>1. job[w].at = "fill" /\ row' = row
    BY <1>4 DEF Fill
  <2>2. CASE vec' = Written(put) /\ Goes(w, [job[w] EXCEPT !.at = "commit"])
    <3> DEFINE j == [job[w] EXCEPT !.at = "commit"]
    <3>1. /\ j.at = "commit" /\ j.put = put /\ j.adds = adds /\ j.id = job[w].id
          /\ j.sole = job[w].sole
      BY <1>1 DEF Jobs
    <3>2. Goes(w, j)
      BY <2>2
    <3> HIDE DEF j
    <3>3. Busy(j) = Busy(job[w]) /\ Shaped(j)
      BY <1>1, <2>1, <3>1 DEF Busy, Shaped
    <3>4. \A m \in Ids \ Busy(job[w]) : Alike(m, row, vec, row, vec')
      BY <1>2, <2>2 DEF Alike, Written
    <3>5. \A m \in j.sole : m \in DOMAIN vec' /\ vec'[m] = put[m]
      BY <1>1, <1>2, <2>2, <3>1 DEF Written
    <3>6. \A m \in j.sole : Knows(j, m, row, vec')
      BY <1>1, <2>1, <3>1, <3>5 DEF Sound, Knows
    <3>7. \A m \in Busy(j) \ stale : Finds(j, m, row, vec')
      BY <1>1, <2>1, <3>1, <3>3 DEF Sound, Finds
    <3> QED
      BY <2>1, <3>1, <3>2, <3>3, <3>4, <3>6, <3>7, GoesFollowed
  <2> QED
    BY <1>3, <1>4, <2>1, <2>2 DEF Fill
<1>5. CASE Commit(w)
  <2>1. job[w].at = "commit" /\ vec' = vec
    BY <1>5 DEF Commit
  <2>2. CASE /\ row' = [m \in Ids |-> IF m \in DOMAIN adds THEN adds[m] ELSE row[m]]
             /\ Ends(w, row', DOMAIN put)
    <3>1. DOMAIN adds \subseteq DOMAIN put /\ adds \in [DOMAIN adds -> Entries]
      BY <1>1, <2>1, PartialIs DEF Shaped, Jobs
    <3>2. \A m \in Ids \ Busy(job[w]) : Alike(m, row, vec, row', vec')
      BY <1>2, <2>1, <2>2, <3>1 DEF Alike
    <3>3. ASSUME NEW m \in job[w].sole PROVE Kept(m, row', vec')
      <4>1. m \in Ids /\ m \in DOMAIN vec /\ vec[m] = put[m]
        BY <1>1, <2>1 DEF Sound, Knows, Jobs
      <4>2. CASE m \in DOMAIN adds
        <5>1. adds[m] = put[m] /\ adds[m].status \in Present
          BY <1>1, <2>1, <3>1, <4>2 DEF Sound, Knows, Entries
        <5>2. row'[m] = put[m]
          BY <2>2, <4>1, <4>2, <5>1
        <5> QED
          BY <2>1, <4>1, <5>1, <5>2 DEF Kept
      <4>3. CASE m \notin DOMAIN adds
        <5>1. put[m] = row[m] /\ row[m].status \in Present
          BY <1>1, <2>1, <4>3 DEF Sound, Knows
        <5>2. row'[m] = put[m]
          BY <2>2, <4>1, <4>3, <5>1
        <5> QED
          BY <2>1, <4>1, <5>1, <5>2 DEF Kept
      <4> QED
        BY <4>2, <4>3
    <3> QED
      BY <2>2, <3>2, <3>3, LeavesFollowed
  <2> QED
    BY <1>3, <1>5, <2>1, <2>2 DEF Commit
<1>6. CASE Undo(w)
  <2>1. job[w].at = "undo" /\ row' = row
    BY <1>6 DEF Undo
  <2>2. CASE vec' = Without(DOMAIN put) /\ GivesUp(w, {})
    <3>1. \A m \in Ids \ Busy(job[w]) : Alike(m, row, vec, row', vec')
      BY <1>2, <2>1, <2>2 DEF Alike, Without, Restrict
    <3>2. ASSUME NEW m \in job[w].sole, m \notin stale' PROVE Kept(m, row', vec')
      <4>1. m \in DOMAIN put /\ m \notin stale
        BY <1>1, <1>2, <2>2, <3>2 DEF GivesUp
      <4>2. m \notin DOMAIN vec'
        BY <2>2, <4>1 DEF Without, Restrict
      <4>3. row[m].status \notin Present
        BY <1>1, <1>2, <2>1, <4>1 DEF Sound, Finds
      <4> QED
        BY <2>1, <4>2, <4>3 DEF Kept
    <3> QED
      BY <2>1, <2>2, <3>1, <3>2, LeavesFollowed
  <2>3. CASE GivesUp(w, DOMAIN put) /\ vec' = vec
    <3>1. \A m \in Ids \ Busy(job[w]) : Alike(m, row, vec, row', vec')
      BY <2>1, <2>3 DEF Alike
    <3>2. \A m \in job[w].sole : m \in stale'
      BY <1>1, <1>2, <2>3 DEF GivesUp
    <3> QED
      BY <2>1, <2>3, <3>1, <3>2, LeavesFollowed
  <2> QED
    BY <1>6, <2>2, <2>3 DEF Undo
<1> QED
  BY <1>4, <1>5, <1>6

\* A search works on no entry.
LEMMA SearchFollowed ==
  ASSUME Followed, TypeOK', AllFit', NEW w \in Workers,
         \/ Search(w) \/ Query(w) \/ (\E m \in Ids : ReadHit(w, m)) \/ TextSearch(w) \/ Reply(w)
  PROVE  Followed'
<1> DEFINE places == {"idle", "query", "read", "done"}
<1>1. job[w] \in Jobs /\ Shaped(job[w]) /\ job[w].sole \subseteq Busy(job[w])
  BY OwnOK
<1>2. row' = row /\ vec' = vec /\ job[w].at \in places
  BY DEF Search, Query, ReadHit, TextSearch, Reply
<1>3. Busy(job[w]) = {} /\ job[w].sole = {} /\ job[w].id = None /\ DOMAIN job[w].put = {}
  BY <1>1, <1>2 DEF Shaped, Busy
<1>4. ASSUME NEW j, Goes(w, j), j.at \in places, j.id = None, DOMAIN j.put = {}, j.sole = {}
      PROVE  Followed'
  <2>1. Busy(j) = {} /\ Shaped(j)
    BY <1>4 DEF Busy, Shaped
  <2>2. \A m \in Ids \ Busy(job[w]) : Alike(m, row, vec, row, vec')
    BY <1>2 DEF Alike
  <2> QED
    BY <1>2, <1>3, <1>4, <2>1, <2>2, GoesFollowed
<1>5. CASE Search(w)
  <2> DEFINE j == [Idle EXCEPT !.at = "query", !.steady = Matching(row), !.never = Ids \ Live(row)]
  <2>1. Goes(w, j)
    BY <1>5 DEF Search
  <2>2. j.at = "query" /\ j.id = None /\ DOMAIN j.put = {} /\ j.sole = {}
    BY DEF Idle
  <2> QED
    BY <1>4, <2>1, <2>2
<1>6. CASE Query(w)
  <2>1. ASSUME NEW hits, Goes(w, [job[w] EXCEPT !.at = "read", !.left = hits]) PROVE Followed'
    <3> DEFINE j == [job[w] EXCEPT !.at = "read", !.left = hits]
    <3>1. j.at = "read" /\ j.id = None /\ DOMAIN j.put = {} /\ j.sole = {}
      BY <1>1, <1>3 DEF Jobs
    <3> QED
      BY <1>4, <2>1, <3>1
  <2>2. ASSUME Goes(w, [job[w] EXCEPT !.at = "read"]) PROVE Followed'
    <3> DEFINE j == [job[w] EXCEPT !.at = "read"]
    <3>1. j.at = "read" /\ j.id = None /\ DOMAIN j.put = {} /\ j.sole = {}
      BY <1>1, <1>3 DEF Jobs
    <3> QED
      BY <1>4, <2>2, <3>1
  <2> QED
    BY <1>6, <2>1, <2>2 DEF Query
<1>7. ASSUME NEW m \in Ids, ReadHit(w, m) PROVE Followed'
  <2> DEFINE met == IF m \in Live(row) THEN job[w].found \cup {m} ELSE job[w].found
             j == [job[w] EXCEPT !.left = @ \ {m}, !.found = met]
  <2>1. Goes(w, j)
    BY <1>7 DEF ReadHit
  <2> HIDE DEF met
  <2>2. j.at = job[w].at /\ j.id = None /\ DOMAIN j.put = {} /\ j.sole = {}
    BY <1>1, <1>3 DEF Jobs
  <2> QED
    BY <1>2, <1>4, <2>1, <2>2
<1>8. CASE TextSearch(w)
  <2>1. PICK all : Goes(w, [job[w] EXCEPT !.at = "done", !.found = all])
    BY <1>8 DEF TextSearch
  <2> DEFINE j == [job[w] EXCEPT !.at = "done", !.found = all]
  <2>2. j.at = "done" /\ j.id = None /\ DOMAIN j.put = {} /\ j.sole = {}
    BY <1>1, <1>3 DEF Jobs
  <2> QED
    BY <1>4, <2>1, <2>2
<1>9. CASE Reply(w)
  <2>1. Idle.at = "idle" /\ Idle.id = None /\ DOMAIN Idle.put = {} /\ Idle.sole = {}
    BY DEF Idle
  <2> QED
    BY <1>4, <1>9, <2>1 DEF Reply
<1> QED
  BY <1>5, <1>6, <1>7, <1>8, <1>9

LEMMA InitFollowed == Init => Followed
<1> SUFFICES ASSUME Init PROVE Followed
  OBVIOUS
<1>1. TypeOK /\ AllFit
  BY InitOK
<1>2. \A w \in Workers : job[w] = Idle
  BY DEF Init
<1>3. Apart /\ AllSound
  BY <1>2, IdleSound DEF Apart, AllSound
<1>4. IndexFollows
  BY DEF Init, IndexFollows, Stored
<1> QED
  BY <1>1, <1>3, <1>4 DEF Followed

LEMMA CrashFollowed ==
  ASSUME Followed, TypeOK', AllFit', Crash
  PROVE  Followed'
<1>1. /\ row' = row /\ vec' = vec /\ job' = [w \in Workers |-> Idle]
      /\ stale' = stale \cup UNION {Busy(job[w]) : w \in Workers}
  BY DEF Crash
<1>2. Apart' /\ AllSound'
  BY <1>1, IdleSound DEF Apart, AllSound
<1>3. IndexFollows'
  <2> SUFFICES ASSUME NEW m \in Ids, m \notin stale' PROVE Kept(m, row', vec')
    BY DEF IndexFollows, Kept, Stored
  <2>1. m \notin stale /\ \A w \in Workers : m \notin Busy(job[w])
    BY <1>1
  <2> QED
    BY <1>1, <2>1 DEF Followed, IndexFollows, Kept, Stored
<1> QED
  BY <1>2, <1>3 DEF Followed

LEMMA NextFollowed == Followed /\ [Next]_vars => Followed'
<1> SUFFICES ASSUME Followed, [Next]_vars PROVE Followed'
  OBVIOUS
<1>0. TypeOK' /\ AllFit'
  BY InvariantKept DEF Followed
<1>1. CASE Crash
  BY <1>0, <1>1, CrashFollowed
<1>2. CASE UNCHANGED vars
  BY <1>2 DEF vars, Followed, TypeOK, AllFit, Apart, AllSound, IndexFollows, Stored
<1>3. ASSUME NEW w \in Workers,
             \/ \E m \in Ids, t \in Texts : Store(w, m, t)
             \/ \E m \in Ids, s \in Present \cup {None}, t \in Texts \cup {None} : Update(w, m, s, t)
             \/ \E m \in Ids : Delete(w, m) \/ ReadHit(w, m)
             \/ \E s \in SUBSET Ids : Rebuild(w, s) \/ \E f \in [s -> Entries] : Import(w, f)
             \/ Index(w) \/ ReadBack(w) \/ Copy(w) \/ Drop(w) \/ Remove(w) \/ Upsert(w)
             \/ Fill(w) \/ Commit(w) \/ Undo(w)
             \/ Search(w) \/ Query(w) \/ TextSearch(w) \/ Reply(w)
      PROVE  Followed'
  BY <1>0, <1>3, StoreFollowed, UpdateFollowed, CopyFollowed, DeleteFollowed, RebuildFollowed,
     ImportFollowed, ImportGoesFollowed, SearchFollowed, Zenon
<1> QED
  BY <1>1, <1>2, <1>3, Zenon DEF Next

\* Wherever no operation is under way, the index has the entry of the row and
\* of nothing else, but for the ids on which two operations met, a call of the
\* index failed or the process ended: for any memories and any threads.
THEOREM InStep == Spec => []IndexFollows
<1>1. Spec => []Followed
  BY InitFollowed, NextFollowed, PTL DEF Spec
<1>2. Followed => IndexFollows
  BY DEF Followed
<1> QED
  BY <1>1, <1>2, PTL
=============================================================================
