--------------------------- MODULE VectorIndexProps ---------------------------
(* What a search promises whatever the index holds, and what keeps the index
   in step with the rows. *)
EXTENDS VectorIndex

Points == {"idle", "index", "sync", "copy", "drop", "remove", "upsert", "fill", "commit",
           "undo", "query", "read", "done"}
Rows == [status : Present \cup {"unborn", "gone"}, text : Texts]
Updates == [status : Present, text : Texts \cup {None}]
Partial(T) == UNION {[s -> T] : s \in SUBSET Ids}
Jobs ==
  [at : Points, id : Ids \cup {None}, text : Texts \cup {None},
   put : Partial(Updates), adds : Partial(Entries), left : SUBSET Ids, found : SUBSET Ids,
   sole : SUBSET Ids, steady : SUBSET Ids, never : SUBSET Ids]

\* Shapes; an import holds the write lock from its checks to its commit or
\* rollback, nobody else across steps.
TypeOK ==
  /\ row \in [Ids -> Rows]
  /\ vec \in Partial(Entries)
  /\ job \in [Workers -> Jobs]
  /\ writer \in Workers \cup {None}
  /\ stale \in SUBSET Ids
  /\ \A w \in Workers : job[w].at \in {"fill", "commit"} <=> writer = w

\* The inductive invariant of an operation j, as rows are r: what it has found
\* and has yet to read is within the limit; what it has found was active during
\* it; and what it will be judged by is in the rows.
Fits(j, r) ==
  /\ j.at # "copy" => j.put \in Partial(Entries)
  /\ j.at = "copy" => j.id \in DOMAIN j.put
  /\ j.at \in {"sync", "copy", "drop", "remove"} => j.id \in Ids
  /\ j.at = "query" => j.found = {}
  /\ Cardinality(j.found \cup j.left) <= Limit
  /\ j.found \cap j.never = {}
  /\ j.steady \subseteq Matching(r) /\ j.never \cap Live(r) = {}
  /\ j.at = "done" /\ Cardinality(j.found) < Limit => j.steady \subseteq j.found

AllFit == \A w \in Workers : Fits(job[w], row)

\* A search that returns fewer results than its limit has found every memory
\* that was active with a term of the query all the time, however far the index
\* is from the rows: the text search makes up for what the index lacks.
SearchFinds ==
  \A w \in Workers :
    job[w].at = "done" /\ Cardinality(job[w].found) < Limit => job[w].steady \subseteq job[w].found

\* A search returns no memory that was not active at some time during it,
\* although the index still has entries of archived and deleted ones.
ServesLive == \A w \in Workers : job[w].at = "done" => job[w].found \cap job[w].never = {}

\* An id on which no operation is under way has an entry exactly when it has a
\* row, and the same status and text, unless two operations met on it, a call of
\* the index failed after its row was written or its vector dropped, or the
\* process ended halfway; and an operation that then works on it alone and
\* succeeds brings the two together again.
IndexFollows ==
  \A m \in Ids \ stale :
    (\A w \in Workers : m \notin Busy(job[w])) =>
      IF Stored(m) THEN m \in DOMAIN vec /\ vec[m] = row[m] ELSE m \notin DOMAIN vec
=============================================================================
