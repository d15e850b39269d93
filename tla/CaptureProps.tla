---------------------------- MODULE CaptureProps ----------------------------
(***************************************************************************)
(* What captures promise.                                                   *)
(***************************************************************************)
EXTENDS Capture

\* What has been stored, at some time.
Stored(thing) == \E m \in Ids : thing \in rows[m].says

\* The manifests there are: the file and what captures have loaded.
Manifests == {run[p].data : p \in Procs} \cup ({file} \ {None})

SourceStored(s) == \A n \in 1..Parts[s] : Stored(<<s, n, None>>)
TurnStored(t, n) == Stored(<<t, n, None>>)
ClaimsStored(t, n) == \A q \in Says[t][n] : Stored(<<t, n, q>>)

HonestSources(m) == \A k \in Keys : m.source[k] # None => SourceStored(m.source[k])
HonestChunks(m) == \A n \in 1..Turns :
  m.chunk[n] # None /\ m.chunk[n].done => ClaimsStored(m.chunk[n].text, n)
HonestOverall(m) == m.over # None /\ m.over.done =>
  \A n \in 1..Turns : TurnStored(m.over.text, n) /\ ClaimsStored(m.over.text, n)

\* An entry that makes a capture pass over a commit, a report, a chunk or a conversation is
\* about one that has been stored in full, whatever captures overlapped, were killed or
\* found a torn manifest (CaptureManifest.check, ConversationCapture.parse_text).
EntriesHonest == \A m \in Manifests : HonestSources(m) /\ HonestChunks(m) /\ HonestOverall(m)

\* A claim cites a source record of the very version of the text that it was found in
\* (_prepare_source_episodes, _validate_claim).
EvidenceOfItsText ==
  \A m \in Ids : \A thing \in rows[m].says :
    thing[3] # None => <<thing[1], thing[2], None>> \in UNION {rows[s].says : s \in rows[m].from}

Count(thing) == Cardinality({m \in Ids : thing \in rows[m].says})
Alone(x) == \A y \in started \ {x} :
  IF x \in Texts THEN y \notin Texts ELSE y \in Texts \/ Identity[y] # Identity[x]
Things(x) == {thing \in UNION {rows[m].says : m \in Ids} : thing[1] = x}

\* As long as captures do not overlap, what belongs to a conversation is stored again only
\* after a process was killed, a call of the store raised (the read of a source record that
\* is reused, or a write, before or after its commit) or a memory was removed, and once for
\* each: a failing model, a refused claim and a capture that is merely repeated store nothing
\* again.  The memories of a commit or report are stored again once for a fault
\* (_prepare_source_episodes, completed_item_keys).
StoredOnce ==
  ~overlap => \A x \in started : Alone(x) => \A thing \in Things(x) :
    Count(thing) <= 1 + (IF x \in Texts THEN cuts + removals ELSE faults)

\* A capture of a conversation in which nothing fails leaves it completed, whatever earlier
\* ones left undone (_all_chunks_complete).
RetryCompletes ==
  \A p \in Procs : At(p, "ended") /\ run[p].what \in Texts /\ run[p].clean =>
    /\ run[p].data.over # None /\ run[p].data.over.text = run[p].what
    /\ run[p].data.over.done
=============================================================================
