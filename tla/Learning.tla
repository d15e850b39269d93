------------------------------ MODULE Learning ------------------------------
(***************************************************************************)
(* How knowledge enters the semantic layer and what tier of trust it gets:  *)
(* Memory.learn of core/memory.py with its conflict check, write-time       *)
(* reconciliation and supersession, compression and reflection, revisions,  *)
(* the deduplicator's merge and PATCH /memories/{id}.                       *)
(*                                                                         *)
(* A learner is a call of learn, compress or materialize in some process    *)
(* or thread.  It waits for a language model between reading and writing,   *)
(* and every write is a commit of its own.  All knowledge is of one         *)
(* repository, scope and category and none of it is a prohibition.  A       *)
(* revision and a PATCH are one step here; Beliefs has a revision's         *)
(* commits.  One deduplication runs at a time.                              *)
(***************************************************************************)
EXTENDS Naturals, FiniteSets

CONSTANTS
  Memories,
  Learners,
  Channels,     \* write channels in use
  None,
  MaxFaults,    \* bound on storage errors
  MaxEdits,     \* bound on what others do to rows
  MaxCalls,     \* bound on calls, on rows posted and on deduplications
  MaxSources,   \* bound on the sources that a call of learn names
  MaxEvents,    \* bound on all of these together
  Patched,      \* statuses that PATCHes write
  MaxFields     \* bound on what one PATCH changes of a row

ASSUME NoneAssumption == None \notin Memories
ASSUME ChannelsAssumption == Channels \subseteq
  {"cli", "test_capture", "git", "bootstrap", "mcp", "local_owner", "conversation", "http",
   "rest", "import", "instruction", "library"}
ASSUME PatchedAssumption == Patched \subseteq {"active", "quarantined", "superseded", "deleted"}

VARIABLES
  row,      \* row[m]: the row of m
  edge,     \* contradicts relationships
  learner,  \* learner[l]: where the call l is, and its local variables
  merge,    \* the deduplication under way: what it read of the row that stays, and what is left
  basis,    \* history of beliefs: the least trusted tier that the text of m came from, or a
            \* better one that an administrator or the owner gave m
  told,     \* <<m, c>>: a call that found m to contradict c returned m
  faults, edits, calls

vars == <<row, edge, learner, merge, basis, told, faults, edits, calls>>

Tiers == {"authored", "derived", "assisted", "external", "unknown"}

\* base_trust in hundredths.
Trust(tier) ==
  IF tier = "authored" THEN 100
  ELSE IF tier = "derived" THEN 90
  ELSE IF tier = "assisted" THEN 70
  ELSE IF tier = "external" THEN 30 ELSE 0

ChannelTier(channel) ==
  IF channel = "cli" THEN "authored"
  ELSE IF channel \in {"test_capture", "git", "bootstrap"} THEN "derived"
  ELSE IF channel \in {"mcp", "local_owner", "conversation", "compression", "reflection"}
       THEN "assisted"
  ELSE IF channel \in {"http", "rest", "import", "instruction"} THEN "external"
  ELSE "unknown"

\* A detailed statement says all that the brief one does; learned facts are one or the other.
Facts == {"brief", "detailed", "other"}

Gone == [status |-> "none", layer |-> "none", tag |-> "unknown", source |-> "unknown",
         fact |-> "other", by |-> None]

New(m) == row[m].status = "none"
Present(m) == m \in Memories /\ row[m].status \notin {"none", "removed"}
Held == {m \in Memories : row[m].status = "active" /\ row[m].layer = "semantic"}

Least(t, T) == t \in T /\ \A u \in T : Trust(t) <= Trust(u)

\* source_support: the channel's tier, or that of a source if it is trusted less.
Supported(S) == \A s \in S : Present(s) /\ row[s].status # "deleted"

\* Mutant: the sources' tiers are not looked at.
SupportByChannel(t, S, channel) == t = ChannelTier(channel)
Support(t, S, channel) == Least(t, {ChannelTier(channel)} \cup {row[s].tag : s \in S})

\* What the text of a row made from S by this channel came from.  An episode's words may be
\* edited and keep its tier: they count as of that.
Origin(m) == IF row[m].layer = "semantic" THEN basis[m] ELSE row[m].tag
From(t, S, channel) == Least(t, {ChannelTier(channel)} \cup {Origin(s) : s \in S})

NoCall == [at |-> "idle", fact |-> "other", channel |-> "library", sources |-> {},
           tier |-> "unknown", basis |-> "unknown", conflicts |-> {}, left |-> {},
           act |-> "add", target |-> None, seen |-> "unknown", with |-> None]
NoMerge == [at |-> "idle", to |-> None, tag |-> "unknown", left |-> {}, moves |-> {}]

Init ==
  /\ row = [m \in Memories |-> Gone]
  /\ edge = {}
  /\ learner = [l \in Learners |-> NoCall]
  /\ basis = [m \in Memories |-> "authored"]
  /\ merge = NoMerge
  /\ told = {}
  /\ faults = 0 /\ edits = 0 /\ calls = 0

At(l, at) == learner[l].at = at
Go(l, at) == learner' = [learner EXCEPT ![l].at = at]
Fail(l) == learner' = [learner EXCEPT ![l] = NoCall]
Return(l) ==
  /\ Fail(l)
  /\ told' = told \cup {<<learner[l].target, c>> : c \in learner[l].conflicts}

Row(layer, tag, source, fact) ==
  [status |-> "active", layer |-> layer, tag |-> tag, source |-> source, fact |-> fact,
   by |-> None]

\* store_memory.
Store(m, r, from) ==
  /\ New(m)
  /\ row' = [row EXCEPT ![m] = r]
  /\ basis' = [basis EXCEPT ![m] = from]

\* The predecessor is retired for its successor.
Replace(m, n, r, from) ==
  /\ New(n)
  /\ row' = [row EXCEPT ![n] = r, ![m].status = "superseded", ![m].by = n]
  /\ basis' = [basis EXCEPT ![n] = from]
Revisable(m) == row[m].status \in {"active", "quarantined"}

Room == faults + edits + calls < MaxEvents
Edit == Room /\ edits < MaxEdits /\ edits' = edits + 1
Call == Room /\ calls < MaxCalls /\ calls' = calls + 1
Fault == Room /\ faults < MaxFaults /\ faults' = faults + 1

\* POST /memories, of either layer.
Capture(m, channel, layer, fact) ==
  /\ Call
  /\ Store(m, Row(layer, ChannelTier(channel), ChannelTier(channel), fact),
           ChannelTier(channel))
  /\ UNCHANGED <<merge, edge, learner, told, faults, edits>>

----------------------------------------------------------------------------
\* learn: source support is resolved before anything is written.
Learn(l, fact, channel, S) ==
  /\ At(l, "idle") /\ Call /\ Cardinality(S) <= MaxSources
  /\ Supported(S)
  /\ \E t \in Tiers, b \in Tiers :
       /\ Support(t, S, channel) /\ From(b, S, channel)
       /\ learner' = [learner EXCEPT ![l] = [NoCall EXCEPT
            !.at = "check", !.fact = fact, !.channel = channel, !.sources = S,
            !.tier = t, !.basis = b]]
  /\ UNCHANGED <<merge, row, edge, basis, told, faults, edits>>

\* check_conflict: the model may say that the fact contradicts something and name whatever rows
\* it likes, ids that nobody has (None), or none.  Where it is absent or fails the verdict is
\* undetermined, and the fact is stored all the same.
Answers == (SUBSET {m \in Memories : ~New(m)}) \cup {{None}}

\* Mutant: the call goes on to reconcile a fact that contradicts something.
CheckAfterFolding(l) ==
  /\ At(l, "check")
  /\ \E C \in Answers :
       learner' = [learner EXCEPT ![l].conflicts = C, ![l].left = C, ![l].at = "decide"]
  /\ UNCHANGED <<merge, row, edge, basis, told, faults, edits, calls>>
CheckConflict(l) ==
  /\ At(l, "check")
  /\ \/ Go(l, "decide")
     \/ \E C \in Answers :
          learner' = [learner EXCEPT ![l].conflicts = C, ![l].left = C, ![l].at = "establish"]
  /\ UNCHANGED <<merge, row, edge, basis, told, faults, edits, calls>>

\* Reconciler.decide looks at rows of the fact's own tier only.
\* Mutant: at rows of every tier.
AlikeOfAnyTier(l) == Held
Alike(l) == {m \in Held : row[m].tag = learner[l].tier}

\* The same words first, then a row that the fact extends or that says more already.  The
\* lookup may be switched off, miss a row or fail: then the fact is stored.
Choose(l, act, m) ==
  learner' = [learner EXCEPT ![l].at = "apply", ![l].act = act, ![l].target = m,
                             ![l].seen = row[m].tag]

Decide(l) ==
  LET Saying(f) == {m \in Alike(l) : row[m].fact = f}
      fact == learner[l].fact
  IN
  /\ At(l, "decide")
  /\ \/ \E m \in Saying(fact) : Choose(l, "noop", m)
     \/ fact = "brief" /\ Saying("brief") = {} /\ \E m \in Saying("detailed") : Choose(l, "noop", m)
     \/ fact = "detailed" /\ Saying("detailed") = {} /\ \E m \in Saying("brief") : Choose(l, "update", m)
     \/ Go(l, "establish")
  /\ UNCHANGED <<merge, row, edge, basis, told, faults, edits, calls>>

\* _apply_reconcile_decision.  A noop leaves status, text and tier of its target as they are.
ApplyNoop(l) ==
  /\ At(l, "apply") /\ learner[l].act = "noop"
  /\ Return(l)
  /\ UNCHANGED <<merge, row, edge, basis, faults, edits, calls>>

\* revise_memory without a channel: the successor keeps the row's tags and source, which are
\* read now.  If the tier is no longer the one that was compared, the words count as of the
\* tier that they come under.  A target that is gone is returned all the same; one that left
\* the active set is refused.
ApplyUpdate(l) ==
  LET t == learner[l].target IN
  /\ At(l, "apply") /\ learner[l].act = "update"
  /\ IF Revisable(t)
     THEN \E n \in Memories :
            /\ Replace(t, n, Row("semantic", row[t].tag, row[t].source, learner[l].fact),
                       IF row[t].tag = learner[l].seen THEN learner[l].basis ELSE row[t].tag)
            /\ Return(l)
     ELSE Fail(l) /\ UNCHANGED <<row, basis, told>>
  /\ UNCHANGED <<merge, edge, faults, edits, calls>>

\* semantic.establish resolves the sources again; the row's source is the channel's.
Establish(l) ==
  LET S == learner[l].sources
      c == learner[l].channel
  IN
  /\ At(l, "establish")
  /\ IF Supported(S)
     THEN \E m \in Memories, t \in Tiers, b \in Tiers :
            /\ Support(t, S, c) /\ From(b, S, c)
            /\ Store(m, Row("semantic", t, ChannelTier(c), learner[l].fact), b)
            /\ learner' = [learner EXCEPT ![l] = [NoCall EXCEPT
                 !.at = "link", !.target = m, !.conflicts = learner[l].conflicts,
                 !.left = learner[l].left]]
     ELSE Fail(l) /\ UNCHANGED <<row, basis>>
  /\ UNCHANGED <<merge, edge, told, faults, edits, calls>>

\* The edge to one of the contradicted rows; what cannot be linked is quarantined.
\* Mutant: what contradicts the fact is looked up again once the fact is stored.
LinkHeld(l, c) ==
  /\ At(l, "link") /\ c \in Held \ {learner[l].target} /\ learner[l].left # {}
  /\ edge' = edge \cup {<<learner[l].target, c>>}
  /\ learner' = [learner EXCEPT ![l].at = "supersede", ![l].left = @ \ {c}, ![l].with = c]
  /\ UNCHANGED <<merge, row, basis, told, faults, edits, calls>>
Link(l, c) ==
  /\ At(l, "link") /\ c \in learner[l].left
  /\ IF Present(c) /\ Present(learner[l].target)
     THEN /\ edge' = edge \cup {<<learner[l].target, c>>}
          /\ learner' = [learner EXCEPT ![l].at = "supersede", ![l].left = @ \ {c},
                                        ![l].with = c]
     ELSE Go(l, "quarantine") /\ UNCHANGED edge
  /\ UNCHANGED <<merge, row, basis, told, faults, edits, calls>>

\* Mutant: an edge that could not be written is passed over.
LinkSkips(l) ==
  /\ At(l, "link") /\ learner[l].left # {}
  /\ Fault
  /\ learner' = [learner EXCEPT ![l].left = {}]
  /\ UNCHANGED <<merge, row, edge, basis, told, edits, calls>>
LinkFails(l) ==
  /\ At(l, "link") /\ learner[l].left # {}
  /\ Fault
  /\ Go(l, "quarantine")
  /\ UNCHANGED <<merge, row, edge, basis, told, edits, calls>>

\* _quarantine_unlinked_contradiction is best effort; the call fails either way.
Quarantine(l) ==
  /\ At(l, "quarantine")
  /\ \/ /\ row' = IF Present(learner[l].target)
                  THEN [row EXCEPT ![learner[l].target].status = "quarantined"] ELSE row
        /\ UNCHANGED faults
     \/ Fault /\ UNCHANGED row
  /\ Fail(l)
  /\ UNCHANGED <<merge, edge, basis, told, edits, calls>>

\* _may_supersede compares what the source columns say; _supersede_memory retires the row
\* whatever its status has become, and its errors are passed over.
Authority(m) == IF Present(m) THEN Trust(row[m].source) ELSE 0

Supersede(l) ==
  LET c == learner[l].with
      m == learner[l].target
  IN
  /\ At(l, "supersede")
  /\ IF Present(c) /\ Authority(m) >= Authority(c)
     THEN \/ row' = [row EXCEPT ![c].status = "superseded", ![c].by = m] /\ UNCHANGED faults
          \/ Fault /\ UNCHANGED row
     ELSE UNCHANGED <<row, faults>>
  /\ learner' = [learner EXCEPT ![l].at = "link", ![l].with = None]
  /\ UNCHANGED <<merge, edge, basis, told, edits, calls>>

Done(l) ==
  /\ At(l, "link") /\ learner[l].left = {}
  /\ Return(l)
  /\ UNCHANGED <<merge, row, edge, basis, faults, edits, calls>>

----------------------------------------------------------------------------
\* compress_episodes_to_semantic, extract_principle and materialize (which wants two sources,
\* and whose channel has the same tier): the sources, then the model, then the row.
Digest(l, S) ==
  LET channel == "compression" IN
  /\ At(l, "idle") /\ Call
  /\ S # {} /\ \A s \in S : row[s].status = "active"
  /\ \E t \in Tiers, b \in Tiers :
       /\ Support(t, S, channel) /\ From(b, S, channel)
       /\ learner' = [learner EXCEPT ![l] = [NoCall EXCEPT
            !.at = "digest", !.channel = channel, !.sources = S, !.tier = t, !.basis = b]]
  /\ UNCHANGED <<merge, row, edge, basis, told, faults, edits>>

StoreDigest(l) ==
  /\ At(l, "digest")
  /\ IF Supported(learner[l].sources)
     THEN \E m \in Memories :
            Store(m, Row("semantic", learner[l].tier, ChannelTier(learner[l].channel), "other"),
                  learner[l].basis)
     ELSE UNCHANGED <<row, basis>>
  /\ Fail(l)
  /\ UNCHANGED <<merge, edge, told, faults, edits, calls>>

\* The process of a call exits.
Exit(l) ==
  /\ ~At(l, "idle")
  /\ Fault
  /\ Fail(l)
  /\ UNCHANGED <<merge, row, edge, basis, told, edits, calls>>

----------------------------------------------------------------------------
\* POST /memories/{id}/revise: new words, of the channel that they came by.
Revise(m, n, channel) ==
  /\ Edit
  /\ row[m].layer = "semantic" /\ Revisable(m)
  /\ Replace(m, n, Row("semantic", ChannelTier(channel), ChannelTier(channel), row[m].fact),
             ChannelTier(channel))
  /\ UNCHANGED <<merge, edge, learner, told, faults, calls>>

\* PATCH /memories/{id}: a status, words for what is not a belief, and tags, where
\* pin_provenance keeps the stored tier unless the caller is an administrator or the owner.
Edited(m, status, fact, tag, answers) ==
  /\ Edit
  /\ Present(m)
  /\ fact # row[m].fact => row[m].layer # "semantic"
  /\ row' = [row EXCEPT ![m].status = status, ![m].fact = fact, ![m].tag = tag]
  /\ Cardinality({f \in {"status", "fact", "tag"} : row'[m][f] # row[m][f]}) <= MaxFields
  /\ basis' = IF answers /\ Trust(tag) > Trust(basis[m])
              THEN [basis EXCEPT ![m] = tag] ELSE basis
  /\ UNCHANGED <<merge, edge, learner, told, faults, calls>>

\* Mutant: the tags are stored as they were sent.
PatchUnpinned(m, status, fact, tier, trusted) == Edited(m, status, fact, tier, trusted)
Patch(m, status, fact, tier, trusted) ==
  Edited(m, status, fact, IF trusted THEN tier ELSE row[m].tag, trusted)

Trash(m) ==
  /\ Edit
  /\ row[m].status = "active"
  /\ row' = [row EXCEPT ![m].status = "deleted"]
  /\ UNCHANGED <<merge, edge, learner, basis, told, faults, calls>>

----------------------------------------------------------------------------
(* Deduplicator.merge_memories, commit by commit.  The row that stays is   *)
(* read first; the tags that were read are written back at the end, and     *)
(* the tier is that of the first of them.                                   *)

BeginDedupe(m, copies) ==
  /\ Call /\ merge.at = "idle"
  /\ Present(m) /\ copies # {} /\ m \notin copies
  /\ \A c \in copies : Present(c) /\ row[c].layer = row[m].layer
  /\ merge' = [NoMerge EXCEPT !.at = IF row[m].layer = "semantic" THEN "list" ELSE "text",
                              !.to = m, !.tag = row[m].tag, !.left = copies]
  /\ UNCHANGED <<row, edge, learner, basis, told, faults, edits>>

\* target_content, which no belief takes.
Reword(fact) ==
  /\ merge.at = "text"
  /\ merge' = [merge EXCEPT !.at = "list"]
  /\ \/ UNCHANGED row
     \/ /\ Present(merge.to) /\ row[merge.to].layer # "semantic"
        /\ row' = [row EXCEPT ![merge.to].fact = fact]
  /\ UNCHANGED <<edge, learner, basis, told, faults, edits, calls>>

\* _retarget_relationships lists the relationships of the copies, unless that fails.
ListEdges ==
  LET To(x) == IF x \in merge.left THEN merge.to ELSE x
      Moved == {<<To(e[1]), To(e[2])>> : e \in {d \in edge : {d[1], d[2]} \cap merge.left # {}}}
  IN
  /\ merge.at = "list"
  /\ \/ merge' = [merge EXCEPT !.at = "fold", !.moves = {e \in Moved : e[1] # e[2]}]
        /\ UNCHANGED faults
     \/ merge' = [merge EXCEPT !.at = "fold"] /\ Fault
  /\ UNCHANGED <<row, edge, learner, basis, told, edits, calls>>

\* ... and gives the row that stays its own; what cannot be added is passed over.
Retarget(e) ==
  /\ merge.at = "fold" /\ e \in merge.moves
  /\ merge' = [merge EXCEPT !.moves = @ \ {e}]
  /\ \/ edge' = (IF Present(e[1]) /\ Present(e[2]) THEN edge \cup {e} ELSE edge)
        /\ UNCHANGED faults
     \/ Fault /\ UNCHANGED edge
  /\ UNCHANGED <<row, learner, basis, told, edits, calls>>

\* A copy is deleted, with the relationships that it has now.
Fold(c) ==
  /\ merge.at = "fold" /\ merge.moves = {} /\ c \in merge.left
  /\ merge' = [merge EXCEPT !.left = @ \ {c}]
  /\ IF Present(c)
     THEN /\ row' = [row EXCEPT ![c] = [Gone EXCEPT !.status = "removed"]]
          /\ edge' = {e \in edge : c \notin {e[1], e[2]}}
     ELSE UNCHANGED <<row, edge>>
  /\ UNCHANGED <<learner, basis, told, faults, edits, calls>>

WriteBack ==
  /\ merge.at = "fold" /\ merge.moves = {} /\ merge.left = {}
  /\ row' = IF Present(merge.to) THEN [row EXCEPT ![merge.to].tag = merge.tag] ELSE row
  /\ merge' = NoMerge
  /\ UNCHANGED <<edge, learner, basis, told, faults, edits, calls>>

\* An error, or the exit of the process.
DedupeStops ==
  /\ merge.at # "idle" /\ Fault
  /\ merge' = NoMerge
  /\ UNCHANGED <<row, edge, learner, basis, told, edits, calls>>

Next ==
  \/ \E m \in Memories, channel \in Channels, layer \in {"episodic", "semantic"}, fact \in Facts :
       (layer = "episodic" <=> fact = "other") /\ Capture(m, channel, layer, fact)
  \/ \E l \in Learners :
       \/ \E fact \in {"brief", "detailed"}, channel \in Channels, S \in SUBSET Memories :
            Learn(l, fact, channel, S)
       \/ CheckConflict(l) \/ Decide(l) \/ ApplyNoop(l) \/ ApplyUpdate(l) \/ Establish(l)
       \/ \E c \in Memories \cup {None} : Link(l, c)
       \/ LinkFails(l) \/ Quarantine(l) \/ Supersede(l) \/ Done(l)
       \/ \E S \in SUBSET Memories : Digest(l, S)
       \/ StoreDigest(l) \/ Exit(l)
  \/ \E m, n \in Memories, channel \in Channels : Revise(m, n, channel)
  \/ \E m \in Memories, fact \in Facts, tier \in {ChannelTier(c) : c \in Channels},
        trusted \in BOOLEAN :
       \E status \in Patched \cup {row[m].status} : Patch(m, status, fact, tier, trusted)
  \/ \E m \in Memories : Trash(m) \/ \E copies \in SUBSET Memories : BeginDedupe(m, copies)
  \/ \E fact \in Facts : Reword(fact)
  \/ ListEdges \/ (\E e \in merge.moves : Retarget(e)) \/ (\E c \in Memories : Fold(c))
  \/ WriteBack \/ DedupeStops

Spec == Init /\ [][Next]_vars
=============================================================================
