--------------------------- MODULE LearningProps ---------------------------
(***************************************************************************)
(* What Learning promises about tiers of trust and about contradictions.    *)
(***************************************************************************)
EXTENDS Learning

\* No chain of learning, compressing, reconciling, revising, patching and deduplicating gives
\* a belief a tier that is trusted more than everything its text came from: "A derived fact
\* cannot receive a stronger provenance tier than its source episodes"
\* (docs/reference/TRUST.md:157).  An episode's words are taken to be of the tier that it has
\* when it is read, whoever edited them; a tier that an administrator or the owner sets is
\* theirs to answer for; and so is the tier under which a reconciliation puts its words when
\* the row has been given another tier since it was compared.
NoLaundering ==
  \A m \in Memories : Present(m) /\ row[m].layer = "semantic" =>
    Trust(row[m].tag) <= Trust(basis[m])

\* A call of learn that found its fact to contradict something and returned has left the
\* contradiction where it can be found: an edge from what it returned to each row that it
\* names, unless one end is gone (core/memory.py:421, a near-duplicate that disagrees must not
\* be merged silently, nor an edge that failed be passed over).  A detector that answers
\* "conflict" and names no row leaves nothing to record.
ContradictionKept ==
  \A p \in told : Present(p[1]) /\ Present(p[2]) => p \in edge

\* Two facts that contradict each other, learned at the same time, do not retire each other:
\* what replaced a superseded row was not itself retired, however far back, for that row.
OneSideStands ==
  \A S \in (SUBSET Memories) \ {{}} :
    \E m \in S : ~(row[m].status = "superseded" /\ row[m].by \in S)
=============================================================================
