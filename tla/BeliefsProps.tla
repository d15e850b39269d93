---------------------------- MODULE BeliefsProps ----------------------------
(* What derivation, revision and purging promise about each other. *)
EXTENDS Beliefs

Removed(b) == Stored(b) /\ row'[b].status = "gone"
Purged(b) == Removed(b) /\ req.now = b /\ req'.now = NoBelief

\* "Revoke derivatives before removing what they were derived from": a row
\* goes only when every belief that was active when the purge began and
\* cites it is no longer asserted.
RevokedFirst ==
  [][\A b \in Beliefs : Purged(b) =>
       \A c \in req.known : Asserted(c) => b \notin row[c].cites]_beliefVars

\* A revision is three commits (the successor, its relationship, the status
\* of the predecessor), with requests and other revisions of the same belief
\* in between.  However it ends, its successor does not stay beside a
\* predecessor that is served, unless the process ends or a second call
\* fails.  This is of the step that ends it: PATCH writes any status over
\* any other, so a later one may serve both versions again.
RevisionSettles ==
  [][\A w \in Workers :
       job[w].old # NoBelief /\ job'[w] = NoJob /\ crashed' = crashed /\ faults' <= 1 =>
         row'[job[w].new].status \in Absent \/ row'[job[w].old].status \notin Servable]_beliefVars
=============================================================================
