------------------------ MODULE RepositoryPurgeProps ------------------------
(* What a repository purge promises to its caller and to later writers. *)
EXTENDS RepositoryPurge

Requests ==
  [at : {"idle", "found"} \cup Purging, todo : SUBSET Ids,
   next : 1..(Len(Checks) + 1), bad : BOOLEAN, kept : SUBSET (Ids \cup Kinds)]

\* Shapes, and the lock is held exactly while the write or the purge that took
\* it is under way.
PurgeTypeOK ==
  /\ repo \in {"none", "implicit", "declared"}
  /\ rows \in SUBSET Ids
  /\ children \in SUBSET Kinds
  /\ tombstone \in BOOLEAN
  /\ lock \in {"free", "write", "purge"}
  /\ write \in Ids \cup {NoWrite, Stored}
  /\ purge \in Requests
  /\ lock = "write" <=> write # NoWrite
  /\ lock = "purge" <=> purge.at \in Purging

\* While a memory is being stored no purge is under way and none has succeeded
\* since the repository was registered: a write that waited for the lock sees
\* the outcome of the purge.
WritesExcluded == write # NoWrite => purge.at \notin Purging /\ ~ tombstone

\* The companion of WritesExcluded in its proof: whoever registers the
\* repository again after a purge gets rid of the tombstone.
DeclaredIsOpen == repo = "declared" => ~ tombstone

\* The inductive invariant behind TruthfulReport: what the purge found is there
\* until somebody deletes it; the repository is there until the purge deletes
\* it; and a purge without a failure has deleted the other records, and once
\* it has looked for memories, all of those it found.
Progress ==
  /\ purge.kept \cap Ids \subseteq rows
  /\ purge.at \notin {"idle", "check"} => repo # "none"
  /\ purge.at \notin {"verify", "check"} => purge.next = 1
  /\ purge.at \in {"verify", "check"} /\ ~ purge.bad => purge.kept \cap Kinds = {}
  /\ purge.at = "verify" /\ purge.next > 1 /\ ~ purge.bad => purge.kept \cap Ids = {}
  /\ purge.at = "check" /\ ~ purge.bad => purge.kept \cap Ids = {}
  /\ purge.at = "check" /\ purge.bad => repo # "none"

\* The report is truthful about what was there: after "purged", no memory and
\* no other record that the purge found remains, whatever failed; after
\* "incomplete", the repository is still there for another attempt.
TruthfulReport ==
  [][EndPurge => IF Purged THEN purge.kept = {} ELSE repo # "none"]_purgeVars
=============================================================================
