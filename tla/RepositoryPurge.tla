--------------------------- MODULE RepositoryPurge ---------------------------
(***************************************************************************)
(* Purging one repository of the SQLite store while tool threads write to  *)
(* it (core/storage.py and the purge route).                               *)
(*                                                                         *)
(* A purge and each store_memory hold the repository's lock.  A successful *)
(* purge leaves a tombstone in the process, which refuses store_memory     *)
(* until somebody registers the repository again.  Deletions, intents,     *)
(* evidence, sessions, dependencies and imports take no lock.              *)
(*                                                                         *)
(* Purge requests run one at a time on the event loop, writes on threads.  *)
(* Each step is one commit, one read, or one change of the lock.           *)
(*                                                                         *)
(* Not here: relationships and recall events (foreign keys: they go with   *)
(* their memories), pages of the listing, vectors and turn keys (a failing *)
(* index is a fault of a deletion, see Beliefs), archiving.                *)
(***************************************************************************)
EXTENDS Naturals, Sequences

\* Records of a repository other than memories; a dependency of the
\* repository on others is outgoing, of others on it incoming.
Kinds == {"intent", "evidence", "session", "outgoing", "incoming"}

\* The residuals looked up before the repository's row is deleted, in order.
Checks == <<"memory", "intent", "outgoing", "evidence">>

CONSTANTS
  Ids,      \* memory ids
  NoWrite,  \* no write is under way
  Stored    \* what a write holds once its row is committed

ASSUME PurgeAssumption ==
  /\ NoWrite \notin Ids /\ Stored \notin Ids /\ NoWrite # Stored
  /\ Ids \cap Kinds = {}

VARIABLES
  repo,       \* the row of table repositories
  rows,       \* ids in table memories
  children,   \* kinds that the repository has records of
  tombstone,  \* the repository is in _purged_repository_ids
  lock,       \* who holds the repository's lock
  write,      \* the id that the write under way is about to insert, or Stored
  purge       \* the purge request: its place and local variables

purgeVars == <<repo, rows, children, tombstone, lock, write, purge>>

\* kept is a history variable: what the purge has found and nobody deleted.
Idle == [at |-> "idle", todo |-> {}, next |-> 1, bad |-> FALSE, kept |-> {}]

\* The places where a purge holds the lock.
Purging == {"list", "delete", "verify", "check"}

PurgeInit ==
  /\ repo \in {"none", "implicit", "declared"}
  /\ rows \in SUBSET Ids
  /\ children \in SUBSET Kinds
  /\ rows # {} \/ children \cap {"intent", "outgoing", "incoming"} # {} => repo # "none"
  /\ tombstone = FALSE
  /\ lock = "free"
  /\ write = NoWrite
  /\ purge = Idle

-----------------------------------------------------------------------------
(* Writes *)

\* _register_repository: a placeholder, unless there is a row.
Registered == IF repo = "none" THEN "implicit" ELSE repo

\* Mutant: the tombstone is looked up before the lock is taken.
BeginWriteUnlocked(m) ==
  /\ write = NoWrite
  /\ ~ tombstone
  /\ m \notin rows
  /\ lock' = "write"
  /\ write' = m
  /\ UNCHANGED <<repo, rows, children, tombstone, purge>>

\* A write after a purge is refused: it only takes and releases the lock.
BeginWrite(m) ==
  /\ lock = "free"
  /\ ~ tombstone
  /\ m \notin rows
  /\ lock' = "write"
  /\ write' = m
  /\ UNCHANGED <<repo, rows, children, tombstone, purge>>

\* The row, evidence made for it and the repository's placeholder, in one commit.
Insert ==
  /\ write \in Ids
  /\ rows' = rows \cup {write}
  /\ children' \in {children, children \cup {"evidence"}}
  /\ repo' = Registered
  /\ write' = Stored
  /\ UNCHANGED <<tombstone, lock, purge>>

\* The vector and the links are written, or an exception ends the write early.
EndWrite ==
  /\ write # NoWrite
  /\ lock' = "free"
  /\ write' = NoWrite
  /\ UNCHANGED <<repo, rows, children, tombstone, purge>>

\* store_repository, under the lock; it takes over a placeholder and refuses
\* a declared repository.
Register ==
  /\ lock = "free"
  /\ repo # "declared"
  /\ repo' = "declared"
  /\ tombstone' = FALSE
  /\ UNCHANGED <<rows, children, lock, write, purge>>

\* set_intent registers a placeholder; store_evidence and start_session do
\* not; a dependency needs both repositories (a foreign key).
AddChild(k) ==
  /\ k \in {"outgoing", "incoming"} => repo # "none"
  /\ children' = children \cup {k}
  /\ repo' = IF k = "intent" THEN Registered ELSE repo
  /\ UNCHANGED <<rows, tombstone, lock, write, purge>>

\* import_graph: memories, evidence and intents in one commit, no registration.
Import(s, k) ==
  /\ rows' = rows \cup s
  /\ children' = children \cup k
  /\ UNCHANGED <<repo, tombstone, lock, write, purge>>

\* delete_memory, called by anybody.
Delete(m) ==
  /\ m \in rows
  /\ rows' = rows \ {m}
  /\ purge' = [purge EXCEPT !.kept = @ \ {m}]
  /\ UNCHANGED <<repo, children, tombstone, lock, write>>

-----------------------------------------------------------------------------
(* The purge request *)

\* The route finds the repository and backs it up before it waits for the lock.
Find ==
  /\ purge.at = "idle"
  /\ repo # "none"
  /\ purge' = [Idle EXCEPT !.at = "found"]
  /\ UNCHANGED <<repo, rows, children, tombstone, lock, write>>

BeginPurge ==
  /\ purge.at = "found"
  /\ lock = "free"
  /\ lock' = "purge"
  /\ purge' = [purge EXCEPT !.at = "list", !.kept = rows \cup children]
  /\ UNCHANGED <<repo, rows, children, tombstone, write>>

\* If the listing fails, nothing is deleted.
List ==
  /\ purge.at = "list"
  /\ \/ purge' = [purge EXCEPT !.at = "delete", !.todo = rows]
     \/ purge' = [purge EXCEPT !.at = "verify", !.bad = TRUE]
  /\ UNCHANGED <<repo, rows, children, tombstone, lock, write>>

\* A row that cannot be deleted, or that somebody else has deleted, is a failure.
DeleteListed(m) ==
  /\ purge.at = "delete"
  /\ m \in purge.todo
  /\ \/ /\ m \in rows
        /\ rows' = rows \ {m}
        /\ purge' = [purge EXCEPT !.todo = @ \ {m}, !.kept = @ \ {m}]
     \/ /\ rows' = rows
        /\ purge' = [purge EXCEPT !.todo = @ \ {m}, !.bad = TRUE]
  /\ UNCHANGED <<repo, children, tombstone, lock, write>>

\* Mutant: a failure goes unreported.
DeleteChildrenHopefully ==
  /\ purge.at = "delete"
  /\ purge.todo = {}
  /\ \/ /\ children' = {}
        /\ purge' = [purge EXCEPT !.at = "verify", !.kept = @ \ Kinds]
     \/ /\ children' = children
        /\ purge' = [purge EXCEPT !.at = "verify"]
  /\ UNCHANGED <<repo, rows, tombstone, lock, write>>

\* One transaction for all kinds; it fails as a whole, as it does when a
\* memory left behind cites a piece of evidence.
DeleteChildren ==
  /\ purge.at = "delete"
  /\ purge.todo = {}
  /\ \/ /\ children' = {}
        /\ purge' = [purge EXCEPT !.at = "verify", !.kept = @ \ Kinds]
     \/ /\ children' = children
        /\ purge' = [purge EXCEPT !.at = "verify", !.bad = TRUE]
  /\ UNCHANGED <<repo, rows, tombstone, lock, write>>

Residual(k) == IF k = "memory" THEN rows # {} ELSE k \in children

Verified == purge.at = "verify" /\ purge.next > Len(Checks)

\* What is left is looked up kind by kind; a failing read is an error too.
Verify ==
  /\ purge.at = "verify"
  /\ purge.next <= Len(Checks)
  /\ \E b \in BOOLEAN :
       /\ Residual(Checks[purge.next]) => b
       /\ purge' = [purge EXCEPT !.next = @ + 1, !.bad = @ \/ b]
  /\ UNCHANGED <<repo, rows, children, tombstone, lock, write>>

\* The repository's row goes if nothing failed and nothing is left, unless a
\* dependency refers to it.
DeleteRepository ==
  /\ Verified
  /\ ~ purge.bad
  /\ \/ /\ {"outgoing", "incoming"} \cap children = {}
        /\ repo' = "none"
        /\ purge' = [purge EXCEPT !.at = "check"]
     \/ /\ repo' = repo
        /\ purge' = [purge EXCEPT !.at = "check", !.bad = TRUE]
  /\ UNCHANGED <<rows, children, tombstone, lock, write>>

\* The report says "purged"; a repository that is there again is a residual.
Purged == ~ purge.bad /\ repo = "none"

\* The lock is released with a tombstone if the purge has succeeded.
EndPurge ==
  /\ purge.at = "check" \/ (Verified /\ purge.bad)
  /\ tombstone' = (tombstone \/ Purged)
  /\ lock' = "free"
  /\ purge' = Idle
  /\ UNCHANGED <<repo, rows, children, write>>

\* The process stops and starts: locks and tombstones are gone, and opening
\* the store registers every repository that has memories or intents.
Restart ==
  /\ repo' = IF rows # {} \/ "intent" \in children THEN Registered ELSE repo
  /\ tombstone' = FALSE
  /\ lock' = "free"
  /\ write' = NoWrite
  /\ purge' = Idle
  /\ UNCHANGED <<rows, children>>

PurgeNext ==
  \/ \E m \in Ids : BeginWrite(m) \/ Delete(m) \/ DeleteListed(m)
  \/ Insert
  \/ EndWrite
  \/ Register
  \/ \E k \in Kinds : AddChild(k)
  \/ \E s \in SUBSET Ids, k \in SUBSET {"intent", "evidence"} : Import(s, k)
  \/ Find
  \/ BeginPurge
  \/ List
  \/ DeleteChildren
  \/ Verify
  \/ DeleteRepository
  \/ EndPurge
  \/ Restart

PurgeSpec == PurgeInit /\ [][PurgeNext]_purgeVars
=============================================================================
