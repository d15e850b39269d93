------------------------------- MODULE Neo4jStore -------------------------------
(***************************************************************************)
(* The governed graph of the Neo4j backend: core/neo4j_governance.py,       *)
(* neo4j_storage.py and the operator's backup, restore and migration of     *)
(* neo4j_admin.py.  Any number of processes share the database; a governed  *)
(* write first updates the node StorageLock, so that it runs alone and is   *)
(* one step here, and so does the migration, which holds that lock while it *)
(* writes its backup file.  The repository lock of storage.py is one of a   *)
(* process, so it holds back nobody else.                                   *)
(*                                                                          *)
(* A graph from before evidence was governed has memories without           *)
(* citations; such a store is refused until it is migrated.                 *)
(***************************************************************************)
EXTENDS Naturals, FiniteSets, Functions

CONSTANTS Clients, Memories, Evidence, Repositories, None

\* The evidence a migration makes of memory m is named after m.
EvidenceIds == Evidence \cup Memories

VARIABLES
  version,    \* SchemaVersion.version: "none", "previous" or "current"
  governed,   \* SchemaVersion.evidence_version = 1
  memory,     \* Memory nodes: repository, layer, sources, status, evidence_ids
  evidence,   \* Evidence nodes: the repository of each
  cites,      \* CITES relationships
  client,     \* how far each process has opened the store
  declared,   \* Repository nodes
  purge,      \* the purge under way, and the process that runs it
  admin,      \* "idle", or "saved": a migration between its backup and its commit
  file,       \* the backup file: no graph or one
  used,       \* history: ids given out
  legacy      \* history: the graphs that were migrated, as they were before

graph == <<version, governed, memory, evidence, cites, declared>>
vars == <<graph, client, purge, admin, file, used, legacy>>

Layers == {"episodic", "semantic", "intent"}

MemoryRecord == [repo: Repositories, layer: Layers, sources: SUBSET Memories,
                 trashed: BOOLEAN, ids: SUBSET EvidenceIds]

\* What one database can hold.
IsGraph(g) ==
  /\ g = [version |-> g.version, governed |-> g.governed, memory |-> g.memory,
          evidence |-> g.evidence, cites |-> g.cites, declared |-> g.declared]
  /\ g.version \in {"none", "previous", "current"} /\ g.governed \in BOOLEAN
  /\ \E S \in SUBSET Memories : g.memory \in [S -> MemoryRecord]
  /\ \E S \in SUBSET EvidenceIds : g.evidence \in [S -> Repositories]
  /\ g.cites \subseteq Memories \X EvidenceIds /\ g.declared \subseteq Repositories

\* later is history: memories that other processes stored after the purge had found none left.
Idle == [by |-> None, at |-> "idle", repo |-> None, todo |-> {}, errors |-> FALSE, later |-> {}]

Snapshot == [version |-> version, governed |-> governed, memory |-> memory,
             evidence |-> evidence, cites |-> cites, declared |-> declared]

Empty == [version |-> "none", governed |-> FALSE, memory |-> <<>>, evidence |-> <<>>,
          cites |-> {}, declared |-> {}]

Becomes(g) ==
  /\ version' = g.version /\ governed' = g.governed /\ memory' = g.memory
  /\ evidence' = g.evidence /\ cites' = g.cites /\ declared' = g.declared

CitedBy(m) == {e \in EvidenceIds : <<m, e>> \in cites}

\* _validate_governed_graph: what opening a governed store checks.
Valid ==
  \A m \in DOMAIN memory :
     /\ memory[m].ids = {e \in CitedBy(m) : e \in DOMAIN evidence}
     /\ \A e \in CitedBy(m) \cap DOMAIN evidence : evidence[e] = memory[m].repo
     /\ memory[m].layer # "intent" => memory[m].ids # {}

\* _probe_schema_compatibility, before anything is written.
Compatible ==
  IF version = "none" THEN DOMAIN memory \cup DOMAIN evidence \cup declared = {}
  ELSE IF governed THEN Valid ELSE DOMAIN memory = {}

Init ==
  /\ client = [c \in Clients |-> "closed"]
  /\ evidence = <<>> /\ cites = {} /\ declared = {} /\ governed = FALSE
  /\ \/ version = "none" /\ memory = <<>>
     \/ /\ version \in {"previous", "current"}
        /\ \E S \in SUBSET Memories : \E r \in [S -> Repositories], from \in [S -> SUBSET S] :
              /\ \A m \in S : m \notin from[m]
              /\ memory = [m \in S |-> [repo |-> r[m], layer |-> "semantic",
                                        sources |-> from[m], trashed |-> FALSE, ids |-> {}]]
  /\ purge = Idle /\ admin = "idle" /\ file = {}
  /\ used = DOMAIN memory /\ legacy = {}

------------------------------------------------------------------------------
(* Opening: the steps of __init__, each a session of its own. *)

Probe(c) ==
  /\ client[c] = "closed"
  /\ Compatible
  /\ client' = [client EXCEPT ![c] = CASE version = "none" -> "fresh"
                                       [] version = "previous" -> "older"
                                       [] version = "current" -> "marked"]
  /\ UNCHANGED <<graph, purge, admin, file, used, legacy>>

\* _ensure_schema_version merges a marker and accepts only a current one;
\* _upgrade_v4_session_schema advances one that is still a version old.
Mark(c) ==
  /\ \/ client[c] = "fresh" /\ version \in {"none", "current"}
     \/ client[c] = "older" /\ version = "previous"
  /\ version' = "current"
  /\ client' = [client EXCEPT ![c] = "marked"]
  /\ UNCHANGED <<governed, memory, evidence, cites, declared, purge, admin, file, used, legacy>>

Govern(c) ==
  /\ client[c] = "marked"
  /\ governed' = TRUE
  /\ client' = [client EXCEPT ![c] = "open"]
  /\ UNCHANGED <<version, memory, evidence, cites, declared, purge, admin, file, used, legacy>>

Stop(c) ==
  /\ client[c] # "closed"
  /\ client' = [client EXCEPT ![c] = "closed"]
  /\ purge' = IF purge.by = c THEN Idle ELSE purge
  /\ UNCHANGED <<graph, admin, file, used, legacy>>

------------------------------------------------------------------------------
(* Governed writes: one transaction each, under the StorageLock. *)

Governed(c) == client[c] = "open" /\ admin = "idle"

Resolved(sources, own) == own \cup UNION {memory[s].ids : s \in sources}

\* _resolve_evidence
Citable(r, layer, sources, own, known) ==
  /\ \A s \in sources : s \in DOMAIN memory /\ ~memory[s].trashed /\ memory[s].repo = r
  /\ layer = "semantic" => Resolved(sources, own) # {}
  /\ \A e \in Resolved(sources, own) : e \in DOMAIN known /\ known[e] = r

\* A graph with one more node.
With(nodes, id, node) == [k \in DOMAIN nodes \cup {id} |-> IF k = id THEN node ELSE nodes[k]]

StoreEvidence(c, e, r) ==
  /\ Governed(c)
  /\ e \in Evidence \ used
  /\ evidence' = With(evidence, e, r)
  /\ used' = used \cup {e}
  /\ UNCHANGED <<version, governed, memory, cites, declared, client, purge, admin, file, legacy>>

\* repository_memory_write and repository_registration hold back the process that purges, and
\* no other.  That the purge's own process then has to register before it writes again is left
\* out: the model writes more.
Writable(c, r) == ~(purge.by = c /\ purge.repo = r)

\* Evidence of its own for an episode that brings none, the memory, its citations and the
\* node of its repository.
StoreMemory(c, m, r, layer, sources, own, new) ==
  LET known == IF new = None THEN evidence ELSE With(evidence, new, r)
      brought == IF new = None THEN own ELSE {new} IN
  /\ Governed(c) /\ Writable(c, r)
  /\ m \notin used
  /\ IF layer = "episodic" /\ own = {} THEN new \in Evidence \ used ELSE new = None
  /\ Citable(r, layer, sources, brought, known)
  /\ memory' = With(memory, m, [repo |-> r, layer |-> layer, sources |-> sources,
                                trashed |-> FALSE, ids |-> Resolved(sources, brought)])
  /\ evidence' = known
  /\ cites' = cites \cup ({m} \X Resolved(sources, brought))
  /\ declared' = declared \cup {r}
  /\ used' = used \cup {m} \cup (IF new = None THEN {} ELSE {new})
  /\ purge' = IF purge.at = "record" /\ purge.repo = r /\ purge.by # c
              THEN [purge EXCEPT !.later = @ \cup {m}] ELSE purge
  /\ UNCHANGED <<version, governed, client, admin, file, legacy>>

\* attach_evidence with _link_evidence: the property and the relationships together.
AttachEvidence(c, m, own) ==
  /\ Governed(c)
  /\ m \in DOMAIN memory /\ memory[m].layer = "semantic"
  /\ Citable(memory[m].repo, "semantic", {}, own, evidence)
  /\ memory' = [memory EXCEPT ![m].ids = @ \cup own]
  /\ cites' = cites \cup ({m} \X own)
  /\ UNCHANGED <<version, governed, evidence, declared, client, purge, admin, file, used, legacy>>

\* Of what an update may change, the status decides what can be derived from the memory.
UpdateMemory(c, m) ==
  /\ Governed(c)
  /\ m \in DOMAIN memory
  /\ memory' = [memory EXCEPT ![m].trashed = ~@]
  /\ UNCHANGED <<version, governed, evidence, cites, declared, client, purge, admin, file, used,
                 legacy>>

\* The node, its relationships, and its id among the sources of others.
Gone(m) ==
  /\ memory' = [k \in DOMAIN memory \ {m} |-> [memory[k] EXCEPT !.sources = @ \ {m}]]
  /\ cites' = {l \in cites : l[1] # m}

DeleteMemory(c, m) ==
  /\ Governed(c)
  /\ m \in DOMAIN memory
  /\ Gone(m)
  /\ UNCHANGED <<version, governed, evidence, declared, client, purge, admin, file, used, legacy>>

\* store_repository refuses an id that is there; without a constraint two processes could make
\* two nodes of it, and the second is left out.
Register(c, r) ==
  /\ client[c] = "open" /\ Writable(c, r)
  /\ r \notin declared
  /\ declared' = declared \cup {r}
  /\ UNCHANGED <<version, governed, memory, evidence, cites, client, purge, admin, file, used,
                 legacy>>

------------------------------------------------------------------------------
(* The purge of a repository, _purge_repository_locked, by an open process. *)

\* The memories are listed and then deleted; a listing that fails leaves all deletions out.
BeginPurge(c, r) ==
  /\ client[c] = "open"
  /\ purge = Idle /\ r \in declared
  /\ \/ purge' = [by |-> c, at |-> "delete", repo |-> r, errors |-> FALSE,
                  todo |-> {m \in DOMAIN memory : memory[m].repo = r}, later |-> {}]
     \/ purge' = [by |-> c, at |-> "verify", repo |-> r, errors |-> TRUE, todo |-> {}, later |-> {}]
  /\ UNCHANGED <<graph, client, admin, file, used, legacy>>

PurgeMemory ==
  /\ purge.at = "delete" /\ admin = "idle"
  /\ \E m \in purge.todo :
        \/ /\ m \in DOMAIN memory
           /\ Gone(m)
           /\ purge' = [purge EXCEPT !.todo = @ \ {m}]
        \/ /\ purge' = [purge EXCEPT !.todo = @ \ {m}, !.errors = TRUE]
           /\ UNCHANGED <<memory, cites>>
  /\ UNCHANGED <<version, governed, evidence, declared, client, admin, file, used, legacy>>

\* _purge_repository_children: evidence goes only if no memory of the repository is left.
PurgeChildren ==
  /\ purge.at = "delete" /\ purge.todo = {} /\ admin = "idle"
  /\ \/ /\ IF \E m \in DOMAIN memory : memory[m].repo = purge.repo
           THEN UNCHANGED <<evidence, cites>>
           ELSE LET left == {e \in DOMAIN evidence : evidence[e] # purge.repo} IN
                /\ evidence' = Restrict(evidence, left)
                /\ cites' = {l \in cites : l[2] \in left}
        /\ purge' = [purge EXCEPT !.at = "verify"]
     \/ /\ purge' = [purge EXCEPT !.at = "verify", !.errors = TRUE]
        /\ UNCHANGED <<evidence, cites>>
  /\ UNCHANGED <<version, governed, memory, declared, client, admin, file, used, legacy>>

\* What is left, or failed, keeps the repository.
Verify ==
  /\ purge.at = "verify"
  /\ \/ /\ ~purge.errors
        /\ \A m \in DOMAIN memory : memory[m].repo # purge.repo
        /\ \A e \in DOMAIN evidence : evidence[e] # purge.repo
        /\ purge' = [purge EXCEPT !.at = "record"]
     \/ purge' = Idle
  /\ UNCHANGED <<graph, client, admin, file, used, legacy>>

\* The record goes in a session of its own; it may fail.
DeleteRepository ==
  /\ purge.at = "record"
  /\ declared' \in {declared, declared \ {purge.repo}}
  /\ purge' = Idle
  /\ UNCHANGED <<version, governed, memory, evidence, cites, client, admin, file, used, legacy>>

------------------------------------------------------------------------------
(* The operator's commands, neo4j_admin.py. *)

\* backup_graph, into a file that must not exist.
Backup ==
  /\ admin = "idle" /\ file = {}
  /\ file' = {Snapshot}
  /\ UNCHANGED <<graph, client, purge, admin, used, legacy>>

\* Mutant: the migration works first and saves what it made.
BeginMigrationUnsaved ==
  /\ admin = "idle"
  /\ version # "none" /\ ~governed
  /\ admin' = "saved"
  /\ UNCHANGED <<graph, client, purge, used, legacy, file>>

\* migrate_graph refuses what is already governed, then saves, then works on what it has locked.
BeginMigration ==
  /\ admin = "idle" /\ file = {}
  /\ version # "none" /\ ~governed
  /\ file' = {Snapshot}
  /\ admin' = "saved"
  /\ UNCHANGED <<graph, client, purge, used, legacy>>

Traceable ==
  \A m \in DOMAIN memory : \A s \in memory[m].sources :
     s \in DOMAIN memory /\ memory[s].repo = memory[m].repo

\* Every memory gets evidence of its own bytes; the marker moves in the same transaction.
Migrate ==
  /\ admin = "saved"
  /\ Traceable
  /\ evidence' = [e \in DOMAIN memory \cup DOMAIN evidence |->
                  IF e \in DOMAIN memory THEN memory[e].repo ELSE evidence[e]]
  /\ cites' = cites \cup {<<m, m>> : m \in DOMAIN memory}
  /\ memory' = [m \in DOMAIN memory |-> [memory[m] EXCEPT !.ids = {m}]]
  /\ declared' = declared \cup {memory[m].repo : m \in DOMAIN memory}
  /\ version' = "current" /\ governed' = TRUE
  /\ admin' = "idle"
  /\ legacy' = legacy \cup {Snapshot}
  /\ UNCHANGED <<client, purge, file, used>>

\* A dangling lineage, an error or a crash: the transaction is gone, the file stays.
AbandonMigration ==
  /\ admin = "saved"
  /\ admin' = "idle"
  /\ UNCHANGED <<graph, client, purge, file, used, legacy>>

\* The operator replaces the database by an empty one, with every process stopped.
Reset ==
  /\ admin = "idle" /\ purge = Idle /\ \A c \in Clients : client[c] = "closed"
  /\ Becomes(Empty)
  /\ UNCHANGED <<client, purge, admin, file, used, legacy>>

\* Into an empty database, with the application stopped as docs/guides/STORAGE.md asks.
Restore ==
  /\ admin = "idle" /\ purge = Idle
  /\ \A c \in Clients : client[c] = "closed"
  /\ Snapshot = Empty
  /\ \E g \in file : Becomes(g)
  /\ UNCHANGED <<client, purge, admin, file, used, legacy>>

Opening == \E c \in Clients : Probe(c) \/ Mark(c) \/ Govern(c) \/ Stop(c)

Write ==
  \E c \in Clients :
     \/ \E r \in Repositories : Register(c, r)
     \/ \E e \in Evidence, r \in Repositories : StoreEvidence(c, e, r)
     \/ \E m \in Memories \ used, r \in Repositories, layer \in Layers,
           sources \in SUBSET DOMAIN memory, own \in SUBSET DOMAIN evidence,
           new \in (Evidence \ used) \cup {None} :
           StoreMemory(c, m, r, layer, sources, own, new)
     \/ \E m \in DOMAIN memory, own \in SUBSET DOMAIN evidence : AttachEvidence(c, m, own)
     \/ \E m \in Memories : UpdateMemory(c, m) \/ DeleteMemory(c, m)

PurgeStep ==
  \/ \E c \in Clients, r \in Repositories : BeginPurge(c, r)
  \/ PurgeMemory \/ PurgeChildren \/ Verify \/ DeleteRepository

Operator == Backup \/ BeginMigration \/ Migrate \/ AbandonMigration \/ Reset \/ Restore

Next == Opening \/ Write \/ PurgeStep \/ Operator

Spec == Init /\ [][Next]_vars

------------------------------------------------------------------------------
TypeOK ==
  /\ IsGraph(Snapshot) /\ \A g \in file : IsGraph(g)
  /\ client \in [Clients -> {"closed", "fresh", "older", "marked", "open"}]
  /\ purge \in [by: Clients \cup {None}, at: {"idle", "delete", "verify", "record"},
                repo: Repositories \cup {None}, todo: SUBSET Memories, errors: BOOLEAN,
                later: SUBSET Memories]
  /\ admin \in {"idle", "saved"}
  /\ used \subseteq Memories \cup Evidence
=============================================================================
