---------------------------- MODULE StorageBackends ----------------------------
(***************************************************************************)
(* The stores that a deployment can be configured with (storage.backend):   *)
(* a SQLite file, a Neo4j database or an ArcadeDB directory.  A deployment  *)
(* uses one of them; the others stay as they were found.                    *)
(***************************************************************************)
EXTENDS Naturals, FiniteSets

CONSTANTS
  Procs, Memories, Nonces, Repositories, Copies, MaxCreated, Blank, Unscoped, Absent,
  Evidence,       \* of an ArcadeDB store
  FewEvidence     \* of the others

VARIABLES
  backend,
  file, copy, proc, original, created,
  marker, opened, memory, evidence, cites, attested, authority, declared, purged, sweep, used,
  spoiled, stranded,
  nVersion, nGoverned, nMemory, nEvidence, nCites, nClient, nDeclared, nPurge, nAdmin, nFile,
  nUsed, nLegacy

sqlite == <<file, copy, proc, original, created>>
arcade == <<marker, opened, memory, evidence, cites, attested, authority, declared, purged, sweep,
            used, spoiled, stranded>>
neo4j == <<nVersion, nGoverned, nMemory, nEvidence, nCites, nClient, nDeclared, nPurge, nAdmin,
           nFile, nUsed, nLegacy>>
storesVars == <<backend, sqlite, arcade, neo4j>>

Sql == INSTANCE SqliteStore WITH
         Repositories <- {Unscoped}, Evidence <- FewEvidence, None <- Absent

Arc == INSTANCE ArcadeStore WITH
         None <- Absent, purge <- sweep

Neo == INSTANCE Neo4jStore WITH
         Clients <- Procs, Evidence <- FewEvidence, None <- Absent, version <- nVersion,
         governed <- nGoverned, memory <- nMemory, evidence <- nEvidence, cites <- nCites,
         client <- nClient, declared <- nDeclared, purge <- nPurge, admin <- nAdmin,
         file <- nFile, used <- nUsed, legacy <- nLegacy

ASSUME StoresAssumption ==
  /\ Blank # Unscoped /\ MaxCreated \in Nat
  /\ Absent \notin Procs \cup Copies \cup Memories \cup Nonces \cup Repositories \cup Evidence
                   \cup FewEvidence

StoresInit ==
  /\ backend \in {"sqlite", "neo4j", "arcadedb"}
  /\ Sql!Init
  /\ backend # "sqlite" => file = Sql!Nothing
  /\ Arc!Init
  /\ backend # "arcadedb" => marker = "none"
  /\ Neo!Init
  /\ backend # "neo4j" => nVersion = "none"

Sqlite == backend = "sqlite" /\ Sql!Next /\ UNCHANGED <<backend, arcade, neo4j>>
Neo4j == backend = "neo4j" /\ Neo!Next /\ UNCHANGED <<backend, sqlite, arcade>>
ArcadeDB == backend = "arcadedb" /\ Arc!Next /\ UNCHANGED <<backend, sqlite, neo4j>>

StoresNext == Sqlite \/ Neo4j \/ ArcadeDB

StoresSpec == StoresInit /\ [][StoresNext]_storesVars

------------------------------------------------------------------------------
\* A new file of which a process has made tables and not yet written the version, or was
\* killed before: it holds no row.
Unfinished ==
  /\ file.version = Sql!Unversioned /\ original.tables = "none"
  /\ DOMAIN file.memory = {} /\ DOMAIN file.evidence = {} /\ file.links = {}

SqliteReopens == Sql!Openable \/ file = original \/ Unfinished

Neo4jReopens == nGoverned => Neo!Valid

\* What ArcadeDB's operations can leave that its next opening refuses: beliefs without
\* evidence, and attestations whose belief is gone.
Uncited == {m \in DOMAIN memory : memory[m].layer = "semantic" /\ Arc!CitedBy(m) = {}}
Orphaned == {attested[n] : n \in DOMAIN attested} \ DOMAIN memory

\* Everything else that opening checks holds, so that without these two it accepts.  A belief
\* is without evidence only if a purge could not delete it and deleted its evidence all the
\* same; an attestation is without its belief only if delete_memory, or a purge that did not
\* succeed, deleted the belief, or while the purge that did is still at work.
ArcadeReopens ==
  /\ Arc!LinksSound /\ Arc!KindsMatch /\ Arc!AuthoritySound /\ Arc!AuthorityComplete
  /\ Uncited \subseteq spoiled
  /\ Orphaned \subseteq stranded \cup sweep.gone

\* Every backend reads its whole graph when it opens and refuses one that is not sound
\* (_validate_v5_schema, _validate_governed_graph, _validate_current_v4_graph).  No sequence of
\* writes, purges that fail half-way, crashes, migrations and restores makes a store be refused
\* but for three leftovers: a SQLite file whose creation was cut short, an ArcadeDB belief that
\* lost its evidence to a purge that failed to delete it, and the ArcadeDB attestation of a
\* deleted prohibition.  A store of an older build waits for its migration as it was found.
RefusedForLeftoversOnly == SqliteReopens /\ Neo4jReopens /\ ArcadeReopens

SqliteKept ==
  original.tables = "all" /\ original.version # Sql!Current =>
     file = original \/ \E d \in DOMAIN copy : copy[d] = original

Neo4jKept == \A g \in nLegacy : \E f \in nFile : f.memory = g.memory

\* An older build's SQLite file is left as it was found until it is migrated, and then a
\* backup holds it; a Neo4j graph is migrated only after its memories were saved.
OldStoresKept == SqliteKept /\ Neo4jKept

\* The purge that deletes its repository's record in this step, in ArcadeDB and in Neo4j.
ArcadePurges ==
  sweep.repo \in declared \ declared' =>
     /\ \A m \in DOMAIN memory' : memory'[m].repo # sweep.repo
     /\ \A n \in DOMAIN attested' : attested'[n] \notin sweep.gone

Neo4jPurges ==
  nPurge.repo \in nDeclared \ nDeclared' =>
     \A m \in DOMAIN nMemory' : nMemory'[m].repo = nPurge.repo => m \in nPurge.later

\* When a purge deletes the record of its repository, no memory of the repository is left,
\* though it deletes one thing at a time and other writes go on; ArcadeDB also has no
\* attestation left of a belief that the purge deleted.  One ArcadeDB process holds its writers
\* back by a lock.  The lock does not reach the other processes of a Neo4j database, and what
\* one of them stores after the purge has verified that nothing is left does stay
\* (_purge_repository_locked, _purge_repository_children, _delete_repository_record).  The
\* purge of a SQLite store is RepositoryPurge.
PurgeLeavesNothing == [][ArcadePurges /\ Neo4jPurges]_storesVars

\* The rows and graphs keep their shape.
StoresTypeOK == Sql!TypeOK /\ Arc!TypeOK /\ Neo!TypeOK
=============================================================================
