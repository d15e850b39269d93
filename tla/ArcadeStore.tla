------------------------------ MODULE ArcadeStore ------------------------------
(***************************************************************************)
(* The governed graph of the ArcadeDB backend, core/arcadedb_storage.py:    *)
(* memories, the evidence they cite, the attestations that authorise        *)
(* prohibitions, and the purge of a repository.  One `db.transaction()` is  *)
(* one step.  When a store is opened, _probe_schema_compatibility reads the *)
(* whole graph and refuses one that is not as the operations promise to     *)
(* leave it: Accepts is that reading.                                       *)
(*                                                                          *)
(* Deleting a vertex deletes its edges, as the database does.               *)
(***************************************************************************)
EXTENDS Naturals, FiniteSets, Functions

CONSTANTS Memories, Evidence, Nonces, Repositories, None

VARIABLES
  marker,     \* the version marker: "none", "previous" or "current"
  opened,     \* whether a process has the store open
  memory,     \* the Memory vertices, by id
  evidence,   \* the Evidence vertices: the repository of each
  cites,      \* BeliefEvidence edges <<memory, evidence>>
  attested,   \* AuthorityAttestation vertices: the belief of each nonce
  authority,  \* BeliefAuthority edges <<memory, nonce>>
  declared,   \* the repositories that have a record
  purged,     \* tombstones of this process: _purged_repository_ids
  purge,      \* the purge under way
  used,       \* history: every id that was ever given out
  spoiled,    \* history: memories that a purge could not delete
  stranded    \* history: deleted beliefs whose attestation nothing deletes any more

graph == <<memory, evidence, cites, attested, authority>>
vars == <<marker, opened, graph, declared, purged, purge, used, spoiled, stranded>>

Layers == {"episodic", "semantic", "intent"}
Kinds == {"none", "fact", "prohibition"}

MemoryRecord == [repo: Repositories, layer: Layers, kind: Kinds,
                 sources: SUBSET Memories, trashed: BOOLEAN]

Idle == [at |-> "idle", repo |-> None, todo |-> {}, gone |-> {}, errors |-> FALSE]

Steps == {"idle", "list", "delete", "evidence", "links", "attestations", "verify", "record"}

------------------------------------------------------------------------------
(* What opening a store checks. *)

LinksSound ==
  \A l \in cites : /\ l[1] \in DOMAIN memory
                   /\ l[2] \in DOMAIN evidence
                   /\ memory[l[1]].repo = evidence[l[2]]

BeliefsCited ==
  \A m \in DOMAIN memory : memory[m].layer = "semantic" => \E e \in Evidence : <<m, e>> \in cites

KindsMatch ==
  \A m \in DOMAIN memory : (memory[m].layer = "semantic") <=> (memory[m].kind # "none")

AttestationsSound == \A n \in DOMAIN attested : attested[n] \in DOMAIN memory

AuthoritySound ==
  \A l \in authority : /\ l[1] \in DOMAIN memory
                       /\ l[2] \in DOMAIN attested
                       /\ attested[l[2]] = l[1]

AuthorityComplete ==
  \A m \in DOMAIN memory :
     Cardinality({l \in authority : l[1] = m}) = IF memory[m].kind = "prohibition" THEN 1 ELSE 0

Accepts ==
  /\ LinksSound
  /\ BeliefsCited
  /\ KindsMatch
  /\ AttestationsSound
  /\ AuthoritySound
  /\ AuthorityComplete

\* An unversioned store must be empty, a versioned one is read through.
Compatible ==
  IF marker = "none" THEN DOMAIN memory \cup DOMAIN evidence = {} ELSE Accepts

Init ==
  /\ marker \in {"none", "previous"}
  /\ opened = FALSE
  /\ memory = <<>> /\ evidence = <<>> /\ attested = <<>>
  /\ cites = {} /\ authority = {}
  /\ declared = {} /\ purged = {} /\ purge = Idle
  /\ used = {} /\ spoiled = {} /\ stranded = {}

Open ==
  /\ ~opened
  /\ Compatible
  /\ opened' = TRUE
  /\ marker' = "current"
  /\ UNCHANGED <<graph, declared, purged, purge, used, spoiled, stranded>>

\* Of the memories gone, those whose attestation is left behind.
Strand(gone) ==
  stranded' = stranded \cup {attested[n] : n \in {k \in DOMAIN attested : attested[k] \in gone}}

\* The process ends, perhaps in the middle of a purge; tombstones are its own.
Close ==
  /\ opened
  /\ opened' = FALSE
  /\ purged' = {} /\ purge' = Idle
  /\ Strand(purge.gone)
  /\ UNCHANGED <<marker, graph, declared, used, spoiled>>

------------------------------------------------------------------------------
(* Writes. *)

\* repository_memory_write: not while the repository is being purged, nor after.
Writable(r) == opened /\ purge.repo # r /\ r \notin purged

Register(r) ==
  /\ opened /\ purge.repo # r
  /\ r \notin declared
  /\ declared' = declared \cup {r}
  /\ purged' = purged \ {r}
  /\ UNCHANGED <<marker, opened, graph, purge, used, spoiled, stranded>>

\* A graph with one more vertex.
With(vertices, id, vertex) ==
  [k \in DOMAIN vertices \cup {id} |-> IF k = id THEN vertex ELSE vertices[k]]

StoreEvidence(e, r) ==
  /\ opened
  /\ e \notin used
  /\ evidence' = With(evidence, e, r)
  /\ used' = used \cup {e}
  /\ UNCHANGED <<marker, opened, memory, cites, attested, authority, declared, purged, purge,
                 spoiled, stranded>>

CitedBy(m) == {e \in Evidence : <<m, e>> \in cites}

\* _validate_belief_references: the evidence a memory is to cite, its own and its sources'.
Resolved(sources, own) == own \cup UNION {CitedBy(s) : s \in sources}

Citable(r, layer, sources, own, known) ==
  /\ \A s \in sources : s \in DOMAIN memory /\ ~memory[s].trashed /\ memory[s].repo = r
  /\ layer = "semantic" => Resolved(sources, own) # {}
  /\ \A e \in Resolved(sources, own) : e \in DOMAIN known /\ known[e] = r

\* An episode brings its own evidence when it is given none.
Captured(layer, own, e) == layer = "episodic" /\ own = {} /\ e \notin used

\* One transaction: captured evidence, validation, the memory, its citations, and for a
\* prohibition the attestation.  A nonce that is there already stores nothing: an identical
\* request returns the belief it made, any other is refused.
StoreMemory(m, r, layer, kind, sources, own, new, nonce) ==
  LET known == IF new = None THEN evidence ELSE With(evidence, new, r)
      brought == IF new = None THEN own ELSE {new} IN
  /\ Writable(r)
  /\ m \notin used
  /\ (kind # "none") <=> (layer = "semantic")
  /\ IF layer = "episodic" /\ own = {} THEN Captured(layer, own, new) ELSE new = None
  /\ Citable(r, layer, sources, brought, known)
  /\ IF kind = "prohibition" THEN nonce \in Nonces \ DOMAIN attested ELSE nonce = None
  /\ memory' = With(memory, m, [repo |-> r, layer |-> layer, kind |-> kind,
                                sources |-> sources, trashed |-> FALSE])
  /\ evidence' = known
  /\ cites' = cites \cup ({m} \X Resolved(sources, brought))
  /\ attested' = IF nonce = None THEN attested ELSE With(attested, nonce, m)
  /\ authority' = IF nonce = None THEN authority ELSE authority \cup {<<m, nonce>>}
  /\ used' = used \cup {m} \cup (IF new = None THEN {} ELSE {new})
  /\ UNCHANGED <<marker, opened, declared, purged, purge, spoiled, stranded>>

AttachEvidence(m, own) ==
  /\ opened
  /\ m \in DOMAIN memory /\ memory[m].layer = "semantic"
  /\ Citable(memory[m].repo, "semantic", {}, own, evidence)
  /\ cites' = cites \cup ({m} \X own)
  /\ UNCHANGED <<marker, opened, memory, evidence, attested, authority, declared, purged, purge,
                 used, spoiled, stranded>>

\* Of what an update may change only the status matters here: it never changes a layer, a
\* repository or a citation, so a row that goes between its check and its UPDATE is no concern.
UpdateMemory(m) ==
  /\ opened
  /\ m \in DOMAIN memory
  /\ memory' = [memory EXCEPT ![m].trashed = ~@]
  /\ UNCHANGED <<marker, opened, evidence, cites, attested, authority, declared, purged, purge,
                 used, spoiled, stranded>>

\* Mutant: the record is deleted from its bucket and its citations are left behind.
WithoutEdges(gone) ==
  /\ memory' = Restrict(memory, DOMAIN memory \ gone)
  /\ authority' = {l \in authority : l[1] \notin gone}
  /\ UNCHANGED <<evidence, attested, cites>>

\* The vertices go with their edges; an attestation is a vertex of its own and stays, so that
\* a store from which a prohibition was deleted is refused at its next opening.
Without(gone) ==
  /\ memory' = Restrict(memory, DOMAIN memory \ gone)
  /\ cites' = {l \in cites : l[1] \notin gone}
  /\ authority' = {l \in authority : l[1] \notin gone}
  /\ UNCHANGED <<evidence, attested>>

DeleteMemory(m) ==
  /\ opened
  /\ m \in DOMAIN memory
  /\ Without({m})
  /\ Strand({m})
  /\ UNCHANGED <<marker, opened, declared, purged, purge, used, spoiled>>

------------------------------------------------------------------------------
(* _purge_repository_locked with this backend's _purge_repository_children. *)

Move(step) == purge' = [purge EXCEPT !.at = step]
Err(step) == purge' = [purge EXCEPT !.at = step, !.errors = TRUE]

BeginPurge(r) ==
  /\ opened /\ purge = Idle
  /\ r \in declared
  /\ purge' = [Idle EXCEPT !.at = "list", !.repo = r]
  /\ UNCHANGED <<marker, opened, graph, declared, purged, used, spoiled, stranded>>

\* A listing that fails leaves every deletion out.
ListMemories ==
  /\ purge.at = "list"
  /\ \/ purge' = [purge EXCEPT !.at = "delete",
                               !.todo = {m \in DOMAIN memory : memory[m].repo = purge.repo}]
     \/ Err("verify")
  /\ UNCHANGED <<marker, opened, graph, declared, purged, used, spoiled, stranded>>

\* One memory; a failure is recorded and the next one is tried.
PurgeMemory ==
  /\ purge.at = "delete"
  /\ \E m \in purge.todo :
        \/ /\ m \in DOMAIN memory
           /\ Without({m})
           /\ purge' = [purge EXCEPT !.todo = @ \ {m}, !.gone = @ \cup {m}]
           /\ UNCHANGED spoiled
        \/ /\ purge' = [purge EXCEPT !.todo = @ \ {m}, !.errors = TRUE]
           /\ spoiled' = spoiled \cup ({m} \cap DOMAIN memory)
           /\ UNCHANGED graph
  /\ UNCHANGED <<marker, opened, declared, purged, used, stranded>>

MemoriesDone ==
  /\ purge.at = "delete" /\ purge.todo = {}
  /\ Move("evidence")
  /\ UNCHANGED <<marker, opened, graph, declared, purged, used, spoiled, stranded>>

\* _delete_records: page after page (a page is one record here) until none is left, whether
\* or not the memories that cite it went.
DeleteEvidence ==
  /\ purge.at = "evidence"
  /\ LET left == {e \in DOMAIN evidence : evidence[e] = purge.repo} IN
     \/ /\ left = {}
        /\ Move("links")
        /\ UNCHANGED graph
     \/ \E e \in left :
           /\ evidence' = Restrict(evidence, DOMAIN evidence \ {e})
           /\ cites' = {l \in cites : l[2] # e}
           /\ UNCHANGED <<purge, memory, attested, authority>>
     \/ /\ Err("links")
        /\ UNCHANGED graph
  /\ UNCHANGED <<marker, opened, declared, purged, used, spoiled, stranded>>

\* The authority links of the memories this purge deleted: the links went with the vertices,
\* so the listing is all that can fail, and then no attestation is deleted.
ListLinks ==
  /\ purge.at = "links"
  /\ \/ Move("attestations")
     \/ Err("verify")
  /\ UNCHANGED <<marker, opened, graph, declared, purged, used, spoiled, stranded>>

Spent == {n \in DOMAIN attested : attested[n] \in purge.gone}

\* One attestation of a belief that this purge deleted, or none of those left.
DeleteAttestations ==
  /\ purge.at = "attestations"
  /\ \/ \E n \in Spent : /\ attested' = Restrict(attested, DOMAIN attested \ {n})
                         /\ UNCHANGED purge
     \/ Spent = {} /\ Move("verify") /\ UNCHANGED attested
     \/ Spent # {} /\ Err("verify") /\ UNCHANGED attested
  /\ UNCHANGED <<marker, opened, memory, evidence, cites, authority, declared, purged, used,
                 spoiled, stranded>>

Residual ==
  \/ \E m \in DOMAIN memory : memory[m].repo = purge.repo
  \/ \E e \in DOMAIN evidence : evidence[e] = purge.repo
  \/ Spent # {}

\* Mutant: the record is deleted whatever was found.
VerifyNothing ==
  /\ purge.at = "verify"
  /\ Move("record")
  /\ UNCHANGED <<marker, opened, graph, declared, purged, used, spoiled, stranded>>

\* Anything left, and any error, keeps the repository's record.
Verify ==
  /\ purge.at = "verify"
  /\ \/ ~purge.errors /\ ~Residual /\ Move("record") /\ UNCHANGED stranded
     \/ purge' = Idle /\ Strand(purge.gone)
  /\ UNCHANGED <<marker, opened, graph, declared, purged, used, spoiled>>

DeleteRepository ==
  /\ purge.at = "record"
  /\ \/ /\ purge.repo \in declared
        /\ declared' = declared \ {purge.repo}
        /\ purged' = purged \cup {purge.repo}
     \/ UNCHANGED <<declared, purged>>
  /\ purge' = Idle
  /\ UNCHANGED <<marker, opened, graph, used, spoiled, stranded>>

PurgeStep ==
  \/ \E r \in Repositories : BeginPurge(r)
  \/ ListMemories \/ PurgeMemory \/ MemoriesDone \/ DeleteEvidence \/ ListLinks
  \/ DeleteAttestations \/ Verify \/ DeleteRepository

Write ==
  \/ \E r \in Repositories : Register(r)
  \/ \E e \in Evidence, r \in Repositories : StoreEvidence(e, r)
  \/ \E m \in Memories \ used, r \in Repositories, layer \in Layers :
        \E sources \in SUBSET DOMAIN memory, own \in SUBSET DOMAIN evidence,
           kind \in IF layer = "semantic" THEN {"fact", "prohibition"} ELSE {"none"},
           new \in (Evidence \ used) \cup {None}, nonce \in Nonces \cup {None} :
           StoreMemory(m, r, layer, kind, sources, own, new, nonce)
  \/ \E m \in DOMAIN memory, own \in SUBSET DOMAIN evidence : AttachEvidence(m, own)
  \/ \E m \in Memories : UpdateMemory(m) \/ DeleteMemory(m)

Next == Open \/ Close \/ Write \/ PurgeStep

Spec == Init /\ [][Next]_vars

------------------------------------------------------------------------------
TypeOK ==
  /\ marker \in {"none", "previous", "current"}
  /\ opened \in BOOLEAN
  /\ DOMAIN memory \subseteq Memories
  /\ \A m \in DOMAIN memory : memory[m] \in MemoryRecord
  /\ DOMAIN evidence \subseteq Evidence
  /\ \A e \in DOMAIN evidence : evidence[e] \in Repositories
  /\ cites \subseteq Memories \X Evidence
  /\ DOMAIN attested \subseteq Nonces
  /\ \A n \in DOMAIN attested : attested[n] \in Memories
  /\ authority \subseteq Memories \X Nonces
  /\ declared \subseteq Repositories /\ purged \subseteq Repositories
  /\ purge \in [at: Steps, repo: Repositories \cup {None}, todo: SUBSET Memories,
                gone: SUBSET Memories, errors: BOOLEAN]
  /\ used \subseteq Memories \cup Evidence
  /\ spoiled \subseteq Memories /\ stranded \subseteq Memories
=============================================================================
