------------------------------ MODULE SqliteStore ------------------------------
(***************************************************************************)
(* The SQLite file of one data directory: how core/storage.py creates it,   *)
(* decides whether it may be opened, and migrates one that an older build   *)
(* left, and the offline upgrade of interfaces/maintenance.py and           *)
(* core/maintenance.py, which copies the directory first.  Every process    *)
(* holds a role of the directory while it works (StoreRole), and may be     *)
(* killed between any two steps.                                            *)
(*                                                                          *)
(* CREATE TABLE commits by itself: Python's sqlite3 begins a transaction    *)
(* only before a statement that changes rows.  A migration runs in one      *)
(* explicit transaction.                                                    *)
(***************************************************************************)
EXTENDS Naturals, FiniteSets, Functions

CONSTANTS
  Procs, Memories, Evidence, Repositories,
  Copies,       \* names of backup directories
  MaxCreated,   \* bound on the memories written after opening
  Blank,        \* a repository id that is NULL or white space
  Unscoped,     \* the reserved repository of records without a scope
  None

VARIABLES
  file,      \* memories.db
  copy,      \* copy[d]: what backup directory d holds; its domain is the directories there are
  proc,      \* what each process does: kind, and the step it is at
  original,  \* history: the file as found, and as it was before it was migrated
  created    \* bound

vars == <<file, copy, proc, original, created>>

Current == 5
Unversioned == 0
Kinds == {"local", "server", "upgrade"}

\* A memory row: secret means that its content would be redacted; typed, that its belief_type
\* and epistemic_status are set and its category agrees.
Row == [layer: {"semantic", "episodic"}, repo: Repositories \cup {Blank}, secret: BOOLEAN,
        typed: BOOLEAN]
Source == [repo: Repositories \cup {Blank}, sound: BOOLEAN, secret: BOOLEAN]

\* What one directory can hold.
IsFile(f) ==
  /\ f = [tables |-> f.tables, version |-> f.version, memory |-> f.memory,
          evidence |-> f.evidence, links |-> f.links]
  /\ f.tables \in {"none", "some", "all"} /\ f.version \in 0 .. Current + 1
  /\ \E S \in SUBSET Memories : f.memory \in [S -> Row]
  /\ \E S \in SUBSET (Memories \cup Evidence) : f.evidence \in [S -> Source]
  /\ f.links \subseteq Memories \X (Memories \cup Evidence)

Nothing == [tables |-> "none", version |-> Unversioned, memory |-> <<>>, evidence |-> <<>>,
            links |-> {}]

Linked(f) ==
  \A m \in DOMAIN f.memory :
     f.memory[m].layer = "semantic" => \E e \in DOMAIN f.evidence : <<m, e>> \in f.links

\* _validate_v4_schema, and _validate_v5_schema which adds columns to it.
Valid(f) ==
  /\ f.tables = "all"
  /\ \A m \in DOMAIN f.memory : f.memory[m].typed <=> f.memory[m].layer = "semantic"
  /\ \A e \in DOMAIN f.evidence : f.evidence[e].sound /\ ~f.evidence[e].secret
  /\ \A l \in f.links : /\ l[1] \in DOMAIN f.memory /\ l[2] \in DOMAIN f.evidence
                        /\ f.memory[l[1]].repo = f.evidence[l[2]].repo
  /\ Linked(f)

\* The files older builds left.  Before schema 3 there was no evidence, before 4 no belief type.
OldMemories(version) ==
  UNION {[S -> {row \in Row : /\ row.typed => version >= 4 /\ row.layer = "semantic"
                              /\ row.repo = Blank => version = 2}] : S \in SUBSET Memories}

OldEvidence(version) ==
  IF version = 2 THEN {<<>>}
  ELSE UNION {[S -> {s \in Source : s.repo # Blank}] : S \in SUBSET Evidence}

OldFile(version, memory, evidence, links) ==
  [tables |-> "all", version |-> version, memory |-> memory, evidence |-> evidence,
   links |-> links]

Init ==
  /\ \/ file = Nothing
     \/ \E version \in 2 .. Current + 1 :
          \E memory \in OldMemories(version), evidence \in OldEvidence(version) :
             \E links \in SUBSET {l \in (DOMAIN memory) \X (DOMAIN evidence) :
                                     memory[l[1]].repo = evidence[l[2]].repo} :
                file = OldFile(version, memory, evidence, links)
     \/ file = OldFile(Unversioned, <<>>, <<>>, {})
  /\ copy = <<>>
  /\ proc = [p \in Procs |-> [kind |-> "none", at |-> "down", into |-> None]]
  /\ original = file
  /\ created = 0

------------------------------------------------------------------------------
RoleOf(kind) == IF kind = "none" THEN {} ELSE IF kind = "local" THEN {"local"} ELSE {"server"}

Role == INSTANCE StoreRole WITH roles <- [p \in Procs |-> RoleOf(proc[p].kind)]

At(p, kinds, step) == proc[p].kind \in kinds /\ proc[p].at = step
Go(p, step) == proc' = [proc EXCEPT ![p].at = step]
Ends(p) == proc' = [proc EXCEPT ![p] = [kind |-> "none", at |-> "down", into |-> None]]

\* A refused process lets its role go.
Refuse(p) == proc' = [proc EXCEPT ![p] = [kind |-> "none", at |-> "refused", into |-> None]]

Start(p, kind) ==
  /\ proc[p].kind = "none" /\ proc[p].at # "refused"
  /\ \A r \in RoleOf(kind) : Role!Compatible(p, r)
  /\ \E d \in Copies :
       proc' = [proc EXCEPT ![p] = [kind |-> kind, at |-> "begin",
                                    into |-> IF kind = "upgrade" THEN d ELSE None]]
  /\ UNCHANGED <<file, copy, original, created>>

\* Released, or killed.
Stop(p) ==
  /\ proc[p].at # "down"
  /\ Ends(p)
  /\ UNCHANGED <<file, copy, original, created>>

------------------------------------------------------------------------------
(* LocalStorage.__init__ *)

\* A file this build may open: a new one, or a sound one of its own version.
Openable ==
  \/ file.version = Unversioned /\ file.tables = "none"
  \/ file.version = Current /\ Valid(file)

Check(p) ==
  /\ At(p, {"local", "server"}, "begin")
  /\ IF Openable THEN Go(p, "create") ELSE Refuse(p)
  /\ UNCHANGED <<file, copy, original, created>>

\* CREATE TABLE IF NOT EXISTS for one table after the other.
Create(p) ==
  /\ At(p, {"local", "server"}, "create")
  /\ \/ /\ file.tables # "all"
        /\ file' = [file EXCEPT !.tables = IF @ = "none" THEN "some" ELSE "all"]
        /\ UNCHANGED proc
     \/ /\ file.tables = "all"
        /\ Go(p, "stamp")
        /\ UNCHANGED file
  /\ UNCHANGED <<copy, original, created>>

\* The last transaction: repositories that records imply, and the version.
Stamp(p) ==
  /\ At(p, {"local", "server"}, "stamp")
  /\ file' = [file EXCEPT !.version = Current]
  /\ Go(p, "open")
  /\ UNCHANGED <<copy, original, created>>

\* The entries of a table, and one more.
With(table, id, entry) ==
  [k \in DOMAIN table \cup {id} |-> IF k = id THEN entry ELSE table[k]]

\* Of the writes of an open store: a belief with the evidence that it cites.
Write(p, m, e, r) ==
  /\ At(p, {"local", "server"}, "open")
  /\ created < MaxCreated
  /\ m \notin DOMAIN file.memory /\ e \notin DOMAIN file.evidence
  /\ file' = [file EXCEPT
       !.memory = With(@, m, [layer |-> "semantic", repo |-> r, secret |-> FALSE, typed |-> TRUE]),
       !.evidence = With(@, e, [repo |-> r, sound |-> TRUE, secret |-> FALSE]),
       !.links = @ \cup {<<m, e>>}]
  /\ created' = created + 1
  /\ UNCHANGED <<copy, proc, original>>

------------------------------------------------------------------------------
(* storage upgrade --offline: upgrade_storage, backup_storage, migrate_schema. *)

Migratable == {2, 3, 4}

\* A new directory, or nothing at all: a copy that fails takes its directory away.
Backup(p) ==
  /\ At(p, {"upgrade"}, "begin")
  /\ IF file.version \in Migratable /\ file.tables = "all" /\ proc[p].into \notin DOMAIN copy
     THEN \/ copy' = With(copy, proc[p].into, file) /\ Go(p, "migrate")
          \/ copy' = With(copy, proc[p].into, Nothing) /\ Go(p, "copying")
     ELSE Ends(p) /\ UNCHANGED copy
  /\ UNCHANGED <<file, original, created>>

BackupFails(p) ==
  /\ At(p, {"upgrade"}, "copying")
  /\ copy' = Restrict(copy, DOMAIN copy \ {proc[p].into})
  /\ Ends(p)
  /\ UNCHANGED <<file, original, created>>

\* What migrate_schema checks before it writes: secrets for schema 2, the hashes and secrets
\* of evidence for schema 3, the whole graph for schema 4.
Prevalid(f) ==
  CASE f.version = 2 -> \A m \in DOMAIN f.memory : ~f.memory[m].secret
    [] f.version = 3 -> \A e \in DOMAIN f.evidence : f.evidence[e].sound /\ ~f.evidence[e].secret
    [] OTHER -> Valid(f)

\* _migrate_v2_to_v3: blank scopes become the reserved one; every memory becomes evidence of
\* itself and cites it.
WithEvidence(f) ==
  LET scoped == [m \in DOMAIN f.memory |->
                   [f.memory[m] EXCEPT !.repo = IF @ = Blank THEN Unscoped ELSE @]] IN
  [f EXCEPT !.memory = scoped,
            !.evidence = [m \in DOMAIN scoped |->
                            [repo |-> scoped[m].repo, sound |-> TRUE, secret |-> scoped[m].secret]],
            !.links = {<<m, m>> : m \in DOMAIN scoped}]

\* _migrate_v3_to_v4: belief types for the semantic rows.
WithTypes(f) ==
  [f EXCEPT !.memory = [m \in DOMAIN f.memory |->
                          [f.memory[m] EXCEPT !.typed = f.memory[m].layer = "semantic"]]]

Migrated(f) ==
  LET cited == IF f.version = 2 THEN WithEvidence(f) ELSE f
      typed == IF f.version < 4 THEN WithTypes(cited) ELSE cited
  IN  [typed EXCEPT !.version = Current]

\* The integrity check in the transaction; what fails it is rolled back.
Integral(f) ==
  LET cited == IF f.version = 2 THEN WithEvidence(f) ELSE f IN
  Linked(cited) /\ \A e \in DOMAIN cited.evidence : cited.evidence[e].sound

Migrate(p) ==
  /\ At(p, {"upgrade"}, "migrate")
  /\ \/ /\ Prevalid(file) /\ Integral(file)
        /\ original' = file
        /\ file' = Migrated(file)
     \/ UNCHANGED <<file, original>>
  /\ Ends(p)
  /\ UNCHANGED <<copy, created>>

Next ==
  \E p \in Procs :
     \/ \E kind \in Kinds : Start(p, kind)
     \/ Stop(p) \/ Check(p) \/ Create(p) \/ Stamp(p)
     \/ \E m \in Memories, e \in Evidence, r \in Repositories : Write(p, m, e, r)
     \/ Backup(p) \/ BackupFails(p) \/ Migrate(p)

Spec == Init /\ [][Next]_vars

------------------------------------------------------------------------------
TypeOK ==
  /\ IsFile(file) /\ IsFile(original)
  /\ DOMAIN copy \subseteq Copies
  /\ proc \in [Procs -> [kind: Kinds \cup {"none"}, into: Copies \cup {None},
                         at: {"down", "begin", "refused", "create", "stamp", "open", "copying",
                              "migrate"}]]
  /\ created \in 0 .. MaxCreated
=============================================================================
