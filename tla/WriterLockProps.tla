-------------------------- MODULE WriterLockProps --------------------------
(***************************************************************************)
(* What core/writer_lock.py has to guarantee, stated over WriterLock.      *)
(***************************************************************************)
EXTENDS WriterLock

TypeOK ==
  /\ pc \in [Procs -> PCs]
  /\ refs \in [Procs -> [Roles -> Nat]]
  /\ file \in [Procs -> Paths \cup {NoFile}]
  /\ linked \subseteq Paths
  /\ lock \in [Files -> SUBSET Procs]
  /\ meta \in Procs \cup {NoProc}
  /\ unsaid \subseteq Procs
  /\ tries \in [Procs -> Nat]
  /\ todo \in [Procs -> SUBSET Paths]
  /\ live \in [Procs -> BOOLEAN]
  /\ scanAt \in [Procs -> Paths \cup {NoFile}]
  /\ inherit \in [Procs -> SUBSET Files]
  /\ outcome \in [Procs -> Outcomes]

\* A served store is used by no other process, whatever the interleaving of
\* announcing, scanning, repairing, forking and crashing: concurrent starts
\* of the two roles cannot both win.
Exclusive ==
  \A p, q \in Procs : p # q /\ Registered(p, "server") =>
    ~Registered(q, "server") /\ ~Registered(q, "local")

\* A registered role stays visible to every later scan: the local file is in
\* the directory and locked, server.lock is locked.  A scan that took the file
\* for a dead process's must never have removed it for good.
Announced ==
  \A p \in Procs :
    /\ Registered(p, "local") => file[p] \in linked /\ p \in lock[file[p]]
    /\ Registered(p, "server") => p \in lock[ServerLock]

\* While a process serves the store, server.json is its own record, unless it
\* could not write one; the previous server's release cannot remove it.
MetadataNamesServer ==
  \A p \in Procs : Registered(p, "server") /\ p \notin unsaid => meta = p

\* The file re-created under the gate can be locked at the first attempt.
RepairUnopposed == \A p \in Procs : pc[p] = "repair" => lock[file[p]] = {}

\* p owns server.lock: as the server, as a scanner, or passing through it.
Critical(p) ==
  \/ Registered(p, "server")
  \/ pc[p] \in {"gateHeld", "repair", "scan", "reap", "unlinkScanned", "closeServer",
                "probeHeld"}

\* A locked server.lock has an owner: the server, a process passing through it,
\* or a child that has yet to close what it inherited.  A lock without one has
\* outlived its owner's release, exit or crash.
NoOrphanLock ==
  lock[ServerLock] # {} =>
    \E p \in lock[ServerLock] : Critical(p) \/ pc[p] = "child"

-----------------------------------------------------------------------------
(* Why Exclusive holds: the parts of its inductive invariant. *)

\* server.lock serialises its owners, although descriptors are copied by forks.
GateSerialises ==
  /\ \A p \in Procs : Critical(p) => p \in lock[ServerLock]
  /\ \A p, q \in Procs : Critical(p) /\ Critical(q) => p = q

\* Where a process that holds a role can be.
RolePlaces ==
  \A p \in Procs :
    /\ Registered(p, "server") => pc[p] \in {"idle", "own", "unlinkOwn"}
    /\ Registered(p, "local") =>
         pc[p] \notin {"dead", "child", "own", "gate", "gateHeld", "repair", "unlinkOwn"}

\* A local file has one owner, and is locked once its owner is past "own".
FilesOwned ==
  /\ \A p \in Procs :
       /\ pc[p] \in {"own", "gate", "gateHeld", "repair", "unlinkOwn"} \/ Registered(p, "local")
            => file[p] \in Paths
       /\ pc[p] \in {"gate", "gateHeld"} => p \in lock[file[p]]
       /\ pc[p] = "own" /\ Registered(p, "server") => file[p] \in linked
  /\ \A p, q \in Procs : p # q /\ file[p] \in Paths => file[p] # file[q]

\* A scan removes no registered local's file, and until it has met a live
\* local every other registered local is still ahead of it.
ScanComplete ==
  \A p, q \in Procs :
    /\ pc[q] \in {"reap", "unlinkScanned"} =>
         scanAt[q] \in Paths /\ (Registered(p, "local") => file[p] # scanAt[q])
    /\ /\ p # q
       /\ Registered(p, "local")
       /\ pc[q] \in {"scan", "reap", "unlinkScanned"}
       /\ ~live[q]
       => file[p] \in todo[q]

IndInv ==
  /\ TypeOK
  /\ GateSerialises
  /\ RolePlaces
  /\ FilesOwned
  /\ ScanComplete
  /\ Announced
  /\ Exclusive
  /\ RepairUnopposed
  /\ MetadataNamesServer

-----------------------------------------------------------------------------
\* server_role_is_held answers "no" only at a moment at which nobody serves.
ProbeSound ==
  [][\A p \in Procs : outcome[p] # "free" /\ outcome'[p] = "free" =>
       \A q \in Procs : refs'[q]["server"] = 0]_vars

\* The roles of the registries behave as an atomic lock service would.
roles == [p \in Procs |-> {r \in Roles : Registered(p, r)}]
Abstract == INSTANCE StoreRole
ImplementsStoreRole == Abstract!Spec

\* Every acquisition, release and probe comes to an end: polling is bounded
\* and the scan meets each entry once.
OperationEnds ==
  \A p \in Procs : pc[p] \notin {"idle", "dead"} ~> pc[p] \in {"idle", "dead"}

Alone(p) == \A q \in Procs \ {p} : ~Alive(q)

\* What dead processes left behind does not keep a server from starting: one
\* that tries again and again with nobody else there gets the role, unless it is
\* again and again denied to open or remove a file.
CrashReleases ==
  <>[][\A p \in Procs : ~ScanDenied(p)]_vars =>
    \A p \in Procs :
      []<>(pc[p] = "srv" /\ Alone(p)) =>
        []<>(outcome[p] \in {"held", "unguarded"} \/ ~Alive(p) \/ ~Alone(p))
=============================================================================
