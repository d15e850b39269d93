----------------------------- MODULE WriterLock -----------------------------
(***************************************************************************)
(* core/writer_lock.py on POSIX: the files of <data_dir>/.locks, the flock *)
(* calls on them, and the per-process registry of held roles.              *)
(*                                                                         *)
(* A local role is a uniquely named file local-<pid>-<uuid>.lock that its  *)
(* process keeps locked.  The server role is the lock of server.lock.  A   *)
(* starting server locks server.lock and then examines every local file:   *)
(* one that is locked is a live local, any other is removed.  A starting   *)
(* local creates and locks its own file first and then passes through      *)
(* server.lock, momentarily, as a gate.                                    *)
(*                                                                         *)
(* The module mutex serialises the threads of a process, so a process has  *)
(* one acquisition, release or probe in progress, at pc[p].  Processes     *)
(* interleave at every system call.  flock belongs to the open file: a     *)
(* forked child holds copies of its parent's locked descriptors, and a     *)
(* lock is free only when every copy is closed; so lock[f] is the set of   *)
(* processes with a copy of the descriptor that has f locked.              *)
(***************************************************************************)
EXTENDS Naturals, FiniteSets

CONSTANTS
  Procs,        \* process slots; a dead slot may be used by a later process
  Paths,        \* names of local files
  ServerLock,   \* server.lock
  NoFile,       \* no path
  NoProc,       \* server.json absent or unreadable
  MaxTries,     \* attempts on a busy server.lock: 1 + len(_GATE_PAUSES)
  MaxRefs,      \* bound on the references of one role in one process
  ForkPoints,   \* where an acquiring thread may be while another thread forks
  MayDeny       \* whether a scan can lack the permission to open or remove a file

\* Nothing but a registered or a just-opened, already locked descriptor is
\* inherited: a fork while a descriptor is open and not yet locked is left out.
ForkStates == {"idle", "gateHeld", "scan", "reap", "closeServer", "probeHeld"}

ASSUME PathsAssumption ==
  /\ ServerLock \notin Paths
  /\ NoFile \notin Paths \cup {ServerLock}
ASSUME ProcsAssumption == NoProc \notin Procs
ASSUME BoundsAssumption == MaxTries \in Nat \ {0} /\ MaxRefs \in Nat
ASSUME ForkAssumption == ForkPoints \subseteq ForkStates /\ MayDeny \in BOOLEAN

VARIABLES
  pc,         \* pc[p]: where process p is, "dead" or "child" (forked, before _after_fork)
  refs,       \* refs[p][r]: _registry[(dir, r)].references, 0 when absent
  file,       \* file[p]: path of p's local file
  linked,     \* local files that have a directory entry
  lock,       \* lock[f]: processes with a copy of the descriptor that has f locked
  meta,       \* pid in server.json
  unsaid,     \* processes whose last write of server.json failed
  tries,      \* tries[p]: failed attempts on server.lock
  todo,       \* todo[p]: what scandir has still to return to p
  live,       \* live[p]: p's scan met a locked local file
  scanAt,     \* scanAt[p]: unlocked local file that p's scan is removing
  inherit,    \* inherit[p]: registered files whose descriptors child p inherited
  outcome     \* outcome[p]: how p's last acquisition or probe ended

vars == <<pc, refs, file, linked, lock, meta, unsaid, tries, todo, live, scanAt,
          inherit, outcome>>
scanVars == <<todo, live, scanAt>>
metaVars == <<meta, unsaid>>

Roles == {"local", "server"}
Files == Paths \cup {ServerLock}
PCs == {"dead", "child", "idle", "own", "gate", "gateHeld", "repair", "srv", "scan",
        "reap", "unlinkScanned", "closeServer", "unlinkOwn", "probe", "probeHeld"}
Outcomes == {"none", "held", "refused", "unguarded", "free", "served"}

Registered(p, r) == refs[p][r] > 0
Alive(p) == pc[p] # "dead"

\* The files whose descriptors are in p's registry.
RegisteredFiles(p) ==
  {f \in Files : \/ f = ServerLock /\ Registered(p, "server")
                 \/ f = file[p] /\ Registered(p, "local")}

\* os.close of p's descriptors of the files fs.
Close(p, fs) == lock' = [f \in Files |-> IF f \in fs THEN lock[f] \ {p} ELSE lock[f]]

\* flock(LOCK_EX | LOCK_NB): succeeds when nobody has f locked.
TryLock(p, f) ==
  /\ lock[f] = {}
  /\ lock' = [lock EXCEPT ![f] = {p}]

Goto(p, from, to) ==
  /\ pc[p] = from
  /\ pc' = [pc EXCEPT ![p] = to]

Ends(p, how) == outcome' = [outcome EXCEPT ![p] = how]

Register(p, r) == refs' = [refs EXCEPT ![p][r] = @ + 1]

Init ==
  /\ pc = [p \in Procs |-> "dead"]
  /\ refs = [p \in Procs |-> [r \in Roles |-> 0]]
  /\ file = [p \in Procs |-> NoFile]
  /\ linked = {}
  /\ lock = [f \in Files |-> {}]
  /\ meta = NoProc
  /\ unsaid = {}
  /\ tries = [p \in Procs |-> 0]
  /\ todo = [p \in Procs |-> {}]
  /\ live = [p \in Procs |-> FALSE]
  /\ scanAt = [p \in Procs |-> NoFile]
  /\ inherit = [p \in Procs |-> {}]
  /\ outcome = [p \in Procs |-> "none"]

-----------------------------------------------------------------------------
(* Acquiring the local role *)

\* acquire_writer_lock on a key of the registry: one more reference.
AcquireAgain(p, r) ==
  /\ pc[p] = "idle"
  /\ refs[p][r] \in 1 .. MaxRefs - 1
  /\ Register(p, r)
  /\ Ends(p, "held")
  /\ UNCHANGED <<pc, file, linked, lock, metaVars, tries, scanVars, inherit>>

\* A name nobody has used: uuid4.  Names return once nothing can refer to them.
Fresh(f) ==
  /\ f \notin linked
  /\ lock[f] = {}
  /\ \A p \in Procs : file[p] # f /\ scanAt[p] # f

\* _open_locked of a new local file: os.open with O_CREAT.
CreateOwn(p) ==
  /\ Goto(p, "idle", "own")
  /\ ~Registered(p, "local")
  /\ \E f \in Paths :
       /\ Fresh(f)
       /\ file' = [file EXCEPT ![p] = f]
       /\ linked' = linked \cup {f}
  /\ tries' = [tries EXCEPT ![p] = 0]
  /\ Ends(p, "none")
  /\ UNCHANGED <<refs, lock, metaVars, scanVars, inherit>>

\* The single attempt to lock it.  A process that already serves the store
\* skips the gate.
LockOwn(p) ==
  /\ pc[p] = "own"
  /\ TryLock(p, file[p])
  /\ \/ /\ Registered(p, "server")
        /\ Goto(p, "own", "idle")
        /\ Register(p, "local")
        /\ Ends(p, "held")
     \/ /\ ~Registered(p, "server")
        /\ Goto(p, "own", "gate")
        /\ UNCHANGED <<refs, outcome>>
  /\ UNCHANGED <<file, linked, metaVars, tries, scanVars, inherit>>

\* A scan has the new file locked: the acquisition is refused before the try
\* block of _acquire, so the file stays in the directory.
OwnRefused(p) ==
  /\ Goto(p, "own", "idle")
  /\ lock[file[p]] # {}
  /\ file' = [file EXCEPT ![p] = NoFile]
  /\ Ends(p, "refused")
  /\ UNCHANGED <<refs, linked, lock, metaVars, tries, scanVars, inherit>>

\* Mutant: attempts on a busy gate are not counted.
BusyUncounted(p, at) ==
  /\ pc[p] = at
  /\ lock[ServerLock] # {}
  /\ tries[p] < MaxTries - 1
  /\ UNCHANGED vars

\* One attempt of _open_locked(server.lock) that finds it locked.
Busy(p, at) ==
  /\ pc[p] = at
  /\ lock[ServerLock] # {}
  /\ tries[p] < MaxTries - 1
  /\ tries' = [tries EXCEPT ![p] = @ + 1]
  /\ UNCHANGED <<pc, refs, file, linked, lock, metaVars, scanVars, inherit, outcome>>

PassGate(p) ==
  /\ Goto(p, "gate", "gateHeld")
  /\ TryLock(p, ServerLock)
  /\ UNCHANGED <<refs, file, linked, metaVars, tries, scanVars, inherit, outcome>>

\* The last attempt fails too: close the own file, then unlink it.
GateRefused(p) ==
  /\ Goto(p, "gate", "unlinkOwn")
  /\ lock[ServerLock] # {}
  /\ tries[p] = MaxTries - 1
  /\ Close(p, {file[p]})
  /\ Ends(p, "refused")
  /\ UNCHANGED <<refs, file, linked, metaVars, tries, scanVars, inherit>>

\* A scan removed the file between its creation and its locking: drop the
\* unreachable inode and create the file again, under the gate.
Recreate(p) ==
  /\ Goto(p, "gateHeld", "repair")
  /\ file[p] \notin linked
  /\ linked' = linked \cup {file[p]}
  /\ lock' = [lock EXCEPT ![file[p]] = {}]
  /\ UNCHANGED <<refs, file, metaVars, tries, scanVars, inherit, outcome>>

LockRecreated(p) ==
  /\ Goto(p, "repair", "gateHeld")
  /\ TryLock(p, file[p])
  /\ UNCHANGED <<refs, file, linked, metaVars, tries, scanVars, inherit, outcome>>

\* Mutant: the removed file is not noticed.
LeaveGateUnrepaired(p) ==
  /\ Goto(p, "gateHeld", "idle")
  /\ Close(p, {ServerLock})
  /\ Register(p, "local")
  /\ Ends(p, "held")
  /\ UNCHANGED <<file, linked, metaVars, tries, scanVars, inherit>>

\* Leave the gate with the file in place: the local role is held.
LeaveGate(p) ==
  /\ Goto(p, "gateHeld", "idle")
  /\ file[p] \in linked
  /\ Close(p, {ServerLock})
  /\ Register(p, "local")
  /\ Ends(p, "held")
  /\ UNCHANGED <<file, linked, metaVars, tries, scanVars, inherit>>

-----------------------------------------------------------------------------
(* Acquiring the server role *)

StartServer(p) ==
  /\ Goto(p, "idle", "srv")
  /\ ~Registered(p, "server")
  /\ tries' = [tries EXCEPT ![p] = 0]
  /\ Ends(p, "none")
  /\ UNCHANGED <<refs, file, linked, lock, metaVars, scanVars, inherit>>

\* server.lock is locked and _check_locals opens the directory.  scandir
\* returns what is there from now on and may return files created later.
BeginScan(p) ==
  /\ Goto(p, "srv", "scan")
  /\ TryLock(p, ServerLock)
  /\ \E more \in SUBSET (Paths \ linked) : todo' = [todo EXCEPT ![p] = linked \cup more]
  /\ live' = [live EXCEPT ![p] = FALSE]
  /\ UNCHANGED <<refs, file, linked, metaVars, tries, scanAt, inherit, outcome>>

ServerRefused(p) ==
  /\ Goto(p, "srv", "idle")
  /\ lock[ServerLock] # {}
  /\ tries[p] = MaxTries - 1
  /\ Ends(p, "refused")
  /\ UNCHANGED <<refs, file, linked, lock, metaVars, tries, scanVars, inherit>>

\* Mutant: a process with a local role examines no file at all.
OwnAny(p, f) == Registered(p, "local")

\* The process's own registered local file is not examined.
Own(p, f) == Registered(p, "local") /\ f = file[p]

\* An entry that needs nothing done: p's own file, one that is gone by now,
\* or one that is locked and so belongs to a live local.
ScanEntry(p) ==
  /\ pc[p] = "scan"
  /\ \E f \in todo[p] :
       /\ Own(p, f) \/ f \notin linked \/ lock[f] # {}
       /\ todo' = [todo EXCEPT ![p] = @ \ {f}]
       /\ live' = [live EXCEPT ![p] = @ \/ (~Own(p, f) /\ f \in linked)]
  /\ UNCHANGED <<pc, refs, file, linked, lock, metaVars, tries, scanAt, inherit, outcome>>

\* An unlocked local file: _local_is_live holds its lock ...
ScanUnlocked(p) ==
  /\ Goto(p, "scan", "reap")
  /\ \E f \in todo[p] \cap linked :
       /\ ~Own(p, f)
       /\ TryLock(p, f)
       /\ todo' = [todo EXCEPT ![p] = @ \ {f}]
       /\ scanAt' = [scanAt EXCEPT ![p] = f]
  /\ UNCHANGED <<refs, file, linked, metaVars, tries, live, inherit, outcome>>

\* ... closes it ...
ScanClose(p) ==
  /\ Goto(p, "reap", "unlinkScanned")
  /\ Close(p, {scanAt[p]})
  /\ UNCHANGED <<refs, file, linked, metaVars, tries, scanVars, inherit, outcome>>

\* ... and only then unlinks the path.
ScanUnlink(p) ==
  /\ Goto(p, "unlinkScanned", "scan")
  /\ linked' = linked \ {scanAt[p]}
  /\ scanAt' = [scanAt EXCEPT ![p] = NoFile]
  /\ UNCHANGED <<refs, file, lock, metaVars, tries, todo, live, inherit, outcome>>

\* Mutant: a refused server does not close server.lock.
ScanRefusedHolding(p) ==
  /\ Goto(p, "scan", "idle")
  /\ todo[p] = {}
  /\ live[p]
  /\ Ends(p, "refused")
  /\ live' = [live EXCEPT ![p] = FALSE]
  /\ UNCHANGED <<refs, file, linked, lock, metaVars, tries, todo, scanAt, inherit>>

ScanRefused(p) ==
  /\ Goto(p, "scan", "idle")
  /\ todo[p] = {}
  /\ live[p]
  /\ Close(p, {ServerLock})
  /\ Ends(p, "refused")
  /\ live' = [live EXCEPT ![p] = FALSE]
  /\ UNCHANGED <<refs, file, linked, metaVars, tries, todo, scanAt, inherit>>

\* _write_metadata: a failed write only warns.  It leaves the old record or,
\* once the file is truncated, an unreadable one.
WriteMetadata(p) ==
  \/ meta' = p /\ unsaid' = unsaid \ {p}
  \/ meta' \in {meta, NoProc} /\ unsaid' = unsaid \cup {p}

Serve(p) ==
  /\ Goto(p, "scan", "idle")
  /\ todo[p] = {}
  /\ ~live[p]
  /\ WriteMetadata(p)
  /\ Register(p, "server")
  /\ Ends(p, "held")
  /\ UNCHANGED <<file, linked, lock, tries, scanVars, inherit>>

-----------------------------------------------------------------------------
(* An OSError while acquiring: descriptors are closed, the caller gets an   *)
(* empty handle and continues unguarded.                                    *)

\* Opening or locking the own file failed before the try block of _acquire.
OwnFails(p) ==
  /\ Goto(p, "own", "idle")
  /\ file' = [file EXCEPT ![p] = NoFile]
  /\ Ends(p, "unguarded")
  /\ UNCHANGED <<refs, linked, lock, metaVars, tries, scanVars, inherit>>

GateFails(p) ==
  /\ \E at \in {"gate", "gateHeld", "repair"} : Goto(p, at, "unlinkOwn")
  /\ Close(p, {file[p], ServerLock})
  /\ Ends(p, "unguarded")
  /\ UNCHANGED <<refs, file, linked, metaVars, tries, scanVars, inherit>>

\* scandir, or opening or unlinking an entry, failed.  A live local already
\* met turns the error into a refusal.
ScanFails(p) ==
  /\ \E at \in {"srv", "scan", "unlinkScanned"} : Goto(p, at, "idle")
  /\ Close(p, {ServerLock})
  /\ Ends(p, IF live[p] THEN "refused" ELSE "unguarded")
  /\ todo' = [todo EXCEPT ![p] = {}]
  /\ live' = [live EXCEPT ![p] = FALSE]
  /\ scanAt' = [scanAt EXCEPT ![p] = NoFile]
  /\ UNCHANGED <<refs, file, linked, metaVars, tries, inherit>>

\* A file the scan may not open, or not unlink, counts as a live local's.
ScanDenied(p) ==
  /\ MayDeny
  /\ \/ /\ pc[p] = "scan"
        /\ \E f \in todo[p] \cap linked :
             ~Own(p, f) /\ todo' = [todo EXCEPT ![p] = @ \ {f}]
        /\ UNCHANGED <<pc, scanAt>>
     \/ /\ Goto(p, "unlinkScanned", "scan")
        /\ scanAt' = [scanAt EXCEPT ![p] = NoFile]
        /\ UNCHANGED todo
  /\ live' = [live EXCEPT ![p] = TRUE]
  /\ UNCHANGED <<refs, file, linked, lock, metaVars, tries, inherit, outcome>>

-----------------------------------------------------------------------------
(* Releasing *)

ReleaseRef(p, r) ==
  /\ pc[p] = "idle"
  /\ refs[p][r] > 1
  /\ refs' = [refs EXCEPT ![p][r] = @ - 1]
  /\ UNCHANGED <<pc, file, linked, lock, metaVars, tries, scanVars, inherit, outcome>>

\* The last local reference: close the file, then unlink it.
ReleaseLocal(p) ==
  /\ Goto(p, "idle", "unlinkOwn")
  /\ refs[p]["local"] = 1
  /\ refs' = [refs EXCEPT ![p]["local"] = 0]
  /\ Close(p, {file[p]})
  /\ UNCHANGED <<file, linked, metaVars, tries, scanVars, inherit, outcome>>

\* Mutant: server.json is removed whichever role is released.
UnlinkOwnAndMetadata(p) ==
  /\ Goto(p, "unlinkOwn", "idle")
  /\ linked' = linked \ {file[p]}
  /\ file' = [file EXCEPT ![p] = NoFile]
  /\ meta' = NoProc
  /\ UNCHANGED <<refs, lock, unsaid, tries, scanVars, inherit, outcome>>

UnlinkOwn(p) ==
  /\ Goto(p, "unlinkOwn", "idle")
  /\ linked' = linked \ {file[p]}
  /\ file' = [file EXCEPT ![p] = NoFile]
  /\ UNCHANGED <<refs, lock, metaVars, tries, scanVars, inherit, outcome>>

\* The last server reference: remove server.json while the lock is still held.
ReleaseServer(p) ==
  /\ Goto(p, "idle", "closeServer")
  /\ refs[p]["server"] = 1
  /\ refs' = [refs EXCEPT ![p]["server"] = 0]
  /\ meta' \in {NoProc, meta}              \* unlink errors are suppressed
  /\ unsaid' = unsaid \ {p}
  /\ UNCHANGED <<file, linked, lock, tries, scanVars, inherit, outcome>>

CloseServer(p) ==
  /\ Goto(p, "closeServer", "idle")
  /\ Close(p, {ServerLock})
  /\ UNCHANGED <<refs, file, linked, metaVars, tries, scanVars, inherit, outcome>>

-----------------------------------------------------------------------------
(* server_role_is_held *)

\* The registry alone answers for the process that serves the store itself.
ProbeSelf(p) ==
  /\ pc[p] = "idle"
  /\ Registered(p, "server")
  /\ Ends(p, "served")
  /\ UNCHANGED <<pc, refs, file, linked, lock, metaVars, tries, scanVars, inherit>>

StartProbe(p) ==
  /\ Goto(p, "idle", "probe")
  /\ ~Registered(p, "server")
  /\ tries' = [tries EXCEPT ![p] = 0]
  /\ Ends(p, "none")
  /\ UNCHANGED <<refs, file, linked, lock, metaVars, scanVars, inherit>>

ProbeLocks(p) ==
  /\ Goto(p, "probe", "probeHeld")
  /\ TryLock(p, ServerLock)
  /\ UNCHANGED <<refs, file, linked, metaVars, tries, scanVars, inherit, outcome>>

ProbeFree(p) ==
  /\ Goto(p, "probeHeld", "idle")
  /\ Close(p, {ServerLock})
  /\ Ends(p, "free")
  /\ UNCHANGED <<refs, file, linked, metaVars, tries, scanVars, inherit>>

\* Mutant: a probe that could not lock the file reports that nobody serves.
ProbeServedAsFree(p) ==
  /\ Goto(p, "probe", "idle")
  /\ Ends(p, "free")
  /\ UNCHANGED <<refs, file, linked, lock, metaVars, tries, scanVars, inherit>>

\* Locked at the last attempt, or an OSError at any.
ProbeServed(p) ==
  /\ Goto(p, "probe", "idle")
  /\ Ends(p, "served")
  /\ UNCHANGED <<refs, file, linked, lock, metaVars, tries, scanVars, inherit>>

-----------------------------------------------------------------------------
(* Processes *)

Start(p) ==
  /\ Goto(p, "dead", "idle")
  /\ UNCHANGED <<refs, file, linked, lock, metaVars, tries, scanVars, inherit, outcome>>

\* Exit or crash, at any point: the kernel closes the descriptors and nothing
\* else happens.  Files and server.json stay.
Crash(p) ==
  /\ Alive(p)
  /\ pc' = [pc EXCEPT ![p] = "dead"]
  /\ Close(p, Files)
  /\ refs' = [refs EXCEPT ![p] = [r \in Roles |-> 0]]
  /\ file' = [file EXCEPT ![p] = NoFile]
  /\ unsaid' = unsaid \ {p}
  /\ tries' = [tries EXCEPT ![p] = 0]
  /\ todo' = [todo EXCEPT ![p] = {}]
  /\ live' = [live EXCEPT ![p] = FALSE]
  /\ scanAt' = [scanAt EXCEPT ![p] = NoFile]
  /\ inherit' = [inherit EXCEPT ![p] = {}]
  /\ Ends(p, "none")
  /\ UNCHANGED <<linked, meta>>

\* os.fork: the child has a copy of every descriptor, and of the registry.
Fork(p, c) ==
  /\ pc[p] \in ForkPoints
  /\ Goto(c, "dead", "child")
  /\ lock' = [f \in Files |-> IF p \in lock[f] THEN lock[f] \cup {c} ELSE lock[f]]
  /\ inherit' = [inherit EXCEPT ![c] = RegisteredFiles(p)]
  /\ UNCHANGED <<refs, file, linked, metaVars, tries, scanVars, outcome>>

\* Mutant: the child unlocks what it inherited instead of closing it.
AfterForkUnlocks(c) ==
  /\ Goto(c, "child", "idle")
  /\ lock' = [f \in Files |-> IF f \in inherit[c] THEN {} ELSE lock[f]]
  /\ inherit' = [inherit EXCEPT ![c] = {}]
  /\ UNCHANGED <<refs, file, linked, metaVars, tries, scanVars, outcome>>

\* _after_fork: close the registered descriptors and forget the registry.
AfterFork(c) ==
  /\ Goto(c, "child", "idle")
  /\ Close(c, inherit[c])
  /\ inherit' = [inherit EXCEPT ![c] = {}]
  /\ UNCHANGED <<refs, file, linked, metaVars, tries, scanVars, outcome>>

-----------------------------------------------------------------------------

\* What p does once an operation is under way, if no call fails.
Step(p) ==
  \/ LockOwn(p) \/ OwnRefused(p) \/ Busy(p, "gate") \/ PassGate(p) \/ GateRefused(p)
  \/ Recreate(p) \/ LockRecreated(p) \/ LeaveGate(p)
  \/ Busy(p, "srv") \/ BeginScan(p) \/ ServerRefused(p) \/ ScanEntry(p)
  \/ ScanUnlocked(p) \/ ScanClose(p) \/ ScanUnlink(p) \/ ScanRefused(p) \/ Serve(p)
  \/ UnlinkOwn(p) \/ CloseServer(p)
  \/ Busy(p, "probe") \/ ProbeLocks(p) \/ ProbeFree(p) \/ ProbeServed(p)
  \/ AfterFork(p)

\* What the program may begin, and what may befall it.
Begin(p) ==
  \/ Start(p) \/ CreateOwn(p) \/ StartServer(p) \/ StartProbe(p) \/ ProbeSelf(p)
  \/ ReleaseLocal(p) \/ ReleaseServer(p)
  \/ \E r \in Roles : AcquireAgain(p, r) \/ ReleaseRef(p, r)
  \/ \E c \in Procs : Fork(p, c)

Fault(p) ==
  \/ OwnFails(p) \/ GateFails(p) \/ ScanFails(p) \/ ScanDenied(p) \/ Crash(p)

Next == \E p \in Procs : Step(p) \/ Begin(p) \/ Fault(p)

Spec == Init /\ [][Next]_vars

\* A process that has begun an operation is scheduled again; nothing obliges
\* a program to begin one, to release a role or to fail.
LiveSpec == Spec /\ \A p \in Procs : WF_vars(Step(p))
=============================================================================
