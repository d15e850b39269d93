------------------------------- MODULE ServerLife -------------------------------
(***************************************************************************)
(* The life of the processes around the data directories of one machine:    *)
(* servers (server/app.py, writer_role.py, worker_mode.py, owner_token.py), *)
(* the supervisors that spawn them, local stdio processes and offline       *)
(* maintenance.  A server builds its stores while the module is imported,   *)
(* and serves in its lifespan; the role of the data directory (StoreRole)   *)
(* has to be held over both.  All servers listen on one endpoint and work   *)
(* on one Neo4j graph, so that they share its dreaming schedule.  Falling   *)
(* back to SQLite (storage.allow_fallback, off by default) is left out, and *)
(* every server writes an owner token (local_owner_mode).                   *)
(*                                                                          *)
(* A process identifier is given to another process once its own has ended. *)
(***************************************************************************)
EXTENDS Naturals, FiniteSets

CONSTANTS
  Pids,       \* process identifiers
  Dirs,       \* data directories
  Kinds,      \* the kinds of processes that an operator starts, of AllKinds
  Workers,    \* workers of a multi-worker supervisor
  MaxKills,   \* bound on kills
  None

\* "direct" is `visp-memory serve`, which imports and serves in one process; "bare" another
\* ASGI host; "multi" and "reload" are uvicorn supervisors, whose children are of the kinds "worker"
\* and "reloaded".
AllKinds == {"direct", "bare", "multi", "reload", "local", "maintenance"}

ASSUME KindsAssumption == Kinds \subseteq AllKinds
ASSUME WorkersAssumption == Workers \in Nat \ {0} /\ MaxKills \in Nat
ASSUME NoneAssumption ==
  None \notin Pids \cup Dirs \cup [pid: Pids, ended: BOOLEAN]

VARIABLES
  proc,     \* what each process is and does
  token,    \* the owner token file: whose secret it holds
  record,   \* the discovery record beside it: whose pid it names
  gate,     \* the process that has the lock of the two files
  job,      \* the dreaming thread of each process: "none", "due" or "failed"
  enabled,  \* dreaming is on for the project
  due,      \* next_run has come
  ran,      \* history: cycles since next_run was last set
  kills     \* bound

files == <<token, record, gate>>
schedule == <<enabled, due, ran>>
serverVars == <<proc, files, job, schedule, kills>>

Down == [kind |-> "none", at |-> "down", dir |-> None, refs |-> {}, parent |-> None,
         orphan |-> FALSE]

Steps == {"down", "preflight", "build", "imported", "supervise", "claimed",
          "record", "serving", "stopping", "cleanup", "parked", "using"}

\* A file's content: the process that wrote it, and whether that one has ended since.
Owned(p) == [pid |-> p, ended |-> FALSE]

ServerInit ==
  /\ proc = [p \in Pids |-> Down]
  /\ token = None /\ record = None /\ gate = None
  /\ job = [p \in Pids |-> "none"]
  /\ enabled = FALSE /\ due = FALSE /\ ran = 0
  /\ kills = 0

Running(p) == proc[p].at # "down"
At(p, step) == proc[p].at = step
Go(p, step) == proc' = [proc EXCEPT ![p].at = step]

\* When p ends, what it wrote stays behind and the kernel releases its locks.
EndedOf(f, p) == IF f # None /\ f = Owned(p) THEN [f EXCEPT !.ended = TRUE] ELSE f
Exits(p) ==
  /\ proc' = [q \in Pids |->
                IF q = p THEN Down
                ELSE [proc[q] EXCEPT !.orphan = @ \/ proc[q].parent = p]]
  /\ token' = EndedOf(token, p) /\ record' = EndedOf(record, p)
  /\ gate' = IF gate = p THEN None ELSE gate
  /\ job' = [job EXCEPT ![p] = "none"]

------------------------------------------------------------------------------
(* The role of a data directory. *)

RoleOf(p, d) ==
  IF proc[p].dir # d \/ proc[p].refs = {} THEN {}
  ELSE IF proc[p].kind = "local" THEN {"local"} ELSE {"server"}

Role(d) == INSTANCE StoreRole WITH Procs <- Pids, roles <- [p \in Pids |-> RoleOf(p, d)]

Free(p, r) == Role(proc[p].dir)!Compatible(p, r)

Launch(p, kind, d) ==
  /\ ~Running(p)
  /\ proc' = [proc EXCEPT ![p] = [Down EXCEPT !.kind = kind, !.at = "preflight", !.dir = d]]
  /\ UNCHANGED <<files, job, schedule, kills>>

\* A refused worker of several stays, or its supervisor would start it again for ever; any
\* other refused process ends.
Parks(p) == proc[p].kind = "worker"

Refused(p) ==
  IF Parks(p) THEN Go(p, "parked") /\ UNCHANGED <<files, job>> ELSE Exits(p)

\* preflight_server_role, as the module is imported.
Preflight(p) ==
  /\ At(p, "preflight") /\ proc[p].kind \notin {"local", "maintenance"}
  /\ IF Free(p, "server")
     THEN /\ proc' = [proc EXCEPT ![p].at = "build", ![p].refs = {"import"}]
          /\ UNCHANGED <<files, job>>
     ELSE Refused(p)
  /\ UNCHANGED <<schedule, kills>>

\* A known serving process keeps the role that it imported under.
Retains(p) == proc[p].kind \in {"direct", "worker", "reloaded"}

\* The storage, the stores beside it, the first account, and the end of the import; or it
\* fails, when the database does not answer before the deadline, and lets the role go.
Build(p) ==
  /\ At(p, "build")
  /\ \/ /\ proc' = [proc EXCEPT
             ![p].at = IF proc[p].kind \in {"multi", "reload"} THEN "supervise" ELSE "imported",
             ![p].refs = IF Retains(p) THEN @ ELSE {}]
        /\ UNCHANGED <<files, job>>
     \/ Exits(p)
  /\ UNCHANGED <<schedule, kills>>

\* Mutant: the lifespan releases the import's reference first.
ClaimAfterRelease(p) ==
  /\ At(p, "imported")
  /\ \/ proc[p].refs # {} /\ proc' = [proc EXCEPT ![p].refs = {}] /\ UNCHANGED <<files, job>>
     \/ /\ proc[p].refs = {}
        /\ IF Free(p, "server")
           THEN /\ proc' = [proc EXCEPT ![p].at = "claimed", ![p].refs = {"serve"}]
                /\ UNCHANGED <<files, job>>
           ELSE Refused(p)
  /\ UNCHANGED <<schedule, kills>>

\* First thing of the lifespan, claim_server_role takes a second reference of this process; then
\* that of the import is released, and the dreaming task created.
Claim(p) ==
  /\ At(p, "imported")
  /\ IF Free(p, "server")
     THEN /\ proc' = [proc EXCEPT ![p].at = "claimed", ![p].refs = {"serve"}]
          /\ UNCHANGED <<files, job>>
     ELSE Refused(p)
  /\ UNCHANGED <<schedule, kills>>

------------------------------------------------------------------------------
(* The owner token and the discovery record of the endpoint. *)

\* The lock is tried once.  A record of a live pid, whoever has that pid now, is not replaced.
Replaceable == IF record = None THEN TRUE ELSE ~Running(record.pid)

WriteToken(p) ==
  /\ At(p, "claimed")
  /\ \/ /\ gate = None /\ Replaceable
        /\ gate' = p /\ token' = Owned(p)
        /\ Go(p, "record")
     \/ ~(gate = None /\ Replaceable) /\ Go(p, "stopping") /\ UNCHANGED <<token, gate>>
  /\ UNCHANGED <<record, job, schedule, kills>>

\* The record after the token; if it cannot be written the token goes.
WriteRecord(p) ==
  /\ At(p, "record")
  /\ \/ record' = Owned(p) /\ Go(p, "serving") /\ UNCHANGED token
     \/ token' = None /\ Go(p, "stopping") /\ UNCHANGED record
  /\ gate' = None
  /\ UNCHANGED <<job, schedule, kills>>

\* Mutant: the files are removed whoever wrote them.
CleanUpBlindly(p) ==
  /\ At(p, "cleanup")
  /\ proc' = [proc EXCEPT ![p] = Down]
  /\ token' = None /\ record' = None
  /\ UNCHANGED <<gate, job, schedule, kills>>

\* cleanup_owner_token_files: only its own files, and none if the lock is busy.
CleanUp(p) ==
  /\ At(p, "cleanup")
  /\ \/ /\ gate = None
        /\ proc' = [proc EXCEPT ![p] = Down]
        /\ token' = IF token = Owned(p) THEN None ELSE token
        /\ record' = IF record = Owned(p) THEN None ELSE record
        /\ UNCHANGED <<gate, job>>
     \/ Exits(p)
  /\ UNCHANGED <<schedule, kills>>

------------------------------------------------------------------------------
(* Dreaming: dreaming_loop and run_due. *)

\* Every POLL_SECONDS, unless a request was made in the last IDLE_SECONDS: the due projects are
\* read.
Poll(p) ==
  /\ At(p, "serving")
  /\ job[p] = "none"
  /\ enabled /\ due
  /\ job' = [job EXCEPT ![p] = "due"]
  /\ UNCHANGED <<proc, files, schedule, kills>>

\* Mutant: the cycle relies on what was due when the projects were read.
CycleUnchecked(p) ==
  /\ job[p] = "due"
  /\ \/ /\ ran' = ran + 1 /\ due' = FALSE
        /\ job' = [job EXCEPT ![p] = "none"]
     \/ job' = [job EXCEPT ![p] = "failed"] /\ UNCHANGED <<due, ran>>
  /\ UNCHANGED <<proc, files, enabled, kills>>

\* run(scheduled=True): one write transaction that checks again, or rolls back.
Cycle(p) ==
  /\ job[p] = "due"
  /\ \/ /\ IF enabled /\ due THEN ran' = ran + 1 /\ due' = FALSE ELSE UNCHANGED <<due, ran>>
        /\ job' = [job EXCEPT ![p] = "none"]
     \/ job' = [job EXCEPT ![p] = "failed"] /\ UNCHANGED <<due, ran>>
  /\ UNCHANGED <<proc, files, enabled, kills>>

\* Again in ten minutes, whatever has become of the schedule meanwhile.
RecordFailure(p) ==
  /\ job[p] = "failed"
  /\ \/ due' = FALSE /\ ran' = 0
     \/ UNCHANGED <<due, ran>>
  /\ job' = [job EXCEPT ![p] = "none"]
  /\ UNCHANGED <<proc, files, enabled, kills>>

\* A request to a server of the graph: next_run is set anew, by the settings or by a cycle that was
\* asked for, or dreaming is switched off.
Configure(on) ==
  /\ \E p \in Pids : At(p, "serving")
  /\ enabled' = on /\ due' = FALSE /\ ran' = 0
  /\ UNCHANGED <<proc, files, job, kills>>

\* next_run, set by the last cycle, failure or request, has come.
TimePasses ==
  /\ enabled /\ ~due
  /\ due' = TRUE /\ ran' = 0
  /\ UNCHANGED <<proc, files, job, enabled, kills>>

------------------------------------------------------------------------------
(* The end of a server, in the order of the lifespan's finally. *)

Stop(p) ==
  /\ At(p, "serving")
  /\ Go(p, "stopping")
  /\ UNCHANGED <<files, job, schedule, kills>>

\* Mutant: the dreaming task is told to stop and not waited for.
ReleaseAtOnce(p) ==
  /\ At(p, "stopping")
  /\ proc' = [proc EXCEPT ![p].at = "cleanup", ![p].refs = {}]
  /\ UNCHANGED <<files, job, schedule, kills>>

\* stop.set(); the dreaming task ends with the cycles it has begun, the storage is closed and
\* the role released, before the owner's files are removed.
Release(p) ==
  /\ At(p, "stopping") /\ job[p] = "none"
  /\ proc' = [proc EXCEPT ![p].at = "cleanup", ![p].refs = {}]
  /\ UNCHANGED <<files, job, schedule, kills>>

------------------------------------------------------------------------------
(* Supervisors, parked workers and the processes that do not serve. *)

Children(s) == {p \in Pids : proc[p].parent = s /\ ~proc[p].orphan}

\* uvicorn starts the workers, and again any that has ended.
Spawn(s, p) ==
  /\ At(s, "supervise") /\ ~Running(p)
  /\ Cardinality(Children(s)) < (IF proc[s].kind = "multi" THEN Workers ELSE 1)
  /\ proc' = [proc EXCEPT ![p] =
       [Down EXCEPT !.kind = IF proc[s].kind = "multi" THEN "worker" ELSE "reloaded",
                    !.at = "preflight", !.dir = proc[s].dir, !.parent = s]]
  /\ UNCHANGED <<files, job, schedule, kills>>

\* idle_refused_worker looks for the supervisor's pid, or is told to end.
Leave(p) ==
  /\ At(p, "parked") /\ ~Running(proc[p].parent)
  /\ Exits(p)
  /\ UNCHANGED <<schedule, kills>>

\* A supervisor that stops waits for the workers that it told to end.
Terminate(p) ==
  /\ At(p, "parked") /\ Exits(p)
  /\ UNCHANGED <<schedule, kills>>

StopSupervisor(s) ==
  /\ At(s, "supervise") /\ Children(s) = {}
  /\ Exits(s)
  /\ UNCHANGED <<schedule, kills>>

\* A local process, or offline maintenance, with the role it needs.
Use(p) ==
  /\ At(p, "preflight") /\ proc[p].kind \in {"local", "maintenance"}
  /\ IF Free(p, IF proc[p].kind = "local" THEN "local" ELSE "server")
     THEN /\ proc' = [proc EXCEPT ![p].at = "using", ![p].refs = {"serve"}]
          /\ UNCHANGED <<files, job>>
     ELSE Exits(p)
  /\ UNCHANGED <<schedule, kills>>

Finish(p) ==
  /\ At(p, "using") /\ Exits(p)
  /\ UNCHANGED <<schedule, kills>>

\* At any point; a supervisor's workers outlive it.
Kill(p) ==
  /\ Running(p) /\ kills < MaxKills
  /\ kills' = kills + 1
  /\ Exits(p)
  /\ UNCHANGED schedule

------------------------------------------------------------------------------
\* What a process does by itself.
ServerStep(p) ==
  \/ Preflight(p) \/ Build(p) \/ Claim(p)
  \/ WriteToken(p) \/ WriteRecord(p)
  \/ Release(p) \/ CleanUp(p)
  \/ Leave(p) \/ Use(p)

Dream(p) == Poll(p) \/ Cycle(p) \/ RecordFailure(p)

Environment ==
  \/ \E p \in Pids : \/ \E kind \in Kinds, d \in Dirs : Launch(p, kind, d)
                      \/ Stop(p) \/ Terminate(p) \/ StopSupervisor(p) \/ Finish(p) \/ Kill(p)
  \/ \E s, p \in Pids : Spawn(s, p)
  \/ \E on \in BOOLEAN : Configure(on)
  \/ TimePasses

ServerNext == Environment \/ \E p \in Pids : ServerStep(p) \/ Dream(p)

ServerSpec == ServerInit /\ [][ServerNext]_serverVars

------------------------------------------------------------------------------
(* What the processes around a data directory may rely on. *)

ServerTypeOK ==
  /\ proc \in [Pids -> [kind: AllKinds \cup {"none", "worker", "reloaded"}, at: Steps,
                         dir: Dirs \cup {None}, refs: SUBSET {"import", "serve"},
                         parent: Pids \cup {None}, orphan: BOOLEAN]]
  /\ \A f \in {token, record} : f = None \/ f \in [pid: Pids, ended: BOOLEAN]
  /\ gate \in Pids \cup {None}
  /\ job \in [Pids -> {"none", "due", "failed"}]
  /\ ran \in 0 .. 1
  /\ {enabled, due} \subseteq BOOLEAN

\* The steps at which a process writes to its data directory, or may.
Writes(p) ==
  proc[p].at \in {"build", "claimed", "record", "serving", "stopping",
                  "using"}

\* preflight_server_role: "they cannot race a live server, offline maintenance or a local
\* writer".  Only local processes ever write to one data directory together, from building the
\* stores at import to closing the storage, cycles of dreaming included.
OneWriter ==
  /\ \A p, q \in Pids : p # q /\ Writes(p) /\ Writes(q) /\ proc[p].dir = proc[q].dir =>
                           {proc[p].kind, proc[q].kind} = {"local"}
  /\ \A p \in Pids : job[p] # "none" => Writes(p) /\ proc[p].refs # {}

\* "known serving processes retain it for lifespan to adopt without a gap": once such a
\* process has passed its preflight its claim cannot be refused any more.
NoGap ==
  \A p \in Pids : At(p, "imported") /\ proc[p].kind \in {"direct", "worker", "reloaded"} =>
                     Free(p, "server")

\* While a server serves, the secret and the record of its endpoint are its own, whichever
\* data directories others use it with and however they end.
TokenNamesServer ==
  \A p \in Pids : At(p, "serving") => token = Owned(p) /\ record = Owned(p)

\* One cycle for each time that next_run comes, though several servers find the project due,
\* and none once dreaming has been switched off or put off.
OneCyclePerDue ==
  [][ran' > ran => enabled /\ due /\ ran = 0]_serverVars
=============================================================================
