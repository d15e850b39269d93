------------------------------ MODULE Capture -------------------------------
(***************************************************************************)
(* Captures of git activity, test reports and conversations, and the        *)
(* manifest that lets a capture skip what is captured already               *)
(* (capture/git.py, capture/tests.py, capture/conversation.py).             *)
(*                                                                         *)
(* Every capture is a process, the git hooks start theirs in the            *)
(* background.  It loads capture_manifest.json when it begins and writes    *)
(* all of it at every save: the file is truncated, then filled, and a file  *)
(* that does not parse is read as empty.  A save is therefore two steps     *)
(* here, and between any two steps the process may be killed.               *)
(*                                                                         *)
(* There is one conversation, whose versions have the same turns; a turn    *)
(* is a source record and a chunk.  What the language model finds in a      *)
(* chunk is given by Says; it can fail, or add an item that is refused.     *)
(***************************************************************************)
EXTENDS Naturals, Sequences, FiniteSets

CONSTANTS
  Procs,
  Sources,      \* commits, merges and versions of test reports
  Identity,     \* Identity[s]: the manifest's key of s
  Parts,        \* Parts[s]: how many memories a capture of s records
  Texts,        \* versions of the conversation
  Turns,        \* number of turns
  Quotes,
  Says,         \* Says[t][n]: quotes that hold a claim, in turn n of t
  None,
  Scenes        \* bounds that a behaviour may have: what is captured, how often, whether
                \* captures overlap, faults and removed memories

ASSUME TurnsAssumption == Turns \in Nat \ {0}
ASSUME ScenesAssumption == Scenes \subseteq
  [what : SUBSET (Sources \cup Texts), together : BOOLEAN, runs : Nat, faults : Nat,
   removals : Nat]
ASSUME SourcesAssumption == Parts \in [Sources -> Nat] /\ Sources \cap Texts = {}
ASSUME SaysAssumption == Says \in [Texts -> [1..Turns -> SUBSET Quotes]]
\* None is no entry of the manifest either, and no manifest.
ASSUME NoneAssumption ==
  /\ None \notin Texts \cup Sources \cup Quotes
  /\ None \notin [text : Texts, ids : Seq(Nat), done : BOOLEAN]
  /\ None \notin [text : Texts, keys : SUBSET Quotes, out : SUBSET Nat, done : BOOLEAN]
  /\ None \notin [source : [{Identity[s] : s \in Sources} -> Sources \cup {None}],
                 over : [text : Texts, ids : Seq(Nat), done : BOOLEAN] \cup {None},
                 chunk : [1..Turns -> [text : Texts, keys : SUBSET Quotes, out : SUBSET Nat,
                                       done : BOOLEAN] \cup {None}]]

VARIABLES
  rows,      \* memories in the order they were stored
  file,      \* capture_manifest.json, or None when it does not parse
  run,       \* run[p]: the capture of process p and its local variables
  scene,     \* the bounds of this behaviour
  runs, faults, removals,
  cuts,      \* those of the faults that are kills or errors of the store
  started,   \* history: sources and texts whose capture was begun
  overlap    \* history: two captures were in progress at once

vars == <<rows, file, run, scene, runs, faults, removals, cuts, started, overlap>>
history == <<scene, started, overlap>>
counts == <<scene, runs, faults, removals, cuts, started, overlap>>

Keys == {Identity[s] : s \in Sources}
Ids == 1..Len(rows)

\* The manifest's entries: by content hash, which is the source or the text.
Unwritten == [source |-> [k \in Keys |-> None], over |-> None,
              chunk |-> [n \in 1..Turns |-> None]]
Overall(t, ids, done) == [text |-> t, ids |-> ids, done |-> done]
Chunk(t, keys, out, done) == [text |-> t, keys |-> keys, out |-> out, done |-> done]

\* _load.
Loaded == IF file = None THEN Unwritten ELSE file

NoRun == [at |-> "idle", what |-> None, data |-> Unwritten, saving |-> FALSE, ids |-> <<>>,
          turn |-> 0, todo |-> {}, keys |-> {}, out |-> {}, failed |-> FALSE, clean |-> TRUE]

Init ==
  /\ rows = <<>>
  /\ file = Unwritten
  /\ run = [p \in Procs |-> NoRun]
  /\ scene \in Scenes
  /\ runs = 0 /\ faults = 0 /\ removals = 0 /\ cuts = 0
  /\ started = {} /\ overlap = FALSE

Busy(p) == run[p].saving \/ run[p].at \notin {"idle", "ended"}
At(p, at) == run[p].at = at /\ ~run[p].saving
Fault == faults < scene.faults /\ faults' = faults + 1
NoFault == UNCHANGED faults
\* A process is killed, or a call of the store raises.
Cut == Fault /\ cuts' = cuts + 1

(***************************************************************************)
(* The manifest.                                                            *)
(***************************************************************************)
\* _write: the file is open and empty until Fill.
Save(p, r) ==
  /\ run' = [run EXCEPT ![p] = [r EXCEPT !.saving = TRUE]]
  /\ file' = None

\* What another capture wrote in the meantime may outlast a shorter text.
Fill(p) ==
  /\ run[p].saving
  /\ run' = [run EXCEPT ![p].saving = FALSE]
  /\ \/ file' = run[p].data
     \/ file # None /\ file' = None
  /\ UNCHANGED <<rows, counts>>

SetRun(p, r) == run' = [run EXCEPT ![p] = r] /\ UNCHANGED file

Begin(p, r) ==
  /\ ~Busy(p) /\ runs < scene.runs /\ r.what \in scene.what
  /\ scene.together \/ \A q \in Procs : ~Busy(q)
  /\ runs' = runs + 1
  /\ started' = started \cup {r.what}
  /\ overlap' = (overlap \/ \E q \in Procs \ {p} : Busy(q))
  /\ SetRun(p, r)
  /\ UNCHANGED <<rows, scene, faults, removals, cuts>>

Row(says, from) == [says |-> {says}, from |-> from, gone |-> "no"]

(***************************************************************************)
(* Commits, merges and reports: the memories one by one, then the entry.    *)
(***************************************************************************)
\* check.  Finding an entry rewrites the manifest as well.
Seen(m, s) == m.source[Identity[s]] = s

Start(p, s) ==
  Begin(p, [NoRun EXCEPT !.at = IF Seen(Loaded, s) THEN "seen" ELSE "parts",
                         !.what = s, !.data = Loaded])

Unchanged(p) ==
  /\ At(p, "seen")
  /\ Save(p, [run[p] EXCEPT !.at = "ended"])
  /\ UNCHANGED <<rows, counts>>

StorePart(p) ==
  LET r == run[p] IN
  /\ At(p, "parts") /\ r.turn < Parts[r.what]
  /\ rows' = Append(rows, Row(<<r.what, r.turn + 1, None>>, {}))
  /\ SetRun(p, [r EXCEPT !.turn = r.turn + 1])
  /\ UNCHANGED counts

\* record.
\* Mutant: one memory short.
RecordSourceEarly(p) ==
  LET r == run[p] IN
  /\ At(p, "parts") /\ r.turn + 1 >= Parts[r.what]
  /\ Save(p, [r EXCEPT !.data.source[Identity[r.what]] = r.what, !.at = "ended"])
  /\ UNCHANGED <<rows, counts>>
RecordSource(p) ==
  LET r == run[p] IN
  /\ At(p, "parts") /\ r.turn = Parts[r.what]
  /\ Save(p, [r EXCEPT !.data.source[Identity[r.what]] = r.what, !.at = "ended"])
  /\ UNCHANGED <<rows, counts>>

(***************************************************************************)
(* The conversation's source records.                                       *)
(***************************************************************************)
\* The entry's source memories, if the text is the same.
\* Mutant: those of any version.
SavedOfAny(over, t) == IF over # None THEN over.ids ELSE <<>>
Saved(over, t) == IF over # None /\ over.text = t THEN over.ids ELSE <<>>

\* parse_text.
StartText(p, t) ==
  LET over == Loaded.over
      known == over # None /\ over.text = t
  IN Begin(p, [NoRun EXCEPT !.what = t, !.data = Loaded, !.ids = Saved(over, t),
                 !.at = IF ~known THEN "begin" ELSE IF over.done THEN "ended" ELSE "reuse"])

\* The entry is recorded and updated in two saves of the same content.
RecordText(p) ==
  LET r == run[p] IN
  /\ At(p, "begin")
  /\ Save(p, [r EXCEPT !.data.over = Overall(r.what, <<>>, FALSE), !.at = "reuse"])
  /\ UNCHANGED <<rows, counts>>

\* Mutant: what an earlier run stored is not looked up.
ReuseNothing(p) == At(p, "reuse") /\ SetRun(p, [run[p] EXCEPT !.ids = <<>>, !.at = "sources"])
                   /\ UNCHANGED <<rows, counts>>

\* Those up to the first one that is missing, or that get_memory, which also counts the
\* access, raises on; one in the trash is found.
Reuse(p) ==
  LET ids == run[p].ids
      Found(i) == rows[ids[i]].gone # "purged"
  IN /\ At(p, "reuse")
     /\ \E n \in 0..Len(ids) :
          /\ \A i \in 1..n : Found(i)
          /\ \/ (n < Len(ids) => ~Found(n + 1)) /\ UNCHANGED <<faults, cuts>>
             \/ n < Len(ids) /\ Cut
          /\ SetRun(p, [run[p] EXCEPT !.ids = SubSeq(ids, 1, n), !.at = "sources"])
     /\ UNCHANGED <<rows, runs, removals, history>>

StoreTurn(p) ==
  LET r == run[p] IN
  /\ At(p, "sources") /\ Len(r.ids) < Turns
  /\ rows' = Append(rows, Row(<<r.what, Len(r.ids) + 1, None>>, {}))
  /\ SetRun(p, [r EXCEPT !.ids = Append(r.ids, Len(rows) + 1), !.at = "stored"])
  /\ UNCHANGED counts

NoteTurn(p) ==
  LET r == run[p] IN
  /\ At(p, "stored")
  /\ Save(p, [r EXCEPT !.data.over.ids = r.ids, !.at = "sources"])
  /\ UNCHANGED <<rows, counts>>

Sourced(p) ==
  LET r == run[p] IN
  /\ At(p, "sources") /\ Len(r.ids) = Turns
  /\ Save(p, [r EXCEPT !.data.over = Overall(r.what, r.ids, FALSE), !.at = "chunk",
                       !.turn = 1])
  /\ UNCHANGED <<rows, counts>>

(***************************************************************************)
(* The conversation's chunks.                                               *)
(***************************************************************************)
NoChunk == Chunk(None, {}, {}, FALSE)

\* The chunk's hash covers the whole text.
\* Mutant: it covers the chunk's identity only.
EntryOfAny(m, t, n) == IF m.chunk[n] # None THEN m.chunk[n] ELSE NoChunk
Entry(m, t, n) == IF m.chunk[n] # None /\ m.chunk[n].text = t THEN m.chunk[n] ELSE NoChunk
Mine(p) == Entry(run[p].data, run[p].what, run[p].turn)
InChunk(p) == At(p, "chunk") /\ run[p].turn <= Turns

\* Mutant: a chunk that was tried is not tried again.
SkipTried(p) ==
  /\ InChunk(p) /\ Mine(p) # NoChunk
  /\ SetRun(p, [run[p] EXCEPT !.turn = run[p].turn + 1])
  /\ UNCHANGED <<rows, counts>>
SkipChunk(p) ==
  /\ InChunk(p) /\ Mine(p).done
  /\ SetRun(p, [run[p] EXCEPT !.turn = run[p].turn + 1])
  /\ UNCHANGED <<rows, counts>>

Recorded(r, keys, done) == [r EXCEPT !.data.chunk[r.turn] = Chunk(r.what, keys, r.out, done)]

AskFails(p) ==
  LET r == [run[p] EXCEPT !.out = Mine(p).out, !.keys = Mine(p).keys, !.failed = TRUE,
                          !.clean = FALSE]
  IN
  /\ InChunk(p) /\ ~Mine(p).done /\ Fault
  /\ Save(p, [Recorded(r, {}, FALSE) EXCEPT !.at = "closed"])
  /\ UNCHANGED <<rows, runs, removals, cuts, history>>

\* The answer may hold an item that _validate_claim refuses.
Ask(p, refused) ==
  /\ InChunk(p) /\ ~Mine(p).done
  /\ IF refused THEN Fault ELSE NoFault
  /\ SetRun(p, [run[p] EXCEPT !.at = "claims", !.keys = Mine(p).keys, !.out = Mine(p).out,
                  !.todo = Says[run[p].what][run[p].turn] \ Mine(p).keys,
                  !.failed = refused, !.clean = run[p].clean /\ ~refused])
  /\ UNCHANGED <<rows, runs, removals, cuts, history>>

\* A claim cites the turn of its quote and the one before it.
Cited(p) == {run[p].ids[n] : n \in {run[p].turn - 1, run[p].turn} \cap 1..Turns}
Item(p, q) == <<run[p].what, run[p].turn, q>>

Learned(p, q, id) ==
  SetRun(p, [run[p] EXCEPT !.at = "learned", !.todo = @ \ {q}, !.keys = @ \cup {q},
                           !.out = @ \cup {id}])

\* learn refuses a source that is missing or in the trash, and may fold the claim into a
\* memory that says the same.
Citable(p) == \A s \in Cited(p) : rows[s].gone = "no"
Adds(p, q) == rows' = Append(rows, Row(Item(p, q), Cited(p)))
Folds(p, q, m) ==
  /\ rows[m].gone = "no" /\ \E i \in rows[m].says : i[3] = q
  /\ rows' = [rows EXCEPT ![m].says = @ \cup {Item(p, q)}, ![m].from = @ \cup Cited(p)]

LearnNew(p, q) ==
  /\ At(p, "claims") /\ q \in run[p].todo /\ Citable(p)
  /\ Adds(p, q)
  /\ Learned(p, q, Len(rows) + 1)
  /\ UNCHANGED counts

LearnFolds(p, q, m) ==
  /\ At(p, "claims") /\ q \in run[p].todo /\ Citable(p)
  /\ m \in Ids /\ Folds(p, q, m)
  /\ Learned(p, q, m)
  /\ UNCHANGED counts

\* An error of the store may come before or after what it stores is committed.
LearnFails(p) ==
  /\ At(p, "claims")
  /\ \E q \in run[p].todo :
       \/ ~Citable(p) /\ NoFault /\ UNCHANGED <<rows, cuts>>
       \/ Citable(p) /\ Cut /\ (UNCHANGED rows \/ Adds(p, q) \/ \E m \in Ids : Folds(p, q, m))
  /\ SetRun(p, [run[p] EXCEPT !.todo = {}, !.failed = TRUE, !.clean = FALSE])
  /\ UNCHANGED <<runs, removals, history>>

\* record drops the keys of the chunk's items until _update_entry has put them back.
NoteClaim(p) ==
  /\ At(p, "learned")
  /\ Save(p, [Recorded(run[p], {}, FALSE) EXCEPT !.at = "noted"])
  /\ UNCHANGED <<rows, counts>>

NoteKeys(p) ==
  /\ At(p, "noted")
  /\ Save(p, [Recorded(run[p], run[p].keys, FALSE) EXCEPT !.at = "claims"])
  /\ UNCHANGED <<rows, counts>>

\* Mutant: a chunk is complete when its items were looked at.
CloseAnyChunk(p) ==
  /\ At(p, "claims") /\ run[p].todo = {}
  /\ Save(p, [Recorded([run[p] EXCEPT !.failed = FALSE], {}, TRUE) EXCEPT !.at = "closed"])
  /\ UNCHANGED <<rows, counts>>
CloseChunk(p) ==
  /\ At(p, "claims") /\ run[p].todo = {}
  /\ Save(p, [Recorded(run[p], {}, ~run[p].failed) EXCEPT !.at = "closed"])
  /\ UNCHANGED <<rows, counts>>

CloseKeys(p) ==
  /\ At(p, "closed")
  /\ Save(p, [Recorded(run[p], run[p].keys, ~run[p].failed)
               EXCEPT !.at = "chunk", !.turn = run[p].turn + 1])
  /\ UNCHANGED <<rows, counts>>

AllChunksComplete(m) == \A n \in 1..Turns : m.chunk[n] # None /\ m.chunk[n].done

\* record drops the source memories until _update_entry has put them back.
Finish(p) ==
  LET r == run[p] IN
  /\ At(p, "chunk") /\ r.turn > Turns
  /\ Save(p, [r EXCEPT !.data.over = Overall(r.what, <<>>, FALSE), !.at = "finish"])
  /\ UNCHANGED <<rows, counts>>

Complete(p) ==
  LET r == run[p] IN
  /\ At(p, "finish")
  /\ Save(p, [r EXCEPT !.data.over = Overall(r.what, r.ids, AllChunksComplete(r.data)),
                       !.at = "ended"])
  /\ UNCHANGED <<rows, counts>>

(***************************************************************************)
(* Faults.                                                                  *)
(***************************************************************************)
\* Memory.record raises, before or after the row is committed.
StoreFails(p) ==
  LET r == run[p]
      Fails(n) == \/ UNCHANGED rows
                  \/ rows' = Append(rows, Row(<<r.what, n, None>>, {}))
  IN /\ \/ At(p, "parts") /\ r.turn < Parts[r.what] /\ Fails(r.turn + 1)
        \/ At(p, "sources") /\ Len(r.ids) < Turns /\ Fails(Len(r.ids) + 1)
     /\ Cut
     /\ SetRun(p, [r EXCEPT !.at = "ended", !.clean = FALSE])
     /\ UNCHANGED <<runs, removals, history>>

Crash(p) ==
  /\ Busy(p)
  /\ Cut
  /\ SetRun(p, NoRun)
  /\ UNCHANGED <<rows, runs, removals, history>>

\* A person moves a memory to the trash, or purges it.
Remove(m, how) ==
  /\ removals < scene.removals /\ removals' = removals + 1
  /\ m \in Ids /\ rows[m].gone # "purged" /\ how \in {"trashed", "purged"}
  /\ rows' = [rows EXCEPT ![m].gone = how]
  /\ UNCHANGED <<file, run, runs, faults, cuts, history>>

ConversationStep(p) ==
  \/ RecordText(p) \/ Reuse(p) \/ StoreTurn(p) \/ NoteTurn(p) \/ Sourced(p)
  \/ SkipChunk(p) \/ AskFails(p) \/ \E refused \in BOOLEAN : Ask(p, refused)
  \/ \E q \in Quotes : LearnNew(p, q) \/ \E m \in Ids : LearnFolds(p, q, m)
  \/ LearnFails(p) \/ NoteClaim(p) \/ NoteKeys(p)
  \/ CloseChunk(p) \/ CloseKeys(p) \/ Finish(p) \/ Complete(p)

Next ==
  \/ \E p \in Procs :
       \/ \E s \in Sources : Start(p, s)
       \/ \E t \in Texts : StartText(p, t)
       \/ Fill(p) \/ Unchanged(p) \/ StorePart(p) \/ RecordSource(p)
       \/ ConversationStep(p)
       \/ StoreFails(p) \/ Crash(p)
  \/ \E m \in Ids, how \in {"trashed", "purged"} : Remove(m, how)

Spec == Init /\ [][Next]_vars
=============================================================================
