------------------------------- MODULE Recall -------------------------------
(***************************************************************************)
(* Reading memories back: recall with its refilled windows                  *)
(* (core/recall_candidates.py, Memory.recall), recall for a task, which     *)
(* adds what the task's code reaches (core/contract_recall.py,              *)
(* core/hybrid_retrieval.py), and what is put into a prompt without being   *)
(* asked for (core/injection.py).                                           *)
(*                                                                         *)
(* One call is made of many reads of a store whose rows meanwhile come and  *)
(* go; each search, the list of the newest rows and the count of rows are   *)
(* one action.  Scores are integers in units of 1/10000.  A memory's number *)
(* is its age: 1 is the newest; ties in score are broken by it.             *)
(***************************************************************************)
EXTENDS Integers, FiniteSets, FiniteSetsExt

CONSTANTS
  Mems,
  Layers,         \* the layers in the order in which they are searched
  RecallLayers,   \* how many of them recall searches, 3 of 4: raw memories are only retrieved
  Limits,         \* limits that a recall may be given
  Scenes,         \* what the memories are like: see Scene
  DirectLimit,    \* a direct search's limit: 40 in the code
  DirectCut,      \* how many direct hits are ranked: 60
  CorpusLimit,    \* how many of the newest rows are considered: 500
  FirstSeeds,     \* direct hits that seed the walk before identity matches: 5
  MaxSeeds,       \* 8
  Iterations,     \* of the walk: 20
  GraphReach,     \* how far down the walk's order memories are admitted: 160
  RetrievalWindow,\* 80
  MaxAdmissions,  \* 3
  InjectLimit,    \* CANDIDATE_LIMIT: 20
  MinCorpus,      \* 5
  MaxMemories,    \* 4
  MaxChars        \* 1200

Unit == 10000
Last == Cardinality(DOMAIN Layers)

\* of: the memories; links: weighted relationships; indexed: memories that the vector index
\* has; live: the rows that are active at first; modes and changes bound what is asked and
\* how often rows are retired or come back.
Profiles ==
  [layer : {Layers[i] : i \in DOMAIN Layers}, base : 0..Unit, overlap : 0..Unit, near : 0..Unit,
   text : BOOLEAN, boost : 0..Unit, usable : BOOLEAN, trusted : BOOLEAN,
   kind : {"plain", "warning", "hypothesis"}, size : Nat, terms : SUBSET Nat,
   place : {"named", "spelled", "hop1", "hop2", "far"},
   tree : {"none", "present", "missing", "unsure"}, specificity : 0..Unit]
SceneTypes ==
  [of : [Mems -> Profiles], links : SUBSET [from : Mems, to : Mems, weight : 1..Unit],
   indexed : SUBSET Mems, live : SUBSET Mems, modes : SUBSET {"recall", "task", "inject"},
   changes : Nat]

ASSUME MemsAssumption == Mems \subseteq Nat \ {0} /\ IsFiniteSet(Mems)
ASSUME LayersAssumption ==
  /\ Last \in Nat /\ DOMAIN Layers = 1..Last /\ RecallLayers \in 1..Last
  /\ \A i, j \in 1..Last : Layers[i] = Layers[j] => i = j
ASSUME LimitsAssumption ==
  /\ Limits \cup {DirectLimit, InjectLimit, GraphReach, RetrievalWindow} \subseteq Nat \ {0}
  /\ {MaxAdmissions, MaxMemories, MaxChars} \subseteq Nat
ASSUME ScenesAssumption == Scenes \subseteq SceneTypes

VARIABLES
  scene, live,
  changes,   \* how often the rows have changed
  ask,       \* what was asked for
  at,        \* where the call stands
  layer,     \* the layer searched next
  window,    \* the next search's limit
  seen,      \* ids that earlier windows of this layer returned
  found,     \* eligible rows of the layers searched so far
  vector,    \* those of them that the vector index found
  results,   \* what recall has returned
  corpus,    \* the newest rows as listed
  walk,      \* the walk over relationships: mass by memory, and where it goes
  answer     \* what was retrieved for the task, or selected for the prompt

vars == <<scene, live, changes, ask, at, layer, window, seen, found, vector, results, corpus,
          walk, answer>>
store == <<scene, live, changes>>
call == <<ask, at, layer, window, seen, found, vector, results, corpus, walk, answer>>

Of(m) == scene.of[m]
In(l) == {m \in Mems : Of(m).layer = Layers[l]}
Least(x, y) == IF x < y THEN x ELSE y
Most(x, y) == IF x < y THEN y ELSE x

\* The first n of S by key, higher first, and a member's place in that order.
First(key, x, y) == key[x] > key[y] \/ (key[x] = key[y] /\ x < y)
Place(S, key, x) == 1 + Cardinality({y \in S : First(key, y, x)})
Top(S, n, key) == {x \in S : Place(S, key, x) <= n}

\* A row found by its words has their overlap for similarity, one found by the vector index
\* its nearness, a listed row none; a near vector is worth no less than that.
Score(m, similarity) == Least(Unit, Of(m).base + similarity \div 2)
Relevance(m, v) ==
  IF m \in v THEN Most(Score(m, Of(m).near), Of(m).near) ELSE Score(m, Of(m).overlap)
Relevances(v) == [m \in Mems |-> Relevance(m, v)]
Listed == [m \in Mems |-> Score(m, 0)]
Boosted(v) == [m \in Mems |-> Least(Unit, Relevance(m, v) + Of(m).boost)]

---------------------------------------------------------------------------
\* The store's search of layer l: the nearest n vectors, without those whose row was not
\* active when it was read, then rows that have a word of the query, as far as n is not full.
Nearest(l, n) == Top(In(l) \cap scene.indexed, n, [m \in Mems |-> Of(m).near])
Worded(l) == {m \in In(l) \cap live : Of(m).text}
\* Mutant: rows are searched by their words only when no vector was near.
ByWordsIfNone(l, v, n) == IF v = {} THEN Top(Worded(l), n, Relevances({})) ELSE {}
ByWords(l, v, n) == Top(Worded(l) \ v, n - Cardinality(v), Relevances({}))

Floor == IF ask.mode = "inject" THEN 4000 ELSE 5600
Eligible(S) == {m \in S : Of(m).usable}
Usable(S, v) == {m \in Eligible(S) : Boosted(v)[m] >= Floor}

Request(mode, limit, files, graph, thin) ==
  [mode |-> mode, limit |-> limit, files |-> files, graph |-> graph, thin |-> thin]
Requests ==
  {Request("recall", n, FALSE, FALSE, FALSE) : n \in Limits}
  \cup {Request("task", n, TRUE, g, FALSE) : n \in Limits, g \in BOOLEAN}
  \cup {Request("inject", InjectLimit, f, FALSE, t) : f, t \in BOOLEAN}

Init ==
  /\ scene \in Scenes
  /\ live = scene.live
  /\ changes = 0
  /\ ask \in {r \in Requests : r.mode \in scene.modes}
  /\ at = "refill"
  /\ layer = 1
  /\ window = ask.limit
  /\ seen = {} /\ found = {} /\ vector = {} /\ results = {} /\ corpus = {}
  /\ walk = {} /\ answer = {}

\* Other callers trash, archive, supersede, restore and record memories.
Change ==
  /\ changes < scene.changes /\ at \in {"refill", "direct", "corpus", "inject"}
  /\ changes' = changes + 1
  /\ \E m \in Mems : live' = IF m \in live THEN live \ {m} ELSE live \cup {m}
  /\ UNCHANGED <<scene, call>>

---------------------------------------------------------------------------
\* _layer_candidates: a window that has too little that is usable is doubled, unless it was
\* not full or had nothing new.
Full(got) == Cardinality(got) >= window
Suffices(got, v) == Cardinality(Usable(got, v)) >= ask.limit

\* Mutants: the window grows by the limit; a window is given up when a known row is in it.
WidenedByLimit == window + ask.limit
Widened == 2 * window
AnyKnown(got) == got \cap seen # {}
Stale(got) == got \subseteq seen

Search(got, v) ==
  /\ IF ~Suffices(got, v) /\ Full(got) /\ ~Stale(got)
       THEN /\ seen' = seen \cup got
            /\ window' = Widened
            /\ UNCHANGED <<layer, found, vector, at>>
       ELSE /\ seen' = {}
            /\ window' = ask.limit
            /\ found' = found \cup Eligible(got)
            /\ vector' = vector \cup v
            /\ layer' = layer + 1
            /\ at' = IF layer = RecallLayers THEN "rank" ELSE "refill"
  /\ UNCHANGED <<ask, results, corpus, walk, answer, store>>

\* The index may be behind the rows: a hit whose row is not active when it is read is dropped,
\* which a row may be that is back for the search by words.  The index may also fail.
Hits(l, n) ==
  LET hits == Nearest(l, n) \cap live
  IN  {hits, {}} \cup {hits \ {m} : m \in hits}

Refill ==
  /\ at = "refill"
  /\ \E v \in Hits(layer, window) : Search(v \cup ByWords(layer, v, window), v)

\* Memory.recall ranks what all layers have and cuts it to the limit.
Ranked == Top(Usable(found, vector), ask.limit, Boosted(vector))

Rank ==
  /\ at = "rank"
  /\ results' = Ranked
  /\ IF ask.mode = "task"
       THEN at' = "direct" /\ layer' = 1 /\ found' = {} /\ vector' = {}
       ELSE /\ at' = IF ask.mode = "inject" THEN "inject" ELSE "done"
            /\ UNCHANGED <<layer, found, vector>>
  /\ UNCHANGED <<ask, window, seen, corpus, walk, answer, store>>

---------------------------------------------------------------------------
\* HybridRetriever.retrieve, for a task that has files: one search of every layer, then the
\* newest rows.
Direct ==
  /\ at = "direct"
  /\ \E v \in Hits(layer, DirectLimit) :
       /\ found' = found \cup Eligible(v \cup ByWords(layer, v, DirectLimit))
       /\ vector' = vector \cup v
  /\ layer' = layer + 1
  /\ at' = IF layer = Last THEN "corpus" ELSE "direct"
  /\ UNCHANGED <<ask, window, seen, results, corpus, walk, answer, store>>

\* A text hit needs evidence in the text, and more than little of it unless it is about the
\* task's files.
Evidence(m) == Of(m).overlap > 0 \/ (m \in vector /\ Of(m).near >= 5600)
TextHits ==
  {m \in Top(found, DirectCut, Relevances(vector)) :
     /\ Relevance(m, vector) >= 1600
     /\ Evidence(m)
     /\ Of(m).place = "named" \/ Relevance(m, vector) >= 3000}

Newest(n) == {m \in live : Cardinality({k \in live : k < m}) < n}

List ==
  /\ at = "corpus"
  /\ corpus' = Eligible(Newest(CorpusLimit))
  /\ found' = TextHits
  /\ at' = "seed"
  /\ UNCHANGED <<ask, layer, window, seen, vector, results, walk, answer, store>>

Exact == {m \in corpus : Of(m).place = "named"}
Identified == Top(Exact, DirectCut, Listed)
\* Files one or two steps from the task's; the task's own, in another spelling, are none of them.
Proximity(m) ==
  CASE Of(m).place = "hop1" -> Unit \div 2
    [] Of(m).place = "hop2" -> Unit \div 4
    [] Of(m).place \in {"named", "spelled", "far"} -> 0
Nearby(graph) ==
  IF graph THEN {m \in corpus \ Exact : Proximity(m) >= Unit \div 4} ELSE {}

\* The walk starts at the best text hits, then identity matches, then other text hits.
FirstHits == Top(found, FirstSeeds, Relevances(vector))
Turn(m) ==
  CASE m \in FirstHits -> 0
    [] m \in Identified \ FirstHits -> Unit + Place(Identified, Listed, m)
    [] OTHER -> 2 * Unit + Place(found, Relevances(vector), m)
\* Mutant: memories near the task's files seed the walk, too.
SeedsNearby(graph) ==
  LET able == found \cup Identified \cup Nearby(graph)
  IN  Top(able, MaxSeeds, [m \in able |-> -Turn(m)])
Seeds(graph) ==
  LET able == found \cup Identified IN Top(able, MaxSeeds, [m \in able |-> -Turn(m)])
\* An identity match that is none of the first hits starts with the relevance of a listed row.
Seed(m) ==
  LET value == CASE m \in FirstHits \/ m \notin Identified -> Relevance(m, vector)
                 [] m \in (Identified \cap found) \ FirstHits -> Listed[m]
                 [] m \in Identified \ found -> Most(5200, Listed[m])
  IN  (Most(100, value) * (Unit + Of(m).specificity)) \div (2 * Unit)

\* personalized_pagerank: half of a memory's mass goes to its neighbours by the weight of their
\* relationships (to the seeds when it has none), and half of all mass comes from the seeds.
Links(able) == {l \in scene.links : {l.from, l.to} \subseteq able /\ l.from # l.to}
Weight(links, x, y) ==
  Max({0} \cup {l.weight : l \in {k \in links : {k.from, k.to} = {x, y}}})
Total(seeds) == MapThenSumSet(Seed, seeds)
Degree(links, nodes, x) == MapThenSumSet(LAMBDA y : Weight(links, x, y), nodes)
Flow(m) ==
  MapThenSumSet(LAMBDA x : (walk.mass[x] * walk.part[x][m]) \div Unit, DOMAIN walk.mass)

Begin ==
  /\ at = "seed"
  /\ \E seeds \in {Seeds(ask.graph)} : \E links \in {Links(corpus \cup seeds)} :
       LET nodes == seeds \cup UNION {{l.from, l.to} : l \in links}
           restart == [m \in nodes |->
                         IF m \in seeds THEN (Seed(m) * Unit) \div Total(seeds) ELSE 0]
           part(x) == IF Degree(links, nodes, x) = 0 THEN restart
                      ELSE [m \in nodes |->
                              (Weight(links, x, m) * Unit) \div Degree(links, nodes, x)]
       IN  walk' = [mass |-> restart, restart |-> restart, round |-> 0,
                    part |-> [x \in nodes |-> part(x)]]
  /\ at' = "walk"
  /\ UNCHANGED <<ask, layer, window, seen, found, vector, results, corpus, answer, store>>

Walk ==
  /\ at = "walk"
  /\ walk' = [walk EXCEPT
                !.mass = [m \in DOMAIN walk.mass |-> (walk.restart[m] + Flow(m)) \div 2],
                !.round = @ + 1]
  /\ at' = IF walk.round + 1 = Iterations THEN "retrieve" ELSE "walk"
  /\ UNCHANGED <<ask, layer, window, seen, found, vector, results, corpus, answer, store>>

\* What the walk reached, in its order.
Reached == {m \in DOMAIN walk.mass : walk.mass[m] > 0}
Associated == Top(Reached, GraphReach, walk.mass)

\* Memories admitted because their files are near the task's files: what no other channel
\* has, nearer ones first, then those that the query's words like better.
\* Mutant: what the walk over relationships has reached is admitted, too.
AdmissibleReached(graph) == Nearby(graph) \ (found \cup Exact)
Admissible(graph) == Nearby(graph) \ (found \cup Exact \cup Associated)
Admitted(graph) ==
  LET able == Admissible(graph)
  IN  Top(able, MaxAdmissions, [m \in able |-> Proximity(m) * Unit + Listed[m]])

\* Scores by channel; the share of the ranks (rrf) is 1 when all three channels put a memory
\* first.  A text hit has its relevance, an identity match at least 0.52, one that the walk
\* reached half its mass, and an admitted one its nearness, below every identity match.
Share(ranks) ==
  LET term(weight, rank) == IF rank = 0 THEN 0 ELSE (weight * Unit) \div (60 + rank)
  IN  Least(Unit, ((term(100, ranks[1]) + term(85, ranks[2]) + term(75, ranks[3])) * Unit)
                    \div (term(100, 1) + term(85, 1) + term(75, 1)))
TextRank(m) == IF m \in found THEN Place(found, Relevances(vector), m) ELSE 0
WalkRank(m) == IF m \in Reached THEN Place(Reached, walk.mass, m) ELSE 0
CodeRank(admitted, m) ==
  CASE m \in admitted ->
         Cardinality(Identified) + Place(admitted, [k \in Mems |-> Proximity(k)], m)
    [] m \in Identified \ admitted -> Place(Identified, Listed, m)
    [] OTHER -> 0
Value(admitted, m) ==
  LET share == Share(<<TextRank(m), CodeRank(admitted, m), WalkRank(m)>>)
      percent(p) == (p * share) \div 100
  IN  IF m \in found THEN Least(Unit, Relevance(m, vector) + percent(12))
      ELSE IF m \in Exact THEN Least(7500, 5200 + percent(12))
      ELSE IF m \in admitted THEN Least(5100, (52 * Proximity(m)) \div 100 + percent(12))
      ELSE Least(5500, (IF m \in Reached THEN walk.mass[m] \div 2 ELSE 0) + percent(15))

\* The order of the result: by value, then the rank as text, then the walk's, then the number.
Key(admitted, m) ==
  LET place(rank) == IF rank = 0 THEN Unit ELSE rank
  IN  <<-Value(admitted, m), place(TextRank(m)), place(WalkRank(m)), m>>
Before(a, b) == \E i \in 1..4 : a[i] < b[i] /\ \A j \in 1..(i - 1) : a[j] = b[j]
Window(S, key) ==
  {m \in S : Cardinality({k \in S : Before(key[k], key[m])}) < RetrievalWindow}

\* Admitted memories are added to what the window keeps of the others.
\* Mutant: one window for all.
KeptOfAll(base, admitted, key) == Window(base \cup admitted, key)
Kept(base, admitted, key) == Window(base, key) \cup admitted

Retrieval(graph) ==
  LET admitted == Admitted(graph)
      base == found \cup Exact \cup (corpus \cap Associated)
      key == [m \in base \cup admitted |-> Key(admitted, m)]
      kept == Kept(base, admitted, key)
  IN  [admitted |-> admitted, key |-> [m \in kept |-> key[m]]]

\* recall_for_task appends the best of what the task's code reached and recall has not.
Retrieve ==
  /\ at = "retrieve"
  /\ LET r == Retrieval(ask.graph)
         able == (DOMAIN r.key \cap (Exact \cup r.admitted)) \ results
     IN  answer' = [retrieved |-> r,
                    added |-> Top(able, MaxAdmissions, [m \in able |-> -r.key[m][1]])]
  /\ at' = "done"
  /\ UNCHANGED <<ask, layer, window, seen, found, vector, results, corpus, walk, store>>

---------------------------------------------------------------------------
\* inject_for_task, select_for_injection.  A thin store or a vague task leaves warnings only, a
\* vague task without files nothing.
Warning(m) == Of(m).kind = "warning"
Trusted == {m \in results : Of(m).trusted}
WarningsOnly == ask.thin \/ Cardinality(live) < MinCorpus

\* A memory must stand out from the weakest, unless it is a warning, strong or anchored.
Lowest == IF Cardinality(Trusted) > 1 THEN Min({Boosted(vector)[m] : m \in Trusted}) + 400 ELSE 0
Anchored(m) == ask.files /\ Of(m).place \in {"named", "spelled"}
Relevant(m) ==
  IF WarningsOnly THEN Warning(m)
  ELSE \/ Warning(m) \/ Anchored(m) \/ Boosted(vector)[m] >= 6800
       \/ Boosted(vector)[m] >= Most(5500, Lowest)

\* Memories about deleted code are left out, if any anchor shows that this is their tree.
Current ==
  IF \E m \in Trusted : Of(m).tree = "present"
    THEN {m \in Trusted : Of(m).tree # "missing"} ELSE Trusted
Offered == IF ask.thin /\ ~ask.files THEN {} ELSE {m \in Current : Relevant(m)}

Alike(x, y) ==
  /\ Of(x).terms \cap Of(y).terms # {}
  /\ 10 * Cardinality(Of(x).terms \cap Of(y).terms) >= 7 * Cardinality(Of(x).terms \cup Of(y).terms)
Chars(S) == MapThenSumSet(LAMBDA m : Of(m).size, S)

\* One candidate after another, anchored ones first: what is full, redundant or too long is
\* passed over; a hypothesis uses up characters but no place.
Nothing == [memories |-> {}, hypotheses |-> {}]
Used(s) == Chars(s.memories \cup s.hypotheses)
\* Mutant: the characters of a hypothesis do not count.
FitsBesideHypotheses(s, m) ==
  /\ Cardinality(s.memories) < MaxMemories
  /\ \A k \in s.memories : ~Alike(k, m)
  /\ Chars(s.memories) + Of(m).size <= MaxChars
Fits(s, m) ==
  /\ Cardinality(s.memories) < MaxMemories
  /\ \A k \in s.memories : ~Alike(k, m)
  /\ Used(s) + Of(m).size <= MaxChars
Take(s, m) ==
  IF Of(m).kind = "hypothesis" THEN [s EXCEPT !.hypotheses = @ \cup {m}]
  ELSE [s EXCEPT !.memories = @ \cup {m}]

Standing == [m \in Offered |-> Boosted(vector)[m] + IF Anchored(m) THEN 2 * Unit ELSE 0]
Nth(i) == CHOOSE m \in Offered : Place(Offered, Standing, m) = i

\* Mutant: the first candidate that does not fit ends the selection.
SelectionUntilFull ==
  LET after[i \in 0..Cardinality(Offered)] ==
        IF i = 0 THEN [s |-> Nothing, open |-> TRUE]
        ELSE LET a == after[i - 1]
             IN  IF a.open /\ Fits(a.s, Nth(i)) THEN [a EXCEPT !.s = Take(a.s, Nth(i))]
                 ELSE [a EXCEPT !.open = FALSE]
  IN  after[Cardinality(Offered)].s
Selection ==
  LET after[i \in 0..Cardinality(Offered)] ==
        IF i = 0 THEN Nothing
        ELSE LET s == after[i - 1] IN IF Fits(s, Nth(i)) THEN Take(s, Nth(i)) ELSE s
  IN  after[Cardinality(Offered)]

Inject ==
  /\ at = "inject"
  /\ answer' = Selection
  /\ at' = "done"
  /\ UNCHANGED <<ask, layer, window, seen, found, vector, results, corpus, walk, store>>

---------------------------------------------------------------------------
Next == Change \/ Refill \/ Rank \/ Direct \/ List \/ Begin \/ Walk \/ Retrieve \/ Inject
Spec == Init /\ [][Next]_vars

---------------------------------------------------------------------------
(* Properties. *)

\* A layer is left with fewer usable memories than were asked for only when every usable row
\* that has a word of the query is among them, whatever windows were cut before and whatever
\* came or went between them (_layer_candidates: rows that eligibility or ranking rejects do
\* not use up the limit).
Fills ==
  [][ (at = "refill" /\ layer' # layer) =>
        LET got == found' \cap In(layer)
        IN  \/ Cardinality(Usable(got, vector')) >= ask.limit
            \/ Eligible(Worded(layer)) \subseteq got ]_vars

\* With a code graph a retrieval returns what it returns without one, with the same values and
\* ranks and so in the same order, and besides at most MaxAdmissions memories whose files are
\* near the task's, valued below every identity match that the text search has not found
\* (HybridRetriever: monotone, floored, bounded).
GraphOnlyAdds ==
  (at = "done" /\ ask.mode = "task") =>
    LET with == answer.retrieved
        plain == Retrieval(FALSE).key
    IN  /\ Seeds(ask.graph) = Seeds(FALSE)
        /\ with.admitted \subseteq DOMAIN with.key
        /\ DOMAIN with.key \ with.admitted = DOMAIN plain
        /\ \A m \in DOMAIN plain : with.key[m] = plain[m]
        /\ Cardinality(with.admitted) <= MaxAdmissions
        /\ \A m \in with.admitted :
             /\ Proximity(m) > 0
             /\ \A k \in (Exact \cap DOMAIN plain) \ found : Before(plain[k], with.key[m])

\* What is put into a prompt keeps to the number of memories and of characters and does not
\* say a thing twice, and no memory that deserves a place is left out unless those that come
\* before it leave it none (select_for_injection).
InjectsWhatFits ==
  (at = "done" /\ ask.mode = "inject") =>
    /\ Cardinality(answer.memories) <= MaxMemories
    /\ Used(answer) <= MaxChars
    /\ \A x, y \in answer.memories : x # y => ~Alike(x, y)
    /\ \A m \in Offered \ (answer.memories \cup answer.hypotheses) :
         LET ahead == {k \in Offered : First(Standing, k, m)}
         IN  ~Fits([memories |-> answer.memories \cap ahead,
                    hypotheses |-> answer.hypotheses \cap ahead], m)
=============================================================================
