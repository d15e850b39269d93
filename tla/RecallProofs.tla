---------------------------- MODULE RecallProofs ----------------------------
(***************************************************************************)
(* That windows fill, that a code graph only adds and that what is put into *)
(* a prompt fits, for every store, every limit and every row that comes or  *)
(* goes.                                                                    *)
(*                                                                         *)
(* The first two rest on what the first n of a finite set are: at most n,   *)
(* and all of the set when they are fewer.  The last one rests on what the  *)
(* two recursive functions of the model compute, the sum of the sizes and   *)
(* the selection; that they exist is shown by a run of n steps.             *)
(***************************************************************************)
EXTENDS Recall, FiniteSetTheorems, WellFoundedInduction, TLAPS

---------------------------------------------------------------------------
(* The first n of a set. *)

Ahead(S, key, z) == {y \in S : First(key, y, z)}
Behind(S, key, z) == {y \in S : First(key, z, y)}

\* Ties are broken by the number, so that the order is strict and total (rank_memory_results).
LEMMA FirstOrders ==
  ASSUME NEW S \in SUBSET Nat, NEW key, \A x \in S : key[x] \in Int
  PROVE  /\ \A x, y, z \in S : First(key, x, y) /\ First(key, y, z) => First(key, x, z)
         /\ \A x, y \in S : x # y => First(key, x, y) \/ First(key, y, x)
         /\ \A x \in S : ~First(key, x, x)
  BY DEF First

\* A family of subsets of a finite set has a smallest member.
LEMMA Smallest ==
  ASSUME NEW S, IsFiniteSet(S), NEW D, \A X \in D : X \subseteq S, D # {}
  PROVE  \E X \in D : \A Y \in D : Y \subseteq X => Y = X
<1>1. D \in SUBSET SUBSET S
  OBVIOUS
<1>2. IsWellFoundedOn(StrictSubsetOrdering(S), FiniteSubsetsOf(S))
  BY FS_StrictSubsetOrderingWellFounded
<1>3. FiniteSubsetsOf(S) = SUBSET S
  BY FS_FiniteSubsetsOfFinite
<1>4. PICK X \in D : \A Y \in D : ~(<<Y, X>> \in StrictSubsetOrdering(S))
  BY <1>1, <1>2, <1>3, WFMin
<1>5. QED
  BY <1>1, <1>4 DEF StrictSubsetOrdering

\* A set that is not empty has a first and a last member.
LEMMA FirstAndLast ==
  ASSUME NEW S \in SUBSET Nat, IsFiniteSet(S), NEW key, \A x \in S : key[x] \in Int, S # {}
  PROVE  /\ \E z \in S : \A y \in S : y = z \/ First(key, z, y)
         /\ \E z \in S : \A y \in S : y = z \/ First(key, y, z)
<1>1. PICK z \in S : \A y \in S : Ahead(S, key, y) \subseteq Ahead(S, key, z)
                                    => Ahead(S, key, y) = Ahead(S, key, z)
  <2> DEFINE D == {Ahead(S, key, y) : y \in S}
  <2>1. (\A X \in D : X \subseteq S) /\ D # {}
    BY DEF Ahead
  <2> HIDE DEF D
  <2>2. PICK X \in D : \A Y \in D : Y \subseteq X => Y = X
    BY <2>1, Smallest
  <2>3. PICK z \in S : X = Ahead(S, key, z)
    BY <2>2 DEF D
  <2>4. QED BY <2>2, <2>3 DEF D
<1>2. ASSUME NEW y \in S, y # z PROVE First(key, z, y)
  <2>1. SUFFICES ASSUME ~(First(key, z, y)) PROVE FALSE
    OBVIOUS
  <2>2. y \in Ahead(S, key, z) /\ y \notin Ahead(S, key, y)
    BY <2>1, <1>2, FirstOrders DEF Ahead
  <2>3. Ahead(S, key, y) \subseteq Ahead(S, key, z)
    BY <2>2, FirstOrders DEF Ahead
  <2>4. QED BY <1>1, <2>2, <2>3
<1>3. PICK w \in S : \A y \in S : Behind(S, key, y) \subseteq Behind(S, key, w)
                                    => Behind(S, key, y) = Behind(S, key, w)
  <2> DEFINE D == {Behind(S, key, y) : y \in S}
  <2>1. (\A X \in D : X \subseteq S) /\ D # {}
    BY DEF Behind
  <2> HIDE DEF D
  <2>2. PICK X \in D : \A Y \in D : Y \subseteq X => Y = X
    BY <2>1, Smallest, SMTT(30)
  <2>3. PICK w \in S : X = Behind(S, key, w)
    BY <2>2 DEF D
  <2>4. ASSUME NEW y \in S, Behind(S, key, y) \subseteq Behind(S, key, w)
        PROVE  Behind(S, key, y) = Behind(S, key, w)
    <3>1. Behind(S, key, y) \in D
      BY DEF D
    <3> QED BY <2>2, <2>3, <2>4, <3>1
  <2> QED BY <2>3, <2>4
<1>4. ASSUME NEW y \in S, y # w PROVE First(key, y, w)
  <2>1. SUFFICES ASSUME ~(First(key, y, w)) PROVE FALSE
    OBVIOUS
  <2>2. y \in Behind(S, key, w) /\ y \notin Behind(S, key, y)
    BY <2>1, <1>4, FirstOrders DEF Behind
  <2>3. Behind(S, key, y) \subseteq Behind(S, key, w)
    BY <2>2, FirstOrders DEF Behind
  <2>4. QED BY <1>3, <2>2, <2>3
<1>5. QED BY <1>2, <1>4

LEMMA PlaceType ==
  ASSUME NEW S, IsFiniteSet(S), NEW key, NEW z
  PROVE  Place(S, key, z) \in Nat /\ Place(S, key, z) = 1 + Cardinality(Ahead(S, key, z))
<1>1. IsFiniteSet(Ahead(S, key, z))
  BY FS_Subset DEF Ahead
<1>2. QED BY <1>1, FS_CardinalityType DEF Place, Ahead

\* A limit is kept to.
LEMMA TopBound ==
  ASSUME NEW S \in SUBSET Nat, IsFiniteSet(S), NEW key, \A x \in S : key[x] \in Int, NEW n \in Nat
  PROVE  /\ Top(S, n, key) \subseteq S /\ IsFiniteSet(Top(S, n, key))
         /\ Cardinality(Top(S, n, key)) \in Nat /\ Cardinality(Top(S, n, key)) <= n
<1> DEFINE T == Top(S, n, key)
<1>1. T \subseteq S BY DEF Top
<1>2. IsFiniteSet(T) /\ Cardinality(T) \in Nat
  BY <1>1, FS_Subset, FS_CardinalityType
<1>3. CASE T = {}
  BY <1>1, <1>2, <1>3, FS_EmptySet
<1>4. CASE T # {}
  <2>1. PICK z \in T : \A y \in T : y = z \/ First(key, y, z)
    BY <1>1, <1>2, <1>4, FirstAndLast
  <2>2. T \ {z} \subseteq Ahead(S, key, z)
    BY <2>1, <1>1 DEF Ahead
  <2>3. IsFiniteSet(Ahead(S, key, z)) /\ Cardinality(Ahead(S, key, z)) \in Nat
    BY FS_Subset, FS_CardinalityType DEF Ahead
  <2>4. Cardinality(T \ {z}) <= Cardinality(Ahead(S, key, z))
    BY <2>2, <2>3, FS_Subset
  <2>5. Cardinality(T \ {z}) = Cardinality(T) - 1
    BY <1>2, <2>1, FS_RemoveElement
  <2>6. 1 + Cardinality(Ahead(S, key, z)) <= n
    BY <2>1, PlaceType DEF Top
  <2>7. QED BY <2>3, <2>4, <2>5, <2>6, <1>1, <1>2
<1>5. QED BY <1>3, <1>4

\* What is left of a limit means that nothing was left out.
LEMMA TopAll ==
  ASSUME NEW S \in SUBSET Nat, IsFiniteSet(S), NEW key, \A x \in S : key[x] \in Int, NEW n \in Nat,
         Cardinality(Top(S, n, key)) < n
  PROVE  Top(S, n, key) = S
<1> DEFINE T == Top(S, n, key)
<1>1. T \subseteq S /\ IsFiniteSet(T) /\ Cardinality(T) \in Nat
  BY TopBound
<1>2. SUFFICES ASSUME S \ T # {} PROVE FALSE
  BY <1>1
<1>3. PICK z \in S \ T : \A y \in S \ T : y = z \/ First(key, z, y)
  <2>1. S \ T \subseteq S /\ IsFiniteSet(S \ T)
    BY FS_Subset
  <2>2. QED BY <1>2, <2>1, FirstAndLast
<1>4. Ahead(S, key, z) \subseteq T
  BY <1>3, FirstOrders DEF Ahead
<1>5. IsFiniteSet(Ahead(S, key, z)) /\ Cardinality(Ahead(S, key, z)) <= Cardinality(T)
  BY <1>1, <1>4, FS_Subset
<1>6. Place(S, key, z) <= n
  BY <1>1, <1>5, PlaceType, FS_CardinalityType
<1>7. QED BY <1>3, <1>6 DEF Top

---------------------------------------------------------------------------
(* Windows. *)

Typed ==
  /\ scene \in SceneTypes /\ ask \in Requests
  /\ live \subseteq Mems /\ corpus \subseteq Mems /\ found \subseteq Mems /\ vector \subseteq Mems

\* Fewer rows are known than the next window may bring, and what is found so far belongs to the
\* layers before: without the first a full window without news could end the search too soon,
\* without the second the rows of this layer could not be told from others.
Windowed ==
  at = "refill" =>
    /\ layer \in 1..RecallLayers /\ window \in Nat \ {0}
    /\ IsFiniteSet(seen) /\ Cardinality(seen) < window
    /\ \A m \in found \cup vector : \E j \in 1..(layer - 1) : Of(m).layer = Layers[j]

LEMMA ProfileOf ==
  ASSUME Typed, NEW m \in Mems
  PROVE  /\ Of(m).base \in Nat /\ Of(m).overlap \in Nat /\ Of(m).near \in Nat
         /\ Of(m).boost \in Nat /\ Of(m).size \in Nat
         /\ Of(m).place \in {"named", "spelled", "hop1", "hop2", "far"}
<1>1. Of(m) \in Profiles
  BY DEF Typed, SceneTypes, Of
<1>2. 0..Unit \subseteq Nat
  BY DEF Unit
<1>3. QED
  BY <1>1, <1>2 DEF Profiles

\* Scores are numbers.
LEMMA ScoresType ==
  ASSUME Typed
  PROVE  /\ \A v : \A m \in Mems : Relevance(m, v) \in Nat /\ Relevances(v)[m] \in Nat
         /\ \A m \in Mems : Listed[m] \in Nat
<1>1. ASSUME NEW m \in Mems, NEW n \in Nat PROVE Score(m, n) \in Nat
  BY ProfileOf DEF Score, Least, Unit
<1>2. ASSUME NEW m \in Mems, NEW v PROVE Relevance(m, v) \in Nat
  BY ProfileOf, <1>1 DEF Relevance, Most
<1>3. QED BY <1>1, <1>2 DEF Relevances, Listed

\* What a search of a layer brings: rows of this layer, no more than asked for, and all that
\* have a word of the query if they are fewer.
LEMMA Searched ==
  ASSUME Typed, NEW l, NEW n \in Nat, NEW v \in Hits(l, n)
  PROVE  LET got == v \cup ByWords(l, v, n)
         IN  /\ v \subseteq In(l) /\ got \subseteq In(l) /\ got \subseteq Mems
             /\ IsFiniteSet(got) /\ Cardinality(got) \in Nat /\ Cardinality(got) <= n
             /\ Cardinality(got) < n => Worded(l) \subseteq got
<1> DEFINE near == [m \in Mems |-> Of(m).near]
           able == In(l) \cap scene.indexed
           rest == Worded(l) \ v
           left == n - Cardinality(v)
           words == Top(rest, left, Relevances({}))
<1>1. In(l) \subseteq Mems /\ IsFiniteSet(Mems) /\ Mems \subseteq Nat
  BY MemsAssumption DEF In
<1>2. v \subseteq Nearest(l, n)
  BY DEF Hits
<1>3. IsFiniteSet(Nearest(l, n)) /\ Nearest(l, n) \subseteq In(l) /\ Cardinality(Nearest(l, n)) <= n
  <2>1. able \in SUBSET Nat /\ IsFiniteSet(able) /\ able \subseteq In(l)
    BY <1>1, FS_Subset
  <2>2. \A m \in able : near[m] \in Int
    <3>1. \A m \in Mems : near[m] \in Nat
      BY ProfileOf
    <3>2. QED BY <3>1, <2>1, <1>1
  <2>3. Nearest(l, n) = Top(able, n, near)
    BY DEF Nearest
  <2> HIDE DEF able, near
  <2>4. QED BY <2>1, <2>2, <2>3, TopBound
<1>4. /\ IsFiniteSet(v) /\ Cardinality(v) \in Nat /\ Cardinality(v) <= n /\ v \subseteq In(l)
      /\ left \in Nat
  <2>1. IsFiniteSet(v) /\ Cardinality(v) <= Cardinality(Nearest(l, n))
    BY <1>2, <1>3, FS_Subset
  <2>2. Cardinality(v) \in Nat /\ Cardinality(Nearest(l, n)) \in Nat
    BY <2>1, <1>3, FS_CardinalityType
  <2>3. QED BY <1>2, <1>3, <2>1, <2>2
<1>5. rest \in SUBSET Nat /\ IsFiniteSet(rest) /\ rest \subseteq In(l)
  <2>1. rest \subseteq In(l)
    BY DEF Worded
  <2>2. QED BY <2>1, <1>1, FS_Subset
<1>6. \A m \in rest : Relevances({})[m] \in Int
  BY <1>1, <1>5, ScoresType
<1>7. v \cap rest = {} /\ Worded(l) \subseteq v \cup rest
  OBVIOUS
<1>8. ByWords(l, v, n) = words
  BY DEF ByWords
<1> HIDE DEF rest, words
<1>9. /\ words \subseteq rest /\ IsFiniteSet(words)
      /\ Cardinality(words) \in Nat /\ Cardinality(words) <= left
      /\ Cardinality(words) < left => words = rest
  BY <1>4, <1>5, <1>6, TopBound, TopAll DEF words
<1>10. IsFiniteSet(v \cup words) /\ Cardinality(v \cup words) = Cardinality(v) + Cardinality(words)
  <2>1. v \cap words = {}
    BY <1>7, <1>9
  <2>2. Cardinality(v \cap words) = 0
    BY <2>1, FS_EmptySet
  <2>3. /\ IsFiniteSet(v \cup words)
        /\ Cardinality(v \cup words)
             = Cardinality(v) + Cardinality(words) - Cardinality(v \cap words)
    BY <1>4, <1>9, FS_Union
  <2>4. QED BY <2>2, <2>3, <1>4, <1>9
<1>11. Cardinality(v \cup words) < n => Worded(l) \subseteq v \cup words
  <2>1. Cardinality(v \cup words) < n => Cardinality(words) < left
    BY <1>4, <1>9, <1>10
  <2>2. QED BY <2>1, <1>7, <1>9
<1>12. v \cup words \subseteq In(l)
  BY <1>4, <1>5, <1>9
<1>13. Cardinality(v \cup words) \in Nat /\ Cardinality(v \cup words) <= n
  BY <1>4, <1>9, <1>10
<1>14. QED
  BY <1>1, <1>4, <1>8, <1>10, <1>11, <1>12, <1>13

LEMMA LimitType ==
  ASSUME Typed
  PROVE  ask.limit \in Nat \ {0}
  BY LimitsAssumption DEF Typed, Requests, Request

\* One search of a layer, with what it brings and what of it the index found.
LEMMA SearchStep ==
  ASSUME Typed, Windowed, at = "refill", NEW v \in Hits(layer, window),
         NEW got, got = v \cup ByWords(layer, v, window), Search(got, v)
  PROVE  /\ Windowed'
         /\ layer' # layer =>
              \/ Cardinality(Usable(found' \cap In(layer), vector')) >= ask.limit
              \/ Eligible(Worded(layer)) \subseteq found' \cap In(layer)
<1>1. /\ layer \in 1..RecallLayers /\ window \in Nat \ {0}
      /\ IsFiniteSet(seen) /\ Cardinality(seen) \in Nat /\ Cardinality(seen) < window
      /\ \A m \in found \cup vector : \E j \in 1..(layer - 1) : Of(m).layer = Layers[j]
  BY FS_CardinalityType DEF Windowed
<1>2. /\ v \subseteq In(layer) /\ got \subseteq In(layer) /\ got \subseteq Mems
      /\ IsFiniteSet(got) /\ Cardinality(got) \in Nat /\ Cardinality(got) <= window
      /\ Cardinality(got) < window => Worded(layer) \subseteq got
  BY <1>1, Searched
<1>3. \A m \in In(layer) : m \notin found \cup vector
  <2>1. \A m \in In(layer) : Of(m).layer = Layers[layer]
    BY DEF In
  <2>2. \A j \in 1..(layer - 1) : Layers[j] # Layers[layer]
    BY <1>1, LayersAssumption
  <2>3. QED BY <1>1, <2>1, <2>2
<1>4. RecallLayers \in Nat /\ scene' = scene
  BY LayersAssumption DEF Search, store
<1>5. CASE ~Suffices(got, v) /\ Full(got) /\ ~Stale(got)
  <2>1. seen' = seen \cup got /\ window' = 2 * window /\ UNCHANGED <<layer, found, vector, at>>
    BY <1>5 DEF Search, Widened
  <2>2. IsFiniteSet(seen') /\ Cardinality(seen') <= Cardinality(seen) + Cardinality(got)
    <3>1. /\ IsFiniteSet(seen \cup got)
          /\ Cardinality(seen \cup got)
               = Cardinality(seen) + Cardinality(got) - Cardinality(seen \cap got)
      BY <1>1, <1>2, FS_Union
    <3>2. Cardinality(seen \cap got) \in Nat
      BY <1>1, FS_Intersection, FS_CardinalityType
    <3>3. QED BY <2>1, <3>1, <3>2, <1>1, <1>2
  <2>3. Cardinality(seen') \in Nat /\ Cardinality(seen') < window' /\ window' \in Nat \ {0}
    BY <1>1, <1>2, <2>1, <2>2, FS_CardinalityType
  <2>4. \A m \in found' \cup vector' : \E j \in 1..(layer' - 1) : (Of(m).layer = Layers[j])'
    BY <1>1, <1>4, <2>1 DEF Of
  <2>5. QED BY <1>1, <2>1, <2>2, <2>3, <2>4 DEF Windowed
<1>6. CASE ~(~Suffices(got, v) /\ Full(got) /\ ~Stale(got))
  <2>1. /\ seen' = {} /\ window' = ask.limit /\ layer' = layer + 1
        /\ found' = found \cup Eligible(got) /\ vector' = vector \cup v
        /\ at' = IF layer = RecallLayers THEN "rank" ELSE "refill"
    BY <1>6 DEF Search
  <2>2. Windowed'
    <3>1. ASSUME at' = "refill" PROVE layer' \in 1..RecallLayers
      BY <1>1, <1>4, <2>1, <3>1
    <3>2. window' \in Nat \ {0} /\ IsFiniteSet(seen') /\ Cardinality(seen') < window'
      BY <2>1, LimitType, FS_EmptySet
    <3>3. ASSUME NEW m \in found' \cup vector'
          PROVE  \E j \in 1..(layer' - 1) : (Of(m).layer = Layers[j])'
      <4>1. Of(m)' = Of(m)
        BY <1>4 DEF Of
      <4>2. CASE m \in found \cup vector
        BY <1>1, <2>1, <4>1, <4>2
      <4>3. CASE m \in got \cup v
        <5>1. Of(m).layer = Layers[layer] /\ layer \in 1..(layer' - 1)
          BY <1>1, <1>2, <2>1, <4>3 DEF In
        <5>2. QED BY <4>1, <5>1
      <4>4. QED BY <2>1, <4>2, <4>3 DEF Eligible
    <3>4. QED BY <3>1, <3>2, <3>3 DEF Windowed
  <2>3. found' \cap In(layer) = Eligible(got)
    BY <1>2, <1>3, <2>1 DEF Eligible
  <2>4. CASE Suffices(got, v)
    <3>1. ASSUME NEW m \in In(layer) PROVE Boosted(vector')[m] = Boosted(v)[m]
      BY <1>3, <2>1, <3>1 DEF Boosted, Relevance, In
    <3>2. Usable(Eligible(got), vector') = Usable(got, v)
      BY <1>2, <3>1 DEF Usable, Eligible
    <3>3. QED BY <2>2, <2>3, <2>4, <3>2 DEF Suffices
  <2>5. CASE ~Full(got)
    <3>1. Worded(layer) \subseteq got
      BY <1>1, <1>2, <2>5 DEF Full
    <3>2. QED BY <2>2, <2>3, <3>1 DEF Eligible
  <2>6. CASE Full(got) /\ Stale(got)
    <3>1. Cardinality(got) <= Cardinality(seen)
      BY <1>1, <2>6, FS_Subset DEF Stale
    <3>2. QED BY <1>1, <1>2, <2>6, <3>1 DEF Full
  <2>7. QED BY <1>6, <2>4, <2>5, <2>6
<1>7. QED BY <1>5, <1>6

LEMMA TypedInit == Init => Typed
<1> SUFFICES ASSUME Init PROVE Typed
  OBVIOUS
<1>1. scene \in SceneTypes
  BY ScenesAssumption DEF Init
<1>2. scene.live \subseteq Mems
  BY <1>1 DEF SceneTypes
<1>3. QED BY <1>1, <1>2 DEF Init, Typed

LEMMA TypedStep == Typed /\ [Next]_vars => Typed'
<1> SUFFICES ASSUME Typed, [Next]_vars PROVE Typed'
  OBVIOUS
<1>1. CASE UNCHANGED <<scene, live, ask, found, vector, corpus>>
  BY <1>1 DEF Typed, SceneTypes, Requests, Request
<1>2. CASE Change
  BY <1>2 DEF Change, call, Typed
<1>3. CASE Refill
  <2>1. PICK v \in Hits(layer, window) : Search(v \cup ByWords(layer, v, window), v)
    BY <1>3 DEF Refill
  <2> DEFINE got == v \cup ByWords(layer, v, window)
  <2>2. v \subseteq Mems /\ Eligible(got) \subseteq Mems
    BY DEF Hits, Nearest, Top, In, ByWords, Worded, Eligible
  <2>3. UNCHANGED <<scene, live, ask, corpus>>
    BY <2>1 DEF Search, store
  <2>4. found' \in {found, found \cup Eligible(got)} /\ vector' \in {vector, vector \cup v}
    BY <2>1 DEF Search
  <2> HIDE DEF got
  <2>5. found' \subseteq Mems /\ vector' \subseteq Mems
    BY <2>2, <2>4 DEF Typed
  <2>6. QED BY <2>3, <2>5 DEF Typed
<1>4. CASE Rank
  BY <1>4 DEF Rank, store, Typed
<1>5. CASE Direct
  <2>1. PICK v \in Hits(layer, DirectLimit) :
          /\ found' = found \cup Eligible(v \cup ByWords(layer, v, DirectLimit))
          /\ vector' = vector \cup v
    BY <1>5 DEF Direct
  <2>2. v \subseteq Mems /\ Eligible(v \cup ByWords(layer, v, DirectLimit)) \subseteq Mems
    BY DEF Hits, Nearest, Top, In, ByWords, Worded, Eligible
  <2>3. UNCHANGED <<scene, live, ask, corpus>>
    BY <1>5 DEF Direct, store
  <2>4. found' \subseteq Mems /\ vector' \subseteq Mems
    BY <2>1, <2>2 DEF Typed
  <2>5. QED BY <2>3, <2>4 DEF Typed
<1>6. CASE List
  <2>1. Eligible(Newest(CorpusLimit)) \subseteq live
    BY DEF Eligible, Newest
  <2>2. TextHits \subseteq found
    BY DEF TextHits, Top
  <2>3. QED BY <1>6, <2>1, <2>2 DEF List, store, Typed
<1>7. CASE Begin \/ Walk \/ Retrieve \/ Inject
  BY <1>1, <1>7 DEF Begin, Walk, Retrieve, Inject, store
<1>8. QED
  BY <1>1, <1>2, <1>3, <1>4, <1>5, <1>6, <1>7 DEF Next, vars

LEMMA WindowedStep ==
  ASSUME Typed, Windowed, [Next]_vars
  PROVE  /\ Windowed'
         /\ (at = "refill" /\ layer' # layer) =>
              \/ Cardinality(Usable(found' \cap In(layer), vector')) >= ask.limit
              \/ Eligible(Worded(layer)) \subseteq found' \cap In(layer)
<1>1. CASE Refill
  BY <1>1, SearchStep DEF Refill
<1>2. CASE UNCHANGED <<scene, at, layer, window, seen, found, vector>>
  BY <1>2 DEF Windowed, Of
<1>3. CASE Change
  BY <1>2, <1>3 DEF Change, call
<1>4. CASE Rank \/ Direct \/ List \/ Begin \/ Walk \/ Retrieve \/ Inject
  BY <1>4 DEF Rank, Direct, List, Begin, Walk, Retrieve, Inject, Windowed
<1>5. QED
  BY <1>1, <1>2, <1>3, <1>4 DEF Next, vars

\* A layer is left short of usable memories only when all usable rows with a word of the query
\* were returned, whatever windows were cut and whatever came or went (_layer_candidates).
THEOREM WindowsFill == Spec => Fills
<1>1. Init => Typed /\ Windowed
  <2> SUFFICES ASSUME Init PROVE Windowed
    BY TypedInit
  <2>1. window \in Nat \ {0} /\ layer \in 1..RecallLayers /\ Cardinality(seen) = 0
    BY TypedInit, LimitType, LayersAssumption, FS_EmptySet DEF Init
  <2>2. QED BY <2>1, FS_EmptySet DEF Init, Windowed
<1>2. Typed /\ Windowed /\ [Next]_vars => (Typed /\ Windowed)'
  BY TypedStep, WindowedStep
<1>3. Typed /\ Windowed /\ [Next]_vars =>
        [(at = "refill" /\ layer' # layer) =>
           LET got == found' \cap In(layer)
           IN  \/ Cardinality(Usable(got, vector')) >= ask.limit
               \/ Eligible(Worded(layer)) \subseteq got]_vars
  BY WindowedStep
<1>4. QED BY <1>1, <1>2, <1>3, PTL DEF Spec, Fills

---------------------------------------------------------------------------
(* What a code graph adds. *)

LEMMA DivNat ==
  ASSUME NEW a \in Nat, NEW b \in Nat \ {0}
  PROVE  a \div b \in Nat
  OBVIOUS

\* The share of the ranks is never negative (_rrf_score).
LEMMA ShareNat ==
  ASSUME NEW a \in Nat, NEW b \in Nat, NEW c \in Nat
  PROVE  Share(<<a, b, c>>) \in Nat
<1> DEFINE term(weight, rank) == IF rank = 0 THEN 0 ELSE (weight * Unit) \div (60 + rank)
           sum == term(100, a) + term(85, b) + term(75, c)
           all == term(100, 1) + term(85, 1) + term(75, 1)
<1>1. ASSUME NEW w \in Nat, NEW r \in Nat PROVE term(w, r) \in Nat
  <2>1. w * Unit \in Nat /\ 60 + r \in Nat \ {0}
    BY DEF Unit
  <2>2. QED BY <2>1, DivNat
<1>2. all \in Nat \ {0}
  BY DEF Unit
<1>3. sum \in Nat
  BY <1>1
<1>4. Share(<<a, b, c>>) = Least(Unit, (sum * Unit) \div all)
  BY DEF Share
<1> HIDE DEF sum, all
<1>5. sum * Unit \in Nat
  BY <1>3 DEF Unit
<1>6. (sum * Unit) \div all \in Nat
  BY <1>2, <1>5, DivNat
<1>7. QED BY <1>4, <1>6 DEF Least, Unit

LEMMA ProximityType ==
  ASSUME Typed, NEW m \in Mems
  PROVE  Proximity(m) \in Nat
  BY ProfileOf DEF Proximity, Unit

\* What is admitted is what no other channel has, and no more than the bound.
LEMMA AdmittedFacts ==
  ASSUME Typed, NEW g \in BOOLEAN
  PROVE  /\ Admitted(g) \subseteq corpus
         /\ Admitted(g) \cap (found \cup Exact \cup Associated) = {}
         /\ Cardinality(Admitted(g)) <= MaxAdmissions
         /\ \A m \in Admitted(g) : Proximity(m) > 0
         /\ Admitted(FALSE) = {}
<1> DEFINE able == Admissible(g)
           key == [m \in able |-> Proximity(m) * Unit + Listed[m]]
<1>1. able \subseteq Nearby(g) /\ able \cap (found \cup Exact \cup Associated) = {}
  BY DEF Admissible
<1>2. Nearby(g) \subseteq corpus /\ \A m \in Nearby(g) : Proximity(m) >= Unit \div 4
  BY DEF Nearby
<1>3. Admitted(g) = Top(able, MaxAdmissions, key)
  BY DEF Admitted
<1>4. Admitted(FALSE) = {}
  BY DEF Admitted, Admissible, Nearby, Top
<1> HIDE DEF able
<1>5. able \subseteq Mems /\ able \in SUBSET Nat /\ IsFiniteSet(able)
  BY <1>1, <1>2, MemsAssumption, FS_Subset DEF Typed
<1>6. \A m \in able : key[m] \in Int
  <2>1. ASSUME NEW m \in able PROVE Proximity(m) \in Nat /\ Listed[m] \in Nat
    BY <1>5, ProximityType, ScoresType
  <2>2. ASSUME NEW m \in able PROVE Proximity(m) * Unit + Listed[m] \in Int
    BY <2>1 DEF Unit
  <2>3. QED BY <2>2
<1> HIDE DEF key
<1>7. Admitted(g) \subseteq able /\ Cardinality(Admitted(g)) <= MaxAdmissions
  BY <1>3, <1>5, <1>6, TopBound, LimitsAssumption
<1>8. \A m \in Admitted(g) : Proximity(m) > 0
  <2>1. ASSUME NEW m \in Admitted(g) PROVE Proximity(m) > 0
    <3>1. Proximity(m) \in Nat /\ Proximity(m) >= Unit \div 4
      BY <1>1, <1>2, <1>5, <1>7, ProximityType
    <3>2. QED BY <3>1 DEF Unit
  <2>2. QED BY <2>1
<1>9. QED BY <1>1, <1>2, <1>4, <1>7, <1>8

\* A memory that was not admitted has the value and the place that it has without a graph.
LEMMA KeySame ==
  ASSUME NEW A, NEW m, m \notin A
  PROVE  Key(A, m) = Key({}, m)
<1>1. CodeRank(A, m) = CodeRank({}, m)
  BY DEF CodeRank
<1>2. Value(A, m) = Value({}, m)
  BY <1>1 DEF Value
<1>3. QED BY <1>2 DEF Key

\* Ranks are numbers.
LEMMA RanksType ==
  ASSUME Typed, DOMAIN walk.mass \subseteq Mems, NEW A \in SUBSET Mems, NEW m
  PROVE  TextRank(m) \in Nat /\ WalkRank(m) \in Nat /\ CodeRank(A, m) \in Nat
<1>1. /\ IsFiniteSet(found) /\ IsFiniteSet(Reached) /\ IsFiniteSet(A)
      /\ IsFiniteSet(Identified)
  <2>1. /\ found \subseteq Mems /\ Reached \subseteq Mems /\ Identified \subseteq Mems
        /\ IsFiniteSet(Mems)
    BY MemsAssumption DEF Typed, Reached, Identified, Exact, Top
  <2>2. QED BY <2>1, FS_Subset
<1>2. TextRank(m) \in Nat
  BY <1>1, PlaceType DEF TextRank
<1>3. WalkRank(m) \in Nat
  BY <1>1, PlaceType DEF WalkRank
<1>4. Place(A, [k \in Mems |-> Proximity(k)], m) \in Nat /\ Cardinality(Identified) \in Nat
  BY <1>1, PlaceType, FS_CardinalityType
<1>5. Place(Identified, Listed, m) \in Nat
  BY <1>1, PlaceType
<1>6. CodeRank(A, m) \in Nat
  BY <1>4, <1>5 DEF CodeRank
<1>7. QED BY <1>2, <1>3, <1>6

\* An identity match that text has not found is worth at least 5200, an admitted memory at most
\* 5100 (ENTITY_EXACT_FLOOR, STRUCTURAL_SCORE_CEILING).
LEMMA FloorAndCeiling ==
  ASSUME Typed, DOMAIN walk.mass \subseteq Mems, NEW A \in SUBSET Mems
  PROVE  /\ \A k \in Exact \ found : Value({}, k) \in Int /\ Value({}, k) >= 5200
         /\ \A m \in A \ (found \cup Exact) : Value(A, m) \in Int /\ Value(A, m) <= 5100
<1> DEFINE share(B, k) == Share(<<TextRank(k), CodeRank(B, k), WalkRank(k)>>)
<1>1. ASSUME NEW B \in SUBSET Mems, NEW k PROVE (12 * share(B, k)) \div 100 \in Nat
  <2>1. share(B, k) \in Nat
    BY RanksType, ShareNat
  <2>2. QED BY <2>1
<1> HIDE DEF share
<1>2. ASSUME NEW k \in Exact \ found PROVE Value({}, k) \in Int /\ Value({}, k) >= 5200
  <2>1. Value({}, k) = Least(7500, 5200 + (12 * share({}, k)) \div 100)
    BY DEF Value, share
  <2>2. QED BY <2>1, <1>1 DEF Least
<1>3. ASSUME NEW m \in A \ (found \cup Exact)
      PROVE  Value(A, m) \in Int /\ Value(A, m) <= 5100
  <2>1. Value(A, m) = Least(5100, (52 * Proximity(m)) \div 100 + (12 * share(A, m)) \div 100)
    BY DEF Value, share
  <2>2. Proximity(m) \in Nat /\ (52 * Proximity(m)) \div 100 \in Nat
    BY ProximityType
  <2>3. QED BY <2>1, <2>2, <1>1 DEF Least
<1>4. QED BY <1>2, <1>3

\* A retrieval's order, as made of what the window keeps and what is admitted.
LEMMA RetrievalKey ==
  ASSUME NEW g
  PROVE  LET base == found \cup Exact \cup (corpus \cap Associated)
             key == [m \in base \cup Admitted(g) |-> Key(Admitted(g), m)]
         IN  /\ Retrieval(g).admitted = Admitted(g)
             /\ Retrieval(g).key = [m \in Kept(base, Admitted(g), key) |-> key[m]]
<1> DEFINE base == found \cup Exact \cup (corpus \cap Associated)
           A == Admitted(g)
           key == [m \in base \cup A |-> Key(A, m)]
           keys == [m \in Kept(base, A, key) |-> key[m]]
<1>1. Retrieval(g) = [admitted |-> A, key |-> keys]
  BY DEF Retrieval
<1> HIDE DEF A, keys
<1>2. Retrieval(g).admitted = A /\ Retrieval(g).key = keys
  BY <1>1
<1>3. QED BY <1>2 DEF A, keys

\* What a retrieval with a graph is, compared with one without.
LEMMA Adds ==
  ASSUME Typed, DOMAIN walk.mass \subseteq Mems, NEW g \in BOOLEAN
  PROVE  LET with == Retrieval(g)
             plain == Retrieval(FALSE).key
         IN  /\ with.admitted \subseteq DOMAIN with.key
             /\ DOMAIN with.key \ with.admitted = DOMAIN plain
             /\ \A m \in DOMAIN plain : with.key[m] = plain[m]
             /\ Cardinality(with.admitted) <= MaxAdmissions
             /\ \A m \in with.admitted :
                  /\ Proximity(m) > 0
                  /\ \A k \in (Exact \cap DOMAIN plain) \ found : Before(plain[k], with.key[m])
<1> DEFINE A == Admitted(g)
           base == found \cup Exact \cup (corpus \cap Associated)
           with == [m \in base \cup A |-> Key(A, m)]
           plain == [m \in base |-> Key({}, m)]
           kept == Window(base, plain)
<1>1. /\ A \subseteq corpus /\ A \cap (found \cup Exact \cup Associated) = {}
      /\ Cardinality(A) <= MaxAdmissions /\ \A m \in A : Proximity(m) > 0
      /\ Admitted(FALSE) = {}
  BY AdmittedFacts
<1>2. A \cap base = {} /\ A \subseteq Mems
  BY <1>1 DEF Typed
<1>3. \A m \in base : with[m] = plain[m]
  BY <1>2, KeySame
<1>4. Window(base, with) = kept /\ kept \subseteq base
  BY <1>3 DEF Window
<1>5. /\ Retrieval(g).admitted = A
      /\ Retrieval(g).key = [m \in kept \cup A |-> with[m]]
  <2>1. Retrieval(g).key = [m \in Kept(base, A, with) |-> with[m]] /\ Retrieval(g).admitted = A
    BY RetrievalKey, Zenon
  <2>2. Kept(base, A, with) = kept \cup A
    <3>1. Kept(base, A, with) = Window(base, with) \cup A
      BY DEF Kept
    <3> HIDE DEF base, with, A, kept
    <3>2. QED BY <3>1, <1>4
  <2> HIDE DEF base, with, A, kept
  <2>3. QED BY <2>1, <2>2
<1>6. Retrieval(FALSE).key = [m \in kept |-> plain[m]]
  <2> DEFINE B == Admitted(FALSE)
             none == [m \in base \cup B |-> Key(B, m)]
  <2>1. Retrieval(FALSE).key = [m \in Kept(base, B, none) |-> none[m]]
    BY RetrievalKey, Zenon
  <2>2. B = {}
    BY <1>1
  <2>3. none = plain
    <3> HIDE DEF B, base
    <3>1. QED BY <2>2
  <2>4. Kept(base, B, none) = Window(base, none) \cup B
    BY DEF Kept
  <2> HIDE DEF B, none, plain, base
  <2>5. Kept(base, B, none) = kept
    BY <2>2, <2>3, <2>4
  <2> HIDE DEF kept
  <2>6. [m \in Kept(base, B, none) |-> none[m]] = [m \in kept |-> plain[m]]
    BY <2>3, <2>5
  <2>7. QED BY <2>1, <2>6, Zenon
<1>7. ASSUME NEW m \in A, NEW k \in (Exact \cap kept) \ found
      PROVE  Before(plain[k], with[m])
  <2>1. /\ Value({}, k) \in Int /\ Value({}, k) >= 5200
        /\ Value(A, m) \in Int /\ Value(A, m) <= 5100
    BY <1>1, <1>2, FloorAndCeiling
  <2>2. plain[k][1] = -Value({}, k) /\ with[m][1] = -Value(A, m)
    BY <1>4 DEF Key
  <2>3. plain[k][1] < with[m][1]
    BY <2>1, <2>2
  <2> HIDE DEF plain, with
  <2>4. QED BY <2>3 DEF Before
<1> HIDE DEF A, base, with, plain, kept
<1>8. kept \cap A = {}
  BY <1>2, <1>4
<1>9. QED
  BY <1>1, <1>3, <1>4, <1>5, <1>6, <1>7, <1>8

\* A retrieval is made from these parts of the state alone.
LEMMA Unmoved ==
  ASSUME UNCHANGED <<scene, found, corpus, walk, vector>>, NEW g
  PROVE  Retrieval(g)' = Retrieval(g)
<1>1. ASSUME NEW m PROVE Of(m)' = Of(m)
  BY DEF Of
<1>2. ASSUME NEW m, NEW n PROVE Score(m, n)' = Score(m, n)
  BY <1>1 DEF Score
<1>3. ASSUME NEW m PROVE /\ Relevance(m, vector)' = Relevance(m, vector)
                         /\ Proximity(m)' = Proximity(m)
  BY <1>1, <1>2 DEF Relevance, Proximity
<1>4. Relevances(vector)' = Relevances(vector) /\ Listed' = Listed
  BY <1>2, <1>3 DEF Relevances, Listed
<1>5. Exact' = Exact
  BY <1>1 DEF Exact
<1>6. Identified' = Identified /\ Reached' = Reached /\ Associated' = Associated
  BY <1>4, <1>5 DEF Identified, Reached, Associated
<1>7. Nearby(g)' = Nearby(g)
  <2> DEFINE near == {m \in corpus \ Exact : Proximity(m) >= Unit \div 4}
  <2>1. near' = near
    BY <1>3, <1>5
  <2>2. Nearby(g) = (IF g THEN near ELSE {}) /\ Nearby(g)' = (IF g THEN near' ELSE {})
    BY Zenon DEF Nearby
  <2> HIDE DEF near
  <2>3. QED BY <2>1, <2>2, Zenon
<1>8. Admissible(g)' = Admissible(g)
  BY <1>5, <1>6, <1>7 DEF Admissible
<1>9. Admitted(g)' = Admitted(g)
  <2> DEFINE key == [m \in Admissible(g) |-> Proximity(m) * Unit + Listed[m]]
  <2>1. key' = key
    BY <1>3, <1>4, <1>8
  <2>2. Admitted(g) = Top(Admissible(g), MaxAdmissions, key)
    BY DEF Admitted
  <2>3. Admitted(g)' = Top(Admissible(g), MaxAdmissions, key)'
    BY DEF Admitted
  <2> HIDE DEF key
  <2>4. QED BY <2>1, <2>2, <2>3, <1>8
<1>10. ASSUME NEW m PROVE TextRank(m)' = TextRank(m) /\ WalkRank(m)' = WalkRank(m)
  BY <1>4, <1>6 DEF TextRank, WalkRank
<1>11. ASSUME NEW A, NEW m PROVE CodeRank(A, m)' = CodeRank(A, m)
  <2>1. [k \in Mems |-> Proximity(k)]' = [k \in Mems |-> Proximity(k)]
    BY <1>3
  <2>2. QED BY <2>1, <1>4, <1>6 DEF CodeRank
<1>12. ASSUME NEW A, NEW m PROVE Value(A, m)' = Value(A, m)
  <2>1. Share(<<TextRank(m), CodeRank(A, m), WalkRank(m)>>)'
          = Share(<<TextRank(m), CodeRank(A, m), WalkRank(m)>>)
    BY <1>10, <1>11
  <2>2. QED BY <2>1, <1>3, <1>4, <1>5, <1>6 DEF Value
<1>13. ASSUME NEW A, NEW m PROVE Key(A, m)' = Key(A, m)
  BY <1>10, <1>12 DEF Key
<1> DEFINE base == found \cup Exact \cup (corpus \cap Associated)
           A == Admitted(g)
           key == [m \in base \cup A |-> Key(A, m)]
           keys == [m \in Kept(base, A, key) |-> key[m]]
<1>14. base' = base /\ A' = A
  BY <1>5, <1>6, <1>9
<1>15. key' = key
  <2>1. key' = [m \in base' \cup A' |-> Key(A, m)']
    BY <1>14
  <2> HIDE DEF base, A
  <2>2. QED BY <2>1, <1>13, <1>14
<1>16. Retrieval(g) = [admitted |-> A, key |-> keys]
  BY DEF Retrieval
<1>17. Retrieval(g)' = [admitted |-> A', key |-> keys']
  BY DEF Retrieval
<1>18. keys' = keys
  <2> HIDE DEF base, A, key
  <2>1. QED BY <1>14, <1>15 DEF Kept, Window
<1> HIDE DEF A, keys
<1>19. QED BY <1>14, <1>16, <1>17, <1>18

\* Where a call stands says what was asked; the walk stays among the memories; and the answer
\* to a task is the retrieval of the state it was given in, in which the call then stays.
Posed ==
  /\ at \in {"direct", "corpus", "seed", "walk", "retrieve"} => ask.mode = "task"
  /\ at = "inject" => ask.mode = "inject"
Walked ==
  (at \in {"walk", "retrieve"} \/ (at = "done" /\ ask.mode = "task")) =>
    "mass" \in DOMAIN walk /\ DOMAIN walk.mass \subseteq Mems
Answered ==
  (at = "done" /\ ask.mode = "task") => answer.retrieved = Retrieval(ask.graph)

LEMMA PosedStep ==
  ASSUME Posed, [Next]_vars
  PROVE  Posed'
<1>1. CASE Refill
  <2>1. ask' = ask /\ at' \in {at, "refill", "rank"} /\ at = "refill"
    BY <1>1 DEF Refill, Search
  <2>2. QED BY <2>1 DEF Posed
<1>2. CASE Change
  BY <1>2 DEF Change, call, Posed
<1>3. CASE Rank
  BY <1>3 DEF Rank, Posed
<1>4. CASE Direct \/ List \/ Begin \/ Walk \/ Retrieve \/ Inject
  BY <1>4 DEF Direct, List, Begin, Walk, Retrieve, Inject, Posed
<1>5. QED
  BY <1>1, <1>2, <1>3, <1>4 DEF Next, vars, Posed

LEMMA BeginWalks ==
  ASSUME Typed, Begin
  PROVE  "mass" \in DOMAIN walk' /\ DOMAIN walk'.mass \subseteq Mems
<1> DEFINE seeds == Seeds(ask.graph)
           links == Links(corpus \cup seeds)
           nodes == seeds \cup UNION {{l.from, l.to} : l \in links}
           restart == [m \in nodes |->
                         IF m \in seeds THEN (Seed(m) * Unit) \div Total(seeds) ELSE 0]
           part(x) == IF Degree(links, nodes, x) = 0 THEN restart
                      ELSE [m \in nodes |->
                              (Weight(links, x, m) * Unit) \div Degree(links, nodes, x)]
           parts == [x \in nodes |-> part(x)]
<1>1. walk' = [mass |-> restart, restart |-> restart, round |-> 0, part |-> parts]
  BY DEF Begin
<1>2. seeds \subseteq Mems
  BY DEF Seeds, Top, Identified, Exact, Typed
<1>3. \A l \in links : {l.from, l.to} \subseteq corpus \cup seeds
  BY DEF Links
<1>4. DOMAIN restart = nodes
  OBVIOUS
<1>5. nodes \subseteq Mems
  <2> HIDE DEF seeds, links
  <2>1. QED BY <1>2, <1>3 DEF Typed
<1> HIDE DEF restart, parts
<1>6. QED
  BY <1>1, <1>4, <1>5

LEMMA WalkedStep ==
  ASSUME Typed, Posed, Walked, [Next]_vars
  PROVE  Walked'
<1>1. CASE Begin
  BY <1>1, BeginWalks DEF Walked
<1>2. CASE Walk
  <2> DEFINE mass == [m \in DOMAIN walk.mass |-> (walk.restart[m] + Flow(m)) \div 2]
  <2>1. /\ "mass" \in DOMAIN walk /\ DOMAIN walk.mass \subseteq Mems
        /\ walk' = [walk EXCEPT !.mass = mass, !.round = @ + 1]
    BY <1>2 DEF Walk, Walked
  <2>2. DOMAIN mass = DOMAIN walk.mass
    OBVIOUS
  <2> HIDE DEF mass
  <2>3. "mass" \in DOMAIN walk' /\ walk'.mass = mass
    BY <2>1
  <2>4. QED BY <2>1, <2>2, <2>3 DEF Walked
<1>3. CASE Rank
  BY <1>3 DEF Rank, Walked
<1>4. CASE Refill
  <2>1. ask' = ask /\ walk' = walk /\ at' \in {"refill", "rank"}
    BY <1>4 DEF Refill, Search
  <2>2. QED BY <2>1 DEF Walked
<1>5. CASE Direct \/ List \/ Retrieve \/ Inject
  BY <1>5 DEF Direct, List, Retrieve, Inject, Walked, Posed
<1>6. CASE Change
  BY <1>6 DEF Change, call, Walked
<1>7. QED
  BY <1>1, <1>2, <1>3, <1>4, <1>5, <1>6 DEF Next, vars, Walked

LEMMA AnsweredStep ==
  ASSUME Posed, Answered, [Next]_vars
  PROVE  Answered'
<1>1. CASE Retrieve
  <2>1. answer'.retrieved = Retrieval(ask.graph)
    BY <1>1 DEF Retrieve
  <2>2. UNCHANGED <<ask, scene, found, corpus, walk, vector>>
    BY <1>1 DEF Retrieve, store
  <2>3. QED BY <2>1, <2>2, Unmoved DEF Answered
<1>2. CASE UNCHANGED vars
  BY <1>2, Unmoved DEF Answered, vars
<1>3. CASE Change
  BY <1>3 DEF Change, call, Answered
<1>4. CASE Refill
  <2>1. at' \in {"refill", "rank"}
    BY <1>4 DEF Refill, Search
  <2>2. QED BY <2>1 DEF Answered
<1>5. CASE Rank \/ Direct \/ List \/ Begin \/ Walk \/ Inject
  BY <1>5 DEF Rank, Direct, List, Begin, Walk, Inject, Posed, Answered
<1>6. QED
  BY <1>1, <1>2, <1>3, <1>4, <1>5 DEF Next

\* With a code graph a retrieval returns what it returns without one, valued and ordered alike,
\* and a few memories near the task's files below the identity matches that the text search has
\* not found (HybridRetriever).
THEOREM AddsOnly == Spec => []GraphOnlyAdds
<1>1. Init => Typed /\ Posed /\ Walked /\ Answered
  BY TypedInit DEF Init, Posed, Walked, Answered
<1>2. Typed /\ Posed /\ Walked /\ Answered /\ [Next]_vars
        => (Typed /\ Posed /\ Walked /\ Answered)'
  BY TypedStep, PosedStep, WalkedStep, AnsweredStep
<1>3. Typed /\ Walked /\ Answered => GraphOnlyAdds
  <2> SUFFICES ASSUME Typed, Walked, Answered, at = "done", ask.mode = "task"
               PROVE  GraphOnlyAdds
    BY DEF GraphOnlyAdds
  <2>1. /\ answer.retrieved = Retrieval(ask.graph) /\ DOMAIN walk.mass \subseteq Mems
        /\ ask.graph \in BOOLEAN
    BY DEF Answered, Walked, Typed, Requests, Request
  <2>2. Seeds(ask.graph) = Seeds(FALSE)
    BY DEF Seeds
  <2>3. QED BY <2>1, <2>2, Adds, Zenon DEF GraphOnlyAdds
<1>4. QED BY <1>1, <1>2, <1>3, PTL DEF Spec

---------------------------------------------------------------------------
(* What is put into a prompt. *)

LEMMA LeastExists ==
  ASSUME NEW B \in SUBSET Nat, B # {}
  PROVE  \E k \in B : \A j \in B : k <= j
<1>1. PICK b \in B : TRUE
  OBVIOUS
<1> DEFINE D == {0..k : k \in {j \in B : j <= b}}
<1>2. IsFiniteSet(0..b) /\ (\A X \in D : X \subseteq 0..b) /\ D # {}
  <2>1. b \in Int /\ 0 \in Int
    BY <1>1
  <2>2. IsFiniteSet(0..b)
    BY <2>1, FS_Interval
  <2>3. \A X \in D : X \subseteq 0..b
    BY <1>1
  <2>4. 0..b \in D
    BY <1>1
  <2> QED
    BY <2>2, <2>3, <2>4
<1> HIDE DEF D
<1>3. PICK X \in D : \A Y \in D : Y \subseteq X => Y = X
  BY <1>2, Smallest
<1>4. PICK k \in B : X = 0..k /\ k <= b
  BY <1>3 DEF D
<1>5. ASSUME NEW j \in B, j < k PROVE FALSE
  <2>1. 0..j \in D
    BY <1>4, <1>5 DEF D
  <2>2. 0..j \subseteq X /\ 0..j # X
    BY <1>4, <1>5
  <2> QED
    BY <1>3, <2>1, <2>2
<1> QED
  BY <1>5

\* A step from one value to the next, taken n times.
Runs(f, n, start, step, D) ==
  /\ f \in [0..n -> D] /\ f[0] = start
  /\ \A i \in 1..n : f[i] = step[<<i, f[i - 1]>>]

LEMMA RunExists ==
  ASSUME NEW D, NEW start \in D, NEW n \in Nat, NEW step \in [(1..n) \X D -> D]
  PROVE  \E f : Runs(f, n, start, step, D)
<1> DEFINE B == {k \in 0..n : ~\E f : Runs(f, k, start, step, D)}
<1>1. SUFFICES ASSUME B # {} PROVE FALSE
  OBVIOUS
<1>2. PICK k \in B : \A j \in B : k <= j
  <2>1. B \in SUBSET Nat
    OBVIOUS
  <2> HIDE DEF B
  <2> QED
    BY <1>1, <2>1, LeastExists
<1>3. CASE k = 0
  <2>1. Runs([i \in 0..0 |-> start], 0, start, step, D)
    BY DEF Runs
  <2> QED
    BY <1>3, <2>1
<1>4. CASE k # 0
  <2>1. k - 1 \in 0..n /\ k - 1 \notin B
    BY <1>2, <1>4
  <2>2. PICK f : Runs(f, k - 1, start, step, D)
    BY <2>1
  <2> DEFINE g == [i \in 0..k |-> IF i < k THEN f[i] ELSE step[<<k, f[k - 1]>>]]
  <2>3. g \in [0..k -> D]
    BY <1>4, <2>2 DEF Runs
  <2>4. g[0] = start
    BY <1>4, <2>2 DEF Runs
  <2>5. ASSUME NEW i \in 1..k PROVE g[i] = step[<<i, g[i - 1]>>]
    <3>1. CASE i = k
      BY <1>4, <3>1
    <3>2. CASE i # k
      <4>1. i \in 1..(k - 1) /\ g[i] = f[i] /\ g[i - 1] = f[i - 1]
        BY <1>4, <3>2
      <4> QED
        BY <2>2, <4>1 DEF Runs
    <3> QED
      BY <3>1, <3>2
  <2>6. Runs(g, k, start, step, D)
    BY <2>3, <2>4, <2>5 DEF Runs
  <2> QED
    BY <2>6
<1> QED
  BY <1>3, <1>4

\* What is shown for 0 and, with each step, for the next number, holds up to n.
LEMMA Upwards ==
  ASSUME NEW n \in Nat, NEW H \in SUBSET Nat, 0 \in H,
         \A i \in 1..n : i - 1 \in H => i \in H
  PROVE  0..n \subseteq H
<1> DEFINE B == (0..n) \ H
<1>1. SUFFICES ASSUME B # {} PROVE FALSE
  OBVIOUS
<1>2. PICK k \in B : \A j \in B : k <= j
  <2>1. B \in SUBSET Nat
    OBVIOUS
  <2> HIDE DEF B
  <2> QED
    BY <1>1, <2>1, LeastExists
<1>3. k \in 1..n /\ k - 1 \in 0..n /\ k - 1 \notin B
  BY <1>2
<1> QED
  BY <1>2, <1>3

(***************************************************************************)
(* The characters of a set of memories.                                    *)
(***************************************************************************)
Size(m) == Of(m).size
Pick(s) == CHOOSE x \in s : TRUE
Sums(g, S) ==
  g = [s \in SUBSET S |-> IF s = {} THEN 0 ELSE Size(Pick(s)) + g[s \ {Pick(s)}]]

LEMMA PickIn == \A s : s # {} => Pick(s) \in s
BY DEF Pick

\* The sums exist: after k steps those of sets of up to k memories are right.
More(h) == [s \in SUBSET Mems |-> IF s = {} THEN 0 ELSE Size(Pick(s)) + h[s \ {Pick(s)}]]

LEMMA SumExists ==
  ASSUME Typed
  PROVE  \E g \in [SUBSET Mems -> Nat] : Sums(g, Mems)
<1> DEFINE D == [SUBSET Mems -> Nat]
           n == Cardinality(Mems)
           zero == [s \in SUBSET Mems |-> 0]
           step == [p \in (1..n) \X D |-> More(p[2])]
<1>1. IsFiniteSet(Mems) /\ n \in Nat
  BY MemsAssumption, FS_CardinalityType
<1>2. zero \in D
  OBVIOUS
<1>3. \A m \in Mems : Size(m) \in Nat
  BY ProfileOf DEF Size
<1>4. step \in [(1..n) \X D -> D]
  <2>1. ASSUME NEW h \in D PROVE More(h) \in D
    BY <1>3, PickIn DEF More
  <2> QED
    BY <2>1
<1>5. PICK f : Runs(f, n, zero, step, D)
  <2> HIDE DEF step, zero, n, D
  <2> QED
    BY <1>1, <1>2, <1>4, RunExists
<1>6. f \in [0..n -> D] /\ f[0] = zero /\ \A i \in 1..n : f[i] = step[<<i, f[i - 1]>>]
  <2> HIDE DEF step, zero, n, D
  <2> QED
    BY <1>5 DEF Runs
<1>7. ASSUME NEW s \in SUBSET Mems
      PROVE  /\ IsFiniteSet(s) /\ Cardinality(s) \in 0..n
             /\ s = {} <=> Cardinality(s) = 0
             /\ s # {} => Cardinality(s \ {Pick(s)}) = Cardinality(s) - 1
  BY <1>1, FS_Subset, FS_CardinalityType, FS_EmptySet, FS_RemoveElement, PickIn
<1> DEFINE g == [s \in SUBSET Mems |-> f[Cardinality(s)][s]]
<1>8. g \in [SUBSET Mems -> Nat]
  <2>1. ASSUME NEW s \in SUBSET Mems PROVE f[Cardinality(s)][s] \in Nat
    <3>1. Cardinality(s) \in 0..n
      BY <1>7
    <3>2. f[Cardinality(s)] \in D
      BY <1>6, <3>1
    <3> QED
      BY <3>2
  <2> QED
    BY <2>1
<1>9. ASSUME NEW s \in SUBSET Mems
      PROVE  g[s] = IF s = {} THEN 0 ELSE Size(Pick(s)) + g[s \ {Pick(s)}]
  <2>1. CASE s = {}
    BY <1>6, <1>7, <2>1
  <2>2. CASE s # {}
    <3> DEFINE k == Cardinality(s)
               r == s \ {Pick(s)}
    <3>1. k \in 1..n /\ r \in SUBSET Mems /\ Cardinality(r) = k - 1
      BY <1>1, <1>7, <2>2
    <3>2. f[k] = More(f[k - 1])
      <4>1. f[k] = step[<<k, f[k - 1]>>] /\ f[k - 1] \in D
        <5>1. k - 1 \in 0..n
          BY <1>1, <3>1
        <5> QED
          BY <1>6, <3>1, <5>1
      <4> QED
        BY <3>1, <4>1
    <3>3. f[k][s] = Size(Pick(s)) + f[k - 1][r]
      BY <2>2, <3>2 DEF More
    <3>4. g[s] = f[k][s] /\ g[r] = f[k - 1][r]
      BY <3>1
    <3> QED
      BY <2>2, <3>3, <3>4
  <2> QED
    BY <2>1, <2>2
<1> HIDE DEF g
<1>10. Sums(g, Mems)
  <2>1. g = [s \in SUBSET Mems |-> g[s]]
    BY <1>8
  <2> QED
    BY <1>9, <2>1 DEF Sums
<1> QED
  BY <1>8, <1>10

\* ... and do not depend on the set that they are computed for, nor on the order.
LEMMA SumsAgree ==
  ASSUME NEW g, Sums(g, Mems), NEW S \in SUBSET Mems, NEW h, Sums(h, S)
  PROVE  \A s \in SUBSET S : h[s] = g[s]
<1> DEFINE D == {s \in SUBSET S : h[s] # g[s]}
<1>1. SUFFICES ASSUME D # {} PROVE FALSE
  OBVIOUS
<1>2. IsFiniteSet(S)
  BY MemsAssumption, FS_Subset
<1>3. PICK s \in D : \A r \in D : r \subseteq s => r = s
  <2>1. \A X \in D : X \subseteq S
    OBVIOUS
  <2> HIDE DEF D
  <2> QED
    BY <1>1, <1>2, <2>1, Smallest
<1>4. s # {}
  BY DEF Sums
<1>5. s \ {Pick(s)} \in SUBSET S /\ s \ {Pick(s)} # s
  BY <1>4, PickIn
<1>6. h[s \ {Pick(s)}] = g[s \ {Pick(s)}]
  BY <1>3, <1>5
<1>7. h[s] = Size(Pick(s)) + h[s \ {Pick(s)}] /\ g[s] = Size(Pick(s)) + g[s \ {Pick(s)}]
  BY <1>4 DEF Sums
<1> QED
  BY <1>3, <1>6, <1>7

LEMMA SumsAdd ==
  ASSUME Typed, NEW g \in [SUBSET Mems -> Nat], Sums(g, Mems)
  PROVE  \A s \in SUBSET Mems : \A x \in s : g[s] = Size(x) + g[s \ {x}]
<1> DEFINE D == {s \in SUBSET Mems : \E x \in s : g[s] # Size(x) + g[s \ {x}]}
<1>1. SUFFICES ASSUME D # {} PROVE FALSE
  OBVIOUS
<1>2. PICK s \in D : \A r \in D : r \subseteq s => r = s
  <2>1. \A X \in D : X \subseteq Mems
    OBVIOUS
  <2> HIDE DEF D
  <2> QED
    BY <1>1, <2>1, Smallest, MemsAssumption
<1>3. PICK x \in s : g[s] # Size(x) + g[s \ {x}]
  OBVIOUS
<1> DEFINE c == Pick(s)
<1>4. c \in s /\ g[s] = Size(c) + g[s \ {c}]
  BY PickIn DEF Sums
<1>5. c # x
  BY <1>3, <1>4
<1> HIDE DEF c
<1>6. s \ {c} \notin D /\ s \ {x} \notin D
  BY <1>2, <1>3, <1>4
<1>7. x \in s \ {c} /\ c \in s \ {x} /\ s \ {c} \in SUBSET Mems /\ s \ {x} \in SUBSET Mems
  BY <1>3, <1>4, <1>5
<1>8. g[s \ {c}] = Size(x) + g[(s \ {c}) \ {x}] /\ g[s \ {x}] = Size(c) + g[(s \ {x}) \ {c}]
  BY <1>6, <1>7
<1>9. g[(s \ {c}) \ {x}] = g[(s \ {x}) \ {c}]
  <2>1. (s \ {c}) \ {x} = (s \ {x}) \ {c}
    OBVIOUS
  <2> QED
    BY <2>1
<1>10. Size(x) \in Nat /\ Size(c) \in Nat /\ g[(s \ {x}) \ {c}] \in Nat
  BY <1>7, ProfileOf DEF Size
<1> QED
  <2> DEFINE R == g[(s \ {x}) \ {c}]
             A == g[s \ {c}]
             B == g[s \ {x}]
  <2>1. A = Size(x) + R /\ B = Size(c) + R /\ R \in Nat
    BY <1>8, <1>9, <1>10
  <2>2. g[s] = Size(c) + A /\ g[s] # Size(x) + B
    BY <1>3, <1>4
  <2> HIDE DEF R, A, B
  <2> QED
    BY <1>10, <2>1, <2>2

LEMMA CharsAdd ==
  ASSUME Typed
  PROVE  /\ Chars({}) = 0
         /\ \A S \in SUBSET Mems : /\ Chars(S) \in Nat
                                   /\ \A x \in Mems \ S : Chars(S \cup {x}) = Chars(S) + Size(x)
<1>1. PICK g \in [SUBSET Mems -> Nat] : Sums(g, Mems)
  BY SumExists
<1>2. ASSUME NEW S \in SUBSET Mems PROVE Chars(S) = g[S]
  <2> DEFINE h == CHOOSE h : Sums(h, S)
  <2>1. Chars(S) = h[S]
    BY DEF Chars, MapThenSumSet, MapThenFoldSet, Sums, Size, Pick
  <2>2. Sums([s \in SUBSET S |-> g[s]], S)
    <3>1. ASSUME NEW s \in SUBSET S
          PROVE  g[s] = IF s = {} THEN 0 ELSE Size(Pick(s)) + g[s \ {Pick(s)}]
      BY <1>1 DEF Sums
    <3> QED
      BY <3>1 DEF Sums
  <2>3. Sums(h, S)
    BY <2>2
  <2> HIDE DEF h
  <2> QED
    BY <1>1, <2>1, <2>3, SumsAgree
<1>3. Chars({}) = 0
  BY <1>1, <1>2 DEF Sums
<1>4. ASSUME NEW S \in SUBSET Mems, NEW x \in Mems \ S
      PROVE  Chars(S \cup {x}) = Chars(S) + Size(x)
  <2>1. (S \cup {x}) \ {x} = S /\ S \cup {x} \in SUBSET Mems
    OBVIOUS
  <2>2. g[S \cup {x}] = Size(x) + g[S]
    <3>1. g[S \cup {x}] = Size(x) + g[(S \cup {x}) \ {x}]
      <4>1. x \in S \cup {x} /\ \A s \in SUBSET Mems : \A y \in s : g[s] = Size(y) + g[s \ {y}]
        BY <1>1, SumsAdd
      <4> QED
        BY <2>1, <4>1, Zenon
    <3> QED
      BY <2>1, <3>1
  <2>3. Size(x) \in Nat /\ g[S] \in Nat
    BY ProfileOf DEF Size
  <2> QED
    BY <1>2, <2>1, <2>2, <2>3
<1> QED
  BY <1>2, <1>3, <1>4

(***************************************************************************)
(* One candidate after another.                                            *)
(***************************************************************************)

\* Places count from 1 without gaps, in the order.
LEMMA Places ==
  ASSUME NEW S \in SUBSET Nat, IsFiniteSet(S), NEW key, \A x \in S : key[x] \in Int
  PROVE  /\ \A x \in S : Place(S, key, x) \in 1..Cardinality(S)
         /\ \A i \in 1..Cardinality(S) : \E x \in S : Place(S, key, x) = i
         /\ \A x, y \in S : First(key, x, y) <=> Place(S, key, x) < Place(S, key, y)
<1> DEFINE n == Cardinality(S)
<1>1. ASSUME NEW x \in S
      PROVE  /\ IsFiniteSet(Ahead(S, key, x)) /\ x \notin Ahead(S, key, x)
             /\ Cardinality(Ahead(S, key, x)) \in Nat /\ Cardinality(Ahead(S, key, x)) < n
             /\ n \in Nat
  <2>1. Ahead(S, key, x) \subseteq S /\ x \notin Ahead(S, key, x)
    BY FirstOrders DEF Ahead
  <2>2. /\ Ahead(S, key, x) \subseteq S /\ IsFiniteSet(Ahead(S, key, x))
        /\ Cardinality(Ahead(S, key, x)) <= n
        /\ Cardinality(Ahead(S, key, x)) = n => Ahead(S, key, x) = S
    BY <2>1, FS_Subset
  <2> QED
    BY <2>1, <2>2, FS_CardinalityType
<1>2. \A x \in S : Place(S, key, x) = 1 + Cardinality(Ahead(S, key, x)) /\ Place(S, key, x) \in 1..n
  BY <1>1, PlaceType
<1>3. ASSUME NEW x \in S, NEW y \in S, First(key, x, y)
      PROVE  Place(S, key, x) < Place(S, key, y)
  <2>1. Ahead(S, key, x) \subseteq Ahead(S, key, y) /\ x \in Ahead(S, key, y)
    BY <1>3, FirstOrders DEF Ahead
  <2>2. /\ Cardinality(Ahead(S, key, x)) <= Cardinality(Ahead(S, key, y))
        /\ Cardinality(Ahead(S, key, x)) = Cardinality(Ahead(S, key, y))
             => Ahead(S, key, x) = Ahead(S, key, y)
    BY <1>1, <2>1, FS_Subset
  <2> QED
    BY <1>1, <1>2, <2>1, <2>2
<1>4. ASSUME NEW x \in S, NEW y \in S, Place(S, key, x) < Place(S, key, y)
      PROVE  First(key, x, y)
  <2>1. x # y /\ ~(Place(S, key, y) < Place(S, key, x))
    BY <1>2, <1>4
  <2> QED
    BY <1>3, <2>1, FirstOrders
<1>5. \A i \in 1..n : \E x \in S : Place(S, key, x) = i
  <2> DEFINE f == [x \in S |-> Place(S, key, x)]
  <2>1. \A x, y \in S : Place(S, key, x) = Place(S, key, y) => x = y
    <3> SUFFICES ASSUME NEW x \in S, NEW y \in S, x # y PROVE Place(S, key, x) # Place(S, key, y)
      OBVIOUS
    <3>1. Place(S, key, x) < Place(S, key, y) \/ Place(S, key, y) < Place(S, key, x)
      BY <1>3, FirstOrders
    <3> QED
      BY <1>2, <3>1
  <2>2. f \in Injection(S, 1..n)
    <3>1. f \in [S -> 1..n]
      BY <1>2
    <3> QED
      BY <2>1, <3>1 DEF Injection, IsInjective
  <2>3. n \in Nat /\ IsFiniteSet(1..n) /\ Cardinality(1..n) = n
    <3>1. n \in Nat /\ n \in Int /\ 1 \in Int
      BY FS_CardinalityType
    <3>2. IsFiniteSet(1..n) /\ Cardinality(1..n) = IF 1 > n THEN 0 ELSE n - 1 + 1
      BY <3>1, FS_Interval
    <3> QED
      BY <3>1, <3>2
  <2> HIDE DEF f
  <2>4. f \in Surjection(S, 1..n)
    BY <2>2, <2>3, FS_Injection
  <2>5. \A i \in 1..n : \E x \in S : f[x] = i
    BY <2>4 DEF Surjection
  <2> QED
    BY <2>5 DEF f
<1> QED
  BY <1>2, <1>3, <1>4, <1>5

LEMMA OfferedIs ==
  ASSUME Typed, results \subseteq Mems
  PROVE  /\ Offered \in SUBSET Nat /\ IsFiniteSet(Offered) /\ Offered \subseteq Mems
         /\ \A m \in Offered : Standing[m] \in Int
         /\ Cardinality(Offered) \in Nat
<1>1. Offered \subseteq Mems
  BY DEF Offered, Current, Trusted
<1>2. Offered \in SUBSET Nat /\ IsFiniteSet(Offered)
  BY <1>1, MemsAssumption, FS_Subset
<1>3. ASSUME NEW m \in Mems PROVE Boosted(vector)[m] \in Nat
  BY ProfileOf, ScoresType DEF Boosted, Least, Unit
<1>4. ASSUME NEW m \in Offered PROVE Standing[m] \in Int
  <2>1. Boosted(vector)[m] \in Nat
    BY <1>1, <1>3
  <2> QED
    BY <2>1 DEF Standing, Unit
<1> QED
  BY <1>1, <1>2, <1>4, FS_CardinalityType

StandingOf(m) == Place(Offered, Standing, m)
Upto(i) == {m \in Offered : StandingOf(m) <= i}
Pairs == [memories: SUBSET Mems, hypotheses: SUBSET Mems]

\* Candidate i is the one that goes i-th.
LEMMA NthIs ==
  ASSUME Typed, results \subseteq Mems, NEW i \in 1..Cardinality(Offered)
  PROVE  /\ Nth(i) \in Offered /\ StandingOf(Nth(i)) = i
         /\ \A m \in Offered : StandingOf(m) = i => m = Nth(i)
         /\ Nth(i) \notin Upto(i - 1) /\ Upto(i) = Upto(i - 1) \cup {Nth(i)}
<1>1. /\ \A x \in Offered : StandingOf(x) \in 1..Cardinality(Offered)
      /\ \E x \in Offered : StandingOf(x) = i
      /\ \A x, y \in Offered : First(Standing, x, y) <=> StandingOf(x) < StandingOf(y)
  BY OfferedIs, Places DEF StandingOf
<1>2. Nth(i) \in Offered /\ StandingOf(Nth(i)) = i
  BY <1>1 DEF Nth, StandingOf
<1>3. ASSUME NEW m \in Offered, StandingOf(m) = i PROVE m = Nth(i)
  <2>1. ~First(Standing, m, Nth(i)) /\ ~First(Standing, Nth(i), m)
    BY <1>1, <1>2, <1>3
  <2>2. Offered \in SUBSET Nat /\ \A x \in Offered : Standing[x] \in Int
    BY OfferedIs
  <2>3. \A x, y \in Offered : x # y => First(Standing, x, y) \/ First(Standing, y, x)
    BY <2>2, FirstOrders
  <2> QED
    BY <1>2, <2>1, <2>3
<1>4. \A m \in Offered : StandingOf(m) <= i <=> StandingOf(m) <= i - 1 \/ m = Nth(i)
  BY <1>1, <1>2, <1>3, OfferedIs
<1> QED
  BY <1>2, <1>3, <1>4 DEF Upto

LEMMA TakeIs ==
  ASSUME NEW s \in Pairs, NEW m
  PROVE  \/ Take(s, m) = [memories |-> s.memories \cup {m}, hypotheses |-> s.hypotheses]
         \/ Take(s, m) = [memories |-> s.memories, hypotheses |-> s.hypotheses \cup {m}]
BY DEF Take, Pairs

Turns(f) ==
  LET n == Cardinality(Offered) IN
  /\ (\A i \in 0..n : f[i] \in Pairs) /\ f[0] = Nothing
  /\ \A i \in 1..n : f[i] = IF Fits(f[i - 1], Nth(i)) THEN Take(f[i - 1], Nth(i)) ELSE f[i - 1]

LEMMA SelectionRuns ==
  ASSUME Typed, results \subseteq Mems
  PROVE  \E f : Turns(f) /\ Selection = f[Cardinality(Offered)]
<1> DEFINE n == Cardinality(Offered)
           D == Pairs
           step == [p \in (1..n) \X D |->
                      IF Fits(p[2], Nth(p[1])) THEN Take(p[2], Nth(p[1])) ELSE p[2]]
           after[i \in 0..Cardinality(Offered)] ==
             IF i = 0 THEN Nothing
             ELSE LET s == after[i - 1] IN IF Fits(s, Nth(i)) THEN Take(s, Nth(i)) ELSE s
<1>1. n \in Nat /\ Nothing \in D
  BY OfferedIs DEF Nothing, Pairs
<1>2. step \in [(1..n) \X D -> D]
  <2>1. ASSUME NEW i \in 1..n, NEW s \in D PROVE Take(s, Nth(i)) \in D
    <3>1. Nth(i) \in Mems
      BY NthIs, OfferedIs
    <3> QED
      BY <3>1, TakeIs DEF Pairs
  <2> QED
    BY <2>1
<1>3. PICK f : Runs(f, n, Nothing, step, D)
  <2> HIDE DEF step, n, D
  <2> QED
    BY <1>1, <1>2, RunExists
<1>4. f \in [0..n -> D] /\ f[0] = Nothing /\ \A i \in 1..n : f[i] = step[<<i, f[i - 1]>>]
  <2> HIDE DEF step, n, D
  <2> QED
    BY <1>3 DEF Runs
<1>5. ASSUME NEW i \in 1..n
      PROVE  f[i] = IF Fits(f[i - 1], Nth(i)) THEN Take(f[i - 1], Nth(i)) ELSE f[i - 1]
  <2>1. i - 1 \in 0..n /\ f[i - 1] \in D
    BY <1>1, <1>4
  <2> QED
    BY <1>4, <2>1
<1>6. f = [i \in 0..n |-> IF i = 0 THEN Nothing
                         ELSE IF Fits(f[i - 1], Nth(i)) THEN Take(f[i - 1], Nth(i)) ELSE f[i - 1]]
  <2>1. \A i \in 0..n : i # 0 => i \in 1..n
    BY <1>1
  <2>2. f = [i \in 0..n |-> f[i]]
    BY <1>4
  <2> QED
    BY <1>4, <1>5, <2>1, <2>2
<1>7. \A i \in 0..n : after[i] = IF i = 0 THEN Nothing
                         ELSE IF Fits(after[i - 1], Nth(i)) THEN Take(after[i - 1], Nth(i))
                         ELSE after[i - 1]
  BY <1>6
<1>8. Selection = after[n]
  BY DEF Selection
<1> HIDE DEF after
<1>9. after[0] = Nothing
  BY <1>1, <1>7
<1>10. ASSUME NEW i \in 1..n
       PROVE  after[i] = IF Fits(after[i - 1], Nth(i)) THEN Take(after[i - 1], Nth(i))
                         ELSE after[i - 1]
  <2>1. i \in 0..n /\ i # 0
    BY <1>1
  <2> QED
    BY <1>7, <2>1
<1>11. \A i \in 0..n : after[i] \in D
  <2> DEFINE H == {i \in 0..n : after[i] \in D}
  <2>1. 0 \in H
    BY <1>1, <1>9
  <2>2. ASSUME NEW i \in 1..n, i - 1 \in H PROVE i \in H
    <3>1. Take(after[i - 1], Nth(i)) \in D
      <4>1. Nth(i) \in Mems
        BY NthIs, OfferedIs
      <4> QED
        BY <2>2, <4>1, TakeIs DEF Pairs
    <3> QED
      BY <1>1, <1>10, <2>2, <3>1
  <2>3. H \in SUBSET Nat
    BY <1>1
  <2> HIDE DEF H
  <2>4. 0..n \subseteq H
    BY <1>1, <2>1, <2>2, <2>3, Upwards
  <2> QED
    BY <2>4 DEF H
<1>12. Turns(after)
  BY <1>9, <1>10, <1>11 DEF Turns
<1> QED
  BY <1>8, <1>12

\* After i candidates: only of those, within both budgets, nothing said twice; and what was chosen
\* before is as it was.
SoFar(f, i) ==
  /\ f[i].memories \cup f[i].hypotheses \subseteq Upto(i)
  /\ Cardinality(f[i].memories) <= MaxMemories
  /\ Used(f[i]) <= MaxChars
  /\ \A x, y \in f[i].memories : x # y => ~Alike(x, y)
  /\ \A j \in 0..i : /\ f[i].memories \cap Upto(j) = f[j].memories
                    /\ f[i].hypotheses \cap Upto(j) = f[j].hypotheses

LEMMA AlikeSymmetric == \A x, y : Alike(x, y) => Alike(y, x)
<1> SUFFICES ASSUME NEW x, NEW y, Alike(x, y) PROVE Alike(y, x)
  OBVIOUS
<1>1. Of(x).terms \cap Of(y).terms = Of(y).terms \cap Of(x).terms
  OBVIOUS
<1>2. Of(x).terms \cup Of(y).terms = Of(y).terms \cup Of(x).terms
  OBVIOUS
<1> QED
  BY <1>1, <1>2 DEF Alike

LEMMA SoFarAtFirst ==
  ASSUME Typed, results \subseteq Mems, NEW f, Turns(f)
  PROVE  SoFar(f, 0)
<1>1. f[0].memories = {} /\ f[0].hypotheses = {}
  BY DEF Turns, Nothing
<1>2. Used(f[0]) = 0
  BY <1>1, CharsAdd DEF Used
<1>3. Cardinality({}) = 0 /\ MaxMemories \in Nat /\ MaxChars \in Nat
  BY FS_EmptySet, LimitsAssumption
<1>4. \A j \in 0..0 : j = 0
  OBVIOUS
<1> QED
  BY <1>1, <1>2, <1>3, <1>4 DEF SoFar

LEMMA SoFarOn ==
  ASSUME Typed, results \subseteq Mems, NEW f, Turns(f),
         NEW i \in 1..Cardinality(Offered), SoFar(f, i - 1)
  PROVE  SoFar(f, i)
<1> DEFINE n == Cardinality(Offered)
           m == Nth(i)
           s == f[i - 1]
           M == s.memories
           H == s.hypotheses
<1>0. n \in Nat /\ i \in Nat /\ i - 1 \in 0..n /\ i \in 0..n
  BY OfferedIs
<1>1. s \in Pairs /\ f[i] = IF Fits(s, m) THEN Take(s, m) ELSE s
  BY <1>0 DEF Turns
<1>2. m \in Offered /\ m \notin Upto(i - 1) /\ Upto(i) = Upto(i - 1) \cup {m}
  BY NthIs
<1>3. M \cup H \subseteq Upto(i - 1) /\ M \in SUBSET Mems /\ H \in SUBSET Mems
  BY <1>1 DEF SoFar, Pairs
<1>4. \A j \in 0..(i - 1) : Upto(j) \subseteq Upto(i - 1) /\ m \notin Upto(j)
  <2>1. ASSUME NEW j \in 0..(i - 1) PROVE Upto(j) \subseteq Upto(i - 1)
    <3>1. \A x \in Offered : StandingOf(x) \in 1..n
      BY OfferedIs, Places DEF StandingOf
    <3> QED
      BY <1>0, <3>1 DEF Upto
  <2> QED
    BY <1>2, <2>1
<1>5. (M \cup H) \cap Upto(i - 1) = M \cup H
  BY <1>3
<1>6. MaxMemories \in Nat /\ MaxChars \in Nat
  BY LimitsAssumption
<1>7. m \in Mems /\ m \notin M \cup H
  BY <1>2, <1>3, OfferedIs
<1> HIDE DEF m, s, n
\* What the candidate changes, if it is chosen.
<1>8. ASSUME NEW M2, NEW H2, f[i].memories = M2, f[i].hypotheses = H2,
             \/ M2 = M /\ H2 = H
             \/ M2 = M \cup {m} /\ H2 = H /\ Fits(s, m)
             \/ M2 = M /\ H2 = H \cup {m} /\ Fits(s, m)
      PROVE  SoFar(f, i)
  <2>1. M2 \cup H2 \subseteq Upto(i)
    BY <1>2, <1>3, <1>8
  <2>2. Cardinality(M2) <= MaxMemories
    <3>1. Cardinality(M) <= MaxMemories
      BY DEF SoFar, s
    <3>2. IsFiniteSet(M) /\ Cardinality(M) \in Nat
      BY <1>3, MemsAssumption, FS_Subset, FS_CardinalityType
    <3>3. M2 = M \cup {m} => Cardinality(M2) = Cardinality(M) + 1 /\ Cardinality(M) < MaxMemories
      <4> SUFFICES ASSUME M2 = M \cup {m}
                   PROVE  Cardinality(M2) = Cardinality(M) + 1 /\ Cardinality(M) < MaxMemories
        OBVIOUS
      <4>1. Fits(s, m)
        BY <1>7, <1>8
      <4> QED
        BY <1>7, <3>2, <4>1, FS_AddElement DEF Fits
    <3> QED
      BY <1>6, <1>8, <3>1, <3>2, <3>3
  <2>3. Used(f[i]) <= MaxChars
    <3>1. Chars(M \cup H) <= MaxChars
      BY DEF SoFar, s, Used
    <3>2. CASE M2 = M /\ H2 = H
      BY <1>8, <3>1, <3>2 DEF Used
    <3>3. CASE ~(M2 = M /\ H2 = H)
      <4>1. Fits(s, m) /\ M2 \cup H2 = (M \cup H) \cup {m}
        BY <1>8, <3>3
      <4>2. Chars((M \cup H) \cup {m}) = Chars(M \cup H) + Size(m)
        BY <1>3, <1>7, CharsAdd
      <4>3. Chars(M \cup H) + Size(m) <= MaxChars
        BY <4>1 DEF Fits, Used, Size
      <4> QED
        BY <1>8, <4>1, <4>2, <4>3 DEF Used
    <3> QED
      BY <3>2, <3>3
  <2>4. \A x, y \in M2 : x # y => ~Alike(x, y)
    <3>1. \A x, y \in M : x # y => ~Alike(x, y)
      BY DEF SoFar, s
    <3>2. M2 # M => M2 = M \cup {m} /\ \A k \in M : ~Alike(k, m)
      BY <1>8 DEF Fits
    <3> QED
      BY <3>1, <3>2, AlikeSymmetric
  <2>5. ASSUME NEW j \in 0..i
        PROVE  M2 \cap Upto(j) = f[j].memories /\ H2 \cap Upto(j) = f[j].hypotheses
    <3>1. CASE j = i
      BY <1>8, <2>1, <3>1
    <3>2. CASE j # i
      <4>1. j \in 0..(i - 1)
        BY <1>0, <3>2
      <4>2. M \cap Upto(j) = f[j].memories /\ H \cap Upto(j) = f[j].hypotheses
        BY <4>1 DEF SoFar, s
      <4> QED
        BY <1>4, <1>8, <4>1, <4>2
    <3> QED
      BY <3>1, <3>2
  <2> QED
    BY <1>8, <2>1, <2>2, <2>3, <2>4, <2>5 DEF SoFar
<1>9. \/ f[i] = s
      \/ Fits(s, m) /\ f[i] = [memories |-> M \cup {m}, hypotheses |-> H]
      \/ Fits(s, m) /\ f[i] = [memories |-> M, hypotheses |-> H \cup {m}]
  BY <1>1, TakeIs
<1> QED
  BY <1>8, <1>9

\* Greedy is what the budget allows: a candidate left out does not fit beside those before it.
LEMMA SelectionFits ==
  ASSUME Typed, results \subseteq Mems
  PROVE  LET s == Selection IN
         /\ Cardinality(s.memories) <= MaxMemories
         /\ Used(s) <= MaxChars
         /\ \A x, y \in s.memories : x # y => ~Alike(x, y)
         /\ \A m \in Offered \ (s.memories \cup s.hypotheses) :
              LET ahead == {k \in Offered : First(Standing, k, m)}
              IN  ~Fits([memories |-> s.memories \cap ahead,
                         hypotheses |-> s.hypotheses \cap ahead], m)
<1> DEFINE n == Cardinality(Offered)
<1>1. n \in Nat
  BY OfferedIs
<1>2. PICK f : Turns(f) /\ Selection = f[n]
  BY SelectionRuns
<1>3. \A i \in 0..n : SoFar(f, i)
  <2> DEFINE G == {i \in 0..n : SoFar(f, i)}
  <2>1. 0 \in G /\ G \in SUBSET Nat
    BY <1>1, <1>2, SoFarAtFirst
  <2>2. ASSUME NEW i \in 1..n, i - 1 \in G PROVE i \in G
    <3>1. SoFar(f, i - 1)
      BY <2>2
    <3>2. SoFar(f, i)
      BY <1>2, <3>1, SoFarOn
    <3> QED
      BY <1>1, <3>2
  <2> HIDE DEF G
  <2>3. 0..n \subseteq G
    BY <1>1, <2>1, <2>2, Upwards
  <2> QED
    BY <2>3 DEF G
<1> DEFINE s == f[n]
<1>4. ASSUME NEW m \in Offered \ (s.memories \cup s.hypotheses)
      PROVE  LET ahead == {k \in Offered : First(Standing, k, m)}
             IN  ~Fits([memories |-> s.memories \cap ahead,
                        hypotheses |-> s.hypotheses \cap ahead], m)
  <2> DEFINE i == StandingOf(m)
             ahead == {k \in Offered : First(Standing, k, m)}
             r == f[i - 1]
  <2>1. /\ \A x \in Offered : StandingOf(x) \in 1..n
        /\ \A x \in Offered : First(Standing, x, m) <=> StandingOf(x) < i
    BY OfferedIs, Places DEF StandingOf
  <2>2. i \in 1..n /\ i - 1 \in 0..n /\ i \in 0..n
    BY <1>1, <2>1
  <2>3. m = Nth(i) /\ m \in Upto(i)
    <3>1. m = Nth(i)
      BY <2>2, NthIs
    <3> QED
      BY <2>2, <3>1 DEF Upto
  <2>4. ahead = Upto(i - 1)
    BY <2>1, <2>2 DEF Upto
  <2> HIDE DEF i
  <2>5. /\ s.memories \cap Upto(i - 1) = r.memories /\ s.hypotheses \cap Upto(i - 1) = r.hypotheses
        /\ s.memories \cap Upto(i) = f[i].memories /\ s.hypotheses \cap Upto(i) = f[i].hypotheses
    BY <1>1, <1>3, <2>2 DEF SoFar
  <2>6. r \in Pairs /\ f[i] = IF Fits(r, m) THEN Take(r, m) ELSE r
    BY <1>2, <2>2, <2>3 DEF Turns
  <2>7. m \notin f[i].memories \cup f[i].hypotheses
    BY <2>5
  <2>8. ~Fits(r, m)
    BY <2>6, <2>7, TakeIs
  <2>9. r = [memories |-> r.memories, hypotheses |-> r.hypotheses]
    BY <2>6 DEF Pairs
  <2> QED
    BY <2>4, <2>5, <2>8, <2>9
<1>5. SoFar(f, n)
  BY <1>1, <1>3
<1> QED
  BY <1>2, <1>4, <1>5 DEF SoFar

\* The selection stays what it is once it has been made: nothing that it depends on changes.
Lengths(sc, S) == MapThenSumSet(LAMBDA m : sc.of[m].size, S)

LEMMA OffersUnmoved ==
  ASSUME UNCHANGED <<scene, ask, live, results, vector>>
  PROVE  /\ Offered' = Offered /\ Standing' = Standing
         /\ \A s : Used(s)' = Used(s)
         /\ \A x, y : Alike(x, y)' = Alike(x, y)
         /\ \A s, m : Fits(s, m)' = Fits(s, m)
<1>1. ASSUME NEW m PROVE Of(m)' = Of(m)
  BY DEF Of
<1>2. ASSUME NEW m, NEW n PROVE Score(m, n)' = Score(m, n)
  BY <1>1 DEF Score
<1>3. ASSUME NEW m PROVE Relevance(m, vector)' = Relevance(m, vector)
  BY <1>1, <1>2 DEF Relevance
<1>4. Boosted(vector)' = Boosted(vector)
  BY <1>1, <1>3 DEF Boosted
<1>5. Trusted' = Trusted /\ WarningsOnly' = WarningsOnly
  BY <1>1 DEF Trusted, WarningsOnly
<1>6. Lowest' = Lowest
  <2> DEFINE values == {Boosted(vector)[m] : m \in Trusted}
  <2>1. values' = values
    BY <1>4, <1>5
  <2>2. /\ Lowest = IF Cardinality(Trusted) > 1 THEN Min(values) + 400 ELSE 0
        /\ Lowest' = IF Cardinality(Trusted') > 1 THEN Min(values') + 400 ELSE 0
    BY DEF Lowest
  <2> HIDE DEF values
  <2> QED
    BY <1>5, <2>1, <2>2
<1>7. ASSUME NEW m PROVE Relevant(m)' = Relevant(m) /\ Anchored(m)' = Anchored(m)
  <2>1. Anchored(m)' = Anchored(m) /\ Warning(m)' = Warning(m)
    BY <1>1 DEF Anchored, Warning
  <2> QED
    BY <1>4, <1>5, <1>6, <2>1 DEF Relevant
<1>8. Current' = Current
  BY <1>1, <1>5 DEF Current
<1>9. Offered' = Offered
  BY <1>7, <1>8 DEF Offered
<1>10. Standing' = Standing
  BY <1>4, <1>7, <1>9 DEF Standing
<1>11. ASSUME NEW s PROVE Used(s)' = Used(s)
  <2>1. /\ Chars(s.memories \cup s.hypotheses) = Lengths(scene, s.memories \cup s.hypotheses)
        /\ Chars(s.memories \cup s.hypotheses)' = Lengths(scene', s.memories \cup s.hypotheses)
    BY DEF Chars, Lengths, Of, MapThenSumSet, MapThenFoldSet
  <2> QED
    BY <2>1 DEF Used
<1>12. ASSUME NEW x, NEW y PROVE Alike(x, y)' = Alike(x, y)
  BY <1>1 DEF Alike
<1>13. ASSUME NEW s, NEW m PROVE Fits(s, m)' = Fits(s, m)
  BY <1>1, <1>11, <1>12 DEF Fits
<1> QED
  BY <1>9, <1>10, <1>11, <1>12, <1>13

LEMMA FitsUnmoved ==
  ASSUME UNCHANGED <<scene, ask, live, results, vector>>, ask.mode = "inject",
         LET s == answer' IN
           /\ Cardinality(s.memories) <= MaxMemories
           /\ Used(s) <= MaxChars
           /\ \A x, y \in s.memories : x # y => ~Alike(x, y)
           /\ \A m \in Offered \ (s.memories \cup s.hypotheses) :
                LET ahead == {k \in Offered : First(Standing, k, m)}
                IN  ~Fits([memories |-> s.memories \cap ahead,
                           hypotheses |-> s.hypotheses \cap ahead], m)
  PROVE  InjectsWhatFits'
<1>1. /\ Offered' = Offered /\ Standing' = Standing
      /\ \A s : Used(s)' = Used(s)
      /\ \A x, y : Alike(x, y)' = Alike(x, y)
      /\ \A s, m : Fits(s, m)' = Fits(s, m)
  BY OffersUnmoved
<1>2. Used(answer)' = Used(answer')
  <2>1. /\ Used(answer)' = Lengths(scene', answer'.memories \cup answer'.hypotheses)
        /\ Used(answer') = Lengths(scene, answer'.memories \cup answer'.hypotheses)
    BY DEF Used, Chars, Lengths, Of, MapThenSumSet, MapThenFoldSet
  <2> QED
    BY <2>1
<1> QED
  BY <1>1, <1>2 DEF InjectsWhatFits

Chosen == results \subseteq Mems /\ InjectsWhatFits

LEMMA ChosenStep ==
  ASSUME Typed, Posed, Chosen, [Next]_vars
  PROVE  Chosen'
<1>1. CASE Inject
  <2>1. /\ answer' = Selection /\ results' = results /\ ask.mode = "inject"
        /\ UNCHANGED <<scene, ask, live, results, vector>>
    BY <1>1 DEF Inject, Posed, store
  <2>2. InjectsWhatFits'
    BY <2>1, SelectionFits, FitsUnmoved DEF Chosen
  <2> QED
    BY <2>1, <2>2 DEF Chosen
<1>2. CASE UNCHANGED vars
  <2>1. /\ UNCHANGED <<scene, ask, live, results, vector>> /\ answer' = answer /\ at' = at
    BY <1>2 DEF vars
  <2>2. CASE at = "done" /\ ask.mode = "inject"
    <3>1. InjectsWhatFits'
      BY <2>1, <2>2, FitsUnmoved DEF Chosen, InjectsWhatFits
    <3> QED
      BY <2>1, <3>1 DEF Chosen
  <2>3. CASE ~(at = "done" /\ ask.mode = "inject")
    BY <2>1, <2>3 DEF Chosen, InjectsWhatFits
  <2> QED
    BY <2>2, <2>3
<1>3. ASSUME ~(at' = "done" /\ ask'.mode = "inject"), results' \in {results, Ranked}
      PROVE  Chosen'
  <2>1. Ranked \subseteq Mems
    BY DEF Ranked, Top, Usable, Eligible, Typed
  <2> QED
    BY <1>3, <2>1 DEF Chosen, InjectsWhatFits
<1>4. CASE Change
  BY <1>3, <1>4 DEF Change, call
<1>5. CASE Refill
  <2>1. at' \in {"refill", "rank"} /\ results' = results
    BY <1>5 DEF Refill, Search
  <2> QED
    BY <1>3, <2>1
<1>6. CASE Rank
  BY <1>3, <1>6 DEF Rank
<1>7. CASE Direct \/ List \/ Begin \/ Walk \/ Retrieve
  BY <1>3, <1>7 DEF Direct, List, Begin, Walk, Retrieve, Posed
<1> QED
  BY <1>1, <1>2, <1>4, <1>5, <1>6, <1>7 DEF Next

\* select_for_injection (core/injection.py): both budgets are kept to, nothing is said twice, and a
\* memory is left out only when those that come before it leave it no room.
THEOREM PromptsFit == Spec => []InjectsWhatFits
<1>1. Init => Typed /\ Posed /\ Chosen
  BY TypedInit DEF Init, Posed, Chosen, InjectsWhatFits
<1>2. Typed /\ Posed /\ Chosen /\ [Next]_vars => (Typed /\ Posed /\ Chosen)'
  BY TypedStep, PosedStep, ChosenStep
<1>3. Chosen => InjectsWhatFits
  BY DEF Chosen
<1> QED
  BY <1>1, <1>2, <1>3, PTL DEF Spec
=============================================================================
