--------------------------- MODULE LearningProofs ---------------------------
(***************************************************************************)
(* That no chain of writes launders a tier of trust and that no call of     *)
(* learn hides a contradiction, for every number of memories, calls and     *)
(* channels.                                                                *)
(*                                                                         *)
(* The invariant says of a call what it has read: Sound(l).  A call keeps   *)
(* it while others write because of what no write does to a row, Frame.     *)
(***************************************************************************)
EXTENDS LearningProps, TLAPS

Places == {"idle", "check", "decide", "apply", "establish", "link", "quarantine", "supersede",
           "digest"}
Statuses == {"none", "active", "quarantined", "superseded", "deleted", "removed"}

AllChannels ==
  {"cli", "test_capture", "git", "bootstrap", "mcp", "local_owner", "conversation", "http",
   "rest", "import", "instruction", "library", "compression"}

RowType == [status : Statuses, layer : {"none", "episodic", "semantic"}, tag : Tiers,
            source : Tiers, fact : Facts, by : Memories \cup {None}]
CallType == [at : Places, fact : Facts, channel : AllChannels, sources : SUBSET Memories,
             tier : Tiers, basis : Tiers, conflicts : SUBSET (Memories \cup {None}),
             left : SUBSET (Memories \cup {None}), act : {"add", "noop", "update"},
             target : Memories \cup {None}, seen : Tiers, with : Memories \cup {None}]
MergeType == [at : {"idle", "text", "list", "fold"}, to : Memories \cup {None}, tag : Tiers,
              left : SUBSET Memories, moves : SUBSET (Memories \X Memories)]

TypeOK ==
  /\ row \in [Memories -> RowType]
  /\ edge \subseteq Memories \X Memories
  /\ learner \in [Learners -> CallType]
  /\ basis \in [Memories -> Tiers]
  /\ merge \in MergeType
  /\ told \subseteq Memories \X (Memories \cup {None})

\* What the call l knows of the rows is still so.
Sound(l) ==
  LET c == learner[l] IN
  /\ \A m \in c.conflicts : m \in Memories => ~New(m)
  /\ c.at \in {"check", "decide", "apply", "digest"} => Trust(c.tier) <= Trust(c.basis)
  /\ c.at \in {"check", "decide", "apply"} => c.conflicts = {} /\ c.left = {}
  /\ c.at = "establish" => c.left = c.conflicts
  /\ c.at \in {"apply", "link", "quarantine", "supersede"} => c.target \in Memories /\ ~New(c.target)
  /\ c.at = "apply" => c.seen = c.tier
  /\ c.at = "supersede" => c.with \in Memories /\ ~New(c.with)
  /\ c.at \in {"link", "supersede"} =>
       \A m \in c.conflicts \ c.left :
         Present(c.target) /\ Present(m) => <<c.target, m>> \in edge

Told == \A p \in told : ~New(p[1]) /\ (p[2] \in Memories => ~New(p[2]))

\* What a deduplication will write back is no better than what the row's text came from.
MergeSound ==
  merge.at # "idle" =>
    /\ merge.to \in Memories /\ ~New(merge.to)
    /\ Present(merge.to) /\ row[merge.to].layer = "semantic" =>
         Trust(merge.tag) <= Trust(basis[merge.to])

IInv ==
  /\ TypeOK
  /\ NoLaundering
  /\ ContradictionKept
  /\ Told
  /\ MergeSound
  /\ \A l \in Learners : Sound(l)

\* What no write does: bring a removed row back, change its layer, lower what its text counts
\* as, or take an edge between two rows that stay.
Frame ==
  /\ \A m \in Memories : ~New(m) =>
       /\ ~New(m)'
       /\ Present(m)' => /\ Present(m) /\ row'[m].layer = row[m].layer
                          /\ Trust(basis[m]) <= Trust(basis'[m])
  /\ \A p \in edge : Present(p[1])' /\ Present(p[2])' => p \in edge'

USE DEF Tiers, Facts, Places, Statuses, AllChannels

----------------------------------------------------------------------------
LEMMA TrustNat == \A t \in Tiers : Trust(t) \in Nat
  BY DEF Trust

LEMMA ChannelTierType == \A c : ChannelTier(c) \in Tiers
  BY DEF ChannelTier

\* The tier that a call gives its text is no better than what the text came from.
LEMMA SupportSound ==
  ASSUME TypeOK, NoLaundering, NEW S \in SUBSET Memories, Supported(S), NEW c,
         NEW t \in Tiers, NEW b \in Tiers, Support(t, S, c), From(b, S, c)
  PROVE  Trust(t) <= Trust(b)
<1>1. CASE b = ChannelTier(c)
  BY <1>1 DEF Support, From, Least
<1>2. CASE \E s \in S : b = Origin(s)
  <2>1. PICK s \in S : b = Origin(s)
    BY <1>2
  <2>2. Trust(t) <= Trust(row[s].tag)
    BY DEF Support, Least
  <2>3. s \in Memories /\ Present(s)
    BY DEF Supported
  <2>4. Trust(row[s].tag) <= Trust(Origin(s))
    <3>1. row[s].tag \in Tiers
      BY <2>3 DEF TypeOK, RowType
    <3>2. Trust(row[s].tag) <= Trust(row[s].tag)
      BY <3>1, TrustNat
    <3> QED
      BY <2>3, <3>2 DEF NoLaundering, Origin
  <2>5. row[s].tag \in Tiers /\ Origin(s) \in Tiers
    BY <2>3 DEF TypeOK, RowType, Origin
  <2>6. Trust(t) \in Nat /\ Trust(row[s].tag) \in Nat /\ Trust(Origin(s)) \in Nat
    BY <2>5, TrustNat
  <2>7. Trust(t) <= Trust(Origin(s))
    BY <2>2, <2>4, <2>6
  <2> QED
    BY <2>1, <2>7
<1> QED
  BY <1>1, <1>2 DEF From, Least

\* A call that takes no step stays sound under any write within the frame.
LEMMA Untouched ==
  ASSUME TypeOK, Frame, NEW l \in Learners, Sound(l), learner'[l] = learner[l]
  PROVE  Sound(l)'
<1> learner[l] \in CallType
  BY DEF TypeOK
<1> DEFINE c == learner[l]
<1>1. \A m \in c.conflicts : m \in Memories => ~New(m)'
  BY DEF Sound, Frame
<1>2. c.at \in {"apply", "link", "quarantine", "supersede"} => c.target \in Memories /\ ~New(c.target)'
  BY DEF Sound, Frame
<1>4. c.at = "supersede" => c.with \in Memories /\ ~New(c.with)'
  BY DEF Sound, Frame
<1>5. ASSUME c.at \in {"link", "supersede"}, NEW m \in c.conflicts \ c.left,
             Present(c.target)', Present(m)'
      PROVE  <<c.target, m>> \in edge'
  <2>1. m \in Memories /\ ~New(m) /\ c.target \in Memories /\ ~New(c.target)
    BY <1>5 DEF Sound, Present
  <2>2. Present(m) /\ Present(c.target)
    BY <1>5, <2>1 DEF Frame
  <2>3. <<c.target, m>> \in edge
    BY <1>5, <2>2 DEF Sound
  <2> QED
    BY <1>5, <2>3 DEF Frame
<1> QED
  BY <1>1, <1>2, <1>4, <1>5 DEF Sound, New, Present

\* A call that fails or ends knows nothing.
LEMMA NoCallSound ==
  ASSUME NEW l \in Learners, learner'[l] = NoCall
  PROVE  Sound(l)'
  BY DEF Sound, NoCall

LEMMA NoCallType == NoCall \in CallType
  BY DEF NoCall, CallType

LEMMA NoMergeType == NoMerge \in MergeType
<1>1. {} \in SUBSET Memories /\ {} \in SUBSET (Memories \X Memories)
  OBVIOUS
<1> QED
  BY <1>1 DEF NoMerge, MergeType

\* Nor does a write within the frame touch what a deduplication has read.
LEMMA MergeUntouched ==
  ASSUME TypeOK, TypeOK', Frame, MergeSound, merge' = merge
  PROVE  MergeSound'
<1> SUFFICES ASSUME merge.at # "idle"
             PROVE  /\ merge.to \in Memories /\ ~New(merge.to)'
                    /\ Present(merge.to)' /\ row'[merge.to].layer = "semantic" =>
                         Trust(merge.tag) <= Trust(basis'[merge.to])
  BY DEF MergeSound, New, Present
<1> DEFINE m == merge.to
<1>1. m \in Memories /\ ~New(m) /\ ~New(m)'
  BY DEF MergeSound, Frame
<1>2. ASSUME Present(m)', row'[m].layer = "semantic"
      PROVE  Trust(merge.tag) <= Trust(basis'[m])
  <2>1. /\ Trust(merge.tag) <= Trust(basis[m])
        /\ Trust(basis[m]) <= Trust(basis'[m])
    BY <1>1, <1>2 DEF MergeSound, Frame
  <2>2. merge.tag \in Tiers /\ basis[m] \in Tiers /\ basis'[m] \in Tiers
    BY <1>1 DEF TypeOK, MergeType
  <2>3. Trust(merge.tag) \in Nat /\ Trust(basis[m]) \in Nat /\ Trust(basis'[m]) \in Nat
    BY <2>2, TrustNat
  <2> QED
    BY <2>1, <2>3
<1> QED
  BY <1>1, <1>2

\* What was told stays true of the rows that stay.
LEMMA ToldKept ==
  ASSUME TypeOK, Frame, Told, ContradictionKept, told' = told
  PROVE  Told' /\ ContradictionKept'
<1> SUFFICES ASSUME NEW p \in told
             PROVE  /\ ~New(p[1])' /\ (p[2] \in Memories => ~New(p[2])')
                    /\ Present(p[1])' /\ Present(p[2])' => p \in edge'
  BY DEF Told, ContradictionKept, New, Present
<1>1. p[1] \in Memories /\ ~New(p[1]) /\ (p[2] \in Memories => ~New(p[2]))
  BY DEF TypeOK, Told
<1>2. Present(p[1])' /\ Present(p[2])' => Present(p[1]) /\ Present(p[2])
  BY <1>1 DEF Frame, Present
<1> QED
  BY <1>1, <1>2 DEF Frame, ContradictionKept

\* A step that writes no row, edge or tier.
LEMMA StillFrame ==
  ASSUME TypeOK, UNCHANGED <<row, edge, basis>>
  PROVE  Frame
<1>1. \A m \in Memories : Trust(basis[m]) <= Trust(basis[m])
  BY TrustNat DEF TypeOK
<1> QED
  BY <1>1 DEF Frame, New, Present

\* A step of the call l that writes no row, edge or tier.
LEMMA ReadStep ==
  ASSUME IInv, NEW l \in Learners, NEW v \in CallType,
         learner' = [learner EXCEPT ![l] = v], Sound(l)',
         UNCHANGED <<merge, row, edge, basis, told>>
  PROVE  IInv'
<1>1. Frame
  BY StillFrame DEF IInv
<1>2. TypeOK'
  BY DEF IInv, TypeOK
<1>3. NoLaundering' /\ ContradictionKept' /\ Told' /\ MergeSound'
  BY <1>1, <1>2, MergeUntouched DEF IInv, NoLaundering, ContradictionKept, Told, New, Present
<1>4. ASSUME NEW k \in Learners PROVE Sound(k)'
  <2>1. CASE k = l
    BY <2>1
  <2>2. CASE k # l
    <3>1. learner'[k] = learner[k]
      BY <2>2 DEF IInv, TypeOK
    <3> QED
      BY <1>1, <3>1, Untouched DEF IInv
  <2> QED
    BY <2>1, <2>2
<1> QED
  BY <1>2, <1>3, <1>4 DEF IInv

\* A step of the call l that writes within the frame.
LEMMA WriteStep ==
  ASSUME IInv, TypeOK', NoLaundering', Frame, told' = told, merge' = merge, NEW l \in Learners,
         NEW v, learner' = [learner EXCEPT ![l] = v], Sound(l)'
  PROVE  IInv'
<1>1. Told' /\ ContradictionKept' /\ MergeSound'
  BY ToldKept, MergeUntouched DEF IInv
<1>2. ASSUME NEW k \in Learners PROVE Sound(k)'
  <2>1. CASE k = l
    BY <2>1
  <2>2. CASE k # l
    <3>1. learner'[k] = learner[k]
      BY <2>2 DEF IInv, TypeOK
    <3> QED
      BY <3>1, Untouched DEF IInv
  <2> QED
    BY <2>1, <2>2
<1> QED
  BY <1>1, <1>2 DEF IInv

\* A step of the deduplication under way.
LEMMA MergeStep ==
  ASSUME IInv, TypeOK', NoLaundering', MergeSound', Frame, told' = told, learner' = learner
  PROVE  IInv'
<1>1. Told' /\ ContradictionKept'
  BY ToldKept DEF IInv
<1>2. ASSUME NEW k \in Learners PROVE Sound(k)'
  BY Untouched DEF IInv
<1> QED
  BY <1>1, <1>2 DEF IInv

\* A write that no call makes.
LEMMA EditStep ==
  ASSUME IInv, TypeOK', NoLaundering', Frame, told' = told, merge' = merge, learner' = learner
  PROVE  IInv'
  BY MergeStep, MergeUntouched DEF IInv

----------------------------------------------------------------------------
\* Steps that only read.
LEMMA LearnStep ==
  ASSUME IInv, NEW l \in Learners, NEW f \in Facts, NEW c \in Channels, NEW S \in SUBSET Memories,
         Learn(l, f, c, S)
  PROVE  IInv'
<1>1. Supported(S) /\ UNCHANGED <<merge, row, edge, basis, told>>
  BY DEF Learn
<1>2. PICK t \in Tiers, b \in Tiers :
        /\ Support(t, S, c) /\ From(b, S, c)
        /\ learner' = [learner EXCEPT ![l] = [NoCall EXCEPT
             !.at = "check", !.fact = f, !.channel = c, !.sources = S, !.tier = t, !.basis = b]]
  BY DEF Learn
<1> DEFINE v == [NoCall EXCEPT !.at = "check", !.fact = f, !.channel = c, !.sources = S,
                               !.tier = t, !.basis = b]
<1>3. v \in CallType
  BY ChannelsAssumption DEF CallType, NoCall
<1>4. Trust(t) <= Trust(b)
  BY <1>1, <1>2, SupportSound DEF IInv
<1>5. learner'[l] = v
  BY <1>2 DEF IInv, TypeOK
<1>6. Sound(l)'
  BY <1>4, <1>5 DEF Sound, NoCall
<1> QED
  BY <1>1, <1>2, <1>3, <1>6, ReadStep

LEMMA DigestStep ==
  ASSUME IInv, NEW l \in Learners, NEW S \in SUBSET Memories, Digest(l, S)
  PROVE  IInv'
<1>1. Supported(S) /\ UNCHANGED <<merge, row, edge, basis, told>>
  BY DEF Digest, Supported, Present
<1>2. PICK t \in Tiers, b \in Tiers :
        /\ Support(t, S, "compression") /\ From(b, S, "compression")
        /\ learner' = [learner EXCEPT ![l] = [NoCall EXCEPT
             !.at = "digest", !.channel = "compression", !.sources = S, !.tier = t, !.basis = b]]
  BY DEF Digest
<1> DEFINE v == [NoCall EXCEPT !.at = "digest", !.channel = "compression", !.sources = S,
                               !.tier = t, !.basis = b]
<1>3. v \in CallType
  BY DEF CallType, NoCall
<1>4. Trust(t) <= Trust(b)
  BY <1>1, <1>2, SupportSound DEF IInv
<1>5. learner'[l] = v
  BY <1>2 DEF IInv, TypeOK
<1>6. Sound(l)'
  BY <1>4, <1>5 DEF Sound, NoCall
<1> QED
  BY <1>1, <1>2, <1>3, <1>6, ReadStep

LEMMA CheckStep ==
  ASSUME IInv, NEW l \in Learners, CheckConflict(l)
  PROVE  IInv'
<1>1. UNCHANGED <<merge, row, edge, basis, told>> /\ learner[l].at = "check"
  BY DEF CheckConflict, At
<1>2. learner[l] \in CallType /\ Sound(l)
  BY DEF IInv, TypeOK
<1>3. CASE Go(l, "decide")
  <2> DEFINE v == [learner[l] EXCEPT !.at = "decide"]
  <2>1. v \in CallType
    BY <1>2 DEF CallType
  <2>2. learner' = [learner EXCEPT ![l] = v] /\ learner'[l] = v
    BY <1>3 DEF Go, IInv, TypeOK
  <2>3. Sound(l)'
    BY <1>1, <1>2, <2>2 DEF Sound, CallType, New
  <2> HIDE DEF v
  <2> QED
    BY <1>1, <2>1, <2>2, <2>3, ReadStep
<1>4. ASSUME NEW C \in Answers,
             learner' = [learner EXCEPT ![l].conflicts = C, ![l].left = C, ![l].at = "establish"]
      PROVE  IInv'
  <2> DEFINE v == [learner[l] EXCEPT !.conflicts = C, !.left = C, !.at = "establish"]
  <2>1. C \subseteq Memories \cup {None} /\ \A m \in C : m \in Memories => ~New(m)
    <3>1. CASE C = {None}
      BY <3>1, NoneAssumption
    <3>2. CASE C \in SUBSET {m \in Memories : ~New(m)}
      BY <3>2
    <3> QED
      BY <3>1, <3>2 DEF Answers
  <2>2. v \in CallType
    BY <1>2, <2>1 DEF CallType
  <2>3. learner' = [learner EXCEPT ![l] = v] /\ learner'[l] = v
    BY <1>4 DEF IInv, TypeOK
  <2>4. v.at = "establish" /\ v.conflicts = C /\ v.left = C
    BY <1>2 DEF CallType
  <2> HIDE DEF v
  <2>5. Sound(l)'
    BY <1>1, <2>1, <2>3, <2>4 DEF Sound, New
  <2> QED
    BY <1>1, <2>2, <2>3, <2>5, ReadStep
<1> QED
  BY <1>3, <1>4 DEF CheckConflict

LEMMA DecideStep ==
  ASSUME IInv, NEW l \in Learners, Decide(l)
  PROVE  IInv'
<1>1. UNCHANGED <<merge, row, edge, basis, told>> /\ learner[l].at = "decide"
  BY DEF Decide, At
<1>2. learner[l] \in CallType
  BY DEF IInv, TypeOK
<1>3. Sound(l)
  BY DEF IInv
<1>4. CASE Go(l, "establish")
  <2> DEFINE v == [learner[l] EXCEPT !.at = "establish"]
  <2>1. v \in CallType
    BY <1>2 DEF CallType
  <2>2. learner' = [learner EXCEPT ![l] = v] /\ learner'[l] = v
    BY <1>4 DEF Go, IInv, TypeOK
  <2>3. Sound(l)'
    BY <1>1, <1>2, <1>3, <2>2 DEF Sound, CallType
  <2> HIDE DEF v
  <2> QED
    BY <1>1, <2>1, <2>2, <2>3, ReadStep
<1>5. CASE \E m \in Alike(l), a \in {"noop", "update"} : Choose(l, a, m)
  <2>1. PICK m \in Alike(l), a \in {"noop", "update"} : Choose(l, a, m)
    BY <1>5
  <2> DEFINE v == [learner[l] EXCEPT !.at = "apply", !.act = a, !.target = m, !.seen = row[m].tag]
  <2>2. m \in Memories /\ ~New(m) /\ row[m].tag = learner[l].tier
    BY DEF Alike, Held, New
  <2>3. v \in CallType
    <3> DEFINE w == [learner[l] EXCEPT !.at = "apply", !.target = m, !.seen = row[m].tag]
    <3>1. w \in CallType
      <4> DEFINE x == [learner[l] EXCEPT !.at = "apply", !.target = m]
      <4>1. x \in CallType /\ row[m].tag \in Tiers
        BY <1>2, <2>2 DEF CallType
      <4>2. w = [x EXCEPT !.seen = row[m].tag]
        BY <1>2 DEF CallType
      <4> HIDE DEF x, w
      <4>3. [x EXCEPT !.seen = row[m].tag] \in CallType
        BY <4>1 DEF CallType
      <4> QED
        BY <4>2, <4>3
    <3>2. v = [w EXCEPT !.act = a]
      BY <1>2 DEF CallType
    <3> HIDE DEF w, v
    <3>3. [w EXCEPT !.act = a] \in CallType
      BY <3>1 DEF CallType
    <3> QED
      BY <3>2, <3>3
  <2>4. learner' = [learner EXCEPT ![l] = v] /\ learner'[l] = v
    BY <2>1 DEF Choose, IInv, TypeOK
  <2>5. Sound(l)'
    BY <1>1, <1>2, <1>3, <2>2, <2>4 DEF Sound, CallType, New
  <2> HIDE DEF v
  <2> QED
    BY <1>1, <2>3, <2>4, <2>5, ReadStep
<1> QED
  BY <1>4, <1>5 DEF Decide

----------------------------------------------------------------------------
\* Steps that write rows.
LEMMA RowFacts ==
  ASSUME TypeOK
  PROVE  /\ row \in [Memories -> RowType] /\ basis \in [Memories -> Tiers]
         /\ \A m \in Memories : row[m] \in RowType /\ row[m].tag \in Tiers /\ basis[m] \in Tiers
  BY DEF TypeOK, RowType

LEMMA RowIsRow ==
  ASSUME NEW layer \in {"none", "episodic", "semantic"}, NEW t \in Tiers, NEW u \in Tiers, NEW f \in Facts
  PROVE  /\ Row(layer, t, u, f) \in RowType
         /\ Row(layer, t, u, f).tag = t /\ Row(layer, t, u, f).status = "active"
  BY DEF Row, RowType

LEMMA StoreWrites ==
  ASSUME TypeOK, NoLaundering, NEW m \in Memories, NEW r \in RowType, NEW from \in Tiers,
         Store(m, r, from), r.status = "active", Trust(r.tag) <= Trust(from), edge' = edge
  PROVE  /\ row' \in [Memories -> RowType] /\ basis' \in [Memories -> Tiers]
         /\ NoLaundering' /\ Frame
         /\ ~New(m)'
<1> USE RowFacts
<1>1. row' = [row EXCEPT ![m] = r] /\ basis' = [basis EXCEPT ![m] = from]
  BY DEF Store
<1>2. row' \in [Memories -> RowType] /\ basis' \in [Memories -> Tiers]
  BY <1>1
<1>3. row'[m] = r /\ basis'[m] = from /\ \A k \in Memories \ {m} : row'[k] = row[k] /\ basis'[k] = basis[k]
  BY <1>1
<1>4. NoLaundering'
  BY <1>3 DEF NoLaundering, Present
<1>5. Frame
  <2>1. \A k \in Memories : Trust(basis[k]) <= Trust(basis[k])
    BY TrustNat
  <2> QED
    BY <1>1, <1>3, <2>1 DEF Frame, New, Present, Store
<1> QED
  BY <1>2, <1>3, <1>4, <1>5 DEF New

LEMMA ReplaceWrites ==
  ASSUME TypeOK, NoLaundering, NEW m \in Memories, NEW n \in Memories, NEW r \in RowType,
         NEW from \in Tiers, Replace(m, n, r, from), Revisable(m), r.status = "active",
         Trust(r.tag) <= Trust(from), edge' = edge
  PROVE  /\ row' \in [Memories -> RowType] /\ basis' \in [Memories -> Tiers]
         /\ NoLaundering' /\ Frame
         /\ ~New(n)'
<1> USE RowFacts
<1>1. m # n /\ New(n)
  BY DEF Replace, Revisable, New
<1>2. row' = [row EXCEPT ![n] = r, ![m].status = "superseded", ![m].by = n]
      /\ basis' = [basis EXCEPT ![n] = from]
  BY DEF Replace
<1>3. /\ row'[n] = r /\ basis'[n] = from
      /\ row'[m].status = "superseded" /\ row'[m].tag = row[m].tag /\ row'[m].layer = row[m].layer
      /\ \A k \in Memories \ {m, n} : row'[k] = row[k]
      /\ \A k \in Memories \ {n} : basis'[k] = basis[k]
  BY <1>1, <1>2 DEF RowType
<1>4. row' \in [Memories -> RowType]
  <2> DEFINE q == [row[m] EXCEPT !.status = "superseded", !.by = n]
  <2>1. q \in RowType
    BY ZenonT(40) DEF RowType
  <2>2. row' = [row EXCEPT ![n] = r, ![m] = q]
    BY <1>1, <1>2 DEF RowType
  <2> HIDE DEF q
  <2> QED
    BY <2>1, <2>2
<1>5. basis' \in [Memories -> Tiers]
  BY <1>2
<1>6. NoLaundering'
  <2> SUFFICES ASSUME NEW k \in Memories, Present(k)', row'[k].layer = "semantic"
               PROVE  Trust(row'[k].tag) <= Trust(basis'[k])
    BY DEF NoLaundering, Present
  <2>1. CASE k = n
    BY <2>1, <1>3
  <2>2. CASE k = m
    BY <2>2, <1>1, <1>3 DEF NoLaundering, Present, Revisable
  <2>3. CASE k \notin {m, n}
    BY <2>3, <1>3 DEF NoLaundering, Present
  <2> QED
    BY <2>1, <2>2, <2>3
<1>7. Frame
  <2>1. ASSUME NEW k \in Memories, ~New(k)
        PROVE  /\ ~New(k)' /\ (Present(k)' => Present(k)) /\ row'[k].layer = row[k].layer
               /\ Trust(basis[k]) <= Trust(basis'[k])
    <3>1. Trust(basis[k]) <= Trust(basis[k])
      BY TrustNat
    <3> QED
      BY <1>1, <1>3, <2>1, <3>1 DEF New, Present, Revisable
  <2> QED
    BY <2>1 DEF Frame
<1> QED
  BY <1>3, <1>4, <1>5, <1>6, <1>7 DEF New

\* A write of statuses alone.
LEMMA StatusWrites ==
  ASSUME TypeOK, NoLaundering, UNCHANGED basis, edge \subseteq edge',
         \A k \in Memories :
           /\ row'[k].tag = row[k].tag /\ row'[k].layer = row[k].layer
           /\ ~New(k) => ~New(k)'
           /\ Present(k)' => Present(k)
  PROVE  NoLaundering' /\ Frame
<1>0. basis' = basis
  OBVIOUS
<1>1. ASSUME NEW k \in Memories, Present(k)', row'[k].layer = "semantic"
      PROVE  Trust(row'[k].tag) <= Trust(basis'[k])
  <2>1. Present(k) /\ row'[k].tag = row[k].tag /\ row[k].layer = "semantic"
    BY <1>1 DEF Present, New
  <2>2. Trust(row[k].tag) <= Trust(basis[k])
    BY <2>1 DEF NoLaundering
  <2> QED
    BY <1>0, <2>1, <2>2
<1>2. NoLaundering'
  BY <1>1 DEF NoLaundering, Present
<1>3. Frame
  <2>1. \A k \in Memories : Trust(basis[k]) <= Trust(basis'[k])
    BY <1>0, TrustNat DEF TypeOK
  <2> QED
    BY <2>1 DEF Frame, Present, New
<1> QED
  BY <1>2, <1>3

LEMMA CaptureStep ==
  ASSUME IInv, NEW m \in Memories, NEW c \in Channels, NEW y \in {"episodic", "semantic"},
         NEW f \in Facts, Capture(m, c, y, f)
  PROVE  IInv'
<1> DEFINE r == Row(y, ChannelTier(c), ChannelTier(c), f)
<1>1. r \in RowType /\ r.status = "active" /\ r.tag = ChannelTier(c) /\ ChannelTier(c) \in Tiers
  BY ChannelTierType, RowIsRow
<1> HIDE DEF r
<1>2. Store(m, r, ChannelTier(c)) /\ UNCHANGED <<merge, edge, learner, told>>
  BY DEF Capture, r
<1>3. Trust(r.tag) <= Trust(ChannelTier(c))
  BY <1>1, TrustNat
<1>4. NoLaundering' /\ Frame /\ row' \in [Memories -> RowType] /\ basis' \in [Memories -> Tiers]
  BY <1>1, <1>2, <1>3, StoreWrites DEF IInv
<1>5. TypeOK'
  BY <1>2, <1>4 DEF IInv, TypeOK
<1> QED
  BY <1>2, <1>4, <1>5, EditStep

LEMMA ReviseStep ==
  ASSUME IInv, NEW m \in Memories, NEW n \in Memories, NEW c \in Channels, Revise(m, n, c)
  PROVE  IInv'
<1> DEFINE r == Row("semantic", ChannelTier(c), ChannelTier(c), row[m].fact)
<1>1. r \in RowType /\ r.status = "active" /\ r.tag = ChannelTier(c) /\ ChannelTier(c) \in Tiers
  <2>1. row[m].fact \in Facts
    BY DEF IInv, TypeOK, RowType
  <2> QED
    BY <2>1, ChannelTierType, RowIsRow
<1> HIDE DEF r
<1>2. Replace(m, n, r, ChannelTier(c)) /\ Revisable(m) /\ UNCHANGED <<merge, edge, learner, told>>
  BY DEF Revise, r
<1>3. Trust(r.tag) <= Trust(ChannelTier(c))
  BY <1>1, TrustNat
<1>4. NoLaundering' /\ Frame /\ row' \in [Memories -> RowType] /\ basis' \in [Memories -> Tiers]
  BY <1>1, <1>2, <1>3, ReplaceWrites DEF IInv
<1>5. TypeOK'
  BY <1>2, <1>4 DEF IInv, TypeOK
<1> QED
  BY <1>2, <1>4, <1>5, EditStep

LEMMA UpdateStep ==
  ASSUME IInv, NEW l \in Learners, ApplyUpdate(l)
  PROVE  IInv'
<1> DEFINE t == learner[l].target
           c == learner[l]
<1>1. /\ learner[l] \in CallType /\ c.at = "apply" /\ t \in Memories
      /\ Sound(l) /\ c.conflicts = {} /\ edge' = edge /\ merge' = merge
  BY DEF IInv, TypeOK, ApplyUpdate, At, Sound
<1>2. CASE Revisable(t)
  <2> DEFINE r == Row("semantic", row[t].tag, row[t].source, c.fact)
             from == IF row[t].tag = c.seen THEN c.basis ELSE row[t].tag
  <2>1. PICK n \in Memories : Replace(t, n, r, from) /\ Return(l)
    BY <1>2 DEF ApplyUpdate
  <2>2. row[t].tag \in Tiers /\ row[t].source \in Tiers /\ c.fact \in Facts /\ c.basis \in Tiers
        /\ c.tier \in Tiers
    BY <1>1 DEF IInv, TypeOK, RowType, CallType
  <2>3. r \in RowType /\ r.tag = row[t].tag /\ r.status = "active" /\ from \in Tiers
    BY <2>2, RowIsRow, SMTT(30)
  <2>4. Trust(row[t].tag) <= Trust(from)
    <3>1. CASE row[t].tag # c.seen
      BY <3>1, <2>2, TrustNat
    <3>2. CASE row[t].tag = c.seen
      <4>1. row[t].tag = c.tier /\ Trust(c.tier) <= Trust(c.basis)
        BY <3>2, <1>1 DEF Sound
      <4> QED
        BY <3>2, <4>1
    <3> QED
      BY <3>1, <3>2
  <2>5. Replace(t, n, r, from)
    BY <2>1
  <2> HIDE DEF r, from
  <2>6. NoLaundering' /\ Frame /\ row' \in [Memories -> RowType] /\ basis' \in [Memories -> Tiers]
    BY <1>1, <1>2, <2>3, <2>4, <2>5, ReplaceWrites DEF IInv
  <2>7. learner' = [learner EXCEPT ![l] = NoCall] /\ told' = told
    BY <1>1, <2>1 DEF Return, Fail
  <2>8. TypeOK'
    BY <1>1, <2>6, <2>7, NoCallType DEF IInv, TypeOK
  <2>9. Sound(l)'
    BY <2>7, NoCallSound DEF IInv, TypeOK
  <2> QED
    BY <1>1, <2>6, <2>7, <2>8, <2>9, WriteStep
<1>3. CASE ~Revisable(t)
  <2>1. learner' = [learner EXCEPT ![l] = NoCall] /\ UNCHANGED <<merge, row, edge, basis, told>>
    BY <1>3 DEF ApplyUpdate, Fail
  <2>2. Sound(l)'
    BY <2>1, NoCallSound DEF IInv, TypeOK
  <2> QED
    BY <2>1, <2>2, NoCallType, ReadStep
<1> QED
  BY <1>2, <1>3

LEMMA EstablishStep ==
  ASSUME IInv, NEW l \in Learners, Establish(l)
  PROVE  IInv'
<1> DEFINE S == learner[l].sources
           c == learner[l].channel
<1>1. learner[l] \in CallType /\ Sound(l) /\ learner[l].at = "establish"
      /\ edge' = edge /\ told' = told /\ merge' = merge
  BY DEF IInv, TypeOK, Establish, At
<1>2. CASE Supported(S)
  <2>1. PICK m \in Memories, t \in Tiers, b \in Tiers :
          /\ Support(t, S, c) /\ From(b, S, c)
          /\ Store(m, Row("semantic", t, ChannelTier(c), learner[l].fact), b)
          /\ learner' = [learner EXCEPT ![l] = [NoCall EXCEPT
               !.at = "link", !.target = m, !.conflicts = learner[l].conflicts,
               !.left = learner[l].left]]
    BY <1>2 DEF Establish
  <2> DEFINE r == Row("semantic", t, ChannelTier(c), learner[l].fact)
             v == [NoCall EXCEPT !.at = "link", !.target = m, !.conflicts = learner[l].conflicts,
                                 !.left = learner[l].left]
  <2>2. r \in RowType /\ r.tag = t /\ r.status = "active"
    BY <1>1, ChannelTierType, RowIsRow, SMTT(30) DEF CallType
  <2>3. Trust(t) <= Trust(b)
    BY <1>1, <1>2, <2>1, SupportSound DEF IInv, CallType
  <2> HIDE DEF r
  <2>4. Store(m, r, b)
    BY <2>1 DEF r
  <2>5. NoLaundering' /\ Frame /\ row' \in [Memories -> RowType] /\ basis' \in [Memories -> Tiers]
        /\ ~New(m)'
    BY <1>1, <2>2, <2>3, <2>4, StoreWrites DEF IInv
  <2>6. v \in CallType
    BY <1>1 DEF CallType, NoCall
  <2>7. learner' = [learner EXCEPT ![l] = v] /\ learner'[l] = v
    BY <2>1 DEF IInv, TypeOK
  <2>8. \A k \in learner[l].conflicts : k \in Memories => ~New(k)'
    BY <1>1, <2>5 DEF Sound, Frame
  <2>9. v.at = "link" /\ v.target = m /\ v.conflicts = learner[l].conflicts /\ v.left = v.conflicts
    BY <1>1 DEF NoCall, Sound
  <2> HIDE DEF v
  <2>10. Sound(l)'
    BY <2>5, <2>7, <2>8, <2>9 DEF Sound, New
  <2>11. TypeOK'
    BY <1>1, <2>5, <2>6, <2>7 DEF IInv, TypeOK
  <2> QED
    BY <1>1, <2>5, <2>7, <2>10, <2>11, WriteStep
<1>3. CASE ~Supported(S)
  <2>1. learner' = [learner EXCEPT ![l] = NoCall] /\ UNCHANGED <<merge, row, edge, basis, told>>
    BY <1>3 DEF Establish, Fail
  <2>2. Sound(l)'
    BY <2>1, NoCallSound DEF IInv, TypeOK
  <2> QED
    BY <2>1, <2>2, NoCallType, ReadStep
<1> QED
  BY <1>2, <1>3

LEMMA StoreDigestStep ==
  ASSUME IInv, NEW l \in Learners, StoreDigest(l)
  PROVE  IInv'
<1>1. learner[l] \in CallType /\ Sound(l) /\ learner[l].at = "digest"
      /\ UNCHANGED <<merge, edge, told>> /\ learner' = [learner EXCEPT ![l] = NoCall]
  BY DEF IInv, TypeOK, StoreDigest, At, Fail
<1>2. Sound(l)'
  BY <1>1, NoCallSound DEF IInv, TypeOK
<1>3. CASE UNCHANGED <<row, basis>>
  BY <1>1, <1>2, <1>3, NoCallType, ReadStep
<1>4. CASE \E m \in Memories :
             Store(m, Row("semantic", learner[l].tier, ChannelTier(learner[l].channel), "other"),
                   learner[l].basis)
  <2> DEFINE r == Row("semantic", learner[l].tier, ChannelTier(learner[l].channel), "other")
  <2>1. PICK m \in Memories : Store(m, r, learner[l].basis)
    BY <1>4
  <2>2. r \in RowType /\ r.tag = learner[l].tier /\ r.status = "active" /\ learner[l].basis \in Tiers
    BY <1>1, ChannelTierType, RowIsRow, SMTT(30) DEF CallType
  <2>3. Trust(learner[l].tier) <= Trust(learner[l].basis)
    BY <1>1 DEF Sound
  <2> HIDE DEF r
  <2>4. NoLaundering' /\ Frame /\ row' \in [Memories -> RowType] /\ basis' \in [Memories -> Tiers]
    BY <1>1, <2>1, <2>2, <2>3, StoreWrites DEF IInv
  <2>5. TypeOK'
    BY <1>1, <2>4, NoCallType DEF IInv, TypeOK
  <2> QED
    BY <1>1, <1>2, <2>4, <2>5, WriteStep
<1> QED
  BY <1>3, <1>4 DEF StoreDigest

\* An edge is written between two rows that are there.
LEMMA LinkStep ==
  ASSUME IInv, NEW l \in Learners, NEW c \in Memories \cup {None}, Link(l, c)
  PROVE  IInv'
<1>1. learner[l] \in CallType /\ Sound(l) /\ learner[l].at = "link" /\ c \in learner[l].left
      /\ UNCHANGED <<merge, row, basis, told>>
  BY DEF IInv, TypeOK, Link, At
<1> DEFINE m == learner[l].target
<1>2. m \in Memories /\ ~New(m)
  BY <1>1 DEF Sound
<1>3. CASE Present(c) /\ Present(m)
  <2> DEFINE v == [learner[l] EXCEPT !.at = "supersede", !.left = @ \ {c}, !.with = c]
  <2>1. edge' = edge \cup {<<m, c>>}
    BY <1>3 DEF Link
  <2>2. learner' = [learner EXCEPT ![l] = v] /\ learner'[l] = v
    BY <1>3 DEF Link, IInv, TypeOK
  <2>3. v \in CallType
    <3> DEFINE w == [learner[l] EXCEPT !.at = "supersede", !.left = @ \ {c}]
    <3>1. w \in CallType
      BY <1>1 DEF CallType
    <3>2. v = [w EXCEPT !.with = c]
      BY <1>1 DEF CallType
    <3> HIDE DEF w, v
    <3>3. [w EXCEPT !.with = c] \in CallType
      BY <3>1 DEF CallType
    <3> QED
      BY <3>2, <3>3
  <2>4. /\ v.at = "supersede" /\ v.left = learner[l].left \ {c} /\ v.with = c /\ v.target = m
        /\ v.conflicts = learner[l].conflicts
    BY <1>1 DEF CallType
  <2> HIDE DEF v
  <2>5. Frame /\ NoLaundering'
    BY <1>1, <2>1, StatusWrites DEF IInv, New, Present
  <2>6. TypeOK'
    BY <1>1, <1>2, <1>3, <2>1, <2>2, <2>3 DEF IInv, TypeOK, Present
  <2>7. \A k \in v.conflicts \ v.left : Present(m) /\ Present(k) => <<m, k>> \in edge'
    BY <1>1, <2>1, <2>4 DEF Sound
  <2>8. Sound(l)'
    BY <1>1, <1>2, <1>3, <2>2, <2>4, <2>7 DEF Sound, New, Present
  <2> QED
    BY <1>1, <2>2, <2>5, <2>6, <2>8, WriteStep
<1>4. CASE ~(Present(c) /\ Present(m))
  <2> DEFINE v == [learner[l] EXCEPT !.at = "quarantine"]
  <2>1. learner' = [learner EXCEPT ![l] = v] /\ learner'[l] = v /\ edge' = edge
    BY <1>4 DEF Link, Go, IInv, TypeOK
  <2>2. v \in CallType
    BY <1>1 DEF CallType
  <2>3. Sound(l)'
    BY <1>1, <1>2, <2>1 DEF Sound, CallType, New
  <2> HIDE DEF v
  <2> QED
    BY <1>1, <2>1, <2>2, <2>3, ReadStep
<1> QED
  BY <1>3, <1>4

LEMMA LinkFailsStep ==
  ASSUME IInv, NEW l \in Learners, LinkFails(l)
  PROVE  IInv'
<1>1. learner[l] \in CallType /\ Sound(l) /\ learner[l].at = "link"
      /\ UNCHANGED <<merge, row, edge, basis, told>>
  BY DEF IInv, TypeOK, LinkFails, At
<1> DEFINE v == [learner[l] EXCEPT !.at = "quarantine"]
<1>2. learner' = [learner EXCEPT ![l] = v] /\ learner'[l] = v
  BY DEF LinkFails, Go, IInv, TypeOK
<1>3. v \in CallType
  BY <1>1 DEF CallType
<1>4. Sound(l)'
  BY <1>1, <1>2 DEF Sound, CallType, New
<1> HIDE DEF v
<1> QED
  BY <1>1, <1>2, <1>3, <1>4, ReadStep

\* One row changes its status and stays.
LEMMA OneStatus ==
  ASSUME TypeOK, NoLaundering, UNCHANGED <<basis, edge>>, NEW m \in Memories, Present(m),
         NEW s \in Statuses \ {"none", "removed"}, NEW b \in Memories \cup {None},
         row' = [row EXCEPT ![m] = [row[m] EXCEPT !.status = s, !.by = b]]
  PROVE  NoLaundering' /\ Frame /\ row' \in [Memories -> RowType]
<1> USE RowFacts
<1> DEFINE q == [row[m] EXCEPT !.status = s, !.by = b]
<1>1. q \in RowType /\ q.status = s /\ q.tag = row[m].tag /\ q.layer = row[m].layer
  BY ZenonT(40) DEF RowType
<1> HIDE DEF q
<1>2. row' = [row EXCEPT ![m] = q]
  BY DEF q
<1>3. row' \in [Memories -> RowType]
  BY <1>1, <1>2
<1>4. ASSUME NEW k \in Memories
      PROVE  /\ row'[k].tag = row[k].tag /\ row'[k].layer = row[k].layer
             /\ (~New(k) => ~New(k)') /\ (Present(k)' => Present(k))
  <2>1. CASE k = m
    BY <2>1, <1>1, <1>2 DEF New, Present
  <2>2. CASE k # m
    BY <2>2, <1>2 DEF New, Present
  <2> QED
    BY <2>1, <2>2
<1> QED
  BY <1>3, <1>4, StatusWrites

LEMMA QuarantineStep ==
  ASSUME IInv, NEW l \in Learners, Quarantine(l)
  PROVE  IInv'
<1> DEFINE m == learner[l].target
<1>1. /\ UNCHANGED <<merge, edge, basis, told>> /\ learner' = [learner EXCEPT ![l] = NoCall]
      /\ m \in Memories
  BY DEF IInv, Quarantine, At, Fail, Sound
<1>2. Sound(l)'
  BY <1>1, NoCallSound DEF IInv, TypeOK
<1>3. CASE row' = row
  BY <1>1, <1>2, <1>3, NoCallType, ReadStep
<1>4. CASE Present(m) /\ row' = [row EXCEPT ![m].status = "quarantined"]
  <2>1. row[m] \in RowType
    BY <1>1 DEF IInv, TypeOK
  <2>2. row' = [row EXCEPT ![m] = [row[m] EXCEPT !.status = "quarantined", !.by = row[m].by]]
    BY <1>4, <2>1 DEF RowType
  <2>3. row[m].by \in Memories \cup {None}
    BY <2>1 DEF RowType
  <2>4. NoLaundering' /\ Frame /\ row' \in [Memories -> RowType]
    BY <1>1, <1>4, <2>2, <2>3, OneStatus DEF IInv
  <2>5. TypeOK'
    BY <1>1, <2>4, NoCallType DEF IInv, TypeOK
  <2> QED
    BY <1>1, <1>2, <2>4, <2>5, WriteStep
<1> QED
  BY <1>3, <1>4 DEF Quarantine

LEMMA SupersedeStep ==
  ASSUME IInv, NEW l \in Learners, Supersede(l)
  PROVE  IInv'
<1> DEFINE c == learner[l].with
           m == learner[l].target
           v == [learner[l] EXCEPT !.at = "link", !.with = None]
<1>1. /\ UNCHANGED <<merge, edge, basis, told>> /\ learner[l].at = "supersede"
      /\ learner[l] \in CallType /\ Sound(l) /\ c \in Memories /\ m \in Memories
  BY DEF IInv, TypeOK, Supersede, At, Sound
<1>2. learner' = [learner EXCEPT ![l] = v] /\ learner'[l] = v
  BY DEF Supersede, IInv, TypeOK
<1>3. v \in CallType
  BY <1>1 DEF CallType
<1>4. v.at = "link" /\ v.target = m /\ v.conflicts = learner[l].conflicts /\ v.left = learner[l].left
  BY <1>1 DEF CallType
<1> HIDE DEF v
<1>5. CASE row' = row
  <2>1. Sound(l)'
    BY <1>1, <1>2, <1>4, <1>5 DEF Sound, New, Present
  <2> QED
    BY <1>1, <1>2, <1>3, <1>5, <2>1, ReadStep
<1>6. CASE Present(c) /\ row' = [row EXCEPT ![c].status = "superseded", ![c].by = m]
  <2>1. row[c] \in RowType
    BY <1>1 DEF IInv, TypeOK
  <2>2. row' = [row EXCEPT ![c] = [row[c] EXCEPT !.status = "superseded", !.by = m]]
    BY <1>6, <2>1 DEF RowType, IInv, TypeOK
  <2>3. NoLaundering' /\ Frame /\ row' \in [Memories -> RowType]
    BY <1>1, <1>6, <2>2, OneStatus DEF IInv
  <2>4. TypeOK'
    BY <1>1, <1>2, <1>3, <2>3 DEF IInv, TypeOK
  <2>5. \A k \in Memories : (~New(k) => ~New(k)') /\ (Present(k)' => Present(k))
    BY <1>6, <2>3 DEF Frame, New, Present
  <2>6. Sound(l)'
    BY <1>1, <1>2, <1>3, <1>4, <2>5 DEF Sound, CallType, New, Present
  <2> QED
    BY <1>1, <1>2, <2>3, <2>4, <2>6, WriteStep
<1> QED
  BY <1>5, <1>6 DEF Supersede

\* A call that ends, writing nothing.
LEMMA EndStep ==
  ASSUME IInv, NEW l \in Learners, Fail(l), UNCHANGED <<merge, row, edge, basis, told>>
  PROVE  IInv'
<1>1. Sound(l)'
  BY NoCallSound DEF IInv, TypeOK, Fail
<1> QED
  BY <1>1, NoCallType, ReadStep DEF Fail

LEMMA NoopStep ==
  ASSUME IInv, NEW l \in Learners, ApplyNoop(l)
  PROVE  IInv'
<1>1. learner[l].conflicts = {}
  BY DEF IInv, Sound, ApplyNoop, At
<1> QED
  BY <1>1, EndStep DEF ApplyNoop, Return

LEMMA DoneStep ==
  ASSUME IInv, NEW l \in Learners, Done(l)
  PROVE  IInv'
<1> DEFINE m == learner[l].target
           C == learner[l].conflicts
<1>1. /\ learner[l] \in CallType /\ Sound(l) /\ learner[l].at = "link" /\ learner[l].left = {}
      /\ UNCHANGED <<merge, row, edge, basis>> /\ told' = told \cup {<<m, k>> : k \in C}
      /\ learner' = [learner EXCEPT ![l] = NoCall]
  BY DEF IInv, TypeOK, Done, At, Return, Fail
<1>2. m \in Memories /\ ~New(m) /\ C \subseteq Memories \cup {None}
      /\ \A k \in C : (k \in Memories => ~New(k)) /\ (Present(m) /\ Present(k) => <<m, k>> \in edge)
  BY <1>1 DEF Sound, CallType
<1>3. Told' /\ ContradictionKept'
  BY <1>1, <1>2 DEF IInv, Told, ContradictionKept, New, Present
<1>4. TypeOK'
  BY <1>1, <1>2, NoCallType DEF IInv, TypeOK
<1>5. NoLaundering'
  BY <1>1 DEF IInv, NoLaundering, Present
<1>6. Frame /\ MergeSound'
  BY <1>1, <1>4, StillFrame, MergeUntouched DEF IInv
<1>7. ASSUME NEW k \in Learners PROVE Sound(k)'
  <2>1. CASE k = l
    BY <2>1, <1>1, NoCallSound DEF IInv, TypeOK
  <2>2. CASE k # l
    <3>1. learner'[k] = learner[k]
      BY <1>1, <2>2 DEF IInv, TypeOK
    <3> QED
      BY <1>6, <3>1, Untouched DEF IInv
  <2> QED
    BY <2>1, <2>2
<1> QED
  BY <1>3, <1>4, <1>5, <1>6, <1>7 DEF IInv

LEMMA PatchStep ==
  ASSUME IInv, NEW m \in Memories, NEW f \in Facts, NEW t \in Tiers, NEW trusted \in BOOLEAN,
         NEW s \in Patched \cup {row[m].status}, Patch(m, s, f, t, trusted)
  PROVE  IInv'
<1> USE RowFacts
<1> DEFINE u == IF trusted THEN t ELSE row[m].tag
           q == [row[m] EXCEPT !.status = s, !.fact = f, !.tag = u]
<1>1. /\ UNCHANGED <<merge, edge, learner, told>> /\ Present(m)
      /\ row' = [row EXCEPT ![m].status = s, ![m].fact = f, ![m].tag = u]
      /\ basis' = IF trusted /\ Trust(u) > Trust(basis[m])
                  THEN [basis EXCEPT ![m] = u] ELSE basis
  BY DEF Patch, Edited
<1>2. TypeOK
  BY DEF IInv
<1>3. row[m] \in RowType /\ u \in Tiers /\ basis[m] \in Tiers
  BY <1>2
<1>4. s \in Statuses \ {"none", "removed"}
  BY <1>1, <1>3, PatchedAssumption DEF Present, RowType
<1>5. row' = [row EXCEPT ![m] = q] /\ row'[m] = q
  BY <1>1, <1>2
<1>6. q.status = s /\ q.tag = u /\ q.layer = row[m].layer
  BY <1>3 DEF RowType
<1>7. q \in RowType
  <2>1. \A w \in RowType : [w EXCEPT !.fact = f] \in RowType /\ [w EXCEPT !.tag = u] \in RowType
    BY <1>3 DEF RowType
  <2>2. [row[m] EXCEPT !.status = s] \in RowType
    BY <1>3, <1>4 DEF RowType
  <2> DEFINE a == [row[m] EXCEPT !.status = s]
             b == [a EXCEPT !.fact = f]
  <2>3. a \in RowType /\ b \in RowType /\ [b EXCEPT !.tag = u] \in RowType
    BY <2>1, <2>2
  <2>4. q = [b EXCEPT !.tag = u]
    BY <1>3 DEF RowType
  <2> HIDE DEF q, b
  <2> QED
    BY <2>3, <2>4
<1> HIDE DEF q, u
<1>8. basis' \in [Memories -> Tiers]
  BY <1>1, <1>2, <1>3
<1>9. TypeOK'
  BY <1>1, <1>2, <1>5, <1>7, <1>8 DEF TypeOK
<1>10. /\ \A k \in Memories \ {m} : row'[k] = row[k] /\ basis'[k] = basis[k]
       /\ basis'[m] = IF trusted /\ Trust(u) > Trust(basis[m]) THEN u ELSE basis[m]
  BY <1>1, <1>2, <1>5
<1>11. Trust(u) \in Nat /\ Trust(basis[m]) \in Nat
  BY <1>3, TrustNat
<1>12. Trust(basis[m]) <= Trust(basis'[m]) /\ (trusted => Trust(u) <= Trust(basis'[m]))
  <2>1. CASE trusted /\ Trust(u) > Trust(basis[m])
    BY <2>1, <1>10, <1>11
  <2>2. CASE ~(trusted /\ Trust(u) > Trust(basis[m]))
    BY <2>2, <1>10, <1>11
  <2> QED
    BY <2>1, <2>2
<1>13. Present(m)' /\ ~New(m)'
  BY <1>4, <1>5, <1>6 DEF Present, New
<1>14. NoLaundering'
  <2> SUFFICES ASSUME NEW k \in Memories, Present(k)', row'[k].layer = "semantic"
               PROVE  Trust(row'[k].tag) <= Trust(basis'[k])
    BY DEF NoLaundering
  <2>1. CASE k # m
    BY <2>1, <1>10 DEF IInv, NoLaundering, Present
  <2>2. CASE k = m /\ trusted
    BY <2>2, <1>5, <1>6, <1>12
  <2>3. CASE k = m /\ ~trusted
    <3>1. u = row[m].tag /\ basis'[m] = basis[m] /\ row[m].layer = "semantic"
      BY <2>3, <1>5, <1>6, <1>10 DEF u
    <3> QED
      BY <2>3, <3>1, <1>1, <1>5, <1>6 DEF IInv, NoLaundering
  <2> QED
    BY <2>1, <2>2, <2>3
<1>15. Frame
  <2>1. \A k \in Memories : Trust(basis[k]) <= Trust(basis[k])
    BY <1>2, TrustNat
  <2>2. ASSUME NEW k \in Memories, ~New(k)
        PROVE  /\ ~New(k)'
               /\ Present(k)' => /\ Present(k) /\ row'[k].layer = row[k].layer
                                 /\ Trust(basis[k]) <= Trust(basis'[k])
    BY <1>1, <1>5, <1>6, <1>10, <1>12, <1>13, <2>1, <2>2 DEF New, Present
  <2> QED
    BY <1>1, <2>2 DEF Frame
<1> QED
  BY <1>1, <1>9, <1>14, <1>15, EditStep

LEMMA TrashStep ==
  ASSUME IInv, NEW m \in Memories, Trash(m)
  PROVE  IInv'
<1>1. UNCHANGED <<merge, edge, basis, learner, told>> /\ Present(m)
      /\ row' = [row EXCEPT ![m].status = "deleted"]
  BY DEF Trash, Present
<1>2. row[m] \in RowType
  BY DEF IInv, TypeOK
<1>3. row' = [row EXCEPT ![m] = [row[m] EXCEPT !.status = "deleted", !.by = row[m].by]]
  BY <1>1, <1>2 DEF RowType
<1>4. row[m].by \in Memories \cup {None}
  BY <1>2 DEF RowType
<1>5. NoLaundering' /\ Frame /\ row' \in [Memories -> RowType]
  BY <1>1, <1>3, <1>4, OneStatus DEF IInv
<1>6. TypeOK'
  BY <1>1, <1>5 DEF IInv, TypeOK
<1> QED
  BY <1>1, <1>5, <1>6, EditStep

\* Steps of a deduplication, which reads, writes words of what is no belief, relationships and
\* the tier that it read, and removes copies.
LEMMA BeginStep ==
  ASSUME IInv, NEW m \in Memories, NEW copies \in SUBSET Memories, BeginDedupe(m, copies)
  PROVE  IInv'
<1> DEFINE at == IF row[m].layer = "semantic" THEN "list" ELSE "text"
<1>1. /\ UNCHANGED <<row, edge, learner, basis, told>> /\ Present(m)
      /\ merge' = [NoMerge EXCEPT !.at = at, !.to = m, !.tag = row[m].tag, !.left = copies]
  BY DEF BeginDedupe
<1>2. row[m].tag \in Tiers /\ TypeOK
  BY RowFacts DEF IInv
<1>3. merge' \in MergeType
  <2> DEFINE a == [NoMerge EXCEPT !.at = at, !.to = m]
             b == [a EXCEPT !.tag = row[m].tag]
  <2>1. a \in MergeType
    BY NoMergeType DEF MergeType
  <2>2. b \in MergeType /\ [b EXCEPT !.left = copies] \in MergeType
    BY <1>2, <2>1 DEF MergeType
  <2>3. merge' = [b EXCEPT !.left = copies]
    BY <1>1, NoMergeType DEF MergeType
  <2> QED
    BY <2>2, <2>3
<1>4. merge'.to = m /\ merge'.tag = row[m].tag
  BY <1>1 DEF NoMerge
<1>5. Frame
  BY <1>1, <1>2, StillFrame
<1>6. TypeOK' /\ NoLaundering'
  BY <1>1, <1>2, <1>3 DEF TypeOK, IInv, NoLaundering, Present
<1>7. MergeSound'
  BY <1>1, <1>4 DEF IInv, MergeSound, NoLaundering, New, Present
<1> QED
  BY <1>1, <1>5, <1>6, <1>7, MergeStep

\* A later step, which keeps the row that stays and the tier that was read of it, or is the last.
LEMMA MergeOn ==
  ASSUME IInv, TypeOK', NoLaundering', Frame, told' = told, learner' = learner,
         \/ merge'.at = "idle"
         \/ merge.at # "idle" /\ merge'.to = merge.to /\ merge'.tag = merge.tag
  PROVE  IInv'
<1> SUFFICES ASSUME merge'.at # "idle" PROVE MergeSound'
  BY MergeStep DEF MergeSound
<1> DEFINE m == merge.to
<1>1. merge.at # "idle" /\ merge'.to = m /\ merge'.tag = merge.tag
  OBVIOUS
<1>2. m \in Memories /\ ~New(m) /\ ~New(m)'
  BY <1>1 DEF IInv, MergeSound, Frame
<1>3. ASSUME Present(m)', row'[m].layer = "semantic"
      PROVE  Trust(merge.tag) <= Trust(basis'[m])
  <2>1. /\ Trust(merge.tag) <= Trust(basis[m])
        /\ Trust(basis[m]) <= Trust(basis'[m])
    BY <1>1, <1>2, <1>3 DEF IInv, MergeSound, Frame
  <2>2. merge.tag \in Tiers /\ basis[m] \in Tiers /\ basis'[m] \in Tiers
    BY <1>2 DEF IInv, TypeOK, MergeType
  <2>3. Trust(merge.tag) \in Nat /\ Trust(basis[m]) \in Nat /\ Trust(basis'[m]) \in Nat
    BY <2>2, TrustNat
  <2> QED
    BY <2>1, <2>3
<1> QED
  BY <1>1, <1>2, <1>3 DEF MergeSound, New, Present

\* One that writes no row.
LEMMA MergeReads ==
  ASSUME IInv, UNCHANGED <<row, learner, basis, told>>, edge \subseteq edge',
         edge' \subseteq Memories \X Memories, merge' \in MergeType,
         \/ merge'.at = "idle"
         \/ merge.at # "idle" /\ merge'.to = merge.to /\ merge'.tag = merge.tag
  PROVE  IInv'
<1>1. TypeOK' /\ NoLaundering'
  BY DEF IInv, TypeOK, NoLaundering, Present
<1>2. Frame
  <2>1. \A m \in Memories : Trust(basis[m]) <= Trust(basis[m])
    BY TrustNat DEF IInv, TypeOK
  <2> QED
    BY <2>1 DEF Frame, New, Present
<1> QED
  BY <1>1, <1>2, MergeOn

LEMMA StillMerge ==
  ASSUME merge \in MergeType
  PROVE  /\ \A at \in {"list", "fold"} :
              [merge EXCEPT !.at = at] \in MergeType
         /\ \A moves \in SUBSET (Memories \X Memories) :
              [merge EXCEPT !.at = "fold", !.moves = moves] \in MergeType
         /\ \A moves \in SUBSET (Memories \X Memories) :
              [merge EXCEPT !.moves = moves] \in MergeType
         /\ \A left \in SUBSET Memories : [merge EXCEPT !.left = left] \in MergeType
  BY DEF MergeType

LEMMA RewordStep ==
  ASSUME IInv, NEW f \in Facts, Reword(f)
  PROVE  IInv'
<1> DEFINE m == merge.to
<1>1. /\ UNCHANGED <<edge, learner, basis, told>> /\ merge' = [merge EXCEPT !.at = "list"]
      /\ merge.at = "text" /\ merge \in MergeType /\ TypeOK
  BY DEF Reword, IInv, TypeOK
<1>2. merge' \in MergeType /\ merge'.to = merge.to /\ merge'.tag = merge.tag
  BY <1>1, StillMerge DEF MergeType
<1>3. CASE row' = row
  BY <1>1, <1>2, <1>3, MergeReads DEF TypeOK
<1>4. CASE Present(m) /\ row[m].layer # "semantic" /\ row' = [row EXCEPT ![m].fact = f]
  <2> DEFINE q == [row[m] EXCEPT !.fact = f]
  <2>1. m \in Memories /\ row[m] \in RowType
    BY <1>1, <1>4 DEF Present, TypeOK
  <2>2. /\ q \in RowType /\ q.layer = row[m].layer /\ q.status = row[m].status /\ q.tag = row[m].tag
    BY <2>1 DEF RowType
  <2>3. row' = [row EXCEPT ![m] = q]
    BY <1>1, <1>4, <2>1
  <2> HIDE DEF q
  <2>4. TypeOK'
    BY <1>1, <1>2, <2>1, <2>2, <2>3 DEF TypeOK
  <2>5. ASSUME NEW k \in Memories
        PROVE  /\ row'[k].tag = row[k].tag /\ row'[k].layer = row[k].layer
               /\ row'[k].status = row[k].status
    BY <1>1, <2>1, <2>2, <2>3 DEF TypeOK
  <2>6. NoLaundering' /\ Frame
    BY <1>1, <2>5, StatusWrites DEF IInv, New, Present
  <2> QED
    BY <1>1, <1>2, <2>4, <2>6, MergeOn
<1> QED
  BY <1>3, <1>4 DEF Reword

LEMMA ListStep ==
  ASSUME IInv, ListEdges
  PROVE  IInv'
<1> DEFINE To(x) == IF x \in merge.left THEN merge.to ELSE x
           Moved == {<<To(e[1]), To(e[2])>> : e \in {d \in edge : {d[1], d[2]} \cap merge.left # {}}}
           found == {e \in Moved : e[1] # e[2]}
<1>1. /\ UNCHANGED <<row, edge, learner, basis, told>> /\ merge.at = "list"
      /\ merge \in MergeType /\ merge.to \in Memories /\ edge \subseteq Memories \X Memories
  BY DEF ListEdges, IInv, TypeOK, MergeSound
<1>2. found \in SUBSET (Memories \X Memories)
  BY <1>1
<1>3. \/ merge' = [merge EXCEPT !.at = "fold", !.moves = found]
      \/ merge' = [merge EXCEPT !.at = "fold"]
  BY DEF ListEdges
<1> HIDE DEF found
<1>4. merge' \in MergeType /\ merge'.to = merge.to /\ merge'.tag = merge.tag
  BY <1>1, <1>2, <1>3, StillMerge DEF MergeType
<1> QED
  BY <1>1, <1>4, MergeReads

LEMMA RetargetStep ==
  ASSUME IInv, NEW e \in merge.moves, Retarget(e)
  PROVE  IInv'
<1>1. /\ UNCHANGED <<row, learner, basis, told>> /\ merge.at = "fold"
      /\ merge \in MergeType /\ edge \subseteq Memories \X Memories
      /\ merge' = [merge EXCEPT !.moves = @ \ {e}]
      /\ edge' = edge \/ edge' = edge \cup {e}
  BY DEF Retarget, IInv, TypeOK
<1>2. merge.moves \in SUBSET (Memories \X Memories)
  BY <1>1 DEF MergeType
<1>3. merge.moves \ {e} \in SUBSET (Memories \X Memories) /\ e \in Memories \X Memories
  BY <1>2
<1>4. merge' \in MergeType
  BY <1>1, <1>3, StillMerge
<1>5. merge'.to = merge.to /\ merge'.tag = merge.tag
  BY <1>1 DEF MergeType
<1> QED
  BY <1>1, <1>3, <1>4, <1>5, MergeReads

LEMMA FoldStep ==
  ASSUME IInv, NEW c \in Memories, Fold(c)
  PROVE  IInv'
<1>1. /\ UNCHANGED <<learner, basis, told>> /\ merge.at = "fold" /\ merge \in MergeType
      /\ TypeOK /\ merge' = [merge EXCEPT !.left = @ \ {c}]
  BY DEF Fold, IInv, TypeOK
<1>2. merge' \in MergeType /\ merge'.to = merge.to /\ merge'.tag = merge.tag
  <2>1. merge.left \ {c} \in SUBSET Memories
    BY <1>1 DEF MergeType
  <2>2. merge' \in MergeType
    BY <1>1, <2>1, StillMerge
  <2> QED
    BY <1>1, <2>2 DEF MergeType
<1>3. CASE UNCHANGED <<row, edge>>
  BY <1>1, <1>2, <1>3, MergeReads DEF TypeOK
<1>4. CASE /\ row' = [row EXCEPT ![c] = [Gone EXCEPT !.status = "removed"]]
           /\ edge' = {e \in edge : c \notin {e[1], e[2]}}
  <2> DEFINE gone == [Gone EXCEPT !.status = "removed"]
  <2>1. gone \in RowType /\ gone.status = "removed"
    BY DEF Gone, RowType
  <2>2. row' = [row EXCEPT ![c] = gone]
    BY <1>4
  <2> HIDE DEF gone
  <2>3. TypeOK'
    BY <1>1, <1>2, <1>4, <2>1, <2>2 DEF TypeOK
  <2>4. /\ ~Present(c)' /\ ~New(c)'
        /\ \A k \in Memories \ {c} : row'[k] = row[k]
    BY <1>1, <2>1, <2>2 DEF TypeOK, New, Present
  <2>5. NoLaundering'
    BY <1>1, <2>4 DEF IInv, NoLaundering, Present
  <2>6. Frame
    <3>1. \A k \in Memories : Trust(basis[k]) <= Trust(basis[k])
      BY <1>1, TrustNat DEF TypeOK
    <3>2. ASSUME NEW p \in edge, Present(p[1])', Present(p[2])' PROVE p \in edge'
      <4>1. p[1] # c /\ p[2] # c
        BY <2>4, <3>2
      <4> QED
        BY <1>4, <4>1
    <3>3. ASSUME NEW k \in Memories, ~New(k)
          PROVE  /\ ~New(k)'
                 /\ Present(k)' => /\ Present(k) /\ row'[k].layer = row[k].layer
                                   /\ Trust(basis[k]) <= Trust(basis'[k])
      BY <1>1, <2>4, <3>1, <3>3 DEF New, Present
    <3> QED
      BY <3>2, <3>3 DEF Frame
  <2> QED
    BY <1>1, <1>2, <2>3, <2>5, <2>6, MergeOn
<1> QED
  BY <1>3, <1>4 DEF Fold

LEMMA WriteBackStep ==
  ASSUME IInv, WriteBack
  PROVE  IInv'
<1> DEFINE m == merge.to
<1>1. /\ UNCHANGED <<edge, learner, basis, told>> /\ merge.at = "fold" /\ merge \in MergeType
      /\ TypeOK /\ merge' = NoMerge
  BY DEF WriteBack, IInv, TypeOK
<1>2. merge' \in MergeType /\ merge'.at = "idle"
  BY <1>1, NoMergeType DEF NoMerge
<1>3. CASE row' = row
  BY <1>1, <1>2, <1>3, MergeReads DEF TypeOK
<1>4. CASE Present(m) /\ row' = [row EXCEPT ![m].tag = merge.tag]
  <2> DEFINE q == [row[m] EXCEPT !.tag = merge.tag]
  <2>1. m \in Memories /\ row[m] \in RowType /\ merge.tag \in Tiers
    BY <1>1, <1>4 DEF Present, TypeOK, MergeType
  <2>2. /\ q \in RowType /\ q.layer = row[m].layer /\ q.status = row[m].status
        /\ q.tag = merge.tag
    BY <2>1 DEF RowType
  <2>3. row' = [row EXCEPT ![m] = q]
    BY <1>1, <1>4, <2>1
  <2> HIDE DEF q
  <2>4. TypeOK'
    BY <1>1, <1>2, <2>1, <2>2, <2>3 DEF TypeOK
  <2>5. row'[m] = q /\ \A k \in Memories \ {m} : row'[k] = row[k]
    BY <1>1, <2>1, <2>3 DEF TypeOK
  <2>6. NoLaundering'
    <3> SUFFICES ASSUME NEW k \in Memories, Present(k)', row'[k].layer = "semantic"
                 PROVE  Trust(row'[k].tag) <= Trust(basis[k])
      BY <1>1 DEF NoLaundering
    <3>1. CASE k = m
      BY <3>1, <1>1, <1>4, <2>2, <2>5 DEF IInv, MergeSound
    <3>2. CASE k # m
      BY <3>2, <2>5 DEF IInv, NoLaundering, Present
    <3> QED
      BY <3>1, <3>2
  <2>7. Frame
    <3>1. \A k \in Memories : Trust(basis[k]) <= Trust(basis[k])
      BY <1>1, TrustNat DEF TypeOK
    <3>2. ASSUME NEW k \in Memories, ~New(k)
          PROVE  /\ ~New(k)'
                 /\ Present(k)' => /\ Present(k) /\ row'[k].layer = row[k].layer
                                   /\ Trust(basis[k]) <= Trust(basis'[k])
      BY <1>1, <2>2, <2>5, <3>1, <3>2 DEF New, Present
    <3> QED
      BY <1>1, <3>2 DEF Frame
  <2> QED
    BY <1>1, <1>2, <2>4, <2>6, <2>7, MergeOn
<1> QED
  BY <1>3, <1>4 DEF WriteBack

LEMMA DedupeStopsStep ==
  ASSUME IInv, DedupeStops
  PROVE  IInv'
<1>1. /\ UNCHANGED <<row, edge, learner, basis, told>> /\ merge' = NoMerge
      /\ edge \subseteq Memories \X Memories
  BY DEF DedupeStops, IInv, TypeOK
<1>2. merge' \in MergeType /\ merge'.at = "idle"
  BY <1>1, NoMergeType DEF NoMerge
<1> QED
  BY <1>1, <1>2, MergeReads

----------------------------------------------------------------------------
LEMMA InitIInv == Init => IInv
<1> SUFFICES ASSUME Init PROVE IInv
  OBVIOUS
<1>1. Gone \in RowType
  BY DEF Gone, RowType
<1>2. TypeOK
  BY <1>1, NoCallType, NoMergeType DEF Init, TypeOK
<1>3. NoLaundering
  BY DEF Init, NoLaundering, Present, Gone
<1>4. \A l \in Learners : Sound(l)
  BY DEF Init, Sound, NoCall
<1> QED
  BY <1>2, <1>3, <1>4 DEF IInv, ContradictionKept, Told, MergeSound, NoMerge, Init

LEMMA NextIInv == IInv /\ [Next]_vars => IInv'
<1> SUFFICES ASSUME IInv, [Next]_vars PROVE IInv'
  OBVIOUS
<1>1. ASSUME NEW l \in Learners,
             \/ \E fact \in Facts, channel \in Channels, S \in SUBSET Memories :
                  Learn(l, fact, channel, S)
             \/ CheckConflict(l) \/ Decide(l) \/ ApplyNoop(l) \/ ApplyUpdate(l) \/ Establish(l)
             \/ \E c \in Memories \cup {None} : Link(l, c)
             \/ LinkFails(l) \/ Quarantine(l) \/ Supersede(l) \/ Done(l)
             \/ \E S \in SUBSET Memories : Digest(l, S)
             \/ StoreDigest(l) \/ Exit(l)
      PROVE  IInv'
  <2>1. CASE Exit(l)
    BY <2>1, EndStep DEF Exit
  <2> QED
    BY <1>1, <2>1, LearnStep, CheckStep, DecideStep, NoopStep, UpdateStep, EstablishStep, LinkStep,
       LinkFailsStep, QuarantineStep, SupersedeStep, DoneStep, DigestStep, StoreDigestStep
<1>2. CASE \E m \in Memories, channel \in Channels, layer \in {"episodic", "semantic"}, fact \in Facts :
             (layer = "episodic" <=> fact = "other") /\ Capture(m, channel, layer, fact)
  BY <1>2, CaptureStep
<1>3. CASE \E m, n \in Memories, channel \in Channels : Revise(m, n, channel)
  BY <1>3, ReviseStep
<1>4. CASE \E m \in Memories, fact \in Facts, tier \in {ChannelTier(c) : c \in Channels},
               trusted \in BOOLEAN :
             \E status \in Patched \cup {row[m].status} : Patch(m, status, fact, tier, trusted)
  BY <1>4, PatchStep, ChannelTierType
<1>5. CASE \E m \in Memories : Trash(m)
  BY <1>5, TrashStep
<1>6. CASE \/ \E m \in Memories : \E copies \in SUBSET Memories : BeginDedupe(m, copies)
           \/ \E fact \in Facts : Reword(fact)
           \/ ListEdges \/ (\E e \in merge.moves : Retarget(e)) \/ (\E c \in Memories : Fold(c))
           \/ WriteBack \/ DedupeStops
  BY <1>6, BeginStep, RewordStep, ListStep, RetargetStep, FoldStep, WriteBackStep, DedupeStopsStep
<1>7. CASE UNCHANGED vars
  <2>1. NoLaundering' /\ Frame
    BY <1>7, StillFrame DEF IInv, NoLaundering, Present, vars
  <2>2. TypeOK'
    BY <1>7 DEF IInv, TypeOK, vars
  <2> QED
    BY <1>7, <2>1, <2>2, EditStep DEF vars
<1> QED
  BY <1>1, <1>2, <1>3, <1>4, <1>5, <1>6, <1>7 DEF Next

LEMMA Invariance == Spec => []IInv
  BY InitIInv, NextIInv, PTL DEF Spec

\* The state is of its type in every run, whatever is learned by whom.
THEOREM TypeCorrect == Spec => []TypeOK
<1>1. IInv => TypeOK
  BY DEF IInv
<1> QED
  BY <1>1, Invariance, PTL

\* No belief is ever trusted more than everything that its text came from, of what NoLaundering
\* counts.
THEOREM TiersSound == Spec => []NoLaundering
<1>1. IInv => NoLaundering
  BY DEF IInv
<1> QED
  BY <1>1, Invariance, PTL

\* No call that returns has hidden the contradiction that it found.
THEOREM ContradictionsFound == Spec => []ContradictionKept
<1>1. IInv => ContradictionKept
  BY DEF IInv
<1> QED
  BY <1>1, Invariance, PTL

----------------------------------------------------------------------------
(* Facts that contradict each other do not retire each other, as what      *)
(* retires a row was stored after the row.  The order is not kept in the    *)
(* state, but what a fact may yet retire is known when it is stored.        *)

\* What the call c may yet retire: contradictions it has still to link, and the one it has.
Retirable(c) == c.left \cup (IF c.at = "supersede" THEN {c.with} ELSE {})

\* n has retired m, whatever became of m's status, or a call that stored n may yet.
Retires(n, m) ==
  \/ row[m].by = n
  \/ \E l \in Learners : /\ learner[l].at \in {"link", "supersede"} /\ learner[l].target = n
                         /\ m \in Retirable(learner[l])

\* No set of rows is retired from within.
Acyclic ==
  \A S \in (SUBSET Memories) \ {{}} : \E m \in S : \A n \in S : ~Retires(n, m)

\* What a call has still to link is of what it found to contradict its fact.
Listed == \A l \in Learners : learner[l].left \subseteq learner[l].conflicts

LEMMA InitAcyclic == Init => Acyclic /\ Listed
<1> SUFFICES ASSUME Init PROVE Acyclic /\ Listed
  OBVIOUS
<1>1. \A m, n \in Memories : ~Retires(n, m)
  BY NoneAssumption DEF Init, Retires, Gone, NoCall
<1> QED
  BY <1>1 DEF Acyclic, Listed, Init, NoCall

\* What a call may retire is there.
LEMMA RetirableThere ==
  ASSUME IInv, Listed, NEW l \in Learners, learner[l].at \in {"link", "supersede"},
         NEW m \in Retirable(learner[l]) \cap Memories
  PROVE  ~New(m)
<1>1. learner[l] \in CallType /\ Sound(l)
  BY DEF IInv, TypeOK
<1> QED
  BY <1>1 DEF Listed, Sound, Retirable, CallType

\* A step that gives no row a new successor.
LEMMA Fewer ==
  ASSUME Acyclic, \A m, n \in Memories : Retires(n, m)' => Retires(n, m)
  PROVE  Acyclic'
  BY DEF Acyclic

\* A step that gives rows the successor k, which nothing retires.
LEMMA OneMore ==
  ASSUME Acyclic, NEW k \in Memories, \A n \in Memories : ~Retires(n, k)',
         \A m, n \in Memories : Retires(n, m)' => Retires(n, m) \/ n = k
  PROVE  Acyclic'
<1> SUFFICES ASSUME NEW S \in (SUBSET Memories) \ {{}}
             PROVE  \E m \in S : \A n \in S : ~Retires(n, m)'
  BY DEF Acyclic
<1>1. CASE k \in S
  BY <1>1
<1>2. CASE k \notin S
  <2>1. PICK m \in S : \A n \in S : ~Retires(n, m)
    BY DEF Acyclic
  <2> QED
    BY <1>2, <2>1
<1> QED
  BY <1>1, <1>2

\* A step of the call l after which it may retire no more than before.
LEMMA CallFewer ==
  ASSUME Acyclic, NEW l \in Learners, \A k \in Learners \ {l} : learner'[k] = learner[k],
         \/ learner'[l].at \notin {"link", "supersede"}
         \/ /\ learner[l].at \in {"link", "supersede"} /\ learner'[l].target = learner[l].target
            /\ Retirable(learner'[l]) \subseteq Retirable(learner[l]),
         \A m, n \in Memories : row'[m].by = n => Retires(n, m)
  PROVE  Acyclic'
<1>1. ASSUME NEW m \in Memories, NEW n \in Memories, Retires(n, m)'
      PROVE  Retires(n, m)
  <2>1. CASE row'[m].by = n
    BY <2>1
  <2>2. CASE \E k \in Learners : /\ learner'[k].at \in {"link", "supersede"}
                                 /\ learner'[k].target = n /\ m \in Retirable(learner'[k])
    <3>1. PICK k \in Learners : /\ learner'[k].at \in {"link", "supersede"}
                                /\ learner'[k].target = n /\ m \in Retirable(learner'[k])
      BY <2>2
    <3>2. /\ learner[k].at \in {"link", "supersede"}
          /\ learner[k].target = n /\ m \in Retirable(learner[k])
      BY <3>1
    <3> QED
      BY <3>2 DEF Retires
  <2> QED
    BY <1>1, <2>1, <2>2 DEF Retires, Retirable
<1> QED
  BY <1>1, Fewer

\* A step that stores k as the successor of at most t, while calls may retire for nobody new but k.
LEMMA StoresNew ==
  ASSUME IInv, Acyclic, Listed, NEW k \in Memories, New(k), row'[k].status = "active",
         row'[k].by = None, NEW t \in Memories \cup {None}, t # k,
         \A m \in Memories \ {k, t} : row'[m] = row[m],
         t \in Memories => row'[t].by = k,
         NEW l \in Learners, \A j \in Learners \ {l} : learner'[j] = learner[j],
         learner'[l].at \in {"link", "supersede"} =>
           learner'[l].target = k /\ \A m \in Retirable(learner'[l]) \cap Memories : ~New(m)
  PROVE  Acyclic'
<1>1. ASSUME NEW n \in Memories, Retires(n, k)' PROVE FALSE
  <2>1. PICK j \in Learners : /\ learner'[j].at \in {"link", "supersede"}
                              /\ k \in Retirable(learner'[j])
    BY <1>1, NoneAssumption DEF Retires, Retirable
  <2>2. CASE j = l
    BY <2>1, <2>2
  <2>3. CASE j # l
    <3>1. learner'[j] = learner[j]
      BY <2>3
    <3> QED
      BY <2>1, <3>1, RetirableThere
  <2> QED
    BY <2>2, <2>3
<1>2. ASSUME NEW m \in Memories, NEW n \in Memories, Retires(n, m)', n # k
      PROVE  Retires(n, m)
  <2>1. CASE row'[m].by = n
    <3>1. m # k /\ m # t
      BY <2>1, <1>2, NoneAssumption
    <3> QED
      BY <2>1, <3>1 DEF Retires
  <2>2. CASE \E j \in Learners : /\ learner'[j].at \in {"link", "supersede"}
                                 /\ learner'[j].target = n /\ m \in Retirable(learner'[j])
    <3>1. PICK j \in Learners : /\ learner'[j].at \in {"link", "supersede"}
                                /\ learner'[j].target = n /\ m \in Retirable(learner'[j])
      BY <2>2
    <3>2. learner'[j] = learner[j]
      BY <3>1, <1>2
    <3> QED
      BY <3>1, <3>2 DEF Retires
  <2> QED
    BY <1>2, <2>1, <2>2 DEF Retires, Retirable
<1> QED
  BY <1>1, <1>2, OneMore

\* The calls' steps that store nothing and retire nothing.
ReadOnly(l) ==
  \/ \E fact \in Facts, channel \in Channels, S \in SUBSET Memories : Learn(l, fact, channel, S)
  \/ CheckConflict(l) \/ Decide(l) \/ ApplyNoop(l)
  \/ \E c \in Memories \cup {None} : Link(l, c)
  \/ LinkFails(l) \/ Done(l)
  \/ \E S \in SUBSET Memories : Digest(l, S)
  \/ Exit(l)

\* It may retire no more than before.
Lawful(l) ==
  /\ \/ learner'[l].at \notin {"link", "supersede"}
     \/ /\ learner[l].at \in {"link", "supersede"} /\ learner'[l].target = learner[l].target
        /\ Retirable(learner'[l]) \subseteq Retirable(learner[l])
  /\ learner'[l].left \subseteq learner'[l].conflicts

LEMMA ReadOnlyStep ==
  ASSUME IInv, Acyclic, Listed, NEW l \in Learners, ReadOnly(l)
  PROVE  Acyclic' /\ Listed'
<1>1. learner \in [Learners -> CallType]
  BY DEF IInv, TypeOK
<1>2. row' = row
  BY DEF ReadOnly, Learn, CheckConflict, Decide, ApplyNoop, Link, LinkFails, Done, Digest, Exit
<1>3. \E v : learner' = [learner EXCEPT ![l] = v]
  BY <1>1 DEF ReadOnly, Learn, CheckConflict, Decide, ApplyNoop, Link, LinkFails, Done, Digest, Exit,
     Go, Choose, Fail, Return
<1>4. \A k \in Learners \ {l} : learner'[k] = learner[k]
  BY <1>1, <1>3
<1>5. Lawful(l)
  <2>0. learner[l] \in CallType /\ learner[l].left \subseteq learner[l].conflicts
    BY <1>1 DEF Listed
  <2>1. ASSUME NEW fact, NEW channel, NEW S, Learn(l, fact, channel, S)
        PROVE  learner'[l].at = "check" /\ learner'[l].left = {}
    BY <1>1, <2>1 DEF Learn, NoCall
  <2>2. CASE CheckConflict(l)
    <3>1. CASE learner'[l] = [learner[l] EXCEPT !.at = "decide"]
      BY <2>0, <3>1 DEF CallType, Lawful
    <3>2. ASSUME NEW C, learner'[l] = [learner[l] EXCEPT !.conflicts = C, !.left = C, !.at = "establish"]
          PROVE  Lawful(l)
      BY <2>0, <3>2 DEF CallType, Lawful
    <3>3. CASE Go(l, "decide")
      BY <1>1, <3>1, <3>3 DEF Go
    <3>4. ASSUME NEW C,
                 learner' = [learner EXCEPT ![l].conflicts = C, ![l].left = C, ![l].at = "establish"]
          PROVE  Lawful(l)
      BY <1>1, <3>2, <3>4
    <3> QED
      BY <2>2, <3>3, <3>4 DEF CheckConflict
  <2>3. CASE Decide(l)
    <3>1. CASE Go(l, "establish")
      BY <1>1, <2>0, <3>1 DEF Go, CallType, Lawful
    <3>2. ASSUME NEW a, NEW m, Choose(l, a, m)
          PROVE  Lawful(l)
      <4>1. learner'[l].at = "apply" /\ learner'[l].left = learner[l].left
            /\ learner'[l].conflicts = learner[l].conflicts
        BY <1>1, <2>0, <3>2 DEF Choose, CallType
      <4> QED
        BY <2>0, <4>1 DEF Lawful
    <3> QED
      BY <2>3, <3>1, <3>2 DEF Decide
  <2>4. CASE ApplyNoop(l) \/ Done(l) \/ Exit(l)
    BY <1>1, <2>4 DEF ApplyNoop, Done, Exit, Return, Fail, NoCall, Lawful
  <2>5. ASSUME NEW c, Link(l, c)
        PROVE  Lawful(l)
    <3>1. CASE learner'[l] = [learner[l] EXCEPT !.at = "supersede", !.left = @ \ {c}, !.with = c]
      BY <2>0, <2>5, <3>1 DEF Link, At, CallType, Retirable, Lawful
    <3>2. CASE learner'[l] = [learner[l] EXCEPT !.at = "quarantine"]
      BY <2>0, <3>2 DEF CallType, Lawful
    <3> QED
      BY <1>1, <2>5, <3>1, <3>2 DEF Link, Go
  <2>6. CASE LinkFails(l)
    BY <1>1, <2>0, <2>6 DEF LinkFails, Go, CallType, Lawful
  <2>7. ASSUME NEW S, Digest(l, S)
        PROVE  learner'[l].at = "digest" /\ learner'[l].left = {}
    BY <1>1, <2>7 DEF Digest, NoCall
  <2> QED
    BY <2>1, <2>2, <2>3, <2>4, <2>5, <2>6, <2>7 DEF ReadOnly, Lawful
<1>6. Acyclic'
  <2>1. \A m, n \in Memories : row'[m].by = n => Retires(n, m)
    BY <1>2 DEF Retires
  <2> QED
    BY <1>4, <1>5, <2>1, CallFewer DEF Lawful
<1>8. Listed'
  BY <1>4, <1>5 DEF Listed, Lawful
<1> QED
  BY <1>6, <1>8

\* What is learned may retire what was found to contradict it, all of it older.
LEMMA EstablishAcyclic ==
  ASSUME IInv, Acyclic, Listed, NEW l \in Learners, Establish(l)
  PROVE  Acyclic' /\ Listed'
<1>1. /\ learner \in [Learners -> CallType] /\ row \in [Memories -> RowType] /\ Sound(l)
      /\ At(l, "establish")
  BY DEF IInv, TypeOK, Establish
<1>2. CASE Fail(l) /\ UNCHANGED row
  <2>1. learner'[l].at = "idle" /\ learner'[l].left = {}
    BY <1>1, <1>2 DEF Fail, NoCall
  <2>2. \A k \in Learners \ {l} : learner'[k] = learner[k]
    BY <1>1, <1>2 DEF Fail
  <2>3. \A m, n \in Memories : row'[m].by = n => Retires(n, m)
    BY <1>2 DEF Retires
  <2> QED
    BY <2>1, <2>2, <2>3, CallFewer DEF Listed
<1>3. ASSUME NEW k \in Memories, NEW t, NEW b,
             Store(k, Row("semantic", t, ChannelTier(learner[l].channel), learner[l].fact), b),
             learner' = [learner EXCEPT ![l] = [NoCall EXCEPT
                !.at = "link", !.target = k, !.conflicts = learner[l].conflicts,
                !.left = learner[l].left]]
      PROVE  Acyclic' /\ Listed'
  <2>1. /\ New(k) /\ row'[k].status = "active" /\ row'[k].by = None
        /\ \A m \in Memories \ {k} : row'[m] = row[m]
    BY <1>1, <1>3 DEF Store, Row
  <2>2. /\ learner'[l].at = "link" /\ learner'[l].target = k /\ learner'[l].left = learner[l].left
        /\ learner'[l].conflicts = learner[l].conflicts
        /\ \A j \in Learners \ {l} : learner'[j] = learner[j]
    BY <1>1, <1>3 DEF NoCall
  <2>3. \A m \in Retirable(learner'[l]) \cap Memories : ~New(m)
    BY <1>1, <2>2 DEF Retirable, Sound, Listed, At, CallType
  <2>4. None # k /\ None \notin Memories
    BY NoneAssumption
  <2>5. Acyclic'
    BY <2>1, <2>2, <2>3, <2>4, StoresNew
  <2>6. Listed'
    BY <2>2 DEF Listed
  <2> QED
    BY <2>5, <2>6
<1> QED
  BY <1>2, <1>3 DEF Establish

\* A row is superseded by what was stored for it, or by what is stored now.
LEMMA UpdateAcyclic ==
  ASSUME IInv, Acyclic, Listed, NEW l \in Learners, ApplyUpdate(l)
  PROVE  Acyclic' /\ Listed'
<1> DEFINE t == learner[l].target
<1>1. /\ learner \in [Learners -> CallType] /\ row \in [Memories -> RowType] /\ Sound(l)
      /\ At(l, "apply")
  BY DEF IInv, TypeOK, ApplyUpdate
<1>2. /\ learner'[l].at = "idle" /\ learner'[l].left = {}
      /\ \A j \in Learners \ {l} : learner'[j] = learner[j]
  BY <1>1 DEF ApplyUpdate, Return, Fail, NoCall
<1>3. Listed'
  BY <1>2 DEF Listed
<1>4. t \in Memories /\ ~New(t)
  BY <1>1 DEF Sound, At
<1>5. CASE UNCHANGED row
  <2>1. \A m, n \in Memories : row'[m].by = n => Retires(n, m)
    BY <1>5 DEF Retires
  <2> QED
    BY <1>2, <1>3, <2>1, CallFewer
<1>6. ASSUME NEW k \in Memories, NEW r, NEW b, r.status = "active", r.by = None,
             Replace(t, k, r, b)
      PROVE  Acyclic'
  <2>1. /\ New(k) /\ row'[k].status = "active" /\ row'[k].by = None /\ row'[t].by = k /\ t # k
        /\ \A m \in Memories \ {k, t} : row'[m] = row[m]
    BY <1>1, <1>4, <1>6 DEF Replace, RowType
  <2> QED
    BY <1>2, <1>4, <2>1, StoresNew
<1>7. ASSUME NEW k \in Memories, NEW b,
             Replace(t, k, Row("semantic", row[t].tag, row[t].source, learner[l].fact), b)
      PROVE  Acyclic'
  BY <1>6, <1>7 DEF Row
<1> QED
  BY <1>3, <1>5, <1>7 DEF ApplyUpdate

LEMMA SupersedeAcyclic ==
  ASSUME IInv, Acyclic, Listed, NEW l \in Learners, Supersede(l)
  PROVE  Acyclic' /\ Listed'
<1> DEFINE c == learner[l].with
           t == learner[l].target
<1>1. /\ learner \in [Learners -> CallType] /\ row \in [Memories -> RowType] /\ Sound(l)
      /\ At(l, "supersede")
  BY DEF IInv, TypeOK, Supersede
<1>2. c \in Memories /\ t \in Memories
  BY <1>1 DEF Sound, At
<1>3. learner'[l] = [learner[l] EXCEPT !.at = "link", !.with = None]
  BY <1>1 DEF Supersede
<1>4. /\ learner'[l].at = "link" /\ learner'[l].target = t /\ learner'[l].left = learner[l].left
      /\ learner'[l].conflicts = learner[l].conflicts
      /\ \A j \in Learners \ {l} : learner'[j] = learner[j]
  BY <1>1, <1>3 DEF Supersede, CallType
<1>5. Retirable(learner'[l]) \subseteq Retirable(learner[l])
  BY <1>4 DEF Retirable
<1>6. row' = row \/ row' = [row EXCEPT ![c].status = "superseded", ![c].by = t]
  BY DEF Supersede
<1>7. Retires(t, c)
  BY <1>1 DEF Retires, Retirable, At
<1>8. \A m, n \in Memories : row'[m].by = n => Retires(n, m)
  <2>1. CASE row' = row
    BY <2>1 DEF Retires
  <2>2. CASE row' = [row EXCEPT ![c].status = "superseded", ![c].by = t]
    <3>1. row'[c].by = t /\ \A m \in Memories \ {c} : row'[m] = row[m]
      BY <1>1, <1>2, <2>2 DEF RowType
    <3> QED
      BY <1>7, <3>1 DEF Retires
  <2> QED
    BY <1>6, <2>1, <2>2
<1>9. Acyclic'
  BY <1>1, <1>4, <1>5, <1>8, CallFewer DEF At
<1> QED
  BY <1>4, <1>9 DEF Listed

\* Words, tiers and statuses are not successors.
LEMMA FieldsApart ==
  ASSUME NEW r \in RowType, NEW s, NEW f, NEW t
  PROVE  /\ [r EXCEPT !.status = s].by = r.by /\ [r EXCEPT !.fact = f].by = r.by
         /\ [r EXCEPT !.tag = t].by = r.by
         /\ [r EXCEPT !.status = s, !.fact = f, !.tag = t].by = r.by
  BY DEF RowType

\* Whoever else writes rows: with C, those that were written, which get no new successor.
LEMMA OthersAcyclic ==
  ASSUME IInv, Acyclic, Listed, learner' = learner, NEW C \in SUBSET Memories,
         \A m \in Memories \ C : row'[m] = row[m],
         \A m \in C : row'[m].by \in {row[m].by, None}
  PROVE  Acyclic' /\ Listed'
<1>1. \A m, n \in Memories : Retires(n, m)' => Retires(n, m)
  BY NoneAssumption DEF Retires
<1> QED
  BY <1>1, Fewer DEF Listed

LEMMA QuarantineAcyclic ==
  ASSUME IInv, Acyclic, Listed, NEW l \in Learners, Quarantine(l) \/ StoreDigest(l)
  PROVE  Acyclic' /\ Listed'
<1>1. /\ learner \in [Learners -> CallType] /\ row \in [Memories -> RowType] /\ Sound(l)
  BY DEF IInv, TypeOK
<1>2. /\ learner'[l].at = "idle" /\ learner'[l].left = {}
      /\ \A j \in Learners \ {l} : learner'[j] = learner[j]
  BY <1>1 DEF Quarantine, StoreDigest, Fail, NoCall
<1>3. ASSUME NEW m \in Memories PROVE row'[m].by \in {row[m].by, None}
  <2>1. CASE Quarantine(l)
    <3>1. row' = row \/ row' = [row EXCEPT ![learner[l].target].status = "quarantined"]
      BY <2>1 DEF Quarantine
    <3> QED
      BY <1>1, <3>1 DEF RowType
  <2>2. CASE StoreDigest(l)
    <3>1. row' = row \/ \E k \in Memories : \E tier, source :
                          row' = [row EXCEPT ![k] = Row("semantic", tier, source, "other")]
      BY <2>2 DEF StoreDigest, Store
    <3> QED
      BY <1>1, <3>1 DEF Row
  <2> QED
    BY <2>1, <2>2
<1>4. \A m, n \in Memories : row'[m].by = n => Retires(n, m)
  BY <1>3, NoneAssumption DEF Retires
<1>5. Acyclic'
  BY <1>2, <1>4, CallFewer
<1> QED
  BY <1>2, <1>5 DEF Listed

LEMMA ReviseAcyclic ==
  ASSUME IInv, Acyclic, Listed, NEW m \in Memories, NEW n \in Memories, NEW channel,
         Revise(m, n, channel)
  PROVE  Acyclic' /\ Listed'
<1>1. row \in [Memories -> RowType] /\ learner' = learner
  BY DEF IInv, TypeOK, Revise
<1>2. New(n) /\ m # n
  BY DEF Revise, Replace, Revisable, New
<1>3. /\ row'[n].by = None /\ row'[m].by = n
      /\ \A k \in Memories \ {n, m} : row'[k] = row[k]
  BY <1>1, <1>2 DEF Revise, Replace, Row, RowType
<1>4. \A k \in Memories : ~Retires(k, n)'
  <2>1. ASSUME NEW k \in Memories, NEW l \in Learners, learner[l].at \in {"link", "supersede"},
               n \in Retirable(learner[l])
        PROVE  FALSE
    BY <1>2, <2>1, RetirableThere
  <2> QED
    BY <1>1, <1>3, <2>1, NoneAssumption DEF Retires, Retirable
<1>5. \A k, j \in Memories : Retires(j, k)' => Retires(j, k) \/ j = n
  BY <1>1, <1>3, NoneAssumption DEF Retires
<1> QED
  BY <1>1, <1>4, <1>5, OneMore DEF Listed

LEMMA NextAcyclic ==
  ASSUME IInv, Acyclic, Listed, [Next]_vars
  PROVE  Acyclic' /\ Listed'
<1>1. row \in [Memories -> RowType]
  BY DEF IInv, TypeOK
<1>2. ASSUME NEW l \in Learners, ReadOnly(l) \/ ApplyUpdate(l) \/ Establish(l) \/ Quarantine(l)
                                   \/ Supersede(l) \/ StoreDigest(l)
      PROVE  Acyclic' /\ Listed'
  BY <1>2, ReadOnlyStep, UpdateAcyclic, EstablishAcyclic, QuarantineAcyclic, SupersedeAcyclic
<1>3. ASSUME NEW m \in Memories, NEW channel, NEW layer, NEW fact, Capture(m, channel, layer, fact)
      PROVE  Acyclic' /\ Listed'
  <2> DEFINE C == {m}
  <2>1. row'[m].by = None /\ learner' = learner /\ \A k \in Memories \ {m} : row'[k] = row[k]
    BY <1>1, <1>3 DEF Capture, Store, Row
  <2>2. /\ C \in SUBSET Memories /\ \A k \in Memories \ C : row'[k] = row[k]
        /\ \A k \in C : row'[k].by \in {row[k].by, None}
    BY <2>1
  <2> HIDE DEF C
  <2> QED
    BY <2>1, <2>2, OthersAcyclic
<1>4. ASSUME NEW m \in Memories, NEW n \in Memories, NEW channel, Revise(m, n, channel)
      PROVE  Acyclic' /\ Listed'
  BY <1>4, ReviseAcyclic
<1>5. ASSUME learner' = learner,
             \A k \in Memories : row'[k] = row[k] \/ row'[k].by = row[k].by \/ row'[k].by = None
      PROVE  Acyclic' /\ Listed'
  BY <1>5, OthersAcyclic
<1>6. ASSUME NEW m \in Memories, Trash(m) \/ \E status, fact, tier, trusted :
                                               Patch(m, status, fact, tier, trusted)
      PROVE  Acyclic' /\ Listed'
  <2>1. learner' = learner /\ row'[m].by = row[m].by /\ \A k \in Memories \ {m} : row'[k] = row[k]
    <3>1. CASE Trash(m)
      <4>1. learner' = learner /\ row' = [row EXCEPT ![m] = [row[m] EXCEPT !.status = "deleted"]]
        BY <1>1, <3>1 DEF Trash
      <4> QED
        BY <1>1, <4>1, FieldsApart
    <3>2. ASSUME NEW s, NEW f, NEW t, NEW trusted, Patch(m, s, f, t, trusted)
          PROVE  /\ learner' = learner /\ row'[m].by = row[m].by
                 /\ \A k \in Memories \ {m} : row'[k] = row[k]
      <4>1. PICK u : /\ row' = [row EXCEPT ![m].status = s, ![m].fact = f, ![m].tag = u]
                     /\ learner' = learner
        BY <3>2 DEF Patch, Edited
      <4>2. row' = [row EXCEPT ![m] = [row[m] EXCEPT !.status = s, !.fact = f, !.tag = u]]
        BY <1>1, <4>1
      <4> QED
        BY <1>1, <4>1, <4>2, FieldsApart
    <3> QED
      BY <1>6, <3>1, <3>2
  <2> QED
    BY <2>1, <1>5
<1>7. CASE \/ \E m \in Memories, copies \in SUBSET Memories : BeginDedupe(m, copies)
           \/ ListEdges \/ (\E e \in merge.moves : Retarget(e)) \/ DedupeStops
           \/ \E fact \in Facts : Reword(fact)
           \/ WriteBack
  <2>1. /\ learner' = learner
        /\ row' = row \/ (\E fact : row' = [row EXCEPT ![merge.to].fact = fact])
                      \/ (row' = [row EXCEPT ![merge.to].tag = merge.tag])
    BY <1>7 DEF BeginDedupe, ListEdges, Retarget, DedupeStops, Reword, WriteBack
  <2>2. ASSUME NEW k \in Memories
        PROVE  row'[k].by = row[k].by
    <3>1. row[k] \in RowType
      BY <1>1
    <3>2. ASSUME NEW f, row' = [row EXCEPT ![merge.to].fact = f]
          PROVE  row'[k].by = row[k].by
      <4>1. row'[k] = IF k = merge.to THEN [row[k] EXCEPT !.fact = f] ELSE row[k]
        BY <1>1, <3>2
      <4> QED
        BY <3>1, <4>1, FieldsApart
    <3>3. CASE row' = [row EXCEPT ![merge.to].tag = merge.tag]
      <4>1. row'[k] = IF k = merge.to THEN [row[k] EXCEPT !.tag = merge.tag] ELSE row[k]
        BY <1>1, <3>3
      <4> QED
        BY <3>1, <4>1, FieldsApart
    <3> QED
      BY <2>1, <3>2, <3>3
  <2> QED
    BY <2>1, <2>2, <1>5
<1>9. ASSUME NEW c \in Memories, Fold(c)
      PROVE  Acyclic' /\ Listed'
  <2>1. /\ learner' = learner /\ \A k \in Memories \ {c} : row'[k] = row[k]
        /\ row'[c].by = row[c].by \/ row'[c].by = None
    BY <1>1, <1>9 DEF Fold, Gone
  <2> QED
    BY <2>1, <1>5
<1>8. CASE UNCHANGED vars
  BY <1>8, OthersAcyclic DEF vars
<1> QED
  BY <1>2, <1>3, <1>4, <1>6, <1>7, <1>8, <1>9 DEF Next, ReadOnly

\* However calls of learn overlap, no rows are all retired for each other.
THEOREM OneSideStaysUp == Spec => []OneSideStands
<1>1. Acyclic => OneSideStands
  BY DEF Acyclic, OneSideStands, Retires
<1>2. Acyclic /\ Listed /\ IInv /\ [Next]_vars => (Acyclic /\ Listed)'
  BY NextAcyclic
<1> QED
  BY <1>1, <1>2, InitAcyclic, Invariance, PTL DEF Spec
=============================================================================
