------------------------------ MODULE MCRecall ------------------------------
(***************************************************************************)
(* An instance of Recall for TLC: scenes with rejected rows, for windows    *)
(* and rows that come and go; scenes with files, relationships and vectors, *)
(* for recall for a task; scenes with sizes and kinds, for injection.       *)
(***************************************************************************)
EXTENDS Recall, TLC

MCMems == 1..5
MCLayers == <<"semantic", "episodic", "raw">>

Plain ==
  [layer |-> "semantic", base |-> 3000, overlap |-> 8000, near |-> 0, text |-> TRUE, boost |-> 0,
   usable |-> TRUE, trusted |-> TRUE, kind |-> "plain", size |-> 2, terms |-> {}, place |-> "far",
   tree |-> "none", specificity |-> 5000]
With(profile, f) == f @@ profile
Scene(of, links, indexed, active, modes, n) ==
  [of |-> of, links |-> links, indexed |-> indexed, live |-> active, modes |-> modes,
   changes |-> n]

\* Windows: which rows eligibility rejects, which have vectors, which are active at first.
Windows ==
  { Scene([m \in MCMems |-> With(Plain, [usable |-> m \in able, near |-> 1000 * ((m * 2) % 5),
                                         layer |-> MCLayers[IF m \in other THEN 2 ELSE 1]])],
          {}, indexed, active, {"recall"}, 2) :
      able \in {{}, {4}, {5}, {3, 5}}, indexed \in {{}, MCMems, {2, 4, 5}},
      active \in {MCMems, MCMems \ {3}}, other \in {{}, {5}} }

\* Recall for a task.
TaskProfiles ==
  { With(Plain, [place |-> "named", overlap |-> 0, text |-> FALSE, base |-> 2000]),
    With(Plain, [place |-> "hop1", overlap |-> 500, base |-> 1400]),
    With(Plain, [place |-> "hop2", near |-> 6000]),
    With(Plain, [place |-> "spelled", overlap |-> 0, text |-> FALSE, base |-> 1800]),
    With(Plain, [place |-> "hop1", overlap |-> 0, text |-> FALSE, base |-> 2500]),
    With(Plain, [place |-> "named", overlap |-> 1000, base |-> 1200]) }
Link(x, y, w) == [from |-> x, to |-> y, weight |-> w]
Tasks ==
  { Scene([m \in MCMems |-> IF m = 5 THEN Plain ELSE of[m]], links, {1, 2}, MCMems, {"task"}, 0) :
      of \in {f \in [1..4 -> TaskProfiles] : f[3] # f[4]},
      links \in {{Link(1, 2, 5000), Link(2, 5, 9000)},
                 {Link(5, 4, 3000), Link(4, 1, 6000), Link(1, 4, 7000)}} }
TasksThatChange ==
  { Scene([m \in MCMems |-> IF m = 5 THEN With(Plain, [layer |-> "raw"]) ELSE of[m]], {Link(1, 2, 5000), Link(2, 5, 9000)},
          {1, 2}, MCMems, {"task"}, 1) :
      of \in {f \in [1..4 -> TaskProfiles] :
                 /\ \A x, y \in 1..4 : x # y => f[x] # f[y]
                 /\ f[1].place = "hop1" /\ f[2].place = "named"} }

\* Injection.
PromptProfiles ==
  { With(Plain, [terms |-> {1, 2}]),
    With(Plain, [terms |-> {1, 2, 3}, size |-> 3, boost |-> 500]),
    With(Plain, [terms |-> {3, 4}, kind |-> "hypothesis", boost |-> 800]),
    With(Plain, [terms |-> {5}, kind |-> "warning", overlap |-> 2600]),
    With(Plain, [terms |-> {6}, overlap |-> 3000, place |-> "named", tree |-> "missing"]),
    With(Plain, [terms |-> {7}, overlap |-> 3200, place |-> "spelled", tree |-> "present"]),
    With(Plain, [terms |-> {8}, trusted |-> FALSE]),
    With(Plain, [terms |-> {9}, size |-> 1, base |-> 2000, overlap |-> 8400]) }
Prompts ==
  { Scene([m \in MCMems |-> IF m = 5 THEN With(Plain, [terms |-> {m}, size |-> 1]) ELSE of[m]],
          {}, {}, MCMems, {"inject"}, 0) : of \in [1..4 -> PromptProfiles] }

MCScenes == Windows \cup Tasks \cup TasksThatChange \cup Prompts
=============================================================================
