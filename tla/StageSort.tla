------------------------------ MODULE StageSort -----------------------------
(***************************************************************************)
(* StageSort of model/job.go: the order in which the stages of a job run.  *)
(* It goes over the map of the stages left, in whatever order the map      *)
(* gives them, moves to the list each one whose needs are all in the list, *)
(* and goes over the map again until it is empty or nothing has moved.     *)
(***************************************************************************)
EXTENDS Naturals, Sequences, FiniteSets

CONSTANTS
  Stages, \* the names of the job's stages
  Others  \* other names that a stage may be said to need, by mistake

ASSUME StagesFinite == IsFiniteSet(Stages)
ASSUME OthersDiffer == Stages \intersect Others = {}

VARIABLES
  needs,     \* needs[s]: what the YAML says stage s needs
  stages,    \* the map of the stages left
  sortedMap, \* the keys of sortedMap
  stageList, \* the result
  last,      \* len(stages) when the round began
  todo,      \* keys of the round not yet visited
  start,     \* history: the stages left when the round began
  at         \* "loop", "round", "ok" or "error"

vars == <<needs, stages, sortedMap, stageList, last, todo, start, at>>

Init ==
  /\ needs \in [Stages -> SUBSET (Stages \union Others)]
  /\ stages = Stages /\ sortedMap = {} /\ stageList = <<>>
  /\ last = 0 /\ todo = {} /\ start = {} /\ at = "loop"

BeginRound ==
  /\ at = "loop" /\ stages # {}
  /\ at' = "round" /\ last' = Cardinality(stages) /\ todo' = stages /\ start' = stages
  /\ UNCHANGED <<needs, stages, sortedMap, stageList>>

\* Fault: a stage moves as soon as one of its needs is there.
AnyContained(s) == needs[s] = {} \/ needs[s] \intersect sortedMap # {}

AllContains(s) == needs[s] \subseteq sortedMap

Move(s) ==
  /\ at = "round" /\ s \in todo /\ AllContains(s)
  /\ sortedMap' = sortedMap \union {s}
  /\ stages' = stages \ {s}
  /\ stageList' = Append(stageList, s)
  /\ todo' = todo \ {s}
  /\ UNCHANGED <<needs, last, start, at>>

Pass(s) ==
  /\ at = "round" /\ s \in todo /\ ~AllContains(s)
  /\ todo' = todo \ {s}
  /\ UNCHANGED <<needs, stages, sortedMap, stageList, last, start, at>>

\* Fault: the loop gives up when one stage moved in a round, not none.
EndRoundEarly ==
  /\ at = "round" /\ todo = {}
  /\ at' = IF Cardinality(stages) + 1 >= last /\ stages # {} THEN "error" ELSE "loop"
  /\ UNCHANGED <<needs, stages, sortedMap, stageList, last, todo, start>>
\* Fault: it never gives up.
EndRoundNever ==
  /\ at = "round" /\ todo = {}
  /\ at' = "loop"
  /\ UNCHANGED <<needs, stages, sortedMap, stageList, last, todo, start>>

EndRound ==
  /\ at = "round" /\ todo = {}
  /\ at' = IF Cardinality(stages) = last THEN "error" ELSE "loop"
  /\ UNCHANGED <<needs, stages, sortedMap, stageList, last, todo, start>>

Return ==
  /\ at = "loop" /\ stages = {}
  /\ at' = "ok"
  /\ UNCHANGED <<needs, stages, sortedMap, stageList, last, todo, start>>

Next == BeginRound \/ (\E s \in Stages : Move(s) \/ Pass(s)) \/ EndRound \/ Return

Spec == Init /\ [][Next]_vars /\ WF_vars(Next)

-----------------------------------------------------------------------------
(* Properties.                                                             *)

TypeOK ==
  /\ needs \in [Stages -> SUBSET (Stages \union Others)]
  /\ stages \subseteq Stages /\ sortedMap \subseteq Stages
  /\ stageList \in Seq(Stages)
  /\ last \in Nat /\ todo \subseteq stages /\ start \subseteq Stages
  /\ at \in {"loop", "round", "ok", "error"}

\* Every stage is, at any time, either still left or in the list, once.
OncePerStage ==
  /\ stages = Stages \ sortedMap
  /\ sortedMap = {stageList[i] : i \in DOMAIN stageList}
  /\ \A i, k \in DOMAIN stageList : stageList[i] = stageList[k] => i = k

\* Whatever the order of the map, a stage comes after all it needs.
NeedsComeFirst ==
  \A i \in DOMAIN stageList : \A n \in needs[stageList[i]] :
    \E k \in 1 .. (i - 1) : stageList[k] = n

\* What StageSort has put into its list can be run in that order, once each.
OrderIsValid == OncePerStage /\ NeedsComeFirst

\* Stages that can never run: each needs another of them, or no stage at all.
Stuck(C) == C # {} /\ \A s \in C : \E n \in needs[s] : n \in C \/ n \notin Stages

\* The job is refused exactly when it has stages that can never run (a cycle,
\* or a need that is no stage), and then the stages left are such stages.
RefusedIffStuck ==
  /\ at = "error" => Stuck(stages)
  /\ at = "ok" => \A C \in SUBSET Stages : ~Stuck(C)

\* The sort ends.
SortEnds == <>(at \in {"ok", "error"})
=============================================================================
