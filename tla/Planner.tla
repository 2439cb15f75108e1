-------------------------------- MODULE Planner --------------------------------
(***************************************************************************)
(* agentos/planning.py and _director_filter of the engine: which stages a  *)
(* goal gets. The planner chooses them from the goal, then the director of *)
(* each branch keeps or drops those of its own team.                       *)
(*                                                                         *)
(* Of a goal the model keeps the topics its words match and the list of a  *)
(* PLANNED_STAGES marker. A goal is chosen in the initial state.           *)
(***************************************************************************)
EXTENDS Naturals, Sequences, FiniteSets, SequencesExt, Picking

CONSTANT Markers   \* lists of stages a goal may name; <<>> for no marker

ASSUME PlannerAssumption == Markers \subseteq Seq(STRING)

VARIABLES
  goal,      \* the goal, and whether the caller asked for the full plan
  plan,      \* the stages, in the order they will run
  toAsk,     \* branches whose director has not been asked yet
  planPc     \* "goal", "directors", "built", "unknown" when there is no such stage

planVars == <<goal, plan, toAsk, planPc>>

\* The stage templates in the order available_stages lists them, by name.
AvailableStages ==
  <<"community", "deploy", "design", "implement-backend", "implement-frontend", "report",
    "requirements", "research", "review", "security", "testing", "understanding">>

\* The stages of each branch, by the role a template gives its work to. The
\* executive's own two are nobody's to drop.
Teams ==
  [research |-> {"research", "community"}, product |-> {"requirements"}, design |-> {"design"},
   engineering |-> {"implement-frontend", "implement-backend"},
   qa |-> {"testing", "security", "review"}, operations |-> {"deploy"}]

Frame == {"understanding", "report"}

\* _KEYWORD_STAGES: topics, the more specific ones first, and their stages.
KeywordStages ==
  << [topic |-> "product", stages |->
        <<"research", "community", "requirements", "design", "implement-frontend",
          "implement-backend", "testing", "security", "review", "deploy">>],
     [topic |-> "website", stages |-> <<"design", "implement-frontend", "testing", "review">>],
     [topic |-> "backend", stages |-> <<"implement-backend", "testing", "review">>],
     [topic |-> "market", stages |-> <<"research", "community">>],
     [topic |-> "security", stages |-> <<"security", "review">>],
     [topic |-> "bug", stages |-> <<"implement-frontend", "implement-backend", "testing">>],
     [topic |-> "content", stages |-> <<"design", "implement-frontend", "review">>] >>

Topics == {KeywordStages[k].topic : k \in DOMAIN KeywordStages}

\* The stages of the first topic the goal matches, or of a small task.
StagesFor(topics) ==
  LET hits == {k \in DOMAIN KeywordStages : KeywordStages[k].topic \in topics}
  IN  IF hits = {} THEN <<"requirements", "implement-frontend", "testing", "review">>
      ELSE KeywordStages[CHOOSE k \in hits : \A j \in hits : k <= j].stages

Without(s, S) == Picked(s, {i \in 1 .. Len(s) : s[i] \notin S})

\* Mutant: a stage comes as often as it is named.
AsNamed(s) == s

\* dict.fromkeys: each stage where it comes first.
Distinct(s) == Picked(s, {i \in 1 .. Len(s) : \A j \in 1 .. i - 1 : s[j] # s[i]})

\* plan_stages: the marker as it is written, all templates, or by topic; with
\* the understanding first, and a report after it all if there is none yet.
PlanStages(g) ==
  LET middle == IF g.marker # <<>> THEN g.marker
                ELSE IF g.full THEN Without(AvailableStages, Frame)
                ELSE StagesFor(g.topics)
      stages == Distinct(<<"understanding">> \o middle)
  IN  IF Contains(stages, "report") THEN stages ELSE Append(stages, "report")

\* build_workflow, which knows only stages that have a template.
Buildable(stages) == ToSet(stages) \subseteq ToSet(AvailableStages)

\* (Bound: a goal matches at most two topics.)
PlanInit ==
  /\ goal \in [topics : {T \in SUBSET Topics : Cardinality(T) <= 2}, marker : Markers \cup {<<>>}, full : BOOLEAN]
  /\ plan = <<>> /\ toAsk = {} /\ planPc = "goal"

\* execute_dynamic: with a marker, or for the full plan, nobody is asked.
MakePlan ==
  /\ planPc = "goal"
  /\ plan' = PlanStages(goal)
  /\ IF goal.full \/ goal.marker # <<>>
     THEN planPc' = (IF Buildable(plan') THEN "built" ELSE "unknown") /\ UNCHANGED toAsk
     ELSE /\ planPc' = "directors"
          /\ toAsk' = {b \in DOMAIN Teams : Teams[b] \cap ToSet(plan') # {}}
  /\ UNCHANGED goal

\* _director_filter, one branch: the stages the answer names are kept, NONE
\* drops them all, an answer that says neither keeps them.
Team(b) == Teams[b] \cap ToSet(plan)

Keeps(b) == SUBSET Team(b)

AskDirector(b) ==
  /\ planPc = "directors" /\ b \in toAsk
  /\ \E kept \in Keeps(b) : plan' = Without(plan, Team(b) \ kept)
  /\ toAsk' = toAsk \ {b}
  /\ UNCHANGED <<goal, planPc>>

BuildPlan ==
  /\ planPc = "directors" /\ toAsk = {}
  /\ planPc' = "built"
  /\ UNCHANGED <<goal, plan, toAsk>>

PlanNext == MakePlan \/ BuildPlan \/ \E b \in DOMAIN Teams : AskDirector(b)

-----------------------------------------------------------------------------
(* Properties *)

\* Whatever the goal says and the directors drop, a plan that is built frames
\* the work: it starts with the understanding, reports at some point (and at
\* the very end unless a marker says otherwise), and no stage comes twice.
PlanIsFramed ==
  planPc = "built" =>
    /\ plan[1] = "understanding"
    /\ Contains(plan, "report")
    /\ goal.marker = <<>> => Last(plan) = "report"
    /\ IsInjective(plan)

=============================================================================
