------------------------------- MODULE Authority -------------------------------
(***************************************************************************)
(* What the chart lets an agent do: hand a task to another agent with the  *)
(* agent.delegate tool (orchestration/delegation.py and the handler in     *)
(* tools/builtin.py), and read and write memories (memory/scoping.py).     *)
(*                                                                         *)
(* These are decisions, taken at once: a question is asked in the initial  *)
(* state, every way the code may answer it is a step.                      *)
(***************************************************************************)
EXTENDS Integers, OrgChart

CONSTANTS
  Askers,     \* agents whose delegations are looked at
  Subjects,   \* archetypes whose vocabulary a task uses
  Grants      \* sets of agents given agent.delegate beyond the chart

VARIABLES question, verdict

authorityVars == <<question, verdict>>

-----------------------------------------------------------------------------
(* Delegation *)

\* The permission behind each protected action a task may name.
Protected ==
  [deploy |-> "deploy", shell |-> "shell", database |-> "postgres.query",
   github |-> "github", docker |-> "docker", payment |-> "api.call"]

\* A task: the protected actions it names, the archetype whose words it uses
\* and how many of them, whether it sounds risky, whose skills it mentions.
\* And the staff at that time: who is offline or failed, who is busy, who
\* has a good or a bad record.
DelegateAuto ==
  [ask : {"auto"}, by : Askers, granted : Grants,
   names : {{}} \cup {{n} : n \in DOMAIN Protected} \cup {{"shell", "payment"}},
   subject : Subjects, words : {0, 2}, risky : BOOLEAN,
   skilled : {{}, {"backend-lead", "test-engineer"}},
   away : {{}, {"backend-lead"}, Staff},
   busy : {{}, {"backend-lead", "frontend-lead"}},
   strong : {{}, {"frontend-lead"}}, weak : {{}, {"test-engineer"}}]

DelegateExplicit == [ask : {"explicit"}, by : Staff, granted : Grants, child : Staff]

MayDelegate(q) == Allows(q.by, "agent.delegate") \/ q.by \in q.granted

\* _candidates: the children, and with the permission everybody else.
Candidates(q) == Chart[q.by].children \cup (IF MayDelegate(q) THEN Staff \ {q.by} ELSE {})

\* Mutant: only the one who asks must hold the permissions.
ContainedInAsker(q, candidate) == \A n \in q.names : Allows(q.by, Protected[n])

\* _permission_containment: what the task names, requester and candidate
\* must both hold.
Contained(q, candidate) ==
  \A n \in q.names : Allows(q.by, Protected[n]) /\ Allows(candidate, Protected[n])

Capped(n, limit) == IF n > limit THEN limit ELSE n

\* The score of a candidate, in halves of a point.
Score(q, c) ==
  LET expertise == (IF c \in q.skilled THEN 6 ELSE 0) +
                   (IF Identity[c].archetype = q.subject THEN Capped(3 * q.words, 9) ELSE 0)
      record    == IF c \in q.strong THEN 4 ELSE IF c \in q.weak THEN -4 ELSE 0
      workload  == IF c \in q.away THEN -200 ELSE IF c \in q.busy THEN -3 ELSE 0
      caution   == IF ~(q.risky \/ "deploy" \in q.names) THEN 0
                   ELSE IF Identity[c].tolerance = "minimal" THEN 3
                   ELSE IF Identity[c].tolerance = "high" THEN -2 ELSE 0
  IN  expertise + record + workload + caution

Eligible(q) == {c \in Candidates(q) : Contained(q, c)}

\* select: one of the eligible candidates with the best score. (Ties go by
\* the order of the registry, which the model leaves open.)
Best(q) == {c \in Eligible(q) : \A d \in Eligible(q) : Score(q, d) <= Score(q, c)}

\* The answers a call of agent.delegate may get: "denied" by the executor,
\* "refused" by the handler, or the agent the task goes to.
Delegate(q) ==
  IF ~MayDelegate(q) THEN {"denied"}
  ELSE IF q.ask = "auto" THEN (IF Best(q) = {} THEN {"refused"} ELSE Best(q))
  ELSE IF Chart[q.child].parent = q.by \/ MayDelegate(q) THEN {q.child}
  ELSE {"refused"}

-----------------------------------------------------------------------------
(* Memory *)

Nobody == "nobody"

\* A recall or a save under a scope and an owner, by an agent at work on a
\* task assigned to someone, in a project. "mine" is the task or the project
\* at hand, "other" any other.
MemoryAccess ==
  [ask : {"memory"}, by : Staff, scope : {"task", "project"}, owner : {"mine", "other"},
   assigned : Staff \cup {Nobody}]
  \cup [ask : {"memory"}, by : Staff, scope : {"agent"}, owner : Staff, assigned : {Nobody}]
  \cup [ask : {"memory"}, by : Staff, scope : {"org", "user"}, owner : {"other"}, assigned : {Nobody}]

\* _is_task_participant
Participates(agent, assigned) ==
  \/ assigned = agent
  \/ assigned \in Chart[agent].children
  \/ assigned # Nobody /\ assigned = Chart[agent].parent

CanRead(q) ==
  CASE q.scope = "task"    -> q.owner = "mine" /\ Participates(q.by, q.assigned)
    [] q.scope = "project" -> q.owner = "mine"
    [] q.scope = "agent"   -> q.by = q.owner \/ q.owner \in Chart[q.by].children
    [] q.scope = "org"     -> TRUE
    [] q.scope = "user"    -> FALSE

OrgWriteMinAutonomy == 4

CanWrite(q) ==
  CASE q.scope = "task"    -> /\ q.owner = "mine"
                              /\ q.assigned = q.by \/ q.assigned \in Chart[q.by].children
    [] q.scope = "project" -> q.owner = "mine"
    [] q.scope = "agent"   -> q.by = q.owner
    [] q.scope = "org"     -> Identity[q.by].autonomy >= OrgWriteMinAutonomy
    [] q.scope = "user"    -> FALSE

\* scoped_recall and scoped_save: what is not allowed looks like nothing.
Access(q) == {[read |-> CanRead(q), write |-> CanWrite(q)]}

-----------------------------------------------------------------------------
\* A verdict that is not there yet, and one that is.
Open == <<>>

AuthorityInit ==
  /\ \/ question \in DelegateAuto
     \/ question \in DelegateExplicit
     \/ question \in MemoryAccess
  /\ verdict = Open

AuthorityNext ==
  /\ verdict = Open
  /\ \E v \in IF question.ask = "memory" THEN Access(question) ELSE Delegate(question) :
       verdict' = <<v>>
  /\ UNCHANGED question

-----------------------------------------------------------------------------
(* Properties *)

\* The agent that "auto" picks holds every permission the task names, and so
\* does the one who asked; and an agent that is offline or has failed is
\* picked only when nobody else could be: no sum of expertise, record and
\* caution outweighs being away.
AutoPicksWell ==
  question.ask = "auto" /\ verdict # Open /\ verdict[1] \in Staff =>
    /\ {Protected[n] : n \in question.names} \subseteq
         Chart[question.by].allowed \cap Chart[verdict[1]].allowed
    /\ verdict[1] \in question.away => Eligible(question) \subseteq question.away

\* Whoever may write a memory may read it; and what an agent keeps for
\* itself is read by it and by its superior, whichever way the chart is
\* looked at (scoping looks at children, this at parents).
MemoryStaysInLine ==
  question.ask = "memory" /\ verdict # Open =>
    /\ verdict[1].write => verdict[1].read
    /\ question.scope = "agent" =>
         (verdict[1].read <=> question.by \in {question.owner, Chart[question.owner].parent})

\* Both of them: what the chart allows is what is allowed.
ChartIsHonoured == AutoPicksWell /\ MemoryStaysInLine
=============================================================================
