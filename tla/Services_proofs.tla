---------------------------- MODULE Services_proofs ----------------------------
(***************************************************************************)
(* TLAPS proofs about what is decided for a run, for every value of the    *)
(* constants: plans, delegation, routing and failover, permissions and     *)
(* patches; and then of all the services as one system, where a behaviour  *)
(* picks one.                                                              *)
(***************************************************************************)
EXTENDS MCServices, Records_proofs, Work_proofs

-----------------------------------------------------------------------------
(* The stages of a goal (planning.py, _director_filter). What is picked from a*)
(* list keeps its order and its words, and nothing else comes in.          *)

PlanSpec == PlanInit /\ [][PlanNext]_planVars

StageWords == {"community", "deploy", "design", "implement-backend", "implement-frontend", "report",
    "requirements", "research", "review", "security", "testing", "understanding"}
Words == STRING \cup StageWords

Names(p) == {p[i] : i \in 1 .. Len(p)}

LEMMA WithoutFacts ==
  ASSUME NEW s \in Seq(Words), NEW S
  PROVE  /\ Without(s, S) \in Seq(Words)
         /\ Names(Without(s, S)) = Names(s) \ S
         /\ Once(s) => Once(Without(s, S))
         /\ Len(s) # 0 /\ s[1] \notin S => Without(s, S)[1] = s[1]
         /\ Len(s) # 0 /\ s[Len(s)] \notin S => Without(s, S)[Len(Without(s, S))] = s[Len(s)]
<1> DEFINE places == {i \in 1 .. Len(s) : s[i] \notin S}
           p == Without(s, S)
<1>1. places \in SUBSET (1 .. Len(s)) /\ p = Picked(s, places) /\ Len(s) \in Nat
  BY DEF Without
<1>2. PickedUpTo(p, s, places, Len(s), Words)
  BY <1>1, PickedFacts
<1>3. \A j \in places : j <= Len(s) /\ j \in 1 .. Len(s) /\ s[j] \notin S
  BY <1>1
<1>4. \A j \in 1 .. Len(s) : s[j] \notin S => j \in places
  OBVIOUS
<1> HIDE DEF p, places
<1>5. \A x \in Names(p) : x \in Names(s) \ S
  <2>1. \A i \in 1 .. Len(p) : \E j \in places : p[i] = s[j]
    BY <1>2 DEF PickedUpTo
  <2> QED BY <1>3, <2>1 DEF Names
<1>6. \A x \in Names(s) \ S : x \in Names(p)
  BY <1>2, <1>3, <1>4 DEF PickedUpTo, Names
<1>7. Once(s) => Once(p)
  BY <1>2, <1>3 DEF PickedUpTo, Once
<1>8. Len(s) # 0 => 1 \in 1 .. Len(s) /\ Len(s) \in 1 .. Len(s)
  BY <1>1
<1>9. p \in Seq(Words)
  BY <1>2 DEF PickedUpTo
<1>10. Len(s) # 0 /\ s[1] \notin S => p[1] = s[1]
  BY <1>2, <1>4, <1>8 DEF PickedUpTo
<1>11. Len(s) # 0 /\ s[Len(s)] \notin S => p[Len(p)] = s[Len(s)]
  BY <1>2, <1>4, <1>8 DEF PickedUpTo
<1> QED BY <1>5, <1>6, <1>7, <1>9, <1>10, <1>11 DEF p

LEMMA DistinctFacts ==
  ASSUME NEW s \in Seq(Words), Len(s) # 0
  PROVE  /\ Distinct(s) \in Seq(Words) /\ Names(Distinct(s)) = Names(s)
         /\ Once(Distinct(s)) /\ Distinct(s)[1] = s[1]
<1> DEFINE places == {i \in 1 .. Len(s) : \A j \in 1 .. i - 1 : s[j] # s[i]}
           p == Distinct(s)
<1>1. places \in SUBSET (1 .. Len(s)) /\ p = Picked(s, places) /\ Len(s) \in Nat
  BY DEF Distinct
<1>2. PickedUpTo(p, s, places, Len(s), Words)
  BY <1>1, PickedFacts
<1>3. \A j \in places : j <= Len(s) /\ j \in 1 .. Len(s) /\ \A k \in 1 .. j - 1 : s[k] # s[j]
  BY <1>1
<1>4. 1 \in places
  BY <1>1
<1>5. \A j \in 1 .. Len(s) : \E k \in places : s[k] = s[j]
  <2> TAKE j \in 1 .. Len(s)
  <2> DEFINE E == {k \in 1 .. Len(s) : s[k] = s[j]}
  <2>1. E \in SUBSET Nat /\ j \in E
    OBVIOUS
  <2>2. PICK k \in E : \A m \in E : k <= m
    BY <2>1, LeastExists
  <2>3. \A m \in 1 .. k - 1 : s[m] # s[k]
    <3> TAKE m \in 1 .. k - 1
    <3>1. m \in 1 .. Len(s) /\ ~(k <= m)
      BY <1>1, <2>2
    <3> QED BY <2>2, <3>1
  <2> QED BY <2>2, <2>3
<1>6. \A i, j \in places : s[i] = s[j] => i = j
  <2> SUFFICES ASSUME NEW i \in places, NEW j \in places, s[i] = s[j], i # j PROVE FALSE
    OBVIOUS
  <2>1. i \in Nat /\ j \in Nat /\ i >= 1 /\ j >= 1
    BY <1>3
  <2>2. CASE i < j
    BY <1>3, <2>1, <2>2
  <2>3. CASE j < i
    BY <1>3, <2>1, <2>3
  <2> QED BY <2>1, <2>2, <2>3
<1> HIDE DEF p, places
<1>7. \A x \in Names(p) : x \in Names(s)
  BY <1>2, <1>3 DEF PickedUpTo, Names
<1>8. ASSUME NEW x \in Names(s) PROVE x \in Names(p)
  <2>1. PICK j \in 1 .. Len(s) : s[j] = x
    BY DEF Names
  <2>2. PICK k \in places : s[k] = x
    BY <1>5, <2>1
  <2>3. \E i \in 1 .. Len(p) : p[i] = x
    BY <1>2, <1>3, <2>2 DEF PickedUpTo
  <2> QED BY <2>3 DEF Names
<1>9. p \in Seq(Words) /\ Once(p)
  BY <1>2, <1>6 DEF PickedUpTo
<1>10. p[1] = s[1]
  BY <1>2, <1>4 DEF PickedUpTo
<1> QED BY <1>7, <1>8, <1>9, <1>10 DEF p


Listed(t) == t \in Seq(Words) /\ "report" \notin Names(t) /\ "understanding" \notin Names(t)
LEMMA TopicsListed == \A k \in DOMAIN KeywordStages : Listed(KeywordStages[k].stages)
<1>1. Listed(KeywordStages[1].stages)
  <2>1. KeywordStages[1].stages =
          <<"research", "community", "requirements", "design", "implement-frontend",
            "implement-backend", "testing", "security", "review", "deploy">>
    BY DEF KeywordStages
  <2> QED BY <2>1 DEF Listed, Names, Words, StageWords
<1>2. Listed(KeywordStages[2].stages)
  <2>1. KeywordStages[2].stages =
          <<"design", "implement-frontend", "testing", "review">>
    BY DEF KeywordStages
  <2> QED BY <2>1 DEF Listed, Names, Words, StageWords
<1>3. Listed(KeywordStages[3].stages)
  <2>1. KeywordStages[3].stages =
          <<"implement-backend", "testing", "review">>
    BY DEF KeywordStages
  <2> QED BY <2>1 DEF Listed, Names, Words, StageWords
<1>4. Listed(KeywordStages[4].stages)
  <2>1. KeywordStages[4].stages =
          <<"research", "community">>
    BY DEF KeywordStages
  <2> QED BY <2>1 DEF Listed, Names, Words, StageWords
<1>5. Listed(KeywordStages[5].stages)
  <2>1. KeywordStages[5].stages =
          <<"security", "review">>
    BY DEF KeywordStages
  <2> QED BY <2>1 DEF Listed, Names, Words, StageWords
<1>6. Listed(KeywordStages[6].stages)
  <2>1. KeywordStages[6].stages =
          <<"implement-frontend", "implement-backend", "testing">>
    BY DEF KeywordStages
  <2> QED BY <2>1 DEF Listed, Names, Words, StageWords
<1>7. Listed(KeywordStages[7].stages)
  <2>1. KeywordStages[7].stages =
          <<"design", "implement-frontend", "review">>
    BY DEF KeywordStages
  <2> QED BY <2>1 DEF Listed, Names, Words, StageWords
<1>8. DOMAIN KeywordStages = 1 .. 7
  BY DEF KeywordStages
<1> QED BY <1>1, <1>2, <1>3, <1>4, <1>5, <1>6, <1>7, <1>8

LEMMA TopicStages == ASSUME NEW T PROVE Listed(StagesFor(T))
<1> DEFINE hits == {k \in DOMAIN KeywordStages : KeywordStages[k].topic \in T}
<1>1. CASE hits = {}
  <2>1. StagesFor(T) = <<"requirements", "implement-frontend", "testing", "review">>
    BY <1>1, Zenon DEF StagesFor
  <2> QED BY <2>1 DEF Listed, Names, Words, StageWords
<1>2. CASE hits # {}
  <2>1. DOMAIN KeywordStages = 1 .. 7
    BY DEF KeywordStages
  <2>2. \E k \in hits : \A j \in hits : k <= j
    <3>1. hits \in SUBSET Nat
      BY <2>1
    <3> HIDE DEF hits
    <3> QED BY <1>2, <3>1, LeastExists
  <2> DEFINE first == CHOOSE k \in hits : \A j \in hits : k <= j
  <2>3. first \in hits
    <3> HIDE DEF hits
    <3> QED BY <2>2
  <2>4. StagesFor(T) = KeywordStages[first].stages
    BY <1>2, Zenon DEF StagesFor
  <2>5. first \in DOMAIN KeywordStages
    BY <2>3
  <2> HIDE DEF first
  <2> QED BY <2>4, <2>5, TopicsListed
<1> QED BY <1>1, <1>2

LEMMA TeamsLeaveFrame == \A b \in DOMAIN Teams : Teams[b] \cap Frame = {}
BY DEF Teams, Frame

Framed(p, marker) ==
  /\ p \in Seq(Words) /\ Len(p) # 0 /\ Once(p)
  /\ p[1] = "understanding" /\ "report" \in Names(p)
  /\ marker = <<>> => p[Len(p)] = "report"

LEMMA AllListed == AvailableStages \in Seq(Words)
BY DEF AvailableStages, Words, StageWords

\* The first plan of a goal, before the directors.
LEMMA FirstPlan ==
  ASSUME NEW g, g.marker \in Seq(Words)
  PROVE  Framed(PlanStages(g), g.marker)
<1> DEFINE middle == IF g.marker # <<>> THEN g.marker
                     ELSE IF g.full THEN Without(AvailableStages, Frame) ELSE StagesFor(g.topics)
           named == <<"understanding">> \o middle
           stages == Distinct(named)
           plan1 == IF Contains(stages, "report") THEN stages ELSE Append(stages, "report")
<1>1. middle \in Seq(Words) /\ (g.marker = <<>> => "report" \notin Names(middle))
  <2>1. Without(AvailableStages, Frame) \in Seq(Words) /\ "report" \notin Names(Without(AvailableStages, Frame))
    BY AllListed, WithoutFacts DEF Frame
  <2>2. StagesFor(g.topics) \in Seq(Words) /\ "report" \notin Names(StagesFor(g.topics))
    BY TopicStages DEF Listed
  <2> QED BY <2>1, <2>2
<1>2. PlanStages(g) = plan1
  BY Zenon DEF PlanStages
<1> HIDE DEF middle
<1>3. <<"understanding">> \in Seq(Words) /\ Len(<<"understanding">>) = 1 /\ <<"understanding">>[1] = "understanding"
  BY DEF Words, StageWords
<1>4. named \in Seq(Words) /\ Len(named) = Len(middle) + 1 /\ Len(named) # 0 /\ named[1] = "understanding"
      /\ \A i \in 2 .. Len(named) : named[i] = middle[i - 1]
  BY <1>1, <1>3
<1>5. Names(named) = Names(middle) \cup {"understanding"}
  <2>1. ASSUME NEW i \in 1 .. Len(named) PROVE named[i] \in Names(middle) \cup {"understanding"}
    <3>1. CASE i = 1
      BY <1>4, <3>1
    <3>2. CASE i # 1
      <4>1. i \in 2 .. Len(named) /\ i - 1 \in 1 .. Len(middle)
        BY <1>1, <1>4, <3>2
      <4> QED BY <1>4, <4>1 DEF Names
    <3> QED BY <3>1, <3>2
  <2>2. ASSUME NEW i \in 1 .. Len(middle) PROVE middle[i] \in Names(named)
    <3>1. i + 1 \in 2 .. Len(named) /\ (i + 1) - 1 = i /\ i + 1 \in 1 .. Len(named)
      BY <1>1, <1>4
    <3> HIDE DEF named
    <3> QED BY <1>4, <3>1 DEF Names
  <2>3. 1 \in 1 .. Len(named)
    BY <1>1, <1>4
  <2>4. "understanding" \in Names(named)
    <3> HIDE DEF named
    <3> QED BY <1>4, <2>3 DEF Names
  <2> QED BY <2>1, <2>2, <2>4 DEF Names
<1> HIDE DEF named
<1>6. /\ stages \in Seq(Words) /\ Names(stages) = Names(named) /\ Once(stages) /\ stages[1] = "understanding"
  BY <1>4, DistinctFacts
<1> HIDE DEF stages
<1>7. Len(stages) # 0 /\ Len(stages) \in Nat
  <2>1. Len(stages) \in Nat
    BY <1>6
  <2>2. PICK i \in 1 .. Len(stages) : stages[i] = "understanding"
    BY <1>5, <1>6 DEF Names
  <2> QED BY <2>1, <2>2
<1>8. Contains(stages, "report") <=> "report" \in Names(stages)
  BY DEF Contains, Names
<1>9. CASE "report" \in Names(stages)
  <2>1. "report" \in Names(middle)
    BY <1>5, <1>6, <1>9
  <2>2. g.marker # <<>>
    BY <1>1, <2>1
  <2> QED BY <1>2, <1>6, <1>7, <1>8, <1>9, <2>2 DEF Framed
<1>10. CASE "report" \notin Names(stages)
  <2> DEFINE p == Append(stages, "report")
  <2>1. "report" \in Words
    BY DEF Words, StageWords
  <2>2. p \in Seq(Words) /\ Len(p) = Len(stages) + 1 /\ p[Len(stages) + 1] = "report"
        /\ \A i \in 1 .. Len(stages) : p[i] = stages[i]
    BY <1>6, <2>1
  <2>3. PlanStages(g) = p
    BY <1>2, <1>8, <1>10
  <2> HIDE DEF p
  <2>4. \A i \in 1 .. Len(p) : i \in 1 .. Len(stages) \/ i = Len(stages) + 1
    BY <1>7, <2>2
  <2>5. \A i \in 1 .. Len(stages) : stages[i] # "report"
    BY <1>10 DEF Names
  <2>6. Once(p)
    BY <1>6, <2>2, <2>4, <2>5 DEF Once
  <2>7. p[1] = "understanding" /\ Len(p) # 0 /\ Len(p) \in 1 .. Len(p) /\ p[Len(p)] = "report"
    BY <1>6, <1>7, <2>2
  <2>8. "report" \in Names(p)
    BY <2>7 DEF Names
  <2> QED BY <2>2, <2>3, <2>6, <2>7, <2>8 DEF Framed
<1> QED BY <1>9, <1>10

\* A director who drops stages of the own team leaves the frame.
LEMMA FilteredPlan ==
  ASSUME NEW marker, NEW p, Framed(p, marker), NEW S, "understanding" \notin S, "report" \notin S
  PROVE  Framed(Without(p, S), marker)
<1> DEFINE q == Without(p, S)
<1>1. /\ q \in Seq(Words) /\ Names(q) = Names(p) \ S /\ Once(q) /\ q[1] = "understanding"
      /\ marker = <<>> => q[Len(q)] = "report"
  BY WithoutFacts DEF Framed
<1> HIDE DEF q
<1>2. "report" \in Names(q)
  BY <1>1 DEF Framed
<1>3. Len(q) # 0
  <2>1. PICK i \in 1 .. Len(q) : q[i] = "report"
    BY <1>2 DEF Names
  <2> QED BY <1>1, <2>1
<1> QED BY <1>1, <1>2, <1>3 DEF Framed, q

PlanInv ==
  /\ goal.marker \in Seq(Words) /\ planPc \in {"goal", "directors", "built", "unknown"}
  /\ toAsk \subseteq DOMAIN Teams
  /\ planPc # "goal" => Framed(plan, goal.marker)

LEMMA PlanInitInv == PlanInit => PlanInv
<1>1. ASSUME NEW m \in Markers PROVE m \in Seq(Words)
  <2>1. m \in Seq(STRING)
    BY PlannerAssumption
  <2>2. Len(m) \in Nat /\ m \in [1 .. Len(m) -> STRING]
    BY <2>1, LenProperties
  <2>3. m \in [1 .. Len(m) -> Words]
    BY <2>2 DEF Words
  <2> QED BY <2>2, <2>3, SeqDef
<1>2. <<>> \in Seq(Words)
  BY EmptySeq
<1> QED BY <1>1, <1>2 DEF PlanInit, PlanInv

LEMMA PlanStepInv == PlanInv /\ [PlanNext]_planVars => PlanInv'
<1> SUFFICES ASSUME PlanInv, PlanNext \/ UNCHANGED planVars PROVE PlanInv'
  OBVIOUS
<1>1. CASE MakePlan
  <2>1. Framed(plan', goal.marker) /\ goal' = goal
    BY <1>1, FirstPlan DEF MakePlan, PlanInv
  <2>2. planPc' \in {"built", "unknown", "directors"} /\ toAsk' \subseteq DOMAIN Teams
    BY <1>1 DEF MakePlan, PlanInv
  <2> QED BY <2>1, <2>2 DEF PlanInv
<1>2. CASE BuildPlan
  BY <1>2 DEF BuildPlan, PlanInv
<1>3. ASSUME NEW b \in DOMAIN Teams, AskDirector(b) PROVE PlanInv'
  <2>1. PICK kept : plan' = Without(plan, Team(b) \ kept)
    BY <1>3 DEF AskDirector
  <2>2. "understanding" \notin Team(b) \ kept /\ "report" \notin Team(b) \ kept
    BY TeamsLeaveFrame DEF Team, Frame
  <2>3. Framed(plan, goal.marker)
    BY <1>3 DEF AskDirector, PlanInv
  <2>4. Framed(plan', goal.marker)
    BY <2>1, <2>2, <2>3, FilteredPlan
  <2> QED BY <1>3, <2>4 DEF AskDirector, PlanInv
<1>4. CASE UNCHANGED planVars
  BY <1>4 DEF planVars, PlanInv
<1> QED BY <1>1, <1>2, <1>3, <1>4 DEF PlanNext

\* A plan that is built is framed, whatever list of stages the goal names and
\* whatever the directors drop: the understanding comes first, a report is there,
\* and last unless the goal said when, and no stage is there twice.
THEOREM PlansStayFramed == PlanSpec => []PlanIsFramed
<1>1. PlanInv => PlanIsFramed
  <2> SUFFICES ASSUME PlanInv, planPc = "built" PROVE PlanIsFramed
    BY DEF PlanIsFramed
  <2>1. Framed(plan, goal.marker)
    BY DEF PlanInv
  <2>2. plan[1] = "understanding" /\ Contains(plan, "report") /\ (goal.marker = <<>> => Last(plan) = "report")
    BY <2>1 DEF Framed, Contains, Names, Last
  <2>3. DOMAIN plan = 1 .. Len(plan)
    BY <2>1 DEF Framed
  <2>4. IsInjective(plan)
    BY <2>1, <2>3 DEF Framed, Once, IsInjective
  <2> QED BY <2>2, <2>4 DEF PlanIsFramed
<1> QED BY <1>1, PlanInitInv, PlanStepInv, PTL DEF PlanSpec

-----------------------------------------------------------------------------
(* What the chart allows (orchestration/delegation.py, memory/scoping.py). *)

AuthoritySpec == AuthorityInit /\ [][AuthorityNext]_authorityVars

Answers(q) == IF q.ask = "memory" THEN Access(q) ELSE Delegate(q)

AnswerOK ==
  /\ question \in DelegateAuto \cup DelegateExplicit \cup MemoryAccess
  /\ verdict = Open \/ \E v \in Answers(question) : verdict = <<v>>

LEMMA AnswerInit == AuthorityInit => AnswerOK
BY DEF AuthorityInit, AnswerOK

LEMMA AnswerStep == AnswerOK /\ [AuthorityNext]_authorityVars => AnswerOK'
<1> SUFFICES ASSUME AnswerOK, AuthorityNext \/ UNCHANGED authorityVars
             PROVE  AnswerOK'
  OBVIOUS
<1>1. question' = question
  BY DEF AuthorityNext, authorityVars
<1>3. CASE AuthorityNext
  <2>1. PICK v \in Answers(question) : verdict' = <<v>>
    BY <1>3 DEF AuthorityNext, Answers
  <2> QED BY <1>1, <2>1 DEF AnswerOK
<1>4. CASE UNCHANGED authorityVars
  BY <1>1, <1>4 DEF AnswerOK, authorityVars
<1> QED BY <1>3, <1>4

LEMMA AwayOutweighs ==
  ASSUME NEW q \in DelegateAuto, NEW c, NEW d, c \in q.away, d \notin q.away
  PROVE  Score(q, c) < Score(q, d)
<1> DEFINE Expert(a) == IF Identity[a].archetype = q.subject THEN Capped(3 * q.words, 9) ELSE 0
<1>1. q.words \in {0, 2}
  BY DEF DelegateAuto
<1>2. \A a : Expert(a) \in 0 .. 9
  BY <1>1 DEF Capped
<1> HIDE DEF Expert
<1>3. \A a : Score(q, a) =
        (IF a \in q.skilled THEN 6 ELSE 0) + Expert(a)
        + (IF a \in q.strong THEN 4 ELSE IF a \in q.weak THEN -4 ELSE 0)
        + (IF a \in q.away THEN -200 ELSE IF a \in q.busy THEN -3 ELSE 0)
        + (IF ~(q.risky \/ "deploy" \in q.names) THEN 0
           ELSE IF Identity[a].tolerance = "minimal" THEN 3
           ELSE IF Identity[a].tolerance = "high" THEN -2 ELSE 0)
  BY DEF Score, Expert
<1> QED BY <1>2, <1>3

LEMMA AutoWell == AnswerOK => AutoPicksWell
<1> SUFFICES ASSUME AnswerOK, question.ask = "auto", verdict # Open, verdict[1] \in Staff
             PROVE  /\ {Protected[n] : n \in question.names} \subseteq
                         Chart[question.by].allowed \cap Chart[verdict[1]].allowed
                    /\ verdict[1] \in question.away => Eligible(question) \subseteq question.away
  BY DEF AutoPicksWell
<1>1. question \in DelegateAuto
  BY DEF AnswerOK, DelegateExplicit, MemoryAccess
<1>2. PICK v \in Delegate(question) : verdict = <<v>>
  BY DEF AnswerOK, Answers
<1>3. v \in Best(question)
  BY <1>2, ChartAssumption DEF Delegate, ChartAssumption
<1>4. \A n \in question.names : Allows(question.by, Protected[n]) /\ Allows(v, Protected[n])
  BY <1>3 DEF Best, Eligible, Contained
<1>5. ASSUME v \in question.away, NEW d \in Eligible(question), d \notin question.away
      PROVE  FALSE
  <2>1. Score(question, d) <= Score(question, v)
    BY <1>3, <1>5 DEF Best
  <2>2. Score(question, v) < Score(question, d)
    BY <1>1, <1>5, AwayOutweighs
  <2>3. Score(question, v) \in Int /\ Score(question, d) \in Int
    <3> DEFINE Expert(a) == IF Identity[a].archetype = question.subject THEN Capped(3 * question.words, 9) ELSE 0
    <3>1. \A a : Expert(a) \in Int
      BY <1>1 DEF DelegateAuto, Capped
    <3> QED BY <3>1 DEF Score
  <2> QED BY <2>1, <2>2, <2>3
<1> QED BY <1>2, <1>4, <1>5 DEF Allows

LEMMA ReadOrWrite ==
  ASSUME NEW q \in MemoryAccess
  PROVE  /\ CanRead(q) \in BOOLEAN /\ CanWrite(q) \in BOOLEAN
         /\ CanWrite(q) => CanRead(q)
         /\ q.scope = "agent" => (CanRead(q) <=> q.by \in {q.owner, Chart[q.owner].parent})
<1>1. CASE q \in [ask : {"memory"}, by : Staff, scope : {"task", "project"}, owner : {"mine", "other"},
                  assigned : Staff \cup {Nobody}]
  BY <1>1 DEF CanRead, CanWrite, Participates
<1>2. CASE q \in [ask : {"memory"}, by : Staff, scope : {"agent"}, owner : Staff, assigned : {Nobody}]
  BY <1>2, ChartAssumption DEF CanRead, CanWrite, ChartAssumption
<1>3. CASE q \in [ask : {"memory"}, by : Staff, scope : {"org", "user"}, owner : {"other"}, assigned : {Nobody}]
  <2>1. (Identity[q.by].autonomy >= OrgWriteMinAutonomy) \in BOOLEAN
    OBVIOUS
  <2> QED BY <1>3, <2>1 DEF CanRead, CanWrite
<1> QED BY <1>1, <1>2, <1>3 DEF MemoryAccess

LEMMA InLine == AnswerOK => MemoryStaysInLine
<1> SUFFICES ASSUME AnswerOK, question.ask = "memory", verdict # Open
             PROVE  /\ verdict[1].write => verdict[1].read
                    /\ question.scope = "agent" =>
                         (verdict[1].read <=> question.by \in {question.owner, Chart[question.owner].parent})
  BY DEF MemoryStaysInLine
<1>1. question \in MemoryAccess
  BY DEF AnswerOK, DelegateExplicit, DelegateAuto
<1>2. verdict[1].read = CanRead(question) /\ verdict[1].write = CanWrite(question)
  BY DEF AnswerOK, Answers, Access
<1> QED BY <1>1, <1>2, ReadOrWrite

\* What the chart allows is what is allowed: the agent that "auto" picks holds
\* every permission its task names, as does the one who asks; being away outweighs
\* all expertise, record and caution; who may write a memory may read it, and
\* children and parents tell the same story.
THEOREM ChartStaysHonoured == AuthoritySpec => []ChartIsHonoured
<1>1. AuthorityInit => AnswerOK
  BY AnswerInit
<1>2. AnswerOK /\ [AuthorityNext]_authorityVars => AnswerOK'
  BY AnswerStep
<1>3. AnswerOK => ChartIsHonoured
  BY AutoWell, InLine DEF ChartIsHonoured
<1> QED BY <1>1, <1>2, <1>3, PTL DEF AuthoritySpec

-----------------------------------------------------------------------------
(* A diff and its file (tools/builtin.py, file.patch). Where no hunk shifts*)
(* the next, the loop of the code and the meaning of the diff have come, hunk*)
(* by hunk and line by line, to the same place with the same lines.        *)

PatchSpec == PatchInit /\ [][PatchNext]_patchVars

\* The five loops of the module, each by what it does to the value before.
LoopStep(loop, n, x) ==
  CASE loop[1] = "count" -> IF loop[2][n][1] = "add" THEN x ELSE x + 1
    [] loop[1] = "mean hunk" -> AfterOp(loop[2], x, loop[3].ops[n])
    [] loop[1] = "mean" -> AfterHunk(loop[2], x, loop[3][n])
    [] loop[1] = "apply hunk" -> ApplyOp(loop[2], loop[3], x, n)
    [] loop[1] = "apply" -> ApplyHunk(loop[2], loop[3][n], Start(loop[3], n), x)

IsLoop(f, loop, first, N) == f = [n \in 0 .. N |-> IF n = 0 THEN first ELSE LoopStep(loop, n, f[n - 1])]

LEMMA LoopExists == ASSUME NEW loop, NEW first, NEW N \in Nat PROVE \E f : IsLoop(f, loop, first, N)
<1> DEFINE S == {n \in Nat : \E f : IsLoop(f, loop, first, n)}
<1>1. 0 \in S
  <2> DEFINE f == [n \in 0 .. 0 |-> first]
  <2>1. IsLoop(f, loop, first, 0)
    BY DEF IsLoop
  <2> QED BY <2>1
<1>2. ASSUME NEW n \in Nat, n \in S PROVE n + 1 \in S
  <2>1. PICK f : IsLoop(f, loop, first, n)
    BY <1>2
  <2> DEFINE h == [k \in 0 .. n + 1 |-> IF k = n + 1 THEN LoopStep(loop, k, f[n]) ELSE f[k]]
  <2>2. ASSUME NEW k \in 0 .. n + 1
        PROVE  h[k] = IF k = 0 THEN first ELSE LoopStep(loop, k, h[k - 1])
    <3>1. CASE k = n + 1
      <4>1. k # 0 /\ k - 1 = n /\ n \in 0 .. n + 1 /\ n # n + 1
        BY <3>1
      <4> QED BY <3>1, <4>1
    <3>2. CASE k # n + 1 /\ k # 0
      <4>1. k \in 0 .. n /\ k - 1 \in 0 .. n + 1 /\ k - 1 # n + 1
        BY <3>2
      <4>2. h[k] = f[k] /\ h[k - 1] = f[k - 1]
        BY <3>2, <4>1
      <4>3. f[k] = LoopStep(loop, k, f[k - 1])
        BY <2>1, <3>2, <4>1 DEF IsLoop
      <4> QED BY <3>2, <4>2, <4>3
    <3>3. CASE k # n + 1 /\ k = 0
      <4>1. k \in 0 .. n
        BY <3>3
      <4>2. f[k] = first
        BY <2>1, <3>3, <4>1 DEF IsLoop
      <4> QED BY <3>3, <4>2
    <3> QED BY <3>1, <3>2, <3>3
  <2>3. IsLoop(h, loop, first, n + 1)
    <3> HIDE DEF h
    <3>1. h = [k \in 0 .. n + 1 |-> h[k]]
      BY DEF h
    <3> QED BY <2>2, <3>1 DEF IsLoop
  <2> QED BY <2>3
<1> HIDE DEF S
<1>3. S = Nat
  <2>1. S \in SUBSET Nat
    BY DEF S
  <2> QED BY <1>1, <1>2, <2>1, SetInduction
<1> QED BY <1>3 DEF S

Counts(f, ops) ==
  f = [n \in 0 .. Len(ops) |-> IF n = 0 THEN 0 ELSE IF ops[n][1] = "add" THEN f[n - 1] ELSE f[n - 1] + 1]

LEMMA OldUpToIs ==
  ASSUME NEW ops, Len(ops) \in Nat
  PROVE  \E f : Counts(f, ops) /\ OldUpTo(ops) = f
<1> DEFINE g == CHOOSE f : Counts(f, ops)
<1>1. \E f : Counts(f, ops)
  <2> DEFINE loop == <<"count", ops>>
  <2>1. PICK f : IsLoop(f, loop, 0, Len(ops))
    BY LoopExists, Zenon
  <2>2. \A n, x : LoopStep(loop, n, x) = IF ops[n][1] = "add" THEN x ELSE x + 1
    BY DEF LoopStep
  <2> HIDE DEF loop
  <2>3. Counts(f, ops)
    <3>1. f = [n \in 0 .. Len(ops) |-> IF n = 0 THEN 0 ELSE IF ops[n][1] = "add" THEN f[n - 1] ELSE f[n - 1] + 1]
      BY <2>1, <2>2 DEF IsLoop
    <3> QED BY <3>1 DEF Counts
  <2> QED BY <2>3
<1>2. Counts(g, ops)
  BY <1>1, Zenon
<1>3. OldUpTo(ops) = g
  BY Zenon DEF OldUpTo, Counts
<1> QED BY <1>2, <1>3

MeansHunk(f, text, pos, hunk) ==
  f = [n \in 0 .. Len(hunk.ops) |->
        IF n = 0 THEN [old |-> hunk.before, out |-> pos.out \o SubSeq(text, pos.old + 1, hunk.before)]
        ELSE AfterOp(text, f[n - 1], hunk.ops[n])]

LEMMA AfterHunkIs ==
  ASSUME NEW text, NEW pos, NEW hunk, Len(hunk.ops) \in Nat
  PROVE  \E f : MeansHunk(f, text, pos, hunk) /\ AfterHunk(text, pos, hunk) = f[Len(hunk.ops)]
<1> DEFINE g == CHOOSE f : MeansHunk(f, text, pos, hunk)
<1>1. \E f : MeansHunk(f, text, pos, hunk)
  <2> DEFINE loop == <<"mean hunk", text, hunk>>
  <2>1. PICK f :
              IsLoop(f, loop, [old |-> hunk.before, out |-> pos.out \o SubSeq(text, pos.old + 1, hunk.before)],
                     Len(hunk.ops))
    BY LoopExists, Zenon
  <2>2. \A n, x : LoopStep(loop, n, x) = AfterOp(text, x, hunk.ops[n])
    BY DEF LoopStep
  <2> HIDE DEF loop
  <2>3. MeansHunk(f, text, pos, hunk)
    BY <2>1, <2>2, Zenon DEF IsLoop, MeansHunk
  <2> QED BY <2>3
<1>2. MeansHunk(g, text, pos, hunk)
  BY <1>1, Zenon
<1>3. AfterHunk(text, pos, hunk) = g[Len(hunk.ops)]
  BY Zenon DEF AfterHunk, MeansHunk
<1> QED BY <1>2, <1>3

MeansAll(f, text, hunks) ==
  f = [n \in 0 .. Len(hunks) |-> IF n = 0 THEN [old |-> 0, out |-> <<>>] ELSE AfterHunk(text, f[n - 1], hunks[n])]

LEMMA MeantIs ==
  ASSUME NEW text, NEW hunks, Len(hunks) \in Nat
  PROVE  \E f : /\ MeansAll(f, text, hunks)
                /\ Meant(text, hunks) = f[Len(hunks)].out \o SubSeq(text, f[Len(hunks)].old + 1, Len(text))
<1> DEFINE g == CHOOSE f : MeansAll(f, text, hunks)
<1>1. \E f : MeansAll(f, text, hunks)
  <2> DEFINE loop == <<"mean", text, hunks>>
  <2>1. PICK f : IsLoop(f, loop, [old |-> 0, out |-> <<>>], Len(hunks))
    BY LoopExists, Zenon
  <2>2. \A n, x : LoopStep(loop, n, x) = AfterHunk(text, x, hunks[n])
    BY DEF LoopStep
  <2> HIDE DEF loop
  <2>3. MeansAll(f, text, hunks)
    BY <2>1, <2>2, Zenon DEF IsLoop, MeansAll
  <2> QED BY <2>3
<1>2. MeansAll(g, text, hunks)
  BY <1>1, Zenon
<1>3. Meant(text, hunks) = g[Len(hunks)].out \o SubSeq(text, g[Len(hunks)].old + 1, Len(text))
  BY Zenon DEF Meant, MeansAll
<1> QED BY <1>2, <1>3

AppliesHunk(f, text, hunk, start, pos) ==
  f = [n \in 0 .. Len(hunk.ops) |->
        IF n = 0 THEN [pos EXCEPT !.old = start, !.out = @ \o SubSeq(text, pos.old + 1, start)]
        ELSE ApplyOp(text, hunk, f[n - 1], n)]

LEMMA ApplyHunkIs ==
  ASSUME NEW text, NEW hunk, NEW start, NEW pos, Len(hunk.ops) \in Nat
  PROVE  \E f : /\ AppliesHunk(f, text, hunk, start, pos)
                /\ (~(~pos.ok \/ start < pos.old \/ start > Len(text)) =>
                      ApplyHunk(text, hunk, start, pos) = f[Len(hunk.ops)])
<1> DEFINE g == CHOOSE f : AppliesHunk(f, text, hunk, start, pos)
<1>1. \E f : AppliesHunk(f, text, hunk, start, pos)
  <2> DEFINE loop == <<"apply hunk", text, hunk>>
  <2>1. PICK f :
              IsLoop(f, loop, [pos EXCEPT !.old = start, !.out = @ \o SubSeq(text, pos.old + 1, start)],
                     Len(hunk.ops))
    BY LoopExists, Zenon
  <2>2. \A n, x : LoopStep(loop, n, x) = ApplyOp(text, hunk, x, n)
    BY DEF LoopStep
  <2> HIDE DEF loop
  <2>3. AppliesHunk(f, text, hunk, start, pos)
    BY <2>1, <2>2, Zenon DEF IsLoop, AppliesHunk
  <2> QED BY <2>3
<1>2. AppliesHunk(g, text, hunk, start, pos)
  BY <1>1, Zenon
<1>3. (~(~pos.ok \/ start < pos.old \/ start > Len(text)) => ApplyHunk(text, hunk, start, pos) = g[Len(hunk.ops)])
  BY Zenon DEF ApplyHunk, AppliesHunk
<1> QED BY <1>2, <1>3

AppliesAll(f, text, hunks) ==
  f = [n \in 0 .. Len(hunks) |->
        IF n = 0 THEN [ok |-> TRUE, old |-> 0, out |-> <<>>]
        ELSE ApplyHunk(text, hunks[n], Start(hunks, n), f[n - 1])]

LEMMA ApplyIs ==
  ASSUME NEW text, NEW hunks, Len(hunks) \in Nat
  PROVE  \E f : /\ AppliesAll(f, text, hunks)
                /\ (f[Len(hunks)].ok =>
                      Apply(text, hunks) = f[Len(hunks)].out \o SubSeq(text, f[Len(hunks)].old + 1, Len(text)))
<1> DEFINE g == CHOOSE f : AppliesAll(f, text, hunks)
<1>1. \E f : AppliesAll(f, text, hunks)
  <2> DEFINE loop == <<"apply", text, hunks>>
  <2>1. PICK f : IsLoop(f, loop, [ok |-> TRUE, old |-> 0, out |-> <<>>], Len(hunks))
    BY LoopExists, Zenon
  <2>2. \A n, x : LoopStep(loop, n, x) = ApplyHunk(text, hunks[n], Start(hunks, n), x)
    BY DEF LoopStep
  <2> HIDE DEF loop
  <2>3. AppliesAll(f, text, hunks)
    BY <2>1, <2>2, Zenon DEF IsLoop, AppliesAll
  <2> QED BY <2>3
<1>2. AppliesAll(g, text, hunks)
  BY <1>1, Zenon
<1>3. (g[Len(hunks)].ok => Apply(text, hunks) = g[Len(hunks)].out \o SubSeq(text, g[Len(hunks)].old + 1, Len(text)))
  BY Zenon DEF Apply, AppliesAll
<1> QED BY <1>2, <1>3

\* The old lines are counted one at a time.
LEMMA OldCount ==
  ASSUME NEW ops, Len(ops) \in Nat
  PROVE  /\ OldUpTo(ops)[0] = 0
         /\ \A n \in 0 .. Len(ops) : OldUpTo(ops)[n] \in Nat /\ OldUpTo(ops)[n] <= OldUpTo(ops)[Len(ops)]
         /\ \A n \in 1 .. Len(ops) :
              OldUpTo(ops)[n] = IF ops[n][1] = "add" THEN OldUpTo(ops)[n - 1] ELSE OldUpTo(ops)[n - 1] + 1
<1>1. PICK f : Counts(f, ops) /\ OldUpTo(ops) = f
  BY OldUpToIs, Zenon
<1> DEFINE N == Len(ops)
<1>2. N \in Nat
  OBVIOUS
<1>3. /\ f[0] = 0
      /\ \A n \in 1 .. N : f[n] = IF ops[n][1] = "add" THEN f[n - 1] ELSE f[n - 1] + 1
  <2>1. 0 \in 0 .. N /\ \A n \in 1 .. N : n \in 0 .. N /\ n # 0
    BY <1>2
  <2> QED BY <1>1, <2>1 DEF Counts
<1> HIDE DEF N
<1>4. \A n \in 0 .. N : f[n] \in Nat
  <2> DEFINE S == {n \in Nat : n <= N => f[n] \in Nat}
  <2>1. 0 \in S
    BY <1>3
  <2>2. ASSUME NEW n \in Nat, n \in S PROVE n + 1 \in S
    <3> SUFFICES ASSUME n + 1 <= N PROVE f[n + 1] \in Nat
      OBVIOUS
    <3>1. n + 1 \in 1 .. N /\ (n + 1) - 1 = n /\ n <= N
      BY <1>2
    <3>2. f[n] \in Nat
      BY <2>2, <3>1
    <3>3. f[n + 1] = IF ops[n + 1][1] = "add" THEN f[n] ELSE f[n] + 1
      BY <1>3, <3>1
    <3> QED BY <3>2, <3>3
  <2> HIDE DEF S
  <2>3. S = Nat
    <3>1. S \in SUBSET Nat
      BY DEF S
    <3> QED BY <2>1, <2>2, <3>1, SetInduction
  <2> QED BY <1>2, <2>3 DEF S
<1>5. \A n \in 0 .. N : f[n] <= f[N]
  <2> DEFINE S == {d \in Nat : d <= N => f[N - d] <= f[N]}
  <2>1. 0 \in S
    BY <1>2, <1>4
  <2>2. ASSUME NEW d \in Nat, d \in S PROVE d + 1 \in S
    <3> SUFFICES ASSUME d + 1 <= N PROVE f[N - (d + 1)] <= f[N]
      OBVIOUS
    <3>1. N - d \in 1 .. N /\ (N - d) - 1 = N - (d + 1) /\ d <= N /\ N - (d + 1) \in 0 .. N /\ N - d \in 0 .. N /\ N \in 0 .. N
      BY <1>2
    <3>2. f[N - d] <= f[N]
      BY <2>2, <3>1
    <3>3. f[N - d] = IF ops[N - d][1] = "add" THEN f[N - (d + 1)] ELSE f[N - (d + 1)] + 1
      BY <1>3, <3>1
    <3>4. f[N - d] \in Nat /\ f[N - (d + 1)] \in Nat /\ f[N] \in Nat
      BY <1>4, <3>1
    <3> QED BY <3>2, <3>3, <3>4
  <2> HIDE DEF S
  <2>3. S = Nat
    <3>1. S \in SUBSET Nat
      BY DEF S
    <3> QED BY <2>1, <2>2, <3>1, SetInduction
  <2> SUFFICES ASSUME NEW n \in 0 .. N PROVE f[n] <= f[N]
    OBVIOUS
  <2>4. N - n \in Nat /\ N - n <= N /\ N - (N - n) = n
    BY <1>2
  <2>5. N - n \in S
    BY <2>3, <2>4
  <2> QED BY <2>4, <2>5 DEF S
<1> QED BY <1>1, <1>3, <1>4, <1>5 DEF N

AHunk(hunk) ==
  /\ hunk.before \in Nat /\ Len(hunk.ops) \in Nat
  /\ \A k \in 1 .. Len(hunk.ops) : hunk.ops[k][1] \in {"keep", "remove", "add"}

\* A hunk of the file whose turn it is, and what becomes of it.
Ready(text, hunk, pos, mt) ==
  /\ Len(text) \in Nat /\ AHunk(hunk) /\ hunk.before + OldLines(hunk) <= Len(text)
  /\ \E old, out : /\ old \in Nat /\ pos = [ok |-> TRUE, old |-> old, out |-> out]
                           /\ mt = [old |-> old, out |-> out] /\ old <= hunk.before

Agree(hunk, applied, meant) ==
  \E x : /\ applied = [ok |-> TRUE, old |-> hunk.before + OldLines(hunk), out |-> x]
         /\ meant = [old |-> hunk.before + OldLines(hunk), out |-> x]

\* A hunk that is put where it belongs does what it means.
LEMMA HunkApplies ==
  ASSUME NEW text, NEW hunk, NEW pos, NEW mt, Ready(text, hunk, pos, mt)
  PROVE  Agree(hunk, ApplyHunk(text, hunk, hunk.before, pos), AfterHunk(text, mt, hunk))
<1>a. Len(text) \in Nat /\ AHunk(hunk) /\ hunk.before + OldLines(hunk) <= Len(text)
  BY DEF Ready
<1>b. PICK old, out : /\ old \in Nat /\ pos = [ok |-> TRUE, old |-> old, out |-> out]
                             /\ mt = [old |-> old, out |-> out] /\ old <= hunk.before
  BY DEF Ready
<1> DEFINE ops == hunk.ops
           b == hunk.before
           N == Len(ops)
           C == OldUpTo(ops)
<1>1. /\ b \in Nat /\ N \in Nat /\ \A k \in 1 .. N : ops[k][1] \in {"keep", "remove", "add"}
  BY <1>a DEF AHunk
<1>2. /\ C[0] = 0
      /\ \A n \in 0 .. N : C[n] \in Nat /\ C[n] <= C[N]
      /\ \A n \in 1 .. N : C[n] = IF ops[n][1] = "add" THEN C[n - 1] ELSE C[n - 1] + 1
  BY <1>1, OldCount
<1>3. C[N] \in Nat /\ OldLines(hunk) = C[N] /\ b + C[N] <= Len(text)
  BY <1>1, <1>2, <1>a DEF OldLines
<1>4. PICK m : MeansHunk(m, text, mt, hunk) /\ AfterHunk(text, mt, hunk) = m[N]
  BY <1>1, AfterHunkIs, Zenon
<1>5. PICK a : /\ AppliesHunk(a, text, hunk, b, pos)
               /\ (~(~pos.ok \/ b < pos.old \/ b > Len(text)) => ApplyHunk(text, hunk, b, pos) = a[N])
  BY <1>1, ApplyHunkIs, Zenon
<1>f. old \in Nat /\ pos.ok /\ pos.old = old /\ pos.out = out /\ mt.old = old /\ mt.out = out /\ old <= b
  BY <1>b
<1>6. ApplyHunk(text, hunk, b, pos) = a[N]
  BY <1>1, <1>3, <1>5, <1>a, <1>f
<1> HIDE DEF C, b, N, ops
<1> DEFINE first == out \o SubSeq(text, old + 1, b)
           Same(n) == \E x : m[n] = [old |-> b + C[n], out |-> x] /\ a[n] = [ok |-> TRUE, old |-> b + C[n], out |-> x]
<1>7. m[0] = [old |-> b, out |-> first] /\ a[0] = [ok |-> TRUE, old |-> b, out |-> first]
  <2>1. 0 \in 0 .. N
    BY <1>1
  <2>2. m[0] = [old |-> b, out |-> mt.out \o SubSeq(text, mt.old + 1, b)]
    BY <1>4, <2>1 DEF MeansHunk, b, ops, N
  <2>3. a[0] = [pos EXCEPT !.old = b, !.out = @ \o SubSeq(text, pos.old + 1, b)]
    BY <1>5, <2>1 DEF AppliesHunk, b, ops, N
  <2> QED BY <1>b, <2>2, <2>3, <1>f
<1>8. \A n \in 1 .. N : m[n] = AfterOp(text, m[n - 1], ops[n]) /\ a[n] = ApplyOp(text, hunk, a[n - 1], n)
  <2>1. \A n \in 1 .. N : n \in 0 .. N /\ n # 0
    BY <1>1
  <2>2. \A n \in 1 .. N : m[n] = AfterOp(text, m[n - 1], ops[n])
    BY <1>4, <2>1 DEF MeansHunk, b, ops, N
  <2>3. \A n \in 1 .. N : a[n] = ApplyOp(text, hunk, a[n - 1], n)
    BY <1>5, <2>1 DEF AppliesHunk, b, ops, N
  <2> QED BY <2>2, <2>3
<1>9. Same(0)
  <2>1. b + C[0] = b
    BY <1>1, <1>2
  <2> QED BY <1>7, <2>1
<1>10. ASSUME NEW n \in 0 .. N - 1, Same(n) PROVE Same(n + 1)
  <2>1. n + 1 \in 1 .. N /\ (n + 1) - 1 = n /\ n \in 0 .. N /\ n + 1 \in 0 .. N
    BY <1>1
  <2>2. PICK x : m[n] = [old |-> b + C[n], out |-> x] /\ a[n] = [ok |-> TRUE, old |-> b + C[n], out |-> x]
    BY <1>10
  <2>3. m[n + 1] = AfterOp(text, m[n], ops[n + 1]) /\ a[n + 1] = ApplyOp(text, hunk, a[n], n + 1)
    BY <1>8, <2>1
  <2>4. /\ C[n] \in Nat /\ C[n + 1] \in Nat /\ C[n + 1] <= C[N]
        /\ C[n + 1] = IF ops[n + 1][1] = "add" THEN C[n] ELSE C[n] + 1
    BY <1>2, <2>1
  <2>5. ops[n + 1][1] \in {"keep", "remove", "add"}
    BY <1>1, <2>1
  <2>6. OldLineAt(text, hunk, n + 1) = text[b + C[n + 1]]
    BY DEF OldLineAt, C, b, ops
  <2> DEFINE M == m[n]
             A == a[n]
  <2>7. CASE ops[n + 1][1] = "add"
    <3>1. m[n + 1] = [M EXCEPT !.out = Append(@, ops[n + 1][2])]
      BY <2>3, <2>7 DEF AfterOp
    <3>2. a[n + 1] = [A EXCEPT !.out = Append(@, ops[n + 1][2])]
      BY <2>2, <2>3, <2>7 DEF ApplyOp, ops
    <3>3. C[n + 1] = C[n]
      BY <2>4, <2>7
    <3>4. M.out = x /\ A.out = x
      BY <2>2
    <3>5. PICK y : y = Append(x, ops[n + 1][2])
      OBVIOUS
    <3>6. m[n + 1] = [M EXCEPT !.out = y] /\ a[n + 1] = [A EXCEPT !.out = y]
      BY <3>1, <3>2, <3>4, <3>5, Zenon
    <3>7. m[n + 1] = [old |-> b + C[n + 1], out |-> y]
      BY <2>2, <3>3, <3>6
    <3>8. a[n + 1] = [ok |-> TRUE, old |-> b + C[n + 1], out |-> y]
      <4>1. A = [ok |-> TRUE, old |-> b + C[n + 1], out |-> x]
        BY <2>2, <3>3
      <4> HIDE DEF A, M
      <4> QED BY <3>6, <4>1
    <3> QED BY <3>7, <3>8
  <2>8. CASE ops[n + 1][1] # "add"
    <3>0. \A i, c, d, e, l \in Nat : d = c + 1 /\ d <= e /\ i + e <= l => (i + c) + 1 = i + d /\ ~(i + c >= l)
      OBVIOUS
    <3>a. C[n + 1] = C[n] + 1
      BY <2>4, <2>8
    <3>b. C[n] \in Nat /\ C[n + 1] \in Nat /\ C[N] \in Nat /\ b \in Nat /\ C[n + 1] <= C[N] /\ b + C[N] <= Len(text)
      BY <1>1, <1>3, <2>4
    <3>1. C[n + 1] = C[n] + 1 /\ (b + C[n]) + 1 = b + C[n + 1] /\ ~(b + C[n] >= Len(text))
      BY <1>a, <3>0, <3>a, <3>b
    <3>2. A.ok /\ A.old = b + C[n] /\ A.out = x /\ M.old = b + C[n] /\ M.out = x
      BY <2>2
    <3>3. text[A.old + 1] = OldLineAt(text, hunk, n + 1)
      BY <2>6, <3>1, <3>2
    <3>4. a[n + 1] = [A EXCEPT !.old = @ + 1,
                               !.out = IF ops[n + 1][1] = "keep" THEN Append(@, text[A.old + 1]) ELSE @]
      BY <2>3, <2>8, <3>1, <3>2, <3>3 DEF ApplyOp, ops
    <3>5. CASE ops[n + 1][1] = "keep"
      <4>1. m[n + 1] = [old |-> M.old + 1, out |-> Append(M.out, text[M.old + 1])]
        BY <2>3, <3>5 DEF AfterOp
      <4>2. a[n + 1] = [ok |-> TRUE, old |-> b + C[n + 1], out |-> Append(x, text[b + C[n + 1]])]
        <5>1. a[n + 1] = [A EXCEPT !.old = @ + 1, !.out = Append(@, text[A.old + 1])]
          BY <3>4, <3>5
        <5>2. A.old + 1 = b + C[n + 1] /\ A = [ok |-> TRUE, old |-> b + C[n], out |-> x]
          BY <2>2, <3>1
        <5> HIDE DEF A
        <5> QED BY <5>1, <5>2, <3>1
      <4> QED BY <3>1, <3>2, <4>1, <4>2
    <3>6. CASE ops[n + 1][1] = "remove"
      <4>1. m[n + 1] = [M EXCEPT !.old = @ + 1]
        BY <2>3, <3>6 DEF AfterOp
      <4>2. a[n + 1] = [ok |-> TRUE, old |-> b + C[n + 1], out |-> x]
        BY <2>2, <3>1, <3>2, <3>4, <3>6
      <4>3. m[n + 1] = [old |-> b + C[n + 1], out |-> x]
        BY <2>2, <3>1, <4>1
      <4> QED BY <4>2, <4>3
    <3> QED BY <2>5, <2>8, <3>5, <3>6
  <2> QED BY <2>7, <2>8
<1> HIDE DEF Same
<1>11. Same(N)
  <2> DEFINE S == {n \in Nat : n <= N => Same(n)}
  <2>1. 0 \in S
    BY <1>9
  <2>2. ASSUME NEW n \in Nat, n \in S PROVE n + 1 \in S
    <3>1. n + 1 <= N => n \in 0 .. N - 1 /\ n <= N
      BY <1>1
    <3> QED BY <1>10, <2>2, <3>1
  <2> HIDE DEF S
  <2>3. S = Nat
    <3>1. S \in SUBSET Nat
      BY DEF S
    <3> QED BY <2>1, <2>2, <3>1, SetInduction
  <2> QED BY <1>1, <2>3 DEF S
<1>12. PICK x : m[N] = [old |-> b + C[N], out |-> x] /\ a[N] = [ok |-> TRUE, old |-> b + C[N], out |-> x]
  BY <1>11 DEF Same
<1>13. AfterHunk(text, mt, hunk) = [old |-> b + C[N], out |-> x]
  BY <1>4, <1>12
<1>14. ApplyHunk(text, hunk, b, pos) = [ok |-> TRUE, old |-> b + C[N], out |-> x]
  BY <1>6, <1>12
<1>15. hunk.before = b /\ OldLines(hunk) = C[N]
  BY <1>3 DEF b
<1> QED BY <1>13, <1>14, <1>15 DEF Agree

\* A diff that is made for its file.
LEMMA QuestionIs ==
  ASSUME NEW q \in PatchQuestion
  PROVE  /\ Len(q.file) \in Nat /\ Len(q.hunks) \in Nat /\ DOMAIN q.hunks = 1 .. Len(q.hunks)
         /\ \A i \in 1 .. Len(q.hunks) :
              AHunk(q.hunks[i]) /\ q.hunks[i].before + OldLines(q.hunks[i]) <= Len(q.file)
         /\ \A i \in 2 .. Len(q.hunks) : q.hunks[i].before > q.hunks[i - 1].before + OldLines(q.hunks[i - 1])
<1>1. /\ q \in [file : PatchFiles, hunks : UNION {[1 .. n -> Hunks] : n \in 1 .. MaxHunks}]
      /\ HunksFit(q.file, q.hunks)
  BY DEF PatchQuestion
<1>2. PICK n \in 0 .. MaxLines : q.file \in [1 .. n -> PatchLines]
  BY <1>1 DEF PatchFiles
<1>3. n \in Nat /\ Len(q.file) = n
  BY <1>2
<1>4. PICK m \in 1 .. MaxHunks : q.hunks \in [1 .. m -> Hunks]
  BY <1>1
<1>5. m \in Nat /\ Len(q.hunks) = m /\ DOMAIN q.hunks = 1 .. m
  BY <1>4
<1>6. ASSUME NEW h \in Hunks PROVE AHunk(h)
  <2>1. h.before \in Nat /\ h.ops \in UNION {[1 .. k -> PatchOps] : k \in 1 .. MaxOps}
    BY DEF Hunks
  <2>2. PICK k \in 1 .. MaxOps : h.ops \in [1 .. k -> PatchOps]
    BY <2>1
  <2>3. Len(h.ops) = k /\ k \in Nat
    BY <2>2
  <2>4. \A op \in PatchOps : op[1] \in {"keep", "remove", "add"}
    BY DEF PatchOps, KeepLine, RemoveLine, AddLine
  <2> QED BY <2>1, <2>2, <2>3, <2>4 DEF AHunk
<1>7. \A i \in 1 .. m : AHunk(q.hunks[i])
  BY <1>4, <1>6
<1>8. /\ \A i \in 1 .. m : q.hunks[i].before + OldLines(q.hunks[i]) <= Len(q.file)
      /\ \A i \in 2 .. m : q.hunks[i].before > q.hunks[i - 1].before + OldLines(q.hunks[i - 1])
  BY <1>1, <1>5 DEF HunksFit
<1> QED BY <1>3, <1>5, <1>7, <1>8

Unshifted(hunks) == \A i \in 1 .. Len(hunks) : NewLines(hunks[i]) > 0 /\ Shift(hunks, i) = 0

LEMMA OldLinesNat == ASSUME NEW hunk, AHunk(hunk) PROVE OldLines(hunk) \in Nat
BY OldCount DEF AHunk, OldLines

LEMMA UnshiftedApplies ==
  ASSUME NEW q \in PatchQuestion, Unshifted(q.hunks)
  PROVE  Apply(q.file, q.hunks) = Meant(q.file, q.hunks)
<1> DEFINE text == q.file
           H == q.hunks
           N == Len(H)
<1>1. /\ Len(text) \in Nat /\ N \in Nat
      /\ \A i \in 1 .. N : AHunk(H[i]) /\ H[i].before + OldLines(H[i]) <= Len(text)
      /\ \A i \in 2 .. N : H[i].before > H[i - 1].before + OldLines(H[i - 1])
  BY QuestionIs
<1>2. \A i \in 1 .. N : H[i].before \in Nat /\ OldLines(H[i]) \in Nat
  BY <1>1, OldLinesNat DEF AHunk
<1>3. ASSUME NEW i \in 1 .. N PROVE Start(H, i) = H[i].before
  <2>1. Header(H, i) = H[i].before + 0 + 1
    BY DEF Header, Unshifted
  <2>2. H[i].before \in Nat
    BY <1>2
  <2> QED BY <2>1, <2>2 DEF Start
<1>4. PICK m : /\ MeansAll(m, text, H)
               /\ Meant(text, H) = m[N].out \o SubSeq(text, m[N].old + 1, Len(text))
  BY <1>1, MeantIs, Zenon
<1>5. PICK a : /\ AppliesAll(a, text, H)
               /\ a[N].ok => Apply(text, H) = a[N].out \o SubSeq(text, a[N].old + 1, Len(text))
  BY <1>1, ApplyIs, Zenon
<1>6. /\ m[0] = [old |-> 0, out |-> <<>>] /\ a[0] = [ok |-> TRUE, old |-> 0, out |-> <<>>]
      /\ \A n \in 1 .. N : m[n] = AfterHunk(text, m[n - 1], H[n]) /\ a[n] = ApplyHunk(text, H[n], Start(H, n), a[n - 1])
  <2>1. 0 \in 0 .. N /\ \A n \in 1 .. N : n \in 0 .. N /\ n # 0
    BY <1>1
  <2>2. m[0] = [old |-> 0, out |-> <<>>] /\ \A n \in 1 .. N : m[n] = AfterHunk(text, m[n - 1], H[n])
    BY <1>4, <2>1 DEF MeansAll
  <2>3. a[0] = [ok |-> TRUE, old |-> 0, out |-> <<>>]
        /\ \A n \in 1 .. N : a[n] = ApplyHunk(text, H[n], Start(H, n), a[n - 1])
    BY <1>5, <2>1 DEF AppliesAll
  <2> QED BY <2>2, <2>3
<1> HIDE DEF text, H, N
<1> DEFINE Same(n) == \E o, x : /\ o \in Nat /\ m[n] = [old |-> o, out |-> x] /\ a[n] = [ok |-> TRUE, old |-> o, out |-> x]
                                         /\ o = IF n = 0 THEN 0 ELSE H[n].before + OldLines(H[n])
<1>7. Same(0)
  BY <1>6
<1>8. ASSUME NEW n \in 0 .. N - 1, Same(n) PROVE Same(n + 1)
  <2>1. n + 1 \in 1 .. N /\ (n + 1) - 1 = n /\ (n # 0 => n + 1 \in 2 .. N) /\ n + 1 # 0
    BY <1>1
  <2>2. PICK o, x : /\ o \in Nat /\ m[n] = [old |-> o, out |-> x] /\ a[n] = [ok |-> TRUE, old |-> o, out |-> x]
                            /\ o = IF n = 0 THEN 0 ELSE H[n].before + OldLines(H[n])
    BY <1>8
  <2> DEFINE h == H[n + 1]
  <2>3. AHunk(h) /\ h.before + OldLines(h) <= Len(text) /\ h.before \in Nat /\ OldLines(h) \in Nat
    BY <1>1, <1>2, <2>1
  <2>4. o <= h.before
    <3>1. CASE n = 0
      BY <2>2, <2>3, <3>1
    <3>2. CASE n # 0
      <4>1. h.before > H[n].before + OldLines(H[n])
        BY <1>1, <2>1, <3>2
      <4> QED BY <2>2, <2>3, <3>2, <4>1
    <3> QED BY <3>1, <3>2
  <2>5. m[n + 1] = AfterHunk(text, m[n], h) /\ a[n + 1] = ApplyHunk(text, h, h.before, a[n])
    BY <1>3, <1>6, <2>1
  <2> HIDE DEF h
  <2>6. Ready(text, h, a[n], m[n])
    BY <1>1, <2>2, <2>3, <2>4 DEF Ready
  <2>8. Agree(h, a[n + 1], m[n + 1])
    BY <2>5, <2>6, HunkApplies
  <2>7. h.before + OldLines(h) \in Nat
    BY <2>3
  <2> QED BY <2>1, <2>7, <2>8 DEF h, Agree
<1> HIDE DEF Same
<1>9. Same(N)
  <2> DEFINE S == {n \in Nat : n <= N => Same(n)}
  <2>1. 0 \in S
    BY <1>7
  <2>2. ASSUME NEW n \in Nat, n \in S PROVE n + 1 \in S
    <3>1. n + 1 <= N => n \in 0 .. N - 1 /\ n <= N
      BY <1>1
    <3> QED BY <1>8, <2>2, <3>1
  <2> HIDE DEF S
  <2>3. S = Nat
    <3>1. S \in SUBSET Nat
      BY DEF S
    <3> QED BY <2>1, <2>2, <3>1, SetInduction
  <2> QED BY <1>1, <2>3 DEF S
<1>10. m[N].out = a[N].out /\ m[N].old = a[N].old /\ a[N].ok
  BY <1>9 DEF Same
<1>11. Apply(text, H) = Meant(text, H)
  BY <1>4, <1>5, <1>10, Zenon
<1> QED BY <1>11 DEF text, H

PatchOK == patched = <<"open">> \/ (patchFor \in PatchQuestion /\ patched = Apply(patchFor.file, patchFor.hunks))

PatchInv == patchFor \in PatchQuestion /\ PatchOK

LEMMA PatchStep == PatchInv /\ [PatchNext]_patchVars => PatchInv'
BY DEF PatchInv, PatchNext, patchVars, PatchOK

LEMMA PatchesApply == PatchOK => UnshiftedPatchesApply
<1> SUFFICES ASSUME PatchOK, patched # <<"open">>,
                    \A i \in DOMAIN patchFor.hunks : NewLines(patchFor.hunks[i]) > 0 /\ Shift(patchFor.hunks, i) = 0
             PROVE  patched = Meant(patchFor.file, patchFor.hunks)
  BY DEF UnshiftedPatchesApply
<1>1. patchFor \in PatchQuestion /\ patched = Apply(patchFor.file, patchFor.hunks)
  BY DEF PatchOK
<1>2. Unshifted(patchFor.hunks)
  BY <1>1, QuestionIs DEF Unshifted
<1> QED BY <1>1, <1>2, UnshiftedApplies

\* A diff whose hunks leave a line and shift none of those that follow gives the
\* file it means, for any file, any lines and any number of hunks: _parse_hunks
\* and _apply_unified_diff.
THEOREM UnshiftedStayRight == PatchSpec => []UnshiftedPatchesApply
<1>1. PatchInit => PatchInv
  BY DEF PatchInit, PatchInv, PatchOK
<1>2. PatchInv => UnshiftedPatchesApply
  BY PatchesApply DEF PatchInv
<1> QED
  BY <1>1, <1>2, PatchStep, PTL DEF PatchSpec

-----------------------------------------------------------------------------
(* Who may call what (registries/mcp_registry.py, security/policy.py).     *)

AccessSpec == AccessInit /\ [][AccessNext]_accessVars
PolicySpec == PolicyInit /\ [][PolicyNext]_policyVars

AccessOK ==
  access # NoAccess => (access.offered => Offered(accessFor)) /\ (Authorized(accessFor) => access.callable)

LEMMA OfferedIsAuthorized ==
  ASSUME NEW q \in AccessQuestion, Offered(q), AgentToolPermitted(q, TRUE) PROVE Authorized(q)
BY DEF AccessQuestion, Offered, Candidate, ServerPermits, Authorized, TrustGate, Unvouched

LEMMA AccessAgrees == accessFor \in AccessQuestion /\ AccessOK => RefusedForPermissionOnly
BY OfferedIsAuthorized, Zenon DEF AccessOK, RefusedForPermissionOnly

PolicyOK ==
  vetted # "open" => policyFor \in PolicyQuestion /\ vetted = Vetted(policyFor)

LEMMA KindsAgree ==
  ASSUME NEW s \in Seq(Policy)
  PROVE  LET b == Backwards(s)
         IN  {b[i].kind : i \in {j \in DOMAIN b : Matches(b[j])}} =
             {s[i].kind : i \in {j \in DOMAIN s : Matches(s[j])}}
<1> DEFINE b == Backwards(s)
<1>1. DOMAIN b = DOMAIN s /\ DOMAIN s = 1 .. Len(s) /\ Len(s) \in Nat
  BY DEF Backwards
<1>2. \A i \in DOMAIN s : Len(s) + 1 - i \in DOMAIN s /\ b[i] = s[Len(s) + 1 - i]
  BY <1>1 DEF Backwards
<1>3. \A i \in DOMAIN s : s[i] = b[Len(s) + 1 - i]
  <2> TAKE i \in DOMAIN s
  <2>1. Len(s) + 1 - i \in DOMAIN s /\ Len(s) + 1 - (Len(s) + 1 - i) = i
    BY <1>1
  <2>2. b[Len(s) + 1 - i] = s[Len(s) + 1 - (Len(s) + 1 - i)]
    BY <1>2, <2>1
  <2> QED BY <2>1, <2>2
<1> HIDE DEF b
<1>4. ASSUME NEW i \in DOMAIN s PROVE Matches(s[i]) <=> Matches(b[Len(s) + 1 - i])
  BY <1>3
<1>5. ASSUME NEW i \in DOMAIN s PROVE Matches(b[i]) <=> Matches(s[Len(s) + 1 - i])
  BY <1>2
<1>6. {b[i].kind : i \in {j \in DOMAIN b : Matches(b[j])}} \subseteq
        {s[i].kind : i \in {j \in DOMAIN s : Matches(s[j])}}
  <2> SUFFICES ASSUME NEW i \in DOMAIN b, Matches(b[i])
               PROVE  \E j \in DOMAIN s : Matches(s[j]) /\ b[i].kind = s[j].kind
    OBVIOUS
  <2>1. Len(s) + 1 - i \in DOMAIN s /\ Matches(s[Len(s) + 1 - i]) /\ b[i].kind = s[Len(s) + 1 - i].kind
    BY <1>1, <1>2, <1>5
  <2> QED BY <2>1
<1>7. {s[i].kind : i \in {j \in DOMAIN s : Matches(s[j])}} \subseteq
        {b[i].kind : i \in {j \in DOMAIN b : Matches(b[j])}}
  <2> SUFFICES ASSUME NEW i \in DOMAIN s, Matches(s[i])
               PROVE  \E j \in DOMAIN b : Matches(b[j]) /\ s[i].kind = b[j].kind
    OBVIOUS
  <2>1. Len(s) + 1 - i \in DOMAIN b /\ Matches(b[Len(s) + 1 - i]) /\ s[i].kind = b[Len(s) + 1 - i].kind
    BY <1>1, <1>2, <1>3, <1>4
  <2> QED BY <2>1
<1> QED BY <1>6, <1>7 DEF b

LEMMA VerdictsAgree ==
  ASSUME NEW q \in PolicyQuestion
  PROVE  /\ Vetted([q EXCEPT !.policies = Backwards(@)]) = Vetted(q)
         /\ \A i \in DOMAIN q.policies :
              Matches(q.policies[i]) /\ q.policies[i].kind = "deny_tool" => Vetted(q) = "refused"
<1> DEFINE r == [q EXCEPT !.policies = Backwards(@)]
<1>1. q.policies \in Seq(Policy)
  BY PolicyAssumption DEF PolicyQuestion, PolicyAssumption
<1>2. /\ r.policies = Backwards(q.policies) /\ r.emergency = q.emergency
      /\ r.permission = q.permission /\ r.risk = q.risk
  BY DEF PolicyQuestion
<1> HIDE DEF r
<1>3. Evaluate(r) = Evaluate(q)
  BY <1>1, <1>2, KindsAgree DEF Evaluate
<1>4. Vetted(r) = Vetted(q)
  BY <1>2, <1>3 DEF Vetted
<1>5. ASSUME NEW i \in DOMAIN q.policies, Matches(q.policies[i]), q.policies[i].kind = "deny_tool"
      PROVE  Vetted(q) = "refused"
  <2>1. Evaluate(q) \in {"emergency", "deny_tool"}
    BY <1>5 DEF Evaluate, PolicyQuestion
  <2> QED BY <2>1 DEF Vetted
<1> QED BY <1>4, <1>5 DEF r

LEMMA OrderAgrees == PolicyOK => OrderIsImmaterial
BY VerdictsAgree DEF PolicyOK, OrderIsImmaterial


LEMMA AccessStep ==
  accessFor \in AccessQuestion /\ AccessOK /\ [AccessNext]_accessVars =>
    (accessFor \in AccessQuestion /\ AccessOK)'
<1> SUFFICES ASSUME accessFor \in AccessQuestion /\ AccessOK, AccessNext \/ UNCHANGED accessVars
             PROVE  (accessFor \in AccessQuestion /\ AccessOK)'
  OBVIOUS
<1>1. CASE AccessNext
  <2>1. access' = [offered |-> Offered(accessFor), callable |-> Authorized(accessFor)] /\ accessFor' = accessFor
    BY <1>1 DEF AccessNext
  <2> QED BY <2>1, Zenon DEF AccessOK
<1>2. CASE UNCHANGED accessVars
  BY <1>2 DEF AccessOK, accessVars
<1> QED BY <1>1, <1>2

\* What mcp.select offers, _authorized refuses for the agent's own permission
\* only, whatever the trust, the lists and the defaults of server and tool.
THEOREM OffersPassTheServer == AccessSpec => []RefusedForPermissionOnly
<1> DEFINE Inv == accessFor \in AccessQuestion /\ AccessOK
<1>1. AccessInit => Inv
  BY DEF AccessInit, AccessOK
<1>2. Inv /\ [AccessNext]_accessVars => Inv'
  BY AccessStep
<1>3. Inv => RefusedForPermissionOnly
  BY AccessAgrees
<1> QED BY <1>1, <1>2, <1>3, PTL DEF AccessSpec

LEMMA PolicyStep ==
  policyFor \in PolicyQuestion /\ PolicyOK /\ [PolicyNext]_policyVars =>
    (policyFor \in PolicyQuestion /\ PolicyOK)'
<1> SUFFICES ASSUME policyFor \in PolicyQuestion /\ PolicyOK, PolicyNext \/ UNCHANGED policyVars
             PROVE  (policyFor \in PolicyQuestion /\ PolicyOK)'
  OBVIOUS
<1>1. CASE PolicyNext
  BY <1>1 DEF PolicyOK, PolicyNext
<1>2. CASE UNCHANGED policyVars
  BY <1>2 DEF PolicyOK, policyVars
<1> QED BY <1>1, <1>2

\* What becomes of a call does not depend on where policies stand in the list,
\* and a matching denial holds against everything else: evaluate, for a list of
\* any length.
THEOREM OrderStaysImmaterial == PolicySpec => []OrderIsImmaterial
<1> DEFINE Inv == policyFor \in PolicyQuestion /\ PolicyOK
<1>1. PolicyInit => Inv
  BY DEF PolicyInit, PolicyOK
<1>2. Inv /\ [PolicyNext]_policyVars => Inv'
  BY PolicyStep
<1>3. Inv => OrderIsImmaterial
  BY OrderAgrees
<1> QED BY <1>1, <1>2, <1>3, PTL DEF PolicySpec

-----------------------------------------------------------------------------
(* The model of a run (models/router.py). The first model that has a provider,*)
(* in a list that begins with the models of the tier, is of the tier if any is.*)

RoutingSpec == RoutingInit /\ [][RoutingNext]_routingVars

RouteOK == routed # RouteOpen => routeFor \in RouteQuestion /\ routed = Routed(routeFor)

LEMMA TierBounds ==
  ASSUME NEW q \in RouteQuestion, q.base <= q.max
  PROVE  TierFor(q) \in q.base - 1 .. q.max /\ TierFor(q) \in 0 .. 3
<1>1. /\ q.base \in 1 .. 3 /\ q.max \in 1 .. 3 /\ q.score \in Nat /\ q.risk \in Nat
      /\ q.bump \in Int
  <2>1. q.base \in 1 .. 3 /\ q.max \in MaxTiers /\ q.score \in Scores /\ q.risk \in 0 .. 2 /\ q.bump \in -1 .. 1
    BY DEF RouteQuestion
  <2>2. q.max \in 1 .. 3
    BY <2>1, RoutingAssumption DEF RoutingAssumption
  <2>3. q.score \in Nat
    BY <2>1, RoutingAssumption DEF RoutingAssumption
  <2>4. q.bump \in Int
    BY <2>1
  <2> QED BY <2>1, <2>2, <2>3, <2>4
<1>2. ComplexityTier(q) \in q.base .. q.max
  BY <1>1 DEF ComplexityTier, Lower
<1>3. RiskTier(q) \in q.base .. q.max
  BY <1>1, <1>2 DEF RiskTier, Lower
<1> QED BY <1>1, <1>3 DEF TierFor

LEMMA FirstOfTier ==
  ASSUME NEW q, NEW tier \in 0 .. 3, TierFor(q) = tier,
         NEW m \in Models, ModelDefs[m].tier = tier, HasProvider(q, m), ~Prefers(q)
  PROVE  ModelDefs[Choice(q)].tier = tier
<1> DEFINE own == Cheapest(tier)
           rest == Cheapest(2) \o Cheapest(1)
           models == Cheapest(tier) \o Cheapest(2) \o Cheapest(1)
           Fits(i) == HasProvider(q, models[i]) /\ \A j \in 1 .. i - 1 : ~HasProvider(q, models[j])
<1>1. /\ own \in Seq(Models) /\ Cheapest(2) \in Seq(Models) /\ Cheapest(1) \in Seq(Models)
      /\ {own[i] : i \in DOMAIN own} = {n \in Models : ModelDefs[n].tier = tier}
  BY RegistryAssumption DEF RegistryAssumption
<1>2. PICK k \in DOMAIN own : own[k] = m
  BY <1>1
<1> HIDE DEF own
<1>3. models \in Seq(Models) /\ \A i \in DOMAIN own : i \in DOMAIN models /\ models[i] = own[i]
  BY <1>1 DEF own
<1>4. DOMAIN own \subseteq Nat /\ DOMAIN models \subseteq Nat /\ DOMAIN own = 1 .. Len(own) /\ Len(own) \in Nat
      /\ DOMAIN models = 1 .. Len(models) /\ Len(models) \in Nat
  BY <1>1, <1>3
<1> HIDE DEF models
<1> DEFINE Hits == {i \in DOMAIN models : HasProvider(q, models[i])}
<1>5. k \in Hits
  BY <1>2, <1>3
<1>6. PICK f \in Hits : \A j \in Hits : f <= j
  <2>1. Hits \in SUBSET Nat /\ Hits # {}
    BY <1>4, <1>5
  <2> QED BY <2>1, LeastExists
<1>7. f \in DOMAIN models /\ Fits(f)
  <2>1. \A j \in 1 .. f - 1 : j \in DOMAIN models /\ j < f
    BY <1>4
  <2> QED BY <1>4, <1>6, <2>1
<1>8. \A i \in DOMAIN models : Fits(i) => i = f
  BY <1>4, <1>6, <1>7
<1>9. Choice(q) = models[f]
  <2>0. ~Prefers(q)
    OBVIOUS
  <2>1. Choice(q) = models[CHOOSE i \in DOMAIN models : Fits(i)]
    BY <2>0 DEF Choice, models
  <2>2. (CHOOSE i \in DOMAIN models : Fits(i)) = f
    BY <1>7, <1>8
  <2> QED BY <2>1, <2>2
<1>10. f \in DOMAIN own
  <2>1. f <= k
    BY <1>5, <1>6
  <2> QED BY <1>2, <1>4, <2>1
<1> QED BY <1>1, <1>3, <1>9, <1>10

LEMMA RouteBounds == RouteOK => RouteInBounds
<1> SUFFICES ASSUME RouteOK, routed # RouteOpen, routeFor.base <= routeFor.max
             PROVE  /\ TierFor(routeFor) \in routeFor.base - 1 .. routeFor.max
                    /\ routed[1] # "rejected" /\ routeFor.budget = "within" /\ routeFor.pin = "none" =>
                         \/ Prefers(routeFor) /\ routed[1] = routeFor.liked
                         \/ ModelDefs[routed[1]].tier = TierFor(routeFor)
                         \/ \A m \in Models : ModelDefs[m].tier = TierFor(routeFor) => ~HasProvider(routeFor, m)
  BY DEF RouteInBounds
<1>1. routeFor \in RouteQuestion /\ routed = Routed(routeFor)
  BY DEF RouteOK
<1>2. TierFor(routeFor) \in routeFor.base - 1 .. routeFor.max /\ TierFor(routeFor) \in 0 .. 3
  BY <1>1, TierBounds
<1>3. ASSUME routeFor.budget = "within", routeFor.pin = "none"
      PROVE  routed[1] = Choice(routeFor)
  BY <1>1, <1>3 DEF Routed, Budgeted
<1>4. ASSUME routeFor.budget = "within", routeFor.pin = "none", ~Prefers(routeFor), NEW m \in Models, ModelDefs[m].tier = TierFor(routeFor),
             HasProvider(routeFor, m)
      PROVE  ModelDefs[routed[1]].tier = TierFor(routeFor)
  BY <1>1, <1>2, <1>3, <1>4, FirstOfTier
<1>5. Prefers(routeFor) => Choice(routeFor) = routeFor.liked
  BY DEF Choice
<1> QED BY <1>2, <1>3, <1>4, <1>5

LEMMA RouteStep ==
  routeFor \in RouteQuestion /\ RouteOK /\ [RoutingNext]_routingVars =>
    (routeFor \in RouteQuestion /\ RouteOK)'
<1> SUFFICES ASSUME routeFor \in RouteQuestion /\ RouteOK, RoutingNext \/ UNCHANGED routingVars
             PROVE  (routeFor \in RouteQuestion /\ RouteOK)'
  OBVIOUS
<1>1. CASE RoutingNext
  BY <1>1 DEF RouteOK, RoutingNext
<1>2. CASE UNCHANGED routingVars
  BY <1>2 DEF RouteOK, routingVars
<1> QED BY <1>1, <1>2

\* A route stays within the bounds it was asked for: no sum of complexity, risk
\* and record takes the tier above the policy's bound or more than one below its
\* base, and the model is of the tier unless the tier has none, the policy prefers
\* another or the caller forces one: route, for any scores, bounds and keys.
THEOREM RoutesStayInBounds == RoutingSpec => []RouteInBounds
<1> DEFINE Inv == routeFor \in RouteQuestion /\ RouteOK
<1>1. RoutingInit => Inv
  BY DEF RoutingInit, RouteOK
<1>2. Inv /\ [RoutingNext]_routingVars => Inv'
  BY RouteStep
<1>3. Inv => RouteInBounds
  BY RouteBounds
<1> QED BY <1>1, <1>2, <1>3, PTL DEF RoutingSpec

-----------------------------------------------------------------------------
(* The failover of a call (_call_with_failover, router.failover). A model that*)
(* can serve has failed on account of its provider only, and where in its  *)
(* order a call is tells which providers it has left behind.               *)

FailoverSpec == FailoverInit /\ [][FailoverNext]_failoverVars

Prov(m) == ModelDefs[m].provider

ACircuitOf == [failures : 0 .. FailLimit, cooled : BOOLEAN]
AModelCall == [at : {"idle", "asking", "answered", "error"}, used : Seq(Models)]

FailoverTyped ==
  /\ withKey \in ProviderSets
  /\ circuits \in [Models -> ACircuitOf]
  /\ modelCall \in [ModelCalls -> AModelCall]
  /\ \A c \in ModelCalls : Len(modelCall[c].used) \in 0 .. 3 /\ (modelCall[c].at # "idle" => Len(modelCall[c].used) # 0)
  /\ failedProviders \subseteq Providers /\ IsFiniteSet(failedProviders)
  /\ modelFailures \in 0 .. MaxModelFailures

\* A model that can serve fails on its provider's account alone, and the echo
\* never does.
HealthyOK ==
  /\ "echo" \notin failedProviders
  /\ \A m \in Models : CanServe(m) /\ Prov(m) \notin failedProviders => circuits[m] = Closed

OneFails == \A p, q \in failedProviders : p = q

\* Where a call is that began with a model that can serve, while one provider
\* fails: at its first model, at the second of that provider, or beyond it.
UsedOK(call) ==
  /\ \A i \in 1 .. Len(call.used) : CanServe(call.used[i])
  /\ OneFails =>
       /\ call.at # "error"
       /\ Len(call.used) > 1 => Prov(call.used[1]) \in failedProviders
       /\ Len(call.used) = 2 => Prov(call.used[2]) # Prov(call.used[1]) \/ call.used[2] \in Siblings(call.used[1])
       /\ Len(call.used) = 3 => Prov(call.used[3]) # Prov(call.used[1])

UsedWell == \A c \in ModelCalls : modelCall[c].at # "idle" /\ CanServe(modelCall[c].used[1]) => UsedOK(modelCall[c])

FailoverInv == FailoverTyped /\ HealthyOK /\ UsedWell

LEMMA FailoverInitInv == FailoverInit => FailoverInv
<1> SUFFICES ASSUME FailoverInit PROVE FailoverInv
  OBVIOUS
<1>1. Closed \in ACircuitOf
  BY FailoverAssumption DEF Closed, ACircuitOf
<1>2. <<>> \in Seq(Models) /\ Len(<<>>) = 0
  OBVIOUS
<1>3. FailoverTyped
  BY <1>1, <1>2, FS_EmptySet, FailoverAssumption DEF FailoverInit, FailoverTyped, AModelCall
<1> QED BY <1>3 DEF FailoverInit, FailoverInv, HealthyOK, UsedWell, OneFails

LEMMA EchoServes == CanServe("echo") /\ "echo" \in Models /\ Prov("echo") = "echo"
BY RegistryAssumption DEF CanServe, Configured, Prov

\* The place of the first model that is available.
LEMMA FirstFacts ==
  ASSUME NEW states, NEW order \in Seq(Models)
  PROVE  LET f == FirstAvailable(states, order)
         IN  /\ f \in 0 .. Len(order)
             /\ f # 0 => Available(states, order[f])
             /\ \A i \in 1 .. Len(order) : Available(states, order[i]) => f # 0 /\ f <= i
<1> DEFINE I == {i \in 1 .. Len(order) : Available(states, order[i])}
<1>1. FirstAvailable(states, order) = IF I # {} THEN Min(I) ELSE 0
  BY Zenon DEF FirstAvailable, SelectInSeq
<1>2. ASSUME I # {} PROVE Min(I) \in I /\ \A i \in I : Min(I) <= i
  <2>1. I \in SUBSET Nat
    OBVIOUS
  <2>2. \E n \in I : \A i \in I : n <= i
    BY <1>2, <2>1, LeastExists
  <2> HIDE DEF I
  <2> QED BY <2>2 DEF Min
<1>3. \A i \in I : i \in 1 .. Len(order) /\ Available(states, order[i])
  OBVIOUS
<1>4. \A i \in 1 .. Len(order) : Available(states, order[i]) => i \in I
  OBVIOUS
<1>5. Len(order) \in Nat
  OBVIOUS
<1> HIDE DEF I
<1>6. CASE I = {}
  BY <1>1, <1>4, <1>5, <1>6
<1>7. CASE I # {}
  <2>1. FirstAvailable(states, order) = Min(I) /\ Min(I) \in I /\ \A i \in I : Min(I) <= i
    BY <1>1, <1>2, <1>7
  <2> HIDE DEF FirstAvailable
  <2>2. Min(I) \in 1 .. Len(order) /\ Available(states, order[Min(I)])
    BY <1>3, <2>1
  <2> QED BY <1>4, <1>5, <2>1, <2>2
<1> QED BY <1>6, <1>7


\* What becomes of the circuits when call c goes on from m.
LEMMA CircuitsAfter ==
  ASSUME FailoverTyped, NEW c \in ModelCalls, Using(c) \in Models, FailOver(c)
  PROVE  /\ circuits' \in [Models -> ACircuitOf]
         /\ \A m \in Models \ {Using(c)} : circuits'[m] = circuits[m] \/ circuits'[m] = Closed
<1> DEFINE m == Using(c)
           failed == [circuits EXCEPT ![m] = AfterModelFailure(@)]
           order == FailoverOrder(m)
           first == FirstAvailable(failed, order)
<1>1. Closed \in ACircuitOf
  BY FailoverAssumption DEF Closed, ACircuitOf
<1>2. AfterModelFailure(circuits[m]) \in ACircuitOf
  BY FailoverAssumption DEF FailoverTyped, AfterModelFailure, ACircuitOf
<1>3. failed \in [Models -> ACircuitOf]
  BY <1>2 DEF FailoverTyped
<1>4. \A n \in Models : LookedAt(failed[n]) \in {failed[n], Closed}
  BY DEF LookedAt
<1>5. circuits' = LookedUpTo(failed, order, first)
  BY DEF FailOver
<1>6. \A n \in Models \ {m} : failed[n] = circuits[n]
  BY DEF FailoverTyped
<1> HIDE DEF failed, order, first
<1>7. circuits' = [n \in Models |-> circuits'[n]] /\ \A n \in Models : circuits'[n] \in {failed[n], Closed}
  BY <1>4, <1>5 DEF LookedUpTo
<1>8. \A n \in Models : circuits'[n] \in ACircuitOf
  BY <1>1, <1>3, <1>7
<1>9. circuits' \in [Models -> ACircuitOf]
  BY <1>7, <1>8
<1> QED BY <1>6, <1>7, <1>9

\* The echo is found, so that there is a next model; and one that shares the
\* provider is one of the siblings.
LEMMA NextModel ==
  ASSUME HealthyOK, NEW m \in Models, Prov(m) # "echo", NEW failed, failed["echo"] = Closed,
         NEW first, first = FirstAvailable(failed, FailoverOrder(m))
  PROVE  /\ first # 0 /\ FailoverOrder(m)[first] \in Models /\ CanServe(FailoverOrder(m)[first])
         /\ Prov(FailoverOrder(m)[first]) # Prov(m) \/ FailoverOrder(m)[first] \in Siblings(m)
<1> DEFINE order == FailoverOrder(m)
<1>1. order \in Seq(Models) /\ \E i \in DOMAIN order : order[i] = "echo"
  BY OrderAssumption DEF Prov
<1>2. Available(failed, "echo")
  BY EchoServes, FailoverAssumption DEF Available, IsOpen, Closed
<1>3. DOMAIN order = 1 .. Len(order) /\ Len(order) \in Nat
  BY <1>1
<1> HIDE DEF order
<1>4. /\ first \in 0 .. Len(order)
      /\ first # 0 => Available(failed, order[first])
      /\ \A i \in 1 .. Len(order) : Available(failed, order[i]) => first # 0 /\ first <= i
  BY <1>1, FirstFacts DEF order
<1>5. first # 0 /\ order[first] \in Models /\ CanServe(order[first])
  BY <1>1, <1>2, <1>3, <1>4 DEF Available
<1>6. \A j \in 1 .. first - 1 : order[j] # "echo"
  BY <1>2, <1>3, <1>4
<1>7. ASSUME Prov(order[first]) = Prov(m) PROVE order[first] \in Siblings(m)
  <2>1. order[first] # "echo"
    BY <1>7, EchoServes
  <2>2. \A j \in 1 .. first : order[j] # "echo"
    BY <1>3, <1>4, <1>6, <2>1
  <2>3. first \in DOMAIN order
    BY <1>3, <1>4, <1>5
  <2> QED BY <1>5, <1>7, <2>2, <2>3 DEF Siblings, Prov, order
<1> QED BY <1>5, <1>7 DEF order


\* A call whose model failed goes on well, when it began with a model that
\* can serve and only that model's provider fails.
LEMMA GoesOnWell ==
  ASSUME HealthyOK, NEW call \in AModelCall, call.at = "asking", Len(call.used) \in 1 .. 3, UsedOK(call),
         NEW m \in Models, m = call.used[Len(call.used)], Prov(m) # "echo",
         NEW failed, failed["echo"] = Closed,
         NEW first, first = FirstAvailable(failed, FailoverOrder(m)),
         NEW next, next = GoOnCall(call, FailoverOrder(m), first),
         failedProviders' = failedProviders \cup {Prov(m)}, withKey' = withKey
  PROVE  next.used[1] = call.used[1] /\ UsedOK(next)'
<1> DEFINE n == FailoverOrder(m)[first]
<1>1. /\ first # 0 /\ n \in Models /\ CanServe(n)
      /\ Prov(n) # Prov(m) \/ n \in Siblings(m)
  BY NextModel
<1>2. call.used \in Seq(Models)
  BY DEF AModelCall
<1>3. \A p : CanServe(p)' <=> CanServe(p)
  BY DEF CanServe
<1>4. next \in {[call EXCEPT !.at = "error"], [call EXCEPT !.used = Append(call.used, n)]}
  BY DEF GoOnCall
<1>a. OneFails' => OneFails
  BY DEF OneFails
<1>b. n \in Siblings(m) => Prov(n) = Prov(m) /\ n # m /\ Siblings(n) = {}
  <2>1. Siblings(m) \in SUBSET {p \in Models : Prov(p) = Prov(m)}
    BY DEF Siblings, Prov
  <2> QED BY <2>1, OrderAssumption DEF Prov
<1> HIDE DEF n
<1>5. ASSUME OneFails' PROVE /\ next = [call EXCEPT !.used = Append(call.used, n)]
                             /\ Len(call.used) # 3
                             /\ Len(call.used) = 2 => Prov(n) # Prov(call.used[1]) /\ Prov(m) = Prov(call.used[1])
                             /\ Len(call.used) = 1 => Prov(n) # Prov(m) \/ n \in Siblings(m)
  <2>1. OneFails /\ \A p \in failedProviders : p = Prov(m)
    BY <1>5, <1>a DEF OneFails
  <2>2. Len(call.used) > 1 => Prov(call.used[1]) = Prov(m)
    BY <2>1 DEF UsedOK
  <2>3. Len(call.used) # 3
    BY <2>1, <2>2 DEF UsedOK
  <2>4. Len(call.used) = 2 => m \in Siblings(call.used[1])
    BY <2>1, <2>2 DEF UsedOK
  <2>5. Len(call.used) = 2 => Siblings(m) = {}
    <3> SUFFICES ASSUME Len(call.used) = 2 PROVE Siblings(m) = {}
      OBVIOUS
    <3>1. call.used[1] \in Models /\ ModelDefs[call.used[1]].provider # "echo"
      BY <1>2, <2>2 DEF Prov
    <3> QED BY <2>4, <3>1, OrderAssumption
  <2>6. Len(call.used) = 2 => Prov(n) # Prov(call.used[1]) /\ Prov(m) = Prov(call.used[1])
    BY <1>1, <2>2, <2>5
  <2>7. ~Contains(call.used, n)
    <3>1. CASE Len(call.used) = 1
      <4>1. n # m
        BY <1>1, <1>b
      <4> QED BY <3>1, <4>1 DEF Contains
    <3>2. CASE Len(call.used) = 2
      <4>1. n # call.used[1] /\ n # m
        BY <2>6, <3>2
      <4> QED BY <3>2, <4>1 DEF Contains
    <3> QED BY <2>3, <3>1, <3>2
  <2>8. next = [call EXCEPT !.used = Append(call.used, n)]
    BY <1>1, <2>3, <2>7 DEF GoOnCall, n
  <2> QED BY <1>1, <2>3, <2>6, <2>8
<1>6. Len(call.used) = 3 => next = [call EXCEPT !.at = "error"]
  BY DEF GoOnCall
<1>7. next.used \in {call.used, Append(call.used, n)} /\ (next.used # call.used => Len(call.used) # 3)
  BY <1>4, <1>6 DEF AModelCall
<1>8. next.used[1] = call.used[1]
  BY <1>2, <1>7, <1>1
<1>9. \A i \in 1 .. Len(next.used) : CanServe(next.used[i])
  <2>1. CanServe(n) /\ \A i \in 1 .. Len(call.used) : CanServe(call.used[i])
    BY <1>1 DEF UsedOK
  <2>2. CASE next.used = call.used
    BY <2>1, <2>2
  <2>3. CASE next.used = Append(call.used, n)
    <3>1. /\ Len(next.used) = Len(call.used) + 1 /\ Len(call.used) \in Nat
          /\ next.used[Len(call.used) + 1] = n
          /\ \A i \in 1 .. Len(call.used) : next.used[i] = call.used[i]
      BY <1>1, <1>2, <2>3
    <3> QED BY <2>1, <3>1
  <2> QED BY <1>7, <2>2, <2>3
<1>10. ASSUME OneFails'
       PROVE  /\ next.at # "error"
              /\ Len(next.used) > 1 => Prov(next.used[1]) \in failedProviders'
              /\ Len(next.used) = 2 => Prov(next.used[2]) # Prov(next.used[1]) \/ next.used[2] \in Siblings(next.used[1])
              /\ Len(next.used) = 3 => Prov(next.used[3]) # Prov(next.used[1])
  <2>1. next.at = "asking" /\ next.used = Append(call.used, n)
    BY <1>5, <1>10 DEF AModelCall
  <2>2. CASE Len(call.used) = 1
    <3>1. next.used[1] = m /\ next.used[2] = n /\ Len(next.used) = 2
      BY <1>1, <1>2, <2>1, <2>2
    <3> QED BY <1>1, <2>1, <3>1
  <2>3. CASE Len(call.used) = 2
    <3>1. next.used[3] = n /\ Len(next.used) = 3 /\ next.used[1] = call.used[1]
      BY <1>1, <1>2, <2>1, <2>3
    <3> QED BY <1>5, <1>10, <2>1, <2>3, <3>1
  <2>4. Len(call.used) \in {1, 2}
    BY <1>1, <2>1, <1>5, <1>10
  <2> QED BY <2>2, <2>3, <2>4
<1>11. UsedOK(next)'
  BY <1>3, <1>9, <1>10 DEF UsedOK
<1> QED BY <1>8, <1>11

\* Calls that stay as they are stay well.
LEMMA StaysWell ==
  ASSUME NEW call, UsedOK(call), failedProviders \subseteq failedProviders', withKey' = withKey
  PROVE  UsedOK(call)'
<1>1. \A p : CanServe(p)' <=> CanServe(p)
  BY DEF CanServe
<1>2. OneFails' => OneFails
  BY DEF OneFails
<1> QED BY <1>1, <1>2 DEF UsedOK

\* The model in use of a call under way.
LEMMA InUse ==
  ASSUME FailoverTyped, NEW c \in ModelCalls, modelCall[c].at = "asking"
  PROVE  /\ modelCall[c] \in AModelCall /\ Len(modelCall[c].used) \in 1 .. 3
         /\ Using(c) = modelCall[c].used[Len(modelCall[c].used)] /\ Using(c) \in Models
<1>1. modelCall[c] \in AModelCall
  BY DEF FailoverTyped
<1>2. modelCall[c].used \in Seq(Models)
  BY <1>1 DEF AModelCall
<1>3. PICK u : u = modelCall[c].used
  OBVIOUS
<1>4. Len(u) \in 0 .. 3 /\ Len(u) # 0
  BY <1>3 DEF FailoverTyped
<1>5. u \in Seq(Models) /\ Len(u) \in 1 .. 3
  BY <1>2, <1>3, <1>4
<1>6. u[Len(u)] \in Models
  <2>1. PICK n \in 1 .. Len(u) : n = Len(u)
    <3>1. Len(u) \in 1 .. Len(u)
      BY <1>4
    <3> QED BY <3>1
  <2>2. u[n] \in Models
    BY <1>5, ElementOfSeq
  <2> QED BY <2>1, <2>2
<1> QED BY <1>1, <1>3, <1>5, <1>6 DEF Using, Last

\* What is left to show of a step of call c.
LEMMA FailoverStepOf ==
  ASSUME FailoverInv, NEW c \in ModelCalls, NEW call \in AModelCall, modelCall' = [modelCall EXCEPT ![c] = call],
         Len(call.used) \in 0 .. 3, call.at # "idle" => Len(call.used) # 0,
         circuits' \in [Models -> ACircuitOf], UNCHANGED withKey,
         failedProviders \subseteq failedProviders', failedProviders' \subseteq Providers, IsFiniteSet(failedProviders'),
         modelFailures' \in 0 .. MaxModelFailures, HealthyOK',
         call.at # "idle" /\ CanServe(call.used[1]) => UsedOK(call)'
  PROVE  FailoverInv'
<1>1. FailoverTyped'
  BY DEF FailoverInv, FailoverTyped
<1>2. \A p : CanServe(p)' <=> CanServe(p)
  BY DEF CanServe
<1>3. modelCall'[c] = call /\ \A d \in ModelCalls \ {c} : modelCall'[d] = modelCall[d]
  BY DEF FailoverInv, FailoverTyped
<1>4. \A d \in ModelCalls \ {c} : modelCall[d].at # "idle" /\ CanServe(modelCall[d].used[1]) => UsedOK(modelCall[d])'
  <2> SUFFICES ASSUME NEW d \in ModelCalls \ {c}, modelCall[d].at # "idle", CanServe(modelCall[d].used[1])
               PROVE  UsedOK(modelCall[d])'
    OBVIOUS
  <2>1. UsedOK(modelCall[d])
    BY DEF FailoverInv, UsedWell
  <2>2. PICK x : x = modelCall[d]
    OBVIOUS
  <2>3. UsedOK(x)'
    BY <2>1, <2>2, StaysWell
  <2> QED BY <1>3, <2>2, <2>3
<1> QED BY <1>1, <1>2, <1>3, <1>4 DEF FailoverInv, UsedWell

LEMMA FailoverStep == FailoverInv /\ [FailoverNext]_failoverVars => FailoverInv'
<1> SUFFICES ASSUME FailoverInv, FailoverNext \/ UNCHANGED failoverVars PROVE FailoverInv'
  OBVIOUS
<1>0. FailoverTyped /\ HealthyOK /\ UsedWell
  BY DEF FailoverInv
<1>1. ASSUME NEW c \in ModelCalls, StartModelCall(c) PROVE FailoverInv'
  <2>1. PICK m \in Models : modelCall' = [modelCall EXCEPT ![c] = [at |-> "asking", used |-> <<m>>]]
    BY <1>1 DEF StartModelCall
  <2> DEFINE call == [at |-> "asking", used |-> <<m>>]
  <2>2. call \in AModelCall /\ Len(call.used) = 1 /\ call.used[1] = m
    BY DEF AModelCall
  <2>3. HealthyOK'
    BY <1>0, <1>1 DEF StartModelCall, HealthyOK, CanServe
  <2>4. CanServe(m) => UsedOK(call)'
    BY <1>1, <2>2 DEF UsedOK, StartModelCall, CanServe
  <2>5. PICK x : x = call
    OBVIOUS
  <2>6. modelCall' = [modelCall EXCEPT ![c] = x] /\ x \in AModelCall /\ Len(x.used) \in 0 .. 3 /\ Len(x.used) # 0
    BY <2>1, <2>2, <2>5
  <2>7. x.at # "idle" /\ CanServe(x.used[1]) => UsedOK(x)'
    BY <2>2, <2>4, <2>5
  <2>8. /\ circuits' \in [Models -> ACircuitOf] /\ UNCHANGED <<withKey, failedProviders>>
        /\ modelFailures' \in 0 .. MaxModelFailures
        /\ failedProviders \subseteq Providers /\ IsFiniteSet(failedProviders)
    BY <1>0, <1>1 DEF StartModelCall, FailoverTyped
  <2> HIDE DEF call
  <2> QED BY <2>3, <2>6, <2>7, <2>8, FailoverStepOf
<1>2. ASSUME NEW c \in ModelCalls, ModelAnswers(c) PROVE FailoverInv'
  <2>a. PICK call : call = [modelCall[c] EXCEPT !.at = "answered"]
    OBVIOUS
  <2>1. modelCall[c] \in AModelCall /\ Len(modelCall[c].used) \in 1 .. 3 /\ Using(c) \in Models
    BY <1>0, <1>2, InUse DEF ModelAnswers
  <2>2. call \in AModelCall /\ call.used = modelCall[c].used /\ call.at = "answered"
    BY <2>a, <2>1 DEF AModelCall
  <2>3. Closed \in ACircuitOf
    BY FailoverAssumption DEF Closed, ACircuitOf
  <2>4. circuits' \in [Models -> ACircuitOf]
    BY <1>0, <1>2, <2>3 DEF ModelAnswers, FailoverTyped
  <2>5. HealthyOK'
    BY <1>0, <1>2, <2>1 DEF ModelAnswers, HealthyOK, CanServe, FailoverTyped
  <2>6. CanServe(call.used[1]) => UsedOK(modelCall[c])
    BY <1>0, <1>2, <2>2 DEF UsedWell, ModelAnswers
  <2>7. CanServe(call.used[1]) => UsedOK(call)'
    BY <1>2, <2>2, <2>6 DEF UsedOK, ModelAnswers, CanServe, OneFails
  <2>8. modelCall' = [modelCall EXCEPT ![c] = call] /\ Len(call.used) \in 0 .. 3 /\ Len(call.used) # 0
    BY <1>2, <2>a, <2>1, <2>2 DEF ModelAnswers
  <2>9. /\ UNCHANGED <<withKey, failedProviders>> /\ modelFailures' \in 0 .. MaxModelFailures
        /\ failedProviders \subseteq Providers /\ IsFiniteSet(failedProviders)
    BY <1>0, <1>2 DEF ModelAnswers, FailoverTyped
  <2> QED BY <2>2, <2>4, <2>5, <2>7, <2>8, <2>9, FailoverStepOf
<1>3. ASSUME NEW c \in ModelCalls, modelCall[c].at = "asking", FailOver(c), UNCHANGED withKey,
             \/ /\ CanServe(Using(c)) /\ Prov(Using(c)) # "echo"
                /\ failedProviders' = failedProviders \cup {Prov(Using(c))} /\ modelFailures' \in 0 .. MaxModelFailures
             \/ ~CanServe(Using(c)) /\ UNCHANGED <<failedProviders, modelFailures>>
      PROVE  FailoverInv'
  <2> DEFINE m == Using(c)
             failed == [circuits EXCEPT ![m] = AfterModelFailure(@)]
             order == FailoverOrder(m)
             first == FirstAvailable(failed, order)
             call == GoOnCall(modelCall[c], order, first)
  <2>1. modelCall[c] \in AModelCall /\ Len(modelCall[c].used) \in 1 .. 3 /\ m \in Models
        /\ m = modelCall[c].used[Len(modelCall[c].used)]
    BY <1>0, <1>3, InUse
  <2>2. modelCall' = [modelCall EXCEPT ![c] = call]
    BY <1>3 DEF FailOver
  <2>3. Prov(m) # "echo" /\ m # "echo"
    BY <1>3, EchoServes DEF CanServe, Configured, Prov
  <2>4. order \in Seq(Models) /\ first \in 0 .. Len(order)
    <3>1. order \in Seq(Models)
      BY <2>1, <2>3, OrderAssumption DEF Prov
    <3> HIDE DEF order
    <3> QED BY <3>1, FirstFacts
  <2>5. circuits' \in [Models -> ACircuitOf] /\ \A n \in Models \ {m} : circuits'[n] = circuits[n] \/ circuits'[n] = Closed
    BY <1>0, <1>3, <2>1, CircuitsAfter
  <2>6. HealthyOK'
    <3>1. failedProviders' \subseteq failedProviders \cup {Prov(m)}
      BY <1>3
    <3>2. "echo" \notin failedProviders'
      BY <1>0, <2>3, <3>1 DEF HealthyOK
    <3>3. ASSUME NEW n \in Models, CanServe(n), Prov(n) \notin failedProviders' PROVE circuits'[n] = Closed
      <4>1. n # m /\ Prov(n) \notin failedProviders
        BY <1>3, <3>3
      <4> QED BY <1>0, <2>5, <3>3, <4>1 DEF HealthyOK
    <3> QED BY <1>3, <3>2, <3>3 DEF HealthyOK, CanServe
  <2>7. failed["echo"] = Closed
    <3>1. circuits["echo"] = Closed
      BY <1>0, EchoServes DEF HealthyOK
    <3> QED BY <1>0, <2>3, <3>1, EchoServes DEF FailoverTyped
  <2>8. call \in AModelCall /\ Len(call.used) \in 1 .. 3
    <3> DEFINE old == modelCall[c]
    <3>1. old \in AModelCall /\ Len(old.used) \in 1 .. 3 /\ old.used \in Seq(Models)
      BY <2>1 DEF AModelCall
    <3> HIDE DEF old, order, first
    <3>2. call = GoOnCall(old, order, first)
      BY DEF old
    <3>3. first # 0 => order[first] \in Models
      BY <2>4
    <3>4. CASE call = [old EXCEPT !.at = "error"]
      BY <3>1, <3>4 DEF AModelCall
    <3>5. CASE call = [old EXCEPT !.used = Append(old.used, order[first])] /\ first # 0 /\ Len(old.used) # 3
      <4>1. Append(old.used, order[first]) \in Seq(Models) /\ Len(Append(old.used, order[first])) \in 1 .. 3
        <5> DEFINE u == old.used
                   n == order[first]
        <5>1. u \in Seq(Models) /\ n \in Models /\ Len(u) \in 1 .. 3 /\ Len(u) # 3
          BY <3>1, <3>3, <3>5
        <5> HIDE DEF u, n
        <5>2. Append(u, n) \in Seq(Models) /\ Len(Append(u, n)) = Len(u) + 1
          BY <5>1
        <5>3. Len(u) + 1 \in 1 .. 3
          <6>1. \A k \in 1 .. 3 : k # 3 => k + 1 \in 1 .. 3
            OBVIOUS
          <6> QED BY <5>1, <6>1
        <5> QED BY <5>2, <5>3 DEF u, n
      <4> QED BY <3>1, <3>5, <4>1 DEF AModelCall
    <3> QED BY <3>2, <3>4, <3>5 DEF GoOnCall
  <2>9. call.used[1] = modelCall[c].used[1] /\ call.at # "idle"
    <3> DEFINE old == modelCall[c]
    <3>1. old \in AModelCall /\ Len(old.used) \in 1 .. 3 /\ old.used \in Seq(Models) /\ old.at = "asking"
      BY <1>3, <2>1 DEF AModelCall
    <3> HIDE DEF old, order, first
    <3>2. call = GoOnCall(old, order, first)
      BY DEF old
    <3>3. first # 0 => order[first] \in Models
      BY <2>4
    <3>4. CASE call = [old EXCEPT !.at = "error"]
      BY <3>1, <3>4 DEF AModelCall, old
    <3>5. CASE call = [old EXCEPT !.used = Append(old.used, order[first])] /\ first # 0
      <4>1. Append(old.used, order[first])[1] = old.used[1]
        BY <3>1, <3>3, <3>5
      <4> QED BY <3>1, <3>5, <4>1 DEF AModelCall, old
    <3> QED BY <3>2, <3>4, <3>5 DEF GoOnCall
  <2>10. CanServe(call.used[1]) => UsedOK(modelCall[c])
    BY <1>0, <1>3, <2>9 DEF UsedWell
  <2> HIDE DEF call, first, failed, m
  <2>b. PICK next : next = call
    OBVIOUS
  <2>11. CanServe(next.used[1]) => UsedOK(next)'
    <3> SUFFICES ASSUME CanServe(call.used[1]) PROVE UsedOK(next)'
      BY <2>b
    <3>1. UsedOK(modelCall[c])
      BY <2>10
    <3>2. CanServe(m)
      <4>1. Len(modelCall[c].used) \in 1 .. Len(modelCall[c].used)
        <5>1. \A k \in 1 .. 3 : k \in 1 .. k
          OBVIOUS
        <5> QED BY <2>1, <5>1
      <4> HIDE DEF CanServe
      <4> QED BY <2>1, <3>1, <4>1 DEF UsedOK
    <3>3. failedProviders' = failedProviders \cup {Prov(m)}
      BY <1>3, <3>2 DEF m
    <3>4. PICK old : old = modelCall[c]
      OBVIOUS
    <3>6. PICK f : f = first
      OBVIOUS
    <3>7. PICK g : g = failed
      OBVIOUS
    <3>8. PICK n : n = m
      OBVIOUS
    <3>9. old \in AModelCall /\ Len(old.used) \in 1 .. 3 /\ n = old.used[Len(old.used)] /\ old.at = "asking"
      BY <1>3, <2>1, <3>4, <3>8
    <3>10. n \in Models /\ Prov(n) # "echo" /\ failedProviders' = failedProviders \cup {Prov(n)} /\ withKey' = withKey
      BY <1>3, <2>1, <2>3, <3>3, <3>8
    <3>11. g["echo"] = Closed /\ f = FirstAvailable(g, FailoverOrder(n)) /\ next = GoOnCall(old, FailoverOrder(n), f)
      BY <2>7, <2>b, <3>4, <3>6, <3>7, <3>8 DEF first, call, m, failed
    <3>12. UsedOK(old)
      BY <3>1, <3>4
    <3> QED BY <1>0, <3>9, <3>10, <3>11, <3>12, GoesOnWell
  <2>12. failedProviders \subseteq failedProviders' /\ failedProviders' \subseteq Providers /\ IsFiniteSet(failedProviders')
    <3>1. Prov(m) \in Providers
      BY <2>1 DEF Prov, Providers
    <3>2. failedProviders' = failedProviders \/ failedProviders' = failedProviders \cup {Prov(m)}
      BY <1>3 DEF m
    <3> QED BY <1>0, <3>1, <3>2, FS_AddElement DEF FailoverTyped
  <2>13. modelFailures' \in 0 .. MaxModelFailures
    BY <1>0, <1>3 DEF FailoverTyped
  <2>14. next \in AModelCall /\ Len(next.used) \in 0 .. 3 /\ Len(next.used) # 0 /\ modelCall' = [modelCall EXCEPT ![c] = next]
    BY <2>b, <2>2, <2>8
  <2> QED BY <1>3, <2>5, <2>6, <2>11, <2>12, <2>13, <2>14, FailoverStepOf
<1>4. ASSUME NEW c \in ModelCalls, ModelFails(c) PROVE FailoverInv'
  BY <1>0, <1>3, <1>4, FailoverAssumption DEF ModelFails, FailoverTyped, Prov
<1>5. ASSUME NEW c \in ModelCalls, NoProvider(c) PROVE FailoverInv'
  BY <1>3, <1>5 DEF NoProvider
<1>6. ASSUME NEW c \in ModelCalls, NextModelCall(c) PROVE FailoverInv'
  <2>a. PICK call : call = [at |-> "idle", used |-> <<>>]
    OBVIOUS
  <2>1. call \in AModelCall /\ Len(call.used) \in 0 .. 3 /\ call.at = "idle"
    BY <2>a DEF AModelCall
  <2>2. HealthyOK'
    BY <1>0, <1>6 DEF NextModelCall, HealthyOK, CanServe
  <2>3. modelCall' = [modelCall EXCEPT ![c] = call]
    BY <1>6, <2>a DEF NextModelCall
  <2>4. /\ UNCHANGED <<withKey, failedProviders, circuits>> /\ modelFailures' \in 0 .. MaxModelFailures
        /\ circuits \in [Models -> ACircuitOf] /\ failedProviders \subseteq Providers /\ IsFiniteSet(failedProviders)
    BY <1>0, <1>6 DEF NextModelCall, FailoverTyped
  <2> QED BY <2>1, <2>2, <2>3, <2>4, FailoverStepOf
<1>7. ASSUME NEW m \in Models, CircuitCools(m) PROVE FailoverInv'
  <2>1. circuits' = [circuits EXCEPT ![m].cooled = TRUE] /\ circuits[m].failures = FailLimit
    BY <1>7 DEF CircuitCools, IsOpen
  <2>2. circuits' \in [Models -> ACircuitOf]
    BY <1>0, <2>1 DEF FailoverTyped, ACircuitOf
  <2>3. circuits[m] # Closed
    BY <2>1, FailoverAssumption DEF Closed
  <2>4. HealthyOK'
    BY <1>0, <1>7, <2>1, <2>3 DEF HealthyOK, CircuitCools, CanServe, FailoverTyped
  <2>5. FailoverTyped'
    BY <1>0, <1>7, <2>2 DEF FailoverTyped, CircuitCools
  <2>6. UsedWell'
    BY <1>0, <1>7 DEF UsedWell, UsedOK, CircuitCools, CanServe, OneFails
  <2> QED BY <2>4, <2>5, <2>6 DEF FailoverInv
<1>8. CASE UNCHANGED failoverVars
  BY <1>0, <1>8 DEF failoverVars, FailoverInv, FailoverTyped, HealthyOK, UsedWell, UsedOK, CanServe, OneFails
<1> QED BY <1>1, <1>2, <1>4, <1>5, <1>6, <1>7, <1>8 DEF FailoverNext

LEMMA FailoverInvType == FailoverInv => FailoverTypeOK
<1> SUFFICES ASSUME FailoverTyped PROVE FailoverTypeOK
  BY DEF FailoverInv
<1>1. \A k \in 0 .. 3 : k <= 3
  OBVIOUS
<1>2. \A c \in ModelCalls : /\ modelCall[c].at \in {"idle", "asking", "answered", "error"}
                            /\ modelCall[c].used \in Seq(Models)
  BY DEF FailoverTyped, AModelCall
<1>3. \A c \in ModelCalls : Len(modelCall[c].used) <= 3
  BY <1>1 DEF FailoverTyped
<1> QED BY <1>2, <1>3 DEF FailoverTyped, FailoverTypeOK, ACircuitOf

\* One flaky provider stalls nobody, for any calls, keys and circuits: with a
\* single provider failing, a call that began on a model that can serve ends in an
\* error only if nothing else could have answered.
THEOREM FlakyStallsNobody == FailoverSpec => []OneFlakyStallsNobody
<1>1. FailoverInv => OneFlakyStallsNobody
  <2> SUFFICES ASSUME FailoverInv, NEW c \in ModelCalls, modelCall[c].at = "error", CanServe(modelCall[c].used[1])
               PROVE  Cardinality(failedProviders) > 1
    BY DEF OneFlakyStallsNobody
  <2>1. PICK p \in failedProviders, q \in failedProviders : p # q
    BY DEF FailoverInv, UsedWell, UsedOK, OneFails
  <2>2. {p, q} \subseteq failedProviders /\ IsFiniteSet(failedProviders)
    BY DEF FailoverInv, FailoverTyped
  <2>3. Cardinality({p, q}) = 2
    <3>1. {p, q} = {p} \cup {q}
      OBVIOUS
    <3>2. IsFiniteSet({p}) /\ Cardinality({p}) = 1
      BY FS_Singleton
    <3>3. q \notin {p}
      BY <2>1
    <3>4. Cardinality({p} \cup {q}) = Cardinality({p}) + 1
      BY <3>2, <3>3, FS_AddElement
    <3> QED BY <3>1, <3>2, <3>4
  <2>4. Cardinality({p, q}) <= Cardinality(failedProviders) /\ Cardinality(failedProviders) \in Nat
    BY <2>2, FS_Subset, FS_CardinalityType
  <2> QED BY <2>3, <2>4
<1> QED BY <1>1, FailoverInitInv, FailoverStep, PTL DEF FailoverSpec

-----------------------------------------------------------------------------
(* The services as one system. A behaviour picks a part, the others wait:  *)
(* so each component behaves by its own specification, and a decision that *)
(* nobody asks for is never taken.                                         *)

DecisionsOK ==
  /\ IF part = "authority" THEN AnswerOK ELSE verdict = Open
  /\ IF part = "access" THEN accessFor \in AccessQuestion /\ AccessOK ELSE access = NoAccess
  /\ IF part = "policy" THEN policyFor \in PolicyQuestion /\ PolicyOK ELSE vetted = "open"
  /\ IF part = "routing" THEN routeFor \in RouteQuestion /\ RouteOK ELSE routed = RouteOpen
  /\ IF part = "patch" THEN PatchInv ELSE patched = <<"open">>

LEMMA PartsBegin ==
  ServicesInit =>
    /\ LedgerInit /\ InboxInit /\ MemInit /\ WorktreeInit /\ StageInit /\ SpawnInit /\ SpendingInit /\ McpInit
    /\ CheckpointInit /\ PerfInit /\ ListenerInit /\ DocumentsInit /\ FailoverInit /\ PlanInit
BY DEF ServicesInit

LEMMA PartsMove ==
  [ServicesNext]_serviceVars =>
    /\ [LedgerNext]_vars /\ [InboxNext]_inboxVars /\ [MemNext]_memVars /\ [WorktreeNext]_worktreeVars
    /\ [StageNext]_stageVars
    /\ [SpawnNext]_spawnVars /\ [SpendingNext]_spendingVars /\ [McpNext]_mcpVars
    /\ [CheckpointNext]_checkpointVars /\ [PerfNext]_perfVars /\ [ListenerNext]_listenerVars
    /\ [DocumentsNext]_documentVars /\ [FailoverNext]_failoverVars /\ [PlanNext]_planVars
    /\ [AuthorityNext]_authorityVars /\ [AccessNext]_accessVars /\ [PolicyNext]_policyVars
    /\ [RoutingNext]_routingVars /\ [PatchNext]_patchVars
    /\ UNCHANGED part
<1> SUFFICES ASSUME ServicesNext \/ UNCHANGED serviceVars
             PROVE  /\ [LedgerNext]_vars /\ [InboxNext]_inboxVars /\ [MemNext]_memVars /\ [WorktreeNext]_worktreeVars
                    /\ [StageNext]_stageVars /\ [SpawnNext]_spawnVars /\ [SpendingNext]_spendingVars
                    /\ [McpNext]_mcpVars /\ [CheckpointNext]_checkpointVars /\ [PerfNext]_perfVars
                    /\ [ListenerNext]_listenerVars /\ [DocumentsNext]_documentVars
                    /\ [FailoverNext]_failoverVars /\ [PlanNext]_planVars
                    /\ [AuthorityNext]_authorityVars /\ [AccessNext]_accessVars
                    /\ [PolicyNext]_policyVars /\ [RoutingNext]_routingVars /\ [PatchNext]_patchVars
                    /\ UNCHANGED part
  OBVIOUS
<1>1. CASE UNCHANGED serviceVars
  BY <1>1 DEF serviceVars
<1>2. CASE ServicesNext
  BY <1>2 DEF ServicesNext, OthersWait, LedgerMoves, InboxMoves, MemoryMoves, WorktreesMove, StageMoves,
     SpawningMoves, FailoverMoves, SpendingMoves, McpMoves, CheckpointsMove, AuthorityDecides, PlanMoves,
     RoutingDecides, AccessDecides, PolicyDecides, PatchApplies, PerformanceMoves, ListenerMoves,
     DocumentsMove
<1> QED BY <1>1, <1>2

\* A question that waits stays open.
LEMMA DecisionsWait ==
  [ServicesNext]_serviceVars =>
    /\ part # "authority" => UNCHANGED authorityVars
    /\ part # "access" => UNCHANGED accessVars
    /\ part # "policy" => UNCHANGED policyVars
    /\ part # "routing" => UNCHANGED routingVars
    /\ part # "patch" => UNCHANGED patchVars
<1>1. CASE UNCHANGED serviceVars
  BY <1>1 DEF serviceVars
<1>2. CASE ServicesNext
  BY <1>2 DEF ServicesNext, OthersWait, LedgerMoves, InboxMoves, MemoryMoves, WorktreesMove, StageMoves,
     SpawningMoves, FailoverMoves, SpendingMoves, McpMoves, CheckpointsMove, AuthorityDecides, PlanMoves,
     RoutingDecides, AccessDecides, PolicyDecides, PatchApplies, PerformanceMoves, ListenerMoves,
     DocumentsMove
<1> QED BY <1>1, <1>2

LEMMA DecisionsInit == ServicesInit => DecisionsOK
BY AnswerInit DEF ServicesInit, DecisionsOK, AccessInit, AccessOK, PolicyInit, PolicyOK, RoutingInit, RouteOK,
   PatchInit, PatchInv, PatchOK

LEMMA DecisionsStep == DecisionsOK /\ [ServicesNext]_serviceVars => DecisionsOK'
<1> SUFFICES ASSUME DecisionsOK, [ServicesNext]_serviceVars PROVE DecisionsOK'
  OBVIOUS
<1>1. UNCHANGED part
  BY PartsMove
<1>2. (IF part = "authority" THEN AnswerOK ELSE verdict = Open)'
  BY <1>1, PartsMove, DecisionsWait, AnswerStep DEF DecisionsOK, authorityVars
<1>3. (IF part = "access" THEN accessFor \in AccessQuestion /\ AccessOK ELSE access = NoAccess)'
  BY <1>1, PartsMove, DecisionsWait, AccessStep DEF DecisionsOK, accessVars
<1>4. (IF part = "policy" THEN policyFor \in PolicyQuestion /\ PolicyOK ELSE vetted = "open")'
  BY <1>1, PartsMove, DecisionsWait, PolicyStep DEF DecisionsOK, policyVars
<1>5. (IF part = "routing" THEN routeFor \in RouteQuestion /\ RouteOK ELSE routed = RouteOpen)'
  BY <1>1, PartsMove, DecisionsWait, RouteStep DEF DecisionsOK, routingVars
<1>6. (IF part = "patch" THEN PatchInv ELSE patched = <<"open">>)'
  BY <1>1, PartsMove, DecisionsWait, PatchStep DEF DecisionsOK, patchVars
<1> QED BY <1>2, <1>3, <1>4, <1>5, <1>6 DEF DecisionsOK

\* Every component of the services behaves by its own specification, so that
\* what is proved of it alone holds of it among the others: what the parts of
\* MCServices do is what their modules say.
THEOREM ServicesRunTheirParts ==
  ServicesSpec =>
    /\ LedgerSpec /\ InboxSpec /\ MemSpec /\ WorktreeSpec /\ StageSpec /\ SpawnSpec /\ SpendingSpec /\ McpSpec
    /\ CheckpointSpec /\ PerfSpec /\ ListenerSpec /\ DocumentsSpec /\ FailoverSpec /\ PlanSpec
<1> QED
  BY PartsBegin, PartsMove, PTL DEF ServicesSpec, LedgerSpec, InboxSpec, MemSpec, WorktreeSpec, StageSpec, SpawnSpec,
     SpendingSpec, McpSpec, CheckpointSpec, PerfSpec, ListenerSpec, DocumentsSpec,
     FailoverSpec, PlanSpec

\* What was saved is found again after a crash: the point a run resumes at
\* (checkpoints.py) and the rows a start copies from the old store
\* (relational.py).
THEOREM RecordsDoSurvive == ServicesSpec => []RecordsSurvive
<1>1. ResumesWhereItStopped /\ DocumentsAreKept => RecordsSurvive
  BY DEF RecordsSurvive
<1> QED
  BY <1>1, ServicesRunTheirParts, RunsResumeWhereTheyStopped, DocumentsStayKept, PTL

\* A model is taken on what was reported of an agent and within the bounds
\* that were asked for: the record's advice and what router.py makes of it.
THEOREM ModelsAreTakenOnMerit == ServicesSpec => []RoutedOnMerit
<1>1. DecisionsOK => RouteInBounds
  BY RouteBounds DEF DecisionsOK, RouteInBounds
<1>2. RecordIsFair /\ RouteInBounds => RoutedOnMerit
  BY DEF RoutedOnMerit
<1> QED
  BY <1>1, <1>2, ServicesRunTheirParts, RecordsStayFair, DecisionsInit, DecisionsStep, PTL DEF ServicesSpec

\* The two ladders of mcp_registry.py let the same tools past the server's side,
\* so that an offered tool is refused for the agent's own permission only, and
\* no order of the policies changes what they decide (policy.py).
THEOREM PermissionsDoAgree == ServicesSpec => []PermissionsAgree
<1>1. DecisionsOK => RefusedForPermissionOnly /\ OrderIsImmaterial
  BY AccessAgrees, OrderAgrees DEF DecisionsOK, RefusedForPermissionOnly, OrderIsImmaterial
<1>2. RefusedForPermissionOnly /\ OrderIsImmaterial => PermissionsAgree
  BY DEF PermissionsAgree
<1> QED
  BY <1>1, <1>2, DecisionsInit, DecisionsStep, PTL DEF ServicesSpec

\* What is decided in one step is right: who may do and read what, over the
\* chart (delegation.py, scoping.py), and what a diff makes of a file
\* (builtin.py), among the other parts as alone.
THEOREM DecisionsAreSound == ServicesSpec => [](ChartIsHonoured /\ UnshiftedPatchesApply)
<1>1. verdict = Open => ChartIsHonoured
  BY DEF ChartIsHonoured, AutoPicksWell, MemoryStaysInLine
<1>2. AnswerOK => ChartIsHonoured
  BY AutoWell, InLine DEF ChartIsHonoured
<1>3. PatchInv => PatchOK
  BY DEF PatchInv
<1>4. patched = <<"open">> => PatchOK
  BY DEF PatchOK
<1>5. DecisionsOK => ChartIsHonoured /\ UnshiftedPatchesApply
  BY <1>1, <1>2, <1>3, <1>4, PatchesApply DEF DecisionsOK
<1> QED
  BY <1>5, DecisionsInit, DecisionsStep, PTL DEF ServicesSpec

\* Every part keeps its state in the shape its module gives. For a run that
\* spends these are the last of its scopes, for a record the windows still to
\* come; the counter of sub-agents at work never falls below zero.
THEOREM ServicesKeepTypes == ServicesSpec => []ServicesTypeOK
<1>m. InboxInv /\ [InboxNext]_inboxVars => InboxInv'
  BY InboxStepInv
<1>1. InboxSpec => []InboxInv
  BY InboxInitInv, <1>m, PTL DEF InboxSpec
<1>2. MemSpec => []MemInv
  BY MemInitInv, MemStepInv, PTL DEF MemSpec
<1>3. WorktreeSpec => []WorktreeInv
  BY WorktreeInitInv, WorktreeStepInv, PTL DEF WorktreeSpec
<1>4. StageSpec => []StageInv
  BY StageInitInv, StageStepInv, PTL DEF StageSpec
<1>5. SpawnSpec => []SpawnInv
  BY SpawnInitInv, SpawnStepInv, PTL DEF SpawnSpec
<1>6. FailoverSpec => []FailoverInv
  BY FailoverInitInv, FailoverStep, PTL DEF FailoverSpec
<1>7. SpendingSpec => [](SpendingInv /\ ScopesToGo)
  BY SpendingInitInv, SpendingStepInv, ScopesToGoInit, ScopesToGoStep, PTL DEF SpendingSpec
<1>8. McpSpec => []McpInv
  BY McpInitInv, McpStepInv, PTL DEF McpSpec
<1>9. CheckpointSpec => []CheckpointInv
  BY CheckpointInitInv, CheckpointStepInv, PTL DEF CheckpointSpec
<1>10. PerfSpec => [](PerfInv /\ WindowsToGo)
  BY PerfInitInv, PerfStepInv, WindowsToGoInit, WindowsToGoStep, PTL DEF PerfSpec
<1>11. ListenerSpec => [](ListenerInv /\ ListenerCounts)
  BY ListenerInitInv, ListenerStepInv, ListenerCountsInit, ListenerCountsStep, PTL DEF ListenerSpec
<1>12. DocumentsSpec => [](RowsOK /\ BootTyped)
  BY RowsInit, RowsStep, BootTypedInit, BootTypedStep, PTL DEF DocumentsSpec
<1>13. InboxInv /\ WorktreeInv /\ StageInv /\ SpawnInv /\ McpInv /\ CheckpointInv =>
         /\ InboxTypeOK /\ WorktreeTypeOK /\ StageTypeOK /\ SpawnTypeOK /\ McpTypeOK /\ CheckpointTypeOK
  BY DEF InboxInv, WorktreeInv, StageInv, SpawnInv, McpInv, CheckpointInv
<1>14. /\ LedgerTypeOK /\ InboxTypeOK /\ MemTypeOK /\ WorktreeTypeOK /\ StageTypeOK /\ SpawnTypeOK
       /\ FailoverTypeOK /\ SpendingTypeOK /\ McpTypeOK /\ CheckpointTypeOK
       /\ PerfTypeOK /\ ListenerTypeOK /\ DocumentsTypeOK
       => ServicesTypeOK
  BY DEF ServicesTypeOK
<1> QED
  BY <1>1, <1>2, <1>3, <1>4, <1>5, <1>6, <1>7, <1>8, <1>9, <1>10, <1>11, <1>12, <1>13, <1>14,
     ServicesRunTheirParts, LedgerTypeCorrect, MemInvType, FailoverInvType, SpendingInvType, PerfInvType,
     ListenerInvType, RowsBootType, PTL

=============================================================================
