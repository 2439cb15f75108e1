-------------------------------- MODULE Inbox --------------------------------
(***************************************************************************)
(* agentos/messaging/inbox.py: the messages agents send each other, and    *)
(* who reads them.                                                         *)
(*                                                                         *)
(* A message is known by its place in the mail. Reading it and saving it   *)
(* again have an await in between: the worker that marks a run's messages  *)
(* delivered, and the agent that answers one, both save the document they  *)
(* read. A run's prompt shows the messages that are still "sent".          *)
(***************************************************************************)
EXTENDS Naturals, Sequences, FiniteSets

CONSTANTS
  Peers,        \* agents
  MailProjects, \* projects messages belong to
  Readers,      \* runs of agents that may be under way at the same time
  Answerers,    \* calls of respond and agent.resolve under way
  SentKinds,    \* kinds of messages that start a conversation
  Verdicts,     \* words on a challenge: accept, reject, escalate
  MaxStarts,    \* bound on the conversations of a behaviour
  MaxMail,      \* bound on its messages
  DrainLimit    \* messages a worker marks delivered per run; 10 in the code

ASSUME InboxAssumption ==
  /\ Peers # {} /\ MailProjects # {}
  /\ SentKinds \subseteq {"task_request", "handoff", "challenge", "failure"}
  /\ Verdicts \subseteq {"accept", "reject", "escalate"}
  /\ MaxStarts \in Nat /\ MaxMail \in Nat
  /\ DrainLimit \in Nat \ {0}

VARIABLES
  mail,    \* the collection "messages", oldest first
  reader,  \* per run, how far it is with its messages
  answer,  \* per answer, how far it is
  shown    \* history: messages some prompt has shown

inboxVars == <<mail, reader, answer, shown>>

\* The kinds the model tells apart: what prompts show, what they do not
\* (failures, blockers, escalations and results), and what respond turns
\* into something else.
Kinds == {"task_request", "handoff", "challenge", "decision", "question", "task_result", "failure"}

PromptKinds == {"task_request", "handoff", "challenge", "decision", "question"}

AgentMessage ==
  [kind : Kinds, from : Peers, to : Peers, project : MailProjects,
   status : {"sent", "delivered", "answered"},
   re : 0 .. MaxMail,                     \* the message it answers, 0 for none
   verdict : Verdicts \cup {"open"}]      \* of a challenge or of a decision

NoCopy == [kind |-> "none"]

\* Where a run, or an answer, is before it starts and after it ends.
NoRead == [pc |-> "idle", agent |-> CHOOSE p \in Peers : TRUE,
           project |-> CHOOSE p \in MailProjects : TRUE, todo |-> {}, of |-> 0, copy |-> NoCopy]

NoAnswer == [pc |-> "idle", of |-> 0, copy |-> NoCopy, verdict |-> "open"]

InboxTypeOK ==
  /\ mail \in Seq(AgentMessage) /\ Len(mail) <= MaxMail
  /\ reader \in [Readers -> [pc : {"idle", "drain", "save", "prompt"}, agent : Peers,
                            project : MailProjects, todo : SUBSET (1 .. MaxMail),
                            of : 0 .. MaxMail, copy : AgentMessage \cup {NoCopy}]]
  /\ answer \in [Answerers -> [pc : {"idle", "save", "send"}, of : 0 .. MaxMail,
                               copy : AgentMessage \cup {NoCopy},
                               verdict : Verdicts \cup {"open"}]]
  /\ shown \subseteq 1 .. MaxMail

InboxInit ==
  /\ mail = <<>>
  /\ reader = [r \in Readers |-> NoRead]
  /\ answer = [a \in Answerers |-> NoAnswer]
  /\ shown = {}

-----------------------------------------------------------------------------
(* Sending and reading *)

Message(kind, from, to, project, re, verdict) ==
  [kind |-> kind, from |-> from, to |-> to, project |-> project,
   status |-> "sent", re |-> re, verdict |-> verdict]

\* Messages sent, and answers that still have to be: what MaxMail bounds.
Room == Len(mail) + Cardinality({a \in Answerers : answer[a].pc # "idle"}) < MaxMail

Starts == {i \in 1 .. Len(mail) : mail[i].re = 0}

Send(m) == mail' = Append(mail, m)

\* send_task_request, send_handoff, send_challenge, and the report of a
\* failed run to the parent.
SendNew(kind, from, to, project) ==
  /\ from # to
  /\ Room
  /\ Cardinality(Starts) < MaxStarts
  /\ Send(Message(kind, from, to, project, 0, "open"))
  /\ UNCHANGED <<reader, answer, shown>>

\* What inbox returns: the last messages to an agent still unread.
Unread(agent, limit) ==
  LET mine == {i \in 1 .. Len(mail) : mail[i].to = agent /\ mail[i].status = "sent"}
  IN  {i \in mine : Cardinality({j \in mine : j > i}) < limit}

\* run_single_task lists what it is going to mark; the run of a stage or of
\* a sub-agent does not.
StartReading(r, agent, project, byWorker) ==
  /\ reader[r].pc = "idle"
  /\ reader' = [reader EXCEPT ![r] =
        [NoRead EXCEPT !.pc = IF byWorker THEN "drain" ELSE "prompt",
                       !.agent = agent, !.project = project,
                       !.todo = IF byWorker THEN Unread(agent, DrainLimit) ELSE {}]]
  /\ UNCHANGED <<mail, answer, shown>>

\* mark_delivered, the read and the save, of the oldest one to go.
DeliverRead(r) ==
  /\ reader[r].pc = "drain"
  /\ \E i \in reader[r].todo :
       /\ \A j \in reader[r].todo : i <= j
       /\ reader' = [reader EXCEPT ![r].pc = "save", ![r].of = i, ![r].copy = mail[i]]
  /\ UNCHANGED <<mail, answer, shown>>

Delivered(m) == [m EXCEPT !.status = "delivered"]

DeliverSave(r) ==
  /\ reader[r].pc = "save"
  /\ mail' = [mail EXCEPT ![reader[r].of] = Delivered(reader[r].copy)]
  /\ reader' = [reader EXCEPT ![r].pc = "drain", ![r].copy = NoCopy, ![r].of = 0,
                              ![r].todo = @ \ {reader[r].of}]
  /\ UNCHANGED <<answer, shown>>

Drained(r) ==
  /\ reader[r].pc = "drain" /\ reader[r].todo = {}
  /\ reader' = [reader EXCEPT ![r].pc = "prompt"]
  /\ UNCHANGED <<mail, answer, shown>>

\* _build_prompt shows what is unread, of the kinds and the project that
\* concern the run. (Its own limits, 40 read and 8 shown, exceed MaxMail.)
Prompt(r) ==
  /\ reader[r].pc = "prompt"
  /\ shown' = shown \cup
       {i \in 1 .. Len(mail) : /\ mail[i].to = reader[r].agent
                              /\ mail[i].status = "sent"
                              /\ mail[i].kind \in PromptKinds
                              /\ mail[i].project = reader[r].project}
  /\ reader' = [reader EXCEPT ![r] = NoRead]
  /\ UNCHANGED <<mail, answer>>

-----------------------------------------------------------------------------
(* Answering *)

\* respond and resolve_challenge read the original, whatever has been said of
\* it before. (Whoever has its id may; the model has its recipient do it.)
AnswerRead(a, i, verdict) ==
  /\ answer[a].pc = "idle"
  /\ Room
  /\ verdict \in Verdicts => mail[i].kind = "challenge"
  /\ answer' = [answer EXCEPT ![a] =
        [pc |-> "save", of |-> i, copy |-> mail[i], verdict |-> verdict]]
  /\ UNCHANGED <<mail, reader, shown>>

\* Mutant: only a verdict closes a message, an answer leaves its status.
AnsweredIfDecided(m, verdict) ==
  IF verdict = "open" THEN m ELSE [m EXCEPT !.status = "answered", !.verdict = verdict]

\* A verdict goes into the payload of the challenge; an answer leaves it.
Answered(m, verdict) ==
  [m EXCEPT !.status = "answered", !.verdict = IF verdict = "open" THEN @ ELSE verdict]

AnswerSave(a) ==
  /\ answer[a].pc = "save"
  /\ mail' = [mail EXCEPT ![answer[a].of] = Answered(answer[a].copy, answer[a].verdict)]
  /\ answer' = [answer EXCEPT ![a].pc = "send"]
  /\ UNCHANGED <<reader, shown>>

\* The message that carries the answer, or the verdict, to the sender of the
\* original.
Reply(x) ==
  LET m == x.copy
  IN  Message(CASE x.verdict # "open" -> "decision"
                [] m.kind = "task_request" -> "task_result"
                [] OTHER -> "question",
              m.to, m.from, m.project, x.of, x.verdict)

AnswerSend(a) ==
  /\ answer[a].pc = "send"
  /\ Send(Reply(answer[a]))
  /\ answer' = [answer EXCEPT ![a] = NoAnswer]
  /\ UNCHANGED <<reader, shown>>

InboxNext ==
  \/ \E k \in SentKinds, f, t \in Peers, p \in MailProjects : SendNew(k, f, t, p)
  \/ \E r \in Readers : \/ \E g \in Peers, p \in MailProjects, w \in BOOLEAN : StartReading(r, g, p, w)
                        \/ DeliverRead(r) \/ DeliverSave(r) \/ Drained(r) \/ Prompt(r)
  \/ \E a \in Answerers : \/ \E i \in 1 .. Len(mail), v \in Verdicts \cup {"open"} : AnswerRead(a, i, v)
                          \/ AnswerSave(a) \/ AnswerSend(a)

-----------------------------------------------------------------------------
(* Properties *)

\* A message that has been delivered or answered never becomes unread again,
\* whichever of the copies that runs and answers hold is saved last: no
\* agent is handed the same message as new after it was dealt with.
InboxNeverRefills ==
  [][\A i \in 1 .. Len(mail) : mail[i].status # "sent" => mail'[i].status # "sent"]_inboxVars

\* What the store says of a challenge is what its sender was told: a verdict
\* on a challenge has its decision in the sender's mail, or an answer that
\* is about to put it there, also when two agents resolve it at once.
VerdictIsTold ==
  \A i \in 1 .. Len(mail) :
    mail[i].kind = "challenge" /\ mail[i].verdict # "open" =>
      \/ \E j \in 1 .. Len(mail) : /\ mail[j].kind = "decision" /\ mail[j].re = i
                                  /\ mail[j].to = mail[i].from
                                  /\ mail[j].verdict = mail[i].verdict
      \/ \E a \in Answerers : /\ answer[a].pc = "send" /\ answer[a].of = i
                             /\ answer[a].verdict = mail[i].verdict

\* Both of them: the copies that runs and answers save over each other
\* neither bring a message back nor make a verdict differ from its decision.
MailIsHonest == []VerdictIsTold /\ InboxNeverRefills

\* "drain structured messages so the agent starts with full context": once
\* the runs are over, what was delivered has been in a prompt. The code
\* marks first and shows what is unmarked.
DrainedIsShown ==
  (\A r \in Readers : reader[r].pc = "idle") =>
    \A i \in 1 .. Len(mail) :
      mail[i].status = "delivered" /\ mail[i].kind \in PromptKinds => i \in shown
=============================================================================
