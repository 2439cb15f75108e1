------------------------------ MODULE FactMemory ------------------------------
(***************************************************************************)
(* agentos/memory/store.py: what one owner knows on one topic, that is the *)
(* entries whose kind and topic key are the same. A call of save_fact,     *)
(* recall, consolidate or archive lists the entries, then saves the copies *)
(* it holds, one after the other, with awaits in between.                  *)
(*                                                                         *)
(* An entry is known by its place in facts. Ranking, tags, confidence and  *)
(* provenance are left out. Time is the age of an entry: "stale" is what   *)
(* consolidate forgets and a save makes fresh again, "over" is an entry    *)
(* whose validity or expiry has passed.                                    *)
(***************************************************************************)
EXTENDS Naturals, Sequences, FiniteSets, Picking

CONSTANTS
  Contents,    \* statements on the topic
  Negations,   \* those of them that negate or replace an earlier one
  MemCalls,    \* calls that may be under way at the same time
  MaxFacts,    \* bound on the entries of a behaviour
  MaxMemCalls  \* bound on its calls

ASSUME FactAssumption ==
  /\ Negations \subseteq Contents /\ IsFiniteSet(MemCalls)
  /\ MaxFacts \in Nat /\ MaxMemCalls \in Nat

VARIABLES
  facts,       \* the collection "memory": the entries, oldest first
  links,       \* the collection "memory_links"
  memCall,     \* per call, the saves it has still to make
  begun,       \* calls begun so far
  said,        \* history: the statements of save_fact, the last one last
  memCrashed,  \* history: a call died half-way
  overlapped,  \* history: two calls were under way at the same time
  plain,       \* history: an entry was saved without regard to the topic
  forgotten    \* history: an entry was archived for its age or on request

memVars == <<facts, links, memCall, begun, said, memCrashed, overlapped, plain, forgotten>>

MemoryEntry ==
  [content : Contents, importance : 1 .. 2, archived : BOOLEAN,
   supersedes : 0 .. MaxFacts, age : {"fresh", "stale", "over"}]

MemoryLink ==
  [source : 1 .. MaxFacts, target : 1 .. MaxFacts, relation : {"supersedes", "contradicts"}]

MemTypeOK ==
  /\ facts \in Seq(MemoryEntry) /\ Len(facts) <= MaxFacts
  /\ links \subseteq MemoryLink
  /\ \A c \in MemCalls : \A k \in 1 .. Len(memCall[c]) :
       LET s == memCall[c][k] IN
         \/ s.op = "save" /\ s.at \in 1 .. Len(facts) /\ s.entry \in MemoryEntry
         \/ s.op = "new" /\ s.entry \in MemoryEntry

MemInit ==
  /\ facts = <<>> /\ links = {}
  /\ memCall = [c \in MemCalls |-> <<>>]
  /\ said = <<>> /\ begun = 0
  /\ memCrashed = FALSE /\ overlapped = FALSE /\ plain = FALSE /\ forgotten = FALSE

-----------------------------------------------------------------------------
(* Helpers *)

NewEntry(content, importance, supersedes) ==
  [content |-> content, importance |-> importance, archived |-> FALSE,
   supersedes |-> supersedes, age |-> "fresh"]

Touched(e) == [e EXCEPT !.age = IF @ = "over" THEN "over" ELSE "fresh"]

Archived(e) == [Touched(e) EXCEPT !.archived = TRUE]

Active == {i \in 1 .. Len(facts) : ~facts[i].archived}

SaveOf(i, e) == [op |-> "save", at |-> i, entry |-> e]

Oldest(S) == CHOOSE i \in S : \A j \in S : i <= j

\* The saves of the entries at some places, as the call knows them.
Saves(places, known) == Picked([i \in 1 .. Len(facts) |-> SaveOf(i, known[i])], places)

\* A call lists the entries and goes on with these saves.
Begin(c, saves) ==
  /\ memCall[c] = <<>>
  /\ begun < MaxMemCalls /\ begun' = begun + 1
  /\ memCall' = [memCall EXCEPT ![c] = saves]
  /\ overlapped' = (overlapped \/ \E d \in MemCalls \ {c} : memCall[d] # <<>>)

\* Entries that calls under way are going to add.
Coming == {c \in MemCalls : \E k \in 1 .. Len(memCall[c]) : memCall[c][k].op = "new"}

RoomForFact == Len(facts) + Cardinality(Coming) < MaxFacts

-----------------------------------------------------------------------------
(* Calls *)

\* save: what agents keep with memory.save, whatever is known already.
PlainSave(content, importance) ==
  /\ RoomForFact
  /\ begun < MaxMemCalls /\ begun' = begun + 1
  /\ facts' = Append(facts, NewEntry(content, importance, 0))
  /\ plain' = TRUE
  /\ UNCHANGED <<links, memCall, said, memCrashed, overlapped, forgotten>>

\* save_fact with an entry on the topic that is the same statement.
Refresh(c, i, content, importance) ==
  /\ i \in Active /\ facts[i].content = content
  /\ Begin(c, <<SaveOf(i, [Touched(facts[i]) EXCEPT !.importance = IF importance > @ THEN importance ELSE @])>>)

\* Mutant: the prior version is not archived.
ReplaceKeepsPrior(c, i, content, importance) ==
  /\ i \in Active /\ facts[i].content # content
  /\ RoomForFact
  /\ Begin(c, <<[op |-> "new", entry |-> NewEntry(content, importance, i)]>>)

\* save_fact with one that says something else: archive it, then save the
\* new version, then link the two (Relation below).
Replace(c, i, content, importance) ==
  /\ i \in Active /\ facts[i].content # content
  /\ RoomForFact
  /\ Begin(c, <<SaveOf(i, Archived(facts[i])), [op |-> "new", entry |-> NewEntry(content, importance, i)]>>)

\* save_fact with none.
FirstFact(c, content, importance) ==
  /\ Active = {}
  /\ RoomForFact
  /\ Begin(c, <<[op |-> "new", entry |-> NewEntry(content, importance, 0)]>>)

\* The store lists entries in no given order: the prior version is any one
\* of the active ones.
SaveFact(c, content, importance) ==
  /\ \/ \E i \in Active : Refresh(c, i, content, importance) \/ Replace(c, i, content, importance)
     \/ FirstFact(c, content, importance)
  /\ said' = <<content>>
  /\ UNCHANGED <<facts, links, memCrashed, plain, forgotten>>

\* recall archives what is over and touches everything it returns.
Recall(c) ==
  LET over == {i \in Active : facts[i].age = "over"}
      archived == [i \in 1 .. Len(facts) |-> Archived(facts[i])]
      touched == [i \in 1 .. Len(facts) |-> Touched(facts[i])]
  IN  /\ Active # {}
      /\ Begin(c, Saves(over, archived) \o Saves(Active \ over, touched))
      /\ forgotten' = (forgotten \/ over # {})
      /\ UNCHANGED <<facts, links, said, memCrashed, plain>>

\* The second half of consolidate, for one entry: it gives its importance to
\* the first less important one with the same content, and is archived.
\* known holds the copies as they are by now, saves what is to be saved.
MergeOne(acc, i) ==
  LET e == acc.known[i]
      twins == {j \in DOMAIN acc.known : /\ j # i /\ ~acc.known[j].archived
                                         /\ acc.known[j].content = e.content
                                         /\ acc.known[j].importance < e.importance}
      kept == [Touched(acc.known[Oldest(twins)]) EXCEPT !.importance = e.importance]
  IN  IF e.archived \/ twins = {} THEN acc
      ELSE [known |-> [acc.known EXCEPT ![i] = Archived(e), ![Oldest(twins)] = kept],
            saves |-> acc.saves \o <<SaveOf(i, Archived(e)), SaveOf(Oldest(twins), kept)>>]

MergedFrom(acc) ==
  LET merged[n \in 0 .. Len(facts)] == IF n = 0 THEN acc ELSE MergeOne(merged[n - 1], n)
  IN  merged[Len(facts)]

Consolidate(c) ==
  LET old == {i \in Active : facts[i].age # "fresh"}
      aged == [i \in 1 .. Len(facts) |-> IF i \in old THEN Archived(facts[i]) ELSE facts[i]]
  IN  /\ Begin(c, MergedFrom([known |-> aged, saves |-> Saves(old, aged)]).saves)
      /\ memCall'[c] # <<>>
      /\ forgotten' = (forgotten \/ old # {})
      /\ UNCHANGED <<facts, links, said, memCrashed, plain>>

\* archive, by its id.
ArchiveEntry(c, i) ==
  /\ Begin(c, <<SaveOf(i, Archived(facts[i]))>>)
  /\ forgotten' = TRUE
  /\ UNCHANGED <<facts, links, said, memCrashed, plain>>

\* The relation of a new version to the one it replaces.
Relation(content) == IF content \in Negations THEN "contradicts" ELSE "supersedes"

\* The next save of a call. A new version is linked right after it is saved;
\* nobody reads links in between.
SaveNext(c) ==
  /\ memCall[c] # <<>>
  /\ LET s == Head(memCall[c]) IN
       IF s.op = "save"
       THEN facts' = [facts EXCEPT ![s.at] = s.entry] /\ UNCHANGED links
       ELSE /\ facts' = Append(facts, s.entry)
            /\ links' = links \cup
                 {[source |-> Len(facts) + 1, target |-> s.entry.supersedes,
                   relation |-> Relation(s.entry.content)] : x \in {0} \ {s.entry.supersedes}}
  /\ memCall' = [memCall EXCEPT ![c] = Tail(@)]
  /\ UNCHANGED <<begun, said, memCrashed, overlapped, plain, forgotten>>

\* The process of a call dies, or its run is cancelled.
MemCrash(c) ==
  /\ memCall[c] # <<>> /\ ~memCrashed
  /\ memCall' = [memCall EXCEPT ![c] = <<>>]
  /\ memCrashed' = TRUE
  /\ UNCHANGED <<facts, links, begun, said, overlapped, plain, forgotten>>

\* Time passes. (Bound: one entry at a time is no longer fresh.)
Age(i, age) ==
  /\ i \in Active
  /\ \A j \in 1 .. Len(facts) : facts[j].age = "fresh"
  /\ facts' = [facts EXCEPT ![i].age = age]
  /\ UNCHANGED <<links, memCall, begun, said, memCrashed, overlapped, plain, forgotten>>

MemNext ==
  \/ \E c \in MemCalls :
       \/ \E s \in Contents : SaveFact(c, s, 1)
       \/ Recall(c) \/ Consolidate(c) \/ SaveNext(c) \/ MemCrash(c)
       \/ \E i \in 1 .. Len(facts) : ArchiveEntry(c, i)
  \/ \E s \in Contents, n \in 1 .. 2 : PlainSave(s, n)
  \/ \E i \in 1 .. Len(facts) , a \in {"stale", "over"} : Age(i, a)

-----------------------------------------------------------------------------
(* Properties *)

Quiet == \A c \in MemCalls : memCall[c] = <<>>

\* What is known stays known: however the calls of save_fact, recall and
\* consolidate overlap, an owner who was told something on a topic has an
\* active entry on it, unless an entry was forgotten for its age or on
\* request. Every archiving is followed by the save of an active version;
\* a process that dies in between is what breaks it.
KnownStaysKnown ==
  Quiet /\ facts # <<>> /\ ~memCrashed /\ ~forgotten => Active # {}

\* Calls that come one at a time version a topic: one entry on it is active
\* and it is what was said last, all others are archived and linked from
\* what replaced them. Two calls that overlap leave two versions.
AloneItVersions ==
  Quiet /\ ~overlapped /\ ~memCrashed /\ ~plain =>
    /\ ~forgotten => {facts[i].content : i \in Active} = {said[k] : k \in DOMAIN said}
    /\ Cardinality(Active) <= 1
    /\ \A i \in 1 .. Len(facts) : facts[i].supersedes # 0 =>
         \E l \in links : l.source = i /\ l.target = facts[i].supersedes

\* Both of them: what an owner knows on a topic survives its own updates.
TopicsAreKept == KnownStaysKnown /\ AloneItVersions
=============================================================================
