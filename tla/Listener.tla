-------------------------------- MODULE Listener --------------------------------
(***************************************************************************)
(* agentos/integrations/mattermost: the listener asks one channel after    *)
(* the other for the posts since it last asked, and handles them one by    *)
(* one before it notes the time. Posts arrive, and the clock goes on,      *)
(* while it does.                                                          *)
(*                                                                         *)
(* All the posts that decide something decide the same approval. What a    *)
(* request for work starts is in other modules, and is never raised here;  *)
(* commands that only answer are posts of kind "work" too.                 *)
(***************************************************************************)
EXTENDS Naturals, Sequences, FiniteSets

CONSTANTS
  ChannelNames,  \* the channels in the order in which they are asked
  Recent,        \* how far back the first request goes: 60 seconds
  MaxSecond,     \* bound on the clock
  MaxPosts,      \* bound on the posts of a behaviour
  MaxListenerStarts  \* bound on the times the process is started

ASSUME ListenerAssumption ==
  /\ ChannelNames \in Seq(STRING) /\ ChannelNames # <<>>
  /\ {Recent, MaxSecond, MaxPosts, MaxListenerStarts} \subseteq Nat /\ MaxListenerStarts > 0

VARIABLES
  second,      \* the clock, in the seconds the listener counts
  posts,       \* the posts there are, oldest first
  since,       \* per channel, the second noted; Never before the first time
  poll,        \* how far the listener is
  decided,     \* whether the approval has been decided
  heard,       \* history: per post, how often it was handled: not, once, more
  overlooked,  \* history: posts that no request can return any more
  repeatable,  \* history: posts that may come again after a poll that ended well
  broken,      \* history: channels whose poll ended in an exception
  starts       \* history: how often the process was started

listenerVars ==
  <<second, posts, since, poll, decided, heard, overlooked, repeatable, broken, starts>>

Never == MaxSecond + 1
PostIds == 1 .. MaxPosts
PostKinds == {"work", "approve", "shorthand", "agent"}
Asleep(s) == [at |-> "asleep", turn |-> 1, batch |-> {}, post |-> 0, pending |-> FALSE, slept |-> s]

Channels == {ChannelNames[k] : k \in DOMAIN ChannelNames}
Asked == ChannelNames[poll.turn]
PostsOf(c) == {p \in DOMAIN posts : posts[p].channel = c}

ListenerTypeOK ==
  /\ second \in 0 .. MaxSecond /\ decided \in BOOLEAN /\ starts \in 1 .. MaxListenerStarts
  /\ \A p \in DOMAIN posts :
       posts[p] \in [channel : Channels, kind : PostKinds, touched : 0 .. MaxSecond]
  /\ Len(posts) <= MaxPosts
  /\ since \in [Channels -> 0 .. Never]
  /\ poll \in [at : {"asleep", "ask", "handle", "decide"}, turn : DOMAIN ChannelNames,
               batch : SUBSET PostIds, post : 0 .. MaxPosts, pending : BOOLEAN, slept : 0 .. Never]

ListenerInit ==
  /\ second = 0 /\ posts = <<>> /\ decided = FALSE /\ starts = 1
  /\ since = [c \in Channels |-> Never]
  /\ poll = Asleep(Never)
  /\ heard = [p \in PostIds |-> "not"]
  /\ overlooked = {} /\ repeatable = {} /\ broken = {}

-----------------------------------------------------------------------------
(* _poll_once                                                              *)

\* A poll, then a sleep of at least a second.
WakeUp ==
  /\ poll.at = "asleep" /\ poll.slept # second
  /\ poll' = [Asleep(Never) EXCEPT !.at = "ask"]
  /\ UNCHANGED <<second, posts, since, decided, heard, overlooked, repeatable, broken, starts>>

\* From when on posts are asked for.
SinceWhen(c) ==
  IF since[c] # Never THEN since[c]
  ELSE IF second > Recent THEN second - Recent ELSE 0

\* Mattermost returns the posts that were made or changed since then.
PostsAfter(c, s) == {p \in PostsOf(c) : posts[p].touched >= s}

AskChannel ==
  /\ poll.at = "ask"
  /\ poll' = [poll EXCEPT !.at = "handle", !.batch = PostsAfter(Asked, SinceWhen(Asked))]
  /\ overlooked' = IF since[Asked] = Never
                   THEN overlooked \cup (PostsOf(Asked) \ PostsAfter(Asked, SinceWhen(Asked)))
                   ELSE overlooked
  /\ UNCHANGED <<second, posts, since, decided, heard, repeatable, broken, starts>>

\* Mutant: what could not be handled is left behind.
AbandonGoesOn ==
  /\ poll' = Asleep(second)
  /\ broken' = broken \cup {Asked}
  /\ since' = [since EXCEPT ![Asked] = second]

\* Any exception ends the poll, and the channels that follow are not asked.
Abandon ==
  /\ poll' = Asleep(second)
  /\ broken' = broken \cup {Asked}
  /\ UNCHANGED since

AskFails ==
  /\ poll.at = "ask"
  /\ Abandon
  /\ UNCHANGED <<second, posts, decided, heard, overlooked, repeatable, starts>>

\* handle_message. A decision is not made at once: the approval is read first.
TakePost(p) ==
  /\ poll.at = "handle" /\ p \in poll.batch
  /\ poll' = IF posts[p].kind \in {"approve", "shorthand"}
             THEN [poll EXCEPT !.batch = @ \ {p}, !.at = "decide", !.post = p, !.pending = ~decided]
             ELSE [poll EXCEPT !.batch = @ \ {p}]
  /\ heard' = IF posts[p].kind = "agent" THEN heard
              ELSE [heard EXCEPT ![p] = IF @ = "not" THEN "once" ELSE "more"]
  /\ UNCHANGED <<second, posts, since, decided, overlooked, repeatable, broken, starts>>

\* The shorthand looks whether the approval is pending, the command does not.
Decides(p) == posts[p].kind = "approve" \/ poll.pending

DecideApproval ==
  /\ poll.at = "decide" /\ (Decides(poll.post) => ~decided)
  /\ decided' = TRUE
  /\ poll' = [poll EXCEPT !.at = "handle", !.post = 0, !.pending = FALSE]
  /\ UNCHANGED <<second, posts, since, heard, overlooked, repeatable, broken, starts>>

\* What is decided is not decided again. The command also goes on to resume
\* the run, and that may raise.
HandlerFails(resumes) ==
  /\ poll.at = "decide" /\ Decides(poll.post)
  /\ resumes => posts[poll.post].kind = "approve"
  /\ decided = ~resumes /\ decided' = TRUE
  /\ Abandon
  /\ UNCHANGED <<second, posts, heard, overlooked, repeatable, starts>>

\* The channel is done with: the time is noted, in whole seconds.
NoteTime ==
  /\ poll.at = "handle" /\ poll.batch = {}
  /\ since' = [since EXCEPT ![Asked] = second]
  /\ repeatable' = repeatable \cup {p \in PostsOf(Asked) : posts[p].touched = second}
  /\ poll' = IF poll.turn = Len(ChannelNames) THEN Asleep(second)
             ELSE [Asleep(Never) EXCEPT !.at = "ask", !.turn = poll.turn + 1]
  /\ UNCHANGED <<second, posts, decided, heard, overlooked, broken, starts>>

-----------------------------------------------------------------------------
(* The world around it *)

WritePost ==
  /\ Len(posts) < MaxPosts
  /\ \E c \in Channels, kind \in PostKinds :
       /\ posts' = Append(posts, [channel |-> c, kind |-> kind, touched |-> second])
       /\ overlooked' = IF poll.at \in {"handle", "decide"} /\ Asked = c
                        THEN overlooked \cup {Len(posts) + 1} ELSE overlooked
  /\ UNCHANGED <<second, since, poll, decided, heard, repeatable, broken, starts>>

EditPost(p) ==
  /\ p \in DOMAIN posts /\ posts[p].touched # second
  /\ posts' = [posts EXCEPT ![p].touched = second]
  /\ repeatable' = repeatable \cup {p}
  /\ UNCHANGED <<second, since, poll, decided, heard, overlooked, broken, starts>>

DecideElsewhere ==
  /\ ~decided /\ decided' = TRUE
  /\ UNCHANGED <<second, posts, since, poll, heard, overlooked, repeatable, broken, starts>>

NextSecond ==
  /\ second < MaxSecond /\ second' = second + 1
  /\ UNCHANGED <<posts, since, poll, decided, heard, overlooked, repeatable, broken, starts>>

\* The times noted are lost with the process.
RestartListener ==
  /\ starts < MaxListenerStarts /\ starts' = starts + 1
  /\ since' = [c \in Channels |-> Never]
  /\ poll' = Asleep(Never)
  /\ repeatable' = DOMAIN posts
  /\ UNCHANGED <<second, posts, decided, heard, overlooked, broken>>

ListenerNext ==
  \/ WakeUp \/ AskChannel \/ AskFails \/ DecideApproval \/ NoteTime
  \/ \E p \in PostIds : TakePost(p) \/ EditPost(p)
  \/ \E resumes \in BOOLEAN : HandlerFails(resumes)
  \/ WritePost \/ DecideElsewhere \/ NextSecond \/ RestartListener

-----------------------------------------------------------------------------
(* Properties *)

FromHuman(p) == posts[p].kind # "agent"

\* A human's post is not passed over: once a later time was noted for its
\* channel it has been handled, unless it came while the channel's posts were
\* being handled, or was too old for the first request after a start; and it
\* is handled again only after a restart, an edit, a poll that failed, or when
\* it was made in the very second that was noted.
PostsAreHeard ==
  \A p \in DOMAIN posts : FromHuman(p) =>
    /\ since[posts[p].channel] # Never /\ posts[p].touched < since[posts[p].channel]
         => heard[p] # "not" \/ p \in overlooked
    /\ heard[p] = "more" => p \in repeatable \/ posts[p].channel \in broken

\* "New posts are fetched per channel since the last seen timestamp and routed
\* to the command handler": a post that nobody edited is not routed there once
\* more in a later second, while the process lives.
NewPostsOnce == \A p \in DOMAIN posts : FromHuman(p) /\ heard[p] = "more" => p \in repeatable
=============================================================================
