----------------------------- MODULE GithubQuestions -----------------------------
(***************************************************************************)
(* Questions that an agent asks in a comment on its GitHub issue, and the  *)
(* answers of the issue's reporter.  The process that runs the dispatch    *)
(* watches the comments: events and replays put them into one queue, and   *)
(* each is handled once.  A question parks the team; the answer that       *)
(* follows it wakes the team again.                                        *)
(*                                                                         *)
(* Comments are numbered in the order in which they are written.  What is  *)
(* kept in the state store survives the process: the watch, the claims of  *)
(* questions, and the clarification.                                       *)
(***************************************************************************)
EXTENDS Naturals, Sequences, SequencesExt

CONSTANTS MaxComments, \* bound on comments
          MaxRejects,  \* bound on dispatch claims that are rejected
          MaxCrashes,  \* bound on processes that die
          Torn,        \* a process may die between a claim and what it claims
          Reorders     \* events may overtake each other

VARIABLES comments, events, queue, step, memory, stored, asked, clarification, team, agent,
          exit, up, rejects, crashes

questionVars == <<comments, events, queue, step, memory, stored, asked, clarification, team,
                  agent, exit, up, rejects, crashes>>

Id == 1..MaxComments
Unwatched == [processed |-> {}, pending |-> {}, claimedBy |-> 0, deferred |-> {}]
Watch == [processed : SUBSET Id, pending : SUBSET Id, claimedBy : 0..MaxComments,
          deferred : SUBSET Id]
Is(id, kind) == id \in DOMAIN comments /\ comments[id] = kind

TypeOK ==
    /\ comments \in BoundedSeq({"ask", "answer", "noise"}, MaxComments)
    /\ events \subseteq Id /\ queue \in Seq(Id)
    /\ step \in {"take", "dedupe", "reserve", "pend", "park", "route", "wake", "save"}
    /\ memory \in Watch /\ stored \in Watch /\ asked \subseteq Id
    /\ clarification \in {"none", "parking", "waiting", "replied"}
    /\ team \in {"claiming", "working", "rejected", "parked", "completed"}
    /\ agent \in {"alive", "gone"} /\ exit \in {"none", "told", "replay"} /\ up \in BOOLEAN
    /\ rejects \in 0..MaxRejects /\ crashes \in 0..MaxCrashes

QuestionInit ==
    /\ comments = <<>> /\ events = {} /\ queue = <<>> /\ step = "take"
    /\ memory = Unwatched /\ stored = Unwatched /\ asked = {} /\ clarification = "none"
    /\ team = "claiming" /\ agent = "alive" /\ exit = "none" /\ up = TRUE
    /\ rejects = 0 /\ crashes = 0

Budgets == UNCHANGED <<rejects, crashes>>
World == UNCHANGED <<comments, agent, exit, up>>

-----------------------------------------------------------------------------
(* Comments and their delivery *)

Writes(kind) ==
    /\ Len(comments) < MaxComments /\ comments' = Append(comments, kind)
    /\ events' = IF up THEN events \cup {Len(comments) + 1} ELSE events
    /\ UNCHANGED <<queue, step, memory, stored, asked, clarification, team, agent, exit, up>>
    /\ Budgets

Ask ==
    /\ agent = "alive" /\ team \in {"claiming", "working"}
    /\ ~(\E i \in Id : Is(i, "ask"))
    /\ Writes("ask")

\* The reporter sees the question and answers it; others comment, too.
Answer == (\E i \in Id : Is(i, "ask")) /\ Writes("answer")
Noise == Writes("noise")

\* enqueueGithubIssueComment: one queue for the comments of an issue.
Deliver ==
    /\ up /\ events # {}
    /\ \E id \in events :
         /\ Reorders \/ \A other \in events : id <= other
         /\ events' = events \ {id} /\ queue' = Append(queue, id)
    /\ UNCHANGED <<comments, step, memory, stored, asked, clarification, team, agent, exit, up>>
    /\ Budgets

Unprocessed == {id \in DOMAIN comments : id \notin memory.processed}

\* runGithubIssueCommentReplay, in the order of the comments.
Replayed == queue \o SetToSortSeq(Unprocessed, <)

-----------------------------------------------------------------------------
(* The handler of the queue *)

At(s) == up /\ step = s /\ queue # <<>>
Now == Head(queue)
Done == queue' = Tail(queue) /\ step' = "take"
Store(watch) == memory' = watch /\ stored' = watch
Watched == UNCHANGED <<memory, stored>>
Claims == UNCHANGED <<asked, clarification, team>>

Processed(watch) == [watch EXCEPT !.processed = @ \cup {Now}, !.deferred = @ \ {Now}]

Duplicate ==
    /\ At("take") /\ Now \in memory.processed /\ Done
    /\ UNCHANGED events /\ Watched /\ Claims /\ World /\ Budgets

\* A question waits for the claim of its dispatch; if that is rejected it is
\* left for the replay of the next one.
TakeQuestion ==
    /\ At("take") /\ Is(Now, "ask") /\ Now \notin memory.processed /\ team # "claiming"
    /\ CASE team = "rejected" ->
              /\ Done /\ Store([memory EXCEPT !.deferred = @ \cup {Now}])
         [] team = "working" -> step' = "dedupe" /\ UNCHANGED queue /\ Watched
         [] OTHER -> step' = "save" /\ UNCHANGED queue /\ Watched
    /\ UNCHANGED events /\ Claims /\ World /\ Budgets

\* claimAgentQuestion.
Dedupe ==
    /\ At("dedupe") /\ asked' = asked \cup {Now}
    /\ step' = IF Now \in asked THEN "save" ELSE "reserve"
    /\ UNCHANGED <<events, queue, clarification, team>> /\ Watched /\ World /\ Budgets

\* reserveGithubHumanClarification: one clarification at a time.
Reserve ==
    /\ At("reserve")
    /\ IF clarification = "none" THEN clarification' = "parking" /\ step' = "pend"
                                 ELSE step' = "save" /\ UNCHANGED clarification
    /\ UNCHANGED <<events, queue, asked, team>> /\ Watched /\ World /\ Budgets

Pend ==
    /\ At("pend") /\ step' = "park" /\ Store([memory EXCEPT !.pending = @ \cup {Now}])
    /\ UNCHANGED <<events, queue>> /\ Claims /\ World /\ Budgets

\* parkForHumanClarification releases the team.
Park ==
    /\ At("park") /\ step' = "save" /\ clarification' = "waiting" /\ team' = "parked"
    /\ agent' = "gone"
    /\ UNCHANGED <<events, queue, asked, comments, exit, up>> /\ Watched /\ Budgets

\* Which question an answer is for, if its time has come.
Deferred == \E id \in memory.deferred : id < Now
Matching == {id \in memory.pending : id < Now}

TakeReply ==
    /\ At("take") /\ ~Is(Now, "ask") /\ Now \notin memory.processed
    /\ CASE Deferred -> Done /\ Watched
         [] ~Deferred /\ Is(Now, "answer") /\ Matching # {} ->
              IF memory.claimedBy = Now
                THEN /\ step' = "save" /\ UNCHANGED queue
                     /\ memory' = [memory EXCEPT !.pending = {}, !.claimedBy = 0]
                     /\ UNCHANGED stored
                ELSE /\ step' = "route" /\ UNCHANGED queue
                     /\ Store([memory EXCEPT !.claimedBy = Now])
         [] OTHER -> step' = "save" /\ UNCHANGED queue /\ Watched
    /\ UNCHANGED events /\ Claims /\ World /\ Budgets

\* routeGithubAnswerToImplementers: the reply is claimed for the clarification.
Route ==
    /\ At("route")
    /\ IF clarification = "waiting"
         THEN clarification' = "replied" /\ step' = "wake"
              /\ memory' = [memory EXCEPT !.pending = {}, !.claimedBy = 0]
         ELSE clarification' = clarification /\ step' = "save"
              /\ memory' = [memory EXCEPT !.claimedBy = 0]
    /\ UNCHANGED <<events, queue, stored, asked, team>> /\ World /\ Budgets

Wakes == clarification = "replied" /\ clarification' = "none" /\ team' = "working" /\ agent' = "alive"

Wake ==
    /\ At("wake") /\ step' = "save" /\ Wakes
    /\ UNCHANGED <<events, queue, asked, comments, exit, up>> /\ Watched /\ Budgets

\* Mutant of Save: the watch counts all comments up to the last one it saw.
SaveLastSeen ==
    /\ At("save") /\ Done /\ Store([memory EXCEPT !.processed = @ \cup 1..Now])
    /\ UNCHANGED events /\ Claims /\ World /\ Budgets

Save ==
    /\ At("save") /\ Done /\ Store(Processed(memory))
    /\ UNCHANGED events /\ Claims /\ World /\ Budgets

Handle == Duplicate \/ TakeQuestion \/ Dedupe \/ Reserve \/ Pend \/ Park \/ TakeReply \/ Route
            \/ Wake \/ Save

-----------------------------------------------------------------------------
(* The dispatch and its agent *)

\* The fence of the dispatch claim is settled.
Settle ==
    /\ up /\ team = "claiming" /\ team' = "working"
    /\ UNCHANGED <<events, queue, step, asked, clarification>> /\ Watched /\ World /\ Budgets

Reject ==
    /\ up /\ team = "claiming" /\ team' = "rejected" /\ rejects < MaxRejects
    /\ rejects' = rejects + 1
    /\ UNCHANGED <<events, queue, step, asked, clarification, crashes>> /\ Watched /\ World

\* A rejected dispatch is tried again; its watch is armed without a replay.
Retry ==
    /\ up /\ team = "rejected" /\ team' = "claiming"
    /\ UNCHANGED <<events, queue, step, asked, clarification>> /\ Watched /\ World /\ Budgets

\* After the claim the comments are replayed.
Replay ==
    /\ up /\ team = "working" /\ memory.deferred # {} /\ queue = <<>> /\ queue' = Replayed
    /\ UNCHANGED <<events, step, asked, clarification, team>> /\ Watched /\ World /\ Budgets

\* An agent that has asked exits as it is told to.
Exits ==
    /\ agent = "alive" /\ team = "working" /\ agent' = "gone" /\ exit' = "told"
    /\ UNCHANGED <<events, queue, step, asked, clarification, team, comments, up>> /\ Watched
    /\ Budgets

\* reconcileGithubQuestionBeforeAgentExit.
ExitReplays ==
    /\ up /\ exit = "told" /\ exit' = "replay" /\ queue' = Replayed
    /\ UNCHANGED <<events, step, asked, clarification, team, comments, agent, up>> /\ Watched
    /\ Budgets

ExitJudged ==
    /\ up /\ exit = "replay" /\ queue = <<>> /\ exit' = "none"
    /\ team' = IF team = "working" /\ agent = "gone" /\ clarification = "none"
                 THEN "completed" ELSE team
    /\ UNCHANGED <<events, queue, step, asked, clarification, comments, agent, up>> /\ Watched
    /\ Budgets

Dispatch == Settle \/ Retry \/ Replay \/ ExitReplays \/ ExitJudged

-----------------------------------------------------------------------------
(* Crashes *)

\* Claims whose effect has not been stored yet.
Tearing ==
    \/ step \in {"reserve", "pend"}
    \/ stored.claimedBy # 0 /\ clarification = "waiting"

Crash ==
    /\ up /\ (Torn \/ ~Tearing) /\ crashes < MaxCrashes /\ crashes' = crashes + 1
    /\ up' = FALSE /\ queue' = <<>> /\ step' = "take" /\ events' = {}
    /\ UNCHANGED <<comments, memory, stored, asked, clarification, team, agent, exit, rejects>>

\* rearmGithubIssueCommentWatchers; parks and wakes under way are finished by
\* the sweep of clarifications, and an exit that nobody handled is noticed.
Restart ==
    /\ ~up /\ up' = TRUE /\ memory' = stored
    /\ queue' = SetToSortSeq({id \in DOMAIN comments : id \notin stored.processed}, <)
    /\ CASE clarification = "parking" ->
              clarification' = "waiting" /\ team' = "parked" /\ agent' = "gone"
         [] clarification = "replied" -> Wakes
         [] OTHER -> UNCHANGED <<clarification, team, agent>>
    /\ exit' = IF agent' = "gone" /\ team' = "working" THEN "told" ELSE "none"
    /\ UNCHANGED <<comments, events, step, stored, asked>> /\ Budgets

QuestionNext ==
    \/ Ask \/ Answer \/ Noise \/ Deliver \/ Handle \/ Dispatch \/ Reject \/ Exits
    \/ Crash \/ Restart

\* The watch is served, the dispatch goes on, and a process comes up again.
-----------------------------------------------------------------------------
(* Properties *)

(* An agent that asks and exits has not finished: its exit never counts as *)
(* the completion of the issue while nobody has answered.                  *)
AskingIsNotDone ==
    team = "completed" => \A i \in Id : Is(i, "ask") => \E j \in Id : j > i /\ Is(j, "answer")

(* The reporter's answer reaches the team it was written for: a team does  *)
(* not stay parked after a comment that answers its question.              *)
AnswerTaken ==
    team = "parked" => ~ \E i, j \in Id : i < j /\ Is(i, "ask") /\ Is(j, "answer")

=============================================================================
