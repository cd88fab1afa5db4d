------------------------------- MODULE Stream -------------------------------
(***************************************************************************)
(* What a session's watchers make of it: the fold of the messages Gate's     *)
(* handlers and tasks publish (crates/agent-core/src/api.rs,                 *)
(* SessionView::apply_protocol), beside the session that published them, and *)
(* what a resume reads in that fold (serve.rs, resume_session and            *)
(* pending_proposal).                                                      *)
(*                                                                         *)
(* The view is kept under a lock of its own, taken after the session's has   *)
(* been let go, so the order of the stream is the order of the publishes and *)
(* not of the sections they tell about.                                     *)
(***************************************************************************)
EXTENDS Gate

VARIABLE view   \* the live session's SessionView

streamVars == <<vars, view>>

EmptyView == [jobs |-> <<>>, turns |-> <<>>, rounds |-> <<>>]

HasJob(v, job) == \E i \in 1..Len(v.jobs) : v.jobs[i].id = job

HasTurn(v, turn) == \E i \in 1..Len(v.turns) : v.turns[i].turn = turn

WithJob(v, job, Change(_)) ==
    [v EXCEPT !.jobs = [i \in 1..Len(v.jobs) |->
        IF v.jobs[i].id = job THEN Change(v.jobs[i]) ELSE v.jobs[i]]]

WithNewJob(v, job) == [v EXCEPT !.jobs = Append(@, job)]

\* Answers the last round nobody has answered, if there is one.
AnswerRound(v, answer) ==
    LET open == {i \in 1..Len(v.rounds) : v.rounds[i].answer = "none"}
        last == CHOOSE i \in open : \A k \in open : k <= i
    IN  IF open = {} THEN v ELSE [v EXCEPT !.rounds[last].answer = answer]

\* The turn was started before its draft existed; this is where it gets it.
Placed(v, turn, job) ==
    [v EXCEPT !.turns = [i \in 1..Len(v.turns) |->
        IF v.turns[i].turn = turn THEN [v.turns[i] EXCEPT !.job = job] ELSE v.turns[i]]]

Apply(v, m) ==
    CASE m.type = "turn_started" ->
            IF HasTurn(v, m.turn) THEN v
            ELSE [v EXCEPT !.turns = Append(@, [turn |-> m.turn, job |-> m.job])]
      [] m.type = "draft_opened" ->
            LET placed == Placed(v, m.turn, m.job)
            IN  IF HasJob(v, m.job) THEN placed ELSE WithNewJob(placed, Draft(m.job))
      [] m.type = "plan_proposed" ->
            [v EXCEPT !.rounds = Append(@, [turn |-> m.turn, answer |-> "none"])]
      [] m.type = "plan_declined" -> AnswerRound(v, "declined")
      [] m.type = "job_approved" ->
            LET Approve(job) == [job EXCEPT !.state = "open", !.plan = m.plan]
            IN  AnswerRound(IF HasJob(v, m.job)
                            THEN WithJob(v, m.job, Approve)
                            ELSE WithNewJob(v, Planned(m.job, m.plan)),
                            "approved")
      [] m.type = "job_closed" ->
            LET Close(job) == [job EXCEPT !.state = "closed", !.by = m.by]
            IN  WithJob(v, m.job, Close)
      [] m.type = "job_reopened" ->
            LET Reopen(job) == [job EXCEPT !.state = "open", !.by = "nobody"]
            IN  WithJob(v, m.job, Reopen)

\* Every publish reaches the fold; nothing else does.
Publishes ==
    \/ \E c \in Clients :
          HandlerSays(c) /\ view' = Apply(view, Head(todo[c]).message)
    \/ \E t \in Turns :
          TaskSays(t) /\ view' = Apply(view, Head(task[t]).message)

StreamInit == Init /\ view = EmptyView

StreamNext == (Silent /\ UNCHANGED view) \/ Publishes

StreamSpec == StreamInit /\ [][StreamNext]_streamVars

Owes(steps) ==
    \E i \in 1..Len(steps) : steps[i].do \in {"say", "sign", "drafted", "narrow"}

\* Everything that has happened to the session has been published.
Settled ==
    /\ \A c \in Clients : ~Owes(todo[c])
    /\ \A t \in Turns : ~Owes(task[t])

(***************************************************************************)
(* What a resume reads in the view.  The jobs and turns it makes of it are    *)
(* Window's.                                                               *)
(***************************************************************************)
\* pending_proposal: the last round, while nothing has answered it.
PendingProposal(v) ==
    IF v.rounds # <<>> /\ v.rounds[Len(v.rounds)].answer = "none"
    THEN v.rounds[Len(v.rounds)].turn ELSE None

(***************************************************************************)
(* Properties.                                                             *)
(***************************************************************************)
\* The view has the turns that were numbered, each once and in order, and whenever
\* no turn runs it has all of them: the number a resume takes from the length of
\* the view (serve.rs, resume_session) is the one the session would have given, and
\* no turn that was ever said to start has it.
TurnsAreToldInOrder ==
    /\ \A i \in 1..Len(view.turns) : view.turns[i].turn = i
    /\ current = None => nextTurn = Len(view.turns) + 1

\* "A proposal refused or approved long ago is answered, and only a trailing
\* unanswered one is a question still waiting on a person" (serve.rs:6052): a
\* resume of a session all of which has been published asks the question the
\* session asks (pending_proposal).
ResumeAsksWhatIsAsked == Settled => PendingProposal(view) = pending.turn
=============================================================================
