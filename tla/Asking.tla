------------------------------- MODULE Asking -------------------------------
(***************************************************************************)
(* A turn while it runs: the loop that lets a model use tools (agent.rs),    *)
(* and the two questions it may put to a person on the way (serve.rs):      *)
(*                                                                         *)
(*   call    the floor refused a call that a person may allow               *)
(*   limit   the reply asks for more calls than the turn's budget has        *)
(*                                                                         *)
(* The loop is one task; `at` is the await it stands at.  A question is held *)
(* in the session, then announced on the turn's own channel of events, which *)
(* a forwarder folds into the view in order; then the loop waits.  Clients   *)
(* answer the questions they have heard, also late and more than once.  A    *)
(* cancel drops the whole wait, at whichever of its awaits it stands.        *)
(***************************************************************************)
EXTENDS Integers, Sequences, SequencesExt

CONSTANTS
    Targets,    \* what a call may need an answer about: a program, a path
    MaxSteps,   \* --max-tool-steps: calls a turn may make before it asks
    MaxTurns,   \* bound: turns started
    MaxReplies, \* bound: replies of the model in one turn
    MaxCalls    \* bound: calls in one reply

ASSUME AskingAssumption ==
    /\ MaxSteps \in Nat \ {0}
    /\ MaxTurns \in Nat /\ MaxReplies \in Nat /\ MaxCalls \in Nat
    /\ "free" \notin Targets /\ "refused" \notin Targets /\ "none" \notin Targets

VARIABLES
    current,    \* Session.current: the running turn, or 0
    cancelled,  \* what the turn's cancel watch holds
    held,       \* Session.held: the question a call waits on, or NoQuestion
    limitHeld,  \* Session.limit_held
    allowed,    \* Answers.allowed: yeses for the session
    forbidden,  \* Answers.forbidden: noes for the session
    unlimited,  \* LiveSession.tools_unlimited
    loop,       \* the loop of run_agent_turn and the ask or extend it is in
    events,     \* the turn's channel of events
    view,       \* the fold of what was published
    heard,      \* the questions some client has been shown in this turn or the last
    revoking,   \* answers taken back whose `revoked` is not published yet
    nextTurn

vars == <<current, cancelled, held, limitHeld, allowed, forbidden, unlimited,
          loop, events, view, heard, revoking, nextTurn>>

(***************************************************************************)
(* Questions.  One is named by its turn, step and index; what is about a call *)
(* and what is about the limit are told apart by the message that answers.    *)
(***************************************************************************)
NoQuestion == [kind |-> "none", turn |-> 0, step |-> 0, index |-> 0]
QuestionOf(kind) == [kind |-> kind, turn |-> current, step |-> loop.step,
                     index |-> loop.index]

CallAnswers == {"once", "session", "deny", "forbid"}
LimitAnswers == {"more", "no_limit", "stop"}
NoAnswer == [for |-> NoQuestion, say |-> "none"]

NoLimit == -1

\* What a call meets: the sandbox runs it, the ceiling leaves it refused, or it
\* is about something a person may answer for.
Calls == {"free", "refused"} \cup Targets
Replies == UNION {[1..n -> Calls] : n \in 1..MaxCalls}

Idle == [at |-> "idle", step |-> 0, index |-> 0, calls |-> <<>>, ran |-> 0,
         budget |-> 0, mores |-> 0, question |-> NoQuestion, answer |-> NoAnswer]

NoView == [calls |-> {}, asked |-> {}, limit |-> NoQuestion, ended |-> FALSE,
           grants |-> <<>>, unlimited |-> FALSE]

Init ==
    /\ current = 0 /\ nextTurn = 1
    /\ cancelled = FALSE
    /\ held = NoQuestion /\ limitHeld = NoQuestion
    /\ allowed = {} /\ forbidden = {} /\ revoking = {}
    /\ unlimited = FALSE
    /\ loop = Idle
    /\ events = <<>>
    /\ view = NoView
    /\ heard = {}

(***************************************************************************)
(* The stream.                                                             *)
(***************************************************************************)
Event(type) == [type |-> type, question |-> QuestionOf("call"), no_limit |-> FALSE]
LimitEvent(type, lifted) ==
    [type |-> type, question |-> QuestionOf("limit"), no_limit |-> lifted]

\* Not revoked answers, in the order they were said.
Grant(target, yes) == [target |-> target, yes |-> yes]

WithGrant(grants, grant) ==
    IF grant \in ToSet(grants) THEN grants ELSE Append(grants, grant)

\* The last answer about a target is marked as taken back.
WithoutGrant(grants, target) ==
    LET about == {i \in DOMAIN grants : grants[i].target = target}
    IN IF about = {} THEN grants
       ELSE RemoveAt(grants, CHOOSE i \in about : \A j \in about : j <= i)

\* What a resume gives the session: each answer in turn, the last one wins.
InForce(grants, yes) ==
    {t \in Targets : \E i \in DOMAIN grants :
        /\ grants[i] = Grant(t, yes)
        /\ \A j \in DOMAIN grants : grants[j].target = t => j <= i}

Folded(v, event) ==
    CASE event.type = "tool_call" ->
            [v EXCEPT !.calls = @ \cup {event.question}]
      [] event.type = "call_held" ->
            [v EXCEPT !.asked = @ \cup ({event.question} \cap v.calls)]
      [] event.type = "tool_result" ->
            [v EXCEPT !.asked = @ \ {event.question}]
      [] event.type = "limit_reached" ->
            [v EXCEPT !.limit = event.question]
      [] event.type = "limit_extended" ->
            [v EXCEPT !.limit = NoQuestion, !.unlimited = @ \/ event.no_limit]
      [] event.type \in {"ended", "failed"} ->
            [v EXCEPT !.limit = NoQuestion, !.ended = TRUE]

\* The forwarder of the turn publishes its events one by one.
Forward ==
    /\ events # <<>>
    /\ view' = Folded(view, Head(events))
    /\ events' = Tail(events)
    /\ heard' = heard \cup view'.asked \cup ({view'.limit} \ {NoQuestion})
    /\ UNCHANGED <<current, cancelled, held, limitHeld, allowed, forbidden,
                   unlimited, loop, revoking, nextTurn>>

Sends(event) == events' = Append(events, event)
Quiet == UNCHANGED events

(***************************************************************************)
(* A turn begins and ends.                                                 *)
(***************************************************************************)
untouched == <<allowed, forbidden, view, revoking>>

Prompt ==
    /\ current = 0 /\ loop.at = "idle"
    /\ nextTurn <= MaxTurns
    /\ current' = nextTurn /\ nextTurn' = nextTurn + 1
    /\ cancelled' = FALSE
    /\ loop' = [Idle EXCEPT !.at = "model", !.step = 1,
                            !.budget = IF unlimited THEN NoLimit ELSE MaxSteps]
    /\ view' = [view EXCEPT !.calls = {}, !.ended = FALSE]
    /\ heard' = {q \in heard : q.turn = nextTurn - 1}
    /\ UNCHANGED <<held, limitHeld, allowed, forbidden, unlimited, events, revoking>>

\* The loop has returned and the forwarder is through: the turn is over.
Land ==
    /\ loop.at = "done" /\ events = <<>>
    /\ loop' = Idle
    /\ current' = 0 /\ cancelled' = FALSE
    /\ held' = NoQuestion /\ limitHeld' = NoQuestion
    /\ UNCHANGED <<untouched, unlimited, events, heard, nextTurn>>

(***************************************************************************)
(* The model is called.  A cancel is looked at before its next chunk.        *)
(***************************************************************************)
Ends(type) ==
    /\ loop' = [loop EXCEPT !.at = "done"]
    /\ Sends(Event(type))

loopOnly == <<current, cancelled, held, limitHeld, unlimited, heard, nextTurn>>

Takes(reply) ==
    /\ loop' = [loop EXCEPT !.at = "call", !.index = 1, !.calls = reply]
    /\ Quiet

\* The model is cut off, fails, answers, drifts from the shape of a call, or
\* asks for calls.
Reply ==
    /\ loop.at = "model"
    /\ \/ cancelled /\ Ends("ended")
       \/ ~cancelled /\ \E end \in {"ended", "failed"} : Ends(end)
       \/ /\ ~cancelled
          /\ loop' = [loop EXCEPT !.at = "retry"]
          /\ Quiet
       \/ /\ ~cancelled /\ loop.step < MaxReplies
          /\ \E reply \in Replies : Takes(reply)
    /\ UNCHANGED <<untouched, loopOnly>>

\* Once more, under the schema: refused, it leaves the drifted answer, which
\* is no call.
Retry ==
    /\ loop.at = "retry"
    /\ \/ Ends("ended")
       \/ /\ ~cancelled /\ loop.step < MaxReplies
          /\ \E reply \in Replies : Takes(reply)
    /\ UNCHANGED <<untouched, loopOnly>>

\* Mutant: the budget is looked at one call late.
SpentLate == loop.budget # NoLimit /\ loop.ran > loop.budget

Spent == loop.budget # NoLimit /\ loop.ran >= loop.budget

\* The model is called again with the results of this reply's calls.
NextReply ==
    /\ loop.at = "call" /\ loop.index > Len(loop.calls)
    /\ loop' = [loop EXCEPT !.at = "model", !.step = @ + 1, !.index = 0, !.calls = <<>>]
    /\ UNCHANGED <<untouched, loopOnly, events>>

(***************************************************************************)
(* The budget.                                                             *)
(***************************************************************************)
AsksForMore ==
    /\ loop.at = "call" /\ loop.index <= Len(loop.calls)
    /\ Spent
    /\ loop' = [loop EXCEPT !.at = "hold_limit", !.question = QuestionOf("limit"),
                            !.answer = NoAnswer]
    /\ UNCHANGED <<untouched, loopOnly, events>>

HoldLimit ==
    /\ loop.at = "hold_limit"
    /\ limitHeld' = loop.question
    /\ loop' = [loop EXCEPT !.at = "say_limit"]
    /\ UNCHANGED <<untouched, current, cancelled, held, unlimited, events, heard, nextTurn>>

SayLimit ==
    /\ loop.at = "say_limit"
    /\ loop' = [loop EXCEPT !.at = "await_limit"]
    /\ Sends(LimitEvent("limit_reached", FALSE))
    /\ UNCHANGED <<untouched, loopOnly>>

\* What is still held of this question is let go; `no limit` is remembered
\* before the turn goes on.
LimitAnswered ==
    /\ loop.at = "await_limit" /\ loop.answer # NoAnswer
    /\ limitHeld' = IF limitHeld = loop.question THEN NoQuestion ELSE limitHeld
    /\ LET said == loop.answer.say
       IN /\ unlimited' = (unlimited \/ said = "no_limit")
          /\ loop' = [loop EXCEPT
                !.at = IF said = "stop" THEN "stopped" ELSE "run",
                !.mores = IF said = "more" THEN @ + 1 ELSE @,
                !.budget = CASE said = "more" -> @ + MaxSteps
                             [] said = "no_limit" -> NoLimit
                             [] said = "stop" -> @]
          /\ IF said = "stop" THEN Quiet
             ELSE Sends(LimitEvent("limit_extended", said = "no_limit"))
    /\ UNCHANGED <<untouched, current, cancelled, held, heard, nextTurn>>

\* Nothing more of this reply is run, and the turn ends on its limit.
Stopped ==
    /\ loop.at = "stopped"
    /\ Ends("ended")
    /\ UNCHANGED <<untouched, loopOnly>>

(***************************************************************************)
(* A call.                                                                 *)
(***************************************************************************)
Call == loop.calls[loop.index]

Starts ==
    /\ \/ loop.at = "run"
       \/ loop.at = "call" /\ loop.index <= Len(loop.calls) /\ ~Spent
    /\ loop' = [loop EXCEPT !.at = "running"]
    /\ Sends(Event("tool_call"))
    /\ UNCHANGED <<untouched, loopOnly>>

Steps(l) == [l EXCEPT !.at = "call", !.index = @ + 1, !.ran = @ + 1,
                      !.question = NoQuestion, !.answer = NoAnswer]

\* The call ran, was refused, or an answer in force decides it.
RunDecided ==
    /\ loop.at = "running"
    /\ Call \in {"free", "refused"} \cup allowed \cup forbidden
    /\ loop' = Steps(loop)
    /\ Sends(Event("tool_result"))
    /\ UNCHANGED <<untouched, loopOnly>>

\* Refused by the floor, and a person may allow it.
AsksAPerson ==
    /\ loop.at = "running"
    /\ Call \in Targets \ (allowed \cup forbidden)
    /\ loop' = [loop EXCEPT !.at = "hold", !.question = QuestionOf("call"),
                            !.answer = NoAnswer]
    /\ UNCHANGED <<untouched, loopOnly, events>>

Hold ==
    /\ loop.at = "hold"
    /\ held' = loop.question
    /\ loop' = [loop EXCEPT !.at = "announce"]
    /\ UNCHANGED <<untouched, current, cancelled, limitHeld, unlimited, events, heard, nextTurn>>

\* Mutant: the question is published past the channel its call is still in.
AnnounceDirectly ==
    /\ loop.at = "announce"
    /\ loop' = [loop EXCEPT !.at = "await"]
    /\ view' = Folded(view, Event("call_held"))
    /\ heard' = heard \cup view'.asked
    /\ UNCHANGED <<allowed, forbidden, revoking, current, cancelled, held, limitHeld,
                   unlimited, nextTurn, events>>

Announce ==
    /\ loop.at = "announce"
    /\ loop' = [loop EXCEPT !.at = "await"]
    /\ Sends(Event("call_held"))
    /\ UNCHANGED <<untouched, loopOnly>>

\* The answer arrived: what is still held of this question is let go.
Answered ==
    /\ loop.at = "await" /\ loop.answer # NoAnswer
    /\ held' = IF held = loop.question THEN NoQuestion ELSE held
    /\ loop' = [loop EXCEPT !.at = "remember"]
    /\ UNCHANGED <<untouched, current, cancelled, limitHeld, unlimited, events, heard, nextTurn>>

Lasting(say) == say \in {"session", "forbid"}

\* Answers.give: a lasting answer is remembered, and said when it is news.
Remember ==
    /\ loop.at = "remember"
    /\ LET yes == loop.answer.say = "session"
           news == Lasting(loop.answer.say)
                   /\ Call \notin (IF yes THEN allowed ELSE forbidden)
       IN /\ loop' = [loop EXCEPT !.at = IF news THEN "say_grant" ELSE "apply"]
          /\ IF Lasting(loop.answer.say)
             THEN /\ allowed' = IF yes THEN allowed \cup {Call} ELSE allowed \ {Call}
                  /\ forbidden' = IF yes THEN forbidden \ {Call} ELSE forbidden \cup {Call}
             ELSE UNCHANGED <<allowed, forbidden>>
    /\ UNCHANGED <<view, revoking, loopOnly, events>>

\* Published by the turn itself, not through its channel.
SayGrant ==
    /\ loop.at = "say_grant"
    /\ view' = [view EXCEPT !.grants =
                    WithGrant(@, Grant(Call, loop.answer.say = "session"))]
    /\ loop' = [loop EXCEPT !.at = "apply"]
    /\ UNCHANGED <<allowed, forbidden, revoking, loopOnly, events>>

\* A yes runs the call, a no is its result.
Apply ==
    /\ loop.at = "apply"
    /\ loop' = Steps(loop)
    /\ Sends(Event("tool_result"))
    /\ UNCHANGED <<untouched, loopOnly>>

(***************************************************************************)
(* A cancel.  The wait for a person is dropped where it stands: nothing it    *)
(* had left to do is done, also not letting go of what it held.              *)
(***************************************************************************)
Asks == {"hold", "announce", "await", "say_grant"}
AsksForLimit == {"hold_limit", "say_limit", "await_limit"}

Cancel ==
    /\ current # 0 /\ ~cancelled
    /\ cancelled' = TRUE
    /\ UNCHANGED <<untouched, current, held, limitHeld, unlimited, loop, events, heard, nextTurn>>

\* Mutant: the refusal that stands is not sent.
DropsAskSilently ==
    /\ cancelled /\ loop.at \in Asks
    /\ loop' = [loop EXCEPT !.at = "done"]
    /\ Sends(Event("ended"))
    /\ UNCHANGED <<untouched, loopOnly>>

DropsAsk ==
    /\ cancelled /\ loop.at \in Asks
    /\ loop' = [loop EXCEPT !.at = "done", !.ran = @ + 1]
    /\ events' = events \o <<Event("tool_result"), Event("ended")>>
    /\ UNCHANGED <<untouched, loopOnly>>

\* Mutant: the wait at the limit does not watch the cancel.
DropsLimitNever == FALSE /\ UNCHANGED vars

DropsLimit ==
    /\ cancelled /\ loop.at \in AsksForLimit
    /\ Ends("ended")
    /\ UNCHANGED <<untouched, loopOnly>>

(***************************************************************************)
(* A client answers a question it heard.  The session takes the answer only   *)
(* if that question is the one it holds; what it takes is sent to whoever     *)
(* waits, and lost when nobody does any more.                                *)
(***************************************************************************)
Waiting == {"hold", "announce", "await", "hold_limit", "say_limit", "await_limit"}

Delivered(question, asked, say) ==
    loop' = IF loop.at \in Waiting /\ loop.question = question
            THEN [loop EXCEPT !.answer = [for |-> asked, say |-> say]] ELSE loop

\* Mutant: whatever call the turn holds is answered.
AnswerAnyCall(q, say) ==
    /\ q \in heard /\ q.kind = "call" /\ say \in CallAnswers
    /\ held # NoQuestion /\ held.turn = q.turn
    /\ held' = NoQuestion
    /\ Delivered(held, q, say)
    /\ UNCHANGED <<untouched, current, cancelled, limitHeld, unlimited, events, heard, nextTurn>>

AnswerCall(q, say) ==
    /\ q \in heard /\ q.kind = "call" /\ say \in CallAnswers
    /\ held = q
    /\ held' = NoQuestion
    /\ Delivered(held, q, say)
    /\ UNCHANGED <<untouched, current, cancelled, limitHeld, unlimited, events, heard, nextTurn>>

ExtendLimit(q, say) ==
    /\ q \in heard /\ q.kind = "limit" /\ say \in LimitAnswers
    /\ limitHeld = q
    /\ limitHeld' = NoQuestion
    /\ Delivered(limitHeld, q, say)
    /\ UNCHANGED <<untouched, current, cancelled, held, unlimited, events, heard, nextTurn>>

\* A lasting answer the page lists is taken back, and then said so.
RevokeGrant(target) ==
    /\ target \in {g.target : g \in ToSet(view.grants)}
    /\ target \in allowed \cup forbidden
    /\ allowed' = allowed \ {target} /\ forbidden' = forbidden \ {target}
    /\ revoking' = revoking \cup {target}
    /\ UNCHANGED <<view, loopOnly, loop, events>>

SayRevoked(target) ==
    /\ target \in revoking
    /\ revoking' = revoking \ {target}
    /\ view' = [view EXCEPT !.grants = WithoutGrant(@, target)]
    /\ UNCHANGED <<allowed, forbidden, loopOnly, loop, events>>

Loop ==
    \/ Reply \/ Retry \/ NextReply
    \/ AsksForMore \/ HoldLimit \/ SayLimit \/ LimitAnswered \/ Stopped
    \/ Starts \/ RunDecided \/ AsksAPerson
    \/ Hold \/ Announce \/ Answered \/ Remember \/ SayGrant \/ Apply
    \/ DropsAsk \/ DropsLimit \/ Land

Next ==
    \/ Prompt \/ Loop \/ Forward \/ Cancel
    \/ \E q \in heard : \E say \in CallAnswers : AnswerCall(q, say)
    \/ \E q \in heard : \E say \in LimitAnswers : ExtendLimit(q, say)
    \/ \E t \in Targets : RevokeGrant(t)
    \/ \E t \in Targets : SayRevoked(t)

(***************************************************************************)
(* What the loop can do by itself it does: a tool call has its deadline, the *)
(* rest are locks and channels.  The model and the people owe nothing; only a  *)
(* cancelled model call returns.                                            *)
(***************************************************************************)
Fairness ==
    /\ WF_vars(Loop /\ (loop.at \in {"model", "retry"} => cancelled))
    /\ WF_vars(Forward)

Spec == Init /\ [][Next]_vars /\ Fairness

(***************************************************************************)
(* Properties.                                                             *)
(***************************************************************************)
Questions == [kind : {"call", "limit"}, turn : 1..MaxTurns, step : 1..MaxReplies,
              index : 1..MaxCalls]

TypeOK ==
    /\ current \in 0..MaxTurns /\ nextTurn \in 1..(MaxTurns + 1)
    /\ cancelled \in BOOLEAN /\ unlimited \in BOOLEAN
    /\ held \in Questions \cup {NoQuestion}
    /\ limitHeld \in Questions \cup {NoQuestion}
    /\ allowed \subseteq Targets /\ forbidden \subseteq Targets
    /\ revoking \subseteq Targets
    /\ heard \subseteq Questions
    /\ loop.question \in Questions \cup {NoQuestion}
    /\ loop.ran \in Nat /\ loop.mores \in Nat

\* The answer a turn acts on was given to the very question it asks: not to an
\* earlier one of the turn, nor to one of a cancelled turn, whoever answers
\* late or twice (handle_client_message, AnswerCall and ExtendLimit).
AnswersReachTheirQuestion ==
    loop.answer # NoAnswer => loop.answer.for = loop.question

\* A turn runs no more calls than --max-tool-steps and what people added to it,
\* unless somebody lifted the limit for the session (run_agent_turn).
CallsStayWithinBudget ==
    IF loop.budget = NoLimit THEN unlimited
    ELSE loop.ran <= MaxSteps * (1 + loop.mores)

\* While a turn waits for a person it can be answered: the session holds the
\* question, and once what the turn said is published the stream shows it.  The
\* view takes a question only for a call it has (ask, extend, apply_protocol).
AWaitingQuestionCanBeAnswered ==
    loop.answer = NoAnswer =>
        /\ loop.at = "await" =>
              /\ held = loop.question
              /\ events = <<>> => loop.question \in view.asked
        /\ loop.at = "await_limit" =>
              /\ limitHeld = loop.question
              /\ events = <<>> => loop.question = view.limit

\* The stream never leaves a question open for a turn that has ended, however it
\* ended: every page would ask it for ever (run_agent_turn's returns).
NoQuestionOutlivesItsTurn ==
    view.ended => view.asked = {} /\ view.limit = NoQuestion

\* A cancelled turn is over some time later, also when it waits for a person who
\* never answers (run_turn, and the selects of run_agent_turn).
CancelledTurnsEnd == cancelled ~> ~cancelled

\* serve.rs:234: "A yes or a no for the session is remembered before the call runs
\* or is refused, and said on the stream, so a resume has it and the page can list
\* it": between turns, with nothing being taken back, the answers in force are
\* those of the stream.
GrantsAreSaid ==
    loop.at = "idle" /\ revoking = {} =>
        /\ allowed = InForce(view.grants, TRUE)
        /\ forbidden = InForce(view.grants, FALSE)

=============================================================================
