---------------------------- MODULE AskingProofs ----------------------------
(***************************************************************************)
(* Proofs about Asking, for any targets and any bounds: an answer reaches the  *)
(* question it was given to, a turn runs no more calls than its budget, no      *)
(* question is left open on the stream, and one that waits can be answered.    *)
(*                                                                         *)
(* The first needs only that a new question begins without an answer.  The     *)
(* second needs it that what is heard at the limit is an answer about the      *)
(* limit: otherwise a yes for a call would be a budget of nothing.  The third   *)
(* and the fourth have invariants of their own, about what is on its way.     *)
(* Behind them, that the state keeps its types.                             *)
(***************************************************************************)
EXTENDS Asking, TLAPS

Kinds == {"none", "call", "limit"}

Asked == [kind : Kinds, turn : Nat, step : Nat, index : Nat]

Answers == [for : Asked, say : CallAnswers \cup LimitAnswers \cup {"none"}]

\* Where a call is at hand, and within the budget.
InACall == {"run", "running", "hold", "announce", "await", "remember", "say_grant", "apply"}

Places == {"idle", "model", "retry", "call", "stopped", "done"} \cup InACall \cup AsksForLimit

LoopTyped ==
    loop \in [at : Places, step : Nat, index : Nat, calls : Seq(Calls), ran : Nat,
              budget : Int, mores : Nat, question : Asked, answer : Answers]

Typed == LoopTyped /\ current \in Nat /\ nextTurn \in Nat /\ unlimited \in BOOLEAN

\* At the limit, the question and what is heard are about the limit.
AboutTheLimit ==
    loop.at \in AsksForLimit =>
        /\ loop.question.kind = "limit"
        /\ loop.answer # NoAnswer => loop.answer.say \in LimitAnswers
        /\ loop.budget # NoLimit

\* Calls --max-tool-steps and m extensions allow.
Allowance(m) == MaxSteps * (1 + m)

\* The budget is what was allowed, less than it has run where a call is at hand.
Budgeted ==
    \/ loop.budget = NoLimit /\ unlimited
    \/ loop.at = "idle" /\ loop.budget = 0 /\ loop.ran = 0 /\ loop.mores = 0
    \/ /\ loop.budget = Allowance(loop.mores)
       /\ loop.ran <= loop.budget
       /\ loop.at \in InACall => loop.ran < loop.budget

Inv == Typed /\ AnswersReachTheirQuestion /\ AboutTheLimit /\ Budgeted

LEMMA AllowanceGrows ==
    /\ Allowance(0) = MaxSteps
    /\ \A m \in Nat : /\ Allowance(m) \in Nat
                      /\ Allowance(m + 1) = Allowance(m) + MaxSteps
BY AskingAssumption DEF Allowance

LEMMA Starting == Init => Inv
<1> SUFFICES ASSUME Init PROVE Inv
    OBVIOUS
<1>1. Idle \in [at : Places, step : Nat, index : Nat, calls : Seq(Calls), ran : Nat,
                budget : Int, mores : Nat, question : Asked, answer : Answers]
    BY DEF Idle, Places, Asked, Answers, NoQuestion, NoAnswer, Kinds
<1>2. Typed
    BY <1>1 DEF Init, Typed, LoopTyped
<1> QED
    BY <1>2 DEF Init, Inv, AnswersReachTheirQuestion, AboutTheLimit, Budgeted, Idle,
                AsksForLimit

\* A step of the loop that takes no call and asks nothing: only where it stands
\* and the calls of its reply change.
LEMMA MovesKeep ==
    ASSUME Inv, NEW to \in Places \ (AsksForLimit \cup {"idle"}),
           loop.at # "idle",
           loop'.at = to, loop'.ran = loop.ran, loop'.budget = loop.budget,
           loop'.mores = loop.mores, loop'.question = loop.question,
           loop'.answer = loop.answer,
           to \in InACall => loop.at \in InACall \/ ~Spent,
           LoopTyped', UNCHANGED <<current, nextTurn, unlimited>>
    PROVE  Inv'
<1>1. Typed' /\ AnswersReachTheirQuestion' /\ AboutTheLimit'
    BY DEF Inv, Typed, AnswersReachTheirQuestion, AboutTheLimit, AsksForLimit, NoAnswer
<1>2. Budgeted'
    BY DEF Inv, Budgeted, Typed, LoopTyped, Spent, Allowance, NoLimit
<1> QED
    BY <1>1, <1>2 DEF Inv

LEMMA FieldsAreTyped ==
    ASSUME Inv
    PROVE  /\ LoopTyped
           /\ loop.step \in Nat /\ loop.step + 1 \in Nat
           /\ loop.index \in Nat /\ loop.index + 1 \in Nat
           /\ loop.ran \in Nat /\ loop.ran + 1 \in Nat
BY DEF Inv, Typed, LoopTyped

LEMMA NothingIsAsked == NoQuestion \in Asked /\ NoAnswer \in Answers /\ NoAnswer.for = NoQuestion
BY DEF NoQuestion, NoAnswer, Asked, Answers, Kinds

LEMMA QuestionsAreAsked ==
    ASSUME Typed, NEW kind \in Kinds
    PROVE  QuestionOf(kind) \in Asked /\ QuestionOf(kind).kind = kind
BY DEF Typed, LoopTyped, QuestionOf, Asked

LEMMA RepliesAreCalls == \A reply \in Replies : reply \in Seq(Calls)
BY AskingAssumption DEF Replies

\* The call of the model, its retry and the head of the loop over the calls.
LEMMA RepliesKeep == ASSUME Inv, Reply \/ Retry \/ NextReply \/ Starts \/ Stopped PROVE Inv'
<1> DEFINE Moves(to) ==
        /\ loop'.at = to /\ loop'.ran = loop.ran /\ loop'.budget = loop.budget
        /\ loop'.mores = loop.mores /\ loop'.question = loop.question
        /\ loop'.answer = loop.answer /\ LoopTyped'
<1>1. UNCHANGED <<current, nextTurn, unlimited>>
    BY DEF Reply, Retry, NextReply, Starts, Stopped, loopOnly
<1>2. LoopTyped
    BY DEF Inv, Typed
<1>3. ASSUME NEW type, Ends(type) PROVE Moves("done")
    BY <1>2, <1>3 DEF Ends, LoopTyped, Places
<1>4. ASSUME NEW reply \in Replies, Takes(reply) PROVE Moves("call")
    BY <1>2, <1>4, RepliesAreCalls DEF Takes, LoopTyped, Places
<1>5. CASE Reply
    <2>1. loop.at = "model" /\ (Moves("done") \/ Moves("retry") \/ Moves("call"))
        <3>1. CASE loop' = [loop EXCEPT !.at = "retry"]
            BY <1>2, <1>5, <3>1 DEF Reply, LoopTyped, Places
        <3> QED
            BY <1>3, <1>4, <1>5, <3>1 DEF Reply
    <2> QED
        BY <1>1, <2>1, MovesKeep DEF Places, InACall, AsksForLimit
<1>6. CASE Retry
    <2>1. loop.at = "retry" /\ (Moves("done") \/ Moves("call"))
        BY <1>3, <1>4, <1>6 DEF Retry
    <2> QED
        BY <1>1, <2>1, MovesKeep DEF Places, InACall, AsksForLimit
<1>7. CASE NextReply
    <2>1. loop.at = "call" /\ Moves("model")
        <3>1. <<>> \in Seq(Calls) /\ 0 \in Nat
            OBVIOUS
        <3> QED
            BY <1>2, <1>7, <3>1, FieldsAreTyped DEF NextReply, LoopTyped, Places
    <2> QED
        BY <1>1, <2>1, MovesKeep DEF Places, InACall, AsksForLimit
<1>8. CASE Starts
    <2>1. Moves("running") /\ (loop.at = "run" \/ (loop.at = "call" /\ ~Spent))
        BY <1>2, <1>8 DEF Starts, LoopTyped, Places, InACall
    <2> QED
        BY <1>1, <2>1, MovesKeep DEF Places, InACall, AsksForLimit
<1>9. CASE Stopped
    <2>1. loop.at = "stopped" /\ Moves("done")
        BY <1>3, <1>9 DEF Stopped
    <2> QED
        BY <1>1, <2>1, MovesKeep DEF Places, InACall, AsksForLimit
<1> QED
    BY <1>5, <1>6, <1>7, <1>8, <1>9

\* The parts of a question about a call that leave the question and its answer.
LEMMA QuestionsKeep ==
    ASSUME Inv, Hold \/ Announce \/ Answered \/ Remember \/ SayGrant
    PROVE  Inv'
<1>1. UNCHANGED <<current, nextTurn, unlimited>>
    BY DEF Hold, Announce, Answered, Remember, SayGrant, loopOnly
<1>2. PICK to \in {"announce", "await", "remember", "say_grant", "apply"} :
        loop.at \in InACall /\ loop' = [loop EXCEPT !.at = to]
    BY DEF Hold, Announce, Answered, Remember, SayGrant, InACall
<1>3. LoopTyped' /\ loop'.at = to /\ loop'.ran = loop.ran /\ loop'.budget = loop.budget
        /\ loop'.mores = loop.mores /\ loop'.question = loop.question
        /\ loop'.answer = loop.answer
    BY <1>2 DEF Inv, Typed, LoopTyped, Places, InACall
<1> QED
    BY <1>1, <1>2, <1>3, MovesKeep DEF Places, InACall, AsksForLimit

\* A call is over.
LEMMA StepsKeep == ASSUME Inv, RunDecided \/ Apply \/ DropsAsk PROVE Inv'
<1>1. UNCHANGED <<current, nextTurn, unlimited>> /\ loop.at \in InACall
    BY DEF RunDecided, Apply, DropsAsk, loopOnly, Asks, InACall
<1>2. /\ LoopTyped' /\ loop'.at \in {"call", "done"}
      /\ loop'.ran = loop.ran + 1 /\ loop'.budget = loop.budget /\ loop'.mores = loop.mores
      /\ \/ loop'.answer = NoAnswer
         \/ loop'.question = loop.question /\ loop'.answer = loop.answer
    <2>1. CASE loop' = Steps(loop)
        BY <2>1, NothingIsAsked, FieldsAreTyped DEF Steps, LoopTyped, Places
    <2>2. CASE loop' = [loop EXCEPT !.at = "done", !.ran = @ + 1]
        BY <2>2, FieldsAreTyped DEF LoopTyped, Places
    <2> QED
        BY <2>1, <2>2 DEF RunDecided, Apply, DropsAsk
<1>3. Typed' /\ AnswersReachTheirQuestion' /\ AboutTheLimit'
    BY <1>1, <1>2 DEF Inv, Typed, AnswersReachTheirQuestion, AboutTheLimit, AsksForLimit
<1>4. Budgeted'
    BY <1>1, <1>2 DEF Inv, Budgeted, Typed, LoopTyped, InACall, Allowance, NoLimit
<1> QED
    BY <1>3, <1>4 DEF Inv

\* A question begins, without an answer.
LEMMA AsksKeep == ASSUME Inv, AsksAPerson \/ AsksForMore PROVE Inv'
<1>1. UNCHANGED <<current, nextTurn, unlimited>>
    BY DEF AsksAPerson, AsksForMore, loopOnly
<1>2. PICK to \in {"hold", "hold_limit"}, kind \in {"call", "limit"} :
        /\ loop' = [loop EXCEPT !.at = to, !.question = QuestionOf(kind), !.answer = NoAnswer]
        /\ to = "hold" => loop.at \in InACall
        /\ to = "hold_limit" => kind = "limit" /\ loop.at = "call" /\ Spent
    <2>1. CASE AsksAPerson
        BY <2>1 DEF AsksAPerson, InACall
    <2>2. CASE AsksForMore
        BY <2>2 DEF AsksForMore
    <2> QED
        BY <2>1, <2>2
<1>3. QuestionOf(kind) \in Asked /\ QuestionOf(kind).kind = kind
    BY QuestionsAreAsked DEF Inv, Kinds
<1>5. /\ LoopTyped' /\ loop'.at = to /\ loop'.question.kind = kind
      /\ loop'.answer = NoAnswer /\ loop'.ran = loop.ran /\ loop'.budget = loop.budget
      /\ loop'.mores = loop.mores
    BY <1>2, <1>3, NothingIsAsked DEF Inv, Typed, LoopTyped, Places, InACall, AsksForLimit
<1>6. Typed' /\ AnswersReachTheirQuestion' /\ AboutTheLimit'
    BY <1>1, <1>2, <1>5 DEF Inv, Typed, AnswersReachTheirQuestion, AboutTheLimit, AsksForLimit,
        Spent
<1>7. Budgeted'
    BY <1>1, <1>2, <1>5 DEF Inv, Budgeted, Typed, LoopTyped, InACall, Allowance, NoLimit
<1> QED
    BY <1>6, <1>7 DEF Inv

\* The question about the limit, up to its answer.
LEMMA LimitKeeps == ASSUME Inv, HoldLimit \/ SayLimit \/ DropsLimit PROVE Inv'
<1>1. UNCHANGED <<current, nextTurn, unlimited>> /\ loop.at \in AsksForLimit
    BY DEF HoldLimit, SayLimit, DropsLimit, loopOnly, AsksForLimit
<1>2. PICK to \in {"say_limit", "await_limit", "done"} : loop' = [loop EXCEPT !.at = to]
    BY DEF HoldLimit, SayLimit, DropsLimit, Ends
<1>3. LoopTyped' /\ loop'.at = to /\ loop'.ran = loop.ran /\ loop'.budget = loop.budget
        /\ loop'.mores = loop.mores /\ loop'.question = loop.question
        /\ loop'.answer = loop.answer
    BY <1>2 DEF Inv, Typed, LoopTyped, Places, AsksForLimit
<1>4. Typed' /\ AnswersReachTheirQuestion' /\ AboutTheLimit'
    BY <1>1, <1>3 DEF Inv, Typed, AnswersReachTheirQuestion, AboutTheLimit, AsksForLimit, NoAnswer
<1>5. Budgeted'
    BY <1>1, <1>2, <1>3 DEF Inv, Budgeted, Typed, LoopTyped, InACall, AsksForLimit, Allowance,
        NoLimit
<1> QED
    BY <1>4, <1>5 DEF Inv

\* What a person adds, lifts or refuses.
LEMMA ExtensionKeeps == ASSUME Inv, LimitAnswered PROVE Inv'
<1> DEFINE said == loop.answer.say
<1>1. loop.at = "await_limit" /\ said \in LimitAnswers /\ loop.budget # NoLimit
    BY DEF Inv, LimitAnswered, AboutTheLimit, AsksForLimit
<1>2. UNCHANGED <<current, nextTurn>> /\ unlimited' = (unlimited \/ said = "no_limit")
    BY DEF LimitAnswered
<1>3. /\ LoopTyped' /\ loop'.at = (IF said = "stop" THEN "stopped" ELSE "run")
      /\ loop'.ran = loop.ran
      /\ loop'.mores = (IF said = "more" THEN loop.mores + 1 ELSE loop.mores)
      /\ loop'.budget = (IF said = "more" THEN loop.budget + MaxSteps
                         ELSE IF said = "no_limit" THEN NoLimit ELSE loop.budget)
      /\ loop'.question = loop.question /\ loop'.answer = loop.answer
    <2>1. PICK at \in {"stopped", "run"}, mores \in Nat, budget \in Int :
            /\ loop' = [loop EXCEPT !.at = at, !.mores = mores, !.budget = budget]
            /\ at = (IF said = "stop" THEN "stopped" ELSE "run")
            /\ mores = (IF said = "more" THEN loop.mores + 1 ELSE loop.mores)
            /\ budget = (IF said = "more" THEN loop.budget + MaxSteps
                         ELSE IF said = "no_limit" THEN NoLimit ELSE loop.budget)
        <3>1. loop.budget + MaxSteps \in Int /\ loop.mores + 1 \in Nat /\ NoLimit \in Int
                /\ loop.budget \in Int /\ loop.mores \in Nat
            BY AskingAssumption DEF Inv, Typed, LoopTyped, NoLimit
        <3>2. CASE said = "more"
            BY <3>1, <3>2 DEF LimitAnswered
        <3>3. CASE said = "no_limit"
            BY <3>1, <3>3 DEF LimitAnswered
        <3>4. CASE said = "stop"
            BY <3>1, <3>4 DEF LimitAnswered
        <3> QED
            BY <1>1, <3>2, <3>3, <3>4 DEF LimitAnswers
    <2> QED
        BY <2>1 DEF Inv, Typed, LoopTyped, Places, InACall
<1>4. Typed' /\ AnswersReachTheirQuestion' /\ AboutTheLimit'
    BY <1>1, <1>2, <1>3
    DEF Inv, Typed, AnswersReachTheirQuestion, AboutTheLimit, AsksForLimit, NoAnswer
<1>5. loop.budget = Allowance(loop.mores) /\ loop.ran <= loop.budget
    BY <1>1 DEF Inv, Budgeted
<1>6. Budgeted'
    <2>1. /\ loop.mores \in Nat /\ loop.ran \in Nat /\ loop.budget \in Int
          /\ Allowance(loop.mores + 1) = Allowance(loop.mores) + MaxSteps
          /\ MaxSteps \in Nat \ {0}
        BY AllowanceGrows, AskingAssumption DEF Inv, Typed, LoopTyped
    <2>2. CASE said = "more"
        <3>1. loop'.mores = loop.mores + 1 /\ loop'.budget = loop.budget + MaxSteps
            BY <1>3, <2>2
        <3>2. loop'.budget = Allowance(loop'.mores)
            BY <1>5, <2>1, <3>1
        <3> QED
            BY <1>3, <1>5, <2>1, <3>1, <3>2 DEF Budgeted
    <2>3. CASE said = "no_limit"
        BY <1>2, <1>3, <2>3 DEF Budgeted
    <2>4. CASE said = "stop"
        BY <1>3, <1>5, <2>4 DEF Budgeted, InACall, Allowance
    <2> QED
        BY <1>1, <2>2, <2>3, <2>4 DEF LimitAnswers
<1> QED
    BY <1>4, <1>6 DEF Inv

\* A turn begins and ends.
LEMMA TurnsKeep == ASSUME Inv, Prompt \/ Land PROVE Inv'
<1>1. CASE Prompt
    <2>1. /\ LoopTyped' /\ loop'.at = "model" /\ loop'.ran = 0 /\ loop'.mores = 0
          /\ loop'.budget = (IF unlimited THEN NoLimit ELSE MaxSteps)
          /\ loop'.answer = NoAnswer
        <3>1. PICK budget \in Int :
                /\ budget = (IF unlimited THEN NoLimit ELSE MaxSteps)
                /\ loop' = [Idle EXCEPT !.at = "model", !.step = 1, !.budget = budget]
            <4>1. MaxSteps \in Int /\ NoLimit \in Int
                BY AskingAssumption DEF NoLimit
            <4>2. CASE unlimited
                BY <1>1, <4>1, <4>2 DEF Prompt
            <4>3. CASE ~unlimited
                BY <1>1, <4>1, <4>3 DEF Prompt
            <4> QED
                BY <4>2, <4>3
        <3>2. loop' = [at |-> "model", step |-> 1, index |-> 0, calls |-> <<>>, ran |-> 0,
                       budget |-> budget, mores |-> 0, question |-> NoQuestion,
                       answer |-> NoAnswer]
            BY <3>1 DEF Idle
        <3> QED
            <4>1. "model" \in Places /\ <<>> \in Seq(Calls)
                BY DEF Places
            <4>2. LoopTyped'
                BY <3>2, <4>1, NothingIsAsked DEF LoopTyped
            <4>3. /\ loop'.at = "model" /\ loop'.ran = 0 /\ loop'.mores = 0
                  /\ loop'.budget = budget /\ loop'.answer = NoAnswer
                BY <3>2
            <4> QED
                BY <3>1, <4>2, <4>3
    <2>2. unlimited' = unlimited /\ current' \in Nat /\ nextTurn' \in Nat
        BY <1>1 DEF Prompt, Inv, Typed
    <2>3. Typed' /\ AnswersReachTheirQuestion' /\ AboutTheLimit'
        BY <2>1, <2>2 DEF Inv, Typed, AnswersReachTheirQuestion, AboutTheLimit, AsksForLimit
    <2>4. Budgeted'
        BY <2>1, <2>2, AllowanceGrows, AskingAssumption DEF Inv, Typed, Budgeted, InACall, NoLimit
    <2> QED
        BY <2>3, <2>4 DEF Inv
<1>2. CASE Land
    <2>1. loop' = Idle /\ current' = 0 /\ UNCHANGED <<nextTurn, unlimited>>
        BY <1>2 DEF Land
    <2>2. LoopTyped'
        BY <2>1 DEF Idle, LoopTyped, Places, Asked, Answers, NoQuestion, NoAnswer, Kinds
    <2> QED
        BY <2>1, <2>2
        DEF Inv, Typed, AnswersReachTheirQuestion, AboutTheLimit, AsksForLimit, Budgeted, Idle
<1> QED
    BY <1>1, <1>2

\* Whoever answers, and whenever: what is taken is about the question held, and
\* heard by the turn if that is the one it asks.
LEMMA AnswersKeep ==
    ASSUME Inv, NEW q, NEW say,
           \/ say \in CallAnswers /\ AnswerCall(q, say)
           \/ say \in LimitAnswers /\ ExtendLimit(q, say)
    PROVE  Inv'
<1>1. /\ UNCHANGED <<current, nextTurn, unlimited>> /\ Delivered(q, q, say)
      /\ q.kind = "limit" => say \in LimitAnswers
    BY DEF AnswerCall, ExtendLimit
<1>2. CASE loop' = loop
    BY <1>1, <1>2
    DEF Inv, Typed, LoopTyped, AnswersReachTheirQuestion, AboutTheLimit, Budgeted
<1>3. CASE loop.question = q /\ loop' = [loop EXCEPT !.answer = [for |-> q, say |-> say]]
    <2>1. [for |-> q, say |-> say] \in Answers
        BY <1>3 DEF Inv, Typed, LoopTyped, Answers
    <2>2. /\ LoopTyped' /\ loop'.at = loop.at /\ loop'.ran = loop.ran
          /\ loop'.budget = loop.budget /\ loop'.mores = loop.mores
          /\ loop'.question = q /\ loop'.answer = [for |-> q, say |-> say]
        BY <1>3, <2>1 DEF Inv, Typed, LoopTyped
    <2>3. Typed' /\ AnswersReachTheirQuestion'
        BY <1>1, <2>2 DEF Inv, Typed, AnswersReachTheirQuestion
    <2>4. AboutTheLimit'
        BY <1>1, <1>3, <2>2 DEF Inv, AboutTheLimit
    <2>5. Budgeted'
        BY <1>1, <2>2 DEF Inv, Budgeted
    <2> QED
        BY <2>3, <2>4, <2>5 DEF Inv
<1> QED
    BY <1>1, <1>2, <1>3 DEF Delivered

LEMMA OthersKeep ==
    ASSUME Inv,
           \/ Forward \/ Cancel \/ UNCHANGED vars
           \/ \E t \in Targets : RevokeGrant(t) \/ SayRevoked(t)
    PROVE  Inv'
<1>1. UNCHANGED <<loop, current, nextTurn, unlimited>>
    BY DEF Forward, Cancel, vars, RevokeGrant, SayRevoked, loopOnly
<1> QED
    BY <1>1 DEF Inv, Typed, LoopTyped, AnswersReachTheirQuestion, AboutTheLimit, Budgeted

LEMMA StepsKeepInv == Inv /\ [Next]_vars => Inv'
<1> SUFFICES ASSUME Inv, [Next]_vars PROVE Inv'
    OBVIOUS
<1>1. CASE Loop
    BY <1>1, RepliesKeep, QuestionsKeep, StepsKeep, AsksKeep, LimitKeeps, ExtensionKeeps, TurnsKeep
    DEF Loop
<1>2. CASE \E q \in heard : \/ \E say \in CallAnswers : AnswerCall(q, say)
                            \/ \E say \in LimitAnswers : ExtendLimit(q, say)
    BY <1>2, AnswersKeep
<1> QED
    BY <1>1, <1>2, TurnsKeep, OthersKeep DEF Next

LEMMA Invariance == Spec => []Inv
BY Starting, StepsKeepInv, PTL DEF Spec

-----------------------------------------------------------------------------
\* Whoever answers late or twice, what a turn acts on was given to the question
\* it asks (serve.rs, AnswerCall and ExtendLimit; the locks of held and limit_held).
THEOREM AnswersArrive == Spec => []AnswersReachTheirQuestion
<1>1. Inv => AnswersReachTheirQuestion
    BY DEF Inv
<1> QED
    BY <1>1, Invariance, PTL

\* Whatever --max-tool-steps is and however often it is extended, no call runs
\* past it, unless a person lifted it (agent.rs, run_agent_turn).
THEOREM CallsAreBounded == Spec => []CallsStayWithinBudget
<1>1. Inv => CallsStayWithinBudget
    <2> SUFFICES ASSUME Inv PROVE CallsStayWithinBudget
        OBVIOUS
    <2>1. CASE loop.budget = NoLimit
        BY <2>1 DEF Inv, Budgeted, CallsStayWithinBudget, NoLimit, Allowance, Typed, LoopTyped
    <2>2. CASE loop.budget # NoLimit
        BY <2>2, AskingAssumption
        DEF Inv, Budgeted, CallsStayWithinBudget, Allowance, Typed, LoopTyped
    <2> QED
        BY <2>1, <2>2
<1> QED
    BY <1>1, Invariance, PTL

-----------------------------------------------------------------------------
(***************************************************************************)
(* No question outlives its turn.  The forwarder is behind the loop, so what  *)
(* is inductive is about what is still on its way: each question the view      *)
(* shows, or will show, has its result further on in the channel, or the loop   *)
(* is still at it; and the end of the turn is the last thing in the channel.    *)
(***************************************************************************)
Types == {"tool_call", "call_held", "tool_result", "limit_reached", "limit_extended",
          "ended", "failed"}

LastTypes == {"ended", "failed"}

EventsOf == [type : Types, question : Asked, no_limit : BOOLEAN]

HasResult(es, i, q) ==
    \E j \in DOMAIN es : j > i /\ es[j].type = "tool_result" /\ es[j].question = q

\* Of the questions shown and on their way, those in `asking` may lack a result.
Closes(asked, es, asking) ==
    /\ \A q \in asked : q \in asking \/ HasResult(es, 0, q)
    /\ \A i \in DOMAIN es :
          es[i].type = "call_held" =>
              es[i].question \in asking \/ HasResult(es, i, es[i].question)

\* The question the loop has said and not yet sent the result of.
AskedNow ==
    IF loop.at \in {"await", "remember", "say_grant", "apply"}
    THEN {QuestionOf("call")} ELSE {}

ViewShaped ==
    view = [calls |-> view.calls, asked |-> view.asked, limit |-> view.limit,
            ended |-> view.ended, grants |-> view.grants, unlimited |-> view.unlimited]

NothingIsOpen(v) == v.asked = {} /\ v.limit = NoQuestion

\* The end is sent last, and nothing is open where it has arrived.
EndsLast(v, es, at) ==
    /\ \A i \in DOMAIN es : es[i].type \in LastTypes => i = Len(es) /\ at = "done"
    /\ at = "done" => v.ended \/ (es # <<>> /\ es[Len(es)].type \in LastTypes)
    /\ v.ended => es = <<>> /\ at \in {"done", "idle"} /\ NothingIsOpen(v)
    /\ at = "idle" => es = <<>> /\ NothingIsOpen(v)

Closing ==
    /\ ViewShaped /\ events \in Seq(EventsOf)
    /\ Closes(view.asked, events, AskedNow)
    /\ EndsLast(view, events, loop.at)

\* An event is sent: a question with it is one the loop is at from then on, and
\* one the loop is at no more has its result with it.
LEMMA SendingCloses ==
    ASSUME NEW es \in Seq(EventsOf), NEW e \in EventsOf, NEW asked, NEW was, NEW now,
           Closes(asked, es, was),
           \A q \in was : q \in now \/ (e.type = "tool_result" /\ e.question = q),
           e.type = "call_held" => e.question \in now
    PROVE  Closes(asked, Append(es, e), now) /\ Append(es, e) \in Seq(EventsOf)
<1> DEFINE n == Len(es)
           more == Append(es, e)
<1>1. /\ n \in Nat /\ DOMAIN es = 1..n /\ DOMAIN more = 1..(n + 1)
      /\ more[n + 1] = e /\ \A i \in 1..n : more[i] = es[i]
      /\ more \in Seq(EventsOf)
    OBVIOUS
<1> HIDE DEF n, more
<1>2. ASSUME NEW i \in 0..n, NEW q, HasResult(es, i, q)
      PROVE  HasResult(more, i, q)
    BY <1>1, <1>2 DEF HasResult
<1>3. ASSUME NEW i \in 0..n, NEW q \in was
      PROVE  q \in now \/ HasResult(more, i, q)
    BY <1>1, <1>3 DEF HasResult
<1>4. \A q \in asked : q \in now \/ HasResult(more, 0, q)
    BY <1>1, <1>2, <1>3 DEF Closes
<1>5. ASSUME NEW i \in DOMAIN more, more[i].type = "call_held"
      PROVE  more[i].question \in now \/ HasResult(more, i, more[i].question)
    <2>1. CASE i = n + 1
        BY <1>1, <1>5, <2>1
    <2>2. CASE i \in 1..n
        <3>1. more[i] = es[i] /\ i \in DOMAIN es /\ i \in 0..n
            BY <1>1, <2>2
        <3> QED
            BY <1>2, <1>3, <1>5, <3>1 DEF Closes
    <2> QED
        BY <1>1, <1>5, <2>1, <2>2
<1> QED
    BY <1>1, <1>4, <1>5 DEF Closes, more

\* The first event arrives: its question is shown, or is shown no more.
LEMMA ArrivingCloses ==
    ASSUME NEW es \in Seq(EventsOf), es # <<>>, NEW asked, NEW shown, NEW asking,
           Closes(asked, es, asking),
           \A q \in shown :
              \/ q \in asked /\ ~(Head(es).type = "tool_result" /\ Head(es).question = q)
              \/ Head(es).type = "call_held" /\ Head(es).question = q
    PROVE  Closes(shown, Tail(es), asking) /\ Tail(es) \in Seq(EventsOf)
<1> DEFINE n == Len(es)
           rest == Tail(es)
<1>1. /\ n \in Nat \ {0} /\ DOMAIN es = 1..n /\ DOMAIN rest = 1..(n - 1)
      /\ Head(es) = es[1] /\ \A i \in 1..(n - 1) : rest[i] = es[i + 1]
      /\ rest \in Seq(EventsOf)
    OBVIOUS
<1> HIDE DEF n, rest
<1>2. ASSUME NEW i \in Nat, NEW q, HasResult(es, i + 1, q)
      PROVE  HasResult(rest, i, q)
    <2>1. PICK j \in 1..n : j > i + 1 /\ es[j].type = "tool_result" /\ es[j].question = q
        BY <1>1, <1>2 DEF HasResult
    <2>2. j - 1 \in 1..(n - 1) /\ rest[j - 1] = es[j] /\ j - 1 > i
        BY <1>1, <2>1
    <2> QED
        BY <1>1, <2>1, <2>2 DEF HasResult
<1>3. ASSUME NEW q \in shown
      PROVE  q \in asking \/ HasResult(rest, 0, q)
    <2>1. CASE q \in asked /\ ~(es[1].type = "tool_result" /\ es[1].question = q)
        <3>1. HasResult(es, 0, q) => HasResult(es, 1, q)
            BY <1>1, <2>1 DEF HasResult
        <3> QED
            BY <1>2, <2>1, <3>1 DEF Closes
    <2>2. CASE es[1].type = "call_held" /\ es[1].question = q
        BY <1>1, <1>2, <2>2 DEF Closes
    <2> QED
        BY <1>1, <1>3, <2>1, <2>2
<1>4. ASSUME NEW i \in DOMAIN rest, rest[i].type = "call_held"
      PROVE  rest[i].question \in asking \/ HasResult(rest, i, rest[i].question)
    <2>1. i \in Nat /\ i + 1 \in DOMAIN es /\ rest[i] = es[i + 1]
        BY <1>1, <1>4
    <2> QED
        BY <1>2, <1>4, <2>1 DEF Closes
<1> QED
    BY <1>1, <1>3, <1>4 DEF Closes, rest

LEMMA EventsAreTyped ==
    ASSUME Typed, NEW type \in Types, NEW lifted \in BOOLEAN
    PROVE  /\ Event(type) \in EventsOf /\ Event(type).type = type
           /\ Event(type).question = QuestionOf("call")
           /\ LimitEvent(type, lifted) \in EventsOf /\ LimitEvent(type, lifted).type = type
BY QuestionsAreAsked DEF Event, LimitEvent, EventsOf, Kinds

\* The loop sends an event, and says by it whether it is done.
LEMMA SendingKeeps ==
    ASSUME Inv, Closing, NEW e \in EventsOf, events' = Append(events, e),
           ViewShaped', view'.asked = view.asked, view'.ended = view.ended,
           loop.at \notin {"idle", "done"}, loop'.at # "idle",
           loop'.at = "done" <=> e.type \in LastTypes,
           e.type = "call_held" => e.question \in AskedNow',
           \A q \in AskedNow : q \in AskedNow' \/ (e.type = "tool_result" /\ e.question = q)
    PROVE  Closing'
<1>1. Closes(view.asked, events, AskedNow) /\ events \in Seq(EventsOf)
    BY DEF Closing
<1>2. Closes(view.asked, Append(events, e), AskedNow') /\ events' \in Seq(EventsOf)
    BY <1>1, SendingCloses
<1>3. EndsLast(view', events', loop'.at)
    <2>1. /\ Len(events) \in Nat /\ Len(events') = Len(events) + 1 /\ events' # <<>>
          /\ DOMAIN events' = 1..(Len(events) + 1) /\ DOMAIN events = 1..Len(events)
          /\ events'[Len(events) + 1] = e
          /\ \A i \in 1..Len(events) : events'[i] = events[i]
        BY <1>1
    <2>2. /\ ~view.ended
          /\ \A i \in 1..Len(events) : events[i].type \notin LastTypes
        BY <2>1 DEF Closing, EndsLast
    <2> QED
        BY <2>1, <2>2 DEF EndsLast
<1> QED
    BY <1>2, <1>3 DEF Closing

\* The loop goes on and sends nothing.
LEMMA QuietKeeps ==
    ASSUME Closing, events' = events,
           ViewShaped', view'.asked = view.asked, view'.ended = view.ended,
           view'.limit = view.limit,
           \/ loop'.at = loop.at
           \/ loop.at \notin {"idle", "done"} /\ loop'.at \notin {"idle", "done"},
           AskedNow \subseteq AskedNow'
    PROVE  Closing'
<1>1. Closes(view'.asked, events', AskedNow')
    BY DEF Closing, Closes
<1>2. EndsLast(view', events', loop'.at)
    BY DEF Closing, EndsLast, NothingIsOpen
<1> QED
    BY <1>1, <1>2 DEF Closing

LEMMA ClosingStarts == Init => Closing
BY DEF Init, Closing, ViewShaped, NoView, Idle, Closes, EndsLast, AskedNow, NothingIsOpen

\* Where the loop is afterwards, and that what names its question stays.
LEMMA PlaceMoves ==
    ASSUME Inv, NEW to, loop' = [loop EXCEPT !.at = to]
    PROVE  /\ loop'.at = to /\ loop'.step = loop.step /\ loop'.index = loop.index
           /\ current' = current => QuestionOf("call")' = QuestionOf("call")
BY DEF Inv, Typed, LoopTyped, QuestionOf

\* The loop ends its turn.
LEMMA EndingKeeps ==
    ASSUME Inv, Closing, NEW type \in LastTypes, Ends(type), view' = view,
           loop.at \notin {"idle", "done"}, AskedNow = {}
    PROVE  Closing'
<1>1. Event(type) \in EventsOf /\ Event(type).type = type
    BY EventsAreTyped DEF Inv, LastTypes, Types
<1>2. loop'.at = "done"
    BY PlaceMoves DEF Ends
<1> QED
    BY <1>1, <1>2, SendingKeeps DEF Ends, Sends, Closing, LastTypes, ViewShaped

\* The model, its retry, the head of the loop over the calls, and the limit.
LEMMA LoopCloses ==
    ASSUME Inv, Closing,
           \/ Reply \/ Retry \/ NextReply \/ AsksForMore \/ HoldLimit \/ SayLimit
           \/ Stopped \/ Starts \/ AsksAPerson \/ Hold \/ DropsLimit
    PROVE  Closing'
<1>1. LoopTyped /\ Typed
    BY DEF Inv, Typed
<1>2. /\ loop.at \in {"model", "retry", "call", "hold_limit", "say_limit", "await_limit",
                      "stopped", "run", "running", "hold"}
      /\ view' = view /\ ViewShaped'
    BY DEF Reply, Retry, NextReply, AsksForMore, HoldLimit, SayLimit, Stopped, Starts,
           AsksAPerson, Hold, DropsLimit, AsksForLimit, untouched, Closing, ViewShaped
<1>3. AskedNow = {}
    BY <1>2 DEF AskedNow
<1>4. ASSUME NEW type, type \in LastTypes, Ends(type)
      PROVE  Closing'
    BY <1>2, <1>3, <1>4, EndingKeeps
<1>5. ASSUME events' = events, loop'.at \notin {"idle", "done"}
      PROVE  Closing'
    BY <1>2, <1>3, <1>5, QuietKeeps
<1>6. ASSUME NEW e \in EventsOf, events' = Append(events, e), e.type \notin LastTypes,
             e.type # "call_held", loop'.at \notin {"idle", "done"}
      PROVE  Closing'
    BY <1>2, <1>3, <1>6, SendingKeeps
<1>7. CASE Reply \/ Retry
    <2>1. ASSUME NEW reply, Takes(reply)
          PROVE  Closing'
        <3>1. loop'.at = "call"
            BY <1>1, <2>1 DEF Takes, LoopTyped
        <3> QED
            BY <1>5, <2>1, <3>1 DEF Takes, Quiet
    <2>2. ASSUME loop' = [loop EXCEPT !.at = "retry"], Quiet
          PROVE  Closing'
        BY <1>1, <1>5, <2>2 DEF LoopTyped, Quiet
    <2> QED
        BY <1>4, <1>7, <2>1, <2>2 DEF Reply, Retry, LastTypes
<1>8. CASE NextReply \/ AsksForMore \/ HoldLimit \/ AsksAPerson \/ Hold
    <2>1. loop'.at \in {"model", "hold_limit", "say_limit", "hold", "announce"}
        BY <1>1, <1>8 DEF NextReply, AsksForMore, HoldLimit, AsksAPerson, Hold, LoopTyped
    <2>2. events' = events
        BY <1>8 DEF NextReply, AsksForMore, HoldLimit, AsksAPerson, Hold
    <2> QED
        BY <1>5, <2>1, <2>2
<1>9. CASE SayLimit
    <2>1. /\ LimitEvent("limit_reached", FALSE) \in EventsOf
          /\ LimitEvent("limit_reached", FALSE).type = "limit_reached"
        BY <1>1, EventsAreTyped DEF Types
    <2>2. loop'.at = "await_limit"
        BY <1>9, PlaceMoves DEF SayLimit
    <2> QED
        BY <1>6, <1>9, <2>1, <2>2 DEF SayLimit, Sends, LastTypes
<1>10. CASE Starts
    <2>1. Event("tool_call") \in EventsOf /\ Event("tool_call").type = "tool_call"
        BY <1>1, EventsAreTyped DEF Types
    <2>2. loop'.at = "running"
        BY <1>10, PlaceMoves DEF Starts
    <2> QED
        BY <1>6, <1>10, <2>1, <2>2 DEF Starts, Sends, LastTypes
<1>11. CASE Stopped \/ DropsLimit
    BY <1>4, <1>11 DEF Stopped, DropsLimit, LastTypes
<1> QED
    BY <1>7, <1>8, <1>9, <1>10, <1>11

\* What a person adds, lifts or refuses at the limit.
LEMMA ExtensionCloses ==
    ASSUME Inv, Closing, LimitAnswered
    PROVE  Closing'
<1>1. /\ loop.at = "await_limit" /\ view' = view /\ ViewShaped' /\ AskedNow = {}
      /\ loop'.at \in {"stopped", "run"}
    BY DEF LimitAnswered, untouched, Closing, ViewShaped, AskedNow, Inv, Typed, LoopTyped
<1>2. CASE loop.answer.say = "stop"
    <2>1. events' = events
        BY <1>2 DEF LimitAnswered, Quiet
    <2> QED
        BY <1>1, <2>1, QuietKeeps
<1>3. CASE loop.answer.say # "stop"
    <2> DEFINE e == LimitEvent("limit_extended", loop.answer.say = "no_limit")
    <2>1. e \in EventsOf /\ e.type = "limit_extended"
        BY EventsAreTyped DEF Inv, Types
    <2>2. events' = Append(events, e)
        BY <1>3 DEF LimitAnswered, Sends
    <2> HIDE DEF e
    <2> QED
        BY <1>1, <2>1, <2>2, SendingKeeps DEF LastTypes
<1> QED
    BY <1>2, <1>3

\* A question is said, answered, remembered, and has its result.
LEMMA QuestionCloses ==
    ASSUME Inv, Closing,
           \/ Announce \/ Answered \/ Remember \/ SayGrant \/ Apply \/ RunDecided
    PROVE  Closing'
<1>1. LoopTyped /\ Typed /\ ViewShaped
    BY DEF Inv, Typed, Closing
<1>2. /\ Event("call_held") \in EventsOf /\ Event("call_held").type = "call_held"
      /\ Event("call_held").question = QuestionOf("call")
      /\ Event("tool_result") \in EventsOf /\ Event("tool_result").type = "tool_result"
      /\ Event("tool_result").question = QuestionOf("call")
    BY <1>1, EventsAreTyped DEF Types
<1>3. AskedNow \subseteq {QuestionOf("call")} /\ current' = current
    BY DEF AskedNow, Announce, Answered, Remember, SayGrant, Apply, RunDecided, loopOnly
<1>4. ViewShaped' /\ view'.asked = view.asked /\ view'.ended = view.ended
      /\ view'.limit = view.limit
    <2>1. CASE SayGrant
        BY <1>1, <2>1 DEF SayGrant, ViewShaped
    <2>2. CASE ~SayGrant
        BY <1>1, <2>2 DEF Announce, Answered, Remember, Apply, RunDecided, untouched, ViewShaped
    <2> QED
        BY <2>1, <2>2
<1>5. CASE Announce
    <2>1. loop'.at = "await" /\ QuestionOf("call")' = QuestionOf("call")
        BY <1>3, <1>5, PlaceMoves DEF Announce
    <2>2. AskedNow' = {QuestionOf("call")}
        BY <2>1 DEF AskedNow
    <2> QED
        BY <1>2, <1>3, <1>4, <1>5, <2>1, <2>2, SendingKeeps DEF Announce, Sends, LastTypes
<1>6. CASE Answered \/ Remember \/ SayGrant
    <2>1. PICK to \in {"remember", "say_grant", "apply"} : loop' = [loop EXCEPT !.at = to]
        BY <1>6 DEF Answered, Remember, SayGrant
    <2>2. loop'.at = to /\ QuestionOf("call")' = QuestionOf("call")
        BY <1>3, <2>1, PlaceMoves
    <2>3. AskedNow' = {QuestionOf("call")}
        BY <2>2 DEF AskedNow
    <2>4. loop.at \notin {"idle", "done"} /\ events' = events
        BY <1>6 DEF Answered, Remember, SayGrant
    <2> QED
        BY <1>3, <1>4, <2>2, <2>3, <2>4, QuietKeeps
<1>7. CASE Apply \/ RunDecided
    <2>1. loop'.at = "call" /\ loop.at \notin {"idle", "done"}
        BY <1>1, <1>7 DEF Apply, RunDecided, Steps, LoopTyped
    <2>2. events' = Append(events, Event("tool_result"))
        BY <1>7 DEF Apply, RunDecided, Sends
    <2> QED
        BY <1>2, <1>3, <1>4, <2>1, <2>2, SendingKeeps DEF LastTypes
<1> QED
    BY <1>5, <1>6, <1>7

\* A question that a cancel drops has its result all the same, before the end.
LEMMA DroppingCloses ==
    ASSUME Inv, Closing, DropsAsk
    PROVE  Closing'
<1> DEFINE result == Event("tool_result")
           end == Event("ended")
<1>1. /\ result \in EventsOf /\ result.type = "tool_result"
      /\ result.question = QuestionOf("call")
      /\ end \in EventsOf /\ end.type = "ended"
    BY EventsAreTyped DEF Inv, Types
<1>2. /\ events \in Seq(EventsOf) /\ ViewShaped' /\ view' = view
      /\ Closes(view.asked, events, AskedNow)
      /\ events' = events \o <<result, end>>
      /\ loop.at \notin {"idle", "done"}
    BY DEF DropsAsk, Closing, ViewShaped, untouched, Asks
<1>3. loop'.at = "done"
    BY FieldsAreTyped DEF DropsAsk, Inv, Typed, LoopTyped
<1> HIDE DEF result, end
<1>4. AskedNow \subseteq {QuestionOf("call")} /\ AskedNow' = {}
    BY <1>3 DEF AskedNow
<1>5. Closes(view.asked, Append(events, result), {}) /\ Append(events, result) \in Seq(EventsOf)
    BY <1>1, <1>2, <1>4, SendingCloses
<1>6. /\ Closes(view.asked, Append(Append(events, result), end), {})
      /\ Append(Append(events, result), end) \in Seq(EventsOf)
    <2> DEFINE es == Append(events, result)
    <2>1. Closes(view.asked, es, {}) /\ es \in Seq(EventsOf)
        BY <1>5
    <2> HIDE DEF es
    <2>2. /\ Closes(view.asked, Append(es, end), {})
          /\ Append(es, end) \in Seq(EventsOf)
        BY <1>1, <2>1, SendingCloses
    <2> QED
        BY <2>2 DEF es
<1>7. Append(Append(events, result), end) = events \o <<result, end>>
    BY <1>1, <1>2
<1>8. EndsLast(view', events', loop'.at)
    <2>1. /\ Len(events) \in Nat /\ Len(events') = Len(events) + 2 /\ events' # <<>>
          /\ DOMAIN events' = 1..(Len(events) + 2) /\ DOMAIN events = 1..Len(events)
          /\ events'[Len(events) + 1] = result /\ events'[Len(events) + 2] = end
          /\ \A i \in 1..Len(events) : events'[i] = events[i]
        BY <1>1, <1>2
    <2>2. /\ ~view.ended
          /\ \A i \in 1..Len(events) : events[i].type \notin LastTypes
        BY <1>2, <2>1 DEF Closing, EndsLast
    <2> QED
        BY <1>1, <1>2, <1>3, <2>1, <2>2 DEF EndsLast, LastTypes
<1> QED
    BY <1>2, <1>4, <1>6, <1>7, <1>8 DEF Closing

\* An event arrives: if it is the end, it was the last, and nothing is open.
LEMMA ArrivalCloses ==
    ASSUME Inv, Closing, Forward
    PROVE  Closing'
<1> DEFINE e == Head(events)
<1>1. /\ events \in Seq(EventsOf) /\ events # <<>> /\ ViewShaped
      /\ Closes(view.asked, events, AskedNow) /\ EndsLast(view, events, loop.at)
    BY DEF Forward, Closing
<1>2. /\ e \in EventsOf /\ Len(events) \in Nat \ {0} /\ e = events[1]
      /\ DOMAIN events = 1..Len(events)
      /\ Len(Tail(events)) = Len(events) - 1
      /\ DOMAIN Tail(events) = 1..(Len(events) - 1)
      /\ \A i \in 1..(Len(events) - 1) : Tail(events)[i] = events[i + 1]
    BY <1>1
<1>3. view' = Folded(view, e) /\ events' = Tail(events) /\ loop' = loop /\ current' = current
    BY DEF Forward
<1>4. AskedNow' = AskedNow
    BY <1>3 DEF AskedNow, QuestionOf
<1>5. e.type \in Types
    BY <1>2 DEF EventsOf
<1> HIDE DEF e
<1>6. /\ ViewShaped'
      /\ e.type = "call_held" =>
            view'.asked = view.asked \cup ({e.question} \cap view.calls)
      /\ e.type = "tool_result" => view'.asked = view.asked \ {e.question}
      /\ e.type \notin {"call_held", "tool_result"} => view'.asked = view.asked
      /\ view'.ended => view.ended \/ e.type \in LastTypes
      /\ e.type \in LastTypes => view'.ended /\ view'.limit = NoQuestion
    <2>1. CASE e.type = "tool_call"
        <3>1. view' = [view EXCEPT !.calls = @ \cup {e.question}]
            BY <1>3, <2>1 DEF Folded
        <3> QED
            BY <1>1, <2>1, <3>1 DEF ViewShaped, LastTypes
    <2>2. CASE e.type = "call_held"
        <3>1. view' = [view EXCEPT !.asked = @ \cup ({e.question} \cap view.calls)]
            BY <1>3, <2>2 DEF Folded
        <3> QED
            BY <1>1, <2>2, <3>1 DEF ViewShaped, LastTypes
    <2>3. CASE e.type = "tool_result"
        <3>1. view' = [view EXCEPT !.asked = @ \ {e.question}]
            BY <1>3, <2>3 DEF Folded
        <3> QED
            BY <1>1, <2>3, <3>1 DEF ViewShaped, LastTypes
    <2>4. CASE e.type = "limit_reached"
        <3>1. view' = [view EXCEPT !.limit = e.question]
            BY <1>3, <2>4 DEF Folded
        <3> QED
            BY <1>1, <2>4, <3>1 DEF ViewShaped, LastTypes
    <2>5. CASE e.type = "limit_extended"
        <3>1. view' = [view EXCEPT !.limit = NoQuestion, !.unlimited = @ \/ e.no_limit]
            BY <1>3, <2>5 DEF Folded
        <3> QED
            BY <1>1, <2>5, <3>1 DEF ViewShaped, LastTypes
    <2>6. CASE e.type \in LastTypes
        <3>1. view' = [view EXCEPT !.limit = NoQuestion, !.ended = TRUE]
            BY <1>3, <2>6 DEF Folded, LastTypes
        <3> QED
            BY <1>1, <2>6, <3>1 DEF ViewShaped, LastTypes
    <2> QED
        BY <1>5, <2>1, <2>2, <2>3, <2>4, <2>5, <2>6 DEF Types, LastTypes
<1>7. \A q \in view'.asked :
          \/ q \in view.asked /\ ~(e.type = "tool_result" /\ e.question = q)
          \/ e.type = "call_held" /\ e.question = q
    BY <1>6
<1>8. Closes(view'.asked, Tail(events), AskedNow) /\ Tail(events) \in Seq(EventsOf)
    BY <1>1, <1>7, ArrivingCloses DEF e
<1>9. EndsLast(view', events', loop'.at)
    <2>1. ~view.ended /\ loop.at # "idle"
        BY <1>1 DEF EndsLast
    <2>2. CASE e.type \in LastTypes
        <3>1. Len(events) = 1 /\ loop.at = "done" /\ events' = <<>>
            BY <1>1, <1>2, <1>3, <2>2 DEF EndsLast
        <3>2. AskedNow = {} /\ \A q : ~HasResult(Tail(events), 0, q)
            BY <1>2, <3>1 DEF AskedNow, HasResult
        <3>3. view'.asked = {}
            BY <1>8, <3>2 DEF Closes
        <3> QED
            BY <1>3, <1>6, <2>2, <3>1, <3>3 DEF EndsLast, NothingIsOpen
    <2>3. CASE e.type \notin LastTypes
        <3>1. ~view'.ended
            BY <1>6, <2>1, <2>3
        <3>2. \A i \in DOMAIN events' : events'[i].type \in LastTypes =>
                    i = Len(events') /\ loop'.at = "done"
            BY <1>1, <1>2, <1>3 DEF EndsLast
        <3>3. ASSUME loop.at = "done"
              PROVE  events' # <<>> /\ events'[Len(events')].type \in LastTypes
            <4>1. events[Len(events)].type \in LastTypes
                BY <1>1, <2>1, <3>3 DEF EndsLast
            <4>2. Len(events) > 1
                BY <1>2, <2>3, <4>1
            <4> DEFINE n == Len(events) - 1
            <4>3. n \in 1..n /\ n + 1 = Len(events) /\ n # 0
                BY <1>2, <4>2
            <4>4. Len(events') = n /\ events'[n] = events[n + 1]
                BY <1>2, <1>3, <4>3
            <4> HIDE DEF n
            <4>5. events' # <<>>
                BY <4>3, <4>4
            <4> QED
                BY <4>1, <4>3, <4>4, <4>5
        <3> QED
            BY <1>3, <2>1, <3>1, <3>2, <3>3 DEF EndsLast
    <2> QED
        BY <2>2, <2>3
<1> QED
    BY <1>3, <1>4, <1>6, <1>8, <1>9 DEF Closing

\* A turn begins where nothing is open, and ends where its end has arrived.
LEMMA TurnsClose ==
    ASSUME Inv, Closing, Prompt \/ Land
    PROVE  Closing'
<1>1. ViewShaped /\ EndsLast(view, events, loop.at) /\ events \in Seq(EventsOf)
    BY DEF Closing
<1>2. events = <<>> /\ events' = <<>> /\ NothingIsOpen(view)
    BY <1>1 DEF Prompt, Land, EndsLast
<1>3. ViewShaped' /\ NothingIsOpen(view')
    BY <1>1, <1>2 DEF Prompt, Land, untouched, ViewShaped, NothingIsOpen
<1>4. \/ loop'.at = "model" /\ ~view'.ended
      \/ loop'.at = "idle"
    <2>1. CASE Prompt
        <3>1. loop'.at = "model"
            BY <2>1 DEF Prompt, Idle
        <3>2. view' = [view EXCEPT !.calls = {}, !.ended = FALSE]
            BY <2>1 DEF Prompt
        <3>3. ~view'.ended
            BY <1>1, <3>2 DEF ViewShaped
        <3> QED
            BY <3>1, <3>3
    <2>2. CASE Land
        BY <2>2 DEF Land, Idle
    <2> QED
        BY <2>1, <2>2
<1> QED
    BY <1>2, <1>3, <1>4 DEF Closing, Closes, EndsLast, NothingIsOpen

\* Whatever clients do: an answer, a cancel, an answer taken back.
LEMMA ClientsClose ==
    ASSUME Inv, Closing,
           \/ Cancel \/ UNCHANGED vars
           \/ \E q \in heard : \E say \in CallAnswers : AnswerCall(q, say)
           \/ \E q \in heard : \E say \in LimitAnswers : ExtendLimit(q, say)
           \/ \E t \in Targets : RevokeGrant(t) \/ SayRevoked(t)
    PROVE  Closing'
<1>1. ViewShaped /\ LoopTyped
    BY DEF Closing, Inv, Typed
<1>2. events' = events /\ current' = current
    BY DEF Cancel, vars, AnswerCall, ExtendLimit, RevokeGrant, SayRevoked, loopOnly
<1>3. ViewShaped' /\ view'.asked = view.asked /\ view'.ended = view.ended
      /\ view'.limit = view.limit
    <2>1. CASE \E t \in Targets : SayRevoked(t)
        BY <1>1, <2>1 DEF SayRevoked, ViewShaped
    <2>2. CASE view' = view
        BY <1>1, <2>2 DEF ViewShaped
    <2> QED
        BY <2>1, <2>2 DEF Cancel, vars, AnswerCall, ExtendLimit, RevokeGrant, untouched
<1>4. loop'.at = loop.at /\ loop'.step = loop.step /\ loop'.index = loop.index
    <2>1. CASE loop' = loop
        BY <2>1
    <2>2. CASE \E answer : loop' = [loop EXCEPT !.answer = answer]
        BY <1>1, <2>2 DEF LoopTyped
    <2> QED
        BY <2>1, <2>2
        DEF Cancel, vars, AnswerCall, ExtendLimit, Delivered, RevokeGrant, SayRevoked, untouched
<1>5. AskedNow' = AskedNow
    BY <1>2, <1>4 DEF AskedNow, QuestionOf
<1> QED
    BY <1>2, <1>3, <1>4, <1>5, QuietKeeps

LEMMA StepsClose == Inv /\ Closing /\ [Next]_vars => Closing'
<1> SUFFICES ASSUME Inv, Closing, [Next]_vars PROVE Closing'
    OBVIOUS
<1>1. CASE Loop
    BY <1>1, LoopCloses, ExtensionCloses, QuestionCloses, DroppingCloses, TurnsClose DEF Loop
<1> QED
    BY <1>1, TurnsClose, ArrivalCloses, ClientsClose DEF Next

\* However a turn ends, at whichever await a cancel finds it, and however far the
\* forwarder is behind: once the end of a turn is on the stream, no question of
\* it is open there (run_agent_turn's returns; apply_protocol).
THEOREM QuestionsAreClosed == Spec => []NoQuestionOutlivesItsTurn
<1>1. Init => Inv /\ Closing
    BY Starting, ClosingStarts
<1>2. (Inv /\ Closing) /\ [Next]_vars => (Inv /\ Closing)'
    BY StepsKeepInv, StepsClose
<1>3. Closing => NoQuestionOutlivesItsTurn
    BY DEF Closing, EndsLast, NothingIsOpen, NoQuestionOutlivesItsTurn
<1> QED
    BY <1>1, <1>2, <1>3, PTL DEF Spec

-----------------------------------------------------------------------------
(***************************************************************************)
(* A question that waits can be answered.  Held: the session has it from       *)
(* before it is announced until an answer to it is taken.  Shown: what opens    *)
(* it on the stream is there or on its way, behind the call it is about, and    *)
(* nothing on its way closes it, for each result there is of an earlier call.  *)
(***************************************************************************)
HeldWhileAsked ==
    /\ loop.at \in {"hold", "announce", "await"} => loop.question = QuestionOf("call")
    /\ loop.at \in AsksForLimit => loop.question = QuestionOf("limit")
    /\ loop.at \in {"announce", "await"} /\ loop.answer = NoAnswer => held = loop.question
    /\ loop.at \in {"say_limit", "await_limit"} /\ loop.answer = NoAnswer =>
          limitHeld = loop.question

LimitTypes == {"limit_reached", "limit_extended"} \cup LastTypes

\* The view has the call of q, or will.
Told(v, es, q) ==
    \/ q \in v.calls
    \/ \E i \in DOMAIN es : es[i].type = "tool_call" /\ es[i].question = q

\* The view shows q as a question, or will: behind its call.
Shown(v, es, q) ==
    \/ q \in v.asked
    \/ \E i \in DOMAIN es :
          /\ es[i].type = "call_held" /\ es[i].question = q
          /\ \/ q \in v.calls
             \/ \E j \in DOMAIN es :
                   j < i /\ es[j].type = "tool_call" /\ es[j].question = q

LimitShown(v, es, q) ==
    \/ v.limit = q /\ \A i \in DOMAIN es : es[i].type \notin LimitTypes
    \/ \E i \in DOMAIN es :
          /\ es[i].type = "limit_reached" /\ es[i].question = q
          /\ \A j \in DOMAIN es : j > i => es[j].type \notin LimitTypes

\* q is of a call before the one with this step and index.
Before(q, step, index) == q.step < step \/ (q.step = step /\ q.index < index)

ResultsAreOfThePast(es, step, index) ==
    \A i \in DOMAIN es :
        es[i].type = "tool_result" => Before(es[i].question, step, index)

ShownWhileAsked ==
    /\ loop.at \in {"model", "retry"} => loop.index = 0
    /\ loop.at \notin {"idle", "done"} =>
          ResultsAreOfThePast(events, loop.step, loop.index)
    /\ loop.at \in {"running", "hold", "announce"} => Told(view, events, QuestionOf("call"))
    /\ loop.at = "await" => Shown(view, events, QuestionOf("call"))
    /\ loop.at = "await_limit" => LimitShown(view, events, QuestionOf("limit"))

\* Where the steps that leave the questions alone stop.
LEMMA PlacesElsewhere ==
    ASSUME Inv,
           \/ Reply \/ Retry \/ NextReply \/ LimitAnswered \/ Stopped \/ Starts \/ RunDecided
           \/ Answered \/ Remember \/ SayGrant \/ Apply \/ DropsAsk \/ DropsLimit
           \/ Prompt \/ Land
    PROVE  loop'.at \in {"idle", "model", "retry", "call", "stopped", "run", "running",
                         "remember", "say_grant", "apply", "done"}
<1>1. LoopTyped
    BY DEF Inv, Typed
<1>2. CASE Prompt \/ Land
    <2>1. CASE Prompt
        <3>1. loop'.at = "model"
            BY <2>1 DEF Prompt, Idle
        <3> QED
            BY <3>1
    <2>2. CASE Land
        BY <2>2 DEF Land, Idle
    <2> QED
        BY <1>2, <2>1, <2>2
<1>3. CASE RunDecided \/ Apply
    BY <1>1, <1>3 DEF RunDecided, Apply, Steps, LoopTyped
<1>4. CASE Reply \/ Retry \/ NextReply
    BY <1>1, <1>4 DEF Reply, Retry, NextReply, Takes, Ends, LoopTyped
<1>5. CASE LimitAnswered
    BY <1>1, <1>5 DEF LimitAnswered, LoopTyped
<1>6. CASE Stopped \/ Starts \/ Answered \/ Remember \/ SayGrant \/ DropsAsk \/ DropsLimit
    BY <1>1, <1>6
    DEF Stopped, Starts, Answered, Remember, SayGrant, DropsAsk, DropsLimit, Ends, LoopTyped
<1> QED
    BY <1>2, <1>3, <1>4, <1>5, <1>6

LEMMA QuestionsStay ==
    ASSUME current' = current, loop'.step = loop.step, loop'.index = loop.index
    PROVE  \A kind : QuestionOf(kind)' = QuestionOf(kind)
BY DEF QuestionOf

LEMMA AskingHolds ==
    ASSUME Inv, HeldWhileAsked,
           \/ AsksForMore \/ AsksAPerson \/ HoldLimit \/ SayLimit \/ Hold \/ Announce
    PROVE  HeldWhileAsked'
<1>1. LoopTyped /\ current' = current
    BY DEF Inv, Typed, AsksForMore, AsksAPerson, HoldLimit, SayLimit, Hold, Announce, loopOnly
<1>2. CASE AsksForMore \/ AsksAPerson
    <2>1. PICK to, kind :
            /\ loop' = [loop EXCEPT !.at = to, !.question = QuestionOf(kind), !.answer = NoAnswer]
            /\ \/ to = "hold_limit" /\ kind = "limit"
               \/ to = "hold" /\ kind = "call"
        BY <1>2 DEF AsksForMore, AsksAPerson
    <2>2. /\ loop'.at = to /\ loop'.question = QuestionOf(kind)
          /\ loop'.step = loop.step /\ loop'.index = loop.index
        BY <1>1, <2>1 DEF LoopTyped
    <2> QED
        BY <1>1, <2>1, <2>2, QuestionsStay DEF HeldWhileAsked, AsksForLimit
<1>3. CASE HoldLimit \/ SayLimit \/ Hold \/ Announce
    <2>1. PICK to : /\ loop' = [loop EXCEPT !.at = to]
                    /\ \/ loop.at = "hold_limit" /\ to = "say_limit" /\ limitHeld' = loop.question
                       \/ loop.at = "say_limit" /\ to = "await_limit" /\ limitHeld' = limitHeld
                       \/ loop.at = "hold" /\ to = "announce" /\ held' = loop.question
                       \/ loop.at = "announce" /\ to = "await" /\ held' = held
        BY <1>3 DEF HoldLimit, SayLimit, Hold, Announce, loopOnly
    <2>2. /\ loop'.at = to /\ loop'.question = loop.question /\ loop'.answer = loop.answer
          /\ loop'.step = loop.step /\ loop'.index = loop.index
        BY <1>1, <2>1 DEF LoopTyped
    <2> QED
        BY <1>1, <2>1, <2>2, QuestionsStay DEF HeldWhileAsked, AsksForLimit
<1> QED
    BY <1>2, <1>3

\* What takes the question away gives the loop its answer.
LEMMA AnsweringHolds ==
    ASSUME Inv, HeldWhileAsked, NEW q, NEW say,
           \/ say \in CallAnswers /\ AnswerCall(q, say)
           \/ say \in LimitAnswers /\ ExtendLimit(q, say)
    PROVE  HeldWhileAsked'
<1>1. /\ LoopTyped /\ current' = current
      /\ \/ held = q /\ limitHeld' = limitHeld
         \/ limitHeld = q /\ held' = held
      /\ Delivered(q, q, say)
    BY DEF Inv, Typed, AnswerCall, ExtendLimit
<1>2. CASE loop.at \in Waiting /\ loop.question = q
    <2>1. loop' = [loop EXCEPT !.answer = [for |-> q, say |-> say]]
        BY <1>1, <1>2 DEF Delivered
    <2>2. /\ loop'.at = loop.at /\ loop'.question = loop.question
          /\ loop'.step = loop.step /\ loop'.index = loop.index
          /\ loop'.answer.say = say
        BY <1>1, <2>1 DEF LoopTyped
    <2>3. loop'.answer # NoAnswer
        BY <2>2 DEF NoAnswer, CallAnswers, LimitAnswers
    <2> QED
        BY <1>1, <2>2, <2>3, QuestionsStay DEF HeldWhileAsked
<1>3. CASE ~(loop.at \in Waiting /\ loop.question = q)
    <2>1. loop' = loop
        BY <1>1, <1>3 DEF Delivered
    <2> QED
        BY <1>1, <1>3, <2>1, QuestionsStay
        DEF HeldWhileAsked, Waiting, AnswerCall, ExtendLimit
<1> QED
    BY <1>2, <1>3

LEMMA StepsHold == Inv /\ HeldWhileAsked /\ [Next]_vars => HeldWhileAsked'
<1> SUFFICES ASSUME Inv, HeldWhileAsked, [Next]_vars PROVE HeldWhileAsked'
    OBVIOUS
<1>1. CASE \/ Reply \/ Retry \/ NextReply \/ LimitAnswered \/ Stopped \/ Starts \/ RunDecided
           \/ Answered \/ Remember \/ SayGrant \/ Apply \/ DropsAsk \/ DropsLimit
           \/ Prompt \/ Land
    <2>1. loop'.at \notin {"hold", "announce", "await"} \cup AsksForLimit
        BY <1>1, PlacesElsewhere DEF AsksForLimit
    <2> QED
        BY <2>1 DEF HeldWhileAsked, AsksForLimit
<1>2. CASE AsksForMore \/ AsksAPerson \/ HoldLimit \/ SayLimit \/ Hold \/ Announce
    BY <1>2, AskingHolds
<1>3. CASE \E q \in heard : \/ \E say \in CallAnswers : AnswerCall(q, say)
                            \/ \E say \in LimitAnswers : ExtendLimit(q, say)
    BY <1>3, AnsweringHolds
<1>4. CASE \/ Forward \/ Cancel \/ UNCHANGED vars
           \/ \E t \in Targets : RevokeGrant(t) \/ SayRevoked(t)
    <2>1. UNCHANGED <<loop, current, held, limitHeld>>
        BY <1>4 DEF Forward, Cancel, vars, RevokeGrant, SayRevoked, loopOnly
    <2> QED
        BY <2>1 DEF HeldWhileAsked, QuestionOf
<1> QED
    BY <1>1, <1>2, <1>3, <1>4 DEF Next, Loop

(***************************************************************************)
(* What an event sent, and the first event arriving, do to what is shown.      *)
(***************************************************************************)
LEMMA SendingShows ==
    ASSUME NEW es \in Seq(EventsOf), NEW e \in EventsOf, NEW v, NEW q,
           NEW step, NEW index
    PROVE  /\ Told(v, es, q) \/ (e.type = "tool_call" /\ e.question = q) =>
                Told(v, Append(es, e), q)
           /\ Told(v, es, q) /\ e.type = "call_held" /\ e.question = q =>
                Shown(v, Append(es, e), q)
           /\ e.type = "limit_reached" /\ e.question = q => LimitShown(v, Append(es, e), q)
           /\ /\ ResultsAreOfThePast(es, step, index)
              /\ e.type = "tool_result" => Before(e.question, step, index)
              => ResultsAreOfThePast(Append(es, e), step, index)
<1> DEFINE n == Len(es)
           more == Append(es, e)
<1>1. /\ n \in Nat /\ DOMAIN es = 1..n /\ DOMAIN more = 1..(n + 1)
      /\ more[n + 1] = e /\ \A i \in 1..n : more[i] = es[i]
    OBVIOUS
<1> HIDE DEF n, more
<1>2. Told(v, es, q) \/ (e.type = "tool_call" /\ e.question = q) => Told(v, more, q)
    BY <1>1 DEF Told
<1>3. ASSUME Told(v, es, q), e.type = "call_held", e.question = q
      PROVE  Shown(v, more, q)
    <2>1. n + 1 \in DOMAIN more /\ more[n + 1].type = "call_held" /\ more[n + 1].question = q
        BY <1>1, <1>3
    <2>2. q \in v.calls \/ \E j \in DOMAIN more :
                j < n + 1 /\ more[j].type = "tool_call" /\ more[j].question = q
        BY <1>1, <1>3 DEF Told
    <2> QED
        BY <2>1, <2>2 DEF Shown
<1>4. ASSUME e.type = "limit_reached", e.question = q
      PROVE  LimitShown(v, more, q)
    <2>1. n + 1 \in DOMAIN more /\ \A j \in DOMAIN more : ~(j > n + 1)
        BY <1>1
    <2> QED
        BY <1>1, <1>4, <2>1 DEF LimitShown
<1>5. ASSUME ResultsAreOfThePast(es, step, index),
             e.type = "tool_result" => Before(e.question, step, index)
      PROVE  ResultsAreOfThePast(more, step, index)
    <2> SUFFICES ASSUME NEW i \in DOMAIN more, more[i].type = "tool_result"
                 PROVE  Before(more[i].question, step, index)
        BY DEF ResultsAreOfThePast
    <2>1. CASE i = n + 1
        BY <1>1, <1>5, <2>1
    <2>2. CASE i \in 1..n
        BY <1>1, <1>5, <2>2 DEF ResultsAreOfThePast
    <2> QED
        BY <1>1, <2>1, <2>2
<1> QED
    BY <1>2, <1>3, <1>4, <1>5 DEF more

\* The fold of one event, by what it leaves of the view.
LEMMA Folding ==
    ASSUME NEW v, NEW e, e.type \in Types,
           v = [calls |-> v.calls, asked |-> v.asked, limit |-> v.limit,
                ended |-> v.ended, grants |-> v.grants, unlimited |-> v.unlimited]
    PROVE  /\ v.calls \subseteq Folded(v, e).calls
           /\ e.type = "tool_call" => e.question \in Folded(v, e).calls
           /\ e.type = "call_held" /\ e.question \in v.calls => e.question \in Folded(v, e).asked
           /\ \A q \in v.asked : q \in Folded(v, e).asked
                                    \/ (e.type = "tool_result" /\ e.question = q)
           /\ e.type = "limit_reached" => Folded(v, e).limit = e.question
           /\ e.type \notin LimitTypes => Folded(v, e).limit = v.limit
<1>1. CASE e.type = "tool_call"
    <2>1. Folded(v, e) = [v EXCEPT !.calls = @ \cup {e.question}]
        BY <1>1 DEF Folded
    <2> QED
        BY <1>1, <2>1 DEF LimitTypes, LastTypes
<1>2. CASE e.type = "call_held"
    <2>1. Folded(v, e) = [v EXCEPT !.asked = @ \cup ({e.question} \cap v.calls)]
        BY <1>2 DEF Folded
    <2> QED
        BY <1>2, <2>1 DEF LimitTypes, LastTypes
<1>3. CASE e.type = "tool_result"
    <2>1. Folded(v, e) = [v EXCEPT !.asked = @ \ {e.question}]
        BY <1>3 DEF Folded
    <2> QED
        BY <1>3, <2>1 DEF LimitTypes, LastTypes
<1>4. CASE e.type = "limit_reached"
    <2>1. Folded(v, e) = [v EXCEPT !.limit = e.question]
        BY <1>4 DEF Folded
    <2> QED
        BY <1>4, <2>1 DEF LimitTypes, LastTypes
<1>5. CASE e.type = "limit_extended"
    <2>1. Folded(v, e) = [v EXCEPT !.limit = NoQuestion, !.unlimited = @ \/ e.no_limit]
        BY <1>5 DEF Folded
    <2> QED
        BY <1>5, <2>1 DEF LimitTypes, LastTypes
<1>6. CASE e.type \in LastTypes
    <2>1. Folded(v, e) = [v EXCEPT !.limit = NoQuestion, !.ended = TRUE]
        BY <1>6 DEF Folded, LastTypes
    <2> QED
        BY <1>6, <2>1 DEF LimitTypes, LastTypes
<1> QED
    BY <1>1, <1>2, <1>3, <1>4, <1>5, <1>6 DEF Types, LastTypes

LEMMA ArrivingShows ==
    ASSUME NEW es \in Seq(EventsOf), es # <<>>, NEW v, NEW q, NEW step, NEW index,
           v = [calls |-> v.calls, asked |-> v.asked, limit |-> v.limit,
                ended |-> v.ended, grants |-> v.grants, unlimited |-> v.unlimited]
    PROVE  /\ Told(v, es, q) => Told(Folded(v, Head(es)), Tail(es), q)
           /\ /\ Shown(v, es, q)
              /\ ~(Head(es).type = "tool_result" /\ Head(es).question = q)
              => Shown(Folded(v, Head(es)), Tail(es), q)
           /\ LimitShown(v, es, q) => LimitShown(Folded(v, Head(es)), Tail(es), q)
           /\ ResultsAreOfThePast(es, step, index) =>
                ResultsAreOfThePast(Tail(es), step, index)
<1> DEFINE n == Len(es)
           rest == Tail(es)
           e == Head(es)
           w == Folded(v, e)
<1>1. /\ n \in Nat \ {0} /\ DOMAIN es = 1..n /\ DOMAIN rest = 1..(n - 1)
      /\ e = es[1] /\ e \in EventsOf /\ \A i \in 1..(n - 1) : rest[i] = es[i + 1]
    OBVIOUS
<1>2. /\ v.calls \subseteq w.calls
      /\ e.type = "tool_call" => e.question \in w.calls
      /\ e.type = "call_held" /\ e.question \in v.calls => e.question \in w.asked
      /\ \A k \in v.asked : k \in w.asked \/ (e.type = "tool_result" /\ e.question = k)
      /\ e.type = "limit_reached" => w.limit = e.question
      /\ e.type \notin LimitTypes => w.limit = v.limit
    <2>1. e.type \in Types
        BY <1>1 DEF EventsOf
    <2> HIDE DEF e
    <2> QED
        BY <2>1, Folding
<1> HIDE DEF n, rest, e, w
<1>3. \A i \in DOMAIN es : i = 1 \/ (i - 1 \in DOMAIN rest /\ rest[i - 1] = es[i])
    BY <1>1
<1>4. Told(v, es, q) => Told(w, rest, q)
    BY <1>1, <1>2, <1>3 DEF Told
<1>5. ASSUME Shown(v, es, q), ~(e.type = "tool_result" /\ e.question = q)
      PROVE  Shown(w, rest, q)
    <2>1. CASE q \in v.asked
        BY <1>2, <1>5, <2>1 DEF Shown
    <2>2. CASE q \notin v.asked
        <3>1. PICK i \in DOMAIN es :
                /\ es[i].type = "call_held" /\ es[i].question = q
                /\ \/ q \in v.calls
                   \/ \E j \in DOMAIN es :
                         j < i /\ es[j].type = "tool_call" /\ es[j].question = q
            BY <1>5, <2>2 DEF Shown
        <3>2. CASE i = 1
            <4>1. q \in v.calls
                BY <1>1, <3>1, <3>2
            <4> QED
                BY <1>1, <1>2, <3>1, <3>2, <4>1 DEF Shown
        <3>3. CASE i # 1
            <4>1. i - 1 \in DOMAIN rest /\ rest[i - 1] = es[i]
                BY <1>3, <3>3
            <4>2. CASE q \in v.calls
                BY <1>2, <3>1, <4>1, <4>2 DEF Shown
            <4>3. CASE q \notin v.calls
                <5>1. PICK j \in DOMAIN es :
                        j < i /\ es[j].type = "tool_call" /\ es[j].question = q
                    BY <3>1, <4>3
                <5>2. CASE j = 1
                    BY <1>1, <1>2, <3>1, <4>1, <5>1, <5>2 DEF Shown
                <5>3. CASE j # 1
                    <6>1. j - 1 \in DOMAIN rest /\ rest[j - 1] = es[j] /\ j - 1 < i - 1
                        BY <1>1, <1>3, <5>1, <5>3
                    <6> QED
                        BY <3>1, <4>1, <5>1, <6>1 DEF Shown
                <5> QED
                    BY <5>2, <5>3
            <4> QED
                BY <4>2, <4>3
        <3> QED
            BY <3>2, <3>3
    <2> QED
        BY <2>1, <2>2
<1>6. ASSUME LimitShown(v, es, q)
      PROVE  LimitShown(w, rest, q)
    <2>0. \A i \in DOMAIN rest : i + 1 \in DOMAIN es /\ rest[i] = es[i + 1]
        BY <1>1
    <2>1. CASE v.limit = q /\ \A i \in DOMAIN es : es[i].type \notin LimitTypes
        <3>1. w.limit = q
            BY <1>1, <1>2, <2>1
        <3>2. \A i \in DOMAIN rest : rest[i].type \notin LimitTypes
            BY <2>0, <2>1
        <3> QED
            BY <3>1, <3>2 DEF LimitShown
    <2>2. CASE \E i \in DOMAIN es :
                  /\ es[i].type = "limit_reached" /\ es[i].question = q
                  /\ \A j \in DOMAIN es : j > i => es[j].type \notin LimitTypes
        <3>1. PICK i \in DOMAIN es :
                  /\ es[i].type = "limit_reached" /\ es[i].question = q
                  /\ \A j \in DOMAIN es : j > i => es[j].type \notin LimitTypes
            BY <2>2
        <3>2. CASE i = 1
            <4>1. w.limit = q
                BY <1>1, <1>2, <3>1, <3>2
            <4>2. \A j \in DOMAIN rest : rest[j].type \notin LimitTypes
                BY <1>1, <2>0, <3>1, <3>2
            <4> QED
                BY <4>1, <4>2 DEF LimitShown
        <3>3. CASE i # 1
            <4>1. i - 1 \in DOMAIN rest /\ rest[i - 1] = es[i]
                BY <1>3, <3>3
            <4>2. \A j \in DOMAIN rest : j > i - 1 => rest[j].type \notin LimitTypes
                BY <1>1, <2>0, <3>1
            <4> QED
                BY <3>1, <4>1, <4>2 DEF LimitShown
        <3> QED
            BY <3>2, <3>3
    <2> QED
        BY <1>6, <2>1, <2>2 DEF LimitShown
<1>7. ResultsAreOfThePast(es, step, index) => ResultsAreOfThePast(rest, step, index)
    BY <1>1 DEF ResultsAreOfThePast
<1> QED
    BY <1>4, <1>5, <1>6, <1>7 DEF rest, w, e

LEMMA PastGrows ==
    ASSUME NEW es \in Seq(EventsOf), NEW step \in Nat, NEW index \in Nat, NEW later \in Nat,
           ResultsAreOfThePast(es, step, index)
    PROVE  /\ index <= later => ResultsAreOfThePast(es, step, later)
           /\ ResultsAreOfThePast(es, step + 1, later)
<1>1. ASSUME NEW i \in DOMAIN es
      PROVE  es[i].question.step \in Nat /\ es[i].question.index \in Nat
    <2>1. es[i] \in EventsOf
        OBVIOUS
    <2>2. es[i].question \in Asked
        BY <2>1 DEF EventsOf
    <2> QED
        BY <2>2 DEF Asked
<1> QED
    BY <1>1 DEF ResultsAreOfThePast, Before

\* The loop goes on where no question is.
LEMMA GoingOnShows ==
    ASSUME Inv, Closing, ShownWhileAsked,
           Reply \/ Retry \/ NextReply \/ Stopped \/ DropsLimit \/ DropsAsk \/ Prompt \/ Land
    PROVE  ShownWhileAsked'
<1>1. LoopTyped /\ events \in Seq(EventsOf) /\ loop.step \in Nat /\ loop.index \in Nat
    BY FieldsAreTyped DEF Inv, Typed, Closing
<1>2. ASSUME loop'.at \in {"done", "idle"}
      PROVE  ShownWhileAsked'
    BY <1>2 DEF ShownWhileAsked
<1>3. ASSUME NEW type, Ends(type)
      PROVE  ShownWhileAsked'
    BY <1>1, <1>2, <1>3 DEF Ends, LoopTyped
<1>4. CASE Reply \/ Retry
    <2>1. loop.at \in {"model", "retry"} /\ loop.index = 0
          /\ ResultsAreOfThePast(events, loop.step, loop.index)
        BY <1>4 DEF Reply, Retry, ShownWhileAsked
    <2>2. ASSUME NEW reply, Takes(reply)
          PROVE  ShownWhileAsked'
        <3>1. /\ loop'.at = "call" /\ loop'.index = 1 /\ loop'.step = loop.step
              /\ events' = events
            BY <1>1, <2>2 DEF Takes, Quiet, LoopTyped
        <3>2. ResultsAreOfThePast(events, loop.step, 1)
            BY <1>1, <2>1, PastGrows
        <3> QED
            BY <3>1, <3>2 DEF ShownWhileAsked
    <2>3. ASSUME loop' = [loop EXCEPT !.at = "retry"], Quiet
          PROVE  ShownWhileAsked'
        <3>1. /\ loop'.at = "retry" /\ loop'.index = loop.index /\ loop'.step = loop.step
              /\ events' = events
            BY <1>1, <2>3 DEF Quiet, LoopTyped
        <3> QED
            BY <2>1, <3>1 DEF ShownWhileAsked
    <2> QED
        BY <1>3, <1>4, <2>2, <2>3 DEF Reply, Retry
<1>5. CASE NextReply
    <2>1. /\ loop'.at = "model" /\ loop'.index = 0 /\ loop'.step = loop.step + 1
          /\ events' = events
        BY <1>1, <1>5 DEF NextReply, LoopTyped
    <2>2. ResultsAreOfThePast(events, loop.step + 1, 0)
        <3>1. ResultsAreOfThePast(events, loop.step, loop.index)
            BY <1>5 DEF NextReply, ShownWhileAsked
        <3> QED
            BY <1>1, <3>1, PastGrows
    <2> QED
        BY <2>1, <2>2 DEF ShownWhileAsked
<1>6. CASE Stopped \/ DropsLimit \/ DropsAsk
    BY <1>1, <1>2, <1>3, <1>6 DEF Stopped, DropsLimit, DropsAsk, LoopTyped
<1>7. CASE Land
    BY <1>2, <1>7 DEF Land, Idle
<1>8. CASE Prompt
    <2>1. events' = <<>>
        BY <1>8 DEF Prompt, Closing, EndsLast
    <2>2. loop'.at = "model" /\ loop'.index = 0
        <3>1. PICK budget : loop' = [Idle EXCEPT !.at = "model", !.step = 1, !.budget = budget]
            BY <1>8 DEF Prompt
        <3> QED
            BY <3>1 DEF Idle
    <2> QED
        BY <2>1, <2>2 DEF ShownWhileAsked, ResultsAreOfThePast
<1> QED
    BY <1>4, <1>5, <1>6, <1>7, <1>8

\* A call is told before it asks, and a question is said before it waits.
LEMMA CallsShow ==
    ASSUME Inv, Closing, ShownWhileAsked,
           \/ AsksForMore \/ HoldLimit \/ SayLimit \/ LimitAnswered \/ Starts
           \/ AsksAPerson \/ Hold \/ Announce \/ Answered \/ Remember \/ SayGrant
    PROVE  ShownWhileAsked'
<1>1. /\ LoopTyped /\ Typed /\ events \in Seq(EventsOf) /\ current' = current
      /\ ResultsAreOfThePast(events, loop.step, loop.index)
    BY DEF Inv, Typed, Closing, ShownWhileAsked, AsksForMore, HoldLimit, SayLimit, LimitAnswered,
           Starts, AsksAPerson, Hold, Announce, Answered, Remember, SayGrant, loopOnly
<1>2. ASSUME NEW e \in EventsOf, events' = Append(events, e), e.type # "tool_result"
      PROVE  /\ ResultsAreOfThePast(events', loop.step, loop.index)
             /\ \A q : Told(view, events, q) \/ (e.type = "tool_call" /\ e.question = q) =>
                          Told(view, events', q)
             /\ \A q : Told(view, events, q) /\ e.type = "call_held" /\ e.question = q =>
                          Shown(view, events', q)
             /\ \A q : e.type = "limit_reached" /\ e.question = q => LimitShown(view, events', q)
    BY <1>1, <1>2, SendingShows
<1>3. CASE AsksForMore \/ HoldLimit \/ Answered \/ Remember \/ SayGrant
    <2>2. /\ loop'.at \in {"hold_limit", "say_limit", "remember", "say_grant", "apply"}
          /\ loop'.step = loop.step /\ loop'.index = loop.index
        <3>1. CASE AsksForMore
            BY <1>1, <3>1 DEF AsksForMore, LoopTyped
        <3>2. CASE HoldLimit \/ Answered \/ Remember \/ SayGrant
            BY <1>1, <3>2 DEF HoldLimit, Answered, Remember, SayGrant, LoopTyped
        <3> QED
            BY <1>3, <3>1, <3>2
    <2>3. events' = events
        BY <1>3 DEF AsksForMore, HoldLimit, Answered, Remember, SayGrant
    <2> QED
        BY <1>1, <2>2, <2>3 DEF ShownWhileAsked
<1>4. CASE AsksAPerson \/ Hold
    <2>1. /\ loop'.at \in {"hold", "announce"} /\ loop.at \in {"running", "hold"}
          /\ loop'.step = loop.step /\ loop'.index = loop.index
        BY <1>1, <1>4 DEF AsksAPerson, Hold, LoopTyped
    <2>2. events' = events /\ view' = view
        BY <1>4 DEF AsksAPerson, Hold, untouched
    <2>3. Told(view, events, QuestionOf("call"))
        BY <2>1 DEF ShownWhileAsked
    <2>4. QuestionOf("call")' = QuestionOf("call")
        BY <1>1, <2>1, QuestionsStay
    <2> QED
        BY <1>1, <2>1, <2>2, <2>3, <2>4 DEF ShownWhileAsked
<1>5. CASE SayLimit
    <2> DEFINE e == LimitEvent("limit_reached", FALSE)
    <2>1. e \in EventsOf /\ e.type = "limit_reached" /\ e.question = QuestionOf("limit")
        <3>1. e.question = QuestionOf("limit")
            BY DEF LimitEvent
        <3> QED
            BY <1>1, <3>1, EventsAreTyped DEF Types
    <2>2. events' = Append(events, e) /\ view' = view
        BY <1>5 DEF SayLimit, Sends, untouched
    <2>3. loop'.at = "await_limit" /\ loop'.step = loop.step /\ loop'.index = loop.index
        BY <1>5, PlaceMoves DEF SayLimit
    <2>4. QuestionOf("limit")' = QuestionOf("limit")
        BY <1>1, <2>3, QuestionsStay
    <2> HIDE DEF e
    <2>5. /\ ResultsAreOfThePast(events', loop.step, loop.index)
          /\ LimitShown(view, events', QuestionOf("limit"))
        BY <1>2, <2>1, <2>2
    <2> QED
        BY <2>2, <2>3, <2>4, <2>5 DEF ShownWhileAsked
<1>6. CASE LimitAnswered
    <2>1. /\ loop'.at \in {"stopped", "run"}
          /\ loop'.step = loop.step /\ loop'.index = loop.index
        BY <1>1, <1>6 DEF LimitAnswered, LoopTyped
    <2>2. ResultsAreOfThePast(events', loop.step, loop.index)
        <3>1. CASE events' = events
            BY <1>1, <3>1
        <3>2. CASE events' = Append(events,
                        LimitEvent("limit_extended", loop.answer.say = "no_limit"))
            <4> DEFINE e == LimitEvent("limit_extended", loop.answer.say = "no_limit")
            <4>1. e \in EventsOf /\ e.type = "limit_extended"
                BY <1>1, EventsAreTyped DEF Types
            <4> HIDE DEF e
            <4>2. events' = Append(events, e)
                BY <3>2 DEF e
            <4> QED
                BY <1>2, <4>1, <4>2
        <3> QED
            BY <1>6, <3>1, <3>2 DEF LimitAnswered, Quiet, Sends
    <2> QED
        BY <2>1, <2>2 DEF ShownWhileAsked
<1>7. CASE Starts
    <2>1. /\ Event("tool_call") \in EventsOf /\ Event("tool_call").type = "tool_call"
          /\ Event("tool_call").question = QuestionOf("call")
        BY <1>1, EventsAreTyped DEF Types
    <2>2. events' = Append(events, Event("tool_call")) /\ view' = view
        BY <1>7 DEF Starts, Sends, untouched
    <2>3. loop'.at = "running" /\ loop'.step = loop.step /\ loop'.index = loop.index
        BY <1>7, PlaceMoves DEF Starts
    <2>4. QuestionOf("call")' = QuestionOf("call")
        BY <1>1, <2>3, QuestionsStay
    <2>5. /\ ResultsAreOfThePast(events', loop.step, loop.index)
          /\ Told(view, events', QuestionOf("call"))
        BY <1>2, <2>1, <2>2
    <2> QED
        BY <2>2, <2>3, <2>4, <2>5 DEF ShownWhileAsked
<1>8. CASE Announce
    <2>1. /\ Event("call_held") \in EventsOf /\ Event("call_held").type = "call_held"
          /\ Event("call_held").question = QuestionOf("call")
        BY <1>1, EventsAreTyped DEF Types
    <2>2. events' = Append(events, Event("call_held")) /\ view' = view
        BY <1>8 DEF Announce, Sends, untouched
    <2>3. loop'.at = "await" /\ loop'.step = loop.step /\ loop'.index = loop.index
        BY <1>8, PlaceMoves DEF Announce
    <2>4. QuestionOf("call")' = QuestionOf("call")
        BY <1>1, <2>3, QuestionsStay
    <2>5. Told(view, events, QuestionOf("call"))
        BY <1>8 DEF Announce, ShownWhileAsked
    <2>6. /\ ResultsAreOfThePast(events', loop.step, loop.index)
          /\ Shown(view, events', QuestionOf("call"))
        BY <1>2, <2>1, <2>2, <2>5
    <2> QED
        BY <2>2, <2>3, <2>4, <2>6 DEF ShownWhileAsked
<1> QED
    BY <1>3, <1>4, <1>5, <1>6, <1>7, <1>8

\* A call that is over is of the past.
LEMMA ResultsShow ==
    ASSUME Inv, Closing, ShownWhileAsked, RunDecided \/ Apply
    PROVE  ShownWhileAsked'
<1>1. /\ LoopTyped /\ Typed /\ events \in Seq(EventsOf)
      /\ ResultsAreOfThePast(events, loop.step, loop.index)
      /\ loop.step \in Nat /\ loop.index \in Nat
    BY FieldsAreTyped DEF Inv, Typed, Closing, ShownWhileAsked, RunDecided, Apply
<1>2. /\ loop'.at = "call" /\ loop'.step = loop.step /\ loop'.index = loop.index + 1
    BY <1>1 DEF RunDecided, Apply, Steps, LoopTyped
<1>3. events' = Append(events, Event("tool_result"))
    BY DEF RunDecided, Apply, Sends
<1>4. /\ Event("tool_result") \in EventsOf
      /\ Event("tool_result").question.step = loop.step
      /\ Event("tool_result").question.index = loop.index
    <2>1. Event("tool_result").question = QuestionOf("call")
        BY <1>1, EventsAreTyped DEF Types
    <2>2. QuestionOf("call").step = loop.step /\ QuestionOf("call").index = loop.index
        BY DEF QuestionOf
    <2> QED
        BY <1>1, <2>1, <2>2, EventsAreTyped DEF Types
<1>5. Before(Event("tool_result").question, loop.step, loop.index + 1)
    BY <1>1, <1>4 DEF Before
<1>6. ResultsAreOfThePast(events, loop.step, loop.index + 1)
    BY <1>1, PastGrows
<1>7. ResultsAreOfThePast(events', loop.step, loop.index + 1)
    BY <1>1, <1>3, <1>4, <1>5, <1>6, SendingShows
<1> QED
    BY <1>2, <1>7 DEF ShownWhileAsked

LEMMA ArrivalShows ==
    ASSUME Inv, Closing, ShownWhileAsked, Forward
    PROVE  ShownWhileAsked'
<1>1. /\ LoopTyped /\ events \in Seq(EventsOf) /\ events # <<>> /\ ViewShaped
      /\ loop.step \in Nat /\ loop.index \in Nat
    BY FieldsAreTyped DEF Inv, Typed, Closing, Forward
<1>2. /\ view' = Folded(view, Head(events)) /\ events' = Tail(events)
      /\ loop' = loop /\ current' = current
    BY DEF Forward
<1>3. \A q : /\ Told(view, events, q) => Told(view', events', q)
             /\ /\ Shown(view, events, q)
                /\ ~(Head(events).type = "tool_result" /\ Head(events).question = q)
                => Shown(view', events', q)
             /\ LimitShown(view, events, q) => LimitShown(view', events', q)
    BY <1>1, <1>2, ArrivingShows DEF ViewShaped
<1>4. ResultsAreOfThePast(events, loop.step, loop.index) =>
            ResultsAreOfThePast(events', loop.step, loop.index)
    BY <1>1, <1>2, ArrivingShows DEF ViewShaped
<1>5. ASSUME loop.at = "await"
      PROVE  ~(Head(events).type = "tool_result" /\ Head(events).question = QuestionOf("call"))
    <2>1. ResultsAreOfThePast(events, loop.step, loop.index)
        BY <1>5 DEF ShownWhileAsked
    <2>2. Head(events) = events[1] /\ 1 \in DOMAIN events
        BY <1>1
    <2>3. ~Before(QuestionOf("call"), loop.step, loop.index)
        BY <1>1 DEF Before, QuestionOf
    <2> QED
        BY <2>1, <2>2, <2>3 DEF ResultsAreOfThePast
<1>6. \A kind : QuestionOf(kind)' = QuestionOf(kind)
    BY <1>2, QuestionsStay
<1> QED
    BY <1>2, <1>3, <1>4, <1>5, <1>6 DEF ShownWhileAsked

LEMMA ClientsShow ==
    ASSUME Inv, Closing, ShownWhileAsked,
           \/ Cancel \/ UNCHANGED vars
           \/ \E q \in heard : \E say \in CallAnswers : AnswerCall(q, say)
           \/ \E q \in heard : \E say \in LimitAnswers : ExtendLimit(q, say)
           \/ \E t \in Targets : RevokeGrant(t) \/ SayRevoked(t)
    PROVE  ShownWhileAsked'
<1>1. ViewShaped /\ LoopTyped
    BY DEF Closing, Inv, Typed
<1>2. events' = events /\ current' = current
    BY DEF Cancel, vars, AnswerCall, ExtendLimit, RevokeGrant, SayRevoked, loopOnly
<1>3. view'.calls = view.calls /\ view'.asked = view.asked /\ view'.limit = view.limit
    <2>1. CASE \E t \in Targets : SayRevoked(t)
        BY <1>1, <2>1 DEF SayRevoked, ViewShaped
    <2>2. CASE view' = view
        BY <2>2
    <2> QED
        BY <2>1, <2>2 DEF Cancel, vars, AnswerCall, ExtendLimit, RevokeGrant, untouched
<1>4. loop'.at = loop.at /\ loop'.step = loop.step /\ loop'.index = loop.index
    <2>1. CASE loop' = loop
        BY <2>1
    <2>2. CASE \E answer : loop' = [loop EXCEPT !.answer = answer]
        BY <1>1, <2>2 DEF LoopTyped
    <2> QED
        BY <2>1, <2>2
        DEF Cancel, vars, AnswerCall, ExtendLimit, Delivered, RevokeGrant, SayRevoked, untouched
<1>5. \A kind : QuestionOf(kind)' = QuestionOf(kind)
    BY <1>2, <1>4, QuestionsStay
<1>6. \A q : /\ Told(view', events', q) <=> Told(view, events, q)
             /\ Shown(view', events', q) <=> Shown(view, events, q)
             /\ LimitShown(view', events', q) <=> LimitShown(view, events, q)
    BY <1>2, <1>3 DEF Told, Shown, LimitShown
<1> QED
    BY <1>2, <1>4, <1>5, <1>6 DEF ShownWhileAsked

LEMMA StepsShow == Inv /\ Closing /\ ShownWhileAsked /\ [Next]_vars => ShownWhileAsked'
<1> SUFFICES ASSUME Inv, Closing, ShownWhileAsked, [Next]_vars PROVE ShownWhileAsked'
    OBVIOUS
<1>1. CASE Loop
    BY <1>1, GoingOnShows, CallsShow, ResultsShow DEF Loop
<1> QED
    BY <1>1, GoingOnShows, ArrivalShows, ClientsShow DEF Next

\* While a turn waits for a person, the session holds its question and the stream
\* shows it as soon as what the turn said is published, so an answer can be given
\* and reaches it: ask, extend, and apply_protocol's rule that a question is of a
\* call the view has.
THEOREM QuestionsCanBeAnswered == Spec => []AWaitingQuestionCanBeAnswered
<1>1. Init => Inv /\ Closing /\ HeldWhileAsked /\ ShownWhileAsked
    <2>1. Init => HeldWhileAsked /\ ShownWhileAsked
        BY DEF Init, Idle, HeldWhileAsked, ShownWhileAsked, AsksForLimit
    <2> QED
        BY <2>1, Starting, ClosingStarts
<1>2. (Inv /\ Closing /\ HeldWhileAsked /\ ShownWhileAsked) /\ [Next]_vars =>
            (Inv /\ Closing /\ HeldWhileAsked /\ ShownWhileAsked)'
    BY StepsKeepInv, StepsClose, StepsHold, StepsShow
<1>3. HeldWhileAsked /\ ShownWhileAsked => AWaitingQuestionCanBeAnswered
    <2> SUFFICES ASSUME HeldWhileAsked, ShownWhileAsked, loop.answer = NoAnswer
                 PROVE  /\ loop.at = "await" =>
                              /\ held = loop.question
                              /\ events = <<>> => loop.question \in view.asked
                        /\ loop.at = "await_limit" =>
                              /\ limitHeld = loop.question
                              /\ events = <<>> => loop.question = view.limit
        BY DEF AWaitingQuestionCanBeAnswered
    <2>1. CASE loop.at = "await"
        <3>1. held = loop.question /\ loop.question = QuestionOf("call")
            BY <2>1 DEF HeldWhileAsked
        <3>2. Shown(view, events, QuestionOf("call"))
            BY <2>1 DEF ShownWhileAsked
        <3> QED
            BY <2>1, <3>1, <3>2 DEF Shown
    <2>2. CASE loop.at = "await_limit"
        <3>1. limitHeld = loop.question /\ loop.question = QuestionOf("limit")
            BY <2>2 DEF HeldWhileAsked, AsksForLimit
        <3>2. LimitShown(view, events, QuestionOf("limit"))
            BY <2>2 DEF ShownWhileAsked
        <3> QED
            BY <2>2, <3>1, <3>2 DEF LimitShown
    <2> QED
        BY <2>1, <2>2
<1> QED
    BY <1>1, <1>2, <1>3, PTL DEF Spec

-----------------------------------------------------------------------------
(***************************************************************************)
(* The types, with their bounds: a question is of a call the turn has, so it   *)
(* is one of Questions wherever it is held, shown, on its way or heard; and    *)
(* what is remembered is about a call that was asked about.                   *)
(***************************************************************************)
\* Where the answer to a call may be at work.
OverACall == {"hold", "announce", "await", "remember", "say_grant", "apply"}

InAReply == {"call"} \cup InACall \cup AsksForLimit

LoopBounded ==
    /\ nextTurn \in 1..(MaxTurns + 1)
    /\ loop.at = "idle" => current = 0
    /\ loop.at # "idle" => current \in 1..MaxTurns /\ loop.step >= 1
    /\ loop.at \in InAReply =>
          loop.step < MaxReplies /\ loop.index >= 1 /\ Len(loop.calls) <= MaxCalls
    /\ loop.at \in InACall \cup AsksForLimit => loop.index <= Len(loop.calls)
    /\ loop.at \in OverACall => Call \in Targets

Named == Questions \cup {NoQuestion}

HeldBounded == held \in Named /\ limitHeld \in Named /\ loop.question \in Named

\* The questions of these events are shown.
ShowTypes == {"call_held", "limit_reached"}

StreamBounded ==
    /\ \A i \in DOMAIN events : events[i].type \in ShowTypes => events[i].question \in Questions
    /\ view.asked \subseteq Questions /\ view.limit \in Named
    /\ heard \subseteq Questions

AnswersBounded ==
    /\ cancelled \in BOOLEAN
    /\ allowed \subseteq Targets /\ forbidden \subseteq Targets /\ revoking \subseteq Targets

Bounded == LoopBounded /\ HeldBounded /\ StreamBounded /\ AnswersBounded

LEMMA BoundedAtFirst == Init => Bounded
<1> SUFFICES ASSUME Init PROVE Bounded
    OBVIOUS
<1>1. LoopBounded
    <2>1. loop.at = "idle" /\ current = 0 /\ nextTurn = 1
        BY DEF Init, Idle
    <2> QED
        BY <2>1, AskingAssumption DEF LoopBounded, InAReply, InACall, AsksForLimit, OverACall
<1>2. HeldBounded
    <2>1. loop.question = NoQuestion
        BY DEF Init, Idle
    <2> QED
        BY <2>1 DEF Init, HeldBounded, Named
<1>3. StreamBounded
    <2>1. view.asked = {} /\ view.limit = NoQuestion
        BY DEF Init, NoView
    <2> QED
        BY <2>1 DEF Init, StreamBounded, Named
<1>4. AnswersBounded
    BY DEF Init, AnswersBounded
<1> QED
    BY <1>1, <1>2, <1>3, <1>4 DEF Bounded

\* Where a turn starts.
LEMMA TurnStarts ==
    ASSUME Inv, Prompt
    PROVE  loop'.at = "model" /\ loop'.step = 1 /\ loop'.question = NoQuestion
<1>1. \/ loop' = [Idle EXCEPT !.at = "model", !.step = 1, !.budget = NoLimit]
      \/ loop' = [Idle EXCEPT !.at = "model", !.step = 1, !.budget = MaxSteps]
    BY DEF Inv, Typed, Prompt
<1> QED
    BY <1>1 DEF Idle

\* A question of the call at hand is one there can be.
LEMMA QuestionsAreNamed ==
    ASSUME Inv, LoopBounded, loop.at \in InACall \cup AsksForLimit, NEW kind \in {"call", "limit"}
    PROVE  QuestionOf(kind) \in Questions
<1>1. loop.step \in Nat /\ loop.index \in Nat /\ loop.calls \in Seq(Calls)
    BY DEF Inv, Typed, LoopTyped
<1>2. loop.step \in 1..MaxReplies /\ loop.index \in 1..MaxCalls
    BY <1>1, AskingAssumption DEF LoopBounded, InAReply, InACall, AsksForLimit
<1>3. current \in 1..MaxTurns
    BY DEF LoopBounded, InACall, AsksForLimit
<1> QED
    BY <1>2, <1>3 DEF QuestionOf, Questions

LEMMA RepliesAreBounded == \A reply \in Replies : reply \in Seq(Calls) /\ Len(reply) \in 1..MaxCalls
BY AskingAssumption DEF Replies

\* The loop moves within a call, or out of it.
LEMMA MovingBounds ==
    ASSUME Inv, LoopBounded, UNCHANGED <<current, nextTurn>>,
           loop.at # "idle", loop'.at # "idle",
           loop'.step = loop.step, loop'.index = loop.index, loop'.calls = loop.calls,
           \/ loop'.at \in {"model", "retry", "stopped", "done"}
           \/ loop.at \in InACall \cup AsksForLimit /\ loop'.at \in InACall \cup AsksForLimit
           \/ loop.at = "call" /\ loop.index <= Len(loop.calls),
           loop'.at \in OverACall => Call \in Targets
    PROVE  LoopBounded'
BY DEF LoopBounded, Call, InAReply, InACall, AsksForLimit, OverACall

LEMMA LoopStaysBounded ==
    ASSUME Inv, LoopBounded, [Next]_vars
    PROVE  LoopBounded'
<1>1. LoopTyped /\ loop.step \in Nat /\ loop.index \in Nat /\ loop.calls \in Seq(Calls)
    BY DEF Inv, Typed, LoopTyped
<1>2. ASSUME NEW to \in {"stopped", "done"}, UNCHANGED <<current, nextTurn>>,
             loop.at # "idle", loop'.at = to, loop'.step = loop.step
      PROVE  LoopBounded'
    BY <1>2 DEF LoopBounded, InAReply, InACall, AsksForLimit, OverACall
<1>3. ASSUME NEW type, Ends(type), UNCHANGED <<current, nextTurn>>, loop.at # "idle"
      PROVE  LoopBounded'
    <2>1. loop'.at = "done" /\ loop'.step = loop.step
        BY <1>1, <1>3 DEF Ends, LoopTyped
    <2> QED
        BY <1>2, <1>3, <2>1
<1>4. CASE Prompt
    <2>2. loop'.at = "model" /\ loop'.step = 1
        BY <1>4, TurnStarts
    <2>3. nextTurn \in 1..MaxTurns /\ current' = nextTurn /\ nextTurn' = nextTurn + 1
        BY <1>4, AskingAssumption DEF Prompt, LoopBounded
    <2> QED
        BY <2>2, <2>3, AskingAssumption DEF LoopBounded, InAReply, InACall, AsksForLimit, OverACall
<1>5. CASE Land
    BY <1>5 DEF Land, Idle, LoopBounded, InAReply, InACall, AsksForLimit, OverACall
<1>6. CASE Reply \/ Retry
    <2>1. loop.at \in {"model", "retry"} /\ UNCHANGED <<current, nextTurn>>
        BY <1>6 DEF Reply, Retry, loopOnly
    <2>2. ASSUME loop' = [loop EXCEPT !.at = "retry"]
          PROVE  LoopBounded'
        <3>1. /\ loop'.at = "retry" /\ loop'.step = loop.step
            BY <1>1, <2>2 DEF LoopTyped
        <3> QED
            BY <2>1, <3>1 DEF LoopBounded, InAReply, InACall, AsksForLimit, OverACall
    <2>3. ASSUME NEW reply \in Replies, Takes(reply), loop.step < MaxReplies
          PROVE  LoopBounded'
        <3>1. /\ loop'.at = "call" /\ loop'.step = loop.step /\ loop'.index = 1
              /\ loop'.calls = reply
            BY <1>1, <2>3 DEF Takes, LoopTyped
        <3>2. Len(reply) <= MaxCalls
            BY RepliesAreBounded
        <3> QED
            BY <2>1, <2>3, <3>1, <3>2 DEF LoopBounded, InAReply, InACall, AsksForLimit, OverACall
    <2> QED
        BY <1>3, <1>6, <2>1, <2>2, <2>3 DEF Reply, Retry
<1>7. CASE NextReply
    <2>1. /\ loop'.at = "model" /\ loop'.step = loop.step + 1
          /\ UNCHANGED <<current, nextTurn>> /\ loop.at = "call"
        BY <1>1, <1>7 DEF NextReply, LoopTyped, loopOnly
    <2> QED
        BY <1>1, <2>1 DEF LoopBounded, InAReply, InACall, AsksForLimit, OverACall
<1>8. CASE AsksForMore \/ AsksAPerson
    <2>1. /\ loop'.step = loop.step /\ loop'.index = loop.index /\ loop'.calls = loop.calls
          /\ UNCHANGED <<current, nextTurn>>
          /\ \/ /\ loop.at = "call" /\ loop.index <= Len(loop.calls) /\ loop'.at = "hold_limit"
             \/ /\ loop.at = "running" /\ loop'.at = "hold" /\ Call \in Targets
        BY <1>1, <1>8 DEF AsksForMore, AsksAPerson, LoopTyped, loopOnly
    <2> QED
        BY <2>1, MovingBounds DEF InACall, AsksForLimit, OverACall
<1>9. CASE HoldLimit \/ SayLimit \/ Starts \/ Hold \/ Announce \/ Answered \/ SayGrant
    <2>1. PICK to : /\ loop' = [loop EXCEPT !.at = to]
                    /\ UNCHANGED <<current, nextTurn>>
                    /\ \/ loop.at \in {"hold_limit", "say_limit", "run"}
                             /\ to \in {"say_limit", "await_limit", "running"}
                       \/ loop.at = "call" /\ loop.index <= Len(loop.calls) /\ to = "running"
                       \/ loop.at \in OverACall /\ to \in OverACall
        BY <1>9 DEF HoldLimit, SayLimit, Starts, Hold, Announce, Answered, SayGrant, loopOnly,
                    OverACall
    <2>2. /\ loop'.at = to /\ loop'.step = loop.step /\ loop'.index = loop.index
          /\ loop'.calls = loop.calls
        BY <1>1, <2>1 DEF LoopTyped
    <2>3. loop'.at \in OverACall => Call \in Targets
        BY <2>1, <2>2 DEF LoopBounded, OverACall
    <2> QED
        BY <2>1, <2>2, <2>3, MovingBounds DEF InACall, AsksForLimit, OverACall
<1>10. CASE Remember
    <2>1. PICK to \in {"say_grant", "apply"} : loop' = [loop EXCEPT !.at = to]
        BY <1>10 DEF Remember
    <2>2. /\ loop'.at = to /\ loop'.step = loop.step /\ loop'.index = loop.index
          /\ loop'.calls = loop.calls
        BY <1>1, <2>1 DEF LoopTyped
    <2>3. loop.at = "remember" /\ UNCHANGED <<current, nextTurn>>
        BY <1>10 DEF Remember, loopOnly
    <2>4. Call \in Targets
        BY <2>3 DEF LoopBounded, OverACall
    <2> QED
        BY <2>2, <2>3, <2>4, MovingBounds DEF InACall, AsksForLimit
<1>11. CASE LimitAnswered
    <2>1. /\ loop'.at \in {"stopped", "run"} /\ loop'.step = loop.step
          /\ loop'.index = loop.index /\ loop'.calls = loop.calls
        BY <1>1, <1>11 DEF LimitAnswered, LoopTyped
    <2>2. loop.at = "await_limit" /\ UNCHANGED <<current, nextTurn>>
        BY <1>11 DEF LimitAnswered
    <2> QED
        BY <2>1, <2>2, MovingBounds DEF InACall, AsksForLimit, OverACall
<1>12. CASE RunDecided \/ Apply
    <2>1. /\ loop'.at = "call" /\ loop'.step = loop.step /\ loop'.index = loop.index + 1
          /\ loop'.calls = loop.calls
        BY <1>1, <1>12 DEF RunDecided, Apply, Steps, LoopTyped
    <2>2. loop.at \in InACall /\ UNCHANGED <<current, nextTurn>>
        BY <1>12 DEF RunDecided, Apply, loopOnly, InACall
    <2> QED
        BY <1>1, <2>1, <2>2 DEF LoopBounded, InAReply, InACall, AsksForLimit, OverACall
<1>13. CASE Stopped \/ DropsLimit \/ DropsAsk
    <2>1. /\ loop'.at = "done" /\ loop'.step = loop.step
          /\ UNCHANGED <<current, nextTurn>> /\ loop.at # "idle"
        BY <1>1, <1>13 DEF Stopped, DropsLimit, DropsAsk, Ends, LoopTyped, loopOnly, Asks,
                           AsksForLimit
    <2> QED
        BY <1>2, <2>1
<1>14. ASSUME NEW q, NEW say, AnswerCall(q, say) \/ ExtendLimit(q, say)
       PROVE  LoopBounded'
    <2>1. UNCHANGED <<current, nextTurn>>
        BY <1>14 DEF AnswerCall, ExtendLimit
    <2>2. /\ loop'.at = loop.at /\ loop'.step = loop.step /\ loop'.index = loop.index
          /\ loop'.calls = loop.calls
        BY <1>1, <1>14 DEF AnswerCall, ExtendLimit, Delivered, LoopTyped
    <2> QED
        BY <2>1, <2>2 DEF LoopBounded, Call
<1>15. CASE \/ Forward \/ Cancel \/ UNCHANGED vars
            \/ \E t \in Targets : RevokeGrant(t) \/ SayRevoked(t)
    <2>1. UNCHANGED <<loop, current, nextTurn>>
        BY <1>15 DEF Forward, Cancel, vars, RevokeGrant, SayRevoked, loopOnly
    <2> QED
        BY <2>1 DEF LoopBounded, Call
<1> QED
    BY <1>4, <1>5, <1>6, <1>7, <1>8, <1>9, <1>10, <1>11, <1>12, <1>13, <1>14, <1>15
    DEF Next, Loop

\* What is held is the question the loop asks.
LEMMA HeldStaysBounded ==
    ASSUME Inv, LoopBounded, HeldBounded, [Next]_vars
    PROVE  HeldBounded'
<1>1. LoopTyped /\ NoQuestion \in Named
    BY DEF Inv, Typed, Named
<1>2. CASE \/ Reply \/ Retry \/ NextReply \/ HoldLimit \/ SayLimit \/ LimitAnswered \/ Stopped
           \/ Starts \/ Hold \/ Announce \/ Answered \/ Remember \/ SayGrant
           \/ DropsAsk \/ DropsLimit
    <2>1. loop'.question = loop.question
        <3>0. ASSUME NEW type, Ends(type)
              PROVE  loop'.question = loop.question
            BY <1>1, <3>0 DEF Ends, LoopTyped
        <3>1. CASE NextReply \/ Stopped \/ Starts \/ DropsAsk \/ DropsLimit
            BY <1>1, <3>0, <3>1 DEF NextReply, Stopped, Starts, DropsAsk, DropsLimit, LoopTyped
        <3>4. CASE Reply \/ Retry
            <4>1. ASSUME NEW reply, Takes(reply)
                  PROVE  loop'.question = loop.question
                BY <1>1, <4>1 DEF Takes, LoopTyped
            <4>2. ASSUME loop' = [loop EXCEPT !.at = "retry"]
                  PROVE  loop'.question = loop.question
                BY <1>1, <4>2 DEF LoopTyped
            <4> QED
                BY <3>0, <3>4, <4>1, <4>2 DEF Reply, Retry
        <3>2. CASE HoldLimit \/ SayLimit \/ Hold \/ Announce \/ Answered \/ Remember \/ SayGrant
            BY <1>1, <3>2 DEF HoldLimit, SayLimit, Hold, Announce, Answered, Remember, SayGrant,
                              LoopTyped
        <3>3. CASE LimitAnswered
            BY <1>1, <3>3 DEF LimitAnswered, LoopTyped
        <3> QED
            BY <1>2, <3>1, <3>2, <3>3, <3>4
    <2>2. held' \in {held, loop.question, NoQuestion}
          /\ limitHeld' \in {limitHeld, loop.question, NoQuestion}
        BY <1>2 DEF Reply, Retry, NextReply, Stopped, Starts, DropsAsk, DropsLimit, HoldLimit,
                    SayLimit, Hold, Announce, Answered, Remember, SayGrant, LimitAnswered, loopOnly
    <2> QED
        BY <1>1, <2>1, <2>2 DEF HeldBounded
<1>3. CASE AsksForMore \/ AsksAPerson
    <2>1. UNCHANGED <<held, limitHeld>>
        BY <1>3 DEF AsksForMore, AsksAPerson, loopOnly
    <2>2. PICK kind \in {"call", "limit"} : loop'.question = QuestionOf(kind)
        BY <1>1, <1>3 DEF AsksForMore, AsksAPerson, LoopTyped
    <2>3. QuestionOf(kind) \in Questions
        <3>1. /\ loop.step \in Nat /\ loop.index \in Nat /\ loop.calls \in Seq(Calls)
              /\ loop.at \in {"call", "running"} /\ loop.index <= Len(loop.calls)
            BY <1>1, <1>3 DEF AsksForMore, AsksAPerson, LoopTyped, LoopBounded, InACall
        <3>2. loop.step \in 1..MaxReplies /\ loop.index \in 1..MaxCalls /\ current \in 1..MaxTurns
            BY <3>1, AskingAssumption DEF LoopBounded, InAReply, InACall
        <3> QED
            BY <3>2 DEF QuestionOf, Questions
    <2> QED
        BY <2>1, <2>2, <2>3 DEF HeldBounded, Named
<1>4. CASE Prompt \/ Land
    <2>1. loop'.question = NoQuestion
        <3>1. CASE Prompt
            BY <3>1, TurnStarts
        <3>2. CASE Land
            BY <3>2 DEF Land, Idle
        <3> QED
            BY <1>4, <3>1, <3>2
    <2> QED
        BY <1>1, <1>4, <2>1 DEF HeldBounded, Prompt, Land
<1>5. CASE RunDecided \/ Apply
    BY <1>1, <1>5 DEF HeldBounded, RunDecided, Apply, Steps, LoopTyped, loopOnly
<1>6. ASSUME NEW q, NEW say, AnswerCall(q, say) \/ ExtendLimit(q, say)
      PROVE  HeldBounded'
    <2>1. loop'.question = loop.question
        BY <1>1, <1>6 DEF AnswerCall, ExtendLimit, Delivered, LoopTyped
    <2> QED
        BY <1>1, <1>6, <2>1 DEF HeldBounded, AnswerCall, ExtendLimit
<1>7. CASE \/ Forward \/ Cancel \/ UNCHANGED vars
           \/ \E t \in Targets : RevokeGrant(t) \/ SayRevoked(t)
    <2>1. UNCHANGED <<loop, held, limitHeld>>
        BY <1>7 DEF Forward, Cancel, vars, RevokeGrant, SayRevoked, loopOnly
    <2> QED
        BY <2>1 DEF HeldBounded
<1> QED
    BY <1>2, <1>3, <1>4, <1>5, <1>6, <1>7 DEF Next, Loop

\* What the stream shows of questions once an event is folded.
LEMMA FoldingAsks ==
    ASSUME NEW v, NEW e, e.type \in Types,
           v = [calls |-> v.calls, asked |-> v.asked, limit |-> v.limit,
                ended |-> v.ended, grants |-> v.grants, unlimited |-> v.unlimited]
    PROVE  /\ \A q \in Folded(v, e).asked :
                 q \in v.asked \/ (e.type = "call_held" /\ q = e.question)
           /\ \/ Folded(v, e).limit \in {v.limit, NoQuestion}
              \/ e.type = "limit_reached" /\ Folded(v, e).limit = e.question
<1>1. CASE e.type = "tool_call"
    <2>1. Folded(v, e) = [v EXCEPT !.calls = @ \cup {e.question}]
        BY <1>1 DEF Folded
    <2> QED
        BY <2>1
<1>2. CASE e.type = "call_held"
    <2>1. Folded(v, e) = [v EXCEPT !.asked = @ \cup ({e.question} \cap v.calls)]
        BY <1>2 DEF Folded
    <2> QED
        BY <1>2, <2>1
<1>3. CASE e.type = "tool_result"
    <2>1. Folded(v, e) = [v EXCEPT !.asked = @ \ {e.question}]
        BY <1>3 DEF Folded
    <2> QED
        BY <2>1
<1>4. CASE e.type = "limit_reached"
    <2>1. Folded(v, e) = [v EXCEPT !.limit = e.question]
        BY <1>4 DEF Folded
    <2> QED
        BY <1>4, <2>1
<1>5. CASE e.type = "limit_extended"
    <2>1. Folded(v, e) = [v EXCEPT !.limit = NoQuestion, !.unlimited = @ \/ e.no_limit]
        BY <1>5 DEF Folded
    <2> QED
        BY <2>1
<1>6. CASE e.type \in LastTypes
    <2>1. Folded(v, e) = [v EXCEPT !.limit = NoQuestion, !.ended = TRUE]
        BY <1>6 DEF Folded, LastTypes
    <2> QED
        BY <2>1
<1> QED
    BY <1>1, <1>2, <1>3, <1>4, <1>5, <1>6 DEF Types, LastTypes

LEMMA StreamStaysBounded ==
    ASSUME Inv, Closing, LoopBounded, HeldBounded, StreamBounded, [Next]_vars
    PROVE  StreamBounded'
<1>1. LoopTyped /\ Typed /\ ViewShaped /\ events \in Seq(EventsOf)
    BY DEF Inv, Typed, Closing
<1>2. ASSUME NEW e \in EventsOf, e.type \in ShowTypes => e.question \in Questions,
             events' = Append(events, e), UNCHANGED <<view, heard>>
      PROVE  StreamBounded'
    <2>1. /\ DOMAIN events' = 1..(Len(events) + 1) /\ DOMAIN events = 1..Len(events)
          /\ Len(events) \in Nat
          /\ events'[Len(events) + 1] = e
          /\ \A i \in 1..Len(events) : events'[i] = events[i]
        BY <1>1, <1>2
    <2> QED
        BY <1>2, <2>1 DEF StreamBounded
<1>3. ASSUME NEW type \in Types \ ShowTypes, NEW lifted \in BOOLEAN, UNCHANGED <<view, heard>>,
             events' \in {events, Append(events, Event(type)),
                          Append(events, LimitEvent(type, lifted))}
      PROVE  StreamBounded'
    <2>1. CASE events' = events
        BY <1>3, <2>1 DEF StreamBounded
    <2>2. CASE events' = Append(events, Event(type))
        BY <1>1, <1>2, <1>3, <2>2, EventsAreTyped
    <2>3. CASE events' = Append(events, LimitEvent(type, lifted))
        BY <1>1, <1>2, <1>3, <2>3, EventsAreTyped
    <2> QED
        BY <1>3, <2>1, <2>2, <2>3
<1>4. CASE \/ Reply \/ Retry \/ NextReply \/ AsksForMore \/ HoldLimit \/ LimitAnswered \/ Stopped
           \/ Starts \/ RunDecided \/ AsksAPerson \/ Hold \/ Answered \/ Remember \/ Apply
           \/ DropsLimit
    <2>1. UNCHANGED <<view, heard>>
        BY <1>4 DEF Reply, Retry, NextReply, AsksForMore, HoldLimit, LimitAnswered, Stopped, Starts,
                    RunDecided, AsksAPerson, Hold, Answered, Remember, Apply, DropsLimit,
                    untouched, loopOnly
    <2>2. \E type \in {"tool_call", "tool_result", "limit_extended", "ended", "failed"} :
          \E lifted \in BOOLEAN :
            events' \in {events, Append(events, Event(type)),
                         Append(events, LimitEvent(type, lifted))}
        <3>1. CASE Reply \/ Retry \/ NextReply \/ Stopped \/ DropsLimit
            <4>1. ASSUME NEW type \in {"ended", "failed"}, Ends(type)
                  PROVE  events' = Append(events, Event(type))
                BY <4>1 DEF Ends, Sends
            <4>2. ASSUME NEW reply, Takes(reply)
                  PROVE  events' = events
                BY <4>2 DEF Takes, Quiet
            <4>3. \/ events' = events
                  \/ \E type \in {"ended", "failed"} : events' = Append(events, Event(type))
                BY <3>1, <4>1, <4>2 DEF Reply, Retry, NextReply, Stopped, DropsLimit, Quiet
            <4> QED
                BY <4>3
        <3>2. CASE AsksForMore \/ HoldLimit \/ AsksAPerson \/ Hold \/ Answered \/ Remember
            BY <3>2 DEF AsksForMore, HoldLimit, AsksAPerson, Hold, Answered, Remember, loopOnly
        <3>3. CASE Starts \/ RunDecided \/ Apply
            BY <3>3 DEF Starts, RunDecided, Apply, Sends
        <3>4. CASE LimitAnswered
            <4>1. \/ events' = events
                  \/ events' = Append(events,
                         LimitEvent("limit_extended", loop.answer.say = "no_limit"))
                BY <3>4 DEF LimitAnswered, Sends, Quiet
            <4>2. (loop.answer.say = "no_limit") \in BOOLEAN
                OBVIOUS
            <4> QED
                BY <4>1, <4>2
        <3> QED
            BY <1>4, <3>1, <3>2, <3>3, <3>4
    <2>3. {"tool_call", "tool_result", "limit_extended", "ended", "failed"} = Types \ ShowTypes
        BY DEF Types, ShowTypes
    <2> QED
        BY <1>3, <2>1, <2>2, <2>3
<1>5. CASE Announce \/ SayLimit
    <2>1. UNCHANGED <<view, heard>> /\ loop.at \in InACall \cup AsksForLimit
        BY <1>5 DEF Announce, SayLimit, untouched, loopOnly, InACall, AsksForLimit
    <2>2. QuestionOf("call") \in Questions /\ QuestionOf("limit") \in Questions
        BY <2>1, QuestionsAreNamed
    <2>3. PICK e : /\ e \in {Event("call_held"), LimitEvent("limit_reached", FALSE)}
                   /\ events' = Append(events, e)
        BY <1>5 DEF Announce, SayLimit, Sends
    <2>4. e \in EventsOf /\ e.question \in {QuestionOf("call"), QuestionOf("limit")}
        <3>1. LimitEvent("limit_reached", FALSE).question = QuestionOf("limit")
            BY DEF LimitEvent
        <3> QED
            BY <1>1, <2>3, <3>1, EventsAreTyped DEF Types
    <2> QED
        BY <1>2, <2>1, <2>2, <2>3, <2>4
<1>6. CASE DropsAsk
    <2>1. /\ UNCHANGED <<view, heard>>
          /\ events' = events \o <<Event("tool_result"), Event("ended")>>
        BY <1>6 DEF DropsAsk, untouched, loopOnly
    <2>2. /\ Event("tool_result") \in EventsOf /\ Event("tool_result").type = "tool_result"
          /\ Event("ended") \in EventsOf /\ Event("ended").type = "ended"
        BY <1>1, EventsAreTyped DEF Types
    <2>3. \A i \in DOMAIN events' :
            \/ i \in DOMAIN events /\ events'[i] = events[i]
            \/ events'[i] \in {Event("tool_result"), Event("ended")}
        <3> DEFINE a == Event("tool_result")
                   b == Event("ended")
        <3> HIDE DEF a, b
        <3>1. events' = events \o <<a, b>> /\ a \in EventsOf /\ b \in EventsOf
            BY <2>1, <2>2 DEF a, b
        <3>2. \A i \in DOMAIN events' :
                \/ i \in DOMAIN events /\ events'[i] = events[i]
                \/ events'[i] \in {a, b}
            BY <1>1, <3>1
        <3> QED
            BY <3>2 DEF a, b
    <2> QED
        BY <2>1, <2>2, <2>3 DEF StreamBounded, ShowTypes
<1>7. CASE Forward
    <2> DEFINE e == Head(events)
    <2>1. /\ events # <<>> /\ view' = Folded(view, e) /\ events' = Tail(events)
          /\ heard' = heard \cup view'.asked \cup ({view'.limit} \ {NoQuestion})
        BY <1>7 DEF Forward
    <2>2. /\ 1 \in DOMAIN events /\ e = events[1] /\ e \in EventsOf
          /\ \A i \in DOMAIN events' : i + 1 \in DOMAIN events /\ events'[i] = events[i + 1]
        BY <1>1, <2>1
    <2>3. e.type \in ShowTypes => e.question \in Questions
        BY <2>2 DEF StreamBounded
    <2> HIDE DEF e
    <2>4. e.type \in Types
        BY <2>2 DEF EventsOf
    <2>5. view'.asked \subseteq Questions /\ view'.limit \in Named
        BY <1>1, <2>1, <2>3, <2>4, FoldingAsks DEF ViewShaped, StreamBounded, ShowTypes, Named
    <2>6. heard' \subseteq Questions
        BY <2>1, <2>5 DEF StreamBounded, Named
    <2> QED
        BY <2>2, <2>5, <2>6 DEF StreamBounded
<1>8. CASE SayGrant \/ (\E t \in Targets : SayRevoked(t)) \/ Prompt
    <2>1. view'.asked = view.asked /\ view'.limit = view.limit
        <3>1. CASE SayGrant
            BY <1>1, <3>1 DEF SayGrant, ViewShaped
        <3>2. CASE \E t \in Targets : SayRevoked(t)
            BY <1>1, <3>2 DEF SayRevoked, ViewShaped
        <3>3. CASE Prompt
            BY <1>1, <3>3 DEF Prompt, ViewShaped
        <3> QED
            BY <1>8, <3>1, <3>2, <3>3
    <2>2. events' = events /\ heard' \subseteq heard
        BY <1>8 DEF SayGrant, SayRevoked, Prompt, loopOnly
    <2> QED
        BY <2>1, <2>2 DEF StreamBounded
<1>9. CASE \/ Land \/ Cancel \/ UNCHANGED vars
           \/ \E q \in heard : \/ \E say \in CallAnswers : AnswerCall(q, say)
                               \/ \E say \in LimitAnswers : ExtendLimit(q, say)
           \/ \E t \in Targets : RevokeGrant(t)
    <2>1. UNCHANGED <<view, heard, events>>
        BY <1>9 DEF Land, Cancel, vars, AnswerCall, ExtendLimit, RevokeGrant, untouched, loopOnly
    <2> QED
        BY <2>1 DEF StreamBounded
<1> QED
    BY <1>4, <1>5, <1>6, <1>7, <1>8, <1>9 DEF Next, Loop

\* What is remembered and what is taken back is about what was asked.
LEMMA AnswersStayBounded ==
    ASSUME Inv, LoopBounded, AnswersBounded, [Next]_vars
    PROVE  AnswersBounded'
<1>1. CASE Remember
    <2>1. Call \in Targets
        BY <1>1 DEF Remember, LoopBounded, OverACall
    <2>2. UNCHANGED <<cancelled, revoking>>
        BY <1>1 DEF Remember, loopOnly
    <2>3. allowed' \subseteq allowed \cup {Call} /\ forbidden' \subseteq forbidden \cup {Call}
        BY <1>1 DEF Remember
    <2> QED
        BY <2>1, <2>2, <2>3 DEF AnswersBounded
<1>2. CASE \E t \in Targets : RevokeGrant(t) \/ SayRevoked(t)
    BY <1>2 DEF RevokeGrant, SayRevoked, AnswersBounded, loopOnly
<1>3. CASE Loop /\ ~Remember
    <2>1. UNCHANGED <<allowed, forbidden, revoking>> /\ cancelled' \in {cancelled, FALSE}
        BY <1>3 DEF Loop, Reply, Retry, NextReply, AsksForMore, HoldLimit, SayLimit, LimitAnswered,
                    Stopped, Starts, RunDecided, AsksAPerson, Hold, Announce, Answered, SayGrant,
                    Apply, DropsAsk, DropsLimit, Land, untouched, loopOnly
    <2> QED
        BY <2>1 DEF AnswersBounded
<1>4. CASE \/ Prompt \/ Forward \/ Cancel \/ UNCHANGED vars
           \/ \E q \in heard : \/ \E say \in CallAnswers : AnswerCall(q, say)
                               \/ \E say \in LimitAnswers : ExtendLimit(q, say)
    <2>1. /\ UNCHANGED <<allowed, forbidden, revoking>>
          /\ cancelled' \in {cancelled, TRUE, FALSE}
        BY <1>4 DEF Prompt, Forward, Cancel, vars, AnswerCall, ExtendLimit, untouched
    <2> QED
        BY <2>1 DEF AnswersBounded
<1> QED
    BY <1>1, <1>2, <1>3, <1>4 DEF Next

\* For any bounds, the state keeps its types: every question there is, is of a
\* turn, a reply and a call there are, and every answer remembered is about what
\* a call may be asked about (ask, extend and Answers.give).
THEOREM AskingTypesHold == Spec => []TypeOK
<1>1. Init => Inv /\ Closing /\ Bounded
    BY Starting, ClosingStarts, BoundedAtFirst
<1>2. (Inv /\ Closing /\ Bounded) /\ [Next]_vars => (Inv /\ Closing /\ Bounded)'
    BY StepsKeepInv, StepsClose, LoopStaysBounded, HeldStaysBounded, StreamStaysBounded,
       AnswersStayBounded
    DEF Bounded
<1>3. Inv /\ Bounded => TypeOK
    <2> SUFFICES ASSUME Inv, Bounded PROVE TypeOK
        OBVIOUS
    <2>1. LoopTyped /\ unlimited \in BOOLEAN
        BY DEF Inv, Typed
    <2>2. loop.ran \in Nat /\ loop.mores \in Nat
        BY <2>1 DEF LoopTyped
    <2>3. current \in 0..MaxTurns /\ nextTurn \in 1..(MaxTurns + 1)
        BY AskingAssumption DEF Bounded, LoopBounded
    <2> QED
        BY <2>1, <2>2, <2>3
        DEF TypeOK, Bounded, HeldBounded, StreamBounded, AnswersBounded, Named
<1> QED
    BY <1>1, <1>2, <1>3, PTL DEF Spec
=============================================================================
