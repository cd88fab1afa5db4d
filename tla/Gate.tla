-------------------------------- MODULE Gate --------------------------------
(***************************************************************************)
(* One live session of `luu serve` (crates/luu/src/serve.rs): the handlers  *)
(* its clients' sockets run, and the tasks its turns run in, over the        *)
(* Session struct behind one async mutex.                                   *)
(*                                                                         *)
(* An action is one section under the session's lock, or one publish.  A     *)
(* handler or a task that takes the lock several times, or publishes after   *)
(* it, is a sequence of steps still to do: todo[c] for the handler a client  *)
(* is in (a socket reads its next message when the handler returns), task[t] *)
(* for the task that runs turn t.  The steps:                               *)
(*   say      publish a message                                            *)
(*   begin    begin_turn's lock section, `planning` when request_plan calls  *)
(*   resolve  start_turn's own reading of the sandbox, then the spawn        *)
(*   spawn    request_plan's spawn                                          *)
(*   sign     approve_plan between reading the next job id and taking the    *)
(*            plan                                                          *)
(*   narrow   approve_plan resolving the plan and storing the sandbox        *)
(*   run, planning   the model, and the tools, of a turn                    *)
(*   land     start_turn's section after the turn                           *)
(*   drafted  start_turn's section that looks for a draft to announce        *)
(*   offer    putting a plan on the table                                   *)
(*                                                                         *)
(* A refusal changes no state and is not a step: the handler just returns.   *)
(* Left to other modules: what a turn says to a person while it runs         *)
(* (held, limit_held), the window, the store.                               *)
(***************************************************************************)
EXTENDS Jobs, FiniteSets

CONSTANTS
    Clients,   \* the sockets that speak for the session
    MaxTurns   \* bound: the model stops taking prompts after this many turns

ASSUME MaxTurnsAssumption == MaxTurns \in Nat

VARIABLES
    jobs, turns, rounds,  \* Session.context: jobs, turns, answered plans
    current,              \* Session.current: the running turn, or None
    cancelled,            \* Session.cancel: what the running turn watches
    pending,              \* Session.pending: the plan on the table, or NoPlan
    narrowed,             \* Session.narrowed: a job and its plan's sandbox
    nextTurn,             \* Session.next_turn
    todo,                 \* what is left of the handler each client is in
    task                  \* what is left of the task of each turn

context == <<jobs, turns, rounds>>
vars == <<jobs, turns, rounds, current, cancelled, pending, narrowed, nextTurn,
          todo, task>>

Turns == 1..MaxTurns

(***************************************************************************)
(* Sandboxes.  The one an approved plan resolves to is named by the job and  *)
(* the plan it is stamped with; the floor, which holds every other turn, is  *)
(* the sandbox of no job.                                                  *)
(***************************************************************************)
Floor == [job |-> None, plan |-> NoPlan]
PlanSandbox(job, plan) == [job |-> job, plan |-> plan]

\* plan.narrow fails when a path it names stopped existing; None is the floor.
Narrowings(job, plan) == {PlanSandbox(job, plan), Floor}

(***************************************************************************)
(* What an answer of the model leaves behind: whether the turn is            *)
(* remembered at all, whether one of its steps ran the closing command, and  *)
(* whether its text carries a plan block.                                   *)
(***************************************************************************)
Outcomes == {o \in [lands: BOOLEAN, ran: BOOLEAN, plan: BOOLEAN] :
                (o.ran \/ o.plan) => o.lands}

\* Messages, as far as jobs, turns and rounds go.
TurnStarted(turn, job)  == [type |-> "turn_started", turn |-> turn, job |-> job]
DraftOpened(job, turn)  == [type |-> "draft_opened", job |-> job, turn |-> turn]
PlanProposed(turn)      == [type |-> "plan_proposed", turn |-> turn]
PlanDeclined            == [type |-> "plan_declined"]
JobApproved(job, plan)  == [type |-> "job_approved", job |-> job, plan |-> plan]
JobClosed(job, by)      == [type |-> "job_closed", job |-> job, by |-> by]
JobReopened(job)        == [type |-> "job_reopened", job |-> job]

Say(message) == [do |-> "say", message |-> message]
Do(step) == [do |-> step]

Next1(steps, step) == steps # <<>> /\ Head(steps).do = step

\* Client c is in no handler: its socket reads the next message.
Reading(c) == todo[c] = <<>>

Rest(c) == todo' = [todo EXCEPT ![c] = Tail(@)]
Continue(c, steps) == todo' = [todo EXCEPT ![c] = steps \o Tail(@)]
Returns(c) == todo' = [todo EXCEPT ![c] = <<>>]
Runs(c, steps) == todo' = [todo EXCEPT ![c] = steps]
TaskRest(t) == task' = [task EXCEPT ![t] = Tail(@)]
TaskContinue(t, steps) == task' = [task EXCEPT ![t] = steps \o Tail(@)]

Init ==
    /\ jobs = <<>> /\ turns = <<>> /\ rounds = <<>>
    /\ current = None
    /\ cancelled = FALSE
    /\ pending = NoPlan
    /\ narrowed = Floor
    /\ nextTurn = 1
    /\ todo = [c \in Clients |-> <<>>]
    /\ task = [t \in Turns |-> <<>>]

(***************************************************************************)
(* Prompts.                                                                *)
(***************************************************************************)
\* Turns that handlers on their way to begin_turn may still take.
Beginning == Cardinality({c \in Clients :
                 \E i \in 1..Len(todo[c]) : todo[c][i].do \in {"begin", "begin_planning"}})

\* The bound on turns, at the door rather than inside a handler.
RoomForATurn == nextTurn + Beginning <= MaxTurns

Answered(plan, answer) == [turn |-> plan.turn, answer |-> answer]

\* The plan on the table is declined by the prompt: "more changes".
OnPrompt(c) ==
    /\ Reading(c)
    /\ RoomForATurn
    /\ IF pending # NoPlan
       THEN /\ pending' = NoPlan
            /\ rounds' = Append(rounds, Answered(pending, "declined"))
            /\ Runs(c, <<Say(PlanDeclined), Do("begin")>>)
       ELSE /\ Runs(c, <<Do("begin")>>)
            /\ UNCHANGED <<pending, rounds>>
    /\ UNCHANGED <<jobs, turns, current, cancelled, narrowed, nextTurn, task>>

\* request_plan's two sections before begin_turn change nothing.
RequestPlan(c) ==
    /\ Reading(c)
    /\ RoomForATurn
    /\ pending = NoPlan
    /\ CurrentJob(jobs) # None
    /\ Runs(c, <<Do("begin_planning")>>)
    /\ UNCHANGED <<context, current, cancelled, pending, narrowed, nextTurn, task>>

\* Mutant: the turn goes off before it is said to have started.
StartsUnsaid(c, step) ==
    /\ nextTurn <= MaxTurns
    /\ current' = nextTurn
    /\ cancelled' = FALSE
    /\ nextTurn' = nextTurn + 1
    /\ LET then == IF step = "begin" THEN "resolve" ELSE "spawn"
       IN  Runs(c, <<[do |-> then, turn |-> nextTurn, told |-> narrowed],
                     Say(TurnStarted(nextTurn, CurrentJob(jobs)))>>)

Starts(c, step) ==
    /\ nextTurn <= MaxTurns
    /\ current' = nextTurn
    /\ cancelled' = FALSE
    /\ nextTurn' = nextTurn + 1
    /\ LET then == IF step = "begin" THEN "resolve" ELSE "spawn"
       IN  Runs(c, <<Say(TurnStarted(nextTurn, CurrentJob(jobs))),
                     [do |-> then, turn |-> nextTurn, told |-> narrowed]>>)

\* Mutant: the running turn is not looked at.
BeginTurnOverAnother(c) ==
    \E step \in {"begin", "begin_planning"} :
    /\ Next1(todo[c], step)
    /\ Starts(c, step)
    /\ UNCHANGED <<context, pending, narrowed, task>>

\* begin_turn: one turn at a time; the rest is refused.  The turn is built and
\* told about its authority under `narrowed` as it stands, whatever job that is.
BeginTurn(c) ==
    \E step \in {"begin", "begin_planning"} :
    /\ Next1(todo[c], step)
    /\ IF current # None
       THEN /\ Returns(c)
            /\ UNCHANGED <<current, cancelled, nextTurn>>
       ELSE Starts(c, step)
    /\ UNCHANGED <<context, pending, narrowed, task>>

\* Mutant: the narrowing as it stands, which is how begin_turn reads it.
LiveSandboxUnchecked == narrowed

\* The sandbox of the live job's plan, or the floor.
LiveSandbox ==
    LET live == CurrentJob(jobs)
    IN  IF live # None /\ narrowed.job = live THEN narrowed ELSE Floor

\* start_turn's own reading of the sandbox, and the task.
Resolve(c) ==
    /\ Next1(todo[c], "resolve")
    /\ task' = [task EXCEPT ![Head(todo[c]).turn] =
           <<[do |-> "run", told |-> Head(todo[c]).told, sandbox |-> LiveSandbox]>>]
    /\ Rest(c)
    /\ UNCHANGED <<context, current, cancelled, pending, narrowed, nextTurn>>

SpawnPlanning(c) ==
    /\ Next1(todo[c], "spawn")
    /\ task' = [task EXCEPT ![Head(todo[c]).turn] = <<Do("planning")>>]
    /\ Rest(c)
    /\ UNCHANGED <<context, current, cancelled, pending, narrowed, nextTurn>>

\* ClientMessage::Cancel reaches whatever turn is running.
Cancel(c) ==
    /\ Reading(c)
    /\ current # None
    /\ cancelled' = TRUE
    /\ UNCHANGED <<context, current, pending, narrowed, nextTurn, todo, task>>

(***************************************************************************)
(* The answers to a plan.                                                  *)
(***************************************************************************)
\* approve_plan's first section: the id the approval will hand out, which is
\* what the signature is checked against.  A signature that is refused ends it.
ApproveSigned(c) ==
    /\ Reading(c)
    /\ pending # NoPlan
    /\ Runs(c, <<[do |-> "sign", job |-> NextJobId(jobs)]>>)
    /\ UNCHANGED <<context, current, cancelled, pending, narrowed, nextTurn, task>>

\* Mutant: the plan is left on the table.
TakePlanLeavingIt(c, job, plan) ==
    /\ jobs' = ApprovePlan(jobs, plan)
    /\ rounds' = Append(rounds, Answered(plan, "approved"))
    /\ Continue(c, <<[do |-> "narrow", job |-> job, plan |-> plan],
                     Say(JobApproved(job, plan))>>)
    /\ UNCHANGED pending

\* The draft is folded, the job opened, and what is left is to say so and to
\* store the plan's sandbox, under the id the first section read.
TakePlan(c, job, plan) ==
    LET draft == CurrentJob(jobs)
        fold == IF draft # None THEN <<Say(JobClosed(draft, "approval"))>> ELSE <<>>
    IN  /\ jobs' = ApprovePlan(jobs, plan)
        /\ rounds' = Append(rounds, Answered(plan, "approved"))
        /\ pending' = NoPlan
        /\ Continue(c, fold \o <<[do |-> "narrow", job |-> job, plan |-> plan],
                                 Say(JobApproved(job, plan))>>)

\* approve_plan's second section.  Whether the job closes by itself is settled
\* here: the plan may say so, and so may the person.
ApproveTaken(c) ==
    /\ Next1(todo[c], "sign")
    /\ IF current = None /\ pending # NoPlan
       THEN \E closes \in BOOLEAN :
               TakePlan(c, Head(todo[c]).job, [pending EXCEPT !.closes = closes])
       ELSE /\ Returns(c)
            /\ UNCHANGED <<jobs, rounds, pending>>
    /\ UNCHANGED <<turns, current, cancelled, narrowed, nextTurn, task>>

\* approve_plan's third section: unconditional, whatever happened to the job.
Narrow(c) ==
    /\ Next1(todo[c], "narrow")
    /\ narrowed' \in Narrowings(Head(todo[c]).job, Head(todo[c]).plan)
    /\ Rest(c)
    /\ UNCHANGED <<context, current, cancelled, pending, nextTurn, task>>

DeclinePlan(c) ==
    /\ Reading(c)
    /\ pending # NoPlan
    /\ rounds' = Append(rounds, Answered(pending, "declined"))
    /\ pending' = NoPlan
    /\ Runs(c, <<Say(PlanDeclined)>>)
    /\ UNCHANGED <<jobs, turns, current, cancelled, narrowed, nextTurn, task>>

(***************************************************************************)
(* Closing and reopening a job by hand.                                    *)
(***************************************************************************)
WithoutJob(job) == IF narrowed.job = job THEN Floor ELSE narrowed

\* Mutant: the plan on the table is not looked at.
MayCloseUnderAPlan(job) == current = None /\ CanClose(jobs, job)

\* Mutant: the running turn is not looked at.
MayCloseUnderATurn(job) ==
    /\ ~(pending # NoPlan /\ CurrentJob(jobs) = job)
    /\ CanClose(jobs, job)

MayClose(job) ==
    /\ current = None
    /\ ~(pending # NoPlan /\ CurrentJob(jobs) = job)
    /\ CanClose(jobs, job)

CloseJob(c) ==
    /\ Reading(c)
    /\ \E job \in 1..Len(jobs) :
        /\ MayClose(job)
        /\ jobs' = CloseJobBy(jobs, job, "user")
        /\ narrowed' = WithoutJob(job)
        /\ Runs(c, <<Say(JobClosed(job, "user"))>>)
    /\ UNCHANGED <<turns, rounds, current, cancelled, pending, nextTurn, task>>

\* The plan is the authority again, resolved again; a draft has none.
Reopens(job) ==
    /\ current = None
    /\ CanReopen(jobs, job)
    /\ jobs' = Reopened(jobs, job)
    /\ LET plan == jobs[Len(jobs)].plan
       IN  narrowed' \in IF plan = NoPlan THEN {Floor} ELSE Narrowings(job, plan)

ReopenJob(c) ==
    /\ Reading(c)
    /\ \E job \in 1..Len(jobs) :
          Reopens(job) /\ Runs(c, <<Say(JobReopened(job))>>)
    /\ UNCHANGED <<turns, rounds, current, cancelled, pending, nextTurn, task>>

(***************************************************************************)
(* The task of a turn.                                                     *)
(***************************************************************************)
\* run_agent_turn returns: on its own, or because it was cancelled.  What it
\* leaves is the same either way.  opened_before is read here, in a section of
\* its own before the turn is pushed.
RunEnds(t) ==
    /\ Next1(task[t], "run")
    /\ \E outcome \in Outcomes :
          TaskContinue(t, <<[do |-> "land", outcome |-> outcome,
                             before |-> CurrentJob(jobs)]>>)
    /\ UNCHANGED <<context, current, cancelled, pending, narrowed, nextTurn, todo>>

Landed(t, placed) ==
    Append(turns, [id |-> t, job |-> CurrentJob(placed),
                   ran |-> Head(task[t]).outcome.ran])

\* The turn is remembered, the running state cleared and the live job closed if
\* its condition is met, all in one section.
Land(t) ==
    /\ Next1(task[t], "land")
    /\ LET outcome == Head(task[t]).outcome
           placed == IF outcome.lands THEN WithPlaceToLand(jobs) ELSE jobs
           landed == IF outcome.lands THEN Landed(t, placed) ELSE turns
           live == CurrentJob(placed)
           met == Met(placed, landed)
           close == IF met THEN <<Say(JobClosed(live, "exit_code"))>> ELSE <<>>
           offer == IF outcome.plan THEN <<Do("offer")>> ELSE <<>>
       IN  /\ jobs' = CloseIfMet(placed, landed)
           /\ turns' = landed
           /\ narrowed' = IF met THEN WithoutJob(live) ELSE narrowed
           /\ TaskContinue(t, <<[do |-> "drafted", before |-> Head(task[t]).before]>>
                              \o close \o offer)
    /\ current' = None
    /\ cancelled' = FALSE
    /\ UNCHANGED <<rounds, pending, nextTurn, todo>>

\* The draft to announce, looked up in a section after the one that opened it.
Drafted(t) ==
    /\ Next1(task[t], "drafted")
    /\ LET live == CurrentJob(jobs)
       IN  IF live # Head(task[t]).before /\ Drafting(jobs)
           THEN TaskContinue(t, <<Say(DraftOpened(live, t))>>)
           ELSE TaskRest(t)
    /\ UNCHANGED <<context, current, cancelled, pending, narrowed, nextTurn, todo>>

\* request_plan's task: the running state is cleared, and what was answered is
\* offered unless the call failed or was cancelled.
PlanningEnds(t) ==
    /\ Next1(task[t], "planning")
    /\ \E broken \in BOOLEAN :
          TaskContinue(t, IF broken THEN <<>> ELSE <<Do("offer")>>)
    /\ current' = None
    /\ cancelled' = FALSE
    /\ UNCHANGED <<context, pending, narrowed, nextTurn, todo>>

\* Mutant: offered inside a plan job.
MayOfferInAnyJob == pending = NoPlan /\ CurrentJob(jobs) # None

\* Dropped when a plan is up already, or when the live job is not a draft.
MayOffer == pending = NoPlan /\ Drafting(jobs)

Offer(t) ==
    /\ Next1(task[t], "offer")
    /\ IF MayOffer
       THEN /\ pending' = [turn |-> t, closes |-> FALSE]
            /\ TaskContinue(t, <<Say(PlanProposed(t))>>)
       ELSE /\ TaskRest(t)
            /\ UNCHANGED pending
    /\ UNCHANGED <<context, current, cancelled, narrowed, nextTurn, todo>>

(***************************************************************************)
(* App::publish, at the moment it holds the view's lock: that is the order   *)
(* of the stream.  Nothing of the session moves.                            *)
(***************************************************************************)
HandlerSays(c) ==
    /\ Next1(todo[c], "say")
    /\ Rest(c)
    /\ UNCHANGED <<context, current, cancelled, pending, narrowed, nextTurn, task>>

TaskSays(t) ==
    /\ Next1(task[t], "say")
    /\ TaskRest(t)
    /\ UNCHANGED <<context, current, cancelled, pending, narrowed, nextTurn, todo>>

Handles(c) ==
    \/ OnPrompt(c) \/ RequestPlan(c) \/ Cancel(c)
    \/ ApproveSigned(c) \/ DeclinePlan(c) \/ CloseJob(c) \/ ReopenJob(c)

HandlerContinues(c) ==
    \/ BeginTurn(c) \/ Resolve(c) \/ SpawnPlanning(c)
    \/ ApproveTaken(c) \/ Narrow(c)

TaskContinues(t) == Land(t) \/ Drafted(t) \/ Offer(t)

ModelReturns(t) == RunEnds(t) \/ PlanningEnds(t)

\* Every step but a publish.
Silent ==
    \/ \E c \in Clients : Handles(c) \/ HandlerContinues(c)
    \/ \E t \in Turns : TaskContinues(t) \/ ModelReturns(t)

Next ==
    \/ Silent
    \/ \E c \in Clients : HandlerSays(c)
    \/ \E t \in Turns : TaskSays(t)

Spec == Init /\ [][Next]_vars

(***************************************************************************)
(* Properties.                                                             *)
(***************************************************************************)
Sandbox == [job: Nat, plan: Plan]

Message ==
    [type: {"turn_started", "draft_opened"}, turn: Turns, job: Nat]
    \cup [type: {"plan_proposed"}, turn: Turns]
    \cup [type: {"plan_declined"}]
    \cup [type: {"job_approved"}, job: Nat, plan: Plan]
    \cup [type: {"job_closed"}, job: Nat, by: Closer]
    \cup [type: {"job_reopened"}, job: Nat]

SayStep == [do: {"say"}, message: Message]

HandlerStep ==
    SayStep
    \cup [do: {"begin", "begin_planning"}]
    \cup [do: {"resolve", "spawn"}, turn: Turns, told: Sandbox]
    \cup [do: {"sign"}, job: Nat]
    \cup [do: {"narrow"}, job: Nat, plan: Plan]

TaskStep ==
    SayStep
    \cup [do: {"run"}, told: Sandbox, sandbox: Sandbox]
    \cup [do: {"land"}, outcome: Outcomes, before: Nat]
    \cup [do: {"drafted"}, before: Nat]
    \cup [do: {"planning", "offer"}]

\* Every variable, and every step still to do, keeps its type: a handler never
\* finds a step with less than it needs (Session, serve.rs).
TypeOK ==
    /\ jobs \in Seq(Job)
    /\ turns \in Seq(Turn)
    /\ rounds \in Seq([turn: Turns, answer: {"declined", "approved"}])
    /\ current \in Turns \cup {None}
    /\ cancelled \in BOOLEAN
    /\ pending \in [turn: Turns, closes: BOOLEAN] \cup {NoPlan}
    /\ narrowed \in Sandbox
    /\ nextTurn \in 1..(MaxTurns + 1)
    /\ todo \in [Clients -> Seq(HandlerStep)]
    /\ task \in [Turns -> Seq(TaskStep)]

\* Ids are handed out by position, every job but the last is folded, and a job
\* is closed exactly when it says who closed it (context.rs, next_job_id,
\* current_job and close_job_by).
OneOpenJob ==
    \A i \in 1..Len(jobs) :
        /\ jobs[i].id = i
        /\ i < Len(jobs) => ~IsOpen(jobs[i])
        /\ IsOpen(jobs[i]) <=> jobs[i].by = "nobody"

\* A plan stays on the table only inside an open draft: whatever closes the
\* draft has answered the plan first (serve.rs, offer, close_job, approve_plan
\* and the closing condition agree on it, each under a lock of its own).
PendingInADraft == pending # NoPlan => Drafting(jobs)

\* Every plan job comes straight out of the draft whose plan was approved, and
\* nothing but an approval folds a draft into a plan job (context.rs,
\* approve_plan).
PlanFollowsItsDraft ==
    \A i \in 1..Len(jobs) :
        (~IsDraft(jobs[i])) <=> (i > 1 /\ jobs[i - 1].by = "approval")

\* The turns of a job are contiguous and in the order of the jobs, and no draft
\* is empty: the window folds a job in one item because of it (context.rs,
\* push_turn_with_steps and items_from).
TurnsFollowTheJobs ==
    /\ \A i, k \in 1..Len(turns) : i < k => turns[i].job <= turns[k].job
    /\ \A j \in 1..Len(jobs) :
          IsDraft(jobs[j]) => \E i \in 1..Len(turns) : turns[i].job = j

\* A plan is answered at most once, however many clients answer it, and every
\* plan job is one approved answer (serve.rs, the plan is taken off the table
\* under the lock).
EachPlanIsAnsweredOnce ==
    /\ \A i, k \in 1..Len(rounds) : rounds[i].turn = rounds[k].turn => i = k
    /\ \A i \in 1..Len(rounds) : rounds[i].turn # pending.turn
    /\ {jobs[i].plan.turn : i \in {k \in 1..Len(jobs) : ~IsDraft(jobs[k])}} =
       {rounds[i].turn : i \in {k \in 1..Len(rounds) : rounds[k].answer = "approved"}}

InFlight(t) ==
    \/ \E i \in 1..Len(task[t]) : task[t][i].do \in {"run", "land", "planning"}
    \/ \E c \in Clients : \E i \in 1..Len(todo[c]) :
          todo[c][i].do \in {"resolve", "spawn"} /\ todo[c][i].turn = t

\* The running turn is the one turn in flight, from begin_turn to the section
\* that clears it (serve.rs, Session.current).
OneTurnRuns == \A t \in Turns : InFlight(t) <=> t = current

\* The tools of a turn run under a plan's sandbox only while that plan's job is
\* the live one, and under that very plan: a stale narrowing never reaches them
\* (serve.rs, start_turn).
RunsUnderTheLivePlan ==
    \A t \in Turns :
        (Next1(task[t], "run") /\ Head(task[t]).sandbox # Floor) =>
            /\ Head(task[t]).sandbox.job = CurrentJob(jobs)
            /\ Head(task[t]).sandbox.plan = jobs[Len(jobs)].plan

\* While a turn runs nothing is folded, opened or reopened under it, by any
\* client (serve.rs, the Busy refusals).
NothingFoldsUnderATurn ==
    [][current # None /\ current' = current => UNCHANGED <<jobs, turns>>]_vars

\* A fold is written once: a job behind the last one never changes again, and a
\* job's plan and number never do (context.rs, reopen_job takes only the last).
FoldsAreFinal ==
    [][/\ Len(jobs) <= Len(jobs')
       /\ \A i \in 1..Len(jobs) :
             /\ jobs'[i].id = jobs[i].id /\ jobs'[i].plan = jobs[i].plan
             /\ i < Len(jobs) => jobs'[i] = jobs[i]]_vars

\* The session implements the alternation it promises.
Fold(job) == [kind |-> IF IsDraft(job) THEN "draft" ELSE "plan", by |-> job.by]
Folds == [i \in 1..(IF CurrentJob(jobs) = None THEN Len(jobs) ELSE Len(jobs) - 1) |->
             Fold(jobs[i])]
Live == IF CurrentJob(jobs) = None THEN "none" ELSE Fold(jobs[Len(jobs)]).kind

A == INSTANCE Alternation WITH folded <- Folds, live <- Live

AlternationSpec == A!Spec

\* "Resolved once, here": the authority a turn is told about is the one its tools
\* run under (serve.rs, begin_turn, of the sandbox it selects and notes from).
ToldWhatHoldsIt ==
    \A t \in Turns : Next1(task[t], "run") => Head(task[t]).told = Head(task[t]).sandbox

\* "The signature is bound to this id": an approval opens the job whose id its
\* first section read (serve.rs, approve_plan and its debug assertion).
SignedIdIsAssigned ==
    [][\A c \in Clients :
          (Next1(todo[c], "sign") /\ todo'[c] # todo[c] /\ jobs' # jobs) =>
              jobs'[Len(jobs')].id = Head(todo[c]).job]_vars
=============================================================================
