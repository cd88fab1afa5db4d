-------------------------------- MODULE Jobs --------------------------------
(***************************************************************************)
(* The job half of a session's context: crates/agent-core/src/job.rs and   *)
(* the job functions of crates/agent-core/src/context.rs, as operators on   *)
(* the sequence of jobs the context holds (and, for the closing condition,  *)
(* the sequence of turns).  No operator here has a state of its own: Gate   *)
(* calls them from the server's handlers, under the session's lock.         *)
(*                                                                         *)
(* A plan is abstracted to the turn whose answer proposed it, which names   *)
(* it, and to whether it has a closing condition, of the model's or a person's. *)
(* A turn is abstracted to the job it landed in and to whether one of its   *)
(* steps ran the closing command and saw it exit with 0.                    *)
(***************************************************************************)
EXTENDS Integers, Sequences

None == 0

Plan == [turn: Nat, closes: BOOLEAN]

\* Job::plan = None: a draft.  No turn is numbered 0.
NoPlan == [turn |-> None, closes |-> FALSE]

Closer == {"user", "exit_code", "approval"}

Job == [id: Nat \ {0}, plan: Plan, state: {"open", "closed"},
        by: Closer \cup {"nobody"}]

Turn == [id: Nat, job: Nat, ran: BOOLEAN]

Draft(id) == [id |-> id, plan |-> NoPlan, state |-> "open", by |-> "nobody"]

Planned(id, plan) ==
    [id |-> id, plan |-> plan, state |-> "open", by |-> "nobody"]

IsOpen(job) == job.state = "open"

IsDraft(job) == job.plan = NoPlan

ClosedBy(job, by) ==
    [id |-> job.id, plan |-> job.plan, state |-> "closed", by |-> by]

OpenedAgain(job) ==
    [id |-> job.id, plan |-> job.plan, state |-> "open", by |-> "nobody"]

NextJobId(jobs) == Len(jobs) + 1

\* "The job turns are currently attributed to: the last one not closed."
CurrentJob(jobs) ==
    IF jobs # <<>> /\ IsOpen(jobs[Len(jobs)]) THEN jobs[Len(jobs)].id ELSE None

\* The last job is open and has no plan: what Gate!Offer asks before a plan
\* is put on the table.
Drafting(jobs) == CurrentJob(jobs) # None /\ IsDraft(jobs[Len(jobs)])

CanClose(jobs, id) == \E i \in 1..Len(jobs) : jobs[i].id = id /\ IsOpen(jobs[i])

CloseJobBy(jobs, id, by) ==
    [i \in 1..Len(jobs) |->
        IF jobs[i].id = id /\ IsOpen(jobs[i])
        THEN ClosedBy(jobs[i], by)
        ELSE jobs[i]]

\* Mutant: any closed job, as before the alternation.
CanReopenAnyClosed(jobs, id) ==
    \E i \in 1..Len(jobs) : jobs[i].id = id /\ ~IsOpen(jobs[i])

\* Only the last job, and only while it is closed.
CanReopen(jobs, id) ==
    jobs # <<>> /\ jobs[Len(jobs)].id = id /\ ~IsOpen(jobs[Len(jobs)])

Reopened(jobs, id) ==
    [i \in 1..Len(jobs) |->
        IF jobs[i].id = id
        THEN OpenedAgain(jobs[i])
        ELSE jobs[i]]

\* A turn with nowhere to land opens a draft and lands in it.
WithPlaceToLand(jobs) ==
    IF CurrentJob(jobs) = None THEN Append(jobs, Draft(NextJobId(jobs))) ELSE jobs

\* Mutant: the approval moves the draft along instead of closing it.
ApproveInPlace(jobs, plan) ==
    [jobs EXCEPT ![Len(jobs)] = Planned(Len(jobs), plan)]

\* Closes whatever is open, and opens the job the plan describes.
ApprovePlan(jobs, plan) ==
    LET folded == IF CurrentJob(jobs) = None
                  THEN jobs
                  ELSE CloseJobBy(jobs, CurrentJob(jobs), "approval")
    IN  Append(folded, Planned(NextJobId(folded), plan))

\* The live job's own steps have met the condition its plan declares.  The
\* steps of every turn of the job count, also of the turns from before it was
\* closed and reopened.
Met(jobs, turns) ==
    /\ CurrentJob(jobs) # None
    /\ jobs[Len(jobs)].plan.closes
    /\ \E i \in 1..Len(turns) : turns[i].job = CurrentJob(jobs) /\ turns[i].ran

CloseIfMet(jobs, turns) ==
    IF Met(jobs, turns) THEN CloseJobBy(jobs, CurrentJob(jobs), "exit_code") ELSE jobs
=============================================================================
