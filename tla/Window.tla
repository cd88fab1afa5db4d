------------------------------- MODULE Window -------------------------------
(***************************************************************************)
(* What of a session's history a prompt carries: crates/agent-core/src/     *)
(* context.rs, Context::select and what it calls, with the jobs that fold    *)
(* and open again under it and the resend rules that change between two      *)
(* turns (serve.rs, resend_live).                                            *)
(*                                                                         *)
(* A turn is the spans it read, the kind of tool output it holds, and the    *)
(* job it landed in.  A span is a path and the bytes that were read there.   *)
(* Two lines cut the history: the turns up to `floor` are never sent again,  *)
(* and those up to `pruned` are sent without their spans.  Counts are the    *)
(* tokens of a made-up counter: a constant for each kind of text.            *)
(* Beside the context stands the session's view, which keeps every turn that *)
(* was asked: a resume makes the context again from it (Context::from_view). *)
(***************************************************************************)
EXTENDS Jobs, FiniteSetsExt

CONSTANTS
    Fragments,   \* spans: records [path, body]
    Selections,  \* what one turn may read: sets of them
    Outputs,     \* the tool output a turn may hold
    Disks,       \* what a resume may find on the disk: a body for each path
    Budgets,     \* the rules a session may start under
    Cost(_),     \* what the spans of a path cost, verbatim
    Citation,    \* what a line that cites a span costs
    Exchange,    \* a prompt and its answer
    Summary,     \* the fold of a closed job
    Output,      \* a tool's result, verbatim
    Cited,       \* the line that cites one
    Room,        \* the limit, less the prefix, the prompt asked and the reserve
    MaxTurns,    \* bound: turns that land
    MaxAsked,    \* bound: turns that are asked
    MaxResumes   \* bound: restarts of the session

VARIABLES
    jobs,      \* the jobs, in order
    turns,     \* the turns that landed: Jobs' turn, its spans and its output
    floor,     \* how many turns have left the window
    pruned,    \* how many turns have given up their spans
    budget,    \* the rules in force
    sent,      \* what the running turn reads, or Nothing
    resumes,   \* restarts so far
    view,      \* the turns of the session's view: every turn that ended
    left,      \* the turns the view marks as evicted
    invented   \* a resume has made a draft for the turns that had no job

told == <<view, left, invented>>

vars == <<jobs, turns, floor, pruned, budget, sent, resumes, told>>

Budget == [eviction: {"turn", "block"}, repeat: {"always", "once"},
           prune: {"never", "behind"}, results: {"kept", "cited_reads", "cited"}]

\* A path is read once by a selection.
OneBodyEach(spans) == \A f, g \in spans : f.path = g.path => f = g

ASSUME WindowAssumption ==
    /\ IsFiniteSet(Fragments)
    /\ Budgets \subseteq Budget
    /\ Selections \subseteq {s \in SUBSET Fragments : OneBodyEach(s)}
    /\ \A disk \in Disks : \A f \in Fragments :
            [path |-> f.path, body |-> disk[f.path]] \in Fragments
    /\ Outputs \subseteq {"none", "read", "ran"}
    /\ \A f \in Fragments : Cost(f.path) \in Nat
    /\ {Citation, Exchange, Summary, Output, Cited, Room} \subseteq Nat
    /\ {MaxTurns, MaxAsked, MaxResumes} \subseteq Nat

\* No turn and no fold is free: a turn that produced nothing is not remembered,
\* a fold says which job it is of, and a counter rounds up.
ASSUME EveryTextCosts == Exchange > 0 /\ Summary > 0

Nothing == [asked |-> {}, running |-> FALSE]

Init ==
    /\ jobs = <<>>
    /\ turns = <<>>
    /\ floor = 0
    /\ pruned = 0
    /\ budget \in Budgets
    /\ sent = Nothing
    /\ resumes = 0
    /\ view = <<>>
    /\ left = {}
    /\ invented = FALSE

(***************************************************************************)
(* What the session knows a path to hold: the bytes of its newest reader,   *)
(* the turn being asked ahead of all of them.                               *)
(***************************************************************************)
Readers(path) == {i \in 1..Len(turns) : \E f \in turns[i].spans : f.path = path}

\* Mutant: what the turn being asked has just read does not count.
SupersededInHistory(f, asked) ==
    /\ budget.repeat = "once"
    /\ Readers(f.path) # {}
    /\ f \notin turns[Max(Readers(f.path))].spans

Superseded(f, asked) ==
    /\ budget.repeat = "once"
    /\ IF \E g \in asked : g.path = f.path
       THEN f \notin asked
       ELSE Readers(f.path) # {} /\ f \notin turns[Max(Readers(f.path))].spans

(***************************************************************************)
(* What a turn costs.                                                       *)
(***************************************************************************)
\* A citation that is not cheaper than what it cites is not taken.
Cheaper(citation, full) == IF citation < full THEN citation ELSE full

\* A read may be asked for again; what a command did is a record of it.
Cites(results, output) ==
    \/ results = "cited" /\ output # "none"
    \/ results = "cited_reads" /\ output = "read"

OutputCost(turn, behind) ==
    IF turn.output = "none" THEN 0
    ELSE IF behind /\ Cites(budget.results, turn.output) THEN Cheaper(Cited, Output)
    ELSE Output

PrunedSpanCost(f) == Cheaper(Citation, Cost(f.path))

\* A stale span is cited whatever the line costs: it is untrue, not expensive.
ShownSpanCost(f, asked) ==
    IF Superseded(f, asked) THEN Citation ELSE Cost(f.path)

Folded(i) == \E k \in 1..Len(jobs) : jobs[k].id = turns[i].job /\ ~IsOpen(jobs[k])

TurnCost(i, line, asked) ==
    Exchange + OutputCost(turns[i], i <= line)
    + MapThenSumSet(LAMBDA f : IF i <= line THEN PrunedSpanCost(f)
                               ELSE ShownSpanCost(f, asked),
                    turns[i].spans)

\* The items of the window above a floor, each named by its first turn: the
\* turns of a closed job that stand together are one, every other is its own.
Items(above) ==
    {i \in above + 1..Len(turns) :
        Folded(i) => i = above + 1 \/ turns[i - 1].job # turns[i].job}

ItemCost(i, line, asked) == IF Folded(i) THEN Summary ELSE TurnCost(i, line, asked)

\* The turns that send their own spans, above a line.
Verbatim(above, line) == {i \in above + 1..Len(turns) : i > line /\ ~Folded(i)}

\* Under Once a span is sent by one of the turns that carry it.
Copies(f, above, line) ==
    Cardinality({i \in Verbatim(above, line) : f \in turns[i].spans})

Repeats(f, above, line) ==
    IF budget.repeat = "once" /\ Copies(f, above, line) > 1
    THEN Copies(f, above, line) - 1
    ELSE 0

\* window_tokens.  fits_from walks the same window from its other end, and
\* charges another turn for a shared span: the sum is the same.
WindowTokens(above, line, asked) ==
    MapThenSumSet(LAMBDA i : ItemCost(i, line, asked), Items(above))
    - MapThenSumSet(LAMBDA f : Repeats(f, above, line) * ShownSpanCost(f, asked),
                    Fragments)

(***************************************************************************)
(* The two cuts.                                                            *)
(***************************************************************************)
\* How many turns go so that the rest fits: items are taken from the newest
\* back, whole, until one does not fit.
FitsFrom(room, line, asked) ==
    LET fits == {i \in Items(floor) :
                    \A j \in Items(floor) :
                        j >= i => WindowTokens(j - 1, line, asked) <= room}
    IN  IF fits = {} THEN Len(turns) ELSE Min(fits) - 1

\* Mutant: one step at a time, and no further than a step that saves nothing.
PruneToWhileItSaves(target, asked) ==
    LET start == Max({pruned, floor})
        tokens(l) == WindowTokens(floor, l, asked)
        lines == {l \in start..Len(turns) :
                    \A k \in start + 1..l : tokens(k) < tokens(k - 1)}
        fits == {l \in lines : tokens(l) <= target}
    IN  IF fits # {} THEN Min(fits) ELSE Max(lines)

\* The shallowest line under the target; with none, the shallowest of those
\* that leave the window smallest (none lies beyond the last turn).
PruneTo(target, asked) ==
    LET lines == Max({pruned, floor})..Len(turns)
        tokens(l) == WindowTokens(floor, l, asked)
        fits == {l \in lines : tokens(l) <= target}
        best == {l \in lines : \A k \in lines : tokens(l) <= tokens(k)}
    IN  IF fits # {} THEN Min(fits) ELSE Min(best \cup {Len(turns)})

AskedCost(asked) == MapThenSumSet(LAMBDA f : Cost(f.path), asked)

\* What is left for the history beside the spans the turn brings.
Available(asked) == Max({0, Room - AskedCost(asked)})

\* A block cut goes down to half of what is available.
Target(asked) ==
    IF budget.eviction = "block" THEN Available(asked) \div 2 ELSE Available(asked)

\* Mutant: the cut is made for the whole room.
CutForTheRoom(line, asked) ==
    IF FitsFrom(Room, line, asked) > floor THEN FitsFrom(Room, line, asked) ELSE floor

\* Where the floor goes, under a prune line.
Cut(line, asked) ==
    IF FitsFrom(Available(asked), line, asked) > floor
    THEN FitsFrom(Target(asked), line, asked)
    ELSE floor

\* Where the prune line goes, before the floor does.
Pruning(asked) ==
    IF budget.prune = "behind" /\ FitsFrom(Available(asked), pruned, asked) > floor
    THEN PruneTo(Target(asked), asked)
    ELSE pruned

(***************************************************************************)
(* The prompt.                                                              *)
(***************************************************************************)
Part(turn, f, as) == [turn |-> turn, span |-> f, as |-> as]

\* Above the line, oldest first: a span is sent by the first that carries it.
SentAbove(above, line, asked) ==
    UNION {{Part(i, f, IF Superseded(f, asked) THEN "cited" ELSE "body") :
              f \in {g \in turns[i].spans :
                        \/ budget.repeat = "always"
                        \/ \A j \in Verbatim(above, line) :
                              j < i => g \notin turns[j].spans}} :
           i \in Verbatim(above, line)}

\* Behind it: the citation, or the span where the citation costs more.
SentBehind(above, line) ==
    UNION {{Part(i, f, IF Citation < Cost(f.path) THEN "cited" ELSE "body") :
              f \in turns[i].spans} :
           i \in {j \in above + 1..Len(turns) : j <= line /\ ~Folded(j)}}

\* The turn being asked, last: what the history shows it does not show again.
SentAsked(above, line, asked) ==
    {Part(Len(turns) + 1, f, "body") :
        f \in {g \in asked : budget.repeat = "always" \/ Copies(g, above, line) = 0}}

\* What the running turn was sent: nothing it is made from changes under it.
Parts ==
    SentAbove(floor, pruned, sent.asked) \cup SentBehind(floor, pruned)
    \cup SentAsked(floor, pruned, sent.asked)

\* begin_turn: the line moves, then the floor, and what is left is rendered.
\* The view is told which turns left.
Ask ==
    /\ ~sent.running
    /\ Len(view) < MaxAsked
    /\ \E asked \in Selections :
        LET line == Pruning(asked)
            above == Cut(line, asked)
        IN  /\ pruned' = line
            /\ floor' = above
            /\ sent' = [asked |-> asked, running |-> TRUE]
    /\ left' = left \cup {turns[i].id : i \in floor + 1..floor'}
    /\ UNCHANGED <<jobs, turns, budget, resumes, view, invented>>

\* What the turn being asked is to the session: its number, its job and what
\* it read.  It is a step of the command only where that ended with 0.
Asked(job, output) ==
    [id |-> Len(view) + 1, job |-> job, ran |-> output = "ran",
     spans |-> sent.asked, output |-> output]

\* push_turn_with_steps, and the live job closed if its condition is met.
Land ==
    /\ sent.running
    /\ Len(turns) < MaxTurns
    /\ LET placed == WithPlaceToLand(jobs)
       IN  \E output \in Outputs :
            /\ turns' = Append(turns, Asked(CurrentJob(placed), output))
            /\ view' = Append(view, Asked(CurrentJob(placed), output))
            /\ jobs' = CloseIfMet(placed, turns')
    /\ sent' = Nothing
    /\ UNCHANGED <<floor, pruned, budget, resumes, left, invented>>

\* A turn that produced nothing is not remembered, but the view keeps it, with
\* the job that was live, if one was.
Dropped ==
    /\ sent.running
    /\ view' = Append(view, Asked(CurrentJob(jobs), "none"))
    /\ jobs' = CloseIfMet(jobs, turns)
    /\ sent' = Nothing
    /\ UNCHANGED <<turns, floor, pruned, budget, resumes, left, invented>>

(***************************************************************************)
(* Between two turns.                                                       *)
(***************************************************************************)
CloseJob ==
    /\ ~sent.running
    /\ \E job \in 1..Len(jobs) :
        CanClose(jobs, job) /\ jobs' = CloseJobBy(jobs, job, "user")
    /\ UNCHANGED <<turns, floor, pruned, budget, sent, resumes, told>>

ReopenJob ==
    /\ ~sent.running
    /\ \E job \in 1..Len(jobs) :
        CanReopen(jobs, job) /\ jobs' = Reopened(jobs, job)
    /\ UNCHANGED <<turns, floor, pruned, budget, sent, resumes, told>>

\* The plan is that of the last turn, and it declares a closing condition: a
\* job without one is a job none of whose turns meets it.
Approve ==
    /\ ~sent.running
    /\ Drafting(jobs)
    /\ jobs' = ApprovePlan(jobs, [turn |-> Len(turns), closes |-> TRUE])
    /\ UNCHANGED <<turns, floor, pruned, budget, sent, resumes, told>>

\* Mutant: the rules that were asked for.
LiveRulesAsAsked(asked, live) == [asked EXCEPT !.eviction = live.eviction]

Rung(results) ==
    CASE results = "kept" -> 0 [] results = "cited_reads" -> 1 [] OTHER -> 2

\* resend_live: nothing that would hand back what a prompt has given up.
LiveRules(asked, live) ==
    [eviction |-> live.eviction,
     repeat |-> asked.repeat,
     prune |-> IF live.prune = "behind" THEN "behind" ELSE asked.prune,
     results |-> IF Rung(asked.results) < Rung(live.results)
                 THEN live.results ELSE asked.results]

\* put_resend.  A running turn has its prompt: it reads none of this.
Resend ==
    /\ ~sent.running
    /\ \E asked \in Budgets : budget' = LiveRules(asked, budget)
    /\ UNCHANGED <<jobs, turns, floor, pruned, sent, resumes, told>>

\* A turn of the view, in the context again: its spans are read from what the
\* disk now holds, and without a job it goes to the draft that is made for it.
Restored(turn, disk) ==
    [turn EXCEPT
        !.spans = {[path |-> f.path, body |-> disk[f.path]] : f \in turn.spans},
        !.job = IF turn.job = None THEN NextJobId(jobs) ELSE turn.job]

\* Context::from_view.  Every turn of the view is back, also one that was not
\* remembered; the draft of the jobless stands before every other job.  The
\* floor is counted from the first turn on, as far as the view marks them as
\* evicted, and no line is restored.  The rules are those of the resumed
\* session.  Bound: a life with such a draft is the last that is modelled.
Resume ==
    /\ ~sent.running
    /\ ~invented
    /\ resumes < MaxResumes
    /\ \E disk \in Disks :
        turns' = [i \in 1..Len(view) |-> Restored(view[i], disk)]
    /\ invented' = (\E i \in 1..Len(view) : view[i].job = None)
    /\ jobs' = IF invented' THEN <<Draft(NextJobId(jobs))>> \o jobs ELSE jobs
    /\ floor' = Max({n \in 0..Len(view) : 1..n \subseteq left})
    /\ pruned' = 0
    /\ budget' \in Budgets
    /\ resumes' = resumes + 1
    /\ UNCHANGED <<sent, view, left>>

Next == Ask \/ Land \/ Dropped \/ CloseJob \/ ReopenJob \/ Approve \/ Resend \/ Resume

Spec == Init /\ [][Next]_vars

(***************************************************************************)
(* Properties.                                                             *)
(***************************************************************************)
\* The type invariant of the variables of a context and of its last prompt.
TypeOK ==
    /\ \A k \in 1..Len(jobs) : jobs[k] \in Job
    /\ \A i \in 1..Len(turns) :
        /\ turns[i].job \in 1..Len(jobs)
        /\ turns[i].spans \subseteq Fragments /\ OneBodyEach(turns[i].spans)
        /\ turns[i].output \in Outputs \cup {"none"}
    /\ floor \in 0..Len(turns)
    /\ pruned \in 0..Len(turns)
    /\ budget \in Budget
    /\ sent.asked \in Selections \cup {{}}
    /\ resumes \in 0..MaxResumes
    /\ \A i \in 1..Len(view) :
        /\ view[i].job \in 0..Len(jobs)
        /\ view[i].spans \subseteq Fragments /\ OneBodyEach(view[i].spans)
    /\ left \subseteq 1..Len(view)
    /\ invented \in BOOLEAN

\* What the newest reader of a path was shown, the turn being asked included.
Newest(path) ==
    IF \E f \in sent.asked : f.path = path
    THEN {f \in sent.asked : f.path = path}
    ELSE IF Readers(path) = {} THEN {}
    ELSE {f \in turns[Max(Readers(path))].spans : f.path = path}

BodiesAbove == {p \in Parts : p.as = "body" /\ p.turn > pruned}

\* Under Once, above the prune line, one body of a path is sent, once, and it
\* is the newest the session has read (Current::of, split_shown).
OneTrueBody ==
    sent.running /\ budget.repeat = "once" =>
        \A p \in BodiesAbove :
            /\ p.span \in Newest(p.span.path)
            /\ \A q \in BodiesAbove : q.span.path = p.span.path => q = p

\* No span is left out, or cited as superseded, but because the prompt shows
\* the newest body of its path: a turn that is folded, evicted or behind the
\* line stands in for none (split_shown, Current::superseded).  But for the
\* turns a resume gave a draft of their own: those stand unfolded before jobs
\* that have folded, and what they read may have been read again in a fold.
WhatIsLeftOutIsShown ==
    sent.running =>
        /\ \A i \in Verbatim(floor, pruned) : \A f \in turns[i].spans :
            \/ \E p \in BodiesAbove : p.span.path = f.path
            \/ invented /\ Folded(Max(Readers(f.path)))
        /\ \A f \in sent.asked : \E p \in BodiesAbove : p.span = f

PartCost(p) == IF p.as = "cited" THEN Citation ELSE Cost(p.span.path)

SentTokens ==
    MapThenSumSet(PartCost, Parts)
    + MapThenSumSet(LAMBDA i : IF Folded(i) THEN Summary
                               ELSE Exchange + OutputCost(turns[i], i <= pruned),
                    Items(floor))

\* What is sent fits the room that is left for it, or nothing of the history
\* is sent: the counts the cuts were decided on are those of the render.
ThePromptFits == sent.running => SentTokens <= Room \/ Items(floor) = {}

\* While a session lives, a turn leaves the window only when no prune line
\* keeps the window under what is available ("the floor only moves when pruning
\* the whole window is not enough").
NoTurnLeavesForASpan ==
    [][resumes' = resumes /\ floor' # floor /\ budget.prune = "behind" =>
        \A line \in Max({pruned, floor})..Len(turns) :
            WindowTokens(floor, line, sent'.asked) > Available(sent'.asked)]_vars

\* While a session lives, what leaves the window does not come back, and what
\* a turn behind the line has given up it does not get back, whatever folds,
\* opens again or is asked of the rules.
WhatIsGivenUpStaysGivenUp ==
    [][resumes' = resumes =>
        /\ floor' >= floor
        /\ \A i \in 1..pruned :
            i <= pruned' /\ OutputCost(turns[i], TRUE)' <= OutputCost(turns[i], TRUE)]_vars
=============================================================================
