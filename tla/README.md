# luu in TLA+

luu is a coding agent that runs as a server: a person works with a model in
sessions, the model explores in drafts under a read-only floor, proposes a plan,
and works under the sandbox of that plan once a person approves it. This
directory holds TLA+ models of that program, the TLC configurations that check
them on small instances, and TLAPS proofs of the properties that matter most for
every instance. The code is under `src/`; `serve.rs` is
`src/crates/luu/src/serve.rs`, `context.rs`, `job.rs`, `api.rs` and `agent.rs` are
under `src/crates/agent-core/src/`.

## The system

Two crates. `agent-core` is the agent: what a session remembers and sends, the
loop of a turn, its tools and their sandbox. `luu` is the server around it: live
sessions, their clients' sockets, the store, users, model engines.

| part | state it keeps | operations | what is hard | what makes it correct |
|---|---|---|---|---|
| the alternation of jobs (`job.rs`, `context.rs`) | the list of jobs, the turns with the job each landed in, the answered plans | open a draft, approve, close, close by condition, reopen | long sequences of legal calls | at most one job open, the last; a plan job comes out of a draft; folds are final |
| the session's gate and turns (`serve.rs` 62-300, 4126-5903) | `Session`: the context, the running turn and its cancel, the plan on the table, the narrowed sandbox | the handlers of a client's messages; the task of each turn and of each planning call | each takes the session's lock several times and publishes after it; several clients | one turn at a time; nothing folds under it; a plan is answered once; tools run under the live plan |
| the stream and its view (`serve.rs` 1533-1565, `api.rs`) | `SessionView`, the lines of the session | publish; fold one message | the order of publishes is not the order of the sections | the turns are told in their order; a resume asks what is asked |
| the store (`store.rs`, `serve.rs` 1566-1606) | the `events` rows, the `sessions` row | append, save, load, rename, archive, delete | checkpoints interleave; writes fail; the process dies | the fold is reproducible from the stream; no line twice |
| questions to a person (`serve.rs` 130-276, 4301-4370, `agent.rs`, `grants.rs`) | the held call, the tool budget, the lasting grants | ask, answer, cancel, extend, take back | late answers against cancels | an answer reaches its question only; a grant is remembered and said |
| the agent loop (`agent.rs`, `turn.rs`) | steps, budget, retries | one model call, one tool call, retry | cancel at every await, deadlines | a cancelled turn ends; the budget bounds it |
| the lives of sessions (`serve.rs` 1440-1530, 12050-12660, 13025-13430) | the map of live sessions, the current one of each user | create, resume, switch, sleep, delete, purge | check, await, act | at most `max-live`; one live copy of a session; nothing running sleeps |
| plans as sandboxes (`job.rs`, `sandbox/`, `policies.rs`, `approval.rs`) | policy, grants | narrow, floor, permit | prefixes, levels of access | narrowing never widens |
| the window (`context.rs`) | floor, prune line, items | select, evict, prune | ratchets, budgets | forward only; what fits is sent |
| engines and workers (`engines.rs`, `runtimes.rs`, `worker/`) | engines running and who holds them; worker processes | start, share, release, shut down | processes that die or hang | an engine in use is not stopped |
| users (`users.rs`, `auth.rs`, `passkeys.rs`, `mail.rs`) | users, codes, logins, removals | ask for a code, enter it, remove, come back | limits and expiry | a code works once, within its time |
| links and hosts (`link.rs`, `hosts.rs`) | connections to other machines | connect, reconnect | lost connections | a request is answered or failed |

Left aside as having no state of their own that several actors share: providers and
wire formats (`provider.rs`, `backend/`), tools and kernel interfaces (`tools/`,
`sandbox/linux.rs`), code selection (`select.rs`, `rank.rs`, `repo_map.rs`),
recordings and pages, the command line. `PROJECT.json` lists every part with its status,
and under "hazards" what is hard to test, each at its line.

How they interact: a client's socket reads a message and awaits its handler, so a
client is in one handler at a time; a handler locks `Session`, changes it, lets it
go, and publishes what it did. A prompt's handler spawns the task of the turn, which
runs the agent loop, and at its end locks `Session` again. Every publish folds the
message into the view and queues it for the store, and the messages that change the
session's shape checkpoint it.

## Modules

| module | what it is |
|---|---|
| `Jobs` | the list of jobs as operators: `job.rs` and the job functions of `context.rs` |
| `Alternation` | the abstract specification: what a session promises about its jobs |
| `Gate` | one live session: every handler and task, at the grain of the lock's sections |
| `Stream` | `Gate` with the view folded from what it publishes, and what a resume reads in it |
| `Checkpoint` | publish, checkpoint, the store, a crash and the resume after it |
| `Lives` | the live sessions of a server: the requests that make, open, sleep and delete them, and the idle sleeper |
| `Asking` | the loop of one turn and the two questions it may put to a person, with the stream that carries them |
| `Policy` | what a job may touch: the sandbox of a session, the floor, the gate, the narrowing to a plan |
| `Window` | what of the history a prompt carries, over `Jobs`, and what a resume makes of the view |
| `Users` | who may log in: the rows of `auth.db`, the mails with codes, the deletion of the removed |
| `Link` | the luus that dial another over SSH, and the server that files their links |
| `GateProofs`, `CheckpointProofs`, `LivesProofs`, `AskingProofs`, `PolicyProofs`, `WindowProofs`, `UsersProofs`, `LinkProofs` | the proofs |
| `MCStream`, `MCCheckpoint`, `MCLives`, `MCAsking`, `MCPolicy`, `MCWindow`, `MCUsers`, `MCLink` | instances for TLC |

`Stream` composes with `Gate` and `Gate` and `Window` with `Jobs`, by EXTENDS; the others stand
alone and take what they need of their neighbours as the environment's choice: what a
turn does is a choice to `Gate`, which session a turn belongs to is nothing to `Asking`,
which plan a sandbox comes of is all that `Gate` knows of `Policy`.

### Jobs and Alternation

A job is its id, its plan (`NoPlan` for a draft), whether it is open and who closed it.
A plan is the turn whose answer proposed it, and whether the person added a closing
condition; a turn is the job it landed in and whether a step of it ran the closing
command with exit code 0. `Alternation` has only the folds behind the live job and what
is live: a draft opens where nothing is open, an approval folds a draft and opens a
plan, a person or the closing condition folds what is live, the last fold may be taken
back. `Gate!A` maps the list of jobs to it.

### Gate

State: `jobs`, `turns`, `rounds` are `Session.context`; `current`, `cancelled`, `pending`,
`narrowed`, `nextTurn` the fields of `Session` of those names (`cancelled` is what the watch
of `Session.cancel` holds). `todo[c]` is what is left of the handler client `c` is in and
`task[t]` what is left of the task of turn `t`, as sequences of steps; the head is
where it is. An action is one section under the lock or one publish:

| code | actions |
|---|---|
| `on_prompt` | `OnPrompt`, `HandlerSays`, `BeginTurn`, `HandlerSays`, `Resolve` |
| `request_plan` | `RequestPlan`, `BeginTurn`, `HandlerSays`, `SpawnPlanning`; its task `PlanningEnds`, `Offer`, `TaskSays` |
| the task of a turn | `RunEnds`, `Land`, `Drafted`, `TaskSays`, `Offer`, `TaskSays` |
| `approve_plan` | `ApproveSigned`, `ApproveTaken`, `HandlerSays`, `Narrow`, `HandlerSays` |
| `decline_plan`, `close_job`, `reopen_job` | `DeclinePlan`, `CloseJob`, `ReopenJob`, each with `HandlerSays` |
| `Cancel` | `Cancel` |

A refusal changes nothing and returns: it is not an action. What the model answers is
the environment's choice (`Outcomes`: nothing, text, the closing command met, a plan
block), and so are whether the person adds a closing condition and whether a plan's
paths still resolve (`Narrowings`).

### Stream

`view` is the fold of the messages about jobs, turns and rounds (`Apply`, from
`apply_protocol`); each publish of `Gate` folds its message, at the moment it holds the
view's lock, in any order. `TurnsAreToldInOrder` and `PendingProposal` are about what a resume
reads straight from the view: the number of its next turn and the plan that waits.

### Checkpoint

Events are numbers in the order the view applies them. `Publish` is the section that
applies and queues; `Copy`, `Drain`, `AppendLines`, `SaveFold` the four of `checkpoint`, the
last two under the store's lock; `Send` the broadcast. `Crash` loses memory and keeps the
two tables; `Resume` starts from the stored fold and `Attach` makes it live. A write may
fail (`MayFail`), each on its own.

### Lives

A live session is a copy, a number in the order they are made: `map` and `current` are
`App.lives`, `ids` says what session each copy is of, `attached` and `busy` which copies
sockets and turns hold, in the map or not. The map's lock is held for one reading or one
writing, so a request is a sequence of steps, kept in `at`: `show` is a resume that found
the session live; `room`, `ask`, `sleep`, `store`, `remove` are `room_for_one` and `sleep_live`;
`previous`, `beside`, `load`, `settle`, `insert` the rest of `new_session` and `resume_session`;
`delete` what is left of `delete_session_handler` after its look at the map. The idle
sleeper is one more task, which walks the copies it read at its tick. A request may be
refused after it checkpointed the session it was made beside (`Refuse`). `stored` only
says that a session has a row; what the row holds is `Checkpoint`'s.

### Asking

One turn at a time runs `run_agent_turn`; `loop.at` is the await or the branch it stands at:
`model` and `retry` are the call of the model and its schema retry, `call` and `run` the head of
the loop over the calls of a reply, `running` a tool at work, `hold`, `announce`, `await`,
`remember`, `say_grant` the parts of `Watching::ask` and `apply` what the loop does with the answer,
`hold_limit`, `say_limit`, `await_limit` the parts of `Watching::extend`, `limit` and `stopped` what comes of it. `held` and `limitHeld` are the questions
the session holds, `events` the turn's channel, which `Forward` folds into `view`. `heard` is
what clients may answer: whatever they were shown, now or before, so an answer can be
late or come twice. `Cancel` sets the watch, and the loop drops its wait at whichever await
it stands (`DropsAsk`, `DropsLimit`). `revoking` holds the answers taken back and not said yet.

### Policy

Nothing here runs at the same time but a disk that changes: the module is the functions
of `sandbox/mod.rs`, `job.rs` and `session.rs` as operators (`AccessFor`, `FloorOf`,
`GateSandbox`, `Narrow`, `ClosingCondition`, `EscalatesCommand`), and the steps in which the
server calls them: `Approve` amends the plan under the gate and picks the closing
condition, `NarrowJob` narrows it later, `Create` and `Unlink` change the tree in between. `proposed` remembers
what the model's block said the job closes on, which `offer` stores and `amend` keeps. A
path is a sequence of names, a pattern of domains the set of hosts it matches.

### Window

A turn is the spans it read, the kind of its tool output and its job; a span is a path
and the bytes that were there. `Ask` is `Context::select` with both cuts, `Land` and `Dropped` the
turn that ends and is remembered or not; jobs fold and open again under it through `Jobs`, and
the resend rules change between two turns. The loops `fits_from` and `window_tokens` are closed
forms: the least turn from which the rest fits, and a sum.

Beside the context stands the view: `view` has every turn that ended, also one that produced
nothing, and `left` the turns it marks as evicted. `Resume` is `from_view`: the turns of the view with
their spans as the disk now has them, an open draft in front of every job for turns that had
none (`invented`), the floor counted over `left` from the first turn on, and no prune line. The view is
taken to have its messages in the order of the sections.

### Users

An operation reads the rows it decides on and queues statements, each of which SQLite
commits alone: `doing[p]` is what a process has left to run. `Run*` are the statements, `Crash`
is the death between two. `held` is history: whose last code reached them and should still
work. Time is what is left of each wait, in ticks (`Tick`).

### Link

`conns[c]` is a connection as far as the server has come with it: `auth`, `authed`, `filed` or
`refused`; `told` once the server has told it to go, `cut` once the network has dropped it.
`links` and `sweeping` are `Links.open` and what the sweep has still to look at. Each luu dials
with one task (`dialing`) and reaches its peer over one handle (`handles`). Each end learns
of the other's end by a step of its own, later, if it still matters.

| code | actions |
|---|---|
| `auth_publickey`, `tcpip_forward`, `Connection::drop` | `Auth`, `Forward`, `Ends` |
| `sweep` | `SweepStarts`, `Sweep` for each link it read |
| `dial` and `once` | `Connect`, `Fails`, `Keep`, `Drops` |
| `Peers::restart` | `Restart`: the abort, and the poll it may come in the middle of |
| `Users::add_key` and the removal of a key, a suspension | `ChangeAccount` |
| the network | `Cut` |

## Runs

| run | checks | instance | states |
|---|---|---|---|
| `gate` | the properties of `Gate`, that it implements `Alternation`, and the order of the turns in its view | 2 clients, 2 turns | 2,021,705 |
| `store` | lines in one place, the fold a past of the session, everybody told | 2 writers, 3 events, 1 crash, failing writes | 36,164 |
| `lives` | no session lost between the map and the store, the unused sleep | 1 request at a time, the sleeper, 1 socket, 3 sessions of which 2 live | 531,712 |
| `asking` | an answer reaches its question, the budget holds, no question is left open, a cancelled turn ends | 2 turns, 2 replies of 2 calls, a budget of 1 | 143,114 |
| `policy` | the narrowing never widens and gives what it says, the floor, the closing condition | a tree with a scratch and a nested file, 2 programs, 2 hosts | 246,096 |
| `window` | one true body of a file, what is left out is shown, the prompt fits, nothing comes back while the session lives | 3 turns land of 4 asked, 2 selections, 2 sets of rules, 1 resume | 2,104,231 |
| `users` | the suspended and removed have no login, an owner stays, only the removed are deleted | 2 addresses, 2 users, 1 process, 1 crash, 1 mail | 4,517,402 |
| `link` | what is filed is up, keys taken off are cut, links come back | 2 luus of one name, 3 connections, 1 cut, 1 write | 140,516 |
| `slept`, `said`, `opens`, `asked` | one sentence of the repository each, which the code does not keep | the same, smaller | first violation |

The bounds are named in each module's CONSTANTS and appear in the guards. Why they are enough:

- `gate`: two turns are a draft with a plan and a turn under the plan or a second draft, with
  two clients racing at each section and each publish. Jobs are bounded only by the turns that
  open them.
- `store`: three events and two writers give every overlap of two checkpoints with an event
  neither of them belongs to.
- `lives`: with two sessions live of three, a request has to put one to sleep to make room
  while the sleeper puts the same one to sleep. Two requests at once are beyond a run of
  this size: `SessionsAreKept` and `LiveStaysBounded` are proved for any number.
- `asking`: a second turn meets the late answers of the first; a budget of one call and two
  calls in a reply reach the limit, its extension and the call after it.
- `policy`: the tree has a path within, beside and above a root, missing and present; of the plans one
  closes on a command of its own and one on a command it does not declare.
- `window`: a `Room` of 22 holds two turns with their spans and not three; two starting
  rules, each of which a later turn may change; a file dearer and one cheaper than the
  line that cites it. Four turns asked of which three land leave one that produced nothing before,
  among or after the others for the resume to find. States that differ only in who closed a job are one (`MCView`).
- `users`: one code waiting and one on its way, a user removed while it is; every wait is one tick
  and a code has two tries. Two processes break the guard of the last owner (below).
- `link`: the luu with two connections is back before its old one is known to be gone, beside
  another luu with the same name on the same account. Two users, without liveness, give 1,310,805 states and hold too.

Deadlock is checked in `lives`, `policy`, `window`, `users` and `link`, and not elsewhere:
clients and models owe nothing, and a session whose turns are spent may stop. `gate`, `asked` and `users` use
symmetry, since they check no liveness.

Fairness. Where a run checks liveness, a handler or a task that can take its next step does:
tokio schedules every ready task and its mutexes are fair. Clients and people owe nothing.
In `Asking` the loop and the forwarder go on, the loop out of a model's call only when it is
cancelled. In `Lives` a request is answered and the sleeper goes on, with `idle-minutes` not 0
and a clock that makes whoever is unused idle for long enough. In `Checkpoint` the store's
mutex hands on in order, hence strong fairness of `AppendLines`. In `Link` the tasks and the
sweep go on and a keepalive finds what is gone (weak fairness); of the tries to connect, each
of which may fail, not all do (strong fairness of `Connect`, which an old connection still held may disable).

What the runs show. The alternation holds under every interleaving of two clients and
the tasks: the guards of `offer`, `close_job`, `approve_plan` and the closing condition,
each under a lock of its own, together keep a plan on the table inside a draft. The tools
never run under a stale narrowing, although stale narrowings exist: `start_turn` checks the
stamp. Turns get to the view in the order of their numbers, whatever else is published around them.
What is stored is always something the session was. A session nobody deleted is live
or has a row, in whatever order it is slept, opened, replaced and slept again. A late
answer is never taken for another question, and whatever a cancel interrupts, no question
stays open on the stream. A narrowed sandbox reads, writes and runs nothing its session's does
not. A prompt fits, carries each file once and as it is, and until the session is resumed never takes
back what it gave up. With one process on the database an owner stays whatever is removed, suspended,
claimed or cut short. A link is filed while it is up, whichever of its two ends is known
to have ended first, and one that is wanted comes back.

## What the code does not keep

Four runs are expected to find a violation, each of one sentence the repository states;
`PROJECT.json` quotes them under "findings".

- `slept`: a session opened while it is put to sleep becomes the current one and is taken
  out of the map, and the server has no current session.
- `said`: a cancel between a lasting answer and its message leaves an answer in force that
  the stream does not have.
- `opens`: a plan that names only domains its session refuses is left with no filter, and
  reaches what the session did not allow.
- `asked`: an answer can reach the stream before the proposal it answers, because both are
  published after their sections, and a resume asks an answered question again.

Others are stated as definitions that no run repeats. To see one broken, name it under
INVARIANTS (PROPERTIES for `SignedIdIsAssigned`) in the configuration of its module:

- `Gate!ToldWhatHoldsIt`: a turn's authority is read twice, by two rules, and the model can be
  told the other one (serve.rs:5337 "Resolved once, here").
- `Gate!SignedIdIsAssigned`: an approval can open a job of another id than the one its signature
  was checked for (serve.rs:4721, 4844).
- `Lives!OneMoreIsRefused` with two names in `Handlers`: two requests that find the last room at the same time
  make one session more than `max-live` (provider.rs:740 "One more is refused"; serve.rs:12491).
- `Checkpoint!FoldNeverLeadsTheStream`: two overlapping checkpoints can store a fold ahead of the
  stream (serve.rs:1587).
- `Checkpoint!StoredFoldIsOfTheStream`: after a crash between append and save, the stored fold is
  no longer the fold of the stream (store.rs:6, 20).
- `Users!AnOwnerStays` with `Processes = {serve, shell}`: the server and `luu user` can each
  take away one of the last two owners (users.rs:326), since each reads before it writes.

Seen while reading, not stated as properties:

- In the stream: the end of a turn reads which job is open in one section, lands in another
  and looks for its draft in a third (serve.rs:5788); another client may have closed that draft, or
  approved a plan in it, in between. `draft_opened` is then not said, or names another job, and its
  turn stands in the view without a job, or in a wrong one. Messages about jobs reach the view
  in the order of the publishes as well. While sections and publishes do not overlap the view is
  the session; nothing sees to that.
- In a resume (`Window!Resume`): a first turn that produced nothing is in the view without a job, and
  `from_view` makes up an open draft for it (context.rs:978; 972 says that no job "means *written before jobs were
  total*"). What such a turn read is then cited as superseded by a turn in a folded job, and the
  prompt has no body of the file: the exception in `WhatIsLeftOutIsShown`. The draft's id is the largest plus
  one and the next job's the number of jobs plus one (context.rs:981, 1164), so after one more such
  resume two jobs can have one id; hence the guard `~invented`. The floor is counted up to the first turn that
  was never evicted (context.rs:1006), so turns that left the window come back when a turn that was not
  remembered stands before them: hence `resumes' = resumes` in `WhatIsGivenUpStaysGivenUp`.
- In the window: behind the prune line a span cheaper than its citation is sent verbatim even
  when a newer body of the file is in the prompt (context.rs:2314; 623 says that under the rule
  a session that supersedes does not diverge). The floor moves after the line and may pass it
  (context.rs:700 says the line is "Never below the floor"). The closing condition counts every
  step of a job's turns, also those from before a reopen, so a reopened job can close at its
  next turn whatever that turn did (context.rs:1275).
- In the policy: a nested rule that grants less than the one around it does so
  (sandbox/mod.rs:418 says it "grants more rather than less"). A path in both `files` and `writes` of a
  plan gets two rules, the first of which reads, and is not written (job.rs:207; policies.rs:585
  describes the same trap where `widen` avoids it). A plan does declare a network and an
  enforcement (job.rs:210 says "a plan declares neither"). A model's block can say what its job closes on
  (job.rs:423), `offer` stores it (serve.rs:4671) and `amend` keeps it when the person types none or one that is
  dropped (job.rs:319), so a job can open with a condition it may not run; job.rs:66 says "`None` in every plan a
  model writes". `TheConditionCanRun` leaves that condition out.
- In the users: a process that dies inside `set_suspended` leaves the logins of the suspended
  (users.rs:341), hence `crashes = 0` in `TheOutHaveNoLogin`; `forget_code` goes by address and can
  forget a newer code (users.rs:758); who comes back, works and is removed again while their
  data is being deleted loses the row and keeps data (users.rs:361, serve.rs:12577); who comes back after the
  second look and before the data goes keeps the row and loses data (serve.rs:12591); the minute between
  two codes is over as soon as the first is spent (users.rs:31, 667).
- In the links: a task aborted in the middle of a poll can still keep its connection, after
  `restart` has cleared the handles: a link stays up although it was switched off
  (link.rs:831 says "Every dial stopped"). `Restart`'s second disjunct models it.
- In the engines: a session keeps its copy of the table, so an engine switched off is
  started again at the session's next turn (engines.rs:410); a start that arrives between
  `ensure_now`'s look and its probe makes luu's own process be taken for a stranger's
  (engines.rs:322); an engine placed again does not see the ports of the table
  (engines.rs:346); `release_engines` decides what to keep before another session is inserted; a
  rename moves its maps one by one and drops the gate of the new name, so two ensures can
  run; a cancelled turn drops its ensure and the engine reads as starting.

## Proofs

Eight modules, checked by tlapm, each for every value of its component's constants under
the assumptions that component states:

| module | proved for every | assuming |
|---|---|---|
| `GateProofs` (`Jobs`, `Gate` and `Stream`) | set of clients, number of turns | `MaxTurnsAssumption` |
| `CheckpointProofs` | set of writers, number of events and crashes, writes that fail or do not | `BoundsAssumption`: the bounds are naturals |
| `LivesProofs` | set of names, requests and sockets | `LivesAssumption`: names and requests are finite, there is a request, `max-live` is at least 1 (`room_for_one` sees to it) |
| `AskingProofs` | targets, budget, number of turns, replies and calls | `AskingAssumption`: the budget is at least 1, a target is none of the marks of a call |
| `PolicyProofs` | tree of paths, sandboxes, plans, amendments | `PolicyAssumption`: what is above a path is a path; the inputs are of their types |
| `WindowProofs` | spans, costs, budgets, rules, number of turns | `WindowAssumption`: finitely many spans, costs are naturals, a selection has one body of a path; for `PromptsFit` also `EveryTextCosts`: no turn and no fold is free, since a counter rounds up (context.rs:64), a turn that produced nothing is not remembered and a fold names its job |
| `UsersProofs` | addresses, waits, tries, crashes | `UsersAssumption`; `OneProcess` is a hypothesis of the theorems, since without it `AnOwnerStays` is false |
| `LinkProofs` | luus, names, accounts, connections | `LinkAssumption` |

The theorems that state a property some run checks:

| theorem | property |
|---|---|
| `OneJobIsOpen` | `Gate!OneOpenJob` |
| `PlansAreOfferedInDrafts` | `Gate!PendingInADraft` |
| `FoldsStay` | `Gate!FoldsAreFinal` |
| `NothingFoldsWhileATurnRuns` | `Gate!NothingFoldsUnderATurn` |
| `TheSessionAlternates` | `Gate!AlternationSpec`, the refinement |
| `OneTurnIsRunning` | `Gate!OneTurnRuns` |
| `TurnsRunUnderTheLivePlan` | `Gate!RunsUnderTheLivePlan` |
| `PlansAreAnsweredOnce` | `Gate!EachPlanIsAnsweredOnce` |
| `TurnsAreNumbered` | `Stream!TurnsAreToldInOrder` |
| `EachLineIsStoredOnce` | `Checkpoint!EachLineIsInOnePlace` |
| `StoredFoldIsAPast` | `Checkpoint!FoldIsAPastOfTheSession` |
| `AQuietStoreIsWhole` | `Checkpoint!QuietStoreIsWhole` |
| `SessionsAreKept` | `Lives!NoSessionIsForgotten` |
| `AnswersArrive` | `Asking!AnswersReachTheirQuestion` |
| `CallsAreBounded` | `Asking!CallsStayWithinBudget` |
| `QuestionsAreClosed` | `Asking!NoQuestionOutlivesItsTurn` |
| `QuestionsCanBeAnswered` | `Asking!AWaitingQuestionCanBeAnswered` |
| `NothingIsWidened` | `Policy!NarrowingNeverWidens` |
| `TheFileBounds` | `Policy!TheFileBoundsTheJob` |
| `TheFloorHolds` | `Policy!TheFloorWritesScratchOnly` |
| `TheConditionRuns` | `Policy!TheConditionCanRun` |
| `AYesIsWorthAsking` | `Policy!AYesChangesTheAnswer` |
| `PlansGetWhatTheySaid` | `Policy!APlanGetsWhatItSaid` |
| `NothingIsGivenBack` | `Window!WhatIsGivenUpStaysGivenUp` |
| `OneBodyIsSent` | `Window!OneTrueBody` |
| `WhatIsLeftOutIsThere` | `Window!WhatIsLeftOutIsShown` |
| `NoTurnIsLostToASpan` | `Window!NoTurnLeavesForASpan` |
| `PromptsFit` | `Window!ThePromptFits` |
| `TheServerIsOwned` | `Users!AnOwnerStays` |
| `OnlyTheRemovedGo` | `Users!KeptAreKept` |
| `TheOutAreLoggedOut` | `Users!TheOutHaveNoLogin` |
| `LinksAreFiled` | `Link!FiledWhileUp` |

`TypesHold`, `CheckpointTypes`, `LivesTypesHold`, `AskingTypesHold`, `PolicyTypesHold`, `WindowTypesHold`,
`UsersTypesHold` and `LinkTypesHold`, `PlansFollowTheirDrafts`, `TurnsAreInPlace` (`Gate!TurnsFollowTheJobs`),
`WatchersDisturbNothing` (what is proved of `Gate` holds beside the view), `LiveStaysBounded` (`Lives!LiveIsBounded`, how far
`max-live` can be exceeded) and `NarrowGrantsNoMore` (about `narrow` alone, for any sandbox and plan) state
what no run checks by name.

The arguments, one after another.

**The session.** The inductive invariant is `GateInv == TypeOK /\ WellFormed(jobs) /\ PendingInADraft`.
`WellFormed` says of a list of jobs what `OneOpenJob` and `PlanFollowsItsDraft` say, with the
types: neither is inductive alone, because an approval folds whatever is open, and only
`PendingInADraft` says that it is a draft; `PendingInADraft` in turn needs that a closing
condition belongs to a plan, and that the job a client closes is the open one, which is
the last. `TypeOK` types every step still to do, because the guard of a step reads fields
an earlier section stored. An operation of `Jobs` has one of four shapes (`OpensDraft`,
`ClosesLast`, `ReopensLast`, `ApprovesInDraft`), or changes nothing. `CloseShape`, `ReopenShape`,
`LandShape` and `ApproveShape` show that each operator has its shape on a well-formed list;
the `Keeps` lemmas show that a shape keeps a list well formed, the `Alternates` lemmas that it
is a step of `Alternation` under the mapping, `MoveIsFinal` that it changes nothing behind the
last job. `StepMoves` shows, action by action, that a step of `Gate` is such a move.

**Its turns.** Three invariants stand on `GateInv`, each on the ones before it. `Flight` says what
carries the running turn: exactly one of a handler's last step, or the one step of its
task; every action has one of five shapes (`StepShaped`: a handler goes on, a turn starts, is
handed over, goes on, ends), and each shape keeps one turn in flight. `Stamped` says
that a narrowing, stored or on its way, is stamped with a job not ahead of the list, and that
one stamped with the last job is of its plan; with `Flight`, no job moves under a turn that
took it. `Once` and `Spending` name a plan by the turn that proposed it: a turn that may
still propose has none on the table and none answered, and the offer spends it. That the turns of a
job stand together in the order of the jobs is `InPlace`: only the end of a turn lands one or
opens a draft, and it lands it in the last job there is.

**Its stream.** `Numbering` says who still has to tell of a turn: a start is said first of all that is
left of a handler, and that handler carries the turn that runs (`Told`); with `Flight` there is one at most
(`OneHasItToSay`). So the view is one turn behind the numbers while a start is unsaid, and not at all
otherwise. A step that is not a publish goes one of three ways (`Silently`), two of which leave no
start to say and the third takes the number; a publish folds its message, and only a start
changes which turns the view has (`ApplyTurns`).

**The store.** Each property has an invariant about what the checkpoints that overlap hold. `Past`:
a copy is a prefix of the view from the moment it is taken, and so is the stored fold from
the moment a resume starts. `Placed`: lines are numbered in the order they are queued, so a new one is
none of the old, and a step moves all the lines of one place to another. `Accounted`, until
a write fails or the server dies: what was drained is stored or on its way, and once its
queue is drained a copy holds nothing else, so that whichever of two checkpoints saves last
saves only that. `SendersHoldEvents` is for the types: the checkpoint of a resume carries no event, and
ends without sending because it runs alone. None of the three needs the store's
lock, which keeps the append and the save of one checkpoint together.

**The live sessions.** For the bound on the overrun the invariant is `LivesInv == TypeOK /\ Carried /\ RoomIsKept`. `Carried` says that a
step that needs a copy has one, and that what a resume shows is of the session it asked
for. A bound on the live sessions alone is not inductive, since a request adds its own
long after it counted: `RoomIsKept` bounds the live ones together with those on their way
(`Coming`). A request that finds room sees fewer than `max-live`, and there are at most as
many on their way as requests (`RoomWasFound`, by a surjection); every other step brings
only a session that was live or on its way (`ComesWithNothing`, `NothingComes`). That none is
forgotten is `Keeping`: what a request is about to take out of the map has a row, or
nobody keeps it any more, because whoever took the row away since took the session with it.
This stays so only because a new session's name was never one before, so that no removal
still pending can meet it: `NamesDiffer` and the first parts of `Placed` say where names are from.

**A turn's questions.** `Inv == Typed /\ AnswersReachTheirQuestion /\ AboutTheLimit /\ Budgeted`. What is heard
at the limit must be an answer about the limit, or a yes for a call would extend the
budget; and a call that is at hand was let in with one to spare. For the stream the
invariant looks ahead of the forwarder, which is behind the loop: `Closing` says that each
question shown, or on its way in the channel, has its result further on, or is the one the loop is
at, and that the end of the turn is the last thing sent. That a question which waits can be
answered takes two more: `HeldWhileAsked`, the session has it from before it is announced until an
answer is taken; and `ShownWhileAsked`, the view has it or will, behind the call it is about,
and every result on its way is of an earlier call. The types are `Bounded`: where a
reply is at hand its step, and where a call is its index, are within bounds, so each question is one of `Questions`
before it is held, sent, shown and heard.

**The policy.** Whenever a rule covers a path there is a most specific one (`AnswersExist`,
from `LongestExists`: the roots that cover a path are all its prefixes), and a root of a narrowed
sandbox grants at most what the gate grants there (`RootsBound`, `NarrowRootsBound`). Most of the rest
follows by what each operator does to the roots, from the types. That an approved plan
gets what it said needs the disk as well: the root of the tree stays on it (`RootIsThere`), so a path that
is missing has a nearest one above it that is there (`NearestExists`), and with every root on the disk
the same rules cover both (`NearestIsGranted`). That a yes changes something is about one path at a time: what
`widen` adds is the path asked about and nothing else (`WiderOutside`, `CommandsAreAskedFor`).

**The window.** `Lines` says that floor and prune line stand within the history. `FitsFromTheFloor` and
`PruneToMovesForward` show that what is computed for them is not behind where they stand;
`LiveRulesCiteNoLess` and `CitingMoreCostsNoMore`, that rules which may change between two turns
leave cited what was. What a prompt shows follows from `Shown`: each turn reads one body of a path and each job has one name, and until
a resume makes up a draft the jobs and the turns of context and view are in order. What it costs is a sum over spans and turns. Sums are a theory of their own here,
since induction over a finite set by the library's theorems is out of reach: `Total` is the sum of a
function over a finite set, `BySmallerSets` takes members away from a least counterexample, and from it follow
order, splitting, pointwise bounds and `RowsAndColumns` (a table has one total, by rows as by
columns). `WindowIsThreeSums` puts what `select` counts as the turns, the spans behind the line and the spans
above it. From a later floor it is no more (`WindowGrows`); the line that is chosen leaves no
more than any other, unless what it leaves fits (`PruneToIsBest`), hence no turn leaves for a span. That
the prompt fits is `Fits`, of the counts, and `WhatFitsIsSent`, of the render: `ThePartsCost` shows that each
part that is sent was counted for at least as much, a file that two turns read once under `Once`.

**The users.** The guards are asked when an operation starts and rows change at its last statement.
`Inv` says that every list of statements left to run is `Safe`: one that may take an owner away is behind
statements that touch no user, and somebody else owns the server until it runs. That the out have no
login is `Settled`, by what a list of statements is about to do with logins: nothing, end those of whom
it puts out (`Ends`, `Suspends`), or log in somebody who may, or whom it makes or claims first, and who
if removed is brought back by its last statement (`LogsThemIn`, `LetsBack`). With one process at most one list is not empty,
and until a crash each runs to its end.

**The links.** `Inv == Typed /\ LetIn /\ Sweepable /\ FiledWhileUp`: which link a connection holds can be
told once it is known what it was let in as, and that the sweep meets no newer
connection in the place of one it saw.

Every safety invariant and action property that a passing run checks is proved. Only model-checked are the
liveness properties, since fairness and ENABLED are out of the prover's reach:
`EveryEventIsSent`, `TheUnusedSleep`, `CancelledTurnsEnd`, `RemovedKeysAreCut` and `LinksComeBack`.

## Abstractions, and what is not modelled

- Summaries, token counts and titles, and the text of plans are not in `Gate` and `Stream`; nor are
  messages about tokens, tool calls, grants and traces. Whether a plan's paths resolve is a
  choice there, and so are `signed_for` and the signature check.
- The headers a change of settings queues, titles and deletions are not in `Checkpoint`.
- A client that lags behind the broadcast loses events; the models follow the view, not
  the clients' folds.
- `Lives` has no users (each would have a current session of their own), no archiving, no
  engines and no store that fails.
- `Asking` leaves to chance what a tool does, its deadline and the text of a reply, and which
  calls a person may be asked about; tokens and traces are not in its channel.
- `Policy` takes parsed policies: reading of files and lists, the implicit roots of a child and
  the bytes of a signature (`approval.rs`) are not in it. The kernel's enforcement is a constant.
- `Window` has no reports beside the prompt, no unreadable spans and no change of counter.
- `Users` has no SSH keys, no passkeys but for the login they give, no setup links, mail settings
  or hourly ceiling, and does not say who may call what.
- `Link` has neither what is carried over a link nor what a peer may do there; the waits between tries are
  the scheduler's.
- The engines and runtimes (`engines.rs`, `runtimes.rs`, `worker/`) are not modelled. Each engine is
  started, probed and stopped under one mutex of its own, so a model of it is that mutex; what lies
  outside are races of a few statements, described above, over which the code keeps no lasting
  property.
- Providers and wire formats, tools and kernel interfaces, code selection, recordings, pages and the
  command line keep no state that several actors share, and are pure I/O, formatting or
  sequential algorithms with unit tests.

## Plan

Done: `Jobs`, `Alternation`, `Gate`; `Stream` and `Checkpoint`; `Asking`; `Lives`; `Policy`; `Window`; `Users`; `Link`;
their runs, and the theorems above. What would add most next, in this order:

1. `Lives` composed with `Checkpoint`: what two copies of one session do to its row, a delete that
   crosses a resume (serve.rs:13541), and the turn numbers across a resume (serve.rs:13327).
2. `Stream` beyond jobs, turns and rounds, with a client that lags and attaches again
   (serve.rs:4198).
3. The grants of a turn (`Asking`) composed with what they give (`Policy`).
4. SSH keys and passkeys in `Users`, which `Link` admits by.
