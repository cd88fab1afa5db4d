----------------------------- MODULE Checkpoint -----------------------------
(***************************************************************************)
(* How one live session reaches the store: App::publish and App::checkpoint  *)
(* of crates/luu/src/serve.rs, and SessionStore of crates/luu/src/store.rs,   *)
(* with the crash of the server and the resume that follows it.             *)
(*                                                                         *)
(* An event is applied to the view and queued for the stream in one section;  *)
(* an event that changed the session's shape is followed by a checkpoint,    *)
(* which is four sections of its own: copy the view, drain the queue, append  *)
(* the drained lines to the stored stream, save the copy as the stored fold.  *)
(* Only the last two share a lock, the store's.                             *)
(*                                                                         *)
(* Events are numbered in the order the view applies them, and a view is the  *)
(* sequence it applied.  Left out: the headers a change of settings queues    *)
(* outside publish, titles, and the record file of --record.                *)
(***************************************************************************)
EXTENDS Integers, Sequences, SequencesExt

CONSTANTS
    Writers,     \* the handlers and tasks that publish
    MaxEvents,   \* bound: events numbered in a run
    MaxCrashes,  \* bound: crashes in a run
    MayFail      \* whether a write to the store may fail

ASSUME BoundsAssumption ==
    MaxEvents \in Nat /\ MaxCrashes \in Nat /\ MayFail \in BOOLEAN

VARIABLES
    view, queue,   \* LiveSession: the fold in memory, the lines not yet stored
    sent,          \* what the clients of this life of the session were sent
    stream, fold,  \* the store: the events rows, the sessions row
    store,         \* who holds the store's lock
    up,            \* the session is attached to, and may be published in
    writer,        \* where each writer is in publish, and what it carries
    next, crashes, \* bounds: the next event's number, the crashes so far
    failed         \* history: a write of the store has failed

memory == <<view, queue, sent>>
disk == <<stream, fold>>
bounds == <<next, crashes>>
vars == <<memory, disk, store, up, writer, bounds, failed>>

NoEvent == 0
NoOne == "no one"

Idle == [at |-> "idle", event |-> NoEvent, copy |-> <<>>, lines |-> <<>>]

At(w, step) == writer[w].at = step
Goes(w, step) == writer' = [writer EXCEPT ![w].at = step]

Init ==
    /\ view = <<>> /\ queue = <<>> /\ sent = <<>>
    /\ stream = <<>> /\ fold = <<>>
    /\ store = NoOne
    /\ up = TRUE
    /\ writer = [w \in Writers |-> Idle]
    /\ next = 1 /\ crashes = 0
    /\ failed = FALSE

\* The section of publish: the view and the queue under one lock.  What is_checkpoint
\* says of the event is the environment's choice.
Publish(w) ==
    /\ up
    /\ At(w, "idle")
    /\ next <= MaxEvents
    /\ view' = Append(view, next)
    /\ queue' = Append(queue, next)
    /\ next' = next + 1
    /\ \E step \in {"copy", "send"} :
          writer' = [writer EXCEPT ![w].at = step, ![w].event = next]
    /\ UNCHANGED <<sent, disk, store, up, crashes, failed>>

Copy(w) ==
    /\ At(w, "copy")
    /\ writer' = [writer EXCEPT ![w].at = "drain", ![w].copy = view]
    /\ UNCHANGED <<memory, disk, store, up, bounds, failed>>

\* Mutant: the lines are read, and cleared later.
DrainLeavingThem(w) ==
    /\ At(w, "drain")
    /\ writer' = [writer EXCEPT ![w].at = "append", ![w].lines = queue]
    /\ UNCHANGED <<memory, disk, store, up, bounds, failed>>

Drain(w) ==
    /\ At(w, "drain")
    /\ writer' = [writer EXCEPT ![w].at = "append", ![w].lines = queue]
    /\ queue' = <<>>
    /\ UNCHANGED <<view, sent, disk, store, up, bounds, failed>>

Outcomes == IF MayFail THEN {"written", "refused"} ELSE {"written"}

\* Mutant: a stream that already has lines is left as it is.
AppendOnce(w) ==
    /\ At(w, "append")
    /\ store = NoOne
    /\ store' = w
    /\ stream' = IF stream = <<>> THEN writer[w].lines ELSE stream
    /\ Goes(w, "save")
    /\ UNCHANGED <<memory, fold, up, bounds, failed>>

\* The store's lock is taken, and the lines appended in a transaction of their
\* own; with nothing to append there is no transaction.  What a refused append
\* held is gone: it was drained.
AppendLines(w) ==
    /\ At(w, "append")
    /\ store = NoOne
    /\ store' = w
    /\ \E outcome \in IF writer[w].lines = <<>> THEN {"written"} ELSE Outcomes :
          /\ stream' = IF outcome = "written" THEN stream \o writer[w].lines ELSE stream
          /\ failed' = (failed \/ outcome = "refused")
    /\ Goes(w, "save")
    /\ UNCHANGED <<memory, fold, up, bounds>>

\* Mutant: what the session was at its last line, rather than the copy.
SaveDrained(w) ==
    /\ At(w, "save")
    /\ fold' = writer[w].lines
    /\ store' = NoOne
    /\ Goes(w, IF up THEN "send" ELSE "attach")
    /\ UNCHANGED <<memory, stream, up, bounds, failed>>

\* The row is replaced by the copy, whatever it held, and the lock let go.
SaveFold(w) ==
    /\ At(w, "save")
    /\ \E outcome \in Outcomes :
          /\ fold' = IF outcome = "written" THEN writer[w].copy ELSE fold
          /\ failed' = (failed \/ outcome = "refused")
    /\ store' = NoOne
    /\ Goes(w, IF up THEN "send" ELSE "attach")
    /\ UNCHANGED <<memory, stream, up, bounds>>

\* Mutant: nothing goes out.
SendNothing(w) ==
    /\ At(w, "send")
    /\ writer' = [writer EXCEPT ![w] = Idle]
    /\ UNCHANGED <<memory, disk, store, up, bounds, failed>>

\* The clients hear of the event once its checkpoint is over.
Send(w) ==
    /\ At(w, "send")
    /\ sent' = Append(sent, writer[w].event)
    /\ writer' = [writer EXCEPT ![w] = Idle]
    /\ UNCHANGED <<view, queue, disk, store, up, bounds, failed>>

\* The process dies: what was in memory is gone, what was committed is not.
Crash ==
    /\ crashes < MaxCrashes
    /\ crashes' = crashes + 1
    /\ view' = <<>> /\ queue' = <<>> /\ sent' = <<>>
    /\ store' = NoOne
    /\ up' = FALSE
    /\ writer' = [w \in Writers |-> Idle]
    /\ UNCHANGED <<disk, next, failed>>

\* resume_session: the view is the stored fold, and the queue starts empty, or
\* with the line that says the session has moved.  It checkpoints, and only then
\* can anybody attach.
Resume(w) ==
    /\ ~up
    /\ \A other \in Writers : At(other, "idle")
    /\ \/ view' = fold /\ queue' = <<>> /\ UNCHANGED next
       \/ /\ next <= MaxEvents
          /\ view' = Append(fold, next)
          /\ queue' = <<next>>
          /\ next' = next + 1
    /\ Goes(w, "copy")
    /\ UNCHANGED <<sent, disk, store, up, crashes, failed>>

\* The session is in the map of lives, where handlers find it.
Attach(w) ==
    /\ At(w, "attach")
    /\ up' = TRUE
    /\ writer' = [writer EXCEPT ![w] = Idle]
    /\ UNCHANGED <<memory, disk, store, bounds, failed>>

Continues(w) ==
    Copy(w) \/ Drain(w) \/ AppendLines(w) \/ SaveFold(w) \/ Send(w) \/ Attach(w)

Next ==
    \/ \E w \in Writers : Publish(w) \/ Continues(w) \/ Resume(w)
    \/ Crash

Spec == Init /\ [][Next]_vars

\* A publish runs to its end: tokio schedules it, and the store's lock is handed
\* on in the order it was asked for, so a writer waits for the ones before it and
\* not for ever.
Fairness == \A w \in Writers : WF_vars(Continues(w)) /\ SF_vars(AppendLines(w))

FairSpec == Spec /\ Fairness

(***************************************************************************)
(* Properties.                                                             *)
(***************************************************************************)
Events == 1..MaxEvents

TypeOK ==
    /\ view \in Seq(Events) /\ queue \in Seq(Events) /\ sent \in Seq(Events)
    /\ stream \in Seq(Events) /\ fold \in Seq(Events)
    /\ store \in Writers \cup {NoOne}
    /\ up \in BOOLEAN /\ failed \in BOOLEAN
    /\ writer \in [Writers -> [at: {"idle", "copy", "drain", "append", "save",
                                    "send", "attach"},
                               event: Events \cup {NoEvent},
                               copy: Seq(Events), lines: Seq(Events)]]
    /\ next \in 1..(MaxEvents + 1)
    /\ crashes \in 0..MaxCrashes

InFlight(w) == IF At(w, "append") THEN ToSet(writer[w].lines) ELSE {}

\* A line is in one place: queued, in the hands of one checkpoint, or stored
\* once.  No interleaving of checkpoints and no resume stores it twice (serve.rs,
\* the drain; store.rs, append).
EachLineIsInOnePlace ==
    /\ IsInjective(stream)
    /\ ToSet(queue) \cap ToSet(stream) = {}
    /\ \A w \in Writers : InFlight(w) \cap (ToSet(queue) \cup ToSet(stream)) = {}
    /\ \A w1, w2 \in Writers : w1 # w2 => InFlight(w1) \cap InFlight(w2) = {}

\* The stored fold is a state the session went through: a checkpoint of an older
\* copy may win over a newer one, but nothing is ever saved that the session was
\* not (store.rs, save: "a partially-updated cache of a fold is not a fold of
\* anything").
FoldIsAPastOfTheSession == up => IsPrefix(fold, view)

Quiet == up /\ \A w \in Writers : At(w, "idle")

\* While no write failed and nothing crashed, a session that nobody is
\* publishing in has every line of its stored fold in its stored stream, and
\* every line not stored yet in its queue (serve.rs, checkpoint).
QuietStoreIsWhole ==
    (Quiet /\ ~failed /\ crashes = 0) =>
        /\ ToSet(fold) \subseteq ToSet(stream)
        /\ ToSet(view) = ToSet(stream) \cup ToSet(queue)

\* Clients are told of every event of this life of the session, whatever its
\* checkpoint came to (serve.rs, publish: failures "do not stop a turn").
EveryEventIsSent ==
    \A e \in Events : (up /\ e \in ToSet(queue)) ~> (e \in ToSet(sent) \/ ~up)

\* "A crash between the two must leave a store whose fold lags its stream rather
\* than one whose fold claims a line the stream does not have" (serve.rs,
\* checkpoint).
FoldNeverLeadsTheStream == ~failed => ToSet(fold) \subseteq ToSet(stream)

\* "Whatever the store holds must be reproducible by folding the record": once a
\* resumed session is quiet and all its lines are stored, the stored fold is the
\* fold of the stored stream (store.rs).
StoredFoldIsOfTheStream ==
    (Quiet /\ ~failed /\ queue = <<>> /\ fold = view) => fold = stream
=============================================================================
