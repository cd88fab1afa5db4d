-------------------------------- MODULE Lives --------------------------------
(***************************************************************************)
(* The live sessions of one server, and the requests that make, resume,      *)
(* open, sleep and delete them: App.lives and its handlers in                *)
(* crates/luu/src/serve.rs.  A server without users: one current session.    *)
(*                                                                         *)
(* A live session is a copy (an Arc<LiveSession>): the map names the copy of  *)
(* each live session, and sockets, turns and handlers go on holding theirs    *)
(* when the map no longer does.  The map's lock is held for one reading or    *)
(* one writing, never across an await, so a request is a sequence of steps   *)
(* that each look again, or do not.  The steps of a request:                 *)
(*   show      resume_session found the session live: make that copy current *)
(*   room, ask room_for_one: count, and ask the live sessions               *)
(*   sleep, store, remove   sleep_live: look it up, checkpoint it, take it out *)
(*   previous, beside   the session it is made beside, and its checkpoint      *)
(*   load, settle           resume_session: read the row, checkpoint the copy *)
(*   insert    make_current                                                 *)
(*   delete    delete_session_handler, once it found the session not live     *)
(*   visit     the idle sleeper, with the copies it has still to look at      *)
(*                                                                         *)
(* Stored is whether a session has a row; Checkpoint says what the row holds. *)
(* Left out: users, engines, workers, archiving (an EndLive that asks more),  *)
(* a store that fails, and the clock: a session nobody uses has been idle for  *)
(* idle-minutes, which is not 0.                                            *)
(***************************************************************************)
EXTENDS Integers, FiniteSets, Functions, Sequences

CONSTANTS
    Ids,        \* the names of sessions
    First,      \* the one the server starts with
    Old,        \* the ones already in the store by then
    Handlers,   \* the requests being answered at once
    Sleeper,    \* the idle sleeper's task
    Clients,    \* the sockets
    MaxLive,    \* [sessions] max-live
    MaxCopies,  \* bound: copies made in a run
    MaxTurns    \* bound: turns running at once

ASSUME LivesAssumption ==
    /\ First \in Ids /\ Old \subseteq Ids \ {First}
    /\ IsFiniteSet(Ids)
    /\ IsFiniteSet(Handlers) /\ Handlers # {} /\ Sleeper \notin Handlers
    /\ MaxLive \in Nat \ {0} /\ MaxCopies \in Nat \ {0}
    /\ MaxTurns \in Nat

VARIABLES
    map,       \* Lives.map: the copy of each live session, or None
    current,   \* Lives.current: a session's name
    ids,       \* what session each copy made so far is of
    busy,      \* the copies in which a turn runs, or a person is asked
    attached,  \* the copy each socket holds, or None
    stored,    \* the sessions with a row in the store
    kept,      \* history: sessions made, and deleted by nobody
    at         \* where each request is

lives == <<map, current>>
vars == <<lives, ids, busy, attached, stored, kept, at>>

None == 0  \* no copy: copies are numbered from 1
Copies == 1..MaxCopies
Tasks == Handlers \cup {Sleeper}

Request(step, kind, id, copy) ==
    [do |-> step, of |-> kind, id |-> id, copy |-> copy, ask |-> {}]

Idle == Request("idle", "nothing", First, None)

Live == {s \in Ids : map[s] # None}
LiveCopies == {map[s] : s \in Live}

At(h, step) == at[h].do = step
Goes(h, step) == at' = [at EXCEPT ![h].do = step]
Returns(h) == at' = [at EXCEPT ![h] = Idle]

\* Where a sleep returns to: room_for_one counts again, the sleeper goes on.
Slept(h) ==
    LET step == CASE at[h].of \in {"new", "resume"} -> "room"
                  [] at[h].of = "visit" -> "visit"
                  [] OTHER -> "idle"
    IN  at' = [at EXCEPT ![h] = IF step = "idle" THEN Idle
                                ELSE [@ EXCEPT !.do = step, !.copy = None]]

Init ==
    /\ map = [s \in Ids |-> IF s = First THEN 1 ELSE None]
    /\ current = First
    /\ ids = <<First>>
    /\ busy = {}
    /\ attached = [c \in Clients |-> None]
    /\ stored = Old
    /\ kept = Old \cup {First}
    /\ at = [h \in Tasks |-> IF h = Sleeper
                              THEN Request("visit", "visit", First, None)
                              ELSE Idle]

\* Requests that may still make a copy; the bound on copies, at the door.
Making == Cardinality({h \in Handlers : at[h].of \in {"new", "resume"}})
RoomForACopy == Len(ids) + Making < MaxCopies

Named == {at[h].id : h \in {k \in Handlers : at[k].of = "new"}}

\* create_session: a name nobody has had.
New(h) ==
    /\ At(h, "idle")
    /\ RoomForACopy
    /\ \E s \in Ids \ (Old \cup Range(ids) \cup Named) :
          at' = [at EXCEPT ![h] = Request("room", "new", s, None)]
    /\ UNCHANGED <<lives, ids, busy, attached, stored, kept>>

\* resume_session: shown when it is live, else read from the store.
Resume(h) ==
    /\ At(h, "idle")
    /\ \E s \in Ids :
          at' = [at EXCEPT ![h] =
                    IF map[s] # None
                    THEN Request("show", "show", s, map[s])
                    ELSE Request("room", "resume", s, None)]
          /\ (map[s] = None => RoomForACopy)
    /\ UNCHANGED <<lives, ids, busy, attached, stored, kept>>

MakeCurrent(id, copy) ==
    /\ map' = [map EXCEPT ![id] = copy]
    /\ current' = id

Show(h) ==
    /\ At(h, "show")
    /\ MakeCurrent(at[h].id, at[h].copy)
    /\ Returns(h)
    /\ UNCHANGED <<ids, busy, attached, stored, kept>>

\* Not the current one, nobody attached to it, no turn running and nothing at
\* its gate: asked of a copy, and true when it was asked.
MaySleep(copy) ==
    /\ map[current] # copy
    /\ \A c \in Clients : attached[c] # copy
    /\ copy \notin busy

HasRoom == Cardinality(Live) < MaxLive

\* room_for_one, at the top of its loop.
Room(h) ==
    /\ At(h, "room")
    /\ at' = IF HasRoom
             THEN [at EXCEPT ![h].do = "previous"]
             ELSE [at EXCEPT ![h].do = "ask"]
    /\ UNCHANGED <<lives, ids, busy, attached, stored, kept>>

\* Each is asked, here at one moment; the least recently used of those that may
\* sleep is put to sleep, and with none the request is refused.
Ask(h) ==
    /\ At(h, "ask")
    /\ \/ \E copy \in LiveCopies :
             /\ MaySleep(copy)
             /\ at' = [at EXCEPT ![h].do = "sleep", ![h].copy = copy]
       \/ (\A copy \in LiveCopies : ~MaySleep(copy)) /\ Returns(h)
    /\ UNCHANGED <<lives, ids, busy, attached, stored, kept>>

\* sleep_live, by the session's name: the copy the map has for it now.
Sleep(h) ==
    /\ At(h, "sleep")
    /\ LET now == map[ids[at[h].copy]]
       IN  IF now = None \/ ids[at[h].copy] = current
           THEN Slept(h)
           ELSE at' = [at EXCEPT ![h].do = "store", ![h].copy = now]
    /\ UNCHANGED <<lives, ids, busy, attached, stored, kept>>

\* Mutant: nothing is written.
StoreNothing(h) ==
    /\ At(h, "store")
    /\ Goes(h, "remove")
    /\ UNCHANGED <<lives, ids, busy, attached, stored, kept>>

Store(h) ==
    /\ At(h, "store")
    /\ stored' = stored \cup {ids[at[h].copy]}
    /\ Goes(h, "remove")
    /\ UNCHANGED <<lives, ids, busy, attached, kept>>

\* Taken out of the map by name: what happened during the checkpoint is not
\* looked at again.
Remove(h) ==
    /\ At(h, "remove")
    /\ map' = [map EXCEPT ![ids[at[h].copy]] = None]
    /\ Slept(h)
    /\ UNCHANGED <<current, ids, busy, attached, stored, kept>>

\* The session it is made beside.  Without one the request panics, and does
\* nothing more.
Previous(h) ==
    /\ At(h, "previous")
    /\ IF map[current] = None
       THEN Returns(h)
       ELSE at' = [at EXCEPT ![h].do = "beside", ![h].copy = map[current]]
    /\ UNCHANGED <<lives, ids, busy, attached, stored, kept>>

\* That session is checkpointed.
Beside(h) ==
    /\ At(h, "beside")
    /\ stored' = stored \cup {ids[at[h].copy]}
    /\ at' = [at EXCEPT ![h].do = IF at[h].of = "new" THEN "insert" ELSE "load",
                        ![h].copy = None]
    /\ UNCHANGED <<lives, ids, busy, attached, kept>>

Load(h) ==
    /\ At(h, "load")
    /\ at[h].id \in stored
    /\ Goes(h, "settle")
    /\ UNCHANGED <<lives, ids, busy, attached, stored, kept>>

\* A destination, a folder or a posture that cannot be had, or no row: the
\* request is refused, before or after the session beside it is checkpointed.
Refuse(h) ==
    /\ \/ At(h, "beside") /\ at[h].of = "resume"
       \/ At(h, "insert") /\ at[h].of = "new"
       \/ At(h, "load")
    /\ Returns(h)
    /\ UNCHANGED <<lives, ids, busy, attached, stored, kept>>

\* The copy is checkpointed before it is live.
Settle(h) ==
    /\ At(h, "settle")
    /\ stored' = stored \cup {at[h].id}
    /\ Goes(h, "insert")
    /\ UNCHANGED <<lives, ids, busy, attached, kept>>

\* Whatever copy the map has for the session by now is replaced.
Insert(h) ==
    /\ At(h, "insert")
    /\ ids' = Append(ids, at[h].id)
    /\ MakeCurrent(at[h].id, Len(ids'))
    /\ kept' = IF at[h].of = "new" THEN kept \cup {at[h].id} ELSE kept
    /\ Returns(h)
    /\ UNCHANGED <<busy, attached, stored>>

\* end_live: not the current one, and nothing running in it.
EndLive(h) ==
    /\ At(h, "idle")
    /\ \E s \in Live \ {current} :
          /\ map[s] \notin busy
          /\ at' = [at EXCEPT ![h] = Request("sleep", "end", First, map[s])]
    /\ UNCHANGED <<lives, ids, busy, attached, stored, kept>>

\* delete_session_handler, past its look at the live sessions; what has no
\* row is not found.
Delete(h) ==
    /\ At(h, "idle")
    /\ \E s \in stored \ Live :
          at' = [at EXCEPT ![h] = Request("delete", "delete", s, None)]
    /\ UNCHANGED <<lives, ids, busy, attached, stored, kept>>

Deleted(h) ==
    /\ At(h, "delete")
    /\ stored' = stored \ {at[h].id}
    /\ kept' = kept \ {at[h].id}
    /\ Returns(h)
    /\ UNCHANGED <<lives, ids, busy, attached>>

\* The sleeper's tick: every live session, one after another.
Tick ==
    /\ At(Sleeper, "visit")
    /\ at[Sleeper].ask = {}
    /\ at' = [at EXCEPT ![Sleeper].ask = LiveCopies]
    /\ UNCHANGED <<lives, ids, busy, attached, stored, kept>>

\* Mutant: the pass ends at the first one that may not sleep.
VisitUntilBusy ==
    /\ At(Sleeper, "visit")
    /\ \E copy \in at[Sleeper].ask :
          at' = IF MaySleep(copy)
                THEN [at EXCEPT ![Sleeper].do = "sleep", ![Sleeper].copy = copy,
                                ![Sleeper].ask = @ \ {copy}]
                ELSE [at EXCEPT ![Sleeper].ask = {}]
    /\ UNCHANGED <<lives, ids, busy, attached, stored, kept>>

Visit ==
    /\ At(Sleeper, "visit")
    /\ \E copy \in at[Sleeper].ask :
          at' = IF MaySleep(copy)
                THEN [at EXCEPT ![Sleeper].do = "sleep", ![Sleeper].copy = copy,
                                ![Sleeper].ask = @ \ {copy}]
                ELSE [at EXCEPT ![Sleeper].ask = @ \ {copy}]
    /\ UNCHANGED <<lives, ids, busy, attached, stored, kept>>

\* A socket opens on a live session, or follows the current one.
Attach(c) ==
    /\ \/ attached[c] = None /\ \E s \in Live : attached' = [attached EXCEPT ![c] = map[s]]
       \/ /\ attached[c] # None /\ map[current] # None /\ attached[c] # map[current]
          /\ attached' = [attached EXCEPT ![c] = map[current]]
    /\ UNCHANGED <<lives, ids, busy, stored, kept, at>>

Detach(c) ==
    /\ attached[c] # None
    /\ attached' = [attached EXCEPT ![c] = None]
    /\ UNCHANGED <<lives, ids, busy, stored, kept, at>>

\* A prompt goes to the copy the socket holds, in the map or not.
Prompt(c) ==
    /\ attached[c] # None
    /\ attached[c] \notin busy /\ Cardinality(busy) < MaxTurns
    /\ busy' = busy \cup {attached[c]}
    /\ UNCHANGED <<lives, ids, attached, stored, kept, at>>

\* The end of a turn checkpoints its session.
TurnEnds(copy) ==
    /\ copy \in busy
    /\ busy' = busy \ {copy}
    /\ stored' = stored \cup {ids[copy]}
    /\ UNCHANGED <<lives, ids, attached, kept, at>>

Sleeps(h) == Sleep(h) \/ Store(h) \/ Remove(h)

Answers(h) ==
    \/ Show(h) \/ Room(h) \/ Ask(h) \/ Previous(h) \/ Beside(h) \/ Load(h) \/ Refuse(h)
    \/ Settle(h) \/ Insert(h) \/ Deleted(h) \/ Sleeps(h)

Requests(h) == New(h) \/ Resume(h) \/ EndLive(h) \/ Delete(h)

SleeperNext == Tick \/ Visit \/ Sleeps(Sleeper)

Next ==
    \/ \E h \in Handlers : Requests(h) \/ Answers(h)
    \/ SleeperNext
    \/ \E c \in Clients : Attach(c) \/ Detach(c) \/ Prompt(c)
    \/ \E copy \in Copies : TurnEnds(copy)

Spec == Init /\ [][Next]_vars

\* A request is answered and the sleeper goes on: tokio schedules them.  Nothing
\* is assumed of clients, of turns, or of what is asked for.
Fairness ==
    /\ \A h \in Handlers : WF_vars(Answers(h))
    /\ WF_vars(SleeperNext)

FairSpec == Spec /\ Fairness

(***************************************************************************)
(* Properties.                                                             *)
(***************************************************************************)
Steps == {"idle", "show", "room", "ask", "sleep", "store", "remove", "previous",
          "beside", "load", "settle", "insert", "delete", "visit"}

Kinds == {"nothing", "show", "new", "resume", "end", "delete", "visit"}

Requested(n) == [do: Steps, of: Kinds, id: Ids, copy: 0..n, ask: SUBSET (1..n)]

\* The types, and that the map has for a session a copy of that session.
TypeOK ==
    /\ ids \in Seq(Ids)
    /\ map \in [Ids -> 0..Len(ids)]
    /\ current \in Ids
    /\ busy \subseteq 1..Len(ids)
    /\ attached \in [Clients -> 0..Len(ids)]
    /\ stored \subseteq Ids /\ kept \subseteq Ids
    /\ at \in [Tasks -> Requested(Len(ids))]
    /\ \A s \in Live : ids[map[s]] = s

\* What the code keeps of max-live: each request looks for room and makes its
\* session much later, so the live sessions are at most the requests that looked at
\* the same time more than one would have been let in to make (serve.rs,
\* room_for_one against make_current).
LiveIsBounded == Cardinality(Live) <= MaxLive + Cardinality(Handlers) - 1

\* "How many sessions may be live at once ... One more is refused"
\* (provider.rs:740).  Kept for one request at a time: two that find the last room
\* make one more.
OneMoreIsRefused == Cardinality(Live) <= MaxLive

\* A session that was live once and that nobody deleted is live or stored, in
\* every interleaving of the requests that make, resume, sleep and replace it
\* (serve.rs, sleep_live checkpoints before it removes; "It stays in the store").
NoSessionIsForgotten == kept \subseteq Live \cup stored

Unused(s) == s \in Live /\ MaySleep(map[s])

\* A session nobody uses is put to sleep, whatever requests the others make
\* (serve.rs, sleep_the_idle).
TheUnusedSleep == \A s \in Ids : Unused(s) ~> ~Unused(s)

\* "The current one is never put to sleep", and "a server always has its own
\* session" (serve.rs, sleep_live and new_session): a server whose current
\* session is not in the map answers no route that names none.
CurrentIsLive == map[current] # None
=============================================================================
