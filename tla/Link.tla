-------------------------------- MODULE Link --------------------------------
(***************************************************************************)
(* One luu linked to another over SSH (crates/luu/src/link.rs): the luus that  *)
(* dial, each with a task that connects, asks for its link and dials again     *)
(* when it ends, and the server that files the links by user and name, lets a   *)
(* new one replace the old, and sweeps out those whose key has left its        *)
(* account.                                                                 *)
(*                                                                         *)
(* Each end learns of the other's end later, if at all.  A write to Remote      *)
(* access aborts the tasks and starts new ones; an aborted task finishes the    *)
(* poll it is in, a few statements, before a new one has a link.  Waits end     *)
(* some time: how long they grow is left out, as are the pages' requests        *)
(* carried over a link, what a peer may do, and a server without users, which   *)
(* files links under one owner and takes their names from its own tables.       *)
(***************************************************************************)
EXTENDS Naturals

CONSTANTS
    Homes,      \* the luus that dial, each with a key of its own
    Names,      \* what they ask to be called
    Users,      \* the accounts of the server
    Conns,      \* bound: the places for SSH connections, each of one luu, numbered;
                \*   one that is gone lends its place to the next
    NoOne,      \* no account, and no connection
    MaxCuts,    \* bound: connections the network drops
    MaxWrites   \* bound: writes to Remote access, on each luu

ASSUME LinkAssumption ==
    /\ Conns \subseteq Homes \X Nat
    /\ NoOne \notin Users \cup Conns /\ MaxCuts \in Nat /\ MaxWrites \in [Homes -> Nat]

VARIABLES
    account,   \* the account each key is on
    conns,     \* the server's connections, as far as each has come
    links,     \* the links filed, by user and name
    sweeping,  \* the links the sweep has still to look at
    dialing,   \* the task each luu dials with
    handles,   \* the connection each luu reaches its peer over
    cuts, writes

server == <<conns, links, sweeping>>
vars == <<account, server, dialing, handles, cuts, writes>>

Keys == Users \X Names

Gone == [stage |-> "gone", name |-> NoOne, user |-> NoOne, told |-> FALSE, cut |-> FALSE]

Task(at, name, conn) == [at |-> at, name |-> name, conn |-> conn]

Home(c) == c[1]

Up(c) == conns[c].stage # "gone"

\* What the client end can see of it.
Closed(c) == ~Up(c) \/ conns[c].told \/ conns[c].cut

\* The client end lives while anything holds its handle.
Held(c) == handles[Home(c)] = c \/ dialing[Home(c)].conn = c

\* Where a connection may go: nothing remembers the one it was lent to.
Places(h) == {c \in Conns : Home(c) = h /\ ~Up(c) /\ ~Held(c) /\ c \notin sweeping}

-----------------------------------------------------------------------------
(* The server. *)

Filed(c) == \E k \in Keys : links[k] = c

\* Mutant: whatever is filed under the name goes.
ForgetTheName(c) ==
    [links EXCEPT ![<<conns[c].user, conns[c].name>>] = NoOne]

\* Links::forget: only the link with this generation.
Forget(c) == [k \in Keys |-> IF links[k] = c THEN NoOne ELSE links[k]]

Auth(c) ==
    LET user == account[Home(c)] IN
    /\ conns[c].stage = "auth"
    /\ conns' = [conns EXCEPT ![c].stage = IF user = NoOne THEN "refused" ELSE "authed",
                              ![c].user = user]
    /\ UNCHANGED <<account, links, sweeping, dialing, handles, cuts, writes>>

\* tcpip_forward: the new link takes the name, and the old one is told to go.
Replaced(c, old) == [conns EXCEPT ![c].stage = "filed", ![old].told = TRUE]

TakesOver(c) ==
    LET old == links[<<conns[c].user, conns[c].name>>]
    IN  IF old = NoOne THEN [conns EXCEPT ![c].stage = "filed"] ELSE Replaced(c, old)

\* The client asks as soon as it is let in, and may be gone when this reads it.
Forward(c) ==
    /\ conns[c].stage = "authed"
    /\ conns' = TakesOver(c)
    /\ links' = [links EXCEPT ![<<conns[c].user, conns[c].name>>] = c]
    /\ UNCHANGED <<account, sweeping, dialing, handles, cuts, writes>>

\* The connection ends on this side: told to, or its other end is gone, which a
\* keepalive finds where the network does not say.  Connection::drop.
Ends(c) ==
    /\ Up(c)
    /\ conns[c].told \/ conns[c].cut \/ ~Held(c)
    /\ links' = Forget(c)
    /\ conns' = [conns EXCEPT ![c] = Gone]
    /\ UNCHANGED <<account, sweeping, dialing, handles, cuts, writes>>

SweepStarts ==
    /\ sweeping = {}
    /\ sweeping' = {c \in Conns : Filed(c)}
    /\ sweeping' # {}
    /\ UNCHANGED <<account, conns, links, dialing, handles, cuts, writes>>

\* Mutant: what it was admitted as is what it is.
StillAsAdmitted(c) == conns[c].user # NoOne

Still(c) == account[Home(c)] = conns[c].user

Sweep(c) ==
    /\ c \in sweeping
    /\ sweeping' = sweeping \ {c}
    /\ IF Up(c) /\ ~Still(c)
         THEN links' = Forget(c) /\ conns' = [conns EXCEPT ![c].told = TRUE]
         ELSE UNCHANGED <<links, conns>>
    /\ UNCHANGED <<account, dialing, handles, cuts, writes>>

\* A key put on an account or taken off it, or its user suspended or let in
\* again.  A key is on one account at a time (Users::add_key).
ChangeAccount(h) ==
    /\ \E user \in Users :
          account' = [account EXCEPT ![h] = IF @ = NoOne THEN user ELSE NoOne]
    /\ UNCHANGED <<server, dialing, handles, cuts, writes>>

Cut(c) ==
    /\ Up(c) /\ ~conns[c].cut /\ cuts < MaxCuts
    /\ conns' = [conns EXCEPT ![c].cut = TRUE]
    /\ cuts' = cuts + 1
    /\ UNCHANGED <<account, links, sweeping, dialing, handles, writes>>

-----------------------------------------------------------------------------
(* The luu that dials. *)

Goes(h, at, conn) ==
    dialing' = [dialing EXCEPT ![h] = Task(at, dialing[h].name, conn)]

At(h, at) == dialing[h].at = at

\* A try that gets no answer, or another host key than the one pinned, changes
\* nothing: the task waits and tries again.
Connect(h) ==
    /\ At(h, "dialing")
    /\ \E c \in Places(h) :
        /\ \A d \in Places(h) : c[2] <= d[2]
        /\ conns' = [conns EXCEPT ![c] = [Gone EXCEPT !.stage = "auth",
                                                      !.name = dialing[h].name]]
        /\ Goes(h, "asking", c)
    /\ UNCHANGED <<account, links, sweeping, handles, cuts, writes>>

\* Mutant: a refusal is the end of it.
FailsForGood(h) ==
    /\ At(h, "asking")
    /\ Closed(dialing[h].conn) \/ conns[dialing[h].conn].stage = "refused"
    /\ Goes(h, IF Closed(dialing[h].conn) THEN "dialing" ELSE "refused", NoOne)
    /\ UNCHANGED <<account, server, handles, cuts, writes>>

\* The key refused, or the connection lost on the way.
Fails(h) ==
    /\ At(h, "asking")
    /\ Closed(dialing[h].conn) \/ conns[dialing[h].conn].stage = "refused"
    /\ Goes(h, "dialing", NoOne)
    /\ UNCHANGED <<account, server, handles, cuts, writes>>

Granted(h) == At(h, "asking") /\ conns[dialing[h].conn].stage = "filed"

Keep(h) ==
    /\ Granted(h)
    /\ Goes(h, "up", dialing[h].conn)
    /\ handles' = [handles EXCEPT ![h] = dialing[h].conn]
    /\ UNCHANGED <<account, server, cuts, writes>>

\* The watch finds the connection closed.
Drops(h) ==
    /\ At(h, "up") /\ Closed(dialing[h].conn)
    /\ Goes(h, "dialing", NoOne)
    /\ handles' = [handles EXCEPT ![h] = NoOne]
    /\ UNCHANGED <<account, server, cuts, writes>>

\* Peers::restart: the task aborted, its handle gone, and a new task or none.
\* A poll under way ends after that: a link just granted is kept all the same.
Restart(h) ==
    /\ writes[h] < MaxWrites[h]
    /\ writes' = [writes EXCEPT ![h] = @ + 1]
    /\ \/ \E name \in Names :
            dialing' = [dialing EXCEPT ![h] = Task("dialing", name, NoOne)]
       \/ dialing' = [dialing EXCEPT ![h] = Task("off", @.name, NoOne)]
    /\ \/ handles' = [handles EXCEPT ![h] = NoOne]
       \/ /\ Granted(h)
          /\ handles' = [handles EXCEPT ![h] = dialing[h].conn]
    /\ UNCHANGED <<account, server, cuts>>

-----------------------------------------------------------------------------
Init ==
    /\ account = [h \in Homes |-> NoOne]
    /\ conns = [c \in Conns |-> Gone]
    /\ links = [k \in Keys |-> NoOne]
    /\ sweeping = {}
    /\ \E name \in Names :
          dialing = [h \in Homes |-> Task("dialing", name, NoOne)]
    /\ handles = [h \in Homes |-> NoOne]
    /\ cuts = 0 /\ writes = [h \in Homes |-> 0]

Serves(c) == Auth(c) \/ Forward(c) \/ Ends(c) \/ Sweep(c)

Dials(h) == Fails(h) \/ Keep(h) \/ Drops(h)

Next ==
    \/ SweepStarts
    \/ \E c \in Conns : Serves(c) \/ Cut(c)
    \/ \E h \in Homes : Connect(h) \/ Dials(h) \/ Restart(h) \/ ChangeAccount(h)

Spec == Init /\ [][Next]_vars

\* The tasks are scheduled, the sweep comes back, keepalives find what is gone,
\* and of the tries to connect not all are lost.
Fairness ==
    /\ WF_vars(SweepStarts)
    /\ \A c \in Conns : WF_vars(Auth(c)) /\ WF_vars(Forward(c)) /\ WF_vars(Ends(c))
                            /\ WF_vars(Sweep(c))
    /\ \A h \in Homes : WF_vars(Dials(h)) /\ SF_vars(Connect(h))

FairSpec == Spec /\ Fairness

-----------------------------------------------------------------------------
(* Properties *)

\* A link is filed exactly while its connection is up and nothing has told it
\* to go: neither the end of one that was replaced nor a sweep takes a newer one
\* out, and a replaced one is not left open (Links::put, Links::forget).
FiledWhileUp ==
    /\ \A c \in Conns :
          conns[c].stage = "filed" /\ ~conns[c].told =>
              links[<<conns[c].user, conns[c].name>>] = c
    /\ \A k \in Keys :
          links[k] # NoOne =>
              /\ conns[links[k]].stage = "filed" /\ ~conns[links[k]].told
              /\ k = <<conns[links[k]].user, conns[links[k]].name>>

LinkedAs(h, user) == \E name \in Names :
    LET c == links[<<user, name>>] IN c # NoOne /\ Home(c) = h

\* A key that leaves an account takes its links with it, those that were on
\* their way too (sweep).
RemovedKeysAreCut ==
    \A h \in Homes, user \in Users :
        account[h] # user ~> (account[h] = user \/ ~LinkedAs(h, user))

\* Nobody else dials for the same name.
Alone(h) ==
    \A other \in Homes \ {h} :
        \/ At(other, "off")
        \/ account[other] # account[h]
        \/ dialing[other].name # dialing[h].name

Wants(h) == ~At(h, "off") /\ account[h] # NoOne /\ Alone(h)

Linked(h) ==
    /\ account[h] # NoOne /\ handles[h] # NoOne
    /\ links[<<account[h], dialing[h].name>>] = handles[h]

\* A luu that goes on dialling, with a key on an account and a name of its own,
\* is linked again whatever was refused, cut, replaced, swept or written before
\* ("from the page, adding the key on the other side is what fixes it, and the
\* link should follow without a click").
LinksComeBack == \A h \in Homes : Wants(h) ~> (Linked(h) \/ ~Wants(h))
=============================================================================
