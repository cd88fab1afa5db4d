-------------------------------- MODULE Users --------------------------------
(***************************************************************************)
(* Who may log in: auth.db (crates/luu/src/users.rs), the requests and        *)
(* commands that change it, the mails that carry its codes, and the hourly    *)
(* deletion of the removed users' data (serve.rs, purge_the_removed).         *)
(*                                                                         *)
(* An operation reads the rows it decides on and then runs statements, each    *)
(* of which SQLite commits by itself: doing is what a process has left to run. *)
(* In one process the connection's lock is held from the first reading to the  *)
(* last statement, so a process runs one operation at a time; two processes,   *)
(* the server and `luu user` on the same file, only exclude each other's       *)
(* statements.  A process may die between two of them.                        *)
(*                                                                         *)
(* Time is what is left of each wait, in ticks; an expired code or login is    *)
(* as good as no row, and is none here.  An operation takes no time.          *)
(* Left out: the setup links (a claim may be made whenever there is no owner),  *)
(* SSH keys and passkeys but for the login a passkey gives, the ceiling on all  *)
(* mail, who may call what, and the admin role, which the database treats as a  *)
(* user's.                                                                   *)
(***************************************************************************)
EXTENDS Integers, Sequences, FiniteSets, Functions

CONSTANTS
    Emails,       \* the addresses
    Mailed,       \* bound: the ones codes are asked for
    Ids,          \* the names of users: a name is drawn afresh for each
    Processes,    \* who has auth.db open
    CodeLife,     \* CODE_MINUTES, in ticks
    Cooldown,     \* CODE_COOLDOWN_SECONDS
    LoginLife,    \* [auth] session-hours
    RemovalWait,  \* REMOVAL_DAYS
    CodeTries,    \* CODE_TRIES
    MaxMails,     \* bound: codes on their way at once
    MaxCrashes    \* bound: how often a process dies in an operation

ASSUME UsersAssumption ==
    /\ Cooldown \in Nat \ {0} /\ CodeLife \in Nat /\ Cooldown <= CodeLife
    /\ LoginLife \in Nat \ {0} /\ RemovalWait \in Nat \ {0}
    /\ CodeTries \in Nat \ {0}
    /\ Mailed \subseteq Emails /\ MaxMails \in Nat
    /\ MaxCrashes \in Nat

VARIABLES
    users,     \* the rows of users, by id
    codes,     \* the rows of codes, by email
    logins,    \* the rows of logins: whose, and how long it lasts yet
    doing,     \* the statements each process has left to run
    mails,     \* the codes on their way: to whom, and if it is the one stored
    held,      \* history: whose last code reached them and should still work
    data,      \* the users who have sessions or a folder
    due,       \* the removed users the deleting task has still to look at
    deleting,  \* the one whose data it deletes, and what is next: 0 or 1
    crashes    \* how often a process died so far

tables == <<users, codes, logins>>
purge == <<data, due, deleting>>
vars == <<tables, doing, mails, held, purge, crashes>>

Kept == -1  \* removed_at is NULL

Rows == [email : Emails, role : {"user", "owner"}, suspended : BOOLEAN,
         removed : {Kept} \cup 0..RemovalWait]

Idle(p) == doing[p] = <<>>

IsRemoved(id) == users[id].removed # Kept

\* The rows the guards count: an owner who can log in.
IsOwner(id) ==
    /\ users[id].role = "owner"
    /\ ~users[id].suspended
    /\ ~IsRemoved(id)

HasOwner == \E id \in DOMAIN users : IsOwner(id)

\* Mutant: the removed are counted, as before there was a removed_at.
NotTheLastRow(id) ==
    \/ users[id].suspended
    \/ \E other \in DOMAIN users \ {id} :
          users[other].role = "owner" /\ ~users[other].suspended

\* The guard of the last owner, where it lets an operation on id through.
NotTheLastOwner(id) ==
    \/ users[id].suspended
    \/ \E other \in DOMAIN users \ {id} : IsOwner(other)

IdsOf(email) == {id \in DOMAIN users : users[id].email = email}

\* An id that no row, folder or list names: twelve random characters.
Fresh ==
    {id \in Ids \ (DOMAIN users \cup data \cup due) :
        /\ \A i \in DOMAIN deleting : deleting[i].id # id
        /\ \A login \in logins : login[1] # id
        /\ \A p \in Processes : \A i \in DOMAIN doing[p] : doing[p][i].of # id}

MayHaveACode(email) == \E id \in IdsOf(email) : ~users[id].suspended

\* Whether a code went to email less than a minute ago: issued_at is read off
\* the row, so a code that is gone cools nothing.
Cooling(email) ==
    email \in DOMAIN codes /\ codes[email].left > CodeLife - Cooldown

\* Whose cookie a request carries; identify does not look at removed_at.
Identified(id) ==
    /\ id \in DOMAIN users
    /\ ~users[id].suspended
    /\ \E login \in logins : login[1] = id

-----------------------------------------------------------------------------
(* The statements of an operation. *)

Stmt(do, of, to) == [do |-> do, of |-> of, to |-> to]

InsertUser(id, email, role) ==
    Stmt("insert", id,
         [email |-> email, role |-> role, suspended |-> FALSE, removed |-> Kept])

EndEverything(id) ==
    <<Stmt("endLogins", id, 0), Stmt("dropCode", users[id].email, 0)>>

\* Mutant: a login that leaves the removal in place.
LogsInForNow(id) == <<Stmt("login", id, 0)>>

LogsIn(id) == <<Stmt("login", id, 0), Stmt("removed", id, Kept)>>

\* A new code: on its way by mail, or printed for whoever asked.
StoreCode(email, how) == <<Stmt("code", email, how)>>

\* What is left of a code tried wrong once more.
SpendWrong(email) ==
    <<Stmt(IF codes[email].tries + 1 >= CodeTries THEN "dropCode" ELSE "tried",
           email, 0)>>

Run(p, statements) ==
    /\ Idle(p)
    /\ doing' = [doing EXCEPT ![p] = statements]
    /\ UNCHANGED <<tables, mails, held, purge, crashes>>

-----------------------------------------------------------------------------
(* The operations, up to their first statement. *)

Add(p, email, role) ==
    /\ IdsOf(email) = {}
    /\ \E id \in Fresh : Run(p, <<InsertUser(id, email, role)>>)

SetRole(p, id, role) ==
    /\ users[id].role = "owner" /\ role # "owner" => NotTheLastOwner(id)
    /\ Run(p, <<Stmt("role", id, role)>>)

Suspend(p, id) ==
    /\ users[id].role = "owner" => NotTheLastOwner(id)
    /\ Run(p, <<Stmt("suspended", id, TRUE)>> \o EndEverything(id))

LetBack(p, id) == Run(p, <<Stmt("suspended", id, FALSE)>>)

Remove(p, id) ==
    /\ users[id].role = "owner" => NotTheLastOwner(id)
    /\ Run(p, EndEverything(id) \o <<Stmt("removed", id, RemovalWait)>>)

Restore(p, id) == Run(p, <<Stmt("removed", id, Kept)>>)

\* luu user code, and the code that proves new mail settings to an owner.
IssueCode(p, email) ==
    /\ MayHaveACode(email)
    /\ Run(p, StoreCode(email, "printed"))

\* POST /api/auth/code: the send is a task of its own, after the answer.
CodeToMail(p, email) ==
    /\ Cardinality(mails) < MaxMails
    /\ MayHaveACode(email) /\ ~Cooling(email)
    /\ Run(p, StoreCode(email, "mailed"))

CodeToClaim(p, email) ==
    /\ Cardinality(mails) < MaxMails
    /\ ~HasOwner /\ ~Cooling(email)
    /\ Run(p, StoreCode(email, "mailed"))

\* A code that is not the one stored, to whichever operation.
WrongCode(p, email) ==
    /\ email \in DOMAIN codes
    /\ Run(p, SpendWrong(email))

\* The code, as it was sent, by the person it was sent to.
HasCode(email) == email \in held /\ email \in DOMAIN codes

Redeem(p, email) ==
    /\ HasCode(email)
    /\ \/ \E id \in IdsOf(email) :
             /\ ~users[id].suspended
             /\ Run(p, <<Stmt("dropCode", email, 0)>> \o LogsIn(id))
       \/ /\ ~MayHaveACode(email)
          /\ Run(p, <<Stmt("dropCode", email, 0)>>)

CheckCode(p, email) ==
    /\ HasCode(email)
    /\ Run(p, <<Stmt("dropCode", email, 0)>>)

ClaimOwner(p, email) ==
    /\ ~HasOwner /\ HasCode(email)
    /\ \/ \E id \in IdsOf(email) :
             Run(p, <<Stmt("dropCode", email, 0), Stmt("owner", id, 0)>> \o LogsIn(id))
       \/ /\ IdsOf(email) = {}
          /\ \E id \in Fresh :
                Run(p, <<Stmt("dropCode", email, 0), InsertUser(id, email, "owner")>>
                           \o LogsIn(id))

\* A login a passkey proved.
LogIn(p, id) ==
    /\ ~users[id].suspended
    /\ Run(p, LogsIn(id))

\* post_logout, end_login, end_other_logins: logins of one user, which ones.
LogOut(p, id) ==
    \E ended \in SUBSET {login \in logins : login[1] = id} :
        /\ ended # {}
        /\ Idle(p)
        /\ logins' = logins \ ended
        /\ UNCHANGED <<users, codes, doing, mails, held, purge, crashes>>

-----------------------------------------------------------------------------
(* One statement.  An UPDATE or a DELETE of a row that is gone does nothing,   *)
(* and an INSERT over a key that is there ends the operation with an error.   *)

Runs(p, kinds) ==
    /\ ~Idle(p)
    /\ Head(doing[p]).do \in kinds
    /\ UNCHANGED <<purge, crashes>>

Put(id, row) == [k \in DOMAIN users \cup {id} |-> IF k = id THEN row ELSE users[k]]

Updated(id, row) == IF id \in DOMAIN users THEN Put(id, row) ELSE users

RunInsert(p) ==
    LET s == Head(doing[p]) IN
    /\ Runs(p, {"insert"})
    /\ IF IdsOf(s.to.email) = {} /\ s.of \notin DOMAIN users
         THEN users' = Put(s.of, s.to) /\ doing' = [doing EXCEPT ![p] = Tail(@)]
         ELSE users' = users /\ doing' = [doing EXCEPT ![p] = <<>>]
    /\ UNCHANGED <<codes, logins, mails, held>>

RunUpdate(p) ==
    LET s == Head(doing[p])
        new == CASE s.do = "role" -> [users[s.of] EXCEPT !.role = s.to]
                 [] s.do = "suspended" -> [users[s.of] EXCEPT !.suspended = s.to]
                 [] s.do = "removed" -> [users[s.of] EXCEPT !.removed = s.to]
                 [] s.do = "owner" ->
                      [users[s.of] EXCEPT !.role = "owner", !.suspended = FALSE]
    IN  /\ Runs(p, {"role", "suspended", "removed", "owner"})
        /\ users' = Updated(s.of, new)
        /\ doing' = [doing EXCEPT ![p] = Tail(@)]
        /\ UNCHANGED <<codes, logins, mails, held>>

RunDelete(p) ==
    /\ Runs(p, {"delete"})
    /\ users' = Restrict(users, DOMAIN users \ {Head(doing[p]).of})
    /\ doing' = [doing EXCEPT ![p] = Tail(@)]
    /\ UNCHANGED <<codes, logins, mails, held>>

RunLogins(p) ==
    LET s == Head(doing[p]) IN
    /\ Runs(p, {"login", "endLogins"})
    /\ logins' = IF s.do = "login" THEN logins \cup {<<s.of, LoginLife>>}
                 ELSE {login \in logins : login[1] # s.of}
    /\ doing' = [doing EXCEPT ![p] = Tail(@)]
    /\ UNCHANGED <<users, codes, mails, held>>

\* A code is stored over the one before, tries and minute with it; the mail of
\* the one before is on its way all the same.
RunCode(p) ==
    LET s == Head(doing[p])
        row == [left |-> CodeLife, tries |-> 0]
    IN  /\ Runs(p, {"code"})
        /\ codes' = [e \in DOMAIN codes \cup {s.of} |-> IF e = s.of THEN row ELSE codes[e]]
        /\ mails' = {<<m[1], m[2] /\ m[1] # s.of>> : m \in mails}
                        \cup (IF s.to = "mailed" THEN {<<s.of, TRUE>>} ELSE {})
        /\ held' = IF s.to = "mailed" THEN held \ {s.of} ELSE held \cup {s.of}
        /\ doing' = [doing EXCEPT ![p] = Tail(@)]
        /\ UNCHANGED <<users, logins>>

\* Spent, burnt, or ended with the user's logins.
RunSpend(p) ==
    LET s == Head(doing[p]) IN
    /\ Runs(p, {"dropCode", "tried"})
    /\ codes' = IF s.do = "dropCode" THEN Restrict(codes, DOMAIN codes \ {s.of})
                ELSE [e \in DOMAIN codes |->
                        IF e = s.of THEN [codes[e] EXCEPT !.tries = @ + 1] ELSE codes[e]]
    /\ held' = IF s.do = "dropCode" THEN held \ {s.of} ELSE held
    /\ doing' = [doing EXCEPT ![p] = Tail(@)]
    /\ UNCHANGED <<users, logins, mails>>

-----------------------------------------------------------------------------
(* The mails, the deleting task, time, and a process that dies. *)

MailArrives(m) ==
    /\ mails' = mails \ {m}
    /\ held' = IF m[2] /\ m[1] \in DOMAIN codes THEN held \cup {m[1]} ELSE held
    /\ UNCHANGED <<tables, doing, purge, crashes>>

\* A send that failed: forget_code, by address.
MailFails(p, m) ==
    /\ Idle(p)
    /\ mails' = mails \ {m}
    /\ codes' = Restrict(codes, DOMAIN codes \ {m[1]})
    /\ UNCHANGED <<users, logins, doing, held, purge, crashes>>

\* A request of somebody logged in: a session of theirs, in their folder.
Work(p, id) ==
    /\ Idle(p) /\ Identified(id)
    /\ data' = data \cup {id}
    /\ UNCHANGED <<tables, doing, mails, held, due, deleting, crashes>>

\* The hourly tick: who is due.
Due(p) ==
    /\ Idle(p) /\ due = {} /\ deleting = <<>>
    /\ due' = {id \in DOMAIN users : users[id].removed = 0}
    /\ due' # {}
    /\ UNCHANGED <<tables, doing, mails, held, data, deleting, crashes>>

\* purge_user asks again whether they are removed.
AskAgain(p, id) ==
    /\ Idle(p) /\ deleting = <<>>
    /\ due' = due \ {id}
    /\ deleting' = IF id \in DOMAIN users /\ IsRemoved(id)
                   THEN <<[id |-> id, next |-> "data"]>> ELSE <<>>
    /\ UNCHANGED <<tables, doing, mails, held, data, crashes>>

\* Their live sessions, their stored ones and their folder.
DeleteData ==
    /\ deleting # <<>> /\ Head(deleting).next = "data"
    /\ data' = data \ {Head(deleting).id}
    /\ deleting' = <<[Head(deleting) EXCEPT !.next = "row"]>>
    /\ UNCHANGED <<tables, doing, mails, held, due, crashes>>

\* Mutant: the row of whoever was due.
PurgeTheDue(id) ==
    IF id \in DOMAIN users
    THEN EndEverything(id) \o <<Stmt("delete", id, 0)>> ELSE <<>>

\* Users::purge: the row, if they are still removed.
Purge(id) ==
    IF id \in DOMAIN users /\ IsRemoved(id)
    THEN EndEverything(id) \o <<Stmt("delete", id, 0)>> ELSE <<>>

DeleteRow(p) ==
    /\ Idle(p) /\ deleting # <<>> /\ Head(deleting).next = "row"
    /\ doing' = [doing EXCEPT ![p] = Purge(Head(deleting).id)]
    /\ deleting' = <<>>
    /\ UNCHANGED <<tables, mails, held, data, due, crashes>>

\* The store or the folder could not be written: the task goes on to the next.
DeleteFails ==
    /\ deleting # <<>>
    /\ deleting' = <<>>
    /\ UNCHANGED <<tables, doing, mails, held, data, due, crashes>>

Tick ==
    /\ \A p \in Processes : Idle(p)
    /\ codes' = [e \in {k \in DOMAIN codes : codes[k].left > 1} |->
                    [codes[e] EXCEPT !.left = @ - 1]]
    /\ logins' = {<<login[1], login[2] - 1>> :
                    login \in {l \in logins : l[2] > 1}}
    /\ users' = [id \in DOMAIN users |->
                    [users[id] EXCEPT !.removed = IF @ > 0 THEN @ - 1 ELSE @]]
    /\ held' = held \cap DOMAIN codes'
    /\ UNCHANGED <<doing, mails, purge, crashes>>

Crash(p) ==
    /\ ~Idle(p) /\ crashes < MaxCrashes
    /\ crashes' = crashes + 1
    /\ doing' = [doing EXCEPT ![p] = <<>>]
    /\ mails' = {} /\ due' = {} /\ deleting' = <<>>
    /\ UNCHANGED <<tables, held, data>>

-----------------------------------------------------------------------------
Init ==
    /\ users = <<>> /\ codes = <<>> /\ logins = {}
    /\ doing = [p \in Processes |-> <<>>]
    /\ mails = {} /\ held = {} /\ data = {}
    /\ due = {} /\ deleting = <<>>
    /\ crashes = 0

OfAUser(p) ==
    \E id \in DOMAIN users :
        \/ \E role \in {"user", "owner"} : SetRole(p, id, role)
        \/ Suspend(p, id) \/ LetBack(p, id)
        \/ Remove(p, id) \/ Restore(p, id)
        \/ LogIn(p, id) \/ LogOut(p, id) \/ Work(p, id)

OfAnAddress(p) ==
    \/ \E email \in Emails, role \in {"user", "owner"} : Add(p, email, role)
    \/ \E email \in Mailed :
        \/ IssueCode(p, email) \/ CodeToMail(p, email) \/ CodeToClaim(p, email)
        \/ WrongCode(p, email) \/ Redeem(p, email) \/ CheckCode(p, email)
        \/ ClaimOwner(p, email)

RunStatement(p) ==
    \/ RunInsert(p) \/ RunUpdate(p) \/ RunDelete(p)
    \/ RunLogins(p) \/ RunCode(p) \/ RunSpend(p)

Deletes(p) ==
    \/ Due(p) \/ (\E id \in due : AskAgain(p, id))
    \/ DeleteData \/ DeleteRow(p)

Next ==
    \/ \E p \in Processes :
          \/ OfAUser(p) \/ OfAnAddress(p) \/ RunStatement(p) \/ Deletes(p)
          \/ Crash(p)
          \/ \E m \in mails : MailFails(p, m)
    \/ DeleteFails
    \/ \E m \in mails : MailArrives(m)
    \/ Tick

Spec == Init /\ [][Next]_vars

-----------------------------------------------------------------------------
(* Properties *)

\* A server that has had an owner who can log in always has one, whatever is
\* demoted, suspended, removed, restored or claimed: set_role, set_suspended
\* and remove.
AnOwnerStays == [][HasOwner => HasOwner']_vars

\* Between two operations, none of which was cut off, nobody suspended or removed has a login: suspending
\* and removing end them, no login is given to the suspended, and one given to
\* the removed keeps them (set_suspended, remove, redeem, log_in, claim_owner).
\* identify does not ask whether a user is removed: this is why it need not.
TheOutHaveNoLogin ==
    crashes = 0 /\ (\A p \in Processes : Idle(p)) =>
        \A login \in logins :
            /\ login[1] \in DOMAIN users
            /\ ~users[login[1]].suspended
            /\ ~IsRemoved(login[1])

\* Only a removed user's account is deleted: whoever logged in or was restored
\* since the task read its list keeps theirs (purge_user, Users::purge).
KeptAreKept == [][\A id \in DOMAIN users \ DOMAIN users' : IsRemoved(id)]_vars
=============================================================================
