----------------------------- MODULE UsersProofs -----------------------------
(***************************************************************************)
(* While one process has auth.db open, whatever the addresses, the waits and  *)
(* the crashes: a server that has an owner who can log in keeps one, only a    *)
(* removed user's account is deleted, and, until an operation is cut off,      *)
(* nobody suspended or removed has a login between two of them.               *)
(*                                                                         *)
(* The guards are asked when an operation starts, and the rows change at its  *)
(* last statements.  What holds in between is Inv: a statement that may take   *)
(* an owner away is behind statements that touch no user, and somebody else    *)
(* owns the server until it runs; and Settled: what is left to run ends the    *)
(* logins of whoever is out, or lets in whoever has one.                      *)
(***************************************************************************)
EXTENDS Users, SequenceTheorems, TLAPS

Statements ==
    [do : {"insert", "role", "suspended", "removed", "owner", "delete", "login",
           "endLogins", "code", "dropCode", "tried"},
     of : Ids \cup Emails,
     to : Rows \cup {"user", "owner", "mailed", "printed"} \cup BOOLEAN
            \cup {Kept} \cup 0..RemovalWait]

\* What an UPDATE or an INSERT of users writes is of its column.
Typed(s) ==
    /\ s.do \in {"insert", "role", "suspended", "removed", "owner", "delete"} => s.of \in Ids
    /\ s.do = "insert" => s.to \in Rows
    /\ s.do = "role" => s.to \in {"user", "owner"}
    /\ s.do = "suspended" => s.to \in BOOLEAN
    /\ s.do = "removed" => s.to \in {Kept} \cup 0..RemovalWait

\* The statements that may take an owner away.
Harms(s) ==
    \/ s.do = "role" /\ s.to # "owner"
    \/ s.do = "suspended" /\ s.to # FALSE
    \/ s.do = "removed" /\ s.to # Kept
    \/ s.do = "delete"

\* The ones that touch no user.
Quiet(s) == s.do \in {"endLogins", "dropCode"}

OthersOwn(id) == \E other \in DOMAIN users \ {id} : IsOwner(other)

Guarded(s) ==
    /\ Harms(s) /\ HasOwner => OthersOwn(s.of)
    /\ s.do = "delete" /\ s.of \in DOMAIN users => IsRemoved(s.of)

Safe(program) ==
    \A i \in 1..Len(program) :
        /\ Typed(program[i])
        /\ Guarded(program[i])
        /\ Harms(program[i]) => \A k \in 1..(i - 1) : Quiet(program[k])

Types ==
    /\ DOMAIN users \subseteq Ids
    /\ users \in [DOMAIN users -> Rows]
    /\ doing \in [Processes -> Seq(Statements)]

Inv == Types /\ \A p \in Processes : Safe(doing[p])

OneProcess == \A p, q \in Processes : p = q

(***************************************************************************)
(* The programs the operations start.                                       *)
(***************************************************************************)
\* The guard of the last owner leaves another one, whoever it is asked about.
LEMMA GuardLeavesAnOwner ==
    ASSUME NEW id \in DOMAIN users, HasOwner,
           users[id].role = "owner" => NotTheLastOwner(id)
    PROVE  OthersOwn(id)
<1>1. PICK owner \in DOMAIN users : IsOwner(owner)
    BY DEF HasOwner
<1>2. CASE owner # id
    BY <1>1, <1>2 DEF OthersOwn
<1>3. CASE owner = id
    BY <1>1, <1>3 DEF OthersOwn, IsOwner, NotTheLastOwner
<1> QED
    BY <1>2, <1>3

LEMMA MakesOfCodes ==
    ASSUME UsersAssumption, NEW email \in Emails
    PROVE  /\ \A do \in {"dropCode", "tried"} :
                /\ Stmt(do, email, 0) \in Statements
                /\ Typed(Stmt(do, email, 0))
                /\ ~Harms(Stmt(do, email, 0))
           /\ \A how \in {"mailed", "printed"} :
                /\ Stmt("code", email, how) \in Statements
                /\ Typed(Stmt("code", email, how))
                /\ ~Harms(Stmt("code", email, how))
<1>1. 0 \in 0..RemovalWait
    BY DEF UsersAssumption
<1> QED
    BY <1>1 DEF Stmt, Statements, Typed, Harms

LEMMA OneStatement ==
    ASSUME NEW a \in Statements, Typed(a), Guarded(a)
    PROVE  <<a>> \in Seq(Statements) /\ Safe(<<a>>)
BY DEF Safe

LEMMA TwoStatements ==
    ASSUME NEW a \in Statements, NEW b \in Statements,
           Typed(a), Typed(b), Guarded(a), ~Harms(b)
    PROVE  <<a, b>> \in Seq(Statements) /\ Safe(<<a, b>>)
<1>1. <<a, b>> \in Seq(Statements)
    OBVIOUS
<1>2. Guarded(b)
    BY DEF Guarded, Harms
<1> DEFINE s == <<a, b>>
<1>3. Len(s) = 2 /\ s[1] = a /\ s[2] = b
    OBVIOUS
<1> HIDE DEF s
<1>4. Safe(s)
    BY <1>2, <1>3 DEF Safe
<1> QED
    BY <1>1, <1>4 DEF s

\* A program before another: what harms in the second is behind quiet ones.
LEMMA Joined ==
    ASSUME NEW s \in Seq(Statements), NEW t \in Seq(Statements), Safe(s), Safe(t),
           \/ \A i \in 1..Len(t) : ~Harms(t[i])
           \/ \A i \in 1..Len(s) : Quiet(s[i])
    PROVE  s \o t \in Seq(Statements) /\ Safe(s \o t)
<1> DEFINE u == s \o t
<1>1. /\ u \in Seq(Statements)
      /\ Len(u) = Len(s) + Len(t)
      /\ \A i \in 1..Len(u) : u[i] = IF i <= Len(s) THEN s[i] ELSE t[i - Len(s)]
    BY ConcatProperties
<1>2. Len(s) \in Nat /\ Len(t) \in Nat
    OBVIOUS
<1> HIDE DEF u
<1>3. ASSUME NEW i \in 1..Len(u)
      PROVE  /\ Typed(u[i]) /\ Guarded(u[i])
             /\ Harms(u[i]) => \A k \in 1..(i - 1) : Quiet(u[k])
    <2>1. CASE i <= Len(s)
        <3>1. i \in 1..Len(s) /\ u[i] = s[i] /\ \A k \in 1..(i - 1) : u[k] = s[k]
            BY <1>1, <1>2, <2>1
        <3> QED
            BY <3>1 DEF Safe
    <2>2. CASE i > Len(s)
        <3>1. i - Len(s) \in 1..Len(t) /\ u[i] = t[i - Len(s)]
            BY <1>1, <1>2, <2>2
        <3>2. Typed(u[i]) /\ Guarded(u[i])
            BY <3>1 DEF Safe
        <3>3. ASSUME Harms(u[i]), NEW k \in 1..(i - 1)
              PROVE  Quiet(u[k])
            <4>1. CASE k <= Len(s)
                BY <1>1, <1>2, <3>1, <3>3, <4>1
            <4>2. CASE k > Len(s)
                <5>1. k - Len(s) \in 1..(i - Len(s) - 1) /\ u[k] = t[k - Len(s)]
                    BY <1>1, <1>2, <3>1, <4>2
                <5> QED
                    BY <3>1, <3>3, <5>1 DEF Safe
            <4> QED
                BY <1>2, <4>1, <4>2
        <3> QED
            BY <3>2, <3>3
    <2> QED
        BY <1>2, <2>1, <2>2
<1>4. Safe(u)
    BY <1>3 DEF Safe
<1> QED
    BY <1>1, <1>4 DEF u

\* The statements the operations are made of.
LEMMA Makes ==
    ASSUME UsersAssumption, NEW id \in Ids, NEW email \in Emails
    PROVE  /\ \A role \in {"user", "owner"} :
                /\ Stmt("role", id, role) \in Statements
                /\ Typed(Stmt("role", id, role))
                /\ InsertUser(id, email, role) \in Statements
                /\ Typed(InsertUser(id, email, role))
           /\ \A to \in BOOLEAN : /\ Stmt("suspended", id, to) \in Statements
                                  /\ Typed(Stmt("suspended", id, to))
           /\ \A to \in {Kept} \cup 0..RemovalWait :
                /\ Stmt("removed", id, to) \in Statements
                /\ Typed(Stmt("removed", id, to))
           /\ \A do \in {"owner", "delete", "login", "endLogins"} :
                /\ Stmt(do, id, 0) \in Statements
                /\ Typed(Stmt(do, id, 0))
<1>1. 0 \in 0..RemovalWait
    BY DEF UsersAssumption
<1>2. \A role \in {"user", "owner"} :
        [email |-> email, role |-> role, suspended |-> FALSE, removed |-> Kept] \in Rows
    BY DEF Rows
<1>3. \A role \in {"user", "owner"} :
        /\ InsertUser(id, email, role) \in Statements
        /\ Typed(InsertUser(id, email, role))
    BY <1>2 DEF InsertUser, Stmt, Statements, Typed
<1> QED
    BY <1>1, <1>3 DEF Stmt, Statements, Typed

LEMMA TheHarmlessAreGuarded ==
    ASSUME NEW s, ~Harms(s)
    PROVE  Guarded(s)
BY DEF Guarded, Harms

LEMMA RowsOf ==
    ASSUME Types, NEW id \in DOMAIN users
    PROVE  id \in Ids /\ users[id] \in Rows /\ users[id].email \in Emails
BY DEF Types, Rows

LEMMA Ending ==
    ASSUME UsersAssumption, Types, NEW id \in DOMAIN users
    PROVE  /\ EndEverything(id) \in Seq(Statements)
           /\ Safe(EndEverything(id))
           /\ \A i \in 1..Len(EndEverything(id)) : Quiet(EndEverything(id)[i])
<1> DEFINE a == Stmt("endLogins", id, 0)
           b == Stmt("dropCode", users[id].email, 0)
<1>1. a \in Statements /\ b \in Statements /\ Typed(a) /\ Typed(b)
    BY RowsOf, Makes, MakesOfCodes
<1>2. Quiet(a) /\ Quiet(b) /\ ~Harms(a) /\ ~Harms(b)
    BY DEF Stmt, Quiet, Harms
<1>3. EndEverything(id) = <<a, b>>
    BY DEF EndEverything
<1> HIDE DEF a, b
<1> QED
    BY <1>1, <1>2, <1>3, TwoStatements, TheHarmlessAreGuarded

LEMMA Logging ==
    ASSUME UsersAssumption, NEW id \in Ids, NEW email \in Emails
    PROVE  /\ LogsIn(id) \in Seq(Statements)
           /\ Safe(LogsIn(id))
           /\ \A i \in 1..Len(LogsIn(id)) : ~Harms(LogsIn(id)[i])
<1> DEFINE a == Stmt("login", id, 0)
           b == Stmt("removed", id, Kept)
<1>1. a \in Statements /\ b \in Statements /\ Typed(a) /\ Typed(b)
    BY Makes
<1>2. ~Harms(a) /\ ~Harms(b)
    BY DEF Stmt, Harms
<1>3. LogsIn(id) = <<a, b>>
    BY DEF LogsIn
<1> HIDE DEF a, b
<1> QED
    BY <1>1, <1>2, <1>3, TwoStatements, TheHarmlessAreGuarded

LEMMA Begun ==
    ASSUME Inv, NEW p \in Processes, NEW program \in Seq(Statements), Safe(program),
           users' = users, doing' = [doing EXCEPT ![p] = program]
    PROVE  Inv'
<1>1. Types'
    BY DEF Inv, Types
<1>2. \A s : Guarded(s)' = Guarded(s)
    BY DEF Guarded, HasOwner, OthersOwn, IsOwner, IsRemoved
<1>3. ASSUME NEW q \in Processes
      PROVE  Safe(doing[q])'
    <2>1. doing'[q] = IF q = p THEN program ELSE doing[q]
        BY DEF Inv, Types
    <2>2. Safe(doing'[q])
        BY <2>1 DEF Inv
    <2> QED
        BY <1>2, <2>2 DEF Safe, Typed, Harms, Quiet
<1> QED
    BY <1>1, <1>3 DEF Inv

LEMMA Undisturbed ==
    ASSUME Inv, users' = users, doing' = doing
    PROVE  Inv'
<1>1. Types'
    BY DEF Inv, Types
<1>2. \A s : Guarded(s)' = Guarded(s)
    BY DEF Guarded, HasOwner, OthersOwn, IsOwner, IsRemoved
<1>3. ASSUME NEW q \in Processes
      PROVE  Safe(doing[q])'
    BY <1>2 DEF Inv, Safe, Typed, Harms, Quiet
<1> QED
    BY <1>1, <1>3 DEF Inv

(***************************************************************************)
(* Each operation starts a safe program.                                    *)
(***************************************************************************)
LEMMA ChangesOfAUser ==
    ASSUME UsersAssumption, Inv, NEW p \in Processes, NEW id \in DOMAIN users
    PROVE  /\ \A role \in {"user", "owner"} : SetRole(p, id, role) => Inv'
           /\ Suspend(p, id) \/ LetBack(p, id) => Inv'
           /\ Remove(p, id) \/ Restore(p, id) => Inv'
           /\ LogIn(p, id) => Inv'
<1>1. id \in Ids /\ Types
    BY RowsOf DEF Inv
<1>2. ASSUME NEW role \in {"user", "owner"}, SetRole(p, id, role)
      PROVE  Inv'
    <2> DEFINE a == Stmt("role", id, role)
    <2>1. a \in Statements /\ Typed(a)
        BY <1>1, Makes, RowsOf
    <2>2. a.do = "role" /\ a.of = id /\ a.to = role
        BY DEF Stmt
    <2>3. Guarded(a)
        BY <1>2, <2>2, GuardLeavesAnOwner DEF Guarded, Harms, SetRole, HasOwner, OthersOwn, IsOwner
    <2>4. users' = users /\ doing' = [doing EXCEPT ![p] = <<a>>]
        BY <1>2 DEF SetRole, Run, tables
    <2> HIDE DEF a
    <2> QED
        BY <2>1, <2>3, <2>4, OneStatement, Begun
<1>3. ASSUME Suspend(p, id)
      PROVE  Inv'
    <2> DEFINE a == Stmt("suspended", id, TRUE)
    <2>1. a \in Statements /\ Typed(a)
        BY <1>1, Makes, RowsOf
    <2>2. a.do = "suspended" /\ a.of = id /\ a.to = TRUE
        BY DEF Stmt
    <2>3. Guarded(a)
        BY <1>3, <2>2, GuardLeavesAnOwner DEF Guarded, Harms, Suspend, HasOwner, OthersOwn, IsOwner
    <2>4. users' = users /\ doing' = [doing EXCEPT ![p] = <<a>> \o EndEverything(id)]
        BY <1>3 DEF Suspend, Run, tables
    <2> HIDE DEF a
    <2>5. <<a>> \in Seq(Statements) /\ Safe(<<a>>)
        BY <2>1, <2>3, OneStatement
    <2>6. \A i \in 1..Len(EndEverything(id)) : ~Harms(EndEverything(id)[i])
        BY <1>1, Ending DEF Quiet, Harms
    <2>7. <<a>> \o EndEverything(id) \in Seq(Statements) /\ Safe(<<a>> \o EndEverything(id))
        BY <1>1, <2>5, <2>6, Ending, Joined
    <2> QED
        BY <2>4, <2>7, Begun
<1>4. ASSUME LetBack(p, id)
      PROVE  Inv'
    <2> DEFINE a == Stmt("suspended", id, FALSE)
    <2>1. a \in Statements /\ Typed(a)
        BY <1>1, Makes, RowsOf
    <2>2. ~Harms(a)
        BY DEF Stmt, Harms
    <2>3. users' = users /\ doing' = [doing EXCEPT ![p] = <<a>>]
        BY <1>4 DEF LetBack, Run, tables
    <2> HIDE DEF a
    <2> QED
        BY <2>1, <2>2, <2>3, OneStatement, TheHarmlessAreGuarded, Begun
<1>5. ASSUME Remove(p, id)
      PROVE  Inv'
    <2> DEFINE a == Stmt("removed", id, RemovalWait)
    <2>1. a \in Statements /\ Typed(a)
        <3>1. RemovalWait \in {Kept} \cup 0..RemovalWait
            BY DEF UsersAssumption
        <3> QED
            BY <1>1, <3>1, Makes, RowsOf
    <2>2. a.do = "removed" /\ a.of = id
        BY DEF Stmt
    <2>3. Guarded(a)
        BY <1>5, <2>2, GuardLeavesAnOwner DEF Guarded, Remove, HasOwner, OthersOwn, IsOwner
    <2>4. users' = users /\ doing' = [doing EXCEPT ![p] = EndEverything(id) \o <<a>>]
        BY <1>5 DEF Remove, Run, tables
    <2> HIDE DEF a
    <2>5. <<a>> \in Seq(Statements) /\ Safe(<<a>>)
        BY <2>1, <2>3, OneStatement
    <2>6. EndEverything(id) \o <<a>> \in Seq(Statements) /\ Safe(EndEverything(id) \o <<a>>)
        BY <1>1, <2>5, Ending, Joined
    <2> QED
        BY <2>4, <2>6, Begun
<1>6. ASSUME Restore(p, id)
      PROVE  Inv'
    <2> DEFINE a == Stmt("removed", id, Kept)
    <2>1. a \in Statements /\ Typed(a)
        BY <1>1, Makes, RowsOf
    <2>2. ~Harms(a)
        BY DEF Stmt, Harms
    <2>3. users' = users /\ doing' = [doing EXCEPT ![p] = <<a>>]
        BY <1>6 DEF Restore, Run, tables
    <2> HIDE DEF a
    <2> QED
        BY <2>1, <2>2, <2>3, OneStatement, TheHarmlessAreGuarded, Begun
<1>7. ASSUME LogIn(p, id)
      PROVE  Inv'
    <2>1. users' = users /\ doing' = [doing EXCEPT ![p] = LogsIn(id)]
        BY <1>7 DEF LogIn, Run, tables
    <2> QED
        BY <1>1, <2>1, RowsOf, Logging, Begun
<1> QED
    BY <1>2, <1>3, <1>4, <1>5, <1>6, <1>7

\* A program of one statement that harms nobody.
LEMMA OneHarmless ==
    ASSUME Inv, NEW p \in Processes, NEW a \in Statements, Typed(a), ~Harms(a), Run(p, <<a>>)
    PROVE  Inv'
<1>1. users' = users /\ doing' = [doing EXCEPT ![p] = <<a>>]
    BY DEF Run, tables
<1> QED
    BY <1>1, OneStatement, TheHarmlessAreGuarded, Begun

LEMMA ChangesOfACode ==
    ASSUME UsersAssumption, Inv, NEW p \in Processes, NEW email \in Emails
    PROVE  /\ IssueCode(p, email) \/ CodeToMail(p, email) \/ CodeToClaim(p, email) => Inv'
           /\ WrongCode(p, email) \/ CheckCode(p, email) => Inv'
<1> DEFINE code(how) == Stmt("code", email, how)
           spent(do) == Stmt(do, email, 0)
<1>1. \A how \in {"mailed", "printed"} :
        code(how) \in Statements /\ Typed(code(how)) /\ ~Harms(code(how))
    BY MakesOfCodes
<1>2. \A do \in {"dropCode", "tried"} :
        spent(do) \in Statements /\ Typed(spent(do)) /\ ~Harms(spent(do))
    BY MakesOfCodes
<1>3. \A how \in {"mailed", "printed"} : Run(p, StoreCode(email, how)) => Run(p, <<code(how)>>)
    BY DEF StoreCode
<1>4. Run(p, SpendWrong(email)) =>
        Run(p, <<spent("dropCode")>>) \/ Run(p, <<spent("tried")>>)
    BY DEF SpendWrong
<1>5. CheckCode(p, email) => Run(p, <<spent("dropCode")>>)
    BY DEF CheckCode
<1> HIDE DEF code, spent
<1> QED
    BY <1>1, <1>2, <1>3, <1>4, <1>5, OneHarmless
       DEF IssueCode, CodeToMail, CodeToClaim, WrongCode

LEMMA NewUsers ==
    ASSUME UsersAssumption, Inv, NEW p \in Processes, NEW email \in Emails,
           NEW role \in {"user", "owner"}, Add(p, email, role)
    PROVE  Inv'
<1>1. PICK id \in Fresh : Run(p, <<InsertUser(id, email, role)>>)
    BY DEF Add
<1>2. id \in Ids
    BY DEF Fresh
<1>3. InsertUser(id, email, role) \in Statements /\ Typed(InsertUser(id, email, role))
    BY <1>2, Makes
<1>4. ~Harms(InsertUser(id, email, role))
    BY DEF InsertUser, Stmt, Harms
<1> QED
    BY <1>1, <1>3, <1>4, OneHarmless

\* A program that spends a code and then logs somebody in.
LEMMA SpendsAndLogsIn ==
    ASSUME UsersAssumption, Inv, NEW p \in Processes, NEW email \in Emails, NEW id \in Ids,
           NEW b \in Statements, Typed(b), ~Harms(b),
           \/ Run(p, <<Stmt("dropCode", email, 0)>> \o LogsIn(id))
           \/ Run(p, <<Stmt("dropCode", email, 0), b>> \o LogsIn(id))
    PROVE  Inv'
<1> DEFINE a == Stmt("dropCode", email, 0)
<1>1. a \in Statements /\ Typed(a) /\ ~Harms(a)
    BY MakesOfCodes
<1>2. /\ users' = users
      /\ \/ doing' = [doing EXCEPT ![p] = <<a>> \o LogsIn(id)]
         \/ doing' = [doing EXCEPT ![p] = <<a, b>> \o LogsIn(id)]
    BY DEF Run, tables
<1> HIDE DEF a
<1>3. <<a>> \in Seq(Statements) /\ Safe(<<a>>)
    BY <1>1, OneStatement, TheHarmlessAreGuarded
<1>4. <<a, b>> \in Seq(Statements) /\ Safe(<<a, b>>)
    BY <1>1, TwoStatements, TheHarmlessAreGuarded
<1>5. /\ <<a>> \o LogsIn(id) \in Seq(Statements) /\ Safe(<<a>> \o LogsIn(id))
      /\ <<a, b>> \o LogsIn(id) \in Seq(Statements) /\ Safe(<<a, b>> \o LogsIn(id))
    BY <1>3, <1>4, Logging, Joined
<1> QED
    BY <1>2, <1>5, Begun

LEMMA CodesForLogins ==
    ASSUME UsersAssumption, Inv, NEW p \in Processes, NEW email \in Emails
    PROVE  Redeem(p, email) \/ ClaimOwner(p, email) => Inv'
<1>1. ASSUME NEW id \in IdsOf(email)
      PROVE  id \in Ids
    BY DEF Inv, Types, IdsOf
<1>2. ASSUME Redeem(p, email)
      PROVE  Inv'
    <2>1. CASE Run(p, <<Stmt("dropCode", email, 0)>>)
        BY <2>1, MakesOfCodes, OneHarmless
    <2>2. CASE \E id \in IdsOf(email) : Run(p, <<Stmt("dropCode", email, 0)>> \o LogsIn(id))
        <3>1. PICK id \in IdsOf(email) : Run(p, <<Stmt("dropCode", email, 0)>> \o LogsIn(id))
            BY <2>2
        <3>2. Stmt("owner", id, 0) \in Statements /\ Typed(Stmt("owner", id, 0))
            BY <1>1, Makes
        <3>3. ~Harms(Stmt("owner", id, 0))
            BY DEF Stmt, Harms
        <3> QED
            BY <1>1, <3>1, <3>2, <3>3, SpendsAndLogsIn
    <2> QED
        BY <1>2, <2>1, <2>2 DEF Redeem
<1>3. ASSUME ClaimOwner(p, email)
      PROVE  Inv'
    <2>1. CASE \E id \in IdsOf(email) :
                 Run(p, <<Stmt("dropCode", email, 0), Stmt("owner", id, 0)>> \o LogsIn(id))
        <3>1. PICK id \in IdsOf(email) :
                Run(p, <<Stmt("dropCode", email, 0), Stmt("owner", id, 0)>> \o LogsIn(id))
            BY <2>1
        <3>2. Stmt("owner", id, 0) \in Statements /\ Typed(Stmt("owner", id, 0))
            BY <1>1, Makes
        <3>3. ~Harms(Stmt("owner", id, 0))
            BY DEF Stmt, Harms
        <3> QED
            BY <1>1, <3>1, <3>2, <3>3, SpendsAndLogsIn
    <2>2. CASE \E id \in Fresh :
                 Run(p, <<Stmt("dropCode", email, 0), InsertUser(id, email, "owner")>>
                          \o LogsIn(id))
        <3>1. PICK id \in Fresh :
                Run(p, <<Stmt("dropCode", email, 0), InsertUser(id, email, "owner")>>
                         \o LogsIn(id))
            BY <2>2
        <3>2. id \in Ids
            BY DEF Fresh
        <3>3. /\ InsertUser(id, email, "owner") \in Statements
              /\ Typed(InsertUser(id, email, "owner"))
            BY <3>2, Makes
        <3>4. ~Harms(InsertUser(id, email, "owner"))
            BY DEF InsertUser, Stmt, Harms
        <3> QED
            BY <3>1, <3>2, <3>3, <3>4, SpendsAndLogsIn
    <2> QED
        BY <1>3, <2>1, <2>2 DEF ClaimOwner
<1> QED
    BY <1>2, <1>3

LEMMA DeletingARow ==
    ASSUME UsersAssumption, Inv, NEW p \in Processes, DeleteRow(p)
    PROVE  Inv'
<1> DEFINE id == Head(deleting).id
<1>1. users' = users /\ doing' = [doing EXCEPT ![p] = Purge(id)]
    BY DEF DeleteRow, tables
<1> HIDE DEF id
<1>2. CASE id \in DOMAIN users /\ IsRemoved(id)
    <2> DEFINE a == Stmt("delete", id, 0)
    <2>1. id \in Ids
        BY <1>2, RowsOf DEF Inv
    <2>2. a \in Statements /\ Typed(a)
        BY <1>2, <2>1, Makes, RowsOf DEF Inv
    <2>3. a.do = "delete" /\ a.of = id
        BY DEF Stmt
    <2>4. Guarded(a)
        BY <1>2, <2>3 DEF Guarded, OthersOwn, HasOwner, IsOwner
    <2>5. Purge(id) = EndEverything(id) \o <<a>>
        BY <1>2 DEF Purge
    <2> HIDE DEF a
    <2>6. <<a>> \in Seq(Statements) /\ Safe(<<a>>)
        BY <2>2, <2>4, OneStatement
    <2>7. Purge(id) \in Seq(Statements) /\ Safe(Purge(id))
        BY <1>2, <2>5, <2>6, Ending, Joined DEF Inv
    <2> QED
        BY <1>1, <2>7, Begun
<1>3. CASE ~(id \in DOMAIN users /\ IsRemoved(id))
    <2>1. Purge(id) = <<>>
        BY <1>3 DEF Purge
    <2>2. <<>> \in Seq(Statements) /\ Safe(<<>>)
        BY DEF Safe
    <2> QED
        BY <1>1, <2>1, <2>2, Begun
<1> QED
    BY <1>2, <1>3

(***************************************************************************)
(* The statements.                                                          *)
(***************************************************************************)
LEMMA TheHead ==
    ASSUME Inv, NEW p \in Processes, ~Idle(p)
    PROVE  /\ Head(doing[p]) \in Statements
           /\ Typed(Head(doing[p])) /\ Guarded(Head(doing[p]))
           /\ Tail(doing[p]) \in Seq(Statements)
           /\ Safe(Tail(doing[p]))
           /\ ~Quiet(Head(doing[p])) =>
                \A i \in 1..Len(Tail(doing[p])) : ~Harms(Tail(doing[p])[i])
<1> DEFINE s == doing[p]
<1>1. s \in Seq(Statements) /\ s # <<>> /\ Safe(s)
    BY DEF Inv, Types, Idle
<1> HIDE DEF s
<1>2. /\ Head(s) \in Statements /\ Head(s) = s[1] /\ 1 \in 1..Len(s)
      /\ Tail(s) \in Seq(Statements)
      /\ Len(s) \in Nat /\ Len(Tail(s)) = Len(s) - 1
      /\ \A i \in 1..Len(Tail(s)) : Tail(s)[i] = s[i + 1]
    BY <1>1, HeadTailProperties
<1>3. Typed(Head(s)) /\ Guarded(Head(s))
    BY <1>1, <1>2 DEF Safe
<1>4. ASSUME NEW i \in 1..Len(Tail(s))
      PROVE  /\ Typed(Tail(s)[i]) /\ Guarded(Tail(s)[i])
             /\ Harms(Tail(s)[i]) =>
                  Quiet(Head(s)) /\ \A k \in 1..(i - 1) : Quiet(Tail(s)[k])
    <2>1. i + 1 \in 1..Len(s) /\ 1 \in 1..(i + 1 - 1) /\ Tail(s)[i] = s[i + 1]
        BY <1>2
    <2>2. ASSUME NEW k \in 1..(i - 1)
          PROVE  k + 1 \in 1..(i + 1 - 1) /\ Tail(s)[k] = s[k + 1]
        BY <1>2
    <2> QED
        BY <1>1, <1>2, <2>1, <2>2 DEF Safe
<1>5. Safe(Tail(s))
    BY <1>4 DEF Safe
<1> QED
    BY <1>2, <1>3, <1>4, <1>5 DEF s

LEMMA Advances ==
    ASSUME OneProcess, Inv, NEW p \in Processes, ~Idle(p), Types',
           doing' = [doing EXCEPT ![p] = Tail(@)],
           users' = users \/ ~Quiet(Head(doing[p]))
    PROVE  Inv'
<1> DEFINE t == Tail(doing[p])
<1>1. doing'[p] = t
    BY DEF Inv, Types
<1>2. /\ t \in Seq(Statements) /\ Safe(t)
      /\ ~Quiet(Head(doing[p])) => \A i \in 1..Len(t) : ~Harms(t[i])
    BY TheHead
<1> HIDE DEF t
<1>3. CASE users' = users
    <2>1. \A s : Guarded(s)' = Guarded(s)
        BY <1>3 DEF Guarded, HasOwner, OthersOwn, IsOwner, IsRemoved
    <2>2. Safe(doing[p])'
        BY <1>1, <1>2, <2>1 DEF Safe
    <2> QED
        BY <2>2 DEF Inv, OneProcess
<1>4. CASE ~Quiet(Head(doing[p]))
    <2>1. \A i \in 1..Len(t) : Typed(t[i]) /\ ~Harms(t[i])
        BY <1>2, <1>4 DEF Safe
    <2>2. \A s : ~Harms(s) => Guarded(s)'
        BY DEF Guarded, Harms
    <2>3. Safe(doing[p])'
        BY <1>1, <2>1, <2>2 DEF Safe
    <2> QED
        BY <2>3 DEF Inv, OneProcess
<1> QED
    BY <1>3, <1>4

\* A row an UPDATE or an INSERT leaves is a row, and the others stay.
LEMMA Putting ==
    ASSUME Types, NEW id \in Ids, NEW row \in Rows, users' = Put(id, row)
    PROVE  /\ DOMAIN users' = DOMAIN users \cup {id}
           /\ DOMAIN users' \subseteq Ids
           /\ users' \in [DOMAIN users' -> Rows]
           /\ users'[id] = row
           /\ \A other \in DOMAIN users \ {id} : users'[other] = users[other]
BY DEF Types, Put

\* An INSERT takes nobody away.
LEMMA Inserting ==
    ASSUME OneProcess, Inv, NEW p \in Processes, RunInsert(p)
    PROVE  Inv' /\ (HasOwner => HasOwner') /\ DOMAIN users \subseteq DOMAIN users'
<1> DEFINE s == Head(doing[p])
<1>1. /\ ~Idle(p) /\ s.do = "insert"
      /\ \/ /\ s.of \notin DOMAIN users
            /\ users' = Put(s.of, s.to) /\ doing' = [doing EXCEPT ![p] = Tail(@)]
         \/ /\ users' = users /\ doing' = [doing EXCEPT ![p] = <<>>]
    BY DEF RunInsert, Runs
<1>2. s.of \in Ids /\ s.to \in Rows /\ ~Quiet(s)
    BY <1>1, TheHead DEF Typed, Quiet
<1>3. Tail(doing[p]) \in Seq(Statements)
    BY <1>1, TheHead
<1>4. CASE users' = users /\ doing' = [doing EXCEPT ![p] = <<>>]
    <2>1. <<>> \in Seq(Statements) /\ Safe(<<>>)
        BY DEF Safe
    <2> QED
        BY <1>4, <2>1, Begun DEF HasOwner, IsOwner, IsRemoved
<1>5. CASE /\ s.of \notin DOMAIN users
           /\ users' = Put(s.of, s.to) /\ doing' = [doing EXCEPT ![p] = Tail(@)]
    <2> HIDE DEF s
    <2>1. /\ DOMAIN users' = DOMAIN users \cup {s.of} /\ DOMAIN users' \subseteq Ids
          /\ users' \in [DOMAIN users' -> Rows]
          /\ \A other \in DOMAIN users : users'[other] = users[other]
        BY <1>2, <1>5, Putting DEF Inv
    <2>2. Types'
        BY <1>3, <1>5, <2>1 DEF Inv, Types
    <2>3. Inv'
        BY <1>1, <1>2, <1>5, <2>2, Advances DEF s
    <2> QED
        BY <2>1, <2>3 DEF HasOwner, IsOwner, IsRemoved
<1> QED
    BY <1>1, <1>4, <1>5

\* What an UPDATE leaves of an owner is an owner, unless it harms: then the
\* guard has left another.
LEMMA Updating ==
    ASSUME OneProcess, Inv, NEW p \in Processes, RunUpdate(p)
    PROVE  Inv' /\ (HasOwner => HasOwner') /\ DOMAIN users \subseteq DOMAIN users'
<1> DEFINE s == Head(doing[p])
           was == users[s.of]
           new == CASE s.do = "role" -> [was EXCEPT !.role = s.to]
                    [] s.do = "suspended" -> [was EXCEPT !.suspended = s.to]
                    [] s.do = "removed" -> [was EXCEPT !.removed = s.to]
                    [] s.do = "owner" -> [was EXCEPT !.role = "owner", !.suspended = FALSE]
<1>1. /\ ~Idle(p) /\ s.do \in {"role", "suspended", "removed", "owner"}
      /\ users' = Updated(s.of, new)
      /\ doing' = [doing EXCEPT ![p] = Tail(@)]
    BY DEF RunUpdate, Runs
<1>2. Typed(s) /\ Guarded(s) /\ Tail(doing[p]) \in Seq(Statements)
    BY <1>1, TheHead
<1>3. ~Quiet(s)
    BY <1>1 DEF Quiet
<1>4. CASE s.of \notin DOMAIN users
    <2> HIDE DEF new
    <2>1. users' = users
        BY <1>1, <1>4 DEF Updated
    <2>2. Types'
        BY <1>1, <1>2, <2>1 DEF Inv, Types
    <2>3. Inv'
        BY <1>1, <2>1, <2>2, Advances
    <2> QED
        BY <2>1, <2>3 DEF HasOwner, IsOwner, IsRemoved
<1>5. CASE s.of \in DOMAIN users
    <2>1. was \in Rows /\ s.of \in Ids
        BY <1>5, RowsOf DEF Inv
    <2>2. users' = Put(s.of, new)
        BY <1>1, <1>5 DEF Updated
    <2> HIDE DEF was, s
    <2>3. new \in Rows
        BY <1>1, <1>2, <2>1 DEF Rows, Typed
    <2>4. /\ ~Harms(s) /\ was.role = "owner" => new.role = "owner"
          /\ ~Harms(s) /\ ~was.suspended => ~new.suspended
          /\ ~Harms(s) /\ was.removed = Kept => new.removed = Kept
        BY <1>1, <1>2, <2>1 DEF Rows, Typed, Harms
    <2> HIDE DEF new
    <2>5. /\ DOMAIN users' = DOMAIN users \cup {s.of} /\ DOMAIN users' \subseteq Ids
          /\ users' \in [DOMAIN users' -> Rows] /\ users'[s.of] = new
          /\ \A other \in DOMAIN users \ {s.of} : users'[other] = users[other]
        BY <2>1, <2>2, <2>3, Putting DEF Inv
    <2>6. Types'
        BY <1>1, <1>2, <2>5 DEF Inv, Types
    <2>7. Inv'
        BY <1>1, <1>3, <2>6, Advances DEF s
    <2>8. ASSUME HasOwner
          PROVE  HasOwner'
        <3>1. CASE Harms(s)
            BY <1>2, <2>5, <2>8, <3>1 DEF Guarded, OthersOwn, HasOwner, IsOwner, IsRemoved
        <3>2. CASE ~Harms(s)
            <4>1. PICK owner \in DOMAIN users : IsOwner(owner)
                BY <2>8 DEF HasOwner
            <4>2. CASE owner = s.of
                BY <2>4, <2>5, <3>2, <4>1, <4>2 DEF HasOwner, IsOwner, IsRemoved, was
            <4>3. CASE owner # s.of
                BY <2>5, <4>1, <4>3 DEF HasOwner, IsOwner, IsRemoved
            <4> QED
                BY <4>2, <4>3
        <3> QED
            BY <3>1, <3>2
    <2> QED
        BY <2>5, <2>7, <2>8
<1> QED
    BY <1>4, <1>5

LEMMA Deleted ==
    ASSUME OneProcess, Inv, NEW p \in Processes, RunDelete(p)
    PROVE  /\ Inv'
           /\ HasOwner => HasOwner'
           /\ \A id \in DOMAIN users \ DOMAIN users' : IsRemoved(id)
<1> DEFINE s == Head(doing[p])
<1>1. /\ ~Idle(p) /\ s.do = "delete"
      /\ users' = Restrict(users, DOMAIN users \ {s.of})
      /\ doing' = [doing EXCEPT ![p] = Tail(@)]
    BY DEF RunDelete, Runs
<1>2. Guarded(s) /\ Tail(doing[p]) \in Seq(Statements) /\ ~Quiet(s)
    BY <1>1, TheHead DEF Quiet
<1> HIDE DEF s
<1>3. /\ DOMAIN users' = DOMAIN users \ {s.of}
      /\ \A id \in DOMAIN users' : users'[id] = users[id]
      /\ users' \in [DOMAIN users' -> Rows]
    BY <1>1 DEF Restrict, Inv, Types
<1>4. Types'
    BY <1>1, <1>2, <1>3 DEF Inv, Types
<1>5. Inv'
    BY <1>1, <1>2, <1>4, Advances DEF s
<1>6. HasOwner => HasOwner'
    BY <1>1, <1>2, <1>3 DEF Guarded, Harms, OthersOwn, HasOwner, IsOwner, IsRemoved
<1>7. \A id \in DOMAIN users \ DOMAIN users' : IsRemoved(id)
    BY <1>1, <1>2, <1>3 DEF Guarded
<1> QED
    BY <1>5, <1>6, <1>7

\* The statements on the other tables.
LEMMA Elsewhere ==
    ASSUME OneProcess, Inv, NEW p \in Processes, RunLogins(p) \/ RunCode(p) \/ RunSpend(p)
    PROVE  Inv' /\ users' = users
<1>1. /\ ~Idle(p) /\ users' = users
      /\ doing' = [doing EXCEPT ![p] = Tail(@)]
    BY DEF RunLogins, RunCode, RunSpend, Runs
<1>2. Types'
    BY <1>1, TheHead DEF Inv, Types
<1> QED
    BY <1>1, <1>2, Advances

LEMMA TimePasses ==
    ASSUME UsersAssumption, Inv, Tick
    PROVE  Inv' /\ (HasOwner => HasOwner') /\ DOMAIN users' = DOMAIN users
<1>1. /\ users' = [id \in DOMAIN users |->
                    [users[id] EXCEPT !.removed = IF @ > 0 THEN @ - 1 ELSE @]]
      /\ doing' = doing /\ \A p \in Processes : doing[p] = <<>>
    BY DEF Tick, Idle
<1>2. ASSUME NEW id \in DOMAIN users
      PROVE  /\ users'[id] \in Rows
             /\ users'[id].role = users[id].role
             /\ users'[id].suspended = users[id].suspended
             /\ users[id].removed = Kept => users'[id].removed = Kept
    <2> DEFINE row == users[id]
               left == IF row.removed > 0 THEN row.removed - 1 ELSE row.removed
    <2>1. row \in Rows
        BY RowsOf DEF Inv
    <2>2. row.removed \in {Kept} \cup 0..RemovalWait /\ RemovalWait \in Nat
        BY <2>1 DEF Rows, UsersAssumption
    <2>3. left \in {Kept} \cup 0..RemovalWait /\ (row.removed = Kept => left = Kept)
        BY <2>2 DEF Kept
    <2>4. users'[id] = [row EXCEPT !.removed = left]
        BY <1>1
    <2> HIDE DEF left, row
    <2>5. /\ [row EXCEPT !.removed = left] \in Rows
          /\ [row EXCEPT !.removed = left].role = row.role
          /\ [row EXCEPT !.removed = left].suspended = row.suspended
          /\ [row EXCEPT !.removed = left].removed = left
        BY <2>1, <2>3 DEF Rows
    <2> QED
        BY <2>3, <2>4, <2>5 DEF row
<1>3. DOMAIN users' = DOMAIN users
    BY <1>1
<1>4. Types'
    BY <1>1, <1>2, <1>3 DEF Inv, Types
<1>5. \A p \in Processes : Safe(doing[p])'
    BY <1>1 DEF Safe
<1>6. HasOwner => HasOwner'
    BY <1>2, <1>3 DEF HasOwner, IsOwner, IsRemoved
<1> QED
    BY <1>3, <1>4, <1>5, <1>6 DEF Inv

LEMMA Dying ==
    ASSUME Inv, NEW p \in Processes, Crash(p)
    PROVE  Inv' /\ users' = users
<1>1. users' = users /\ doing' = [doing EXCEPT ![p] = <<>>]
    BY DEF Crash, tables
<1>2. <<>> \in Seq(Statements) /\ Safe(<<>>)
    BY DEF Safe
<1> QED
    BY <1>1, <1>2, Begun

\* The steps that leave the users and what is being done alone.
LEMMA TheRest ==
    ASSUME Inv,
           \/ \E p \in Processes :
                \/ \E id \in DOMAIN users : LogOut(p, id) \/ Work(p, id)
                \/ Due(p) \/ \E id \in due : AskAgain(p, id)
                \/ \E m \in mails : MailFails(p, m)
           \/ DeleteData \/ DeleteFails
           \/ \E m \in mails : MailArrives(m)
    PROVE  Inv' /\ users' = users
<1>1. users' = users /\ doing' = doing
    BY DEF LogOut, Work, Due, AskAgain, MailFails, DeleteData, DeleteFails, MailArrives, tables
<1> QED
    BY <1>1, Undisturbed

\* The operations start and change no user before their first statement.
LEMMA Starting ==
    ASSUME NEW p, NEW id, NEW email,
           \/ \E role \in {"user", "owner"} : SetRole(p, id, role) \/ Add(p, email, role)
           \/ Suspend(p, id) \/ LetBack(p, id) \/ Remove(p, id) \/ Restore(p, id)
           \/ LogIn(p, id)
           \/ IssueCode(p, email) \/ CodeToMail(p, email) \/ CodeToClaim(p, email)
           \/ WrongCode(p, email) \/ Redeem(p, email) \/ CheckCode(p, email)
           \/ ClaimOwner(p, email) \/ DeleteRow(p)
    PROVE  users' = users
BY DEF SetRole, Add, Suspend, LetBack, Remove, Restore, LogIn, IssueCode, CodeToMail,
       CodeToClaim, WrongCode, Redeem, CheckCode, ClaimOwner, DeleteRow, Run, tables

(***************************************************************************)
(* Every step.                                                              *)
(***************************************************************************)
LEMMA Initially == Init => Inv
BY DEF Init, Inv, Types, Safe

LEMMA EachStep ==
    ASSUME UsersAssumption, OneProcess, Inv, [Next]_vars
    PROVE  /\ Inv'
           /\ HasOwner => HasOwner'
           /\ \A id \in DOMAIN users \ DOMAIN users' : IsRemoved(id)
<1>1. ASSUME Inv', users' = users
      PROVE  /\ HasOwner => HasOwner'
             /\ \A id \in DOMAIN users \ DOMAIN users' : IsRemoved(id)
    BY <1>1 DEF HasOwner, IsOwner, IsRemoved
<1>2. ASSUME NEW p \in Processes, OfAUser(p)
      PROVE  Inv' /\ users' = users
    <2>1. PICK id \in DOMAIN users :
            \/ \E role \in {"user", "owner"} : SetRole(p, id, role)
            \/ Suspend(p, id) \/ LetBack(p, id)
            \/ Remove(p, id) \/ Restore(p, id)
            \/ LogIn(p, id) \/ LogOut(p, id) \/ Work(p, id)
        BY <1>2 DEF OfAUser
    <2>2. CASE LogOut(p, id) \/ Work(p, id)
        BY <2>2, TheRest
    <2>3. CASE ~(LogOut(p, id) \/ Work(p, id))
        BY <2>1, <2>3, ChangesOfAUser, Starting
    <2> QED
        BY <2>2, <2>3
<1>3. ASSUME NEW p \in Processes, OfAnAddress(p)
      PROVE  Inv' /\ users' = users
    <2>1. CASE \E email \in Emails, role \in {"user", "owner"} : Add(p, email, role)
        BY <2>1, NewUsers, Starting
    <2>2. CASE \E email \in Mailed :
                 \/ IssueCode(p, email) \/ CodeToMail(p, email) \/ CodeToClaim(p, email)
                 \/ WrongCode(p, email) \/ Redeem(p, email) \/ CheckCode(p, email)
                 \/ ClaimOwner(p, email)
        <3>1. Mailed \subseteq Emails
            BY DEF UsersAssumption
        <3> QED
            BY <2>2, <3>1, ChangesOfACode, CodesForLogins, Starting
    <2> QED
        BY <1>3, <2>1, <2>2 DEF OfAnAddress
<1>4. ASSUME NEW p \in Processes, RunStatement(p)
      PROVE  /\ Inv'
             /\ HasOwner => HasOwner'
             /\ \A id \in DOMAIN users \ DOMAIN users' : IsRemoved(id)
    <2>1. CASE RunInsert(p)
        BY <2>1, Inserting
    <2>2. CASE RunUpdate(p)
        BY <2>2, Updating
    <2>3. CASE RunDelete(p)
        BY <2>3, Deleted
    <2>4. CASE RunLogins(p) \/ RunCode(p) \/ RunSpend(p)
        BY <1>1, <2>4, Elsewhere
    <2> QED
        BY <1>4, <2>1, <2>2, <2>3, <2>4 DEF RunStatement
<1>5. ASSUME NEW p \in Processes, Deletes(p)
      PROVE  Inv' /\ users' = users
    BY <1>5, DeletingARow, Starting, TheRest DEF Deletes
<1>6. CASE UNCHANGED vars
    BY <1>1, <1>6, Undisturbed DEF vars, tables
<1>7. CASE Tick
    BY <1>7, TimePasses
<1>8. CASE \E p \in Processes : Crash(p)
    BY <1>1, <1>8, Dying
<1>9. CASE DeleteFails \/ (\E m \in mails : MailArrives(m))
           \/ (\E p \in Processes, m \in mails : MailFails(p, m))
    BY <1>1, <1>9, TheRest
<1> QED
    BY <1>1, <1>2, <1>3, <1>4, <1>5, <1>6, <1>7, <1>8, <1>9 DEF Next

\* The rows keep the columns they have, and what a process has left to run are
\* statements of users and addresses there are: Users::add, redeem, purge and the
\* edits of a user.
THEOREM UsersTypesHold ==
    ASSUME OneProcess
    PROVE  Spec => []Types
<1>1. Inv /\ [Next]_vars => Inv'
    BY UsersAssumption, EachStep
<1>2. Inv => Types
    BY DEF Inv
<1> QED
    BY Initially, <1>1, <1>2, PTL DEF Spec

\* A server that has an owner who can log in keeps one: set_role, set_suspended,
\* remove and purge, while one process has the database open, whenever it dies.
THEOREM TheServerIsOwned ==
    ASSUME OneProcess
    PROVE  Spec => AnOwnerStays
<1>1. Inv /\ [Next]_vars => [HasOwner => HasOwner']_vars
    BY UsersAssumption, EachStep
<1>2. Inv /\ [Next]_vars => Inv'
    BY UsersAssumption, EachStep
<1> QED
    BY Initially, <1>1, <1>2, PTL DEF Spec, AnOwnerStays

\* Only the account of a removed user is deleted: purge_user and Users::purge.
THEOREM OnlyTheRemovedGo ==
    ASSUME OneProcess
    PROVE  Spec => KeptAreKept
<1>1. Inv /\ [Next]_vars => [\A id \in DOMAIN users \ DOMAIN users' : IsRemoved(id)]_vars
    BY UsersAssumption, EachStep
<1>2. Inv /\ [Next]_vars => Inv'
    BY UsersAssumption, EachStep
<1> QED
    BY Initially, <1>1, <1>2, PTL DEF Spec, KeptAreKept
(***************************************************************************)
(* Who is out has no login.                                                 *)
(***************************************************************************)
\* Not suspended, and not removed either.
MayLogIn(id) == id \in DOMAIN users /\ ~users[id].suspended
In(id) == MayLogIn(id) /\ ~IsRemoved(id)

NoLogin(id) == \A login \in logins : login[1] # id
AllIn == \A login \in logins : In(login[1])
AllInBut(id) == \A login \in logins : login[1] # id => In(login[1])

\* The statements after which all who have a login are in if they were before.
Mild(s) ==
    \/ s.do \in {"insert", "role", "owner", "code", "dropCode", "tried"}
    \/ s.do = "suspended" /\ s.to = FALSE
    \/ s.do = "removed" /\ (s.to = Kept \/ NoLogin(s.of))
    \/ s.do = "delete" /\ NoLogin(s.of)

\* What a process has left to run, by what it is about to do with logins.
IsMild(program) == AllIn /\ \A i \in 1..Len(program) : Mild(program[i])

Ends(program, id) ==
    /\ AllInBut(id)
    /\ program # <<>> /\ Head(program).do = "endLogins" /\ Head(program).of = id
    /\ \A i \in 1..Len(Tail(program)) :
          LET s == Tail(program)[i] IN
          Mild(s) \/ (s.do \in {"removed", "delete"} /\ s.of = id)

Suspends(program, id) ==
    /\ AllIn
    /\ program # <<>> /\ Head(program).do = "suspended" /\ Head(program).of = id
    /\ Ends(Tail(program), id)

LetsBack(program, id) ==
    /\ AllInBut(id) /\ MayLogIn(id)
    /\ Len(program) = 1 /\ program[1] = Stmt("removed", id, Kept)

\* The one who will log in may, or will when their row is written.
LogsThemIn(program, id) ==
    LET n == Len(program) IN
    /\ AllIn
    /\ n > 1
    /\ program[n] = Stmt("removed", id, Kept)
    /\ program[n - 1].do = "login" /\ program[n - 1].of = id
    /\ \A i \in 1..(n - 2) : program[i].do \in {"dropCode", "owner", "insert"}
    /\ \/ MayLogIn(id)
       \/ \E i \in 1..(n - 2) :
             /\ program[i].of = id
             /\ \/ program[i].do = "owner" /\ id \in DOMAIN users
                \/ program[i].do = "insert" /\ program[i].to.suspended = FALSE

Settles(program) ==
    \/ IsMild(program)
    \/ \E id \in Ids :
          \/ Ends(program, id) \/ Suspends(program, id)
          \/ LetsBack(program, id) \/ LogsThemIn(program, id)

Settled ==
    /\ crashes \in Nat
    /\ crashes = 0 => /\ Processes = {} => AllIn
                      /\ \A p \in Processes : Settles(doing[p])

\* What a statement does to a user who may log in.
Outs(s) ==
    \/ s.do = "suspended" /\ s.to # FALSE
    \/ s.do = "removed" /\ s.to # Kept
    \/ s.do = "delete"

LEMMA Statement ==
    ASSUME Inv, NEW p \in Processes, RunStatement(p), NEW s, s = Head(doing[p])
    PROVE  /\ doing[p] # <<>>
           /\ crashes' = crashes
           /\ logins' = IF s.do = "login" THEN logins \cup {<<s.of, LoginLife>>}
                        ELSE IF s.do = "endLogins" THEN {login \in logins : login[1] # s.of}
                        ELSE logins
           /\ \A id : In(id) /\ ~(Outs(s) /\ s.of = id) => In(id)'
           /\ \A id : MayLogIn(id) /\ ~(Outs(s) /\ s.of = id) => MayLogIn(id)'
           /\ ~Outs(s) => DOMAIN users \subseteq DOMAIN users'
           /\ s.do = "removed" /\ s.to = Kept /\ MayLogIn(s.of) => In(s.of)'
           /\ s.do = "owner" /\ s.of \in DOMAIN users => MayLogIn(s.of)'
           /\ \/ /\ doing'[p] = Tail(doing[p])
                 /\ s.do = "insert" /\ s.to.suspended = FALSE => MayLogIn(s.of)'
              \/ doing'[p] = <<>> /\ s.do = "insert"
<1>0. doing[p] # <<>> /\ crashes' = crashes /\ ~Idle(p)
    BY DEF RunStatement, RunInsert, RunUpdate, RunDelete, RunLogins, RunCode, RunSpend, Runs, Idle
<1>1. Typed(s) /\ s \in Statements
    BY <1>0, TheHead
<1>2. \A t : doing' = [doing EXCEPT ![p] = t] => doing'[p] = t
    BY DEF Inv, Types
<1>3. CASE users' = users /\ s.do \in {"login", "endLogins", "code", "dropCode", "tried"}
           /\ doing' = [doing EXCEPT ![p] = Tail(@)]
           /\ logins' = IF s.do = "login" THEN logins \cup {<<s.of, LoginLife>>}
                        ELSE IF s.do = "endLogins" THEN {login \in logins : login[1] # s.of}
                        ELSE logins
    <2>1. doing'[p] = Tail(doing[p])
        BY <1>3 DEF Inv, Types
    <2> QED
        BY <1>0, <1>3, <2>1 DEF MayLogIn, In, IsRemoved, Outs
<1>4. CASE RunInsert(p)
    <2>1. s.do = "insert" /\ logins' = logins
        BY <1>4 DEF RunInsert, Runs
    <2>2. CASE users' = users /\ doing' = [doing EXCEPT ![p] = <<>>]
        BY <1>0, <1>2, <2>1, <2>2 DEF MayLogIn, In, IsRemoved, Outs
    <2>3. CASE s.of \notin DOMAIN users /\ users' = Put(s.of, s.to)
               /\ doing' = [doing EXCEPT ![p] = Tail(@)]
        <3>1. doing'[p] = Tail(doing[p])
            BY <2>3 DEF Inv, Types
        <3>2. s.of \in Ids /\ s.to \in Rows
            BY <1>1, <2>1 DEF Typed
        <3>3. /\ DOMAIN users' = DOMAIN users \cup {s.of} /\ users'[s.of] = s.to
              /\ \A other \in DOMAIN users : users'[other] = users[other]
            BY <2>3, <3>2, Putting DEF Inv
        <3> QED
            BY <1>0, <2>1, <2>3, <3>1, <3>2, <3>3 DEF MayLogIn, In, IsRemoved, Outs, Rows
    <2> QED
        BY <1>4, <2>1, <2>2, <2>3 DEF RunInsert
<1>5. CASE RunUpdate(p)
    <2> DEFINE was == users[s.of]
               new == CASE s.do = "role" -> [was EXCEPT !.role = s.to]
                        [] s.do = "suspended" -> [was EXCEPT !.suspended = s.to]
                        [] s.do = "removed" -> [was EXCEPT !.removed = s.to]
                        [] s.do = "owner" -> [was EXCEPT !.role = "owner", !.suspended = FALSE]
    <2>1. /\ s.do \in {"role", "suspended", "removed", "owner"}
          /\ users' = Updated(s.of, new) /\ logins' = logins
          /\ doing' = [doing EXCEPT ![p] = Tail(@)]
        BY <1>5 DEF RunUpdate, Runs
    <2>2. doing'[p] = Tail(doing[p])
        <3> HIDE DEF new
        <3> QED
            BY <2>1 DEF Inv, Types
    <2>3. CASE s.of \notin DOMAIN users
        <3> HIDE DEF new
        <3>1. users' = users
            BY <2>1, <2>3 DEF Updated
        <3> QED
            BY <1>0, <2>1, <2>2, <2>3, <3>1 DEF MayLogIn, In, IsRemoved, Outs
    <2>4. CASE s.of \in DOMAIN users
        <3>1. was \in Rows /\ s.of \in Ids
            BY <2>4, RowsOf DEF Inv
        <3>2. users' = Put(s.of, new)
            BY <2>1, <2>4 DEF Updated
        <3> HIDE DEF was
        <3>3. new \in Rows
            BY <1>1, <2>1, <3>1 DEF Rows, Typed
        <3>4. /\ ~Outs(s) /\ was.suspended = FALSE => new.suspended = FALSE
              /\ ~Outs(s) /\ was.removed = Kept => new.removed = Kept
              /\ s.do = "removed" => new.suspended = was.suspended /\ new.removed = s.to
              /\ s.do = "owner" => new.suspended = FALSE
            BY <2>1, <3>1 DEF Rows, Outs
        <3>5. was.suspended \in BOOLEAN /\ new.suspended \in BOOLEAN
            BY <3>1, <3>3 DEF Rows
        <3> HIDE DEF new
        <3>6. /\ DOMAIN users' = DOMAIN users /\ users'[s.of] = new
              /\ \A other \in DOMAIN users \ {s.of} : users'[other] = users[other]
            BY <2>4, <3>1, <3>2, <3>3, Putting DEF Inv
        <3>7. /\ MayLogIn(s.of) <=> ~was.suspended
              /\ In(s.of) <=> ~was.suspended /\ was.removed = Kept
              /\ MayLogIn(s.of)' <=> ~new.suspended
              /\ In(s.of)' <=> ~new.suspended /\ new.removed = Kept
            BY <2>4, <3>6 DEF MayLogIn, In, IsRemoved, was
        <3>8. \A id : id # s.of => (MayLogIn(id) => MayLogIn(id)') /\ (In(id) => In(id)')
            BY <3>6 DEF MayLogIn, In, IsRemoved
        <3>9. /\ \A id : In(id) /\ ~(Outs(s) /\ s.of = id) => In(id)'
              /\ \A id : MayLogIn(id) /\ ~(Outs(s) /\ s.of = id) => MayLogIn(id)'
            BY <3>4, <3>5, <3>7, <3>8
        <3>10. /\ s.do = "removed" /\ s.to = Kept /\ MayLogIn(s.of) => In(s.of)'
               /\ s.do = "owner" => MayLogIn(s.of)'
            BY <3>4, <3>5, <3>7
        <3> QED
            BY <1>0, <2>1, <2>2, <3>6, <3>9, <3>10
    <2> QED
        BY <2>3, <2>4
<1>6. CASE RunDelete(p)
    <2>1. /\ s.do = "delete" /\ logins' = logins
          /\ users' = Restrict(users, DOMAIN users \ {s.of})
          /\ doing' = [doing EXCEPT ![p] = Tail(@)]
        BY <1>6 DEF RunDelete, Runs
    <2>2. doing'[p] = Tail(doing[p])
        BY <2>1 DEF Inv, Types
    <2>3. /\ DOMAIN users' = DOMAIN users \ {s.of}
          /\ \A id \in DOMAIN users' : users'[id] = users[id]
        BY <2>1 DEF Restrict
    <2> QED
        BY <1>0, <2>1, <2>2, <2>3 DEF MayLogIn, In, IsRemoved, Outs
<1>7. CASE RunLogins(p) \/ RunCode(p) \/ RunSpend(p)
    BY <1>3, <1>7 DEF RunLogins, RunCode, RunSpend, Runs
<1> QED
    BY <1>4, <1>5, <1>6, <1>7 DEF RunStatement

LEMMA Shifted ==
    ASSUME Inv, NEW p \in Processes, doing[p] # <<>>
    PROVE  /\ Len(doing[p]) \in Nat \ {0}
           /\ Head(doing[p]) = doing[p][1]
           /\ Len(Tail(doing[p])) = Len(doing[p]) - 1
           /\ \A i \in 1..Len(Tail(doing[p])) :
                i + 1 \in 1..Len(doing[p]) /\ Tail(doing[p])[i] = doing[p][i + 1]
<1>1. doing[p] \in Seq(Statements)
    BY DEF Inv, Types
<1> QED
    BY <1>1, HeadTailProperties

\* With no login given, what was mild stays so.
LEMMA MildStays ==
    ASSUME logins' \subseteq logins
    PROVE  \A s : Mild(s) => Mild(s)'
BY DEF Mild, NoLogin

\* What harms nobody who has a login.
LEMMA MildStep ==
    ASSUME Inv, NEW p \in Processes, RunStatement(p), AllIn, Mild(Head(doing[p]))
    PROVE  AllIn' /\ logins' = logins
<1> DEFINE s == Head(doing[p])
<1>1. s.do \notin {"login", "endLogins"}
    BY DEF Mild
<1>2. logins' = logins
    BY <1>1, Statement
<1>3. \A login \in logins : ~(Outs(s) /\ s.of = login[1])
    BY DEF Mild, Outs, NoLogin
<1> HIDE DEF s
<1>4. \A id : In(id) /\ ~(Outs(s) /\ s.of = id) => In(id)'
    BY Statement DEF s
<1> QED
    BY <1>2, <1>3, <1>4 DEF AllIn

LEMMA StillMild ==
    ASSUME NEW p, NEW t, doing'[p] = t \/ doing'[p] = <<>>,
           AllIn', \A i \in 1..Len(t) : Mild(t[i])'
    PROVE  IsMild(doing[p])'
<1>1. CASE doing'[p] = <<>>
    BY <1>1 DEF IsMild
<1>2. CASE doing'[p] = t
    BY <1>2 DEF IsMild, Mild
<1> QED
    BY <1>1, <1>2

LEMMA MildGoesOn ==
    ASSUME Inv, NEW p \in Processes, RunStatement(p), IsMild(doing[p])
    PROVE  IsMild(doing[p])'
<1>1. doing[p] # <<>>
    BY Statement
<1>2. PICK t : t = Tail(doing[p])
    OBVIOUS
<1>3. Mild(Head(doing[p])) /\ \A i \in 1..Len(t) : Mild(t[i])
    BY <1>1, <1>2, Shifted DEF IsMild
<1>4. AllIn' /\ \A s : Mild(s) => Mild(s)'
    BY <1>3, MildStep, MildStays DEF IsMild
<1>5. doing'[p] = t \/ doing'[p] = <<>>
    BY <1>2, Statement
<1>6. \A i \in 1..Len(t) : Mild(t[i])'
    BY <1>3, <1>4
<1> QED
    BY <1>4, <1>5, <1>6, StillMild

\* The logins of somebody are ended, and they may be taken off.
LEMMA EndsGoOn ==
    ASSUME Inv, NEW p \in Processes, RunStatement(p), NEW id \in Ids, Ends(doing[p], id)
    PROVE  IsMild(doing[p])'
<1>0. PICK s, t : s = Head(doing[p]) /\ t = Tail(doing[p])
    OBVIOUS
<1>1. s.do = "endLogins" /\ s.of = id
    BY <1>0 DEF Ends
<1>2. /\ logins' = {login \in logins : login[1] # id}
      /\ \A k : In(k) => In(k)'
      /\ doing'[p] = t
    BY <1>0, <1>1, Statement DEF Outs
<1>3. AllIn'
    BY <1>2 DEF AllIn, AllInBut, Ends
<1>4. NoLogin(id)'
    BY <1>2 DEF NoLogin
<1>5. \A i \in 1..Len(t) : Mild(t[i]) \/ (t[i].do \in {"removed", "delete"} /\ t[i].of = id)
    BY <1>0 DEF Ends
<1>6. \A k : Mild(k) => Mild(k)'
    BY <1>2, MildStays
<1>7. \A i \in 1..Len(t) : Mild(t[i])'
    BY <1>4, <1>5, <1>6 DEF Mild
<1> QED
    BY <1>2, <1>3, <1>7, StillMild

LEMMA SuspendsGoesOn ==
    ASSUME Inv, NEW p \in Processes, RunStatement(p), NEW id \in Ids, Suspends(doing[p], id)
    PROVE  Ends(doing[p], id)'
<1>0. PICK s, t : s = Head(doing[p]) /\ t = Tail(doing[p])
    OBVIOUS
<1>1. s.do = "suspended" /\ s.of = id
    BY <1>0 DEF Suspends
<1>2. /\ logins' = logins
      /\ \A k : In(k) /\ k # id => In(k)'
      /\ doing'[p] = t
    BY <1>0, <1>1, Statement
<1>3. AllInBut(id)'
    BY <1>2 DEF AllIn, AllInBut, Suspends
<1>4. \A k : Mild(k) => Mild(k)'
    BY <1>2, MildStays
<1>5. Ends(t, id)
    BY <1>0 DEF Suspends
<1>6. \A i \in 1..Len(Tail(t)) :
        Mild(Tail(t)[i])' \/ (Tail(t)[i].do \in {"removed", "delete"} /\ Tail(t)[i].of = id)
    BY <1>4, <1>5 DEF Ends
<1>7. t # <<>> /\ Head(t).do = "endLogins" /\ Head(t).of = id
    BY <1>5 DEF Ends
<1> QED
    BY <1>2, <1>3, <1>6, <1>7 DEF Ends, Mild

LEMMA LetsBackGoesOn ==
    ASSUME Inv, NEW p \in Processes, RunStatement(p), NEW id \in Ids, LetsBack(doing[p], id)
    PROVE  IsMild(doing[p])'
<1> DEFINE s == Head(doing[p])
<1>0. doing[p] # <<>>
    BY Statement
<1>1. s = Stmt("removed", id, Kept) /\ Len(Tail(doing[p])) = 0
    BY <1>0, Shifted DEF LetsBack
<1>2. s.do = "removed" /\ s.of = id /\ s.to = Kept
    BY <1>1 DEF Stmt
<1>3. /\ logins' = logins
      /\ \A k : In(k) => In(k)'
      /\ In(id)'
      /\ doing'[p] = Tail(doing[p])
    BY <1>2, Statement DEF Outs, LetsBack
<1>4. AllIn'
    BY <1>3 DEF AllIn, AllInBut, LetsBack
<1> QED
    BY <1>1, <1>3, <1>4 DEF IsMild

\* Somebody is let in: their row is written first, their login next, and at last
\* they are no longer removed.
LEMMA LogsGoesOn ==
    ASSUME Inv, NEW p \in Processes, RunStatement(p), NEW id \in Ids, LogsThemIn(doing[p], id)
    PROVE  \/ IsMild(doing[p])' \/ LetsBack(doing[p], id)' \/ LogsThemIn(doing[p], id)'
<1>0. PICK P, s, t, n : P = doing[p] /\ s = Head(P) /\ t = Tail(P) /\ n = Len(P)
    OBVIOUS
<1>5. P # <<>>
    BY <1>0, Statement
<1>1. /\ n \in Nat /\ n > 1 /\ s = P[1] /\ Len(t) = n - 1
      /\ \A i \in 1..Len(t) : i + 1 \in 1..n /\ t[i] = P[i + 1]
    BY <1>0, <1>5, Shifted DEF LogsThemIn
<1>2. /\ AllIn
      /\ P[n] = Stmt("removed", id, Kept)
      /\ P[n - 1].do = "login" /\ P[n - 1].of = id
      /\ \A i \in 1..(n - 2) : P[i].do \in {"dropCode", "owner", "insert"}
      /\ \/ MayLogIn(id)
         \/ \E i \in 1..(n - 2) :
               /\ P[i].of = id
               /\ \/ P[i].do = "owner" /\ id \in DOMAIN users
                  \/ P[i].do = "insert" /\ P[i].to.suspended = FALSE
    BY <1>0 DEF LogsThemIn
<1>3. CASE n = 2
    <2>1. MayLogIn(id) /\ s.do = "login" /\ s.of = id /\ t[1] = Stmt("removed", id, Kept)
        BY <1>1, <1>2, <1>3
    <2>2. /\ logins' = logins \cup {<<id, LoginLife>>}
          /\ \A k : In(k) => In(k)'
          /\ MayLogIn(id)'
          /\ doing'[p] = t
        BY <1>0, <2>1, Statement DEF Outs
    <2>3. AllInBut(id)'
        BY <1>2, <2>2 DEF AllIn, AllInBut
    <2>4. Len(t) = 1
        BY <1>1, <1>3
    <2>5. LetsBack(doing[p], id)'
        BY <2>1, <2>2, <2>3, <2>4 DEF LetsBack
    <2> QED
        BY <2>5
<1>4. CASE n > 2
    <2>1. s.do \in {"dropCode", "owner", "insert"}
        BY <1>1, <1>2, <1>4
    <2>2. Mild(s) /\ ~Outs(s)
        BY <2>1 DEF Mild, Outs
    <2>3. AllIn' /\ logins' = logins
        BY <1>0, <1>2, <2>2, MildStep
    <2>4. CASE doing'[p] = <<>>
        <3>1. IsMild(doing[p])'
            BY <2>3, <2>4 DEF IsMild
        <3> QED
            BY <3>1
    <2>5. CASE doing'[p] = t /\ (s.do = "insert" /\ s.to.suspended = FALSE => MayLogIn(s.of)')
        <3>1. /\ DOMAIN users \subseteq DOMAIN users'
              /\ MayLogIn(id) => MayLogIn(id)'
              /\ s.do = "owner" /\ s.of \in DOMAIN users => MayLogIn(s.of)'
            BY <1>0, <2>2, Statement
        <3>2. \/ MayLogIn(id)'
              \/ \E i \in 1..(Len(t) - 2) :
                    /\ t[i].of = id
                    /\ \/ t[i].do = "owner" /\ id \in DOMAIN users'
                       \/ t[i].do = "insert" /\ t[i].to.suspended = FALSE
            <4>1. CASE MayLogIn(id)
                BY <3>1, <4>1
            <4>2. CASE ~MayLogIn(id)
                <5>1. PICK i \in 1..(n - 2) :
                           /\ P[i].of = id
                           /\ \/ P[i].do = "owner" /\ id \in DOMAIN users
                              \/ P[i].do = "insert" /\ P[i].to.suspended = FALSE
                    BY <1>2, <4>2
                <5>2. CASE i = 1
                    BY <1>1, <2>5, <3>1, <5>1, <5>2
                <5>3. CASE i > 1
                    <6>1. i - 1 \in 1..(Len(t) - 2) /\ i - 1 \in 1..Len(t) /\ t[i - 1] = P[i]
                        BY <1>1, <5>1, <5>3
                    <6>2. /\ t[i - 1].of = id
                          /\ \/ t[i - 1].do = "owner" /\ id \in DOMAIN users'
                             \/ t[i - 1].do = "insert" /\ t[i - 1].to.suspended = FALSE
                        BY <3>1, <5>1, <6>1
                    <6> QED
                        BY <6>1, <6>2
                <5>4. i = 1 \/ i > 1
                    BY <1>1
                <5> QED
                    BY <5>2, <5>3, <5>4
            <4> QED
                BY <4>1, <4>2
        <3>3. /\ t[Len(t)] = Stmt("removed", id, Kept)
              /\ t[Len(t) - 1].do = "login" /\ t[Len(t) - 1].of = id
              /\ Len(t) > 1
            <4>1. Len(t) \in 1..Len(t) /\ Len(t) - 1 \in 1..Len(t)
                BY <1>1, <1>4
            <4>2. t[Len(t)] = P[n] /\ t[Len(t) - 1] = P[n - 1]
                BY <1>1, <4>1
            <4> QED
                BY <1>1, <1>2, <1>4, <4>2
        <3>4. \A i \in 1..(Len(t) - 2) : t[i].do \in {"dropCode", "owner", "insert"}
            BY <1>1, <1>2, <1>4
        <3>5. LogsThemIn(doing[p], id)'
            BY <2>3, <2>5, <3>2, <3>3, <3>4 DEF LogsThemIn, Stmt, Kept
        <3> QED
            BY <3>5
    <2> QED
        BY <1>0, <2>4, <2>5, Statement
<1> QED
    BY <1>1, <1>3, <1>4

LEMMA Executed ==
    ASSUME Inv, NEW p \in Processes, RunStatement(p), Settles(doing[p])
    PROVE  Settles(doing[p])'
<1>1. CASE IsMild(doing[p])
    BY <1>1, MildGoesOn DEF Settles
<1>2. CASE \E id \in Ids : Ends(doing[p], id)
    BY <1>2, EndsGoOn DEF Settles
<1>3. CASE \E id \in Ids : Suspends(doing[p], id)
    BY <1>3, SuspendsGoesOn DEF Settles
<1>4. CASE \E id \in Ids : LetsBack(doing[p], id)
    BY <1>4, LetsBackGoesOn DEF Settles
<1>5. CASE \E id \in Ids : LogsThemIn(doing[p], id)
    BY <1>5, LogsGoesOn DEF Settles
<1> QED
    BY <1>1, <1>2, <1>3, <1>4, <1>5 DEF Settles

(***************************************************************************)
(* What the operations start settles.                                       *)
(***************************************************************************)
LEMMA AtRest ==
    ASSUME NEW program, program = <<>>, Settles(program)
    PROVE  AllIn
BY DEF Settles, IsMild, Ends, Suspends, LetsBack, LogsThemIn

LEMMA SameState ==
    ASSUME NEW p, NEW t, users' = users, logins' = logins, doing'[p] = t, Settles(t)
    PROVE  Settles(doing[p])'
<1>1. /\ \A id : (MayLogIn(id) <=> MayLogIn(id)') /\ (In(id) <=> In(id)')
      /\ AllIn <=> AllIn'
      /\ \A id : AllInBut(id) <=> AllInBut(id)'
      /\ \A s : Mild(s) => Mild(s)'
    BY DEF MayLogIn, In, IsRemoved, AllIn, AllInBut, Mild, NoLogin
<1>2. IsMild(t) => IsMild(doing[p])'
    BY <1>1 DEF IsMild, Mild
<1>3. \A id : Ends(t, id) => Ends(doing[p], id)'
    BY <1>1 DEF Ends, Mild
<1>4. \A id : Ends(Tail(t), id) => Ends(Tail(doing[p]), id)'
    BY <1>1 DEF Ends, Mild
<1>5. \A id : Suspends(t, id) => Suspends(doing[p], id)'
    BY <1>1, <1>4 DEF Suspends
<1>6. \A id : LetsBack(t, id) => LetsBack(doing[p], id)'
    BY <1>1 DEF LetsBack, Stmt, Kept
<1>7. \A id : LogsThemIn(t, id) => LogsThemIn(doing[p], id)'
    BY <1>1 DEF LogsThemIn, Stmt, Kept
<1> QED
    BY <1>2, <1>3, <1>5, <1>6, <1>7 DEF Settles

LEMMA Started ==
    ASSUME Inv, NEW p \in Processes, Settles(doing[p]), Idle(p), NEW t,
           users' = users, logins' = logins, doing' = [doing EXCEPT ![p] = t],
           AllIn => Settles(t)
    PROVE  Settles(doing[p])'
<1>1. doing'[p] = t
    BY DEF Inv, Types
<1>2. AllIn
    BY AtRest DEF Idle
<1> QED
    BY <1>1, <1>2, SameState

\* One statement that is mild.
LEMMA OneIsMild ==
    ASSUME AllIn, NEW a, Mild(a)
    PROVE  Settles(<<a>>)
BY DEF Settles, IsMild

LEMMA TheMildStart ==
    ASSUME Inv, NEW p \in Processes, Settles(doing[p]), NEW a, Mild(a), Run(p, <<a>>)
    PROVE  Settles(doing[p])'
BY OneIsMild, Started DEF Run, tables

LEMMA JoinIs ==
    ASSUME NEW S, NEW x \in Seq(S), NEW y \in Seq(S), NEW z \in Seq(S),
           Len(z) = Len(x) + Len(y),
           \A i \in 1..Len(z) : z[i] = IF i <= Len(x) THEN x[i] ELSE y[i - Len(x)]
    PROVE  x \o y = z
<1>1. /\ x \o y \in Seq(S) /\ Len(x \o y) = Len(z)
      /\ \A i \in 1..Len(z) : (x \o y)[i] = IF i <= Len(x) THEN x[i] ELSE y[i - Len(x)]
    BY ConcatProperties
<1> QED
    BY <1>1, SeqEqual

LEMMA Tuples ==
    /\ \A a, b, c : <<a>> \o <<b, c>> = <<a, b, c>>
    /\ \A a, b, c : <<a, b>> \o <<c>> = <<a, b, c>>
    /\ \A a, b, c, d : <<a, b>> \o <<c, d>> = <<a, b, c, d>>
<1>1. ASSUME NEW a, NEW b, NEW c
      PROVE  <<a>> \o <<b, c>> = <<a, b, c>>
    <2> DEFINE x == <<a>>
               y == <<b, c>>
               z == <<a, b, c>>
               S == {a, b, c}
    <2>1. x \in Seq(S) /\ y \in Seq(S) /\ z \in Seq(S)
        OBVIOUS
    <2>2. /\ Len(x) = 1 /\ x[1] = a
          /\ Len(y) = 2 /\ y[1] = b /\ y[2] = c
          /\ Len(z) = 3 /\ z[1] = a /\ z[2] = b /\ z[3] = c
        OBVIOUS
    <2> HIDE DEF x, y, z, S
    <2>3. \A i \in 1..Len(z) : z[i] = IF i <= Len(x) THEN x[i] ELSE y[i - Len(x)]
        BY <2>2
    <2>4. Len(z) = Len(x) + Len(y)
        BY <2>2
    <2>5. x \o y = z
        BY <2>1, <2>3, <2>4, JoinIs
    <2> QED
        BY <2>5 DEF x, y, z
<1>2. ASSUME NEW a, NEW b, NEW c
      PROVE  <<a, b>> \o <<c>> = <<a, b, c>>
    <2> DEFINE x == <<a, b>>
               y == <<c>>
               z == <<a, b, c>>
               S == {a, b, c}
    <2>1. x \in Seq(S) /\ y \in Seq(S) /\ z \in Seq(S)
        OBVIOUS
    <2>2. /\ Len(x) = 2 /\ x[1] = a /\ x[2] = b
          /\ Len(y) = 1 /\ y[1] = c
          /\ Len(z) = 3 /\ z[1] = a /\ z[2] = b /\ z[3] = c
        OBVIOUS
    <2> HIDE DEF x, y, z, S
    <2>3. \A i \in 1..Len(z) : z[i] = IF i <= Len(x) THEN x[i] ELSE y[i - Len(x)]
        BY <2>2
    <2>4. Len(z) = Len(x) + Len(y)
        BY <2>2
    <2>5. x \o y = z
        BY <2>1, <2>3, <2>4, JoinIs
    <2> QED
        BY <2>5 DEF x, y, z
<1>3. ASSUME NEW a, NEW b, NEW c, NEW d
      PROVE  <<a, b>> \o <<c, d>> = <<a, b, c, d>>
    <2> DEFINE x == <<a, b>>
               y == <<c, d>>
               z == <<a, b, c, d>>
               S == {a, b, c, d}
    <2>1. x \in Seq(S) /\ y \in Seq(S) /\ z \in Seq(S)
        OBVIOUS
    <2>2. /\ Len(x) = 2 /\ x[1] = a /\ x[2] = b
          /\ Len(y) = 2 /\ y[1] = c /\ y[2] = d
          /\ Len(z) = 4 /\ z[1] = a /\ z[2] = b /\ z[3] = c /\ z[4] = d
        OBVIOUS
    <2> HIDE DEF x, y, z, S
    <2>3. \A i \in 1..Len(z) : z[i] = IF i <= Len(x) THEN x[i] ELSE y[i - Len(x)]
        BY <2>2
    <2>4. Len(z) = Len(x) + Len(y)
        BY <2>2
    <2>5. x \o y = z
        BY <2>1, <2>3, <2>4, JoinIs
    <2> QED
        BY <2>5 DEF x, y, z
<1> QED
    BY <1>1, <1>2, <1>3

\* Suspending, removing and purging end the logins.
LEMMA SuspendSettles ==
    ASSUME AllIn, NEW id \in Ids
    PROVE  Settles(<<Stmt("suspended", id, TRUE)>> \o EndEverything(id))
<1>0. PICK a, b, c : /\ a = Stmt("suspended", id, TRUE)
                     /\ b = Stmt("endLogins", id, 0)
                     /\ c = Stmt("dropCode", users[id].email, 0)
    OBVIOUS
<1>1. /\ a.do = "suspended" /\ a.of = id
      /\ b.do = "endLogins" /\ b.of = id
      /\ c.do = "dropCode"
    BY <1>0 DEF Stmt
<1>2. <<Stmt("suspended", id, TRUE)>> \o EndEverything(id) = <<a, b, c>>
    BY <1>0, Tuples DEF EndEverything
<1>3. Ends(<<b, c>>, id)
    BY <1>1 DEF Ends, AllIn, AllInBut, Mild
<1>4. Suspends(<<a, b, c>>, id)
    BY <1>1, <1>3 DEF Suspends
<1> QED
    BY <1>2, <1>4 DEF Settles

LEMMA EndSettles ==
    ASSUME AllIn, NEW id \in Ids, NEW a, a.do \in {"removed", "delete"}, a.of = id
    PROVE  Settles(EndEverything(id) \o <<a>>)
<1>0. PICK b, c : /\ b = Stmt("endLogins", id, 0)
                  /\ c = Stmt("dropCode", users[id].email, 0)
    OBVIOUS
<1>1. b.do = "endLogins" /\ b.of = id /\ c.do = "dropCode"
    BY <1>0 DEF Stmt
<1>2. EndEverything(id) \o <<a>> = <<b, c, a>>
    BY <1>0, Tuples DEF EndEverything
<1>3. Ends(<<b, c, a>>, id)
    BY <1>1 DEF Ends, AllIn, AllInBut, Mild
<1> QED
    BY <1>2, <1>3 DEF Settles

\* Whoever is logged in may be by then, and is no longer removed.
LEMMA LogsInSettles ==
    ASSUME AllIn, NEW id \in Ids, NEW d, d.do = "dropCode"
    PROVE  /\ MayLogIn(id) => Settles(LogsIn(id)) /\ Settles(<<d>> \o LogsIn(id))
           /\ \A b : /\ b.of = id
                     /\ \/ b.do = "owner" /\ id \in DOMAIN users
                        \/ b.do = "insert" /\ b.to.suspended = FALSE
                     => Settles(<<d, b>> \o LogsIn(id))
<1>0. PICK l, r : l = Stmt("login", id, 0) /\ r = Stmt("removed", id, Kept)
    OBVIOUS
<1>1. l.do = "login" /\ l.of = id
    BY <1>0 DEF Stmt
<1>2. LogsIn(id) = <<l, r>>
    BY <1>0 DEF LogsIn
<1>3. ASSUME MayLogIn(id)
      PROVE  Settles(LogsIn(id)) /\ Settles(<<d>> \o LogsIn(id))
    <2>1. LogsThemIn(<<l, r>>, id)
        BY <1>0, <1>1, <1>3 DEF LogsThemIn
    <2>2. LogsThemIn(<<d, l, r>>, id)
        BY <1>0, <1>1, <1>3 DEF LogsThemIn
    <2>3. <<d>> \o LogsIn(id) = <<d, l, r>>
        BY <1>2, Tuples
    <2> QED
        BY <1>2, <2>1, <2>2, <2>3 DEF Settles
<1>4. ASSUME NEW b, b.of = id,
             \/ b.do = "owner" /\ id \in DOMAIN users
             \/ b.do = "insert" /\ b.to.suspended = FALSE
      PROVE  Settles(<<d, b>> \o LogsIn(id))
    <2>1. <<d, b>> \o LogsIn(id) = <<d, b, l, r>>
        BY <1>2, Tuples
    <2>2. LogsThemIn(<<d, b, l, r>>, id)
        <3> DEFINE q == <<d, b, l, r>>
        <3>1. Len(q) = 4 /\ q[1] = d /\ q[2] = b /\ q[3] = l /\ q[4] = r
            OBVIOUS
        <3> HIDE DEF q
        <3>2. 2 \in 1..(Len(q) - 2) /\ \A i \in 1..(Len(q) - 2) : i = 1 \/ i = 2
            BY <3>1
        <3>3. LogsThemIn(q, id)
            BY <1>0, <1>1, <1>4, <3>1, <3>2 DEF LogsThemIn
        <3> QED
            BY <3>3 DEF q
    <2> QED
        BY <2>1, <2>2 DEF Settles
<1> QED
    BY <1>3, <1>4

\* A session holds Settled through each operation and each statement.
LEMMA SettledOfAUser ==
    ASSUME Inv, NEW p \in Processes, Settles(doing[p]), NEW id \in DOMAIN users,
           \/ \E role \in {"user", "owner"} : SetRole(p, id, role)
           \/ Suspend(p, id) \/ LetBack(p, id)
           \/ Remove(p, id) \/ Restore(p, id)
           \/ LogIn(p, id)
    PROVE  Settles(doing[p])'
<1>0. id \in Ids
    BY RowsOf DEF Inv
<1>1. CASE \E role \in {"user", "owner"} : SetRole(p, id, role)
    <2>1. PICK role \in {"user", "owner"} : Run(p, <<Stmt("role", id, role)>>)
        BY <1>1 DEF SetRole
    <2>2. Mild(Stmt("role", id, role))
        BY DEF Mild, Stmt
    <2> QED
        BY <2>1, <2>2, TheMildStart
<1>2. CASE LetBack(p, id)
    <2>1. Mild(Stmt("suspended", id, FALSE))
        BY DEF Mild, Stmt
    <2> QED
        BY <1>2, <2>1, TheMildStart DEF LetBack
<1>3. CASE Restore(p, id)
    <2>1. Mild(Stmt("removed", id, Kept))
        BY DEF Mild, Stmt
    <2> QED
        BY <1>3, <2>1, TheMildStart DEF Restore
<1>4. CASE Suspend(p, id)
    <2>1. PICK t : t = <<Stmt("suspended", id, TRUE)>> \o EndEverything(id)
        OBVIOUS
    <2>2. Run(p, t)
        BY <1>4, <2>1 DEF Suspend
    <2>3. AllIn => Settles(t)
        BY <1>0, <2>1, SuspendSettles
    <2> QED
        BY <2>2, <2>3, Started DEF Run, tables
<1>5. CASE Remove(p, id)
    <2>1. PICK a, t : a = Stmt("removed", id, RemovalWait) /\ t = EndEverything(id) \o <<a>>
        OBVIOUS
    <2>2. Run(p, t)
        BY <1>5, <2>1 DEF Remove
    <2>3. a.do = "removed" /\ a.of = id
        BY <2>1 DEF Stmt
    <2>4. AllIn => Settles(t)
        BY <1>0, <2>1, <2>3, EndSettles
    <2> QED
        BY <2>2, <2>4, Started DEF Run, tables
<1>6. CASE LogIn(p, id)
    <2>1. PICK t : t = LogsIn(id)
        OBVIOUS
    <2>2. Run(p, t) /\ MayLogIn(id)
        BY <1>6, <2>1 DEF LogIn, MayLogIn
    <2>3. [do |-> "dropCode"].do = "dropCode"
        OBVIOUS
    <2>4. AllIn => Settles(t)
        BY <1>0, <2>1, <2>2, <2>3, LogsInSettles
    <2> QED
        BY <2>2, <2>4, Started DEF Run, tables
<1> QED
    BY <1>1, <1>2, <1>3, <1>4, <1>5, <1>6

LEMMA SettledOfACode ==
    ASSUME Inv, NEW p \in Processes, Settles(doing[p]), NEW email,
           \/ \E role \in {"user", "owner"} : Add(p, email, role)
           \/ IssueCode(p, email) \/ CodeToMail(p, email) \/ CodeToClaim(p, email)
           \/ WrongCode(p, email) \/ CheckCode(p, email)
    PROVE  Settles(doing[p])'
<1>1. \A how : Mild(Stmt("code", email, how))
    BY DEF Mild, Stmt
<1>2. \A do \in {"dropCode", "tried"} : Mild(Stmt(do, email, 0))
    BY DEF Mild, Stmt
<1>3. \A id, role : Mild(InsertUser(id, email, role))
    BY DEF Mild, InsertUser, Stmt
<1>4. CASE IssueCode(p, email) \/ CodeToMail(p, email) \/ CodeToClaim(p, email)
    BY <1>1, <1>4, TheMildStart DEF IssueCode, CodeToMail, CodeToClaim, StoreCode
<1>5. CASE WrongCode(p, email)
    BY <1>2, <1>5, TheMildStart DEF WrongCode, SpendWrong
<1>6. CASE CheckCode(p, email)
    BY <1>2, <1>6, TheMildStart DEF CheckCode
<1>7. CASE \E role \in {"user", "owner"} : Add(p, email, role)
    BY <1>3, <1>7, TheMildStart DEF Add
<1> QED
    BY <1>4, <1>5, <1>6, <1>7

LEMMA SettledOfALogin ==
    ASSUME Inv, NEW p \in Processes, Settles(doing[p]), NEW email,
           Redeem(p, email) \/ ClaimOwner(p, email)
    PROVE  Settles(doing[p])'
<1>0. PICK d : d = Stmt("dropCode", email, 0)
    OBVIOUS
<1>1. d.do = "dropCode" /\ Mild(d)
    BY <1>0 DEF Mild, Stmt
<1>2. IdsOf(email) \subseteq DOMAIN users /\ DOMAIN users \subseteq Ids /\ Fresh \subseteq Ids
    BY DEF IdsOf, Inv, Types, Fresh
<1>3. CASE Run(p, <<d>>)
    BY <1>1, <1>3, TheMildStart
<1>4. ASSUME NEW id \in Ids, MayLogIn(id), Run(p, <<d>> \o LogsIn(id))
      PROVE  Settles(doing[p])'
    <2>1. AllIn => Settles(<<d>> \o LogsIn(id))
        BY <1>1, <1>4, LogsInSettles
    <2> QED
        BY <1>4, <2>1, Started DEF Run, tables
<1>5. ASSUME NEW id \in Ids, NEW b, b.of = id, Run(p, <<d, b>> \o LogsIn(id)),
             \/ b.do = "owner" /\ id \in DOMAIN users
             \/ b.do = "insert" /\ b.to.suspended = FALSE
      PROVE  Settles(doing[p])'
    <2>1. AllIn => Settles(<<d, b>> \o LogsIn(id))
        BY <1>1, <1>5, LogsInSettles
    <2> QED
        BY <1>5, <2>1, Started DEF Run, tables
<1>6. CASE Redeem(p, email)
    <2>1. CASE \E id \in IdsOf(email) :
                  ~users[id].suspended /\ Run(p, <<d>> \o LogsIn(id))
        BY <1>2, <1>4, <2>1 DEF MayLogIn
    <2> QED
        BY <1>0, <1>3, <1>6, <2>1 DEF Redeem
<1>7. CASE ClaimOwner(p, email)
    <2>1. CASE \E id \in IdsOf(email) : Run(p, <<d, Stmt("owner", id, 0)>> \o LogsIn(id))
        <3>1. PICK id \in IdsOf(email) : Run(p, <<d, Stmt("owner", id, 0)>> \o LogsIn(id))
            BY <2>1
        <3>2. PICK b : b = Stmt("owner", id, 0)
            OBVIOUS
        <3>3. b.of = id /\ b.do = "owner"
            BY <3>2 DEF Stmt
        <3> QED
            BY <1>2, <1>5, <3>1, <3>2, <3>3
    <2>2. CASE \E id \in Fresh : Run(p, <<d, InsertUser(id, email, "owner")>> \o LogsIn(id))
        <3>1. PICK id \in Fresh : Run(p, <<d, InsertUser(id, email, "owner")>> \o LogsIn(id))
            BY <2>2
        <3>2. PICK b : b = InsertUser(id, email, "owner")
            OBVIOUS
        <3>3. b.of = id /\ b.do = "insert" /\ b.to.suspended = FALSE
            BY <3>2 DEF InsertUser, Stmt
        <3> QED
            BY <1>2, <1>5, <3>1, <3>2, <3>3
    <2> QED
        BY <1>0, <1>7, <2>1, <2>2 DEF ClaimOwner
<1> QED
    BY <1>6, <1>7

LEMMA SettledOfAPurge ==
    ASSUME Inv, NEW p \in Processes, Settles(doing[p]), DeleteRow(p)
    PROVE  Settles(doing[p])'
<1>0. PICK id : id = Head(deleting).id
    OBVIOUS
<1>1. /\ Idle(p) /\ users' = users /\ logins' = logins
      /\ doing' = [doing EXCEPT ![p] = Purge(id)]
    BY <1>0 DEF DeleteRow, tables
<1>2. CASE id \in DOMAIN users /\ IsRemoved(id)
    <2>1. PICK a, t : a = Stmt("delete", id, 0) /\ t = EndEverything(id) \o <<a>>
        OBVIOUS
    <2>2. a.do = "delete" /\ a.of = id
        BY <2>1 DEF Stmt
    <2>3. id \in Ids
        BY <1>2, RowsOf DEF Inv
    <2>4. AllIn => Settles(t)
        BY <2>1, <2>2, <2>3, EndSettles
    <2>5. Purge(id) = t
        BY <1>2, <2>1 DEF Purge
    <2> QED
        BY <1>1, <2>4, <2>5, Started
<1>3. CASE ~(id \in DOMAIN users /\ IsRemoved(id))
    <2>1. PICK t : t = <<>>
        OBVIOUS
    <2>2. AllIn => Settles(t)
        BY <2>1 DEF Settles, IsMild
    <2>3. Purge(id) = t
        BY <1>3, <2>1 DEF Purge
    <2> QED
        BY <1>1, <2>2, <2>3, Started
<1> QED
    BY <1>2, <1>3

\* Nobody is out after a tick who was not.
LEMMA InAfterATick ==
    ASSUME Inv, AllIn, Tick
    PROVE  AllIn'
<1>1. ASSUME NEW id, In(id)
      PROVE  In(id)'
    <2>1. id \in DOMAIN users /\ users[id] \in Rows
        BY <1>1, RowsOf DEF In, MayLogIn, Inv
    <2>2. users'[id] = [users[id] EXCEPT !.removed = IF @ > 0 THEN @ - 1 ELSE @]
          /\ DOMAIN users' = DOMAIN users
        BY <2>1 DEF Tick
    <2>3. users[id].removed = -1 /\ ~users[id].suspended
        BY <1>1 DEF In, MayLogIn, IsRemoved, Kept
    <2>4. users'[id].removed = -1 /\ ~users'[id].suspended
        BY <2>1, <2>2, <2>3 DEF Rows
    <2> QED
        BY <2>1, <2>2, <2>4 DEF In, MayLogIn, IsRemoved, Kept
<1>2. \A login \in logins' : \E l \in logins : login[1] = l[1]
    BY DEF Tick
<1> QED
    BY <1>1, <1>2 DEF AllIn

LEMMA SettledAtRest ==
    ASSUME Inv, NEW p \in Processes, Settles(doing[p]),
           Tick \/ \E id : LogOut(p, id)
    PROVE  Settles(doing[p])'
<1>1. doing[p] = <<>> /\ doing' = doing
    BY DEF Tick, LogOut, Idle
<1>2. AllIn
    BY <1>1, AtRest
<1>3. CASE Tick
    BY <1>1, <1>2, <1>3, InAfterATick DEF Settles, IsMild
<1>4. CASE \E id : LogOut(p, id)
    <2>1. users' = users /\ logins' \subseteq logins
        BY <1>4 DEF LogOut
    <2>2. AllIn'
        BY <1>2, <2>1 DEF AllIn, In, MayLogIn, IsRemoved
    <2> QED
        BY <1>1, <2>2 DEF Settles, IsMild
<1> QED
    BY <1>3, <1>4

LEMMA SettledStep ==
    ASSUME UsersAssumption, OneProcess, Inv, Settled, [Next]_vars
    PROVE  Settled'
<1>1. ASSUME NEW p \in Processes, crashes' = crashes,
             crashes = 0 /\ Settles(doing[p]) => Settles(doing[p])'
      PROVE  Settled'
    BY <1>1 DEF Settled, OneProcess
<1>2. ASSUME users' = users, logins' = logins, doing' = doing, crashes' = crashes
      PROVE  Settled'
    <2>1. AllIn' <=> AllIn
        BY <1>2 DEF AllIn, In, MayLogIn, IsRemoved
    <2>2. ASSUME NEW p, Settles(doing[p])
          PROVE  Settles(doing[p])'
        <3>1. PICK t : t = doing[p]
            OBVIOUS
        <3>2. doing'[p] = t /\ Settles(t)
            BY <1>2, <2>2, <3>1
        <3> QED
            BY <1>2, <3>2, SameState
    <2> QED
        BY <1>2, <2>1, <2>2 DEF Settled
<1>3. ASSUME NEW p \in Processes, OfAUser(p)
      PROVE  Settled'
    <2>1. PICK id \in DOMAIN users :
            \/ \E role \in {"user", "owner"} : SetRole(p, id, role)
            \/ Suspend(p, id) \/ LetBack(p, id)
            \/ Remove(p, id) \/ Restore(p, id)
            \/ LogIn(p, id) \/ LogOut(p, id) \/ Work(p, id)
        BY <1>3 DEF OfAUser
    <2>2. CASE Work(p, id)
        BY <1>2, <2>2 DEF Work, tables
    <2>3. CASE LogOut(p, id)
        <3>1. crashes' = crashes
            BY <2>3 DEF LogOut
        <3>2. Settles(doing[p]) => Settles(doing[p])'
            BY <2>3, SettledAtRest
        <3> QED
            BY <1>1, <3>1, <3>2
    <2>4. CASE ~(LogOut(p, id) \/ Work(p, id))
        <3>1. crashes' = crashes
            BY <2>1, <2>4 DEF SetRole, Suspend, LetBack, Remove, Restore, LogIn, Run
        <3>2. Settles(doing[p]) => Settles(doing[p])'
            BY <2>1, <2>4, SettledOfAUser
        <3> QED
            BY <1>1, <3>1, <3>2
    <2> QED
        BY <2>2, <2>3, <2>4
<1>4. ASSUME NEW p \in Processes, OfAnAddress(p)
      PROVE  Settled'
    <2>1. PICK email :
            \/ \E role \in {"user", "owner"} : Add(p, email, role)
            \/ IssueCode(p, email) \/ CodeToMail(p, email) \/ CodeToClaim(p, email)
            \/ WrongCode(p, email) \/ CheckCode(p, email)
            \/ Redeem(p, email) \/ ClaimOwner(p, email)
        BY <1>4 DEF OfAnAddress
    <2>2. crashes' = crashes
        BY <2>1 DEF Add, IssueCode, CodeToMail, CodeToClaim, WrongCode, CheckCode, Redeem,
                    ClaimOwner, Run
    <2>3. Settles(doing[p]) => Settles(doing[p])'
        BY <2>1, SettledOfACode, SettledOfALogin
    <2> QED
        BY <1>1, <2>2, <2>3
<1>5. ASSUME NEW p \in Processes, RunStatement(p)
      PROVE  Settled'
    <2>1. crashes' = crashes
        BY <1>5, Statement
    <2> QED
        BY <1>1, <1>5, <2>1, Executed
<1>6. ASSUME NEW p \in Processes, Deletes(p)
      PROVE  Settled'
    <2>1. CASE DeleteRow(p)
        <3>1. crashes' = crashes
            BY <2>1 DEF DeleteRow
        <3> QED
            BY <1>1, <2>1, <3>1, SettledOfAPurge
    <2>2. CASE Due(p) \/ (\E id \in due : AskAgain(p, id)) \/ DeleteData
        BY <1>2, <2>2 DEF Due, AskAgain, DeleteData, tables
    <2> QED
        BY <1>6, <2>1, <2>2 DEF Deletes
<1>7. CASE \E p \in Processes : Crash(p)
    <2>1. crashes' = crashes + 1
        BY <1>7 DEF Crash
    <2> QED
        BY <2>1 DEF Settled
<1>8. CASE Tick
    <2>1. crashes' = crashes
        BY <1>8 DEF Tick
    <2>2. CASE Processes = {}
        BY <1>8, <2>1, <2>2, InAfterATick DEF Settled
    <2>3. CASE Processes # {}
        BY <1>1, <1>8, <2>1, <2>3, SettledAtRest
    <2> QED
        BY <2>2, <2>3
<1>9. CASE UNCHANGED vars
    BY <1>2, <1>9 DEF vars, tables
<1>10. CASE DeleteFails \/ (\E m \in mails : MailArrives(m))
            \/ (\E p \in Processes, m \in mails : MailFails(p, m))
    BY <1>2, <1>10 DEF DeleteFails, MailArrives, MailFails, tables
<1> QED
    BY <1>3, <1>4, <1>5, <1>6, <1>7, <1>8, <1>9, <1>10 DEF Next

LEMMA SettledInitially == Init => Settled
<1> SUFFICES ASSUME Init
             PROVE  Settled
    OBVIOUS
<1>1. AllIn /\ crashes = 0 /\ \A p \in Processes : doing[p] = <<>>
    BY DEF Init, AllIn
<1>2. Settles(<<>>)
    BY <1>1 DEF Settles, IsMild
<1> QED
    BY <1>1, <1>2 DEF Settled

LEMMA TheSettledAreIn ==
    ASSUME Settled
    PROVE  TheOutHaveNoLogin
<1> SUFFICES ASSUME crashes = 0, \A p \in Processes : Idle(p)
             PROVE  AllIn
    BY DEF TheOutHaveNoLogin, AllIn, In, MayLogIn
<1>1. CASE Processes = {}
    BY <1>1 DEF Settled
<1>2. CASE Processes # {}
    BY <1>2, AtRest DEF Settled, Idle
<1> QED
    BY <1>1, <1>2

\* Between two operations, none of which was cut off, nobody suspended, removed
\* or deleted has a login: set_suspended, remove, purge, redeem, log_in and
\* claim_owner, each at whichever of its statements, while one process has the
\* database open.
THEOREM TheOutAreLoggedOut ==
    ASSUME OneProcess
    PROVE  Spec => []TheOutHaveNoLogin
<1>1. Init => Inv /\ Settled
    BY Initially, SettledInitially
<1>2. Inv /\ Settled /\ [Next]_vars => Inv' /\ Settled'
    BY UsersAssumption, EachStep, SettledStep
<1>3. Settled => TheOutHaveNoLogin
    BY TheSettledAreIn
<1> QED
    BY <1>1, <1>2, <1>3, PTL DEF Spec
=============================================================================
