----------------------------- MODULE LinkProofs -----------------------------
(***************************************************************************)
(* Proofs about Link, for any luus, names, accounts, places and bounds: a     *)
(* link is filed exactly while its connection is up and untold.               *)
(*                                                                         *)
(* FiledWhileUp is inductive once it is known what a connection has been let   *)
(* in as when it is filed, and that the sweep meets no newer connection in the  *)
(* place of one it saw.                                                       *)
(***************************************************************************)
EXTENDS Link, TLAPS

Stages == {"gone", "auth", "refused", "authed", "filed"}

ConnsTyped == conns \in [Conns -> [stage: Stages, name: Names \cup {NoOne},
                                   user: Users \cup {NoOne}, told: BOOLEAN, cut: BOOLEAN]]

LinksTyped == links \in [Keys -> Conns \cup {NoOne}]

Typed ==
    /\ ConnsTyped /\ LinksTyped
    /\ account \in [Homes -> Users \cup {NoOne}]
    /\ dialing \in [Homes -> [at: {"off", "dialing", "asking", "up"}, name: Names,
                              conn: Conns \cup {NoOne}]]

\* What a connection is let in as, before it asks for its link.
LetIn ==
    \A c \in Conns :
        /\ conns[c].stage # "gone" => conns[c].name \in Names
        /\ conns[c].stage \in {"authed", "filed"} => conns[c].user \in Users
        /\ conns[c].told => conns[c].stage = "filed"

\* What the sweep still has to look at is filed or gone.
Sweepable ==
    \A c \in sweeping : c \in Conns /\ conns[c].stage \in {"filed", "gone"}

Inv == Typed /\ LetIn /\ Sweepable /\ FiledWhileUp

LEMMA Starts == Init => Inv
<1> SUFFICES ASSUME Init PROVE Inv
    OBVIOUS
<1>1. Typed
    <2>1. Gone \in [stage: Stages, name: Names \cup {NoOne}, user: Users \cup {NoOne},
                    told: BOOLEAN, cut: BOOLEAN]
        BY DEF Gone, Stages
    <2>2. ConnsTyped
        BY <2>1 DEF Init, ConnsTyped
    <2> QED
        BY <2>2 DEF Init, Typed, LinksTyped, Task
<1>2. LetIn
    BY DEF Init, LetIn, Gone
<1>3. FiledWhileUp
    BY DEF Init, FiledWhileUp, Gone
<1>4. Sweepable
    BY DEF Init, Sweepable
<1> QED
    BY <1>1, <1>2, <1>3, <1>4 DEF Inv

-----------------------------------------------------------------------------
\* What one connection becomes keeps the types of them all.
LEMMA ConnBecomes ==
    ASSUME ConnsTyped, NEW c \in Conns,
           NEW r \in [stage: Stages, name: Names \cup {NoOne}, user: Users \cup {NoOne},
                      told: BOOLEAN, cut: BOOLEAN],
           conns' = [conns EXCEPT ![c] = r]
    PROVE  ConnsTyped'
BY DEF ConnsTyped

\* The task of one luu keeps the types of them all.
LEMMA TaskBecomes ==
    ASSUME Typed, NEW h \in Homes, NEW at \in {"off", "dialing", "asking", "up"},
           NEW c \in Conns \cup {NoOne}, Goes(h, at, c)
    PROVE  dialing' \in [Homes -> [at: {"off", "dialing", "asking", "up"}, name: Names,
                                   conn: Conns \cup {NoOne}]]
BY DEF Typed, Goes, Task

\* A step that changes neither the connections nor what is filed.
LEMMA NothingFiled ==
    ASSUME Inv, UNCHANGED <<conns, links>>
    PROVE  ConnsTyped' /\ LinksTyped' /\ LetIn' /\ FiledWhileUp'
BY DEF Inv, Typed, ConnsTyped, LinksTyped, LetIn, FiledWhileUp

LEMMA AuthKeeps == ASSUME Inv, NEW c \in Conns, Auth(c) PROVE Inv'
<1> DEFINE user == account[Home(c)]
           r == [conns[c] EXCEPT !.stage = IF user = NoOne THEN "refused" ELSE "authed",
                                 !.user = user]
<1>1. Home(c) \in Homes
    BY LinkAssumption DEF Home
<1>2. user \in Users \cup {NoOne}
    BY <1>1 DEF Inv, Typed
<1>3. conns' = [conns EXCEPT ![c] = r]
    BY DEF Auth
<1>4. ConnsTyped'
    <2>1. r \in [stage: Stages, name: Names \cup {NoOne}, user: Users \cup {NoOne},
                 told: BOOLEAN, cut: BOOLEAN]
        <3>1. PICK x : x = conns[c]
            OBVIOUS
        <3>2. x \in [stage: Stages, name: Names \cup {NoOne}, user: Users \cup {NoOne},
                     told: BOOLEAN, cut: BOOLEAN]
            BY <3>1 DEF Inv, Typed, ConnsTyped
        <3>3. PICK to \in {"refused", "authed"} : r = [x EXCEPT !.stage = to, !.user = user]
            BY <3>1
        <3> HIDE DEF r, user
        <3> QED
            BY ONLY <1>2, <3>2, <3>3 DEF Stages
    <2> QED
        BY <1>3, <2>1, ConnBecomes DEF Inv, Typed
<1>5. Typed'
    BY <1>4 DEF Inv, Typed, LinksTyped, Auth
<1>6. LetIn'
    BY <1>2, <1>3 DEF Inv, Typed, ConnsTyped, LetIn, Auth
<1>7. FiledWhileUp'
    BY <1>3, LinkAssumption DEF Inv, Typed, ConnsTyped, LinksTyped, FiledWhileUp, Auth
<1>8. Sweepable'
    BY <1>3 DEF Inv, Typed, ConnsTyped, Sweepable, Auth
<1> QED
    BY <1>5, <1>6, <1>7, <1>8 DEF Inv

LEMMA EndsKeeps == ASSUME Inv, NEW c \in Conns, Ends(c) PROVE Inv'
<1>1. Gone \in [stage: Stages, name: Names \cup {NoOne}, user: Users \cup {NoOne},
                told: BOOLEAN, cut: BOOLEAN]
    BY DEF Gone, Stages
<1>2. ConnsTyped'
    BY <1>1, ConnBecomes DEF Inv, Typed, Ends
<1>3. Typed'
    BY <1>2 DEF Inv, Typed, LinksTyped, Ends, Forget
<1>4. LetIn'
    BY DEF Inv, Typed, ConnsTyped, LetIn, Ends, Gone
<1>5. FiledWhileUp'
    BY LinkAssumption DEF Inv, Typed, ConnsTyped, LinksTyped, LetIn, FiledWhileUp, Ends, Gone, Forget, Keys
<1>6. Sweepable'
    BY DEF Inv, Typed, ConnsTyped, Sweepable, Ends, Gone
<1> QED
    BY <1>3, <1>4, <1>5, <1>6 DEF Inv

LEMMA ForwardKeeps == ASSUME Inv, NEW c \in Conns, Forward(c) PROVE Inv'
<1> DEFINE k == <<conns[c].user, conns[c].name>>
           old == links[k]
<1>1. k \in Keys /\ conns[c].stage = "authed"
    BY DEF Inv, LetIn, Forward, Keys
<1>2. old \in Conns \cup {NoOne} /\ old # c
    BY <1>1, LinkAssumption DEF Inv, Typed, LinksTyped, FiledWhileUp
<1>3. links' = [links EXCEPT ![k] = c]
    BY DEF Forward
<1>4. conns' = IF old = NoOne THEN [conns EXCEPT ![c].stage = "filed"]
               ELSE [conns EXCEPT ![c].stage = "filed", ![old].told = TRUE]
    BY DEF Forward, TakesOver, Replaced
<1>5. old # NoOne => conns[old].stage = "filed" /\ ~conns[old].told
    BY <1>1 DEF Inv, FiledWhileUp
<1>6. /\ conns'[c] = [conns[c] EXCEPT !.stage = "filed"]
      /\ old # NoOne => conns'[old] = [conns[old] EXCEPT !.told = TRUE]
      /\ \A d \in Conns \ {c, old} : conns'[d] = conns[d]
      /\ DOMAIN conns' = Conns
      /\ conns' = [d \in Conns |-> conns'[d]]
    BY <1>2, <1>4 DEF Inv, Typed, ConnsTyped
<1>7. \A d \in Conns :
          /\ conns'[d].stage = IF d = c THEN "filed" ELSE conns[d].stage
          /\ conns'[d].told <=> d = old \/ conns[d].told
          /\ conns'[d].name = conns[d].name /\ conns'[d].user = conns[d].user
    <2> TAKE d \in Conns
    <2>1. conns[d] \in [stage: Stages, name: Names \cup {NoOne}, user: Users \cup {NoOne},
                        told: BOOLEAN, cut: BOOLEAN]
        BY DEF Inv, Typed, ConnsTyped
    <2>2. d # NoOne
        BY LinkAssumption
    <2>3. CASE d = c
        BY <1>2, <1>6, <2>1, <2>3
    <2>4. CASE d = old
        BY <1>2, <1>6, <2>1, <2>2, <2>4
    <2>5. CASE d \notin {c, old}
        BY <1>6, <2>5, <2>1
    <2> QED
        BY <2>3, <2>4, <2>5
<1>8. ConnsTyped'
    <2>1. \A d \in Conns : conns'[d] \in [stage: Stages, name: Names \cup {NoOne},
                                         user: Users \cup {NoOne}, told: BOOLEAN,
                                         cut: BOOLEAN]
        <3> TAKE d \in Conns
        <3>1. conns[d] \in [stage: Stages, name: Names \cup {NoOne}, user: Users \cup {NoOne},
                            told: BOOLEAN, cut: BOOLEAN]
            BY DEF Inv, Typed, ConnsTyped
        <3>2. d # NoOne
            BY LinkAssumption
        <3>3. CASE d = c
            BY <1>6, <3>1, <3>3 DEF Stages
        <3>4. CASE d = old
            BY <1>6, <3>1, <3>2, <3>4
        <3> QED
            BY <1>6, <3>1, <3>3, <3>4
    <2> QED
        BY <1>6, <2>1 DEF ConnsTyped
<1>9. LetIn'
    <2> SUFFICES ASSUME NEW d \in Conns
                 PROVE  /\ conns'[d].stage # "gone" => conns'[d].name \in Names
                        /\ conns'[d].stage \in {"authed", "filed"} => conns'[d].user \in Users
                        /\ conns'[d].told => conns'[d].stage = "filed"
        BY DEF LetIn
    <2>1. d # NoOne
        BY LinkAssumption
    <2> QED
        BY <1>1, <1>5, <1>7, <2>1 DEF Inv, LetIn
<1>10. Typed'
    BY <1>3, <1>8 DEF Inv, Typed, LinksTyped, Forward
<1>11. FiledWhileUp'
    <2>1. ASSUME NEW d \in Conns, conns'[d].stage = "filed", ~conns'[d].told
          PROVE  links'[<<conns'[d].user, conns'[d].name>>] = d
        <3>1. CASE d = c
            BY <1>1, <1>3, <1>7, <3>1 DEF Inv, Typed, LinksTyped
        <3>2. CASE d # c /\ d # old
            <4>1. conns'[d] = conns[d] /\ links[<<conns[d].user, conns[d].name>>] = d
                BY <1>6, <2>1, <3>2 DEF Inv, FiledWhileUp
            <4>2. <<conns[d].user, conns[d].name>> # k
                BY <3>2, <4>1
            <4> QED
                BY <1>3, <4>1, <4>2 DEF Inv, Typed, LinksTyped
        <3>3. CASE d # c /\ d = old
            BY <1>7, <2>1, <3>3
        <3> QED
            BY <3>1, <3>2, <3>3
    <2>2. ASSUME NEW n \in Keys, links'[n] # NoOne
          PROVE  /\ conns'[links'[n]].stage = "filed" /\ ~conns'[links'[n]].told
                 /\ n = <<conns'[links'[n]].user, conns'[links'[n]].name>>
        <3>1. CASE n = k
            <4>1. links'[n] = c
                BY <1>1, <1>3, <3>1 DEF Inv, Typed, LinksTyped
            <4>2. ~conns[c].told
                BY <1>1 DEF Inv, LetIn
            <4> QED
                BY <1>6, <3>1, <4>1, <4>2 DEF Inv, Typed, ConnsTyped
        <3>2. CASE n # k
            <4>1. links'[n] = links[n]
                BY <1>3, <3>2 DEF Inv, Typed, LinksTyped
            <4>2. /\ conns[links[n]].stage = "filed" /\ ~conns[links[n]].told
                  /\ n = <<conns[links[n]].user, conns[links[n]].name>>
                BY <2>2, <4>1 DEF Inv, FiledWhileUp
            <4>3. links[n] # old
                <5>1. old # NoOne => k = <<conns[old].user, conns[old].name>>
                    BY <1>1 DEF Inv, FiledWhileUp
                <5> QED
                    BY <2>2, <3>2, <4>1, <4>2, <5>1
            <4>4. conns'[links[n]] = conns[links[n]]
                BY <1>1, <1>6, <2>2, <4>1, <4>2, <4>3 DEF Inv, Typed, LinksTyped
            <4> QED
                BY <4>1, <4>2, <4>4
        <3> QED
            BY <3>1, <3>2
    <2> QED
        BY <2>1, <2>2 DEF FiledWhileUp
<1>12. Sweepable'
    BY <1>1, <1>7 DEF Inv, Sweepable, Forward
<1> QED
    BY <1>9, <1>10, <1>11, <1>12 DEF Inv

LEMMA SweepKeeps == ASSUME Inv, NEW c \in Conns, Sweep(c) PROVE Inv'
<1>1. CASE Up(c) /\ ~Still(c)
    <2>1. links' = Forget(c) /\ conns' = [conns EXCEPT ![c].told = TRUE]
        BY <1>1 DEF Sweep
    <2>2. conns[c].stage = "filed"
        BY <1>1 DEF Inv, Sweepable, Sweep, Up
    <2>3. ConnsTyped'
        BY <2>1 DEF Inv, Typed, ConnsTyped
    <2>4. Typed'
        BY <2>1, <2>3 DEF Inv, Typed, LinksTyped, Forget, Sweep
    <2>5. LetIn'
        BY <2>1, <2>2 DEF Inv, Typed, ConnsTyped, LetIn
    <2>6. FiledWhileUp'
        BY <2>1, LinkAssumption
        DEF Inv, Typed, ConnsTyped, LinksTyped, LetIn, FiledWhileUp, Forget, Keys
    <2>7. Sweepable'
        BY <2>1 DEF Inv, Typed, ConnsTyped, Sweepable, Sweep
    <2> QED
        BY <2>4, <2>5, <2>6, <2>7 DEF Inv
<1>2. CASE ~(Up(c) /\ ~Still(c))
    <2>1. UNCHANGED <<conns, links, account, dialing>> /\ sweeping' \subseteq sweeping
        BY <1>2 DEF Sweep
    <2> QED
        BY <2>1, NothingFiled DEF Inv, Typed, Sweepable
<1> QED
    BY <1>1, <1>2

LEMMA ConnectKeeps == ASSUME Inv, NEW h \in Homes, Connect(h) PROVE Inv'
<1>1. PICK c \in Conns :
          /\ conns[c].stage = "gone" /\ c \notin sweeping
          /\ conns' = [conns EXCEPT ![c] = [Gone EXCEPT !.stage = "auth",
                                                       !.name = dialing[h].name]]
          /\ Goes(h, "asking", c)
    BY DEF Connect, Places, Up
<1>2. dialing[h].name \in Names
    BY DEF Inv, Typed
<1> DEFINE r == [Gone EXCEPT !.stage = "auth", !.name = dialing[h].name]
<1>3. /\ r \in [stage: Stages, name: Names \cup {NoOne}, user: Users \cup {NoOne},
                 told: BOOLEAN, cut: BOOLEAN]
      /\ r.stage = "auth" /\ ~r.told /\ r.name \in Names
    BY <1>2 DEF Gone, Stages
<1>4. ConnsTyped'
    <2> HIDE DEF r
    <2> QED
        BY <1>1, <1>3, ConnBecomes DEF Inv, Typed, r
<1>5. dialing' \in [Homes -> [at: {"off", "dialing", "asking", "up"}, name: Names,
                             conn: Conns \cup {NoOne}]]
    BY <1>1, TaskBecomes DEF Inv
<1>6. Typed'
    BY <1>4, <1>5 DEF Inv, Typed, LinksTyped, Connect
<1>7. conns'[c] = r /\ \A d \in Conns \ {c} : conns'[d] = conns[d]
    BY <1>1 DEF Inv, Typed, ConnsTyped
<1> HIDE DEF r
<1>8. LetIn'
    BY <1>3, <1>7 DEF Inv, LetIn
<1>9. FiledWhileUp'
    <2>1. \A k \in Keys : links[k] # NoOne => links[k] \in Conns \ {c}
        BY <1>1 DEF Inv, Typed, LinksTyped, FiledWhileUp
    <2>2. links' = links
        BY DEF Connect
    <2> QED
        BY <1>3, <1>7, <2>1, <2>2 DEF Inv, FiledWhileUp
<1>10. Sweepable'
    BY <1>1, <1>7 DEF Inv, Sweepable, Connect
<1> QED
    BY <1>6, <1>8, <1>9, <1>10 DEF Inv

\* A step of the luus that leaves the server alone.
LEMMA DialsKeep ==
    ASSUME Inv, UNCHANGED <<account, server>>,
           dialing' \in [Homes -> [at: {"off", "dialing", "asking", "up"}, name: Names,
                                  conn: Conns \cup {NoOne}]]
    PROVE  Inv'
BY NothingFiled DEF Inv, Typed, Sweepable, server

LEMMA StepKeeps == Inv /\ [Next]_vars => Inv'
<1> SUFFICES ASSUME Inv, [Next]_vars PROVE Inv'
    OBVIOUS
<1>1. CASE SweepStarts
    <2>1. \A c \in sweeping' : c \in Conns /\ conns[c].stage = "filed"
        <3> SUFFICES ASSUME NEW c \in Conns, Filed(c) PROVE conns[c].stage = "filed"
            BY <1>1 DEF SweepStarts
        <3>1. PICK k \in Keys : links[k] = c
            BY DEF Filed
        <3>2. links[k] # NoOne
            BY <3>1, LinkAssumption
        <3> QED
            BY <3>1, <3>2 DEF Inv, FiledWhileUp
    <2> QED
        BY <1>1, <2>1, NothingFiled DEF SweepStarts, Inv, Typed, Sweepable
<1>2. ASSUME NEW c \in Conns, Serves(c) \/ Cut(c) PROVE Inv'
    <2>1. CASE Cut(c)
        <3>1. conns' = [conns EXCEPT ![c].cut = TRUE]
            BY <2>1 DEF Cut
        <3>2. \A d \in Conns :
                  /\ conns'[d].stage = conns[d].stage /\ conns'[d].told = conns[d].told
                  /\ conns'[d].name = conns[d].name /\ conns'[d].user = conns[d].user
            BY <3>1 DEF Inv, Typed, ConnsTyped
        <3>3. ConnsTyped'
            BY <3>1 DEF Inv, Typed, ConnsTyped
        <3>4. LetIn'
            BY <3>2 DEF Inv, LetIn
        <3>5. FiledWhileUp'
            <4>1. \A k \in Keys : links[k] \in Conns \cup {NoOne}
                BY DEF Inv, Typed, LinksTyped
            <4>2. links' = links
                BY <2>1 DEF Cut
            <4> QED
                BY <3>2, <4>1, <4>2 DEF Inv, FiledWhileUp
        <3>6. Sweepable'
            BY <2>1, <3>1 DEF Cut, Inv, Typed, ConnsTyped, Sweepable
        <3> QED
            BY <2>1, <3>3, <3>4, <3>5, <3>6 DEF Cut, Inv, Typed, LinksTyped
    <2> QED
        BY <1>2, <2>1, AuthKeeps, ForwardKeeps, EndsKeeps, SweepKeeps DEF Serves
<1>3. ASSUME NEW h \in Homes, Connect(h) \/ Dials(h) \/ Restart(h) \/ ChangeAccount(h)
      PROVE  Inv'
    <2>1. CASE Dials(h)
        <3>1. UNCHANGED <<account, server>>
            BY <2>1 DEF Dials, Fails, Keep, Drops
        <3>2. dialing[h].conn \in Conns \cup {NoOne}
            BY DEF Inv, Typed
        <3>3. Goes(h, "dialing", NoOne) \/ Goes(h, "up", dialing[h].conn)
            BY <2>1 DEF Dials, Fails, Keep, Drops
        <3> QED
            BY <3>1, <3>2, <3>3, TaskBecomes, DialsKeep DEF Inv
    <2>2. CASE Restart(h)
        <3>1. PICK at \in {"off", "dialing"}, name \in Names :
                  dialing' = [dialing EXCEPT ![h] = Task(at, name, NoOne)]
            BY <2>2 DEF Restart, Inv, Typed
        <3> QED
            BY <2>2, <3>1, DialsKeep DEF Restart, Inv, Typed, Task
    <2>3. CASE ChangeAccount(h)
        <3>1. account' \in [Homes -> Users \cup {NoOne}]
            BY <2>3 DEF ChangeAccount, Inv, Typed
        <3> QED
            BY <2>3, <3>1, NothingFiled DEF ChangeAccount, server, Inv, Typed, Sweepable
    <2> QED
        BY <1>3, <2>1, <2>2, <2>3, ConnectKeeps
<1>4. CASE UNCHANGED vars
    BY <1>4, NothingFiled DEF vars, server, Inv, Typed, Sweepable
<1> QED
    BY <1>1, <1>2, <1>3, <1>4 DEF Next

-----------------------------------------------------------------------------
\* Connections, links, accounts and dials keep their types, whoever is let in and
\* whatever ends first: auth_publickey, tcpip_forward, once and dial.
THEOREM LinkTypesHold == Spec => []Typed
<1>1. Spec => []Inv
    BY Starts, StepKeeps, PTL DEF Spec
<1>2. Inv => Typed
    BY DEF Inv
<1> QED
    BY <1>1, <1>2, PTL

\* A link is filed exactly while its connection is up and untold: no end of an
\* older one, no sweep and no other luu of the same name leaves it out, and none
\* it replaced stays open.
THEOREM LinksAreFiled == Spec => []FiledWhileUp
<1>1. Spec => []Inv
    BY Starts, StepKeeps, PTL DEF Spec
<1>2. Inv => FiledWhileUp
    BY DEF Inv
<1> QED
    BY <1>1, <1>2, PTL
=============================================================================
