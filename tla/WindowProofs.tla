---------------------------- MODULE WindowProofs ----------------------------
(***************************************************************************)
(* Of Window, for any spans, costs, rules and number of turns:              *)
(* - while a session lives the two lines only move forward, and what a turn *)
(*   gave up stays given up;                                                *)
(* - what a prompt shows: one body of a path, the newest, and no span left  *)
(*   out that is not shown;                                                 *)
(* - what it costs: a theory of sums over finite sets (Total), the window   *)
(*   as three such sums, that no turn leaves while a prune line would do,   *)
(*   and that what is sent fits.                                            *)
(***************************************************************************)
EXTENDS Window, FiniteSetTheorems, SequenceTheorems, TLAPS

\* A set of naturals that has a member has a least one.
LEMMA MinIsLeast ==
    ASSUME NEW S \in SUBSET Nat, S # {}
    PROVE  Min(S) \in S /\ \A y \in S : Min(S) <= y
<1>1. PICK x \in S : \A y \in S : ~ (<<y, x>> \in OpToRel(<, Nat))
    BY NatLessThanWellFounded, WFMin
<1>2. ASSUME NEW y \in S
      PROVE  x =< y
    <2>1. x \in Nat /\ y \in Nat
        OBVIOUS
    <2>2. ~ (y < x)
        BY <1>1, <2>1 DEF OpToRel
    <2> QED
        BY <2>1, <2>2
<1> QED
    BY <1>2 DEF Min

\* And one that no natural of it exceeds, if it is bounded, a greatest one.
LEMMA MaxIsGreatest ==
    ASSUME NEW n \in Nat, NEW S \in SUBSET 0..n, S # {}
    PROVE  Max(S) \in S /\ \A x \in S : x <= Max(S)
<1> DEFINE Below == {m \in Nat : \A x \in S : x <= m}
<1>1. n \in Below
    OBVIOUS
<1>2. Below \in SUBSET Nat /\ Below # {}
    BY <1>1
<1> DEFINE m == Min(Below)
<1>3. m \in Below /\ \A k \in Below : m <= k
    BY <1>2, MinIsLeast
<1> HIDE DEF m
<1>5. m \in S
    <2>1. SUFFICES ASSUME m \notin S
                   PROVE  FALSE
        OBVIOUS
    <2>2. m \in Nat /\ \A x \in S : x \in Nat /\ x <= m /\ x # m
        BY <1>3, <2>1
    <2>3. PICK x \in S : x \in Nat /\ x <= m /\ x # m
        BY <2>2
    <2>4. m - 1 \in Nat
        BY <2>2, <2>3
    <2>5. m - 1 \in Below
        BY <2>2, <2>4
    <2> QED
        BY <1>3, <2>2, <2>5
<1>6. m \in S /\ \A x \in S : m >= x
    BY <1>3, <1>5
<1>7. Max(S) \in S /\ \A x \in S : Max(S) >= x
    BY <1>6 DEF Max
<1>8. \A x \in S : x \in Nat
    OBVIOUS
<1> QED
    BY <1>7, <1>8

LEMMA MaxOfTwo ==
    ASSUME NEW a \in Nat, NEW b \in Nat
    PROVE  Max({a, b}) \in Nat /\ Max({a, b}) >= a /\ Max({a, b}) >= b
           /\ Max({a, b}) \in {a, b}
<1>1. \E x \in {a, b} : \A y \in {a, b} : x >= y
    BY a >= b \/ b >= a
<1> QED
    BY <1>1 DEF Max

(***************************************************************************)
(* The invariant: the lines stand within the history.                       *)
(***************************************************************************)
Lines ==
    /\ \E S : turns \in Seq(S)
    /\ \E S : view \in Seq(S)
    /\ floor \in 0..Len(turns)
    /\ pruned \in 0..Len(turns)
    /\ budget \in Budget
    /\ resumes \in Nat

\* The floor that fits is never below the one in force.
LEMMA FitsFromTheFloor ==
    ASSUME Lines, NEW room, NEW line, NEW asked
    PROVE  FitsFrom(room, line, asked) \in floor..Len(turns)
<1> DEFINE fits == {i \in Items(floor) :
                        \A j \in Items(floor) :
                            j >= i => WindowTokens(j - 1, line, asked) <= room}
<1>1. Len(turns) \in Nat /\ floor \in 0..Len(turns)
    BY DEF Lines
<1>2. fits \subseteq floor + 1..Len(turns)
    BY DEF Items
<1>3. fits \in SUBSET Nat
    BY <1>1, <1>2
<1>4. FitsFrom(room, line, asked) = IF fits = {} THEN Len(turns) ELSE Min(fits) - 1
    BY DEF FitsFrom
<1> HIDE DEF fits
<1>5. CASE fits = {}
    BY <1>1, <1>4, <1>5
<1>6. CASE fits # {}
    <2>1. Min(fits) \in floor + 1..Len(turns)
        BY <1>2, <1>3, <1>6, MinIsLeast
    <2> QED
        BY <1>1, <1>4, <1>6, <2>1
<1> QED
    BY <1>5, <1>6

LEMMA CutMovesForward ==
    ASSUME Lines, NEW line, NEW asked
    PROVE  Cut(line, asked) \in floor..Len(turns)
<1>1. floor \in floor..Len(turns)
    BY DEF Lines
<1> QED
    BY <1>1, FitsFromTheFloor DEF Cut

LEMMA PruneToMovesForward ==
    ASSUME Lines, NEW target, NEW asked
    PROVE  PruneTo(target, asked) \in pruned..Len(turns)
<1> DEFINE lines == Max({pruned, floor})..Len(turns)
           tokens(l) == WindowTokens(floor, l, asked)
           fits == {l \in lines : tokens(l) <= target}
           best == {l \in lines : \A k \in lines : tokens(l) <= tokens(k)}
<1>1. /\ Len(turns) \in Nat
      /\ floor \in 0..Len(turns)
      /\ pruned \in 0..Len(turns)
    BY DEF Lines
<1>2. Max({pruned, floor}) \in pruned..Len(turns)
    <2>1. pruned \in Nat /\ floor \in Nat
        BY <1>1
    <2> QED
        BY <1>1, <2>1, MaxOfTwo
<1>3. fits \subseteq lines /\ best \subseteq lines
    OBVIOUS
<1>4. PruneTo(target, asked)
        = IF fits # {} THEN Min(fits) ELSE Min(best \cup {Len(turns)})
    BY DEF PruneTo
<1> HIDE DEF tokens, fits, best
<1>5. lines \subseteq pruned..Len(turns) /\ Len(turns) \in pruned..Len(turns)
    BY <1>1, <1>2
<1>6. pruned..Len(turns) \subseteq Nat
    BY <1>1
<1>7. CASE fits # {}
    <2>1. Min(fits) \in fits
        BY <1>3, <1>5, <1>6, <1>7, MinIsLeast
    <2> QED
        BY <1>3, <1>4, <1>5, <1>7, <2>1
<1>8. CASE fits = {}
    <2> DEFINE ends == best \cup {Len(turns)}
    <2>1. ends \subseteq pruned..Len(turns) /\ ends # {}
        BY <1>3, <1>5
    <2>2. Min(ends) \in ends
        BY <1>6, <2>1, MinIsLeast
    <2> QED
        BY <1>4, <1>8, <2>1, <2>2
<1> QED
    BY <1>7, <1>8

LEMMA PruningMovesForward ==
    ASSUME Lines, NEW asked
    PROVE  Pruning(asked) \in pruned..Len(turns)
<1>1. pruned \in pruned..Len(turns)
    BY DEF Lines
<1> QED
    BY <1>1, PruneToMovesForward DEF Pruning

\* What resend_live answers: rules, and never ones that cite less.
LEMMA LiveRulesCiteNoLess ==
    ASSUME NEW asked \in Budget, NEW live \in Budget
    PROVE  /\ LiveRules(asked, live) \in Budget
           /\ Rung(LiveRules(asked, live).results) >= Rung(live.results)
<1>1. \A r \in {"kept", "cited_reads", "cited"} : Rung(r) \in {0, 1, 2}
    BY DEF Rung
<1>2. /\ asked.results \in {"kept", "cited_reads", "cited"}
      /\ live.results \in {"kept", "cited_reads", "cited"}
    BY DEF Budget
<1>3. LiveRules(asked, live) \in Budget
    BY DEF LiveRules, Budget
<1>4. LiveRules(asked, live).results
        = IF Rung(asked.results) < Rung(live.results)
          THEN live.results ELSE asked.results
    BY DEF LiveRules
<1> QED
    BY <1>1, <1>2, <1>3, <1>4

(***************************************************************************)
(* Every step keeps the lines within the history.                           *)
(***************************************************************************)
LEMMA LinesInit == Init => Lines
<1> SUFFICES ASSUME Init
             PROVE  Lines
    OBVIOUS
<1>1. turns \in Seq({}) /\ Len(turns) = 0 /\ view \in Seq({})
    BY DEF Init
<1>2. budget \in Budget
    BY WindowAssumption DEF Init
<1> QED
    BY <1>1, <1>2 DEF Init, Lines

\* The lines that a prompt moves stay within the history.
LEMMA AskKeepsLines == Lines /\ Ask => Lines'
<1> SUFFICES ASSUME Lines, Ask
             PROVE  Lines'
    OBVIOUS
<1>1. PICK asked \in Selections :
            pruned' = Pruning(asked) /\ floor' = Cut(Pruning(asked), asked)
    BY Zenon DEF Ask
<1>2. turns' = turns /\ view' = view /\ budget' = budget /\ resumes' = resumes
    BY DEF Ask
<1>3. pruned' \in pruned..Len(turns)
    BY <1>1, PruningMovesForward
<1>4. floor' \in floor..Len(turns)
    BY <1>1, CutMovesForward
<1>5. Len(turns) \in Nat /\ floor \in Nat /\ pruned \in Nat
    BY DEF Lines
<1>6. floor' \in 0..Len(turns) /\ pruned' \in 0..Len(turns)
    BY <1>3, <1>4, <1>5
<1> QED
    BY <1>2, <1>6 DEF Lines

\* One more at the end leaves those before it as they are.
LEMMA AppendKeeps ==
    ASSUME NEW s, NEW S, s \in Seq(S), NEW t
    PROVE  /\ \E T : Append(s, t) \in Seq(T)
           /\ Len(s) \in Nat /\ Len(Append(s, t)) = Len(s) + 1
           /\ \A i \in 1..Len(s) : Append(s, t)[i] = s[i]
           /\ Append(s, t)[Len(s) + 1] = t
<1>1. s \in Seq(S \cup {t}) /\ t \in S \cup {t}
    OBVIOUS
<1>2. Append(s, t) \in Seq(S \cup {t})
    BY <1>1
<1> QED
    BY <1>1, <1>2

\* A turn that lands leaves those before it as they are.
LEMMA LandAppends ==
    ASSUME Lines, Land
    PROVE  /\ \E S : turns' \in Seq(S)
           /\ \E S : view' \in Seq(S)
           /\ Len(turns') = Len(turns) + 1
           /\ \A i \in 1..Len(turns) : turns'[i] = turns[i]
<1>1. PICK t : turns' = Append(turns, t) /\ view' = Append(view, t)
    BY Zenon DEF Land
<1>2. PICK S : turns \in Seq(S)
    BY DEF Lines
<1>3. PICK V : view \in Seq(V)
    BY DEF Lines
<1> QED
    BY <1>1, <1>2, <1>3, AppendKeeps

\* A turn that produced nothing is one more of the view's.
LEMMA DroppedAppends ==
    ASSUME Lines, Dropped
    PROVE  \E S : view' \in Seq(S)
<1>1. PICK t : view' = Append(view, t)
    BY DEF Dropped
<1>2. PICK V : view \in Seq(V)
    BY DEF Lines
<1> QED
    BY <1>1, <1>2, AppendKeeps

\* A resume has the turns of the view, and some of them are behind the floor.
LEMMA ResumeRestores ==
    ASSUME Lines, Resume
    PROVE  /\ \E S : turns' \in Seq(S)
           /\ Len(turns') = Len(view) /\ Len(view) \in Nat
           /\ floor' \in 0..Len(view)
<1>1. PICK disk \in Disks : turns' = [i \in 1..Len(view) |-> Restored(view[i], disk)]
    BY Zenon DEF Resume
<1> DEFINE R(i) == Restored(view[i], disk)
           S == {R(i) : i \in 1..Len(view)}
           Gone == {n \in 0..Len(view) : 1..n \subseteq left}
<1>2. turns' = [i \in 1..Len(view) |-> R(i)]
    BY <1>1, Zenon
<1>3. Len(view) \in Nat
    BY DEF Lines
<1>4. \A i \in 1..Len(view) : R(i) \in S
    OBVIOUS
<1> HIDE DEF R, S
<1>5. turns' \in Seq(S) /\ Len(turns') = Len(view)
    BY <1>2, <1>3, <1>4
<1>6. Gone \in SUBSET (0..Len(view)) /\ 0 \in Gone
    BY <1>3
<1>7. floor' = Max(Gone)
    BY DEF Resume
<1> HIDE DEF Gone
<1>8. floor' \in Gone
    BY <1>3, <1>6, <1>7, MaxIsGreatest
<1> QED
    BY <1>3, <1>5, <1>6, <1>8

LEMMA LinesNext == Lines /\ [Next]_vars => Lines'
<1> SUFFICES ASSUME Lines, [Next]_vars
             PROVE  Lines'
    OBVIOUS
<1>0. Len(turns) \in Nat
    BY DEF Lines
<1>1. CASE Ask
    BY <1>1, AskKeepsLines
<1>2. CASE Land
    <2>1. floor' = floor /\ pruned' = pruned /\ budget' = budget /\ resumes' = resumes
        BY <1>2 DEF Land
    <2>2. floor' \in 0..Len(turns') /\ pruned' \in 0..Len(turns')
        BY <1>0, <1>2, <2>1, LandAppends DEF Lines
    <2> QED
        BY <1>2, <2>1, <2>2, LandAppends DEF Lines
<1>3. CASE CloseJob \/ ReopenJob \/ Approve \/ UNCHANGED vars
    <2>1. /\ turns' = turns /\ view' = view /\ floor' = floor /\ pruned' = pruned
          /\ budget' = budget /\ resumes' = resumes
        BY <1>3 DEF CloseJob, ReopenJob, Approve, vars, told
    <2> QED
        BY <2>1 DEF Lines
<1>6. CASE Dropped
    <2>1. /\ turns' = turns /\ floor' = floor /\ pruned' = pruned
          /\ budget' = budget /\ resumes' = resumes
        BY <1>6 DEF Dropped
    <2> QED
        BY <1>6, <2>1, DroppedAppends DEF Lines
<1>4. CASE Resend
    <2>1. PICK asked \in Budgets : budget' = LiveRules(asked, budget)
        BY <1>4 DEF Resend
    <2>2. budget' \in Budget
        BY <2>1, LiveRulesCiteNoLess, WindowAssumption DEF Lines
    <2>3. /\ turns' = turns /\ view' = view /\ floor' = floor /\ pruned' = pruned
          /\ resumes' = resumes
        BY <1>4 DEF Resend, told
    <2> QED
        BY <2>2, <2>3 DEF Lines
<1>5. CASE Resume
    <2>1. view' = view /\ pruned' = 0 /\ resumes' = resumes + 1
        BY <1>5 DEF Resume
    <2>2. budget' \in Budget
        BY <1>5, WindowAssumption DEF Resume
    <2>3. floor' \in 0..Len(turns') /\ pruned' \in 0..Len(turns') /\ resumes' \in Nat
        BY <1>5, <2>1, ResumeRestores DEF Lines
    <2> QED
        BY <1>5, <2>1, <2>2, <2>3, ResumeRestores DEF Lines
<1> QED
    BY <1>1, <1>2, <1>3, <1>4, <1>5, <1>6 DEF Next

(***************************************************************************)
(* The theorem.                                                             *)
(***************************************************************************)
GivesNothingBack ==
    resumes' = resumes =>
        /\ floor' >= floor
        /\ \A i \in 1..pruned :
            i <= pruned' /\ OutputCost(turns[i], TRUE)' <= OutputCost(turns[i], TRUE)

\* Under rules that cite no less, no output costs more behind the line.
LEMMA CitingMoreCostsNoMore ==
    ASSUME Lines, NEW turn,
           budget' = budget \/ \E asked \in Budget : budget' = LiveRules(asked, budget)
    PROVE  (IF turn.output = "none" THEN 0
            ELSE IF Cites(budget'.results, turn.output) THEN Cheaper(Cited, Output)
            ELSE Output)
           <= (IF turn.output = "none" THEN 0
               ELSE IF Cites(budget.results, turn.output) THEN Cheaper(Cited, Output)
               ELSE Output)
<1>1. /\ Cited \in Nat /\ Output \in Nat
      /\ Cheaper(Cited, Output) \in Nat /\ Cheaper(Cited, Output) <= Output
    BY WindowAssumption DEF Cheaper
<1>2. Cites(budget.results, turn.output) => Cites(budget'.results, turn.output)
    <2>1. /\ budget.results \in {"kept", "cited_reads", "cited"}
          /\ budget'.results \in {"kept", "cited_reads", "cited"}
          /\ Rung(budget'.results) >= Rung(budget.results)
        <3>1. budget \in Budget
            BY DEF Lines
        <3>2. budget' \in Budget /\ Rung(budget'.results) >= Rung(budget.results)
            <4>1. CASE budget' = budget
                <5>1. Rung(budget.results) \in {0, 1, 2}
                    BY <3>1 DEF Rung, Budget
                <5> QED
                    BY <3>1, <4>1, <5>1
            <4>2. CASE \E asked \in Budget : budget' = LiveRules(asked, budget)
                BY <3>1, <4>2, LiveRulesCiteNoLess
            <4> QED
                BY <4>1, <4>2
        <3> QED
            BY <3>1, <3>2 DEF Budget
    <2>2. /\ Rung("kept") = 0 /\ Rung("cited_reads") = 1 /\ Rung("cited") = 2
        BY DEF Rung
    <2> QED
        BY <2>1, <2>2 DEF Cites
<1> QED
    BY <1>1, <1>2

LEMMA StepGivesNothingBack == Lines /\ [Next]_vars => GivesNothingBack
<1> SUFFICES ASSUME Lines, [Next]_vars, resumes' = resumes
             PROVE  GivesNothingBack
    BY DEF GivesNothingBack
<1>r. ~Resume
    <2> SUFFICES ASSUME Resume
                 PROVE  FALSE
        OBVIOUS
    <2>1. resumes' = resumes + 1
        BY DEF Resume
    <2> QED
        BY <2>1 DEF Lines
<1>0. Len(turns) \in Nat /\ floor \in 0..Len(turns) /\ pruned \in 0..Len(turns)
    BY DEF Lines
<1>1. floor' >= floor
    <2>1. CASE Ask
        <3>1. PICK asked \in Selections : floor' = Cut(Pruning(asked), asked)
            BY <2>1, Zenon DEF Ask
        <3> QED
            BY <1>0, <3>1, CutMovesForward
    <2>2. CASE ~Ask
        <3>1. floor' = floor
            BY <1>r, <2>2 DEF Next, Land, Dropped, CloseJob, ReopenJob, Approve,
                              Resend, vars
        <3> QED
            BY <1>0, <3>1
    <2> QED
        BY <2>1, <2>2
<1>2. ASSUME NEW i \in 1..pruned
      PROVE  i <= pruned' /\ OutputCost(turns[i], TRUE)' <= OutputCost(turns[i], TRUE)
    <2>2. pruned' \in Nat /\ pruned' >= pruned
        <3>1. CASE Ask
            <4>1. PICK asked \in Selections : pruned' = Pruning(asked)
                BY <3>1, Zenon DEF Ask
            <4> QED
                BY <1>0, <4>1, PruningMovesForward
        <3>2. CASE ~Ask
            <4>1. pruned' = pruned
                BY <1>r, <3>2 DEF Next, Land, Dropped, CloseJob, ReopenJob, Approve,
                                  Resend, vars
            <4> QED
                BY <1>0, <4>1
        <3> QED
            BY <3>1, <3>2
    <2>3. turns'[i] = turns[i]
        <3>1. CASE Land
            <4>1. i \in 1..Len(turns)
                BY <1>0
            <4> QED
                BY <3>1, <4>1, LandAppends
        <3>2. CASE ~Land
            <4>1. turns' = turns
                BY <1>r, <3>2 DEF Next, Ask, Dropped, CloseJob, ReopenJob, Approve,
                                  Resend, vars
            <4> QED
                BY <4>1
        <3> QED
            BY <3>1, <3>2
    <2>4. budget' = budget \/ \E asked \in Budget : budget' = LiveRules(asked, budget)
        <3>1. CASE Resend
            BY <3>1, WindowAssumption DEF Resend
        <3>2. CASE ~Resend
            BY <1>r, <3>2 DEF Next, Ask, Land, Dropped, CloseJob, ReopenJob, Approve,
                              vars
        <3> QED
            BY <3>1, <3>2
    <2>5. OutputCost(turns[i], TRUE)' <= OutputCost(turns[i], TRUE)
        BY <2>3, <2>4, CitingMoreCostsNoMore DEF OutputCost
    <2>6. i <= pruned'
        BY <1>0, <2>2
    <2> QED
        BY <2>5, <2>6
<1> QED
    BY <1>1, <1>2 DEF GivesNothingBack

\* Whatever the spans, the costs, the rules and the number of turns: while a
\* session lives, what has left the window never returns to it, and what a turn
\* behind the prune line gave up it never gets back (Context::floor, the ratchet
\* of the prune line, resend_live).
THEOREM NothingIsGivenBack == Spec => WhatIsGivenUpStaysGivenUp
<1>1. Spec => []Lines
    BY LinesInit, LinesNext, PTL DEF Spec
<1>2. Lines /\ [Next]_vars => [GivesNothingBack]_vars
    BY StepGivesNothingBack
<1>3. Spec => [][GivesNothingBack]_vars
    BY <1>1, <1>2, PTL DEF Spec
<1> QED
    BY <1>3 DEF WhatIsGivenUpStaysGivenUp, GivesNothingBack

(***************************************************************************)
(* The jobs and the types, for what a prompt shows.                         *)
(***************************************************************************)
\* A list of jobs is named when each has the number of a place of it, and in
\* order when that place is its own, and only the last can be open: what the
\* draft a resume makes, in front of the others, is not.
Named(s) ==
    /\ s \in Seq(Job)
    /\ \A k \in 1..Len(s) : s[k].id \in 1..Len(s)

InOrder(s) ==
    /\ s \in Seq(Job)
    /\ \A k \in 1..Len(s) : s[k].id = k
    /\ \A k \in 1..Len(s) - 1 : ~IsOpen(s[k])

LEMMA CloseKeepsNames ==
    ASSUME NEW s, Named(s), NEW id, NEW by \in Closer
    PROVE  LET r == CloseJobBy(s, id, by)
           IN  /\ Named(r) /\ Len(r) = Len(s) /\ Len(s) \in Nat
               /\ \A k \in 1..Len(s) :
                    r[k].id = s[k].id /\ (IsOpen(r[k]) => IsOpen(s[k]))
<1> DEFINE r == CloseJobBy(s, id, by)
<1>0. s \in Seq(Job) /\ Len(s) \in Nat
    BY DEF Named
<1>1. /\ r = [k \in 1..Len(s) |->
                IF s[k].id = id /\ IsOpen(s[k]) THEN ClosedBy(s[k], by) ELSE s[k]]
    BY DEF CloseJobBy
<1>2. \A k \in 1..Len(s) :
        /\ r[k] \in Job /\ r[k].id = s[k].id
        /\ IsOpen(r[k]) => IsOpen(s[k])
    <2> SUFFICES ASSUME NEW k \in 1..Len(s)
                 PROVE  /\ r[k] \in Job /\ r[k].id = s[k].id
                        /\ IsOpen(r[k]) => IsOpen(s[k])
        OBVIOUS
    <2>1. s[k] \in Job
        BY <1>0
    <2>2. r[k] = IF s[k].id = id /\ IsOpen(s[k]) THEN ClosedBy(s[k], by) ELSE s[k]
        BY <1>1
    <2>3. /\ ClosedBy(s[k], by) \in Job /\ ClosedBy(s[k], by).id = s[k].id
          /\ ~IsOpen(ClosedBy(s[k], by))
        BY <2>1 DEF ClosedBy, IsOpen, Job
    <2> QED
        BY <2>1, <2>2, <2>3
<1>3. r \in Seq(Job) /\ Len(r) = Len(s)
    BY <1>0, <1>1, <1>2
<1> HIDE DEF r
<1>4. Named(r)
    BY <1>2, <1>3 DEF Named
<1> QED
    BY <1>0, <1>2, <1>3, <1>4 DEF r

LEMMA OrderNames ==
    ASSUME NEW s, InOrder(s)
    PROVE  Named(s)
BY DEF InOrder, Named

LEMMA CloseKeepsOrder ==
    ASSUME NEW s, InOrder(s), NEW id, NEW by \in Closer
    PROVE  InOrder(CloseJobBy(s, id, by))
<1>1. Named(s)
    BY OrderNames
<1>2. PICK r : r = CloseJobBy(s, id, by)
    OBVIOUS
<1>3. /\ Named(r) /\ Len(r) = Len(s) /\ Len(s) \in Nat
      /\ \A k \in 1..Len(s) : r[k].id = s[k].id /\ (IsOpen(r[k]) => IsOpen(s[k]))
    BY <1>1, <1>2, CloseKeepsNames
<1>4. InOrder(r)
    BY <1>3 DEF InOrder, Named
<1> QED
    BY <1>2, <1>4

LEMMA ReopenKeepsNames ==
    ASSUME NEW s, Named(s), NEW id
    PROVE  LET r == Reopened(s, id)
           IN  /\ Named(r) /\ Len(r) = Len(s) /\ Len(s) \in Nat
               /\ \A k \in 1..Len(s) :
                    r[k].id = s[k].id /\ (s[k].id # id => r[k] = s[k])
<1> DEFINE r == Reopened(s, id)
<1>0. s \in Seq(Job) /\ Len(s) \in Nat
    BY DEF Named
<1>1. r = [k \in 1..Len(s) |-> IF s[k].id = id THEN OpenedAgain(s[k]) ELSE s[k]]
    BY DEF Reopened
<1>2. \A k \in 1..Len(s) :
        /\ r[k] \in Job /\ r[k].id = s[k].id
        /\ s[k].id # id => r[k] = s[k]
    <2> SUFFICES ASSUME NEW k \in 1..Len(s)
                 PROVE  /\ r[k] \in Job /\ r[k].id = s[k].id
                        /\ s[k].id # id => r[k] = s[k]
        OBVIOUS
    <2>1. s[k] \in Job
        BY <1>0
    <2>2. r[k] = IF s[k].id = id THEN OpenedAgain(s[k]) ELSE s[k]
        BY <1>1
    <2>3. OpenedAgain(s[k]) \in Job /\ OpenedAgain(s[k]).id = s[k].id
        BY <2>1 DEF OpenedAgain, Job
    <2> QED
        BY <2>1, <2>2, <2>3
<1>3. r \in Seq(Job) /\ Len(r) = Len(s)
    BY <1>0, <1>1, <1>2
<1> HIDE DEF r
<1>4. Named(r)
    BY <1>2, <1>3 DEF Named
<1> QED
    BY <1>0, <1>2, <1>3, <1>4 DEF r

LEMMA ReopenKeepsOrder ==
    ASSUME NEW s, InOrder(s), NEW id, CanReopen(s, id)
    PROVE  InOrder(Reopened(s, id))
<1>1. Named(s)
    BY OrderNames
<1>2. PICK r : r = Reopened(s, id)
    OBVIOUS
<1>3. /\ Named(r) /\ Len(r) = Len(s) /\ Len(s) \in Nat
      /\ \A k \in 1..Len(s) : r[k].id = s[k].id /\ (s[k].id # id => r[k] = s[k])
    BY <1>1, <1>2, ReopenKeepsNames
<1>4. Len(s) \in 1..Len(s) /\ id = Len(s)
    BY <1>3, EmptySeq DEF CanReopen, InOrder
<1>5. InOrder(r)
    BY <1>3, <1>4 DEF InOrder, Named
<1> QED
    BY <1>2, <1>5

LEMMA CurrentIsNamed ==
    ASSUME NEW s, Named(s)
    PROVE  CurrentJob(s) \in 0..Len(s)
<1>1. s \in Seq(Job) /\ Len(s) \in Nat
    BY DEF Named
<1>2. CASE CurrentJob(s) = None
    BY <1>1, <1>2 DEF None
<1>3. CASE CurrentJob(s) # None
    <2>1. s # <<>> /\ CurrentJob(s) = s[Len(s)].id
        BY <1>3 DEF CurrentJob
    <2>2. Len(s) \in 1..Len(s)
        BY <1>1, <2>1, EmptySeq
    <2> QED
        BY <1>1, <2>1, <2>2 DEF Named
<1> QED
    BY <1>2, <1>3

LEMMA CurrentIsTheLast ==
    ASSUME NEW s, InOrder(s), CurrentJob(s) # None
    PROVE  Len(s) \in 1..Len(s) /\ CurrentJob(s) = Len(s) /\ IsOpen(s[Len(s)])
<1>1. s # <<>> /\ IsOpen(s[Len(s)]) /\ CurrentJob(s) = s[Len(s)].id
    BY DEF CurrentJob
<1>2. Len(s) \in Nat /\ Len(s) # 0
    BY <1>1, EmptySeq DEF InOrder
<1>3. Len(s) \in 1..Len(s)
    BY <1>2
<1> QED
    BY <1>1, <1>3 DEF InOrder

\* A job opened behind the others.
LEMMA OpeningKeepsNames ==
    ASSUME NEW s, Named(s), NEW job \in Job, job.id = Len(s) + 1
    PROVE  /\ Named(Append(s, job))
           /\ Len(Append(s, job)) = Len(s) + 1 /\ Len(s) \in Nat
           /\ Append(s, job)[Len(s) + 1] = job
           /\ \A k \in 1..Len(s) : Append(s, job)[k] = s[k]
<1>1. s \in Seq(Job) /\ Len(s) \in Nat
    BY DEF Named
<1>2. /\ Append(s, job) \in Seq(Job)
      /\ Len(Append(s, job)) = Len(s) + 1
      /\ \A k \in 1..Len(s) : Append(s, job)[k] = s[k]
      /\ Append(s, job)[Len(s) + 1] = job
    BY <1>1
<1>3. \A k \in 1..Len(s) + 1 : Append(s, job)[k].id \in 1..Len(s) + 1
    <2> SUFFICES ASSUME NEW k \in 1..Len(s) + 1
                 PROVE  Append(s, job)[k].id \in 1..Len(s) + 1
        OBVIOUS
    <2>1. CASE k = Len(s) + 1
        BY <1>1, <1>2, <2>1
    <2>2. CASE k \in 1..Len(s)
        <3>1. s[k].id \in 1..Len(s)
            BY <2>2 DEF Named
        <3> QED
            BY <1>1, <1>2, <2>2, <3>1
    <2> QED
        BY <1>1, <2>1, <2>2
<1> QED
    BY <1>1, <1>2, <1>3 DEF Named

LEMMA OpeningKeepsOrder ==
    ASSUME NEW s, InOrder(s), \A k \in 1..Len(s) : ~IsOpen(s[k]),
           NEW job \in Job, job.id = Len(s) + 1
    PROVE  InOrder(Append(s, job))
<1>1. Named(s)
    BY OrderNames
<1> QED
    BY <1>1, OpeningKeepsNames DEF InOrder, Named

LEMMA DraftIsAJob ==
    ASSUME NEW n \in Nat
    PROVE  Draft(n + 1) \in Job /\ Draft(n + 1).id = n + 1 /\ IsOpen(Draft(n + 1))
BY DEF Draft, Job, NoPlan, Plan, None, IsOpen

\* A turn's place: an open job, that is the last one.
LEMMA PlaceKeepsNames ==
    ASSUME NEW s, Named(s)
    PROVE  LET r == WithPlaceToLand(s)
           IN  /\ Named(r) /\ Len(r) \in Nat /\ Len(r) >= Len(s) /\ Len(s) \in Nat
               /\ CurrentJob(r) \in 1..Len(r)
<1>0. s \in Seq(Job) /\ Len(s) \in Nat
    BY DEF Named
<1>1. CASE CurrentJob(s) # None
    BY <1>0, <1>1, CurrentIsNamed DEF WithPlaceToLand, None
<1>2. CASE CurrentJob(s) = None
    <2> DEFINE job == Draft(Len(s) + 1)
               r == Append(s, job)
    <2>1. WithPlaceToLand(s) = r
        BY <1>2 DEF WithPlaceToLand, NextJobId
    <2>2. job \in Job /\ job.id = Len(s) + 1 /\ IsOpen(job)
        BY <1>0, DraftIsAJob
    <2> HIDE DEF job
    <2>3. Named(r) /\ Len(r) = Len(s) + 1 /\ r[Len(r)] = job
        BY <1>0, <2>2, OpeningKeepsNames
    <2>4. r # <<>>
        BY <1>0, <2>3, EmptySeq
    <2>5. CurrentJob(r) = Len(r)
        BY <2>2, <2>3, <2>4 DEF CurrentJob
    <2> QED
        BY <1>0, <2>1, <2>3, <2>5
<1> QED
    BY <1>1, <1>2

LEMMA PlaceKeepsOrder ==
    ASSUME NEW s, InOrder(s)
    PROVE  /\ InOrder(WithPlaceToLand(s))
           /\ CurrentJob(WithPlaceToLand(s)) = Len(WithPlaceToLand(s))
<1>0. s \in Seq(Job) /\ Len(s) \in Nat
    BY DEF InOrder
<1>1. CASE CurrentJob(s) # None
    BY <1>0, <1>1, CurrentIsTheLast DEF WithPlaceToLand
<1>2. CASE CurrentJob(s) = None
    <2> DEFINE job == Draft(Len(s) + 1)
               r == Append(s, job)
    <2>1. WithPlaceToLand(s) = r
        BY <1>2 DEF WithPlaceToLand, NextJobId
    <2>2. job \in Job /\ job.id = Len(s) + 1 /\ IsOpen(job)
        BY <1>0, DraftIsAJob
    <2>3. \A k \in 1..Len(s) : ~IsOpen(s[k])
        <3>1. ASSUME s # <<>>, IsOpen(s[Len(s)])
              PROVE  FALSE
            <4>1. CurrentJob(s) = s[Len(s)].id /\ Len(s) \in 1..Len(s)
                BY <1>0, <3>1, EmptySeq DEF CurrentJob
            <4> QED
                BY <1>0, <1>2, <4>1 DEF InOrder, None
        <3> QED
            BY <1>0, <3>1, EmptySeq DEF InOrder
    <2> HIDE DEF job
    <2>4. InOrder(r) /\ Len(r) = Len(s) + 1 /\ r[Len(r)] = job
        BY <1>0, <2>2, <2>3, OpeningKeepsOrder, OpeningKeepsNames, OrderNames
    <2>5. r # <<>>
        BY <1>0, <2>4, EmptySeq
    <2>6. CurrentJob(r) = Len(r)
        BY <2>2, <2>4, <2>5 DEF CurrentJob
    <2> QED
        BY <2>1, <2>4, <2>6
<1> QED
    BY <1>1, <1>2

LEMMA ApproveKeepsNames ==
    ASSUME NEW s, Named(s), Drafting(s), NEW plan \in Plan
    PROVE  /\ Named(ApprovePlan(s, plan))
           /\ Len(ApprovePlan(s, plan)) = Len(s) + 1 /\ Len(s) \in Nat
           /\ InOrder(s) => InOrder(ApprovePlan(s, plan))
<1> DEFINE r == CloseJobBy(s, CurrentJob(s), "approval")
           job == Planned(Len(s) + 1, plan)
<1>0. s \in Seq(Job) /\ Len(s) \in Nat
    BY DEF Named
<1>1. Named(r) /\ Len(r) = Len(s)
    BY CloseKeepsNames DEF Closer
<1>2. job \in Job /\ job.id = Len(r) + 1
    BY <1>0, <1>1 DEF Planned, Job
<1>3. ApprovePlan(s, plan) = Append(r, job)
    BY <1>1 DEF ApprovePlan, NextJobId, Drafting
<1>4. ASSUME InOrder(s)
      PROVE  InOrder(r) /\ \A k \in 1..Len(r) : ~IsOpen(r[k])
    <2>1. CurrentJob(s) = Len(s) /\ Len(s) \in 1..Len(s)
        BY <1>4, CurrentIsTheLast DEF Drafting
    <2>2. InOrder(r)
        BY <1>4, CloseKeepsOrder DEF Closer
    <2>3. ~IsOpen(r[Len(s)])
        BY <1>4, <2>1 DEF CloseJobBy, ClosedBy, IsOpen, InOrder
    <2> HIDE DEF r
    <2> QED
        BY <1>0, <1>1, <2>2, <2>3 DEF InOrder
<1> HIDE DEF r, job
<1>5. InOrder(s) => InOrder(Append(r, job))
    BY <1>2, <1>4, OpeningKeepsOrder
<1> QED
    BY <1>0, <1>1, <1>2, <1>3, <1>5, OpeningKeepsNames

LEMMA CloseIfMetKeepsNames ==
    ASSUME NEW s, Named(s), NEW t
    PROVE  /\ Named(CloseIfMet(s, t)) /\ Len(CloseIfMet(s, t)) = Len(s)
           /\ InOrder(s) => InOrder(CloseIfMet(s, t))
BY CloseKeepsNames, CloseKeepsOrder DEF CloseIfMet, Closer

\* The draft that a resume makes, in front of the others.
LEMMA PuttingBeforeKeepsNames ==
    ASSUME NEW s, Named(s)
    PROVE  LET r == <<Draft(NextJobId(s))>> \o s
           IN  Named(r) /\ Len(r) = Len(s) + 1 /\ Len(s) \in Nat
<1> DEFINE d == <<Draft(Len(s) + 1)>>
<1>0. s \in Seq(Job) /\ Len(s) \in Nat
    BY DEF Named
<1>1. d \in Seq(Job) /\ Len(d) = 1 /\ d[1].id = Len(s) + 1
    BY <1>0, DraftIsAJob
<1> HIDE DEF d
<1>2. PICK r : r = d \o s
    OBVIOUS
<1>3. /\ r \in Seq(Job) /\ Len(r) = Len(s) + 1
      /\ \A k \in 1..Len(r) : r[k] = IF k <= 1 THEN d[k] ELSE s[k - 1]
    BY <1>0, <1>1, <1>2, ConcatProperties
<1>4. \A k \in 1..Len(r) : r[k].id \in 1..Len(r)
    <2> SUFFICES ASSUME NEW k \in 1..Len(r)
                 PROVE  r[k].id \in 1..Len(r)
        OBVIOUS
    <2>1. CASE k = 1
        BY <1>0, <1>1, <1>3, <2>1
    <2>2. CASE k # 1
        <3>1. k - 1 \in 1..Len(s) /\ r[k] = s[k - 1]
            BY <1>0, <1>3, <2>2
        <3>2. s[k - 1].id \in 1..Len(s)
            BY <3>1 DEF Named
        <3> QED
            BY <1>0, <1>3, <3>1, <3>2
    <2> QED
        BY <2>1, <2>2
<1>5. Named(r)
    BY <1>3, <1>4 DEF Named
<1> QED
    BY <1>0, <1>2, <1>3, <1>5 DEF d, NextJobId

(***************************************************************************)
(* The invariant for what a prompt shows: the types, and, while no draft is *)
(* invented, jobs in order and turns that land in jobs that only move on.   *)
(***************************************************************************)
\* What is known of a turn, beside so many jobs and turns asked: it is typed,
\* and reads one body of a path.  One that is remembered has a job.
Kept(turn, places, asked) ==
    /\ turn \in [id: 1..asked, job: 0..places, ran: BOOLEAN,
                 spans: SUBSET Fragments, output: Outputs \cup {"none"}]
    /\ OneBodyEach(turn.spans)

Read(turn, places, asked) == Kept(turn, places, asked) /\ turn.job # None

\* Turns that have a job have one that is not before those of older turns.
Rising(s) ==
    \A i, j \in 1..Len(s) :
        i <= j /\ s[i].job # None /\ s[j].job # None => s[i].job <= s[j].job

Shown ==
    /\ Lines
    /\ Named(jobs)
    /\ \A i \in 1..Len(turns) : Read(turns[i], Len(jobs), Len(view))
    /\ \A i \in 1..Len(view) : Kept(view[i], Len(jobs), Len(view))
    /\ left \subseteq 1..Len(view)
    /\ invented \in BOOLEAN
    /\ ~invented => InOrder(jobs) /\ Rising(turns) /\ Rising(view)
    /\ sent.asked \in Selections \cup {{}}
    /\ resumes \in 0..MaxResumes

LEMMA ShownInit == Init => Shown
<1> SUFFICES ASSUME Init
             PROVE  Shown
    OBVIOUS
<1>1. Lines
    BY LinesInit
<1>2. Len(turns) = 0 /\ Len(view) = 0 /\ jobs = <<>> /\ Len(jobs) = 0
      /\ jobs \in Seq(Job)
    BY DEF Init
<1>3. sent.asked = {} /\ resumes \in 0..MaxResumes
    BY WindowAssumption DEF Init, Nothing
<1>4. left = {} /\ invented = FALSE
    BY DEF Init
<1>5. InOrder(jobs) /\ Named(jobs) /\ Rising(turns) /\ Rising(view)
    BY <1>2 DEF InOrder, Named, Rising
<1>6. /\ \A i \in 1..Len(turns) : Read(turns[i], Len(jobs), Len(view))
      /\ \A i \in 1..Len(view) : Kept(view[i], Len(jobs), Len(view))
    BY <1>2
<1>7. left \subseteq 1..Len(view) /\ invented \in BOOLEAN
    BY <1>4
<1> QED
    BY <1>1, <1>3, <1>5, <1>6, <1>7 DEF Shown

LEMMA KeptAmongMore ==
    ASSUME NEW p \in Nat, NEW q \in Nat, p <= q, NEW a \in Nat, NEW b \in Nat, a <= b,
           NEW turn, Kept(turn, p, a)
    PROVE  Kept(turn, q, b)
<1>1. 0..p \subseteq 0..q /\ 1..a \subseteq 1..b
    OBVIOUS
<1> QED
    BY <1>1 DEF Kept

LEMMA ShownCounts ==
    ASSUME Shown
    PROVE  Len(jobs) \in Nat /\ Len(turns) \in Nat /\ Len(view) \in Nat
BY DEF Shown, Lines, Named

\* Jobs that grow and turns that do not.
LEMMA JobsMoveShown ==
    ASSUME Shown, Lines', Named(jobs'), Len(jobs') >= Len(jobs),
           InOrder(jobs) => InOrder(jobs'),
           turns' = turns, sent' = sent, resumes' = resumes, told' = told
    PROVE  Shown'
<1>0. view' = view /\ left' = left /\ invented' = invented
    BY DEF told
<1>1. Len(jobs) \in Nat /\ Len(jobs') \in Nat /\ Len(view) \in Nat
    BY ShownCounts DEF Named
<1>2. /\ \A i \in 1..Len(turns) : Read(turns[i], Len(jobs'), Len(view))
      /\ \A i \in 1..Len(view) : Kept(view[i], Len(jobs'), Len(view))
    BY <1>1, KeptAmongMore DEF Shown, Read
<1>3. ~invented => InOrder(jobs') /\ Rising(turns) /\ Rising(view)
    BY DEF Shown
<1> QED
    BY <1>0, <1>2, <1>3 DEF Shown

\* One more turn, in the newest job or in none.
LEMMA AppendRises ==
    ASSUME NEW s, NEW S, s \in Seq(S), Rising(s), NEW n \in Nat, NEW t,
           \A i \in 1..Len(s) : s[i].job \in 0..n,
           t.job \in {None, n}
    PROVE  Rising(Append(s, t))
<1>1. PICK r : r = Append(s, t)
    OBVIOUS
<1>2. /\ Len(s) \in Nat /\ Len(r) = Len(s) + 1 /\ r[Len(s) + 1] = t
      /\ \A i \in 1..Len(s) : r[i] = s[i]
    BY <1>1, AppendKeeps
<1>3. ASSUME NEW i \in 1..Len(r), NEW j \in 1..Len(r), i <= j,
             r[i].job # None, r[j].job # None
      PROVE  r[i].job <= r[j].job
    <2>1. CASE j \in 1..Len(s)
        <3>1. i \in 1..Len(s)
            BY <1>2, <1>3, <2>1
        <3> QED
            BY <1>2, <1>3, <2>1, <3>1 DEF Rising
    <2>2. CASE j \notin 1..Len(s)
        <3>1. j = Len(s) + 1 /\ r[j].job = n
            BY <1>2, <1>3, <2>2
        <3>2. r[i].job \in 0..n
            <4>1. CASE i \in 1..Len(s)
                BY <1>2, <4>1
            <4>2. CASE i \notin 1..Len(s)
                <5>1. i = j
                    BY <1>2, <1>3, <3>1, <4>2
                <5> QED
                    BY <3>1, <5>1
            <4> QED
                BY <4>1, <4>2
        <3> QED
            BY <3>1, <3>2
    <2> QED
        BY <2>1, <2>2
<1>4. Rising(r)
    BY <1>3 DEF Rising
<1> QED
    BY <1>1, <1>4

\* A turn that ended, among the others of the view.
LEMMA AskedIsKept ==
    ASSUME Shown, NEW places \in Nat, NEW job \in 0..places,
           NEW output \in Outputs \cup {"none"}
    PROVE  Kept(Asked(job, output), places, Len(view) + 1)
<1>1. Len(view) + 1 \in 1..Len(view) + 1
    BY ShownCounts
<1>2. sent.asked \in SUBSET Fragments /\ OneBodyEach(sent.asked)
    BY WindowAssumption DEF Shown, OneBodyEach
<1>3. (output = "ran") \in BOOLEAN
    OBVIOUS
<1> QED
    BY <1>1, <1>2, <1>3 DEF Asked, Kept

\* The view with it is kept, beside the jobs there are then.
LEMMA ViewGrows ==
    ASSUME Shown, NEW t, NEW places \in Nat, Len(jobs) <= places,
           Kept(t, places, Len(view) + 1)
    PROVE  LET v == Append(view, t)
           IN  /\ Len(v) = Len(view) + 1
               /\ \A i \in 1..Len(v) : Kept(v[i], places, Len(v))
               /\ \A i \in 1..Len(turns) : Read(turns[i], places, Len(v))
               /\ left \subseteq 1..Len(v)
<1>0. Len(jobs) \in Nat /\ Len(view) \in Nat
    BY ShownCounts
<1>1. PICK v : v = Append(view, t)
    OBVIOUS
<1>2. PICK V : view \in Seq(V)
    BY DEF Shown, Lines
<1>3. /\ Len(v) = Len(view) + 1 /\ v[Len(view) + 1] = t
      /\ \A i \in 1..Len(view) : v[i] = view[i]
    BY <1>1, <1>2, AppendKeeps
<1>4. Len(v) \in Nat /\ Len(view) <= Len(v)
    BY <1>0, <1>3
<1>5. \A i \in 1..Len(turns) : Read(turns[i], places, Len(v))
    BY <1>0, <1>4, KeptAmongMore DEF Shown, Read
<1>6. \A i \in 1..Len(v) : Kept(v[i], places, Len(v))
    <2> SUFFICES ASSUME NEW i \in 1..Len(v)
                 PROVE  Kept(v[i], places, Len(v))
        OBVIOUS
    <2>1. CASE i = Len(view) + 1
        BY <1>3, <2>1
    <2>2. CASE i \in 1..Len(view)
        <3>1. Kept(view[i], Len(jobs), Len(view)) /\ v[i] = view[i]
            BY <1>3, <2>2 DEF Shown
        <3> QED
            BY <1>0, <1>4, <3>1, KeptAmongMore
    <2> QED
        BY <1>0, <1>3, <2>1, <2>2
<1>7. left \subseteq 1..Len(v)
    BY <1>0, <1>3 DEF Shown
<1> QED
    BY <1>1, <1>3, <1>5, <1>6, <1>7

LEMMA LandShows == Shown /\ Lines' /\ Land => Shown'
<1> SUFFICES ASSUME Shown, Lines', Land
             PROVE  Shown'
    OBVIOUS
<1>0. PICK placed : placed = WithPlaceToLand(jobs)
    OBVIOUS
<1>1. PICK output \in Outputs :
        /\ turns' = Append(turns, Asked(CurrentJob(placed), output))
        /\ view' = Append(view, Asked(CurrentJob(placed), output))
        /\ jobs' = CloseIfMet(placed, turns')
    BY <1>0, Zenon DEF Land
<1>2. PICK turn : turn = Asked(CurrentJob(placed), output)
    OBVIOUS
<1>3. /\ Named(placed) /\ Len(placed) \in Nat /\ Len(placed) >= Len(jobs)
      /\ CurrentJob(placed) \in 1..Len(placed) /\ Len(jobs) \in Nat
    BY <1>0, PlaceKeepsNames DEF Shown
<1>4. Named(jobs') /\ Len(jobs') = Len(placed)
    BY <1>1, <1>3, CloseIfMetKeepsNames
<1>5. turn.job = CurrentJob(placed)
    BY <1>2 DEF Asked
<1>6. Kept(turn, Len(jobs'), Len(view) + 1)
    BY <1>2, <1>3, <1>4, AskedIsKept
<1>7. /\ Len(view') = Len(view) + 1
      /\ \A i \in 1..Len(view') : Kept(view'[i], Len(jobs'), Len(view'))
      /\ \A i \in 1..Len(turns) : Read(turns[i], Len(jobs'), Len(view'))
      /\ left \subseteq 1..Len(view')
    BY <1>1, <1>2, <1>3, <1>4, <1>6, ViewGrows
<1>8. PICK S : turns \in Seq(S)
    BY DEF Shown, Lines
<1>9. /\ Len(turns) \in Nat /\ Len(turns') = Len(turns) + 1
      /\ \A i \in 1..Len(turns) : turns'[i] = turns[i]
      /\ turns'[Len(turns) + 1] = turn
    BY <1>1, <1>2, <1>8, AppendKeeps
<1>10. \A i \in 1..Len(turns') : Read(turns'[i], Len(jobs'), Len(view'))
    <2>1. Read(turn, Len(jobs'), Len(view'))
        BY <1>3, <1>5, <1>6, <1>7 DEF Read, None
    <2> QED
        BY <1>7, <1>9, <2>1
<1>11. ASSUME ~invented
       PROVE  InOrder(jobs') /\ Rising(turns') /\ Rising(view')
    <2>1. InOrder(placed) /\ CurrentJob(placed) = Len(placed)
        BY <1>0, <1>11, PlaceKeepsOrder DEF Shown
    <2>2. InOrder(jobs')
        BY <1>1, <1>3, <2>1, CloseIfMetKeepsNames
    <2>3. PICK V : view \in Seq(V)
        BY DEF Shown, Lines
    <2>4. /\ \A i \in 1..Len(turns) : turns[i].job \in 0..Len(placed)
          /\ \A i \in 1..Len(view) : view[i].job \in 0..Len(placed)
        BY <1>3 DEF Shown, Read, Kept
    <2>5. Rising(turns) /\ Rising(view)
        BY <1>11 DEF Shown
    <2> QED
        BY <1>1, <1>2, <1>3, <1>5, <1>8, <2>1, <2>2, <2>3, <2>4, <2>5, AppendRises
<1>12. sent'.asked = {} /\ resumes' = resumes /\ left' = left /\ invented' = invented
    BY DEF Land, Nothing
<1> QED
    BY <1>4, <1>7, <1>10, <1>11, <1>12 DEF Shown

LEMMA DroppedShows == Shown /\ Lines' /\ Dropped => Shown'
<1> SUFFICES ASSUME Shown, Lines', Dropped
             PROVE  Shown'
    OBVIOUS
<1>1. PICK turn : turn = Asked(CurrentJob(jobs), "none")
    OBVIOUS
<1>2. /\ view' = Append(view, turn) /\ turns' = turns
      /\ jobs' = CloseIfMet(jobs, turns)
    BY <1>1 DEF Dropped
<1>3. Named(jobs') /\ Len(jobs') = Len(jobs) /\ Len(jobs) \in Nat
    BY <1>2, ShownCounts, CloseIfMetKeepsNames DEF Shown
<1>4. turn.job = CurrentJob(jobs) /\ CurrentJob(jobs) \in 0..Len(jobs)
    BY <1>1, CurrentIsNamed DEF Asked, Shown
<1>5. Kept(turn, Len(jobs), Len(view) + 1)
    BY <1>1, <1>3, <1>4, AskedIsKept
<1>6. /\ Len(view') = Len(view) + 1
      /\ \A i \in 1..Len(view') : Kept(view'[i], Len(jobs'), Len(view'))
      /\ \A i \in 1..Len(turns') : Read(turns'[i], Len(jobs'), Len(view'))
      /\ left \subseteq 1..Len(view')
    BY <1>2, <1>3, <1>5, ViewGrows
<1>7. ASSUME ~invented
      PROVE  InOrder(jobs') /\ Rising(turns') /\ Rising(view')
    <2>1. InOrder(jobs) /\ Rising(turns) /\ Rising(view)
        BY <1>7 DEF Shown
    <2>2. InOrder(jobs')
        BY <1>2, <2>1, CloseIfMetKeepsNames DEF Shown
    <2>3. turn.job \in {None, Len(jobs)}
        BY <1>4, <2>1, CurrentIsTheLast
    <2>4. PICK V : view \in Seq(V)
        BY DEF Shown, Lines
    <2>5. \A i \in 1..Len(view) : view[i].job \in 0..Len(jobs)
        BY DEF Shown, Kept
    <2>6. Rising(view')
        BY <1>2, <1>3, <2>1, <2>3, <2>4, <2>5, AppendRises
    <2> QED
        BY <1>2, <2>1, <2>2, <2>6
<1>8. sent'.asked = {} /\ resumes' = resumes /\ left' = left /\ invented' = invented
    BY DEF Dropped, Nothing
<1> QED
    BY <1>3, <1>6, <1>7, <1>8 DEF Shown

\* A turn of the view that is restored is kept, and has a job.
LEMMA RestoredIsRead ==
    ASSUME Shown, NEW disk \in Disks, NEW i \in 1..Len(view),
           NEW places \in Nat, Len(jobs) <= places,
           view[i].job = None => NextJobId(jobs) <= places
    PROVE  LET turn == Restored(view[i], disk)
           IN  /\ Read(turn, places, Len(view))
               /\ view[i].job # None => turn.job = view[i].job
<1> DEFINE Again(f) == [path |-> f.path, body |-> disk[f.path]]
<1>0. Len(jobs) \in Nat /\ Len(view) \in Nat
    BY ShownCounts
<1>1. \A f \in Fragments : Again(f) \in Fragments
    BY WindowAssumption
<1>2. OneBodyEach({Again(f) : f \in Fragments})
    BY DEF OneBodyEach
<1>3. PICK t : t = view[i]
    OBVIOUS
<1>4. /\ t \in [id: 1..Len(view), job: 0..Len(jobs), ran: BOOLEAN,
                spans: SUBSET Fragments, output: Outputs \cup {"none"}]
    BY <1>3 DEF Shown, Kept
<1>5. PICK spans : spans = {Again(f) : f \in t.spans}
    OBVIOUS
<1>6. PICK job : job = IF t.job = None THEN NextJobId(jobs) ELSE t.job
    OBVIOUS
<1>7. Restored(t, disk) = [t EXCEPT !.spans = spans, !.job = job]
    BY <1>5, <1>6 DEF Restored
<1> HIDE DEF Again
<1>8. spans \in SUBSET Fragments /\ OneBodyEach(spans)
    <2>1. t.spans \subseteq Fragments
        BY <1>4
    <2>2. spans \subseteq {Again(f) : f \in Fragments}
        BY <1>5, <2>1
    <2> QED
        BY <1>1, <1>2, <2>2 DEF OneBodyEach
<1>9. job \in 0..places /\ job # None /\ (t.job # None => job = t.job)
    BY <1>0, <1>3, <1>4, <1>6 DEF NextJobId, None
<1>10. PICK turn : turn = Restored(t, disk)
    OBVIOUS
<1>11. /\ turn \in [id: 1..Len(view), job: 0..places, ran: BOOLEAN,
                    spans: SUBSET Fragments, output: Outputs \cup {"none"}]
       /\ turn.spans = spans /\ turn.job = job
    BY <1>4, <1>7, <1>8, <1>9, <1>10
<1> QED
    BY <1>3, <1>8, <1>9, <1>10, <1>11 DEF Read, Kept

LEMMA ResumeShows == Shown /\ Lines' /\ Resume => Shown'
<1> SUFFICES ASSUME Shown, Lines', Resume
             PROVE  Shown'
    OBVIOUS
<1>1. PICK disk \in Disks : turns' = [i \in 1..Len(view) |-> Restored(view[i], disk)]
    BY Zenon DEF Resume
<1>2. /\ sent' = sent /\ view' = view /\ left' = left
      /\ resumes' = resumes + 1 /\ resumes < MaxResumes /\ ~invented
    BY DEF Resume
<1>3. Len(turns') = Len(view) /\ Len(view) \in Nat /\ Len(jobs) \in Nat
    BY ResumeRestores, ShownCounts DEF Shown
<1>4. PICK made \in BOOLEAN :
        /\ made = (\E i \in 1..Len(view) : view[i].job = None)
        /\ invented' = made
        /\ jobs' = IF made THEN <<Draft(NextJobId(jobs))>> \o jobs ELSE jobs
    BY DEF Resume
<1>5. InOrder(jobs) /\ Rising(view)
    BY <1>2 DEF Shown
<1>6. /\ Named(jobs') /\ Len(jobs') \in Nat /\ Len(jobs) <= Len(jobs')
      /\ made => NextJobId(jobs) <= Len(jobs')
    <2>1. CASE made
        BY <1>3, <1>4, <2>1, PuttingBeforeKeepsNames DEF Shown, NextJobId
    <2>2. CASE ~made
        BY <1>3, <1>4, <2>2 DEF Shown
    <2> QED
        BY <2>1, <2>2
<1>7. ASSUME NEW i \in 1..Len(view)
      PROVE  /\ Read(turns'[i], Len(jobs'), Len(view))
             /\ view[i].job # None => turns'[i].job = view[i].job
    <2>1. turns'[i] = Restored(view[i], disk)
        BY <1>1
    <2>2. view[i].job = None => NextJobId(jobs) <= Len(jobs')
        BY <1>4, <1>6
    <2> QED
        BY <1>6, <2>1, <2>2, RestoredIsRead
<1>8. \A i \in 1..Len(view) : Kept(view[i], Len(jobs'), Len(view))
    BY <1>3, <1>6, KeptAmongMore DEF Shown
<1>9. ~made => InOrder(jobs') /\ Rising(turns') /\ Rising(view)
    <2> SUFFICES ASSUME ~made
                 PROVE  Rising(turns')
        BY <1>4, <1>5
    <2>1. \A i \in 1..Len(view) : view[i].job # None /\ turns'[i].job = view[i].job
        BY <1>4, <1>7
    <2> QED
        BY <1>3, <1>5, <2>1 DEF Rising
<1>10. resumes' \in 0..MaxResumes
    BY <1>2, WindowAssumption DEF Shown
<1> QED
    BY <1>2, <1>3, <1>4, <1>6, <1>7, <1>8, <1>9, <1>10 DEF Shown

LEMMA AskShows == Shown /\ Lines' /\ Ask => Shown'
<1> SUFFICES ASSUME Shown, Lines', Ask
             PROVE  Shown'
    OBVIOUS
<1>1. /\ jobs' = jobs /\ turns' = turns /\ resumes' = resumes
      /\ view' = view /\ invented' = invented /\ sent'.asked \in Selections
      /\ left' = left \cup {turns[i].id : i \in floor + 1..floor'}
    BY DEF Ask
<1>2. floor + 1..floor' \subseteq 1..Len(turns)
    BY <1>1 DEF Shown, Lines
<1>3. \A i \in 1..Len(turns) : turns[i].id \in 1..Len(view)
    BY DEF Shown, Read, Kept
<1>4. left' \subseteq 1..Len(view)
    BY <1>1, <1>2, <1>3 DEF Shown
<1> QED
    BY <1>1, <1>4 DEF Shown

LEMMA ShownNext == Shown /\ [Next]_vars => Shown'
<1> SUFFICES ASSUME Shown, [Next]_vars
             PROVE  Shown'
    OBVIOUS
<1>0. Lines'
    BY LinesNext DEF Shown
<1>l. Len(jobs) \in Nat /\ Named(jobs)
    BY ShownCounts DEF Shown
<1>1. CASE Ask
    BY <1>0, <1>1, AskShows
<1>2. CASE Land
    BY <1>0, <1>2, LandShows
<1>3. CASE Dropped
    BY <1>0, <1>3, DroppedShows
<1>4. CASE CloseJob
    <2>1. PICK job \in 1..Len(jobs) : jobs' = CloseJobBy(jobs, job, "user")
        BY <1>4 DEF CloseJob
    <2>2. /\ Named(jobs') /\ Len(jobs') = Len(jobs)
          /\ InOrder(jobs) => InOrder(jobs')
        BY <1>l, <2>1, CloseKeepsNames, CloseKeepsOrder DEF Closer
    <2> QED
        BY <1>0, <1>4, <1>l, <2>2, JobsMoveShown DEF CloseJob
<1>5. CASE ReopenJob
    <2>1. PICK job \in 1..Len(jobs) : CanReopen(jobs, job) /\ jobs' = Reopened(jobs, job)
        BY <1>5 DEF ReopenJob
    <2>2. /\ Named(jobs') /\ Len(jobs') = Len(jobs)
          /\ InOrder(jobs) => InOrder(jobs')
        BY <1>l, <2>1, ReopenKeepsNames, ReopenKeepsOrder
    <2> QED
        BY <1>0, <1>5, <1>l, <2>2, JobsMoveShown DEF ReopenJob
<1>6. CASE Approve
    <2>1. [turn |-> Len(turns), closes |-> TRUE] \in Plan
        BY ShownCounts DEF Plan
    <2>2. /\ Named(jobs') /\ Len(jobs') = Len(jobs) + 1
          /\ InOrder(jobs) => InOrder(jobs')
        BY <1>6, <1>l, <2>1, ApproveKeepsNames DEF Approve
    <2> QED
        BY <1>0, <1>6, <1>l, <2>2, JobsMoveShown DEF Approve
<1>7. CASE Resend \/ UNCHANGED vars
    <2>1. /\ jobs' = jobs /\ turns' = turns /\ sent' = sent /\ resumes' = resumes
          /\ told' = told
        BY <1>7 DEF Resend, vars
    <2>2. Named(jobs') /\ Len(jobs') >= Len(jobs)
        BY <1>l, <2>1
    <2> QED
        BY <1>0, <2>1, <2>2, JobsMoveShown
<1>8. CASE Resume
    BY <1>0, <1>8, ResumeShows
<1> QED
    BY <1>1, <1>2, <1>3, <1>4, <1>5, <1>6, <1>7, <1>8 DEF Next

\* The types of what a prompt is made from hold in every state
\* (crates/agent-core/src/context.rs, the fields of Context).
THEOREM WindowTypesHold == Spec => []TypeOK
<1>1. Spec => []Shown
    BY ShownInit, ShownNext, PTL DEF Spec
<1>2. Shown => TypeOK
    <2> SUFFICES ASSUME Shown
                 PROVE  TypeOK
        OBVIOUS
    <2>1. \A k \in 1..Len(jobs) : jobs[k] \in Job
        BY DEF Shown, Named
    <2>2. \A i \in 1..Len(turns) :
            /\ turns[i].job \in 1..Len(jobs)
            /\ turns[i].spans \subseteq Fragments /\ OneBodyEach(turns[i].spans)
            /\ turns[i].output \in Outputs \cup {"none"}
        BY ShownCounts DEF Shown, Read, Kept, None
    <2>3. \A i \in 1..Len(view) :
            /\ view[i].job \in 0..Len(jobs)
            /\ view[i].spans \subseteq Fragments /\ OneBodyEach(view[i].spans)
        BY DEF Shown, Kept
    <2> QED
        BY <2>1, <2>2, <2>3 DEF Shown, Lines, TypeOK
<1> QED
    BY <1>1, <1>2, PTL

(***************************************************************************)
(* What the prompt shows.                                                   *)
(***************************************************************************)
\* The newest reader of a path that somebody reads.
LEMMA TheNewestReads ==
    ASSUME Shown, NEW path, Readers(path) # {}
    PROVE  /\ Max(Readers(path)) \in 1..Len(turns)
           /\ \E f \in turns[Max(Readers(path))].spans : f.path = path
           /\ \A i \in Readers(path) : i <= Max(Readers(path))
<1>1. Len(turns) \in Nat
    BY DEF Shown, Lines
<1>2. Readers(path) \in SUBSET 0..Len(turns)
    BY <1>1 DEF Readers
<1>3. /\ Max(Readers(path)) \in Readers(path)
      /\ \A i \in Readers(path) : i <= Max(Readers(path))
    BY <1>1, <1>2, MaxIsGreatest
<1> QED
    BY <1>3 DEF Readers

\* Spans that a turn asks for or has read: one body of a path.
LEMMA SelectedIsOneBodyEach ==
    Shown => OneBodyEach(sent.asked) /\ sent.asked \subseteq Fragments
BY WindowAssumption DEF Shown, OneBodyEach

\* Where no draft is invented, the turns of the open job stand at the end:
\* behind one that sends its spans, no turn is folded.
LEMMA NoFoldBehindATurn ==
    ASSUME Shown, ~invented, NEW i \in 1..Len(turns), NEW m \in 1..Len(turns), i <= m,
           ~Folded(i)
    PROVE  ~Folded(m)
<1> DEFINE a == turns[i].job
           b == turns[m].job
<1>1. a \in 1..Len(jobs) /\ b \in 1..Len(jobs) /\ a <= b /\ Len(jobs) \in Nat
    <2>1. a \in 0..Len(jobs) /\ b \in 0..Len(jobs) /\ a # None /\ b # None
        BY DEF Shown, Read, Kept
    <2>2. Rising(turns) /\ Len(jobs) \in Nat
        BY ShownCounts DEF Shown
    <2> QED
        BY <2>1, <2>2 DEF Rising, None
<1>2. \A k \in 1..Len(jobs) : jobs[k].id = k
    BY DEF Shown, InOrder
<1>3. IsOpen(jobs[a])
    BY <1>1, <1>2 DEF Folded
<1>4. \A k \in 1..Len(jobs) - 1 : ~IsOpen(jobs[k])
    BY DEF Shown, InOrder
<1>5. a = Len(jobs) /\ b = a
    <2>1. PICK n : n = Len(jobs)
        OBVIOUS
    <2> HIDE DEF a, b
    <2>2. ~(a \in 1..n - 1)
        BY ONLY <1>3, <1>4, <2>1
    <2> QED
        BY ONLY <1>1, <2>1, <2>2
<1> QED
    BY <1>2, <1>3, <1>5 DEF Folded

LEMMA NobodyCopies ==
    ASSUME Shown, NEW f, NEW above \in 0..Len(turns), NEW line
    PROVE  Copies(f, above, line) = 0
             <=> \A i \in Verbatim(above, line) : f \notin turns[i].spans
<1> DEFINE S == {i \in Verbatim(above, line) : f \in turns[i].spans}
<1>1. above + 1 \in Int /\ Len(turns) \in Int
    BY DEF Shown, Lines
<1>2. IsFiniteSet(above + 1..Len(turns))
    BY <1>1, FS_Interval
<1>3. S \subseteq above + 1..Len(turns)
    BY DEF Verbatim
<1>4. IsFiniteSet(S)
    BY <1>2, <1>3, FS_Subset
<1>5. Cardinality(S) = 0 <=> S = {}
    BY <1>4, FS_EmptySet
<1> QED
    BY <1>5 DEF Copies

\* The parts that a window's turns send themselves.
LEMMA AboveParts ==
    ASSUME NEW p
    PROVE  p \in SentAbove(floor, pruned, sent.asked) <=>
             \E i \in Verbatim(floor, pruned) : \E f \in turns[i].spans :
                /\ \/ budget.repeat = "always"
                   \/ \A j \in Verbatim(floor, pruned) : j < i => f \notin turns[j].spans
                /\ p = Part(i, f, IF Superseded(f, sent.asked) THEN "cited" ELSE "body")
<1> DEFINE Sends(i) ==
        {f \in turns[i].spans :
            \/ budget.repeat = "always"
            \/ \A j \in Verbatim(floor, pruned) : j < i => f \notin turns[j].spans}
           As(f) == IF Superseded(f, sent.asked) THEN "cited" ELSE "body"
           PartsOf(i) == {Part(i, f, As(f)) : f \in Sends(i)}
<1>1. SentAbove(floor, pruned, sent.asked)
        = UNION {PartsOf(i) : i \in Verbatim(floor, pruned)}
    BY DEF SentAbove
<1>2. p \in SentAbove(floor, pruned, sent.asked)
        <=> \E i \in Verbatim(floor, pruned) : p \in PartsOf(i)
    BY <1>1, Zenon
<1>3. \A i \in Verbatim(floor, pruned) :
        p \in PartsOf(i) <=> \E f \in Sends(i) : p = Part(i, f, As(f))
    BY Zenon
<1> QED
    BY <1>2, <1>3, Zenon

\* The parts above the line.
LEMMA PartsAbove ==
    ASSUME Shown, NEW p
    PROVE  p \in BodiesAbove <=>
             \/ \E i \in Verbatim(floor, pruned) : \E f \in turns[i].spans :
                  /\ \/ budget.repeat = "always"
                     \/ \A j \in Verbatim(floor, pruned) : j < i => f \notin turns[j].spans
                  /\ ~Superseded(f, sent.asked)
                  /\ p = Part(i, f, "body")
             \/ \E f \in sent.asked :
                  /\ budget.repeat = "always" \/ Copies(f, floor, pruned) = 0
                  /\ p = Part(Len(turns) + 1, f, "body")
<1>0. /\ Len(turns) \in Nat
      /\ floor \in 0..Len(turns) /\ pruned \in 0..Len(turns)
    BY DEF Shown, Lines
<1>1. \A i, f, as : /\ Part(i, f, as).turn = i /\ Part(i, f, as).span = f
                    /\ Part(i, f, as).as = as
    BY DEF Part
<1>2. \A q \in SentBehind(floor, pruned) : ~(q.turn > pruned)
    BY <1>0, <1>1 DEF SentBehind
<1>3. p \in SentAbove(floor, pruned, sent.asked) <=>
        \E i \in Verbatim(floor, pruned) : \E f \in turns[i].spans :
            /\ \/ budget.repeat = "always"
               \/ \A j \in Verbatim(floor, pruned) : j < i => f \notin turns[j].spans
            /\ p = Part(i, f, IF Superseded(f, sent.asked) THEN "cited" ELSE "body")
    BY AboveParts, Zenon
<1>4. p \in SentAsked(floor, pruned, sent.asked) <=>
        \E f \in sent.asked :
            /\ budget.repeat = "always" \/ Copies(f, floor, pruned) = 0
            /\ p = Part(Len(turns) + 1, f, "body")
    BY Zenon DEF SentAsked
<1>5. Len(turns) + 1 > pruned /\ \A i \in Verbatim(floor, pruned) : i > pruned
    BY <1>0 DEF Verbatim
<1>6. p \in BodiesAbove <=>
        /\ p.as = "body" /\ p.turn > pruned
        /\ p \in SentAbove(floor, pruned, sent.asked)
              \/ p \in SentAsked(floor, pruned, sent.asked)
    BY <1>2 DEF BodiesAbove, Parts
<1>7. ASSUME p \in SentAbove(floor, pruned, sent.asked), p.as = "body"
      PROVE  \E i \in Verbatim(floor, pruned) : \E f \in turns[i].spans :
                  /\ \/ budget.repeat = "always"
                     \/ \A j \in Verbatim(floor, pruned) : j < i => f \notin turns[j].spans
                  /\ ~Superseded(f, sent.asked)
                  /\ p = Part(i, f, "body")
    <2>1. PICK i \in Verbatim(floor, pruned) : \E f \in turns[i].spans :
            /\ \/ budget.repeat = "always"
               \/ \A j \in Verbatim(floor, pruned) : j < i => f \notin turns[j].spans
            /\ p = Part(i, f, IF Superseded(f, sent.asked) THEN "cited" ELSE "body")
        BY <1>3, <1>7, Zenon
    <2>2. PICK f \in turns[i].spans :
            /\ \/ budget.repeat = "always"
               \/ \A j \in Verbatim(floor, pruned) : j < i => f \notin turns[j].spans
            /\ p = Part(i, f, IF Superseded(f, sent.asked) THEN "cited" ELSE "body")
        BY <2>1, Zenon
    <2>3. ~Superseded(f, sent.asked)
        BY <1>1, <1>7, <2>2
    <2>4. p = Part(i, f, "body")
        BY <2>2, <2>3
    <2> QED
        BY <2>2, <2>3, <2>4, Zenon
<1>8. ASSUME NEW i \in Verbatim(floor, pruned), NEW f \in turns[i].spans,
             \/ budget.repeat = "always"
             \/ \A j \in Verbatim(floor, pruned) : j < i => f \notin turns[j].spans,
             ~Superseded(f, sent.asked), p = Part(i, f, "body")
      PROVE  p \in BodiesAbove
    <2>1. p = Part(i, f, IF Superseded(f, sent.asked) THEN "cited" ELSE "body")
        BY <1>8
    <2>2. p \in SentAbove(floor, pruned, sent.asked)
        BY <1>3, <1>8, <2>1, Zenon
    <2> QED
        BY <1>1, <1>5, <1>6, <1>8, <2>2
<1>9. ASSUME NEW f \in sent.asked,
             budget.repeat = "always" \/ Copies(f, floor, pruned) = 0,
             p = Part(Len(turns) + 1, f, "body")
      PROVE  p \in BodiesAbove
    <2>1. p \in SentAsked(floor, pruned, sent.asked)
        BY <1>4, <1>9, Zenon
    <2> QED
        BY <1>1, <1>5, <1>6, <1>9, <2>1
<1>10. ASSUME p \in BodiesAbove
       PROVE  \/ \E i \in Verbatim(floor, pruned) : \E f \in turns[i].spans :
                  /\ \/ budget.repeat = "always"
                     \/ \A j \in Verbatim(floor, pruned) : j < i => f \notin turns[j].spans
                  /\ ~Superseded(f, sent.asked)
                  /\ p = Part(i, f, "body")
              \/ \E f \in sent.asked :
                  /\ budget.repeat = "always" \/ Copies(f, floor, pruned) = 0
                  /\ p = Part(Len(turns) + 1, f, "body")
    BY <1>4, <1>6, <1>7, <1>10, Zenon
<1> QED
    BY <1>8, <1>9, <1>10, Zenon

\* A span that is not superseded is of the newest body of its path.
LEMMA UnsupersededIsNewest ==
    ASSUME Shown, budget.repeat = "once", NEW i \in 1..Len(turns),
           NEW f \in turns[i].spans, ~Superseded(f, sent.asked)
    PROVE  f \in Newest(f.path)
<1>1. Readers(f.path) # {}
    BY DEF Readers
<1> QED
    BY <1>1 DEF Superseded, Newest

LEMMA NewestIsOneBody ==
    ASSUME Shown, NEW path, NEW f \in Newest(path), NEW g \in Newest(path)
    PROVE  f = g
<1>1. CASE \E h \in sent.asked : h.path = path
    BY <1>1, SelectedIsOneBodyEach DEF Newest, OneBodyEach
<1>2. CASE ~\E h \in sent.asked : h.path = path
    <2>1. /\ Readers(path) # {}
          /\ f \in turns[Max(Readers(path))].spans /\ f.path = path
          /\ g \in turns[Max(Readers(path))].spans /\ g.path = path
        BY <1>2 DEF Newest
    <2>2. OneBodyEach(turns[Max(Readers(path))].spans)
        BY <2>1, TheNewestReads DEF Shown, Read, Kept
    <2> QED
        BY <2>1, <2>2 DEF OneBodyEach
<1> QED
    BY <1>1, <1>2

LEMMA ShownOneTrueBody == Shown => OneTrueBody
<1> SUFFICES ASSUME Shown, budget.repeat = "once", NEW p \in BodiesAbove
             PROVE  /\ p.span \in Newest(p.span.path)
                    /\ \A q \in BodiesAbove : q.span.path = p.span.path => q = p
    BY DEF OneTrueBody
<1> DEFINE V == Verbatim(floor, pruned)
           InHistory(r, i, f) ==
                /\ i \in V /\ f \in turns[i].spans
                /\ \A j \in V : j < i => f \notin turns[j].spans
                /\ ~Superseded(f, sent.asked)
                /\ r = Part(i, f, "body")
           InAsked(r, f) ==
                /\ f \in sent.asked /\ Copies(f, floor, pruned) = 0
                /\ r = Part(Len(turns) + 1, f, "body")
<1>0. /\ floor \in 0..Len(turns) /\ Len(turns) \in Nat
      /\ V \subseteq 1..Len(turns)
    BY DEF Shown, Lines, Verbatim
<1>1. ASSUME NEW r \in BodiesAbove
      PROVE  (\E i, f : InHistory(r, i, f)) \/ (\E f : InAsked(r, f))
    <2>1. \/ \E i \in V : \E f \in turns[i].spans :
                  /\ \/ budget.repeat = "always"
                     \/ \A j \in V : j < i => f \notin turns[j].spans
                  /\ ~Superseded(f, sent.asked)
                  /\ r = Part(i, f, "body")
          \/ \E f \in sent.asked :
                  /\ budget.repeat = "always" \/ Copies(f, floor, pruned) = 0
                  /\ r = Part(Len(turns) + 1, f, "body")
        BY <1>1, PartsAbove, Zenon
    <2>2. budget.repeat # "always"
        OBVIOUS
    <2> QED
        BY <2>1, <2>2, Zenon
<1>2. \A i, f, as : Part(i, f, as).span = f
    BY DEF Part
<1>3. ASSUME NEW r \in BodiesAbove
      PROVE  r.span \in Newest(r.span.path)
    <2>1. CASE \E i, f : InHistory(r, i, f)
        <3>1. PICK i, f : InHistory(r, i, f)
            BY <2>1
        <3>2. f \in Newest(f.path)
            BY <1>0, <3>1, UnsupersededIsNewest
        <3> QED
            BY <1>2, <3>1, <3>2
    <2>2. CASE \E f : InAsked(r, f)
        BY <1>2, <2>2 DEF Newest
    <2> QED
        BY <1>1, <2>1, <2>2
<1>4. \A f : Copies(f, floor, pruned) = 0 <=> \A i \in V : f \notin turns[i].spans
    BY <1>0, NobodyCopies
<1>5. ASSUME NEW q \in BodiesAbove, q.span.path = p.span.path
      PROVE  q = p
    <2>1. q.span = p.span
        BY <1>3, <1>5, NewestIsOneBody
    <2>2. CASE (\E i, f : InHistory(p, i, f)) /\ (\E i, f : InHistory(q, i, f))
        <3>1. PICK i, f : InHistory(p, i, f)
            BY <2>2
        <3>2. PICK j, g : InHistory(q, j, g)
            BY <2>2
        <3>3. f = g
            BY <1>2, <2>1, <3>1, <3>2
        <3>4. ~(i < j) /\ ~(j < i) /\ i \in Int /\ j \in Int
            BY <1>0, <3>1, <3>2, <3>3
        <3>5. i = j
            BY <3>4
        <3> QED
            BY <3>1, <3>2, <3>3, <3>5
    <2>3. CASE (\E f : InAsked(p, f)) /\ (\E f : InAsked(q, f))
        BY <1>2, <2>1, <2>3
    <2>4. CASE (\E i, f : InHistory(p, i, f)) /\ (\E f : InAsked(q, f))
        BY <1>2, <1>4, <2>1, <2>4
    <2>5. CASE (\E f : InAsked(p, f)) /\ (\E i, f : InHistory(q, i, f))
        BY <1>2, <1>4, <2>1, <2>5
    <2> QED
        BY <1>1, <2>2, <2>3, <2>4, <2>5
<1> QED
    BY <1>3, <1>5

\* Of the turns that carry a span above the line, the first sends it.
LEMMA AFirstTurnSends ==
    ASSUME Shown, NEW i \in Verbatim(floor, pruned), NEW f \in turns[i].spans,
           ~Superseded(f, sent.asked)
    PROVE  \E p \in BodiesAbove : p.span = f
<1> DEFINE S == {j \in Verbatim(floor, pruned) : f \in turns[j].spans}
<1>1. S \in SUBSET Nat /\ S # {}
    <2>1. floor \in Nat /\ Len(turns) \in Nat
        BY DEF Shown, Lines
    <2>2. Verbatim(floor, pruned) \in SUBSET Nat
        BY ONLY <2>1 DEF Verbatim
    <2> QED
        BY ONLY <2>2, i \in Verbatim(floor, pruned), f \in turns[i].spans
<1>2. PICK j \in S : \A k \in S : ~ (<<k, j>> \in OpToRel(<, Nat))
    BY <1>1, NatLessThanWellFounded, WFMin
<1>3. \A k \in Verbatim(floor, pruned) : k < j => f \notin turns[k].spans
    BY <1>1, <1>2 DEF OpToRel
<1>4. j \in Verbatim(floor, pruned) /\ f \in turns[j].spans
    OBVIOUS
<1>5. PICK p : p = Part(j, f, "body")
    OBVIOUS
<1>6. p \in BodiesAbove
    BY <1>3, <1>4, <1>5, PartsAbove, Zenon
<1> QED
    BY <1>5, <1>6 DEF Part

LEMMA ShownWhatIsLeftOut == Shown => WhatIsLeftOutIsShown
<1> SUFFICES ASSUME Shown
             PROVE  /\ \A i \in Verbatim(floor, pruned) : \A f \in turns[i].spans :
                        \/ \E p \in BodiesAbove : p.span.path = f.path
                        \/ invented /\ Folded(Max(Readers(f.path)))
                    /\ \A f \in sent.asked : \E p \in BodiesAbove : p.span = f
    BY DEF WhatIsLeftOutIsShown
<1>0. /\ Len(turns) \in Nat
      /\ floor \in 0..Len(turns) /\ pruned \in 0..Len(turns)
      /\ budget \in Budget
    BY DEF Shown, Lines
<1>1. ASSUME NEW f \in sent.asked
      PROVE  \E p \in BodiesAbove : p.span = f
    <2>1. CASE budget.repeat = "always" \/ Copies(f, floor, pruned) = 0
        <3>1. PICK p : p = Part(Len(turns) + 1, f, "body")
            OBVIOUS
        <3>2. p \in BodiesAbove
            BY <2>1, <3>1, PartsAbove, Zenon
        <3> QED
            BY <3>1, <3>2 DEF Part
    <2>2. CASE ~(budget.repeat = "always" \/ Copies(f, floor, pruned) = 0)
        <3>1. PICK i \in Verbatim(floor, pruned) : f \in turns[i].spans
            BY <1>0, <2>2, NobodyCopies
        <3>2. ~Superseded(f, sent.asked)
            BY DEF Superseded
        <3> QED
            BY <3>1, <3>2, AFirstTurnSends
    <2> QED
        BY <2>1, <2>2
<1>2. ASSUME NEW i \in Verbatim(floor, pruned), NEW f \in turns[i].spans
      PROVE  \/ \E p \in BodiesAbove : p.span.path = f.path
             \/ invented /\ Folded(Max(Readers(f.path)))
    <2>1. CASE ~Superseded(f, sent.asked)
        BY <2>1, AFirstTurnSends
    <2>2. CASE \E g \in sent.asked : g.path = f.path
        BY <1>1, <2>2
    <2>3. CASE Superseded(f, sent.asked) /\ ~\E g \in sent.asked : g.path = f.path
        <3> DEFINE m == Max(Readers(f.path))
        <3>1. i \in 1..Len(turns) /\ i \in Readers(f.path) /\ i > pruned /\ i > floor
              /\ ~Folded(i)
            BY <1>0 DEF Verbatim, Readers
        <3>2. /\ m \in 1..Len(turns) /\ i <= m
              /\ \E g \in turns[m].spans : g.path = f.path
            BY <3>1, TheNewestReads
        <3>3. PICK g \in turns[m].spans : g.path = f.path
            BY <3>2
        <3>4. invented \/ ~Folded(m)
            BY <3>1, <3>2, NoFoldBehindATurn
        <3>5. ~Folded(m) => m \in Verbatim(floor, pruned)
            BY <1>0, <3>1, <3>2 DEF Verbatim
        <3>6. ~Superseded(g, sent.asked)
            BY <2>3, <3>3 DEF Superseded
        <3> QED
            BY <3>3, <3>4, <3>5, <3>6, AFirstTurnSends
    <2> QED
        BY <2>1, <2>2, <2>3
<1> QED
    BY <1>1, <1>2

\* Under Once, no prompt shows two bodies of a path above the prune line, nor
\* one body twice, nor one that is not the newest: whatever was read in which
\* order, and whatever folded or was given up in between
\* (crates/agent-core/src/context.rs, Current::of and split_shown).
THEOREM OneBodyIsSent == Spec => []OneTrueBody
BY ShownInit, ShownNext, ShownOneTrueBody, PTL DEF Spec

\* A span the prompt leaves out, or cites as superseded, has the newest body
\* of its path in the same prompt: a turn that is folded, evicted or behind
\* the line is never what another is left out for, but where a resume gave old
\* turns a draft of their own and the path was read again in a job that folded
\* (crates/agent-core/src/context.rs, split_shown and Current::superseded).
THEOREM WhatIsLeftOutIsThere == Spec => []WhatIsLeftOutIsShown
BY ShownInit, ShownNext, ShownWhatIsLeftOut, PTL DEF Spec

(***************************************************************************)
(* Sums over finite sets: Total is MapThenSumSet of a function's values.    *)
(***************************************************************************)
Total(F, S) == MapThenSumSet(LAMBDA x : F[x], S)

Chosen(s) == CHOOSE x \in s : TRUE

\* The recursion that defines a sum, for the subsets of a set.
Sums(g, F, S) ==
    g = [s \in SUBSET S |->
            IF s = {} THEN 0 ELSE F[Chosen(s)] + g[s \ {Chosen(s)}]]

LEMMA TotalIsRecursive ==
    ASSUME NEW F, NEW S
    PROVE  Total(F, S) = (CHOOSE g : Sums(g, F, S))[S]
BY Zenon DEF Total, MapThenSumSet, MapThenFoldSet, Sums, Chosen

\* What holds of a set when it holds of all that lack one of its members,
\* holds of every finite set.
LEMMA BySmallerSets ==
    ASSUME NEW S, IsFiniteSet(S), NEW G,
           \A s \in SUBSET S : (\A x \in s : s \ {x} \in G) => s \in G
    PROVE  \A s \in SUBSET S : s \in G
<1> DEFINE Bad == {s \in SUBSET S : s \notin G}
           Sizes == {Cardinality(s) : s \in Bad}
<1>1. SUFFICES ASSUME Bad # {}
               PROVE  FALSE
    OBVIOUS
<1>2. \A s \in SUBSET S : IsFiniteSet(s)
    BY FS_Subset
<1>3. Sizes \in SUBSET Nat /\ Sizes # {}
    BY <1>1, <1>2, FS_CardinalityType
<1>4. Min(Sizes) \in Sizes /\ \A n \in Sizes : Min(Sizes) <= n
    BY <1>3, MinIsLeast
<1>5. PICK s \in Bad : Cardinality(s) = Min(Sizes)
    BY <1>4
<1>6. PICK x \in s : s \ {x} \notin G
    OBVIOUS
<1>7. s \ {x} \in Bad
    BY <1>6
<1>8. Cardinality(s \ {x}) = Cardinality(s) - 1 /\ Cardinality(s) \in Nat
    BY <1>2, FS_RemoveElement, FS_CardinalityType
<1>9. Cardinality(s \ {x}) \in Sizes
    BY <1>7
<1> HIDE DEF Sizes, Bad
<1> QED
    BY <1>4, <1>5, <1>8, <1>9

LEMMA ChosenIsIn ==
    ASSUME NEW s, s # {}
    PROVE  Chosen(s) \in s
BY DEF Chosen

LEMMA SumsUnfold ==
    ASSUME NEW F, NEW S, NEW g, Sums(g, F, S), NEW s \in SUBSET S
    PROVE  g[s] = IF s = {} THEN 0 ELSE F[Chosen(s)] + g[s \ {Chosen(s)}]
<1> DEFINE R(h, t) == IF t = {} THEN 0 ELSE F[Chosen(t)] + h[t \ {Chosen(t)}]
<1>1. g = [t \in SUBSET S |-> R(g, t)]
    BY DEF Sums
<1> HIDE DEF R
<1>2. g[s] = R(g, s)
    BY <1>1
<1> QED
    BY <1>2 DEF R

\* The recursion has one solution.
LEMMA SumsAgree ==
    ASSUME NEW F, NEW S, IsFiniteSet(S), NEW T \in SUBSET S,
           NEW g, Sums(g, F, S), NEW h, Sums(h, F, T)
    PROVE  \A s \in SUBSET T : g[s] = h[s]
<1> DEFINE G == {s \in SUBSET T : g[s] = h[s]}
<1>1. IsFiniteSet(T)
    BY FS_Subset
<1>2. ASSUME NEW s \in SUBSET T, \A x \in s : s \ {x} \in G
      PROVE  s \in G
    <2>1. g[s] = IF s = {} THEN 0 ELSE F[Chosen(s)] + g[s \ {Chosen(s)}]
        <3>1. s \in SUBSET S
            OBVIOUS
        <3>2. Sums(g, F, S)
            OBVIOUS
        <3> HIDE DEF G
        <3> QED
            BY ONLY <3>1, <3>2, SumsUnfold
    <2>2. h[s] = IF s = {} THEN 0 ELSE F[Chosen(s)] + h[s \ {Chosen(s)}]
        BY SumsUnfold
    <2>3. s # {} => g[s \ {Chosen(s)}] = h[s \ {Chosen(s)}]
        BY <1>2, ChosenIsIn
    <2> QED
        BY <2>1, <2>2, <2>3
<1> HIDE DEF G
<1>3. \A s \in SUBSET T : s \in G
    BY <1>1, <1>2, BySmallerSets
<1> QED
    BY <1>3 DEF G

LEMMA SumsRestrict ==
    ASSUME NEW F, NEW S, NEW g, Sums(g, F, S), NEW T \in SUBSET S
    PROVE  \E h : Sums(h, F, T)
<1> DEFINE h == [s \in SUBSET T |-> g[s]]
<1>1. \A s \in SUBSET T :
        g[s] = IF s = {} THEN 0 ELSE F[Chosen(s)] + h[s \ {Chosen(s)}]
    <2> SUFFICES ASSUME NEW s \in SUBSET T
                 PROVE  g[s] = IF s = {} THEN 0 ELSE F[Chosen(s)] + h[s \ {Chosen(s)}]
        OBVIOUS
    <2>1. s \in SUBSET S /\ s \ {Chosen(s)} \in SUBSET T
        OBVIOUS
    <2>2. g[s] = IF s = {} THEN 0 ELSE F[Chosen(s)] + g[s \ {Chosen(s)}]
        BY <2>1, SumsUnfold
    <2> QED
        BY <2>1, <2>2
<1>2. h = [s \in SUBSET T |->
            IF s = {} THEN 0 ELSE F[Chosen(s)] + h[s \ {Chosen(s)}]]
    BY <1>1, Zenon
<1>3. Sums(h, F, T)
    BY <1>2, Zenon DEF Sums
<1> QED
    BY <1>3

\* A sum is what the solution for any larger set has for it.
LEMMA TotalOfASolution ==
    ASSUME NEW F, NEW S, IsFiniteSet(S), NEW g, Sums(g, F, S), NEW T \in SUBSET S
    PROVE  Total(F, T) = g[T]
<1> DEFINE h == CHOOSE h : Sums(h, F, T)
<1>1. Sums(h, F, T)
    BY SumsRestrict
<1>2. Total(F, T) = h[T]
    BY TotalIsRecursive
<1> HIDE DEF h
<1> QED
    BY <1>1, <1>2, SumsAgree

LEMMA SumsExist ==
    ASSUME NEW F, NEW S, IsFiniteSet(S)
    PROVE  \E g : Sums(g, F, S)
<1> DEFINE G == {s \in SUBSET S : \E g : Sums(g, F, s)}
<1>1. ASSUME NEW s \in SUBSET S, \A x \in s : s \ {x} \in G
      PROVE  s \in G
    <2> DEFINE R(t) == IF t = {} THEN 0
                       ELSE F[Chosen(t)] + Total(F, t \ {Chosen(t)})
               h == [t \in SUBSET s |-> R(t)]
    <2>1. ASSUME NEW t \in SUBSET s, t # {}
          PROVE  h[t \ {Chosen(t)}] = Total(F, t \ {Chosen(t)})
        <3> DEFINE c == Chosen(t)
                   u == t \ {c}
        <3>1. c \in t /\ c \in s
            BY <2>1, ChosenIsIn
        <3>2. PICK g : Sums(g, F, s \ {c})
            BY <1>1, <3>1
        <3>3. IsFiniteSet(s \ {c})
            BY FS_Subset
        <3>4. u \in SUBSET (s \ {c}) /\ u \in SUBSET s
            OBVIOUS
        <3> HIDE DEF u, c
        <3>5. Total(F, u) = g[u]
            BY <3>2, <3>3, <3>4, TotalOfASolution
        <3>6. g[u] = IF u = {} THEN 0 ELSE F[Chosen(u)] + g[u \ {Chosen(u)}]
            BY <3>2, <3>4, SumsUnfold
        <3>7. Total(F, u \ {Chosen(u)}) = g[u \ {Chosen(u)}]
            <4>1. u \ {Chosen(u)} \in SUBSET (s \ {c})
                BY <3>4
            <4> QED
                BY <3>2, <3>3, <4>1, TotalOfASolution
        <3>8. h[u] = R(u)
            BY <3>4
        <3>9. h[u] = Total(F, u)
            BY <3>5, <3>6, <3>7, <3>8
        <3> QED
            BY <3>9 DEF u, c
    <2>2. ASSUME NEW t \in SUBSET s
          PROVE  R(t) = IF t = {} THEN 0 ELSE F[Chosen(t)] + h[t \ {Chosen(t)}]
        BY <2>1
    <2>3. h = [t \in SUBSET s |->
                IF t = {} THEN 0 ELSE F[Chosen(t)] + h[t \ {Chosen(t)}]]
        BY <2>2, Zenon
    <2>4. Sums(h, F, s)
        BY <2>3, Zenon DEF Sums
    <2> QED
        BY <2>4
<1> HIDE DEF G
<1>2. \A s \in SUBSET S : s \in G
    BY <1>1, BySmallerSets
<1>3. S \in G
    BY <1>2
<1> QED
    BY <1>3 DEF G

LEMMA TotalUnfolds ==
    ASSUME NEW F, NEW S, IsFiniteSet(S)
    PROVE  Total(F, S) = IF S = {} THEN 0
                         ELSE F[Chosen(S)] + Total(F, S \ {Chosen(S)})
<1>1. PICK g : Sums(g, F, S)
    BY SumsExist
<1>2. S \in SUBSET S /\ S \ {Chosen(S)} \in SUBSET S
    OBVIOUS
<1>3. Total(F, S) = g[S] /\ Total(F, S \ {Chosen(S)}) = g[S \ {Chosen(S)}]
    BY <1>1, <1>2, TotalOfASolution
<1>4. g[S] = IF S = {} THEN 0 ELSE F[Chosen(S)] + g[S \ {Chosen(S)}]
    BY <1>1, <1>2, SumsUnfold
<1> QED
    BY <1>3, <1>4

LEMMA TotalType ==
    ASSUME NEW F, NEW S, IsFiniteSet(S), \A x \in S : F[x] \in Int
    PROVE  /\ Total(F, S) \in Int
           /\ (\A x \in S : F[x] >= 0) => Total(F, S) >= 0
           /\ Total(F, {}) = 0
<1> DEFINE G == {s \in SUBSET S :
                    /\ Total(F, s) \in Int
                    /\ (\A x \in S : F[x] >= 0) => Total(F, s) >= 0}
<1>1. ASSUME NEW s \in SUBSET S, \A x \in s : s \ {x} \in G
      PROVE  s \in G
    <2>1. IsFiniteSet(s)
        BY FS_Subset
    <2>2. Total(F, s) = IF s = {} THEN 0
                        ELSE F[Chosen(s)] + Total(F, s \ {Chosen(s)})
        BY <2>1, TotalUnfolds
    <2>3. CASE s = {}
        BY <2>2, <2>3
    <2>4. CASE s # {}
        <3>1. Chosen(s) \in s /\ Chosen(s) \in S
            BY <2>4, ChosenIsIn
        <3>2. s \ {Chosen(s)} \in G
            BY <1>1, <3>1
        <3>3. F[Chosen(s)] \in Int /\ ((\A x \in S : F[x] >= 0) => F[Chosen(s)] >= 0)
            BY <3>1
        <3> QED
            BY <2>2, <2>4, <3>2, <3>3
    <2> QED
        BY <2>3, <2>4
<1> HIDE DEF G
<1>2. \A s \in SUBSET S : s \in G
    BY <1>1, BySmallerSets
<1>3. S \in G
    BY <1>2
<1>4. Total(F, {}) = 0
    BY FS_EmptySet, TotalUnfolds
<1> QED
    BY <1>3, <1>4 DEF G

\* A sum is any of its terms and the sum of the others.
LEMMA TotalStep ==
    ASSUME NEW F, NEW S, IsFiniteSet(S), \A x \in S : F[x] \in Int, NEW y \in S
    PROVE  /\ Total(F, S) = F[y] + Total(F, S \ {y})
           /\ Total(F, S \ {y}) \in Int
<1> DEFINE G == {s \in SUBSET S :
                    \A x \in s : Total(F, s) = F[x] + Total(F, s \ {x})}
<1>0. \A s \in SUBSET S : IsFiniteSet(s) /\ Total(F, s) \in Int
    <2> SUFFICES ASSUME NEW s \in SUBSET S
                 PROVE  IsFiniteSet(s) /\ Total(F, s) \in Int
        OBVIOUS
    <2>1. IsFiniteSet(s)
        BY FS_Subset
    <2> QED
        BY <2>1, TotalType
<1>1. ASSUME NEW s \in SUBSET S, \A x \in s : s \ {x} \in G
      PROVE  s \in G
    <2> SUFFICES ASSUME NEW x \in s
                 PROVE  Total(F, s) = F[x] + Total(F, s \ {x})
        OBVIOUS
    <2> DEFINE c == Chosen(s)
    <2>1. c \in s /\ c \in S /\ x \in S
        BY ChosenIsIn
    <2>2. Total(F, s) = F[c] + Total(F, s \ {c})
        BY <1>0, TotalUnfolds
    <2> HIDE DEF c
    <2>3. CASE x = c
        BY <2>2, <2>3
    <2>4. CASE x # c
        <3> DEFINE r == (s \ {c}) \ {x}
        <3>1. Total(F, s \ {c}) = F[x] + Total(F, r)
            <4>1. s \ {c} \in G /\ x \in s \ {c}
                BY <1>1, <2>1, <2>4
            <4> QED
                BY <4>1
        <3>2. Total(F, s \ {x}) = F[c] + Total(F, r)
            <4>1. s \ {x} \in G /\ c \in s \ {x}
                BY <1>1, <2>1, <2>4
            <4>2. (s \ {x}) \ {c} = r
                OBVIOUS
            <4>3. Total(F, s \ {x}) = F[c] + Total(F, (s \ {x}) \ {c})
                BY <4>1
            <4> QED
                BY <4>2, <4>3
        <3>3. F[x] \in Int /\ F[c] \in Int /\ Total(F, r) \in Int
            BY <1>0, <2>1
        <3> HIDE DEF r
        <3> QED
            BY <2>2, <3>1, <3>2, <3>3
    <2> QED
        BY <2>3, <2>4
<1>2. \A s \in SUBSET S : s \in G
    <2> HIDE DEF G
    <2> QED
        BY <1>1, BySmallerSets
<1>3. S \in G /\ S \ {y} \in SUBSET S
    BY <1>2
<1> QED
    BY <1>0, <1>3 DEF G

LEMMA TotalOrder ==
    ASSUME NEW F, NEW E, NEW S, IsFiniteSet(S),
           \A x \in S : F[x] \in Int /\ E[x] \in Int /\ F[x] <= E[x]
    PROVE  Total(F, S) <= Total(E, S)
<1> DEFINE G == {s \in SUBSET S : Total(F, s) <= Total(E, s)}
<1>1. ASSUME NEW s \in SUBSET S, \A x \in s : s \ {x} \in G
      PROVE  s \in G
    <2>1. IsFiniteSet(s) /\ \A x \in s : F[x] \in Int /\ E[x] \in Int
        BY FS_Subset
    <2>2. CASE s = {}
        BY <2>1, <2>2, TotalType
    <2>3. CASE s # {}
        <3>1. PICK y \in s : TRUE
            BY <2>3
        <3>2. /\ Total(F, s) = F[y] + Total(F, s \ {y}) /\ Total(F, s \ {y}) \in Int
              /\ Total(E, s) = E[y] + Total(E, s \ {y}) /\ Total(E, s \ {y}) \in Int
            BY <2>1, TotalStep
        <3>3. Total(F, s \ {y}) <= Total(E, s \ {y})
            BY <1>1
        <3>4. F[y] \in Int /\ E[y] \in Int /\ F[y] <= E[y]
            OBVIOUS
        <3> HIDE DEF G
        <3>5. Total(F, s) <= Total(E, s)
            BY <3>2, <3>3, <3>4
        <3> QED
            BY <3>5 DEF G
    <2> QED
        BY <2>2, <2>3
<1> HIDE DEF G
<1>2. \A s \in SUBSET S : s \in G
    BY <1>1, BySmallerSets
<1>3. S \in G
    BY <1>2
<1> QED
    BY <1>3 DEF G

LEMMA TotalSame ==
    ASSUME NEW F, NEW E, NEW S, IsFiniteSet(S),
           \A x \in S : F[x] \in Int /\ F[x] = E[x]
    PROVE  Total(F, S) = Total(E, S)
<1>1. Total(F, S) <= Total(E, S) /\ Total(E, S) <= Total(F, S)
    BY TotalOrder
<1>2. Total(F, S) \in Int /\ Total(E, S) \in Int
    BY TotalType
<1> QED
    BY <1>1, <1>2

LEMMA TotalAdds ==
    ASSUME NEW F, NEW E, NEW H, NEW S, IsFiniteSet(S),
           \A x \in S : F[x] \in Int /\ E[x] \in Int /\ H[x] = F[x] + E[x]
    PROVE  Total(H, S) = Total(F, S) + Total(E, S)
<1> DEFINE G == {s \in SUBSET S : Total(H, s) = Total(F, s) + Total(E, s)}
<1>1. ASSUME NEW s \in SUBSET S, \A x \in s : s \ {x} \in G
      PROVE  s \in G
    <2>1. IsFiniteSet(s) /\ \A x \in s : F[x] \in Int /\ E[x] \in Int /\ H[x] \in Int
        BY FS_Subset
    <2>2. CASE s = {}
        <3>1. Total(F, s) = 0 /\ Total(E, s) = 0 /\ Total(H, s) = 0
            BY <2>1, <2>2, TotalType
        <3> QED
            BY <3>1
    <2>3. CASE s # {}
        <3>1. PICK y \in s : TRUE
            BY <2>3
        <3>2. /\ Total(F, s) = F[y] + Total(F, s \ {y}) /\ Total(F, s \ {y}) \in Int
              /\ Total(E, s) = E[y] + Total(E, s \ {y}) /\ Total(E, s \ {y}) \in Int
              /\ Total(H, s) = H[y] + Total(H, s \ {y}) /\ Total(H, s \ {y}) \in Int
            <4>1. Total(F, s) = F[y] + Total(F, s \ {y}) /\ Total(F, s \ {y}) \in Int
                BY <2>1, TotalStep
            <4>2. Total(E, s) = E[y] + Total(E, s \ {y}) /\ Total(E, s \ {y}) \in Int
                BY <2>1, TotalStep
            <4>3. Total(H, s) = H[y] + Total(H, s \ {y}) /\ Total(H, s \ {y}) \in Int
                BY <2>1, TotalStep
            <4> QED
                BY <4>1, <4>2, <4>3
        <3>3. Total(H, s \ {y}) = Total(F, s \ {y}) + Total(E, s \ {y})
            BY <1>1
        <3>4. F[y] \in Int /\ E[y] \in Int /\ H[y] = F[y] + E[y]
            OBVIOUS
        <3> HIDE DEF G
        <3>5. Total(H, s) = Total(F, s) + Total(E, s)
            BY <3>2, <3>3, <3>4
        <3> QED
            BY <3>5 DEF G
    <2> QED
        BY <2>2, <2>3
<1> HIDE DEF G
<1>2. \A s \in SUBSET S : s \in G
    BY <1>1, BySmallerSets
<1>3. S \in G
    BY <1>2
<1> QED
    BY <1>3 DEF G

LEMMA TotalOfZeros ==
    ASSUME NEW F, NEW S, IsFiniteSet(S), \A x \in S : F[x] = 0
    PROVE  Total(F, S) = 0
<1>1. \A x \in S : F[x] \in Int /\ F[x] = F[x] + F[x]
    OBVIOUS
<1>2. Total(F, S) = Total(F, S) + Total(F, S)
    BY <1>1, TotalAdds
<1>3. Total(F, S) \in Int
    BY <1>1, TotalType
<1>4. PICK t : t = Total(F, S)
    OBVIOUS
<1>5. t \in Int /\ t = t + t
    BY ONLY <1>2, <1>3, <1>4
<1>6. t = 0
    BY ONLY <1>5
<1> QED
    BY ONLY <1>4, <1>6

\* A part of a set and the rest of it.
LEMMA TotalSplits ==
    ASSUME NEW F, NEW S, IsFiniteSet(S), \A x \in S : F[x] \in Int, NEW A \in SUBSET S
    PROVE  /\ Total(F, S) = Total(F, A) + Total(F, S \ A)
           /\ Total(F, A) \in Int /\ Total(F, S \ A) \in Int
<1> DEFINE G == {s \in SUBSET S :
                    Total(F, s) = Total(F, s \cap A) + Total(F, s \ A)}
<1>0. \A s \in SUBSET S : IsFiniteSet(s) /\ Total(F, s) \in Int
    <2> SUFFICES ASSUME NEW s \in SUBSET S
                 PROVE  IsFiniteSet(s) /\ Total(F, s) \in Int
        OBVIOUS
    <2>1. IsFiniteSet(s)
        BY FS_Subset
    <2> QED
        BY <2>1, TotalType
<1>1. ASSUME NEW s \in SUBSET S, \A x \in s : s \ {x} \in G
      PROVE  s \in G
    <2>1. CASE s = {}
        <3>1. Total(F, {}) = 0 /\ s \cap A = {} /\ s \ A = {}
            BY <2>1, TotalType
        <3> QED
            BY <2>1, <3>1
    <2>2. CASE s # {}
        <3>1. PICK y \in s : TRUE
            BY <2>2
        <3> DEFINE r == s \ {y}
        <3>2. Total(F, s) = F[y] + Total(F, r)
            BY <1>0, TotalStep
        <3>3. Total(F, r) = Total(F, r \cap A) + Total(F, r \ A)
            BY <1>1
        <3>4. F[y] \in Int /\ Total(F, r \cap A) \in Int /\ Total(F, r \ A) \in Int
            BY <1>0
        <3>5. CASE y \in A
            <4>1. s \ A = r \ A /\ (s \cap A) \ {y} = r \cap A
                BY <3>5
            <4>2. Total(F, s \cap A) = F[y] + Total(F, (s \cap A) \ {y})
                <5> DEFINE t == s \cap A
                <5>1. y \in t /\ IsFiniteSet(t) /\ \A x \in t : F[x] \in Int
                    BY <1>0, <3>5
                <5> HIDE DEF t
                <5>2. Total(F, t) = F[y] + Total(F, t \ {y})
                    BY <5>1, TotalStep
                <5> QED
                    BY <5>2 DEF t
            <4>3. Total(F, s \cap A) = F[y] + Total(F, r \cap A)
                BY <4>1, <4>2
            <4>4. Total(F, s \ A) = Total(F, r \ A)
                BY <4>1
            <4> HIDE DEF r, G
            <4>5. Total(F, s) = Total(F, s \cap A) + Total(F, s \ A)
                BY <3>2, <3>3, <3>4, <4>3, <4>4
            <4> QED
                BY <4>5 DEF G
        <3>6. CASE y \notin A
            <4>1. s \cap A = r \cap A /\ (s \ A) \ {y} = r \ A
                BY <3>6
            <4>2. Total(F, s \ A) = F[y] + Total(F, (s \ A) \ {y})
                BY <1>0, <3>6, TotalStep
            <4>3. Total(F, s \ A) = F[y] + Total(F, r \ A)
                BY <4>1, <4>2
            <4>4. Total(F, s \cap A) = Total(F, r \cap A)
                BY <4>1
            <4> HIDE DEF r, G
            <4>5. Total(F, s) = Total(F, s \cap A) + Total(F, s \ A)
                BY <3>2, <3>3, <3>4, <4>3, <4>4
            <4> QED
                BY <4>5 DEF G
        <3> QED
            BY <3>5, <3>6
    <2> QED
        BY <2>1, <2>2
<1>2. S \in G
    <2> HIDE DEF G
    <2>1. \A s \in SUBSET S : s \in G
        BY <1>1, BySmallerSets
    <2> QED
        BY <2>1
<1>3. S \cap A = A
    OBVIOUS
<1> QED
    BY <1>0, <1>2, <1>3

LEMMA TotalGrows ==
    ASSUME NEW F, NEW S, IsFiniteSet(S), \A x \in S : F[x] \in Nat, NEW A \in SUBSET S
    PROVE  Total(F, A) <= Total(F, S) /\ Total(F, A) \in Nat /\ Total(F, S) \in Nat
<1>1. IsFiniteSet(A) /\ IsFiniteSet(S \ A)
    BY FS_Subset
<1>2. /\ Total(F, S) = Total(F, A) + Total(F, S \ A)
      /\ Total(F, A) \in Int /\ Total(F, S \ A) \in Int
    BY TotalSplits
<1>3. Total(F, S \ A) >= 0 /\ Total(F, A) >= 0
    BY <1>1, TotalType
<1> QED
    BY <1>2, <1>3

\* Overlapping sets cost no more together than one by one.
LEMMA TotalOfUnion ==
    ASSUME NEW F, NEW A, NEW B, IsFiniteSet(A), IsFiniteSet(B),
           \A x \in A \cup B : F[x] \in Nat
    PROVE  Total(F, A \cup B) <= Total(F, A) + Total(F, B)
<1> DEFINE S == A \cup B
<1>1. IsFiniteSet(S)
    BY FS_Union
<1>2. Total(F, S) = Total(F, A) + Total(F, S \ A) /\ Total(F, A) \in Int
    <2>1. A \in SUBSET S /\ \A x \in S : F[x] \in Int
        OBVIOUS
    <2> HIDE DEF S
    <2> QED
        BY <1>1, <2>1, TotalSplits
<1>3. S \ A \in SUBSET B
    OBVIOUS
<1>4. Total(F, S \ A) <= Total(F, B) /\ Total(F, S \ A) \in Nat /\ Total(F, B) \in Nat
    BY <1>3, TotalGrows
<1> QED
    BY <1>2, <1>4

LEMMA TotalOfUnions ==
    ASSUME NEW F, NEW S, IsFiniteSet(S), NEW E, NEW H,
           \A i \in S : /\ IsFiniteSet(E[i]) /\ H[i] \in Nat
                        /\ \A x \in E[i] : F[x] \in Nat
                        /\ Total(F, E[i]) <= H[i]
    PROVE  /\ IsFiniteSet(UNION {E[i] : i \in S})
           /\ Total(F, UNION {E[i] : i \in S}) <= Total(H, S)
<1> DEFINE All(s) == UNION {E[i] : i \in s}
           G == {s \in SUBSET S : IsFiniteSet(All(s)) /\ Total(F, All(s)) <= Total(H, s)}
<1>1. ASSUME NEW s \in SUBSET S, \A x \in s : s \ {x} \in G
      PROVE  s \in G
    <2>1. IsFiniteSet(s) /\ \A i \in s : H[i] \in Int
        BY FS_Subset
    <2>2. CASE s = {}
        <3>1. All(s) = {} /\ IsFiniteSet({})
            BY <2>2, FS_EmptySet
        <3>2. Total(F, {}) = 0
            BY FS_EmptySet, TotalType
        <3>3. Total(H, {}) = 0
            BY FS_EmptySet, TotalType
        <3> QED
            BY <2>2, <3>1, <3>2, <3>3
    <2>3. CASE s # {}
        <3>1. PICK y \in s : TRUE
            BY <2>3
        <3> DEFINE r == s \ {y}
        <3>2. All(s) = All(r) \cup E[y]
            OBVIOUS
        <3>3. IsFiniteSet(All(r)) /\ Total(F, All(r)) <= Total(H, r)
            BY <1>1
        <3>4. /\ IsFiniteSet(E[y]) /\ H[y] \in Nat
              /\ Total(F, E[y]) <= H[y]
            OBVIOUS
        <3>5. \A x \in All(r) \cup E[y] : F[x] \in Nat
            OBVIOUS
        <3>6. Total(H, s) = H[y] + Total(H, r) /\ Total(H, r) \in Int
            BY <2>1, TotalStep
        <3> DEFINE a == All(r)
                   e == E[y]
        <3> HIDE DEF r, a, e, G, All
        <3>7. IsFiniteSet(a) /\ IsFiniteSet(e) /\ \A x \in a \cup e : F[x] \in Nat
            BY <3>3, <3>4, <3>5 DEF a, e
        <3>8. Total(F, a \cup e) <= Total(F, a) + Total(F, e)
            BY <3>7, TotalOfUnion
        <3>9. IsFiniteSet(a \cup e)
            BY <3>7, FS_Union
        <3>10. Total(F, a) \in Int /\ Total(F, e) \in Int /\ Total(F, a \cup e) \in Int
            BY <3>7, <3>9, TotalType
        <3>11. Total(F, a \cup e) <= Total(H, s)
            BY <3>3, <3>4, <3>6, <3>8, <3>10 DEF a, e
        <3> QED
            BY <3>2, <3>9, <3>11 DEF a, e, G
    <2> QED
        BY <2>2, <2>3
<1>2. S \in G
    <2> HIDE DEF G
    <2>1. \A s \in SUBSET S : s \in G
        BY <1>1, BySmallerSets
    <2> QED
        BY <2>1
<1> QED
    BY <1>2

\* What a set is made into costs no more than what it is made from.
LEMMA TotalOfImage ==
    ASSUME NEW F, NEW S, IsFiniteSet(S), NEW E, NEW H,
           \A x \in S : F[E[x]] \in Nat /\ H[x] = F[E[x]]
    PROVE  /\ IsFiniteSet({E[x] : x \in S})
           /\ Total(F, {E[x] : x \in S}) <= Total(H, S)
<1> DEFINE one == [x \in S |-> {E[x]}]
<1>1. ASSUME NEW x \in S
      PROVE  /\ IsFiniteSet(one[x]) /\ H[x] \in Nat
             /\ \A y \in one[x] : F[y] \in Nat
             /\ Total(F, one[x]) <= H[x]
    <2>1. IsFiniteSet({E[x]}) /\ one[x] = {E[x]}
        BY FS_Singleton
    <2>2. Total(F, {E[x]}) = F[E[x]] + Total(F, {E[x]} \ {E[x]})
        BY <2>1, TotalStep
    <2>3. Total(F, {}) = 0
        BY FS_EmptySet, TotalType
    <2>4. {E[x]} \ {E[x]} = {}
        OBVIOUS
    <2>5. Total(F, {E[x]}) = F[E[x]]
        BY <2>2, <2>3, <2>4
    <2> QED
        BY <2>1, <2>5
<1>2. UNION {one[x] : x \in S} = {E[x] : x \in S}
    OBVIOUS
<1> HIDE DEF one
<1>3. /\ IsFiniteSet(UNION {one[x] : x \in S})
      /\ Total(F, UNION {one[x] : x \in S}) <= Total(H, S)
    BY <1>1, TotalOfUnions
<1> QED
    BY <1>2, <1>3

\* A table of rows A and columns B, read by rows (M) and by columns (Col), and
\* what each row and each column sums to.
Table(A, B, M, Col, Row, Column) ==
    /\ IsFiniteSet(A) /\ IsFiniteSet(B)
    /\ \A a \in A : \A b \in B : M[a][b] \in Int /\ Col[b][a] = M[a][b]
    /\ \A a \in A : Row[a] = Total(M[a], B)
    /\ \A b \in B : Column[b] = Total(Col[b], A)

\* A table has one total, by rows as by columns.
LEMMA RowsAndColumns ==
    ASSUME NEW A, NEW B, NEW M, NEW Col, NEW Row, NEW Column,
           Table(A, B, M, Col, Row, Column)
    PROVE  Total(Row, A) = Total(Column, B)
<1> USE DEF Table
<1> DEFINE Upto(s) == [b \in B |-> Total(Col[b], s)]
           G == {s \in SUBSET A : Total(Row, s) = Total(Upto(s), B)}
<1>0. \A a \in A : Row[a] \in Int
    BY TotalType
<1>1. ASSUME NEW s \in SUBSET A, \A x \in s : s \ {x} \in G
      PROVE  s \in G
    <2>1. IsFiniteSet(s)
        BY FS_Subset
    <2>2. CASE s = {}
        <3>1. Total(Row, {}) = 0
            BY FS_EmptySet, TotalType
        <3>2. \A b \in B : Upto({})[b] = 0
            BY FS_EmptySet, TotalType
        <3>3. Total(Upto({}), B) = 0
            BY <3>2, TotalOfZeros
        <3> QED
            BY <2>2, <3>1, <3>3
    <2>3. CASE s # {}
        <3>1. PICK y \in s : TRUE
            BY <2>3
        <3> DEFINE r == s \ {y}
        <3>2. Total(Row, s) = Row[y] + Total(Row, r)
            BY <1>0, <2>1, TotalStep
        <3>3. Total(Row, r) = Total(Upto(r), B)
            BY <1>1
        <3>4. ASSUME NEW b \in B
              PROVE  /\ Upto(r)[b] \in Int /\ M[y][b] \in Int
                     /\ Upto(s)[b] = M[y][b] + Upto(r)[b]
            <4> DEFINE col == Col[b]
            <4>1. \A a \in s : col[a] \in Int
                OBVIOUS
            <4>2. col[y] = M[y][b] /\ M[y][b] \in Int
                OBVIOUS
            <4>3. Upto(r)[b] = Total(col, r) /\ Upto(s)[b] = Total(col, s)
                OBVIOUS
            <4> HIDE DEF col, Upto
            <4>4. Total(col, s) = col[y] + Total(col, r) /\ Total(col, r) \in Int
                BY <2>1, <4>1, TotalStep
            <4> QED
                BY <4>2, <4>3, <4>4
        <3> DEFINE before == Upto(r)
                   now == Upto(s)
                   row == M[y]
        <3> HIDE DEF before, now, row
        <3>5. \A b \in B : row[b] \in Int /\ before[b] \in Int /\ now[b] = row[b] + before[b]
            BY <3>4 DEF before, now, row
        <3>6. Total(now, B) = Total(row, B) + Total(before, B)
            BY <3>5, TotalAdds
        <3>7. Row[y] = Total(row, B)
            BY DEF row
        <3> QED
            BY <3>2, <3>3, <3>6, <3>7 DEF before, now
    <2> QED
        BY <2>2, <2>3
<1>2. A \in G
    <2> HIDE DEF G
    <2>1. \A s \in SUBSET A : s \in G
        BY <1>1, BySmallerSets
    <2> QED
        BY <2>1
<1>3. \A b \in B : Upto(A)[b] = Column[b] /\ Upto(A)[b] \in Int
    <2> SUFFICES ASSUME NEW b \in B
                 PROVE  Upto(A)[b] = Column[b] /\ Upto(A)[b] \in Int
        OBVIOUS
    <2> DEFINE col == Col[b]
    <2>1. \A a \in A : col[a] \in Int
        OBVIOUS
    <2>2. Upto(A)[b] = Total(col, A)
        OBVIOUS
    <2>3. Column[b] = Total(col, A)
        OBVIOUS
    <2> HIDE DEF col, Upto
    <2>4. Total(col, A) \in Int
        BY <2>1, TotalType
    <2> QED
        BY <2>2, <2>3, <2>4
<1>4. Total(Row, A) = Total(Upto(A), B)
    BY <1>2
<1> HIDE DEF Upto
<1>5. Total(Upto(A), B) = Total(Column, B)
    BY <1>3, TotalSame
<1> QED
    BY <1>4, <1>5

\* A constant, as often as something is the case.
LEMMA TotalOfAConstant ==
    ASSUME NEW F, NEW S, IsFiniteSet(S), NEW A \in SUBSET S, NEW c \in Int,
           \A x \in S : F[x] = IF x \in A THEN c ELSE 0
    PROVE  Total(F, S) = Cardinality(A) * c
<1> DEFINE G == {s \in SUBSET A : Total(F, s) = Cardinality(s) * c}
<1>0. IsFiniteSet(A) /\ IsFiniteSet(S \ A)
    BY FS_Subset
<1>1. ASSUME NEW s \in SUBSET A, \A x \in s : s \ {x} \in G
      PROVE  s \in G
    <2>1. IsFiniteSet(s) /\ \A x \in s : F[x] \in Int
        BY <1>0, FS_Subset
    <2>2. CASE s = {}
        <3>1. Total(F, {}) = 0 /\ Cardinality({}) = 0
            BY FS_EmptySet, TotalType
        <3> QED
            BY <2>2, <3>1
    <2>3. CASE s # {}
        <3>1. PICK y \in s : TRUE
            BY <2>3
        <3>2. Total(F, s) = c + Total(F, s \ {y})
            BY <2>1, TotalStep
        <3>3. Total(F, s \ {y}) = Cardinality(s \ {y}) * c
            BY <1>1
        <3>4. Cardinality(s \ {y}) = Cardinality(s) - 1 /\ Cardinality(s) \in Nat
            BY <2>1, FS_RemoveElement, FS_CardinalityType
        <3> DEFINE n == Cardinality(s)
        <3> HIDE DEF n, G
        <3>5. n \in Nat /\ Total(F, s) = c + (n - 1) * c
            BY <3>2, <3>3, <3>4 DEF n
        <3>6. c + (n - 1) * c = n * c
            BY <3>5
        <3> QED
            BY <3>5, <3>6 DEF G, n
    <2> QED
        BY <2>2, <2>3
<1>2. A \in G
    <2> HIDE DEF G
    <2>1. \A s \in SUBSET A : s \in G
        BY <1>0, <1>1, BySmallerSets
    <2> QED
        BY <2>1
<1>3. Total(F, S \ A) = 0
    BY <1>0, TotalOfZeros
<1>4. Total(F, S) = Total(F, A) + Total(F, S \ A) /\ Total(F, A) \in Int
    BY TotalSplits
<1> QED
    BY <1>2, <1>3, <1>4

\* What is nothing outside a part is summed over the part.
LEMMA TotalOutside ==
    ASSUME NEW F, NEW E, NEW S, IsFiniteSet(S), NEW A \in SUBSET S,
           \A x \in A : E[x] \in Int /\ F[x] = E[x],
           \A x \in S \ A : F[x] = 0
    PROVE  Total(F, S) = Total(E, A)
<1>1. \A x \in S : F[x] \in Int
    OBVIOUS
<1>2. IsFiniteSet(A) /\ IsFiniteSet(S \ A)
    BY FS_Subset
<1>3. Total(F, S) = Total(F, A) + Total(F, S \ A) /\ Total(F, A) \in Int
    <2>1. IsFiniteSet(S) /\ A \in SUBSET S
        OBVIOUS
    <2> QED
        BY ONLY <1>1, <2>1, TotalSplits
<1>4. Total(F, S \ A) = 0
    BY <1>2, TotalOfZeros
<1>5. Total(F, A) = Total(E, A)
    BY <1>2, TotalSame
<1> QED
    BY <1>3, <1>4, <1>5

(***************************************************************************)
(* What a window costs, in sums of one shape: a part for the turns, a part   *)
(* for the spans behind the line, and one for the spans above it.           *)
(***************************************************************************)
NotFolded(above) == {i \in above + 1..Len(turns) : ~Folded(i)}

BehindTurns(above, line) == {i \in above + 1..Len(turns) : i <= line /\ ~Folded(i)}

\* A turn without its spans, or the fold it is in.
Bases(line) ==
    [i \in 1..Len(turns) |->
        IF Folded(i) THEN Summary ELSE Exchange + OutputCost(turns[i], i <= line)]

ShownCosts(asked) == [f \in Fragments |-> ShownSpanCost(f, asked)]

PrunedCosts == [f \in Fragments |-> PrunedSpanCost(f)]

BehindCosts == [i \in 1..Len(turns) |-> Total(PrunedCosts, turns[i].spans)]

AboveCosts(asked) == [i \in 1..Len(turns) |-> Total(ShownCosts(asked), turns[i].spans)]

\* What the spans above the line cost, copies and all, and without them.
CopyCosts(above, line, asked) ==
    [f \in Fragments |-> Copies(f, above, line) * ShownSpanCost(f, asked)]

RepeatCosts(above, line, asked) ==
    [f \in Fragments |-> Repeats(f, above, line) * ShownSpanCost(f, asked)]

OnceCosts(above, line, asked) ==
    [f \in Fragments |->
        (Copies(f, above, line) - Repeats(f, above, line)) * ShownSpanCost(f, asked)]

LEMMA CostTypes ==
    ASSUME NEW asked
    PROVE  \A f \in Fragments : /\ Cost(f.path) \in Nat
                                /\ ShownSpanCost(f, asked) \in Nat
                                /\ PrunedSpanCost(f) \in Nat
<1>1. Citation \in Nat /\ \A f \in Fragments : Cost(f.path) \in Nat
    BY WindowAssumption
<1> QED
    BY <1>1 DEF ShownSpanCost, PrunedSpanCost, Cheaper

LEMMA BaseTypes ==
    ASSUME NEW line
    PROVE  \A i \in 1..Len(turns) : Bases(line)[i] \in Nat
<1>1. {Exchange, Summary, Output, Cited} \subseteq Nat
    BY WindowAssumption
<1>2. \A t, b : OutputCost(t, b) \in Nat
    BY <1>1 DEF OutputCost, Cheaper
<1> QED
    BY <1>1, <1>2 DEF Bases

LEMMA SpansAreFinite ==
    ASSUME Shown, NEW i \in 1..Len(turns)
    PROVE  IsFiniteSet(turns[i].spans) /\ turns[i].spans \subseteq Fragments
<1>1. turns[i].spans \subseteq Fragments /\ IsFiniteSet(Fragments)
    BY WindowAssumption DEF Shown, Read, Kept
<1> QED
    BY <1>1, FS_Subset

LEMMA SpanSums ==
    ASSUME Shown, NEW i \in 1..Len(turns), NEW asked
    PROVE  /\ Total(PrunedCosts, turns[i].spans) \in Nat
           /\ Total(ShownCosts(asked), turns[i].spans) \in Nat
<1>1. \A f \in turns[i].spans : PrunedCosts[f] \in Nat /\ ShownCosts(asked)[f] \in Nat
    BY SpansAreFinite, CostTypes DEF PrunedCosts, ShownCosts
<1>2. IsFiniteSet(turns[i].spans)
    BY SpansAreFinite
<1> DEFINE S == turns[i].spans
           F == PrunedCosts
           E == ShownCosts(asked)
<1> HIDE DEF S, F, E
<1>3. IsFiniteSet(S) /\ \A f \in S : F[f] \in Nat /\ E[f] \in Nat
    BY <1>1, <1>2 DEF S, F, E
<1>4. Total(F, S) \in Int /\ Total(F, S) >= 0
    BY <1>3, TotalType
<1>5. Total(E, S) \in Int /\ Total(E, S) >= 0
    BY <1>3, TotalType
<1> QED
    BY <1>4, <1>5 DEF S, F, E

\* The sums of Window are these.
LEMMA TurnCostIs ==
    ASSUME Shown, NEW i \in 1..Len(turns), NEW line \in Int, NEW asked
    PROVE  TurnCost(i, line, asked)
             = Exchange + OutputCost(turns[i], i <= line)
               + (IF i <= line THEN Total(PrunedCosts, turns[i].spans)
                  ELSE Total(ShownCosts(asked), turns[i].spans))
<1> DEFINE S == turns[i].spans
           Costs == [f \in Fragments |-> IF i <= line THEN PrunedSpanCost(f)
                                         ELSE ShownSpanCost(f, asked)]
<1>1. S \subseteq Fragments
    BY SpansAreFinite
<1>2. MapThenSumSet(LAMBDA f : IF i <= line THEN PrunedSpanCost(f)
                               ELSE ShownSpanCost(f, asked), S)
        = Total(Costs, S)
    <2>1. PICK F : F = Costs
        OBVIOUS
    <2>2. MapThenSumSet(LAMBDA f : IF i <= line THEN PrunedSpanCost(f)
                                   ELSE ShownSpanCost(f, asked), S)
            = Total(F, S)
        BY ONLY <1>1, <2>1, Zenon DEF Total, MapThenSumSet, MapThenFoldSet
    <2> QED
        BY <2>1, <2>2, Zenon
<1>3. Costs = IF i <= line THEN PrunedCosts ELSE ShownCosts(asked)
    BY DEF PrunedCosts, ShownCosts
<1>4. Total(Costs, S) = IF i <= line THEN Total(PrunedCosts, S)
                        ELSE Total(ShownCosts(asked), S)
    BY <1>3
<1> QED
    BY <1>2, <1>4, Zenon DEF TurnCost

LEMMA WindowTokensAre ==
    ASSUME Shown, NEW above \in 0..Len(turns), NEW line, NEW asked,
           NEW F, F = [i \in 1..Len(turns) |-> ItemCost(i, line, asked)]
    PROVE  WindowTokens(above, line, asked)
             = Total(F, Items(above)) - Total(RepeatCosts(above, line, asked), Fragments)
<1>1. Items(above) \subseteq 1..Len(turns)
    BY DEF Items, Shown, Lines
<1>2. MapThenSumSet(LAMBDA i : ItemCost(i, line, asked), Items(above)) = Total(F, Items(above))
    BY <1>1, Zenon DEF Total, MapThenSumSet, MapThenFoldSet
<1>3. PICK E : E = RepeatCosts(above, line, asked)
    OBVIOUS
<1>4. E = [f \in Fragments |-> Repeats(f, above, line) * ShownSpanCost(f, asked)]
    BY <1>3 DEF RepeatCosts
<1>5. MapThenSumSet(LAMBDA f : Repeats(f, above, line) * ShownSpanCost(f, asked), Fragments)
        = Total(E, Fragments)
    BY <1>4, Zenon DEF Total, MapThenSumSet, MapThenFoldSet
<1> QED
    BY <1>2, <1>3, <1>5, Zenon DEF WindowTokens

\* Spans counted turn by turn are spans counted one by one.
LEMMA SpansByTurn ==
    ASSUME Shown, NEW above \in 0..Len(turns), NEW line, NEW asked
    PROVE  /\ Total(AboveCosts(asked), Verbatim(above, line))
                = Total(CopyCosts(above, line, asked), Fragments)
           /\ IsFiniteSet(Verbatim(above, line))
           /\ Verbatim(above, line) \subseteq 1..Len(turns)
<1> DEFINE V == Verbatim(above, line)
           Cells == [i \in V |-> [f \in Fragments |->
                        IF f \in turns[i].spans THEN ShownSpanCost(f, asked) ELSE 0]]
<1>1. V \subseteq 1..Len(turns) /\ IsFiniteSet(V) /\ IsFiniteSet(Fragments)
    <2>1. Len(turns) \in Int /\ above + 1 \in Int
        BY DEF Shown, Lines
    <2>2. V \subseteq above + 1..Len(turns) /\ V \subseteq 1..Len(turns)
        BY DEF Verbatim
    <2>3. IsFiniteSet(above + 1..Len(turns))
        BY <2>1, FS_Interval
    <2> HIDE DEF V
    <2> QED
        BY <2>2, <2>3, FS_Subset, WindowAssumption
<1>2. \A i \in V : \A f \in Fragments : Cells[i][f] \in Int
    BY CostTypes
<1>3. ASSUME NEW i \in V
      PROVE  AboveCosts(asked)[i] = Total(Cells[i], Fragments)
    <2>1. PICK S : S = turns[i].spans
        OBVIOUS
    <2>2. PICK F : F = Cells[i]
        OBVIOUS
    <2>3. PICK E : E = ShownCosts(asked)
        OBVIOUS
    <2>4. S \in SUBSET Fragments
        BY <1>1, <2>1, SpansAreFinite
    <2>5. /\ \A f \in S : E[f] \in Int /\ F[f] = E[f]
          /\ \A f \in Fragments \ S : F[f] = 0
        BY <2>1, <2>2, <2>3, <2>4, CostTypes DEF ShownCosts
    <2>6. AboveCosts(asked)[i] = Total(E, S)
        BY <1>1, <2>1, <2>3 DEF AboveCosts
    <2>7. Total(F, Fragments) = Total(E, S)
        BY <1>1, <2>4, <2>5, TotalOutside
    <2> QED
        BY <2>2, <2>6, <2>7
<1>4. ASSUME NEW f \in Fragments
      PROVE  CopyCosts(above, line, asked)[f] = Total([i \in V |-> Cells[i][f]], V)
    <2> DEFINE A == {i \in V : f \in turns[i].spans}
               F == [i \in V |-> Cells[i][f]]
               c == ShownSpanCost(f, asked)
    <2>1. A \in SUBSET V /\ c \in Int
        BY CostTypes
    <2>2. \A i \in V : F[i] = IF i \in A THEN c ELSE 0
        OBVIOUS
    <2>3. CopyCosts(above, line, asked)[f] = Cardinality(A) * c
        BY DEF CopyCosts, Copies
    <2> HIDE DEF A, F, c
    <2>4. Total(F, V) = Cardinality(A) * c
        BY <1>1, <2>1, <2>2, TotalOfAConstant
    <2> QED
        BY <2>3, <2>4 DEF F
<1> HIDE DEF Cells, V
<1>5. Total(AboveCosts(asked), V) = Total(CopyCosts(above, line, asked), Fragments)
    <2>1. PICK Row : Row = AboveCosts(asked)
        OBVIOUS
    <2>2. PICK Column : Column = CopyCosts(above, line, asked)
        OBVIOUS
    <2>3. PICK A : A = V
        OBVIOUS
    <2>4. PICK M : M = Cells
        OBVIOUS
    <2>5. /\ IsFiniteSet(A) /\ IsFiniteSet(Fragments)
          /\ \A i \in A : \A f \in Fragments : M[i][f] \in Int
          /\ \A i \in A : Row[i] = Total(M[i], Fragments)
        BY <1>1, <1>2, <1>3, <2>1, <2>3, <2>4
    <2> DEFINE Col == [f \in Fragments |-> [i \in A |-> M[i][f]]]
    <2>6. /\ \A f \in Fragments : \A i \in A : Col[f][i] = M[i][f]
          /\ \A f \in Fragments : Column[f] = Total(Col[f], A)
        BY <1>4, <2>2, <2>3, <2>4
    <2> HIDE DEF Col
    <2>7. Total(Row, A) = Total(Column, Fragments)
        <3>1. Table(A, Fragments, M, Col, Row, Column)
            BY <2>5, <2>6 DEF Table
        <3> QED
            BY <3>1, RowsAndColumns
    <2> QED
        BY <2>1, <2>2, <2>3, <2>7
<1> QED
    BY <1>1, <1>5 DEF V

LEMMA ItemsAreTurns ==
    ASSUME Shown, NEW above \in 0..Len(turns)
    PROVE  /\ IsFiniteSet(Items(above)) /\ Items(above) \subseteq 1..Len(turns)
           /\ NotFolded(above) \subseteq Items(above)
           /\ \A i \in Items(above) \ NotFolded(above) : Folded(i)
<1>1. Len(turns) \in Int /\ above + 1 \in Int
    BY DEF Shown, Lines
<1>2. IsFiniteSet(above + 1..Len(turns))
    BY <1>1, FS_Interval
<1>3. Items(above) \subseteq above + 1..Len(turns)
    BY DEF Items
<1>4. IsFiniteSet(Items(above))
    BY <1>2, <1>3, FS_Subset
<1>5. Items(above) \subseteq 1..Len(turns)
    BY <1>1, <1>3
<1>6. NotFolded(above) \subseteq Items(above)
    BY DEF Items, NotFolded
<1>7. \A i \in Items(above) \ NotFolded(above) : Folded(i)
    BY <1>3 DEF NotFolded
<1> QED
    BY <1>4, <1>5, <1>6, <1>7

\* Copies, and what is subtracted for them.
LEMMA RepeatsAre ==
    ASSUME Shown, NEW f, NEW above \in 0..Len(turns), NEW line
    PROVE  /\ Copies(f, above, line) \in Nat
           /\ Repeats(f, above, line) \in Nat
           /\ Repeats(f, above, line) <= Copies(f, above, line)
<1>1. IsFiniteSet({i \in Verbatim(above, line) : f \in turns[i].spans})
    BY SpansByTurn, FS_Subset
<1>2. Copies(f, above, line) \in Nat
    BY <1>1, FS_CardinalityType DEF Copies
<1> QED
    BY <1>2 DEF Repeats

\* Items, of them those that are not folded, and of these those above the line:
\* what each costs is a base and its spans, and the spans above the line cost
\* a copy of each and the copies that are repeated.
Adds(I, N, V, F, Bs, Spans, Bh, Ab, Cp, Rp, On) ==
    /\ IsFiniteSet(I) /\ N \in SUBSET I /\ V \in SUBSET N
    /\ \A i \in I : Bs[i] \in Nat /\ Spans[i] \in Nat /\ F[i] = Bs[i] + Spans[i]
    /\ \A i \in I \ N : Spans[i] = 0
    /\ \A i \in V : Spans[i] = Ab[i]
    /\ \A i \in N \ V : Spans[i] = Bh[i]
    /\ \A f \in Fragments : Rp[f] \in Nat /\ On[f] \in Nat /\ Cp[f] = Rp[f] + On[f]
    /\ Total(Ab, V) = Total(Cp, Fragments)

LEMMA ThreeSums ==
    ASSUME NEW I, NEW N, NEW V, NEW F, NEW Bs, NEW Spans, NEW Bh, NEW Ab, NEW Cp,
           NEW Rp, NEW On, Adds(I, N, V, F, Bs, Spans, Bh, Ab, Cp, Rp, On)
    PROVE  /\ Total(F, I) - Total(Rp, Fragments)
                = Total(Bs, I) + Total(Bh, N \ V) + Total(On, Fragments)
           /\ Total(Bs, I) \in Nat /\ Total(Bh, N \ V) \in Nat
           /\ Total(On, Fragments) \in Nat
<1>0. /\ IsFiniteSet(I) /\ N \in SUBSET I /\ V \in SUBSET N
      /\ IsFiniteSet(Fragments)
    BY WindowAssumption DEF Adds
<1>a. \A i \in I : Bs[i] \in Nat /\ Spans[i] \in Nat /\ F[i] = Bs[i] + Spans[i]
    BY DEF Adds
<1>b. \A i \in I \ N : Spans[i] = 0
    BY DEF Adds
<1>c. (\A i \in V : Spans[i] = Ab[i]) /\ (\A i \in N \ V : Spans[i] = Bh[i])
    BY DEF Adds
<1>d. \A f \in Fragments : Rp[f] \in Nat /\ On[f] \in Nat /\ Cp[f] = Rp[f] + On[f]
    BY DEF Adds
<1>e. Total(Ab, V) = Total(Cp, Fragments)
    BY DEF Adds
<1>1. Total(Cp, Fragments) = Total(Rp, Fragments) + Total(On, Fragments)
    BY <1>0, <1>d, TotalAdds
<1>2. Total(Rp, Fragments) \in Nat /\ Total(On, Fragments) \in Nat /\ Total(Bs, I) \in Nat
    <2>1. Total(Rp, Fragments) \in Nat
        BY <1>0, <1>d, TotalGrows
    <2>2. Total(On, Fragments) \in Nat
        BY <1>0, <1>d, TotalGrows
    <2>3. Total(Bs, I) \in Nat
        BY <1>0, <1>a, TotalGrows
    <2> QED
        BY <2>1, <2>2, <2>3
<1>3. Total(F, I) = Total(Bs, I) + Total(Spans, I)
    BY <1>0, <1>a, TotalAdds
<1>4. IsFiniteSet(N) /\ IsFiniteSet(V) /\ IsFiniteSet(N \ V)
    BY <1>0, FS_Subset
<1>5. Total(Spans, I) = Total(Spans, N)
    <2>1. \A i \in N : Spans[i] \in Int /\ Spans[i] = Spans[i]
        BY <1>0, <1>a
    <2> QED
        BY <1>0, <1>b, <2>1, TotalOutside
<1>6. Total(Spans, N) = Total(Spans, V) + Total(Spans, N \ V)
    <2>1. \A i \in N : Spans[i] \in Int
        BY <1>0, <1>a
    <2>2. IsFiniteSet(N) /\ V \in SUBSET N
        BY <1>0, <1>4
    <2> QED
        BY ONLY <2>1, <2>2, TotalSplits
<1>7. Total(Spans, V) = Total(Ab, V) /\ Total(Spans, N \ V) = Total(Bh, N \ V)
    <2>1. Total(Spans, V) = Total(Ab, V)
        <3>1. \A i \in V : Spans[i] \in Int /\ Spans[i] = Ab[i]
            BY <1>0, <1>a, <1>c
        <3> QED
            BY <1>4, <3>1, TotalSame
    <2>2. Total(Spans, N \ V) = Total(Bh, N \ V)
        <3>1. \A i \in N \ V : Spans[i] \in Int /\ Spans[i] = Bh[i]
            BY <1>0, <1>a, <1>c
        <3> QED
            BY <1>4, <3>1, TotalSame
    <2> QED
        BY <2>1, <2>2
<1>8. Total(Bh, N \ V) \in Nat
    <2>1. \A i \in N \ V : Bh[i] \in Nat
        BY <1>0, <1>a, <1>c
    <2> QED
        BY <1>4, <2>1, TotalGrows
<1> QED
    BY <1>e, <1>1, <1>2, <1>3, <1>5, <1>6, <1>7, <1>8

\* The three parts of what a window costs.
LEMMA WindowIsThreeSums ==
    ASSUME Shown, NEW above \in 0..Len(turns), NEW line \in Int, NEW asked
    PROVE  /\ WindowTokens(above, line, asked)
                = Total(Bases(line), Items(above))
                  + Total(BehindCosts, BehindTurns(above, line))
                  + Total(OnceCosts(above, line, asked), Fragments)
           /\ Total(Bases(line), Items(above)) \in Nat
           /\ Total(BehindCosts, BehindTurns(above, line)) \in Nat
           /\ Total(OnceCosts(above, line, asked), Fragments) \in Nat
<1> DEFINE F == [i \in 1..Len(turns) |-> ItemCost(i, line, asked)]
           N == NotFolded(above)
           I == Items(above)
           V == Verbatim(above, line)
           B == BehindTurns(above, line)
           Spans == [i \in 1..Len(turns) |->
                        IF Folded(i) THEN 0
                        ELSE IF i <= line THEN BehindCosts[i] ELSE AboveCosts(asked)[i]]
           Bs == Bases(line)
           Bh == BehindCosts
           Ab == AboveCosts(asked)
           Cp == CopyCosts(above, line, asked)
           Rp == RepeatCosts(above, line, asked)
           On == OnceCosts(above, line, asked)
<1>1. WindowTokens(above, line, asked) = Total(F, I) - Total(Rp, Fragments)
    BY WindowTokensAre
<1>2. /\ IsFiniteSet(I) /\ I \subseteq 1..Len(turns) /\ N \subseteq I
      /\ \A i \in I \ N : Folded(i)
    BY ItemsAreTurns
<1>3. \A i \in 1..Len(turns) : Bs[i] \in Nat /\ Bh[i] \in Nat /\ Ab[i] \in Nat
    BY BaseTypes, SpanSums DEF BehindCosts, AboveCosts
<1>4. \A i \in 1..Len(turns) : F[i] = Bs[i] + Spans[i] /\ Spans[i] \in Nat
    <2> SUFFICES ASSUME NEW i \in 1..Len(turns)
                 PROVE  F[i] = Bs[i] + Spans[i] /\ Spans[i] \in Nat
        OBVIOUS
    <2>1. CASE Folded(i)
        <3>1. F[i] = Summary /\ Bs[i] = Summary /\ Spans[i] = 0
            BY <2>1 DEF ItemCost, Bases
        <3> QED
            BY <1>3, <3>1
    <2>2. CASE ~Folded(i)
        <3>1. F[i] = TurnCost(i, line, asked)
            BY <2>2 DEF ItemCost
        <3>2. Bs[i] = Exchange + OutputCost(turns[i], i <= line)
            BY <2>2 DEF Bases
        <3>3. Bh[i] = Total(PrunedCosts, turns[i].spans)
              /\ Ab[i] = Total(ShownCosts(asked), turns[i].spans)
            BY DEF BehindCosts, AboveCosts
        <3>4. Spans[i] = IF i <= line THEN Bh[i] ELSE Ab[i]
            BY <2>2
        <3> QED
            BY <1>3, <3>1, <3>2, <3>3, <3>4, TurnCostIs
    <2> QED
        BY <2>1, <2>2
<1>5. /\ V \subseteq N /\ N \ V = B /\ N \subseteq 1..Len(turns)
      /\ \A i \in V : Spans[i] = Ab[i]
      /\ \A i \in B : Spans[i] = Bh[i]
      /\ \A i \in I \ N : Spans[i] = 0
    <2>1. V \subseteq N /\ B \subseteq N /\ N \subseteq 1..Len(turns)
        BY <1>2 DEF Verbatim, NotFolded, BehindTurns
    <2>2. \A i \in N : i \in V <=> i > line
        BY DEF Verbatim, NotFolded
    <2>3. \A i \in N : i \in B <=> i <= line
        BY DEF BehindTurns, NotFolded
    <2>4. \A i \in N : i \in Int /\ ~Folded(i)
        BY DEF NotFolded
    <2>5. N \ V = B
        BY <2>1, <2>2, <2>3, <2>4
    <2>6. \A i \in V : Spans[i] = Ab[i]
        BY <2>1, <2>2, <2>4
    <2>7. \A i \in B : Spans[i] = Bh[i]
        BY <2>1, <2>3, <2>4
    <2>8. \A i \in I \ N : Spans[i] = 0
        BY <1>2
    <2> QED
        BY <2>1, <2>5, <2>6, <2>7, <2>8
<1>6. Total(Ab, V) = Total(Cp, Fragments)
    BY SpansByTurn
<1>7. \A f \in Fragments : /\ Rp[f] \in Nat /\ On[f] \in Nat
                           /\ Cp[f] = Rp[f] + On[f]
    <2> SUFFICES ASSUME NEW f \in Fragments
                 PROVE  Rp[f] \in Nat /\ On[f] \in Nat /\ Cp[f] = Rp[f] + On[f]
        OBVIOUS
    <2> DEFINE c == Copies(f, above, line)
               r == Repeats(f, above, line)
               k == ShownSpanCost(f, asked)
    <2>1. c \in Nat /\ r \in Nat /\ r <= c /\ k \in Nat
        BY RepeatsAre, CostTypes
    <2>2. Cp[f] = c * k /\ Rp[f] = r * k /\ On[f] = (c - r) * k
        BY DEF CopyCosts, RepeatCosts, OnceCosts
    <2> HIDE DEF c, r, k, Cp, Rp, On
    <2>3. PICK d \in Nat : c = r + d
        BY <2>1
    <2>4. c - r = d
        BY <2>1, <2>3
    <2>5. (r + d) * k = r * k + d * k /\ r * k \in Nat /\ d * k \in Nat
        BY <2>1
    <2> QED
        BY <2>2, <2>3, <2>4, <2>5
<1>8. IsFiniteSet(Fragments)
    BY WindowAssumption
<1> HIDE DEF F, N, I, V, B, Spans, Bs, Bh, Ab, Cp, Rp, On
<1>9. /\ Total(F, I) - Total(Rp, Fragments)
            = Total(Bs, I) + Total(Bh, B) + Total(On, Fragments)
       /\ Total(Bs, I) \in Nat /\ Total(Bh, B) \in Nat
       /\ Total(On, Fragments) \in Nat
    <2>1. PICK f : f = F
        OBVIOUS
    <2>2. PICK n : n = N
        OBVIOUS
    <2>3. PICK i : i = I
        OBVIOUS
    <2>4. PICK v : v = V
        OBVIOUS
    <2>5. PICK sp : sp = Spans
        OBVIOUS
    <2>6. PICK bs : bs = Bs
        OBVIOUS
    <2>7. PICK bh : bh = Bh
        OBVIOUS
    <2>8. PICK ab : ab = Ab
        OBVIOUS
    <2>9. PICK cp : cp = Cp
        OBVIOUS
    <2>10. PICK rp : rp = Rp
        OBVIOUS
    <2>11. PICK on : on = On
        OBVIOUS
    <2>12. IsFiniteSet(i) /\ n \in SUBSET i /\ v \in SUBSET n /\ n \ v = B
        BY <1>2, <1>5, <2>2, <2>3, <2>4
    <2>13. \A k \in i : bs[k] \in Nat /\ sp[k] \in Nat /\ f[k] = bs[k] + sp[k]
        BY <1>2, <1>3, <1>4, <2>1, <2>3, <2>5, <2>6
    <2>14. /\ \A k \in i \ n : sp[k] = 0
           /\ \A k \in v : sp[k] = ab[k]
           /\ \A k \in n \ v : sp[k] = bh[k]
        BY <1>5, <2>2, <2>3, <2>4, <2>5, <2>7, <2>8
    <2>15. \A g \in Fragments : rp[g] \in Nat /\ on[g] \in Nat /\ cp[g] = rp[g] + on[g]
        BY <1>7, <2>9, <2>10, <2>11
    <2>16. Total(ab, v) = Total(cp, Fragments)
        BY <1>6, <2>4, <2>8, <2>9
    <2>17. /\ Total(f, i) - Total(rp, Fragments)
                = Total(bs, i) + Total(bh, n \ v) + Total(on, Fragments)
           /\ Total(bs, i) \in Nat /\ Total(bh, n \ v) \in Nat
           /\ Total(on, Fragments) \in Nat
        <3>1. Adds(i, n, v, f, bs, sp, bh, ab, cp, rp, on)
            BY <2>12, <2>13, <2>14, <2>15, <2>16 DEF Adds
        <3> QED
            BY <3>1, ThreeSums
    <2> QED
        BY <2>1, <2>3, <2>6, <2>7, <2>10, <2>11, <2>12, <2>17
<1> QED
    BY <1>1, <1>9 DEF Bs, I, Bh, B, On

(***************************************************************************)
(* Turns leave only when no line is enough.                                 *)
(***************************************************************************)
LEMMA OnceCostsNoMore ==
    ASSUME Shown, NEW above \in 0..Len(turns), NEW from \in above..Len(turns),
           NEW line, NEW asked, NEW f \in Fragments
    PROVE  /\ OnceCosts(from, line, asked)[f] <= OnceCosts(above, line, asked)[f]
           /\ OnceCosts(from, line, asked)[f] \in Nat
           /\ OnceCosts(above, line, asked)[f] \in Nat
<1> DEFINE S(a) == {i \in Verbatim(a, line) : f \in turns[i].spans}
           c(a) == Copies(f, a, line)
           r(a) == Repeats(f, a, line)
           k == ShownSpanCost(f, asked)
<1>1. Len(turns) \in Nat /\ from \in 0..Len(turns) /\ from \in Int /\ above \in Int
    BY DEF Shown, Lines
<1>2. \A a \in 0..Len(turns) : c(a) \in Nat /\ r(a) \in Nat /\ r(a) <= c(a)
    BY RepeatsAre
<1>3. c(from) <= c(above)
    <2>1. S(from) \subseteq S(above)
        BY <1>1 DEF Verbatim
    <2>2. IsFiniteSet(S(above))
        BY SpansByTurn, FS_Subset
    <2>3. Cardinality(S(from)) <= Cardinality(S(above))
        BY <2>1, <2>2, FS_Subset
    <2> QED
        BY <2>3 DEF Copies
<1>4. \A a \in 0..Len(turns) :
        r(a) = IF budget.repeat = "once" /\ c(a) > 1 THEN c(a) - 1 ELSE 0
    BY DEF Repeats
<1>5. k \in Nat
    BY CostTypes
<1>6. /\ OnceCosts(from, line, asked)[f] = (c(from) - r(from)) * k
      /\ OnceCosts(above, line, asked)[f] = (c(above) - r(above)) * k
    BY DEF OnceCosts
<1> HIDE DEF c, r, k
<1>7. PICK x \in Nat : x = c(from) - r(from)
    BY <1>1, <1>2
<1>8. PICK y \in Nat : y = c(above) - r(above)
    BY <1>2
<1>9. x <= y
    <2>1. PICK d, e, g, h : d = c(from) /\ e = r(from) /\ g = c(above) /\ h = r(above)
        OBVIOUS
    <2>2. /\ d \in Nat /\ e \in Nat /\ g \in Nat /\ h \in Nat
          /\ d <= g /\ x = d - e /\ y = g - h
        BY ONLY <1>1, <1>2, <1>3, <1>7, <1>8, <2>1, above \in 0..Len(turns)
    <2>3. /\ e = IF budget.repeat = "once" /\ d > 1 THEN d - 1 ELSE 0
          /\ h = IF budget.repeat = "once" /\ g > 1 THEN g - 1 ELSE 0
        BY ONLY <1>1, <1>4, <2>1, above \in 0..Len(turns)
    <2> QED
        BY ONLY <2>2, <2>3
<1>10. PICK z \in Nat : y = x + z
    BY <1>9
<1>11. (x + z) * k = x * k + z * k /\ z * k \in Nat /\ x * k \in Nat
    BY <1>5
<1> QED
    BY <1>6, <1>7, <1>8, <1>10, <1>11

LEMMA WindowGrows ==
    ASSUME Shown, NEW above \in 0..Len(turns), NEW j \in Items(above),
           NEW line \in Int, NEW asked
    PROVE  WindowTokens(j - 1, line, asked) <= WindowTokens(above, line, asked)
<1>1. Len(turns) \in Nat /\ above \in Int /\ j \in above + 1..Len(turns)
    BY DEF Shown, Lines, Items
<1>2. PICK from : from = j - 1
    OBVIOUS
<1>3. from \in above..Len(turns) /\ from \in 0..Len(turns) /\ from \in Int
    BY <1>1, <1>2
<1>4. Items(from) \subseteq Items(above)
    <2> SUFFICES ASSUME NEW i \in Items(from)
                 PROVE  i \in Items(above)
        OBVIOUS
    <2>1. /\ i \in from + 1..Len(turns) /\ i \in above + 1..Len(turns)
          /\ Folded(i) => i = from + 1 \/ turns[i - 1].job # turns[i].job
        BY <1>1, <1>3 DEF Items
    <2>2. i = from + 1 => i = j
        BY <1>1, <1>2
    <2>3. Folded(j) => j = above + 1 \/ turns[j - 1].job # turns[j].job
        BY DEF Items
    <2>4. Folded(i) => i = above + 1 \/ turns[i - 1].job # turns[i].job
        BY <2>1, <2>2, <2>3
    <2> QED
        BY <2>1, <2>4 DEF Items
<1>5. BehindTurns(from, line) \subseteq BehindTurns(above, line)
    BY <1>1, <1>3 DEF BehindTurns
<1>6. /\ IsFiniteSet(Items(above)) /\ \A i \in Items(above) : Bases(line)[i] \in Nat
      /\ IsFiniteSet(BehindTurns(above, line))
      /\ \A i \in BehindTurns(above, line) : BehindCosts[i] \in Nat
    <2>1. IsFiniteSet(Items(above)) /\ Items(above) \subseteq 1..Len(turns)
        BY ItemsAreTurns
    <2>2. BehindTurns(above, line) \subseteq Items(above)
        BY DEF BehindTurns, Items
    <2>3. \A i \in Items(above) : Bases(line)[i] \in Nat
        BY <2>1, BaseTypes
    <2>4. \A i \in BehindTurns(above, line) : BehindCosts[i] \in Nat
        BY <2>1, <2>2, SpanSums DEF BehindCosts
    <2>5. IsFiniteSet(BehindTurns(above, line))
        BY <2>1, <2>2, FS_Subset
    <2> QED
        BY <2>1, <2>3, <2>4, <2>5
<1>7. Total(Bases(line), Items(from)) <= Total(Bases(line), Items(above))
    <2>1. PICK F : F = Bases(line)
        OBVIOUS
    <2>2. PICK S : S = Items(above)
        OBVIOUS
    <2>3. PICK A : A = Items(from)
        OBVIOUS
    <2>4. IsFiniteSet(S) /\ A \in SUBSET S /\ \A i \in S : F[i] \in Nat
        BY <1>4, <1>6, <2>1, <2>2, <2>3
    <2>5. Total(F, A) <= Total(F, S)
        BY ONLY <2>4, TotalGrows
    <2> QED
        BY <2>1, <2>2, <2>3, <2>5
<1>8. Total(BehindCosts, BehindTurns(from, line))
        <= Total(BehindCosts, BehindTurns(above, line))
    <2>1. PICK F : F = BehindCosts
        OBVIOUS
    <2>2. PICK S : S = BehindTurns(above, line)
        OBVIOUS
    <2>3. PICK A : A = BehindTurns(from, line)
        OBVIOUS
    <2>4. IsFiniteSet(S) /\ A \in SUBSET S /\ \A i \in S : F[i] \in Nat
        BY <1>5, <1>6, <2>1, <2>2, <2>3
    <2>5. Total(F, A) <= Total(F, S)
        BY ONLY <2>4, TotalGrows
    <2> QED
        BY <2>1, <2>2, <2>3, <2>5
<1>9. Total(OnceCosts(from, line, asked), Fragments)
        <= Total(OnceCosts(above, line, asked), Fragments)
    <2>1. PICK F : F = OnceCosts(from, line, asked)
        OBVIOUS
    <2>2. PICK E : E = OnceCosts(above, line, asked)
        OBVIOUS
    <2>3. \A f \in Fragments : F[f] \in Int /\ E[f] \in Int /\ F[f] <= E[f]
        <3> SUFFICES ASSUME NEW f \in Fragments
                     PROVE  F[f] \in Int /\ E[f] \in Int /\ F[f] <= E[f]
            OBVIOUS
        <3>1. F[f] <= E[f] /\ F[f] \in Nat /\ E[f] \in Nat
            BY <1>3, <2>1, <2>2, OnceCostsNoMore
        <3> QED
            BY <3>1
    <2>4. IsFiniteSet(Fragments)
        BY WindowAssumption
    <2>5. Total(F, Fragments) <= Total(E, Fragments)
        BY ONLY <2>3, <2>4, TotalOrder
    <2> QED
        BY <2>1, <2>2, <2>5
<1> DEFINE a == Total(Bases(line), Items(from))
           b == Total(BehindCosts, BehindTurns(from, line))
           c == Total(OnceCosts(from, line, asked), Fragments)
           d == Total(Bases(line), Items(above))
           e == Total(BehindCosts, BehindTurns(above, line))
           g == Total(OnceCosts(above, line, asked), Fragments)
<1>10. /\ WindowTokens(from, line, asked) = a + b + c
       /\ a \in Nat /\ b \in Nat /\ c \in Nat
    BY <1>3, WindowIsThreeSums
<1>11. /\ WindowTokens(above, line, asked) = d + e + g
       /\ d \in Nat /\ e \in Nat /\ g \in Nat
    BY WindowIsThreeSums
<1>12. a <= d /\ b <= e /\ c <= g
    BY <1>7, <1>8, <1>9
<1> HIDE DEF a, b, c, d, e, g
<1> QED
    BY <1>2, <1>10, <1>11, <1>12

LEMMA WindowsAreNatural ==
    ASSUME Shown, NEW above \in 0..Len(turns), NEW line \in Int, NEW asked
    PROVE  WindowTokens(above, line, asked) \in Nat
<1> DEFINE d == Total(Bases(line), Items(above))
           e == Total(BehindCosts, BehindTurns(above, line))
           g == Total(OnceCosts(above, line, asked), Fragments)
<1>1. /\ WindowTokens(above, line, asked) = d + e + g
      /\ d \in Nat /\ e \in Nat /\ g \in Nat
    BY WindowIsThreeSums
<1> HIDE DEF d, e, g
<1> QED
    BY <1>1

LEMMA WindowIsNatural ==
    ASSUME Shown, NEW line \in Int, NEW asked
    PROVE  WindowTokens(floor, line, asked) \in Nat
BY WindowsAreNatural DEF Shown, Lines

\* A window that fits loses nothing.
LEMMA WhatFitsStays ==
    ASSUME Shown, NEW room \in Int, NEW line \in Int, NEW asked,
           WindowTokens(floor, line, asked) <= room
    PROVE  FitsFrom(room, line, asked) = floor
<1> DEFINE fits == {i \in Items(floor) :
                        \A j \in Items(floor) :
                            j >= i => WindowTokens(j - 1, line, asked) <= room}
<1>1. Len(turns) \in Nat /\ floor \in 0..Len(turns) /\ floor \in Nat
    BY DEF Shown, Lines
<1>2. FitsFrom(room, line, asked) = IF fits = {} THEN Len(turns) ELSE Min(fits) - 1
    BY DEF FitsFrom
<1>3. ASSUME NEW j \in Items(floor)
      PROVE  WindowTokens(j - 1, line, asked) <= room
    <2>1. WindowTokens(j - 1, line, asked) <= WindowTokens(floor, line, asked)
        BY <1>1, WindowGrows
    <2>2. WindowTokens(floor, line, asked) \in Nat
        BY WindowIsNatural
    <2>3. WindowTokens(j - 1, line, asked) \in Int
        <3>1. PICK from : from = j - 1
            OBVIOUS
        <3>2. from \in 0..Len(turns)
            BY <1>1, <3>1 DEF Items
        <3>3. WindowTokens(from, line, asked) \in Nat
            BY <3>2, WindowsAreNatural
        <3> QED
            BY <3>1, <3>3
    <2> QED
        BY <2>1, <2>2, <2>3
<1>4. CASE floor = Len(turns)
    <2>1. Items(floor) = {}
        BY <1>1, <1>4 DEF Items
    <2>2. fits = {}
        BY <2>1
    <2> QED
        BY <1>2, <1>4, <2>2
<1>5. CASE floor # Len(turns)
    <2>1. floor + 1 \in Items(floor)
        BY <1>1, <1>5 DEF Items
    <2>2. floor + 1 \in fits
        BY <1>3, <2>1
    <2>3. fits \subseteq floor + 1..Len(turns) /\ fits \in SUBSET Nat
        BY <1>1 DEF Items
    <2> HIDE DEF fits
    <2>4. Min(fits) \in fits /\ \A i \in fits : Min(fits) <= i
        BY <2>2, <2>3, MinIsLeast
    <2>5. PICK m \in floor + 1..Len(turns) : m = Min(fits)
        BY <2>3, <2>4
    <2>6. m <= floor + 1
        BY <2>2, <2>4, <2>5
    <2>7. m - 1 = floor
        BY <1>1, <2>5, <2>6
    <2> QED
        BY <1>2, <2>2, <2>5, <2>7
<1> QED
    BY <1>4, <1>5

LEMMA AskedCostIs ==
    ASSUME NEW asked \in Selections, NEW F, F = [f \in Fragments |-> Cost(f.path)]
    PROVE  /\ AskedCost(asked) = Total(F, asked) /\ AskedCost(asked) \in Int
           /\ asked \subseteq Fragments /\ IsFiniteSet(asked)
<1>1. asked \subseteq Fragments /\ IsFiniteSet(asked)
    <2>1. asked \subseteq Fragments /\ IsFiniteSet(Fragments)
        BY WindowAssumption
    <2> QED
        BY <2>1, FS_Subset
<1>2. MapThenSumSet(LAMBDA f : Cost(f.path), asked) = Total(F, asked)
    BY <1>1, Zenon DEF Total, MapThenSumSet, MapThenFoldSet
<1>3. \A f \in asked : F[f] \in Int
    BY <1>1, WindowAssumption
<1>4. Total(F, asked) \in Int
    BY <1>1, <1>3, TotalType
<1>5. AskedCost(asked) = Total(F, asked)
    BY <1>2, Zenon DEF AskedCost
<1> QED
    BY <1>1, <1>4, <1>5

LEMMA TargetsAre ==
    ASSUME NEW asked \in Selections
    PROVE  /\ AskedCost(asked) \in Int
           /\ Available(asked) \in Nat /\ Target(asked) \in Int
           /\ Target(asked) <= Available(asked)
<1>6. AskedCost(asked) \in Int
    BY AskedCostIs
<1>7. Room \in Nat
    BY WindowAssumption
<1>8. Max({0, Room - AskedCost(asked)}) \in Nat
    <2>1. PICK r \in Int : r = Room - AskedCost(asked)
        BY <1>6, <1>7
    <2>2. \E x \in {0, r} : \A y \in {0, r} : x >= y
        BY r >= 0 \/ r < 0
    <2>3. Max({0, r}) \in {0, r} /\ \A y \in {0, r} : Max({0, r}) >= y
        BY <2>2 DEF Max
    <2> QED
        BY <2>1, <2>3
<1>9. Available(asked) \in Nat
    BY <1>8 DEF Available
<1> QED
    BY <1>6, <1>9 DEF Target

\* The line that is chosen leaves no more than any line that may be chosen,
\* unless what it leaves fits the target.
LEMMA PruneToIsBest ==
    ASSUME Shown, NEW target \in Int, NEW asked,
           ~(WindowTokens(floor, PruneTo(target, asked), asked) <= target),
           NEW l \in Max({pruned, floor})..Len(turns)
    PROVE  WindowTokens(floor, PruneTo(target, asked), asked)
             <= WindowTokens(floor, l, asked)
<1> DEFINE lines == Max({pruned, floor})..Len(turns)
           tokens(k) == WindowTokens(floor, k, asked)
           fits == {k \in lines : tokens(k) <= target}
           best == {k \in lines : \A m \in lines : tokens(k) <= tokens(m)}
           L == PruneTo(target, asked)
<1>1. /\ Len(turns) \in Nat
      /\ floor \in Nat /\ pruned \in Nat
    BY DEF Shown, Lines
<1>2. Max({pruned, floor}) \in Nat
    BY <1>1, MaxOfTwo
<1>3. lines \subseteq Nat /\ \A k \in lines : k <= Len(turns)
    BY <1>1, <1>2
<1>4. L = IF fits # {} THEN Min(fits) ELSE Min(best \cup {Len(turns)})
    BY DEF PruneTo
<1>5. \A k \in lines : tokens(k) \in Nat
    BY <1>3, WindowIsNatural
<1>6. l \in lines
    OBVIOUS
<1> HIDE DEF lines, tokens, L
<1>7. fits = {}
    <2>1. SUFFICES ASSUME fits # {}
                   PROVE  FALSE
        OBVIOUS
    <2>2. fits \in SUBSET Nat
        BY <1>3
    <2>3. Min(fits) \in fits
        BY <2>1, <2>2, MinIsLeast
    <2>4. tokens(L) <= target
        BY <1>4, <2>1, <2>3
    <2> QED
        BY <2>4 DEF tokens, L
<1>8. PICK b \in lines : \A m \in lines : tokens(b) <= tokens(m)
    <2> DEFINE all == {tokens(k) : k \in lines}
    <2>1. all \in SUBSET Nat /\ all # {}
        BY <1>5, <1>6
    <2>2. Min(all) \in all /\ \A y \in all : Min(all) <= y
        BY <2>1, MinIsLeast
    <2>3. PICK b \in lines : tokens(b) = Min(all)
        BY <2>2
    <2>4. \A m \in lines : tokens(m) \in all
        OBVIOUS
    <2> HIDE DEF all
    <2> QED
        BY <2>2, <2>3, <2>4
<1>9. L \in best
    <2> DEFINE ends == best \cup {Len(turns)}
    <2>1. b \in best /\ b \in ends /\ b \in Nat /\ b <= Len(turns)
        BY <1>3, <1>8
    <2>2. ends \in SUBSET Nat /\ ends # {}
        BY <1>1, <1>3
    <2>3. Min(ends) \in ends /\ \A k \in ends : Min(ends) <= k
        BY <2>2, MinIsLeast
    <2>4. L = Min(ends)
        BY <1>4, <1>7
    <2>5. Min(ends) \in best
        <3>1. PICK m \in ends : m = Min(ends)
            BY <2>3
        <3>2. m \in best \/ m = Len(turns)
            OBVIOUS
        <3>3. m \in Nat /\ m <= b
            BY <2>1, <2>2, <2>3, <3>1
        <3> HIDE DEF best, ends
        <3>4. m = Len(turns) => m = b
            BY <1>1, <2>1, <3>3
        <3> QED
            BY <2>1, <3>1, <3>2, <3>4
    <2> QED
        BY <2>4, <2>5
<1>10. tokens(L) <= tokens(l)
    BY <1>6, <1>9
<1> QED
    BY <1>10 DEF tokens, L

LeavesForMore ==
    resumes' = resumes /\ floor' # floor /\ budget.prune = "behind" =>
        \A line \in Max({pruned, floor})..Len(turns) :
            WindowTokens(floor, line, sent'.asked) > Available(sent'.asked)

LEMMA StepLeavesForMore == Shown /\ [Next]_vars => LeavesForMore
<1> SUFFICES ASSUME Shown, [Next]_vars, resumes' = resumes, floor' # floor,
                    budget.prune = "behind",
                    NEW l \in Max({pruned, floor})..Len(turns)
             PROVE  WindowTokens(floor, l, sent'.asked) > Available(sent'.asked)
    BY DEF LeavesForMore
<1>1. Ask
    <2>1. ~Resume
        <3> SUFFICES ASSUME Resume
                     PROVE  FALSE
            OBVIOUS
        <3>1. resumes' = resumes + 1
            BY DEF Resume
        <3> QED
            BY <3>1 DEF Shown, Lines
    <2> QED
        BY <2>1 DEF Next, Land, Dropped, CloseJob, ReopenJob, Approve, Resend, vars
<1>2. PICK asked \in Selections :
        /\ floor' = Cut(Pruning(asked), asked)
        /\ sent' = [asked |-> asked, running |-> TRUE]
    BY <1>1, Zenon DEF Ask
<1>3. sent'.asked = asked
    BY <1>2
<1>4. PICK line : line = Pruning(asked)
    OBVIOUS
<1>5. Lines /\ Len(turns) \in Nat /\ floor \in Nat /\ pruned \in Nat
    BY DEF Shown, Lines
<1>6. line \in Int /\ pruned \in Int
    <2>1. line \in pruned..Len(turns)
        BY <1>4, <1>5, PruningMovesForward
    <2> QED
        BY <1>5, <2>1
<1>7. FitsFrom(Available(asked), line, asked) > floor
    BY <1>2, <1>4 DEF Cut
<1>8. /\ Available(asked) \in Nat /\ Target(asked) \in Int
      /\ Target(asked) <= Available(asked)
    BY TargetsAre
<1>9. WindowTokens(floor, line, asked) \in Nat
    BY <1>6, WindowIsNatural
<1>10. WindowTokens(floor, line, asked) > Available(asked)
    <2>1. SUFFICES ASSUME WindowTokens(floor, line, asked) <= Available(asked)
                   PROVE  FALSE
        BY <1>8, <1>9
    <2>2. FitsFrom(Available(asked), line, asked) = floor
        BY <1>6, <1>8, <2>1, WhatFitsStays
    <2> QED
        BY <1>5, <1>7, <2>2
<1>11. line = PruneTo(Target(asked), asked)
    BY <1>4, <1>7 DEF Pruning
<1>12. ~(WindowTokens(floor, line, asked) <= Target(asked))
    BY <1>8, <1>9, <1>10
<1>13. WindowTokens(floor, line, asked) <= WindowTokens(floor, l, asked)
    BY <1>8, <1>11, <1>12, PruneToIsBest
<1>14. WindowTokens(floor, l, asked) \in Nat
    <2>1. Max({pruned, floor}) \in Nat
        BY <1>5, MaxOfTwo
    <2>2. l \in Int
        BY <1>5, <2>1
    <2> QED
        BY <2>2, WindowIsNatural
<1> QED
    BY <1>3, <1>8, <1>9, <1>10, <1>13, <1>14

\* While a session lives, a turn leaves the window only where no prune line
\* would have kept the window within what is available: for any spans, any
\* costs and either depth of a cut ("the floor moves after, and only if giving
\* up every span in the window still leaves it over":
\* crates/agent-core/src/context.rs, select).
THEOREM NoTurnIsLostToASpan == Spec => NoTurnLeavesForASpan
<1>1. Spec => []Shown
    BY ShownInit, ShownNext, PTL DEF Spec
<1>2. Shown /\ [Next]_vars => [LeavesForMore]_vars
    BY StepLeavesForMore
<1>3. Spec => [][LeavesForMore]_vars
    BY <1>1, <1>2, PTL DEF Spec
<1> QED
    BY <1>3 DEF NoTurnLeavesForASpan, LeavesForMore

(***************************************************************************)
(* What is sent costs no more than what was counted.                        *)
(***************************************************************************)
LEMMA PartCosts ==
    ASSUME NEW i, NEW f, NEW as
    PROVE  PartCost(Part(i, f, as)) = IF as = "cited" THEN Citation ELSE Cost(f.path)
BY DEF PartCost, Part

LEMMA SentAboveCostsOnce ==
    ASSUME Shown, budget.repeat = "once",
           NEW F, \A p \in SentAbove(floor, pruned, sent.asked) : F[p] = PartCost(p)
    PROVE  /\ IsFiniteSet(SentAbove(floor, pruned, sent.asked))
           /\ Total(F, SentAbove(floor, pruned, sent.asked))
                <= Total(OnceCosts(floor, pruned, sent.asked), Fragments)
<1>1. PICK S : S = SentAbove(floor, pruned, sent.asked)
    OBVIOUS
<1>2. PICK On : On = OnceCosts(floor, pruned, sent.asked)
    OBVIOUS
<1>3. PICK V : V = Verbatim(floor, pruned)
    OBVIOUS
<1>4. /\ floor \in 0..Len(turns) /\ V \subseteq 1..Len(turns) /\ Len(turns) \in Nat
      /\ budget.repeat # "always"
    <2>1. floor \in 0..Len(turns) /\ Len(turns) \in Nat
        BY DEF Shown, Lines
    <2>2. V \subseteq 1..Len(turns)
        BY <1>3, <2>1, SpansByTurn
    <2>3. budget.repeat # "always"
        OBVIOUS
    <2> QED
        BY ONLY <2>1, <2>2, <2>3
<1>5. ASSUME NEW p \in S
      PROVE  \E i \in V : \E f \in turns[i].spans :
                /\ \A j \in V : j < i => f \notin turns[j].spans
                /\ p = Part(i, f, IF Superseded(f, sent.asked) THEN "cited" ELSE "body")
    BY <1>1, <1>3, <1>4, AboveParts, Zenon
<1>6. ASSUME NEW p \in S
      PROVE  /\ p.span \in Fragments
             /\ F[p] = On[p.span] /\ On[p.span] \in Nat
    <2>1. PICK i \in V : \E f \in turns[i].spans :
                /\ \A j \in V : j < i => f \notin turns[j].spans
                /\ p = Part(i, f, IF Superseded(f, sent.asked) THEN "cited" ELSE "body")
        BY <1>5, Zenon
    <2>2. PICK f \in turns[i].spans :
                p = Part(i, f, IF Superseded(f, sent.asked) THEN "cited" ELSE "body")
        BY <2>1, Zenon
    <2>3. p.span = f
        BY <2>2 DEF Part
    <2>4. f \in Fragments
        BY <1>4, SpansAreFinite
    <2>5. F[p] = ShownSpanCost(f, sent.asked)
        <3>1. F[p] = PartCost(p)
            BY <1>1
        <3> QED
            BY <2>2, <3>1, PartCosts DEF ShownSpanCost
    <2>6. ShownSpanCost(f, sent.asked) \in Nat
        BY <2>4, CostTypes
    <2>7. Copies(f, floor, pruned) \in Nat /\ Copies(f, floor, pruned) # 0
        <3>1. Copies(f, floor, pruned) \in Nat
            BY <1>4, RepeatsAre
        <3>2. Copies(f, floor, pruned) # 0
            BY <1>3, <1>4, NobodyCopies
        <3> QED
            BY <3>1, <3>2
    <2>8. Copies(f, floor, pruned) - Repeats(f, floor, pruned) = 1
        BY <2>7 DEF Repeats
    <2>9. On[f] = 1 * ShownSpanCost(f, sent.asked)
        BY <1>2, <2>4, <2>8 DEF OnceCosts
    <2> QED
        BY <2>3, <2>4, <2>5, <2>6, <2>9
<1>7. ASSUME NEW p \in S, NEW q \in S, p.span = q.span
      PROVE  p = q
    <2>1. PICK i \in V : \E f \in turns[i].spans :
                /\ \A j \in V : j < i => f \notin turns[j].spans
                /\ p = Part(i, f, IF Superseded(f, sent.asked) THEN "cited" ELSE "body")
        BY <1>5, Zenon
    <2>2. PICK f \in turns[i].spans :
                /\ \A j \in V : j < i => f \notin turns[j].spans
                /\ p = Part(i, f, IF Superseded(f, sent.asked) THEN "cited" ELSE "body")
        BY <2>1, Zenon
    <2>3. PICK j \in V : \E g \in turns[j].spans :
                /\ \A k \in V : k < j => g \notin turns[k].spans
                /\ q = Part(j, g, IF Superseded(g, sent.asked) THEN "cited" ELSE "body")
        BY <1>5, Zenon
    <2>4. PICK g \in turns[j].spans :
                /\ \A k \in V : k < j => g \notin turns[k].spans
                /\ q = Part(j, g, IF Superseded(g, sent.asked) THEN "cited" ELSE "body")
        BY <2>3, Zenon
    <2>5. p.span = f /\ q.span = g
        BY <2>2, <2>4 DEF Part
    <2>6. f = g
        BY <1>7, <2>5
    <2>7. ~(i < j) /\ ~(j < i) /\ i \in Int /\ j \in Int
        BY <1>4, <2>2, <2>4, <2>6
    <2>8. i = j
        BY <2>7
    <2> QED
        BY <2>2, <2>4, <2>6, <2>8
<1> DEFINE K == {p.span : p \in S}
           E == [f \in K |-> CHOOSE p \in S : p.span = f]
<1>8. \A f \in K : E[f] \in S /\ E[f].span = f
    OBVIOUS
<1>9. {E[f] : f \in K} = S
    <2>1. \A p \in S : p.span \in K /\ E[p.span] = p
        BY <1>7, <1>8
    <2> HIDE DEF K, E
    <2> QED
        BY <1>8, <2>1
<1>10. K \in SUBSET Fragments /\ IsFiniteSet(Fragments) /\ IsFiniteSet(K)
    <2>1. K \in SUBSET Fragments /\ IsFiniteSet(Fragments)
        BY <1>6, WindowAssumption
    <2> HIDE DEF K
    <2> QED
        BY <2>1, FS_Subset
<1>11. \A f \in K : F[E[f]] \in Nat /\ On[f] = F[E[f]]
    BY <1>6, <1>8
<1> HIDE DEF K, E
<1>12. IsFiniteSet({E[f] : f \in K}) /\ Total(F, {E[f] : f \in K}) <= Total(On, K)
    BY ONLY <1>10, <1>11, TotalOfImage
<1>13. \A f \in Fragments : On[f] \in Nat
    BY <1>2, <1>4, OnceCostsNoMore
<1>14. Total(On, K) <= Total(On, Fragments) /\ Total(On, K) \in Nat
       /\ Total(On, Fragments) \in Nat
    BY ONLY <1>10, <1>13, TotalGrows
<1>15. Total(F, S) \in Int
    <2>1. IsFiniteSet(S)
        BY <1>9, <1>12
    <2>2. \A p \in S : F[p] \in Int
        <3> SUFFICES ASSUME NEW p \in S
                     PROVE  F[p] \in Int
            OBVIOUS
        <3>1. F[p] \in Nat
            BY <1>6
        <3> QED
            BY <3>1
    <2> QED
        BY ONLY <2>1, <2>2, TotalType
<1>16. IsFiniteSet(S) /\ Total(F, S) <= Total(On, Fragments)
    BY <1>9, <1>12, <1>14, <1>15
<1> QED
    BY <1>1, <1>2, <1>16

LEMMA SentAboveCostsAlways ==
    ASSUME Shown, budget.repeat = "always",
           NEW F, \A p \in SentAbove(floor, pruned, sent.asked) : F[p] = PartCost(p)
    PROVE  /\ IsFiniteSet(SentAbove(floor, pruned, sent.asked))
           /\ Total(F, SentAbove(floor, pruned, sent.asked))
                <= Total(OnceCosts(floor, pruned, sent.asked), Fragments)
<1>1. PICK S : S = SentAbove(floor, pruned, sent.asked)
    OBVIOUS
<1>2. PICK On : On = OnceCosts(floor, pruned, sent.asked)
    OBVIOUS
<1>3. PICK V : V = Verbatim(floor, pruned)
    OBVIOUS
<1>4. PICK Ab : Ab = AboveCosts(sent.asked)
    OBVIOUS
<1>5. /\ floor \in 0..Len(turns) /\ V \subseteq 1..Len(turns) /\ IsFiniteSet(V)
      /\ Total(Ab, V) = Total(CopyCosts(floor, pruned, sent.asked), Fragments)
    BY <1>3, <1>4, SpansByTurn DEF Shown, Lines
<1>6. \A f : ~Superseded(f, sent.asked) /\ Repeats(f, floor, pruned) = 0
    BY DEF Superseded, Repeats
<1> DEFINE E == [i \in V |-> {Part(i, f, "body") : f \in turns[i].spans}]
<1>7. S = UNION {E[i] : i \in V}
    <2>1. \A p : p \in S <=> \E i \in V : \E f \in turns[i].spans :
                                p = Part(i, f, "body")
        <3> SUFFICES ASSUME NEW p
                     PROVE  p \in S <=> \E i \in V : \E f \in turns[i].spans :
                                            p = Part(i, f, "body")
            OBVIOUS
        <3>1. p \in S <=> \E i \in V : \E f \in turns[i].spans :
                p = Part(i, f, IF Superseded(f, sent.asked) THEN "cited" ELSE "body")
            BY <1>1, <1>3, AboveParts, Zenon
        <3> QED
            BY <1>6, <3>1
    <2>2. \A p : p \in UNION {E[i] : i \in V} <=> \E i \in V : p \in E[i]
        OBVIOUS
    <2>3. \A i \in V : \A p : p \in E[i] <=> \E f \in turns[i].spans : p = Part(i, f, "body")
        OBVIOUS
    <2> HIDE DEF E
    <2> QED
        BY <2>1, <2>2, <2>3
<1>8. ASSUME NEW i \in V
      PROVE  /\ IsFiniteSet(E[i]) /\ Ab[i] \in Nat
             /\ \A p \in E[i] : F[p] \in Nat
             /\ Total(F, E[i]) <= Ab[i]
    <2>1. PICK A : A = turns[i].spans
        OBVIOUS
    <2>2. PICK H : H = ShownCosts(sent.asked)
        OBVIOUS
    <2>3. i \in 1..Len(turns) /\ IsFiniteSet(A) /\ A \subseteq Fragments
        BY <1>5, <2>1, SpansAreFinite
    <2>4. Ab[i] = Total(H, A) /\ Ab[i] \in Nat
        BY <1>4, <2>1, <2>2, <2>3, SpanSums DEF AboveCosts
    <2> DEFINE P == [f \in A |-> Part(i, f, "body")]
    <2>5. E[i] = {P[f] : f \in A}
        BY <2>1
    <2>6. ASSUME NEW f \in A
          PROVE  F[P[f]] \in Nat /\ H[f] = F[P[f]]
        <3>1. P[f] \in S
            BY <1>7, <2>5
        <3>2. F[P[f]] = PartCost(P[f])
            BY <1>1, <3>1
        <3>3. F[P[f]] = Cost(f.path)
            BY <3>2, PartCosts
        <3>4. H[f] = Cost(f.path)
            BY <1>6, <2>2, <2>3 DEF ShownCosts, ShownSpanCost
        <3>5. Cost(f.path) \in Nat
            BY <2>3, WindowAssumption
        <3> QED
            BY <3>3, <3>4, <3>5
    <2> HIDE DEF P, E
    <2>7. IsFiniteSet({P[f] : f \in A}) /\ Total(F, {P[f] : f \in A}) <= Total(H, A)
        BY ONLY <2>3, <2>6, TotalOfImage
    <2> QED
        BY <2>4, <2>5, <2>6, <2>7
<1> HIDE DEF E
<1>9. /\ IsFiniteSet(UNION {E[i] : i \in V})
      /\ Total(F, UNION {E[i] : i \in V}) <= Total(Ab, V)
    <2>1. IsFiniteSet(V)
        BY <1>5
    <2>2. \A i \in V : /\ IsFiniteSet(E[i]) /\ Ab[i] \in Nat
                       /\ \A p \in E[i] : F[p] \in Nat
                       /\ Total(F, E[i]) <= Ab[i]
        BY <1>8
    <2> QED
        BY ONLY <2>1, <2>2, TotalOfUnions
<1>10. Total(Ab, V) = Total(On, Fragments)
    <2>1. PICK Cp : Cp = CopyCosts(floor, pruned, sent.asked)
        OBVIOUS
    <2>2. IsFiniteSet(Fragments)
        BY WindowAssumption
    <2>3. \A f \in Fragments : Cp[f] \in Int /\ Cp[f] = On[f]
        <3> SUFFICES ASSUME NEW f \in Fragments
                     PROVE  Cp[f] \in Int /\ Cp[f] = On[f]
            OBVIOUS
        <3>1. On[f] \in Nat
            BY <1>2, <1>5, OnceCostsNoMore
        <3>2. Copies(f, floor, pruned) \in Nat
            BY <1>5, RepeatsAre
        <3>3. Copies(f, floor, pruned) - Repeats(f, floor, pruned)
                = Copies(f, floor, pruned)
            BY <1>6, <3>2
        <3>4. Cp[f] = On[f]
            BY <1>2, <2>1, <3>3 DEF CopyCosts, OnceCosts
        <3> QED
            BY <3>1, <3>4
    <2>4. Total(Cp, Fragments) = Total(On, Fragments)
        BY ONLY <2>2, <2>3, TotalSame
    <2> QED
        BY <1>5, <2>1, <2>4
<1> QED
    BY <1>1, <1>2, <1>7, <1>9, <1>10

LEMMA SentBehindCosts ==
    ASSUME Shown,
           NEW F, \A p \in SentBehind(floor, pruned) : F[p] = PartCost(p)
    PROVE  /\ IsFiniteSet(SentBehind(floor, pruned))
           /\ Total(F, SentBehind(floor, pruned))
                <= Total(BehindCosts, BehindTurns(floor, pruned))
<1>1. PICK S : S = SentBehind(floor, pruned)
    OBVIOUS
<1>2. PICK B : B = BehindTurns(floor, pruned)
    OBVIOUS
<1>3. PICK Bh : Bh = BehindCosts
    OBVIOUS
<1>4. IsFiniteSet(B) /\ B \subseteq 1..Len(turns)
    <2>1. floor \in 0..Len(turns)
        BY DEF Shown, Lines
    <2>2. B \subseteq Items(floor)
        BY <1>2 DEF BehindTurns, Items
    <2> QED
        BY <2>1, <2>2, ItemsAreTurns, FS_Subset
<1> DEFINE As(f) == IF Citation < Cost(f.path) THEN "cited" ELSE "body"
           E == [i \in B |-> {Part(i, f, As(f)) : f \in turns[i].spans}]
<1>5. S = UNION {E[i] : i \in B}
    BY <1>1, <1>2 DEF SentBehind, BehindTurns
<1>6. ASSUME NEW i \in B
      PROVE  /\ IsFiniteSet(E[i]) /\ Bh[i] \in Nat
             /\ \A p \in E[i] : F[p] \in Nat
             /\ Total(F, E[i]) <= Bh[i]
    <2>1. PICK A : A = turns[i].spans
        OBVIOUS
    <2>2. PICK H : H = PrunedCosts
        OBVIOUS
    <2>3. i \in 1..Len(turns) /\ IsFiniteSet(A) /\ A \subseteq Fragments
        BY <1>4, <2>1, SpansAreFinite
    <2>4. Bh[i] = Total(H, A) /\ Bh[i] \in Nat
        BY <1>3, <2>1, <2>2, <2>3, SpanSums DEF BehindCosts
    <2> DEFINE P == [f \in A |-> Part(i, f, As(f))]
    <2>5. E[i] = {P[f] : f \in A}
        BY <2>1
    <2>6. ASSUME NEW f \in A
          PROVE  F[P[f]] \in Nat /\ H[f] = F[P[f]]
        <3>1. P[f] \in S
            BY <1>5, <2>5
        <3>2. F[P[f]] = PartCost(P[f])
            BY <1>1, <3>1
        <3>3. PartCost(P[f]) = IF As(f) = "cited" THEN Citation ELSE Cost(f.path)
            BY PartCosts
        <3>4. H[f] = Cheaper(Citation, Cost(f.path))
            BY <2>2, <2>3 DEF PrunedCosts, PrunedSpanCost
        <3>5. Cost(f.path) \in Nat /\ Citation \in Nat
            BY <2>3, WindowAssumption
        <3> QED
            BY <3>2, <3>3, <3>4, <3>5 DEF Cheaper
    <2> HIDE DEF P, E
    <2>7. IsFiniteSet({P[f] : f \in A}) /\ Total(F, {P[f] : f \in A}) <= Total(H, A)
        BY ONLY <2>3, <2>6, TotalOfImage
    <2> QED
        BY <2>4, <2>5, <2>6, <2>7
<1> HIDE DEF E
<1>7. /\ IsFiniteSet(UNION {E[i] : i \in B})
      /\ Total(F, UNION {E[i] : i \in B}) <= Total(Bh, B)
    BY ONLY <1>4, <1>6, TotalOfUnions
<1> QED
    BY <1>1, <1>2, <1>3, <1>5, <1>7

LEMMA SentAskedCosts ==
    ASSUME Shown, sent.asked \in Selections,
           NEW F, \A p \in SentAsked(floor, pruned, sent.asked) : F[p] = PartCost(p)
    PROVE  /\ IsFiniteSet(SentAsked(floor, pruned, sent.asked))
           /\ Total(F, SentAsked(floor, pruned, sent.asked)) <= AskedCost(sent.asked)
<1>1. PICK S : S = SentAsked(floor, pruned, sent.asked)
    OBVIOUS
<1>2. PICK asked : asked = sent.asked
    OBVIOUS
<1>3. PICK H : H = [f \in Fragments |-> Cost(f.path)]
    OBVIOUS
<1>4. /\ AskedCost(asked) = Total(H, asked) /\ asked \subseteq Fragments
      /\ IsFiniteSet(asked)
    BY <1>2, <1>3, AskedCostIs
<1>5. PICK A : A = {g \in asked : budget.repeat = "always" \/ Copies(g, floor, pruned) = 0}
    OBVIOUS
<1>6. A \in SUBSET asked /\ IsFiniteSet(A)
    BY <1>4, <1>5, FS_Subset
<1>7. PICK n : n = Len(turns) + 1
    OBVIOUS
<1> DEFINE P == [f \in A |-> Part(n, f, "body")]
<1>8. S = {P[f] : f \in A}
    BY <1>1, <1>2, <1>5, <1>7 DEF SentAsked
<1>9. ASSUME NEW f \in A
      PROVE  F[P[f]] \in Nat /\ H[f] = F[P[f]]
    <2>1. F[P[f]] = PartCost(P[f])
        BY <1>1, <1>8
    <2>2. PartCost(P[f]) = Cost(f.path)
        BY PartCosts
    <2>3. H[f] = Cost(f.path) /\ Cost(f.path) \in Nat
        BY <1>3, <1>4, <1>6, WindowAssumption
    <2> QED
        BY <2>1, <2>2, <2>3
<1> HIDE DEF P
<1>10. IsFiniteSet({P[f] : f \in A}) /\ Total(F, {P[f] : f \in A}) <= Total(H, A)
    <2>1. IsFiniteSet(A)
        BY <1>6
    <2>2. \A f \in A : F[P[f]] \in Nat /\ H[f] = F[P[f]]
        BY <1>9
    <2> QED
        BY ONLY <2>1, <2>2, TotalOfImage
<1>11. \A f \in asked : H[f] \in Nat
    BY <1>3, <1>4, WindowAssumption
<1>12. Total(H, A) <= Total(H, asked) /\ Total(H, A) \in Nat /\ Total(H, asked) \in Nat
    BY ONLY <1>4, <1>6, <1>11, TotalGrows
<1>13. Total(F, {P[f] : f \in A}) \in Int
    <2>1. \A p \in {P[f] : f \in A} : F[p] \in Int
        BY <1>9
    <2> QED
        BY ONLY <1>10, <2>1, TotalType
<1>14. Total(F, S) <= Total(H, asked)
    BY <1>8, <1>10, <1>12, <1>13
<1> QED
    BY <1>1, <1>2, <1>4, <1>8, <1>10, <1>14

LEMMA PromptTokensAre ==
    ASSUME Shown, NEW F, F = [p \in Parts |-> PartCost(p)]
    PROVE  SentTokens = Total(F, Parts) + Total(Bases(pruned), Items(floor))
<1>1. Items(floor) \subseteq 1..Len(turns)
    BY ItemsAreTurns DEF Shown, Lines
<1>2. MapThenSumSet(PartCost, Parts) = Total(F, Parts)
    BY Zenon DEF Total, MapThenSumSet, MapThenFoldSet
<1>3. PICK E : E = Bases(pruned)
    OBVIOUS
<1>4. E = [i \in 1..Len(turns) |->
            IF Folded(i) THEN Summary ELSE Exchange + OutputCost(turns[i], i <= pruned)]
    BY <1>3 DEF Bases
<1>5. MapThenSumSet(LAMBDA i : IF Folded(i) THEN Summary
                               ELSE Exchange + OutputCost(turns[i], i <= pruned),
                    Items(floor))
        = Total(E, Items(floor))
    BY <1>1, <1>4, Zenon DEF Total, MapThenSumSet, MapThenFoldSet
<1> QED
    BY <1>2, <1>3, <1>5, Zenon DEF SentTokens

LEMMA PartsAreOfFragments ==
    ASSUME Shown, sent.asked \in Selections, NEW p \in Parts
    PROVE  p.span \in Fragments
<1>1. \A i, f, as : Part(i, f, as).span = f
    BY DEF Part
<1>2. floor \in 0..Len(turns) /\ Len(turns) \in Nat
    BY DEF Shown, Lines
<1>3. CASE p \in SentAbove(floor, pruned, sent.asked)
    <2>1. PICK i \in Verbatim(floor, pruned) : \E f \in turns[i].spans :
                p = Part(i, f, IF Superseded(f, sent.asked) THEN "cited" ELSE "body")
        BY <1>3, AboveParts, Zenon
    <2>2. p.span \in turns[i].spans
        BY <1>1, <2>1
    <2>3. i \in 1..Len(turns)
        BY <1>2 DEF Verbatim
    <2> QED
        BY <2>2, <2>3, SpansAreFinite
<1>4. CASE p \in SentBehind(floor, pruned)
    <2>1. PICK i \in floor + 1..Len(turns) : \E f \in turns[i].spans :
                p = Part(i, f, IF Citation < Cost(f.path) THEN "cited" ELSE "body")
        BY <1>4 DEF SentBehind
    <2>2. p.span \in turns[i].spans
        BY <1>1, <2>1
    <2>3. i \in 1..Len(turns)
        BY <1>2
    <2> QED
        BY <2>2, <2>3, SpansAreFinite
<1>5. CASE p \in SentAsked(floor, pruned, sent.asked)
    <2>1. p.span \in sent.asked
        BY <1>1, <1>5 DEF SentAsked
    <2> QED
        BY <2>1, AskedCostIs
<1> QED
    BY <1>3, <1>4, <1>5 DEF Parts

LEMMA ThePartsCost ==
    ASSUME Shown, sent.asked \in Selections, NEW F, F = [p \in Parts |-> PartCost(p)]
    PROVE  /\ Total(F, Parts) \in Int
           /\ Total(F, Parts)
                <= Total(OnceCosts(floor, pruned, sent.asked), Fragments)
                   + Total(BehindCosts, BehindTurns(floor, pruned))
                   + AskedCost(sent.asked)
<1>1. PICK A : A = SentAbove(floor, pruned, sent.asked)
    OBVIOUS
<1>2. PICK B : B = SentBehind(floor, pruned)
    OBVIOUS
<1>3. PICK C : C = SentAsked(floor, pruned, sent.asked)
    OBVIOUS
<1>4. Parts = A \cup B \cup C
    BY <1>1, <1>2, <1>3 DEF Parts
<1>5. \A p \in A \cup B \cup C : F[p] = PartCost(p)
    BY <1>4
<1>6. IsFiniteSet(A)
      /\ Total(F, A) <= Total(OnceCosts(floor, pruned, sent.asked), Fragments)
    <2>1. \A p \in SentAbove(floor, pruned, sent.asked) : F[p] = PartCost(p)
        BY <1>1, <1>5
    <2>2. CASE budget.repeat = "once"
        BY <1>1, <2>1, <2>2, SentAboveCostsOnce
    <2>3. CASE budget.repeat = "always"
        BY <1>1, <2>1, <2>3, SentAboveCostsAlways
    <2>4. budget.repeat \in {"always", "once"}
        BY DEF Shown, Lines, Budget
    <2> QED
        BY <2>2, <2>3, <2>4
<1>7. IsFiniteSet(B)
      /\ Total(F, B) <= Total(BehindCosts, BehindTurns(floor, pruned))
    BY <1>2, <1>5, SentBehindCosts
<1>8. IsFiniteSet(C) /\ Total(F, C) <= AskedCost(sent.asked)
    BY <1>3, <1>5, SentAskedCosts
<1>9. \A p \in A \cup B \cup C : F[p] \in Nat
    <2>1. \A p \in A \cup B \cup C : p.span \in Fragments
        BY <1>1, <1>2, <1>3, <1>4, PartsAreOfFragments
    <2>2. Citation \in Nat /\ \A f \in Fragments : Cost(f.path) \in Nat
        BY WindowAssumption
    <2> QED
        BY <1>5, <2>1, <2>2 DEF PartCost
<1>10. IsFiniteSet(A \cup B)
    BY <1>6, <1>7, FS_Union
<1>11. Total(F, A \cup B) <= Total(F, A) + Total(F, B)
    <2>1. \A p \in A \cup B : F[p] \in Nat
        BY <1>9
    <2>2. IsFiniteSet(A) /\ IsFiniteSet(B)
        BY <1>6, <1>7
    <2> QED
        BY ONLY <2>1, <2>2, TotalOfUnion
<1>12. Total(F, A \cup B \cup C) <= Total(F, A \cup B) + Total(F, C)
    <2>1. IsFiniteSet(A \cup B) /\ IsFiniteSet(C)
        BY <1>8, <1>10
    <2> QED
        BY ONLY <1>9, <2>1, TotalOfUnion
<1> QED
    <2>1. \A S \in {A, B, C, A \cup B, A \cup B \cup C} : Total(F, S) \in Int
        <3> SUFFICES ASSUME NEW S \in {A, B, C, A \cup B, A \cup B \cup C}
                     PROVE  Total(F, S) \in Int
            OBVIOUS
        <3>1. IsFiniteSet(S)
            BY <1>6, <1>7, <1>8, <1>10, FS_Union
        <3>2. \A p \in S : F[p] \in Int
            BY <1>9
        <3> QED
            BY ONLY <3>1, <3>2, TotalType
    <2>0. floor \in 0..Len(turns) /\ pruned \in Int
        BY DEF Shown, Lines
    <2>2. PICK o \in Nat : o = Total(OnceCosts(floor, pruned, sent.asked), Fragments)
        BY <2>0, WindowIsThreeSums
    <2>3. PICK b \in Nat : b = Total(BehindCosts, BehindTurns(floor, pruned))
        BY <2>0, WindowIsThreeSums
    <2>4. PICK a \in Int : a = AskedCost(sent.asked)
        BY AskedCostIs
    <2>5. PICK tA \in Int : tA = Total(F, A)
        BY <2>1
    <2>6. PICK tB \in Int : tB = Total(F, B)
        BY <2>1
    <2>7. PICK tC \in Int : tC = Total(F, C)
        BY <2>1
    <2>8. PICK tAB \in Int : tAB = Total(F, A \cup B)
        BY <2>1
    <2>9. PICK t \in Int : t = Total(F, A \cup B \cup C)
        BY <2>1
    <2>10. t <= o + b + a
        BY <1>6, <1>7, <1>8, <1>11, <1>12, <2>2, <2>3, <2>4, <2>5, <2>6, <2>7, <2>8, <2>9
    <2> QED
        BY <1>4, <2>2, <2>3, <2>4, <2>9, <2>10

\* A window with an item in it costs something.
LEMMA ItemsCost ==
    ASSUME Shown, Items(floor) # {}
    PROVE  Total(Bases(pruned), Items(floor)) > 0
<1>1. PICK F : F = Bases(pruned)
    OBVIOUS
<1>2. PICK S : S = Items(floor)
    OBVIOUS
<1>3. PICK i : i \in S
    BY <1>2
<1>4. IsFiniteSet(S) /\ S \subseteq 1..Len(turns)
    BY <1>2, ItemsAreTurns DEF Shown, Lines
<1>5. \A j \in S : F[j] \in Nat
    BY <1>1, <1>4, BaseTypes
<1>6. F[i] > 0
    <2>1. {Exchange, Summary, Output, Cited} \subseteq Nat
        BY WindowAssumption
    <2>2. \A t, b : OutputCost(t, b) \in Nat
        BY <2>1 DEF OutputCost, Cheaper
    <2>3. F[i] = IF Folded(i) THEN Summary
                 ELSE Exchange + OutputCost(turns[i], i <= pruned)
        BY <1>1, <1>3, <1>4 DEF Bases
    <2>4. PICK o \in Nat : o = OutputCost(turns[i], i <= pruned)
        BY <2>2
    <2>5. F[i] = Summary \/ F[i] = Exchange + o
        BY <2>3, <2>4
    <2> QED
        BY <2>1, <2>4, <2>5, EveryTextCosts
<1>7. \A j \in S : F[j] \in Int
    BY <1>5
<1>8. Total(F, S) = F[i] + Total(F, S \ {i}) /\ Total(F, S \ {i}) \in Int
    BY ONLY <1>3, <1>4, <1>7, TotalStep
<1>9. Total(F, S \ {i}) >= 0
    <2>1. IsFiniteSet(S \ {i}) /\ \A j \in S \ {i} : F[j] \in Int /\ F[j] >= 0
        BY <1>4, <1>5, FS_Subset
    <2> QED
        BY ONLY <2>1, TotalType
<1>10. F[i] \in Nat
    BY <1>3, <1>5
<1>11. Total(F, S) > 0
    BY <1>6, <1>8, <1>9, <1>10
<1> QED
    BY <1>1, <1>2, <1>11

\* What the cut was made for: the turn being asked has the window it was given.
Fits ==
    sent.running =>
        /\ sent.asked \in Selections
        /\ \/ Items(floor) = {}
           \/ WindowTokens(floor, pruned, sent.asked) <= Available(sent.asked)

LEMMA WhatFitsIsSent == Shown /\ Fits => ThePromptFits
<1> SUFFICES ASSUME Shown, Fits, sent.running, Items(floor) # {}
             PROVE  SentTokens <= Room
    BY DEF ThePromptFits
<1>1. /\ sent.asked \in Selections
      /\ WindowTokens(floor, pruned, sent.asked) <= Available(sent.asked)
    BY DEF Fits
<1>2. PICK F : F = [p \in Parts |-> PartCost(p)]
    OBVIOUS
<1>3. SentTokens = Total(F, Parts) + Total(Bases(pruned), Items(floor))
    BY <1>2, PromptTokensAre
<1>4. Total(F, Parts) \in Int /\ Total(F, Parts)
        <= Total(OnceCosts(floor, pruned, sent.asked), Fragments)
           + Total(BehindCosts, BehindTurns(floor, pruned))
           + AskedCost(sent.asked)
    BY <1>1, <1>2, ThePartsCost
<1>5. floor \in 0..Len(turns) /\ pruned \in Int
    BY DEF Shown, Lines
<1>6. /\ WindowTokens(floor, pruned, sent.asked)
            = Total(Bases(pruned), Items(floor))
              + Total(BehindCosts, BehindTurns(floor, pruned))
              + Total(OnceCosts(floor, pruned, sent.asked), Fragments)
      /\ Total(Bases(pruned), Items(floor)) \in Nat
      /\ Total(BehindCosts, BehindTurns(floor, pruned)) \in Nat
      /\ Total(OnceCosts(floor, pruned, sent.asked), Fragments) \in Nat
    BY <1>5, WindowIsThreeSums
<1>7. Total(Bases(pruned), Items(floor)) > 0
    BY ItemsCost
<1>8. /\ AskedCost(sent.asked) \in Int /\ Room \in Nat
      /\ Available(sent.asked) = 0
         \/ Available(sent.asked) = Room - AskedCost(sent.asked)
    <2>1. AskedCost(sent.asked) \in Int /\ Room \in Nat
        BY <1>1, TargetsAre, WindowAssumption
    <2>2. PICK r \in Int : r = Room - AskedCost(sent.asked)
        BY <2>1
    <2>3. \E x \in {0, r} : \A y \in {0, r} : x >= y
        BY r >= 0 \/ r < 0
    <2>4. Max({0, r}) \in {0, r}
        BY <2>3 DEF Max
    <2> QED
        BY <2>1, <2>2, <2>4 DEF Available
<1> DEFINE t == Total(F, Parts)
           b == Total(Bases(pruned), Items(floor))
           c == Total(BehindCosts, BehindTurns(floor, pruned))
           d == Total(OnceCosts(floor, pruned, sent.asked), Fragments)
           w == WindowTokens(floor, pruned, sent.asked)
           v == Available(sent.asked)
           k == AskedCost(sent.asked)
<1>9. /\ SentTokens = t + b /\ t <= d + c + k /\ w = b + c + d /\ b > 0
       /\ b \in Nat /\ c \in Nat /\ d \in Nat /\ t \in Int /\ k \in Int /\ Room \in Nat
       /\ w <= v /\ (v = 0 \/ v = Room - k)
    BY <1>1, <1>3, <1>4, <1>6, <1>7, <1>8
<1> HIDE DEF t, b, c, d, w, v, k
<1> QED
    BY <1>9

\* Where the floor goes leaves a window that fits, or an empty one.
LEMMA FitsFromFits ==
    ASSUME Shown, NEW room, NEW line, NEW asked,
           NEW from, from = FitsFrom(room, line, asked)
    PROVE  Items(from) = {} \/ WindowTokens(from, line, asked) <= room
<1> DEFINE fits == {i \in Items(floor) :
                        \A j \in Items(floor) :
                            j >= i => WindowTokens(j - 1, line, asked) <= room}
<1>1. floor \in 0..Len(turns) /\ Len(turns) \in Nat
    BY DEF Shown, Lines
<1>2. from = IF fits = {} THEN Len(turns) ELSE Min(fits) - 1
    BY DEF FitsFrom
<1>3. CASE fits = {}
    <2>1. from = Len(turns)
        BY <1>2, <1>3
    <2>2. Items(Len(turns)) = {}
        BY <1>1 DEF Items
    <2> QED
        BY <2>1, <2>2
<1>4. CASE fits # {}
    <2>1. fits \in SUBSET Nat
        BY <1>1 DEF Items
    <2>2. Min(fits) \in fits
        BY <1>4, <2>1, MinIsLeast
    <2>3. PICK m \in Nat : m = Min(fits)
        BY <2>1, <2>2
    <2>4. m \in Items(floor) /\ WindowTokens(m - 1, line, asked) <= room
        BY <2>2, <2>3
    <2>5. from = m - 1
        BY <1>2, <1>4, <2>3
    <2> QED
        BY <2>4, <2>5
<1> QED
    BY <1>3, <1>4

\* A window of which nothing has to go fits, or is empty.
LEMMA WhatStaysFits ==
    ASSUME Shown, NEW room, NEW line, NEW asked, ~(FitsFrom(room, line, asked) > floor)
    PROVE  Items(floor) = {} \/ WindowTokens(floor, line, asked) <= room
<1>1. PICK from : from = FitsFrom(room, line, asked)
    OBVIOUS
<1>2. from \in floor..Len(turns)
    BY <1>1, FitsFromTheFloor DEF Shown
<1>3. floor \in 0..Len(turns) /\ Len(turns) \in Nat
    BY DEF Shown, Lines
<1>4. from = floor
    BY <1>1, <1>2, <1>3
<1> QED
    BY <1>1, <1>4, FitsFromFits

LEMMA TheCutFits ==
    ASSUME Shown, NEW asked \in Selections, NEW line \in Int,
           NEW above, above = Cut(line, asked)
    PROVE  Items(above) = {} \/ WindowTokens(above, line, asked) <= Available(asked)
<1>1. CASE FitsFrom(Available(asked), line, asked) > floor
    <2>1. above = FitsFrom(Target(asked), line, asked)
        BY <1>1 DEF Cut
    <2>2. Items(above) = {} \/ WindowTokens(above, line, asked) <= Target(asked)
        BY <2>1, FitsFromFits
    <2>3. /\ Available(asked) \in Nat /\ Target(asked) \in Int
          /\ Target(asked) <= Available(asked)
        BY TargetsAre
    <2>4. WindowTokens(above, line, asked) \in Int
        <3>1. above \in 0..Len(turns)
            <4>1. above \in floor..Len(turns)
                BY <2>1, FitsFromTheFloor DEF Shown
            <4> QED
                BY <4>1 DEF Shown, Lines
        <3> QED
            BY <3>1, WindowsAreNatural
    <2> QED
        BY <2>2, <2>3, <2>4
<1>2. CASE ~(FitsFrom(Available(asked), line, asked) > floor)
    <2>1. above = floor
        BY <1>2 DEF Cut
    <2>2. Items(floor) = {} \/ WindowTokens(floor, line, asked) <= Available(asked)
        BY <1>2, WhatStaysFits
    <2> QED
        BY <2>1, <2>2
<1> QED
    BY <1>1, <1>2

LEMMA FitsInit == Init => Fits
BY DEF Init, Nothing, Fits

\* What a window costs is made of the turns, the jobs and the rules.
LEMMA TheSameWindow ==
    ASSUME turns' = turns, jobs' = jobs, budget' = budget,
           NEW above, floor' = above, NEW line, pruned' = line,
           NEW asked, sent'.asked = asked
    PROVE  /\ Items(floor)' = Items(above)
           /\ WindowTokens(floor, pruned, sent.asked)' = WindowTokens(above, line, asked)
           /\ Available(sent.asked)' = Available(asked)
<1>1. Items(floor)' = Items(above)
    BY DEF Items, Folded
<1>2. WindowTokens(floor, pruned, sent.asked)' = WindowTokens(above, line, asked)
    BY DEF WindowTokens, Items, ItemCost, TurnCost, OutputCost, PrunedSpanCost,
           ShownSpanCost, Superseded, Readers, Folded, Repeats, Copies, Verbatim,
           MapThenSumSet, MapThenFoldSet
<1>3. Available(sent.asked)' = Available(asked)
    BY DEF Available, AskedCost, MapThenSumSet, MapThenFoldSet
<1> QED
    BY <1>1, <1>2, <1>3

LEMMA FitsNext == Shown /\ Fits /\ [Next]_vars => Fits'
<1> SUFFICES ASSUME Shown, Fits, [Next]_vars
             PROVE  Fits'
    OBVIOUS
<1>1. CASE Ask
    <2>1. PICK asked \in Selections :
            /\ pruned' = Pruning(asked)
            /\ floor' = Cut(Pruning(asked), asked)
            /\ sent' = [asked |-> asked, running |-> TRUE]
        BY <1>1, Zenon DEF Ask
    <2>2. sent'.asked = asked
        BY <2>1
    <2>3. PICK line : line = Pruning(asked)
        OBVIOUS
    <2>4. PICK above : above = Cut(line, asked)
        OBVIOUS
    <2>5. line \in Int
        <3>1. line \in pruned..Len(turns)
            BY <2>3, PruningMovesForward DEF Shown
        <3> QED
            BY <3>1
    <2>6. Items(above) = {} \/ WindowTokens(above, line, asked) <= Available(asked)
        BY <2>4, <2>5, TheCutFits
    <2>7. /\ turns' = turns /\ jobs' = jobs /\ budget' = budget
          /\ floor' = above /\ pruned' = line
        BY <1>1, <2>1, <2>3, <2>4 DEF Ask
    <2>8. /\ Items(floor)' = Items(above)
          /\ WindowTokens(floor, pruned, sent.asked)' = WindowTokens(above, line, asked)
          /\ Available(sent.asked)' = Available(asked)
        BY <2>2, <2>7, TheSameWindow
    <2> QED
        BY <2>2, <2>6, <2>8 DEF Fits
<1>2. CASE Land \/ Dropped
    BY <1>2 DEF Land, Dropped, Nothing, Fits
<1>3. CASE CloseJob \/ ReopenJob \/ Approve \/ Resend \/ Resume
    BY <1>3 DEF CloseJob, ReopenJob, Approve, Resend, Resume, Fits
<1>4. CASE UNCHANGED vars
    <2>1. PICK above : above = floor
        OBVIOUS
    <2>2. PICK line : line = pruned
        OBVIOUS
    <2>3. PICK asked : asked = sent.asked
        OBVIOUS
    <2>4. /\ turns' = turns /\ jobs' = jobs /\ budget' = budget /\ sent' = sent
          /\ floor' = above /\ pruned' = line /\ sent'.asked = asked
        BY <1>4, <2>1, <2>2, <2>3 DEF vars
    <2>5. /\ Items(floor)' = Items(above)
          /\ WindowTokens(floor, pruned, sent.asked)' = WindowTokens(above, line, asked)
          /\ Available(sent.asked)' = Available(asked)
        BY <2>4, TheSameWindow
    <2> QED
        BY <2>1, <2>2, <2>3, <2>4, <2>5 DEF Fits
<1> QED
    BY <1>1, <1>2, <1>3, <1>4 DEF Next

\* The two cuts leave a prompt that fits the room there is for it, or one that
\* sends nothing of the history: the tokens the cuts were decided on are those
\* that are sent (Context::select, fits_from, window_tokens and the render).
THEOREM PromptsFit == Spec => []ThePromptFits
<1>1. Init => Shown /\ Fits
    BY ShownInit, FitsInit
<1>2. (Shown /\ Fits) /\ [Next]_vars => (Shown /\ Fits)'
    BY ShownNext, FitsNext
<1>3. Shown /\ Fits => ThePromptFits
    BY WhatFitsIsSent
<1> QED
    BY <1>1, <1>2, <1>3, PTL DEF Spec
=============================================================================
