---------------------------- MODULE PolicyProofs ----------------------------
(***************************************************************************)
(* Theorems about what a job may touch, for every tree of paths, every       *)
(* session, every plan and every amendment.                                  *)
(*                                                                         *)
(* They rest on one lemma about a sandbox: whenever a rule covers a path, one *)
(* of them is the most specific (AnswersExist), because the roots that cover  *)
(* a path are all prefixes of it and the longest is below every other.        *)
(***************************************************************************)
EXTENDS Policy, SequenceTheorems, WellFoundedInduction, TLAPS

\* Being within is a matter of the first names.
LEMMA WithinMeans ==
    ASSUME NEW p \in Paths, NEW r \in Paths
    PROVE  Within(p, r) <=> Len(r) <= Len(p) /\ \A i \in 1..Len(r) : r[i] = p[i]
<1>1. p \in Seq(STRING) /\ r \in Seq(STRING)
    BY PolicyAssumption
<1>2. Len(p) \in Nat /\ Len(r) \in Nat
    BY <1>1, LenProperties
<1>3. CASE Len(r) <= Len(p)
    <2>1. SubSeq(r, 1, Len(r)) = [i \in 1..Len(r) |-> r[i]]
        BY <1>1, <1>2, SubSeqProperties
    <2>2. SubSeq(p, 1, Len(r)) = [i \in 1..Len(r) |-> p[i]]
        BY <1>1, <1>2, <1>3, SubSeqProperties
    <2> QED
        BY <1>3, <2>1, <2>2 DEF Within, IsPrefix
<1>4. CASE ~(Len(r) <= Len(p))
    BY <1>4 DEF Within, IsPrefix
<1> QED
    BY <1>3, <1>4

LEMMA WithinItself ==
    ASSUME NEW p \in Paths
    PROVE  Within(p, p)
<1>1. Len(p) \in Nat
    BY PolicyAssumption, LenProperties
<1> QED
    BY <1>1, WithinMeans

LEMMA WithinOnceMore ==
    ASSUME NEW p \in Paths, NEW q \in Paths, NEW r \in Paths,
           Within(p, q), Within(q, r)
    PROVE  Within(p, r)
<1>1. Len(p) \in Nat /\ Len(q) \in Nat /\ Len(r) \in Nat
    BY PolicyAssumption, LenProperties
<1>2. Len(q) <= Len(p) /\ \A i \in 1..Len(q) : q[i] = p[i]
    BY WithinMeans
<1>3. Len(r) <= Len(q) /\ \A i \in 1..Len(r) : r[i] = q[i]
    BY WithinMeans
<1>4. \A i \in 1..Len(r) : r[i] = p[i]
    BY <1>1, <1>2, <1>3
<1> QED
    BY <1>1, <1>2, <1>3, <1>4, WithinMeans

\* Of two paths around a third, the longer is within the other.
LEMMA AroundOne ==
    ASSUME NEW p \in Paths, NEW q \in Paths, NEW r \in Paths,
           Within(p, q), Within(p, r), Len(r) <= Len(q)
    PROVE  Within(q, r)
<1>1. Len(p) \in Nat /\ Len(q) \in Nat /\ Len(r) \in Nat
    BY PolicyAssumption, LenProperties
<1>2. Len(q) <= Len(p) /\ \A i \in 1..Len(q) : q[i] = p[i]
    BY WithinMeans
<1>3. \A i \in 1..Len(r) : r[i] = p[i]
    BY WithinMeans
<1>4. \A i \in 1..Len(r) : r[i] = q[i]
    BY <1>1, <1>2, <1>3
<1> QED
    BY <1>1, <1>4, WithinMeans

\* Among paths around one, there is a longest.
LEMMA LongestExists ==
    ASSUME NEW p \in Paths, NEW S \in SUBSET Paths, S # {},
           \A r \in S : Within(p, r)
    PROVE  \E r \in S : \A q \in S : Within(r, q)
<1> DEFINE Short(r) == Len(p) - Len(r)
<1> DEFINE T == {Short(r) : r \in S}
<1>1. \A r \in S : Len(r) \in Nat /\ Len(r) <= Len(p)
    BY PolicyAssumption, LenProperties, WithinMeans
<1>2. Len(p) \in Nat
    BY PolicyAssumption, LenProperties
<1>3. T \subseteq Nat /\ T # {}
    BY <1>1, <1>2
<1>4. \E n \in T : \A m \in T : ~ (<<m, n>> \in OpToRel(<, Nat))
    <2> HIDE DEF T
    <2> QED
        BY <1>3, WFMin, NatLessThanWellFounded
<1>5. PICK n \in T : \A m \in T : ~ (<<m, n>> \in OpToRel(<, Nat))
    BY <1>4
<1>6. PICK r \in S : n = Short(r)
    BY <1>5
<1>7. ASSUME NEW q \in S
      PROVE  Within(r, q)
    <2>1. Short(q) \in T /\ Short(q) \in Nat /\ n \in Nat
        BY <1>3
    <2>2. ~ (Short(q) < n)
        BY <1>5, <2>1 DEF OpToRel
    <2>3. Len(q) <= Len(r)
        BY <2>2, <1>1, <1>2, <1>6
    <2> QED
        BY <2>3, AroundOne
<1> QED
    BY <1>6, <1>7

\* When a rule covers a path, one of them answers.
LEMMA AnswersExist ==
    ASSUME NEW roots, NEW p \in Paths, Covering(roots, p) # {}
    PROVE  /\ RootFor(roots, p) \in Covering(roots, p)
           /\ \A other \in Covering(roots, p) : Within(RootFor(roots, p), other)
<1>1. \E r \in Covering(roots, p) : \A other \in Covering(roots, p) : Within(r, other)
    BY LongestExists DEF Covering
<1> QED
    BY <1>1 DEF RootFor

Access == None..ReadWrite

LEMMA AccessTypes ==
    ASSUME NEW roots \in [Paths -> Access], NEW p \in Paths
    PROVE  AccessFor(roots, p) \in Access
<1>1. CASE Covering(roots, p) = {}
    BY <1>1 DEF AccessFor, Access, None, ReadWrite
<1>2. CASE Covering(roots, p) # {}
    BY <1>2, AnswersExist DEF AccessFor, Covering
<1> QED
    BY <1>1, <1>2

\* A sandbox whose roots grant no more than another grants there, grants no more
\* anywhere the other does not take back further in.
LEMMA RootsBound ==
    ASSUME NEW roots \in [Paths -> Access], NEW to \in [Paths -> Access],
           NEW p \in Paths,
           \A q \in Paths : to[q] # None /\ Within(p, q) =>
               to[q] <= AccessFor(roots, q) /\ AccessFor(roots, q) <= AccessFor(roots, p)
    PROVE  AccessFor(to, p) <= AccessFor(roots, p)
<1>0. AccessFor(roots, p) \in 0..3 /\ \A q \in Paths : AccessFor(roots, q) \in 0..3 /\ to[q] \in 0..3
    BY AccessTypes DEF Access, None, ReadWrite
<1>1. CASE Covering(to, p) = {}
    BY <1>0, <1>1 DEF AccessFor, None
<1>2. CASE Covering(to, p) # {}
    <2> DEFINE r == RootFor(to, p)
    <2>1. r \in Paths /\ to[r] # None /\ Within(p, r)
        BY <1>2, AnswersExist DEF Covering
    <2>2. to[r] <= AccessFor(roots, r) /\ AccessFor(roots, r) <= AccessFor(roots, p)
        BY <2>1
    <2>3. AccessFor(to, p) = to[r]
        BY <1>2 DEF AccessFor
    <2> HIDE DEF r
    <2> QED
        BY <1>0, <2>1, <2>2, <2>3
<1> QED
    BY <1>1, <1>2

\* The roots of a plan grant no more than the gate grants at them.
LEMMA NarrowRootsBound ==
    ASSUME NEW p \in Plan, NEW roots \in [Paths -> Access]
    PROVE  /\ NarrowRoots(p, roots) \in [Paths -> Access]
           /\ \A q \in Paths : NarrowRoots(p, roots)[q] # None =>
                  NarrowRoots(p, roots)[q] <= AccessFor(roots, q)
<1>1. \A q \in Paths : AccessFor(roots, q) \in 0..3
    BY AccessTypes DEF Access, None, ReadWrite
<1> QED
    BY <1>1 DEF NarrowRoots, Access, None, Read, ReadWrite

-----------------------------------------------------------------------------
\* What a plan is narrowed to grants nothing its gate does not, whatever the plan
\* says and whatever is on the disk.
THEOREM NarrowGrantsNoMore ==
    ASSUME NEW p \in Plan, NEW sandbox \in Sandbox
    PROVE  NarrowsTo(Narrow(p, sandbox), p, sandbox)
<1> DEFINE to == Narrow(p, sandbox)
<1>1. sandbox.roots \in [Paths -> Access]
    BY DEF Sandbox, Access
<1>2. ASSUME Monotone(sandbox.roots), NEW q \in Paths
      PROVE  AccessFor(to.roots, q) <= AccessFor(sandbox.roots, q)
    <2>1. to.roots = NarrowRoots(p, sandbox.roots)
        BY DEF Narrow
    <2>2. \A r \in Paths : Within(q, r) =>
              AccessFor(sandbox.roots, r) <= AccessFor(sandbox.roots, q)
        BY <1>2 DEF Monotone
    <2>3. /\ to.roots \in [Paths -> Access]
          /\ \A r \in Paths : to.roots[r] # None => to.roots[r] <= AccessFor(sandbox.roots, r)
        BY <1>1, <2>1, NarrowRootsBound
    <2> HIDE DEF to
    <2> QED
        BY <1>1, <2>2, <2>3, RootsBound
<1>3. to.commands \subseteq sandbox.commands
    BY DEF Narrow
<1>4. (p.egress = {} \/ to.egress # {}) => HostsOf(to) \subseteq HostsOf(sandbox)
    <2> SUFFICES ASSUME p.egress = {} \/ to.egress # {},
                        NEW h \in Hosts, AllowsDomain(to, {h})
                 PROVE  AllowsDomain(sandbox, {h})
        BY DEF HostsOf
    <2>1. to.egress = NarrowEgress(p, sandbox) /\ sandbox.network
        BY DEF Narrow, AllowsDomain
    <2>2. CASE sandbox.egress = {}
        BY <2>1, <2>2 DEF AllowsDomain
    <2>3. CASE sandbox.egress # {} /\ p.egress = {}
        BY <2>1, <2>3 DEF AllowsDomain, NarrowEgress
    <2>4. CASE sandbox.egress # {} /\ p.egress # {}
        <3>1. to.egress # {}
            BY <2>4
        <3>2. PICK pattern \in to.egress : {h} \subseteq pattern
            BY <3>1 DEF AllowsDomain
        <3>3. AllowsDomain(sandbox, pattern)
            BY <2>1, <2>4, <3>2 DEF NarrowEgress
        <3>4. PICK wider \in sandbox.egress : pattern \subseteq wider
            BY <2>4, <3>3 DEF AllowsDomain
        <3> QED
            BY <2>1, <3>2, <3>4 DEF AllowsDomain
    <2> QED
        BY <2>2, <2>3, <2>4
<1>5. sandbox.enforcement = "kernel" => to.enforcement = "kernel"
    BY DEF Narrow
<1> QED
    BY <1>2, <1>3, <1>4, <1>5 DEF NarrowsTo

-----------------------------------------------------------------------------
LEMMA SandboxTypes ==
    ASSUME NEW roots, NEW s \in Sandbox, roots \in [Paths -> Access]
    PROVE  [s EXCEPT !.roots = roots] \in Sandbox
BY DEF Sandbox, Access

LEMMA WidenTypes ==
    ASSUME NEW roots \in [Paths -> Access], NEW added \in SUBSET Paths
    PROVE  Widen(roots, added) \in [Paths -> Access]
BY DEF Widen, Access, None, ReadWrite

LEMMA ReadOnlyTypes ==
    ASSUME NEW roots \in [Paths -> Access]
    PROVE  ReadOnly(roots) \in [Paths -> Access]
BY DEF ReadOnly, Access, None, Read, ReadWrite

LEMMA FloorTypes ==
    ASSUME NEW s \in Sandbox
    PROVE  FloorOf(s) \in Sandbox
<1>1. s.roots \in [Paths -> Access]
    BY DEF Sandbox, Access
<1>2. ReadOnly(s.roots) \in [Paths -> Access]
    BY <1>1, ReadOnlyTypes
<1>3. Widen(ReadOnly(s.roots), Scratch \cap disk) \in [Paths -> Access]
    BY <1>2, WidenTypes, PolicyAssumption
<1> QED
    BY <1>2, <1>3, SandboxTypes DEF FloorOf

LEMMA GateTypes ==
    ASSUME session \in Sandbox, lists \in Environment, NEW commands \in SUBSET Programs
    PROVE  GateSandbox(commands) \in Sandbox
<1>1. session.roots \in [Paths -> Access]
    BY DEF Sandbox, Access
<1>2. Widen(session.roots, {Base}) \in [Paths -> None..ReadWrite]
    BY <1>1, WidenTypes, PolicyAssumption DEF Access
<1> HIDE DEF Widen
<1> QED
    BY <1>2 DEF GateSandbox, Sandbox, Environment

LEMMA NarrowTypes ==
    ASSUME NEW p \in Plan, NEW s \in Sandbox
    PROVE  Narrow(p, s) \in Sandbox
<1>1. s.roots \in [Paths -> Access]
    BY DEF Sandbox, Access
<1>2. NarrowRoots(p, s.roots) \in [Paths -> None..ReadWrite]
    BY <1>1, NarrowRootsBound DEF Access
<1>3. NarrowEgress(p, s) \in SUBSET Domains
    BY DEF NarrowEgress, Plan, Sandbox
<1>4. p.commands \cap s.commands \in SUBSET Programs
    BY DEF Plan
<1> QED
    BY <1>2, <1>3, <1>4 DEF Narrow, Plan, Sandbox, Enforcement

LEMMA AmendTypes ==
    ASSUME NEW p \in Plan, NEW a \in Amendment, NEW s \in Sandbox,
           NEW c \in Programs \cup {NoProgram}
    PROVE  Amend(p, Permitted(a, s), c) \in Plan
<1>1. Permitted(a, s) \in Amendment
    BY DEF Permitted, Amendment, Enforcement
<1> QED
    BY <1>1 DEF Amend, Plan, Amendment, Enforcement

LEMMA BaseIsItsAncestor == Base \in Ancestors(Base)
<1>1. Base \in Seq(STRING)
    BY PolicyAssumption
<1>2. Len(Base) \in Nat /\ SubSeq(Base, 1, Len(Base)) = Base
    BY <1>1, LenProperties, SubSeqFull
<1>3. Len(Base) \in 0..Len(Base)
    BY <1>2
<1> QED
    BY <1>2, <1>3, Zenon DEF Ancestors

LEMMA AncestorsAreAround ==
    ASSUME NEW p \in Paths, Within(Base, p)
    PROVE  p \in Ancestors(Base)
<1>1. p \in Seq(STRING) /\ Base \in Seq(STRING)
    BY PolicyAssumption
<1>2. Len(p) \in Nat /\ Len(Base) \in Nat /\ SubSeq(p, 1, Len(p)) = p
    BY <1>1, LenProperties, SubSeqFull
<1>3. Len(p) <= Len(Base) /\ SubSeq(p, 1, Len(p)) = SubSeq(Base, 1, Len(p))
    BY DEF Within, IsPrefix
<1>4. p = SubSeq(Base, 1, Len(p)) /\ Len(p) \in 0..Len(Base)
    BY <1>2, <1>3
<1> QED
    BY <1>4, Zenon DEF Ancestors

LEMMA NoSandboxTypes == NoSandbox \in Sandbox
BY DEF NoSandbox, Sandbox, None, ReadWrite, Enforcement

LEMMA InitTypes == Init => TypeOK
<1> SUFFICES ASSUME Init PROVE TypeOK
    OBVIOUS
<1>1. session \in Sandbox /\ lists \in Environment /\ plan \in Plan
    BY PolicyAssumption DEF Init
<1>2. floor \in Sandbox
    BY <1>1, FloorTypes DEF Init
<1>3. proposed \in Programs \cup {NoProgram}
    BY <1>1 DEF Init, Plan
<1> QED
    BY <1>1, <1>2, <1>3, NoSandboxTypes DEF Init, TypeOK

LEMMA NextTypes == TypeOK /\ [Next]_vars => TypeOK'
<1> SUFFICES ASSUME TypeOK, [Next]_vars PROVE TypeOK'
    OBVIOUS
<1>0. plan.commands \in SUBSET Programs
    BY DEF TypeOK, Plan
<1>1. ASSUME NEW a \in Amendments, Approve(a)
      PROVE  TypeOK'
    <2> DEFINE g == GateSandbox(plan.commands \cup a.commands)
    <2>1. a \in Amendment /\ a.commands \in SUBSET Programs
        BY PolicyAssumption DEF Amendment
    <2>2. g \in Sandbox
        BY <1>0, <2>1, GateTypes DEF TypeOK
    <2> HIDE DEF g
    <2>3. ClosingCondition(a, Permitted(a, g), g) \in Programs \cup {NoProgram}
        BY <2>1 DEF ClosingCondition, TypeOK, Plan, Amendment
    <2>4. Amend(plan, Permitted(a, g), ClosingCondition(a, Permitted(a, g), g)) \in Plan
        BY <2>1, <2>2, <2>3, AmendTypes DEF TypeOK
    <2>5. plan' = Amend(plan, Permitted(a, g), ClosingCondition(a, Permitted(a, g), g))
        BY <1>1 DEF Approve, g
    <2> QED
        BY <1>1, <2>4, <2>5 DEF Approve, TypeOK, fixed
<1>2. CASE NarrowJob
    <2>1. narrowed' \in Sandbox
        BY <1>0, <1>2, GateTypes, NarrowTypes DEF NarrowJob, TypeOK
    <2> QED
        BY <1>2, <2>1 DEF NarrowJob, TypeOK, fixed
<1>3. ASSUME NEW p \in Paths \ Ancestors(Base), NarrowUnresolved(p)
      PROVE  TypeOK'
    BY <1>3, BaseIsItsAncestor, NoSandboxTypes DEF NarrowUnresolved, TypeOK, fixed
<1>4. CASE Close
    BY <1>4, NoSandboxTypes DEF Close, TypeOK, fixed
<1>5. ASSUME NEW p \in Paths, Create(p)
      PROVE  TypeOK'
    BY <1>5 DEF Create, TypeOK, fixed
<1>6. ASSUME NEW p \in Paths, Unlink(p)
      PROVE  TypeOK'
    BY <1>6, AncestorsAreAround DEF Unlink, TypeOK, fixed
<1>7. CASE UNCHANGED vars
    BY <1>7 DEF vars, TypeOK
<1> QED
    BY <1>1, <1>2, <1>3, <1>4, <1>5, <1>6, <1>7 DEF Next

\* The types of the session, the job and the disk hold, and the working directory
\* stays there.
THEOREM PolicyTypesHold == Spec => []TypeOK
BY InitTypes, NextTypes, PTL DEF Spec

\* Nothing a job is given, when it is approved or opened again, is past its gate.
THEOREM NothingIsWidened == Spec => NarrowingNeverWidens
<1>1. TypeOK /\ [Next]_vars =>
        [narrowed' \notin {narrowed, NoSandbox} =>
            NarrowsTo(narrowed', plan, GateSandbox(plan.commands))]_vars
    <2> SUFFICES ASSUME TypeOK, Next, narrowed' \notin {narrowed, NoSandbox}
                 PROVE  NarrowsTo(narrowed', plan, GateSandbox(plan.commands))
        BY DEF vars
    <2>1. NarrowJob
        BY DEF Next, Approve, NarrowUnresolved, Close, Create, Unlink
    <2>2. plan \in Plan /\ GateSandbox(plan.commands) \in Sandbox
        BY GateTypes DEF TypeOK, Plan
    <2>3. narrowed' = Narrow(plan, GateSandbox(plan.commands))
        BY <2>1 DEF NarrowJob
    <2> QED
        BY <2>2, <2>3, NarrowGrantsNoMore
<1> QED
    BY <1>1, PolicyTypesHold, PTL DEF Spec, NarrowingNeverWidens

-----------------------------------------------------------------------------
\* What a list of roots grants outside a directory is what it grants without it.
LEMMA WidenedOutside ==
    ASSUME NEW roots \in [Paths -> Access], NEW p \in Paths, ~Within(p, Base)
    PROVE  AccessFor(Widen(roots, {Base}), p) = AccessFor(roots, p)
<1>1. Covering(Widen(roots, {Base}), p) = Covering(roots, p)
    BY DEF Covering, Widen
<1>2. RootFor(Widen(roots, {Base}), p) = RootFor(roots, p)
    BY <1>1 DEF RootFor
<1>3. CASE Covering(roots, p) # {}
    <2>1. RootFor(roots, p) \in Paths /\ RootFor(roots, p) # Base
        BY <1>3, AnswersExist DEF Covering
    <2>2. Widen(roots, {Base})[RootFor(roots, p)] = roots[RootFor(roots, p)]
        BY <2>1 DEF Widen
    <2> QED
        BY <1>1, <1>2, <2>2 DEF AccessFor
<1> QED
    BY <1>1, <1>2, <1>3 DEF AccessFor

LEMMA GateOutside ==
    ASSUME session \in Sandbox, lists \in Environment, NEW commands \in SUBSET Programs,
           NEW p \in Paths, ~Within(p, Base)
    PROVE  AccessFor(GateSandbox(commands).roots, p) = AccessFor(session.roots, p)
<1>1. session.roots \in [Paths -> Access]
    BY DEF Sandbox, Access
<1>2. \/ GateSandbox(commands).roots = session.roots
      \/ GateSandbox(commands).roots = Widen(session.roots, {Base})
    BY DEF GateSandbox, Sandbox
<1> QED
    BY <1>1, <1>2, WidenedOutside

\* The programs a gate may have, whatever is asked of it.
GateCommands ==
    session.commands \cup IF lists.present THEN Programs \ lists.shell_deny ELSE {}

\* Outside the working directory a narrowing is bounded by the session, and so are
\* its programs by the session and its shell list.
LEMMA NarrowStaysInside ==
    ASSUME TypeOK
    PROVE  LET to == Narrow(plan, GateSandbox(plan.commands))
           IN /\ Monotone(session.roots) =>
                    \A p \in Paths : ~Within(p, Base) =>
                        AccessFor(to.roots, p) <= AccessFor(session.roots, p)
              /\ to.commands \subseteq GateCommands
<1> DEFINE g == GateSandbox(plan.commands)
<1> DEFINE to == Narrow(plan, g)
<1>1. plan \in Plan /\ plan.commands \in SUBSET Programs
    BY DEF TypeOK, Plan
<1>2. g \in Sandbox /\ g.roots \in [Paths -> Access] /\ session.roots \in [Paths -> Access]
    BY <1>1, GateTypes DEF TypeOK, Sandbox, Access
<1>3. ASSUME NEW q \in Paths, ~Within(q, Base)
      PROVE  AccessFor(g.roots, q) = AccessFor(session.roots, q)
    BY <1>1, <1>3, GateOutside DEF TypeOK
<1>4. g.commands \subseteq GateCommands
    BY <1>1 DEF GateSandbox, GateCommands, TypeOK, Sandbox
<1> HIDE DEF g
<1>5. to.roots = NarrowRoots(plan, g.roots) /\ to.commands \subseteq g.commands
    BY DEF Narrow
<1>6. /\ to.roots \in [Paths -> Access]
      /\ \A q \in Paths : to.roots[q] # None => to.roots[q] <= AccessFor(g.roots, q)
    BY <1>1, <1>2, <1>5, NarrowRootsBound
<1> HIDE DEF to
<1>7. ASSUME Monotone(session.roots), NEW p \in Paths, ~Within(p, Base)
      PROVE  AccessFor(to.roots, p) <= AccessFor(session.roots, p)
    <2>1. ASSUME NEW q \in Paths, to.roots[q] # None, Within(p, q)
          PROVE  /\ to.roots[q] <= AccessFor(session.roots, q)
                 /\ AccessFor(session.roots, q) <= AccessFor(session.roots, p)
        <3>1. ~Within(q, Base)
            BY <1>7, <2>1, WithinOnceMore, PolicyAssumption
        <3> QED
            BY <1>3, <1>6, <1>7, <2>1, <3>1 DEF Monotone
    <2> QED
        BY <1>2, <1>6, <2>1, RootsBound
<1> QED
    BY <1>4, <1>5, <1>7 DEF to, g

LEMMA NothingIsInside ==
    ASSUME session \in Sandbox
    PROVE  /\ \A p \in Paths : AccessFor(NoSandbox.roots, p) <= AccessFor(session.roots, p)
           /\ NoSandbox.commands = {}
<1>1. session.roots \in [Paths -> Access]
    BY DEF Sandbox, Access
<1>2. ASSUME NEW p \in Paths
      PROVE  AccessFor(NoSandbox.roots, p) = 0
    BY DEF NoSandbox, AccessFor, Covering, None
<1>3. \A p \in Paths : AccessFor(session.roots, p) \in 0..3
    BY <1>1, AccessTypes DEF Access, None, ReadWrite
<1> QED
    BY <1>2, <1>3 DEF NoSandbox

\* The session's policy and its lists bound a job through every approval, close and
\* reopening, whatever happens to the disk in between.
THEOREM TheFileBounds == Spec => []TheFileBoundsTheJob
<1>1. Init => TheFileBoundsTheJob
    <2> SUFFICES ASSUME Init PROVE TheFileBoundsTheJob
        OBVIOUS
    <2>1. session \in Sandbox /\ narrowed = NoSandbox
        BY PolicyAssumption DEF Init
    <2> QED
        BY <2>1, NothingIsInside DEF TheFileBoundsTheJob
<1>2. TypeOK /\ TheFileBoundsTheJob /\ [Next]_vars => TheFileBoundsTheJob'
    <2> SUFFICES ASSUME TypeOK, TheFileBoundsTheJob, [Next]_vars
                 PROVE  TheFileBoundsTheJob'
        OBVIOUS
    <2>1. session' = session /\ lists' = lists
        BY DEF Next, vars, fixed, Approve, NarrowJob, NarrowUnresolved, Close, Create, Unlink
    <2>2. \/ narrowed' = narrowed
          \/ narrowed' = NoSandbox
          \/ narrowed' = Narrow(plan, GateSandbox(plan.commands))
        BY DEF Next, vars, Approve, NarrowJob, NarrowUnresolved, Close, Create, Unlink
    <2>3. CASE narrowed' = narrowed
        BY <2>1, <2>3 DEF TheFileBoundsTheJob
    <2>4. CASE narrowed' = NoSandbox
        BY <2>1, <2>4, NothingIsInside DEF TheFileBoundsTheJob, TypeOK
    <2>5. CASE narrowed' = Narrow(plan, GateSandbox(plan.commands))
        BY <2>1, <2>5, NarrowStaysInside DEF TheFileBoundsTheJob, GateCommands
    <2> QED
        BY <2>2, <2>3, <2>4, <2>5
<1> QED
    BY <1>1, <1>2, PolicyTypesHold, PTL DEF Spec

-----------------------------------------------------------------------------
\* The floor: what it grants over a read is scratch.
LEMMA FloorBound ==
    ASSUME NEW s \in Sandbox, NEW p \in Paths
    PROVE  LET scratch == \E r \in Scratch : Within(p, r)
               f == FloorOf(s)
           IN /\ Writes(f, p) => scratch
              /\ AccessFor(s.roots, p) # None => AccessFor(f.roots, p) # None
              /\ ~scratch => AccessFor(f.roots, p) <= AccessFor(s.roots, p)
<1> DEFINE to == FloorOf(s).roots
<1> DEFINE r == RootFor(to, p)
<1>1. s.roots \in [Paths -> Access]
    BY DEF Sandbox, Access
<1>2. \A q \in Paths :
          /\ q \notin Scratch => to[q] = IF s.roots[q] # None THEN Read ELSE None
          /\ s.roots[q] # None => to[q] # None
    BY <1>1 DEF FloorOf, Widen, ReadOnly, Sandbox, None, Read, ReadWrite
<1>3. AccessFor(s.roots, p) \in 0..3
    BY <1>1, AccessTypes DEF Access, None, ReadWrite
<1>4. AccessFor(s.roots, p) # None => AccessFor(to, p) # None
    <2> SUFFICES ASSUME AccessFor(s.roots, p) # None
                 PROVE  AccessFor(to, p) # None
        OBVIOUS
    <2>1. Covering(s.roots, p) # {}
        BY DEF AccessFor
    <2>2. Covering(to, p) # {}
        BY <1>2, <2>1 DEF Covering
    <2>3. RootFor(to, p) \in Covering(to, p)
        BY <2>2, AnswersExist
    <2> QED
        BY <2>2, <2>3 DEF AccessFor, Covering
<1>5. ASSUME ~ \E q \in Scratch : Within(p, q), Covering(to, p) # {}
      PROVE  AccessFor(to, p) = Read /\ AccessFor(s.roots, p) # None
    <2>1. r \in Paths /\ to[r] # None /\ Within(p, r)
        BY <1>5, AnswersExist DEF Covering
    <2>2. r \notin Scratch
        BY <1>5, <2>1
    <2>3. to[r] = Read /\ s.roots[r] # None
        BY <1>2, <2>1, <2>2
    <2>4. AccessFor(to, p) = Read
        BY <1>5, <2>3 DEF AccessFor
    <2>5. Covering(s.roots, p) # {}
        BY <2>1, <2>3 DEF Covering
    <2>6. RootFor(s.roots, p) \in Covering(s.roots, p)
        BY <2>5, AnswersExist
    <2>7. AccessFor(s.roots, p) # None
        BY <2>5, <2>6 DEF AccessFor, Covering
    <2> QED
        BY <2>4, <2>7
<1>6. Covering(to, p) = {} => AccessFor(to, p) = None
    BY DEF AccessFor
<1> HIDE DEF to
<1>7. FloorOf(s).roots = to
    BY DEF to
<1> QED
    BY <1>3, <1>4, <1>5, <1>6, <1>7 DEF Writes, None, Read, ReadWrite

\* A turn nobody approved writes scratch only and reads what the session reads.
THEOREM TheFloorHolds == Spec => []TheFloorWritesScratchOnly
<1>1. Init => TheFloorWritesScratchOnly
    BY FloorBound, PolicyAssumption DEF Init, TheFloorWritesScratchOnly
<1>2. TheFloorWritesScratchOnly /\ [Next]_vars => TheFloorWritesScratchOnly'
    <2>1. [Next]_vars => UNCHANGED <<session, floor>>
        BY DEF Next, vars, fixed, Approve, NarrowJob, NarrowUnresolved, Close, Create, Unlink
    <2> QED
        BY <2>1 DEF TheFloorWritesScratchOnly, Writes
<1> QED
    BY <1>1, <1>2, PTL DEF Spec

-----------------------------------------------------------------------------
\* What closes a job is what its plan said when it was offered, or a program of the
\* plan that the gate grants.
ConditionIsGranted ==
    plan.closes_on = proposed \/ plan.closes_on \in plan.commands \cap GateCommands

LEMMA GateGrants ==
    ASSUME TypeOK, NEW commands \in SUBSET Programs
    PROVE  /\ GateSandbox(commands).commands \subseteq GateCommands
           /\ Resolves(session.roots) =>
                 commands \cap GateCommands \subseteq GateSandbox(commands).commands
<1>1. Resolves(session.roots) => Resolves(Widen(session.roots, {Base}))
    BY DEF Resolves, Widen, TypeOK, Sandbox
<1> HIDE DEF Resolves, Widen
<1> QED
    BY <1>1 DEF GateSandbox, GateCommands, TypeOK, Sandbox, Environment

LEMMA ConditionStays ==
    ASSUME TypeOK, ConditionIsGranted, [Next]_vars
    PROVE  ConditionIsGranted'
<1>1. session' = session /\ lists' = lists /\ proposed' = proposed
    BY DEF Next, vars, fixed, Approve, NarrowJob, NarrowUnresolved, Close, Create, Unlink
<1>2. ASSUME NEW a \in Amendments, Approve(a)
      PROVE  ConditionIsGranted'
    <2> DEFINE g == GateSandbox(plan.commands \cup a.commands)
    <2> DEFINE granted == Permitted(a, g)
    <2>1. plan.commands \cup a.commands \in SUBSET Programs
        BY PolicyAssumption DEF TypeOK, Plan, Amendment
    <2>2. g.commands \subseteq GateCommands
        BY <2>1, GateGrants DEF GateCommands
    <2>3. plan' = Amend(plan, granted, ClosingCondition(a, granted, g))
        BY <1>2 DEF Approve
    <2> HIDE DEF g, granted
    <2>4. /\ plan'.commands = plan.commands \cup granted.commands
          /\ plan'.closes_on = ClosingCondition(a, granted, g)
        BY <2>3 DEF Amend
    <2>5. \/ plan'.closes_on = plan.closes_on
          \/ plan'.closes_on \in plan'.commands \cap g.commands
        BY <2>4 DEF ClosingCondition
    <2> QED
        BY <1>1, <2>2, <2>4, <2>5 DEF ConditionIsGranted, GateCommands
<1>3. CASE plan' = plan
    BY <1>1, <1>3 DEF ConditionIsGranted, GateCommands
<1>4. plan' = plan \/ \E a \in Amendments : Approve(a)
    BY DEF Next, vars, NarrowJob, NarrowUnresolved, Close, Create, Unlink
<1> QED
    BY <1>2, <1>3, <1>4

\* A job may run what a person at the gate made it close on, each time it opens
\* with the session's roots in place, whatever the model's own plan closes on.
THEOREM TheConditionRuns == Spec => TheConditionCanRun
<1>1. Init => ConditionIsGranted
    BY PolicyAssumption DEF Init, ConditionIsGranted
<1>2. TypeOK /\ ConditionIsGranted /\ [Next]_vars =>
        [narrowed' \notin {narrowed, NoSandbox} /\ Resolves(session.roots) =>
            plan.closes_on \in narrowed'.commands \cup {proposed}]_vars
    <2> SUFFICES ASSUME TypeOK, ConditionIsGranted, Next,
                        narrowed' \notin {narrowed, NoSandbox}, Resolves(session.roots)
                 PROVE  plan.closes_on \in narrowed'.commands \cup {proposed}
        BY DEF vars
    <2>1. narrowed' = Narrow(plan, GateSandbox(plan.commands))
        BY DEF Next, Approve, NarrowJob, NarrowUnresolved, Close, Create, Unlink
    <2>2. narrowed'.commands = plan.commands \cap GateSandbox(plan.commands).commands
        BY <2>1 DEF Narrow
    <2>3. plan.commands \in SUBSET Programs
        BY DEF TypeOK, Plan
    <2>4. plan.commands \cap GateCommands \subseteq
              GateSandbox(plan.commands).commands
        BY <2>3, GateGrants
    <2> QED
        BY <2>2, <2>4 DEF ConditionIsGranted
<1>3. Spec => []ConditionIsGranted
    BY <1>1, ConditionStays, PolicyTypesHold, PTL DEF Spec
<1> QED
    BY <1>2, <1>3, PolicyTypesHold, PTL DEF Spec, TheConditionCanRun

-----------------------------------------------------------------------------
\* What a yes may widen the session to is the session, outside its directory.
LEMMA WiderOutside ==
    ASSUME session \in Sandbox
    PROVE  /\ Wider \in Sandbox
           /\ Wider.commands = session.commands
           /\ \A p \in Paths : ~Within(p, Base) =>
                  AccessFor(Wider.roots, p) = AccessFor(session.roots, p)
<1>1. session.roots \in [Paths -> Access]
    BY DEF Sandbox, Access
<1>2. Widen(session.roots, {Base}) \in [Paths -> Access]
    BY <1>1, WidenTypes, PolicyAssumption
<1>3. PICK roots \in {session.roots, Widen(session.roots, {Base})} :
         Wider = [session EXCEPT !.roots = roots]
    BY DEF Wider
<1>4. Wider \in Sandbox
    BY <1>1, <1>2, <1>3, SandboxTypes
<1>5. Wider.roots = roots /\ Wider.commands = session.commands
    BY <1>3 DEF Sandbox
<1>6. \A p \in Paths : ~Within(p, Base) =>
          AccessFor(roots, p) = AccessFor(session.roots, p)
    BY <1>1, <1>3, WidenedOutside
<1> QED
    BY <1>4, <1>5, <1>6

\* Nobody is asked about a command but that a yes runs it, and gives nothing else
\* outside the working directory.
LEMMA CommandsAreAskedFor ==
    ASSUME TypeOK, NEW c \in Programs, NEW under \in Sandbox,
           EscalatesCommand(c, under) # NoSandbox
    PROVE  LET given == EscalatesCommand(c, under)
           IN /\ ~PrepareCommand(under, c) /\ PrepareCommand(given, c)
              /\ c \notin lists.shell_deny
              /\ \A p \in Paths : ~Within(p, Base) =>
                    AccessFor(given.roots, p) = AccessFor(session.roots, p)
<1> DEFINE asked == [Wider EXCEPT !.commands = @ \cup {c}]
<1> DEFINE given == EscalatesCommand(c, under)
<1>1. /\ ~PrepareCommand(under, c) /\ c \notin lists.shell_deny
      /\ given = IF PrepareCommand(asked, c) THEN asked
                 ELSE [asked EXCEPT !.enforcement = "best_effort"]
    BY DEF EscalatesCommand
<1>2. /\ Wider \in Sandbox
      /\ \A p \in Paths : ~Within(p, Base) =>
             AccessFor(Wider.roots, p) = AccessFor(session.roots, p)
    BY WiderOutside DEF TypeOK
<1> HIDE DEF Wider
<1>3. /\ asked.roots = Wider.roots /\ c \in asked.commands
      /\ [asked EXCEPT !.enforcement = "best_effort"].roots = Wider.roots
      /\ c \in [asked EXCEPT !.enforcement = "best_effort"].commands
      /\ [asked EXCEPT !.enforcement = "best_effort"].enforcement = "best_effort"
    BY <1>2 DEF Sandbox
<1> HIDE DEF asked, given
<1>4. PrepareCommand(given, c)
    BY <1>1, <1>3 DEF PrepareCommand
<1>5. given.roots = Wider.roots
    BY <1>1, <1>3
<1> QED
    BY <1>1, <1>2, <1>4, <1>5 DEF given

\* A person is only asked what a yes would change, and a yes gives nothing outside
\* the working directory that the session does not have.
THEOREM AYesIsWorthAsking == Spec => []AYesChangesTheAnswer
<1>1. TypeOK => AYesChangesTheAnswer
    <2> SUFFICES ASSUME TypeOK PROVE AYesChangesTheAnswer
        OBVIOUS
    <2>1. ASSUME NEW p \in Paths, EscalatesWrite(p, floor) # NoSandbox
          PROVE  Within(p, Base) \/ Writes(session, p)
        <3>1. Writes(Wider, p)
            BY <2>1 DEF EscalatesWrite
        <3> QED
            BY <3>1, WiderOutside DEF Writes, TypeOK
    <2>2. floor \in Sandbox
        BY DEF TypeOK
    <2> QED
        BY <2>1, <2>2, CommandsAreAskedFor DEF AYesChangesTheAnswer
<1> QED
    BY <1>1, PolicyTypesHold, PTL

-----------------------------------------------------------------------------
\* The root of the tree stays on the disk: nothing removes what the working
\* directory is in.
RootIsThere == <<>> \in disk

LEMMA RootIsAbove ==
    ASSUME <<>> \in Paths, NEW p \in Paths
    PROVE  Within(p, <<>>) /\ (Within(<<>>, p) => p = <<>>)
<1>1. p \in Seq(STRING) /\ Len(p) \in Nat /\ Len(<<>>) = 0
    BY PolicyAssumption, LenProperties
<1>2. Within(p, <<>>)
    BY <1>1, WithinMeans
<1>3. ASSUME Within(<<>>, p) PROVE p = <<>>
    <2>1. Len(p) <= 0
        BY <1>1, <1>3, WithinMeans
    <2> QED
        BY <1>1, <2>1
<1> QED
    BY <1>2, <1>3

LEMMA RootIsAnAncestor == <<>> \in Ancestors(Base)
<1>1. Base \in Seq(STRING) /\ Len(Base) \in Nat
    BY PolicyAssumption, LenProperties
<1>2. SubSeq(Base, 1, 0) = <<>>
    BY <1>1, SubSeqEmpty
<1>3. 0 \in 0..Len(Base)
    BY <1>1
<1> QED
    BY <1>2, <1>3, Zenon DEF Ancestors

LEMMA RootStays == TypeOK /\ RootIsThere /\ [Next]_vars => RootIsThere'
<1> SUFFICES ASSUME TypeOK, RootIsThere, [Next]_vars PROVE RootIsThere'
    OBVIOUS
<1>1. ASSUME NEW p \in Paths, Unlink(p)
      PROVE  <<>> \in disk'
    BY <1>1, RootIsAbove, RootIsAnAncestor DEF Unlink, RootIsThere, TypeOK
<1>2. ASSUME NEW p \in Paths \ Ancestors(Base), NarrowUnresolved(p)
      PROVE  <<>> \in disk'
    BY <1>2, RootIsAnAncestor DEF NarrowUnresolved, RootIsThere
<1> QED
    BY <1>1, <1>2 DEF RootIsThere, Next, vars, Approve, NarrowJob, Close, Create

\* What is to be written has a nearest path that exists, and that is below every
\* other that does.
LEMMA NearestExists ==
    ASSUME TypeOK, RootIsThere, NEW path \in Paths
    PROVE  /\ NearestExisting(path) \in disk /\ Within(path, NearestExisting(path))
           /\ \A q \in disk : Within(path, q) => Within(NearestExisting(path), q)
<1> DEFINE S == {q \in disk : Within(path, q)}
<1>1. S \in SUBSET Paths /\ <<>> \in S
    BY RootIsAbove DEF TypeOK, RootIsThere
<1>2. \E r \in S : \A q \in S : Within(r, q)
    BY <1>1, LongestExists
<1>3. \E r \in disk : /\ Within(path, r)
                      /\ \A q \in disk : Within(path, q) => Within(r, q)
    BY <1>2
<1> QED
    BY <1>3 DEF NearestExisting

\* With every root on the disk, what is granted at a path is granted at the nearest
\* one that exists.
LEMMA NearestIsGranted ==
    ASSUME TypeOK, RootIsThere, NEW roots \in [Paths -> Access], Resolves(roots),
           NEW path \in Paths
    PROVE  AccessFor(roots, NearestExisting(path)) = AccessFor(roots, path)
<1> DEFINE n == NearestExisting(path)
<1>1. /\ n \in disk /\ n \in Paths /\ Within(path, n)
      /\ \A q \in disk : Within(path, q) => Within(n, q)
    BY NearestExists DEF TypeOK
<1> HIDE DEF n
<1>2. Covering(roots, n) = Covering(roots, path)
    BY <1>1, WithinOnceMore DEF Covering, Resolves
<1> QED
    BY <1>2 DEF AccessFor, RootFor, n

\* A plan that is narrowed gets what it said, where its gate grants it.
LEMMA NarrowGrantsWhatIsSaid ==
    ASSUME TypeOK, RootIsThere, NEW p \in Plan, NEW sandbox \in Sandbox
    PROVE  GetsWhatItSaid(Narrow(p, sandbox), p, sandbox)
<1> DEFINE to == Narrow(p, sandbox).roots
<1> DEFINE read == {f \in p.files \cap disk : AccessFor(sandbox.roots, f) # None}
<1> DEFINE written == {w \in {NearestExisting(q) : q \in p.writes} :
                           AccessFor(sandbox.roots, w) = ReadWrite}
<1>1. /\ sandbox.roots \in [Paths -> Access]
      /\ p.files \subseteq Paths /\ p.writes \subseteq Paths /\ disk \subseteq Paths
    BY DEF Sandbox, Access, Plan, TypeOK
<1>2. \A q \in Paths : to[q] = IF q \in read THEN Read
                               ELSE IF q \in written THEN ReadWrite ELSE None
    BY DEF Narrow, NarrowRoots
<1>3. \A w \in p.writes : AccessFor(sandbox.roots, NearestExisting(w)) = ReadWrite
                              => NearestExisting(w) \in written
    OBVIOUS
<1>4. read \subseteq p.files \cap disk
      /\ \A f \in p.files \cap disk : AccessFor(sandbox.roots, f) # None => f \in read
    OBVIOUS
<1>5. Narrow(p, sandbox).roots = to
    OBVIOUS
<1> HIDE DEF to, read, written
<1>6. ASSUME NEW f \in p.files \cap disk, AccessFor(sandbox.roots, f) # None
      PROVE  AccessFor(to, f) # None
    <2>1. f \in Paths /\ to[f] = Read
        BY <1>1, <1>2, <1>4, <1>6
    <2>2. f \in Covering(to, f)
        BY <2>1, WithinItself DEF Covering, Read, None
    <2>3. RootFor(to, f) \in Covering(to, f)
        BY <2>1, <2>2, AnswersExist
    <2> QED
        BY <2>2, <2>3 DEF AccessFor, Covering
<1>7. ASSUME Resolves(sandbox.roots), NEW w \in p.writes,
             AccessFor(sandbox.roots, w) = ReadWrite, Undisturbed(p, w)
      PROVE  AccessFor(to, w) = ReadWrite
    <2> DEFINE n == NearestExisting(w)
    <2>1. /\ w \in Paths /\ n \in disk /\ n \in Paths /\ Within(w, n)
        BY <1>1, NearestExists
    <2>2. n \in written
        BY <1>1, <1>3, <1>7, <2>1, NearestIsGranted
    <2>3. \A f \in read : ~(Within(w, f) /\ Within(f, n))
        BY <1>4, <1>7 DEF Undisturbed
    <2> HIDE DEF n
    <2>4. n \in Covering(to, w)
        BY <1>2, <2>1, <2>2, <2>3 DEF Covering, Read, ReadWrite, None
    <2> DEFINE r == RootFor(to, w)
    <2>5. /\ r \in Paths /\ to[r] # None /\ Within(w, r) /\ Within(r, n)
        BY <2>1, <2>4, AnswersExist DEF Covering
    <2>6. to[r] = ReadWrite
        BY <1>2, <2>3, <2>5
    <2> QED
        BY <2>4, <2>6 DEF AccessFor
<1> QED
    BY <1>5, <1>6, <1>7 DEF GetsWhatItSaid, Writes

\* Each time a job opens, its plan reads what is there and writes what it writes,
\* as far as the gate grants it: also what is not there yet.
THEOREM PlansGetWhatTheySaid == Spec => APlanGetsWhatItSaid
<1>1. Init => RootIsThere
    BY RootIsAnAncestor DEF Init, RootIsThere
<1>2. Spec => []RootIsThere
    BY <1>1, RootStays, PolicyTypesHold, PTL DEF Spec
<1>3. TypeOK /\ RootIsThere /\ [Next]_vars =>
        [narrowed' \notin {narrowed, NoSandbox} =>
            GetsWhatItSaid(narrowed', plan, GateSandbox(plan.commands))]_vars
    <2> SUFFICES ASSUME TypeOK, RootIsThere, Next, narrowed' \notin {narrowed, NoSandbox}
                 PROVE  GetsWhatItSaid(narrowed', plan, GateSandbox(plan.commands))
        BY DEF vars
    <2>1. NarrowJob
        BY DEF Next, Approve, NarrowUnresolved, Close, Create, Unlink
    <2>2. plan \in Plan /\ GateSandbox(plan.commands) \in Sandbox
        BY GateTypes DEF TypeOK, Plan
    <2>3. narrowed' = Narrow(plan, GateSandbox(plan.commands))
        BY <2>1 DEF NarrowJob
    <2> QED
        BY <2>2, <2>3, NarrowGrantsWhatIsSaid
<1> QED
    BY <1>2, <1>3, PolicyTypesHold, PTL DEF Spec, APlanGetsWhatItSaid

=============================================================================
