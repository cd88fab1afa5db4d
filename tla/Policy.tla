------------------------------- MODULE Policy -------------------------------
(***************************************************************************)
(* What a job may touch: the session's sandbox (sandbox/mod.rs), the plan     *)
(* that is narrowed out of it when a person approves it (job.rs), the gate    *)
(* that says how far such a plan may go (session.rs), the floor of a turn     *)
(* nobody approved, and what a person may be asked there (grants.rs).         *)
(*                                                                         *)
(* A path is the sequence of its names, resolved: no links.  A pattern of     *)
(* domains is the set of the hosts it matches.  A program is its name.  The   *)
(* roots a child needs to start at all, which no check of a path looks at,    *)
(* are left out.                                                            *)
(***************************************************************************)
EXTENDS Integers, SequencesExt

CONSTANTS
    Paths,      \* the tree of paths, with every parent of its members
    Base,       \* the session's working directory
    Scratch,    \* what a draft may write: its own scratch, and the system's
    Programs,
    Hosts,
    Sessions,   \* the sandboxes a session may have
    Lists,      \* what its environment denies, if it was made from one
    Plans,      \* what the model may propose
    Amendments, \* what a person may add at the gate
    Kernel      \* whether this kernel can hold a child

None == 0       \* no rule
Read == 1
Execute == 2
ReadWrite == 3

NoProgram == "no program"
Domains == SUBSET Hosts \ {{}}
Enforcement == {"kernel", "best_effort", "unsaid"}

\* The roots of a sandbox: each path with the first rule that names it.
Sandbox == [roots : [Paths -> None..ReadWrite], commands : SUBSET Programs,
            network : BOOLEAN, egress : SUBSET Domains, enforcement : Enforcement]

Plan == [files : SUBSET Paths, writes : SUBSET Paths, commands : SUBSET Programs,
         closes_on : Programs \cup {NoProgram}, network : BOOLEAN,
         egress : SUBSET Domains, enforcement : Enforcement]

\* The same, with what it says about the network said or not.
Amendment == [files : SUBSET Paths, writes : SUBSET Paths, commands : SUBSET Programs,
              closes_on : Programs \cup {NoProgram}, network : {"on", "off", "unsaid"},
              egress : SUBSET Domains, enforcement : Enforcement]

\* The files list denies nothing: check_files refuses one that does.
Environment == [present : BOOLEAN, shell_deny : SUBSET Programs,
                network_deny : SUBSET Hosts]

ASSUME PolicyAssumption ==
    /\ Paths \subseteq Seq(STRING)
    /\ \A p \in Paths : \A n \in 0..Len(p) : SubSeq(p, 1, n) \in Paths
    /\ Base \in Paths /\ Scratch \subseteq Paths
    /\ NoProgram \notin Programs
    /\ Sessions \subseteq Sandbox /\ Lists \subseteq Environment
    /\ Plans \subseteq Plan
    /\ Amendments \subseteq Amendment
    /\ Kernel \in BOOLEAN

VARIABLES
    session,    \* Agency.sandbox
    lists,      \* Agency.environment
    floor,      \* Agency.floor
    proposed,   \* what the model said the job closes on, which nobody looks at
    disk,       \* the paths that exist
    stage,      \* the job: "offered", "approved", "open", "closed"
    plan,       \* the plan on the table, then the job's
    narrowed    \* Session.narrowed, or NoSandbox: the floor

vars == <<session, lists, floor, proposed, disk, stage, plan, narrowed>>

NoSandbox == [roots |-> [p \in Paths |-> None], commands |-> {}, network |-> FALSE,
              egress |-> {}, enforcement |-> "unsaid"]

(***************************************************************************)
(* A sandbox: which rule answers, and what it says.                          *)
(***************************************************************************)
Within(path, root) == IsPrefix(root, path)

Covering(roots, path) == {root \in Paths : roots[root] # None /\ Within(path, root)}

\* The most specific rule answers, also where it grants less.
RootFor(roots, path) ==
    CHOOSE root \in Covering(roots, path) :
        \A other \in Covering(roots, path) : Within(root, other)

AccessFor(roots, path) ==
    IF Covering(roots, path) = {} THEN None ELSE roots[RootFor(roots, path)]

\* An empty filter is no filter.
AllowsDomain(sandbox, domain) ==
    /\ sandbox.network
    /\ sandbox.egress = {} \/ \E pattern \in sandbox.egress : domain \subseteq pattern

PrepareCommand(sandbox, program) ==
    /\ program \in sandbox.commands
    /\ Kernel \/ sandbox.enforcement = "best_effort"

\* Every root has to be there when a sandbox is made.
Resolves(roots) == \A root \in Paths : roots[root] # None => root \in disk

\* A path already there takes the greater access.
Widen(roots, added) ==
    [root \in Paths |-> IF root \in added THEN ReadWrite ELSE roots[root]]

(***************************************************************************)
(* The floor of a draft, and the ceiling of what is asked under it.           *)
(***************************************************************************)
ReadOnly(roots) == [root \in Paths |-> IF roots[root] # None THEN Read ELSE None]

\* Mutant: what may be written is added to what the session has.
FloorOfTheSession(sandbox) ==
    [sandbox EXCEPT !.roots = Widen(@, Scratch \cap disk)]

FloorOf(sandbox) ==
    LET widened == Widen(ReadOnly(sandbox.roots), Scratch \cap disk)
    IN [sandbox EXCEPT !.roots = IF Resolves(widened) THEN widened ELSE ReadOnly(@)]

Wider == [session EXCEPT !.roots =
            IF Resolves(Widen(@, {Base})) THEN Widen(@, {Base}) ELSE @]

Writes(sandbox, path) == AccessFor(sandbox.roots, path) = ReadWrite

\* What a refused write, and a refused command, would run under if a person
\* said yes; NoSandbox when nobody is asked.
EscalatesWrite(path, under) ==
    IF \/ Writes(under, path)
       \/ ~Writes(Wider, path)
    THEN NoSandbox ELSE Wider

\* Mutant: a yes is not asked past what the kernel cannot hold.
EscalatesHeldCommand(program, under) ==
    IF \/ program \in lists.shell_deny
       \/ PrepareCommand(under, program)
    THEN NoSandbox
    ELSE [Wider EXCEPT !.commands = @ \cup {program}]

EscalatesCommand(program, under) ==
    IF \/ program \in lists.shell_deny
       \/ PrepareCommand(under, program)
       \/ ~Resolves(Wider.roots)
    THEN NoSandbox
    ELSE LET asked == [Wider EXCEPT !.commands = @ \cup {program}]
         IN IF PrepareCommand(asked, program) THEN asked
            ELSE [asked EXCEPT !.enforcement = "best_effort"]

(***************************************************************************)
(* The gate: the session, and what its lists leave to a person.               *)
(***************************************************************************)
\* Mutant: what the shell list denies is left to the person too.
GateOfEverything(commands) ==
    IF ~lists.present THEN session
    ELSE [session EXCEPT !.roots = Widen(@, {Base}), !.commands = @ \cup commands]

GateSandbox(commands) ==
    LET open == lists.network_deny = {}
        roots == Widen(session.roots, {Base})
    IN IF ~lists.present \/ ~Resolves(roots) THEN session
       ELSE [session EXCEPT !.roots = roots,
                            !.commands = @ \cup (commands \ lists.shell_deny),
                            !.network = @ \/ open,
                            !.egress = IF open THEN {} ELSE @]

(***************************************************************************)
(* Narrowing.                                                              *)
(***************************************************************************)
\* A write of what is not there is a write to what will hold it.
NearestExisting(path) ==
    CHOOSE p \in disk : /\ Within(path, p)
                        /\ \A q \in disk : Within(path, q) => Within(p, q)

\* Mutant: a path gets what the plan says of it.
NarrowRootsAsSaid(p, roots) ==
    [q \in Paths |-> IF q \in p.files THEN Read
                     ELSE IF q \in p.writes THEN ReadWrite ELSE None]

\* Mutant: a write of what is not there yet grants nothing.
NarrowRootsThatExist(p, roots) ==
    [q \in Paths |->
        IF q \in p.files \cap disk /\ AccessFor(roots, q) # None THEN Read
        ELSE IF q \in p.writes \cap disk /\ AccessFor(roots, q) = ReadWrite THEN ReadWrite
        ELSE None]

\* A file is read first: the first rule of a path is the one that answers.
NarrowRoots(p, roots) ==
    LET read == {f \in p.files \cap disk : AccessFor(roots, f) # None}
        written == {w \in {NearestExisting(q) : q \in p.writes} :
                        AccessFor(roots, w) = ReadWrite}
    IN [q \in Paths |-> IF q \in read THEN Read
                        ELSE IF q \in written THEN ReadWrite ELSE None]

NarrowEgress(p, sandbox) ==
    IF p.egress = {} THEN sandbox.egress
    ELSE IF sandbox.egress = {} THEN p.egress
    ELSE {domain \in p.egress : AllowsDomain(sandbox, domain)}

Narrow(p, sandbox) ==
    [roots |-> NarrowRoots(p, sandbox.roots),
     commands |-> p.commands \cap sandbox.commands,
     network |-> sandbox.network /\ (p.network \/ p.egress # {}),
     egress |-> NarrowEgress(p, sandbox),
     enforcement |-> IF sandbox.enforcement = "kernel" THEN "kernel"
                     ELSE IF p.enforcement # "unsaid" THEN p.enforcement
                     ELSE sandbox.enforcement]

(***************************************************************************)
(* A job.                                                                  *)
(***************************************************************************)
Ancestors(p) == {SubSeq(p, 1, n) : n \in 0..Len(p)}

Init ==
    /\ session \in Sessions /\ lists \in Lists
    /\ lists.present => /\ session.commands \cap lists.shell_deny = {}
                        /\ AccessFor(session.roots, Base) # None
    /\ disk \in SUBSET Paths
    /\ \A p \in disk : Ancestors(p) \subseteq disk
    /\ Base \in disk /\ \A s \in Scratch : Within(s, Base) => s \in disk
    /\ Resolves(session.roots)
    /\ floor = FloorOf(session)
    /\ stage = "offered"
    /\ plan \in Plans /\ proposed = plan.closes_on
    /\ narrowed = NoSandbox

fixed == <<session, lists, floor, proposed>>

\* What of an amendment the gate grants; the rest is dropped, and said so.
Permitted(a, sandbox) ==
    [a EXCEPT !.files = {f \in @ : AccessFor(sandbox.roots, f) # None},
              !.writes = {w \in @ : AccessFor(sandbox.roots, w) = ReadWrite},
              !.commands = @ \cap sandbox.commands,
              !.network = IF @ = "on" /\ ~sandbox.network THEN "off" ELSE @,
              !.egress = {d \in @ : AllowsDomain(sandbox, d)},
              !.enforcement = IF @ = "best_effort" /\ sandbox.enforcement = "kernel"
                              THEN "unsaid" ELSE @]

\* Mutant: a closing condition is taken from what the plan says.
ConditionAsSaid(a, granted, sandbox) ==
    IF a.closes_on \in plan.commands \cup granted.commands
    THEN a.closes_on ELSE plan.closes_on

\* One the job may not run is dropped.
ClosingCondition(a, granted, sandbox) ==
    IF a.closes_on \in (plan.commands \cup granted.commands) \cap sandbox.commands
    THEN a.closes_on ELSE plan.closes_on

Amend(p, granted, closes_on) ==
    [files |-> p.files \cup granted.files,
     writes |-> p.writes \cup granted.writes,
     commands |-> p.commands \cup granted.commands,
     closes_on |-> closes_on,
     network |-> IF granted.egress # {} \/ granted.network = "on" THEN TRUE
                 ELSE p.network /\ granted.network # "off",
     egress |-> p.egress \cup granted.egress,
     enforcement |-> IF granted.enforcement # "unsaid" THEN granted.enforcement
                     ELSE p.enforcement]

Approve(a) ==
    /\ stage = "offered"
    /\ LET sandbox == GateSandbox(plan.commands \cup a.commands)
           granted == Permitted(a, sandbox)
       IN plan' = Amend(plan, granted, ClosingCondition(a, granted, sandbox))
    /\ stage' = "approved"
    /\ UNCHANGED <<fixed, disk, narrowed>>

\* Of a job that was approved, and of one that is reopened.
NarrowJob ==
    /\ stage \in {"approved", "closed"}
    /\ narrowed' = Narrow(plan, GateSandbox(plan.commands))
    /\ stage' = "open"
    /\ UNCHANGED <<fixed, disk, plan>>

\* A path that stops existing between the look and the making of the sandbox
\* leaves the job on the floor.
NarrowUnresolved(path) ==
    /\ stage \in {"approved", "closed"}
    /\ path \in disk
    /\ \A q \in disk : Within(q, path) => q = path
    /\ Narrow(plan, GateSandbox(plan.commands)).roots[path] # None
    /\ disk' = disk \ {path}
    /\ narrowed' = NoSandbox
    /\ stage' = "open"
    /\ UNCHANGED <<fixed, plan>>

Close ==
    /\ stage = "open"
    /\ stage' = "closed"
    /\ narrowed' = NoSandbox
    /\ UNCHANGED <<fixed, disk, plan>>

\* The tools of the job, the person and everybody else write to the disk.
Create(path) ==
    /\ path \in Paths \ disk
    /\ Ancestors(path) \ {path} \subseteq disk
    /\ disk' = disk \cup {path}
    /\ UNCHANGED <<fixed, stage, plan, narrowed>>

Unlink(path) ==
    /\ path \in disk \ Ancestors(Base)
    /\ disk' = {q \in disk : ~Within(q, path)}
    /\ UNCHANGED <<fixed, stage, plan, narrowed>>

Next ==
    \/ \E a \in Amendments : Approve(a)
    \/ NarrowJob
    \/ \E p \in Paths \ Ancestors(Base) : NarrowUnresolved(p)
    \/ Close
    \/ \E p \in Paths : Create(p) \/ Unlink(p)

Spec == Init /\ [][Next]_vars

(***************************************************************************)
(* Properties.                                                             *)
(***************************************************************************)
TypeOK ==
    /\ session \in Sandbox /\ floor \in Sandbox /\ narrowed \in Sandbox
    /\ lists \in Environment
    /\ disk \subseteq Paths /\ Base \in disk
    /\ stage \in {"offered", "approved", "open", "closed"}
    /\ plan \in Plan /\ proposed \in Programs \cup {NoProgram}

\* A rule under another grants more: what Sandbox::new says of its order.
Monotone(roots) ==
    \A p, q \in Paths : Within(p, q) => AccessFor(roots, q) <= AccessFor(roots, p)

HostsOf(sandbox) == {h \in Hosts : AllowsDomain(sandbox, {h})}

\* What a job gets when it is approved or reopened is nothing its gate does not
\* grant: no path, no level, no program, no host, no looser hold (Plan::narrow).
\* A gate with a rule that takes back what the one around it grants is left out,
\* and a plan none of whose domains the gate grants: see the findings.
NarrowsTo(to, p, sandbox) ==
    /\ Monotone(sandbox.roots) =>
          \A q \in Paths : AccessFor(to.roots, q) <= AccessFor(sandbox.roots, q)
    /\ to.commands \subseteq sandbox.commands
    /\ (p.egress = {} \/ to.egress # {}) => HostsOf(to) \subseteq HostsOf(sandbox)
    /\ sandbox.enforcement = "kernel" => to.enforcement = "kernel"

NarrowingNeverWidens ==
    [][narrowed' \notin {narrowed, NoSandbox} =>
          NarrowsTo(narrowed', plan, GateSandbox(plan.commands))]_vars

\* Whatever the gate is, the file and its lists bound the job: outside the working
\* directory a job may not do more than the session, and no program its shell list
\* denies is granted unless the session has it (gate_sandbox: "still the outer
\* bound: nothing past it").
TheFileBoundsTheJob ==
    /\ Monotone(session.roots) =>
          \A p \in Paths : ~Within(p, Base) =>
              AccessFor(narrowed.roots, p) <= AccessFor(session.roots, p)
    /\ narrowed.commands \subseteq
          session.commands \cup IF lists.present THEN Programs \ lists.shell_deny ELSE {}

\* An approved plan can do what it said it would, where the gate grants it: read
\* the files that are there, write what it writes, and make what is not there yet
\* (Plan::narrow).  A path it also declares as a file to read stays read: the
\* first rule of a path answers.
Undisturbed(p, path) ==
    \A f \in p.files \cap disk : ~(Within(path, f) /\ Within(f, NearestExisting(path)))

GetsWhatItSaid(to, p, sandbox) ==
    /\ \A f \in p.files \cap disk :
          AccessFor(sandbox.roots, f) # None => AccessFor(to.roots, f) # None
    /\ Resolves(sandbox.roots) =>
          \A w \in p.writes :
              Writes(sandbox, w) /\ Undisturbed(p, w) => Writes(to, w)

APlanGetsWhatItSaid ==
    [][narrowed' \notin {narrowed, NoSandbox} =>
          GetsWhatItSaid(narrowed', plan, GateSandbox(plan.commands))]_vars

\* A job that closes by itself may run the program it closes on, when it opens
\* and whenever it is opened again, as long as the roots of the session are there:
\* "a job that can never close is worse than one closed by hand"
\* (closing_condition, against approve_plan's second look at the gate).  So it is
\* with every condition a person types at the gate; one that stood in the model's
\* own plan is kept as it is when no other is taken, whether it can run or not
\* (offer, amend).
TheConditionCanRun ==
    [][narrowed' \notin {narrowed, NoSandbox} /\ Resolves(session.roots) =>
          plan.closes_on \in narrowed'.commands \cup {proposed}]_vars

\* A turn nobody approved reads what the session reads and writes scratch only,
\* whatever the session may write (draft_floor, Sandbox::read_only).
TheFloorWritesScratchOnly ==
    \A p \in Paths :
        LET scratch == \E s \in Scratch : Within(p, s)
        IN /\ Writes(floor, p) => scratch
           /\ (AccessFor(session.roots, p) # None) => AccessFor(floor.roots, p) # None
           /\ ~scratch => AccessFor(floor.roots, p) <= AccessFor(session.roots, p)

\* A person is only asked what a yes would change: the command that was refused
\* runs under what the yes gives, also where the kernel cannot hold it, and the
\* yes gives nothing outside the working directory, nor is anybody asked about a
\* write there that the session does not have (DraftCeiling::escalate).
AYesChangesTheAnswer ==
    /\ \A p \in Paths :
          EscalatesWrite(p, floor) # NoSandbox =>
              Within(p, Base) \/ Writes(session, p)
    /\ \A c \in Programs :
           LET given == EscalatesCommand(c, floor)
           IN given # NoSandbox =>
                 /\ ~PrepareCommand(floor, c) /\ PrepareCommand(given, c)
                 /\ c \notin lists.shell_deny
                 /\ \A p \in Paths : ~Within(p, Base) =>
                       AccessFor(given.roots, p) = AccessFor(session.roots, p)

\* job.rs:201: "a plan cannot invent access": a job reaches no host that a session
\* without lists does not (Plan::narrow, the egress of the plan).
NarrowingOpensNoHost ==
    ~lists.present => HostsOf(narrowed) \subseteq HostsOf(session)

=============================================================================
