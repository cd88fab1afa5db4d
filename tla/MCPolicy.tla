------------------------------ MODULE MCPolicy ------------------------------
(***************************************************************************)
(* Policy for TLC: a small tree, sessions that differ in one part each, and   *)
(* the plans and amendments that meet them.                                 *)
(***************************************************************************)
EXTENDS Policy

Top == <<>>
Work == <<"work">>
Src == <<"work", "src">>
Lib == <<"work", "src", "lib">>
Tmp == <<"work", "tmp">>
Etc == <<"etc">>

MCPaths == {Top, Work, Src, Lib, Tmp, Etc}
MCScratch == {Tmp}
MCPrograms == {"cargo", "git"}
MCHosts == {"docs", "crates"}

Rooted(rules) == [p \in MCPaths |-> IF p \in DOMAIN rules THEN rules[p] ELSE 0]

Plain == [roots |-> Rooted([p \in {Work} |-> 3]), commands |-> {"git"},
          network |-> FALSE, egress |-> {}, enforcement |-> "kernel"]

\* Paths: read only, writable, a nested rule that grants more, and less, and one
\* outside the working directory.
MCSessions ==
    {Plain} \cup
    {[Plain EXCEPT !.roots = Rooted(rules)] : rules \in
        {[p \in {Work} |-> 1],
         [p \in {Work, Src} |-> IF p = Src THEN 3 ELSE 1],
         [p \in {Work, Src} |-> IF p = Src THEN 1 ELSE 3],
         [p \in {Work, Etc} |-> IF p = Etc THEN 1 ELSE 3]}} \cup
    {[Plain EXCEPT !.network = TRUE, !.egress = e, !.enforcement = "best_effort"] :
        e \in {{}, {{"docs"}}, {{"docs", "crates"}}}}

NoEnvironment == [present |-> FALSE, shell_deny |-> {}, network_deny |-> {}]

MCLists ==
    {NoEnvironment,
     [NoEnvironment EXCEPT !.present = TRUE],
     [present |-> TRUE, shell_deny |-> {"cargo"}, network_deny |-> {"crates"}]}

NoPlan == [files |-> {}, writes |-> {}, commands |-> {}, closes_on |-> NoProgram,
           network |-> FALSE, egress |-> {}, enforcement |-> "unsaid"]

MCPlans ==
    {[NoPlan EXCEPT !.files = f, !.writes = w, !.commands = {"cargo"}] :
        f \in SUBSET {Src, Lib}, w \in SUBSET {Work, Src, Lib}} \cup
    {[NoPlan EXCEPT !.writes = {Etc}],
     [NoPlan EXCEPT !.commands = {"cargo"}, !.closes_on = "cargo"],
     [NoPlan EXCEPT !.commands = {"cargo"}, !.closes_on = "git"],
     [NoPlan EXCEPT !.network = TRUE],
     [NoPlan EXCEPT !.egress = {{"docs"}}],
     [NoPlan EXCEPT !.egress = {{"crates"}}],
     [NoPlan EXCEPT !.egress = {{"docs"}, {"crates"}}],
     [NoPlan EXCEPT !.commands = {"cargo"}, !.enforcement = "best_effort"]}

NoAmendment == [NoPlan EXCEPT !.network = "unsaid"]

MCAmendments ==
    {NoAmendment,
     [NoAmendment EXCEPT !.closes_on = "cargo"],
     [NoAmendment EXCEPT !.commands = {"git"}, !.closes_on = "git"],
     [NoAmendment EXCEPT !.files = {Etc}, !.writes = {Src}, !.network = "on"],
     [NoAmendment EXCEPT !.egress = {{"crates"}}, !.enforcement = "kernel"]}
=============================================================================
