------------------------------ MODULE MCWindow ------------------------------
\* A big file and a small one, each with two bodies, that cost more and less
\* than the line that cites them.
EXTENDS Window

Span(p, b) == [path |-> p, body |-> b]

MCFragments == {Span("big", 1), Span("big", 2), Span("small", 1), Span("small", 2)}

\* Both, or the big one with its other body.
MCSelections == {{Span("big", 1), Span("small", 1)}, {Span("big", 2)}}

MCDisks == {[path \in {"big", "small"} |-> IF path = "big" THEN 1 ELSE 2]}

MCCost(path) == IF path = "big" THEN 5 ELSE 1

Rules(eviction, repeat, prune, results) ==
    [eviction |-> eviction, repeat |-> repeat, prune |-> prune, results |-> results]

MCBudgets == {Rules("turn", "once", "never", "kept"),
              Rules("block", "always", "behind", "cited_reads")}

\* Who closed a job, and which turn proposed its plan, are read by no action
\* and no property here, and the view only by a resume still to come: states
\* that differ in nothing else are one.
MCView ==
    <<[k \in 1..Len(jobs) |-> <<IsDraft(jobs[k]), IsOpen(jobs[k])>>],
      turns, floor, pruned, budget, sent, resumes, invented,
      IF resumes < MaxResumes THEN <<view, left>> ELSE Len(view)>>
=============================================================================
