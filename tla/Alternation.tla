---------------------------- MODULE Alternation ----------------------------
(***************************************************************************)
(* What a session promises a person about its jobs, with no handler, lock   *)
(* or message in sight: at most one job is live; a draft opens where nothing *)
(* is open; approving a plan folds the draft it was offered in and opens the *)
(* job in its place, so work nobody approved never becomes a plan job and a  *)
(* plan job never comes out of anything but a draft; a folded job stays      *)
(* folded, except that the last one may be taken back while nothing came     *)
(* after it.  Gate implements this (Gate!AlternationSpec).                   *)
(*                                                                         *)
(* The promise is the one crates/agent-core/src/context.rs states over       *)
(* current_job, approve_plan and reopen_job, and crates/luu/src/serve.rs     *)
(* over offer.                                                              *)
(***************************************************************************)
EXTENDS Integers, Sequences

VARIABLES
    folded,  \* the jobs behind the live one: what they were and who closed them
    live     \* what is open now

vars == <<folded, live>>

Init == folded = <<>> /\ live = "none"

OpenDraft == live = "none" /\ live' = "draft" /\ UNCHANGED folded

Approve ==
    /\ live = "draft"
    /\ live' = "plan"
    /\ folded' = Append(folded, [kind |-> "draft", by |-> "approval"])

\* By a person, or by the closing condition that only a plan can carry.
Fold ==
    /\ live # "none"
    /\ \E by \in {"user", "exit_code"} :
          /\ by = "exit_code" => live = "plan"
          /\ folded' = Append(folded, [kind |-> live, by |-> by])
    /\ live' = "none"

Reopen ==
    /\ live = "none"
    /\ folded # <<>>
    /\ folded[Len(folded)].by # "approval"
    /\ live' = folded[Len(folded)].kind
    /\ folded' = SubSeq(folded, 1, Len(folded) - 1)

Next == OpenDraft \/ Approve \/ Fold \/ Reopen

Spec == Init /\ [][Next]_vars
=============================================================================
