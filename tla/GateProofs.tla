---------------------------- MODULE GateProofs ----------------------------
(***************************************************************************)
(* Theorems about one live session and the view its watchers fold of it, for  *)
(* any number of clients and turns.                                         *)
(*                                                                         *)
(* The inductive invariant is small: the types, the well-formedness of the   *)
(* jobs and that a plan is on the table only inside an open draft.  The last  *)
(* part is what makes it inductive: every handler that                      *)
(* closes the draft has to have looked at the plan, and every one of them     *)
(* looks in a lock section of its own.  What the turns carry, what the stored  *)
(* sandbox is stamped with and how often a plan is answered are invariants of  *)
(* their own, each proved from this one and those before it.                *)
(***************************************************************************)
EXTENDS Stream, SequenceTheorems, TLAPS

(***************************************************************************)
(* What the job operators do to a well-formed sequence of jobs, for every    *)
(* sequence: each of the four ways the jobs change is one of four shapes,    *)
(* and each shape keeps the sequence well formed and is one step of the      *)
(* alternation.                                                            *)
(***************************************************************************)
WellFormed(s) ==
    /\ s \in Seq(Job)
    /\ \A i \in 1..Len(s) :
          /\ s[i].id = i
          /\ i < Len(s) => ~IsOpen(s[i])
          /\ IsOpen(s[i]) <=> s[i].by = "nobody"
          /\ (~IsDraft(s[i])) <=> (i > 1 /\ s[i - 1].by = "approval")
          /\ s[i].by = "approval" => i < Len(s)

Kind(job) == IF IsDraft(job) THEN "draft" ELSE "plan"

(***************************************************************************)
(* The four shapes, from s to r.                                           *)
(***************************************************************************)
OpensDraft(s, r) ==
    /\ CurrentJob(s) = None
    /\ r \in Seq(Job)
    /\ Len(r) = Len(s) + 1
    /\ \A i \in 1..Len(s) : r[i] = s[i]
    /\ r[Len(r)] = Draft(Len(r))

ClosesLast(s, r, by) ==
    /\ s # <<>>
    /\ IsOpen(s[Len(s)])
    /\ r \in Seq(Job)
    /\ Len(r) = Len(s)
    /\ \A i \in 1..(Len(s) - 1) : r[i] = s[i]
    /\ r[Len(s)] = ClosedBy(s[Len(s)], by)

ReopensLast(s, r) ==
    /\ s # <<>>
    /\ ~IsOpen(s[Len(s)])
    /\ r \in Seq(Job)
    /\ Len(r) = Len(s)
    /\ \A i \in 1..(Len(s) - 1) : r[i] = s[i]
    /\ r[Len(s)] = OpenedAgain(s[Len(s)])

ApprovesInDraft(s, r, plan) ==
    /\ s # <<>>
    /\ IsOpen(s[Len(s)])
    /\ IsDraft(s[Len(s)])
    /\ r \in Seq(Job)
    /\ Len(r) = Len(s) + 1
    /\ \A i \in 1..(Len(s) - 1) : r[i] = s[i]
    /\ r[Len(s)] = ClosedBy(s[Len(s)], "approval")
    /\ r[Len(r)] = Planned(Len(r), plan)

-----------------------------------------------------------------------------
\* The current job is the last one exactly while it is open (context.rs,
\* current_job).
LEMMA CurrentIsLast ==
    ASSUME NEW s, WellFormed(s)
    PROVE  /\ Len(s) \in Nat
           /\ s # <<>> => Len(s) \in 1..Len(s) /\ s[Len(s)] \in Job
           /\ CurrentJob(s) # None <=> (s # <<>> /\ IsOpen(s[Len(s)]))
           /\ CurrentJob(s) # None => CurrentJob(s) = Len(s)
<1>1. Len(s) \in Nat /\ s \in [1..Len(s) -> Job]
    BY LenProperties DEF WellFormed
<1>2. ASSUME s # <<>> PROVE Len(s) \in 1..Len(s) /\ s[Len(s)] \in Job
    BY <1>1, <1>2, EmptySeq DEF WellFormed
<1>3. ASSUME s # <<>> PROVE s[Len(s)].id = Len(s)
    BY <1>2, <1>3 DEF WellFormed
<1> QED
    BY <1>1, <1>2, <1>3, EmptySeq DEF CurrentJob, None, WellFormed, Job

\* The only job that can be closed is the current one (context.rs,
\* close_job_by: "only an open job folds").
LEMMA OnlyCurrentCloses ==
    ASSUME NEW s, WellFormed(s), NEW id, CanClose(s, id)
    PROVE  CurrentJob(s) = id /\ CurrentJob(s) # None
<1>1. PICK i \in 1..Len(s) : s[i].id = id /\ IsOpen(s[i])
    BY DEF CanClose
<1>2. Len(s) \in Nat
    BY CurrentIsLast
<1>3. i = Len(s) /\ s[i].id = i
    BY <1>1, <1>2 DEF WellFormed
<1>4. s # <<>>
    BY <1>1, <1>2, EmptySeq
<1> QED
    BY <1>1, <1>3, <1>4, CurrentIsLast

\* Closing the current job closes the last one and nothing else.
LEMMA CloseShape ==
    ASSUME NEW s, WellFormed(s), CurrentJob(s) # None, NEW by \in Closer
    PROVE  ClosesLast(s, CloseJobBy(s, CurrentJob(s), by), by)
<1> DEFINE r == CloseJobBy(s, CurrentJob(s), by)
           n == Len(s)
<1>1. /\ n \in Nat /\ n \in 1..n /\ s # <<>> /\ IsOpen(s[n]) /\ s[n] \in Job
      /\ CurrentJob(s) = n
    BY CurrentIsLast
<1>2. \A i \in 1..n : s[i] \in Job /\ s[i].id = i
    BY LenProperties DEF WellFormed
<1>3. r = [i \in 1..n |-> IF s[i].id = n /\ IsOpen(s[i])
                          THEN ClosedBy(s[i], by)
                          ELSE s[i]]
    BY <1>1 DEF CloseJobBy
<1>4. \A i \in 1..n : r[i] \in Job
  <2> TAKE i \in 1..n
  <2>1. s[i] \in Job /\ ClosedBy(s[i], by) \in Job
      BY <1>2 DEF Job, ClosedBy
  <2> QED
      BY <1>3, <2>1
<1>5. r \in [1..n -> Job]
    BY <1>3, <1>4
<1>6. r \in Seq(Job) /\ Len(r) = n
    BY <1>1, <1>5, SeqDef, LenProperties
<1>7. \A i \in 1..(n - 1) : r[i] = s[i]
  <2> TAKE i \in 1..(n - 1)
  <2>1. i \in 1..n /\ i # n
      BY <1>1
  <2>2. s[i].id # n
      BY <1>2, <2>1
  <2> QED
      BY <1>3, <2>1, <2>2
<1>8. r[n] = ClosedBy(s[n], by)
    BY <1>1, <1>2, <1>3
<1> QED
    BY <1>1, <1>6, <1>7, <1>8 DEF ClosesLast

\* Reopening takes the last job, closed, and opens it again (context.rs,
\* reopen_job).
LEMMA ReopenShape ==
    ASSUME NEW s, WellFormed(s), NEW id, CanReopen(s, id)
    PROVE  id = Len(s) /\ ReopensLast(s, Reopened(s, id))
<1> DEFINE r == Reopened(s, id)
           n == Len(s)
<1>1. /\ n \in Nat /\ n \in 1..n /\ s # <<>> /\ ~IsOpen(s[n]) /\ s[n] \in Job
    BY CurrentIsLast DEF CanReopen
<1>2. \A i \in 1..n : s[i] \in Job /\ s[i].id = i
    BY LenProperties DEF WellFormed
<1>3. id = n
    BY <1>1, <1>2 DEF CanReopen
<1>4. r = [i \in 1..n |-> IF s[i].id = n
                          THEN OpenedAgain(s[i])
                          ELSE s[i]]
    BY <1>3 DEF Reopened
<1>5. \A i \in 1..n : r[i] \in Job
  <2> TAKE i \in 1..n
  <2>1. s[i] \in Job /\ OpenedAgain(s[i]) \in Job
      BY <1>2 DEF Job, OpenedAgain
  <2> QED
      BY <1>4, <2>1
<1>6. r \in [1..n -> Job]
    BY <1>4, <1>5
<1>7. r \in Seq(Job) /\ Len(r) = n
    BY <1>1, <1>6, SeqDef, LenProperties
<1>8. \A i \in 1..(n - 1) : r[i] = s[i]
  <2> TAKE i \in 1..(n - 1)
  <2>1. i \in 1..n /\ i # n
      BY <1>1
  <2>2. s[i].id # n
      BY <1>2, <2>1
  <2> QED
      BY <1>4, <2>1, <2>2
<1>9. r[n] = OpenedAgain(s[n])
    BY <1>1, <1>2, <1>4
<1> QED
    BY <1>1, <1>3, <1>7, <1>8, <1>9 DEF ReopensLast

\* A turn lands in the current job, or in a draft it opens after every other
\* job (context.rs, push_turn_with_steps and open_draft).
LEMMA LandShape ==
    ASSUME NEW s, WellFormed(s)
    PROVE  WithPlaceToLand(s) = s \/ OpensDraft(s, WithPlaceToLand(s))
<1>1. CASE CurrentJob(s) # None
    BY <1>1 DEF WithPlaceToLand
<1>2. CASE CurrentJob(s) = None
  <2> DEFINE r == WithPlaceToLand(s)
  <2>1. Len(s) \in Nat /\ s \in Seq(Job)
      BY CurrentIsLast DEF WellFormed
  <2>2. r = Append(s, Draft(Len(s) + 1))
      BY <1>2 DEF WithPlaceToLand, NextJobId
  <2>3. Draft(Len(s) + 1) \in Job
      BY <2>1 DEF Draft, Job, NoPlan, None, Plan
  <2>4. /\ r \in Seq(Job) /\ Len(r) = Len(s) + 1
        /\ \A i \in 1..Len(s) : r[i] = s[i]
        /\ r[Len(s) + 1] = Draft(Len(s) + 1)
      BY <2>1, <2>2, <2>3
  <2> QED
      BY <1>2, <2>4 DEF OpensDraft
<1> QED
    BY <1>1, <1>2

\* An approval in an open draft closes that draft and opens the plan's job
\* after it (context.rs, approve_plan).
LEMMA ApproveShape ==
    ASSUME NEW s, WellFormed(s), Drafting(s), NEW plan \in Plan
    PROVE  ApprovesInDraft(s, ApprovePlan(s, plan), plan)
<1> DEFINE folded == CloseJobBy(s, CurrentJob(s), "approval")
           r == ApprovePlan(s, plan)
<1>1. CurrentJob(s) # None /\ IsDraft(s[Len(s)])
    BY DEF Drafting
<1>2. ClosesLast(s, folded, "approval")
    BY <1>1, CloseShape DEF Closer
<1>3. Len(s) \in Nat
    BY CurrentIsLast
<1>4. r = Append(folded, Planned(Len(s) + 1, plan))
    BY <1>1, <1>2 DEF ApprovePlan, NextJobId, ClosesLast
<1>5. Planned(Len(s) + 1, plan) \in Job
    BY <1>3 DEF Planned, Job
<1>6. /\ r \in Seq(Job) /\ Len(r) = Len(s) + 1
      /\ \A i \in 1..Len(s) : r[i] = folded[i]
      /\ r[Len(s) + 1] = Planned(Len(s) + 1, plan)
    BY <1>2, <1>3, <1>4, <1>5 DEF ClosesLast
<1>7. Len(s) \in 1..Len(s) /\ 1..(Len(s) - 1) \subseteq 1..Len(s)
    BY <1>1, <1>3, CurrentIsLast
<1> QED
    BY <1>1, <1>2, <1>3, <1>6, <1>7 DEF ApprovesInDraft, ClosesLast

-----------------------------------------------------------------------------

-----------------------------------------------------------------------------
\* A draft opened after every other job keeps the jobs well formed (context.rs,
\* open_draft).
LEMMA OpensDraftKeeps ==
    ASSUME NEW s, WellFormed(s), NEW r, OpensDraft(s, r)
    PROVE  WellFormed(r) /\ Drafting(r)
<1> DEFINE n == Len(s)
<1>1. /\ n \in Nat /\ r \in Seq(Job) /\ Len(r) = n + 1 /\ r # <<>>
      /\ \A i \in 1..n : r[i] = s[i]
      /\ r[n + 1] = Draft(n + 1)
    BY CurrentIsLast, EmptySeq DEF OpensDraft
<1>2. n \in 1..n => ~IsOpen(s[n]) /\ s[n].by # "approval"
    BY <1>1, CurrentIsLast, EmptySeq DEF OpensDraft, WellFormed
<1>3. /\ IsOpen(r[n + 1]) /\ IsDraft(r[n + 1]) /\ r[n + 1].id = n + 1
      /\ r[n + 1].by = "nobody"
    BY <1>1 DEF Draft, IsOpen, IsDraft
<1>4. ASSUME NEW i \in 1..Len(r)
      PROVE  /\ r[i].id = i
             /\ i < Len(r) => ~IsOpen(r[i])
             /\ IsOpen(r[i]) <=> r[i].by = "nobody"
             /\ (~IsDraft(r[i])) <=> (i > 1 /\ r[i - 1].by = "approval")
             /\ r[i].by = "approval" => i < Len(r)
  <2>1. CASE i = n + 1
    <3>1. i > 1 => n \in 1..n /\ r[i - 1] = s[n]
        BY <1>1, <2>1
    <3> QED
        BY <1>1, <1>2, <1>3, <2>1, <3>1
  <2>2. CASE i # n + 1
    <3>1. i \in 1..n /\ r[i] = s[i]
        BY <1>1, <2>2
    <3>2. i > 1 => r[i - 1] = s[i - 1]
        BY <1>1, <3>1
    <3>3. i = n => ~IsOpen(s[i])
        BY <1>2, <3>1
    <3> QED
        BY <1>1, <3>1, <3>2, <3>3 DEF WellFormed
  <2> QED
      BY <2>1, <2>2
<1>5. WellFormed(r)
    BY <1>1, <1>4 DEF WellFormed
<1>6. CurrentJob(r) # None
    BY <1>1, <1>3, <1>5, CurrentIsLast
<1> QED
    BY <1>1, <1>3, <1>5, <1>6 DEF Drafting

\* Closing the last job by hand or by its condition keeps the jobs well formed
\* (context.rs, close_job_by).
LEMMA ClosesLastKeeps ==
    ASSUME NEW s, WellFormed(s), NEW r, NEW by \in {"user", "exit_code"},
           ClosesLast(s, r, by)
    PROVE  WellFormed(r) /\ CurrentJob(r) = None
<1> DEFINE n == Len(s)
<1>1. /\ n \in Nat /\ n \in 1..n /\ r \in Seq(Job) /\ Len(r) = n
      /\ s[n] \in Job
      /\ \A i \in 1..(n - 1) : r[i] = s[i]
      /\ r[n] = ClosedBy(s[n], by)
    BY CurrentIsLast DEF ClosesLast
<1>2. /\ r[n].id = s[n].id /\ r[n].plan = s[n].plan /\ r[n].by = by
      /\ ~IsOpen(r[n])
      /\ IsDraft(r[n]) <=> IsDraft(s[n])
    BY <1>1 DEF ClosedBy, IsOpen, IsDraft
<1>3. ASSUME NEW i \in 1..Len(r)
      PROVE  /\ r[i].id = i
             /\ i < Len(r) => ~IsOpen(r[i])
             /\ IsOpen(r[i]) <=> r[i].by = "nobody"
             /\ (~IsDraft(r[i])) <=> (i > 1 /\ r[i - 1].by = "approval")
             /\ r[i].by = "approval" => i < Len(r)
  <2>1. i > 1 => r[i - 1] = s[i - 1]
      BY <1>1
  <2>2. CASE i = n
      BY <1>1, <1>2, <2>1, <2>2 DEF WellFormed
  <2>3. CASE i # n
    <3>1. r[i] = s[i] /\ i \in 1..n
        BY <1>1, <2>3
    <3> QED
        BY <1>1, <2>1, <3>1 DEF WellFormed
  <2> QED
      BY <2>2, <2>3
<1>4. WellFormed(r)
    BY <1>1, <1>3 DEF WellFormed
<1> QED
    BY <1>1, <1>2, <1>4, CurrentIsLast

\* Taking the last fold back keeps the jobs well formed (context.rs,
\* reopen_job).
LEMMA ReopensLastKeeps ==
    ASSUME NEW s, WellFormed(s), NEW r, ReopensLast(s, r)
    PROVE  WellFormed(r) /\ CurrentJob(r) # None
<1> DEFINE n == Len(s)
<1>1. /\ n \in Nat /\ n \in 1..n /\ r \in Seq(Job) /\ Len(r) = n /\ r # <<>>
      /\ s[n] \in Job
      /\ \A i \in 1..(n - 1) : r[i] = s[i]
      /\ r[n] = OpenedAgain(s[n])
    BY CurrentIsLast, EmptySeq DEF ReopensLast
<1>2. /\ r[n].id = s[n].id /\ r[n].plan = s[n].plan /\ r[n].by = "nobody"
      /\ IsOpen(r[n])
      /\ IsDraft(r[n]) <=> IsDraft(s[n])
    BY <1>1 DEF OpenedAgain, IsOpen, IsDraft
<1>3. ASSUME NEW i \in 1..Len(r)
      PROVE  /\ r[i].id = i
             /\ i < Len(r) => ~IsOpen(r[i])
             /\ IsOpen(r[i]) <=> r[i].by = "nobody"
             /\ (~IsDraft(r[i])) <=> (i > 1 /\ r[i - 1].by = "approval")
             /\ r[i].by = "approval" => i < Len(r)
  <2>1. i > 1 => r[i - 1] = s[i - 1]
      BY <1>1
  <2>2. CASE i = n
      BY <1>1, <1>2, <2>1, <2>2 DEF WellFormed
  <2>3. CASE i # n
    <3>1. r[i] = s[i] /\ i \in 1..n
        BY <1>1, <2>3
    <3> QED
        BY <1>1, <2>1, <3>1 DEF WellFormed
  <2> QED
      BY <2>2, <2>3
<1>4. WellFormed(r)
    BY <1>1, <1>3 DEF WellFormed
<1> QED
    BY <1>1, <1>2, <1>4, CurrentIsLast

\* An approval in a draft keeps the jobs well formed (context.rs,
\* approve_plan).
LEMMA ApprovesInDraftKeeps ==
    ASSUME NEW s, WellFormed(s), NEW r, NEW plan \in Plan, plan # NoPlan,
           ApprovesInDraft(s, r, plan)
    PROVE  WellFormed(r)
<1> DEFINE n == Len(s)
<1>1. /\ n \in Nat /\ n \in 1..n /\ r \in Seq(Job) /\ Len(r) = n + 1
      /\ s[n] \in Job /\ IsDraft(s[n])
      /\ \A i \in 1..(n - 1) : r[i] = s[i]
      /\ r[n] = ClosedBy(s[n], "approval")
      /\ r[n + 1] = Planned(n + 1, plan)
    BY CurrentIsLast DEF ApprovesInDraft
<1>2. /\ r[n].id = s[n].id /\ r[n].by = "approval"
      /\ ~IsOpen(r[n]) /\ IsDraft(r[n])
    BY <1>1 DEF ClosedBy, IsOpen, IsDraft
<1>3. /\ r[n + 1].id = n + 1 /\ r[n + 1].by = "nobody"
      /\ IsOpen(r[n + 1]) /\ ~IsDraft(r[n + 1])
    BY <1>1 DEF Planned, IsOpen, IsDraft
<1>4. ASSUME NEW i \in 1..Len(r)
      PROVE  /\ r[i].id = i
             /\ i < Len(r) => ~IsOpen(r[i])
             /\ IsOpen(r[i]) <=> r[i].by = "nobody"
             /\ (~IsDraft(r[i])) <=> (i > 1 /\ r[i - 1].by = "approval")
             /\ r[i].by = "approval" => i < Len(r)
  <2>1. CASE i = n + 1
    <3>1. i > 1 /\ i - 1 = n
        BY <1>1, <2>1
    <3> QED
        BY <1>1, <1>2, <1>3, <2>1, <3>1
  <2>2. CASE i = n
    <3>1. i > 1 => r[i - 1] = s[i - 1]
        BY <1>1, <2>2
    <3> QED
        BY <1>1, <1>2, <2>2, <3>1 DEF WellFormed
  <2>3. CASE i # n /\ i # n + 1
    <3>1. r[i] = s[i] /\ i \in 1..n /\ i < n
        BY <1>1, <2>3
    <3>2. i > 1 => r[i - 1] = s[i - 1]
        BY <1>1, <3>1
    <3> QED
        BY <1>1, <3>1, <3>2 DEF WellFormed
  <2> QED
      BY <2>1, <2>2, <2>3
<1> QED
    BY <1>1, <1>4 DEF WellFormed

-----------------------------------------------------------------------------
(***************************************************************************)
(* The folds and the live job a sequence of jobs stands for, and how each   *)
(* shape moves them: Gate!Folds and Gate!Live are these two of its jobs.    *)
(***************************************************************************)
FoldOf(job) == [kind |-> Kind(job), by |-> job.by]

AFold == [kind : {"draft", "plan"}, by : Closer \cup {"nobody"}]

FoldsOf(s) ==
    [i \in 1..(IF CurrentJob(s) = None THEN Len(s) ELSE Len(s) - 1) |-> FoldOf(s[i])]

LiveOf(s) == IF CurrentJob(s) = None THEN "none" ELSE FoldOf(s[Len(s)]).kind

\* The folds of a well-formed sequence are all its jobs, or all but the live
\* one.
LEMMA FoldsShape ==
    ASSUME NEW s, WellFormed(s)
    PROVE  /\ CurrentJob(s) = None =>
                 /\ FoldsOf(s) \in Seq(AFold)
                 /\ Len(FoldsOf(s)) = Len(s)
                 /\ \A i \in 1..Len(s) : FoldsOf(s)[i] = FoldOf(s[i])
           /\ CurrentJob(s) # None =>
                 /\ FoldsOf(s) \in Seq(AFold)
                 /\ Len(FoldsOf(s)) = Len(s) - 1
                 /\ Len(s) \in 1..Len(s)
                 /\ \A i \in 1..(Len(s) - 1) : FoldsOf(s)[i] = FoldOf(s[i])
<1>1. Len(s) \in Nat
    BY CurrentIsLast
<1>2. \A i \in 1..Len(s) : FoldOf(s[i]) \in AFold
  <2> TAKE i \in 1..Len(s)
  <2>1. s[i] \in Job
      BY LenProperties DEF WellFormed
  <2>2. s[i].by \in Closer \cup {"nobody"}
      BY <2>1 DEF Job
  <2> QED
      BY <2>2 DEF FoldOf, Kind, AFold
<1>3. CASE CurrentJob(s) = None
  <2>1. FoldsOf(s) = [i \in 1..Len(s) |-> FoldOf(s[i])]
      BY <1>3 DEF FoldsOf
  <2>2. FoldsOf(s) \in [1..Len(s) -> AFold]
      BY <1>2, <2>1
  <2>3. FoldsOf(s) \in Seq(AFold) /\ Len(FoldsOf(s)) = Len(s)
      BY <1>1, <2>2, SeqDef, LenProperties
  <2> QED
      BY <1>3, <2>1, <2>3
<1>4. CASE CurrentJob(s) # None
  <2>1. Len(s) \in 1..Len(s) /\ Len(s) - 1 \in Nat
      BY <1>1, <1>4, CurrentIsLast
  <2>2. FoldsOf(s) = [i \in 1..(Len(s) - 1) |-> FoldOf(s[i])]
      BY <1>4 DEF FoldsOf
  <2>3. FoldsOf(s) \in [1..(Len(s) - 1) -> AFold]
      BY <1>1, <1>2, <2>2
  <2>4. FoldsOf(s) \in Seq(AFold) /\ Len(FoldsOf(s)) = Len(s) - 1
      BY <2>1, <2>3, SeqDef, LenProperties
  <2> QED
      BY <1>4, <2>1, <2>2, <2>4
<1> QED
    BY <1>3, <1>4

\* Opening a draft is the alternation's OpenDraft.
LEMMA OpensDraftAlternates ==
    ASSUME NEW s, WellFormed(s), NEW r, OpensDraft(s, r)
    PROVE  LiveOf(s) = "none" /\ LiveOf(r) = "draft" /\ FoldsOf(r) = FoldsOf(s)
<1>1. WellFormed(r) /\ CurrentJob(r) # None /\ CurrentJob(s) = None
    BY OpensDraftKeeps DEF Drafting, OpensDraft
<1>2. /\ Len(s) \in Nat /\ Len(r) = Len(s) + 1
      /\ \A i \in 1..Len(s) : r[i] = s[i]
      /\ IsDraft(r[Len(r)])
    BY OpensDraftKeeps, CurrentIsLast DEF Drafting, OpensDraft
<1>3. /\ FoldsOf(r) \in Seq(AFold) /\ FoldsOf(s) \in Seq(AFold)
      /\ Len(FoldsOf(s)) = Len(s) /\ Len(FoldsOf(r)) = Len(s)
      /\ \A i \in 1..Len(s) : FoldsOf(r)[i] = FoldsOf(s)[i]
    BY <1>1, <1>2, FoldsShape
<1>4. FoldsOf(r) = FoldsOf(s)
    BY <1>3, SeqEqual
<1> QED
    BY <1>1, <1>2, <1>4 DEF LiveOf, FoldOf, Kind

\* Closing the last job is the alternation's Fold, and approving a plan in an
\* open draft adds that draft to the folds.
LEMMA ClosesLastAlternates ==
    ASSUME NEW s, WellFormed(s), NEW r, NEW by \in {"user", "exit_code"},
           ClosesLast(s, r, by)
    PROVE  /\ LiveOf(s) # "none" /\ LiveOf(r) = "none"
           /\ LiveOf(s) = "draft" <=> IsDraft(s[Len(s)])
           /\ LiveOf(s) \in {"draft", "plan"}
           /\ FoldsOf(r) = Append(FoldsOf(s), [kind |-> LiveOf(s), by |-> by])
<1> DEFINE n == Len(s)
           x == [kind |-> LiveOf(s), by |-> by]
<1>1. /\ WellFormed(r) /\ CurrentJob(r) = None /\ CurrentJob(s) # None
      /\ n \in Nat /\ Len(r) = n /\ n \in 1..n
      /\ \A i \in 1..(n - 1) : r[i] = s[i]
      /\ r[n] = ClosedBy(s[n], by)
    BY ClosesLastKeeps, CurrentIsLast DEF ClosesLast
<1>2. LiveOf(s) = Kind(s[n]) /\ LiveOf(r) = "none"
    BY <1>1 DEF LiveOf, FoldOf
<1>3. FoldOf(r[n]) = x
    BY <1>1, <1>2 DEF FoldOf, Kind, ClosedBy, IsDraft
<1>4. x \in AFold
    BY <1>2 DEF Kind, AFold, Closer
<1>5. /\ FoldsOf(s) \in Seq(AFold) /\ Len(FoldsOf(s)) = n - 1
      /\ \A i \in 1..(n - 1) : FoldsOf(s)[i] = FoldOf(s[i])
      /\ FoldsOf(r) \in Seq(AFold) /\ Len(FoldsOf(r)) = n
      /\ \A i \in 1..n : FoldsOf(r)[i] = FoldOf(r[i])
    BY <1>1, FoldsShape
<1>6. /\ Append(FoldsOf(s), x) \in Seq(AFold)
      /\ Len(Append(FoldsOf(s), x)) = n
      /\ \A i \in 1..(n - 1) : Append(FoldsOf(s), x)[i] = FoldOf(s[i])
      /\ Append(FoldsOf(s), x)[n] = x
    BY <1>1, <1>4, <1>5, AppendProperties
<1>7. \A i \in 1..n : FoldsOf(r)[i] = Append(FoldsOf(s), x)[i]
    BY <1>1, <1>3, <1>5, <1>6
<1>8. FoldsOf(r) = Append(FoldsOf(s), x)
    BY <1>5, <1>6, <1>7, SeqEqual
<1> QED
    BY <1>2, <1>8 DEF Kind

\* Approving in an open draft is the alternation's Approve.
LEMMA ApprovesInDraftAlternates ==
    ASSUME NEW s, WellFormed(s), NEW r, NEW plan \in Plan, plan # NoPlan,
           ApprovesInDraft(s, r, plan)
    PROVE  /\ LiveOf(s) = "draft" /\ LiveOf(r) = "plan"
           /\ FoldsOf(r) = Append(FoldsOf(s), [kind |-> "draft", by |-> "approval"])
<1> DEFINE n == Len(s)
           x == [kind |-> "draft", by |-> "approval"]
<1>1. /\ n \in Nat /\ Len(r) = n + 1 /\ n \in 1..n
      /\ r # <<>>
      /\ IsOpen(s[n]) /\ IsDraft(s[n])
      /\ \A i \in 1..(n - 1) : r[i] = s[i]
      /\ r[n] = ClosedBy(s[n], "approval")
      /\ r[n + 1] = Planned(n + 1, plan)
    BY CurrentIsLast, EmptySeq DEF ApprovesInDraft
<1>2. WellFormed(r)
    BY ApprovesInDraftKeeps
<1>3. CurrentJob(s) # None /\ CurrentJob(r) # None
    BY <1>1, <1>2, CurrentIsLast DEF Planned, IsOpen, ApprovesInDraft
<1>4. LiveOf(s) = "draft" /\ LiveOf(r) = "plan"
    BY <1>1, <1>3 DEF LiveOf, FoldOf, Kind, Planned, IsDraft
<1>5. FoldOf(r[n]) = x
    BY <1>1 DEF FoldOf, Kind, ClosedBy, IsDraft
<1>6. /\ FoldsOf(s) \in Seq(AFold) /\ Len(FoldsOf(s)) = n - 1
      /\ \A i \in 1..(n - 1) : FoldsOf(s)[i] = FoldOf(s[i])
      /\ FoldsOf(r) \in Seq(AFold) /\ Len(FoldsOf(r)) = n
      /\ \A i \in 1..n : FoldsOf(r)[i] = FoldOf(r[i])
    BY <1>1, <1>2, <1>3, FoldsShape
<1>7. /\ Append(FoldsOf(s), x) \in Seq(AFold)
      /\ Len(Append(FoldsOf(s), x)) = n
      /\ \A i \in 1..(n - 1) : Append(FoldsOf(s), x)[i] = FoldOf(s[i])
      /\ Append(FoldsOf(s), x)[n] = x
  <2>1. x \in AFold
      BY DEF AFold, Closer
  <2> QED
      BY <1>1, <1>6, <2>1, AppendProperties
<1>8. \A i \in 1..n : FoldsOf(r)[i] = Append(FoldsOf(s), x)[i]
    BY <1>1, <1>5, <1>6, <1>7
<1>9. FoldsOf(r) = Append(FoldsOf(s), x)
    BY <1>6, <1>7, <1>8, SeqEqual
<1> QED
    BY <1>4, <1>9

\* Taking the last fold back is the alternation's Reopen.
LEMMA ReopensLastAlternates ==
    ASSUME NEW s, WellFormed(s), NEW r, ReopensLast(s, r)
    PROVE  /\ LiveOf(s) = "none"
           /\ FoldsOf(s) # <<>>
           /\ FoldsOf(s)[Len(FoldsOf(s))].by # "approval"
           /\ LiveOf(r) = FoldsOf(s)[Len(FoldsOf(s))].kind
           /\ FoldsOf(r) = SubSeq(FoldsOf(s), 1, Len(FoldsOf(s)) - 1)
<1> DEFINE n == Len(s)
           front == SubSeq(FoldsOf(s), 1, Len(FoldsOf(s)) - 1)
<1>1. /\ WellFormed(r) /\ CurrentJob(r) # None /\ CurrentJob(s) = None
      /\ n \in Nat /\ Len(r) = n /\ n \in 1..n
      /\ \A i \in 1..(n - 1) : r[i] = s[i]
      /\ r[n] = OpenedAgain(s[n])
    BY ReopensLastKeeps, CurrentIsLast DEF ReopensLast
<1>2. s[n].by # "approval"
    BY <1>1 DEF WellFormed
<1>3. /\ FoldsOf(s) \in Seq(AFold) /\ Len(FoldsOf(s)) = n
      /\ \A i \in 1..n : FoldsOf(s)[i] = FoldOf(s[i])
      /\ FoldsOf(r) \in Seq(AFold) /\ Len(FoldsOf(r)) = n - 1
      /\ \A i \in 1..(n - 1) : FoldsOf(r)[i] = FoldOf(r[i])
    BY <1>1, FoldsShape
<1>4. /\ front \in Seq(AFold) /\ Len(front) = n - 1
      /\ \A i \in 1..(n - 1) : front[i] = FoldsOf(s)[i]
  <2>1. n - 1 \in Int /\ front = SubSeq(FoldsOf(s), 1, n - 1)
      BY <1>1, <1>3
  <2>2. \A i \in 1..(n - 1) : FoldsOf(s)[i] \in AFold
      BY <1>1, <1>3, ElementOfSeq
  <2>3. /\ front \in Seq(AFold)
        /\ Len(front) = IF 1 <= n - 1 THEN (n - 1) - 1 + 1 ELSE 0
        /\ \A i \in 1..((n - 1) - 1 + 1) : front[i] = FoldsOf(s)[1 + i - 1]
      BY <2>1, <2>2, SubSeqProperties
  <2> QED
      BY <1>1, <2>3
<1>5. FoldsOf(r) = front
    BY <1>1, <1>3, <1>4, SeqEqual
<1>6. LiveOf(s) = "none" /\ LiveOf(r) = FoldOf(s[n]).kind
    BY <1>1 DEF LiveOf, FoldOf, Kind, OpenedAgain, IsDraft
<1>7. FoldsOf(s)[Len(FoldsOf(s))] = FoldOf(s[n])
    BY <1>1, <1>3
<1>8. FoldsOf(s) # <<>>
    BY <1>1, <1>3, EmptySeq
<1> QED
    BY <1>2, <1>5, <1>6, <1>7, <1>8 DEF FoldOf

-----------------------------------------------------------------------------
(***************************************************************************)
(* Every way the jobs of a session change is one of the shapes.            *)
(***************************************************************************)
Move(s, r) ==
    \/ r = s
    \/ OpensDraft(s, r)
    \/ \E by \in {"user", "exit_code"} :
          ClosesLast(s, r, by) /\ (by = "exit_code" => ~IsDraft(s[Len(s)]))
    \/ ReopensLast(s, r)
    \/ \E plan \in Plan \ {NoPlan} : ApprovesInDraft(s, r, plan)

LEMMA MoveKeeps ==
    ASSUME NEW s, WellFormed(s), NEW r, Move(s, r)
    PROVE  WellFormed(r)
BY OpensDraftKeeps, ClosesLastKeeps, ReopensLastKeeps, ApprovesInDraftKeeps DEF Move

\* A move leaves every job but the last as it was, and the last one's id and
\* plan: a fold is final (context.rs: only the last job can be taken back).
LEMMA MoveIsFinal ==
    ASSUME NEW s, WellFormed(s), NEW r, Move(s, r)
    PROVE  /\ Len(s) <= Len(r)
           /\ \A i \in 1..Len(s) :
                 /\ r[i].id = s[i].id /\ r[i].plan = s[i].plan
                 /\ i < Len(s) => r[i] = s[i]
<1>1. Len(s) \in Nat
    BY CurrentIsLast
<1>2. CASE r = s
    BY <1>1, <1>2
<1>3. CASE OpensDraft(s, r)
    BY <1>1, <1>3 DEF OpensDraft
<1>4. ASSUME NEW by, ClosesLast(s, r, by)
      PROVE  /\ Len(s) <= Len(r)
             /\ \A i \in 1..Len(s) :
                   /\ r[i].id = s[i].id /\ r[i].plan = s[i].plan
                   /\ i < Len(s) => r[i] = s[i]
  <2>1. r[Len(s)].id = s[Len(s)].id /\ r[Len(s)].plan = s[Len(s)].plan
      BY <1>4 DEF ClosesLast, ClosedBy
  <2> QED
      BY <1>1, <1>4, <2>1 DEF ClosesLast
<1>5. CASE ReopensLast(s, r)
  <2>1. r[Len(s)].id = s[Len(s)].id /\ r[Len(s)].plan = s[Len(s)].plan
      BY <1>5 DEF ReopensLast, OpenedAgain
  <2> QED
      BY <1>1, <1>5, <2>1 DEF ReopensLast
<1>6. ASSUME NEW plan, ApprovesInDraft(s, r, plan)
      PROVE  /\ Len(s) <= Len(r)
             /\ \A i \in 1..Len(s) :
                   /\ r[i].id = s[i].id /\ r[i].plan = s[i].plan
                   /\ i < Len(s) => r[i] = s[i]
  <2>1. r[Len(s)].id = s[Len(s)].id /\ r[Len(s)].plan = s[Len(s)].plan
      BY <1>6 DEF ApprovesInDraft, ClosedBy
  <2> QED
      BY <1>1, <1>6, <2>1 DEF ApprovesInDraft
<1> QED
    BY <1>2, <1>3, <1>4, <1>5, <1>6 DEF Move

-----------------------------------------------------------------------------

GateInv == TypeOK /\ WellFormed(jobs) /\ PendingInADraft

-----------------------------------------------------------------------------
\* The first step of a handler or a task, and what is left after it, keep
\* their types.
LEMMA StepsType ==
    ASSUME NEW S, NEW q \in Seq(S), q # <<>>
    PROVE  Head(q) \in S /\ Tail(q) \in Seq(S)
BY HeadTailProperties

\* A plan on the table is a plan with a turn.
LEMMA PendingIsAPlan ==
    ASSUME TypeOK
    PROVE  /\ pending \in Plan
           /\ pending # NoPlan =>
                 /\ pending \in [turn : Turns, closes : BOOLEAN]
                 /\ pending.turn \in Turns
                 /\ \A closes \in BOOLEAN :
                       /\ [pending EXCEPT !.closes = closes] \in Plan
                       /\ [pending EXCEPT !.closes = closes] # NoPlan
                       /\ [pending EXCEPT !.closes = closes].turn = pending.turn
<1>1. Turns \subseteq Nat \ {0}
    BY MaxTurnsAssumption DEF Turns
<1>2. NoPlan \in Plan
    BY DEF NoPlan, None, Plan
<1>3. pending \in [turn : Turns, closes : BOOLEAN] \cup {NoPlan}
    BY DEF TypeOK
<1>4. pending \in [turn : Turns, closes : BOOLEAN] => pending \in Plan
    BY <1>1 DEF Plan
<1>5. ASSUME pending \in [turn : Turns, closes : BOOLEAN], NEW closes \in BOOLEAN
      PROVE  /\ [pending EXCEPT !.closes = closes] \in Plan
             /\ [pending EXCEPT !.closes = closes].turn = pending.turn
             /\ pending.turn \in Turns
    BY <1>1, <1>5 DEF Plan
<1>6. ASSUME pending \in [turn : Turns, closes : BOOLEAN], NEW closes \in BOOLEAN
      PROVE  [pending EXCEPT !.closes = closes] # NoPlan
    BY <1>1, <1>5, <1>6 DEF NoPlan, None
<1> QED
    BY <1>2, <1>3, <1>4, <1>5, <1>6

-----------------------------------------------------------------------------
(***************************************************************************)
(* The handlers that move the jobs move them by one of the shapes, and leave *)
(* no plan on the table without its draft.                                  *)
(***************************************************************************)
\* approve_plan, taking the plan.
LEMMA TakePlanMoves ==
    ASSUME GateInv, NEW c \in Clients, ApproveTaken(c)
    PROVE  Move(jobs, jobs') /\ PendingInADraft'
<1>1. CASE current = None /\ pending # NoPlan
  <2>1. PICK closes \in BOOLEAN :
            TakePlan(c, Head(todo[c]).job, [pending EXCEPT !.closes = closes])
      BY <1>1 DEF ApproveTaken
  <2> DEFINE plan == [pending EXCEPT !.closes = closes]
  <2>2. plan \in Plan \ {NoPlan}
      BY <1>1, PendingIsAPlan DEF GateInv
  <2>3. jobs' = ApprovePlan(jobs, plan) /\ pending' = NoPlan
      BY <2>1 DEF TakePlan
  <2>4. ApprovesInDraft(jobs, jobs', plan)
      BY <1>1, <2>2, <2>3, ApproveShape DEF GateInv, PendingInADraft
  <2> QED
      BY <2>2, <2>3, <2>4 DEF Move, PendingInADraft
<1>2. CASE ~(current = None /\ pending # NoPlan)
    BY <1>2 DEF ApproveTaken, Move, PendingInADraft, GateInv
<1> QED
    BY <1>1, <1>2

\* close_job, by hand: the plan on the table is of the job it would close.
LEMMA CloseJobMoves ==
    ASSUME GateInv, NEW c \in Clients, CloseJob(c)
    PROVE  Move(jobs, jobs') /\ PendingInADraft'
<1>1. PICK job \in 1..Len(jobs) : MayClose(job) /\ jobs' = CloseJobBy(jobs, job, "user")
    BY DEF CloseJob
<1>2. CurrentJob(jobs) = job /\ CurrentJob(jobs) # None
    BY <1>1, OnlyCurrentCloses DEF GateInv, MayClose
<1>3. pending = NoPlan /\ pending' = pending
    BY <1>1, <1>2 DEF MayClose, CloseJob
<1>4. ClosesLast(jobs, jobs', "user")
    BY <1>1, <1>2, CloseShape DEF GateInv, Closer
<1> QED
    BY <1>3, <1>4 DEF Move, PendingInADraft

\* reopen_job: nothing is open, so nothing is on the table.
LEMMA ReopenJobMoves ==
    ASSUME GateInv, NEW c \in Clients, ReopenJob(c)
    PROVE  Move(jobs, jobs') /\ PendingInADraft'
<1>1. PICK job \in 1..Len(jobs) : Reopens(job)
    BY DEF ReopenJob
<1>2. CanReopen(jobs, job) /\ jobs' = Reopened(jobs, job)
    BY <1>1 DEF Reopens
<1>3. ReopensLast(jobs, jobs')
    BY <1>2, ReopenShape DEF GateInv
<1>4. CurrentJob(jobs) = None
    BY <1>2 DEF CanReopen, CurrentJob
<1>5. pending = NoPlan /\ pending' = pending
    BY <1>4 DEF GateInv, PendingInADraft, Drafting, ReopenJob
<1> QED
    BY <1>3, <1>5 DEF Move, PendingInADraft

\* The end of a turn: it opens a draft, or it meets the condition only a plan
\* carries, and never both.
LEMMA LandMoves ==
    ASSUME GateInv, NEW t \in Turns, Land(t)
    PROVE  Move(jobs, jobs') /\ PendingInADraft'
<1> DEFINE outcome == Head(task[t]).outcome
           placed == IF outcome.lands THEN WithPlaceToLand(jobs) ELSE jobs
           landed == IF outcome.lands THEN Landed(t, placed) ELSE turns
<1>1. jobs' = CloseIfMet(placed, landed) /\ pending' = pending
    BY DEF Land
<1>2. placed = jobs \/ OpensDraft(jobs, placed)
    BY LandShape DEF GateInv
<1>3. ASSUME Met(placed, landed) PROVE ~IsDraft(placed[Len(placed)])
    BY <1>3 DEF Met, IsDraft, NoPlan
<1>4. CASE OpensDraft(jobs, placed)
  <2>1. Drafting(placed)
      BY <1>4, OpensDraftKeeps DEF GateInv
  <2>2. jobs' = placed
      BY <1>1, <1>3, <2>1 DEF CloseIfMet, Drafting
  <2> QED
      BY <1>1, <1>4, <2>1, <2>2 DEF Move, PendingInADraft
<1>5. CASE placed = jobs /\ ~Met(placed, landed)
    BY <1>1, <1>5 DEF CloseIfMet, Move, PendingInADraft, GateInv
<1>6. CASE placed = jobs /\ Met(placed, landed)
  <2>1. CurrentJob(jobs) # None /\ ~IsDraft(jobs[Len(jobs)])
      BY <1>3, <1>6 DEF Met
  <2>2. pending = NoPlan
      BY <2>1 DEF GateInv, PendingInADraft, Drafting
  <2>3. jobs' = CloseJobBy(jobs, CurrentJob(jobs), "exit_code")
      BY <1>1, <1>6 DEF CloseIfMet
  <2>4. ClosesLast(jobs, jobs', "exit_code")
      BY <2>1, <2>3, CloseShape DEF GateInv, Closer
  <2> QED
      BY <1>1, <2>1, <2>2, <2>4 DEF Move, PendingInADraft
<1> QED
    BY <1>2, <1>4, <1>5, <1>6

\* Every step of the session.
LEMMA StepMoves ==
    ASSUME GateInv, [Next]_vars
    PROVE  Move(jobs, jobs') /\ PendingInADraft'
<1>1. ASSUME UNCHANGED jobs, UNCHANGED pending \/ pending' = NoPlan
      PROVE  Move(jobs, jobs') /\ PendingInADraft'
    BY <1>1 DEF Move, PendingInADraft, GateInv
<1>2. ASSUME NEW c \in Clients, Handles(c)
      PROVE  Move(jobs, jobs') /\ PendingInADraft'
  <2>1. CASE OnPrompt(c)
      BY <1>1, <2>1 DEF OnPrompt
  <2>2. CASE RequestPlan(c)
      BY <1>1, <2>2 DEF RequestPlan, context
  <2>3. CASE Cancel(c)
      BY <1>1, <2>3 DEF Cancel, context
  <2>4. CASE ApproveSigned(c)
      BY <1>1, <2>4 DEF ApproveSigned, context
  <2>5. CASE DeclinePlan(c)
      BY <1>1, <2>5 DEF DeclinePlan
  <2> QED
      BY <1>2, <2>1, <2>2, <2>3, <2>4, <2>5, CloseJobMoves, ReopenJobMoves DEF Handles
<1>3. ASSUME NEW c \in Clients, HandlerContinues(c)
      PROVE  Move(jobs, jobs') /\ PendingInADraft'
  <2>1. CASE BeginTurn(c)
      BY <1>1, <2>1 DEF BeginTurn, context
  <2>2. CASE Resolve(c)
      BY <1>1, <2>2 DEF Resolve, context
  <2>3. CASE SpawnPlanning(c)
      BY <1>1, <2>3 DEF SpawnPlanning, context
  <2>4. CASE Narrow(c)
      BY <1>1, <2>4 DEF Narrow, context
  <2> QED
      BY <1>3, <2>1, <2>2, <2>3, <2>4, TakePlanMoves DEF HandlerContinues
<1>4. ASSUME NEW t \in Turns, TaskContinues(t)
      PROVE  Move(jobs, jobs') /\ PendingInADraft'
  <2>1. CASE Drafted(t)
      BY <1>1, <2>1 DEF Drafted, context
  <2>2. CASE Offer(t)
    <3>1. UNCHANGED jobs
        BY <2>2 DEF Offer, context
    <3>2. CASE MayOffer
        BY <3>1, <3>2 DEF MayOffer, Move, PendingInADraft
    <3>3. CASE ~MayOffer
        BY <1>1, <2>2, <3>1, <3>3 DEF Offer
    <3> QED
        BY <3>2, <3>3
  <2> QED
      BY <1>4, <2>1, <2>2, LandMoves DEF TaskContinues
<1>5. ASSUME NEW t \in Turns, ModelReturns(t)
      PROVE  Move(jobs, jobs') /\ PendingInADraft'
    BY <1>1, <1>5 DEF ModelReturns, RunEnds, PlanningEnds, context
<1>6. ASSUME NEW c \in Clients, HandlerSays(c)
      PROVE  Move(jobs, jobs') /\ PendingInADraft'
    BY <1>1, <1>6 DEF HandlerSays, context
<1>7. ASSUME NEW t \in Turns, TaskSays(t)
      PROVE  Move(jobs, jobs') /\ PendingInADraft'
    BY <1>1, <1>7 DEF TaskSays, context
<1>8. CASE UNCHANGED vars
    BY <1>1, <1>8 DEF vars
<1> QED
    BY <1>2, <1>3, <1>4, <1>5, <1>6, <1>7, <1>8 DEF Next, Silent

-----------------------------------------------------------------------------
(***************************************************************************)
(* Types.  A step to say a message, and each step a handler or a task sets   *)
(* itself, is a step of its type.                                          *)
(***************************************************************************)
LEMMA SandboxTypes ==
    /\ Floor \in Sandbox
    /\ \A job \in Nat, plan \in Plan :
          /\ PlanSandbox(job, plan) \in Sandbox
          /\ Narrowings(job, plan) \subseteq Sandbox
    /\ NoPlan \in Plan
BY DEF Floor, PlanSandbox, Narrowings, Sandbox, NoPlan, None, Plan

LEMMA MessageTypes ==
    /\ \A turn \in Turns, job \in Nat :
          TurnStarted(turn, job) \in Message /\ DraftOpened(job, turn) \in Message
    /\ \A turn \in Turns : PlanProposed(turn) \in Message
    /\ PlanDeclined \in Message
    /\ \A job \in Nat, plan \in Plan : JobApproved(job, plan) \in Message
    /\ \A job \in Nat, by \in Closer : JobClosed(job, by) \in Message
    /\ \A job \in Nat : JobReopened(job) \in Message
BY DEF TurnStarted, DraftOpened, PlanProposed, PlanDeclined, JobApproved,
       JobClosed, JobReopened, Message

LEMMA HandlerStepTypes ==
    /\ \A m \in Message : Say(m) \in HandlerStep
    /\ Do("begin") \in HandlerStep /\ Do("begin_planning") \in HandlerStep
    /\ \A do \in {"resolve", "spawn"}, turn \in Turns, told \in Sandbox :
          [do |-> do, turn |-> turn, told |-> told] \in HandlerStep
    /\ \A job \in Nat : [do |-> "sign", job |-> job] \in HandlerStep
    /\ \A job \in Nat, plan \in Plan :
          [do |-> "narrow", job |-> job, plan |-> plan] \in HandlerStep
BY DEF Say, Do, HandlerStep, SayStep

LEMMA TaskStepTypes ==
    /\ \A m \in Message : Say(m) \in TaskStep
    /\ Do("planning") \in TaskStep /\ Do("offer") \in TaskStep
    /\ \A told \in Sandbox, sandbox \in Sandbox :
          [do |-> "run", told |-> told, sandbox |-> sandbox] \in TaskStep
    /\ \A outcome \in Outcomes, before \in Nat :
          [do |-> "land", outcome |-> outcome, before |-> before] \in TaskStep
    /\ \A before \in Nat : [do |-> "drafted", before |-> before] \in TaskStep
BY DEF Say, Do, TaskStep, SayStep

\* What a step carries, by what it does.
LEMMA HandlerStepCarries ==
    ASSUME NEW step \in HandlerStep
    PROVE  /\ step.do \in {"resolve", "spawn"} => step.turn \in Turns /\ step.told \in Sandbox
           /\ step.do = "sign" => step.job \in Nat
           /\ step.do = "narrow" => step.job \in Nat /\ step.plan \in Plan
BY DEF HandlerStep, SayStep

LEMMA TaskStepCarries ==
    ASSUME NEW step \in TaskStep
    PROVE  /\ step.do = "land" => step.outcome \in Outcomes /\ step.before \in Nat
           /\ step.do = "drafted" => step.before \in Nat
BY DEF TaskStep, SayStep

\* A handler that is replaced, continued or cut short keeps its type.
LEMMA TodoTypes ==
    ASSUME TypeOK, NEW c \in Clients
    PROVE  /\ Rest(c) /\ todo[c] # <<>> => todo' \in [Clients -> Seq(HandlerStep)]
           /\ Returns(c) => todo' \in [Clients -> Seq(HandlerStep)]
           /\ \A steps \in Seq(HandlerStep) :
                 /\ Runs(c, steps) => todo' \in [Clients -> Seq(HandlerStep)]
                 /\ Continue(c, steps) /\ todo[c] # <<>> =>
                       todo' \in [Clients -> Seq(HandlerStep)]
           /\ todo[c] # <<>> => Head(todo[c]) \in HandlerStep
<1>1. todo \in [Clients -> Seq(HandlerStep)] /\ todo[c] \in Seq(HandlerStep)
    BY DEF TypeOK
<1>2. todo[c] # <<>> => Head(todo[c]) \in HandlerStep /\ Tail(todo[c]) \in Seq(HandlerStep)
    BY <1>1, StepsType
<1>3. \A steps \in Seq(HandlerStep) :
          todo[c] # <<>> => steps \o Tail(todo[c]) \in Seq(HandlerStep)
    BY <1>2, ConcatProperties
<1>4. <<>> \in Seq(HandlerStep)
    BY EmptySeq
<1> QED
    BY <1>1, <1>2, <1>3, <1>4 DEF Rest, Returns, Runs, Continue

LEMMA TaskTypes ==
    ASSUME TypeOK, NEW t \in Turns
    PROVE  /\ TaskRest(t) /\ task[t] # <<>> => task' \in [Turns -> Seq(TaskStep)]
           /\ \A steps \in Seq(TaskStep) :
                 TaskContinue(t, steps) /\ task[t] # <<>> =>
                     task' \in [Turns -> Seq(TaskStep)]
           /\ task[t] # <<>> => Head(task[t]) \in TaskStep
<1>1. task \in [Turns -> Seq(TaskStep)] /\ task[t] \in Seq(TaskStep)
    BY DEF TypeOK
<1>2. task[t] # <<>> => Head(task[t]) \in TaskStep /\ Tail(task[t]) \in Seq(TaskStep)
    BY <1>1, StepsType
<1>3. \A steps \in Seq(TaskStep) :
          task[t] # <<>> => steps \o Tail(task[t]) \in Seq(TaskStep)
    BY <1>2, ConcatProperties
<1> QED
    BY <1>1, <1>2, <1>3 DEF TaskRest, TaskContinue

\* The job a turn is in, and the id the next one gets.
LEMMA JobIds ==
    ASSUME GateInv
    PROVE  /\ CurrentJob(jobs) \in Nat
           /\ NextJobId(jobs) \in Nat
           /\ Len(jobs) \in Nat
           /\ CurrentJob(jobs) # None => jobs[Len(jobs)].plan \in Plan
           /\ jobs # <<>> => jobs[Len(jobs)].plan \in Plan
BY CurrentIsLast DEF GateInv, NextJobId, None, Job

LEMMA AnsweredTypes ==
    ASSUME TypeOK, pending # NoPlan, NEW plan, plan.turn = pending.turn,
           NEW answer \in {"declined", "approved"}
    PROVE  Append(rounds, Answered(plan, answer)) \in
               Seq([turn : Turns, answer : {"declined", "approved"}])
<1>1. Answered(plan, answer) \in [turn : Turns, answer : {"declined", "approved"}]
    BY PendingIsAPlan DEF Answered
<1>2. rounds \in Seq([turn : Turns, answer : {"declined", "approved"}])
    BY DEF TypeOK
<1> QED
    BY <1>1, <1>2, AppendProperties

-----------------------------------------------------------------------------
(***************************************************************************)
(* Each action keeps the types; the jobs are given, by StepMoves.           *)
(***************************************************************************)
LEMMA HandlesTypes ==
    ASSUME GateInv, NEW c \in Clients, Handles(c), jobs' \in Seq(Job)
    PROVE  TypeOK'
<1> USE DEF GateInv
<1>1. CASE OnPrompt(c)
  <2>1. CASE pending # NoPlan
    <3>1. <<Say(PlanDeclined), Do("begin")>> \in Seq(HandlerStep)
        BY MessageTypes, HandlerStepTypes
    <3>2. todo' \in [Clients -> Seq(HandlerStep)]
        BY <1>1, <2>1, <3>1, TodoTypes DEF OnPrompt
    <3> QED
        BY <1>1, <2>1, <3>2, AnsweredTypes DEF OnPrompt, TypeOK
  <2>2. CASE pending = NoPlan
    <3>1. <<Do("begin")>> \in Seq(HandlerStep)
        BY HandlerStepTypes
    <3>2. todo' \in [Clients -> Seq(HandlerStep)]
        BY <1>1, <2>2, <3>1, TodoTypes DEF OnPrompt
    <3> QED
        BY <1>1, <2>2, <3>2 DEF OnPrompt, TypeOK
  <2> QED
      BY <2>1, <2>2
<1>2. CASE RequestPlan(c)
  <2>1. <<Do("begin_planning")>> \in Seq(HandlerStep)
      BY HandlerStepTypes
  <2>2. todo' \in [Clients -> Seq(HandlerStep)]
      BY <1>2, <2>1, TodoTypes DEF RequestPlan
  <2> QED
      BY <1>2, <2>2 DEF RequestPlan, context, TypeOK
<1>3. CASE Cancel(c)
    BY <1>3 DEF Cancel, context, TypeOK
<1>4. CASE ApproveSigned(c)
  <2>1. <<[do |-> "sign", job |-> NextJobId(jobs)]>> \in Seq(HandlerStep)
      BY HandlerStepTypes, JobIds
  <2>2. todo' \in [Clients -> Seq(HandlerStep)]
      BY <1>4, <2>1, TodoTypes DEF ApproveSigned
  <2> QED
      BY <1>4, <2>2 DEF ApproveSigned, context, TypeOK
<1>5. CASE DeclinePlan(c)
  <2>1. <<Say(PlanDeclined)>> \in Seq(HandlerStep)
      BY MessageTypes, HandlerStepTypes
  <2>2. todo' \in [Clients -> Seq(HandlerStep)]
      BY <1>5, <2>1, TodoTypes DEF DeclinePlan
  <2> QED
      BY <1>5, <2>2, AnsweredTypes DEF DeclinePlan, TypeOK
<1>6. CASE CloseJob(c)
  <2>1. PICK job \in 1..Len(jobs) :
            narrowed' = WithoutJob(job) /\ Runs(c, <<Say(JobClosed(job, "user"))>>)
      BY <1>6 DEF CloseJob
  <2>2. <<Say(JobClosed(job, "user"))>> \in Seq(HandlerStep)
      BY MessageTypes, HandlerStepTypes, JobIds DEF Closer
  <2>3. todo' \in [Clients -> Seq(HandlerStep)]
      BY <2>1, <2>2, TodoTypes
  <2>4. narrowed' \in Sandbox
      BY <2>1, SandboxTypes DEF WithoutJob, TypeOK
  <2> QED
      BY <1>6, <2>3, <2>4 DEF CloseJob, TypeOK
<1>7. CASE ReopenJob(c)
  <2>1. PICK job \in 1..Len(jobs) :
            Reopens(job) /\ Runs(c, <<Say(JobReopened(job))>>)
      BY <1>7 DEF ReopenJob
  <2>2. job \in Nat /\ jobs # <<>>
      BY <2>1, JobIds DEF Reopens, CanReopen
  <2>3. <<Say(JobReopened(job))>> \in Seq(HandlerStep)
      BY <2>2, MessageTypes, HandlerStepTypes
  <2>4. todo' \in [Clients -> Seq(HandlerStep)]
      BY <2>1, <2>3, TodoTypes
  <2>5. narrowed' \in Sandbox
      BY <2>1, <2>2, SandboxTypes, JobIds DEF Reopens
  <2> QED
      BY <1>7, <2>4, <2>5 DEF ReopenJob, TypeOK
<1> QED
    BY <1>1, <1>2, <1>3, <1>4, <1>5, <1>6, <1>7 DEF Handles

LEMMA BeginTurnTypes ==
    ASSUME GateInv, NEW c \in Clients, BeginTurn(c)
    PROVE  TypeOK'
<1>1. PICK step \in {"begin", "begin_planning"} :
          /\ Next1(todo[c], step)
          /\ IF current # None
             THEN /\ Returns(c)
                  /\ UNCHANGED <<current, cancelled, nextTurn>>
             ELSE Starts(c, step)
          /\ UNCHANGED <<context, pending, narrowed, task>>
    BY DEF BeginTurn
<1>2. CASE current # None
  <2>1. todo' \in [Clients -> Seq(HandlerStep)]
      BY <1>1, <1>2, TodoTypes DEF GateInv
  <2> QED
      BY <1>1, <1>2, <2>1 DEF context, GateInv, TypeOK
<1>3. CASE current = None
  <2> DEFINE then == IF step = "begin" THEN "resolve" ELSE "spawn"
             started == <<Say(TurnStarted(nextTurn, CurrentJob(jobs))),
                          [do |-> then, turn |-> nextTurn, told |-> narrowed]>>
  <2>1. /\ nextTurn <= MaxTurns /\ current' = nextTurn /\ cancelled' = FALSE
        /\ nextTurn' = nextTurn + 1 /\ Runs(c, started)
      BY <1>1, <1>3 DEF Starts
  <2>2. nextTurn \in Turns /\ nextTurn + 1 \in 1..(MaxTurns + 1)
      BY <2>1, MaxTurnsAssumption DEF GateInv, TypeOK, Turns
  <2>3. narrowed \in Sandbox
      BY DEF GateInv, TypeOK
  <2>4. /\ Say(TurnStarted(nextTurn, CurrentJob(jobs))) \in HandlerStep
        /\ [do |-> then, turn |-> nextTurn, told |-> narrowed] \in HandlerStep
      BY <2>2, <2>3, MessageTypes, HandlerStepTypes, JobIds
  <2>5. started \in Seq(HandlerStep)
      BY <2>4
  <2>6. todo' \in [Clients -> Seq(HandlerStep)]
      BY <2>1, <2>5, TodoTypes DEF GateInv
  <2> QED
      BY <1>1, <2>1, <2>2, <2>6 DEF context, GateInv, TypeOK
<1> QED
    BY <1>2, <1>3

LEMMA ApproveTakenTypes ==
    ASSUME GateInv, NEW c \in Clients, ApproveTaken(c), jobs' \in Seq(Job)
    PROVE  TypeOK'
<1>1. todo[c] # <<>> /\ Head(todo[c]).do = "sign"
    BY DEF ApproveTaken, Next1
<1>2. Head(todo[c]).job \in Nat
    BY <1>1, TodoTypes, HandlerStepCarries DEF GateInv
<1>3. CASE current = None /\ pending # NoPlan
  <2>1. PICK closes \in BOOLEAN :
            TakePlan(c, Head(todo[c]).job, [pending EXCEPT !.closes = closes])
      BY <1>3 DEF ApproveTaken
  <2> DEFINE plan == [pending EXCEPT !.closes = closes]
             job == Head(todo[c]).job
             draft == CurrentJob(jobs)
             fold == IF draft # None THEN <<Say(JobClosed(draft, "approval"))>> ELSE <<>>
             steps == <<[do |-> "narrow", job |-> job, plan |-> plan],
                        Say(JobApproved(job, plan))>>
  <2>2. plan \in Plan /\ plan.turn = pending.turn
      BY <1>3, PendingIsAPlan DEF GateInv
  <2>3. steps \in Seq(HandlerStep)
      BY <1>2, <2>2, MessageTypes, HandlerStepTypes
  <2>4. fold \in Seq(HandlerStep)
      BY MessageTypes, HandlerStepTypes, JobIds DEF Closer
  <2>5. fold \o steps \in Seq(HandlerStep)
      BY <2>3, <2>4, ConcatProperties
  <2>6. /\ rounds' = Append(rounds, Answered(plan, "approved")) /\ pending' = NoPlan
        /\ Continue(c, fold \o steps)
      BY <2>1 DEF TakePlan
  <2>7. todo' \in [Clients -> Seq(HandlerStep)]
      BY <1>1, <2>5, <2>6, TodoTypes DEF GateInv
  <2>8. rounds' \in Seq([turn : Turns, answer : {"declined", "approved"}])
      BY <1>3, <2>2, <2>6, AnsweredTypes DEF GateInv
  <2> QED
      BY <2>6, <2>7, <2>8 DEF ApproveTaken, GateInv, TypeOK
<1>4. CASE ~(current = None /\ pending # NoPlan)
  <2>1. todo' \in [Clients -> Seq(HandlerStep)]
      BY <1>4, TodoTypes DEF ApproveTaken, GateInv
  <2> QED
      BY <1>4, <2>1 DEF ApproveTaken, GateInv, TypeOK
<1> QED
    BY <1>3, <1>4

LEMMA HandlerContinuesTypes ==
    ASSUME GateInv, NEW c \in Clients, HandlerContinues(c) \/ HandlerSays(c),
           jobs' \in Seq(Job)
    PROVE  TypeOK'
<1>1. CASE Resolve(c)
  <2>1. /\ todo[c] # <<>> /\ Head(todo[c]).do = "resolve" /\ Rest(c)
      BY <1>1 DEF Resolve, Next1
  <2>2. Head(todo[c]).turn \in Turns /\ Head(todo[c]).told \in Sandbox
      BY <2>1, TodoTypes, HandlerStepCarries DEF GateInv
  <2>3. LiveSandbox \in Sandbox
      BY SandboxTypes DEF LiveSandbox, GateInv, TypeOK
  <2> DEFINE run == [do |-> "run", told |-> Head(todo[c]).told, sandbox |-> LiveSandbox]
  <2>4. <<run>> \in Seq(TaskStep)
      BY <2>2, <2>3, TaskStepTypes
  <2>5. task' = [task EXCEPT ![Head(todo[c]).turn] = <<run>>]
      BY <1>1 DEF Resolve
  <2>6. task' \in [Turns -> Seq(TaskStep)]
      BY <2>2, <2>4, <2>5 DEF GateInv, TypeOK
  <2>7. todo' \in [Clients -> Seq(HandlerStep)]
      BY <2>1, TodoTypes DEF GateInv
  <2> QED
      BY <1>1, <2>6, <2>7 DEF Resolve, context, GateInv, TypeOK
<1>2. CASE SpawnPlanning(c)
  <2>1. /\ todo[c] # <<>> /\ Head(todo[c]).do = "spawn" /\ Rest(c)
      BY <1>2 DEF SpawnPlanning, Next1
  <2>2. Head(todo[c]).turn \in Turns
      BY <2>1, TodoTypes, HandlerStepCarries DEF GateInv
  <2>3. <<Do("planning")>> \in Seq(TaskStep)
      BY TaskStepTypes
  <2>4. task' = [task EXCEPT ![Head(todo[c]).turn] = <<Do("planning")>>]
      BY <1>2 DEF SpawnPlanning
  <2>5. task' \in [Turns -> Seq(TaskStep)]
      BY <2>2, <2>3, <2>4 DEF GateInv, TypeOK
  <2>6. todo' \in [Clients -> Seq(HandlerStep)]
      BY <2>1, TodoTypes DEF GateInv
  <2> QED
      BY <1>2, <2>5, <2>6 DEF SpawnPlanning, context, GateInv, TypeOK
<1>3. CASE Narrow(c)
  <2>1. /\ todo[c] # <<>> /\ Head(todo[c]).do = "narrow" /\ Rest(c)
        /\ narrowed' \in Narrowings(Head(todo[c]).job, Head(todo[c]).plan)
      BY <1>3 DEF Narrow, Next1
  <2>2. Head(todo[c]).job \in Nat /\ Head(todo[c]).plan \in Plan
      BY <2>1, TodoTypes, HandlerStepCarries DEF GateInv
  <2>3. narrowed' \in Sandbox
      BY <2>1, <2>2, SandboxTypes
  <2>4. todo' \in [Clients -> Seq(HandlerStep)]
      BY <2>1, TodoTypes DEF GateInv
  <2> QED
      BY <1>3, <2>3, <2>4 DEF Narrow, context, GateInv, TypeOK
<1>4. CASE HandlerSays(c)
  <2>1. todo' \in [Clients -> Seq(HandlerStep)]
      BY <1>4, TodoTypes DEF HandlerSays, Next1, GateInv
  <2> QED
      BY <1>4, <2>1 DEF HandlerSays, context, GateInv, TypeOK
<1> QED
    BY <1>1, <1>2, <1>3, <1>4, BeginTurnTypes, ApproveTakenTypes DEF HandlerContinues

LEMMA LandTypes ==
    ASSUME GateInv, NEW t \in Turns, Land(t), jobs' \in Seq(Job)
    PROVE  TypeOK'
<1> DEFINE before == Head(task[t]).before
           outcome == Head(task[t]).outcome
           placed == IF outcome.lands THEN WithPlaceToLand(jobs) ELSE jobs
           landed == IF outcome.lands THEN Landed(t, placed) ELSE turns
           live == CurrentJob(placed)
           met == Met(placed, landed)
           close == IF met THEN <<Say(JobClosed(live, "exit_code"))>> ELSE <<>>
           offer == IF outcome.plan THEN <<Do("offer")>> ELSE <<>>
           drafted == <<[do |-> "drafted", before |-> before]>>
<1>1. task[t] # <<>> /\ Head(task[t]).do = "land"
    BY DEF Land, Next1
<1>2. outcome \in Outcomes /\ before \in Nat
    BY <1>1, TaskTypes, TaskStepCarries DEF GateInv
<1>3. live \in Nat
  <2>1. WellFormed(placed)
      BY LandShape, OpensDraftKeeps DEF GateInv
  <2> QED
      BY <2>1, CurrentIsLast DEF None
<1>4. landed \in Seq(Turn)
  <2>1. t \in Nat
      BY MaxTurnsAssumption DEF Turns
  <2>2. outcome.ran \in BOOLEAN
      BY <1>2 DEF Outcomes
  <2>3. [id |-> t, job |-> live, ran |-> outcome.ran] \in Turn
      BY <1>3, <2>1, <2>2 DEF Turn
  <2>4. turns \in Seq(Turn)
      BY DEF GateInv, TypeOK
  <2>5. Landed(t, placed) \in Seq(Turn)
      BY <2>3, <2>4, AppendProperties DEF Landed
  <2> QED
      BY <2>4, <2>5
<1>5. drafted \in Seq(TaskStep)
    BY <1>2, TaskStepTypes
<1>6. close \in Seq(TaskStep)
    BY <1>3, MessageTypes, TaskStepTypes DEF Closer
<1>7. offer \in Seq(TaskStep)
    BY TaskStepTypes
<1>8. drafted \o close \o offer \in Seq(TaskStep)
    BY <1>5, <1>6, <1>7, ConcatProperties
<1>9. /\ TaskContinue(t, drafted \o close \o offer)
      /\ turns' = landed
      /\ narrowed' = IF met THEN WithoutJob(live) ELSE narrowed
    BY DEF Land
<1>10. task' \in [Turns -> Seq(TaskStep)]
    BY <1>1, <1>8, <1>9, TaskTypes DEF GateInv
<1>11. narrowed' \in Sandbox
    BY <1>9, SandboxTypes DEF WithoutJob, GateInv, TypeOK
<1>12. /\ current' = None /\ cancelled' = FALSE
       /\ UNCHANGED <<rounds, pending, nextTurn, todo>>
    BY DEF Land
<1> QED
    BY <1>4, <1>9, <1>10, <1>11, <1>12 DEF GateInv, TypeOK

LEMMA TaskContinuesTypes ==
    ASSUME GateInv, NEW t \in Turns,
           TaskContinues(t) \/ ModelReturns(t) \/ TaskSays(t), jobs' \in Seq(Job)
    PROVE  TypeOK'
<1>1. CASE Drafted(t)
  <2>1. task[t] # <<>>
      BY <1>1 DEF Drafted, Next1
  <2>2. <<Say(DraftOpened(CurrentJob(jobs), t))>> \in Seq(TaskStep)
      BY MessageTypes, TaskStepTypes, JobIds
  <2>3. task' \in [Turns -> Seq(TaskStep)]
      BY <1>1, <2>1, <2>2, TaskTypes DEF Drafted, GateInv
  <2> QED
      BY <1>1, <2>3 DEF Drafted, context, GateInv, TypeOK
<1>2. CASE Offer(t)
  <2>1. task[t] # <<>>
      BY <1>2 DEF Offer, Next1
  <2>2. <<Say(PlanProposed(t))>> \in Seq(TaskStep)
      BY MessageTypes, TaskStepTypes
  <2>3. task' \in [Turns -> Seq(TaskStep)]
      BY <1>2, <2>1, <2>2, TaskTypes DEF Offer, GateInv
  <2>4. pending' \in [turn : Turns, closes : BOOLEAN] \cup {NoPlan}
    <3>1. [turn |-> t, closes |-> FALSE] \in [turn : Turns, closes : BOOLEAN]
        OBVIOUS
    <3>2. pending' = [turn |-> t, closes |-> FALSE] \/ pending' = pending
        BY <1>2 DEF Offer
    <3> QED
        BY <3>1, <3>2 DEF GateInv, TypeOK
  <2> QED
      BY <1>2, <2>3, <2>4 DEF Offer, context, GateInv, TypeOK
<1>3. CASE RunEnds(t)
  <2>1. task[t] # <<>>
      BY <1>3 DEF RunEnds, Next1
  <2>2. PICK outcome \in Outcomes :
            TaskContinue(t, <<[do |-> "land", outcome |-> outcome,
                               before |-> CurrentJob(jobs)]>>)
      BY <1>3 DEF RunEnds
  <2>3. <<[do |-> "land", outcome |-> outcome, before |-> CurrentJob(jobs)]>>
            \in Seq(TaskStep)
      BY TaskStepTypes, JobIds
  <2>4. task' \in [Turns -> Seq(TaskStep)]
      BY <2>1, <2>2, <2>3, TaskTypes DEF GateInv
  <2> QED
      BY <1>3, <2>4 DEF RunEnds, context, GateInv, TypeOK
<1>4. CASE PlanningEnds(t)
  <2>1. task[t] # <<>>
      BY <1>4 DEF PlanningEnds, Next1
  <2>2. PICK broken \in BOOLEAN :
            TaskContinue(t, IF broken THEN <<>> ELSE <<Do("offer")>>)
      BY <1>4 DEF PlanningEnds
  <2>3. (IF broken THEN <<>> ELSE <<Do("offer")>>) \in Seq(TaskStep)
      BY TaskStepTypes
  <2>4. task' \in [Turns -> Seq(TaskStep)]
      BY <2>1, <2>2, <2>3, TaskTypes DEF GateInv
  <2> QED
      BY <1>4, <2>4 DEF PlanningEnds, context, GateInv, TypeOK
<1>5. CASE TaskSays(t)
  <2>1. task' \in [Turns -> Seq(TaskStep)]
      BY <1>5, TaskTypes DEF TaskSays, Next1, GateInv
  <2> QED
      BY <1>5, <2>1 DEF TaskSays, context, GateInv, TypeOK
<1> QED
    BY <1>1, <1>2, <1>3, <1>4, <1>5, LandTypes DEF TaskContinues, ModelReturns

-----------------------------------------------------------------------------
\* The invariant holds at first, and every step keeps it.
LEMMA InitInv ==
    ASSUME Init
    PROVE  GateInv
<1>1. Len(<<>>) = 0 /\ \A S : <<>> \in Seq(S)
    BY EmptySeq
<1>2. WellFormed(jobs)
    BY <1>1 DEF Init, WellFormed
<1>3. 1 \in 1..(MaxTurns + 1)
    BY MaxTurnsAssumption
<1>4. TypeOK
    BY <1>1, <1>3, SandboxTypes DEF Init, TypeOK
<1> QED
    BY <1>2, <1>4 DEF GateInv, PendingInADraft, Init

LEMMA StepInv ==
    ASSUME GateInv, [Next]_vars
    PROVE  GateInv'
<1>1. Move(jobs, jobs') /\ PendingInADraft'
    BY StepMoves
<1>2. WellFormed(jobs')
    BY <1>1, MoveKeeps DEF GateInv
<1>3. jobs' \in Seq(Job)
    BY <1>2 DEF WellFormed
<1>4. TypeOK'
  <2>1. CASE UNCHANGED vars
      BY <2>1 DEF vars, GateInv, TypeOK
  <2>2. CASE Next
      BY <1>3, <2>2, HandlesTypes, HandlerContinuesTypes, TaskContinuesTypes
         DEF Next, Silent
  <2> QED
      BY <2>1, <2>2
<1> QED
    BY <1>1, <1>2, <1>4 DEF GateInv, WellFormed

\* The invariant of the session, for any number of clients and turns.
THEOREM Invariance == Spec => []GateInv
<1>1. Init => GateInv
    BY InitInv
<1>2. GateInv /\ [Next]_vars => GateInv'
    BY StepInv
<1> QED
    BY <1>1, <1>2, PTL DEF Spec

\* Every variable, and every step a handler or a task has left, keeps its type
\* (serve.rs, Session and its handlers).
THEOREM TypesHold == Spec => []TypeOK
<1>1. GateInv => TypeOK
    BY DEF GateInv
<1> QED
    BY <1>1, Invariance, PTL

\* At most one job is open and it is the last (context.rs, current_job): no
\* interleaving of handlers opens a second one or leaves one open behind.
THEOREM OneJobIsOpen == Spec => []OneOpenJob
<1>1. GateInv => OneOpenJob
    BY DEF GateInv, WellFormed, OneOpenJob
<1> QED
    BY <1>1, Invariance, PTL

\* A plan is on the table only inside an open draft (serve.rs, offer and every
\* handler that closes a job).
THEOREM PlansAreOfferedInDrafts == Spec => []PendingInADraft
<1>1. GateInv => PendingInADraft
    BY DEF GateInv
<1> QED
    BY <1>1, Invariance, PTL

\* Every plan job stands right behind the draft its approval folded, and no
\* approval folds anything else (context.rs, approve_plan).
THEOREM PlansFollowTheirDrafts == Spec => []PlanFollowsItsDraft
<1>1. GateInv => PlanFollowsItsDraft
    BY DEF GateInv, WellFormed, PlanFollowsItsDraft
<1> QED
    BY <1>1, Invariance, PTL

\* A job behind the last one never changes, and no job changes its plan
\* (context.rs, reopen_job).
THEOREM FoldsStay == Spec => FoldsAreFinal
<1>1. ASSUME GateInv, [Next]_vars
      PROVE  [/\ Len(jobs) <= Len(jobs')
              /\ \A i \in 1..Len(jobs) :
                    /\ jobs'[i].id = jobs[i].id /\ jobs'[i].plan = jobs[i].plan
                    /\ i < Len(jobs) => jobs'[i] = jobs[i]]_vars
    BY <1>1, StepMoves, MoveIsFinal DEF GateInv
<1> QED
    BY <1>1, Invariance, PTL DEF Spec, FoldsAreFinal

LEMMA NothingFolds ==
    ASSUME Next, current # None, current' = current
    PROVE  UNCHANGED <<jobs, turns>>
<1>1. ASSUME NEW c \in Clients, Handles(c)
      PROVE  UNCHANGED <<jobs, turns>>
    BY <1>1 DEF Handles, OnPrompt, RequestPlan, Cancel, ApproveSigned, DeclinePlan,
       CloseJob, MayClose, ReopenJob, Reopens, context
<1>2. ASSUME NEW c \in Clients, HandlerContinues(c)
      PROVE  UNCHANGED <<jobs, turns>>
    BY <1>2 DEF HandlerContinues, BeginTurn, Resolve, SpawnPlanning, ApproveTaken,
       Narrow, context
<1>3. ASSUME NEW t \in Turns, TaskContinues(t)
      PROVE  UNCHANGED <<jobs, turns>>
    BY <1>3 DEF TaskContinues, Land, Drafted, Offer, context
<1>4. ASSUME NEW t \in Turns, ModelReturns(t)
      PROVE  UNCHANGED <<jobs, turns>>
    BY <1>4 DEF ModelReturns, RunEnds, PlanningEnds, context
<1>5. ASSUME NEW c \in Clients, HandlerSays(c)
      PROVE  UNCHANGED <<jobs, turns>>
    BY <1>5 DEF HandlerSays, context
<1>6. ASSUME NEW t \in Turns, TaskSays(t)
      PROVE  UNCHANGED <<jobs, turns>>
    BY <1>6 DEF TaskSays, context
<1> QED
    BY <1>1, <1>2, <1>3, <1>4, <1>5, <1>6 DEF Next, Silent

\* While a turn runs, no client folds, opens or reopens a job under it
\* (serve.rs, the Busy refusals and the section that ends a turn).
THEOREM NothingFoldsWhileATurnRuns == Spec => NothingFoldsUnderATurn
<1>1. [Next]_vars => [current # None /\ current' = current => UNCHANGED <<jobs, turns>>]_vars
    BY NothingFolds
<1> QED
    BY <1>1, PTL DEF Spec, NothingFoldsUnderATurn

(***************************************************************************)
(* Turns and jobs: a turn lands in the last job there is, and a draft is     *)
(* opened by the turn that lands in it.                                     *)
(***************************************************************************)
InPlace ==
    /\ \A i \in 1..Len(turns) : turns[i].job \in 1..Len(jobs)
    /\ TurnsFollowTheJobs

LEMMA SameLengthOpensNothing ==
    ASSUME GateInv, Len(jobs') = Len(jobs)
    PROVE  ~OpensDraft(jobs, jobs')
<1>1. Len(jobs) \in Nat
    BY CurrentIsLast DEF GateInv
<1> QED
    BY <1>1 DEF OpensDraft

\* Nothing but the end of a turn lands one or opens a draft.
LEMMA OnlyLandLands ==
    ASSUME GateInv, [Next]_vars, \A t \in Turns : ~Land(t)
    PROVE  turns' = turns /\ ~OpensDraft(jobs, jobs')
<1>1. ASSUME UNCHANGED jobs, UNCHANGED turns
      PROVE  turns' = turns /\ ~OpensDraft(jobs, jobs')
    BY <1>1, SameLengthOpensNothing
<1>2. ASSUME NEW c \in Clients, Handles(c)
      PROVE  turns' = turns /\ ~OpensDraft(jobs, jobs')
  <2>1. CASE OnPrompt(c) \/ RequestPlan(c) \/ Cancel(c) \/ ApproveSigned(c)
             \/ DeclinePlan(c)
      BY <1>1, <2>1
         DEF OnPrompt, RequestPlan, Cancel, ApproveSigned, DeclinePlan, context
  <2>2. CASE CloseJob(c)
    <3>1. PICK job \in 1..Len(jobs) : jobs' = CloseJobBy(jobs, job, "user")
        BY <2>2 DEF CloseJob
    <3>2. Len(jobs') = Len(jobs)
        BY <3>1, CurrentIsLast DEF CloseJobBy, GateInv
    <3> QED
        BY <2>2, <3>2, SameLengthOpensNothing DEF CloseJob
  <2>3. CASE ReopenJob(c)
    <3>1. PICK job \in 1..Len(jobs) : jobs' = Reopened(jobs, job)
        BY <2>3 DEF ReopenJob, Reopens
    <3>2. Len(jobs') = Len(jobs)
        BY <3>1, CurrentIsLast DEF Reopened, GateInv
    <3> QED
        BY <2>3, <3>2, SameLengthOpensNothing DEF ReopenJob
  <2> QED
      BY <1>2, <2>1, <2>2, <2>3 DEF Handles
<1>3. ASSUME NEW c \in Clients, HandlerContinues(c)
      PROVE  turns' = turns /\ ~OpensDraft(jobs, jobs')
  <2>1. CASE BeginTurn(c) \/ Resolve(c) \/ SpawnPlanning(c) \/ Narrow(c)
      BY <1>1, <2>1 DEF BeginTurn, Resolve, SpawnPlanning, Narrow, context
  <2>2. CASE ApproveTaken(c)
    <3>1. turns' = turns
        BY <2>2 DEF ApproveTaken, TakePlan, context
    <3>2. CASE pending # NoPlan
        BY <3>1, <3>2 DEF GateInv, PendingInADraft, Drafting, OpensDraft
    <3>3. CASE pending = NoPlan
        BY <1>1, <2>2, <3>1, <3>3 DEF ApproveTaken
    <3> QED
        BY <3>2, <3>3
  <2> QED
      BY <1>3, <2>1, <2>2 DEF HandlerContinues
<1>4. ASSUME NEW t \in Turns, TaskContinues(t) \/ ModelReturns(t) \/ TaskSays(t)
      PROVE  turns' = turns /\ ~OpensDraft(jobs, jobs')
    BY <1>1, <1>4 DEF TaskContinues, Drafted, Offer, ModelReturns, RunEnds,
       PlanningEnds, TaskSays, context
<1>5. ASSUME NEW c \in Clients, HandlerSays(c)
      PROVE  turns' = turns /\ ~OpensDraft(jobs, jobs')
    BY <1>1, <1>5 DEF HandlerSays, context
<1>6. CASE UNCHANGED vars
    BY <1>1, <1>6 DEF vars
<1> QED
    BY <1>2, <1>3, <1>4, <1>5, <1>6 DEF Next, Silent

\* No job behind the ones there were is a draft, unless one was opened.
LEMMA DraftsAreKnown ==
    ASSUME NEW s, WellFormed(s), NEW r, Move(s, r), NEW j \in 1..Len(r),
           IsDraft(r[j]), ~OpensDraft(s, r) \/ j # Len(r)
    PROVE  j \in 1..Len(s) /\ IsDraft(s[j])
<1>1. Len(s) \in Nat
    BY CurrentIsLast
<1>2. j \in 1..Len(s)
  <2>1. CASE r = s
      BY <2>1
  <2>2. CASE OpensDraft(s, r)
      BY <1>1, <2>2 DEF OpensDraft
  <2>3. ASSUME NEW by, ClosesLast(s, r, by)
        PROVE  j \in 1..Len(s)
      BY <2>3 DEF ClosesLast
  <2>4. CASE ReopensLast(s, r)
      BY <2>4 DEF ReopensLast
  <2>5. ASSUME NEW plan \in Plan \ {NoPlan}, ApprovesInDraft(s, r, plan)
        PROVE  j \in 1..Len(s)
    <3>1. Len(r) = Len(s) + 1 /\ r[Len(r)] = Planned(Len(r), plan)
        BY <2>5 DEF ApprovesInDraft
    <3>2. j # Len(r)
        BY <3>1 DEF Planned, IsDraft
    <3> QED
        BY <1>1, <3>1, <3>2
  <2> QED
      BY <2>1, <2>2, <2>3, <2>4, <2>5 DEF Move
<1>3. r[j].plan = s[j].plan
    BY <1>2, MoveIsFinal
<1> QED
    BY <1>2, <1>3 DEF IsDraft

LEMMA NoTurnInPlace ==
    ASSUME GateInv, InPlace, Move(jobs, jobs'), turns' = turns, ~OpensDraft(jobs, jobs')
    PROVE  InPlace'
<1>1. Len(jobs) \in Nat /\ Len(jobs) <= Len(jobs')
    BY CurrentIsLast, MoveIsFinal DEF GateInv
<1>2. Len(jobs') \in Nat
    BY MoveKeeps, CurrentIsLast DEF GateInv
<1>3. \A i \in 1..Len(turns) : turns[i].job \in 1..Len(jobs')
    BY <1>1, <1>2 DEF InPlace
<1>4. ASSUME NEW j \in 1..Len(jobs'), IsDraft(jobs'[j])
      PROVE  \E i \in 1..Len(turns) : turns[i].job = j
  <2>1. j \in 1..Len(jobs) /\ IsDraft(jobs[j])
      BY <1>4, DraftsAreKnown DEF GateInv
  <2> QED
      BY <2>1 DEF InPlace, TurnsFollowTheJobs
<1> QED
    BY <1>3, <1>4 DEF InPlace, TurnsFollowTheJobs

LEMMA LandInPlace ==
    ASSUME GateInv, InPlace, NEW t \in Turns, Land(t)
    PROVE  InPlace'
<1> DEFINE outcome == Head(task[t]).outcome
           placed == IF outcome.lands THEN WithPlaceToLand(jobs) ELSE jobs
           landed == IF outcome.lands THEN Landed(t, placed) ELSE turns
<1>1. jobs' = CloseIfMet(placed, landed) /\ turns' = landed
    BY DEF Land
<1>2. Move(jobs, jobs')
    BY LandMoves
<1>3. placed = jobs \/ OpensDraft(jobs, placed)
    BY LandShape DEF GateInv
<1>4. WellFormed(placed)
    BY <1>3, OpensDraftKeeps DEF GateInv
<1>5. Len(placed) \in Nat /\ Len(jobs) \in Nat
    BY <1>4, CurrentIsLast DEF GateInv
<1>6. Len(jobs') = Len(placed)
    BY <1>1, <1>5 DEF CloseIfMet, CloseJobBy
<1>7. CASE ~outcome.lands
  <2>1. turns' = turns /\ Len(jobs') = Len(jobs)
      BY <1>1, <1>6, <1>7
  <2> QED
      BY <1>2, <2>1, NoTurnInPlace, SameLengthOpensNothing
<1>8. CASE outcome.lands
  <2>1. CurrentJob(placed) # None /\ CurrentJob(placed) = Len(placed)
    <3>1. CASE CurrentJob(jobs) # None
      <4>1. placed = jobs
          BY <1>8, <3>1 DEF WithPlaceToLand
      <4> QED
          BY <1>4, <3>1, <4>1, CurrentIsLast
    <3>2. CASE CurrentJob(jobs) = None
      <4>1. placed = Append(jobs, Draft(Len(jobs) + 1))
          BY <1>8, <3>2 DEF WithPlaceToLand, NextJobId
      <4>2. Len(placed) = Len(jobs) + 1
          BY <4>1 DEF GateInv, WellFormed
      <4>3. OpensDraft(jobs, placed)
          BY <1>3, <1>5, <4>2
      <4> QED
          BY <4>3, OpensDraftKeeps, <1>4, CurrentIsLast DEF Drafting, GateInv
    <3> QED
        BY <3>1, <3>2
  <2>2. PICK turn : turn.job = Len(placed) /\ turns' = Append(turns, turn)
    <3>1. [id |-> t, job |-> CurrentJob(placed),
           ran |-> Head(task[t]).outcome.ran].job = Len(placed)
        BY <2>1
    <3> QED
        BY <1>1, <1>8, <3>1 DEF Landed
  <2>3. /\ Len(turns) \in Nat /\ Len(turns') = Len(turns) + 1
        /\ \A i \in 1..Len(turns) : turns'[i] = turns[i]
        /\ turns'[Len(turns) + 1] = turn
    <3>1. turns \in Seq(Turn \cup {turn}) /\ turn \in Turn \cup {turn}
        BY DEF GateInv, TypeOK
    <3> QED
        BY <2>2, <3>1
  <2>4. Len(jobs) <= Len(jobs') /\ Len(jobs') \in 1..Len(jobs')
      BY <1>2, <1>4, <1>5, <1>6, <2>1, MoveIsFinal, CurrentIsLast DEF GateInv
  <2>5. ASSUME NEW i \in 1..Len(turns')
        PROVE  /\ i \in 1..Len(turns) => turns'[i] = turns[i]
               /\ i \notin 1..Len(turns) => turns'[i].job = Len(jobs')
               /\ turns'[i].job \in 1..Len(jobs')
    <3>1. CASE i \in 1..Len(turns)
      <4>1. turns'[i] = turns[i] /\ turns[i].job \in 1..Len(jobs)
          BY <2>3, <3>1 DEF InPlace
      <4> QED
          BY <1>5, <1>6, <2>4, <3>1, <4>1
    <3>2. CASE i \notin 1..Len(turns)
      <4>1. i = Len(turns) + 1
          BY <2>3, <3>2
      <4> QED
          BY <1>6, <2>2, <2>3, <2>4, <3>2, <4>1
    <3> QED
        BY <3>1, <3>2
  <2>6. ASSUME NEW i \in 1..Len(turns'), NEW k \in 1..Len(turns'), i < k
        PROVE  turns'[i].job <= turns'[k].job
    <3>1. CASE k \in 1..Len(turns)
      <4>1. i \in 1..Len(turns)
          BY <2>3, <2>6, <3>1
      <4> QED
          BY <2>5, <2>6, <3>1, <4>1 DEF InPlace, TurnsFollowTheJobs
    <3>2. CASE k \notin 1..Len(turns)
        BY <2>5, <3>2
    <3> QED
        BY <3>1, <3>2
  <2>7. ASSUME NEW j \in 1..Len(jobs'), IsDraft(jobs'[j])
        PROVE  \E i \in 1..Len(turns') : turns'[i].job = j
    <3>1. CASE j = Len(jobs')
      <4>1. Len(turns) + 1 \in 1..Len(turns')
          BY <2>3
      <4> QED
          BY <1>6, <2>2, <2>3, <3>1, <4>1
    <3>2. CASE j # Len(jobs')
      <4>1. j \in 1..Len(jobs) /\ IsDraft(jobs[j])
          BY <1>2, <2>7, <3>2, DraftsAreKnown DEF GateInv
      <4>2. PICK i \in 1..Len(turns) : turns[i].job = j
          BY <4>1 DEF InPlace, TurnsFollowTheJobs
      <4> QED
          BY <2>3, <4>2
    <3> QED
        BY <3>1, <3>2
  <2> QED
      BY <2>5, <2>6, <2>7 DEF InPlace, TurnsFollowTheJobs
<1> QED
    BY <1>7, <1>8

\* The turns of a job stand together, in the order of the jobs, and no draft is
\* empty: the window folds a job into one item because of it (context.rs,
\* push_turn_with_steps and items_from).
THEOREM TurnsAreInPlace == Spec => []TurnsFollowTheJobs
<1>1. Init => InPlace
    BY DEF Init, InPlace, TurnsFollowTheJobs
<1>2. GateInv /\ InPlace /\ [Next]_vars => InPlace'
  <2> SUFFICES ASSUME GateInv, InPlace, [Next]_vars
               PROVE  InPlace'
      OBVIOUS
  <2>1. ASSUME NEW t \in Turns, Land(t)
        PROVE  InPlace'
      BY <2>1, LandInPlace
  <2>2. CASE \A t \in Turns : ~Land(t)
      BY <2>2, StepMoves, OnlyLandLands, NoTurnInPlace
  <2> QED
      BY <2>1, <2>2
<1>3. InPlace => TurnsFollowTheJobs
    BY DEF InPlace
<1> QED
    BY <1>1, <1>2, <1>3, Invariance, PTL DEF Spec

-----------------------------------------------------------------------------
(***************************************************************************)
(* The session implements the alternation it promises: each shape of a step  *)
(* on the jobs is a step of Alternation, or none.                           *)
(***************************************************************************)
\* Gate's mapping, in terms of the jobs alone.
LEMMA MappingIsOfTheJobs ==
    Folds = FoldsOf(jobs) /\ Live = LiveOf(jobs)
BY DEF Folds, Live, FoldsOf, LiveOf, Fold, FoldOf, Kind

LEMMA MappingIsOfTheJobsNext ==
    Folds' = FoldsOf(jobs') /\ Live' = LiveOf(jobs')
BY DEF Folds, Live, FoldsOf, LiveOf, Fold, FoldOf, Kind

\* A move of the jobs is a step of the alternation.
LEMMA MoveAlternates ==
    ASSUME GateInv, Move(jobs, jobs')
    PROVE  [A!Next]_A!vars
<1> USE MappingIsOfTheJobs, MappingIsOfTheJobsNext
<1>1. CASE jobs' = jobs
    BY <1>1 DEF A!vars
<1>2. CASE OpensDraft(jobs, jobs')
    BY <1>2, OpensDraftAlternates DEF GateInv, A!Next, A!OpenDraft
<1>3. ASSUME NEW by \in {"user", "exit_code"}, ClosesLast(jobs, jobs', by),
             by = "exit_code" => ~IsDraft(jobs[Len(jobs)])
      PROVE  A!Next
  <2>1. /\ LiveOf(jobs) # "none" /\ LiveOf(jobs') = "none"
        /\ FoldsOf(jobs') = Append(FoldsOf(jobs), [kind |-> LiveOf(jobs), by |-> by])
        /\ by = "exit_code" => LiveOf(jobs) = "plan"
      BY <1>3, ClosesLastAlternates DEF GateInv
  <2> QED
      BY <2>1 DEF A!Next, A!Fold
<1>4. CASE ReopensLast(jobs, jobs')
    BY <1>4, ReopensLastAlternates DEF GateInv, A!Next, A!Reopen
<1>5. ASSUME NEW plan \in Plan \ {NoPlan}, ApprovesInDraft(jobs, jobs', plan)
      PROVE  A!Next
    BY <1>5, ApprovesInDraftAlternates DEF GateInv, A!Next, A!Approve
<1> QED
    BY <1>1, <1>2, <1>3, <1>4, <1>5 DEF Move

\* Whatever the handlers and the tasks do in whatever order, a person sees the
\* alternation: draft, approval, plan job, fold (context.rs, approve_plan and
\* reopen_job; serve.rs, offer).
THEOREM TheSessionAlternates == Spec => AlternationSpec
<1>1. Init => A!Init
  <2> SUFFICES ASSUME Init PROVE A!Init
      OBVIOUS
  <2>1. jobs = <<>> /\ Len(<<>>) = 0
      BY EmptySeq DEF Init
  <2>2. CurrentJob(jobs) = None
      BY <2>1 DEF CurrentJob
  <2>3. Live = "none"
      BY <2>2 DEF Live
  <2>4. FoldsOf(jobs) \in Seq(AFold) /\ Len(FoldsOf(jobs)) = 0
      BY <2>1, <2>2, InitInv, FoldsShape DEF GateInv
  <2>5. Folds = <<>>
      BY <2>4, MappingIsOfTheJobs, EmptySeq
  <2> QED
      BY <2>3, <2>5 DEF A!Init
<1>2. GateInv /\ [Next]_vars => [A!Next]_A!vars
    BY StepMoves, MoveAlternates
<1> QED
    BY <1>1, <1>2, Invariance, PTL DEF Spec, AlternationSpec, A!Spec

-----------------------------------------------------------------------------
(***************************************************************************)
(* One turn runs.  A step after which a handler is done with a turn, or with  *)
(* the plan, is the last of its handler, and so is the offer of a task; the    *)
(* step a turn flies by is alone in its task.  So what carries a turn can be   *)
(* told from what is left of the handlers and of the tasks, and every step of  *)
(* the session has one of five shapes: a handler or a task goes on with what   *)
(* it carried, a turn starts, is handed over to its task, or ends.           *)
(***************************************************************************)
Ending == {"begin", "begin_planning", "resolve", "spawn", "sign"}
Flying == {"run", "land", "planning"}

EndsOnly(steps) == \A i \in 1..Len(steps) : steps[i].do \in Ending => i = Len(steps)
FliesAlone(steps) == \A i \in 1..Len(steps) : steps[i].do \in Flying => Len(steps) = 1
OffersLast(steps) == \A i \in 1..Len(steps) : steps[i].do = "offer" => i = Len(steps)

Carries(steps, t) ==
    \E i \in 1..Len(steps) : steps[i].do \in {"resolve", "spawn"} /\ steps[i].turn = t
Flies(steps) == \E i \in 1..Len(steps) : steps[i].do \in Flying
Offers(steps) == \E i \in 1..Len(steps) : steps[i].do = "offer"

Flight ==
    /\ \A c \in Clients : EndsOnly(todo[c])
    /\ \A t \in Turns : FliesAlone(task[t]) /\ OffersLast(task[t])
    /\ \A c \in Clients, t \in Turns : Carries(todo[c], t) => t = current
    /\ \A t \in Turns : Flies(task[t]) => t = current
    /\ \A c, d \in Clients, t \in Turns :
          Carries(todo[c], t) /\ Carries(todo[d], t) => c = d
    /\ \A c \in Clients, t \in Turns : ~(Carries(todo[c], t) /\ Flies(task[t]))
    /\ current # None =>
          (\E c \in Clients : Carries(todo[c], current)) \/ Flies(task[current])

\* The five shapes, by what is left of the handler and of the task.
HandlerGoesOn(c, steps) ==
    /\ todo' = [todo EXCEPT ![c] = steps]
    /\ EndsOnly(steps)
    /\ \A t \in Turns : Carries(steps, t) <=> Carries(todo[c], t)
    /\ UNCHANGED <<current, nextTurn, task>>

TurnStarts(c, steps) ==
    /\ current = None
    /\ nextTurn \in Turns
    /\ current' = nextTurn
    /\ nextTurn' = nextTurn + 1
    /\ todo' = [todo EXCEPT ![c] = steps]
    /\ EndsOnly(steps)
    /\ \A t \in Turns : Carries(steps, t) <=> t = nextTurn
    /\ UNCHANGED task

HandsOver(c, t, steps) ==
    /\ Carries(todo[c], t)
    /\ todo' = [todo EXCEPT ![c] = <<>>]
    /\ task' = [task EXCEPT ![t] = steps]
    /\ FliesAlone(steps) /\ Flies(steps) /\ OffersLast(steps)
    /\ UNCHANGED <<current, nextTurn>>

TaskGoesOn(t, steps) ==
    /\ task[t] # <<>>
    /\ task' = [task EXCEPT ![t] = steps]
    /\ FliesAlone(steps) /\ OffersLast(steps)
    /\ Flies(steps) <=> Flies(task[t])
    /\ Offers(steps) => Offers(task[t])
    /\ UNCHANGED <<current, nextTurn, todo>>

TurnEnds(t, steps) ==
    /\ Flies(task[t])
    /\ task' = [task EXCEPT ![t] = steps]
    /\ ~Flies(steps) /\ OffersLast(steps)
    /\ current' = None
    /\ UNCHANGED <<nextTurn, todo>>

Shaped ==
    \/ \E c \in Clients : \E q : HandlerGoesOn(c, q)
    \/ \E c \in Clients : \E q : TurnStarts(c, q)
    \/ \E c \in Clients, t \in Turns : \E q : HandsOver(c, t, q)
    \/ \E t \in Turns : \E q : TaskGoesOn(t, q)
    \/ \E t \in Turns : \E q : TurnEnds(t, q)
    \/ UNCHANGED <<current, nextTurn, todo, task>>

\* A handler's first step is done: nothing else of it changes.
LEMMA TailCarries ==
    ASSUME NEW S, NEW q \in Seq(S), q # <<>>, EndsOnly(q)
    PROVE  /\ EndsOnly(Tail(q))
           /\ Head(q).do \in Ending =>
                 /\ Tail(q) = <<>>
                 /\ \A t \in Turns : Carries(q, t) <=>
                       (Head(q).do \in {"resolve", "spawn"} /\ Head(q).turn = t)
           /\ Head(q).do \notin Ending =>
                 \A t \in Turns : Carries(Tail(q), t) <=> Carries(q, t)
<1>1. /\ Len(q) \in Nat \ {0} /\ Len(Tail(q)) = Len(q) - 1
      /\ \A i \in 1..Len(Tail(q)) : Tail(q)[i] = q[i + 1]
      /\ Head(q) = q[1] /\ Tail(q) \in Seq(S)
    BY HeadTailProperties
<1>2. EndsOnly(Tail(q))
  <2> SUFFICES ASSUME NEW i \in 1..Len(Tail(q)), Tail(q)[i].do \in Ending
               PROVE  i = Len(Tail(q))
      BY DEF EndsOnly
  <2>1. i + 1 \in 1..Len(q) /\ q[i + 1].do \in Ending
      BY <1>1
  <2>2. i + 1 = Len(q)
      BY <2>1 DEF EndsOnly
  <2>3. Len(q) \in Nat /\ Len(Tail(q)) = Len(q) - 1 /\ i \in Int
      BY <1>1
  <2> QED
      BY <2>2, <2>3
<1>3. ASSUME Head(q).do \in Ending
      PROVE  /\ Tail(q) = <<>>
             /\ \A t \in Turns : Carries(q, t) <=>
                   (Head(q).do \in {"resolve", "spawn"} /\ Head(q).turn = t)
  <2>1. 1 \in 1..Len(q) /\ q[1].do \in Ending
      BY <1>1, <1>3
  <2>2. Len(q) = 1
      BY <2>1 DEF EndsOnly
  <2>3. Len(Tail(q)) = 0 /\ Tail(q) \in Seq(S) /\ Head(q) = q[1]
      BY <1>1, <2>2
  <2>4. Tail(q) = <<>>
      BY <2>3, EmptySeq
  <2>5. \A i \in 1..Len(q) : i = 1
      BY <2>2
  <2> QED
      BY <2>1, <2>3, <2>4, <2>5 DEF Carries
<1>4. ASSUME Head(q).do \notin Ending, NEW t \in Turns
      PROVE  Carries(Tail(q), t) <=> Carries(q, t)
  <2>1. ASSUME Carries(q, t) PROVE Carries(Tail(q), t)
    <3>1. PICK i \in 1..Len(q) : q[i].do \in {"resolve", "spawn"} /\ q[i].turn = t
        BY <2>1 DEF Carries
    <3>2. i # 1
        BY <1>1, <1>4, <3>1 DEF Ending
    <3>3. i - 1 \in 1..Len(Tail(q)) /\ Tail(q)[i - 1] = q[i]
        BY <1>1, <3>2
    <3> QED
        BY <3>1, <3>3 DEF Carries
  <2>2. ASSUME Carries(Tail(q), t) PROVE Carries(q, t)
    <3>1. PICK i \in 1..Len(Tail(q)) :
              Tail(q)[i].do \in {"resolve", "spawn"} /\ Tail(q)[i].turn = t
        BY <2>2 DEF Carries
    <3>2. i + 1 \in 1..Len(q) /\ q[i + 1] = Tail(q)[i]
        BY <1>1
    <3> QED
        BY <3>1, <3>2 DEF Carries
  <2> QED
      BY <2>1, <2>2
<1> QED
    BY <1>2, <1>3, <1>4

\* The same of a task: behind the step a turn flies by there is nothing.
LEMMA TailFlies ==
    ASSUME NEW S, NEW q \in Seq(S), q # <<>>, FliesAlone(q), OffersLast(q)
    PROVE  /\ Head(q).do \in Flying => Flies(q) /\ Tail(q) = <<>>
           /\ Head(q).do \notin Flying => ~Flies(q) /\ ~Flies(Tail(q))
           /\ OffersLast(Tail(q))
           /\ Offers(Tail(q)) => Offers(q)
           /\ Head(q).do = "offer" => Tail(q) = <<>>
<1>1. /\ Len(q) \in Nat \ {0} /\ Len(Tail(q)) = Len(q) - 1
      /\ \A i \in 1..Len(Tail(q)) : Tail(q)[i] = q[i + 1]
      /\ Head(q) = q[1] /\ Tail(q) \in Seq(S)
    BY HeadTailProperties
<1>2. ASSUME Head(q).do \in Flying PROVE Flies(q) /\ Tail(q) = <<>>
    BY <1>1, <1>2, EmptySeq DEF FliesAlone, Flies
<1>3. ASSUME Head(q).do \notin Flying PROVE ~Flies(q)
    BY <1>1, <1>3 DEF FliesAlone, Flies
<1>4. ASSUME Head(q).do \notin Flying PROVE ~Flies(Tail(q))
    <2>1. SUFFICES ASSUME NEW i \in 1..Len(Tail(q)), Tail(q)[i].do \in Flying
                   PROVE  FALSE
        BY DEF Flies
    <2>2. i + 1 \in 1..Len(q) /\ q[i + 1].do \in Flying
        BY <1>1, <2>1
    <2> QED
        BY <1>3, <1>4, <2>2 DEF Flies
<1>5. \A i \in 1..Len(Tail(q)) : i + 1 \in 1..Len(q) /\ i \in Int
    BY <1>1
<1>6. OffersLast(Tail(q))
  <2> SUFFICES ASSUME NEW i \in 1..Len(Tail(q)), Tail(q)[i].do = "offer"
               PROVE  i = Len(Tail(q))
      BY DEF OffersLast
  <2>1. i + 1 = Len(q)
      BY <1>1, <1>5 DEF OffersLast
  <2>2. Len(q) \in Nat /\ Len(Tail(q)) = Len(q) - 1 /\ i \in Int
      BY <1>1, <1>5
  <2> QED
      BY <2>1, <2>2
<1>7. Offers(Tail(q)) => Offers(q)
    BY <1>1, <1>5 DEF Offers
<1>8. ASSUME Head(q).do = "offer" PROVE Tail(q) = <<>>
  <2>1. 1 \in 1..Len(q) /\ q[1].do = "offer"
      BY <1>1, <1>8
  <2>2. Len(q) = 1
      BY <2>1 DEF OffersLast
  <2>3. Len(Tail(q)) = 0 /\ Tail(q) \in Seq(S)
      BY <1>1, <2>2
  <2> QED
      BY <2>3, EmptySeq
<1> QED
    BY <1>2, <1>3, <1>4, <1>6, <1>7, <1>8

\* Nothing is left.
LEMMA Nothing ==
    /\ EndsOnly(<<>>) /\ FliesAlone(<<>>) /\ OffersLast(<<>>)
    /\ ~Flies(<<>>) /\ ~Offers(<<>>)
    /\ \A t \in Turns : ~Carries(<<>>, t)
BY DEF EndsOnly, FliesAlone, OffersLast, Flies, Offers, Carries

-----------------------------------------------------------------------------
(***************************************************************************)
(* Each shape keeps one turn in flight.                                    *)
(***************************************************************************)
LEMMA HandlerGoesOnKeeps ==
    ASSUME TypeOK, Flight, NEW c \in Clients, NEW q, HandlerGoesOn(c, q)
    PROVE  Flight'
<1>1. \A d \in Clients : todo'[d] = IF d = c THEN q ELSE todo[d]
    BY DEF TypeOK, HandlerGoesOn
<1>2. \A d \in Clients, t \in Turns : Carries(todo'[d], t) <=> Carries(todo[d], t)
    BY <1>1 DEF HandlerGoesOn
<1>3. current # None => current \in Turns
    BY DEF TypeOK
<1> QED
    BY <1>1, <1>2, <1>3 DEF Flight, HandlerGoesOn

LEMMA TaskGoesOnKeeps ==
    ASSUME TypeOK, Flight, NEW t \in Turns, NEW q, TaskGoesOn(t, q)
    PROVE  Flight'
<1>1. \A s \in Turns : task'[s] = IF s = t THEN q ELSE task[s]
    BY DEF TypeOK, TaskGoesOn
<1>2. \A s \in Turns : Flies(task'[s]) <=> Flies(task[s])
    BY <1>1 DEF TaskGoesOn
<1>3. current # None => current \in Turns
    BY DEF TypeOK
<1> QED
    BY <1>1, <1>2, <1>3 DEF Flight, TaskGoesOn

LEMMA TurnStartsKeeps ==
    ASSUME TypeOK, Flight, NEW c \in Clients, NEW q, TurnStarts(c, q)
    PROVE  Flight'
<1>1. \A d \in Clients : todo'[d] = IF d = c THEN q ELSE todo[d]
    BY DEF TypeOK, TurnStarts
<1>2. \A t \in Turns : t # None
    BY MaxTurnsAssumption DEF Turns, None
<1>3. \A d \in Clients, t \in Turns : ~Carries(todo[d], t) /\ ~Flies(task[t])
    BY <1>2 DEF Flight, TurnStarts
<1>4. \A d \in Clients, t \in Turns : Carries(todo'[d], t) <=> (d = c /\ t = nextTurn)
    BY <1>1, <1>3 DEF TurnStarts
<1> QED
    BY <1>1, <1>3, <1>4 DEF Flight, TurnStarts

LEMMA HandsOverKeeps ==
    ASSUME TypeOK, Flight, NEW c \in Clients, NEW t \in Turns, NEW q, HandsOver(c, t, q)
    PROVE  Flight'
<1>1. \A d \in Clients : todo'[d] = IF d = c THEN <<>> ELSE todo[d]
    BY DEF TypeOK, HandsOver
<1>2. \A s \in Turns : task'[s] = IF s = t THEN q ELSE task[s]
    BY DEF TypeOK, HandsOver
<1>3. \A d \in Clients, s \in Turns : ~Carries(todo'[d], s)
    BY <1>1, Nothing DEF Flight, HandsOver
<1>4. t = current
    BY DEF Flight, HandsOver
<1>5. \A s \in Turns : Flies(task'[s]) <=> s = t
    BY <1>2, <1>4 DEF Flight, HandsOver
<1>6. \A d \in Clients : EndsOnly(todo'[d])
    BY <1>1, Nothing DEF Flight
<1>7. \A s \in Turns : FliesAlone(task'[s]) /\ OffersLast(task'[s])
    BY <1>2 DEF Flight, HandsOver
<1> QED
    BY <1>3, <1>4, <1>5, <1>6, <1>7 DEF Flight, HandsOver

LEMMA TurnEndsKeeps ==
    ASSUME TypeOK, Flight, NEW t \in Turns, NEW q, TurnEnds(t, q)
    PROVE  Flight'
<1>1. \A s \in Turns : task'[s] = IF s = t THEN q ELSE task[s]
    BY DEF TypeOK, TurnEnds
<1>2. t = current
    BY DEF Flight, TurnEnds
<1>3. \A d \in Clients, s \in Turns : ~Carries(todo[d], s)
    BY <1>2 DEF Flight, TurnEnds
<1>4. FliesAlone(q)
    BY DEF TurnEnds, FliesAlone, Flies
<1>5. \A s \in Turns : ~Flies(task'[s]) /\ FliesAlone(task'[s]) /\ OffersLast(task'[s])
    BY <1>1, <1>2, <1>4 DEF Flight, TurnEnds
<1> QED
    BY <1>3, <1>5 DEF Flight, TurnEnds

-----------------------------------------------------------------------------
(***************************************************************************)
(* Each action has one of the shapes.                                      *)
(***************************************************************************)
\* Steps to say, to narrow and to announce neither end a handler, nor fly, nor offer.
Plain(steps) == \A i \in 1..Len(steps) : steps[i].do \notin Ending \cup Flying \cup {"offer"}

LEMMA PlainIsNothing ==
    ASSUME NEW q, Plain(q)
    PROVE  /\ EndsOnly(q) /\ FliesAlone(q) /\ OffersLast(q) /\ ~Flies(q) /\ ~Offers(q)
           /\ \A t \in Turns : ~Carries(q, t)
BY DEF Plain, EndsOnly, FliesAlone, OffersLast, Flies, Offers, Carries, Ending

LEMMA PlainTogether ==
    ASSUME NEW S, NEW q \in Seq(S), NEW r \in Seq(S), Plain(q)
    PROVE  /\ Plain(r) => Plain(q \o r)
           /\ ~Flies(r) => ~Flies(q \o r) /\ FliesAlone(q \o r)
           /\ OffersLast(r) => OffersLast(q \o r)
           /\ Offers(q \o r) => Offers(r)
<1>1. /\ Len(q) \in Nat /\ Len(r) \in Nat /\ Len(q \o r) = Len(q) + Len(r)
      /\ \A i \in 1..Len(q \o r) : (q \o r)[i] =
             IF i <= Len(q) THEN q[i] ELSE r[i - Len(q)]
    BY ConcatProperties
<1>2. ASSUME NEW i \in 1..Len(q \o r), i > Len(q)
      PROVE  i - Len(q) \in 1..Len(r)
    BY <1>1, <1>2
<1>3. ASSUME NEW i \in 1..Len(q \o r), ~(i > Len(q))
      PROVE  i \in 1..Len(q)
    BY <1>1, <1>3
<1>4. ASSUME Plain(r) PROVE Plain(q \o r)
  <2> SUFFICES ASSUME NEW i \in 1..Len(q \o r)
               PROVE  (q \o r)[i].do \notin Ending \cup Flying \cup {"offer"}
      BY DEF Plain
  <2>1. CASE i > Len(q)
      BY <1>1, <1>2, <1>4, <2>1 DEF Plain
  <2>2. CASE ~(i > Len(q))
      BY <1>1, <1>3, <2>2 DEF Plain
  <2> QED
      BY <2>1, <2>2
<1>5. ASSUME ~Flies(r) PROVE ~Flies(q \o r)
  <2> SUFFICES ASSUME NEW i \in 1..Len(q \o r) PROVE (q \o r)[i].do \notin Flying
      BY DEF Flies
  <2>1. CASE i > Len(q)
      BY <1>1, <1>2, <1>5, <2>1 DEF Flies
  <2>2. CASE ~(i > Len(q))
      BY <1>1, <1>3, <2>2 DEF Plain
  <2> QED
      BY <2>1, <2>2
<1>6. ASSUME NEW i \in 1..Len(q \o r), (q \o r)[i].do = "offer"
      PROVE  /\ r[i - Len(q)].do = "offer" /\ i - Len(q) \in 1..Len(r)
             /\ i \in Int
  <2>1. CASE i > Len(q)
      BY <1>1, <1>2, <1>6, <2>1
  <2>2. CASE ~(i > Len(q))
      BY <1>1, <1>3, <1>6, <2>2 DEF Plain
  <2> QED
      BY <2>1, <2>2
<1>7. ASSUME OffersLast(r) PROVE OffersLast(q \o r)
  <2> SUFFICES ASSUME NEW i \in 1..Len(q \o r), (q \o r)[i].do = "offer"
               PROVE  i = Len(q \o r)
      BY DEF OffersLast
  <2>1. i - Len(q) = Len(r) /\ i \in Int
      BY <1>6, <1>7 DEF OffersLast
  <2>2. Len(q) \in Nat /\ Len(r) \in Nat /\ Len(q \o r) = Len(q) + Len(r)
      BY <1>1
  <2> QED
      BY <2>1, <2>2
<1>8. Offers(q \o r) => Offers(r)
    BY <1>6 DEF Offers
<1> QED
    BY <1>4, <1>5, <1>7, <1>8 DEF FliesAlone, Flies

LEMMA PlainSteps ==
    /\ Plain(<<>>)
    /\ \A m : Plain(<<Say(m)>>)
    /\ \A b : Plain(<<[do |-> "drafted", before |-> b]>>)
    /\ \A j, p, m : Plain(<<[do |-> "narrow", job |-> j, plan |-> p], Say(m)>>)
BY DEF Plain, Say, Do, Ending, Flying

\* The steps that carry a turn, or will, are set behind what is to be said.
LEMMA EndingSteps ==
    /\ \A m : /\ EndsOnly(<<Say(m), Do("begin")>>)
              /\ \A t \in Turns : ~Carries(<<Say(m), Do("begin")>>, t)
    /\ \A do \in {"begin", "begin_planning"} :
          EndsOnly(<<Do(do)>>) /\ \A t \in Turns : ~Carries(<<Do(do)>>, t)
    /\ \A j : /\ EndsOnly(<<[do |-> "sign", job |-> j]>>)
               /\ \A t \in Turns : ~Carries(<<[do |-> "sign", job |-> j]>>, t)
    /\ \A m, n, told : \A do \in {"resolve", "spawn"} :
          LET q == <<Say(m), [do |-> do, turn |-> n, told |-> told]>>
          IN  EndsOnly(q) /\ \A t \in Turns : Carries(q, t) <=> t = n
<1>1. \A m : /\ EndsOnly(<<Say(m), Do("begin")>>)
             /\ \A t \in Turns : ~Carries(<<Say(m), Do("begin")>>, t)
    BY DEF EndsOnly, Carries, Say, Do, Ending
<1>2. \A do \in {"begin", "begin_planning"} :
          EndsOnly(<<Do(do)>>) /\ \A t \in Turns : ~Carries(<<Do(do)>>, t)
    BY DEF EndsOnly, Carries, Do
<1>3. \A j : /\ EndsOnly(<<[do |-> "sign", job |-> j]>>)
             /\ \A t \in Turns : ~Carries(<<[do |-> "sign", job |-> j]>>, t)
    BY DEF EndsOnly, Carries
<1>4. ASSUME NEW m, NEW n, NEW told, NEW do \in {"resolve", "spawn"}
      PROVE  LET q == <<Say(m), [do |-> do, turn |-> n, told |-> told]>>
             IN  EndsOnly(q) /\ \A t \in Turns : Carries(q, t) <=> t = n
  <2> DEFINE q == <<Say(m), [do |-> do, turn |-> n, told |-> told]>>
  <2>1. /\ Len(q) = 2 /\ q[1].do = "say" /\ q[2].do = do /\ q[2].turn = n
        /\ 1..Len(q) = {1, 2}
      BY DEF Say
  <2> HIDE DEF q
  <2> QED
      BY <2>1 DEF EndsOnly, Carries, Ending, q
<1> QED
    BY <1>1, <1>2, <1>3, <1>4

LEMMA FlyingSteps ==
    /\ \A told, sandbox :
          LET q == <<[do |-> "run", told |-> told, sandbox |-> sandbox]>>
          IN  FliesAlone(q) /\ Flies(q) /\ OffersLast(q)
    /\ LET q == <<Do("planning")>>
       IN  FliesAlone(q) /\ Flies(q) /\ OffersLast(q)
    /\ \A outcome, before :
          LET q == <<[do |-> "land", outcome |-> outcome, before |-> before]>>
          IN  FliesAlone(q) /\ Flies(q) /\ OffersLast(q) /\ ~Offers(q)
    /\ \A q \in {<<>>, <<Do("offer")>>} : ~Flies(q) /\ OffersLast(q)
BY DEF FliesAlone, Flies, OffersLast, Offers, Flying, Do

\* Every handler begins with nothing it carries.
LEMMA HandlesShaped ==
    ASSUME GateInv, Flight, NEW c \in Clients, Handles(c)
    PROVE  Shaped
<1> DEFINE Begins(q) == EndsOnly(q) /\ \A t \in Turns : ~Carries(q, t)
<1>1. TypeOK
    BY DEF GateInv
<1>2. ASSUME NEW q, Reading(c), Runs(c, q), Begins(q), UNCHANGED <<current, nextTurn, task>>
      PROVE  Shaped
    BY <1>2, Nothing DEF Reading, Runs, Shaped, HandlerGoesOn
<1>3. \A q : Plain(q) => Begins(q)
    BY PlainIsNothing
<1>4. CASE OnPrompt(c)
  <2>1. Begins(<<Say(PlanDeclined), Do("begin")>>) /\ Begins(<<Do("begin")>>)
      BY EndingSteps
  <2>2. /\ Reading(c) /\ UNCHANGED <<current, nextTurn, task>>
        /\ Runs(c, <<Say(PlanDeclined), Do("begin")>>) \/ Runs(c, <<Do("begin")>>)
      BY <1>4 DEF OnPrompt
  <2> HIDE DEF Begins
  <2> QED
      BY <1>2, <2>1, <2>2
<1>5. CASE RequestPlan(c)
  <2>1. Begins(<<Do("begin_planning")>>)
      BY EndingSteps
  <2>2. Reading(c) /\ Runs(c, <<Do("begin_planning")>>) /\ UNCHANGED <<current, nextTurn, task>>
      BY <1>5 DEF RequestPlan
  <2> HIDE DEF Begins
  <2> QED
      BY <1>2, <2>1, <2>2
<1>6. CASE ApproveSigned(c)
  <2>1. Begins(<<[do |-> "sign", job |-> NextJobId(jobs)]>>)
      BY EndingSteps
  <2>2. /\ Reading(c) /\ Runs(c, <<[do |-> "sign", job |-> NextJobId(jobs)]>>)
        /\ UNCHANGED <<current, nextTurn, task>>
      BY <1>6 DEF ApproveSigned
  <2> HIDE DEF Begins
  <2> QED
      BY <1>2, <2>1, <2>2
<1>7. CASE DeclinePlan(c) \/ CloseJob(c) \/ ReopenJob(c)
  <2>1. \A m : Begins(<<Say(m)>>)
      BY <1>3, PlainSteps
  <2>2. Reading(c) /\ (\E m : Runs(c, <<Say(m)>>)) /\ UNCHANGED <<current, nextTurn, task>>
      BY <1>7 DEF DeclinePlan, CloseJob, ReopenJob
  <2> HIDE DEF Begins
  <2> QED
      BY <1>2, <2>1, <2>2
<1>8. CASE Cancel(c)
    BY <1>8 DEF Cancel, Shaped
<1> QED
    BY <1>4, <1>5, <1>6, <1>7, <1>8 DEF Handles

\* A handler goes on: it begins a turn, hands it over, or takes up none.
\* An approval that is taken leaves only what is to be said and stored.
LEMMA ApprovalIsPlain ==
    ASSUME GateInv, NEW c \in Clients, EndsOnly(todo[c]), ApproveTaken(c)
    PROVE  \E q : Plain(q) /\ todo' = [todo EXCEPT ![c] = q]
<1>1. TypeOK /\ todo[c] # <<>> /\ Head(todo[c]).do = "sign"
    BY DEF GateInv, ApproveTaken, Next1
<1>2. Tail(todo[c]) = <<>>
    BY <1>1, TailCarries DEF TypeOK, Ending
<1>3. CASE current = None /\ pending # NoPlan
  <2>1. PICK closes \in BOOLEAN :
            TakePlan(c, Head(todo[c]).job, [pending EXCEPT !.closes = closes])
      BY <1>3 DEF ApproveTaken
  <2> DEFINE plan == [pending EXCEPT !.closes = closes]
             job == Head(todo[c]).job
             draft == CurrentJob(jobs)
             fold == IF draft # None THEN <<Say(JobClosed(draft, "approval"))>> ELSE <<>>
             steps == <<[do |-> "narrow", job |-> job, plan |-> plan],
                        Say(JobApproved(job, plan))>>
  <2>2. Plain(fold) /\ Plain(steps) /\ Plain(<<>>)
      BY PlainSteps
  <2>3. fold \in Seq(HandlerStep) /\ steps \in Seq(HandlerStep)
    <3>1. job \in Nat
        BY <1>1, TodoTypes, HandlerStepCarries
    <3>2. plan \in Plan
        BY <1>3, PendingIsAPlan DEF GateInv
    <3> QED
        BY <3>1, <3>2, MessageTypes, HandlerStepTypes, JobIds DEF Closer
  <2> HIDE DEF fold, steps
  <2>4. Plain(fold \o steps) /\ fold \o steps \in Seq(HandlerStep)
      BY <2>2, <2>3, PlainTogether, ConcatProperties
  <2>5. (fold \o steps) \o <<>> = fold \o steps
      BY <2>4, ConcatEmptySeq
  <2>6. todo' = [todo EXCEPT ![c] = (fold \o steps) \o Tail(todo[c])]
      BY <2>1 DEF TakePlan, Continue, fold, steps
  <2> QED
      BY <1>2, <2>4, <2>5, <2>6
<1>4. CASE ~(current = None /\ pending # NoPlan)
    BY <1>4, PlainSteps DEF ApproveTaken, Returns
<1> QED
    BY <1>3, <1>4

LEMMA HandlerContinuesShaped ==
    ASSUME GateInv, Flight, NEW c \in Clients, HandlerContinues(c) \/ HandlerSays(c)
    PROVE  Shaped
<1>1. TypeOK /\ todo[c] \in Seq(HandlerStep) /\ EndsOnly(todo[c])
    BY DEF GateInv, TypeOK, Flight
<1>2. ASSUME todo[c] # <<>>
      PROVE  /\ EndsOnly(Tail(todo[c]))
             /\ Head(todo[c]).do \in Ending =>
                   /\ Tail(todo[c]) = <<>>
                   /\ \A t \in Turns : Carries(todo[c], t) <=>
                         (Head(todo[c]).do \in {"resolve", "spawn"} /\ Head(todo[c]).turn = t)
             /\ Head(todo[c]).do \notin Ending =>
                   \A t \in Turns : Carries(Tail(todo[c]), t) <=> Carries(todo[c], t)
    BY <1>1, <1>2, TailCarries
<1>3. CASE HandlerSays(c) \/ Narrow(c)
  <2>1. /\ todo[c] # <<>> /\ Head(todo[c]).do \notin Ending /\ Rest(c)
        /\ UNCHANGED <<current, nextTurn, task>>
      BY <1>3 DEF HandlerSays, Narrow, Next1, Ending
  <2> QED
      BY <1>2, <2>1 DEF Rest, Shaped, HandlerGoesOn
<1>4. CASE BeginTurn(c)
  <2>1. PICK step \in {"begin", "begin_planning"} :
            /\ Next1(todo[c], step)
            /\ IF current # None
               THEN Returns(c) /\ UNCHANGED <<current, cancelled, nextTurn>>
               ELSE Starts(c, step)
            /\ UNCHANGED <<context, pending, narrowed, task>>
      BY <1>4 DEF BeginTurn
  <2>2. todo[c] # <<>> /\ Head(todo[c]).do = step
      BY <2>1 DEF Next1
  <2>3. \A t \in Turns : ~Carries(todo[c], t)
      BY <1>2, <2>2 DEF Ending
  <2>4. CASE current # None
      BY <2>1, <2>3, <2>4, Nothing DEF Returns, Shaped, HandlerGoesOn
  <2>5. CASE current = None
    <3> DEFINE then == IF step = "begin" THEN "resolve" ELSE "spawn"
               started == <<Say(TurnStarted(nextTurn, CurrentJob(jobs))),
                            [do |-> then, turn |-> nextTurn, told |-> narrowed]>>
    <3>1. /\ nextTurn <= MaxTurns /\ current' = nextTurn /\ nextTurn' = nextTurn + 1
          /\ todo' = [todo EXCEPT ![c] = started] /\ UNCHANGED task
        BY <2>1, <2>5 DEF Starts, Runs
    <3>2. nextTurn \in Turns
        BY <1>1, <3>1, MaxTurnsAssumption DEF TypeOK, Turns
    <3>3. then \in {"resolve", "spawn"}
        OBVIOUS
    <3>4. EndsOnly(started) /\ \A t \in Turns : Carries(started, t) <=> t = nextTurn
        BY <3>3, EndingSteps
    <3> HIDE DEF started
    <3> QED
        BY <2>5, <3>1, <3>2, <3>4 DEF Shaped, TurnStarts
  <2> QED
      BY <2>4, <2>5
<1>5. CASE Resolve(c) \/ SpawnPlanning(c)
  <2>1. PICK q : /\ FliesAlone(q) /\ Flies(q) /\ OffersLast(q) /\ Rest(c)
                 /\ UNCHANGED <<current, nextTurn>>
                 /\ task' = [task EXCEPT ![Head(todo[c]).turn] = q]
                 /\ todo[c] # <<>> /\ Head(todo[c]).do \in {"resolve", "spawn"}
      BY <1>5, FlyingSteps DEF Resolve, SpawnPlanning, Next1
  <2>2. Head(todo[c]).turn \in Turns
      BY <1>1, <2>1, StepsType, HandlerStepCarries
  <2>3. Carries(todo[c], Head(todo[c]).turn) /\ Tail(todo[c]) = <<>>
      BY <1>2, <2>1, <2>2 DEF Ending
  <2> QED
      BY <2>1, <2>2, <2>3 DEF Rest, Shaped, HandsOver
<1>6. CASE ApproveTaken(c)
  <2>1. todo[c] # <<>> /\ Head(todo[c]).do = "sign" /\ UNCHANGED <<current, nextTurn, task>>
      BY <1>6 DEF ApproveTaken, Next1
  <2>2. Tail(todo[c]) = <<>> /\ \A t \in Turns : ~Carries(todo[c], t)
      BY <1>2, <2>1 DEF Ending
  <2>3. PICK q : Plain(q) /\ todo' = [todo EXCEPT ![c] = q]
      BY <1>1, <1>6, ApprovalIsPlain DEF GateInv
  <2> QED
      BY <2>1, <2>2, <2>3, PlainIsNothing DEF Shaped, HandlerGoesOn
<1> QED
    BY <1>3, <1>4, <1>5, <1>6 DEF HandlerContinues

\* A task goes on: the turn's own flight ends in the section that clears it.
LEMMA TaskContinuesShaped ==
    ASSUME GateInv, Flight, NEW t \in Turns,
           TaskContinues(t) \/ ModelReturns(t) \/ TaskSays(t)
    PROVE  Shaped
<1>1. /\ TypeOK /\ task[t] \in Seq(TaskStep) /\ FliesAlone(task[t])
      /\ OffersLast(task[t])
    BY DEF GateInv, TypeOK, Flight
<1>2. ASSUME task[t] # <<>>
      PROVE  /\ Head(task[t]).do \in Flying => Flies(task[t]) /\ Tail(task[t]) = <<>>
             /\ Head(task[t]).do \notin Flying => ~Flies(task[t]) /\ ~Flies(Tail(task[t]))
             /\ OffersLast(Tail(task[t]))
             /\ Offers(Tail(task[t])) => Offers(task[t])
             /\ Tail(task[t]) \in Seq(TaskStep)
    BY <1>1, <1>2, TailFlies, StepsType
<1>3. CASE TaskSays(t) \/ Drafted(t) \/ Offer(t)
  <2>1. /\ task[t] # <<>> /\ Head(task[t]).do \notin Flying
        /\ TaskRest(t) \/ \E m \in Message : TaskContinue(t, <<Say(m)>>)
        /\ UNCHANGED <<current, nextTurn, todo>>
      BY <1>3, MessageTypes, JobIds DEF TaskSays, Drafted, Offer, Next1, Flying
  <2>2. CASE TaskRest(t)
      BY <1>2, <2>1, <2>2 DEF TaskRest, FliesAlone, Flies, Shaped, TaskGoesOn
  <2>3. ASSUME NEW m \in Message, TaskContinue(t, <<Say(m)>>) PROVE Shaped
    <3>1. <<Say(m)>> \in Seq(TaskStep) /\ Plain(<<Say(m)>>)
        BY TaskStepTypes, PlainSteps
    <3> DEFINE q == <<Say(m)>> \o Tail(task[t])
    <3>2. /\ ~Flies(q) /\ FliesAlone(q) /\ OffersLast(q)
          /\ Offers(q) => Offers(task[t])
        BY <1>2, <2>1, <3>1, PlainTogether
    <3> QED
        BY <1>2, <2>1, <2>3, <3>2 DEF TaskContinue, Shaped, TaskGoesOn
  <2> QED
      BY <2>1, <2>2, <2>3
<1>4. CASE RunEnds(t)
  <2>1. /\ task[t] # <<>> /\ Head(task[t]).do = "run" /\ UNCHANGED <<current, nextTurn, todo>>
        /\ \E outcome \in Outcomes : TaskContinue(t, <<[do |-> "land", outcome |-> outcome,
                                         before |-> CurrentJob(jobs)]>>)
      BY <1>4 DEF RunEnds, Next1
  <2>2. PICK outcome \in Outcomes : TaskContinue(t, <<[do |-> "land", outcome |-> outcome,
                                         before |-> CurrentJob(jobs)]>>)
      BY <2>1
  <2> DEFINE q == <<[do |-> "land", outcome |-> outcome, before |-> CurrentJob(jobs)]>>
  <2>3. /\ FliesAlone(q) /\ Flies(q) /\ OffersLast(q) /\ ~Offers(q)
        /\ q \in Seq(TaskStep)
      BY FlyingSteps, TaskStepTypes, JobIds
  <2>4. Flies(task[t]) /\ Tail(task[t]) = <<>>
      BY <1>2, <2>1 DEF Flying
  <2>5. task' = [task EXCEPT ![t] = q \o Tail(task[t])]
      BY <2>2 DEF TaskContinue
  <2> HIDE DEF q
  <2>6. task' = [task EXCEPT ![t] = q]
      BY <2>3, <2>4, <2>5, ConcatEmptySeq
  <2> QED
      BY <2>1, <2>3, <2>4, <2>6 DEF Shaped, TaskGoesOn
<1>5. ASSUME task[t] # <<>>, Head(task[t]).do \in Flying, NEW q \in Seq(TaskStep),
             ~Flies(q), OffersLast(q),
             TaskContinue(t, q), current' = None, UNCHANGED <<nextTurn, todo>>
      PROVE  Shaped
  <2>1. Flies(task[t]) /\ Tail(task[t]) = <<>>
      BY <1>2, <1>5
  <2>2. task' = [task EXCEPT ![t] = q]
      BY <1>5, <2>1, ConcatEmptySeq DEF TaskContinue
  <2> QED
      BY <1>5, <2>1, <2>2 DEF Shaped, TurnEnds
<1>6. CASE Land(t)
  <2> DEFINE before == Head(task[t]).before
             outcome == Head(task[t]).outcome
             placed == IF outcome.lands THEN WithPlaceToLand(jobs) ELSE jobs
             landed == IF outcome.lands THEN Landed(t, placed) ELSE turns
             live == CurrentJob(placed)
             close == IF Met(placed, landed) THEN <<Say(JobClosed(live, "exit_code"))>> ELSE <<>>
             offer == IF outcome.plan THEN <<Do("offer")>> ELSE <<>>
             drafted == <<[do |-> "drafted", before |-> before]>>
  <2>1. /\ task[t] # <<>> /\ Head(task[t]).do = "land" /\ current' = None
        /\ UNCHANGED <<nextTurn, todo>>
        /\ TaskContinue(t, drafted \o close \o offer)
      BY <1>6 DEF Land, Next1
  <2>2. outcome \in Outcomes /\ before \in Nat
      BY <1>1, <2>1, TaskTypes, TaskStepCarries
  <2>3. live \in Nat
    <3>1. WellFormed(placed)
        BY LandShape, OpensDraftKeeps DEF GateInv
    <3> QED
        BY <3>1, CurrentIsLast DEF None
  <2>4. /\ drafted \in Seq(TaskStep) /\ close \in Seq(TaskStep) /\ offer \in Seq(TaskStep)
      BY <2>2, <2>3, TaskStepTypes, MessageTypes DEF Closer
  <2>5. Plain(drafted) /\ Plain(close) /\ ~Flies(offer) /\ OffersLast(offer)
      BY PlainSteps, FlyingSteps
  <2> HIDE DEF drafted, close, offer
  <2>6. drafted \o close \in Seq(TaskStep) /\ Plain(drafted \o close)
      BY <2>4, <2>5, PlainTogether, ConcatProperties
  <2>7. /\ drafted \o close \o offer \in Seq(TaskStep)
        /\ ~Flies(drafted \o close \o offer) /\ OffersLast(drafted \o close \o offer)
      BY <2>4, <2>5, <2>6, PlainTogether, ConcatProperties
  <2> QED
      BY <1>5, <2>1, <2>7 DEF Flying
<1>7. CASE PlanningEnds(t)
  <2>1. PICK broken \in BOOLEAN :
            TaskContinue(t, IF broken THEN <<>> ELSE <<Do("offer")>>)
      BY <1>7 DEF PlanningEnds
  <2> DEFINE q == IF broken THEN <<>> ELSE <<Do("offer")>>
  <2>2. q \in Seq(TaskStep) /\ ~Flies(q) /\ OffersLast(q)
      BY TaskStepTypes, FlyingSteps
  <2>3. /\ task[t] # <<>> /\ Head(task[t]).do = "planning" /\ current' = None
        /\ UNCHANGED <<nextTurn, todo>>
      BY <1>7 DEF PlanningEnds, Next1
  <2> QED
      BY <1>5, <2>1, <2>2, <2>3 DEF Flying
<1> QED
    BY <1>3, <1>4, <1>6, <1>7 DEF TaskContinues, ModelReturns

LEMMA StepShaped ==
    ASSUME GateInv, Flight, [Next]_vars
    PROVE  Shaped
<1>1. CASE UNCHANGED vars
    BY <1>1 DEF vars, Shaped
<1>2. CASE Next
    BY <1>2, HandlesShaped, HandlerContinuesShaped, TaskContinuesShaped DEF Next, Silent
<1> QED
    BY <1>1, <1>2

LEMMA InitFlies == Init => Flight
BY Nothing DEF Init, Flight

LEMMA StepFlies ==
    ASSUME GateInv, Flight, [Next]_vars
    PROVE  Flight'
<1>1. CASE UNCHANGED <<current, nextTurn, todo, task>>
    BY <1>1 DEF Flight
<1> QED
    BY <1>1, StepShaped, HandlerGoesOnKeeps, TaskGoesOnKeeps, TurnStartsKeeps,
       HandsOverKeeps, TurnEndsKeeps DEF Shaped, GateInv

LEMMA TurnsFly == Spec => []Flight
<1>1. Init => Flight
    BY InitFlies
<1>2. GateInv /\ Flight /\ [Next]_vars => Flight'
    BY StepFlies
<1> QED
    BY <1>1, <1>2, Invariance, PTL DEF Spec

\* At every moment the turn the session calls running is the only one any
\* handler or task still carries (serve.rs, Session.current).
THEOREM OneTurnIsRunning == Spec => []OneTurnRuns
<1>1. ASSUME TypeOK, Flight PROVE OneTurnRuns
  <2>1. \A t \in Turns : InFlight(t) <=> (Flies(task[t]) \/ \E c \in Clients : Carries(todo[c], t))
      BY DEF InFlight, Flies, Flying, Carries
  <2>2. \A t \in Turns : t # None
      BY MaxTurnsAssumption DEF Turns, None
  <2> QED
      BY <1>1, <2>1, <2>2 DEF OneTurnRuns, Flight
<1>2. GateInv => TypeOK
    BY DEF GateInv
<1> QED
    BY <1>1, <1>2, Invariance, TurnsFly, PTL

-----------------------------------------------------------------------------
(***************************************************************************)
(* A narrowed sandbox is stamped with the job it was resolved for, and the    *)
(* stamp may be of a job long folded.  It is never ahead of the jobs, though,  *)
(* and one of the last job is of its plan: so is the one stored, and so are    *)
(* those a handler has still to store.  A turn takes the stored one only if    *)
(* its stamp is the live job's, and no job moves while it flies.             *)
(***************************************************************************)
Stamp(job, plan, s) ==
    job # None => job <= Len(s) /\ (job = Len(s) => plan = s[Len(s)].plan)

Stamps(steps, s) ==
    \A i \in 1..Len(steps) :
        /\ steps[i].do = "narrow" => Stamp(steps[i].job, steps[i].plan, s)
        /\ steps[i].do = "sign" => steps[i].job <= Len(s) + 1

HeldBy(sandbox, s) ==
    sandbox # Floor =>
        /\ sandbox.job = CurrentJob(s)
        /\ sandbox.plan = s[Len(s)].plan

RunsHeld(steps, s) ==
    \A i \in 1..Len(steps) : steps[i].do = "run" => HeldBy(steps[i].sandbox, s)

Stamped ==
    /\ Stamp(narrowed.job, narrowed.plan, jobs)
    /\ \A c \in Clients : Stamps(todo[c], jobs)
    /\ \A t \in Turns : RunsHeld(task[t], jobs)

\* No move of the jobs takes a stamp back.
LEMMA StampsStay ==
    ASSUME GateInv, Move(jobs, jobs')
    PROVE  /\ \A job \in Nat : \A plan : Stamp(job, plan, jobs) => Stamp(job, plan, jobs')
           /\ \A q \in Seq(HandlerStep) : Stamps(q, jobs) => Stamps(q, jobs')
<1>1. Len(jobs) \in Nat /\ Len(jobs') \in Nat /\ Len(jobs) <= Len(jobs')
    BY MoveKeeps, MoveIsFinal, CurrentIsLast DEF GateInv
<1>2. \A i \in 1..Len(jobs) : jobs'[i].plan = jobs[i].plan
    BY MoveIsFinal DEF GateInv
<1>3. ASSUME NEW job \in Nat, NEW plan, Stamp(job, plan, jobs), job # None
      PROVE  job <= Len(jobs') /\ (job = Len(jobs') => plan = jobs'[Len(jobs')].plan)
  <2>1. job <= Len(jobs) /\ job \in 1..Len(jobs')
      BY <1>1, <1>3 DEF Stamp, None
  <2>2. ASSUME job = Len(jobs') PROVE plan = jobs'[Len(jobs')].plan
    <3>1. job = Len(jobs) /\ job \in 1..Len(jobs)
        BY <1>1, <2>1, <2>2
    <3>2. plan = jobs[Len(jobs)].plan
        BY <1>3, <3>1 DEF Stamp
    <3> QED
        BY <1>2, <2>2, <3>1, <3>2
  <2> QED
      BY <2>1, <2>2
<1>4. \A job \in Nat : \A plan : Stamp(job, plan, jobs) => Stamp(job, plan, jobs')
    BY <1>3 DEF Stamp
<1>5. ASSUME NEW q \in Seq(HandlerStep), Stamps(q, jobs), NEW i \in 1..Len(q)
      PROVE  /\ q[i].do = "narrow" => Stamp(q[i].job, q[i].plan, jobs')
             /\ q[i].do = "sign" => q[i].job <= Len(jobs') + 1
  <2>1. q[i] \in HandlerStep
      BY <1>5
  <2>2. /\ q[i].do = "sign" => q[i].job \in Nat
        /\ q[i].do = "narrow" => q[i].job \in Nat
      BY <2>1, HandlerStepCarries
  <2>3. q[i].do = "narrow" => Stamp(q[i].job, q[i].plan, jobs)
      BY <1>5 DEF Stamps
  <2>4. q[i].do = "sign" => q[i].job <= Len(jobs) + 1
      BY <1>5 DEF Stamps
  <2>5. ASSUME q[i].do = "sign" PROVE q[i].job <= Len(jobs') + 1
      BY <1>1, <2>2, <2>4, <2>5
  <2> QED
      BY <1>4, <2>2, <2>3, <2>5
<1> QED
    BY <1>4, <1>5 DEF Stamps

\* What is left of a handler is stamped as it was, and so is what is put before it.
LEMMA StampsOf ==
    ASSUME NEW S, NEW q \in Seq(S), NEW r \in Seq(S), NEW s, Stamps(q, s), Stamps(r, s)
    PROVE  Stamps(q \o r, s) /\ (q # <<>> => Stamps(Tail(q), s))
<1>1. /\ Len(q) \in Nat /\ Len(r) \in Nat /\ Len(q \o r) = Len(q) + Len(r)
      /\ \A i \in 1..Len(q \o r) : (q \o r)[i] =
             IF i <= Len(q) THEN q[i] ELSE r[i - Len(q)]
    BY ConcatProperties
<1>2. ASSUME NEW i \in 1..Len(q \o r), i > Len(q)
      PROVE  i - Len(q) \in 1..Len(r)
    BY <1>1, <1>2
<1>3. ASSUME NEW i \in 1..Len(q \o r), ~(i > Len(q))
      PROVE  i \in 1..Len(q)
    BY <1>1, <1>3
<1>4. Stamps(q \o r, s)
  <2> SUFFICES ASSUME NEW i \in 1..Len(q \o r)
               PROVE  LET step == (q \o r)[i]
                      IN  /\ step.do = "narrow" => Stamp(step.job, step.plan, s)
                          /\ step.do = "sign" => step.job <= Len(s) + 1
      BY DEF Stamps
  <2>1. CASE i > Len(q)
    <3>1. (q \o r)[i] = r[i - Len(q)] /\ i - Len(q) \in 1..Len(r)
        BY <1>1, <1>2, <2>1
    <3> QED
        BY <3>1 DEF Stamps
  <2>2. CASE ~(i > Len(q))
    <3>1. (q \o r)[i] = q[i] /\ i \in 1..Len(q)
        BY <1>1, <1>3, <2>2
    <3> QED
        BY <3>1 DEF Stamps
  <2> QED
      BY <2>1, <2>2
<1>5. ASSUME q # <<>> PROVE Stamps(Tail(q), s)
  <2>1. /\ Len(Tail(q)) = Len(q) - 1
        /\ \A i \in 1..Len(Tail(q)) : Tail(q)[i] = q[i + 1]
      BY <1>5, HeadTailProperties
  <2>2. \A i \in 1..Len(Tail(q)) : i + 1 \in 1..Len(q)
      BY <1>1, <2>1
  <2> QED
      BY <2>1, <2>2 DEF Stamps
<1> QED
    BY <1>4, <1>5

LEMMA RunsOf ==
    ASSUME NEW S, NEW q \in Seq(S), NEW r \in Seq(S), NEW s, RunsHeld(q, s), RunsHeld(r, s)
    PROVE  RunsHeld(q \o r, s) /\ (q # <<>> => RunsHeld(Tail(q), s))
<1>1. /\ Len(q) \in Nat /\ Len(r) \in Nat /\ Len(q \o r) = Len(q) + Len(r)
      /\ \A i \in 1..Len(q \o r) : (q \o r)[i] =
             IF i <= Len(q) THEN q[i] ELSE r[i - Len(q)]
    BY ConcatProperties
<1>2. ASSUME NEW i \in 1..Len(q \o r), i > Len(q)
      PROVE  i - Len(q) \in 1..Len(r)
    BY <1>1, <1>2
<1>3. ASSUME NEW i \in 1..Len(q \o r), ~(i > Len(q))
      PROVE  i \in 1..Len(q)
    BY <1>1, <1>3
<1>4. RunsHeld(q \o r, s)
  <2> SUFFICES ASSUME NEW i \in 1..Len(q \o r), (q \o r)[i].do = "run"
               PROVE  HeldBy((q \o r)[i].sandbox, s)
      BY DEF RunsHeld
  <2>1. CASE i > Len(q)
      BY <1>1, <1>2, <2>1 DEF RunsHeld
  <2>2. CASE ~(i > Len(q))
      BY <1>1, <1>3, <2>2 DEF RunsHeld
  <2> QED
      BY <2>1, <2>2
<1>5. ASSUME q # <<>> PROVE RunsHeld(Tail(q), s)
  <2>1. /\ Len(Tail(q)) = Len(q) - 1
        /\ \A i \in 1..Len(Tail(q)) : Tail(q)[i] = q[i + 1]
      BY <1>5, HeadTailProperties
  <2>2. \A i \in 1..Len(Tail(q)) : i + 1 \in 1..Len(q)
      BY <1>1, <2>1
  <2> QED
      BY <2>1, <2>2 DEF RunsHeld
<1> QED
    BY <1>4, <1>5

\* The steps that carry no stamp.
LEMMA Unstamped ==
    ASSUME NEW s
    PROVE  /\ Stamps(<<>>, s) /\ Stamps(<<Do("begin")>>, s) /\ Stamps(<<Do("begin_planning")>>, s)
           /\ \A m : Stamps(<<Say(m)>>, s) /\ Stamps(<<Say(m), Do("begin")>>, s)
           /\ \A m, n, told : \A do \in {"resolve", "spawn"} :
                 Stamps(<<Say(m), [do |-> do, turn |-> n, told |-> told]>>, s)
BY DEF Stamps, Say, Do

LEMMA NotRunning ==
    ASSUME NEW s
    PROVE  /\ RunsHeld(<<>>, s) /\ RunsHeld(<<Do("planning")>>, s) /\ RunsHeld(<<Do("offer")>>, s)
           /\ \A m : RunsHeld(<<Say(m)>>, s)
           /\ \A o, b : RunsHeld(<<[do |-> "land", outcome |-> o, before |-> b]>>, s)
BY DEF RunsHeld, Say, Do

\* Whatever a handler sets itself to do next is stamped as it should be.
LEMMA HandlersStamped ==
    ASSUME GateInv, Stamped, [Next]_vars
    PROVE  \A c \in Clients : Stamps(todo'[c], jobs')
<1>1. TypeOK /\ Move(jobs, jobs') /\ Len(jobs) \in Nat
    BY StepMoves, JobIds DEF GateInv
<1>2. \A c \in Clients : todo[c] \in Seq(HandlerStep)
    BY <1>1 DEF TypeOK
<1>3. \A c \in Clients : Stamps(todo[c], jobs')
    BY <1>1, <1>2, StampsStay DEF Stamped
<1>4. ASSUME NEW c \in Clients, NEW q, todo' = [todo EXCEPT ![c] = q], Stamps(q, jobs')
      PROVE  \A d \in Clients : Stamps(todo'[d], jobs')
  <2>1. \A d \in Clients : todo'[d] = IF d = c THEN q ELSE todo[d]
      BY <1>1, <1>4 DEF TypeOK
  <2> QED
      BY <1>3, <1>4, <2>1
<1>5. ASSUME UNCHANGED todo
      PROVE  \A d \in Clients : Stamps(todo'[d], jobs')
    BY <1>3, <1>5
<1>6. ASSUME NEW c \in Clients, todo[c] # <<>>, Rest(c)
      PROVE  \A d \in Clients : Stamps(todo'[d], jobs')
  <2>1. Stamps(Tail(todo[c]), jobs')
      BY <1>2, <1>3, <1>6, StampsOf
  <2> QED
      BY <1>4, <1>6, <2>1 DEF Rest
<1>7. ASSUME NEW c \in Clients, Handles(c)
      PROVE  \A d \in Clients : Stamps(todo'[d], jobs')
  <2>1. CASE ApproveSigned(c)
    <3>1. jobs' = jobs /\ todo' = [todo EXCEPT ![c] = <<[do |-> "sign", job |-> Len(jobs) + 1]>>]
        BY <2>1 DEF ApproveSigned, Runs, NextJobId, context
    <3>2. Stamps(<<[do |-> "sign", job |-> Len(jobs) + 1]>>, jobs)
        BY <1>1 DEF Stamps
    <3> QED
        BY <1>4, <3>1, <3>2
  <2>2. CASE OnPrompt(c) \/ RequestPlan(c)
    <3>1. \E q : todo' = [todo EXCEPT ![c] = q] /\ Stamps(q, jobs')
        BY <2>2, Unstamped DEF OnPrompt, RequestPlan, Runs
    <3> QED
        BY <1>4, <3>1
  <2>3. CASE DeclinePlan(c) \/ CloseJob(c) \/ ReopenJob(c)
    <3>1. \E m : todo' = [todo EXCEPT ![c] = <<Say(m)>>]
        BY <2>3 DEF DeclinePlan, CloseJob, ReopenJob, Runs
    <3> QED
        BY <1>4, <3>1, Unstamped
  <2>4. CASE Cancel(c)
      BY <1>5, <2>4 DEF Cancel
  <2> QED
      BY <1>7, <2>1, <2>2, <2>3, <2>4 DEF Handles
<1>8. ASSUME NEW c \in Clients, BeginTurn(c)
      PROVE  \A d \in Clients : Stamps(todo'[d], jobs')
  <2>1. PICK step \in {"begin", "begin_planning"} :
            Returns(c) \/ Starts(c, step)
      BY <1>8 DEF BeginTurn
  <2>2. CASE Returns(c)
      BY <1>4, <2>2, Unstamped DEF Returns
  <2>3. CASE Starts(c, step)
    <3> DEFINE then == IF step = "begin" THEN "resolve" ELSE "spawn"
               started == <<Say(TurnStarted(nextTurn, CurrentJob(jobs))),
                            [do |-> then, turn |-> nextTurn, told |-> narrowed]>>
    <3>1. todo' = [todo EXCEPT ![c] = started]
        BY <2>3 DEF Starts, Runs
    <3>2. then \in {"resolve", "spawn"}
        OBVIOUS
    <3>3. Stamps(started, jobs')
        BY <3>2, Unstamped
    <3> HIDE DEF started
    <3> QED
        BY <1>4, <3>1, <3>3
  <2> QED
      BY <2>1, <2>2, <2>3
<1>9. ASSUME NEW c \in Clients, ApproveTaken(c)
      PROVE  \A d \in Clients : Stamps(todo'[d], jobs')
  <2>1. todo[c] # <<>> /\ Head(todo[c]).do = "sign"
      BY <1>9 DEF ApproveTaken, Next1
  <2>2. Stamps(Tail(todo[c]), jobs') /\ Tail(todo[c]) \in Seq(HandlerStep)
      BY <1>2, <1>3, <2>1, StampsOf, StepsType
  <2>3. CASE current = None /\ pending # NoPlan
    <3>1. PICK closes \in BOOLEAN :
              TakePlan(c, Head(todo[c]).job, [pending EXCEPT !.closes = closes])
        BY <1>9, <2>3 DEF ApproveTaken
    <3> DEFINE plan == [pending EXCEPT !.closes = closes]
               job == Head(todo[c]).job
               draft == CurrentJob(jobs)
               fold == IF draft # None THEN <<Say(JobClosed(draft, "approval"))>> ELSE <<>>
               narrow == [do |-> "narrow", job |-> job, plan |-> plan]
               steps == <<narrow, Say(JobApproved(job, plan))>>
    <3>2. plan \in Plan \ {NoPlan} /\ job \in Nat
        BY <1>1, <2>1, <2>3, PendingIsAPlan, TodoTypes, HandlerStepCarries
    <3>3. fold \in Seq(HandlerStep) /\ steps \in Seq(HandlerStep)
        BY <3>2, MessageTypes, HandlerStepTypes, JobIds DEF Closer
    <3>4. ApprovesInDraft(jobs, jobs', plan)
      <4>1. jobs' = ApprovePlan(jobs, plan)
          BY <3>1 DEF TakePlan
      <4> QED
          BY <2>3, <3>2, <4>1, ApproveShape DEF GateInv, PendingInADraft
    <3>5. Len(jobs') = Len(jobs) + 1 /\ jobs'[Len(jobs')].plan = plan
        BY <3>4 DEF ApprovesInDraft, Planned
    <3>6. job <= Len(jobs) + 1
      <4>1. 1 \in 1..Len(todo[c]) /\ todo[c][1] = Head(todo[c])
          BY <1>2, <2>1, HeadTailProperties, EmptySeq, LenProperties
      <4> QED
          BY <2>1, <4>1 DEF Stamped, Stamps
    <3>7. Stamp(job, plan, jobs')
        BY <3>5, <3>6 DEF Stamp
    <3>8. Stamps(steps, jobs')
      <4>1. Len(steps) = 2 /\ steps[1] = narrow /\ steps[2].do = "say"
          BY DEF Say
      <4>2. narrow.do = "narrow" /\ narrow.job = job /\ narrow.plan = plan
          OBVIOUS
      <4>3. \A i \in 1..Len(steps) : i = 1 \/ i = 2
          BY <4>1
      <4> HIDE DEF steps, narrow, plan, job
      <4> QED
          BY <3>7, <4>1, <4>2, <4>3 DEF Stamps
    <3>9. Stamps(fold, jobs')
        BY Unstamped
    <3>10. todo' = [todo EXCEPT ![c] = (fold \o steps) \o Tail(todo[c])]
        BY <3>1 DEF TakePlan, Continue
    <3> HIDE DEF fold, steps
    <3>11. fold \o steps \in Seq(HandlerStep) /\ Stamps(fold \o steps, jobs')
        BY <3>3, <3>8, <3>9, StampsOf, ConcatProperties
    <3>12. Stamps((fold \o steps) \o Tail(todo[c]), jobs')
        BY <2>2, <3>11, StampsOf
    <3> QED
        BY <1>4, <3>10, <3>12
  <2>4. CASE ~(current = None /\ pending # NoPlan)
      BY <1>4, <1>9, <2>4, Unstamped DEF ApproveTaken, Returns
  <2> QED
      BY <2>3, <2>4
<1>10. ASSUME NEW c \in Clients, HandlerContinues(c) \/ HandlerSays(c)
       PROVE  \A d \in Clients : Stamps(todo'[d], jobs')
  <2>1. CASE Resolve(c) \/ SpawnPlanning(c) \/ Narrow(c) \/ HandlerSays(c)
    <3>1. todo[c] # <<>> /\ Rest(c)
        BY <2>1 DEF Resolve, SpawnPlanning, Narrow, HandlerSays, Next1
    <3> QED
        BY <1>6, <3>1
  <2> QED
      BY <1>8, <1>9, <1>10, <2>1 DEF HandlerContinues
<1>11. ASSUME NEW t \in Turns, TaskContinues(t) \/ ModelReturns(t) \/ TaskSays(t)
       PROVE  UNCHANGED todo
    BY <1>11 DEF TaskContinues, Land, Drafted, Offer, ModelReturns, RunEnds, PlanningEnds, TaskSays
<1>12. CASE UNCHANGED vars
    BY <1>5, <1>12 DEF vars
<1> QED
    BY <1>5, <1>7, <1>10, <1>11, <1>12 DEF Next, Silent

\* The stored sandbox is one a handler was still to store, or the plan's of the
\* job that opens again, or none.
LEMMA NarrowedStamped ==
    ASSUME GateInv, Stamped, [Next]_vars
    PROVE  Stamp(narrowed.job, narrowed.plan, jobs)'
<1>1. TypeOK /\ Move(jobs, jobs')
    BY StepMoves DEF GateInv
<1>2. narrowed.job \in Nat /\ Stamp(narrowed.job, narrowed.plan, jobs')
    BY <1>1, StampsStay DEF Stamped, TypeOK, Sandbox
<1>3. Floor.job = None
    BY DEF Floor
<1>4. \A s : Stamp(Floor.job, Floor.plan, s)
    BY <1>3 DEF Stamp
<1>5. ASSUME narrowed' \in {narrowed, Floor} PROVE Stamp(narrowed.job, narrowed.plan, jobs)'
    BY <1>2, <1>4, <1>5
<1>6. ASSUME NEW c \in Clients, Narrow(c) PROVE Stamp(narrowed.job, narrowed.plan, jobs)'
  <2>1. /\ todo[c] # <<>> /\ Head(todo[c]).do = "narrow" /\ jobs' = jobs
        /\ narrowed' \in Narrowings(Head(todo[c]).job, Head(todo[c]).plan)
      BY <1>6 DEF Narrow, Next1, context
  <2>2. todo[c] \in Seq(HandlerStep)
      BY <1>1 DEF TypeOK
  <2>3. 1 \in 1..Len(todo[c]) /\ todo[c][1] = Head(todo[c])
      BY <2>1, <2>2, HeadTailProperties, EmptySeq, LenProperties
  <2>4. Stamp(Head(todo[c]).job, Head(todo[c]).plan, jobs)
      BY <2>1, <2>3 DEF Stamped, Stamps
  <2> QED
      BY <1>4, <2>1, <2>4 DEF Narrowings, PlanSandbox
<1>7. ASSUME NEW c \in Clients, ReopenJob(c) PROVE Stamp(narrowed.job, narrowed.plan, jobs)'
  <2>1. PICK job \in 1..Len(jobs) : Reopens(job)
      BY <1>7 DEF ReopenJob
  <2>2. job = Len(jobs) /\ ReopensLast(jobs, jobs')
      BY <2>1, ReopenShape DEF Reopens, GateInv
  <2>3. Len(jobs') = Len(jobs) /\ jobs'[Len(jobs')].plan = jobs[Len(jobs)].plan
      BY <2>2 DEF ReopensLast, OpenedAgain
  <2>4. narrowed' = Floor \/ narrowed' = PlanSandbox(job, jobs[Len(jobs)].plan)
      BY <2>1 DEF Reopens, Narrowings
  <2>5. Len(jobs) \in Nat
      BY JobIds
  <2> QED
      BY <1>4, <2>2, <2>3, <2>4, <2>5 DEF PlanSandbox, Stamp
<1>8. ASSUME NEW c \in Clients, Handles(c), ~ReopenJob(c) PROVE narrowed' \in {narrowed, Floor}
    BY <1>8 DEF Handles, OnPrompt, RequestPlan, Cancel, ApproveSigned, DeclinePlan, CloseJob,
       WithoutJob
<1>9. ASSUME NEW c \in Clients, HandlerContinues(c) \/ HandlerSays(c), ~Narrow(c)
      PROVE  narrowed' \in {narrowed, Floor}
    BY <1>9 DEF HandlerContinues, HandlerSays, BeginTurn, Resolve, SpawnPlanning, ApproveTaken
<1>10. ASSUME NEW t \in Turns, TaskContinues(t) \/ ModelReturns(t) \/ TaskSays(t)
       PROVE  narrowed' \in {narrowed, Floor}
    BY <1>10 DEF TaskContinues, Land, WithoutJob, Drafted, Offer, ModelReturns, RunEnds,
       PlanningEnds, TaskSays
<1>11. CASE UNCHANGED vars
    BY <1>5, <1>11 DEF vars
<1> QED
    BY <1>5, <1>6, <1>7, <1>8, <1>9, <1>10, <1>11 DEF Next, Silent

\* A turn's sandbox is read once, of the live job, and no job moves while the
\* turn flies.
LEMMA TasksHeld ==
    ASSUME GateInv, Flight, Stamped, [Next]_vars
    PROVE  \A t \in Turns : RunsHeld(task'[t], jobs')
<1>1. TypeOK
    BY DEF GateInv
<1>2. \A t \in Turns : task[t] \in Seq(TaskStep) /\ RunsHeld(task[t], jobs)
    BY <1>1 DEF TypeOK, Stamped
<1>3. CASE current' = None
  <2> SUFFICES ASSUME NEW t \in Turns, NEW i \in 1..Len(task'[t]), task'[t][i].do = "run"
               PROVE  FALSE
      BY DEF RunsHeld
  <2>1. Flies(task'[t])
      BY DEF Flies, Flying
  <2>2. t = current'
      BY <2>1, StepFlies DEF Flight
  <2> QED
      BY <1>3, <2>2, MaxTurnsAssumption DEF Turns, None
<1>4. ASSUME UNCHANGED <<jobs, task>> PROVE \A t \in Turns : RunsHeld(task'[t], jobs')
    BY <1>2, <1>4
<1>5. ASSUME NEW t \in Turns, NEW q, task' = [task EXCEPT ![t] = q], RunsHeld(q, jobs), jobs' = jobs
      PROVE  \A s \in Turns : RunsHeld(task'[s], jobs')
  <2>1. \A s \in Turns : task'[s] = IF s = t THEN q ELSE task[s]
      BY <1>1, <1>5 DEF TypeOK
  <2> QED
      BY <1>2, <1>5, <2>1
<1>6. ASSUME NEW c \in Clients, Handles(c), current' # None
      PROVE  UNCHANGED <<jobs, task>>
    BY <1>6 DEF Handles, OnPrompt, RequestPlan, Cancel, ApproveSigned, DeclinePlan, CloseJob,
       MayClose, ReopenJob, Reopens, context
<1>7. ASSUME NEW c \in Clients, BeginTurn(c) \/ Narrow(c) \/ HandlerSays(c) \/ ApproveTaken(c),
             current' # None
      PROVE  UNCHANGED <<jobs, task>>
    BY <1>7 DEF BeginTurn, Narrow, HandlerSays, ApproveTaken, context
<1>8. ASSUME NEW c \in Clients, Resolve(c) PROVE \A s \in Turns : RunsHeld(task'[s], jobs')
  <2> DEFINE run == [do |-> "run", told |-> Head(todo[c]).told, sandbox |-> LiveSandbox]
  <2>1. /\ task' = [task EXCEPT ![Head(todo[c]).turn] = <<run>>] /\ jobs' = jobs
        /\ todo[c] # <<>> /\ Head(todo[c]).do = "resolve"
      BY <1>8 DEF Resolve, Next1, context
  <2>2. Head(todo[c]).turn \in Turns
      BY <1>1, <2>1, TodoTypes, HandlerStepCarries
  <2>3. HeldBy(LiveSandbox, jobs)
    <3>1. CASE CurrentJob(jobs) # None /\ narrowed.job = CurrentJob(jobs)
      <4>1. LiveSandbox = narrowed /\ narrowed.job = Len(jobs)
          BY <3>1, CurrentIsLast DEF LiveSandbox, GateInv
      <4>2. narrowed.plan = jobs[Len(jobs)].plan
          BY <3>1, <4>1 DEF Stamped, Stamp
      <4> QED
          BY <3>1, <4>1, <4>2 DEF HeldBy
    <3>2. CASE ~(CurrentJob(jobs) # None /\ narrowed.job = CurrentJob(jobs))
        BY <3>2 DEF LiveSandbox, HeldBy
    <3> QED
        BY <3>1, <3>2
  <2>4. RunsHeld(<<run>>, jobs)
    <3>1. \A i \in 1..Len(<<run>>) : <<run>>[i].sandbox = LiveSandbox
        OBVIOUS
    <3> QED
        BY <2>3, <3>1 DEF RunsHeld
  <2> QED
      BY <1>5, <2>1, <2>2, <2>4
<1>9. ASSUME NEW c \in Clients, SpawnPlanning(c) PROVE \A s \in Turns : RunsHeld(task'[s], jobs')
  <2>1. /\ task' = [task EXCEPT ![Head(todo[c]).turn] = <<Do("planning")>>] /\ jobs' = jobs
        /\ todo[c] # <<>> /\ Head(todo[c]).do = "spawn"
      BY <1>9 DEF SpawnPlanning, Next1, context
  <2>2. Head(todo[c]).turn \in Turns
      BY <1>1, <2>1, TodoTypes, HandlerStepCarries
  <2> QED
      BY <1>5, <2>1, <2>2, NotRunning
<1>10. ASSUME NEW t \in Turns, task[t] # <<>>, jobs' = jobs,
              TaskRest(t) \/ \E q \in Seq(TaskStep) : TaskContinue(t, q) /\ RunsHeld(q, jobs)
       PROVE  \A s \in Turns : RunsHeld(task'[s], jobs')
  <2>1. RunsHeld(Tail(task[t]), jobs) /\ Tail(task[t]) \in Seq(TaskStep)
      BY <1>2, <1>10, RunsOf, StepsType
  <2>2. CASE TaskRest(t)
      BY <1>5, <1>10, <2>1, <2>2 DEF TaskRest
  <2>3. ASSUME NEW q \in Seq(TaskStep), TaskContinue(t, q), RunsHeld(q, jobs)
        PROVE  \A s \in Turns : RunsHeld(task'[s], jobs')
    <3>1. RunsHeld(q \o Tail(task[t]), jobs)
        BY <2>1, <2>3, RunsOf
    <3> QED
        BY <1>5, <1>10, <2>3, <3>1 DEF TaskContinue
  <2> QED
      BY <1>10, <2>2, <2>3
<1>11. ASSUME NEW t \in Turns, TaskSays(t) \/ Drafted(t) \/ Offer(t) \/ RunEnds(t)
       PROVE  \A s \in Turns : RunsHeld(task'[s], jobs')
  <2>1. task[t] # <<>> /\ jobs' = jobs
      BY <1>11 DEF TaskSays, Drafted, Offer, RunEnds, Next1, context
  <2>2. CASE TaskSays(t)
      BY <1>10, <2>1, <2>2 DEF TaskSays
  <2>3. CASE Drafted(t) \/ Offer(t)
    <3>1. \A m \in Message : <<Say(m)>> \in Seq(TaskStep) /\ RunsHeld(<<Say(m)>>, jobs)
        BY TaskStepTypes, NotRunning
    <3>2. TaskRest(t) \/ \E m \in Message : TaskContinue(t, <<Say(m)>>)
        BY <2>3, MessageTypes, JobIds DEF Drafted, Offer
    <3> QED
        BY <1>10, <2>1, <3>1, <3>2
  <2>4. CASE RunEnds(t)
    <3>1. PICK outcome \in Outcomes :
              TaskContinue(t, <<[do |-> "land", outcome |-> outcome,
                                 before |-> CurrentJob(jobs)]>>)
        BY <2>4 DEF RunEnds
    <3> DEFINE q == <<[do |-> "land", outcome |-> outcome, before |-> CurrentJob(jobs)]>>
    <3>2. q \in Seq(TaskStep) /\ RunsHeld(q, jobs)
        BY TaskStepTypes, NotRunning, JobIds
    <3> HIDE DEF q
    <3>3. TaskContinue(t, q)
        BY <3>1 DEF q
    <3> QED
        BY <1>10, <2>1, <3>2, <3>3
  <2> QED
      BY <1>11, <2>2, <2>3, <2>4
<1>12. ASSUME NEW t \in Turns, Land(t) \/ PlanningEnds(t) PROVE current' = None
    BY <1>12 DEF Land, PlanningEnds
<1>13. CASE UNCHANGED vars
    BY <1>4, <1>13 DEF vars
<1> QED
    BY <1>3, <1>4, <1>6, <1>7, <1>8, <1>9, <1>11, <1>12, <1>13
       DEF Next, Silent, HandlerContinues, TaskContinues, ModelReturns

LEMMA InitStamped == Init => Stamped
<1>1. Init => Stamp(narrowed.job, narrowed.plan, jobs)
    BY DEF Init, Stamp, Floor
<1>2. Init => /\ \A c \in Clients : Stamps(todo[c], jobs)
              /\ \A t \in Turns : RunsHeld(task[t], jobs)
    BY Unstamped, NotRunning DEF Init
<1> QED
    BY <1>1, <1>2 DEF Stamped

\* The tools of a turn are held by the plan of the live job or by the floor,
\* whatever sandbox was stored late, and for whom (serve.rs, start_turn).
THEOREM TurnsRunUnderTheLivePlan == Spec => []RunsUnderTheLivePlan
<1>1. GateInv /\ Flight /\ Stamped /\ [Next]_vars => Stamped'
    BY HandlersStamped, NarrowedStamped, TasksHeld DEF Stamped
<1>2. Spec => []Stamped
    BY <1>1, InitStamped, Invariance, TurnsFly, PTL DEF Spec
<1>3. ASSUME TypeOK, Stamped PROVE RunsUnderTheLivePlan
  <2> SUFFICES ASSUME NEW t \in Turns, Next1(task[t], "run"), Head(task[t]).sandbox # Floor
               PROVE  /\ Head(task[t]).sandbox.job = CurrentJob(jobs)
                      /\ Head(task[t]).sandbox.plan = jobs[Len(jobs)].plan
      BY DEF RunsUnderTheLivePlan
  <2>1. task[t] \in Seq(TaskStep) /\ task[t] # <<>> /\ Head(task[t]).do = "run"
      BY <1>3 DEF TypeOK, Next1
  <2>2. 1 \in 1..Len(task[t]) /\ task[t][1] = Head(task[t])
      BY <2>1, HeadTailProperties, EmptySeq, LenProperties
  <2> QED
      BY <1>3, <2>1, <2>2 DEF Stamped, RunsHeld, HeldBy
<1>4. GateInv => TypeOK
    BY DEF GateInv
<1> QED
    BY <1>2, <1>3, <1>4, Invariance, PTL

-----------------------------------------------------------------------------
(***************************************************************************)
(* A plan is answered once.  It is named by the turn that proposed it, so a   *)
(* turn that may still propose one (`Unspent`) has none on the table and none  *)
(* answered; the offer spends it.                                          *)
(***************************************************************************)
AnsweredTurns(r) == {r[i].turn : i \in 1..Len(r)}
ApprovedTurns(r) == {r[i].turn : i \in {k \in 1..Len(r) : r[k].answer = "approved"}}
PlanTurns(s) == {s[i].plan.turn : i \in {k \in 1..Len(s) : ~IsDraft(s[k])}}

Asks(steps) == Flies(steps) \/ Offers(steps)

Unspent(t) ==
    \/ nextTurn <= t
    \/ \E c \in Clients : Carries(todo[c], t)
    \/ Asks(task[t])

Proposed(t) == t = pending.turn \/ t \in AnsweredTurns(rounds)

Once ==
    /\ \A i, k \in 1..Len(rounds) : rounds[i].turn = rounds[k].turn => i = k
    /\ pending.turn \notin AnsweredTurns(rounds)
    /\ PlanTurns(jobs) = ApprovedTurns(rounds)

Spending ==
    /\ current # None => current < nextTurn
    /\ \A t \in Turns : task[t] # <<>> =>
          t < nextTurn /\ \A c \in Clients : ~Carries(todo[c], t)
    /\ \A t \in Turns : Unspent(t) => ~Proposed(t)

\* What a handler or a task goes on with, a turn that starts, one that is handed
\* over and one that ends leave every turn as spent as it was.
LEMMA ShapesSpend ==
    ASSUME TypeOK, Flight, Spending, Shaped
    PROVE  /\ current' # None => current' < nextTurn'
           /\ \A t \in Turns : task'[t] # <<>> =>
                 t < nextTurn' /\ \A c \in Clients : ~Carries(todo'[c], t)
           /\ \A t \in Turns : Unspent(t)' => Unspent(t)
<1> DEFINE Goal == /\ current' # None => current' < nextTurn'
                   /\ \A t \in Turns : task'[t] # <<>> =>
                         t < nextTurn' /\ \A c \in Clients : ~Carries(todo'[c], t)
                   /\ \A t \in Turns : Unspent(t)' => Unspent(t)
<1>1. nextTurn \in Nat /\ \A t \in Turns : t \in Nat /\ t # None
    BY MaxTurnsAssumption DEF TypeOK, Turns, None
<1>2. ASSUME NEW c \in Clients, NEW q, HandlerGoesOn(c, q) PROVE Goal
  <2>1. \A d \in Clients : todo'[d] = IF d = c THEN q ELSE todo[d]
      BY <1>2 DEF TypeOK, HandlerGoesOn
  <2>2. \A d \in Clients, t \in Turns : Carries(todo'[d], t) <=> Carries(todo[d], t)
      BY <1>2, <2>1 DEF HandlerGoesOn
  <2> QED
      BY <1>2, <2>2 DEF HandlerGoesOn, Spending, Unspent
<1>3. ASSUME NEW c \in Clients, NEW q, TurnStarts(c, q) PROVE Goal
  <2>1. \A d \in Clients : todo'[d] = IF d = c THEN q ELSE todo[d]
      BY <1>3 DEF TypeOK, TurnStarts
  <2>2. \A d \in Clients, t \in Turns : Carries(todo'[d], t) => t = nextTurn \/ Carries(todo[d], t)
      BY <1>3, <2>1 DEF TurnStarts
  <2>3. /\ current' = nextTurn /\ nextTurn' = nextTurn + 1 /\ task' = task
      BY <1>3 DEF TurnStarts
  <2>4. nextTurn < nextTurn' /\ \A t \in Turns : (t < nextTurn => t < nextTurn' /\ t # nextTurn)
      BY <1>1, <2>3
  <2>5. \A t \in Turns : nextTurn' <= t => nextTurn <= t
      BY <1>1, <2>3
  <2>6. \A t \in Turns : t = nextTurn => nextTurn <= t
      BY <1>1
  <2>7. \A t \in Turns : Unspent(t)' => Unspent(t)
      BY <2>2, <2>3, <2>5, <2>6 DEF Unspent
  <2> QED
      BY <2>2, <2>3, <2>4, <2>7 DEF Spending
<1>4. ASSUME NEW c \in Clients, NEW t \in Turns, NEW q, HandsOver(c, t, q) PROVE Goal
  <2>1. \A d \in Clients : todo'[d] = IF d = c THEN <<>> ELSE todo[d]
      BY <1>4 DEF TypeOK, HandsOver
  <2>2. \A s \in Turns : task'[s] = IF s = t THEN q ELSE task[s]
      BY <1>4 DEF TypeOK, HandsOver
  <2>3. t = current /\ t < nextTurn /\ nextTurn' = nextTurn /\ current' = current
      BY <1>1, <1>4 DEF Flight, HandsOver, Spending
  <2>4. \A d \in Clients, s \in Turns : Carries(todo'[d], s) => d # c /\ Carries(todo[d], s)
      BY <2>1, Nothing
  <2>5. \A d \in Clients : ~Carries(todo'[d], t)
      BY <1>4, <2>4 DEF Flight, HandsOver
  <2>6. \A s \in Turns : Unspent(s)' => Unspent(s)
      BY <1>4, <2>2, <2>3, <2>4 DEF HandsOver, Unspent
  <2> QED
      BY <2>2, <2>3, <2>4, <2>5, <2>6 DEF Spending
<1>5. ASSUME NEW t \in Turns, NEW q, task[t] # <<>>, task' = [task EXCEPT ![t] = q],
             Asks(q) => Asks(task[t]), UNCHANGED <<nextTurn, todo>>,
             current' \in {current, None}
      PROVE  Goal
  <2>1. \A s \in Turns : task'[s] = IF s = t THEN q ELSE task[s]
      BY <1>5 DEF TypeOK
  <2> QED
      BY <1>5, <2>1 DEF Spending, Unspent
<1>6. ASSUME NEW t \in Turns, NEW q, TaskGoesOn(t, q) PROVE Goal
    BY <1>5, <1>6 DEF TaskGoesOn, Asks
<1>7. ASSUME NEW t \in Turns, NEW q, TurnEnds(t, q) PROVE Goal
  <2>1. task[t] # <<>> /\ Asks(task[t])
      BY <1>7, Nothing DEF TurnEnds, Asks
  <2> QED
      BY <1>5, <1>7, <2>1 DEF TurnEnds
<1>8. CASE UNCHANGED <<current, nextTurn, todo, task>>
    BY <1>8 DEF Spending, Unspent
<1> QED
    BY <1>2, <1>3, <1>4, <1>6, <1>7, <1>8 DEF Shaped

\* The jobs that are a plan's, as the jobs move.
LEMMA PlanTurnsOf ==
    ASSUME NEW s, WellFormed(s), NEW r
    PROVE  /\ OpensDraft(s, r) => PlanTurns(r) = PlanTurns(s)
           /\ \A by : ClosesLast(s, r, by) => PlanTurns(r) = PlanTurns(s)
           /\ ReopensLast(s, r) => PlanTurns(r) = PlanTurns(s)
           /\ \A plan \in Plan \ {NoPlan} :
                 ApprovesInDraft(s, r, plan) => PlanTurns(r) = PlanTurns(s) \cup {plan.turn}
<1>1. Len(s) \in Nat
    BY CurrentIsLast
<1>2. ASSUME OpensDraft(s, r) PROVE PlanTurns(r) = PlanTurns(s)
  <2>1. /\ Len(r) = Len(s) + 1 /\ \A i \in 1..Len(s) : r[i] = s[i]
        /\ IsDraft(r[Len(s) + 1])
      BY <1>2 DEF OpensDraft, IsDraft, Draft
  <2>2. {k \in 1..Len(r) : ~IsDraft(r[k])} = {k \in 1..Len(s) : ~IsDraft(s[k])}
      BY <1>1, <2>1
  <2> QED
      BY <2>1, <2>2 DEF PlanTurns
<1>3. ASSUME Len(r) = Len(s), \A i \in 1..Len(s) : r[i].plan = s[i].plan
      PROVE  PlanTurns(r) = PlanTurns(s)
  <2>1. {k \in 1..Len(r) : ~IsDraft(r[k])} = {k \in 1..Len(s) : ~IsDraft(s[k])}
      BY <1>3 DEF IsDraft
  <2> QED
      BY <1>3, <2>1 DEF PlanTurns
<1>4. ASSUME NEW by, ClosesLast(s, r, by) PROVE PlanTurns(r) = PlanTurns(s)
  <2>1. Len(r) = Len(s) /\ \A i \in 1..Len(s) : i = Len(s) \/ i \in 1..(Len(s) - 1)
      BY <1>1, <1>4 DEF ClosesLast
  <2>2. r[Len(s)].plan = s[Len(s)].plan /\ \A i \in 1..(Len(s) - 1) : r[i] = s[i]
      BY <1>4 DEF ClosesLast, ClosedBy
  <2> QED
      BY <1>3, <2>1, <2>2
<1>5. ASSUME ReopensLast(s, r) PROVE PlanTurns(r) = PlanTurns(s)
  <2>1. Len(r) = Len(s) /\ \A i \in 1..Len(s) : i = Len(s) \/ i \in 1..(Len(s) - 1)
      BY <1>1, <1>5 DEF ReopensLast
  <2>2. r[Len(s)].plan = s[Len(s)].plan /\ \A i \in 1..(Len(s) - 1) : r[i] = s[i]
      BY <1>5 DEF ReopensLast, OpenedAgain
  <2> QED
      BY <1>3, <2>1, <2>2
<1>6. ASSUME NEW plan \in Plan \ {NoPlan}, ApprovesInDraft(s, r, plan)
      PROVE  PlanTurns(r) = PlanTurns(s) \cup {plan.turn}
  <2>1. /\ Len(r) = Len(s) + 1
        /\ \A i \in 1..Len(s) : i = Len(s) \/ i \in 1..(Len(s) - 1)
        /\ \A i \in 1..Len(r) : i \in 1..Len(s) \/ i = Len(s) + 1
        /\ \A i \in 1..Len(s) : i \in 1..Len(r) /\ i # Len(s) + 1
        /\ Len(s) + 1 \in 1..Len(r)
      BY <1>1, <1>6 DEF ApprovesInDraft
  <2>2. r[Len(s)].plan = s[Len(s)].plan /\ \A i \in 1..(Len(s) - 1) : r[i] = s[i]
      BY <1>6 DEF ApprovesInDraft, ClosedBy
  <2>3. r[Len(s) + 1].plan = plan
      BY <1>6 DEF ApprovesInDraft, Planned
  <2>4. \A i \in 1..Len(s) : r[i].plan = s[i].plan
      BY <2>1, <2>2
  <2>5. \A x : x \in PlanTurns(r) <=> \E i \in 1..Len(r) : ~IsDraft(r[i]) /\ x = r[i].plan.turn
      BY DEF PlanTurns
  <2>6. \A x : x \in PlanTurns(s) <=> \E i \in 1..Len(s) : ~IsDraft(s[i]) /\ x = s[i].plan.turn
      BY DEF PlanTurns
  <2>7. ~IsDraft(r[Len(s) + 1]) /\ \A i \in 1..Len(s) : IsDraft(r[i]) <=> IsDraft(s[i])
      BY <2>3, <2>4 DEF IsDraft
  <2>8. \A x : x \in PlanTurns(r) <=> (x \in PlanTurns(s) \/ x = plan.turn)
      BY <2>1, <2>3, <2>4, <2>5, <2>6, <2>7
  <2> QED
      BY <2>8
<1> QED
    BY <1>2, <1>4, <1>5, <1>6

\* An answer is one more round, of the plan that leaves the table.
LEMMA AnswerIsOnce ==
    ASSUME TypeOK, Once, pending # NoPlan, NEW plan, plan.turn = pending.turn,
           NEW answer \in {"declined", "approved"},
           rounds' = Append(rounds, Answered(plan, answer)), pending' = NoPlan,
           PlanTurns(jobs') = PlanTurns(jobs)
                \cup (IF answer = "approved" THEN {plan.turn} ELSE {})
    PROVE  Once' /\ \A t \in Turns : Proposed(t)' => Proposed(t)
<1> DEFINE S == [turn : Turns, answer : {"declined", "approved"}]
           n == Len(rounds)
           e == Answered(plan, answer)
<1>1. e \in S /\ e.turn = pending.turn /\ e.answer = answer /\ rounds \in Seq(S)
    BY PendingIsAPlan DEF Answered, TypeOK
<1>2. /\ Len(rounds') = n + 1 /\ n \in Nat
      /\ \A i \in 1..n : rounds'[i] = rounds[i]
      /\ rounds'[n + 1] = e
  <2> HIDE DEF e, S
  <2>1. rounds' = Append(rounds, e)
      BY DEF e
  <2> QED
      BY <1>1, <2>1, AppendProperties
<1>3. /\ \A i \in 1..Len(rounds') : i \in 1..n \/ i = n + 1
      /\ \A i \in 1..n : i \in 1..Len(rounds') /\ i # n + 1
      /\ n + 1 \in 1..Len(rounds')
    BY <1>2
<1>4. \A i \in 1..n : rounds[i].turn # pending.turn /\ rounds[i].turn \in Turns
  <2>1. \A i \in 1..n : rounds[i].turn # pending.turn
      BY DEF Once, AnsweredTurns
  <2>2. \A i \in 1..n : rounds[i] \in S
    <3> HIDE DEF S
    <3> QED
        BY <1>1, LenProperties
  <2> QED
      BY <2>1, <2>2
<1> HIDE DEF n, e, S
<1>5. \A i, k \in 1..Len(rounds') : rounds'[i].turn = rounds'[k].turn => i = k
    BY <1>1, <1>2, <1>3, <1>4 DEF Once, n
<1>6. \A i \in 1..Len(rounds') : rounds'[i].turn \in Turns
    BY <1>1, <1>2, <1>3, <1>4 DEF S
<1>7. pending'.turn \notin AnsweredTurns(rounds')
  <2>1. pending'.turn = None /\ \A t \in Turns : t # None
      BY MaxTurnsAssumption DEF NoPlan, Turns, None
  <2> QED
      BY <1>6, <2>1 DEF AnsweredTurns
<1>8. PlanTurns(jobs') = ApprovedTurns(rounds')
  <2>1. \A x : x \in ApprovedTurns(rounds') <=>
            \E i \in 1..Len(rounds') : rounds'[i].answer = "approved" /\ x = rounds'[i].turn
      BY DEF ApprovedTurns
  <2>2. \A x : x \in ApprovedTurns(rounds) <=>
            \E i \in 1..n : rounds[i].answer = "approved" /\ x = rounds[i].turn
      BY DEF ApprovedTurns, n
  <2>3. \A x : x \in ApprovedTurns(rounds') <=>
            (x \in ApprovedTurns(rounds) \/ (answer = "approved" /\ x = plan.turn))
      BY <1>1, <1>2, <1>3, <2>1, <2>2
  <2> QED
      BY <2>3 DEF Once
<1>9. \A t \in Turns : Proposed(t)' => Proposed(t)
  <2>1. \A t \in Turns : t # pending'.turn
      BY MaxTurnsAssumption DEF NoPlan, Turns, None
  <2>2. \A t \in Turns : t \in AnsweredTurns(rounds') =>
            t = pending.turn \/ t \in AnsweredTurns(rounds)
      BY <1>1, <1>2, <1>3 DEF AnsweredTurns, n
  <2> QED
      BY <2>1, <2>2 DEF Proposed
<1> QED
    BY <1>5, <1>7, <1>8, <1>9 DEF Once

\* What the rounds, the table and the plan jobs become in a step.
LEMMA StepAnswers ==
    ASSUME GateInv, Flight, Spending, Once, [Next]_vars
    PROVE  /\ Once'
           /\ \/ \A t \in Turns : Proposed(t)' => Proposed(t)
              \/ \E t \in Turns : /\ Offers(task[t]) /\ ~Unspent(t)'
                                  /\ \A s \in Turns : Proposed(s)' => s = t \/ Proposed(s)
<1> DEFINE Goal == Once' /\ \A t \in Turns : Proposed(t)' => Proposed(t)
<1>1. TypeOK /\ WellFormed(jobs)
    BY DEF GateInv
<1>2. ASSUME UNCHANGED <<rounds, pending>>, PlanTurns(jobs') = PlanTurns(jobs) PROVE Goal
    BY <1>2 DEF Once, Proposed
<1>3. ASSUME UNCHANGED <<rounds, pending, jobs>> PROVE Goal
    BY <1>2, <1>3
<1>4. ASSUME NEW c \in Clients, OnPrompt(c) \/ DeclinePlan(c) PROVE Goal
  <2>1. CASE pending = NoPlan
      BY <1>3, <1>4, <2>1 DEF OnPrompt, DeclinePlan
  <2>2. CASE pending # NoPlan
    <3>1. /\ rounds' = Append(rounds, Answered(pending, "declined")) /\ pending' = NoPlan
          /\ jobs' = jobs
        BY <1>4, <2>2 DEF OnPrompt, DeclinePlan
    <3>2. PlanTurns(jobs') =
              PlanTurns(jobs) \cup (IF "declined" = "approved" THEN {pending.turn} ELSE {})
        BY <3>1
    <3> QED
        BY <1>1, <2>2, <3>1, <3>2, AnswerIsOnce
  <2> QED
      BY <2>1, <2>2
<1>5. ASSUME NEW c \in Clients, CloseJob(c) PROVE Goal
  <2>1. PICK job \in 1..Len(jobs) : MayClose(job) /\ jobs' = CloseJobBy(jobs, job, "user")
      BY <1>5 DEF CloseJob
  <2>2. CurrentJob(jobs) = job /\ CurrentJob(jobs) # None
      BY <1>1, <2>1, OnlyCurrentCloses DEF MayClose
  <2>3. ClosesLast(jobs, jobs', "user")
      BY <1>1, <2>1, <2>2, CloseShape DEF Closer
  <2>4. UNCHANGED <<rounds, pending>>
      BY <1>5 DEF CloseJob
  <2> QED
      BY <1>1, <1>2, <2>3, <2>4, PlanTurnsOf
<1>6. ASSUME NEW c \in Clients, ReopenJob(c) PROVE Goal
  <2>1. PICK job \in 1..Len(jobs) : Reopens(job)
      BY <1>6 DEF ReopenJob
  <2>2. ReopensLast(jobs, jobs')
      BY <1>1, <2>1, ReopenShape DEF Reopens
  <2>3. UNCHANGED <<rounds, pending>>
      BY <1>6 DEF ReopenJob
  <2> QED
      BY <1>1, <1>2, <2>2, <2>3, PlanTurnsOf
<1>7. ASSUME NEW c \in Clients, Handles(c) PROVE Goal
  <2>1. CASE RequestPlan(c) \/ Cancel(c) \/ ApproveSigned(c)
      BY <1>3, <2>1 DEF RequestPlan, Cancel, ApproveSigned, context
  <2> QED
      BY <1>4, <1>5, <1>6, <1>7, <2>1 DEF Handles
<1>8. ASSUME NEW c \in Clients, ApproveTaken(c) PROVE Goal
  <2>1. CASE current = None /\ pending # NoPlan
    <3>1. PICK closes \in BOOLEAN :
              TakePlan(c, Head(todo[c]).job, [pending EXCEPT !.closes = closes])
        BY <1>8, <2>1 DEF ApproveTaken
    <3> DEFINE plan == [pending EXCEPT !.closes = closes]
    <3>2. plan \in Plan \ {NoPlan} /\ plan.turn = pending.turn
        BY <1>1, <2>1, PendingIsAPlan
    <3>3. /\ jobs' = ApprovePlan(jobs, plan) /\ pending' = NoPlan
          /\ rounds' = Append(rounds, Answered(plan, "approved"))
        BY <3>1 DEF TakePlan
    <3>4. ApprovesInDraft(jobs, jobs', plan)
        BY <2>1, <3>2, <3>3, ApproveShape DEF GateInv, PendingInADraft
    <3>5. PlanTurns(jobs') = PlanTurns(jobs) \cup {plan.turn}
        BY <1>1, <3>2, <3>4, PlanTurnsOf
    <3> HIDE DEF plan
    <3>6. PlanTurns(jobs') =
              PlanTurns(jobs) \cup (IF "approved" = "approved" THEN {plan.turn} ELSE {})
        BY <3>5
    <3> QED
        BY <1>1, <2>1, <3>2, <3>3, <3>6, AnswerIsOnce
  <2>2. CASE ~(current = None /\ pending # NoPlan)
      BY <1>3, <1>8, <2>2 DEF ApproveTaken
  <2> QED
      BY <2>1, <2>2
<1>9. ASSUME NEW c \in Clients, HandlerContinues(c) \/ HandlerSays(c) PROVE Goal
  <2>1. CASE BeginTurn(c) \/ Resolve(c) \/ SpawnPlanning(c) \/ Narrow(c) \/ HandlerSays(c)
      BY <1>3, <2>1 DEF BeginTurn, Resolve, SpawnPlanning, Narrow, HandlerSays, context
  <2> QED
      BY <1>8, <1>9, <2>1 DEF HandlerContinues
<1>10. ASSUME NEW t \in Turns, Land(t) PROVE Goal
  <2> DEFINE outcome == Head(task[t]).outcome
             placed == IF outcome.lands THEN WithPlaceToLand(jobs) ELSE jobs
             landed == IF outcome.lands THEN Landed(t, placed) ELSE turns
  <2>1. jobs' = CloseIfMet(placed, landed) /\ UNCHANGED <<rounds, pending>>
      BY <1>10 DEF Land
  <2>2. placed = jobs \/ OpensDraft(jobs, placed)
      BY <1>1, LandShape
  <2>3. WellFormed(placed) /\ PlanTurns(placed) = PlanTurns(jobs)
      BY <1>1, <2>2, OpensDraftKeeps, PlanTurnsOf
  <2> HIDE DEF placed, landed
  <2>4. ASSUME Met(placed, landed) PROVE PlanTurns(jobs') = PlanTurns(placed)
    <3>1. CurrentJob(placed) # None
        BY <2>4 DEF Met
    <3>2. jobs' = CloseJobBy(placed, CurrentJob(placed), "exit_code")
        BY <2>1, <2>4 DEF CloseIfMet
    <3>3. ClosesLast(placed, jobs', "exit_code")
        BY <2>3, <3>1, <3>2, CloseShape DEF Closer
    <3> QED
        BY <2>3, <3>3, PlanTurnsOf
  <2>5. ASSUME ~Met(placed, landed) PROVE PlanTurns(jobs') = PlanTurns(placed)
      BY <2>1, <2>5 DEF CloseIfMet
  <2> QED
      BY <1>2, <2>1, <2>3, <2>4, <2>5
<1>11. ASSUME NEW t \in Turns, Offer(t)
       PROVE  /\ Once'
              /\ \/ \A s \in Turns : Proposed(s)' => Proposed(s)
                 \/ /\ Offers(task[t]) /\ ~Unspent(t)'
                    /\ \A s \in Turns : Proposed(s)' => s = t \/ Proposed(s)
  <2>1. CASE MayOffer
    <3>1. /\ task[t] # <<>> /\ Head(task[t]).do = "offer" /\ pending = NoPlan
          /\ pending'.turn = t /\ TaskContinue(t, <<Say(PlanProposed(t))>>)
          /\ UNCHANGED <<jobs, rounds, nextTurn, todo>>
        BY <1>11, <2>1 DEF Offer, MayOffer, Next1, context
    <3>2. task[t] \in Seq(TaskStep) /\ FliesAlone(task[t]) /\ OffersLast(task[t])
        BY <1>1 DEF TypeOK, Flight
    <3>3. Tail(task[t]) = <<>> /\ Offers(task[t])
      <4>1. 1 \in 1..Len(task[t]) /\ task[t][1] = Head(task[t])
          BY <3>1, <3>2, HeadTailProperties, EmptySeq, LenProperties
      <4> QED
          BY <3>1, <3>2, <4>1, TailFlies DEF Offers
    <3>4. Unspent(t)
        BY <3>3 DEF Unspent, Asks
    <3>5. ~Asks(task'[t])
      <4>1. <<Say(PlanProposed(t))>> \o <<>> = <<Say(PlanProposed(t))>>
          BY MessageTypes, TaskStepTypes, ConcatEmptySeq
      <4>2. task'[t] = <<Say(PlanProposed(t))>>
          BY <1>1, <3>1, <3>3, <4>1 DEF TaskContinue, TypeOK
      <4> QED
          BY <4>2, PlainSteps, PlainIsNothing DEF Asks
    <3>6. t < nextTurn /\ \A c \in Clients : ~Carries(todo[c], t)
        BY <3>1 DEF Spending
    <3>7. ~Unspent(t)'
      <4>1. ~(nextTurn <= t)
          BY <1>1, <3>6, MaxTurnsAssumption DEF TypeOK, Turns
      <4> QED
          BY <3>1, <3>5, <3>6, <4>1 DEF Unspent
    <3>8. ~Proposed(t)
        BY <3>4 DEF Spending
    <3> QED
        BY <3>1, <3>3, <3>7, <3>8 DEF Once, Proposed
  <2>2. CASE ~MayOffer
      BY <1>3, <1>11, <2>2 DEF Offer, context
  <2> QED
      BY <2>1, <2>2
<1>12. ASSUME NEW t \in Turns, Drafted(t) \/ RunEnds(t) \/ PlanningEnds(t) \/ TaskSays(t)
       PROVE  Goal
    BY <1>3, <1>12 DEF Drafted, RunEnds, PlanningEnds, TaskSays, context
<1>13. CASE UNCHANGED vars
    BY <1>3, <1>13 DEF vars
<1> QED
    BY <1>7, <1>9, <1>10, <1>11, <1>12, <1>13
       DEF Next, Silent, TaskContinues, ModelReturns

LEMMA InitAnswers == Init => Spending /\ Once
<1> SUFFICES ASSUME Init PROVE Spending /\ Once
    OBVIOUS
<1>1. /\ rounds = <<>> /\ jobs = <<>> /\ 1..Len(<<>>) = {}
      /\ pending.turn = None /\ \A t \in Turns : t # None
    BY MaxTurnsAssumption DEF Init, NoPlan, Turns, None
<1>2. AnsweredTurns(rounds) = {} /\ ApprovedTurns(rounds) = {} /\ PlanTurns(jobs) = {}
    BY <1>1 DEF AnsweredTurns, ApprovedTurns, PlanTurns
<1>3. Once
    BY <1>1, <1>2 DEF Once
<1>4. Spending
    BY <1>1, <1>2 DEF Init, Spending, Proposed
<1> QED
    BY <1>3, <1>4

LEMMA AnswersOnce == Spec => [](Spending /\ Once)
<1>1. ASSUME GateInv, Flight, Spending, Once, [Next]_vars
      PROVE  Spending' /\ Once'
  <2>1. /\ current' # None => current' < nextTurn'
        /\ \A t \in Turns : task'[t] # <<>> =>
              t < nextTurn' /\ \A c \in Clients : ~Carries(todo'[c], t)
        /\ \A t \in Turns : Unspent(t)' => Unspent(t)
      BY <1>1, StepShaped, ShapesSpend DEF GateInv
  <2>2. \A t \in Turns : Unspent(t)' => ~Proposed(t)'
      BY <1>1, <2>1, StepAnswers DEF Spending
  <2> QED
      BY <1>1, <2>1, <2>2, StepAnswers DEF Spending
<1> QED
    BY <1>1, InitAnswers, Invariance, TurnsFly, PTL DEF Spec

\* However many clients answer, at once or late, a plan is answered once, and
\* the plan jobs are the approved answers (serve.rs, on_prompt, approve_plan and
\* decline_plan).
THEOREM PlansAreAnsweredOnce == Spec => []EachPlanIsAnsweredOnce
<1>1. Once => EachPlanIsAnsweredOnce
    BY DEF Once, EachPlanIsAnsweredOnce, AnsweredTurns, ApprovedTurns, PlanTurns
<1> QED
    BY <1>1, AnswersOnce, PTL

-----------------------------------------------------------------------------
(***************************************************************************)
(* The turns the view has.  A turn is numbered and said to start by one        *)
(* handler, which says so before it hands the turn to its task: so whoever     *)
(* still has to say it carries the turn that runs, and nobody else does.  The  *)
(* view is then one turn behind the numbers, or not at all.                  *)
(***************************************************************************)
\* The watchers change nothing: what Gate's session keeps, it keeps beside them.
THEOREM WatchersDisturbNothing == StreamSpec => Spec
<1>1. StreamInit => Init
    BY DEF StreamInit
<1>2. [StreamNext]_streamVars => [Next]_vars
    BY DEF StreamNext, Publishes, Next, Silent, streamVars, vars
<1> QED
    BY <1>1, <1>2, PTL DEF StreamSpec, Spec

ShownTurn == [turn : Nat, job : Nat]

\* What a view must be to be folded further, as far as its turns go.
IsView(v) ==
    /\ v = [jobs |-> v.jobs, turns |-> v.turns, rounds |-> v.rounds]
    /\ v.turns \in Seq(ShownTurn)

SameTurns(v, w) ==
    /\ Len(w.turns) = Len(v.turns)
    /\ \A i \in 1..Len(v.turns) : w.turns[i].turn = v.turns[i].turn

LEMMA ViewExcept ==
    ASSUME NEW v, IsView(v), NEW x
    PROVE  /\ [v EXCEPT !.jobs = x] = [jobs |-> x, turns |-> v.turns, rounds |-> v.rounds]
           /\ [v EXCEPT !.turns = x] = [jobs |-> v.jobs, turns |-> x, rounds |-> v.rounds]
           /\ [v EXCEPT !.rounds = x] = [jobs |-> v.jobs, turns |-> v.turns, rounds |-> x]
<1>1. PICK s, turned, asked : v = [jobs |-> s, turns |-> turned, rounds |-> asked]
    BY DEF IsView
<1> QED
    BY <1>1

\* Jobs and rounds are written beside the turns.
LEMMA BesideTheTurns ==
    ASSUME NEW v, IsView(v), NEW x
    PROVE  /\ IsView([v EXCEPT !.jobs = x]) /\ [v EXCEPT !.jobs = x].turns = v.turns
           /\ IsView([v EXCEPT !.rounds = x]) /\ [v EXCEPT !.rounds = x].turns = v.turns
<1>1. ASSUME NEW s, NEW asked
      PROVE  LET w == [jobs |-> s, turns |-> v.turns, rounds |-> asked]
             IN  IsView(w) /\ w.turns = v.turns
    BY DEF IsView
<1>2. /\ [v EXCEPT !.jobs = x] = [jobs |-> x, turns |-> v.turns, rounds |-> v.rounds]
      /\ [v EXCEPT !.rounds = x] = [jobs |-> v.jobs, turns |-> v.turns, rounds |-> x]
    BY ViewExcept
<1>3. /\ IsView([jobs |-> x, turns |-> v.turns, rounds |-> v.rounds])
      /\ [jobs |-> x, turns |-> v.turns, rounds |-> v.rounds].turns = v.turns
    BY ONLY <1>1
<1>4. /\ IsView([jobs |-> v.jobs, turns |-> v.turns, rounds |-> x])
      /\ [jobs |-> v.jobs, turns |-> v.turns, rounds |-> x].turns = v.turns
    BY ONLY <1>1
<1> QED
    BY <1>2, <1>3, <1>4

LEMMA AnswerIsBeside ==
    ASSUME NEW v, IsView(v), NEW answer
    PROVE  IsView(AnswerRound(v, answer)) /\ AnswerRound(v, answer).turns = v.turns
<1>1. \/ AnswerRound(v, answer) = v
      \/ \E x : AnswerRound(v, answer) = [v EXCEPT !.rounds = x]
    BY DEF AnswerRound
<1>2. ASSUME NEW x, AnswerRound(v, answer) = [v EXCEPT !.rounds = x]
      PROVE  IsView(AnswerRound(v, answer)) /\ AnswerRound(v, answer).turns = v.turns
  <2>1. IsView([v EXCEPT !.rounds = x]) /\ [v EXCEPT !.rounds = x].turns = v.turns
      BY BesideTheTurns
  <2> QED
      BY <1>2, <2>1
<1> QED
    BY <1>1, <1>2

\* A turn that is given a job keeps its number and its place.
LEMMA PlacedIsInPlace ==
    ASSUME NEW v, IsView(v), NEW turn, NEW job \in Nat
    PROVE  IsView(Placed(v, turn, job)) /\ SameTurns(v, Placed(v, turn, job))
<1> DEFINE new == [i \in 1..Len(v.turns) |->
                      IF v.turns[i].turn = turn THEN [v.turns[i] EXCEPT !.job = job] ELSE v.turns[i]]
           p == Placed(v, turn, job)
<1>1. p = [jobs |-> v.jobs, turns |-> new, rounds |-> v.rounds]
    BY ViewExcept DEF Placed
<1>2. Len(v.turns) \in Nat /\ \A i \in 1..Len(v.turns) : v.turns[i] \in ShownTurn
    BY LenProperties DEF IsView
<1>3. new \in [1..Len(v.turns) -> ShownTurn]
    BY <1>2 DEF ShownTurn
<1>4. new \in Seq(ShownTurn) /\ Len(new) = Len(v.turns)
    BY <1>2, <1>3, SeqDef, LenProperties
<1>5. \A i \in 1..Len(v.turns) : new[i].turn = v.turns[i].turn
    BY <1>2 DEF ShownTurn
<1> HIDE DEF new, p
<1>6. p.jobs = v.jobs /\ p.turns = new /\ p.rounds = v.rounds
    BY <1>1
<1> QED
    BY <1>1, <1>4, <1>5, <1>6 DEF IsView, SameTurns, p

IsStart(m) == m.type = "turn_started"

\* What each message makes of the turns.
LEMMA ApplyTurns ==
    ASSUME NEW v, IsView(v), NEW m \in Message
    PROVE  /\ IsView(Apply(v, m))
           /\ ~IsStart(m) => SameTurns(v, Apply(v, m))
           /\ IsStart(m) /\ ~HasTurn(v, m.turn) =>
                 /\ m.turn \in Nat /\ m.job \in Nat
                 /\ Apply(v, m).turns = Append(v.turns, [turn |-> m.turn, job |-> m.job])
<1>0. SameTurns(v, v)
    BY DEF SameTurns
<1>1. ASSUME NEW w, IsView(w), w.turns = v.turns, Apply(v, m) = w, ~IsStart(m)
      PROVE  IsView(Apply(v, m)) /\ SameTurns(v, Apply(v, m))
    BY <1>1 DEF SameTurns
<1>9. CASE IsStart(m) /\ HasTurn(v, m.turn)
  <2>1. Apply(v, m) = v
      BY <1>9 DEF Apply, IsStart
  <2> QED
      BY <1>9, <2>1
<1>2. CASE IsStart(m) /\ ~HasTurn(v, m.turn)
  <2> DEFINE entry == [turn |-> m.turn, job |-> m.job]
             turned == Append(v.turns, entry)
  <2>1. m.turn \in Nat /\ m.job \in Nat
      BY <1>2, MaxTurnsAssumption DEF Message, Turns, IsStart
  <2>2. Apply(v, m) = [jobs |-> v.jobs, turns |-> turned, rounds |-> v.rounds]
      BY <1>2, ViewExcept DEF Apply, IsStart
  <2>3. entry \in ShownTurn /\ v.turns \in Seq(ShownTurn)
      BY <2>1 DEF IsView, ShownTurn
  <2>4. turned \in Seq(ShownTurn)
      BY <2>3, AppendProperties
  <2> HIDE DEF turned
  <2>5. Apply(v, m).jobs = v.jobs /\ Apply(v, m).turns = turned /\ Apply(v, m).rounds = v.rounds
      BY <2>2
  <2> QED
      BY <1>2, <2>1, <2>2, <2>4, <2>5 DEF IsView, turned
<1>3. CASE m.type = "draft_opened"
  <2> DEFINE p == Placed(v, m.turn, m.job)
             q == Append(p.jobs, Draft(m.job))
  <2>1. m.job \in Nat /\ ~IsStart(m)
      BY <1>3 DEF Message, IsStart
  <2>2. Apply(v, m) = p \/ Apply(v, m) = [p EXCEPT !.jobs = q]
      BY <1>3 DEF Apply, WithNewJob
  <2>3. IsView(p) /\ SameTurns(v, p)
      BY <2>1, PlacedIsInPlace
  <2> HIDE DEF p, q
  <2>4. IsView([p EXCEPT !.jobs = q]) /\ [p EXCEPT !.jobs = q].turns = p.turns
      BY <2>3, BesideTheTurns
  <2> QED
      BY <2>1, <2>2, <2>3, <2>4 DEF SameTurns
<1>4. CASE m.type = "plan_proposed"
  <2>1. \E x : Apply(v, m) = [v EXCEPT !.rounds = x]
      BY <1>4 DEF Apply
  <2> QED
      BY <1>1, <1>4, <2>1, BesideTheTurns DEF IsStart
<1>5. CASE m.type = "plan_declined"
  <2>1. Apply(v, m) = AnswerRound(v, "declined")
      BY <1>5 DEF Apply
  <2> QED
      BY <1>1, <1>5, <2>1, AnswerIsBeside DEF IsStart
<1>6. CASE m.type = "job_approved"
  <2>1. \E x : Apply(v, m) = AnswerRound([v EXCEPT !.jobs = x], "approved")
    <3> DEFINE Approve(job) == [job EXCEPT !.state = "open", !.plan = m.plan]
    <3>1. \E x : (IF HasJob(v, m.job)
                  THEN WithJob(v, m.job, Approve)
                  ELSE WithNewJob(v, Planned(m.job, m.plan))) = [v EXCEPT !.jobs = x]
        BY DEF WithJob, WithNewJob
    <3> QED
        BY <1>6, <3>1 DEF Apply
  <2>2. PICK x : Apply(v, m) = AnswerRound([v EXCEPT !.jobs = x], "approved")
      BY <2>1
  <2>3. IsView([v EXCEPT !.jobs = x]) /\ [v EXCEPT !.jobs = x].turns = v.turns
      BY BesideTheTurns
  <2> QED
      BY <1>1, <1>6, <2>2, <2>3, AnswerIsBeside DEF IsStart
<1>7. CASE m.type \in {"job_closed", "job_reopened"}
  <2>1. \E x : Apply(v, m) = [v EXCEPT !.jobs = x]
      BY <1>7 DEF Apply, WithJob
  <2> QED
      BY <1>1, <1>7, <2>1, BesideTheTurns DEF IsStart
<1>8. m.type \in {"turn_started", "draft_opened", "plan_proposed", "plan_declined",
                  "job_approved", "job_closed", "job_reopened"}
    BY DEF Message
<1> QED
    BY <1>2, <1>3, <1>4, <1>5, <1>6, <1>7, <1>8, <1>9 DEF IsStart

-----------------------------------------------------------------------------
Announces(step) == step.do = "say" /\ IsStart(step.message)

\* Nothing is left to say of a turn that starts.
Quiet(steps) == \A i \in 1..Len(steps) : ~Announces(steps[i])

\* What is left of a handler that has a start to say: that, first, and the turn.
Told(steps) ==
    \A i \in 1..Len(steps) : Announces(steps[i]) =>
        /\ i = 1 /\ current # None
        /\ steps[i].message.turn = current
        /\ Carries(steps, current)

Untold == \E c \in Clients : ~Quiet(todo[c])

Numbering ==
    /\ IsView(view)
    /\ \A i \in 1..Len(view.turns) : view.turns[i].turn = i
    /\ \A t \in Turns : Quiet(task[t])
    /\ \A c \in Clients : Told(todo[c])
    /\ current # None => nextTurn = current + 1
    /\ nextTurn = Len(view.turns) + 1 \/ nextTurn = Len(view.turns) + 2
    /\ Untold <=> nextTurn = Len(view.turns) + 2

LEMMA QuietSteps ==
    /\ Quiet(<<>>)
    /\ \A m : ~IsStart(m) =>
          /\ Quiet(<<Say(m)>>) /\ Quiet(<<Say(m), Do("begin")>>)
          /\ \A j, p : Quiet(<<[do |-> "narrow", job |-> j, plan |-> p], Say(m)>>)
    /\ \A do \in {"begin", "begin_planning", "planning", "offer"} : Quiet(<<Do(do)>>)
    /\ \A j : Quiet(<<[do |-> "sign", job |-> j]>>)
    /\ \A b : Quiet(<<[do |-> "drafted", before |-> b]>>)
    /\ \A told, sandbox : Quiet(<<[do |-> "run", told |-> told, sandbox |-> sandbox]>>)
    /\ \A outcome, b : Quiet(<<[do |-> "land", outcome |-> outcome, before |-> b]>>)
BY DEF Quiet, Announces, Say, Do

LEMMA NoStart ==
    /\ ~IsStart(PlanDeclined)
    /\ \A j, t : ~IsStart(DraftOpened(j, t))
    /\ \A t : ~IsStart(PlanProposed(t))
    /\ \A j, p : ~IsStart(JobApproved(j, p))
    /\ \A j, by : ~IsStart(JobClosed(j, by))
    /\ \A j : ~IsStart(JobReopened(j))
BY DEF IsStart, PlanDeclined, DraftOpened, PlanProposed, JobApproved, JobClosed, JobReopened

LEMMA QuietTogether ==
    ASSUME NEW S, NEW q \in Seq(S), NEW r \in Seq(S), Quiet(q), Quiet(r)
    PROVE  Quiet(q \o r)
<1>1. /\ Len(q) \in Nat /\ Len(r) \in Nat /\ Len(q \o r) = Len(q) + Len(r)
      /\ \A i \in 1..Len(q \o r) : (q \o r)[i] =
             IF i <= Len(q) THEN q[i] ELSE r[i - Len(q)]
    BY ConcatProperties
<1> SUFFICES ASSUME NEW i \in 1..Len(q \o r) PROVE ~Announces((q \o r)[i])
    BY DEF Quiet
<1>2. CASE i <= Len(q)
  <2>1. i \in 1..Len(q) /\ (q \o r)[i] = q[i]
      BY <1>1, <1>2
  <2> QED
      BY <2>1 DEF Quiet
<1>3. CASE ~(i <= Len(q))
  <2>1. i - Len(q) \in 1..Len(r) /\ (q \o r)[i] = r[i - Len(q)]
      BY <1>1, <1>3
  <2> QED
      BY <2>1 DEF Quiet
<1> QED
    BY <1>2, <1>3

\* Whatever the first step does, the others have no start to say.
LEMMA TailIsQuiet ==
    ASSUME NEW S, NEW q \in Seq(S), q # <<>>, Told(q) \/ Quiet(q)
    PROVE  /\ Quiet(Tail(q))
           /\ ~Announces(Head(q)) => Quiet(q)
           /\ ~Quiet(q) => Announces(Head(q))
<1>1. /\ Len(q) \in Nat \ {0} /\ Len(Tail(q)) = Len(q) - 1 /\ Head(q) = q[1]
      /\ \A i \in 1..Len(Tail(q)) : Tail(q)[i] = q[i + 1]
    BY HeadTailProperties
<1>2. \A i \in 1..Len(q) : Announces(q[i]) => i = 1
    BY DEF Told, Quiet
<1>3. ASSUME NEW i \in 1..Len(Tail(q)) PROVE ~Announces(Tail(q)[i])
  <2>1. i + 1 \in 1..Len(q) /\ i + 1 # 1
      BY <1>1
  <2> QED
      BY <1>1, <1>2, <2>1
<1> QED
    BY <1>1, <1>2, <1>3 DEF Quiet

-----------------------------------------------------------------------------
(***************************************************************************)
(* A step that is not a publish goes one of three ways.                      *)
(***************************************************************************)
HandlerIsQuiet(c, steps) ==
    /\ todo' = [todo EXCEPT ![c] = steps]
    /\ Quiet(steps) /\ Quiet(todo[c])
    /\ UNCHANGED <<current, nextTurn>>
    /\ \A t \in Turns : Quiet(task'[t])

HandlerStarts(c, steps) ==
    /\ current = None /\ nextTurn \in Turns
    /\ current' = nextTurn /\ nextTurn' = nextTurn + 1
    /\ todo' = [todo EXCEPT ![c] = steps]
    /\ \A i \in 1..Len(steps) : Announces(steps[i]) =>
          i = 1 /\ steps[i].message.turn = nextTurn /\ Carries(steps, nextTurn)
    /\ ~Quiet(steps)
    /\ UNCHANGED task

TaskIsQuiet ==
    /\ \/ UNCHANGED current
       \/ current' = None /\ \E t \in Turns : Flies(task[t])
    /\ \A t \in Turns : Quiet(task'[t])
    /\ UNCHANGED <<todo, nextTurn>>

Silently ==
    \/ \E c \in Clients : \E q : HandlerIsQuiet(c, q)
    \/ \E c \in Clients : \E q : HandlerStarts(c, q)
    \/ TaskIsQuiet

LEMMA HandlesSilently ==
    ASSUME TypeOK, Numbering, NEW c \in Clients, Handles(c)
    PROVE  Silently
<1>1. ASSUME NEW q, Reading(c), Runs(c, q), Quiet(q), UNCHANGED <<current, nextTurn, task>>
      PROVE  Silently
    BY <1>1, QuietSteps DEF Reading, Runs, Silently, HandlerIsQuiet, Numbering
<1>2. CASE OnPrompt(c)
  <2>1. Quiet(<<Say(PlanDeclined), Do("begin")>>) /\ Quiet(<<Do("begin")>>)
      BY QuietSteps, NoStart
  <2>2. /\ Reading(c) /\ UNCHANGED <<current, nextTurn, task>>
        /\ Runs(c, <<Say(PlanDeclined), Do("begin")>>) \/ Runs(c, <<Do("begin")>>)
      BY <1>2 DEF OnPrompt
  <2> QED
      BY <1>1, <2>1, <2>2
<1>3. CASE RequestPlan(c)
    BY <1>1, <1>3, QuietSteps DEF RequestPlan
<1>4. CASE ApproveSigned(c)
    BY <1>1, <1>4, QuietSteps DEF ApproveSigned
<1>5. CASE DeclinePlan(c) \/ CloseJob(c) \/ ReopenJob(c)
  <2>1. PICK m : Runs(c, <<Say(m)>>) /\ ~IsStart(m)
      BY <1>5, NoStart DEF DeclinePlan, CloseJob, ReopenJob
  <2>2. Reading(c) /\ UNCHANGED <<current, nextTurn, task>>
      BY <1>5 DEF DeclinePlan, CloseJob, ReopenJob
  <2>3. Quiet(<<Say(m)>>)
      BY <2>1, QuietSteps
  <2> QED
      BY <1>1, <2>1, <2>2, <2>3
<1>6. CASE Cancel(c)
    BY <1>6 DEF Cancel, Silently, TaskIsQuiet, Numbering
<1> QED
    BY <1>2, <1>3, <1>4, <1>5, <1>6 DEF Handles

\* What an approval leaves to say is of jobs.
LEMMA ApprovalIsQuiet ==
    ASSUME GateInv, NEW c \in Clients, EndsOnly(todo[c]), ApproveTaken(c)
    PROVE  \E q : Quiet(q) /\ todo' = [todo EXCEPT ![c] = q]
<1>1. TypeOK /\ todo[c] # <<>> /\ Head(todo[c]).do = "sign"
    BY DEF GateInv, ApproveTaken, Next1
<1>2. Tail(todo[c]) = <<>>
    BY <1>1, TailCarries DEF TypeOK, Ending
<1>3. CASE current = None /\ pending # NoPlan
  <2>1. PICK closes \in BOOLEAN :
            TakePlan(c, Head(todo[c]).job, [pending EXCEPT !.closes = closes])
      BY <1>3 DEF ApproveTaken
  <2> DEFINE plan == [pending EXCEPT !.closes = closes]
             job == Head(todo[c]).job
             draft == CurrentJob(jobs)
             fold == IF draft # None THEN <<Say(JobClosed(draft, "approval"))>> ELSE <<>>
             steps == <<[do |-> "narrow", job |-> job, plan |-> plan],
                        Say(JobApproved(job, plan))>>
  <2>2. Quiet(fold) /\ Quiet(steps) /\ Quiet(<<>>)
      BY QuietSteps, NoStart
  <2>3. fold \in Seq(HandlerStep) /\ steps \in Seq(HandlerStep)
    <3>1. job \in Nat
        BY <1>1, TodoTypes, HandlerStepCarries
    <3>2. plan \in Plan
        BY <1>3, PendingIsAPlan DEF GateInv
    <3> QED
        BY <3>1, <3>2, MessageTypes, HandlerStepTypes, JobIds DEF Closer
  <2> HIDE DEF fold, steps
  <2>4. Quiet(fold \o steps) /\ fold \o steps \in Seq(HandlerStep)
      BY <2>2, <2>3, QuietTogether, ConcatProperties
  <2>5. (fold \o steps) \o <<>> = fold \o steps
      BY <2>4, ConcatEmptySeq
  <2>6. todo' = [todo EXCEPT ![c] = (fold \o steps) \o Tail(todo[c])]
      BY <2>1 DEF TakePlan, Continue, fold, steps
  <2> QED
      BY <1>2, <2>4, <2>5, <2>6
<1>4. CASE ~(current = None /\ pending # NoPlan)
    BY <1>4, QuietSteps DEF ApproveTaken, Returns
<1> QED
    BY <1>3, <1>4

LEMMA HandlerContinuesSilently ==
    ASSUME GateInv, Flight, Numbering, NEW c \in Clients, HandlerContinues(c)
    PROVE  Silently
<1>1. /\ TypeOK /\ todo[c] \in Seq(HandlerStep) /\ EndsOnly(todo[c]) /\ Told(todo[c])
      /\ \A t \in Turns : Quiet(task[t])
    BY DEF GateInv, TypeOK, Flight, Numbering
<1>2. ASSUME todo[c] # <<>>, Head(todo[c]).do # "say"
      PROVE  Quiet(todo[c]) /\ Quiet(Tail(todo[c]))
    BY <1>1, <1>2, TailIsQuiet DEF Announces
<1>3. CASE Narrow(c)
    BY <1>1, <1>2, <1>3 DEF Narrow, Next1, Rest, Silently, HandlerIsQuiet
<1>4. CASE BeginTurn(c)
  <2>1. PICK step \in {"begin", "begin_planning"} :
            /\ Next1(todo[c], step)
            /\ IF current # None
               THEN Returns(c) /\ UNCHANGED <<current, cancelled, nextTurn>>
               ELSE Starts(c, step)
            /\ UNCHANGED <<context, pending, narrowed, task>>
      BY <1>4 DEF BeginTurn
  <2>2. Quiet(todo[c])
      BY <1>2, <2>1 DEF Next1
  <2>3. CASE current # None
      BY <1>1, <2>1, <2>2, <2>3, QuietSteps DEF Returns, Silently, HandlerIsQuiet
  <2>4. CASE current = None
    <3> DEFINE then == IF step = "begin" THEN "resolve" ELSE "spawn"
               m == TurnStarted(nextTurn, CurrentJob(jobs))
               go == [do |-> then, turn |-> nextTurn, told |-> narrowed]
               q == <<Say(m), go>>
    <3>1. /\ nextTurn <= MaxTurns /\ current' = nextTurn /\ nextTurn' = nextTurn + 1
          /\ todo' = [todo EXCEPT ![c] = q] /\ UNCHANGED task
        BY <2>1, <2>4 DEF Starts, Runs
    <3>2. nextTurn \in Turns
        BY <1>1, <3>1, MaxTurnsAssumption DEF TypeOK, Turns
    <3>3. then \in {"resolve", "spawn"} /\ go.do = then
        OBVIOUS
    <3>4. Carries(q, nextTurn)
        BY <3>2, <3>3, EndingSteps
    <3>5. m.turn = nextTurn /\ IsStart(m) /\ Say(m).message = m /\ Say(m).do = "say"
        BY DEF IsStart, TurnStarted, Say
    <3> HIDE DEF m, go, then
    <3>6. Len(q) = 2 /\ q[1] = Say(m) /\ q[2] = go
        OBVIOUS
    <3>7. Announces(q[1]) /\ ~Announces(q[2]) /\ 1..Len(q) = {1, 2}
        BY <3>3, <3>5, <3>6 DEF Announces
    <3> HIDE DEF q
    <3>8. HandlerStarts(c, q)
        BY <2>4, <3>1, <3>2, <3>4, <3>5, <3>6, <3>7 DEF HandlerStarts, Quiet
    <3> QED
        BY <3>8 DEF Silently
  <2> QED
      BY <2>3, <2>4
<1>5. CASE Resolve(c) \/ SpawnPlanning(c)
  <2> DEFINE run == <<[do |-> "run", told |-> Head(todo[c]).told, sandbox |-> LiveSandbox]>>
             call == <<Do("planning")>>
  <2>0. Quiet(run) /\ Quiet(call)
      BY QuietSteps
  <2>1. /\ Rest(c) /\ UNCHANGED <<current, nextTurn>>
        /\ todo[c] # <<>> /\ Head(todo[c]).do # "say"
        /\ \/ task' = [task EXCEPT ![Head(todo[c]).turn] = run]
           \/ task' = [task EXCEPT ![Head(todo[c]).turn] = call]
      BY <1>5 DEF Resolve, SpawnPlanning, Next1
  <2> HIDE DEF run, call
  <2>2. \A u \in Turns : Quiet(task'[u])
      BY <1>1, <2>0, <2>1 DEF TypeOK
  <2> QED
      BY <1>2, <2>1, <2>2 DEF Rest, Silently, HandlerIsQuiet
<1>6. CASE ApproveTaken(c)
  <2>1. todo[c] # <<>> /\ Head(todo[c]).do # "say" /\ UNCHANGED <<current, nextTurn, task>>
      BY <1>6 DEF ApproveTaken, Next1
  <2>2. PICK q : Quiet(q) /\ todo' = [todo EXCEPT ![c] = q]
      BY <1>1, <1>6, ApprovalIsQuiet
  <2> QED
      BY <1>1, <1>2, <2>1, <2>2 DEF Silently, HandlerIsQuiet
<1> QED
    BY <1>3, <1>4, <1>5, <1>6 DEF HandlerContinues

LEMMA TaskContinuesSilently ==
    ASSUME GateInv, Flight, Numbering, NEW t \in Turns, TaskContinues(t) \/ ModelReturns(t)
    PROVE  Silently
<1>1. TypeOK /\ task[t] \in Seq(TaskStep) /\ \A u \in Turns : Quiet(task[u])
    BY DEF GateInv, TypeOK, Numbering
<1>2. ASSUME task[t] # <<>>
      PROVE  Quiet(Tail(task[t])) /\ Tail(task[t]) \in Seq(TaskStep)
    BY <1>1, <1>2, TailIsQuiet, StepsType
<1>3. ASSUME NEW q \in Seq(TaskStep), task[t] # <<>>, Quiet(q), TaskContinue(t, q),
             UNCHANGED <<todo, nextTurn>>,
             UNCHANGED current \/ (current' = None /\ Flies(task[t]))
      PROVE  Silently
  <2>1. Quiet(q \o Tail(task[t]))
      BY <1>2, <1>3, QuietTogether
  <2>2. \A u \in Turns : Quiet(task'[u])
      BY <1>1, <1>3, <2>1 DEF TaskContinue, TypeOK
  <2> QED
      BY <1>3, <2>2 DEF Silently, TaskIsQuiet
<1>4. ASSUME task[t] # <<>>, TaskRest(t), UNCHANGED <<current, todo, nextTurn>>
      PROVE  Silently
  <2>1. \A u \in Turns : Quiet(task'[u])
      BY <1>1, <1>2, <1>4 DEF TaskRest, TypeOK
  <2> QED
      BY <1>4, <2>1 DEF Silently, TaskIsQuiet
<1>5. CASE Drafted(t) \/ Offer(t)
  <2>1. /\ task[t] # <<>> /\ UNCHANGED <<current, nextTurn, todo>>
        /\ \/ TaskRest(t)
           \/ \E m \in Message : ~IsStart(m) /\ TaskContinue(t, <<Say(m)>>)
      BY <1>5, MessageTypes, JobIds, NoStart DEF Drafted, Offer, Next1
  <2>2. ASSUME NEW m \in Message, ~IsStart(m), TaskContinue(t, <<Say(m)>>) PROVE Silently
    <3>0. Say(m) \in TaskStep
        BY TaskStepTypes
    <3>1. <<Say(m)>> \in Seq(TaskStep)
        BY <3>0
    <3>2. Quiet(<<Say(m)>>)
        BY <2>2, QuietSteps
    <3> QED
        BY <1>3, <2>1, <2>2, <3>1, <3>2
  <2> QED
      BY <1>4, <2>1, <2>2
<1>6. CASE RunEnds(t)
  <2>1. PICK outcome \in Outcomes : TaskContinue(t, <<[do |-> "land", outcome |-> outcome,
                                         before |-> CurrentJob(jobs)]>>)
      BY <1>6 DEF RunEnds
  <2>2. task[t] # <<>> /\ UNCHANGED <<current, nextTurn, todo>>
      BY <1>6 DEF RunEnds, Next1
  <2> DEFINE q == <<[do |-> "land", outcome |-> outcome, before |-> CurrentJob(jobs)]>>
  <2>3. q \in Seq(TaskStep) /\ Quiet(q)
      BY TaskStepTypes, JobIds, QuietSteps
  <2> HIDE DEF q
  <2> QED
      BY <1>3, <2>1, <2>2, <2>3 DEF q
<1>7. ASSUME task[t] # <<>>, Head(task[t]).do \in Flying PROVE Flies(task[t])
    BY <1>1, <1>7, TailFlies DEF Flight
<1>8. CASE Land(t)
  <2> DEFINE before == Head(task[t]).before
             outcome == Head(task[t]).outcome
             placed == IF outcome.lands THEN WithPlaceToLand(jobs) ELSE jobs
             landed == IF outcome.lands THEN Landed(t, placed) ELSE turns
             live == CurrentJob(placed)
             close == IF Met(placed, landed) THEN <<Say(JobClosed(live, "exit_code"))>> ELSE <<>>
             offer == IF outcome.plan THEN <<Do("offer")>> ELSE <<>>
             drafted == <<[do |-> "drafted", before |-> before]>>
  <2>1. /\ task[t] # <<>> /\ Head(task[t]).do = "land" /\ current' = None
        /\ UNCHANGED <<nextTurn, todo>>
        /\ TaskContinue(t, drafted \o close \o offer)
      BY <1>8 DEF Land, Next1
  <2>2. outcome \in Outcomes /\ before \in Nat
      BY <1>1, <2>1, TaskTypes, TaskStepCarries
  <2>3. live \in Nat
    <3>1. WellFormed(placed)
        BY LandShape, OpensDraftKeeps DEF GateInv
    <3> QED
        BY <3>1, CurrentIsLast DEF None
  <2>4. /\ drafted \in Seq(TaskStep) /\ close \in Seq(TaskStep) /\ offer \in Seq(TaskStep)
      BY <2>2, <2>3, TaskStepTypes, MessageTypes DEF Closer
  <2>5. Quiet(drafted) /\ Quiet(close) /\ Quiet(offer)
      BY QuietSteps, NoStart
  <2> HIDE DEF drafted, close, offer
  <2>6. drafted \o close \in Seq(TaskStep) /\ Quiet(drafted \o close)
      BY <2>4, <2>5, QuietTogether, ConcatProperties
  <2>7. drafted \o close \o offer \in Seq(TaskStep) /\ Quiet(drafted \o close \o offer)
      BY <2>4, <2>5, <2>6, QuietTogether, ConcatProperties
  <2> QED
      BY <1>3, <1>7, <2>1, <2>7 DEF Flying
<1>9. CASE PlanningEnds(t)
  <2>1. PICK broken \in BOOLEAN :
            TaskContinue(t, IF broken THEN <<>> ELSE <<Do("offer")>>)
      BY <1>9 DEF PlanningEnds
  <2> DEFINE q == IF broken THEN <<>> ELSE <<Do("offer")>>
  <2>2. q \in Seq(TaskStep) /\ Quiet(q)
      BY TaskStepTypes, QuietSteps
  <2>3. /\ task[t] # <<>> /\ Head(task[t]).do = "planning" /\ current' = None
        /\ UNCHANGED <<nextTurn, todo>>
      BY <1>9 DEF PlanningEnds, Next1
  <2> HIDE DEF q
  <2> QED
      BY <1>3, <1>7, <2>1, <2>2, <2>3 DEF Flying, q
<1> QED
    BY <1>5, <1>6, <1>8, <1>9 DEF TaskContinues, ModelReturns

-----------------------------------------------------------------------------
\* While no turn runs, nobody has a start to say.
LEMMA IdleIsTold ==
    ASSUME Numbering, current = None
    PROVE  ~Untold /\ nextTurn = Len(view.turns) + 1
BY DEF Numbering, Untold, Quiet, Told

\* One handler at most has a start to say: it carries the turn that runs.
LEMMA OneHasItToSay ==
    ASSUME TypeOK, Flight, Numbering, NEW c \in Clients, NEW d \in Clients,
           ~Quiet(todo[c]), ~Quiet(todo[d])
    PROVE  c = d
<1>1. Carries(todo[c], current) /\ Carries(todo[d], current) /\ current # None
    BY DEF Numbering, Told, Quiet
<1>2. current \in Turns
    BY <1>1 DEF TypeOK
<1> QED
    BY <1>1, <1>2 DEF Flight

LEMMA SilentNumbers ==
    ASSUME TypeOK, Flight, Numbering, Silently, UNCHANGED view
    PROVE  Numbering'
<1>1. Len(view.turns) \in Nat /\ todo \in [Clients -> Seq(HandlerStep)]
    BY LenProperties DEF Numbering, IsView, TypeOK
<1>2. ASSUME NEW c \in Clients, NEW q, HandlerIsQuiet(c, q) PROVE Numbering'
  <2>1. \A d \in Clients : todo'[d] = IF d = c THEN q ELSE todo[d]
      BY <1>1, <1>2 DEF HandlerIsQuiet
  <2>2. \A d \in Clients : Quiet(todo'[d]) <=> Quiet(todo[d])
      BY <1>2, <2>1 DEF HandlerIsQuiet
  <2>3. \A d \in Clients : Told(todo[d])'
    <3>1. ASSUME NEW d \in Clients PROVE Told(todo[d])'
      <4>1. Told(todo[d]) /\ current' = current
          BY <1>2 DEF Numbering, HandlerIsQuiet
      <4>2. CASE d = c
          BY <1>2, <2>1, <4>2 DEF HandlerIsQuiet, Told, Quiet
      <4>3. CASE d # c
          BY <2>1, <4>1, <4>3 DEF Told
      <4> QED
          BY <4>2, <4>3
    <3> QED
        BY <3>1
  <2>4. Untold' <=> Untold
      BY <2>2 DEF Untold
  <2> QED
      BY <1>2, <2>3, <2>4 DEF Numbering, HandlerIsQuiet
<1>3. ASSUME NEW c \in Clients, NEW q, HandlerStarts(c, q) PROVE Numbering'
  <2>1. \A d \in Clients : todo'[d] = IF d = c THEN q ELSE todo[d]
      BY <1>1, <1>3 DEF HandlerStarts
  <2>2. ~Untold /\ nextTurn = Len(view.turns) + 1
      BY <1>3, IdleIsTold DEF HandlerStarts
  <2>3. nextTurn # None /\ nextTurn \in Nat
      BY <1>3, MaxTurnsAssumption DEF HandlerStarts, Turns, None
  <2>4. ASSUME NEW d \in Clients PROVE Told(todo[d])'
    <3>1. CASE d = c
        BY <1>3, <2>1, <2>3, <3>1 DEF HandlerStarts, Told
    <3>2. CASE d # c
        BY <2>1, <2>2, <3>2 DEF Untold, Quiet, Told
    <3> QED
        BY <3>1, <3>2
  <2>5. Untold'
      BY <1>3, <2>1 DEF HandlerStarts, Untold
  <2>6. /\ current' = nextTurn /\ nextTurn' = nextTurn + 1 /\ task' = task /\ view' = view
      BY <1>3 DEF HandlerStarts
  <2>7. nextTurn' = Len(view'.turns) + 2 /\ nextTurn' = current' + 1
      BY <1>1, <2>2, <2>6
  <2> QED
      BY <2>4, <2>5, <2>6, <2>7 DEF Numbering
<1>4. CASE TaskIsQuiet
  <2>1. \A d \in Clients : todo'[d] = todo[d]
      BY <1>4 DEF TaskIsQuiet
  <2>2. Untold' <=> Untold
      BY <2>1 DEF Untold
  <2>3. ASSUME NEW d \in Clients PROVE Told(todo[d])'
    <3>1. CASE current' = current
        BY <2>1, <3>1 DEF Numbering, Told
    <3>2. ASSUME NEW t \in Turns, Flies(task[t]) PROVE Told(todo[d])'
      <4>1. \A u \in Turns : ~Carries(todo[d], u)
          BY <3>2 DEF Flight
      <4>2. Quiet(todo[d])
          BY <4>1 DEF Numbering, Told, Quiet, TypeOK
      <4> QED
          BY <2>1, <4>2 DEF Quiet, Told
    <3> QED
        BY <1>4, <3>1, <3>2 DEF TaskIsQuiet
  <2>4. current' # None => current' = current
      BY <1>4 DEF TaskIsQuiet
  <2> QED
      BY <1>4, <2>2, <2>3, <2>4 DEF Numbering, TaskIsQuiet
<1> QED
    BY <1>2, <1>3, <1>4 DEF Silently

\* A publish takes its message off what is left, and the view one turn further if
\* it says that one started.
LEMMA PublishNumbers ==
    ASSUME TypeOK, Flight, Numbering, Publishes
    PROVE  Numbering'
<1>1. /\ Len(view.turns) \in Nat /\ view.turns \in Seq(ShownTurn)
      /\ todo \in [Clients -> Seq(HandlerStep)]
    BY LenProperties DEF Numbering, IsView, TypeOK
<1>2. \A step \in HandlerStep \cup TaskStep : step.do = "say" => step.message \in Message
    BY DEF HandlerStep, TaskStep, SayStep
<1>3. ASSUME NEW c \in Clients, HandlerSays(c),
             view' = Apply(view, Head(todo[c]).message)
      PROVE  Numbering'
  <2> DEFINE m == Head(todo[c]).message
  <2>1. /\ todo[c] # <<>> /\ Head(todo[c]).do = "say" /\ todo[c] \in Seq(HandlerStep)
        /\ UNCHANGED <<current, nextTurn, task>>
      BY <1>1, <1>3 DEF HandlerSays, Next1
  <2>2. m \in Message
      BY <1>2, <2>1, StepsType
  <2>3. \A d \in Clients : todo'[d] = IF d = c THEN Tail(todo[c]) ELSE todo[d]
      BY <1>1, <1>3 DEF HandlerSays, Rest
  <2>4. /\ Quiet(Tail(todo[c]))
        /\ ~Announces(Head(todo[c])) => Quiet(todo[c])
      BY <2>1, TailIsQuiet DEF Numbering
  <2>5. Announces(Head(todo[c])) <=> IsStart(m)
      BY <2>1 DEF Announces
  <2>6. Head(todo[c]) = todo[c][1] /\ 1 \in 1..Len(todo[c])
      BY <2>1, HeadTailProperties
  <2> HIDE DEF m
  <2>7. ASSUME NEW d \in Clients PROVE Told(todo[d])'
    <3>1. CASE d = c
        BY <2>3, <2>4, <3>1 DEF Told, Quiet
    <3>2. CASE d # c
        BY <2>1, <2>3, <3>2 DEF Numbering, Told
    <3> QED
        BY <3>1, <3>2
  <2>8. IsView(view')
      BY <1>3, <2>2, ApplyTurns DEF Numbering, m
  <2>9. CASE ~IsStart(m)
    <3>1. SameTurns(view, view')
        BY <1>3, <2>2, <2>9, ApplyTurns DEF Numbering, m
    <3>2. Quiet(todo[c])
        BY <2>4, <2>5, <2>9
    <3>3. \A d \in Clients : Quiet(todo'[d]) <=> Quiet(todo[d])
        BY <2>3, <2>4, <3>2
    <3>4. Untold' <=> Untold
        BY <3>3 DEF Untold
    <3>5. /\ Len(view'.turns) = Len(view.turns)
          /\ \A i \in 1..Len(view'.turns) : view'.turns[i].turn = i
        BY <3>1 DEF SameTurns, Numbering
    <3> QED
        BY <2>1, <2>7, <2>8, <3>4, <3>5 DEF Numbering
  <2>10. CASE IsStart(m)
    <3>1. ~Quiet(todo[c])
        BY <2>5, <2>6, <2>10 DEF Quiet
    <3>2. /\ current # None /\ m.turn = current
        BY <2>5, <2>6, <2>10 DEF Numbering, Told, m
    <3>3. /\ nextTurn = Len(view.turns) + 2 /\ nextTurn = current + 1
        BY <3>1, <3>2 DEF Numbering, Untold
    <3>4. \A d \in Clients : Quiet(todo'[d])
        BY <2>3, <2>4, <3>1, OneHasItToSay
    <3>12. m.turn = Len(view.turns) + 1
      <4>1. current \in Nat
          BY <3>2, MaxTurnsAssumption DEF TypeOK, Turns
      <4> QED
          BY <1>1, <3>2, <3>3, <4>1
    <3>13. ~HasTurn(view, m.turn)
        BY <1>1, <3>12 DEF HasTurn, Numbering
    <3>5. m.turn \in Nat /\ m.job \in Nat
          /\ view'.turns = Append(view.turns, [turn |-> m.turn, job |-> m.job])
        BY <1>3, <2>2, <2>10, <3>13, ApplyTurns DEF Numbering, m
    <3> DEFINE entry == [turn |-> m.turn, job |-> m.job]
    <3>6. entry \in ShownTurn /\ entry.turn = m.turn
        BY <3>5 DEF ShownTurn
    <3> HIDE DEF entry
    <3>7. /\ Len(view'.turns) = Len(view.turns) + 1
          /\ \A i \in 1..Len(view.turns) : view'.turns[i] = view.turns[i]
          /\ view'.turns[Len(view.turns) + 1] = entry
        BY <1>1, <3>5, <3>6, AppendProperties DEF entry
    <3>9. ASSUME NEW i \in 1..Len(view'.turns) PROVE view'.turns[i].turn = i
      <4>1. CASE i \in 1..Len(view.turns)
          BY <3>7, <4>1 DEF Numbering
      <4>2. CASE i \notin 1..Len(view.turns)
        <5>1. i = Len(view.turns) + 1
            BY <1>1, <3>7, <4>2
        <5> QED
            BY <3>6, <3>7, <3>12, <5>1
      <4> QED
          BY <4>1, <4>2
    <3>10. ~Untold'
        BY <3>4 DEF Untold
    <3>11. nextTurn' = Len(view'.turns) + 1 /\ nextTurn' # Len(view'.turns) + 2
        BY <1>1, <2>1, <3>3, <3>7
    <3> QED
        BY <2>1, <2>7, <2>8, <3>9, <3>10, <3>11 DEF Numbering
  <2> QED
      BY <2>9, <2>10
<1>4. ASSUME NEW t \in Turns, TaskSays(t), view' = Apply(view, Head(task[t]).message)
      PROVE  Numbering'
  <2> DEFINE m == Head(task[t]).message
  <2>1. /\ task[t] # <<>> /\ Head(task[t]).do = "say" /\ task[t] \in Seq(TaskStep)
        /\ Quiet(task[t]) /\ UNCHANGED <<current, nextTurn, todo>>
      BY <1>4 DEF TaskSays, Next1, TypeOK, Numbering
  <2>2. m \in Message
      BY <1>2, <2>1, StepsType
  <2>3. Head(task[t]) = task[t][1] /\ 1 \in 1..Len(task[t])
      BY <2>1, HeadTailProperties
  <2>4. ~IsStart(m)
      BY <2>1, <2>3 DEF Quiet, Announces
  <2>5. Quiet(Tail(task[t]))
      BY <2>1, TailIsQuiet
  <2> HIDE DEF m
  <2>6. IsView(view') /\ SameTurns(view, view')
      BY <1>4, <2>2, <2>4, ApplyTurns DEF Numbering, m
  <2>7. /\ Len(view'.turns) = Len(view.turns)
        /\ \A i \in 1..Len(view'.turns) : view'.turns[i].turn = i
      BY <2>6 DEF SameTurns, Numbering
  <2>8. \A u \in Turns : Quiet(task'[u])
      BY <1>4, <2>5 DEF TaskSays, TaskRest, TypeOK, Numbering
  <2>9. (Untold' <=> Untold) /\ \A d \in Clients : Told(todo[d])'
      BY <2>1 DEF Untold, Numbering, Told
  <2> QED
      BY <2>1, <2>6, <2>7, <2>8, <2>9 DEF Numbering
<1> QED
    BY <1>3, <1>4 DEF Publishes

LEMMA InitNumbers == StreamInit => Numbering
<1> SUFFICES ASSUME StreamInit PROVE Numbering
    OBVIOUS
<1>1. /\ view = [jobs |-> <<>>, turns |-> <<>>, rounds |-> <<>>]
      /\ nextTurn = 1 /\ current = None
      /\ \A c \in Clients : todo[c] = <<>>
      /\ \A t \in Turns : task[t] = <<>>
    BY DEF StreamInit, Init, EmptyView
<1>2. view.turns = <<>> /\ Len(view.turns) = 0 /\ IsView(view)
    BY <1>1, EmptySeq DEF IsView
<1>3. /\ \A c \in Clients : Quiet(todo[c]) /\ Told(todo[c])
      /\ \A t \in Turns : Quiet(task[t])
    BY <1>1, QuietSteps DEF Quiet, Told
<1> QED
    BY <1>1, <1>2, <1>3 DEF Numbering, Untold

\* In whatever order the handlers and the tasks get to the stream, the view has the
\* turns in the order of their numbers, and all of them whenever none runs
\* (serve.rs, begin_turn, publish and resume_session).
THEOREM TurnsAreNumbered == StreamSpec => []TurnsAreToldInOrder
<1>1. ASSUME GateInv, Flight, Numbering, [StreamNext]_streamVars
      PROVE  Numbering'
  <2>1. TypeOK
      BY <1>1 DEF GateInv
  <2>2. CASE UNCHANGED streamVars
      BY <1>1, <2>2 DEF streamVars, vars, Numbering, Told, Untold
  <2>3. CASE Silent /\ UNCHANGED view
    <3>1. Silently
        BY <1>1, <2>1, <2>3, HandlesSilently, HandlerContinuesSilently,
           TaskContinuesSilently DEF Silent
    <3> QED
        BY <1>1, <2>1, <2>3, <3>1, SilentNumbers
  <2>4. CASE Publishes
      BY <1>1, <2>1, <2>4, PublishNumbers
  <2> QED
      BY <1>1, <2>2, <2>3, <2>4 DEF StreamNext
<1>2. Numbering => TurnsAreToldInOrder
  <2> SUFFICES ASSUME Numbering PROVE TurnsAreToldInOrder
      OBVIOUS
  <2>1. current = None => nextTurn = Len(view.turns) + 1
      BY IdleIsTold
  <2> QED
      BY <2>1 DEF Numbering, TurnsAreToldInOrder
<1> QED
    BY <1>1, <1>2, InitNumbers, WatchersDisturbNothing, Invariance, TurnsFly,
       PTL DEF StreamSpec

=============================================================================
