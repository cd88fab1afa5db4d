-------------------------- MODULE CheckpointProofs --------------------------
(***************************************************************************)
(* Theorems about the store, for any number of writers, events and crashes,   *)
(* with writes that fail or do not: a line is in one place, the stored fold   *)
(* is a past of the session, and a quiet store is whole.                     *)
(*                                                                         *)
(* Each has an invariant of its own about what the checkpoints that overlap   *)
(* have in their hands: a copy is a past of the view it was taken of, and what *)
(* was drained from the queue is nowhere else.  None of them needs the order    *)
(* in which the store's lock is held.                                       *)
(***************************************************************************)
EXTENDS Checkpoint, SequenceTheorems, TLAPS

Places == {"idle", "copy", "drain", "append", "save", "send", "attach"}

WriterState == [at : Places, event : Events \cup {NoEvent},
                copy : Seq(Events), lines : Seq(Events)]

-----------------------------------------------------------------------------
\* What a writer's step makes of it: the others stay as they are.
LEMMA WritersMove ==
    ASSUME TypeOK, NEW w \in Writers, Publish(w) \/ Continues(w) \/ Resume(w)
    PROVE  /\ writer' \in [Writers -> WriterState]
           /\ \A v \in Writers : v # w => writer'[v] = writer[v]
           /\ Publish(w) => writer'[w].at \in {"copy", "send"}
           /\ Resume(w) => writer'[w].at = "copy"
           /\ Copy(w) => writer'[w].at = "drain" /\ writer'[w].copy = view
           /\ Drain(w) => /\ writer'[w].at = "append" /\ writer'[w].lines = queue
                          /\ writer'[w].copy = writer[w].copy
           /\ AppendLines(w) => /\ writer'[w].at = "save"
                                /\ writer'[w].copy = writer[w].copy
           /\ SaveFold(w) => writer'[w].at \in {"send", "attach"}
           /\ Send(w) \/ Attach(w) => writer'[w].at = "idle"
<1>1. writer \in [Writers -> WriterState] /\ writer[w] \in WriterState
    BY DEF TypeOK, WriterState, Places
<1>2. Idle \in WriterState
    BY DEF Idle, WriterState, Places
<1>3. ASSUME NEW step \in Places, Goes(w, step)
      PROVE  /\ writer' \in [Writers -> WriterState]
             /\ \A v \in Writers : v # w => writer'[v] = writer[v]
             /\ writer'[w].at = step /\ writer'[w].copy = writer[w].copy
    BY <1>1, <1>3 DEF Goes, WriterState
<1>4. CASE Publish(w)
    <2>1. next \in Events
        BY <1>4, BoundsAssumption DEF Publish, TypeOK, Events
    <2>2. PICK step \in {"copy", "send"} :
             writer' = [writer EXCEPT ![w].at = step, ![w].event = next]
        BY <1>4 DEF Publish
    <2>3. writer' \in [Writers -> WriterState] /\ writer'[w].at \in {"copy", "send"}
          /\ \A v \in Writers : v # w => writer'[v] = writer[v]
        BY <1>1, <2>1, <2>2 DEF WriterState, Places
    <2> QED
        BY <1>4, <2>3 DEF Publish, Resume, Copy, Drain, AppendLines, SaveFold, Send, Attach, At
<1>5. CASE Resume(w)
    <2>1. At(w, "idle") /\ Goes(w, "copy")
        BY <1>5 DEF Resume
    <2> QED
        BY <1>3, <1>5, <2>1 DEF Places, Publish, Resume, Copy, Drain, AppendLines, SaveFold, Send, Attach, At
<1>6. CASE Copy(w)
    <2>1. /\ writer' \in [Writers -> WriterState]
          /\ \A v \in Writers : v # w => writer'[v] = writer[v]
          /\ writer'[w].at = "drain" /\ writer'[w].copy = view
        BY <1>1, <1>6 DEF Copy, WriterState, Places, TypeOK
    <2> QED
        BY <1>6, <2>1 DEF Publish, Resume, Copy, Drain, AppendLines, SaveFold, Send, Attach, At
<1>7. CASE Drain(w)
    <2>1. /\ writer' \in [Writers -> WriterState]
          /\ \A v \in Writers : v # w => writer'[v] = writer[v]
          /\ writer'[w].at = "append" /\ writer'[w].lines = queue
          /\ writer'[w].copy = writer[w].copy
        BY <1>1, <1>7 DEF Drain, WriterState, Places, TypeOK
    <2> QED
        BY <1>7, <2>1 DEF Publish, Resume, Copy, Drain, AppendLines, SaveFold, Send, Attach, At
<1>8. CASE AppendLines(w)
    <2>1. Goes(w, "save") /\ "save" \in Places
        BY <1>8 DEF AppendLines, Places
    <2> QED
        BY <1>3, <1>8, <2>1 DEF Publish, Resume, Copy, Drain, AppendLines, SaveFold, Send, Attach, At
<1>9. CASE SaveFold(w)
    <2>1. \E step \in {"send", "attach"} : Goes(w, step)
        BY <1>9 DEF SaveFold
    <2>2. {"send", "attach"} \subseteq Places
        BY DEF Places
    <2> QED
        BY <1>3, <1>9, <2>1, <2>2 DEF Publish, Resume, Copy, Drain, AppendLines, SaveFold, Send, Attach, At
<1>10. CASE Send(w) \/ Attach(w)
    <2>1. writer' = [writer EXCEPT ![w] = Idle]
        BY <1>10 DEF Send, Attach
    <2>2. Idle.at = "idle"
        BY DEF Idle
    <2> QED
        BY <1>1, <1>2, <1>10, <2>1, <2>2 DEF Publish, Resume, Copy, Drain, AppendLines, SaveFold, Send, Attach, At
<1> QED
    BY <1>4, <1>5, <1>6, <1>7, <1>8, <1>9, <1>10 DEF Continues

-----------------------------------------------------------------------------
(***************************************************************************)
(* Types.  A line to be sent is an event because a writer without one, the    *)
(* resume's, runs alone in a session nobody can attach to.                  *)
(***************************************************************************)
SendersHoldEvents ==
    /\ \A w \in Writers : At(w, "send") => writer[w].event \in Events
    /\ up => \A w \in Writers : ~At(w, "idle") => writer[w].event \in Events
    /\ ~up => \A w1, w2 \in Writers :
                  ~At(w1, "idle") /\ ~At(w2, "idle") => w1 = w2

TypeInv == TypeOK /\ SendersHoldEvents

\* The session starts with nothing in it and nobody publishing.
LEMMA TypesInit == Init => TypeInv
<1> SUFFICES ASSUME Init PROVE TypeInv
    OBVIOUS
<1>1. MaxEvents \in Nat /\ MaxCrashes \in Nat
    BY BoundsAssumption
<1>2. <<>> \in Seq(Events) /\ Idle \in WriterState
    BY DEF Idle, WriterState, Places
<1>3. writer \in [Writers -> WriterState]
    BY <1>2 DEF Init
<1>4. TypeOK
    <2>1. next \in 1..(MaxEvents + 1) /\ crashes \in 0..MaxCrashes
        BY <1>1 DEF Init
    <2>2. /\ view \in Seq(Events) /\ queue \in Seq(Events) /\ sent \in Seq(Events)
          /\ stream \in Seq(Events) /\ fold \in Seq(Events)
        BY <1>2 DEF Init
    <2>3. store \in Writers \cup {NoOne} /\ up \in BOOLEAN /\ failed \in BOOLEAN
        BY DEF Init
    <2> QED
        BY <1>3, <2>1, <2>2, <2>3 DEF TypeOK, WriterState, Places
<1>5. \A w \in Writers : At(w, "idle")
    BY DEF Init, At, Idle
<1>6. SendersHoldEvents
    BY <1>5 DEF Init, SendersHoldEvents, At
<1> QED
    BY <1>4, <1>6 DEF TypeInv

\* Every step keeps the types, given that who sends has an event.
LEMMA TypesStep == TypeInv /\ [Next]_vars => TypeOK'
<1> SUFFICES ASSUME TypeInv, [Next]_vars PROVE TypeOK'
    OBVIOUS
<1> USE DEF TypeInv
<1>1. MaxEvents \in Nat /\ MaxCrashes \in Nat
    BY BoundsAssumption
<1>2. <<>> \in Seq(Events) /\ Idle \in WriterState
    BY DEF Idle, WriterState, Places
<1>3. ASSUME NEW w \in Writers, Publish(w) \/ Continues(w) \/ Resume(w)
      PROVE  TypeOK'
    <2>1. writer' \in [Writers -> WriterState]
        BY <1>3, WritersMove
    <2>2. /\ writer[w].lines \in Seq(Events) /\ writer[w].copy \in Seq(Events)
          /\ writer[w].event \in Events \cup {NoEvent}
        BY DEF TypeOK
    <2>3. /\ next <= MaxEvents => next \in Events /\ next + 1 \in 1..(MaxEvents + 1)
          /\ next \in 1..(MaxEvents + 1)
        BY <1>1 DEF TypeOK, Events
    <2>4. CASE Publish(w)
        <3>1. view' \in Seq(Events) /\ queue' \in Seq(Events)
            BY <2>3, <2>4, AppendProperties DEF TypeOK, Publish
        <3> QED
            BY <2>1, <2>3, <2>4, <3>1 DEF TypeOK, Publish, disk, WriterState, Places
    <2>5. CASE Resume(w)
        <3>1. view' \in Seq(Events) /\ queue' \in Seq(Events) /\ next' \in 1..(MaxEvents + 1)
            <4>1. CASE view' = fold /\ queue' = <<>> /\ UNCHANGED next
                BY <1>2, <2>3, <4>1 DEF TypeOK
            <4>2. CASE /\ next <= MaxEvents
                       /\ view' = Append(fold, next)
                       /\ queue' = <<next>>
                       /\ next' = next + 1
                BY <2>3, <4>2, AppendProperties DEF TypeOK
            <4> QED
                BY <2>5, <4>1, <4>2 DEF Resume
        <3> QED
            BY <2>1, <2>5, <3>1 DEF TypeOK, Resume, disk, WriterState, Places
    <2>6. CASE Copy(w) \/ Drain(w)
        BY <1>2, <2>1, <2>6 DEF TypeOK, Copy, Drain, disk, memory, bounds, WriterState, Places
    <2>7. CASE AppendLines(w)
        <3>1. stream' \in Seq(Events)
            <4>1. stream' = stream \/ stream' = stream \o writer[w].lines
                BY <2>7 DEF AppendLines
            <4>2. stream \in Seq(Events)
                BY DEF TypeOK
            <4>3. stream \o writer[w].lines \in Seq(Events)
                BY <2>2, <4>2, ConcatProperties
            <4> QED
                BY <4>1, <4>2, <4>3
        <3>2. failed' \in BOOLEAN
            BY <2>7 DEF TypeOK, AppendLines
        <3> QED
            BY <2>1, <2>7, <3>1, <3>2 DEF TypeOK, AppendLines, memory, bounds, WriterState, Places
    <2>8. CASE SaveFold(w)
        <3>1. fold' \in Seq(Events)
            BY <2>2, <2>8 DEF TypeOK, SaveFold
        <3>2. failed' \in BOOLEAN
            BY <2>8 DEF TypeOK, SaveFold
        <3> QED
            BY <2>1, <2>8, <3>1, <3>2 DEF TypeOK, SaveFold, memory, bounds, WriterState, Places
    <2>9. CASE Send(w)
        <3>1. sent' \in Seq(Events)
            BY <2>9, AppendProperties DEF TypeOK, Send, SendersHoldEvents
        <3> QED
            BY <2>1, <2>9, <3>1 DEF TypeOK, Send, disk, bounds, WriterState, Places
    <2>10. CASE Attach(w)
        BY <2>1, <2>10 DEF TypeOK, Attach, disk, memory, bounds, WriterState, Places
    <2> QED
        BY <1>3, <2>4, <2>5, <2>6, <2>7, <2>8, <2>9, <2>10 DEF Continues
<1>4. CASE Crash
    <2>1. writer' \in [Writers -> WriterState]
        BY <1>2, <1>4 DEF Crash
    <2>2. crashes' \in 0..MaxCrashes
        BY <1>1, <1>4 DEF Crash, TypeOK
    <2> QED
        BY <1>2, <1>4, <2>1, <2>2 DEF Crash, TypeOK, disk, WriterState, Places
<1>5. CASE UNCHANGED vars
    BY <1>5 DEF vars, memory, disk, bounds, TypeOK
<1> QED
    BY <1>3, <1>4, <1>5 DEF Next

\* Every step leaves who sends with an event.
LEMMA SendersStep == TypeInv /\ [Next]_vars => SendersHoldEvents'
<1> SUFFICES ASSUME TypeInv, [Next]_vars PROVE SendersHoldEvents'
    OBVIOUS
<1> USE DEF TypeInv
<1>1. ASSUME NEW w \in Writers, Publish(w) \/ Continues(w) \/ Resume(w)
      PROVE  SendersHoldEvents'
    <2>1. /\ writer' \in [Writers -> WriterState]
          /\ \A v \in Writers : v # w => writer'[v] = writer[v]
          /\ Publish(w) => writer'[w].at \in {"copy", "send"}
          /\ Resume(w) => writer'[w].at = "copy"
          /\ Copy(w) => writer'[w].at = "drain"
          /\ Drain(w) => writer'[w].at = "append"
          /\ AppendLines(w) => writer'[w].at = "save"
          /\ Send(w) \/ Attach(w) => writer'[w].at = "idle"
        BY <1>1, WritersMove
    <2>2. CASE Publish(w)
        <3>1. next \in Events
            BY <2>2, BoundsAssumption DEF Publish, TypeOK, Events
        <3>2. writer'[w].event = next /\ up /\ up'
            BY <2>2 DEF Publish, TypeOK
        <3> QED
            BY <2>1, <3>1, <3>2 DEF SendersHoldEvents, At
    <2>3. CASE Resume(w)
        BY <2>1, <2>3 DEF SendersHoldEvents, Resume, At
    <2>4. CASE Copy(w) \/ Drain(w) \/ AppendLines(w)
        <3>1. /\ writer'[w].event = writer[w].event /\ ~At(w, "idle") /\ up' = up
              /\ writer'[w].at \in {"drain", "append", "save"}
            BY <2>1, <2>4 DEF Copy, Drain, AppendLines, Goes, At, TypeOK
        <3> QED
            BY <2>1, <3>1 DEF SendersHoldEvents, At
    <2>5. CASE SaveFold(w)
        <3>1. /\ writer'[w].event = writer[w].event /\ ~At(w, "idle") /\ up' = up
              /\ writer'[w].at = IF up THEN "send" ELSE "attach"
            BY <2>5 DEF SaveFold, Goes, At, TypeOK
        <3> QED
            BY <2>1, <3>1 DEF SendersHoldEvents, At
    <2>6. CASE Send(w)
        <3>1. up' = up /\ writer'[w].at = "idle"
            BY <2>1, <2>6 DEF Send
        <3> QED
            BY <2>1, <3>1 DEF SendersHoldEvents, At
    <2>7. CASE Attach(w)
        <3>1. up' /\ ~At(w, "idle") /\ writer'[w].at = "idle"
            BY <2>1, <2>7 DEF Attach, At
        <3> QED
            BY <2>1, <3>1 DEF SendersHoldEvents, At
    <2> QED
        BY <1>1, <2>2, <2>3, <2>4, <2>5, <2>6, <2>7 DEF Continues
<1>2. CASE Crash
    <2>1. \A w \in Writers : writer'[w].at = "idle"
        BY <1>2 DEF Crash, Idle
    <2> QED
        BY <1>2, <2>1 DEF Crash, SendersHoldEvents, At
<1>3. CASE UNCHANGED vars
    BY <1>3 DEF vars, SendersHoldEvents, At
<1> QED
    BY <1>1, <1>2, <1>3 DEF Next

\* The session, the store and the writers keep their types.
THEOREM CheckpointTypes == Spec => []TypeOK
<1>1. TypeInv /\ [Next]_vars => TypeInv'
    BY TypesStep, SendersStep DEF TypeInv
<1>2. TypeInv => TypeOK
    BY DEF TypeInv
<1> QED
    BY <1>1, <1>2, TypesInit, PTL DEF Spec

-----------------------------------------------------------------------------
(***************************************************************************)
(* What of sequences the properties speak of.                              *)
(***************************************************************************)
\* A prefix agrees with what it is a prefix of.
LEMMA PrefixAgrees ==
    ASSUME NEW S, NEW s \in Seq(S), NEW t \in Seq(S)
    PROVE  IsPrefix(s, t) <=> Len(s) <= Len(t) /\ \A i \in 1..Len(s) : s[i] = t[i]
<1>1. Len(s) \in Nat /\ Len(t) \in Nat
    OBVIOUS
<1>2. SubSeq(s, 1, Len(s)) = s
    BY SubSeqFull
<1>3. ASSUME Len(s) <= Len(t)
      PROVE  SubSeq(s, 1, Len(s)) = SubSeq(t, 1, Len(s))
             <=> \A i \in 1..Len(s) : s[i] = t[i]
    <2>1. \A i \in 1..Len(s) : t[i] \in S
        BY <1>1, <1>3
    <2>2. /\ SubSeq(t, 1, Len(s)) \in Seq(S)
          /\ Len(SubSeq(t, 1, Len(s))) = Len(s)
          /\ \A i \in 1..Len(s) : SubSeq(t, 1, Len(s))[i] = t[i]
        <3>1. /\ SubSeq(t, 1, Len(s)) \in Seq(S)
              /\ Len(SubSeq(t, 1, Len(s))) = IF 1 <= Len(s) THEN Len(s) - 1 + 1 ELSE 0
              /\ \A i \in 1..(Len(s) - 1 + 1) : SubSeq(t, 1, Len(s))[i] = t[1 + i - 1]
            BY <1>1, <2>1, SubSeqProperties
        <3> QED
            BY <1>1, <3>1
    <2> DEFINE r == SubSeq(t, 1, Len(s))
    <2>3. s = r <=> \A i \in 1..Len(s) : s[i] = r[i]
        <3> HIDE DEF r
        <3>1. r \in Seq(S) /\ Len(r) = Len(s)
            BY <2>2 DEF r
        <3> QED
            BY <3>1
    <2> QED
        BY <1>2, <2>2, <2>3
<1> QED
    BY <1>3 DEF IsPrefix

\* A prefix stays one when the sequence grows.
LEMMA PrefixesStay ==
    ASSUME NEW S, NEW s \in Seq(S), NEW t \in Seq(S), NEW e \in S
    PROVE  /\ IsPrefix(s, s)
           /\ IsPrefix(s, t) => IsPrefix(s, Append(t, e))
<1>1. IsPrefix(s, s)
    BY PrefixAgrees
<1>2. ASSUME IsPrefix(s, t) PROVE IsPrefix(s, Append(t, e))
    <2>1. Len(s) <= Len(t) /\ \A i \in 1..Len(s) : s[i] = t[i]
        BY <1>2, PrefixAgrees
    <2>2. /\ Append(t, e) \in Seq(S) /\ Len(Append(t, e)) = Len(t) + 1
          /\ \A i \in 1..Len(t) : Append(t, e)[i] = t[i]
        BY AppendProperties
    <2>3. Len(s) <= Len(t) + 1 /\ \A i \in 1..Len(s) : s[i] = Append(t, e)[i]
        BY <2>1, <2>2
    <2> QED
        BY <2>2, <2>3, PrefixAgrees
<1> QED
    BY <1>1, <1>2

\* What is in a sequence: a member has a place.
LEMMA MembersHavePlaces ==
    ASSUME NEW S, NEW s \in Seq(S)
    PROVE  /\ \A x : x \in ToSet(s) <=> \E i \in 1..Len(s) : s[i] = x
           /\ ToSet(s) \subseteq S
           /\ IsInjective(s) <=> \A i, j \in 1..Len(s) : s[i] = s[j] => i = j
<1>1. DOMAIN s = 1..Len(s)
    OBVIOUS
<1>2. \A x : x \in ToSet(s) <=> \E i \in 1..Len(s) : s[i] = x
    BY <1>1 DEF ToSet
<1>3. ToSet(s) \subseteq S
    BY <1>2
<1>4. IsInjective(s) <=> \A i, j \in 1..Len(s) : s[i] = s[j] => i = j
    BY <1>1 DEF IsInjective
<1> QED
    BY <1>2, <1>3, <1>4

\* Nothing is in an empty sequence, and one thing in a sequence of one.
LEMMA ShortSequences ==
    /\ ToSet(<<>>) = {} /\ IsInjective(<<>>)
    /\ \A e : ToSet(<<e>>) = {e} /\ IsInjective(<<e>>)
BY DEF ToSet, IsInjective

\* Two sequences with nothing in common, one after the other, repeat nothing.
LEMMA Concatenation ==
    ASSUME NEW S, NEW s \in Seq(S), NEW t \in Seq(S)
    PROVE  /\ ToSet(s \o t) = ToSet(s) \cup ToSet(t)
           /\ IsInjective(s) /\ IsInjective(t) /\ ToSet(s) \cap ToSet(t) = {}
                 => IsInjective(s \o t)
<1> DEFINE r == s \o t
<1>1. /\ r \in Seq(S) /\ Len(r) = Len(s) + Len(t)
      /\ \A i \in 1..(Len(s) + Len(t)) : r[i] = IF i <= Len(s) THEN s[i] ELSE t[i - Len(s)]
    BY ConcatProperties
<1> HIDE DEF r
<1>2. Len(s) \in Nat /\ Len(t) \in Nat
    OBVIOUS
<1>3. \A i \in 1..Len(r) : \/ i \in 1..Len(s) /\ r[i] = s[i]
                           \/ i - Len(s) \in 1..Len(t) /\ r[i] = t[i - Len(s)]
    BY <1>1, <1>2
<1>4. /\ \A i \in 1..Len(s) : i \in 1..Len(r) /\ r[i] = s[i]
      /\ \A i \in 1..Len(t) : i + Len(s) \in 1..Len(r) /\ r[i + Len(s)] = t[i]
    <2>1. ASSUME NEW i \in 1..Len(s) PROVE i \in 1..Len(r) /\ r[i] = s[i]
        BY <1>1, <1>2
    <2>2. ASSUME NEW i \in 1..Len(t)
          PROVE  i + Len(s) \in 1..Len(r) /\ r[i + Len(s)] = t[i]
        <3>1. /\ i + Len(s) \in 1..(Len(s) + Len(t)) /\ ~(i + Len(s) <= Len(s))
              /\ i + Len(s) - Len(s) = i
            BY <1>2
        <3> QED
            BY <1>1, <3>1
    <2> QED
        BY <2>1, <2>2
<1>5. ToSet(r) = ToSet(s) \cup ToSet(t)
    <2>1. \A x : x \in ToSet(r) <=> \E i \in 1..Len(r) : r[i] = x
        BY <1>1, MembersHavePlaces
    <2>2. \A x : x \in ToSet(s) <=> \E i \in 1..Len(s) : s[i] = x
        BY MembersHavePlaces
    <2>3. \A x : x \in ToSet(t) <=> \E i \in 1..Len(t) : t[i] = x
        BY MembersHavePlaces
    <2>4. ASSUME NEW x \in ToSet(r) PROVE x \in ToSet(s) \cup ToSet(t)
        BY <1>3, <2>1, <2>2, <2>3
    <2>5. ASSUME NEW x \in ToSet(s) \cup ToSet(t) PROVE x \in ToSet(r)
        BY <1>4, <2>1, <2>2, <2>3
    <2> QED
        BY <2>4, <2>5
<1>6. ASSUME IsInjective(s), IsInjective(t), ToSet(s) \cap ToSet(t) = {}
      PROVE  IsInjective(r)
    <2>1. /\ \A i, j \in 1..Len(s) : s[i] = s[j] => i = j
          /\ \A i, j \in 1..Len(t) : t[i] = t[j] => i = j
        BY <1>6, MembersHavePlaces
    <2>2. \A i \in 1..Len(s), j \in 1..Len(t) : s[i] # t[j]
        <3>1. \A i \in 1..Len(s) : s[i] \in ToSet(s)
            BY MembersHavePlaces
        <3>2. \A j \in 1..Len(t) : t[j] \in ToSet(t)
            BY MembersHavePlaces
        <3> QED
            BY <1>6, <3>1, <3>2
    <2>3. ASSUME NEW i \in 1..Len(r), NEW j \in 1..Len(r), r[i] = r[j]
          PROVE  i = j
        BY <1>2, <1>3, <2>1, <2>2, <2>3
    <2> QED
        BY <1>1, <2>3, MembersHavePlaces
<1> QED
    BY <1>5, <1>6 DEF r

\* One more element is a sequence of one more.
LEMMA Appending ==
    ASSUME NEW S, NEW s \in Seq(S), NEW e \in S
    PROVE  /\ ToSet(Append(s, e)) = ToSet(s) \cup {e}
           /\ IsInjective(s) /\ e \notin ToSet(s) => IsInjective(Append(s, e))
<1>1. Append(s, e) = s \o <<e>> /\ <<e>> \in Seq(S)
    BY AppendIsConcat
<1>2. ToSet(<<e>>) = {e} /\ IsInjective(<<e>>)
    BY ShortSequences
<1>3. /\ ToSet(s \o <<e>>) = ToSet(s) \cup ToSet(<<e>>)
      /\ IsInjective(s) /\ IsInjective(<<e>>) /\ ToSet(s) \cap ToSet(<<e>>) = {}
            => IsInjective(s \o <<e>>)
    BY <1>1, Concatenation
<1>4. e \notin ToSet(s) => ToSet(s) \cap ToSet(<<e>>) = {}
    BY <1>2
<1> QED
    BY <1>1, <1>2, <1>3, <1>4

-----------------------------------------------------------------------------
(***************************************************************************)
(* The stored fold.  A copy is a past of the session from the moment it is    *)
(* taken, so whichever checkpoint saves last saves one; and so is what was    *)
(* stored when the session is resumed from it, before anybody can attach.     *)
(***************************************************************************)
Past ==
    /\ (up \/ \E w \in Writers : ~At(w, "idle")) => IsPrefix(fold, view)
    /\ \A w \in Writers :
          writer[w].at \in {"drain", "append", "save"} => IsPrefix(writer[w].copy, view)

\* Every step keeps the stored fold, and every copy of it, a past of the session.
LEMMA PastStep == TypeInv /\ Past /\ [Next]_vars => Past'
<1> SUFFICES ASSUME TypeInv, Past, [Next]_vars PROVE Past'
    OBVIOUS
<1>1. /\ TypeOK /\ view \in Seq(Events) /\ fold \in Seq(Events)
      /\ \A w \in Writers : writer[w].copy \in Seq(Events)
    BY DEF TypeInv, TypeOK
<1>2. IsPrefix(view, view) /\ IsPrefix(fold, fold)
    BY <1>1, PrefixAgrees
<1>3. ASSUME NEW w \in Writers, Publish(w) \/ Continues(w) \/ Resume(w)
      PROVE  Past'
    <2>1. /\ writer' \in [Writers -> WriterState]
          /\ \A v \in Writers : v # w => writer'[v] = writer[v]
          /\ Publish(w) => writer'[w].at \in {"copy", "send"}
          /\ Resume(w) => writer'[w].at = "copy"
          /\ Copy(w) => writer'[w].at = "drain" /\ writer'[w].copy = view
          /\ Drain(w) => /\ writer'[w].at = "append" /\ writer'[w].lines = queue
                         /\ writer'[w].copy = writer[w].copy
          /\ AppendLines(w) => /\ writer'[w].at = "save"
                               /\ writer'[w].copy = writer[w].copy
          /\ SaveFold(w) => writer'[w].at \in {"send", "attach"}
          /\ Send(w) \/ Attach(w) => writer'[w].at = "idle"
        BY <1>1, <1>3, WritersMove
    <2>2. CASE Publish(w)
        <3>1. next \in Events /\ up /\ view' = Append(view, next) /\ fold' = fold
            BY <1>1, <2>2, BoundsAssumption DEF Publish, TypeOK, Events, disk
        <3>2. \A s \in Seq(Events) : IsPrefix(s, view) => IsPrefix(s, view')
            BY <1>1, <3>1, PrefixesStay
        <3> QED
            BY <1>1, <2>1, <2>2, <3>1, <3>2 DEF Past, At
    <2>3. CASE Resume(w)
        <3>1. IsPrefix(fold', view')
            <4>1. fold' = fold
                BY <2>3 DEF Resume, disk
            <4>2. CASE view' = fold
                BY <1>2, <4>1, <4>2
            <4>3. CASE next <= MaxEvents /\ view' = Append(fold, next)
                <5>1. next \in Events
                    BY <1>1, <4>3, BoundsAssumption DEF TypeOK, Events
                <5> QED
                    BY <1>1, <4>1, <4>3, <5>1, <1>2, PrefixesStay
            <4> QED
                BY <2>3, <4>2, <4>3 DEF Resume
        <3>2. \A v \in Writers : writer'[v].at \notin {"drain", "append", "save"}
            BY <2>1, <2>3 DEF Resume, At
        <3> QED
            BY <3>1, <3>2 DEF Past
    <2>4. CASE Copy(w) \/ Drain(w) \/ AppendLines(w)
        <3>1. view' = view /\ fold' = fold /\ up' = up /\ ~At(w, "idle")
            BY <2>4 DEF Copy, Drain, AppendLines, memory, disk, At
        <3>2. IsPrefix(writer'[w].copy, view)
            BY <1>2, <2>1, <2>4 DEF Past, Drain, AppendLines, At
        <3> QED
            BY <2>1, <3>1, <3>2 DEF Past, At
    <2>5. CASE SaveFold(w)
        <3>1. /\ view' = view /\ up' = up /\ ~At(w, "idle")
              /\ fold' = fold \/ fold' = writer[w].copy
              /\ IsPrefix(writer[w].copy, view)
            BY <2>5 DEF SaveFold, memory, At, Past
        <3> QED
            BY <2>1, <2>5, <3>1 DEF Past, At
    <2>6. CASE Send(w) \/ Attach(w)
        <3>1. view' = view /\ fold' = fold /\ (up' => up \/ ~At(w, "idle"))
            BY <2>6 DEF Send, Attach, memory, disk, At
        <3> QED
            BY <2>1, <2>6, <3>1 DEF Past, At
    <2> QED
        BY <1>3, <2>2, <2>3, <2>4, <2>5, <2>6 DEF Continues
<1>4. CASE Crash
    <2>1. ~up' /\ \A w \in Writers : writer'[w].at = "idle"
        BY <1>4 DEF Crash, Idle
    <2> QED
        BY <2>1 DEF Past, At
<1>5. CASE UNCHANGED vars
    BY <1>5 DEF vars, memory, disk, Past, At
<1> QED
    BY <1>3, <1>4, <1>5 DEF Next

\* The stored fold is a state the session went through.
THEOREM StoredFoldIsAPast == Spec => []FoldIsAPastOfTheSession
<1>1. Init => Past
    <2> SUFFICES ASSUME Init PROVE Past
        OBVIOUS
    <2>1. fold = <<>> /\ view = <<>> /\ <<>> \in Seq(Events)
        BY DEF Init
    <2>2. IsPrefix(fold, view)
        BY <2>1 DEF IsPrefix
    <2>3. \A w \in Writers : writer[w].at = "idle"
        BY DEF Init, Idle
    <2> QED
        BY <2>2, <2>3 DEF Past
<1>2. TypeInv /\ [Next]_vars => TypeInv'
    BY TypesStep, SendersStep DEF TypeInv
<1>3. Past => FoldIsAPastOfTheSession
    BY DEF Past, FoldIsAPastOfTheSession
<1> QED
    BY <1>1, <1>2, <1>3, TypesInit, PastStep, PTL DEF Spec

-----------------------------------------------------------------------------
(***************************************************************************)
(* The lines.  They are numbered in the order they are queued, so a new one    *)
(* is none of the old, and each step moves all the lines of one place to      *)
(* another, or loses them.                                                 *)
(***************************************************************************)
\* What each step does to the lines in flight.
LEMMA LinesMove ==
    ASSUME TypeOK, NEW w \in Writers, Publish(w) \/ Continues(w) \/ Resume(w)
    PROVE  /\ \A v \in Writers : v # w => InFlight(v)' = InFlight(v)
           /\ ~AppendLines(w) => InFlight(w) = {}
           /\ AppendLines(w) => At(w, "append") /\ InFlight(w) = ToSet(writer[w].lines)
           /\ Drain(w) => InFlight(w)' = ToSet(queue)
           /\ ~Drain(w) => InFlight(w)' = {}
<1>1. /\ \A v \in Writers : v # w => writer'[v] = writer[v]
      /\ Publish(w) => writer'[w].at \in {"copy", "send"}
      /\ Resume(w) => writer'[w].at = "copy"
      /\ Copy(w) => writer'[w].at = "drain"
      /\ Drain(w) => writer'[w].at = "append" /\ writer'[w].lines = queue
      /\ AppendLines(w) => writer'[w].at = "save"
      /\ SaveFold(w) => writer'[w].at \in {"send", "attach"}
      /\ Send(w) \/ Attach(w) => writer'[w].at = "idle"
    BY WritersMove
<1>2. \A v \in Writers : v # w => InFlight(v)' = InFlight(v)
    BY <1>1 DEF InFlight, At
<1>3. ~AppendLines(w) => ~At(w, "append")
    BY DEF Continues, Publish, Copy, Drain, SaveFold, Send, Attach, Resume, At
<1>4. AppendLines(w) => At(w, "append")
    BY DEF AppendLines
<1>5. Drain(w) => InFlight(w)' = ToSet(queue)
    BY <1>1 DEF InFlight, At
<1>6. ~Drain(w) => InFlight(w)' = {}
    <2>1. ~Drain(w) => writer'[w].at # "append"
        BY <1>1 DEF Continues
    <2> QED
        BY <2>1 DEF InFlight, At
<1> QED
    BY <1>2, <1>3, <1>4, <1>5, <1>6 DEF InFlight

Numbered ==
    /\ \A e \in ToSet(queue) \cup ToSet(stream) : e < next
    /\ \A w \in Writers : \A e \in InFlight(w) : e < next
    /\ IsInjective(queue)
    /\ \A w \in Writers : At(w, "append") => IsInjective(writer[w].lines)

Placed == EachLineIsInOnePlace /\ Numbered

\* Every step of a writer keeps the lines apart.
LEMMA PlacedByAWriter ==
    ASSUME TypeInv, Placed, NEW w \in Writers, Publish(w) \/ Continues(w) \/ Resume(w)
    PROVE  Placed'
<1>1. /\ TypeOK /\ queue \in Seq(Events) /\ stream \in Seq(Events)
      /\ writer[w].lines \in Seq(Events) /\ next \in Nat
    BY BoundsAssumption DEF TypeInv, TypeOK
<1>2. Events \subseteq Nat
    BY DEF Events
<1>3. /\ \A v \in Writers : v # w => InFlight(v)' = InFlight(v)
      /\ ~AppendLines(w) => InFlight(w) = {}
      /\ AppendLines(w) => At(w, "append") /\ InFlight(w) = ToSet(writer[w].lines)
      /\ Drain(w) => InFlight(w)' = ToSet(queue)
      /\ ~Drain(w) => InFlight(w)' = {}
    BY <1>1, LinesMove
<1>4. /\ \A v \in Writers : v # w => writer'[v] = writer[v]
      /\ Publish(w) => writer'[w].at \in {"copy", "send"}
      /\ Resume(w) => writer'[w].at = "copy"
      /\ Copy(w) => writer'[w].at = "drain"
      /\ Drain(w) => writer'[w].at = "append" /\ writer'[w].lines = queue
      /\ AppendLines(w) => writer'[w].at = "save"
      /\ SaveFold(w) => writer'[w].at \in {"send", "attach"}
      /\ Send(w) \/ Attach(w) => writer'[w].at = "idle"
    BY <1>1, WritersMove
<1>5. \A v \in Writers : InFlight(v) \subseteq Nat
    <2>1. ASSUME NEW v \in Writers, At(v, "append")
          PROVE  ToSet(writer[v].lines) \subseteq Events
        <3>1. writer[v].lines \in Seq(Events)
            BY <1>1 DEF TypeOK
        <3> QED
            BY <3>1, MembersHavePlaces
    <2> QED
        BY <1>2, <2>1 DEF InFlight
<1>6. ToSet(queue) \subseteq Nat /\ ToSet(stream) \subseteq Nat
    <2>1. ToSet(queue) \subseteq Events /\ ToSet(stream) \subseteq Events
        BY <1>1, MembersHavePlaces
    <2> QED
        BY <1>2, <2>1
<1>7. CASE Publish(w)
    <2>1. /\ next \in Events /\ queue' = Append(queue, next) /\ stream' = stream
          /\ next' = next + 1
        BY <1>1, <1>7, BoundsAssumption DEF Publish, TypeOK, Events, disk
    <2>2. next \notin ToSet(queue) \cup ToSet(stream)
        BY <1>1, <1>6 DEF Placed, Numbered
    <2>3. ToSet(queue') = ToSet(queue) \cup {next} /\ IsInjective(queue')
        BY <1>1, <2>1, <2>2, Appending DEF Placed, Numbered
    <2>4. \A v \in Writers : InFlight(v)' = InFlight(v) /\ next \notin InFlight(v)
        <3>1. ~AppendLines(w) /\ ~Drain(w)
            BY <1>7 DEF Publish, AppendLines, Drain, At
        <3>2. \A v \in Writers : next \notin InFlight(v)
            BY <1>1, <1>5 DEF Placed, Numbered
        <3> QED
            BY <1>3, <3>1, <3>2
    <2>5. EachLineIsInOnePlace'
        BY <2>1, <2>2, <2>3, <2>4 DEF Placed, EachLineIsInOnePlace
    <2>6. /\ \A e \in ToSet(queue') \cup ToSet(stream') : e < next'
          /\ \A v \in Writers : \A e \in InFlight(v)' : e < next'
        BY <1>1, <1>5, <1>6, <2>1, <2>3, <2>4 DEF Placed, Numbered
    <2>7. \A v \in Writers : writer'[v].at = "append" => IsInjective(writer'[v].lines)
        BY <1>4, <1>7 DEF Placed, Numbered, At
    <2> QED
        BY <2>3, <2>5, <2>6, <2>7 DEF Placed, Numbered, At
<1>8. CASE Resume(w)
    <2>1. /\ stream' = stream /\ ~AppendLines(w) /\ ~Drain(w)
          /\ \/ queue' = <<>> /\ next' = next
             \/ queue' = <<next>> /\ next' = next + 1
        BY <1>8 DEF Resume, disk, AppendLines, Drain, At
    <2>2. \A v \in Writers : InFlight(v) = {} /\ InFlight(v)' = {}
        BY <1>3, <1>8, <2>1 DEF Resume, InFlight, At
    <2>3. next \notin ToSet(stream)
        BY <1>1, <1>6 DEF Placed, Numbered
    <2>4. /\ ToSet(queue') \cap ToSet(stream) = {} /\ IsInjective(queue')
          /\ \A e \in ToSet(queue') : e < next'
        BY <1>1, <2>1, <2>3, ShortSequences
    <2>5. EachLineIsInOnePlace'
        BY <2>1, <2>2, <2>4 DEF Placed, EachLineIsInOnePlace
    <2>6. \A e \in ToSet(stream') : e < next'
        BY <1>1, <1>6, <2>1 DEF Placed, Numbered
    <2>7. \A v \in Writers : writer'[v].at # "append"
        BY <1>4, <1>8 DEF Resume, At
    <2> QED
        BY <2>2, <2>4, <2>5, <2>6, <2>7 DEF Placed, Numbered, At
<1>9. CASE Drain(w)
    <2>1. /\ queue' = <<>> /\ stream' = stream /\ next' = next /\ ~AppendLines(w)
          /\ ToSet(queue') = {} /\ IsInjective(queue')
        BY <1>9, ShortSequences DEF Drain, disk, bounds, AppendLines, At
    <2>2. EachLineIsInOnePlace'
        BY <1>3, <1>9, <2>1 DEF Placed, EachLineIsInOnePlace
    <2>3. /\ \A e \in ToSet(queue') \cup ToSet(stream') : e < next'
          /\ \A v \in Writers : \A e \in InFlight(v)' : e < next'
        BY <1>3, <1>9, <2>1 DEF Placed, Numbered
    <2>4. \A v \in Writers : writer'[v].at = "append" => IsInjective(writer'[v].lines)
        BY <1>4, <1>9 DEF Placed, Numbered, At
    <2> QED
        BY <2>1, <2>2, <2>3, <2>4 DEF Placed, Numbered, At
<1>10. CASE AppendLines(w)
    <2>1. /\ queue' = queue /\ next' = next /\ At(w, "append")
          /\ stream' = stream \/ stream' = stream \o writer[w].lines
        BY <1>10 DEF AppendLines, memory, bounds
    <2>2. /\ ToSet(stream') \subseteq ToSet(stream) \cup InFlight(w)
          /\ IsInjective(stream')
        <3>1. /\ ToSet(stream \o writer[w].lines) = ToSet(stream) \cup ToSet(writer[w].lines)
              /\ IsInjective(stream \o writer[w].lines)
            BY <1>1, <1>3, <1>10, Concatenation DEF Placed, Numbered, EachLineIsInOnePlace
        <3> QED
            BY <1>3, <1>10, <2>1, <3>1 DEF Placed, EachLineIsInOnePlace
    <2>3. InFlight(w)' = {}
        BY <1>3, <2>1 DEF Drain, At
    <2>4. EachLineIsInOnePlace'
        BY <1>3, <2>1, <2>2, <2>3 DEF Placed, EachLineIsInOnePlace
    <2>5. /\ \A e \in ToSet(queue') \cup ToSet(stream') : e < next'
          /\ \A v \in Writers : \A e \in InFlight(v)' : e < next'
        BY <1>3, <2>1, <2>2, <2>3 DEF Placed, Numbered
    <2>6. \A v \in Writers : writer'[v].at = "append" => IsInjective(writer'[v].lines)
        BY <1>4, <1>10 DEF Placed, Numbered, At
    <2> QED
        BY <2>1, <2>4, <2>5, <2>6 DEF Placed, Numbered, At
<1>11. CASE Copy(w) \/ SaveFold(w) \/ Send(w) \/ Attach(w)
    <2>1. /\ queue' = queue /\ stream' = stream /\ next' = next
          /\ ~AppendLines(w) /\ ~Drain(w)
        BY <1>11 DEF Copy, SaveFold, Send, Attach, memory, disk, bounds, AppendLines, Drain, At
    <2>2. \A v \in Writers : InFlight(v)' = InFlight(v)
        BY <1>3, <2>1
    <2>3. \A v \in Writers : writer'[v].at = "append" => IsInjective(writer'[v].lines)
        BY <1>4, <1>11 DEF Placed, Numbered, At
    <2>4. EachLineIsInOnePlace'
        BY <2>1, <2>2 DEF Placed, EachLineIsInOnePlace
    <2> QED
        BY <2>1, <2>2, <2>3, <2>4 DEF Placed, Numbered, At
<1> QED
    BY <1>7, <1>8, <1>9, <1>10, <1>11 DEF Continues

\* Every step keeps the lines apart.
LEMMA PlacedStep == TypeInv /\ Placed /\ [Next]_vars => Placed'
<1> SUFFICES ASSUME TypeInv, Placed, [Next]_vars PROVE Placed'
    OBVIOUS
<1>1. CASE Crash
    <2>1. /\ queue' = <<>> /\ stream' = stream /\ next' = next
          /\ ToSet(queue') = {} /\ IsInjective(queue')
        BY <1>1, ShortSequences DEF Crash, disk
    <2>2. \A v \in Writers : writer'[v].at = "idle"
        BY <1>1 DEF Crash, Idle
    <2>3. \A v \in Writers : InFlight(v)' = {}
        BY <2>2 DEF InFlight, At
    <2>4. EachLineIsInOnePlace'
        BY <2>1, <2>3 DEF Placed, EachLineIsInOnePlace
    <2> QED
        BY <2>1, <2>2, <2>3, <2>4 DEF Placed, Numbered, At
<1>2. CASE UNCHANGED vars
    <2>1. queue' = queue /\ stream' = stream /\ next' = next /\ writer' = writer
        BY <1>2 DEF vars, memory, disk, bounds
    <2> QED
        BY <2>1 DEF Placed, Numbered, EachLineIsInOnePlace, InFlight, At
<1> QED
    BY <1>1, <1>2, PlacedByAWriter DEF Next

\* No interleaving of checkpoints, and no crash and resume, stores a line twice.
THEOREM EachLineIsStoredOnce == Spec => []EachLineIsInOnePlace
<1>1. Init => Placed
    <2> SUFFICES ASSUME Init PROVE Placed
        OBVIOUS
    <2>1. /\ ToSet(queue) = {} /\ IsInjective(queue)
          /\ ToSet(stream) = {} /\ IsInjective(stream)
        BY ShortSequences DEF Init
    <2>2. \A w \in Writers : writer[w].at = "idle"
        BY DEF Init, Idle
    <2>3. \A w \in Writers : InFlight(w) = {}
        BY <2>2 DEF InFlight, At
    <2> QED
        BY <2>1, <2>2, <2>3 DEF Placed, Numbered, EachLineIsInOnePlace, At
<1>2. TypeInv /\ [Next]_vars => TypeInv'
    BY TypesStep, SendersStep DEF TypeInv
<1>3. Placed => EachLineIsInOnePlace
    BY DEF Placed
<1> QED
    BY <1>1, <1>2, <1>3, TypesInit, PlacedStep, PTL DEF Spec

-----------------------------------------------------------------------------
(***************************************************************************)
(* The store of a session nothing has gone wrong with.  A copy holds no line   *)
(* that is still queued once its checkpoint has drained the queue after it,    *)
(* and a drained line is on its way to the stream: so what is saved is         *)
(* stored, or will be before the session is quiet.                          *)
(***************************************************************************)
Persisted == ToSet(stream) \cup UNION {InFlight(w) : w \in Writers}

Accounted ==
    /\ up
    /\ ToSet(view) = Persisted \cup ToSet(queue)
    /\ ToSet(fold) \subseteq Persisted
    /\ \A w \in Writers : At(w, "drain") => ToSet(writer[w].copy) \subseteq ToSet(view)
    /\ \A w \in Writers :
          writer[w].at \in {"append", "save"} => ToSet(writer[w].copy) \subseteq Persisted

Whole == (~failed /\ crashes = 0) => Accounted

\* A line is on its way to the stream, or in it, from the drain on.
LEMMA PersistedMoves ==
    ASSUME TypeOK, NEW w \in Writers, Publish(w) \/ Continues(w) \/ Resume(w),
           ~failed'
    PROVE  /\ Drain(w) => Persisted' = Persisted \cup ToSet(queue)
           /\ ~Drain(w) => Persisted' = Persisted
<1>1. /\ \A v \in Writers : v # w => InFlight(v)' = InFlight(v)
      /\ ~AppendLines(w) => InFlight(w) = {}
      /\ AppendLines(w) => At(w, "append") /\ InFlight(w) = ToSet(writer[w].lines)
      /\ Drain(w) => InFlight(w)' = ToSet(queue)
      /\ ~Drain(w) => InFlight(w)' = {}
    BY LinesMove
<1>2. /\ \A x : x \in Persisted <=> x \in ToSet(stream) \/ \E v \in Writers : x \in InFlight(v)
      /\ \A x : x \in Persisted' <=> x \in ToSet(stream') \/ \E v \in Writers : x \in InFlight(v)'
    BY DEF Persisted
<1>3. CASE AppendLines(w)
    <2>1. ~Drain(w) /\ stream' = stream \o writer[w].lines
        <3>1. PICK outcome \in IF writer[w].lines = <<>> THEN {"written"} ELSE Outcomes :
                 /\ stream' = IF outcome = "written" THEN stream \o writer[w].lines ELSE stream
                 /\ failed' = (failed \/ outcome = "refused")
            BY <1>3 DEF AppendLines
        <3>2. outcome \in {"written", "refused"}
            BY <3>1 DEF Outcomes
        <3>3. outcome = "written"
            BY <3>1, <3>2
        <3> QED
            BY <1>3, <3>1, <3>3 DEF AppendLines, Drain, At
    <2>2. ToSet(stream') = ToSet(stream) \cup InFlight(w)
        <3>1. stream \in Seq(Events) /\ writer[w].lines \in Seq(Events)
            BY DEF TypeOK
        <3> QED
            BY <1>1, <1>3, <2>1, <3>1, Concatenation
    <2>3. ASSUME NEW x PROVE x \in Persisted <=> x \in Persisted'
        BY <1>1, <1>2, <2>1, <2>2
    <2> QED
        BY <2>1, <2>3 DEF Persisted
<1>4. CASE ~AppendLines(w)
    <2>1. stream' = stream
        BY <1>4 DEF Continues, Publish, Resume, Copy, Drain, SaveFold, Send, Attach, disk
    <2>2. ASSUME Drain(w) PROVE Persisted' = Persisted \cup ToSet(queue)
        <3>1. ASSUME NEW x PROVE x \in Persisted' <=> x \in Persisted \/ x \in ToSet(queue)
            BY <1>1, <1>2, <1>4, <2>1, <2>2
        <3> QED
            BY <3>1 DEF Persisted
    <2>3. ASSUME ~Drain(w) PROVE Persisted' = Persisted
        <3>1. ASSUME NEW x PROVE x \in Persisted' <=> x \in Persisted
            BY <1>1, <1>2, <1>4, <2>1, <2>3
        <3> QED
            BY <3>1 DEF Persisted
    <2> QED
        BY <2>2, <2>3
<1> QED
    BY <1>3, <1>4

\* Every step keeps every line accounted for, or is a fault.
LEMMA WholeStep == TypeInv /\ Whole /\ [Next]_vars => Whole'
<1> SUFFICES ASSUME TypeInv, Whole, [Next]_vars, ~failed', crashes' = 0
             PROVE  Accounted'
    BY DEF Whole
<1>1. /\ TypeOK /\ view \in Seq(Events) /\ queue \in Seq(Events) /\ crashes \in Nat
      /\ \A w \in Writers : writer[w].copy \in Seq(Events)
    BY BoundsAssumption DEF TypeInv, TypeOK
<1>2. ASSUME NEW w \in Writers, Publish(w) \/ Continues(w) \/ Resume(w)
      PROVE  Accounted'
    <2>1. /\ writer' \in [Writers -> WriterState]
          /\ \A v \in Writers : v # w => writer'[v] = writer[v]
          /\ Publish(w) => writer'[w].at \in {"copy", "send"}
          /\ Resume(w) => writer'[w].at = "copy"
          /\ Copy(w) => writer'[w].at = "drain" /\ writer'[w].copy = view
          /\ Drain(w) => /\ writer'[w].at = "append" /\ writer'[w].lines = queue
                         /\ writer'[w].copy = writer[w].copy
          /\ AppendLines(w) => /\ writer'[w].at = "save"
                               /\ writer'[w].copy = writer[w].copy
          /\ SaveFold(w) => writer'[w].at \in {"send", "attach"}
          /\ Send(w) \/ Attach(w) => writer'[w].at = "idle"
        BY <1>1, <1>2, WritersMove
    <2>2. /\ Drain(w) => Persisted' = Persisted \cup ToSet(queue)
          /\ ~Drain(w) => Persisted' = Persisted
        BY <1>1, <1>2, PersistedMoves
    <2>3. ~failed /\ crashes = 0
        <3>1. failed => failed'
            BY <1>2 DEF Continues, Publish, Resume, Copy, Drain, AppendLines, SaveFold, Send, Attach
        <3>2. crashes' = crashes
            BY <1>2 DEF Continues, Publish, Resume, Copy, Drain, AppendLines, SaveFold, Send, Attach, bounds
        <3> QED
            BY <3>1, <3>2
    <2>4. Accounted
        BY <2>3 DEF Whole
    <2>5. ~Resume(w)
        BY <2>4 DEF Accounted, Resume
    <2>6. CASE Publish(w)
        <3>1. /\ next \in Events /\ view' = Append(view, next) /\ queue' = Append(queue, next)
              /\ fold' = fold /\ up' /\ ~Drain(w)
            BY <1>1, <2>6, BoundsAssumption
               DEF Publish, TypeOK, Events, disk, Drain, At
        <3>2. /\ ToSet(view') = ToSet(view) \cup {next}
              /\ ToSet(queue') = ToSet(queue) \cup {next}
            BY <1>1, <3>1, Appending
        <3> QED
            BY <2>1, <2>2, <2>4, <2>6, <3>1, <3>2 DEF Accounted, At
    <2>7. CASE Copy(w)
        <3>1. view' = view /\ queue' = queue /\ fold' = fold /\ up' = up /\ ~Drain(w)
            BY <2>7 DEF Copy, memory, disk, Drain, At
        <3> QED
            BY <2>1, <2>2, <2>4, <2>7, <3>1 DEF Accounted, At
    <2>8. CASE Drain(w)
        <3>1. /\ view' = view /\ fold' = fold /\ up' = up /\ At(w, "drain")
              /\ ToSet(queue') = {}
            BY <2>8, ShortSequences DEF Drain, disk
        <3>2. ToSet(writer'[w].copy) \subseteq Persisted'
            BY <2>1, <2>2, <2>4, <2>8, <3>1 DEF Accounted
        <3> QED
            BY <2>1, <2>2, <2>4, <2>8, <3>1, <3>2 DEF Accounted, At
    <2>9. CASE AppendLines(w)
        <3>1. /\ view' = view /\ queue' = queue /\ fold' = fold /\ up' = up /\ ~Drain(w)
              /\ At(w, "append")
            BY <2>9 DEF AppendLines, memory, Drain, At
        <3> QED
            BY <2>1, <2>2, <2>4, <2>9, <3>1 DEF Accounted, At
    <2>10. CASE SaveFold(w)
        <3>1. /\ view' = view /\ queue' = queue /\ up' = up /\ ~Drain(w)
              /\ fold' = fold \/ fold' = writer[w].copy
              /\ ToSet(writer[w].copy) \subseteq Persisted
            BY <2>4, <2>10 DEF SaveFold, memory, Drain, At, Accounted
        <3> QED
            BY <2>1, <2>2, <2>4, <2>10, <3>1 DEF Accounted, At
    <2>11. CASE Send(w) \/ Attach(w)
        <3>1. view' = view /\ queue' = queue /\ fold' = fold /\ (up => up') /\ ~Drain(w)
            BY <2>11 DEF Send, Attach, memory, disk, Drain, At
        <3> QED
            BY <2>1, <2>2, <2>4, <2>11, <3>1 DEF Accounted, At
    <2> QED
        BY <1>2, <2>5, <2>6, <2>7, <2>8, <2>9, <2>10, <2>11 DEF Continues
<1>3. CASE Crash
    <2>1. crashes' = crashes + 1
        BY <1>3 DEF Crash
    <2> QED
        BY <1>1, <2>1
<1>4. CASE UNCHANGED vars
    <2>1. /\ view' = view /\ queue' = queue /\ stream' = stream /\ fold' = fold
          /\ writer' = writer /\ up' = up /\ failed' = failed /\ crashes' = crashes
        BY <1>4 DEF vars, memory, disk, bounds
    <2> QED
        BY <2>1 DEF Whole, Accounted, Persisted, InFlight, At
<1> QED
    BY <1>2, <1>3, <1>4 DEF Next

\* Once a session nothing has gone wrong with is quiet, its stored stream has
\* every line of its stored fold, and the queue the rest.
THEOREM AQuietStoreIsWhole == Spec => []QuietStoreIsWhole
<1>1. Init => Whole
    <2> SUFFICES ASSUME Init PROVE Whole
        OBVIOUS
    <2>1. fold = <<>> /\ view = <<>> /\ queue = <<>> /\ stream = <<>> /\ up
        BY DEF Init
    <2>2. \A w \in Writers : writer[w].at = "idle"
        BY DEF Init, Idle
    <2>3. ToSet(<<>>) = {} /\ \A w \in Writers : InFlight(w) = {}
        BY <2>2, ShortSequences DEF InFlight, At
    <2>4. Persisted = {}
        BY <2>1, <2>3 DEF Persisted
    <2> QED
        BY <2>1, <2>2, <2>3, <2>4 DEF Whole, Accounted, At
<1>2. TypeInv /\ [Next]_vars => TypeInv'
    BY TypesStep, SendersStep DEF TypeInv
<1>3. Whole => QuietStoreIsWhole
    <2> SUFFICES ASSUME Whole, Quiet, ~failed, crashes = 0
                 PROVE  /\ ToSet(fold) \subseteq ToSet(stream)
                        /\ ToSet(view) = ToSet(stream) \cup ToSet(queue)
        BY DEF QuietStoreIsWhole
    <2>1. \A w \in Writers : InFlight(w) = {}
        BY DEF Quiet, InFlight, At
    <2>2. Persisted = ToSet(stream)
        BY <2>1 DEF Persisted
    <2> QED
        BY <2>2 DEF Whole, Accounted
<1> QED
    BY <1>1, <1>2, <1>3, TypesInit, WholeStep, PTL DEF Spec
=============================================================================
