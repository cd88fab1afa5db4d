---------------------------- MODULE LivesProofs ----------------------------
(***************************************************************************)
(* Theorems about the live sessions of a server, for any number of names,    *)
(* requests, sockets and copies.                                            *)
(*                                                                         *)
(* A request counts the live sessions and adds its own much later.  What is   *)
(* inductive is not the count of the live ones but the count of those and of  *)
(* the ones on their way: a request that found room had at most one less      *)
(* than max-live beside it, and each of the requests brings at most one.      *)
(***************************************************************************)
EXTENDS Lives, FiniteSetTheorems, SequenceTheorems, TLAPS

\* A step that needs a copy has one, and a session is shown as it was found.
Carries(request, copies) ==
    /\ request.do \in {"sleep", "store", "remove", "beside", "show"} =>
          request.copy # None
    /\ request.do = "show" => copies[request.copy] = request.id

Carried == \A h \in Tasks : Carries(at[h], ids)

\* The requests past their count, and those that show a session found live.
Bringing == {h \in Handlers : at[h].do \in {"show", "previous", "beside", "load",
                                            "settle", "insert"}}

Coming == {at[h].id : h \in Bringing}

RoomIsKept ==
    Cardinality(Live \cup Coming) <= MaxLive + Cardinality(Handlers) - 1

LivesInv == TypeOK /\ Carried /\ RoomIsKept

-----------------------------------------------------------------------------
\* A request that is written over keeps the types of them all.
LEMMA RequestTypes ==
    ASSUME TypeOK, Carried, NEW h \in Tasks, NEW r,
           at' = [at EXCEPT ![h] = r], ids' = ids,
           r \in Requested(Len(ids)), Carries(r, ids)
    PROVE  at' \in [Tasks -> Requested(Len(ids'))] /\ Carried'
BY DEF TypeOK, Carried

LEMMA IdleTypes ==
    ASSUME TypeOK
    PROVE  Idle \in Requested(Len(ids)) /\ Carries(Idle, ids)
BY LivesAssumption DEF TypeOK, Idle, Request, Requested, Steps, Kinds, Carries, None

\* A request that only goes on to another step, and lets go of its copy or not.
LEMMA GoesTypes ==
    ASSUME TypeOK, Carried, NEW h \in Tasks, NEW step \in Steps, step # "show",
           step \in {"sleep", "store", "remove", "beside"} => at[h].copy # None
    PROVE  /\ [at[h] EXCEPT !.do = step] \in Requested(Len(ids))
           /\ Carries([at[h] EXCEPT !.do = step], ids)
<1>1. at[h] \in Requested(Len(ids))
    BY DEF TypeOK
<1> QED
    BY <1>1 DEF Requested, Carries

WithCopy(x, step, copy) == [x EXCEPT !.do = step, !.copy = copy]

\* A request that goes on to another step with another copy.
LEMMA CopyTypes ==
    ASSUME NEW n \in Nat, NEW x \in Requested(n),
           NEW step \in Steps, NEW copy \in 0..n
    PROVE  /\ WithCopy(x, step, copy) \in Requested(n)
           /\ WithCopy(x, step, copy).do = step
           /\ WithCopy(x, step, copy).copy = copy
           /\ WithCopy(x, step, copy).id = x.id
           /\ WithCopy(x, step, copy).of = x.of
<1> DEFINE y == [x EXCEPT !.do = step]
<1>1. y \in Requested(n) /\ y.do = step /\ y.id = x.id /\ y.of = x.of
    BY DEF Requested
<1> HIDE DEF y
<1>2. /\ [y EXCEPT !.copy = copy] \in Requested(n)
      /\ [y EXCEPT !.copy = copy].copy = copy
      /\ [y EXCEPT !.copy = copy].do = y.do
      /\ [y EXCEPT !.copy = copy].id = y.id
      /\ [y EXCEPT !.copy = copy].of = y.of
    BY <1>1 DEF Requested
<1> QED
    BY <1>1, <1>2 DEF y, WithCopy

\* Where a request returns to when a session is put to sleep.
LEMMA SleptTypes ==
    ASSUME TypeOK, Carried, NEW h \in Tasks, Slept(h), ids' = ids
    PROVE  at' \in [Tasks -> Requested(Len(ids'))] /\ Carried'
<1> DEFINE gone(step) == WithCopy(at[h], step, None)
<1>1. at[h] \in Requested(Len(ids))
    BY DEF TypeOK
<1>0. Len(ids) \in Nat
    BY DEF TypeOK
<1>2. /\ gone("room") \in Requested(Len(ids)) /\ Carries(gone("room"), ids)
      /\ gone("visit") \in Requested(Len(ids)) /\ Carries(gone("visit"), ids)
  <2>1. "room" \in Steps /\ "visit" \in Steps /\ None \in 0..Len(ids)
      BY <1>0 DEF Steps, None
  <2>2. /\ gone("room") \in Requested(Len(ids)) /\ gone("room").do = "room"
        /\ gone("visit") \in Requested(Len(ids)) /\ gone("visit").do = "visit"
      BY <1>0, <1>1, <2>1, CopyTypes
  <2> HIDE DEF gone
  <2> QED
      BY <2>2 DEF Carries
<1>3. \/ at' = [at EXCEPT ![h] = Idle]
      \/ at' = [at EXCEPT ![h] = gone("room")]
      \/ at' = [at EXCEPT ![h] = gone("visit")]
    BY DEF Slept, WithCopy
<1> HIDE DEF gone
<1> QED
    BY <1>2, <1>3, IdleTypes, RequestTypes

\* The steps of putting a session to sleep.
LEMMA SleepsTypes ==
    ASSUME TypeOK, Carried, NEW h \in Tasks, Sleeps(h)
    PROVE  TypeOK' /\ Carried'
<1>1. at[h] \in Requested(Len(ids)) /\ Carries(at[h], ids)
    BY DEF TypeOK, Carried
<1>2. at[h].do \in {"sleep", "store", "remove"} => ids[at[h].copy] \in Ids
    BY <1>1 DEF TypeOK, Carries, Requested, None
<1>3. CASE Sleep(h)
  <2> DEFINE now == map[ids[at[h].copy]]
  <2>1. now \in 0..Len(ids)
      BY <1>2, <1>3 DEF Sleep, At, TypeOK
  <2>2. CASE now = None \/ ids[at[h].copy] = current
    <3>1. Slept(h)
        BY <1>3, <2>2 DEF Sleep
    <3> QED
        BY <1>3, <3>1, SleptTypes DEF Sleep, TypeOK, lives, Live
  <2>3. CASE ~(now = None \/ ids[at[h].copy] = current)
    <3> DEFINE r == [at[h] EXCEPT !.do = "store", !.copy = now]
    <3>1. at' = [at EXCEPT ![h] = r]
        BY <1>3, <2>3 DEF Sleep
    <3>2. r \in Requested(Len(ids)) /\ Carries(r, ids)
        BY <1>1, <2>1, <2>3 DEF Requested, Carries, Steps
    <3>3. ids' = ids
        BY <1>3 DEF Sleep
    <3> HIDE DEF r
    <3>4. at' \in [Tasks -> Requested(Len(ids'))] /\ Carried'
        BY <3>1, <3>2, <3>3, RequestTypes
    <3> QED
        BY <1>3, <3>4 DEF Sleep, TypeOK, lives, Live
  <2> QED
      BY <2>2, <2>3
<1>4. CASE Store(h)
  <2> DEFINE r == [at[h] EXCEPT !.do = "remove"]
  <2>1. at' = [at EXCEPT ![h] = r] /\ ids' = ids
      BY <1>4 DEF Store, Goes
  <2>2. r \in Requested(Len(ids)) /\ Carries(r, ids)
      BY <1>1, <1>4, GoesTypes DEF Store, At, Carries, Steps
  <2> HIDE DEF r
  <2>3. at' \in [Tasks -> Requested(Len(ids'))] /\ Carried'
      BY <2>1, <2>2, RequestTypes
  <2> QED
      BY <1>2, <1>4, <2>3 DEF Store, At, TypeOK, lives, Live
<1>5. CASE Remove(h)
  <2>1. at' \in [Tasks -> Requested(Len(ids'))] /\ Carried'
      BY <1>5, SleptTypes DEF Remove
  <2>2. map' \in [Ids -> 0..Len(ids)] /\ \A s \in Ids : map'[s] \in {map[s], None}
      BY <1>2, <1>5 DEF Remove, At, TypeOK, None
  <2> QED
      BY <1>5, <2>1, <2>2 DEF Remove, TypeOK, Live
<1> QED
    BY <1>3, <1>4, <1>5 DEF Sleeps

\* The steps of a request between its arrival and make_current.
LEMMA AnswersTypes ==
    ASSUME TypeOK, Carried, NEW h \in Handlers,
           \/ Room(h) \/ Ask(h) \/ Previous(h) \/ Beside(h) \/ Load(h)
           \/ Refuse(h) \/ Settle(h) \/ Deleted(h)
    PROVE  TypeOK' /\ Carried'
<1>1. h \in Tasks /\ Len(ids) \in Nat
    BY DEF Tasks, TypeOK
<1>2. at[h] \in Requested(Len(ids)) /\ Carries(at[h], ids)
    BY <1>1 DEF TypeOK, Carried
<1>3. Idle \in Requested(Len(ids)) /\ Carries(Idle, ids)
    BY IdleTypes
<1>4. LiveCopies \subseteq (1..Len(ids))
    BY <1>1 DEF LiveCopies, Live, TypeOK, None
<1>5. ids' = ids
    BY DEF Room, Ask, Previous, Beside, Load, Refuse, Settle, Deleted
<1>6. \E r \in Requested(Len(ids)) : Carries(r, ids) /\ at' = [at EXCEPT ![h] = r]
  <2>1. CASE Returns(h)
      BY <1>3, <2>1 DEF Returns
  <2>2. ASSUME NEW step \in {"previous", "ask", "load", "settle", "insert"}, Goes(h, step)
        PROVE  \E r \in Requested(Len(ids)) :
                  Carries(r, ids) /\ at' = [at EXCEPT ![h] = r]
    <3>1. step \in Steps /\ step \notin {"show", "sleep", "store", "remove", "beside"}
        BY DEF Steps
    <3>2. /\ [at[h] EXCEPT !.do = step] \in Requested(Len(ids))
          /\ Carries([at[h] EXCEPT !.do = step], ids)
        BY <1>1, <3>1, GoesTypes
    <3>3. at' = [at EXCEPT ![h] = [at[h] EXCEPT !.do = step]]
        BY <2>2 DEF Goes
    <3> QED
        BY <3>2, <3>3
  <2>3. ASSUME NEW step \in {"sleep", "beside"}, NEW copy \in 1..Len(ids),
               at' = [at EXCEPT ![h].do = step, ![h].copy = copy]
        PROVE  \E r \in Requested(Len(ids)) :
                  Carries(r, ids) /\ at' = [at EXCEPT ![h] = r]
    <3> DEFINE r == WithCopy(at[h], step, copy)
    <3>1. step \in Steps /\ step # "show" /\ copy \in 0..Len(ids) /\ copy # None
        BY <1>1 DEF Steps, None
    <3>2. r \in Requested(Len(ids)) /\ r.do = step /\ r.copy = copy
        BY <1>1, <1>2, <3>1, CopyTypes
    <3>3. at' = [at EXCEPT ![h] = r]
        BY <2>3 DEF WithCopy
    <3> HIDE DEF r
    <3>4. Carries(r, ids)
        BY <3>1, <3>2 DEF Carries
    <3> QED
        BY <3>2, <3>3, <3>4
  <2>4. CASE Room(h)
      BY <2>2, <2>4 DEF Room, Goes
  <2>5. CASE Ask(h)
      BY <1>4, <2>1, <2>3, <2>5 DEF Ask
  <2>6. CASE Previous(h)
    <3>1. map[current] \in 0..Len(ids)
        BY DEF TypeOK
    <3> QED
        BY <1>1, <2>1, <2>3, <2>6, <3>1 DEF Previous, None
  <2>7. CASE Beside(h)
    <3> DEFINE step == IF at[h].of = "new" THEN "insert" ELSE "load"
               r == WithCopy(at[h], step, None)
    <3>1. step \in Steps /\ step \in {"insert", "load"} /\ None \in 0..Len(ids)
        BY <1>1 DEF Steps, None
    <3> HIDE DEF step
    <3>2. r \in Requested(Len(ids)) /\ r.do = step
        BY <1>1, <1>2, <3>1, CopyTypes
    <3>3. at' = [at EXCEPT ![h] = r]
        BY <2>7 DEF Beside, step, WithCopy
    <3> HIDE DEF r
    <3>4. Carries(r, ids)
        BY <3>1, <3>2 DEF Carries
    <3> QED
        BY <3>2, <3>3, <3>4
  <2>8. CASE Load(h)
      BY <2>2, <2>8 DEF Load
  <2>9. CASE Settle(h)
      BY <2>2, <2>9 DEF Settle
  <2>10. CASE Refuse(h) \/ Deleted(h)
      BY <2>1, <2>10 DEF Refuse, Deleted
  <2> QED
      BY <2>4, <2>5, <2>6, <2>7, <2>8, <2>9, <2>10
<1>7. at' \in [Tasks -> Requested(Len(ids'))] /\ Carried'
    BY <1>1, <1>5, <1>6, RequestTypes
<1>8. map' = map /\ current' = current /\ busy' = busy /\ attached' = attached
    BY DEF Room, Ask, Previous, Beside, Load, Refuse, Settle, Deleted, lives
<1>9. stored' \subseteq Ids /\ kept' \subseteq Ids
  <2>1. at[h].id \in Ids /\ (At(h, "beside") => ids[at[h].copy] \in Ids)
      BY <1>2 DEF Requested, Carries, At, TypeOK, None
  <2> QED
      BY <2>1 DEF TypeOK, Room, Ask, Previous, Beside, Load, Refuse, Settle, Deleted
<1> QED
    BY <1>5, <1>7, <1>8, <1>9 DEF TypeOK, Live

\* Shown as it was found: the copy is still one of that session.
LEMMA ShowTypes ==
    ASSUME TypeOK, Carried, NEW h \in Handlers, Show(h)
    PROVE  TypeOK' /\ Carried'
<1>1. h \in Tasks /\ Len(ids) \in Nat
    BY DEF Tasks, TypeOK
<1>2. at[h] \in Requested(Len(ids)) /\ Carries(at[h], ids)
    BY <1>1 DEF TypeOK, Carried
<1>3. /\ at[h].id \in Ids /\ at[h].copy \in 0..Len(ids)
      /\ ids[at[h].copy] = at[h].id
    BY <1>2 DEF Show, At, Requested, Carries
<1>4. ids' = ids /\ at' \in [Tasks -> Requested(Len(ids'))] /\ Carried'
    BY <1>1, IdleTypes, RequestTypes DEF Show, Returns
<1>5. map' = [map EXCEPT ![at[h].id] = at[h].copy] /\ current' = at[h].id
    BY DEF Show, MakeCurrent
<1>6. map' \in [Ids -> 0..Len(ids)] /\ \A s \in Live' : ids[map'[s]] = s
    BY <1>3, <1>5 DEF TypeOK, Live
<1> QED
    BY <1>3, <1>4, <1>5, <1>6 DEF TypeOK, Show

\* A copy more: what was a copy before still is, and of the same session.
LEMMA InsertTypes ==
    ASSUME TypeOK, Carried, NEW h \in Handlers, Insert(h)
    PROVE  TypeOK' /\ Carried'
<1>1. h \in Tasks /\ Len(ids) \in Nat
    BY DEF Tasks, TypeOK
<1>2. at[h] \in Requested(Len(ids)) /\ at[h].id \in Ids
    BY <1>1 DEF TypeOK, Requested
<1>3. /\ ids' \in Seq(Ids) /\ Len(ids') = Len(ids) + 1
      /\ ids'[Len(ids) + 1] = at[h].id
      /\ \A i \in 1..Len(ids) : ids'[i] = ids[i]
    BY <1>2 DEF Insert, TypeOK
<1>4. /\ map' = [map EXCEPT ![at[h].id] = Len(ids) + 1]
      /\ current' = at[h].id
      /\ at' = [at EXCEPT ![h] = Idle]
    BY <1>3 DEF Insert, MakeCurrent, Returns
<1>5. 0..Len(ids) \subseteq 0..Len(ids') /\ 1..Len(ids) \subseteq 1..Len(ids')
    BY <1>1, <1>3
<1>6. Requested(Len(ids)) \subseteq Requested(Len(ids'))
    BY <1>5 DEF Requested
<1>7. at' \in [Tasks -> Requested(Len(ids'))] /\ Carried'
  <2>1. Carries(Idle, ids')
      BY DEF Carries, Idle, Request
  <2>2. ASSUME NEW k \in Tasks
        PROVE  Carries(at[k], ids')
    <3>1. at[k] \in Requested(Len(ids)) /\ Carries(at[k], ids)
        BY DEF TypeOK, Carried
    <3> QED
        BY <1>1, <1>3, <3>1 DEF Requested, Carries, None
  <2> QED
      BY <1>4, <1>6, <2>1, <2>2, IdleTypes DEF TypeOK, Carried
<1>8. /\ map' \in [Ids -> 0..Len(ids')]
      /\ \A s \in Live' : ids'[map'[s]] = s
  <2>1. map' \in [Ids -> 0..Len(ids')]
      BY <1>1, <1>2, <1>3, <1>4, <1>5 DEF TypeOK
  <2>2. ASSUME NEW s \in Live'
        PROVE  ids'[map'[s]] = s
    <3>1. CASE s = at[h].id
        BY <1>2, <1>3, <1>4, <3>1 DEF TypeOK
    <3>2. CASE s # at[h].id
      <4>1. s \in Live /\ map'[s] = map[s] /\ map[s] \in 1..Len(ids)
          BY <1>1, <1>2, <1>4, <3>2 DEF TypeOK, Live, None
      <4> QED
          BY <1>3, <4>1 DEF TypeOK
    <3> QED
        BY <3>1, <3>2
  <2> QED
      BY <2>1, <2>2
<1>9. stored' \subseteq Ids /\ kept' \subseteq Ids
    BY <1>2 DEF Insert, TypeOK
<1> QED
    BY <1>2, <1>3, <1>4, <1>5, <1>7, <1>8, <1>9 DEF TypeOK, Insert

\* A request that arrives.
LEMMA RequestsTypes ==
    ASSUME TypeOK, Carried, NEW h \in Handlers, Requests(h)
    PROVE  TypeOK' /\ Carried'
<1>1. h \in Tasks /\ Len(ids) \in Nat
    BY DEF Tasks, TypeOK
<1>2. at[h] \in Requested(Len(ids)) /\ First \in Ids
    BY <1>1, LivesAssumption DEF TypeOK
<1>3. UNCHANGED <<lives, ids, busy, attached, stored, kept>>
    BY DEF Requests, New, Resume, EndLive, Delete
<1>4. \E r \in Requested(Len(ids)) : Carries(r, ids) /\ at' = [at EXCEPT ![h] = r]
  <2>1. CASE New(h)
    <3>1. PICK s \in Ids : at' = [at EXCEPT ![h] = Request("room", "new", s, None)]
        BY <2>1 DEF New
    <3>2. Request("room", "new", s, None) \in Requested(Len(ids))
        BY <1>1 DEF Request, Requested, Steps, Kinds, None
    <3>3. Carries(Request("room", "new", s, None), ids)
        BY DEF Carries, Request
    <3> QED
        BY <3>1, <3>2, <3>3
  <2>2. CASE Resume(h)
    <3>1. PICK s \in Ids :
             at' = [at EXCEPT ![h] = IF map[s] # None
                                     THEN Request("show", "show", s, map[s])
                                     ELSE Request("room", "resume", s, None)]
        BY <2>2 DEF Resume
    <3>2. map[s] \in 0..Len(ids) /\ (map[s] # None => ids[map[s]] = s)
        BY DEF TypeOK, Live
    <3>3. /\ Request("show", "show", s, map[s]) \in Requested(Len(ids))
          /\ Request("room", "resume", s, None) \in Requested(Len(ids))
        BY <1>1, <3>2 DEF Request, Requested, Steps, Kinds, None
    <3>4. /\ map[s] # None => Carries(Request("show", "show", s, map[s]), ids)
          /\ Carries(Request("room", "resume", s, None), ids)
        BY <3>2 DEF Carries, Request
    <3> QED
        BY <3>1, <3>3, <3>4
  <2>3. CASE EndLive(h)
    <3>1. PICK s \in Live :
             at' = [at EXCEPT ![h] = Request("sleep", "end", First, map[s])]
        BY <2>3 DEF EndLive
    <3>2. map[s] \in 0..Len(ids) /\ map[s] # None
        BY DEF TypeOK, Live
    <3>3. Request("sleep", "end", First, map[s]) \in Requested(Len(ids))
        BY <1>2, <3>2 DEF Request, Requested, Steps, Kinds
    <3>4. Carries(Request("sleep", "end", First, map[s]), ids)
        BY <3>2 DEF Carries, Request
    <3> QED
        BY <3>1, <3>3, <3>4
  <2>4. CASE Delete(h)
    <3>1. PICK s \in stored :
             at' = [at EXCEPT ![h] = Request("delete", "delete", s, None)]
        BY <2>4 DEF Delete
    <3>2. s \in Ids
        BY DEF TypeOK
    <3>3. Request("delete", "delete", s, None) \in Requested(Len(ids))
        BY <1>1, <3>2 DEF Request, Requested, Steps, Kinds, None
    <3>4. Carries(Request("delete", "delete", s, None), ids)
        BY DEF Carries, Request
    <3> QED
        BY <3>1, <3>3, <3>4
  <2> QED
      BY <2>1, <2>2, <2>3, <2>4 DEF Requests
<1>5. ids' = ids
    BY <1>3
<1>6. at' \in [Tasks -> Requested(Len(ids'))] /\ Carried'
    BY <1>1, <1>4, <1>5, RequestTypes
<1> QED
    BY <1>3, <1>6 DEF TypeOK, lives, Live

\* The idle sleeper's tick, and its look at one session.
LEMMA SleeperTypes ==
    ASSUME TypeOK, Carried, Tick \/ Visit
    PROVE  TypeOK' /\ Carried'
<1>1. Sleeper \in Tasks /\ Len(ids) \in Nat
    BY DEF Tasks, TypeOK
<1> DEFINE x == at[Sleeper]
<1>2. x \in Requested(Len(ids)) /\ x.ask \subseteq 1..Len(ids) /\ x.do = "visit"
    BY <1>1 DEF TypeOK, Requested, Tick, Visit, At
<1>3. LiveCopies \subseteq 1..Len(ids)
    BY <1>1 DEF LiveCopies, Live, TypeOK, None
<1>4. \A ask \in SUBSET (1..Len(ids)) :
          LET y == [x EXCEPT !.ask = ask]
          IN  y \in Requested(Len(ids)) /\ y.do = "visit" /\ y.ask = ask
    BY <1>2 DEF Requested
<1>5. \E r \in Requested(Len(ids)) : Carries(r, ids) /\ at' = [at EXCEPT ![Sleeper] = r]
  <2>1. ASSUME NEW ask \in SUBSET (1..Len(ids)), at' = [at EXCEPT ![Sleeper].ask = ask]
        PROVE  \E r \in Requested(Len(ids)) :
                  Carries(r, ids) /\ at' = [at EXCEPT ![Sleeper] = r]
    <3> DEFINE r == [x EXCEPT !.ask = ask]
    <3>1. r \in Requested(Len(ids)) /\ r.do = "visit"
        BY <1>4
    <3>2. at' = [at EXCEPT ![Sleeper] = r]
        BY <2>1
    <3> HIDE DEF r
    <3>3. Carries(r, ids)
        BY <3>1 DEF Carries
    <3> QED
        BY <3>1, <3>2, <3>3
  <2>2. CASE Tick
      BY <1>3, <2>1, <2>2 DEF Tick
  <2>3. CASE Visit
    <3>1. PICK copy \in x.ask :
             at' = IF MaySleep(copy)
                   THEN [at EXCEPT ![Sleeper].do = "sleep", ![Sleeper].copy = copy,
                                   ![Sleeper].ask = @ \ {copy}]
                   ELSE [at EXCEPT ![Sleeper].ask = @ \ {copy}]
        BY <2>3 DEF Visit
    <3>2. CASE MaySleep(copy)
      <4> DEFINE ask == x.ask \ {copy}
                 z == WithCopy(x, "sleep", copy)
                 r == [z EXCEPT !.ask = ask]
      <4>1. "sleep" \in Steps /\ copy \in 0..Len(ids) /\ copy # None
          BY <1>1, <1>2 DEF Steps, None
      <4>2. z \in Requested(Len(ids)) /\ z.do = "sleep" /\ z.copy = copy
          BY <1>1, <1>2, <4>1, CopyTypes
      <4>3. at' = [at EXCEPT ![Sleeper] = r]
        <5>1. x.ask = z.ask
            BY <1>2 DEF WithCopy, Requested
        <5> QED
            BY <3>1, <3>2, <5>1 DEF WithCopy
      <4> HIDE DEF z
      <4>4. r \in Requested(Len(ids)) /\ r.do = "sleep" /\ r.copy = copy
          BY <1>2, <4>2 DEF Requested
      <4> HIDE DEF r
      <4>5. Carries(r, ids)
          BY <4>1, <4>4 DEF Carries
      <4> QED
          BY <4>3, <4>4, <4>5
    <3>3. CASE ~MaySleep(copy)
      <4> DEFINE ask == x.ask \ {copy}
      <4>1. ask \in SUBSET (1..Len(ids))
          BY <1>2
      <4>2. at' = [at EXCEPT ![Sleeper].ask = ask]
          BY <3>1, <3>3
      <4> HIDE DEF ask
      <4> QED
          BY <2>1, <4>1, <4>2
    <3> QED
        BY <3>2, <3>3
  <2> QED
      BY <2>2, <2>3
<1>6. UNCHANGED <<lives, ids, busy, attached, stored, kept>>
    BY DEF Tick, Visit
<1>7. ids' = ids
    BY <1>6
<1>8. at' \in [Tasks -> Requested(Len(ids'))] /\ Carried'
    BY <1>1, <1>5, <1>7, RequestTypes
<1> QED
    BY <1>6, <1>8 DEF TypeOK, lives, Live

\* Sockets and turns: they hold copies that were made.
LEMMA ClientsTypes ==
    ASSUME TypeOK, Carried,
           \/ \E c \in Clients : Attach(c) \/ Detach(c) \/ Prompt(c)
           \/ \E copy \in Copies : TurnEnds(copy)
    PROVE  TypeOK' /\ Carried'
<1>1. UNCHANGED <<lives, ids, kept, at>>
    BY DEF Attach, Detach, Prompt, TurnEnds
<1>2. /\ Len(ids) \in Nat /\ ids \in [1..Len(ids) -> Ids] /\ None \in 0..Len(ids)
      /\ attached \in [Clients -> 0..Len(ids)] /\ map \in [Ids -> 0..Len(ids)]
      /\ busy \subseteq 1..Len(ids) /\ stored \subseteq Ids
      /\ Live \subseteq Ids /\ current \in Ids
    BY DEF TypeOK, None, Live
<1>3. /\ attached' \in [Clients -> 0..Len(ids)]
      /\ busy' \subseteq 1..Len(ids)
      /\ stored' \subseteq Ids
  <2>1. ASSUME NEW c \in Clients, Attach(c)
        PROVE  /\ attached' \in [Clients -> 0..Len(ids)]
               /\ busy' \subseteq 1..Len(ids)
               /\ stored' \subseteq Ids
    <3>1. \E copy \in 0..Len(ids) : attached' = [attached EXCEPT ![c] = copy]
        BY <1>2, <2>1 DEF Attach
    <3> QED
        BY <1>2, <2>1, <3>1 DEF Attach
  <2>2. ASSUME NEW c \in Clients, Detach(c)
        PROVE  /\ attached' \in [Clients -> 0..Len(ids)]
               /\ busy' \subseteq 1..Len(ids)
               /\ stored' \subseteq Ids
      BY <1>2, <2>2 DEF Detach
  <2>3. ASSUME NEW c \in Clients, Prompt(c)
        PROVE  /\ attached' \in [Clients -> 0..Len(ids)]
               /\ busy' \subseteq 1..Len(ids)
               /\ stored' \subseteq Ids
    <3>1. attached[c] \in 1..Len(ids)
        BY <1>2, <2>3 DEF Prompt, None
    <3> QED
        BY <1>2, <2>3, <3>1 DEF Prompt
  <2>4. ASSUME NEW copy \in Copies, TurnEnds(copy)
        PROVE  /\ attached' \in [Clients -> 0..Len(ids)]
               /\ busy' \subseteq 1..Len(ids)
               /\ stored' \subseteq Ids
    <3>1. ids[copy] \in Ids
        BY <1>2, <2>4 DEF TurnEnds
    <3> QED
        BY <1>2, <2>4, <3>1 DEF TurnEnds
  <2> QED
      BY <2>1, <2>2, <2>3, <2>4
<1> QED
    BY <1>1, <1>3 DEF TypeOK, Carried, lives, Live

\* Every step keeps the types.
LEMMA TypesStep ==
    ASSUME TypeOK, Carried, [Next]_vars
    PROVE  TypeOK' /\ Carried'
<1>1. ASSUME NEW h \in Handlers, Requests(h) \/ Answers(h)
      PROVE  TypeOK' /\ Carried'
  <2>1. h \in Tasks
      BY DEF Tasks
  <2>2. CASE Requests(h)
      BY <2>2, RequestsTypes
  <2>3. CASE Show(h)
      BY <2>3, ShowTypes
  <2>4. CASE Insert(h)
      BY <2>4, InsertTypes
  <2>5. CASE Sleeps(h)
      BY <2>1, <2>5, SleepsTypes
  <2>6. CASE \/ Room(h) \/ Ask(h) \/ Previous(h) \/ Beside(h) \/ Load(h)
             \/ Refuse(h) \/ Settle(h) \/ Deleted(h)
      BY <2>6, AnswersTypes
  <2> QED
      BY <1>1, <2>2, <2>3, <2>4, <2>5, <2>6 DEF Answers
<1>2. CASE SleeperNext
    BY <1>2, SleeperTypes, SleepsTypes DEF SleeperNext, Tasks
<1>3. CASE \/ \E c \in Clients : Attach(c) \/ Detach(c) \/ Prompt(c)
           \/ \E copy \in Copies : TurnEnds(copy)
    BY <1>3, ClientsTypes
<1>4. CASE UNCHANGED vars
    BY <1>4 DEF vars, lives, TypeOK, Carried, Live
<1> QED
    BY <1>1, <1>2, <1>3, <1>4 DEF Next

LEMMA TypesInit ==
    ASSUME Init
    PROVE  TypeOK /\ Carried
<1>1. First \in Ids /\ Old \subseteq Ids
    BY LivesAssumption
<1>2. ids \in Seq(Ids) /\ Len(ids) = 1 /\ ids[1] = First
    BY <1>1 DEF Init
<1>3. /\ at \in [Tasks -> Requested(Len(ids))]
      /\ Carried
    BY <1>1, <1>2 DEF Init, Idle, Request, Requested, Steps, Kinds, None, Carried, Carries
<1> QED
    BY <1>1, <1>2, <1>3 DEF Init, TypeOK, Live, None

\* The variables keep their types, and what the map has for a session is a
\* copy of that session, whatever the requests, the sleeper and the sockets do.
THEOREM LivesTypesHold == Spec => []TypeOK
<1>1. Init => TypeOK /\ Carried
    BY TypesInit
<1>2. TypeOK /\ Carried /\ [Next]_vars => (TypeOK /\ Carried)'
    BY TypesStep
<1> QED
    BY <1>1, <1>2, PTL DEF Spec

-----------------------------------------------------------------------------
\* Where no session comes that was not live or on its way, the room is kept.
LEMMA NothingComes ==
    ASSUME TypeOK, RoomIsKept, (Live \cup Coming)' \subseteq Live \cup Coming
    PROVE  RoomIsKept'
<1>1. Bringing \subseteq Tasks /\ \A h \in Tasks : at[h].id \in Ids
    BY DEF Bringing, Tasks, TypeOK, Requested
<1>2. Live \cup Coming \subseteq Ids
    BY <1>1 DEF Live, Coming
<1>3. IsFiniteSet(Live \cup Coming)
    BY <1>2, LivesAssumption, FS_Subset
<1>4. /\ Cardinality((Live \cup Coming)') <= Cardinality(Live \cup Coming)
      /\ Cardinality((Live \cup Coming)') \in Nat
      /\ Cardinality(Live \cup Coming) \in Nat
    BY <1>3, FS_Subset, FS_CardinalityType
<1>5. Cardinality(Handlers) \in Nat /\ MaxLive \in Nat
    BY LivesAssumption, FS_CardinalityType
<1> QED
    BY <1>4, <1>5 DEF RoomIsKept

\* A request counts fewer than max-live: with it, and with every other request
\* that may be on its way, there are fewer than max-live and all the requests.
LEMMA RoomWasFound ==
    ASSUME TypeOK, TypeOK', HasRoom, map' = map
    PROVE  RoomIsKept'
<1>1. Live' = Live
    BY DEF Live
<1>2. Live \subseteq Ids
    BY DEF Live
<1>3. IsFiniteSet(Live) /\ Cardinality(Live) \in Nat
    BY <1>2, LivesAssumption, FS_Subset, FS_CardinalityType
<1>4. IsFiniteSet(Bringing') /\ Cardinality(Bringing') <= Cardinality(Handlers)
    BY LivesAssumption, FS_Subset DEF Bringing
<1>5. IsFiniteSet(Coming') /\ Cardinality(Coming') <= Cardinality(Bringing')
  <2> DEFINE f == [h \in Bringing' |-> at'[h].id]
  <2>1. f \in Surjection(Bringing', Coming')
      BY DEF Surjection, Coming
  <2> HIDE DEF f
  <2> QED
      BY <1>4, <2>1, FS_Surjection
<1>6. /\ Cardinality(Coming') \in Nat /\ Cardinality(Bringing') \in Nat
      /\ Cardinality(Handlers) \in Nat
    BY <1>4, <1>5, LivesAssumption, FS_CardinalityType
<1>7. Cardinality(Live \cup Coming') <= Cardinality(Live) + Cardinality(Coming')
  <2>1. IsFiniteSet(Live \cap Coming') /\ Cardinality(Live \cap Coming') \in Nat
      BY <1>3, FS_Subset, FS_CardinalityType
  <2>2. Cardinality(Live \cup Coming') =
           Cardinality(Live) + Cardinality(Coming') - Cardinality(Live \cap Coming')
      BY <1>3, <1>5, FS_Union
  <2> QED
      BY <1>3, <1>6, <2>1, <2>2
<1>8. Cardinality(Live \cup Coming') \in Nat
    BY <1>3, <1>5, FS_Union, FS_CardinalityType
<1>9. Cardinality(Live) + 1 <= MaxLive /\ MaxLive \in Nat
    BY <1>3, LivesAssumption DEF HasRoom
<1>10. Cardinality(Live \cup Coming') <= MaxLive + Cardinality(Handlers) - 1
  <2>1. Cardinality(Coming') <= Cardinality(Handlers)
      BY <1>4, <1>5, <1>6
  <2> QED
      BY <1>3, <1>6, <1>7, <1>8, <1>9, <2>1
<1> QED
    BY <1>1, <1>10 DEF RoomIsKept

\* A request that is written over comes with nothing, where what it is written
\* over with brings only what was live or on its way.
LEMMA ComesWithNothing ==
    ASSUME TypeOK, NEW h \in Tasks, NEW r, at' = [at EXCEPT ![h] = r],
           \/ h \notin Handlers
           \/ r.do \notin {"show", "previous", "beside", "load", "settle", "insert"}
           \/ r.id \in Live \cup Coming
    PROVE  Coming' \subseteq Live \cup Coming
<1> SUFFICES ASSUME NEW s \in Coming'
             PROVE  s \in Live \cup Coming
    OBVIOUS
<1>1. PICK k \in Bringing' : s = at'[k].id
    BY DEF Coming
<1>2. k \in Handlers /\ k \in Tasks
    BY <1>1 DEF Bringing, Tasks
<1>3. CASE k = h
    BY <1>1, <1>2, <1>3 DEF TypeOK, Bringing
<1>4. CASE k # h
    BY <1>1, <1>2, <1>4 DEF TypeOK, Bringing, Coming
<1> QED
    BY <1>3, <1>4

\* Putting a session to sleep brings none: wherever it goes back to, the request
\* has its count still before it.
LEMMA SleepsBringsNothing ==
    ASSUME TypeOK, Carried, RoomIsKept, NEW h \in Tasks, Sleeps(h)
    PROVE  RoomIsKept'
<1>1. at[h] \in Requested(Len(ids)) /\ Len(ids) \in Nat
    BY DEF TypeOK
<1>2. Live' \subseteq Live
    BY DEF Sleeps, Sleep, Store, Remove, lives, Live, TypeOK, None
<1>3. ASSUME NEW step \in {"room", "visit", "store"}, NEW copy \in 0..Len(ids),
             at' = [at EXCEPT ![h] = WithCopy(at[h], step, copy)]
      PROVE  Coming' \subseteq Live \cup Coming
  <2>1. step \in Steps
      BY DEF Steps
  <2>2. WithCopy(at[h], step, copy).do = step
      BY <1>1, <2>1, CopyTypes
  <2> QED
      BY <1>3, <2>2, ComesWithNothing
<1>4. ASSUME Slept(h)
      PROVE  Coming' \subseteq Live \cup Coming
  <2>1. \/ at' = [at EXCEPT ![h] = Idle]
        \/ at' = [at EXCEPT ![h] = WithCopy(at[h], "room", None)]
        \/ at' = [at EXCEPT ![h] = WithCopy(at[h], "visit", None)]
      BY <1>4 DEF Slept, WithCopy
  <2>2. CASE at' = [at EXCEPT ![h] = Idle]
      BY <2>2, ComesWithNothing DEF Idle, Request
  <2>3. None \in 0..Len(ids)
      BY <1>1 DEF None
  <2> QED
      BY <1>3, <2>1, <2>2, <2>3
<1>5. Coming' \subseteq Live \cup Coming
  <2>1. CASE Sleep(h)
    <3> DEFINE now == map[ids[at[h].copy]]
    <3>1. CASE now = None \/ ids[at[h].copy] = current
        BY <1>4, <2>1, <3>1 DEF Sleep
    <3>2. CASE ~(now = None \/ ids[at[h].copy] = current)
      <4>1. now \in 0..Len(ids)
          BY <1>1, <2>1 DEF Sleep, At, Carried, Carries, Requested, TypeOK, None
      <4>2. at' = [at EXCEPT ![h] = WithCopy(at[h], "store", now)]
          BY <2>1, <3>2 DEF Sleep, WithCopy
      <4> HIDE DEF now
      <4> QED
          BY <1>3, <4>1, <4>2
    <3> QED
        BY <3>1, <3>2
  <2>2. CASE Store(h)
    <3> DEFINE r == [at[h] EXCEPT !.do = "remove"]
    <3>1. at' = [at EXCEPT ![h] = r] /\ r.do = "remove"
        BY <1>1, <2>2 DEF Store, Goes, Requested
    <3> HIDE DEF r
    <3> QED
        BY <3>1, ComesWithNothing
  <2>3. CASE Remove(h)
      BY <1>4, <2>3 DEF Remove
  <2> QED
      BY <2>1, <2>2, <2>3 DEF Sleeps
<1> QED
    BY <1>2, <1>5, NothingComes

\* Every step keeps the room.
LEMMA RoomStep ==
    ASSUME TypeOK, Carried, RoomIsKept, [Next]_vars
    PROVE  RoomIsKept'
<1>1. TypeOK'
    BY TypesStep
<1>2. ASSUME NEW h \in Handlers, Requests(h) \/ Answers(h)
      PROVE  RoomIsKept'
  <2>1. h \in Tasks /\ at[h] \in Requested(Len(ids))
      BY DEF Tasks, TypeOK
  <2>2. CASE New(h) \/ Resume(h)
    <3>1. map' = map
        BY <2>2 DEF New, Resume, lives
    <3>2. \E s \in Ids : \/ at' = [at EXCEPT ![h] = Request("room", "new", s, None)]
                         \/ at' = [at EXCEPT ![h] = Request("room", "resume", s, None)]
                         \/ /\ s \in Live
                            /\ at' = [at EXCEPT ![h] = Request("show", "show", s, map[s])]
        BY <2>2 DEF New, Resume, Live
    <3>3. Coming' \subseteq Live \cup Coming
        BY <2>1, <3>2, ComesWithNothing DEF Request
    <3> QED
        BY <3>1, <3>3, NothingComes DEF Live
  <2>3. CASE EndLive(h) \/ Delete(h)
    <3>1. map' = map
        BY <2>3 DEF EndLive, Delete, lives
    <3>2. \E s : \/ at' = [at EXCEPT ![h] = Request("sleep", "end", First, map[s])]
                 \/ at' = [at EXCEPT ![h] = Request("delete", "delete", s, None)]
        BY <2>3 DEF EndLive, Delete
    <3>3. Coming' \subseteq Live \cup Coming
        BY <2>1, <3>2, ComesWithNothing DEF Request
    <3> QED
        BY <3>1, <3>3, NothingComes DEF Live
  <2>4. CASE Show(h) \/ Insert(h)
    <3>1. at' = [at EXCEPT ![h] = Idle]
        BY <2>4 DEF Show, Insert, Returns
    <3>2. Coming' \subseteq Live \cup Coming
        BY <2>1, <3>1, ComesWithNothing DEF Idle, Request
    <3>3. at[h].id \in Coming
        BY <2>4 DEF Show, Insert, At, Coming, Bringing
    <3>4. Live' \subseteq Live \cup {at[h].id}
        BY <2>4 DEF Show, Insert, MakeCurrent, Live, TypeOK
    <3> QED
        BY <3>2, <3>3, <3>4, NothingComes
  <2>5. CASE Room(h)
    <3>1. map' = map
        BY <2>5 DEF Room, lives
    <3>2. CASE HasRoom
        BY <1>1, <3>1, <3>2, RoomWasFound
    <3>3. CASE ~HasRoom
      <4> DEFINE r == [at[h] EXCEPT !.do = "ask"]
      <4>1. at' = [at EXCEPT ![h] = r]
          BY <2>5, <3>3 DEF Room
      <4>2. r.do = "ask"
          BY <2>1 DEF Requested
      <4> HIDE DEF r
      <4>3. Coming' \subseteq Live \cup Coming
          BY <2>1, <4>1, <4>2, ComesWithNothing
      <4> QED
          BY <3>1, <4>3, NothingComes DEF Live
    <3> QED
        BY <3>2, <3>3
  <2>6. CASE Ask(h)
    <3>1. map' = map
        BY <2>6 DEF Ask, lives
    <3>2. Coming' \subseteq Live \cup Coming
      <4>1. CASE Returns(h)
          BY <2>1, <4>1, ComesWithNothing DEF Returns, Idle, Request
      <4>2. ASSUME NEW copy \in LiveCopies,
                   at' = [at EXCEPT ![h].do = "sleep", ![h].copy = copy]
            PROVE  Coming' \subseteq Live \cup Coming
        <5> DEFINE r == WithCopy(at[h], "sleep", copy)
        <5>1. Len(ids) \in Nat /\ copy \in 0..Len(ids) /\ "sleep" \in Steps
            BY DEF TypeOK, LiveCopies, Live, Steps
        <5>2. r.do = "sleep"
            BY <2>1, <5>1, CopyTypes
        <5>3. at' = [at EXCEPT ![h] = r]
            BY <4>2 DEF WithCopy
        <5> HIDE DEF r
        <5> QED
            BY <2>1, <5>2, <5>3, ComesWithNothing
      <4> QED
          BY <2>6, <4>1, <4>2 DEF Ask
    <3> QED
        BY <3>1, <3>2, NothingComes DEF Live
  <2>7. CASE Previous(h) \/ Beside(h) \/ Load(h) \/ Settle(h)
    <3>1. map' = map
        BY <2>7 DEF Previous, Beside, Load, Settle, lives
    <3>2. at[h].id \in Coming
        BY <2>7 DEF Previous, Beside, Load, Settle, At, Coming, Bringing
    <3>3. Coming' \subseteq Live \cup Coming
      <4>1. CASE Returns(h)
          BY <2>1, <4>1, ComesWithNothing DEF Returns, Idle, Request
      <4>2. ASSUME NEW step \in {"settle", "insert"}, Goes(h, step)
            PROVE  Coming' \subseteq Live \cup Coming
        <5> DEFINE r == [at[h] EXCEPT !.do = step]
        <5>1. r.id = at[h].id /\ at' = [at EXCEPT ![h] = r]
            BY <2>1, <4>2 DEF Requested, Goes
        <5> HIDE DEF r
        <5> QED
            BY <2>1, <3>2, <5>1, ComesWithNothing
      <4>3. ASSUME NEW step \in Steps, NEW copy \in 0..Len(ids),
                   at' = [at EXCEPT ![h].do = step, ![h].copy = copy]
            PROVE  Coming' \subseteq Live \cup Coming
        <5> DEFINE r == WithCopy(at[h], step, copy)
        <5>1. Len(ids) \in Nat
            BY DEF TypeOK
        <5>2. r.id = at[h].id
            BY <2>1, <5>1, CopyTypes
        <5>3. at' = [at EXCEPT ![h] = r]
            BY <4>3 DEF WithCopy
        <5> HIDE DEF r
        <5> QED
            BY <2>1, <3>2, <5>2, <5>3, ComesWithNothing
      <4>4. CASE Previous(h)
          BY <4>1, <4>3, <4>4 DEF Previous, TypeOK, Steps
      <4>5. CASE Beside(h)
        <5> DEFINE step == IF at[h].of = "new" THEN "insert" ELSE "load"
        <5>1. step \in Steps /\ None \in 0..Len(ids)
            BY DEF Steps, None, TypeOK
        <5>2. at' = [at EXCEPT ![h].do = step, ![h].copy = None]
            BY <4>5 DEF Beside
        <5> HIDE DEF step
        <5> QED
            BY <4>3, <5>1, <5>2
      <4>6. CASE Load(h) \/ Settle(h)
          BY <4>2, <4>6 DEF Load, Settle
      <4> QED
          BY <2>7, <4>4, <4>5, <4>6
    <3> QED
        BY <3>1, <3>3, NothingComes DEF Live
  <2>8. CASE Refuse(h) \/ Deleted(h)
    <3>1. map' = map /\ at' = [at EXCEPT ![h] = Idle]
        BY <2>8 DEF Refuse, Deleted, Returns, lives
    <3>2. Coming' \subseteq Live \cup Coming
        BY <2>1, <3>1, ComesWithNothing DEF Idle, Request
    <3> QED
        BY <3>1, <3>2, NothingComes DEF Live
  <2>9. CASE Sleeps(h)
      BY <2>1, <2>9, SleepsBringsNothing
  <2> QED
      BY <1>2, <2>2, <2>3, <2>4, <2>5, <2>6, <2>7, <2>8, <2>9 DEF Requests, Answers
<1>3. CASE SleeperNext
  <2>1. Sleeper \in Tasks /\ Sleeper \notin Handlers
      BY LivesAssumption DEF Tasks
  <2>2. CASE Sleeps(Sleeper)
      BY <2>1, <2>2, SleepsBringsNothing
  <2>3. CASE Tick \/ Visit
    <3>1. map' = map /\ \E r : at' = [at EXCEPT ![Sleeper] = r]
        BY <2>3 DEF Tick, Visit, lives
    <3>2. Coming' \subseteq Live \cup Coming
        BY <2>1, <3>1, ComesWithNothing
    <3> QED
        BY <3>1, <3>2, NothingComes DEF Live
  <2> QED
      BY <1>3, <2>2, <2>3 DEF SleeperNext
<1>4. CASE \/ \E c \in Clients : Attach(c) \/ Detach(c) \/ Prompt(c)
           \/ \E copy \in Copies : TurnEnds(copy)
           \/ UNCHANGED vars
  <2>1. map' = map /\ at' = at
      BY <1>4 DEF Attach, Detach, Prompt, TurnEnds, vars, lives
  <2> QED
      BY <2>1 DEF RoomIsKept, Live, Coming, Bringing
<1> QED
    BY <1>2, <1>3, <1>4 DEF Next

LEMMA RoomInit ==
    ASSUME Init
    PROVE  RoomIsKept
<1>1. Live = {First} /\ Coming = {}
  <2>1. Live = {First}
      BY LivesAssumption DEF Init, Live, None
  <2>2. \A h \in Handlers : at[h].do = "idle"
      BY LivesAssumption DEF Init, Tasks, Idle, Request
  <2>3. Bringing = {}
      BY <2>2 DEF Bringing
  <2> QED
      BY <2>1, <2>3 DEF Coming
<1>2. Cardinality(Live \cup Coming) = 1
    BY <1>1, FS_Singleton
<1>3. Cardinality(Handlers) \in Nat /\ Cardinality(Handlers) # 0
    BY LivesAssumption, FS_CardinalityType, FS_EmptySet
<1> QED
    BY <1>2, <1>3, LivesAssumption DEF RoomIsKept

\* However many requests look for room at the same time, max-live is exceeded
\* by at most all of them but one.
THEOREM LiveStaysBounded == Spec => []LiveIsBounded
<1>1. Init => LivesInv
    BY TypesInit, RoomInit DEF LivesInv
<1>2. LivesInv /\ [Next]_vars => LivesInv'
    BY TypesStep, RoomStep DEF LivesInv
<1>3. LivesInv => LiveIsBounded
  <2> SUFFICES ASSUME LivesInv
               PROVE  LiveIsBounded
      OBVIOUS
  <2>1. Live \cup Coming \subseteq Ids
    <3>1. Bringing \subseteq Tasks /\ \A h \in Tasks : at[h].id \in Ids
        BY DEF LivesInv, Bringing, Tasks, TypeOK, Requested
    <3> QED
        BY <3>1 DEF Live, Coming
  <2>2. IsFiniteSet(Live \cup Coming)
      BY <2>1, LivesAssumption, FS_Subset
  <2>3. /\ Cardinality(Live) <= Cardinality(Live \cup Coming)
        /\ IsFiniteSet(Live)
      BY <2>2, FS_Subset
  <2>4. /\ Cardinality(Live) \in Nat /\ Cardinality(Live \cup Coming) \in Nat
        /\ Cardinality(Handlers) \in Nat /\ MaxLive \in Nat
      BY <2>2, <2>3, LivesAssumption, FS_CardinalityType
  <2> QED
      BY <2>3, <2>4 DEF LivesInv, RoomIsKept, LiveIsBounded
<1> QED
    BY <1>1, <1>2, <1>3, PTL DEF Spec

-----------------------------------------------------------------------------
(***************************************************************************)
(* No session is forgotten.  What is about to leave the map has a row, or    *)
(* nobody keeps it any more: it was deleted since.  It stays so because a     *)
(* name that was ever a session's is never given to a new one, for which it   *)
(* must be said where the names of the requests come from.                   *)
(***************************************************************************)
Known(copies) == Old \cup Range(copies)

Placed(request, copies, rows, ours) ==
    /\ request.of = "new" => request.id \notin Known(copies)
    /\ request.do \in {"load", "settle"} => request.of # "new"
    /\ request.do = "settle" \/ (request.do = "insert" /\ request.of # "new") =>
          request.id \in Known(copies)
    /\ request.do = "remove" =>
          copies[request.copy] \in rows \/ copies[request.copy] \notin ours

NamesDiffer ==
    \A h, k \in Handlers :
        at[h].of = "new" /\ at[k].of = "new" /\ at[h].id = at[k].id => h = k

SleeperMakesNone == at[Sleeper].of # "new"

Keeping ==
    /\ \A h \in Tasks : Placed(at[h], ids, stored, kept)
    /\ NamesDiffer /\ SleeperMakesNone
    /\ stored \subseteq Known(ids) /\ kept \subseteq Known(ids)
    /\ NoSessionIsForgotten

KeepsInv == TypeOK /\ Carried /\ Keeping

\* What an operation does to the rows: it writes some of known sessions, or it
\* takes one session's away and the session with it.
RowsMove ==
    \/ stored \subseteq stored' /\ stored' \subseteq Known(ids) /\ kept' = kept
    \/ \E s : stored' = stored \ {s} /\ kept' = kept \ {s}

\* A request that is written over, while no copy is made: every other request
\* stays placed, and it is enough to look at the new one.
LEMMA OthersStayPlaced ==
    ASSUME TypeOK, Keeping, NEW h \in Tasks, NEW r, at' = [at EXCEPT ![h] = r],
           ids' = ids, Live \subseteq Live', RowsMove,
           Placed(r, ids, stored', kept'),
           \/ r.of # "new"
           \/ r.of = at[h].of /\ r.id = at[h].id
           \/ h \in Handlers /\ r.id \notin Named
    PROVE  Keeping'
<1>1. \A k \in Tasks : Placed(at'[k], ids, stored', kept')
  <2> SUFFICES ASSUME NEW k \in Tasks
               PROVE  Placed(at'[k], ids, stored', kept')
      OBVIOUS
  <2>1. CASE k = h
      BY <2>1 DEF TypeOK
  <2>2. CASE k # h
    <3>1. at'[k] = at[k] /\ Placed(at[k], ids, stored, kept)
        BY <2>2 DEF TypeOK, Keeping
    <3>2. \A s : s \in stored \/ s \notin kept => s \in stored' \/ s \notin kept'
        BY DEF RowsMove
    <3> QED
        BY <3>1, <3>2 DEF Placed
  <2> QED
      BY <2>1, <2>2
<1>2. NamesDiffer'
  <2> SUFFICES ASSUME NEW j \in Handlers, NEW k \in Handlers,
                      at'[j].of = "new", at'[k].of = "new", at'[j].id = at'[k].id
               PROVE  j = k
      BY DEF NamesDiffer
  <2>1. \A i \in Handlers : at'[i] = IF i = h THEN r ELSE at[i]
      BY DEF TypeOK, Tasks
  <2>2. \A i \in Handlers : at[i].of = "new" => at[i].id \in Named
      BY DEF Named
  <2> QED
      BY <2>1, <2>2 DEF Keeping, NamesDiffer
<1>3. stored' \subseteq Known(ids) /\ kept' \subseteq Known(ids) /\ NoSessionIsForgotten'
    BY DEF Keeping, RowsMove, NoSessionIsForgotten
<1>4. SleeperMakesNone'
    BY LivesAssumption DEF Keeping, SleeperMakesNone, TypeOK, Tasks
<1> QED
    BY <1>1, <1>2, <1>3, <1>4 DEF Keeping

\* A request that is answered leaves nothing to be said of it.
LEMMA IdleIsPlaced ==
    ASSUME NEW copies, NEW rows, NEW ours
    PROVE  Placed(Idle, copies, rows, ours) /\ Idle.of # "new"
BY DEF Placed, Idle, Request

\* The sessions that copies are of are known.
LEMMA CopiesAreKnown ==
    ASSUME TypeOK, NEW n \in 1..Len(ids)
    PROVE  ids[n] \in Known(ids)
BY DEF TypeOK, Known, Range

\* Putting a session to sleep forgets none: its row is written before it leaves
\* the map, and whoever takes the row away in between takes the session too.
LEMMA SleepsForgetsNone ==
    ASSUME TypeOK, Carried, Keeping, NEW h \in Tasks, Sleeps(h)
    PROVE  Keeping'
<1>1. /\ at[h] \in Requested(Len(ids)) /\ Carries(at[h], ids)
      /\ Placed(at[h], ids, stored, kept) /\ Len(ids) \in Nat
    BY DEF TypeOK, Carried, Keeping
<1>2. at[h].copy \in 1..Len(ids) /\ ids[at[h].copy] \in Known(ids)
  <2>1. at[h].copy \in 1..Len(ids)
      BY <1>1 DEF Sleeps, Sleep, Store, Remove, At, Carries, Requested, None
  <2> QED
      BY <2>1, CopiesAreKnown
<1>3. ASSUME NEW step \in {"room", "visit", "store"}, NEW copy \in 0..Len(ids)
      PROVE  /\ Placed(WithCopy(at[h], step, copy), ids, stored, kept)
             /\ WithCopy(at[h], step, copy).of = at[h].of
             /\ WithCopy(at[h], step, copy).id = at[h].id
  <2>1. step \in Steps
      BY DEF Steps
  <2>2. /\ WithCopy(at[h], step, copy).do = step
        /\ WithCopy(at[h], step, copy).of = at[h].of
        /\ WithCopy(at[h], step, copy).id = at[h].id
      BY <1>1, <2>1, CopyTypes
  <2> QED
      BY <1>1, <2>2 DEF Placed
<1>4. ASSUME Slept(h)
      PROVE  \E r : /\ at' = [at EXCEPT ![h] = r]
                    /\ Placed(r, ids, stored, kept)
                    /\ r.of # "new" \/ (r.of = at[h].of /\ r.id = at[h].id)
  <2>1. \/ at' = [at EXCEPT ![h] = Idle]
        \/ at' = [at EXCEPT ![h] = WithCopy(at[h], "room", None)]
        \/ at' = [at EXCEPT ![h] = WithCopy(at[h], "visit", None)]
      BY <1>4 DEF Slept, WithCopy
  <2>2. None \in 0..Len(ids)
      BY <1>1 DEF None
  <2>3. CASE at' = [at EXCEPT ![h] = Idle]
      BY <2>3, IdleIsPlaced
  <2> QED
      BY <1>3, <2>1, <2>2, <2>3
<1>5. CASE Sleep(h)
  <2> DEFINE now == map[ids[at[h].copy]]
  <2>1. now \in 0..Len(ids)
      BY <1>2 DEF TypeOK
  <2>2. \E r : /\ at' = [at EXCEPT ![h] = r]
               /\ Placed(r, ids, stored, kept)
               /\ r.of # "new" \/ (r.of = at[h].of /\ r.id = at[h].id)
    <3>1. CASE now = None \/ ids[at[h].copy] = current
        BY <1>4, <1>5, <3>1 DEF Sleep
    <3>2. CASE ~(now = None \/ ids[at[h].copy] = current)
      <4>1. at' = [at EXCEPT ![h] = WithCopy(at[h], "store", now)]
          BY <1>5, <3>2 DEF Sleep, WithCopy
      <4> HIDE DEF now
      <4> QED
          BY <1>3, <2>1, <4>1
    <3> QED
        BY <3>1, <3>2
  <2>3. ids' = ids /\ Live' = Live /\ stored' = stored /\ kept' = kept
      BY <1>5 DEF Sleep, lives, Live
  <2>4. RowsMove
      BY <2>3 DEF RowsMove, Keeping
  <2> QED
      BY <2>2, <2>3, <2>4, OthersStayPlaced
<1>6. CASE Store(h)
  <2> DEFINE r == [at[h] EXCEPT !.do = "remove"]
  <2>1. at' = [at EXCEPT ![h] = r] /\ ids' = ids /\ Live' = Live /\ kept' = kept
      BY <1>6 DEF Store, Goes, lives, Live
  <2>2. stored' = stored \cup {ids[at[h].copy]}
      BY <1>6 DEF Store
  <2>3. r.do = "remove" /\ r.of = at[h].of /\ r.id = at[h].id /\ r.copy = at[h].copy
      BY <1>1 DEF Requested
  <2> HIDE DEF r
  <2>4. Placed(r, ids, stored', kept')
      BY <1>1, <2>2, <2>3 DEF Placed
  <2>5. RowsMove
      BY <1>2, <2>1, <2>2 DEF RowsMove, Keeping
  <2> QED
      BY <2>1, <2>3, <2>4, <2>5, OthersStayPlaced
<1>7. CASE Remove(h)
  <2>1. PICK r : /\ at' = [at EXCEPT ![h] = r]
                 /\ Placed(r, ids, stored, kept)
                 /\ r.of # "new" \/ (r.of = at[h].of /\ r.id = at[h].id)
      BY <1>4, <1>7 DEF Remove
  <2>2. ids' = ids /\ stored' = stored /\ kept' = kept
      BY <1>7 DEF Remove
  <2>3. \A k \in Tasks : Placed(at'[k], ids, stored, kept)
      BY <2>1 DEF TypeOK, Keeping
  <2>4. NamesDiffer'
      BY <2>1 DEF TypeOK, Keeping, NamesDiffer, Tasks
  <2>5. Live \ {ids[at[h].copy]} \subseteq Live'
      BY <1>7 DEF Remove, Live, TypeOK
  <2>6. ids[at[h].copy] \in stored \/ ids[at[h].copy] \notin kept
      BY <1>1, <1>7 DEF Remove, At, Placed
  <2>7. NoSessionIsForgotten'
      BY <2>2, <2>5, <2>6 DEF Keeping, NoSessionIsForgotten
  <2>8. SleeperMakesNone'
      BY <2>1 DEF Keeping, SleeperMakesNone, TypeOK, Tasks
  <2> QED
      BY <2>2, <2>3, <2>4, <2>7, <2>8 DEF Keeping
<1> QED
    BY <1>5, <1>6, <1>7 DEF Sleeps

\* A request that arrives: a new session has a name that nobody had.
LEMMA RequestsForgetNone ==
    ASSUME TypeOK, Carried, Keeping, NEW h \in Handlers, Requests(h)
    PROVE  Keeping'
<1>1. h \in Tasks
    BY DEF Tasks
<1>2. ids' = ids /\ Live' = Live /\ stored' = stored /\ kept' = kept
    BY DEF Requests, New, Resume, EndLive, Delete, lives, Live
<1>3. RowsMove
    BY <1>2 DEF RowsMove, Keeping
<1>4. CASE New(h)
  <2>1. PICK s \in Ids \ (Old \cup Range(ids) \cup Named) :
           at' = [at EXCEPT ![h] = Request("room", "new", s, None)]
      BY <1>4 DEF New
  <2> DEFINE r == Request("room", "new", s, None)
  <2>2. Placed(r, ids, stored', kept') /\ r.id \notin Named
      BY <2>1 DEF Placed, Request, Known
  <2> HIDE DEF r
  <2>3. at' = [at EXCEPT ![h] = r]
      BY <2>1 DEF r
  <2> QED
      BY <1>1, <1>2, <1>3, <2>2, <2>3, OthersStayPlaced
<1>5. CASE Resume(h) \/ EndLive(h) \/ Delete(h)
  <2>1. \E step, kind, s, copy :
           /\ step \in {"show", "room", "sleep", "delete"} /\ kind # "new"
           /\ at' = [at EXCEPT ![h] = Request(step, kind, s, copy)]
    <3>1. CASE Resume(h)
      <4>1. PICK s \in Ids :
               at' = [at EXCEPT ![h] = IF map[s] # None
                                       THEN Request("show", "show", s, map[s])
                                       ELSE Request("room", "resume", s, None)]
          BY <3>1 DEF Resume
      <4>2. CASE map[s] # None
          BY <4>1, <4>2
      <4>3. CASE map[s] = None
        <5>1. at' = [at EXCEPT ![h] = Request("room", "resume", s, None)]
            BY <4>1, <4>3
        <5> DEFINE copy == None
        <5>2. at' = [at EXCEPT ![h] = Request("room", "resume", s, copy)]
            BY <5>1
        <5> HIDE DEF copy
        <5> QED
            BY <5>2
      <4> QED
          BY <4>2, <4>3
    <3>2. CASE EndLive(h)
        BY <3>2 DEF EndLive
    <3>3. CASE Delete(h)
        BY <3>3 DEF Delete
    <3> QED
        BY <1>5, <3>1, <3>2, <3>3
  <2>2. PICK step, kind, s, copy :
           /\ step \in {"show", "room", "sleep", "delete"} /\ kind # "new"
           /\ at' = [at EXCEPT ![h] = Request(step, kind, s, copy)]
      BY <2>1
  <2> DEFINE r == Request(step, kind, s, copy)
  <2>3. Placed(r, ids, stored', kept') /\ r.of # "new"
      BY <2>2 DEF Placed, Request
  <2>4. at' = [at EXCEPT ![h] = r]
      BY <2>2
  <2> HIDE DEF r
  <2> QED
      BY <1>1, <1>2, <1>3, <2>3, <2>4, OthersStayPlaced
<1> QED
    BY <1>4, <1>5 DEF Requests

\* The steps of a request on its way, up to the one that makes it live.
LEMMA AnswersForgetNone ==
    ASSUME TypeOK, Carried, Keeping, NEW h \in Handlers,
           \/ Show(h) \/ Room(h) \/ Ask(h) \/ Previous(h) \/ Beside(h) \/ Load(h)
           \/ Refuse(h) \/ Settle(h) \/ Deleted(h)
    PROVE  Keeping'
<1>1. h \in Tasks /\ Len(ids) \in Nat
    BY DEF Tasks, TypeOK
<1>2. /\ at[h] \in Requested(Len(ids)) /\ Carries(at[h], ids)
      /\ Placed(at[h], ids, stored, kept)
    BY <1>1 DEF TypeOK, Carried, Keeping
<1>3. ids' = ids
    BY DEF Show, Room, Ask, Previous, Beside, Load, Refuse, Settle, Deleted
<1>4. Live \subseteq Live'
  <2>1. CASE Show(h)
      BY <1>2, <2>1 DEF Show, At, MakeCurrent, Carries, Live, TypeOK
  <2>2. CASE ~Show(h)
      BY <2>2 DEF Room, Ask, Previous, Beside, Load, Refuse, Settle, Deleted, lives, Live
  <2> QED
      BY <2>1, <2>2
<1>5. RowsMove
  <2>1. At(h, "beside") => ids[at[h].copy] \in Known(ids)
      BY <1>1, <1>2, CopiesAreKnown DEF At, Carries, Requested, None
  <2>2. At(h, "settle") => at[h].id \in Known(ids)
      BY <1>2 DEF At, Placed
  <2>3. CASE Deleted(h)
      BY <2>3 DEF Deleted, RowsMove
  <2>4. CASE Beside(h) \/ Settle(h)
      BY <2>1, <2>2, <2>4 DEF Beside, Settle, RowsMove, Keeping
  <2>5. CASE Show(h) \/ Room(h) \/ Ask(h) \/ Previous(h) \/ Load(h) \/ Refuse(h)
      BY <2>5 DEF Show, Room, Ask, Previous, Load, Refuse, RowsMove, Keeping
  <2> QED
      BY <2>3, <2>4, <2>5
<1>6. ASSUME Returns(h)
      PROVE  Keeping'
  <2>1. at' = [at EXCEPT ![h] = Idle]
      BY <1>6 DEF Returns
  <2> QED
      BY <1>1, <1>3, <1>4, <1>5, <2>1, IdleIsPlaced, OthersStayPlaced
<1>7. ASSUME NEW r, at' = [at EXCEPT ![h] = r], r.of = at[h].of, r.id = at[h].id,
             r.do \in {"load", "settle"} => at[h].of # "new",
             r.do = "settle" \/ (r.do = "insert" /\ at[h].of # "new") =>
                at[h].id \in Known(ids),
             r.do # "remove"
      PROVE  Keeping'
  <2>1. Placed(r, ids, stored', kept')
      BY <1>2, <1>7 DEF Placed
  <2> QED
      BY <1>1, <1>3, <1>4, <1>5, <1>7, <2>1, OthersStayPlaced
<1>8. ASSUME NEW step \in {"previous", "ask", "settle", "insert"}, Goes(h, step),
             step = "settle" => at[h].of # "new",
             step \in {"settle", "insert"} => at[h].id \in Known(ids)
      PROVE  Keeping'
  <2> DEFINE r == [at[h] EXCEPT !.do = step]
  <2>1. r.do = step /\ r.of = at[h].of /\ r.id = at[h].id
      BY <1>2 DEF Requested
  <2>2. at' = [at EXCEPT ![h] = r]
      BY <1>8 DEF Goes
  <2> HIDE DEF r
  <2> QED
      BY <1>7, <1>8, <2>1, <2>2
<1>9. ASSUME NEW step \in {"sleep", "beside", "load", "insert"}, NEW copy \in 0..Len(ids),
             at' = [at EXCEPT ![h].do = step, ![h].copy = copy],
             step = "load" => at[h].of # "new",
             step = "insert" => at[h].of = "new"
      PROVE  Keeping'
  <2> DEFINE r == WithCopy(at[h], step, copy)
  <2>1. step \in Steps
      BY DEF Steps
  <2>2. r.do = step /\ r.of = at[h].of /\ r.id = at[h].id
      BY <1>1, <1>2, <2>1, CopyTypes
  <2>3. at' = [at EXCEPT ![h] = r]
      BY <1>9 DEF WithCopy
  <2> HIDE DEF r
  <2> QED
      BY <1>7, <1>9, <2>2, <2>3
<1>10. CASE Show(h) \/ Refuse(h) \/ Deleted(h)
    BY <1>6, <1>10 DEF Show, Refuse, Deleted
<1>11. CASE Room(h)
    BY <1>8, <1>11 DEF Room, Goes
<1>12. CASE Ask(h)
  <2>1. LiveCopies \subseteq 0..Len(ids)
      BY DEF LiveCopies, Live, TypeOK
  <2> QED
      BY <1>6, <1>9, <1>12, <2>1 DEF Ask
<1>13. CASE Previous(h)
  <2>1. map[current] \in 0..Len(ids)
      BY DEF TypeOK
  <2> QED
      BY <1>6, <1>9, <1>13, <2>1 DEF Previous
<1>14. CASE Beside(h)
  <2> DEFINE step == IF at[h].of = "new" THEN "insert" ELSE "load"
  <2>1. /\ step \in {"insert", "load"} /\ None \in 0..Len(ids)
        /\ (step = "load" => at[h].of # "new") /\ (step = "insert" => at[h].of = "new")
      BY <1>1 DEF None
  <2>2. at' = [at EXCEPT ![h].do = step, ![h].copy = None]
      BY <1>14 DEF Beside
  <2> HIDE DEF step
  <2> QED
      BY <1>9, <2>1, <2>2
<1>15. CASE Load(h)
  <2>1. at[h].of # "new" /\ at[h].id \in Known(ids)
      BY <1>2, <1>15 DEF Load, At, Placed, Keeping
  <2> QED
      BY <1>8, <1>15, <2>1 DEF Load
<1>16. CASE Settle(h)
  <2>1. at[h].id \in Known(ids)
      BY <1>2, <1>16 DEF Settle, At, Placed
  <2> QED
      BY <1>8, <1>16, <2>1 DEF Settle
<1> QED
    BY <1>10, <1>11, <1>12, <1>13, <1>14, <1>15, <1>16

\* A session becomes live: a new one is kept from then on, and no request that is
\* about to take a session out of the map can be at that one.
LEMMA InsertForgetsNone ==
    ASSUME TypeOK, Carried, Keeping, NEW h \in Handlers, Insert(h)
    PROVE  Keeping'
<1> DEFINE id == at[h].id
<1>1. h \in Tasks /\ Len(ids) \in Nat
    BY DEF Tasks, TypeOK
<1>2. /\ at[h] \in Requested(Len(ids)) /\ id \in Ids
      /\ Placed(at[h], ids, stored, kept) /\ at[h].do = "insert"
    BY <1>1 DEF TypeOK, Requested, Keeping, Insert, At
<1>3. /\ ids' \in Seq(Ids) /\ Len(ids') = Len(ids) + 1
      /\ ids'[Len(ids) + 1] = id
      /\ \A i \in 1..Len(ids) : ids'[i] = ids[i]
    BY <1>2 DEF Insert, TypeOK
<1>4. Known(ids') = Known(ids) \cup {id}
  <2>1. Range(ids') = Range(ids) \cup {id}
    <3> DEFINE n == Len(ids)
    <3>1. DOMAIN ids = 1..n /\ DOMAIN ids' = 1..(n + 1) /\ n \in Nat
        BY <1>1, <1>3 DEF TypeOK
    <3>2. 1..(n + 1) = 1..n \cup {n + 1}
        BY <3>1
    <3>3. ids'[n + 1] = id /\ \A i \in 1..n : ids'[i] = ids[i]
        BY <1>3
    <3> HIDE DEF n, id
    <3>4. ASSUME NEW x \in Range(ids')
          PROVE  x \in Range(ids) \cup {id}
        BY <3>1, <3>2, <3>3 DEF Range
    <3>5. ASSUME NEW x \in Range(ids)
          PROVE  x \in Range(ids')
      <4>1. PICK i \in 1..n : x = ids[i]
          BY <3>1 DEF Range
      <4>2. i \in 1..(n + 1) /\ ids'[i] = x
          BY <3>2, <3>3, <4>1
      <4> QED
          BY <3>1, <4>2 DEF Range
    <3>6. id \in Range(ids')
        BY <3>1, <3>3 DEF Range
    <3> QED
        BY <3>4, <3>5, <3>6
  <2> QED
      BY <2>1 DEF Known
<1>5. /\ map' = [map EXCEPT ![id] = Len(ids) + 1]
      /\ at' = [at EXCEPT ![h] = Idle] /\ stored' = stored
    BY <1>3 DEF Insert, MakeCurrent, Returns
<1>6. /\ kept' = IF at[h].of = "new" THEN kept \cup {id} ELSE kept
      /\ at[h].of # "new" => id \in Known(ids)
    BY <1>2 DEF Insert, Placed
<1>7. Live' = Live \cup {id}
    BY <1>1, <1>2, <1>5 DEF TypeOK, Live, None
<1> HIDE DEF id
<1>8. ASSUME NEW k \in Tasks
      PROVE  Placed(at'[k], ids', stored', kept')
  <2>1. CASE k = h
      BY <1>5, <2>1, IdleIsPlaced DEF TypeOK
  <2>2. CASE k # h
    <3>1. /\ at'[k] = at[k] /\ Placed(at[k], ids, stored, kept)
          /\ at[k] \in Requested(Len(ids)) /\ Carries(at[k], ids)
        BY <1>5, <2>2 DEF TypeOK, Keeping, Carried
    <3>2. at[k].of = "new" => at[k].id \notin Known(ids')
      <4> SUFFICES ASSUME at[k].of = "new"
                   PROVE  at[k].id \notin Known(ids')
          OBVIOUS
      <4>1. at[k].id \notin Known(ids)
          BY <3>1 DEF Placed
      <4>2. CASE k \in Handlers
          BY <1>4, <1>6, <2>2, <4>1, <4>2 DEF Keeping, NamesDiffer, id
      <4>3. CASE k = Sleeper
          BY <4>3 DEF Keeping, SleeperMakesNone
      <4> QED
          BY <4>2, <4>3 DEF Tasks
    <3>3. ASSUME at[k].do = "remove"
          PROVE  ids'[at[k].copy] \in stored' \/ ids'[at[k].copy] \notin kept'
      <4>1. at[k].copy \in 1..Len(ids)
          BY <1>1, <3>1, <3>3 DEF Carries, Requested, None
      <4>2. ids'[at[k].copy] = ids[at[k].copy] /\ ids[at[k].copy] \in Known(ids)
          BY <1>3, <4>1, CopiesAreKnown
      <4>3. at[h].of = "new" => id \notin Known(ids)
          BY <1>2 DEF Placed, id
      <4> QED
          BY <1>5, <1>6, <3>1, <3>3, <4>2, <4>3 DEF Placed
    <3> QED
        BY <1>4, <3>1, <3>2, <3>3 DEF Placed
  <2> QED
      BY <2>1, <2>2
<1>9. NamesDiffer'
    BY <1>5, IdleIsPlaced DEF TypeOK, Keeping, NamesDiffer, Tasks
<1>10. stored' \subseteq Known(ids') /\ kept' \subseteq Known(ids')
    BY <1>4, <1>5, <1>6 DEF Keeping
<1>11. NoSessionIsForgotten'
    BY <1>5, <1>6, <1>7 DEF Keeping, NoSessionIsForgotten
<1>12. SleeperMakesNone'
    BY <1>1, <1>5, LivesAssumption DEF Keeping, SleeperMakesNone, TypeOK, Tasks
<1> QED
    BY <1>8, <1>9, <1>10, <1>11, <1>12 DEF Keeping

\* Every step keeps what is kept.
LEMMA KeepingStep ==
    ASSUME TypeOK, Carried, Keeping, [Next]_vars
    PROVE  Keeping'
<1>1. ASSUME NEW h \in Handlers, Requests(h) \/ Answers(h)
      PROVE  Keeping'
  <2>1. h \in Tasks
      BY DEF Tasks
  <2> QED
      BY <1>1, <2>1, RequestsForgetNone, AnswersForgetNone, InsertForgetsNone,
         SleepsForgetsNone DEF Answers
<1>2. CASE SleeperNext
  <2>1. Sleeper \in Tasks
      BY DEF Tasks
  <2>2. CASE Sleeps(Sleeper)
      BY <2>1, <2>2, SleepsForgetsNone
  <2>3. CASE Tick \/ Visit
    <3>1. /\ ids' = ids /\ Live' = Live /\ stored' = stored /\ kept' = kept
          /\ at[Sleeper].do = "visit" /\ at[Sleeper].of # "new"
        BY <2>3 DEF Tick, Visit, At, lives, Live, Keeping, SleeperMakesNone
    <3>2. RowsMove
        BY <3>1 DEF RowsMove, Keeping
    <3>3. at[Sleeper] \in Requested(Len(ids))
        BY <2>1 DEF TypeOK
    <3>4. \E r : /\ at' = [at EXCEPT ![Sleeper] = r]
                 /\ r.of # "new" /\ r.do \in {"visit", "sleep"}
      <4>1. CASE Tick
        <5> DEFINE r == [at[Sleeper] EXCEPT !.ask = LiveCopies]
        <5>1. r.of # "new" /\ r.do = "visit"
            BY <3>1, <3>3 DEF Requested
        <5>2. at' = [at EXCEPT ![Sleeper] = r]
            BY <4>1 DEF Tick
        <5> HIDE DEF r
        <5> QED
            BY <5>1, <5>2
      <4>2. CASE Visit
        <5>1. PICK copy \in at[Sleeper].ask :
                 at' = IF MaySleep(copy)
                       THEN [at EXCEPT ![Sleeper].do = "sleep", ![Sleeper].copy = copy,
                                       ![Sleeper].ask = @ \ {copy}]
                       ELSE [at EXCEPT ![Sleeper].ask = @ \ {copy}]
            BY <4>2 DEF Visit
        <5> DEFINE r == [at[Sleeper] EXCEPT !.do = "sleep", !.copy = copy,
                                            !.ask = @ \ {copy}]
                   k == [at[Sleeper] EXCEPT !.ask = @ \ {copy}]
        <5>2. r.of # "new" /\ r.do = "sleep" /\ k.of # "new" /\ k.do = "visit"
            BY <3>1, <3>3 DEF Requested
        <5>3. at' = [at EXCEPT ![Sleeper] = r] \/ at' = [at EXCEPT ![Sleeper] = k]
            BY <5>1
        <5> HIDE DEF r, k
        <5> QED
            BY <5>2, <5>3
      <4> QED
          BY <2>3, <4>1, <4>2
    <3>5. PICK r : /\ at' = [at EXCEPT ![Sleeper] = r]
                   /\ r.of # "new" /\ r.do \in {"visit", "sleep"}
        BY <3>4
    <3>6. Placed(r, ids, stored', kept')
        BY <3>5 DEF Placed
    <3> QED
        BY <2>1, <3>1, <3>2, <3>5, <3>6, OthersStayPlaced
  <2> QED
      BY <1>2, <2>2, <2>3 DEF SleeperNext
<1>3. CASE \/ \E c \in Clients : Attach(c) \/ Detach(c) \/ Prompt(c)
           \/ \E copy \in Copies : TurnEnds(copy)
           \/ UNCHANGED vars
  <2>1. /\ map' = map /\ ids' = ids /\ at' = at /\ kept' = kept
        /\ stored \subseteq stored' /\ stored' \subseteq Known(ids)
    <3>1. ASSUME NEW copy \in Copies, TurnEnds(copy)
          PROVE  ids[copy] \in Known(ids)
      <4>1. copy \in 1..Len(ids)
          BY <3>1 DEF TurnEnds, TypeOK
      <4> QED
          BY <4>1, CopiesAreKnown
    <3> QED
        BY <1>3, <3>1 DEF Attach, Detach, Prompt, TurnEnds, vars, lives, Keeping
  <2>2. \A k \in Tasks : Placed(at[k], ids, stored', kept)
      BY <2>1 DEF Keeping, Placed
  <2>3. NamesDiffer' /\ SleeperMakesNone'
      BY <2>1 DEF Keeping, NamesDiffer, SleeperMakesNone
  <2>4. NoSessionIsForgotten'
      BY <2>1 DEF Keeping, NoSessionIsForgotten, Live
  <2> QED
      BY <2>1, <2>2, <2>3, <2>4 DEF Keeping
<1> QED
    BY <1>1, <1>2, <1>3 DEF Next

LEMMA KeepingInit ==
    ASSUME Init
    PROVE  Keeping
<1>1. \A h \in Tasks : /\ at[h].do \in {"idle", "visit"}
                       /\ at[h].of # "new"
    BY DEF Init, Idle, Request
<1>2. Sleeper \in Tasks /\ \A h \in Handlers : h \in Tasks
    BY DEF Tasks
<1>3. Live = {First}
    BY LivesAssumption DEF Init, Live, None
<1>4. First \in Known(ids)
  <2>1. ids = <<First>> /\ 1 \in DOMAIN <<First>> /\ <<First>>[1] = First
      BY DEF Init
  <2> QED
      BY <2>1 DEF Known, Range
<1>5. stored = Old /\ kept = Old \cup {First}
    BY DEF Init
<1> QED
    BY <1>1, <1>2, <1>3, <1>4, <1>5
    DEF Keeping, Placed, NamesDiffer, SleeperMakesNone, Known, NoSessionIsForgotten

\* In every interleaving of any number of requests, with any number of sessions,
\* one that was made and that nobody deleted is live or has a row.
THEOREM SessionsAreKept == Spec => []NoSessionIsForgotten
<1>1. Init => KeepsInv
    BY TypesInit, KeepingInit DEF KeepsInv
<1>2. KeepsInv /\ [Next]_vars => KeepsInv'
    BY TypesStep, KeepingStep DEF KeepsInv
<1>3. KeepsInv => NoSessionIsForgotten
    BY DEF KeepsInv, Keeping
<1> QED
    BY <1>1, <1>2, <1>3, PTL DEF Spec
=============================================================================
