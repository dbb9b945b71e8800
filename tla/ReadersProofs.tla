---------------------------- MODULE ReadersProofs ----------------------------
(***************************************************************************)
(* Proofs, for any number of calls and readers, of the properties of       *)
(* module Readers: what an audit and GetVersion answer, how far a walk     *)
(* through an audit has come, and in which order it shows events.          *)
(***************************************************************************)
EXTENDS TrailProofs

USE DEF Calls

-----------------------------------------------------------------------------
(* What readers read only grows *)

\* Rows stay and move along the lifecycle, events stay and keep their times.
Grows ==
  /\ RowsForward
  /\ \A i \in DOMAIN params : params'[i].name = params[i].name
  /\ events \subseteq events'
  /\ \A e \in events : occurredAt'[e] = occurredAt[e]

\* Every step of the composition is such a step.
LEMMA WorldGrows ==
  ASSUME TrailInv, [ReadersNext]_allVars PROVE Grows
<1>1. [Next]_vars BY ServerSteps
<1>2. IInv /\ IInv' /\ ClockInv BY <1>1, NextInv DEF TrailInv, TimeInv
<1>3. CASE \E c \in Calls : CallStep(c)
  <2>1. PICK c \in Calls : CallStep(c) BY <1>3
  <2>2. Stamps(c) /\ Local(c) BY <1>2, <2>1, CallTimes
  <2>3. RowsForward BY <1>1, <1>2, <2>2, Forward DEF Local
  <2>4. \A i \in DOMAIN params : params'[i].name = params[i].name
    BY <1>1, <1>2, <2>3, NamesStay DEF RowsForward
  <2>5. QED BY <2>2, <2>3, <2>4 DEF Grows, Stamps
<1>4. CASE UNCHANGED <<params, events, occurredAt>>
  BY <1>4 DEF Grows, RowsForward
<1>5. CASE ExpireStep
  BY <1>4, <1>5 DEF ExpireStep, Expire, timeVars
<1>6. CASE (\E r \in Clients : ReaderStep(r)) \/ (\E c \in Calls : ReadClock(c))
  BY <1>4, <1>6 DEF ReaderStep, ReadClock, vars, timeVars
<1>7. CASE UNCHANGED allVars
  BY <1>4, <1>7 DEF allVars, vars, timeVars
<1>8. QED BY <1>3, <1>5, <1>6, <1>7 DEF ReadersNext

\* A trail is a finite part of the ledger.
LEMMA TrailFinite ==
  ASSUME TrailInv, NEW n
  PROVE  /\ IsFiniteSet(Trail(n)) /\ Trail(n) \subseteq events
         /\ Cardinality(Trail(n)) \in Nat
<1>1. IsFiniteSet(events) /\ Trail(n) \in SUBSET events
  BY DEF TrailInv, WritersInv, Trail
<1>2. QED BY <1>1, FS_Subset, FS_CardinalityType

\* Newer events lie higher, and every event lies within its trail.
LEMMA Depths ==
  ASSUME TrailInv, NEW n, NEW e \in Trail(n)
  PROVE  /\ Depth(e, n) \in Nat /\ Cardinality(AsNew(Trail(n), e)) \in Nat
         /\ Depth(e, n) < Cardinality(AsNew(Trail(n), e))
         /\ Depth(e, n) < Cardinality(Trail(n))
         /\ \A f \in Trail(n) : occurredAt[f] > occurredAt[e] =>
              Cardinality(AsNew(Trail(n), f)) <= Depth(e, n)
<1> DEFINE T == Trail(n)
           S == Newer(T, e)
           A == AsNew(T, e)
<1>1. IsFiniteSet(T) /\ T \subseteq events /\ Cardinality(T) \in Nat
  BY TrailFinite
<1>2. \A f \in T : occurredAt[f] \in Nat
  BY <1>1, TimesAssumption DEF TrailInv, TimeInv, ClockInv
<1>3. S \in SUBSET A /\ A \in SUBSET T /\ e \in A /\ e \notin S
  BY <1>2 DEF Newer, AsNew
<1>4. Depth(e, n) = Cardinality(S) BY DEF Depth
<1>5. \A f \in T : occurredAt[f] > occurredAt[e] => AsNew(T, f) \in SUBSET S
  BY <1>2 DEF Newer, AsNew
<1> HIDE DEF S, A, T
<1>6. IsFiniteSet(A) /\ IsFiniteSet(S) BY <1>1, <1>3, FS_Subset
<1>7. Cardinality(S) \in Nat /\ Cardinality(A) \in Nat BY <1>6, FS_CardinalityType
<1>8. Cardinality(S) <= Cardinality(A) /\ Cardinality(S) # Cardinality(A)
  BY <1>3, <1>6, FS_Subset
<1>9. Cardinality(A) <= Cardinality(T) BY <1>1, <1>3, FS_Subset
<1>10. \A f \in T : occurredAt[f] > occurredAt[e] =>
         Cardinality(AsNew(T, f)) <= Cardinality(S)
  BY <1>5, <1>6, FS_Subset
<1>11. Cardinality(S) < Cardinality(A) /\ Cardinality(S) < Cardinality(T)
  BY <1>1, <1>7, <1>8, <1>9
<1>12. QED BY <1>4, <1>7, <1>10, <1>11 DEF T, A

\* A trail only grows, and events that share a time go on sharing it.
LEMMA TrailGrows ==
  ASSUME TrailInv, TrailInv', Grows, NEW n
  PROVE  /\ Trail(n) \subseteq Trail(n)'
         /\ IsFiniteSet(Trail(n)')
         /\ Cardinality(Trail(n)) <= Cardinality(Trail(n)')
         /\ \A e \in events : Tied(e, n) => Tied(e, n)'
<1> DEFINE S == Trail(n)
           T == Trail(n)'
<1>1. ASSUME NEW e \in Trail(n) PROVE e \in Trail(n)'
  <2>1. /\ e \in events /\ params[e.parameter_id].name = n
        /\ e.parameter_id \in DOMAIN params
    BY DEF Trail, TrailInv, WritersInv, AboutARow
  <2>2. e \in events' /\ params'[e.parameter_id].name = n
    BY <2>1 DEF Grows
  <2>3. QED BY <2>2 DEF Trail
<1>2. IsFiniteSet(events') /\ T \in SUBSET events'
  BY DEF TrailInv, WritersInv, Trail
<1>3. S \in SUBSET T BY <1>1
<1>4. IsFiniteSet(T) /\ Cardinality(S) <= Cardinality(T)
  <2> HIDE DEF S, T
  <2>1. IsFiniteSet(T) BY <1>2, FS_Subset
  <2>2. QED BY <1>3, <2>1, FS_Subset
<1>5. ASSUME NEW e \in events, Tied(e, n) PROVE Tied(e, n)'
  <2>1. PICK f \in Trail(n) \ {e} : occurredAt[f] = occurredAt[e]
    BY <1>5 DEF Tied
  <2>2. f \in Trail(n)' \ {e} /\ occurredAt'[f] = occurredAt'[e]
    BY <1>1, <2>1, TrailFinite DEF Grows
  <2>3. QED BY <2>2 DEF Tied
<1>6. QED BY <1>3, <1>4, <1>5

\* No event becomes newer: what was newer than e still is.
LEMMA DepthGrows ==
  ASSUME TrailInv, TrailInv', Grows, NEW n, NEW e \in Trail(n)
  PROVE  /\ Depth(e, n) \in Nat /\ Depth(e, n)' \in Nat
         /\ Depth(e, n) <= Depth(e, n)'
<1> DEFINE S == Newer(Trail(n), e)
           T == Newer(Trail(n), e)'
           U == Trail(n)'
<1>1. /\ Trail(n) \subseteq events /\ Trail(n) \subseteq U /\ IsFiniteSet(U)
  BY TrailFinite, TrailGrows
<1>2. S \in SUBSET T
  BY <1>1 DEF Grows, Newer
<1>3. T \in SUBSET U BY DEF Newer
<1>4. Cardinality(S) \in Nat /\ Cardinality(T) \in Nat /\ Cardinality(S) <= Cardinality(T)
  <2> HIDE DEF S, T, U
  <2>1. IsFiniteSet(T) BY <1>1, <1>3, FS_Subset
  <2>2. IsFiniteSet(S) /\ Cardinality(S) <= Cardinality(T)
    BY <1>2, <2>1, FS_Subset
  <2>3. QED BY <2>1, <2>2, FS_CardinalityType
<1>5. Depth(e, n) = Cardinality(S) /\ Depth(e, n)' = Cardinality(T)
  BY DEF Depth
<1>6. QED BY <1>4, <1>5

\* A row that has been in a state has been in it ever since.
LEMMA WasInStays ==
  ASSUME Grows, NEW i, NEW s \in ParameterState \cup {None}, WasIn(i, s)
  PROVE  WasIn(i, s)'
<1> SUFFICES ASSUME s # None PROVE i \in DOMAIN params' /\ params'[i].state \in StillPossible(s)
  BY DEF WasIn
<1>1. /\ i \in DOMAIN params /\ i \in DOMAIN params'
      /\ params[i].state \in StillPossible(s)
      /\ \/ params'[i].state = params[i].state
         \/ <<params[i].state, params'[i].state>> \in L!Edges
  BY DEF WasIn, Grows, RowsForward
<1>2. s \in ParameterState OBVIOUS
<1>3. QED
  BY <1>1, <1>2
  DEF StillPossible, L!Edges, L!EvaluateEdges, L!RevokeEdge, ParameterState, Promoted

-----------------------------------------------------------------------------
(* The page of a trail *)

(***************************************************************************)
(* IsPage: P shows at most limit events of the trail, newest first, and    *)
(* reaches as far as the limit or the trail does; an untied event that it  *)
(* does not show lies before the offset or beyond the page.                *)
(***************************************************************************)
IsPage(P, n, limit, offset) ==
  /\ P \in Seq(Trail(n)) /\ Len(P) <= limit
  /\ Len(P) >= Least(limit, Cardinality(Trail(n)) - offset)
  /\ \A j, k \in 1..Len(P) : j < k => occurredAt[P[j]] >= occurredAt[P[k]]
  /\ \A e \in Trail(n) :
       \/ Tied(e, n)
       \/ Depth(e, n) < offset
       \/ offset + Len(P) <= Depth(e, n)
       \/ \E k \in 1..Len(P) : P[k] = e
  /\ P = <<>> => \A e \in Trail(n) : Depth(e, n) < offset

\* Every page the statement may return is one.
LEMMA PageHolds ==
  ASSUME TrailInv, NEW n, NEW limit \in Nat, limit > 0, NEW offset \in Nat,
         NEW P \in Pages(Trail(n), limit, offset)
  PROVE  IsPage(P, n, limit, offset)
<1> DEFINE T == Trail(n)
           N == Cardinality(T)
           size == Size(N - offset, limit)
           Reach(e) == Cardinality(AsNew(T, e))
<1>1. /\ N \in Nat
      /\ \A e \in T : /\ Depth(e, n) \in Nat /\ Reach(e) \in Nat
                      /\ Depth(e, n) < Reach(e) /\ Depth(e, n) < N
      /\ \A e, f \in T : occurredAt[f] > occurredAt[e] => Reach(f) <= Depth(e, n)
  BY TrailFinite, Depths
<1>2. /\ P \in [1..size -> T]
      /\ \A k \in 1..size : Depth(P[k], n) < offset + k /\ offset + k <= Reach(P[k])
  BY DEF Pages, Slices, Depth
<1>3. \A e \in T : occurredAt[e] \in Nat
  BY TrailFinite, TimesAssumption DEF TrailInv, TimeInv, ClockInv
<1>4. \A e, f \in T : occurredAt[f] = occurredAt[e] => e = f \/ Tied(e, n)
  BY DEF Tied
<1> HIDE DEF T, N, Reach
<1>5. /\ size \in Nat /\ size <= limit /\ size >= Least(limit, N - offset)
      /\ size = 0 => N <= offset
      /\ size > 0 => offset + size <= N
  BY <1>1 DEF Size, Least
<1> HIDE DEF size
<1>6. P \in Seq(T) /\ Len(P) = size BY <1>2, <1>5
<1>7. ASSUME NEW j \in 1..size, NEW k \in 1..size, j < k
      PROVE  occurredAt[P[j]] >= occurredAt[P[k]]
  <2>1. P[j] \in T /\ P[k] \in T BY <1>2
  <2>2. /\ Depth(P[j], n) < offset + j /\ offset + k <= Reach(P[k])
        /\ Depth(P[j], n) \in Nat /\ Reach(P[k]) \in Nat
    BY <1>1, <1>2, <2>1
  <2>3. ~(Reach(P[k]) <= Depth(P[j], n)) BY <1>5, <1>7, <2>2
  <2>4. ~(occurredAt[P[k]] > occurredAt[P[j]]) BY <1>1, <2>1, <2>3
  <2>5. QED BY <1>3, <2>1, <2>4
<1>8. ASSUME NEW e \in T, ~Tied(e, n), ~(Depth(e, n) < offset),
             ~(offset + size <= Depth(e, n))
      PROVE  \E k \in 1..size : P[k] = e
  <2> DEFINE k == Depth(e, n) - offset + 1
  <2>1. k \in 1..size /\ offset + k = Depth(e, n) + 1 BY <1>1, <1>5, <1>8
  <2> HIDE DEF k
  <2>2. PICK f \in T : f = P[k] BY <1>2, <2>1
  <2>3. Depth(f, n) < offset + k /\ offset + k <= Reach(f) BY <1>2, <2>1, <2>2
  <2>4. /\ Depth(e, n) \in Nat /\ Depth(f, n) \in Nat
        /\ Reach(e) \in Nat /\ Reach(f) \in Nat /\ Depth(e, n) < Reach(e)
    BY <1>1
  <2>5. ~(occurredAt[f] > occurredAt[e])
    <3>1. ~(Reach(f) <= Depth(e, n)) BY <2>1, <2>3, <2>4
    <3>2. QED BY <1>1, <3>1
  <2>6. ~(occurredAt[e] > occurredAt[f])
    <3>1. ~(Reach(e) <= Depth(f, n)) BY <2>1, <2>3, <2>4
    <3>2. QED BY <1>1, <3>1
  <2>7. occurredAt[f] = occurredAt[e] BY <1>3, <2>5, <2>6
  <2>8. e = f BY <1>4, <1>8, <2>7
  <2>9. QED BY <2>1, <2>2, <2>8
<1>9. ASSUME P = <<>>, NEW e \in T PROVE Depth(e, n) < offset
  <2>1. size = 0 BY <1>6, <1>9
  <2>2. QED BY <1>1, <1>5, <2>1
<1>10. QED BY <1>5, <1>6, <1>7, <1>8, <1>9 DEF T, N, IsPage

-----------------------------------------------------------------------------
(* One reader *)

\* ReadersTypeOK, for what reader r holds.
Typed(r) ==
  /\ at[r] \in {"idle", "select", "count", "page", "answered", "failed"}
  /\ question[r] \in Question \cup {None}
  /\ total[r] \in Nat /\ rows[r] \in Seq(events)
  /\ version[r] \in ParameterState \cup {None}
  /\ unseen[r] \subseteq events
  /\ floor[r] \in ParameterState \cup {None}
  /\ rows[r] # <<>> => Len(rows[r]) <= LimitOf(question[r])

\* AnswerInv and WalkInv, for reader r.
Answers(r) == Asked(r) /\ Told(r) /\ Counted(r) /\ NeverBack(r) /\ WithinReach(r)

Walks(r) == NewestFirst(r) /\ Walked(r) /\ MissesOnlyTies(r)

ReaderInv(r) == Typed(r) /\ Answers(r) /\ Walks(r)

\* What a step of reader r may change: what r itself holds.
OnlyOf(r) ==
  /\ at' = [at EXCEPT ![r] = at'[r]]
  /\ question' = [question EXCEPT ![r] = question'[r]]
  /\ total' = [total EXCEPT ![r] = total'[r]]
  /\ rows' = [rows EXCEPT ![r] = rows'[r]]
  /\ version' = [version EXCEPT ![r] = version'[r]]
  /\ unseen' = [unseen EXCEPT ![r] = unseen'[r]]
  /\ floor' = [floor EXCEPT ![r] = floor'[r]]

\* Reader r holds what it held.
Holds(r) ==
  /\ at'[r] = at[r] /\ question'[r] = question[r] /\ total'[r] = total[r]
  /\ rows'[r] = rows[r] /\ version'[r] = version[r]
  /\ unseen'[r] = unseen[r] /\ floor'[r] = floor[r]

\* An audit's question has a name, and a limit and an offset that are numbers.
LEMMA AuditQuestion ==
  ASSUME NEW q \in Question, q.op = "audit"
  PROVE  /\ q \in [op: {"audit"}, name: Names, limit: Int, offset: Int]
         /\ LimitOf(q) \in Nat /\ LimitOf(q) > 0
BY DEF Question, LimitOf

\* While the ledger grows, what a reader was told stays true.
LEMMA ReaderHolds ==
  ASSUME TrailInv, TrailInv', Grows, NEW r, Holds(r), ReaderInv(r)
  PROVE  ReaderInv(r)'
<1> USE DEF Holds, ReaderInv
<1>1. Typed(r)'
  <2>1. events \subseteq events' BY DEF Grows
  <2>2. rows[r] \in Seq(events') BY <2>1 DEF Typed
  <2>3. unseen[r] \subseteq events' BY <2>1 DEF Typed
  <2>4. QED BY <2>2, <2>3 DEF Typed
<1>2. Asked(r)' BY DEF Answers, Asked, Asks
<1>3. Told(r)'
  <2> SUFFICES ASSUME Asks(r, "version")
               PROVE  /\ WasIn(question[r].id, version[r])'
                      /\ WasIn(question[r].id, floor[r])'
    BY DEF Told, Asks
  <2>1. WasIn(question[r].id, version[r]) /\ WasIn(question[r].id, floor[r])
    BY DEF Answers, Told
  <2>2. /\ version[r] \in ParameterState \cup {None}
        /\ floor[r] \in ParameterState \cup {None}
    BY DEF Typed
  <2>3. PICK i, s, t : i = question[r].id /\ s = version[r] /\ t = floor[r]
    OBVIOUS
  <2>4. /\ s \in ParameterState \cup {None} /\ WasIn(i, s)
        /\ t \in ParameterState \cup {None} /\ WasIn(i, t)
    BY <2>1, <2>2, <2>3
  <2>5. WasIn(i, s)' /\ WasIn(i, t)' BY <2>4, WasInStays
  <2>6. i = question'[r].id /\ s = version'[r] /\ t = floor'[r] BY <2>3
  <2>7. QED BY <2>5, <2>6 DEF WasIn
<1>4. Counted(r)'
  <2>1. /\ total[r] \in Nat
        /\ at[r] = "page" => total[r] <= Cardinality(Trail(question[r].name))
    BY DEF Answers, Counted, Typed
  <2>2. PICK n : n = question[r].name OBVIOUS
  <2>3. /\ Cardinality(Trail(n)) \in Nat /\ Cardinality(Trail(n)') \in Nat
        /\ Cardinality(Trail(n)) <= Cardinality(Trail(n)')
    BY TrailFinite, TrailGrows, FS_CardinalityType
  <2>4. at[r] = "page" => total[r] <= Cardinality(Trail(n)')
    BY <2>1, <2>2, <2>3
  <2>5. Trail(question[r].name)' = Trail(n)' BY <2>2 DEF Trail
  <2>6. QED BY <2>4, <2>5 DEF Counted
<1>5. NeverBack(r)' /\ WithinReach(r)' BY DEF Answers, NeverBack, WithinReach, LimitOf
<1>6. NewestFirst(r)'
  <2>1. \A k \in 1..Len(rows[r]) : rows[r][k] \in events BY DEF Typed
  <2>2. \A j, k \in 1..Len(rows[r]) :
          j < k => occurredAt[rows[r][j]] >= occurredAt[rows[r][k]]
    BY DEF Walks, NewestFirst
  <2>3. QED BY <2>1, <2>2 DEF NewestFirst, Grows
<1>7. Walked(r)'
  <2> SUFFICES ASSUME Asks(r, "audit"), NEW e \in unseen[r]
               PROVE  /\ e \in Trail(question[r].name)'
                      /\ \/ Tied(e, question[r].name)'
                         \/ question[r].offset + Len(rows[r])
                              <= Depth(e, question[r].name)'
    BY DEF Walked, Asks, Trail, Depth, Tied, Newer
  <2> DEFINE d == question[r].offset + Len(rows[r])
  <2>name. PICK n : n = question[r].name OBVIOUS
  <2>1. /\ e \in Trail(n)
        /\ Tied(e, n) \/ d <= Depth(e, n)
    BY <2>name DEF Walks, Walked
  <2>2. d \in Int
    <3>1. question[r].offset \in Int
      BY AuditQuestion, NoQuestionAssumption DEF Typed, Asks
    <3>2. Len(rows[r]) \in Int BY DEF Typed
    <3>3. QED BY <3>1, <3>2
  <2> HIDE DEF d
  <2>3. /\ e \in Trail(n)'
        /\ Tied(e, n) => Tied(e, n)'
        /\ Depth(e, n) \in Nat /\ Depth(e, n)' \in Nat
        /\ Depth(e, n) <= Depth(e, n)'
    <3>1. e \in events BY <2>1 DEF Trail
    <3>2. QED BY <2>1, <3>1, TrailGrows, DepthGrows
  <2>4. e \in Trail(n)' /\ (Tied(e, n)' \/ d <= Depth(e, n)')
    BY <2>1, <2>2, <2>3
  <2>5. /\ Trail(question[r].name)' = Trail(n)'
        /\ Depth(e, question[r].name)' = Depth(e, n)'
        /\ Tied(e, question[r].name)' <=> Tied(e, n)'
    BY <2>name DEF Trail, Depth, Tied, Newer
  <2>6. QED BY <2>4, <2>5 DEF d
<1>8. MissesOnlyTies(r)'
  <2> SUFFICES ASSUME at[r] = "answered", question[r].op = "audit", rows[r] = <<>>,
                      NEW e \in unseen[r]
               PROVE  Tied(e, question[r].name)'
    BY DEF MissesOnlyTies
  <2>name. PICK n : n = question[r].name OBVIOUS
  <2>1. Tied(e, n) /\ e \in events BY <2>name DEF Walks, MissesOnlyTies, Typed
  <2>2. Tied(e, n)' BY <2>1, TrailGrows
  <2>3. Tied(e, question[r].name)' <=> Tied(e, n)' BY <2>name DEF Tied, Trail
  <2>4. QED BY <2>2, <2>3
<1>9. QED BY <1>1, <1>2, <1>3, <1>4, <1>5, <1>6, <1>7, <1>8 DEF Answers, Walks

-----------------------------------------------------------------------------
(* The steps of a reader *)

\* Where a walk stands depends on its question, its page and the trail.
LEMMA WalkedFrame ==
  ASSUME UNCHANGED <<params, events, occurredAt>>, NEW r,
         question'[r] = question[r], rows'[r] = rows[r], unseen'[r] = unseen[r],
         Walked(r)
  PROVE  Walked(r)'
<1>1. Asks(r, "audit")' <=> Asks(r, "audit") BY DEF Asks
<1>2. Trail(question[r].name)' = Trail(question[r].name) BY DEF Trail
<1>3. \A e : /\ Depth(e, question[r].name)' = Depth(e, question[r].name)
             /\ Tied(e, question[r].name)' <=> Tied(e, question[r].name)
  BY DEF Depth, Trail, Tied, Newer
<1>4. QED BY <1>1, <1>2, <1>3 DEF Walked

\* handler.go: a new question forgets the last answer, but what it was told.
LEMMA AskKeeps ==
  ASSUME TrailInv, NEW r \in Clients, ReadersTypeOK, ReaderInv(r),
         AskQuestion(r), UNCHANGED <<params, events, occurredAt>>
  PROVE  ReaderInv(r)' /\ OnlyOf(r)
<1>1. PICK q \in Questions :
        /\ question' = [question EXCEPT ![r] = IF RefusedQuestion(q) THEN None ELSE q]
        /\ at' = [at EXCEPT ![r] = IF RefusedQuestion(q) THEN "idle"
                                   ELSE IF q.op = "version" THEN "select"
                                   ELSE "count"]
        /\ unseen' = [unseen EXCEPT ![r] =
                        IF q.op = "audit" /\ q.offset <= 0
                        THEN Trail(q.name) ELSE {}]
        /\ floor' = [floor EXCEPT ![r] =
                       IF question[r] # q THEN None
                       ELSE IF version[r] = None THEN @ ELSE version[r]]
  BY DEF AskQuestion
<1>2. /\ total' = [total EXCEPT ![r] = 0]
      /\ rows' = [rows EXCEPT ![r] = <<>>]
      /\ version' = [version EXCEPT ![r] = None]
  BY DEF AskQuestion
<1>3. OnlyOf(r)
  BY <1>1, <1>2 DEF OnlyOf, ReadersTypeOK
<1>4. /\ question'[r] = IF RefusedQuestion(q) THEN None ELSE q
      /\ at'[r] = IF RefusedQuestion(q) THEN "idle"
                  ELSE IF q.op = "version" THEN "select" ELSE "count"
      /\ unseen'[r] = IF q.op = "audit" /\ q.offset <= 0 THEN Trail(q.name) ELSE {}
      /\ floor'[r] = IF question[r] # q THEN None
                     ELSE IF version[r] = None THEN floor[r] ELSE version[r]
      /\ total'[r] = 0 /\ rows'[r] = <<>> /\ version'[r] = None
  BY <1>1, <1>2 DEF ReadersTypeOK
<1>5. /\ q \in Question /\ q # None /\ q.op \in {"audit", "version"}
      /\ at'[r] \in {"idle", "select", "count"}
  BY <1>4, QuestionsAssumption, NoQuestionAssumption DEF Question
<1>6. Typed(r)'
  <2>1. Trail(q.name) \subseteq events BY DEF Trail
  <2>2. /\ version[r] \in ParameterState \cup {None}
        /\ floor[r] \in ParameterState \cup {None}
    BY DEF ReaderInv, Typed
  <2>3. rows'[r] \in Seq(events') BY <1>4
  <2>4. QED BY <1>4, <1>5, <2>1, <2>2, <2>3 DEF Typed
<1>7. Asked(r)'
  BY <1>4, <1>5 DEF Asked, Asks
<1>8. Told(r)'
  <2> SUFFICES ASSUME Asks(r, "version")'
               PROVE  WasIn(question[r].id, version[r])' /\ WasIn(question[r].id, floor[r])'
    BY DEF Told
  <2>1. question'[r] = q /\ q.op = "version" BY <1>4 DEF Asks
  <2>2. question[r] = q => WasIn(q.id, version[r]) /\ WasIn(q.id, floor[r])
    BY <1>5, <2>1 DEF ReaderInv, Answers, Told, Asks
  <2>3. QED BY <1>4, <2>1, <2>2 DEF WasIn
<1>9. Counted(r)' /\ NeverBack(r)' /\ WithinReach(r)' /\ MissesOnlyTies(r)'
  BY <1>5 DEF Counted, NeverBack, WithinReach, MissesOnlyTies
<1>10. NewestFirst(r)' BY <1>4 DEF NewestFirst
<1>11. Walked(r)'
  <2> SUFFICES ASSUME Asks(r, "audit")', NEW e \in unseen'[r]
               PROVE  /\ e \in Trail(question[r].name)'
                      /\ \/ Tied(e, question[r].name)'
                         \/ question'[r].offset + Len(rows'[r])
                              <= Depth(e, question[r].name)'
    BY DEF Walked
  <2>1. question'[r] = q /\ q.op = "audit" BY <1>4, <1>5 DEF Asks
  <2>2. e \in Trail(q.name) /\ q.offset <= 0 /\ q.offset \in Int
    BY <1>4, <1>5, <2>1, AuditQuestion
  <2>3. Depth(e, q.name) \in Nat BY <2>2, Depths
  <2>4. /\ Trail(question[r].name)' = Trail(q.name)
        /\ Depth(e, question[r].name)' = Depth(e, q.name)
    BY <2>1 DEF Trail, Depth, Newer
  <2>5. Len(rows'[r]) = 0 BY <1>4
  <2>6. QED BY <2>1, <2>2, <2>3, <2>4, <2>5
<1>12. QED BY <1>3, <1>6, <1>7, <1>8, <1>9, <1>10, <1>11 DEF ReaderInv, Answers, Walks

\* A step that only goes back to the COUNT of an audit.
LEMMA NextPageKeeps ==
  ASSUME TrailInv, NEW r \in Clients, ReadersTypeOK, ReaderInv(r),
         AskNextPage(r) \/ RetryPage(r), UNCHANGED <<params, events, occurredAt>>
  PROVE  ReaderInv(r)' /\ OnlyOf(r)
<1> DEFINE q == question[r]
<1>1. /\ at[r] \in {"answered", "failed"} /\ q.op = "audit"
      /\ q \in Question /\ q.name \in Names
      /\ q.offset \in Int /\ Len(rows[r]) \in Nat
  <2>1. at[r] \in {"answered", "failed"} /\ q.op = "audit"
    BY DEF AskNextPage, RetryPage
  <2>2. q \in Question BY <2>1 DEF ReaderInv, Answers, Asked, Typed
  <2>3. QED BY <2>1, <2>2, AuditQuestion DEF ReaderInv, Typed
<1>2. /\ question'[r] = [q EXCEPT !.offset = @ + Len(rows[r])]
      /\ at'[r] = "count" /\ total'[r] \in Nat /\ rows'[r] = <<>>
      /\ version'[r] = version[r] /\ unseen'[r] = unseen[r] /\ floor'[r] = floor[r]
  <2>1. CASE AskNextPage(r) BY <2>1 DEF AskNextPage, ReadersTypeOK
  <2>2. CASE RetryPage(r)
    <3>1. rows[r] = <<>> BY <2>2 DEF RetryPage, ReaderInv, Answers, Asked
    <3>2. q = [q EXCEPT !.offset = @ + Len(rows[r])]
      <4>1. q.offset + Len(rows[r]) = q.offset BY <1>1, <3>1
      <4>2. q \in [op: {"audit"}, name: Names, limit: Int, offset: Int]
        BY <1>1, AuditQuestion
      <4>3. QED BY <4>1, <4>2
    <3>3. QED BY <2>2, <3>1, <3>2 DEF RetryPage, ReadersTypeOK
  <2>3. QED BY <2>1, <2>2
<1>3. OnlyOf(r)
  BY DEF AskNextPage, RetryPage, OnlyOf, ReadersTypeOK
<1>4. /\ question'[r] \in Question /\ question'[r] # None
      /\ question'[r].op = "audit" /\ question'[r].name = q.name
      /\ question'[r].offset = q.offset + Len(rows[r])
  <2>1. q \in [op: {"audit"}, name: Names, limit: Int, offset: Int]
    BY <1>1, AuditQuestion
  <2>2. question'[r] \in [op: {"audit"}, name: Names, limit: Int, offset: Int]
    BY <1>1, <1>2, <2>1
  <2>3. QED BY <1>2, <2>1, <2>2, NoQuestionAssumption DEF Question
<1>5. Typed(r)'
  <2>1. rows'[r] \in Seq(events') BY <1>2
  <2>2. QED BY <1>2, <1>4, <2>1 DEF Typed, ReaderInv
<1>6. Asked(r)' BY <1>2, <1>4 DEF Asked, Asks
<1>7. Told(r)' BY <1>4 DEF Told, Asks
<1>8. Counted(r)' /\ NeverBack(r)' /\ WithinReach(r)' /\ MissesOnlyTies(r)'
  BY <1>2 DEF Counted, NeverBack, WithinReach, MissesOnlyTies
<1>9. NewestFirst(r)' BY <1>2 DEF NewestFirst
<1>10. Walked(r)'
  <2> SUFFICES ASSUME NEW e \in unseen'[r]
               PROVE  /\ e \in Trail(question[r].name)'
                      /\ \/ Tied(e, question[r].name)'
                         \/ question'[r].offset + Len(rows'[r])
                              <= Depth(e, question[r].name)'
    BY DEF Walked
  <2>1. Asks(r, "audit") BY <1>1, NoQuestionAssumption DEF Asks
  <2>2. /\ e \in Trail(q.name)
        /\ Tied(e, q.name) \/ q.offset + Len(rows[r]) <= Depth(e, q.name)
    BY <1>2, <2>1 DEF ReaderInv, Walks, Walked
  <2>3. /\ Trail(question[r].name)' = Trail(q.name)
        /\ Depth(e, question[r].name)' = Depth(e, q.name)
        /\ Tied(e, question[r].name)' <=> Tied(e, q.name)
    BY <1>4 DEF Trail, Depth, Tied, Newer
  <2>4. question'[r].offset + Len(rows'[r]) = q.offset + Len(rows[r])
    BY <1>1, <1>2, <1>4
  <2>5. QED BY <2>2, <2>3, <2>4
<1>11. QED BY <1>3, <1>5, <1>6, <1>7, <1>8, <1>9, <1>10 DEF ReaderInv, Answers, Walks

\* Store.GetParameterByID, and the answer not_found.
LEMMA SelectKeeps ==
  ASSUME TrailInv, NEW r \in Clients, ReadersTypeOK, ReaderInv(r),
         SelectVersion(r), UNCHANGED <<params, events, occurredAt>>
  PROVE  ReaderInv(r)' /\ OnlyOf(r)
<1> DEFINE i == question[r].id
<1>1. /\ version'[r] = IF i \in DOMAIN params THEN params[i].state ELSE None
      /\ at'[r] = "answered" /\ question'[r] = question[r]
      /\ total'[r] = total[r] /\ rows'[r] = rows[r]
      /\ unseen'[r] = unseen[r] /\ floor'[r] = floor[r]
  BY DEF SelectVersion, ReadersTypeOK
<1>2. OnlyOf(r)
  BY DEF SelectVersion, OnlyOf, ReadersTypeOK
<1>3. at[r] = "select" BY DEF SelectVersion
<1>4. /\ question[r] # None /\ question[r].op = "version" /\ rows[r] = <<>>
      /\ WasIn(i, floor[r]) /\ floor[r] \in ParameterState \cup {None}
  BY <1>3 DEF ReaderInv, Answers, Asked, Asks, Told, Typed
<1>5. i \in DOMAIN params => params[i].state \in ParameterState
  BY DEF TrailInv, IInv, TypeOK, StoreTypeOK, Row
<1>6. version'[r] \in ParameterState \cup {None} BY <1>1, <1>5
<1>7. \A s \in ParameterState : s \in StillPossible(s)
  BY DEF StillPossible, ParameterState, Promoted
<1>8. Typed(r)' BY <1>1, <1>6 DEF Typed, ReaderInv
<1>9. Asked(r)' BY <1>1, <1>4 DEF Asked
<1>10. WasIn(i, version'[r])
  BY <1>1, <1>5, <1>7 DEF WasIn
<1>11. Told(r)'
  BY <1>1, <1>4, <1>10 DEF Told, WasIn
<1>12. NeverBack(r)'
  BY <1>1, <1>4, <1>5, NoneAssumption DEF NeverBack, WasIn
<1>13. question'[r].op # "audit" BY <1>1, <1>4
<1>14. Counted(r)' /\ WithinReach(r)' /\ MissesOnlyTies(r)'
  BY <1>1, <1>13 DEF Counted, WithinReach, MissesOnlyTies
<1>15. NewestFirst(r)' BY <1>1, <1>4 DEF NewestFirst
<1>16. Walked(r)' BY <1>13 DEF Walked, Asks
<1>17. QED
  BY <1>2, <1>8, <1>9, <1>11, <1>12, <1>14, <1>15, <1>16 DEF ReaderInv, Answers, Walks

\* The COUNT of an audit: what it returned stays in the ledger.
LEMMA CountKeeps ==
  ASSUME TrailInv, NEW r \in Clients, ReadersTypeOK, ReaderInv(r),
         AuditCount(r, "count", "page"), UNCHANGED <<params, events, occurredAt>>
  PROVE  ReaderInv(r)' /\ OnlyOf(r)
<1>1. /\ total'[r] = Cardinality(Trail(question[r].name))
      /\ at'[r] = "page" /\ question'[r] = question[r]
      /\ version'[r] = version[r] /\ rows'[r] = rows[r]
      /\ unseen'[r] = unseen[r] /\ floor'[r] = floor[r]
  BY DEF AuditCount, ReadersTypeOK
<1>2. OnlyOf(r)
  BY DEF AuditCount, OnlyOf, ReadersTypeOK
<1>3. at[r] = "count" BY DEF AuditCount
<1>4. Asks(r, "audit") /\ rows[r] = <<>>
  BY <1>3 DEF ReaderInv, Answers, Asked
<1>5. total'[r] \in Nat BY <1>1, TrailFinite
<1>6. Typed(r)' BY <1>1, <1>5 DEF Typed, ReaderInv
<1>7. Asked(r)' BY <1>1, <1>4 DEF Asked, Asks
<1>8. Told(r)' BY <1>1, <1>4 DEF Told, Asks
<1>9. Counted(r)'
  <2>1. Trail(question[r].name)' = Trail(question[r].name) BY <1>1 DEF Trail
  <2>2. total'[r] = Cardinality(Trail(question[r].name)') BY <1>1, <2>1
  <2>3. QED BY <1>5, <2>2 DEF Counted
<1>10. NeverBack(r)' /\ WithinReach(r)' /\ MissesOnlyTies(r)'
  BY <1>1 DEF NeverBack, WithinReach, MissesOnlyTies
<1>11. NewestFirst(r)' BY <1>1, <1>4 DEF NewestFirst
<1>12. Walked(r)'
  <2>1. /\ question'[r] = question[r] /\ rows'[r] = rows[r]
        /\ unseen'[r] = unseen[r]
    BY <1>1
  <2>2. QED BY <2>1, WalkedFrame DEF ReaderInv, Walks
<1>13. QED
  BY <1>2, <1>6, <1>7, <1>8, <1>9, <1>10, <1>11, <1>12 DEF ReaderInv, Answers, Walks

\* A refused or failed statement: the client holds no page.
LEMMA FailureKeeps ==
  ASSUME TrailInv, NEW r \in Clients, ReadersTypeOK, ReaderInv(r),
         AuditRefused(r) \/ FailQuestion(r), UNCHANGED <<params, events, occurredAt>>
  PROVE  ReaderInv(r)' /\ OnlyOf(r)
<1>1. CASE AuditRefused(r)
  <2>1. /\ at[r] = "page" /\ at'[r] = "idle" /\ question'[r] = None
        /\ total'[r] = 0 /\ unseen'[r] = {} /\ rows'[r] = rows[r]
        /\ version'[r] = version[r] /\ floor'[r] = floor[r]
    BY <1>1 DEF AuditRefused, ReadersTypeOK
  <2>2. rows[r] = <<>> BY <2>1 DEF ReaderInv, Answers, Asked
  <2>3. OnlyOf(r) BY <1>1 DEF AuditRefused, OnlyOf, ReadersTypeOK
  <2>4. Typed(r)' BY <2>1, <2>2 DEF Typed, ReaderInv
  <2>5. Answers(r)'
    BY <2>1, <2>2 DEF Answers, Asked, Asks, Told, Counted, NeverBack, WithinReach
  <2>6. Walks(r)'
    BY <2>1, <2>2 DEF Walks, NewestFirst, Walked, Asks, MissesOnlyTies
  <2>7. QED BY <2>3, <2>4, <2>5, <2>6 DEF ReaderInv
<1>2. CASE FailQuestion(r)
  <2>1. /\ at[r] \in {"select", "count", "page"} /\ at'[r] = "failed"
        /\ question'[r] = question[r]
        /\ total'[r] = 0 /\ unseen'[r] = unseen[r] /\ rows'[r] = rows[r]
        /\ version'[r] = version[r] /\ floor'[r] = floor[r]
    BY <1>2 DEF FailQuestion, ReadersTypeOK
  <2>2. rows[r] = <<>> /\ question[r] # None
    BY <2>1 DEF ReaderInv, Answers, Asked, Asks
  <2>3. OnlyOf(r) BY <1>2 DEF FailQuestion, OnlyOf, ReadersTypeOK
  <2>4. Typed(r)' BY <2>1, <2>2 DEF Typed, ReaderInv
  <2>5. Told(r)' BY <2>1 DEF ReaderInv, Answers, Told, Asks, WasIn
  <2>6. Answers(r)'
    BY <2>1, <2>2, <2>5 DEF Answers, Asked, Counted, NeverBack, WithinReach
  <2>7. Walked(r)' BY <2>1, WalkedFrame DEF ReaderInv, Walks
  <2>8. Walks(r)'
    BY <2>1, <2>2, <2>7 DEF Walks, NewestFirst, MissesOnlyTies
  <2>9. QED BY <2>3, <2>4, <2>6, <2>8 DEF ReaderInv
<1>3. QED BY <1>1, <1>2

\* The page: what it skips was shown before, what follows it lies deeper.
LEMMA PageKeeps ==
  ASSUME TrailInv, NEW r \in Clients, ReadersTypeOK, ReaderInv(r),
         AuditPage(r, "page", "answered"), UNCHANGED <<params, events, occurredAt>>
  PROVE  ReaderInv(r)' /\ OnlyOf(r)
<1> DEFINE q == question[r]
<1>1. PICK n, limit, offset : n = q.name /\ limit = LimitOf(q) /\ offset = q.offset
  OBVIOUS
<1>page. PICK P : P = rows'[r] OBVIOUS
<1>2. PICK Q \in Pages(Trail(n), limit, offset) : rows' = [rows EXCEPT ![r] = Q]
  BY <1>1 DEF AuditPage
<1>3. /\ rows'[r] = P /\ P \in Pages(Trail(n), limit, offset)
      /\ at'[r] = "answered" /\ question'[r] = q /\ total'[r] = total[r]
      /\ version'[r] = version[r] /\ floor'[r] = floor[r]
      /\ unseen'[r] = unseen[r] \ {P[k] : k \in 1..Len(P)}
  BY <1>2, <1>page DEF AuditPage, ReadersTypeOK
<1>4. OnlyOf(r)
  BY <1>2 DEF AuditPage, OnlyOf, ReadersTypeOK
<1>5. at[r] = "page" /\ offset >= 0 BY <1>1 DEF AuditPage
<1>6. /\ Asks(r, "audit") /\ rows[r] = <<>> /\ q \in Question
      /\ total[r] \in Nat /\ total[r] <= Cardinality(Trail(n))
  BY <1>1, <1>5, NoQuestionAssumption
  DEF ReaderInv, Answers, Asked, Counted, Typed, Asks
<1>7. offset \in Nat /\ limit \in Nat /\ limit > 0
  BY <1>1, <1>5, <1>6, AuditQuestion DEF Asks
<1>8. IsPage(P, n, limit, offset) BY <1>3, <1>7, PageHolds
<1>9. /\ P \in Seq(Trail(n)) /\ Len(P) <= limit
      /\ Len(P) >= Least(limit, Cardinality(Trail(n)) - offset)
      /\ P = <<>> => \A e \in Trail(n) : Depth(e, n) < offset
  BY <1>8 DEF IsPage
<1>10. Cardinality(Trail(n)) \in Nat /\ Trail(n) \subseteq events
  BY TrailFinite
<1>11. Len(P) \in Nat /\ \A k \in 1..Len(P) : P[k] \in Trail(n) BY <1>9
<1>12. Typed(r)'
  <2>1. P \in Seq(events') BY <1>9, <1>10
  <2>2. unseen'[r] \subseteq events' BY <1>3 DEF ReaderInv, Typed
  <2>3. Len(P) <= LimitOf(question'[r]) BY <1>1, <1>3, <1>9
  <2>4. QED BY <1>3, <1>6, <2>1, <2>2, <2>3 DEF Typed, ReaderInv
<1>13. Asked(r)' BY <1>3, <1>6 DEF Asked, Asks
<1>14. Told(r)' /\ Counted(r)' /\ NeverBack(r)'
  BY <1>3, <1>6 DEF Told, Asks, Counted, NeverBack
<1>15. WithinReach(r)'
  <2>1. Len(P) >= Least(limit, total[r] - offset)
    BY <1>6, <1>7, <1>9, <1>10, <1>11 DEF Least
  <2>2. QED BY <1>1, <1>3, <2>1 DEF WithinReach
<1>16. \A j, k \in 1..Len(P) : j < k => occurredAt[P[j]] >= occurredAt[P[k]]
  BY <1>8 DEF IsPage
<1>17. NewestFirst(r)' BY <1>3, <1>16 DEF NewestFirst
<1>18. ASSUME NEW e \in unseen'[r]
       PROVE  /\ e \in Trail(n)
              /\ \/ Tied(e, n)
                 \/ P # <<>> /\ offset + Len(P) <= Depth(e, n)
  <2>1. e \in unseen[r] /\ ~\E k \in 1..Len(P) : P[k] = e BY <1>3, <1>18
  <2>2. /\ e \in Trail(n)
        /\ Tied(e, n) \/ offset <= Depth(e, n)
    <3>1. /\ e \in Trail(n)
          /\ Tied(e, n) \/ offset + Len(rows[r]) <= Depth(e, n)
      BY <1>1, <1>6, <2>1 DEF ReaderInv, Walks, Walked
    <3>2. offset + Len(rows[r]) = offset BY <1>6, <1>7
    <3>3. QED BY <3>1, <3>2
  <2>3. \/ Tied(e, n)
        \/ Depth(e, n) < offset
        \/ offset + Len(P) <= Depth(e, n)
        \/ \E k \in 1..Len(P) : P[k] = e
    BY <1>8, <2>2 DEF IsPage
  <2>4. Depth(e, n) \in Nat BY <2>2, Depths
  <2>5. QED BY <1>7, <1>9, <2>1, <2>2, <2>3, <2>4
<1>19. Walked(r)'
  <2>1. Trail(question[r].name)' = Trail(n) BY <1>1, <1>3 DEF Trail
  <2>2. \A e : /\ Depth(e, question[r].name)' = Depth(e, n)
               /\ Tied(e, question[r].name)' <=> Tied(e, n)
    BY <1>1, <1>3 DEF Trail, Depth, Tied, Newer
  <2>3. question'[r].offset = offset BY <1>1, <1>3
  <2>4. QED BY <1>3, <1>18, <2>1, <2>2, <2>3 DEF Walked
<1>20. MissesOnlyTies(r)'
  <2>1. \A e : Tied(e, question[r].name)' <=> Tied(e, n)
    BY <1>1, <1>3 DEF Trail, Tied
  <2>2. QED BY <1>3, <1>18, <2>1 DEF MissesOnlyTies
<1>21. QED
  BY <1>4, <1>12, <1>13, <1>14, <1>15, <1>17, <1>19, <1>20 DEF ReaderInv, Answers, Walks

-----------------------------------------------------------------------------
(* All readers *)

\* AnswerInv and WalkInv say ReaderInv of every reader.
LEMMA EveryReader ==
  ASSUME AnswerInv, WalkInv
  PROVE  ReadersTypeOK /\ \A r \in Clients : ReaderInv(r)
<1>1. ReadersTypeOK BY DEF AnswerInv
<1>2. ASSUME NEW r \in Clients PROVE Typed(r)
  BY <1>1 DEF ReadersTypeOK, Typed
<1>3. QED
  BY <1>1, <1>2 DEF AnswerInv, WalkInv, ReaderInv, Answers, Walks

\* Every step of a reader keeps what it holds true, and touches nobody else's.
LEMMA ReaderKeeps ==
  ASSUME TrailInv, NEW r \in Clients, ReadersTypeOK, ReaderInv(r), ReaderStep(r)
  PROVE  ReaderInv(r)' /\ OnlyOf(r)
<1>1. UNCHANGED <<params, events, occurredAt>>
  BY DEF ReaderStep, vars, timeVars
<1>2. CASE AskQuestion(r) BY <1>1, <1>2, AskKeeps
<1>3. CASE AskNextPage(r) \/ RetryPage(r) BY <1>1, <1>3, NextPageKeeps
<1>4. CASE SelectVersion(r) BY <1>1, <1>4, SelectKeeps
<1>5. CASE AuditCount(r, "count", "page") BY <1>1, <1>5, CountKeeps
<1>6. CASE AuditPage(r, "page", "answered") BY <1>1, <1>6, PageKeeps
<1>7. CASE AuditRefused(r) \/ FailQuestion(r) BY <1>1, <1>7, FailureKeeps
<1>8. QED
  BY <1>2, <1>3, <1>4, <1>5, <1>6, <1>7 DEF ReaderStep, AuditStatement

\* Answers and walks survive every step of the composition.
LEMMA ReadersKeep ==
  ASSUME TrailInv, AnswerInv, WalkInv, [ReadersNext]_allVars
  PROVE  AnswerInv' /\ WalkInv'
<1>1. ReadersTypeOK /\ \A r \in Clients : ReaderInv(r) BY EveryReader
<1>2. TrailInv' /\ Grows BY TrailStep, WorldGrows
<1>3. \A r : Holds(r) /\ ReaderInv(r) => ReaderInv(r)'
  BY <1>2, ReaderHolds
<1>4. TypeOK' /\ clock' \in Nat /\ stamp' \in [Calls -> Times \cup {None}]
      /\ occurredAt' \in [events' -> Times]
  BY <1>2 DEF TrailInv, IInv, TimeInv, ClockInv
<1>5. CASE UNCHANGED readVars
  <2>1. \A r \in Clients : Holds(r) BY <1>5 DEF readVars, Holds
  <2>2. \A r \in Clients : ReaderInv(r)' BY <1>1, <1>3, <2>1
  <2>3. events \subseteq events' BY <1>2 DEF Grows
  <2>4. rows' \in [Clients -> Seq(events')]
    <3>1. \A r \in Clients : rows[r] \in Seq(events') BY <1>1, <2>3 DEF ReadersTypeOK
    <3>2. QED BY <1>1, <1>5, <3>1 DEF readVars, ReadersTypeOK
  <2>5. unseen' \in [Clients -> SUBSET events']
    BY <1>1, <1>5, <2>3 DEF readVars, ReadersTypeOK
  <2>6. ReadersTypeOK'
    BY <1>1, <1>4, <1>5, <2>4, <2>5 DEF readVars, ReadersTypeOK, LimitOf
  <2>7. QED BY <2>2, <2>6 DEF AnswerInv, WalkInv, ReaderInv, Answers, Walks
<1>6. CASE \E r \in Clients : ReaderStep(r)
  <2>1. PICK r \in Clients : ReaderStep(r) BY <1>6
  <2>2. ReaderInv(r)' /\ OnlyOf(r) BY <1>1, <2>1, ReaderKeeps
  <2>3. \A q \in Clients : q # r => Holds(q)
    BY <1>1, <2>2 DEF OnlyOf, Holds, ReadersTypeOK
  <2>4. \A q \in Clients : ReaderInv(q)' BY <1>1, <1>3, <2>2, <2>3
  <2>5. events' = events BY <2>1 DEF ReaderStep, vars
  <2>6. ReadersTypeOK'
    <3>1. /\ at' \in [Clients -> {"idle", "select", "count", "page", "answered",
                                  "failed"}]
          /\ question' \in [Clients -> Question \cup {None}]
          /\ total' \in [Clients -> Nat]
          /\ version' \in [Clients -> ParameterState \cup {None}]
          /\ floor' \in [Clients -> ParameterState \cup {None}]
      BY <1>1, <2>2 DEF OnlyOf, ReadersTypeOK, ReaderInv, Typed
    <3>2. rows' \in [Clients -> Seq(events')]
      BY <1>1, <2>2, <2>5 DEF OnlyOf, ReadersTypeOK, ReaderInv, Typed
    <3>3. unseen' \in [Clients -> SUBSET events']
      BY <1>1, <2>2, <2>5 DEF OnlyOf, ReadersTypeOK, ReaderInv, Typed
    <3>4. \A q \in Clients : rows'[q] # <<>> => Len(rows'[q]) <= LimitOf(question'[q])
      BY <2>4 DEF ReaderInv, Typed
    <3>5. QED BY <1>4, <3>1, <3>2, <3>3, <3>4 DEF ReadersTypeOK
  <2>7. QED BY <2>4, <2>6 DEF AnswerInv, WalkInv, ReaderInv, Answers, Walks
<1>7. CASE (\E c \in Calls : ReadClock(c) \/ CallStep(c)) \/ ExpireStep
  BY <1>5, <1>7 DEF ReadClock, CallStep, ExpireStep
<1>8. CASE UNCHANGED allVars
  BY <1>5, <1>8 DEF allVars
<1>9. QED BY <1>6, <1>7, <1>8 DEF ReadersNext

\* Nobody has asked anything yet.
LEMMA ReadersStart ==
  ASSUME ReadersInit PROVE AnswerInv /\ WalkInv
<1>1. TrailInv BY TrailInit
<1>2. /\ TypeOK /\ clock \in Nat /\ stamp \in [Calls -> Times \cup {None}]
      /\ occurredAt \in [events -> Times]
  BY <1>1 DEF TrailInv, IInv, TimeInv, ClockInv
<1>3. \A r \in Clients : /\ at[r] = "idle" /\ question[r] = None /\ rows[r] = <<>>
                         /\ unseen[r] = {}
  BY DEF ReadersInit
<1>4. <<>> \in Seq(events) OBVIOUS
<1>5. ReadersTypeOK
  <2>1. /\ rows \in [Clients -> Seq(events)] /\ unseen \in [Clients -> SUBSET events]
    BY <1>4 DEF ReadersInit
  <2>2. QED BY <1>2, <1>3, <2>1 DEF ReadersInit, ReadersTypeOK
<1>6. ASSUME NEW r \in Clients PROVE Answers(r) /\ Walks(r)
  BY <1>3, <1>6 DEF Answers, Asked, Asks, Told, Counted, NeverBack, WithinReach,
                    Walks, NewestFirst, Walked, MissesOnlyTies
<1>7. QED
  BY <1>5, <1>6 DEF AnswerInv, WalkInv, Answers, Walks

-----------------------------------------------------------------------------
(* The theorems *)

(***************************************************************************)
(* ReadersAnswered: TrailInv, AnswerInv and WalkInv are an invariant of    *)
(* the server, with its clock, beside any number of readers.               *)
(***************************************************************************)
THEOREM ReadersAnswered == ReadersSpec => [](TrailInv /\ AnswerInv /\ WalkInv)
<1>1. ReadersInit => TrailInv /\ AnswerInv /\ WalkInv
  BY TrailInit, ReadersStart
<1>2. TrailInv /\ AnswerInv /\ WalkInv /\ [ReadersNext]_allVars
        => (TrailInv /\ AnswerInv /\ WalkInv)'
  BY TrailStep, ReadersKeep
<1>3. QED BY <1>1, <1>2, PTL DEF ReadersSpec

(***************************************************************************)
(* ReadersTypeCorrect: every variable of the composition has its type, and *)
(* no page of QueryAudit is longer than the limit that was asked for.      *)
(***************************************************************************)
THEOREM ReadersTypeCorrect == ReadersSpec => []ReadersTypeOK
<1>1. AnswerInv => ReadersTypeOK BY DEF AnswerInv
<1>2. QED BY <1>1, ReadersAnswered, PTL

(***************************************************************************)
(* TotalIsReached: QueryAudit counts and reads in two statements, and a    *)
(* page still shows every event the count promised it.                     *)
(***************************************************************************)
THEOREM TotalIsReached == ReadersSpec => []TotalWithinReach
<1>1. AnswerInv => TotalWithinReach BY DEF AnswerInv, TotalWithinReach
<1>2. QED BY <1>1, ReadersAnswered, PTL

(***************************************************************************)
(* VersionsAdvance: GetVersion, asked again for an id, never answers an    *)
(* earlier state, and never that there is no such version any more.        *)
(***************************************************************************)
THEOREM VersionsAdvance == ReadersSpec => []VersionsNeverGoBack
<1>1. AnswerInv => VersionsNeverGoBack BY DEF AnswerInv, VersionsNeverGoBack
<1>2. QED BY <1>1, ReadersAnswered, PTL

(***************************************************************************)
(* WalkIsComplete: a walk through an audit from offset 0 to the first      *)
(* empty page was shown every event the ledger held when it began, but for *)
(* events that share their time, whatever was appended meanwhile.          *)
(***************************************************************************)
THEOREM WalkIsComplete == ReadersSpec => []WalkMissesOnlyTies
<1>1. WalkInv => WalkMissesOnlyTies BY DEF WalkInv, WalkMissesOnlyTies
<1>2. QED BY <1>1, ReadersAnswered, PTL

(***************************************************************************)
(* AuditInOrder: if no clock is set back, no page of an audit shows a      *)
(* later stage of a row as older than an earlier one, whoever wrote the    *)
(* events, but for two events of one time.                                 *)
(***************************************************************************)
THEOREM AuditInOrder == ReadersSpec => []HistoryInOrder
<1>1. ASSUME TrailInv, AnswerInv, WalkInv PROVE HistoryInOrder
  <2> SUFFICES ASSUME ~SetBack, NEW r \in Clients,
                      NEW k \in 1..Len(rows[r]), NEW j \in 1..(k - 1)
               PROVE  InOrder(rows[r][j], rows[r][k])
    BY DEF HistoryInOrder
  <2>1. rows[r] \in Seq(events) BY <1>1 DEF AnswerInv, ReadersTypeOK
  <2>2. j \in 1..Len(rows[r]) /\ j < k BY <2>1
  <2>3. PICK d \in events, e \in events : d = rows[r][j] /\ e = rows[r][k]
    BY <2>1, <2>2
  <2>4. occurredAt[d] >= occurredAt[e]
    BY <1>1, <2>2, <2>3 DEF WalkInv, NewestFirst
  <2>5. occurredAt[d] \in Nat /\ occurredAt[e] \in Nat
    BY <1>1, TimesAssumption DEF TrailInv, TimeInv, ClockInv
  <2>6. d.parameter_id = e.parameter_id /\ Stage(d) < Stage(e)
          => occurredAt[d] <= occurredAt[e]
    BY <1>1 DEF TrailInv, TimeInv, InTime, StagesInTime
  <2>7. Stage(d) \in Nat /\ Stage(e) \in Nat BY DEF Stage
  <2>8. d.parameter_id = e.parameter_id
          => Stage(d) >= Stage(e) \/ occurredAt[d] = occurredAt[e]
    BY <2>4, <2>5, <2>6, <2>7
  <2>9. QED BY <2>3, <2>8 DEF InOrder
<1>2. QED BY <1>1, ReadersAnswered, PTL
=============================================================================
