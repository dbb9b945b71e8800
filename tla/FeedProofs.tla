----------------------------- MODULE FeedProofs -----------------------------
(***************************************************************************)
(* Proofs, for any number of calls, names, watchers and any feed capacity, *)
(* that the live feed never repeats an event (FeedInv) and that Get        *)
(* returns a row of the name it was asked for (NameInv), where no          *)
(* namespace holds the separator of the cache's keys.                      *)
(***************************************************************************)
EXTENDS AuditProofs

USE DEF Calls

-----------------------------------------------------------------------------
(* Steps that leave the feed alone *)

\* Such a step preserves FeedInv if a call that is over stays over.
LEMMA FeedFrame ==
  ASSUME FeedInv, UNCHANGED watchVars,
         \A e \in FeedEvents : pc[e.parameter_id] = "done" => pc'[e.parameter_id] = "done"
  PROVE  FeedInv'
<1>1. FeedEvents' = FeedEvents BY FeedUnchanged
<1>2. ToldCallsEnded' BY <1>1 DEF FeedInv, ToldCallsEnded
<1>3. ToldOnce' BY DEF FeedInv, ToldOnce, watchVars
<1>4. QED BY <1>2, <1>3 DEF FeedInv

\* Only the end of Submit touches the feed.
LEMMA OnlyBroadcastTells ==
  ASSUME NEW c \in Calls, Arrive(c) \/ Step(c), ~SubmitBroadcast(c)
  PROVE  UNCHANGED watchVars
<1>1. CASE Arrive(c) BY <1>1 DEF Arrive, Submit, Get, Revoke, Handle
<1>2. CASE SubmitStep(c)
  BY <1>2 DEF SubmitStep, SubmitLookup, SubmitCreate, SubmitRecord, Supersede,
     SupersedeRecord, SupersedeInvalidate, SubmitRefresh, SubmitFill,
     Record, Transition
<1>3. CASE EvaluateStep(c)
  BY <1>3 DEF EvaluateStep, Validate, ValidateRecord, Reject, RejectRecord,
     Await, ConsensusRecord, Promote, PromoteRecord, Record, Transition
<1>4. CASE GetStep(c)
  BY <1>4 DEF GetStep, GetHit, GetLoad, GetRefill, Find
<1>5. CASE RevokeStep(c)
  BY <1>5 DEF RevokeStep, RevokeFind, RevokeUpdate, RevokeRecord,
     RevokeInvalidate, Find, Record, Transition
<1>6. QED BY <1>1, <1>2, <1>3, <1>4, <1>5 DEF Step

\* Another call's end is not undone by a step of c.
LEMMA EndsStay ==
  ASSUME IInv, NEW c \in Calls, Arrive(c) \/ Step(c), NEW d \in Calls, pc[d] = "done"
  PROVE  pc'[d] = "done"
<1>1. d # c BY StepOfActive
<1>2. QED BY <1>1, StepLocal DEF Local

\* What is on the feed is about a call.
LEMMA FeedTyped ==
  ASSUME IInv, NEW e \in FeedEvents PROVE e.parameter_id \in Calls
<1>1. /\ feed \in Seq(FeedEvent)
      /\ held \in [Watchers -> FeedEvent \cup {None}]
      /\ got \in [Watchers -> Seq(FeedEvent)]
  BY DEF IInv, TypeOK, WatchTypeOK
<1>2. CASE \E n \in 1..Len(feed) : e = feed[n]
  <2>1. e \in FeedEvent BY <1>1, <1>2
  <2>2. QED BY <2>1 DEF FeedEvent
<1>3. CASE \E w \in Watchers : held[w] # None /\ e = held[w]
  <2>1. e \in FeedEvent BY <1>1, <1>3
  <2>2. QED BY <2>1 DEF FeedEvent
<1>4. CASE \E w \in Watchers : \E n \in 1..Len(got[w]) : e = got[w][n]
  <2>1. PICK w \in Watchers : \E n \in 1..Len(got[w]) : e = got[w][n]
    BY <1>4
  <2>2. got[w] \in Seq(FeedEvent) BY <1>1
  <2>3. e \in FeedEvent BY <2>1, <2>2
  <2>4. QED BY <2>3 DEF FeedEvent
<1>5. QED BY <1>2, <1>3, <1>4 DEF FeedEvents

-----------------------------------------------------------------------------
(* Steps that move events *)

\* The parameter of an event of the feed is the parameter of some FeedEvents.
LEMMA FeedPlaces ==
  /\ \A n \in 1..Len(feed) : feed[n] \in FeedEvents
  /\ \A w \in Watchers : held[w] # None => held[w] \in FeedEvents
  /\ \A w \in Watchers : \A n \in 1..Len(got[w]) : got[w][n] \in FeedEvents
<1>1. \A n \in 1..Len(feed) : feed[n] \in FeedEvents
  BY DEF FeedEvents
<1>2. \A w \in Watchers : held[w] # None => held[w] \in FeedEvents
  BY DEF FeedEvents
<1>3. ASSUME NEW w \in Watchers, NEW n \in 1..Len(got[w])
      PROVE  got[w][n] \in FeedEvents
  BY <1>3 DEF FeedEvents
<1>4. QED BY <1>1, <1>2, <1>3

\* ledger.go:122-129: the call that offers its event was never told of before.
LEMMA SubmitBroadcastFeed ==
  ASSUME IInv, FeedInv, NEW c \in Calls, SubmitBroadcast(c) PROVE FeedInv'
<1> DEFINE e == [parameter_id |-> seen[c].id, to_state |-> seen[c].state]
<1>1. /\ pc[c] = "broadcast" /\ Broadcast(e) /\ Return(c, "ok") /\ Step(c)
  BY DEF SubmitBroadcast, Step, SubmitStep
<1>2. e.parameter_id = c
  BY <1>1 DEF IInv, SeenWasCanonical
<1>3. feed \in Seq(FeedEvent) /\ FeedCap \in Nat
  BY FeedCapAssumption DEF IInv, TypeOK, WatchTypeOK
<1>4. \A f \in FeedEvents : f.parameter_id # c
  BY <1>1 DEF FeedInv, ToldCallsEnded
<1>5. UNCHANGED <<watch, held, got>> BY <1>1 DEF Broadcast
<1>6. CASE feed' = feed
  BY <1>1, <1>5, <1>6, EndsStay, FeedTyped, FeedFrame DEF watchVars
<1>7. CASE feed' = Append(feed, e)
  <2> HIDE DEF e
  <2>1. /\ Len(feed') = Len(feed) + 1 /\ Len(feed) \in Nat
        /\ feed'[Len(feed) + 1] = e
        /\ \A n \in 1..Len(feed) : feed'[n] = feed[n]
    BY <1>3, <1>7
  <2>2. \A n \in 1..Len(feed') : n = Len(feed) + 1 \/ n \in 1..Len(feed)
    BY <2>1
  <2>3. ToldCallsEnded'
    <3>1. \A f \in FeedEvents' : f \in FeedEvents \/ f = e
      BY <1>5, <2>1, <2>2 DEF FeedEvents
    <3>2. pc'[c] = "done" BY <1>1, Moves
    <3>3. \A f \in FeedEvents : pc'[f.parameter_id] = "done"
      BY <1>1, EndsStay, FeedTyped DEF FeedInv, ToldCallsEnded
    <3>4. QED BY <1>2, <3>1, <3>2, <3>3 DEF ToldCallsEnded
  <2>4. /\ \A n \in 1..Len(feed) : feed[n].parameter_id # c
        /\ \A w \in Watchers : held[w] # None => held[w].parameter_id # c
        /\ \A w \in Watchers : \A n \in 1..Len(got[w]) : got[w][n].parameter_id # c
    BY <1>4, FeedPlaces
  <2>5. ToldOnce'
    <3>1. \A n \in 1..Len(feed') :
            \/ n \in 1..Len(feed) /\ feed'[n] = feed[n]
            \/ n = Len(feed) + 1 /\ feed'[n].parameter_id = c
      BY <1>2, <2>1, <2>2
    <3>2. \A m, n \in 1..Len(feed') :
            feed'[m].parameter_id = feed'[n].parameter_id => m = n
      BY <2>4, <3>1 DEF FeedInv, ToldOnce
    <3>3. \A w \in Watchers : held[w] # None =>
            \A n \in 1..Len(feed') : feed'[n].parameter_id # held[w].parameter_id
      BY <2>4, <3>1 DEF FeedInv, ToldOnce
    <3>4. \A w \in Watchers : \A m \in 1..Len(got[w]), n \in 1..Len(feed') :
            got[w][m].parameter_id # feed'[n].parameter_id
      BY <2>4, <3>1 DEF FeedInv, ToldOnce
    <3>5. QED BY <1>5, <3>2, <3>3, <3>4 DEF FeedInv, ToldOnce
  <2>6. QED BY <2>3, <2>5 DEF FeedInv
<1>8. QED BY <1>1, <1>6, <1>7 DEF Broadcast

\* handler.go:134: the event a stream takes is no longer in the channel.
LEMMA TakeEventFeed ==
  ASSUME IInv, ToldOnce, NEW w \in Watchers, TakeEvent(w) PROVE ToldOnce'
<1>1. /\ feed \in Seq(FeedEvent) /\ feed # <<>>
      /\ held \in [Watchers -> FeedEvent \cup {None}]
      /\ feed' = Tail(feed) /\ got' = got
      /\ held' = [held EXCEPT ![w] = Head(feed)]
  BY DEF TakeEvent, IInv, TypeOK, WatchTypeOK
<1>2. 1 \in 1..Len(feed) /\ Head(feed) = feed[1]
  BY <1>1
<1>3. \A n \in 1..Len(feed') :
        n + 1 \in 1..Len(feed) /\ n + 1 # 1 /\ n \in Nat /\ feed'[n] = feed[n + 1]
  BY <1>1
<1>4. \A v \in Watchers : held'[v] = IF v = w THEN feed[1] ELSE held[v]
  BY <1>1, <1>2
<1>5. \A m, n \in 1..Len(feed') :
        feed'[m].parameter_id = feed'[n].parameter_id => m = n
  <2> SUFFICES ASSUME NEW m \in 1..Len(feed'), NEW n \in 1..Len(feed'),
                      feed'[m].parameter_id = feed'[n].parameter_id
               PROVE  m = n
    OBVIOUS
  <2>1. m + 1 = n + 1 BY <1>3 DEF ToldOnce
  <2>2. QED BY <1>3, <2>1
<1>6. \A u, v \in {x \in Watchers : held'[x] # None} :
        held'[u].parameter_id = held'[v].parameter_id => u = v
  BY <1>2, <1>4 DEF ToldOnce
<1>7. \A v \in {x \in Watchers : held'[x] # None} : \A n \in 1..Len(feed') :
        feed'[n].parameter_id # held'[v].parameter_id
  <2> SUFFICES ASSUME NEW v \in Watchers, held'[v] # None, NEW n \in 1..Len(feed')
               PROVE  feed'[n].parameter_id # held'[v].parameter_id
    OBVIOUS
  <2>1. feed'[n] = feed[n + 1] /\ n + 1 \in 1..Len(feed) /\ n + 1 # 1
    BY <1>3
  <2>2. CASE v = w
    <3>1. feed[n + 1].parameter_id # feed[1].parameter_id
      BY <1>2, <2>1 DEF ToldOnce
    <3>2. QED BY <1>4, <2>1, <2>2, <3>1
  <2>3. CASE v # w
    <3>1. held'[v] = held[v] BY <1>4, <2>3
    <3>2. feed[n + 1].parameter_id # held[v].parameter_id
      BY <2>1, <3>1 DEF ToldOnce
    <3>3. QED BY <2>1, <3>1, <3>2
  <2>4. QED BY <2>2, <2>3
<1>8. \A v \in Watchers : \A m \in 1..Len(got[v]), n \in 1..Len(feed') :
        got[v][m].parameter_id # feed'[n].parameter_id
  <2> SUFFICES ASSUME NEW v \in Watchers, NEW m \in 1..Len(got[v]),
                      NEW n \in 1..Len(feed')
               PROVE  got[v][m].parameter_id # feed'[n].parameter_id
    OBVIOUS
  <2>1. feed'[n] = feed[n + 1] /\ n + 1 \in 1..Len(feed)
    BY <1>3
  <2>2. QED BY <2>1 DEF ToldOnce
<1>9. \A v \in {x \in Watchers : held'[x] # None}, u \in Watchers :
        \A n \in 1..Len(got[u]) : got[u][n].parameter_id # held'[v].parameter_id
  BY <1>2, <1>4 DEF ToldOnce
<1>10. QED BY <1>1, <1>5, <1>6, <1>7, <1>8, <1>9 DEF ToldOnce

\* handler.go:138-144: what a client was sent is out of the handler's hand.
LEMMA SendEventFeed ==
  ASSUME IInv, ToldOnce, NEW w \in Watchers, SendEvent(w) PROVE ToldOnce'
<1>1. /\ held \in [Watchers -> FeedEvent \cup {None}]
      /\ got \in [Watchers -> Seq(FeedEvent)]
      /\ feed' = feed /\ held[w] \in FeedEvent
      /\ held' = [held EXCEPT ![w] = None]
      /\ got' = got \/ got' = [got EXCEPT ![w] = Append(got[w], held[w])]
  BY DEF SendEvent, IInv, TypeOK, WatchTypeOK
<1>2. held[w] # None BY <1>1, NoFeedEventAssumption
<1>3. \A v \in Watchers : held'[v] # None => v # w /\ held[v] # None /\ held'[v] = held[v]
  BY <1>1
<1>4. CASE got' = got
  <2>1. feed' = feed BY <1>1
  <2>2. /\ \A m, n \in 1..Len(feed') :
             feed'[m].parameter_id = feed'[n].parameter_id => m = n
        /\ \A v \in Watchers : \A m \in 1..Len(got'[v]), n \in 1..Len(feed') :
             got'[v][m].parameter_id # feed'[n].parameter_id
    BY <1>4, <2>1 DEF ToldOnce
  <2>3. \A u, v \in Watchers : \A m \in 1..Len(got'[u]), n \in 1..Len(got'[v]) :
          got'[u][m].parameter_id = got'[v][n].parameter_id => u = v /\ m = n
    BY <1>4 DEF ToldOnce
  <2>4. \A u, v \in {x \in Watchers : held'[x] # None} :
          held'[u].parameter_id = held'[v].parameter_id => u = v
    BY <1>3 DEF ToldOnce
  <2>5. \A v \in {x \in Watchers : held'[x] # None} : \A n \in 1..Len(feed') :
          feed'[n].parameter_id # held'[v].parameter_id
    <3> SUFFICES ASSUME NEW v \in Watchers, held'[v] # None, NEW n \in 1..Len(feed')
                 PROVE  feed'[n].parameter_id # held'[v].parameter_id
      OBVIOUS
    <3>1. held[v] # None /\ held'[v] = held[v] BY <1>3
    <3>2. feed[n].parameter_id # held[v].parameter_id
      BY <2>1, <3>1 DEF ToldOnce
    <3>3. QED BY <2>1, <3>1, <3>2
  <2>6. \A v \in {x \in Watchers : held'[x] # None}, u \in Watchers :
          \A n \in 1..Len(got'[u]) : got'[u][n].parameter_id # held'[v].parameter_id
    BY <1>3, <1>4 DEF ToldOnce
  <2>7. QED BY <2>2, <2>3, <2>4, <2>5, <2>6 DEF ToldOnce
<1>5. CASE got' = [got EXCEPT ![w] = Append(got[w], held[w])]
  <2> DEFINE last == Len(got[w]) + 1
  <2>1. /\ got[w] \in Seq(FeedEvent) /\ last - 1 \in Nat
        /\ \A v \in Watchers :
             got'[v] = IF v = w THEN Append(got[w], held[w]) ELSE got[v]
    BY <1>1, <1>5
  <2>2. \A v \in Watchers : \A n \in 1..Len(got'[v]) :
          \/ n \in 1..Len(got[v]) /\ got'[v][n] = got[v][n]
          \/ v = w /\ n = last /\ got'[v][n] = held[w]
    <3>1. \A n \in 1..Len(Append(got[w], held[w])) :
            \/ n \in 1..Len(got[w]) /\ Append(got[w], held[w])[n] = got[w][n]
            \/ n = last /\ Append(got[w], held[w])[n] = held[w]
      BY <1>1, <2>1
    <3>2. QED BY <2>1, <3>1
  <2> HIDE DEF last
  <2>3. \A u, v \in Watchers : \A m \in 1..Len(got'[u]), n \in 1..Len(got'[v]) :
          got'[u][m].parameter_id = got'[v][n].parameter_id => u = v /\ m = n
    <3> SUFFICES ASSUME NEW u \in Watchers, NEW v \in Watchers,
                        NEW m \in 1..Len(got'[u]), NEW n \in 1..Len(got'[v]),
                        got'[u][m].parameter_id = got'[v][n].parameter_id
                 PROVE  u = v /\ m = n
      OBVIOUS
    <3>1. \A x \in Watchers : \A k \in 1..Len(got[x]) :
            got[x][k].parameter_id # held[w].parameter_id
      BY <1>2 DEF ToldOnce
    <3>2. CASE /\ m \in 1..Len(got[u]) /\ got'[u][m] = got[u][m]
               /\ n \in 1..Len(got[v]) /\ got'[v][n] = got[v][n]
      BY <3>2 DEF ToldOnce
    <3>3. CASE /\ u = w /\ m = last /\ got'[u][m] = held[w]
               /\ v = w /\ n = last /\ got'[v][n] = held[w]
      BY <3>3
    <3>4. CASE /\ m \in 1..Len(got[u]) /\ got'[u][m] = got[u][m]
               /\ got'[v][n] = held[w]
      <4>1. got[u][m].parameter_id # held[w].parameter_id BY <3>1, <3>4
      <4>2. QED BY <3>4, <4>1
    <3>5. CASE /\ n \in 1..Len(got[v]) /\ got'[v][n] = got[v][n]
               /\ got'[u][m] = held[w]
      <4>1. got[v][n].parameter_id # held[w].parameter_id BY <3>1, <3>5
      <4>2. QED BY <3>5, <4>1
    <3>6. /\ \/ m \in 1..Len(got[u]) /\ got'[u][m] = got[u][m]
             \/ u = w /\ m = last /\ got'[u][m] = held[w]
          /\ \/ n \in 1..Len(got[v]) /\ got'[v][n] = got[v][n]
             \/ v = w /\ n = last /\ got'[v][n] = held[w]
      BY <2>2
    <3>7. QED BY <3>2, <3>3, <3>4, <3>5, <3>6
  <2>4. \A v \in Watchers : \A m \in 1..Len(got'[v]), n \in 1..Len(feed') :
          got'[v][m].parameter_id # feed'[n].parameter_id
    <3>1. \A n \in 1..Len(feed) : feed[n].parameter_id # held[w].parameter_id
      BY <1>2 DEF ToldOnce
    <3>2. QED BY <1>1, <2>2, <3>1 DEF ToldOnce
  <2>5. \A v \in {x \in Watchers : held'[x] # None}, u \in Watchers :
          \A n \in 1..Len(got'[u]) : got'[u][n].parameter_id # held'[v].parameter_id
    <3>1. \A v \in Watchers : held'[v] # None =>
            held[w].parameter_id # held'[v].parameter_id
      BY <1>2, <1>3 DEF ToldOnce
    <3>2. \A v \in Watchers : held'[v] # None =>
            \A u \in Watchers : \A n \in 1..Len(got[u]) :
              got[u][n].parameter_id # held'[v].parameter_id
      BY <1>3 DEF ToldOnce
    <3>3. QED BY <2>2, <3>1, <3>2
  <2>6. /\ \A u, v \in {x \in Watchers : held'[x] # None} :
             held'[u].parameter_id = held'[v].parameter_id => u = v
        /\ \A v \in {x \in Watchers : held'[x] # None} : \A n \in 1..Len(feed') :
             feed'[n].parameter_id # held'[v].parameter_id
    BY <1>1, <1>3 DEF ToldOnce
  <2>7. \A m, n \in 1..Len(feed') :
          feed'[m].parameter_id = feed'[n].parameter_id => m = n
    BY <1>1 DEF ToldOnce
  <2>8. QED BY <2>3, <2>4, <2>5, <2>6, <2>7 DEF ToldOnce
<1>6. QED BY <1>1, <1>4, <1>5

\* ToldOnce is about the places of events, not about the streams.
LEMMA ToldOnceFrame ==
  ASSUME ToldOnce, UNCHANGED <<feed, held, got>> PROVE ToldOnce'
<1>1. feed' = feed /\ held' = held /\ got' = got OBVIOUS
<1>2. /\ \A m, n \in 1..Len(feed') :
           feed'[m].parameter_id = feed'[n].parameter_id => m = n
      /\ \A v, w \in {u \in Watchers : held'[u] # None} :
           held'[v].parameter_id = held'[w].parameter_id => v = w
  BY <1>1 DEF ToldOnce
<1>3. \A v, w \in Watchers : \A m \in 1..Len(got'[v]), n \in 1..Len(got'[w]) :
        got'[v][m].parameter_id = got'[w][n].parameter_id => v = w /\ m = n
  BY <1>1 DEF ToldOnce
<1>4. \A v \in {u \in Watchers : held'[u] # None} : \A n \in 1..Len(feed') :
        feed'[n].parameter_id # held'[v].parameter_id
  BY <1>1 DEF ToldOnce
<1>5. \A v \in Watchers : \A m \in 1..Len(got'[v]), n \in 1..Len(feed') :
        got'[v][m].parameter_id # feed'[n].parameter_id
  BY <1>1 DEF ToldOnce
<1>6. \A v \in {u \in Watchers : held'[u] # None}, w \in Watchers :
        \A n \in 1..Len(got'[w]) : got'[w][n].parameter_id # held'[v].parameter_id
  BY <1>1 DEF ToldOnce
<1>7. QED BY <1>2, <1>3, <1>4, <1>5, <1>6 DEF ToldOnce

\* A step of a stream only passes on what the feed already held.
LEMMA WatchFeed ==
  ASSUME IInv, FeedInv, NEW w \in Watchers, WatchStep(w) PROVE FeedInv'
<1>1. pc' = pc /\ FeedEvents' \subseteq FeedEvents
  BY WatchMovesEvents DEF WatchStep, callVars
<1>2. ToldCallsEnded' BY <1>1 DEF FeedInv, ToldCallsEnded
<1>3. ToldOnce'
  <2>1. CASE OpenWatch(w) \/ CloseWatch(w)
    <3>1. UNCHANGED <<feed, held, got>> BY <2>1 DEF OpenWatch, CloseWatch
    <3>2. ToldOnce BY DEF FeedInv
    <3>3. QED BY <3>1, <3>2, ToldOnceFrame
  <2>2. QED BY <2>1, TakeEventFeed, SendEventFeed DEF WatchStep, FeedInv
<1>4. QED BY <1>2, <1>3 DEF FeedInv

\* A crash empties the channel and the handlers' hands.
LEMMA CrashFeed ==
  ASSUME IInv, FeedInv, Crash PROVE FeedInv'
<1>1. /\ feed' = <<>> /\ got' = got
      /\ \A w \in Watchers : held'[w] = None
      /\ pc' = [c \in Calls |-> IF c \in InFlight THEN "done" ELSE pc[c]]
  BY DEF Crash, LoseFeed
<1>2. ToldOnce' BY <1>1 DEF FeedInv, ToldOnce
<1>3. FeedEvents' \subseteq FeedEvents BY <1>1 DEF FeedEvents
<1>4. ToldCallsEnded'
  BY <1>1, <1>3, FeedTyped DEF FeedInv, ToldCallsEnded
<1>5. QED BY <1>2, <1>4 DEF FeedInv

-----------------------------------------------------------------------------
(* The feed repeats nothing *)

\* A row's call is over before its event moves on, and moves it once.
LEMMA NextFeed ==
  ASSUME IInv, FeedInv, [Next]_vars PROVE FeedInv'
<1>1. ASSUME NEW c \in Calls, Arrive(c) \/ Step(c) PROVE FeedInv'
  <2>1. CASE SubmitBroadcast(c) BY <2>1, SubmitBroadcastFeed
  <2>2. CASE ~SubmitBroadcast(c)
    BY <1>1, <2>2, OnlyBroadcastTells, EndsStay, FeedTyped, FeedFrame
  <2>3. QED BY <2>1, <2>2
<1>2. CASE UNCHANGED <<watchVars, pc>>
  BY <1>2, FeedFrame
<1>3. CASE \E k \in CacheKeys : Expire(k)
  BY <1>2, <1>3 DEF Expire, callVars
<1>4. CASE UNCHANGED vars
  BY <1>2, <1>4 DEF vars, watchVars
<1>5. QED BY <1>1, <1>3, <1>4, WatchFeed, CrashFeed DEF Next, Served

\* Nothing was told yet.
LEMMA InitFeed == Init => FeedInv
<1> SUFFICES ASSUME Init PROVE FeedInv
  OBVIOUS
<1>1. feed = <<>> /\ \A w \in Watchers : held[w] = None /\ got[w] = <<>>
  BY DEF Init, WatchInit
<1>2. ToldOnce BY <1>1 DEF ToldOnce
<1>3. FeedEvents = {} BY <1>1 DEF FeedEvents
<1>4. QED BY <1>2, <1>3 DEF FeedInv, ToldCallsEnded

(***************************************************************************)
(* FeedHolds: FeedInv is an invariant of the server, for every value of    *)
(* the constants: a call that anybody was told of is done, because Submit  *)
(* offers its event as its last action, and an event that a stream takes   *)
(* or sends is no longer where it was.                                     *)
(***************************************************************************)
THEOREM FeedHolds == Spec => []FeedInv
<1>1. Init => FeedInv BY InitFeed
<1>2. IInv /\ FeedInv /\ [Next]_vars => FeedInv' BY NextFeed
<1>3. QED BY <1>1, <1>2, InvariantHolds, PTL DEF Spec

(***************************************************************************)
(* NotifiedOnce: no client is sent the promotion of a parameter twice,     *)
(* with any number of calls and streams and any capacity of the channel.   *)
(***************************************************************************)
THEOREM NotifiedOnce == Spec => []ClientToldOnce
<1>1. FeedInv => ClientToldOnce
  BY DEF FeedInv, ToldOnce, ClientToldOnce
<1>2. QED BY <1>1, FeedHolds, PTL

-----------------------------------------------------------------------------
(* Get returns the name it was asked for *)

(***************************************************************************)
(* NoSeparator: no namespace holds the ":" that cacheKey puts between a    *)
(* namespace and a key.  The code does not enforce it; where a namespace   *)
(* holds one, a Get may be answered with another name's parameter.         *)
(***************************************************************************)
NoSeparator ==
  Names \subseteq [namespace: Seq(STRING \ {":"}), key: Seq(STRING)]

\* Two names of the same length of namespace are told apart by their keys.
LEMMA SplitAtSeparator ==
  ASSUME NEW a \in Seq(STRING \ {":"}), NEW b \in Seq(STRING \ {":"}),
         NEW x \in Seq(STRING), NEW y \in Seq(STRING),
         a \o <<":">> \o x = b \o <<":">> \o y
  PROVE  Len(a) <= Len(b)
<1> SUFFICES ASSUME Len(b) < Len(a) PROVE FALSE
  OBVIOUS
<1> DEFINE n == Len(b) + 1
<1>1. n \in 1..Len(a) BY DEF n
<1>2. (a \o <<":">> \o x)[n] = a[n]
  BY <1>1
<1>3. (b \o <<":">> \o y)[n] = ":"
  OBVIOUS
<1>4. a[n] \in STRING \ {":"} BY <1>1
<1>5. QED BY <1>2, <1>3, <1>4

\* Sequences of the same elements are equal.
LEMMA SameElements ==
  ASSUME NEW S, NEW s \in Seq(S), NEW t \in Seq(S), Len(s) = Len(t),
         \A k \in 1..Len(s) : s[k] = t[k]
  PROVE  s = t
OBVIOUS

\* redis.go:30: then a key of the cache belongs to one name.
LEMMA KeysApart ==
  ASSUME NoSeparator, NEW m \in Names, NEW n \in Names, cacheKey(m) = cacheKey(n)
  PROVE  m = n
<1> DEFINE a == m.namespace  x == m.key
           b == n.namespace  y == n.key
<1>1. /\ a \in Seq(STRING \ {":"}) /\ x \in Seq(STRING)
      /\ b \in Seq(STRING \ {":"}) /\ y \in Seq(STRING)
      /\ m = [namespace |-> a, key |-> x]
      /\ n = [namespace |-> b, key |-> y]
  BY DEF NoSeparator
<1>2. a \o <<":">> \o x = b \o <<":">> \o y
  BY DEF cacheKey
<1> HIDE DEF a, b, x, y
<1>3. Len(a) = Len(b)
  <2>1. Len(a) <= Len(b) BY <1>1, <1>2, SplitAtSeparator
  <2>2. Len(b) <= Len(a) BY <1>1, <1>2, SplitAtSeparator
  <2>3. QED BY <1>1, <2>1, <2>2
<1> DEFINE s == a \o <<":">> \o x
           t == b \o <<":">> \o y
<1>4. /\ Len(s) = Len(a) + 1 + Len(x) /\ Len(t) = Len(b) + 1 + Len(y)
      /\ \A k \in 1..Len(a) : s[k] = a[k]
      /\ \A k \in 1..Len(b) : t[k] = b[k]
      /\ \A k \in 1..Len(x) : s[Len(a) + 1 + k] = x[k]
      /\ \A k \in 1..Len(y) : t[Len(b) + 1 + k] = y[k]
  BY <1>1
<1>5. s = t BY <1>2
<1> HIDE DEF s, t
<1>6. a = b
  <2>1. \A k \in 1..Len(a) : a[k] = b[k] BY <1>3, <1>4, <1>5
  <2>2. a \in Seq(STRING) /\ b \in Seq(STRING) BY <1>1
  <2>3. QED BY <1>3, <2>1, <2>2, SameElements
<1>7. x = y
  <2>1. Len(x) = Len(y) BY <1>1, <1>3, <1>4, <1>5
  <2>2. \A k \in 1..Len(x) : x[k] = y[k] BY <1>3, <1>4, <1>5, <2>1
  <2>3. QED BY <1>1, <2>1, <2>2, SameElements
<1>8. QED BY <1>1, <1>6, <1>7

\* What a call has read keeps its name.
LEMMA LoadedStays ==
  ASSUME IInv, [Next]_vars, DOMAIN params \subseteq DOMAIN params', NEW d \in Calls,
         LoadedItsName(d), req'[d] = req[d], seen'[d] = seen[d],
         pc'[d] = "refill" => pc[d] = "refill",
         reply'[d] = "ok" => reply[d] = "ok" \/ pc[d] = "refill"
  PROVE  LoadedItsName(d)'
<1> SUFFICES ASSUME req[d] # None, req[d].op = "get",
                    pc'[d] = "refill" \/ reply'[d] = "ok"
             PROVE  params'[seen[d].id].name = req[d].name
  BY DEF LoadedItsName
<1>1. pc[d] = "refill" \/ reply[d] = "ok"
  OBVIOUS
<1>2. seen[d] # None /\ seen[d].id \in DOMAIN params
  BY <1>1 DEF IInv, SeenWasCanonical, WasCanonical
<1>3. params[seen[d].id].name = req[d].name
  BY <1>1 DEF LoadedItsName
<1>4. QED BY <1>2, <1>3, NamesStay

\* The calls of Submit, Evaluate and Revoke do not serve a Get.
LEMMA NotAGet ==
  ASSUME IInv, AuditInv, NEW c \in Calls,
         SubmitStep(c) \/ EvaluateStep(c) \/ RevokeStep(c)
  PROVE  req'[c].op # "get"
<1>1. Private(c) /\ Owned(c) /\ AuditedSoFar(c)
  BY DEF IInv, PrivateUntilPromoted, AuditInv
<1>2. CASE SubmitStep(c)
  <2>1. /\ req' = req
        /\ pc[c] \in {"lookup", "create", "recordSubmitted", "supersede",
             "recordSuperseded", "invalidate", "refresh", "fill", "broadcast"}
    BY <1>2 DEF SubmitStep, SubmitLookup, SubmitCreate, SubmitRecord, Supersede,
       SupersedeRecord, SupersedeInvalidate, SubmitRefresh, SubmitFill,
       SubmitBroadcast, Record, Transition
  <2>2. QED BY <1>1, <2>1 DEF Private, Owned, NoRowYet
<1>3. CASE EvaluateStep(c)
  <2>1. /\ req' = req
        /\ pc[c] \in {"validate", "recordValidated", "reject", "recordRejected",
             "await", "recordConsensus", "promote", "recordPromoted"}
    BY <1>3 DEF EvaluateStep, Validate, ValidateRecord, Reject, RejectRecord,
       Await, ConsensusRecord, Promote, PromoteRecord, Record, Transition
  <2>2. QED BY <1>1, <2>1 DEF Private, Owned, NoRowYet
<1>4. CASE RevokeStep(c)
  <2>1. /\ req' = req
        /\ pc[c] \in {"find", "revoke", "recordRevoked", "drop"}
    BY <1>4 DEF RevokeStep, RevokeFind, RevokeUpdate, RevokeRecord,
       RevokeInvalidate, Find, Record, Transition
  <2>2. QED BY <1>1, <2>1 DEF AuditedSoFar
<1>5. QED BY <1>2, <1>3, <1>4

\* ledger.go:136-145: from the cache, or from the table, under its own name.
LEMMA GetNames ==
  ASSUME NoSeparator, IInv, AuditInv, NEW c \in Calls, LoadedItsName(c), GetStep(c)
  PROVE  LoadedItsName(c)'
<1>1. /\ pc[c] # "done" /\ reply[c] # "ok"
  BY StepOfActive DEF Step, IInv, SeenWasCanonical
<1>2. /\ \A l : Goto(c, l) => pc'[c] = l /\ reply'[c] # "ok"
      /\ \A r : Return(c, r) => pc'[c] = "done" /\ reply'[c] = r
  BY <1>1, Moves
<1>3. seen \in [Calls -> Snapshot \cup {None}]
  BY DEF IInv, TypeOK
<1>4. CASE GetHit(c)
  <2> DEFINE n == req[c].name
  <2>1. PICK out \in Outcomes :
          /\ seen' = [seen EXCEPT ![c] = GetCanonical(n, out)]
          /\ IF GetCanonical(n, out) # None THEN Return(c, "ok") ELSE Goto(c, "load")
    BY <1>4 DEF GetHit
  <2>2. pc[c] = "hit" /\ UNCHANGED <<params, req>> BY <1>4 DEF GetHit
  <2> DEFINE p == GetCanonical(n, out)
  <2>3. CASE p = None
    BY <1>2, <2>1, <2>3 DEF LoadedItsName
  <2>4. CASE p # None
    <3>1. n \in Names
      BY <2>2, RequestsAssumption DEF IInv, Owned, TypeOK, Request
    <3>2. cacheKey(n) \in CacheKeys BY <3>1 DEF CacheKeys
    <3>3. p = cache[cacheKey(n)] BY <2>4 DEF GetCanonical
    <3>4. /\ cacheKey(params[p.id].name) = cacheKey(n)
          /\ p.id \in DOMAIN params
      BY <2>4, <3>2, <3>3 DEF IInv, CachedWasCanonical, WasCanonical
    <3>5. params[p.id].name \in Names
      BY <3>4 DEF IInv, TypeOK, StoreTypeOK, Row
    <3>6. params[p.id].name = n BY <3>1, <3>4, <3>5, KeysApart
    <3>7. seen'[c] = p BY <1>3, <2>1
    <3>8. QED BY <2>2, <3>6, <3>7 DEF LoadedItsName
  <2>5. QED BY <2>3, <2>4
<1>5. CASE GetLoad(c)
  <2>1. UNCHANGED <<params, req>> BY <1>5 DEF GetLoad, Find
  <2>2. CASE \E i \in GetParameter(req[c].name) :
               seen' = [seen EXCEPT ![c] = ScanParameter(i)]
    <3>1. PICK i \in GetParameter(req[c].name) : seen'[c] = ScanParameter(i)
      BY <1>3, <2>2
    <3>2. params[i].name = req[c].name /\ ScanParameter(i).id = i
      BY FoundIsCanonical
    <3>3. QED BY <2>1, <3>1, <3>2 DEF LoadedItsName
  <2>3. CASE Return(c, "not_found") \/ Return(c, "internal")
    BY <1>2, <2>3 DEF LoadedItsName
  <2>4. QED BY <1>5, <2>2, <2>3 DEF GetLoad, Find
<1>6. CASE GetRefill(c)
  BY <1>6 DEF GetRefill, LoadedItsName
<1>7. QED BY <1>4, <1>5, <1>6 DEF GetStep

\* NameInv is inductive relative to IInv and AuditInv.
LEMMA NextNames ==
  ASSUME NoSeparator, IInv, AuditInv, NameInv, [Next]_vars PROVE NameInv'
<1>1. ASSUME NEW c \in Calls, Arrive(c) \/ Step(c) PROVE NameInv'
  <2> SUFFICES ASSUME NEW d \in Calls PROVE LoadedItsName(d)'
    BY DEF NameInv
  <2>1. Local(c) /\ LoadedItsName(d) BY <1>1, StepLocal DEF NameInv
  <2>2. CASE d # c BY <2>1, <2>2, LoadedStays DEF Local
  <2>3. CASE d = c /\ Arrive(c)
    <3>1. pc[c] # "done" BY <2>3, StepOfActive
    <3>2. PICK first \in {"lookup", "hit", "find"} :
            Return(c, "invalid_argument") \/ Goto(c, first)
      BY <2>3 DEF Arrive, Submit, Get, Revoke, Handle
    <3>3. pc'[c] # "refill" /\ reply'[c] # "ok"
      BY <3>1, <3>2, Moves
    <3>4. QED BY <2>3, <3>3 DEF LoadedItsName
  <2>4. CASE d = c /\ GetStep(c) BY <2>1, <2>4, GetNames
  <2>5. CASE d = c /\ (SubmitStep(c) \/ EvaluateStep(c) \/ RevokeStep(c))
    BY <2>5, NotAGet DEF LoadedItsName
  <2>6. QED BY <1>1, <2>2, <2>3, <2>4, <2>5 DEF Step
<1>2. CASE /\ UNCHANGED <<params, req, seen>>
           /\ \A d \in Calls : pc'[d] = "refill" => pc[d] = "refill"
           /\ \A d \in Calls : reply'[d] = "ok" => reply[d] = "ok"
  BY <1>2, LoadedStays DEF NameInv
<1>3. CASE Crash
  BY <1>2, <1>3 DEF Crash
<1>4. CASE (\E k \in CacheKeys : Expire(k)) \/ (\E w \in Watchers : WatchStep(w))
  BY <1>2, <1>4 DEF Expire, WatchStep, callVars
<1>5. CASE UNCHANGED vars
  BY <1>2, <1>5 DEF vars
<1>6. QED BY <1>1, <1>3, <1>4, <1>5 DEF Next, Served

(***************************************************************************)
(* GetsItsName: where no namespace holds the separator of the cache's      *)
(* keys, an answered Get returns a row of the name it was asked for, from  *)
(* the cache or from the table, however long ago the row was read.         *)
(***************************************************************************)
THEOREM GetsItsName ==
  ASSUME NoSeparator PROVE Spec => []GetReturnsItsName
<1>1. Init => NameInv
  BY NoRequestAssumption DEF Init, NameInv, LoadedItsName
<1>2. IInv /\ AuditInv /\ NameInv /\ [Next]_vars => NameInv'
  BY NextNames
<1>3. IInv /\ NameInv => GetReturnsItsName
  BY DEF IInv, SeenWasCanonical, Owned, NameInv, LoadedItsName, GetReturnsItsName
<1>4. QED BY <1>1, <1>2, <1>3, InvariantHolds, AuditHolds, PTL DEF Spec
=============================================================================
