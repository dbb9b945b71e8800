------------------------------- MODULE Watch -------------------------------
(***************************************************************************)
(* The live feed: the buffered channel of ledger.Service, into which       *)
(* Submit offers an event without ever waiting, and the Watch handlers     *)
(* that take events out of that one channel and send them on their stream. *)
(* Nothing closes the channel, so the handler's `!ok` branch is dead.      *)
(***************************************************************************)
EXTENDS Naturals, Sequences, Parameter

CONSTANTS
  Watchers,  \* Watch streams
  FeedCap    \* capacity of the channel: 256 in NewService

ASSUME FeedCapAssumption == FeedCap \in Nat \ {0}

VARIABLES
  feed,   \* content of the channel, oldest first
  watch,  \* watch[w]: is the stream "closed", "waiting" in select, or "sending"
  held,   \* held[w]: the event between the receive and the end of stream.Send
  got     \* got[w]: the events the client of stream w was sent

watchVars == <<feed, watch, held, got>>

\* EventType is always PROMOTED; the other fields are zero.
FeedEvent == [parameter_id: Ids, to_state: ParameterState]

ASSUME NoFeedEventAssumption == None \notin FeedEvent

\* Mutant: the select has no default.
BroadcastWaiting(e) ==
  /\ Len(feed) < FeedCap
  /\ feed' = Append(feed, e)
  /\ UNCHANGED <<watch, held, got>>

\* Mutant: the capacity is off by one.
BroadcastOverfull(e) ==
  /\ feed' = IF Len(feed) <= FeedCap THEN Append(feed, e) ELSE feed
  /\ UNCHANGED <<watch, held, got>>

\* The select with a default: a full channel drops the event.
Broadcast(e) ==
  /\ feed' = IF Len(feed) < FeedCap THEN Append(feed, e) ELSE feed
  /\ UNCHANGED <<watch, held, got>>

OpenWatch(w) ==
  /\ watch[w] = "closed"
  /\ watch' = [watch EXCEPT ![w] = "waiting"]
  /\ UNCHANGED <<feed, held, got>>

\* case <-ctx.Done()
CloseWatch(w) ==
  /\ watch[w] = "waiting"
  /\ watch' = [watch EXCEPT ![w] = "closed"]
  /\ UNCHANGED <<feed, held, got>>

\* Mutant: the event stays in the channel.
PeekEvent(w) ==
  /\ watch[w] = "waiting"
  /\ feed # <<>>
  /\ held' = [held EXCEPT ![w] = Head(feed)]
  /\ watch' = [watch EXCEPT ![w] = "sending"]
  /\ UNCHANGED <<feed, got>>

\* case e, ok := <-ch
TakeEvent(w) ==
  /\ watch[w] = "waiting"
  /\ feed # <<>>
  /\ held' = [held EXCEPT ![w] = Head(feed)]
  /\ feed' = Tail(feed)
  /\ watch' = [watch EXCEPT ![w] = "sending"]
  /\ UNCHANGED got

SendEvent(w) ==
  /\ watch[w] = "sending"
  /\ \/ /\ got' = [got EXCEPT ![w] = Append(@, held[w])]
        /\ watch' = [watch EXCEPT ![w] = "waiting"]
     \/ \* stream.Send failed: the handler returns, the event is gone
        /\ watch' = [watch EXCEPT ![w] = "closed"]
        /\ UNCHANGED got
  /\ held' = [held EXCEPT ![w] = None]
  /\ UNCHANGED feed

\* The process dies: the channel and every stream die with it.
LoseFeed ==
  /\ feed' = <<>>
  /\ watch' = [w \in Watchers |-> "closed"]
  /\ held' = [w \in Watchers |-> None]
  /\ UNCHANGED got

WatchTypeOK ==
  /\ feed \in Seq(FeedEvent) /\ Len(feed) <= FeedCap
  /\ watch \in [Watchers -> {"closed", "waiting", "sending"}]
  /\ held \in [Watchers -> FeedEvent \cup {None}]
  /\ got \in [Watchers -> Seq(FeedEvent)]
  /\ \A w \in Watchers : watch[w] = "sending" => held[w] \in FeedEvent

WatchInit ==
  /\ feed = <<>>
  /\ watch = [w \in Watchers |-> "closed"]
  /\ held = [w \in Watchers |-> None]
  /\ got = [w \in Watchers |-> <<>>]
=============================================================================
