----------------------------- MODULE EventStream -----------------------------
(***************************************************************************)
(* Events from publishers to subscribers: EventBus (service/eventbus.go)   *)
(* and SubscriptionService.HandleSSE (service/subscription.go), over the   *)
(* table events and the connection limit of ratelimit/limiter.go.          *)
(*                                                                         *)
(* A "connection" is one run of HandleSSE: the goroutine together with the *)
(* SubscriberChannel it registers.  Several connections may carry one      *)
(* subscriber id; the bus knows the newest only.  One action is a critical *)
(* section of the bus, a call of the store or a step of the select loop.   *)
(***************************************************************************)
EXTENDS Nothing, Integers, Sequences, FiniteSets

CONSTANTS
  Subscribers,  \* subscriber ids
  Connections,  \* runs of HandleSSE: bounds how many there are
  Publishers,   \* goroutines that publish
  MaxEvents,    \* bounds how many events are appended
  Headers,      \* numbers that clients send as Last-Event-ID: bounds its inputs
  Buffer,       \* subscriberBufferSize
  Limit,        \* how many events a replay reads
  MaxConn       \* connections the limiter admits for one subscriber

ASSUME NoneIsNoName == None \notin Connections \cup Subscribers
ASSUME HeadersAreIds == Headers \subseteq 0 .. MaxEvents
ASSUME SizesArePositive == {MaxEvents, Buffer, Limit, MaxConn} \subseteq Nat \ {0}

VARIABLES
  last,    \* the newest id in table events (AUTOINCREMENT)
  pruned,  \* the newest id deleted from table events
  reg,     \* bus.subscribers: subscriber id -> connection or None
  conn,    \* connection -> the locals of its handler, and its channels
  pub,     \* publisher -> the locals of Publish
  slots,   \* the limiter's entries: subscriber id -> conns
  cursor   \* table subscriber_checkpoints: subscriber id -> last_event_id

streamVars == <<last, pruned, reg, conn, pub, slots, cursor>>

(***************************************************************************)
(* Ch is "ch", Done is "closes": how often it was closed (twice panics).   *)
(* History: "got", the ids written to the client.                          *)
(***************************************************************************)
Ids == 1 .. MaxEvents

Serving == {"registered", "streaming", "evicted", "cancelled"}

Connection ==
  [stage : {"new", "admitted", "released", "gone"} \cup Serving,
   sub : Subscribers \cup {None}, after : 0 .. MaxEvents, lastSent : 0 .. MaxEvents,
   ch : Seq(Ids), closes : Nat, got : SUBSET Ids]

Publisher ==
  [at : {"idle", "fanout", "send", "evict"}, id : 0 .. MaxEvents,
   todo : SUBSET Subscribers, toEvict : SUBSET Subscribers]

StreamTypeOK ==
  /\ last \in 0 .. MaxEvents
  /\ pruned \in 0 .. last
  /\ reg \in [Subscribers -> Connections \cup {None}]
  /\ conn \in [Connections -> Connection]
  /\ \A c \in Connections : Len(conn[c].ch) <= Buffer
  /\ pub \in [Publishers -> Publisher]
  /\ slots \in [Subscribers -> 0 .. MaxConn]
  /\ cursor \in [Subscribers -> 0 .. MaxEvents]

IdlePublisher == [at |-> "idle", id |-> 0, todo |-> {}, toEvict |-> {}]

StreamInit ==
  /\ last = 0 /\ pruned = 0
  /\ reg = [s \in Subscribers |-> None]
  /\ conn = [c \in Connections |->
               [stage |-> "new", sub |-> None, after |-> 0, lastSent |-> 0,
                ch |-> <<>>, closes |-> 0, got |-> {}]]
  /\ pub = [p \in Publishers |-> IdlePublisher]
  /\ slots = [s \in Subscribers |-> 0]
  /\ cursor = [s \in Subscribers |-> 0]

-----------------------------------------------------------------------------
(***************************************************************************)
(* Publish: append the event (a failing append publishes nothing); under   *)
(* the read lock offer it to every channel without waiting; under the      *)
(* write lock evict the subscribers whose channel was full.                *)
(***************************************************************************)
Store(p) ==
  /\ pub[p].at = "idle" /\ last < MaxEvents
  /\ last' = last + 1
  /\ pub' = [pub EXCEPT ![p].at = "fanout", ![p].id = last + 1]
  /\ UNCHANGED <<pruned, reg, conn, slots, cursor>>

FanOut(p) ==
  /\ pub[p].at = "fanout"
  /\ pub' = [pub EXCEPT ![p].at = "send", ![p].todo = {s \in Subscribers : reg[s] # None}]
  /\ UNCHANGED <<last, pruned, reg, conn, slots, cursor>>

\* Defect: an event that finds the channel full is dropped, nobody is evicted.
Send_Drops(p, s) ==
  LET full == Len(conn[reg[s]].ch) >= Buffer
  IN  /\ pub[p].at = "send" /\ s \in pub[p].todo
      /\ conn' = IF full THEN conn ELSE [conn EXCEPT ![reg[s]].ch = Append(@, pub[p].id)]
      /\ pub' = [pub EXCEPT ![p].todo = @ \ {s}]
      /\ UNCHANGED <<last, pruned, reg, slots, cursor>>

Send(p, s) ==
  LET c == reg[s]
      full == Len(conn[c].ch) >= Buffer
  IN  /\ pub[p].at = "send" /\ s \in pub[p].todo
      /\ conn' = IF full THEN conn ELSE [conn EXCEPT ![c].ch = Append(@, pub[p].id)]
      /\ pub' = [pub EXCEPT ![p].todo = @ \ {s},
                            ![p].toEvict = IF full THEN @ \cup {s} ELSE @]
      /\ UNCHANGED <<last, pruned, reg, slots, cursor>>

FanOutDone(p) ==
  /\ pub[p].at = "send" /\ pub[p].todo = {}
  /\ pub' = [pub EXCEPT ![p] = IF @.toEvict = {} THEN IdlePublisher ELSE [@ EXCEPT !.at = "evict"]]
  /\ UNCHANGED <<last, pruned, reg, conn, slots, cursor>>

\* The write lock is free: no publisher is inside its fan-out.
Exclusive == \A p \in Publishers : pub[p].at # "send"

\* The connections once those registered for S have had their Done closed.
Closed(S) ==
  [c \in Connections |->
     IF \E s \in S : reg[s] = c THEN [conn[c] EXCEPT !.closes = @ + 1] ELSE conn[c]]

\* Defect: the evicted are forgotten, but not told.
Evict_Silently(p) ==
  /\ pub[p].at = "evict" /\ Exclusive
  /\ reg' = [s \in Subscribers |-> IF s \in pub[p].toEvict THEN None ELSE reg[s]]
  /\ pub' = [pub EXCEPT ![p] = IdlePublisher]
  /\ UNCHANGED <<last, pruned, conn, slots, cursor>>

Evict(p) ==
  /\ pub[p].at = "evict" /\ Exclusive
  /\ conn' = Closed(pub[p].toEvict)
  /\ reg' = [s \in Subscribers |-> IF s \in pub[p].toEvict THEN None ELSE reg[s]]
  /\ pub' = [pub EXCEPT ![p] = IdlePublisher]
  /\ UNCHANGED <<last, pruned, slots, cursor>>

(***************************************************************************)
(* EventPrunerTask: the events older than the replay window are deleted.   *)
(***************************************************************************)
Prune ==
  /\ pruned' \in (pruned + 1) .. last
  /\ UNCHANGED <<last, reg, conn, pub, slots, cursor>>

-----------------------------------------------------------------------------
(***************************************************************************)
(* HandleSSE.  The limiter admits the connection and the subscriber is     *)
(* read.  The stream starts after the subscriber's checkpoint or, when     *)
(* that is larger, the Last-Event-ID header: whatever number the client    *)
(* sends, whether or not it was sent that event or there is one yet.       *)
(***************************************************************************)
Admit(c, s) ==
  /\ conn[c].stage = "new" /\ slots[s] < MaxConn
  /\ slots' = [slots EXCEPT ![s] = @ + 1]
  /\ \E after \in {cursor[s]} \cup {h \in Headers : h > cursor[s]} :
       conn' = [conn EXCEPT ![c].stage = "admitted", ![c].sub = s, ![c].after = after]
  /\ UNCHANGED <<last, pruned, reg, pub, cursor>>

\* Reading the subscriber fails: the handler returns before it registers.
NotFound(c) ==
  /\ conn[c].stage = "admitted"
  /\ conn' = [conn EXCEPT ![c].stage = "released"]
  /\ UNCHANGED <<last, pruned, reg, pub, slots, cursor>>

\* Defect: the connection that is replaced is not told.
Register_KeepsOld(c) ==
  /\ conn[c].stage = "admitted" /\ Exclusive
  /\ conn' = [conn EXCEPT ![c].stage = "registered"]
  /\ reg' = [reg EXCEPT ![conn[c].sub] = c]
  /\ UNCHANGED <<last, pruned, pub, slots, cursor>>

Register(c) ==
  /\ conn[c].stage = "admitted" /\ Exclusive
  /\ conn' = [Closed({conn[c].sub}) EXCEPT ![c].stage = "registered"]
  /\ reg' = [reg EXCEPT ![conn[c].sub] = c]
  /\ UNCHANGED <<last, pruned, pub, slots, cursor>>

\* ListAfter: the first Limit stored events with a larger id.
Backlog(c) ==
  LET from == IF conn[c].after > pruned THEN conn[c].after ELSE pruned
  IN  {e \in Ids : from < e /\ e <= last /\ e <= from + Limit}

Replay(c) ==
  /\ conn[c].stage = "registered"
  /\ conn' = [conn EXCEPT ![c].stage = "streaming", ![c].got = Backlog(c),
                          ![c].lastSent = conn[c].after]
  /\ UNCHANGED <<last, pruned, reg, pub, slots, cursor>>

\* The client leaves, or the store fails, while the replay is written.
CutReplay(c) ==
  /\ conn[c].stage = "registered"
  /\ \E n \in 0 .. last :
       conn' = [conn EXCEPT ![c].stage = "cancelled",
                            ![c].got = {e \in Backlog(c) : e <= n}]
  /\ UNCHANGED <<last, pruned, reg, pub, slots, cursor>>

\* The select loop takes an event; one not newer than the last is skipped.
Deliver(c) ==
  LET e == Head(conn[c].ch)
      newer == e > conn[c].lastSent
  IN  /\ conn[c].stage = "streaming" /\ conn[c].ch # <<>>
      /\ conn' = [conn EXCEPT ![c].ch = Tail(@),
                              ![c].got = IF newer THEN @ \cup {e} ELSE @,
                              ![c].lastSent = IF newer THEN e ELSE @]
      /\ UNCHANGED <<last, pruned, reg, pub, slots, cursor>>

\* The select loop finds Done closed and writes subscriber_evicted.
Evicted(c) ==
  /\ conn[c].stage = "streaming" /\ conn[c].closes > 0
  /\ conn' = [conn EXCEPT ![c].stage = "evicted"]
  /\ UNCHANGED <<last, pruned, reg, pub, slots, cursor>>

\* The select loop finds the request's context cancelled.  UpdateCheckpoint
\* gets that same context, so its statement fails and the cursor stays.
Cancel(c) ==
  /\ conn[c].stage = "streaming"
  /\ conn' = [conn EXCEPT ![c].stage = "cancelled"]
  /\ UNCHANGED <<last, pruned, reg, pub, slots, cursor>>

\* Defect: Done is closed but the entry stays in the map.
Unregister_KeepsEntry(c) ==
  /\ conn[c].stage \in {"evicted", "cancelled"} /\ Exclusive
  /\ conn' = [Closed({conn[c].sub}) EXCEPT ![c].stage = "released"]
  /\ UNCHANGED <<last, pruned, reg, pub, slots, cursor>>

\* The deferred Unregister: whatever is registered for the id is removed.
Unregister(c) ==
  /\ conn[c].stage \in {"evicted", "cancelled"} /\ Exclusive
  /\ conn' = [Closed({conn[c].sub}) EXCEPT ![c].stage = "released"]
  /\ reg' = [reg EXCEPT ![conn[c].sub] = None]
  /\ UNCHANGED <<last, pruned, pub, slots, cursor>>

\* Defect: only a connection that had registered gives its slot back.
Release_OnceServed(c) ==
  /\ conn[c].stage = "released"
  /\ slots' = [slots EXCEPT ![conn[c].sub] =
                 IF conn[c].lastSent > 0 \/ conn[c].got # {} THEN @ - 1 ELSE @]
  /\ conn' = [conn EXCEPT ![c].stage = "gone", ![c].ch = <<>>]
  /\ UNCHANGED <<last, pruned, reg, pub, cursor>>

\* The deferred Release of the limiter; nobody reads the channel any more.
Release(c) ==
  /\ conn[c].stage = "released"
  /\ slots' = [slots EXCEPT ![conn[c].sub] = IF @ > 0 THEN @ - 1 ELSE @]
  /\ conn' = [conn EXCEPT ![c].stage = "gone", ![c].ch = <<>>]
  /\ UNCHANGED <<last, pruned, reg, pub, cursor>>

-----------------------------------------------------------------------------
PublisherStep(p) ==
  FanOut(p) \/ (\E s \in Subscribers : Send(p, s)) \/ FanOutDone(p) \/ Evict(p)

HandlerStep(c) ==
  Register(c) \/ Replay(c) \/ Deliver(c) \/ Evicted(c) \/ Unregister(c) \/ Release(c)

StreamNext ==
  \/ \E p \in Publishers : Store(p) \/ PublisherStep(p)
  \/ Prune
  \/ \E c \in Connections :
       \/ \E s \in Subscribers : Admit(c, s)
       \/ NotFound(c) \/ CutReplay(c) \/ Cancel(c) \/ HandlerStep(c)

StreamSpec == StreamInit /\ [][StreamNext]_streamVars

(***************************************************************************)
(* A goroutine that can go on does: Publish never waits for a subscriber,  *)
(* the lock is granted to its waiters, and select takes a ready case.      *)
(* Nothing forces events, connections, failures or pruning to happen.      *)
(***************************************************************************)
StreamFairness ==
  /\ \A p \in Publishers : WF_streamVars(PublisherStep(p))
  /\ \A c \in Connections : WF_streamVars(HandlerStep(c))

FairStreamSpec == StreamSpec /\ StreamFairness

-----------------------------------------------------------------------------
(***************************************************************************)
(* The bus and the limiter.                                                *)
(***************************************************************************)

\* No Done channel is closed twice (the second close would panic): of the
\* three places that close one, whichever comes first removes the entry.
ClosedOnce == \A c \in Connections : conn[c].closes <= 1

\* The bus holds exactly the connections that are being served and were not
\* told to stop: none is left waiting on a channel nobody sends to, and no
\* channel without a reader stays in the map.
BusHoldsTheOpen ==
  \A s \in Subscribers, c \in Connections :
    reg[s] = c <=> /\ conn[c].sub = s
                   /\ conn[c].stage \in Serving
                   /\ conn[c].closes = 0

\* The limiter counts the handlers that run, however each of them ends.
SlotsExact ==
  \A s \in Subscribers :
    slots[s] = Cardinality({c \in Connections :
                              conn[c].sub = s /\ conn[c].stage # "gone"})

(***************************************************************************)
(* What a client receives, when one goroutine publishes at a time and a    *)
(* replay fits in one read (MaxEvents <= Limit).                           *)
(***************************************************************************)

\* There is no gap in what a connection has received: when it has got an
\* event, it has got every earlier one since its start that is still stored.
NoGap ==
  \A c \in Connections : \A f \in conn[c].got, e \in Ids :
    conn[c].after < e /\ e < f => e \in conn[c].got \/ e <= pruned

\* Every event stored by the time a connection streams reaches it, unless the
\* connection ends first.
ReachesAll ==
  \A c \in Connections, e \in Ids :
    (conn[c].stage = "streaming" /\ conn[c].after < e /\ pruned < e /\ e <= last)
      ~> (e \in conn[c].got \/ conn[c].stage = "gone")

\* A connection that was replaced or evicted ends.
StoppedEnds ==
  \A c \in Connections :
    (conn[c].stage = "streaming" /\ reg[conn[c].sub] # c) ~> (conn[c].stage = "gone")

=============================================================================
