---------------------------- MODULE StreamProofs ----------------------------
(***************************************************************************)
(* Theorems of EventStream for any numbers of subscribers, connections,    *)
(* publishers and events and any sizes: type correctness, no Done channel  *)
(* is closed twice, the bus holds exactly the open connections, and the    *)
(* limiter counts exactly the handlers that run.                           *)
(***************************************************************************)
EXTENDS EventStream, FiniteSetTheorems, TLAPS

-----------------------------------------------------------------------------
(***************************************************************************)
(* The inductive invariant.                                                *)
(***************************************************************************)

\* A handler has a subscriber once it was admitted, and its Done is closed
\* only once it is registered.
HandlerOK(c) ==
  /\ IF conn[c].stage = "new" THEN conn[c].sub = None ELSE conn[c].sub \in Subscribers
  /\ conn[c].stage \in {"new", "admitted"} => conn[c].closes = 0

\* A publisher sends an event that was stored, to subscribers that cannot
\* leave the map meanwhile: it holds the read lock.
PublisherOK(p) ==
  /\ pub[p].at # "idle" => pub[p].id \in Ids
  /\ pub[p].at = "send" => \A s \in pub[p].todo : reg[s] # None

BusInv ==
  /\ StreamTypeOK
  /\ \A c \in Connections : HandlerOK(c)
  /\ \A p \in Publishers : PublisherOK(p)
  /\ ClosedOnce
  /\ BusHoldsTheOpen

-----------------------------------------------------------------------------
LEMMA Sizes == MaxEvents \in Nat \ {0} /\ Buffer \in Nat \ {0} /\ Limit \in Nat \ {0}
                 /\ MaxConn \in Nat \ {0}
BY SizesArePositive

LEMMA BusInit == StreamInit => BusInv
<1> SUFFICES ASSUME StreamInit PROVE BusInv
  OBVIOUS
<1> USE Sizes DEF StreamInit
<1>1. StreamTypeOK
  <2>1. \A c \in Connections : conn[c] \in Connection
    BY DEF Connection, Serving
  <2>2. conn \in [Connections -> Connection]
    BY <2>1
  <2>3. pub \in [Publishers -> Publisher]
    BY DEF Publisher, IdlePublisher
  <2>4. \A c \in Connections : Len(conn[c].ch) <= Buffer
    BY DEF Connection
  <2>5. /\ last \in 0 .. MaxEvents /\ pruned \in 0 .. last
        /\ reg \in [Subscribers -> Connections \cup {None}]
        /\ slots \in [Subscribers -> 0 .. MaxConn]
        /\ cursor \in [Subscribers -> 0 .. MaxEvents]
    OBVIOUS
  <2> HIDE DEF StreamInit
  <2> QED
    BY <2>2, <2>3, <2>4, <2>5 DEF StreamTypeOK
<1>2. \A c \in Connections : HandlerOK(c)
  BY DEF HandlerOK
<1>3. \A p \in Publishers : PublisherOK(p)
  BY DEF PublisherOK, IdlePublisher
<1>4. ClosedOnce /\ BusHoldsTheOpen
  BY NoneIsNoName DEF ClosedOnce, BusHoldsTheOpen, Serving
<1> QED
  BY <1>1, <1>2, <1>3, <1>4 DEF BusInv

(***************************************************************************)
(* A step of one handler that neither enters nor leaves the bus.           *)
(***************************************************************************)
LEMMA HandlerStays ==
  ASSUME BusInv, NEW c \in Connections, NEW r \in Connection,
         conn' = [conn EXCEPT ![c] = r], UNCHANGED <<last, pruned, reg, pub, cursor>>,
         slots' \in [Subscribers -> 0 .. MaxConn],
         conn[c].stage # "new", r.sub = conn[c].sub, r.closes = conn[c].closes,
         r.stage \notin {"new", "admitted"}, Len(r.ch) <= Buffer,
         r.stage \in Serving <=> conn[c].stage \in Serving
  PROVE  BusInv'
<1>1. \A d \in Connections : conn'[d] = IF d = c THEN r ELSE conn[d]
  BY DEF BusInv, StreamTypeOK
<1>2. StreamTypeOK'
  <2>1. conn' \in [Connections -> Connection]
    BY DEF BusInv, StreamTypeOK
  <2>2. \A d \in Connections : Len(conn'[d].ch) <= Buffer
    BY <1>1 DEF BusInv, StreamTypeOK
  <2> QED
    BY <2>1, <2>2 DEF BusInv, StreamTypeOK
<1>3. \A d \in Connections : HandlerOK(d)'
  BY <1>1 DEF BusInv, HandlerOK
<1>4. \A p \in Publishers : PublisherOK(p)'
  BY DEF BusInv, PublisherOK
<1>5. ClosedOnce'
  BY <1>1 DEF BusInv, ClosedOnce
<1>6. BusHoldsTheOpen'
  BY <1>1 DEF BusInv, BusHoldsTheOpen
<1> QED
  BY <1>2, <1>3, <1>4, <1>5, <1>6 DEF BusInv

(***************************************************************************)
(* A step of one publisher that changes no connection and no registration. *)
(***************************************************************************)
LEMMA PublisherStays ==
  ASSUME BusInv, NEW p \in Publishers, NEW r \in Publisher,
         pub' = [pub EXCEPT ![p] = r], UNCHANGED <<pruned, reg, conn, slots, cursor>>,
         last' \in 0 .. MaxEvents, last' >= last,
         r.at # "idle" => r.id \in Ids,
         r.at = "send" => \A s \in r.todo : reg[s] # None
  PROVE  BusInv'
<1>1. \A q \in Publishers : pub'[q] = IF q = p THEN r ELSE pub[q]
  BY DEF BusInv, StreamTypeOK
<1>2. StreamTypeOK'
  <2>1. pub' \in [Publishers -> Publisher]
    BY DEF BusInv, StreamTypeOK
  <2>2. pruned' \in 0 .. last'
    BY Sizes DEF BusInv, StreamTypeOK
  <2> QED
    BY <2>1, <2>2 DEF BusInv, StreamTypeOK
<1>3. \A d \in Connections : HandlerOK(d)'
  BY DEF BusInv, HandlerOK
<1>4. \A q \in Publishers : PublisherOK(q)'
  BY <1>1 DEF BusInv, PublisherOK
<1>5. ClosedOnce' /\ BusHoldsTheOpen'
  BY DEF BusInv, ClosedOnce, BusHoldsTheOpen
<1> QED
  BY <1>2, <1>3, <1>4, <1>5 DEF BusInv

(***************************************************************************)
(* Closing Done of the connections registered for S, which leave the map.  *)
(***************************************************************************)
LEMMA ClosedFacts ==
  ASSUME BusInv, NEW S \in SUBSET Subscribers
  PROVE  /\ Closed(S) \in [Connections -> Connection]
         /\ \A c \in Connections :
              /\ Closed(S)[c].stage = conn[c].stage /\ Closed(S)[c].sub = conn[c].sub
              /\ Closed(S)[c].ch = conn[c].ch
              /\ Closed(S)[c].closes =
                   IF conn[c].sub \in S /\ reg[conn[c].sub] = c THEN 1 ELSE conn[c].closes
<1> SUFFICES ASSUME NEW c \in Connections
             PROVE  /\ Closed(S)[c] \in Connection
                    /\ Closed(S)[c].stage = conn[c].stage /\ Closed(S)[c].sub = conn[c].sub
                    /\ Closed(S)[c].ch = conn[c].ch
                    /\ Closed(S)[c].closes =
                         IF conn[c].sub \in S /\ reg[conn[c].sub] = c THEN 1 ELSE conn[c].closes
  BY DEF Closed
<1>1. conn[c] \in Connection
  BY DEF BusInv, StreamTypeOK
<1>2. CASE \E s \in S : reg[s] = c
  <2>1. PICK s \in S : reg[s] = c
    BY <1>2
  <2>2. conn[c].sub = s /\ conn[c].closes = 0
    BY <2>1 DEF BusInv, BusHoldsTheOpen
  <2>3. Closed(S)[c] = [conn[c] EXCEPT !.closes = 1]
    BY <1>2, <2>2 DEF Closed
  <2> QED
    BY <1>1, <2>1, <2>2, <2>3 DEF Connection
<1>3. CASE ~\E s \in S : reg[s] = c
  <2>1. Closed(S)[c] = conn[c]
    BY <1>3 DEF Closed
  <2> QED
    BY <1>1, <1>3, <2>1
<1> QED
  BY <1>2, <1>3

-----------------------------------------------------------------------------
(***************************************************************************)
(* Preservation, action by action.                                         *)
(***************************************************************************)
LEMMA PublishNext ==
  ASSUME BusInv, NEW p \in Publishers, Store(p) \/ PublisherStep(p)
  PROVE  BusInv'
<1> USE Sizes
<1>0. pub[p] \in Publisher /\ PublisherOK(p) /\ last \in 0 .. MaxEvents
  BY DEF BusInv, StreamTypeOK
<1>1. CASE Store(p)
  <2> DEFINE r == [pub[p] EXCEPT !.at = "fanout", !.id = last + 1]
  <2>0. last + 1 \in Ids /\ last + 1 \in 0 .. MaxEvents
    BY <1>0, <1>1 DEF Store, Ids
  <2>1. r \in Publisher /\ r.at = "fanout" /\ r.id \in Ids
    BY <1>0, <2>0 DEF Publisher
  <2>2. pub' = [pub EXCEPT ![p] = r]
    BY <1>1 DEF Store
  <2>3. last' \in 0 .. MaxEvents /\ last' >= last
    BY <1>0, <1>1 DEF Store
  <2> HIDE DEF r
  <2> QED
    BY <1>1, <2>1, <2>2, <2>3, PublisherStays DEF Store
<1>2. CASE FanOut(p)
  <2> DEFINE r == [pub[p] EXCEPT !.at = "send", !.todo = {s \in Subscribers : reg[s] # None}]
  <2>1. r \in Publisher /\ r.id \in Ids /\ \A s \in r.todo : reg[s] # None
    BY <1>0, <1>2 DEF FanOut, Publisher, PublisherOK
  <2>2. pub' = [pub EXCEPT ![p] = r]
    BY <1>2 DEF FanOut
  <2>3. last' \in 0 .. MaxEvents /\ last' >= last
    BY <1>0, <1>2 DEF FanOut
  <2> HIDE DEF r
  <2> QED
    BY <1>2, <2>1, <2>2, <2>3, PublisherStays DEF FanOut
<1>3. ASSUME NEW s \in Subscribers, Send(p, s)
      PROVE  BusInv'
  <2> DEFINE c == reg[s]
             full == Len(conn[c].ch) >= Buffer
             k == IF full THEN conn[c]
                  ELSE [conn[c] EXCEPT !.ch = Append(@, pub[p].id)]
             r == [pub[p] EXCEPT !.todo = @ \ {s},
                                 !.toEvict = IF full THEN @ \cup {s} ELSE @]
  <2>1. c \in Connections /\ pub[p].id \in Ids
    BY <1>0, <1>3 DEF Send, PublisherOK, BusInv, StreamTypeOK
  <2>2. conn[c] \in Connection /\ Len(conn[c].ch) <= Buffer
    BY <2>1 DEF BusInv, StreamTypeOK
  <2>3. k \in Connection /\ k.sub = conn[c].sub /\ k.closes = conn[c].closes
        /\ k.stage = conn[c].stage /\ Len(k.ch) <= Buffer
    <3>1. conn[c].ch \in Seq(Ids)
      BY <2>2 DEF Connection
    <3>2. Append(conn[c].ch, pub[p].id) \in Seq(Ids)
          /\ Len(Append(conn[c].ch, pub[p].id)) = Len(conn[c].ch) + 1
          /\ Len(conn[c].ch) \in Nat
      BY <2>1, <3>1
    <3>3. CASE full
      BY <2>2, <3>3 DEF Connection
    <3>4. CASE ~full
      <4>1. Len(Append(conn[c].ch, pub[p].id)) <= Buffer
        BY <3>2, <3>4
      <4>2. k = [conn[c] EXCEPT !.ch = Append(@, pub[p].id)]
        BY <3>4
      <4> HIDE DEF k, full
      <4> QED
        BY <2>2, <3>2, <4>1, <4>2 DEF Connection
    <3> QED
      BY <3>3, <3>4
  <2>4. conn' = [conn EXCEPT ![c] = k]
    <3>1. CASE full
      <4>1. conn' = conn /\ k = conn[c]
        BY <1>3, <3>1 DEF Send
      <4> QED
        BY <2>1, <4>1 DEF BusInv, StreamTypeOK
    <3>2. CASE ~full
      BY <1>3, <3>2 DEF Send
    <3> QED
      BY <3>1, <3>2
  <2>5. r \in Publisher /\ r.id \in Ids /\ r.todo \subseteq pub[p].todo /\ r.at = "send"
        /\ pub[p].at = "send"
    BY <1>0, <1>3, <2>1 DEF Send, Publisher
  <2>6. pub' = [pub EXCEPT ![p] = r]
    BY <1>3 DEF Send
  <2> HIDE DEF c, full, k, r
  <2>7. \A d \in Connections :
          /\ conn'[d] \in Connection /\ conn'[d].sub = conn[d].sub
          /\ conn'[d].closes = conn[d].closes /\ conn'[d].stage = conn[d].stage
          /\ Len(conn'[d].ch) <= Buffer
    BY <2>1, <2>3, <2>4 DEF BusInv, StreamTypeOK
  <2>8. \A q \in Publishers : pub'[q] = IF q = p THEN r ELSE pub[q]
    BY <2>6 DEF BusInv, StreamTypeOK
  <2>9. UNCHANGED <<last, pruned, reg, slots, cursor>>
    BY <1>3 DEF Send
  <2>10. StreamTypeOK'
    <3>1. conn' \in [Connections -> Connection]
      BY <2>4, <2>7 DEF BusInv, StreamTypeOK
    <3>2. pub' \in [Publishers -> Publisher]
      BY <2>5, <2>6 DEF BusInv, StreamTypeOK
    <3> QED
      BY <2>7, <2>9, <3>1, <3>2 DEF BusInv, StreamTypeOK
  <2>11. \A d \in Connections : HandlerOK(d)'
    BY <2>7 DEF BusInv, HandlerOK
  <2>12. \A q \in Publishers : PublisherOK(q)'
    BY <1>0, <2>5, <2>8, <2>9 DEF BusInv, PublisherOK
  <2>13. ClosedOnce' /\ BusHoldsTheOpen'
    BY <2>7, <2>9 DEF BusInv, ClosedOnce, BusHoldsTheOpen
  <2> QED
    BY <2>10, <2>11, <2>12, <2>13 DEF BusInv
<1>4. CASE FanOutDone(p)
  <2> DEFINE r == IF pub[p].toEvict = {} THEN IdlePublisher ELSE [pub[p] EXCEPT !.at = "evict"]
  <2>1. r \in Publisher /\ r.at # "send" /\ (r.at # "idle" => r.id \in Ids)
    BY <1>0, <1>4 DEF FanOutDone, Publisher, IdlePublisher, PublisherOK
  <2>2. pub' = [pub EXCEPT ![p] = r]
    BY <1>4 DEF FanOutDone
  <2>3. last' \in 0 .. MaxEvents /\ last' >= last
    BY <1>0, <1>4 DEF FanOutDone
  <2> HIDE DEF r
  <2> QED
    BY <1>4, <2>1, <2>2, <2>3, PublisherStays DEF FanOutDone
<1>5. CASE Evict(p)
  <2> DEFINE S == pub[p].toEvict
  <2>1. S \in SUBSET Subscribers
    BY <1>0 DEF Publisher
  <2>2. conn' = Closed(S) /\ UNCHANGED <<last, pruned, slots, cursor>>
    BY <1>5 DEF Evict
  <2>3. reg' = [s \in Subscribers |-> IF s \in S THEN None ELSE reg[s]]
    BY <1>5 DEF Evict
  <2>4. pub' = [pub EXCEPT ![p] = IdlePublisher] /\ \A q \in Publishers : pub[q].at # "send"
    BY <1>5 DEF Evict, Exclusive
  <2> HIDE DEF S
  <2>5. conn' \in [Connections -> Connection]
    BY <2>1, <2>2, ClosedFacts
  <2>6. \A d \in Connections :
          /\ conn'[d].stage = conn[d].stage /\ conn'[d].sub = conn[d].sub
          /\ conn'[d].ch = conn[d].ch
          /\ conn'[d].closes =
               IF conn[d].sub \in S /\ reg[conn[d].sub] = d THEN 1 ELSE conn[d].closes
    BY <2>1, <2>2, ClosedFacts
  <2>7. \A q \in Publishers : pub'[q] = IF q = p THEN IdlePublisher ELSE pub[q]
    BY <2>4 DEF BusInv, StreamTypeOK
  <2>8. StreamTypeOK'
    <3>1. pub' \in [Publishers -> Publisher]
      BY <2>4 DEF BusInv, StreamTypeOK, Publisher, IdlePublisher
    <3>2. reg' \in [Subscribers -> Connections \cup {None}]
      BY <2>3 DEF BusInv, StreamTypeOK
    <3> QED
      BY <2>2, <2>5, <2>6, <3>1, <3>2 DEF BusInv, StreamTypeOK
  <2>9. \A d \in Connections : HandlerOK(d)'
    <3> SUFFICES ASSUME NEW d \in Connections PROVE HandlerOK(d)'
      OBVIOUS
    <3>1. HandlerOK(d)
      BY DEF BusInv
    <3>2. conn[d].sub \in S /\ reg[conn[d].sub] = d => conn[d].stage \in Serving
      BY <2>1 DEF BusInv, BusHoldsTheOpen
    <3> QED
      BY <2>6, <3>1, <3>2 DEF HandlerOK, Serving
  <2>10. \A q \in Publishers : PublisherOK(q)'
    BY <2>4, <2>7 DEF BusInv, PublisherOK, IdlePublisher
  <2>11. ClosedOnce'
    BY <2>6 DEF BusInv, ClosedOnce
  <2>12. BusHoldsTheOpen'
    <3> SUFFICES ASSUME NEW s \in Subscribers, NEW d \in Connections
                 PROVE  reg'[s] = d <=> /\ conn'[d].sub = s
                                        /\ conn'[d].stage \in Serving
                                        /\ conn'[d].closes = 0
      BY DEF BusHoldsTheOpen
    <3>1. reg[s] = d <=> /\ conn[d].sub = s
                         /\ conn[d].stage \in Serving
                         /\ conn[d].closes = 0
      BY DEF BusInv, BusHoldsTheOpen
    <3>2. reg'[s] = IF s \in S THEN None ELSE reg[s]
      BY <2>3
    <3>3. d # None
      BY NoneIsNoName
    <3>4. /\ conn'[d].stage = conn[d].stage /\ conn'[d].sub = conn[d].sub
          /\ conn'[d].closes =
               IF conn[d].sub \in S /\ reg[conn[d].sub] = d THEN 1 ELSE conn[d].closes
      BY <2>6
    <3>5. CASE conn[d].sub = s
      <4>1. CASE s \in S
        BY <3>1, <3>2, <3>3, <3>4, <3>5, <4>1
      <4>2. CASE s \notin S
        BY <3>1, <3>2, <3>4, <3>5, <4>2
      <4> QED
        BY <4>1, <4>2
    <3>6. CASE conn[d].sub # s
      BY <3>1, <3>2, <3>3, <3>4, <3>6
    <3> QED
      BY <3>5, <3>6
  <2> QED
    BY <2>8, <2>9, <2>10, <2>11, <2>12 DEF BusInv
<1> QED
  BY <1>1, <1>2, <1>3, <1>4, <1>5 DEF PublisherStep

(***************************************************************************)
(* Entering and leaving the bus: the connection registered for the         *)
(* subscriber of c, if any, is told to stop, and c or nobody replaces it.  *)
(***************************************************************************)
LEMMA Replaced ==
  ASSUME BusInv, NEW c \in Connections, conn[c].stage # "new", Exclusive,
         NEW stage \in {"registered", "released"}, NEW next \in {c, None},
         conn' = [Closed({conn[c].sub}) EXCEPT ![c].stage = stage],
         reg' = [reg EXCEPT ![conn[c].sub] = next],
         UNCHANGED <<last, pruned, pub, slots, cursor>>,
         stage = "registered" => next = c /\ conn[c].stage = "admitted",
         stage = "released" => next = None
  PROVE  BusInv'
<1> DEFINE s == conn[c].sub
<1>1. s \in Subscribers
  BY DEF BusInv, HandlerOK
<1>2. Closed({s}) \in [Connections -> Connection]
  BY <1>1, ClosedFacts
<1>3. \A d \in Connections :
        /\ Closed({s})[d].stage = conn[d].stage /\ Closed({s})[d].sub = conn[d].sub
        /\ Closed({s})[d].ch = conn[d].ch
        /\ Closed({s})[d].closes =
             IF conn[d].sub \in {s} /\ reg[conn[d].sub] = d THEN 1 ELSE conn[d].closes
  BY <1>1, ClosedFacts
<1>4. conn' = [Closed({s}) EXCEPT ![c].stage = stage] /\ reg' = [reg EXCEPT ![s] = next]
      /\ conn[c].sub = s
  OBVIOUS
<1> HIDE DEF s
<1>5. conn' \in [Connections -> Connection]
  <2>1. [Closed({s})[c] EXCEPT !.stage = stage] \in Connection
    BY <1>2 DEF Connection, Serving
  <2> QED
    BY <1>2, <1>4, <2>1
<1>6. \A d \in Connections :
        /\ conn'[d].stage = (IF d = c THEN stage ELSE conn[d].stage)
        /\ conn'[d].sub = conn[d].sub
        /\ conn'[d].ch = conn[d].ch
        /\ conn'[d].closes =
             IF conn[d].sub = s /\ reg[s] = d THEN 1 ELSE conn[d].closes
  <2>1. Closed({s})[c] \in Connection
    BY <1>2
  <2>2. \A d \in Connections \ {c} : conn'[d] = Closed({s})[d]
    BY <1>2, <1>4
  <2>3. conn'[c] = [Closed({s})[c] EXCEPT !.stage = stage]
    BY <1>2, <1>4
  <2> QED
    <3> SUFFICES ASSUME NEW d \in Connections
                 PROVE  /\ conn'[d].stage = (IF d = c THEN stage ELSE conn[d].stage)
                        /\ conn'[d].sub = conn[d].sub
                        /\ conn'[d].ch = conn[d].ch
                        /\ conn'[d].closes =
                             IF conn[d].sub = s /\ reg[s] = d THEN 1 ELSE conn[d].closes
      OBVIOUS
    <3>1. /\ Closed({s})[d].stage = conn[d].stage /\ Closed({s})[d].sub = conn[d].sub
          /\ Closed({s})[d].ch = conn[d].ch
          /\ Closed({s})[d].closes =
               IF conn[d].sub = s /\ reg[s] = d THEN 1 ELSE conn[d].closes
      BY <1>3
    <3>2. CASE d = c
      <4>1. /\ conn'[c].stage = stage /\ conn'[c].sub = Closed({s})[c].sub
            /\ conn'[c].ch = Closed({s})[c].ch /\ conn'[c].closes = Closed({s})[c].closes
        <5> DEFINE k == Closed({s})[c]
        <5>1. k \in Connection /\ conn'[c] = [k EXCEPT !.stage = stage]
          BY <2>1, <2>3
        <5> HIDE DEF k
        <5>2. /\ conn'[c].stage = stage /\ conn'[c].sub = k.sub
              /\ conn'[c].ch = k.ch /\ conn'[c].closes = k.closes
          BY <5>1 DEF Connection
        <5> QED
          BY <5>2 DEF k
      <4>2. /\ Closed({s})[c].sub = conn[c].sub /\ Closed({s})[c].ch = conn[c].ch
            /\ Closed({s})[c].closes =
                 IF conn[c].sub = s /\ reg[s] = c THEN 1 ELSE conn[c].closes
        BY <1>3
      <4>3. /\ conn'[c].sub = conn[c].sub /\ conn'[c].ch = conn[c].ch
            /\ conn'[c].closes =
                 IF conn[c].sub = s /\ reg[s] = c THEN 1 ELSE conn[c].closes
        BY <4>1, <4>2
      <4> QED
        BY <3>2, <4>1, <4>3
    <3>3. CASE d # c
      BY <2>2, <3>1, <3>3
    <3> QED
      BY <3>2, <3>3
<1>7. \A k \in Subscribers : reg'[k] = IF k = s THEN next ELSE reg[k]
  BY <1>1, <1>4 DEF BusInv, StreamTypeOK
<1>8. StreamTypeOK'
  <2>1. reg' \in [Subscribers -> Connections \cup {None}]
    <3>1. next \in Connections \cup {None}
      OBVIOUS
    <3> QED
      BY <1>4, <3>1 DEF BusInv, StreamTypeOK
  <2>2. \A d \in Connections : Len(conn'[d].ch) <= Buffer
    BY <1>6 DEF BusInv, StreamTypeOK
  <2> QED
    BY <1>5, <2>1, <2>2 DEF BusInv, StreamTypeOK
<1>9. \A d \in Connections : HandlerOK(d)'
  <2> SUFFICES ASSUME NEW d \in Connections PROVE HandlerOK(d)'
    OBVIOUS
  <2>1. HandlerOK(d) /\ (reg[s] = d => conn[d].stage \in Serving)
    BY <1>1 DEF BusInv, BusHoldsTheOpen
  <2>2. CASE d = c
    <3>1. conn'[d].stage = stage /\ conn'[d].sub = s
      BY <1>6, <1>4, <2>2
    <3> QED
      BY <1>1, <3>1, NoneIsNoName DEF HandlerOK
  <2>3. CASE d # c
    <3>1. conn'[d].stage = conn[d].stage /\ conn'[d].sub = conn[d].sub
      BY <1>6, <2>3
    <3>2. conn[d].stage \in {"new", "admitted"} => conn'[d].closes = conn[d].closes
      BY <1>6, <2>1 DEF Serving
    <3> QED
      BY <2>1, <3>1, <3>2 DEF HandlerOK
  <2> QED
    BY <2>2, <2>3
<1>10. \A p \in Publishers : PublisherOK(p)'
  BY DEF BusInv, PublisherOK, Exclusive
<1>11. ClosedOnce'
  <2> SUFFICES ASSUME NEW d \in Connections PROVE conn'[d].closes <= 1
    BY DEF ClosedOnce
  <2>1. conn'[d].closes = 1 \/ conn'[d].closes = conn[d].closes
    BY <1>6
  <2> QED
    BY <2>1 DEF BusInv, ClosedOnce
<1>12. BusHoldsTheOpen'
  <2> SUFFICES ASSUME NEW k \in Subscribers, NEW d \in Connections
               PROVE  reg'[k] = d <=> /\ conn'[d].sub = k
                                      /\ conn'[d].stage \in Serving
                                      /\ conn'[d].closes = 0
    BY DEF BusHoldsTheOpen
  <2>1. reg[k] = d <=> /\ conn[d].sub = k
                       /\ conn[d].stage \in Serving
                       /\ conn[d].closes = 0
    BY DEF BusInv, BusHoldsTheOpen
  <2>2. HandlerOK(c)
    BY DEF BusInv
  <2>3. reg'[k] = IF k = s THEN next ELSE reg[k]
    BY <1>7
  <2>4. d # None
    BY NoneIsNoName
  <2>5. /\ conn'[d].stage = (IF d = c THEN stage ELSE conn[d].stage)
        /\ conn'[d].sub = conn[d].sub
        /\ conn'[d].closes = IF conn[d].sub = s /\ reg[s] = d THEN 1 ELSE conn[d].closes
    BY <1>6
  <2>6. reg[s] = d => conn[d].sub = s /\ conn[d].stage \in Serving
    BY <1>1 DEF BusInv, BusHoldsTheOpen
  <2>7. CASE d = c
    <3>1. CASE stage = "registered"
      <4>1. next = c /\ conn[c].closes = 0 /\ reg[s] # c
        BY <2>2, <2>6, <2>7, <3>1 DEF HandlerOK, Serving
      <4>2. conn'[d].closes = 0 /\ conn'[d].stage \in Serving /\ conn'[d].sub = s
        BY <1>4, <2>5, <2>7, <3>1, <4>1 DEF Serving
      <4> QED
        BY <1>4, <2>1, <2>3, <2>7, <4>1, <4>2
    <3>2. CASE stage = "released"
      <4>1. conn'[d].stage \notin Serving
        BY <2>5, <2>7, <3>2 DEF Serving
      <4>2. reg'[k] # d
        BY <1>4, <2>1, <2>3, <2>4, <2>7, <3>2
      <4> QED
        BY <4>1, <4>2
    <3> QED
      BY <3>1, <3>2
  <2>8. CASE d # c
    <3>1. CASE k = s
      BY <2>1, <2>3, <2>4, <2>5, <2>8, <3>1
    <3>2. CASE k # s
      BY <2>1, <2>3, <2>5, <2>8, <3>2
    <3> QED
      BY <3>1, <3>2
  <2> QED
    BY <2>7, <2>8
<1> QED
  BY <1>8, <1>9, <1>10, <1>11, <1>12 DEF BusInv

LEMMA HandlerNext ==
  ASSUME BusInv, NEW c \in Connections,
         NotFound(c) \/ CutReplay(c) \/ Cancel(c) \/ HandlerStep(c)
  PROVE  BusInv'
<1> USE Sizes
<1>0. conn[c] \in Connection /\ HandlerOK(c) /\ last \in 0 .. MaxEvents
      /\ Len(conn[c].ch) <= Buffer /\ slots \in [Subscribers -> 0 .. MaxConn]
  BY DEF BusInv, StreamTypeOK
<1>1. CASE NotFound(c)
  <2> DEFINE r == [conn[c] EXCEPT !.stage = "released"]
  <2>1. r \in Connection /\ r.sub = conn[c].sub /\ r.closes = conn[c].closes
        /\ r.stage = "released" /\ r.ch = conn[c].ch
    BY <1>0 DEF Connection
  <2>2. conn' = [conn EXCEPT ![c] = r]
    BY <1>1 DEF NotFound
  <2> HIDE DEF r
  <2> QED
    BY <1>0, <1>1, <2>1, <2>2, HandlerStays DEF NotFound, Serving
<1>2. CASE CutReplay(c)
  <2>1. PICK n \in 0 .. last :
          conn' = [conn EXCEPT ![c].stage = "cancelled", ![c].got = {e \in Backlog(c) : e <= n}]
    BY <1>2 DEF CutReplay
  <2> DEFINE r == [conn[c] EXCEPT !.stage = "cancelled", !.got = {e \in Backlog(c) : e <= n}]
  <2>2. r \in Connection /\ r.sub = conn[c].sub /\ r.closes = conn[c].closes
        /\ r.stage = "cancelled" /\ r.ch = conn[c].ch
    BY <1>0 DEF Connection, Serving, Backlog
  <2>3. conn' = [conn EXCEPT ![c] = r]
    BY <2>1
  <2> HIDE DEF r
  <2> QED
    BY <1>0, <1>2, <2>2, <2>3, HandlerStays DEF CutReplay, Serving
<1>3. CASE Cancel(c) \/ Evicted(c)
  <2> PICK to \in {"cancelled", "evicted"} : conn' = [conn EXCEPT ![c].stage = to]
    BY <1>3 DEF Cancel, Evicted
  <2> DEFINE r == [conn[c] EXCEPT !.stage = to]
  <2>1. r \in Connection /\ r.sub = conn[c].sub /\ r.closes = conn[c].closes
        /\ r.stage = to /\ r.ch = conn[c].ch
    BY <1>0 DEF Connection, Serving
  <2>2. conn' = [conn EXCEPT ![c] = r]
    OBVIOUS
  <2> HIDE DEF r
  <2> QED
    BY <1>0, <1>3, <2>1, <2>2, HandlerStays DEF Cancel, Evicted, Serving
<1>4. CASE Register(c)
  BY <1>4, Replaced DEF Register
<1>5. CASE Replay(c)
  <2> DEFINE r == [conn[c] EXCEPT !.stage = "streaming", !.got = Backlog(c),
                                  !.lastSent = conn[c].after]
  <2>1. r \in Connection /\ r.sub = conn[c].sub /\ r.closes = conn[c].closes
        /\ r.stage = "streaming" /\ r.ch = conn[c].ch
    BY <1>0 DEF Connection, Serving, Backlog
  <2>2. conn' = [conn EXCEPT ![c] = r]
    BY <1>5 DEF Replay
  <2> HIDE DEF r
  <2> QED
    BY <1>0, <1>5, <2>1, <2>2, HandlerStays DEF Replay, Serving
<1>6. CASE Deliver(c)
  <2> DEFINE e == Head(conn[c].ch)
             newer == e > conn[c].lastSent
             r == [conn[c] EXCEPT !.ch = Tail(@), !.got = IF newer THEN @ \cup {e} ELSE @,
                                  !.lastSent = IF newer THEN e ELSE @]
  <2>1. conn[c].ch \in Seq(Ids) /\ conn[c].ch # <<>> /\ conn[c].stage = "streaming"
    BY <1>0, <1>6 DEF Deliver, Connection
  <2>2. e \in Ids /\ Tail(conn[c].ch) \in Seq(Ids) /\ Len(Tail(conn[c].ch)) <= Buffer
    BY <1>0, <2>1
  <2>3. conn' = [conn EXCEPT ![c] = r]
    BY <1>6 DEF Deliver
  <2>4. r \in Connection /\ r.sub = conn[c].sub /\ r.closes = conn[c].closes
        /\ r.stage = conn[c].stage /\ r.ch = Tail(conn[c].ch)
    <3>1. e \in 0 .. MaxEvents
      BY <2>2 DEF Ids
    <3> HIDE DEF e
    <3>2. CASE newer
      BY <1>0, <2>2, <3>1, <3>2 DEF Connection
    <3>3. CASE ~newer
      BY <1>0, <2>2, <3>3 DEF Connection
    <3> QED
      BY <3>2, <3>3
  <2> HIDE DEF r
  <2> QED
    BY <1>0, <1>6, <2>1, <2>2, <2>3, <2>4, HandlerStays DEF Deliver, Serving
<1>7. CASE Unregister(c)
  BY <1>7, Replaced DEF Unregister
<1>8. CASE Release(c)
  <2> DEFINE r == [conn[c] EXCEPT !.stage = "gone", !.ch = <<>>]
  <2>1. r \in Connection /\ r.sub = conn[c].sub /\ r.closes = conn[c].closes
        /\ r.stage = "gone" /\ Len(r.ch) <= Buffer
    <3>1. <<>> \in Seq(Ids) /\ Len(<<>>) = 0
      OBVIOUS
    <3>2. r.ch = <<>>
      BY <1>0 DEF Connection
    <3>3. r \in Connection /\ r.sub = conn[c].sub /\ r.closes = conn[c].closes
          /\ r.stage = "gone"
      BY <1>0, <3>1 DEF Connection
    <3> QED
      BY <3>1, <3>2, <3>3
  <2>2. conn' = [conn EXCEPT ![c] = r]
    BY <1>8 DEF Release
  <2>3. slots' \in [Subscribers -> 0 .. MaxConn]
    <3>1. conn[c].sub \in Subscribers
      BY <1>0, <1>8 DEF Release, HandlerOK
    <3>2. slots[conn[c].sub] \in 0 .. MaxConn
      BY <1>0, <3>1
    <3>3. (IF slots[conn[c].sub] > 0 THEN slots[conn[c].sub] - 1 ELSE slots[conn[c].sub])
            \in 0 .. MaxConn
      BY <3>2
    <3> QED
      BY <1>0, <1>8, <3>3 DEF Release
  <2> HIDE DEF r
  <2> QED
    BY <1>0, <1>8, <2>1, <2>2, <2>3, HandlerStays DEF Release, Serving
<1> QED
  BY <1>1, <1>2, <1>3, <1>4, <1>5, <1>6, <1>7, <1>8 DEF HandlerStep

LEMMA AdmitNext ==
  ASSUME BusInv, NEW c \in Connections, NEW s \in Subscribers, Admit(c, s)
  PROVE  BusInv'
<1> USE Sizes
<1>1. PICK after \in {cursor[s]} \cup {h \in Headers : h > cursor[s]} :
        conn' = [conn EXCEPT ![c].stage = "admitted", ![c].sub = s, ![c].after = after]
  BY DEF Admit
<1> DEFINE r == [conn[c] EXCEPT !.stage = "admitted", !.sub = s, !.after = after]
<1>2. conn[c] \in Connection /\ HandlerOK(c) /\ conn[c].stage = "new"
  BY DEF BusInv, StreamTypeOK, Admit
<1>3. after \in 0 .. MaxEvents
  BY HeadersAreIds DEF BusInv, StreamTypeOK
<1>4. r \in Connection /\ r.sub = s /\ r.closes = 0 /\ r.stage = "admitted" /\ r.ch = conn[c].ch
  BY <1>2, <1>3 DEF Connection, HandlerOK
<1>5. conn' = [conn EXCEPT ![c] = r]
  BY <1>1
<1> HIDE DEF r
<1>6. \A d \in Connections : conn'[d] = IF d = c THEN r ELSE conn[d]
  BY <1>5 DEF BusInv, StreamTypeOK
<1>7. UNCHANGED <<last, pruned, reg, pub, cursor>>
  BY DEF Admit
<1>8. StreamTypeOK'
  <2>1. conn' \in [Connections -> Connection]
    BY <1>4, <1>5 DEF BusInv, StreamTypeOK
  <2>2. slots' \in [Subscribers -> 0 .. MaxConn]
    BY DEF BusInv, StreamTypeOK, Admit
  <2>3. \A d \in Connections : Len(conn'[d].ch) <= Buffer
    BY <1>4, <1>6 DEF BusInv, StreamTypeOK
  <2> QED
    BY <1>7, <2>1, <2>2, <2>3 DEF BusInv, StreamTypeOK
<1>9. \A d \in Connections : HandlerOK(d)'
  BY <1>4, <1>6 DEF BusInv, HandlerOK
<1>10. \A p \in Publishers : PublisherOK(p)'
  BY <1>7 DEF BusInv, PublisherOK
<1>11. ClosedOnce'
  BY <1>4, <1>6 DEF BusInv, ClosedOnce
<1>12. BusHoldsTheOpen'
  BY <1>2, <1>4, <1>6, <1>7 DEF BusInv, BusHoldsTheOpen, Serving
<1> QED
  BY <1>8, <1>9, <1>10, <1>11, <1>12 DEF BusInv

LEMMA BusNext == BusInv /\ [StreamNext]_streamVars => BusInv'
<1> SUFFICES ASSUME BusInv, [StreamNext]_streamVars PROVE BusInv'
  OBVIOUS
<1>1. ASSUME NEW p \in Publishers, Store(p) \/ PublisherStep(p) PROVE BusInv'
  BY <1>1, PublishNext
<1>2. CASE Prune
  <2>1. StreamTypeOK'
    BY <1>2, Sizes DEF Prune, BusInv, StreamTypeOK
  <2>2. \A c \in Connections : HandlerOK(c)'
    BY <1>2 DEF Prune, BusInv, HandlerOK
  <2>3. \A p \in Publishers : PublisherOK(p)'
    BY <1>2 DEF Prune, BusInv, PublisherOK
  <2>4. ClosedOnce' /\ BusHoldsTheOpen'
    BY <1>2 DEF Prune, BusInv, ClosedOnce, BusHoldsTheOpen
  <2> QED
    BY <2>1, <2>2, <2>3, <2>4 DEF BusInv
<1>3. ASSUME NEW c \in Connections, NEW s \in Subscribers, Admit(c, s) PROVE BusInv'
  BY <1>3, AdmitNext
<1>4. ASSUME NEW c \in Connections,
             NotFound(c) \/ CutReplay(c) \/ Cancel(c) \/ HandlerStep(c)
      PROVE  BusInv'
  BY <1>4, HandlerNext
<1>5. CASE UNCHANGED streamVars
  BY <1>5 DEF streamVars, BusInv, StreamTypeOK, HandlerOK, PublisherOK, ClosedOnce, BusHoldsTheOpen
<1> QED
  BY <1>1, <1>2, <1>3, <1>4, <1>5 DEF StreamNext

LEMMA BusInvariant == StreamSpec => []BusInv
BY BusInit, BusNext, PTL DEF StreamSpec

-----------------------------------------------------------------------------
\* Every reachable state of the bus, its handlers and its publishers is well
\* typed; in particular no channel ever holds more than its buffer.
THEOREM StreamTypeCorrect == StreamSpec => []StreamTypeOK
<1>1. BusInv => StreamTypeOK
  BY DEF BusInv
<1> QED
  BY <1>1, BusInvariant, PTL

\* No Done channel is closed twice, however registrations, evictions and
\* departures of any number of handlers interleave.
THEOREM NothingClosedTwice == StreamSpec => []ClosedOnce
<1>1. BusInv => ClosedOnce
  BY DEF BusInv
<1> QED
  BY <1>1, BusInvariant, PTL

\* The bus holds exactly the connections that are served and were not told to
\* stop.
THEOREM BusIsExact == StreamSpec => []BusHoldsTheOpen
<1>1. BusInv => BusHoldsTheOpen
  BY DEF BusInv
<1> QED
  BY <1>1, BusInvariant, PTL

-----------------------------------------------------------------------------
(***************************************************************************)
(* The limiter: the handlers that run for a subscriber change only when    *)
(* one of them is admitted or releases its slot.                           *)
(***************************************************************************)
Running(s) == {c \in Connections : conn[c].sub = s /\ conn[c].stage # "gone"}

LEMMA RunningStays ==
  ASSUME BusInv, SlotsExact, UNCHANGED slots, NEW s \in Subscribers,
         \A d \in Connections :
           conn'[d].sub = conn[d].sub /\ (conn'[d].stage = "gone" <=> conn[d].stage = "gone")
  PROVE  slots'[s] = Cardinality(Running(s)')
<1>1. Running(s)' = Running(s)
  BY DEF Running
<1>2. slots[s] = Cardinality(Running(s))
  BY DEF SlotsExact, Running
<1> QED
  BY <1>1, <1>2

LEMMA AdmitCounts ==
  ASSUME BusInv, SlotsExact, IsFiniteSet(Connections), NEW s \in Subscribers,
         NEW c \in Connections, NEW k \in Subscribers, Admit(c, k)
  PROVE  slots'[s] = Cardinality(Running(s)')
<1>1. conn[c].stage = "new" /\ conn[c].sub = None /\ conn[c] \in Connection
  BY DEF Admit, BusInv, HandlerOK, StreamTypeOK
<1>2. c \notin Running(s)
  BY <1>1, NoneIsNoName DEF Running
<1>3. conn'[c].sub = k /\ conn'[c].stage = "admitted"
      /\ \A d \in Connections \ {c} : conn'[d] = conn[d]
  <2>1. PICK after : conn' = [conn EXCEPT ![c].stage = "admitted", ![c].sub = k, ![c].after = after]
    BY DEF Admit
  <2> DEFINE r == [conn[c] EXCEPT !.stage = "admitted", !.sub = k, !.after = after]
  <2>2. r.sub = k /\ r.stage = "admitted"
    BY <1>1 DEF Connection
  <2>3. conn' = [conn EXCEPT ![c] = r]
    BY <2>1
  <2> HIDE DEF r
  <2> QED
    BY <2>2, <2>3 DEF BusInv, StreamTypeOK
<1>4. Running(s)' = IF s = k THEN Running(s) \cup {c} ELSE Running(s)
  BY <1>2, <1>3 DEF Running
<1>5. slots[s] = Cardinality(Running(s)) /\ IsFiniteSet(Running(s))
  <2>1. Running(s) \in SUBSET Connections
    BY DEF Running
  <2>2. IsFiniteSet(Running(s))
    BY <2>1, FS_Subset
  <2> QED
    BY <2>2 DEF SlotsExact, Running
<1>6. slots'[s] = IF s = k THEN slots[s] + 1 ELSE slots[s]
  BY DEF Admit, BusInv, StreamTypeOK
<1>7. Cardinality(Running(s) \cup {c}) = Cardinality(Running(s)) + 1
  BY <1>2, <1>5, FS_AddElement
<1>8. CASE s = k
  BY <1>4, <1>5, <1>6, <1>7, <1>8
<1>9. CASE s # k
  BY <1>4, <1>5, <1>6, <1>9
<1> QED
  BY <1>8, <1>9

LEMMA ReleaseCounts ==
  ASSUME BusInv, SlotsExact, IsFiniteSet(Connections), NEW s \in Subscribers,
         NEW c \in Connections, Release(c)
  PROVE  slots'[s] = Cardinality(Running(s)')
<1> DEFINE k == conn[c].sub
<1>1. k \in Subscribers /\ conn[c].stage = "released" /\ conn[c] \in Connection
  BY DEF Release, BusInv, HandlerOK, StreamTypeOK
<1>2. \A d \in Connections \ {c} : conn'[d] = conn[d]
  BY DEF Release, BusInv, StreamTypeOK
<1>3. conn'[c].sub = k /\ conn'[c].stage = "gone"
  <2> DEFINE r == [conn[c] EXCEPT !.stage = "gone", !.ch = <<>>]
  <2>1. r.sub = k /\ r.stage = "gone"
    BY <1>1 DEF Connection
  <2>2. conn' = [conn EXCEPT ![c] = r]
    BY DEF Release
  <2> HIDE DEF r
  <2> QED
    BY <2>1, <2>2 DEF BusInv, StreamTypeOK
<1>4. slots'[s] = IF s = k /\ slots[s] > 0 THEN slots[s] - 1 ELSE slots[s]
  BY DEF Release, BusInv, StreamTypeOK
<1> HIDE DEF k
<1>5. Running(s)' = IF s = k THEN Running(s) \ {c} ELSE Running(s)
  <2>1. conn[c].sub = k
    BY DEF k
  <2> QED
    BY <1>1, <1>2, <1>3, <2>1 DEF Running
<1>6. slots[s] = Cardinality(Running(s)) /\ IsFiniteSet(Running(s))
  <2>1. Running(s) \in SUBSET Connections
    BY DEF Running
  <2>2. IsFiniteSet(Running(s))
    BY <2>1, FS_Subset
  <2> QED
    BY <2>2 DEF SlotsExact, Running
<1>7. CASE s = k
  <2>1. c \in Running(s)
    BY <1>1, <1>7 DEF Running, k
  <2>2. Cardinality(Running(s) \ {c}) = Cardinality(Running(s)) - 1
    BY <1>6, <2>1, FS_RemoveElement
  <2>3. slots[s] > 0
    <3>1. Cardinality(Running(s)) \in Nat
      BY <1>6, FS_CardinalityType
    <3>2. Cardinality(Running(s)) # 0
      BY <1>6, <2>1, FS_EmptySet
    <3> QED
      BY <1>6, <3>1, <3>2
  <2> QED
    BY <1>4, <1>5, <1>6, <1>7, <2>2, <2>3
<1>8. CASE s # k
  BY <1>4, <1>5, <1>6, <1>8
<1> QED
  BY <1>7, <1>8

LEMMA SlotsNext ==
  IsFiniteSet(Connections) /\ BusInv /\ SlotsExact /\ [StreamNext]_streamVars => SlotsExact'
<1> SUFFICES ASSUME IsFiniteSet(Connections), BusInv, SlotsExact, [StreamNext]_streamVars,
                    NEW s \in Subscribers
             PROVE  slots'[s] = Cardinality(Running(s)')
  BY DEF SlotsExact, Running
<1> DEFINE Kept == \A d \in Connections :
             conn'[d].sub = conn[d].sub /\ (conn'[d].stage = "gone" <=> conn[d].stage = "gone")
<1>0. \A c \in Connections : conn[c] \in Connection /\ HandlerOK(c)
  BY DEF BusInv, StreamTypeOK
<1>1. ASSUME NEW p \in Publishers, Store(p) \/ PublisherStep(p) PROVE UNCHANGED slots /\ Kept
  <2>1. CASE Store(p) \/ FanOut(p) \/ FanOutDone(p)
    BY <2>1 DEF Store, FanOut, FanOutDone
  <2>2. ASSUME NEW k \in Subscribers, Send(p, k) PROVE UNCHANGED slots /\ Kept
    <3>1. reg[k] \in Connections
      BY <2>2 DEF Send, BusInv, PublisherOK, StreamTypeOK
    <3> DEFINE c == reg[k]
    <3>2. \A d \in Connections \ {c} : conn'[d] = conn[d]
      BY <2>2 DEF Send, BusInv, StreamTypeOK
    <3>3. conn'[c].sub = conn[c].sub /\ conn'[c].stage = conn[c].stage
      <4> DEFINE full == Len(conn[c].ch) >= Buffer
                 r == IF full THEN conn[c]
                      ELSE [conn[c] EXCEPT !.ch = Append(@, pub[p].id)]
      <4>1. r.sub = conn[c].sub /\ r.stage = conn[c].stage
        BY <1>0, <3>1 DEF Connection
      <4>2. conn' = [conn EXCEPT ![c] = r]
        <5>1. CASE full
          <6>1. conn' = conn /\ r = conn[c]
            BY <2>2, <5>1 DEF Send
          <6> QED
            BY <3>1, <6>1 DEF BusInv, StreamTypeOK
        <5>2. CASE ~full
          BY <2>2, <5>2 DEF Send
        <5> QED
          BY <5>1, <5>2
      <4> HIDE DEF r
      <4> QED
        BY <3>1, <4>1, <4>2 DEF BusInv, StreamTypeOK
    <3> HIDE DEF c
    <3> QED
      BY <2>2, <3>2, <3>3 DEF Send
  <2>3. CASE Evict(p)
    <3>1. pub[p].toEvict \in SUBSET Subscribers
      BY DEF BusInv, StreamTypeOK, Publisher
    <3> QED
      BY <2>3, <3>1, ClosedFacts DEF Evict
  <2> QED
    BY <1>1, <2>1, <2>2, <2>3 DEF PublisherStep
<1>2. CASE Prune
  BY <1>2, RunningStays DEF Prune
<1>3. ASSUME NEW c \in Connections, NEW k \in Subscribers, Admit(c, k)
      PROVE  slots'[s] = Cardinality(Running(s)')
  BY <1>3, AdmitCounts
<1>4. ASSUME NEW c \in Connections, Release(c) PROVE slots'[s] = Cardinality(Running(s)')
  BY <1>4, ReleaseCounts
<1>5. ASSUME NEW c \in Connections,
             NotFound(c) \/ CutReplay(c) \/ Cancel(c) \/ Replay(c) \/ Deliver(c) \/ Evicted(c)
      PROVE  UNCHANGED slots /\ Kept
  <2>1. PICK r : /\ conn' = [conn EXCEPT ![c] = r]
                 /\ r.sub = conn[c].sub /\ r.stage # "gone" /\ conn[c].stage # "gone"
    <3>1. conn[c] \in Connection
      BY <1>0
    <3> QED
      BY <1>5, <3>1
         DEF NotFound, CutReplay, Cancel, Replay, Deliver, Evicted, Connection
  <2>2. \A d \in Connections : conn'[d] = IF d = c THEN r ELSE conn[d]
    BY <2>1 DEF BusInv, StreamTypeOK
  <2> QED
    BY <1>5, <2>1, <2>2 DEF NotFound, CutReplay, Cancel, Replay, Deliver, Evicted
<1>6. ASSUME NEW c \in Connections, Register(c) \/ Unregister(c)
      PROVE  UNCHANGED slots /\ Kept
  <2>1. PICK to \in {"registered", "released"} :
          /\ conn' = [Closed({conn[c].sub}) EXCEPT ![c].stage = to]
          /\ conn[c].stage \notin {"new", "gone"}
    BY <1>6 DEF Register, Unregister
  <2> DEFINE C == Closed({conn[c].sub})
  <2>2. conn[c].sub \in Subscribers
    BY <1>0, <2>1 DEF HandlerOK
  <2>3. C \in [Connections -> Connection]
        /\ \A d \in Connections : C[d].stage = conn[d].stage /\ C[d].sub = conn[d].sub
    BY <2>2, ClosedFacts
  <2>4. conn' = [C EXCEPT ![c].stage = to]
    BY <2>1
  <2> HIDE DEF C
  <2>5. \A d \in Connections \ {c} : conn'[d] = C[d]
    BY <2>3, <2>4
  <2>6. conn'[c].sub = C[c].sub /\ conn'[c].stage = to
    <3>1. C[c] \in Connection /\ conn'[c] = [C[c] EXCEPT !.stage = to]
      BY <2>3, <2>4
    <3> DEFINE k == C[c]
    <3>2. k \in Connection /\ conn'[c] = [k EXCEPT !.stage = to]
      BY <3>1
    <3> HIDE DEF k
    <3>3. conn'[c].sub = k.sub /\ conn'[c].stage = to
      BY <3>2 DEF Connection
    <3> QED
      BY <3>3 DEF k
  <2>7. Kept
    <3> SUFFICES ASSUME NEW d \in Connections
                 PROVE  /\ conn'[d].sub = conn[d].sub
                        /\ conn'[d].stage = "gone" <=> conn[d].stage = "gone"
      OBVIOUS
    <3>1. CASE d = c
      BY <2>1, <2>3, <2>6, <3>1
    <3>2. CASE d # c
      BY <2>3, <2>5, <3>2
    <3> QED
      BY <3>1, <3>2
  <2> QED
    BY <1>6, <2>7 DEF Register, Unregister
<1>7. CASE UNCHANGED streamVars
  BY <1>7, RunningStays DEF streamVars
<1> HIDE DEF Kept
<1>8. UNCHANGED slots /\ Kept => slots'[s] = Cardinality(Running(s)')
  BY RunningStays DEF Kept
<1> QED
  BY <1>1, <1>2, <1>3, <1>4, <1>5, <1>6, <1>7, <1>8 DEF StreamNext, HandlerStep

\* The limiter counts exactly the handlers that run, however each of them
\* ends, so no slot is lost and none is given twice.
THEOREM SlotsAreExact == IsFiniteSet(Connections) => (StreamSpec => []SlotsExact)
<1> SUFFICES ASSUME IsFiniteSet(Connections) PROVE StreamSpec => []SlotsExact
  OBVIOUS
<1>1. StreamInit => SlotsExact
  <2> SUFFICES ASSUME StreamInit, NEW s \in Subscribers
               PROVE  slots[s] = Cardinality(Running(s))
    BY DEF SlotsExact, Running
  <2>1. Running(s) = {}
    BY NoneIsNoName DEF StreamInit, Running
  <2> QED
    BY <2>1, FS_EmptySet DEF StreamInit
<1>2. BusInv /\ SlotsExact /\ [StreamNext]_streamVars => SlotsExact'
  BY SlotsNext
<1> QED
  BY <1>1, <1>2, BusInvariant, PTL DEF StreamSpec
=============================================================================
