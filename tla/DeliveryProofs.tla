--------------------------- MODULE DeliveryProofs ----------------------------
(***************************************************************************)
(* What the ingest server holds, for any number of requests and calls, any *)
(* retry_count, any lengths of queue and batches, and any losses.          *)
(*                                                                         *)
(* A step of Delivery is a step of Recorder or leaves the recorder alone,  *)
(* so all that is proved of Recorder holds.  Two things are added: the     *)
(* order in which the channel lets batches through, and what the server's  *)
(* history is made of.  The latter takes two sequences of which the state  *)
(* keeps no record; the invariant says that they exist.                    *)
(***************************************************************************)
EXTENDS Delivery, LedgerProofs

-----------------------------------------------------------------------------
(* The channel is first in, first out.                                     *)

\* What becomes of a batch the shipper received or a panic destroyed, and of
\* one nobody holds any more.
Passed == {"in_flight", "delivered", "given_up", "lost_in_panic"}
Ended  == {"refused", "unsent", "delivered", "given_up", "lost_in_panic"}

\* A batch being refused is the last one, the queue is in the order of the
\* flushes, a batch gets through only after all earlier ones have ended, and
\* while the channel is open nothing is lost in it.
OrderInv ==
    /\ refused # <<>> => refused[1].no = Len(flushed)
    /\ \A k, l \in 1..Len(queue) : k < l => queue[k].no < queue[l].no
    /\ \A i, n \in Numbers : n < i /\ fate[i] \in Passed => fate[n] \in Ended
    /\ channel = "open" => \A i \in Numbers : fate[i] \notin {"unsent", "lost_in_panic"}

LEMMA OrderInit ==
    ASSUME Init
    PROVE  OrderInv
  <1>1. refused = <<>> /\ Numbers = {} /\ 1..Len(queue) = {}
    BY DEF Init, Numbers
  <1>. QED  BY <1>1 DEF OrderInv

LEMMA OrderFlush ==
    ASSUME TypeOK, HoldersInv, OrderInv, NEW batch \in Batches, NEW bytes \in Int,
           batch.no = Len(flushed) + 1, refused = <<>>, TrySendBatch(batch, bytes),
           UNCHANGED <<channel, in_flight, counted>>
    PROVE  OrderInv'
  <1>. DEFINE m == Len(flushed) + 1
  <1>1. /\ Len(flushed) \in Nat /\ Numbers = 1..Len(flushed) /\ Numbers' = 1..m
        /\ Len(flushed') = m /\ Numbers \subseteq Nat /\ \A i \in Numbers : i < m
    BY SendShape, NumbersAre, LenProperties DEF Numbers
  <1>2. \A i \in Numbers' : i = m \/ i \in Numbers
    BY <1>1
  <1>3. \A i \in Numbers : fate'[i] = fate[i]
    BY <1>1, SendShape
  <1>4. refused' # <<>> => refused'[1].no = Len(flushed')
    BY <1>1, SendShape
  <1>5. ASSUME NEW k \in 1..Len(queue'), NEW l \in 1..Len(queue'), k < l
        PROVE  queue'[k].no < queue'[l].no
    <2>1. CASE /\ Len(queue') = Len(queue) + 1 /\ queue'[Len(queue) + 1] = batch
               /\ \A j \in 1..Len(queue) : queue'[j] = queue[j]
      <3>1. k \in 1..Len(queue) /\ (l \in 1..Len(queue) \/ l = Len(queue) + 1)
        BY <1>5, <2>1, NumbersAre
      <3>2. queue[k].no \in Numbers
        BY <3>1 DEF HoldersInv, QueueInv, InHistory
      <3>. QED  BY <1>1, <1>5, <2>1, <3>1, <3>2 DEF OrderInv
    <2>2. CASE queue' = queue
      BY <1>5, <2>2 DEF OrderInv
    <2>. QED  BY <2>1, <2>2, SendShape
  <1>6. fate'[m] \notin Passed
    BY SendShape DEF Passed
  <1>7. ASSUME NEW i \in Numbers', NEW n \in Numbers', n < i, fate'[i] \in Passed
        PROVE  fate'[n] \in Ended
    <2>1. i \in Numbers
      BY <1>2, <1>6, <1>7
    <2>2. n \in Numbers
      BY <1>1, <1>2, <1>7, <2>1
    <2>. QED  BY <1>3, <1>7, <2>1, <2>2 DEF OrderInv
  <1>8. channel' = "open" => \A i \in Numbers' : fate'[i] \notin {"unsent", "lost_in_panic"}
    <2>. SUFFICES ASSUME channel' = "open", NEW i \in Numbers'
                  PROVE  fate'[i] \notin {"unsent", "lost_in_panic"}
      OBVIOUS
    <2>1. CASE i = m
      BY <2>1, SendShape
    <2>2. CASE i \in Numbers
      BY <1>3, <2>2 DEF OrderInv
    <2>. QED  BY <1>2, <2>1, <2>2
  <1>. QED  BY <1>4, <1>5, <1>7, <1>8 DEF OrderInv

\* Batches only end: the order is kept by a step that ends some of them and
\* leaves channel and queue alone.
LEMMA OrderEnds ==
    ASSUME TypeOK, OrderInv, UNCHANGED <<flushed, queue>>,
           channel' = "open" => channel = "open",
           refused' # <<>> => refused' = refused,
           \A i \in Numbers : \/ fate'[i] = fate[i]
                              \/ /\ fate'[i] \in {"refused", "given_up", "delivered"}
                                 /\ fate'[i] = "refused" \/ fate[i] \in Passed
    PROVE  OrderInv'
  <1>1. Numbers' = Numbers
    BY DEF Numbers
  <1>2. \A i \in Numbers : /\ fate[i] \in Ended => fate'[i] \in Ended
                           /\ fate'[i] \in Passed => fate[i] \in Passed
                           /\ fate'[i] \in {"unsent", "lost_in_panic"} => fate'[i] = fate[i]
    BY DEF Ended, Passed
  <1>. QED  BY <1>1, <1>2 DEF OrderInv

LEMMA OrderReceives ==
    ASSUME TypeOK, HoldersInv, OrderInv, ShipperReceives
    PROVE  OrderInv'
  <1>. DEFINE k == queue[1].no
  <1>1. /\ queue # <<>> /\ in_flight = <<>> /\ queue' = Tail(queue)
        /\ fate' = [fate EXCEPT ![Head(queue).no] = "in_flight"]
        /\ UNCHANGED <<channel, refused, flushed>>
    BY DEF ShipperReceives
  <1>2. /\ Head(queue) = queue[1] /\ Len(queue) >= 1 /\ Len(queue') = Len(queue) - 1
        /\ Len(queue) \in Nat
        /\ \A i \in 1..(Len(queue) - 1) : queue'[i] = queue[i + 1]
    <2>1. Len(queue) >= 1
      BY <1>1, SharedFacts, EmptySeq, LenProperties
    <2>. QED  BY <1>1, <2>1, SharedFacts, HeadTailProperties, NumbersAre
  <1>3. k \in Numbers /\ fate[k] = "queued" /\ Numbers' = Numbers /\ Numbers \subseteq Nat
    BY <1>1, <1>2, NumbersAre DEF HoldersInv, QueueInv, InHistory, Numbers
  <1>4. fate'[k] = "in_flight" /\ \A i \in Numbers : i # k => fate'[i] = fate[i]
    <2>1. fate' = [fate EXCEPT ![k] = "in_flight"]
      BY <1>1, <1>2
    <2>. HIDE DEF k
    <2>. QED  BY <1>3, <2>1, FateExcept
  <1>5. ASSUME NEW i \in 1..Len(queue'), NEW j \in 1..Len(queue'), i < j
        PROVE  queue'[i].no < queue'[j].no
    <2>1. /\ i + 1 \in 1..Len(queue) /\ j + 1 \in 1..Len(queue) /\ i + 1 < j + 1
          /\ queue'[i] = queue[i + 1] /\ queue'[j] = queue[j + 1]
      BY <1>2, <1>5
    <2>. QED  BY <2>1 DEF OrderInv
  \* Every batch before the one received has ended.
  <1>6. ASSUME NEW n \in Numbers, n < k
        PROVE  fate[n] \in Ended
    <2>1. fate[n] # "queued"
      <3>. SUFFICES ASSUME fate[n] = "queued" PROVE FALSE
        OBVIOUS
      <3>2. PICK j \in 1..Len(queue) : queue[j].no = n
        BY DEF HoldersInv, QueueInv
      <3>3. j = 1 \/ (1 \in 1..Len(queue) /\ 1 < j)
        BY <1>2
      <3>4. CASE j = 1
        BY <1>3, <1>6, <3>2, <3>4
      <3>5. CASE 1 \in 1..Len(queue) /\ 1 < j
        <4>1. queue[1].no < queue[j].no
          BY <3>5 DEF OrderInv
        <4>2. k < n
          BY <3>2, <4>1
        <4>3. n \in Nat /\ k \in Nat
          BY <1>3, NumbersAre
        <4>. QED  BY <1>6, <4>2, <4>3
      <3>. QED  BY <3>3, <3>4, <3>5
    <2>2. fate[n] # "refusing"
      <3>1. n # Len(flushed)
        BY <1>3, <1>6, NumbersAre
      <3>. QED  BY <3>1 DEF HoldersInv, RefusedInv, OrderInv
    <2>3. fate[n] # "in_flight"
      BY <1>1 DEF HoldersInv, InFlightInv
    <2>4. fate[n] \in Fates
      BY NumbersAre
    <2>. QED  BY <2>1, <2>2, <2>3, <2>4 DEF Fates, Ended
  <1>7. ASSUME NEW i \in Numbers, NEW n \in Numbers, n < i, fate'[i] \in Passed
        PROVE  fate'[n] \in Ended
    <2>1. CASE i = k
      BY <1>3, <1>4, <1>6, <1>7, <2>1
    <2>2. CASE i # k
      <3>1. fate[n] \in Ended
        BY <1>4, <1>7, <2>2 DEF OrderInv
      <3>2. n # k
        BY <1>3, <3>1 DEF Ended
      <3>. QED  BY <1>4, <3>1, <3>2
    <2>. QED  BY <2>1, <2>2
  <1>8. channel' = "open" => \A i \in Numbers : fate'[i] \notin {"unsent", "lost_in_panic"}
    <2>. SUFFICES ASSUME channel = "open", NEW i \in Numbers
                  PROVE  fate'[i] \notin {"unsent", "lost_in_panic"}
      BY <1>1
    <2>. QED  BY <1>4 DEF OrderInv
  <1>9. refused' # <<>> => refused'[1].no = Len(flushed')
    BY <1>1 DEF OrderInv
  <1>. QED  BY <1>3, <1>5, <1>7, <1>8, <1>9 DEF OrderInv

LEMMA OrderPanics ==
    ASSUME TypeOK, HoldersInv, OrderInv, ShipperPanics
    PROVE  OrderInv'
  <1>1. /\ channel' = "disconnected" /\ queue' = <<>>
        /\ UNCHANGED <<refused, flushed>>
    BY DEF ShipperPanics
  <1>2. \A i \in Numbers : fate'[i] = IF fate[i] \in {"queued", "in_flight"}
                                      THEN "lost_in_panic" ELSE fate[i]
    BY NumbersAre DEF ShipperPanics
  <1>3. Numbers' = Numbers /\ Numbers \subseteq Nat /\ 1..Len(queue') = {}
        /\ \A n \in Numbers : n <= Len(flushed)
    BY <1>1, NumbersAre DEF Numbers
  <1>4. ASSUME NEW i \in Numbers, NEW n \in Numbers, n < i
        PROVE  fate'[n] \in Ended
    <2>1. fate[n] # "refusing"
      <3>1. n # Len(flushed)
        BY <1>3, <1>4, NumbersAre
      <3>. QED  BY <3>1 DEF HoldersInv, RefusedInv, OrderInv
    <2>2. fate[n] \in Fates
      BY NumbersAre
    <2>. QED  BY <1>2, <2>1, <2>2 DEF Fates, Ended
  <1>. QED  BY <1>1, <1>3, <1>4 DEF OrderInv

LEMMA OrderStep ==
    ASSUME TypeOK, LifoCount, HoldersInv, OrderInv, [Next]_vars
    PROVE  OrderInv'
  <1>1. CASE UNCHANGED <<channel, queue, refused, in_flight, counted, flushed, fate>>
    BY <1>1 DEF OrderInv, Numbers
  <1>2. CASE DiscardRefused
    <2>. DEFINE k == refused[1].no
    <2>1. /\ refused # <<>> /\ refused' = <<>> /\ fate' = [fate EXCEPT ![k] = "refused"]
          /\ UNCHANGED <<channel, queue, flushed>>
      BY <1>2, NumbersAre DEF DiscardRefused
    <2>2. k \in Numbers
      BY <2>1 DEF HoldersInv, RefusedInv, InHistory
    <2>3. fate'[k] = "refused" /\ \A i \in Numbers : i # k => fate'[i] = fate[i]
      BY <2>1, <2>2, FateBecomes
    <2>. QED  BY <2>1, <2>3, OrderEnds
  <1>3. CASE ShipperCountsDrop
    <2>. DEFINE k == in_flight[1].no
    <2>1. /\ in_flight # <<>> /\ fate' = [fate EXCEPT ![k] = "given_up"]
          /\ UNCHANGED <<channel, queue, refused, flushed>>
      BY <1>3, NumbersAre DEF ShipperCountsDrop
    <2>2. ~counted
      BY <1>3, Zenon DEF ShipperCountsDrop
    <2>3. k \in Numbers /\ fate[k] = "in_flight"
      BY <2>1, <2>2 DEF HoldersInv, InFlightInv, InHistory
    <2>4. fate'[k] = "given_up" /\ \A i \in Numbers : i # k => fate'[i] = fate[i]
      BY <2>1, <2>3, FateBecomes
    <2>. QED  BY <2>1, <2>3, <2>4, OrderEnds DEF Passed
  <1>4. CASE ShipperReleases
    <2>. DEFINE k == in_flight[1].no
    <2>1. /\ in_flight # <<>> /\ UNCHANGED <<channel, queue, refused, flushed>>
          /\ fate' = IF counted THEN fate ELSE [fate EXCEPT ![k] = "delivered"]
      BY <1>4, NumbersAre DEF ShipperReleases
    <2>2. CASE counted
      BY <2>1, <2>2, OrderEnds
    <2>3. CASE ~counted
      <3>1. k \in Numbers /\ fate[k] = "in_flight"
        BY <2>1, <2>3 DEF HoldersInv, InFlightInv, InHistory
      <3>2. fate'[k] = "delivered" /\ \A i \in Numbers : i # k => fate'[i] = fate[i]
        BY <2>1, <2>3, <3>1, FateBecomes
      <3>. QED  BY <2>1, <3>1, <3>2, OrderEnds DEF Passed
    <2>. QED  BY <2>2, <2>3
  <1>. QED  BY <1>1, <1>2, <1>3, <1>4, StepKinds, OrderFlush, OrderReceives, OrderPanics

-----------------------------------------------------------------------------
(* What a step of the recorder and its shipper does to the history.        *)

\* The history grows at its end, by at most one batch.
Grows ==
    \/ UNCHANGED flushed
    \/ /\ flushed' \in Seq(Batches) /\ Len(flushed') = Len(flushed) + 1
       /\ \A i \in 1..Len(flushed) : flushed'[i] = flushed[i]

\* No counter goes down, and no end is taken back.
HistoryKept ==
    /\ Grows
    /\ \A i \in Numbers : /\ i \in Numbers' /\ flushed'[i] = flushed[i]
                          /\ fate[i] \in Ended => fate'[i] = fate[i]
                          /\ fate[i] \in Passed => fate'[i] \in Passed
    /\ \A r \in Requests : drop_counter[r] <= drop_counter'[r]

LEMMA DropsGrow ==
    ASSUME TypeOK, HoldersInv, [Next]_vars
    PROVE  \A r \in Requests : drop_counter[r] <= drop_counter'[r]
  <1>1. drop_counter \in [Requests -> Nat]
    BY DEF TypeOK, SharedTypeOK
  <1>2. ASSUME NEW q, NEW n \in Nat, drop_counter' = [drop_counter EXCEPT ![q] = @ + n]
        PROVE  \A r \in Requests : drop_counter[r] <= drop_counter'[r]
    BY <1>1, <1>2
  <1>3. CASE UNCHANGED drop_counter
    BY <1>1, <1>3
  <1>4. ASSUME RecordDrop
        PROVE  \A r \in Requests : drop_counter[r] <= drop_counter'[r]
    BY <1>2, <1>4 DEF RecordDrop
  <1>5. ASSUME NEW s \in Seq(Batches), s # <<>>
        PROVE  Len(Head(s).calls) \in Nat
    <2>1. Head(s) \in Batches
      BY <1>5, HeadTailProperties
    <2>2. Head(s).calls \in Seq(Records)
      BY <2>1 DEF Batches
    <2>. QED  BY <2>2, LenProperties
  <1>6. CASE DiscardRefused
    BY <1>2, <1>5, <1>6, SharedFacts DEF DiscardRefused
  <1>7. CASE ShipperCountsDrop
    BY <1>2, <1>5, <1>7, SharedFacts DEF ShipperCountsDrop
  <1>8. CASE RInit \/ End \/ RShutdown \/ UNCHANGED vars
    BY <1>3, <1>8, Zenon DEF RInit, End, EndOfDroppedBegin, EndAccepted, EngineEnds, RShutdown,
                             vars, shared_vars
  <1>9. CASE ShipperReceives \/ ShipperReleases \/ ShipperPanics
    BY <1>3, <1>9 DEF ShipperReceives, ShipperReleases, ShipperPanics
  <1>10. CASE Begin
    BY <1>3, <1>4, <1>10 DEF Begin, BeginDroppedByDepth, BeginDroppedByCap, BeginAccepted
  <1>. QED  BY <1>6, <1>7, <1>8, <1>9, <1>10 DEF Next, RequestThread, Shipper

LEMMA HistoryStep ==
    ASSUME TypeOK, LifoCount, HoldersInv, [Next]_vars
    PROVE  HistoryKept
  <1>0. \A r \in Requests : drop_counter[r] <= drop_counter'[r]
    BY DropsGrow
  <1>1. ASSUME UNCHANGED flushed,
               \A i \in Numbers : fate'[i] # fate[i] =>
                    fate[i] \notin Ended /\ (fate[i] \in Passed => fate'[i] \in Passed)
        PROVE  HistoryKept
    BY <1>0, <1>1 DEF HistoryKept, Grows, Numbers
  <1>2. CASE UNCHANGED <<channel, queue, refused, in_flight, counted, flushed, fate>>
    BY <1>1, <1>2
  <1>3. ASSUME NEW batch \in Batches, NEW bytes \in Int, refused = <<>>,
               TrySendBatch(batch, bytes)
        PROVE  HistoryKept
    <2>1. /\ flushed' \in Seq(Batches) /\ Len(flushed') = Len(flushed) + 1 /\ Len(flushed) \in Nat
          /\ \A i \in 1..Len(flushed) : flushed'[i] = flushed[i] /\ fate'[i] = fate[i]
      BY <1>3, SendShape
    <2>2. Numbers = 1..Len(flushed) /\ Numbers' = 1..Len(flushed')
      BY <2>1, NumbersAre, LenProperties DEF Numbers
    <2>3. \A i \in Numbers : i \in Numbers'
      BY <2>1, <2>2
    <2>. QED  BY <1>0, <2>1, <2>2, <2>3 DEF HistoryKept, Grows
  <1>4. ASSUME NEW k \in Numbers, UNCHANGED flushed, fate[k] \notin Ended,
               fate[k] \in Passed => fate'[k] \in Passed,
               \A i \in Numbers : i # k => fate'[i] = fate[i]
        PROVE  HistoryKept
    BY <1>1, <1>4
  <1>5. CASE DiscardRefused
    <2>. DEFINE k == refused[1].no
    <2>1. /\ refused # <<>> /\ fate' = [fate EXCEPT ![k] = "refused"] /\ UNCHANGED flushed
      BY <1>5, NumbersAre DEF DiscardRefused
    <2>2. k \in Numbers /\ fate[k] = "refusing"
      BY <2>1 DEF HoldersInv, RefusedInv, InHistory
    <2>3. \A i \in Numbers : i # k => fate'[i] = fate[i]
      BY <2>1, <2>2, FateBecomes
    <2>4. fate[k] \notin Ended /\ fate[k] \notin Passed
      BY <2>2 DEF Ended, Passed
    <2>. HIDE DEF k
    <2>. QED  BY <1>4, <2>1, <2>2, <2>3, <2>4
  <1>6. CASE ShipperReceives
    <2>. DEFINE k == queue[1].no
    <2>1. queue # <<>> /\ Head(queue) = queue[1] /\ 1 \in 1..Len(queue) /\ UNCHANGED flushed
      <3>1. queue # <<>> /\ UNCHANGED flushed
        BY <1>6 DEF ShipperReceives
      <3>. QED  BY <3>1, SharedFacts, EmptySeq, LenProperties, HeadTailProperties
    <2>2. fate' = [fate EXCEPT ![k] = "in_flight"]
      BY <1>6, <2>1 DEF ShipperReceives
    <2>3. k \in Numbers /\ fate[k] = "queued"
      BY <2>1 DEF HoldersInv, QueueInv, InHistory
    <2>. HIDE DEF k
    <2>4. \A i \in Numbers : i # k => fate'[i] = fate[i]
      BY <2>2, <2>3, FateExcept
    <2>5. fate[k] \notin Ended /\ fate[k] \notin Passed
      BY <2>3 DEF Ended, Passed
    <2>. QED  BY <1>4, <2>1, <2>3, <2>4, <2>5
  <1>7. CASE ShipperCountsDrop
    <2>. DEFINE k == in_flight[1].no
    <2>1. /\ in_flight # <<>> /\ fate' = [fate EXCEPT ![k] = "given_up"] /\ UNCHANGED flushed
      BY <1>7, NumbersAre DEF ShipperCountsDrop
    <2>2. ~counted
      BY <1>7, Zenon DEF ShipperCountsDrop
    <2>3. k \in Numbers /\ fate[k] = "in_flight"
      BY <2>1, <2>2 DEF HoldersInv, InFlightInv, InHistory
    <2>4. fate'[k] = "given_up" /\ \A i \in Numbers : i # k => fate'[i] = fate[i]
      BY <2>1, <2>3, FateBecomes
    <2>5. fate[k] \notin Ended /\ fate'[k] \in Passed
      BY <2>3, <2>4 DEF Ended, Passed
    <2>. HIDE DEF k
    <2>. QED  BY <1>4, <2>1, <2>3, <2>4, <2>5
  <1>8. CASE ShipperReleases
    <2>. DEFINE k == in_flight[1].no
    <2>1. /\ in_flight # <<>> /\ UNCHANGED flushed
          /\ fate' = IF counted THEN fate ELSE [fate EXCEPT ![k] = "delivered"]
      BY <1>8, NumbersAre DEF ShipperReleases
    <2>2. CASE counted
      BY <1>1, <2>1, <2>2
    <2>3. CASE ~counted
      <3>1. k \in Numbers /\ fate[k] = "in_flight"
        BY <2>1, <2>3 DEF HoldersInv, InFlightInv, InHistory
      <3>2. fate'[k] = "delivered" /\ \A i \in Numbers : i # k => fate'[i] = fate[i]
        BY <2>1, <2>3, <3>1, FateBecomes
      <3>3. fate[k] \notin Ended /\ fate'[k] \in Passed
        BY <3>1, <3>2 DEF Ended, Passed
      <3>. HIDE DEF k
      <3>. QED  BY <1>4, <2>1, <3>1, <3>2, <3>3
    <2>. QED  BY <2>2, <2>3
  <1>9. CASE ShipperPanics
    <2>1. UNCHANGED flushed
      BY <1>9 DEF ShipperPanics
    <2>2. \A i \in Numbers : fate'[i] = IF fate[i] \in {"queued", "in_flight"}
                                        THEN "lost_in_panic" ELSE fate[i]
      BY <1>9, NumbersAre DEF ShipperPanics
    <2>3. \A i \in Numbers : fate'[i] # fate[i] =>
                    fate[i] \notin Ended /\ fate'[i] \in Passed
      BY <2>2 DEF Ended, Passed
    <2>. QED  BY <1>1, <2>1, <2>3
  <1>. QED  BY <1>2, <1>3, <1>5, <1>6, <1>7, <1>8, <1>9, StepKinds

\* What a set of batches of the history holds does not change as it grows.
LEMMA CallsStable ==
    ASSUME TypeOK, Grows, NEW A \in SUBSET Numbers
    PROVE  CallsIn(A)' = CallsIn(A) /\ CallsIn(A) \in Nat
  <1>. DEFINE w == CallCountsOf(flushed)
  <1>1. /\ flushed \in Seq(Batches) /\ Numbers = 1..Len(flushed) /\ Len(flushed) \in Nat
        /\ w \in Seq(Nat) /\ Len(w) = Len(flushed) /\ CallsIn(A) = TotalIn(w, A)
        /\ TotalIn(w, A) \in Nat
    BY BudgetTyped, WeightsAre, LedgersAre
  <1>2. CallsIn(A)' = TotalIn(CallCountsOf(flushed'), A)
    BY LedgersAre
  <1>3. CASE UNCHANGED flushed
    BY <1>1, <1>2, <1>3
  <1>4. CASE /\ flushed' \in Seq(Batches) /\ Len(flushed') = Len(flushed) + 1
             /\ \A i \in 1..Len(flushed) : flushed'[i] = flushed[i]
    <2>. DEFINE e == Len(flushed'[Len(flushed) + 1].calls)
    <2>1. e \in Nat /\ CallCountsOf(flushed') = Append(w, e)
      BY <1>1, <1>4, WeightsGrow
    <2>2. Len(w) + 1 \notin A
      BY <1>1
    <2>. HIDE DEF w, e
    <2>3. TotalIn(Append(w, e), A) = TotalIn(w, A) + 0
      BY <1>1, <2>1, <2>2, TotalInAppend
    <2>. QED  BY <1>1, <1>2, <2>1, <2>3
  <1>. QED  BY <1>3, <1>4 DEF Grows

-----------------------------------------------------------------------------
(* No batch is empty, and every dropped one is in its trace's counter.     *)

FilledInv == \A i \in Numbers : flushed[i].calls # <<>>

LEMMA FilledInit ==
    ASSUME Init
    PROVE  FilledInv
  BY DEF Init, FilledInv, Numbers

LEMMA FilledStep ==
    ASSUME TypeOK, LifoCount, FilledInv, [Next]_vars
    PROVE  FilledInv'
  <1>1. CASE UNCHANGED flushed
    BY <1>1 DEF FilledInv, Numbers
  <1>2. ASSUME NEW batch \in Batches, NEW bytes \in Int, refused = <<>>,
               TrySendBatch(batch, bytes), batch.calls # <<>>
        PROVE  FilledInv'
    <2>1. /\ flushed' \in Seq(Batches) /\ Len(flushed') = Len(flushed) + 1
          /\ flushed'[Len(flushed) + 1] = batch /\ Len(flushed) \in Nat
          /\ \A i \in 1..Len(flushed) : flushed'[i] = flushed[i]
      BY <1>2, SendShape
    <2>2. Numbers = 1..Len(flushed) /\ Numbers' = 1..(Len(flushed) + 1)
      BY <2>1, NumbersAre, LenProperties DEF Numbers
    <2>3. \A i \in Numbers' : i \in Numbers \/ i = Len(flushed) + 1
      BY <2>1, <2>2
    <2>. QED  BY <1>2, <2>1, <2>2, <2>3 DEF FilledInv
  <1>3. ASSUME NEW threw \in Throws, EndAccepted(threw)
        PROVE  FilledInv'
    <2>. DEFINE calls == Append(buffer, EndRecord(threw))
                batch == PendingBatch(calls, buffer_estimated_bytes + CALL_RECORD_FIXED_BYTES)
    <2>1. batch.calls = calls
      BY DEF PendingBatch
    <2>2. calls # <<>>
      <3>1. buffer \in Seq(Records) /\ EndRecord(threw) \in Records
        BY <1>3, EndCases DEF TypeOK, TraceTypeOK
      <3>2. Len(calls) = Len(buffer) + 1 /\ Len(buffer) \in Nat /\ Len(<<>>) = 0
        BY <3>1, AppendProperties, EmptySeq, LenProperties
      <3>. QED  BY <3>2
    <2>. HIDE DEF calls, batch
    <2>. QED  BY <1>1, <1>2, <1>3, <2>1, <2>2, EndCases DEF calls, batch
  <1>4. CASE RShutdown
    <2>. DEFINE calls == buffer \o DrainedRecords
                batch == PendingBatch(calls, buffer_estimated_bytes
                                        + CALL_RECORD_FIXED_BYTES * Len(stack))
    <2>1. batch.calls = calls
      BY DEF PendingBatch
    <2>2. CASE calls # <<>>
      <3>. HIDE DEF calls, batch
      <3>1. CASE UNCHANGED flushed
        BY <1>1, <3>1
      <3>2. CASE TrySendBatch(batch, bytes_in_memory + CALL_RECORD_FIXED_BYTES * Len(stack))
        BY <1>2, <1>4, <2>1, <2>2, <3>2, ShutdownCases DEF calls, batch
      <3>. QED  BY <1>4, <3>1, <3>2, ShutdownCases DEF calls, batch
    <2>3. CASE calls = <<>>
      <3>1. UNCHANGED flushed
        BY <1>4, <2>3 DEF RShutdown
      <3>. QED  BY <1>1, <3>1
    <2>. QED  BY <2>2, <2>3
  <1>5. CASE RInit \/ Begin \/ EndOfDroppedBegin \/ DiscardRefused \/ Shipper \/ UNCHANGED vars
    <2>1. UNCHANGED flushed
      BY <1>5 DEF RInit, Begin, BeginDroppedByDepth, BeginDroppedByCap, BeginAccepted,
                  EngineBegins, EndOfDroppedBegin, EngineEnds, DiscardRefused, Shipper,
                  ShipperReceives, ShipperCountsDrop, ShipperReleases, ShipperPanics,
                  vars, shared_vars
    <2>. QED  BY <1>1, <2>1
  <1>. QED  BY <1>3, <1>4, <1>5 DEF Next, RequestThread, End

\* The batches of r that its drop counter has taken over.
Dropped(r) ==
    {i \in DOMAIN flushed : flushed[i].trace = r /\ fate[i] \in {"refused", "given_up"}}

CountedInv == \A r \in Requests : CallsIn(Dropped(r)) <= drop_counter[r]

LEMMA CountedInit ==
    ASSUME Init
    PROVE  CountedInv
  <1>. SUFFICES ASSUME NEW r \in Requests
                PROVE  CallsIn(Dropped(r)) <= drop_counter[r]
    BY DEF CountedInv
  <1>1. TypeOK /\ Numbers = {} /\ drop_counter[r] = 0
    <2>1. Numbers = {}
      BY DEF Init, Numbers
    <2>2. drop_counter[r] = 0
      BY DEF Init
    <2>. QED  BY <2>1, <2>2, TypeInit
  <1>2. /\ CallsIn(Dropped(r)) = TotalIn(CallCountsOf(flushed), Dropped(r))
        /\ CallCountsOf(flushed) \in Seq(Nat) /\ Len(CallCountsOf(flushed)) = Len(flushed)
    BY <1>1, BudgetTyped, WeightsAre, LedgersAre
  <1>3. \A i \in 1..Len(CallCountsOf(flushed)) : i \notin Dropped(r)
    BY <1>1, <1>2 DEF Dropped, Numbers
  <1>4. CallsIn(Dropped(r)) = 0
    BY <1>2, <1>3, TotalInNone
  <1>. QED  BY <1>1, <1>4

\* The counter takes over the batch k.
LEMMA CountedMore ==
    ASSUME TypeOK, CountedInv, UNCHANGED flushed, NEW k \in Numbers,
           fate[k] \notin {"refused", "given_up"}, fate'[k] \in {"refused", "given_up"},
           \A i \in Numbers : i # k => fate'[i] = fate[i],
           drop_counter' = [drop_counter EXCEPT ![flushed[k].trace] = @ + Len(flushed[k].calls)]
    PROVE  CountedInv'
  <1>. SUFFICES ASSUME NEW r \in Requests
                PROVE  CallsIn(Dropped(r))' <= drop_counter'[r]
    BY DEF CountedInv
  <1>. DEFINE w == CallCountsOf(flushed)
              A == Dropped(r)
              B == Dropped(r)'
  <1>1. /\ w \in Seq(Nat) /\ Numbers = 1..Len(w) /\ Numbers = 1..Len(flushed)
        /\ CallsIn(A) = TotalIn(w, A) /\ CallsIn(Dropped(r))' = TotalIn(w, B)
        /\ TotalIn(w, A) \in Nat /\ TotalIn(w, B) \in Nat
    BY BudgetTyped, WeightsAre, LedgersAre
  <1>2. w[k] = Len(flushed[k].calls) /\ w[k] \in Nat
    BY <1>1, BudgetTyped, WeightsAre
  <1>3. drop_counter[r] \in Nat /\ CallsIn(A) <= drop_counter[r]
        /\ drop_counter \in [Requests -> Nat]
    BY DEF CountedInv, TypeOK, SharedTypeOK
  <1>4. /\ k \notin A /\ (k \in B <=> flushed[k].trace = r)
        /\ \A i \in 1..Len(w) : i # k => (i \in A <=> i \in B)
    <2>1. k \notin A /\ (k \in B <=> flushed[k].trace = r)
      BY DEF Dropped, Numbers
    <2>2. ASSUME NEW i \in Numbers, i # k
          PROVE  i \in A <=> i \in B
      <3>1. fate'[i] = fate[i]
        BY <2>2
      <3>. QED  BY <3>1 DEF Dropped, Numbers
    <2>. HIDE DEF w, A, B
    <2>. QED  BY <1>1, <2>1, <2>2, Zenon
  <1>. HIDE DEF w, A, B
  <1>5. CASE flushed[k].trace = r
    <2>1. TotalIn(w, B) = TotalIn(w, A) + w[k]
      <3>1. k \in 1..Len(w) /\ k \notin A /\ k \in B
        BY <1>1, <1>4, <1>5, Zenon
      <3>. QED  BY <1>1, <1>4, <3>1, TotalInGain
    <2>2. drop_counter'[r] = drop_counter[r] + w[k]
      BY <1>2, <1>3, <1>5
    <2>. QED  BY <1>1, <1>2, <1>3, <2>1, <2>2
  <1>6. CASE flushed[k].trace # r
    <2>1. TotalIn(w, B) = TotalIn(w, A)
      <3>1. k \notin A /\ k \notin B
        BY <1>4, <1>6, Zenon
      <3>2. \A i \in 1..Len(w) : i \in A <=> i \in B
        BY <1>4, <3>1, Zenon
      <3>. QED  BY <1>1, <3>2, TotalInSame
    <2>2. drop_counter'[r] = drop_counter[r]
      BY <1>3, <1>6
    <2>. QED  BY <1>1, <1>3, <2>1, <2>2
  <1>. QED  BY <1>5, <1>6

\* No counter takes over a batch.
LEMMA CountedKept ==
    ASSUME TypeOK, TypeOK', CountedInv, Grows,
           \A r \in Requests : drop_counter[r] <= drop_counter'[r],
           \A i \in Numbers' : fate'[i] \in {"refused", "given_up"} <=>
                                    i \in Numbers /\ fate[i] \in {"refused", "given_up"}
    PROVE  CountedInv'
  <1>. SUFFICES ASSUME NEW r \in Requests
                PROVE  CallsIn(Dropped(r))' <= drop_counter'[r]
    BY DEF CountedInv
  <1>1. \A i \in Numbers : i \in Numbers' /\ flushed'[i] = flushed[i]
    <2>1. Numbers = 1..Len(flushed) /\ Len(flushed) \in Nat
      BY NumbersAre
    <2>2. CASE UNCHANGED flushed
      BY <2>2 DEF Numbers
    <2>3. CASE /\ flushed' \in Seq(Batches) /\ Len(flushed') = Len(flushed) + 1
               /\ \A i \in 1..Len(flushed) : flushed'[i] = flushed[i]
      <3>1. Numbers' = 1..(Len(flushed) + 1)
        BY <2>3, LenProperties DEF Numbers
      <3>. QED  BY <2>1, <2>3, <3>1
    <2>. QED  BY <2>2, <2>3 DEF Grows
  <1>2. Dropped(r)' = Dropped(r)
    BY <1>1 DEF Dropped, Numbers
  <1>3. Dropped(r) \in SUBSET Numbers
    BY DEF Dropped, Numbers
  <1>4. CallsIn(Dropped(r))' = CallsIn(Dropped(r)) /\ CallsIn(Dropped(r)) \in Nat
    <2>. DEFINE A == Dropped(r)
    <2>1. A \in SUBSET Numbers /\ Dropped(r)' = A
      BY <1>2, <1>3
    <2>2. CallsIn(Dropped(r))' = TotalIn(CallCountsOf(flushed'), Dropped(r)')
      BY LedgersAre
    <2>. HIDE DEF A
    <2>3. TotalIn(CallCountsOf(flushed'), A) = CallsIn(A) /\ CallsIn(A) \in Nat
      BY <2>1, CallsStable, LedgersAre
    <2>. QED  BY <2>1, <2>2, <2>3 DEF A
  <1>5. CallsIn(Dropped(r)) <= drop_counter[r] /\ drop_counter[r] <= drop_counter'[r]
    BY DEF CountedInv
  <1>6. drop_counter[r] \in Nat /\ drop_counter'[r] \in Nat
    BY DEF TypeOK, SharedTypeOK
  <1>. QED  BY <1>4, <1>5, <1>6

LEMMA CountedStep ==
    ASSUME TypeOK, TypeOK', LifoCount, HoldersInv, CountedInv, [Next]_vars
    PROVE  CountedInv'
  <1>0. Grows /\ \A r \in Requests : drop_counter[r] <= drop_counter'[r]
    BY HistoryStep DEF HistoryKept
  <1>1. ASSUME UNCHANGED flushed,
               \A i \in Numbers : fate'[i] \in {"refused", "given_up"}
                                        <=> fate[i] \in {"refused", "given_up"}
        PROVE  CountedInv'
    <2>1. Numbers' = Numbers
      BY <1>1 DEF Numbers
    <2>. QED  BY <1>0, <1>1, <2>1, CountedKept
  <1>2. CASE UNCHANGED <<channel, queue, refused, in_flight, counted, flushed, fate>>
    <2>1. UNCHANGED flushed /\ UNCHANGED fate
      BY <1>2
    <2>. QED  BY <1>1, <2>1
  <1>3. ASSUME NEW batch \in Batches, NEW bytes \in Int, refused = <<>>,
               TrySendBatch(batch, bytes)
        PROVE  CountedInv'
    <2>. DEFINE m == Len(flushed) + 1
    <2>1. /\ flushed' \in Seq(Batches) /\ Len(flushed') = m /\ Len(flushed) \in Nat
          /\ \A i \in 1..Len(flushed) : fate'[i] = fate[i]
          /\ fate'[m] \in {"queued", "refusing", "unsent"}
      BY <1>3, SendShape
    <2>2. Numbers = 1..Len(flushed) /\ Numbers' = 1..m
      BY <2>1, NumbersAre, LenProperties DEF Numbers
    <2>3. \A i \in Numbers' : i \in Numbers \/ i = m
      BY <2>1, <2>2
    <2>4. m \notin Numbers
      BY <2>1, <2>2
    <2>5. \A i \in Numbers' : fate'[i] \in {"refused", "given_up"} <=>
                                    i \in Numbers /\ fate[i] \in {"refused", "given_up"}
      BY <2>1, <2>2, <2>3, <2>4
    <2>. QED  BY <1>0, <2>5, CountedKept
  <1>4. CASE DiscardRefused
    <2>. DEFINE k == refused[1].no
    <2>1. /\ refused # <<>> /\ fate' = [fate EXCEPT ![k] = "refused"] /\ UNCHANGED flushed
          /\ drop_counter' = [drop_counter EXCEPT ![refused[1].trace] = @ + Len(refused[1].calls)]
      BY <1>4, NumbersAre DEF DiscardRefused
    <2>2. k \in Numbers /\ fate[k] = "refusing" /\ flushed[k] = refused[1]
      BY <2>1 DEF HoldersInv, RefusedInv, InHistory
    <2>3. fate'[k] = "refused" /\ \A i \in Numbers : i # k => fate'[i] = fate[i]
      BY <2>1, <2>2, FateBecomes
    <2>. HIDE DEF k
    <2>. QED  BY <2>1, <2>2, <2>3, CountedMore
  <1>5. CASE ShipperCountsDrop
    <2>. DEFINE k == in_flight[1].no
    <2>1. /\ in_flight # <<>> /\ fate' = [fate EXCEPT ![k] = "given_up"] /\ UNCHANGED flushed
          /\ drop_counter' = [drop_counter EXCEPT ![in_flight[1].trace] =
                                    @ + Len(in_flight[1].calls)]
      BY <1>5, NumbersAre DEF ShipperCountsDrop
    <2>2. ~counted
      BY <1>5, Zenon DEF ShipperCountsDrop
    <2>3. k \in Numbers /\ fate[k] = "in_flight" /\ flushed[k] = in_flight[1]
      BY <2>1, <2>2 DEF HoldersInv, InFlightInv, InHistory
    <2>4. fate'[k] = "given_up" /\ \A i \in Numbers : i # k => fate'[i] = fate[i]
      BY <2>1, <2>3, FateBecomes
    <2>. HIDE DEF k
    <2>. QED  BY <2>1, <2>3, <2>4, CountedMore
  <1>6. CASE ShipperReceives \/ ShipperReleases \/ ShipperPanics
    <2>1. UNCHANGED flushed
      BY <1>6 DEF ShipperReceives, ShipperReleases, ShipperPanics
    <2>. QED  BY <1>1, <1>6, <2>1, CountedSame
  <1>. QED  BY <1>2, <1>3, <1>4, <1>5, <1>6, StepKinds

HistoryInv == OrderInv /\ FilledInv /\ CountedInv

\* All that is known of the recorder.
RecorderInv ==
    /\ TypeOK /\ LifoCount /\ HoldersInv /\ HistoryInv
    /\ RecordsFormATree /\ DictionaryAnnounced /\ EveryCallAccountedFor

LEMMA RecorderAlways == Spec => []RecorderInv
  <1>1. Init => HistoryInv
    BY OrderInit, FilledInit, CountedInit DEF HistoryInv
  <1>2. TypeOK /\ StackInv /\ HoldersInv /\ TypeOK' /\ HistoryInv /\ [Next]_vars => HistoryInv'
    BY OrderStep, FilledStep, CountedStep DEF HistoryInv, StackInv
  <1>3. /\ TypeOK /\ StackInv /\ HoldersInv /\ HistoryInv
        /\ RecordsFormATree /\ DictionaryAnnounced /\ LedgersBalance
        => RecorderInv
    BY DEF RecorderInv, StackInv, LedgersBalance
  <1>. QED  BY <1>1, <1>2, <1>3, HoldersAlways, TreeCorrect, DictionaryCorrect, LedgersCorrect,
               PTL DEF Spec

\* Two batches of one trace have different calls.
LEMMA CallsTellApart ==
    ASSUME RecorderInv, NEW i \in Numbers, NEW j \in Numbers,
           flushed[i].trace = flushed[j].trace,
           calls_to_wire(flushed[i].calls) = calls_to_wire(flushed[j].calls)
    PROVE  i = j
  <1>. DEFINE r == flushed[i].trace
  <1>0. TypeOK /\ FilledInv /\ EveryFrameEmittedOnce
    BY DEF RecorderInv, HistoryInv, RecordsFormATree
  <1>1. Numbers = 1..Len(flushed) /\ Len(flushed) \in Nat /\ r \in Requests
    <2>1. flushed[i] \in Batches
      BY <1>0, NumbersAre
    <2>. QED  BY <1>0, <2>1, NumbersAre DEF Batches
  <1>2. ASSUME NEW b \in Numbers, flushed[b].trace = r
        PROVE  /\ 1 \in DOMAIN flushed[b].calls
               /\ <<b, 1>> \in CallPlaces(r) /\ CallAt(<<b, 1>>) = flushed[b].calls[1]
    <2>1. flushed[b].calls \in Seq(Records) /\ flushed[b].calls # <<>>
      <3>1. flushed[b] \in Batches
        BY <1>0, NumbersAre
      <3>. QED  BY <1>0, <3>1 DEF Batches, FilledInv
    <2>2. 1 \in 1..Len(flushed[b].calls) /\ DOMAIN flushed[b].calls = 1..Len(flushed[b].calls)
      BY <2>1, EmptySeq, LenProperties
    <2>3. CallPlace(r, b, 1)
      BY <1>1, <1>2, <2>2 DEF CallPlace
    <2>4. b # Len(flushed) + 1
      BY <1>1
    <2>. QED  BY <1>0, <2>2, <2>3, <2>4, PlacesAre, FoundAt
  <1>3. CallAt(<<i, 1>>).call_id = CallAt(<<j, 1>>).call_id
    <2>. DEFINE v == calls_to_wire(flushed[i].calls)
                w == calls_to_wire(flushed[j].calls)
    <2>1. v[1].call_id = flushed[i].calls[1].call_id /\ w[1].call_id = flushed[j].calls[1].call_id
      BY <1>2 DEF calls_to_wire, call_record_to_wire
    <2>2. v[1] = w[1]
      OBVIOUS
    <2>. HIDE DEF v, w
    <2>. QED  BY <1>2, <2>1, <2>2
  <1>4. <<i, 1>> = <<j, 1>>
    BY <1>0, <1>1, <1>2, <1>3 DEF EveryFrameEmittedOnce
  <1>. QED  BY <1>4

-----------------------------------------------------------------------------
(* Delivery is Recorder with more said about the shipper.                  *)

LEMMA StepIsNext ==
    ASSUME [DeliveryNext]_delivery_vars
    PROVE  [Next]_vars
  <1>1. Takes \/ CountsDrop \/ Releases \/ Panics \/ Php => Next
    BY DEF Takes, CountsDrop, Releases, Panics, Php, Next, Shipper
  <1>2. Encodes \/ EncodeFails \/ Connects \/ GivesUpAtDeadline \/ ConnectionRefused \/ TimesOut
          => UNCHANGED vars
    BY DEF Encodes, EncodeFails, Connects, GivesUpAtDeadline, ConnectionRefused, TimesOut
  <1>3. Serves \/ Answers2xx \/ AnswersError \/ AnswersNobody \/ Probe => UNCHANGED vars
    BY DEF Serves, Answers2xx, AnswersError, AnswersNobody, Probe
  <1>4. UNCHANGED delivery_vars => UNCHANGED vars
    BY DEF delivery_vars
  <1>. QED  BY <1>1, <1>2, <1>3, <1>4 DEF DeliveryNext, ShipperThread, Server

LEMMA DeliveryIsRecorder == DeliverySpec => Spec
  <1>1. DeliveryInit => Init
    BY DEF DeliveryInit
  <1>2. [DeliveryNext]_delivery_vars => [Next]_vars
    BY StepIsNext
  <1>. QED  BY <1>1, <1>2, PTL DEF DeliverySpec, Spec

-----------------------------------------------------------------------------
(* The inductive invariant.  It says of two sequences of which the state   *)
(* keeps no record that there are some: origin[k] is the attempt whose     *)
(* request brought accepted[k], and stamp[i], for each batch i that was    *)
(* encoded, the drop count it was encoded with.                            *)

Origins == [addr : {"php"}, no : Nat, attempt : 0..RetryCount]

Cur == in_flight[1].no
BodyOf(i, dropped) == batch_to_wire(flushed[i], KindOf, dropped)

\* The earlier batches of its trace that batch i leaves behind undelivered.
Missing(i) ==
    {n \in Numbers : n < i /\ flushed[n].trace = flushed[i].trace /\ fate[n] # "delivered"}

\* A stamp covers what is missing before it, and stamps do not go down.
StampInv(stamp) ==
    /\ \A i \in DOMAIN stamp :
            /\ i \in Numbers /\ fate[i] \in Passed
            /\ stamp[i] \in Nat /\ stamp[i] <= drop_counter[flushed[i].trace]
            /\ CallsIn(Missing(i)) <= stamp[i]
    /\ \A n, i \in DOMAIN stamp :
            n < i /\ flushed[n].trace = flushed[i].trace => stamp[n] <= stamp[i]

\* The server has only what was encoded, each attempt once.
ServerInv(origin, stamp) ==
    /\ origin \in Seq(Origins) /\ Len(accepted) = Len(origin)
    /\ accepted \in Seq({BodyOf(i, stamp[i]) : i \in DOMAIN stamp})
    /\ \A k \in 1..Len(origin) :
            /\ origin[k].no \in DOMAIN stamp
            /\ accepted[k] = BodyOf(origin[k].no, stamp[origin[k].no])
    /\ \A k, l \in 1..Len(origin) : origin[k] = origin[l] => k = l

PostHeaders == [authorization |-> AuthToken, content_type |-> MEDIA_TYPE]

\* So do the requests on their way; a truncated one brings nothing.
MailInv(origin, stamp) ==
    /\ \A rq \in inbox :
            /\ rq.from.no \in DOMAIN stamp
            /\ rq \in [method : {"POST"}, path : {"/v1/ingest"}, headers : {PostHeaders},
                       body : {Truncated, BodyOf(rq.from.no, stamp[rq.from.no])},
                       from : Origins]
            /\ \A k \in 1..Len(origin) : origin[k] # rq.from
    /\ \A p, q \in inbox : p.from = q.from => p = q

\* The attempt has sent its request.
Tried(origin, o) ==
    (\E k \in 1..Len(origin) : origin[k] = o) \/ (\E rq \in inbox : rq.from = o)

\* Where the shipper is with the batch in its hands.
PcInv ==
    /\ post_pc \in PostPcs /\ attempt \in Nat
    /\ in_flight = <<>> <=> post_pc = "idle"
    /\ outcome \in {"none", "sent", "dropped"}
    /\ outcome = "none" <=> post_pc # "outcome"
    /\ counted => outcome = "dropped"
    /\ post_pc \in {"encode", "post", "wait"} => attempt <= RetryCount

HandInv(origin, stamp) ==
    /\ post_pc = "encode" => Cur \notin DOMAIN stamp
    /\ post_pc \in {"post", "wait"} =>
            Cur \in DOMAIN stamp /\ encoded = <<BodyOf(Cur, stamp[Cur])>>
    /\ \A o \in Origins : Tried(origin, o) /\ o.no = Cur =>
            /\ post_pc = "post" => o.attempt < attempt
            /\ post_pc = "wait" => o.attempt <= attempt

\* Batch i is in the store, before any later batch.
Arrived(origin, i) ==
    \E k \in 1..Len(origin) :
        /\ origin[k].no = i
        /\ \A l \in 1..Len(origin) : origin[l].no > i => k < l

ArrivedInv(origin) ==
    /\ outcome = "sent" => \E k \in 1..Len(origin) : origin[k].no = Cur
    /\ \A i \in Numbers : fate[i] = "delivered" => Arrived(origin, i)

\* The answer 2xx goes to an attempt whose body was stored.
AnswerInv(origin) ==
    /\ Len(serving) <= 1
    /\ serving # <<>> => LET answer == Head(serving)
                         IN answer.to.addr = "php" /\ IsSuccess(answer.status) =>
                                \E k \in 1..Len(origin) : origin[k] = answer.to

KnownWith(origin, stamp) ==
    /\ StampInv(stamp) /\ ServerInv(origin, stamp) /\ MailInv(origin, stamp)
    /\ HandInv(origin, stamp) /\ ArrivedInv(origin) /\ AnswerInv(origin)

DeliveryInv == PcInv /\ \E origin, stamp : KnownWith(origin, stamp)

LEMMA DeliveryStart ==
    ASSUME DeliveryInit
    PROVE  DeliveryInv
  <1>1. /\ in_flight = <<>> /\ Numbers = {} /\ accepted = <<>> /\ serving = <<>>
        /\ post_pc = "idle" /\ attempt = 0 /\ outcome = "none" /\ inbox = {}
    BY DEF DeliveryInit, Init, StubInit, Numbers
  <1>2. ~counted
    BY Zenon DEF DeliveryInit, Init
  <1>3. PcInv
    BY <1>1, <1>2 DEF PcInv, PostPcs
  <1>. DEFINE stamp == [i \in {} |-> 0]
              origin == <<>>
  <1>4. /\ DOMAIN stamp = {} /\ Len(origin) = 0 /\ 1..Len(origin) = {}
        /\ origin \in Seq(Origins) /\ \A S : <<>> \in Seq(S)
    BY EmptySeq
  <1>. HIDE DEF stamp, origin
  <1>5. StampInv(stamp)
    BY <1>4 DEF StampInv
  <1>6. ServerInv(origin, stamp)
    BY <1>1, <1>4, EmptySeq DEF ServerInv
  <1>7. MailInv(origin, stamp)
    BY <1>1 DEF MailInv
  <1>8. HandInv(origin, stamp)
    BY <1>1 DEF HandInv
  <1>9. ArrivedInv(origin)
    BY <1>1 DEF ArrivedInv
  <1>10. AnswerInv(origin)
    BY <1>1, EmptySeq DEF AnswerInv
  <1>11. KnownWith(origin, stamp)
    BY <1>5, <1>6, <1>7, <1>8, <1>9, <1>10 DEF KnownWith
  <1>. QED  BY <1>3, <1>11 DEF DeliveryInv

-----------------------------------------------------------------------------
(* Steps that leave the server and its inbox alone.                        *)

LEMMA InHand ==
    ASSUME TypeOK, HoldersInv, in_flight # <<>>
    PROVE  /\ Batch = in_flight[1] /\ Cur \in Numbers /\ flushed[Cur] = Batch /\ Batch.no = Cur
           /\ fate[Cur] = (IF counted THEN "given_up" ELSE "in_flight")
           /\ channel = "open" /\ Batch \in Batches
  <1>1. Batch = in_flight[1]
    BY NumbersAre DEF Batch
  <1>2. InHistory(in_flight[1]) /\ fate[Cur] = (IF counted THEN "given_up" ELSE "in_flight")
        /\ channel = "open"
    BY DEF HoldersInv, InFlightInv, ChannelInv, Cur
  <1>. QED  BY <1>1, <1>2, NumbersAre DEF InHistory, Cur

\* Every earlier batch of the history has ended: what is missing before a batch
\* stays so.
LEMMA MissingStable ==
    ASSUME TypeOK, OrderInv, HistoryKept, TypeOK', NEW i \in Numbers, fate[i] \in Passed
    PROVE  /\ Missing(i)' = Missing(i) /\ CallsIn(Missing(i))' = CallsIn(Missing(i))
           /\ CallsIn(Missing(i)) \in Nat
  <1>1. /\ Numbers = 1..Len(flushed) /\ Len(flushed) \in Nat
        /\ Numbers' = 1..Len(flushed') /\ Len(flushed') \in Nat
    BY NumbersAre DEF Numbers, TypeOK, SharedTypeOK
  <1>2. \A n \in Numbers' : n < i => n \in Numbers
    BY <1>1
  <1>3. \A n \in Numbers : n < i => fate'[n] = fate[n]
    BY DEF OrderInv, HistoryKept
  <1>4. Missing(i)' = Missing(i)
    BY <1>2, <1>3 DEF Missing, HistoryKept
  <1>. DEFINE A == Missing(i)
  <1>5. A \in SUBSET Numbers /\ Missing(i)' = A
    BY <1>4 DEF Missing
  <1>6. CallsIn(Missing(i))' = TotalIn(CallCountsOf(flushed'), Missing(i)')
    BY LedgersAre
  <1>. HIDE DEF A
  <1>7. TotalIn(CallCountsOf(flushed'), A) = CallsIn(A) /\ CallsIn(A) \in Nat
    BY <1>5, CallsStable, LedgersAre DEF HistoryKept
  <1>. QED  BY <1>4, <1>5, <1>6, <1>7 DEF A

LEMMA StampKept ==
    ASSUME TypeOK, OrderInv, HistoryKept, TypeOK', NEW stamp, StampInv(stamp)
    PROVE  StampInv(stamp)'
  <1>1. ASSUME NEW i \in DOMAIN stamp
        PROVE  /\ i \in Numbers' /\ flushed'[i] = flushed[i] /\ fate'[i] \in Passed
               /\ stamp[i] \in Nat /\ stamp[i] <= drop_counter'[flushed'[i].trace]
               /\ CallsIn(Missing(i))' <= stamp[i]
    <2>1. /\ i \in Numbers /\ fate[i] \in Passed /\ stamp[i] \in Nat
          /\ stamp[i] <= drop_counter[flushed[i].trace] /\ CallsIn(Missing(i)) <= stamp[i]
      BY <1>1 DEF StampInv
    <2>2. i \in Numbers' /\ flushed'[i] = flushed[i] /\ fate'[i] \in Passed
      BY <2>1 DEF HistoryKept
    <2>3. flushed[i].trace \in Requests
      BY <2>1, NumbersAre DEF Batches
    <2>4. /\ drop_counter[flushed[i].trace] \in Nat /\ drop_counter'[flushed[i].trace] \in Nat
          /\ drop_counter[flushed[i].trace] <= drop_counter'[flushed[i].trace]
      BY <2>3 DEF TypeOK, SharedTypeOK, HistoryKept
    <2>5. stamp[i] <= drop_counter'[flushed'[i].trace]
      BY <2>1, <2>2, <2>4
    <2>. QED  BY <2>1, <2>2, <2>5, MissingStable
  <1>. QED  BY <1>1 DEF StampInv

\* The request thread does not touch what the shipper holds.
LEMMA PhpKeepsHand ==
    ASSUME RequestThread
    PROVE  UNCHANGED <<in_flight, counted>>
  BY DEF RequestThread, RInit, Begin, BeginDroppedByDepth, BeginDroppedByCap, BeginAccepted,
         EngineBegins, End, EndOfDroppedBegin, EndAccepted, EngineEnds, RShutdown,
         DiscardRefused, shared_vars

LEMMA PcStep ==
    ASSUME TypeOK, PcInv, [DeliveryNext]_delivery_vars
    PROVE  PcInv'
  <1>. USE DEF PcInv, PostPcs
  <1>0. RetryCount \in Nat
    BY DeliveryAssumption
  <1>1. CASE UNCHANGED <<in_flight, counted, post_pc, attempt, outcome>>
    BY <1>1
  <1>2. ASSUME AttemptFails, UNCHANGED <<in_flight, counted>>, post_pc \in {"post", "wait"}
        PROVE  PcInv'
    BY <1>0, <1>2 DEF AttemptFails
  <1>3. CASE Takes
    <2>1. in_flight' # <<>> /\ counted' = counted
      BY <1>3 DEF Takes, ShipperReceives
    <2>. QED  BY <1>0, <1>3, <2>1 DEF Takes
  <1>4. CASE Encodes
    BY <1>4 DEF Encodes, vars, shared_vars
  <1>5. CASE EncodeFails
    BY <1>5 DEF EncodeFails, vars, shared_vars
  <1>6. CASE Connects
    BY <1>6 DEF Connects, vars, shared_vars
  <1>7. CASE GivesUpAtDeadline
    BY <1>7 DEF GivesUpAtDeadline, vars, shared_vars
  <1>8. CASE ConnectionRefused
    BY <1>2, <1>8 DEF ConnectionRefused, vars, shared_vars
  <1>9. CASE TimesOut
    BY <1>2, <1>9 DEF TimesOut, vars, shared_vars
  <1>10. CASE CountsDrop
    BY <1>10 DEF CountsDrop, ShipperCountsDrop, post_vars
  <1>11. CASE Releases
    BY <1>11 DEF Releases, ShipperReleases
  <1>12. CASE Panics
    BY <1>12 DEF Panics, ShipperPanics
  <1>13. CASE Serves
    BY <1>13 DEF Serves, vars, shared_vars
  <1>14. CASE Answers2xx
    BY <1>14 DEF Answers2xx, vars, shared_vars
  <1>15. CASE AnswersError
    BY <1>2, <1>15 DEF AnswersError, vars, shared_vars
  <1>16. CASE AnswersNobody
    BY <1>16 DEF AnswersNobody, vars, shared_vars, post_vars
  <1>17. CASE Probe
    BY <1>17 DEF Probe, vars, shared_vars, post_vars
  <1>18. CASE Php
    BY <1>1, <1>18, PhpKeepsHand DEF Php, post_vars
  <1>19. CASE UNCHANGED delivery_vars
    BY <1>19 DEF delivery_vars, vars, shared_vars, post_vars
  <1>. QED  BY <1>3, <1>4, <1>5, <1>6, <1>7, <1>8, <1>9, <1>10, <1>11, <1>12, <1>13, <1>14, <1>15,
               <1>16, <1>17, <1>18, <1>19 DEF DeliveryNext, ShipperThread, Server

\* Only a release makes a batch delivered.
LEMMA OnlyReleaseDelivers ==
    ASSUME TypeOK, LifoCount, HoldersInv, [Next]_vars
    PROVE  \A i \in Numbers' : fate'[i] = "delivered" =>
                \/ i \in Numbers /\ fate[i] = "delivered"
                \/ ShipperReleases /\ ~counted /\ i = Cur
  <1>. DEFINE Known == \A i \in Numbers' : fate'[i] = "delivered" =>
                            i \in Numbers /\ fate[i] = "delivered"
  <1>1. CASE UNCHANGED <<channel, queue, refused, in_flight, counted, flushed, fate>>
    BY <1>1 DEF Numbers
  <1>2. ASSUME NEW batch \in Batches, NEW bytes \in Int, refused = <<>>,
               TrySendBatch(batch, bytes)
        PROVE  Known
    <2>1. /\ Len(flushed) \in Nat /\ Len(flushed') = Len(flushed) + 1
          /\ \A i \in 1..Len(flushed) : fate'[i] = fate[i]
          /\ fate'[Len(flushed) + 1] # "delivered"
      BY <1>2, SendShape
    <2>2. flushed' \in Seq(Batches)
      BY <1>2, SendShape
    <2>3. Numbers = 1..Len(flushed) /\ Numbers' = 1..(Len(flushed) + 1)
      BY <2>1, <2>2, NumbersAre, LenProperties DEF Numbers
    <2>4. \A i \in Numbers' : i \in Numbers \/ i = Len(flushed) + 1
      BY <2>1, <2>3
    <2>. QED  BY <2>1, <2>3, <2>4
  <1>3. ASSUME NEW k \in Numbers, UNCHANGED flushed, fate'[k] # "delivered",
               \A i \in Numbers : i # k => fate'[i] = fate[i]
        PROVE  Known
    BY <1>3 DEF Numbers
  <1>4. CASE DiscardRefused
    <2>. DEFINE k == refused[1].no
    <2>1. /\ refused # <<>> /\ fate' = [fate EXCEPT ![k] = "refused"] /\ UNCHANGED flushed
      BY <1>4, NumbersAre DEF DiscardRefused
    <2>2. k \in Numbers
      BY <2>1 DEF HoldersInv, RefusedInv, InHistory
    <2>. HIDE DEF k
    <2>3. fate'[k] = "refused" /\ \A i \in Numbers : i # k => fate'[i] = fate[i]
      BY <2>1, <2>2, FateBecomes
    <2>. QED  BY <1>3, <2>1, <2>2, <2>3
  <1>5. CASE ShipperReceives
    <2>. DEFINE k == queue[1].no
    <2>1. queue # <<>> /\ Head(queue) = queue[1] /\ 1 \in 1..Len(queue) /\ UNCHANGED flushed
      <3>1. queue # <<>> /\ UNCHANGED flushed
        BY <1>5 DEF ShipperReceives
      <3>. QED  BY <3>1, SharedFacts, EmptySeq, LenProperties, HeadTailProperties
    <2>2. fate' = [fate EXCEPT ![k] = "in_flight"]
      BY <1>5, <2>1 DEF ShipperReceives
    <2>3. k \in Numbers
      BY <2>1 DEF HoldersInv, QueueInv, InHistory
    <2>. HIDE DEF k
    <2>4. fate'[k] = "in_flight" /\ \A i \in Numbers : i # k => fate'[i] = fate[i]
      BY <2>2, <2>3, FateBecomes
    <2>. QED  BY <1>3, <2>1, <2>3, <2>4
  <1>6. CASE ShipperCountsDrop \/ ShipperReleases
    <2>. DEFINE k == in_flight[1].no
    <2>1. in_flight # <<>> /\ UNCHANGED flushed /\ Head(in_flight) = in_flight[1]
      BY <1>6, NumbersAre DEF ShipperCountsDrop, ShipperReleases
    <2>2. k \in Numbers /\ k = Cur
      BY <2>1 DEF HoldersInv, InFlightInv, InHistory, Cur
    <2>3. \/ fate' = [fate EXCEPT ![k] = "given_up"]
          \/ ShipperReleases /\ fate' = IF counted THEN fate ELSE [fate EXCEPT ![k] = "delivered"]
      BY <1>6, <2>1 DEF ShipperCountsDrop, ShipperReleases
    <2>. HIDE DEF k
    <2>4. CASE fate' = [fate EXCEPT ![k] = "given_up"]
      <3>1. fate'[k] = "given_up" /\ \A i \in Numbers : i # k => fate'[i] = fate[i]
        BY <2>2, <2>4, FateBecomes
      <3>. QED  BY <1>3, <2>1, <2>2, <3>1
    <2>5. CASE ShipperReleases /\ ~counted /\ fate' = [fate EXCEPT ![k] = "delivered"]
      <3>1. fate'[k] = "delivered" /\ \A i \in Numbers : i # k => fate'[i] = fate[i]
        BY <2>2, <2>5, FateBecomes
      <3>. QED  BY <2>1, <2>2, <2>5, <3>1 DEF Numbers
    <2>6. CASE UNCHANGED fate
      BY <2>1, <2>6 DEF Numbers
    <2>. QED  BY <2>3, <2>4, <2>5, <2>6
  <1>7. CASE ShipperPanics
    <2>1. UNCHANGED flushed
      BY <1>7 DEF ShipperPanics
    <2>2. \A i \in Numbers : fate'[i] = IF fate[i] \in {"queued", "in_flight"}
                                        THEN "lost_in_panic" ELSE fate[i]
      BY <1>7, NumbersAre DEF ShipperPanics
    <2>. QED  BY <2>1, <2>2 DEF Numbers
  <1>. QED  BY <1>1, <1>2, <1>4, <1>5, <1>6, <1>7, StepKinds

\* What was encoded stays what it is.
LEMMA BodyKept ==
    ASSUME HistoryKept, NEW stamp, StampInv(stamp), NEW i \in DOMAIN stamp
    PROVE  /\ i \in Numbers /\ i \in Numbers' /\ flushed'[i] = flushed[i]
           /\ BodyOf(i, stamp[i])' = BodyOf(i, stamp[i])
  <1>1. i \in Numbers /\ i \in Numbers' /\ flushed'[i] = flushed[i]
    BY DEF StampInv, HistoryKept
  <1>. QED  BY <1>1 DEF BodyOf

LEMMA ServerKept ==
    ASSUME HistoryKept, NEW origin, NEW stamp, StampInv(stamp),
           ServerInv(origin, stamp), UNCHANGED accepted
    PROVE  ServerInv(origin, stamp)'
  <1>1. \A i \in DOMAIN stamp : BodyOf(i, stamp[i])' = BodyOf(i, stamp[i])
    BY BodyKept
  <1>2. {BodyOf(i, stamp[i]) : i \in DOMAIN stamp}' = {BodyOf(i, stamp[i]) : i \in DOMAIN stamp}
    BY <1>1
  <1>. QED  BY <1>1, <1>2 DEF ServerInv

LEMMA MailKept ==
    ASSUME HistoryKept, NEW origin, NEW stamp, StampInv(stamp),
           MailInv(origin, stamp), UNCHANGED inbox
    PROVE  MailInv(origin, stamp)'
  <1>1. \A i \in DOMAIN stamp : BodyOf(i, stamp[i])' = BodyOf(i, stamp[i])
    BY BodyKept
  <1>. QED  BY <1>1 DEF MailInv

\* The shipper stays where it is.
LEMMA HandKept ==
    ASSUME HistoryKept, NEW origin, NEW stamp, StampInv(stamp), HandInv(origin, stamp),
           UNCHANGED <<in_flight, post_pc, attempt, encoded, inbox>>
    PROVE  HandInv(origin, stamp)'
  <1>1. \A i \in DOMAIN stamp : BodyOf(i, stamp[i])' = BodyOf(i, stamp[i])
    BY BodyKept
  <1>2. Cur' = Cur
    BY DEF Cur
  <1>. QED  BY <1>1, <1>2 DEF HandInv, Tried

\* An attempt has ended, for the next one or for good.
LEMMA HandRetries ==
    ASSUME HistoryKept, PcInv, NEW origin, NEW stamp, StampInv(stamp), HandInv(origin, stamp),
           post_pc \in {"post", "wait"}, AttemptFails, UNCHANGED <<in_flight, encoded>>,
           \A o : Tried(origin, o)' => Tried(origin, o)
    PROVE  HandInv(origin, stamp)'
  <1>1. \A i \in DOMAIN stamp : BodyOf(i, stamp[i])' = BodyOf(i, stamp[i])
    BY BodyKept
  <1>2. Cur' = Cur /\ Cur \in DOMAIN stamp
    BY DEF Cur, HandInv
  <1>3. /\ attempt \in Nat /\ attempt' = attempt + 1 /\ post_pc' \in {"outcome", "post"}
    BY DEF AttemptFails, PcInv
  <1>4. ASSUME NEW o \in Origins, Tried(origin, o)', o.no = Cur'
        PROVE  o.attempt < attempt'
    <2>1. Tried(origin, o) /\ o.no = Cur
      BY <1>2, <1>4
    <2>2. o.attempt \in Int
      <3>1. o.attempt \in 0..RetryCount
        BY DEF Origins
      <3>. QED  BY <3>1, DeliveryAssumption
    <2>3. o.attempt <= attempt
      BY <2>1, <2>2, <1>3 DEF HandInv
    <2>. QED  BY <1>3, <2>2, <2>3
  <1>5. encoded' = <<BodyOf(Cur, stamp[Cur])'>>
    <2>1. encoded = <<BodyOf(Cur, stamp[Cur])>>
      BY DEF HandInv
    <2>2. BodyOf(Cur, stamp[Cur])' = BodyOf(Cur, stamp[Cur])
      <3>1. \A i : BodyOf(i, stamp[i])' = batch_to_wire(flushed'[i], KindOf, stamp[i])
        BY DEF BodyOf
      <3>. QED  BY <1>1, <1>2, <3>1 DEF BodyOf
    <2>. QED  BY <2>1, <2>2
  <1>. QED  BY <1>2, <1>3, <1>4, <1>5 DEF HandInv

LEMMA HandElsewhere ==
    ASSUME NEW origin, NEW stamp, post_pc' \in {"idle", "outcome"}
    PROVE  HandInv(origin, stamp)'
  BY DEF HandInv

\* A step that brings the server nothing and sends nothing.
LEMMA QuietStep ==
    ASSUME RecorderInv, RecorderInv', [Next]_vars, ~ShipperReleases,
           NEW origin, NEW stamp, KnownWith(origin, stamp),
           UNCHANGED <<accepted, inbox>>, serving' \in {serving, <<>>},
           HandInv(origin, stamp)',
           outcome' = "sent" => \E k \in 1..Len(origin) : origin[k].no = Cur'
    PROVE  KnownWith(origin, stamp)'
  <1>1. /\ TypeOK /\ TypeOK' /\ LifoCount /\ HoldersInv /\ OrderInv
        /\ StampInv(stamp) /\ ServerInv(origin, stamp) /\ MailInv(origin, stamp)
    BY DEF RecorderInv, HistoryInv, KnownWith
  <1>2. HistoryKept
    BY <1>1, HistoryStep
  <1>3. StampInv(stamp)'
    BY <1>1, <1>2, StampKept
  <1>4. ServerInv(origin, stamp)'
    BY <1>1, <1>2, ServerKept
  <1>5. MailInv(origin, stamp)'
    BY <1>1, <1>2, MailKept
  <1>6. ArrivedInv(origin)'
    <2>1. \A i \in Numbers' : fate'[i] = "delivered" => i \in Numbers /\ fate[i] = "delivered"
      BY <1>1, OnlyReleaseDelivers
    <2>. QED  BY <2>1 DEF ArrivedInv, Arrived, KnownWith
  <1>7. AnswerInv(origin)'
    <2>1. CASE serving' = serving
      BY <2>1 DEF AnswerInv, KnownWith
    <2>2. CASE serving' = <<>>
      BY <2>2, EmptySeq DEF AnswerInv
    <2>. QED  BY <2>1, <2>2
  <1>. QED  BY <1>3, <1>4, <1>5, <1>6, <1>7 DEF KnownWith

LEMMA SentKept ==
    ASSUME NEW origin, NEW stamp, KnownWith(origin, stamp),
           outcome' \in {outcome, "none", "dropped"}, UNCHANGED in_flight
    PROVE  outcome' = "sent" => \E k \in 1..Len(origin) : origin[k].no = Cur'
  BY DEF KnownWith, ArrivedInv, Cur

\* The steps of the request thread, and of a shipper that gives up.
LEMMA StaysKnown ==
    ASSUME RecorderInv, RecorderInv', PcInv, PcInv', [Next]_vars,
           NEW origin, NEW stamp, KnownWith(origin, stamp),
           UNCHANGED <<accepted, inbox, in_flight>>, serving' \in {serving, <<>>},
           outcome' \in {outcome, "none", "dropped"},
           \/ UNCHANGED <<post_pc, attempt, encoded>>
           \/ post_pc' \in {"idle", "outcome"}
           \/ post_pc \in {"post", "wait"} /\ AttemptFails /\ UNCHANGED encoded
    PROVE  KnownWith(origin, stamp)'
  <1>1. HistoryKept /\ StampInv(stamp) /\ HandInv(origin, stamp) /\ HoldersInv
    BY HistoryStep DEF RecorderInv, HistoryInv, KnownWith
  <1>2. HandInv(origin, stamp)'
    <2>1. CASE UNCHANGED <<post_pc, attempt, encoded>>
      BY <1>1, <2>1, HandKept
    <2>2. CASE post_pc' \in {"idle", "outcome"}
      BY <2>2, HandElsewhere
    <2>3. CASE post_pc \in {"post", "wait"} /\ AttemptFails /\ UNCHANGED encoded
      <3>1. \A o : Tried(origin, o)' => Tried(origin, o)
        BY DEF Tried
      <3>. QED  BY <1>1, <2>3, <3>1, HandRetries
    <2>. QED  BY <2>1, <2>2, <2>3
  <1>3. ~ShipperReleases
    BY DEF ShipperReleases
  <1>. QED  BY <1>2, <1>3, SentKept, QuietStep

LEMMA QuietActions ==
    ASSUME RecorderInv, RecorderInv', PcInv, PcInv', [Next]_vars,
           NEW origin, NEW stamp, KnownWith(origin, stamp),
           \/ Php \/ EncodeFails \/ GivesUpAtDeadline \/ ConnectionRefused \/ CountsDrop
           \/ AnswersError \/ AnswersNobody \/ UNCHANGED delivery_vars
    PROVE  KnownWith(origin, stamp)'
  <1>1. ASSUME AttemptFails
        PROVE  outcome' \in {outcome, "none", "dropped"}
    BY <1>1 DEF AttemptFails
  <1>2. CASE Php
    BY <1>2, PhpKeepsHand, StaysKnown DEF Php, post_vars, stub_vars
  <1>3. CASE EncodeFails \/ GivesUpAtDeadline
    BY <1>3, StaysKnown DEF EncodeFails, GivesUpAtDeadline, ServerIdle, stub_vars, vars, shared_vars
  <1>4. CASE ConnectionRefused
    BY <1>1, <1>4, StaysKnown DEF ConnectionRefused, ServerIdle, stub_vars, vars, shared_vars
  <1>5. CASE CountsDrop
    BY <1>5, StaysKnown DEF CountsDrop, ShipperCountsDrop, ServerIdle, stub_vars, post_vars
  <1>6. CASE AnswersError
    BY <1>1, <1>6, StaysKnown DEF AnswersError, Respond, ReadOnly, vars, shared_vars
  <1>7. CASE AnswersNobody
    BY <1>7, StaysKnown DEF AnswersNobody, Respond, ReadOnly, post_vars, vars, shared_vars
  <1>8. CASE UNCHANGED delivery_vars
    BY <1>8, StaysKnown DEF delivery_vars, stub_vars, post_vars, vars, shared_vars
  <1>. QED  BY <1>2, <1>3, <1>4, <1>5, <1>6, <1>7, <1>8

\* The batch taken from the queue was never encoded.
LEMMA TakesKnown ==
    ASSUME RecorderInv, RecorderInv', PcInv, PcInv', [Next]_vars,
           NEW origin, NEW stamp, KnownWith(origin, stamp), Takes
    PROVE  KnownWith(origin, stamp)'
  <1>1. /\ ShipperReceives /\ post_pc' = "encode" /\ outcome' = outcome /\ outcome = "none"
        /\ UNCHANGED <<accepted, inbox, serving>>
    BY DEF Takes, PcInv, ServerIdle, stub_vars
  <1>2. queue # <<>> /\ in_flight = <<>> /\ in_flight' = <<Head(queue)>>
    BY <1>1 DEF ShipperReceives
  <1>3. Head(queue) = queue[1] /\ 1 \in 1..Len(queue)
    BY <1>2, SharedFacts, EmptySeq, LenProperties, HeadTailProperties DEF RecorderInv
  <1>4. fate[queue[1].no] = "queued"
    BY <1>3 DEF RecorderInv, HoldersInv, QueueInv
  <1>5. Cur' = queue[1].no
    BY <1>2, <1>3 DEF Cur
  <1>6. Cur' \notin DOMAIN stamp
    BY <1>4, <1>5 DEF KnownWith, StampInv, Passed
  <1>7. HandInv(origin, stamp)'
    BY <1>1, <1>6 DEF HandInv
  <1>8. ~ShipperReleases
    BY <1>2 DEF ShipperReleases
  <1>. QED  BY <1>1, <1>7, <1>8, QuietStep

LEMMA PanicsKnown ==
    ASSUME RecorderInv, RecorderInv', PcInv, PcInv', [Next]_vars,
           NEW origin, NEW stamp, KnownWith(origin, stamp), Panics
    PROVE  KnownWith(origin, stamp)'
  <1>1. /\ post_pc' = "idle" /\ outcome' = "none" /\ UNCHANGED <<accepted, inbox, serving>>
    BY DEF Panics, PcInv, ServerIdle, stub_vars
  <1>2. HandInv(origin, stamp)'
    BY <1>1, HandElsewhere
  <1>3. ~ShipperReleases
    <2>1. ShipperPanics
      BY DEF Panics
    <2>2. channel = "open" /\ channel' = "disconnected"
      BY <2>1 DEF ShipperPanics
    <2>. QED  BY <2>2 DEF ShipperReleases
  <1>. QED  BY <1>1, <1>2, <1>3, QuietStep

\* The answer tells of a body that is stored.
LEMMA Answers2xxKnown ==
    ASSUME RecorderInv, RecorderInv', PcInv, PcInv', [Next]_vars,
           NEW origin, NEW stamp, KnownWith(origin, stamp), Answers2xx
    PROVE  KnownWith(origin, stamp)'
  <1>1. /\ serving # <<>> /\ serving' = <<>> /\ IsMine(Head(serving).to)
        /\ IsSuccess(Head(serving).status) /\ post_pc = "wait" /\ post_pc' = "outcome"
        /\ UNCHANGED <<accepted, inbox, in_flight>>
    BY DEF Answers2xx, Respond, ReadOnly, vars, shared_vars
  <1>2. Head(serving).to.addr = "php" /\ Head(serving).to.no = Cur
    <2>1. Batch.no = Cur
      BY <1>1, InHand DEF PcInv, RecorderInv
    <2>. QED  BY <1>1, <2>1 DEF IsMine
  <1>3. \E k \in 1..Len(origin) : origin[k].no = Cur'
    <2>1. PICK k \in 1..Len(origin) : origin[k] = Head(serving).to
      BY <1>1, <1>2 DEF KnownWith, AnswerInv
    <2>2. Cur' = Cur
      BY <1>1 DEF Cur
    <2>. QED  BY <1>2, <2>1, <2>2
  <1>4. HandInv(origin, stamp)'
    BY <1>1, HandElsewhere
  <1>5. ~ShipperReleases
    <2>1. in_flight # <<>>
      BY <1>1 DEF PcInv
    <2>. QED  BY <1>1, <2>1 DEF ShipperReleases
  <1>. QED  BY <1>1, <1>3, <1>4, <1>5, QuietStep

\* A request cut short is still its attempt's only one.
LEMMA MailCut ==
    ASSUME HistoryKept, NEW origin, NEW stamp, StampInv(stamp), MailInv(origin, stamp),
           NEW rq \in inbox,
           inbox' = (inbox \ {rq}) \cup {[rq EXCEPT !.body = Truncated]}
    PROVE  /\ MailInv(origin, stamp)'
           /\ \A o : Tried(origin, o)' => Tried(origin, o)
  <1>. DEFINE cut == [rq EXCEPT !.body = Truncated]
              Mail(p) == [method : {"POST"}, path : {"/v1/ingest"}, headers : {PostHeaders},
                          body : {Truncated, BodyOf(p.from.no, stamp[p.from.no])},
                          from : Origins]
  <1>1. \A i \in DOMAIN stamp : BodyOf(i, stamp[i])' = BodyOf(i, stamp[i])
    BY BodyKept
  <1>2. rq \in Mail(rq)
    BY DEF MailInv
  <1>3. cut.from = rq.from /\ cut \in Mail(rq)
    BY <1>2
  <1>4. cut \in Mail(cut)
    BY <1>3
  <1>5. \A p \in inbox' : \/ p \in inbox /\ p # rq
                          \/ p = cut
    OBVIOUS
  <1>. HIDE DEF cut
  <1>6. ASSUME NEW p \in inbox'
        PROVE  /\ p.from.no \in DOMAIN stamp /\ p \in Mail(p)
               /\ \A k \in 1..Len(origin) : origin[k] # p.from
    BY <1>3, <1>4, <1>5 DEF MailInv
  <1>7. ASSUME NEW p \in inbox', NEW q \in inbox', p.from = q.from
        PROVE  p = q
    BY <1>3, <1>5, <1>7 DEF MailInv
  <1>8. MailInv(origin, stamp)'
    BY <1>1, <1>6, <1>7 DEF MailInv
  <1>9. \A o : Tried(origin, o)' => Tried(origin, o)
    BY <1>3, <1>5 DEF Tried
  <1>. QED  BY <1>8, <1>9

LEMMA VarsKept ==
    ASSUME RecorderInv, UNCHANGED vars
    PROVE  HistoryKept
  BY HistoryStep DEF RecorderInv

\* A step that leaves recorder and server alone.
LEMMA PostStep ==
    ASSUME RecorderInv, RecorderInv', UNCHANGED <<vars, stub_vars>>,
           NEW origin, NEW stamp, KnownWith(origin, stamp),
           MailInv(origin, stamp)', HandInv(origin, stamp)', outcome' \in {outcome, "none", "dropped"}
    PROVE  KnownWith(origin, stamp)'
  <1>1. UNCHANGED <<flushed, fate, drop_counter, in_flight, accepted, serving>>
    BY DEF vars, shared_vars, stub_vars
  <1>2. StampInv(stamp)' /\ ServerInv(origin, stamp)'
    BY <1>1, VarsKept, StampKept, ServerKept DEF KnownWith, RecorderInv, HistoryInv
  <1>3. ArrivedInv(origin)' /\ AnswerInv(origin)'
    BY <1>1 DEF KnownWith, ArrivedInv, Arrived, AnswerInv, Numbers, Cur
  <1>. QED  BY <1>2, <1>3 DEF KnownWith

LEMMA TimesOutKnown ==
    ASSUME RecorderInv, RecorderInv', PcInv, PcInv', [Next]_vars,
           NEW origin, NEW stamp, KnownWith(origin, stamp), TimesOut
    PROVE  KnownWith(origin, stamp)'
  <1>1. /\ post_pc = "wait" /\ AttemptFails /\ UNCHANGED <<vars, encoded, stub_vars>>
        /\ UNCHANGED in_flight
    BY DEF TimesOut, ServerIdle, vars, shared_vars
  <1>2. outcome' \in {outcome, "none", "dropped"}
    BY <1>1 DEF AttemptFails
  <1>3. HistoryKept /\ StampInv(stamp) /\ MailInv(origin, stamp) /\ HandInv(origin, stamp)
    BY <1>1, VarsKept DEF KnownWith
  <1>4. MailInv(origin, stamp)' /\ \A o : Tried(origin, o)' => Tried(origin, o)
    <2>1. CASE UNCHANGED inbox
      BY <1>3, <2>1, MailKept DEF Tried
    <2>2. ASSUME NEW rq \in inbox, inbox' = (inbox \ {rq}) \cup {[rq EXCEPT !.body = Truncated]}
          PROVE  MailInv(origin, stamp)' /\ \A o : Tried(origin, o)' => Tried(origin, o)
      BY <1>3, <2>2, MailCut
    <2>. QED  BY <2>1, <2>2 DEF TimesOut
  <1>5. HandInv(origin, stamp)'
    BY <1>1, <1>3, <1>4, HandRetries
  <1>. QED  BY <1>1, <1>2, <1>4, <1>5, PostStep

\* A new attempt sends its request.
LEMMA ConnectsKnown ==
    ASSUME RecorderInv, RecorderInv', PcInv, PcInv', [Next]_vars,
           NEW origin, NEW stamp, KnownWith(origin, stamp), Connects
    PROVE  KnownWith(origin, stamp)'
  <1>1. /\ post_pc = "post" /\ post_pc' = "wait" /\ inbox' = inbox \cup {Request}
        /\ UNCHANGED <<vars, stub_vars, attempt, encoded, outcome, in_flight>>
    BY DEF Connects, ServerIdle, vars, shared_vars
  <1>2. /\ Batch.no = Cur /\ Cur \in DOMAIN stamp /\ encoded = <<BodyOf(Cur, stamp[Cur])>>
        /\ attempt \in 0..RetryCount
    <2>1. Batch.no = Cur
      BY <1>1, InHand DEF PcInv, RecorderInv
    <2>2. Cur \in DOMAIN stamp /\ encoded = <<BodyOf(Cur, stamp[Cur])>>
      BY <1>1 DEF KnownWith, HandInv
    <2>3. attempt \in 0..RetryCount
      BY <1>1, DeliveryAssumption DEF PcInv
    <2>. QED  BY <2>1, <2>2, <2>3
  <1>. DEFINE mine == [addr |-> "php", no |-> Cur, attempt |-> attempt]
  <1>3. mine \in Origins
    <2>1. Cur \in Nat
      BY <1>2, NumbersAre DEF KnownWith, StampInv, RecorderInv
    <2>. QED  BY <1>2, <2>1 DEF Origins
  <1>4. /\ Request.from = mine
        /\ Request \in [method : {"POST"}, path : {"/v1/ingest"}, headers : {PostHeaders},
                        body : {Truncated, BodyOf(Cur, stamp[Cur])}, from : Origins]
    <2>1. Head(encoded) = BodyOf(Cur, stamp[Cur])
      BY <1>2
    <2>. QED  BY <1>2, <1>3, <2>1 DEF Request, PostHeaders
  <1>5. ~Tried(origin, mine)
    BY <1>1, <1>2, <1>3 DEF KnownWith, HandInv
  <1>6. HistoryKept /\ StampInv(stamp) /\ MailInv(origin, stamp) /\ HandInv(origin, stamp)
    BY <1>1, VarsKept DEF KnownWith
  <1>7. \A i \in DOMAIN stamp : BodyOf(i, stamp[i])' = BodyOf(i, stamp[i])
    BY <1>6, BodyKept
  <1>. DEFINE sent == Request
  <1>8. sent.from = mine /\ mine.no = Cur /\ mine.attempt = attempt /\ inbox' = inbox \cup {sent}
    BY <1>1, <1>4
  <1>9. sent \in [method : {"POST"}, path : {"/v1/ingest"}, headers : {PostHeaders},
                  body : {Truncated, BodyOf(sent.from.no, stamp[sent.from.no])}, from : Origins]
    BY <1>4, <1>8
  <1>. HIDE DEF mine, sent
  <1>10. MailInv(origin, stamp)'
    <2>1. ASSUME NEW p \in inbox'
          PROVE  /\ p.from.no \in DOMAIN stamp
                 /\ p \in [method : {"POST"}, path : {"/v1/ingest"}, headers : {PostHeaders},
                           body : {Truncated, BodyOf(p.from.no, stamp[p.from.no])}, from : Origins]
                 /\ \A k \in 1..Len(origin) : origin[k] # p.from
      <3>1. CASE p \in inbox
        BY <1>6, <3>1 DEF MailInv
      <3>2. CASE p = sent
        BY <1>2, <1>5, <1>8, <1>9, <3>2 DEF Tried
      <3>. QED  BY <1>8, <3>1, <3>2
    <2>2. ASSUME NEW p \in inbox', NEW q \in inbox', p.from = q.from
          PROVE  p = q
      BY <1>5, <1>6, <1>8, <2>2 DEF MailInv, Tried
    <2>. QED  BY <1>7, <2>1, <2>2 DEF MailInv
  <1>11. HandInv(origin, stamp)'
    <2>1. \A o \in Origins : Tried(origin, o)' => Tried(origin, o) \/ o = mine
      BY <1>8 DEF Tried
    <2>2. Cur' = Cur
      BY <1>1 DEF Cur
    <2>3. \A o \in Origins : o.attempt \in Int
      <3>1. \A o \in Origins : o.attempt \in 0..RetryCount
        BY DEF Origins
      <3>. QED  BY <3>1, DeliveryAssumption
    <2>4. ASSUME NEW o \in Origins, Tried(origin, o)', o.no = Cur'
          PROVE  o.attempt <= attempt
      <3>1. CASE o = mine
        BY <1>2, <1>8, <2>3, <3>1, DeliveryAssumption
      <3>2. CASE Tried(origin, o)
        <4>1. o.attempt < attempt
          BY <1>1, <1>6, <2>2, <2>4, <3>2 DEF HandInv
        <4>. QED  BY <1>2, <2>3, <4>1
      <3>. QED  BY <2>1, <2>4, <3>1, <3>2
    <2>5. encoded' = <<BodyOf(Cur, stamp[Cur])'>>
      <3>1. BodyOf(Cur, stamp[Cur])' = BodyOf(Cur, stamp[Cur])
        <4>1. \A i : BodyOf(i, stamp[i])' = batch_to_wire(flushed'[i], KindOf, stamp[i])
          BY DEF BodyOf
        <4>. QED  BY <1>2, <1>7, <2>2, <4>1 DEF BodyOf
      <3>. QED  BY <1>1, <1>2, <3>1
    <2>. QED  BY <1>1, <1>2, <2>2, <2>4, <2>5 DEF HandInv
  <1>. QED  BY <1>1, <1>10, <1>11, PostStep

-----------------------------------------------------------------------------
(* The server's steps.                                                     *)

\* What the server does with a request.
LEMMA DispatchAnswers ==
    ASSUME NEW rq, Dispatch(rq)
    PROVE  /\ serving' = <<[to |-> rq.from, status |-> serving'[1].status]>>
           /\ IngestStored(rq) \/ UNCHANGED accepted
           /\ ~BodyDecodes(rq) => UNCHANGED accepted
           /\ rq.method = "POST" /\ rq.path = "/v1/ingest" /\ ~IngestStored(rq)
                => ~IsSuccess(serving'[1].status)
  <1>1. ASSUME NEW status, Answers(rq, status)
        PROVE  /\ serving' = <<[to |-> rq.from, status |-> serving'[1].status]>>
               /\ serving'[1].status = status
    BY <1>1 DEF Answers
  <1>2. CASE IngestRejected(rq)
    <2>1. /\ UNCHANGED accepted
          /\ \E status \in {401, 415, 400} : Answers(rq, status)
      <3>1. \A a, b : (IF a THEN 401 ELSE IF b THEN 415 ELSE 400) \in {401, 415, 400}
        OBVIOUS
      <3>. QED  BY <1>2 DEF IngestRejected
    <2>. QED  BY <1>1, <2>1 DEF IsSuccess
  <1>3. CASE IngestCaptureFails(rq)
    BY <1>1, <1>3 DEF IngestCaptureFails, IsSuccess
  <1>4. CASE IngestStored(rq)
    <2>1. BodyDecodes(rq)
      BY <1>4 DEF IngestStored, Valid
    <2>. QED  BY <1>1, <1>4, <2>1 DEF IngestStored
  <1>5. CASE DebugRead(rq)
    <2>1. /\ UNCHANGED accepted
          /\ \E status : Answers(rq, status)
          /\ ~(rq.method = "POST")
      BY <1>5 DEF DebugRead, ReadOnly, Routed
    <2>. QED  BY <1>1, <2>1
  <1>6. CASE DebugReset(rq)
    <2>1. UNCHANGED accepted /\ Answers(rq, 200) /\ rq.path # "/v1/ingest"
      BY <1>6 DEF DebugReset, Routed
    <2>. QED  BY <1>1, <2>1
  <1>7. CASE NotRouted(rq)
    <2>1. /\ UNCHANGED accepted
          /\ \E status : Answers(rq, status)
          /\ ~(rq.method = "POST" /\ rq.path = "/v1/ingest")
      BY <1>7 DEF NotRouted, ReadOnly, Routes
    <2>. QED  BY <1>1, <2>1
  <1>. QED  BY <1>2, <1>3, <1>4, <1>5, <1>6, <1>7 DEF Dispatch

\* The harness asks, and brings nothing.
LEMMA ProbeKnown ==
    ASSUME RecorderInv, RecorderInv', PcInv, PcInv', [Next]_vars,
           NEW origin, NEW stamp, KnownWith(origin, stamp), Probe
    PROVE  KnownWith(origin, stamp)'
  <1>1. PICK rq \in Probes : Dispatch(rq)
    BY DEF Probe
  <1>2. rq.from.addr # "php" /\ ~BodyDecodes(rq)
    BY DeliveryAssumption
  <1>3. /\ UNCHANGED <<accepted, vars, inbox, outcome, post_pc, attempt, encoded, in_flight>>
        /\ \E status : serving' = <<[to |-> rq.from, status |-> status]>>
    BY <1>1, <1>2, DispatchAnswers DEF Probe, post_vars, vars, shared_vars
  <1>4. AnswerInv(origin)'
    BY <1>2, <1>3 DEF AnswerInv
  <1>5. HistoryKept /\ UNCHANGED <<fate, flushed>>
    BY <1>3, VarsKept DEF vars, shared_vars
  <1>6. StampInv(stamp)' /\ ServerInv(origin, stamp)' /\ MailInv(origin, stamp)'
    BY <1>3, <1>5, StampKept, ServerKept, MailKept DEF KnownWith, RecorderInv, HistoryInv
  <1>7. HandInv(origin, stamp)'
    BY <1>3, <1>5, HandKept DEF KnownWith
  <1>8. ArrivedInv(origin)'
    BY <1>3, <1>5 DEF KnownWith, ArrivedInv, Arrived, Numbers, Cur
  <1>. QED  BY <1>4, <1>6, <1>7, <1>8 DEF KnownWith

\* A request leaves the inbox.
LEMMA MailLeaves ==
    ASSUME HistoryKept, NEW origin, NEW stamp, StampInv(stamp), MailInv(origin, stamp),
           inbox' \subseteq inbox
    PROVE  MailInv(origin, stamp)' /\ \A o : Tried(origin, o)' => Tried(origin, o)
  <1>1. \A i \in DOMAIN stamp : BodyOf(i, stamp[i])' = BodyOf(i, stamp[i])
    BY BodyKept
  <1>. QED  BY <1>1 DEF MailInv, Tried

\* Fewer attempts have sent something.
LEMMA HandTried ==
    ASSUME HistoryKept, NEW origin, NEW later, NEW stamp, StampInv(stamp),
           HandInv(origin, stamp), UNCHANGED <<in_flight, post_pc, attempt, encoded>>,
           \A o : Tried(later, o)' => Tried(origin, o)
    PROVE  HandInv(later, stamp)'
  <1>1. \A i \in DOMAIN stamp : BodyOf(i, stamp[i])' = BodyOf(i, stamp[i])
    BY BodyKept
  <1>2. Cur' = Cur
    BY DEF Cur
  <1>3. post_pc \in {"post", "wait"} => encoded' = <<BodyOf(Cur, stamp[Cur])'>>
    <2>. SUFFICES ASSUME post_pc \in {"post", "wait"}
                  PROVE  encoded' = <<BodyOf(Cur, stamp[Cur])'>>
      OBVIOUS
    <2>1. Cur \in DOMAIN stamp /\ encoded = <<BodyOf(Cur, stamp[Cur])>>
      BY DEF HandInv
    <2>2. \A i : BodyOf(i, stamp[i])' = batch_to_wire(flushed'[i], KindOf, stamp[i])
      BY DEF BodyOf
    <2>3. BodyOf(Cur, stamp[Cur])' = BodyOf(Cur, stamp[Cur])
      BY <1>1, <1>2, <2>1, <2>2 DEF BodyOf
    <2>. QED  BY <2>1, <2>3
  <1>. QED  BY <1>2, <1>3 DEF HandInv

\* The server reads a request and brings nothing.
LEMMA ServesNothing ==
    ASSUME RecorderInv, RecorderInv', NEW origin, NEW stamp, KnownWith(origin, stamp),
           NEW rq \in inbox, Serves, Dispatch(rq), inbox' = inbox \ {rq}, ~IngestStored(rq)
    PROVE  KnownWith(origin, stamp)'
  <1>1. rq.method = "POST" /\ rq.path = "/v1/ingest"
    BY DEF KnownWith, MailInv
  <1>2. /\ UNCHANGED <<accepted, vars, outcome, post_pc, attempt, encoded, in_flight>>
        /\ serving' = <<[to |-> rq.from, status |-> serving'[1].status]>>
        /\ ~IsSuccess(serving'[1].status)
    BY <1>1, DispatchAnswers DEF Serves, vars, shared_vars
  <1>3. HistoryKept /\ UNCHANGED <<fate, flushed>>
    BY <1>2, VarsKept DEF vars, shared_vars
  <1>4. StampInv(stamp)' /\ ServerInv(origin, stamp)'
    BY <1>2, <1>3, StampKept, ServerKept DEF KnownWith, RecorderInv, HistoryInv
  <1>5. MailInv(origin, stamp)' /\ \A o : Tried(origin, o)' => Tried(origin, o)
    BY <1>3, MailLeaves DEF KnownWith
  <1>6. HandInv(origin, stamp)'
    BY <1>2, <1>3, <1>5, HandTried DEF KnownWith
  <1>7. ArrivedInv(origin)'
    BY <1>2, <1>3 DEF KnownWith, ArrivedInv, Arrived, Numbers, Cur
  <1>8. AnswerInv(origin)'
    <2>1. Len(serving') = 1 /\ Head(serving') = serving'[1]
      BY <1>2
    <2>. QED  BY <1>2, <2>1 DEF AnswerInv
  <1>. QED  BY <1>4, <1>5, <1>6, <1>7, <1>8 DEF KnownWith

\* The server stores a body: its attempt is the last of the origins.
LEMMA ServesBody ==
    ASSUME RecorderInv, RecorderInv', NEW origin, NEW stamp, KnownWith(origin, stamp),
           NEW rq \in inbox, Serves, Dispatch(rq), inbox' = inbox \ {rq}, IngestStored(rq)
    PROVE  KnownWith(Append(origin, rq.from), stamp)'
  <1>. DEFINE later == Append(origin, rq.from)
              n == Len(origin)
  <1>1. /\ rq.from \in Origins /\ rq.from.no \in DOMAIN stamp
        /\ rq.body \in {Truncated, BodyOf(rq.from.no, stamp[rq.from.no])}
        /\ \A k \in 1..Len(origin) : origin[k] # rq.from
    BY DEF KnownWith, MailInv
  <1>2. /\ accepted' = Append(accepted, rq.body) /\ rq.body # Truncated
        /\ UNCHANGED <<vars, outcome, post_pc, attempt, encoded, in_flight>>
        /\ serving' = <<[to |-> rq.from, status |-> serving'[1].status]>>
    BY DispatchAnswers DEF Serves, IngestStored, Valid, BodyDecodes, vars, shared_vars
  <1>3. rq.body = BodyOf(rq.from.no, stamp[rq.from.no])
    BY <1>1, <1>2
  <1>4. HistoryKept /\ UNCHANGED <<fate, flushed>>
    BY <1>2, VarsKept DEF vars, shared_vars
  <1>5. StampInv(stamp) /\ StampInv(stamp)'
    BY <1>4, StampKept DEF KnownWith, RecorderInv, HistoryInv
  <1>6. /\ origin \in Seq(Origins) /\ n \in Nat /\ Len(accepted) = n
        /\ later \in Seq(Origins) /\ Len(later) = n + 1 /\ later[n + 1] = rq.from
        /\ \A k \in 1..n : later[k] = origin[k]
    <2>1. origin \in Seq(Origins) /\ Len(accepted) = n
      BY DEF KnownWith, ServerInv
    <2>. QED  BY <1>1, <2>1, AppendProperties, LenProperties
  <1>. DEFINE Bodies == {BodyOf(i, stamp[i]) : i \in DOMAIN stamp}
  <1>7. /\ accepted \in Seq(Bodies) /\ rq.body \in Bodies
        /\ accepted' \in Seq(Bodies) /\ Len(accepted') = n + 1 /\ accepted'[n + 1] = rq.body
        /\ \A k \in 1..n : accepted'[k] = accepted[k]
    <2>1. accepted \in Seq(Bodies)
      BY DEF KnownWith, ServerInv
    <2>2. rq.body \in Bodies
      BY <1>1, <1>3
    <2>. HIDE DEF Bodies
    <2>. QED  BY <1>2, <1>6, <2>1, <2>2, AppendProperties
  <1>8. \A i \in DOMAIN stamp : BodyOf(i, stamp[i])' = BodyOf(i, stamp[i])
    BY <1>4, <1>5, BodyKept
  <1>9. accepted' \in Seq({BodyOf(i, stamp[i])' : i \in DOMAIN stamp})
    <2>1. {BodyOf(i, stamp[i])' : i \in DOMAIN stamp} = Bodies
      BY <1>8
    <2>. QED  BY <1>7, <2>1
  <1>. HIDE DEF Bodies, later, n
  <1>10. \A k \in 1..(n + 1) : k \in 1..n \/ k = n + 1
    BY <1>6
  <1>11. ServerInv(later, stamp)'
    <2>1. ASSUME NEW k \in 1..Len(later)
          PROVE  later[k].no \in DOMAIN stamp /\ accepted'[k] = BodyOf(later[k].no, stamp[later[k].no])
      <3>1. CASE k \in 1..n
        BY <1>6, <1>7, <3>1 DEF KnownWith, ServerInv, n
      <3>2. CASE k = n + 1
        BY <1>1, <1>3, <1>6, <1>7, <3>2
      <3>. QED  BY <1>6, <1>10, <3>1, <3>2
    <2>2. \A k \in 1..Len(later) : \A i \in DOMAIN stamp :
                i = later[k].no => BodyOf(i, stamp[i])' = accepted'[k]
      BY <1>8, <2>1
    <2>3. \A k, l \in 1..Len(later) : later[k] = later[l] => k = l
      BY <1>1, <1>6, <1>10 DEF KnownWith, ServerInv, n
    <2>. QED  BY <1>6, <1>7, <1>9, <2>1, <2>2, <2>3 DEF ServerInv, BodyOf
  <1>12. MailInv(later, stamp)'
    <2>1. MailInv(origin, stamp)' /\ inbox' \subseteq inbox
      BY <1>4, MailLeaves DEF KnownWith
    <2>2. \A p \in inbox' : p.from # rq.from
      BY DEF KnownWith, MailInv
    <2>. QED  BY <1>6, <1>10, <2>1, <2>2 DEF MailInv, n
  <1>13. HandInv(later, stamp)'
    <2>1. \A o : Tried(later, o)' => Tried(origin, o)
      BY <1>6, <1>10 DEF Tried, n
    <2>. QED  BY <1>2, <1>4, <1>5, <2>1, HandTried DEF KnownWith
  <1>14. ArrivedInv(later)'
    <2>1. ASSUME NEW k \in 1..n
          PROVE  k \in 1..Len(later) /\ later[k] = origin[k] /\ k < n + 1
      BY <1>6
    <2>2. ASSUME NEW i, Arrived(origin, i)
          PROVE  Arrived(later, i)
      <3>1. PICK k \in 1..n : /\ origin[k].no = i
                              /\ \A l \in 1..n : origin[l].no > i => k < l
        BY <2>2 DEF Arrived, n
      <3>. QED  BY <1>6, <1>10, <2>1, <3>1 DEF Arrived
    <2>3. Cur' = Cur /\ Numbers' = Numbers
      BY <1>2, <1>4 DEF Cur, Numbers
    <2>. QED  BY <1>2, <1>4, <2>1, <2>2, <2>3 DEF KnownWith, ArrivedInv, Arrived, n
  <1>15. AnswerInv(later)'
    <2>1. Len(serving') = 1 /\ Head(serving') = serving'[1] /\ serving'[1].to = rq.from
      BY <1>2
    <2>2. n + 1 \in 1..Len(later)
      BY <1>6
    <2>. QED  BY <1>6, <2>1, <2>2 DEF AnswerInv
  <1>. QED  BY <1>5, <1>11, <1>12, <1>13, <1>14, <1>15 DEF KnownWith, later

LEMMA ServesKnown ==
    ASSUME RecorderInv, RecorderInv', NEW origin, NEW stamp, KnownWith(origin, stamp), Serves
    PROVE  \E o : KnownWith(o, stamp)'
  <1>1. PICK rq \in inbox : Dispatch(rq) /\ inbox' = inbox \ {rq}
    BY DEF Serves
  <1>. QED  BY <1>1, ServesNothing, ServesBody

-----------------------------------------------------------------------------
(* Encoding and releasing the batch in hand.                               *)

\* Of a batch in the shipper's hands no later one was ever encoded.
LEMMA HandIsLast ==
    ASSUME RecorderInv, PcInv, post_pc # "idle", ~counted,
           NEW stamp, StampInv(stamp)
    PROVE  /\ Cur \in Numbers /\ Cur \in Nat /\ fate[Cur] = "in_flight" /\ Batch = flushed[Cur]
           /\ \A i \in DOMAIN stamp : i \in Nat /\ ~(Cur < i)
  <1>1. /\ Cur \in Numbers /\ fate[Cur] = "in_flight" /\ Batch = flushed[Cur]
    BY InHand DEF PcInv, RecorderInv
  <1>2. Numbers \subseteq Nat
    BY NumbersAre DEF RecorderInv
  <1>3. ASSUME NEW i \in DOMAIN stamp, Cur < i
        PROVE  FALSE
    BY <1>1, <1>3 DEF StampInv, RecorderInv, HistoryInv, OrderInv, Ended
  <1>. QED  BY <1>1, <1>2, <1>3 DEF StampInv

\* What is missing before the batch to be encoded was counted as dropped.
LEMMA MissingWasDropped ==
    ASSUME RecorderInv, NEW i \in Numbers, fate[i] \in Passed, channel = "open"
    PROVE  CallsIn(Missing(i)) <= drop_counter[flushed[i].trace]
  <1>. DEFINE r == flushed[i].trace
              w == CallCountsOf(flushed)
  <1>1. TypeOK /\ OrderInv /\ CountedInv
    BY DEF RecorderInv, HistoryInv
  <1>2. r \in Requests
    BY <1>1, NumbersAre DEF Batches
  <1>3. Missing(i) \subseteq Dropped(r)
    <2>. SUFFICES ASSUME NEW n \in Missing(i) PROVE n \in Dropped(r)
      OBVIOUS
    <2>1. n \in Numbers /\ n < i /\ flushed[n].trace = r /\ fate[n] # "delivered"
      BY DEF Missing
    <2>2. fate[n] \in Ended /\ fate[n] \notin {"unsent", "lost_in_panic"}
      BY <1>1, <2>1 DEF OrderInv
    <2>. QED  BY <2>1, <2>2 DEF Ended, Dropped, Numbers
  <1>4. /\ w \in Seq(Nat) /\ CallsIn(Missing(i)) = TotalIn(w, Missing(i))
        /\ CallsIn(Dropped(r)) = TotalIn(w, Dropped(r))
    BY <1>1, BudgetTyped, WeightsAre, LedgersAre
  <1>. DEFINE A == Missing(i)
              B == Dropped(r)
  <1>5. CallsIn(B) <= drop_counter[r] /\ drop_counter[r] \in Nat
    BY <1>1, <1>2 DEF CountedInv, TypeOK, SharedTypeOK
  <1>6. A \subseteq B /\ CallsIn(A) = TotalIn(w, A) /\ CallsIn(B) = TotalIn(w, B)
    BY <1>3, <1>4
  <1>. HIDE DEF A, B, w
  <1>7. TotalIn(w, A) <= TotalIn(w, B) /\ TotalIn(w, A) \in Nat /\ TotalIn(w, B) \in Nat
    BY <1>4, <1>6, TotalInMonotone, TotalInIsNat
  <1>8. CallsIn(A) <= drop_counter[r]
    BY <1>5, <1>6, <1>7
  <1>. QED  BY <1>8 DEF A

\* The batch in hand is stamped.
LEMMA EncodesKnown ==
    ASSUME RecorderInv, RecorderInv', PcInv, PcInv', [Next]_vars,
           NEW origin, NEW stamp, KnownWith(origin, stamp), Encodes
    PROVE  \E s : KnownWith(origin, s)'
  <1>a. PICK d : d = drop_counter[Batch.trace]
    OBVIOUS
  <1>b. PICK more : more = [i \in DOMAIN stamp \cup {Cur} |-> IF i = Cur THEN d ELSE stamp[i]]
    OBVIOUS
  <1>1. /\ post_pc = "encode" /\ post_pc' = "post" /\ encoded' = <<BodyOf(Cur, d)>>
        /\ UNCHANGED <<vars, stub_vars, attempt, outcome, inbox>>
    <2>1. post_pc = "encode"
      BY DEF Encodes
    <2>2. Batch = flushed[Cur]
      BY <2>1, InHand DEF PcInv, RecorderInv
    <2>. QED  BY <1>a, <2>2 DEF Encodes, ServerIdle, BodyOf
  <1>2. UNCHANGED <<flushed, fate, drop_counter, in_flight, accepted, serving>>
    BY <1>1 DEF vars, shared_vars, stub_vars
  <1>3. Cur' = Cur /\ Numbers' = Numbers /\ \A i, s : BodyOf(i, s)' = BodyOf(i, s)
    BY <1>2 DEF Cur, Numbers, BodyOf
  <1>4. ~counted /\ outcome = "none"
    BY <1>1 DEF PcInv
  <1>5. /\ Cur \in Numbers /\ Cur \in Nat /\ fate[Cur] = "in_flight" /\ Batch = flushed[Cur]
        /\ \A i \in DOMAIN stamp : i \in Nat /\ ~(Cur < i)
    BY <1>1, <1>4, HandIsLast DEF KnownWith, PcInv
  <1>6. Cur \notin DOMAIN stamp
    BY <1>1 DEF KnownWith, HandInv
  <1>7. /\ DOMAIN more = DOMAIN stamp \cup {Cur} /\ more[Cur] = d
        /\ \A i \in DOMAIN stamp : i \in DOMAIN more /\ more[i] = stamp[i]
    BY <1>b, <1>6
  <1>8. StampInv(stamp) /\ StampInv(stamp)'
    BY <1>1, VarsKept, StampKept DEF KnownWith, RecorderInv, HistoryInv
  <1>9. d \in Nat /\ d = drop_counter[flushed[Cur].trace]
    <2>1. Batch.trace \in Requests
      BY <1>5, NumbersAre DEF RecorderInv, Batches
    <2>. QED  BY <1>a, <1>5, <2>1 DEF RecorderInv, TypeOK, SharedTypeOK
  <1>10. CallsIn(Missing(Cur)) <= d
    <2>1. channel = "open"
      BY <1>1, InHand DEF PcInv, RecorderInv
    <2>. QED  BY <1>5, <1>9, <2>1, MissingWasDropped DEF Passed
  <1>11. CallsIn(Missing(Cur))' <= d
    <2>1. CallsIn(Missing(Cur))' = CallsIn(Missing(Cur))
      <3>1. HistoryKept /\ TypeOK /\ TypeOK' /\ OrderInv
        BY <1>1, VarsKept DEF RecorderInv, HistoryInv
      <3>2. \A i \in Numbers : fate[i] \in Passed => CallsIn(Missing(i))' = CallsIn(Missing(i))
        BY <3>1, MissingStable
      <3>3. CallsIn(Missing(Cur)') = CallsIn(Missing(Cur))
        BY <1>2 DEF Missing, Cur, Numbers
      <3>. QED  BY <1>2, <3>3 DEF CallsIn
    <2>. QED  BY <1>10, <2>1
  <1>12. StampInv(more)'
    <2>1. ASSUME NEW i \in DOMAIN more
          PROVE  /\ i \in Numbers' /\ fate'[i] \in Passed
                 /\ more[i] \in Nat /\ more[i] <= drop_counter'[flushed'[i].trace]
                 /\ CallsIn(Missing(i))' <= more[i]
      <3>1. CASE i \in DOMAIN stamp
        BY <1>7, <1>8, <3>1 DEF StampInv
      <3>2. CASE i = Cur
        <4>1. CallsIn(Missing(i))' <= d
          BY <1>2, <1>3, <1>11, <3>2 DEF Missing
        <4>. QED  BY <1>2, <1>3, <1>5, <1>7, <1>9, <3>2, <4>1 DEF Passed
      <3>. QED  BY <1>7, <3>1, <3>2
    <2>2. ASSUME NEW n \in DOMAIN more, NEW i \in DOMAIN more, n < i,
                 flushed'[n].trace = flushed'[i].trace
          PROVE  more[n] <= more[i]
      <3>1. CASE n \in DOMAIN stamp /\ i \in DOMAIN stamp
        BY <1>7, <1>8, <2>2, <3>1 DEF StampInv
      <3>2. CASE n \in DOMAIN stamp /\ i = Cur
        <4>1. stamp[n] <= drop_counter[flushed[n].trace]
          BY <1>8, <3>2 DEF StampInv
        <4>. QED  BY <1>2, <1>7, <1>9, <2>2, <3>2, <4>1
      <3>3. CASE n = Cur
        <4>1. i \in DOMAIN stamp
          BY <1>5, <1>7, <2>2, <3>3
        <4>. QED  BY <1>5, <2>2, <3>3, <4>1
      <3>. QED  BY <1>7, <3>1, <3>2, <3>3
    <2>. QED  BY <2>1, <2>2 DEF StampInv
  <1>13. ServerInv(origin, more)'
    <2>1. ServerInv(origin, stamp)
      BY DEF KnownWith
    <2>2. \A k \in 1..Len(origin) :
            /\ origin[k].no \in DOMAIN more
            /\ accepted[k] = BodyOf(origin[k].no, more[origin[k].no])
      BY <1>7, <2>1 DEF ServerInv
    <2>. DEFINE Bs == {BodyOf(i, stamp[i]) : i \in DOMAIN stamp}
                Cs == {BodyOf(i, more[i]) : i \in DOMAIN more}
    <2>3. accepted \in Seq(Bs) /\ Bs \subseteq Cs
      BY <1>7, <2>1 DEF ServerInv
    <2>4. accepted \in Seq(Cs)
      <3>. HIDE DEF Bs, Cs
      <3>1. \A k \in 1..Len(accepted) : accepted[k] \in Cs
        BY <2>3, ElementOfSeq
      <3>. QED  BY <2>3, <3>1, IsASeq, LenProperties
    <2>5. {BodyOf(i, more[i]) : i \in DOMAIN more}' = Cs
      BY <1>3
    <2>. QED  BY <1>2, <1>3, <2>1, <2>2, <2>4, <2>5 DEF ServerInv
  <1>14. MailInv(origin, more)'
    <2>1. \A rq \in inbox : more[rq.from.no] = stamp[rq.from.no] /\ rq.from.no \in DOMAIN more
      BY <1>7 DEF KnownWith, MailInv
    <2>. QED  BY <1>1, <1>3, <2>1 DEF KnownWith, MailInv
  <1>15. HandInv(origin, more)'
    <2>1. \A o \in Origins : Tried(origin, o)' => o.no # Cur
      BY <1>1, <1>6 DEF Tried, KnownWith, ServerInv, MailInv
    <2>2. encoded' = <<BodyOf(Cur, more[Cur])'>>
      <3>1. BodyOf(Cur, more[Cur])' = BodyOf(Cur, d)
        <4>1. BodyOf(Cur, more[Cur])' = batch_to_wire(flushed'[Cur'], KindOf, more[Cur'])
          BY DEF BodyOf
        <4>. QED  BY <1>2, <1>3, <1>7, <4>1 DEF BodyOf
      <3>. QED  BY <1>1, <3>1
    <2>. QED  BY <1>1, <1>3, <1>7, <2>1, <2>2 DEF HandInv
  <1>16. ArrivedInv(origin)' /\ AnswerInv(origin)'
    BY <1>1, <1>2, <1>3 DEF KnownWith, ArrivedInv, Arrived, AnswerInv
  <1>. QED  BY <1>12, <1>13, <1>14, <1>15, <1>16 DEF KnownWith

\* The batch taken for sent is in the store, and no later one is.
LEMMA ReleasesKnown ==
    ASSUME RecorderInv, RecorderInv', PcInv, PcInv', [Next]_vars,
           NEW origin, NEW stamp, KnownWith(origin, stamp), Releases
    PROVE  KnownWith(origin, stamp)'
  <1>1. /\ post_pc = "outcome" /\ (outcome = "dropped" => counted)
        /\ post_pc' = "idle" /\ outcome' = "none" /\ UNCHANGED <<accepted, serving, inbox>>
    BY DEF Releases, ServerIdle, stub_vars
  <1>2. HistoryKept
    BY HistoryStep DEF RecorderInv
  <1>3. StampInv(stamp)' /\ ServerInv(origin, stamp)' /\ MailInv(origin, stamp)'
    BY <1>1, <1>2, StampKept, ServerKept, MailKept DEF KnownWith, RecorderInv, HistoryInv
  <1>4. HandInv(origin, stamp)' /\ AnswerInv(origin)'
    BY <1>1, HandElsewhere DEF KnownWith, AnswerInv
  <1>5. ~counted => Arrived(origin, Cur)
    <2>. SUFFICES ASSUME ~counted PROVE Arrived(origin, Cur)
      OBVIOUS
    <2>1. outcome = "sent"
      BY <1>1 DEF PcInv
    <2>2. PICK k \in 1..Len(origin) : origin[k].no = Cur
      BY <2>1 DEF KnownWith, ArrivedInv
    <2>3. \A l \in 1..Len(origin) : ~(origin[l].no > Cur)
      <3>1. Cur \in Nat /\ \A i \in DOMAIN stamp : i \in Nat /\ ~(Cur < i)
        BY <1>1, HandIsLast DEF KnownWith
      <3>. QED  BY <3>1 DEF KnownWith, ServerInv
    <2>. QED  BY <2>2, <2>3 DEF Arrived
  <1>6. ArrivedInv(origin)'
    <2>1. \A i \in Numbers' : fate'[i] = "delivered" =>
                \/ i \in Numbers /\ fate[i] = "delivered"
                \/ ~counted /\ i = Cur
      BY OnlyReleaseDelivers DEF RecorderInv
    <2>2. ASSUME NEW i \in Numbers', fate'[i] = "delivered"
          PROVE  Arrived(origin, i)
      BY <1>5, <2>1, <2>2 DEF KnownWith, ArrivedInv
    <2>. QED  BY <1>1, <2>2 DEF ArrivedInv, Arrived
  <1>. QED  BY <1>3, <1>4, <1>6 DEF KnownWith

-----------------------------------------------------------------------------
(* The invariant holds.                                                    *)

LEMMA DeliveryStep ==
    ASSUME RecorderInv, RecorderInv', DeliveryInv, [DeliveryNext]_delivery_vars
    PROVE  DeliveryInv'
  <1>1. PICK origin, stamp : KnownWith(origin, stamp)
    BY DEF DeliveryInv
  <1>2. [Next]_vars /\ PcInv /\ PcInv'
    BY StepIsNext, PcStep DEF DeliveryInv, RecorderInv
  <1>3. \E o, s : KnownWith(o, s)'
    <2>1. CASE \/ Php \/ EncodeFails \/ GivesUpAtDeadline \/ ConnectionRefused \/ CountsDrop
               \/ AnswersError \/ AnswersNobody \/ UNCHANGED delivery_vars
      BY <1>1, <1>2, <2>1, QuietActions
    <2>2. CASE Takes \/ Panics \/ Answers2xx \/ TimesOut
      BY <1>1, <1>2, <2>2, TakesKnown, PanicsKnown, Answers2xxKnown, TimesOutKnown
    <2>3. CASE Connects \/ Releases \/ Probe
      BY <1>1, <1>2, <2>3, ConnectsKnown, ReleasesKnown, ProbeKnown
    <2>4. CASE Encodes
      BY <1>1, <1>2, <2>4, EncodesKnown
    <2>5. CASE Serves
      BY <1>1, <1>2, <2>5, ServesKnown
    <2>. QED  BY <2>1, <2>2, <2>3, <2>4, <2>5 DEF DeliveryNext, ShipperThread, Server
  <1>. QED  BY <1>2, <1>3 DEF DeliveryInv

LEMMA DeliveryAlways == DeliverySpec => [](RecorderInv /\ DeliveryInv)
  <1>1. DeliveryInit => DeliveryInv
    BY DeliveryStart
  <1>2. RecorderInv /\ RecorderInv' /\ DeliveryInv /\ [DeliveryNext]_delivery_vars => DeliveryInv'
    BY DeliveryStep
  <1>. QED  BY <1>1, <1>2, DeliveryIsRecorder, RecorderAlways, PTL DEF DeliverySpec

-----------------------------------------------------------------------------
(* What the server holds, read off the invariant.                          *)

\* A stored body is the one of its attempt's batch.
LEMMA StoredBody ==
    ASSUME RecorderInv, NEW origin, NEW stamp, KnownWith(origin, stamp), NEW k \in DOMAIN accepted
    PROVE  LET i == origin[k].no
               body == accepted[k]
           IN /\ k \in 1..Len(origin) /\ origin[k] \in Origins
              /\ i \in DOMAIN stamp /\ i \in Numbers /\ flushed[i] \in Batches
              /\ body = BodyOf(i, stamp[i])
              /\ body.meta.trace_id = flushed[i].trace /\ body.meta.dropped_records = stamp[i]
              /\ body.calls = calls_to_wire(flushed[i].calls)
              /\ DOMAIN body.dict = DOMAIN flushed[i].dict
              /\ \A e \in DOMAIN body.dict : body.dict[e].fn_id = flushed[i].dict[e].fn_id
  <1>. DEFINE i == origin[k].no
  <1>1. k \in 1..Len(origin) /\ origin[k] \in Origins
    <2>1. origin \in Seq(Origins) /\ Len(accepted) = Len(origin)
          /\ accepted \in Seq({BodyOf(n, stamp[n]) : n \in DOMAIN stamp})
      BY DEF KnownWith, ServerInv
    <2>. QED  BY <2>1, LenProperties, ElementOfSeq
  <1>2. i \in DOMAIN stamp /\ accepted[k] = BodyOf(i, stamp[i])
    BY <1>1 DEF KnownWith, ServerInv
  <1>3. i \in Numbers /\ flushed[i] \in Batches
    BY <1>2, NumbersAre DEF KnownWith, StampInv, RecorderInv
  <1>4. /\ accepted[k].meta = meta_partial_to_wire(flushed[i].trace, stamp[i])
        /\ accepted[k].calls = calls_to_wire(flushed[i].calls)
        /\ accepted[k].dict = [e \in DOMAIN flushed[i].dict |->
                dict_entry_to_wire(flushed[i].dict[e], KindOf[flushed[i].dict[e].fn])]
    BY <1>2 DEF BodyOf, batch_to_wire
  <1>. HIDE DEF i
  <1>5. accepted[k].meta.trace_id = flushed[i].trace /\ accepted[k].meta.dropped_records = stamp[i]
    BY <1>4 DEF meta_partial_to_wire
  <1>6. /\ DOMAIN accepted[k].dict = DOMAIN flushed[i].dict
        /\ \A e \in DOMAIN accepted[k].dict : accepted[k].dict[e].fn_id = flushed[i].dict[e].fn_id
    BY <1>4 DEF dict_entry_to_wire
  <1>. QED  BY <1>1, <1>2, <1>3, <1>4, <1>5, <1>6 DEF i

\* The copies of a batch are what its own attempts brought.
LEMMA CopiesAre ==
    ASSUME RecorderInv, NEW origin, NEW stamp, KnownWith(origin, stamp), NEW i \in Numbers
    PROVE  /\ DOMAIN accepted = 1..Len(origin) /\ Len(origin) \in Nat
           /\ \A k \in 1..Len(origin) : k \in CopiesOf(flushed[i]) <=> origin[k].no = i
           /\ \A k \in CopiesOf(flushed[i]) : k \in 1..Len(origin)
  <1>1. DOMAIN accepted = 1..Len(origin) /\ Len(origin) \in Nat
    <2>1. origin \in Seq(Origins) /\ Len(accepted) = Len(origin)
          /\ accepted \in Seq({BodyOf(n, stamp[n]) : n \in DOMAIN stamp})
      BY DEF KnownWith, ServerInv
    <2>. QED  BY <2>1, LenProperties
  <1>2. ASSUME NEW k \in 1..Len(origin)
        PROVE  k \in CopiesOf(flushed[i]) <=> origin[k].no = i
    <2>. DEFINE n == origin[k].no
    <2>1. /\ n \in Numbers /\ accepted[k].meta.trace_id = flushed[n].trace
          /\ accepted[k].calls = calls_to_wire(flushed[n].calls)
      BY <1>1, StoredBody
    <2>. HIDE DEF n
    <2>2. IsCopy(accepted[k], flushed[i]) => n = i
      BY <2>1, CallsTellApart DEF IsCopy
    <2>3. n = i => IsCopy(accepted[k], flushed[i])
      BY <2>1 DEF IsCopy
    <2>. QED  BY <1>1, <2>2, <2>3 DEF CopiesOf, n
  <1>. QED  BY <1>1, <1>2 DEF CopiesOf

\* A delivered batch is there before any later one.
LEMMA DeliveredFirst ==
    ASSUME RecorderInv, NEW origin, NEW stamp, KnownWith(origin, stamp),
           NEW i \in Numbers, fate[i] = "delivered"
    PROVE  \E k \in 1..Len(origin) :
                /\ origin[k].no = i /\ k \in CopiesOf(flushed[i])
                /\ \A l \in 1..Len(origin) : origin[l].no > i => k < l
  BY CopiesAre DEF KnownWith, ArrivedInv, Arrived

\* Copies differ in their attempt, of which there are retry_count + 1.
LEMMA AtLeastOnceHolds ==
    ASSUME RecorderInv, NEW origin, NEW stamp, KnownWith(origin, stamp)
    PROVE  AtLeastOnce
  <1>0. DOMAIN flushed = Numbers
    BY DEF Numbers
  <1>1. DeliveredIsStored
    BY <1>0, DeliveredFirst DEF DeliveredIsStored, Stored
  <1>2. ASSUME NEW i \in Numbers
        PROVE  Cardinality(CopiesOf(flushed[i])) <= RetryCount + 1
    <2>. DEFINE C == CopiesOf(flushed[i])
                f == [k \in C |-> origin[k].attempt]
    <2>1. \A k \in C : origin[k] \in Origins /\ origin[k].no = i
      BY CopiesAre, StoredBody
    <2>2. \A k, l \in C : origin[k].attempt = origin[l].attempt => k = l
      <3>1. \A k, l \in C : origin[k].attempt = origin[l].attempt => origin[k] = origin[l]
        BY <2>1 DEF Origins
      <3>. QED  BY <3>1, CopiesAre DEF KnownWith, ServerInv
    <2>. HIDE DEF C
    <2>3. f \in Injection(C, 0..RetryCount)
      <3>1. \A k \in C : origin[k].attempt \in 0..RetryCount
        BY <2>1 DEF Origins
      <3>. QED  BY <2>2, <3>1 DEF Injection, IsInjective
    <2>4. /\ IsFiniteSet(0..RetryCount) /\ Cardinality(0..RetryCount) = RetryCount + 1
      <3>1. RetryCount \in Nat
        BY DeliveryAssumption
      <3>. QED  BY <3>1, FS_Interval, SMTT(30)
    <2>. HIDE DEF f
    <2>5. Cardinality(C) <= Cardinality(0..RetryCount)
      BY <2>3, <2>4, FS_Injection
    <2>. QED  BY <2>4, <2>5 DEF C
  <1>3. ASSUME NEW i \in Numbers, NEW k \in CopiesOf(flushed[i]), NEW l \in CopiesOf(flushed[i])
        PROVE  accepted[k] = accepted[l]
    <2>1. /\ k \in DOMAIN accepted /\ l \in DOMAIN accepted
          /\ origin[k].no = i /\ origin[l].no = i
      BY CopiesAre
    <2>2. accepted[k] = BodyOf(i, stamp[i]) /\ accepted[l] = BodyOf(i, stamp[i])
      BY <2>1, StoredBody
    <2>. QED  BY <2>2
  <1>. QED  BY <1>0, <1>1, <1>2, <1>3 DEF AtLeastOnce, CopiesBounded

LEMMA StoredInOrderHolds ==
    ASSUME RecorderInv, NEW origin, NEW stamp, KnownWith(origin, stamp)
    PROVE  StoredInOrder
  <1>0. DOMAIN flushed = Numbers /\ Numbers \subseteq Nat
    BY NumbersAre DEF Numbers, RecorderInv
  <1>1. ASSUME NEW i \in Numbers, NEW j \in Numbers, i < j, fate[i] = "delivered",
               NEW l \in CopiesOf(flushed[j])
        PROVE  \E k \in CopiesOf(flushed[i]) :
                    /\ k < l
                    /\ flushed[i].trace = flushed[j].trace =>
                        accepted[k].meta.dropped_records <= accepted[l].meta.dropped_records
    <2>1. PICK k \in 1..Len(origin) :
                /\ origin[k].no = i /\ k \in CopiesOf(flushed[i])
                /\ \A m \in 1..Len(origin) : origin[m].no > i => k < m
      BY <1>1, DeliveredFirst
    <2>2. l \in 1..Len(origin) /\ origin[l].no = j /\ k \in DOMAIN accepted /\ l \in DOMAIN accepted
      BY CopiesAre
    <2>3. k < l
      BY <1>0, <1>1, <2>1, <2>2
    <2>4. /\ accepted[k].meta.dropped_records = stamp[i] /\ i \in DOMAIN stamp
          /\ accepted[l].meta.dropped_records = stamp[j] /\ j \in DOMAIN stamp
      BY <2>1, <2>2, StoredBody
    <2>5. flushed[i].trace = flushed[j].trace => stamp[i] <= stamp[j]
      BY <1>1, <2>4 DEF KnownWith, StampInv
    <2>. QED  BY <2>1, <2>3, <2>4, <2>5
  <1>. QED  BY <1>0, <1>1 DEF StoredInOrder

\* A gap is missing, for the server and for the shipper.
LEMMA NoSilentGapHolds ==
    ASSUME RecorderInv, NEW origin, NEW stamp, KnownWith(origin, stamp)
    PROVE  NoSilentGap
  <1>0. DOMAIN flushed = Numbers /\ Numbers \subseteq Nat /\ TypeOK
        /\ \A i \in Numbers : \A n \in 1..(i - 1) : n \in Numbers /\ n < i
    BY NumbersAre DEF Numbers, RecorderInv
  <1>1. ASSUME NEW i \in Numbers, NEW k \in CopiesOf(flushed[i])
        PROVE  CallsIn({n \in 1..(i - 1) : /\ flushed[n].trace = flushed[i].trace
                                           /\ \A l \in CopiesOf(flushed[n]) : l > k})
                    <= accepted[k].meta.dropped_records
    <2>. DEFINE gap == {n \in 1..(i - 1) : /\ flushed[n].trace = flushed[i].trace
                                           /\ \A l \in CopiesOf(flushed[n]) : l > k}
                A == Missing(i)
                w == CallCountsOf(flushed)
    <2>1. k \in 1..Len(origin) /\ k \in Nat /\ origin[k].no = i /\ k \in DOMAIN accepted
      BY CopiesAre
    <2>2. i \in DOMAIN stamp /\ accepted[k].meta.dropped_records = stamp[i]
      BY <2>1, StoredBody
    <2>3. gap \subseteq A
      <3>. SUFFICES ASSUME NEW n \in gap PROVE n \in A
        OBVIOUS
      <3>1. n \in Numbers /\ n < i /\ flushed[n].trace = flushed[i].trace
        BY <1>0
      <3>2. fate[n] # "delivered"
        <4>. SUFFICES ASSUME fate[n] = "delivered" PROVE FALSE
          OBVIOUS
        <4>1. PICK m \in 1..Len(origin) :
                    /\ m \in CopiesOf(flushed[n])
                    /\ \A l \in 1..Len(origin) : origin[l].no > n => m < l
          BY <3>1, DeliveredFirst
        <4>2. m < k /\ m > k /\ m \in Nat
          BY <1>0, <2>1, <3>1, <4>1
        <4>. QED  BY <2>1, <4>2
      <3>. QED  BY <3>1, <3>2 DEF Missing
    <2>4. CallsIn(A) <= stamp[i] /\ stamp[i] \in Nat
      BY <2>2 DEF KnownWith, StampInv
    <2>5. w \in Seq(Nat) /\ CallsIn(A) = TotalIn(w, A) /\ CallsIn(gap) = TotalIn(w, gap)
      BY <1>0, BudgetTyped, WeightsAre, LedgersAre
    <2>. HIDE DEF gap, A, w
    <2>6. TotalIn(w, gap) <= TotalIn(w, A) /\ TotalIn(w, gap) \in Nat /\ TotalIn(w, A) \in Nat
      BY <2>3, <2>5, TotalInMonotone, TotalInIsNat
    <2>7. CallsIn(gap) <= accepted[k].meta.dropped_records
      BY <2>2, <2>4, <2>5, <2>6
    <2>. QED  BY <2>7 DEF gap
  <1>. QED  BY <1>0, <1>1 DEF NoSilentGap

\* A stamp of zero: every earlier batch of the trace was delivered.
LEMMA NothingMissing ==
    ASSUME RecorderInv, NEW stamp, StampInv(stamp), NEW i \in DOMAIN stamp, stamp[i] = 0
    PROVE  Missing(i) = {}
  <1>. DEFINE A == Missing(i)
              w == CallCountsOf(flushed)
  <1>1. /\ TypeOK /\ FilledInv /\ A \subseteq Numbers
    BY DEF RecorderInv, HistoryInv, Missing
  <1>2. /\ w \in Seq(Nat) /\ Numbers = 1..Len(w) /\ CallsIn(A) = TotalIn(w, A)
        /\ \A n \in Numbers : w[n] = Len(flushed[n].calls) /\ flushed[n] \in Batches
    BY <1>1, BudgetTyped, WeightsAre, LedgersAre, NumbersAre
  <1>3. CallsIn(A) <= 0
    BY DEF StampInv
  <1>4. ASSUME NEW n \in A
        PROVE  FALSE
    <2>1. flushed[n].calls \in Seq(Records) /\ flushed[n].calls # <<>>
      BY <1>1, <1>2, <1>4 DEF Batches, FilledInv
    <2>2. Len(flushed[n].calls) \in Nat /\ Len(flushed[n].calls) >= 1
      BY <2>1, EmptySeq, LenProperties
    <2>. HIDE DEF A, w
    <2>3. n \in 1..Len(w)
      BY <1>1, <1>2, <1>4
    <2>4. w[n] <= TotalIn(w, A) /\ TotalIn(w, A) \in Nat
      BY <1>2, <1>4, <2>3, TotalInAbove, TotalInIsNat
    <2>. QED  BY <1>1, <1>2, <1>3, <1>4, <2>2, <2>4
  <1>. QED  BY <1>4

\* With nothing missing, the batch of the entry came before, or is the same.
LEMMA FnIdsResolveHolds ==
    ASSUME RecorderInv, NEW origin, NEW stamp, KnownWith(origin, stamp)
    PROVE  FnIdsResolve
  <1>. DEFINE known(k) == {e.fn_id : e \in UNION {ToSet(accepted[l].dict) : l \in
                        {n \in 1..k : accepted[n].meta.trace_id = accepted[k].meta.trace_id}}}
  <1>0. /\ TypeOK /\ DictionaryAnnounced /\ StampInv(stamp)
        /\ Numbers = 1..Len(flushed) /\ Len(flushed) \in Nat
    BY NumbersAre DEF RecorderInv, KnownWith
  <1>1. ASSUME NEW k \in DOMAIN accepted, ~(accepted[k].meta.dropped_records > 0),
               NEW c \in ToSet(accepted[k].calls)
        PROVE  c.fn \in known(k)
    <2>. DEFINE i == origin[k].no
                r == flushed[i].trace
    <2>1. /\ k \in 1..Len(origin) /\ i \in DOMAIN stamp /\ i \in Numbers /\ flushed[i] \in Batches
          /\ accepted[k].meta.trace_id = r /\ accepted[k].meta.dropped_records = stamp[i]
          /\ accepted[k].calls = calls_to_wire(flushed[i].calls)
      BY StoredBody
    <2>2. stamp[i] = 0
      <3>1. stamp[i] \in Nat
        BY <1>0, <2>1 DEF StampInv
      <3>. QED  BY <1>1, <2>1, <3>1
    <2>3. PICK m \in DOMAIN flushed[i].calls : c.fn = flushed[i].calls[m].fn_id
      <3>1. PICK m \in DOMAIN accepted[k].calls : c = accepted[k].calls[m]
        BY <1>1 DEF ToSet
      <3>2. m \in DOMAIN flushed[i].calls /\ c = call_record_to_wire(flushed[i].calls[m])
        BY <2>1, <3>1 DEF calls_to_wire
      <3>3. c.fn = flushed[i].calls[m].fn_id
        BY <3>2 DEF call_record_to_wire
      <3>. QED  BY <3>2, <3>3
    <2>. HIDE DEF i, r
    <2>4. flushed[i].calls \in Seq(Records) /\ r \in Requests /\ flushed[i].trace = r
      BY <2>1 DEF Batches, r
    <2>5. CallPlace(r, i, m)
      BY <1>0, <2>1, <2>3, <2>4, LenProperties DEF CallPlace
    <2>6. <<i, m>> \in CallPlaces(r) /\ CallAt(<<i, m>>) = flushed[i].calls[m]
      BY <1>0, <2>1, <2>5, PlacesAre, FoundAt
    <2>7. PICK q \in EntryPlaces(r) : q[1] <= i /\ EntryAt(q).fn_id = c.fn
      <3>1. PICK q \in EntryPlaces(r) :
                q[1] <= <<i, m>>[1] /\ EntryAt(q).fn_id = CallAt(<<i, m>>).fn_id
        BY <1>0, <2>4, <2>6 DEF DictionaryAnnounced
      <3>. QED  BY <2>3, <2>6, <3>1
    <2>8. PICK b, e : q = <<b, e>> /\ EntryPlace(r, b, e)
      BY <1>0, PlacesAre
    <2>9. /\ b \in Numbers /\ b <= i /\ flushed[b].trace = r /\ e \in 1..Len(flushed[b].dict)
          /\ flushed[b].dict[e].fn_id = c.fn
      <3>1. b <= i /\ b # Len(flushed) + 1
        BY <1>0, <2>1, <2>7, <2>8
      <3>2. b \in 1..Len(flushed) /\ flushed[b].trace = r /\ e \in 1..Len(flushed[b].dict)
        BY <2>8, <3>1 DEF EntryPlace
      <3>3. EntryAt(<<b, e>>) = flushed[b].dict[e]
        BY <1>0, <2>8, <3>1, FoundAt
      <3>. QED  BY <1>0, <2>7, <2>8, <3>1, <3>2, <3>3
    \* The batch with the entry came no later.
    <2>10. PICK l \in 1..k : l \in 1..Len(origin) /\ origin[l].no = b
      <3>1. CASE b = i
        <4>1. k \in 1..k /\ origin[k].no = b
          BY <2>1, <3>1 DEF i
        <4>. QED  BY <2>1, <4>1
      <3>2. CASE b # i
        <4>1. b < i
          BY <1>0, <2>1, <2>9, <3>2
        <4>2. fate[b] = "delivered"
          <5>1. b \notin Missing(i)
            BY <1>0, <2>1, <2>2, NothingMissing
          <5>. QED  BY <2>4, <2>9, <4>1, <5>1 DEF Missing
        <4>3. PICK l \in 1..Len(origin) :
                    /\ origin[l].no = b
                    /\ \A n \in 1..Len(origin) : origin[n].no > b => l < n
          BY <2>9, <4>2, DeliveredFirst
        <4>4. l < k
          <5>1. origin[k].no > b
            BY <1>0, <2>1, <2>9, <4>1 DEF i
          <5>. QED  BY <2>1, <4>3, <5>1
        <4>5. l \in 1..k
          BY <2>1, <4>3, <4>4
        <4>. QED  BY <4>3, <4>5
      <3>. QED  BY <3>1, <3>2
    <2>11. l \in DOMAIN accepted
      BY <2>1, <2>10, CopiesAre
    <2>12. /\ accepted[l].meta.trace_id = r
           /\ DOMAIN accepted[l].dict = DOMAIN flushed[b].dict
           /\ \A d \in DOMAIN accepted[l].dict : accepted[l].dict[d].fn_id = flushed[b].dict[d].fn_id
      BY <2>9, <2>10, <2>11, StoredBody
    <2>13. e \in DOMAIN flushed[b].dict
      <3>1. flushed[b].dict \in Seq(DictEntries)
        BY <1>0, <2>9, NumbersAre DEF Batches
      <3>. QED  BY <2>9, <3>1, LenProperties
    <2>14. accepted[l].dict[e] \in ToSet(accepted[l].dict)
           /\ accepted[l].dict[e].fn_id = c.fn
      BY <2>9, <2>12, <2>13 DEF ToSet
    <2>15. l \in {n \in 1..k : accepted[n].meta.trace_id = accepted[k].meta.trace_id}
      BY <2>1, <2>10, <2>12
    <2>. QED  BY <2>14, <2>15
  <1>2. ASSUME NEW k \in DOMAIN accepted
        PROVE  \/ \A c \in ToSet(accepted[k].calls) : c.fn \in known(k)
               \/ accepted[k].meta.dropped_records > 0
    BY <1>1
  <1>. QED  BY <1>2 DEF FnIdsResolve

\* A refused batch was never encoded, so what is stored of a settled trace is
\* what was delivered and what was given up too late.
LEMMA ServerReconcilesHolds ==
    ASSUME RecorderInv, NEW origin, NEW stamp, KnownWith(origin, stamp)
    PROVE  ServerReconciles
  <1>0. /\ TypeOK /\ DOMAIN flushed = Numbers /\ EveryCallAccountedFor /\ StampInv(stamp)
    BY DEF Numbers, RecorderInv, KnownWith
  <1>1. ASSUME NEW r \in Requests, Settled(r)
        PROVE  LET there == {i \in DOMAIN flushed : flushed[i].trace = r /\ Stored(flushed[i])}
               IN begun[r] = CallsIn(there) + drop_counter[r]
                                - CallsIn({i \in there : fate[i] = "given_up"})
    <2>. DEFINE there == {i \in DOMAIN flushed : flushed[i].trace = r /\ Stored(flushed[i])}
                twice == {i \in there : fate[i] = "given_up"}
                kept  == {i \in DOMAIN flushed : /\ flushed[i].trace = r
                                                 /\ fate[i] \notin {"refused", "given_up"}}
                w == CallCountsOf(flushed)
    <2>1. begun[r] = drop_counter[r] + CallsIn(kept)
      <3>1. ~IsCurrent(r) /\ OpenFrames(r) = <<>> /\ Len(OpenFrames(r)) = 0
        BY <1>1, EmptySeq DEF Settled, OpenFrames
      <3>2. begun[r] = drop_counter[r] + 0 + 0 + CallsIn(kept)
        BY <1>0, <3>1 DEF EveryCallAccountedFor
      <3>3. drop_counter[r] \in Nat /\ CallsIn(kept) \in Nat
        <4>1. drop_counter[r] \in Nat
          BY <1>0 DEF TypeOK, SharedTypeOK
        <4>2. CallsIn(kept) = TotalIn(w, kept) /\ TotalIn(w, kept) \in Nat
          BY <1>0, BudgetTyped, LedgersAre
        <4>. QED  BY <4>1, <4>2
      <3>. QED  BY <3>2, <3>3
    <2>2. ASSUME NEW i \in Numbers, flushed[i].trace = r
          PROVE  /\ fate[i] \in {"delivered", "given_up", "refused"}
                 /\ fate[i] = "delivered" => Stored(flushed[i])
                 /\ Stored(flushed[i]) => fate[i] # "refused"
      <3>1. fate[i] \in {"delivered", "given_up", "refused"}
        BY <1>0, <1>1, <2>2 DEF Settled
      <3>2. fate[i] = "delivered" => Stored(flushed[i])
        BY DeliveredFirst DEF Stored
      <3>3. ASSUME Stored(flushed[i]) PROVE fate[i] # "refused"
        <4>1. PICK k \in CopiesOf(flushed[i]) : TRUE
          BY <3>3 DEF Stored
        <4>2. k \in DOMAIN accepted /\ origin[k].no = i
          BY CopiesAre
        <4>3. i \in DOMAIN stamp
          BY <4>2, StoredBody
        <4>. QED  BY <1>0, <4>3 DEF StampInv, Passed
      <3>. QED  BY <3>1, <3>2, <3>3
    <2>3. w \in Seq(Nat) /\ Numbers = 1..Len(w)
      BY <1>0, BudgetTyped, WeightsAre
    <2>4. \A i \in 1..Len(w) : /\ i \in there <=> i \in kept \/ i \in twice
                               /\ ~(i \in kept /\ i \in twice)
      <3>. HIDE DEF w
      <3>. SUFFICES ASSUME NEW i \in Numbers
                    PROVE  /\ i \in there <=> i \in kept \/ i \in twice
                           /\ ~(i \in kept /\ i \in twice)
        BY <2>3
      <3>1. CASE flushed[i].trace = r
        BY <1>0, <2>2, <3>1
      <3>2. CASE flushed[i].trace # r
        BY <3>2
      <3>. QED  BY <3>1, <3>2
    <2>5. /\ CallsIn(there) = TotalIn(w, there) /\ CallsIn(kept) = TotalIn(w, kept)
          /\ CallsIn(twice) = TotalIn(w, twice)
      BY LedgersAre
    <2>. HIDE DEF there, twice, kept, w
    <2>6. TotalIn(w, there) = TotalIn(w, kept) + TotalIn(w, twice)
      BY <2>3, <2>4, TotalInSplit
    <2>7. TotalIn(w, kept) \in Nat /\ TotalIn(w, twice) \in Nat /\ drop_counter[r] \in Nat
      <3>1. drop_counter[r] \in Nat
        BY <1>0 DEF TypeOK, SharedTypeOK
      <3>. QED  BY <2>3, <3>1, TotalInIsNat
    <2>8. begun[r] = CallsIn(there) + drop_counter[r] - CallsIn(twice)
      BY <2>1, <2>5, <2>6, <2>7
    <2>. QED  BY <2>8 DEF there, twice
  <1>. QED  BY <1>1 DEF ServerReconciles

-----------------------------------------------------------------------------
(* Theorems.                                                               *)

\* What is known of the recorder and of the delivery gives the five.
LEMMA DeliveryHolds ==
    ASSUME RecorderInv, DeliveryInv
    PROVE  AtLeastOnce /\ StoredInOrder /\ NoSilentGap /\ FnIdsResolve /\ ServerReconciles
  <1>1. PICK origin, stamp : KnownWith(origin, stamp)
    BY DEF DeliveryInv
  <1>. QED  BY <1>1, AtLeastOnceHolds, StoredInOrderHolds, NoSilentGapHolds, FnIdsResolveHolds,
               ServerReconcilesHolds

\* AC-SH-1, for every retry_count and every way the network loses requests and
\* answers: what the shipper took for sent is stored, at most retry_count + 1
\* times and always with the same bytes.
THEOREM DeliveredOnceOrMore == DeliverySpec => []AtLeastOnce
BY DeliveryHolds, DeliveryAlways, PTL

\* Requests may overtake each other, yet a delivered batch is in the store before
\* any later one, and the drop counts of a trace do not go down.
THEOREM StoreInOrder == DeliverySpec => []StoredInOrder
BY DeliveryHolds, DeliveryAlways, PTL

\* OBJ-5, "no silent loss": what is missing before a stored batch is counted in
\* the dropped_records it came with, whatever was refused, given up or destroyed.
THEOREM GapsAnnounced == DeliverySpec => []NoSilentGap
BY DeliveryHolds, DeliveryAlways, PTL

\* F-FN-2 for the reader of the store: without drops every fn_id of a stored batch
\* is in the dictionaries stored by then.
THEOREM FunctionsResolve == DeliverySpec => []FnIdsResolve
BY DeliveryHolds, DeliveryAlways, PTL

\* AC-RC-1 across the wire: the calls of a settled trace are those stored and
\* those counted, the batches counted although they arrived taken off once.
THEOREM ServerAddsUp == DeliverySpec => []ServerReconciles
BY DeliveryHolds, DeliveryAlways, PTL

-----------------------------------------------------------------------------
(* The server by itself.                                                   *)

StubTypeOK(Bodies) ==
    /\ store \in Seq(Bodies) /\ accepted \in Seq(Bodies)
    /\ captured \in Seq([number : Nat, body : Bodies])
    /\ capture_counter \in Nat

StubKnown(Bodies) == StubTypeOK(Bodies) /\ CapturedIsStored /\ DebugViewsAgree

\* The bodies stored so far are of some set.
StubInv == \E Bodies : StubKnown(Bodies)

\* What the steps can do to the five collections: nothing, use up a number,
\* store a batch with or without a capture, or empty the store.
LEMMA IdleKeepsInv ==
    ASSUME NEW Bodies, StubKnown(Bodies),
           UNCHANGED <<args, store, accepted, captured, capture_counter>>,
           \/ UNCHANGED <<last_headers, connections>>
           \/ last_headers' # <<>> /\ connections' # {}
    PROVE  StubKnown(Bodies)'
  BY DEF StubKnown, StubTypeOK, CapturedIsStored, DebugViewsAgree

LEMMA ElementOf ==
    ASSUME NEW S, NEW s \in Seq(S), NEW i \in DOMAIN s
    PROVE  s[i] \in S
  OBVIOUS

LEMMA LostNumberKeepsInv ==
    ASSUME NEW Bodies, StubKnown(Bodies),
           UNCHANGED <<args, store, accepted, captured>>,
           capture_counter' = capture_counter + 1,
           last_headers' # <<>> /\ connections' # {}
    PROVE  StubKnown(Bodies)'
<1>1. StubTypeOK(Bodies)' /\ DebugViewsAgree'
  BY DEF StubKnown, StubTypeOK, DebugViewsAgree
<1>2. ASSUME NEW i \in DOMAIN captured
      PROVE  captured[i].number <= capture_counter'
  <2>1. captured[i] \in [number : Nat, body : Bodies]
    BY <1>2, ElementOf DEF StubKnown, StubTypeOK
  <2>2. captured[i].number <= capture_counter
    BY <1>2 DEF StubKnown, CapturedIsStored
  <2>3. captured[i].number \in Nat /\ capture_counter \in Nat
    BY <2>1 DEF StubKnown, StubTypeOK
  <2> QED
    BY <2>2, <2>3
<1>3. CapturedIsStored'
  BY <1>2 DEF StubKnown, CapturedIsStored
<1> QED
  BY <1>1, <1>3 DEF StubKnown

\* The store stays the end of what was ever accepted when both grow alike.
LEMMA SuffixGrows ==
    ASSUME NEW S, NEW s \in Seq(S), NEW t \in Seq(S), NEW x \in S,
           Len(s) <= Len(t),
           \A i \in DOMAIN s : s[i] = t[Len(t) - Len(s) + i],
           NEW u, u = Append(s, x),
           NEW v, v = Append(t, x)
    PROVE  Len(u) <= Len(v) /\ \A i \in DOMAIN u : u[i] = v[Len(v) - Len(u) + i]
<1>1. Len(u) = Len(s) + 1 /\ Len(v) = Len(t) + 1 /\ Len(s) \in Nat /\ Len(t) \in Nat
  OBVIOUS
<1>2. ASSUME NEW i \in DOMAIN u
      PROVE  u[i] = v[Len(v) - Len(u) + i]
  <2>1. i \in 1..(Len(s) + 1)
    OBVIOUS
  <2>2. CASE i = Len(s) + 1
    BY <2>2
  <2>3. CASE i \in 1..Len(s)
    <3>1. u[i] = s[i] /\ s[i] = t[Len(t) - Len(s) + i]
      BY <2>3
    <3>2. Len(t) - Len(s) + i \in 1..Len(t) /\ Len(v) - Len(u) + i = Len(t) - Len(s) + i
      BY <1>1, <2>3
    <3> QED
      BY <3>1, <3>2
  <2> QED
    BY <2>1, <2>2, <2>3, <1>1
<1>3. Len(u) <= Len(v)
  BY <1>1
<1> QED
  BY ONLY <1>2, <1>3

LEMMA StoreKeepsInv ==
    ASSUME NEW Bodies, StubKnown(Bodies),
           NEW b \in Bodies,
           UNCHANGED args,
           store' = Append(store, b), accepted' = Append(accepted, b),
           IF args.capture_dir = "usable"
           THEN /\ capture_counter' = capture_counter + 1
                /\ captured' = Append(captured, [number |-> capture_counter + 1, body |-> b])
           ELSE UNCHANGED <<capture_counter, captured>>,
           last_headers' # <<>> /\ connections' # {}
    PROVE  StubKnown(Bodies)'
<1>0. StubTypeOK(Bodies) /\ CapturedIsStored
  BY DEF StubKnown
<1>1. DebugViewsAgree'
  BY DEF DebugViewsAgree
<1>2. /\ Len(store') <= Len(accepted')
      /\ \A i \in DOMAIN store' : store'[i] = accepted'[Len(accepted') - Len(store') + i]
  <2>1. store \in Seq(Bodies) /\ accepted \in Seq(Bodies)
    BY <1>0 DEF StubTypeOK
  <2>2. /\ Len(store) <= Len(accepted)
        /\ \A i \in DOMAIN store : store[i] = accepted[Len(accepted) - Len(store) + i]
    BY <1>0 DEF CapturedIsStored
  <2>3. store' = Append(store, b) /\ accepted' = Append(accepted, b)
    OBVIOUS
  <2> QED
    BY ONLY <2>1, <2>2, <2>3, b \in Bodies, SuffixGrows
<1>3. CASE args.capture_dir = "usable"
  <2> DEFINE file == [number |-> capture_counter + 1, body |-> b]
  <2>1. file \in [number : Nat, body : Bodies] /\ captured' = Append(captured, file)
    BY <1>0, <1>3 DEF StubTypeOK
  <2>a. captured \in Seq([number : Nat, body : Bodies]) /\ accepted \in Seq(Bodies)
    BY <1>0 DEF StubTypeOK
  <2>b. /\ Len(captured) = Len(accepted)
        /\ \A i \in DOMAIN captured : captured[i].body = accepted[i]
        /\ \A i \in DOMAIN captured : captured[i].number <= capture_counter
    BY <1>0, <1>3 DEF CapturedIsStored
  <2>2. /\ Len(captured') = Len(captured) + 1 /\ Len(accepted') = Len(accepted) + 1
        /\ Len(captured) = Len(accepted)
        /\ \A i \in 1..Len(captured) :
                /\ captured'[i] = captured[i] /\ accepted'[i] = accepted[i]
                /\ captured[i] \in [number : Nat, body : Bodies]
                /\ captured[i].body = accepted[i] /\ captured[i].number <= capture_counter
        /\ captured'[Len(captured) + 1] = file /\ accepted'[Len(accepted) + 1] = b
    <3> HIDE DEF file
    <3>1. DOMAIN captured = 1..Len(captured) /\ DOMAIN accepted = 1..Len(accepted)
      BY <2>a
    <3>2. /\ Len(captured') = Len(captured) + 1 /\ Len(accepted') = Len(accepted) + 1
          /\ captured'[Len(captured) + 1] = file /\ accepted'[Len(accepted) + 1] = b
      BY <2>a, <2>1
    <3>3. \A i \in 1..Len(captured) : captured'[i] = captured[i] /\ accepted'[i] = accepted[i]
      BY <2>a, <2>b, <2>1
    <3>4. \A i \in 1..Len(captured) : captured[i] \in [number : Nat, body : Bodies]
      BY <2>a, <3>1, ElementOf
    <3> QED
      BY <2>b, <3>1, <3>2, <3>3, <3>4
  <2>3. StubTypeOK(Bodies)'
    BY <1>0, <1>3, <2>1 DEF StubTypeOK
  <2> HIDE DEF file
  <2>4. file.number = capture_counter + 1 /\ file.body = b /\ capture_counter \in Nat
    BY <1>0 DEF file, StubTypeOK
  <2>5. DOMAIN captured' = 1..(Len(captured) + 1) /\ Len(captured) \in Nat
    BY <1>0, <2>1, <2>2 DEF StubTypeOK
  <2>6. \A i \in DOMAIN captured' : captured'[i].body = accepted'[i]
    BY <2>2, <2>4, <2>5
  <2>7. \A i \in DOMAIN captured' : captured'[i].number <= capture_counter'
    BY <1>3, <2>2, <2>4, <2>5
  <2>8. ASSUME NEW i \in DOMAIN captured', NEW j \in DOMAIN captured', i < j
        PROVE  captured'[i].number < captured'[j].number
    <3>1. i \in 1..Len(captured)
      BY <2>5, <2>8
    <3>2. CASE j \in 1..Len(captured)
      <4>1. captured[i].number < captured[j].number
        BY <1>0, <2>8, <3>1, <3>2, SMTT(30) DEF CapturedIsStored, StubTypeOK
      <4> QED
        BY <2>2, <3>1, <3>2, <4>1
    <3>3. CASE j = Len(captured) + 1
      BY <2>2, <2>4, <3>1, <3>3
    <3> QED
      BY <2>5, <3>2, <3>3
  <2>9. CapturedIsStored'
    BY <1>2, <2>2, <2>6, <2>7, <2>8 DEF CapturedIsStored
  <2> QED
    BY <1>1, <2>3, <2>9 DEF StubKnown
<1>4. CASE args.capture_dir # "usable"
  <2>1. StubTypeOK(Bodies)'
    BY <1>0, <1>4 DEF StubTypeOK
  <2>2. CapturedIsStored'
    BY <1>0, <1>2, <1>4 DEF CapturedIsStored
  <2> QED
    BY <1>1, <2>1, <2>2 DEF StubKnown
<1> QED
  BY <1>3, <1>4

LEMMA ResetKeepsInv ==
    ASSUME NEW Bodies, StubKnown(Bodies), NEW rq, DebugReset(rq)
    PROVE  StubKnown(Bodies)'
<1>1. StubTypeOK(Bodies)' /\ DebugViewsAgree'
  BY DEF StubKnown, StubTypeOK, DebugReset, DebugViewsAgree
<1>2. CapturedIsStored'
  BY DEF StubKnown, StubTypeOK, DebugReset, CapturedIsStored
<1> QED
  BY <1>1, <1>2 DEF StubKnown

LEMMA ReceivedIsNoted ==
    ASSUME NEW rq, IngestReceived(rq)
    PROVE  last_headers' # <<>> /\ connections' # {} /\ UNCHANGED args
  BY DEF IngestReceived

\* One body more.
LEMMA MoreBodies ==
    ASSUME NEW Bodies, StubKnown(Bodies), NEW More, Bodies \subseteq More
    PROVE  StubKnown(More)
<1>1. ASSUME NEW S, NEW T, S \subseteq T, NEW s \in Seq(S)
      PROVE  s \in Seq(T)
  <2>1. \A i \in 1..Len(s) : s[i] \in T
    BY <1>1, ElementOfSeq
  <2> QED
    BY <1>1, <2>1, IsASeq, LenProperties
<1>2. [number : Nat, body : Bodies] \subseteq [number : Nat, body : More]
  OBVIOUS
<1>3. StubTypeOK(More)
  BY <1>1, <1>2 DEF StubKnown, StubTypeOK
<1> QED
  BY <1>3 DEF StubKnown

\* Whatever request the server handles.
LEMMA DispatchKeepsInv ==
    ASSUME StubInv, NEW rq, Dispatch(rq)
    PROVE  StubInv'
<1>1. PICK Bodies : StubKnown(Bodies)
  BY DEF StubInv
<1>2. CASE IngestRejected(rq)
  BY <1>1, <1>2, ReceivedIsNoted, IdleKeepsInv DEF IngestRejected, StubInv
<1>3. CASE IngestCaptureFails(rq)
  BY <1>1, <1>3, ReceivedIsNoted, LostNumberKeepsInv DEF IngestCaptureFails, StubInv
<1>4. CASE IngestStored(rq)
  <2>1. StubKnown(Bodies \cup {rq.body})
    BY <1>1, MoreBodies
  <2>2. StubKnown(Bodies \cup {rq.body})'
    BY <1>4, <2>1, ReceivedIsNoted, StoreKeepsInv DEF IngestStored
  <2> QED
    BY <2>2 DEF StubInv
<1>5. CASE DebugRead(rq) \/ NotRouted(rq)
  BY <1>1, <1>5, IdleKeepsInv DEF DebugRead, NotRouted, ReadOnly, StubInv
<1>6. CASE DebugReset(rq)
  BY <1>1, <1>6, ResetKeepsInv DEF StubInv
<1> QED
  BY <1>2, <1>3, <1>4, <1>5, <1>6 DEF Dispatch

LEMMA StubRests ==
    ASSUME StubInv, Respond \/ UNCHANGED stub_vars
    PROVE  StubInv'
<1>1. PICK Bodies : StubKnown(Bodies)
  BY DEF StubInv
<1> QED
  BY <1>1, IdleKeepsInv DEF Respond, ReadOnly, stub_vars, StubInv

LEMMA StubStart ==
    ASSUME StubInit
    PROVE  StubInv
<1>1. StubKnown({})
  BY DEF StubInit, StubKnown, StubTypeOK, CapturedIsStored, DebugViewsAgree
<1> QED
  BY <1>1 DEF StubInv

LEMMA StubHolds ==
    ASSUME StubInv
    PROVE  StoreConsistent
  BY DEF StubInv, StubKnown, StoreConsistent

\* "successful capture = successful store" (main.rs), and debug pages that never
\* contradict each other, for every sequence of requests, capture failures and
\* resets.
THEOREM StoreCorrect == StubSpec => []StoreConsistent
<1>1. StubInv /\ [StubNext]_stub_vars => StubInv'
  BY DispatchKeepsInv, StubRests DEF StubNext
<1> QED
  BY <1>1, StubStart, StubHolds, PTL DEF StubSpec

\* The same of a server that is sent what the shipper and the test harness send.
THEOREM DeliveryStoreCorrect == DeliverySpec => []StoreConsistent
<1>1. DeliveryInit => StubInv
  BY StubStart DEF DeliveryInit
<1>2. StubInv /\ [DeliveryNext]_delivery_vars => StubInv'
  <2> SUFFICES ASSUME StubInv, [DeliveryNext]_delivery_vars PROVE StubInv'
    OBVIOUS
  <2>1. CASE Serves \/ Probe
    BY <2>1, DispatchKeepsInv DEF Serves, Probe
  <2>2. CASE Answers2xx \/ AnswersError \/ AnswersNobody
    BY <2>2, StubRests DEF Answers2xx, AnswersError, AnswersNobody
  <2>3. CASE Php \/ ShipperThread \/ UNCHANGED delivery_vars
    <3>1. UNCHANGED stub_vars
      BY <2>3 DEF Php, ShipperThread, Takes, Encodes, EncodeFails, Connects, GivesUpAtDeadline,
                  ConnectionRefused, TimesOut, CountsDrop, Releases, Panics, ServerIdle,
                  delivery_vars
    <3> QED
      BY <3>1, StubRests
  <2> QED
    BY <2>1, <2>2, <2>3 DEF DeliveryNext, Server
<1> QED
  BY <1>1, <1>2, StubHolds, PTL DEF DeliverySpec

=============================================================================
