---------------------------- MODULE LedgerProofs ----------------------------
(***************************************************************************)
(* Theorems about what Recorder counts: the memory budget, the drop        *)
(* counters, and the hand-off of batches.  They rest on one invariant,     *)
(* which says of every flushed batch who holds it.                         *)
(***************************************************************************)
EXTENDS RecorderProofs, FiniteSetTheorems

-----------------------------------------------------------------------------
(* Who holds which batch.                                                  *)

Numbers == DOMAIN flushed

\* The batch is the one of its number in the history.
InHistory(b) == b.no \in Numbers /\ flushed[b.no] = b

Numbered == \A i \in Numbers : flushed[i].no = i

\* The channel holds the queued batches, each once.
QueueInv ==
    /\ \A k \in 1..Len(queue) : InHistory(queue[k]) /\ fate[queue[k].no] = "queued"
    /\ \A k, l \in 1..Len(queue) : queue[k].no = queue[l].no => k = l
    /\ \A i \in Numbers : fate[i] = "queued" => \E k \in 1..Len(queue) : queue[k].no = i

\* The request thread holds the batch it is refusing.
RefusedInv ==
    /\ refused # <<>> => InHistory(refused[1]) /\ fate[refused[1].no] = "refusing"
    /\ \A i \in Numbers : fate[i] = "refusing" => refused # <<>> /\ refused[1].no = i

\* The shipper holds the batch in flight, also once it has counted it.
InFlightInv ==
    /\ in_flight # <<>> =>
            /\ InHistory(in_flight[1])
            /\ fate[in_flight[1].no] = IF counted THEN "given_up" ELSE "in_flight"
    /\ \A i \in Numbers : fate[i] = "in_flight" => in_flight # <<>> /\ in_flight[1].no = i
    /\ counted => in_flight # <<>>

ChannelInv ==
    /\ channel # "open" => queue = <<>> /\ in_flight = <<>>
    /\ channel = "disconnected" => MayPanic
    /\ channel = "no_sender" => "no_sender" \in SpawnOutcomes

HoldersInv == Numbered /\ QueueInv /\ RefusedInv /\ InFlightInv /\ ChannelInv

\* The numbers of the history, and its two sequences.
LEMMA NumbersAre ==
    ASSUME TypeOK
    PROVE  /\ Len(flushed) \in Nat /\ Numbers = 1..Len(flushed)
           /\ DOMAIN fate = Numbers /\ fate \in [Numbers -> Fates]
           /\ \A i \in Numbers : flushed[i] \in Batches
           /\ Len(queue) \in Nat /\ DOMAIN queue = 1..Len(queue)
           /\ \A k \in 1..Len(queue) : queue[k] \in Batches
           /\ refused # <<>> => Len(refused) = 1 /\ Head(refused) = refused[1]
           /\ in_flight # <<>> => Len(in_flight) = 1 /\ Head(in_flight) = in_flight[1]
  <1>1. /\ Len(flushed) \in Nat /\ DOMAIN flushed = 1..Len(flushed)
        /\ Len(fate) = Len(flushed) /\ fate \in [1..Len(fate) -> Fates]
        /\ Len(queue) \in Nat /\ DOMAIN queue = 1..Len(queue)
    BY SharedFacts, LenProperties
  <1>2. /\ \A i \in 1..Len(flushed) : flushed[i] \in Batches
        /\ \A k \in 1..Len(queue) : queue[k] \in Batches
    BY SharedFacts, ElementOfSeq
  <1>3. ASSUME NEW s \in Seq(Batches), s # <<>>, Len(s) <= 1
        PROVE  Len(s) = 1 /\ Head(s) = s[1]
    <2>1. Len(s) \in Nat /\ Len(s) # 0 /\ Head(s) = s[1]
      BY <1>3, EmptySeq, LenProperties, HeadTailProperties
    <2>. QED  BY <1>3, <2>1
  <1>. QED  BY <1>1, <1>2, <1>3, SharedFacts DEF Numbers

\* Recording the end of one batch changes no other fate.
LEMMA FateExcept ==
    ASSUME TypeOK, NEW k \in Numbers, NEW what
    PROVE  LET new == [fate EXCEPT ![k] = what]
           IN new[k] = what /\ \A i \in Numbers : i # k => new[i] = fate[i]
  BY NumbersAre

LEMMA FateBecomes ==
    ASSUME TypeOK, NEW k \in Numbers, NEW what, fate' = [fate EXCEPT ![k] = what]
    PROVE  fate'[k] = what /\ \A i \in Numbers : i # k => fate'[i] = fate[i]
  BY NumbersAre

LEMMA HoldersInit ==
    ASSUME Init
    PROVE  HoldersInv
  <1>1. /\ Numbers = {} /\ queue = <<>> /\ refused = <<>> /\ in_flight = <<>> /\ Len(queue) = 0
        /\ channel \in SpawnOutcomes
    BY DEF Init, Numbers
  <1>2. ~counted
    BY Zenon DEF Init
  <1>3. ChannelInv
    BY <1>1, ConfigAssumption DEF ChannelInv, ConfigAssumption
  <1>. QED  BY <1>1, <1>2, <1>3 DEF HoldersInv, Numbered, QueueInv, RefusedInv, InFlightInv

LEMMA HoldersFlush ==
    ASSUME TypeOK, HoldersInv, NEW batch \in Batches, NEW bytes \in Int,
           batch.no = Len(flushed) + 1, refused = <<>>, TrySendBatch(batch, bytes),
           UNCHANGED <<channel, in_flight, counted>>
    PROVE  HoldersInv'
  <1>. DEFINE m == Len(flushed) + 1
  <1>1. /\ Len(flushed) \in Nat /\ Numbers = 1..Len(flushed) /\ Numbers' = 1..m
        /\ m \notin Numbers /\ Numbers \subseteq Numbers'
    BY SendShape, NumbersAre, LenProperties DEF Numbers
  <1>2. /\ flushed'[m] = batch /\ batch.no = m
        /\ \A i \in Numbers : flushed'[i] = flushed[i] /\ fate'[i] = fate[i]
    BY <1>1, SendShape
  <1>3. \A i \in Numbers' : i = m \/ i \in Numbers
    BY <1>1
  <1>4. Numbered'
    BY <1>2, <1>3 DEF Numbered, HoldersInv
  <1>5. QueueInv'
    <2>1. CASE /\ fate'[m] = "queued"
               /\ Len(queue') = Len(queue) + 1 /\ queue'[Len(queue) + 1] = batch
               /\ \A k \in 1..Len(queue) : queue'[k] = queue[k]
      <3>1. \A k \in 1..Len(queue') : k = Len(queue) + 1 \/ k \in 1..Len(queue)
        BY <2>1, NumbersAre
      <3>2. Len(queue) + 1 \in 1..Len(queue') /\ \A k \in 1..Len(queue) : k \in 1..Len(queue')
        BY <2>1, NumbersAre
      <3>3. \A k \in 1..Len(queue) : queue'[k] = queue[k] /\ queue[k].no \in Numbers
                                     /\ flushed[queue[k].no] = queue[k]
                                     /\ fate[queue[k].no] = "queued" /\ queue[k].no # m
        BY <1>1, <2>1 DEF HoldersInv, QueueInv, InHistory
      <3>4. \A k \in 1..Len(queue') : InHistory(queue[k])' /\ fate'[queue'[k].no] = "queued"
        BY <1>1, <1>2, <2>1, <3>1, <3>3, SMTT(30) DEF InHistory
      <3>5. \A k, l \in 1..Len(queue') : queue'[k].no = queue'[l].no => k = l
        BY <1>2, <2>1, <3>1, <3>3 DEF HoldersInv, QueueInv
      <3>6. \A i \in Numbers' : fate'[i] = "queued" => \E k \in 1..Len(queue') : queue'[k].no = i
        BY <1>2, <1>3, <2>1, <3>2, <3>3 DEF HoldersInv, QueueInv
      <3>. QED  BY <3>4, <3>5, <3>6 DEF QueueInv
    <2>2. CASE fate'[m] # "queued" /\ queue' = queue
      BY <1>1, <1>2, <1>3, <2>2, ZenonT(60) DEF HoldersInv, QueueInv, InHistory
    <2>. QED  BY <2>1, <2>2, SendShape
  <1>6. RefusedInv'
    <2>1. CASE fate'[m] = "refusing" /\ refused' = <<batch>>
      <3>1. refused'[1] = batch /\ refused' # <<>>
        BY <2>1
      <3>. QED  BY <1>1, <1>2, <1>3, <2>1, <3>1 DEF HoldersInv, RefusedInv, InHistory
    <2>2. CASE fate'[m] # "refusing" /\ refused' = <<>>
      BY <1>1, <1>2, <1>3, <2>2 DEF HoldersInv, RefusedInv
    <2>. QED  BY <2>1, <2>2, SendShape
  <1>7. fate'[m] # "in_flight"
    BY SendShape
  <1>8. InFlightInv'
    <2>1. UNCHANGED in_flight /\ (counted' <=> counted)
      OBVIOUS
    <2>2. in_flight # <<>> =>
            /\ in_flight[1].no \in Numbers
            /\ InHistory(in_flight[1])'
            /\ fate'[in_flight[1].no] = IF counted THEN "given_up" ELSE "in_flight"
      BY <1>1, <1>2, <2>1 DEF HoldersInv, InFlightInv, InHistory
    <2>. QED  BY <1>3, <1>2, <1>7, <2>1, <2>2 DEF HoldersInv, InFlightInv
  <1>9. ChannelInv'
    BY SendShape DEF HoldersInv, ChannelInv
  <1>. QED  BY <1>4, <1>5, <1>6, <1>8, <1>9 DEF HoldersInv

\* A step that changes the fate of batches the channel does not hold.
LEMMA QueueKept ==
    ASSUME TypeOK, QueueInv, UNCHANGED <<queue, flushed>>, DOMAIN fate' = DOMAIN fate,
           \A i \in Numbers : fate'[i] = "queued" <=> fate[i] = "queued"
    PROVE  QueueInv'
  BY DEF QueueInv, InHistory, Numbers

LEMMA HoldersDiscard ==
    ASSUME TypeOK, HoldersInv, DiscardRefused
    PROVE  HoldersInv'
  <1>. DEFINE k == refused[1].no
  <1>1. /\ refused # <<>> /\ refused' = <<>> /\ fate' = [fate EXCEPT ![k] = "refused"]
        /\ UNCHANGED <<channel, queue, in_flight, flushed>>
    BY NumbersAre DEF DiscardRefused
  <1>2. counted' <=> counted
    BY Zenon DEF DiscardRefused
  <1>3. k \in Numbers /\ fate[k] = "refusing"
    BY <1>1 DEF HoldersInv, RefusedInv, InHistory
  <1>4. fate'[k] = "refused" /\ \A i \in Numbers : i # k => fate'[i] = fate[i]
    BY <1>1, <1>3, FateBecomes
  <1>5. Numbers' = Numbers /\ DOMAIN fate' = DOMAIN fate
    BY <1>1, NumbersAre DEF Numbers
  <1>6. Numbered' /\ ChannelInv'
    BY <1>1 DEF HoldersInv, Numbered, ChannelInv, Numbers
  <1>7. QueueInv'
    BY <1>1, <1>3, <1>4, <1>5, QueueKept DEF HoldersInv
  <1>8. RefusedInv'
    BY <1>1, <1>4, <1>5 DEF HoldersInv, RefusedInv
  <1>9. InFlightInv'
    <2>1. in_flight # <<>> => in_flight[1].no # k
      BY <1>3 DEF HoldersInv, InFlightInv
    <2>. QED  BY <1>1, <1>2, <1>4, <1>5, <2>1 DEF HoldersInv, InFlightInv, InHistory
  <1>. QED  BY <1>6, <1>7, <1>8, <1>9 DEF HoldersInv

LEMMA HoldersReceives ==
    ASSUME TypeOK, HoldersInv, ShipperReceives
    PROVE  HoldersInv'
  <1>. DEFINE b == queue[1]
              k == queue[1].no
  <1>1. /\ queue # <<>> /\ in_flight = <<>> /\ in_flight' = <<Head(queue)>> /\ queue' = Tail(queue)
        /\ fate' = [fate EXCEPT ![Head(queue).no] = "in_flight"]
        /\ UNCHANGED <<channel, refused, flushed>>
    BY DEF ShipperReceives
  <1>2. counted' <=> counted
    BY Zenon DEF ShipperReceives
  <1>3. ~counted
    BY <1>1 DEF HoldersInv, InFlightInv
  <1>4. /\ Head(queue) = b /\ Len(queue) >= 1 /\ Len(queue') = Len(queue) - 1
        /\ \A i \in 1..(Len(queue) - 1) : queue'[i] = queue[i + 1]
    <2>1. Len(queue) >= 1
      BY <1>1, SharedFacts, EmptySeq, LenProperties
    <2>. QED  BY <1>1, <2>1, SharedFacts, HeadTailProperties
  <1>5. k \in Numbers /\ fate[k] = "queued" /\ flushed[k] = b
    BY <1>4, NumbersAre DEF HoldersInv, QueueInv, InHistory
  <1>6. fate'[k] = "in_flight" /\ \A i \in Numbers : i # k => fate'[i] = fate[i]
    <2>1. fate' = [fate EXCEPT ![k] = "in_flight"]
      BY <1>1, <1>4
    <2>. HIDE DEF k
    <2>. QED  BY <1>5, <2>1, FateExcept
  <1>7. Numbers' = Numbers
    BY <1>1 DEF Numbers
  <1>8. Numbered'
    BY <1>1, <1>7 DEF HoldersInv, Numbered
  <1>9. QueueInv'
    <2>1. \A i \in 1..Len(queue') : /\ i + 1 \in 1..Len(queue) /\ queue'[i] = queue[i + 1]
                                    /\ queue[i + 1].no # k
      <3>. SUFFICES ASSUME NEW i \in 1..Len(queue')
                    PROVE  /\ i + 1 \in 1..Len(queue) /\ queue'[i] = queue[i + 1]
                           /\ queue[i + 1].no # k
        OBVIOUS
      <3>1. i \in 1..(Len(queue) - 1) /\ i + 1 \in 1..Len(queue) /\ i + 1 # 1 /\ 1 \in 1..Len(queue)
        BY <1>4, NumbersAre
      <3>. QED  BY <1>4, <3>1 DEF HoldersInv, QueueInv
    <2>2. \A i \in 1..Len(queue') : InHistory(queue[i])' /\ fate'[queue'[i].no] = "queued"
      BY <1>1, <1>6, <1>7, <2>1 DEF HoldersInv, QueueInv, InHistory
    <2>3. \A i, l \in 1..Len(queue') : queue'[i].no = queue'[l].no => i = l
      <3>. SUFFICES ASSUME NEW i \in 1..Len(queue'), NEW l \in 1..Len(queue'),
                           queue'[i].no = queue'[l].no
                    PROVE  i = l
        OBVIOUS
      <3>1. i + 1 = l + 1
        BY <2>1 DEF HoldersInv, QueueInv
      <3>2. i \in Nat /\ l \in Nat
        BY <1>4, NumbersAre
      <3>. QED  BY <3>1, <3>2
    <2>4. ASSUME NEW i \in Numbers', fate'[i] = "queued"
          PROVE  \E j \in 1..Len(queue') : queue'[j].no = i
      <3>1. i # k /\ fate[i] = "queued"
        BY <1>6, <1>7, <2>4
      <3>2. PICK j \in 1..Len(queue) : queue[j].no = i
        BY <1>7, <3>1 DEF HoldersInv, QueueInv
      <3>3. j # 1 /\ j \in Nat /\ j - 1 \in 1..(Len(queue) - 1) /\ (j - 1) + 1 = j
        BY <1>4, <3>1, <3>2, NumbersAre
      <3>4. queue'[j - 1] = queue[j]
        BY <1>4, <3>3
      <3>. QED  BY <1>4, <3>2, <3>3, <3>4
    <2>. QED  BY <2>2, <2>3, <2>4 DEF QueueInv
  <1>10. RefusedInv'
    <2>1. refused # <<>> => refused[1].no # k
      BY <1>5 DEF HoldersInv, RefusedInv
    <2>. QED  BY <1>1, <1>6, <1>7, <2>1 DEF HoldersInv, RefusedInv, InHistory
  <1>11. InFlightInv'
    <2>1. in_flight'[1] = b /\ in_flight' # <<>>
      BY <1>1, <1>4
    <2>2. \A i \in Numbers : fate'[i] = "in_flight" => i = k
      BY <1>1, <1>6 DEF HoldersInv, InFlightInv
    <2>. QED  BY <1>1, <1>2, <1>3, <1>5, <1>6, <1>7, <2>1, <2>2 DEF InFlightInv, InHistory
  <1>12. ChannelInv'
    BY <1>1 DEF HoldersInv, ChannelInv
  <1>. QED  BY <1>8, <1>9, <1>10, <1>11, <1>12 DEF HoldersInv

LEMMA HoldersCountsDrop ==
    ASSUME TypeOK, HoldersInv, ShipperCountsDrop
    PROVE  HoldersInv'
  <1>. DEFINE k == in_flight[1].no
  <1>1. /\ in_flight # <<>> /\ fate' = [fate EXCEPT ![k] = "given_up"]
        /\ UNCHANGED <<channel, queue, refused, in_flight, flushed>>
    BY NumbersAre DEF ShipperCountsDrop
  <1>2. ~counted /\ counted'
    BY Zenon DEF ShipperCountsDrop
  <1>3. k \in Numbers /\ fate[k] = "in_flight"
    BY <1>1, <1>2 DEF HoldersInv, InFlightInv, InHistory
  <1>4. fate'[k] = "given_up" /\ \A i \in Numbers : i # k => fate'[i] = fate[i]
    BY <1>1, <1>3, FateBecomes
  <1>5. Numbers' = Numbers /\ DOMAIN fate' = DOMAIN fate
    BY <1>1, NumbersAre DEF Numbers
  <1>6. Numbered' /\ ChannelInv'
    BY <1>1 DEF HoldersInv, Numbered, ChannelInv, Numbers
  <1>7. QueueInv'
    BY <1>1, <1>3, <1>4, <1>5, QueueKept DEF HoldersInv
  <1>8. RefusedInv'
    <2>1. refused # <<>> => refused[1].no # k
      BY <1>3 DEF HoldersInv, RefusedInv
    <2>. QED  BY <1>1, <1>4, <1>5, <2>1 DEF HoldersInv, RefusedInv, InHistory
  <1>9. InFlightInv'
    BY <1>1, <1>2, <1>4, <1>5 DEF HoldersInv, InFlightInv, InHistory
  <1>. QED  BY <1>6, <1>7, <1>8, <1>9 DEF HoldersInv

LEMMA HoldersReleases ==
    ASSUME TypeOK, HoldersInv, ShipperReleases
    PROVE  HoldersInv'
  <1>. DEFINE k == in_flight[1].no
  <1>1. /\ in_flight # <<>> /\ in_flight' = <<>>
        /\ UNCHANGED <<channel, queue, refused, flushed>>
    BY DEF ShipperReleases
  <1>2. fate' = IF counted THEN fate ELSE [fate EXCEPT ![k] = "delivered"]
    BY <1>1, NumbersAre DEF ShipperReleases
  <1>3. ~counted'
    BY Zenon DEF ShipperReleases
  <1>4. k \in Numbers /\ fate[k] = IF counted THEN "given_up" ELSE "in_flight"
    BY <1>1 DEF HoldersInv, InFlightInv, InHistory
  <1>5. fate'[k] \in {"given_up", "delivered"} /\ \A i \in Numbers : i # k => fate'[i] = fate[i]
    <2>1. CASE counted
      BY <1>2, <1>4, <2>1
    <2>2. CASE ~counted
      BY <1>2, <1>4, <2>2, FateExcept
    <2>. QED  BY <2>1, <2>2
  <1>6. Numbers' = Numbers /\ DOMAIN fate' = DOMAIN fate
    BY <1>1, <1>2, NumbersAre DEF Numbers
  <1>7. Numbered' /\ ChannelInv'
    BY <1>1 DEF HoldersInv, Numbered, ChannelInv, Numbers
  <1>8. QueueInv'
    BY <1>1, <1>4, <1>5, <1>6, QueueKept DEF HoldersInv
  <1>9. RefusedInv'
    <2>1. refused # <<>> => refused[1].no # k
      BY <1>4 DEF HoldersInv, RefusedInv
    <2>. QED  BY <1>1, <1>4, <1>5, <1>6, <2>1 DEF HoldersInv, RefusedInv, InHistory
  <1>10. InFlightInv'
    <2>1. \A i \in Numbers : fate'[i] # "in_flight"
      BY <1>4, <1>5 DEF HoldersInv, InFlightInv
    <2>. QED  BY <1>1, <1>3, <1>6, <2>1 DEF InFlightInv
  <1>. QED  BY <1>7, <1>8, <1>9, <1>10 DEF HoldersInv

LEMMA HoldersPanics ==
    ASSUME TypeOK, HoldersInv, ShipperPanics
    PROVE  HoldersInv'
  <1>1. /\ channel' = "disconnected" /\ queue' = <<>> /\ in_flight' = <<>>
        /\ UNCHANGED <<refused, flushed>>
    BY DEF ShipperPanics
  <1>2. MayPanic /\ ~counted /\ ~counted'
    BY Zenon DEF ShipperPanics
  <1>3. \A i \in Numbers : fate'[i] = IF fate[i] \in {"queued", "in_flight"}
                                      THEN "lost_in_panic" ELSE fate[i]
    BY NumbersAre DEF ShipperPanics
  <1>4. Numbers' = Numbers
    BY <1>1 DEF Numbers
  <1>5. Numbered'
    BY <1>1, <1>4 DEF HoldersInv, Numbered
  <1>6. \A i \in Numbers : fate'[i] # "queued" /\ fate'[i] # "in_flight"
    BY <1>3
  <1>7. QueueInv'
    <2>1. 1..Len(queue') = {}
      BY <1>1
    <2>. QED  BY <1>4, <1>6, <2>1 DEF QueueInv
  <1>8. RefusedInv'
    BY <1>1, <1>3, <1>4 DEF HoldersInv, RefusedInv, InHistory
  <1>9. InFlightInv'
    BY <1>1, <1>2, <1>4, <1>6 DEF InFlightInv
  <1>10. ChannelInv'
    BY <1>1, <1>2 DEF ChannelInv
  <1>. QED  BY <1>5, <1>7, <1>8, <1>9, <1>10 DEF HoldersInv

\* Every step of both threads keeps it.
LEMMA HoldersStep ==
    ASSUME TypeOK, LifoCount, HoldersInv, [Next]_vars
    PROVE  HoldersInv'
  <1>1. CASE UNCHANGED <<channel, queue, refused, in_flight, counted, flushed, fate>>
    BY <1>1 DEF HoldersInv, Numbered, QueueInv, RefusedInv, InFlightInv, ChannelInv,
                InHistory, Numbers
  <1>. QED  BY <1>1, StepKinds, HoldersFlush, HoldersDiscard, HoldersReceives,
               HoldersCountsDrop, HoldersReleases, HoldersPanics

-----------------------------------------------------------------------------
(* The recorder implements HandOff.                                        *)

Statuses == {"pending", "delivered", "dropped", "lost"}
Entries == [trace : Requests, records : Nat, status : Statuses]
EntryOf(batch, what) ==
    [trace |-> batch.trace, records |-> Len(batch.calls), status |-> StatusOf(what)]

LEMMA EntryTyped ==
    ASSUME NEW batch \in Batches, NEW what
    PROVE  EntryOf(batch, what) \in Entries
  <1>1. batch.trace \in Requests /\ batch.calls \in Seq(Records)
    BY DEF Batches
  <1>2. Len(batch.calls) \in Nat
    BY <1>1, LenProperties
  <1>3. StatusOf(what) \in Statuses
    BY DEF StatusOf, Statuses
  <1>. QED  BY <1>1, <1>2, <1>3 DEF EntryOf, Entries

\* The ledger has an entry for each flushed batch.
LEMMA LedgerIs ==
    ASSUME TypeOK
    PROVE  /\ Ledger \in Seq(Entries) /\ Len(Ledger) = Len(flushed) /\ Len(flushed) \in Nat
           /\ DOMAIN Ledger = Numbers /\ Numbers = 1..Len(flushed)
           /\ \A i \in Numbers : Ledger[i] = EntryOf(flushed[i], fate[i])
  <1>1. Numbers = 1..Len(flushed) /\ Len(flushed) \in Nat
    BY NumbersAre
  <1>2. Ledger = [i \in 1..Len(flushed) |-> EntryOf(flushed[i], fate[i])]
    BY <1>1 DEF Ledger, EntryOf, Numbers
  <1>3. \A i \in 1..Len(flushed) : EntryOf(flushed[i], fate[i]) \in Entries
    BY <1>1, NumbersAre, EntryTyped
  <1>4. Ledger \in [1..Len(flushed) -> Entries]
    BY <1>2, <1>3
  <1>. QED  BY <1>1, <1>2, <1>4, FunctionIsSeq

\* The same of the next state.
LEMMA LedgerWillBe ==
    ASSUME TypeOK'
    PROVE  /\ Ledger' \in Seq(Entries) /\ Len(Ledger') = Len(flushed') /\ Len(flushed') \in Nat
           /\ DOMAIN Ledger' = Numbers' /\ Numbers' = 1..Len(flushed')
           /\ \A i \in Numbers' : Ledger'[i] = EntryOf(flushed'[i], fate'[i])
  <1>0. flushed' \in Seq(Batches)
    BY DEF TypeOK, SharedTypeOK
  <1>1. Numbers' = 1..Len(flushed') /\ Len(flushed') \in Nat
    BY <1>0, LenProperties DEF Numbers
  <1>2. Ledger' = [i \in 1..Len(flushed') |-> EntryOf(flushed'[i], fate'[i])]
    BY <1>1 DEF Ledger, EntryOf, Numbers
  <1>3. \A i \in 1..Len(flushed') : EntryOf(flushed'[i], fate'[i]) \in Entries
    BY <1>0, ElementOfSeq, EntryTyped
  <1>4. Ledger' \in [1..Len(flushed') -> Entries]
    BY <1>2, <1>3
  <1>. QED  BY <1>1, <1>2, <1>4, FunctionIsSeq

\* A step that decides nothing leaves the ledger alone.
LEMMA LedgerKept ==
    ASSUME TypeOK, TypeOK', UNCHANGED flushed,
           \A i \in Numbers : StatusOf(fate'[i]) = StatusOf(fate[i])
    PROVE  Ledger' = Ledger
  <1>1. Numbers' = Numbers /\ \A i \in Numbers : Ledger'[i] = Ledger[i]
    BY LedgerIs, LedgerWillBe DEF EntryOf, Numbers
  <1>. QED  BY <1>1, LedgerIs, LedgerWillBe, SameSequence

\* The entry of one pending batch is decided.
LEMMA OneDecided ==
    ASSUME TypeOK, TypeOK', UNCHANGED flushed, NEW k \in Numbers,
           fate[k] \in {"refusing", "in_flight"},
           \A i \in Numbers : i # k => fate'[i] = fate[i],
           \/ fate'[k] = "delivered" /\ UNCHANGED drop_counter
           \/ /\ fate'[k] \in {"refused", "given_up"}
              /\ drop_counter' = [drop_counter EXCEPT ![flushed[k].trace] =
                                        @ + Len(flushed[k].calls)]
    PROVE  H!Next
  <1>. DEFINE x == StatusOf(fate'[k])
              L == [Ledger EXCEPT ![k].status = x]
              e == EntryOf(flushed[k], fate'[k])
  <1>1. k \in DOMAIN Ledger /\ Ledger[k] = EntryOf(flushed[k], fate[k]) /\ Numbers' = Numbers
    BY LedgerIs DEF Numbers
  <1>2. /\ Ledger[k].status = "pending" /\ Ledger[k].trace = flushed[k].trace
        /\ Ledger[k].records = Len(flushed[k].calls)
    BY <1>1 DEF EntryOf, StatusOf
  <1>3. Ledger' = L
    <2>1. e \in Entries /\ e = [Ledger[k] EXCEPT !.status = x]
      BY <1>1, NumbersAre, EntryTyped DEF EntryOf
    <2>2. L = [Ledger EXCEPT ![k] = e]
      BY <2>1
    <2>. HIDE DEF L, e
    <2>3. L \in Seq(Entries) /\ Len(L) = Len(Ledger)
      BY <2>1, <2>2, LedgerIs, ExceptProperties
    <2>4. L[k] = e /\ \A i \in Numbers : i # k => L[i] = Ledger[i]
      BY <1>1, <2>2, LedgerIs
    <2>5. \A i \in Numbers : Ledger'[i] = L[i]
      BY <1>1, <2>4, LedgerIs, LedgerWillBe DEF e
    <2>. QED  BY <1>1, <2>3, <2>5, LedgerIs, LedgerWillBe, SameSequence
  <1>4. CASE fate'[k] = "delivered" /\ UNCHANGED drop_counter
    <2>1. x = "delivered"
      BY <1>4 DEF StatusOf
    <2>. QED  BY <1>1, <1>2, <1>3, <1>4, <2>1 DEF H!Next, H!Deliver
  <1>5. CASE /\ fate'[k] \in {"refused", "given_up"}
             /\ drop_counter' = [drop_counter EXCEPT ![flushed[k].trace] =
                                        @ + Len(flushed[k].calls)]
    <2>1. x = "dropped"
      BY <1>5 DEF StatusOf
    <2>. QED  BY <1>1, <1>2, <1>3, <1>5, <2>1 DEF H!Next, H!Drop
  <1>. QED  BY <1>4, <1>5

\* A flush enters the batch.
LEMMA FlushEnters ==
    ASSUME TypeOK, TypeOK', HoldersInv, NEW batch \in Batches, NEW bytes \in Int,
           refused = <<>>, TrySendBatch(batch, bytes), UNCHANGED drop_counter
    PROVE  H!Next
  <1>. DEFINE m == Len(flushed) + 1
              e == EntryOf(batch, fate'[m])
  <1>1. /\ Len(Ledger) = Len(flushed) /\ Len(flushed) \in Nat /\ Len(Ledger') = m
        /\ m \in Numbers' /\ Numbers' = 1..m /\ Numbers = 1..Len(flushed)
    <2>1. Len(flushed') = m
      BY SendShape
    <2>2. Len(Ledger) = Len(flushed) /\ Len(flushed) \in Nat /\ Numbers = 1..Len(flushed)
      BY LedgerIs
    <2>3. Len(Ledger') = m /\ Numbers' = 1..m
      BY <2>1, LedgerWillBe
    <2>. QED  BY <2>2, <2>3
  <1>2. Ledger'[m] = e /\ e \in Entries /\ e.status = StatusOf(fate'[m])
    BY <1>1, SendShape, LedgerWillBe, EntryTyped DEF EntryOf
  <1>. HIDE DEF e
  <1>3. Last(Ledger') = e
    BY <1>1, <1>2 DEF Last
  <1>4. Ledger' = Append(Ledger, e)
    <2>. DEFINE A == Append(Ledger, e)
    <2>1. /\ A \in Seq(Entries) /\ Len(A) = m /\ A[m] = e
          /\ \A i \in 1..Len(flushed) : A[i] = Ledger[i]
      <3>1. /\ Ledger \in Seq(Entries) /\ Len(Ledger) = Len(flushed)
            /\ Len(flushed) \in Nat /\ m = Len(flushed) + 1
        BY <1>1, LedgerIs
      <3>. HIDE DEF m
      <3>2. PICK s \in Seq(Entries) : s = Ledger
        BY <3>1
      <3>. QED  BY <1>2, <3>1, <3>2, AppendProperties
    <2>. HIDE DEF A
    <2>2. \A i \in 1..Len(flushed) : Ledger'[i] = Ledger[i]
      <3>. TAKE i \in 1..Len(flushed)
      <3>1. i \in Numbers /\ i \in Numbers'
        BY <1>1
      <3>2. flushed'[i] = flushed[i] /\ fate'[i] = fate[i]
        BY <3>1, SendShape
      <3>3. Ledger[i] = EntryOf(flushed[i], fate[i])
        BY <3>1, LedgerIs
      <3>4. Ledger'[i] = EntryOf(flushed'[i], fate'[i])
        BY <3>1, LedgerWillBe
      <3>. QED  BY <3>2, <3>3, <3>4 DEF EntryOf
    <2>3. \A i \in 1..m : Ledger'[i] = A[i]
      BY <1>1, <1>2, <2>1, <2>2
    <2>. QED  BY <1>1, <2>1, <2>3, LedgerWillBe, SameSequence DEF A
  <1>5. ASSUME NEW status, e.status = status
        PROVE  H!Enter(status)
    <2>1. Len(Ledger') = Len(Ledger) + 1 /\ Ledger' = Append(Ledger, Last(Ledger'))
      BY <1>1, <1>3, <1>4
    <2>2. Last(Ledger') \in [trace : Requests, records : Nat, status : {status}]
      BY <1>2, <1>3, <1>5 DEF Entries
    <2>. QED  BY <2>1, <2>2 DEF H!Enter, H!Last, Last
  <1>6. CASE fate'[m] \in {"queued", "refusing"}
    <2>1. StatusOf(fate'[m]) = "pending"
      BY <1>6 DEF StatusOf
    <2>. QED  BY <1>2, <1>5, <2>1 DEF H!Next, H!Flush
  <1>7. CASE channel # "open" /\ fate'[m] = "unsent"
    <2>1. StatusOf(fate'[m]) = "lost"
      BY <1>7 DEF StatusOf
    <2>2. MayPanic \/ "no_sender" \in SpawnOutcomes
      BY <1>7, SharedFacts, Zenon DEF HoldersInv, ChannelInv, Channels
    <2>. QED  BY <1>2, <1>5, <2>1, <2>2, Zenon DEF H!Next, H!FlushUnsent
  <1>. QED  BY <1>6, <1>7, SendShape

\* A panic loses what the thread and the channel hold.
LEMMA PanicLoses ==
    ASSUME TypeOK, TypeOK', ShipperPanics
    PROVE  H!Next
  <1>. DEFINE dead == {i \in Numbers : fate[i] \in {"queued", "in_flight"}}
  <1>1. UNCHANGED <<flushed, drop_counter>> /\ Numbers' = Numbers
    BY DEF ShipperPanics, Numbers
  <1>2. MayPanic
    BY Zenon DEF ShipperPanics
  <1>3. \A i \in Numbers : fate'[i] = IF i \in dead THEN "lost_in_panic" ELSE fate[i]
    BY NumbersAre DEF ShipperPanics
  <1>4. \A i \in Numbers : /\ Ledger[i] = EntryOf(flushed[i], fate[i])
                           /\ Ledger'[i] = EntryOf(flushed[i], fate'[i])
    BY <1>1, LedgerIs, LedgerWillBe
  <1>5. \A i \in dead : Ledger[i].status = "pending"
    <2>. TAKE i \in dead
    <2>1. StatusOf(fate[i]) = "pending" /\ i \in Numbers
      BY DEF StatusOf
    <2>2. Ledger[i] = EntryOf(flushed[i], fate[i])
      BY <1>4, <2>1
    <2>. QED  BY <2>1, <2>2 DEF EntryOf
  <1>6. \A i \in Numbers : Ledger'[i] = IF i \in dead THEN [Ledger[i] EXCEPT !.status = "lost"]
                                        ELSE Ledger[i]
    <2>. TAKE i \in Numbers
    <2>1. CASE i \in dead
      <3>1. StatusOf(fate'[i]) = "lost"
        BY <1>3, <2>1 DEF StatusOf
      <3>2. Ledger[i] = EntryOf(flushed[i], fate[i]) /\ Ledger'[i] = EntryOf(flushed[i], fate'[i])
        BY <1>4
      <3>. QED  BY <2>1, <3>1, <3>2 DEF EntryOf
    <2>2. CASE i \notin dead
      BY <1>3, <1>4, <2>2 DEF EntryOf
    <2>. QED  BY <2>1, <2>2
  <1>7. Ledger' = [i \in DOMAIN Ledger |-> IF i \in dead
                                           THEN [Ledger[i] EXCEPT !.status = "lost"]
                                           ELSE Ledger[i]]
    <2>1. Ledger' = [i \in Numbers |-> Ledger'[i]] /\ DOMAIN Ledger = Numbers
      BY <1>1, LedgerIs, LedgerWillBe, LenProperties, IsASeq
    <2>. QED  BY <1>6, <2>1
  <1>8. dead \in SUBSET DOMAIN Ledger
    BY LedgerIs
  <1>9. \E d \in SUBSET DOMAIN Ledger : H!Die(d)
    <2>1. UNCHANGED drop_counter
      BY <1>1
    <2>. HIDE DEF dead
    <2>. QED  BY <1>2, <1>5, <1>7, <1>8, <2>1, Zenon DEF H!Die
  <1>. QED  BY <1>9 DEF H!Next

\* A gate counts one call.
LEMMA GateCounts ==
    ASSUME TypeOK, TypeOK', NEW fn \in Functions, EngineBegins(fn), RecordDrop
    PROVE  H!Next
  <1>1. request \in Requests
    BY TypeEngineBegins
  <1>2. drop_counter' = [drop_counter EXCEPT ![request] = @ + 1]
    BY DEF RecordDrop
  <1>3. UNCHANGED <<flushed, fate>>
    BY DEF EngineBegins
  <1>4. Ledger' = Ledger
    BY <1>3, LedgerKept
  <1>. QED  BY <1>1, <1>2, <1>4 DEF H!Next, H!GateDrop

\* Each action is a step of the hand-off, or not seen by it.
LEMMA HandOffStep ==
    ASSUME TypeOK, TypeOK', LifoCount, HoldersInv, [Next]_vars
    PROVE  [H!Next]_(H!ledger_vars)
  <1>1. ASSUME UNCHANGED <<flushed, fate, drop_counter>>
        PROVE  UNCHANGED H!ledger_vars
    BY <1>1, LedgerKept DEF H!ledger_vars
  <1>2. CASE RInit
    BY <1>1, <1>2 DEF RInit, shared_vars
  <1>3. CASE Begin
    <2>1. PICK fn \in Functions :
            BeginDroppedByDepth(fn) \/ BeginDroppedByCap(fn) \/ BeginAccepted(fn)
      BY <1>3 DEF Begin
    <2>2. CASE BeginDroppedByDepth(fn) \/ BeginDroppedByCap(fn)
      BY <2>2, GateCounts DEF BeginDroppedByDepth, BeginDroppedByCap
    <2>3. CASE BeginAccepted(fn)
      BY <1>1, <2>3 DEF BeginAccepted, EngineBegins
    <2>. QED  BY <2>1, <2>2, <2>3
  <1>4. CASE EndOfDroppedBegin
    BY <1>1, <1>4 DEF EndOfDroppedBegin, EngineEnds
  <1>5. ASSUME NEW threw \in Throws, EndAccepted(threw)
        PROVE  [H!Next]_(H!ledger_vars)
    <2>1. UNCHANGED drop_counter
      BY <1>5, Zenon DEF EndAccepted, EngineEnds
    <2>. QED  BY <1>1, <1>5, <2>1, EndCases, FlushEnters
  <1>6. CASE RShutdown
    <2>1. UNCHANGED drop_counter
      BY <1>6, ShutdownCases
    <2>. QED  BY <1>1, <1>6, <2>1, ShutdownCases, FlushEnters
  <1>7. CASE DiscardRefused
    <2>. DEFINE k == refused[1].no
    <2>1. /\ refused # <<>> /\ fate' = [fate EXCEPT ![k] = "refused"]
          /\ drop_counter' = [drop_counter EXCEPT ![refused[1].trace] = @ + Len(refused[1].calls)]
          /\ UNCHANGED flushed
      BY <1>7, NumbersAre DEF DiscardRefused
    <2>2. k \in Numbers /\ fate[k] = "refusing" /\ flushed[k] = refused[1]
      BY <2>1 DEF HoldersInv, RefusedInv, InHistory
    <2>. HIDE DEF k
    <2>3. fate'[k] = "refused" /\ \A i \in Numbers : i # k => fate'[i] = fate[i]
      <3>1. k \in Numbers /\ fate' = [fate EXCEPT ![k] = "refused"]
        BY <2>1, <2>2
      <3>. QED  BY <3>1, FateExcept
    <2>4. drop_counter' = [drop_counter EXCEPT ![flushed[k].trace] = @ + Len(flushed[k].calls)]
      BY <2>1, <2>2
    <2>5. UNCHANGED flushed
      BY <2>1
    <2>. QED  BY <2>2, <2>3, <2>4, <2>5, OneDecided
  <1>8. CASE ShipperReceives
    <2>. DEFINE k == queue[1].no
    <2>1. /\ queue # <<>> /\ Head(queue) = queue[1] /\ 1 \in 1..Len(queue)
          /\ UNCHANGED <<flushed, drop_counter>>
      <3>1. queue # <<>> /\ UNCHANGED <<flushed, drop_counter>>
        BY <1>8 DEF ShipperReceives
      <3>. QED  BY <3>1, SharedFacts, EmptySeq, LenProperties, HeadTailProperties
    <2>2. fate' = [fate EXCEPT ![k] = "in_flight"]
      BY <1>8, <2>1 DEF ShipperReceives
    <2>3. k \in Numbers /\ fate[k] = "queued"
      BY <2>1 DEF HoldersInv, QueueInv, InHistory
    <2>. HIDE DEF k
    <2>4. fate'[k] = "in_flight" /\ \A i \in Numbers : i # k => fate'[i] = fate[i]
      BY <2>2, <2>3, FateExcept
    <2>5. \A i \in Numbers : StatusOf(fate'[i]) = StatusOf(fate[i])
      BY <2>3, <2>4 DEF StatusOf
    <2>. QED  BY <2>1, <2>5, LedgerKept DEF H!ledger_vars
  <1>9. CASE ShipperCountsDrop
    <2>. DEFINE k == in_flight[1].no
    <2>1. /\ in_flight # <<>> /\ fate' = [fate EXCEPT ![k] = "given_up"]
          /\ drop_counter' = [drop_counter EXCEPT ![in_flight[1].trace] =
                                    @ + Len(in_flight[1].calls)]
          /\ UNCHANGED flushed
      BY <1>9, NumbersAre DEF ShipperCountsDrop
    <2>2. ~counted
      BY <1>9, Zenon DEF ShipperCountsDrop
    <2>3. k \in Numbers /\ fate[k] = "in_flight" /\ flushed[k] = in_flight[1]
      BY <2>1, <2>2 DEF HoldersInv, InFlightInv, InHistory
    <2>. HIDE DEF k
    <2>4. fate'[k] = "given_up" /\ \A i \in Numbers : i # k => fate'[i] = fate[i]
      <3>1. k \in Numbers /\ fate' = [fate EXCEPT ![k] = "given_up"]
        BY <2>1, <2>3
      <3>. QED  BY <3>1, FateExcept
    <2>5. drop_counter' = [drop_counter EXCEPT ![flushed[k].trace] = @ + Len(flushed[k].calls)]
      BY <2>1, <2>3
    <2>6. UNCHANGED flushed
      BY <2>1
    <2>. QED  BY <2>3, <2>4, <2>5, <2>6, OneDecided
  <1>10. CASE ShipperReleases
    <2>. DEFINE k == in_flight[1].no
    <2>1. in_flight # <<>> /\ UNCHANGED <<flushed, drop_counter>>
      BY <1>10 DEF ShipperReleases
    <2>2. fate' = IF counted THEN fate ELSE [fate EXCEPT ![k] = "delivered"]
      BY <1>10, <2>1, NumbersAre DEF ShipperReleases
    <2>3. CASE counted
      BY <1>1, <2>1, <2>2, <2>3
    <2>4. CASE ~counted
      <3>1. k \in Numbers /\ fate[k] = "in_flight"
        BY <2>1, <2>4 DEF HoldersInv, InFlightInv, InHistory
      <3>2. fate'[k] = "delivered" /\ \A i \in Numbers : i # k => fate'[i] = fate[i]
        BY <2>2, <2>4, <3>1, FateExcept
      <3>. QED  BY <2>1, <3>1, <3>2, OneDecided
    <2>. QED  BY <2>3, <2>4
  <1>11. CASE ShipperPanics
    BY <1>11, PanicLoses
  <1>12. CASE UNCHANGED vars
    BY <1>1, <1>12 DEF vars, shared_vars
  <1>. QED  BY <1>2, <1>3, <1>4, <1>5, <1>6, <1>7, <1>8, <1>9, <1>10, <1>11, <1>12
            DEF Next, RequestThread, Shipper, End

\* What the theorems of this module rest on.
LEMMA HoldersAlways == Spec => [](TypeOK /\ StackInv /\ HoldersInv)
  <1>1. Init => StackInv /\ HoldersInv
    BY StackInit, HoldersInit
  <1>2. TypeOK /\ StackInv /\ HoldersInv /\ [Next]_vars => StackInv' /\ HoldersInv'
    BY StackStep, HoldersStep DEF StackInv
  <1>. QED  BY <1>1, <1>2, TypeCorrect, PTL DEF Spec

\* Whatever the gates, the channel and the shipper do, each batch leaves once,
\* delivered, counted as dropped, or lost for want of a shipper, and each call
\* a gate drops is counted in its own step: the recorder implements HandOff.
THEOREM Refinement == Spec => ImplementsHandOff
  <1>1. Init => H!Init
    <2>. SUFFICES ASSUME Init
                  PROVE  H!Init
      OBVIOUS
    <2>1. Ledger = <<>>
      BY TypeInit, LedgerIs, EmptySeq DEF Init
    <2>. QED  BY <2>1 DEF Init, H!Init
  <1>2. TypeOK /\ TypeOK' /\ StackInv /\ HoldersInv /\ [Next]_vars
            => [H!Next]_(H!ledger_vars)
    BY HandOffStep DEF StackInv
  <1>. QED  BY <1>1, <1>2, HoldersAlways, PTL DEF Spec, H!Spec, ImplementsHandOff

-----------------------------------------------------------------------------
(* The two ledgers.  Sums over the history, as totals of its weights.      *)

SizesOf(h) == [i \in DOMAIN h |-> h[i].size_estimate]
CallCountsOf(h) == [i \in DOMAIN h |-> Len(h[i].calls)]

\* The weights of a history, one per batch.
LEMMA WeightsAre ==
    ASSUME NEW h \in Seq(Batches)
    PROVE  /\ Len(h) \in Nat
           /\ SizesOf(h) \in Seq(Nat) /\ Len(SizesOf(h)) = Len(h)
           /\ CallCountsOf(h) \in Seq(Nat) /\ Len(CallCountsOf(h)) = Len(h)
           /\ \A i \in 1..Len(h) :
                /\ SizesOf(h)[i] = h[i].size_estimate /\ h[i].size_estimate \in Nat
                /\ CallCountsOf(h)[i] = Len(h[i].calls) /\ Len(h[i].calls) \in Nat
  <1>1. Len(h) \in Nat /\ DOMAIN h = 1..Len(h)
    BY LenProperties
  <1>2. \A i \in 1..Len(h) : h[i].size_estimate \in Nat /\ Len(h[i].calls) \in Nat
    <2>. TAKE i \in 1..Len(h)
    <2>1. h[i] \in Batches
      BY ElementOfSeq
    <2>2. h[i].size_estimate \in Nat /\ h[i].calls \in Seq(Records)
      BY <2>1 DEF Batches
    <2>. QED  BY <2>2, LenProperties
  <1>3. SizesOf(h) \in [1..Len(h) -> Nat] /\ CallCountsOf(h) \in [1..Len(h) -> Nat]
    BY <1>1, <1>2 DEF SizesOf, CallCountsOf
  <1>. QED  BY <1>1, <1>2, <1>3, FunctionIsSeq DEF SizesOf, CallCountsOf

\* The weights of a history that grows by a batch.
LEMMA WeightsGrow ==
    ASSUME NEW h \in Seq(Batches), NEW g \in Seq(Batches), Len(g) = Len(h) + 1,
           \A i \in 1..Len(h) : g[i] = h[i]
    PROVE  LET b == g[Len(h) + 1]
           IN /\ b.size_estimate \in Nat /\ Len(b.calls) \in Nat
              /\ SizesOf(g) = Append(SizesOf(h), b.size_estimate)
              /\ CallCountsOf(g) = Append(CallCountsOf(h), Len(b.calls))
  <1>. DEFINE m == Len(h) + 1
              b == g[m]
  <1>1. Len(h) \in Nat /\ m \in 1..Len(g) /\ Len(g) = m
    BY WeightsAre
  <1>2. b.size_estimate \in Nat /\ Len(b.calls) \in Nat
    BY <1>1, WeightsAre
  <1>3. ASSUME NEW v \in Seq(Nat), NEW w \in Seq(Nat), NEW e \in Nat,
               Len(v) = Len(h), Len(w) = m, w[m] = e, \A i \in 1..Len(h) : w[i] = v[i]
        PROVE  w = Append(v, e)
    <2>1. /\ Append(v, e) \in Seq(Nat) /\ Len(Append(v, e)) = m /\ Append(v, e)[m] = e
          /\ \A i \in 1..Len(h) : Append(v, e)[i] = v[i]
      BY <1>3, AppendProperties
    <2>2. \A i \in 1..m : w[i] = Append(v, e)[i]
      <3>. TAKE i \in 1..m
      <3>1. i \in 1..Len(h) \/ i = m
        BY <1>1
      <3>. QED  BY <1>3, <2>1, <3>1
    <2>. QED  BY <1>3, <2>1, <2>2, SameSequence
  <1>4. \A i \in 1..Len(h) : /\ SizesOf(g)[i] = SizesOf(h)[i]
                             /\ CallCountsOf(g)[i] = CallCountsOf(h)[i]
    <2>. TAKE i \in 1..Len(h)
    <2>1. i \in 1..Len(g) /\ g[i] = h[i]
      BY <1>1
    <2>2. SizesOf(h)[i] = h[i].size_estimate /\ CallCountsOf(h)[i] = Len(h[i].calls)
      BY WeightsAre
    <2>3. SizesOf(g)[i] = g[i].size_estimate /\ CallCountsOf(g)[i] = Len(g[i].calls)
      BY <2>1, WeightsAre
    <2>. QED  BY <2>1, <2>2, <2>3
  <1>5. SizesOf(g)[m] = b.size_estimate /\ CallCountsOf(g)[m] = Len(b.calls)
    BY <1>1, WeightsAre
  <1>. QED  BY <1>1, <1>2, <1>3, <1>4, <1>5, WeightsAre

LEMMA LedgersAre ==
    /\ \A A : BytesOf(A) = TotalIn(SizesOf(flushed), A)
    /\ \A A : CallsIn(A) = TotalIn(CallCountsOf(flushed), A)
    /\ \A A : BytesOf(A)' = TotalIn(SizesOf(flushed'), A)
    /\ \A A : CallsIn(A)' = TotalIn(CallCountsOf(flushed'), A)
  BY DEF BytesOf, CallsIn, SizesOf, CallCountsOf

-----------------------------------------------------------------------------
(* The memory budget.                                                      *)

\* What a dictionary's entries are billed for.
CostsOf(dict) == [k \in DOMAIN dict |-> DICT_ENTRY_FIXED_BYTES + NameBytes[dict[k].fn]]

LEMMA CostsAre ==
    ASSUME NEW dict \in Seq(DictEntries)
    PROVE  /\ CostsOf(dict) \in Seq(Nat) /\ CostsOf(dict) \in Seq(Int)
           /\ Len(CostsOf(dict)) = Len(dict)
           /\ Len(dict) \in Nat
           /\ \A k \in 1..Len(dict) :
                CostsOf(dict)[k] = DICT_ENTRY_FIXED_BYTES + NameBytes[dict[k].fn]
  <1>1. Len(dict) \in Nat /\ DOMAIN dict = 1..Len(dict)
    BY LenProperties
  <1>2. \A k \in 1..Len(dict) : DICT_ENTRY_FIXED_BYTES + NameBytes[dict[k].fn] \in Nat
    <2>. TAKE k \in 1..Len(dict)
    <2>1. dict[k] \in DictEntries
      BY ElementOfSeq
    <2>2. dict[k].fn \in Functions
      BY <2>1 DEF DictEntries
    <2>3. NameBytes[dict[k].fn] \in Nat
      BY <2>2, ConfigFacts
    <2>. QED  BY <2>3 DEF DICT_ENTRY_FIXED_BYTES
  <1>3. CostsOf(dict) \in [1..Len(dict) -> Nat] /\ CostsOf(dict) \in [1..Len(dict) -> Int]
    BY <1>1, <1>2 DEF CostsOf
  <1>. QED  BY <1>1, <1>3, FunctionIsSeq DEF CostsOf

\* An estimate is a natural number, and zero of nothing.
LEMMA EstimateIsNat ==
    ASSUME NEW dict \in Seq(DictEntries), NEW calls \in Seq(Records)
    PROVE  /\ EstimateOf(dict, calls) = CALL_RECORD_FIXED_BYTES * Len(calls) + Total(CostsOf(dict))
           /\ Total(CostsOf(dict)) \in Nat /\ Len(calls) \in Nat
           /\ Len(dict) = 0 => Total(CostsOf(dict)) = 0
  <1>1. Total(CostsOf(dict)) \in Nat /\ Len(calls) \in Nat
    BY CostsAre, TotalIsNat, LenProperties
  <1>2. Len(dict) = 0 => Total(CostsOf(dict)) = 0
    <2>. SUFFICES ASSUME Len(dict) = 0
                  PROVE  Total(CostsOf(dict)) = 0
      OBVIOUS
    <2>1. Len(CostsOf(dict)) = 0 /\ CostsOf(dict) \in Seq(Int)
      BY CostsAre
    <2>2. \A k \in 1..Len(CostsOf(dict)) : FALSE
      BY <2>1
    <2>. QED  BY <2>1, <2>2, TotalZero
  <1>3. EstimateOf(dict, calls) = Len(calls) * CALL_RECORD_FIXED_BYTES + Total(CostsOf(dict))
    BY DEF EstimateOf, CostsOf
  <1>. QED  BY <1>1, <1>2, <1>3 DEF CALL_RECORD_FIXED_BYTES

\* Staging an entry bills its cost.
LEMMA EstimateOfEntry ==
    ASSUME NEW dict \in Seq(DictEntries), NEW calls \in Seq(Records), NEW e \in DictEntries
    PROVE  EstimateOf(Append(dict, e), calls)
                = EstimateOf(dict, calls) + DICT_ENTRY_FIXED_BYTES + NameBytes[e.fn]
  <1>. DEFINE d == Append(dict, e)
              c == DICT_ENTRY_FIXED_BYTES + NameBytes[e.fn]
  <1>0. /\ Len(dict) \in Nat
        /\ \A k \in 1..Len(dict) :
                CostsOf(dict)[k] = DICT_ENTRY_FIXED_BYTES + NameBytes[dict[k].fn]
    BY CostsAre
  <1>1. e.fn \in Functions /\ c \in Nat
    BY ConfigFacts DEF DictEntries, DICT_ENTRY_FIXED_BYTES
  <1>2. /\ d \in Seq(DictEntries) /\ Len(d) = Len(dict) + 1 /\ d[Len(dict) + 1] = e
        /\ \A k \in 1..Len(dict) : d[k] = dict[k]
    BY AppendProperties
  <1>. HIDE DEF d
  <1>3. CostsOf(d) = Append(CostsOf(dict), c)
    <2>. DEFINE v == Append(CostsOf(dict), c)
    <2>1. /\ v \in Seq(Nat) /\ Len(v) = Len(dict) + 1 /\ v[Len(dict) + 1] = c
          /\ \A k \in 1..Len(dict) : v[k] = CostsOf(dict)[k]
      BY <1>1, CostsAre, AppendProperties
    <2>. HIDE DEF v
    <2>2. \A k \in 1..(Len(dict) + 1) : CostsOf(d)[k] = v[k]
      <3>. TAKE k \in 1..(Len(dict) + 1)
      <3>1. CostsOf(d)[k] = DICT_ENTRY_FIXED_BYTES + NameBytes[d[k].fn]
        BY <1>2, CostsAre
      <3>2. k \in 1..Len(dict) \/ k = Len(dict) + 1
        BY <1>0
      <3>. QED  BY <1>0, <1>2, <2>1, <3>1, <3>2
    <2>3. CostsOf(d) \in Seq(Nat) /\ Len(CostsOf(d)) = Len(v)
      BY <1>2, <2>1, CostsAre
    <2>4. \A k \in 1..Len(CostsOf(d)) : CostsOf(d)[k] = v[k]
      BY <1>2, <2>1, <2>2, <2>3
    <2>5. CostsOf(d) = v
      BY <2>1, <2>3, <2>4, SameSequence
    <2>. QED  BY <2>5 DEF v
  <1>4. Total(Append(CostsOf(dict), c)) = Total(CostsOf(dict)) + c
    BY <1>1, CostsAre, TotalAppend
  <1>. HIDE DEF c
  <1>5. EstimateOf(d, calls) = EstimateOf(dict, calls) + c
    <2>1. /\ EstimateOf(d, calls) = CALL_RECORD_FIXED_BYTES * Len(calls) + Total(CostsOf(d))
          /\ EstimateOf(dict, calls) = CALL_RECORD_FIXED_BYTES * Len(calls) + Total(CostsOf(dict))
          /\ Total(CostsOf(dict)) \in Nat /\ Len(calls) \in Nat
      BY <1>2, EstimateIsNat
    <2>2. Total(CostsOf(d)) = Total(CostsOf(dict)) + c
      BY <1>3, <1>4
    <2>. QED  BY <1>1, <2>1, <2>2 DEF CALL_RECORD_FIXED_BYTES
  <1>6. EstimateOf(dict, calls) \in Nat /\ NameBytes[e.fn] \in Nat
    <2>1. /\ EstimateOf(dict, calls) = CALL_RECORD_FIXED_BYTES * Len(calls) + Total(CostsOf(dict))
          /\ Total(CostsOf(dict)) \in Nat /\ Len(calls) \in Nat
      BY EstimateIsNat
    <2>2. NameBytes[e.fn] \in Nat
      BY <1>1, ConfigFacts
    <2>. QED  BY <2>1, <2>2 DEF CALL_RECORD_FIXED_BYTES
  <1>7. EstimateOf(dict, calls) + c
            = EstimateOf(dict, calls) + DICT_ENTRY_FIXED_BYTES + NameBytes[e.fn]
    <2>1. \A x, y \in Nat : x + (DICT_ENTRY_FIXED_BYTES + y) = x + DICT_ENTRY_FIXED_BYTES + y
      BY DEF DICT_ENTRY_FIXED_BYTES
    <2>. QED  BY <1>6, <2>1, Zenon DEF c
  <1>. QED  BY <1>5, <1>7 DEF d

\* Of nothing, nothing.
LEMMA NothingCosts == EstimateOf(<<>>, <<>>) = 0
  <1>1. <<>> \in Seq(DictEntries) /\ <<>> \in Seq(Records) /\ Len(<<>>) = 0
    OBVIOUS
  <1>2. /\ EstimateOf(<<>>, <<>>) = CALL_RECORD_FIXED_BYTES * Len(<<>>) + Total(CostsOf(<<>>))
        /\ Total(CostsOf(<<>>)) = 0
    BY <1>1, EstimateIsNat
  <1>. QED  BY <1>1, <1>2 DEF CALL_RECORD_FIXED_BYTES

\* Records more cost 64 bytes each.
LEMMA EstimateOfCalls ==
    ASSUME NEW dict \in Seq(DictEntries), NEW old \in Seq(Records), NEW new \in Seq(Records),
           NEW n \in Nat, Len(new) = Len(old) + n
    PROVE  EstimateOf(dict, new) = EstimateOf(dict, old) + CALL_RECORD_FIXED_BYTES * n
  <1>1. EstimateOf(dict, new) = CALL_RECORD_FIXED_BYTES * Len(new) + Total(CostsOf(dict))
    BY EstimateIsNat
  <1>2. /\ EstimateOf(dict, old) = CALL_RECORD_FIXED_BYTES * Len(old) + Total(CostsOf(dict))
        /\ Total(CostsOf(dict)) \in Nat /\ Len(old) \in Nat
    BY EstimateIsNat
  <1>. QED  BY <1>1, <1>2 DEF CALL_RECORD_FIXED_BYTES

\* The estimates of the buffer and of every batch are exact.
EstimatesExact ==
    /\ buffer_estimated_bytes = EstimateOf(new_entries, buffer)
    /\ \A i \in Numbers : flushed[i].size_estimate = EstimateOf(flushed[i].dict, flushed[i].calls)

\* The batches the budget is billed for.
Billed == Held \cup {i \in DOMAIN flushed : fate[i] = "lost_in_panic"}

BytesExact == bytes_in_memory = buffer_estimated_bytes + BytesOf(Billed)

LEMMA BalanceParts ==
    BudgetBalanced <=> EstimatesExact /\ BytesExact
  BY DEF BudgetBalanced, EstimatesExact, BytesExact, Billed, Numbers

\* Who holds a batch, by its fate.
BilledByFate ==
    \A i \in Numbers :
        i \in Billed <=> \/ fate[i] \in {"queued", "refusing", "in_flight", "lost_in_panic"}
                         \/ counted /\ in_flight[1].no = i

LEMMA BilledNow == TypeOK /\ HoldersInv => BilledByFate
  <1>. SUFFICES ASSUME TypeOK, HoldersInv, NEW i \in Numbers
                PROVE  i \in Billed <=>
                            \/ fate[i] \in {"queued", "refusing", "in_flight", "lost_in_panic"}
                            \/ counted /\ in_flight[1].no = i
    BY DEF BilledByFate
  <1>1. i \in Held <=> \/ \E k \in 1..Len(queue) : queue[k].no = i
                       \/ refused # <<>> /\ refused[1].no = i
                       \/ in_flight # <<>> /\ in_flight[1].no = i
    <2>1. /\ ToSet(queue) = {queue[k] : k \in 1..Len(queue)}
          /\ ToSet(refused) = {refused[k] : k \in 1..Len(refused)}
          /\ ToSet(in_flight) = {in_flight[k] : k \in 1..Len(in_flight)}
      BY SharedFacts, LenProperties DEF ToSet
    <2>2. /\ refused # <<>> => 1..Len(refused) = {1}
          /\ refused = <<>> => 1..Len(refused) = {}
          /\ in_flight # <<>> => 1..Len(in_flight) = {1}
          /\ in_flight = <<>> => 1..Len(in_flight) = {}
      <3>1. ASSUME NEW s \in Seq(Batches), Len(s) <= 1
            PROVE  /\ s # <<>> => 1..Len(s) = {1}
                   /\ s = <<>> => 1..Len(s) = {}
        <4>1. CASE s = <<>>
          BY <4>1
        <4>2. CASE s # <<>>
          <5>0. Len(s) \in Nat /\ Len(s) # 0
            BY <4>2, EmptySeq, LenProperties
          <5>1. Len(s) = 1
            BY <3>1, <5>0
          <5>. QED  BY <4>2, <5>1
        <4>. QED  BY <4>1, <4>2
      <3>. QED  BY <3>1, SharedFacts
    <2>. QED  BY <2>1, <2>2 DEF Held
  <1>2. (\E k \in 1..Len(queue) : queue[k].no = i) <=> fate[i] = "queued"
    BY DEF HoldersInv, QueueInv
  <1>3. (refused # <<>> /\ refused[1].no = i) <=> fate[i] = "refusing"
    BY DEF HoldersInv, RefusedInv
  <1>4. (in_flight # <<>> /\ in_flight[1].no = i)
            <=> fate[i] = "in_flight" \/ (counted /\ in_flight[1].no = i)
    <2>1. CASE counted
      BY <2>1 DEF HoldersInv, InFlightInv
    <2>2. CASE ~counted
      BY <2>2 DEF HoldersInv, InFlightInv
    <2>. QED  BY <2>1, <2>2
  <1>5. i \in Billed <=> i \in Held \/ fate[i] = "lost_in_panic"
    BY DEF Billed, Numbers
  <1>. QED  BY <1>1, <1>2, <1>3, <1>4, <1>5

LEMMA BilledThen == TypeOK' /\ HoldersInv' => BilledByFate'
  BY BilledNow, PTL

\* The summands of the budget.
LEMMA BudgetTyped ==
    ASSUME TypeOK
    PROVE  /\ flushed \in Seq(Batches) /\ Numbers = 1..Len(flushed) /\ Len(flushed) \in Nat
           /\ bytes_in_memory \in Int /\ buffer_estimated_bytes \in Nat
           /\ new_entries \in Seq(DictEntries) /\ buffer \in Seq(Records)
           /\ \A A : TotalIn(SizesOf(flushed), A) \in Nat
           /\ \A A : TotalIn(CallCountsOf(flushed), A) \in Nat
           /\ \A i \in Numbers : SizesOf(flushed)[i] = flushed[i].size_estimate
                                 /\ flushed[i].size_estimate \in Nat
           /\ Len(SizesOf(flushed)) = Len(flushed)
           /\ Len(CallCountsOf(flushed)) = Len(flushed)
  <1>1. /\ flushed \in Seq(Batches) /\ Numbers = 1..Len(flushed) /\ Len(flushed) \in Nat
        /\ bytes_in_memory \in Int /\ buffer_estimated_bytes \in Nat
        /\ new_entries \in Seq(DictEntries) /\ buffer \in Seq(Records)
    BY SharedFacts, NumbersAre DEF TypeOK, TraceTypeOK
  <1>. QED  BY <1>1, WeightsAre, TotalInIsNat

\* A step that bills the budget and the buffer alike.
LEMMA BytesKept ==
    ASSUME TypeOK, TypeOK', BytesExact, UNCHANGED flushed,
           \A i \in Numbers : i \in Billed' <=> i \in Billed,
           NEW n \in Int, bytes_in_memory' = bytes_in_memory + n,
           buffer_estimated_bytes' = buffer_estimated_bytes + n
    PROVE  BytesExact'
  <1>1. TotalIn(SizesOf(flushed), Billed) = TotalIn(SizesOf(flushed), Billed')
    BY BudgetTyped, WeightsAre, TotalInSame
  <1>2. BytesOf(Billed)' = TotalIn(SizesOf(flushed), Billed')
    BY LedgersAre
  <1>3. BytesOf(Billed)' = BytesOf(Billed) /\ BytesOf(Billed) \in Nat
    BY <1>1, <1>2, LedgersAre, BudgetTyped
  <1>. QED  BY <1>3, BudgetTyped DEF BytesExact

\* A batch gives back what it was billed.
LEMMA BytesReleased ==
    ASSUME TypeOK, BytesExact, UNCHANGED <<flushed, buffer_estimated_bytes>>,
           NEW k \in Numbers, k \in Billed, k \notin Billed',
           \A i \in Numbers : i # k => (i \in Billed' <=> i \in Billed),
           bytes_in_memory' = bytes_in_memory - flushed[k].size_estimate
    PROVE  BytesExact'
  <1>0. /\ SizesOf(flushed) \in Seq(Nat) /\ k \in 1..Len(SizesOf(flushed))
        /\ \A i \in 1..Len(SizesOf(flushed)) : i # k => (i \in Billed' <=> i \in Billed)
    <2>1. Numbers = 1..Len(flushed) /\ Len(SizesOf(flushed)) = Len(flushed)
      BY BudgetTyped
    <2>. QED  BY <2>1, BudgetTyped, WeightsAre
  <1>1. TotalIn(SizesOf(flushed), Billed)
            = TotalIn(SizesOf(flushed), Billed') + SizesOf(flushed)[k]
    BY <1>0, TotalInGain
  <1>2. BytesOf(Billed)' = TotalIn(SizesOf(flushed), Billed')
    BY LedgersAre
  <1>3. BytesOf(Billed) = BytesOf(Billed)' + flushed[k].size_estimate
        /\ BytesOf(Billed)' \in Nat /\ flushed[k].size_estimate \in Nat
    BY <1>1, <1>2, LedgersAre, BudgetTyped
  <1>. QED  BY <1>3, BudgetTyped DEF BytesExact

\* A flush moves the buffer's bytes to the batch, or gives them back.
LEMMA BytesFlushed ==
    ASSUME TypeOK, TypeOK', HoldersInv, HoldersInv', BytesExact,
           NEW batch \in Batches, NEW added \in Int,
           batch.size_estimate = buffer_estimated_bytes + added,
           refused = <<>>, TrySendBatch(batch, bytes_in_memory + added),
           UNCHANGED <<channel, in_flight, counted>>, buffer_estimated_bytes' = 0
    PROVE  BytesExact'
  <1>. DEFINE m == Len(flushed) + 1
              bytes == bytes_in_memory + added
  <1>1. bytes \in Int /\ bytes_in_memory \in Int /\ buffer_estimated_bytes \in Nat
    BY BudgetTyped
  <1>. HIDE DEF bytes
  <1>2. TrySendBatch(batch, bytes)
    BY DEF bytes
  <1>3. /\ Len(flushed) \in Nat /\ flushed' \in Seq(Batches) /\ Len(flushed') = m
        /\ flushed'[m] = batch
        /\ \A i \in 1..Len(flushed) : flushed'[i] = flushed[i] /\ fate'[i] = fate[i]
    BY <1>1, <1>2, SendShape
  <1>4. Numbers = 1..Len(flushed) /\ Numbers' = 1..m /\ m \in Numbers' /\ m \notin Numbers
    BY <1>3, NumbersAre, LenProperties DEF Numbers
  <1>5. \A i \in 1..Len(flushed) : i \in Billed <=> i \in Billed'
    <2>. TAKE i \in 1..Len(flushed)
    <2>1. fate'[i] = fate[i] /\ i \in Numbers /\ i \in Numbers'
      BY <1>3, <1>4
    <2>2. i \in Billed <=> \/ fate[i] \in {"queued", "refusing", "in_flight", "lost_in_panic"}
                           \/ counted /\ in_flight[1].no = i
      BY <2>1, BilledNow DEF BilledByFate
    <2>3. i \in Billed' <=> \/ fate'[i] \in {"queued", "refusing", "in_flight", "lost_in_panic"}
                            \/ counted' /\ in_flight'[1].no = i
      BY <2>1, BilledThen DEF BilledByFate
    <2>. QED  BY <2>1, <2>2, <2>3
  <1>6. m \in Billed' <=> fate'[m] \in {"queued", "refusing"}
    <2>1. m \in Billed' <=> \/ fate'[m] \in {"queued", "refusing", "in_flight", "lost_in_panic"}
                            \/ counted' /\ in_flight'[1].no = m
      BY <1>4, BilledThen DEF BilledByFate
    <2>2. counted => in_flight[1].no # m
      BY <1>4 DEF HoldersInv, InFlightInv, InHistory
    <2>3. fate'[m] \in {"queued", "refusing", "unsent"}
      BY <1>1, <1>2, SendShape
    <2>. QED  BY <2>1, <2>2, <2>3
  <1>7. BytesOf(Billed)' = BytesOf(Billed)
                                + (IF m \in Billed' THEN batch.size_estimate ELSE 0)
    <2>1. /\ batch.size_estimate \in Nat
          /\ SizesOf(flushed') = Append(SizesOf(flushed), batch.size_estimate)
      BY <1>3, BudgetTyped, WeightsGrow
    <2>2. SizesOf(flushed) \in Seq(Nat) /\ Len(SizesOf(flushed)) = Len(flushed)
      BY BudgetTyped, WeightsAre
    <2>3. TotalIn(Append(SizesOf(flushed), batch.size_estimate), Billed')
                = TotalIn(SizesOf(flushed), Billed)
                    + (IF m \in Billed' THEN batch.size_estimate ELSE 0)
      BY <1>5, <2>1, <2>2, TotalInAppend
    <2>4. BytesOf(Billed)' = TotalIn(SizesOf(flushed'), Billed')
      BY LedgersAre
    <2>. QED  BY <2>1, <2>3, <2>4, LedgersAre
  <1>8. BytesOf(Billed) \in Nat /\ batch.size_estimate \in Nat
    BY LedgersAre, BudgetTyped DEF Batches
  <1>9. CASE fate'[m] \in {"queued", "refusing"} /\ bytes_in_memory' = bytes
    <2>1. BytesOf(Billed)' = BytesOf(Billed) + batch.size_estimate
      BY <1>6, <1>7, <1>9
    <2>. QED  BY <1>1, <1>8, <1>9, <2>1 DEF BytesExact, bytes
  <1>10. CASE fate'[m] = "unsent" /\ bytes_in_memory' = bytes - batch.size_estimate
    <2>1. BytesOf(Billed)' = BytesOf(Billed)
      BY <1>6, <1>7, <1>8, <1>10
    <2>. QED  BY <1>1, <1>8, <1>10, <2>1 DEF BytesExact, bytes
  <1>. QED  BY <1>1, <1>2, <1>9, <1>10, SendShape

\* The holders of a batch do not depend on what else a step does.
LEMMA BilledKept ==
    ASSUME TypeOK, TypeOK', HoldersInv, HoldersInv',
           UNCHANGED <<flushed, fate, in_flight, counted>>
    PROVE  \A i \in Numbers : i \in Billed' <=> i \in Billed
  <1>. TAKE i \in Numbers
  <1>1. i \in Numbers'
    BY DEF Numbers
  <1>2. i \in Billed <=> \/ fate[i] \in {"queued", "refusing", "in_flight", "lost_in_panic"}
                         \/ counted /\ in_flight[1].no = i
    BY BilledNow DEF BilledByFate
  <1>3. i \in Billed' <=> \/ fate'[i] \in {"queued", "refusing", "in_flight", "lost_in_panic"}
                          \/ counted' /\ in_flight'[1].no = i
    BY <1>1, BilledThen DEF BilledByFate
  <1>. QED  BY <1>2, <1>3

\* A batch's estimate is its own; a flush stages nothing and keeps the older.
LEMMA EstimatesFlushed ==
    ASSUME TypeOK, EstimatesExact, NEW batch \in Batches, NEW bytes \in Int,
           batch.size_estimate = EstimateOf(batch.dict, batch.calls),
           refused = <<>>, TrySendBatch(batch, bytes),
           buffer' = <<>>, new_entries' = <<>>, buffer_estimated_bytes' = 0
    PROVE  EstimatesExact'
  <1>1. /\ Len(flushed) \in Nat /\ flushed' \in Seq(Batches) /\ Len(flushed') = Len(flushed) + 1
        /\ flushed'[Len(flushed) + 1] = batch
        /\ \A i \in 1..Len(flushed) : flushed'[i] = flushed[i]
    BY SendShape
  <1>2. Numbers = 1..Len(flushed) /\ Numbers' = 1..(Len(flushed) + 1)
    BY <1>1, NumbersAre, LenProperties DEF Numbers
  <1>3. EstimateOf(<<>>, <<>>) = 0
    BY NothingCosts
  <1>4. \A i \in Numbers' :
            flushed'[i].size_estimate = EstimateOf(flushed'[i].dict, flushed'[i].calls)
    <2>. TAKE i \in Numbers'
    <2>1. i \in Numbers \/ i = Len(flushed) + 1
      BY <1>1, <1>2
    <2>2. CASE i \in Numbers
      BY <1>1, <1>2, <2>2 DEF EstimatesExact
    <2>3. CASE i = Len(flushed) + 1
      BY <1>1, <2>3
    <2>. QED  BY <2>1, <2>2, <2>3
  <1>5. EstimateOf(new_entries', buffer') = 0
    BY <1>3
  <1>. QED  BY <1>4, <1>5 DEF EstimatesExact, EstimateOf

LEMMA EstimatesInit == Init => EstimatesExact
  <1>. SUFFICES ASSUME Init
                PROVE  EstimatesExact
    OBVIOUS
  <1>1. buffer_estimated_bytes = 0 /\ new_entries = <<>> /\ buffer = <<>> /\ flushed = <<>>
    BY DEF Init, EmptyTrace
  <1>2. Numbers = {}
    BY <1>1 DEF Numbers
  <1>. QED  BY <1>1, <1>2, NothingCosts DEF EstimatesExact

LEMMA EstimatesStep ==
    ASSUME TypeOK, TypeOK', LifoCount, EstimatesExact, [Next]_vars
    PROVE  EstimatesExact'
  <1>0. /\ new_entries \in Seq(DictEntries) /\ buffer \in Seq(Records)
        /\ buffer_estimated_bytes \in Nat
        /\ buffer_estimated_bytes = EstimateOf(new_entries, buffer)
    BY BudgetTyped DEF EstimatesExact
  <1>1. ASSUME UNCHANGED flushed,
               buffer_estimated_bytes' = EstimateOf(new_entries', buffer')
        PROVE  EstimatesExact'
    BY <1>1 DEF EstimatesExact, Numbers, EstimateOf
  <1>2. ASSUME UNCHANGED <<flushed, buffer_estimated_bytes, new_entries, buffer>>
        PROVE  EstimatesExact'
    BY <1>1, <1>2 DEF EstimatesExact
  <1>3. CASE RInit
    BY <1>1, <1>3, NothingCosts DEF RInit, ResetTrace, shared_vars
  <1>4. CASE Begin
    <2>1. PICK fn \in Functions :
            BeginDroppedByDepth(fn) \/ BeginDroppedByCap(fn) \/ BeginAccepted(fn)
      BY <1>4 DEF Begin
    <2>2. CASE BeginDroppedByDepth(fn) \/ BeginDroppedByCap(fn)
      BY <1>2, <2>2 DEF BeginDroppedByDepth, BeginDroppedByCap, EngineBegins, RecordDrop
    <2>3. CASE BeginAccepted(fn)
      <3>1. UNCHANGED <<flushed, buffer>>
        BY <2>3 DEF BeginAccepted, EngineBegins
      <3>2. buffer_estimated_bytes' = buffer_estimated_bytes + DictMissCost(fn) /\ InternRef(fn)
        BY <2>3 DEF BeginAccepted
      <3>3. CASE Interned(fn)
        <4>1. UNCHANGED new_entries /\ DictMissCost(fn) = 0
          BY <3>2, <3>3 DEF InternRef, DictMissCost
        <4>. QED  BY <1>0, <1>1, <3>1, <3>2, <4>1
      <3>4. CASE ~Interned(fn)
        <4>. DEFINE e == [fn_id |-> next_fn_id, fn |-> fn]
        <4>1. new_entries' = Append(new_entries, e)
              /\ DictMissCost(fn) = DICT_ENTRY_FIXED_BYTES + NameBytes[e.fn]
          BY <3>2, <3>4 DEF InternRef, DictMissCost
        <4>2. e \in DictEntries
          BY DEF DictEntries, TypeOK, TraceTypeOK
        <4>. HIDE DEF e
        <4>3. EstimateOf(new_entries', buffer')
                = EstimateOf(new_entries, buffer) + DICT_ENTRY_FIXED_BYTES + NameBytes[e.fn]
          BY <1>0, <3>1, <4>1, <4>2, EstimateOfEntry
        <4>4. NameBytes[e.fn] \in Nat
          BY <4>2, ConfigFacts DEF DictEntries
        <4>5. \A x, y \in Nat : x + (DICT_ENTRY_FIXED_BYTES + y) = x + DICT_ENTRY_FIXED_BYTES + y
          BY DEF DICT_ENTRY_FIXED_BYTES
        <4>6. buffer_estimated_bytes' = EstimateOf(new_entries', buffer')
          BY <1>0, <3>2, <4>1, <4>3, <4>4, <4>5, Zenon
        <4>. QED  BY <1>1, <3>1, <4>6
      <3>. QED  BY <3>3, <3>4
    <2>. QED  BY <2>1, <2>2, <2>3
  <1>5. CASE EndOfDroppedBegin
    BY <1>2, <1>5 DEF EndOfDroppedBegin
  <1>6. ASSUME NEW threw \in Throws, EndAccepted(threw)
        PROVE  EstimatesExact'
    <2>. DEFINE calls == Append(buffer, EndRecord(threw))
                size  == buffer_estimated_bytes + CALL_RECORD_FIXED_BYTES
                bytes == bytes_in_memory + CALL_RECORD_FIXED_BYTES
    <2>1. /\ refused = <<>> /\ EndRecord(threw) \in Records /\ calls \in Seq(Records)
          /\ bytes \in Int /\ PendingBatch(calls, size) \in Batches
          /\ \/ /\ buffer' = <<>> /\ new_entries' = <<>> /\ buffer_estimated_bytes' = 0
                /\ TrySendBatch(PendingBatch(calls, size), bytes)
             \/ /\ buffer' = calls /\ buffer_estimated_bytes' = size
                /\ UNCHANGED <<new_entries, flushed>>
      BY <1>6, EndCases
    <2>2. Len(calls) = Len(buffer) + 1
      BY <1>0, <2>1, AppendProperties
    <2>. HIDE DEF calls
    <2>3. size = EstimateOf(new_entries, calls)
      <3>1. EstimateOf(new_entries, calls)
                = EstimateOf(new_entries, buffer) + CALL_RECORD_FIXED_BYTES * 1
        BY <1>0, <2>1, <2>2, EstimateOfCalls
      <3>. QED  BY <1>0, <3>1 DEF CALL_RECORD_FIXED_BYTES
    <2>4. CASE /\ buffer' = <<>> /\ new_entries' = <<>> /\ buffer_estimated_bytes' = 0
               /\ TrySendBatch(PendingBatch(calls, size), bytes)
      <3>. DEFINE batch == PendingBatch(calls, size)
      <3>1. batch.size_estimate = EstimateOf(batch.dict, batch.calls)
        BY <2>3 DEF PendingBatch
      <3>. HIDE DEF bytes, batch
      <3>. QED  BY <2>1, <2>4, <3>1, EstimatesFlushed DEF batch
    <2>5. CASE /\ buffer' = calls /\ buffer_estimated_bytes' = size
               /\ UNCHANGED <<new_entries, flushed>>
      BY <1>1, <2>3, <2>5
    <2>. QED  BY <2>1, <2>4, <2>5
  <1>7. CASE RShutdown
    <2>. DEFINE calls == buffer \o DrainedRecords
                added == CALL_RECORD_FIXED_BYTES * Len(stack)
                size  == buffer_estimated_bytes + added
                bytes == bytes_in_memory + added
    <2>1. /\ refused = <<>> /\ calls \in Seq(Records) /\ Len(calls) = Len(buffer) + Len(stack)
          /\ bytes \in Int /\ PendingBatch(calls, size) \in Batches /\ ResetTrace
          /\ \/ TrySendBatch(PendingBatch(calls, size), bytes)
             \/ UNCHANGED flushed
      BY <1>7, ShutdownCases
    <2>2. buffer' = <<>> /\ new_entries' = <<>> /\ buffer_estimated_bytes' = 0
      BY <2>1 DEF ResetTrace
    <2>3. Len(stack) \in Nat
      BY StackNumbers
    <2>. HIDE DEF calls
    <2>4. size = EstimateOf(new_entries, calls)
      BY <1>0, <2>1, <2>3, EstimateOfCalls
    <2>5. CASE TrySendBatch(PendingBatch(calls, size), bytes)
      <3>. DEFINE batch == PendingBatch(calls, size)
      <3>1. batch.size_estimate = EstimateOf(batch.dict, batch.calls)
        BY <2>4 DEF PendingBatch
      <3>. HIDE DEF bytes, batch
      <3>. QED  BY <2>1, <2>2, <2>5, <3>1, EstimatesFlushed DEF batch
    <2>6. CASE UNCHANGED flushed
      BY <1>1, <2>2, <2>6, NothingCosts
    <2>. QED  BY <2>1, <2>5, <2>6
  <1>8. CASE DiscardRefused \/ Shipper \/ UNCHANGED vars
    BY <1>2, <1>8 DEF DiscardRefused, Shipper, ShipperReceives, ShipperCountsDrop,
                      ShipperReleases, ShipperPanics, vars, trace_vars, shared_vars
  <1>. QED  BY <1>3, <1>4, <1>5, <1>6, <1>7, <1>8 DEF Next, RequestThread, End

\* The budget after each action.
LEMMA BytesInit == Init => BytesExact
  <1>. SUFFICES ASSUME Init
                PROVE  BytesExact
    OBVIOUS
  <1>1. flushed = <<>> /\ bytes_in_memory = 0 /\ buffer_estimated_bytes = 0
    BY DEF Init, EmptyTrace
  <1>2. SizesOf(flushed) \in Seq(Nat) /\ Len(SizesOf(flushed)) = 0
    BY <1>1, TypeInit, WeightsAre, BudgetTyped
  <1>3. TotalIn(SizesOf(flushed), Billed) = 0
    <2>1. \A i \in 1..Len(SizesOf(flushed)) : i \notin Billed
      BY <1>2
    <2>. QED  BY <1>2, <2>1, TotalInNone
  <1>. QED  BY <1>1, <1>3, LedgersAre DEF BytesExact

LEMMA BytesQuiet ==
    ASSUME TypeOK, TypeOK', HoldersInv, HoldersInv', BytesExact,
           UNCHANGED <<flushed, fate, in_flight, counted>>, NEW n \in Int,
           bytes_in_memory' = bytes_in_memory + n,
           buffer_estimated_bytes' = buffer_estimated_bytes + n
    PROVE  BytesExact'
  <1>1. \A i \in Numbers : i \in Billed' <=> i \in Billed
    BY BilledKept
  <1>2. UNCHANGED flushed
    OBVIOUS
  <1>. QED  BY <1>1, <1>2, BytesKept

LEMMA BytesDiscard ==
    ASSUME TypeOK, TypeOK', HoldersInv, HoldersInv', BytesExact, DiscardRefused
    PROVE  BytesExact'
  <1>. DEFINE k == refused[1].no
  <1>1. /\ refused # <<>> /\ fate' = [fate EXCEPT ![k] = "refused"]
        /\ bytes_in_memory' = bytes_in_memory - refused[1].size_estimate
        /\ UNCHANGED <<flushed, buffer_estimated_bytes, in_flight>>
    BY NumbersAre DEF DiscardRefused, trace_vars
  <1>2. counted' <=> counted
    BY Zenon DEF DiscardRefused
  <1>3. k \in Numbers /\ fate[k] = "refusing" /\ flushed[k] = refused[1]
    BY <1>1 DEF HoldersInv, RefusedInv, InHistory
  <1>. HIDE DEF k
  <1>4. fate'[k] = "refused" /\ \A i \in Numbers : i # k => fate'[i] = fate[i]
    <2>1. k \in Numbers /\ fate' = [fate EXCEPT ![k] = "refused"]
      BY <1>1, <1>3
    <2>. QED  BY <2>1, FateExcept
  <1>5. counted => in_flight[1].no # k
    BY <1>3 DEF HoldersInv, InFlightInv
  <1>6. \A i \in Numbers : i # k => (i \in Billed' <=> i \in Billed)
    <2>. SUFFICES ASSUME NEW i \in Numbers, i # k
                  PROVE  i \in Billed' <=> i \in Billed
      OBVIOUS
    <2>0. i \in Numbers' /\ fate'[i] = fate[i]
      BY <1>1, <1>4 DEF Numbers
    <2>1. i \in Billed <=> \/ fate[i] \in {"queued", "refusing", "in_flight", "lost_in_panic"}
                           \/ counted /\ in_flight[1].no = i
      BY BilledNow DEF BilledByFate
    <2>2. i \in Billed' <=> \/ fate'[i] \in {"queued", "refusing", "in_flight", "lost_in_panic"}
                            \/ counted' /\ in_flight'[1].no = i
      BY <2>0, BilledThen DEF BilledByFate
    <2>. QED  BY <1>1, <1>2, <2>0, <2>1, <2>2
  <1>7. k \in Billed
    BY <1>3, BilledNow DEF BilledByFate
  <1>8. k \notin Billed'
    <2>0. k \in Numbers'
      BY <1>1, <1>3 DEF Numbers
    <2>1. k \in Billed' <=> \/ fate'[k] \in {"queued", "refusing", "in_flight", "lost_in_panic"}
                            \/ counted' /\ in_flight'[1].no = k
      BY <2>0, BilledThen DEF BilledByFate
    <2>. QED  BY <1>1, <1>2, <1>4, <1>5, <2>1
  <1>9. bytes_in_memory' = bytes_in_memory - flushed[k].size_estimate
        /\ UNCHANGED <<flushed, buffer_estimated_bytes>>
    BY <1>1, <1>3
  <1>. QED  BY <1>3, <1>6, <1>7, <1>8, <1>9, BytesReleased

LEMMA BytesReceives ==
    ASSUME TypeOK, TypeOK', HoldersInv, HoldersInv', BytesExact, ShipperReceives
    PROVE  BytesExact'
  <1>. DEFINE k == queue[1].no
  <1>1. /\ queue # <<>> /\ Head(queue) = queue[1] /\ 1 \in 1..Len(queue)
        /\ in_flight = <<>>
        /\ UNCHANGED <<flushed, buffer_estimated_bytes, bytes_in_memory>>
    <2>1. queue # <<>> /\ in_flight = <<>>
          /\ UNCHANGED <<flushed, buffer_estimated_bytes, bytes_in_memory>>
      BY DEF ShipperReceives, trace_vars
    <2>. QED  BY <2>1, SharedFacts, EmptySeq, LenProperties, HeadTailProperties
  <1>2. fate' = [fate EXCEPT ![k] = "in_flight"]
    BY <1>1 DEF ShipperReceives
  <1>3. ~counted /\ ~counted'
    <2>1. ~counted
      BY <1>1 DEF HoldersInv, InFlightInv
    <2>2. counted' <=> counted
      BY Zenon DEF ShipperReceives
    <2>. QED  BY <2>1, <2>2
  <1>4. k \in Numbers /\ fate[k] = "queued"
    BY <1>1 DEF HoldersInv, QueueInv, InHistory
  <1>. HIDE DEF k
  <1>5. fate'[k] = "in_flight" /\ \A i \in Numbers : i # k => fate'[i] = fate[i]
    BY <1>2, <1>4, FateExcept
  <1>6. \A i \in Numbers : i \in Billed' <=> i \in Billed
    <2>. TAKE i \in Numbers
    <2>0. i \in Numbers'
      BY <1>1 DEF Numbers
    <2>1. i \in Billed <=> \/ fate[i] \in {"queued", "refusing", "in_flight", "lost_in_panic"}
                           \/ counted /\ in_flight[1].no = i
      BY BilledNow DEF BilledByFate
    <2>2. i \in Billed' <=> \/ fate'[i] \in {"queued", "refusing", "in_flight", "lost_in_panic"}
                            \/ counted' /\ in_flight'[1].no = i
      BY <2>0, BilledThen DEF BilledByFate
    <2>. QED  BY <1>3, <1>4, <1>5, <2>1, <2>2
  <1>7. bytes_in_memory' = bytes_in_memory + 0 /\ UNCHANGED flushed
        /\ buffer_estimated_bytes' = buffer_estimated_bytes + 0
    BY <1>1, BudgetTyped
  <1>. QED  BY <1>6, <1>7, BytesKept

LEMMA BytesCountsDrop ==
    ASSUME TypeOK, TypeOK', HoldersInv, HoldersInv', BytesExact, ShipperCountsDrop
    PROVE  BytesExact'
  <1>. DEFINE k == in_flight[1].no
  <1>1. /\ in_flight # <<>> /\ fate' = [fate EXCEPT ![k] = "given_up"]
        /\ UNCHANGED <<flushed, buffer_estimated_bytes, bytes_in_memory, in_flight>>
    BY NumbersAre DEF ShipperCountsDrop, trace_vars
  <1>2. ~counted /\ counted'
    BY Zenon DEF ShipperCountsDrop
  <1>3. k \in Numbers /\ fate[k] = "in_flight" /\ in_flight'[1].no = k
    BY <1>1, <1>2 DEF HoldersInv, InFlightInv, InHistory
  <1>. HIDE DEF k
  <1>4. fate'[k] = "given_up" /\ \A i \in Numbers : i # k => fate'[i] = fate[i]
    BY <1>1, <1>3, FateBecomes
  <1>5. \A i \in Numbers : i \in Billed' <=> i \in Billed
    <2>. TAKE i \in Numbers
    <2>0. i \in Numbers'
      BY <1>1 DEF Numbers
    <2>1. i \in Billed <=> \/ fate[i] \in {"queued", "refusing", "in_flight", "lost_in_panic"}
                           \/ counted /\ in_flight[1].no = i
      BY BilledNow DEF BilledByFate
    <2>2. i \in Billed' <=> \/ fate'[i] \in {"queued", "refusing", "in_flight", "lost_in_panic"}
                            \/ counted' /\ in_flight'[1].no = i
      BY <2>0, BilledThen DEF BilledByFate
    <2>. QED  BY <1>2, <1>3, <1>4, <2>1, <2>2
  <1>6. bytes_in_memory' = bytes_in_memory + 0 /\ UNCHANGED flushed
        /\ buffer_estimated_bytes' = buffer_estimated_bytes + 0
    BY <1>1, BudgetTyped
  <1>. QED  BY <1>5, <1>6, BytesKept

LEMMA BytesReleases ==
    ASSUME TypeOK, TypeOK', HoldersInv, HoldersInv', BytesExact, ShipperReleases
    PROVE  BytesExact'
  <1>. DEFINE k == in_flight[1].no
  <1>1. /\ in_flight # <<>>
        /\ bytes_in_memory' = bytes_in_memory - in_flight[1].size_estimate
        /\ UNCHANGED <<flushed, buffer_estimated_bytes>>
        /\ fate' = IF counted THEN fate ELSE [fate EXCEPT ![k] = "delivered"]
    BY NumbersAre DEF ShipperReleases, trace_vars
  <1>2. ~counted'
    BY Zenon DEF ShipperReleases
  <1>3. k \in Numbers /\ flushed[k] = in_flight[1]
        /\ fate[k] = IF counted THEN "given_up" ELSE "in_flight"
    BY <1>1 DEF HoldersInv, InFlightInv, InHistory
  <1>4. counted => in_flight[1].no = k
    OBVIOUS
  <1>. HIDE DEF k
  <1>5. fate'[k] \in {"given_up", "delivered"} /\ \A i \in Numbers : i # k => fate'[i] = fate[i]
    <2>1. CASE counted
      BY <1>1, <1>3, <2>1
    <2>2. CASE ~counted
      <3>1. fate' = [fate EXCEPT ![k] = "delivered"]
        BY <1>1, <2>2
      <3>. QED  BY <1>3, <3>1, FateExcept
    <2>. QED  BY <2>1, <2>2
  <1>6. ASSUME NEW i \in Numbers
        PROVE  /\ i \in Billed <=>
                    \/ fate[i] \in {"queued", "refusing", "in_flight", "lost_in_panic"}
                    \/ counted /\ in_flight[1].no = i
               /\ i \in Billed' <=>
                    fate'[i] \in {"queued", "refusing", "in_flight", "lost_in_panic"}
    <2>1. i \in Billed <=> \/ fate[i] \in {"queued", "refusing", "in_flight", "lost_in_panic"}
                           \/ counted /\ in_flight[1].no = i
      BY BilledNow DEF BilledByFate
    <2>2. i \in Numbers'
      BY <1>1 DEF Numbers
    <2>3. i \in Billed' <=> \/ fate'[i] \in {"queued", "refusing", "in_flight", "lost_in_panic"}
                            \/ counted' /\ in_flight'[1].no = i
      BY <2>2, BilledThen DEF BilledByFate
    <2>. QED  BY <1>2, <2>1, <2>3
  <1>7. k \in Billed /\ k \notin Billed'
    <2>1. k \in Billed
      <3>1. in_flight[1].no = k
        BY DEF k
      <3>. QED  BY <1>3, <1>6, <3>1
    <2>. QED  BY <1>3, <1>5, <1>6, <2>1
  <1>8. \A i \in Numbers : i # k => (i \in Billed' <=> i \in Billed)
    BY <1>4, <1>5, <1>6
  <1>9. bytes_in_memory' = bytes_in_memory - flushed[k].size_estimate
        /\ UNCHANGED <<flushed, buffer_estimated_bytes>>
    BY <1>1, <1>3
  <1>. QED  BY <1>3, <1>7, <1>8, <1>9, BytesReleased

\* What the panic destroys stays billed.
LEMMA BytesPanics ==
    ASSUME TypeOK, TypeOK', HoldersInv, HoldersInv', BytesExact, ShipperPanics
    PROVE  BytesExact'
  <1>1. UNCHANGED <<flushed, buffer_estimated_bytes, bytes_in_memory>>
    BY DEF ShipperPanics, trace_vars
  <1>2. ~counted /\ ~counted'
    BY Zenon DEF ShipperPanics
  <1>3. \A i \in Numbers : fate'[i] = IF fate[i] \in {"queued", "in_flight"}
                                      THEN "lost_in_panic" ELSE fate[i]
    BY NumbersAre DEF ShipperPanics
  <1>4. \A i \in Numbers : i \in Billed' <=> i \in Billed
    <2>. TAKE i \in Numbers
    <2>0. i \in Numbers'
      BY <1>1 DEF Numbers
    <2>1. i \in Billed <=> \/ fate[i] \in {"queued", "refusing", "in_flight", "lost_in_panic"}
                           \/ counted /\ in_flight[1].no = i
      BY BilledNow DEF BilledByFate
    <2>2. i \in Billed' <=> \/ fate'[i] \in {"queued", "refusing", "in_flight", "lost_in_panic"}
                            \/ counted' /\ in_flight'[1].no = i
      BY <2>0, BilledThen DEF BilledByFate
    <2>3. fate'[i] = IF fate[i] \in {"queued", "in_flight"} THEN "lost_in_panic" ELSE fate[i]
      BY <1>3
    <2>. QED  BY <1>2, <2>1, <2>2, <2>3
  <1>5. bytes_in_memory' = bytes_in_memory + 0 /\ UNCHANGED flushed
        /\ buffer_estimated_bytes' = buffer_estimated_bytes + 0
    BY <1>1, BudgetTyped
  <1>. QED  BY <1>4, <1>5, BytesKept

LEMMA BytesStep ==
    ASSUME TypeOK, TypeOK', LifoCount, HoldersInv, HoldersInv', IdleInv, EstimatesExact,
           BytesExact, [Next]_vars
    PROVE  BytesExact'
  <1>0. bytes_in_memory \in Int /\ buffer_estimated_bytes \in Nat
    BY BudgetTyped
  <1>1. ASSUME UNCHANGED <<flushed, fate, in_flight, counted, bytes_in_memory,
                           buffer_estimated_bytes>>
        PROVE  BytesExact'
    <2>1. UNCHANGED <<flushed, fate, in_flight, counted>>
      BY <1>1
    <2>2. bytes_in_memory' = bytes_in_memory + 0 /\ buffer_estimated_bytes' = buffer_estimated_bytes + 0
      BY <1>0, <1>1
    <2>. QED  BY <2>1, <2>2, BytesQuiet
  <1>2. CASE RInit
    <2>1. ~trace_live
      BY <1>2, Zenon DEF RInit
    <2>2. buffer_estimated_bytes = 0
      BY <2>1 DEF IdleInv
    <2>. QED  BY <1>1, <1>2, <2>2 DEF RInit, ResetTrace, shared_vars
  <1>3. CASE Begin
    <2>1. PICK fn \in Functions :
            BeginDroppedByDepth(fn) \/ BeginDroppedByCap(fn) \/ BeginAccepted(fn)
      BY <1>3 DEF Begin
    <2>2. UNCHANGED <<flushed, fate, in_flight, counted>>
      BY <2>1 DEF BeginDroppedByDepth, BeginDroppedByCap, BeginAccepted, EngineBegins
    <2>3. CASE BeginDroppedByDepth(fn) \/ BeginDroppedByCap(fn)
      BY <1>1, <2>2, <2>3 DEF BeginDroppedByDepth, BeginDroppedByCap, RecordDrop
    <2>4. CASE BeginAccepted(fn)
      <3>1. DictMissCost(fn) \in Int
        BY MissCostIsNat
      <3>2. /\ bytes_in_memory' = bytes_in_memory + DictMissCost(fn)
            /\ buffer_estimated_bytes' = buffer_estimated_bytes + DictMissCost(fn)
        BY <2>4 DEF BeginAccepted
      <3>. QED  BY <2>2, <3>1, <3>2, BytesQuiet
    <2>. QED  BY <2>1, <2>3, <2>4
  <1>4. CASE EndOfDroppedBegin
    BY <1>1, <1>4 DEF EndOfDroppedBegin, EngineEnds
  <1>5. ASSUME NEW threw \in Throws, EndAccepted(threw)
        PROVE  BytesExact'
    <2>. DEFINE calls == Append(buffer, EndRecord(threw))
                size  == buffer_estimated_bytes + CALL_RECORD_FIXED_BYTES
                batch == PendingBatch(calls, size)
    <2>1. /\ refused = <<>> /\ batch \in Batches /\ EngineEnds
          /\ \/ /\ buffer_estimated_bytes' = 0
                /\ TrySendBatch(batch, bytes_in_memory + CALL_RECORD_FIXED_BYTES)
             \/ /\ buffer_estimated_bytes' = buffer_estimated_bytes + CALL_RECORD_FIXED_BYTES
                /\ bytes_in_memory' = bytes_in_memory + CALL_RECORD_FIXED_BYTES
                /\ UNCHANGED <<flushed, fate>>
      BY <1>5, EndCases
    <2>2. UNCHANGED <<channel, in_flight, counted>>
      BY <2>1, Zenon DEF EngineEnds
    <2>3. batch.size_estimate = buffer_estimated_bytes + CALL_RECORD_FIXED_BYTES
      BY DEF PendingBatch
    <2>4. CALL_RECORD_FIXED_BYTES \in Int
      BY DEF CALL_RECORD_FIXED_BYTES
    <2>. HIDE DEF batch
    <2>5. CASE /\ buffer_estimated_bytes' = 0
               /\ TrySendBatch(batch, bytes_in_memory + CALL_RECORD_FIXED_BYTES)
      BY <2>1, <2>2, <2>3, <2>4, <2>5, BytesFlushed
    <2>6. CASE /\ buffer_estimated_bytes' = buffer_estimated_bytes + CALL_RECORD_FIXED_BYTES
               /\ bytes_in_memory' = bytes_in_memory + CALL_RECORD_FIXED_BYTES
               /\ UNCHANGED <<flushed, fate>>
      <3>1. UNCHANGED <<flushed, fate, in_flight, counted>>
        BY <2>2, <2>6
      <3>. QED  BY <2>4, <2>6, <3>1, BytesQuiet
    <2>. QED  BY <2>1, <2>5, <2>6
  <1>6. CASE RShutdown
    <2>. DEFINE added == CALL_RECORD_FIXED_BYTES * Len(stack)
                calls == buffer \o DrainedRecords
                size  == buffer_estimated_bytes + added
                bytes == bytes_in_memory + added
                batch == PendingBatch(calls, size)
    <2>0. UNCHANGED <<channel, in_flight, counted>>
      BY <1>6, ShutdownCases, Zenon
    <2>1. /\ refused = <<>> /\ batch \in Batches /\ added \in Nat /\ ResetTrace
          /\ \/ TrySendBatch(batch, bytes)
             \/ /\ bytes_in_memory' = bytes - size
                /\ UNCHANGED <<flushed, fate>>
      BY <1>6, ShutdownCases
    <2>2. buffer_estimated_bytes' = 0
      BY <2>1 DEF ResetTrace
    <2>3. batch.size_estimate = buffer_estimated_bytes + added /\ added \in Int
      BY <2>1 DEF PendingBatch
    <2>. HIDE DEF added, batch
    <2>4. CASE TrySendBatch(batch, bytes)
      BY <2>0, <2>1, <2>2, <2>3, <2>4, BytesFlushed
    <2>5. CASE /\ bytes_in_memory' = bytes - size
               /\ UNCHANGED <<flushed, fate>>
      <3>. DEFINE n == 0 - buffer_estimated_bytes
      <3>1. UNCHANGED <<flushed, fate, in_flight, counted>>
        BY <2>0, <2>5
      <3>2. /\ n \in Int /\ bytes_in_memory' = bytes_in_memory + n
            /\ buffer_estimated_bytes' = buffer_estimated_bytes + n
        BY <1>0, <2>1, <2>2, <2>5
      <3>. HIDE DEF n
      <3>. QED  BY <3>1, <3>2, BytesQuiet
    <2>. QED  BY <2>1, <2>4, <2>5
  <1>7. CASE UNCHANGED vars
    BY <1>1, <1>7 DEF vars, trace_vars, shared_vars
  <1>. QED  BY <1>2, <1>3, <1>4, <1>5, <1>6, <1>7, BytesDiscard, BytesReceives,
               BytesCountsDrop, BytesReleases, BytesPanics
            DEF Next, RequestThread, Shipper, End

-----------------------------------------------------------------------------
(* The calls of each request.                                              *)

\* The batches of r that no drop counter has taken over.
Uncounted(r) ==
    {i \in DOMAIN flushed : flushed[i].trace = r /\ fate[i] \notin {"refused", "given_up"}}

\* What the live trace still has to ship.
Unshipped(r) == IF IsCurrent(r) THEN Len(stack) + Len(buffer) ELSE 0

LEMMA AccountIs ==
    ASSUME TypeOK
    PROVE  EveryCallAccountedFor <=>
                \A r \in Requests :
                    begun[r] = drop_counter[r] + Unshipped(r) + CallsIn(Uncounted(r))
  <1>. SUFFICES ASSUME NEW r \in Requests
                PROVE  (begun[r] = drop_counter[r] + Len(OpenFrames(r))
                            + (IF IsCurrent(r) THEN Len(buffer) ELSE 0)
                            + CallsIn(Uncounted(r)))
                        <=> (begun[r] = drop_counter[r] + Unshipped(r) + CallsIn(Uncounted(r)))
    BY DEF EveryCallAccountedFor, Uncounted
  <1>1. CASE IsCurrent(r)
    <2>1. Len(OpenFrames(r)) = Len(stack) /\ Unshipped(r) = Len(stack) + Len(buffer)
      BY <1>1 DEF OpenFrames, Unshipped
    <2>2. Len(stack) \in Nat /\ Len(buffer) \in Nat /\ drop_counter[r] \in Nat
      BY StackNumbers, BudgetTyped, LenProperties DEF TypeOK, SharedTypeOK
    <2>3. CallsIn(Uncounted(r)) \in Nat
      BY BudgetTyped, LedgersAre
    <2>. QED  BY <1>1, <2>1, <2>2, <2>3
  <1>2. CASE ~IsCurrent(r)
    <2>1. Len(OpenFrames(r)) = 0 /\ Unshipped(r) = 0
      BY <1>2, EmptySeq DEF OpenFrames, Unshipped
    <2>2. drop_counter[r] \in Nat
      BY DEF TypeOK, SharedTypeOK
    <2>3. CallsIn(Uncounted(r)) \in Nat
      BY BudgetTyped, LedgersAre
    <2>. QED  BY <1>2, <2>1, <2>2, <2>3
  <1>. QED  BY <1>1, <1>2

\* The same of the next state.
LEMMA AccountWillBe ==
    TypeOK' => (EveryCallAccountedFor' <=>
                    \A r \in Requests :
                        begun'[r] = drop_counter'[r] + Unshipped(r)' + CallsIn(Uncounted(r))')
  <1>1. (TypeOK => (EveryCallAccountedFor <=>
                        \A r \in Requests :
                            begun[r] = drop_counter[r] + Unshipped(r) + CallsIn(Uncounted(r))))'
    BY AccountIs, PTL
  <1>. QED  BY <1>1

\* Sums of calls over sets of batches, when one batch joins, leaves, or none.
LEMMA CallsSame ==
    ASSUME TypeOK, UNCHANGED flushed, NEW r \in Requests,
           \A i \in Numbers : i \in Uncounted(r)' <=> i \in Uncounted(r)
    PROVE  CallsIn(Uncounted(r))' = CallsIn(Uncounted(r)) /\ CallsIn(Uncounted(r)) \in Nat
  <1>. DEFINE w == CallCountsOf(flushed)
              A == Uncounted(r)
              B == Uncounted(r)'
  <1>1. /\ w \in Seq(Nat) /\ \A i \in 1..Len(w) : i \in A <=> i \in B
    <2>1. Numbers = 1..Len(w)
      BY BudgetTyped
    <2>. QED  BY <2>1, BudgetTyped, WeightsAre
  <1>2. CallsIn(A) = TotalIn(w, A) /\ CallsIn(A) \in Nat
    BY BudgetTyped, LedgersAre
  <1>3. CallsIn(Uncounted(r))' = TotalIn(w, B)
    BY LedgersAre
  <1>. HIDE DEF w, A, B
  <1>4. TotalIn(w, A) = TotalIn(w, B)
    BY <1>1, TotalInSame
  <1>. QED  BY <1>2, <1>3, <1>4 DEF A

LEMMA CallsCounted ==
    ASSUME TypeOK, UNCHANGED flushed, NEW r \in Requests, NEW k \in Numbers,
           k \in Uncounted(r), k \notin Uncounted(r)',
           \A i \in Numbers : i # k => (i \in Uncounted(r)' <=> i \in Uncounted(r))
    PROVE  /\ CallsIn(Uncounted(r)) = CallsIn(Uncounted(r))' + Len(flushed[k].calls)
           /\ CallsIn(Uncounted(r))' \in Nat /\ Len(flushed[k].calls) \in Nat
  <1>. DEFINE w == CallCountsOf(flushed)
              A == Uncounted(r)
              B == Uncounted(r)'
  <1>1. /\ w \in Seq(Nat) /\ k \in 1..Len(w)
        /\ \A i \in 1..Len(w) : i # k => (i \in B <=> i \in A)
        /\ w[k] = Len(flushed[k].calls) /\ Len(flushed[k].calls) \in Nat
    <2>1. Numbers = 1..Len(w)
      BY BudgetTyped
    <2>2. Numbers = 1..Len(flushed)
      BY BudgetTyped
    <2>. QED  BY <2>1, <2>2, BudgetTyped, WeightsAre
  <1>2. CallsIn(A) = TotalIn(w, A) /\ TotalIn(w, B) \in Nat
    BY BudgetTyped, LedgersAre
  <1>3. CallsIn(Uncounted(r))' = TotalIn(w, B)
    BY LedgersAre
  <1>4. k \in A /\ k \notin B
    OBVIOUS
  <1>. HIDE DEF w, A, B
  <1>5. TotalIn(w, A) = TotalIn(w, B) + w[k]
    BY <1>1, <1>4, TotalInGain
  <1>. QED  BY <1>1, <1>2, <1>3, <1>5 DEF A

LEMMA CallsFlushed ==
    ASSUME TypeOK, NEW batch \in Batches, NEW bytes \in Int, refused = <<>>,
           TrySendBatch(batch, bytes), NEW r \in Requests
    PROVE  /\ CallsIn(Uncounted(r))' = CallsIn(Uncounted(r))
                        + (IF batch.trace = r THEN Len(batch.calls) ELSE 0)
           /\ CallsIn(Uncounted(r)) \in Nat /\ Len(batch.calls) \in Nat
  <1>. DEFINE m == Len(flushed) + 1
              w == CallCountsOf(flushed)
              e == Len(batch.calls)
              A == Uncounted(r)
              B == Uncounted(r)'
  <1>1. /\ Len(flushed) \in Nat /\ flushed' \in Seq(Batches) /\ Len(flushed') = m
        /\ flushed'[m] = batch /\ Len(fate') = m
        /\ \A i \in 1..Len(flushed) : flushed'[i] = flushed[i] /\ fate'[i] = fate[i]
        /\ fate'[m] \in {"queued", "refusing", "unsent"}
    BY SendShape
  <1>2. DOMAIN flushed = 1..Len(flushed) /\ DOMAIN flushed' = 1..m
    BY <1>1, BudgetTyped, LenProperties DEF Numbers
  <1>3. \A i \in 1..Len(flushed) : i \in A <=> i \in B
    <2>. TAKE i \in 1..Len(flushed)
    <2>1. i \in 1..m /\ flushed'[i] = flushed[i] /\ fate'[i] = fate[i]
      BY <1>1
    <2>. QED  BY <1>2, <2>1 DEF Uncounted
  <1>4. m \in B <=> batch.trace = r
    <2>1. m \in 1..m
      BY <1>1
    <2>. QED  BY <1>1, <1>2, <2>1 DEF Uncounted
  <1>5. w \in Seq(Nat) /\ Len(w) = Len(flushed) /\ e \in Nat
        /\ CallCountsOf(flushed') = Append(w, e)
    <2>1. w \in Seq(Nat) /\ Len(w) = Len(flushed)
      BY BudgetTyped, WeightsAre
    <2>. QED  BY <1>1, <2>1, BudgetTyped, WeightsGrow
  <1>6. CallsIn(A) = TotalIn(w, A) /\ CallsIn(A) \in Nat
    BY BudgetTyped, LedgersAre
  <1>7. CallsIn(Uncounted(r))' = TotalIn(Append(w, e), B)
    BY <1>5, LedgersAre
  <1>. HIDE DEF w, e, A, B
  <1>8. TotalIn(Append(w, e), B) = TotalIn(w, A) + (IF m \in B THEN e ELSE 0)
    BY <1>3, <1>5, TotalInAppend
  <1>. QED  BY <1>4, <1>5, <1>6, <1>7, <1>8 DEF A, e

LEMMA AccountTyped ==
    ASSUME TypeOK, NEW r \in Requests
    PROVE  /\ begun[r] \in Nat /\ drop_counter[r] \in Nat /\ Unshipped(r) \in Nat
           /\ Len(stack) \in Nat /\ Len(buffer) \in Nat
           /\ IsCurrent(r) => Unshipped(r) = Len(stack) + Len(buffer)
           /\ ~IsCurrent(r) => Unshipped(r) = 0
  <1>1. Len(stack) \in Nat /\ Len(buffer) \in Nat
    BY StackNumbers, BudgetTyped, LenProperties
  <1>2. begun[r] \in Nat /\ drop_counter[r] \in Nat
    BY DEF TypeOK, SharedTypeOK, EnvTypeOK
  <1>3. CASE IsCurrent(r)
    BY <1>1, <1>2, <1>3 DEF Unshipped
  <1>4. CASE ~IsCurrent(r)
    BY <1>1, <1>2, <1>4 DEF Unshipped
  <1>. QED  BY <1>3, <1>4

LEMMA AccountTypedThen ==
    TypeOK' => \A r \in Requests :
                    begun'[r] \in Nat /\ drop_counter'[r] \in Nat /\ Unshipped(r)' \in Nat
  <1>1. TypeOK => \A r \in Requests :
                    begun[r] \in Nat /\ drop_counter[r] \in Nat /\ Unshipped(r) \in Nat
    BY AccountTyped
  <1>2. (TypeOK => \A r \in Requests :
                    begun[r] \in Nat /\ drop_counter[r] \in Nat /\ Unshipped(r) \in Nat)'
    BY <1>1, PTL
  <1>. QED  BY <1>2

\* A batch goes out with all but left of what its trace had to ship.
LEMMA AccountFlushed ==
    ASSUME TypeOK, TypeOK', EveryCallAccountedFor, trace_live,
           NEW batch \in Batches, NEW bytes \in Int, refused = <<>>,
           TrySendBatch(batch, bytes), batch.trace = request, NEW left \in Nat,
           Len(stack) + Len(buffer) = Len(batch.calls) + left,
           UNCHANGED <<request, begun, drop_counter>>,
           Unshipped(request)' = left, \A r \in Requests : r # request => Unshipped(r)' = 0
    PROVE  EveryCallAccountedFor'
  <1>. SUFFICES ASSUME NEW r \in Requests
                PROVE  begun'[r] = drop_counter'[r] + Unshipped(r)' + CallsIn(Uncounted(r))'
    BY AccountWillBe
  <1>1. begun[r] = drop_counter[r] + Unshipped(r) + CallsIn(Uncounted(r))
    BY AccountIs
  <1>2. /\ CallsIn(Uncounted(r))' = CallsIn(Uncounted(r))
                        + (IF batch.trace = r THEN Len(batch.calls) ELSE 0)
        /\ CallsIn(Uncounted(r)) \in Nat /\ Len(batch.calls) \in Nat
    BY CallsFlushed
  <1>3. begun'[r] = begun[r] /\ drop_counter'[r] = drop_counter[r]
    OBVIOUS
  <1>4. CASE r = request
    <2>1. Unshipped(r) = Len(batch.calls) + left
      <3>1. IsCurrent(r)
        BY <1>4, Zenon DEF IsCurrent
      <3>. QED  BY <3>1, AccountTyped
    <2>. HIDE DEF TrySendBatch
    <2>. QED  BY <1>1, <1>2, <1>3, <1>4, <2>1, AccountTyped
  <1>5. CASE r # request
    <2>1. Unshipped(r) = 0 /\ Unshipped(r)' = 0
      <3>1. ~IsCurrent(r)
        BY <1>5 DEF IsCurrent
      <3>. QED  BY <1>5, <3>1, AccountTyped
    <2>. QED  BY <1>1, <1>2, <1>3, <1>5, <2>1, AccountTyped
  <1>. QED  BY <1>4, <1>5

\* A counter takes over the calls of a batch.
LEMMA AccountCounted ==
    ASSUME TypeOK, TypeOK', EveryCallAccountedFor, NEW k \in Numbers,
           fate[k] \in {"refusing", "in_flight"}, fate'[k] \in {"refused", "given_up"},
           \A i \in Numbers : i # k => fate'[i] = fate[i],
           drop_counter' = [drop_counter EXCEPT ![flushed[k].trace] = @ + Len(flushed[k].calls)],
           UNCHANGED <<flushed, begun>>, \A r \in Requests : Unshipped(r)' = Unshipped(r)
    PROVE  EveryCallAccountedFor'
  <1>. SUFFICES ASSUME NEW r \in Requests
                PROVE  begun'[r] = drop_counter'[r] + Unshipped(r)' + CallsIn(Uncounted(r))'
    BY AccountWillBe
  <1>1. begun[r] = drop_counter[r] + Unshipped(r) + CallsIn(Uncounted(r))
    BY AccountIs
  <1>2. UNCHANGED flushed /\ begun'[r] = begun[r] /\ Unshipped(r)' = Unshipped(r)
    OBVIOUS
  <1>3. \A i \in Numbers : i # k => (i \in Uncounted(r)' <=> i \in Uncounted(r))
    BY DEF Uncounted, Numbers
  <1>4. k \notin Uncounted(r)' /\ (k \in Uncounted(r) <=> flushed[k].trace = r)
    BY DEF Uncounted, Numbers
  <1>5. drop_counter \in [Requests -> Nat]
    BY DEF TypeOK, SharedTypeOK
  <1>6. CASE flushed[k].trace = r
    <2>1. k \in Uncounted(r)
      BY <1>4, <1>6
    <2>2. /\ CallsIn(Uncounted(r)) = CallsIn(Uncounted(r))' + Len(flushed[k].calls)
          /\ CallsIn(Uncounted(r))' \in Nat /\ Len(flushed[k].calls) \in Nat
      BY <1>2, <1>3, <1>4, <2>1, CallsCounted
    <2>3. drop_counter'[r] = drop_counter[r] + Len(flushed[k].calls)
      BY <1>5, <1>6
    <2>4. begun[r] \in Nat /\ drop_counter[r] \in Nat /\ Unshipped(r) \in Nat
      BY AccountTyped
    <2>5. PICK b, d, u, c, n \in Nat :
              /\ b = begun[r] /\ d = drop_counter[r] /\ u = Unshipped(r)
              /\ c = CallsIn(Uncounted(r))' /\ n = Len(flushed[k].calls)
      BY <2>2, <2>4, Zenon
    <2>6. b = d + u + (c + n)
      BY <1>1, <2>2, <2>5, Zenon
    <2>7. b = (d + n) + u + c
      BY <2>6
    <2>. QED  BY <1>2, <2>3, <2>5, <2>7, Zenon
  <1>7. CASE flushed[k].trace # r
    <2>1. \A i \in Numbers : i \in Uncounted(r)' <=> i \in Uncounted(r)
      BY <1>3, <1>4, <1>7
    <2>2. CallsIn(Uncounted(r))' = CallsIn(Uncounted(r)) /\ CallsIn(Uncounted(r)) \in Nat
      BY <1>2, <2>1, CallsSame
    <2>3. drop_counter'[r] = drop_counter[r]
      BY <1>5, <1>7
    <2>. QED  BY <1>1, <1>2, <2>2, <2>3, AccountTyped
  <1>. QED  BY <1>6, <1>7

\* No batch is counted or flushed: what begins is counted or still to ship.
LEMMA AccountKept ==
    ASSUME TypeOK, TypeOK', EveryCallAccountedFor, UNCHANGED flushed,
           \A i \in Numbers : fate'[i] \in {"refused", "given_up"}
                                    <=> fate[i] \in {"refused", "given_up"},
           \A r \in Requests : begun'[r] - drop_counter'[r] - Unshipped(r)'
                                    = begun[r] - drop_counter[r] - Unshipped(r)
    PROVE  EveryCallAccountedFor'
  <1>. SUFFICES ASSUME NEW r \in Requests
                PROVE  begun'[r] = drop_counter'[r] + Unshipped(r)' + CallsIn(Uncounted(r))'
    BY AccountWillBe
  <1>1. begun[r] = drop_counter[r] + Unshipped(r) + CallsIn(Uncounted(r))
    BY AccountIs
  <1>2. \A i \in Numbers : i \in Uncounted(r)' <=> i \in Uncounted(r)
    BY DEF Uncounted, Numbers
  <1>3. CallsIn(Uncounted(r))' = CallsIn(Uncounted(r)) /\ CallsIn(Uncounted(r)) \in Nat
    BY <1>2, CallsSame
  <1>4. /\ begun'[r] \in Nat /\ drop_counter'[r] \in Nat /\ Unshipped(r)' \in Nat
    BY AccountTypedThen
  <1>5. begun'[r] - drop_counter'[r] - Unshipped(r)'
                = begun[r] - drop_counter[r] - Unshipped(r)
    OBVIOUS
  <1>6. begun[r] \in Nat /\ drop_counter[r] \in Nat /\ Unshipped(r) \in Nat
    BY AccountTyped
  <1>7. PICK b, d, u, c, b2, d2, u2 \in Nat :
            /\ b = begun[r] /\ d = drop_counter[r] /\ u = Unshipped(r)
            /\ c = CallsIn(Uncounted(r))
            /\ b2 = begun'[r] /\ d2 = drop_counter'[r] /\ u2 = Unshipped(r)'
    BY <1>3, <1>4, <1>6, Zenon
  <1>8. b = d + u + c /\ b2 - d2 - u2 = b - d - u
    BY <1>1, <1>5, <1>7, Zenon
  <1>9. b2 = d2 + u2 + c
    BY <1>8
  <1>. QED  BY <1>3, <1>7, <1>9, Zenon

LEMMA AccountInit == Init => EveryCallAccountedFor
  <1>. SUFFICES ASSUME Init
                PROVE  EveryCallAccountedFor
    OBVIOUS
  <1>0. TypeOK
    BY TypeInit
  <1>. SUFFICES ASSUME NEW r \in Requests
                PROVE  begun[r] = drop_counter[r] + Unshipped(r) + CallsIn(Uncounted(r))
    BY <1>0, AccountIs
  <1>1. flushed = <<>> /\ begun[r] = 0 /\ drop_counter[r] = 0
    BY DEF Init
  <1>2. Unshipped(r) = 0
    <2>1. ~IsCurrent(r)
      BY Zenon DEF Init, IsCurrent
    <2>. QED  BY <1>0, <2>1, AccountTyped
  <1>3. CallCountsOf(flushed) \in Seq(Nat) /\ Len(CallCountsOf(flushed)) = 0
    BY <1>0, <1>1, WeightsAre, BudgetTyped
  <1>4. TotalIn(CallCountsOf(flushed), Uncounted(r)) = 0
    <2>1. \A i \in 1..Len(CallCountsOf(flushed)) : i \notin Uncounted(r)
      BY <1>3
    <2>. QED  BY <1>3, <2>1, TotalInNone
  <1>. QED  BY <1>1, <1>2, <1>4, LedgersAre

LEMMA UnshippedSame ==
    ASSUME UNCHANGED <<stack, buffer, request>>, trace_live' <=> trace_live
    PROVE  \A r \in Requests : Unshipped(r)' = Unshipped(r)
  <1>. TAKE r \in Requests
  <1>1. IsCurrent(r)' <=> IsCurrent(r)
    BY Zenon DEF IsCurrent
  <1>. QED  BY <1>1 DEF Unshipped

\* Steps that change nothing of a trace's account.
LEMMA AccountUntouched ==
    ASSUME TypeOK, TypeOK', EveryCallAccountedFor,
           UNCHANGED <<flushed, begun, drop_counter, stack, buffer, request>>,
           trace_live' <=> trace_live,
           \A i \in Numbers : fate'[i] \in {"refused", "given_up"}
                                    <=> fate[i] \in {"refused", "given_up"}
    PROVE  EveryCallAccountedFor'
  <1>1. \A r \in Requests : Unshipped(r)' = Unshipped(r)
    BY UnshippedSame
  <1>2. \A r \in Requests : begun'[r] - drop_counter'[r] - Unshipped(r)'
                                = begun[r] - drop_counter[r] - Unshipped(r)
    BY <1>1
  <1>3. UNCHANGED flushed
    OBVIOUS
  <1>. QED  BY <1>2, <1>3, AccountKept

LEMMA AccountBegin ==
    ASSUME TypeOK, TypeOK', EveryCallAccountedFor, Begin
    PROVE  EveryCallAccountedFor'
  <1>1. PICK fn \in Functions :
            BeginDroppedByDepth(fn) \/ BeginDroppedByCap(fn) \/ BeginAccepted(fn)
    BY DEF Begin
  <1>2. EngineBegins(fn)
    BY <1>1 DEF BeginDroppedByDepth, BeginDroppedByCap, BeginAccepted
  <1>3. trace_live /\ trace_live' /\ request \in Requests
    BY <1>2, TypeEngineBegins, Zenon DEF EngineBegins, OnRequestThread
  <1>4. UNCHANGED <<flushed, fate, buffer, request>>
        /\ begun' = [begun EXCEPT ![request] = @ + 1]
    BY <1>2 DEF EngineBegins
  <1>5. begun \in [Requests -> Nat] /\ drop_counter \in [Requests -> Nat]
        /\ Len(stack) \in Nat /\ Len(buffer) \in Nat
    BY <1>3, AccountTyped DEF TypeOK, SharedTypeOK, EnvTypeOK
  <1>6. \A r \in Requests : (r = request => IsCurrent(r) /\ IsCurrent(r)')
                            /\ (r # request => ~IsCurrent(r) /\ ~IsCurrent(r)')
    BY <1>3, <1>4, Zenon DEF IsCurrent
  <1>7. \A r \in Requests : Unshipped(r)' = IF r = request THEN Len(stack') + Len(buffer) ELSE 0
    BY <1>4, <1>6 DEF Unshipped
  <1>8. \A r \in Requests : Unshipped(r) = IF r = request THEN Len(stack) + Len(buffer) ELSE 0
    BY <1>6 DEF Unshipped
  <1>9. \/ drop_counter' = [drop_counter EXCEPT ![request] = @ + 1] /\ Len(stack') = Len(stack)
        \/ drop_counter' = drop_counter /\ Len(stack') = Len(stack) + 1
    <2>1. CASE BeginDroppedByDepth(fn) \/ BeginDroppedByCap(fn)
      BY <2>1 DEF BeginDroppedByDepth, BeginDroppedByCap, RecordDrop
    <2>2. CASE BeginAccepted(fn)
      <3>1. drop_counter' = drop_counter
        BY <2>2 DEF BeginAccepted
      <3>2. PICK frame : stack' = Append(stack, frame)
        BY <2>2 DEF BeginAccepted
      <3>3. Len(stack') = Len(stack) + 1
        BY <3>2, StackFacts
      <3>. QED  BY <3>1, <3>3
    <2>. QED  BY <1>1, <2>1, <2>2
  <1>10. \A r \in Requests : begun'[r] - drop_counter'[r] - Unshipped(r)'
                                = begun[r] - drop_counter[r] - Unshipped(r)
    <2>. TAKE r \in Requests
    <2>1. CASE r = request
      <3>1. /\ begun'[r] = begun[r] + 1
            /\ Unshipped(r)' = Len(stack') + Len(buffer) /\ Unshipped(r) = Len(stack) + Len(buffer)
        BY <1>4, <1>5, <1>7, <1>8, <2>1
      <3>2. \/ drop_counter'[r] = drop_counter[r] + 1 /\ Len(stack') = Len(stack)
            \/ drop_counter'[r] = drop_counter[r] /\ Len(stack') = Len(stack) + 1
        BY <1>5, <1>9, <2>1
      <3>3. begun[r] \in Nat /\ drop_counter[r] \in Nat
            /\ Len(stack) \in Nat /\ Len(buffer) \in Nat
        BY <1>5
      <3>4. CASE drop_counter'[r] = drop_counter[r] + 1 /\ Len(stack') = Len(stack)
        BY <3>1, <3>3, <3>4, SMTT(30)
      <3>5. CASE drop_counter'[r] = drop_counter[r] /\ Len(stack') = Len(stack) + 1
        BY <3>1, <3>3, <3>5
      <3>. QED  BY <3>2, <3>4, <3>5
    <2>2. CASE r # request
      <3>1. Unshipped(r)' = 0 /\ Unshipped(r) = 0
        BY <1>7, <1>8, <2>2
      <3>2. begun'[r] = begun[r] /\ drop_counter'[r] = drop_counter[r]
        BY <1>4, <1>5, <1>9, <2>2
      <3>. QED  BY <3>1, <3>2
    <2>. QED  BY <2>1, <2>2
  <1>11. UNCHANGED flushed /\ UNCHANGED fate
    BY <1>4
  <1>. QED  BY <1>10, <1>11, AccountKept

LEMMA AccountEndAccepted ==
    ASSUME TypeOK, TypeOK', LifoCount, EveryCallAccountedFor,
           NEW threw \in Throws, EndAccepted(threw)
    PROVE  EveryCallAccountedFor'
  <1>. DEFINE calls == Append(buffer, EndRecord(threw))
              size  == buffer_estimated_bytes + CALL_RECORD_FIXED_BYTES
              bytes == bytes_in_memory + CALL_RECORD_FIXED_BYTES
              batch == PendingBatch(calls, size)
  <1>1. /\ EngineEnds /\ trace_live /\ refused = <<>>
        /\ stack # <<>> /\ stack' = Front(stack)
        /\ EndRecord(threw) \in Records /\ bytes \in Int /\ batch \in Batches
        /\ \/ /\ buffer' = <<>> /\ TrySendBatch(batch, bytes)
           \/ /\ buffer' = calls /\ UNCHANGED <<flushed, fate>>
    BY EndCases
  <1>2. UNCHANGED <<request, begun, drop_counter>>
    BY <1>1 DEF EngineEnds
  <1>3. trace_live'
    BY <1>1, Zenon DEF EngineEnds
  <1>4. /\ Len(stack) \in Nat /\ Len(buffer) \in Nat /\ Len(stack) >= 1
        /\ Len(stack') = Len(stack) - 1 /\ Len(calls) = Len(buffer) + 1
    <2>1. Len(stack) \in Nat /\ Len(stack) >= 1 /\ Len(stack') = Len(stack) - 1
      <3>1. stack # <<>> /\ stack' = Front(stack) /\ stack \in Seq(Frames)
        BY <1>1 DEF TypeOK, TraceTypeOK
      <3>2. Len(stack) \in Nat /\ Len(stack) # 0
        BY <3>1, EmptySeq, LenProperties
      <3>. QED  BY <3>1, <3>2, FrontProperties
    <2>2. Len(buffer) \in Nat /\ Len(calls) = Len(buffer) + 1
      <3>1. buffer \in Seq(Records) /\ EndRecord(threw) \in Records
        BY <1>1, BudgetTyped
      <3>. QED  BY <3>1, AppendProperties, LenProperties
    <2>. QED  BY <2>1, <2>2
  <1>5. batch.trace = request /\ batch.calls = calls
    BY DEF PendingBatch
  <1>. HIDE DEF calls, bytes, batch
  <1>6. \A r \in Requests : (r = request => IsCurrent(r) /\ IsCurrent(r)')
                            /\ (r # request => ~IsCurrent(r) /\ ~IsCurrent(r)')
    BY <1>1, <1>2, <1>3, Zenon DEF IsCurrent
  <1>7. \A r \in Requests : Unshipped(r)' = IF r = request THEN Len(stack') + Len(buffer') ELSE 0
    BY <1>6 DEF Unshipped
  <1>8. \A r \in Requests : Unshipped(r) = IF r = request THEN Len(stack) + Len(buffer) ELSE 0
    BY <1>6 DEF Unshipped
  <1>9. CASE buffer' = <<>> /\ TrySendBatch(batch, bytes)
    <2>. DEFINE left == Len(stack) - 1
    <2>1. request \in Requests
      BY <1>1, Zenon DEF TypeOK, EnvTypeOK
    <2>2. Unshipped(request)' = left /\ \A r \in Requests : r # request => Unshipped(r)' = 0
      <3>1. Len(buffer') = 0
        BY <1>9
      <3>2. Len(stack') \in Int /\ Len(stack') + 0 = left
        BY <1>4
      <3>. QED  BY <1>2, <1>7, <2>1, <3>1, <3>2
    <2>3. left \in Nat /\ Len(stack) + Len(buffer) = Len(batch.calls) + left
      BY <1>4, <1>5
    <2>. HIDE DEF left
    <2>. QED  BY <1>1, <1>2, <1>5, <1>9, <2>2, <2>3, AccountFlushed
  <1>10. CASE buffer' = calls /\ UNCHANGED <<flushed, fate>>
    <2>1. \A r \in Requests : Unshipped(r)' = Unshipped(r)
      BY <1>4, <1>7, <1>8, <1>10
    <2>2. UNCHANGED flushed /\ UNCHANGED fate
      BY <1>10
    <2>3. \A r \in Requests : begun'[r] - drop_counter'[r] - Unshipped(r)'
                                  = begun[r] - drop_counter[r] - Unshipped(r)
      BY <1>2, <2>1
    <2>. QED  BY <2>2, <2>3, AccountKept
  <1>. QED  BY <1>1, <1>9, <1>10

LEMMA AccountRShutdown ==
    ASSUME TypeOK, TypeOK', EveryCallAccountedFor, RShutdown
    PROVE  EveryCallAccountedFor'
  <1>. DEFINE added == CALL_RECORD_FIXED_BYTES * Len(stack)
              calls == buffer \o DrainedRecords
              size  == buffer_estimated_bytes + added
              bytes == bytes_in_memory + added
              batch == PendingBatch(calls, size)
  <1>1. /\ trace_live /\ refused = <<>> /\ bytes \in Int /\ batch \in Batches
        /\ Len(calls) = Len(buffer) + Len(stack)
        /\ \/ TrySendBatch(batch, bytes)
           \/ Len(calls) = 0 /\ UNCHANGED <<flushed, fate>>
    BY ShutdownCases
  <1>2. UNCHANGED <<request, begun, drop_counter>>
    BY ShutdownCases, Zenon
  <1>3. ~trace_live'
    BY ShutdownCases
  <1>4. batch.trace = request /\ batch.calls = calls
    BY DEF PendingBatch
  <1>. HIDE DEF calls, bytes, batch
  <1>5. \A r \in Requests : Unshipped(r)' = 0
    <2>1. \A r \in Requests : ~IsCurrent(r)'
      BY <1>3, Zenon DEF IsCurrent
    <2>. QED  BY <2>1 DEF Unshipped
  <1>6. request \in Requests
    BY <1>1, Zenon DEF TypeOK, EnvTypeOK
  <1>7. Len(stack) \in Nat /\ Len(buffer) \in Nat
    BY <1>6, AccountTyped
  <1>8. CASE TrySendBatch(batch, bytes)
    <2>1. Len(stack) + Len(buffer) = Len(batch.calls) + 0
      BY <1>1, <1>4, <1>7
    <2>. QED  BY <1>1, <1>2, <1>4, <1>5, <1>6, <1>8, <2>1, AccountFlushed
  <1>9. CASE Len(calls) = 0 /\ UNCHANGED <<flushed, fate>>
    <2>1. \A r \in Requests : Unshipped(r) = 0
      <3>1. Len(stack) + Len(buffer) = 0
        <4>1. Len(calls) = 0 /\ Len(calls) = Len(buffer) + Len(stack)
          BY <1>1, <1>9, Zenon
        <4>. QED  BY <1>7, <4>1
      <3>2. ASSUME NEW r \in Requests
            PROVE  Unshipped(r) = 0
        <4>1. (IsCurrent(r) => Unshipped(r) = Len(stack) + Len(buffer))
                 /\ (~IsCurrent(r) => Unshipped(r) = 0)
          BY AccountTyped
        <4>. QED  BY <3>1, <4>1
      <3>. QED  BY <3>2
    <2>2. \A r \in Requests : begun'[r] - drop_counter'[r] - Unshipped(r)'
                                  = begun[r] - drop_counter[r] - Unshipped(r)
      BY <1>2, <1>5, <2>1
    <2>3. UNCHANGED flushed /\ UNCHANGED fate
      BY <1>9
    <2>. QED  BY <2>2, <2>3, AccountKept
  <1>. QED  BY <1>1, <1>8, <1>9

\* The shipper's other steps change no fate from or to counted.
LEMMA CountedSame ==
    ASSUME TypeOK, HoldersInv,
           ShipperReceives \/ ShipperReleases \/ ShipperPanics \/ UNCHANGED vars
    PROVE  \A i \in Numbers : fate'[i] \in {"refused", "given_up"}
                                    <=> fate[i] \in {"refused", "given_up"}
  <1>1. CASE ShipperReceives
    <2>. DEFINE k == queue[1].no
    <2>1. queue # <<>> /\ Head(queue) = queue[1] /\ 1 \in 1..Len(queue)
      <3>1. queue # <<>>
        BY <1>1 DEF ShipperReceives
      <3>. QED  BY <3>1, SharedFacts, EmptySeq, LenProperties, HeadTailProperties
    <2>2. fate' = [fate EXCEPT ![k] = "in_flight"]
      BY <1>1, <2>1 DEF ShipperReceives
    <2>3. k \in Numbers /\ fate[k] = "queued"
      BY <2>1 DEF HoldersInv, QueueInv, InHistory
    <2>. HIDE DEF k
    <2>4. fate'[k] = "in_flight" /\ \A i \in Numbers : i # k => fate'[i] = fate[i]
      BY <2>2, <2>3, FateExcept
    <2>. QED  BY <2>3, <2>4
  <1>2. CASE ShipperReleases
    <2>. DEFINE k == in_flight[1].no
    <2>1. in_flight # <<>>
          /\ fate' = IF counted THEN fate ELSE [fate EXCEPT ![k] = "delivered"]
      BY <1>2, NumbersAre DEF ShipperReleases
    <2>2. CASE counted
      BY <2>1, <2>2
    <2>3. CASE ~counted
      <3>1. k \in Numbers /\ fate[k] = "in_flight"
        BY <2>1, <2>3 DEF HoldersInv, InFlightInv, InHistory
      <3>2. fate'[k] = "delivered" /\ \A i \in Numbers : i # k => fate'[i] = fate[i]
        <4>1. fate' = [fate EXCEPT ![k] = "delivered"]
          BY <2>1, <2>3
        <4>. HIDE DEF k
        <4>. QED  BY <3>1, <4>1, FateBecomes, Zenon
      <3>. QED  BY <3>1, <3>2
    <2>. QED  BY <2>2, <2>3
  <1>3. CASE ShipperPanics
    BY <1>3, NumbersAre DEF ShipperPanics
  <1>4. CASE UNCHANGED vars
    BY <1>4 DEF vars, shared_vars
  <1>. QED  BY <1>1, <1>2, <1>3, <1>4

LEMMA AccountStep ==
    ASSUME TypeOK, TypeOK', LifoCount, HoldersInv, IdleInv, EveryCallAccountedFor, [Next]_vars
    PROVE  EveryCallAccountedFor'
  <1>1. CASE RInit
    <2>1. UNCHANGED <<begun, drop_counter, flushed, fate>>
      BY <1>1 DEF RInit, shared_vars
    <2>2. ~trace_live /\ stack' = <<>> /\ buffer' = <<>>
      BY <1>1, Zenon DEF RInit, ResetTrace
    <2>3. \A r \in Requests : Unshipped(r)' = 0 /\ Unshipped(r) = 0
      <3>. TAKE r \in Requests
      <3>1. Unshipped(r) = 0
        <4>1. ~IsCurrent(r)
          BY <2>2, Zenon DEF IsCurrent
        <4>. QED  BY <4>1, AccountTyped
      <3>2. Unshipped(r)' = IF IsCurrent(r)' THEN Len(stack') + Len(buffer') ELSE 0
        BY DEF Unshipped
      <3>3. Len(stack') = 0 /\ Len(buffer') = 0
        BY <2>2
      <3>. QED  BY <3>1, <3>2, <3>3
    <2>4. \A r \in Requests : begun'[r] - drop_counter'[r] - Unshipped(r)'
                                  = begun[r] - drop_counter[r] - Unshipped(r)
      BY <2>1, <2>3
    <2>5. UNCHANGED flushed /\ UNCHANGED fate
      BY <2>1
    <2>. QED  BY <2>4, <2>5, AccountKept
  <1>2. CASE EndOfDroppedBegin
    <2>1. UNCHANGED <<flushed, fate, begun, drop_counter, stack, buffer, request>>
      BY <1>2 DEF EndOfDroppedBegin, EngineEnds
    <2>2. trace_live' <=> trace_live
      BY <1>2, Zenon DEF EndOfDroppedBegin, EngineEnds
    <2>3. UNCHANGED <<flushed, begun, drop_counter, stack, buffer, request>> /\ UNCHANGED fate
      BY <2>1
    <2>. QED  BY <2>2, <2>3, AccountUntouched
  <1>3. CASE DiscardRefused
    <2>. DEFINE k == refused[1].no
    <2>1. /\ refused # <<>> /\ fate' = [fate EXCEPT ![k] = "refused"]
          /\ drop_counter' = [drop_counter EXCEPT ![refused[1].trace] = @ + Len(refused[1].calls)]
          /\ UNCHANGED <<flushed, begun, stack, buffer, request>>
      BY <1>3, NumbersAre DEF DiscardRefused, trace_vars, env_vars
    <2>2. k \in Numbers /\ fate[k] = "refusing" /\ flushed[k] = refused[1]
      BY <2>1 DEF HoldersInv, RefusedInv, InHistory
    <2>. HIDE DEF k
    <2>3. fate'[k] = "refused" /\ \A i \in Numbers : i # k => fate'[i] = fate[i]
      <3>1. k \in Numbers /\ fate' = [fate EXCEPT ![k] = "refused"]
        BY <2>1, <2>2
      <3>. QED  BY <3>1, FateExcept
    <2>4. drop_counter' = [drop_counter EXCEPT ![flushed[k].trace] = @ + Len(flushed[k].calls)]
      BY <2>1, <2>2
    <2>5. trace_live' <=> trace_live
      BY <1>3, Zenon DEF DiscardRefused, trace_vars
    <2>6. \A r \in Requests : Unshipped(r)' = Unshipped(r)
      BY <2>1, <2>5, UnshippedSame
    <2>7. UNCHANGED <<flushed, begun>>
      BY <2>1
    <2>. QED  BY <2>2, <2>3, <2>4, <2>6, <2>7, AccountCounted
  <1>4. CASE ShipperCountsDrop
    <2>. DEFINE k == in_flight[1].no
    <2>1. /\ in_flight # <<>> /\ fate' = [fate EXCEPT ![k] = "given_up"]
          /\ drop_counter' = [drop_counter EXCEPT ![in_flight[1].trace] =
                                    @ + Len(in_flight[1].calls)]
          /\ UNCHANGED <<flushed, begun, stack, buffer, request>>
      BY <1>4, NumbersAre DEF ShipperCountsDrop, trace_vars, env_vars
    <2>2. ~counted
      BY <1>4, Zenon DEF ShipperCountsDrop
    <2>3. k \in Numbers /\ fate[k] = "in_flight" /\ flushed[k] = in_flight[1]
      BY <2>1, <2>2 DEF HoldersInv, InFlightInv, InHistory
    <2>. HIDE DEF k
    <2>4. fate'[k] = "given_up" /\ \A i \in Numbers : i # k => fate'[i] = fate[i]
      <3>1. k \in Numbers /\ fate' = [fate EXCEPT ![k] = "given_up"]
        BY <2>1, <2>3
      <3>. QED  BY <3>1, FateExcept
    <2>5. drop_counter' = [drop_counter EXCEPT ![flushed[k].trace] = @ + Len(flushed[k].calls)]
      BY <2>1, <2>3
    <2>6. trace_live' <=> trace_live
      BY <1>4, Zenon DEF ShipperCountsDrop, trace_vars
    <2>7. \A r \in Requests : Unshipped(r)' = Unshipped(r)
      BY <2>1, <2>6, UnshippedSame
    <2>8. UNCHANGED <<flushed, begun>>
      BY <2>1
    <2>. QED  BY <2>3, <2>4, <2>5, <2>7, <2>8, AccountCounted
  <1>5. CASE ShipperReceives \/ ShipperReleases \/ ShipperPanics \/ UNCHANGED vars
    <2>0. UNCHANGED trace_vars /\ UNCHANGED env_vars /\ UNCHANGED <<flushed, drop_counter>>
      BY <1>5, Zenon DEF ShipperReceives, ShipperReleases, ShipperPanics, vars, shared_vars
    <2>1. UNCHANGED <<flushed, begun, drop_counter, stack, buffer, request>>
      BY <2>0 DEF trace_vars, env_vars
    <2>2. trace_live' <=> trace_live
      BY <2>0, Zenon DEF trace_vars
    <2>3. \A i \in Numbers : fate'[i] \in {"refused", "given_up"}
                                    <=> fate[i] \in {"refused", "given_up"}
      BY <1>5, CountedSame
    <2>. QED  BY <2>1, <2>2, <2>3, AccountUntouched
  <1>. QED  BY <1>1, <1>2, <1>3, <1>4, <1>5, AccountBegin, AccountEndAccepted, AccountRShutdown
            DEF Next, RequestThread, Shipper, End

-----------------------------------------------------------------------------
(* Both ledgers.                                                           *)

\* Every byte billed belongs to a record still buffered or held, or to a batch a
\* panic destroyed; every call that began is recorded in a batch, about to be,
\* or counted as dropped, once.
THEOREM LedgersCorrect == Spec => []LedgersBalance
  <1>1. Init => IdleInv /\ EstimatesExact /\ BytesExact /\ EveryCallAccountedFor
    BY IdleInit, EstimatesInit, BytesInit, AccountInit
  <1>2. /\ TypeOK /\ StackInv /\ HoldersInv /\ TypeOK' /\ StackInv' /\ HoldersInv'
        /\ IdleInv /\ EstimatesExact /\ BytesExact /\ EveryCallAccountedFor
        /\ [Next]_vars
        => IdleInv' /\ EstimatesExact' /\ BytesExact' /\ EveryCallAccountedFor'
    BY IdleStep, EstimatesStep, BytesStep, AccountStep DEF StackInv
  <1>3. EstimatesExact /\ BytesExact /\ EveryCallAccountedFor => LedgersBalance
    BY BalanceParts DEF LedgersBalance
  <1>. QED  BY <1>1, <1>2, <1>3, HoldersAlways, PTL DEF Spec

=============================================================================
