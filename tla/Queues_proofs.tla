--------------------------- MODULE Queues_proofs ----------------------------
(***************************************************************************)
(* What the operations on the alert queue and on the spool preserve, for   *)
(* every policy the configuration accepts: their types, the bound of the   *)
(* queue, and the alert or the clip in flight at the front.                *)
(***************************************************************************)
EXTENDS AlertQueue, Spool, TLAPS, WellFoundedInduction, SequenceTheorems

\* Every inhabited set of naturals has a least element.
LEMMA LeastNumber ==
  ASSUME NEW T \in SUBSET Nat, T # {}
  PROVE  \E x \in T : \A y \in T : x <= y
<1>1. PICK x \in T : \A y \in T : ~ (<<y, x>> \in OpToRel(<, Nat))
  BY WFMin, NatLessThanWellFounded
<1>2. \A y \in T : ~ (y < x)
  BY <1>1 DEF OpToRel
<1> QED  BY <1>2

\* The positions of a sequence that are to be kept can be listed in order.
LEMMA ListingExists ==
  ASSUME NEW n \in Nat, NEW I \in SUBSET (1 .. n)
  PROVE  \E f \in Listings(I, n) : TRUE
<1> DEFINE Bad == {m \in Nat : \E J \in SUBSET (1 .. m) : Listings(J, m) = {}}
<1>1. SUFFICES Bad = {}
  OBVIOUS
<1>2. SUFFICES ASSUME Bad # {} PROVE FALSE
  OBVIOUS
<1>3. PICK m \in Bad : \A k \in Bad : m <= k
  <2>1. Bad \in SUBSET Nat
    OBVIOUS
  <2> QED  BY <2>1, <1>2, LeastNumber
<1>4. PICK J \in SUBSET (1 .. m) : Listings(J, m) = {}
  OBVIOUS
<1>5. m \in Nat
  OBVIOUS
<1>6. CASE m = 0
  <2> DEFINE g == [k \in 1 .. 0 |-> 0]
  <2>1. J = {}
    BY <1>6
  <2>2. g \in [1 .. 0 -> J] /\ DOMAIN g = {}
    BY <2>1
  <2>3. g \in Listings(J, m)
    BY <2>1, <2>2, <1>6 DEF Listings
  <2> QED  BY <2>3, <1>4
<1>7. CASE m > 0
  <2> DEFINE K == J \ {m}
  <2>1. K \in SUBSET (1 .. (m - 1)) /\ m - 1 \in Nat
    BY <1>5, <1>7
  <2>2. m - 1 \notin Bad
    BY <1>3, <1>5, <1>7
  <2>3. PICK f \in Listings(K, m - 1) : TRUE
    BY <2>1, <2>2
  <2>4. PICK l \in 0 .. (m - 1) : f \in [1 .. l -> K]
    BY <2>3 DEF Listings
  <2>5. /\ \A i \in K : \E k \in 1 .. l : f[k] = i
        /\ \A j, k \in 1 .. l : j < k => f[j] < f[k]
    BY <2>3, <2>4 DEF Listings
  <2>6. CASE m \notin J
    <3>1. K = J /\ l \in 0 .. m
      BY <2>6, <1>5, <1>7
    <3>2. f \in Listings(J, m)
      BY <3>1, <2>3, <2>4 DEF Listings
    <3> QED  BY <3>2, <1>4
  <2>7. CASE m \in J
    <3> DEFINE g == [k \in 1 .. (l + 1) |-> IF k = l + 1 THEN m ELSE f[k]]
    <3>1. l + 1 \in 0 .. m
      BY <2>4, <1>5, <1>7
    <3>2. g \in [1 .. (l + 1) -> J]
      <4>1. \A k \in 1 .. (l + 1) : k # l + 1 => k \in 1 .. l
        BY <2>4
      <4> QED  BY <4>1, <2>4, <2>7
    <3>3. \A i \in J : \E k \in DOMAIN g : g[k] = i
      <4> TAKE i \in J
      <4>1. CASE i = m
        BY <4>1, <2>4
      <4>2. CASE i # m
        <5>1. PICK k \in 1 .. l : f[k] = i
          BY <4>2, <2>5
        <5>2. k \in 1 .. (l + 1) /\ k # l + 1
          BY <2>4
        <5> QED  BY <5>1, <5>2
      <4> QED  BY <4>1, <4>2
    <3>4. \A j, k \in DOMAIN g : j < k => g[j] < g[k]
      <4> TAKE j, k \in DOMAIN g
      <4> HAVE j < k
      <4>1. j \in 1 .. l /\ j # l + 1
        BY <2>4
      <4>2. g[j] = f[j] /\ f[j] \in K
        BY <4>1, <2>4
      <4>3. f[j] < m
        <5>1. f[j] \in 1 .. (m - 1)
          BY <4>2, <2>1
        <5> QED  BY <5>1, <1>5
      <4>4. CASE k = l + 1
        BY <4>2, <4>3, <4>4, <2>4
      <4>5. CASE k # l + 1
        <5>1. k \in 1 .. l
          BY <4>5, <2>4
        <5>2. g[k] = f[k]
          BY <4>5
        <5> QED  BY <5>1, <5>2, <4>1, <4>2, <2>5
      <4> QED  BY <4>4, <4>5
    <3>5. g \in Listings(J, m)
      BY <3>1, <3>2, <3>3, <3>4 DEF Listings
    <3> QED  BY <3>5, <1>4
  <2> QED  BY <2>6, <2>7
<1> QED  BY <1>5, <1>6, <1>7

\* What is kept of a sequence is no longer than it, and starts as it does if the
\* first position is among those kept.
LEMMA KeepProperties ==
  ASSUME NEW S, NEW s \in Seq(S), NEW I \in SUBSET Positions(s)
  PROVE  /\ Keep(s, I) \in Seq(S)
         /\ Len(Keep(s, I)) <= Len(s)
         /\ 1 \in I => Keep(s, I) # <<>> /\ Keep(s, I)[1] = s[1]
<1>1. Len(s) \in Nat /\ s \in [1 .. Len(s) -> S]
  BY LenProperties
<1>2. CASE I = Positions(s)
  <2>1. Keep(s, I) = s
    BY <1>2 DEF Keep
  <2>2. 1 \in I => s # <<>>
    BY <1>1, <1>2 DEF Positions
  <2> QED  BY <2>1, <2>2, <1>1
<1>3. CASE I # Positions(s)
  <2>1. PICK f \in Listings(I, Len(s)) : f = CHOOSE g \in Listings(I, Len(s)) : TRUE
    BY <1>1, ListingExists DEF Positions
  <2>2. PICK m \in 0 .. Len(s) : f \in [1 .. m -> I]
    BY <2>1 DEF Listings
  <2> DEFINE r == [k \in DOMAIN f |-> s[f[k]]]
  <2>3. Keep(s, I) = r
    BY <1>3, <2>1 DEF Keep
  <2>4. r \in [1 .. m -> S] /\ m \in Nat /\ m <= Len(s)
    <3>1. \A k \in 1 .. m : f[k] \in 1 .. Len(s)
      BY <2>2 DEF Positions
    <3> QED  BY <3>1, <2>2, <1>1
  <2>5. r \in Seq(S) /\ Len(r) = m
    BY <2>4
  <2>6. ASSUME 1 \in I PROVE r # <<>> /\ r[1] = s[1]
    <3>1. PICK k \in 1 .. m : f[k] = 1
      BY <2>1, <2>2, <2>6 DEF Listings
    <3>2. m >= 1 /\ 1 \in 1 .. m
      BY <3>1, <2>4
    <3>3. f[1] = 1
      <4>1. f[1] >= 1
        <5>1. f[1] \in 1 .. Len(s)
          BY <2>2, <3>2 DEF Positions
        <5> QED  BY <5>1, <1>1
      <4>2. 1 < k => f[1] < f[k]
        BY <2>1, <2>2, <3>1, <3>2 DEF Listings
      <4>3. f[1] \in Int /\ k \in Nat /\ k >= 1
        <5>1. f[1] \in 1 .. Len(s)
          BY <2>2, <3>2 DEF Positions
        <5> QED  BY <5>1, <1>1, <2>4
      <4> QED  BY <4>1, <4>2, <4>3, <3>1
    <3> QED  BY <3>2, <3>3, <2>2, <2>4, <2>5
  <2> QED  BY <2>3, <2>4, <2>5, <2>6
<1> QED  BY <1>2, <1>3

\* Whatever is kept is there afterwards.
LEMMA KeepMembers ==
  ASSUME NEW S, NEW s \in Seq(S), NEW I \in SUBSET Positions(s), NEW i \in I
  PROVE  \E k \in Positions(Keep(s, I)) : Keep(s, I)[k] = s[i]
<1>1. Len(s) \in Nat /\ s \in [1 .. Len(s) -> S]
  BY LenProperties
<1>2. CASE I = Positions(s)
  BY <1>2 DEF Keep
<1>3. CASE I # Positions(s)
  <2>1. PICK f \in Listings(I, Len(s)) : f = CHOOSE g \in Listings(I, Len(s)) : TRUE
    BY <1>1, ListingExists DEF Positions
  <2>2. PICK m \in 0 .. Len(s) : f \in [1 .. m -> I]
    BY <2>1 DEF Listings
  <2> DEFINE r == [k \in DOMAIN f |-> s[f[k]]]
  <2>3. Keep(s, I) = r
    BY <1>3, <2>1 DEF Keep
  <2>4. r \in [1 .. m -> S] /\ m \in Nat
    <3>1. \A k \in 1 .. m : f[k] \in 1 .. Len(s)
      BY <2>2 DEF Positions
    <3> QED  BY <3>1, <2>2, <1>1
  <2>5. r \in Seq(S) /\ Len(r) = m
    BY <2>4
  <2>6. PICK k \in 1 .. m : f[k] = i
    BY <2>1, <2>2 DEF Listings
  <2>7. r[k] = s[i]
    BY <2>2, <2>6
  <2> QED  BY <2>3, <2>5, <2>6, <2>7 DEF Positions
<1> QED  BY <1>2, <1>3

\* A concatenation is as long as its parts together and starts with the first.
LEMMA ConcatFront ==
  ASSUME NEW S, NEW a \in Seq(S), NEW b \in Seq(S)
  PROVE  /\ a \o b \in Seq(S)
         /\ Len(a \o b) = Len(a) + Len(b)
         /\ \A i \in 1 .. Len(a) : (a \o b)[i] = a[i]
<1>1. Len(a) \in Nat /\ Len(b) \in Nat
  BY LenProperties
<1> QED  BY <1>1, ConcatProperties

\* Leaving out some elements in the middle of a sequence.
LEMMA DropProperties ==
  ASSUME NEW S, NEW s \in Seq(S), NEW kept \in Nat, kept <= Len(s),
         NEW n \in Nat
  PROVE  /\ Drop(s, kept, n) \in Seq(S)
         /\ Len(Drop(s, kept, n)) =
              IF kept + n <= Len(s) THEN Len(s) - n ELSE kept
         /\ \A i \in 1 .. kept : Drop(s, kept, n)[i] = s[i]
<1> DEFINE front == SubSeq(s, 1, kept)
           back  == SubSeq(s, kept + n + 1, Len(s))
<1>1. Len(s) \in Nat /\ s \in [1 .. Len(s) -> S]
  BY LenProperties
<1>2. /\ front \in Seq(S)
      /\ Len(front) = kept
      /\ \A i \in 1 .. kept : front[i] = s[i]
  BY <1>1, SubSeqProperties
<1>3. /\ back \in Seq(S)
      /\ Len(back) = IF kept + n <= Len(s) THEN Len(s) - (kept + n) ELSE 0
  <2>1. \A i \in (kept + n + 1) .. Len(s) : s[i] \in S
    BY <1>1
  <2>2. kept + n + 1 \in Int /\ Len(s) \in Int
    BY <1>1
  <2>3. /\ back \in Seq(S)
        /\ Len(back) = IF kept + n + 1 <= Len(s) THEN Len(s) - (kept + n + 1) + 1 ELSE 0
    BY <2>1, <2>2, SubSeqProperties
  <2> QED  BY <2>3, <1>1
<1>4. Drop(s, kept, n) = front \o back
  BY DEF Drop
<1>5. /\ front \o back \in Seq(S)
      /\ Len(front \o back) = Len(front) + Len(back)
      /\ \A i \in 1 .. Len(front) : (front \o back)[i] = front[i]
  BY <1>2, <1>3, ConcatFront
<1> HIDE DEF front, back
<1>6. Drop(s, kept, n) \in Seq(S)
  BY <1>4, <1>5
<1>7. Len(Drop(s, kept, n)) = IF kept + n <= Len(s) THEN Len(s) - n ELSE kept
  <2>1. Len(Drop(s, kept, n)) = Len(front) + Len(back)
    BY <1>4, <1>5
  <2>2. CASE kept + n <= Len(s)
    BY <2>1, <2>2, <1>1, <1>2, <1>3
  <2>3. CASE ~ (kept + n <= Len(s))
    BY <2>1, <2>3, <1>1, <1>2, <1>3
  <2> QED  BY <2>2, <2>3
<1>8. \A i \in 1 .. kept : Drop(s, kept, n)[i] = s[i]
  BY <1>2, <1>4, <1>5
<1> QED  BY <1>6, <1>7, <1>8

-----------------------------------------------------------------------------
(* The type of the queue.                                                  *)

\* The next wait and the retry time stay within the backoff's bounds.
LEMMA BackoffType ==
  ASSUME NEW wait \in 1 .. RetryMax
  PROVE  /\ Doubled(wait, RetryMax) \in 1 .. RetryMax
         /\ RetryInitial \in 1 .. RetryMax
         /\ wait \in Timer
BY BasicsAssumption DEF Doubled, Lesser, Timer

\* The fields of a queue have their types.
LEMMA QueueFields ==
  ASSUME NEW q \in AlertQueueType
  PROVE  /\ q.entries \in Seq(Alert) /\ q.inFlight \in BOOLEAN
         /\ q.backoff \in 1 .. RetryMax /\ q.retryAfter \in Timer
BY DEF AlertQueueType

\* The queue the core starts with is a queue.
LEMMA EmptyQueueType == EmptyQueue \in AlertQueueType
BY BasicsAssumption DEF EmptyQueue, AlertQueueType, Timer

\* push keeps the queue's type, grows it to no more than its capacity unless
\* all the room there is belongs to the alert in flight, and leaves that alert
\* at the front.
LEMMA PushAlertProperties ==
  ASSUME NEW q \in AlertQueueType, NEW alert \in Alert,
         q.inFlight => q.entries # <<>>
  PROVE  /\ PushAlert(q, alert) \in AlertQueueType
         /\ PushAlert(q, alert).inFlight = q.inFlight
         /\ PushAlert(q, alert).entries # <<>>
         /\ q.inFlight => PushAlert(q, alert).entries[1] = q.entries[1]
         /\ \A bound \in Nat :
              /\ AlertCapacity <= bound
              /\ AlertCapacity = 1 => 2 <= bound
              /\ Len(q.entries) <= bound
              => Len(PushAlert(q, alert).entries) <= bound
<1> DEFINE kept == Protected(q)
           room == IF Len(q.entries) >= AlertCapacity
                     THEN Drop(q.entries, kept, 1) ELSE q.entries
<1>1. /\ q.entries \in Seq(Alert) /\ q.inFlight \in BOOLEAN
      /\ Len(q.entries) \in Nat
  BY QueueFields, LenProperties
<1>2. /\ kept \in {0, 1}
      /\ kept <= Len(q.entries)
      /\ kept = 1 <=> q.inFlight
  BY <1>1 DEF Protected
<1>3. /\ room \in Seq(Alert)
      /\ \A i \in 1 .. kept : room[i] = q.entries[i]
      /\ Len(room) = IF Len(q.entries) >= AlertCapacity
                       THEN IF kept + 1 <= Len(q.entries) THEN Len(q.entries) - 1 ELSE kept
                       ELSE Len(q.entries)
  <2>1. CASE Len(q.entries) >= AlertCapacity
    <3>1. room = Drop(q.entries, kept, 1)
      BY <2>1
    <3>2. kept \in Nat /\ kept <= Len(q.entries) /\ 1 \in Nat
      BY <1>1, <1>2
    <3>3. /\ Drop(q.entries, kept, 1) \in Seq(Alert)
          /\ Len(Drop(q.entries, kept, 1))
               = IF kept + 1 <= Len(q.entries) THEN Len(q.entries) - 1 ELSE kept
          /\ \A i \in 1 .. kept : Drop(q.entries, kept, 1)[i] = q.entries[i]
      <4> HIDE DEF kept
      <4> QED  BY <1>1, <3>2, DropProperties
    <3> HIDE DEF room, kept
    <3> QED  BY <2>1, <3>1, <3>3
  <2>2. CASE ~ (Len(q.entries) >= AlertCapacity)
    BY <1>1, <2>2
  <2> QED  BY <2>1, <2>2
<1>4. PushAlert(q, alert) = [q EXCEPT !.entries = Append(room, alert)]
  BY DEF PushAlert
<1> HIDE DEF kept, room
<1>5. /\ Append(room, alert) \in Seq(Alert)
      /\ Len(Append(room, alert)) = Len(room) + 1
      /\ Len(room) \in Nat
      /\ \A i \in 1 .. Len(room) : Append(room, alert)[i] = room[i]
  BY <1>3, AppendProperties, LenProperties
<1>6. /\ PushAlert(q, alert).entries = Append(room, alert)
      /\ PushAlert(q, alert).inFlight = q.inFlight
      /\ PushAlert(q, alert) \in AlertQueueType
  BY <1>4, <1>5 DEF AlertQueueType
<1>7. Append(room, alert) # <<>>
  BY <1>5, EmptySeq
<1>8. q.inFlight => Append(room, alert)[1] = q.entries[1]
  <2>1. q.inFlight => kept = 1 /\ 1 \in 1 .. Len(room)
    BY <1>1, <1>2, <1>3, AlertQueueAssumption
  <2> QED  BY <2>1, <1>3, <1>5
<1>9. ASSUME NEW bound \in Nat, AlertCapacity <= bound,
             AlertCapacity = 1 => 2 <= bound, Len(q.entries) <= bound
      PROVE  Len(Append(room, alert)) <= bound
  BY <1>1, <1>2, <1>3, <1>5, <1>9, AlertQueueAssumption
<1> QED  BY <1>6, <1>7, <1>8, <1>9

\* expire keeps the type and the alert in flight, and adds nothing.
LEMMA ExpireAlertsProperties ==
  ASSUME NEW q \in AlertQueueType, q.inFlight => q.entries # <<>>
  PROVE  /\ ExpireAlerts(q) \in AlertQueueType
         /\ ExpireAlerts(q).inFlight = q.inFlight
         /\ q.inFlight => /\ ExpireAlerts(q).entries # <<>>
                          /\ ExpireAlerts(q).entries[1] = q.entries[1]
         /\ Len(ExpireAlerts(q).entries) <= Len(q.entries)
<1> DEFINE young == {i \in Positions(q.entries) :
                       i <= Protected(q) \/ q.entries[i].age < AlertMaxAge}
<1>1. q.entries \in Seq(Alert) /\ q.inFlight \in BOOLEAN /\ Len(q.entries) \in Nat
  BY QueueFields, LenProperties
<1>2. young \in SUBSET Positions(q.entries)
  OBVIOUS
<1>3. q.inFlight => 1 \in young
  BY <1>1 DEF Positions, Protected
<1>4. ExpireAlerts(q) = [q EXCEPT !.entries = Keep(q.entries, young)]
  BY DEF ExpireAlerts
<1> HIDE DEF young
<1>5. /\ Keep(q.entries, young) \in Seq(Alert)
      /\ Len(Keep(q.entries, young)) <= Len(q.entries)
      /\ 1 \in young => /\ Keep(q.entries, young) # <<>>
                        /\ Keep(q.entries, young)[1] = q.entries[1]
  BY <1>1, <1>2, KeepProperties
<1>6. /\ ExpireAlerts(q).entries = Keep(q.entries, young)
      /\ ExpireAlerts(q).inFlight = q.inFlight
      /\ ExpireAlerts(q) \in AlertQueueType
  BY <1>4, <1>5 DEF AlertQueueType
<1> QED  BY <1>3, <1>5, <1>6

\* Marking the front as sent changes nothing but that mark.
LEMMA MarkSentProperties ==
  ASSUME NEW q \in AlertQueueType
  PROVE  /\ MarkSent(q) \in AlertQueueType
         /\ MarkSent(q).entries = q.entries
         /\ MarkSent(q).inFlight
BY DEF MarkSent, AlertQueueType

\* A failed attempt ends the flight and leaves what is queued.
LEMMA AlertFailedProperties ==
  ASSUME NEW q \in AlertQueueType
  PROVE  /\ AlertFailed(q) \in AlertQueueType
         /\ ~ AlertFailed(q).inFlight
         /\ AlertFailed(q).entries = q.entries
<1>1. q.backoff \in 1 .. RetryMax
  BY QueueFields
<1>2. Doubled(q.backoff, RetryMax) \in 1 .. RetryMax /\ q.backoff \in Timer
  BY <1>1, BackoffType
<1> QED  BY <1>2 DEF AlertFailed, AlertQueueType

\* An answer to the alert in flight ends the flight; any other changes nothing.
LEMMA AlertAnsweredProperties ==
  ASSUME NEW q \in AlertQueueType, NEW id, NEW kind, NEW outcome
  PROVE  /\ AlertAnswered(q, id, kind, outcome) \in AlertQueueType
         /\ Len(AlertAnswered(q, id, kind, outcome).entries) <= Len(q.entries)
         /\ AlertAnswered(q, id, kind, outcome).inFlight =>
              /\ AlertAnswered(q, id, kind, outcome) = q
              /\ q.entries = <<>> \/ Head(q.entries).id # id \/ Head(q.entries).kind # kind
<1> DEFINE p == AlertAnswered(q, id, kind, outcome)
           strange == \/ ~ q.inFlight
                      \/ q.entries = <<>>
                      \/ Head(q.entries).id # id
                      \/ Head(q.entries).kind # kind
<1>1. q.entries \in Seq(Alert) /\ Len(q.entries) \in Nat /\ q.inFlight \in BOOLEAN
  BY QueueFields, LenProperties
<1>2. CASE strange
  BY <1>1, <1>2 DEF AlertAnswered
<1>3. CASE ~ strange /\ outcome = "failed"
  <2>1. p = AlertFailed(q)
    BY <1>3 DEF AlertAnswered
  <2> QED  BY <2>1, <1>1, AlertFailedProperties
<1>4. CASE ~ strange /\ outcome # "failed"
  <2>1. p = [EmptyQueue EXCEPT !.entries = Tail(q.entries)]
    BY <1>4 DEF AlertAnswered
  <2>2. Tail(q.entries) \in Seq(Alert) /\ Len(Tail(q.entries)) = Len(q.entries) - 1
    BY <1>1, <1>4, HeadTailProperties
  <2>3. EmptyQueue \in AlertQueueType /\ ~ EmptyQueue.inFlight
    BY EmptyQueueType DEF EmptyQueue
  <2>4. p \in AlertQueueType /\ p.entries = Tail(q.entries) /\ ~ p.inFlight
    BY <2>1, <2>2, <2>3 DEF AlertQueueType
  <2> QED  BY <2>2, <2>4, <1>1
<1> QED  BY <1>2, <1>3, <1>4

\* A lost link ends the flight and leaves what is queued.
LEMMA AlertLinkLostProperties ==
  ASSUME NEW q \in AlertQueueType
  PROVE  /\ AlertLinkLost(q) \in AlertQueueType
         /\ ~ AlertLinkLost(q).inFlight
         /\ AlertLinkLost(q).entries = q.entries
<1>1. q.inFlight \in BOOLEAN
  BY QueueFields
<1> QED  BY <1>1, AlertFailedProperties DEF AlertLinkLost

\* Time changes neither what is queued nor what is in flight.
LEMMA AlertsOlderProperties ==
  ASSUME NEW q \in AlertQueueType
  PROVE  /\ AlertsOlder(q) \in AlertQueueType
         /\ AlertsOlder(q).inFlight = q.inFlight
         /\ Len(AlertsOlder(q).entries) = Len(q.entries)
         /\ \A i \in 1 .. Len(q.entries) :
              /\ AlertsOlder(q).entries[i].id = q.entries[i].id
              /\ AlertsOlder(q).entries[i].kind = q.entries[i].kind
<1> DEFINE old == [i \in Positions(q.entries) |->
                     [q.entries[i] EXCEPT !.age = Older(@)]]
<1>1. /\ q.entries \in Seq(Alert) /\ q.retryAfter \in Timer
      /\ Len(q.entries) \in Nat
      /\ \A i \in 1 .. Len(q.entries) : q.entries[i] \in Alert
  BY QueueFields, LenProperties
<1>2. \A i \in 1 .. Len(q.entries) :
         /\ old[i] \in Alert
         /\ old[i].id = q.entries[i].id
         /\ old[i].kind = q.entries[i].kind
  <2> TAKE i \in 1 .. Len(q.entries)
  <2> DEFINE e == q.entries[i]
  <2>1. e \in Alert
    BY <1>1
  <2>2. old[i] = [e EXCEPT !.age = Older(e.age)]
    BY DEF Positions
  <2>3. Older(e.age) \in 0 .. AlertMaxAge
    <3>1. e.age \in 0 .. AlertMaxAge
      BY <2>1 DEF Alert
    <3> QED  BY <3>1, AlertQueueAssumption DEF Older
  <2> HIDE DEF e, old
  <2> QED  BY <2>1, <2>2, <2>3 DEF Alert, e
<1>3. old \in Seq(Alert) /\ Len(old) = Len(q.entries)
  <2>1. old \in [1 .. Len(q.entries) -> Alert]
    <3>1. old = [i \in 1 .. Len(q.entries) |-> old[i]]
      BY DEF Positions
    <3> HIDE DEF old
    <3> QED  BY <3>1, <1>2
  <2> HIDE DEF old
  <2> QED  BY <2>1, <1>1
<1>4. Closer(q.retryAfter) \in Timer
  BY <1>1 DEF Closer, Timer
<1>5. AlertsOlder(q) = [q EXCEPT !.entries = old, !.retryAfter = Closer(@)]
  BY DEF AlertsOlder
<1> HIDE DEF old
<1> QED  BY <1>2, <1>3, <1>4, <1>5 DEF AlertQueueType

\* What is not too old and was in q is in p.
Remains(q, p) ==
  \A i \in Positions(q.entries) :
    q.entries[i].age < AlertMaxAge =>
      \E k \in Positions(p.entries) : p.entries[k] = q.entries[i]

\* expire lets go of nothing else.
LEMMA ExpireAlertsRemains ==
  ASSUME NEW q \in AlertQueueType
  PROVE  Remains(q, ExpireAlerts(q))
<1> DEFINE young == {i \in Positions(q.entries) :
                       i <= Protected(q) \/ q.entries[i].age < AlertMaxAge}
<1>1. q.entries \in Seq(Alert)
  BY QueueFields
<1>2. young \in SUBSET Positions(q.entries)
  OBVIOUS
<1>3. ExpireAlerts(q).entries = Keep(q.entries, young)
  <2>1. ExpireAlerts(q) = [q EXCEPT !.entries = Keep(q.entries, young)]
    BY DEF ExpireAlerts
  <2> HIDE DEF young
  <2> QED  BY <2>1 DEF AlertQueueType
<1> SUFFICES ASSUME NEW i \in Positions(q.entries), q.entries[i].age < AlertMaxAge
             PROVE  \E k \in Positions(Keep(q.entries, young)) :
                      Keep(q.entries, young)[k] = q.entries[i]
  BY <1>3 DEF Remains
<1>4. i \in young
  OBVIOUS
<1> HIDE DEF young
<1> QED  BY <1>1, <1>2, <1>4, KeepMembers

\* pump_alerts: what is in flight is queued, and only what is too old goes.
LEMMA PumpAlertsProperties ==
  ASSUME NEW q \in AlertQueueType, q.inFlight => q.entries # <<>>, NEW isOnline
  PROVE  /\ PumpAlerts(q, isOnline, FALSE) \in AlertQueueType
         /\ PumpAlerts(q, isOnline, FALSE).inFlight =>
              PumpAlerts(q, isOnline, FALSE).entries # <<>>
         /\ AlertSent(q, isOnline, FALSE) # <<>> =>
              PumpAlerts(q, isOnline, FALSE).entries # <<>>
         /\ Remains(q, PumpAlerts(q, isOnline, FALSE))
<1> DEFINE fresh  == ExpireAlerts(q)
           pumped == PumpAlerts(q, isOnline, FALSE)
<1>1. /\ fresh \in AlertQueueType
      /\ fresh.inFlight => fresh.entries # <<>>
      /\ Remains(q, fresh)
  BY ExpireAlertsProperties, ExpireAlertsRemains
<1>2. CASE AlertReady(fresh, isOnline)
  <2>1. pumped = MarkSent(fresh) /\ fresh.entries # <<>>
    BY <1>2 DEF PumpAlerts, AlertReady
  <2>2. pumped \in AlertQueueType /\ pumped.entries = fresh.entries
    BY <2>1, <1>1, MarkSentProperties
  <2> QED  BY <2>1, <2>2, <1>1 DEF Remains
<1>3. CASE ~ AlertReady(fresh, isOnline)
  <2>1. pumped = fresh /\ AlertSent(q, isOnline, FALSE) = <<>>
    BY <1>3 DEF PumpAlerts, AlertSent
  <2> QED  BY <2>1, <1>1
<1> QED  BY <1>2, <1>3

-----------------------------------------------------------------------------
(* The spool. *)

\* The fields of a spool have their types.
LEMMA SpoolFields ==
  ASSUME NEW s \in SpoolType
  PROVE  /\ s.clips \in Seq(Clip) /\ s.inFlight \in BOOLEAN
         /\ s.backoff \in 1 .. RetryMax /\ s.retryAfter \in Timer
         /\ Len(s.clips) \in Nat
BY LenProperties DEF SpoolType

\* The spool the core starts with is a spool with nothing in flight.
LEMMA EmptySpoolType == EmptySpool \in SpoolType /\ ~ EmptySpool.inFlight
BY BasicsAssumption DEF EmptySpool, SpoolType, Timer

\* The spool cap drops no more than the clips that may be dropped.
LEMMA ExcessBounded ==
  ASSUME NEW s \in SpoolType, s.clips # <<>>
  PROVE  Excess(s) \in 0 .. (Len(s.clips) - OldestKept(s))
<1> DEFINE droppable == Len(s.clips) - OldestKept(s)
           enough == {n \in 0 .. droppable :
                        n = droppable \/ TotalBytes(Without(s, n)) <= SpoolMax}
<1>1. Len(s.clips) >= 1 /\ Len(s.clips) \in Nat /\ s.inFlight \in BOOLEAN
  BY SpoolFields, EmptySeq
<1>2. droppable \in Nat
  BY <1>1 DEF OldestKept
<1>3. Excess(s) = CHOOSE n \in enough : \A m \in enough : n <= m
  BY DEF Excess
<1> HIDE DEF droppable
<1>4. enough \in SUBSET Nat /\ droppable \in enough
  BY <1>2
<1>5. enough \subseteq 0 .. droppable
  OBVIOUS
<1> HIDE DEF enough
<1>6. \E n \in enough : \A m \in enough : n <= m
  BY <1>4, LeastNumber
<1>7. Excess(s) \in enough
  BY <1>3, <1>6
<1> QED  BY <1>5, <1>7 DEF droppable

\* A clip more: the spool keeps its type and the clip in flight, and what it
\* announces as dropped are clips.
LEMMA AddClipProperties ==
  ASSUME NEW s \in SpoolType, NEW clip \in Clip,
         s.inFlight => s.clips # <<>>
  PROVE  /\ AddClip(s, clip) \in SpoolType
         /\ AddClip(s, clip).inFlight = s.inFlight
         /\ s.inFlight => /\ AddClip(s, clip).clips # <<>>
                          /\ AddClip(s, clip).clips[1] = s.clips[1]
         /\ ClipsDropped(s, clip) \in Seq(Clip)
<1> DEFINE all   == Append(s.clips, clip)
           grown == [s EXCEPT !.clips = Append(@, clip)]
           kept  == OldestKept(grown)
           n     == Excess(grown)
<1>1. /\ s.clips \in Seq(Clip) /\ s.inFlight \in BOOLEAN
      /\ Len(s.clips) \in Nat
  BY SpoolFields
<1>2. /\ all \in Seq(Clip)
      /\ Len(all) = Len(s.clips) + 1
      /\ \A i \in 1 .. Len(s.clips) : all[i] = s.clips[i]
  BY <1>1, AppendProperties
<1> HIDE DEF all
<1>3. /\ grown \in SpoolType
      /\ grown.clips = all /\ grown.inFlight = s.inFlight
  BY <1>2 DEF SpoolType, all
<1>4. grown.clips # <<>>
  BY <1>1, <1>2, <1>3, EmptySeq
<1>5. AddClip(s, clip) = [grown EXCEPT !.clips = Without(grown, n)]
  BY DEF AddClip
<1>6. ClipsDropped(s, clip) = SubSeq(grown.clips, OldestKept(s) + 1, OldestKept(s) + n)
  BY DEF ClipsDropped
<1> HIDE DEF grown
<1>7. /\ kept \in {0, 1} /\ kept = OldestKept(s)
      /\ kept = 1 <=> s.inFlight
      /\ kept <= Len(all)
  BY <1>1, <1>2, <1>3 DEF OldestKept
<1>8. n \in Nat /\ kept + n <= Len(all)
  <2>1. n \in 0 .. (Len(all) - kept)
    BY <1>3, <1>4, ExcessBounded
  <2> QED  BY <2>1, <1>1, <1>2, <1>7
<1> HIDE DEF kept, n
<1>9. Without(grown, n) = Drop(all, kept, n)
  BY <1>3 DEF Without, kept
<1>10. /\ Drop(all, kept, n) \in Seq(Clip)
       /\ Len(Drop(all, kept, n)) = Len(all) - n
       /\ \A i \in 1 .. kept : Drop(all, kept, n)[i] = all[i]
  <2>1. kept \in Nat
    BY <1>7
  <2> QED  BY <2>1, <1>2, <1>7, <1>8, DropProperties
<1>11. AddClip(s, clip).clips = Drop(all, kept, n)
  BY <1>3, <1>5, <1>9 DEF SpoolType
<1>12. /\ AddClip(s, clip) \in SpoolType
       /\ AddClip(s, clip).inFlight = s.inFlight
  BY <1>3, <1>5, <1>9, <1>10 DEF SpoolType
<1>13. ASSUME s.inFlight
       PROVE  /\ AddClip(s, clip).clips # <<>>
              /\ AddClip(s, clip).clips[1] = s.clips[1]
  <2>1. kept = 1 /\ 1 \in 1 .. kept /\ Len(all) - n >= 1
    BY <1>1, <1>2, <1>7, <1>8, <1>13
  <2>2. Len(s.clips) >= 1
    BY <1>1, <1>13, EmptySeq
  <2>3. 1 \in 1 .. Len(s.clips)
    BY <2>2, <1>1
  <2>4. AddClip(s, clip).clips[1] = s.clips[1]
    BY <2>1, <2>3, <1>2, <1>10, <1>11
  <2>5. Len(Drop(all, kept, n)) # 0
    BY <2>1, <1>10
  <2> QED  BY <2>4, <2>5, <1>11, EmptySeq
<1>14. ClipsDropped(s, clip) \in Seq(Clip)
  <2>1. ClipsDropped(s, clip) = SubSeq(all, kept + 1, kept + n)
    BY <1>3, <1>6, <1>7
  <2>2. \A i \in (kept + 1) .. (kept + n) : all[i] \in Clip
    <3>1. all \in [1 .. Len(all) -> Clip] /\ Len(all) \in Nat
      BY <1>2, LenProperties
    <3>2. \A i \in (kept + 1) .. (kept + n) : i \in 1 .. Len(all)
      BY <3>1, <1>7, <1>8
    <3> QED  BY <3>1, <3>2
  <2>3. kept + 1 \in Int /\ kept + n \in Int
    BY <1>7, <1>8
  <2> QED  BY <2>1, <2>2, <2>3, SubSeqProperties
<1> QED  BY <1>12, <1>13, <1>14

\* A failed upload stays in the spool.
LEMMA UploadFailedProperties ==
  ASSUME NEW s \in SpoolType
  PROVE  /\ UploadFailed(s) \in SpoolType
         /\ ~ UploadFailed(s).inFlight
         /\ UploadFailed(s).clips = s.clips
<1>1. s.backoff \in 1 .. RetryMax
  BY SpoolFields
<1>2. Doubled(s.backoff, RetryMax) \in 1 .. RetryMax /\ s.backoff \in Timer
  BY <1>1, BackoffType
<1> QED  BY <1>2 DEF UploadFailed, SpoolType

\* However an upload ends, the spool counts none as in flight any more.
LEMMA UploadAnsweredProperties ==
  ASSUME NEW s \in SpoolType, NEW id, NEW ok \in BOOLEAN
  PROVE  /\ UploadAnswered(s, id, ok) \in SpoolType
         /\ ~ UploadAnswered(s, id, ok).inFlight
<1>1. CASE ~ ok
  BY <1>1, UploadFailedProperties DEF UploadAnswered
<1>2. CASE ok
  <2> DEFINE rest == IF s.clips # <<>> /\ Head(s.clips).id = id
                       THEN Tail(s.clips) ELSE s.clips
  <2>1. UploadAnswered(s, id, ok) = [EmptySpool EXCEPT !.clips = rest]
    BY <1>2 DEF UploadAnswered
  <2>2. rest \in Seq(Clip)
    BY SpoolFields, HeadTailProperties
  <2> HIDE DEF rest
  <2> QED  BY <2>1, <2>2, EmptySpoolType DEF SpoolType
<1> QED  BY <1>1, <1>2

\* A lost link takes no clip out of the spool.
LEMMA UploadLinkLostProperties ==
  ASSUME NEW s \in SpoolType
  PROVE  /\ UploadLinkLost(s) \in SpoolType
         /\ ~ UploadLinkLost(s).inFlight
         /\ UploadLinkLost(s).clips = s.clips
<1>1. s.inFlight \in BOOLEAN
  BY SpoolFields
<1> QED  BY <1>1, UploadFailedProperties DEF UploadLinkLost

\* Time takes no clip out of the spool.
LEMMA SpoolOlderProperties ==
  ASSUME NEW s \in SpoolType
  PROVE  /\ SpoolOlder(s) \in SpoolType
         /\ SpoolOlder(s).inFlight = s.inFlight
         /\ SpoolOlder(s).clips = s.clips
<1>1. Closer(s.retryAfter) \in Timer
  BY SpoolFields DEF Closer, Timer
<1> QED  BY <1>1 DEF SpoolOlder, SpoolType

-----------------------------------------------------------------------------
(* What becomes of one alert and of one clip.                              *)

\* f lists, in order, where the m elements come from that are kept of s.
KeptFrom(s, I, m, f) ==
  /\ \A i \in I : \E k \in 1 .. m : f[k] = i
  /\ \A j, k \in 1 .. m : j < k => f[j] < f[k]
  /\ Len(Keep(s, I)) = m
  /\ \A k \in 1 .. m : Keep(s, I)[k] = s[f[k]]

\* What is kept of a sequence is a listing of positions in their order.
LEMMA KeepForm ==
  ASSUME NEW S, NEW s \in Seq(S), NEW I \in SUBSET Positions(s)
  PROVE  \E m \in Nat : \E f \in [1 .. m -> I] : KeptFrom(s, I, m, f)
<1>1. Len(s) \in Nat /\ s \in [1 .. Len(s) -> S]
  BY LenProperties
<1>2. CASE I = Positions(s)
  <2> DEFINE id == [k \in 1 .. Len(s) |-> k]
  <2>1. Keep(s, I) = s
    BY <1>2 DEF Keep
  <2>2. id \in [1 .. Len(s) -> I] /\ \A k \in 1 .. Len(s) : id[k] = k
    BY <1>2 DEF Positions
  <2> HIDE DEF id
  <2>3. /\ \A i \in I : \E k \in 1 .. Len(s) : id[k] = i
        /\ \A j, k \in 1 .. Len(s) : j < k => id[j] < id[k]
    BY <1>2, <2>2 DEF Positions
  <2> QED  BY <1>1, <2>1, <2>2, <2>3 DEF KeptFrom
<1>3. CASE I # Positions(s)
  <2>1. PICK f \in Listings(I, Len(s)) : f = CHOOSE g \in Listings(I, Len(s)) : TRUE
    BY <1>1, ListingExists DEF Positions
  <2>2. PICK m \in 0 .. Len(s) : f \in [1 .. m -> I]
    BY <2>1 DEF Listings
  <2> DEFINE r == [k \in DOMAIN f |-> s[f[k]]]
  <2>3. Keep(s, I) = r
    BY <1>3, <2>1 DEF Keep
  <2>4. r \in [1 .. m -> S] /\ m \in Nat
    <3>1. \A k \in 1 .. m : f[k] \in 1 .. Len(s)
      BY <2>2 DEF Positions
    <3> QED  BY <3>1, <2>2, <1>1
  <2>5. Len(r) = m /\ \A k \in 1 .. m : r[k] = s[f[k]]
    BY <2>2, <2>4
  <2>6. /\ \A i \in I : \E k \in 1 .. m : f[k] = i
        /\ \A j, k \in 1 .. m : j < k => f[j] < f[k]
    BY <2>1, <2>2 DEF Listings
  <2> HIDE DEF r
  <2> QED  BY <2>2, <2>3, <2>4, <2>5, <2>6 DEF KeptFrom
<1> QED  BY <1>2, <1>3

\* Nothing is there afterwards that was not to be kept, and the last element
\* stays the last.
LEMMA KeepOnly ==
  ASSUME NEW S, NEW s \in Seq(S), NEW I \in SUBSET Positions(s)
  PROVE  /\ \A k \in Positions(Keep(s, I)) : \E i \in Positions(s) : Keep(s, I)[k] = s[i]
         /\ Len(s) \in I =>
              /\ Len(Keep(s, I)) \in Positions(Keep(s, I))
              /\ Keep(s, I)[Len(Keep(s, I))] = s[Len(s)]
<1>0. PICK m \in Nat : \E f \in [1 .. m -> I] : KeptFrom(s, I, m, f)
  BY KeepForm
<1>1. PICK f \in [1 .. m -> I] : KeptFrom(s, I, m, f)
  BY <1>0
<1>2. \A k \in 1 .. m : f[k] \in 1 .. Len(s)
  BY <1>1 DEF Positions
<1>3. ASSUME Len(s) \in I PROVE m \in 1 .. m /\ f[m] = Len(s)
  <2>1. Len(s) \in Nat
    BY LenProperties
  <2>2. PICK k \in 1 .. m : f[k] = Len(s)
    BY <1>1, <1>3 DEF KeptFrom
  <2>3. m \in 1 .. m /\ f[m] \in 1 .. Len(s)
    BY <2>2, <1>2
  <2>4. k = m
    BY <1>1, <2>1, <2>2, <2>3 DEF KeptFrom
  <2> QED  BY <2>2, <2>3, <2>4
<1> QED  BY <1>1, <1>2, <1>3 DEF Positions, KeptFrom

\* Where each element is once some in the middle have been left out.
LEMMA DropForm ==
  ASSUME NEW S, NEW s \in Seq(S), NEW kept \in Nat, kept <= Len(s), NEW n \in Nat
  PROVE  \A k \in Positions(Drop(s, kept, n)) :
           /\ (IF k <= kept THEN k ELSE k + n) \in Positions(s)
           /\ Drop(s, kept, n)[k] = IF k <= kept THEN s[k] ELSE s[k + n]
<1> DEFINE front == SubSeq(s, 1, kept)
           back  == SubSeq(s, kept + n + 1, Len(s))
<1>1. Len(s) \in Nat /\ s \in [1 .. Len(s) -> S]
  BY LenProperties
<1>2. /\ front \in Seq(S)
      /\ Len(front) = kept
      /\ \A i \in 1 .. kept : front[i] = s[i]
  BY <1>1, SubSeqProperties
<1>3. /\ back \in Seq(S)
      /\ Len(back) = IF kept + n + 1 <= Len(s) THEN Len(s) - (kept + n + 1) + 1 ELSE 0
      /\ \A i \in 1 .. Len(back) : back[i] = s[kept + n + 1 + i - 1]
  <2>1. \A i \in (kept + n + 1) .. Len(s) : s[i] \in S
    BY <1>1
  <2>2. kept + n + 1 \in Int /\ Len(s) \in Int
    BY <1>1
  <2> QED  BY <2>1, <2>2, SubSeqProperties
<1>4. Drop(s, kept, n) = front \o back
  BY DEF Drop
<1> HIDE DEF front, back
<1>5. /\ Len(front \o back) = Len(front) + Len(back)
      /\ \A i \in 1 .. Len(front) + Len(back) :
           (front \o back)[i] = IF i <= Len(front) THEN front[i] ELSE back[i - Len(front)]
  BY <1>2, <1>3, ConcatProperties
<1>6. SUFFICES ASSUME NEW k \in 1 .. (kept + Len(back))
               PROVE  /\ (IF k <= kept THEN k ELSE k + n) \in 1 .. Len(s)
                      /\ (front \o back)[k] = IF k <= kept THEN s[k] ELSE s[k + n]
  BY <1>2, <1>4, <1>5 DEF Positions
<1>7. Len(back) \in Nat
  BY <1>3, LenProperties
<1>8. CASE k <= kept
  BY <1>1, <1>2, <1>5, <1>7, <1>8
<1>9. CASE ~ (k <= kept)
  <2>1. k - kept \in 1 .. Len(back)
    BY <1>7, <1>9
  <2>2. (front \o back)[k] = back[k - kept]
    BY <1>2, <1>5, <1>7, <1>9
  <2>3. back[k - kept] = s[kept + n + 1 + (k - kept) - 1]
    BY <2>1, <1>3
  <2>4. kept + n + 1 + (k - kept) - 1 = k + n
    BY <1>7
  <2>5. k + n \in 1 .. Len(s)
    <3>1. Len(back) = Len(s) - kept - n
      <4>1. Len(back) # 0
        BY <2>1
      <4>2. kept + n + 1 <= Len(s)
        BY <4>1, <1>3
      <4>3. Len(back) = Len(s) - (kept + n + 1) + 1
        BY <4>2, <1>3
      <4> QED  BY <4>3, <1>1
    <3> QED  BY <3>1, <1>1, <1>9
  <2> QED  BY <1>9, <2>2, <2>3, <2>4, <2>5
<1> QED  BY <1>8, <1>9

\* Whatever is not left out is there afterwards.
LEMMA DropMembers ==
  ASSUME NEW S, NEW s \in Seq(S), NEW kept \in Nat, kept <= Len(s), NEW n \in Nat,
         NEW i \in Positions(s), i <= kept \/ kept + n < i
  PROVE  \E k \in Positions(Drop(s, kept, n)) : Drop(s, kept, n)[k] = s[i]
<1> DEFINE d == Drop(s, kept, n)
           k == IF i <= kept THEN i ELSE i - n
<1>1. Len(s) \in Nat /\ i \in Nat /\ 1 <= i /\ i <= Len(s)
  BY LenProperties DEF Positions
<1>2. Len(d) = IF kept + n <= Len(s) THEN Len(s) - n ELSE kept
  BY DropProperties
<1>3. k \in Positions(d)
  BY <1>1, <1>2 DEF Positions
<1>4. d[k] = IF k <= kept THEN s[k] ELSE s[k + n]
  BY <1>3, DropForm
<1>5. d[k] = s[i]
  BY <1>1, <1>4
<1> QED  BY <1>3, <1>5

\* push: the new alert is the last one, the others were there before, and
\* only the one behind the protected front can have made room.
LEMMA PushAlertEntries ==
  ASSUME NEW q \in AlertQueueType, NEW alert \in Alert,
         q.inFlight => q.entries # <<>>
  PROVE  LET p == PushAlert(q, alert).entries
         IN  /\ Len(p) \in Positions(p) /\ p[Len(p)] = alert
             /\ \A i \in Positions(p) : i < Len(p) =>
                  \E j \in Positions(q.entries) : p[i] = q.entries[j]
             /\ \A j \in Positions(q.entries) : j > Protected(q) + 1 =>
                  \E i \in Positions(p) : p[i] = q.entries[j]
<1> DEFINE kept == Protected(q)
           room == IF Len(q.entries) >= AlertCapacity
                     THEN Drop(q.entries, kept, 1) ELSE q.entries
           p    == PushAlert(q, alert).entries
<1>1. /\ q.entries \in Seq(Alert) /\ q.inFlight \in BOOLEAN
      /\ Len(q.entries) \in Nat
  BY QueueFields, LenProperties
<1>2. kept \in Nat /\ kept <= Len(q.entries)
  BY <1>1 DEF Protected
<1> HIDE DEF kept
<1>3. /\ room \in Seq(Alert)
      /\ \A i \in Positions(room) : \E j \in Positions(q.entries) : room[i] = q.entries[j]
      /\ \A j \in Positions(q.entries) : j > kept + 1 =>
           \E i \in Positions(room) : room[i] = q.entries[j]
  <2>1. CASE Len(q.entries) >= AlertCapacity
    <3>1. room = Drop(q.entries, kept, 1)
      BY <2>1
    <3>2. /\ Drop(q.entries, kept, 1) \in Seq(Alert)
          /\ \A k \in Positions(Drop(q.entries, kept, 1)) :
               /\ (IF k <= kept THEN k ELSE k + 1) \in Positions(q.entries)
               /\ Drop(q.entries, kept, 1)[k]
                    = IF k <= kept THEN q.entries[k] ELSE q.entries[k + 1]
      <4>1. 1 \in Nat
        OBVIOUS
      <4>2. Drop(q.entries, kept, 1) \in Seq(Alert)
        BY <4>1, <1>1, <1>2, DropProperties
      <4> QED  BY <4>1, <4>2, <1>1, <1>2, DropForm
    <3>3. \A j \in Positions(q.entries) : j > kept + 1 =>
            \E i \in Positions(Drop(q.entries, kept, 1)) :
              Drop(q.entries, kept, 1)[i] = q.entries[j]
      <4> SUFFICES ASSUME NEW j \in Positions(q.entries), j > kept + 1
                   PROVE  \E i \in Positions(Drop(q.entries, kept, 1)) :
                            Drop(q.entries, kept, 1)[i] = q.entries[j]
        OBVIOUS
      <4>1. kept + 1 < j /\ 1 \in Nat
        BY <1>1, <1>2 DEF Positions
      <4> QED  BY <4>1, <1>1, <1>2, DropMembers
    <3> HIDE DEF room
    <3> QED  BY <3>1, <3>2, <3>3
  <2>2. CASE ~ (Len(q.entries) >= AlertCapacity)
    BY <1>1, <2>2
  <2> QED  BY <2>1, <2>2
<1>4. p = Append(room, alert)
  BY <1>3 DEF PushAlert, AlertQueueType, kept
<1> HIDE DEF room, p
<1>5. /\ Len(room) \in Nat /\ Len(p) = Len(room) + 1
      /\ \A i \in 1 .. Len(room) : p[i] = room[i]
      /\ p[Len(room) + 1] = alert
  BY <1>3, <1>4, AppendProperties, LenProperties
<1>6. Len(p) \in Positions(p) /\ p[Len(p)] = alert
  BY <1>5 DEF Positions
<1>7. ASSUME NEW i \in Positions(p), i < Len(p)
      PROVE  \E j \in Positions(q.entries) : p[i] = q.entries[j]
  <2>1. i \in Positions(room) /\ p[i] = room[i]
    BY <1>5, <1>7 DEF Positions
  <2> QED  BY <2>1, <1>3
<1>8. ASSUME NEW j \in Positions(q.entries), j > kept + 1
      PROVE  \E i \in Positions(p) : p[i] = q.entries[j]
  <2>1. PICK i \in Positions(room) : room[i] = q.entries[j]
    BY <1>3, <1>8
  <2>2. i \in Positions(p) /\ p[i] = room[i]
    BY <1>5 DEF Positions
  <2> QED  BY <2>1, <2>2
<1> QED  BY <1>6, <1>7, <1>8 DEF p, kept

\* pump_alerts: nothing joins the queue, what is not too old stays, and the
\* last stays the last.
LEMMA PumpAlertsEntries ==
  ASSUME NEW q \in AlertQueueType, NEW isOnline, NEW stopping
  PROVE  LET p == PumpAlerts(q, isOnline, stopping)
         IN  /\ Remains(q, p)
             /\ \A k \in Positions(p.entries) :
                  \E i \in Positions(q.entries) : p.entries[k] = q.entries[i]
             /\ /\ Len(q.entries) \in Positions(q.entries)
                /\ q.entries[Len(q.entries)].age < AlertMaxAge
                => /\ Len(p.entries) \in Positions(p.entries)
                   /\ p.entries[Len(p.entries)] = q.entries[Len(q.entries)]
<1> DEFINE young == {i \in Positions(q.entries) :
                       i <= Protected(q) \/ q.entries[i].age < AlertMaxAge}
           p     == PumpAlerts(q, isOnline, stopping)
           fresh == ExpireAlerts(q)
<1>1. q.entries \in Seq(Alert)
  BY QueueFields
<1>2. young \in SUBSET Positions(q.entries)
  OBVIOUS
<1>3. fresh.entries = Keep(q.entries, young)
  BY DEF ExpireAlerts, AlertQueueType
<1>4. \/ stopping /\ p = q
      \/ p.entries = Keep(q.entries, young)
  BY <1>3 DEF PumpAlerts, MarkSent
<1>5. CASE p.entries = Keep(q.entries, young)
  <2>1. ASSUME NEW i \in Positions(q.entries), q.entries[i].age < AlertMaxAge
        PROVE  i \in young
    BY <2>1
  <2> HIDE DEF young, p
  <2>2. Remains(q, p)
    BY <1>1, <1>2, <1>5, <2>1, KeepMembers DEF Remains
  <2>3. \A k \in Positions(p.entries) :
          \E i \in Positions(q.entries) : p.entries[k] = q.entries[i]
    BY <1>1, <1>2, <1>5, KeepOnly
  <2>4. ASSUME Len(q.entries) \in Positions(q.entries),
               q.entries[Len(q.entries)].age < AlertMaxAge
        PROVE  /\ Len(p.entries) \in Positions(p.entries)
               /\ p.entries[Len(p.entries)] = q.entries[Len(q.entries)]
    <3>1. Len(q.entries) \in young
      BY <2>1, <2>4
    <3> QED  BY <3>1, <1>1, <1>2, <1>5, KeepOnly
  <2> QED  BY <2>2, <2>3, <2>4 DEF p
<1>6. CASE p = q
  BY <1>6 DEF Remains
<1> QED  BY <1>4, <1>5, <1>6

\* An alert leaves the queue with its answer and none joins.
LEMMA AlertAnsweredEntries ==
  ASSUME NEW q \in AlertQueueType, NEW id, NEW kind, NEW outcome
  PROVE  LET p == AlertAnswered(q, id, kind, outcome)
         IN  \A k \in Positions(p.entries) :
               \E i \in Positions(q.entries) : p.entries[k] = q.entries[i]
<1> DEFINE p == AlertAnswered(q, id, kind, outcome)
<1>1. q.entries \in Seq(Alert) /\ Len(q.entries) \in Nat
  BY QueueFields, LenProperties
<1>2. \/ p.entries = q.entries
      \/ q.entries # <<>> /\ p.entries = Tail(q.entries)
  <2>1. CASE p = q
    BY <2>1
  <2>2. CASE p = AlertFailed(q)
    BY <2>2, AlertFailedProperties
  <2>3. CASE q.entries # <<>> /\ p = [EmptyQueue EXCEPT !.entries = Tail(q.entries)]
    BY <2>3 DEF EmptyQueue
  <2> QED  BY <2>1, <2>2, <2>3 DEF AlertAnswered
<1> SUFFICES \A k \in Positions(p.entries) :
               \E i \in Positions(q.entries) : p.entries[k] = q.entries[i]
  OBVIOUS
<1> HIDE DEF p
<1>3. CASE p.entries = q.entries
  BY <1>3
<1>4. CASE q.entries # <<>> /\ p.entries = Tail(q.entries)
  <2>1. /\ Len(p.entries) = Len(q.entries) - 1
        /\ \A k \in 1 .. Len(p.entries) : p.entries[k] = q.entries[k + 1]
    BY <1>1, <1>4, HeadTailProperties
  <2> QED  BY <1>1, <2>1 DEF Positions
<1> QED  BY <1>2, <1>3, <1>4

\* A clip more: every clip that was there is still there or among those that
\* are announced as dropped.
LEMMA AddClipAccounts ==
  ASSUME NEW s \in SpoolType, NEW clip \in Clip,
         s.inFlight => s.clips # <<>>,
         NEW i \in 1 .. Len(s.clips)
  PROVE  \/ s.clips[i].id \in SpooledIds(AddClip(s, clip))
         \/ \E j \in 1 .. Len(ClipsDropped(s, clip)) : ClipsDropped(s, clip)[j] = s.clips[i]
<1> DEFINE all   == Append(s.clips, clip)
           grown == [s EXCEPT !.clips = Append(@, clip)]
           kept  == OldestKept(grown)
           n     == Excess(grown)
<1>1. /\ s.clips \in Seq(Clip) /\ s.inFlight \in BOOLEAN
      /\ Len(s.clips) \in Nat
  BY SpoolFields
<1>2. /\ all \in Seq(Clip)
      /\ Len(all) = Len(s.clips) + 1
      /\ \A k \in 1 .. Len(s.clips) : all[k] = s.clips[k]
  BY <1>1, AppendProperties
<1> HIDE DEF all
<1>3. /\ grown \in SpoolType
      /\ grown.clips = all /\ grown.inFlight = s.inFlight
  BY <1>2 DEF SpoolType, all
<1>4. grown.clips # <<>>
  BY <1>1, <1>2, <1>3, EmptySeq
<1>5. AddClip(s, clip) = [grown EXCEPT !.clips = Without(grown, n)]
  BY DEF AddClip
<1>6. ClipsDropped(s, clip) = SubSeq(grown.clips, OldestKept(s) + 1, OldestKept(s) + n)
  BY DEF ClipsDropped
<1> HIDE DEF grown
<1>7. kept \in {0, 1} /\ kept = OldestKept(s) /\ kept <= Len(all)
  BY <1>1, <1>2, <1>3 DEF OldestKept
<1>8. n \in Nat /\ kept + n <= Len(all)
  <2>1. n \in 0 .. (Len(all) - kept)
    BY <1>3, <1>4, ExcessBounded
  <2> QED  BY <2>1, <1>1, <1>2, <1>7
<1> HIDE DEF kept, n
<1>9. AddClip(s, clip).clips = Drop(all, kept, n)
  BY <1>3, <1>5 DEF SpoolType, Without, kept
<1>10. ClipsDropped(s, clip) = SubSeq(all, kept + 1, kept + n)
  BY <1>3, <1>6, <1>7
<1>11. i \in Nat /\ i >= 1 /\ i \in Positions(all) /\ all[i] = s.clips[i]
  BY <1>1, <1>2 DEF Positions
<1>12. CASE i <= kept \/ kept + n < i
  <2>1. kept \in Nat
    BY <1>7
  <2>2. \E k \in Positions(Drop(all, kept, n)) : Drop(all, kept, n)[k] = all[i]
    BY <2>1, <1>2, <1>7, <1>8, <1>11, <1>12, DropMembers
  <2> QED  BY <2>2, <1>9, <1>11 DEF SpooledIds, Positions
<1>13. CASE kept < i /\ i <= kept + n
  <2>1. \A k \in (kept + 1) .. (kept + n) : all[k] \in Clip
    <3>1. all \in [1 .. Len(all) -> Clip] /\ Len(all) \in Nat
      BY <1>2, LenProperties
    <3>2. \A k \in (kept + 1) .. (kept + n) : k \in 1 .. Len(all)
      BY <3>1, <1>7, <1>8
    <3> QED  BY <3>1, <3>2
  <2>2. kept + 1 \in Int /\ kept + n \in Int
    BY <1>7, <1>8
  <2> DEFINE gone == SubSeq(all, kept + 1, kept + n)
  <2>3. /\ Len(gone) = IF kept + 1 <= kept + n THEN (kept + n) - (kept + 1) + 1 ELSE 0
        /\ \A j \in 1 .. (kept + n) - (kept + 1) + 1 : gone[j] = all[kept + 1 + j - 1]
    BY <2>1, <2>2, SubSeqProperties
  <2> HIDE DEF gone
  <2>4. kept + 1 <= kept + n /\ (kept + n) - (kept + 1) + 1 = n
    BY <1>7, <1>8, <1>11, <1>13
  <2>5. Len(gone) = n
    BY <2>3, <2>4
  <2>6. i - kept \in 1 .. Len(gone) /\ kept + 1 + (i - kept) - 1 = i
    BY <2>5, <1>7, <1>8, <1>11, <1>13
  <2>7. gone[i - kept] = all[i]
    BY <2>3, <2>4, <2>5, <2>6
  <2> QED  BY <2>6, <2>7, <1>10, <1>11 DEF gone
<1> QED  BY <1>7, <1>8, <1>11, <1>12, <1>13

\* A finished upload takes out the clip it names, if it is the front one, and
\* no other.
LEMMA UploadAnsweredAccounts ==
  ASSUME NEW s \in SpoolType, NEW id, NEW ok \in BOOLEAN,
         NEW lost \in SpooledIds(s), lost \notin SpooledIds(UploadAnswered(s, id, ok))
  PROVE  lost = id /\ ok
<1>1. s.clips \in Seq(Clip) /\ Len(s.clips) \in Nat
  BY SpoolFields
<1>2. PICK i \in 1 .. Len(s.clips) : s.clips[i].id = lost
  BY DEF SpooledIds
<1>3. CASE ~ ok
  BY <1>3, UploadFailedProperties DEF UploadAnswered, SpooledIds
<1>4. CASE ok
  <2> DEFINE rest == IF s.clips # <<>> /\ Head(s.clips).id = id
                       THEN Tail(s.clips) ELSE s.clips
  <2>1. UploadAnswered(s, id, ok).clips = rest
    BY <1>4 DEF UploadAnswered, EmptySpool
  <2>2. CASE s.clips # <<>> /\ Head(s.clips).id = id
    <3>1. /\ Head(s.clips) = s.clips[1]
          /\ Len(Tail(s.clips)) = Len(s.clips) - 1
          /\ \A k \in 1 .. Len(Tail(s.clips)) : Tail(s.clips)[k] = s.clips[k + 1]
      BY <2>2, <1>1, HeadTailProperties
    <3>2. CASE i = 1
      BY <3>1, <3>2, <2>2, <1>2, <1>4
    <3>3. CASE i # 1
      <4>1. /\ i - 1 \in 1 .. Len(Tail(s.clips))
            /\ Tail(s.clips)[i - 1] = s.clips[i]
        BY <3>1, <3>3, <1>1
      <4> QED  BY <4>1, <2>1, <2>2, <1>2 DEF SpooledIds
    <3> QED  BY <3>2, <3>3
  <2>3. CASE ~ (s.clips # <<>> /\ Head(s.clips).id = id)
    BY <2>1, <2>3, <1>2 DEF SpooledIds
  <2> QED  BY <2>2, <2>3
<1> QED  BY <1>3, <1>4
=============================================================================
