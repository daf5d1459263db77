---------------------------- MODULE Faces_proofs ----------------------------
(***************************************************************************)
(* For any photos, and however often the owner changes the list: what the  *)
(* server has heard of its current list is true of the device.             *)
(*                                                                         *)
(* The argument is one of order.  Lists overtake each other nowhere: what  *)
(* is stored, what is worked on, what waits and what is on its way are of  *)
(* revisions that never go down (InOrder), so that the current list, once  *)
(* stored, is only ever replaced by itself.                                *)
(***************************************************************************)
EXTENDS Faces, TLAPS, SequenceTheorems

Working == worker # "idle"

\* Stored, worked on, waiting, on its way, current: never an older one behind.
InOrder ==
  /\ store.revision <= Current
  /\ Working => doing # 0 /\ store.revision <= doing /\ doing <= Current
  /\ waiting # 0 => Working /\ doing <= waiting /\ waiting <= Current
  /\ \A i \in 1 .. Len(inbox) :
       /\ store.revision <= inbox[i] /\ inbox[i] <= Current
       /\ Working => doing <= inbox[i]
       /\ waiting <= inbox[i]
  /\ \A i, j \in 1 .. Len(inbox) : i < j => inbox[i] <= inbox[j]

\* The bridge works on a list for as long as it says so.
RunsIfBusy ==
  /\ running <=> Working
  /\ worker = "coded" => store.revision = doing

\* What is known is of the list that is stored.
Listed == store.photos \subseteq (IF store.revision = 0 THEN {} ELSE lists[store.revision])

\* An answer is about what is stored, or about an earlier list.
TrueOf(answer) ==
  /\ answer.revision <= store.revision
  /\ answer.revision = store.revision => answer.photos \subseteq store.photos

FInv ==
  /\ TypeOK
  /\ InOrder
  /\ RunsIfBusy
  /\ Listed
  /\ TrueOf(believed) /\ TrueOf(unsent)

\* A doorbell that knows nobody, and a server without a list.
LEMMA InitEstablishes == Init => FInv
<1> SUFFICES ASSUME Init PROVE FInv
  OBVIOUS
<1>1. Len(lists) = 0 /\ Len(inbox) = 0 /\ 0 \in Revision
  BY FacesAssumption DEF Init, Revision
<1>2. Nothing \in Answer BY <1>1 DEF Nothing, Answer
<1>3. lists \in Seq(SUBSET Photo) /\ inbox \in Seq(Revision \ {0}) BY DEF Init
<1>4. TypeOK BY <1>1, <1>2, <1>3 DEF Init, TypeOK
<1>5. InOrder /\ RunsIfBusy BY <1>1 DEF Init, InOrder, RunsIfBusy, Working, Current, Nothing
<1>6. Listed /\ TrueOf(believed) /\ TrueOf(unsent) BY DEF Init, Listed, TrueOf, Nothing
<1> QED BY <1>4, <1>5, <1>6 DEF FInv

\* Only the link and the answers change: a drop, a frame that is sent.
LEMMA LinkKeeps ==
  ASSUME FInv, UNCHANGED <<lists, store, running, waiting, doing>>,
         worker' = worker \/ (Working /\ worker' \in {"told", "next"}),
         link' \in {"down", "hello", "up"}, main' \in {"free", "telling", "told"},
         failed' \in BOOLEAN,
         inbox' = inbox \/ inbox' = <<>>,
         believed' = believed \/ believed' = unsent,
         unsent' = unsent \/ unsent' = Nothing
  PROVE  FInv'
<1>0. /\ lists' = lists /\ store' = store /\ running' = running /\ waiting' = waiting
      /\ doing' = doing /\ Current' = Current
  BY DEF Current
<1>1. Nothing \in Answer BY FacesAssumption DEF Nothing, Answer, Revision
<1>2. TypeOK'
  <2>1. inbox' \in Seq(Revision \ {0})
    <3>1. <<>> \in Seq(Revision \ {0}) OBVIOUS
    <3> QED BY <3>1 DEF FInv, TypeOK
  <2>2. believed' \in Answer /\ unsent' \in Answer BY <1>1 DEF FInv, TypeOK
  <2>3. worker' \in {"idle", "handing", "coding", "coded", "telling", "told", "next"}
    BY DEF FInv, TypeOK
  <2> QED BY <1>0, <2>1, <2>2, <2>3 DEF FInv, TypeOK
<1>3. Working' <=> Working BY DEF Working
<1>4. InOrder'
  <2>1. CASE inbox' = inbox BY <1>0, <1>3, <2>1 DEF FInv, InOrder
  <2>2. CASE inbox' = <<>>
    <3>1. Len(inbox') = 0 BY <2>2
    <3> QED BY <1>0, <1>3, <3>1 DEF FInv, InOrder
  <2> QED BY <2>1, <2>2
<1>5. RunsIfBusy' BY <1>0, <1>3 DEF FInv, RunsIfBusy
<1>6. Listed' BY <1>0 DEF FInv, Listed
<1>7. TrueOf(believed)' BY <1>0 DEF FInv, TrueOf
<1>8. TrueOf(unsent)' BY <1>0 DEF FInv, TrueOf, TypeOK, Answer, Revision, Nothing
<1> QED BY <1>2, <1>4, <1>5, <1>6, <1>7, <1>8 DEF FInv

\* The owner changes the list: what has been heard is of an earlier one now.
LEMMA EditKeeps ==
  ASSUME FInv, NEW photos \in SUBSET Photo, Edit(photos)
  PROVE  FInv'
<1>0. /\ store' = store /\ running' = running /\ waiting' = waiting /\ doing' = doing
      /\ worker' = worker /\ link' = link /\ main' = main /\ failed' = failed
      /\ believed' = believed /\ unsent' = unsent
      /\ lists' = Append(lists, photos) /\ Current < MaxRevision
      /\ inbox' = inbox \/ inbox' = Append(inbox, Current + 1)
  BY DEF Edit, bridge
<1>1. /\ lists \in Seq(SUBSET Photo) /\ inbox \in Seq(Revision \ {0})
      /\ Current \in Nat /\ Len(inbox) \in Nat /\ store.revision \in Nat
  BY LenProperties DEF FInv, TypeOK, Answer, Revision, Current
<1>2. /\ lists' \in Seq(SUBSET Photo) /\ Current' = Current + 1 /\ Current + 1 \in Revision \ {0}
      /\ \A i \in 1 .. Current : lists'[i] = lists[i]
  BY <1>0, <1>1, FacesAssumption, AppendProperties DEF Current, Revision
<1>3. /\ inbox' \in Seq(Revision \ {0})
      /\ Len(inbox') \in Nat /\ Len(inbox') <= Len(inbox) + 1
      /\ \A i \in 1 .. Len(inbox') : i > Len(inbox) => inbox'[i] = Current + 1
      /\ \A i \in 1 .. Len(inbox') : i <= Len(inbox) => i \in 1 .. Len(inbox) /\ inbox'[i] = inbox[i]
  <2>1. CASE inbox' = inbox BY <1>1, <2>1
  <2>2. CASE inbox' = Append(inbox, Current + 1)
    <3>1. /\ inbox' \in Seq(Revision \ {0}) /\ Len(inbox') = Len(inbox) + 1
          /\ \A i \in 1 .. Len(inbox) : inbox'[i] = inbox[i]
          /\ inbox'[Len(inbox) + 1] = Current + 1
      BY <1>1, <1>2, <2>2, AppendProperties
    <3> QED BY <1>1, <3>1
  <2> QED BY <1>0, <2>1, <2>2
<1>4. TypeOK' BY <1>0, <1>2, <1>3 DEF FInv, TypeOK, Current, Revision
<1>5. Working' <=> Working BY <1>0 DEF Working
<1>6. InOrder'
  <2>1. store'.revision <= Current' BY <1>0, <1>1, <1>2 DEF FInv, InOrder
  <2>2. /\ Working' => doing' # 0 /\ store'.revision <= doing' /\ doing' <= Current'
        /\ waiting' # 0 => Working' /\ doing' <= waiting' /\ waiting' <= Current'
    BY <1>0, <1>1, <1>2, <1>5 DEF FInv, InOrder, TypeOK, Revision
  <2>3. waiting <= Current /\ (Working => doing <= Current) /\ store.revision <= Current
    BY <1>1 DEF FInv, InOrder
  <2>4. \A i \in 1 .. Len(inbox') :
          /\ store.revision <= inbox'[i] /\ inbox'[i] <= Current + 1
          /\ Working => doing <= inbox'[i]
          /\ waiting <= inbox'[i]
    <3>1. TAKE i \in 1 .. Len(inbox')
    <3>2. CASE i <= Len(inbox)
      <4>1. i \in 1 .. Len(inbox) /\ inbox'[i] = inbox[i] BY <1>3, <3>2
      <4>2. inbox[i] \in Nat BY <1>1, <4>1 DEF Revision
      <4> QED BY <1>1, <4>1, <4>2 DEF FInv, InOrder
    <3>3. CASE i > Len(inbox)
      <4>1. inbox'[i] = Current + 1 BY <1>3, <3>3
      <4> QED BY <1>1, <2>3, <4>1 DEF FInv, TypeOK, Revision
    <3> QED BY <1>1, <3>2, <3>3
  <2>5. \A i, j \in 1 .. Len(inbox') : i < j => inbox'[i] <= inbox'[j]
    <3>1. TAKE i, j \in 1 .. Len(inbox')
    <3>2. HAVE i < j
    <3>3. CASE j <= Len(inbox)
      BY <1>1, <1>3, <3>2, <3>3 DEF FInv, InOrder
    <3>4. CASE j > Len(inbox)
      <4>1. inbox'[j] = Current + 1 BY <1>3, <3>4
      <4> QED BY <2>4, <4>1
    <3> QED BY <1>1, <3>3, <3>4
  <2> QED BY <1>0, <1>2, <1>5, <2>1, <2>2, <2>4, <2>5 DEF InOrder
<1>7. RunsIfBusy' BY <1>0, <1>5 DEF FInv, RunsIfBusy
<1>8. Listed'
  <2>1. store.revision = 0 \/ store.revision \in 1 .. Current BY <1>1 DEF FInv, InOrder
  <2>2. CASE store.revision = 0 BY <1>0, <2>2 DEF FInv, Listed
  <2>3. CASE store.revision \in 1 .. Current
    <3>1. lists'[store.revision] = lists[store.revision] /\ store.revision # 0 BY <1>2, <2>3
    <3> QED BY <1>0, <3>1, Zenon DEF FInv, Listed
  <2> QED BY <2>1, <2>2, <2>3
<1>9. TrueOf(believed)' /\ TrueOf(unsent)' BY <1>0 DEF FInv, TrueOf
<1> QED BY <1>4, <1>6, <1>7, <1>8, <1>9 DEF FInv

\* A new connection: the server says its list again if the hello names another.
LEMMA ConnectKeeps ==
  ASSUME FInv, Connect
  PROVE  FInv'
<1>0. /\ lists' = lists /\ store' = store /\ running' = running /\ waiting' = waiting
      /\ doing' = doing /\ worker' = worker /\ main' = main /\ believed' = believed
      /\ unsent' = unsent /\ link' = "hello" /\ failed' = FALSE /\ Current' = Current
  BY DEF Connect, bridge, Current
<1>1. Current \in Nat /\ store.revision \in Nat BY LenProperties DEF FInv, TypeOK, Answer, Revision, Current
<1>2. CASE inbox' = <<>>
  <2>1. link' \in {"down", "hello", "up"} /\ failed' \in BOOLEAN BY <1>0
  <2>2. main' \in {"free", "telling", "told"} BY <1>0 DEF FInv, TypeOK
  <2> QED BY <1>0, <1>2, <2>1, <2>2, LinkKeeps
<1>3. CASE store.revision # Current /\ inbox' = <<Current>>
  <2>1. Current \in Revision \ {0} BY <1>1, <1>3 DEF FInv, TypeOK, InOrder, Current
  <2>2. /\ inbox' \in Seq(Revision \ {0}) /\ Len(inbox') = 1 /\ inbox'[1] = Current
    BY <1>3, <2>1
  <2>3. TypeOK' BY <1>0, <2>2 DEF FInv, TypeOK, Current
  <2>4. Working' <=> Working BY <1>0 DEF Working
  <2>5. waiting <= Current BY <1>1 DEF FInv, InOrder
  <2>6. InOrder' BY <1>0, <1>1, <2>2, <2>4, <2>5 DEF FInv, InOrder
  <2>7. RunsIfBusy' /\ Listed' /\ TrueOf(believed)' /\ TrueOf(unsent)'
    BY <1>0, <2>4 DEF FInv, RunsIfBusy, Listed, TrueOf
  <2> QED BY <2>3, <2>6, <2>7 DEF FInv
<1> QED BY <1>2, <1>3 DEF Connect

\* A list arrives: it waits behind the one that is worked on, or is begun.
LEMMA ReceiveKeeps ==
  ASSUME FInv, Receive
  PROVE  FInv'
<1>0. /\ lists' = lists /\ believed' = believed /\ link' = link /\ store' = store
      /\ main' = main /\ unsent' = unsent /\ failed' = failed /\ Current' = Current
      /\ inbox # <<>> /\ inbox' = Tail(inbox)
  BY DEF Receive, Current
<1>1. /\ inbox \in Seq(Revision \ {0}) /\ Head(inbox) = inbox[1]
      /\ Tail(inbox) \in Seq(Revision \ {0}) /\ Len(inbox) \in Nat /\ Len(inbox) >= 1
      /\ Len(Tail(inbox)) = Len(inbox) - 1
      /\ \A i \in 1 .. Len(Tail(inbox)) : Tail(inbox)[i] = inbox[i + 1]
      /\ Head(inbox) \in Revision \ {0}
  BY <1>0, HeadTailProperties, EmptySeq, LenProperties DEF FInv, TypeOK
<1>2. /\ store.revision \in Nat /\ Current \in Nat /\ doing \in Nat /\ waiting \in Nat
  BY LenProperties DEF FInv, TypeOK, Answer, Revision, Current
<1>3. /\ store.revision <= Head(inbox) /\ Head(inbox) <= Current
      /\ Working => doing <= Head(inbox)
      /\ waiting <= Head(inbox)
  BY <1>1 DEF FInv, InOrder
<1>4. \A i \in 1 .. Len(Tail(inbox)) : i + 1 \in 1 .. Len(inbox) /\ Tail(inbox)[i] = inbox[i + 1]
  BY <1>1
<1>5. \A i \in 1 .. Len(Tail(inbox)) :
        /\ store.revision <= Tail(inbox)[i] /\ Tail(inbox)[i] <= Current
        /\ Working => doing <= Tail(inbox)[i]
        /\ waiting <= Tail(inbox)[i]
        /\ Head(inbox) <= Tail(inbox)[i]
  <2>1. TAKE i \in 1 .. Len(Tail(inbox))
  <2>2. i + 1 \in 1 .. Len(inbox) /\ Tail(inbox)[i] = inbox[i + 1] /\ 1 < i + 1 /\ 1 \in 1 .. Len(inbox)
    BY <1>1, <1>4
  <2> QED BY <1>1, <2>2 DEF FInv, InOrder
<1>6. \A i, j \in 1 .. Len(Tail(inbox)) : i < j => Tail(inbox)[i] <= Tail(inbox)[j]
  <2>1. TAKE i, j \in 1 .. Len(Tail(inbox))
  <2>2. HAVE i < j
  <2>3. i + 1 < j + 1 BY <2>2
  <2> QED BY <1>4, <2>3 DEF FInv, InOrder
<1>7. Listed' /\ TrueOf(believed)' /\ TrueOf(unsent)' BY <1>0 DEF FInv, Listed, TrueOf
<1>8. CASE running
  <2>1. waiting' = Head(inbox) /\ running' = running /\ worker' = worker /\ doing' = doing
    BY <1>8 DEF Receive, NewestWaits
  <2>2. Working /\ Working' BY <1>8, <2>1 DEF FInv, RunsIfBusy, Working
  <2>3. TypeOK' BY <1>0, <1>1, <2>1 DEF FInv, TypeOK, Current
  <2>4. InOrder' BY <1>0, <1>2, <1>3, <1>5, <1>6, <2>1, <2>2 DEF FInv, InOrder
  <2>5. RunsIfBusy' BY <1>0, <2>1, <2>2 DEF FInv, RunsIfBusy
  <2> QED BY <1>7, <2>3, <2>4, <2>5 DEF FInv
<1>9. CASE ~ running
  <2>1. running' = TRUE /\ worker' = "handing" /\ doing' = Head(inbox) /\ waiting' = waiting
    BY <1>9 DEF Receive
  <2>2. ~ Working /\ Working' /\ waiting = 0
    BY <1>9, <2>1 DEF FInv, RunsIfBusy, Working, InOrder
  <2>3. TypeOK' BY <1>0, <1>1, <2>1 DEF FInv, TypeOK, Current
  <2>4. InOrder'
    <3>1. store'.revision <= Current' BY <1>0 DEF FInv, InOrder
    <3>2. doing' # 0 /\ store'.revision <= doing' /\ doing' <= Current' BY <1>0, <1>1, <1>3, <2>1
    <3>3. waiting' = 0 BY <2>1, <2>2
    <3>4. \A i \in 1 .. Len(inbox') :
            /\ store'.revision <= inbox'[i] /\ inbox'[i] <= Current'
            /\ doing' <= inbox'[i] /\ waiting' <= inbox'[i]
      BY <1>0, <1>5, <2>1
    <3>5. \A i, j \in 1 .. Len(inbox') : i < j => inbox'[i] <= inbox'[j] BY <1>0, <1>6
    <3> QED BY <3>1, <3>2, <3>3, <3>4, <3>5 DEF InOrder
  <2>5. RunsIfBusy' BY <2>1, <2>2 DEF RunsIfBusy
  <2> QED BY <1>7, <2>3, <2>4, <2>5 DEF FInv
<1> QED BY <1>8, <1>9

\* The helper replaces what is stored: by the list the device is at, to which
\* more may be added, or by a later one.
LEMMA CodeKeeps ==
  ASSUME FInv, Code
  PROVE  FInv'
<1>0. /\ lists' = lists /\ believed' = believed /\ link' = link /\ inbox' = inbox
      /\ running' = running /\ waiting' = waiting /\ main' = main /\ doing' = doing
      /\ unsent' = unsent /\ Current' = Current
      /\ worker = "coding" /\ worker' \in {"coded", "next"} /\ failed' \in BOOLEAN
  BY DEF Code, WorkerRest, Current, FInv, TypeOK
<1>1. Working /\ Working' BY <1>0 DEF Working
<1>2. /\ store.revision \in Nat /\ Current \in Nat /\ doing \in Nat /\ waiting \in Nat
      /\ believed.revision \in Nat /\ unsent.revision \in Nat
      /\ lists \in Seq(SUBSET Photo) /\ store.photos \subseteq Photo
  BY LenProperties DEF FInv, TypeOK, Answer, Revision, Current
<1>3. doing # 0 /\ store.revision <= doing /\ doing <= Current BY <1>1 DEF FInv, InOrder
<1>4. CASE store' = store
  <2>1. TypeOK' BY <1>0, <1>4 DEF FInv, TypeOK, Current
  <2>2. InOrder' BY <1>0, <1>1, <1>4 DEF FInv, InOrder
  <2>3. worker' = "coded" => store.revision = doing
    <3>1. ASSUME worker' = "coded" PROVE store'.revision = doing
      <4>1. PICK coded \in Codable(doing) : store' = [revision |-> doing, photos |-> Kept(doing, coded)]
        BY <3>1 DEF Code
      <4> QED BY <4>1
    <3> QED BY <1>4, <3>1
  <2>4. RunsIfBusy' BY <1>0, <1>1, <1>4, <2>3 DEF FInv, RunsIfBusy
  <2>5. Listed' /\ TrueOf(believed)' /\ TrueOf(unsent)' BY <1>0, <1>4 DEF FInv, Listed, TrueOf
  <2> QED BY <2>1, <2>2, <2>4, <2>5 DEF FInv
<1>5. ASSUME NEW coded \in Codable(doing),
             store' = [revision |-> doing, photos |-> Kept(doing, coded)]
      PROVE  FInv'
  <2>1. doing \in 1 .. Current BY <1>2, <1>3
  <2>2. lists[doing] \in SUBSET Photo BY <1>2, <2>1 DEF Current
  <2>3. /\ store'.revision = doing
        /\ store'.photos = (store.photos \cap lists[doing]) \cup coded
        /\ coded \subseteq lists[doing]
    BY <1>5 DEF Kept, Codable
  <2>4. store' \in Answer
    <3>1. Kept(doing, coded) \in SUBSET Photo BY <1>5, <2>2 DEF Kept, Codable
    <3>2. doing \in Revision BY DEF FInv, TypeOK
    <3> QED BY <1>5, <3>1, <3>2 DEF Answer
  <2>5. TypeOK' BY <1>0, <2>4 DEF FInv, TypeOK, Current
  <2>6. InOrder' BY <1>0, <1>1, <1>2, <1>3, <2>3 DEF FInv, InOrder
  <2>7. RunsIfBusy' BY <1>0, <1>1, <2>3 DEF FInv, RunsIfBusy
  <2>8. Listed' BY <1>0, <1>3, <2>3 DEF Listed
  <2>9. store.revision = doing => store.photos \subseteq store'.photos
    BY <1>3, <2>3 DEF FInv, Listed
  <2>10. TrueOf(believed)' BY <1>0, <1>2, <1>3, <2>3, <2>9 DEF FInv, TrueOf
  <2>11. TrueOf(unsent)' BY <1>0, <1>2, <1>3, <2>3, <2>9 DEF FInv, TrueOf
  <2> QED BY <2>5, <2>6, <2>7, <2>8, <2>10, <2>11 DEF FInv
<1> QED BY <1>4, <1>5 DEF Code

\* The bridge's other steps: it hands a list over, tells, clears, goes on, dies.
LEMMA NextKeeps == FInv /\ [Next]_vars => FInv'
<1> SUFFICES ASSUME FInv, [Next]_vars PROVE FInv'
  OBVIOUS
<1>0. /\ link \in {"down", "hello", "up"} /\ main \in {"free", "telling", "told"}
      /\ failed \in BOOLEAN /\ 0 \in Revision
  BY FacesAssumption DEF FInv, TypeOK, Revision
<1>1. CASE \E photos \in SUBSET Photo : Edit(photos) BY <1>1, EditKeeps
<1>2. CASE Connect BY <1>2, ConnectKeeps
<1>3. CASE Receive BY <1>3, ReceiveKeeps
<1>4. CASE Code BY <1>4, CodeKeeps
<1>5. CASE Drop \/ HelloOk \/ MainTells \/ MainClears
  <2>1. /\ UNCHANGED <<lists, store, running, waiting, doing, worker, failed>>
        /\ link' \in {"down", "hello", "up"} /\ main' \in {"free", "telling", "told"}
        /\ inbox' = inbox \/ inbox' = <<>>
        /\ believed' = believed \/ believed' = unsent
        /\ unsent' = unsent \/ unsent' = Nothing
    BY <1>0, <1>5 DEF Drop, HelloOk, MainTells, MainClears, Sends, bridge
  <2> QED BY <1>0, <2>1, LinkKeeps
<1>6. CASE HandOver
  <2>1. /\ lists' = lists /\ believed' = believed /\ link' = link /\ inbox' = inbox
        /\ running' = running /\ waiting' = waiting /\ main' = main /\ store' = store
        /\ doing' = doing /\ unsent' = unsent /\ Current' = Current
        /\ worker = "handing" /\ worker' \in {"coding", "next"} /\ failed' \in BOOLEAN
    BY <1>0, <1>6 DEF HandOver, WorkerRest, Current
  <2>2. Working /\ Working' BY <2>1 DEF Working
  <2>3. TypeOK' BY <2>1 DEF FInv, TypeOK, Current
  <2>4. InOrder' BY <2>1, <2>2 DEF FInv, InOrder
  <2>5. RunsIfBusy' /\ Listed' /\ TrueOf(believed)' /\ TrueOf(unsent)'
    BY <2>1, <2>2 DEF FInv, RunsIfBusy, Listed, TrueOf
  <2> QED BY <2>3, <2>4, <2>5 DEF FInv
<1>7. CASE WorkerTells \/ WorkerClears
  <2>1. /\ UNCHANGED <<lists, store, running, waiting, doing, main, failed>>
        /\ Working /\ worker' \in {"told", "next"}
        /\ link' \in {"down", "hello", "up"}
        /\ inbox' = inbox \/ inbox' = <<>>
        /\ believed' = believed \/ believed' = unsent
        /\ unsent' = unsent \/ unsent' = Nothing
    BY <1>0, <1>7 DEF WorkerTells, WorkerClears, Sends, Working
  <2> QED BY <1>0, <2>1, LinkKeeps
<1>8. CASE Answers
  <2>1. /\ lists' = lists /\ believed' = believed /\ link' = link /\ inbox' = inbox
        /\ running' = running /\ waiting' = waiting /\ main' = main /\ store' = store
        /\ doing' = doing /\ failed' = failed /\ Current' = Current
        /\ worker = "coded" /\ worker' = "telling"
        /\ unsent' = [revision |-> doing, photos |-> store.photos]
    BY <1>8 DEF Answers, WorkerRest, Current
  <2>2. Working /\ Working' BY <2>1 DEF Working
  <2>3. store.revision = doing /\ doing \in Nat BY <2>1 DEF FInv, RunsIfBusy, TypeOK, Revision
  <2>4. unsent' \in Answer BY <2>1 DEF FInv, TypeOK, Answer
  <2>5. TypeOK' BY <2>1, <2>4 DEF FInv, TypeOK, Current
  <2>6. InOrder' BY <2>1, <2>2 DEF FInv, InOrder
  <2>7. TrueOf(unsent)' BY <2>1, <2>3 DEF TrueOf
  <2>8. RunsIfBusy' /\ Listed' /\ TrueOf(believed)'
    BY <2>1, <2>2 DEF FInv, RunsIfBusy, Listed, TrueOf
  <2> QED BY <2>5, <2>6, <2>7, <2>8 DEF FInv
<1>9. CASE TakeNext
  <2>1. /\ lists' = lists /\ believed' = believed /\ link' = link /\ inbox' = inbox
        /\ store' = store /\ main' = main /\ unsent' = unsent /\ failed' = failed
        /\ Current' = Current /\ worker = "next"
        /\ waiting' = 0 /\ doing' = waiting /\ (running' <=> waiting # 0)
        /\ running' \in BOOLEAN
        /\ worker' = IF waiting = 0 THEN "idle" ELSE "handing"
    BY <1>9 DEF TakeNext, Current
  <2>2. Working /\ (Working' <=> waiting # 0) BY <2>1 DEF Working
  <2>3. /\ store.revision \in Nat /\ Current \in Nat /\ doing \in Nat /\ waiting \in Nat
        /\ inbox \in Seq(Revision \ {0})
    BY LenProperties DEF FInv, TypeOK, Answer, Revision, Current
  <2>4. TypeOK' BY <1>0, <2>1 DEF FInv, TypeOK, Current
  <2>5. waiting # 0 => store.revision <= waiting /\ waiting <= Current
    BY <2>2, <2>3 DEF FInv, InOrder
  <2>6. \A i \in 1 .. Len(inbox) : 0 <= inbox[i] BY <2>3 DEF Revision
  <2>7. InOrder' BY <2>1, <2>2, <2>5, <2>6 DEF FInv, InOrder
  <2>8. RunsIfBusy' /\ Listed' /\ TrueOf(believed)' /\ TrueOf(unsent)'
    BY <2>1, <2>2 DEF FInv, RunsIfBusy, Listed, TrueOf
  <2> QED BY <2>4, <2>7, <2>8 DEF FInv
<1>10. CASE BridgeDies
  <2>1. /\ lists' = lists /\ believed' = believed /\ store' = store /\ failed' = failed
        /\ Current' = Current /\ link' = "down" /\ inbox' = <<>> /\ running' = FALSE
        /\ waiting' = 0 /\ worker' = "idle" /\ doing' = 0 /\ main' = "free"
        /\ unsent' = Nothing
    BY <1>10 DEF BridgeDies, Current
  <2>2. ~ Working' /\ Len(inbox') = 0 BY <2>1 DEF Working
  <2>3. Nothing \in Answer /\ <<>> \in Seq(Revision \ {0}) BY <1>0 DEF Nothing, Answer
  <2>4. TypeOK' BY <1>0, <2>1, <2>3 DEF FInv, TypeOK, Current
  <2>5. InOrder' BY <2>1, <2>2 DEF FInv, InOrder
  <2>6. TrueOf(unsent)' BY <2>1 DEF TrueOf, Nothing, FInv, TypeOK, Answer, Revision
  <2>7. RunsIfBusy' /\ Listed' /\ TrueOf(believed)'
    BY <2>1, <2>2 DEF FInv, RunsIfBusy, Listed, TrueOf
  <2> QED BY <2>4, <2>5, <2>6, <2>7 DEF FInv
<1>11. CASE UNCHANGED vars
  <2>1. UNCHANGED <<lists, store, running, waiting, doing, worker, main, failed, link, inbox,
                    believed, unsent>>
    BY <1>11 DEF vars, bridge
  <2> QED BY <1>0, <2>1, LinkKeeps
<1> QED BY <1>1, <1>2, <1>3, <1>4, <1>5, <1>6, <1>7, <1>8, <1>9, <1>10, <1>11
        DEF Next, Main, Worker

\* The order of the lists, and what is known and said of them.
LEMMA FacesInvariance == Spec => []FInv
BY InitEstablishes, NextKeeps, PTL DEF Spec

\* The state of the bridge, the store and the server at every step.
THEOREM FacesTypeCorrect == Spec => []TypeOK
<1>1. FInv => TypeOK BY DEF FInv
<1> QED BY <1>1, FacesInvariance, PTL

\* Somebody whom the owner has deleted is unknown to the device once the server
\* has heard of that list - for any photos, any number of changes, and whatever
\* drops, deaths and crossing answers came before.
THEOREM DeletedStaysForgotten == Spec => []DeletedIsForgotten
<1>1. ASSUME FInv PROVE DeletedIsForgotten
  <2>1. ASSUME believed.revision = Current, Current # 0
        PROVE  /\ store.revision = Current
               /\ believed.photos \subseteq store.photos
               /\ store.photos \subseteq lists[Current]
    <3>1. Current \in Nat /\ store.revision \in Nat
      BY <1>1, LenProperties DEF FInv, TypeOK, Answer, Revision, Current
    <3>2. store.revision = Current BY <1>1, <2>1, <3>1 DEF FInv, TrueOf, InOrder
    <3> QED BY <1>1, <2>1, <3>2 DEF FInv, TrueOf, Listed
  <2> QED BY <2>1 DEF DeletedIsForgotten
<1> QED BY <1>1, FacesInvariance, PTL
=============================================================================
