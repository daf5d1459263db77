-------------------------- MODULE ServerLink_proofs --------------------------
(***************************************************************************)
(* The link for any ids and faces, any queue, any delays and any length of *)
(* the wire and the pipe: the core sees the link as it is, the bridge is   *)
(* tended, and no alert leaves the queue on an answer meant for another.   *)
(*                                                                         *)
(* What the daemon has yet to read decides what it will believe: the last  *)
(* line about the link, among those still in the pipe, agrees with the     *)
(* socket (Words), "fatal" is the last line of all (Ended), and an         *)
(* acknowledgement on its way says what the server did (AcksTrue).         *)
(***************************************************************************)
EXTENDS ServerLink, Queues_proofs

QueueWell(q) ==
  /\ q \in AlertQueueType
  /\ q.inFlight => q.entries # <<>>

\* Where a process, its socket, its last words and its restart exclude one
\* another.
Ended ==
  /\ process = "none" => up = <<>>
  /\ process # "running" \/ stopping => socket = "down"
  /\ "restart" \in batch => process = "none" /\ restartTimer \in {0, None}
  /\ \A i \in 1 .. Len(up) : up[i].type = "fatal" => i = Len(up) /\ stopping
  /\ givenUp => up = <<>> /\ stopping

\* What has been reported is what the core believes.
Reported ==
  /\ downReported => ~ online
  /\ faultReported => fault
  /\ process = "none" => ~ online

\* The last line about the link itself.
LastWord(lines, i) ==
  /\ lines[i].type # "event-ack"
  /\ \A j \in 1 .. Len(lines) : j > i => lines[j].type = "event-ack"

Words ==
  process = "running" =>
    /\ (\A i \in 1 .. Len(up) : up[i].type = "event-ack")
         => (online <=> socket = "ready")
    /\ \A i \in 1 .. Len(up) :
         LastWord(up, i) => (up[i].type = "online" <=> socket = "ready")

AcksTrue ==
  \A i \in 1 .. Len(up) :
    up[i].type = "event-ack" =>
      up[i].alert \in (IF up[i].ok THEN stored ELSE unwanted)

LInv ==
  /\ TypeOK
  /\ QueueWell(alerts)
  /\ Ended
  /\ Reported
  /\ Words
  /\ AcksTrue
  /\ BridgeTended

\* What may take an alert off the queue: its age, or `because`.
StaysUnless(because) ==
  \A i \in Positions(alerts.entries) :
    Named(alerts.entries[i]) \notin Queued' =>
      \/ alerts.entries[i].age = AlertMaxAge
      \/ because
      \/ Named(alerts.entries[i]) \in stored \cup unwanted

-----------------------------------------------------------------------------
(* Lines, and what the core does when it is told.                          *)

\* The lines, and their fields.
LEMMA LineKinds ==
  /\ \A l \in Line : /\ l.type \in {"online", "offline", "fatal", "event-ack"}
                     /\ l.type = "event-ack" => l.alert \in Sent /\ l.ok \in BOOLEAN
  /\ \A t \in {"online", "offline", "fatal"} : Word(t) \in Line /\ Word(t).type = t
  /\ \A a \in Sent, ok \in BOOLEAN :
       /\ Ack(a, ok) \in Line
       /\ Ack(a, ok).type = "event-ack" /\ Ack(a, ok).alert = a /\ Ack(a, ok).ok = ok
<1>1. \A l \in Line : /\ l.type \in {"online", "offline", "fatal", "event-ack"}
                      /\ l.type = "event-ack" => l.alert \in Sent /\ l.ok \in BOOLEAN
  BY DEF Line
<1>2. \A t \in {"online", "offline", "fatal"} : Word(t) \in Line /\ Word(t).type = t
  BY DEF Line, Word
<1>3. \A a \in Sent, ok \in BOOLEAN :
        /\ Ack(a, ok) \in Line
        /\ Ack(a, ok).type = "event-ack" /\ Ack(a, ok).alert = a /\ Ack(a, ok).ok = ok
  BY DEF Line, Ack
<1> QED  BY <1>1, <1>2, <1>3

\* An alert that is queued can be sent.
LEMMA NamedSent ==
  ASSUME NEW alert \in Alert
  PROVE  Named(alert) \in Sent
BY DEF Named, Alert, Sent

\* What a delivery leaves: the queue, the alert waited for and what is written.
LEMMA DeliverProperties ==
  ASSUME TypeOK, NEW q, QueueWell(q), NEW waited \in Sent \cup {None},
         NEW timer \in (0 .. AckTimeout) \cup {None}, Deliver(q, waited, timer)
  PROVE  /\ QueueWell(alerts')
         /\ awaiting' \in Sent \cup {None}
         /\ ackTimer' \in (0 .. AckTimeout) \cup {None}
         /\ down' \in Seq(Sent)
         /\ Remains(q, alerts')
<1> DEFINE pumped  == PumpAlerts(q, online', FALSE)
           sending == AlertSent(q, online', FALSE) # <<>>
           front   == Named(Head(pumped.entries))
<1>1. /\ pumped \in AlertQueueType
      /\ pumped.inFlight => pumped.entries # <<>>
      /\ sending => pumped.entries # <<>>
      /\ Remains(q, pumped)
  BY PumpAlertsProperties DEF QueueWell
<1>2. down \in Seq(Sent)
  BY DEF TypeOK, BridgeTypeOK
<1>3. CASE ~ sending
  <2>1. alerts' = pumped /\ awaiting' = waited /\ ackTimer' = timer /\ down' = down
    BY <1>3 DEF Deliver
  <2> QED  BY <2>1, <1>1, <1>2 DEF QueueWell
<1>4. CASE /\ sending
           /\ down' = Append(down, front)
           /\ alerts' = pumped
           /\ awaiting' = front
           /\ ackTimer' = AckTimeout
  <2>1. front \in Sent
    <3>1. pumped.entries \in Seq(Alert) /\ pumped.entries # <<>>
      BY <1>1, <1>4, QueueFields
    <3>2. Head(pumped.entries) \in Alert
      BY <3>1, HeadTailProperties
    <3> QED  BY <3>2, NamedSent
  <2>2. Append(down, front) \in Seq(Sent)
    BY <2>1, <1>2, AppendProperties
  <2>3. AckTimeout \in 0 .. AckTimeout
    BY ServerLinkAssumption
  <2> HIDE DEF front, pumped, sending
  <2> QED  BY <1>1, <1>4, <2>1, <2>2, <2>3 DEF QueueWell
<1>5. CASE /\ sending
           /\ alerts' = ExpireAlerts(AlertFailed(pumped))
           /\ awaiting' = waited
           /\ ackTimer' = timer
           /\ UNCHANGED down
  <2> DEFINE failed == AlertFailed(pumped)
  <2>1. failed \in AlertQueueType /\ ~ failed.inFlight /\ failed.entries = pumped.entries
    BY <1>1, AlertFailedProperties
  <2>2. ExpireAlerts(failed) \in AlertQueueType /\ ~ ExpireAlerts(failed).inFlight
    BY <2>1, ExpireAlertsProperties
  <2>3. Remains(failed, ExpireAlerts(failed))
    BY <2>1, ExpireAlertsRemains
  <2>4. Remains(q, ExpireAlerts(failed))
    <3> HIDE DEF pumped, failed
    <3> QED  BY <1>1, <2>1, <2>3 DEF Remains
  <2>5. alerts' = ExpireAlerts(failed) /\ down' = down /\ awaiting' = waited /\ ackTimer' = timer
    BY <1>5
  <2> HIDE DEF pumped, failed, sending
  <2> QED  BY <2>2, <2>4, <2>5, <1>2 DEF QueueWell
<1> QED  BY <1>3, <1>4, <1>5 DEF Deliver

\* What the core believes once it has been told, or not again.
LEMMA ReportDownProperties ==
  ASSUME TypeOK, Reported, NEW permanent \in BOOLEAN, ReportDown(permanent)
  PROVE  /\ online' = FALSE /\ downReported' = TRUE
         /\ fault' \in BOOLEAN /\ faultReported' \in BOOLEAN
         /\ faultReported' => fault'
         /\ permanent => fault'
<1>1. online \in BOOLEAN /\ fault \in BOOLEAN /\ downReported \in BOOLEAN /\ faultReported \in BOOLEAN
  BY DEF TypeOK
<1>2. CASE Known(permanent)
  BY <1>1, <1>2 DEF ReportDown, Known, Reported
<1>3. CASE ~ Known(permanent)
  BY <1>1, <1>3 DEF ReportDown, Reported
<1> QED  BY <1>2, <1>3

\* Being told that the link is down takes nothing off the queue but old age.
LEMMA ToldDownProperties ==
  ASSUME QueueWell(alerts), NEW permanent \in BOOLEAN
  PROVE  QueueWell(ToldDown(permanent)) /\ Remains(alerts, ToldDown(permanent))
<1> DEFINE lost == AlertLinkLost(alerts)
<1>1. lost \in AlertQueueType /\ ~ lost.inFlight /\ lost.entries = alerts.entries
  BY AlertLinkLostProperties DEF QueueWell
<1>2. /\ PumpAlerts(lost, FALSE, FALSE) \in AlertQueueType
      /\ PumpAlerts(lost, FALSE, FALSE).inFlight => PumpAlerts(lost, FALSE, FALSE).entries # <<>>
      /\ Remains(lost, PumpAlerts(lost, FALSE, FALSE))
  BY <1>1, PumpAlertsProperties
<1>3. Remains(alerts, PumpAlerts(lost, FALSE, FALSE))
  <2> HIDE DEF lost
  <2> QED  BY <1>1, <1>2 DEF Remains
<1>4. Remains(alerts, alerts)
  BY DEF Remains
<1> QED  BY <1>2, <1>3, <1>4 DEF ToldDown, QueueWell

\* The wait for a restart keeps between its bounds.
LEMMA RestartType ==
  ASSUME TypeOK, ScheduleRestart
  PROVE  /\ restartTimer' \in (0 .. RestartMost) \cup {None}
         /\ restartWait' \in RestartFirst .. RestartMost
         /\ ~ givenUp => restartTimer' \in Nat
<1>1. /\ restartWait \in RestartFirst .. RestartMost
      /\ restartTimer \in (0 .. RestartMost) \cup {None}
  BY DEF TypeOK
<1>2. CASE givenUp
  BY <1>1, <1>2 DEF ScheduleRestart, restart
<1>3. CASE ~ givenUp
  <2>1. restartTimer' = restartWait /\ restartWait' = Doubled(restartWait, RestartMost)
    BY <1>3 DEF ScheduleRestart
  <2>2. \A w \in RestartFirst .. RestartMost :
          w \in 0 .. RestartMost /\ Doubled(w, RestartMost) \in RestartFirst .. RestartMost
    BY ServerLinkAssumption DEF Doubled, Lesser
  <2> QED  BY <1>1, <2>1, <2>2
<1> QED  BY <1>2, <1>3

\* An alert that is still young stays in the queue.
LEMMA RemainsNamed ==
  ASSUME QueueWell(alerts), NEW because, Remains(alerts, alerts')
  PROVE  StaysUnless(because)
<1> SUFFICES ASSUME NEW i \in Positions(alerts.entries),
                    Named(alerts.entries[i]) \notin Queued'
             PROVE  alerts.entries[i].age = AlertMaxAge
  BY DEF StaysUnless
<1>1. alerts.entries[i] \in Alert
  <2>1. alerts.entries \in Seq(Alert)
    BY QueueFields DEF QueueWell
  <2> QED  BY <2>1 DEF Positions
<1>2. alerts.entries[i].age \in 0 .. AlertMaxAge
  BY <1>1 DEF Alert
<1>3. ~ (alerts.entries[i].age < AlertMaxAge)
  BY DEF Remains, Queued
<1> QED  BY <1>2, <1>3, AlertQueueAssumption

\* What remains after two steps.
LEMMA RemainsThrough ==
  ASSUME NEW p, NEW q, NEW r, Remains(p, q), Remains(q, r)
  PROVE  Remains(p, r)
BY DEF Remains

\* An answer takes off the queue the alert it is about, if any, and a failure none.
LEMMA AnsweredTakesItsOwn ==
  ASSUME NEW q, QueueWell(q), NEW id, NEW kind, NEW outcome
  PROVE  /\ QueueWell(AlertAnswered(q, id, kind, outcome))
         /\ \A i \in Positions(q.entries) :
              \/ \E k \in Positions(AlertAnswered(q, id, kind, outcome).entries) :
                   AlertAnswered(q, id, kind, outcome).entries[k] = q.entries[i]
              \/ /\ q.entries[i].id = id /\ q.entries[i].kind = kind
                 /\ outcome # "failed"
<1> DEFINE p == AlertAnswered(q, id, kind, outcome)
           strange == \/ ~ q.inFlight
                      \/ q.entries = <<>>
                      \/ Head(q.entries).id # id
                      \/ Head(q.entries).kind # kind
<1>1. /\ q \in AlertQueueType
      /\ q.entries \in Seq(Alert) /\ Len(q.entries) \in Nat
      /\ q.inFlight => q.entries # <<>>
  BY QueueFields, LenProperties DEF QueueWell
<1>2. QueueWell(p)
  <2>1. p \in AlertQueueType /\ (p.inFlight => p = q)
    BY <1>1, AlertAnsweredProperties
  <2> QED  BY <2>1, <1>1 DEF QueueWell
<1>3. CASE strange
  <2>1. p = q
    BY <1>3 DEF AlertAnswered
  <2> QED  BY <2>1, <1>2
<1>4. CASE ~ strange /\ outcome = "failed"
  <2>1. p = AlertFailed(q)
    BY <1>4 DEF AlertAnswered
  <2>2. p.entries = q.entries
    BY <2>1, <1>1, AlertFailedProperties
  <2> QED  BY <2>2, <1>2
<1>5. CASE ~ strange /\ outcome # "failed"
  <2>1. p = [EmptyQueue EXCEPT !.entries = Tail(q.entries)]
    BY <1>5 DEF AlertAnswered
  <2>2. p.entries = Tail(q.entries)
    BY <2>1 DEF EmptyQueue
  <2>3. /\ Head(q.entries) = q.entries[1]
        /\ Len(Tail(q.entries)) = Len(q.entries) - 1
        /\ \A k \in 1 .. Len(Tail(q.entries)) : Tail(q.entries)[k] = q.entries[k + 1]
    BY <1>1, <1>5, HeadTailProperties
  <2>4. ASSUME NEW i \in Positions(q.entries), i # 1
        PROVE  \E k \in Positions(Tail(q.entries)) : Tail(q.entries)[k] = q.entries[i]
    <3>1. /\ i - 1 \in Positions(Tail(q.entries))
          /\ Tail(q.entries)[i - 1] = q.entries[i]
      BY <1>1, <2>3, <2>4 DEF Positions
    <3> QED  BY <3>1
  <2>5. q.entries[1].id = id /\ q.entries[1].kind = kind
    BY <1>5, <2>3
  <2>6. ASSUME NEW i \in Positions(q.entries)
        PROVE  \/ \E k \in Positions(p.entries) : p.entries[k] = q.entries[i]
               \/ /\ q.entries[i].id = id /\ q.entries[i].kind = kind
                  /\ outcome # "failed"
    <3>1. CASE i = 1
      BY <2>5, <1>5, <3>1
    <3>2. CASE i # 1
      <4>1. PICK k \in Positions(Tail(q.entries)) : Tail(q.entries)[k] = q.entries[i]
        BY <2>4, <3>2
      <4> HIDE DEF p
      <4> QED  BY <2>2, <4>1
    <3> QED  BY <3>1, <3>2
  <2> QED  BY <2>6, <1>2
<1> QED  BY <1>3, <1>4, <1>5

\* After an answer the alert it was about may be gone, and what is too old.
LEMMA AnsweredLeaves ==
  ASSUME QueueWell(alerts), NEW because, NEW id, NEW kind, NEW outcome,
         outcome = "failed" \/ [id |-> id, kind |-> kind] \in stored \cup unwanted,
         Remains(AlertAnswered(alerts, id, kind, outcome), alerts')
  PROVE  StaysUnless(because)
<1> DEFINE rest == AlertAnswered(alerts, id, kind, outcome)
<1> SUFFICES ASSUME NEW i \in Positions(alerts.entries),
                    Named(alerts.entries[i]) \notin Queued'
             PROVE  \/ alerts.entries[i].age = AlertMaxAge
                    \/ Named(alerts.entries[i]) \in stored \cup unwanted
  BY DEF StaysUnless
<1>1. alerts.entries[i].age \in 0 .. AlertMaxAge
  <2>1. alerts.entries \in Seq(Alert)
    BY QueueFields DEF QueueWell
  <2>2. alerts.entries[i] \in Alert
    BY <2>1 DEF Positions
  <2> QED  BY <2>2 DEF Alert
<1>2. \/ \E k \in Positions(rest.entries) : rest.entries[k] = alerts.entries[i]
      \/ /\ alerts.entries[i].id = id /\ alerts.entries[i].kind = kind
         /\ outcome # "failed"
  BY AnsweredTakesItsOwn
<1>3. CASE \E k \in Positions(rest.entries) : rest.entries[k] = alerts.entries[i]
  <2>1. ~ (alerts.entries[i].age < AlertMaxAge)
    <3> HIDE DEF rest
    <3>1. Remains(rest, alerts')
      BY DEF rest
    <3> QED  BY <3>1, <1>3 DEF Remains, Queued
  <2> QED  BY <2>1, <1>1, AlertQueueAssumption
<1>4. CASE /\ alerts.entries[i].id = id /\ alerts.entries[i].kind = kind
           /\ outcome # "failed"
  BY <1>4 DEF Named
<1> QED  BY <1>2, <1>3, <1>4

-----------------------------------------------------------------------------
(* One lemma for each action.                                              *)

Leaves == StaysUnless(Len(alerts.entries) >= AlertCapacity /\ Queued' \ Queued # {})

\* The restart timer: a fault that is tried again, or a process.
LEMMA OnRestartKeeps ==
  ASSUME LInv, OnRestart
  PROVE  LInv' /\ Leaves
<1>1. /\ TypeOK /\ QueueWell(alerts) /\ Ended /\ Reported /\ Words /\ AcksTrue /\ BridgeTended
      /\ "restart" \in batch /\ batch' = batch \ {"restart"} /\ ~ givenUp
      /\ process = "none" /\ restartTimer \in {0, None} /\ up = <<>>
      /\ UNCHANGED <<awaiting, ackTimer>>
  BY DEF LInv, OnRestart, Turn, Ended
<1>2. CASE /\ ReportDown(TRUE)
           /\ alerts' = ToldDown(TRUE)
           /\ ScheduleRestart
           /\ UNCHANGED <<bridgeVars, givenUp>>
  <2>1. /\ online' = FALSE /\ downReported' = TRUE
        /\ fault' \in BOOLEAN /\ faultReported' \in BOOLEAN
        /\ faultReported' => fault'
    BY <1>1, <1>2, ReportDownProperties
  <2>2. QueueWell(alerts') /\ Remains(alerts, alerts')
    BY <1>1, <1>2, ToldDownProperties
  <2>3. /\ restartTimer' \in (0 .. RestartMost) \cup {None}
        /\ restartWait' \in RestartFirst .. RestartMost
        /\ restartTimer' \in Nat
    BY <1>1, <1>2, RestartType
  <2>4. TypeOK'
    BY <1>1, <1>2, <2>1, <2>2, <2>3 DEF TypeOK, BridgeTypeOK, bridgeVars, QueueWell
  <2>5. Ended'
    BY <1>1, <1>2 DEF Ended, bridgeVars
  <2>6. Reported'
    BY <2>1 DEF Reported
  <2>7. Words' /\ AcksTrue'
    BY <1>1, <1>2 DEF Words, AcksTrue, bridgeVars
  <2>8. BridgeTended'
    BY <1>1, <1>2, <2>3, BasicsAssumption DEF BridgeTended, bridgeVars
  <2>9. Leaves
    BY <1>1, <2>2, RemainsNamed DEF Leaves
  <2> QED  BY <2>2, <2>4, <2>5, <2>6, <2>7, <2>8, <2>9 DEF LInv
<1>3. CASE /\ Spawned
           /\ restartTimer' = Drained(restartTimer, None)
           /\ UNCHANGED <<coreSide, restartWait, reports>>
  <2>1. /\ restartTimer' = None
        /\ process' = "running" /\ socket' = socket /\ socket = "down" /\ ~ stopping'
        /\ up' = <<>> /\ down' = <<>>
        /\ UNCHANGED <<wire, stored, unwanted, alerts, online, fault, restartWait,
                      downReported, faultReported, givenUp>>
    BY <1>1, <1>3 DEF Spawned, Drained, coreSide, reports, Ended
  <2>2. <<>> \in Seq(Line) /\ <<>> \in Seq(Sent) /\ Len(<<>>) = 0
    OBVIOUS
  <2>3. TypeOK'
    BY <1>1, <1>3, <2>1, <2>2 DEF TypeOK, BridgeTypeOK, Spawned
  <2>4. Ended' /\ Words' /\ AcksTrue'
    BY <1>1, <2>1, <2>2 DEF Ended, Words, AcksTrue, Reported
  <2>5. Reported' /\ BridgeTended'
    BY <1>1, <2>1 DEF Reported, BridgeTended
  <2>6. QueueWell(alerts') /\ Leaves
    <3>1. Remains(alerts, alerts')
      BY <2>1 DEF Remains
    <3> QED  BY <1>1, <2>1, <3>1, RemainsNamed DEF Leaves
  <2> QED  BY <2>3, <2>4, <2>5, <2>6 DEF LInv
<1> QED  BY <1>2, <1>3 DEF OnRestart

\* What is known once a line has been read and not yet acted on.
Read ==
  /\ "line" \in batch
  /\ up # <<>>
  /\ up' = Tail(up)
  /\ batch' \in {batch \ {"line"}, IF up' = <<>> THEN batch \ {"line"} ELSE batch}
  /\ UNCHANGED <<process, socket, stopping, wire, stored, unwanted>>

\* What reading a line leaves to be acted on.
LEMMA ReadProperties ==
  ASSUME LInv, Read
  PROVE  /\ up' \in Seq(Line) /\ Head(up) \in Line
         /\ batch' \subseteq {"line", "ack", "restart", "other"}
         /\ process \in {"running", "exited"} /\ ~ givenUp
         /\ "restart" \notin batch' /\ restartTimer = None
         /\ AcksTrue'
         /\ \A i \in 1 .. Len(up') : up'[i].type = "fatal" => i = Len(up') /\ stopping'
         /\ Head(up).type = "fatal" => up' = <<>> /\ stopping
         /\ Head(up).type = "event-ack" =>
              Head(up).alert \in (IF Head(up).ok THEN stored ELSE unwanted)
         /\ process = "running" =>
              /\ (\A i \in 1 .. Len(up') : up'[i].type = "event-ack") =>
                   IF Head(up).type = "event-ack"
                     THEN online <=> socket = "ready"
                     ELSE Head(up).type = "online" <=> socket = "ready"
              /\ \A i \in 1 .. Len(up') :
                   LastWord(up', i) => (up'[i].type = "online" <=> socket = "ready")
<1>1. /\ TypeOK /\ Ended /\ Words /\ AcksTrue /\ BridgeTended
      /\ up \in Seq(Line) /\ process \in {"none", "running", "exited"}
      /\ batch \subseteq {"line", "ack", "restart", "other"}
  BY DEF LInv, TypeOK, BridgeTypeOK
<1>2. /\ Len(up) \in Nat \ {0} /\ Head(up) = up[1] /\ Head(up) \in Line
      /\ up' \in Seq(Line) /\ Len(up') = Len(up) - 1
      /\ \A i \in 1 .. Len(up') : up'[i] = up[i + 1]
  BY <1>1, HeadTailProperties, EmptySeq DEF Read
<1>3. /\ 1 \in 1 .. Len(up)
      /\ \A i \in 1 .. Len(up') : i + 1 \in 1 .. Len(up)
      /\ \A j \in 1 .. Len(up) : j > 1 => j - 1 \in 1 .. Len(up') /\ up[j] = up'[j - 1]
  BY <1>2
<1>4. /\ process \in {"running", "exited"} /\ ~ givenUp
      /\ "restart" \notin batch /\ restartTimer = None
  BY <1>1 DEF Ended, BridgeTended, Read
<1>5. batch' \subseteq batch
  BY DEF Read
<1>6. AcksTrue'
  BY <1>1, <1>2, <1>3 DEF AcksTrue, Read
<1>7. \A i \in 1 .. Len(up') : up'[i].type = "fatal" => i = Len(up') /\ stopping'
  <2> TAKE i \in 1 .. Len(up')
  <2> HAVE up'[i].type = "fatal"
  <2>1. i + 1 \in 1 .. Len(up) /\ up[i + 1].type = "fatal"
    BY <1>2, <1>3
  <2>2. i + 1 = Len(up) /\ stopping
    BY <2>1, <1>1 DEF Ended
  <2>3. stopping' = stopping
    BY DEF Read
  <2> QED  BY <2>2, <2>3, <1>2
<1>8. Head(up).type = "fatal" => up' = <<>> /\ stopping
  <2>1. Head(up).type = "fatal" => Len(up') = 0 /\ stopping
    BY <1>1, <1>2, <1>3 DEF Ended
  <2> QED  BY <2>1, <1>2, EmptySeq
<1>9. Head(up).type = "event-ack" =>
        Head(up).alert \in (IF Head(up).ok THEN stored ELSE unwanted)
  BY <1>1, <1>2, <1>3 DEF AcksTrue
<1>10. ASSUME process = "running", \A i \in 1 .. Len(up') : up'[i].type = "event-ack"
       PROVE  IF Head(up).type = "event-ack"
                THEN online <=> socket = "ready"
                ELSE Head(up).type = "online" <=> socket = "ready"
  <2>1. \A j \in 1 .. Len(up) : j > 1 => up[j].type = "event-ack"
    BY <1>3, <1>10
  <2>2. CASE Head(up).type = "event-ack"
    <3>1. \A j \in 1 .. Len(up) : up[j].type = "event-ack"
      BY <1>2, <2>1, <2>2
    <3> QED  BY <1>1, <1>10, <2>2, <3>1 DEF Words
  <2>3. CASE Head(up).type # "event-ack"
    <3>1. LastWord(up, 1)
      BY <1>2, <2>1, <2>3 DEF LastWord
    <3> QED  BY <1>1, <1>2, <1>3, <1>10, <2>3, <3>1 DEF Words
  <2> QED  BY <2>2, <2>3
<1>11. ASSUME process = "running", NEW i \in 1 .. Len(up'), LastWord(up', i)
       PROVE  up'[i].type = "online" <=> socket = "ready"
  <2>1. LastWord(up, i + 1)
    <3> SUFFICES ASSUME NEW j \in 1 .. Len(up), j > i + 1
                 PROVE  up[j].type = "event-ack"
      BY <1>2, <1>11 DEF LastWord
    <3>1. j - 1 \in 1 .. Len(up') /\ j - 1 > i /\ up[j] = up'[j - 1]
      BY <1>2, <1>3
    <3> QED  BY <1>11, <3>1 DEF LastWord
  <2> QED  BY <1>1, <1>2, <1>3, <1>11, <2>1 DEF Words
<1> QED  BY <1>1, <1>2, <1>4, <1>5, <1>6, <1>7, <1>8, <1>9, <1>10, <1>11

\* A line about the link itself: the queue is pumped or told, nothing else.
\* "online" is the only news that the link is up.
LEMMA HeardOnlineKeeps ==
  ASSUME LInv, Read, HeardOnline
  PROVE  LInv' /\ Leaves
<1>1. /\ TypeOK /\ QueueWell(alerts) /\ Ended /\ Reported
      /\ Head(up).type = "online" /\ online' = TRUE /\ fault' = FALSE
      /\ downReported' = FALSE /\ faultReported' = FALSE
      /\ restartWait' = RestartFirst /\ restartTimer' = None /\ givenUp' = givenUp
      /\ Deliver(alerts, awaiting, ackTimer)
      /\ UNCHANGED <<process, socket, stopping, wire, stored, unwanted>>
  BY DEF LInv, HeardOnline, Read
<1>2. /\ QueueWell(alerts') /\ awaiting' \in Sent \cup {None}
      /\ ackTimer' \in (0 .. AckTimeout) \cup {None}
      /\ down' \in Seq(Sent) /\ Remains(alerts, alerts')
  BY <1>1, DeliverProperties DEF TypeOK
<1>3. TypeOK'
  <2>1. up' \in Seq(Line) /\ batch' \subseteq {"line", "ack", "restart", "other"}
    BY ReadProperties
  <2>2. BridgeTypeOK'
    BY <1>1, <1>2, <2>1 DEF TypeOK, BridgeTypeOK
  <2>3. restartWait' \in RestartFirst .. RestartMost
    BY <1>1, ServerLinkAssumption
  <2>4. givenUp' \in BOOLEAN
    BY <1>1 DEF TypeOK
  <2> QED  BY <1>1, <1>2, <2>1, <2>2, <2>3, <2>4 DEF TypeOK, QueueWell
<1>4. Ended'
  BY <1>1, ReadProperties DEF Ended
<1>5. Reported'
  BY <1>1, ReadProperties DEF Reported
<1>6. Words'
  BY <1>1, ReadProperties DEF Words
<1>7. AcksTrue'
  BY ReadProperties
<1>8. BridgeTended'
  BY <1>1, ReadProperties DEF BridgeTended
<1>9. Leaves
  BY <1>1, <1>2, RemainsNamed DEF Leaves
<1> QED  BY <1>2, <1>3, <1>4, <1>5, <1>6, <1>7, <1>8, <1>9 DEF LInv

\* "offline" is an outage, told once.
LEMMA HeardOfflineKeeps ==
  ASSUME LInv, Read, HeardOffline
  PROVE  LInv' /\ Leaves
<1>1. /\ TypeOK /\ QueueWell(alerts) /\ Ended /\ Reported /\ BridgeTended
      /\ Head(up).type = "offline" /\ ReportDown(FALSE)
      /\ alerts' = ToldDown(FALSE)
      /\ UNCHANGED <<awaiting, ackTimer, down, restartTimer, restartWait, givenUp>>
      /\ UNCHANGED <<process, socket, stopping, wire, stored, unwanted>>
  BY DEF LInv, HeardOffline, Read, restart
<1>2. /\ online' = FALSE /\ downReported' = TRUE
      /\ fault' \in BOOLEAN /\ faultReported' \in BOOLEAN
      /\ faultReported' => fault'
  BY <1>1, ReportDownProperties
<1>3. QueueWell(alerts') /\ Remains(alerts, alerts')
  BY <1>1, ToldDownProperties
<1>4. TypeOK'
  BY <1>1, <1>2, <1>3, ReadProperties DEF TypeOK, BridgeTypeOK, QueueWell
<1>5. Ended'
  BY <1>1, ReadProperties DEF Ended
<1>6. Reported'
  BY <1>2 DEF Reported
<1>7. Words'
  BY <1>1, <1>2, ReadProperties DEF Words
<1>8. AcksTrue'
  BY ReadProperties
<1>9. BridgeTended'
  BY <1>1, ReadProperties DEF BridgeTended
<1>10. Leaves
  BY <1>1, <1>3, RemainsNamed DEF Leaves
<1> QED  BY <1>3, <1>4, <1>5, <1>6, <1>7, <1>8, <1>9, <1>10 DEF LInv

\* "fatal" is the last line of a process nobody will start again.
LEMMA HeardFatalKeeps ==
  ASSUME LInv, Read, HeardFatal
  PROVE  LInv' /\ Leaves
<1>1. /\ TypeOK /\ QueueWell(alerts) /\ Ended /\ Reported
      /\ Head(up).type = "fatal" /\ ReportDown(TRUE)
      /\ alerts' = ToldDown(TRUE)
      /\ givenUp' = TRUE /\ restartTimer' = None
      /\ UNCHANGED <<awaiting, ackTimer, down, restartWait>>
      /\ UNCHANGED <<process, socket, stopping, wire, stored, unwanted>>
  BY DEF LInv, HeardFatal, Read
<1>2. /\ online' = FALSE /\ downReported' = TRUE
      /\ fault' \in BOOLEAN /\ faultReported' \in BOOLEAN
      /\ faultReported' => fault'
      /\ fault'
  BY <1>1, ReportDownProperties
<1>3. QueueWell(alerts') /\ Remains(alerts, alerts')
  BY <1>1, ToldDownProperties
<1>4. TypeOK'
  BY <1>1, <1>2, <1>3, ReadProperties DEF TypeOK, BridgeTypeOK, QueueWell
<1>5. Ended'
  BY <1>1, ReadProperties DEF Ended
<1>6. Reported'
  BY <1>2 DEF Reported
<1>7. Words'
  BY <1>1, <1>2, ReadProperties DEF Words
<1>8. AcksTrue'
  BY ReadProperties
<1>9. BridgeTended'
  <2>1. "restart" \notin batch'
    BY ReadProperties
  <2>2. givenUp' /\ restartTimer' = None
    BY <1>1
  <2>3. fault' /\ ~ online'
    BY <1>2
  <2> QED  BY <2>1, <2>2, <2>3, Zenon DEF BridgeTended
<1>10. Leaves
  BY <1>1, <1>3, RemainsNamed DEF Leaves
<1> QED  BY <1>3, <1>4, <1>5, <1>6, <1>7, <1>8, <1>9, <1>10 DEF LInv

\* An acknowledgement takes the alert it is about, and no other.
LEMMA HeardAckKeeps ==
  ASSUME LInv, Read, HeardAck
  PROVE  LInv' /\ Leaves
<1> DEFINE ack == Head(up)
           outcome == IF ack.ok THEN "delivered" ELSE "rejected"
           rest == AlertAnswered(alerts, ack.alert.id, ack.alert.kind, outcome)
<1>1. /\ TypeOK /\ QueueWell(alerts) /\ Ended /\ Reported /\ BridgeTended
      /\ ack.type = "event-ack"
      /\ UNCHANGED <<online, fault>>
      /\ Deliver(rest, None, None)
      /\ UNCHANGED <<restartTimer, restartWait, downReported, faultReported, givenUp>>
      /\ UNCHANGED <<process, socket, stopping, wire, stored, unwanted>>
  BY DEF LInv, HeardAck, Read, restart, reports
<1>2. ack.alert \in Sent /\ ack.alert \in stored \cup unwanted
  <2>1. ack \in Line
    BY ReadProperties
  <2>2. ack.alert \in (IF ack.ok THEN stored ELSE unwanted)
    BY <1>1, ReadProperties
  <2> QED  BY <1>1, <2>1, <2>2, LineKinds
<1>3. QueueWell(rest)
  BY <1>1, AnsweredTakesItsOwn
<1>4. /\ QueueWell(alerts') /\ awaiting' \in Sent \cup {None}
      /\ ackTimer' \in (0 .. AckTimeout) \cup {None}
      /\ down' \in Seq(Sent) /\ Remains(rest, alerts')
  <2> HIDE DEF rest
  <2> QED  BY <1>1, <1>3, DeliverProperties
<1>5. TypeOK'
  BY <1>1, <1>4, ReadProperties DEF TypeOK, BridgeTypeOK, QueueWell
<1>6. Ended'
  BY <1>1, ReadProperties DEF Ended
<1>7. Reported'
  BY <1>1 DEF Reported
<1>8. Words'
  BY <1>1, ReadProperties DEF Words
<1>9. AcksTrue'
  BY ReadProperties
<1>10. BridgeTended'
  BY <1>1, ReadProperties DEF BridgeTended
<1>11. Leaves
  <2>1. [id |-> ack.alert.id, kind |-> ack.alert.kind] = ack.alert
    BY <1>2 DEF Sent
  <2> HIDE DEF ack, outcome
  <2> QED  BY <1>1, <1>2, <1>4, <2>1, AnsweredLeaves DEF Leaves, rest
<1> QED  BY <1>4, <1>5, <1>6, <1>7, <1>8, <1>9, <1>10, <1>11 DEF LInv

\* The end of the process: the core is told, and a restart arranged.
LEMMA OnBridgeLostKeeps ==
  ASSUME LInv, OnBridgeLost
  PROVE  LInv' /\ Leaves
<1> DEFINE told   == ToldDown(FALSE)
           failed == AlertAnswered(told, awaiting.id, awaiting.kind, "failed")
<1>1. /\ TypeOK /\ QueueWell(alerts) /\ Ended /\ Reported /\ AcksTrue /\ BridgeTended
      /\ "line" \in batch /\ batch' = batch \ {"line"}
      /\ up = <<>> /\ process = "exited" /\ process' = "none" /\ down' = <<>>
      /\ ReportDown(FALSE) /\ awaiting' = None /\ ScheduleRestart
      /\ UNCHANGED <<ackTimer, givenUp, socket, stopping, up, wire, stored, unwanted>>
  BY DEF LInv, OnBridgeLost, Turn
<1>2. /\ online' = FALSE /\ downReported' = TRUE
      /\ fault' \in BOOLEAN /\ faultReported' \in BOOLEAN
      /\ faultReported' => fault'
  BY <1>1, ReportDownProperties
<1>3. /\ restartTimer' \in (0 .. RestartMost) \cup {None}
      /\ restartWait' \in RestartFirst .. RestartMost
      /\ ~ givenUp => restartTimer' \in Nat
  BY <1>1, RestartType
<1>4. QueueWell(told) /\ Remains(alerts, told)
  BY <1>1, ToldDownProperties
<1>5. QueueWell(alerts') /\ Remains(alerts, alerts')
  <2>1. CASE awaiting = None
    BY <1>4, <2>1 DEF OnBridgeLost
  <2>2. CASE awaiting # None
    <3>1. QueueWell(failed) /\ Remains(told, failed)
      <4> HIDE DEF told
      <4>1. /\ QueueWell(AlertAnswered(told, awaiting.id, awaiting.kind, "failed"))
            /\ \A i \in Positions(told.entries) :
                 \E k \in Positions(AlertAnswered(told, awaiting.id, awaiting.kind,
                                                 "failed").entries) :
                   AlertAnswered(told, awaiting.id, awaiting.kind, "failed").entries[k]
                     = told.entries[i]
        BY <1>4, AnsweredTakesItsOwn
      <4> QED  BY <4>1 DEF Remains
    <3>2. /\ QueueWell(PumpAlerts(failed, online', FALSE))
          /\ Remains(failed, PumpAlerts(failed, online', FALSE))
      <4> HIDE DEF failed
      <4> QED  BY <3>1, PumpAlertsProperties DEF QueueWell
    <3>3. alerts' = PumpAlerts(failed, online', FALSE)
      BY <2>2 DEF OnBridgeLost
    <3>4. Remains(alerts, failed)
      BY <1>4, <3>1, RemainsThrough
    <3> QED  BY <3>2, <3>3, <3>4, RemainsThrough
  <2> QED  BY <2>1, <2>2
<1>6. TypeOK'
  <2>1. <<>> \in Seq(Sent)
    OBVIOUS
  <2> QED  BY <1>1, <1>2, <1>3, <1>5, <2>1 DEF TypeOK, BridgeTypeOK, QueueWell
<1>7. "restart" \notin batch
  BY <1>1 DEF Ended
<1>8. Ended'
  BY <1>1, <1>7 DEF Ended
<1>9. Reported'
  BY <1>2 DEF Reported
<1>10. Words' /\ AcksTrue'
  BY <1>1 DEF Words, AcksTrue
<1>11. BridgeTended'
  <2>1. CASE givenUp
    <3>1. restartTimer' = None /\ fault /\ "restart" \notin batch' /\ givenUp'
      BY <1>1, <1>7, <2>1 DEF BridgeTended, ScheduleRestart, restart
    <3>2. fault' = TRUE
      BY <1>1, <3>1 DEF ReportDown, TypeOK
    <3> QED  BY <1>2, <3>1, <3>2 DEF BridgeTended
  <2>2. CASE ~ givenUp
    BY <1>1, <1>3, <2>2, BasicsAssumption DEF BridgeTended
  <2> QED  BY <2>1, <2>2
<1>12. Leaves
  BY <1>1, <1>5, RemainsNamed DEF Leaves
<1> QED  BY <1>5, <1>6, <1>8, <1>9, <1>10, <1>11, <1>12 DEF LInv

\* Silence: the alert waited for has failed.
LEMMA OnAckTimeoutKeeps ==
  ASSUME LInv, OnAckTimeout
  PROVE  LInv' /\ Leaves
<1> DEFINE late   == Drained(ackTimer, None)
           failed == AlertAnswered(alerts, awaiting.id, awaiting.kind, "failed")
<1>1. /\ TypeOK /\ QueueWell(alerts) /\ Ended /\ Reported /\ Words /\ AcksTrue /\ BridgeTended
      /\ "ack" \in batch /\ batch' = batch \ {"ack"}
      /\ UNCHANGED <<online, fault, process, socket, stopping, up, wire, stored, unwanted,
                    restartTimer, restartWait, downReported, faultReported, givenUp>>
  BY DEF LInv, OnAckTimeout, Turn, restart, reports
<1>2. late \in (0 .. AckTimeout) \cup {None}
  BY <1>1 DEF TypeOK, Drained
<1>3. /\ QueueWell(alerts') /\ awaiting' \in Sent \cup {None}
      /\ ackTimer' \in (0 .. AckTimeout) \cup {None}
      /\ down' \in Seq(Sent) /\ Leaves
  <2>1. CASE awaiting = None
    <3>1. alerts' = alerts /\ awaiting' = awaiting /\ down' = down /\ ackTimer' = late
      BY <2>1 DEF OnAckTimeout
    <3>2. Remains(alerts, alerts')
      BY <3>1 DEF Remains
    <3> HIDE DEF late
    <3> QED  BY <1>1, <1>2, <3>1, <3>2, <2>1, RemainsNamed DEF TypeOK, BridgeTypeOK, Leaves
  <2>2. CASE awaiting # None
    <3>1. Deliver(failed, None, late)
      BY <2>2 DEF OnAckTimeout
    <3>2. QueueWell(failed)
      BY <1>1, AnsweredTakesItsOwn
    <3>3. /\ QueueWell(alerts') /\ awaiting' \in Sent \cup {None}
          /\ ackTimer' \in (0 .. AckTimeout) \cup {None}
          /\ down' \in Seq(Sent) /\ Remains(failed, alerts')
      <4> HIDE DEF failed, late
      <4> QED  BY <1>1, <1>2, <3>1, <3>2, DeliverProperties
    <3>4. Leaves
      BY <1>1, <3>3, AnsweredLeaves DEF Leaves
    <3> QED  BY <3>3, <3>4
  <2> QED  BY <2>1, <2>2
<1>4. TypeOK'
  BY <1>1, <1>3 DEF TypeOK, BridgeTypeOK, QueueWell
<1>5. Ended' /\ Reported' /\ Words' /\ AcksTrue' /\ BridgeTended'
  BY <1>1 DEF Ended, Reported, Words, AcksTrue, BridgeTended, LastWord
<1> QED  BY <1>3, <1>4, <1>5 DEF LInv

\* A new alert, of which no answer on its way can be: it takes room, if any.
LEMMA NewAlertKeeps ==
  ASSUME LInv, NewAlert
  PROVE  LInv' /\ Leaves
<1>1. /\ TypeOK /\ QueueWell(alerts) /\ Ended /\ Reported /\ Words /\ AcksTrue /\ BridgeTended
      /\ "other" \in batch /\ batch' = batch \ {"other"}
      /\ UNCHANGED <<online, fault, process, socket, stopping, up, wire,
                    restartTimer, restartWait, downReported, faultReported, givenUp>>
  BY DEF LInv, NewAlert, Turn, restart, reports
<1>2. PICK alert \in Sent \ Mentioned, faces \in Faces :
        /\ Deliver(PushAlert(alerts, [id |-> alert.id, kind |-> alert.kind,
                                      faces |-> faces, age |-> 0]),
                   awaiting, ackTimer)
        /\ stored' = stored \ {alert}
        /\ unwanted' = unwanted \ {alert}
  BY DEF NewAlert
<1> DEFINE new == [id |-> alert.id, kind |-> alert.kind, faces |-> faces, age |-> 0]
           pushed == PushAlert(alerts, new)
<1>3. new \in Alert /\ Named(new) = alert
  BY AlertQueueAssumption DEF Alert, Sent, Named
<1>4. /\ alerts \in AlertQueueType /\ (alerts.inFlight => alerts.entries # <<>>)
      /\ alerts.entries \in Seq(Alert) /\ Len(alerts.entries) \in Nat
  BY <1>1, QueueFields, LenProperties DEF QueueWell
<1>5. QueueWell(pushed)
  <2>1. /\ pushed \in AlertQueueType /\ pushed.entries # <<>>
    <3> HIDE DEF new
    <3> QED  BY <1>3, <1>4, PushAlertProperties
  <2> QED  BY <2>1 DEF QueueWell
<1>6. /\ QueueWell(alerts') /\ awaiting' \in Sent \cup {None}
      /\ ackTimer' \in (0 .. AckTimeout) \cup {None}
      /\ down' \in Seq(Sent) /\ Remains(pushed, alerts')
  <2>1. Deliver(pushed, awaiting, ackTimer)
    BY <1>2
  <2>2. /\ awaiting \in Sent \cup {None}
        /\ ackTimer \in (0 .. AckTimeout) \cup {None}
    BY <1>1 DEF TypeOK
  <2> HIDE DEF pushed
  <2> QED  BY <1>1, <1>5, <2>1, <2>2, DeliverProperties
<1>7. alert \in Queued' \ Queued
  <2> DEFINE room == IF Len(alerts.entries) >= AlertCapacity
                       THEN Drop(alerts.entries, Protected(alerts), 1) ELSE alerts.entries
  <2>1. pushed = [alerts EXCEPT !.entries = Append(room, new)]
    BY DEF PushAlert
  <2>2. pushed.entries = Append(room, new)
    BY <2>1, <1>4 DEF AlertQueueType
  <2>3. room \in Seq(Alert)
    <3>1. CASE ~ (Len(alerts.entries) >= AlertCapacity)
      BY <3>1, <1>4
    <3>2. CASE Len(alerts.entries) >= AlertCapacity
      <4>1. Protected(alerts) \in Nat /\ Protected(alerts) <= Len(alerts.entries)
        BY <1>4, <3>2, AlertQueueAssumption DEF Protected
      <4> QED  BY <1>4, <3>2, <4>1, DropProperties
    <3> QED  BY <3>1, <3>2
  <2> HIDE DEF room, new, pushed
  <2>4. /\ Len(room) \in Nat /\ Len(Append(room, new)) = Len(room) + 1
        /\ Append(room, new)[Len(room) + 1] = new
    BY <1>3, <2>3, AppendProperties, LenProperties
  <2>5. /\ Len(room) + 1 \in Positions(pushed.entries)
        /\ pushed.entries[Len(room) + 1] = new
    BY <2>2, <2>4 DEF Positions
  <2>6. new.age < AlertMaxAge
    BY AlertQueueAssumption DEF new
  <2>7. PICK k \in Positions(alerts'.entries) : alerts'.entries[k] = new
    BY <1>6, <2>5, <2>6 DEF Remains
  <2>8. alert \in Queued'
    BY <1>3, <2>7 DEF Queued
  <2>9. alert \notin Queued
    BY DEF Mentioned
  <2> QED  BY <2>8, <2>9
<1>8. Leaves
  <2>1. CASE Len(alerts.entries) >= AlertCapacity
    BY <1>7, <2>1 DEF Leaves, StaysUnless
  <2>2. CASE ~ (Len(alerts.entries) >= AlertCapacity)
    <3>1. pushed.entries = Append(alerts.entries, new)
      <4>1. pushed = [alerts EXCEPT !.entries = Append(alerts.entries, new)]
        BY <2>2 DEF PushAlert
      <4> QED  BY <4>1, <1>4 DEF AlertQueueType
    <3>2. Remains(alerts, pushed)
      <4> HIDE DEF new, pushed
      <4>1. /\ Len(Append(alerts.entries, new)) = Len(alerts.entries) + 1
            /\ \A i \in 1 .. Len(alerts.entries) :
                 Append(alerts.entries, new)[i] = alerts.entries[i]
        BY <1>3, <1>4, AppendProperties
      <4>2. \A i \in Positions(alerts.entries) :
              i \in Positions(pushed.entries) /\ pushed.entries[i] = alerts.entries[i]
        BY <1>4, <3>1, <4>1 DEF Positions
      <4> QED  BY <4>2 DEF Remains
    <3>3. Remains(alerts, alerts')
      BY <1>6, <3>2, RemainsThrough
    <3> QED  BY <1>1, <3>3, RemainsNamed DEF Leaves
  <2> QED  BY <2>1, <2>2
<1>9. TypeOK'
  BY <1>1, <1>2, <1>6 DEF TypeOK, BridgeTypeOK, QueueWell
<1>10. Ended' /\ Reported' /\ Words' /\ BridgeTended'
  BY <1>1 DEF Ended, Reported, Words, BridgeTended, LastWord
<1>11. AcksTrue'
  <2> SUFFICES ASSUME NEW i \in 1 .. Len(up), up[i].type = "event-ack"
               PROVE  up[i].alert \in (IF up[i].ok THEN stored' ELSE unwanted')
    BY <1>1 DEF AcksTrue
  <2>1. up[i].alert # alert
    BY DEF Mentioned
  <2>2. up[i].alert \in (IF up[i].ok THEN stored ELSE unwanted)
    BY <1>1 DEF AcksTrue
  <2> QED  BY <1>2, <2>1, <2>2
<1> QED  BY <1>6, <1>8, <1>9, <1>10, <1>11 DEF LInv

\* Any other event.
LEMMA ElsewhereKeeps ==
  ASSUME LInv, Elsewhere
  PROVE  LInv' /\ Leaves
<1>1. /\ TypeOK /\ QueueWell(alerts) /\ Ended /\ Reported /\ Words /\ AcksTrue /\ BridgeTended
      /\ "other" \in batch /\ batch' = batch \ {"other"}
      /\ Deliver(alerts, awaiting, ackTimer)
      /\ UNCHANGED <<online, fault, process, socket, stopping, up, wire, stored, unwanted,
                    restartTimer, restartWait, downReported, faultReported, givenUp>>
  BY DEF LInv, Elsewhere, Turn, restart, reports
<1>2. /\ QueueWell(alerts') /\ awaiting' \in Sent \cup {None}
      /\ ackTimer' \in (0 .. AckTimeout) \cup {None}
      /\ down' \in Seq(Sent) /\ Remains(alerts, alerts')
  BY <1>1, DeliverProperties DEF TypeOK
<1>3. TypeOK'
  BY <1>1, <1>2 DEF TypeOK, BridgeTypeOK, QueueWell
<1>4. Ended' /\ Reported' /\ Words' /\ AcksTrue' /\ BridgeTended'
  BY <1>1 DEF Ended, Reported, Words, AcksTrue, BridgeTended, LastWord
<1>5. Leaves
  BY <1>1, <1>2, RemainsNamed DEF Leaves
<1> QED  BY <1>2, <1>3, <1>4, <1>5 DEF LInv

\* The next batch: a restart is in it only if there is no process.
LEMMA WakeKeeps ==
  ASSUME LInv, Wake
  PROVE  LInv' /\ Leaves
<1>1. /\ TypeOK /\ QueueWell(alerts) /\ Ended /\ Reported /\ Words /\ AcksTrue /\ BridgeTended
      /\ batch = {}
      /\ UNCHANGED <<bridgeVars, coreSide, awaiting, ackTimer, restart, reports>>
  BY DEF LInv, Wake, Collect
<1>2. UNCHANGED <<process, socket, stopping, down, up, wire, stored, unwanted, alerts, online,
                  fault, awaiting, ackTimer, restartTimer, restartWait, downReported,
                  faultReported, givenUp>>
  BY <1>1 DEF bridgeVars, coreSide, restart, reports
<1>3. PICK news \in SUBSET {"other"} : batch' = Readable \cup news
  BY DEF Wake, Collect
<1>4. batch' \subseteq {"line", "ack", "restart", "other"}
  BY <1>3 DEF Readable
<1>5. "restart" \in batch' => restartTimer = 0
  BY <1>3 DEF Readable
<1>6. restartTimer = 0 => process = "none" /\ ~ givenUp
  BY <1>1, BasicsAssumption DEF BridgeTended
<1>7. TypeOK' /\ QueueWell(alerts')
  BY <1>1, <1>2, <1>4 DEF TypeOK, BridgeTypeOK
<1>8. Ended'
  BY <1>1, <1>2, <1>5, <1>6 DEF Ended
<1>9. Reported' /\ Words' /\ AcksTrue'
  BY <1>1, <1>2 DEF Reported, Words, AcksTrue, LastWord
<1>10. BridgeTended'
  <2>1. CASE givenUp
    BY <1>1, <1>2, <1>5, <1>6, <2>1 DEF BridgeTended
  <2>2. CASE ~ givenUp
    BY <1>1, <1>2, <2>2 DEF BridgeTended
  <2> QED  BY <2>1, <2>2
<1>11. Leaves
  <2>1. Remains(alerts, alerts')
    BY <1>2 DEF Remains
  <2> QED  BY <1>1, <2>1, RemainsNamed DEF Leaves
<1> QED  BY <1>7, <1>8, <1>9, <1>10, <1>11 DEF LInv

\* Time makes alerts older and timers shorter.
LEMMA WaitKeeps ==
  ASSUME LInv, Wait
  PROVE  LInv' /\ Leaves
<1>1. /\ TypeOK /\ QueueWell(alerts) /\ Ended /\ Reported /\ Words /\ AcksTrue /\ BridgeTended
      /\ alerts' = AlertsOlder(alerts)
      /\ ackTimer' = Closer(ackTimer) /\ restartTimer' = Closer(restartTimer)
      /\ UNCHANGED <<process, socket, stopping, down, up, wire, stored, unwanted, batch, online,
                    fault, awaiting, restartWait, downReported, faultReported, givenUp>>
  BY DEF LInv, Wait, bridgeVars, reports
<1>2. /\ alerts' \in AlertQueueType /\ alerts'.inFlight = alerts.inFlight
      /\ Len(alerts'.entries) = Len(alerts.entries)
      /\ \A i \in 1 .. Len(alerts.entries) :
           /\ alerts'.entries[i].id = alerts.entries[i].id
           /\ alerts'.entries[i].kind = alerts.entries[i].kind
      /\ alerts.entries \in Seq(Alert) /\ alerts'.entries \in Seq(Alert)
  <2>1. alerts \in AlertQueueType
    BY <1>1 DEF QueueWell
  <2> QED  BY <1>1, <2>1, AlertsOlderProperties, QueueFields
<1>3. QueueWell(alerts')
  BY <1>1, <1>2, EmptySeq DEF QueueWell
<1>4. /\ ackTimer' \in (0 .. AckTimeout) \cup {None}
      /\ restartTimer' \in (0 .. RestartMost) \cup {None}
      /\ restartTimer' # None <=> restartTimer # None
      /\ restartTimer \in {0, None} => restartTimer' = restartTimer
  <2>1. /\ ackTimer \in (0 .. AckTimeout) \cup {None}
        /\ restartTimer \in (0 .. RestartMost) \cup {None}
    BY <1>1 DEF TypeOK
  <2> QED  BY <1>1, <2>1, BasicsAssumption, ServerLinkAssumption DEF Closer
<1>5. TypeOK'
  BY <1>1, <1>2, <1>4 DEF TypeOK, BridgeTypeOK
<1>6. Ended' /\ Reported' /\ Words' /\ AcksTrue'
  BY <1>1, <1>4 DEF Ended, Reported, Words, AcksTrue, LastWord
<1>7. BridgeTended'
  BY <1>1, <1>4 DEF BridgeTended
<1>8. Leaves
  <2> SUFFICES ASSUME NEW i \in Positions(alerts.entries)
               PROVE  Named(alerts.entries[i]) \in Queued'
    BY DEF Leaves, StaysUnless
  <2>1. i \in Positions(alerts'.entries) /\ Named(alerts'.entries[i]) = Named(alerts.entries[i])
    BY <1>2 DEF Positions, Named
  <2> QED  BY <2>1 DEF Queued
<1> QED  BY <1>3, <1>5, <1>6, <1>7, <1>8 DEF LInv

-----------------------------------------------------------------------------
(* The bridge and the server.  Nothing of the daemon changes.              *)

DaemonStill ==
  UNCHANGED <<batch, alerts, online, fault, awaiting, ackTimer, restartTimer, restartWait,
              downReported, faultReported, givenUp>>

\* A socket that is lost may have stored what was on it.
LEMMA SocketLostProperties ==
  ASSUME TypeOK, SocketLost
  PROVE  /\ socket' = "down" /\ wire' = <<>> /\ wire' \in Seq(Sent)
         /\ stored' \subseteq Sent /\ stored \subseteq stored' /\ unwanted' = unwanted
<1>1. wire \in Seq(Sent) /\ stored \subseteq Sent
  BY DEF TypeOK, BridgeTypeOK
<1>2. OnWire \subseteq Sent
  BY <1>1 DEF OnWire
<1> QED  BY <1>1, <1>2 DEF SocketLost

\* A socket that is open is not yet a link.
LEMMA ConnectKeeps ==
  ASSUME LInv, Connect, DaemonStill
  PROVE  LInv'
<1>1. /\ TypeOK /\ Ended /\ Words
      /\ process = "running" /\ ~ stopping /\ socket = "down" /\ socket' = "hello"
      /\ UNCHANGED <<process, stopping, down, up, wire, stored, unwanted>>
  BY DEF LInv, Connect
<1>2. TypeOK' /\ Ended' /\ Words'
  BY <1>1 DEF TypeOK, BridgeTypeOK, Ended, Words, LastWord, DaemonStill
<1> QED
  BY <1>1, <1>2 DEF LInv, DaemonStill, QueueWell, Reported, AcksTrue, BridgeTended

\* A hello that is accepted is the only step that says "online".
LEMMA HelloAcceptedKeeps ==
  ASSUME LInv, HelloAccepted, DaemonStill
  PROVE  LInv'
<1>1. /\ TypeOK /\ Ended /\ Words /\ AcksTrue /\ up \in Seq(Line)
      /\ process = "running" /\ socket = "hello" /\ socket' = "ready" /\ ~ stopping
      /\ up' = Append(up, Word("online"))
      /\ UNCHANGED <<process, stopping, down, wire, stored, unwanted>>
  BY DEF LInv, HelloAccepted, TypeOK, BridgeTypeOK, Ended
<1>2. Word("online") \in Line /\ Word("online").type = "online"
  BY LineKinds
<1>3. /\ up' \in Seq(Line) /\ Len(up) \in Nat /\ Len(up') = Len(up) + 1
      /\ \A i \in 1 .. Len(up) : up'[i] = up[i]
      /\ up'[Len(up) + 1].type = "online"
  BY <1>1, <1>2, AppendProperties, LenProperties
<1>4. \A i \in 1 .. Len(up') : i \in 1 .. Len(up) \/ i = Len(up) + 1
  BY <1>3
<1>5. TypeOK'
  BY <1>1, <1>3 DEF TypeOK, BridgeTypeOK, DaemonStill
<1>6. Ended'
  BY <1>1, <1>3, <1>4 DEF Ended, DaemonStill
<1>7. Words'
  <2>1. \A i \in 1 .. Len(up') : LastWord(up', i) => i = Len(up) + 1
    <3> TAKE i \in 1 .. Len(up')
    <3> HAVE LastWord(up', i)
    <3>1. i \in 1 .. Len(up) => ~ LastWord(up', i)
      BY <1>3 DEF LastWord
    <3> QED  BY <1>4, <3>1
  <2>2. Len(up) + 1 \in 1 .. Len(up')
    BY <1>3
  <2> QED  BY <1>1, <1>3, <2>1, <2>2 DEF Words
<1>8. AcksTrue'
  BY <1>1, <1>3, <1>4 DEF AcksTrue
<1> QED
  BY <1>1, <1>5, <1>6, <1>7, <1>8 DEF LInv, DaemonStill, QueueWell, Reported, BridgeTended

\* What is written on the socket touches nothing the daemon believes.
LEMMA RelayKeeps ==
  ASSUME LInv, Relay, DaemonStill
  PROVE  LInv'
<1>1. /\ TypeOK /\ down \in Seq(Sent) /\ wire \in Seq(Sent) /\ down # <<>>
      /\ down' = Tail(down) /\ wire' \in {wire, Append(wire, Head(down))}
      /\ UNCHANGED <<process, socket, stopping, up, stored, unwanted>>
  BY DEF LInv, Relay, TypeOK, BridgeTypeOK
<1>2. down' \in Seq(Sent) /\ wire' \in Seq(Sent)
  <2>1. Head(down) \in Sent /\ Tail(down) \in Seq(Sent)
    BY <1>1, HeadTailProperties
  <2>2. Append(wire, Head(down)) \in Seq(Sent)
    BY <1>1, <2>1, AppendProperties
  <2> QED  BY <1>1, <2>1, <2>2
<1>3. TypeOK'
  BY <1>1, <1>2 DEF TypeOK, BridgeTypeOK, DaemonStill
<1> QED
  BY <1>1, <1>3 DEF LInv, DaemonStill, QueueWell, Ended, Reported, Words, AcksTrue,
                    BridgeTended, LastWord

\* A process that has ended says nothing more, and its socket is lost.
LEMMA ExitsKeeps ==
  ASSUME LInv, Exits, DaemonStill
  PROVE  LInv'
<1>1. /\ TypeOK /\ Ended /\ Reported /\ AcksTrue /\ BridgeTended
      /\ process = "running" /\ process' = "exited" /\ SocketLost
      /\ UNCHANGED <<stopping, down, up>>
  BY DEF LInv, Exits
<1>2. /\ socket' = "down" /\ wire' \in Seq(Sent)
      /\ stored' \subseteq Sent /\ stored \subseteq stored' /\ unwanted' = unwanted
  BY <1>1, SocketLostProperties
<1>3. TypeOK'
  BY <1>1, <1>2 DEF TypeOK, BridgeTypeOK, DaemonStill
<1>4. Ended' /\ Reported' /\ Words'
  BY <1>1, <1>2 DEF Ended, Reported, Words, DaemonStill
<1>5. AcksTrue' /\ BridgeTended'
  BY <1>1, <1>2 DEF AcksTrue, BridgeTended, DaemonStill
<1> QED  BY <1>3, <1>4, <1>5 DEF LInv, DaemonStill, QueueWell

\* A connection that ends: "offline" if it was up, and "fatal" after that.
LEMMA ClosedKeeps ==
  ASSUME LInv, NEW why \in {"network", "final"}, Closed(why), DaemonStill
  PROVE  LInv'
<1> DEFINE bye == Farewell(why)
<1>1. /\ TypeOK /\ Ended /\ Reported /\ Words /\ AcksTrue /\ BridgeTended /\ up \in Seq(Line)
      /\ process = "running" /\ socket # "down" /\ ~ stopping /\ ~ givenUp
      /\ up' = up \o bye /\ stopping' = (why = "final") /\ SocketLost
      /\ UNCHANGED <<process, down>>
  BY DEF LInv, Closed, TypeOK, BridgeTypeOK, Ended
<1>2. /\ socket' = "down" /\ wire' \in Seq(Sent)
      /\ stored' \subseteq Sent /\ stored \subseteq stored' /\ unwanted' = unwanted
  BY <1>1, SocketLostProperties
<1>3. /\ Word("offline") \in Line /\ Word("offline").type = "offline"
      /\ Word("fatal") \in Line /\ Word("fatal").type = "fatal"
  BY LineKinds
<1>4. /\ bye \in Seq(Line) /\ Len(bye) \in 0 .. 2
      /\ \A k \in 1 .. Len(bye) : /\ bye[k].type \in {"offline", "fatal"}
                                  /\ bye[k].type = "fatal" => k = Len(bye) /\ why = "final"
      /\ socket = "ready" => Len(bye) > 0
  <2>1. CASE socket = "ready" /\ why = "final"
    <3>1. bye = <<Word("offline")>> \o <<Word("fatal")>>
      BY <2>1 DEF Farewell
    <3> HIDE DEF bye
    <3>2. /\ bye \in Seq(Line) /\ Len(bye) = 2
          /\ bye[1] = Word("offline") /\ bye[2] = Word("fatal")
      <4>1. /\ <<Word("offline")>> \in Seq(Line) /\ <<Word("fatal")>> \in Seq(Line)
            /\ Len(<<Word("offline")>>) = 1 /\ Len(<<Word("fatal")>>) = 1
        BY <1>3
      <4>2. /\ bye \in Seq(Line) /\ Len(bye) = 2
            /\ \A k \in 1 .. 2 : bye[k] = IF k <= 1 THEN <<Word("offline")>>[k]
                                                 ELSE <<Word("fatal")>>[k - 1]
        BY <3>1, <4>1, ConcatProperties
      <4> QED  BY <4>2
    <3>3. \A k \in 1 .. Len(bye) : k = 1 \/ k = 2
      BY <3>2
    <3> QED  BY <1>3, <2>1, <3>2, <3>3
  <2>2. CASE socket = "ready" /\ why # "final"
    <3>1. bye = <<Word("offline")>> \o <<>>
      BY <2>2 DEF Farewell
    <3>2. <<Word("offline")>> \in Seq(Line)
      BY <1>3
    <3> HIDE DEF bye
    <3>3. bye = <<Word("offline")>>
      BY <3>1, <3>2, ConcatEmptySeq
    <3>4. bye \in Seq(Line) /\ Len(bye) = 1 /\ bye[1] = Word("offline")
      BY <3>2, <3>3
    <3>5. \A k \in 1 .. Len(bye) : k = 1
      BY <3>4
    <3> QED  BY <1>3, <3>4, <3>5
  <2>3. CASE socket # "ready" /\ why = "final"
    <3>1. bye = <<>> \o <<Word("fatal")>>
      BY <2>3 DEF Farewell
    <3>2. <<Word("fatal")>> \in Seq(Line)
      BY <1>3
    <3> HIDE DEF bye
    <3>3. bye = <<Word("fatal")>>
      BY <3>1, <3>2, ConcatEmptySeq
    <3>4. bye \in Seq(Line) /\ Len(bye) = 1 /\ bye[1] = Word("fatal")
      BY <3>2, <3>3
    <3>5. \A k \in 1 .. Len(bye) : k = 1
      BY <3>4
    <3> QED  BY <1>3, <2>3, <3>4, <3>5
  <2>4. CASE socket # "ready" /\ why # "final"
    <3>1. bye = <<>> \o <<>>
      BY <2>4 DEF Farewell
    <3> HIDE DEF bye
    <3>2. bye = <<>>
      BY <3>1
    <3> QED  BY <2>4, <3>2
  <2> QED  BY <2>1, <2>2, <2>3, <2>4
<1> HIDE DEF bye
<1>5. /\ up' \in Seq(Line) /\ Len(up) \in Nat /\ Len(up') = Len(up) + Len(bye)
      /\ \A i \in 1 .. Len(up) : up'[i] = up[i]
      /\ \A i \in 1 .. Len(up') : i > Len(up) => i - Len(up) \in 1 .. Len(bye)
                                              /\ up'[i] = bye[i - Len(up)]
  <2>1. /\ up' \in Seq(Line) /\ Len(up') = Len(up) + Len(bye)
        /\ \A i \in 1 .. Len(up) + Len(bye) :
             up'[i] = IF i <= Len(up) THEN up[i] ELSE bye[i - Len(up)]
        /\ Len(up) \in Nat
    BY <1>1, <1>4, ConcatProperties, LenProperties
  <2> QED  BY <2>1, <1>4
<1>6. \A i \in 1 .. Len(up') : i \in 1 .. Len(up) \/ i > Len(up)
  BY <1>5
<1>7. TypeOK'
  BY <1>1, <1>2, <1>5 DEF TypeOK, BridgeTypeOK, DaemonStill
<1>8. Ended'
  <2>1. ASSUME NEW i \in 1 .. Len(up'), up'[i].type = "fatal"
        PROVE  i = Len(up') /\ stopping'
    <3>1. i \notin 1 .. Len(up)
      BY <1>1, <1>5, <2>1 DEF Ended
    <3>2. /\ i - Len(up) \in 1 .. Len(bye) /\ bye[i - Len(up)].type = "fatal"
      BY <1>5, <1>6, <2>1, <3>1
    <3>3. i - Len(up) = Len(bye) /\ why = "final"
      BY <1>4, <3>2
    <3>4. stopping'
      BY <1>1, <3>3
    <3>5. i = Len(up')
      <4>1. Len(bye) \in Nat /\ i \in Nat
        BY <1>4, <1>5
      <4> QED  BY <1>5, <3>3, <4>1
    <3> QED  BY <3>4, <3>5
  <2> QED  BY <1>1, <1>2, <2>1 DEF Ended, DaemonStill
<1>9. Words'
  <2>1. ASSUME \A i \in 1 .. Len(up') : up'[i].type = "event-ack"
        PROVE  ~ online
    <3>1. \A i \in 1 .. Len(up) : i \in 1 .. Len(up') /\ up[i].type = "event-ack"
      BY <1>4, <1>5, <2>1
    <3>2. socket # "ready"
      <4>1. SUFFICES ASSUME Len(bye) > 0 PROVE FALSE
        BY <1>4
      <4>2. /\ Len(up) + 1 \in 1 .. Len(up') /\ Len(up) + 1 > Len(up)
            /\ (Len(up) + 1) - Len(up) = 1
        BY <1>4, <1>5, <4>1
      <4>3. up'[Len(up) + 1] = bye[1] /\ 1 \in 1 .. Len(bye)
        BY <1>5, <4>2
      <4> QED  BY <1>4, <2>1, <4>2, <4>3
    <3> QED  BY <1>1, <3>1, <3>2 DEF Words
  <2>2. ASSUME NEW i \in 1 .. Len(up'), LastWord(up', i)
        PROVE  up'[i].type # "online"
    <3>1. CASE i > Len(up)
      BY <1>4, <1>5, <3>1
    <3>2. CASE i \in 1 .. Len(up)
      <4>1. LastWord(up, i)
        <5>1. \A j \in 1 .. Len(up) : j \in 1 .. Len(up') /\ up'[j] = up[j]
          BY <1>4, <1>5
        <5> QED  BY <2>2, <3>2, <5>1 DEF LastWord
      <4>2. socket # "ready"
        <5>1. SUFFICES ASSUME Len(bye) > 0 PROVE FALSE
          BY <1>4
        <5>2. /\ Len(up) + 1 \in 1 .. Len(up') /\ Len(up) + 1 > i /\ Len(up) + 1 > Len(up)
              /\ (Len(up) + 1) - Len(up) = 1
          BY <1>4, <1>5, <3>2, <5>1
        <5>3. up'[Len(up) + 1] = bye[1] /\ 1 \in 1 .. Len(bye)
          BY <1>5, <5>2
        <5>4. up'[Len(up) + 1].type = "event-ack"
          BY <2>2, <5>2 DEF LastWord
        <5> QED  BY <1>4, <5>3, <5>4
      <4> QED  BY <1>1, <1>5, <3>2, <4>1, <4>2 DEF Words
    <3> QED  BY <1>6, <3>1, <3>2
  <2> QED  BY <1>1, <1>2, <2>1, <2>2 DEF Words, DaemonStill
<1>10. AcksTrue'
  <2> SUFFICES ASSUME NEW i \in 1 .. Len(up'), up'[i].type = "event-ack"
               PROVE  up'[i].alert \in (IF up'[i].ok THEN stored' ELSE unwanted')
    BY DEF AcksTrue
  <2>1. i \in 1 .. Len(up)
    BY <1>4, <1>5, <1>6
  <2>2. up[i].alert \in (IF up[i].ok THEN stored ELSE unwanted)
    BY <1>1, <1>5, <2>1 DEF AcksTrue
  <2> QED  BY <1>2, <1>5, <2>1, <2>2
<1> QED
  BY <1>1, <1>7, <1>8, <1>9, <1>10 DEF LInv, DaemonStill, QueueWell, Reported, BridgeTended

\* An answer passed on says what the server did.
LEMMA ServeKeeps ==
  ASSUME LInv, Serve, DaemonStill
  PROVE  LInv'
<1>1. /\ TypeOK /\ Ended /\ Reported /\ Words /\ AcksTrue /\ BridgeTended
      /\ up \in Seq(Line) /\ wire \in Seq(Sent)
      /\ stored \subseteq Sent /\ unwanted \subseteq Sent
      /\ process = "running" /\ socket = "ready" /\ ~ stopping /\ ~ givenUp
      /\ UNCHANGED <<process, socket, stopping, down>>
  BY DEF LInv, Serve, TypeOK, BridgeTypeOK, Ended
<1>2. PICK i \in 1 .. Len(wire) :
        /\ wire' = Drop(wire, i - 1, 1)
        /\ \/ /\ stored' = stored \cup {wire[i]} /\ unwanted' = unwanted
              /\ up' = Append(up, Ack(wire[i], TRUE))
           \/ /\ unwanted' = unwanted \cup {wire[i]} /\ stored' = stored
              /\ up' = Append(up, Ack(wire[i], FALSE))
           \/ /\ up' = up /\ unwanted' = unwanted
              /\ stored' \in {stored, stored \cup {wire[i]}}
  BY DEF Serve
<1>3. Len(wire) \in Nat /\ wire[i] \in Sent /\ wire' \in Seq(Sent)
  <2>1. Len(wire) \in Nat /\ wire[i] \in Sent
    BY <1>1, LenProperties
  <2>2. i - 1 \in Nat /\ i - 1 <= Len(wire) /\ 1 \in Nat
    BY <2>1
  <2> QED  BY <1>1, <1>2, <2>1, <2>2, DropProperties
<1>4. /\ stored \subseteq stored' /\ unwanted \subseteq unwanted'
      /\ stored' \subseteq Sent /\ unwanted' \subseteq Sent
  BY <1>1, <1>2, <1>3
<1>5. CASE up' = up
  <2>1. TypeOK'
    BY <1>1, <1>3, <1>4, <1>5 DEF TypeOK, BridgeTypeOK, DaemonStill
  <2>2. Ended' /\ Words'
    BY <1>1, <1>5 DEF Ended, Words, DaemonStill, LastWord
  <2>3. AcksTrue'
    BY <1>1, <1>4, <1>5 DEF AcksTrue
  <2> QED
    BY <1>1, <2>1, <2>2, <2>3 DEF LInv, DaemonStill, QueueWell, Reported, BridgeTended
<1>6. ASSUME NEW ok \in BOOLEAN, up' = Append(up, Ack(wire[i], ok)),
             wire[i] \in (IF ok THEN stored' ELSE unwanted')
      PROVE  LInv'
  <2>1. /\ Ack(wire[i], ok) \in Line /\ Ack(wire[i], ok).type = "event-ack"
        /\ Ack(wire[i], ok).alert = wire[i] /\ Ack(wire[i], ok).ok = ok
    BY <1>3, LineKinds
  <2>2. /\ up' \in Seq(Line) /\ Len(up) \in Nat /\ Len(up') = Len(up) + 1
        /\ \A k \in 1 .. Len(up) : up'[k] = up[k]
        /\ up'[Len(up) + 1] = Ack(wire[i], ok)
    BY <1>1, <1>6, <2>1, AppendProperties, LenProperties
  <2>3. /\ \A k \in 1 .. Len(up') : k \in 1 .. Len(up) \/ k = Len(up) + 1
        /\ \A k \in 1 .. Len(up) : k \in 1 .. Len(up')
    BY <2>2
  <2>4. TypeOK'
    BY <1>1, <1>3, <1>4, <2>2 DEF TypeOK, BridgeTypeOK, DaemonStill
  <2>5. \A k \in 1 .. Len(up') : up'[k].type # "fatal"
    BY <1>1, <2>1, <2>2, <2>3 DEF Ended
  <2>6. Ended'
    BY <1>1, <2>5 DEF Ended, DaemonStill
  <2>7. \A k \in 1 .. Len(up') :
          LastWord(up', k) => k \in 1 .. Len(up) /\ LastWord(up, k)
    BY <2>1, <2>2, <2>3 DEF LastWord
  <2>8. Words'
    BY <1>1, <2>2, <2>3, <2>7 DEF Words, DaemonStill
  <2>9. AcksTrue'
    <3> SUFFICES ASSUME NEW k \in 1 .. Len(up'), up'[k].type = "event-ack"
                 PROVE  up'[k].alert \in (IF up'[k].ok THEN stored' ELSE unwanted')
      BY DEF AcksTrue
    <3>1. CASE k = Len(up) + 1
      BY <1>6, <2>1, <2>2, <3>1
    <3>2. CASE k \in 1 .. Len(up)
      <4>1. up[k].alert \in (IF up[k].ok THEN stored ELSE unwanted)
        BY <1>1, <2>2, <3>2 DEF AcksTrue
      <4> QED  BY <1>4, <2>2, <3>2, <4>1
    <3> QED  BY <2>3, <3>1, <3>2
  <2> QED
    BY <1>1, <2>4, <2>6, <2>8, <2>9 DEF LInv, DaemonStill, QueueWell, Reported, BridgeTended
<1> QED  BY <1>2, <1>5, <1>6

-----------------------------------------------------------------------------
(* Every step, and what follows for all of them.                           *)

\* It holds at the start: nothing runs, and the core has been told nothing.
LEMMA InitLInv ==
  ASSUME Init
  PROVE  LInv
<1>1. /\ BridgeInit /\ batch = {"restart"} /\ alerts = EmptyQueue /\ online = FALSE
      /\ fault = FALSE /\ awaiting = None /\ ackTimer = None /\ restartTimer = None
      /\ restartWait = RestartFirst /\ downReported = FALSE /\ faultReported = FALSE
      /\ givenUp = FALSE
  BY DEF Init
<1>2. EmptyQueue \in AlertQueueType /\ ~ EmptyQueue.inFlight
  BY EmptyQueueType DEF EmptyQueue
<1>3. /\ process = "none" /\ socket = "down" /\ stopping = FALSE
      /\ up = <<>> /\ down = <<>> /\ wire = <<>> /\ stored = {} /\ unwanted = {}
      /\ <<>> \in Seq(Line) /\ <<>> \in Seq(Sent) /\ Len(<<>>) = 0
  BY <1>1 DEF BridgeInit
<1>4. BridgeTypeOK
  BY <1>3 DEF BridgeTypeOK
<1>5. TypeOK
  <2>1. RestartFirst \in RestartFirst .. RestartMost
    BY ServerLinkAssumption
  <2> QED  BY <1>1, <1>2, <1>4, <2>1 DEF TypeOK
<1>6. Ended /\ Reported /\ Words /\ AcksTrue /\ BridgeTended
  BY <1>1, <1>3 DEF Ended, Reported, Words, AcksTrue, BridgeTended
<1> QED  BY <1>1, <1>2, <1>5, <1>6 DEF LInv, QueueWell

\* No step of the bridge or the server touches the queue.
LEMMA BridgeMovesKeeps ==
  ASSUME LInv, BridgeMoves
  PROVE  LInv' /\ Leaves
<1>1. DaemonStill
  BY DEF BridgeMoves, DaemonStill, coreSide, restart, reports
<1>2. LInv'
  <2>1. CASE Connect
    BY <1>1, <2>1, ConnectKeeps
  <2>2. CASE HelloAccepted
    BY <1>1, <2>2, HelloAcceptedKeeps
  <2>3. ASSUME NEW why \in {"network", "final"}, Closed(why) PROVE LInv'
    BY <1>1, <2>3, ClosedKeeps
  <2>4. CASE Relay
    BY <1>1, <2>4, RelayKeeps
  <2>5. CASE Serve
    BY <1>1, <2>5, ServeKeeps
  <2>6. CASE Exits
    BY <1>1, <2>6, ExitsKeeps
  <2> QED  BY <2>1, <2>2, <2>3, <2>4, <2>5, <2>6 DEF BridgeMoves, BridgeNext
<1>3. Leaves
  <2>1. Remains(alerts, alerts')
    BY <1>1 DEF DaemonStill, Remains
  <2> QED  BY <2>1, RemainsNamed DEF LInv, Leaves
<1> QED  BY <1>2, <1>3

\* Every line, by what it says.
LEMMA OnLineKeeps ==
  ASSUME LInv, OnLine
  PROVE  LInv' /\ Leaves
<1>1. Read
  BY DEF OnLine, Read
<1> QED
  BY <1>1, HeardOnlineKeeps, HeardOfflineKeeps, HeardFatalKeeps, HeardAckKeeps DEF OnLine

\* Every step keeps the invariant and every alert it has no reason to let go.
LEMMA NextKeeps ==
  ASSUME LInv, Next
  PROVE  LInv' /\ Leaves
BY OnRestartKeeps, OnLineKeeps, OnBridgeLostKeeps, OnAckTimeoutKeeps, NewAlertKeeps,
   ElsewhereKeeps, WakeKeeps, WaitKeeps, BridgeMovesKeeps
   DEF Next

\* So does a step that changes nothing.
LEMMA StutterKeeps ==
  ASSUME LInv, UNCHANGED vars
  PROVE  LInv'
<1>1. UNCHANGED <<process, socket, stopping, down, up, wire, stored, unwanted, batch, alerts,
                  online, fault, awaiting, ackTimer, restartTimer, restartWait, downReported,
                  faultReported, givenUp>>
  BY DEF vars, bridgeVars, coreSide, restart, reports
<1>2. TypeOK' /\ QueueWell(alerts')
  BY <1>1 DEF LInv, TypeOK, BridgeTypeOK
<1>3. Ended' /\ Reported' /\ Words' /\ AcksTrue' /\ BridgeTended'
  BY <1>1 DEF LInv, Ended, Reported, Words, AcksTrue, BridgeTended, LastWord
<1> QED  BY <1>2, <1>3 DEF LInv

\* The invariant holds of every behaviour.
LEMMA LinkInvariance == Spec => []LInv
<1>1. Init => LInv
  BY InitLInv
<1>2. LInv /\ [Next]_vars => LInv'
  BY NextKeeps, StutterKeeps
<1> QED  BY <1>1, <1>2, PTL DEF Spec

\* Every variable of the link, the bridge and the queue keeps its type.
THEOREM LinkTypeCorrect == Spec => []TypeOK
<1>1. LInv => TypeOK
  BY DEF LInv
<1> QED  BY <1>1, LinkInvariance, PTL

\* The core's idea of the link is the bridge's, once every line has been read.
THEOREM LinkIsSeen == Spec => []LinkSeen
<1>1. LInv => LinkSeen
  <2> SUFFICES ASSUME LInv PROVE LinkSeen
    OBVIOUS
  <2>1. ASSUME process = "running", up = <<>> PROVE online <=> socket = "ready"
    <3>1. \A i \in 1 .. Len(up) : FALSE
      BY <2>1, EmptySeq
    <3> QED  BY <2>1, <3>1 DEF LInv, Words
  <2>2. process = "none" => ~ online
    BY DEF LInv, Reported
  <2> QED  BY <2>1, <2>2 DEF LinkSeen
<1> QED  BY <1>1, LinkInvariance, PTL

\* One process or one restart, until a fault that only a person can mend; then
\* neither, and the fault shows.
THEOREM BridgeIsTended == Spec => []BridgeTended
<1>1. LInv => BridgeTended
  BY DEF LInv
<1> QED  BY <1>1, LinkInvariance, PTL

\* An alert leaves because the server has it or refuses it, because of its age,
\* or because a new one needed the room.
THEOREM NoneLeavesUnasked == Spec => LeavesForAReason
<1>1. ASSUME LInv, [Next]_vars
      PROVE  [\A i \in Positions(alerts.entries) :
                LET alert == alerts.entries[i]
                IN  Named(alert) \notin Queued' =>
                      \/ Named(alert) \in stored \cup unwanted
                      \/ alert.age = AlertMaxAge
                      \/ Len(alerts.entries) >= AlertCapacity /\ Queued' \ Queued # {}]_vars
  BY <1>1, NextKeeps DEF Leaves, StaysUnless
<1> QED  BY <1>1, LinkInvariance, PTL DEF Spec, LeavesForAReason
=============================================================================
