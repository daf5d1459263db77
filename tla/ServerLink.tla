----------------------------- MODULE ServerLink -----------------------------
(***************************************************************************)
(* BridgeServerLink (io/bridge_server_link.cpp) between the core's queue   *)
(* of alerts and the bridge process: who is told what about the link, the  *)
(* one alert an acknowledgement is awaited for, and when the process is    *)
(* started again.                                                          *)
(*                                                                         *)
(* Every event the link reports is handled by the core before the call     *)
(* returns, and what the core then sends goes out inside the same          *)
(* callback (Daemon::deliver), so a callback here is one step.  Of the     *)
(* core there is what touches alerts: the queue, pump_alerts and the link  *)
(* flags.                                                                  *)
(***************************************************************************)
EXTENDS AlertQueue, Bridge, Reactor

CONSTANTS AckTimeout,    \* ServerConfig::ack_timeout
          RestartFirst,  \* ServerConfig::restart_backoff_initial
          RestartMost    \* ServerConfig::restart_backoff_max

ASSUME ServerLinkAssumption ==
  /\ AckTimeout \in Nat
  /\ RestartFirst \in Nat \ {0}
  /\ RestartMost \in Nat
  /\ RestartFirst <= RestartMost

VARIABLES alerts,          \* Core::alerts_
          online,          \* Core::server_online_
          fault,           \* Core::server_fault_
          awaiting,        \* pending_id_ and pending_kind_, None if not awaiting_ack_
          ackTimer,        \* ack_timer_
          restartTimer,    \* restart_timer_
          restartWait,     \* restart_backoff_
          downReported,    \* down_reported_
          faultReported,   \* fault_reported_
          givenUp          \* given_up_

coreSide == <<alerts, online, fault>>
reports  == <<downReported, faultReported, givenUp>>
restart  == <<restartTimer, restartWait>>
vars == <<bridgeVars, batch, coreSide, awaiting, ackTimer, restart, reports>>

\* start() is the first thing that happens: it tries to start the process.
Init ==
  /\ BridgeInit
  /\ batch = {"restart"}
  /\ alerts = EmptyQueue
  /\ online = FALSE
  /\ fault = FALSE
  /\ awaiting = None
  /\ ackTimer = None
  /\ restartTimer = None
  /\ restartWait = RestartFirst
  /\ downReported = FALSE
  /\ faultReported = FALSE
  /\ givenUp = FALSE

TypeOK ==
  /\ BridgeTypeOK
  /\ batch \subseteq {"line", "ack", "restart", "other"}
  /\ alerts \in AlertQueueType
  /\ online \in BOOLEAN
  /\ fault \in BOOLEAN
  /\ awaiting \in Sent \cup {None}
  /\ ackTimer \in 0 .. AckTimeout \cup {None}
  /\ restartTimer \in 0 .. RestartMost \cup {None}
  /\ restartWait \in RestartFirst .. RestartMost
  /\ downReported \in BOOLEAN
  /\ faultReported \in BOOLEAN
  /\ givenUp \in BOOLEAN

Named(alert) == [id |-> alert.id, kind |-> alert.kind]

-----------------------------------------------------------------------------
(* The core, told of something that leaves it with queue q; the link was   *)
(* waiting for `waited`, with `timer` on its acknowledgement.              *)

\* send_alert: written to the process, or refused at once - no process, or one
\* that does not take it - and then the refusal is delivered as well.
Deliver(q, waited, timer) ==
  LET pumped  == PumpAlerts(q, online', FALSE)
      sending == AlertSent(q, online', FALSE) # <<>>
      front   == Named(Head(pumped.entries))
  IN  \/ /\ ~ sending
         /\ alerts' = pumped
         /\ awaiting' = waited
         /\ ackTimer' = timer
         /\ UNCHANGED down
      \/ /\ sending
         /\ process = "running"
         /\ down' = Append(down, front)
         /\ alerts' = pumped
         /\ awaiting' = front
         /\ ackTimer' = AckTimeout
      \/ /\ sending
         /\ alerts' = ExpireAlerts(AlertFailed(pumped))
         /\ awaiting' = waited
         /\ ackTimer' = timer
         /\ UNCHANGED down

\* Fault: a fault on top of an outage is no news either.
KnownDown(permanent) == downReported

\* A report the core has had already is not made again: an outage is news
\* once, and a fault once on top of it.
Known(permanent) == downReported /\ (~ permanent \/ faultReported)

\* report_down, and the core's on_server_offline if it is told.
ReportDown(permanent) ==
  IF Known(permanent)
    THEN UNCHANGED <<downReported, faultReported, online, fault>>
    ELSE /\ downReported' = TRUE
         /\ faultReported' = (faultReported \/ permanent)
         /\ online' = FALSE
         /\ fault' = (fault \/ permanent)

\* The queue once the core has been told, if it is; nothing is sent.
ToldDown(permanent) ==
  IF Known(permanent) THEN alerts ELSE PumpAlerts(AlertLinkLost(alerts), FALSE, FALSE)

\* schedule_restart
ScheduleRestart ==
  IF givenUp
    THEN UNCHANGED restart
    ELSE /\ restartTimer' = restartWait
         /\ restartWait' = Doubled(restartWait, RestartMost)

-----------------------------------------------------------------------------
(* The link's callbacks.                                                   *)

\* try_spawn from the restart timer: no usable credential, or a process that
\* cannot be started, is a fault, and tried again all the same.
OnRestart ==
  /\ Turn("restart")
  /\ ~ givenUp
  /\ \/ /\ ReportDown(TRUE)
        /\ alerts' = ToldDown(TRUE)
        /\ ScheduleRestart
        /\ UNCHANGED <<bridgeVars, givenUp>>
     \/ /\ Spawned
        /\ restartTimer' = Drained(restartTimer, None)
        /\ UNCHANGED <<coreSide, restartWait, reports>>
  /\ UNCHANGED <<awaiting, ackTimer>>

\* handle_line, "online": the only evidence that whatever was wrong is over.
HeardOnline ==
  /\ Head(up).type = "online"
  /\ online' = TRUE
  /\ fault' = FALSE
  /\ downReported' = FALSE
  /\ faultReported' = FALSE
  /\ restartWait' = RestartFirst
  /\ restartTimer' = None
  /\ Deliver(alerts, awaiting, ackTimer)
  /\ UNCHANGED givenUp

HeardOffline ==
  /\ Head(up).type = "offline"
  /\ ReportDown(FALSE)
  /\ alerts' = ToldDown(FALSE)
  /\ UNCHANGED <<awaiting, ackTimer, down>>
  /\ UNCHANGED <<restart, givenUp>>

HeardFatal ==
  /\ Head(up).type = "fatal"
  /\ givenUp' = TRUE
  /\ restartTimer' = None
  /\ ReportDown(TRUE)
  /\ alerts' = ToldDown(TRUE)
  /\ UNCHANGED <<awaiting, ackTimer, down>>
  /\ UNCHANGED restartWait

\* An acknowledgement, whichever alert it is for.
HeardAck ==
  /\ Head(up).type = "event-ack"
  /\ LET ack     == Head(up)
         outcome == IF ack.ok THEN "delivered" ELSE "rejected"
     IN  /\ UNCHANGED <<online, fault>>
         /\ Deliver(AlertAnswered(alerts, ack.alert.id, ack.alert.kind, outcome), None, None)
  /\ UNCHANGED <<restart, reports>>

\* on_readable: one line.  What was read along with it is handled next, before
\* any other callback of the batch, or later, if it was not.
OnLine ==
  /\ "line" \in batch
  /\ up # <<>>
  /\ up' = Tail(up)
  /\ batch' \in {batch \ {"line"}, IF up' = <<>> THEN batch \ {"line"} ELSE batch}
  /\ HeardOnline \/ HeardOffline \/ HeardFatal \/ HeardAck
  /\ UNCHANGED <<process, socket, stopping, wire, stored, unwanted>>

\* on_bridge_lost: the end of the process's output.  It is reaped and cleared
\* away, the core told, the alert waited for failed, and a restart arranged.
OnBridgeLost ==
  /\ Turn("line")
  /\ up = <<>>
  /\ process = "exited"
  /\ process' = "none"
  /\ down' = <<>>
  /\ ReportDown(FALSE)
  /\ alerts' = IF awaiting = None THEN ToldDown(FALSE)
               ELSE PumpAlerts(AlertAnswered(ToldDown(FALSE), awaiting.id, awaiting.kind,
                                             "failed"), online', FALSE)
  /\ awaiting' = None
  /\ ScheduleRestart
  /\ UNCHANGED <<ackTimer, givenUp, socket, stopping, up, wire, stored, unwanted>>

\* on_ack_timeout: silence is a transient failure.
OnAckTimeout ==
  /\ Turn("ack")
  /\ UNCHANGED <<online, fault>>
  /\ IF awaiting = None
       THEN /\ ackTimer' = Drained(ackTimer, None)
            /\ UNCHANGED <<alerts, awaiting, down>>
       ELSE Deliver(AlertAnswered(alerts, awaiting.id, awaiting.kind, "failed"),
                    None, Drained(ackTimer, None))
  /\ UNCHANGED <<process, socket, stopping, up, wire, stored, unwanted, restart, reports>>

-----------------------------------------------------------------------------
(* What else reaches the core, the clock and the loop.                     *)

Queued == {Named(alerts.entries[i]) : i \in Positions(alerts.entries)}

Mentioned ==
  Queued \cup {awaiting} \cup OnWire
    \cup {down[i] : i \in 1 .. Len(down)}
    \cup {up[i].alert : i \in {j \in 1 .. Len(up) : up[j].type = "event-ack"}}

\* A new alert; nothing on the server is about it.
NewAlert ==
  /\ Turn("other")
  /\ UNCHANGED <<online, fault>>
  /\ \E alert \in Sent \ Mentioned, faces \in Faces :
       /\ Deliver(PushAlert(alerts, [id |-> alert.id, kind |-> alert.kind,
                                     faces |-> faces, age |-> 0]),
                  awaiting, ackTimer)
       /\ stored' = stored \ {alert}
       /\ unwanted' = unwanted \ {alert}
  /\ UNCHANGED <<process, socket, stopping, up, wire, restart, reports>>

\* Any other event: the queue is pumped.
Elsewhere ==
  /\ Turn("other")
  /\ UNCHANGED <<online, fault>>
  /\ Deliver(alerts, awaiting, ackTimer)
  /\ UNCHANGED <<process, socket, stopping, up, wire, stored, unwanted, restart, reports>>

Readable ==
  (IF up # <<>> \/ process = "exited" THEN {"line"} ELSE {})
    \cup (IF ackTimer = 0 THEN {"ack"} ELSE {})
    \cup (IF restartTimer = 0 THEN {"restart"} ELSE {})

\* The core's own timer is among what else there is.
Wake ==
  /\ \E news \in SUBSET {"other"} : Collect(Readable \cup news)
  /\ UNCHANGED <<bridgeVars, coreSide, awaiting, ackTimer, restart, reports>>

Wait ==
  /\ alerts' = AlertsOlder(alerts)
  /\ ackTimer' = Closer(ackTimer)
  /\ restartTimer' = Closer(restartTimer)
  /\ UNCHANGED <<bridgeVars, batch, online, fault, awaiting, restartWait, reports>>

BridgeMoves ==
  /\ BridgeNext
  /\ UNCHANGED <<batch, coreSide, awaiting, ackTimer, restart, reports>>

Next ==
  \/ OnRestart
  \/ OnLine
  \/ OnBridgeLost
  \/ OnAckTimeout
  \/ NewAlert
  \/ Elsewhere
  \/ Wake
  \/ Wait
  \/ BridgeMoves

Spec == Init /\ [][Next]_vars

-----------------------------------------------------------------------------
(* Properties.                                                             *)

\* The core's idea of the link is the bridge's, late by no more than the lines
\* still to be read; with no process there is no link.
LinkSeen ==
  /\ process = "running" /\ up = <<>> => (online <=> socket = "ready")
  /\ process = "none" => ~ online

\* There is one bridge process or one restart under way, never both and never
\* neither, until the link has been given up; then nothing starts it again, and
\* that nobody will bring it back shows on the light.
BridgeTended ==
  IF givenUp
    THEN restartTimer = None /\ "restart" \notin batch /\ fault /\ ~ online
    ELSE "restart" \in batch \/ (process = "none" <=> restartTimer # None)

\* An alert leaves the queue because the server has it or does not want it,
\* because it is too old, or because a newer one needed the room - never on an
\* answer that was meant for another.
LeavesForAReason ==
  [][ \A i \in Positions(alerts.entries) :
        LET alert == alerts.entries[i]
        IN  Named(alert) \notin Queued' =>
              \/ Named(alert) \in stored \cup unwanted
              \/ alert.age = AlertMaxAge
              \/ Len(alerts.entries) >= AlertCapacity /\ Queued' \ Queued # {} ]_vars

-----------------------------------------------------------------------------
(* What the comments say and the code does not do.                         *)

\* bridge_server_link.h: "an alert with no reply inside ack_timeout becomes
\* AlertOutcome::Failed and the core retries it" - so somebody is always still
\* waiting for the alert in flight.
AnswerAwaited == alerts.inFlight => awaiting = Named(Head(alerts.entries))
=============================================================================
