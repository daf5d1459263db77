-------------------------------- MODULE Core --------------------------------
(***************************************************************************)
(* The doorbell's rules (class Core, core/core.cpp): one action per event  *)
(* that Core::handle takes.  Each action is one whole call of handle: the  *)
(* timers lapse, the handler runs, and then the held alert's deadline is   *)
(* checked, the two queues are pumped and the light is brought up to date  *)
(* (Settle).  The actions returned to the daemon are in `out`, in order.   *)
(*                                                                         *)
(* The module says nothing about which events can occur when; module       *)
(* Doorbell adds the backends that produce them.                           *)
(***************************************************************************)
EXTENDS AlertQueue, Spool

CONSTANTS Peer,             \* viewers
          NoFaces,          \* the detector said nothing about who
          PersonDetection,  \* Policy::person_detection
          MotionCooldown,   \* Policy::motion_cooldown
          NoPersonCooldown, \* Policy::no_person_cooldown
          PressWindow,      \* Policy::press_dedup_window
          RingLed,          \* Policy::ring_led
          VerdictWait,      \* detect_window + face_search + detect_grace
          RingFaceWait      \* Policy::ring_face_wait, 0 with faces off

\* An alert held back for the camera: when the core stops waiting, and how old
\* the instant it will be stamped with is.
Held == [due : Nat, age : 0 .. AlertMaxAge]

\* Core::ActiveEvent.  `held` is None where awaiting_verdict is false.
ActiveEvent == [id       : EventId,
                kind     : Kind,
                cutShort : BOOLEAN,
                held     : Held \cup {None},
                faces    : Faces,
                unwanted : BOOLEAN]

ASSUME CoreAssumption ==
  /\ PersonDetection \in BOOLEAN
  /\ MotionCooldown \in Nat
  /\ NoPersonCooldown \in Nat \ {0}
  /\ PressWindow \in Nat
  /\ RingLed \in Nat
  /\ VerdictWait \in Nat \ {0}
  /\ RingFaceWait \in Nat
  /\ NoFaces \in Faces

\* None is no value of the optionals it stands for the absence of.
ASSUME OptionalAssumption ==
  /\ None \notin Peer
  /\ None \notin Held
  /\ None \notin ActiveEvent

VARIABLES viewers,       \* viewers_
          recording,     \* recording_
          event,         \* recording_event_
          deferred,      \* deferred_call_
          cooldown,      \* motion_cooldown_until_
          pressWindow,   \* press_window_until_
          ringLed,       \* ring_led_until_
          online,        \* server_online_
          fault,         \* server_fault_
          alerts,        \* alerts_
          spool,         \* uploads_ and what goes with them
          led,           \* led_
          shuttingDown,  \* shutting_down_
          out            \* what the last call of handle returned

timers == <<cooldown, pressWindow, ringLed>>
camera == <<viewers, recording, deferred>>
link   == <<online, fault>>

coreVars == <<viewers, recording, event, deferred, cooldown, pressWindow,
              ringLed, online, fault, alerts, spool, led, shuttingDown, out>>

RecordingState == {"Idle", "Active", "Stopping"}
LedPattern == {"Ring", "Live", "Recording", "Fault", "Offline", "Idle", "Off"}

CoreInit ==
  /\ viewers = {}
  /\ recording = "Idle"
  /\ event = None
  /\ deferred = None
  /\ cooldown = None
  /\ pressWindow = None
  /\ ringLed = None
  /\ online = FALSE
  /\ fault = FALSE
  /\ alerts = EmptyQueue
  /\ spool = EmptySpool
  /\ led = "Off"
  /\ shuttingDown = FALSE
  /\ out = <<>>

CoreTypeOK ==
  /\ viewers \subseteq Peer
  /\ recording \in RecordingState
  /\ event \in ActiveEvent \cup {None}
  /\ deferred \in Peer \cup {None}
  /\ cooldown \in Timer
  /\ pressWindow \in Timer
  /\ ringLed \in Timer
  /\ online \in BOOLEAN
  /\ fault \in BOOLEAN
  /\ alerts \in AlertQueueType
  /\ spool \in SpoolType
  /\ led \in LedPattern
  /\ shuttingDown \in BOOLEAN

-----------------------------------------------------------------------------
(* What handle does after every event.                                     *)

Holding(e) == e # None /\ e.held # None

HeldAlert(e, faces) ==
  [id |-> e.id, kind |-> e.kind, faces |-> faces, age |-> e.held.age]

\* The held alert has been dealt with: awaiting_verdict is cleared.
Released(e) == [e EXCEPT !.held = None]

DesiredLed ==
  IF shuttingDown THEN "Off"
  ELSE IF ringLed # None THEN "Ring"
  ELSE IF viewers # {} THEN "Live"
  ELSE IF recording # "Idle" THEN "Recording"
  ELSE IF fault THEN "Fault"
  ELSE IF ~ online THEN "Offline"
  ELSE "Idle"

\* check_verdict_deadline, pump_alerts, pump_uploads and update_led, on the
\* event, queue and spool the handler leaves, after the actions it returned.
Settle(e, q, s, acts) ==
  LET overdue == Holding(e) /\ Reached(e.held.due)
      queued  == IF overdue THEN PushAlert(q, HeldAlert(e, NoFaces)) ELSE q
      upload  == ~ shuttingDown' /\ UploadReady(s, online', viewers' # {})
  IN  /\ event'  = IF overdue THEN Released(e) ELSE e
      /\ alerts' = PumpAlerts(queued, online', shuttingDown')
      /\ spool'  = IF upload THEN [s EXCEPT !.inFlight = TRUE] ELSE s
      /\ led'    = DesiredLed'
      /\ out'    = acts \o AlertSent(queued, online', shuttingDown')
                     \o (IF upload THEN <<<<"UploadClip", Head(s.clips)>>>> ELSE <<>>)
                     \o (IF led' # led THEN <<<<"SetLed", led'>>>> ELSE <<>>)

\* Every timer as lapse leaves it.
Lapse ==
  /\ cooldown' = Lapsed(cooldown)
  /\ pressWindow' = Lapsed(pressWindow)
  /\ ringLed' = Lapsed(ringLed)

\* An event that changes nothing of its own.
Ignored ==
  /\ Lapse
  /\ UNCHANGED <<camera, link, shuttingDown>>
  /\ Settle(event, alerts, spool, <<>>)

-----------------------------------------------------------------------------
(* Starting something: trigger, watch_for_person and ring_with_a_name.     *)

NewEvent(id, kind, held) ==
  [id |-> id, kind |-> kind, cutShort |-> FALSE, held |-> held,
   faces |-> NoFaces, unwanted |-> FALSE]

NewAlert(id, kind) == [id |-> id, kind |-> kind, faces |-> NoFaces, age |-> 0]

\* A recording whose alert waits for the camera: for a motion until it says
\* whether somebody is there, for a ring until it says who.
StartHolding(id, kind, wait, acts) ==
  /\ recording' = "Active"
  /\ Settle(NewEvent(id, kind, [due |-> wait, age |-> 0]), alerts, spool,
            Append(acts, <<"StartRecording", id, TRUE>>))

\* trigger: the alert goes out at once, then the recording starts if the
\* camera is free.
Trigger(id, kind, withClip, acts) ==
  LET queued == PushAlert(alerts, NewAlert(id, kind))
      pumped == PumpAlerts(queued, online, shuttingDown)
      sent   == acts \o AlertSent(queued, online, shuttingDown)
  IN  IF kind = "ring" /\ withClip /\ RingFaceWait > 0
        THEN StartHolding(id, kind, RingFaceWait, acts)
      ELSE IF withClip
        THEN /\ recording' = "Active"
             /\ Settle(NewEvent(id, kind, None), pumped, spool,
                       Append(sent, <<"StartRecording", id, FALSE>>))
      ELSE /\ UNCHANGED recording
           /\ Settle(event, pumped, spool, sent)

-----------------------------------------------------------------------------
(* The events.  Motion and a press bring the id they would use.            *)

\* on_motion: nothing while cooling down; a recording already running covers
\* the motion; with nobody watching the camera is the judge.
MotionDetected(id) ==
  IF shuttingDown \/ Lapsed(cooldown) # None
    THEN Ignored
    ELSE /\ cooldown' = MotionCooldown
         /\ pressWindow' = Lapsed(pressWindow)
         /\ ringLed' = Lapsed(ringLed)
         /\ UNCHANGED <<viewers, deferred, link, shuttingDown>>
         /\ \/ /\ recording # "Idle"
               /\ UNCHANGED recording
               /\ Settle(event, alerts, spool, <<>>)
            \/ /\ recording = "Idle"
               /\ IF PersonDetection /\ viewers = {}
                    THEN StartHolding(id, "motion", VerdictWait, <<>>)
                    ELSE Trigger(id, "motion", viewers = {}, <<>>)

Chime == <<<<"PlayChime">>>>

\* Fault: the ring goes out at once and the alert is held all the same.
TakeOverHolding ==
  LET ring == [event EXCEPT !.kind = "ring", !.unwanted = FALSE]
      now  == [id |-> event.id, kind |-> "ring", faces |-> event.faces, age |-> 0]
      queued == PushAlert(alerts, now)
  IN  Settle(ring, PumpAlerts(queued, online, shuttingDown), spool,
             Chime \o AlertSent(queued, online, shuttingDown))

\* A press while a motion is being recorded, or while the recording the camera
\* rejected is still flushing: the same event becomes a ring.
TakeOver ==
  LET ring   == [event EXCEPT !.kind = "ring", !.unwanted = FALSE]
      held   == [due |-> Lesser(event.held.due, RingFaceWait), age |-> 0]
      now    == [id |-> event.id, kind |-> "ring", faces |-> event.faces, age |-> 0]
      queued == PushAlert(alerts, now)
  IN  IF Holding(event) /\ RingFaceWait > 0
        THEN Settle([ring EXCEPT !.held = held], alerts, spool, Chime)
        ELSE Settle(Released(ring),
                    PumpAlerts(queued, online, shuttingDown), spool,
                    Chime \o AlertSent(queued, online, shuttingDown))

\* A recording a press belongs to: one still running, or one the camera
\* rejected and the press rescues.
Recorded == event # None /\ (recording = "Active" \/ event.unwanted)

\* Fault: any recording under way is taken to answer the press.
AnyUnderWay == Recorded

\* A ring already has the recording this press would take over.
RingUnderWay == Recorded /\ event.kind = "ring"

\* on_button: every press rings, one alert per window.
ButtonPressed(id) ==
  IF shuttingDown
    THEN Ignored
    ELSE LET repeat == Lapsed(pressWindow) # None
         IN  /\ cooldown' = Lapsed(cooldown)
             /\ ringLed' = RingLed
             /\ pressWindow' = IF repeat THEN pressWindow ELSE PressWindow
             /\ UNCHANGED <<viewers, deferred, link, shuttingDown>>
             /\ \/ /\ repeat \/ RingUnderWay
                   /\ UNCHANGED recording
                   /\ Settle(event, alerts, spool, Chime)
                \/ /\ ~ repeat
                   /\ Recorded /\ event.kind = "motion"
                   /\ UNCHANGED recording
                   /\ TakeOver
                \/ /\ ~ repeat
                   /\ ~ Recorded
                   /\ Trigger(id, "ring", viewers = {} /\ recording = "Idle", Chime)

StopRecording == <<<<"StopRecording">>>>

CutShort(e) == IF e = None THEN None ELSE [e EXCEPT !.cutShort = TRUE]

\* on_viewer: the call waits for the recorder to have let go of the camera.
ViewerRequested(peer) ==
  IF shuttingDown
    THEN Ignored
    ELSE /\ Lapse
         /\ UNCHANGED <<link, shuttingDown>>
         /\ \/ /\ recording = "Active"
               /\ recording' = "Stopping"
               /\ deferred' = peer
               /\ UNCHANGED viewers
               /\ Settle(CutShort(event), alerts, spool, StopRecording)
            \/ /\ recording = "Stopping"
               /\ deferred' = peer
               /\ UNCHANGED <<viewers, recording>>
               /\ Settle(event, alerts, spool, <<>>)
            \/ /\ recording = "Idle"
               /\ viewers' = viewers \cup {peer}
               /\ UNCHANGED <<recording, deferred>>
               /\ Settle(event, alerts, spool, <<<<"StartCall", peer>>>>)

\* Fault: one viewer hanging up is taken to free the camera.
LastCallEnded(peer) ==
  /\ Lapse
  /\ viewers' = {}
  /\ deferred' = IF deferred = peer THEN None ELSE deferred
  /\ UNCHANGED <<recording, link, shuttingDown>>
  /\ Settle(event, alerts, spool, <<>>)

\* on_call_ended
CallEnded(peer) ==
  /\ Lapse
  /\ viewers' = viewers \ {peer}
  /\ deferred' = IF deferred = peer THEN None ELSE deferred
  /\ UNCHANGED <<recording, link, shuttingDown>>
  /\ Settle(event, alerts, spool, <<>>)

\* Fault: the end of a recording forgets the alert it was holding.
HeldForgotten(q) == q

\* The end of a recording is the end of its hold: nothing was judged.
FlushHeld(q) == IF Holding(event) THEN PushAlert(q, HeldAlert(event, NoFaces)) ELSE q

\* Fault: the viewer who waited is let in and goes on waiting.
GrantForEver ==
  /\ recording' = "Idle"
  /\ viewers' = IF deferred = None THEN viewers ELSE viewers \cup {deferred}
  /\ UNCHANGED deferred

\* The recorder has let go of the camera: a viewer who was waiting gets it.
GrantCamera ==
  /\ recording' = "Idle"
  /\ viewers' = IF deferred = None THEN viewers ELSE viewers \cup {deferred}
  /\ deferred' = None

\* on_recording_finished: a held alert goes out unjudged, the clip is kept or
\* discarded, and a viewer who was waiting gets the camera.  A finished file
\* is described by: exists, ok, bytes, and long (duration >= min_clip).
RecordingFinished(id, file) ==
  LET queued == FlushHeld(alerts)
      pumped == IF Holding(event)
                  THEN PumpAlerts(queued, online, shuttingDown) ELSE queued
      sent   == IF Holding(event)
                  THEN AlertSent(queued, online, shuttingDown) ELSE <<>>
      keep   == /\ file.ok /\ file.bytes > 0 /\ file.long
                /\ event # None
                /\ event.id = id
                /\ ~ event.unwanted
      clip   == [id |-> id, kind |-> event.kind, bytes |-> file.bytes,
                 partial |-> event.cutShort]
      gone   == IF keep THEN ClipsDropped(spool, clip) ELSE <<>>
      drops  == IF keep
                  THEN [i \in 1 .. Len(gone) |-> <<"DiscardClip", gone[i].id>>]
                  ELSE IF file.exists THEN <<<<"DiscardClip", id>>>> ELSE <<>>
      call   == IF deferred = None THEN <<>> ELSE <<<<"StartCall", deferred>>>>
  IN  /\ Lapse
      /\ GrantCamera
      /\ UNCHANGED <<link, shuttingDown>>
      /\ Settle(None, pumped, IF keep THEN AddClip(spool, clip) ELSE spool,
                sent \o drops \o call)

\* on_detection: a verdict on a recording that is not the current one says
\* nothing; who was seen is kept for a later press; nobody there silences a
\* held motion, never a ring.
DetectionResult(id, verdict, faces) ==
  LET seen    == [event EXCEPT !.faces = IF verdict = "noPerson" THEN @ ELSE faces]
      stop    == recording = "Active"
      judged  == Holding(event)
      nobody  == judged /\ event.kind = "motion" /\ verdict = "noPerson"
      queued  == PushAlert(alerts, HeldAlert(event, faces))
      refused == [seen EXCEPT !.held = None, !.unwanted = TRUE,
                              !.cutShort = @ \/ stop]
  IN  IF event = None \/ event.id # id
        THEN Ignored
        ELSE /\ pressWindow' = Lapsed(pressWindow)
             /\ ringLed' = Lapsed(ringLed)
             /\ UNCHANGED <<viewers, deferred, link, shuttingDown>>
             /\ \/ /\ ~ judged
                   /\ cooldown' = Lapsed(cooldown)
                   /\ UNCHANGED recording
                   /\ Settle(seen, alerts, spool, <<>>)
                \/ /\ judged /\ ~ nobody
                   /\ cooldown' = Lapsed(cooldown)
                   /\ UNCHANGED recording
                   /\ Settle(Released(seen),
                             PumpAlerts(queued, online, shuttingDown), spool,
                             AlertSent(queued, online, shuttingDown))
                \/ /\ nobody
                   /\ cooldown' = NoPersonCooldown
                   /\ recording' = IF stop THEN "Stopping" ELSE recording
                   /\ Settle(refused, alerts, spool,
                             IF stop THEN StopRecording ELSE <<>>)

\* on_upload_finished
UploadFinished(id, ok) ==
  /\ Lapse
  /\ UNCHANGED <<camera, link, shuttingDown>>
  /\ Settle(event, alerts, UploadAnswered(spool, id, ok), <<>>)

\* The server link's answer to a SendAlert: AlertQueue::on_result.
AlertResult(id, kind, outcome) ==
  /\ Lapse
  /\ UNCHANGED <<camera, link, shuttingDown>>
  /\ Settle(event, AlertAnswered(alerts, id, kind, outcome), spool, <<>>)

ServerOnline ==
  /\ Lapse
  /\ online' = TRUE
  /\ fault' = FALSE
  /\ UNCHANGED <<camera, shuttingDown>>
  /\ Settle(event, alerts, spool, <<>>)

\* on_server_offline: nothing in flight has landed; a fault is latched.
ServerOffline(permanent) ==
  /\ Lapse
  /\ online' = FALSE
  /\ fault' = (fault \/ permanent)
  /\ UNCHANGED <<camera, shuttingDown>>
  /\ Settle(event, AlertLinkLost(alerts), UploadLinkLost(spool), <<>>)

Tick == Ignored

\* Fault: a viewer who waits for the camera outlives the shutdown.
HangUpOnly ==
  /\ viewers' = {}
  /\ UNCHANGED deferred

\* A shutdown ends the calls, those under way and the one still waiting.
DropViewers ==
  /\ viewers' = {}
  /\ deferred' = None

\* on_shutdown
Shutdown ==
  LET stop == recording = "Active"
  IN  /\ Lapse
      /\ shuttingDown' = TRUE
      /\ recording' = IF stop THEN "Stopping" ELSE recording
      /\ DropViewers
      /\ UNCHANGED link
      /\ Settle(IF stop THEN CutShort(event) ELSE event, alerts, spool,
                (IF stop THEN StopRecording ELSE <<>>)
                  \o (IF viewers # {} THEN <<<<"StopCall">>>> ELSE <<>>)
                  \o (IF led = "Off" THEN <<<<"SetLed", "Off">>>> ELSE <<>>))

-----------------------------------------------------------------------------
\* Fault: the timer is not armed for the verdict the core waits for.
DeadlinesNoVerdict ==
  IF shuttingDown THEN {}
  ELSE ({cooldown, pressWindow, ringLed, spool.retryAfter} \ {None})
         \cup AlertDeadlines(alerts)

\* Fault: the timer is not armed for the next try of an upload.
DeadlinesNoRetry ==
  IF shuttingDown THEN {}
  ELSE ({cooldown, pressWindow, ringLed} \ {None})
         \cup AlertDeadlines(alerts)
         \cup (IF Holding(event) THEN {event.held.due} ELSE {})

\* next_deadline, as the set it takes the minimum of: empty for no timer.
Deadlines ==
  IF shuttingDown THEN {}
  ELSE ({cooldown, pressWindow, ringLed, spool.retryAfter} \ {None})
         \cup AlertDeadlines(alerts)
         \cup (IF Holding(event) THEN {event.held.due} ELSE {})

\* The timer the daemon armed at the earliest deadline has fired.
TickDue == \E t \in Deadlines : Reached(t)

\* One tick of time passes for everything the core remembers.
EventOlder(e) ==
  IF Holding(e)
    THEN [e EXCEPT !.held = [due |-> Closer(@.due), age |-> Older(@.age)]]
    ELSE e

TimePasses ==
  /\ cooldown' = Closer(cooldown)
  /\ pressWindow' = Closer(pressWindow)
  /\ ringLed' = Closer(ringLed)
  /\ event' = EventOlder(event)
  /\ alerts' = AlertsOlder(alerts)
  /\ spool' = SpoolOlder(spool)
  /\ out' = <<>>
  /\ UNCHANGED <<camera, link, led, shuttingDown>>
=============================================================================
