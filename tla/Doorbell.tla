------------------------------ MODULE Doorbell ------------------------------
(***************************************************************************)
(* The daemon: the core together with what its backends promise it.        *)
(*                                                                         *)
(* Daemon::drain hands the core one event at a time and carries out every  *)
(* action it returns before the next event, so one step here is one call   *)
(* of Core::handle and everything `out` asked of the backends.  A backend  *)
(* is reduced to what the core relies on (the comments of io/*.h):         *)
(*   - the recorder ends every recording it was asked for once, and its    *)
(*     detector speaks at most once, before that;                          *)
(*   - the media process ends every viewer's call once;                    *)
(*   - the server link answers every alert once;                           *)
(*   - the uploader runs one upload to its end and refuses another.        *)
(***************************************************************************)
EXTENDS Core, FiniteSets

CONSTANTS Files,      \* what a recording can leave behind
          Verdicts    \* what the detector can say

\* RecordingFinished without the id: see the action of that name.
File == [exists : BOOLEAN, ok : BOOLEAN, long : BOOLEAN, bytes : Nat]

ASSUME DoorbellAssumption ==
  /\ Files \subseteq File
  /\ Verdicts \subseteq {"person", "noPerson", "unknown"}

VARIABLES recorder,    \* the recording being made and whether a verdict may come
          calls,       \* viewers the media process has been given
          uploading,   \* the clip the upload process is sending
          refused,     \* an upload refused because another is still going
          unanswered,  \* the alert the server link owes an answer for
          running      \* the reactor loop has not been stopped

backends == <<recorder, calls, uploading, refused, unanswered>>
vars == <<coreVars, backends, running>>

Recording == [id : EventId, looking : BOOLEAN]
Sent == [id : EventId, kind : Kind]

\* None is no value of these either.
ASSUME AbsenceAssumption ==
  /\ None \notin EventId
  /\ None \notin Recording

Init ==
  /\ CoreInit
  /\ recorder = None
  /\ calls = {}
  /\ uploading = None
  /\ refused = None
  /\ unanswered = None
  /\ running = TRUE

TypeOK ==
  /\ CoreTypeOK
  /\ recorder \in Recording \cup {None}
  /\ calls \subseteq Peer
  /\ uploading \in EventId \cup {None}
  /\ refused \in EventId \cup {None}
  /\ unanswered \in Sent \cup {None}
  /\ running \in BOOLEAN

\* The actions of one kind that the last call of handle returned.
Asked(what) == {out[i] : i \in {j \in 1 .. Len(out) : out[j][1] = what}}

-----------------------------------------------------------------------------
(* Daemon::execute: what the backends make of the actions just returned,   *)
(* given what each was doing once its own event had been delivered.        *)

\* Fault: whether the recorder is done is asked only when the signal arrives.
StopsAtSignal == shuttingDown' /\ ~ shuttingDown /\ recorder' = None

\* Daemon::drain, once nothing is pending: a shutdown waits for the recorder.
LoopStops == shuttingDown' /\ recorder' = None

React(recorder0, calls0, uploading0, unanswered0) ==
  /\ recorder' = IF \E a \in Asked("StartRecording")' : TRUE
                   THEN LET a == CHOOSE a \in Asked("StartRecording")' : TRUE
                        IN  [id |-> a[2], looking |-> a[3]]
                   ELSE recorder0
  /\ calls' = calls0 \cup {a[2] : a \in Asked("StartCall")'}
  /\ unanswered' = IF \E a \in Asked("SendAlert")' : TRUE
                     THEN LET a == CHOOSE a \in Asked("SendAlert")' : TRUE
                          IN  [id |-> a[2].id, kind |-> a[2].kind]
                     ELSE unanswered0
  /\ LET asked == {a[2].id : a \in Asked("UploadClip")'}
     IN  /\ uploading' = IF asked = {} \/ uploading0 # None
                           THEN uploading0 ELSE CHOOSE id \in asked : TRUE
         /\ refused' = IF asked = {} \/ uploading0 = None
                         THEN None ELSE CHOOSE id \in asked : TRUE
  /\ running' = ~ LoopStops

\* An event none of the backends is the cause of.
Undisturbed == React(recorder, calls, uploading, unanswered)

\* The reactor turns to the outside only once everything pending is drained.
Listening == running /\ refused = None

\* Ids are random and never come twice; finitely many are enough as long as
\* an id is only used again when nothing refers to it any more.
InUse ==
  QueuedIds(alerts) \cup SpooledIds(spool)
    \cup (IF event = None THEN {} ELSE {event.id})
    \cup (IF recorder = None THEN {} ELSE {recorder.id})
    \cup (IF unanswered = None THEN {} ELSE {unanswered.id})
    \cup {uploading, refused}

Motion == /\ Listening
          /\ \E id \in EventId \ InUse : MotionDetected(id)
          /\ Undisturbed

Press == /\ Listening
         /\ \E id \in EventId \ InUse : ButtonPressed(id)
         /\ Undisturbed

Viewer(peer) == Listening /\ ViewerRequested(peer) /\ Undisturbed

HangUp(peer) ==
  /\ Listening
  /\ peer \in calls
  /\ CallEnded(peer)
  /\ React(recorder, calls \ {peer}, uploading, unanswered)

DetectorSpeaks ==
  /\ Listening
  /\ recorder # None /\ recorder.looking
  /\ \E verdict \in Verdicts, faces \in Faces :
        DetectionResult(recorder.id, verdict, faces)
  /\ React([recorder EXCEPT !.looking = FALSE], calls, uploading, unanswered)

RecorderEnds ==
  /\ Listening
  /\ recorder # None
  /\ \E file \in Files : RecordingFinished(recorder.id, file)
  /\ React(None, calls, uploading, unanswered)

UploadEnds ==
  /\ Listening
  /\ uploading # None
  /\ \E ok \in BOOLEAN : UploadFinished(uploading, ok)
  /\ React(recorder, calls, None, unanswered)

\* The refusal is queued behind the action that caused it, ahead of anything
\* the reactor has still to report.
UploadRefused ==
  /\ running
  /\ refused # None
  /\ UploadFinished(refused, FALSE)
  /\ Undisturbed

LinkAnswers ==
  /\ Listening
  /\ unanswered # None
  /\ \E outcome \in AlertOutcome :
        AlertResult(unanswered.id, unanswered.kind, outcome)
  /\ React(recorder, calls, uploading, None)

LinkUp == Listening /\ ServerOnline /\ Undisturbed

LinkDown == /\ Listening
            /\ \E permanent \in BOOLEAN : ServerOffline(permanent)
            /\ Undisturbed

Wake == Listening /\ TickDue /\ Tick /\ Undisturbed

Signal == Listening /\ Shutdown /\ Undisturbed

Wait == /\ Listening
        /\ TimePasses
        /\ UNCHANGED <<backends, running>>

Next ==
  \/ Motion
  \/ Press
  \/ \E peer \in Peer : Viewer(peer) \/ HangUp(peer)
  \/ DetectorSpeaks
  \/ RecorderEnds
  \/ UploadEnds
  \/ UploadRefused
  \/ LinkAnswers
  \/ LinkUp
  \/ LinkDown
  \/ Wake
  \/ Signal
  \/ Wait

Spec == Init /\ [][Next]_vars

\* The daemon's own part: time passes, the timer fires, a refusal that has been
\* queued is handled.  What else must happen is named where it is needed; it is
\* strongly fair because a backend's news stays in the reactor while the daemon
\* is now and then busy with a refusal.
FairSpec == Spec /\ WF_vars(Wait) /\ WF_vars(Wake) /\ WF_vars(UploadRefused)

\* The recorder is killed if it does not end (see Recorder!RecordingEnds).
RecorderLetsGo == SF_vars(RecorderEnds)

\* The link answers: its promise in io/bridge_server_link.h, kept by its timer
\* but for the corner that ServerLink!AnswerAwaited is about.
LinkKeepsWord == SF_vars(LinkAnswers)

\* The upload script gives every request a time limit.
UploadsEnd == SF_vars(UploadEnds)

-----------------------------------------------------------------------------
(* Safety.                                                                 *)

\* One camera, one owner: the recorder and the media process never hold it
\* together, and the core's idea of who does is what the processes do.  It
\* takes a viewer during a recording, its flush, and a trigger to break it.
CameraOwnership ==
  /\ recorder # None => calls = {}
  /\ recording # "Idle" => viewers = {}
  /\ recording = "Idle" <=> recorder = None
  /\ IF recorder = None THEN event = None
                        ELSE event # None /\ event.id = recorder.id
  /\ deferred # None => recording = "Stopping"
  /\ ~ shuttingDown => calls = viewers

\* The alert the core counts as in flight is at the front of its queue and is
\* the one the link owes an answer for: neither overflow nor expiry may take
\* it away, or its answer would match nothing and the queue would stand still.
FrontInFlight ==
  alerts.inFlight =>
    /\ alerts.entries # <<>>
    /\ unanswered = [id |-> Head(alerts.entries).id, kind |-> Head(alerts.entries).kind]

\* The queue keeps to its bound; with room for only one alert, the one in
\* flight stays beside the newest.
QueueBounded == Len(alerts.entries) <= (IF AlertCapacity = 1 THEN 2 ELSE AlertCapacity)

\* An upload the core counts as in flight is really being sent (or has just
\* been refused), and is the clip at the front of the spool.
UploadInFlight ==
  spool.inFlight =>
    /\ spool.clips # <<>>
    /\ Head(spool.clips).id \in {uploading, refused}

-----------------------------------------------------------------------------
(* What a step may never do.                                               *)

\* An alert held for the camera ends as a queued alert or in a deliberate
\* silence - a motion the camera found nobody in - and in nothing else,
\* whichever of the verdict, the deadline, a press, a viewer, the end of the
\* recording and a shutdown comes first.
HeldAlertSettled ==
  [][ /\ Holding(event)
      /\ ~ (event' # None /\ event'.id = event.id /\ Holding(event'))
      => \/ event.held.age = AlertMaxAge
         \/ \E kind \in {event.kind, "ring"} : QueuedAs(alerts', event.id, kind)
         \/ event.kind = "motion" /\ event' # None /\ event'.unwanted ]_vars

\* An event alerts once as what it began as and once more if a press turns it
\* from a motion into a ring: an alert joins the queue when its hold ends, or
\* for an event that holds none, and a hold that has ended never starts again.
AlertedOnce ==
  [][ \A id \in EventId :
        LET before == event # None /\ event.id = id
            after  == event' # None /\ event'.id = id
            holds  == after /\ Holding(event')
        IN  /\ \A kind \in Kind :
                 QueuedAs(alerts', id, kind) /\ ~ QueuedAs(alerts, id, kind) =>
                   /\ ~ holds
                   /\ \/ id \notin InUse
                      \/ before /\ Holding(event)
                      \/ before /\ after /\ event.kind = "motion" /\ event'.kind = "ring"
            /\ before /\ after /\ event.kind = "ring" => event'.kind = "ring"
            /\ before /\ ~ Holding(event) => ~ holds ]_vars

\* A press that opens a new window is answered by a ring: queued, or held for
\* a name - unless the recording under way is a ring already.  (In a queue for
\* two with one in flight, a motion whose hold runs out at that very moment is
\* pushed behind the ring and takes its place.)
PressAlerts ==
  [][ /\ Asked("PlayChime")' # {}
      /\ Lapsed(pressWindow) = None
      /\ ~ (AlertCapacity <= 2 /\ Holding(event) /\ Reached(event.held.due))
      => \/ event # None /\ event.kind = "ring"
         \/ Holding(event') /\ event'.kind = "ring"
         \/ \E i \in Positions(alerts'.entries) :
              alerts'.entries[i].kind = "ring" /\ alerts'.entries[i].age = 0 ]_vars

\* A clip leaves the spool only once it has been sent or its removal has been
\* announced to the uploader, so no file is left behind and none is forgotten.
ClipAccountedFor ==
  [][ \A id \in SpooledIds(spool) \ SpooledIds(spool') :
        \/ uploading = id /\ uploading' # id
        \/ <<"DiscardClip", id>> \in Asked("DiscardClip")' ]_vars

\* After a shutdown the core starts nothing, whatever was waiting.
QuietAfterShutdown ==
  [][ shuttingDown => \A what \in {"StartRecording", "StartCall", "SendAlert", "UploadClip"} :
        Asked(what)' = {} ]_vars

-----------------------------------------------------------------------------
(* Liveness: sensors, viewers, the network and the operator owe nothing.   *)

\* The core does not trust an answer to arrive: every hold ends, by the timer
\* if by nothing else.  (A shutdown needs none: nothing is sent any more.)
HoldEnds == Holding(event) ~> (~ Holding(event) \/ shuttingDown)

\* A viewer waiting for the camera does not wait for ever.
DeferredCallResolved == RecorderLetsGo => ((deferred # None) ~> (deferred = None))

\* No alert sits in the queue for ever, with the server there or not.
AlertLeaves ==
  LinkKeepsWord =>
    \A id \in EventId :
      (id \in QueuedIds(alerts)) ~> (id \notin QueuedIds(alerts) \/ shuttingDown)

\* With the link up for good and nobody watching, a waiting clip goes up.
ClipSent ==
  UploadsEnd /\ <>[](online /\ viewers = {} /\ ~ shuttingDown)
    => ((spool.clips # <<>>) ~> (uploading # None))

\* A shutdown ends: at the latest when the recorder has let go.
ShutdownCompletes == RecorderLetsGo => (shuttingDown ~> ~ running)

-----------------------------------------------------------------------------
(* What the comments of the code say and the code does not do.             *)

\* core.h, next_deadline: "Nothing pending means no timer at all."
NothingPendingNoTimer ==
  /\ alerts.entries = <<>> /\ spool.clips = <<>> /\ event = None
  /\ cooldown = None /\ pressWindow = None /\ ringLed = None
  => Deadlines = {}

\* core.cpp, enforce_spool_cap: never the clip in flight, "there is no way to
\* unsend it, and deleting the file underneath it would cost a failed upload".
SendingClipKept ==
  [][ uploading # None => <<"DiscardClip", uploading>> \notin Asked("DiscardClip")' ]_vars
=============================================================================
