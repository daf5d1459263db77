--------------------------- MODULE Doorbell_proofs ---------------------------
(***************************************************************************)
(* The daemon's invariants, for every configuration, any number of viewers *)
(* and any set of ids: the types, who owns the camera, the alert and the   *)
(* clip in flight, the bound on the queue, and the silence after a         *)
(* shutdown.  And what no step of it does: lose a clip unannounced, lose a *)
(* held alert, alert twice for one event, leave a press unanswered, or     *)
(* command the recorder or the calls out of turn.                          *)
(*                                                                         *)
(* One inductive invariant carries them all.  To what the properties say   *)
(* it adds that a shutdown leaves nobody watching and nobody waiting:      *)
(* without it a recording that ends after the shutdown could let in a      *)
(* viewer.                                                                 *)
(***************************************************************************)
EXTENDS Doorbell, Queues_proofs

-----------------------------------------------------------------------------
(* What one call of Core::handle does: what it leaves is well typed, its   *)
(* two queues keep what they have in flight at the front unless they ask   *)
(* for a send, and what it asks the backends for is what the handler asked *)
(* for and no more.                                                        *)


\* The actions of one kind among those returned.
AskedOf(what, acts) == {acts[i] : i \in {j \in 1 .. Len(acts) : acts[j][1] = what}}

\* Every action the core can return.
Action ==
  {<<"PlayChime">>, <<"StopRecording">>, <<"StopCall">>}
    \cup ({"StartRecording"} \X EventId \X BOOLEAN)
    \cup ({"StartCall"} \X Peer)
    \cup ({"SendAlert"} \X Alert)
    \cup ({"UploadClip"} \X Clip)
    \cup ({"DiscardClip"} \X EventId)
    \cup ({"SetLed"} \X LedPattern)

QueueLimit == IF AlertCapacity = 1 THEN 2 ELSE AlertCapacity

\* A queue as the core keeps it.
QueueOK(q) ==
  /\ q \in AlertQueueType
  /\ q.inFlight => q.entries # <<>>
  /\ Len(q.entries) <= QueueLimit

SpoolOK(s) ==
  /\ s \in SpoolType
  /\ s.inFlight => s.clips # <<>>

\* p has in flight exactly what q had.
SameFlight(q, p) ==
  /\ p.inFlight = q.inFlight
  /\ p.inFlight => p.entries # <<>> /\ p.entries[1] = q.entries[1]

\* Between q and p nothing was sent, or the alert p has in flight was.
Transmits(q, p, acts) ==
  \/ AskedOf("SendAlert", acts) = {} /\ SameFlight(q, p)
  \/ /\ AskedOf("SendAlert", acts) = {<<"SendAlert", p.entries[1]>>}
     /\ p.inFlight /\ p.entries # <<>>

\* The same for the clips between s and t.
Uploads(s, t, acts) ==
  \/ /\ AskedOf("UploadClip", acts) = {}
     /\ t.inFlight => s.inFlight /\ t.clips[1] = s.clips[1]
  \/ /\ AskedOf("UploadClip", acts) = {<<"UploadClip", t.clips[1]>>}
     /\ t.inFlight

-----------------------------------------------------------------------------
(* Lists of actions.                                                       *)

\* An empty list asks for nothing.
LEMMA AskedOfNothing == \A what : AskedOf(what, <<>>) = {}
BY EmptySeq DEF AskedOf

\* A list of one action asks for that action.
LEMMA AskedOfOne ==
  ASSUME NEW what, NEW a
  PROVE  AskedOf(what, <<a>>) = IF a[1] = what THEN {a} ELSE {}
BY DEF AskedOf

\* Two lists together ask for what either asks for.
LEMMA AskedOfConcatIn ==
  ASSUME NEW S, NEW what, NEW a \in Seq(S), NEW b \in Seq(S)
  PROVE  /\ a \o b \in Seq(S)
         /\ AskedOf(what, a \o b) = AskedOf(what, a) \cup AskedOf(what, b)
<1>1. /\ Len(a) \in Nat /\ Len(b) \in Nat
      /\ a \o b \in Seq(S) /\ Len(a \o b) = Len(a) + Len(b)
      /\ \A i \in 1 .. Len(a) : (a \o b)[i] = a[i]
      /\ \A i \in 1 .. Len(a) + Len(b) :
            (a \o b)[i] = IF i <= Len(a) THEN a[i] ELSE b[i - Len(a)]
  BY LenProperties, ConcatProperties
<1>2. ASSUME NEW x \in AskedOf(what, a \o b)
      PROVE  x \in AskedOf(what, a) \cup AskedOf(what, b)
  <2>1. PICK i \in 1 .. Len(a) + Len(b) : x = (a \o b)[i] /\ x[1] = what
    BY <1>1 DEF AskedOf
  <2>2. CASE i <= Len(a)
    <3>1. i \in 1 .. Len(a) /\ x = a[i]
      BY <2>1, <2>2, <1>1
    <3> QED  BY <3>1, <2>1 DEF AskedOf
  <2>3. CASE ~ (i <= Len(a))
    <3>1. i - Len(a) \in 1 .. Len(b) /\ x = b[i - Len(a)]
      BY <2>1, <2>3, <1>1
    <3> QED  BY <3>1, <2>1 DEF AskedOf
  <2> QED  BY <2>2, <2>3
<1>3. ASSUME NEW x \in AskedOf(what, a)
      PROVE  x \in AskedOf(what, a \o b)
  <2>1. PICK i \in 1 .. Len(a) : x = a[i] /\ x[1] = what
    BY DEF AskedOf
  <2>2. i \in 1 .. Len(a \o b) /\ (a \o b)[i] = x
    BY <2>1, <1>1
  <2> QED  BY <2>1, <2>2 DEF AskedOf
<1>4. ASSUME NEW x \in AskedOf(what, b)
      PROVE  x \in AskedOf(what, a \o b)
  <2>1. PICK i \in 1 .. Len(b) : x = b[i] /\ x[1] = what
    BY DEF AskedOf
  <2>2. i + Len(a) \in 1 .. Len(a \o b) /\ (a \o b)[i + Len(a)] = x
    BY <2>1, <1>1
  <2> QED  BY <2>1, <2>2 DEF AskedOf
<1> QED  BY <1>1, <1>2, <1>3, <1>4

\* The same for lists of actions.
LEMMA AskedOfConcat ==
  ASSUME NEW what, NEW a \in Seq(Action), NEW b \in Seq(Action)
  PROVE  /\ a \o b \in Seq(Action)
         /\ AskedOf(what, a \o b) = AskedOf(what, a) \cup AskedOf(what, b)
BY AskedOfConcatIn

\* An action makes a list of one.
LEMMA SingleAction ==
  ASSUME NEW a \in Action
  PROVE  <<a>> \in Seq(Action)
OBVIOUS

\* What is among the actions of a kind.
LEMMA AskedOfType ==
  ASSUME NEW acts \in Seq(Action), NEW what
  PROVE  \A a \in AskedOf(what, acts) : a \in Action /\ a[1] = what
<1>1. Len(acts) \in Nat /\ acts \in [1 .. Len(acts) -> Action]
  BY LenProperties
<1> QED  BY <1>1 DEF AskedOf

\* What an action of each kind carries.
LEMMA ActionFields ==
  ASSUME NEW a \in Action
  PROVE  /\ a[1] = "StartRecording" => a[2] \in EventId /\ a[3] \in BOOLEAN
         /\ a[1] = "StartCall" => a[2] \in Peer
         /\ a[1] = "SendAlert" => a[2] \in Alert
         /\ a[1] = "UploadClip" => a[2] \in Clip
BY DEF Action

\* Which values are actions.
LEMMA ActionForms ==
  /\ <<"PlayChime">> \in Action
  /\ <<"StopRecording">> \in Action
  /\ <<"StopCall">> \in Action
  /\ \A id \in EventId, b \in BOOLEAN : <<"StartRecording", id, b>> \in Action
  /\ \A peer \in Peer : <<"StartCall", peer>> \in Action
  /\ \A alert \in Alert : <<"SendAlert", alert>> \in Action
  /\ \A clip \in Clip : <<"UploadClip", clip>> \in Action
  /\ \A id \in EventId : <<"DiscardClip", id>> \in Action
  /\ \A pattern \in LedPattern : <<"SetLed", pattern>> \in Action
BY DEF Action
-----------------------------------------------------------------------------
(* The queues, pumped.                                                     *)

\* Leaving the flight alone twice leaves it alone.
LEMMA SameFlightTransitive ==
  \A q, r, p : SameFlight(q, r) /\ SameFlight(r, p) => SameFlight(q, p)
BY DEF SameFlight

\* push keeps the queue sound.
LEMMA PushOK ==
  ASSUME NEW q, QueueOK(q), NEW alert \in Alert
  PROVE  QueueOK(PushAlert(q, alert)) /\ SameFlight(q, PushAlert(q, alert))
<1>1. /\ q \in AlertQueueType
      /\ q.inFlight => q.entries # <<>>
      /\ Len(q.entries) <= QueueLimit
  BY DEF QueueOK
<1>2. /\ PushAlert(q, alert) \in AlertQueueType
      /\ PushAlert(q, alert).inFlight = q.inFlight
      /\ PushAlert(q, alert).entries # <<>>
      /\ q.inFlight => PushAlert(q, alert).entries[1] = q.entries[1]
      /\ \A bound \in Nat :
           /\ AlertCapacity <= bound
           /\ AlertCapacity = 1 => 2 <= bound
           /\ Len(q.entries) <= bound
           => Len(PushAlert(q, alert).entries) <= bound
  BY <1>1, PushAlertProperties
<1>3. /\ QueueLimit \in Nat
      /\ AlertCapacity <= QueueLimit
      /\ AlertCapacity = 1 => 2 <= QueueLimit
  BY AlertQueueAssumption DEF QueueLimit
<1> QED  BY <1>1, <1>2, <1>3 DEF QueueOK, SameFlight

\* expire keeps the queue sound.
LEMMA ExpireOK ==
  ASSUME NEW q, QueueOK(q)
  PROVE  QueueOK(ExpireAlerts(q)) /\ SameFlight(q, ExpireAlerts(q))
<1>1. /\ q \in AlertQueueType
      /\ q.inFlight => q.entries # <<>>
      /\ Len(q.entries) <= QueueLimit
  BY DEF QueueOK
<1>2. /\ ExpireAlerts(q) \in AlertQueueType
      /\ ExpireAlerts(q).inFlight = q.inFlight
      /\ q.inFlight => /\ ExpireAlerts(q).entries # <<>>
                       /\ ExpireAlerts(q).entries[1] = q.entries[1]
      /\ Len(ExpireAlerts(q).entries) <= Len(q.entries)
  BY <1>1, ExpireAlertsProperties
<1>3. Len(q.entries) \in Nat /\ Len(ExpireAlerts(q).entries) \in Nat
  BY <1>1, <1>2, QueueFields, LenProperties
<1>4. QueueLimit \in Nat
  BY AlertQueueAssumption DEF QueueLimit
<1> QED  BY <1>1, <1>2, <1>3, <1>4 DEF QueueOK, SameFlight

\* The alert that is sent is the front one, and none is while one is in flight.
LEMMA PumpOK ==
  ASSUME NEW q, QueueOK(q), NEW isOnline \in BOOLEAN, NEW stopping \in BOOLEAN
  PROVE  /\ QueueOK(PumpAlerts(q, isOnline, stopping))
         /\ AlertSent(q, isOnline, stopping) \in Seq(Action)
         /\ Transmits(q, PumpAlerts(q, isOnline, stopping),
                      AlertSent(q, isOnline, stopping))
         /\ \A what : what # "SendAlert" =>
               AskedOf(what, AlertSent(q, isOnline, stopping)) = {}
         /\ stopping \/ q.inFlight =>
               AlertSent(q, isOnline, stopping) = <<>>
<1> DEFINE fresh == ExpireAlerts(q)
           sends == ~ stopping /\ AlertReady(fresh, isOnline)
           after == PumpAlerts(q, isOnline, stopping)
           acts  == AlertSent(q, isOnline, stopping)
<1>1. QueueOK(fresh) /\ SameFlight(q, fresh)
  BY ExpireOK
<1>2. QueueOK(q) /\ SameFlight(q, q)
  BY DEF QueueOK, SameFlight
<1>3. CASE ~ sends
  <2>1. acts = <<>>
    BY <1>3 DEF AlertSent
  <2>2. after = q \/ after = fresh
    BY <1>3 DEF PumpAlerts
  <2>3. <<>> \in Seq(Action)
    OBVIOUS
  <2> HIDE DEF after, acts, fresh, sends
  <2> QED
    BY <2>1, <2>2, <2>3, <1>1, <1>2, AskedOfNothing DEF Transmits, after, acts
<1>4. CASE sends
  <2> DEFINE a == <<"SendAlert", Head(fresh.entries)>>
  <2>1. acts = <<a>> /\ after = MarkSent(fresh)
    BY <1>4 DEF AlertSent, PumpAlerts
  <2>2. ~ fresh.inFlight /\ fresh.entries # <<>>
    BY <1>4 DEF AlertReady
  <2>3. fresh \in AlertQueueType /\ fresh.entries \in Seq(Alert)
    BY <1>1, QueueFields DEF QueueOK
  <2>4. Head(fresh.entries) \in Alert /\ Head(fresh.entries) = fresh.entries[1]
    BY <2>2, <2>3, HeadTailProperties
  <2>5. /\ MarkSent(fresh) \in AlertQueueType
        /\ MarkSent(fresh).entries = fresh.entries
        /\ MarkSent(fresh).inFlight
    BY <2>3, MarkSentProperties
  <2>6. QueueOK(after) /\ after.entries[1] = Head(fresh.entries) /\ after.inFlight
    BY <2>1, <2>2, <2>4, <2>5, <1>1 DEF QueueOK
  <2>7. a \in Action
    BY <2>4, ActionForms
  <2>8. acts \in Seq(Action)
    BY <2>1, <2>7, SingleAction
  <2>9. a[1] = "SendAlert"
    OBVIOUS
  <2>10. ~ stopping /\ ~ q.inFlight
    BY <1>1, <1>4, <2>2 DEF SameFlight
  <2> HIDE DEF after, acts, fresh, sends
  <2>11. \A what : AskedOf(what, acts) = IF what = "SendAlert" THEN {a} ELSE {}
    <3> TAKE what
    <3> HIDE DEF a
    <3> QED  BY <2>1, <2>9, AskedOfOne
  <2>12. Transmits(q, after, acts)
    BY <2>6, <2>11, <2>1 DEF Transmits, QueueOK
  <2> QED  BY <2>6, <2>8, <2>10, <2>11, <2>12 DEF after, acts
<1> QED  BY <1>3, <1>4

\* Once an alert is in flight, what follows in the same call leaves it there.
LEMMA TransmitsThenPush ==
  ASSUME NEW q, NEW p, NEW acts, QueueOK(p), Transmits(q, p, acts),
         NEW alert \in Alert
  PROVE  QueueOK(PushAlert(p, alert)) /\ Transmits(q, PushAlert(p, alert), acts)
<1>1. QueueOK(PushAlert(p, alert)) /\ SameFlight(p, PushAlert(p, alert))
  BY PushOK
<1> QED  BY <1>1 DEF Transmits, SameFlight

\* pump_alerts after a SendAlert in the same call sends no second one.
LEMMA TransmitsThenPump ==
  ASSUME NEW q, NEW p, NEW acts \in Seq(Action), QueueOK(p),
         Transmits(q, p, acts),
         NEW isOnline \in BOOLEAN, NEW stopping \in BOOLEAN
  PROVE  /\ QueueOK(PumpAlerts(p, isOnline, stopping))
         /\ acts \o AlertSent(p, isOnline, stopping) \in Seq(Action)
         /\ Transmits(q, PumpAlerts(p, isOnline, stopping),
                      acts \o AlertSent(p, isOnline, stopping))
         /\ \A what : what # "SendAlert" =>
               AskedOf(what, acts \o AlertSent(p, isOnline, stopping))
                 = AskedOf(what, acts)
         /\ stopping =>
               acts \o AlertSent(p, isOnline, stopping) = acts
<1> DEFINE after == PumpAlerts(p, isOnline, stopping)
           sent  == AlertSent(p, isOnline, stopping)
<1>1. /\ QueueOK(after) /\ sent \in Seq(Action)
      /\ Transmits(p, after, sent)
      /\ \A what : what # "SendAlert" => AskedOf(what, sent) = {}
      /\ stopping \/ p.inFlight => sent = <<>>
  BY PumpOK
<1> HIDE DEF after, sent
<1>2. /\ acts \o sent \in Seq(Action)
      /\ \A what : AskedOf(what, acts \o sent)
                     = AskedOf(what, acts) \cup AskedOf(what, sent)
  BY <1>1, AskedOfConcat
<1>3. sent = <<>> => acts \o sent = acts
  BY ConcatEmptySeq
<1>4. Transmits(q, after, acts \o sent)
  <2>1. CASE p.inFlight
    <3>1. sent = <<>> /\ AskedOf("SendAlert", sent) = {}
      BY <1>1, <2>1, AskedOfNothing
    <3>2. SameFlight(p, after)
      BY <1>1, <3>1 DEF Transmits
    <3> QED  BY <3>1, <3>2, <1>3 DEF Transmits, SameFlight
  <2>2. CASE ~ p.inFlight
    <3>1. AskedOf("SendAlert", acts) = {} /\ SameFlight(q, p)
      BY <2>2 DEF Transmits
    <3>2. AskedOf("SendAlert", acts \o sent) = AskedOf("SendAlert", sent)
      BY <3>1, <1>2
    <3> QED  BY <3>1, <3>2, <1>1 DEF Transmits, SameFlight
  <2> QED  BY <2>1, <2>2
<1> QED  BY <1>1, <1>2, <1>3, <1>4 DEF after, sent
-----------------------------------------------------------------------------
(* Settle: what every call of handle ends with.                            *)

\* A recording's event as the core keeps it.
EventOK(e) == e \in ActiveEvent \cup {None}

SameEvent(e, f) == (f = None <=> e = None) /\ (e # None => f.id = e.id)

\* An event that holds an alert has one to queue and keeps its id when released.
LEMMA HoldingFields ==
  ASSUME NEW e, EventOK(e), Holding(e)
  PROVE  /\ e \in ActiveEvent
         /\ \A faces \in Faces : HeldAlert(e, faces) \in Alert
         /\ Released(e) \in ActiveEvent
         /\ Released(e).id = e.id
         /\ e.held \in Held
<1>1. e \in ActiveEvent /\ e.held \in Held
  BY DEF EventOK, Holding, ActiveEvent
<1>2. ASSUME NEW faces \in Faces PROVE HeldAlert(e, faces) \in Alert
  BY <1>1 DEF HeldAlert, Alert, ActiveEvent, Held
<1>3. Released(e) \in ActiveEvent /\ Released(e).id = e.id
  BY <1>1 DEF Released, ActiveEvent
<1> QED  BY <1>1, <1>2, <1>3

\* What Settle promises, given what the handler leaves: sound queues, an event
\* that keeps its id, at most the one alert and the one upload sent.
LEMMA SettleContract ==
  ASSUME NEW e, EventOK(e), NEW q0, NEW q, QueueOK(q), NEW s, SpoolOK(s),
         NEW acts \in Seq(Action), Transmits(q0, q, acts),
         AskedOf("UploadClip", acts) = {},
         online' \in BOOLEAN, shuttingDown' \in BOOLEAN,
         Settle(e, q, s, acts)
  PROVE  /\ EventOK(event') /\ SameEvent(e, event')
         /\ QueueOK(alerts') /\ SpoolOK(spool') /\ led' \in LedPattern
         /\ out' \in Seq(Action)
         /\ Transmits(q0, alerts', out')
         /\ Uploads(s, spool', out')
         /\ \A what \in {"StartRecording", "StartCall"} :
               AskedOf(what, out') = AskedOf(what, acts)
         /\ shuttingDown' /\ AskedOf("SendAlert", acts) = {} =>
               \A what \in {"SendAlert", "UploadClip"} : AskedOf(what, out') = {}
<1> DEFINE overdue == Holding(e) /\ Reached(e.held.due)
           queued  == IF overdue THEN PushAlert(q, HeldAlert(e, NoFaces)) ELSE q
           sent    == AlertSent(queued, online', shuttingDown')
           upload  == ~ shuttingDown' /\ UploadReady(s, online', viewers' # {})
           ups     == IF upload THEN <<<<"UploadClip", Head(s.clips)>>>> ELSE <<>>
           lights  == IF led' # led THEN <<<<"SetLed", led'>>>> ELSE <<>>
<1>1. EventOK(event') /\ SameEvent(e, event')
  <2>1. event' = IF overdue THEN Released(e) ELSE e
    BY DEF Settle
  <2>2. CASE overdue
    <3>1. e \in ActiveEvent /\ Released(e) \in ActiveEvent /\ Released(e).id = e.id
      BY <2>2, HoldingFields
    <3> QED  BY <2>1, <2>2, <3>1, OptionalAssumption DEF EventOK, SameEvent
  <2>3. CASE ~ overdue
    BY <2>1, <2>3 DEF SameEvent
  <2> QED  BY <2>2, <2>3
<1>2. QueueOK(queued) /\ Transmits(q0, queued, acts)
  <2>1. CASE overdue
    <3>1. HeldAlert(e, NoFaces) \in Alert
      BY <2>1, HoldingFields, CoreAssumption
    <3>2. queued = PushAlert(q, HeldAlert(e, NoFaces))
      BY <2>1
    <3> QED  BY <3>1, <3>2, TransmitsThenPush
  <2>2. CASE ~ overdue
    BY <2>2
  <2> QED  BY <2>1, <2>2
<1>3. led' \in LedPattern
  <2>1. led' = DesiredLed'
    BY DEF Settle
  <2> QED  BY <2>1 DEF DesiredLed, LedPattern
<1>4. /\ alerts' = PumpAlerts(queued, online', shuttingDown')
      /\ spool' = IF upload THEN [s EXCEPT !.inFlight = TRUE] ELSE s
      /\ out' = acts \o sent \o ups \o lights
  BY DEF Settle
<1> HIDE DEF queued
<1>5. /\ QueueOK(alerts')
      /\ acts \o sent \in Seq(Action)
      /\ Transmits(q0, alerts', acts \o sent)
      /\ \A what : what # "SendAlert" => AskedOf(what, acts \o sent) = AskedOf(what, acts)
      /\ shuttingDown' => acts \o sent = acts
  <2> HIDE DEF sent
  <2> QED  BY <1>2, <1>4, TransmitsThenPump DEF sent
<1>6. /\ ups \in Seq(Action)
      /\ \A what : AskedOf(what, ups) =
                     IF upload /\ what = "UploadClip"
                       THEN {<<"UploadClip", Head(s.clips)>>} ELSE {}
      /\ SpoolOK(spool')
      /\ upload => spool'.inFlight /\ spool'.clips[1] = Head(s.clips)
      /\ ~ upload => spool' = s
  <2>1. CASE upload
    <3> DEFINE a == <<"UploadClip", Head(s.clips)>>
    <3>1. s.clips # <<>> /\ s.clips \in Seq(Clip) /\ s \in SpoolType
      BY <2>1, SpoolFields DEF UploadReady, SpoolOK
    <3>2. Head(s.clips) \in Clip /\ Head(s.clips) = s.clips[1]
      BY <3>1, HeadTailProperties
    <3>3. a \in Action /\ a[1] = "UploadClip"
      BY <3>2, ActionForms
    <3>4. ups = <<a>> /\ spool' = [s EXCEPT !.inFlight = TRUE]
      BY <2>1, <1>4
    <3>5. SpoolOK(spool') /\ spool'.inFlight /\ spool'.clips = s.clips
      BY <3>1, <3>4 DEF SpoolOK, SpoolType
    <3> HIDE DEF ups, upload
    <3>6. \A what : AskedOf(what, ups) = IF what = "UploadClip" THEN {a} ELSE {}
      <4> HIDE DEF a
      <4> QED  BY <3>3, <3>4, AskedOfOne
    <3>7. ups \in Seq(Action)
      BY <3>3, <3>4, SingleAction
    <3> QED  BY <2>1, <3>2, <3>5, <3>6, <3>7
  <2>2. CASE ~ upload
    <3>1. ups = <<>> /\ spool' = s
      BY <2>2, <1>4
    <3> HIDE DEF ups, upload
    <3> QED  BY <2>2, <3>1, AskedOfNothing
  <2> QED  BY <2>1, <2>2
<1>7. /\ lights \in Seq(Action)
      /\ \A what : what # "SetLed" => AskedOf(what, lights) = {}
  <2>1. CASE led' # led
    <3> DEFINE a == <<"SetLed", led'>>
    <3>1. a \in Action /\ a[1] = "SetLed" /\ lights = <<a>>
      BY <2>1, <1>3, ActionForms
    <3> HIDE DEF a, lights
    <3> QED  BY <3>1, SingleAction, AskedOfOne
  <2>2. CASE led' = led
    <3>1. lights = <<>>
      BY <2>2
    <3> QED  BY <3>1, AskedOfNothing
  <2> QED  BY <2>1, <2>2
<1> HIDE DEF sent, ups, lights, upload
<1>8. /\ out' \in Seq(Action)
      /\ \A what : AskedOf(what, out') =
           AskedOf(what, acts \o sent) \cup AskedOf(what, ups) \cup AskedOf(what, lights)
  <2> DEFINE x == acts \o sent
             y == x \o ups
  <2>1. x \in Seq(Action)
    BY <1>5
  <2>2. out' = y \o lights
    BY <1>4
  <2>3. y \in Seq(Action) /\ \A what : AskedOf(what, y) = AskedOf(what, x) \cup AskedOf(what, ups)
    <3> HIDE DEF x
    <3> QED  BY <2>1, <1>6, AskedOfConcat
  <2>4. /\ y \o lights \in Seq(Action)
        /\ \A what : AskedOf(what, y \o lights) = AskedOf(what, y) \cup AskedOf(what, lights)
    <3> HIDE DEF y
    <3> QED  BY <2>3, <1>7, AskedOfConcat
  <2> HIDE DEF y
  <2> QED  BY <2>2, <2>3, <2>4
<1>9. AskedOf("SendAlert", out') = AskedOf("SendAlert", acts \o sent)
  BY <1>6, <1>7, <1>8
<1>10. AskedOf("UploadClip", out') =
         IF upload THEN {<<"UploadClip", Head(s.clips)>>} ELSE {}
  BY <1>5, <1>6, <1>7, <1>8
<1>11. \A what \in {"StartRecording", "StartCall"} :
          AskedOf(what, out') = AskedOf(what, acts)
  BY <1>5, <1>6, <1>7, <1>8
<1>12. Transmits(q0, alerts', out')
  BY <1>5, <1>9 DEF Transmits
<1>13. Uploads(s, spool', out')
  BY <1>6, <1>10 DEF Uploads
<1>14. shuttingDown' => ~ upload
  BY DEF upload
<1> QED
  BY <1>1, <1>3, <1>5, <1>6, <1>8, <1>9, <1>10, <1>11, <1>12, <1>13, <1>14
-----------------------------------------------------------------------------
(* What every call of handle amounts to.                                   *)

CoreOK == CoreTypeOK /\ QueueOK(alerts) /\ SpoolOK(spool)

\* The part of a step that Settle answers for, when the event has left the
\* queue q and the spool s.
Settled(q, s) ==
  /\ EventOK(event') /\ QueueOK(alerts') /\ SpoolOK(spool')
  /\ led' \in LedPattern
  /\ out' \in Seq(Action)
  /\ Transmits(q, alerts', out')
  /\ Uploads(s, spool', out')

Nothing(what) == AskedOf(what, out') = {}

\* A step that leaves the camera to whoever has it.
CameraUntouched ==
  /\ UNCHANGED <<camera, shuttingDown>>
  /\ SameEvent(event, event')
  /\ Nothing("StartRecording") /\ Nothing("StartCall")

\* A step that starts a recording on a free camera.
CameraRecords ==
  /\ recording = "Idle" /\ viewers = {} /\ ~ shuttingDown
  /\ recording' = "Active"
  /\ UNCHANGED <<viewers, deferred, shuttingDown>>
  /\ \E id \in EventId, looking \in BOOLEAN :
       /\ event' # None /\ event'.id = id
       /\ AskedOf("StartRecording", out') = {<<"StartRecording", id, looking>>}
  /\ Nothing("StartCall")

\* A step that starts and sends nothing at all.
StartsNothing ==
  \A what \in {"StartRecording", "StartCall", "SendAlert", "UploadClip"} : Nothing(what)

\* A list that asks for nothing to be started or sent.
Harmless(acts) ==
  /\ acts \in Seq(Action)
  /\ \A what \in {"StartRecording", "StartCall", "SendAlert", "UploadClip"} :
       AskedOf(what, acts) = {}

\* The chime and the stop of a recording start nothing.
LEMMA HarmlessLists ==
  /\ Harmless(<<>>) /\ Harmless(Chime) /\ Harmless(StopRecording)
  /\ Harmless(<<<<"StopCall">>>>)
  /\ \A pattern \in LedPattern : Harmless(<<<<"SetLed", pattern>>>>)
<1>1. ASSUME NEW a \in Action,
             a[1] \notin {"StartRecording", "StartCall", "SendAlert", "UploadClip"}
      PROVE  Harmless(<<a>>)
  BY <1>1, SingleAction, AskedOfOne DEF Harmless
<1>2. Harmless(<<>>)
  <2>1. <<>> \in Seq(Action)
    OBVIOUS
  <2> QED  BY <2>1, AskedOfNothing DEF Harmless
<1>3. /\ <<"PlayChime">>[1] = "PlayChime" /\ <<"StopRecording">>[1] = "StopRecording"
      /\ <<"StopCall">>[1] = "StopCall"
      /\ \A pattern \in LedPattern : <<"SetLed", pattern>>[1] = "SetLed"
  OBVIOUS
<1> QED  BY <1>1, <1>2, <1>3, ActionForms DEF Chime, StopRecording

\* Two lists that start nothing start nothing together.
LEMMA HarmlessConcat ==
  ASSUME NEW a, NEW b, Harmless(a), Harmless(b)
  PROVE  Harmless(a \o b)
BY AskedOfConcat DEF Harmless

\* A queue left alone is sound and sends nothing.
LEMMA SameQueue ==
  ASSUME NEW q, QueueOK(q), NEW acts, AskedOf("SendAlert", acts) = {}
  PROVE  Transmits(q, q, acts)
BY DEF QueueOK, Transmits, SameFlight

\* Settle after a handler that asked for nothing to be sent.
LEMMA SettleQuietly ==
  ASSUME NEW e, EventOK(e), NEW q, QueueOK(q), NEW s, SpoolOK(s),
         NEW acts, Harmless(acts),
         online' \in BOOLEAN, shuttingDown' \in BOOLEAN,
         Settle(e, q, s, acts)
  PROVE  /\ Settled(q, s) /\ SameEvent(e, event')
         /\ Nothing("StartRecording") /\ Nothing("StartCall")
         /\ shuttingDown' => StartsNothing
<1>1. /\ acts \in Seq(Action) /\ Transmits(q, q, acts)
      /\ \A what \in {"StartRecording", "StartCall", "SendAlert", "UploadClip"} :
            AskedOf(what, acts) = {}
  BY SameQueue DEF Harmless
<1>2. /\ EventOK(event') /\ SameEvent(e, event')
      /\ QueueOK(alerts') /\ SpoolOK(spool') /\ led' \in LedPattern
      /\ out' \in Seq(Action)
      /\ Transmits(q, alerts', out')
      /\ Uploads(s, spool', out')
      /\ \A what \in {"StartRecording", "StartCall"} :
               AskedOf(what, out') = AskedOf(what, acts)
      /\ shuttingDown' /\ AskedOf("SendAlert", acts) = {} =>
               \A what \in {"SendAlert", "UploadClip"} : AskedOf(what, out') = {}
  BY <1>1, SettleContract
<1> QED  BY <1>1, <1>2 DEF Settled, Nothing, StartsNothing

\* A lapsed timer is a timer.
LEMMA LapsedType == \A t \in Timer : Lapsed(t) \in Timer
BY DEF Lapsed, Timer

\* An event the core ignores leaves the camera alone.
LEMMA IgnoredContract ==
  ASSUME CoreOK, Ignored
  PROVE  /\ CoreOK' /\ Settled(alerts, spool) /\ CameraUntouched
         /\ shuttingDown => StartsNothing
<1>1. /\ EventOK(event) /\ QueueOK(alerts) /\ SpoolOK(spool)
      /\ online' \in BOOLEAN /\ shuttingDown' \in BOOLEAN
      /\ Settle(event, alerts, spool, <<>>)
      /\ UNCHANGED <<viewers, recording, deferred, online, fault, shuttingDown>>
  BY DEF CoreOK, CoreTypeOK, Ignored, EventOK, camera, link
<1>2. /\ Settled(alerts, spool) /\ SameEvent(event, event')
      /\ Nothing("StartRecording") /\ Nothing("StartCall")
      /\ shuttingDown' => StartsNothing
  BY <1>1, HarmlessLists, SettleQuietly
<1>3. cooldown' \in Timer /\ pressWindow' \in Timer /\ ringLed' \in Timer
  BY LapsedType DEF CoreOK, CoreTypeOK, Ignored, Lapse
<1>4. CoreOK'
  BY <1>1, <1>2, <1>3 DEF CoreOK, CoreTypeOK, Settled, EventOK, QueueOK, SpoolOK
<1> QED  BY <1>1, <1>2, <1>4 DEF CameraUntouched, camera
-----------------------------------------------------------------------------
(* Starting something.                                                     *)

\* A new event is an active event with the id it was given.
LEMMA NewEventType ==
  ASSUME NEW id \in EventId, NEW kind \in Kind, NEW held \in Held \cup {None}
  PROVE  /\ NewEvent(id, kind, held) \in ActiveEvent
         /\ NewEvent(id, kind, held).id = id
BY CoreAssumption DEF NewEvent, ActiveEvent

\* A new alert is an alert.
LEMMA NewAlertType ==
  ASSUME NEW id \in EventId, NEW kind \in Kind
  PROVE  NewAlert(id, kind) \in Alert
BY CoreAssumption, AlertQueueAssumption DEF NewAlert, Alert

\* A recording asked for at the end of what was asked for before.
LEMMA OneRecording ==
  ASSUME NEW acts \in Seq(Action), NEW id \in EventId, NEW looking \in BOOLEAN,
         AskedOf("StartRecording", acts) = {}
  PROVE  LET all == Append(acts, <<"StartRecording", id, looking>>)
         IN  /\ all \in Seq(Action)
             /\ AskedOf("StartRecording", all) = {<<"StartRecording", id, looking>>}
             /\ \A what : what # "StartRecording" =>
                  AskedOf(what, all) = AskedOf(what, acts)
<1> DEFINE a == <<"StartRecording", id, looking>>
<1>1. a \in Action /\ a[1] = "StartRecording"
  BY ActionForms
<1> HIDE DEF a
<1>2. Append(acts, a) = acts \o <<a>>
  BY <1>1, AppendIsConcat
<1>3. /\ <<a>> \in Seq(Action)
      /\ \A what : AskedOf(what, <<a>>) = IF what = "StartRecording" THEN {a} ELSE {}
  BY <1>1, SingleAction, AskedOfOne
<1>4. /\ acts \o <<a>> \in Seq(Action)
      /\ \A what : AskedOf(what, acts \o <<a>>)
                     = AskedOf(what, acts) \cup AskedOf(what, <<a>>)
  BY <1>3, AskedOfConcat
<1>5. /\ Append(acts, a) \in Seq(Action)
      /\ AskedOf("StartRecording", Append(acts, a)) = {a}
      /\ \A what : what # "StartRecording" =>
           AskedOf(what, Append(acts, a)) = AskedOf(what, acts)
  BY <1>2, <1>3, <1>4
<1> QED  BY <1>5 DEF a

\* Settle after the event's recording has been asked for.
LEMMA SettleRecording ==
  ASSUME NEW id \in EventId, NEW e \in ActiveEvent, e.id = id,
         NEW looking \in BOOLEAN,
         NEW q0, NEW q, QueueOK(q), SpoolOK(spool),
         NEW acts \in Seq(Action), Transmits(q0, q, acts),
         \A what \in {"StartRecording", "StartCall", "UploadClip"} :
            AskedOf(what, acts) = {},
         online' \in BOOLEAN, shuttingDown' \in BOOLEAN,
         Settle(e, q, spool, Append(acts, <<"StartRecording", id, looking>>))
  PROVE  /\ Settled(q0, spool)
         /\ event' # None /\ event'.id = id
         /\ AskedOf("StartRecording", out') = {<<"StartRecording", id, looking>>}
         /\ Nothing("StartCall")
<1> DEFINE a   == <<"StartRecording", id, looking>>
           all == Append(acts, a)
<1>1. /\ all \in Seq(Action)
      /\ AskedOf("StartRecording", all) = {a}
      /\ \A what : what # "StartRecording" => AskedOf(what, all) = AskedOf(what, acts)
  BY OneRecording
<1>2. /\ AskedOf("StartCall", all) = {} /\ AskedOf("UploadClip", all) = {}
      /\ Transmits(q0, q, all)
  BY <1>1 DEF Transmits
<1>3. EventOK(e) /\ e # None
  BY OptionalAssumption DEF EventOK
<1>4. Settle(e, q, spool, all)
  OBVIOUS
<1> HIDE DEF all
<1>5. /\ EventOK(event') /\ SameEvent(e, event')
      /\ QueueOK(alerts') /\ SpoolOK(spool') /\ led' \in LedPattern
      /\ out' \in Seq(Action)
      /\ Transmits(q0, alerts', out')
      /\ Uploads(spool, spool', out')
      /\ \A what \in {"StartRecording", "StartCall"} :
           AskedOf(what, out') = AskedOf(what, all)
  BY <1>1, <1>2, <1>3, <1>4, SettleContract
<1> QED  BY <1>1, <1>2, <1>3, <1>5 DEF Settled, SameEvent, Nothing

\* What StartHolding and Trigger leave, when they find the camera free for
\* the recording they are to make.
Begun(withClip) ==
  IF withClip
    THEN /\ recording' = "Active"
         /\ \E id \in EventId, looking \in BOOLEAN :
              /\ event' # None /\ event'.id = id
              /\ AskedOf("StartRecording", out') = {<<"StartRecording", id, looking>>}
         /\ Nothing("StartCall")
    ELSE /\ UNCHANGED recording
         /\ SameEvent(event, event')
         /\ Nothing("StartRecording") /\ Nothing("StartCall")

\* watch_for_person and ring_with_a_name start one recording and send nothing.
LEMMA StartHoldingContract ==
  ASSUME CoreOK, NEW id \in EventId, NEW kind \in Kind, NEW wait \in Nat,
         NEW acts, Harmless(acts), UNCHANGED <<online, shuttingDown>>,
         StartHolding(id, kind, wait, acts)
  PROVE  Settled(alerts, spool) /\ Begun(TRUE)
<1> DEFINE e == NewEvent(id, kind, [due |-> wait, age |-> 0])
<1>1. [due |-> wait, age |-> 0] \in Held
  BY AlertQueueAssumption DEF Held
<1>2. e \in ActiveEvent /\ e.id = id
  BY <1>1, NewEventType
<1>3. /\ acts \in Seq(Action)
      /\ \A what \in {"StartRecording", "StartCall", "UploadClip"} : AskedOf(what, acts) = {}
      /\ AskedOf("SendAlert", acts) = {}
  BY DEF Harmless
<1>4. QueueOK(alerts) /\ SpoolOK(spool) /\ Transmits(alerts, alerts, acts)
  BY <1>3, SameQueue DEF CoreOK
<1>5. online' \in BOOLEAN /\ shuttingDown' \in BOOLEAN
  BY DEF CoreOK, CoreTypeOK
<1>6. /\ recording' = "Active"
      /\ Settle(e, alerts, spool, Append(acts, <<"StartRecording", id, TRUE>>))
  BY DEF StartHolding
<1> HIDE DEF e
<1>7. /\ Settled(alerts, spool)
      /\ event' # None /\ event'.id = id
      /\ AskedOf("StartRecording", out') = {<<"StartRecording", id, TRUE>>}
      /\ Nothing("StartCall")
  BY <1>2, <1>3, <1>4, <1>5, <1>6, SettleRecording
<1> QED  BY <1>6, <1>7 DEF Begun

\* trigger starts one recording if it is to, and none otherwise.
LEMMA TriggerContract ==
  ASSUME CoreOK, NEW id \in EventId, NEW kind \in Kind, NEW withClip \in BOOLEAN,
         NEW acts, Harmless(acts), UNCHANGED <<online, shuttingDown>>,
         Trigger(id, kind, withClip, acts)
  PROVE  Settled(alerts, spool) /\ Begun(withClip)
<1> DEFINE queued == PushAlert(alerts, NewAlert(id, kind))
           pumped == PumpAlerts(queued, online, shuttingDown)
           sent   == acts \o AlertSent(queued, online, shuttingDown)
<1>1. /\ online \in BOOLEAN /\ shuttingDown \in BOOLEAN
      /\ online' \in BOOLEAN /\ shuttingDown' \in BOOLEAN
      /\ QueueOK(alerts) /\ SpoolOK(spool) /\ EventOK(event)
  BY DEF CoreOK, CoreTypeOK, EventOK
<1>2. /\ acts \in Seq(Action) /\ Transmits(alerts, alerts, acts)
      /\ \A what \in {"StartRecording", "StartCall", "UploadClip"} : AskedOf(what, acts) = {}
  BY <1>1, SameQueue DEF Harmless
<1>3. QueueOK(queued) /\ Transmits(alerts, queued, acts)
  BY <1>1, <1>2, NewAlertType, TransmitsThenPush
<1> HIDE DEF queued
<1>4. /\ QueueOK(pumped) /\ sent \in Seq(Action)
      /\ Transmits(alerts, pumped, sent)
      /\ \A what : what # "SendAlert" => AskedOf(what, sent) = AskedOf(what, acts)
  BY <1>1, <1>2, <1>3, TransmitsThenPump
<1>5. \A what \in {"StartRecording", "StartCall", "UploadClip"} : AskedOf(what, sent) = {}
  BY <1>2, <1>4
<1>6. CASE kind = "ring" /\ withClip /\ RingFaceWait > 0
  <2>1. StartHolding(id, kind, RingFaceWait, acts)
    BY <1>6 DEF Trigger
  <2> QED  BY <2>1, <1>6, CoreAssumption, StartHoldingContract
<1>7. CASE ~ (kind = "ring" /\ withClip /\ RingFaceWait > 0) /\ withClip
  <2> DEFINE e == NewEvent(id, kind, None)
  <2>1. /\ recording' = "Active"
        /\ Settle(e, pumped, spool, Append(sent, <<"StartRecording", id, FALSE>>))
    BY <1>7 DEF Trigger, queued
  <2>2. e \in ActiveEvent /\ e.id = id
    BY NewEventType
  <2> HIDE DEF e, pumped, sent
  <2>3. /\ Settled(alerts, spool)
        /\ event' # None /\ event'.id = id
        /\ AskedOf("StartRecording", out') = {<<"StartRecording", id, FALSE>>}
        /\ Nothing("StartCall")
    BY <2>1, <2>2, <1>1, <1>4, <1>5, SettleRecording
  <2> QED  BY <2>1, <2>3, <1>7 DEF Begun
<1>8. CASE ~ withClip
  <2>1. UNCHANGED recording /\ Settle(event, pumped, spool, sent)
    BY <1>8 DEF Trigger, queued
  <2> HIDE DEF pumped, sent
  <2>2. /\ EventOK(event') /\ SameEvent(event, event')
        /\ QueueOK(alerts') /\ SpoolOK(spool') /\ led' \in LedPattern
        /\ out' \in Seq(Action)
        /\ Transmits(alerts, alerts', out')
        /\ Uploads(spool, spool', out')
        /\ \A what \in {"StartRecording", "StartCall"} :
             AskedOf(what, out') = AskedOf(what, sent)
    BY <2>1, <1>1, <1>4, <1>5, SettleContract
  <2> QED  BY <2>1, <2>2, <1>5, <1>8 DEF Begun, Settled, Nothing
<1> QED  BY <1>6, <1>7, <1>8
-----------------------------------------------------------------------------
(* The events, one contract each.                                          *)

\* A started recording takes a camera that was free.
LEMMA BegunContract ==
  ASSUME NEW withClip \in BOOLEAN, Begun(withClip),
         withClip => recording = "Idle" /\ viewers = {} /\ ~ shuttingDown,
         UNCHANGED <<viewers, deferred, shuttingDown>>
  PROVE  CameraUntouched \/ CameraRecords
<1>1. CASE withClip
  BY <1>1 DEF Begun, CameraRecords
<1>2. CASE ~ withClip
  BY <1>2 DEF Begun, CameraUntouched, camera
<1> QED  BY <1>1, <1>2

\* What Settle and the timers leave untyped.
LEMMA TypesFromSettled ==
  ASSUME NEW q, NEW s, Settled(q, s),
         viewers' \subseteq Peer, recording' \in RecordingState,
         deferred' \in Peer \cup {None},
         cooldown' \in Timer, pressWindow' \in Timer, ringLed' \in Timer,
         online' \in BOOLEAN, fault' \in BOOLEAN, shuttingDown' \in BOOLEAN
  PROVE  CoreOK'
BY DEF CoreOK, CoreTypeOK, Settled, EventOK, QueueOK, SpoolOK

\* A motion starts a recording only of a camera that is free.
LEMMA MotionContract ==
  ASSUME CoreOK, NEW id \in EventId, MotionDetected(id)
  PROVE  /\ CoreOK' /\ Settled(alerts, spool)
         /\ CameraUntouched \/ CameraRecords
         /\ shuttingDown => StartsNothing
<1>1. CASE shuttingDown \/ Lapsed(cooldown) # None
  <2>1. Ignored
    BY <1>1 DEF MotionDetected
  <2> QED  BY <2>1, IgnoredContract
<1>2. CASE ~ (shuttingDown \/ Lapsed(cooldown) # None)
  <2>1. /\ cooldown' = MotionCooldown
        /\ pressWindow' = Lapsed(pressWindow)
        /\ ringLed' = Lapsed(ringLed)
        /\ UNCHANGED <<viewers, deferred, online, fault, shuttingDown>>
        /\ \/ /\ recording # "Idle"
              /\ UNCHANGED recording
              /\ Settle(event, alerts, spool, <<>>)
           \/ /\ recording = "Idle"
              /\ IF PersonDetection /\ viewers = {}
                   THEN StartHolding(id, "motion", VerdictWait, <<>>)
                   ELSE Trigger(id, "motion", viewers = {}, <<>>)
    BY <1>2 DEF MotionDetected, link
  <2>2. /\ EventOK(event) /\ QueueOK(alerts) /\ SpoolOK(spool)
        /\ online' \in BOOLEAN /\ shuttingDown' \in BOOLEAN /\ fault' \in BOOLEAN
        /\ viewers' \subseteq Peer /\ deferred' \in Peer \cup {None}
        /\ recording \in RecordingState
        /\ cooldown' \in Timer /\ pressWindow' \in Timer /\ ringLed' \in Timer
    <3>1. cooldown' \in Timer
      BY <2>1, CoreAssumption DEF Timer
    <3> QED  BY <2>1, <3>1, LapsedType DEF CoreOK, CoreTypeOK, EventOK
  <2>3. "motion" \in Kind /\ Harmless(<<>>)
    BY HarmlessLists DEF Kind
  <2>4. CASE recording # "Idle" /\ UNCHANGED recording /\ Settle(event, alerts, spool, <<>>)
    <3>1. /\ Settled(alerts, spool) /\ SameEvent(event, event')
          /\ Nothing("StartRecording") /\ Nothing("StartCall")
      BY <2>2, <2>3, <2>4, SettleQuietly
    <3>2. CameraUntouched
      BY <2>1, <2>4, <3>1 DEF CameraUntouched, camera
    <3> QED  BY <1>2, <2>2, <2>4, <3>1, <3>2, TypesFromSettled
  <2>5. CASE /\ recording = "Idle" /\ PersonDetection /\ viewers = {}
             /\ StartHolding(id, "motion", VerdictWait, <<>>)
    <3>1. Settled(alerts, spool) /\ Begun(TRUE)
      BY <2>1, <2>3, <2>5, CoreAssumption, StartHoldingContract
    <3>2. CameraUntouched \/ CameraRecords
      BY <1>2, <2>1, <2>5, <3>1, BegunContract
    <3>3. recording' \in RecordingState
      BY <3>1 DEF Begun, RecordingState
    <3> QED  BY <1>2, <2>2, <3>1, <3>2, <3>3, TypesFromSettled
  <2>6. CASE recording = "Idle" /\ Trigger(id, "motion", viewers = {}, <<>>)
    <3>1. Settled(alerts, spool) /\ Begun(viewers = {})
      BY <2>1, <2>3, <2>6, TriggerContract
    <3>2. CameraUntouched \/ CameraRecords
      BY <1>2, <2>1, <2>6, <3>1, BegunContract
    <3>3. recording' \in RecordingState
      BY <2>2, <3>1 DEF Begun, RecordingState
    <3> QED  BY <1>2, <2>2, <3>1, <3>2, <3>3, TypesFromSettled
  <2> QED  BY <2>1, <2>4, <2>5, <2>6
<1> QED  BY <1>1, <1>2

\* A press that takes over the recording of a motion.
LEMMA TakeOverContract ==
  ASSUME CoreOK, event # None, UNCHANGED <<online, shuttingDown>>, TakeOver
  PROVE  /\ Settled(alerts, spool) /\ SameEvent(event, event')
         /\ Nothing("StartRecording") /\ Nothing("StartCall")
<1> DEFINE ring   == [event EXCEPT !.kind = "ring", !.unwanted = FALSE]
           held   == [due |-> Lesser(event.held.due, RingFaceWait), age |-> 0]
           now    == [id |-> event.id, kind |-> "ring", faces |-> event.faces, age |-> 0]
           queued == PushAlert(alerts, now)
           pumped == PumpAlerts(queued, online, shuttingDown)
           sent   == Chime \o AlertSent(queued, online, shuttingDown)
<1>1. /\ online \in BOOLEAN /\ shuttingDown \in BOOLEAN
      /\ online' \in BOOLEAN /\ shuttingDown' \in BOOLEAN
      /\ QueueOK(alerts) /\ SpoolOK(spool)
      /\ event \in ActiveEvent
  BY DEF CoreOK, CoreTypeOK
<1>2. ring \in ActiveEvent /\ ring.id = event.id
  BY <1>1 DEF ActiveEvent, Kind
<1>3. now \in Alert
  BY <1>1, AlertQueueAssumption DEF ActiveEvent, Alert, Kind
<1>4. Harmless(Chime)
  BY HarmlessLists
<1>5. CASE Holding(event) /\ RingFaceWait > 0
  <2> DEFINE e == [ring EXCEPT !.held = held]
  <2>1. Settle(e, alerts, spool, Chime)
    BY <1>5 DEF TakeOver
  <2>2. held \in Held
    <3>1. event.held \in Held
      BY <1>1, <1>5 DEF Holding, ActiveEvent
    <3> QED  BY <3>1, CoreAssumption, AlertQueueAssumption DEF Held, Lesser
  <2> HIDE DEF held, ring
  <2>3. e \in ActiveEvent /\ e.id = event.id
    BY <1>2, <2>2 DEF ActiveEvent
  <2> HIDE DEF e
  <2>4. EventOK(e) /\ SameEvent(event, e) /\ e # None
    BY <1>1, <2>3, OptionalAssumption DEF EventOK, SameEvent
  <2>5. /\ Settled(alerts, spool) /\ SameEvent(e, event')
        /\ Nothing("StartRecording") /\ Nothing("StartCall")
    BY <1>1, <1>4, <2>1, <2>4, SettleQuietly
  <2> QED  BY <2>4, <2>5 DEF SameEvent
<1>6. CASE ~ (Holding(event) /\ RingFaceWait > 0)
  <2> DEFINE e == Released(ring)
  <2>1. Settle(e, pumped, spool, sent)
    BY <1>6 DEF TakeOver
  <2> HIDE DEF now, ring
  <2>2. Chime \in Seq(Action) /\ Transmits(alerts, alerts, Chime)
    BY <1>1, <1>4, SameQueue DEF Harmless
  <2>3. QueueOK(queued) /\ Transmits(alerts, queued, Chime)
    BY <1>1, <1>3, <2>2, TransmitsThenPush
  <2> HIDE DEF queued
  <2>4. /\ QueueOK(pumped) /\ sent \in Seq(Action)
        /\ Transmits(alerts, pumped, sent)
        /\ \A what : what # "SendAlert" => AskedOf(what, sent) = AskedOf(what, Chime)
    BY <1>1, <2>2, <2>3, TransmitsThenPump
  <2>5. e \in ActiveEvent /\ e.id = event.id
    BY <1>2 DEF Released, ActiveEvent
  <2> HIDE DEF e, pumped, sent
  <2>6. EventOK(e) /\ SameEvent(event, e) /\ e # None
    BY <1>1, <2>5, OptionalAssumption DEF EventOK, SameEvent
  <2>7. \A what \in {"StartRecording", "StartCall", "UploadClip"} : AskedOf(what, sent) = {}
    BY <1>4, <2>4 DEF Harmless
  <2>8. /\ EventOK(event') /\ SameEvent(e, event')
        /\ QueueOK(alerts') /\ SpoolOK(spool') /\ led' \in LedPattern
        /\ out' \in Seq(Action)
        /\ Transmits(alerts, alerts', out')
        /\ Uploads(spool, spool', out')
        /\ \A what \in {"StartRecording", "StartCall"} :
             AskedOf(what, out') = AskedOf(what, sent)
    BY <1>1, <2>1, <2>4, <2>6, <2>7, SettleContract
  <2> QED  BY <2>6, <2>7, <2>8 DEF Settled, SameEvent, Nothing
<1> QED  BY <1>5, <1>6

\* A press starts a recording only of a camera that is free.
LEMMA PressContract ==
  ASSUME CoreOK, NEW id \in EventId, ButtonPressed(id)
  PROVE  /\ CoreOK' /\ Settled(alerts, spool)
         /\ CameraUntouched \/ CameraRecords
         /\ shuttingDown => StartsNothing
<1>1. CASE shuttingDown
  <2>1. Ignored
    BY <1>1 DEF ButtonPressed
  <2> QED  BY <2>1, IgnoredContract
<1>2. CASE ~ shuttingDown
  <2> DEFINE repeat == Lapsed(pressWindow) # None
  <2>1. /\ cooldown' = Lapsed(cooldown)
        /\ ringLed' = RingLed
        /\ pressWindow' = IF repeat THEN pressWindow ELSE PressWindow
        /\ UNCHANGED <<viewers, deferred, online, fault, shuttingDown>>
        /\ \/ /\ UNCHANGED recording
              /\ Settle(event, alerts, spool, Chime)
           \/ /\ Recorded
              /\ UNCHANGED recording
              /\ TakeOver
           \/ Trigger(id, "ring", viewers = {} /\ recording = "Idle", Chime)
    BY <1>2 DEF ButtonPressed, link
  <2>2. /\ EventOK(event) /\ QueueOK(alerts) /\ SpoolOK(spool)
        /\ online' \in BOOLEAN /\ shuttingDown' \in BOOLEAN /\ fault' \in BOOLEAN
        /\ viewers' \subseteq Peer /\ deferred' \in Peer \cup {None}
        /\ recording \in RecordingState
        /\ cooldown' \in Timer /\ pressWindow' \in Timer /\ ringLed' \in Timer
    <3>1. pressWindow' \in Timer /\ ringLed' \in Timer
      BY <2>1, CoreAssumption DEF Timer, CoreOK, CoreTypeOK
    <3> QED  BY <2>1, <3>1, LapsedType DEF CoreOK, CoreTypeOK, EventOK
  <2>3. "ring" \in Kind /\ Harmless(Chime)
    BY HarmlessLists DEF Kind
  <2>4. CASE UNCHANGED recording /\ Settle(event, alerts, spool, Chime)
    <3>1. /\ Settled(alerts, spool) /\ SameEvent(event, event')
          /\ Nothing("StartRecording") /\ Nothing("StartCall")
      BY <2>2, <2>3, <2>4, SettleQuietly
    <3>2. CameraUntouched
      BY <2>1, <2>4, <3>1 DEF CameraUntouched, camera
    <3> QED  BY <1>2, <2>2, <2>4, <3>1, <3>2, TypesFromSettled
  <2>5. CASE Recorded /\ UNCHANGED recording /\ TakeOver
    <3>1. event # None
      BY <2>5 DEF Recorded
    <3>2. /\ Settled(alerts, spool) /\ SameEvent(event, event')
          /\ Nothing("StartRecording") /\ Nothing("StartCall")
      BY <2>1, <2>5, <3>1, TakeOverContract
    <3>3. CameraUntouched
      BY <2>1, <2>5, <3>2 DEF CameraUntouched, camera
    <3> QED  BY <1>2, <2>2, <2>5, <3>2, <3>3, TypesFromSettled
  <2>6. CASE Trigger(id, "ring", viewers = {} /\ recording = "Idle", Chime)
    <3>1. Settled(alerts, spool) /\ Begun(viewers = {} /\ recording = "Idle")
      BY <2>1, <2>3, <2>6, TriggerContract
    <3>2. CameraUntouched \/ CameraRecords
      BY <1>2, <2>1, <3>1, BegunContract
    <3>3. recording' \in RecordingState
      BY <2>2, <3>1 DEF Begun, RecordingState
    <3> QED  BY <1>2, <2>2, <3>1, <3>2, <3>3, TypesFromSettled
  <2> QED  BY <2>1, <2>4, <2>5, <2>6
<1> QED  BY <1>1, <1>2

\* A viewer waits for a camera that is recording and gets one that is not.
LEMMA ViewerContract ==
  ASSUME CoreOK, NEW peer \in Peer, ViewerRequested(peer)
  PROVE  /\ CoreOK' /\ Settled(alerts, spool)
         /\ shuttingDown => CameraUntouched /\ StartsNothing
         /\ ~ shuttingDown =>
              /\ UNCHANGED shuttingDown /\ SameEvent(event, event')
              /\ Nothing("StartRecording")
              /\ \/ /\ recording # "Idle" /\ recording' = "Stopping"
                    /\ deferred' = peer /\ UNCHANGED viewers
                    /\ Nothing("StartCall")
                 \/ /\ recording = "Idle" /\ viewers' = viewers \cup {peer}
                    /\ UNCHANGED <<recording, deferred>>
                    /\ AskedOf("StartCall", out') = {<<"StartCall", peer>>}
<1>1. CASE shuttingDown
  <2>1. Ignored
    BY <1>1 DEF ViewerRequested
  <2> QED  BY <1>1, <2>1, IgnoredContract
<1>2. CASE ~ shuttingDown
  <2>1. /\ UNCHANGED <<online, fault, shuttingDown>> /\ Lapse
        /\ \/ /\ recording = "Active"
              /\ recording' = "Stopping"
              /\ deferred' = peer
              /\ UNCHANGED viewers
              /\ Settle(CutShort(event), alerts, spool, StopRecording)
           \/ /\ recording = "Stopping"
              /\ deferred' = peer
              /\ UNCHANGED <<viewers, recording>>
              /\ Settle(event, alerts, spool, <<>>)
           \/ /\ recording = "Idle"
              /\ viewers' = viewers \cup {peer}
              /\ UNCHANGED <<recording, deferred>>
              /\ Settle(event, alerts, spool, <<<<"StartCall", peer>>>>)
    BY <1>2 DEF ViewerRequested, link
  <2>2. /\ EventOK(event) /\ QueueOK(alerts) /\ SpoolOK(spool)
        /\ online' \in BOOLEAN /\ shuttingDown' \in BOOLEAN /\ fault' \in BOOLEAN
        /\ viewers \subseteq Peer /\ deferred \in Peer \cup {None}
        /\ recording \in RecordingState
        /\ cooldown' \in Timer /\ pressWindow' \in Timer /\ ringLed' \in Timer
    BY <2>1, LapsedType DEF CoreOK, CoreTypeOK, EventOK, Lapse
  <2>3. EventOK(CutShort(event)) /\ SameEvent(event, CutShort(event))
    <3>1. CASE event = None
      BY <3>1 DEF CutShort, EventOK, SameEvent
    <3>2. CASE event # None
      <4>1. /\ CutShort(event) = [event EXCEPT !.cutShort = TRUE]
            /\ event \in ActiveEvent
        BY <2>2, <3>2 DEF CutShort, EventOK
      <4>2. CutShort(event) \in ActiveEvent /\ CutShort(event).id = event.id
        BY <4>1 DEF ActiveEvent
      <4> QED  BY <3>2, <4>2, OptionalAssumption DEF EventOK, SameEvent
    <3> QED  BY <3>1, <3>2
  <2>4. CASE /\ recording # "Idle" /\ recording' = "Stopping"
             /\ deferred' = peer /\ UNCHANGED viewers
             /\ \/ Settle(CutShort(event), alerts, spool, StopRecording)
                \/ Settle(event, alerts, spool, <<>>)
    <3>1. /\ Settled(alerts, spool)
          /\ SameEvent(CutShort(event), event') \/ SameEvent(event, event')
          /\ Nothing("StartRecording") /\ Nothing("StartCall")
      BY <2>2, <2>3, <2>4, HarmlessLists, SettleQuietly
    <3>2. SameEvent(event, event')
      BY <2>3, <3>1 DEF SameEvent
    <3>3. CoreOK'
      <4>1. recording' \in RecordingState
        BY <2>4 DEF RecordingState
      <4> QED  BY <2>2, <2>4, <3>1, <4>1, TypesFromSettled
    <3> QED  BY <1>2, <2>1, <2>4, <3>1, <3>2, <3>3
  <2>5. CASE /\ recording = "Idle" /\ viewers' = viewers \cup {peer}
             /\ UNCHANGED <<recording, deferred>>
             /\ Settle(event, alerts, spool, <<<<"StartCall", peer>>>>)
    <3> DEFINE a == <<"StartCall", peer>>
    <3>1. a \in Action /\ a[1] = "StartCall"
      BY ActionForms
    <3>2. Settle(event, alerts, spool, <<a>>)
      BY <2>5
    <3> HIDE DEF a
    <3>3. /\ <<a>> \in Seq(Action)
          /\ \A what : AskedOf(what, <<a>>) = IF what = "StartCall" THEN {a} ELSE {}
      BY <3>1, SingleAction, AskedOfOne
    <3>4. Transmits(alerts, alerts, <<a>>) /\ AskedOf("UploadClip", <<a>>) = {}
      BY <2>2, <3>3, SameQueue
    <3>5. /\ EventOK(event') /\ SameEvent(event, event')
          /\ QueueOK(alerts') /\ SpoolOK(spool') /\ led' \in LedPattern
          /\ out' \in Seq(Action)
          /\ Transmits(alerts, alerts', out')
          /\ Uploads(spool, spool', out')
          /\ \A what \in {"StartRecording", "StartCall"} :
               AskedOf(what, out') = AskedOf(what, <<a>>)
      BY <2>2, <3>2, <3>3, <3>4, SettleContract
    <3>6. /\ Settled(alerts, spool) /\ Nothing("StartRecording")
          /\ AskedOf("StartCall", out') = {<<"StartCall", peer>>}
      BY <3>3, <3>5 DEF Settled, Nothing, a
    <3>7. CoreOK'
      BY <2>2, <2>5, <3>6, TypesFromSettled
    <3> QED  BY <1>2, <2>1, <2>5, <3>5, <3>6, <3>7
  <2> QED  BY <2>1, <2>4, <2>5
<1> QED  BY <1>1, <1>2

\* The end of a call takes that viewer away and starts nothing.
LEMMA CallEndedContract ==
  ASSUME CoreOK, NEW peer \in Peer, CallEnded(peer)
  PROVE  /\ CoreOK' /\ Settled(alerts, spool)
         /\ viewers' = viewers \ {peer}
         /\ deferred' \in {deferred, None}
         /\ UNCHANGED <<recording, shuttingDown>> /\ SameEvent(event, event')
         /\ Nothing("StartRecording") /\ Nothing("StartCall")
         /\ shuttingDown => StartsNothing
<1>1. /\ EventOK(event) /\ QueueOK(alerts) /\ SpoolOK(spool)
      /\ online' \in BOOLEAN /\ shuttingDown' \in BOOLEAN /\ fault' \in BOOLEAN
      /\ viewers' = viewers \ {peer} /\ viewers \subseteq Peer
      /\ deferred' \in {deferred, None} /\ deferred \in Peer \cup {None}
      /\ UNCHANGED <<recording, shuttingDown>> /\ recording \in RecordingState
      /\ cooldown' \in Timer /\ pressWindow' \in Timer /\ ringLed' \in Timer
      /\ Settle(event, alerts, spool, <<>>)
  BY LapsedType DEF CoreOK, CoreTypeOK, EventOK, CallEnded, Lapse, link
<1>2. /\ Settled(alerts, spool) /\ SameEvent(event, event')
      /\ Nothing("StartRecording") /\ Nothing("StartCall")
      /\ shuttingDown' => StartsNothing
  BY <1>1, HarmlessLists, SettleQuietly
<1>3. CoreOK'
  BY <1>1, <1>2, TypesFromSettled
<1> QED  BY <1>1, <1>2, <1>3

\* A verdict at most makes the recorder stop.
LEMMA DetectionContract ==
  ASSUME CoreOK, NEW id \in EventId, NEW verdict, NEW faces \in Faces,
         DetectionResult(id, verdict, faces)
  PROVE  /\ CoreOK' /\ Settled(alerts, spool)
         /\ UNCHANGED <<viewers, deferred, shuttingDown>>
         /\ recording' = recording \/ (recording = "Active" /\ recording' = "Stopping")
         /\ SameEvent(event, event')
         /\ Nothing("StartRecording") /\ Nothing("StartCall")
         /\ shuttingDown => StartsNothing
<1>1. CASE event = None \/ event.id # id
  <2>1. Ignored
    BY <1>1 DEF DetectionResult
  <2> QED  BY <2>1, IgnoredContract DEF CameraUntouched, camera
<1>2. CASE ~ (event = None \/ event.id # id)
  <2> DEFINE seen    == [event EXCEPT !.faces = IF verdict = "noPerson" THEN @ ELSE faces]
             stop    == recording = "Active"
             judged  == Holding(event)
             nobody  == judged /\ event.kind = "motion" /\ verdict = "noPerson"
             queued  == PushAlert(alerts, HeldAlert(event, faces))
             dismissed == [seen EXCEPT !.held = None, !.unwanted = TRUE,
                                        !.cutShort = @ \/ stop]
  <2>1. /\ pressWindow' = Lapsed(pressWindow)
        /\ ringLed' = Lapsed(ringLed)
        /\ UNCHANGED <<viewers, deferred, online, fault, shuttingDown>>
        /\ \/ /\ ~ judged
              /\ cooldown' = Lapsed(cooldown)
              /\ UNCHANGED recording
              /\ Settle(seen, alerts, spool, <<>>)
           \/ /\ judged /\ ~ nobody
              /\ cooldown' = Lapsed(cooldown)
              /\ UNCHANGED recording
              /\ Settle(Released(seen),
                        PumpAlerts(queued, online, shuttingDown), spool,
                        AlertSent(queued, online, shuttingDown))
           \/ /\ nobody
              /\ cooldown' = NoPersonCooldown
              /\ recording' = IF stop THEN "Stopping" ELSE recording
              /\ Settle(dismissed, alerts, spool,
                        IF stop THEN StopRecording ELSE <<>>)
    BY <1>2 DEF DetectionResult, link
  <2>2. /\ event \in ActiveEvent /\ QueueOK(alerts) /\ SpoolOK(spool)
        /\ online \in BOOLEAN /\ shuttingDown \in BOOLEAN
        /\ online' \in BOOLEAN /\ shuttingDown' \in BOOLEAN /\ fault' \in BOOLEAN
        /\ viewers' \subseteq Peer /\ deferred' \in Peer \cup {None}
        /\ recording \in RecordingState
        /\ cooldown' \in Timer /\ pressWindow' \in Timer /\ ringLed' \in Timer
    <3>1. cooldown' \in Timer
      BY <2>1, LapsedType, CoreAssumption DEF Timer, CoreOK, CoreTypeOK
    <3> QED  BY <1>2, <2>1, <3>1, LapsedType DEF CoreOK, CoreTypeOK
  <2>3. seen \in ActiveEvent /\ seen.id = event.id
    BY <2>2 DEF ActiveEvent
  <2>4. /\ Released(seen) \in ActiveEvent /\ Released(seen).id = event.id
        /\ dismissed \in ActiveEvent /\ dismissed.id = event.id
    <3> HIDE DEF seen
    <3> QED  BY <2>3 DEF ActiveEvent, Released
  <2> HIDE DEF seen, dismissed
  <2>5. \A e \in ActiveEvent : EventOK(e) /\ (e.id = event.id => SameEvent(event, e))
    BY <2>2, OptionalAssumption DEF EventOK, SameEvent
  <2>6. \A e : SameEvent(event, e) /\ SameEvent(e, event') => SameEvent(event, event')
    BY DEF SameEvent
  <2>7. CASE ~ judged /\ UNCHANGED recording /\ Settle(seen, alerts, spool, <<>>)
    <3>1. /\ Settled(alerts, spool) /\ SameEvent(seen, event')
          /\ Nothing("StartRecording") /\ Nothing("StartCall")
          /\ shuttingDown' => StartsNothing
      BY <2>2, <2>3, <2>5, <2>7, HarmlessLists, SettleQuietly
    <3>2. CoreOK'
      BY <2>2, <2>7, <3>1, TypesFromSettled
    <3> QED  BY <2>1, <2>3, <2>5, <2>6, <2>7, <3>1, <3>2
  <2>8. CASE /\ judged /\ UNCHANGED recording
             /\ Settle(Released(seen), PumpAlerts(queued, online, shuttingDown), spool,
                       AlertSent(queued, online, shuttingDown))
    <3> DEFINE pumped == PumpAlerts(queued, online, shuttingDown)
               sent   == AlertSent(queued, online, shuttingDown)
               e      == Released(seen)
    <3>1. HeldAlert(event, faces) \in Alert
      <4>1. EventOK(event) /\ Holding(event)
        BY <2>2, <2>8 DEF EventOK
      <4> QED  BY <4>1, HoldingFields
    <3>2. QueueOK(queued) /\ SameFlight(alerts, queued)
      BY <2>2, <3>1, PushOK
    <3> HIDE DEF queued
    <3>3. /\ QueueOK(pumped) /\ sent \in Seq(Action)
          /\ Transmits(queued, pumped, sent)
          /\ \A what : what # "SendAlert" => AskedOf(what, sent) = {}
          /\ shuttingDown => sent = <<>>
      <4>1. online \in BOOLEAN /\ shuttingDown \in BOOLEAN
        BY <2>2
      <4>2. QueueOK(queued)
        BY <3>2
      <4>3. /\ QueueOK(pumped) /\ sent \in Seq(Action)
            /\ Transmits(queued, pumped, sent)
        BY <4>1, <4>2, PumpOK
      <4>4. \A what : what # "SendAlert" => AskedOf(what, sent) = {}
        BY <4>1, <4>2, PumpOK
      <4>5. shuttingDown => sent = <<>>
        BY <4>1, <4>2, PumpOK
      <4> QED  BY <4>3, <4>4, <4>5
    <3>4. Transmits(alerts, pumped, sent)
      BY <3>2, <3>3 DEF Transmits, SameFlight
    <3>5. /\ Settle(e, pumped, spool, sent)
          /\ EventOK(e) /\ SameEvent(event, e)
      BY <2>4, <2>5, <2>8 DEF queued
    <3> HIDE DEF pumped, sent, e
    <3>6. /\ EventOK(event') /\ SameEvent(e, event')
          /\ QueueOK(alerts') /\ SpoolOK(spool') /\ led' \in LedPattern
          /\ out' \in Seq(Action)
          /\ Transmits(alerts, alerts', out')
          /\ Uploads(spool, spool', out')
          /\ \A what \in {"StartRecording", "StartCall"} :
               AskedOf(what, out') = AskedOf(what, sent)
          /\ shuttingDown' /\ AskedOf("SendAlert", sent) = {} =>
               \A what \in {"SendAlert", "UploadClip"} : AskedOf(what, out') = {}
      BY <2>2, <3>3, <3>4, <3>5, SettleContract
    <3>7. /\ Settled(alerts, spool) /\ SameEvent(event, event')
          /\ Nothing("StartRecording") /\ Nothing("StartCall")
      BY <2>6, <3>3, <3>5, <3>6 DEF Settled, Nothing
    <3>8. shuttingDown => StartsNothing
      BY <2>1, <3>3, <3>6, <3>7, AskedOfNothing DEF StartsNothing, Nothing
    <3>9. CoreOK'
      BY <2>2, <2>8, <3>7, TypesFromSettled
    <3> QED  BY <2>1, <2>8, <3>7, <3>8, <3>9
  <2>9. CASE /\ recording' = IF stop THEN "Stopping" ELSE recording
             /\ Settle(dismissed, alerts, spool, IF stop THEN StopRecording ELSE <<>>)
    <3>1. Harmless(IF stop THEN StopRecording ELSE <<>>)
      BY HarmlessLists
    <3>2. /\ Settled(alerts, spool) /\ SameEvent(dismissed, event')
          /\ Nothing("StartRecording") /\ Nothing("StartCall")
          /\ shuttingDown' => StartsNothing
      BY <2>2, <2>4, <2>5, <2>9, <3>1, SettleQuietly
    <3>3. recording' \in RecordingState
      BY <2>2, <2>9 DEF RecordingState
    <3>4. CoreOK'
      BY <2>2, <3>2, <3>3, TypesFromSettled
    <3> QED  BY <2>1, <2>4, <2>5, <2>6, <2>9, <3>2, <3>4
  <2> QED  BY <2>1, <2>7, <2>8, <2>9
<1> QED  BY <1>1, <1>2

\* A handler that does nothing but change a queue.
LEMMA QueueEventContract ==
  ASSUME CoreOK, NEW q, QueueOK(q), NEW s, SpoolOK(s), Lapse,
         online' \in BOOLEAN, fault' \in BOOLEAN,
         UNCHANGED <<camera, shuttingDown>>,
         Settle(event, q, s, <<>>)
  PROVE  /\ CoreOK' /\ Settled(q, s) /\ CameraUntouched
         /\ shuttingDown => StartsNothing
<1>1. /\ EventOK(event) /\ shuttingDown' \in BOOLEAN
      /\ UNCHANGED <<viewers, recording, deferred, shuttingDown>>
  BY DEF CoreOK, CoreTypeOK, EventOK, camera
<1>2. /\ Settled(q, s) /\ SameEvent(event, event')
      /\ Nothing("StartRecording") /\ Nothing("StartCall")
      /\ shuttingDown' => StartsNothing
  BY <1>1, HarmlessLists, SettleQuietly
<1>3. cooldown' \in Timer /\ pressWindow' \in Timer /\ ringLed' \in Timer
  BY LapsedType DEF CoreOK, CoreTypeOK, Lapse
<1>4. viewers' \subseteq Peer /\ recording' \in RecordingState /\ deferred' \in Peer \cup {None}
  BY <1>1 DEF CoreOK, CoreTypeOK
<1>5. CoreOK'
  BY <1>1, <1>2, <1>3, <1>4, TypesFromSettled
<1> QED  BY <1>1, <1>2, <1>5 DEF CameraUntouched, camera

\* The end of an upload leaves the camera and the alerts alone.
LEMMA UploadFinishedContract ==
  ASSUME CoreOK, NEW id, NEW ok \in BOOLEAN, UploadFinished(id, ok)
  PROVE  /\ CoreOK' /\ CameraUntouched
         /\ Settled(alerts, UploadAnswered(spool, id, ok))
         /\ ~ UploadAnswered(spool, id, ok).inFlight
         /\ shuttingDown => StartsNothing
<1>1. QueueOK(alerts) /\ SpoolOK(spool)
  BY DEF CoreOK
<1>2. SpoolOK(UploadAnswered(spool, id, ok)) /\ ~ UploadAnswered(spool, id, ok).inFlight
  BY <1>1, UploadAnsweredProperties DEF SpoolOK
<1>3. /\ Lapse /\ online' \in BOOLEAN /\ fault' \in BOOLEAN
      /\ UNCHANGED <<camera, shuttingDown>>
      /\ Settle(event, alerts, UploadAnswered(spool, id, ok), <<>>)
  BY DEF UploadFinished, link, CoreOK, CoreTypeOK
<1> QED  BY <1>1, <1>2, <1>3, QueueEventContract

\* An answer to the alert in flight ends its flight.
LEMMA AlertResultContract ==
  ASSUME CoreOK, NEW id, NEW kind, NEW outcome, AlertResult(id, kind, outcome)
  PROVE  /\ CoreOK' /\ CameraUntouched
         /\ Settled(AlertAnswered(alerts, id, kind, outcome), spool)
         /\ AlertAnswered(alerts, id, kind, outcome).inFlight =>
              /\ alerts.inFlight
              /\ Head(alerts.entries).id # id \/ Head(alerts.entries).kind # kind
         /\ shuttingDown => StartsNothing
<1> DEFINE q == AlertAnswered(alerts, id, kind, outcome)
<1>1. QueueOK(alerts) /\ SpoolOK(spool) /\ alerts \in AlertQueueType
  BY DEF CoreOK, QueueOK
<1>2. /\ q \in AlertQueueType
      /\ Len(q.entries) <= Len(alerts.entries)
      /\ q.inFlight =>
           /\ q = alerts
           /\ \/ alerts.entries = <<>>
              \/ Head(alerts.entries).id # id \/ Head(alerts.entries).kind # kind
  BY <1>1, AlertAnsweredProperties
<1>3. Settle(event, q, spool, <<>>)
  BY DEF AlertResult
<1> HIDE DEF q
<1>4. QueueOK(q)
  <2>1. Len(q.entries) \in Nat /\ Len(alerts.entries) \in Nat /\ QueueLimit \in Nat
    BY <1>1, <1>2, QueueFields, LenProperties, AlertQueueAssumption DEF QueueLimit
  <2> QED  BY <2>1, <1>1, <1>2 DEF QueueOK
<1>5. /\ Lapse /\ online' \in BOOLEAN /\ fault' \in BOOLEAN
      /\ UNCHANGED <<camera, shuttingDown>>
  BY DEF AlertResult, link, CoreOK, CoreTypeOK
<1>6. /\ CoreOK' /\ Settled(q, spool) /\ CameraUntouched
      /\ shuttingDown => StartsNothing
  BY <1>1, <1>3, <1>4, <1>5, QueueEventContract
<1> QED  BY <1>1, <1>2, <1>6 DEF q, QueueOK

\* The link coming up leaves the camera alone.
LEMMA ServerOnlineContract ==
  ASSUME CoreOK, ServerOnline
  PROVE  /\ CoreOK' /\ CameraUntouched /\ Settled(alerts, spool)
         /\ shuttingDown => StartsNothing
<1>1. /\ QueueOK(alerts) /\ SpoolOK(spool)
      /\ Lapse /\ online' \in BOOLEAN /\ fault' \in BOOLEAN
      /\ UNCHANGED <<camera, shuttingDown>>
      /\ Settle(event, alerts, spool, <<>>)
  BY DEF CoreOK, ServerOnline
<1> QED  BY <1>1, QueueEventContract

\* A dropped link leaves nothing in flight.
LEMMA ServerOfflineContract ==
  ASSUME CoreOK, NEW permanent \in BOOLEAN, ServerOffline(permanent)
  PROVE  /\ CoreOK' /\ CameraUntouched
         /\ Settled(AlertLinkLost(alerts), UploadLinkLost(spool))
         /\ ~ AlertLinkLost(alerts).inFlight /\ ~ UploadLinkLost(spool).inFlight
         /\ shuttingDown => StartsNothing
<1>1. QueueOK(alerts) /\ SpoolOK(spool)
  BY DEF CoreOK
<1>2. QueueOK(AlertLinkLost(alerts)) /\ ~ AlertLinkLost(alerts).inFlight
  BY <1>1, AlertLinkLostProperties DEF QueueOK
<1>3. SpoolOK(UploadLinkLost(spool)) /\ ~ UploadLinkLost(spool).inFlight
  BY <1>1, UploadLinkLostProperties DEF SpoolOK
<1>4. /\ Lapse /\ online' \in BOOLEAN /\ fault' \in BOOLEAN
      /\ UNCHANGED <<camera, shuttingDown>>
      /\ Settle(event, AlertLinkLost(alerts), UploadLinkLost(spool), <<>>)
  BY DEF CoreOK, CoreTypeOK, ServerOffline
<1> QED  BY <1>2, <1>3, <1>4, QueueEventContract

\* A shutdown ends every call, and the recording if one is being made.
LEMMA ShutdownContract ==
  ASSUME CoreOK, Shutdown
  PROVE  /\ CoreOK' /\ Settled(alerts, spool)
         /\ shuttingDown' /\ viewers' = {} /\ deferred' = None
         /\ recording' = IF recording = "Active" THEN "Stopping" ELSE recording
         /\ SameEvent(event, event')
         /\ StartsNothing
<1> DEFINE stop == recording = "Active"
           e    == IF stop THEN CutShort(event) ELSE event
           a    == IF stop THEN StopRecording ELSE <<>>
           b    == IF viewers # {} THEN <<<<"StopCall">>>> ELSE <<>>
           c    == IF led = "Off" THEN <<<<"SetLed", "Off">>>> ELSE <<>>
           acts == a \o b \o c
<1>1. /\ Lapse /\ shuttingDown' = TRUE
      /\ recording' = IF stop THEN "Stopping" ELSE recording
      /\ viewers' = {} /\ deferred' = None
      /\ UNCHANGED <<online, fault>>
      /\ Settle(e, alerts, spool, acts)
  BY DEF Shutdown, DropViewers, link
<1>2. /\ QueueOK(alerts) /\ SpoolOK(spool) /\ EventOK(event)
      /\ online' \in BOOLEAN /\ fault' \in BOOLEAN
      /\ recording' \in RecordingState
      /\ cooldown' \in Timer /\ pressWindow' \in Timer /\ ringLed' \in Timer
  BY <1>1, LapsedType DEF CoreOK, CoreTypeOK, EventOK, Lapse, RecordingState
<1>3. EventOK(e) /\ SameEvent(event, e)
  <2>1. CASE event = None
    BY <2>1 DEF CutShort, EventOK, SameEvent
  <2>2. CASE event # None
    <3>1. [event EXCEPT !.cutShort = TRUE] \in ActiveEvent
      BY <1>2, <2>2 DEF EventOK, ActiveEvent
    <3>2. [event EXCEPT !.cutShort = TRUE].id = event.id
      BY <1>2, <2>2 DEF EventOK, ActiveEvent
    <3> QED  BY <1>2, <2>2, <3>1, <3>2, OptionalAssumption DEF EventOK, SameEvent, CutShort
  <2> QED  BY <2>1, <2>2
<1>4. Harmless(acts)
  <2>1. Harmless(a) /\ Harmless(b) /\ Harmless(c)
    BY HarmlessLists DEF LedPattern
  <2> HIDE DEF a, b, c
  <2>2. Harmless(a \o b)
    BY <2>1, HarmlessConcat
  <2> DEFINE ab == a \o b
  <2> HIDE DEF ab
  <2>3. Harmless(ab \o c)
    BY <2>1, <2>2, HarmlessConcat DEF ab
  <2> QED  BY <2>3 DEF ab
<1> HIDE DEF e, acts
<1>5. /\ Settled(alerts, spool) /\ SameEvent(e, event')
      /\ shuttingDown' => StartsNothing
  BY <1>1, <1>2, <1>3, <1>4, SettleQuietly
<1>6. CoreOK'
  BY <1>1, <1>2, <1>5, TypesFromSettled
<1> QED  BY <1>1, <1>3, <1>5, <1>6 DEF SameEvent

\* Time changes no owner, no queue's contents and nothing in flight.
LEMMA TimePassesContract ==
  ASSUME CoreOK, TimePasses
  PROVE  /\ CoreOK'
         /\ UNCHANGED <<viewers, recording, deferred, shuttingDown>>
         /\ SameEvent(event, event')
         /\ alerts'.inFlight = alerts.inFlight
         /\ alerts.inFlight => /\ alerts'.entries # <<>>
                               /\ alerts'.entries[1].id = alerts.entries[1].id
                               /\ alerts'.entries[1].kind = alerts.entries[1].kind
         /\ spool'.inFlight = spool.inFlight /\ spool'.clips = spool.clips
         /\ out' = <<>>
<1>1. /\ cooldown' \in Timer /\ pressWindow' \in Timer /\ ringLed' \in Timer
  BY DEF CoreOK, CoreTypeOK, TimePasses, Closer, Timer
<1>2. EventOK(event') /\ SameEvent(event, event')
  <2>1. CASE Holding(event)
    <3> DEFINE h == [due |-> Closer(event.held.due), age |-> Older(event.held.age)]
    <3>1. event \in ActiveEvent /\ event.held \in Held
      BY <2>1 DEF CoreOK, CoreTypeOK, Holding, ActiveEvent
    <3>2. h \in Held
      <4>1. Closer(event.held.due) \in Nat
        BY <3>1 DEF Held, Closer
      <4>2. Older(event.held.age) \in 0 .. AlertMaxAge
        <5>1. event.held.age \in 0 .. AlertMaxAge
          BY <3>1 DEF Held
        <5> QED  BY <5>1, AlertQueueAssumption DEF Older
      <4> QED  BY <4>1, <4>2 DEF Held
    <3>3. event' = [event EXCEPT !.held = h]
      BY <2>1 DEF TimePasses, EventOlder
    <3> HIDE DEF h
    <3>4. event' \in ActiveEvent /\ event'.id = event.id
      BY <3>1, <3>2, <3>3 DEF ActiveEvent
    <3> QED  BY <3>1, <3>4, OptionalAssumption DEF EventOK, SameEvent
  <2>2. CASE ~ Holding(event)
    BY <2>2 DEF TimePasses, EventOlder, CoreOK, CoreTypeOK, EventOK, SameEvent
  <2> QED  BY <2>1, <2>2
<1>3. alerts \in AlertQueueType /\ QueueOK(alerts)
  BY DEF CoreOK, QueueOK
<1>4. /\ AlertsOlder(alerts) \in AlertQueueType
      /\ AlertsOlder(alerts).inFlight = alerts.inFlight
      /\ Len(AlertsOlder(alerts).entries) = Len(alerts.entries)
      /\ \A i \in 1 .. Len(alerts.entries) :
           /\ AlertsOlder(alerts).entries[i].id = alerts.entries[i].id
           /\ AlertsOlder(alerts).entries[i].kind = alerts.entries[i].kind
  BY <1>3, AlertsOlderProperties
<1>5. /\ QueueOK(alerts')
      /\ alerts'.inFlight = alerts.inFlight
      /\ alerts.inFlight => /\ alerts'.entries # <<>>
                            /\ alerts'.entries[1].id = alerts.entries[1].id
                            /\ alerts'.entries[1].kind = alerts.entries[1].kind
  <2>1. alerts' = AlertsOlder(alerts)
    BY DEF TimePasses
  <2>2. alerts.entries \in Seq(Alert) /\ alerts'.entries \in Seq(Alert)
        /\ Len(alerts.entries) \in Nat
    BY <1>3, <1>4, <2>1, QueueFields, LenProperties
  <2>3. alerts.inFlight => Len(alerts.entries) >= 1
    BY <1>3, <2>2, EmptySeq DEF QueueOK
  <2>4. alerts.inFlight => alerts'.entries # <<>> /\ 1 \in 1 .. Len(alerts.entries)
    BY <1>4, <2>1, <2>2, <2>3, EmptySeq
  <2> QED  BY <1>3, <1>4, <2>1, <2>4 DEF QueueOK
<1>6. SpoolOK(spool') /\ spool'.inFlight = spool.inFlight /\ spool'.clips = spool.clips
  <2>1. spool' = SpoolOlder(spool) /\ SpoolOK(spool)
    BY DEF TimePasses, CoreOK
  <2> QED  BY <2>1, SpoolOlderProperties DEF SpoolOK
<1>7. /\ UNCHANGED <<viewers, recording, deferred, online, fault, led, shuttingDown>>
      /\ out' = <<>>
  BY DEF TimePasses, camera, link
<1>8. CoreOK'
  BY <1>1, <1>2, <1>5, <1>6, <1>7 DEF CoreOK, CoreTypeOK, EventOK, QueueOK, SpoolOK
<1> QED  BY <1>2, <1>5, <1>6, <1>7, <1>8
-----------------------------------------------------------------------------
(* The end of a recording.                                                 *)

\* The clips that make room are discarded, which starts nothing.
LEMMA DiscardsHarmless ==
  ASSUME NEW gone \in Seq(Clip)
  PROVE  Harmless([i \in 1 .. Len(gone) |-> <<"DiscardClip", gone[i].id>>])
<1> DEFINE d == [i \in 1 .. Len(gone) |-> <<"DiscardClip", gone[i].id>>]
<1>1. Len(gone) \in Nat /\ gone \in [1 .. Len(gone) -> Clip]
  BY LenProperties
<1>2. \A i \in 1 .. Len(gone) :
        <<"DiscardClip", gone[i].id>> \in Action /\ d[i][1] = "DiscardClip"
  <2> TAKE i \in 1 .. Len(gone)
  <2>1. gone[i].id \in EventId
    BY <1>1 DEF Clip
  <2> QED  BY <2>1, ActionForms
<1>3. d \in [1 .. Len(gone) -> Action]
  BY <1>2
<1>4. d \in Seq(Action) /\ Len(d) = Len(gone)
  <2> HIDE DEF d
  <2> QED  BY <1>1, <1>3
<1> HIDE DEF d
<1>5. Harmless(d)
  BY <1>2, <1>4 DEF Harmless, AskedOf
<1> QED  BY <1>5 DEF d

\* A held alert that goes out when its recording ends.
LEMMA FlushOK ==
  ASSUME CoreOK
  PROVE  LET queued == FlushHeld(alerts)
             pumped == IF Holding(event)
                         THEN PumpAlerts(queued, online, shuttingDown) ELSE queued
             sent   == IF Holding(event)
                         THEN AlertSent(queued, online, shuttingDown) ELSE <<>>
         IN  /\ QueueOK(pumped) /\ sent \in Seq(Action)
             /\ Transmits(alerts, pumped, sent)
             /\ \A what : what # "SendAlert" => AskedOf(what, sent) = {}
             /\ shuttingDown => AskedOf("SendAlert", sent) = {}
<1> DEFINE queued == FlushHeld(alerts)
           pumped == PumpAlerts(queued, online, shuttingDown)
           sent   == AlertSent(queued, online, shuttingDown)
<1>1. /\ QueueOK(alerts) /\ EventOK(event)
      /\ online \in BOOLEAN /\ shuttingDown \in BOOLEAN
  BY DEF CoreOK, CoreTypeOK, EventOK
<1>2. <<>> \in Seq(Action) /\ AskedOf("SendAlert", <<>>) = {}
  BY AskedOfNothing
<1>3. Transmits(alerts, alerts, <<>>)
  BY <1>1, <1>2, SameQueue
<1>4. CASE ~ Holding(event)
  <2>1. queued = alerts
    BY <1>4 DEF FlushHeld
  <2> QED  BY <1>1, <1>2, <1>3, <1>4, <2>1, AskedOfNothing
<1>5. CASE Holding(event)
  <2>1. HeldAlert(event, NoFaces) \in Alert
    BY <1>1, <1>5, HoldingFields, CoreAssumption
  <2>2. QueueOK(queued) /\ SameFlight(alerts, queued)
    <3>1. queued = PushAlert(alerts, HeldAlert(event, NoFaces))
      BY <1>5 DEF FlushHeld
    <3> QED  BY <1>1, <2>1, <3>1, PushOK
  <2> HIDE DEF queued
  <2>3. /\ QueueOK(pumped) /\ sent \in Seq(Action)
        /\ Transmits(queued, pumped, sent)
    BY <1>1, <2>2, PumpOK
  <2>4. \A what : what # "SendAlert" => AskedOf(what, sent) = {}
    BY <1>1, <2>2, PumpOK
  <2>5. shuttingDown => sent = <<>>
    BY <1>1, <2>2, PumpOK
  <2>6. Transmits(alerts, pumped, sent)
    BY <2>2, <2>3 DEF Transmits, SameFlight
  <2> HIDE DEF pumped, sent
  <2>7. /\ QueueOK(pumped) /\ sent \in Seq(Action)
        /\ Transmits(alerts, pumped, sent)
        /\ \A what : what # "SendAlert" => AskedOf(what, sent) = {}
        /\ shuttingDown => AskedOf("SendAlert", sent) = {}
    BY <1>2, <2>3, <2>4, <2>5, <2>6
  <2> QED  BY <1>5, <2>7 DEF queued, pumped, sent
<1> QED  BY <1>4, <1>5

\* The camera goes to the viewer who was waiting, if one was.
LEMMA RecordingFinishedContract ==
  ASSUME CoreOK, NEW id \in EventId, NEW file,
         file.bytes \in Nat, RecordingFinished(id, file),
         shuttingDown => deferred = None
  PROVE  /\ CoreOK' /\ Settled(alerts, spool)
         /\ recording' = "Idle" /\ event' = None /\ deferred' = None
         /\ UNCHANGED shuttingDown
         /\ viewers' = viewers \cup (IF deferred = None THEN {} ELSE {deferred})
         /\ Nothing("StartRecording")
         /\ AskedOf("StartCall", out')
              = IF deferred = None THEN {} ELSE {<<"StartCall", deferred>>}
         /\ shuttingDown => StartsNothing
<1> DEFINE queued == FlushHeld(alerts)
           pumped == IF Holding(event)
                       THEN PumpAlerts(queued, online, shuttingDown) ELSE queued
           sent   == IF Holding(event)
                       THEN AlertSent(queued, online, shuttingDown) ELSE <<>>
           keep   == /\ file.ok /\ file.bytes > 0 /\ file.long
                     /\ event # None
                     /\ event.id = id
                     /\ ~ event.unwanted
           clip   == [id |-> id, kind |-> event.kind, bytes |-> file.bytes,
                      partial |-> event.cutShort]
           gone   == IF keep THEN ClipsDropped(spool, clip) ELSE <<>>
           drops  == IF keep
                       THEN [i \in 1 .. Len(gone) |-> <<"DiscardClip", gone[i].id>>]
                       ELSE IF file.exists THEN <<<<"DiscardClip", id>>>> ELSE <<>>
           call   == IF deferred = None THEN <<>> ELSE <<<<"StartCall", deferred>>>>
           s      == IF keep THEN AddClip(spool, clip) ELSE spool
           acts   == sent \o drops \o call
<1>1. /\ Lapse /\ GrantCamera /\ UNCHANGED <<online, fault, shuttingDown>>
      /\ Settle(None, pumped, s, acts)
  BY DEF RecordingFinished, link
<1>2. /\ QueueOK(pumped) /\ sent \in Seq(Action)
      /\ Transmits(alerts, pumped, sent)
      /\ \A what : what # "SendAlert" => AskedOf(what, sent) = {}
      /\ shuttingDown => AskedOf("SendAlert", sent) = {}
  BY FlushOK
<1>3. /\ SpoolOK(s) /\ s.inFlight = spool.inFlight
      /\ s.inFlight => s.clips[1] = spool.clips[1]
      /\ Harmless(drops)
  <2>1. CASE keep
    <3>1. event \in ActiveEvent
      BY <2>1 DEF CoreOK, CoreTypeOK
    <3>2. clip \in Clip
      BY <3>1 DEF Clip, ActiveEvent
    <3>3. spool \in SpoolType /\ (spool.inFlight => spool.clips # <<>>)
      BY DEF CoreOK, SpoolOK
    <3>4. /\ AddClip(spool, clip) \in SpoolType
          /\ AddClip(spool, clip).inFlight = spool.inFlight
          /\ spool.inFlight => /\ AddClip(spool, clip).clips # <<>>
                               /\ AddClip(spool, clip).clips[1] = spool.clips[1]
          /\ ClipsDropped(spool, clip) \in Seq(Clip)
      <4> HIDE DEF clip
      <4> QED  BY <3>2, <3>3, AddClipProperties
    <3>5. s = AddClip(spool, clip) /\ gone = ClipsDropped(spool, clip)
      BY <2>1
    <3>6. Harmless(drops)
      <4>1. drops = [i \in 1 .. Len(gone) |-> <<"DiscardClip", gone[i].id>>]
        BY <2>1
      <4>2. gone \in Seq(Clip)
        BY <3>4, <3>5
      <4> HIDE DEF gone
      <4> QED  BY <4>1, <4>2, DiscardsHarmless
    <3> HIDE DEF s, drops
    <3> QED  BY <3>4, <3>5, <3>6 DEF SpoolOK
  <2>2. CASE ~ keep
    <3>1. s = spool /\ SpoolOK(spool)
      BY <2>2 DEF CoreOK
    <3>2. drops = IF file.exists THEN <<<<"DiscardClip", id>>>> ELSE <<>>
      BY <2>2
    <3>3. Harmless(<<<<"DiscardClip", id>>>>) /\ Harmless(<<>>)
      <4> DEFINE a == <<"DiscardClip", id>>
      <4>1. a \in Action /\ a[1] = "DiscardClip"
        BY ActionForms
      <4> HIDE DEF a
      <4>2. Harmless(<<a>>)
        BY <4>1, SingleAction, AskedOfOne DEF Harmless
      <4> QED  BY <4>2, HarmlessLists DEF a
    <3> HIDE DEF s, drops
    <3> QED  BY <3>1, <3>2, <3>3
  <2> QED  BY <2>1, <2>2
<1>4. /\ call \in Seq(Action)
      /\ \A what : AskedOf(what, call) =
           IF deferred # None /\ what = "StartCall" THEN {<<"StartCall", deferred>>} ELSE {}
  <2>1. CASE deferred = None
    <3>1. call = <<>> /\ <<>> \in Seq(Action)
      BY <2>1
    <3> QED  BY <2>1, <3>1, AskedOfNothing
  <2>2. CASE deferred # None
    <3> DEFINE a == <<"StartCall", deferred>>
    <3>1. deferred \in Peer
      BY <2>2 DEF CoreOK, CoreTypeOK
    <3>2. a \in Action /\ a[1] = "StartCall" /\ call = <<a>>
      BY <2>2, <3>1, ActionForms
    <3> HIDE DEF a, call
    <3>3. call \in Seq(Action) /\ \A what : AskedOf(what, call) = IF what = "StartCall" THEN {a} ELSE {}
      BY <3>2, SingleAction, AskedOfOne
    <3> QED  BY <2>2, <3>3 DEF a
  <2> QED  BY <2>1, <2>2
<1> HIDE DEF pumped, sent, drops, call, s, keep, gone
<1>5. /\ acts \in Seq(Action)
      /\ \A what : AskedOf(what, acts)
            = AskedOf(what, sent) \cup AskedOf(what, drops) \cup AskedOf(what, call)
  <2> DEFINE x == sent \o drops
  <2>1. drops \in Seq(Action)
    BY <1>3 DEF Harmless
  <2>2. x \in Seq(Action) /\ \A what : AskedOf(what, x) = AskedOf(what, sent) \cup AskedOf(what, drops)
    BY <1>2, <2>1, AskedOfConcat
  <2>3. acts = x \o call
    OBVIOUS
  <2> HIDE DEF x, acts
  <2> QED  BY <1>4, <2>2, <2>3, AskedOfConcat
<1>6. /\ AskedOf("StartRecording", acts) = {} /\ AskedOf("UploadClip", acts) = {}
      /\ AskedOf("SendAlert", acts) = AskedOf("SendAlert", sent)
      /\ AskedOf("StartCall", acts)
           = IF deferred = None THEN {} ELSE {<<"StartCall", deferred>>}
  BY <1>2, <1>3, <1>4, <1>5 DEF Harmless
<1> HIDE DEF acts
<1>7. Transmits(alerts, pumped, acts)
  BY <1>2, <1>6 DEF Transmits
<1>8. EventOK(None) /\ online' \in BOOLEAN /\ shuttingDown' \in BOOLEAN /\ fault' \in BOOLEAN
  BY <1>1 DEF EventOK, CoreOK, CoreTypeOK
<1>9. /\ EventOK(event') /\ SameEvent(None, event')
      /\ QueueOK(alerts') /\ SpoolOK(spool') /\ led' \in LedPattern
      /\ out' \in Seq(Action)
      /\ Transmits(alerts, alerts', out')
      /\ Uploads(s, spool', out')
      /\ \A what \in {"StartRecording", "StartCall"} :
           AskedOf(what, out') = AskedOf(what, acts)
      /\ shuttingDown' /\ AskedOf("SendAlert", acts) = {} =>
           \A what \in {"SendAlert", "UploadClip"} : AskedOf(what, out') = {}
  BY <1>1, <1>2, <1>3, <1>5, <1>6, <1>7, <1>8, SettleContract
<1>10. Settled(alerts, spool) /\ event' = None
  BY <1>3, <1>9 DEF Settled, Uploads, SameEvent
<1>11. /\ recording' = "Idle" /\ deferred' = None
       /\ viewers' = viewers \cup (IF deferred = None THEN {} ELSE {deferred})
  BY <1>1 DEF GrantCamera
<1>12. /\ viewers' \subseteq Peer /\ recording' \in RecordingState
       /\ deferred' \in Peer \cup {None}
       /\ cooldown' \in Timer /\ pressWindow' \in Timer /\ ringLed' \in Timer
  BY <1>1, <1>11, LapsedType DEF CoreOK, CoreTypeOK, Lapse, RecordingState
<1>13. CoreOK'
  BY <1>8, <1>10, <1>12, TypesFromSettled
<1>14. shuttingDown => StartsNothing
  BY <1>1, <1>2, <1>6, <1>9 DEF StartsNothing, Nothing
<1> QED  BY <1>1, <1>6, <1>9, <1>10, <1>11, <1>13, <1>14 DEF Nothing

-----------------------------------------------------------------------------
(* The daemon's invariant.                                                 *)

NobodyAfterShutdown == shuttingDown => viewers = {} /\ deferred = None

IInv ==
  /\ TypeOK
  /\ CoreOK
  /\ CameraOwnership
  /\ FrontInFlight
  /\ UploadInFlight
  /\ NobodyAfterShutdown

QuietStep == shuttingDown => StartsNothing

-----------------------------------------------------------------------------
(* What the backends make of the actions.                                  *)

\* What the backends become once the actions returned are carried out.
LEMMA ReactContract ==
  ASSUME out' \in Seq(Action),
         NEW recorder0 \in Recording \cup {None}, NEW calls0 \in SUBSET Peer,
         NEW uploading0 \in EventId \cup {None}, NEW unanswered0 \in Sent \cup {None},
         React(recorder0, calls0, uploading0, unanswered0)
  PROVE  /\ recorder' \in Recording \cup {None}
         /\ Nothing("StartRecording") => recorder' = recorder0
         /\ \A id, looking : AskedOf("StartRecording", out') = {<<"StartRecording", id, looking>>}
              => recorder' = [id |-> id, looking |-> looking]
         /\ calls' \subseteq Peer
         /\ Nothing("StartCall") => calls' = calls0
         /\ \A peer : AskedOf("StartCall", out') = {<<"StartCall", peer>>}
              => calls' = calls0 \cup {peer}
         /\ uploading' \in EventId \cup {None}
         /\ refused' \in EventId \cup {None}
         /\ unanswered' \in Sent \cup {None}
         /\ running' \in BOOLEAN
<1>1. \A what : AskedOf(what, out') = Asked(what)'
  BY DEF Asked, AskedOf
<1>2. \A what, a : a \in AskedOf(what, out') => a \in Action /\ a[1] = what
  BY AskedOfType
<1>3. /\ recorder' = IF \E a \in AskedOf("StartRecording", out') : TRUE
                       THEN LET a == CHOOSE a \in AskedOf("StartRecording", out') : TRUE
                            IN  [id |-> a[2], looking |-> a[3]]
                       ELSE recorder0
      /\ calls' = calls0 \cup {a[2] : a \in AskedOf("StartCall", out')}
      /\ unanswered' = IF \E a \in AskedOf("SendAlert", out') : TRUE
                         THEN LET a == CHOOSE a \in AskedOf("SendAlert", out') : TRUE
                              IN  [id |-> a[2].id, kind |-> a[2].kind]
                         ELSE unanswered0
      /\ LET asked == {a[2].id : a \in AskedOf("UploadClip", out')}
         IN  /\ uploading' = IF asked = {} \/ uploading0 # None
                               THEN uploading0 ELSE CHOOSE id \in asked : TRUE
             /\ refused' = IF asked = {} \/ uploading0 = None
                             THEN None ELSE CHOOSE id \in asked : TRUE
      /\ running' \in BOOLEAN
  BY DEF React, Asked, AskedOf, LoopStops
<1>4. /\ recorder' \in Recording \cup {None}
      /\ Nothing("StartRecording") => recorder' = recorder0
      /\ \A id, looking : AskedOf("StartRecording", out') = {<<"StartRecording", id, looking>>}
           => recorder' = [id |-> id, looking |-> looking]
  <2> DEFINE S == AskedOf("StartRecording", out')
  <2>1. \A a \in S : a[2] \in EventId /\ a[3] \in BOOLEAN
    BY <1>2, ActionFields
  <2>2. recorder' = IF \E a \in S : TRUE
                      THEN LET a == CHOOSE a \in S : TRUE IN [id |-> a[2], looking |-> a[3]]
                      ELSE recorder0
    BY <1>3
  <2> HIDE DEF S
  <2>3. recorder' \in Recording \cup {None}
    <3>1. CASE \E a \in S : TRUE
      <4>1. PICK a \in S : recorder' = [id |-> a[2], looking |-> a[3]]
        BY <2>2, <3>1
      <4> QED  BY <4>1, <2>1 DEF Recording
    <3>2. CASE ~ (\E a \in S : TRUE)
      BY <3>2, <2>2
    <3> QED  BY <3>1, <3>2
  <2>4. S = {} => recorder' = recorder0
    BY <2>2
  <2>5. ASSUME NEW id, NEW looking, S = {<<"StartRecording", id, looking>>}
        PROVE  recorder' = [id |-> id, looking |-> looking]
    <3>1. PICK a \in S : recorder' = [id |-> a[2], looking |-> a[3]]
      BY <2>2, <2>5
    <3> QED  BY <3>1, <2>5
  <2> QED  BY <2>3, <2>4, <2>5 DEF S, Nothing
<1>5. /\ calls' \subseteq Peer
      /\ Nothing("StartCall") => calls' = calls0
      /\ \A peer : AskedOf("StartCall", out') = {<<"StartCall", peer>>}
           => calls' = calls0 \cup {peer}
  <2> DEFINE S == AskedOf("StartCall", out')
  <2>1. \A a \in S : a[2] \in Peer
    BY <1>2, ActionFields
  <2>2. calls' = calls0 \cup {a[2] : a \in S}
    BY <1>3
  <2> HIDE DEF S
  <2>3. calls' \subseteq Peer
    BY <2>1, <2>2
  <2>4. S = {} => calls' = calls0
    BY <2>2
  <2>5. ASSUME NEW peer, S = {<<"StartCall", peer>>}
        PROVE  calls' = calls0 \cup {peer}
    <3> DEFINE a == <<"StartCall", peer>>
    <3>1. S = {a} /\ a[2] = peer
      BY <2>5
    <3> HIDE DEF a
    <3> QED  BY <3>1, <2>2
  <2> QED  BY <2>3, <2>4, <2>5 DEF S, Nothing
<1>6. unanswered' \in Sent \cup {None}
  <2>1. \A a \in AskedOf("SendAlert", out') : a[2] \in Alert
    BY <1>2, ActionFields
  <2>2. CASE \E a \in AskedOf("SendAlert", out') : TRUE
    <3>1. PICK a \in AskedOf("SendAlert", out') :
            unanswered' = [id |-> a[2].id, kind |-> a[2].kind]
      BY <1>3, <2>2
    <3> QED  BY <3>1, <2>1 DEF Sent, Alert
  <2> QED  BY <2>2, <1>3
<1>7. uploading' \in EventId \cup {None} /\ refused' \in EventId \cup {None}
  <2> DEFINE asked == {a[2].id : a \in AskedOf("UploadClip", out')}
  <2>1. \A a \in AskedOf("UploadClip", out') : a[2] \in Clip
    BY <1>2, ActionFields
  <2>2. asked \subseteq EventId
    BY <2>1 DEF Clip
  <2>3. /\ uploading' = IF asked = {} \/ uploading0 # None
                          THEN uploading0 ELSE CHOOSE id \in asked : TRUE
        /\ refused' = IF asked = {} \/ uploading0 = None
                        THEN None ELSE CHOOSE id \in asked : TRUE
    BY <1>3
  <2> HIDE DEF asked
  <2> QED  BY <2>2, <2>3
<1> QED  BY <1>3, <1>4, <1>5, <1>6, <1>7
-----------------------------------------------------------------------------
(* What is in flight.                                                      *)

\* If the alert in flight in q is the one the link owes an answer for, it still
\* is once the actions have been carried out.
LEMMA FrontInFlightKept ==
  ASSUME out' \in Seq(Action), NEW q, QueueOK(alerts'),
         Transmits(q, alerts', out'),
         NEW recorder0, NEW calls0, NEW uploading0, NEW unanswered0,
         React(recorder0, calls0, uploading0, unanswered0),
         q.inFlight => unanswered0 = [id |-> q.entries[1].id, kind |-> q.entries[1].kind]
  PROVE  FrontInFlight'
<1>1. /\ AskedOf("SendAlert", out') = Asked("SendAlert")'
      /\ unanswered' = IF \E a \in Asked("SendAlert")' : TRUE
                         THEN LET a == CHOOSE a \in Asked("SendAlert")' : TRUE
                              IN  [id |-> a[2].id, kind |-> a[2].kind]
                         ELSE unanswered0
  BY DEF React, Asked, AskedOf
<1>2. alerts'.entries \in Seq(Alert) /\ (alerts'.inFlight => alerts'.entries # <<>>)
  BY QueueFields DEF QueueOK
<1>3. alerts'.inFlight => Head(alerts'.entries) = alerts'.entries[1]
  BY <1>2, HeadTailProperties
<1> DEFINE S == AskedOf("SendAlert", out')
           h == alerts'.entries[1]
<1>4. unanswered' = IF \E a \in S : TRUE
                      THEN LET a == CHOOSE a \in S : TRUE
                           IN  [id |-> a[2].id, kind |-> a[2].kind]
                      ELSE unanswered0
  BY <1>1
<1>5. CASE S = {} /\ SameFlight(q, alerts')
  <2>1. unanswered' = unanswered0
    <3> HIDE DEF S
    <3> QED  BY <1>4, <1>5
  <2>2. alerts'.inFlight => q.inFlight /\ h = q.entries[1]
    BY <1>5 DEF SameFlight
  <2> QED  BY <1>2, <1>3, <2>1, <2>2 DEF FrontInFlight
<1>6. CASE S = {<<"SendAlert", h>>}
  <2> DEFINE a == <<"SendAlert", h>>
  <2>1. a[2] = h /\ S = {a}
    BY <1>6
  <2> HIDE DEF S, a
  <2>2. unanswered' = [id |-> h.id, kind |-> h.kind]
    BY <1>4, <2>1
  <2> QED  BY <1>2, <1>3, <2>2 DEF FrontInFlight
<1> QED  BY <1>5, <1>6 DEF Transmits

\* The same for the clip in flight; if another one is still being sent, the
\* new one is refused.
LEMMA UploadInFlightKept ==
  ASSUME out' \in Seq(Action), NEW s, SpoolOK(spool'),
         Uploads(s, spool', out'),
         NEW recorder0, NEW calls0, NEW uploading0, NEW unanswered0,
         React(recorder0, calls0, uploading0, unanswered0),
         s.inFlight => s.clips[1].id = uploading0
  PROVE  UploadInFlight'
<1> DEFINE S == AskedOf("UploadClip", out')
           asked == {a[2].id : a \in S}
           h == spool'.clips[1]
<1>1. /\ uploading' = IF asked = {} \/ uploading0 # None
                        THEN uploading0 ELSE CHOOSE id \in asked : TRUE
      /\ refused' = IF asked = {} \/ uploading0 = None
                      THEN None ELSE CHOOSE id \in asked : TRUE
  <2>1. asked = {a[2].id : a \in Asked("UploadClip")'}
    BY DEF Asked, AskedOf
  <2> HIDE DEF asked
  <2> QED  BY <2>1 DEF React
<1>2. spool'.inFlight => spool'.clips # <<>> /\ Head(spool'.clips) = h
  BY SpoolFields, HeadTailProperties DEF SpoolOK
<1>3. CASE S = {} /\ (spool'.inFlight => s.inFlight /\ h = s.clips[1])
  <2>1. asked = {}
    BY <1>3
  <2> HIDE DEF asked
  <2>2. uploading' = uploading0
    BY <1>1, <2>1
  <2> QED  BY <1>2, <1>3, <2>2 DEF UploadInFlight
<1>4. CASE S = {<<"UploadClip", h>>}
  <2> DEFINE a == <<"UploadClip", h>>
  <2>1. S = {a} /\ a[2].id = h.id
    BY <1>4
  <2> HIDE DEF S, a
  <2>2. asked = {h.id}
    BY <2>1
  <2> HIDE DEF asked, h
  <2>3. h.id \in {uploading', refused'}
    BY <1>1, <2>2
  <2> QED  BY <1>2, <2>3 DEF UploadInFlight
<1> QED  BY <1>3, <1>4 DEF Uploads
-----------------------------------------------------------------------------
(* The invariant, put together from what a step does to its parts.         *)

\* The alert and the clip in flight are at the front and are what the link and
\* the uploader are busy with.
LEMMA InFlightNow ==
  ASSUME IInv
  PROVE  /\ alerts.inFlight =>
              unanswered = [id |-> alerts.entries[1].id, kind |-> alerts.entries[1].kind]
         /\ spool.inFlight /\ refused = None => spool.clips[1].id = uploading
<1>1. /\ alerts.entries \in Seq(Alert) /\ (alerts.inFlight => alerts.entries # <<>>)
      /\ spool.clips \in Seq(Clip) /\ (spool.inFlight => spool.clips # <<>>)
  BY QueueFields, SpoolFields DEF IInv, CoreOK, QueueOK, SpoolOK
<1>2. /\ alerts.inFlight => Head(alerts.entries) = alerts.entries[1]
      /\ spool.inFlight => /\ Head(spool.clips) = spool.clips[1]
                           /\ Head(spool.clips) \in Clip
  BY <1>1, HeadTailProperties
<1>3. spool.inFlight => Head(spool.clips).id \in EventId
  BY <1>2 DEF Clip
<1>4. None \notin EventId
  BY AbsenceAssumption
<1> QED  BY <1>2, <1>3, <1>4 DEF IInv, FrontInFlight, UploadInFlight

\* The invariant after an event that left queues q and s and backends that were
\* busy with the front of each, once camera and shutdown have been dealt with.
LEMMA InvariantKept ==
  ASSUME NEW q, NEW s, CoreOK', Settled(q, s),
         NEW recorder0 \in Recording \cup {None}, NEW calls0 \in SUBSET Peer,
         NEW uploading0 \in EventId \cup {None}, NEW unanswered0 \in Sent \cup {None},
         React(recorder0, calls0, uploading0, unanswered0),
         q.inFlight => unanswered0 = [id |-> q.entries[1].id, kind |-> q.entries[1].kind],
         s.inFlight => s.clips[1].id = uploading0,
         CameraOwnership', NobodyAfterShutdown'
  PROVE  IInv'
<1>1. /\ out' \in Seq(Action) /\ QueueOK(alerts') /\ SpoolOK(spool')
      /\ Transmits(q, alerts', out') /\ Uploads(s, spool', out')
  BY DEF Settled
<1>2. /\ recorder' \in Recording \cup {None} /\ calls' \subseteq Peer
      /\ uploading' \in EventId \cup {None} /\ refused' \in EventId \cup {None}
      /\ unanswered' \in Sent \cup {None} /\ running' \in BOOLEAN
  BY <1>1, ReactContract
<1>3. FrontInFlight'
  BY <1>1, FrontInFlightKept
<1>4. UploadInFlight'
  BY <1>1, UploadInFlightKept
<1>5. TypeOK'
  BY <1>2 DEF TypeOK, CoreOK
<1> QED  BY <1>3, <1>4, <1>5 DEF IInv

\* The camera changes hands only when it is free.
LEMMA CameraKept ==
  ASSUME IInv, out' \in Seq(Action),
         NEW uploading0 \in EventId \cup {None}, NEW unanswered0 \in Sent \cup {None},
         React(recorder, calls, uploading0, unanswered0),
         CameraUntouched \/ CameraRecords
  PROVE  CameraOwnership' /\ NobodyAfterShutdown'
<1>1. /\ recorder \in Recording \cup {None} /\ calls \in SUBSET Peer
      /\ CameraOwnership /\ NobodyAfterShutdown
  BY DEF IInv, TypeOK
<1>2. /\ Nothing("StartRecording") => recorder' = recorder
      /\ \A id, looking : AskedOf("StartRecording", out') = {<<"StartRecording", id, looking>>}
              => recorder' = [id |-> id, looking |-> looking]
      /\ Nothing("StartCall") => calls' = calls
  BY <1>1, ReactContract
<1>3. CASE CameraUntouched
  <2>1. UNCHANGED <<viewers, recording, deferred, shuttingDown, recorder, calls>>
    BY <1>2, <1>3 DEF CameraUntouched, camera
  <2>2. (event' = None <=> event = None) /\ (event # None => event'.id = event.id)
    BY <1>3 DEF CameraUntouched, SameEvent
  <2> QED  BY <1>1, <2>1, <2>2 DEF CameraOwnership, NobodyAfterShutdown
<1>4. CASE CameraRecords
  <2>1. PICK id \in EventId, looking \in BOOLEAN :
          /\ event' # None /\ event'.id = id
          /\ AskedOf("StartRecording", out') = {<<"StartRecording", id, looking>>}
    BY <1>4 DEF CameraRecords
  <2>2. recorder' = [id |-> id, looking |-> looking]
    BY <1>2, <2>1
  <2>3. recorder' # None /\ recorder'.id = id
    BY <2>2, AbsenceAssumption DEF Recording
  <2>4. /\ recording = "Idle" /\ viewers = {} /\ ~ shuttingDown
        /\ recording' = "Active" /\ calls' = calls
        /\ UNCHANGED <<viewers, deferred, shuttingDown>>
    BY <1>2, <1>4 DEF CameraRecords
  <2> QED  BY <1>1, <2>1, <2>3, <2>4 DEF CameraOwnership, NobodyAfterShutdown
<1> QED  BY <1>3, <1>4

\* A step no backend is the cause of, that leaves the camera or records.
LEMMA UndisturbedKept ==
  ASSUME IInv, Listening, Undisturbed, CoreOK', Settled(alerts, spool),
         CameraUntouched \/ CameraRecords
  PROVE  IInv'
<1>1. /\ recorder \in Recording \cup {None} /\ calls \in SUBSET Peer
      /\ uploading \in EventId \cup {None} /\ unanswered \in Sent \cup {None}
      /\ refused = None /\ out' \in Seq(Action)
      /\ React(recorder, calls, uploading, unanswered)
  BY DEF IInv, TypeOK, Listening, Settled, Undisturbed
<1>2. CameraOwnership' /\ NobodyAfterShutdown'
  BY <1>1, CameraKept
<1>3. /\ alerts.inFlight =>
           unanswered = [id |-> alerts.entries[1].id, kind |-> alerts.entries[1].kind]
      /\ spool.inFlight => spool.clips[1].id = uploading
  BY <1>1, InFlightNow
<1> QED  BY <1>1, <1>2, <1>3, InvariantKept
-----------------------------------------------------------------------------
(* One lemma per action.                                                   *)

\* The invariant is kept by a motion.
LEMMA MotionKeeps == ASSUME IInv, Motion PROVE IInv' /\ QuietStep
<1>1. PICK id \in EventId : MotionDetected(id)
  BY DEF Motion
<1>2. /\ CoreOK' /\ Settled(alerts, spool)
      /\ CameraUntouched \/ CameraRecords
      /\ shuttingDown => StartsNothing
  BY <1>1, MotionContract DEF IInv
<1> QED  BY <1>2, UndisturbedKept DEF Motion, QuietStep

\* The invariant is kept by a press.
LEMMA PressKeeps == ASSUME IInv, Press PROVE IInv' /\ QuietStep
<1>1. PICK id \in EventId : ButtonPressed(id)
  BY DEF Press
<1>2. /\ CoreOK' /\ Settled(alerts, spool)
      /\ CameraUntouched \/ CameraRecords
      /\ shuttingDown => StartsNothing
  BY <1>1, PressContract DEF IInv
<1> QED  BY <1>2, UndisturbedKept DEF Press, QuietStep

\* The invariant is kept when the timer fires.
LEMMA WakeKeeps == ASSUME IInv, Wake PROVE IInv' /\ QuietStep
<1>1. /\ CoreOK' /\ Settled(alerts, spool) /\ CameraUntouched
      /\ shuttingDown => StartsNothing
  BY IgnoredContract DEF IInv, Wake, Tick
<1> QED  BY <1>1, UndisturbedKept DEF Wake, QuietStep

\* The invariant is kept when the link comes up.
LEMMA LinkUpKeeps == ASSUME IInv, LinkUp PROVE IInv' /\ QuietStep
<1>1. /\ CoreOK' /\ CameraUntouched /\ Settled(alerts, spool)
      /\ shuttingDown => StartsNothing
  BY ServerOnlineContract DEF IInv, LinkUp
<1> QED  BY <1>1, UndisturbedKept DEF LinkUp, QuietStep

\* Nothing is in flight after the link has dropped, unless it is sent now.
LEMMA LinkDownKeeps == ASSUME IInv, LinkDown PROVE IInv' /\ QuietStep
<1>1. PICK permanent \in BOOLEAN : ServerOffline(permanent)
  BY DEF LinkDown
<1>2. /\ CoreOK' /\ CameraUntouched
      /\ Settled(AlertLinkLost(alerts), UploadLinkLost(spool))
      /\ ~ AlertLinkLost(alerts).inFlight /\ ~ UploadLinkLost(spool).inFlight
      /\ shuttingDown => StartsNothing
  BY <1>1, ServerOfflineContract DEF IInv
<1>3. /\ recorder \in Recording \cup {None} /\ calls \in SUBSET Peer
      /\ uploading \in EventId \cup {None} /\ unanswered \in Sent \cup {None}
      /\ out' \in Seq(Action) /\ React(recorder, calls, uploading, unanswered)
  BY <1>2 DEF IInv, TypeOK, LinkDown, Undisturbed, Settled
<1>4. CameraOwnership' /\ NobodyAfterShutdown'
  BY <1>2, <1>3, CameraKept
<1> QED  BY <1>2, <1>3, <1>4, InvariantKept DEF QuietStep

\* The invariant is kept when an upload ends.
LEMMA UploadEndsKeeps == ASSUME IInv, UploadEnds PROVE IInv' /\ QuietStep
<1>1. PICK ok \in BOOLEAN : UploadFinished(uploading, ok)
  BY DEF UploadEnds
<1>2. /\ CoreOK' /\ CameraUntouched
      /\ Settled(alerts, UploadAnswered(spool, uploading, ok))
      /\ ~ UploadAnswered(spool, uploading, ok).inFlight
      /\ shuttingDown => StartsNothing
  BY <1>1, UploadFinishedContract DEF IInv
<1>3. /\ recorder \in Recording \cup {None} /\ calls \in SUBSET Peer
      /\ None \in EventId \cup {None} /\ unanswered \in Sent \cup {None}
      /\ out' \in Seq(Action) /\ React(recorder, calls, None, unanswered)
  BY <1>2 DEF IInv, TypeOK, UploadEnds, Settled
<1>4. CameraOwnership' /\ NobodyAfterShutdown'
  BY <1>2, <1>3, CameraKept
<1>5. alerts.inFlight =>
        unanswered = [id |-> alerts.entries[1].id, kind |-> alerts.entries[1].kind]
  BY InFlightNow
<1> QED  BY <1>2, <1>3, <1>4, <1>5, InvariantKept DEF QuietStep

\* The invariant is kept when an upload is refused.
LEMMA UploadRefusedKeeps == ASSUME IInv, UploadRefused PROVE IInv' /\ QuietStep
<1>1. UploadFinished(refused, FALSE) /\ FALSE \in BOOLEAN
  BY DEF UploadRefused
<1>2. /\ CoreOK' /\ CameraUntouched
      /\ Settled(alerts, UploadAnswered(spool, refused, FALSE))
      /\ ~ UploadAnswered(spool, refused, FALSE).inFlight
      /\ shuttingDown => StartsNothing
  BY <1>1, UploadFinishedContract DEF IInv
<1>3. /\ recorder \in Recording \cup {None} /\ calls \in SUBSET Peer
      /\ uploading \in EventId \cup {None} /\ unanswered \in Sent \cup {None}
      /\ out' \in Seq(Action) /\ React(recorder, calls, uploading, unanswered)
  BY <1>2 DEF IInv, TypeOK, UploadRefused, Undisturbed, Settled
<1>4. CameraOwnership' /\ NobodyAfterShutdown'
  BY <1>2, <1>3, CameraKept
<1>5. alerts.inFlight =>
        unanswered = [id |-> alerts.entries[1].id, kind |-> alerts.entries[1].kind]
  BY InFlightNow
<1> QED  BY <1>2, <1>3, <1>4, <1>5, InvariantKept DEF QuietStep

\* The link's answer is to the alert in flight, so none is left unanswered.
LEMMA LinkAnswersKeeps == ASSUME IInv, LinkAnswers PROVE IInv' /\ QuietStep
<1> DEFINE id   == unanswered.id
           kind == unanswered.kind
<1>1. PICK outcome \in AlertOutcome : AlertResult(id, kind, outcome)
  BY DEF LinkAnswers
<1> DEFINE q == AlertAnswered(alerts, id, kind, outcome)
<1>2. /\ CoreOK' /\ CameraUntouched /\ Settled(q, spool)
      /\ q.inFlight =>
           /\ alerts.inFlight
           /\ Head(alerts.entries).id # id \/ Head(alerts.entries).kind # kind
      /\ shuttingDown => StartsNothing
  BY <1>1, AlertResultContract DEF IInv
<1>3. /\ recorder \in Recording \cup {None} /\ calls \in SUBSET Peer
      /\ uploading \in EventId \cup {None} /\ None \in Sent \cup {None}
      /\ refused = None
      /\ out' \in Seq(Action) /\ React(recorder, calls, uploading, None)
  BY <1>2 DEF IInv, TypeOK, LinkAnswers, Listening, Settled
<1>4. CameraOwnership' /\ NobodyAfterShutdown'
  BY <1>2, <1>3, CameraKept
<1>5. ~ q.inFlight
  <2>1. alerts.inFlight => Head(alerts.entries).id = id /\ Head(alerts.entries).kind = kind
    BY DEF IInv, FrontInFlight
  <2> HIDE DEF id, kind, q
  <2> QED  BY <1>2, <2>1
<1>6. spool.inFlight => spool.clips[1].id = uploading
  BY <1>3, InFlightNow
<1> HIDE DEF q
<1> QED  BY <1>2, <1>3, <1>4, <1>5, <1>6, InvariantKept DEF QuietStep

\* A viewer is let in only when the recorder does not have the camera.
LEMMA ViewerKeeps ==
  ASSUME IInv, NEW peer \in Peer, Viewer(peer) PROVE IInv' /\ QuietStep
<1>1. /\ CoreOK' /\ Settled(alerts, spool)
      /\ shuttingDown => CameraUntouched /\ StartsNothing
      /\ ~ shuttingDown =>
           /\ UNCHANGED shuttingDown /\ SameEvent(event, event')
           /\ Nothing("StartRecording")
           /\ \/ /\ recording # "Idle" /\ recording' = "Stopping"
                 /\ deferred' = peer /\ UNCHANGED viewers
                 /\ Nothing("StartCall")
              \/ /\ recording = "Idle" /\ viewers' = viewers \cup {peer}
                 /\ UNCHANGED <<recording, deferred>>
                 /\ AskedOf("StartCall", out') = {<<"StartCall", peer>>}
  BY ViewerContract DEF IInv, Viewer
<1>2. CASE shuttingDown
  BY <1>1, <1>2, UndisturbedKept DEF Viewer, QuietStep
<1>3. CASE ~ shuttingDown
  <2>1. /\ recorder \in Recording \cup {None} /\ calls \in SUBSET Peer
        /\ uploading \in EventId \cup {None} /\ unanswered \in Sent \cup {None}
        /\ refused = None /\ out' \in Seq(Action)
        /\ React(recorder, calls, uploading, unanswered)
        /\ CameraOwnership
    BY <1>1 DEF IInv, TypeOK, Viewer, Listening, Undisturbed, Settled
  <2>2. /\ Nothing("StartRecording") => recorder' = recorder
        /\ Nothing("StartCall") => calls' = calls
        /\ AskedOf("StartCall", out') = {<<"StartCall", peer>>} => calls' = calls \cup {peer}
    BY <2>1, ReactContract
  <2>3. /\ UNCHANGED <<recorder, shuttingDown>>
        /\ (event' = None <=> event = None) /\ (event # None => event'.id = event.id)
    BY <1>1, <1>3, <2>2 DEF SameEvent
  <2>4. ASSUME recording # "Idle", recording' = "Stopping", UNCHANGED <<viewers, calls>>
        PROVE  CameraOwnership' /\ NobodyAfterShutdown'
    BY <1>3, <2>1, <2>3, <2>4 DEF CameraOwnership, NobodyAfterShutdown
  <2>5. ASSUME recording = "Idle", viewers' = viewers \cup {peer},
               calls' = calls \cup {peer}, UNCHANGED <<recording, deferred>>
        PROVE  CameraOwnership' /\ NobodyAfterShutdown'
    BY <1>3, <2>1, <2>3, <2>5 DEF CameraOwnership, NobodyAfterShutdown
  <2>6. CameraOwnership' /\ NobodyAfterShutdown'
    BY <1>1, <1>3, <2>2, <2>4, <2>5
  <2>7. /\ alerts.inFlight =>
             unanswered = [id |-> alerts.entries[1].id, kind |-> alerts.entries[1].kind]
        /\ spool.inFlight => spool.clips[1].id = uploading
    BY <2>1, InFlightNow
  <2> QED  BY <1>1, <1>3, <2>1, <2>6, <2>7, InvariantKept DEF QuietStep
<1> QED  BY <1>2, <1>3

\* The invariant is kept when a viewer hangs up.
LEMMA HangUpKeeps ==
  ASSUME IInv, NEW peer \in Peer, HangUp(peer) PROVE IInv' /\ QuietStep
<1>1. /\ CoreOK' /\ Settled(alerts, spool)
      /\ viewers' = viewers \ {peer}
      /\ deferred' \in {deferred, None}
      /\ UNCHANGED <<recording, shuttingDown>> /\ SameEvent(event, event')
      /\ Nothing("StartRecording") /\ Nothing("StartCall")
      /\ shuttingDown => StartsNothing
  BY CallEndedContract DEF IInv, HangUp
<1>2. /\ recorder \in Recording \cup {None} /\ calls \ {peer} \in SUBSET Peer
      /\ uploading \in EventId \cup {None} /\ unanswered \in Sent \cup {None}
      /\ refused = None /\ out' \in Seq(Action)
      /\ React(recorder, calls \ {peer}, uploading, unanswered)
      /\ CameraOwnership /\ NobodyAfterShutdown
  BY <1>1 DEF IInv, TypeOK, HangUp, Listening, Settled
<1>3. recorder' = recorder /\ calls' = calls \ {peer}
  BY <1>1, <1>2, ReactContract
<1>4. (event' = None <=> event = None) /\ (event # None => event'.id = event.id)
  BY <1>1 DEF SameEvent
<1>5. CameraOwnership' /\ NobodyAfterShutdown'
  BY <1>1, <1>2, <1>3, <1>4 DEF CameraOwnership, NobodyAfterShutdown
<1>6. /\ alerts.inFlight =>
           unanswered = [id |-> alerts.entries[1].id, kind |-> alerts.entries[1].kind]
      /\ spool.inFlight => spool.clips[1].id = uploading
  BY <1>2, InFlightNow
<1> QED  BY <1>1, <1>2, <1>5, <1>6, InvariantKept DEF QuietStep
\* A verdict at most makes the recorder let go; it takes the camera from no one.
LEMMA DetectorSpeaksKeeps == ASSUME IInv, DetectorSpeaks PROVE IInv' /\ QuietStep
<1> DEFINE heard == [recorder EXCEPT !.looking = FALSE]
<1>1. PICK verdict \in Verdicts, faces \in Faces :
        DetectionResult(recorder.id, verdict, faces)
  BY DEF DetectorSpeaks
<1>2. recorder \in Recording /\ recorder # None
  BY DEF IInv, TypeOK, DetectorSpeaks
<1>3. recorder.id \in EventId /\ heard \in Recording /\ heard.id = recorder.id /\ heard # None
  BY <1>2, AbsenceAssumption DEF Recording
<1>4. /\ CoreOK' /\ Settled(alerts, spool)
      /\ UNCHANGED <<viewers, deferred, shuttingDown>>
      /\ recording' = recording \/ (recording = "Active" /\ recording' = "Stopping")
      /\ SameEvent(event, event')
      /\ Nothing("StartRecording") /\ Nothing("StartCall")
      /\ shuttingDown => StartsNothing
  BY <1>1, <1>3, DetectionContract DEF IInv
<1>5. React(heard, calls, uploading, unanswered)
  BY DEF DetectorSpeaks
<1> HIDE DEF heard
<1>6. /\ heard \in Recording \cup {None} /\ calls \in SUBSET Peer
      /\ uploading \in EventId \cup {None} /\ unanswered \in Sent \cup {None}
      /\ refused = None /\ out' \in Seq(Action)
      /\ CameraOwnership /\ NobodyAfterShutdown
  BY <1>3, <1>4 DEF IInv, TypeOK, DetectorSpeaks, Listening, Settled
<1>7. recorder' = heard /\ calls' = calls
  BY <1>4, <1>5, <1>6, ReactContract
<1>8. (event' = None <=> event = None) /\ (event # None => event'.id = event.id)
  BY <1>4 DEF SameEvent
<1>9. CameraOwnership' /\ NobodyAfterShutdown'
  BY <1>2, <1>3, <1>4, <1>6, <1>7, <1>8 DEF CameraOwnership, NobodyAfterShutdown
<1>10. /\ alerts.inFlight =>
            unanswered = [id |-> alerts.entries[1].id, kind |-> alerts.entries[1].kind]
       /\ spool.inFlight => spool.clips[1].id = uploading
  BY <1>6, InFlightNow
<1> QED  BY <1>4, <1>5, <1>6, <1>9, <1>10, InvariantKept DEF QuietStep

\* The recorder lets go and a waiting viewer gets the camera, in one step.
LEMMA RecorderEndsKeeps == ASSUME IInv, RecorderEnds PROVE IInv' /\ QuietStep
<1>1. PICK file \in Files : RecordingFinished(recorder.id, file)
  BY DEF RecorderEnds
<1>2. recorder.id \in EventId /\ file.bytes \in Nat
  BY DoorbellAssumption DEF IInv, TypeOK, RecorderEnds, Recording, File
<1>3. /\ CameraOwnership /\ NobodyAfterShutdown /\ recorder # None
      /\ calls \in SUBSET Peer /\ refused = None
      /\ uploading \in EventId \cup {None} /\ unanswered \in Sent \cup {None}
      /\ None \in Recording \cup {None}
      /\ React(None, calls, uploading, unanswered)
  BY DEF IInv, TypeOK, RecorderEnds, Listening
<1>4. /\ CoreOK' /\ Settled(alerts, spool)
      /\ recording' = "Idle" /\ event' = None /\ deferred' = None
      /\ UNCHANGED shuttingDown
      /\ viewers' = viewers \cup (IF deferred = None THEN {} ELSE {deferred})
      /\ Nothing("StartRecording")
      /\ AskedOf("StartCall", out')
           = IF deferred = None THEN {} ELSE {<<"StartCall", deferred>>}
      /\ shuttingDown => StartsNothing
  <2>1. shuttingDown => deferred = None
    BY <1>3 DEF NobodyAfterShutdown
  <2> QED  BY <1>1, <1>2, <2>1, RecordingFinishedContract DEF IInv
<1>5. out' \in Seq(Action)
  BY <1>4 DEF Settled
<1>6. /\ recorder' = None
      /\ Nothing("StartCall") => calls' = calls
      /\ \A peer : AskedOf("StartCall", out') = {<<"StartCall", peer>>}
           => calls' = calls \cup {peer}
  BY <1>3, <1>4, <1>5, ReactContract
<1>7. calls' = calls \cup (IF deferred = None THEN {} ELSE {deferred})
  <2>1. CASE deferred = None
    BY <1>4, <1>6, <2>1 DEF Nothing
  <2>2. CASE deferred # None
    BY <1>4, <1>6, <2>2
  <2> QED  BY <2>1, <2>2
<1>8. CameraOwnership' /\ NobodyAfterShutdown'
  BY <1>3, <1>4, <1>6, <1>7 DEF CameraOwnership, NobodyAfterShutdown
<1>9. /\ alerts.inFlight =>
           unanswered = [id |-> alerts.entries[1].id, kind |-> alerts.entries[1].kind]
      /\ spool.inFlight => spool.clips[1].id = uploading
  BY <1>3, InFlightNow
<1> QED  BY <1>3, <1>4, <1>8, <1>9, InvariantKept DEF QuietStep

\* The invariant is kept by a shutdown.
LEMMA SignalKeeps == ASSUME IInv, Signal PROVE IInv' /\ QuietStep
<1>1. /\ CoreOK' /\ Settled(alerts, spool)
      /\ shuttingDown' /\ viewers' = {} /\ deferred' = None
      /\ recording' = IF recording = "Active" THEN "Stopping" ELSE recording
      /\ SameEvent(event, event')
      /\ StartsNothing
  BY ShutdownContract DEF IInv, Signal
<1>2. /\ recorder \in Recording \cup {None} /\ calls \in SUBSET Peer
      /\ uploading \in EventId \cup {None} /\ unanswered \in Sent \cup {None}
      /\ refused = None /\ out' \in Seq(Action)
      /\ React(recorder, calls, uploading, unanswered)
      /\ CameraOwnership
  BY <1>1 DEF IInv, TypeOK, Signal, Listening, Undisturbed, Settled
<1>3. recorder' = recorder /\ calls' = calls
  <2>1. Nothing("StartRecording") /\ Nothing("StartCall")
    BY <1>1 DEF StartsNothing
  <2> QED  BY <1>2, <2>1, ReactContract
<1>4. (event' = None <=> event = None) /\ (event # None => event'.id = event.id)
  BY <1>1 DEF SameEvent
<1>5. CameraOwnership' /\ NobodyAfterShutdown'
  BY <1>1, <1>2, <1>3, <1>4 DEF CameraOwnership, NobodyAfterShutdown
<1>6. /\ alerts.inFlight =>
           unanswered = [id |-> alerts.entries[1].id, kind |-> alerts.entries[1].kind]
      /\ spool.inFlight => spool.clips[1].id = uploading
  BY <1>2, InFlightNow
<1> QED  BY <1>1, <1>2, <1>5, <1>6, InvariantKept DEF QuietStep

\* The invariant is kept as time passes.
LEMMA WaitKeeps == ASSUME IInv, Wait PROVE IInv' /\ QuietStep
<1>1. /\ CoreOK'
      /\ UNCHANGED <<viewers, recording, deferred, shuttingDown>>
      /\ SameEvent(event, event')
      /\ alerts'.inFlight = alerts.inFlight
      /\ alerts.inFlight => /\ alerts'.entries # <<>>
                            /\ alerts'.entries[1].id = alerts.entries[1].id
                            /\ alerts'.entries[1].kind = alerts.entries[1].kind
      /\ spool'.inFlight = spool.inFlight /\ spool'.clips = spool.clips
      /\ out' = <<>>
  BY TimePassesContract DEF IInv, Wait
<1>2. UNCHANGED <<recorder, calls, uploading, refused, unanswered, running>>
  BY DEF Wait, backends
<1>3. TypeOK'
  BY <1>1, <1>2 DEF IInv, TypeOK, CoreOK
<1>4. CameraOwnership' /\ NobodyAfterShutdown'
  BY <1>1, <1>2 DEF IInv, CameraOwnership, NobodyAfterShutdown, SameEvent
<1>5. FrontInFlight'
  <2>1. alerts'.entries \in Seq(Alert)
    BY <1>1, QueueFields DEF CoreOK, QueueOK
  <2>2. alerts'.inFlight => Head(alerts'.entries) = alerts'.entries[1]
    BY <1>1, <2>1, HeadTailProperties
  <2>3. alerts.inFlight =>
          unanswered = [id |-> alerts.entries[1].id, kind |-> alerts.entries[1].kind]
    BY InFlightNow
  <2> QED  BY <1>1, <1>2, <2>2, <2>3 DEF FrontInFlight
<1>6. UploadInFlight'
  BY <1>1, <1>2 DEF IInv, UploadInFlight
<1>7. QuietStep
  BY <1>1, AskedOfNothing DEF QuietStep, StartsNothing, Nothing
<1> QED  BY <1>1, <1>3, <1>4, <1>5, <1>6, <1>7 DEF IInv
-----------------------------------------------------------------------------
(* The theorems.                                                           *)

\* The daemon starts in the invariant.
LEMMA InitEstablishes == Init => IInv
<1> SUFFICES ASSUME Init PROVE IInv
  OBVIOUS
<1>1. /\ viewers = {} /\ recording = "Idle" /\ event = None /\ deferred = None
      /\ cooldown = None /\ pressWindow = None /\ ringLed = None
      /\ online = FALSE /\ fault = FALSE
      /\ alerts = EmptyQueue /\ spool = EmptySpool
      /\ led = "Off" /\ shuttingDown = FALSE
      /\ recorder = None /\ calls = {} /\ uploading = None
      /\ refused = None /\ unanswered = None /\ running = TRUE
  BY DEF Init, CoreInit
<1>2. QueueOK(alerts) /\ ~ alerts.inFlight
  <2>1. Len(<<>>) = 0 /\ 0 <= QueueLimit
    BY AlertQueueAssumption DEF QueueLimit
  <2>2. EmptyQueue.entries = <<>> /\ ~ EmptyQueue.inFlight
    BY DEF EmptyQueue
  <2> QED  BY <1>1, <2>1, <2>2, EmptyQueueType DEF QueueOK
<1>3. SpoolOK(spool) /\ ~ spool.inFlight
  BY <1>1, EmptySpoolType DEF SpoolOK
<1>4. CoreTypeOK
  BY <1>1, EmptyQueueType, EmptySpoolType DEF CoreTypeOK, RecordingState, LedPattern, Timer
<1>5. TypeOK
  BY <1>1, <1>4 DEF TypeOK
<1>6. CameraOwnership /\ NobodyAfterShutdown
  BY <1>1 DEF CameraOwnership, NobodyAfterShutdown
<1> QED  BY <1>2, <1>3, <1>4, <1>5, <1>6 DEF IInv, CoreOK, FrontInFlight, UploadInFlight

\* The invariant is kept by every step, and after a shutdown no step starts
\* anything.
LEMMA NextKeeps == ASSUME IInv, Next PROVE IInv' /\ QuietStep
<1>1. CASE Motion
  BY <1>1, MotionKeeps
<1>2. CASE Press
  BY <1>2, PressKeeps
<1>3. CASE \E peer \in Peer : Viewer(peer) \/ HangUp(peer)
  BY <1>3, ViewerKeeps, HangUpKeeps
<1>4. CASE DetectorSpeaks
  BY <1>4, DetectorSpeaksKeeps
<1>5. CASE RecorderEnds
  BY <1>5, RecorderEndsKeeps
<1>6. CASE UploadEnds
  BY <1>6, UploadEndsKeeps
<1>7. CASE UploadRefused
  BY <1>7, UploadRefusedKeeps
<1>8. CASE LinkAnswers
  BY <1>8, LinkAnswersKeeps
<1>9. CASE LinkUp
  BY <1>9, LinkUpKeeps
<1>10. CASE LinkDown
  BY <1>10, LinkDownKeeps
<1>11. CASE Wake
  BY <1>11, WakeKeeps
<1>12. CASE Signal
  BY <1>12, SignalKeeps
<1>13. CASE Wait
  BY <1>13, WaitKeeps
<1> QED
  BY <1>1, <1>2, <1>3, <1>4, <1>5, <1>6, <1>7, <1>8, <1>9, <1>10, <1>11, <1>12,
     <1>13 DEF Next

\* The invariant is kept by a step that changes nothing.
LEMMA StutterKeeps == ASSUME IInv, UNCHANGED vars PROVE IInv'
<1>1. UNCHANGED <<viewers, recording, event, deferred, cooldown, pressWindow,
                  ringLed, online, fault, alerts, spool, led, shuttingDown, out>>
  BY DEF vars, coreVars
<1>2. UNCHANGED <<recorder, calls, uploading, refused, unanswered, running>>
  BY DEF vars, backends
<1>3. CoreTypeOK' /\ CoreOK'
  BY <1>1 DEF IInv, CoreTypeOK, CoreOK, QueueOK, SpoolOK
<1>4. TypeOK'
  BY <1>2, <1>3 DEF IInv, TypeOK
<1>5. CameraOwnership' /\ NobodyAfterShutdown' /\ FrontInFlight' /\ UploadInFlight'
  BY <1>1, <1>2
  DEF IInv, CameraOwnership, NobodyAfterShutdown, FrontInFlight, UploadInFlight
<1> QED  BY <1>3, <1>4, <1>5 DEF IInv

\* The inductive invariant holds in every state of every run of the daemon.
THEOREM Invariance == Spec => []IInv
<1>1. Init => IInv
  BY InitEstablishes
<1>2. IInv /\ [Next]_vars => IInv'
  BY NextKeeps, StutterKeeps
<1> QED  BY <1>1, <1>2, PTL DEF Spec

\* Every variable of the daemon keeps its type, whatever the policy allows.
THEOREM TypeCorrect == Spec => []TypeOK
<1>1. IInv => TypeOK
  BY DEF IInv
<1> QED  BY <1>1, Invariance, PTL

\* The recorder and the media process never hold the camera together, and the
\* core is never wrong about who does.
THEOREM OneCameraOneOwner == Spec => []CameraOwnership
<1>1. IInv => CameraOwnership
  BY DEF IInv
<1> QED  BY <1>1, Invariance, PTL

\* The alert in flight stays at the front of the queue until it is answered, so
\* the answer always finds it.
THEOREM AnswerFindsItsAlert == Spec => []FrontInFlight
<1>1. IInv => FrontInFlight
  BY DEF IInv
<1> QED  BY <1>1, Invariance, PTL

\* The queue of alerts stays within its bound however many arrive.
THEOREM AlertQueueBounded == Spec => []QueueBounded
<1>1. IInv => QueueBounded
  BY DEF IInv, CoreOK, QueueOK, QueueLimit, QueueBounded
<1> QED  BY <1>1, Invariance, PTL

\* The clip counted as in flight is the front one and is being sent.
THEOREM UploadsAgree == Spec => []UploadInFlight
<1>1. IInv => UploadInFlight
  BY DEF IInv
<1> QED  BY <1>1, Invariance, PTL

\* Nothing is started or sent once the shutdown has been taken.
THEOREM SilenceAfterShutdown == Spec => QuietAfterShutdown
<1> DEFINE Silent == shuttingDown =>
             \A what \in {"StartRecording", "StartCall", "SendAlert", "UploadClip"} :
               Asked(what)' = {}
<1>1. IInv /\ [Next]_vars => [Silent]_vars
  <2> SUFFICES ASSUME IInv, Next PROVE Silent
    OBVIOUS
  <2>1. QuietStep
    BY NextKeeps
  <2>2. \A what : AskedOf(what, out') = Asked(what)'
    BY DEF Asked, AskedOf
  <2> QED  BY <2>1, <2>2 DEF QuietStep, StartsNothing, Nothing
<1> HIDE DEF Silent
<1>2. Spec => [][Silent]_vars
  BY <1>1, Invariance, PTL DEF Spec
<1> QED  BY <1>2 DEF QuietAfterShutdown, Silent

-----------------------------------------------------------------------------
(* What is asked for, whatever the types.                                  *)

\* A list of anything.
Listed(acts) == \E S : acts \in Seq(S)

\* Two lists make one list, which asks for what either asks for.
LEMMA ListedJoin ==
  ASSUME NEW a, NEW b, Listed(a), Listed(b)
  PROVE  /\ Listed(a \o b)
         /\ \A what : AskedOf(what, a \o b) = AskedOf(what, a) \cup AskedOf(what, b)
<1>1. PICK S : a \in Seq(S)
  BY DEF Listed
<1>2. PICK T : b \in Seq(T)
  BY DEF Listed
<1> DEFINE U == S \cup T
<1>3. a \in Seq(U) /\ b \in Seq(U)
  BY <1>1, <1>2
<1> HIDE DEF U
<1>4. a \o b \in Seq(U)
  BY <1>3, ConcatProperties
<1> QED  BY <1>3, <1>4, AskedOfConcatIn DEF Listed

\* An empty list, a list of one and what pump_alerts returns.
LEMMA ListedForms ==
  /\ Listed(<<>>)
  /\ \A a : Listed(<<a>>)
  /\ \A q, isOnline, stopping :
       /\ Listed(AlertSent(q, isOnline, stopping))
       /\ \A what : what # "SendAlert" =>
            AskedOf(what, AlertSent(q, isOnline, stopping)) = {}
<1>1. Listed(<<>>)
  BY EmptySeq DEF Listed
<1>2. ASSUME NEW a PROVE Listed(<<a>>)
  <2>1. <<a>> \in Seq({a})
    OBVIOUS
  <2> QED  BY <2>1 DEF Listed
<1>3. ASSUME NEW q, NEW isOnline, NEW stopping
      PROVE  /\ Listed(AlertSent(q, isOnline, stopping))
             /\ \A what : what # "SendAlert" =>
                  AskedOf(what, AlertSent(q, isOnline, stopping)) = {}
  <2>1. PICK a : /\ a[1] = "SendAlert"
                 /\ AlertSent(q, isOnline, stopping) \in {<<>>, <<a>>}
    <3> DEFINE b == <<"SendAlert", Head(ExpireAlerts(q).entries)>>
    <3>1. b[1] = "SendAlert" /\ AlertSent(q, isOnline, stopping) \in {<<>>, <<b>>}
      BY DEF AlertSent
    <3> HIDE DEF b
    <3> QED  BY <3>1
  <2> QED  BY <2>1, <1>1, <1>2, AskedOfNothing, AskedOfOne
<1> QED  BY <1>1, <1>2, <1>3

\* Settle adds a send, an upload and a light to what the handler asked for,
\* and takes no clip away.
LEMMA SettleAsks ==
  ASSUME NEW e, NEW q, NEW s, NEW acts, Listed(acts), Settle(e, q, s, acts)
  PROVE  /\ \A what : what \notin {"SendAlert", "UploadClip", "SetLed"} =>
              AskedOf(what, out') = AskedOf(what, acts)
         /\ s \in SpoolType => spool'.clips = s.clips
<1> DEFINE queued == IF Holding(e) /\ Reached(e.held.due)
                       THEN PushAlert(q, HeldAlert(e, NoFaces)) ELSE q
           upload == ~ shuttingDown' /\ UploadReady(s, online', viewers' # {})
           sent   == AlertSent(queued, online', shuttingDown')
           ups    == IF upload THEN <<<<"UploadClip", Head(s.clips)>>>> ELSE <<>>
           lights == IF led' # led THEN <<<<"SetLed", led'>>>> ELSE <<>>
<1>1. /\ out' = acts \o sent \o ups \o lights
      /\ spool' = IF upload THEN [s EXCEPT !.inFlight = TRUE] ELSE s
  BY DEF Settle
<1>2. Listed(sent) /\ \A what : what # "SendAlert" => AskedOf(what, sent) = {}
  <2> HIDE DEF queued
  <2> QED  BY ListedForms
<1>3. Listed(ups) /\ \A what : what # "UploadClip" => AskedOf(what, ups) = {}
  <2> DEFINE a == <<"UploadClip", Head(s.clips)>>
  <2>1. a[1] = "UploadClip" /\ ups \in {<<>>, <<a>>}
    OBVIOUS
  <2> HIDE DEF a, ups
  <2> QED  BY <2>1, ListedForms, AskedOfNothing, AskedOfOne
<1>4. Listed(lights) /\ \A what : what # "SetLed" => AskedOf(what, lights) = {}
  <2> DEFINE a == <<"SetLed", led'>>
  <2>1. a[1] = "SetLed" /\ lights \in {<<>>, <<a>>}
    OBVIOUS
  <2> HIDE DEF a, lights
  <2> QED  BY <2>1, ListedForms, AskedOfNothing, AskedOfOne
<1>5. s \in SpoolType => spool'.clips = s.clips
  BY <1>1 DEF SpoolType
<1> HIDE DEF sent, ups, lights
<1>6. Listed(acts \o sent)
      /\ \A what : AskedOf(what, acts \o sent) = AskedOf(what, acts) \cup AskedOf(what, sent)
  BY <1>2, ListedJoin
<1>7. /\ Listed((acts \o sent) \o ups)
      /\ \A what : AskedOf(what, (acts \o sent) \o ups)
                     = AskedOf(what, acts \o sent) \cup AskedOf(what, ups)
  BY <1>3, <1>6, ListedJoin
<1>8. \A what : AskedOf(what, ((acts \o sent) \o ups) \o lights)
                  = AskedOf(what, (acts \o sent) \o ups) \cup AskedOf(what, lights)
  BY <1>4, <1>7, ListedJoin
<1> QED  BY <1>1, <1>2, <1>3, <1>4, <1>5, <1>6, <1>7, <1>8

-----------------------------------------------------------------------------
(* The clips.                                                              *)

\* The handlers that take no clip from the spool.
LEMMA ClipsKept ==
  ASSUME IInv, Next, ~ UploadEnds, ~ RecorderEnds
  PROVE  spool'.clips = spool.clips
<1>1. spool \in SpoolType
  BY DEF IInv, CoreOK, SpoolOK
<1>2. ASSUME NEW e, NEW q, NEW acts, Settle(e, q, spool, acts)
      PROVE  spool'.clips = spool.clips
  BY <1>1, <1>2 DEF Settle, SpoolType
<1>3. CASE Ignored
  BY <1>2, <1>3 DEF Ignored
<1>4. ASSUME NEW id, NEW kind, NEW withClip, NEW acts, Trigger(id, kind, withClip, acts)
      PROVE  spool'.clips = spool.clips
  BY <1>2, <1>4 DEF Trigger, StartHolding
<1>5. CASE Motion
  BY <1>2, <1>3, <1>4, <1>5 DEF Motion, MotionDetected, StartHolding
<1>6. CASE Press
  <2>1. PICK id \in EventId \ InUse : ButtonPressed(id)
    BY <1>6 DEF Press
  <2>2. CASE TakeOver
    BY <1>2, <2>2 DEF TakeOver
  <2> QED  BY <1>2, <1>3, <1>4, <2>1, <2>2 DEF ButtonPressed
<1>7. ASSUME NEW peer \in Peer, Viewer(peer) \/ HangUp(peer)
      PROVE  spool'.clips = spool.clips
  BY <1>2, <1>3, <1>7 DEF Viewer, HangUp, ViewerRequested, CallEnded
<1>8. CASE DetectorSpeaks
  BY <1>2, <1>3, <1>8 DEF DetectorSpeaks, DetectionResult
<1>9. CASE UploadRefused
  <2>1. UploadAnswered(spool, refused, FALSE) = UploadFailed(spool)
    BY DEF UploadAnswered
  <2>2. UploadFailed(spool) \in SpoolType /\ UploadFailed(spool).clips = spool.clips
    BY <1>1, UploadFailedProperties
  <2>3. Settle(event, alerts, UploadFailed(spool), <<>>)
    BY <1>9, <2>1 DEF UploadRefused, UploadFinished
  <2> QED  BY <2>2, <2>3, ListedForms, SettleAsks
<1>10. CASE LinkAnswers \/ LinkUp \/ Wake \/ Signal
  BY <1>2, <1>3, <1>10 DEF LinkAnswers, AlertResult, LinkUp, ServerOnline, Wake, Tick,
                           Signal, Shutdown
<1>11. CASE LinkDown
  <2>1. /\ UploadLinkLost(spool) \in SpoolType
        /\ UploadLinkLost(spool).clips = spool.clips
    BY <1>1, UploadLinkLostProperties
  <2>2. Settle(event, AlertLinkLost(alerts), UploadLinkLost(spool), <<>>)
    BY <1>11 DEF LinkDown, ServerOffline
  <2> QED  BY <2>1, <2>2, ListedForms, SettleAsks
<1>12. CASE Wait
  BY <1>1, <1>12, SpoolOlderProperties DEF Wait, TimePasses
<1> QED  BY <1>5, <1>6, <1>7, <1>8, <1>9, <1>10, <1>11, <1>12 DEF Next

\* A recording that ends takes clips out of the spool to make room for its own,
\* and says so of each.
LEMMA RecorderEndsAccounts ==
  ASSUME IInv, RecorderEnds, NEW lost \in SpooledIds(spool), lost \notin SpooledIds(spool')
  PROVE  <<"DiscardClip", lost>> \in AskedOf("DiscardClip", out')
<1>1. PICK file \in Files : RecordingFinished(recorder.id, file)
  BY DEF RecorderEnds
<1> DEFINE id     == recorder.id
           queued == FlushHeld(alerts)
           pumped == IF Holding(event)
                       THEN PumpAlerts(queued, online, shuttingDown) ELSE queued
           sent   == IF Holding(event)
                       THEN AlertSent(queued, online, shuttingDown) ELSE <<>>
           keep   == /\ file.ok /\ file.bytes > 0 /\ file.long
                     /\ event # None
                     /\ event.id = id
                     /\ ~ event.unwanted
           clip   == [id |-> id, kind |-> event.kind, bytes |-> file.bytes,
                      partial |-> event.cutShort]
           gone   == IF keep THEN ClipsDropped(spool, clip) ELSE <<>>
           drops  == IF keep
                       THEN [i \in 1 .. Len(gone) |-> <<"DiscardClip", gone[i].id>>]
                       ELSE IF file.exists THEN <<<<"DiscardClip", id>>>> ELSE <<>>
           call   == IF deferred = None THEN <<>> ELSE <<<<"StartCall", deferred>>>>
           s      == IF keep THEN AddClip(spool, clip) ELSE spool
           acts   == sent \o drops \o call
<1>2. Settle(None, pumped, s, acts)
  BY <1>1 DEF RecordingFinished
<1>3. /\ id \in EventId /\ file.bytes \in Nat
      /\ spool \in SpoolType /\ (spool.inFlight => spool.clips # <<>>)
      /\ event \in ActiveEvent \cup {None}
  BY DoorbellAssumption DEF IInv, TypeOK, CoreOK, SpoolOK, CoreTypeOK, RecorderEnds,
                            Recording, File
<1>4. Listed(sent) /\ Listed(call)
  <2> HIDE DEF queued
  <2> QED  BY ListedForms
<1>5. PICK i \in 1 .. Len(spool.clips) : spool.clips[i].id = lost
  BY DEF SpooledIds
<1>6. CASE ~ keep
  <2>1. s = spool
    BY <1>6
  <2>2. Listed(acts)
    <3>1. drops = IF file.exists THEN <<<<"DiscardClip", id>>>> ELSE <<>>
      BY <1>6
    <3>2. Listed(drops)
      <4> HIDE DEF drops, id
      <4> QED  BY <3>1, ListedForms
    <3> HIDE DEF sent, drops, call
    <3> QED  BY <1>4, <3>2, ListedJoin
  <2> HIDE DEF s, acts, pumped
  <2>3. spool'.clips = spool.clips
    BY <1>2, <1>3, <2>1, <2>2, SettleAsks
  <2> QED  BY <2>3 DEF SpooledIds
<1>7. CASE keep
  <2>1. clip \in Clip
    BY <1>3, <1>7 DEF Clip, ActiveEvent
  <2>2. s = AddClip(spool, clip) /\ gone = ClipsDropped(spool, clip)
    BY <1>7
  <2>3. drops = [k \in 1 .. Len(gone) |-> <<"DiscardClip", gone[k].id>>]
    BY <1>7
  <2> HIDE DEF clip, keep, s, gone, pumped
  <2>4. s \in SpoolType /\ gone \in Seq(Clip)
    BY <1>3, <2>1, <2>2, AddClipProperties
  <2>5. drops \in Seq(Action)
    BY <2>3, <2>4, DiscardsHarmless DEF Harmless
  <2>6. /\ Listed(acts)
        /\ AskedOf("DiscardClip", drops) \subseteq AskedOf("DiscardClip", acts)
    <3>1. Listed(drops)
      BY <2>5 DEF Listed
    <3> HIDE DEF sent, drops, call
    <3>2. /\ Listed(sent \o drops)
          /\ AskedOf("DiscardClip", drops) \subseteq AskedOf("DiscardClip", sent \o drops)
      BY <1>4, <3>1, ListedJoin
    <3> QED  BY <1>4, <3>2, ListedJoin
  <2>7. /\ AskedOf("DiscardClip", out') = AskedOf("DiscardClip", acts)
        /\ spool'.clips = s.clips
    <3> HIDE DEF acts
    <3> QED  BY <1>2, <2>4, <2>6, SettleAsks
  <2>8. lost \notin SpooledIds(AddClip(spool, clip))
    BY <2>2, <2>7 DEF SpooledIds
  <2>9. PICK j \in 1 .. Len(gone) : gone[j] = spool.clips[i]
    BY <1>3, <1>5, <2>1, <2>2, <2>8, AddClipAccounts
  <2>10. <<"DiscardClip", lost>> \in AskedOf("DiscardClip", drops)
    <3>1. Len(gone) \in Nat
      BY <2>4, LenProperties
    <3>2. Len(drops) = Len(gone) /\ drops[j] = <<"DiscardClip", lost>>
      BY <2>3, <2>5, <2>9, <1>5, <3>1
    <3> HIDE DEF drops
    <3> QED  BY <3>2 DEF AskedOf
  <2> QED  BY <2>6, <2>7, <2>10
<1> QED  BY <1>6, <1>7

\* An upload that ends takes out the clip that was sent, and then another is.
LEMMA UploadEndsAccounts ==
  ASSUME IInv, UploadEnds, NEW lost \in SpooledIds(spool), lost \notin SpooledIds(spool')
  PROVE  uploading = lost /\ uploading' # lost
<1>1. PICK ok \in BOOLEAN : UploadFinished(uploading, ok)
  BY DEF UploadEnds
<1> DEFINE s == UploadAnswered(spool, uploading, ok)
<1>2. spool \in SpoolType /\ CoreOK /\ lost # None
  <2>1. \A i \in 1 .. Len(spool.clips) : spool.clips[i] \in Clip
    BY ElementOfSeq DEF IInv, CoreOK, SpoolOK, SpoolType
  <2> QED  BY <2>1, AbsenceAssumption DEF IInv, CoreOK, SpoolOK, SpooledIds, Clip
<1>3. s \in SpoolType
  BY <1>2, UploadAnsweredProperties
<1>4. Settle(event, alerts, s, <<>>)
  BY <1>1 DEF UploadFinished
<1>5. SpoolOK(spool') /\ Uploads(s, spool', out')
  BY <1>1, <1>2, UploadFinishedContract DEF Settled
<1> HIDE DEF s
<1>6. spool'.clips = s.clips
  BY <1>3, <1>4, ListedForms, SettleAsks
<1>7. lost = uploading
  BY <1>2, <1>6, UploadAnsweredAccounts DEF s, SpooledIds
<1>8. uploading' # lost
  <2>1. uploading' = LET asked == {a[2].id : a \in Asked("UploadClip")'}
                     IN  IF asked = {} THEN None ELSE CHOOSE id \in asked : TRUE
    BY DEF UploadEnds, React
  <2>2. Asked("UploadClip")' = AskedOf("UploadClip", out')
    BY DEF Asked, AskedOf
  <2>3. CASE AskedOf("UploadClip", out') = {}
    BY <1>2, <2>1, <2>2, <2>3
  <2>4. CASE AskedOf("UploadClip", out') = {<<"UploadClip", spool'.clips[1]>>}
    <3> DEFINE asked == {a[2].id : a \in AskedOf("UploadClip", out')}
    <3>1. asked = {spool'.clips[1].id}
      <4> DEFINE clip == spool'.clips[1]
                 a    == <<"UploadClip", clip>>
      <4>1. a[2] = clip
        OBVIOUS
      <4>2. asked = {b[2].id : b \in {a}}
        BY <2>4
      <4> HIDE DEF a, clip, asked
      <4>3. asked = {clip.id}
        BY <4>1, <4>2
      <4> QED  BY <4>3 DEF clip
    <3>2. uploading' = spool'.clips[1].id
      <4>1. uploading' = CHOOSE id \in asked : TRUE
        BY <2>1, <2>2, <3>1
      <4> HIDE DEF asked
      <4> QED  BY <3>1, <4>1
    <3>3. 1 \in 1 .. Len(spool'.clips)
      <4>1. spool'.clips # <<>>
        <5>1. AskedOf("UploadClip", out') # {}
          BY <2>4
        <5> QED  BY <5>1, <1>5 DEF Uploads, SpoolOK
      <4>2. spool'.clips \in Seq(Clip) /\ Len(spool'.clips) \in Nat
        BY <1>3, <1>6, SpoolFields
      <4> QED  BY <4>1, <4>2, EmptySeq
    <3> QED  BY <3>2, <3>3 DEF SpooledIds
  <2> QED  BY <1>5, <2>3, <2>4 DEF Uploads
<1> QED  BY <1>7, <1>8

\* Core::enforce_spool_cap and on_upload_finished: a clip leaves the spool once
\* it has been sent or its removal has been announced, whatever the cap and
\* whatever the recordings leave behind.
THEOREM ClipsAccounted == Spec => ClipAccountedFor
<1> DEFINE Accounted ==
             \A id \in SpooledIds(spool) \ SpooledIds(spool') :
               \/ uploading = id /\ uploading' # id
               \/ <<"DiscardClip", id>> \in Asked("DiscardClip")'
<1>1. IInv /\ [Next]_vars => [Accounted]_vars
  <2> SUFFICES ASSUME IInv, Next PROVE Accounted
    OBVIOUS
  <2>1. Asked("DiscardClip")' = AskedOf("DiscardClip", out')
    BY DEF Asked, AskedOf
  <2> QED  BY <2>1, ClipsKept, RecorderEndsAccounts, UploadEndsAccounts DEF SpooledIds
<1> HIDE DEF Accounted
<1>2. Spec => [][Accounted]_vars
  BY <1>1, Invariance, PTL DEF Spec
<1> QED  BY <1>2 DEF ClipAccountedFor, Accounted

-----------------------------------------------------------------------------
(* The alerts.                                                             *)

\* The hold that Settle ends because its deadline has come.
Overdue(e) == Holding(e) /\ Reached(e.held.due)

\* Every alert of p was in q, or is the one for this id and kind.
Joins(q, p, id, kind) ==
  \A i, k : QueuedAs(p, i, k) => QueuedAs(q, i, k) \/ (i = id /\ k = kind)

\* Every alert of p was in q.
JoinsNone(q, p) == \A i, k : QueuedAs(p, i, k) => QueuedAs(q, i, k)

\* The alert is one of the queue.
Queued(q, alert) == \E k \in Positions(q.entries) : q.entries[k] = alert

\* What was queued stays so for its id and kind.
LEMMA QueuedAlert ==
  ASSUME NEW q, NEW alert, Queued(q, alert)
  PROVE  QueuedAs(q, alert.id, alert.kind)
BY DEF Queued, QueuedAs

\* push and the pump after it: one alert joins, and it is there if it is not
\* too old.
LEMMA PushThenPump ==
  ASSUME NEW q, QueueOK(q), NEW alert \in Alert,
         NEW isOnline, NEW stopping
  PROVE  LET p == PumpAlerts(PushAlert(q, alert), isOnline, stopping)
         IN  /\ Joins(q, p, alert.id, alert.kind)
             /\ alert.age < AlertMaxAge =>
                  Len(p.entries) \in Positions(p.entries) /\ p.entries[Len(p.entries)] = alert
             /\ \A j \in Positions(q.entries) :
                  /\ q.entries[j].age < AlertMaxAge
                  /\ j > Protected(q) + 1 \/ Len(q.entries) < AlertCapacity
                  => Queued(p, q.entries[j])
<1> DEFINE pushed == PushAlert(q, alert)
           p      == PumpAlerts(pushed, isOnline, stopping)
<1>1. q \in AlertQueueType /\ (q.inFlight => q.entries # <<>>)
  BY DEF QueueOK
<1>2. pushed \in AlertQueueType
  BY PushOK DEF QueueOK
<1>3. /\ Len(pushed.entries) \in Positions(pushed.entries)
      /\ pushed.entries[Len(pushed.entries)] = alert
      /\ \A i \in Positions(pushed.entries) : i < Len(pushed.entries) =>
           \E j \in Positions(q.entries) : pushed.entries[i] = q.entries[j]
      /\ \A j \in Positions(q.entries) : j > Protected(q) + 1 =>
           \E i \in Positions(pushed.entries) : pushed.entries[i] = q.entries[j]
  BY <1>1, PushAlertEntries
<1>4. Len(q.entries) < AlertCapacity =>
        \A j \in Positions(q.entries) :
          \E i \in Positions(pushed.entries) : pushed.entries[i] = q.entries[j]
  <2> SUFFICES ASSUME Len(q.entries) < AlertCapacity, NEW j \in Positions(q.entries)
               PROVE  \E i \in Positions(pushed.entries) : pushed.entries[i] = q.entries[j]
    OBVIOUS
  <2>1. q.entries \in Seq(Alert) /\ Len(q.entries) \in Nat
    BY <1>1, QueueFields, LenProperties
  <2>2. pushed.entries = Append(q.entries, alert)
    <3>1. ~ (Len(q.entries) >= AlertCapacity)
      BY <2>1, AlertQueueAssumption
    <3> QED  BY <1>1, <3>1 DEF PushAlert, AlertQueueType
  <2>3. j \in Positions(pushed.entries) /\ pushed.entries[j] = q.entries[j]
    BY <2>1, <2>2, AppendProperties DEF Positions
  <2> QED  BY <2>3
<1> HIDE DEF pushed
<1>5. /\ Remains(pushed, p)
      /\ \A k \in Positions(p.entries) :
           \E i \in Positions(pushed.entries) : p.entries[k] = pushed.entries[i]
      /\ pushed.entries[Len(pushed.entries)].age < AlertMaxAge =>
           /\ Len(p.entries) \in Positions(p.entries)
           /\ p.entries[Len(p.entries)] = pushed.entries[Len(pushed.entries)]
  BY <1>2, <1>3, PumpAlertsEntries
<1> HIDE DEF p
<1>6. Joins(q, p, alert.id, alert.kind)
  <2> SUFFICES ASSUME NEW i, NEW k, QueuedAs(p, i, k)
               PROVE  QueuedAs(q, i, k) \/ (i = alert.id /\ k = alert.kind)
    BY DEF Joins
  <2>1. PICK m \in Positions(p.entries) : p.entries[m].id = i /\ p.entries[m].kind = k
    BY DEF QueuedAs
  <2>2. PICK n \in Positions(pushed.entries) : p.entries[m] = pushed.entries[n]
    BY <1>5
  <2>3. n = Len(pushed.entries) \/ n < Len(pushed.entries)
    BY <1>2, QueueFields, LenProperties DEF Positions
  <2> QED  BY <1>3, <2>1, <2>2, <2>3 DEF QueuedAs
<1>7. ASSUME NEW j \in Positions(q.entries), q.entries[j].age < AlertMaxAge,
             j > Protected(q) + 1 \/ Len(q.entries) < AlertCapacity
      PROVE  Queued(p, q.entries[j])
  <2>1. PICK i \in Positions(pushed.entries) : pushed.entries[i] = q.entries[j]
    BY <1>3, <1>4, <1>7
  <2> QED  BY <1>5, <1>7, <2>1 DEF Remains, Queued
<1> QED  BY <1>3, <1>5, <1>6, <1>7 DEF p, pushed

\* What Settle makes of a hold and of the queue: an overdue hold is released
\* and its alert queued; otherwise nothing joins and only the too old leave.
LEMMA SettleAlerts ==
  ASSUME NEW e, EventOK(e), NEW q, QueueOK(q), NEW s, NEW acts, Settle(e, q, s, acts)
  PROVE  /\ event' = IF Overdue(e) THEN Released(e) ELSE e
         /\ ~ Overdue(e) => JoinsNone(q, alerts') /\ Remains(q, alerts')
         /\ Overdue(e) =>
              /\ Joins(q, alerts', e.id, e.kind)
              /\ e.held.age < AlertMaxAge => Queued(alerts', HeldAlert(e, NoFaces))
              /\ \A j \in Positions(q.entries) :
                   /\ q.entries[j].age < AlertMaxAge
                   /\ j > Protected(q) + 1 \/ Len(q.entries) < AlertCapacity
                   => Queued(alerts', q.entries[j])
<1>1. /\ event' = IF Overdue(e) THEN Released(e) ELSE e
      /\ alerts' = PumpAlerts(IF Overdue(e) THEN PushAlert(q, HeldAlert(e, NoFaces)) ELSE q,
                              online', shuttingDown')
  BY DEF Settle, Overdue
<1>2. CASE ~ Overdue(e)
  <2>1. alerts' = PumpAlerts(q, online', shuttingDown')
    BY <1>1, <1>2
  <2>2. q \in AlertQueueType
    BY DEF QueueOK
  <2>3. /\ Remains(q, alerts')
        /\ \A k \in Positions(alerts'.entries) :
             \E i \in Positions(q.entries) : alerts'.entries[k] = q.entries[i]
    BY <2>1, <2>2, PumpAlertsEntries
  <2>4. JoinsNone(q, alerts')
    BY <2>3 DEF JoinsNone, QueuedAs
  <2> QED  BY <1>1, <1>2, <2>3, <2>4
<1>3. CASE Overdue(e)
  <2> DEFINE alert == HeldAlert(e, NoFaces)
  <2>1. alert \in Alert
    BY <1>3, HoldingFields, CoreAssumption DEF Overdue
  <2>2. alerts' = PumpAlerts(PushAlert(q, alert), online', shuttingDown')
    BY <1>1, <1>3
  <2>3. alert.id = e.id /\ alert.kind = e.kind /\ alert.age = e.held.age
    BY DEF HeldAlert
  <2> HIDE DEF alert
  <2>4. /\ Joins(q, alerts', alert.id, alert.kind)
        /\ alert.age < AlertMaxAge => Queued(alerts', alert)
        /\ \A j \in Positions(q.entries) :
             /\ q.entries[j].age < AlertMaxAge
             /\ j > Protected(q) + 1 \/ Len(q.entries) < AlertCapacity
             => Queued(alerts', q.entries[j])
    BY <2>1, <2>2, PushThenPump DEF Queued
  <2> QED  BY <1>1, <1>3, <2>3, <2>4 DEF alert
<1> QED  BY <1>2, <1>3

\* What HeldAlertSettled says of a step.
HoldSettled ==
  /\ Holding(event)
  /\ ~ (event' # None /\ event'.id = event.id /\ Holding(event'))
  => \/ event.held.age = AlertMaxAge
     \/ \E kind \in {event.kind, "ring"} : QueuedAs(alerts', event.id, kind)
     \/ event.kind = "motion" /\ event' # None /\ event'.unwanted

\* What AlertedOnce says of a step and an id.
AlertsOnce(id) ==
  LET before == event # None /\ event.id = id
      after  == event' # None /\ event'.id = id
      holds  == after /\ Holding(event')
  IN  /\ \A kind \in Kind :
           QueuedAs(alerts', id, kind) /\ ~ QueuedAs(alerts, id, kind) =>
             /\ ~ holds
             /\ \/ id \notin InUse
                \/ before /\ Holding(event)
                \/ before /\ after /\ event.kind = "motion" /\ event'.kind = "ring"
      /\ before /\ after /\ event.kind = "ring" => event'.kind = "ring"
      /\ before /\ ~ Holding(event) => ~ holds

\* Both of them.
AlertsKept == HoldSettled /\ \A id \in EventId : AlertsOnce(id)

\* Every alert of p was in q or is of an id nothing refers to.
JoinsFresh(q, p) ==
  \A i \in EventId, k \in Kind : QueuedAs(p, i, k) => QueuedAs(q, i, k) \/ i \notin InUse

\* The event under way is the same event with the same hold.
SameHold(e) ==
  /\ e = None <=> event = None
  /\ event # None => e.id = event.id /\ e.kind = event.kind /\ e.held = event.held

\* What a sound state offers.
LEMMA SoundState ==
  ASSUME IInv
  PROVE  /\ EventOK(event) /\ QueueOK(alerts)
         /\ recording = "Idle" => event = None
         /\ event # None => event.id \in InUse /\ event.id \in EventId
         /\ alerts.inFlight \in BOOLEAN
BY QueueFields DEF IInv, CoreOK, CoreTypeOK, CameraOwnership, EventOK, QueueOK, InUse,
                   ActiveEvent

\* A handler that leaves the hold as it is.
LEMMA HoldLeftAlone ==
  ASSUME IInv, NEW e, EventOK(e), SameHold(e), NEW q, QueueOK(q), JoinsFresh(alerts, q),
         NEW s, NEW acts, Settle(e, q, s, acts)
  PROVE  AlertsKept
<1>1. /\ event' = IF Overdue(e) THEN Released(e) ELSE e
      /\ ~ Overdue(e) => JoinsNone(q, alerts')
      /\ Overdue(e) =>
           /\ Joins(q, alerts', e.id, e.kind)
           /\ e.held.age < AlertMaxAge => Queued(alerts', HeldAlert(e, NoFaces))
  BY SettleAlerts
<1>2. EventOK(event) /\ (event # None => event.id \in InUse)
  BY SoundState
<1>3. CASE ~ Overdue(e)
  <2>1. event' = e /\ JoinsNone(q, alerts')
    BY <1>1, <1>3
  <2>2. Holding(event') <=> Holding(event)
    BY <2>1 DEF Holding, SameHold
  <2>3. HoldSettled
    BY <2>1, <2>2 DEF HoldSettled, SameHold, Holding
  <2>4. ASSUME NEW id \in EventId PROVE AlertsOnce(id)
    BY <1>2, <2>1, <2>2 DEF AlertsOnce, SameHold, JoinsNone, JoinsFresh
  <2> QED  BY <2>3, <2>4 DEF AlertsKept
<1>4. CASE Overdue(e)
  <2>1. /\ e # None /\ event # None /\ Holding(event)
        /\ e.id = event.id /\ e.kind = event.kind /\ e.held = event.held
    BY <1>4 DEF Overdue, Holding, SameHold
  <2>2. /\ event' = Released(e) /\ Joins(q, alerts', event.id, event.kind)
        /\ event.held.age < AlertMaxAge => Queued(alerts', HeldAlert(e, NoFaces))
    BY <1>1, <1>4, <2>1
  <2>3. e \in ActiveEvent /\ Released(e) \in ActiveEvent
    BY <2>1, HoldingFields, <1>4 DEF Overdue
  <2>4. ~ Holding(event') /\ event'.id = event.id /\ event'.kind = event.kind
    BY <2>1, <2>2, <2>3 DEF Holding, Released, ActiveEvent
  <2>5. HoldSettled
    <3>1. event.held.age \in 0 .. AlertMaxAge
      BY <1>2, <2>1, HoldingFields DEF Held
    <3>2. event.held.age < AlertMaxAge => QueuedAs(alerts', event.id, event.kind)
      BY <2>1, <2>2, QueuedAlert DEF HeldAlert
    <3> QED  BY <3>1, <3>2, AlertQueueAssumption DEF HoldSettled
  <2>6. ASSUME NEW id \in EventId PROVE AlertsOnce(id)
    BY <1>2, <2>1, <2>2, <2>4 DEF AlertsOnce, Joins, JoinsFresh
  <2> QED  BY <2>5, <2>6 DEF AlertsKept
<1> QED  BY <1>3, <1>4

\* A handler that does not touch the queue adds nothing to it.
LEMMA JoinsSame == JoinsFresh(alerts, alerts) /\ SameHold(event)
BY DEF JoinsFresh, SameHold

\* An event the core ignores.
LEMMA IgnoredKeepsAlerts == ASSUME IInv, Ignored PROVE AlertsKept
<1>1. Settle(event, alerts, spool, <<>>)
  BY DEF Ignored
<1> QED  BY <1>1, SoundState, JoinsSame, HoldLeftAlone

\* A new event, begun while the camera is free, which holds its alert or has
\* just queued it.
LEMMA NewEventAlerts ==
  ASSUME IInv, event = None, NEW id \in EventId \ InUse,
         NEW e \in ActiveEvent, e.id = id, ~ Overdue(e),
         NEW q, QueueOK(q), Holding(e) => q = alerts,
         JoinsFresh(alerts, q),
         NEW s, NEW acts, Settle(e, q, s, acts)
  PROVE  AlertsKept
<1>1. event' = e /\ JoinsNone(q, alerts')
  BY SettleAlerts DEF EventOK
<1>2. HoldSettled
  BY DEF HoldSettled, Holding
<1>3. ASSUME NEW i \in EventId PROVE AlertsOnce(i)
  BY <1>1 DEF AlertsOnce, JoinsNone, JoinsFresh
<1> QED  BY <1>2, <1>3 DEF AlertsKept

-----------------------------------------------------------------------------
(* A motion and a press.                                                   *)

\* A ring is queued, fresh, or held for a name.
RingAnswered ==
  \/ Holding(event') /\ event'.kind = "ring"
  \/ \E i \in Positions(alerts'.entries) :
       alerts'.entries[i].kind = "ring" /\ alerts'.entries[i].age = 0

\* A ring that is queued answers the press.
LEMMA QueuedRing ==
  ASSUME NEW alert, alert.kind = "ring", alert.age = 0, Queued(alerts', alert)
  PROVE  RingAnswered
BY DEF Queued, RingAnswered

\* The new alert of a trigger, queued and pumped.
LEMMA TriggerQueue ==
  ASSUME IInv, NEW id \in EventId \ InUse, NEW kind \in Kind
  PROVE  LET q == PumpAlerts(PushAlert(alerts, NewAlert(id, kind)), online, shuttingDown)
         IN  /\ QueueOK(q) /\ JoinsFresh(alerts, q)
             /\ Len(q.entries) \in Positions(q.entries)
             /\ q.entries[Len(q.entries)] = NewAlert(id, kind)
<1> DEFINE alert == NewAlert(id, kind)
           q     == PumpAlerts(PushAlert(alerts, alert), online, shuttingDown)
<1>1. alert \in Alert /\ alert.id = id /\ alert.kind = kind /\ alert.age = 0
  BY NewAlertType DEF NewAlert
<1>2. QueueOK(alerts) /\ online \in BOOLEAN /\ shuttingDown \in BOOLEAN
  BY SoundState DEF IInv, CoreOK, CoreTypeOK
<1> HIDE DEF alert
<1>3. QueueOK(q)
  BY <1>1, <1>2, PushOK, PumpOK
<1>4. /\ Joins(alerts, q, alert.id, alert.kind)
      /\ alert.age < AlertMaxAge =>
           Len(q.entries) \in Positions(q.entries) /\ q.entries[Len(q.entries)] = alert
  BY <1>1, <1>2, PushThenPump
<1>5. alert.age < AlertMaxAge
  BY <1>1, AlertQueueAssumption
<1>6. JoinsFresh(alerts, q)
  BY <1>1, <1>4 DEF Joins, JoinsFresh
<1> QED  BY <1>3, <1>4, <1>5, <1>6 DEF alert

\* A ring just queued stays when an overdue hold is queued behind it, if the
\* queue has room for three.
LEMMA RingStays ==
  ASSUME NEW e, EventOK(e), NEW q, QueueOK(q), NEW s, NEW acts, Settle(e, q, s, acts),
         NEW ring, ring.kind = "ring", ring.age = 0,
         Len(q.entries) \in Positions(q.entries), q.entries[Len(q.entries)] = ring,
         AlertCapacity > 2 \/ ~ Overdue(e)
  PROVE  RingAnswered
<1> DEFINE n == Len(q.entries)
<1>1. q.entries[n].age < AlertMaxAge
  BY AlertQueueAssumption
<1>2. CASE ~ Overdue(e)
  <2>1. Remains(q, alerts')
    BY <1>2, SettleAlerts
  <2> QED  BY <1>1, <2>1, QueuedRing DEF Remains, Queued
<1>3. CASE Overdue(e)
  <2>1. n \in Nat /\ Protected(q) <= 1
    BY QueueFields, LenProperties DEF QueueOK, Protected
  <2>2. n > Protected(q) + 1 \/ n < AlertCapacity
    BY <1>3, <2>1, AlertQueueAssumption DEF Protected
  <2> HIDE DEF n
  <2>3. n \in Positions(q.entries) /\ q.entries[n] = ring
    BY DEF n
  <2>4. Queued(alerts', ring)
    BY <1>1, <1>3, <2>2, <2>3, SettleAlerts DEF n
  <2> QED  BY <2>4, QueuedRing
<1> QED  BY <1>2, <1>3

\* trigger: the alert is queued or held, and it is the event's first.
LEMMA TriggerAlerts ==
  ASSUME IInv, NEW id \in EventId \ InUse, NEW kind \in Kind, NEW withClip \in BOOLEAN,
         withClip => event = None,
         NEW acts, Trigger(id, kind, withClip, acts)
  PROVE  /\ AlertsKept
         /\ kind = "ring" /\ (AlertCapacity > 2 \/ ~ Overdue(event)) => RingAnswered
<1> DEFINE q == PumpAlerts(PushAlert(alerts, NewAlert(id, kind)), online, shuttingDown)
           alert == NewAlert(id, kind)
<1>1. /\ QueueOK(q) /\ JoinsFresh(alerts, q)
      /\ Len(q.entries) \in Positions(q.entries) /\ q.entries[Len(q.entries)] = alert
  BY TriggerQueue
<1>2. alert.kind = kind /\ alert.age = 0
  BY DEF NewAlert
<1> DEFINE sent == acts \o AlertSent(PushAlert(alerts, NewAlert(id, kind)), online, shuttingDown)
<1>3. CASE kind = "ring" /\ withClip /\ RingFaceWait > 0
  <2> DEFINE held == [due |-> RingFaceWait, age |-> 0]
             e    == NewEvent(id, kind, held)
             all  == Append(acts, <<"StartRecording", id, TRUE>>)
  <2>1. Settle(e, alerts, spool, all)
    BY <1>3 DEF Trigger, StartHolding
  <2>2. held \in Held /\ ~ Reached(held.due)
    BY <1>3, CoreAssumption, AlertQueueAssumption DEF Held, Reached
  <2>3. /\ e \in ActiveEvent /\ e.id = id /\ e.kind = "ring" /\ e.held = held
    <3>1. e \in ActiveEvent /\ e.id = id
      BY <2>2, NewEventType
    <3> QED  BY <1>3, <3>1 DEF NewEvent
  <2> HIDE DEF held, e, all
  <2>4. Holding(e) /\ ~ Overdue(e)
    BY <2>2, <2>3, OptionalAssumption DEF Holding, Overdue
  <2>5. AlertsKept
    BY <1>3, <2>1, <2>3, <2>4, SoundState, JoinsSame, NewEventAlerts
  <2>6. event' = e
    BY <2>1, <2>3, <2>4, SoundState, SettleAlerts DEF EventOK
  <2> QED  BY <2>3, <2>4, <2>5, <2>6 DEF RingAnswered
<1>4. CASE withClip /\ ~ (kind = "ring" /\ RingFaceWait > 0)
  <2> DEFINE e   == NewEvent(id, kind, None)
             all == Append(sent, <<"StartRecording", id, FALSE>>)
  <2>1. Settle(e, q, spool, all)
    BY <1>4 DEF Trigger
  <2>2. e \in ActiveEvent /\ e.id = id /\ e.held = None
    <3>1. e \in ActiveEvent /\ e.id = id
      BY NewEventType
    <3> QED  BY <3>1 DEF NewEvent
  <2> HIDE DEF e, all, q, alert
  <2>3. ~ Holding(e) /\ ~ Overdue(e) /\ EventOK(e)
    BY <2>2 DEF Holding, Overdue, EventOK
  <2>4. AlertsKept
    BY <1>1, <1>4, <2>1, <2>2, <2>3, NewEventAlerts
  <2> QED  BY <1>1, <1>2, <2>1, <2>3, <2>4, RingStays
<1>5. CASE ~ withClip
  <2>1. Settle(event, q, spool, sent)
    BY <1>5 DEF Trigger
  <2> HIDE DEF q, alert, sent
  <2>2. AlertsKept
    BY <1>1, <2>1, SoundState, JoinsSame, HoldLeftAlone
  <2> QED  BY <1>1, <1>2, <2>1, <2>2, SoundState, RingStays
<1> QED  BY <1>3, <1>4, <1>5

\* A motion: nothing, the recording under way, or a new event.
LEMMA MotionKeepsAlerts == ASSUME IInv, Motion PROVE AlertsKept
<1>1. PICK id \in EventId \ InUse : MotionDetected(id)
  BY DEF Motion
<1>2. CASE Ignored
  BY <1>2, IgnoredKeepsAlerts
<1>3. CASE Settle(event, alerts, spool, <<>>)
  BY <1>3, SoundState, JoinsSame, HoldLeftAlone
<1>4. CASE recording = "Idle" /\ StartHolding(id, "motion", VerdictWait, <<>>)
  <2> DEFINE held == [due |-> VerdictWait, age |-> 0]
             e    == NewEvent(id, "motion", held)
             all  == Append(<<>>, <<"StartRecording", id, TRUE>>)
  <2>1. Settle(e, alerts, spool, all)
    BY <1>4 DEF StartHolding
  <2>2. held \in Held /\ ~ Reached(held.due)
    BY CoreAssumption, AlertQueueAssumption DEF Held, Reached
  <2>3. e \in ActiveEvent /\ e.id = id /\ e.held = held
    <3>1. e \in ActiveEvent /\ e.id = id
      BY <2>2, NewEventType DEF Kind
    <3> QED  BY <3>1 DEF NewEvent
  <2> HIDE DEF held, e, all
  <2> QED  BY <1>4, <2>1, <2>2, <2>3, SoundState, JoinsSame, NewEventAlerts DEF Overdue
<1>5. CASE recording = "Idle" /\ Trigger(id, "motion", viewers = {}, <<>>)
  BY <1>5, SoundState, TriggerAlerts DEF Kind
<1> QED  BY <1>1, <1>2, <1>3, <1>4, <1>5 DEF MotionDetected

\* A press on a motion: its alert stays held, as a ring's, or goes out as one.
LEMMA TakeOverAlerts ==
  ASSUME IInv, event # None, event.kind = "motion", TakeOver
  PROVE  AlertsKept /\ RingAnswered
<1> DEFINE ring   == [event EXCEPT !.kind = "ring", !.unwanted = FALSE]
           held   == [due |-> Lesser(event.held.due, RingFaceWait), age |-> 0]
           now    == [id |-> event.id, kind |-> "ring", faces |-> event.faces, age |-> 0]
           queued == PushAlert(alerts, now)
           q      == PumpAlerts(queued, online, shuttingDown)
           sent   == AlertSent(queued, online, shuttingDown)
<1>1. /\ EventOK(event) /\ event \in ActiveEvent /\ QueueOK(alerts)
      /\ online \in BOOLEAN /\ shuttingDown \in BOOLEAN
  BY SoundState DEF EventOK, IInv, CoreOK, CoreTypeOK
<1>2. /\ ring \in ActiveEvent /\ ring.id = event.id /\ ring.kind = "ring"
      /\ ring.held = event.held
  BY <1>1 DEF ActiveEvent, Kind
<1>3. CASE Holding(event) /\ RingFaceWait > 0
  <2> DEFINE e == [ring EXCEPT !.held = held]
  <2>1. Settle(e, alerts, spool, Chime)
    BY <1>3 DEF TakeOver
  <2>2. held \in Held /\ held.age = 0
    <3>1. event.held.due \in Nat
      BY <1>1, <1>3, HoldingFields DEF Held
    <3> QED  BY <3>1, CoreAssumption, AlertQueueAssumption DEF Held, Lesser
  <2> HIDE DEF held
  <2>3. e \in ActiveEvent /\ e.id = event.id /\ e.kind = "ring" /\ e.held = held
    BY <1>2, <2>2 DEF ActiveEvent
  <2> HIDE DEF e, ring
  <2>4. Holding(e) /\ EventOK(e) /\ e.held.age < AlertMaxAge
    BY <2>2, <2>3, OptionalAssumption, AlertQueueAssumption DEF Holding, EventOK
  <2>5. CASE ~ Overdue(e)
    <3>1. event' = e /\ JoinsNone(alerts, alerts')
      BY <1>1, <2>1, <2>4, <2>5, SettleAlerts
    <3>2. HoldSettled
      BY <2>3, <2>4, <3>1 DEF HoldSettled, Holding
    <3>3. ASSUME NEW id \in EventId PROVE AlertsOnce(id)
      BY <1>3, <2>3, <3>1 DEF AlertsOnce, JoinsNone
    <3> QED  BY <2>3, <2>4, <3>1, <3>2, <3>3 DEF AlertsKept, RingAnswered
  <2>6. CASE Overdue(e)
    <3>1. /\ event' = Released(e) /\ Joins(alerts, alerts', event.id, "ring")
          /\ Queued(alerts', HeldAlert(e, NoFaces))
      BY <1>1, <2>1, <2>3, <2>4, <2>6, SettleAlerts
    <3>2. ~ Holding(event') /\ event' # None /\ event'.id = event.id /\ event'.kind = "ring"
      <4>1. Released(e) \in ActiveEvent /\ Released(e).id = event.id
        BY <2>3, <2>4, HoldingFields
      <4>2. Released(e).held = None /\ Released(e).kind = "ring"
        BY <2>3 DEF Released, ActiveEvent
      <4> QED  BY <3>1, <4>1, <4>2, OptionalAssumption DEF Holding
    <3>3. HeldAlert(e, NoFaces).kind = "ring" /\ HeldAlert(e, NoFaces).age = 0
          /\ HeldAlert(e, NoFaces).id = event.id
      BY <2>2, <2>3 DEF HeldAlert
    <3>4. RingAnswered /\ QueuedAs(alerts', event.id, "ring")
      BY <3>1, <3>3, QueuedRing, QueuedAlert
    <3>5. HoldSettled
      BY <3>4 DEF HoldSettled
    <3>6. ASSUME NEW id \in EventId PROVE AlertsOnce(id)
      BY <1>3, <3>1, <3>2 DEF AlertsOnce, Joins
    <3> QED  BY <3>4, <3>5, <3>6 DEF AlertsKept
  <2> QED  BY <2>5, <2>6
<1>4. CASE ~ (Holding(event) /\ RingFaceWait > 0)
  <2> DEFINE e    == Released(ring)
             acts == Chime \o sent
  <2>1. Settle(e, q, spool, acts)
    BY <1>4 DEF TakeOver
  <2>2. now \in Alert /\ now.id = event.id /\ now.kind = "ring" /\ now.age = 0
    BY <1>1, AlertQueueAssumption DEF Alert, ActiveEvent, Kind
  <2>3. e \in ActiveEvent /\ e.id = event.id /\ e.kind = "ring" /\ e.held = None
    BY <1>2 DEF Released, ActiveEvent
  <2> HIDE DEF e, ring, now, acts, sent
  <2>4. QueueOK(q)
    BY <1>1, <2>2, PushOK, PumpOK
  <2>5. /\ Joins(alerts, q, event.id, "ring")
        /\ Len(q.entries) \in Positions(q.entries) /\ q.entries[Len(q.entries)] = now
    BY <1>1, <2>2, PushThenPump, AlertQueueAssumption
  <2> HIDE DEF q
  <2>6. ~ Holding(e) /\ ~ Overdue(e) /\ EventOK(e)
    BY <2>3 DEF Holding, Overdue, EventOK
  <2>7. event' = e /\ JoinsNone(q, alerts') /\ Remains(q, alerts')
    BY <2>1, <2>4, <2>6, SettleAlerts
  <2>8. Queued(alerts', now)
    BY <2>2, <2>5, <2>7, AlertQueueAssumption DEF Remains, Queued
  <2>9. RingAnswered /\ QueuedAs(alerts', event.id, "ring")
    BY <2>2, <2>8, QueuedRing, QueuedAlert
  <2>10. HoldSettled
    BY <2>9 DEF HoldSettled
  <2>11. e # None
    BY <2>3, OptionalAssumption
  <2>12. ASSUME NEW id \in EventId PROVE AlertsOnce(id)
    BY <2>3, <2>5, <2>6, <2>7, <2>11 DEF AlertsOnce, Joins, JoinsNone
  <2> QED  BY <2>9, <2>10, <2>12 DEF AlertsKept
<1> QED  BY <1>3, <1>4

\* A press: the same again, a ring's own recording, or a trigger.
LEMMA PressKeepsAlerts ==
  ASSUME IInv, Press
  PROVE  /\ AlertsKept
         /\ /\ ~ shuttingDown
            /\ Lapsed(pressWindow) = None
            /\ ~ (AlertCapacity <= 2 /\ Holding(event) /\ Reached(event.held.due))
            => (event # None /\ event.kind = "ring") \/ RingAnswered
<1>1. PICK id \in EventId \ InUse : ButtonPressed(id)
  BY DEF Press
<1>2. CASE shuttingDown
  <2>1. Ignored
    BY <1>1, <1>2 DEF ButtonPressed
  <2> QED  BY <1>2, <2>1, IgnoredKeepsAlerts
<1>3. CASE ~ shuttingDown
  <2>1. CASE /\ Lapsed(pressWindow) # None \/ RingUnderWay
             /\ Settle(event, alerts, spool, Chime)
    <3>1. AlertsKept
      BY <2>1, SoundState, JoinsSame, HoldLeftAlone
    <3> QED  BY <2>1, <3>1 DEF RingUnderWay, Recorded
  <2>2. CASE Recorded /\ event.kind = "motion" /\ TakeOver
    BY <2>2, TakeOverAlerts DEF Recorded
  <2>3. CASE Trigger(id, "ring", viewers = {} /\ recording = "Idle", Chime)
    <3>1. /\ AlertsKept
          /\ AlertCapacity > 2 \/ ~ Overdue(event) => RingAnswered
      BY <2>3, SoundState, TriggerAlerts DEF Kind
    <3> QED  BY <3>1, AlertQueueAssumption DEF Overdue
  <2> QED  BY <1>1, <1>3, <2>1, <2>2, <2>3 DEF ButtonPressed
<1> QED  BY <1>2, <1>3

-----------------------------------------------------------------------------
(* What else ends a hold.                                                  *)

\* A viewer cuts a recording short, and the hold goes on.
LEMMA CutShortEvent ==
  ASSUME IInv
  PROVE  EventOK(CutShort(event)) /\ SameHold(CutShort(event))
<1>1. EventOK(event)
  BY SoundState
<1>2. CASE event = None
  BY <1>2 DEF CutShort, EventOK, SameHold
<1>3. CASE event # None
  <2>1. event \in ActiveEvent /\ CutShort(event) = [event EXCEPT !.cutShort = TRUE]
    BY <1>1, <1>3 DEF EventOK, CutShort
  <2>2. /\ CutShort(event) \in ActiveEvent
        /\ CutShort(event).id = event.id
        /\ CutShort(event).kind = event.kind
        /\ CutShort(event).held = event.held
    BY <2>1 DEF ActiveEvent
  <2> HIDE DEF CutShort
  <2> QED  BY <1>3, <2>2, OptionalAssumption DEF EventOK, SameHold
<1> QED  BY <1>2, <1>3

\* A viewer arrives or leaves.
LEMMA ViewerKeepsAlerts ==
  ASSUME IInv, NEW peer \in Peer, Viewer(peer) \/ HangUp(peer)
  PROVE  AlertsKept
<1>1. ASSUME NEW acts, Settle(event, alerts, spool, acts) PROVE AlertsKept
  BY <1>1, SoundState, JoinsSame, HoldLeftAlone
<1>2. ASSUME NEW acts, Settle(CutShort(event), alerts, spool, acts) PROVE AlertsKept
  BY <1>2, SoundState, JoinsSame, CutShortEvent, HoldLeftAlone
<1> QED  BY <1>1, <1>2 DEF Viewer, HangUp, ViewerRequested, CallEnded, Ignored

\* A verdict sends the held alert on its way, or silences a motion.
LEMMA DetectorKeepsAlerts == ASSUME IInv, DetectorSpeaks PROVE AlertsKept
<1>1. PICK verdict \in Verdicts, faces \in Faces :
        DetectionResult(recorder.id, verdict, faces)
  BY DEF DetectorSpeaks
<1> DEFINE seen    == [event EXCEPT !.faces = IF verdict = "noPerson" THEN @ ELSE faces]
           stop    == recording = "Active"
           alert   == HeldAlert(event, faces)
           q       == PumpAlerts(PushAlert(alerts, alert), online, shuttingDown)
           sent    == AlertSent(PushAlert(alerts, alert), online, shuttingDown)
           dismissed == [seen EXCEPT !.held = None, !.unwanted = TRUE,
                                     !.cutShort = @ \/ stop]
<1>2. /\ QueueOK(alerts) /\ event \in ActiveEvent /\ event # None
      /\ online \in BOOLEAN /\ shuttingDown \in BOOLEAN
  <2>1. event # None
    BY DEF IInv, CameraOwnership, DetectorSpeaks
  <2> QED  BY <2>1, SoundState DEF EventOK, IInv, CoreOK, CoreTypeOK
<1>3. \/ ~ Holding(event) /\ Settle(seen, alerts, spool, <<>>)
      \/ Holding(event) /\ Settle(Released(seen), q, spool, sent)
      \/ /\ Holding(event) /\ event.kind = "motion"
         /\ \E acts : Settle(dismissed, alerts, spool, acts)
  <2>1. event.id = recorder.id
    BY DEF IInv, CameraOwnership, DetectorSpeaks
  <2> QED  BY <1>1, <1>2, <2>1 DEF DetectionResult
<1>4. /\ seen \in ActiveEvent /\ seen.id = event.id /\ seen.kind = event.kind
      /\ seen.held = event.held
  BY <1>2 DEF ActiveEvent
<1>5. CASE ~ Holding(event) /\ Settle(seen, alerts, spool, <<>>)
  <2> HIDE DEF seen
  <2>1. EventOK(seen) /\ SameHold(seen)
    BY <1>2, <1>4, OptionalAssumption DEF EventOK, SameHold
  <2> QED  BY <1>2, <1>5, <2>1, JoinsSame, HoldLeftAlone
<1>6. CASE Holding(event) /\ Settle(Released(seen), q, spool, sent)
  <2> DEFINE e == Released(seen)
  <2>1. e \in ActiveEvent /\ e.id = event.id /\ e.kind = event.kind /\ e.held = None
    BY <1>4 DEF Released, ActiveEvent
  <2>2. alert \in Alert
    BY <1>2, <1>6, HoldingFields DEF EventOK
  <2>3. alert.id = event.id /\ alert.kind = event.kind /\ alert.age = event.held.age
    BY DEF HeldAlert
  <2>4. Settle(e, q, spool, sent)
    BY <1>6
  <2> HIDE DEF seen, alert, sent, e
  <2>5. /\ QueueOK(q) /\ Joins(alerts, q, event.id, event.kind)
        /\ alert.age < AlertMaxAge => /\ Len(q.entries) \in Positions(q.entries)
                                      /\ q.entries[Len(q.entries)] = alert
    <3>1. QueueOK(q)
      BY <1>2, <2>2, PushOK, PumpOK
    <3> QED  BY <1>2, <2>2, <2>3, <3>1, PushThenPump
  <2> HIDE DEF q
  <2>6. ~ Holding(e) /\ ~ Overdue(e) /\ EventOK(e)
    BY <2>1 DEF Holding, Overdue, EventOK
  <2>7. event' = e /\ JoinsNone(q, alerts') /\ Remains(q, alerts')
    BY <2>4, <2>5, <2>6, SettleAlerts
  <2>8. HoldSettled
    <3>1. event.held.age \in 0 .. AlertMaxAge
      BY <1>2, <1>6, HoldingFields DEF EventOK, Held
    <3>2. alert.age < AlertMaxAge => Queued(alerts', alert)
      BY <2>5, <2>7 DEF Remains, Queued
    <3>3. event.held.age < AlertMaxAge => QueuedAs(alerts', event.id, event.kind)
      BY <2>3, <3>2, QueuedAlert
    <3> QED  BY <3>1, <3>3, AlertQueueAssumption DEF HoldSettled
  <2>9. ASSUME NEW id \in EventId PROVE AlertsOnce(id)
    BY <1>2, <1>6, <2>1, <2>5, <2>6, <2>7 DEF AlertsOnce, Joins, JoinsNone
  <2> QED  BY <2>8, <2>9 DEF AlertsKept
<1>7. CASE /\ Holding(event) /\ event.kind = "motion"
           /\ \E acts : Settle(dismissed, alerts, spool, acts)
  <2> DEFINE e == dismissed
  <2>1. PICK acts : Settle(e, alerts, spool, acts)
    BY <1>7
  <2>2. /\ e \in ActiveEvent /\ e.id = event.id /\ e.kind = event.kind
        /\ e.held = None /\ e.unwanted
    <3> HIDE DEF seen
    <3> QED  BY <1>4 DEF ActiveEvent
  <2> HIDE DEF e
  <2>3. ~ Holding(e) /\ ~ Overdue(e) /\ EventOK(e) /\ e # None
    BY <2>2, OptionalAssumption DEF Holding, Overdue, EventOK
  <2>4. event' = e /\ JoinsNone(alerts, alerts')
    BY <1>2, <2>1, <2>3, SettleAlerts
  <2>5. HoldSettled
    BY <1>7, <2>2, <2>3, <2>4 DEF HoldSettled
  <2>6. ASSUME NEW id \in EventId PROVE AlertsOnce(id)
    BY <1>7, <2>2, <2>3, <2>4 DEF AlertsOnce, JoinsNone
  <2> QED  BY <2>5, <2>6 DEF AlertsKept
<1> QED  BY <1>3, <1>5, <1>6, <1>7

\* The end of a recording queues what it was holding.
LEMMA RecorderKeepsAlerts == ASSUME IInv, RecorderEnds PROVE AlertsKept
<1> DEFINE queued == FlushHeld(alerts)
           q == IF Holding(event) THEN PumpAlerts(queued, online, shuttingDown) ELSE queued
<1>1. PICK s, acts : Settle(None, q, s, acts)
  BY DEF RecorderEnds, RecordingFinished
<1>2. /\ EventOK(event) /\ QueueOK(alerts)
      /\ online \in BOOLEAN /\ shuttingDown \in BOOLEAN
  BY SoundState DEF IInv, CoreOK, CoreTypeOK
<1>3. EventOK(None) /\ ~ Holding(None) /\ ~ Overdue(None)
  BY DEF EventOK, Holding, Overdue
<1>4. CASE ~ Holding(event)
  <2>1. q = alerts
    BY <1>4 DEF FlushHeld
  <2> HIDE DEF q
  <2>2. event' = None /\ JoinsNone(alerts, alerts')
    BY <1>1, <1>2, <1>3, <2>1, SettleAlerts
  <2>3. HoldSettled
    BY <1>4 DEF HoldSettled
  <2>4. ASSUME NEW id \in EventId PROVE AlertsOnce(id)
    BY <2>2 DEF AlertsOnce, JoinsNone
  <2> QED  BY <2>3, <2>4 DEF AlertsKept
<1>5. CASE Holding(event)
  <2> DEFINE alert == HeldAlert(event, NoFaces)
  <2>1. q = PumpAlerts(PushAlert(alerts, alert), online, shuttingDown)
    BY <1>5 DEF FlushHeld
  <2>2. alert \in Alert
    BY <1>2, <1>5, HoldingFields, CoreAssumption
  <2>3. alert.id = event.id /\ alert.kind = event.kind /\ alert.age = event.held.age
    BY DEF HeldAlert
  <2> HIDE DEF alert, q
  <2>4. /\ QueueOK(q) /\ Joins(alerts, q, event.id, event.kind)
        /\ alert.age < AlertMaxAge => /\ Len(q.entries) \in Positions(q.entries)
                                      /\ q.entries[Len(q.entries)] = alert
    <3>1. QueueOK(q)
      BY <1>2, <2>1, <2>2, PushOK, PumpOK
    <3> QED  BY <1>2, <2>1, <2>2, <2>3, <3>1, PushThenPump
  <2>5. event' = None /\ JoinsNone(q, alerts') /\ Remains(q, alerts')
    BY <1>1, <1>3, <2>4, SettleAlerts
  <2>6. HoldSettled
    <3>1. event.held.age \in 0 .. AlertMaxAge
      BY <1>2, <1>5, HoldingFields DEF Held
    <3>2. alert.age < AlertMaxAge => Queued(alerts', alert)
      BY <2>4, <2>5 DEF Remains, Queued
    <3>3. event.held.age < AlertMaxAge => QueuedAs(alerts', event.id, event.kind)
      BY <2>3, <3>2, QueuedAlert
    <3> QED  BY <3>1, <3>3, AlertQueueAssumption DEF HoldSettled
  <2>7. ASSUME NEW id \in EventId PROVE AlertsOnce(id)
    BY <1>5, <2>4, <2>5 DEF AlertsOnce, Joins, JoinsNone, Holding
  <2> QED  BY <2>6, <2>7 DEF AlertsKept
<1> QED  BY <1>4, <1>5

\* The answers of the link and of the uploader, and the link itself, add no
\* alert; nor does the timer, nor a shutdown.
LEMMA OthersKeepAlerts ==
  ASSUME IInv, LinkAnswers \/ LinkUp \/ LinkDown \/ UploadEnds \/ UploadRefused \/ Wake \/ Signal
  PROVE  AlertsKept
<1>1. EventOK(event) /\ QueueOK(alerts)
  BY SoundState
<1>2. ASSUME NEW s, NEW acts, Settle(event, alerts, s, acts) PROVE AlertsKept
  BY <1>1, <1>2, JoinsSame, HoldLeftAlone
<1>3. CASE LinkUp \/ UploadEnds \/ UploadRefused \/ Wake
  BY <1>2, <1>3 DEF LinkUp, ServerOnline, UploadEnds, UploadRefused, UploadFinished, Wake,
                    Tick, Ignored
<1>4. CASE Signal
  <2>1. ASSUME NEW acts, Settle(CutShort(event), alerts, spool, acts) PROVE AlertsKept
    BY <1>1, <2>1, JoinsSame, CutShortEvent, HoldLeftAlone
  <2> QED  BY <1>2, <1>4, <2>1 DEF Signal, Shutdown
<1>5. CASE LinkDown
  <2> DEFINE q == AlertLinkLost(alerts)
  <2>1. QueueOK(q) /\ JoinsFresh(alerts, q)
    <3>1. q \in AlertQueueType /\ ~ q.inFlight /\ q.entries = alerts.entries
      BY <1>1, AlertLinkLostProperties DEF QueueOK
    <3> QED  BY <1>1, <3>1 DEF QueueOK, JoinsFresh, QueuedAs
  <2>2. Settle(event, q, UploadLinkLost(spool), <<>>)
    BY <1>5 DEF LinkDown, ServerOffline
  <2> HIDE DEF q
  <2> QED  BY <1>1, <2>1, <2>2, JoinsSame, HoldLeftAlone
<1>6. CASE LinkAnswers
  <2>1. PICK outcome \in AlertOutcome :
          AlertResult(unanswered.id, unanswered.kind, outcome)
    BY <1>6 DEF LinkAnswers
  <2> DEFINE q == AlertAnswered(alerts, unanswered.id, unanswered.kind, outcome)
  <2>2. Settle(event, q, spool, <<>>)
    BY <2>1 DEF AlertResult
  <2>3. alerts \in AlertQueueType
    BY <1>1 DEF QueueOK
  <2>4. /\ q \in AlertQueueType
        /\ Len(q.entries) <= Len(alerts.entries)
        /\ q.inFlight => q = alerts
        /\ \A k \in Positions(q.entries) :
             \E i \in Positions(alerts.entries) : q.entries[k] = alerts.entries[i]
    BY <2>3, AlertAnsweredProperties, AlertAnsweredEntries
  <2> HIDE DEF q
  <2>5. QueueOK(q)
    <3>1. Len(q.entries) \in Nat /\ Len(alerts.entries) \in Nat
      BY <2>3, <2>4, QueueFields, LenProperties
    <3>2. QueueLimit \in Nat
      BY AlertQueueAssumption DEF QueueLimit
    <3> QED  BY <1>1, <2>4, <3>1, <3>2 DEF QueueOK
  <2>6. JoinsFresh(alerts, q)
    BY <2>4 DEF JoinsFresh, QueuedAs
  <2> QED  BY <1>1, <2>2, <2>5, <2>6, JoinsSame, HoldLeftAlone
<1> QED  BY <1>3, <1>4, <1>5, <1>6

\* Time makes the alert that is held older, and the queued ones.
LEMMA WaitKeepsAlerts == ASSUME IInv, Wait PROVE AlertsKept
<1>1. event' = EventOlder(event) /\ alerts' = AlertsOlder(alerts)
  BY DEF Wait, TimePasses
<1>2. EventOK(event) /\ alerts \in AlertQueueType
  BY SoundState DEF QueueOK
<1>3. JoinsNone(alerts, alerts')
  <2>1. /\ Len(alerts'.entries) = Len(alerts.entries)
        /\ \A i \in 1 .. Len(alerts.entries) :
             /\ alerts'.entries[i].id = alerts.entries[i].id
             /\ alerts'.entries[i].kind = alerts.entries[i].kind
    BY <1>1, <1>2, AlertsOlderProperties
  <2> QED  BY <2>1 DEF JoinsNone, QueuedAs, Positions
<1>4. /\ event = None => event' = None
      /\ event # None => /\ event' # None /\ event'.id = event.id
                         /\ event'.kind = event.kind
                         /\ Holding(event') <=> Holding(event)
  <2>1. CASE ~ Holding(event)
    BY <1>1, <2>1 DEF EventOlder
  <2>2. CASE Holding(event)
    <3> DEFINE held == [due |-> Closer(event.held.due), age |-> Older(event.held.age)]
    <3>1. event' = [event EXCEPT !.held = held]
      BY <1>1, <2>2 DEF EventOlder
    <3>2. held \in Held
      <4>1. event.held.due \in Nat /\ event.held.age \in 0 .. AlertMaxAge
        BY <1>2, <2>2, HoldingFields DEF Held
      <4> QED  BY <4>1, AlertQueueAssumption DEF Held, Closer, Older
    <3> HIDE DEF held
    <3>3. event \in ActiveEvent
      BY <1>2, <2>2, HoldingFields
    <3>4. /\ event' \in ActiveEvent /\ event'.id = event.id /\ event'.kind = event.kind
          /\ event'.held = held
      BY <3>1, <3>2, <3>3 DEF ActiveEvent
    <3> QED  BY <2>2, <3>2, <3>4, OptionalAssumption DEF Holding
  <2> QED  BY <2>1, <2>2
<1>5. HoldSettled
  BY <1>4 DEF HoldSettled, Holding
<1>6. ASSUME NEW id \in EventId PROVE AlertsOnce(id)
  BY <1>3, <1>4 DEF AlertsOnce, JoinsNone
<1> QED  BY <1>5, <1>6 DEF AlertsKept

\* Every step.
LEMMA NextKeepsAlerts == ASSUME IInv, Next PROVE AlertsKept
BY MotionKeepsAlerts, PressKeepsAlerts, ViewerKeepsAlerts, DetectorKeepsAlerts,
   RecorderKeepsAlerts, OthersKeepAlerts, WaitKeepsAlerts DEF Next

-----------------------------------------------------------------------------
(* The chime and the stop of a recording.                                  *)

Stops == recording = "Active" /\ recording' = "Stopping"

\* Only a press is heard, and only a recording that runs is stopped.
LEMMA NotAsked ==
  ASSUME IInv, Next, NEW what \in {"PlayChime", "StopRecording"},
         what = "PlayChime" => ~ (Press /\ ~ shuttingDown),
         what = "StopRecording" => ~ Stops
  PROVE  AskedOf(what, out') = {}
<1> DEFINE Silent(acts) == Listed(acts) /\ AskedOf(what, acts) = {}
<1>1. ASSUME NEW e, NEW q, NEW s, NEW acts, Silent(acts), Settle(e, q, s, acts)
      PROVE  AskedOf(what, out') = {}
  BY <1>1, SettleAsks
<1>2. Silent(<<>>)
  BY ListedForms, AskedOfNothing
<1>3. ASSUME NEW a, a[1] # what PROVE Silent(<<a>>)
  BY <1>3, ListedForms, AskedOfOne
<1>4. ASSUME NEW a, NEW b, Silent(a), Silent(b) PROVE Silent(a \o b)
  BY <1>4, ListedJoin
<1>5. ASSUME NEW q, NEW isOnline, NEW stopping PROVE Silent(AlertSent(q, isOnline, stopping))
  BY ListedForms
<1> HIDE DEF Silent
<1>6. ASSUME NEW id, NEW flag PROVE Silent(<<<<"StartRecording", id, flag>>>>)
  <2> DEFINE a == <<"StartRecording", id, flag>>
  <2>1. a[1] # what
    OBVIOUS
  <2> HIDE DEF a
  <2> QED  BY <2>1, <1>3 DEF a
<1>7. ASSUME NEW asked, NEW x, asked # what PROVE Silent(<<<<asked, x>>>>)
  <2> DEFINE a == <<asked, x>>
  <2>1. a[1] # what
    BY <1>7
  <2> HIDE DEF a
  <2> QED  BY <2>1, <1>3 DEF a
<1>8. ASSUME NEW asked, asked # what PROVE Silent(<<<<asked>>>>)
  <2> DEFINE a == <<asked>>
  <2>1. a[1] # what
    BY <1>8
  <2> HIDE DEF a
  <2> QED  BY <2>1, <1>3 DEF a
<1>9. ASSUME NEW acts, NEW id, NEW looking, Silent(acts)
      PROVE  Silent(Append(acts, <<"StartRecording", id, looking>>))
  <2>1. Append(acts, <<"StartRecording", id, looking>>)
          = acts \o <<<<"StartRecording", id, looking>>>>
    <3>1. PICK S : acts \in Seq(S)
      BY <1>9 DEF Silent, Listed
    <3> DEFINE a == <<"StartRecording", id, looking>>
               U == S \cup {a}
    <3>2. acts \in Seq(U) /\ a \in U
      BY <3>1
    <3> HIDE DEF a, U
    <3>3. Append(acts, a) = acts \o <<a>>
      BY <3>2, AppendIsConcat
    <3> QED  BY <3>3 DEF a
  <2> QED  BY <1>9, <2>1, <1>4, <1>6
<1>10. CASE Ignored
  BY <1>1, <1>2, <1>10 DEF Ignored
<1>11. ASSUME NEW id, NEW kind, NEW wait, NEW acts, Silent(acts),
              StartHolding(id, kind, wait, acts)
       PROVE  AskedOf(what, out') = {}
  BY <1>1, <1>9, <1>11 DEF StartHolding
<1>12. ASSUME NEW id, NEW kind, NEW withClip, NEW acts, Silent(acts),
              Trigger(id, kind, withClip, acts)
       PROVE  AskedOf(what, out') = {}
  <2> DEFINE queued == PushAlert(alerts, NewAlert(id, kind))
             sent   == acts \o AlertSent(queued, online, shuttingDown)
  <2>1. Silent(sent)
    <3> HIDE DEF queued
    <3> QED  BY <1>4, <1>5, <1>12
  <2>2. Silent(Append(sent, <<"StartRecording", id, FALSE>>))
    <3> HIDE DEF sent
    <3> QED  BY <1>9, <2>1
  <2>3. \/ StartHolding(id, kind, RingFaceWait, acts)
        \/ \E e, q : Settle(e, q, spool, Append(sent, <<"StartRecording", id, FALSE>>))
        \/ \E e, q : Settle(e, q, spool, sent)
    BY <1>12 DEF Trigger
  <2> HIDE DEF sent
  <2> QED  BY <1>1, <1>11, <1>12, <2>1, <2>2, <2>3
<1>13. CASE Motion
  BY <1>1, <1>2, <1>10, <1>11, <1>12, <1>13 DEF Motion, MotionDetected
<1>14. CASE Press /\ shuttingDown
  BY <1>10, <1>14 DEF Press, ButtonPressed
<1>15. CASE Press /\ what = "StopRecording"
  <2>1. Silent(Chime)
    BY <1>8, <1>15 DEF Chime
  <2>2. CASE TakeOver
    <3> DEFINE now    == [id |-> event.id, kind |-> "ring", faces |-> event.faces, age |-> 0]
               queued == PushAlert(alerts, now)
               sent   == AlertSent(queued, online, shuttingDown)
    <3>1. \E e, q : Settle(e, q, spool, Chime) \/ Settle(e, q, spool, Chime \o sent)
      BY <2>2 DEF TakeOver
    <3>2. Silent(Chime \o sent)
      <4> HIDE DEF queued
      <4> QED  BY <1>4, <1>5, <2>1
    <3> HIDE DEF sent
    <3> QED  BY <1>1, <2>1, <3>1, <3>2
  <2> QED  BY <1>1, <1>10, <1>12, <1>15, <2>1, <2>2 DEF Press, ButtonPressed
<1>16. Silent(StopRecording) \/ ~ Stops
  BY <1>8 DEF StopRecording
<1>17. ASSUME NEW peer \in Peer, Viewer(peer) \/ HangUp(peer)
       PROVE  AskedOf(what, out') = {}
  <2>1. CASE /\ recording = "Active" /\ recording' = "Stopping"
             /\ Settle(CutShort(event), alerts, spool, StopRecording)
    BY <1>1, <1>16, <2>1 DEF Stops
  <2> QED  BY <1>1, <1>2, <1>7, <1>10, <1>17, <2>1
           DEF Viewer, HangUp, ViewerRequested, CallEnded
<1>18. CASE DetectorSpeaks
  <2>1. PICK verdict \in Verdicts, faces \in Faces :
          DetectionResult(recorder.id, verdict, faces)
    BY <1>18 DEF DetectorSpeaks
  <2>2. CASE /\ recording = "Active" /\ recording' = "Stopping"
             /\ \E e : Settle(e, alerts, spool, StopRecording)
    BY <1>1, <1>16, <2>2 DEF Stops
  <2>3. CASE ~ Ignored
    <3> DEFINE queued == PushAlert(alerts, HeldAlert(event, faces))
               sent   == AlertSent(queued, online, shuttingDown)
    <3>1. \/ \E e : Settle(e, alerts, spool, <<>>)
          \/ \E e, q : Settle(e, q, spool, sent)
          \/ /\ recording = "Active" /\ recording' = "Stopping"
             /\ \E e : Settle(e, alerts, spool, StopRecording)
      BY <2>1, <2>3 DEF DetectionResult
    <3>2. Silent(sent)
      <4> HIDE DEF queued
      <4> QED  BY <1>5
    <3> HIDE DEF sent
    <3> QED  BY <1>1, <1>2, <2>2, <3>1, <3>2
  <2> QED  BY <1>10, <2>3
<1>19. CASE RecorderEnds
  <2>1. PICK file \in Files : RecordingFinished(recorder.id, file)
    BY <1>19 DEF RecorderEnds
  <2> DEFINE id     == recorder.id
             queued == FlushHeld(alerts)
             sent   == IF Holding(event)
                         THEN AlertSent(queued, online, shuttingDown) ELSE <<>>
             keep   == /\ file.ok /\ file.bytes > 0 /\ file.long
                       /\ event # None
                       /\ event.id = id
                       /\ ~ event.unwanted
             clip   == [id |-> id, kind |-> event.kind, bytes |-> file.bytes,
                        partial |-> event.cutShort]
             gone   == IF keep THEN ClipsDropped(spool, clip) ELSE <<>>
             drops  == IF keep
                         THEN [i \in 1 .. Len(gone) |-> <<"DiscardClip", gone[i].id>>]
                         ELSE IF file.exists THEN <<<<"DiscardClip", id>>>> ELSE <<>>
             call   == IF deferred = None THEN <<>> ELSE <<<<"StartCall", deferred>>>>
  <2>2. PICK q, s : Settle(None, q, s, sent \o drops \o call)
    BY <2>1 DEF RecordingFinished
  <2>3. Silent(sent) /\ Silent(call)
    <3>1. Silent(call)
      BY <1>2, <1>7
    <3> HIDE DEF queued
    <3> QED  BY <1>2, <1>5, <3>1
  <2>4. Silent(drops)
    <3>1. CASE ~ keep
      <4>1. drops \in {<<>>, <<<<"DiscardClip", id>>>>}
        BY <3>1
      <4> HIDE DEF drops, id
      <4> QED  BY <4>1, <1>2, <1>7
    <3>2. CASE keep
      <4>1. /\ id \in EventId /\ file.bytes \in Nat
            /\ spool \in SpoolType /\ (spool.inFlight => spool.clips # <<>>)
            /\ event \in ActiveEvent \cup {None}
        BY <1>19, DoorbellAssumption
           DEF IInv, TypeOK, CoreOK, SpoolOK, CoreTypeOK, RecorderEnds, Recording, File
      <4>2. clip \in Clip
        BY <3>2, <4>1 DEF Clip, ActiveEvent
      <4>3. gone = ClipsDropped(spool, clip)
            /\ drops = [i \in 1 .. Len(gone) |-> <<"DiscardClip", gone[i].id>>]
        BY <3>2
      <4> HIDE DEF clip, keep, gone, id, drops
      <4>4. gone \in Seq(Clip)
        BY <4>1, <4>2, <4>3, AddClipProperties
      <4>5. Harmless(drops)
        BY <4>3, <4>4, DiscardsHarmless
      <4>6. drops \in Seq(Action)
        BY <4>5 DEF Harmless
      <4>7. AskedOf(what, drops) = {}
        <5>1. Len(gone) \in Nat /\ Len(drops) = Len(gone)
          <6>1. Len(gone) \in Nat
            BY <4>4, LenProperties
          <6> QED  BY <4>3, <4>6, <6>1, LenProperties
        <5>2. \A i \in 1 .. Len(drops) : drops[i][1] = "DiscardClip"
          BY <4>3, <5>1
        <5> QED  BY <5>2 DEF AskedOf
      <4> QED  BY <4>6, <4>7 DEF Silent, Listed
    <3> QED  BY <3>1, <3>2
  <2> HIDE DEF sent, drops, call
  <2>5. Silent((sent \o drops) \o call)
    BY <2>3, <2>4, <1>4
  <2> QED  BY <1>1, <2>2, <2>5
<1>20. CASE UploadEnds \/ UploadRefused \/ LinkAnswers \/ LinkUp \/ LinkDown \/ Wake
  BY <1>1, <1>2, <1>10, <1>20
     DEF UploadEnds, UploadRefused, UploadFinished, LinkAnswers, AlertResult, LinkUp,
         ServerOnline, LinkDown, ServerOffline, Wake, Tick
<1>21. CASE Signal
  <2> DEFINE stop    == IF recording = "Active" THEN StopRecording ELSE <<>>
             calling == IF viewers # {} THEN <<<<"StopCall">>>> ELSE <<>>
             dark    == IF led = "Off" THEN <<<<"SetLed", "Off">>>> ELSE <<>>
  <2>1. Silent(stop)
    <3>1. recording = "Active" => Stops
      BY <1>21 DEF Signal, Shutdown, Stops
    <3> QED  BY <1>2, <1>16, <3>1
  <2>2. Silent(calling) /\ Silent(dark)
    BY <1>2, <1>7, <1>8
  <2>3. PICK e : Settle(e, alerts, spool, stop \o calling \o dark)
    BY <1>21 DEF Signal, Shutdown
  <2> HIDE DEF stop, calling, dark
  <2>4. Silent(stop \o calling \o dark)
    BY <2>1, <2>2, <1>4
  <2> QED  BY <1>1, <2>3, <2>4
<1>22. CASE Wait
  BY <1>22, AskedOfNothing DEF Wait, TimePasses
<1> QED  BY <1>13, <1>14, <1>15, <1>17, <1>18, <1>19, <1>20, <1>21, <1>22 DEF Next

\* What all but six of the actions do with the camera: a motion or a press may
\* take it when it is free, the others leave it alone.
LEMMA CameraLeft ==
  ASSUME IInv,
         \/ Motion \/ Press \/ UploadEnds \/ UploadRefused \/ LinkAnswers
         \/ LinkUp \/ LinkDown \/ Wake
  PROVE  CameraUntouched \/ CameraRecords
<1>1. CASE Motion
  BY <1>1, MotionContract DEF IInv, Motion
<1>2. CASE Press
  BY <1>2, PressContract DEF IInv, Press
<1>3. CASE UploadEnds \/ UploadRefused
  BY <1>3, UploadFinishedContract DEF IInv, UploadEnds, UploadRefused
<1>4. CASE LinkAnswers
  BY <1>4, AlertResultContract DEF IInv, LinkAnswers
<1>5. CASE LinkUp
  BY <1>5, ServerOnlineContract DEF IInv, LinkUp
<1>6. CASE LinkDown
  BY <1>6, ServerOfflineContract DEF IInv, LinkDown
<1>7. CASE Wake
  BY <1>7, IgnoredContract DEF IInv, Wake, Tick
<1> QED  BY <1>1, <1>2, <1>3, <1>4, <1>5, <1>6, <1>7

\* A recording the core counts as stopping is one it has asked to stop.
LEMMA StopAsked ==
  ASSUME IInv, Next, Stops
  PROVE  AskedOf("StopRecording", out') # {}
<1>1. Listed(StopRecording) /\ AskedOf("StopRecording", StopRecording) # {}
  <2> DEFINE a == <<"StopRecording">>
  <2>1. a[1] = "StopRecording"
    OBVIOUS
  <2> HIDE DEF a
  <2>2. Listed(<<a>>) /\ AskedOf("StopRecording", <<a>>) = {a}
    BY <2>1, ListedForms, AskedOfOne
  <2> QED  BY <2>2 DEF a, StopRecording
<1> HIDE DEF StopRecording
<1>2. ASSUME NEW e, NEW q, NEW s, Settle(e, q, s, StopRecording)
      PROVE  AskedOf("StopRecording", out') # {}
  BY <1>1, <1>2, SettleAsks
<1>3. ASSUME CameraUntouched \/ CameraRecords PROVE FALSE
  BY <1>3 DEF Stops, CameraUntouched, CameraRecords, camera
<1>4. CASE \/ Motion \/ Press \/ UploadEnds \/ UploadRefused \/ LinkAnswers
           \/ LinkUp \/ LinkDown \/ Wake
  BY <1>3, <1>4, CameraLeft
<1>5. ASSUME NEW peer \in Peer, Viewer(peer) \/ HangUp(peer)
      PROVE  AskedOf("StopRecording", out') # {}
  <2>1. /\ recording = "Active" /\ recording' = "Stopping"
        /\ "Active" # "Stopping" /\ "Active" # "Idle"
    BY DEF Stops
  <2>2. Settle(CutShort(event), alerts, spool, StopRecording)
    BY <1>3, <1>5, <2>1
       DEF Viewer, HangUp, ViewerRequested, CallEnded, Ignored, camera
  <2> QED  BY <1>2, <2>2
<1>6. CASE DetectorSpeaks
  <2>1. PICK verdict \in Verdicts, faces \in Faces :
          DetectionResult(recorder.id, verdict, faces)
    BY <1>6 DEF DetectorSpeaks
  <2>2. /\ recording = "Active" /\ recording' = "Stopping" /\ "Active" # "Stopping"
    BY DEF Stops
  <2>3. \E e : Settle(e, alerts, spool, StopRecording)
    BY <2>1, <2>2 DEF DetectionResult, Ignored, camera
  <2> QED  BY <1>2, <2>3
<1>7. CASE RecorderEnds
  <2>1. PICK file \in Files : RecordingFinished(recorder.id, file)
    BY <1>7 DEF RecorderEnds
  <2>2. GrantCamera
    BY <2>1 DEF RecordingFinished
  <2>3. recording' = "Idle"
    BY <2>2 DEF GrantCamera
  <2> QED  BY <2>3 DEF Stops
<1>8. CASE Signal
  <2> DEFINE calling == IF viewers # {} THEN <<<<"StopCall">>>> ELSE <<>>
             dark    == IF led = "Off" THEN <<<<"SetLed", "Off">>>> ELSE <<>>
  <2>1. PICK e : Settle(e, alerts, spool, StopRecording \o calling \o dark)
    BY <1>8 DEF Signal, Shutdown, Stops
  <2>2. Listed(calling) /\ Listed(dark)
    BY ListedForms
  <2> HIDE DEF calling, dark
  <2>3. /\ Listed(StopRecording \o calling \o dark)
        /\ AskedOf("StopRecording", StopRecording \o calling \o dark) # {}
    <3>1. /\ Listed(StopRecording \o calling)
          /\ AskedOf("StopRecording", StopRecording \o calling) # {}
      BY <1>1, <2>2, ListedJoin
    <3> QED  BY <2>2, <3>1, ListedJoin
  <2> QED  BY <2>1, <2>3, SettleAsks
<1>9. CASE Wait
  BY <1>9 DEF Wait, TimePasses, camera, Stops
<1> QED  BY <1>4, <1>5, <1>6, <1>7, <1>8, <1>9 DEF Next

-----------------------------------------------------------------------------
(* The theorems.                                                           *)

\* Core::check_verdict_deadline, on_detection, on_button, on_recording_finished:
\* a held alert ends as a queued one or in a deliberate silence, whatever the
\* waits, the capacity and the order of the events.
THEOREM HeldAlertsSettle == Spec => HeldAlertSettled
<1>1. IInv /\ [Next]_vars => [HoldSettled]_vars
  BY NextKeepsAlerts DEF AlertsKept
<1>2. Spec => [][HoldSettled]_vars
  BY <1>1, Invariance, PTL DEF Spec
<1> QED  BY <1>2 DEF HeldAlertSettled, HoldSettled

\* Core::trigger, take_over and the ends of a hold: an event alerts once as what
\* it began as, and once more if a press makes a ring of it.
THEOREM AlertsOnceEach == Spec => AlertedOnce
<1> DEFINE Once == \A id \in EventId : AlertsOnce(id)
<1>1. IInv /\ [Next]_vars => [Once]_vars
  BY NextKeepsAlerts DEF AlertsKept
<1> HIDE DEF Once
<1>2. Spec => [][Once]_vars
  BY <1>1, Invariance, PTL DEF Spec
<1> QED  BY <1>2 DEF AlertedOnce, Once, AlertsOnce

\* Core::on_button: a press that opens a new window is answered by a ring, for
\* every capacity of the queue, the corner of a queue for two excepted.
THEOREM EveryPressAlerts == Spec => PressAlerts
<1> DEFINE Answered ==
             /\ Asked("PlayChime")' # {}
             /\ Lapsed(pressWindow) = None
             /\ ~ (AlertCapacity <= 2 /\ Holding(event) /\ Reached(event.held.due))
             => \/ event # None /\ event.kind = "ring"
                \/ Holding(event') /\ event'.kind = "ring"
                \/ \E i \in Positions(alerts'.entries) :
                     alerts'.entries[i].kind = "ring" /\ alerts'.entries[i].age = 0
<1>1. IInv /\ [Next]_vars => [Answered]_vars
  <2> SUFFICES ASSUME IInv, Next PROVE Answered
    OBVIOUS
  <2>1. Asked("PlayChime")' = AskedOf("PlayChime", out')
    BY DEF Asked, AskedOf
  <2>2. CASE ~ (Press /\ ~ shuttingDown)
    BY <2>1, <2>2, NotAsked
  <2>3. CASE Press /\ ~ shuttingDown
    BY <2>3, PressKeepsAlerts DEF RingAnswered
  <2> QED  BY <2>2, <2>3
<1> HIDE DEF Answered
<1>2. Spec => [][Answered]_vars
  BY <1>1, Invariance, PTL DEF Spec
<1> QED  BY <1>2 DEF PressAlerts, Answered

\* Recorder and CallProcess are modelled with commands in this order, and the
\* daemon gives them in no other: a recording is started when none runs, is
\* stopped once while it does, and is over only when the recorder says so; a
\* viewer the core lets in is one whose call it starts, and it starts none
\* while the recorder has the camera.
CommandTurn ==
  /\ Asked("StartRecording")' # {} <=> recording = "Idle" /\ recording' = "Active"
  /\ Asked("StopRecording")' # {} <=> recording = "Active" /\ recording' = "Stopping"
  /\ recording # "Idle" /\ recording' = "Idle" => RecorderEnds
  /\ viewers' \ viewers \subseteq {a[2] : a \in Asked("StartCall")'}
  /\ {a[2] : a \in Asked("StartCall")'} \subseteq viewers'
  /\ Asked("StartCall")' # {} => recording' = "Idle"

CommandsInTurn == [][CommandTurn]_vars

\* What it says of a step but for the stop of a recording.
CameraInTurn ==
  /\ AskedOf("StartRecording", out') # {} <=> recording = "Idle" /\ recording' = "Active"
  /\ recording # "Idle" /\ recording' = "Idle" => RecorderEnds
  /\ viewers' \ viewers \subseteq {a[2] : a \in AskedOf("StartCall", out')}
  /\ {a[2] : a \in AskedOf("StartCall", out')} \subseteq viewers'
  /\ AskedOf("StartCall", out') # {} => recording' = "Idle"

\* Every action takes its turn.
LEMMA TurnsTaken == ASSUME IInv, Next PROVE CameraInTurn
<1>1. ASSUME CameraUntouched PROVE CameraInTurn
  BY <1>1 DEF CameraUntouched, CameraInTurn, Nothing, camera
<1>2. ASSUME CameraRecords PROVE CameraInTurn
  BY <1>2 DEF CameraRecords, CameraInTurn, Nothing
<1>3. CASE \/ Motion \/ Press \/ UploadEnds \/ UploadRefused \/ LinkAnswers
           \/ LinkUp \/ LinkDown \/ Wake
  BY <1>1, <1>2, <1>3, CameraLeft
<1>4. ASSUME NEW peer \in Peer, Viewer(peer) PROVE CameraInTurn
  <2>1. /\ shuttingDown => CameraUntouched
        /\ ~ shuttingDown =>
             /\ AskedOf("StartRecording", out') = {}
             /\ \/ /\ recording # "Idle" /\ recording' = "Stopping"
                   /\ UNCHANGED viewers
                   /\ AskedOf("StartCall", out') = {}
                \/ /\ recording = "Idle" /\ viewers' = viewers \cup {peer}
                   /\ UNCHANGED recording
                   /\ AskedOf("StartCall", out') = {<<"StartCall", peer>>}
    BY <1>4, ViewerContract DEF IInv, Viewer, Nothing
  <2>2. {a[2] : a \in {<<"StartCall", peer>>}} = {peer}
    OBVIOUS
  <2> QED  BY <1>1, <2>1, <2>2 DEF CameraInTurn
<1>5. ASSUME NEW peer \in Peer, HangUp(peer) PROVE CameraInTurn
  <2>1. /\ viewers' = viewers \ {peer} /\ recording' = recording
        /\ AskedOf("StartRecording", out') = {} /\ AskedOf("StartCall", out') = {}
    BY <1>5, CallEndedContract DEF IInv, HangUp, Nothing
  <2> QED  BY <2>1 DEF CameraInTurn
<1>6. CASE DetectorSpeaks
  <2>1. PICK verdict \in Verdicts, faces \in Faces :
          DetectionResult(recorder.id, verdict, faces)
    BY <1>6 DEF DetectorSpeaks
  <2>2. recorder.id \in EventId
    BY <1>6 DEF IInv, TypeOK, DetectorSpeaks, Recording
  <2>3. /\ viewers' = viewers
        /\ recording' = recording \/ (recording = "Active" /\ recording' = "Stopping")
        /\ AskedOf("StartRecording", out') = {} /\ AskedOf("StartCall", out') = {}
    BY <2>1, <2>2, DetectionContract DEF IInv, Nothing
  <2> QED  BY <2>3 DEF CameraInTurn
<1>7. CASE RecorderEnds
  <2>1. PICK file \in Files : RecordingFinished(recorder.id, file)
    BY <1>7 DEF RecorderEnds
  <2>2. /\ recorder.id \in EventId /\ file.bytes \in Nat
        /\ shuttingDown => deferred = None
    BY <1>7, DoorbellAssumption
       DEF IInv, TypeOK, RecorderEnds, Recording, File, NobodyAfterShutdown
  <2>3. /\ recording' = "Idle"
        /\ viewers' = viewers \cup (IF deferred = None THEN {} ELSE {deferred})
        /\ AskedOf("StartRecording", out') = {}
        /\ AskedOf("StartCall", out')
             = IF deferred = None THEN {} ELSE {<<"StartCall", deferred>>}
    BY <2>1, <2>2, RecordingFinishedContract DEF IInv, Nothing
  <2>4. {a[2] : a \in AskedOf("StartCall", out')}
          = IF deferred = None THEN {} ELSE {deferred}
    <3> DEFINE peer == deferred
    <3> HIDE DEF peer
    <3>1. {a[2] : a \in {<<"StartCall", peer>>}} = {peer}
      OBVIOUS
    <3> QED  BY <2>3, <3>1 DEF peer
  <2> QED  BY <1>7, <2>3, <2>4 DEF CameraInTurn
<1>8. CASE Signal
  <2>1. /\ viewers' = {}
        /\ recording' = IF recording = "Active" THEN "Stopping" ELSE recording
        /\ AskedOf("StartRecording", out') = {} /\ AskedOf("StartCall", out') = {}
    BY <1>8, ShutdownContract DEF IInv, Signal, StartsNothing, Nothing
  <2> QED  BY <2>1 DEF CameraInTurn
<1>9. CASE Wait
  <2>1. /\ UNCHANGED <<viewers, recording>>
        /\ AskedOf("StartRecording", out') = {} /\ AskedOf("StartCall", out') = {}
    BY <1>9, TimePassesContract, AskedOfNothing DEF IInv, Wait
  <2> QED  BY <2>1 DEF CameraInTurn
<1> QED  BY <1>3, <1>4, <1>5, <1>6, <1>7, <1>8, <1>9 DEF Next

\* The order of the commands that modules Recorder and CallProcess take as given
\* is the one the daemon keeps, with any number of viewers.
THEOREM CommandsKept == Spec => CommandsInTurn
<1>1. IInv /\ [Next]_vars => [CommandTurn]_vars
  <2> SUFFICES ASSUME IInv, Next PROVE CommandTurn
    OBVIOUS
  <2>1. \A what : Asked(what)' = AskedOf(what, out')
    BY DEF Asked, AskedOf
  <2>2. AskedOf("StopRecording", out') # {} <=> Stops
    BY NotAsked, StopAsked
  <2> QED  BY <2>1, <2>2, TurnsTaken DEF CommandTurn, CameraInTurn, Stops
<1>2. Spec => [][CommandTurn]_vars
  BY <1>1, Invariance, PTL DEF Spec
<1> QED  BY <1>2 DEF CommandsInTurn
=============================================================================
