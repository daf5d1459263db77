----------------------------- MODULE CallScript -----------------------------
(***************************************************************************)
(* One live call (pi/webrtc-video.py): two connections to the LiveKit room *)
(* kept up by a task each, the roster of who watches, the talkback, and    *)
(* the supervisor that decides when the call is over.                      *)
(*                                                                         *)
(* Everything but the pipelines and the SDK runs on one asyncio loop, so a *)
(* step here is what a task does between two awaits.  What comes from      *)
(* another thread goes through call_soon_threadsafe: news of the people in  *)
(* the room waits in `soon` and runs in order.  (A pipeline's error and a  *)
(* dropped room go the same way; there a callback that is late is an event *)
(* that comes later.)  Times are ticks; a backoff (one to ten seconds,     *)
(* against a patience of sixty) is over with the next tick.                *)
(***************************************************************************)
EXTENDS Integers, Sequences, FiniteSets

CONSTANTS Peer,        \* who may watch
          NoTime,      \* a deadline that is not set
          Patience,    \* --reconnect-timeout, in ticks
          Idle,        \* --idle-timeout
          Linger,      \* --linger
          SoonMax      \* bound: callbacks waiting for the loop

Half == {"publisher", "listener"}

\* Bound: how long an empty call is counted; no limit is longer.
Longest == IF Idle > Linger THEN Idle ELSE Linger

VARIABLES stage,      \* none, starting (Media.start), up, ending, or gone
          misfit,     \* exit_code is EXIT_CONFIG: another try would end the same way
          stopping,   \* Call.stopping, which is Call.finished too
          half,       \* where each connect() task stands
          due,        \* ticks to each task's deadline
          lost,       \* rooms the SDK has given up on
          fetching,   \* token requests whose task has been cancelled
          room,       \* who is in the LiveKit room
          roster,     \* listener.remote_participants
          voices,     \* voices the SDK has subscribed to
          viewers,    \* Call.viewers
          saw,        \* saw_viewer
          talk,       \* talk_tasks: none, playing, or over and still there
          soon,       \* callbacks the loop has yet to run
          empty       \* ticks since the supervisor's empty_since

scriptVars == <<stage, misfit, stopping, half, due, lost, fetching, room, roster,
                voices, viewers, saw, talk, soon, empty>>

tasks  == <<half, due>>
sdk    == <<lost, roster, voices>>
books  == <<viewers, saw, talk>>

Callback ==
  {<<"resync">>} \cup ({"talk", "hush"} \X Peer)

ScriptTypeOK ==
  /\ stage \in {"none", "starting", "up", "ending", "gone"}
  /\ misfit \in BOOLEAN
  /\ stopping \in BOOLEAN
  /\ half \in [Half -> {"token", "joining", "publishing", "joined", "resting", "done", "dead"}]
  /\ due \in [Half -> (0 .. Patience) \cup {NoTime}]
  /\ lost \subseteq Half
  /\ fetching \subseteq Half
  /\ room \subseteq Peer
  /\ roster \subseteq Peer
  /\ voices \subseteq roster
  /\ viewers \subseteq Peer
  /\ saw \in BOOLEAN
  /\ talk \in [Peer -> {"none", "playing", "over"}]
  /\ soon \in Seq(Callback)
  /\ empty \in (0 .. Longest) \cup {NoTime}

ScriptInit ==
  /\ stage = "none"
  /\ misfit = FALSE
  /\ stopping = FALSE
  /\ half = [k \in Half |-> "done"]
  /\ due = [k \in Half |-> NoTime]
  /\ lost = {}
  /\ fetching = {}
  /\ room = {} /\ roster = {} /\ voices = {}
  /\ viewers = {}
  /\ saw = FALSE
  /\ talk = [p \in Peer |-> "none"]
  /\ soon = <<>>
  /\ empty = NoTime

\* self.publisher or self.listener is set.
Held(k) == half[k] \in {"publishing", "joined", "dead"}

\* The SDK tells this process what happens in the room.
Hears == half["listener"] = "joined" /\ "listener" \notin lost

\* The loop runs tasks and callbacks until run() goes on from finished.wait.
Looping == stage = "up"

Later(callbacks) == soon' = soon \o callbacks /\ Len(soon') <= SoonMax

At(k, step) == half' = [half EXCEPT ![k] = step]

\* fail() and stop(): run() goes on from finished.wait.
Fail(configured) ==
  /\ misfit' = configured
  /\ stopping' = TRUE

-----------------------------------------------------------------------------
(* Starting: Media.start blocks the loop before any task exists.           *)

\* A fresh process; what it knows of the last one's room it has yet to ask.
Born ==
  /\ stage \in {"none", "gone"}
  /\ stage' = "starting"
  /\ misfit' = FALSE
  /\ stopping' = FALSE
  /\ half' = [k \in Half |-> "done"]
  /\ due' = [k \in Half |-> NoTime]
  /\ lost' = {}
  /\ roster' = {} /\ voices' = {}
  /\ viewers' = {} /\ saw' = FALSE
  /\ talk' = [p \in Peer |-> "none"]
  /\ soon' = <<>>
  /\ empty' = NoTime
  /\ UNCHANGED <<fetching, room>>

\* _bring_up of the speaker's pipeline: it plays, or is stuck without a word
\* and left out; or it refuses, with an error that its bus thread may read
\* before the pipeline is taken down - and then the call has failed before the
\* loop comes to it.
Speaker ==
  stopping' \in BOOLEAN

\* Media.start, playback first: only the capture side can fail the call here.
MediaStarts ==
  /\ stage = "starting"
  /\ \/ /\ Speaker
        /\ stage' = "up"
        /\ half' = [k \in Half |-> "token"]
        /\ UNCHANGED misfit
     \/ /\ stage' = "gone"
        /\ misfit' = TRUE
        /\ UNCHANGED <<half, stopping>>
  /\ UNCHANGED <<due, fetching, room, sdk, books, soon, empty>>

-----------------------------------------------------------------------------
(* connect(): a token, the room, and both again whenever it is dropped.    *)

\* Fault: every failure starts the patience anew.
EndlessPatience(k) ==
  /\ At(k, "resting")
  /\ due' = [due EXCEPT ![k] = Patience]
  /\ UNCHANGED <<misfit, stopping>>

\* The first failure sets the deadline; past it the task fails the call.
Setback(k) ==
  LET left == IF due[k] = NoTime THEN Patience ELSE due[k]
  IN  /\ due' = [due EXCEPT ![k] = left]
      /\ \/ left > 0 /\ At(k, "resting") /\ UNCHANGED <<misfit, stopping>>
         \/ left = 0 /\ At(k, "done") /\ Fail(FALSE)

Working(k, step) == Looping /\ half[k] = step

ConnectRest == UNCHANGED <<stage, fetching, room, soon, empty>>

TokenGranted(k) ==
  /\ Working(k, "token")
  /\ At(k, "joining")
  /\ UNCHANGED <<misfit, stopping, due, sdk, books>> /\ ConnectRest

\* 401, 403, or a grant without its fields: it will not get better.
TokenRefused(k) ==
  /\ Working(k, "token")
  /\ At(k, "done")
  /\ Fail(TRUE)
  /\ UNCHANGED <<due, sdk, books>> /\ ConnectRest

\* No token for now, or no room.
AttemptFails(k) ==
  /\ Looping /\ half[k] \in {"token", "joining"}
  /\ Setback(k)
  /\ UNCHANGED <<sdk, books>> /\ ConnectRest

\* Fault: the viewers are counted when one comes or goes, and not on joining.
CountedLater(now) == UNCHANGED <<viewers, saw, talk>>

\* Fault: who comes is counted, and who goes is not.
OnlyArrivals(now) ==
  /\ viewers' = viewers \cup now
  /\ saw' = (saw \/ now # {})
  /\ UNCHANGED talk

\* Fault: nobody's voice is stopped but by its own track.
GhostsLeft(now) ==
  /\ viewers' = now
  /\ saw' = (saw \/ now # {})
  /\ UNCHANGED talk

\* _resync_viewers, with a listener: whoever is gone is not played any more.
Resynced(now) ==
  /\ viewers' = now
  /\ saw' = (saw \/ now # {})
  /\ talk' = [p \in Peer |-> IF p \in viewers \ now THEN "none" ELSE talk[p]]

\* The viewer is usually there before the device: the count is taken at once.
CountOnJoining(now) == Resynced(now)

JoinListener ==
  /\ Working("listener", "joining")
  /\ At("listener", "joined")
  /\ due' = [due EXCEPT !["listener"] = NoTime]
  /\ roster' = room
  /\ CountOnJoining(room)
  /\ UNCHANGED <<misfit, stopping, lost, voices>> /\ ConnectRest

\* The publisher goes on to publish what the pipelines hand it.
JoinPublisher ==
  /\ Working("publisher", "joining")
  /\ At("publisher", "publishing")
  /\ due' = [due EXCEPT !["publisher"] = NoTime]
  /\ UNCHANGED <<misfit, stopping, sdk, books>> /\ ConnectRest

\* publish(): a room that has been lost meanwhile may make it raise, and
\* nothing in connect() or run() catches that.
Publish ==
  /\ Working("publisher", "publishing")
  /\ \/ At("publisher", "joined")
     \/ "publisher" \in lost /\ At("publisher", "dead")
  /\ UNCHANGED <<misfit, stopping, due, sdk, books>> /\ ConnectRest

Queued(callback) == \E i \in 1 .. Len(soon) : soon[i] = callback

\* dropped.wait() returns: the room is let go of and joined again, without a
\* pause.  What the listener's room had to say before is heard first.
Rejoin(k) ==
  /\ Working(k, "joined")
  /\ k \in lost
  /\ k = "listener" => soon = <<>>
  /\ lost' = lost \ {k}
  /\ IF stopping
       THEN At(k, "done") /\ UNCHANGED due
       ELSE At(k, "token") /\ due' = [due EXCEPT ![k] = Patience]
  /\ IF k = "listener" THEN roster' = {} /\ voices' = {} ELSE UNCHANGED <<roster, voices>>
  /\ UNCHANGED <<misfit, stopping, books>> /\ ConnectRest

-----------------------------------------------------------------------------
(* The SDK's threads, and the people in the room.                          *)

\* The SDK has stopped reconnecting by itself.
Drop(k) ==
  /\ Looping
  /\ Held(k) /\ k \notin lost
  /\ lost' = lost \cup {k}
  /\ UNCHANGED <<stage, misfit, stopping, tasks, fetching, room, roster, voices,
                 books, soon, empty>>

PeopleRest == UNCHANGED <<stage, misfit, stopping, tasks, lost, fetching, books, empty>>

Arrives(p) ==
  /\ p \notin room
  /\ room' = room \cup {p}
  /\ UNCHANGED voices
  /\ IF Looping /\ Hears
       THEN roster' = room' /\ Later(<< <<"resync">> >>)
       ELSE UNCHANGED <<roster, soon>>
  /\ PeopleRest

\* A voice the SDK had subscribed to is unsubscribed first.
Departs(p) ==
  /\ p \in room
  /\ room' = room \ {p}
  /\ IF Looping /\ Hears
       THEN /\ roster' = room'
            /\ voices' = voices \ {p}
            /\ Later((IF p \in voices THEN << <<"hush", p>> >> ELSE <<>>) \o << <<"resync">> >>)
       ELSE UNCHANGED <<roster, voices, soon>>
  /\ PeopleRest

\* A viewer lets go of the button, or the server takes the floor away.
Unsubscribes(p) ==
  /\ Looping /\ Hears
  /\ p \in voices
  /\ voices' = voices \ {p}
  /\ Later(<< <<"hush", p>> >>)
  /\ UNCHANGED <<room, roster>>
  /\ PeopleRest

\* A voice is published in the room; whether p has one is p's affair.
Subscribes(p) ==
  /\ Looping /\ Hears
  /\ p \in roster \ voices
  /\ voices' = voices \cup {p}
  /\ Later(<< <<"talk", p>> >>)
  /\ UNCHANGED <<room, roster>>
  /\ PeopleRest

\* The pipelines' bus threads, and fail(EXIT_MEDIA) on the loop: any error ends
\* the call, the speaker's too.
PipelineFails ==
  /\ Looping
  /\ Fail(FALSE)
  /\ UNCHANGED <<stage, tasks, sdk, fetching, room, books, soon, empty>>

-----------------------------------------------------------------------------
(* Callbacks of the loop.                                                  *)

Turned == Looping /\ soon # <<>> /\ soon' = Tail(soon)

TurnRest == UNCHANGED <<stage, misfit, stopping, tasks, sdk, fetching, room, empty>>

\* _resync_viewers; without a listener there is nobody to ask.
RunResync ==
  /\ Turned /\ Head(soon) = <<"resync">>
  /\ IF Held("listener") THEN Resynced(roster) ELSE UNCHANGED books
  /\ TurnRest

\* _start_talkback: one task for each viewer, running or not.
RunTalk ==
  /\ Turned /\ Head(soon)[1] = "talk"
  /\ LET p == Head(soon)[2]
     IN  talk' = [talk EXCEPT ![p] = IF @ = "none" THEN "playing" ELSE @]
  /\ UNCHANGED <<viewers, saw>> /\ TurnRest

\* _stop_talkback
StopTalkback(p) == talk' = [talk EXCEPT ![p] = "none"]

RunHush ==
  /\ Turned /\ Head(soon)[1] = "hush"
  /\ StopTalkback(Head(soon)[2])
  /\ UNCHANGED <<viewers, saw>> /\ TurnRest

\* _drain: the stream ends or breaks; the task stays in talk_tasks.
DrainEnds(p) ==
  /\ Looping
  /\ talk[p] = "playing"
  /\ talk' = [talk EXCEPT ![p] = "over"]
  /\ UNCHANGED <<stage, misfit, stopping, tasks, sdk, fetching, room, viewers, saw,
                 soon, empty>>

-----------------------------------------------------------------------------
(* supervise(), the signal, and the end.                                   *)

\* should_finish
Grace == IF saw THEN Linger ELSE Idle

\* Every 50 ms, and later while link_report waits for its statistics.
Poll ==
  /\ Looping /\ ~ stopping
  /\ empty' = IF viewers # {} THEN NoTime ELSE IF empty = NoTime THEN 0 ELSE empty
  /\ stopping' = (viewers = {} /\ empty # NoTime /\ empty >= Grace)
  /\ UNCHANGED <<stage, misfit, tasks, sdk, fetching, room, books, soon>>

\* SIGTERM or SIGINT: before the handlers are there it simply ends the process.
Terminated ==
  /\ \/ stage = "up" /\ stopping' = TRUE /\ UNCHANGED <<stage, misfit>>
     \/ stage = "starting" /\ stage' = "gone" /\ misfit' = FALSE /\ UNCHANGED stopping
  /\ UNCHANGED <<tasks, sdk, fetching, room, books, soon, empty>>

\* run() after finished.wait: the tasks are cancelled, the rooms left, the
\* pipelines stopped.  A token request runs on in its thread.
Finish ==
  /\ Looping /\ stopping
  /\ stage' = "ending"
  /\ fetching' = {k \in Half : half[k] = "token"}
  /\ half' = [k \in Half |-> "done"]
  /\ due' = [k \in Half |-> NoTime]
  /\ lost' = {} /\ roster' = {} /\ voices' = {}
  /\ viewers' = {} /\ saw' = FALSE
  /\ talk' = [p \in Peer |-> "none"]
  /\ soon' = <<>>
  /\ empty' = NoTime
  /\ UNCHANGED <<misfit, stopping, room>>

\* asyncio.run waits for the threads before the process ends.
Exit ==
  /\ stage = "ending"
  /\ fetching = {}
  /\ stage' = "gone"
  /\ stopping' = FALSE
  /\ UNCHANGED <<misfit, tasks, sdk, fetching, room, books, soon, empty>>

FetchReturns(k) ==
  /\ k \in fetching
  /\ fetching' = fetching \ {k}
  /\ UNCHANGED <<stage, misfit, stopping, tasks, sdk, room, books, soon, empty>>

\* A tick: deadlines come closer, a rest is over, emptiness lasts.
Sooner(t) == IF t = NoTime \/ t = 0 THEN t ELSE t - 1

ScriptTick ==
  /\ due' = [k \in Half |-> Sooner(due[k])]
  /\ half' = [k \in Half |->
                IF half[k] # "resting" THEN half[k] ELSE IF stopping THEN "done" ELSE "token"]
  /\ empty' = IF empty = NoTime \/ empty = Longest THEN empty ELSE empty + 1
  /\ UNCHANGED <<stage, misfit, stopping, sdk, fetching, room, books, soon>>
=============================================================================
