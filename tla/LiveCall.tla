------------------------------ MODULE LiveCall ------------------------------
(***************************************************************************)
(* The call as a whole: the daemon's side of it (CallProcess) and the      *)
(* script it runs (CallScript).  The daemon starts the process and learns  *)
(* that it has ended, and with which code; between these two it sees       *)
(* nothing, and the script knows nothing of who asked.                     *)
(***************************************************************************)
EXTENDS CallProcess, Sequences

CONSTANTS NoTime, Patience, Idle, Linger, SoonMax

ASSUME LiveAssumption ==
  /\ NoTime \notin Nat
  /\ {Patience, Idle, SoonMax} \subseteq Nat \ {0}
  /\ Linger \in Nat

VARIABLES stage, misfit, stopping, half, due, lost, fetching, room, roster,
          voices, seen, saw, talk, soon, empty

\* `seen` is the script's own idea of who watches.
Script == INSTANCE CallScript WITH viewers <- seen

script == <<stage, misfit, stopping, half, due, lost, fetching, room, roster,
            voices, seen, saw, talk, soon, empty>>

callVars == <<vars, script>>

LiveInit == Init /\ Script!ScriptInit

LiveTypeOK == TypeOK /\ Script!ScriptTypeOK

\* The process the daemon has just started is a new run of the script.
Spawned ==
  IF process # "running" /\ process' = "running"
    THEN Script!Born
    ELSE UNCHANGED script

\* The daemon learns of the script's steps only that it has ended.
Unseen ==
  IF stage # "gone" /\ stage' = "gone" THEN ChildEnds ELSE UNCHANGED vars

Ask(peer) == StartCall(peer) /\ Spawned

Never == ReportNever /\ UNCHANGED script

\* EXIT_CONFIG is not tried again.
Reaped == OnExit /\ (process' = "running" => ~ misfit) /\ Spawned

Stopped == Shutdown /\ UNCHANGED script

\* SIGKILL, for a script that did not go when it was told to.
Killed ==
  /\ Destroyed
  /\ stage' = "gone" /\ fetching' = {}
  /\ UNCHANGED <<misfit, stopping, half, due, lost, room, roster, voices, seen, saw,
                 talk, soon, empty>>

Media == Script!MediaStarts /\ Unseen

Connects(k) ==
  /\ \/ Script!TokenGranted(k) \/ Script!TokenRefused(k) \/ Script!AttemptFails(k)
     \/ k = "listener" /\ Script!JoinListener
     \/ k = "publisher" /\ (Script!JoinPublisher \/ Script!Publish)
     \/ Script!Rejoin(k)
  /\ Unseen

Callbacks ==
  /\ Script!RunResync \/ Script!RunTalk \/ Script!RunHush
  /\ Unseen

\* What other threads, other machines and other people do.
Outside ==
  /\ \/ \E k \in Script!Half : Script!Drop(k)
     \/ \E p \in Peer : \/ Script!Arrives(p) \/ Script!Departs(p)
                        \/ Script!Subscribes(p) \/ Script!Unsubscribes(p)
                        \/ Script!DrainEnds(p)
     \/ Script!PipelineFails
  /\ Unseen

Supervises == Script!Poll /\ Unseen

\* The destructor's SIGTERM; nothing else sends one.
Told == down = "stopping" /\ process = "running" /\ Script!Terminated /\ Unseen

Finishes == Script!Finish /\ Unseen
Exits == Script!Exit /\ Unseen
Returns == \E k \in Script!Half : Script!FetchReturns(k) /\ Unseen

Tick == Script!ScriptTick /\ (IF since < RaceWindow THEN Wait ELSE UNCHANGED vars)

LiveNext ==
  \/ \E peer \in Peer : Ask(peer)
  \/ Never
  \/ Reaped
  \/ Stopped
  \/ Killed
  \/ Media
  \/ \E k \in Script!Half : Connects(k)
  \/ Callbacks
  \/ Outside
  \/ Supervises
  \/ Told
  \/ Finishes
  \/ Exits
  \/ Returns
  \/ Tick

LiveSpec == LiveInit /\ [][LiveNext]_callVars

\* The daemon's loop and the script's, and the clock.  Requests, joins and
\* publishing come to some end - they have time limits - and the people in the
\* room, the network and the pipelines owe nothing.
LiveFairSpec ==
  /\ LiveSpec
  /\ WF_callVars(Never) /\ WF_callVars(Reaped) /\ WF_callVars(Tick)
  /\ WF_callVars(Media) /\ WF_callVars(Callbacks) /\ WF_callVars(Supervises)
  /\ \A k \in Script!Half : WF_callVars(Connects(k))
  /\ WF_callVars(Finishes) /\ WF_callVars(Exits) /\ WF_callVars(Returns)

-----------------------------------------------------------------------------
(* Properties.                                                             *)

\* Once the callbacks have run, the script counts exactly the people in the
\* room its listener is in - however they came and went around a join, a drop
\* and the next join.  One too many and the call never ends, one too few and
\* it ends under a viewer's eyes.
ViewersTracked ==
  stage = "up" /\ half["listener"] = "joined" /\ "listener" \notin lost
    /\ ~ Script!Queued(<<"resync">>)
  => seen = room

\* Nobody's voice is played who is not in the room, once the callbacks have
\* run: a task that stays behind also keeps that viewer from being heard again.
NoGhostTalk ==
  stage = "up" /\ half["listener"] = "joined" /\ "listener" \notin lost /\ soon = <<>>
  => \A p \in Peer : talk[p] # "none" => p \in room

\* A script that reaches neither room gives up, whatever mixture of refused
\* tokens, failed joins and drops keeps it out.
GivesUp ==
  (stage = "up") ~> (stage # "up" \/ \E k \in Script!Half : half[k] = "joined")

\* With nobody in the room for good the call ends, connections lost and viewers
\* that left unseen included.
EndsWhenAlone == <>[](room = {}) => ((stage = "up") ~> (stage # "up"))

-----------------------------------------------------------------------------
(* What the comments say and the code does not do.                         *)

\* webrtc-video.py, Media.start: a speaker that will not start "costs talkback
\* and nothing else".
TalkbackOnly == [][ stage = "starting" /\ stage' = "up" => ~ stopping' ]_callVars

\* webrtc-video.py, Call.connect: "keep re-joining if dropped".
PublisherTended == stage = "up" => half["publisher"] # "dead"
=============================================================================
