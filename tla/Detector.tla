------------------------------ MODULE Detector ------------------------------
(***************************************************************************)
(* The program that makes a clip (pi/record-clip.py), while it looks for a *)
(* person: GStreamer's streaming thread hands over frames, the detector    *)
(* judges them on a thread of its own, the face models load on a third,    *)
(* and the main loop ends the recording whenever it is told to, or has to. *)
(* The daemon waits for one line - the verdict - and for the exit          *)
(* (Recorder, which takes any lines and any exit).                         *)
(*                                                                         *)
(* A tick is the second that finish() waits for the detector.  How long a  *)
(* model takes to load or to judge is left open, for ever included.        *)
(***************************************************************************)
EXTENDS Integers, Sequences, FiniteSets

CONSTANTS Nothing,
          Window,      \* --detect-window, in ticks
          Settle,      \* SETTLE_SECONDS, in ticks
          MinFrames,   \* --detect-min-frames
          MaxFrames    \* bound: frames that are looked at

HitsNeeded == 2
HitsOf == 3

\* What a frame shows, as far as the model can tell.
Shown == {"dark", "nobody", "person"}

Answer == {"person", "no-person", "unknown"}

ASSUME DetectorAssumption ==
  /\ {Window, MinFrames, MaxFrames} \subseteq Nat \ {0}
  /\ Settle \in Nat
  /\ Nothing \notin Nat
  /\ Nothing \notin Shown /\ Nothing \notin Answer

VARIABLES ring,      \* --ring
          faces,     \* the FaceStage: off, loading, ready or broken
          known,     \* the store it loads has people in it
          main,      \* where main() is
          code,      \* outcome["code"], the exit code in the end
          joining,   \* ticks left of finish()'s join
          thread,    \* where the detector's thread is
          stopping,  \* Detector.stopping
          finished,  \* Detector.finished
          left,      \* ticks to the deadline
          settled,   \* ticks since the first frame
          frame,     \* the newest frame, if it has not been taken
          seeing,    \* the frame being judged
          hits,      \* the last frames judged
          judged,
          saying,    \* a verdict decided and not yet written
          lines,     \* the verdicts on standard output
          looked     \* history: every frame held against the threshold

options == <<ring, known>>
box     == <<frame, seeing>>
judging == <<settled, hits, judged, looked>>
output  == <<finished, saying, lines>>

detectorVars == <<options, faces, main, code, joining, thread, stopping, left,
                  box, judging, output>>

Alive == main \notin {"exited", "killed"}

\* attach_detector: without a sink to take frames from the verdict is out at
\* once, and the thread is never started.
DetectorInit ==
  /\ ring \in BOOLEAN /\ known \in BOOLEAN
  /\ faces \in {"off", "loading"}
  /\ main = "starting" /\ code = 1 /\ joining = Nothing
  /\ thread \in {"asking", "unstarted"}
  /\ finished = (thread = "unstarted")
  /\ lines = IF finished THEN <<"unknown">> ELSE <<>>
  /\ saying = Nothing
  /\ stopping = FALSE
  /\ left = Window
  /\ settled = Nothing /\ hits = <<>> /\ judged = 0 /\ looked = <<>>
  /\ frame = Nothing /\ seeing = Nothing

-----------------------------------------------------------------------------
(* say(), from whichever thread comes first.                               *)

\* Fault: what has been said is not looked at.
ClaimAnyway(verdict) ==
  /\ finished' = TRUE
  /\ saying' = verdict
  /\ thread' = "saying"
  /\ UNCHANGED lines

\* The detector's own verdict, unless another has been said.
Claim(verdict) ==
  /\ finished' = TRUE
  /\ IF finished THEN thread' = "ended" /\ UNCHANGED saying
                 ELSE thread' = "saying" /\ saying' = verdict
  /\ UNCHANGED lines

Writes ==
  /\ Alive /\ thread = "saying"
  /\ lines' = Append(lines, saying)
  /\ saying' = Nothing
  /\ thread' = "ended"
  /\ UNCHANGED <<options, faces, main, code, joining, stopping, left, box, judging,
                 finished>>

-----------------------------------------------------------------------------
(* The detector's thread.                                                  *)

Working(step) == Alive /\ thread = step

OthersRest == UNCHANGED <<options, faces, main, code, joining, stopping, left>>

\* A ring with no face to name is answered without a look.
Asks ==
  /\ Working("asking")
  /\ ~ ring \/ faces # "loading" \/ left = 0
  /\ IF ring /\ ~ (faces = "ready" /\ known)
       THEN Claim("person")
       ELSE thread' = "loading" /\ UNCHANGED output
  /\ UNCHANGED <<box, judging>> /\ OthersRest

ModelLoads ==
  /\ Working("loading")
  /\ thread' = "waiting"
  /\ UNCHANGED <<box, judging, output>> /\ OthersRest

\* Any exception is a verdict too.
Breaks ==
  /\ thread \in {"loading", "judging"} /\ Alive
  /\ Claim("unknown")
  /\ seeing' = Nothing
  /\ UNCHANGED <<frame, judging>> /\ OthersRest

\* conclude()
Conclusion == IF judged >= MinFrames THEN "no-person" ELSE "unknown"

\* The condition is waited for; what it was is looked at again afterwards.
Takes ==
  /\ Working("waiting")
  /\ frame # Nothing \/ stopping \/ left = 0
  /\ frame' = Nothing
  /\ \/ stopping /\ Claim("unknown") /\ UNCHANGED seeing
     \/ /\ ~ stopping /\ left = 0
        /\ Claim(IF ring THEN "unknown" ELSE Conclusion)
        /\ UNCHANGED seeing
     \/ /\ ~ stopping /\ left > 0
        /\ seeing' = frame
        /\ thread' = "judging"
        /\ UNCHANGED output
  /\ UNCHANGED judging /\ OthersRest

\* Fault: hits are counted however far apart they are.
AllOf(seen) == seen

\* The deque of the last frames judged.
Recent(seen) == IF Len(seen) > HitsOf THEN Tail(seen) ELSE seen

Hits(seen) == Cardinality({i \in DOMAIN seen : seen[i] = "person"})

\* A frame of a motion: skipped while the exposure settles, or when it is too
\* dark, and else held against the threshold.
JudgeMotion ==
  LET since == IF settled = Nothing THEN 0 ELSE settled
      seen  == Recent(Append(hits, seeing))
  IN  /\ settled' = since
      /\ IF since < Settle \/ seeing = "dark"
           THEN thread' = "waiting" /\ UNCHANGED <<hits, judged, looked, output>>
           ELSE /\ judged' = judged + 1
                /\ hits' = seen
                /\ looked' = Append(looked, seeing)
                /\ \/ Hits(seen) >= HitsNeeded /\ faces # "off"
                        /\ thread' = "looking" /\ UNCHANGED output
                   \/ Hits(seen) >= HitsNeeded /\ faces = "off" /\ Claim("person")
                   \/ Hits(seen) < HitsNeeded
                        /\ thread' = "waiting" /\ UNCHANGED output

\* A frame of a ring only says where to look for a face.
Judges ==
  /\ Working("judging")
  /\ IF ring THEN thread' = "looking" /\ UNCHANGED <<judging, output>> ELSE JudgeMotion
  /\ seeing' = Nothing
  /\ UNCHANGED frame /\ OthersRest

\* fresh_box: the face stage borrows the thread, and the frames with it.
Refreshes ==
  /\ Working("looking") /\ frame # Nothing
  /\ frame' = Nothing
  /\ UNCHANGED <<seeing, judging, output, thread>> /\ OthersRest

\* FaceStage.look: a name, enough strangers, no more time, models that are not
\* ready or any failure - each ends in "person".
LookEnds ==
  /\ Working("looking")
  /\ Claim("person")
  /\ UNCHANGED <<box, judging>> /\ OthersRest

\* FaceStage.load, on its own thread.
FacesLoad ==
  /\ Alive /\ faces = "loading"
  /\ faces' \in {"ready", "broken"}
  /\ UNCHANGED <<options, main, code, joining, thread, stopping, left, box, judging, output>>

\* offer(), on GStreamer's thread.
Offers ==
  /\ main \in {"playing", "flushing"}
  /\ thread # "unstarted" /\ ~ finished
  /\ Len(looked) + Cardinality({seeing} \ {Nothing}) < MaxFrames
  /\ frame' \in Shown
  /\ UNCHANGED <<options, faces, main, code, joining, thread, stopping, left, seeing,
                 judging, output>>

-----------------------------------------------------------------------------
(* main().                                                                 *)

DetectorRest == UNCHANGED <<options, faces, thread, left, box, judging>>

\* set_state(PLAYING): a camera held by something else ends it at once.
Plays ==
  /\ main = "starting"
  /\ main' \in {"playing", "finishing"}
  /\ UNCHANGED <<code, joining, stopping, output>> /\ DetectorRest

\* on_stop: SIGINT is an EOS sent through the pipeline, once.
SigInt ==
  /\ main = "playing"
  /\ main' = "flushing"
  /\ UNCHANGED <<code, joining, stopping, output>> /\ DetectorRest

\* on_message: the muxer has finished the file, or something has failed.
BusSpeaks ==
  /\ \/ main = "flushing" /\ code' = 0
     \/ main \in {"playing", "flushing"} /\ UNCHANGED code
  /\ main' = "finishing"
  /\ UNCHANGED <<joining, stopping, output>> /\ DetectorRest

\* finish(): a thread that was never started cannot be waited for, and the
\* exception ends the process.
FinishBegins ==
  /\ main = "finishing"
  /\ stopping' = TRUE
  /\ IF thread = "unstarted"
       THEN main' = "exited" /\ code' = 1 /\ UNCHANGED joining
       ELSE main' = "joining" /\ joining' = 1 /\ UNCHANGED code
  /\ UNCHANGED output /\ DetectorRest

\* Fault: the detector is waited for however long it takes.
ThreadEnded == thread = "ended"

\* The daemon is waiting on the exit: no more than a second.
JoinOver == thread = "ended" \/ joining = 0

\* The main thread's own say(), if nothing has been said.
FinishEnds ==
  /\ main = "joining"
  /\ JoinOver
  /\ finished' = TRUE
  /\ lines' = IF finished THEN lines ELSE Append(lines, "unknown")
  /\ main' = "closing"
  /\ UNCHANGED <<saying, code, joining, stopping>> /\ DetectorRest

\* The pipeline is taken down; the detector's thread goes with the process.
Exits ==
  /\ main = "closing"
  /\ main' = "exited"
  /\ UNCHANGED <<code, joining, stopping, output>> /\ DetectorRest

\* SIGKILL after the daemon's grace, or a crash in a library.
Killed ==
  /\ Alive
  /\ main' = "killed"
  /\ UNCHANGED <<code, joining, stopping, output>> /\ DetectorRest

Sooner(t) == IF t = Nothing \/ t = 0 THEN t ELSE t - 1

Tick ==
  /\ Alive
  /\ left' = Sooner(left)
  /\ joining' = Sooner(joining)
  /\ settled' = IF settled = Nothing \/ settled = Settle THEN settled ELSE settled + 1
  /\ UNCHANGED <<options, faces, main, code, thread, stopping, box, hits, judged,
                 looked, output>>

Main == Plays \/ SigInt \/ BusSpeaks \/ FinishBegins \/ FinishEnds \/ Exits

DetectorNext ==
  \/ Asks \/ ModelLoads \/ Breaks \/ Takes \/ Judges \/ Refreshes \/ LookEnds
  \/ Writes
  \/ FacesLoad
  \/ Offers
  \/ Main
  \/ Killed
  \/ Tick

DetectorSpec == DetectorInit /\ [][DetectorNext]_detectorVars

\* The main loop runs and the clock with it, the daemon sends SIGINT at the
\* latest when the clip has its length, and after that an EOS comes through the
\* pipeline or SIGKILL from the daemon.  The models owe nothing.
DetectorFairSpec ==
  /\ DetectorSpec
  /\ WF_detectorVars(Plays) /\ WF_detectorVars(SigInt)
  /\ WF_detectorVars(main = "flushing" /\ (BusSpeaks \/ Killed))
  /\ WF_detectorVars(FinishBegins) /\ WF_detectorVars(FinishEnds) /\ WF_detectorVars(Exits)
  /\ WF_detectorVars(Tick)

-----------------------------------------------------------------------------
(* Properties.                                                             *)

DetectorTypeOK ==
  /\ ring \in BOOLEAN /\ known \in BOOLEAN
  /\ faces \in {"off", "loading", "ready", "broken"}
  /\ main \in {"starting", "playing", "flushing", "finishing", "joining", "closing",
               "exited", "killed"}
  /\ code \in {0, 1}
  /\ joining \in {0, 1, Nothing}
  /\ thread \in {"unstarted", "asking", "loading", "waiting", "judging", "looking",
                 "saying", "ended"}
  /\ stopping \in BOOLEAN /\ finished \in BOOLEAN
  /\ left \in 0 .. Window
  /\ settled \in (0 .. Settle) \cup {Nothing}
  /\ frame \in Shown \cup {Nothing} /\ seeing \in Shown \cup {Nothing}
  /\ hits \in Seq(Shown) /\ Len(hits) <= HitsOf
  /\ judged \in 0 .. MaxFrames
  /\ looked \in Seq(Shown) /\ Len(looked) <= MaxFrames
  /\ saying \in Answer \cup {Nothing}
  /\ lines \in Seq(Answer)

\* Whatever ends the recording while whichever thread is at work, the daemon
\* gets exactly one line, and has it before the exit - or it was being written
\* in the very moment the process ended.
OneLine ==
  /\ Len(lines) <= 1
  /\ main = "exited" => lines # <<>> \/ saying # Nothing

\* The frames from the i-th on that one verdict is taken from.
Together(seen, i) ==
  {j \in i .. i + HitsOf - 1 : j <= Len(seen) /\ seen[j] = "person"}

Convincing(seen) == \E i \in 1 .. Len(seen) : Cardinality(Together(seen, i)) >= HitsNeeded

\* A motion is silenced only when enough bright frames have been judged and no
\* three in a row showed a person twice, and is a person's only if some did.  A
\* ring is never silenced.
VerdictEarned ==
  \A i \in 1 .. Len(lines) :
    /\ lines[i] = "no-person" => ~ ring /\ Len(looked) >= MinFrames /\ ~ Convincing(looked)
    /\ lines[i] = "person" => ring \/ Convincing(looked)

\* A model that hangs while it loads, while it judges or while it looks for a
\* face does not keep the recording from ending.
EndsAnyway == <>(~ Alive)

-----------------------------------------------------------------------------
(* What the comments say and the code does not do.                         *)

\* "Nothing the detector does can fail the recording": a clip whose EOS came
\* through is a good one.
RecordingUnharmed == [][ code = 0 => code' = 0 ]_detectorVars
=============================================================================
