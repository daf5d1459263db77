------------------------------ MODULE Recorder ------------------------------
(***************************************************************************)
(* GstRecorder (io/gst_recorder.cpp): one child process that makes a clip, *)
(* the detector's line on its standard output, and one timer used twice -  *)
(* for the length of the clip and then for the grace the muxer has to      *)
(* finish the file.  The child and the core run beside it; the reactor     *)
(* runs its callbacks in batches.                                          *)
(*                                                                         *)
(* Of the core it models what the recorder sees: it starts a recording     *)
(* when it knows of none, and stops one at most once (Core::trigger,       *)
(* on_viewer, on_detection, on_shutdown).                                  *)
(***************************************************************************)
EXTENDS Reactor, Sequences

CONSTANTS Id,         \* event ids
          None,
          Length,     \* StartRecording.seconds, in ticks
          Grace,      \* kEosGrace, in ticks
          Lines       \* how much the detector says before it is taken as done

ASSUME RecorderAssumption ==
  /\ Length \in Nat \ {0}
  /\ Grace \in Nat \ {0}
  /\ Lines \in Nat

\* None is no value of what it stands for the absence of.
ASSUME RecorderAbsence ==
  /\ None \notin Nat
  /\ None \notin Id
  /\ None \notin [id : Id, looking : BOOLEAN]

VARIABLES phase,      \* phase_
          job,        \* event_id_, and whether a detector was started for it
          killed,     \* killed_
          answered,   \* verdict_sent_
          timer,      \* timer_: ticks to go; 0 is readable; None is disarmed
          child,      \* the process: none, filming, flushing, clean or failed
          pipe,       \* lines the detector wrote that have not been read
          listening,  \* detector_ is open and watched
          said,       \* how many lines the detector has written
          core,       \* Core::recording_
          refused,    \* a start refused, reported once the action is done
          told        \* the events the last step delivered to the core

vars == <<batch, phase, job, killed, answered, timer, child, pipe, listening,
          said, core, refused, told>>

\* What the child says on its output: a verdict this side knows, a verdict it
\* does not, or no verdict at all.
Word == {"person", "noPerson", "unknown", "novel", "noise"}

Descriptor == {"timer", "exit", "detector", "other"}

Init ==
  /\ batch = {}
  /\ phase = "Idle"
  /\ job = None
  /\ killed = FALSE
  /\ answered = FALSE
  /\ timer = None
  /\ child = "none"
  /\ pipe = <<>>
  /\ listening = FALSE
  /\ said = 0
  /\ core = "Idle"
  /\ refused = None
  /\ told = <<>>

TypeOK ==
  /\ batch \subseteq Descriptor
  /\ phase \in {"Idle", "Recording", "Stopping"}
  /\ job \in [id : Id, looking : BOOLEAN] \cup {None}
  /\ killed \in BOOLEAN
  /\ answered \in BOOLEAN
  /\ timer \in (0 .. Length) \cup (0 .. Grace) \cup {None}
  /\ child \in {"none", "filming", "flushing", "clean", "failed"}
  /\ pipe \in Seq(Word)
  /\ listening \in BOOLEAN
  /\ said \in 0 .. Lines
  /\ core \in {"Idle", "Active", "Stopping"}
  /\ refused \in Id \cup {None}

Finished(id, ok) == [what |-> "finished", id |-> id, ok |-> ok]
Detected(id, verdict) == [what |-> "detected", id |-> id, verdict |-> verdict]

Ended == child \in {"clean", "failed"}

\* An event queued from inside an action is delivered before anything else.
Settled == refused = None

-----------------------------------------------------------------------------
(* The child process.                                                      *)

\* SIGINT: the script sends EOS through the pipeline.
Interrupted(c) == IF c = "filming" THEN "flushing" ELSE c

\* SIGKILL does nothing to a process that has ended already.
Slain(c) == IF c \in {"filming", "flushing"} THEN "failed" ELSE c

ChildEnds ==
  /\ Settled
  /\ \/ child = "filming" /\ child' = "failed"
     \/ child = "flushing" /\ child' \in {"clean", "failed"}
  /\ told' = <<>>
  /\ UNCHANGED <<batch, phase, job, killed, answered, timer, pipe, listening,
                 said, core, refused>>

DetectorWrites ==
  /\ Settled
  /\ child \in {"filming", "flushing"}
  /\ job.looking
  /\ said < Lines
  /\ said' = said + 1
  /\ \E word \in Word : pipe' = Append(pipe, word)
  /\ told' = <<>>
  /\ UNCHANGED <<batch, phase, job, killed, answered, timer, child, listening,
                 core, refused>>

-----------------------------------------------------------------------------
(* The core's commands, from the callback of another descriptor.           *)

\* begin_stop, on the process as it is.
BeginStop ==
  IF phase = "Recording"
    THEN /\ phase' = "Stopping"
         /\ child' = Interrupted(child)
         /\ timer' = Grace
    ELSE UNCHANGED <<phase, child, timer>>

Commanded == Settled /\ Turn("other") /\ told' = <<>>

Start ==
  /\ Commanded
  /\ core = "Idle" /\ phase = "Idle"
  /\ core' = "Active"
  /\ phase' = "Recording"
  /\ child' = "filming"
  /\ \E id \in Id, looking \in BOOLEAN :
       /\ job' = [id |-> id, looking |-> looking]
       /\ listening' = looking
  /\ timer' = Length
  /\ killed' = FALSE
  /\ answered' = FALSE
  /\ pipe' = <<>>
  /\ said' = 0
  /\ UNCHANGED refused

\* Busy, no directory, no process, or no way to watch it: the answer is queued
\* behind the action that asked.
StartFails ==
  /\ Commanded
  /\ core = "Idle"
  /\ core' = "Active"
  /\ \E id \in Id : refused' = id
  /\ UNCHANGED <<phase, job, killed, answered, timer, child, pipe, listening, said>>

\* A viewer or a shutdown stops what the core believes is running.
Stop ==
  /\ Commanded
  /\ core = "Active"
  /\ core' = "Stopping"
  /\ BeginStop
  /\ UNCHANGED <<job, killed, answered, pipe, listening, said, refused>>

\* Anything else another descriptor brings.
Elsewhere ==
  /\ Commanded
  /\ UNCHANGED <<phase, job, killed, answered, timer, child, pipe, listening,
                 said, core, refused>>

ReportRefusal ==
  /\ refused # None
  /\ told' = <<Finished(refused, FALSE)>>
  /\ refused' = None
  /\ core' = "Idle"
  /\ UNCHANGED <<batch, phase, job, killed, answered, timer, child, pipe,
                 listening, said>>

-----------------------------------------------------------------------------
(* The recorder's own callbacks.                                           *)

\* Fault: the recorder that does not end is waited for.
OnlyWaits == FALSE

\* The recorder that has not ended within its grace is killed.
GraceOver == phase = "Stopping"

\* on_timer: the clip has reached its length, or its grace is over.
OnTimer ==
  /\ Settled
  /\ Turn("timer")
  /\ told' = <<>>
  /\ \/ /\ phase = "Recording"
        /\ BeginStop
        /\ UNCHANGED killed
     \/ /\ GraceOver
        /\ killed' = TRUE
        /\ child' = Slain(child)
        /\ timer' = Drained(timer, None)
        /\ UNCHANGED phase
     \/ /\ phase # "Recording" /\ ~ GraceOver
        /\ timer' = Drained(timer, None)
        /\ UNCHANGED <<phase, killed, child>>
  /\ UNCHANGED <<job, answered, pipe, listening, said, core, refused>>

Verdict(word) == IF word = "novel" THEN "unknown" ELSE word

\* Fault: a second verdict is passed on as well.
EveryWord(words) ==
  LET kept == SelectSeq(words, LAMBDA word : word # "noise")
  IN  [i \in 1 .. Len(kept) |-> Detected(job.id, Verdict(kept[i]))]

\* Where the lines are that are a verdict.
Answers(words) == {i \in 1 .. Len(words) : words[i] # "noise"}

First(I) == CHOOSE i \in I : \A j \in I : i <= j

\* handle_detector_line on everything in the pipe: noise is skipped, a word
\* this side does not know is taken as unknown, and the first answer stands.
Heard(words) ==
  IF answered \/ Answers(words) = {} THEN <<>>
  ELSE <<Detected(job.id, Verdict(words[First(Answers(words))]))>>

\* What the core does with a verdict while the callback is still running: it
\* may stop the recording of an alert it was holding.
Rejects(events) ==
  /\ events # <<>>
  /\ events[1].verdict = "noPerson"
  /\ core = "Active"

\* read_detector
OnDetector ==
  /\ Settled
  /\ Turn("detector")
  /\ IF listening
       THEN /\ told' = Heard(pipe)
            /\ answered' = (answered \/ told' # <<>>)
            /\ pipe' = <<>>
            /\ listening' = ~ Ended
            /\ \/ /\ Rejects(told')
                  /\ core' = "Stopping"
                  /\ BeginStop
               \/ UNCHANGED <<core, phase, child, timer>>
       ELSE /\ told' = <<>>
            /\ UNCHANGED <<answered, pipe, listening, core, phase, child, timer>>
  /\ UNCHANGED <<job, killed, said, refused>>

\* Fault: the process is cleared away with its last words unread.
Unread == <<>>

\* The verdict the pipe still holds when the process has ended.
LastWords == IF listening THEN Heard(pipe) ELSE <<>>

\* on_child_exit: the pipe is read once more, then the process is cleared away
\* and the recording reported.  A stop the core asks for in between reaches a
\* recorder whose process has gone, and is undone with the rest.
OnExit ==
  /\ Settled
  /\ Turn("exit")
  /\ \E plausible \in BOOLEAN :
        told' = LastWords \o
                <<Finished(job.id, child = "clean" /\ ~ killed /\ plausible)>>
  /\ core' = "Idle"
  /\ phase' = "Idle"
  /\ job' = None
  /\ timer' = None
  /\ child' = "none"
  /\ pipe' = <<>>
  /\ listening' = FALSE
  /\ answered' = (answered \/ LastWords # <<>>)
  /\ UNCHANGED <<killed, said, refused>>

-----------------------------------------------------------------------------
(* The loop and the clock.                                                 *)

Readable ==
  (IF timer = 0 THEN {"timer"} ELSE {})
    \cup (IF Ended THEN {"exit"} ELSE {})
    \cup (IF listening /\ (pipe # <<>> \/ Ended) THEN {"detector"} ELSE {})

\* epoll_wait returns, with or without news from elsewhere.
Wake ==
  /\ Settled
  /\ \E news \in SUBSET {"other"} : Collect(Readable \cup news)
  /\ told' = <<>>
  /\ UNCHANGED <<phase, job, killed, answered, timer, child, pipe, listening,
                 said, core, refused>>

\* A tick of time, as far as the timer can tell.
Wait ==
  /\ Settled
  /\ timer \in Nat \ {0}
  /\ timer' = timer - 1
  /\ told' = <<>>
  /\ UNCHANGED <<batch, phase, job, killed, answered, child, pipe, listening,
                 said, core, refused>>

Next ==
  \/ ChildEnds
  \/ DetectorWrites
  \/ Start
  \/ StartFails
  \/ Stop
  \/ Elsewhere
  \/ ReportRefusal
  \/ OnTimer
  \/ OnDetector
  \/ OnExit
  \/ Wake
  \/ Wait

Spec == Init /\ [][Next]_vars

\* The loop runs the callbacks it has and looks again when something of the
\* recorder's is readable, and time passes.  The child owes nothing.
Fairness ==
  /\ WF_vars(ReportRefusal)
  /\ WF_vars(OnTimer)
  /\ WF_vars(OnDetector)
  /\ WF_vars(OnExit)
  /\ WF_vars(Start \/ StartFails \/ Stop \/ Elsewhere)
  /\ WF_vars(Wake /\ Readable # {})
  /\ WF_vars(Wait)

FairSpec == Spec /\ Fairness

-----------------------------------------------------------------------------
(* Properties.                                                             *)

\* A verdict written before the process ended reaches the core before the end
\* of the recording does, whichever descriptor epoll reports first.
VerdictHeard ==
  [][ /\ phase # "Idle" /\ phase' = "Idle"
      /\ ~ answered
      /\ \E i \in 1 .. Len(pipe) : pipe[i] # "noise"
      => Len(told') = 2 /\ told'[1].what = "detected" ]_vars

\* What the core is promised (see RecorderPromise): one end and at most one
\* verdict for every start, in that order.
Owed ==
  IF refused # None THEN [id |-> refused, looking |-> FALSE]
  ELSE IF job # None THEN [id |-> job.id, looking |-> job.looking /\ ~ answered]
  ELSE None

Promise == INSTANCE RecorderPromise WITH job <- Owed
PromiseKept == Promise!Spec

\* Whatever the child does, a recording ends: the core waits on it for a
\* viewer and for a shutdown.
RecordingEnds == (core # "Idle") ~> (core = "Idle")

-----------------------------------------------------------------------------
(* What the comments say and the code does not do.                         *)

\* gst_recorder.cpp, kEosGrace: how long the muxer gets after SIGINT "before we
\* stop being polite".
KilledAfterGrace == [][ ~ killed /\ killed' => timer = 0 ]_vars
=============================================================================
