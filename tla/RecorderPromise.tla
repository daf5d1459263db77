--------------------------- MODULE RecorderPromise ---------------------------
(***************************************************************************)
(* What the core is promised of a recorder (io/gst_recorder.h): every      *)
(* start is answered by exactly one RecordingFinished that names it, and   *)
(* by at most one DetectionResult, always before that and only if it was   *)
(* asked to look.  `told` is what the last step reported, in order.        *)
(***************************************************************************)
EXTENDS Sequences

CONSTANTS Id, None

VARIABLES job,     \* the recording that was asked for and not yet answered
          told

Job == [id : Id, looking : BOOLEAN]

Finished(id, ok) == [what |-> "finished", id |-> id, ok |-> ok]
Detected(id, verdict) == [what |-> "detected", id |-> id, verdict |-> verdict]

Init == job = None /\ told = <<>>

Start ==
  /\ job = None
  /\ job' \in Job
  /\ told' = <<>>

\* A verdict, if one is still owed.
Speak ==
  /\ job # None /\ job.looking
  /\ \E verdict \in {"person", "noPerson", "unknown"} :
        told' = <<Detected(job.id, verdict)>>
  /\ job' = [job EXCEPT !.looking = FALSE]

End ==
  /\ job # None
  /\ \E ok \in BOOLEAN : told' = <<Finished(job.id, ok)>>
  /\ job' = None

\* The verdict that was still in the pipe when the process ended.
SpeakAndEnd ==
  /\ job # None /\ job.looking
  /\ \E verdict \in {"person", "noPerson", "unknown"}, ok \in BOOLEAN :
        told' = <<Detected(job.id, verdict), Finished(job.id, ok)>>
  /\ job' = None

Silence == told' = <<>> /\ UNCHANGED job

Next == Start \/ Speak \/ End \/ SpeakAndEnd \/ Silence

Spec == Init /\ [][Next]_<<job, told>>
=============================================================================
