---------------------------- MODULE CallProcess ----------------------------
(***************************************************************************)
(* ScriptMedia (io/script_media.cpp): the one process that serves every    *)
(* viewer.  It decides by itself when the call is over; all the daemon     *)
(* learns is that it has ended, and then it ends for everyone - unless     *)
(* somebody asked so shortly before that the process cannot have known.    *)
(*                                                                         *)
(* Of the core it has the viewers it believes in (viewers_): it asks for a *)
(* call whenever it lets one in, and only while nothing records.           *)
(*                                                                         *)
(* stop_call comes with a shutdown only, and with a viewer there is no     *)
(* recording a shutdown would wait for: the loop stops before the grace    *)
(* timer could fire, and the destructor sees to the process.               *)
(***************************************************************************)
EXTENDS Integers

CONSTANTS Peer,
          RaceWindow    \* kRaceWindow, in ticks

ASSUME CallAssumption == RaceWindow \in Nat \ {0}

VARIABLES viewers,    \* Core::viewers_
          peers,      \* peers_
          process,    \* none, running, or ended and not reaped
          since,      \* ticks since requested_at_, as far as they matter
          owed,       \* CallEnded events queued behind the action that runs
          down,       \* the daemon: up, stopping, or gone
          told        \* who the last step told the core about

vars == <<viewers, peers, process, since, owed, down, told>>

Init ==
  /\ viewers = {}
  /\ peers = {}
  /\ process = "none"
  /\ since = RaceWindow
  /\ owed = {}
  /\ down = "up"
  /\ told = {}

TypeOK ==
  /\ viewers \subseteq Peer
  /\ peers \subseteq Peer
  /\ process \in {"none", "running", "ended"}
  /\ since \in 0 .. RaceWindow
  /\ owed \subseteq Peer
  /\ down \in {"up", "stopping", "gone"}
  /\ told \subseteq Peer

\* Whatever was reported from inside an action is handled before anything else.
Listening == down = "up" /\ owed = {}

-----------------------------------------------------------------------------
\* Fault: a call that cannot be started is not reported over.
FailsQuietly(waiting) ==
  /\ process' = "none"
  /\ peers' = {}
  /\ owed' = {}

\* end_for_everyone from inside start_call, for a call that never began.
NeverBegan(waiting) ==
  /\ process' = "none"
  /\ peers' = {}
  /\ owed' = waiting

\* A viewer let in, and start_call: one more for the call that runs, or a new
\* process, or none if it cannot be started.
StartCall(peer) ==
  /\ Listening
  /\ viewers' = viewers \cup {peer}
  /\ since' = 0
  /\ told' = {}
  /\ LET waiting == peers \cup {peer}
     IN  \/ /\ process # "none"
            /\ peers' = waiting
            /\ UNCHANGED <<process, owed>>
         \/ /\ process = "none"
            /\ process' = "running"
            /\ peers' = waiting
            /\ UNCHANGED owed
         \/ process = "none" /\ NeverBegan(waiting)
  /\ UNCHANGED down

\* The core hears of a call that never began.
ReportNever ==
  /\ owed # {}
  /\ told' = owed
  /\ viewers' = viewers \ owed
  /\ owed' = {}
  /\ UNCHANGED <<peers, process, since, down>>

\* The script ends: the last viewer left, nobody came, or it failed.
ChildEnds ==
  /\ process = "running"
  /\ process' = "ended"
  /\ told' = {}
  /\ UNCHANGED <<viewers, peers, since, owed, down>>

\* Fault: a process that dies is always replaced.
AlwaysLate == peers # {}

\* Somebody asked so recently that the process was already on its way out.
AskedTooLate == peers # {} /\ since < RaceWindow

\* Fault: the viewers who were told stay in the books.
StillThere == UNCHANGED peers

\* peers_ is emptied before the first viewer's end is reported.
ForgetPeers == peers' = {}

\* on_child_exit: another process for those who came too late, if it can be
\* started and would not fail the same way; or the end for everyone.
OnExit ==
  /\ Listening
  /\ process = "ended"
  /\ \/ /\ AskedTooLate
        /\ process' = "running"
        /\ told' = {}
        /\ UNCHANGED <<viewers, peers>>
     \/ \* misconfigured, too long ago, or not to be started
        /\ process' = "none"
        /\ told' = peers
        /\ viewers' = viewers \ peers
        /\ ForgetPeers
  /\ UNCHANGED <<since, owed, down>>

\* on_shutdown: stop_call, and nobody is let in any more.
Shutdown ==
  /\ Listening
  /\ down' = "stopping"
  /\ viewers' = {}
  /\ told' = {}
  /\ UNCHANGED <<peers, process, since, owed>>

\* The destructor asks, waits three seconds and kills.
Destroyed ==
  /\ down = "stopping"
  /\ down' = "gone"
  /\ process' = "none"
  /\ told' = {}
  /\ UNCHANGED <<viewers, peers, since, owed>>

Wait ==
  /\ since < RaceWindow
  /\ since' = since + 1
  /\ told' = {}
  /\ UNCHANGED <<viewers, peers, process, owed, down>>

Next ==
  \/ \E peer \in Peer : StartCall(peer)
  \/ ReportNever
  \/ ChildEnds
  \/ OnExit
  \/ Shutdown
  \/ Destroyed
  \/ Wait

Spec == Init /\ [][Next]_vars

\* The loop and the clock.  The script may run for ever.
FairSpec == Spec /\ WF_vars(OnExit) /\ WF_vars(ReportNever) /\ WF_vars(Wait)

-----------------------------------------------------------------------------
(* Properties.                                                             *)

\* The core believes in exactly the viewers there is a process for, or who are
\* about to be told there is none: one too many keeps the light on and every
\* upload waiting for as long as the daemon runs, one too few gives the camera
\* to a recording while the call still has it.
BooksAgree ==
  down = "up" =>
    /\ viewers = peers \cup owed
    /\ process # "none" <=> peers # {}

\* Every viewer is told of the end once.
Promise == INSTANCE CallPromise WITH calls <- peers \cup owed
PromiseKept == Promise!Spec

\* A script that dies again and again is started again for as long as the
\* viewer is new, and then the call is over.
CrashLoopEnds ==
  []<>(process = "ended") =>
    (viewers # {} /\ since > 0) ~> (viewers = {} \/ since = 0)
=============================================================================
