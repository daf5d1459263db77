------------------------------ MODULE Updates ------------------------------
(***************************************************************************)
(* An update from the app: the bridge writes a request and relays what     *)
(* porchlight-update.py writes back (server-bridge.py, start_update and    *)
(* watch_update), the script downloads, has RAUC install and restarts, and *)
(* the slots take it from there.  The power may go at any moment, the      *)
(* bridge may die, systemd may stop the script, and the server may ask at  *)
(* any time the bridge is there to hear it.                                *)
(*                                                                         *)
(* The 90 MB bundle is not in the model: it is removed before a download   *)
(* and after it.                                                           *)
(***************************************************************************)
EXTENDS Slots

ASSUME UpdatesAssumption == None \notin Release

VARIABLES request,   \* /data/update/request.json
          status,    \* /data/update/status.json
          script,    \* how far porchlight-update.py has come
          job,       \* the release it is working on
          rauc,      \* what RAUC is installing
          watch,     \* the update the bridge watches
          told,      \* the update the server has heard is about to start
          hasty      \* history: an update was the work of a slot on trial, or of
                     \* one whose proof was not on the card yet

updateVars == <<request, status, script, job, rauc, watch, told, hasty>>
vars == <<slotVars, updateVars>>

State == {"downloading", "installing", "rebooting", "failed"}

\* `fresh`: at or after the moment the bridge began to watch.
Status == [release : Release, state : State, fresh : BOOLEAN]

\* An install under way; nobody waits for an orphan.
Install == [release : Release, written : BOOLEAN, orphan : BOOLEAN]

TypeOK ==
  /\ SlotsTypeOK
  /\ request \in Release \cup {None}
  /\ status \in Status \cup {None}
  /\ script \in {"idle", "taken", "receiving", "installing", "installed",
                "restarting", "ending"}
  /\ job \in Release \cup {None}
  /\ rauc \in Install \cup {None}
  /\ watch \in Release \cup {None}
  /\ told \in Release \cup {None}
  /\ hasty \in BOOLEAN

Init ==
  /\ SlotsInit
  /\ request = None
  /\ status = None
  /\ script = "idle"
  /\ job = None
  /\ rauc = None
  /\ watch = None
  /\ told = None
  /\ hasty = FALSE

-----------------------------------------------------------------------------
(* The bridge                                                              *)

\* An `update` from the server.  One that comes while an update is watched is
\* ignored, one that cannot be written is answered and forgotten; a request
\* nobody has taken yet is written over.
StartUpdate(release) ==
  /\ booted # None
  /\ watch = None
  /\ request' = release
  /\ watch' = release
  /\ told' = None
  /\ status' = IF status = None THEN None ELSE [status EXCEPT !.fresh = FALSE]
  /\ UNCHANGED <<slotVars, script, job, rauc, hasty>>

\* Fault: a status of the same version is taken for this attempt's.
SameVersion == status.release = watch

\* The file still holds the last update's ending until this one begins.
Watched == status.release = watch /\ status.fresh

\* One poll whose frame the socket takes; the last state ends the watch.
Relay ==
  /\ booted # None
  /\ watch # None
  /\ status # None
  /\ Watched
  /\ told' = IF status.state = "rebooting" THEN watch ELSE told
  /\ watch' = IF status.state \in {"failed", "rebooting"} THEN None ELSE watch
  /\ UNCHANGED <<slotVars, request, status, script, job, rauc, hasty>>

\* The bridge is restarted, or has watched for an hour.
WatchLost ==
  /\ watch # None
  /\ watch' = None
  /\ UNCHANGED <<slotVars, request, status, script, job, rauc, told, hasty>>

-----------------------------------------------------------------------------
(* porchlight-update.py                                                    *)

\* write_status
Writes(release, state) ==
  status' = [release |-> release, state |-> state, fresh |-> TRUE]

\* read_request: removed whatever happens next, so one request is one attempt.
\* Nothing here or in the bridge asks whether the slot is on trial.
ReadRequest ==
  /\ booted # None
  /\ script = "idle"
  /\ request # None
  /\ request' = None
  /\ hasty' = (hasty \/ OnTrial(booted))
  /\ \/ /\ script' = "taken"             \* a request as it should be
        /\ job' = request
        /\ UNCHANGED status
     \/ /\ script' = "ending"            \* one with no URL, size or hash
        /\ Writes(request, "failed")
        /\ UNCHANGED job
     \/ /\ script' = "ending"            \* one that cannot be read at all
        /\ UNCHANGED <<job, status>>
  /\ UNCHANGED <<slotVars, rauc, watch, told>>

\* The script is running and the system with it.
At(step) == booted # None /\ script = step

\* An attempt at the download, the first or another.
Download ==
  /\ At("taken") \/ At("receiving")
  /\ script' = "receiving"
  /\ Writes(job, "downloading")
  /\ UNCHANGED <<slotVars, request, job, rauc, watch, told, hasty>>

\* What was downloaded is what the server published.
RunInstall ==
  /\ At("receiving")
  /\ script' = "installing"
  /\ Writes(job, "installing")
  /\ UNCHANGED <<slotVars, request, job, rauc, watch, told, hasty>>

\* The install this script waits for.
Own == script = "installing" /\ rauc # None /\ ~ rauc.orphan

\* The script lets go of its install: RAUC stops with it, or carries on alone.
LetsGo == rauc' \in IF Own THEN {None, [rauc EXCEPT !.orphan = TRUE]} ELSE {rauc}

\* No room, a download that fails three times or does not match, an install
\* that RAUC refuses, that fails, or that takes too long.
Refuse ==
  /\ At("taken") \/ At("receiving") \/ At("installing")
  /\ script' = "ending"
  /\ LetsGo
  /\ job' = None
  /\ Writes(job, "failed")
  /\ UNCHANGED <<slotVars, request, watch, told, hasty>>

\* RAUC is done; six seconds are left for the bridge to pass it on.
Announce ==
  /\ At("installed")
  /\ script' = "restarting"
  /\ job' = None
  /\ Writes(job, "rebooting")
  /\ UNCHANGED <<slotVars, request, rauc, watch, told, hasty>>

\* TimeoutStartSec, or an error nobody catches: nothing more is written.
Killed ==
  /\ booted # None
  /\ script \notin {"idle", "ending"}
  /\ script' = "ending"
  /\ job' = None
  /\ LetsGo
  /\ UNCHANGED <<slotVars, request, status, watch, told, hasty>>

\* ExecStopPost: a request written since the script read its own goes as well.
StopPost ==
  /\ At("ending")
  /\ request' = None
  /\ script' = "idle"
  /\ UNCHANGED <<slotVars, status, job, rauc, watch, told, hasty>>

-----------------------------------------------------------------------------
(* RAUC                                                                    *)

Begin ==
  /\ At("installing")
  /\ rauc = None
  /\ InstallBegins
  /\ rauc' = [release |-> job, written |-> FALSE, orphan |-> FALSE]
  /\ hasty' = (hasty \/ unsynced)
  /\ UNCHANGED <<request, status, script, job, watch, told>>

Write ==
  /\ rauc # None
  /\ ~ rauc.written
  /\ InstallWrites(rauc.release)
  /\ rauc' = [rauc EXCEPT !.written = TRUE]
  /\ UNCHANGED <<request, status, script, job, watch, told, hasty>>

Activate ==
  /\ rauc # None
  /\ rauc.written
  /\ InstallActivates
  /\ script' = IF Own THEN "installed" ELSE script
  /\ rauc' = None
  /\ UNCHANGED <<request, status, job, watch, told, hasty>>

OrphanFails ==
  /\ rauc # None
  /\ rauc.orphan
  /\ rauc' = None
  /\ UNCHANGED <<slotVars, request, status, script, job, watch, told, hasty>>

-----------------------------------------------------------------------------
(* Going down                                                              *)

\* What does not survive, on the device and of the connection.
MemoryLost ==
  /\ script' = "idle"
  /\ job' = None
  /\ rauc' = None
  /\ watch' = None
  /\ told' = None
  /\ UNCHANGED <<status, hasty>>

\* systemd stops what runs, and with the script goes the request file.
Stopped == request' = IF script = "idle" THEN request ELSE None

Restart ==
  /\ script = "restarting"
  /\ ShutsDown
  /\ Stopped
  /\ MemoryLost
  /\ UNCHANGED environment

Reject == FallBack /\ Stopped /\ MemoryLost

\* A power cut, or a system that hangs until the watchdog resets it.
Cut ==
  /\ Drops
  /\ MemoryLost
  /\ UNCHANGED <<environment, request>>

-----------------------------------------------------------------------------

Next ==
  \/ (Boot \/ ResetTries) /\ UNCHANGED updateVars
  \/ /\ HealthReads \/ MarkGood \/ RecordProof \/ KeepProven \/ ProofSynced
     /\ UNCHANGED updateVars
  \/ \E release \in Release : StartUpdate(release)
  \/ Relay \/ WatchLost
  \/ ReadRequest \/ Download \/ RunInstall \/ Refuse \/ Announce \/ Killed \/ StopPost
  \/ Begin \/ Write \/ Activate \/ OrphanFails
  \/ Restart \/ Reject \/ Cut

Spec == Init /\ [][Next]_vars

\* U-Boot runs when there is power, and porchlight-health runs to its end;
\* nothing else is owed, and the power may go as often as it likes.
FairSpec ==
  /\ Spec
  /\ WF_vars((Boot \/ ResetTries) /\ UNCHANGED updateVars)
  /\ WF_vars(HealthReads /\ UNCHANGED updateVars)
  /\ WF_vars(KeepProven /\ UNCHANGED updateVars)
  /\ WF_vars(Reject)

-----------------------------------------------------------------------------
(* What must hold                                                          *)

\* A slot whose system needs no more proof.
Trusted(s) == stamp[s] = "absent" \/ (stamp[s] = "written" /\ proven[s])

\* There is always a way back: one slot holds a system that has proved itself
\* and does run.  An update taken up while its own slot is on trial overwrites
\* the only other one, and nothing in the code refuses it; nor an install that
\* begins before the proof of its own slot is on the card.
WayBack == hasty \/ \E s \in Slot : Trusted(s) /\ system[s] \in Sound

\* An update the server has been told is about to start does start: the other
\* slot holds it, whole, and U-Boot will try it first.
RebootingIsTrue ==
  told # None =>
    LET s == Other(booted)
    IN  /\ system[s] = told
        /\ Order[1] = s
        /\ left[s] > 0

\* Whatever was installed and whenever the power went, a system that runs is
\* reached again and again: the device never stays with one that does not.
ComesUp == []<>(hasty \/ (booted # None /\ system[booted] \in Sound))
=============================================================================
