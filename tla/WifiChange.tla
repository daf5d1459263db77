----------------------------- MODULE WifiChange -----------------------------
(***************************************************************************)
(* Changing the network of a doorbell that is on one: the bridge           *)
(* (pi/server-bridge.py, start_wifi and its two watches) leaves a request  *)
(* for a root helper (pi/porchlight-wifi.py, started by a path unit), and  *)
(* relays what the helper writes into its status file.  The helper leaves  *)
(* the network the device is on, and has to come back if the new one does  *)
(* not reach the server.                                                   *)
(*                                                                         *)
(* Composed with the set-up of the same boot: a request that a power cut   *)
(* left behind is served at the next boot, whatever set-up is doing.       *)
(***************************************************************************)
EXTENDS Setup

CONSTANTS NoRequest, Scan,
          BadName     \* a change to what is no network's name: empty, or too long

ASSUME RadioAssumption ==
  /\ Useful \subseteq Net
  /\ Ap \notin Net /\ Air \notin Net /\ Ap # Air
  /\ Attempts \in Nat \ {0}

\* A request is the newest one or an earlier one: more than that the identifiers
\* it carries are never asked.
VARIABLES pending,   \* the request file, which is the newest request's
          status,    \* the state in the status file
          current,   \* the status file and the helper's job are the newest request's
          helper,    \* where porchlight-wifi.py stands; off when it does not run
          job,       \* what it took
          left,      \* joins left
          previous,  \* what the radio was on when it began
          watch,     \* a thread of the bridge watches for the newest request
          heard,     \* what the server has heard of it
          result,    \* how it really ended
          alone,     \* set-up was over when the helper began
          known      \* networks that passed a check, that the radio was on when a
                     \* change began, or whose attempt was cut short: by the power,
                     \* by the time limit, or by an exception in the check

helperVars == <<helper, job, left, previous, alone>>
bridgeVars == <<watch, heard>>
history == <<result, known>>
vars == <<radioVars, setupVars, pending, status, current, helperVars, bridgeVars, history>>

Change == [net : Net, key : Key]
Outcome == {"connected", "failed"}
Request == Change \cup {Scan, BadName}
Step == {"off", "taken", "scanning", "refusing", "joining", "refused", "checking",
         "forgetting", "restoring", "returning"}

TypeOK ==
  /\ RadioTypeOK
  /\ SetupTypeOK
  /\ pending \in Request \cup {NoRequest}
  /\ status \in Outcome \cup {"none", "joining"}
  /\ current \subseteq {"status", "job"}
  /\ helper \in Step
  /\ job \in Request \cup {NoRequest}
  /\ left \in 0 .. Attempts
  /\ previous \in Net \cup {Ap, Air}
  /\ alone \in BOOLEAN
  /\ watch \in BOOLEAN
  /\ heard \in Outcome \cup {"none", "joining"}
  /\ result \in Outcome \cup {"none"}
  /\ known \subseteq Net

Init ==
  /\ RadioInit
  /\ SetupInit
  /\ pending = NoRequest
  /\ status = "none" /\ current = {}
  /\ helper = "off" /\ job = NoRequest /\ left = 0 /\ previous = Air
  /\ alone = FALSE
  /\ watch = FALSE
  /\ heard = "none"
  /\ result = "none"
  /\ known = {}

On == setup # "off"

-----------------------------------------------------------------------------
(* The helper.                                                             *)

\* What it writes is about its job, which may not be the newest any more.
Writes(state) ==
  /\ status' = state
  /\ current' = IF "job" \in current THEN current \cup {"status"} ELSE current \ {"status"}

At(step) == helper' = step /\ UNCHANGED <<job, previous, alone>>

\* The path unit starts it, and it takes the request off the disk as it reads.
HelperStarts ==
  /\ On /\ helper = "off" /\ pending # NoRequest
  /\ helper' = IF pending = Scan THEN "scanning"
               ELSE IF pending = BadName THEN "refusing" ELSE "taken"
  /\ job' = pending
  /\ pending' = NoRequest
  /\ current' = current \cup {"job"}
  /\ previous' = active
  /\ left' = Attempts
  /\ alone' = (setup \in {"done", "failed"})
  /\ known' = known \cup ({active} \cap Net)
  /\ UNCHANGED <<radioVars, status, result>>

\* ExecStopPost removes a request that was never read.
Ends ==
  /\ helper' = "off"
  /\ pending' = NoRequest
  /\ job' = NoRequest /\ left' = 0 /\ previous' = Air
  /\ alone' = FALSE

\* The list goes into a file of its own.
ScanEnds ==
  /\ helper = "scanning"
  /\ Ends
  /\ UNCHANGED <<radioVars, status, current, history>>

\* The outcome of the job, and of the newest request if it is that one.
Concludes(outcome) ==
  /\ Writes(outcome)
  /\ result' = IF "job" \in current THEN outcome ELSE result
  /\ Ends

\* join() of a name that is not valid: nothing is tried.
RefusesName ==
  /\ helper = "refusing"
  /\ Concludes("failed")
  /\ UNCHANGED <<radioVars, known>>

\* join(), up to the first attempt: there may be nothing to do.
JoinBegins ==
  /\ helper = "taken"
  /\ IF previous = job.net /\ job.key = "none"
       THEN Concludes("connected")
       ELSE /\ Writes("joining")
            /\ At("joining")
            /\ UNCHANGED <<pending, left, result>>
  /\ UNCHANGED <<radioVars, known>>

HelperJoins ==
  /\ helper = "joining"
  /\ left' = left - 1
  /\ \/ Associates(job.net, job.key) /\ At("checking")
     \/ Refused(job.net, job.key) /\ At(IF left > 1 THEN "refused" ELSE "forgetting")
  /\ UNCHANGED <<pending, status, current, history>>

HelperRetries ==
  /\ helper = "refused"
  /\ Forget(job.net)
  /\ At("joining")
  /\ UNCHANGED <<pending, status, current, left, history>>

HelperCheckFails ==
  /\ helper = "checking"
  /\ At("forgetting")
  /\ UNCHANGED <<radioVars, pending, status, current, left, history>>

HelperCheckPasses ==
  /\ helper = "checking"
  /\ active \in Useful
  /\ Concludes("connected")
  /\ known' = known \cup {job.net}
  /\ UNCHANGED radioVars

\* What check_server does not catch ends the process, with a traceback: nothing
\* is forgotten, nothing restored, and the status still says "joining".
HelperCheckRaises ==
  /\ helper = "checking"
  /\ Ends
  /\ known' = known \cup {job.net}
  /\ UNCHANGED <<radioVars, status, current, result>>

\* Fault: what is forgotten is what the radio is on, which the network that
\* would not be joined is not.
ForgetsWhatItIsOn ==
  /\ helper = "forgetting"
  /\ IF active \in Net \ {previous} THEN Forget(active) ELSE UNCHANGED radioVars
  /\ At("restoring")
  /\ UNCHANGED <<pending, status, current, left, history>>

\* The network the device came from is not forgotten, whatever was tried on it.
HelperForgets ==
  /\ helper = "forgetting"
  /\ IF job.net # previous THEN Forget(job.net) ELSE UNCHANGED radioVars
  /\ At("restoring")
  /\ UNCHANGED <<pending, status, current, left, history>>

\* restore(): up again, the access point too - if it can be: nobody looks at
\* nmcli's answer.
BackToPrevious ==
  CASE previous \in Net -> Brought(previous)
    [] previous = Ap -> \E up \in BOOLEAN : StartAp(up)
    [] OTHER -> UNCHANGED radioVars

HelperRestores ==
  /\ helper = "restoring"
  /\ BackToPrevious
  /\ At("returning")
  /\ UNCHANGED <<pending, status, current, left, history>>

\* restore() has seen it back, or has waited for a minute; the outcome is the
\* same.
HelperGivesUp ==
  /\ helper = "returning"
  /\ Concludes("failed")
  /\ UNCHANGED <<radioVars, known>>

Changing == helper \notin {"off", "scanning", "refusing"}

\* TimeoutStartSec: six minutes.
HelperKilled ==
  /\ helper # "off"
  /\ Ends
  /\ known' = IF Changing THEN known \cup {job.net} ELSE known
  /\ UNCHANGED <<radioVars, status, current, result>>

Works ==
  /\ \/ HelperStarts \/ ScanEnds \/ RefusesName \/ JoinBegins
     \/ HelperJoins \/ HelperRetries
     \/ HelperCheckFails \/ HelperCheckPasses \/ HelperCheckRaises
     \/ HelperForgets \/ HelperRestores \/ HelperGivesUp
     \/ HelperKilled
  /\ UNCHANGED <<setupVars, bridgeVars>>

-----------------------------------------------------------------------------
(* The bridge, which runs once set-up has let the daemon start.            *)

Linked == setup \in {"done", "failed"} /\ active \in Useful

BridgeRest == UNCHANGED <<radioVars, setupVars, status, helperVars, known>>

\* start_wifi: only while no thread watches; a request not read yet is replaced.
Asked ==
  /\ Linked /\ ~ watch
  /\ pending' \in Request
  /\ watch' = TRUE
  /\ current' = {}
  /\ heard' = "none" /\ result' = "none"
  /\ BridgeRest

\* Fault: whatever the file says is the answer.
AnyStatus == TRUE

\* The file may still tell of an earlier request.
ItsStatus == "status" \in current

\* watch_wifi_join: each new state once it can be sent, and the outcome ends it.
Relays ==
  /\ Linked /\ watch
  /\ status # "none" /\ ItsStatus
  /\ heard # status
  /\ heard' = status
  /\ watch' = (status \notin Outcome)
  /\ UNCHANGED <<pending, current, result>> /\ BridgeRest

\* The watch for a join lasts longer than the helper may; the watch for a scan
\* has its list, or does not last as long as a scan may; the bridge may die.
WatchEnds ==
  /\ watch
  /\ watch' = FALSE
  /\ UNCHANGED <<pending, current, heard, result>> /\ BridgeRest

Bridge == Asked \/ Relays \/ WatchEnds

-----------------------------------------------------------------------------
SetsUp ==
  /\ SetupNext
  /\ known' = IF stage = "checking" /\ stage' = "none" THEN known \cup {trying} ELSE known
  /\ UNCHANGED <<pending, status, current, helperVars, bridgeVars, result>>

Outside ==
  /\ Around
  /\ UNCHANGED <<setupVars, pending, status, current, helperVars, bridgeVars, history>>

PowerCut ==
  /\ On
  /\ SetupOff
  /\ RadioOff
  /\ known' = known \cup (IF trying = Air THEN {} ELSE {trying})
                    \cup (IF Changing THEN {job.net} ELSE {})
  /\ helper' = "off" /\ job' = NoRequest /\ left' = 0 /\ previous' = Air
  /\ alone' = FALSE
  /\ watch' = FALSE
  /\ UNCHANGED <<pending, status, current, heard, result>>

Next == SetsUp \/ Works \/ Bridge \/ Outside \/ PowerCut

Spec == Init /\ [][Next]_vars

-----------------------------------------------------------------------------
(* Properties.                                                             *)

\* A network whose check failed is not kept, by set-up or by the helper: it
\* would be tried at every boot, and set-up would stand aside for it for ever.
\* Only an attempt that is cut short may leave one behind - by the power, by
\* the time limit, or by an exception that the check of the server lets pass.
OnlyProvedKept ==
  \A n \in Net : profile[n] # "none" =>
    n \in known \cup {trying} \cup (IF Changing THEN {job.net} ELSE {})

\* However a change ends - joined, failed, killed, by an exception, or with the
\* power - the network the device came from is still saved, with its key, unless
\* it is the one the new key was for.  And when the helper says "failed", what
\* was tried is neither saved nor what the radio is on, so that the old network
\* is there for NetworkManager to find.  (Set-up may have the same radio in hand
\* when a request that a power cut left behind is served.)
WayHomeKept ==
  [][ Changing /\ helper' = "off" /\ alone =>
        /\ previous \in Net \ {job.net} => profile'[previous] = "right"
        /\ status # status' /\ status' = "failed" /\ job.net # previous =>
             profile'[job.net] = "none" /\ active' # job.net ]_vars

\* What the server hears of a request is what became of that request.
TellsItsOwn == heard \in Outcome => result = heard

-----------------------------------------------------------------------------
(* What the comments say and the code does not do.                         *)

\* porchlight-wifi.py: "anything short of that puts the doorbell back where it
\* was".  Not when "connection up" fails, or the key was for that very network.
PutBack ==
  [][ helper = "returning" /\ status # status' /\ previous \in near /\ alone
        => active' = previous ]_vars

\* porchlight-setup.py, _attempt: "Not kept: a profile that does not work would
\* be retried on every future boot and would stop this ever running again."
NotKept ==
  [][ stage # "none" /\ stage' = "none" /\ setup' = "portal"
        => profile'[trying] = "none" ]_vars
=============================================================================
