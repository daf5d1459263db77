-------------------------------- MODULE Setup --------------------------------
(***************************************************************************)
(* pi/porchlight-setup.py: at every boot, before the daemon.  On a network *)
(* it stands aside; without one it raises an access point and waits for a  *)
(* person to name a network that reaches the server.  Each Connect on its  *)
(* page is a thread, and one at a time does anything: it takes the access  *)
(* point down, joins, checks, and ends the set-up or puts the access point *)
(* back.                                                                   *)
(***************************************************************************)
EXTENDS Network, Naturals

CONSTANTS Attempts   \* JOIN_ATTEMPTS

VARIABLES setup,     \* off, waiting (for a saved network), portal, failed or done
          trying,    \* the network the attempt is for; Air when there is none
          with,      \* the key it was given
          stage,     \* where the attempt stands
          tries      \* joins left

setupVars == <<setup, trying, with, stage, tries>>
attempt == <<trying, with, stage, tries>>

Stage == {"none", "stopping", "joining", "refused", "checking", "forgetting", "raising"}

SetupTypeOK ==
  /\ setup \in {"off", "waiting", "portal", "failed", "done"}
  /\ trying \in Net \cup {Air}
  /\ with \in Key
  /\ stage \in Stage
  /\ tries \in 0 .. Attempts

Idle == trying' = Air /\ with' = "none" /\ stage' = "none" /\ tries' = 0

SetupInit ==
  /\ setup = "off"
  /\ trying = Air /\ with = "none" /\ stage = "none" /\ tries = 0

-----------------------------------------------------------------------------
(* main(): before anybody is asked.                                        *)

\* scan and raise_ap; without an access point set-up has failed, and the daemon
\* starts all the same.
RaisePortal ==
  \E up \in BOOLEAN : /\ StartAp(up)
                      /\ setup' = IF up THEN "portal" ELSE "failed"

\* already_connected: there is something to wait for if a network is saved.
SetupStarts ==
  /\ setup = "off"
  /\ \/ /\ HasAddress
        /\ setup' = "done"
        /\ UNCHANGED radioVars
     \/ /\ ~ HasAddress /\ \E n \in Net : profile[n] # "none"
        /\ setup' = "waiting"
        /\ UNCHANGED radioVars
     \/ /\ ~ HasAddress /\ \A n \in Net : profile[n] = "none"
        /\ RaisePortal
  /\ UNCHANGED attempt

\* The wait of forty-five seconds: what comes up is taken as it is.
WaitEnds ==
  /\ setup = "waiting"
  /\ \/ /\ HasAddress
        /\ setup' = "done"
        /\ UNCHANGED radioVars
     \/ ~ HasAddress /\ RaisePortal
  /\ UNCHANGED attempt

-----------------------------------------------------------------------------
(* _attempt(), on the thread of the Connect that got the lock.             *)

Portal == setup = "portal"

Goes(to) ==
  /\ stage' = to
  /\ UNCHANGED <<setup, trying, with>>

\* do_POST, for a phone on the access point.  A second Connect while one is
\* under way changes nothing.
Connect(n, key) ==
  /\ Portal /\ active = Ap /\ stage = "none"
  /\ trying' = n /\ with' = key /\ stage' = "stopping" /\ tries' = Attempts
  /\ UNCHANGED <<radioVars, setup>>

\* One radio: the access point goes first.
TakesApDown ==
  /\ stage = "stopping"
  /\ StopAp
  /\ Goes("joining") /\ UNCHANGED tries

\* join()
Joins ==
  /\ stage = "joining"
  /\ tries' = tries - 1
  /\ \/ Associates(trying, with) /\ Goes("checking")
     \/ Refused(trying, with) /\ Goes(IF tries > 1 THEN "refused" ELSE "forgetting")

\* A half-made profile is not tried again as it is.
ForgetsAndRetries ==
  /\ stage = "refused"
  /\ Forget(trying)
  /\ Goes("joining") /\ UNCHANGED tries

\* verify(): link, names, clock and server, with the credential - if there is
\* one.  Each may fail on a network that is good; none asks which network it is.
CheckFails ==
  /\ stage = "checking"
  /\ Goes("forgetting")
  /\ UNCHANGED <<radioVars, tries>>

CheckPasses ==
  /\ stage = "checking"
  /\ active \in Useful
  /\ setup' = "done"
  /\ Idle
  /\ UNCHANGED radioVars

\* A server that closes the connection or cuts its answer short raises what
\* check_server does not catch.  The thread ends in `finally`: the lock is free,
\* and that is all.  The network is kept and the access point stays down, so
\* nobody can press Connect, and main() waits until the power goes.
CheckRaises ==
  /\ stage = "checking"
  /\ Idle
  /\ UNCHANGED <<radioVars, setup>>

\* Fault: a network that did not work is kept.
KeepsIt ==
  /\ stage = "forgetting"
  /\ Goes("raising") /\ UNCHANGED <<radioVars, tries>>

\* Not kept, or it would be tried at every boot.
ForgetsIt ==
  /\ stage = "forgetting"
  /\ Forget(trying)
  /\ Goes("raising") /\ UNCHANGED tries

\* raise_ap, whose result nobody looks at.
PutsApBack ==
  /\ stage = "raising"
  /\ \E up \in BOOLEAN : StartAp(up)
  /\ Idle
  /\ UNCHANGED setup

Attempt ==
  \/ TakesApDown \/ Joins \/ ForgetsAndRetries
  \/ CheckFails \/ CheckPasses \/ CheckRaises \/ ForgetsIt \/ PutsApBack

SetupNext ==
  \/ SetupStarts \/ WaitEnds
  \/ \E n \in Net, key \in Key : Connect(n, key)
  \/ Attempt

SetupOff ==
  /\ setup' = "off"
  /\ Idle
=============================================================================
