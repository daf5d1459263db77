------------------------------ MODULE Network ------------------------------
(***************************************************************************)
(* The one radio, as class Network of pi/porchlight-setup.py drives it     *)
(* with nmcli: the saved profiles, and what the radio is on.  It is on a   *)
(* network, on the access point of its own, or on nothing.                 *)
(*                                                                         *)
(* NetworkManager is external: it goes back to a saved network by itself   *)
(* when it likes, and what a failed join leaves behind is not promised.    *)
(***************************************************************************)
CONSTANTS Net,       \* networks around
          Useful,    \* those that lead to the server
          Ap, Air    \* the access point, and no connection

VARIABLES profile,   \* what is saved for a network: nothing, or a right or a wrong key
          active,    \* what the radio is on
          near       \* networks in range

radioVars == <<profile, active, near>>

Key == {"right", "wrong", "none"}

RadioTypeOK ==
  /\ profile \in [Net -> Key]
  /\ active \in Net \cup {Ap, Air}
  /\ near \subseteq Net

RadioInit ==
  /\ profile = [n \in Net |-> "none"]
  /\ active = Air
  /\ near = Net

\* active_ipv4: an address on something that is not our own access point.
HasAddress == active \in Net

\* _join_once: the key that is given, or the one saved when none is.
Associates(n, key) ==
  /\ n \in near
  /\ key = "right" \/ (key = "none" /\ profile[n] = "right")
  /\ profile' = [profile EXCEPT ![n] = "right"]
  /\ active' = n
  /\ UNCHANGED near

\* A join that fails: the network is not seen, and nothing happens; or it is a
\* wrong key, or no reason ("any failed first join of a new profile"), with the
\* radio off what it was on and a half-made profile left behind, or none.
Refused(n, key) ==
  /\ \/ UNCHANGED <<profile, active>>
     \/ /\ active' = Air
        /\ profile' \in {profile} \cup
                        (IF key = "none" THEN {} ELSE {[profile EXCEPT ![n] = key]})
  /\ UNCHANGED near

Forget(n) ==
  /\ profile' = [profile EXCEPT ![n] = "none"]
  /\ active' = IF active = n THEN Air ELSE active
  /\ UNCHANGED near

\* start_ap: added and brought up, or not.
StartAp(up) ==
  /\ IF up THEN active' = Ap ELSE active' \in {active, Air}
  /\ UNCHANGED <<profile, near>>

StopAp ==
  /\ active' = IF active = Ap THEN Air ELSE active
  /\ UNCHANGED <<profile, near>>

\* connection up: whatever the radio is on; it may fail on a network that is
\* there, as a join may, and leave the radio as it was or on nothing.
Brought(n) ==
  /\ \/ n \in near /\ profile[n] = "right" /\ active' = n
     \/ active' \in {active, Air}
  /\ UNCHANGED <<profile, near>>

-----------------------------------------------------------------------------
\* NetworkManager finds a saved network by itself.
Autoconnect(n) ==
  /\ active = Air
  /\ n \in near /\ profile[n] = "right"
  /\ active' = n
  /\ UNCHANGED <<profile, near>>

\* A router is switched off, or out of range.
Fades(n) ==
  /\ n \in near
  /\ near' = near \ {n}
  /\ active' = IF active = n THEN Air ELSE active
  /\ UNCHANGED profile

Appears(n) ==
  /\ n \notin near
  /\ near' = near \cup {n}
  /\ UNCHANGED <<profile, active>>

Around ==
  \E n \in Net : Autoconnect(n) \/ Fades(n) \/ Appears(n)

\* The network goes down with the power; what is saved stays.
RadioOff ==
  /\ active' = Air
  /\ UNCHANGED <<profile, near>>
=============================================================================
