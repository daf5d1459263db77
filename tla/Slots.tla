------------------------------- MODULE Slots -------------------------------
(***************************************************************************)
(* The two system slots and who decides between them: U-Boot's script      *)
(* (boot.cmd), RAUC, which writes a slot and keeps the account of it, and  *)
(* porchlight-health, which judges the system that has booted.             *)
(*                                                                         *)
(* U-Boot's environment has two copies, so a write to it happens or does   *)
(* not.  The proof of a slot is a file that nobody syncs.  The power may go *)
(* between any two steps.                                                  *)
(***************************************************************************)
EXTENDS Integers, Sequences

CONSTANTS Release,   \* systems a bundle can carry
          Factory,   \* the system both slots are flashed with
          Sound,     \* systems whose porchlightd stays up
          Torn,      \* what a slot holds while it is being written
          None,
          Tries      \* attempts a slot is given: 3

System == Release \cup {Factory}

ASSUME SlotsAssumption ==
  /\ Sound \subseteq System
  /\ Factory \in Sound
  /\ Torn \notin System
  /\ Tries \in Nat \ {0}

Slot == {"A", "B"}

ASSUME NoSlotAssumption == None \notin Slot

VARIABLES order,    \* BOOT_ORDER
          left,     \* BOOT_x_LEFT
          system,   \* what each slot holds
          stamp,    \* installed.timestamp in RAUC's status file, for each slot
          proven,   \* /data/rauc/proven-x holds that very time stamp
          unsynced, \* and for the slot that runs, only in memory so far
          booted,   \* rauc.slot on the kernel's command line
          health,   \* how far porchlight-health has come
          trial     \* what it took the slot for

environment == <<order, left>>
account == <<system, stamp, proven, unsynced>>
judging == <<health, trial>>
slotVars == <<environment, account, booted, judging>>

Other(s) == IF s = "A" THEN "B" ELSE "A"

\* "absent": nothing was ever installed; "unknown": it cannot be read.
Stamp == {"absent", "written", "unknown"}

Orders == {<<>>, <<"A">>, <<"B">>, <<"A", "B">>, <<"B", "A">>}

SlotsTypeOK ==
  /\ order \in Orders
  /\ left \in [Slot -> 0 .. Tries]
  /\ system \in [Slot -> System \cup {Torn}]
  /\ stamp \in [Slot -> Stamp]
  /\ proven \in [Slot -> BOOLEAN]
  /\ unsynced \in BOOLEAN
  /\ booted \in Slot \cup {None}
  /\ health \in {"none", "watching", "markedGood", "done"}
  /\ trial \in BOOLEAN

SlotsInit ==
  /\ order = <<"A", "B">>
  /\ left = [s \in Slot |-> Tries]
  /\ system = [s \in Slot |-> Factory]
  /\ stamp = [s \in Slot |-> "absent"]
  /\ proven = [s \in Slot |-> FALSE]
  /\ unsynced = FALSE
  /\ booted = None
  /\ health = "none"
  /\ trial = FALSE

-----------------------------------------------------------------------------
(* boot.cmd                                                                *)

\* The defaults of an environment that has no order.
Order == IF order = <<>> THEN <<"A", "B">> ELSE order

Listed == {Order[i] : i \in 1 .. Len(Order)}

\* The slot the loop of boot.cmd settles on.
Chosen(s) ==
  /\ s \in Listed
  /\ left[s] > 0
  /\ s = Order[1] \/ left[Order[1]] = 0

\* The attempt is spent, and saved, before the kernel is loaded; what is torn
\* may fail to load or panic, and then only the attempt is gone.
Boot ==
  /\ booted = None
  /\ \E s \in Slot :
        /\ Chosen(s)
        /\ left' = [left EXCEPT ![s] = @ - 1]
        /\ \/ booted' = s
           \/ system[s] = Torn /\ booted' = None
  /\ order' = Order
  /\ UNCHANGED <<account, judging>>

\* No slot has attempts left: both get them back.
ResetTries ==
  /\ booted = None
  /\ \A s \in Slot : ~ Chosen(s)
  /\ left' = [s \in Slot |-> Tries]
  /\ order' = Order
  /\ UNCHANGED <<account, booted, judging>>

\* The system goes down, whoever wanted it: what was in memory is gone.
GoesDown ==
  /\ booted # None
  /\ booted' = None
  /\ health' = "none"
  /\ trial' = FALSE
  /\ unsynced' = FALSE
  /\ UNCHANGED <<system, stamp>>

\* In order: /data is unmounted, and with that on the card.
ShutsDown == GoesDown /\ UNCHANGED proven

\* Not in order: a proof that was not on the card may be lost.
Drops ==
  /\ GoesDown
  /\ proven' \in IF unsynced THEN {proven, [proven EXCEPT ![booted] = FALSE]} ELSE {proven}

-----------------------------------------------------------------------------
(* porchlight-health                                                       *)

\* Fault: RAUC's account cannot be read, and an empty answer is taken for
\* "never installed".
EmptyAnswer(s) == FALSE

\* A slot has to prove itself unless it is as flashed, or has done so since
\* it was last written.
OnTrial(s) == stamp[s] = "unknown" \/ (stamp[s] = "written" /\ ~ proven[s])

HealthReads ==
  /\ booted # None
  /\ health = "none"
  /\ health' = "watching"
  /\ trial' = OnTrial(booted)
  /\ UNCHANGED <<environment, account, booted>>

\* The script has ended, until the next boot.
Judged == health' = "done" /\ trial' = FALSE

\* Fault: a daemon that is up is a steady one.
UpForNow(s) == TRUE

\* porchlightd has been active for a minute without a restart.
Steady(s) == system[s] \in Sound

\* `rauc status mark-good` gives the attempts back; RAUC's refusal ends it.
MarkGood ==
  /\ booted # None
  /\ health = "watching"
  /\ Steady(booted)
  /\ \/ /\ left' = [left EXCEPT ![booted] = Tries]
        /\ health' = "markedGood"
        /\ UNCHANGED trial
     \/ /\ Judged
        /\ UNCHANGED left
  /\ UNCHANGED <<order, account, booted>>

\* A time stamp that could not be read is no proof of anything later.
RecordProof ==
  /\ booted # None
  /\ health = "markedGood"
  /\ Judged
  /\ IF trial
       THEN /\ proven' = [proven EXCEPT ![booted] = (stamp[booted] = "written")]
            /\ unsynced' = TRUE
       ELSE UNCHANGED <<proven, unsynced>>
  /\ UNCHANGED <<environment, system, stamp, booted>>

\* The kernel writes it back, some time later.
ProofSynced ==
  /\ unsynced
  /\ unsynced' = FALSE
  /\ UNCHANGED <<environment, system, stamp, proven, booted, judging>>

\* Never steady for a minute within the five.  Even a sound system may not be:
\* the network, the hardware.  A slot that has proved itself stays.
KeepProven ==
  /\ booted # None
  /\ health = "watching"
  /\ ~ trial
  /\ Judged
  /\ UNCHANGED <<environment, account, booted>>

Ordered(s) == \E i \in 1 .. Len(order) : order[i] = s

\* The order without slot s.
Without(s) == IF Ordered(Other(s)) THEN <<Other(s)>> ELSE <<>>

\* RAUC's mark-bad: no attempts; whether the slot stays in the order is RAUC's.
MarkedBad(s) ==
  /\ left' = [left EXCEPT ![s] = 0]
  /\ order' \in {order, Without(s)}

\* On trial: marked bad if RAUC can, and rebooted either way.
FallBack ==
  /\ health = "watching"
  /\ trial
  /\ ShutsDown
  /\ MarkedBad(booted) \/ UNCHANGED environment

-----------------------------------------------------------------------------
(* `rauc install`, into the slot that is not running                       *)

\* The slot is out of use, and its account void, before it is written to.
InstallBegins ==
  /\ booted # None
  /\ LET s == Other(booted)
     IN  /\ MarkedBad(s)
         /\ system' = [system EXCEPT ![s] = Torn]
         /\ stamp' = [stamp EXCEPT ![s] = "unknown"]
         /\ proven' = [proven EXCEPT ![s] = FALSE]
  /\ UNCHANGED <<unsynced, booted, judging>>

InstallWrites(release) ==
  /\ booted # None
  /\ system' = [system EXCEPT ![Other(booted)] = release]
  /\ stamp' = [stamp EXCEPT ![Other(booted)] = "written"]
  /\ UNCHANGED <<environment, proven, unsynced, booted, judging>>

\* The new system is to be tried next.
InstallActivates ==
  /\ booted # None
  /\ LET s == Other(booted)
     IN  /\ order' = IF Ordered(Other(s)) THEN <<s, Other(s)>> ELSE <<s>>
         /\ left' = [left EXCEPT ![s] = Tries]
  /\ UNCHANGED <<account, booted, judging>>
=============================================================================
