---------------------------- MODULE Boot_proofs -----------------------------
(***************************************************************************)
(* What no power cut takes away.  Of the updates and the two slots, for    *)
(* any set of releases and any number of tries: a slot that works remains, *)
(* and the server is told the truth about a restart.  And of first boot:   *)
(* the secret does not come back, and a run that ends well leaves a device *)
(* that is whole.                                                          *)
(***************************************************************************)
EXTENDS Updates, FirstBoot, TLAPS

(***************************************************************************)
(* The inductive invariant                                                 *)
(***************************************************************************)

\* What is trusted runs, and what RAUC's account lost is not proved.
TrustEarned ==
  \A s \in Slot : /\ Trusted(s) => system[s] \in Sound
                  /\ stamp[s] = "unknown" => ~ proven[s]

\* porchlight-health runs on the slot it judges, and that is on trial only
\* until it is proved; a proof that is not on the card yet is that slot's.
HealthHere ==
  /\ health # "none" => booted # None
  /\ health = "markedGood" => system[booted] \in Sound
  /\ trial => booted # None /\ ~ Trusted(booted)
  /\ unsynced => booted # None

\* A slot that is trusted, and will be if the power goes now.
Safe(s) == Trusted(s) /\ ~ (unsynced /\ s = booted)

\* An update is the work of a slot that is trusted, unless it was hasty.
TrustKept ==
  ~ hasty => /\ \E s \in Slot : Safe(s)
             /\ script # "idle" \/ rauc # None => booted # None /\ Trusted(booted)
             /\ rauc # None => ~ unsynced

\* What the script works on, and whose install is under way.
WorkKnown ==
  /\ script # "idle" => booted # None
  /\ script \in {"taken", "receiving", "installing", "installed"} => job \in Release
  /\ rauc # None =>
       /\ booted # None
       /\ ~ rauc.orphan => script = "installing" /\ rauc.release = job
       /\ IF rauc.written THEN system[Other(booted)] = rauc.release
                          ELSE stamp[Other(booted)] = "unknown"

\* The slot that is not running holds the release and is tried next.
Ready(release) ==
  /\ booted # None
  /\ system[Other(booted)] = release
  /\ Order[1] = Other(booted)
  /\ left[Other(booted)] > 0

\* The server has been told of a restart, or the next poll will tell it.
Due(release) ==
  \/ told = release
  \/ /\ status # None
     /\ status = [release |-> release, state |-> "rebooting", fresh |-> TRUE]
     /\ watch = release

RestartTrue ==
  /\ script = "installed" => rauc = None /\ Ready(job)
  /\ \A release \in Release : Due(release) =>
       /\ rauc = None
       /\ Ready(release)
       /\ script \in {"restarting", "ending", "idle"}
       /\ script = "idle" => request = None

IInv == /\ TypeOK /\ TrustEarned /\ HealthHere /\ TrustKept /\ WorkKnown /\ RestartTrue

LEMMA SlotFacts ==
  ASSUME NEW s \in Slot
  PROVE  Other(s) \in Slot /\ Other(s) # s /\ Other(Other(s)) = s /\ s # None
BY NoSlotAssumption DEF Slot, Other

\* The order is never more than the two slots.
LEMMA OrderFacts ==
  ASSUME order \in Orders, NEW s \in Slot
  PROVE  /\ Order \in Orders
         /\ Without(s) \in Orders
         /\ <<s>> \in Orders /\ <<s, Other(s)>> \in Orders
BY SlotFacts DEF Orders, Order, Without, Slot, Other

\* As flashed, nothing under way.
LEMMA InitEstablishes == Init => IInv
<1> SUFFICES ASSUME Init PROVE IInv
  OBVIOUS
<1> USE DEF Init, SlotsInit
<1>1. TypeOK
  <2>1. Tries \in 0 .. Tries
    BY SlotsAssumption
  <2>2. SlotsTypeOK
    BY <2>1 DEF SlotsTypeOK, Orders, System, Stamp
  <2> QED  BY <2>2 DEF TypeOK
<1>2. TrustEarned /\ HealthHere
  BY SlotsAssumption DEF TrustEarned, HealthHere, Trusted, Slot
<1>3. TrustKept /\ WorkKnown
  BY DEF TrustKept, WorkKnown, Safe, Trusted, Slot
<1>4. RestartTrue
  BY UpdatesAssumption DEF RestartTrue, Due
<1> QED  BY <1>1, <1>2, <1>3, <1>4 DEF IInv

-----------------------------------------------------------------------------
(* Types                                                                   *)

\* A slot that is chosen has an attempt to spend.
LEMMA SpentLeft ==
  ASSUME NEW s \in Slot, left \in [Slot -> 0 .. Tries], Chosen(s)
  PROVE  [left EXCEPT ![s] = @ - 1] \in [Slot -> 0 .. Tries]
<1>1. left[s] \in 0 .. Tries
  OBVIOUS
<1>2. left[s] > 0
  BY Zenon DEF Chosen
<1>3. left[s] - 1 \in 0 .. Tries
  BY <1>1, <1>2, SlotsAssumption
<1> QED  BY <1>3

LEMMA SlotsTypeKeeps ==
  ASSUME TypeOK, WorkKnown, [Next]_vars
  PROVE  SlotsTypeOK'
<1> USE DEF TypeOK
<1>1. CASE UNCHANGED slotVars
  BY <1>1 DEF SlotsTypeOK, slotVars, environment, account, judging
<1>2. CASE Boot
  <2>1. PICK s \in Slot : /\ Chosen(s)
                          /\ left' = [left EXCEPT ![s] = @ - 1]
                          /\ booted' = s \/ booted' = None
    BY <1>2 DEF Boot
  <2>2. left' \in [Slot -> 0 .. Tries]
    <3>1. left \in [Slot -> 0 .. Tries]
      BY DEF SlotsTypeOK
    <3>2. [left EXCEPT ![s] = @ - 1] \in [Slot -> 0 .. Tries]
      BY <2>1, <3>1, SpentLeft
    <3> QED  BY <2>1, <3>2, Zenon
  <2>3. order' \in Orders
    BY <1>2, <2>1, OrderFacts DEF SlotsTypeOK, Boot
  <2> QED  BY <1>2, <2>1, <2>2, <2>3 DEF SlotsTypeOK, Boot, account, judging
<1>3. CASE ResetTries
  <2>1. order' \in Orders
    BY <1>3, OrderFacts DEF SlotsTypeOK, ResetTries, Slot
  <2> QED  BY <1>3, <2>1, SlotsAssumption DEF SlotsTypeOK, ResetTries, account, judging
<1>4. CASE HealthReads
  BY <1>4 DEF SlotsTypeOK, HealthReads, environment, account, OnTrial
<1>5. CASE MarkGood
  <2>1. left' \in [Slot -> 0 .. Tries]
    <3>1. Tries \in 0 .. Tries
      BY SlotsAssumption
    <3> QED  BY <1>5, <3>1 DEF SlotsTypeOK, MarkGood
  <2> QED  BY <1>5, <2>1 DEF SlotsTypeOK, MarkGood, Judged, account
<1>6. CASE RecordProof
  BY <1>6 DEF SlotsTypeOK, RecordProof, Judged, environment
<1>7. CASE KeepProven \/ ProofSynced
  BY <1>7 DEF SlotsTypeOK, KeepProven, ProofSynced, Judged, environment, account, judging
<1>8. CASE Begin
  <2>1. booted \in Slot /\ Other(booted) \in Slot
    BY <1>8, SlotFacts DEF Begin, InstallBegins, SlotsTypeOK
  <2>2. order' \in Orders
    BY <1>8, <2>1, OrderFacts DEF Begin, InstallBegins, MarkedBad, SlotsTypeOK
  <2> QED  BY <1>8, <2>1, <2>2, SlotsAssumption
           DEF SlotsTypeOK, Begin, InstallBegins, MarkedBad, judging, Stamp
<1>9. CASE Write
  <2>1. booted \in Slot /\ Other(booted) \in Slot
    BY <1>9, SlotFacts DEF Write, InstallWrites, SlotsTypeOK
  <2>2. rauc.release \in System
    BY <1>9 DEF Write, Install, System
  <2> QED  BY <1>9, <2>1, <2>2
           DEF SlotsTypeOK, Write, InstallWrites, environment, judging, Stamp
<1>10. CASE Activate
  <2>1. booted \in Slot /\ Other(booted) \in Slot /\ Other(Other(booted)) = booted
    BY <1>10, SlotFacts DEF Activate, InstallActivates, SlotsTypeOK
  <2>2. order' \in Orders
    BY <1>10, <2>1, OrderFacts DEF Activate, InstallActivates, SlotsTypeOK
  <2> QED  BY <1>10, <2>1, <2>2, SlotsAssumption
           DEF SlotsTypeOK, Activate, InstallActivates, account, judging
<1>11. CASE Restart \/ Cut
  <2>1. proven' \in [Slot -> BOOLEAN]
    BY <1>11 DEF SlotsTypeOK, Restart, Cut, ShutsDown, Drops
  <2> QED  BY <1>11, <2>1 DEF SlotsTypeOK, Restart, Cut, ShutsDown, Drops, GoesDown, environment
<1>12. CASE Reject
  <2>1. booted \in Slot
    BY <1>12 DEF Reject, FallBack, ShutsDown, GoesDown, SlotsTypeOK
  <2>2. order' \in Orders
    BY <1>12, <2>1, OrderFacts DEF Reject, FallBack, MarkedBad, environment, SlotsTypeOK
  <2>3. left' \in [Slot -> 0 .. Tries]
    <3>1. 0 \in 0 .. Tries
      BY SlotsAssumption
    <3> QED  BY <1>12, <3>1 DEF SlotsTypeOK, Reject, FallBack, MarkedBad, environment
  <2> QED  BY <1>12, <2>2, <2>3 DEF SlotsTypeOK, Reject, FallBack, ShutsDown, GoesDown
<1> QED
  BY <1>1, <1>2, <1>3, <1>4, <1>5, <1>6, <1>7, <1>8, <1>9, <1>10, <1>11, <1>12
  DEF Next, vars, StartUpdate, Relay, WatchLost, ReadRequest, Download, RunInstall,
      Refuse, Announce, Killed, StopPost, OrphanFails

\* What write_status leaves is a status.
LEMMA WritesStatus ==
  ASSUME NEW release \in Release, NEW state \in State, Writes(release, state)
  PROVE  status' \in Status
BY DEF Writes, Status

\* Letting go of an install leaves it, orphaned perhaps, or none.
LEMMA LetsGoInstall ==
  ASSUME rauc \in Install \cup {None}, LetsGo
  PROVE  /\ rauc' \in Install \cup {None}
         /\ rauc' # None =>
              /\ rauc # None
              /\ rauc'.release = rauc.release
              /\ rauc'.written = rauc.written
              /\ rauc'.orphan = (rauc.orphan \/ Own)
BY DEF LetsGo, Own, Install

LEMMA TypeKeeps ==
  ASSUME TypeOK, WorkKnown, [Next]_vars
  PROVE  TypeOK'
<1>1. SlotsTypeOK'
  BY SlotsTypeKeeps
<1> USE DEF TypeOK
<1>2. CASE UNCHANGED updateVars
  BY <1>1, <1>2 DEF updateVars
<1>3. CASE \E release \in Release : StartUpdate(release)
  BY <1>1, <1>3 DEF StartUpdate, Status
<1>4. CASE Relay \/ WatchLost \/ StopPost
  BY <1>1, <1>4 DEF Relay, WatchLost, StopPost
<1>5. CASE ReadRequest
  <2>1. request \in Release
    BY <1>5 DEF ReadRequest
  <2>2. job' \in Release \cup {None}
    BY <1>5, <2>1 DEF ReadRequest
  <2>4. status' \in Status \cup {None}
    BY <1>5, <2>1, WritesStatus DEF ReadRequest, State
  <2>3. hasty' \in BOOLEAN
    BY <1>5 DEF ReadRequest
  <2> QED  BY <1>1, <1>5, <2>2, <2>3, <2>4 DEF ReadRequest
<1>6. CASE Download \/ RunInstall \/ Announce
  <2>1. job \in Release
    BY <1>6 DEF WorkKnown, Download, RunInstall, Announce, At
  <2>2. status' \in Status
    BY <1>6, <2>1, WritesStatus DEF Download, RunInstall, Announce, State
  <2>3. CASE Download \/ RunInstall
    BY <1>1, <2>1, <2>2, <2>3 DEF Download, RunInstall
  <2>4. CASE Announce
    BY <1>1, <2>2, <2>4 DEF Announce
  <2> QED  BY <1>6, <2>3, <2>4
<1>7. CASE Refuse \/ Killed
  <2>1. rauc' \in Install \cup {None}
    BY <1>7, LetsGoInstall DEF Refuse, Killed
  <2>2. CASE Refuse
    <3>1. job \in Release
      BY <2>2 DEF Refuse, At, WorkKnown
    <3>2. status' \in Status
      BY <2>2, <3>1, WritesStatus DEF Refuse, State
    <3> QED  BY <1>1, <2>1, <2>2, <3>2 DEF Refuse
  <2>3. CASE Killed
    BY <1>1, <2>1, <2>3 DEF Killed
  <2> QED  BY <1>7, <2>2, <2>3
<1>8. CASE Begin
  BY <1>1, <1>8 DEF Begin, At, WorkKnown, Install
<1>9. CASE Write \/ Activate \/ OrphanFails
  BY <1>1, <1>9 DEF Write, Activate, OrphanFails, Install
<1>10. CASE Restart \/ Reject \/ Cut
  BY <1>1, <1>10 DEF Restart, Reject, Cut, MemoryLost, Stopped
<1> QED
  BY <1>2, <1>3, <1>4, <1>5, <1>6, <1>7, <1>8, <1>9, <1>10 DEF Next, vars

-----------------------------------------------------------------------------
(* Who changes what                                                        *)

\* What programs read of the account changes when a proof is recorded, when RAUC
\* writes, and when the power goes before a proof is on the card.
LEMMA AccountChanges ==
  ASSUME [Next]_vars
  PROVE  UNCHANGED <<system, stamp, proven>> \/ RecordProof \/ Begin \/ Write \/ Cut
BY DEF Next, vars, slotVars, account, Boot, ResetTries, HealthReads, MarkGood, KeepProven,
       ProofSynced, StartUpdate, Relay, WatchLost, ReadRequest, Download, RunInstall, Refuse,
       Announce, Killed, StopPost, Activate, InstallActivates, OrphanFails, Restart, Reject,
       FallBack, ShutsDown, GoesDown

\* What is in memory only is a proof just recorded, and goes nowhere else.
LEMMA SyncChanges ==
  ASSUME [Next]_vars
  PROVE  \/ UNCHANGED <<unsynced, booted>>
         \/ RecordProof
         \/ ~ unsynced'
         \/ Boot /\ UNCHANGED <<account, updateVars>>
BY DEF Next, vars, slotVars, account, ResetTries, HealthReads, MarkGood, KeepProven,
       ProofSynced, StartUpdate, Relay, WatchLost, ReadRequest, Download, RunInstall, Refuse,
       Announce, Killed, StopPost, Begin, InstallBegins, Write, InstallWrites, Activate,
       InstallActivates, OrphanFails, Restart, Reject, Cut, FallBack, ShutsDown, Drops,
       GoesDown, Boot

\* A power cut takes nothing but a proof that was in memory only.
LEMMA CutFacts ==
  ASSUME TypeOK, Cut, NEW s \in Slot
  PROVE  /\ system' = system /\ stamp' = stamp /\ ~ unsynced' /\ booted' = None
         /\ proven'[s] => proven[s]
         /\ ~ (unsynced /\ s = booted) => proven'[s] = proven[s]
<1>1. proven \in [Slot -> BOOLEAN]
  BY DEF TypeOK, SlotsTypeOK
<1> QED  BY <1>1 DEF Cut, Drops, GoesDown

\* What recording a proof does to each slot, for the better only.
LEMMA ProofFacts ==
  ASSUME TypeOK, RecordProof, NEW s \in Slot
  PROVE  /\ booted \in Slot /\ health = "markedGood"
         /\ system' = system /\ stamp' = stamp /\ booted' = booted
         /\ s # booted => proven'[s] = proven[s]
         /\ Trusted(s) => Trusted(s)'
         /\ stamp[s] = "unknown" /\ ~ proven[s] => ~ proven'[s]
<1>1. booted \in Slot /\ proven \in [Slot -> BOOLEAN]
  BY DEF TypeOK, SlotsTypeOK, RecordProof
<1>2. system' = system /\ stamp' = stamp /\ booted' = booted /\ health = "markedGood"
  BY DEF RecordProof
<1>3. CASE trial
  <2>1. proven' = [proven EXCEPT ![booted] = (stamp[booted] = "written")]
    BY <1>3 DEF RecordProof
  <2>2. s # booted => proven'[s] = proven[s]
    BY <1>1, <2>1
  <2>3. s = booted => proven'[s] = (stamp[s] = "written")
    BY <1>1, <2>1, Zenon
  <2> QED  BY <1>1, <1>2, <2>2, <2>3 DEF Trusted
<1>4. CASE ~ trial
  <2>1. proven' = proven
    BY <1>4 DEF RecordProof
  <2> QED  BY <1>1, <1>2, <2>1 DEF Trusted
<1> QED  BY <1>3, <1>4

\* RAUC touches the slot that is not running, and that only.
LEMMA InstallFacts ==
  ASSUME TypeOK, Begin \/ Write
  PROVE  /\ booted \in Slot /\ Other(booted) \in Slot /\ Other(booted) # booted
         /\ \A s \in Slot : s = booted \/ s = Other(booted)
         /\ booted' = booted /\ health' = health
         /\ system'[booted] = system[booted] /\ stamp'[booted] = stamp[booted]
         /\ proven'[booted] = proven[booted]
         /\ Begin => /\ stamp'[Other(booted)] = "unknown"
                     /\ ~ proven'[Other(booted)]
         /\ Write => /\ stamp'[Other(booted)] = "written"
                     /\ system'[Other(booted)] = rauc.release
                     /\ proven' = proven
<1>1. /\ booted \in Slot
      /\ system \in [Slot -> System \cup {Torn}]
      /\ stamp \in [Slot -> Stamp]
      /\ proven \in [Slot -> BOOLEAN]
  BY DEF TypeOK, SlotsTypeOK, Begin, InstallBegins, Write, InstallWrites
<1>2. Other(booted) \in Slot /\ Other(booted) # booted
  BY <1>1, SlotFacts
<1>3. \A s \in Slot : s = booted \/ s = Other(booted)
  BY <1>1 DEF Slot, Other
<1>4. CASE Begin
  BY <1>1, <1>2, <1>3, <1>4 DEF Begin, InstallBegins, judging, Write
<1>5. CASE Write
  BY <1>1, <1>2, <1>3, <1>5 DEF Write, InstallWrites, judging, Begin
<1> QED  BY <1>4, <1>5

-----------------------------------------------------------------------------
(* The slots                                                               *)

LEMMA EarnedKeeps ==
  ASSUME IInv, [Next]_vars
  PROVE  TrustEarned'
<1> SUFFICES ASSUME NEW s \in Slot
             PROVE  /\ Trusted(s)' => system'[s] \in Sound
                    /\ stamp'[s] = "unknown" => ~ proven'[s]
  BY DEF TrustEarned
<1>1. /\ Trusted(s) => system[s] \in Sound
      /\ stamp[s] = "unknown" => ~ proven[s]
  BY DEF IInv, TrustEarned
<1>2. CASE UNCHANGED <<system, stamp, proven>> \/ Cut
  BY <1>1, <1>2, CutFacts DEF IInv, Trusted
<1>3. CASE RecordProof
  <2>1. CASE s = booted
    BY <1>1, <1>3, <2>1, ProofFacts DEF IInv, HealthHere
  <2>2. CASE s # booted
    BY <1>1, <1>3, <2>2, ProofFacts DEF IInv, Trusted
  <2> QED  BY <2>1, <2>2
<1>4. CASE Begin
  <2>1. CASE s = booted
    BY <1>1, <1>4, <2>1, InstallFacts DEF IInv, Trusted
  <2>2. CASE s = Other(booted)
    BY <1>4, <2>2, InstallFacts DEF IInv, Trusted
  <2> QED  BY <1>4, <2>1, <2>2, InstallFacts DEF IInv
<1>5. CASE Write
  <2>1. CASE s = booted
    BY <1>1, <1>5, <2>1, InstallFacts DEF IInv, Trusted
  <2>2. CASE s = Other(booted)
    <3>1. stamp[s] = "unknown"
      BY <1>5, <2>2 DEF IInv, WorkKnown, Write
    <3>2. ~ proven'[s] /\ stamp'[s] = "written"
      BY <1>1, <1>5, <2>2, <3>1, InstallFacts DEF IInv
    <3> QED  BY <3>2 DEF Trusted
  <2> QED  BY <1>5, <2>1, <2>2, InstallFacts DEF IInv
<1> QED  BY <1>2, <1>3, <1>4, <1>5, AccountChanges

LEMMA HealthKeeps ==
  ASSUME IInv, [Next]_vars
  PROVE  HealthHere'
<1> USE DEF IInv
<1>1. CASE Begin \/ Write
  <2>1. UNCHANGED <<booted, health, trial, unsynced>>
    BY <1>1 DEF Begin, InstallBegins, Write, InstallWrites, judging
  <2> QED  BY <1>1, <2>1, InstallFacts DEF HealthHere, Trusted
<1>2. CASE MarkGood
  BY <1>2 DEF HealthHere, MarkGood, Steady, Judged, account, Trusted
<1>3. CASE HealthReads
  BY <1>3 DEF HealthHere, HealthReads, OnTrial, Trusted, account
<1>4. CASE RecordProof \/ KeepProven
  BY <1>4 DEF HealthHere, RecordProof, KeepProven, Judged, account
<1>5. CASE Restart \/ Reject \/ Cut
  BY <1>5 DEF HealthHere, Restart, Reject, FallBack, Cut, ShutsDown, Drops, GoesDown
<1>6. CASE Boot
  <2>1. health = "none" /\ ~ trial /\ ~ unsynced
    BY <1>6 DEF HealthHere, Boot, TypeOK, SlotsTypeOK
  <2> QED  BY <1>6, <2>1 DEF HealthHere, Boot, judging, account
<1>7. CASE UNCHANGED <<system, stamp, proven, booted, judging>> /\ (unsynced' => unsynced)
  BY <1>7 DEF HealthHere, judging, Trusted
<1> QED
  BY <1>1, <1>2, <1>3, <1>4, <1>5, <1>6, <1>7
  DEF Next, vars, slotVars, account, ResetTries, ProofSynced, StartUpdate, Relay, WatchLost,
      ReadRequest, Download, RunInstall, Refuse, Announce, Killed, StopPost, Activate,
      InstallActivates, OrphanFails

-----------------------------------------------------------------------------
(* The work under way                                                      *)

\* A script starts with a request; whoever is at work was so before.
LEMMA WorkStarts ==
  ASSUME IInv, [Next]_vars, script' # "idle" \/ rauc' # None
  PROVE  /\ booted' = booted
         /\ ReadRequest \/ script # "idle" \/ rauc # None
<1> USE DEF IInv
<1>1. CASE Boot /\ UNCHANGED updateVars
  BY <1>1 DEF WorkKnown, Boot, updateVars
<1> QED
  BY <1>1, LetsGoInstall
  DEF Next, vars, slotVars, updateVars, ResetTries, HealthReads, MarkGood, RecordProof,
      KeepProven, ProofSynced, StartUpdate, Relay, WatchLost, ReadRequest, Download, RunInstall, Refuse,
      Announce, Killed, StopPost, Begin, InstallBegins, Write, InstallWrites, Activate,
      InstallActivates, OrphanFails, Restart, Reject, Cut, MemoryLost, At, TypeOK

\* Only the start of an install out of its time makes an update a hasty one, or
\* a request that a slot on trial takes.
LEMMA HastyChanges ==
  ASSUME TypeOK, [Next]_vars, ~ hasty'
  PROVE  /\ ~ hasty
         /\ Begin => ~ unsynced /\ ~ unsynced'
         /\ ReadRequest => ~ OnTrial(booted)
         /\ rauc' # None => rauc # None \/ Begin
<1>1. ~ hasty
  BY DEF Next, vars, updateVars, StartUpdate, Relay, WatchLost, ReadRequest, Download,
         RunInstall, Refuse, Announce, Killed, StopPost, Begin, Write, Activate,
         OrphanFails, Restart, Reject, Cut, MemoryLost, TypeOK, SlotsTypeOK
<1>2. Begin => ~ unsynced /\ ~ unsynced'
  BY DEF Begin, InstallBegins, TypeOK, SlotsTypeOK
<1>3. ReadRequest => ~ OnTrial(booted)
  BY DEF ReadRequest, TypeOK
<1>4. rauc' # None => rauc # None \/ Begin
  BY LetsGoInstall DEF Next, vars, updateVars, StartUpdate, Relay, WatchLost, ReadRequest, Download,
         RunInstall, Refuse, Announce, Killed, StopPost, Write, Activate,
         OrphanFails, Restart, Reject, Cut, MemoryLost, TypeOK
<1> QED  BY <1>1, <1>2, <1>3, <1>4

LEMMA TrustKeptKeeps ==
  ASSUME IInv, [Next]_vars
  PROVE  TrustKept'
<1> SUFFICES ASSUME ~ hasty'
             PROVE  /\ \E s \in Slot : Safe(s)'
                    /\ script' # "idle" \/ rauc' # None =>
                         booted' # None /\ Trusted(booted)'
                    /\ rauc' # None => ~ unsynced'
  BY DEF TrustKept
<1>1. ~ hasty /\ TypeOK
  BY HastyChanges DEF IInv
<1>2. PICK s \in Slot : Safe(s)
  BY <1>1 DEF IInv, TrustKept
<1>3. /\ script # "idle" \/ rauc # None => booted # None /\ Trusted(booted)
      /\ rauc # None => ~ unsynced
      /\ trial => ~ Trusted(booted)
      /\ unsynced => booted # None
  BY <1>1 DEF IInv, TrustKept, HealthHere
<1>4. ASSUME NEW t \in Slot, Trusted(t), Begin \/ Write => t = booted,
             Cut => ~ (unsynced /\ t = booted)
      PROVE  Trusted(t)'
  BY <1>1, <1>4, AccountChanges, ProofFacts, InstallFacts, CutFacts DEF Trusted
<1>5. Begin \/ Write => /\ booted \in Slot /\ Trusted(booted)
                        /\ booted' = booted /\ ~ unsynced'
  <2>1. Begin \/ Write => booted \in Slot /\ Trusted(booted) /\ booted' = booted
    BY <1>1, <1>3, InstallFacts DEF Begin, Write, At
  <2>2. Begin => ~ unsynced' BY <1>1, HastyChanges
  <2>3. Write => ~ unsynced' BY <1>3 DEF Write, InstallWrites
  <2> QED  BY <2>1, <2>2, <2>3
<1>6. RecordProof => IF trial THEN ~ Trusted(booted) /\ booted' = booted
                              ELSE UNCHANGED <<unsynced, booted>>
  BY <1>3 DEF RecordProof
<1>7. \E t \in Slot : Safe(t)'
  <2>1. CASE Begin \/ Write
    BY <1>4, <1>5, <2>1 DEF Safe, Cut, Drops, GoesDown
  <2>2. CASE ~ (Begin \/ Write)
    <3>1. Trusted(s) /\ Trusted(s)' BY <1>2, <1>4, <2>2 DEF Safe
    <3>2. ~ (unsynced' /\ s = booted')
      BY <1>2, <1>3, <1>6, <3>1, SyncChanges DEF Safe, Boot, account
    <3> QED  BY <3>1, <3>2 DEF Safe
  <2> QED  BY <2>1, <2>2
<1>8. ASSUME script' # "idle" \/ rauc' # None
      PROVE  booted' # None /\ Trusted(booted)'
  <2>1. booted' = booted
    BY <1>8, WorkStarts
  <2>2. booted # None /\ Trusted(booted)
    <3>1. CASE ReadRequest
      <4>1. booted \in Slot /\ stamp \in [Slot -> Stamp]
        BY <1>1, <3>1 DEF ReadRequest, TypeOK, SlotsTypeOK
      <4>2. ~ OnTrial(booted)
        BY <1>1, <3>1, HastyChanges
      <4> QED  BY <4>1, <4>2, SlotFacts DEF OnTrial, Trusted, Stamp
    <3> QED  BY <1>3, <1>8, <3>1, WorkStarts
  <2>3. booted \in Slot
    BY <1>1, <2>2 DEF TypeOK, SlotsTypeOK
  <2>4. ~ Cut
    BY <1>8 DEF Cut, MemoryLost
  <2> QED  BY <1>4, <2>1, <2>2, <2>3, <2>4
<1>9. ASSUME rauc' # None
      PROVE  ~ unsynced'
  <2>1. CASE Begin BY <1>5, <2>1
  <2>2. CASE ~ Begin
    <3>1. rauc # None /\ ~ unsynced /\ Trusted(booted)
      BY <1>1, <1>3, <1>9, <2>2, HastyChanges
    <3> QED  BY <1>6, <3>1, SyncChanges DEF account
  <2> QED  BY <2>1, <2>2
<1> QED  BY <1>7, <1>8, <1>9

LEMMA WorkKeeps ==
  ASSUME IInv, [Next]_vars
  PROVE  WorkKnown'
<1> USE DEF IInv
<1>1. CASE (Boot /\ UNCHANGED updateVars) \/ Restart \/ Reject \/ Cut
  <2>1. script' = "idle" /\ rauc' = None
    BY <1>1 DEF WorkKnown, Boot, updateVars, Restart, Reject, Cut, MemoryLost
  <2> QED  BY <2>1 DEF WorkKnown
<1>2. CASE Begin
  BY <1>2, InstallFacts DEF WorkKnown, Begin, At, Install
<1>3. CASE Write
  BY <1>3, InstallFacts DEF WorkKnown, Write, TypeOK, Install
<1>4. CASE RecordProof /\ UNCHANGED updateVars
  BY <1>4 DEF WorkKnown, RecordProof, updateVars
<1>5. ASSUME UNCHANGED <<system, stamp, booted, script, job, rauc>>
      PROVE  WorkKnown'
  BY <1>5 DEF WorkKnown
<1>6. CASE ReadRequest
  <2>1. request \in Release /\ booted # None
    BY <1>6 DEF ReadRequest, TypeOK
  <2>2. UNCHANGED <<system, stamp, booted, rauc>>
    BY <1>6 DEF ReadRequest, slotVars, account
  <2>3. script = "idle"
    BY <1>6 DEF ReadRequest
  <2> QED  BY <1>6, <2>1, <2>2, <2>3 DEF WorkKnown, ReadRequest
<1>7. CASE Download \/ RunInstall
  BY <1>7 DEF WorkKnown, Download, RunInstall, At, slotVars, account
<1>8. CASE Refuse \/ Killed
  <2>1. UNCHANGED <<system, stamp, booted>> /\ booted # None /\ script' = "ending"
    BY <1>8 DEF Refuse, Killed, At, slotVars, account
  <2>2. rauc' # None => rauc # None /\ rauc'.orphan
                        /\ rauc'.release = rauc.release /\ rauc'.written = rauc.written
    BY <1>8, LetsGoInstall DEF Refuse, Killed, TypeOK, Own, WorkKnown
  <2> QED  BY <2>1, <2>2 DEF WorkKnown
<1>9. CASE Announce \/ StopPost
  BY <1>9 DEF WorkKnown, Announce, StopPost, At, slotVars, account
<1>10. CASE Activate \/ OrphanFails
  BY <1>10 DEF WorkKnown, Activate, InstallActivates, OrphanFails, Own, slotVars, account
<1> QED
  BY <1>1, <1>2, <1>3, <1>4, <1>5, <1>6, <1>7, <1>8, <1>9, <1>10
  DEF Next, vars, slotVars, updateVars, account, ResetTries, HealthReads, MarkGood,
      KeepProven, ProofSynced, StartUpdate, Relay, WatchLost

-----------------------------------------------------------------------------
(* The restart                                                             *)

\* Nothing but an install, a start or the end of the system makes the other
\* slot less ready than it is.
LEMMA ReadyStays ==
  ASSUME IInv, [Next]_vars, NEW release, Ready(release), rauc = None,
         script # "installing", booted' = booted
  PROVE  Ready(release)'
<1>1. booted \in Slot /\ Other(booted) \in Slot /\ Other(booted) # booted
  BY SlotFacts DEF Ready, IInv, TypeOK, SlotsTypeOK
<1>2. UNCHANGED <<order, system>> /\ left'[Other(booted)] = left[Other(booted)]
  <2>1. CASE MarkGood
    BY <1>1, <2>1 DEF MarkGood, account, IInv, TypeOK, SlotsTypeOK
  <2>2. CASE ~ MarkGood
    BY <2>2 DEF Next, vars, slotVars, environment, account, Ready, Boot, ResetTries,
                HealthReads, RecordProof, KeepProven, ProofSynced, StartUpdate, Relay,
                WatchLost, ReadRequest, Download, RunInstall, Refuse, Announce, Killed,
                StopPost, Begin, At, Write, Activate, OrphanFails, Restart, Reject,
                FallBack, Cut, ShutsDown, Drops, GoesDown
  <2> QED  BY <2>1, <2>2
<1> QED  BY <1>2 DEF Ready, Order

\* What RAUC activates is ready.
LEMMA ActivateReadies ==
  ASSUME IInv, Activate, NEW release, rauc.release = release
  PROVE  Ready(release)' /\ rauc' = None
<1> USE DEF IInv
<1>1. booted \in Slot /\ left \in [Slot -> 0 .. Tries]
  BY DEF Activate, InstallActivates, TypeOK, SlotsTypeOK
<1>2. Other(booted) \in Slot
  BY <1>1, SlotFacts
<1>3. booted' = booted /\ booted # None /\ rauc' = None /\ system' = system
  BY DEF Activate, InstallActivates, account
<1>4. system[Other(booted)] = release
  BY DEF Activate, WorkKnown
<1>5. Order'[1] = Other(booted)
  BY DEF Activate, InstallActivates, Order
<1>6. left'[Other(booted)] > 0
  <2>1. left'[Other(booted)] = Tries
    BY <1>1, <1>2 DEF Activate, InstallActivates
  <2> QED  BY <2>1, SlotsAssumption
<1> QED  BY <1>3, <1>4, <1>5, <1>6, Zenon DEF Ready

\* Nobody hears of a restart but from the script that is about to cause it.
LEMMA DueBegins ==
  ASSUME IInv, [Next]_vars, NEW release \in Release, Due(release)'
  PROVE  \/ Due(release)
         \/ Announce /\ job = release
<1> USE DEF IInv, Due
<1>1. release # None
  BY UpdatesAssumption
<1>2. CASE UNCHANGED <<told, status, watch>>
  BY <1>2
<1>3. CASE \E other \in Release : StartUpdate(other)
  BY <1>1, <1>3 DEF StartUpdate, TypeOK, Status
<1>4. CASE Relay
  BY <1>1, <1>4 DEF Relay, Watched, TypeOK, Status
<1>5. CASE WatchLost
  BY <1>1, <1>5 DEF WatchLost
<1>6. CASE ReadRequest
  BY <1>6 DEF ReadRequest, Writes
<1>7. CASE Download \/ RunInstall \/ Refuse
  BY <1>7 DEF Download, RunInstall, Refuse, Writes
<1>8. CASE Announce
  BY <1>8 DEF Announce, Writes
<1>9. CASE Restart \/ Reject \/ Cut
  BY <1>1, <1>9 DEF Restart, Reject, Cut, MemoryLost
<1> QED
  BY <1>2, <1>3, <1>4, <1>5, <1>6, <1>7, <1>8, <1>9
  DEF Next, vars, updateVars, Killed, StopPost, Begin, Write, Activate, OrphanFails

LEMMA RestartKeeps ==
  ASSUME IInv, [Next]_vars
  PROVE  RestartTrue'
<1>1. script' = "installed" => rauc' = None /\ Ready(job)'
  <2> SUFFICES ASSUME script' = "installed" PROVE rauc' = None /\ Ready(job)'
    OBVIOUS
  <2>1. CASE Activate /\ Own
    <3>1. rauc.release = job /\ job' = job
      BY <2>1 DEF IInv, WorkKnown, Activate, Own
    <3> QED  BY <2>1, <3>1, ActivateReadies DEF Ready
  <2>2. CASE ~ (Activate /\ Own)
    <3>1. script = "installed" /\ job' = job
      BY <2>2 DEF Next, vars, updateVars, StartUpdate, Relay, WatchLost, ReadRequest,
                  Download, RunInstall, Refuse, Announce, Killed, StopPost, Begin, Write,
                  Activate, OrphanFails, Restart, Reject, Cut, MemoryLost
    <3>2. rauc = None /\ Ready(job)
      BY <3>1 DEF IInv, RestartTrue
    <3>3. booted' = booted
      BY WorkStarts
    <3>4. Ready(job)'
      BY <3>1, <3>2, <3>3, ReadyStays DEF Ready
    <3>5. rauc' = None
      BY <3>1, <3>2 DEF Next, vars, updateVars, StartUpdate, Relay, WatchLost, ReadRequest,
                  Download, RunInstall, Refuse, Announce, Killed, StopPost, Begin, Write,
                  Activate, OrphanFails, Restart, Reject, Cut, MemoryLost, At
    <3> QED  BY <3>4, <3>5
  <2> QED  BY <2>1, <2>2
<1>2. ASSUME NEW release \in Release, Due(release)'
      PROVE  /\ rauc' = None
             /\ Ready(release)'
             /\ script' \in {"restarting", "ending", "idle"}
             /\ script' = "idle" => request' = None
  <2>1. CASE Announce /\ job = release
    <3>1. script = "installed" /\ script' = "restarting" /\ rauc' = rauc /\ booted' = booted
      BY <2>1 DEF Announce, At, slotVars
    <3>2. rauc = None /\ Ready(release)
      BY <2>1, <3>1 DEF IInv, RestartTrue
    <3> QED  BY <3>1, <3>2, ReadyStays
  <2>2. CASE Due(release)
    <3>1. /\ rauc = None
          /\ Ready(release)
          /\ script \in {"restarting", "ending", "idle"}
          /\ script = "idle" => request = None
      BY <2>2 DEF IInv, RestartTrue
    <3>2. ~ (\E other \in Release : StartUpdate(other))
      BY <1>2, UpdatesAssumption DEF StartUpdate, Due, IInv, TypeOK, Status
    <3>3. ~ (Restart \/ Reject \/ Cut)
      BY <1>2, UpdatesAssumption DEF Due, Restart, Reject, Cut, MemoryLost
    <3>4. booted' = booted
      BY <3>1, <3>3 DEF Next, vars, slotVars, Ready, Boot, ResetTries, HealthReads,
                MarkGood, RecordProof, KeepProven, ProofSynced, StartUpdate, Relay,
                WatchLost, ReadRequest, Download, RunInstall, Refuse, Announce, Killed, StopPost,
                Begin, At, Write, Activate, OrphanFails
    <3>5. Ready(release)'
      BY <3>1, <3>4, ReadyStays
    <3>6. /\ rauc' = None
          /\ script' \in {"restarting", "ending", "idle"}
          /\ script' = "idle" => request' = None
      BY <3>1, <3>2, <3>3, LetsGoInstall
      DEF Next, vars, updateVars, Relay, WatchLost, ReadRequest, Download, RunInstall,
          Refuse, Announce, Killed, StopPost, Begin, Write, Activate, OrphanFails, At,
          LetsGo, Own, IInv, TypeOK
    <3> QED  BY <3>5, <3>6
  <2> QED  BY <1>2, <2>1, <2>2, DueBegins
<1> QED  BY <1>1, <1>2 DEF RestartTrue

-----------------------------------------------------------------------------
(* The theorems                                                            *)

LEMMA NextKeeps == IInv /\ [Next]_vars => IInv'
BY TypeKeeps, EarnedKeeps, HealthKeeps, TrustKeptKeeps, WorkKeeps, RestartKeeps DEF IInv

LEMMA Inductive == Spec => []IInv
BY InitEstablishes, NextKeeps, PTL DEF Spec

\* Every variable of the update, the slots and the trial has its type in every
\* state, for any releases and any number of tries.
THEOREM UpdatesTypeCorrect == Spec => []TypeOK
<1>1. IInv => TypeOK
  BY DEF IInv
<1> QED  BY <1>1, Inductive, PTL

\* Whatever is installed and whenever the power goes, one slot holds a system
\* that has proved itself and runs, unless an update was taken up during a trial
\* or begun before its outcome was on the card.
THEOREM AlwaysAWayBack == Spec => []WayBack
<1>1. IInv => WayBack
  BY DEF IInv, TrustKept, TrustEarned, Safe, WayBack
<1> QED  BY <1>1, Inductive, PTL

\* When the server has heard "rebooting", the other slot holds that release,
\* whole, and is the one U-Boot tries first.
THEOREM RestartsTold == Spec => []RebootingIsTrue
<1>1. IInv => RebootingIsTrue
  <2> SUFFICES ASSUME IInv, told # None
               PROVE  LET s == Other(booted)
                      IN  system[s] = told /\ Order[1] = s /\ left[s] > 0
    BY DEF RebootingIsTrue
  <2>1. told \in Release /\ Due(told)
    BY DEF IInv, TypeOK, Due
  <2>2. Ready(told)
    BY <2>1 DEF IInv, RestartTrue
  <2> QED  BY <2>2, Zenon DEF Ready
<1> QED  BY <1>1, Inductive, PTL

-----------------------------------------------------------------------------
(***************************************************************************)
(* First boot                                                              *)
(***************************************************************************)

\* What a program reads of the secret is on the card as well, and of a secret
\* that has been destroyed nothing is.
SecretFollows ==
  /\ file["certificate"] = "minted" => card["certificate"] = "minted"
  /\ ~ kept => card["certificate"] # "minted"

\* What has been turned out by each step of the run, as programs read it.
Turned ==
  IF step = "identity" THEN {"credential"}
  ELSE IF step = "config" THEN {"credential", "identity"}
  ELSE IF step \in {"hostname", "overwrite", "unlink", "marker"} THEN Product ELSE {}

\* The certificate is there for as long as something is still to be turned out
\* of it; without it the device is whole, unless a cut took what was in memory.
WholeOrLossy ==
  /\ \A f \in Turned : file[f] = "minted"
  /\ step \in Product \cup {"hostname", "overwrite"} => file["certificate"] = "minted"
  /\ file["certificate"] # "minted" /\ ~ lossy => \A f \in Product : file[f] = "minted"

BootInv == BootTypeOK /\ SecretFollows /\ WholeOrLossy /\ ProvisionedIsWhole

LEMMA BootInitEstablishes == BootInit => BootInv
<1> SUFFICES ASSUME BootInit PROVE BootInv
  OBVIOUS
<1>1. /\ card \in [File -> Content] /\ file = card
      /\ card["certificate"] = "minted" /\ step = "off"
  BY DEF BootInit, File, Product, Content
<1> QED
  BY <1>1 DEF BootInit, BootInv, BootTypeOK, SecretFollows, WholeOrLossy, Turned, Outcome,
              ProvisionedIsWhole

\* A file that is written is written with what it now holds, and no other is.
LEMMA StoreContract ==
  ASSUME BootTypeOK, NEW f \in File, NEW content \in Content, Store(f, content)
  PROVE  /\ file' \in [File -> Content] /\ file'[f] = content
         /\ \A g \in File \ {f} : file'[g] = file[g]
         /\ UNCHANGED <<card, kept, lossy>>
BY DEF BootTypeOK, Store

\* The steps of the run that write no file.
LEMMA QuietKeeps ==
  ASSUME BootInv, PowerOn \/ Read \/ WriteHostname
  PROVE  BootInv'
BY DEF BootInv, PowerOn, Read, WriteHostname, GoTo, Untouched, BootTypeOK, SecretFollows,
       WholeOrLossy, ProvisionedIsWhole, Turned, Outcome, Product

LEMMA WriteProductKeeps ==
  ASSUME BootInv, NEW f \in Product, NEW next,
         <<f, next>> \in {<<"credential", "identity">>, <<"identity", "config">>,
                          <<"config", "hostname">>},
         WriteProduct(f, next)
  PROVE  BootInv'
<1>1. /\ f \in File /\ f # "certificate" /\ step = f
      /\ step' \in {next, "failed"}
      /\ file["certificate"] = "minted"
  BY DEF WriteProduct, GoTo, BootInv, WholeOrLossy, File, Product
<1>2. CASE Untouched /\ step' = "failed"
  BY <1>1, <1>2 DEF BootInv, Untouched, BootTypeOK, SecretFollows, WholeOrLossy,
                    ProvisionedIsWhole, Turned, Outcome
<1>3. CASE Store(f, "minted") /\ step' = next
  BY <1>1, <1>3, StoreContract
  DEF BootInv, BootTypeOK, SecretFollows, WholeOrLossy, ProvisionedIsWhole, Turned,
      Outcome, Product, File, Content
<1>4. CASE Store(f, "torn") /\ step' = "failed"
  BY <1>1, <1>4, StoreContract
  DEF BootInv, BootTypeOK, SecretFollows, WholeOrLossy, ProvisionedIsWhole, Turned,
      Outcome, Product, File, Content
<1> QED  BY <1>1, <1>2, <1>3, <1>4 DEF WriteProduct, GoTo

\* The certificate goes, and the run is over; nothing else is touched.
LEMMA DestroyKeeps ==
  ASSUME BootInv, Overwrite \/ Unlink \/ DestroyFails \/ Touch
  PROVE  BootInv'
<1>1. /\ file' \in [File -> Content] /\ card' \in [File -> Content]
      /\ step \in {"overwrite", "unlink", "marker"}
      /\ step' \in {"unlink", "marker", "ok", "failed"}
      /\ \A f \in Product : file'[f] = file[f]
      /\ file'["certificate"] = "minted" => file["certificate"] = "minted"
      /\ UNCHANGED lossy
      /\ kept' \in BOOLEAN
  BY StoreContract
  DEF BootInv, BootTypeOK, Overwrite, Unlink, DestroyFails, Touch, GoTo,
      Untouched, Store, File, Product, Content
<1>2. SecretFollows'
  BY StoreContract
  DEF BootInv, BootTypeOK, SecretFollows, Overwrite, Unlink, DestroyFails, Touch, Untouched,
      Store, File, Product, Content
<1>3. \A f \in Product : file'[f] = "minted"
  BY <1>1 DEF BootInv, WholeOrLossy, Turned
<1> QED
  BY <1>1, <1>2, <1>3
  DEF BootInv, BootTypeOK, WholeOrLossy, ProvisionedIsWhole, Turned, Outcome, Product

LEMMA WriteBackKeeps == ASSUME BootInv, WriteBack PROVE BootInv'
BY DEF BootInv, WriteBack, BootTypeOK, SecretFollows, WholeOrLossy, ProvisionedIsWhole, Turned

\* A cut leaves of the certificate what the card or a program had of it; and of
\* the rest what both had, unless something is lost.
LEMMA PowerCutKeeps == ASSUME BootInv, PowerCut PROVE BootInv'
<1>1. /\ card' \in [File -> Content] /\ file' = card'
      /\ \A f \in File : card'[f] \in After(f)
      /\ step' = "off" /\ UNCHANGED kept
      /\ lossy' = (lossy \/ (file["certificate"] # "minted"
                              /\ \E f \in Product : card[f] # file[f]))
  BY DEF PowerCut
<1>2. card'["certificate"] \in {card["certificate"], file["certificate"]}
  BY <1>1 DEF After, File
<1>3. ASSUME card'["certificate"] # "minted", ~ lossy'
      PROVE  \A f \in Product : card'[f] = "minted"
  <2>1. file["certificate"] # "minted" /\ ~ lossy /\ \A f \in Product : card[f] = file[f]
    BY <1>1, <1>2, <1>3 DEF BootInv, SecretFollows
  <2>2. \A f \in Product : card'[f] = card[f]
    BY <1>1, <2>1 DEF After, Survives, File, Product
  <2> QED  BY <2>1, <2>2 DEF BootInv, WholeOrLossy
<1>4. BootTypeOK'
  BY <1>1 DEF BootInv, BootTypeOK
<1>5. SecretFollows'
  BY <1>1, <1>2 DEF BootInv, SecretFollows
<1> QED
  BY <1>1, <1>3, <1>4, <1>5
  DEF BootInv, WholeOrLossy, ProvisionedIsWhole, Turned, Product

LEMMA MintKeeps == ASSUME BootInv, Mint PROVE BootInv'
<1>1. /\ card' \in [File -> Content] /\ file' = card' /\ card'["certificate"] = "minted"
      /\ step = "off" /\ step' = "off" /\ kept' = TRUE /\ lossy' = FALSE
  BY DEF BootInv, BootTypeOK, Mint, File, Product, Content
<1> QED
  BY <1>1
  DEF BootInv, BootTypeOK, SecretFollows, WholeOrLossy, ProvisionedIsWhole, Turned, Product, Outcome

LEMMA BootNextKeeps == BootInv /\ [BootNext]_bootVars => BootInv'
<1> SUFFICES ASSUME BootInv, [BootNext]_bootVars PROVE BootInv'
  OBVIOUS
<1>1. CASE \E f \in Product, next \in {"identity", "config", "hostname"} :
             /\ <<f, next>> \in {<<"credential", "identity">>, <<"identity", "config">>,
                                 <<"config", "hostname">>}
             /\ WriteProduct(f, next)
  BY <1>1, WriteProductKeeps
<1>2. CASE UNCHANGED bootVars
  BY <1>2
  DEF bootVars, BootInv, BootTypeOK, SecretFollows, WholeOrLossy, ProvisionedIsWhole, Turned
<1> QED
  BY <1>1, <1>2, QuietKeeps, DestroyKeeps, WriteBackKeeps, PowerCutKeeps, MintKeeps
  DEF BootNext, Script, Product

LEMMA BootInductive == BootSpec => []BootInv
BY BootInitEstablishes, BootNextKeeps, PTL DEF BootSpec

\* Once the certificate has been overwritten the card does not hold the secret,
\* whichever of the files in memory a power cut takes.
THEOREM SecretStaysGone == BootSpec => []SecretGone
<1>1. BootInv => SecretGone
  BY DEF BootInv, SecretFollows, SecretGone
<1> QED  BY <1>1, BootInductive, PTL

\* A first boot that ends well leaves a credential, an identity and a
\* configuration of the newest mint, whatever was cut short before.
THEOREM EndsWellEndsWhole == BootSpec => []ProvisionedIsWhole
<1>1. BootInv => ProvisionedIsWhole
  BY DEF BootInv
<1> QED  BY <1>1, BootInductive, PTL
=============================================================================
