-------------------------- MODULE WifiChange_proofs --------------------------
(***************************************************************************)
(* For any networks, any number of attempts, and power cuts anywhere:      *)
(* which network is saved and why, that however a change ends the device   *)
(* still has the network it came from, and that what the server hears of a *)
(* request is what became of it.                                           *)
(*                                                                         *)
(* A saved network is accounted for by what has proved it or by who is at  *)
(* work on it - until the moment that one forgets it (AccountedFor).  And  *)
(* the newest request is not begun, or under way, or over, and the status  *)
(* file, the helper and the bridge agree on which (RequestTold).           *)
(***************************************************************************)
EXTENDS WifiChange, TLAPS

\* Set-up's attempt has a network, until it is given up.
AttemptOfNet ==
  /\ stage # "none" => trying \in Net
  /\ stage = "none" => trying = Air

\* Whoever is to join has a join left.
AttemptsLeft ==
  /\ stage \in {"stopping", "joining", "refused"} => tries > 0
  /\ helper \in {"taken", "joining", "refused"} => left > 0

\* The helper works on a change, and the network it started from is kept.
JobKnown ==
  /\ Changing => job \in Change
  /\ helper # "off" /\ previous \in Net => previous \in known

AccountedFor ==
  \A n \in Net : profile[n] # "none" =>
    \/ n \in known
    \/ n = trying /\ stage # "raising"
    \/ Changing /\ helper \notin {"restoring", "returning"} /\ n = job.net

\* From the request to its outcome.
RequestTold ==
  /\ pending # NoRequest => current = {} /\ result = "none"
  /\ "status" \in current => "job" \in current
  /\ "job" \in current /\ helper # "off" => result = "none"
  /\ result # "none" => status = result /\ "status" \in current
  /\ "status" \in current /\ status \in Outcome => result = status
  /\ heard \in Outcome => result = heard

WInv ==
  /\ TypeOK
  /\ AttemptsLeft
  /\ AttemptOfNet
  /\ JobKnown
  /\ AccountedFor
  /\ RequestTold

\* A device that is off, with nothing saved and nothing asked.
LEMMA InitEstablishes == Init => WInv
<1> SUFFICES ASSUME Init PROVE WInv
  OBVIOUS
<1> USE DEF Init, RadioInit, SetupInit
<1>1. RadioTypeOK BY DEF RadioTypeOK, Key
<1>2. SetupTypeOK BY RadioAssumption DEF SetupTypeOK, Key, Stage
<1>3. 0 \in 0 .. Attempts BY RadioAssumption
<1>4. TypeOK BY <1>1, <1>2, <1>3, Zenon DEF TypeOK, Step
<1>5. AttemptOfNet /\ JobKnown /\ AccountedFor
  BY RadioAssumption DEF AttemptOfNet, JobKnown, AccountedFor, Changing
<1>6. RequestTold /\ AttemptsLeft BY DEF RequestTold, Outcome, AttemptsLeft
<1> QED BY <1>4, <1>5, <1>6 DEF WInv

\* What the radio and set-up may do: types, and which profile is touched.
LEMMA RadioSteps ==
  ASSUME RadioTypeOK, NEW n \in Net, NEW key \in Key
  PROVE  /\ Associates(n, key) \/ Refused(n, key) \/ Forget(n) =>
              /\ RadioTypeOK'
              /\ \A o \in Net : o # n => profile'[o] = profile[o]
         /\ Forget(n) => profile'[n] = "none"
<1>1. /\ profile \in [Net -> Key] /\ active \in Net \cup {Ap, Air} /\ near \subseteq Net
  BY DEF RadioTypeOK
<1>2. ASSUME NEW k \in Key, profile' = [profile EXCEPT ![n] = k]
      PROVE  profile' \in [Net -> Key] /\ profile'[n] = k /\ \A o \in Net : o # n => profile'[o] = profile[o]
  BY <1>1, <1>2
<1>3. "right" \in Key /\ "none" \in Key BY DEF Key
<1>4. ASSUME Associates(n, key)
      PROVE  RadioTypeOK' /\ \A o \in Net : o # n => profile'[o] = profile[o]
  BY <1>1, <1>2, <1>3, <1>4 DEF Associates, RadioTypeOK
<1>5. ASSUME Forget(n)
      PROVE  /\ RadioTypeOK' /\ profile'[n] = "none"
             /\ \A o \in Net : o # n => profile'[o] = profile[o]
  BY <1>1, <1>2, <1>3, <1>5 DEF Forget, RadioTypeOK
<1>6. ASSUME Refused(n, key)
      PROVE  RadioTypeOK' /\ \A o \in Net : o # n => profile'[o] = profile[o]
  <2>1. CASE profile' = profile BY <1>1, <1>6, <2>1 DEF Refused, RadioTypeOK
  <2>2. CASE profile' = [profile EXCEPT ![n] = key]
    BY <1>1, <1>2, <1>6, <2>2 DEF Refused, RadioTypeOK
  <2> QED BY <1>6, <2>1, <2>2 DEF Refused
<1> QED BY <1>4, <1>5, <1>6

-----------------------------------------------------------------------------
(* The request and its outcome.                                            *)

\* The helper's status is about its job; the newest request has one outcome.
LEMMA RequestKeeps ==
  ASSUME RequestTold, [Next]_vars
  PROVE  RequestTold'
<1> USE DEF RequestTold
<1>1. ASSUME NEW outcome \in Outcome, helper # "off", Concludes(outcome), heard' = heard
      PROVE  RequestTold'
  <2>0. outcome # "none" /\ "none" \notin Outcome BY <1>1 DEF Outcome
  <2>1. CASE "job" \in current
    BY <1>1, <2>0, <2>1 DEF Concludes, Writes, Ends
  <2>2. CASE "job" \notin current
    BY <1>1, <2>0, <2>2 DEF Concludes, Writes, Ends
  <2> QED BY <2>1, <2>2
<1>2. ASSUME UNCHANGED <<status, current, heard, result>>,
             pending' = pending \/ pending' = NoRequest,
             helper' = "off" \/ helper # "off" \/ "job" \notin current
      PROVE  RequestTold'
  BY <1>2
<1>3. CASE SetsUp \/ Outside \/ PowerCut
  BY <1>2, <1>3 DEF SetsUp, Outside, PowerCut, helperVars, bridgeVars, history
<1>4. CASE Works
  <2>0. heard' = heard BY <1>4 DEF Works, bridgeVars
  <2>1. CASE HelperStarts
    BY <2>0, <2>1 DEF HelperStarts
  <2>2. CASE ScanEnds \/ HelperKilled \/ HelperCheckRaises
    BY <1>2, <2>0, <2>2 DEF ScanEnds, HelperKilled, HelperCheckRaises, Ends, history
  <2>3. CASE JoinBegins
    <3>1. CASE previous = job.net /\ job.key = "none"
      BY <1>1, <2>0, <2>3, <3>1 DEF JoinBegins, Outcome
    <3>2. CASE ~ (previous = job.net /\ job.key = "none")
      <4>1. /\ helper = "taken" /\ helper' = "joining" /\ pending' = pending /\ result' = result
            /\ status' = "joining"
            /\ current' = IF "job" \in current THEN current \cup {"status"} ELSE current \ {"status"}
        BY <2>3, <3>2 DEF JoinBegins, Writes, At
      <4>2. "joining" \notin Outcome BY DEF Outcome
      <4>3. CASE "job" \in current BY <2>0, <4>1, <4>2, <4>3
      <4>4. CASE "job" \notin current BY <2>0, <4>1, <4>2, <4>4
      <4> QED BY <4>3, <4>4
    <3> QED BY <3>1, <3>2
  <2>4. CASE HelperJoins \/ HelperRetries \/ HelperCheckFails \/ HelperForgets \/ HelperRestores
    BY <1>2, <2>0, <2>4 DEF HelperJoins, HelperRetries, HelperCheckFails, HelperForgets,
                            HelperRestores, history
  <2>5. CASE HelperCheckPasses
    BY <1>1, <2>0, <2>5 DEF HelperCheckPasses, Outcome
  <2>6. CASE HelperGivesUp \/ RefusesName
    BY <1>1, <2>0, <2>6 DEF HelperGivesUp, RefusesName, Outcome
  <2> QED BY <1>4, <2>1, <2>2, <2>3, <2>4, <2>5, <2>6 DEF Works
<1>5. CASE Bridge
  <2>1. CASE Asked BY <2>1 DEF Asked, BridgeRest, helperVars, Outcome
  <2>2. CASE Relays BY <2>2 DEF Relays, ItsStatus, BridgeRest, helperVars
  <2>3. CASE WatchEnds BY <1>2, <2>3 DEF WatchEnds, BridgeRest, helperVars
  <2> QED BY <1>5, <2>1, <2>2, <2>3 DEF Bridge
<1>6. CASE UNCHANGED vars
  BY <1>2, <1>6 DEF vars, helperVars, bridgeVars, history
<1> QED BY <1>3, <1>4, <1>5, <1>6 DEF Next

-----------------------------------------------------------------------------
(* The networks that are saved.                                            *)

\* Nobody touches a profile, and whoever accounts for one goes on doing so.
LEMMA KnownKeeps ==
  ASSUME AccountedFor, profile' = profile, known \subseteq known',
         trying \in Net /\ stage # "raising" =>
           trying \in known' \/ (trying' = trying /\ stage' # "raising"),
         Changing /\ helper \notin {"restoring", "returning"} =>
           \/ job.net \in known'
           \/ Changing' /\ helper' \notin {"restoring", "returning"} /\ job' = job
  PROVE  AccountedFor'
BY DEF AccountedFor

\* Set-up: the network of its attempt, until it is forgotten or has passed.
LEMMA SetsUpAccounts ==
  ASSUME TypeOK, AttemptOfNet, JobKnown, AccountedFor, SetsUp
  PROVE  AttemptOfNet' /\ JobKnown' /\ AccountedFor'
<1>0. /\ helper' = helper /\ job' = job /\ previous' = previous /\ known \subseteq known'
      /\ (Changing' <=> Changing)
  BY DEF SetsUp, helperVars, Changing
<1>1. JobKnown' BY <1>0 DEF JobKnown
<1>2. RadioTypeOK /\ SetupTypeOK /\ with \in Key BY DEF TypeOK, SetupTypeOK
<1>3. CASE SetupStarts \/ WaitEnds
  <2>1. profile' = profile /\ trying' = trying /\ stage' = stage
    BY <1>3 DEF SetupStarts, WaitEnds, RaisePortal, StartAp, attempt, radioVars
  <2> QED BY <1>0, <1>1, <2>1, KnownKeeps DEF AttemptOfNet
<1>4. ASSUME NEW n \in Net, NEW key \in Key, Connect(n, key)
      PROVE  AttemptOfNet' /\ AccountedFor'
  <2>1. profile' = profile /\ stage = "none" /\ trying = Air /\ trying' = n /\ stage' = "stopping"
    BY <1>4 DEF Connect, radioVars, AttemptOfNet
  <2>2. trying \notin Net BY <2>1, RadioAssumption
  <2> QED BY <1>0, <2>1, <2>2, KnownKeeps DEF AttemptOfNet
<1>5. CASE TakesApDown \/ CheckFails
  <2>1. profile' = profile /\ trying' = trying /\ stage' \in {"joining", "forgetting"} /\ stage # "none"
    BY <1>5 DEF TakesApDown, CheckFails, StopAp, Goes, radioVars
  <2> QED BY <1>0, <1>1, <2>1, KnownKeeps DEF AttemptOfNet
<1>6. CASE Joins \/ ForgetsAndRetries
  <2>1. /\ trying' = trying /\ stage' \in {"checking", "refused", "forgetting", "joining"}
        /\ stage \in {"joining", "refused"}
        /\ Associates(trying, with) \/ Refused(trying, with) \/ Forget(trying)
    BY <1>6 DEF Joins, ForgetsAndRetries, Goes
  <2>2. trying \in Net BY <2>1 DEF AttemptOfNet
  <2>3. \A o \in Net : o # trying => profile'[o] = profile[o]
    BY <1>2, <2>1, <2>2, RadioSteps
  <2>4. AccountedFor' BY <1>0, <2>1, <2>3 DEF AccountedFor
  <2> QED BY <1>1, <2>1, <2>2, <2>4 DEF AttemptOfNet
<1>7. CASE CheckPasses \/ CheckRaises
  <2>1. /\ stage = "checking" /\ trying' = Air /\ stage' = "none" /\ profile' = profile
    BY <1>7 DEF CheckPasses, CheckRaises, Idle, radioVars
  <2>2. known' = known \cup {trying} BY <2>1 DEF SetsUp
  <2> QED BY <1>0, <1>1, <2>1, <2>2, KnownKeeps DEF AttemptOfNet
<1>8. CASE ForgetsIt
  <2>1. Forget(trying) /\ trying' = trying /\ stage' = "raising" /\ stage = "forgetting"
    BY <1>8 DEF ForgetsIt, Goes
  <2>2. trying \in Net BY <2>1 DEF AttemptOfNet
  <2>3. profile'[trying] = "none" /\ \A o \in Net : o # trying => profile'[o] = profile[o]
    BY <1>2, <2>1, <2>2, RadioSteps
  <2>4. AccountedFor' BY <1>0, <2>1, <2>3 DEF AccountedFor
  <2> QED BY <1>1, <2>1, <2>2, <2>4 DEF AttemptOfNet
<1>9. CASE PutsApBack
  <2>1. profile' = profile /\ stage = "raising" /\ trying' = Air /\ stage' = "none"
    BY <1>9 DEF PutsApBack, StartAp, Idle
  <2> QED BY <1>0, <1>1, <2>1, KnownKeeps DEF AttemptOfNet
<1> QED BY <1>1, <1>3, <1>4, <1>5, <1>6, <1>7, <1>8, <1>9 DEF SetsUp, SetupNext, Attempt

\* The helper: the network of its job, until it is forgotten or has passed; the
\* one it came from is known from the start.
LEMMA WorksAccount ==
  ASSUME TypeOK, AttemptOfNet, JobKnown, AccountedFor, Works
  PROVE  AttemptOfNet' /\ JobKnown' /\ AccountedFor'
<1>0. /\ trying' = trying /\ stage' = stage /\ AttemptOfNet'
      /\ RadioTypeOK /\ SetupTypeOK
  BY DEF Works, setupVars, AttemptOfNet, TypeOK
<1>1. CASE HelperStarts
  <2>1. /\ profile' = profile /\ ~ Changing /\ known' = known \cup ({active} \cap Net)
        /\ previous' = active /\ job' = pending /\ pending # NoRequest
        /\ helper' = IF pending = Scan THEN "scanning"
                     ELSE IF pending = BadName THEN "refusing" ELSE "taken"
    BY <1>1 DEF HelperStarts, radioVars, Changing
  <2>2. Changing' => job' \in Change BY <2>1 DEF TypeOK, Request, Changing
  <2>3. JobKnown' BY <2>1, <2>2 DEF JobKnown
  <2> QED BY <1>0, <2>1, <2>3, KnownKeeps
<1>2. CASE ScanEnds \/ RefusesName
  <2>1. profile' = profile /\ known' = known /\ ~ Changing /\ helper' = "off" /\ previous' = Air
    BY <1>2 DEF ScanEnds, RefusesName, Concludes, Ends, radioVars, history, Changing
  <2>2. JobKnown' BY <2>1 DEF JobKnown, Changing
  <2> QED BY <1>0, <2>1, <2>2, KnownKeeps
<1>3. CASE JoinBegins
  <2>1. profile' = profile /\ known' = known /\ Changing /\ helper = "taken"
    BY <1>3 DEF JoinBegins, radioVars, Changing
  <2>2. CASE previous = job.net /\ job.key = "none"
    <3>1. helper' = "off" BY <1>3, <2>2 DEF JoinBegins, Concludes, Ends
    <3>2. job.net \in Net BY <2>1 DEF JobKnown, Change
    <3>3. job.net \in known BY <2>1, <2>2, <3>2 DEF JobKnown, Changing
    <3>4. JobKnown' BY <3>1 DEF JobKnown, Changing
    <3> QED BY <1>0, <2>1, <3>3, <3>4, KnownKeeps
  <2>3. CASE ~ (previous = job.net /\ job.key = "none")
    <3>1. helper' = "joining" /\ job' = job /\ previous' = previous
      BY <1>3, <2>3 DEF JoinBegins, At
    <3>2. Changing' BY <3>1 DEF Changing
    <3>3. JobKnown' BY <2>1, <3>1 DEF JobKnown, Changing
    <3> QED BY <1>0, <2>1, <3>1, <3>2, <3>3, KnownKeeps
  <2> QED BY <2>2, <2>3
<1>4. CASE HelperJoins \/ HelperRetries
  <2>1. /\ known' = known /\ helper \in {"joining", "refused"} /\ job' = job /\ previous' = previous
        /\ helper' \in {"joining", "checking", "refused", "forgetting"}
        /\ Associates(job.net, job.key) \/ Refused(job.net, job.key) \/ Forget(job.net)
    BY <1>4 DEF HelperJoins, HelperRetries, At, history
  <2>2. Changing /\ Changing' BY <2>1 DEF Changing
  <2>3. job.net \in Net /\ job.key \in Key BY <2>2 DEF JobKnown, Change
  <2>4. \A o \in Net : o # job.net => profile'[o] = profile[o]
    BY <1>0, <2>1, <2>3, RadioSteps
  <2>5. JobKnown' BY <2>1, <2>2 DEF JobKnown, Changing
  <2>6. AccountedFor' BY <1>0, <2>1, <2>2, <2>4 DEF AccountedFor
  <2> QED BY <1>0, <2>5, <2>6
<1>5. CASE HelperCheckFails
  <2>1. /\ known' = known /\ helper = "checking" /\ helper' = "forgetting" /\ job' = job
        /\ previous' = previous /\ profile' = profile
    BY <1>5 DEF HelperCheckFails, At, history, radioVars
  <2>2. Changing /\ Changing' BY <2>1 DEF Changing
  <2>3. JobKnown' BY <2>1, <2>2 DEF JobKnown
  <2> QED BY <1>0, <2>1, <2>2, <2>3, KnownKeeps
<1>6. CASE HelperCheckPasses \/ HelperCheckRaises
  <2>1. known' = known \cup {job.net} /\ helper' = "off" /\ profile' = profile
    BY <1>6 DEF HelperCheckPasses, HelperCheckRaises, Concludes, Ends, radioVars
  <2>2. JobKnown' BY <2>1 DEF JobKnown, Changing
  <2> QED BY <1>0, <2>1, <2>2, KnownKeeps
<1>7. CASE HelperForgets
  <2>1. /\ known' = known /\ helper = "forgetting" /\ helper' = "restoring" /\ job' = job
        /\ previous' = previous
    BY <1>7 DEF HelperForgets, At, history
  <2>2. Changing /\ Changing' BY <2>1 DEF Changing
  <2>3. job.net \in Net /\ job.key \in Key BY <2>2 DEF JobKnown, Change
  <2>4. JobKnown' BY <2>1, <2>2 DEF JobKnown
  <2>5. CASE job.net # previous
    <3>1. Forget(job.net) BY <1>7, <2>5 DEF HelperForgets
    <3>2. profile'[job.net] = "none" /\ \A o \in Net : o # job.net => profile'[o] = profile[o]
      BY <1>0, <2>3, <3>1, RadioSteps
    <3>3. AccountedFor' BY <1>0, <2>1, <3>2 DEF AccountedFor
    <3> QED BY <1>0, <2>4, <3>3
  <2>6. CASE job.net = previous
    <3>1. profile' = profile BY <1>7, <2>6 DEF HelperForgets, radioVars
    <3>2. job.net \in known BY <2>1, <2>3, <2>6 DEF JobKnown
    <3> QED BY <1>0, <2>1, <2>4, <3>1, <3>2, KnownKeeps
  <2> QED BY <2>5, <2>6
<1>8. CASE HelperRestores \/ HelperGivesUp
  <2>1. known' = known /\ helper \in {"restoring", "returning"} /\ profile' = profile
    BY <1>8 DEF HelperRestores, HelperGivesUp, BackToPrevious, Brought, StartAp, radioVars, history
  <2>2. \/ helper' = "off"
        \/ helper' = "returning" /\ job' = job /\ previous' = previous
    BY <1>8 DEF HelperRestores, HelperGivesUp, Concludes, Ends, At
  <2>3. JobKnown' BY <2>1, <2>2 DEF JobKnown, Changing
  <2> QED BY <1>0, <2>1, <2>3, KnownKeeps
<1>9. CASE HelperKilled
  <2>1. /\ profile' = profile /\ helper' = "off"
        /\ known' = IF Changing THEN known \cup {job.net} ELSE known
    BY <1>9 DEF HelperKilled, Ends, radioVars
  <2>2. JobKnown' BY <2>1 DEF JobKnown, Changing
  <2> QED BY <1>0, <2>1, <2>2, KnownKeeps
<1> QED BY <1>1, <1>2, <1>3, <1>4, <1>5, <1>6, <1>7, <1>8, <1>9 DEF Works

\* The bridge, the air and the power leave the profiles as they are.
LEMMA OthersAccount ==
  ASSUME TypeOK, AttemptOfNet, JobKnown, AccountedFor,
         Bridge \/ Outside \/ PowerCut \/ UNCHANGED vars
  PROVE  AttemptOfNet' /\ JobKnown' /\ AccountedFor'
<1>1. CASE Bridge \/ Outside \/ UNCHANGED vars
  <2>1. /\ profile' = profile /\ trying' = trying /\ stage' = stage /\ helper' = helper
        /\ job' = job /\ previous' = previous /\ known' = known
    BY <1>1 DEF Bridge, Asked, Relays, WatchEnds, BridgeRest, Outside, Around, Autoconnect,
                Fades, Appears, radioVars, setupVars, helperVars, history, vars
  <2>2. (Changing' <=> Changing) BY <2>1 DEF Changing
  <2> QED BY <2>1, <2>2, KnownKeeps DEF AttemptOfNet, JobKnown
<1>2. CASE PowerCut
  <2>1. /\ profile' = profile /\ trying' = Air /\ stage' = "none" /\ helper' = "off"
        /\ known' = known \cup (IF trying = Air THEN {} ELSE {trying})
                          \cup (IF Changing THEN {job.net} ELSE {})
    BY <1>2 DEF PowerCut, SetupOff, Idle, RadioOff
  <2>2. trying \in Net => trying # Air BY RadioAssumption
  <2>3. AttemptOfNet' /\ JobKnown' BY <2>1 DEF AttemptOfNet, JobKnown, Changing
  <2> QED BY <2>1, <2>2, <2>3, KnownKeeps
<1> QED BY <1>1, <1>2

-----------------------------------------------------------------------------
(* Types.                                                                  *)

\* Those of the helper, the bridge and the two files.
RestTypes ==
  /\ pending \in Request \cup {NoRequest}
  /\ status \in Outcome \cup {"none", "joining"}
  /\ current \subseteq {"status", "job"}
  /\ helper \in Step
  /\ job \in Request \cup {NoRequest}
  /\ left \in 0 .. Attempts
  /\ previous \in Net \cup {Ap, Air}
  /\ alone \in BOOLEAN
  /\ watch \in BOOLEAN
  /\ heard \in Outcome \cup {"none", "joining"}
  /\ result \in Outcome \cup {"none"}
  /\ known \subseteq Net

\* The types of the radio, of set-up and of the change.
LEMMA TypeSplit == TypeOK <=> RadioTypeOK /\ SetupTypeOK /\ RestTypes
BY DEF TypeOK, RestTypes

\* The radio is on a network, on the access point, or on nothing.
LEMMA RadioTypes ==
  ASSUME TypeOK, AttemptOfNet, JobKnown, [Next]_vars
  PROVE  RadioTypeOK'
<1>0. /\ RadioTypeOK /\ active \in Net \cup {Ap, Air} /\ with \in Key
      /\ previous \in Net \cup {Ap, Air}
  BY DEF TypeOK, RadioTypeOK, SetupTypeOK
<1>1. ASSUME profile' = profile, near' = near, active' \in Net \cup {Ap, Air} PROVE RadioTypeOK'
  BY <1>0, <1>1 DEF RadioTypeOK
<1>2. CASE SetsUp
  <2>1. CASE SetupStarts \/ WaitEnds \/ TakesApDown \/ CheckFails \/ CheckPasses \/ CheckRaises
             \/ PutsApBack \/ \E n \in Net, key \in Key : Connect(n, key)
    <3>1. profile' = profile /\ near' = near /\ active' \in Net \cup {Ap, Air}
      BY <1>0, <2>1 DEF SetupStarts, WaitEnds, TakesApDown, CheckFails, CheckPasses, CheckRaises,
                        PutsApBack, Connect, RaisePortal, StartAp, StopAp, radioVars
    <3> QED BY <1>1, <3>1
  <2>2. CASE Joins \/ ForgetsAndRetries \/ ForgetsIt
    <3>1. stage # "none" /\ (Associates(trying, with) \/ Refused(trying, with) \/ Forget(trying))
      BY <2>2 DEF Joins, ForgetsAndRetries, ForgetsIt
    <3>2. trying \in Net BY <3>1 DEF AttemptOfNet
    <3> QED BY <1>0, <3>1, <3>2, RadioSteps
  <2> QED BY <1>2, <2>1, <2>2 DEF SetsUp, SetupNext, Attempt
<1>3. CASE Works
  <2>1. CASE HelperStarts \/ ScanEnds \/ RefusesName \/ JoinBegins \/ HelperCheckFails
             \/ HelperCheckPasses \/ HelperCheckRaises \/ HelperRestores \/ HelperGivesUp
             \/ HelperKilled
    <3>1. profile' = profile /\ near' = near /\ active' \in Net \cup {Ap, Air}
      BY <1>0, <2>1 DEF HelperStarts, ScanEnds, RefusesName, JoinBegins, HelperCheckFails,
                        HelperCheckPasses, HelperCheckRaises, HelperRestores, HelperGivesUp,
                        HelperKilled, BackToPrevious, Brought, StartAp, radioVars
    <3> QED BY <1>1, <3>1
  <2>2. CASE HelperJoins \/ HelperRetries \/ HelperForgets
    <3>1. /\ Changing
          /\ \/ Associates(job.net, job.key) \/ Refused(job.net, job.key) \/ Forget(job.net)
             \/ UNCHANGED radioVars
      BY <2>2 DEF HelperJoins, HelperRetries, HelperForgets, Changing
    <3>2. job.net \in Net /\ job.key \in Key BY <3>1 DEF JobKnown, Change
    <3>3. CASE UNCHANGED radioVars BY <1>0, <1>1, <3>3 DEF radioVars
    <3> QED BY <1>0, <3>1, <3>2, <3>3, RadioSteps
  <2> QED BY <1>3, <2>1, <2>2 DEF Works
<1>4. CASE Outside
  <2>1. PICK n \in Net : Autoconnect(n) \/ Fades(n) \/ Appears(n) BY <1>4 DEF Outside, Around
  <2>2. profile' = profile /\ near' \subseteq Net /\ active' \in Net \cup {Ap, Air}
    BY <1>0, <2>1 DEF Autoconnect, Fades, Appears, RadioTypeOK
  <2> QED BY <1>0, <2>2 DEF RadioTypeOK
<1>5. CASE Bridge \/ PowerCut \/ UNCHANGED vars
  <2>1. profile' = profile /\ near' = near /\ active' \in Net \cup {Ap, Air}
    BY <1>0, <1>5 DEF Bridge, Asked, Relays, WatchEnds, BridgeRest, PowerCut, RadioOff, vars, radioVars
  <2> QED BY <1>1, <2>1
<1> QED BY <1>2, <1>3, <1>4, <1>5 DEF Next

\* Set-up and its attempt.
LEMMA SetupTypes ==
  ASSUME TypeOK, AttemptsLeft, [Next]_vars
  PROVE  SetupTypeOK' /\ (stage' \in {"stopping", "joining", "refused"} => tries' > 0)
<1>0. /\ setup \in {"off", "waiting", "portal", "failed", "done"}
      /\ trying \in Net \cup {Air} /\ with \in Key /\ stage \in Stage /\ tries \in 0 .. Attempts
      /\ stage \in {"stopping", "joining", "refused"} => tries > 0
      /\ Attempts \in Nat \ {0} /\ "none" \in Key
  BY RadioAssumption DEF TypeOK, SetupTypeOK, AttemptsLeft, Key
<1>1. CASE SetsUp
  <2>1. CASE SetupStarts \/ WaitEnds
    BY <1>0, <2>1 DEF SetupStarts, WaitEnds, RaisePortal, attempt, SetupTypeOK
  <2>2. CASE \E n \in Net, key \in Key : Connect(n, key)
    BY <1>0, <2>2 DEF Connect, SetupTypeOK, Stage
  <2>3. CASE TakesApDown \/ CheckFails \/ ForgetsAndRetries \/ ForgetsIt
    BY <1>0, <2>3 DEF TakesApDown, CheckFails, ForgetsAndRetries, ForgetsIt, Goes, SetupTypeOK, Stage
  <2>4. CASE Joins
    <3>1. /\ UNCHANGED <<setup, trying, with>> /\ tries' = tries - 1 /\ tries > 0
          /\ stage' = "checking" \/ stage' = "forgetting" \/ (stage' = "refused" /\ tries > 1)
      BY <1>0, <2>4 DEF Joins, Goes
    <3>2. tries' \in 0 .. Attempts /\ (tries > 1 => tries' > 0) BY <1>0, <3>1
    <3> QED BY <1>0, <3>1, <3>2 DEF SetupTypeOK, Stage
  <2>5. CASE CheckPasses \/ CheckRaises \/ PutsApBack
    BY <1>0, <2>5 DEF CheckPasses, CheckRaises, PutsApBack, Idle, SetupTypeOK, Stage
  <2> QED BY <1>1, <2>1, <2>2, <2>3, <2>4, <2>5 DEF SetsUp, SetupNext, Attempt
<1>2. CASE PowerCut BY <1>0, <1>2 DEF PowerCut, SetupOff, Idle, SetupTypeOK, Stage
<1>3. CASE Works \/ Bridge \/ Outside \/ UNCHANGED vars
  <2>1. UNCHANGED <<setup, trying, with, stage, tries>>
    BY <1>3 DEF Works, Bridge, Asked, Relays, WatchEnds, BridgeRest, Outside, setupVars, vars
  <2> QED BY <1>0, <2>1 DEF SetupTypeOK
<1> QED BY <1>1, <1>2, <1>3 DEF Next

\* The helper, the bridge and the two files between them.
LEMMA ChangeTypes ==
  ASSUME TypeOK, AttemptsLeft, AttemptOfNet, JobKnown, [Next]_vars
  PROVE  RestTypes' /\ (helper' \in {"taken", "joining", "refused"} => left' > 0)
<1>0. /\ RestTypes /\ trying \in Net \cup {Air} /\ active \in Net \cup {Ap, Air}
      /\ stage \in Stage
      /\ helper \in {"taken", "joining", "refused"} => left > 0
      /\ Attempts \in Nat \ {0} /\ 0 \in 0 .. Attempts /\ Attempts \in 0 .. Attempts
  BY RadioAssumption, TypeSplit DEF AttemptsLeft, RadioTypeOK, SetupTypeOK
<1> USE DEF RestTypes
<1>1. ASSUME NEW outcome \in Outcome, Concludes(outcome), watch' = watch, heard' = heard,
             known' \subseteq Net
      PROVE  RestTypes' /\ helper' = "off"
  BY <1>0, <1>1 DEF Concludes, Writes, Ends, Step
<1>2. CASE Works
  <2>0. watch' = watch /\ heard' = heard BY <1>2 DEF Works, bridgeVars
  <2>1. CASE HelperStarts
    BY <1>0, <2>0, <2>1 DEF HelperStarts, Step
  <2>2. CASE ScanEnds
    BY <1>0, <2>0, <2>2 DEF ScanEnds, Ends, history, Step
  <2>3. CASE JoinBegins
    <3>1. CASE previous = job.net /\ job.key = "none"
      <4>1. Concludes("connected") /\ known' = known /\ "connected" \in Outcome
        BY <2>3, <3>1 DEF JoinBegins, Outcome
      <4> QED BY <1>0, <1>1, <2>0, <4>1
    <3>2. CASE ~ (previous = job.net /\ job.key = "none")
      <4>1. helper = "taken" /\ Writes("joining") /\ At("joining")
            /\ UNCHANGED <<pending, left, result, known>>
        BY <2>3, <3>2 DEF JoinBegins
      <4> QED BY <1>0, <2>0, <4>1 DEF Writes, At, Step
    <3> QED BY <3>1, <3>2
  <2>4. CASE HelperJoins
    <3>1. /\ UNCHANGED <<pending, status, current, job, previous, alone, result, known>>
          /\ left' = left - 1 /\ left > 0
          /\ helper' = "checking" \/ helper' = "forgetting" \/ (helper' = "refused" /\ left > 1)
      BY <1>0, <2>4 DEF HelperJoins, At, history
    <3>2. left' \in 0 .. Attempts /\ (left > 1 => left' > 0) BY <1>0, <3>1
    <3> QED BY <1>0, <2>0, <3>1, <3>2 DEF Step
  <2>5. CASE HelperRetries \/ HelperCheckFails \/ HelperForgets \/ HelperRestores
    BY <1>0, <2>0, <2>5 DEF HelperRetries, HelperCheckFails, HelperForgets, HelperRestores, At,
                            history, Step
  <2>6. CASE HelperCheckPasses
    <3>1. job.net \in Net BY <2>6 DEF HelperCheckPasses, JobKnown, Changing, Change
    <3>2. Concludes("connected") /\ known' \subseteq Net /\ "connected" \in Outcome
      BY <1>0, <2>6, <3>1 DEF HelperCheckPasses, Outcome
    <3> QED BY <1>1, <2>0, <3>2
  <2>7. CASE HelperGivesUp \/ RefusesName
    <3>1. Concludes("failed") /\ known' = known /\ "failed" \in Outcome
      BY <2>7 DEF HelperGivesUp, RefusesName, Outcome
    <3> QED BY <1>0, <1>1, <2>0, <3>1
  <2>8. CASE HelperKilled \/ HelperCheckRaises
    <3>1. Changing => job.net \in Net BY DEF JobKnown, Change
    <3>2. known' \subseteq Net BY <1>0, <2>8, <3>1 DEF HelperKilled, HelperCheckRaises, Changing
    <3> QED BY <1>0, <2>0, <2>8, <3>2 DEF HelperKilled, HelperCheckRaises, Ends, Step
  <2> QED BY <1>2, <2>1, <2>2, <2>3, <2>4, <2>5, <2>6, <2>7, <2>8 DEF Works
<1>3. CASE Bridge
  <2>1. UNCHANGED <<status, helper, job, left, previous, alone, known>>
    BY <1>3 DEF Bridge, Asked, Relays, WatchEnds, BridgeRest, helperVars
  <2>2. /\ pending' \in Request \cup {NoRequest} /\ current' \subseteq {"status", "job"}
        /\ watch' \in BOOLEAN /\ heard' \in Outcome \cup {"none", "joining"}
        /\ result' \in Outcome \cup {"none"}
    BY <1>0, <1>3 DEF Bridge, Asked, Relays, WatchEnds
  <2> QED BY <1>0, <2>1, <2>2
<1>4. CASE SetsUp
  <2>1. UNCHANGED <<pending, status, current, helper, job, left, previous, alone, watch, heard, result>>
    BY <1>4 DEF SetsUp, helperVars, bridgeVars
  <2>2. stage = "checking" => trying \in Net BY DEF AttemptOfNet
  <2>3. known' \subseteq Net BY <1>0, <1>4, <2>2 DEF SetsUp
  <2> QED BY <1>0, <2>1, <2>3
<1>5. CASE PowerCut
  <2>1. Changing => job.net \in Net BY DEF JobKnown, Change
  <2>2. known' \subseteq Net BY <1>0, <1>5, <2>1 DEF PowerCut
  <2> QED BY <1>0, <1>5, <2>2 DEF PowerCut, Step
<1>6. CASE Outside \/ UNCHANGED vars
  <2>1. UNCHANGED <<pending, status, current, helper, job, left, previous, alone, watch, heard,
                    result, known>>
    BY <1>6 DEF Outside, helperVars, bridgeVars, history, vars
  <2> QED BY <1>0, <2>1
<1> QED BY <1>2, <1>3, <1>4, <1>5, <1>6 DEF Next

-----------------------------------------------------------------------------
(* The theorems.                                                           *)

\* Every step of set-up, the helper, the bridge, the air and the power.
LEMMA NextKeeps == WInv /\ [Next]_vars => WInv'
<1> SUFFICES ASSUME WInv, [Next]_vars PROVE WInv'
  OBVIOUS
<1>1. TypeOK /\ AttemptsLeft /\ AttemptOfNet /\ JobKnown /\ AccountedFor /\ RequestTold
  BY DEF WInv
<1>2. RadioTypeOK' BY <1>1, RadioTypes
<1>3. SetupTypeOK' /\ (stage' \in {"stopping", "joining", "refused"} => tries' > 0)
  BY <1>1, SetupTypes
<1>4. RestTypes' /\ (helper' \in {"taken", "joining", "refused"} => left' > 0)
  BY <1>1, ChangeTypes
<1>5. TypeOK' BY <1>2, <1>3, <1>4 DEF TypeOK, RestTypes
<1>6. AttemptsLeft' BY <1>3, <1>4 DEF AttemptsLeft
<1>7. AttemptOfNet' /\ JobKnown' /\ AccountedFor'
  BY <1>1, SetsUpAccounts, WorksAccount, OthersAccount DEF Next
<1>8. RequestTold' BY <1>1, RequestKeeps
<1> QED BY <1>5, <1>6, <1>7, <1>8 DEF WInv

\* Who accounts for a network, and what has become of a request, at every step.
LEMMA WifiInvariance == Spec => []WInv
BY InitEstablishes, NextKeeps, PTL DEF Spec

\* The radio, set-up, the helper and the bridge at every step.
THEOREM WifiTypeCorrect == Spec => []TypeOK
<1>1. WInv => TypeOK BY DEF WInv
<1> QED BY <1>1, WifiInvariance, PTL

\* No network is saved but one that has been proved, that somebody is at work
\* on, or whose attempt was cut short by the power, by the time limit or by an
\* exception in the check - for any networks, keys and attempts.
THEOREM KeptIsProved == Spec => []OnlyProvedKept
<1>1. WInv => OnlyProvedKept BY DEF WInv, AccountedFor, OnlyProvedKept
<1> QED BY <1>1, WifiInvariance, PTL

\* What the server hears of a request is what became of that one, whatever was
\* left in the status file and whichever helper is still at work.
THEOREM ToldIsItsOwn == Spec => []TellsItsOwn
<1>1. WInv => TellsItsOwn BY DEF WInv, RequestTold, TellsItsOwn
<1> QED BY <1>1, WifiInvariance, PTL

-----------------------------------------------------------------------------
(* The way back.                                                           *)

\* The network the radio is on is saved with its right key; with set-up over,
\* so is the one the helper started from, unless that is the one it changes; and
\* the one that did not work is neither saved any more nor what the radio is on.
HomeSaved ==
  /\ active \in Net => profile[active] = "right"
  /\ stage # "none" => setup = "portal"
  /\ helper # "off" /\ alone => setup \in {"done", "failed"}
  /\ Changing /\ alone /\ previous \in Net /\ previous # job.net =>
       profile[previous] = "right"
  /\ helper \in {"restoring", "returning"} /\ alone /\ previous # job.net =>
       profile[job.net] = "none" /\ active # job.net

\* Nothing that touches one profile leaves the radio on it without its key.
LEMMA ActiveSaved ==
  ASSUME RadioTypeOK, active \in Net => profile[active] = "right",
         NEW n \in Net, NEW key \in Key,
         Associates(n, key) \/ Refused(n, key) \/ Forget(n)
  PROVE  active' \in Net => profile'[active'] = "right"
<1>0. profile \in [Net -> Key] /\ Air \notin Net /\ active \in Net \cup {Ap, Air}
  BY RadioAssumption DEF RadioTypeOK
<1>1. CASE Associates(n, key) BY <1>0, <1>1 DEF Associates
<1>2. CASE Refused(n, key) BY <1>0, <1>2 DEF Refused
<1>3. CASE Forget(n) BY <1>0, <1>3 DEF Forget
<1> QED BY <1>1, <1>2, <1>3

\* The device starts with nothing to go back to.
LEMMA HomeInit == Init => HomeSaved
BY RadioAssumption DEF Init, RadioInit, SetupInit, HomeSaved, Changing

\* No step but the helper's own touches the profile it has to come back to.
LEMMA HomeKeeps ==
  ASSUME WInv, HomeSaved, [Next]_vars
  PROVE  HomeSaved'
<1>0. /\ RadioTypeOK /\ with \in Key /\ Air \notin Net /\ Ap \notin Net
      /\ (stage # "none" => trying \in Net) /\ (Changing => job \in Change)
      /\ active \in Net \cup {Ap, Air}
  BY RadioAssumption DEF WInv, TypeOK, SetupTypeOK, RadioTypeOK, AttemptOfNet, JobKnown
<1>1. ASSUME profile' = profile, active' = active \/ active' \notin Net \/ profile[active'] = "right"
      PROVE  active' \in Net => profile'[active'] = "right"
  BY <1>1 DEF HomeSaved
<1>2. CASE SetsUp
  <2>1. /\ helper' = helper /\ job' = job /\ previous' = previous /\ alone' = alone
        /\ (Changing' <=> Changing)
    BY <1>2 DEF SetsUp, helperVars, Changing
  <2>2. CASE SetupStarts \/ WaitEnds
    <3>1. profile' = profile /\ stage' = stage /\ setup \in {"off", "waiting"}
          /\ (active' = active \/ active' \notin Net)
      BY <1>0, <2>2 DEF SetupStarts, WaitEnds, RaisePortal, StartAp, attempt, radioVars
    <3>2. stage = "none" /\ (helper # "off" => ~ alone) BY <3>1 DEF HomeSaved
    <3> QED BY <1>1, <2>1, <3>1, <3>2 DEF HomeSaved, Changing
  <2>3. CASE (\E n \in Net, key \in Key : Connect(n, key)) \/ Attempt
    <3>1. setup = "portal" BY <2>3 DEF Connect, Portal, Attempt, TakesApDown, Joins, ForgetsAndRetries,
            CheckFails, CheckPasses, CheckRaises, ForgetsIt, PutsApBack, HomeSaved
    <3>2. helper # "off" => ~ alone BY <3>1 DEF HomeSaved
    <3>3. stage' # "none" => setup' = "portal"
      BY <2>3, <3>1 DEF Connect, Attempt, TakesApDown, Joins, ForgetsAndRetries, Goes, Idle,
            CheckFails, CheckPasses, CheckRaises, ForgetsIt, PutsApBack
    <3>4. active' \in Net => profile'[active'] = "right"
      <4>1. CASE Joins \/ ForgetsAndRetries \/ ForgetsIt
        <5>1. stage # "none" /\ (Associates(trying, with) \/ Refused(trying, with) \/ Forget(trying))
          BY <4>1 DEF Joins, ForgetsAndRetries, ForgetsIt
        <5> QED BY <1>0, <5>1, ActiveSaved DEF HomeSaved
      <4>2. CASE (\E n \in Net, key \in Key : Connect(n, key)) \/ TakesApDown \/ CheckFails
                 \/ CheckPasses \/ CheckRaises \/ PutsApBack
        <5>1. profile' = profile /\ (active' = active \/ active' \notin Net)
          BY <1>0, <4>2 DEF Connect, TakesApDown, CheckFails, CheckPasses, CheckRaises, PutsApBack,
                            StartAp, StopAp, radioVars
        <5> QED BY <1>1, <5>1
      <4> QED BY <2>3, <4>1, <4>2 DEF Attempt
    <3> QED BY <2>1, <3>2, <3>3, <3>4 DEF HomeSaved, Changing
  <2> QED BY <1>2, <2>2, <2>3 DEF SetsUp, SetupNext
<1>3. CASE Works
  <2>0. setup' = setup /\ stage' = stage BY <1>3 DEF Works, setupVars
  <2>1. CASE HelperStarts
    <3>1. /\ profile' = profile /\ active' = active /\ previous' = active
          /\ (alone' => setup \in {"done", "failed"})
          /\ helper' \in {"taken", "scanning", "refusing"}
      BY <2>1 DEF HelperStarts, radioVars
    <3> QED BY <2>0, <3>1 DEF HomeSaved
  <2>2. ASSUME helper' = "off", profile' = profile,
               active' = active \/ active' \notin Net \/ profile[active'] = "right"
        PROVE  HomeSaved'
    BY <1>1, <2>0, <2>2 DEF HomeSaved, Changing
  <2>3. ASSUME Changing, helper' \notin {"off", "restoring", "returning"},
               UNCHANGED <<radioVars, job, previous, alone>>
        PROVE  HomeSaved'
    BY <2>0, <2>3 DEF HomeSaved, Changing, radioVars
  <2>4. ASSUME Changing, UNCHANGED <<job, previous, alone>>,
               Associates(job.net, job.key) \/ Refused(job.net, job.key) \/ Forget(job.net)
        PROVE  /\ active' \in Net => profile'[active'] = "right"
               /\ alone /\ previous \in Net /\ previous # job.net => profile'[previous] = "right"
    <3>1. job.net \in Net /\ job.key \in Key BY <1>0, <2>4 DEF Change
    <3>2. \A o \in Net : o # job.net => profile'[o] = profile[o]
      BY <1>0, <2>4, <3>1, RadioSteps
    <3>3. active' \in Net => profile'[active'] = "right"
      BY <1>0, <2>4, <3>1, ActiveSaved DEF HomeSaved
    <3> QED BY <2>4, <3>2, <3>3 DEF HomeSaved
  <2>5. CASE ScanEnds \/ RefusesName \/ HelperCheckPasses \/ HelperCheckRaises
             \/ HelperGivesUp \/ HelperKilled
    BY <2>2, <2>5 DEF ScanEnds, RefusesName, HelperCheckPasses, HelperCheckRaises,
                      HelperGivesUp, HelperKilled, Concludes, Ends, radioVars
  <2>6. CASE HelperRestores
    <3>1. /\ helper = "restoring" /\ helper' = "returning" /\ profile' = profile
          /\ UNCHANGED <<job, previous, alone>>
          /\ \/ active' = active \/ active' \notin Net
             \/ active' = previous /\ profile[previous] = "right"
      BY <1>0, <2>6 DEF HelperRestores, BackToPrevious, Brought, StartAp, At, radioVars
    <3>2. job.net \in Net BY <1>0, <3>1 DEF Changing, Change
    <3>3. active' \in Net => profile'[active'] = "right" BY <1>1, <3>1
    <3> QED BY <2>0, <3>1, <3>2, <3>3 DEF HomeSaved, Changing
  <2>7. CASE JoinBegins
    <3>1. UNCHANGED radioVars /\ Changing BY <2>7 DEF JoinBegins, Changing
    <3>2. CASE previous = job.net /\ job.key = "none"
      BY <2>2, <2>7, <3>1, <3>2 DEF JoinBegins, Concludes, Ends, radioVars
    <3>3. CASE ~ (previous = job.net /\ job.key = "none")
      BY <2>3, <2>7, <3>1, <3>3 DEF JoinBegins, At
    <3> QED BY <3>2, <3>3
  <2>8. CASE HelperCheckFails BY <2>3, <2>8 DEF HelperCheckFails, At, Changing
  <2>9. CASE HelperJoins \/ HelperRetries
    <3>1. /\ Changing /\ helper' \in {"checking", "refused", "forgetting", "joining"}
          /\ UNCHANGED <<job, previous, alone>>
          /\ Associates(job.net, job.key) \/ Refused(job.net, job.key) \/ Forget(job.net)
      BY <2>9 DEF HelperJoins, HelperRetries, At, Changing
    <3> QED BY <2>0, <2>4, <3>1 DEF HomeSaved, Changing
  <2>10. CASE HelperForgets
    <3>1. /\ Changing /\ helper = "forgetting" /\ helper' = "restoring"
          /\ UNCHANGED <<job, previous, alone>>
      BY <2>10 DEF HelperForgets, At, Changing
    <3>2. job.net \in Net /\ job.key \in Key BY <1>0, <3>1 DEF Change
    <3>3. CASE job.net # previous
      <4>1. Forget(job.net) BY <2>10, <3>3 DEF HelperForgets
      <4>2. profile'[job.net] = "none" BY <1>0, <3>2, <4>1, RadioSteps
      <4>3. active' # job.net BY <1>0, <3>2, <4>1 DEF Forget
      <4> QED BY <2>0, <2>4, <3>1, <4>1, <4>2, <4>3 DEF HomeSaved, Changing
    <3>4. CASE job.net = previous
      <4>1. UNCHANGED radioVars BY <2>10, <3>4 DEF HelperForgets
      <4> QED BY <2>0, <3>1, <3>4, <4>1 DEF HomeSaved, Changing, radioVars
    <3> QED BY <3>3, <3>4
  <2> QED BY <1>3, <2>1, <2>5, <2>6, <2>7, <2>8, <2>9, <2>10 DEF Works
<1>4. CASE Bridge \/ Outside \/ UNCHANGED vars
  <2>1. /\ profile' = profile /\ setup' = setup /\ stage' = stage /\ helper' = helper
        /\ job' = job /\ previous' = previous /\ alone' = alone
        /\ (Changing' <=> Changing)
    BY <1>4 DEF Bridge, Asked, Relays, WatchEnds, BridgeRest, Outside, Around, Autoconnect,
                Fades, Appears, radioVars, setupVars, helperVars, vars, Changing
  <2>2. active' = active \/ active' \notin Net \/ profile[active'] = "right"
    BY <1>0, <1>4 DEF Bridge, Asked, Relays, WatchEnds, BridgeRest, Outside, Around, Autoconnect,
                      Fades, Appears, radioVars, vars
  <2>3. Changing => job.net \in Net BY <1>0 DEF Change
  <2> QED BY <1>1, <2>1, <2>2, <2>3 DEF HomeSaved, Changing
<1>5. CASE PowerCut
  BY <1>0, <1>5 DEF PowerCut, SetupOff, Idle, RadioOff, HomeSaved, Changing
<1> QED BY <1>2, <1>3, <1>4, <1>5 DEF Next

\* However a change ends the network it began on is still saved, unless that was
\* the one to change; and a failed one leaves nothing of what was tried - for any
\* networks, whatever the air, the power and systemd do meanwhile.
THEOREM WayHomeStays == Spec => WayHomeKept
<1>1. ASSUME WInv, HomeSaved, [Next]_vars, Changing, helper' = "off", alone
      PROVE  /\ previous \in Net \ {job.net} => profile'[previous] = "right"
             /\ status # status' /\ status' = "failed" /\ job.net # previous =>
                  profile'[job.net] = "none" /\ active' # job.net
  <2>1. previous \in Net \ {job.net} => profile[previous] = "right"
    BY <1>1 DEF HomeSaved
  <2>2. helper # "off" BY <1>1 DEF Changing
  <2>3. CASE PowerCut
    BY <2>1, <2>3 DEF PowerCut, RadioOff
  <2>4. CASE Works
    <3>1. /\ UNCHANGED radioVars
          /\ helper \in {"restoring", "returning"} \/ status' = status \/ status' # "failed"
      BY <1>1, <2>2, <2>4
      DEF Works, HelperStarts, ScanEnds, RefusesName, JoinBegins, HelperJoins, HelperRetries,
          HelperCheckFails, HelperCheckPasses, HelperCheckRaises, HelperForgets, HelperRestores,
          HelperGivesUp, HelperKilled, Concludes, Writes, Ends, At, Changing
    <3> QED BY <1>1, <2>1, <3>1 DEF HomeSaved, radioVars
  <2>5. ~ (SetsUp \/ Bridge \/ Outside \/ UNCHANGED vars)
    BY <1>1, <2>2 DEF SetsUp, Bridge, Asked, Relays, WatchEnds, BridgeRest, Outside, vars,
                      helperVars
  <2> QED BY <1>1, <2>3, <2>4, <2>5 DEF Next
<1>2. HomeSaved /\ WInv /\ [Next]_vars => HomeSaved' BY HomeKeeps
<1>3. WInv /\ HomeSaved /\ [Next]_vars =>
        [Changing /\ helper' = "off" /\ alone =>
          /\ previous \in Net \ {job.net} => profile'[previous] = "right"
          /\ status # status' /\ status' = "failed" /\ job.net # previous =>
               profile'[job.net] = "none" /\ active' # job.net ]_vars
  BY <1>1
<1> QED BY <1>2, <1>3, HomeInit, WifiInvariance, PTL DEF Spec, WayHomeKept
=============================================================================
