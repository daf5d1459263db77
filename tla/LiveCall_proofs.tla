--------------------------- MODULE LiveCall_proofs ---------------------------
(***************************************************************************)
(* The call as a whole, for any number of viewers and of callbacks that    *)
(* wait for the loop, in three parts.  The daemon's side alone, with any   *)
(* script: its books of viewers agree with the process, and every viewer   *)
(* is told of the end exactly once (CallPromise).  The composition         *)
(* implements that side, so that all of it carries over.  And the script's *)
(* roster and talkback follow the room.                                    *)
(*                                                                         *)
(* The last part turns on the order of the callbacks.  While a count is    *)
(* still to come the script's viewers may be stale; a voice that waits to  *)
(* be played either is counted before or at the time, or is stopped by a   *)
(* callback that waits behind it (InTurn).                                 *)
(***************************************************************************)
EXTENDS LiveCall, TLAPS, SequenceTheorems

-----------------------------------------------------------------------------
(* The daemon's side (CallProcess). *)

\* Once a shutdown has been handled there is nothing left to report; a call
\* that never began leaves no process behind.
NothingOwed ==
  /\ down # "up" => owed = {}
  /\ owed # {} => process = "none" /\ peers = {}

IInv == TypeOK /\ BooksAgree /\ NothingOwed

\* The daemon starts with no viewer, no process and nothing to report.
LEMMA InitEstablishes == Init => IInv
BY CallAssumption DEF Init, IInv, TypeOK, BooksAgree, NothingOwed

\* Every step keeps the books: letting a viewer in, ending a call for all of
\* them, starting another, and stopping.
LEMMA NextKeeps == IInv /\ [Next]_vars => IInv'
<1> SUFFICES ASSUME IInv, [Next]_vars PROVE IInv'
  OBVIOUS
<1> USE DEF IInv, TypeOK, BooksAgree, NothingOwed
<1>1. ASSUME NEW peer \in Peer, StartCall(peer) PROVE IInv'
  <2>1. CASE process # "none" /\ peers' = peers \cup {peer} /\ UNCHANGED <<process, owed>>
    BY <1>1, <2>1, CallAssumption DEF StartCall, Listening
  <2>2. CASE process = "none" /\ process' = "running" /\ peers' = peers \cup {peer}
             /\ UNCHANGED owed
    BY <1>1, <2>2, CallAssumption DEF StartCall, Listening
  <2>3. CASE process = "none" /\ NeverBegan(peers \cup {peer})
    BY <1>1, <2>3, CallAssumption DEF StartCall, Listening, NeverBegan
  <2> QED  BY <1>1, <2>1, <2>2, <2>3 DEF StartCall
<1>2. CASE ReportNever
  BY <1>2 DEF ReportNever
<1>3. CASE ChildEnds
  BY <1>3 DEF ChildEnds
<1>4. CASE OnExit
  BY <1>4 DEF OnExit, Listening, AskedTooLate, ForgetPeers
<1>5. CASE Shutdown
  BY <1>5 DEF Shutdown, Listening
<1>6. CASE Destroyed
  BY <1>6 DEF Destroyed
<1>7. CASE Wait
  <2>1. since' \in 0 .. RaceWindow
    BY <1>7, CallAssumption DEF Wait
  <2> QED  BY <1>7, <2>1 DEF Wait
<1>8. CASE UNCHANGED vars
  BY <1>8 DEF vars
<1> QED  BY <1>1, <1>2, <1>3, <1>4, <1>5, <1>6, <1>7, <1>8 DEF Next

\* The inductive invariant holds throughout.
THEOREM CallInvariance == Spec => []IInv
<1>1. Init => IInv
  BY InitEstablishes
<1>2. IInv /\ [Next]_vars => IInv'
  BY NextKeeps
<1> QED  BY <1>1, <1>2, PTL DEF Spec

\* The core believes in exactly the viewers there is a process for or who are
\* about to be told there is none (ScriptMedia's peers_ against Core's viewers_).
THEOREM BooksAlwaysAgree == Spec => []BooksAgree
<1>1. IInv => BooksAgree
  BY DEF IInv
<1> QED  BY <1>1, CallInvariance, PTL

\* A step of the process, seen as who has been let in and who told.
LEMMA StepKeepsPromise ==
  IInv /\ [Next]_vars => [Promise!Next]_<<peers \cup owed, told>>
<1> SUFFICES ASSUME IInv, [Next]_vars
             PROVE  Promise!Next \/ UNCHANGED <<peers \cup owed, told>>
  OBVIOUS
<1> USE DEF IInv, TypeOK, NothingOwed, Promise!Next, Promise!Begin, Promise!End
<1>1. ASSUME NEW peer \in Peer, StartCall(peer) PROVE Promise!Begin
  BY <1>1 DEF StartCall, Listening, NeverBegan
<1>2. CASE ReportNever
  BY <1>2 DEF ReportNever
<1>3. CASE ChildEnds
  BY <1>3 DEF ChildEnds
<1>4. CASE OnExit
  BY <1>4 DEF OnExit, Listening, ForgetPeers
<1>5. CASE Shutdown
  BY <1>5 DEF Shutdown
<1>6. CASE Destroyed
  BY <1>6 DEF Destroyed
<1>7. CASE Wait
  BY <1>7 DEF Wait
<1>8. CASE UNCHANGED vars
  BY <1>8 DEF vars
<1> QED  BY <1>1, <1>2, <1>3, <1>4, <1>5, <1>6, <1>7, <1>8 DEF Next

\* ScriptMedia keeps its promise: every viewer a call was started for is told
\* of its end exactly once, and nobody else is.
THEOREM CallPromiseKept == Spec => PromiseKept
<1>1. Init => Promise!Init
  BY DEF Init, Promise!Init
<1>2. IInv /\ [Next]_vars => [Promise!Next]_<<peers \cup owed, told>>
  BY StepKeepsPromise
<1> QED  BY <1>1, <1>2, CallInvariance, PTL DEF Spec, PromiseKept, Promise!Spec

-----------------------------------------------------------------------------
(* The composition and the daemon's side.                                  *)

\* Whatever the script does, the daemon sees a step of CallProcess or none.
LEMMA LiveStepIsCallStep == [LiveNext]_callVars => [Next]_vars
<1> SUFFICES ASSUME [LiveNext]_callVars PROVE [Next]_vars
  OBVIOUS
<1>1. ASSUME Unseen PROVE [Next]_vars
  BY <1>1 DEF Unseen, Next
<1>2. ASSUME NEW peer \in Peer, Ask(peer) PROVE [Next]_vars
  BY <1>2 DEF Ask, Next
<1>3. CASE Never BY <1>3 DEF Never, Next
<1>4. CASE Reaped BY <1>4 DEF Reaped, Next
<1>5. CASE Stopped BY <1>5 DEF Stopped, Next
<1>6. CASE Killed BY <1>6 DEF Killed, Next
<1>7. CASE Tick BY <1>7 DEF Tick, Next
<1>8. CASE UNCHANGED callVars BY <1>8 DEF callVars
<1>9. CASE Media \/ Callbacks \/ Outside \/ Supervises \/ Told \/ Finishes \/ Exits \/ Returns
  BY <1>1, <1>9 DEF Media, Callbacks, Outside, Supervises, Told, Finishes, Exits, Returns
<1>10. ASSUME NEW k \in Script!Half, Connects(k) PROVE [Next]_vars
  BY <1>1, <1>10 DEF Connects
<1> QED BY <1>2, <1>3, <1>4, <1>5, <1>6, <1>7, <1>8, <1>9, <1>10 DEF LiveNext

\* The daemon with a real script is an instance of the daemon with any script.
THEOREM LiveImplementsCall == LiveSpec => Spec
<1>1. LiveInit => Init BY DEF LiveInit
<1> QED BY <1>1, LiveStepIsCallStep, PTL DEF LiveSpec, Spec

\* ScriptMedia's peers_ and Core's viewers_ agree with the script running for
\* real, and every viewer is told of the end of the call once.
THEOREM LiveBooksAgree == LiveSpec => []BooksAgree
BY LiveImplementsCall, BooksAlwaysAgree, PTL

\* Every viewer a call was started for hears of its end exactly once, however
\* the script's tasks, rooms and callbacks interleave with the daemon.
THEOREM LivePromiseKept == LiveSpec => PromiseKept
BY LiveImplementsCall, CallPromiseKept, PTL

-----------------------------------------------------------------------------
(* Callbacks that wait.                                                    *)

Callback == Script!Callback

In(c, q) == \E i \in 1 .. Len(q) : q[i] = c

Hushed(p, q, i) == \E j \in i + 1 .. Len(q) : q[j] = <<"hush", p>>
Counted(q, i) == \E j \in 1 .. i - 1 : q[j] = <<"resync">>

\* A voice that waits to be played is stopped behind that, or is still heard
\* and counted by then.
InTurn(p, q, heard, counted) ==
  \A i \in 1 .. Len(q) :
    q[i] = <<"talk", p>> =>
      Hushed(p, q, i) \/ (p \in heard /\ (p \in counted \/ Counted(q, i)))

\* Callbacks of different kinds, or about different people, differ.
LEMMA CallbacksDiffer ==
  /\ \A p : <<"talk", p>> # <<"resync">> /\ <<"hush", p>> # <<"resync">>
  /\ \A p, o : <<"talk", p>> # <<"hush", o>>
  /\ \A p, o : p # o => <<"talk", p>> # <<"talk", o>> /\ <<"hush", p>> # <<"hush", o>>
<1>1. \A p : Len(<<"talk", p>>) = 2 /\ Len(<<"hush", p>>) = 2 OBVIOUS
<1>2. Len(<<"resync">>) = 1 OBVIOUS
<1>3. \A p : <<"talk", p>> # <<"resync">> /\ <<"hush", p>> # <<"resync">> BY <1>1, <1>2
<1>4. \A p, o : <<"talk", p>> # <<"hush", o>> OBVIOUS
<1>5. \A p, o : p # o => <<"talk", p>> # <<"talk", o>> /\ <<"hush", p>> # <<"hush", o>> OBVIOUS
<1> QED BY <1>3, <1>4, <1>5

\* What the loop runs next, and what waits behind it.
LEMMA TailIn ==
  ASSUME NEW S, NEW q \in Seq(S), q # <<>>
  PROVE  /\ Tail(q) \in Seq(S)
         /\ Head(q) = q[1]
         /\ \A c : In(c, q) <=> c = Head(q) \/ In(c, Tail(q))
<1>1. /\ Tail(q) \in Seq(S) /\ Len(Tail(q)) = Len(q) - 1 /\ Len(q) \in Nat /\ Len(q) >= 1
      /\ \A i \in 1 .. Len(Tail(q)) : Tail(q)[i] = q[i + 1]
  BY HeadTailProperties, EmptySeq, LenProperties
<1>2. Head(q) = q[1] OBVIOUS
<1>3. ASSUME NEW c, In(c, q) PROVE c = Head(q) \/ In(c, Tail(q))
  <2>1. PICK i \in 1 .. Len(q) : q[i] = c BY <1>3 DEF In
  <2>2. CASE i = 1 BY <2>1, <2>2, <1>2
  <2>3. CASE i # 1
    <3>1. i - 1 \in 1 .. Len(Tail(q)) /\ (i - 1) + 1 = i BY <2>3, <1>1
    <3>2. Tail(q)[i - 1] = q[i] BY <3>1, <1>1
    <3> QED BY <3>1, <3>2, <2>1 DEF In
  <2> QED BY <2>2, <2>3
<1>4. ASSUME NEW c, In(c, Tail(q)) PROVE In(c, q)
  <2>1. PICK i \in 1 .. Len(Tail(q)) : Tail(q)[i] = c BY <1>4 DEF In
  <2>2. i + 1 \in 1 .. Len(q) /\ q[i + 1] = c BY <2>1, <1>1
  <2> QED BY <2>2 DEF In
<1>5. In(Head(q), q)
  <2>1. 1 \in 1 .. Len(q) BY <1>1
  <2> QED BY <2>1, <1>2 DEF In
<1> QED BY <1>1, <1>2, <1>3, <1>4, <1>5

\* Callbacks are put at the end.
LEMMA ConcatIn ==
  ASSUME NEW S, NEW q \in Seq(S), NEW r \in Seq(S)
  PROVE  /\ q \o r \in Seq(S)
         /\ \A c : In(c, q \o r) <=> In(c, q) \/ In(c, r)
<1>1. /\ q \o r \in Seq(S) /\ Len(q \o r) = Len(q) + Len(r)
      /\ \A i \in 1 .. Len(q) + Len(r) :
           (q \o r)[i] = IF i <= Len(q) THEN q[i] ELSE r[i - Len(q)]
  BY ConcatProperties
<1>2. Len(q) \in Nat /\ Len(r) \in Nat BY LenProperties
<1>3. ASSUME NEW c, In(c, q \o r) PROVE In(c, q) \/ In(c, r)
  <2>1. PICK i \in 1 .. Len(q) + Len(r) : (q \o r)[i] = c BY <1>3, <1>1 DEF In
  <2>2. CASE i <= Len(q)
    <3>1. i \in 1 .. Len(q) /\ q[i] = c BY <2>1, <2>2, <1>1, <1>2
    <3> QED BY <3>1 DEF In
  <2>3. CASE ~ i <= Len(q)
    <3>1. i - Len(q) \in 1 .. Len(r) BY <2>3, <1>2
    <3>2. r[i - Len(q)] = c BY <2>1, <2>3, <1>1
    <3> QED BY <3>1, <3>2 DEF In
  <2> QED BY <2>2, <2>3
<1>4. ASSUME NEW c, In(c, q) PROVE In(c, q \o r)
  <2>1. PICK i \in 1 .. Len(q) : q[i] = c BY <1>4 DEF In
  <2>2. i \in 1 .. Len(q \o r) /\ (q \o r)[i] = c BY <2>1, <1>1, <1>2
  <2> QED BY <2>2 DEF In
<1>5. ASSUME NEW c, In(c, r) PROVE In(c, q \o r)
  <2>1. PICK i \in 1 .. Len(r) : r[i] = c BY <1>5 DEF In
  <2>2. Len(q) + i \in 1 .. Len(q) + Len(r) /\ ~ Len(q) + i <= Len(q) /\ Len(q) + i - Len(q) = i
    BY <1>2
  <2>3. (q \o r)[Len(q) + i] = r[i] BY <2>2, <1>1
  <2> QED BY <2>1, <2>2, <2>3, <1>1 DEF In
<1> QED BY <1>1, <1>3, <1>4, <1>5

\* A callback that runs leaves the voices behind it in their turn: a count
\* takes in everyone who is heard, anything else counts nobody.
LEMMA InTurnTail ==
  ASSUME NEW p, NEW q \in Seq(Callback), q # <<>>, NEW heard, NEW counted, NEW now,
         InTurn(p, q, heard, counted),
         IF Head(q) = <<"resync">> THEN heard \subseteq now ELSE now = counted
  PROVE  InTurn(p, Tail(q), heard, now)
<1>1. /\ Len(Tail(q)) = Len(q) - 1 /\ Len(q) \in Nat
      /\ \A i \in 1 .. Len(Tail(q)) : Tail(q)[i] = q[i + 1]
      /\ Head(q) = q[1]
  BY HeadTailProperties, LenProperties
<1> DEFINE t == Tail(q)
<1> HIDE DEF t
<1>2. ASSUME NEW i \in 1 .. Len(t), t[i] = <<"talk", p>>,
             ~ Hushed(p, t, i), ~ (p \in heard /\ (p \in now \/ Counted(t, i)))
      PROVE  FALSE
  <2>1. i + 1 \in 1 .. Len(q) /\ q[i + 1] = <<"talk", p>> BY <1>1, <1>2 DEF t
  <2>2. ~ Hushed(p, q, i + 1)
    <3>1. ASSUME NEW j \in (i + 1) + 1 .. Len(q), q[j] = <<"hush", p>> PROVE FALSE
      <4>1. j - 1 \in i + 1 .. Len(t) /\ j - 1 \in 1 .. Len(t) /\ (j - 1) + 1 = j
        BY <3>1, <1>1, <1>2 DEF t
      <4>2. t[j - 1] = q[j] BY <4>1, <1>1 DEF t
      <4> QED BY <4>1, <4>2, <3>1, <1>2 DEF Hushed
    <3> QED BY <3>1 DEF Hushed
  <2>3. p \in heard /\ (p \in counted \/ Counted(q, i + 1)) BY <2>1, <2>2 DEF InTurn
  <2>4. p \notin now BY <2>3, <1>2
  <2>5. Head(q) # <<"resync">> /\ now = counted BY <2>3, <2>4
  <2>6. Counted(q, i + 1) BY <2>3, <2>4, <2>5
  <2>7. PICK j \in 1 .. (i + 1) - 1 : q[j] = <<"resync">> BY <2>6 DEF Counted
  <2>8. j # 1 BY <2>5, <2>7, <1>1
  <2>9. j - 1 \in 1 .. i - 1 /\ j - 1 \in 1 .. Len(t) /\ (j - 1) + 1 = j BY <2>7, <2>8, <1>1, <1>2 DEF t
  <2>10. t[j - 1] = <<"resync">> BY <2>7, <2>9, <1>1 DEF t
  <2>11. Counted(t, i) BY <2>9, <2>10 DEF Counted
  <2> QED BY <2>3, <2>11, <1>2
<1> QED BY <1>2 DEF InTurn, t

\* Callbacks put at the end: nobody's voice that has its turn loses it, if who
\* is not heard any more is stopped by one of them.
LEMMA InTurnConcat ==
  ASSUME NEW p, NEW q \in Seq(Callback), NEW r \in Seq(Callback),
         NEW heard, NEW now, NEW counted,
         InTurn(p, q, heard, counted),
         ~ In(<<"talk", p>>, r),
         p \in now \/ p \notin heard \/ In(<<"hush", p>>, r)
  PROVE  InTurn(p, q \o r, now, counted)
<1> DEFINE all == q \o r
<1>1. /\ Len(all) = Len(q) + Len(r) /\ Len(q) \in Nat /\ Len(r) \in Nat
      /\ \A i \in 1 .. Len(q) + Len(r) : all[i] = IF i <= Len(q) THEN q[i] ELSE r[i - Len(q)]
  BY ConcatProperties, LenProperties
<1> HIDE DEF all
<1>2. ASSUME NEW i \in 1 .. Len(all), all[i] = <<"talk", p>>,
             ~ Hushed(p, all, i), ~ (p \in now /\ (p \in counted \/ Counted(all, i)))
      PROVE  FALSE
  <2>1. i \in 1 .. Len(q) /\ q[i] = <<"talk", p>>
    <3>1. ASSUME ~ i <= Len(q) PROVE FALSE
      <4>1. i - Len(q) \in 1 .. Len(r) /\ r[i - Len(q)] = <<"talk", p>> BY <3>1, <1>1, <1>2
      <4> QED BY <4>1 DEF In
    <3>2. i \in 1 .. Len(q) BY <3>1, <1>1
    <3> QED BY <3>2, <1>1, <1>2
  <2>2. ~ Hushed(p, q, i)
    <3>1. ASSUME NEW j \in i + 1 .. Len(q), q[j] = <<"hush", p>> PROVE FALSE
      <4>1. j \in i + 1 .. Len(all) /\ all[j] = q[j] BY <3>1, <2>1, <1>1
      <4> QED BY <4>1, <3>1, <1>2 DEF Hushed
    <3> QED BY <3>1 DEF Hushed
  <2>3. ~ In(<<"hush", p>>, r)
    <3>1. ASSUME NEW j \in 1 .. Len(r), r[j] = <<"hush", p>> PROVE FALSE
      <4>1. Len(q) + j \in i + 1 .. Len(all) /\ ~ Len(q) + j <= Len(q) /\ Len(q) + j - Len(q) = j
            /\ Len(q) + j \in 1 .. Len(q) + Len(r)
        BY <2>1, <1>1
      <4>2. all[Len(q) + j] = r[j] BY <4>1, <1>1
      <4> QED BY <4>1, <4>2, <3>1, <1>2 DEF Hushed
    <3> QED BY <3>1 DEF In
  <2>4. p \in heard /\ (p \in counted \/ Counted(q, i)) BY <2>1, <2>2 DEF InTurn
  <2>5. p \in now BY <2>3, <2>4
  <2>6. Counted(q, i) => Counted(all, i)
    <3>1. ASSUME NEW j \in 1 .. i - 1, q[j] = <<"resync">> PROVE Counted(all, i)
      <4>1. all[j] = q[j] BY <2>1, <1>1
      <4> QED BY <4>1, <3>1 DEF Counted
    <3> QED BY <3>1 DEF Counted
  <2> QED BY <2>4, <2>5, <2>6, <1>2
<1> QED BY <1>2 DEF InTurn, all

\* A voice that comes to wait has its turn when it is counted, or is to be.
LEMMA InTurnTalk ==
  ASSUME NEW p, NEW q \in Seq(Callback), NEW r \in Callback,
         NEW heard, NEW now, NEW counted,
         InTurn(p, q, heard, counted), heard \subseteq now, p \in now,
         p \in counted \/ In(<<"resync">>, q)
  PROVE  InTurn(p, q \o <<r>>, now, counted)
<1> DEFINE all == q \o <<r>>
<1>0. <<r>> \in Seq(Callback) /\ Len(<<r>>) = 1 OBVIOUS
<1>1. /\ Len(all) = Len(q) + 1 /\ Len(q) \in Nat
      /\ \A i \in 1 .. Len(q) + 1 : all[i] = IF i <= Len(q) THEN q[i] ELSE <<r>>[i - Len(q)]
  BY <1>0, ConcatProperties, LenProperties
<1> HIDE DEF all
<1>2. ASSUME NEW i \in 1 .. Len(all), all[i] = <<"talk", p>>,
             ~ Hushed(p, all, i), p \notin counted, ~ Counted(all, i)
      PROVE  FALSE
  <2>1. PICK j \in 1 .. Len(q) : q[j] = <<"resync">> BY <1>2 DEF In
  <2>2. CASE i = Len(q) + 1
    <3>1. j \in 1 .. i - 1 /\ all[j] = q[j] BY <2>1, <2>2, <1>1
    <3> QED BY <3>1, <2>1, <1>2 DEF Counted
  <2>3. CASE i # Len(q) + 1
    <3>1. i \in 1 .. Len(q) /\ q[i] = <<"talk", p>> BY <2>3, <1>1, <1>2
    <3>2. ~ Hushed(p, q, i)
      <4>1. ASSUME NEW k \in i + 1 .. Len(q), q[k] = <<"hush", p>> PROVE FALSE
        <5>1. k \in i + 1 .. Len(all) /\ all[k] = q[k] BY <4>1, <3>1, <1>1
        <5> QED BY <5>1, <4>1, <1>2 DEF Hushed
      <4> QED BY <4>1 DEF Hushed
    <3>3. Counted(q, i) BY <3>1, <3>2, <1>2 DEF InTurn
    <3>4. PICK k \in 1 .. i - 1 : q[k] = <<"resync">> BY <3>3 DEF Counted
    <3>5. all[k] = q[k] BY <3>1, <3>4, <1>1
    <3> QED BY <3>4, <3>5, <1>2 DEF Counted
  <2> QED BY <2>2, <2>3
<1> QED BY <1>2 DEF InTurn, all

-----------------------------------------------------------------------------
(* The inductive invariant of the script.                                  *)

Joined == half["listener"] = "joined"

ScriptTypes ==
  /\ half \in [Script!Half -> {"token", "joining", "publishing", "joined", "resting", "done", "dead"}]
  /\ talk \in [Peer -> {"none", "playing", "over"}]
  /\ soon \in Seq(Callback)

\* Only a listener that has joined hears or calls back anything.
QuietAlone ==
  /\ half["listener"] \notin {"publishing", "dead"}
  /\ ~ Joined => soon = <<>> /\ voices = {}
  /\ stage = "starting" => half["listener"] = "done"

\* The SDK's roster is the room for as long as it hears of it, and the script's
\* viewers are the roster but for a count that is to come.
RosterTrue ==
  /\ stage = "up" /\ Joined /\ "listener" \notin lost => roster = room
  /\ stage = "up" /\ Joined /\ ~ In(<<"resync">>, soon) => seen = roster
  /\ voices \subseteq roster

\* Who is played is counted or about to be stopped.
TalkFollows ==
  \A p \in Peer :
    /\ talk[p] # "none" => p \in seen \/ In(<<"hush", p>>, soon)
    /\ InTurn(p, soon, voices, seen)

ScriptInv == ScriptTypes /\ QuietAlone /\ RosterTrue /\ TalkFollows

\* The process has not been started.
LEMMA ScriptInitEstablishes == LiveInit => ScriptInv
<1> SUFFICES ASSUME Script!ScriptInit PROVE ScriptInv
  BY DEF LiveInit
<1>1. soon = <<>> /\ Len(soon) = 0 BY DEF Script!ScriptInit
<1>2. ScriptTypes BY <1>1 DEF Script!ScriptInit, ScriptTypes
<1>3. QuietAlone /\ RosterTrue
  BY <1>1 DEF Script!ScriptInit, QuietAlone, RosterTrue, Joined, Script!Half
<1>4. TalkFollows
  <2>1. \A p \in Peer : talk[p] = "none" BY DEF Script!ScriptInit
  <2>2. \A p \in Peer : InTurn(p, soon, voices, seen) BY <1>1 DEF InTurn
  <2> QED BY <2>1, <2>2, Zenon DEF TalkFollows
<1> QED BY <1>2, <1>3, <1>4 DEF ScriptInv

\* The people, the voices and the callbacks stand still, and the listener's
\* task stays in the room or out of it.
LEMMA Aside ==
  ASSUME ScriptInv,
         UNCHANGED <<room, roster, voices, seen, talk, soon>>,
         stage' = stage \/ stage' # "up" \/ ~ Joined,
         half' \in [Script!Half -> {"token", "joining", "publishing", "joined", "resting", "done", "dead"}],
         half'["listener"] \notin {"publishing", "dead"},
         Joined' <=> Joined,
         stage' = "starting" => stage = "starting" /\ half'["listener"] = half["listener"],
         lost \cap {"listener"} \subseteq lost'
  PROVE  ScriptInv'
<1>1. /\ room' = room /\ roster' = roster /\ voices' = voices
      /\ seen' = seen /\ talk' = talk /\ soon' = soon
  OBVIOUS
<1>2. ScriptTypes' BY <1>1 DEF ScriptInv, ScriptTypes
<1>3. QuietAlone' BY <1>1 DEF ScriptInv, QuietAlone
<1>4. RosterTrue'
  <2>1. In(<<"resync">>, soon') = In(<<"resync">>, soon) BY <1>1, Zenon
  <2> QED BY <2>1, <1>1 DEF ScriptInv, RosterTrue
<1>5. TalkFollows' BY <1>1, Zenon DEF ScriptInv, TalkFollows
<1> QED BY <1>2, <1>3, <1>4, <1>5 DEF ScriptInv

\* Nothing is said, heard, played or joined: a process that begins or ends.
LEMMA Blank ==
  ASSUME half' = [k \in Script!Half |-> "done"], talk' = [p \in Peer |-> "none"],
         soon' = <<>>, voices' = {}, roster' = {}, seen' = {}
  PROVE  ScriptInv'
<1>1. ScriptTypes' BY DEF ScriptTypes
<1>2. QuietAlone' /\ RosterTrue' BY DEF QuietAlone, RosterTrue, Joined, Script!Half
<1>3. Len(soon') = 0 OBVIOUS
<1>4. TalkFollows' BY <1>3 DEF TalkFollows, InTurn
<1> QED BY <1>1, <1>2, <1>4 DEF ScriptInv

-----------------------------------------------------------------------------
(* The script's steps.                                                     *)

HalfStep == {"token", "joining", "publishing", "joined", "resting", "done", "dead"}

\* A task's step that does not touch the listener's room.
LEMMA TaskAside ==
  ASSUME ScriptInv, stage = "up", UNCHANGED <<stage, room, roster, voices, seen, talk, soon>>,
         lost \cap {"listener"} \subseteq lost',
         NEW k \in Script!Half, NEW step \in HalfStep, Script!At(k, step),
         \/ k = "publisher"
         \/ ~ Joined /\ step \in {"token", "joining", "resting", "done"}
  PROVE  ScriptInv'
<1>1. /\ half \in [Script!Half -> HalfStep] /\ half' = [half EXCEPT ![k] = step]
      /\ half["listener"] \notin {"publishing", "dead"}
  BY DEF Script!At, ScriptInv, ScriptTypes, HalfStep, QuietAlone
<1>2. "listener" \in Script!Half /\ half' \in [Script!Half -> HalfStep] BY <1>1 DEF Script!Half
<1>3. half'["listener"] = (IF k = "listener" THEN step ELSE half["listener"]) BY <1>1, <1>2
<1>4. half'["listener"] \notin {"publishing", "dead"} /\ (Joined' <=> Joined)
  BY <1>1, <1>3 DEF Joined
<1> QED BY <1>2, <1>4, Aside DEF HalfStep

\* The tasks that keep up the two connections.
LEMMA ConnectsKeep ==
  ASSUME ScriptInv, NEW k \in Script!Half, Connects(k)
  PROVE  ScriptInv'
<1>0. "listener" \in Script!Half /\ half \in [Script!Half -> HalfStep] /\ stage = "up" /\ stage' = "up"
  BY DEF Script!Half, ScriptInv, ScriptTypes, HalfStep, Connects, Script!TokenGranted,
         Script!TokenRefused, Script!AttemptFails, Script!JoinListener, Script!JoinPublisher,
         Script!Publish, Script!Rejoin, Script!Working, Script!Looping, Script!ConnectRest
<1>1. CASE Script!TokenGranted(k)
  <2>1. half[k] = "token" /\ Script!At(k, "joining")
        /\ UNCHANGED <<lost, stage, room, roster, voices, seen, talk, soon>>
    BY <1>1 DEF Script!TokenGranted, Script!Working, Script!sdk, Script!books, Script!ConnectRest
  <2>2. k = "publisher" \/ ~ Joined BY <2>1 DEF Script!Half, Joined
  <2> QED BY <2>1, <2>2, <1>0, TaskAside DEF HalfStep
<1>2. CASE Script!TokenRefused(k)
  <2>1. half[k] = "token" /\ Script!At(k, "done")
        /\ UNCHANGED <<lost, stage, room, roster, voices, seen, talk, soon>>
    BY <1>2 DEF Script!TokenRefused, Script!Working, Script!sdk, Script!books, Script!ConnectRest
  <2>2. k = "publisher" \/ ~ Joined BY <2>1 DEF Script!Half, Joined
  <2> QED BY <2>1, <2>2, <1>0, TaskAside DEF HalfStep
<1>3. CASE Script!AttemptFails(k)
  <2>1. half[k] \in {"token", "joining"} /\ (Script!At(k, "resting") \/ Script!At(k, "done"))
        /\ UNCHANGED <<lost, stage, room, roster, voices, seen, talk, soon>>
    BY <1>3 DEF Script!AttemptFails, Script!Setback, Script!sdk, Script!books, Script!ConnectRest
  <2>2. k = "publisher" \/ ~ Joined BY <2>1 DEF Script!Half, Joined
  <2> QED BY <2>1, <2>2, <1>0, TaskAside DEF HalfStep
<1>4. CASE Script!JoinListener
  <2>1. /\ half["listener"] = "joining" /\ half' = [half EXCEPT !["listener"] = "joined"]
        /\ roster' = room /\ room' = room /\ voices' = voices /\ soon' = soon /\ lost' = lost
        /\ seen' = room
        /\ talk' = [p \in Peer |-> IF p \in seen \ room THEN "none" ELSE talk[p]]
    BY <1>4 DEF Script!JoinListener, Script!Working, Script!At, Script!CountOnJoining,
                Script!Resynced, Script!ConnectRest
  <2>2. ~ Joined BY <2>1 DEF Joined
  <2>3. soon = <<>> /\ voices = {} BY <2>2 DEF ScriptInv, QuietAlone
  <2>4. ScriptTypes'
    <3>1. half' \in [Script!Half -> HalfStep] BY <2>1, <1>0 DEF HalfStep
    <3>2. talk' \in [Peer -> {"none", "playing", "over"}] BY <2>1 DEF ScriptInv, ScriptTypes
    <3> QED BY <2>1, <3>1, <3>2 DEF ScriptInv, ScriptTypes, HalfStep
  <2>5. half'["listener"] = "joined" BY <2>1, <1>0
  <2>6. QuietAlone' BY <1>0, <2>5 DEF QuietAlone, Joined
  <2>7. RosterTrue' BY <2>1, <2>3 DEF RosterTrue
  <2>8. Len(soon) = 0 BY <2>3
  <2>9. \A p \in Peer : InTurn(p, soon', voices', seen') BY <2>1, <2>8 DEF InTurn
  <2>10. \A p \in Peer : talk[p] # "none" => p \in seen
    BY <2>8 DEF ScriptInv, TalkFollows, In
  <2>11. \A p \in Peer : talk'[p] # "none" => p \in seen' BY <2>1, <2>10
  <2>12. TalkFollows' BY <2>9, <2>11, Zenon DEF TalkFollows
  <2> QED BY <2>4, <2>6, <2>7, <2>12 DEF ScriptInv
<1>5. CASE k = "publisher" /\ (Script!JoinPublisher \/ Script!Publish)
  <2>1. /\ \E step \in {"publishing", "joined", "dead"} : Script!At("publisher", step)
        /\ UNCHANGED <<lost, stage, room, roster, voices, seen, talk, soon>>
    BY <1>5 DEF Script!JoinPublisher, Script!Publish, Script!sdk, Script!books, Script!ConnectRest
  <2> QED BY <2>1, <1>0, TaskAside DEF HalfStep, Script!Half
<1>6. CASE Script!Rejoin(k)
  <2>1. half[k] = "joined" /\ (Script!At(k, "done") \/ Script!At(k, "token"))
        /\ UNCHANGED <<stage, room, seen, talk, soon>> /\ lost' = lost \ {k}
    BY <1>6 DEF Script!Rejoin, Script!Working, Script!books, Script!ConnectRest
  <2>2. CASE k = "publisher"
    <3>1. UNCHANGED <<roster, voices>> BY <1>6, <2>2 DEF Script!Rejoin
    <3>2. lost \cap {"listener"} \subseteq lost' BY <2>1, <2>2
    <3> QED BY <2>1, <2>2, <3>1, <3>2, <1>0, TaskAside DEF HalfStep
  <2>3. CASE k = "listener"
    <3>1. soon = <<>> /\ roster' = {} /\ voices' = {} BY <1>6, <2>3 DEF Script!Rejoin
    <3>2. half' \in [Script!Half -> HalfStep] /\ half'["listener"] \in {"done", "token"}
      BY <2>1, <2>3, <1>0 DEF Script!At, HalfStep
    <3>3. ScriptTypes' BY <2>1, <3>2 DEF ScriptInv, ScriptTypes, HalfStep
    <3>4. QuietAlone' BY <1>0, <2>1, <3>1, <3>2 DEF QuietAlone
    <3>5. RosterTrue' BY <3>1, <3>2 DEF RosterTrue, Joined
    <3>6. Len(soon) = 0 BY <3>1
    <3>7. TalkFollows' BY <2>1, <3>6 DEF ScriptInv, TalkFollows, InTurn, In
    <3> QED BY <3>3, <3>4, <3>5, <3>7 DEF ScriptInv
  <2> QED BY <2>2, <2>3 DEF Script!Half
<1> QED BY <1>1, <1>2, <1>3, <1>4, <1>5, <1>6, Zenon DEF Connects

\* The callback that has waited longest runs.
LEMMA CallbacksKeep ==
  ASSUME ScriptInv, Callbacks
  PROVE  ScriptInv'
<1>0. /\ soon \in Seq(Callback) /\ soon # <<>> /\ soon' = Tail(soon) /\ stage = "up"
      /\ UNCHANGED <<stage, half, lost, room, roster, voices>>
      /\ talk \in [Peer -> {"none", "playing", "over"}]
  BY DEF Callbacks, Script!RunResync, Script!RunTalk, Script!RunHush, Script!Turned,
         Script!Looping, Script!TurnRest, Script!tasks, Script!sdk, ScriptInv, ScriptTypes
<1>1. Joined /\ Joined' BY <1>0 DEF ScriptInv, QuietAlone, Joined
<1>2. /\ soon' \in Seq(Callback) /\ Head(soon) \in Callback
      /\ \A c : In(c, soon) <=> c = Head(soon) \/ In(c, soon')
  BY <1>0, TailIn, HeadTailProperties
<1>3. QuietAlone' BY <1>0, <1>1 DEF ScriptInv, QuietAlone
<1>4. voices' \subseteq roster' /\ (stage' = "up" /\ Joined' /\ "listener" \notin lost' => roster' = room')
  BY <1>0, <1>1 DEF ScriptInv, RosterTrue
<1>5. \A p \in Peer : InTurn(p, soon, voices, seen) BY DEF ScriptInv, TalkFollows
<1>6. \A p \in Peer : talk[p] # "none" => p \in seen \/ In(<<"hush", p>>, soon)
  BY DEF ScriptInv, TalkFollows
<1>7. CASE Script!RunResync
  <2>1. /\ Head(soon) = <<"resync">> /\ seen' = roster
        /\ talk' = [p \in Peer |-> IF p \in seen \ roster THEN "none" ELSE talk[p]]
    BY <1>1, <1>7 DEF Script!RunResync, Script!Held, Script!Resynced, Joined
  <2>2. ScriptTypes' BY <1>0, <1>2, <2>1 DEF ScriptInv, ScriptTypes
  <2>3. RosterTrue' BY <1>0, <1>4, <2>1 DEF RosterTrue
  <2>4. voices \subseteq seen' BY <2>1 DEF ScriptInv, RosterTrue
  <2>5. ASSUME NEW p \in Peer PROVE InTurn(p, soon', voices', seen')
    BY <1>0, <1>5, <2>1, <2>4, InTurnTail
  <2>6. ASSUME NEW p \in Peer, talk'[p] # "none"
        PROVE  p \in seen' \/ In(<<"hush", p>>, soon')
    <3>1. talk[p] # "none" /\ (p \notin seen \/ p \in roster) BY <2>1, <2>6
    <3>2. CASE p \in roster BY <2>1, <3>2
    <3>3. CASE p \notin seen
      <4>1. In(<<"hush", p>>, soon) BY <1>6, <3>1, <3>3
      <4> QED BY <1>2, <2>1, <4>1, CallbacksDiffer
    <3> QED BY <3>1, <3>2, <3>3
  <2>7. TalkFollows' BY <2>5, <2>6, Zenon DEF TalkFollows
  <2> QED BY <1>3, <2>2, <2>3, <2>7 DEF ScriptInv
<1>8. ASSUME Head(soon) # <<"resync">>, seen' = seen
      PROVE  RosterTrue' /\ \A p \in Peer : InTurn(p, soon', voices', seen')
  <2>1. In(<<"resync">>, soon) <=> In(<<"resync">>, soon') BY <1>2, <1>8
  <2>2. RosterTrue' BY <1>0, <1>1, <1>4, <1>8, <2>1 DEF ScriptInv, RosterTrue
  <2>3. ASSUME NEW p \in Peer PROVE InTurn(p, soon', voices', seen')
    BY <1>0, <1>5, <1>8, InTurnTail
  <2> QED BY <2>2, <2>3
<1>9. CASE Script!RunTalk
  <2>1. PICK p \in Peer : Head(soon) = <<"talk", p>>
    BY <1>2, <1>9 DEF Script!RunTalk, Callback, Script!Callback
  <2>2. seen' = seen /\ talk' = [talk EXCEPT ![p] = IF @ = "none" THEN "playing" ELSE @]
    <3>1. Head(soon)[2] = p BY <2>1
    <3>2. seen' = seen
          /\ talk' = [talk EXCEPT ![Head(soon)[2]] = IF @ = "none" THEN "playing" ELSE @]
      BY <1>9, Zenon DEF Script!RunTalk
    <3> QED BY <3>1, <3>2, Zenon
  <2>3. Head(soon) # <<"resync">> /\ \A o : Head(soon) # <<"hush", o>> BY <2>1, CallbacksDiffer
  <2>4. ScriptTypes' BY <1>0, <1>2, <2>2 DEF ScriptInv, ScriptTypes
  <2>5. p \in seen \/ In(<<"hush", p>>, soon)
    <3>1. Len(soon) \in Nat /\ Len(soon) >= 1 /\ soon[1] = <<"talk", p>>
      BY <1>0, <2>1, LenProperties, EmptySeq
    <3>2. Hushed(p, soon, 1) \/ p \in seen \/ Counted(soon, 1) BY <1>5, <3>1 DEF InTurn
    <3>3. ~ Counted(soon, 1) BY DEF Counted
    <3>4. Hushed(p, soon, 1) => In(<<"hush", p>>, soon) BY <3>1 DEF Hushed, In
    <3> QED BY <3>2, <3>3, <3>4
  <2>6. ASSUME NEW o \in Peer, talk'[o] # "none"
        PROVE  o \in seen' \/ In(<<"hush", o>>, soon')
    <3>1. o = p \/ talk[o] # "none" BY <1>0, <2>2, <2>6
    <3>2. o \in seen \/ In(<<"hush", o>>, soon) BY <1>6, <2>5, <3>1
    <3> QED BY <1>2, <2>2, <2>3, <3>2
  <2>7. TalkFollows' BY <1>8, <2>2, <2>3, <2>6, Zenon DEF TalkFollows
  <2> QED BY <1>3, <1>8, <2>2, <2>3, <2>4, <2>7 DEF ScriptInv
<1>10. CASE Script!RunHush
  <2>1. PICK p \in Peer : Head(soon) = <<"hush", p>>
    BY <1>2, <1>10 DEF Script!RunHush, Callback, Script!Callback
  <2>2. seen' = seen /\ talk' = [talk EXCEPT ![p] = "none"]
    <3>1. Head(soon)[2] = p BY <2>1
    <3>2. seen' = seen /\ talk' = [talk EXCEPT ![Head(soon)[2]] = "none"]
      BY <1>10, Zenon DEF Script!RunHush, Script!StopTalkback
    <3> QED BY <3>1, <3>2, Zenon
  <2>3. Head(soon) # <<"resync">> /\ \A o : o # p => Head(soon) # <<"hush", o>>
    BY <2>1, CallbacksDiffer
  <2>4. ScriptTypes' BY <1>0, <1>2, <2>2 DEF ScriptInv, ScriptTypes
  <2>5. ASSUME NEW o \in Peer, talk'[o] # "none"
        PROVE  o \in seen' \/ In(<<"hush", o>>, soon')
    <3>1. o # p /\ talk[o] # "none" BY <1>0, <2>2, <2>5
    <3> QED BY <1>2, <1>6, <2>2, <2>3, <3>1
  <2>6. TalkFollows' BY <1>8, <2>2, <2>3, <2>5, Zenon DEF TalkFollows
  <2> QED BY <1>3, <1>8, <2>2, <2>3, <2>4, <2>6 DEF ScriptInv
<1> QED BY <1>7, <1>9, <1>10, Zenon DEF Callbacks

\* What the SDK puts behind the callbacks that wait, in the listener's room.
LEMMA Heard ==
  ASSUME ScriptInv, stage = "up", Joined,
         UNCHANGED <<stage, half, seen, talk>>,
         NEW r \in Seq(Callback), soon' = soon \o r,
         roster' = room', voices' \subseteq roster',
         roster' = roster \/ In(<<"resync">>, r),
         \A p \in Peer : InTurn(p, soon', voices', seen)
  PROVE  ScriptInv'
<1>1. soon \in Seq(Callback) BY DEF ScriptInv, ScriptTypes
<1>2. soon' \in Seq(Callback) /\ \A c : In(c, soon') <=> In(c, soon) \/ In(c, r)
  BY <1>1, ConcatIn
<1>3. ScriptTypes' BY <1>2 DEF ScriptInv, ScriptTypes
<1>4. QuietAlone' BY DEF ScriptInv, QuietAlone, Joined
<1>5. ~ In(<<"resync">>, soon') => seen' = roster'
  BY <1>2 DEF ScriptInv, RosterTrue
<1>6. RosterTrue' BY <1>5 DEF RosterTrue
<1>7. ASSUME NEW p \in Peer, talk'[p] # "none" PROVE p \in seen' \/ In(<<"hush", p>>, soon')
  BY <1>2, <1>7 DEF ScriptInv, TalkFollows
<1>8. seen' = seen OBVIOUS
<1>9. TalkFollows' BY <1>7, <1>8, Zenon DEF TalkFollows
<1> QED BY <1>3, <1>4, <1>6, <1>9 DEF ScriptInv

\* People who come and go while the script is not in the room to see it.
LEMMA Unheard ==
  ASSUME ScriptInv, ~ (stage = "up" /\ Joined /\ "listener" \notin lost),
         UNCHANGED <<stage, half, lost, roster, voices, seen, talk, soon>>
  PROVE  ScriptInv'
<1>1. /\ stage' = stage /\ half' = half /\ lost' = lost /\ roster' = roster
      /\ voices' = voices /\ seen' = seen /\ talk' = talk /\ soon' = soon
  OBVIOUS
<1>2. ScriptTypes' /\ QuietAlone' BY <1>1 DEF ScriptInv, ScriptTypes, QuietAlone, Joined
<1>3. In(<<"resync">>, soon') = In(<<"resync">>, soon) BY <1>1, Zenon
<1>4. RosterTrue' BY <1>1, <1>3 DEF ScriptInv, RosterTrue, Joined
<1>5. TalkFollows' BY <1>1, Zenon DEF ScriptInv, TalkFollows
<1> QED BY <1>2, <1>4, <1>5 DEF ScriptInv

\* Callbacks put at the end that play nobody leave every voice its turn.
LEMMA TurnsKept ==
  ASSUME ScriptInv, NEW r \in Seq(Callback), \A o \in Peer : ~ In(<<"talk", o>>, r),
         NEW now, \A o \in voices : o \in now \/ In(<<"hush", o>>, r)
  PROVE  \A o \in Peer : InTurn(o, soon \o r, now, seen)
<1>1. soon \in Seq(Callback) /\ \A o \in Peer : InTurn(o, soon, voices, seen)
  BY DEF ScriptInv, ScriptTypes, TalkFollows
<1>2. ASSUME NEW o \in Peer PROVE InTurn(o, soon \o r, now, seen)
  <2>1. o \in now \/ o \notin voices \/ In(<<"hush", o>>, r) OBVIOUS
  <2> QED BY <1>1, <2>1, InTurnConcat
<1> QED BY <1>2

\* The people in the room, and what the SDK says of them.
LEMMA PeopleKeep ==
  ASSUME ScriptInv, NEW p \in Peer,
         Script!Arrives(p) \/ Script!Departs(p) \/ Script!Subscribes(p) \/ Script!Unsubscribes(p)
  PROVE  ScriptInv'
<1> DEFINE Hearing == stage = "up" /\ Joined /\ "listener" \notin lost
<1>1. /\ UNCHANGED <<stage, half, lost, seen, talk>>
      /\ Hearing <=> Script!Looping /\ Script!Hears
  BY DEF Script!Arrives, Script!Departs, Script!Subscribes, Script!Unsubscribes,
         Script!PeopleRest, Script!tasks, Script!books, Script!Looping, Script!Hears, Joined
<1>2. /\ soon \in Seq(Callback) /\ voices \subseteq roster
      /\ Hearing => roster = room
      /\ \A o \in Peer : InTurn(o, soon, voices, seen)
      /\ Hearing => In(<<"resync">>, soon) \/ seen = roster
  BY DEF ScriptInv, ScriptTypes, RosterTrue, TalkFollows
<1>3. /\ <<"resync">> \in Callback /\ <<"hush", p>> \in Callback /\ <<"talk", p>> \in Callback
  BY DEF Callback, Script!Callback
<1> HIDE DEF Hearing
<1>4. CASE ~ Hearing
  <2>1. UNCHANGED <<roster, voices, soon>>
    BY <1>1, <1>4 DEF Script!Arrives, Script!Departs, Script!Subscribes, Script!Unsubscribes
  <2> QED BY <1>1, <1>4, <2>1, Unheard DEF Hearing
<1>5. CASE Hearing /\ Script!Arrives(p)
  <2> DEFINE r == << <<"resync">> >>
  <2>1. /\ room' = room \cup {p} /\ voices' = voices /\ roster' = room' /\ soon' = soon \o r
    BY <1>1, <1>5 DEF Script!Arrives, Script!Later
  <2>2. r \in Seq(Callback) /\ In(<<"resync">>, r) BY <1>3 DEF In
  <2>3. \A o \in Peer : ~ In(<<"talk", o>>, r) BY CallbacksDiffer DEF In
  <2> HIDE DEF r
  <2>4. \A o \in Peer : InTurn(o, soon', voices', seen) BY <2>1, <2>2, <2>3, TurnsKept
  <2>5. voices' \subseteq roster' BY <1>2, <1>5, <2>1
  <2> QED BY <1>1, <1>5, <2>1, <2>2, <2>4, <2>5, Heard DEF Hearing
<1>6. CASE Hearing /\ Script!Departs(p)
  <2> DEFINE first == IF p \in voices THEN << <<"hush", p>> >> ELSE <<>>
  <2> DEFINE last == << <<"resync">> >>
  <2> DEFINE r == first \o last
  <2>1. /\ room' = room \ {p} /\ voices' = voices \ {p} /\ roster' = room' /\ soon' = soon \o r
    BY <1>1, <1>6 DEF Script!Departs, Script!Later
  <2>2. /\ first \in Seq(Callback) /\ last \in Seq(Callback)
        /\ In(<<"resync">>, last)
        /\ p \in voices => In(<<"hush", p>>, first)
    BY <1>3 DEF In
  <2>3. \A o \in Peer : ~ In(<<"talk", o>>, first) /\ ~ In(<<"talk", o>>, last)
    BY CallbacksDiffer DEF In
  <2> HIDE DEF first, last
  <2>4. r \in Seq(Callback) /\ \A c : In(c, r) <=> In(c, first) \/ In(c, last)
    BY <2>2, ConcatIn
  <2> HIDE DEF r
  <2>5. In(<<"resync">>, r) /\ (p \in voices => In(<<"hush", p>>, r)) BY <2>2, <2>4
  <2>6. \A o \in Peer : ~ In(<<"talk", o>>, r) BY <2>3, <2>4
  <2>7. \A o \in voices : o \in voices' \/ In(<<"hush", o>>, r) BY <2>1, <2>5
  <2>8. \A o \in Peer : InTurn(o, soon', voices', seen) BY <2>1, <2>4, <2>6, <2>7, TurnsKept
  <2>9. voices' \subseteq roster' BY <1>2, <1>6, <2>1
  <2> QED BY <1>1, <1>6, <2>1, <2>4, <2>5, <2>8, <2>9, Heard DEF Hearing
<1>7. CASE Hearing /\ Script!Unsubscribes(p)
  <2> DEFINE r == << <<"hush", p>> >>
  <2>1. room' = room /\ roster' = roster /\ voices' = voices \ {p} /\ soon' = soon \o r
    BY <1>7 DEF Script!Unsubscribes, Script!Later
  <2>2. r \in Seq(Callback) /\ In(<<"hush", p>>, r) BY <1>3 DEF In
  <2>3. \A o \in Peer : ~ In(<<"talk", o>>, r) BY CallbacksDiffer DEF In
  <2> HIDE DEF r
  <2>4. \A o \in voices : o \in voices' \/ In(<<"hush", o>>, r) BY <2>1, <2>2
  <2>5. \A o \in Peer : InTurn(o, soon', voices', seen) BY <2>1, <2>2, <2>3, <2>4, TurnsKept
  <2>6. voices' \subseteq roster' /\ roster' = room' BY <1>2, <1>7, <2>1
  <2> QED BY <1>1, <1>7, <2>1, <2>2, <2>5, <2>6, Heard DEF Hearing
<1>8. CASE Hearing /\ Script!Subscribes(p)
  <2> DEFINE r == << <<"talk", p>> >>
  <2>1. /\ room' = room /\ roster' = roster /\ voices' = voices \cup {p} /\ soon' = soon \o r
        /\ p \in roster
    BY <1>8 DEF Script!Subscribes, Script!Later
  <2>2. r \in Seq(Callback) BY <1>3
  <2>3. InTurn(p, soon', voices', seen)
    <3>1. p \in seen \/ In(<<"resync">>, soon) BY <1>2, <1>8, <2>1
    <3>2. voices \subseteq voices' /\ p \in voices' /\ InTurn(p, soon, voices, seen) BY <1>2, <2>1
    <3> QED BY <1>2, <1>3, <2>1, <3>1, <3>2, InTurnTalk
  <2>4. ASSUME NEW o \in Peer, o # p PROVE InTurn(o, soon', voices', seen)
    <3>1. ~ In(<<"talk", o>>, r) BY <2>4, CallbacksDiffer DEF In
    <3>2. o \in voices' \/ o \notin voices BY <2>1
    <3>3. InTurn(o, soon, voices, seen) BY <1>2
    <3> HIDE DEF r
    <3> QED BY <1>2, <2>1, <2>2, <3>1, <3>2, <3>3, InTurnConcat
  <2>5. \A o \in Peer : InTurn(o, soon', voices', seen) BY <2>3, <2>4
  <2>6. voices' \subseteq roster' /\ roster' = room' BY <1>2, <1>8, <2>1
  <2> HIDE DEF r
  <2> QED BY <1>1, <1>8, <2>1, <2>2, <2>5, <2>6, Heard DEF Hearing
<1> QED BY <1>4, <1>5, <1>6, <1>7, <1>8

\* What other threads, other machines and other people do.
LEMMA OutsideKeeps ==
  ASSUME ScriptInv, Outside
  PROVE  ScriptInv'
<1>0. /\ half \in [Script!Half -> HalfStep] /\ half["listener"] \notin {"publishing", "dead"}
  BY DEF ScriptInv, ScriptTypes, HalfStep, QuietAlone
<1>1. ASSUME NEW k \in Script!Half, Script!Drop(k) PROVE ScriptInv'
  <2>1. UNCHANGED <<stage, half, room, roster, voices, seen, talk, soon>> /\ lost' = lost \cup {k}
        /\ stage = "up"
    BY <1>1 DEF Script!Drop, Script!tasks, Script!books, Script!Looping
  <2> QED BY <1>0, <2>1, Aside DEF HalfStep, Joined
<1>2. CASE Script!PipelineFails
  <2>1. UNCHANGED <<stage, half, room, roster, voices, seen, talk, soon, lost>> /\ stage = "up"
    BY <1>2 DEF Script!PipelineFails, Script!tasks, Script!sdk, Script!books, Script!Looping
  <2> QED BY <1>0, <2>1, Aside DEF HalfStep, Joined
<1>3. ASSUME NEW p \in Peer, Script!DrainEnds(p) PROVE ScriptInv'
  <2>1. /\ stage' = stage /\ half' = half /\ room' = room /\ roster' = roster /\ voices' = voices
        /\ seen' = seen /\ soon' = soon /\ lost' = lost
        /\ talk[p] = "playing" /\ talk' = [talk EXCEPT ![p] = "over"]
    BY <1>3 DEF Script!DrainEnds, Script!tasks, Script!sdk
  <2>2. ScriptTypes' BY <2>1 DEF ScriptInv, ScriptTypes
  <2>3. QuietAlone' BY <2>1 DEF ScriptInv, QuietAlone, Joined
  <2>4. In(<<"resync">>, soon') = In(<<"resync">>, soon) BY <2>1, Zenon
  <2>5. RosterTrue' BY <2>1, <2>4 DEF ScriptInv, RosterTrue, Joined
  <2>6. \A o \in Peer : talk'[o] # "none" => talk[o] # "none"
    BY <2>1 DEF ScriptInv, ScriptTypes
  <2>7. TalkFollows' BY <2>1, <2>6, Zenon DEF ScriptInv, TalkFollows
  <2> QED BY <2>2, <2>3, <2>5, <2>7 DEF ScriptInv
<1> QED BY <1>1, <1>2, <1>3, PeopleKeep, Zenon DEF Outside

\* A step of the script or the daemon that no viewer and no voice is part of.
LEMMA StepKeeps == ScriptInv /\ [LiveNext]_callVars => ScriptInv'
<1> SUFFICES ASSUME ScriptInv, [LiveNext]_callVars PROVE ScriptInv'
  OBVIOUS
<1>0. /\ half \in [Script!Half -> HalfStep] /\ half["listener"] \notin {"publishing", "dead"}
      /\ "listener" \in Script!Half
  BY DEF ScriptInv, ScriptTypes, HalfStep, QuietAlone, Script!Half
<1>1. ASSUME UNCHANGED script PROVE ScriptInv'
  <2>1. UNCHANGED <<stage, half, room, roster, voices, seen, talk, soon, lost>> BY <1>1 DEF script
  <2> QED BY <1>0, <2>1, Aside DEF HalfStep, Joined
<1>2. ASSUME Spawned PROVE ScriptInv'
  <2>1. CASE Script!Born BY <2>1, Blank DEF Script!Born
  <2> QED BY <1>1, <1>2, <2>1 DEF Spawned
<1>3. CASE (\E peer \in Peer : Ask(peer)) \/ Reaped BY <1>2, <1>3 DEF Ask, Reaped
<1>4. CASE Never \/ Stopped \/ UNCHANGED callVars BY <1>1, <1>4 DEF Never, Stopped, callVars
<1>5. CASE Killed
  <2>1. UNCHANGED <<half, room, roster, voices, seen, talk, soon, lost>> /\ stage' = "gone"
    BY <1>5 DEF Killed
  <2> QED BY <1>0, <2>1, Aside DEF HalfStep, Joined
<1>6. CASE Media
  <2>1. /\ UNCHANGED <<room, roster, voices, seen, talk, soon, lost>> /\ stage = "starting"
        /\ \/ stage' = "up" /\ half' = [k \in Script!Half |-> "token"]
           \/ stage' = "gone" /\ half' = half
    BY <1>6 DEF Media, Script!MediaStarts, Script!sdk, Script!books
  <2>2. half["listener"] = "done" BY <2>1 DEF ScriptInv, QuietAlone
  <2>3. half' \in [Script!Half -> HalfStep] /\ half'["listener"] \in {"token", "done"}
    BY <1>0, <2>1, <2>2 DEF HalfStep
  <2> QED BY <2>1, <2>2, <2>3, Aside DEF HalfStep, Joined
<1>7. CASE Supervises \/ Exits \/ Returns \/ Told
  <2>1. UNCHANGED <<half, room, roster, voices, seen, talk, soon, lost>>
        /\ (stage' = stage \/ stage' = "gone")
    BY <1>7 DEF Supervises, Script!Poll, Exits, Script!Exit, Returns, Script!FetchReturns,
                Told, Script!Terminated, Script!tasks, Script!sdk, Script!books
  <2> QED BY <1>0, <2>1, Aside DEF HalfStep, Joined
<1>8. CASE Finishes BY <1>8, Blank DEF Finishes, Script!Finish
<1>9. CASE Tick
  <2>1. /\ UNCHANGED <<stage, room, roster, voices, seen, talk, soon, lost>>
        /\ half' = [k \in Script!Half |->
                      IF half[k] # "resting" THEN half[k] ELSE IF stopping THEN "done" ELSE "token"]
    BY <1>9 DEF Tick, Script!ScriptTick, Script!sdk, Script!books
  <2>2. half' \in [Script!Half -> HalfStep] BY <1>0, <2>1 DEF HalfStep
  <2>3. half'["listener"] = half["listener"]
        \/ (half["listener"] = "resting" /\ half'["listener"] \in {"done", "token"})
    BY <1>0, <2>1
  <2>4. stage = "starting" => half'["listener"] = half["listener"]
    BY <2>3 DEF ScriptInv, QuietAlone
  <2> QED BY <1>0, <2>1, <2>2, <2>3, <2>4, Aside DEF HalfStep, Joined
<1> QED BY <1>3, <1>4, <1>5, <1>6, <1>7, <1>8, <1>9, ConnectsKeep, CallbacksKeep, OutsideKeeps
        DEF LiveNext

\* What holds of the script at every step of every call.
LEMMA ScriptInvariance == LiveSpec => []ScriptInv
BY ScriptInitEstablishes, StepKeeps, PTL DEF LiveSpec

-----------------------------------------------------------------------------
(* The theorems about the script.                                          *)

\* Once the callbacks have run the script counts exactly the people in the
\* room, for any number of them and any number of callbacks on their way.
THEOREM ViewersFollowRoom == LiveSpec => []ViewersTracked
<1>1. ScriptInv => ViewersTracked
  BY DEF ScriptInv, RosterTrue, ViewersTracked, Joined, In, Script!Queued
<1> QED BY <1>1, ScriptInvariance, PTL

\* Nobody is played who has left the room, whatever was still on its way when
\* they left.
THEOREM NoGhosts == LiveSpec => []NoGhostTalk
<1>1. ASSUME ScriptInv PROVE NoGhostTalk
  <2>1. ASSUME stage = "up", Joined, "listener" \notin lost, soon = <<>>,
               NEW p \in Peer, talk[p] # "none"
        PROVE  p \in room
    <3>1. \A c : ~ In(c, soon) BY <2>1 DEF In
    <3>2. seen = room BY <1>1, <2>1, <3>1 DEF ScriptInv, RosterTrue
    <3> QED BY <1>1, <2>1, <3>1, <3>2 DEF ScriptInv, TalkFollows
  <2> QED BY <2>1 DEF NoGhostTalk, Joined
<1> QED BY <1>1, ScriptInvariance, PTL
=============================================================================
