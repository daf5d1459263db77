-------------------------- MODULE Recording_proofs --------------------------
(***************************************************************************)
(* The two sides of a recording.                                           *)
(*                                                                         *)
(* What the clip's detector owes the daemon, for every window, settling    *)
(* time and number of frames: one verdict, written before the exit, and    *)
(* earned by the frames that were judged.  The argument has three parts.   *)
(* The lock of say() is one fact about finished, lines and saying          *)
(* (Spoken).  A verdict is judged by `looked`, the frames it can have been *)
(* taken from, while the code only keeps the last three (WindowKept,       *)
(* NewPair).  And a detector that has not spoken yet has not seen a        *)
(* convincing frame (Undecided), because the one that would be is the one  *)
(* that makes it speak.                                                    *)
(*                                                                         *)
(* What the recorder owes the core, for every length of a clip: one end    *)
(* for every start, and a verdict before it if one was written in time.    *)
(* Core, recorder and child agree on whether there is a recording          *)
(* (OneJob), an unread line is behind an open pipe (Listens), and an exit  *)
(* the loop has collected is one of the child there is (Collected).        *)
(***************************************************************************)
EXTENDS Recorder, Detector, FiniteSetTheorems, SequenceTheorems,
        WellFoundedInduction, TLAPS

Bit(x) == IF x = Nothing THEN 0 ELSE 1

-----------------------------------------------------------------------------
(* Frames.                                                                 *)

\* A set has two members or more when there are two to be found in it.
LEMMA TwoOf ==
  ASSUME NEW S, IsFiniteSet(S)
  PROVE  Cardinality(S) >= 2 <=> \E a, b \in S : a # b
<1>1. ASSUME NEW a \in S, NEW b \in S, a # b
      PROVE  Cardinality(S) >= 2
  <2>1. IsFiniteSet({a}) /\ Cardinality({a}) = 1 BY FS_Singleton
  <2>2. IsFiniteSet({a} \cup {b}) /\ Cardinality({a} \cup {b}) = 2
    <3>1. Cardinality({a} \cup {b}) = IF b \in {a} THEN Cardinality({a}) ELSE Cardinality({a}) + 1
      BY <2>1, FS_AddElement
    <3>2. IsFiniteSet({a} \cup {b}) BY <2>1, FS_AddElement
    <3> QED BY <3>1, <3>2, <2>1, <1>1
  <2>3. {a} \cup {b} \in SUBSET S OBVIOUS
  <2>4. Cardinality({a} \cup {b}) <= Cardinality(S) BY <2>3, FS_Subset
  <2>5. Cardinality(S) \in Nat BY FS_CardinalityType
  <2> QED BY <2>2, <2>4, <2>5
<1>2. ASSUME Cardinality(S) >= 2
      PROVE  \E a, b \in S : a # b
  <2>1. Cardinality(S) \in Nat BY FS_CardinalityType
  <2>2. Cardinality(S) # 0 /\ Cardinality(S) # 1 BY <2>1, <1>2
  <2>3. S # {} BY <2>2, FS_EmptySet
  <2>4. PICK a : a \in S BY <2>3
  <2>5. S # {a} BY <2>2, FS_Singleton
  <2>6. PICK b \in S : b # a BY <2>4, <2>5
  <2> QED BY <2>4, <2>6
<1> QED BY <1>1, <1>2

\* Two hits among the frames that are kept.
LEMMA HitsPair ==
  ASSUME NEW seen \in Seq(Shown)
  PROVE  Hits(seen) >= HitsNeeded <=>
           \E a, b \in 1 .. Len(seen) : a < b /\ seen[a] = "person" /\ seen[b] = "person"
<1> DEFINE S == {i \in DOMAIN seen : seen[i] = "person"}
<1>1. DOMAIN seen = 1 .. Len(seen) /\ Len(seen) \in Nat OBVIOUS
<1>2. IsFiniteSet(1 .. Len(seen)) BY <1>1, FS_Interval
<1>3. IsFiniteSet(S) BY <1>1, <1>2, FS_Subset
<1>4. Hits(seen) >= HitsNeeded <=> \E a, b \in S : a # b
  <2>1. Cardinality(S) >= 2 <=> \E a, b \in S : a # b
    <3> HIDE DEF S
    <3> QED BY <1>3, TwoOf
  <2> QED BY <2>1 DEF Hits, HitsNeeded
<1>5. (\E a, b \in S : a # b) <=>
        \E a, b \in 1 .. Len(seen) : a < b /\ seen[a] = "person" /\ seen[b] = "person"
  BY <1>1
<1> QED BY <1>4, <1>5

\* Two persons no further apart than the frames that are kept.
Pair(seen) ==
  \E a, b \in 1 .. Len(seen) :
    a < b /\ b <= a + 2 /\ seen[a] = "person" /\ seen[b] = "person"

LEMMA ConvincingPair ==
  ASSUME NEW seen \in Seq(Shown)
  PROVE  Convincing(seen) <=> Pair(seen)
<1>0. Len(seen) \in Nat OBVIOUS
<1>1. ASSUME NEW i \in 1 .. Len(seen)
      PROVE  Cardinality(Together(seen, i)) >= HitsNeeded <=> \E a, b \in Together(seen, i) : a # b
  <2>1. IsFiniteSet(i .. i + HitsOf - 1) BY <1>0, FS_Interval DEF HitsOf
  <2>2. IsFiniteSet(Together(seen, i)) BY <2>1, FS_Subset DEF Together
  <2> QED BY <2>2, TwoOf DEF HitsNeeded
<1>2. ASSUME Convincing(seen) PROVE Pair(seen)
  <2>1. PICK i \in 1 .. Len(seen) : \E a, b \in Together(seen, i) : a # b
    BY <1>1, <1>2 DEF Convincing
  <2>2. PICK a \in Together(seen, i), b \in Together(seen, i) : a < b
    BY <2>1, <1>0 DEF Together, HitsOf
  <2> QED BY <2>2, <1>0 DEF Together, HitsOf, Pair
<1>3. ASSUME Pair(seen) PROVE Convincing(seen)
  <2>1. PICK a \in 1 .. Len(seen), b \in 1 .. Len(seen) :
           a < b /\ b <= a + 2 /\ seen[a] = "person" /\ seen[b] = "person"
    BY <1>3 DEF Pair
  <2>2. a \in Together(seen, a) /\ b \in Together(seen, a) BY <2>1, <1>0 DEF Together, HitsOf
  <2> QED BY <2>1, <2>2, <1>1 DEF Convincing
<1> QED BY <1>2, <1>3

\* `last` is what is kept of `seen`: its three newest, or all there are.
Newest(last, seen) ==
  /\ Len(last) = IF Len(seen) < HitsOf THEN Len(seen) ELSE HitsOf
  /\ \A i \in 1 .. Len(last) : last[i] = seen[Len(seen) - Len(last) + i]

\* The deque keeps the newest when another frame comes in.
LEMMA NewestKept ==
  ASSUME NEW last \in Seq(Shown), NEW seen \in Seq(Shown), NEW s \in Shown,
         Newest(last, seen)
  PROVE  /\ Recent(Append(last, s)) \in Seq(Shown)
         /\ Newest(Recent(Append(last, s)), Append(seen, s))
<1> DEFINE more == Append(last, s)
<1>1. /\ more \in Seq(Shown) /\ Len(more) = Len(last) + 1
      /\ \A i \in 1 .. Len(last) : more[i] = last[i]
      /\ more[Len(last) + 1] = s
  OBVIOUS
<1>2. /\ Append(seen, s) \in Seq(Shown) /\ Len(Append(seen, s)) = Len(seen) + 1
      /\ \A i \in 1 .. Len(seen) : Append(seen, s)[i] = seen[i]
      /\ Append(seen, s)[Len(seen) + 1] = s
  OBVIOUS
<1>3. Len(last) \in Nat /\ Len(seen) \in Nat OBVIOUS
<1> HIDE DEF more
<1>4. CASE Len(seen) < HitsOf
  <2>1. Recent(more) = more BY <1>1, <1>3, <1>4 DEF Recent, Newest, HitsOf
  <2> QED BY <2>1, <1>1, <1>2, <1>3, <1>4 DEF Newest, HitsOf, more
<1>5. CASE ~ Len(seen) < HitsOf
  <2>1. Recent(more) = Tail(more) BY <1>1, <1>3, <1>5 DEF Recent, Newest, HitsOf
  <2>2. more # <<>> BY <1>1, <1>3
  <2>3. /\ Tail(more) \in Seq(Shown) /\ Len(Tail(more)) = Len(last)
        /\ \A i \in 1 .. Len(last) : Tail(more)[i] = more[i + 1]
    BY <2>2, <1>1, <1>3, HeadTailProperties
  <2>4. Len(last) = 3 /\ Len(seen) >= 3 BY <1>3, <1>5 DEF Newest, HitsOf
  <2>5. ASSUME NEW i \in 1 .. 3
        PROVE  Tail(more)[i] = Append(seen, s)[Len(seen) - 2 + i]
    <3>1. CASE i < 3
      <4>0. i + 1 \in 1 .. Len(last) /\ i \in 1 .. Len(last) BY <3>1, <2>4
      <4>1. Tail(more)[i] = last[i + 1]
        <5>1. Tail(more)[i] = more[i + 1] BY <4>0, <2>3
        <5>2. more[i + 1] = last[i + 1] BY <4>0, <1>1
        <5> QED BY <5>1, <5>2
      <4>2. last[i + 1] = seen[Len(seen) - 3 + (i + 1)]
        <5>1. last[i + 1] = seen[Len(seen) - Len(last) + (i + 1)] BY <4>0 DEF Newest
        <5> QED BY <5>1, <2>4
      <4>3. Len(seen) - 3 + (i + 1) = Len(seen) - 2 + i /\ Len(seen) - 2 + i \in 1 .. Len(seen)
        BY <3>1, <2>4, <1>3
      <4> QED BY <4>1, <4>2, <4>3, <1>2
    <3>2. CASE i = 3
      <4>1. Len(seen) - 2 + i = Len(seen) + 1 BY <3>2, <1>3
      <4>2. Tail(more)[i] = s BY <3>2, <2>3, <2>4, <1>1
      <4> QED BY <4>1, <4>2, <1>2
    <3>3. i < 3 \/ i = 3 OBVIOUS
    <3> QED BY <3>1, <3>2, <3>3, Zenon
  <2>6. Len(Append(seen, s)) - 3 = Len(seen) - 2 BY <1>2, <1>3
  <2>7. Len(Append(seen, s)) >= 3 BY <2>4, <1>2, <1>3
  <2>8. Newest(Tail(more), Append(seen, s))
    <3>1. Len(Tail(more)) = 3 BY <2>3, <2>4
    <3>2. \A i \in 1 .. Len(Tail(more)) :
            Tail(more)[i] = Append(seen, s)[Len(Append(seen, s)) - Len(Tail(more)) + i]
      BY <3>1, <2>5, <2>6
    <3>3. Len(Tail(more)) =
            IF Len(Append(seen, s)) < HitsOf THEN Len(Append(seen, s)) ELSE HitsOf
      <4>1. ~ Len(Append(seen, s)) < 3 BY <2>4, <1>2, <1>3
      <4>2. HitsOf = 3 BY DEF HitsOf
      <4> QED BY <4>1, <4>2, <3>1, Zenon
    <3> QED BY <3>2, <3>3, Zenon DEF Newest
  <2> QED BY <2>1, <2>3, <2>8 DEF more
<1> QED BY <1>4, <1>5

\* A frame makes what has been seen convincing if, and only if, the three that
\* are kept show it.
LEMMA NewPair ==
  ASSUME NEW last \in Seq(Shown), NEW seen \in Seq(Shown), NEW s \in Shown,
         Newest(last, seen), ~ Convincing(seen)
  PROVE  Convincing(Append(seen, s)) <=> Hits(Recent(Append(last, s))) >= HitsNeeded
<1> DEFINE next == Recent(Append(last, s))
           all  == Append(seen, s)
<1>1. next \in Seq(Shown) /\ Newest(next, all) BY NewestKept
<1>2. /\ all \in Seq(Shown) /\ Len(all) = Len(seen) + 1
      /\ \A i \in 1 .. Len(seen) : all[i] = seen[i]
  OBVIOUS
<1>3. Len(seen) \in Nat /\ Len(next) \in Nat BY <1>1
<1> HIDE DEF next, all
<1>4. ~ Pair(seen) BY ConvincingPair
<1>5. Hits(next) >= HitsNeeded <=>
        \E a, b \in 1 .. Len(next) : a < b /\ next[a] = "person" /\ next[b] = "person"
  BY <1>1, HitsPair
<1>6. /\ Len(all) \in Nat /\ Len(next) <= Len(all) /\ Len(next) <= 3
      /\ Len(next) < 3 => Len(next) = Len(all)
  BY <1>1, <1>2, <1>3 DEF Newest, HitsOf
<1>7. ASSUME Pair(all) PROVE Hits(next) >= HitsNeeded
  <2>1. PICK a \in 1 .. Len(all), b \in 1 .. Len(all) :
           a < b /\ b <= a + 2 /\ all[a] = "person" /\ all[b] = "person"
    BY <1>7 DEF Pair
  <2>2. b = Len(all)
    <3>1. ASSUME b # Len(all) PROVE FALSE
      <4>1. a \in 1 .. Len(seen) /\ b \in 1 .. Len(seen) BY <2>1, <3>1, <1>2, <1>3
      <4> QED BY <2>1, <4>1, <1>2, <1>4 DEF Pair
    <3> QED BY <3>1
  <2>3. PICK i \in 1 .. Len(next) : Len(all) - Len(next) + i = a
    <3>1. a - (Len(all) - Len(next)) \in 1 .. Len(next) BY <2>1, <2>2, <1>3, <1>6
    <3>2. Len(all) - Len(next) + (a - (Len(all) - Len(next))) = a BY <1>3, <1>6
    <3> QED BY <3>1, <3>2
  <2>4. i < Len(next) /\ Len(all) - Len(next) + Len(next) = b BY <2>1, <2>2, <2>3, <1>3, <1>6
  <2>5. Len(next) \in 1 .. Len(next) BY <2>3, <1>3
  <2>6. next[i] = "person" /\ next[Len(next)] = "person"
    BY <2>1, <2>3, <2>4, <2>5, <1>1 DEF Newest
  <2> QED BY <2>4, <2>5, <2>6, <1>5
<1>8. ASSUME Hits(next) >= HitsNeeded PROVE Pair(all)
  <2>1. PICK a \in 1 .. Len(next), b \in 1 .. Len(next) :
           a < b /\ next[a] = "person" /\ next[b] = "person"
    BY <1>5, <1>8
  <2>2. /\ Len(all) - Len(next) + a \in 1 .. Len(all)
        /\ Len(all) - Len(next) + b \in 1 .. Len(all)
        /\ Len(all) - Len(next) + a < Len(all) - Len(next) + b
        /\ Len(all) - Len(next) + b <= Len(all) - Len(next) + a + 2
    BY <2>1, <1>3, <1>6
  <2>3. /\ all[Len(all) - Len(next) + a] = "person"
        /\ all[Len(all) - Len(next) + b] = "person"
    BY <2>1, <1>1 DEF Newest
  <2> QED BY <2>2, <2>3 DEF Pair
<1>9. Convincing(all) <=> Pair(all) BY <1>2, ConvincingPair
<1> QED BY <1>7, <1>8, <1>9 DEF next, all

-----------------------------------------------------------------------------
(* The inductive invariant.                                                *)

\* A frame that is judged is one, and those that are kept have room.
FramesFit ==
  /\ thread = "judging" => seeing # Nothing
  /\ Len(looked) + Bit(seeing) + Bit(frame) <= MaxFrames

\* What say() keeps: a verdict is claimed once, written by who claimed it, and
\* claimed before main() closes.
Spoken ==
  /\ ~ finished => lines = <<>> /\ saying = Nothing
  /\ finished => (lines = <<>> /\ saying # Nothing) \/ (Len(lines) = 1 /\ saying = Nothing)
  /\ thread = "saying" <=> saying # Nothing
  /\ thread = "unstarted" => finished
  /\ main \in {"closing", "exited"} => finished

\* The deque against everything that was judged.
WindowKept ==
  /\ Newest(hits, looked)
  /\ judged = Len(looked)

\* A detector that still works has seen nothing convincing and said nothing.
Undecided ==
  /\ thread \in {"asking", "loading", "waiting", "judging"} => ~ Convincing(looked)
  /\ thread = "looking" => ring \/ Convincing(looked)
  /\ thread \notin {"saying", "ended"} => saying = Nothing /\ lines \in {<<>>, <<"unknown">>}

\* VerdictEarned, of one verdict.
Earned(verdict, rung, seen) ==
  /\ verdict = "no-person" => ~ rung /\ Len(seen) >= MinFrames /\ ~ Convincing(seen)
  /\ verdict = "person" => rung \/ Convincing(seen)

AllEarned ==
  /\ saying # Nothing => Earned(saying, ring, looked)
  /\ \A i \in 1 .. Len(lines) : Earned(lines[i], ring, looked)

IInv == DetectorTypeOK /\ FramesFit /\ Spoken /\ WindowKept /\ Undecided /\ AllEarned

\* The recording begins with nothing seen; a clip without a sink is decided.
LEMMA InitEstablishes == DetectorInit => IInv
<1> SUFFICES ASSUME DetectorInit PROVE IInv OBVIOUS
<1>1. Len(looked) = 0 /\ looked \in Seq(Shown) /\ hits = looked BY DEF DetectorInit
<1>0. finished \in BOOLEAN BY Zenon DEF DetectorInit
<1>2. DetectorTypeOK
  <2>1. lines \in Seq(Answer)
    <3>1. <<>> \in Seq(Answer) /\ <<"unknown">> \in Seq(Answer) BY DEF Answer
    <3> QED BY <3>1, Zenon DEF DetectorInit
  <2>2. 0 \in 0 .. MaxFrames /\ Window \in 0 .. Window BY DetectorAssumption
  <2>3. thread \in {"asking", "unstarted"} /\ faces \in {"off", "loading"} BY Zenon DEF DetectorInit
  <2>4. looked \in Seq(Shown) /\ hits \in Seq(Shown) /\ Len(looked) <= MaxFrames /\ Len(hits) <= HitsOf
    BY <1>1, DetectorAssumption DEF HitsOf
  <2>5. judged \in 0 .. MaxFrames /\ left \in 0 .. Window BY <2>2 DEF DetectorInit
  <2> QED BY <1>0, <2>1, <2>3, <2>4, <2>5, Zenon DEF DetectorInit, DetectorTypeOK
<1>3. FramesFit BY <1>1, DetectorAssumption DEF DetectorInit, FramesFit, Bit
<1>4. Spoken BY DEF DetectorInit, Spoken
<1>5. WindowKept BY <1>1 DEF DetectorInit, WindowKept, Newest, HitsOf
<1>6. ~ Convincing(looked) BY <1>1 DEF Convincing
<1>7. Undecided BY <1>6 DEF DetectorInit, Undecided
<1>8. AllEarned BY DEF DetectorInit, AllEarned, Earned
<1> QED BY <1>2, <1>3, <1>4, <1>5, <1>7, <1>8 DEF IInv

\* Only a frame that is judged changes what has been seen.
LEMMA LookedStands ==
  ASSUME [DetectorNext]_detectorVars, ~ Judges
  PROVE  UNCHANGED <<ring, hits, judged, looked>>
BY DEF DetectorNext, detectorVars, Asks, ModelLoads, Breaks, Takes, Refreshes, LookEnds, Writes,
       FacesLoad, Offers, Main, Plays, SigInt, BusSpeaks, FinishBegins, FinishEnds,
       Exits, Killed, Tick, options, box, judging, output, OthersRest, DetectorRest

-----------------------------------------------------------------------------
(* Steps.                                                                  *)

\* What a claim leaves: it is this thread's own, or one has been made.
LEMMA ClaimKeepsTypes ==
  ASSUME NEW verdict \in Answer, DetectorTypeOK, Claim(verdict)
  PROVE  /\ thread' \in {"saying", "ended"} /\ finished' \in BOOLEAN
         /\ saying' \in Answer \cup {Nothing} /\ lines' \in Seq(Answer)
BY DEF Claim, DetectorTypeOK

\* A frame of a motion keeps the types and the bound.
LEMMA JudgesKeepsTypes ==
  ASSUME IInv, Judges
  PROVE  DetectorTypeOK' /\ FramesFit'
<1> USE DEF IInv
<1>0. "person" \in Answer BY DEF Answer
<1>1. seeing \in Shown /\ thread = "judging" BY DEF Judges, Working, FramesFit, DetectorTypeOK
<1>2. Bit(seeing) = 1 /\ Bit(seeing') = 0 /\ Bit(frame') = Bit(frame) /\ Bit(frame) \in {0, 1}
  BY <1>1, DetectorAssumption DEF Judges, Bit
<1>3. /\ UNCHANGED <<ring, known, faces, main, code, joining, stopping, left, frame>>
      /\ seeing' = Nothing
  BY DEF Judges, OthersRest, options
<1>4. Len(looked) \in Nat /\ Len(looked) + 1 <= MaxFrames
  BY <1>2, DetectorAssumption DEF FramesFit, DetectorTypeOK
<1>5. CASE ring
  <2>1. thread' = "looking" /\ UNCHANGED <<settled, hits, judged, looked, finished, saying, lines>>
    BY <1>5 DEF Judges, judging, output
  <2>2. DetectorTypeOK' BY <2>1, <1>3 DEF DetectorTypeOK
  <2>3. FramesFit' BY <2>1, <1>2, <1>4 DEF FramesFit, DetectorTypeOK
  <2> QED BY <2>2, <2>3
<1>6. CASE ~ ring
  <2>1. JudgeMotion BY <1>6 DEF Judges
  <2>2. settled' \in (0 .. Settle) \cup {Nothing}
    BY <2>1, DetectorAssumption DEF JudgeMotion, DetectorTypeOK
  <2>3. CASE UNCHANGED <<hits, judged, looked, finished, saying, lines>> /\ thread' = "waiting"
    <3>1. DetectorTypeOK' BY <2>2, <2>3, <1>3 DEF DetectorTypeOK
    <3>2. FramesFit' BY <2>3, <1>2, <1>4 DEF FramesFit, DetectorTypeOK
    <3> QED BY <3>1, <3>2
  <2>4. CASE /\ judged' = judged + 1
             /\ hits' = Recent(Append(hits, seeing))
             /\ looked' = Append(looked, seeing)
             /\ \/ thread' \in {"looking", "waiting"} /\ UNCHANGED <<finished, saying, lines>>
                \/ Claim("person")
    <3>1. hits' \in Seq(Shown) /\ Newest(hits', looked')
      BY <2>4, <1>1, NewestKept DEF DetectorTypeOK, WindowKept
    <3>2. looked' \in Seq(Shown) /\ Len(looked') = Len(looked) + 1
      BY <2>4, <1>1 DEF DetectorTypeOK
    <3>3. Len(hits') <= HitsOf BY <3>1, <3>2, <1>4 DEF Newest, HitsOf
    <3>4. judged' \in 0 .. MaxFrames BY <2>4, <1>4 DEF WindowKept
    <3>5. /\ thread' \in {"looking", "waiting", "saying", "ended"} /\ finished' \in BOOLEAN
          /\ saying' \in Answer \cup {Nothing} /\ lines' \in Seq(Answer)
      <4>1. CASE Claim("person") BY <4>1, <1>0, ClaimKeepsTypes
      <4>2. CASE thread' \in {"looking", "waiting"} /\ UNCHANGED <<finished, saying, lines>>
        BY <4>2 DEF DetectorTypeOK
      <4> QED BY <2>4, <4>1, <4>2
    <3>6. DetectorTypeOK'
      <4>1. thread' \in {"unstarted", "asking", "loading", "waiting", "judging", "looking",
                         "saying", "ended"}
        BY <3>5
      <4>2. Len(looked') <= MaxFrames BY <3>2, <1>4
      <4> QED BY <4>1, <4>2, <3>1, <3>2, <3>3, <3>4, <3>5, <2>2, <1>3 DEF DetectorTypeOK
    <3>7. FramesFit'
      <4>1. thread' # "judging" BY <3>5
      <4> QED BY <4>1, <3>2, <1>2, <1>4 DEF FramesFit, DetectorTypeOK
    <3> QED BY <3>6, <3>7
  <2> QED BY <2>1, <2>3, <2>4, Zenon DEF JudgeMotion, output
<1> QED BY <1>5, <1>6

\* Frames that stay where they are still fit.
LEMMA FitStands ==
  ASSUME FramesFit, UNCHANGED <<looked, seeing, frame>>, thread' = "judging" => thread = "judging"
  PROVE  FramesFit'
<1>1. looked' = looked /\ seeing' = seeing /\ frame' = frame OBVIOUS
<1>2. Bit(seeing') = Bit(seeing) /\ Bit(frame') = Bit(frame) BY <1>1, Zenon
<1>3. Len(looked') + Bit(seeing') + Bit(frame') <= MaxFrames BY <1>1, <1>2, Zenon DEF FramesFit
<1> QED BY <1>1, <1>3, Zenon DEF FramesFit

\* Every step keeps the types, and room for the frames on their way.
LEMMA TypesKept == IInv /\ [DetectorNext]_detectorVars => DetectorTypeOK' /\ FramesFit'
<1> SUFFICES ASSUME IInv, [DetectorNext]_detectorVars PROVE DetectorTypeOK' /\ FramesFit'
  OBVIOUS
<1>0. DetectorTypeOK /\ FramesFit BY DEF IInv
<1>1. /\ "person" \in Answer /\ "unknown" \in Answer /\ Conclusion \in Answer
  BY DEF Answer, Conclusion
<1>2. CASE Asks
  <2>1. UNCHANGED <<ring, known, faces, main, code, joining, stopping, left, frame, seeing,
                    settled, hits, judged, looked>>
    BY <1>2 DEF Asks, box, judging, OthersRest, options
  <2>2. /\ thread' \in {"loading", "saying", "ended"} /\ finished' \in BOOLEAN
        /\ saying' \in Answer \cup {Nothing} /\ lines' \in Seq(Answer)
    <3>1. CASE Claim("person") BY <3>1, <1>0, <1>1, ClaimKeepsTypes
    <3>2. CASE thread' = "loading" /\ UNCHANGED <<finished, saying, lines>>
      BY <3>2, <1>0 DEF DetectorTypeOK
    <3> QED BY <3>1, <3>2, <1>2 DEF Asks, output
  <2>3. DetectorTypeOK' BY <2>1, <2>2, <1>0 DEF DetectorTypeOK
  <2>4. FramesFit' BY <2>1, <2>2, <1>0, FitStands
  <2> QED BY <2>3, <2>4
<1>3. CASE ModelLoads
  <2>1. DetectorTypeOK' BY <1>3, <1>0 DEF ModelLoads, Working, box, judging, output, OthersRest, options, DetectorTypeOK
  <2>2. UNCHANGED <<looked, seeing, frame>> /\ (thread' = "judging" => thread = "judging")
    BY <1>3 DEF ModelLoads, Working, box, judging, output, OthersRest, options
  <2>3. FramesFit' BY <2>2, <1>0, FitStands
  <2> QED BY <2>1, <2>3
<1>4. CASE Breaks
  <2>1. /\ UNCHANGED <<ring, known, faces, main, code, joining, stopping, left, frame,
                       settled, hits, judged, looked>>
        /\ seeing' = Nothing
    BY <1>4 DEF Breaks, judging, OthersRest, options
  <2>2. /\ thread' \in {"saying", "ended"} /\ finished' \in BOOLEAN
        /\ saying' \in Answer \cup {Nothing} /\ lines' \in Seq(Answer)
    BY <1>4, <1>0, <1>1, ClaimKeepsTypes DEF Breaks
  <2>3. DetectorTypeOK' BY <2>1, <2>2, <1>0 DEF DetectorTypeOK
  <2>4. Bit(seeing') = 0 /\ Bit(frame') = Bit(frame) BY <2>1 DEF Bit
  <2>5. Bit(seeing) \in {0, 1} /\ Bit(frame) \in {0, 1} /\ Len(looked) \in Nat
    BY <1>0 DEF Bit, DetectorTypeOK
  <2>6. FramesFit' BY <2>1, <2>2, <2>4, <2>5, <1>0, DetectorAssumption DEF FramesFit
  <2> QED BY <2>3, <2>6
<1>5. CASE Takes
  <2>1. /\ UNCHANGED <<ring, known, faces, main, code, joining, stopping, left,
                       settled, hits, judged, looked>>
        /\ frame' = Nothing
    BY <1>5 DEF Takes, judging, OthersRest, options
  <2>2. Bit(seeing) \in {0, 1} /\ Bit(frame) \in {0, 1} /\ Len(looked) \in Nat /\ Bit(frame') = 0
    BY <2>1, <1>0 DEF Bit, DetectorTypeOK
  <2>3. ASSUME NEW verdict \in Answer, Claim(verdict), UNCHANGED seeing
        PROVE  DetectorTypeOK' /\ FramesFit'
    <3>1. /\ thread' \in {"saying", "ended"} /\ finished' \in BOOLEAN
          /\ saying' \in Answer \cup {Nothing} /\ lines' \in Seq(Answer)
      BY <2>3, <1>0, ClaimKeepsTypes
    <3>2. DetectorTypeOK' BY <2>1, <2>3, <3>1, <1>0 DEF DetectorTypeOK
    <3>3. Bit(seeing') = Bit(seeing) BY <2>3 DEF Bit
    <3>4. FramesFit' BY <2>1, <2>2, <3>1, <3>3, <1>0, DetectorAssumption DEF FramesFit
    <3> QED BY <3>2, <3>4
  <2>4. CASE /\ ~ stopping /\ left > 0 /\ seeing' = frame /\ thread' = "judging"
             /\ UNCHANGED <<finished, saying, lines>>
    <3>1. frame # Nothing BY <1>5, <2>4, <1>0, DetectorAssumption DEF Takes, DetectorTypeOK
    <3>2. DetectorTypeOK' BY <2>1, <2>4, <1>0 DEF DetectorTypeOK
    <3>3. Bit(seeing') = 1 /\ Bit(frame) = 1 BY <2>4, <3>1 DEF Bit
    <3>4. FramesFit' BY <2>1, <2>2, <2>4, <3>1, <3>3, <1>0, DetectorAssumption DEF FramesFit
    <3> QED BY <3>2, <3>4
  <2> QED BY <1>5, <1>1, <2>3, <2>4, Zenon DEF Takes, output
<1>6. CASE Judges
  BY <1>6, JudgesKeepsTypes
<1>7. CASE Refreshes
  <2>1. /\ UNCHANGED <<ring, known, faces, main, code, joining, stopping, left, seeing, thread,
                       settled, hits, judged, looked, finished, saying, lines>>
        /\ frame' = Nothing
    BY <1>7 DEF Refreshes, judging, output, OthersRest, options
  <2>2. DetectorTypeOK' BY <2>1, <1>0 DEF DetectorTypeOK
  <2>3. Bit(frame') = 0 /\ Bit(seeing') = Bit(seeing) /\ Bit(seeing) \in {0, 1} /\ Bit(frame) \in {0, 1}
    BY <2>1 DEF Bit
  <2>4. FramesFit' BY <2>1, <2>3, <1>0, DetectorAssumption DEF FramesFit, DetectorTypeOK
  <2> QED BY <2>2, <2>4
<1>8. CASE LookEnds
  <2>1. UNCHANGED <<ring, known, faces, main, code, joining, stopping, left, frame, seeing,
                    settled, hits, judged, looked>>
    BY <1>8 DEF LookEnds, box, judging, OthersRest, options
  <2>2. /\ thread' \in {"saying", "ended"} /\ finished' \in BOOLEAN
        /\ saying' \in Answer \cup {Nothing} /\ lines' \in Seq(Answer)
    BY <1>8, <1>0, <1>1, ClaimKeepsTypes DEF LookEnds
  <2>3. DetectorTypeOK' BY <2>1, <2>2, <1>0 DEF DetectorTypeOK
  <2>4. FramesFit' BY <2>1, <2>2, <1>0, FitStands
  <2> QED BY <2>3, <2>4
<1>9. CASE Writes
  <2>1. /\ UNCHANGED <<ring, known, faces, main, code, joining, stopping, left, frame, seeing,
                       settled, hits, judged, looked, finished>>
        /\ thread' = "ended" /\ saying' = Nothing
    BY <1>9 DEF Writes, box, judging, options
  <2>2. saying \in Answer BY <1>9 DEF IInv, Spoken, DetectorTypeOK, Writes
  <2>3. lines' \in Seq(Answer) BY <2>2, <1>9, <1>0 DEF Writes, DetectorTypeOK
  <2>4. DetectorTypeOK' BY <2>1, <2>3, <1>0 DEF DetectorTypeOK
  <2>5. FramesFit' BY <2>1, <1>0, FitStands
  <2> QED BY <2>4, <2>5
<1>10. CASE FacesLoad
  <2>1. DetectorTypeOK' BY <1>10, <1>0 DEF FacesLoad, box, judging, output, options, DetectorTypeOK
  <2>2. UNCHANGED <<looked, seeing, frame>> /\ (thread' = "judging" => thread = "judging")
    BY <1>10 DEF FacesLoad, box, judging, output, options
  <2>3. FramesFit' BY <2>2, <1>0, FitStands
  <2> QED BY <2>1, <2>3
<1>11. CASE Offers
  <2>1. /\ UNCHANGED <<ring, known, faces, main, code, joining, thread, stopping, left, seeing,
                       settled, hits, judged, looked, finished, saying, lines>>
        /\ frame' \in Shown
    BY <1>11 DEF Offers, judging, output, options
  <2>2. DetectorTypeOK' BY <2>1, <1>0 DEF DetectorTypeOK
  <2>3. Cardinality({seeing} \ {Nothing}) = Bit(seeing)
    <3>1. CASE seeing = Nothing
      <4>1. {seeing} \ {Nothing} = {} BY <3>1
      <4> QED BY <3>1, <4>1, FS_EmptySet DEF Bit
    <3>2. CASE seeing # Nothing
      <4>1. {seeing} \ {Nothing} = {seeing} BY <3>2
      <4> QED BY <3>2, <4>1, FS_Singleton DEF Bit
    <3> QED BY <3>1, <3>2
  <2>4. Bit(frame') = 1 /\ Bit(seeing') = Bit(seeing) /\ Bit(seeing) \in {0, 1}
    BY <2>1, DetectorAssumption DEF Bit
  <2>5. Len(looked) + Bit(seeing) < MaxFrames BY <1>11, <2>3 DEF Offers
  <2>6. FramesFit' BY <2>1, <2>4, <2>5, <1>0, DetectorAssumption DEF FramesFit, DetectorTypeOK
  <2> QED BY <2>2, <2>6
<1>12. CASE Main
  <2>1. UNCHANGED <<ring, known, faces, thread, left, frame, seeing, settled, hits, judged, looked>>
    BY <1>12 DEF Main, Plays, SigInt, BusSpeaks, FinishBegins, FinishEnds, Exits,
                 DetectorRest, options, box, judging
  <2>2. /\ main' \in {"playing", "flushing", "finishing", "joining", "closing", "exited"}
        /\ code' \in {0, 1} /\ joining' \in {0, 1, Nothing} /\ stopping' \in BOOLEAN
        /\ finished' \in BOOLEAN /\ saying' = saying
    BY <1>12, <1>0 DEF Main, Plays, SigInt, BusSpeaks, FinishBegins, FinishEnds, Exits,
                 output, DetectorTypeOK
  <2>3. lines' \in Seq(Answer)
    <3>1. lines' = lines \/ lines' = Append(lines, "unknown")
      BY <1>12 DEF Main, Plays, SigInt, BusSpeaks, FinishBegins, FinishEnds, Exits, output
    <3>2. lines \in Seq(Answer) BY <1>0 DEF DetectorTypeOK
    <3>3. Append(lines, "unknown") \in Seq(Answer) BY <3>2, <1>1, AppendProperties
    <3> QED BY <3>1, <3>2, <3>3, Zenon
  <2>4. DetectorTypeOK' BY <2>1, <2>2, <2>3, <1>0 DEF DetectorTypeOK
  <2>5. FramesFit' BY <2>1, <1>0, FitStands
  <2> QED BY <2>4, <2>5
<1>13. CASE Killed
  <2>1. DetectorTypeOK' BY <1>13, <1>0 DEF Killed, DetectorRest, box, judging, output, options, DetectorTypeOK
  <2>2. UNCHANGED <<looked, seeing, frame>> /\ (thread' = "judging" => thread = "judging")
    BY <1>13 DEF Killed, DetectorRest, box, judging, output, options
  <2>3. FramesFit' BY <2>2, <1>0, FitStands
  <2> QED BY <2>1, <2>3
<1>14. CASE Tick
  <2>1. UNCHANGED <<ring, known, faces, main, code, thread, stopping, frame, seeing, hits, judged,
                    looked, finished, saying, lines>>
    BY <1>14 DEF Tick, box, output, options
  <2>2. left' \in 0 .. Window BY <1>14, <1>0, DetectorAssumption DEF Tick, Sooner, DetectorTypeOK
  <2>3. joining' \in {0, 1, Nothing} BY <1>14, <1>0, DetectorAssumption DEF Tick, Sooner, DetectorTypeOK
  <2>4. settled' \in (0 .. Settle) \cup {Nothing}
    BY <1>14, <1>0, DetectorAssumption DEF Tick, DetectorTypeOK
  <2>5. DetectorTypeOK' BY <2>1, <2>2, <2>3, <2>4, <1>0 DEF DetectorTypeOK
  <2>6. FramesFit' BY <2>1, <1>0, FitStands
  <2> QED BY <2>5, <2>6
<1>15. CASE UNCHANGED detectorVars
  <2>1. DetectorTypeOK' BY <1>15, <1>0 DEF detectorVars, box, judging, output, options, DetectorTypeOK
  <2>2. UNCHANGED <<looked, seeing, frame>> /\ (thread' = "judging" => thread = "judging")
    BY <1>15 DEF detectorVars, box, judging, output, options
  <2>3. FramesFit' BY <2>2, <1>0, FitStands
  <2> QED BY <2>1, <2>3
<1> QED BY <1>2, <1>3, <1>4, <1>5, <1>6, <1>7, <1>8, <1>9, <1>10, <1>11, <1>12, <1>13, <1>14,
           <1>15, Zenon DEF DetectorNext

\* A claim by a thread that has none pending keeps the lock's promise.
LEMMA ClaimKeepsSpoken ==
  ASSUME Spoken, finished \in BOOLEAN, NEW verdict \in Answer, Claim(verdict),
         thread # "saying", main' = main
  PROVE  Spoken'
<1>1. saying = Nothing BY DEF Spoken
<1>2. CASE finished
  BY <1>1, <1>2 DEF Claim, Spoken
<1>3. CASE ~ finished
  BY <1>1, <1>3, DetectorAssumption DEF Claim, Spoken
<1> QED BY <1>2, <1>3

\* Whoever speaks first, one line is spoken, and before the exit.
LEMMA SpokenKept == IInv /\ [DetectorNext]_detectorVars => Spoken'
<1> SUFFICES ASSUME IInv, [DetectorNext]_detectorVars PROVE Spoken'
  OBVIOUS
<1>0. DetectorTypeOK /\ Spoken /\ finished \in BOOLEAN /\ lines \in Seq(Answer) BY DEF IInv, DetectorTypeOK
<1>1. /\ "person" \in Answer /\ "unknown" \in Answer /\ Conclusion \in Answer
  BY DEF Answer, Conclusion
<1>2. ASSUME NEW verdict \in Answer, Claim(verdict), main' = main,
             thread \in {"asking", "loading", "waiting", "judging", "looking"}
      PROVE  Spoken'
  BY <1>0, <1>2, ClaimKeepsSpoken
<1>3. ASSUME UNCHANGED <<finished, saying, lines>>, main' = main,
             thread' = thread \/ {thread, thread'} \cap {"saying", "unstarted"} = {}
      PROVE  Spoken'
  BY <1>0, <1>3 DEF Spoken
<1>4. CASE Asks
  <2>1. thread = "asking" /\ main' = main BY <1>4 DEF Asks, Working, OthersRest
  <2>2. Claim("person") \/ (thread' = "loading" /\ UNCHANGED <<finished, saying, lines>>)
    BY <1>4 DEF Asks, output
  <2> QED BY <2>1, <2>2, <1>1, <1>2, <1>3
<1>5. CASE ModelLoads
  BY <1>5, <1>3 DEF ModelLoads, Working, output, OthersRest
<1>6. CASE Breaks
  BY <1>6, <1>1, <1>2 DEF Breaks, OthersRest
<1>7. CASE Takes
  <2>1. thread = "waiting" /\ main' = main BY <1>7 DEF Takes, Working, OthersRest
  <2>2. \/ \E verdict \in Answer : Claim(verdict)
        \/ thread' = "judging" /\ UNCHANGED <<finished, saying, lines>>
    BY <1>7, <1>1, Zenon DEF Takes, output
  <2> QED BY <2>1, <2>2, <1>2, <1>3
<1>8. CASE Judges
  <2>1. thread = "judging" /\ main' = main BY <1>8 DEF Judges, Working, OthersRest
  <2>2. Claim("person") \/ (thread' \in {"looking", "waiting"} /\ UNCHANGED <<finished, saying, lines>>)
    BY <1>8 DEF Judges, JudgeMotion, output
  <2> QED BY <2>1, <2>2, <1>1, <1>2, <1>3
<1>9. CASE Refreshes
  BY <1>9, <1>3 DEF Refreshes, output, OthersRest
<1>10. CASE LookEnds
  BY <1>10, <1>1, <1>2 DEF LookEnds, Working, OthersRest
<1>11. CASE Writes
  <2>1. /\ finished' = finished /\ saying' = Nothing /\ thread' = "ended" /\ main' = main
        /\ lines' = Append(lines, saying)
    BY <1>11 DEF Writes
  <2>2. saying # Nothing /\ finished /\ lines = <<>> BY <1>11, <1>0 DEF Writes, Spoken
  <2>3. Len(lines') = 1 BY <2>1, <2>2
  <2> QED BY <2>1, <2>2, <2>3, <1>0 DEF Spoken
<1>12. CASE FacesLoad
  BY <1>12, <1>3 DEF FacesLoad, output
<1>13. CASE Offers
  BY <1>13, <1>3 DEF Offers, output
<1>14. CASE FinishEnds
  <2>1. finished' /\ saying' = saying /\ thread' = thread /\ main' = "closing"
    BY <1>14 DEF FinishEnds, DetectorRest
  <2>2. CASE finished
    BY <2>1, <2>2, <1>14, <1>0 DEF FinishEnds, Spoken
  <2>3. CASE ~ finished
    <3>1. lines' = <<"unknown">> BY <2>3, <1>14, <1>0 DEF FinishEnds, Spoken
    <3> QED BY <2>1, <2>3, <3>1, <1>0 DEF Spoken
  <2> QED BY <2>2, <2>3
<1>15. CASE Plays \/ SigInt \/ BusSpeaks \/ FinishBegins \/ Exits \/ Killed
  <2>1. UNCHANGED <<finished, saying, lines, thread>>
    BY <1>15 DEF Plays, SigInt, BusSpeaks, FinishBegins, Exits, Killed, output, DetectorRest
  <2>2. main' \in {"closing", "exited"} => finished
    BY <1>15, <1>0 DEF Plays, SigInt, BusSpeaks, FinishBegins, Exits, Killed, Spoken
  <2> QED BY <2>1, <2>2, <1>0 DEF Spoken
<1>16. CASE Tick
  BY <1>16, <1>3 DEF Tick, output
<1>17. CASE UNCHANGED detectorVars
  BY <1>17, <1>3 DEF detectorVars, output
<1> QED BY <1>4, <1>5, <1>6, <1>7, <1>8, <1>9, <1>10, <1>11, <1>12, <1>13, <1>14, <1>15, <1>16,
           <1>17, Zenon DEF DetectorNext, Main

AtWork == {"asking", "loading", "waiting", "judging", "looking"}

\* The main thread's own line asks for no frame.
LEMMA UnknownEarned ==
  ASSUME NEW written \in {<<>>, <<"unknown">>}, NEW rung, NEW seen
  PROVE  \A i \in 1 .. Len(written) : Earned(written[i], rung, seen)
<1>1. CASE written = <<>> BY <1>1
<1>2. CASE written = <<"unknown">>
  <2>1. Len(written) = 1 /\ written[1] = "unknown" BY <1>2
  <2> QED BY <2>1 DEF Earned
<1> QED BY <1>1, <1>2

\* A verdict that is earned when it is claimed stays so.
LEMMA ClaimKeepsEarned ==
  ASSUME Undecided, thread \in AtWork, ring' = ring, NEW verdict \in Answer,
         Earned(verdict, ring, looked'), Claim(verdict)
  PROVE  Undecided' /\ AllEarned'
<1>1. saying = Nothing /\ lines \in {<<>>, <<"unknown">>} BY DEF Undecided, AtWork
<1>2. thread' \in {"saying", "ended"} /\ lines' = lines /\ (saying' = Nothing \/ saying' = verdict)
  BY <1>1 DEF Claim
<1>3. Undecided' BY <1>2 DEF Undecided
<1>4. \A i \in 1 .. Len(lines') : Earned(lines'[i], ring', looked')
  BY <1>1, <1>2, UnknownEarned, Zenon
<1>5. saying' # Nothing => Earned(saying', ring', looked') BY <1>2, Zenon
<1> QED BY <1>3, <1>4, <1>5, Zenon DEF AllEarned

\* A step that sees and says nothing.
LEMMA NothingSaid ==
  ASSUME Undecided, AllEarned, UNCHANGED <<ring, looked, saying, lines>>,
         \/ thread' = thread
         \/ {thread, thread'} \subseteq {"asking", "loading", "waiting", "judging"}
         \/ thread \in AtWork /\ thread' = "looking" /\ ring
  PROVE  Undecided' /\ AllEarned'
<1>1. ring' = ring /\ looked' = looked /\ saying' = saying /\ lines' = lines OBVIOUS
<1>2. AllEarned' BY <1>1, Zenon DEF AllEarned
<1>3. Convincing(looked') = Convincing(looked) BY <1>1, Zenon
<1>4. Undecided' BY <1>1, <1>3 DEF Undecided, AtWork
<1> QED BY <1>2, <1>4

\* A frame of a motion, held against the threshold.
LEMMA JudgesKeepsEarned ==
  ASSUME IInv, Judges
  PROVE  WindowKept' /\ Undecided' /\ AllEarned'
<1>0. DetectorTypeOK /\ Undecided /\ AllEarned /\ WindowKept BY DEF IInv
<1>1. thread = "judging" /\ seeing \in Shown /\ ring' = ring
  BY DEF Judges, Working, IInv, FramesFit, DetectorTypeOK, OthersRest, options
<1>2. /\ hits \in Seq(Shown) /\ looked \in Seq(Shown) /\ Newest(hits, looked)
      /\ ~ Convincing(looked)
  BY <1>0, <1>1 DEF DetectorTypeOK, WindowKept, Undecided
<1>3. CASE /\ hits' = hits /\ judged' = judged /\ looked' = looked
           /\ saying' = saying /\ lines' = lines
           /\ thread' = "waiting" \/ (thread' = "looking" /\ ring)
  <2>1. WindowKept' BY <1>3, <1>0 DEF WindowKept, Newest
  <2>2. Undecided' /\ AllEarned' BY <1>3, <1>1, <1>0, NothingSaid DEF AtWork
  <2> QED BY <2>1, <2>2
<1>4. CASE /\ judged' = judged + 1
           /\ hits' = Recent(Append(hits, seeing))
           /\ looked' = Append(looked, seeing)
           /\ \/ Hits(hits') >= HitsNeeded /\ thread' = "looking" /\ UNCHANGED <<saying, lines>>
              \/ Hits(hits') >= HitsNeeded /\ Claim("person")
              \/ Hits(hits') < HitsNeeded /\ thread' = "waiting" /\ UNCHANGED <<saying, lines>>
  <2>1. Newest(hits', looked') /\ hits' \in Seq(Shown) BY <1>4, <1>1, <1>2, NewestKept
  <2>2. WindowKept'
    <3>1. Len(looked') = Len(looked) + 1 BY <1>4, <1>1, <1>2
    <3> QED BY <2>1, <3>1, <1>4, <1>0 DEF WindowKept
  <2>3. Convincing(looked') <=> Hits(hits') >= HitsNeeded BY <1>4, <1>1, <1>2, NewPair
  <2>4. CASE Hits(hits') >= HitsNeeded /\ Claim("person")
    <3>1. Earned("person", ring, looked') BY <2>3, <2>4 DEF Earned
    <3> QED BY <2>2, <2>4, <3>1, <1>0, <1>1, ClaimKeepsEarned DEF AtWork, Answer
  <2>5. CASE /\ saying' = saying /\ lines' = lines
             /\ \/ Hits(hits') >= HitsNeeded /\ thread' = "looking"
                \/ Hits(hits') < HitsNeeded /\ thread' = "waiting"
    <3>1. saying = Nothing /\ lines \in {<<>>, <<"unknown">>} BY <1>0, <1>1 DEF Undecided
    <3>2. saying' = Nothing /\ lines' = lines BY <2>5, <3>1
    <3>3. \A i \in 1 .. Len(lines') : Earned(lines'[i], ring', looked')
      BY <3>1, <3>2, UnknownEarned, Zenon
    <3>4. AllEarned' BY <3>2, <3>3, Zenon DEF AllEarned
    <3>5. Hits(hits') \in Nat
      <4>1. Len(hits') \in Nat /\ DOMAIN hits' = 1 .. Len(hits') BY <2>1
      <4>2. IsFiniteSet(DOMAIN hits') BY <4>1, FS_Interval
      <4>3. IsFiniteSet({i \in DOMAIN hits' : hits'[i] = "person"}) BY <4>2, FS_Subset
      <4> QED BY <4>3, FS_CardinalityType DEF Hits
    <3>6. thread' = "waiting" => ~ Convincing(looked')
      BY <2>3, <2>5, <3>5 DEF HitsNeeded
    <3>7. thread' = "looking" => Convincing(looked') BY <2>3, <2>5
    <3>8. Undecided' BY <2>5, <3>1, <3>2, <3>6, <3>7 DEF Undecided
    <3> QED BY <2>2, <3>4, <3>8
  <2>6. \/ Hits(hits') >= HitsNeeded /\ Claim("person")
        \/ /\ saying' = saying /\ lines' = lines
           /\ \/ Hits(hits') >= HitsNeeded /\ thread' = "looking"
              \/ Hits(hits') < HitsNeeded /\ thread' = "waiting"
    BY <1>4
  <2> QED BY <2>4, <2>5, <2>6, Zenon
<1>5. CASE ring
  BY <1>3, <1>5 DEF Judges, judging, output
<1>6. CASE ~ ring
  <2>1. JudgeMotion BY <1>6 DEF Judges
  <2>2. CASE \/ (IF settled = Nothing THEN 0 ELSE settled) < Settle
             \/ seeing = "dark"
    <3>1. thread' = "waiting" /\ UNCHANGED <<hits, judged, looked, finished, saying, lines>>
      BY <2>1, <2>2 DEF JudgeMotion, output
    <3> QED BY <3>1, <1>3
  <2>3. CASE ~ (\/ (IF settled = Nothing THEN 0 ELSE settled) < Settle
                \/ seeing = "dark")
    <3>1. judged' = judged + 1 /\ hits' = Recent(Append(hits, seeing)) /\ looked' = Append(looked, seeing)
      BY <2>1, <2>3, Zenon DEF JudgeMotion
    <3>2. \/ Hits(hits') >= HitsNeeded /\ thread' = "looking" /\ UNCHANGED output
          \/ Hits(hits') >= HitsNeeded /\ Claim("person")
          \/ Hits(hits') < HitsNeeded /\ thread' = "waiting" /\ UNCHANGED output
      BY <2>1, <2>3, <3>1, Zenon DEF JudgeMotion
    <3> QED BY <3>1, <3>2, <1>4 DEF output
  <2> QED BY <2>2, <2>3
<1> QED BY <1>5, <1>6

\* A verdict is earned when it is claimed, and everything after it is.
LEMMA EarnedKept == IInv /\ [DetectorNext]_detectorVars => WindowKept' /\ Undecided' /\ AllEarned'
<1> SUFFICES ASSUME IInv, [DetectorNext]_detectorVars, ~ Judges
             PROVE  WindowKept' /\ Undecided' /\ AllEarned'
  BY JudgesKeepsEarned
<1>0. DetectorTypeOK /\ Spoken /\ Undecided /\ AllEarned /\ WindowKept BY DEF IInv
<1>1. ring' = ring /\ hits' = hits /\ judged' = judged /\ looked' = looked BY LookedStands
<1>2. WindowKept' BY <1>0, <1>1, Zenon DEF WindowKept
<1>3. /\ "person" \in Answer /\ "unknown" \in Answer /\ Conclusion \in Answer
      /\ Earned("unknown", ring, looked')
  BY DEF Answer, Conclusion, Earned
<1>4. ASSUME NEW verdict \in Answer, Claim(verdict), thread \in AtWork,
             Earned(verdict, ring, looked')
      PROVE  Undecided' /\ AllEarned'
  BY <1>0, <1>1, <1>4, ClaimKeepsEarned
<1>5. ASSUME saying' = saying, lines' = lines,
             \/ thread' = thread
             \/ {thread, thread'} \subseteq {"asking", "loading", "waiting", "judging"}
      PROVE  Undecided' /\ AllEarned'
  BY <1>0, <1>1, <1>5, NothingSaid
<1>6. CASE Asks
  <2>1. thread = "asking" BY <1>6 DEF Asks, Working
  <2>2. CASE ring /\ Claim("person")
    <3>1. Earned("person", ring, looked') BY <2>2 DEF Earned
    <3> QED BY <2>1, <2>2, <3>1, <1>2, <1>3, <1>4 DEF AtWork
  <2>3. CASE thread' = "loading" /\ saying' = saying /\ lines' = lines
    BY <2>1, <2>3, <1>2, <1>5
  <2> QED BY <1>6, <2>2, <2>3 DEF Asks, output
<1>7. CASE ModelLoads
  BY <1>7, <1>2, <1>5 DEF ModelLoads, Working, output
<1>8. CASE Breaks
  BY <1>8, <1>2, <1>3, <1>4 DEF Breaks, AtWork
<1>9. CASE Takes
  <2>1. thread = "waiting" BY <1>9 DEF Takes, Working
  <2>2. Earned(Conclusion, ring, looked') \/ ring
    BY <2>1, <1>0, <1>1 DEF Earned, Conclusion, Undecided, WindowKept
  <2>3. \/ Claim("unknown")
        \/ ~ ring /\ Claim(Conclusion)
        \/ thread' = "judging" /\ saying' = saying /\ lines' = lines
    BY <1>9 DEF Takes, output
  <2>4. CASE Claim("unknown") BY <2>1, <2>4, <1>2, <1>3, <1>4 DEF AtWork
  <2>5. CASE ~ ring /\ Claim(Conclusion) BY <2>1, <2>2, <2>5, <1>2, <1>3, <1>4 DEF AtWork
  <2>6. CASE thread' = "judging" /\ saying' = saying /\ lines' = lines
    BY <2>1, <2>6, <1>2, <1>5
  <2> QED BY <2>3, <2>4, <2>5, <2>6
<1>10. CASE Refreshes
  BY <1>10, <1>2, <1>5 DEF Refreshes, output
<1>11. CASE LookEnds
  <2>1. thread = "looking" /\ Claim("person") BY <1>11 DEF LookEnds, Working
  <2>2. Earned("person", ring, looked') BY <2>1, <1>0, <1>1 DEF Earned, Undecided
  <2> QED BY <2>1, <2>2, <1>2, <1>3, <1>4 DEF AtWork
<1>12. CASE Writes
  <2>1. thread' = "ended" /\ saying' = Nothing /\ lines' = Append(lines, saying) BY <1>12 DEF Writes
  <2>2. saying # Nothing /\ lines = <<>> BY <1>12, <1>0 DEF Writes, Spoken
  <2>3. Earned(saying, ring, looked) BY <2>2, <1>0 DEF AllEarned
  <2>4. Len(lines') = 1 /\ lines'[1] = saying BY <2>1, <2>2
  <2>5. \A i \in 1 .. Len(lines') : lines'[i] = saying BY <2>4
  <2>6. AllEarned' BY <2>1, <2>3, <2>5, <1>1, Zenon DEF AllEarned
  <2>7. Undecided' BY <2>1 DEF Undecided
  <2> QED BY <2>6, <2>7, <1>2
<1>13. CASE FacesLoad
  BY <1>13, <1>2, <1>5 DEF FacesLoad, output
<1>14. CASE Offers
  BY <1>14, <1>2, <1>5 DEF Offers, output
<1>15. CASE FinishEnds
  <2>1. thread' = thread /\ saying' = saying BY <1>15 DEF FinishEnds, DetectorRest
  <2>2. CASE finished BY <2>1, <2>2, <1>15, <1>2, <1>5 DEF FinishEnds
  <2>3. CASE ~ finished
    <3>1. lines = <<>> /\ saying = Nothing /\ lines' = <<"unknown">>
      BY <2>3, <1>15, <1>0 DEF FinishEnds, Spoken
    <3>2. \A i \in 1 .. Len(lines') : Earned(lines'[i], ring', looked') BY <3>1, UnknownEarned
    <3>3. AllEarned' BY <2>1, <3>1, <3>2, Zenon DEF AllEarned
    <3>4. Undecided' BY <2>1, <3>1, <1>0, <1>1 DEF Undecided
    <3> QED BY <3>3, <3>4, <1>2
  <2> QED BY <2>2, <2>3
<1>16. CASE Plays \/ SigInt \/ BusSpeaks \/ FinishBegins \/ Exits \/ Killed
  BY <1>16, <1>2, <1>5 DEF Plays, SigInt, BusSpeaks, FinishBegins, Exits, Killed, output,
                          DetectorRest
<1>17. CASE Tick
  BY <1>17, <1>2, <1>5 DEF Tick, output
<1>18. CASE UNCHANGED detectorVars
  BY <1>18, <1>2, <1>5 DEF detectorVars, output
<1> QED BY <1>6, <1>7, <1>8, <1>9, <1>10, <1>11, <1>12, <1>13, <1>14, <1>15, <1>16, <1>17, <1>18,
           Zenon DEF DetectorNext, Main

-----------------------------------------------------------------------------
(* Theorems.                                                               *)

\* The inductive invariant holds throughout.
THEOREM DetectorInvariance == DetectorSpec => []IInv
<1>1. DetectorInit => IInv BY InitEstablishes
<1>2. IInv /\ [DetectorNext]_detectorVars => IInv'
  BY TypesKept, SpokenKept, EarnedKept, Zenon DEF IInv
<1> QED BY <1>1, <1>2, PTL DEF DetectorSpec

\* Every variable of record-clip.py's detector keeps its type, whatever the
\* window, the settling time and the number of frames.
THEOREM DetectorTypeCorrect == DetectorSpec => []DetectorTypeOK
<1>1. IInv => DetectorTypeOK BY DEF IInv
<1> QED BY <1>1, DetectorInvariance, PTL

\* Detector.say and Detector.finish: whichever thread speaks first and whatever
\* hangs, the daemon gets one verdict at the most, and has it - or is being
\* given it - when the recording exits.
THEOREM OneVerdict == DetectorSpec => []OneLine
<1>1. ASSUME IInv PROVE OneLine
  <2>1. lines = <<>> \/ Len(lines) = 1 BY <1>1 DEF IInv, Spoken
  <2>2. Len(lines) <= 1
    <3>1. CASE lines = <<>>
      <4>1. Len(<<>>) = 0 OBVIOUS
      <4> QED BY <3>1, <4>1
    <3>2. CASE Len(lines) = 1 BY <3>2
    <3> QED BY <2>1, <3>1, <3>2
  <2>3. main = "exited" => saying # Nothing \/ Len(lines) = 1 BY <1>1 DEF IInv, Spoken
  <2>4. Len(lines) = 1 => lines # <<>> OBVIOUS
  <2> QED BY <2>2, <2>3, <2>4 DEF OneLine
<1> QED BY <1>1, DetectorInvariance, PTL

\* Detector.detect and conclude: an alert is silenced only after enough frames
\* without two persons in three, and a person is one that some three showed,
\* for any threshold on frames and any order of frames and deadlines.
THEOREM SilenceIsEarned == DetectorSpec => []VerdictEarned
<1>1. IInv => VerdictEarned
  BY DEF IInv, AllEarned, Earned, VerdictEarned
<1> QED BY <1>1, DetectorInvariance, PTL

-----------------------------------------------------------------------------
(* The recorder (GstRecorder).                                             *)

\* The core, the recorder and its child agree on whether there is a recording.
OneJob ==
  /\ job = None <=> phase = "Idle"
  /\ job = None <=> child = "none"
  /\ core = "Idle" <=> job = None /\ refused = None
  /\ refused # None => job = None

\* The detector's pipe is open for as long as a detector may still write to
\* it, and what is left unread in it is behind an open pipe.
Listens ==
  /\ listening => job # None /\ job.looking
  /\ job # None /\ job.looking /\ ~ listening => Ended
  /\ ~ listening => pipe = <<>>

\* An exit the loop has collected is an exit that took place.
Collected == "exit" \in batch => Ended

\* A child that runs is a child whose time is being taken.
TimeTaken == job # None => Ended \/ timer # None

RecorderInv == TypeOK /\ OneJob /\ Listens /\ Collected /\ TimeTaken

\* It holds before anything has been recorded.
LEMMA RecorderStarts == Init => RecorderInv
<1> SUFFICES ASSUME Init PROVE RecorderInv
  OBVIOUS
<1>1. <<>> \in Seq(Word)
  BY EmptySeq
<1>2. 0 \in 0 .. Lines
  BY RecorderAssumption
<1>3. TypeOK
  BY <1>1, <1>2 DEF Init, TypeOK
<1> QED BY <1>3 DEF Init, RecorderInv, OneJob, Listens, Collected, TimeTaken

\* Every inhabited set of positions has a first one.
LEMMA LeastPosition ==
  ASSUME NEW T \in SUBSET Nat, T # {}
  PROVE  \E x \in T : \A y \in T : x <= y
<1>1. PICK x \in T : \A y \in T : ~ (<<y, x>> \in OpToRel(<, Nat))
  BY WFMin, NatLessThanWellFounded
<1>2. \A y \in T : ~ (y < x)
  BY <1>1 DEF OpToRel
<1> QED  BY <1>2

\* The first answer is an answer, and none came before it.
LEMMA FirstAnswer ==
  ASSUME NEW words \in Seq(Word), Answers(words) # {}
  PROVE  First(Answers(words)) \in Answers(words)
<1>1. Answers(words) \in SUBSET Nat
  BY DEF Answers
<1>2. \E i \in Answers(words) : \A j \in Answers(words) : i <= j
  BY <1>1, LeastPosition
<1> QED BY <1>2, Zenon DEF First

\* Everything there is to hear is one verdict the core knows, if any.
LEMMA HeardIsVerdict ==
  ASSUME NEW words \in Seq(Word)
  PROVE  \/ Heard(words) = <<>>
         \/ /\ ~ answered
            /\ \E verdict \in {"person", "noPerson", "unknown"} :
                 Heard(words) = <<Detected(job.id, verdict)>>
<1>1. CASE answered \/ Answers(words) = {}
  BY <1>1 DEF Heard
<1>2. CASE ~ answered /\ Answers(words) # {}
  <2>1. First(Answers(words)) \in Answers(words)
    BY <1>2, FirstAnswer
  <2> DEFINE word == words[First(Answers(words))]
  <2>2. word \in Word \ {"noise"}
    BY <2>1 DEF Answers
  <2>3. Verdict(word) \in {"person", "noPerson", "unknown"}
    BY <2>2 DEF Verdict, Word
  <2>4. Heard(words) = <<Detected(job.id, Verdict(word))>>
    BY <1>2 DEF Heard
  <2> HIDE DEF word
  <2> QED BY <1>2, <2>3, <2>4
<1> QED BY <1>1, <1>2

\* What a command to stop does to the process, if it does anything.
LEMMA StopTypes ==
  ASSUME TypeOK, BeginStop
  PROVE  /\ phase' \in {"Idle", "Recording", "Stopping"}
         /\ timer' \in (0 .. Length) \cup (0 .. Grace) \cup {None}
         /\ child' \in {"none", "filming", "flushing", "clean", "failed"}
         /\ phase' = "Idle" <=> phase = "Idle"
         /\ child' = "none" <=> child = "none"
         /\ Ended' <=> Ended
         /\ timer' = None => timer = None
BY RecorderAssumption, RecorderAbsence DEF TypeOK, BeginStop, Interrupted, Ended

\* No step leaves the recorder with a job nobody ends.
LEMMA RecorderStep == RecorderInv /\ [Next]_vars => RecorderInv'
<1> SUFFICES ASSUME RecorderInv, [Next]_vars PROVE RecorderInv'
  OBVIOUS
<1> USE RecorderAssumption, RecorderAbsence DEF RecorderInv
<1>0. <<>> \in Seq(Word)
  BY EmptySeq
<1>1. CASE ChildEnds
  BY <1>1 DEF ChildEnds, TypeOK, OneJob, Listens, Collected, TimeTaken, Ended
<1>2. CASE DetectorWrites
  <2>1. TypeOK'
    BY <1>2 DEF DetectorWrites, TypeOK
  <2>2. listening
    BY <1>2 DEF DetectorWrites, OneJob, Listens, Ended
  <2> QED BY <2>1, <2>2, <1>2 DEF DetectorWrites, OneJob, Listens, Collected, TimeTaken, Ended
<1>3. CASE Start
  <2>1. PICK id \in Id, looking \in BOOLEAN :
          job' = [id |-> id, looking |-> looking] /\ listening' = looking
    BY <1>3 DEF Start
  <2>2. job' \in [id : Id, looking : BOOLEAN] /\ job' # None
    BY <2>1
  <2>3. TypeOK'
    <3>1. 0 \in 0 .. Lines /\ Length \in 0 .. Length
      OBVIOUS
    <3> QED BY <3>1, <1>0, <1>3, <2>1, <2>2 DEF Start, Commanded, Turn, TypeOK
  <2>4. OneJob'
    BY <1>3, <2>2 DEF Start, Commanded, Settled, TypeOK, OneJob
  <2>5. Listens'
    BY <1>3, <2>1, <2>2 DEF Start, Listens
  <2>6. "exit" \notin batch'
    BY <1>3 DEF Start, Commanded, Turn, Collected, Ended, OneJob
  <2>7. timer' # None
    BY <1>3 DEF Start
  <2> QED BY <2>3, <2>4, <2>5, <2>6, <2>7 DEF Collected, TimeTaken
<1>4. CASE StartFails
  <2>1. TypeOK'
    BY <1>4 DEF StartFails, Commanded, Turn, TypeOK
  <2>2. OneJob'
    BY <1>4 DEF StartFails, Commanded, Settled, TypeOK, OneJob
  <2> QED BY <2>1, <2>2, <1>4
          DEF StartFails, Commanded, Turn, Listens, Collected, TimeTaken, Ended
<1>5. CASE Stop
  <2>1. BeginStop
    BY <1>5 DEF Stop
  <2>2. TypeOK'
    BY <1>5, <2>1, StopTypes DEF Stop, Commanded, Turn, TypeOK
  <2>3. OneJob'
    BY <1>5, <2>1, StopTypes DEF Stop, OneJob
  <2>4. Listens' /\ Collected' /\ TimeTaken'
    BY <1>5, <2>1, StopTypes DEF Stop, Commanded, Turn, Listens, Collected, TimeTaken
  <2> QED BY <2>2, <2>3, <2>4
<1>6. CASE Elsewhere
  BY <1>6 DEF Elsewhere, Commanded, Turn, TypeOK, OneJob, Listens, Collected, TimeTaken, Ended
<1>7. CASE ReportRefusal
  BY <1>7 DEF ReportRefusal, TypeOK, OneJob, Listens, Collected, TimeTaken, Ended
<1>8. CASE OnTimer
  <2>1. CASE phase = "Recording" /\ BeginStop /\ UNCHANGED killed
    BY <1>8, <2>1, StopTypes
       DEF OnTimer, Turn, TypeOK, OneJob, Listens, Collected, TimeTaken
  <2>2. CASE /\ GraceOver
             /\ killed' = TRUE
             /\ child' = Slain(child)
             /\ timer' = Drained(timer, None)
             /\ UNCHANGED phase
    BY <1>8, <2>2 DEF OnTimer, Turn, GraceOver, Slain, Drained,
                      TypeOK, OneJob, Listens, Collected, TimeTaken, Ended
  <2>3. CASE /\ phase # "Recording" /\ ~ GraceOver
             /\ timer' = Drained(timer, None)
             /\ UNCHANGED <<phase, killed, child>>
    BY <1>8, <2>3 DEF OnTimer, Turn, GraceOver, Drained,
                      TypeOK, OneJob, Listens, Collected, TimeTaken, Ended
  <2> QED BY <1>8, <2>1, <2>2, <2>3 DEF OnTimer
<1>9. CASE OnDetector
  <2>1. CASE ~ listening
    BY <1>9, <2>1 DEF OnDetector, Turn, TypeOK, OneJob, Listens, Collected, TimeTaken, Ended
  <2>2. CASE listening
    <3>1. /\ job # None
          /\ core # "Idle"
      BY <2>2 DEF OneJob, Listens
    <3>2. /\ pipe' = <<>>
          /\ listening' = ~ Ended
          /\ answered' \in BOOLEAN
          /\ batch' = batch \ {"detector"}
          /\ UNCHANGED <<job, killed, said, refused>>
      BY <1>9, <2>2 DEF OnDetector, Turn
    <3>3. \/ core' = "Stopping" /\ BeginStop
          \/ UNCHANGED <<core, phase, child, timer>>
      BY <1>9, <2>2 DEF OnDetector
    <3>4. TypeOK'
      BY <1>0, <3>2, <3>3, StopTypes DEF TypeOK
    <3>5. OneJob'
      BY <3>1, <3>2, <3>3, StopTypes DEF OneJob
    <3>6. Ended' <=> Ended
      BY <3>3, StopTypes DEF Ended
    <3>7. Listens' /\ Collected'
      BY <2>2, <3>1, <3>2, <3>6 DEF Listens, Collected
    <3>8. TimeTaken'
      BY <3>2, <3>3, <3>6, StopTypes DEF TimeTaken
    <3> QED BY <3>4, <3>5, <3>7, <3>8
  <2> QED BY <2>1, <2>2
<1>10. CASE OnExit
  <2>1. TypeOK'
    BY <1>0, <1>10 DEF OnExit, Turn, TypeOK
  <2> QED BY <2>1, <1>10 DEF OnExit, Settled, Turn, OneJob, Listens, Collected, TimeTaken, Ended
<1>11. CASE Wake
  <2>1. /\ batch' \subseteq {"timer", "exit", "detector", "other"}
        /\ "exit" \in batch' => Ended
    BY <1>11 DEF Wake, Collect, Readable
  <2> QED BY <2>1, <1>11
          DEF Wake, Descriptor, TypeOK, OneJob, Listens, Collected, TimeTaken, Ended
<1>12. CASE Wait
  <2>1. timer' \in (0 .. Length) \cup (0 .. Grace) /\ timer' # None
    BY <1>12 DEF Wait, TypeOK
  <2> QED BY <2>1, <1>12 DEF Wait, TypeOK, OneJob, Listens, Collected, TimeTaken, Ended
<1>13. CASE UNCHANGED vars
  BY <1>13 DEF vars, TypeOK, OneJob, Listens, Collected, TimeTaken, Ended
<1> QED BY <1>1, <1>2, <1>3, <1>4, <1>5, <1>6, <1>7, <1>8, <1>9, <1>10, <1>11, <1>12, <1>13
        DEF Next

\* The inductive invariant holds throughout.
THEOREM RecorderInvariance == Spec => []RecorderInv
BY RecorderStarts, RecorderStep, PTL DEF Spec

\* Every variable of GstRecorder keeps its type, whatever the length of a clip,
\* its grace and the number of lines the detector writes.
THEOREM RecorderTypeCorrect == Spec => []TypeOK
<1>1. RecorderInv => TypeOK
  BY DEF RecorderInv
<1> QED BY <1>1, RecorderInvariance, PTL

\* GstRecorder::on_timer and begin_stop: a recording whose process has not
\* ended has its timer armed, so that no recorder is waited for without limit -
\* the safety half of RecordingEnds.
THEOREM AlwaysTimed == Spec => []TimeTaken
<1>1. RecorderInv => TimeTaken
  BY DEF RecorderInv
<1> QED BY <1>1, RecorderInvariance, PTL

\* Two reports of one step, in the order they are made.
LEMMA InOrder ==
  ASSUME NEW first, NEW second
  PROVE  <<first>> \o <<second>> = <<first, second>>
<1> DEFINE S == {first, second}
<1>1. <<first>> \in Seq(S) /\ <<second>> \in Seq(S) /\ <<first, second>> \in Seq(S)
  OBVIOUS
<1>2. /\ Len(<<first>>) = 1 /\ Len(<<second>>) = 1 /\ Len(<<first, second>>) = 2
      /\ <<first>>[1] = first /\ <<second>>[1] = second
      /\ <<first, second>>[1] = first /\ <<first, second>>[2] = second
  OBVIOUS
<1> DEFINE both == <<first>> \o <<second>>
<1>3. /\ both \in Seq(S) /\ Len(both) = 2
      /\ both[1] = first /\ both[2] = second
  BY <1>1, <1>2, ConcatProperties
<1> HIDE DEF both
<1>4. both = <<first, second>>
  BY <1>1, <1>2, <1>3, SeqEqual
<1> QED BY <1>4 DEF both

\* Only the exit of the process ends the phase.
LEMMA ExitEndsPhase ==
  ASSUME RecorderInv, [Next]_vars, phase # "Idle", phase' = "Idle"
  PROVE  OnExit
<1> USE DEF RecorderInv
<1>1. ~ (ChildEnds \/ DetectorWrites \/ Start \/ StartFails \/ Elsewhere \/ ReportRefusal
           \/ Wake \/ Wait)
  BY DEF ChildEnds, DetectorWrites, Start, StartFails, Elsewhere, ReportRefusal, Wake, Wait
<1>2. ~ Stop
  BY StopTypes DEF Stop
<1>3. ~ OnTimer
  BY StopTypes DEF OnTimer
<1>4. ~ OnDetector
  BY StopTypes DEF OnDetector
<1>5. ~ UNCHANGED vars
  BY DEF vars
<1> QED BY <1>1, <1>2, <1>3, <1>4, <1>5 DEF Next

\* GstRecorder::on_child_exit and read_detector: a verdict that was written
\* before the process ended is reported with its end and before it, whichever
\* of the two descriptors epoll reports first.
THEOREM LastWordsHeard == Spec => VerdictHeard
<1>1. ASSUME RecorderInv, [Next]_vars,
             phase # "Idle", phase' = "Idle",
             ~ answered,
             \E i \in 1 .. Len(pipe) : pipe[i] # "noise"
      PROVE  Len(told') = 2 /\ told'[1].what = "detected"
  <2>1. OnExit
    BY <1>1, ExitEndsPhase
  <2>2. pipe \in Seq(Word) /\ listening
    <3>1. pipe # <<>>
      BY <1>1
    <3> QED BY <3>1, <1>1 DEF RecorderInv, TypeOK, Listens
  <2>3. Answers(pipe) # {}
    BY <1>1 DEF Answers
  <2>4. PICK heard : LastWords = <<heard>> /\ heard.what = "detected"
    BY <1>1, <2>2, <2>3 DEF LastWords, Heard, Detected
  <2>5. PICK end : told' = LastWords \o <<end>>
    BY <2>1 DEF OnExit
  <2>6. told' = <<heard, end>>
    BY <2>4, <2>5, InOrder
  <2> QED BY <2>4, <2>6
<1>2. RecorderInv /\ [Next]_vars
        => [ /\ phase # "Idle" /\ phase' = "Idle"
             /\ ~ answered
             /\ \E i \in 1 .. Len(pipe) : pipe[i] # "noise"
             => Len(told') = 2 /\ told'[1].what = "detected" ]_vars
  BY <1>1
<1> QED BY <1>2, RecorderInvariance, PTL DEF Spec, VerdictHeard

\* What is left of a debt once its verdict has been given.
LEMMA Unlooked ==
  ASSUME NEW id, NEW r, NEW s,
         r = [id |-> id, looking |-> TRUE], s = [id |-> id, looking |-> FALSE]
  PROVE  s = [r EXCEPT !.looking = FALSE]
<1> DEFINE t == [r EXCEPT !.looking = FALSE]
           R == [id : {id}, looking : BOOLEAN]
<1>1. r \in R /\ s \in R
  OBVIOUS
<1>2. t \in R /\ t.id = id /\ t.looking = FALSE
  BY <1>1
<1>3. s.id = id /\ s.looking = FALSE
  OBVIOUS
<1>4. \A x, y \in R : x.id = y.id /\ x.looking = y.looking => x = y
  OBVIOUS
<1> QED BY <1>1, <1>2, <1>3, <1>4

\* Every step of the recorder is one the promise allows to what is owed.
LEMMA StepKeepsRecorderPromise ==
  RecorderInv /\ [Next]_vars => [Promise!Next]_<<Owed, told>>
<1> SUFFICES ASSUME RecorderInv, [Next]_vars
             PROVE  Promise!Next \/ UNCHANGED <<Owed, told>>
  OBVIOUS
<1> USE RecorderAbsence DEF RecorderInv, Promise!Next
<1>1. CASE \/ ChildEnds \/ DetectorWrites \/ Elsewhere \/ Wake \/ Wait \/ OnTimer
           \/ Stop
  <2>1. told' = <<>> /\ UNCHANGED <<refused, job, answered>>
    BY <1>1 DEF ChildEnds, DetectorWrites, Elsewhere, Wake, Wait, OnTimer, Stop, Commanded
  <2> QED BY <2>1 DEF Owed, Promise!Silence
<1>2. CASE Start
  <2>1. PICK id \in Id, looking \in BOOLEAN : job' = [id |-> id, looking |-> looking]
    BY <1>2 DEF Start
  <2>2. refused = None /\ refused' = None /\ job = None /\ answered' = FALSE /\ told' = <<>>
    BY <1>2 DEF Start, Commanded, Settled, OneJob
  <2>3. Owed = None
    BY <2>2 DEF Owed
  <2>4. Owed' = [id |-> id, looking |-> looking /\ ~ answered']
    BY <2>1, <2>2 DEF Owed
  <2>5. Owed' \in Promise!Job
    BY <2>4, <2>2 DEF Promise!Job
  <2> QED BY <2>2, <2>3, <2>5 DEF Promise!Start
<1>3. CASE StartFails
  <2>1. PICK id \in Id : refused' = id
    BY <1>3 DEF StartFails
  <2>2. refused = None /\ job = None /\ told' = <<>>
    BY <1>3 DEF StartFails, Commanded, Settled, OneJob
  <2>3. Owed = None /\ Owed' = [id |-> id, looking |-> FALSE]
    BY <2>1, <2>2 DEF Owed
  <2> QED BY <2>2, <2>3 DEF Promise!Start, Promise!Job
<1>4. CASE ReportRefusal
  <2>1. Owed = [id |-> refused, looking |-> FALSE] /\ Owed' = None
    BY <1>4 DEF ReportRefusal, Owed, OneJob
  <2>2. Owed # None
    <3>1. Owed \in [id : Id, looking : BOOLEAN]
      BY <1>4, <2>1 DEF ReportRefusal, TypeOK
    <3> QED BY <3>1
  <2>3. told' = <<Promise!Finished(refused, FALSE)>>
    BY <1>4 DEF ReportRefusal, Finished, Promise!Finished
  <2> QED BY <2>1, <2>2, <2>3 DEF Promise!End
<1>5. CASE OnDetector
  <2>1. UNCHANGED <<job, refused>>
    BY <1>5 DEF OnDetector
  <2>2. CASE told' = <<>> /\ (answered' <=> answered)
    BY <2>1, <2>2 DEF Owed, Promise!Silence
  <2>3. CASE ~ listening
    BY <2>2, <2>3, <1>5 DEF OnDetector
  <2>4. CASE listening
    <3>1. told' = Heard(pipe) /\ answered' = (answered \/ told' # <<>>) /\ pipe \in Seq(Word)
      BY <1>5, <2>4 DEF OnDetector, TypeOK
    <3>2. CASE Heard(pipe) = <<>>
      BY <3>1, <3>2, <2>2
    <3>3. ASSUME ~ answered,
                 NEW verdict \in {"person", "noPerson", "unknown"},
                 Heard(pipe) = <<Detected(job.id, verdict)>>
          PROVE  Promise!Speak
      <4>1. job # None /\ job.looking = TRUE /\ refused = None
        BY <2>4 DEF Listens, OneJob, TypeOK
      <4>2. answered' = TRUE
        <5>1. told' # <<>>
          BY <3>1, <3>3
        <5> QED BY <5>1, <3>1
      <4>3. Owed = [id |-> job.id, looking |-> TRUE]
        BY <4>1, <3>3 DEF Owed
      <4>4. Owed' = [id |-> job.id, looking |-> FALSE]
        BY <4>1, <4>2, <2>1 DEF Owed
      <4>5. Owed # None
        BY <4>1, <4>3 DEF TypeOK
      <4>6. told' = <<Promise!Detected(Owed.id, verdict)>>
        BY <3>1, <3>3, <4>3 DEF Detected, Promise!Detected
      <4>7. Owed' = [Owed EXCEPT !.looking = FALSE]
        BY <4>3, <4>4, Unlooked
      <4> QED BY <4>3, <4>5, <4>6, <4>7 DEF Promise!Speak
    <3> QED BY <3>1, <3>2, <3>3, HeardIsVerdict
  <2> QED BY <2>3, <2>4
<1>6. CASE OnExit
  <2>1. job # None /\ job \in [id : Id, looking : BOOLEAN] /\ refused = None
    BY <1>6 DEF OnExit, Turn, Settled, Collected, OneJob, Ended, TypeOK
  <2>2. Owed' = None
    BY <1>6, <2>1 DEF OnExit, Owed
  <2>3. Owed = [id |-> job.id, looking |-> job.looking /\ ~ answered]
    BY <2>1 DEF Owed
  <2>4. Owed # None /\ Owed.id = job.id
    <3>1. (job.looking /\ ~ answered) \in BOOLEAN
      OBVIOUS
    <3>2. Owed \in [id : Id, looking : BOOLEAN]
      BY <2>1, <2>3, <3>1
    <3> QED BY <2>3, <3>2
  <2>5. PICK ok \in BOOLEAN : told' = LastWords \o <<Promise!Finished(Owed.id, ok)>>
    <3>1. PICK plausible \in BOOLEAN :
            told' = LastWords \o
                    <<Finished(job.id, child = "clean" /\ ~ killed /\ plausible)>>
      BY <1>6 DEF OnExit
    <3>2. (child = "clean" /\ ~ killed /\ plausible) \in BOOLEAN
      OBVIOUS
    <3> QED BY <2>4, <3>1, <3>2 DEF Finished, Promise!Finished
  <2>6. CASE LastWords = <<>>
    BY <2>2, <2>4, <2>5, <2>6 DEF Promise!End
  <2>7. ASSUME listening, ~ answered,
               NEW verdict \in {"person", "noPerson", "unknown"},
               LastWords = <<Detected(job.id, verdict)>>
        PROVE  Promise!SpeakAndEnd
    <3>1. Owed.looking
      BY <2>3, <2>7 DEF Listens
    <3>2. told' = <<Promise!Detected(Owed.id, verdict), Promise!Finished(Owed.id, ok)>>
      BY <2>4, <2>5, <2>7, InOrder DEF Detected, Promise!Detected
    <3> QED BY <2>2, <2>4, <3>1, <3>2 DEF Promise!SpeakAndEnd
  <2>8. pipe \in Seq(Word)
    BY DEF TypeOK
  <2> QED BY <2>6, <2>7, <2>8, HeardIsVerdict DEF LastWords
<1>7. CASE UNCHANGED vars
  BY <1>7 DEF vars, Owed
<1> QED BY <1>1, <1>2, <1>3, <1>4, <1>5, <1>6, <1>7 DEF Next

\* GstRecorder does what io/gst_recorder.h promises of a recorder: every start
\* is answered by one end, after one verdict at the most, however the child,
\* its detector, the timers and the core's stops interleave.
THEOREM RecorderPromiseKept == Spec => PromiseKept
<1>1. Init => Promise!Init
  BY DEF Init, Owed, Promise!Init
<1> QED BY <1>1, StepKeepsRecorderPromise, RecorderInvariance, PTL
        DEF Spec, PromiseKept, Promise!Spec
=============================================================================
