------------------------------- MODULE Basics -------------------------------
(***************************************************************************)
(* What the daemon's modules share: event ids, the two kinds of event,     *)
(* time points and the retry backoff.                                      *)
(*                                                                         *)
(* The code stores absolute steady time points and compares them with the  *)
(* `now` that reaches Core::handle.  Only the comparisons can be observed, *)
(* so a deadline is modelled as the number of ticks still to go and a past *)
(* instant as its age.  A deadline that has been reached stays at 0 until  *)
(* somebody clears it: `now >= t` is exactly `t = 0`.  This keeps the      *)
(* state space finite without cutting behaviours off at a horizon.         *)
(***************************************************************************)
EXTENDS Integers, Sequences

CONSTANTS None,           \* an empty std::optional
          EventId,        \* ids handed out by the id source
          RetryInitial,   \* Policy::retry_backoff_initial
          RetryMax        \* Policy::retry_backoff_max

\* What config.cpp's validate() demands of the backoff.
ASSUME BasicsAssumption ==
  /\ None \notin Nat
  /\ RetryInitial \in Nat \ {0}
  /\ RetryMax \in Nat
  /\ RetryInitial <= RetryMax

Kind == {"motion", "ring"}

\* std::optional<TimePoint> for a deadline.
Timer == Nat \cup {None}

\* A deadline after one tick of time.
Closer(t) == IF t \in Nat \ {0} THEN t - 1 ELSE t

\* lapse, for one timer: a deadline that has been reached is cleared.
Lapsed(t) == IF t = 0 THEN None ELSE t

\* `now >= t`, for a deadline that may be absent.
Reached(t) == t = 0

\* s without the n elements that come after its first `kept`.
Drop(s, kept, n) == SubSeq(s, 1, kept) \o SubSeq(s, kept + n + 1, Len(s))

Lesser(a, b) == IF a < b THEN a ELSE b

\* Fault: the wait is doubled without a cap.
DoubledForEver(wait, cap) == 2 * wait

\* Backoff::fail doubles the next wait, up to the cap.
Doubled(wait, cap) == Lesser(2 * wait, cap)
=============================================================================
