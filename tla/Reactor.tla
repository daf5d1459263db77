------------------------------- MODULE Reactor -------------------------------
(***************************************************************************)
(* The event loop (reactor.cpp): one epoll_wait returns every descriptor   *)
(* that is readable at that moment, and their callbacks run one after the  *)
(* other before the next.  A callback may change what another descriptor   *)
(* of the same batch was readable for - disarm a timer, arm it again, stop *)
(* watching it - and the batch does not know: only a descriptor nobody     *)
(* watches any more is passed over.  Descriptors are named by what they    *)
(* are; the order of a batch is any order.                                 *)
(***************************************************************************)
EXTENDS Integers

VARIABLE batch    \* descriptors returned and whose callbacks have yet to run

\* epoll_wait: everything readable, and no more until all of it has run.
Collect(readable) ==
  /\ batch = {}
  /\ readable # {}
  /\ batch' = readable

\* The callback of descriptor d runs.
Turn(d) ==
  /\ d \in batch
  /\ batch' = batch \ {d}

\* TimerFd::drain: an expiry that has been read is not read again.  A timer
\* armed since then keeps its time.
Drained(timer, none) == IF timer = 0 THEN none ELSE timer
=============================================================================
