----------------------------- MODULE AlertQueue -----------------------------
(***************************************************************************)
(* The class AlertQueue (core/alert_queue.cpp) as operators on a queue     *)
(* value: the alerts waiting for the server, of which only the front one   *)
(* may be in flight, with the retry backoff they share.                    *)
(*                                                                         *)
(* An alert's wall-clock stamp is abstracted to its age, counted up to     *)
(* AlertMaxAge, the only threshold the code compares it with.              *)
(***************************************************************************)
EXTENDS Basics

CONSTANTS Faces,          \* what the detector may say about who was seen
          AlertCapacity,  \* Policy::max_queued_alerts
          AlertMaxAge     \* Policy::alert_max_age

\* What config.cpp's validate() demands of the policy.
ASSUME AlertQueueAssumption ==
  /\ AlertCapacity \in Nat \ {0}
  /\ AlertMaxAge \in Nat \ {0}

AlertOutcome == {"delivered", "rejected", "failed"}

\* AlertQueue::Entry
Alert == [id : EventId, kind : Kind, faces : Faces, age : 0 .. AlertMaxAge]

AlertQueueType == [entries    : Seq(Alert),
                   inFlight   : BOOLEAN,
                   backoff    : 1 .. RetryMax,
                   retryAfter : Timer]

EmptyQueue == [entries |-> <<>>, inFlight |-> FALSE,
               backoff |-> RetryInitial, retryAfter |-> None]

Positions(s) == 1 .. Len(s)

\* The listings of a set of positions of a sequence of length n in order.
Listings(I, n) ==
  {f \in UNION {[1 .. m -> I] : m \in 0 .. n} :
      /\ \A i \in I : \E k \in DOMAIN f : f[k] = i
      /\ \A j, k \in DOMAIN f : j < k => f[j] < f[k]}

\* The elements of s at the positions I, in their order (std::remove_if with
\* the positions it keeps).
Keep(s, I) ==
  IF I = Positions(s)
    THEN s
    ELSE LET f == CHOOSE f \in Listings(I, Len(s)) : TRUE
         IN  [k \in DOMAIN f |-> s[f[k]]]

\* How many entries at the front may not be dropped: one while it is in flight.
Protected(q) == IF q.inFlight THEN 1 ELSE 0

-----------------------------------------------------------------------------
\* Fault: the entry that makes room is the front one even while it is in flight.
PushOverFront(q, alert) ==
  LET room == IF Len(q.entries) >= AlertCapacity THEN Tail(q.entries) ELSE q.entries
  IN  [q EXCEPT !.entries = Append(room, alert)]

\* push: at capacity the oldest entry that may be dropped makes room, if there
\* is one besides the entry in flight.
PushAlert(q, alert) ==
  LET room == IF Len(q.entries) >= AlertCapacity
                THEN Drop(q.entries, Protected(q), 1) ELSE q.entries
  IN  [q EXCEPT !.entries = Append(room, alert)]

\* expire: whatever is too old goes, except the one in flight.
ExpireAlerts(q) ==
  LET young == {i \in Positions(q.entries) :
                  i <= Protected(q) \/ q.entries[i].age < AlertMaxAge}
  IN  [q EXCEPT !.entries = Keep(q.entries, young)]

\* ready: may the front be sent now?
AlertReady(q, online) ==
  /\ ~ q.inFlight
  /\ online
  /\ q.entries # <<>>
  /\ q.retryAfter = None \/ Reached(q.retryAfter)

MarkSent(q) == [q EXCEPT !.inFlight = TRUE]

\* Backoff::fail after an attempt that did not land.
AlertFailed(q) ==
  [q EXCEPT !.inFlight   = FALSE,
            !.retryAfter = q.backoff,
            !.backoff    = Doubled(q.backoff, RetryMax)]

\* Fault: a result for the other kind of the same event is taken for the front's.
AnsweredAnyKind(q, id, kind, outcome) ==
  IF ~ q.inFlight \/ q.entries = <<>> \/ Head(q.entries).id # id
    THEN q
    ELSE IF outcome = "failed"
           THEN AlertFailed(q)
           ELSE [EmptyQueue EXCEPT !.entries = Tail(q.entries)]

\* on_result: a result for anything but the front in flight is ignored.
AlertAnswered(q, id, kind, outcome) ==
  IF \/ ~ q.inFlight
     \/ q.entries = <<>>
     \/ Head(q.entries).id # id
     \/ Head(q.entries).kind # kind
    THEN q
    ELSE IF outcome = "failed"
           THEN AlertFailed(q)
           ELSE [EmptyQueue EXCEPT !.entries = Tail(q.entries)]

\* link_lost: anything in flight when the link dropped never landed.
AlertLinkLost(q) == IF q.inFlight THEN AlertFailed(q) ELSE q

\* Fault: nobody wakes up to expire what waits for an absent server.
RetryDeadlineOnly(q) == IF q.retryAfter = None THEN {} ELSE {q.retryAfter}

\* next_deadline: the retry time and the expiry of the front entry.
AlertDeadlines(q) ==
  (IF q.retryAfter = None THEN {} ELSE {q.retryAfter})
    \cup (IF q.entries = <<>> THEN {} ELSE {AlertMaxAge - Head(q.entries).age})

-----------------------------------------------------------------------------
(* The core's use of the queue.                                            *)

\* pump_alerts: what is too old goes, then the front is sent if it may be.
PumpAlerts(q, isOnline, stopping) ==
  LET fresh == ExpireAlerts(q)
  IN  IF stopping THEN q
      ELSE IF AlertReady(fresh, isOnline) THEN MarkSent(fresh) ELSE fresh

\* The SendAlert that pump_alerts returns, if any.
AlertSent(q, isOnline, stopping) ==
  LET fresh == ExpireAlerts(q)
  IN  IF ~ stopping /\ AlertReady(fresh, isOnline)
        THEN <<<<"SendAlert", Head(fresh.entries)>>>> ELSE <<>>

-----------------------------------------------------------------------------
\* One tick of time passes for a queue.
Older(age) == IF age < AlertMaxAge THEN age + 1 ELSE age

AlertsOlder(q) ==
  [q EXCEPT !.entries    = [i \in Positions(q.entries) |->
                              [q.entries[i] EXCEPT !.age = Older(@)]],
            !.retryAfter = Closer(@)]

QueuedAs(q, id, kind) ==
  \E i \in Positions(q.entries) : q.entries[i].id = id /\ q.entries[i].kind = kind

QueuedIds(q) == {q.entries[i].id : i \in Positions(q.entries)}
=============================================================================
