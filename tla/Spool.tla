------------------------------- MODULE Spool -------------------------------
(***************************************************************************)
(* The clips waiting to go up, as Core keeps them (core/core.cpp: the      *)
(* members uploads_, upload_in_flight_, upload_backoff_ and                *)
(* upload_retry_after_), as operators on one value.  The front clip is the *)
(* one in flight.  A clip's bytes count against Policy::spool_max_bytes.   *)
(***************************************************************************)
EXTENDS Basics

CONSTANT SpoolMax    \* Policy::spool_max_bytes

ASSUME SpoolAssumption == SpoolMax \in Nat \ {0}

\* PendingUpload; what the confirm has to state beyond the id is the kind and
\* whether the recording was cut short.
Clip == [id : EventId, kind : Kind, bytes : Nat, partial : BOOLEAN]

SpoolType == [clips      : Seq(Clip),
              inFlight   : BOOLEAN,
              backoff    : 1 .. RetryMax,
              retryAfter : Timer]

EmptySpool == [clips |-> <<>>, inFlight |-> FALSE,
               backoff |-> RetryInitial, retryAfter |-> None]

TotalBytes(clips) ==
  LET total[n \in 0 .. Len(clips)] ==
        IF n = 0 THEN 0 ELSE total[n - 1] + clips[n].bytes
  IN  total[Len(clips)]

\* Fault: the spool cap spares nothing.
NothingKept(s) == 0

\* The front clip is not dropped while the core counts it as in flight.
OldestKept(s) == IF s.inFlight THEN 1 ELSE 0

\* The clips left when the n oldest droppable ones are gone.
Without(s, n) == Drop(s.clips, OldestKept(s), n)

\* How many enforce_spool_cap drops: no more than brings the total under the
\* cap, and never the one in flight.
Excess(s) ==
  LET droppable == Len(s.clips) - OldestKept(s)
      enough    == {n \in 0 .. droppable :
                      n = droppable \/ TotalBytes(Without(s, n)) <= SpoolMax}
  IN  CHOOSE n \in enough : \A m \in enough : n <= m

\* enforce_spool_cap after a clip has been pushed.
AddClip(s, clip) ==
  LET grown == [s EXCEPT !.clips = Append(@, clip)]
  IN  [grown EXCEPT !.clips = Without(grown, Excess(grown))]

\* The clips AddClip announces as discarded, oldest first.
ClipsDropped(s, clip) ==
  LET grown == [s EXCEPT !.clips = Append(@, clip)]
  IN  SubSeq(grown.clips, OldestKept(s) + 1, OldestKept(s) + Excess(grown))

\* Backoff::fail on the uploads' own backoff.
UploadFailed(s) ==
  [s EXCEPT !.inFlight   = FALSE,
            !.retryAfter = s.backoff,
            !.backoff    = Doubled(s.backoff, RetryMax)]

\* Fault: a finished upload is taken to be the front clip's without a look.
AnsweredUnread(s, id, ok) ==
  IF ~ ok
    THEN UploadFailed(s)
    ELSE [EmptySpool EXCEPT
            !.clips = IF s.clips # <<>> THEN Tail(s.clips) ELSE s.clips]

\* on_upload_finished
UploadAnswered(s, id, ok) ==
  IF ~ ok
    THEN UploadFailed(s)
    ELSE [EmptySpool EXCEPT
            !.clips = IF s.clips # <<>> /\ Head(s.clips).id = id
                        THEN Tail(s.clips) ELSE s.clips]

\* The upload's part of on_server_offline.
UploadLinkLost(s) == IF s.inFlight THEN UploadFailed(s) ELSE s

\* pump_uploads: may the front clip go up, given the link and the viewers?
UploadReady(s, online, watched) ==
  /\ ~ s.inFlight
  /\ s.clips # <<>>
  /\ online
  /\ ~ watched
  /\ s.retryAfter = None \/ Reached(s.retryAfter)

SpoolOlder(s) == [s EXCEPT !.retryAfter = Closer(@)]

SpooledIds(s) == {s.clips[i].id : i \in 1 .. Len(s.clips)}
=============================================================================
