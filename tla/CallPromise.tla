---------------------------- MODULE CallPromise ----------------------------
(***************************************************************************)
(* What the core is promised of the media process (io/script_media.h):     *)
(* every viewer a call was started for hears of its end exactly once, and  *)
(* nobody hears of an end who was never let in.  This is what module       *)
(* Doorbell assumes in `calls`.  `told` is who the last step told.         *)
(***************************************************************************)
CONSTANT Peer

VARIABLES calls,    \* viewers let in and not told of an end yet
          told

Init == calls = {} /\ told = {}

Begin ==
  /\ \E peer \in Peer : calls' = calls \cup {peer}
  /\ told' = {}

End ==
  /\ told' \in SUBSET calls
  /\ calls' = calls \ told'

Next == Begin \/ End

Spec == Init /\ [][Next]_<<calls, told>>
=============================================================================
