----------------------------- MODULE MCDoorbell -----------------------------
(***************************************************************************)
(* Instances of the doorbell small enough for TLC.  Each .cfg picks the    *)
(* part of the core it exercises by what it lets happen.                   *)
(***************************************************************************)
EXTENDS Doorbell, TLC

\* A recording the recorder could make nothing of, and one worth keeping.
NoFile   == [exists |-> FALSE, ok |-> FALSE, long |-> FALSE, bytes |-> 0]
GoodFile == [exists |-> TRUE,  ok |-> TRUE,  long |-> TRUE,  bytes |-> 1]
BigFile  == [exists |-> TRUE,  ok |-> TRUE,  long |-> TRUE,  bytes |-> 2]
\* Cut by a viewer to less than min_clip.
Stub     == [exists |-> TRUE,  ok |-> TRUE,  long |-> FALSE, bytes |-> 1]

FailedOnly == {NoFile}
AnyFile    == {NoFile, GoodFile, BigFile, Stub}
KeptFiles  == {GoodFile, BigFile}
GoodOnly   == {GoodFile}

AllVerdicts == {"person", "noPerson", "unknown"}
Answers     == {"person", "noPerson"}
NoVerdicts  == {}

Symmetry == Permutations(EventId) \cup Permutations(Peer)
=============================================================================
