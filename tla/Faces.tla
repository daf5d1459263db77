-------------------------------- MODULE Faces --------------------------------
(***************************************************************************)
(* The people a doorbell knows: the server sends the whole list whenever   *)
(* it changes and whenever a hello names another revision; the bridge      *)
(* (pi/server-bridge.py, start_faces to send_faces_status) hands it to     *)
(* pi/porchlight-faces.py on a thread of its own, one list at a time, and  *)
(* tells the server which photos could be used.                            *)
(*                                                                         *)
(* Two threads of the bridge tell: the one that has just had an answer,    *)
(* and the socket's own after a hello.  Neither holds a lock from reading  *)
(* the answer to clearing it.  A face is coded or not: how is data.        *)
(*                                                                         *)
(* A helper does not outlive its bridge here, as when their service stops. *)
(***************************************************************************)
EXTENDS Naturals, Sequences

CONSTANTS Photo, MaxRevision   \* bound: how often the owner changes the list

ASSUME FacesAssumption == MaxRevision \in Nat \ {0}

Revision == 0 .. MaxRevision   \* 0: no list, no revision

VARIABLES lists,     \* the server's list at each revision so far
          believed,  \* the last answer the server heard
          link,      \* down, hello (said, and not answered yet) or up
          inbox,     \* lists on their way to the device
          store,     \* faces.json
          running,   \* faces_running
          waiting,   \* faces_waiting
          worker,    \* where run_faces stands
          doing,     \* the list it applies
          main,      \* the socket's thread: free, or in send_faces_status
          unsent,    \* faces_unsent
          failed     \* a list was not applied since the last hello

bridge == <<running, waiting, worker, doing, main, unsent>>
vars == <<lists, believed, link, inbox, store, bridge, failed>>

Answer == [revision : Revision, photos : SUBSET Photo]
Nothing == [revision |-> 0, photos |-> {}]

TypeOK ==
  /\ lists \in Seq(SUBSET Photo) /\ Len(lists) \in Revision
  /\ believed \in Answer
  /\ link \in {"down", "hello", "up"}
  /\ inbox \in Seq(Revision \ {0})
  /\ store \in Answer
  /\ running \in BOOLEAN
  /\ waiting \in Revision
  /\ worker \in {"idle", "handing", "coding", "coded", "telling", "told", "next"}
  /\ doing \in Revision
  /\ main \in {"free", "telling", "told"}
  /\ unsent \in Answer
  /\ failed \in BOOLEAN

Init ==
  /\ lists = <<>>
  /\ believed = Nothing
  /\ link = "down" /\ inbox = <<>>
  /\ store = Nothing
  /\ running = FALSE /\ waiting = 0 /\ worker = "idle" /\ doing = 0
  /\ main = "free"
  /\ unsent = Nothing
  /\ failed = FALSE

Current == Len(lists)

-----------------------------------------------------------------------------
(* The server, and the socket.                                             *)

\* The owner saves or deletes somebody.
Edit(photos) ==
  /\ Current < MaxRevision
  /\ lists' = Append(lists, photos)
  /\ inbox' = IF link = "down" THEN inbox ELSE Append(inbox, Current + 1)
  /\ UNCHANGED <<believed, link, store, bridge, failed>>

\* on_open: the hello carries the revision that the store has now.
Connect ==
  /\ link = "down" /\ main = "free"
  /\ link' = "hello"
  /\ inbox' = IF store.revision # Current THEN <<Current>> ELSE <<>>
  /\ failed' = FALSE
  /\ UNCHANGED <<lists, believed, store, bridge>>

Drop ==
  /\ link # "down"
  /\ link' = "down" /\ inbox' = <<>>
  /\ UNCHANGED <<lists, believed, store, bridge, failed>>

-----------------------------------------------------------------------------
(* The socket's thread.                                                    *)

\* hello-ok; an answer that is still unsent goes now.
HelloOk ==
  /\ link = "hello" /\ main = "free"
  /\ link' = "up"
  /\ main' = "telling"
  /\ UNCHANGED <<lists, believed, inbox, store, running, waiting, worker, doing, unsent, failed>>

\* Fault: the list that waits is not replaced.
FirstWaits(revision) == IF waiting = 0 THEN revision ELSE waiting

\* Only the newest waits: it is the whole list.
NewestWaits(revision) == revision

\* start_faces
Receive ==
  /\ link = "up" /\ main = "free" /\ inbox # <<>>
  /\ inbox' = Tail(inbox)
  /\ IF running
       THEN /\ waiting' = NewestWaits(Head(inbox))
            /\ UNCHANGED <<running, worker, doing>>
       ELSE /\ running' = TRUE
            /\ worker' = "handing" /\ doing' = Head(inbox)
            /\ UNCHANGED waiting
  /\ UNCHANGED <<lists, believed, link, store, main, unsent, failed>>

-----------------------------------------------------------------------------
(* send_faces_status, on either thread: read and send, then clear.         *)

\* A frame that the socket took may die with it.
Sends ==
  \/ believed' = unsent /\ UNCHANGED <<link, inbox>>
  \/ link' = "down" /\ inbox' = <<>> /\ UNCHANGED believed

Sendable == unsent # Nothing /\ link = "up"

\* Read and sent in one step; cleared in another, with the other thread between.
MainTells ==
  /\ main = "telling"
  /\ IF Sendable
       THEN Sends /\ main' = "told"
       ELSE main' = "free" /\ UNCHANGED <<believed, link, inbox>>
  /\ UNCHANGED <<lists, store, running, waiting, worker, doing, unsent, failed>>

MainClears ==
  /\ main = "told"
  /\ main' = "free"
  /\ unsent' = Nothing
  /\ UNCHANGED <<lists, believed, link, inbox, store, running, waiting, worker, doing, failed>>

WorkerTells ==
  /\ worker = "telling"
  /\ IF Sendable
       THEN Sends /\ worker' = "told"
       ELSE worker' = "next" /\ UNCHANGED <<believed, link, inbox>>
  /\ UNCHANGED <<lists, store, running, waiting, doing, main, unsent, failed>>

WorkerClears ==
  /\ worker = "told"
  /\ worker' = "next"
  /\ unsent' = Nothing
  /\ UNCHANGED <<lists, believed, link, inbox, store, running, waiting, doing, main, failed>>

-----------------------------------------------------------------------------
(* run_faces, faces_once, and the helper's cmd_sync.                       *)

WorkerRest == UNCHANGED <<lists, believed, link, inbox, running, waiting, main>>

\* The list goes to the helper as a file, or cannot.
HandOver ==
  /\ worker = "handing"
  /\ \/ worker' = "coding" /\ UNCHANGED failed
     \/ worker' = "next" /\ failed' = TRUE
  /\ UNCHANGED <<store, doing, unsent>> /\ WorkerRest

\* Fault: what is gone from the list is not forgotten.
KeptAlso(revision, coded) == store.photos \cup coded

\* What was coded before and is still listed, and what could be coded now.
Kept(revision, coded) == (store.photos \cap lists[revision]) \cup coded

\* Photos that are new, download, and show one face.
Codable(revision) == SUBSET (lists[revision] \ store.photos)

\* The store is replaced whole and the answer printed; or the helper fails or
\* is killed, before it has saved or after.
Code ==
  /\ worker = "coding"
  /\ \/ \E coded \in Codable(doing) :
          /\ store' = [revision |-> doing, photos |-> Kept(doing, coded)]
          /\ \/ worker' = "coded" /\ UNCHANGED failed
             \/ worker' = "next" /\ failed' = TRUE
     \/ worker' = "next" /\ failed' = TRUE /\ UNCHANGED store
  /\ UNCHANGED <<doing, unsent>> /\ WorkerRest

\* An answer that has not been sent yet is replaced.
Answers ==
  /\ worker = "coded"
  /\ worker' = "telling"
  /\ unsent' = [revision |-> doing, photos |-> store.photos]
  /\ UNCHANGED <<store, doing, failed>> /\ WorkerRest

TakeNext ==
  /\ worker = "next"
  /\ waiting' = 0 /\ doing' = waiting
  /\ running' = (waiting # 0)
  /\ worker' = IF waiting = 0 THEN "idle" ELSE "handing"
  /\ UNCHANGED <<lists, believed, link, inbox, store, main, unsent, failed>>

\* With its service, at any moment: only the store remains.
BridgeDies ==
  /\ link' = "down" /\ inbox' = <<>>
  /\ running' = FALSE /\ waiting' = 0 /\ worker' = "idle" /\ doing' = 0
  /\ main' = "free" /\ unsent' = Nothing
  /\ UNCHANGED <<lists, believed, store, failed>>

Main == HelloOk \/ Receive \/ MainTells \/ MainClears
Worker == HandOver \/ Code \/ Answers \/ WorkerTells \/ WorkerClears \/ TakeNext

Next ==
  \/ \E photos \in SUBSET Photo : Edit(photos)
  \/ Connect \/ Drop \/ BridgeDies
  \/ Main \/ Worker

Spec == Init /\ [][Next]_vars

\* Both threads run, the helper has a time limit, and a lost socket is tried
\* again for ever.  That the network lasts is nobody's promise.
FairSpec == Spec /\ WF_vars(Main) /\ WF_vars(Worker) /\ WF_vars(Connect)

-----------------------------------------------------------------------------
(* Properties.                                                             *)

\* When the server has heard that its current list is applied, then it is, and
\* stays so whatever lists were on their way: nobody deleted from it is still
\* known to the device, and every photo it was told is used is there.
DeletedIsForgotten ==
  believed.revision = Current /\ Current # 0 =>
    /\ store.revision = Current
    /\ believed.photos \subseteq store.photos
    /\ store.photos \subseteq lists[Current]

\* With a connection that lasts, the newest list is applied in the end, however
\* many arrived while another was being worked on - or the one that failed waits
\* for the next hello.
CaughtUp ==
  <>[](link = "up") => <>[](store.revision = Current \/ failed)

-----------------------------------------------------------------------------
(* What the comments say and the code does not do.                         *)

\* "The answer to the last sync, until it has reached the server": with both
\* threads at rest the server has heard what the store holds.
AnswerReaches ==
  link = "up" /\ main = "free" /\ worker = "idle" /\ inbox = <<>> /\ ~ failed
    => believed.revision = store.revision
=============================================================================
