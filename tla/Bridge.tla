------------------------------- MODULE Bridge -------------------------------
(***************************************************************************)
(* The process that holds the socket to the server (pi/server-bridge.py),  *)
(* and the server behind it.  The daemon writes alerts to its standard     *)
(* input (`down`) and reads lines from its standard output (`up`).         *)
(*                                                                         *)
(* The server stores one row per event and kind, and signals a transient   *)
(* failure by silence.  What was on the socket when it closed may have     *)
(* reached the server or not; its answers are lost with the socket.        *)
(* Reconnecting happens after some wait, the length of which nothing here  *)
(* depends on.                                                             *)
(***************************************************************************)
EXTENDS Basics

CONSTANTS WireMax,    \* bound: alerts on the socket at one time
          LineMax     \* bound: lines written and not yet read

ASSUME BridgeAssumption ==
  /\ WireMax \in Nat \ {0}
  /\ LineMax \in Nat \ {0}

VARIABLES process,    \* none (or already reaped), running, or exited
          socket,     \* down, hello said, or ready
          stopping,   \* Bridge.stop
          down,       \* alerts the daemon wrote and the process has not read
          up,         \* lines the process wrote and the daemon has not read
          wire,       \* alerts sent to the server and not yet handled by it
          stored,     \* rows the server has
          unwanted    \* alerts the server refuses for good

bridgeVars == <<process, socket, stopping, down, up, wire, stored, unwanted>>

Sent == [id : EventId, kind : Kind]

Word(type) == [type |-> type]
Ack(alert, ok) == [type |-> "event-ack", alert |-> alert, ok |-> ok]

Line == [type : {"online", "offline", "fatal"}]
          \cup [type : {"event-ack"}, alert : Sent, ok : BOOLEAN]

BridgeTypeOK ==
  /\ process \in {"none", "running", "exited"}
  /\ socket \in {"down", "hello", "ready"}
  /\ stopping \in BOOLEAN
  /\ down \in Seq(Sent)
  /\ up \in Seq(Line)
  /\ wire \in Seq(Sent)
  /\ stored \subseteq Sent
  /\ unwanted \subseteq Sent

BridgeInit ==
  /\ process = "none"
  /\ socket = "down"
  /\ stopping = FALSE
  /\ down = <<>>
  /\ up = <<>>
  /\ wire = <<>>
  /\ stored = {}
  /\ unwanted = {}

OnWire == {wire[i] : i \in 1 .. Len(wire)}

\* The socket is gone, and with it every answer still to come.
SocketLost ==
  /\ socket' = "down"
  /\ wire' = <<>>
  /\ \E landed \in SUBSET (OnWire \ unwanted) : stored' = stored \cup landed
  /\ UNCHANGED unwanted

\* A process just started, with nothing in its pipes.
Spawned ==
  /\ process' = "running"
  /\ stopping' = FALSE
  /\ down' = <<>>
  /\ up' = <<>>
  /\ UNCHANGED <<socket, wire, stored, unwanted>>

\* connect_once and on_open: hello is the first thing said.
Connect ==
  /\ process = "running" /\ ~ stopping
  /\ socket = "down"
  /\ socket' = "hello"
  /\ UNCHANGED <<process, stopping, down, up, wire, stored, unwanted>>

\* on_message, hello-ok
HelloAccepted ==
  /\ process = "running"
  /\ socket = "hello"
  /\ Len(up) < LineMax
  /\ socket' = "ready"
  /\ up' = Append(up, Word("online"))
  /\ UNCHANGED <<process, stopping, down, wire, stored, unwanted>>

\* Fault: the end of a connection is not passed on.
NoFarewell(why) ==
  IF why = "final" THEN <<Word("fatal")>> ELSE <<>>

\* What on_close says: offline if the link was up, fatal if a person has to
\* see to it - a refused credential, or another device in our place.
Farewell(why) ==
  (IF socket = "ready" THEN <<Word("offline")>> ELSE <<>>)
    \o (IF why = "final" THEN <<Word("fatal")>> ELSE <<>>)

\* on_close, whoever closed: the server, the network, a refused hello or the
\* timer that gives up on one.
Closed(why) ==
  /\ process = "running"
  /\ socket # "down"
  /\ Len(up) < LineMax
  /\ up' = up \o Farewell(why)
  /\ stopping' = (why = "final")
  /\ SocketLost
  /\ UNCHANGED <<process, down>>

\* read_stdin: an alert that cannot be sent is dropped without a word.
Relay ==
  /\ process = "running"
  /\ down # <<>>
  /\ down' = Tail(down)
  /\ \/ /\ socket = "ready"
        /\ Len(wire) < WireMax
        /\ wire' = Append(wire, Head(down))
     \/ UNCHANGED wire
  /\ UNCHANGED <<process, socket, stopping, up, stored, unwanted>>

\* The server handles one of the alerts it has been sent, in any order, and the
\* bridge passes its answer on: stored, refused for good, or nothing at all.
Serve ==
  /\ process = "running" /\ socket = "ready"
  /\ \E i \in 1 .. Len(wire) :
       /\ wire' = Drop(wire, i - 1, 1)
       /\ \/ /\ wire[i] \notin unwanted
             /\ stored' = stored \cup {wire[i]}
             /\ Len(up) < LineMax
             /\ up' = Append(up, Ack(wire[i], TRUE))
             /\ UNCHANGED unwanted
          \/ /\ wire[i] \notin stored
             /\ unwanted' = unwanted \cup {wire[i]}
             /\ Len(up) < LineMax
             /\ up' = Append(up, Ack(wire[i], FALSE))
             /\ UNCHANGED stored
          \/ /\ UNCHANGED <<unwanted, up>>
             /\ \/ UNCHANGED stored
                \/ wire[i] \notin unwanted /\ stored' = stored \cup {wire[i]}
  /\ UNCHANGED <<process, socket, stopping, down>>

\* The process ends: on its own once it has said why nobody should start it
\* again, or killed.
Exits ==
  /\ process = "running"
  /\ process' = "exited"
  /\ SocketLost
  /\ UNCHANGED <<stopping, down, up>>

BridgeNext ==
  \/ Connect
  \/ HelloAccepted
  \/ \E why \in {"network", "final"} : Closed(why)
  \/ Relay
  \/ Serve
  \/ Exits
=============================================================================
