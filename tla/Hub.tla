--------------------------------- MODULE Hub --------------------------------
(***************************************************************************)
(* The websocket hub of cmd/server: the clients of /ws/console, each with  *)
(* a bounded channel of frames, a writeLoop that empties it and a readLoop *)
(* that notices that the browser is gone, and the broadcast that offers    *)
(* every registered client a frame under h.mu.                             *)
(*                                                                         *)
(* A frame is what it is given; the browser and the network are modelled   *)
(* by what the connection does to the two loops: a write to a browser that *)
(* has stalled does not return, one to a browser that is gone fails.  A    *)
(* browser that comes back is another client.                              *)
(***************************************************************************)
EXTENDS Sequences, Naturals

CONSTANTS
  WsClient,       \* the wsClient values
  BufferSize      \* the capacity of a client's channel: 8

ASSUME HubAssumption == BufferSize \in Nat \ {0}

VARIABLES
  browser,        \* browser[w]: absent, reading, stalled or gone
  clients,        \* wsHub.clients
  closedSend,     \* the clients whose channel is closed
  send,           \* send[w]: the frames in the channel
  writer,         \* writer[w]: the frame being written, <<>> if none
  writing,        \* the clients whose writeLoop has not ended
  shown           \* shown[w]: the last frame the browser got, <<>> if none

hubVars == <<browser, clients, closedSend, send, writer, writing, shown>>

BrowserState == {"absent", "reading", "stalled", "gone"}

---------------------------------------------------------------------------

\* handle: the client is registered before its loops start.
Register(w) ==
  /\ browser[w] = "absent"
  /\ browser' = [browser EXCEPT ![w] = "reading"]
  /\ clients' = clients \cup {w}
  /\ writing' = writing \cup {w}
  /\ UNCHANGED <<closedSend, send, writer, shown>>

\* The browser stalls, goes on reading, or goes away for good.
BrowserChanges(w, state) ==
  /\ browser[w] \in {"reading", "stalled"}
  /\ state # "absent"
  /\ browser' = [browser EXCEPT ![w] = state]
  /\ UNCHANGED <<clients, closedSend, send, writer, writing, shown>>

\* Wrong on purpose: the channel is closed, the client stays on the list.
ReadLoopEndKeepsClient(w) ==
  /\ w \in clients
  /\ browser[w] = "gone" /\ w \notin closedSend
  /\ closedSend' = closedSend \cup {w}
  /\ UNCHANGED <<browser, clients, send, writer, writing, shown>>

\* readLoop: the read fails; under h.mu the client is removed and its
\* channel closed.  Frames in the channel stay there.
ReadLoopEnd(w) ==
  /\ w \in clients
  /\ browser[w] = "gone"
  /\ clients' = clients \ {w}
  /\ closedSend' = closedSend \cup {w}
  /\ UNCHANGED <<browser, send, writer, writing, shown>>

Idle(w) == w \in writing /\ writer[w] = <<>>

WriteLoopTake(w) ==
  /\ Idle(w) /\ send[w] # <<>>
  /\ writer' = [writer EXCEPT ![w] = <<Head(send[w])>>]
  /\ send' = [send EXCEPT ![w] = Tail(@)]
  /\ UNCHANGED <<browser, clients, closedSend, writing, shown>>

\* The write returns; its error is ignored.
WriteLoopWritten(w) ==
  /\ writer[w] # <<>>
  /\ \/ browser[w] = "reading" /\ shown' = [shown EXCEPT ![w] = Head(writer[w])]
     \/ browser[w] = "gone" /\ UNCHANGED shown
  /\ writer' = [writer EXCEPT ![w] = <<>>]
  /\ UNCHANGED <<browser, clients, closedSend, send, writing>>

\* The channel is closed and empty: the loop ends and closes the connection.
WriteLoopEnd(w) ==
  /\ Idle(w) /\ w \in closedSend /\ send[w] = <<>>
  /\ writing' = writing \ {w}
  /\ UNCHANGED <<browser, clients, closedSend, send, writer, shown>>

\* Wrong on purpose: the broadcast waits for every client to have room.
BroadcastWaits(frame) ==
  /\ \A w \in clients : Len(send[w]) < BufferSize
  /\ send' = [w \in WsClient |->
       IF w \in clients THEN Append(send[w], frame) ELSE send[w]]
  /\ UNCHANGED <<browser, clients, closedSend, writer, writing, shown>>

\* Wrong on purpose: a client without room is given the frame as well.
BroadcastOverflows(frame) ==
  /\ send' = [w \in WsClient |->
       IF w \in clients THEN Append(send[w], frame) ELSE send[w]]
  /\ UNCHANGED <<browser, clients, closedSend, writer, writing, shown>>

\* Wrong on purpose: a client without room is taken off the list.
BroadcastDropsClient(frame) ==
  /\ send' = [w \in WsClient |->
       IF w \in clients /\ Len(send[w]) < BufferSize
         THEN Append(send[w], frame) ELSE send[w]]
  /\ clients' = {w \in clients : Len(send[w]) < BufferSize}
  /\ UNCHANGED <<browser, closedSend, writer, writing, shown>>

\* Under h.mu every client with room is given the frame; the others go
\* without it.
Broadcast(frame) ==
  /\ send' = [w \in WsClient |->
       IF w \in clients /\ Len(send[w]) < BufferSize
         THEN Append(send[w], frame) ELSE send[w]]
  /\ UNCHANGED <<browser, clients, closedSend, writer, writing, shown>>

---------------------------------------------------------------------------

HubInit ==
  /\ browser = [w \in WsClient |-> "absent"]
  /\ clients = {}
  /\ closedSend = {}
  /\ send = [w \in WsClient |-> <<>>]
  /\ writer = [w \in WsClient |-> <<>>]
  /\ writing = {}
  /\ shown = [w \in WsClient |-> <<>>]

LoopsStep(w) ==
  \/ ReadLoopEnd(w)
  \/ WriteLoopTake(w)
  \/ WriteLoopWritten(w)
  \/ WriteLoopEnd(w)

BrowserStep(w) ==
  \/ Register(w)
  \/ \E state \in BrowserState : BrowserChanges(w, state)

---------------------------------------------------------------------------
(* Properties.                                                             *)

\* No frame is offered to a channel that is closed, which would panic: a
\* client on the list has its channel open, and one whose writeLoop ended is
\* not on it (main.go:782-787, 808-815).
OpenWhileListed == clients \subseteq writing \ closedSend

=============================================================================
