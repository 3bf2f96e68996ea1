----------------------------- MODULE ClientOutput -----------------------------
(***************************************************************************)
(* The server's end of one connection, output side: sendToClient and       *)
(* flushToClient of includes/io.c with the fixed output buffer between     *)
(* them, the QUIT handshake of quitUser, and the teardown.  The input side *)
(* is at the grain of lines (LineFraming has the bytes); the output side   *)
(* is at the grain of bytes, because a write may take part of a line.      *)
(*                                                                         *)
(* The socket is the two kernel buffers, what each end has shut down, and  *)
(* the two edge-triggered filters of the connection.                       *)
(***************************************************************************)
EXTENDS Integers, Sequences, FiniteSets, FiniteSetsExt

CONSTANTS
  OUTBUF_SIZE,  \* config.h:18 (4096 in the code)
  DownSpace,    \* bytes the kernel holds towards the client
  MaxNotices,   \* bound: executions of orders that the client is told of
  AllocMayFail  \* whether an allocation or the registration may fail

VARIABLES
  \* the socket
  connected,  \* the client has connected
  reset,      \* the server's kernel has answered late data with a RST
  up,         \* command lines the server has not read
  down,       \* bytes the client has not read
  fin,        \* the client has shut down its sending side
  gone,       \* the client's socket is closed
  readEdge,   \* the READ filter is active
  writeEdge,  \* the WRITE filter is active
  \* the ClientConnection
  outbuf,     \* its first outlen bytes
  allocated,  \* the buffer exists
  closing,    \* QUIT has been received
  pc,         \* backlog | waiting | reading | answered | leaving | closed
  done,       \* a line that a command owed the client could not be sent
  \* history
  notices,    \* how many executions the client was to be told of
  said,       \* how many lines were written or stored
  lost        \* whether a line was given up

socket == <<connected, reset, up, down, fin, gone, readEdge, writeEdge>>
history == <<notices, said, lost>>

(* A line is two bytes, so that a write can stop in the middle of it. *)
Answer == <<"answer", "newline">>
Notice == <<"notice", "newline">>
Output == {"answer", "notice", "newline"}

-----------------------------------------------------------------------------
(* Slips: what each definition below would be after a plausible mistake.   *)
(* No action uses them; they exist to be put in a definition's place, so   *)
(* that a property can be seen to notice the mistake.                      *)

SlipOneByte(data) == SubSeq(data, 1, IF Len(down) < DownSpace /\ data # <<>> THEN 1 ELSE 0)
SlipAlwaysFits(line) == FALSE
SlipGoesAtOnce == TRUE
SlipNeverGoes == FALSE
SlipLastLineOnly(failed) == failed
SlipStopsForOutput == up = <<>> \/ outbuf # <<>>

-----------------------------------------------------------------------------
(* sendToClient and flushToClient *)

Space == DownSpace - Len(down)

(* What write() takes of `data`, and what flushToClient's writes take before *)
(* one of them says EAGAIN.                                                 *)
Written(data) == SubSeq(data, 1, Min({Space, Len(data)}))
Flushed(data) == Written(data)
Without(data, written) == SubSeq(data, Len(written) + 1, Len(data))

(* A line is written only when nothing is waiting in front of it, and what *)
(* is left of it is stored if there is room for all of it.                 *)
Direct(line) == IF outbuf = <<>> THEN Written(line) ELSE <<>>
Rest(line) == Without(line, Direct(line))
Overflows(line) == Len(outbuf) + Len(Rest(line)) > OUTBUF_SIZE

(* What the socket of a client that is gone takes, nobody reads. *)
SendLine(line) ==
  /\ ~Overflows(line)
  /\ down' = IF gone THEN <<>> ELSE down \o Direct(line)
  /\ outbuf' = outbuf \o Rest(line)
  /\ allocated' = (allocated \/ Rest(line) # <<>>)
  /\ said' = said + 1
  /\ UNCHANGED lost

(* There is no room for the line, the write fails, or the buffer cannot be  *)
(* allocated after a part of the line was written.                          *)
SendLineFails(line) ==
  /\ \/ Overflows(line) /\ UNCHANGED down
     \/ gone /\ outbuf = <<>> /\ UNCHANGED down
     \/ /\ AllocMayFail /\ ~allocated /\ Rest(line) # <<>>
        /\ down' = down \o Direct(line)
  /\ lost' = TRUE
  /\ UNCHANGED <<outbuf, allocated, said>>

-----------------------------------------------------------------------------
Init ==
  /\ connected = FALSE
  /\ reset = FALSE
  /\ up = <<>>
  /\ down = <<>>
  /\ fin = FALSE
  /\ gone = FALSE
  /\ readEdge = FALSE
  /\ writeEdge = FALSE
  /\ outbuf = <<>>
  /\ allocated = FALSE
  /\ closing = FALSE
  /\ pc = "backlog"
  /\ done = FALSE
  /\ notices = 0
  /\ said = 0
  /\ lost = FALSE

(* acceptClients and registerClient: the filters are active at once if the *)
(* socket is already readable or writable.                                 *)
Register ==
  /\ pc = "backlog"
  /\ connected
  /\ pc' = "waiting"
  /\ readEdge' = (up # <<>> \/ fin)
  /\ writeEdge' = TRUE
  /\ UNCHANGED <<connected, reset, up, down, fin, gone, outbuf, allocated, closing, done, history>>

RegisterFails ==
  /\ AllocMayFail
  /\ pc = "backlog"
  /\ connected
  /\ pc' = "leaving"
  /\ UNCHANGED <<socket, outbuf, allocated, closing, done, history>>

(* Another client's order executes against one of this client's, or trades *)
(* what it subscribed to.  placeOrder does not care whether it was sent.   *)
Notify ==
  /\ pc = "waiting"
  /\ notices < MaxNotices
  /\ notices' = notices + 1
  /\ SendLine(Notice) \/ SendLineFails(Notice)
  /\ UNCHANGED <<connected, reset, up, fin, gone, readEdge, writeEdge, closing, pc, done>>

(* The READ event.  A closing connection's input is not read any more. *)
Readable ==
  /\ pc = "waiting"
  /\ readEdge
  /\ readEdge' = FALSE
  /\ pc' = IF closing THEN "waiting" ELSE "reading"
  /\ UNCHANGED <<connected, reset, up, down, fin, gone, writeEdge,
                 outbuf, allocated, closing, done, history>>

(* Whether quitUser leaves nothing to flush and the connection can go. *)
NothingToFlush == outbuf' = <<>>

(* One line of communicate(), answered: a command or a QUIT. *)
Process ==
  /\ pc = "reading"
  /\ up # <<>>
  /\ up' = Tail(up)
  /\ closing' = (Head(up) = "QUIT")
  /\ \/ SendLine(Answer) /\ done' = FALSE
     \/ SendLineFails(Answer) /\ done' = TRUE
  /\ pc' = IF ~closing' THEN "answered"
           ELSE IF done' \/ NothingToFlush THEN "leaving" ELSE "waiting"
  /\ UNCHANGED <<connected, reset, fin, gone, readEdge, writeEdge, notices>>

(* placeOrder's `done`: that one line failed is not forgotten for the next. *)
Remembered(failed) == done \/ failed

(* placeOrder goes on: the order executes, and its own client is told so,   *)
(* whether or not the lines before could be sent.                           *)
Execute ==
  /\ pc = "answered"
  /\ notices < MaxNotices
  /\ notices' = notices + 1
  /\ \/ SendLine(Notice) /\ done' = Remembered(FALSE)
     \/ SendLineFails(Notice) /\ done' = Remembered(TRUE)
  /\ UNCHANGED <<connected, reset, up, fin, gone, readEdge, writeEdge, closing, pc>>

(* The command is over, and the connection with it if a line failed. *)
EndCommand ==
  /\ pc = "answered"
  /\ pc' = IF done THEN "leaving" ELSE "reading"
  /\ UNCHANGED <<socket, outbuf, allocated, closing, done, history>>

(* Whether communicate() may stop reading. *)
Drained == up = <<>>

(* read() says EAGAIN, or zero once the client has sent its FIN. *)
EndRead ==
  /\ pc = "reading"
  /\ Drained
  /\ pc' = IF fin THEN "leaving" ELSE "waiting"
  /\ UNCHANGED <<socket, outbuf, allocated, closing, done, history>>

(* flushToClient's result: once all is written a closing connection can go. *)
LastFlushed == closing /\ outbuf' = <<>>

(* The WRITE event. *)
Writable ==
  /\ pc = "waiting"
  /\ writeEdge
  /\ ~gone
  /\ writeEdge' = FALSE
  /\ down' = down \o Flushed(outbuf)
  /\ outbuf' = Without(outbuf, Flushed(outbuf))
  /\ pc' = IF LastFlushed THEN "leaving" ELSE "waiting"
  /\ UNCHANGED <<connected, reset, up, fin, gone, readEdge, allocated, closing, done, history>>

(* The WRITE event says that the connection is over. *)
Disconnected ==
  /\ pc = "waiting"
  /\ writeEdge
  /\ gone
  /\ writeEdge' = FALSE
  /\ pc' = "leaving"
  /\ UNCHANGED <<connected, reset, up, down, fin, gone, readEdge,
                 outbuf, allocated, closing, done, history>>

(* Data that meets a closed socket is answered with a RST, and what the     *)
(* server's kernel still held for the client is gone.                       *)
Reset ==
  /\ reset' = TRUE
  /\ \E n \in 0 .. Len(down) : down' = SubSeq(down, 1, n)

(* removeClient frees the buffer with what it holds and closes the socket.  *)
(* What the kernel holds still reaches the client, unless lines of the      *)
(* client's that found no room yet arrive now.                              *)
Remove ==
  /\ pc = "leaving"
  /\ pc' = "closed"
  /\ outbuf' = <<>>
  /\ allocated' = FALSE
  /\ up' = <<>>
  /\ \/ UNCHANGED <<reset, down>>
     \/ up # <<>> /\ Reset
  /\ UNCHANGED <<connected, fin, gone, readEdge, writeEdge, closing, done, history>>

Step ==
  \/ Register \/ RegisterFails
  \/ Readable \/ Process \/ Execute \/ EndCommand \/ EndRead
  \/ Writable \/ Disconnected
  \/ Remove
=============================================================================
