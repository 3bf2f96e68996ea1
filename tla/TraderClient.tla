----------------------------- MODULE TraderClient -----------------------------
(***************************************************************************)
(* The client program, trader_client.c: one thread that polls standard     *)
(* input and the server's socket, serves the server first, and writes the  *)
(* commands it has read with blocking writes.  market_data_client.c has    *)
(* the same functions; only its main() differs.                            *)
(*                                                                         *)
(* Standard input is at the grain of the lines that are sent: ClientInput  *)
(* has the bytes.                                                          *)
(***************************************************************************)
EXTENDS Integers, Sequences, FiniteSets, FiniteSetsExt

CONSTANTS
  RECVBUF_SIZE,  \* trader_client.c:19 (128 in the code)
  UpSpace        \* lines the kernel holds towards the server

VARIABLES
  \* the socket
  connected, reset, up, down, fin, gone, readEdge, writeEdge,
  serverOpen,  \* the server has not closed its end
  \* the process
  script,      \* what is still to come on standard input
  stdin,       \* poll() would find standard input ready
  inbuf,       \* lines read and not yet written
  eof,         \* standard input has ended and is not polled any more
  revents,     \* what poll() found ready
  recvbuf,     \* the beginning of a response
  at,          \* start | poll | server | stdin | write | ended | failed
  \* history
  printed      \* how many responses were printed

input == <<script, stdin, inbuf, eof, revents>>

(* Data that meets a closed socket is answered with a RST, and what the     *)
(* server's kernel still held for the client is gone.                       *)
Reset ==
  /\ reset' = TRUE
  /\ \E n \in 0 .. Len(down) : down' = SubSeq(down, 1, n)

-----------------------------------------------------------------------------
Init ==
  /\ stdin = FALSE
  /\ inbuf = <<>>
  /\ eof = FALSE
  /\ revents = {}
  /\ recvbuf = <<>>
  /\ at = "start"
  /\ printed = 0

Running == at \notin {"start", "ended", "failed"}

(* The program returns or is killed: its socket closes, and what arrived    *)
(* and was not read is dropped.                                             *)
CloseSocket ==
  /\ fin' = TRUE
  /\ gone' = TRUE
  /\ down' = <<>>
  /\ readEdge' = TRUE
  /\ writeEdge' = TRUE

(* main(): the server cannot be reached.  A bad port or address ends alike. *)
ConnectFails ==
  /\ at = "start"
  /\ at' = "failed"
  /\ UNCHANGED <<connected, reset, up, down, fin, gone, readEdge, writeEdge, input, recvbuf, printed>>

(* With a name on the command line the first line sent is a LOGIN, which is *)
(* answered like any other line.                                            *)
Connect ==
  /\ at = "start"
  /\ connected' = TRUE
  /\ inbuf' \in {<<>>, <<"order">>}
  /\ at' = IF inbuf' = <<>> THEN "poll" ELSE "write"
  /\ UNCHANGED <<reset, up, down, fin, gone, readEdge, writeEdge,
                 script, stdin, eof, revents, recvbuf, printed>>

(* The name is too long for the LOGIN. *)
LoginTooLong ==
  /\ at = "start"
  /\ connected' = TRUE
  /\ at' = "failed"
  /\ CloseSocket
  /\ UNCHANGED <<reset, up, input, recvbuf, printed>>

(* The user types, or ends the input. *)
Type ==
  /\ Running
  /\ ~stdin
  /\ ~eof
  /\ stdin' = TRUE
  /\ UNCHANGED <<connected, reset, up, down, fin, gone, readEdge, writeEdge,
                 script, inbuf, eof, revents, recvbuf, at, printed>>

(* poll() waits without a timeout. *)
ServerReady == down # <<>> \/ ~serverOpen

Poll ==
  /\ at = "poll"
  /\ ServerReady \/ stdin
  /\ revents' = (IF ServerReady THEN {"server"} ELSE {}) \cup (IF stdin THEN {"stdin"} ELSE {})
  /\ at' = IF ServerReady THEN "server" ELSE "stdin"
  /\ UNCHANGED <<connected, reset, up, down, fin, gone, readEdge, writeEdge,
                 script, stdin, inbuf, eof, recvbuf, printed>>

(* What one read of the socket returns. *)
Received == SubSeq(down, 1, Min({RECVBUF_SIZE - Len(recvbuf), Len(down)}))

(* drainResponses: complete lines are printed, the partial tail is kept.   *)
Newlines(bytes) == {i \in DOMAIN bytes : bytes[i] = "newline"}
Kept(bytes) == SubSeq(bytes, Max(Newlines(bytes) \cup {0}) + 1, Len(bytes))

(* A partial response that fills the buffer ends the program. *)
ReadServer ==
  /\ at = "server"
  /\ Received # <<>>
  /\ recvbuf' = Kept(recvbuf \o Received)
  /\ printed' = printed + Cardinality(Newlines(Received))
  /\ \/ /\ Len(recvbuf') < RECVBUF_SIZE
        /\ at' = IF "stdin" \in revents THEN "stdin" ELSE "poll"
        /\ down' = SubSeq(down, Len(Received) + 1, Len(down))
        /\ writeEdge' = TRUE
        /\ UNCHANGED <<fin, gone, readEdge>>
     \/ /\ Len(recvbuf') = RECVBUF_SIZE
        /\ at' = "failed"
        /\ CloseSocket
  /\ UNCHANGED <<connected, reset, up, input>>

(* The server closed the connection: read() returns zero, or an error if    *)
(* the connection was reset.                                                *)
ServerClosed ==
  /\ at = "server"
  /\ Received = <<>>
  /\ at' = IF reset THEN "failed" ELSE "ended"
  /\ CloseSocket
  /\ UNCHANGED <<connected, reset, up, input, recvbuf, printed>>

(* Some lines of standard input, as they were typed or piped. *)
ReadStdin ==
  /\ at = "stdin"
  /\ \E n \in DOMAIN script :
       /\ inbuf' = SubSeq(script, 1, n)
       /\ script' = SubSeq(script, n + 1, Len(script))
  /\ stdin' = FALSE
  /\ at' = "write"
  /\ UNCHANGED <<connected, reset, up, down, fin, gone, readEdge, writeEdge,
                 eof, revents, recvbuf, printed>>

(* The end of the input: a FIN, and no more polling of it. *)
HalfClose ==
  /\ at = "stdin"
  /\ script = <<>>
  /\ fin' = TRUE
  /\ readEdge' = TRUE
  /\ eof' = TRUE
  /\ stdin' = FALSE
  /\ at' = "poll"
  /\ UNCHANGED <<connected, reset, up, down, gone, writeEdge,
                 script, inbuf, revents, recvbuf, printed>>

LineWritten ==
  /\ inbuf' = Tail(inbuf)
  /\ at' = IF inbuf' = <<>> THEN "poll" ELSE "write"

(* writeAll: the write blocks while the kernel holds all it can. *)
Write ==
  /\ at = "write"
  /\ serverOpen
  /\ Len(up) < UpSpace
  /\ up' = Append(up, Head(inbuf))
  /\ readEdge' = TRUE
  /\ LineWritten
  /\ UNCHANGED <<connected, reset, down, fin, gone, writeEdge,
                 script, stdin, eof, revents, recvbuf, printed>>

(* The first write after the server's close still succeeds, and provokes a *)
(* RST.                                                                     *)
WriteLate ==
  /\ at = "write"
  /\ ~serverOpen
  /\ ~reset
  /\ Reset
  /\ LineWritten
  /\ UNCHANGED <<connected, up, fin, gone, readEdge, writeEdge,
                 script, stdin, eof, revents, recvbuf, printed>>

(* EPIPE. *)
WriteFails ==
  /\ at = "write"
  /\ reset
  /\ at' = "failed"
  /\ CloseSocket
  /\ UNCHANGED <<connected, reset, up, input, recvbuf, printed>>

Step ==
  \/ Connect \/ ConnectFails \/ LoginTooLong
  \/ Poll \/ ReadServer \/ ServerClosed
  \/ ReadStdin \/ HalfClose \/ Write \/ WriteLate \/ WriteFails

(* The process is killed, or poll() or a read of standard input fails. *)
Kill ==
  /\ Running
  /\ at' = "failed"
  /\ CloseSocket
  /\ UNCHANGED <<connected, reset, up, input, recvbuf, printed>>
=============================================================================
