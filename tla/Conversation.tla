----------------------------- MODULE Conversation -----------------------------
(***************************************************************************)
(* A client program and the server's end of its connection, joined by one  *)
(* socket: how a conversation goes on while answers pile up, and how it    *)
(* ends by QUIT, by the end of the client's input, or by the client's end. *)
(***************************************************************************)
EXTENDS Integers, Sequences, FiniteSets, FiniteSetsExt

CONSTANTS
  Scripts,  \* what may be typed
  OUTBUF_SIZE, DownSpace, MaxNotices, AllocMayFail, RECVBUF_SIZE, UpSpace

(* The output buffer has room for a line, and neither socket buffer is empty. *)
ASSUME OutputAssumption == OUTBUF_SIZE \in Nat \ {0, 1} /\ MaxNotices \in Nat
ASSUME SocketAssumption == {DownSpace, UpSpace, RECVBUF_SIZE} \subseteq Nat \ {0}
ASSUME ScriptAssumption == Scripts \subseteq Seq({"order", "QUIT"})
ASSUME AllocationAssumption == AllocMayFail \in BOOLEAN

VARIABLES
  connected, reset, up, down, fin, gone, readEdge, writeEdge,
  outbuf, allocated, closing, pc, done, notices, said, lost,
  script, stdin, inbuf, eof, revents, recvbuf, at, printed

serverVars == <<outbuf, allocated, closing, pc, done, notices, said, lost>>
clientVars == <<script, stdin, inbuf, eof, revents, recvbuf, at, printed>>
vars == <<connected, reset, up, down, fin, gone, readEdge, writeEdge, serverVars, clientVars>>

Server == INSTANCE ClientOutput
Client == INSTANCE TraderClient WITH serverOpen <- pc # "closed"

Init ==
  /\ Server!Init
  /\ Client!Init
  /\ script \in Scripts

ServerStep == Server!Step /\ UNCHANGED clientVars
ClientStep == Client!Step /\ UNCHANGED serverVars

Next ==
  \/ ServerStep
  \/ Server!Notify /\ UNCHANGED clientVars
  \/ ClientStep
  \/ Client!Type /\ UNCHANGED serverVars
  \/ Client!Kill /\ UNCHANGED serverVars

Spec == Init /\ [][Next]_vars

(* Both processes run whenever they can; nobody has to type anything.      *)
FairSpec == Spec /\ WF_vars(ServerStep) /\ WF_vars(ClientStep)

-----------------------------------------------------------------------------
(* Properties *)

(* Every variable has its type, and neither end holds more than its buffer. *)
TypeOK ==
  /\ up \in Seq({"order", "QUIT"}) /\ Len(up) <= UpSpace
  /\ down \in Seq(Server!Output) /\ Len(down) <= DownSpace
  /\ outbuf \in Seq(Server!Output) /\ Len(outbuf) <= OUTBUF_SIZE
  /\ recvbuf \in Seq(Server!Output) /\ Len(recvbuf) <= RECVBUF_SIZE
  /\ {connected, reset, fin, gone, readEdge, writeEdge,
      allocated, closing, done, lost, stdin, eof} \subseteq BOOLEAN
  /\ pc \in {"backlog", "waiting", "reading", "answered", "leaving", "closed"}
  /\ at \in {"start", "poll", "server", "stdin", "write", "ended", "failed"}
  /\ revents \subseteq {"server", "stdin"}
  /\ script \in Seq({"order", "QUIT"}) /\ inbuf \in Seq({"order", "QUIT"})
  /\ {notices, said, printed} \subseteq Nat

(* Lines reach the client whole and in order however writes, the output     *)
(* buffer, reads and failures cut them.  A line of which a part went out    *)
(* before the buffer for the rest could not be had (io.c:39, 65) stays cut. *)
(* Another client's order cares for that as little as for a lost line; but  *)
(* a client whose answer was cut gets no other: the command that it was     *)
(* for is told to its end, and the connection ends (commands.c:138-166).    *)
UnderWay == recvbuf \o down \o outbuf
CutShort(i) ==
  /\ lost
  /\ \/ UnderWay[i] = "notice"
     \/ /\ UnderWay[i] = "answer" /\ done
        /\ pc \in {"answered", "leaving", "closed"}
        /\ \A j \in i + 1 .. Len(UnderWay) : UnderWay[j] # "answer"
LinesWhole ==
  at # "failed" =>
    /\ \A i \in 1 .. Len(UnderWay) - 1 :
         (UnderWay[i] # "newline" <=> UnderWay[i + 1] = "newline") \/ CutShort(i)
    /\ UnderWay # <<>> => Head(UnderWay) # "newline"
    /\ UnderWay # <<>> /\ pc \notin {"leaving", "closed"} =>
         UnderWay[Len(UnderWay)] = "newline" \/ CutShort(Len(UnderWay))

(* Stored output is not forgotten: if the socket has room for it, the WRITE *)
(* event that will flush it is due (server.c:154).                          *)
OutputScheduled ==
  pc \in {"waiting", "reading", "answered"} /\ outbuf # <<>> /\ Len(down) < DownSpace => writeEdge

(* QUIT is graceful: a client that quits and waits for the end has printed  *)
(* every line the server undertook to send it, the final OK among them,     *)
(* even if the socket was full when the QUIT was read (io.c:181, 36).       *)
QuitIsGraceful == at = "ended" /\ closing /\ ~lost => printed = said

(* A client that stays after the end of its input collects whatever the     *)
(* server still sends (trader_client.c:158).  The server drops its stored   *)
(* output when it reads the FIN.                                            *)
EndOfInputIsGraceful == at = "ended" /\ eof /\ ~lost => printed = said

(* A client that has written all it had and has quit is let go: its last    *)
(* output is flushed while it reads, and nothing else keeps the connection  *)
(* in the table (io.c:36, 181).                                             *)
QuitCompletes == closing /\ inbuf = <<>> /\ script = <<>> ~> pc = "closed"

(* A client that blocks in writeAll, not reading its answers, gets on: the  *)
(* server reads on while output piles up, and gives up the connection       *)
(* rather than wait.  Only after QUIT does it wait for the client without   *)
(* reading (io.c:68, 181; trader_client.c:79).                              *)
WritesFinish == at = "write" ~> at # "write" \/ closing

=============================================================================
