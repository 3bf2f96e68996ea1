----------------------------- MODULE CommandPath ------------------------------
(***************************************************************************)
(* From the keyboard to processLine: the client program's line buffer and  *)
(* the server's, joined by a byte stream that may be cut anywhere.  The    *)
(* server must also cope with programs other than this client, which send  *)
(* what they like; such a peer is LineFraming's environment as it is.      *)
(***************************************************************************)
EXTENDS LineFraming

CONSTANTS
  BUFFER_SIZE,  \* trader_client.c:18 (1024 in the code)
  MaxTyped      \* bound: bytes of standard input

ASSUME ClientBufferAssumption == BUFFER_SIZE \in Nat \ {0} /\ MaxTyped \in 0 .. MaxBytes

VARIABLES
  raw,                                \* the peer is not the client program
  line, skipping, eof, wire, typed    \* the client program

clientVars == <<line, skipping, eof, wire, typed>>
pathVars == <<vars, raw, clientVars>>

Client == INSTANCE ClientInput WITH inbuf <- line, discarding <- skipping

PathInit ==
  /\ Init
  /\ Client!Init
  /\ raw \in BOOLEAN

(* The server reads some of what the client has sent. *)
ReadSent ==
  \E n \in 1 .. Len(wire) :
    /\ n <= Room
    /\ Read(SubSeq(wire, 1, n))
    /\ wire' = SubSeq(wire, n + 1, Len(wire))
    /\ UNCHANGED <<raw, line, skipping, eof, typed>>

PathNext ==
  \/ ~raw /\ Client!Next /\ UNCHANGED <<vars, raw>>
  \/ ~raw /\ ReadSent
  \/ raw /\ ReadAny /\ UNCHANGED <<raw, clientVars>>
  \/ Process /\ UNCHANGED <<raw, clientVars>>

PathSpec == PathInit /\ [][PathNext]_pathVars

-----------------------------------------------------------------------------
(* Properties *)

(* Neither end ever asks read() for zero bytes; the client would take the    *)
(* zero for the end of its input, send a FIN and go deaf.                    *)
InputHasRoom == Client!Room > 0

(* What the user means: every line that is complete, not blank, and no      *)
(* longer than the client's buffer.  The reference reads one byte at a time *)
(* and knows no buffer.                                                     *)
Typing(s, byte) ==
  IF byte # LF THEN [s EXCEPT !.text = Append(@, byte)]
  ELSE [text |-> <<>>,
        meant |-> IF Len(s.text) \in 1 .. BUFFER_SIZE - 1
                  THEN s.meant \o Append(s.text, LF) ELSE s.meant]

Intentions(bytes) ==
  LET after[i \in 0 .. Len(bytes)] ==
        IF i = 0 THEN [text |-> <<>>, meant |-> <<>>]
        ELSE Typing(after[i - 1], bytes[i])
  IN  after

Intended == Intentions(typed)[Len(typed)].meant

(* What is typed is what is executed: through two buffers of different      *)
(* sizes, each cutting, skipping and refilling at its own pace, the server  *)
(* gets the commands the user meant, in order, each of them once, and       *)
(* nothing of an overlong or unfinished line.                               *)
CommandsArrive ==
  ~raw =>
    /\ IsPrefix(out, Meaning(Intended))
    /\ pc = "read" /\ wire = <<>> => out = Meaning(Intended)
=============================================================================
