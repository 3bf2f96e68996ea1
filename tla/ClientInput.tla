----------------------------- MODULE ClientInput ------------------------------
(***************************************************************************)
(* What a client program makes of its standard input: the read in          *)
(* communicate() and sendPendingCommands() of trader_client.c, byte by     *)
(* byte.  Complete lines go to the server, blank ones and ones that        *)
(* outgrow the buffer do not, and the end of the input is a FIN.           *)
(* market_data_client.c has the same functions.  TraderClient has the      *)
(* blocking of the writes, at the grain of lines.                          *)
(***************************************************************************)
EXTENDS Integers, Sequences

CONSTANTS
  Bytes,        \* what may be typed, LF among it
  LF,
  BUFFER_SIZE,  \* trader_client.c:18 (1024 in the code)
  MaxTyped      \* bound: bytes of standard input

VARIABLES
  inbuf,       \* the first inlen bytes of the buffer
  discarding,  \* the rest of an overlong line is being skipped
  eof,         \* standard input has ended
  wire,        \* bytes sent that the server has not read
  typed        \* history: every byte of standard input

-----------------------------------------------------------------------------
(* Slips: what each definition below would be after a plausible mistake.   *)
(* No action uses them; they exist to be put in a definition's place, so   *)
(* that a property can be seen to notice the mistake.                      *)

SlipNothingSkipped(over, text) == Len(text) > 1
SlipNeverFull(bytes) == Len(bytes) > BUFFER_SIZE

-----------------------------------------------------------------------------
(* The end of an overlong line is not a command, and neither is a lone newline. *)
Worth(over, text) == ~over /\ Len(text) > 1

(* memchr from newline to newline, as the state of the loop after each byte: *)
(* the offset of the line it is in, whether the beginning of that line was   *)
(* thrown away, and what has been written.                                   *)
Passing(loop, bytes, i) ==
  LET text == SubSeq(bytes, loop.line + 1, i)
  IN  IF bytes[i] # LF THEN loop
      ELSE [line |-> i, over |-> FALSE,
            sent |-> IF Worth(loop.over, text) THEN loop.sent \o text ELSE loop.sent]

Sending(bytes) ==
  LET after[i \in 0 .. Len(bytes)] ==
        IF i = 0 THEN [line |-> 0, over |-> discarding, sent |-> <<>>]
        ELSE Passing(after[i - 1], bytes, i)
  IN  after

Full(bytes) == Len(bytes) = BUFFER_SIZE

-----------------------------------------------------------------------------
Init ==
  /\ inbuf = <<>>
  /\ discarding = FALSE
  /\ eof = FALSE
  /\ wire = <<>>
  /\ typed = <<>>

Room == BUFFER_SIZE - Len(inbuf)

(* read() returns some bytes, and sendPendingCommands() deals with them. *)
ReadInput(chunk) ==
  LET bytes == inbuf \o chunk
      loop == Sending(bytes)[Len(bytes)]
      rest == SubSeq(bytes, loop.line + 1, Len(bytes))
  IN  /\ ~eof
      /\ Len(typed) + Len(chunk) <= MaxTyped
      /\ typed' = typed \o chunk
      /\ wire' = wire \o loop.sent
      /\ inbuf' = IF Full(rest) THEN <<>> ELSE rest
      /\ discarding' = (Full(rest) \/ loop.over)
      /\ UNCHANGED eof

(* The input ends, or read() was asked for nothing and the zero it returns *)
(* is taken for that.  What is left of a last line stays in the buffer.    *)
(* A write that fails (trader_client.c:81) ends the program likewise: the  *)
(* server has closed by then and reads none of it, so that nothing of that *)
(* read has been typed.                                                    *)
EndInput ==
  /\ ~eof
  /\ eof' = TRUE
  /\ UNCHANGED <<inbuf, discarding, wire, typed>>

Next ==
  \/ \E n \in 1 .. Room : \E chunk \in [1 .. n -> Bytes] : ReadInput(chunk)
  \/ EndInput
=============================================================================
