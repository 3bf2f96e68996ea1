----------------------------- MODULE LineFraming -----------------------------
(***************************************************************************)
(* How communicate() of includes/io.c cuts the bytes of a connection into  *)
(* lines: one fixed buffer per connection, filled by reads of any length,  *)
(* searched for newlines from where the last search stopped, compacted     *)
(* after each read, and given up with one error when a line outgrows it.   *)
(*                                                                         *)
(* `inbuf` is the first inlen bytes of the C array; offsets count from     *)
(* zero as they do there.                                                  *)
(***************************************************************************)
EXTENDS Integers, Sequences, SequencesExt

CONSTANTS
  Bytes,       \* what a client may send, CR and LF among it
  CR, LF,
  INBUF_SIZE,  \* config.h:14 (160 in the code)
  MaxBytes,    \* bound: bytes one client sends
  TooLong      \* the "Message too long" reply

ASSUME ByteAssumption == CR \in Bytes /\ LF \in Bytes /\ CR # LF
ASSUME SizeAssumption == INBUF_SIZE \in Nat \ {0} /\ MaxBytes \in Nat
ASSUME ReplyAssumption == TooLong \notin Seq(Bytes)

VARIABLES
  inbuf,       \* buffered bytes
  scanned,     \* how many of them hold no newline
  consumed,    \* how many of them belong to lines already taken
  search,      \* where the search for a newline goes on
  discarding,  \* the rest of an overlong line is being skipped
  pc,          \* read | lines | compact | ended
  out,         \* what processLine and replyError were called with, in order
  stream       \* history: every byte read

vars == <<inbuf, scanned, consumed, search, discarding, pc, out, stream>>

-----------------------------------------------------------------------------
(* Slips: what each helper below would compute after a plausible mistake.  *)
(* No action uses them; they exist to be put in a helper's place, so that  *)
(* a property can be seen to notice the mistake.                           *)

SlipWholeBuffer == INBUF_SIZE
SlipNextAtNewline(newline) == newline
SlipKeptWhole(buffer, n) == buffer
SlipOneShort(buffer) == Len(buffer) = INBUF_SIZE + 1

-----------------------------------------------------------------------------
(* Helpers *)

Room == INBUF_SIZE - Len(inbuf)

(* memchr from `search` on: the offsets that hold a newline, and the first. *)
Newlines == {i \in search .. Len(inbuf) - 1 : inbuf[i + 1] = LF}
FirstNewline == CHOOSE i \in Newlines : \A j \in Newlines : i <= j

(* The byte after a newline is where the next line and the next search begin. *)
NextLine(newline) == newline + 1

(* One trailing carriage return is not part of a line. *)
Chomp(line) ==
  IF line # <<>> /\ Last(line) = CR THEN Front(line) ELSE line

(* memmove: the bytes of lines already taken leave the buffer. *)
Kept(buffer, n) == SubSeq(buffer, n + 1, Len(buffer))

Full(buffer) == Len(buffer) = INBUF_SIZE

-----------------------------------------------------------------------------
Init ==
  /\ inbuf = <<>>
  /\ scanned = 0
  /\ consumed = 0
  /\ search = 0
  /\ discarding = FALSE
  /\ pc = "read"
  /\ out = <<>>
  /\ stream = <<>>

(* read() returns some bytes, at most what fits. *)
Read(chunk) ==
  /\ pc = "read"
  /\ Len(stream) + Len(chunk) <= MaxBytes
  /\ inbuf' = inbuf \o chunk
  /\ stream' = stream \o chunk
  /\ consumed' = 0
  /\ search' = scanned
  /\ pc' = "lines"
  /\ UNCHANGED <<scanned, discarding, out>>

(* The newline ends the line that was given up: reading is in step again. *)
EndDiscard ==
  /\ pc = "lines"
  /\ Newlines # {}
  /\ discarding
  /\ discarding' = FALSE
  /\ consumed' = NextLine(FirstNewline)
  /\ search' = NextLine(FirstNewline)
  /\ UNCHANGED <<inbuf, scanned, pc, out, stream>>

(* The newline ends a line, and processLine gets it.  `ends` is whether the *)
(* command ended the connection, which leaves the loop at once.             *)
TakeLine(ends) ==
  /\ pc = "lines"
  /\ Newlines # {}
  /\ ~discarding
  /\ consumed' = NextLine(FirstNewline)
  /\ search' = NextLine(FirstNewline)
  /\ out' = Append(out, Chomp(SubSeq(inbuf, consumed + 1, FirstNewline)))
  /\ pc' = IF ends THEN "ended" ELSE "lines"
  /\ UNCHANGED <<inbuf, scanned, discarding, stream>>

NoMoreLines ==
  /\ pc = "lines"
  /\ Newlines = {}
  /\ inbuf' = Kept(inbuf, consumed)
  /\ scanned' = Len(inbuf) - consumed
  /\ pc' = "compact"
  /\ UNCHANGED <<consumed, search, discarding, out, stream>>

(* There is room for the rest of the line. *)
Continue ==
  /\ pc = "compact"
  /\ ~Full(inbuf)
  /\ pc' = "read"
  /\ UNCHANGED <<inbuf, scanned, consumed, search, discarding, out, stream>>

(* A line that fills the buffer is answered once, and skipped to its end. *)
GiveUpLine ==
  /\ pc = "compact"
  /\ Full(inbuf)
  /\ out' = IF discarding THEN out ELSE Append(out, TooLong)
  /\ discarding' = TRUE
  /\ inbuf' = <<>>
  /\ scanned' = 0
  /\ pc' = "read"
  /\ UNCHANGED <<consumed, search, stream>>

(* The answer does not get out, and the connection ends there. *)
ReplyFails ==
  /\ pc = "compact"
  /\ Full(inbuf)
  /\ ~discarding
  /\ out' = Append(out, TooLong)
  /\ pc' = "ended"
  /\ UNCHANGED <<inbuf, scanned, consumed, search, discarding, stream>>

ReadAny == \E n \in 1 .. Room : \E chunk \in [1 .. n -> Bytes] : Read(chunk)

Process ==
  \/ EndDiscard
  \/ \E ends \in BOOLEAN : TakeLine(ends)
  \/ NoMoreLines
  \/ Continue
  \/ GiveUpLine
  \/ ReplyFails

Next == ReadAny \/ Process

Spec == Init /\ [][Next]_vars

-----------------------------------------------------------------------------
(* Properties *)

(* Every variable has its type, and the buffer its size.                    *)
TypeOK ==
  /\ inbuf \in Seq(Bytes) /\ Len(inbuf) <= INBUF_SIZE
  /\ scanned \in 0 .. INBUF_SIZE
  /\ consumed \in 0 .. INBUF_SIZE
  /\ search \in 0 .. INBUF_SIZE
  /\ discarding \in BOOLEAN
  /\ pc \in {"read", "lines", "compact", "ended"}
  /\ out \in Seq(Seq(Bytes) \cup {TooLong})
  /\ stream \in Seq(Bytes)

(* The loop never asks read() for zero bytes: the zero it would return is   *)
(* indistinguishable from the client's FIN and would drop the connection.   *)
ReadHasRoom == pc = "read" => Room > 0

(* No newline hides in front of where the next search starts.               *)
NothingMissed ==
  pc = "read" => /\ scanned = Len(inbuf)
                 /\ LF \notin ToSet(inbuf)

(* Where the loop has looked: what the search has passed holds no newline   *)
(* that starts a line, and between reads the whole buffer holds none.       *)
Searched ==
  /\ pc = "lines" =>
       /\ consumed <= search
       /\ search <= Len(inbuf)
       /\ \A i \in consumed + 1 .. search : inbuf[i] # LF
  /\ pc \in {"read", "compact"} =>
       /\ scanned = Len(inbuf)
       /\ \A i \in 1 .. Len(inbuf) : inbuf[i] # LF

(* What makes ReadHasRoom and NothingMissed inductive.                      *)
IndInv ==
  /\ TypeOK
  /\ ReadHasRoom
  /\ Searched

(* The reference: the meaning of a byte stream, one byte at a time.  After  *)
(* each byte it knows the line so far, whether the beginning of that line   *)
(* was given up, and what has been said.                                    *)
Meant(s, byte) ==
  IF byte = LF
  THEN [line |-> <<>>, over |-> FALSE,
        said |-> IF s.over THEN s.said ELSE Append(s.said, Chomp(s.line))]
  ELSE IF Len(s.line) + 1 < INBUF_SIZE
  THEN [s EXCEPT !.line = Append(@, byte)]
  ELSE [line |-> <<>>, over |-> TRUE,
        said |-> IF s.over THEN s.said ELSE Append(s.said, TooLong)]

Meanings(bytes) ==
  LET after[i \in 0 .. Len(bytes)] ==
        IF i = 0 THEN [line |-> <<>>, over |-> FALSE, said |-> <<>>]
        ELSE Meant(after[i - 1], bytes[i])
  IN  after

Meaning(bytes) == Meanings(bytes)[Len(bytes)].said

(* What the commands of a connection are depends on the bytes alone, not on *)
(* how they were segmented, coalesced or split over reads: whenever the     *)
(* loop waits for more it has taken exactly the lines the stream means.     *)
SegmentationIndependent ==
  /\ pc = "read" => out = Meaning(stream)
  /\ IsPrefix(out, Meaning(stream))
=============================================================================
