-------------------------- MODULE LineFramingProofs --------------------------
(***************************************************************************)
(* Theorems about the two line buffers of CommandPath, the server's and    *)
(* the client program's, for every alphabet, every length of either buffer *)
(* and every number of bytes a client sends.                               *)
(***************************************************************************)
EXTENDS CommandPath, DataLemmas

(* memchr finds the first newline of the unsearched bytes.                 *)
LEMMA FirstNewlineIsFirst ==
  ASSUME IndInv, pc = "lines", Newlines # {}
  PROVE  /\ FirstNewline \in search .. Len(inbuf) - 1
         /\ inbuf[FirstNewline + 1] = LF
         /\ NextLine(FirstNewline) \in search + 1 .. Len(inbuf)
         /\ NextLine(FirstNewline) \in 0 .. INBUF_SIZE
<1>1. search \in Nat /\ Len(inbuf) \in Nat /\ Len(inbuf) <= INBUF_SIZE
      /\ INBUF_SIZE \in Nat
  BY LenProperties, SizeAssumption DEF IndInv, TypeOK
<1>2. Newlines \subseteq Nat
  BY <1>1 DEF Newlines
<1>3. \E i \in Newlines : \A j \in Newlines : i <= j
  BY <1>2, LeastNatural
<1>4. FirstNewline \in Newlines
  BY <1>3 DEF FirstNewline
<1>5. FirstNewline \in search .. Len(inbuf) - 1 /\ inbuf[FirstNewline + 1] = LF
  BY <1>4 DEF Newlines
<1> QED
  BY <1>1, <1>5 DEF NextLine

(* A line, with or without its carriage return, is made of the bytes read. *)
LEMMA ChompType ==
  ASSUME NEW text \in Seq(Bytes)
  PROVE  Chomp(text) \in Seq(Bytes)
<1>1. Len(text) \in Nat /\ \A i \in 1 .. Len(text) : text[i] \in Bytes
  BY LenProperties, ElementOfSeq
<1>2. Front(text) \in Seq(Bytes)
  <2>1. \A i \in 1 .. Len(text) - 1 : text[i] \in Bytes
    BY <1>1
  <2>2. SubSeq(text, 1, Len(text) - 1) \in Seq(Bytes)
    BY <1>1, <2>1, SubSeqProperties
  <2> QED
    BY <2>2 DEF Front
<1> QED
  BY <1>2 DEF Chomp

(* memmove keeps the bytes behind the last line taken, in order.           *)
LEMMA KeptProperties ==
  ASSUME NEW buffer \in Seq(Bytes), NEW n \in 0 .. Len(buffer)
  PROVE  /\ Kept(buffer, n) \in Seq(Bytes)
         /\ Len(Kept(buffer, n)) = Len(buffer) - n
         /\ \A i \in 1 .. Len(buffer) - n : Kept(buffer, n)[i] = buffer[n + i]
<1>1. Len(buffer) \in Nat /\ \A i \in 1 .. Len(buffer) : buffer[i] \in Bytes
  BY LenProperties, ElementOfSeq
<1>2. n \in Nat /\ n + 1 \in Int /\ \A i \in n + 1 .. Len(buffer) : buffer[i] \in Bytes
  BY <1>1
<1>3. /\ SubSeq(buffer, n + 1, Len(buffer)) \in Seq(Bytes)
      /\ Len(SubSeq(buffer, n + 1, Len(buffer))) =
           IF n + 1 <= Len(buffer) THEN Len(buffer) - (n + 1) + 1 ELSE 0
      /\ \A i \in 1 .. Len(buffer) - (n + 1) + 1 :
           SubSeq(buffer, n + 1, Len(buffer))[i] = buffer[n + 1 + i - 1]
  BY <1>1, <1>2, SubSeqProperties
<1>4. Len(SubSeq(buffer, n + 1, Len(buffer))) = Len(buffer) - n
  BY <1>1, <1>3
<1>5. \A i \in 1 .. Len(buffer) - n :
        SubSeq(buffer, n + 1, Len(buffer))[i] = buffer[n + i]
  BY <1>1, <1>2, <1>3
<1> QED
  BY <1>3, <1>4, <1>5 DEF Kept
-----------------------------------------------------------------------------
(* An empty buffer satisfies the inductive invariant.                      *)
LEMMA InitIndInv == Init => IndInv
<1> SUFFICES ASSUME Init PROVE IndInv
  OBVIOUS
<1>1. /\ inbuf \in Seq(Bytes) /\ stream \in Seq(Bytes) /\ Len(inbuf) = 0
      /\ out \in Seq(Seq(Bytes) \cup {TooLong})
  BY EmptySeq DEF Init
<1>2. TypeOK
  <2>1. /\ scanned \in 0 .. INBUF_SIZE /\ consumed \in 0 .. INBUF_SIZE
        /\ search \in 0 .. INBUF_SIZE /\ 0 <= INBUF_SIZE
    BY SizeAssumption DEF Init
  <2>2. discarding \in BOOLEAN /\ pc \in {"read", "lines", "compact", "ended"}
    BY DEF Init
  <2> QED
    BY <1>1, <2>1, <2>2 DEF TypeOK
<1>3. ReadHasRoom /\ Searched
  BY <1>1, SizeAssumption DEF Init, ReadHasRoom, Room, Searched
<1> QED
  BY <1>2, <1>3 DEF IndInv

(* A read fits the room it was given, and the search resumes behind bytes  *)
(* that hold no newline.                                                   *)
LEMMA ReadKeepsIndInv ==
  ASSUME IndInv, NEW n \in 1 .. Room, NEW chunk \in [1 .. n -> Bytes], Read(chunk)
  PROVE  IndInv'
<1>1. /\ inbuf \in Seq(Bytes) /\ stream \in Seq(Bytes) /\ Len(inbuf) \in Nat
      /\ INBUF_SIZE \in Nat /\ n \in Nat /\ n <= INBUF_SIZE - Len(inbuf)
  BY LenProperties, SizeAssumption DEF IndInv, TypeOK, Room
<1>2. chunk \in Seq(Bytes) /\ Len(chunk) = n
  <2>1. chunk \in Seq(Bytes)
    BY <1>1, SeqDef
  <2> QED
    BY <1>1, <2>1, LenProperties
<1>3. /\ inbuf \o chunk \in Seq(Bytes) /\ stream \o chunk \in Seq(Bytes)
      /\ Len(inbuf \o chunk) = Len(inbuf) + n
      /\ \A i \in 1 .. Len(inbuf) : (inbuf \o chunk)[i] = inbuf[i]
  <2>1. stream \o chunk \in Seq(Bytes)
    BY <1>1, <1>2, ConcatProperties
  <2>2. /\ inbuf \o chunk \in Seq(Bytes)
        /\ Len(inbuf \o chunk) = Len(inbuf) + Len(chunk)
        /\ \A i \in 1 .. Len(inbuf) + Len(chunk) : (inbuf \o chunk)[i] =
              IF i <= Len(inbuf) THEN inbuf[i] ELSE chunk[i - Len(inbuf)]
    BY <1>1, <1>2, ConcatProperties, Zenon
  <2> QED
    BY <1>1, <1>2, <2>1, <2>2
<1>4. /\ inbuf' = inbuf \o chunk /\ stream' = stream \o chunk
      /\ consumed' = 0 /\ search' = scanned /\ scanned' = scanned
      /\ pc = "read" /\ pc' = "lines"
  BY DEF Read
<1>5. scanned = Len(inbuf) /\ \A i \in 1 .. Len(inbuf) : inbuf[i] # LF
  BY <1>4 DEF IndInv, Searched
<1>6. TypeOK'
  BY <1>1, <1>3, <1>4, <1>5 DEF IndInv, TypeOK, Read
<1>7. Searched' /\ ReadHasRoom'
  BY <1>1, <1>3, <1>4, <1>5 DEF Searched, ReadHasRoom
<1> QED
  BY <1>6, <1>7 DEF IndInv

(* Past a newline the next line and the next search begin together.        *)
LEMMA PassingNewlineKeepsIndInv ==
  ASSUME IndInv, pc = "lines", Newlines # {},
         inbuf' = inbuf, scanned' = scanned, stream' = stream,
         consumed' = NextLine(FirstNewline), search' = NextLine(FirstNewline),
         discarding' \in BOOLEAN, pc' \in {"lines", "ended"},
         out' \in Seq(Seq(Bytes) \cup {TooLong})
  PROVE  IndInv'
<1>1. /\ NextLine(FirstNewline) \in 0 .. INBUF_SIZE
      /\ NextLine(FirstNewline) <= Len(inbuf)
      /\ NextLine(FirstNewline) \in Nat
  BY FirstNewlineIsFirst, LenProperties DEF IndInv, TypeOK
<1>2. TypeOK'
  BY <1>1 DEF IndInv, TypeOK
<1>3. Searched' /\ ReadHasRoom'
  BY <1>1 DEF Searched, ReadHasRoom
<1> QED
  BY <1>2, <1>3 DEF IndInv

LEMMA TakeLineKeepsIndInv ==
  ASSUME IndInv, NEW ends \in BOOLEAN, TakeLine(ends)
  PROVE  IndInv'
<1> DEFINE text == SubSeq(inbuf, consumed + 1, FirstNewline)
<1>1. pc = "lines" /\ Newlines # {}
  BY DEF TakeLine
<1>2. /\ inbuf \in Seq(Bytes) /\ Len(inbuf) \in Nat /\ consumed \in Nat
      /\ FirstNewline \in Int /\ FirstNewline <= Len(inbuf) - 1
  BY <1>1, FirstNewlineIsFirst, LenProperties DEF IndInv, TypeOK
<1>3. \A i \in consumed + 1 .. FirstNewline : inbuf[i] \in Bytes
  BY <1>2, ElementOfSeq
<1>4. text \in Seq(Bytes)
  BY <1>2, <1>3, SubSeqProperties
<1> HIDE DEF text
<1>5. Chomp(text) \in Seq(Bytes) \cup {TooLong}
  BY <1>4, ChompType
<1>6. out' = Append(out, Chomp(text))
  BY DEF TakeLine, text
<1>7. out' \in Seq(Seq(Bytes) \cup {TooLong})
  BY <1>5, <1>6, AppendProperties DEF IndInv, TypeOK
<1>8. discarding' \in BOOLEAN /\ pc' \in {"lines", "ended"}
  BY DEF TakeLine, IndInv, TypeOK
<1> QED
  BY <1>1, <1>7, <1>8, PassingNewlineKeepsIndInv DEF TakeLine

(* What memmove keeps holds no newline: the search had reached the end.    *)
LEMMA NoMoreLinesKeepsIndInv ==
  ASSUME IndInv, NoMoreLines
  PROVE  IndInv'
<1>1. /\ pc = "lines" /\ Newlines = {} /\ pc' = "compact"
      /\ inbuf' = Kept(inbuf, consumed) /\ scanned' = Len(inbuf) - consumed
  BY DEF NoMoreLines
<1>2. /\ inbuf \in Seq(Bytes) /\ Len(inbuf) \in Nat /\ Len(inbuf) <= INBUF_SIZE
      /\ consumed \in Nat /\ search \in Nat /\ INBUF_SIZE \in Nat
      /\ consumed <= search /\ search <= Len(inbuf)
      /\ \A i \in consumed + 1 .. search : inbuf[i] # LF
  BY <1>1, LenProperties, SizeAssumption DEF IndInv, TypeOK, Searched
<1>3. /\ inbuf' \in Seq(Bytes)
      /\ Len(inbuf') = Len(inbuf) - consumed
      /\ \A i \in 1 .. Len(inbuf) - consumed : inbuf'[i] = inbuf[consumed + i]
  <2>1. consumed \in 0 .. Len(inbuf)
    BY <1>2
  <2> QED
    BY <1>1, <1>2, <2>1, KeptProperties
<1>4. ASSUME NEW i \in consumed + 1 .. Len(inbuf)
      PROVE  inbuf[i] # LF
  <2>1. CASE i <= search
    BY <1>2, <2>1
  <2>2. CASE ~(i <= search)
    <3>1. i - 1 \in search .. Len(inbuf) - 1 /\ (i - 1) + 1 = i
      BY <1>2, <2>2
    <3> QED
      BY <1>1, <3>1 DEF Newlines
  <2> QED
    BY <2>1, <2>2
<1>5. TypeOK'
  BY <1>1, <1>2, <1>3 DEF IndInv, TypeOK, NoMoreLines
<1>6. \A i \in 1 .. Len(inbuf') : inbuf'[i] # LF
  BY <1>2, <1>3, <1>4
<1>7. Searched' /\ ReadHasRoom'
  BY <1>1, <1>2, <1>3, <1>6 DEF Searched, ReadHasRoom
<1> QED
  BY <1>5, <1>7 DEF IndInv

LEMMA ContinueKeepsIndInv ==
  ASSUME IndInv, Continue
  PROVE  IndInv'
<1>1. TypeOK'
  BY DEF Continue, IndInv, TypeOK
<1>2. Len(inbuf) \in Nat /\ Len(inbuf) <= INBUF_SIZE /\ INBUF_SIZE \in Nat
  BY LenProperties, SizeAssumption DEF IndInv, TypeOK
<1>3. ReadHasRoom'
  BY <1>2 DEF Continue, Full, ReadHasRoom, Room
<1>4. Searched'
  BY DEF Continue, IndInv, Searched
<1> QED
  BY <1>1, <1>3, <1>4 DEF IndInv

LEMMA GiveUpLineKeepsIndInv ==
  ASSUME IndInv, GiveUpLine
  PROVE  IndInv'
<1>1. /\ inbuf' = <<>> /\ scanned' = 0 /\ discarding' = TRUE /\ pc' = "read"
      /\ consumed' = consumed /\ search' = search /\ stream' = stream
  BY DEF GiveUpLine
<1>2. <<>> \in Seq(Bytes) /\ Len(<<>>) = 0
  BY EmptySeq
<1>3. out' \in Seq(Seq(Bytes) \cup {TooLong})
  <2>1. out \in Seq(Seq(Bytes) \cup {TooLong})
    BY DEF IndInv, TypeOK
  <2>2. Append(out, TooLong) \in Seq(Seq(Bytes) \cup {TooLong})
    BY <2>1, AppendProperties
  <2> QED
    BY <2>1, <2>2 DEF GiveUpLine
<1>4. TypeOK'
  BY <1>1, <1>2, <1>3, SizeAssumption DEF IndInv, TypeOK
<1>5. ReadHasRoom' /\ Searched'
  BY <1>1, <1>2, SizeAssumption DEF ReadHasRoom, Room, Searched
<1> QED
  BY <1>4, <1>5 DEF IndInv

LEMMA ReplyFailsKeepsIndInv ==
  ASSUME IndInv, ReplyFails
  PROVE  IndInv'
<1>1. out' \in Seq(Seq(Bytes) \cup {TooLong})
  BY AppendProperties DEF ReplyFails, IndInv, TypeOK
<1>2. TypeOK'
  BY <1>1 DEF ReplyFails, IndInv, TypeOK
<1>3. ReadHasRoom' /\ Searched'
  BY DEF ReplyFails, ReadHasRoom, Searched
<1> QED
  BY <1>2, <1>3 DEF IndInv

LEMMA NextKeepsIndInv == IndInv /\ [Next]_vars => IndInv'
<1> SUFFICES ASSUME IndInv, [Next]_vars PROVE IndInv'
  OBVIOUS
<1>1. CASE \E n \in 1 .. Room : \E chunk \in [1 .. n -> Bytes] : Read(chunk)
  BY <1>1, ReadKeepsIndInv
<1>2. CASE EndDiscard
  BY <1>2, PassingNewlineKeepsIndInv DEF EndDiscard, IndInv, TypeOK
<1>3. CASE \E ends \in BOOLEAN : TakeLine(ends)
  BY <1>3, TakeLineKeepsIndInv
<1>4. CASE NoMoreLines
  BY <1>4, NoMoreLinesKeepsIndInv
<1>5. CASE Continue
  BY <1>5, ContinueKeepsIndInv
<1>6. CASE GiveUpLine
  BY <1>6, GiveUpLineKeepsIndInv
<1>7. CASE ReplyFails
  BY <1>7, ReplyFailsKeepsIndInv
<1>8. CASE UNCHANGED vars
  BY <1>8 DEF vars, IndInv, TypeOK, ReadHasRoom, Room, Searched
<1> QED
  BY <1>1, <1>2, <1>3, <1>4, <1>5, <1>6, <1>7, <1>8 DEF Next, ReadAny, Process

(* The buffer never outgrows its array, and whatever the search has passed *)
(* holds no newline that still has to end a line (io.c's communicate).     *)
THEOREM IndInvHolds == Spec => []IndInv
  BY InitIndInv, NextKeepsIndInv, PTL DEF Spec

(* However lines are cut into reads, communicate() never asks for zero     *)
(* bytes, whose result it would take for the client's FIN.                 *)
THEOREM ReadHasRoomHolds == Spec => []ReadHasRoom
<1>1. IndInv => ReadHasRoom
  BY DEF IndInv
<1> QED
  BY <1>1, IndInvHolds, PTL

(* No newline is left behind in front of where the next search starts, so  *)
(* no complete line waits in the buffer while the loop waits for bytes.    *)
THEOREM NothingMissedHolds == Spec => []NothingMissed
<1>1. IndInv => NothingMissed
  <2> SUFFICES ASSUME IndInv, pc = "read"
               PROVE  scanned = Len(inbuf) /\ LF \notin ToSet(inbuf)
    BY DEF NothingMissed
  <2>1. DOMAIN inbuf = 1 .. Len(inbuf)
    BY LenProperties DEF IndInv, TypeOK
  <2>2. scanned = Len(inbuf) /\ \A i \in 1 .. Len(inbuf) : inbuf[i] # LF
    BY DEF IndInv, Searched
  <2> QED
    BY <2>1, <2>2 DEF ToSet
<1> QED
  BY <1>1, IndInvHolds, PTL

-----------------------------------------------------------------------------
(* The reference: what a stream means, byte after byte *)

Said == Seq(Seq(Bytes) \cup {TooLong})
States == [line : Seq(Bytes), over : BOOLEAN, said : Said]
State(text, over, said) == [line |-> text, over |-> over, said |-> said]
Start == State(<<>>, FALSE, <<>>)

(* The recursion of Meanings has a solution.                               *)
LEMMA MeaningsRecursion ==
  ASSUME NEW bytes, Len(bytes) \in Nat
  PROVE  /\ Meanings(bytes)[0] = Start
         /\ \A i \in 1 .. Len(bytes) : Meanings(bytes)[i] = Meant(Meanings(bytes)[i - 1], bytes[i])
<1> DEFINE Walks(f, n) ==
             f = [i \in 0 .. n |-> IF i = 0 THEN Start ELSE Meant(f[i - 1], bytes[i])]
           T == {n \in Nat : \E f : Walks(f, n)}
<1>1. 0 \in T
  <2>1. Walks([i \in 0 .. 0 |-> Start], 0)
    OBVIOUS
  <2> QED
    BY <2>1
<1>2. ASSUME NEW n \in Nat, n \in T
      PROVE  n + 1 \in T
  <2>1. PICK f : Walks(f, n)
    BY <1>2
  <2> DEFINE g == [i \in 0 .. n + 1 |-> IF i \in 0 .. n THEN f[i] ELSE Meant(f[n], bytes[n + 1])]
  <2>2. \A i \in 0 .. n : i - 1 \in 0 .. n \/ i = 0
    OBVIOUS
  <2>3. \A i \in 0 .. n : f[i] = IF i = 0 THEN Start ELSE Meant(f[i - 1], bytes[i])
    BY <2>1
  <2>4. Walks(g, n + 1)
    BY <2>2, <2>3
  <2> HIDE DEF g, Walks
  <2> QED
    BY <2>4
<1>3. Len(bytes) \in T
  <2> HIDE DEF T
  <2> QED
    BY <1>1, <1>2, EveryNatural
<1>4. PICK f : Walks(f, Len(bytes))
  BY <1>3
<1>5. Meanings(bytes) = CHOOSE f2 : Walks(f2, Len(bytes))
  BY DEF Meanings, Start, State
<1>6. Walks(Meanings(bytes), Len(bytes))
  BY <1>4, <1>5
<1>7. \A i \in 1 .. Len(bytes) : i \in 0 .. Len(bytes) /\ i # 0
  OBVIOUS
<1> QED
  BY <1>6, <1>7

LEMMA MeantType ==
  ASSUME NEW s \in States, NEW byte \in Bytes
  PROVE  Meant(s, byte) \in States
<1>1. s.line \in Seq(Bytes) /\ s.over \in BOOLEAN /\ s.said \in Said
  BY DEF States
<1>2. Append(s.line, byte) \in Seq(Bytes) /\ <<>> \in Seq(Bytes)
  BY <1>1, AppendProperties, EmptySeq
<1>3. Append(s.said, Chomp(s.line)) \in Said /\ Append(s.said, TooLong) \in Said
  <2>1. Chomp(s.line) \in Seq(Bytes) \cup {TooLong} /\ TooLong \in Seq(Bytes) \cup {TooLong}
    BY <1>1, ChompType
  <2> QED
    BY <1>1, <2>1, AppendProperties DEF Said
<1> QED
  BY <1>1, <1>2, <1>3 DEF Meant, States

LEMMA MeaningsType ==
  ASSUME NEW bytes \in Seq(Bytes)
  PROVE  \A i \in 0 .. Len(bytes) : Meanings(bytes)[i] \in States
<1> DEFINE T == {i \in Nat : i <= Len(bytes) => Meanings(bytes)[i] \in States}
<1>1. Len(bytes) \in Nat /\ \A i \in 1 .. Len(bytes) : bytes[i] \in Bytes
  BY LenProperties, ElementOfSeq
<1>2. Start \in States
  BY EmptySeq DEF Start, State, States, Said
<1>3. 0 \in T
  BY <1>1, <1>2, MeaningsRecursion
<1>4. ASSUME NEW n \in Nat, n \in T
      PROVE  n + 1 \in T
  <2> SUFFICES ASSUME n + 1 <= Len(bytes) PROVE Meanings(bytes)[n + 1] \in States
    OBVIOUS
  <2>1. n + 1 \in 1 .. Len(bytes) /\ (n + 1) - 1 = n /\ n <= Len(bytes)
    BY <1>1
  <2>2. Meanings(bytes)[n + 1] = Meant(Meanings(bytes)[n], bytes[n + 1])
    BY <1>1, <2>1, MeaningsRecursion
  <2> QED
    BY <1>1, <1>4, <2>1, <2>2, MeantType
<1> HIDE DEF T
<1>5. \A n \in Nat : n \in T
  BY <1>3, <1>4, EveryNatural
<1> QED
  BY <1>5 DEF T

(* What more bytes mean does not change what the first ones meant.         *)
LEMMA MeaningsOfPrefix ==
  ASSUME NEW one \in Seq(Bytes), NEW other \in Seq(Bytes), NEW n \in Nat,
         n <= Len(one), n <= Len(other), \A i \in 1 .. n : one[i] = other[i]
  PROVE  \A i \in 0 .. n : Meanings(one)[i] = Meanings(other)[i]
<1> DEFINE T == {i \in Nat : i <= n => Meanings(one)[i] = Meanings(other)[i]}
<1>1. Len(one) \in Nat /\ Len(other) \in Nat
  BY LenProperties
<1>2. 0 \in T
  BY <1>1, MeaningsRecursion
<1>3. ASSUME NEW i \in Nat, i \in T
      PROVE  i + 1 \in T
  <2> SUFFICES ASSUME i + 1 <= n PROVE Meanings(one)[i + 1] = Meanings(other)[i + 1]
    OBVIOUS
  <2>1. /\ i + 1 \in 1 .. Len(one) /\ i + 1 \in 1 .. Len(other) /\ i + 1 \in 1 .. n
        /\ (i + 1) - 1 = i /\ i <= n
    BY <1>1
  <2>2. /\ Meanings(one)[i + 1] = Meant(Meanings(one)[i], one[i + 1])
        /\ Meanings(other)[i + 1] = Meant(Meanings(other)[i], other[i + 1])
    BY <1>1, <2>1, MeaningsRecursion
  <2> QED
    BY <1>3, <2>1, <2>2
<1> HIDE DEF T
<1>4. \A i \in Nat : i \in T
  BY <1>2, <1>3, EveryNatural
<1> QED
  BY <1>4 DEF T

(* A line that does not fill the buffer is collected byte by byte.         *)
LEMMA MeaningsOfLine ==
  ASSUME NEW bytes \in Seq(Bytes), NEW base \in Nat, NEW o, NEW s, NEW m \in Nat,
         base + m <= Len(bytes), m < INBUF_SIZE,
         Meanings(bytes)[base] = State(<<>>, o, s),
         \A i \in base + 1 .. base + m : bytes[i] # LF
  PROVE  Meanings(bytes)[base + m] =
           State(SubSeq(bytes, base + 1, base + m), o, s)
<1> DEFINE text(i) == SubSeq(bytes, base + 1, base + i)
           T == {i \in Nat : i <= m =>
                   Meanings(bytes)[base + i] = State(text(i), o, s)}
<1>1. /\ Len(bytes) \in Nat /\ INBUF_SIZE \in Nat
      /\ \A i \in 1 .. Len(bytes) : bytes[i] \in Bytes
  BY LenProperties, ElementOfSeq, SizeAssumption
<1>2. 0 \in T
  <2>1. text(0) = <<>>
    BY <1>1, SubSeqEmpty
  <2>2. base + 0 = base
    OBVIOUS
  <2>3. Meanings(bytes)[base + 0] = State(text(0), o, s)
    BY <2>1, <2>2
  <2> QED
    BY <2>3
<1>3. ASSUME NEW i \in Nat, i \in T
      PROVE  i + 1 \in T
  <2> SUFFICES ASSUME i + 1 <= m
               PROVE  Meanings(bytes)[base + (i + 1)] = State(text(i + 1), o, s)
    OBVIOUS
  <2> DEFINE k == base + (i + 1)
  <2>1. /\ k \in 1 .. Len(bytes) /\ k - 1 = base + i /\ i <= m /\ i + 1 < INBUF_SIZE
        /\ k \in base + 1 .. base + m
    BY <1>1
  <2>2. Meanings(bytes)[k] = Meant(Meanings(bytes)[base + i], bytes[k])
    BY <1>1, <2>1, MeaningsRecursion
  <2>3. Meanings(bytes)[base + i] = State(text(i), o, s)
    BY <1>3, <2>1
  <2>4. bytes[k] # LF
    BY <2>1
  <2>5. \A j \in base + 1 .. base + (i + 1) : bytes[j] \in Bytes
    BY <1>1
  <2>6. Len(text(i)) = i
    <3>1. \A j \in base + 1 .. base + i : bytes[j] \in Bytes
      BY <1>1, <2>1
    <3>2. Len(text(i)) = IF base + 1 <= base + i THEN base + i - (base + 1) + 1 ELSE 0
      BY <1>1, <3>1, SubSeqProperties
    <3> QED
      BY <3>2
  <2>7. Append(text(i), bytes[k]) = text(i + 1)
    <3>1. base + 1 \in Int /\ k \in Int /\ base + 1 <= k /\ k - 1 = base + i
      BY <2>1
    <3>2. SubSeq(bytes, base + 1, k) = Append(SubSeq(bytes, base + 1, k - 1), bytes[k])
      BY <1>1, <2>1, <3>1, SubSeqRecursiveSecond
    <3> QED
      BY <3>1, <3>2
  <2> HIDE DEF text, k
  <2>8. Meanings(bytes)[k] = State(Append(text(i), bytes[k]), o, s)
    <3>1. PICK st : st = State(text(i), o, s)
      OBVIOUS
    <3>2. Len(st.line) + 1 < INBUF_SIZE
      BY <2>1, <2>6, <3>1 DEF State
    <3>3. Meant(st, bytes[k]) = [st EXCEPT !.line = Append(@, bytes[k])]
      BY <2>4, <3>2 DEF Meant
    <3> QED
      BY <2>2, <2>3, <3>1, <3>3 DEF State
  <2> QED
    BY <2>7, <2>8 DEF k
<1> HIDE DEF T
<1>4. m \in T
  BY <1>2, <1>3, EveryNatural
<1> QED
  BY <1>4 DEF T

(* Nothing that was said is taken back.                                    *)
LEMMA MeaningGrows ==
  ASSUME NEW bytes \in Seq(Bytes), NEW i \in 0 .. Len(bytes)
  PROVE  IsPrefix(Meanings(bytes)[i].said, Meaning(bytes))
<1> DEFINE said(j) == Meanings(bytes)[j].said
           Longer(j) == /\ Len(said(i)) <= Len(said(j))
                        /\ \A k \in 1 .. Len(said(i)) : said(j)[k] = said(i)[k]
           T == {d \in Nat : i + d <= Len(bytes) => Longer(i + d)}
<1>1. /\ Len(bytes) \in Nat /\ i \in Nat
      /\ \A j \in 0 .. Len(bytes) : said(j) \in Said /\ Len(said(j)) \in Nat
  BY LenProperties, MeaningsType DEF States, Said
<1>2. 0 \in T
  BY <1>1
<1>3. ASSUME NEW d \in Nat, d \in T
      PROVE  d + 1 \in T
  <2> SUFFICES ASSUME i + (d + 1) <= Len(bytes) PROVE Longer(i + (d + 1))
    OBVIOUS
  <2> DEFINE k == i + (d + 1)
  <2>1. k \in 1 .. Len(bytes) /\ k - 1 = i + d /\ i + d \in 0 .. Len(bytes) /\ i + d <= Len(bytes)
    BY <1>1
  <2>2. Meanings(bytes)[k] = Meant(Meanings(bytes)[i + d], bytes[k])
    BY <1>1, <2>1, MeaningsRecursion
  <2>3. Longer(i + d)
    BY <1>3, <2>1
  <2>4. PICK x \in Seq(Bytes) \cup {TooLong} :
          said(k) = said(i + d) \/ said(k) = Append(said(i + d), x)
    <3>1. Meanings(bytes)[i + d] \in States
      BY <2>1, MeaningsType
    <3>2. Chomp(Meanings(bytes)[i + d].line) \in Seq(Bytes)
      BY <3>1, ChompType DEF States
    <3>3. said(k) \in {said(i + d), Append(said(i + d), TooLong),
                       Append(said(i + d), Chomp(Meanings(bytes)[i + d].line))}
      BY <2>2, <3>1 DEF Meant, States
    <3> QED
      BY <3>2, <3>3
  <2>5. /\ Len(said(i + d)) <= Len(said(k))
        /\ \A j \in 1 .. Len(said(i + d)) : said(k)[j] = said(i + d)[j]
    <3>1. said(i + d) \in Said /\ Len(said(i + d)) \in Nat
      BY <1>1, <2>1
    <3> HIDE DEF said
    <3>2. CASE said(k) = said(i + d)
      BY <3>1, <3>2
    <3>3. CASE said(k) = Append(said(i + d), x)
      <4>1. PICK before : before = said(i + d)
        OBVIOUS
      <4>2. /\ Len(Append(before, x)) = Len(before) + 1
            /\ \A j \in 1 .. Len(before) : Append(before, x)[j] = before[j]
        BY <3>1, <4>1, AppendProperties DEF Said
      <4> QED
        BY <3>1, <3>3, <4>1, <4>2
    <3> QED
      BY <2>4, <3>2, <3>3
  <2>6. Len(said(i)) \in Nat /\ Len(said(i + d)) \in Nat /\ Len(said(k)) \in Nat
    BY <1>1, <2>1
  <2> HIDE DEF said
  <2> QED
    BY <2>3, <2>5, <2>6
<1>4. Longer(Len(bytes))
  <2>1. Len(bytes) - i \in Nat /\ i + (Len(bytes) - i) = Len(bytes)
    BY <1>1
  <2>2. Len(bytes) - i \in T
    <3> HIDE DEF T
    <3> QED
      BY <1>2, <1>3, <2>1, EveryNatural
  <2> QED
    BY <2>1, <2>2
<1> QED
  <2> DEFINE t == Meaning(bytes)
             s == said(i)
  <2>1. t = said(Len(bytes)) /\ s \in Said /\ t \in Said /\ Len(s) \in Nat /\ Len(t) \in Nat
    BY <1>1 DEF Meaning
  <2>2. Len(s) <= Len(t) /\ \A k \in 1 .. Len(s) : t[k] = s[k]
    BY <1>4, <2>1
  <2> HIDE DEF t, s, said
  <2>3. /\ SubSeq(s, 1, Len(s)) \in Said /\ Len(SubSeq(s, 1, Len(s))) = Len(s)
        /\ \A k \in 1 .. Len(s) : SubSeq(s, 1, Len(s))[k] = s[k]
    BY <2>1, PrefixProperties DEF Said
  <2>4. /\ SubSeq(t, 1, Len(s)) \in Said /\ Len(SubSeq(t, 1, Len(s))) = Len(s)
        /\ \A k \in 1 .. Len(s) : SubSeq(t, 1, Len(s))[k] = t[k]
    <3>1. Len(s) \in 0 .. Len(t)
      BY <2>1, <2>2
    <3> QED
      BY <2>1, <3>1, PrefixProperties DEF Said
  <2>5. SubSeq(s, 1, Len(s)) = SubSeq(t, 1, Len(s))
    BY <2>1, <2>2, <2>3, <2>4, SeqEqual DEF Said
  <2>6. IsPrefix(s, t)
    BY <2>2, <2>5 DEF IsPrefix
  <2> QED
    BY <2>6 DEF s, t, said

-----------------------------------------------------------------------------
(* The loop and the reference in step *)

(* How much of the buffer belongs to lines already taken, and where in the *)
(* stream the buffer begins.                                               *)
Taken == IF pc \in {"lines", "ended"} THEN consumed ELSE 0
Begin == Len(stream) - Len(inbuf)

(* The buffer is the end of the stream, and where the line that is being   *)
(* collected begins, the stream means what the loop has said.              *)
InStep ==
  /\ Begin >= 0
  /\ \A i \in 1 .. Len(inbuf) : inbuf[i] = stream[Begin + i]
  /\ Meanings(stream)[Begin + Taken] = State(<<>>, discarding, out)

Framing == IndInv /\ Taken <= Len(inbuf) /\ InStep

(* A connection that ends because "Message too long" did not get out has    *)
(* said what its stream means, but not reset its buffer.                   *)
FramingInv == Framing \/ (IndInv /\ pc = "ended" /\ out = Meaning(stream))

LEMMA FramingTypes ==
  ASSUME Framing
  PROVE  /\ inbuf \in Seq(Bytes) /\ Len(inbuf) \in Nat /\ Len(inbuf) <= INBUF_SIZE
         /\ stream \in Seq(Bytes) /\ Len(stream) \in Nat
         /\ Begin \in Nat /\ Taken \in Nat /\ Begin + Len(inbuf) = Len(stream)
         /\ INBUF_SIZE \in Nat /\ INBUF_SIZE > 0
<1>1. /\ inbuf \in Seq(Bytes) /\ Len(inbuf) \in Nat /\ Len(inbuf) <= INBUF_SIZE
      /\ stream \in Seq(Bytes) /\ Len(stream) \in Nat
      /\ INBUF_SIZE \in Nat /\ INBUF_SIZE > 0 /\ consumed \in Nat
  BY LenProperties, SizeAssumption DEF Framing, IndInv, TypeOK
<1> QED
  BY <1>1 DEF Framing, InStep, Begin, Taken

(* What part of a line the buffer holds, the stream holds, and means.      *)
LEMMA LineInBuffer ==
  ASSUME Framing, NEW last \in Nat, Taken <= last, last <= Len(inbuf),
         last - Taken < INBUF_SIZE, \A i \in Taken + 1 .. last : inbuf[i] # LF
  PROVE  Meanings(stream)[Begin + last] =
           State(SubSeq(inbuf, Taken + 1, last), discarding, out)
<1>0. PICK base, m : base = Begin + Taken /\ m = last - Taken
  OBVIOUS
<1>1. /\ inbuf \in Seq(Bytes) /\ Len(inbuf) \in Nat
      /\ stream \in Seq(Bytes) /\ Len(stream) \in Nat
      /\ Begin \in Nat /\ Taken \in Nat /\ Begin + Len(inbuf) = Len(stream)
  BY FramingTypes
<1>2. \A i \in 1 .. Len(inbuf) : inbuf[i] = stream[Begin + i]
  BY DEF Framing, InStep
<1>3. /\ base \in Nat /\ m \in Nat /\ base + m = Begin + last
      /\ base + m <= Len(stream) /\ m < INBUF_SIZE /\ Taken + m = last
  BY <1>0, <1>1
<1>8. /\ stream \in Seq(Bytes)
       /\ base \in Nat /\ m \in Nat /\ base + m <= Len(stream) /\ m < INBUF_SIZE
  BY <1>1, <1>3
<1>4. \A i \in base + 1 .. base + m : stream[i] # LF
  <2> TAKE i \in base + 1 .. base + m
  <2>1. i - Begin \in Taken + 1 .. last /\ i - Begin \in 1 .. Len(inbuf) /\ Begin + (i - Begin) = i
    BY <1>0, <1>1, <1>3
  <2> QED
    BY <1>2, <2>1
<1>5. Meanings(stream)[base] = State(<<>>, discarding, out)
  BY <1>0 DEF Framing, InStep
<1>6. Meanings(stream)[base + m] =
        State(SubSeq(stream, base + 1, base + m), discarding, out)
  <2>1. \A o, s :
          Meanings(stream)[base] = State(<<>>, o, s) =>
            Meanings(stream)[base + m] =
              State(SubSeq(stream, base + 1, base + m), o, s)
    BY <1>4, <1>8, MeaningsOfLine
  <2> QED
    BY <1>5, <2>1
<1>7. SubSeq(stream, base + 1, base + m) = SubSeq(inbuf, Taken + 1, Taken + m)
  <2>1. PICK s, t : s = SubSeq(stream, base + 1, base + m) /\ t = SubSeq(inbuf, Taken + 1, Taken + m)
    OBVIOUS
  <2>2. /\ s \in Seq(Bytes) /\ Len(s) = m
        /\ \A i \in 1 .. m : s[i] = stream[base + i]
    BY <1>8, <2>1, PieceProperties
  <2>3. /\ t \in Seq(Bytes) /\ Len(t) = m
        /\ \A i \in 1 .. m : t[i] = inbuf[Taken + i]
    BY <1>1, <1>3, <2>1, PieceProperties
  <2>4. \A i \in 1 .. m : s[i] = t[i]
    <3> TAKE i \in 1 .. m
    <3>1. Taken + i \in 1 .. Len(inbuf) /\ base + i = Begin + (Taken + i)
      BY <1>0, <1>1, <1>3
    <3> QED
      BY <1>2, <2>2, <2>3, <3>1
  <2>5. s = t
    BY <2>2, <2>3, <2>4, SeqEqual
  <2> QED
    BY <2>1, <2>5
<1> QED
  BY <1>3, <1>6, <1>7

(* The byte behind that part of a line.                                    *)
LEMMA ByteAfterLine ==
  ASSUME Framing, NEW last \in Nat, last < Len(inbuf)
  PROVE  Meanings(stream)[Begin + (last + 1)] = Meant(Meanings(stream)[Begin + last], inbuf[last + 1])
<1>1. Begin \in Nat /\ Len(inbuf) \in Nat /\ Begin + Len(inbuf) = Len(stream) /\ Len(stream) \in Nat
  BY FramingTypes
<1>2. Begin + (last + 1) \in 1 .. Len(stream) /\ Begin + (last + 1) - 1 = Begin + last
      /\ last + 1 \in 1 .. Len(inbuf)
  BY <1>1
<1>3. stream[Begin + (last + 1)] = inbuf[last + 1]
  BY <1>2 DEF Framing, InStep
<1> QED
  BY <1>1, <1>2, <1>3, MeaningsRecursion

(* An empty buffer of an empty stream.                                     *)
LEMMA InitFraming == Init => FramingInv
<1> SUFFICES ASSUME Init PROVE Framing
  BY DEF FramingInv
<1>1. IndInv
  BY InitIndInv
<1>2. /\ inbuf = <<>> /\ stream = <<>> /\ pc = "read" /\ discarding = FALSE /\ out = <<>>
      /\ Len(inbuf) = 0 /\ Len(stream) = 0
  BY EmptySeq DEF Init
<1>3. Taken = 0 /\ Begin = 0
  BY <1>2 DEF Taken, Begin
<1>4. Meanings(stream)[0] = State(<<>>, discarding, out)
  BY <1>2, MeaningsRecursion DEF Start
<1> QED
  BY <1>1, <1>2, <1>3, <1>4 DEF Framing, InStep

(* A read lengthens buffer and stream alike, behind what is understood.    *)
LEMMA ReadKeepsFraming ==
  ASSUME Framing, NEW n \in 1 .. Room, NEW chunk \in [1 .. n -> Bytes], Read(chunk)
  PROVE  Framing'
<1>1. IndInv'
  BY ReadKeepsIndInv DEF Framing
<1>2. /\ inbuf \in Seq(Bytes) /\ stream \in Seq(Bytes) /\ Len(inbuf) \in Nat
      /\ Len(stream) \in Nat /\ Begin \in Nat /\ Begin + Len(inbuf) = Len(stream)
      /\ INBUF_SIZE \in Nat
  BY FramingTypes
<1>3. /\ inbuf' = inbuf \o chunk /\ stream' = stream \o chunk /\ consumed' = 0
      /\ pc = "read" /\ pc' = "lines" /\ discarding' = discarding /\ out' = out
  BY DEF Read
<1>4. chunk \in Seq(Bytes) /\ Len(chunk) = n /\ n \in Nat
  <2>1. n \in Nat
    BY <1>2 DEF Room
  <2>2. chunk \in Seq(Bytes)
    BY <2>1, SeqDef
  <2> QED
    BY <2>1, <2>2, LenProperties
<1>5. /\ inbuf' \in Seq(Bytes) /\ Len(inbuf') = Len(inbuf) + n
      /\ \A i \in 1 .. Len(inbuf) + n :
           inbuf'[i] = IF i <= Len(inbuf) THEN inbuf[i] ELSE chunk[i - Len(inbuf)]
  <2>1. /\ inbuf \o chunk \in Seq(Bytes)
        /\ Len(inbuf \o chunk) = Len(inbuf) + Len(chunk)
        /\ \A i \in 1 .. Len(inbuf) + Len(chunk) : (inbuf \o chunk)[i] =
              IF i <= Len(inbuf) THEN inbuf[i] ELSE chunk[i - Len(inbuf)]
    BY <1>2, <1>4, ConcatProperties, Zenon
  <2> QED
    BY <1>3, <1>4, <2>1
<1>6. /\ stream' \in Seq(Bytes) /\ Len(stream') = Len(stream) + n
      /\ \A i \in 1 .. Len(stream) + n :
           stream'[i] = IF i <= Len(stream) THEN stream[i] ELSE chunk[i - Len(stream)]
  BY <1>2, <1>3, <1>4, ConcatProperties
<1>7. Begin' = Begin /\ Taken' = 0 /\ Taken = 0 /\ Taken' <= Len(inbuf')
  BY <1>2, <1>3, <1>4, <1>5, <1>6 DEF Begin, Taken
<1>8. ASSUME NEW i \in 1 .. Len(inbuf')
      PROVE  inbuf'[i] = stream'[Begin + i]
  <2>1. Begin + i \in 1 .. Len(stream) + n /\ i \in 1 .. Len(inbuf) + n
    BY <1>2, <1>4, <1>5
  <2>2. CASE i <= Len(inbuf)
    <3>1. i \in 1 .. Len(inbuf) /\ Begin + i <= Len(stream)
      BY <1>2, <2>1, <2>2
    <3>2. inbuf[i] = stream[Begin + i]
      BY <3>1 DEF Framing, InStep
    <3> QED
      BY <1>5, <1>6, <2>1, <3>1, <3>2
  <2>3. CASE ~(i <= Len(inbuf))
    <3>1. ~(Begin + i <= Len(stream)) /\ (Begin + i) - Len(stream) = i - Len(inbuf)
      BY <1>2, <2>1, <2>3
    <3> QED
      BY <1>5, <1>6, <2>1, <2>3, <3>1
  <2> QED
    BY <2>2, <2>3
<1>9. Meanings(stream')[Begin] = Meanings(stream)[Begin]
  <2>1. \A i \in 1 .. Begin : stream'[i] = stream[i]
    BY <1>2, <1>4, <1>6
  <2>2. Begin <= Len(stream') /\ Begin <= Len(stream) /\ Begin \in 0 .. Begin
    BY <1>2, <1>4, <1>6
  <2> QED
    BY <1>2, <1>6, <2>1, <2>2, MeaningsOfPrefix
<1>10. Meanings(stream')[Begin' + Taken'] = State(<<>>, discarding', out')
  <2>1. Begin + Taken = Begin /\ Begin' + Taken' = Begin
    BY <1>2, <1>7
  <2>2. Meanings(stream)[Begin] = State(<<>>, discarding, out)
    BY <2>1 DEF Framing, InStep
  <2> QED
    BY <1>3, <1>9, <2>1, <2>2
<1> QED
  <2>1. Begin' >= 0 /\ \A i \in 1 .. Len(inbuf') : inbuf'[i] = stream'[Begin' + i]
    BY <1>2, <1>7, <1>8
  <2> QED
    BY <1>1, <1>7, <1>10, <2>1 DEF Framing, InStep

LEMMA FirstNewlineIsLeast ==
  ASSUME IndInv, Newlines # {}
  PROVE  \A j \in Newlines : FirstNewline <= j
<1>1. search \in Nat /\ Len(inbuf) \in Nat
  BY LenProperties DEF IndInv, TypeOK
<1>2. Newlines \subseteq Nat
  BY <1>1 DEF Newlines
<1>3. \E i \in Newlines : \A j \in Newlines : i <= j
  BY <1>2, LeastNatural
<1> QED
  BY <1>3 DEF FirstNewline

(* What the loop finds in front of a newline is what the stream means.     *)
LEMMA MeaningAtNewline ==
  ASSUME Framing, pc = "lines", Newlines # {}
  PROVE  Meanings(stream)[Begin + NextLine(FirstNewline)] =
           State(<<>>, FALSE,
                 IF discarding THEN out
                 ELSE Append(out, Chomp(SubSeq(inbuf, consumed + 1, FirstNewline))))
<1>1. PICK f : f = FirstNewline
  OBVIOUS
<1>2. /\ f \in search .. Len(inbuf) - 1 /\ inbuf[f + 1] = LF
      /\ \A j \in Newlines : f <= j
  BY <1>1, FirstNewlineIsFirst, FirstNewlineIsLeast DEF Framing
<1>3. /\ Len(inbuf) \in Nat /\ Len(inbuf) <= INBUF_SIZE /\ INBUF_SIZE \in Nat
      /\ Begin \in Nat /\ consumed \in Nat /\ search \in Nat /\ consumed <= search
      /\ Taken = consumed /\ discarding \in BOOLEAN
  BY FramingTypes DEF Framing, IndInv, TypeOK, Searched, Taken
<1>4. f \in Nat /\ Taken <= f /\ f < Len(inbuf) /\ f <= Len(inbuf) /\ f - Taken < INBUF_SIZE
  BY <1>2, <1>3
<1>5. ASSUME NEW i \in Taken + 1 .. f
      PROVE  inbuf[i] # LF
  <2>1. CASE i <= search
    <3>1. i \in consumed + 1 .. search
      BY <1>3, <2>1
    <3> QED
      BY <3>1 DEF Framing, IndInv, Searched
  <2>2. CASE ~(i <= search)
    <3>1. i - 1 \in search .. Len(inbuf) - 1 /\ (i - 1) + 1 = i /\ ~(f <= i - 1)
      BY <1>2, <1>3, <2>2
    <3> QED
      BY <1>2, <3>1 DEF Newlines
  <2> QED
    BY <2>1, <2>2
<1>6. Meanings(stream)[Begin + f] = State(SubSeq(inbuf, Taken + 1, f), discarding, out)
  BY <1>4, <1>5, LineInBuffer
<1>7. Meanings(stream)[Begin + (f + 1)] = Meant(Meanings(stream)[Begin + f], LF)
  BY <1>2, <1>4, ByteAfterLine
<1>8. Meant(State(SubSeq(inbuf, Taken + 1, f), discarding, out), LF) =
        State(<<>>, FALSE, IF discarding THEN out
                           ELSE Append(out, Chomp(SubSeq(inbuf, Taken + 1, f))))
  BY DEF Meant, State
<1> QED
  BY <1>1, <1>3, <1>6, <1>7, <1>8 DEF NextLine

(* The lines of the buffer end where the stream's lines do.                *)
LEMMA PassingNewlineKeepsFraming ==
  ASSUME Framing, IndInv', pc = "lines", Newlines # {},
         inbuf' = inbuf, stream' = stream, consumed' = NextLine(FirstNewline),
         pc' \in {"lines", "ended"}, discarding' = FALSE,
         out' = IF discarding THEN out
                ELSE Append(out, Chomp(SubSeq(inbuf, consumed + 1, FirstNewline)))
  PROVE  Framing'
<1>1. Begin' = Begin /\ Taken' = NextLine(FirstNewline)
  BY DEF Begin, Taken
<1>2. Taken' <= Len(inbuf')
  <2>1. Len(inbuf) \in Nat /\ search \in Nat
    BY FramingTypes DEF Framing, IndInv, TypeOK
  <2>2. NextLine(FirstNewline) \in search + 1 .. Len(inbuf)
    BY FirstNewlineIsFirst DEF Framing
  <2> QED
    BY <1>1, <2>1, <2>2
<1>3. Meanings(stream')[Begin' + Taken'] = State(<<>>, discarding', out')
  BY <1>1, MeaningAtNewline
<1> QED
  BY <1>1, <1>2, <1>3 DEF Framing, InStep

(* memmove moves the beginning of the buffer along the stream.             *)
LEMMA NoMoreLinesKeepsFraming ==
  ASSUME Framing, NoMoreLines
  PROVE  Framing'
<1>1. IndInv'
  BY NoMoreLinesKeepsIndInv DEF Framing
<1>2. /\ pc = "lines" /\ pc' = "compact" /\ inbuf' = Kept(inbuf, consumed)
      /\ stream' = stream /\ discarding' = discarding /\ out' = out
  BY DEF NoMoreLines
<1>3. /\ inbuf \in Seq(Bytes) /\ Len(inbuf) \in Nat /\ Len(stream) \in Nat
      /\ Begin \in Nat /\ Begin + Len(inbuf) = Len(stream)
      /\ Taken = consumed /\ consumed \in Nat /\ consumed \in 0 .. Len(inbuf)
  BY <1>2, FramingTypes DEF Taken, Framing
<1>4. /\ Len(inbuf') = Len(inbuf) - consumed
      /\ \A i \in 1 .. Len(inbuf) - consumed : inbuf'[i] = inbuf[consumed + i]
  BY <1>2, <1>3, KeptProperties
<1>5. Begin' = Begin + consumed /\ Taken' = 0 /\ Taken' <= Len(inbuf')
  BY <1>2, <1>3, <1>4 DEF Begin, Taken
<1>6. ASSUME NEW i \in 1 .. Len(inbuf')
      PROVE  inbuf'[i] = stream[Begin + consumed + i]
  <2>1. /\ consumed + i \in 1 .. Len(inbuf) /\ i \in 1 .. Len(inbuf) - consumed
        /\ Begin + consumed + i = Begin + (consumed + i)
    BY <1>3, <1>4
  <2>2. inbuf[consumed + i] = stream[Begin + (consumed + i)]
    BY <2>1 DEF Framing, InStep
  <2> QED
    BY <1>4, <2>1, <2>2
<1>7. Meanings(stream')[Begin' + Taken'] = State(<<>>, discarding', out')
  <2>1. Begin' + Taken' = Begin + Taken
    BY <1>3, <1>5
  <2> QED
    BY <1>2, <2>1 DEF Framing, InStep
<1>8. Begin' >= 0
  BY <1>3, <1>5
<1> QED
  BY <1>1, <1>2, <1>5, <1>6, <1>7, <1>8 DEF Framing, InStep

(* The last byte of a full buffer makes the line too long.                 *)
LEMMA FullBufferMeaning ==
  ASSUME Framing, pc = "compact", Full(inbuf)
  PROVE  Meanings(stream)[Len(stream)] =
           State(<<>>, TRUE, IF discarding THEN out ELSE Append(out, TooLong))
<1>2. Len(inbuf) = INBUF_SIZE
  BY DEF Full
<1>3. /\ inbuf \in Seq(Bytes) /\ Len(inbuf) \in Nat /\ Len(stream) \in Nat
      /\ Begin \in Nat /\ Begin + Len(inbuf) = Len(stream)
      /\ Taken = 0 /\ INBUF_SIZE \in Nat /\ INBUF_SIZE > 0
  BY FramingTypes DEF Taken
<1>4. PICK last : last = INBUF_SIZE - 1
  OBVIOUS
<1>5. /\ last \in Nat /\ Taken <= last /\ last < Len(inbuf) /\ last <= Len(inbuf)
      /\ last - Taken < INBUF_SIZE /\ last + 1 = INBUF_SIZE
  BY <1>2, <1>3, <1>4
<1>6. \A i \in 1 .. Len(inbuf) : inbuf[i] # LF
  BY DEF Framing, IndInv, Searched
<1>7. Meanings(stream)[Begin + last] = State(SubSeq(inbuf, 0 + 1, 0 + last), discarding, out)
  <2>1. \A i \in Taken + 1 .. last : inbuf[i] # LF
    BY <1>3, <1>5, <1>6
  <2>2. Meanings(stream)[Begin + last] = State(SubSeq(inbuf, Taken + 1, last), discarding, out)
    BY <1>5, <2>1, LineInBuffer
  <2>3. Taken + 1 = 0 + 1 /\ last = 0 + last
    BY <1>3, <1>5
  <2> QED
    BY <2>2, <2>3
<1>8. Meanings(stream)[Begin + (last + 1)] = Meant(Meanings(stream)[Begin + last], inbuf[last + 1])
  BY <1>5, ByteAfterLine
<1>9. PICK text : text = SubSeq(inbuf, 0 + 1, 0 + last)
  OBVIOUS
<1>10. Len(text) = last
  <2>1. 0 \in Nat /\ 0 + last <= Len(inbuf)
    BY <1>5
  <2> QED
    BY <1>3, <1>5, <1>9, <2>1, PieceProperties
<1>11. ~(Len(text) + 1 < INBUF_SIZE) /\ inbuf[last + 1] # LF
  BY <1>2, <1>3, <1>5, <1>6, <1>10
<1>12. Meant(State(text, discarding, out), inbuf[last + 1]) =
         State(<<>>, TRUE, IF discarding THEN out ELSE Append(out, TooLong))
  BY <1>11 DEF Meant, State
<1>13. Begin + (last + 1) = Len(stream)
  BY <1>2, <1>3, <1>5
<1> QED
  BY <1>7, <1>8, <1>9, <1>12, <1>13

(* Giving up a full buffer says once what the reference says once.         *)
LEMMA GiveUpLineKeepsFraming ==
  ASSUME Framing, GiveUpLine
  PROVE  Framing'
<1>1. IndInv'
  BY GiveUpLineKeepsIndInv DEF Framing
<1>2. /\ pc = "compact" /\ pc' = "read" /\ inbuf' = <<>> /\ stream' = stream
      /\ discarding' = TRUE /\ out' = IF discarding THEN out ELSE Append(out, TooLong)
  BY DEF GiveUpLine
<1>3. Meanings(stream)[Len(stream)] = State(<<>>, discarding', out')
  BY <1>2, FullBufferMeaning DEF GiveUpLine
<1>4. Taken' = 0 /\ Len(inbuf') = 0 /\ Begin' = Len(stream) /\ Len(stream) \in Nat
  <2>1. Len(inbuf') = 0 /\ Len(stream) \in Nat
    BY <1>2, EmptySeq, FramingTypes
  <2> QED
    BY <1>2, <2>1 DEF Begin, Taken
<1>5. Meanings(stream')[Begin' + Taken'] = State(<<>>, discarding', out')
  <2>1. Begin' + Taken' = Len(stream)
    BY <1>4
  <2>2. Meanings(stream') = Meanings(stream)
    BY <1>2
  <2> QED
    BY ONLY <1>3, <2>1, <2>2
<1>6. Taken' <= Len(inbuf') /\ Begin' >= 0 /\ \A i \in 1 .. Len(inbuf') : inbuf'[i] = stream'[Begin' + i]
  BY <1>4
<1> QED
  BY <1>1, <1>5, <1>6 DEF Framing, InStep

LEMMA ReplyFailsKeepsFraming ==
  ASSUME Framing, ReplyFails
  PROVE  FramingInv'
<1>1. IndInv'
  BY ReplyFailsKeepsIndInv DEF Framing
<1>2. /\ pc = "compact" /\ Full(inbuf) /\ pc' = "ended" /\ stream' = stream
      /\ ~discarding /\ out' = Append(out, TooLong)
  BY DEF ReplyFails
<1>3. Meanings(stream)[Len(stream)] = State(<<>>, TRUE, out')
  BY <1>2, FullBufferMeaning
<1>4. Meaning(stream) = out'
  BY <1>3 DEF Meaning, State
<1> QED
  BY <1>1, <1>2, <1>4 DEF FramingInv

LEMMA NextKeepsFraming == FramingInv /\ [Next]_vars => FramingInv'
<1> SUFFICES ASSUME FramingInv, [Next]_vars PROVE FramingInv'
  OBVIOUS
<1>0. ASSUME Next PROVE Framing
  BY <1>0 DEF FramingInv, Next, ReadAny, Read, Process, EndDiscard, TakeLine, NoMoreLines,
              Continue, GiveUpLine, ReplyFails
<1>1. IndInv'
  BY NextKeepsIndInv DEF FramingInv, Framing
<1>2. CASE \E n \in 1 .. Room : \E chunk \in [1 .. n -> Bytes] : Read(chunk)
  BY <1>0, <1>2, ReadKeepsFraming DEF Next, ReadAny, FramingInv
<1>3. CASE EndDiscard
  <2>1. /\ pc = "lines" /\ Newlines # {} /\ inbuf' = inbuf /\ stream' = stream
        /\ consumed' = NextLine(FirstNewline) /\ pc' \in {"lines", "ended"}
        /\ discarding' = FALSE /\ discarding /\ out' = out
    BY <1>3 DEF EndDiscard
  <2>2. Framing
    BY <1>0, <1>3 DEF Next, Process
  <2> QED
    BY <1>1, <2>1, <2>2, PassingNewlineKeepsFraming DEF FramingInv
<1>4. CASE \E ends \in BOOLEAN : TakeLine(ends)
  <2>1. PICK ends \in BOOLEAN : TakeLine(ends)
    BY <1>4
  <2>2. /\ pc = "lines" /\ Newlines # {} /\ inbuf' = inbuf /\ stream' = stream
        /\ consumed' = NextLine(FirstNewline) /\ pc' \in {"lines", "ended"}
        /\ ~discarding /\ discarding' = discarding
        /\ out' = Append(out, Chomp(SubSeq(inbuf, consumed + 1, FirstNewline)))
    BY <2>1 DEF TakeLine
  <2>3. discarding' = FALSE
    BY <2>2 DEF FramingInv, Framing, IndInv, TypeOK
  <2>4. Framing
    BY <1>0, <1>4 DEF Next, Process
  <2> QED
    BY <1>1, <2>2, <2>3, <2>4, PassingNewlineKeepsFraming DEF FramingInv
<1>5. CASE NoMoreLines
  BY <1>0, <1>5, NoMoreLinesKeepsFraming DEF Next, Process, FramingInv
<1>6. CASE Continue
  <2>1. Begin' = Begin /\ Taken' = 0 /\ Taken = 0
    BY <1>6 DEF Continue, Begin, Taken
  <2>2. Framing
    BY <1>0, <1>6 DEF Next, Process
  <2> QED
    BY <1>1, <1>6, <2>1, <2>2 DEF Continue, FramingInv, Framing, InStep
<1>7. CASE GiveUpLine
  BY <1>0, <1>7, GiveUpLineKeepsFraming DEF Next, Process, FramingInv
<1>8. CASE ReplyFails
  BY <1>0, <1>8, ReplyFailsKeepsFraming DEF Next, Process
<1>9. CASE UNCHANGED vars
  <2>1. Begin' = Begin /\ Taken' = Taken
    BY <1>9 DEF vars, Begin, Taken
  <2>2. ASSUME Framing PROVE Framing'
    BY <1>1, <1>9, <2>1, <2>2 DEF vars, Framing, InStep
  <2>3. ASSUME pc = "ended", out = Meaning(stream) PROVE pc' = "ended" /\ out' = Meaning(stream)'
    BY <1>9, <2>3 DEF vars, Meaning
  <2> QED
    BY <1>1, <2>2, <2>3 DEF FramingInv
<1> QED
  BY <1>2, <1>3, <1>4, <1>5, <1>6, <1>7, <1>8, <1>9 DEF Next, ReadAny, Process

(* Where the loop and the reference are in step, they have said the same.  *)
LEMMA FramingMeansSegmentation == FramingInv => SegmentationIndependent
<1>0. ASSUME IndInv, pc = "ended", out = Meaning(stream)
      PROVE  SegmentationIndependent
  <2>1. Len(out) \in Nat /\ out = SubSeq(out, 1, Len(out))
    BY <1>0, LenProperties, SubSeqFull DEF IndInv, TypeOK
  <2>2. IsPrefix(out, Meaning(stream))
    BY <1>0, <2>1 DEF IsPrefix
  <2> QED
    BY <1>0, <2>2 DEF SegmentationIndependent
<1> SUFFICES ASSUME Framing PROVE SegmentationIndependent
  BY <1>0 DEF FramingInv
<1>1. /\ inbuf \in Seq(Bytes) /\ Len(inbuf) \in Nat /\ stream \in Seq(Bytes)
      /\ Begin \in Nat /\ Taken \in Nat /\ Begin + Len(inbuf) = Len(stream)
      /\ Taken <= Len(inbuf) /\ INBUF_SIZE \in Nat /\ Len(stream) \in Nat
  BY FramingTypes DEF Framing
<1>2. ASSUME pc = "read"
      PROVE  out = Meaning(stream)
  <2>1. Taken = 0 /\ Len(inbuf) < INBUF_SIZE /\ \A i \in 1 .. Len(inbuf) : inbuf[i] # LF
    BY <1>1, <1>2 DEF Taken, Framing, IndInv, ReadHasRoom, Room, Searched
  <2>2. Len(inbuf) - Taken < INBUF_SIZE /\ \A i \in Taken + 1 .. Len(inbuf) : inbuf[i] # LF
    BY <1>1, <2>1
  <2>3. Meanings(stream)[Begin + Len(inbuf)] =
          State(SubSeq(inbuf, Taken + 1, Len(inbuf)), discarding, out)
    BY <1>1, <2>2, LineInBuffer
  <2>4. Meanings(stream)[Len(stream)] =
          State(SubSeq(inbuf, Taken + 1, Len(inbuf)), discarding, out)
    BY <1>1, <2>3, Zenon
  <2>5. \A text, over, said : State(text, over, said).said = said
    BY DEF State
  <2> QED
    BY <2>4, <2>5 DEF Meaning
<1>3. IsPrefix(out, Meaning(stream))
  <2>1. Begin + Taken \in 0 .. Len(stream)
    BY <1>1
  <2>2. Meanings(stream)[Begin + Taken].said = out
    BY DEF Framing, InStep, State
  <2> QED
    BY <1>1, <2>1, <2>2, MeaningGrows
<1> QED
  BY <1>2, <1>3 DEF SegmentationIndependent

(* However the bytes of a connection are cut into reads, whether a line is *)
(* split over many or many share one, communicate() hands on exactly the   *)
(* lines the bytes mean, in their order, and one error per overlong line.  *)
THEOREM SegmentationIndependentHolds == Spec => []SegmentationIndependent
  BY FramingMeansSegmentation, InitFraming, NextKeepsFraming, PTL DEF Spec

-----------------------------------------------------------------------------
(* The buffer in front of this one: the client program's.                  *)

Loops(k) == [line : 0 .. k, over : BOOLEAN, sent : Seq(Bytes)]
Users == [text : Seq(Bytes), meant : Seq(Bytes)]
Nobody == [text |-> <<>>, meant |-> <<>>]
Starting == [line |-> 0, over |-> skipping, sent |-> <<>>]

(* The recursions of Intentions and Sending have solutions.                *)
LEMMA IntentionsRecursion ==
  ASSUME NEW bytes, Len(bytes) \in Nat
  PROVE  /\ Intentions(bytes)[0] = Nobody
         /\ \A i \in 1 .. Len(bytes) : Intentions(bytes)[i] = Typing(Intentions(bytes)[i - 1], bytes[i])
<1> DEFINE Walks(f, n) ==
             f = [i \in 0 .. n |-> IF i = 0 THEN Nobody ELSE Typing(f[i - 1], bytes[i])]
           T == {n \in Nat : \E f : Walks(f, n)}
<1>1. 0 \in T
  <2>1. Walks([i \in 0 .. 0 |-> Nobody], 0)
    OBVIOUS
  <2> QED
    BY <2>1
<1>2. ASSUME NEW n \in Nat, n \in T
      PROVE  n + 1 \in T
  <2>1. PICK f : Walks(f, n)
    BY <1>2
  <2> DEFINE g == [i \in 0 .. n + 1 |-> IF i \in 0 .. n THEN f[i] ELSE Typing(f[n], bytes[n + 1])]
  <2>2. \A i \in 0 .. n : i - 1 \in 0 .. n \/ i = 0
    OBVIOUS
  <2>3. \A i \in 0 .. n : f[i] = IF i = 0 THEN Nobody ELSE Typing(f[i - 1], bytes[i])
    BY <2>1
  <2>4. Walks(g, n + 1)
    BY <2>2, <2>3
  <2> HIDE DEF g, Walks
  <2> QED
    BY <2>4
<1>3. Len(bytes) \in T
  <2> HIDE DEF T
  <2> QED
    BY <1>1, <1>2, EveryNatural
<1>4. PICK f : Walks(f, Len(bytes))
  BY <1>3
<1>5. Intentions(bytes) = CHOOSE f2 : Walks(f2, Len(bytes))
  BY DEF Intentions, Nobody
<1>6. Walks(Intentions(bytes), Len(bytes))
  BY <1>4, <1>5
<1>7. \A i \in 1 .. Len(bytes) : i \in 0 .. Len(bytes) /\ i # 0
  OBVIOUS
<1> QED
  BY <1>6, <1>7

LEMMA SendingRecursion ==
  ASSUME NEW bytes, Len(bytes) \in Nat
  PROVE  /\ Client!Sending(bytes)[0] = Starting
         /\ \A i \in 1 .. Len(bytes) :
              Client!Sending(bytes)[i] = Client!Passing(Client!Sending(bytes)[i - 1], bytes, i)
<1> DEFINE Walks(f, n) ==
             f = [i \in 0 .. n |-> IF i = 0 THEN Starting ELSE Client!Passing(f[i - 1], bytes, i)]
           T == {n \in Nat : \E f : Walks(f, n)}
<1>1. 0 \in T
  <2>1. Walks([i \in 0 .. 0 |-> Starting], 0)
    OBVIOUS
  <2> QED
    BY <2>1
<1>2. ASSUME NEW n \in Nat, n \in T
      PROVE  n + 1 \in T
  <2>1. PICK f : Walks(f, n)
    BY <1>2
  <2> DEFINE g == [i \in 0 .. n + 1 |-> IF i \in 0 .. n THEN f[i]
                                        ELSE Client!Passing(f[n], bytes, n + 1)]
  <2>2. \A i \in 0 .. n : i - 1 \in 0 .. n \/ i = 0
    OBVIOUS
  <2>3. \A i \in 0 .. n : f[i] = IF i = 0 THEN Starting ELSE Client!Passing(f[i - 1], bytes, i)
    BY <2>1
  <2>4. Walks(g, n + 1)
    BY <2>2, <2>3
  <2> HIDE DEF g, Walks
  <2> QED
    BY <2>4
<1>3. Len(bytes) \in T
  <2> HIDE DEF T
  <2> QED
    BY <1>1, <1>2, EveryNatural
<1>4. PICK f : Walks(f, Len(bytes))
  BY <1>3
<1>5. Client!Sending(bytes) = CHOOSE f2 : Walks(f2, Len(bytes))
  BY DEF Client!Sending, Starting
<1>6. Walks(Client!Sending(bytes), Len(bytes))
  BY <1>4, <1>5
<1>7. \A i \in 1 .. Len(bytes) : i \in 0 .. Len(bytes) /\ i # 0
  OBVIOUS
<1> QED
  BY <1>6, <1>7

(* What is typed later does not change what was meant before.              *)
LEMMA IntentionsOfPrefix ==
  ASSUME NEW one, NEW other, NEW n \in Nat, Len(one) \in Nat, Len(other) \in Nat,
         n <= Len(one), n <= Len(other), \A i \in 1 .. n : one[i] = other[i]
  PROVE  Intentions(one)[n] = Intentions(other)[n]
<1> DEFINE T == {i \in Nat : i <= n => Intentions(one)[i] = Intentions(other)[i]}
<1>1. 0 \in T
  BY IntentionsRecursion
<1>2. ASSUME NEW i \in Nat, i \in T
      PROVE  i + 1 \in T
  <2> SUFFICES ASSUME i + 1 <= n PROVE Intentions(one)[i + 1] = Intentions(other)[i + 1]
    OBVIOUS
  <2>1. /\ i + 1 \in 1 .. Len(one) /\ i + 1 \in 1 .. Len(other) /\ i + 1 \in 1 .. n
        /\ (i + 1) - 1 = i /\ i <= n
    OBVIOUS
  <2>2. /\ Intentions(one)[i + 1] = Typing(Intentions(one)[i], one[i + 1])
        /\ Intentions(other)[i + 1] = Typing(Intentions(other)[i], other[i + 1])
    BY <2>1, IntentionsRecursion
  <2> QED
    BY <1>2, <2>1, <2>2
<1> HIDE DEF T
<1>3. n \in T
  BY <1>1, <1>2, EveryNatural
<1> QED
  BY <1>3 DEF T

(* Nothing happens before the first newline.                               *)
LEMMA SendingUnfinished ==
  ASSUME NEW bytes, NEW n \in Nat, Len(bytes) \in Nat, n <= Len(bytes),
         \A i \in 1 .. n : bytes[i] # LF
  PROVE  Client!Sending(bytes)[n] = Starting
<1> DEFINE T == {i \in Nat : i <= n => Client!Sending(bytes)[i] = Starting}
<1>1. 0 \in T
  BY SendingRecursion
<1>2. ASSUME NEW i \in Nat, i \in T
      PROVE  i + 1 \in T
  <2> SUFFICES ASSUME i + 1 <= n PROVE Client!Sending(bytes)[i + 1] = Starting
    OBVIOUS
  <2>1. i + 1 \in 1 .. Len(bytes) /\ i + 1 \in 1 .. n /\ (i + 1) - 1 = i /\ i <= n
    OBVIOUS
  <2>2. Client!Sending(bytes)[i + 1] = Client!Passing(Client!Sending(bytes)[i], bytes, i + 1)
    BY <2>1, SendingRecursion
  <2> QED
    BY <1>2, <2>1, <2>2 DEF Client!Passing
<1> HIDE DEF T
<1>3. n \in T
  BY <1>1, <1>2, EveryNatural
<1> QED
  BY <1>3 DEF T

-----------------------------------------------------------------------------
(* The client program and its user, byte by byte *)

LEMMA Grouping == \A s, t, u \in Seq(Bytes) : (s \o t) \o u = s \o (t \o u)
  BY ConcatAssociative

(* Where the loop of sendPendingCommands has come to in its buffer, the    *)
(* user is in a line of which the buffer holds all, or which was given up  *)
(* and is too long already; what the loop has sent is what was meant.      *)
Together(loop, user, bytes, k, before) ==
  /\ loop \in Loops(k)
  /\ user \in Users
  /\ \A i \in loop.line + 1 .. k : bytes[i] # LF
  /\ loop.over => Len(user.text) >= BUFFER_SIZE
  /\ ~loop.over => user.text = SubSeq(bytes, loop.line + 1, k)
  /\ user.meant = before \o loop.sent

LEMMA OneByteTogether ==
  ASSUME NEW bytes \in Seq(Bytes), Len(bytes) <= BUFFER_SIZE, NEW before \in Seq(Bytes),
         NEW k \in 1 .. Len(bytes), NEW loop, NEW user,
         Together(loop, user, bytes, k - 1, before)
  PROVE  Together(Client!Passing(loop, bytes, k), Typing(user, bytes[k]), bytes, k, before)
<1> DEFINE text == SubSeq(bytes, loop.line + 1, k)
           loop2 == Client!Passing(loop, bytes, k)
           user2 == Typing(user, bytes[k])
<1>1. /\ Len(bytes) \in Nat /\ bytes[k] \in Bytes /\ BUFFER_SIZE \in Nat
      /\ loop.line \in 0 .. k - 1 /\ loop.over \in BOOLEAN /\ loop.sent \in Seq(Bytes)
      /\ user.text \in Seq(Bytes) /\ user.meant \in Seq(Bytes) /\ Len(user.text) \in Nat
  BY LenProperties, ElementOfSeq, ClientBufferAssumption DEF Together, Loops, Users
<1>2. text \in Seq(Bytes) /\ Len(text) = k - loop.line
  <2>1. loop.line \in Nat /\ k - loop.line \in Nat /\ loop.line + (k - loop.line) = k
    BY <1>1
  <2> QED
    BY <1>1, <2>1, PieceProperties
<1>3. text = Append(SubSeq(bytes, loop.line + 1, k - 1), bytes[k])
  <2>1. \A i \in loop.line + 1 .. k : bytes[i] \in Bytes
    BY <1>1, ElementOfSeq
  <2>2. PICK first : first = loop.line + 1
    OBVIOUS
  <2>3. first \in Int /\ k \in Int /\ first <= k /\ \A i \in first .. k : bytes[i] \in Bytes
    BY <1>1, <2>1, <2>2
  <2>4. SubSeq(bytes, first, k) = Append(SubSeq(bytes, first, k - 1), bytes[k])
    BY <2>3, SubSeqRecursiveSecond
  <2> QED
    BY <2>2, <2>4
<1>4. /\ Append(user.text, bytes[k]) \in Seq(Bytes)
      /\ Len(Append(user.text, bytes[k])) = Len(user.text) + 1
  BY <1>1, AppendProperties
<1>5. ~loop.over => text = Append(user.text, bytes[k]) /\ Len(user.text) + 1 = k - loop.line
  BY <1>2, <1>3, <1>4 DEF Together
<1>6. CASE bytes[k] # LF
  <2>1. loop2 = loop /\ user2 = [user EXCEPT !.text = Append(@, bytes[k])]
    BY <1>6 DEF Client!Passing, Typing
  <2>2. user2.text = Append(user.text, bytes[k]) /\ user2.meant = user.meant /\ user2 \in Users
    BY <1>4, <2>1 DEF Together, Users
  <2>3. loop2 \in Loops(k)
    BY <1>1, <2>1 DEF Together, Loops
  <2>4. \A i \in loop2.line + 1 .. k : bytes[i] # LF
    <3>1. \A i \in loop.line + 1 .. k : i = k \/ i \in loop.line + 1 .. k - 1
      BY <1>1
    <3> QED
      BY <1>6, <2>1, <3>1 DEF Together
  <2>5. loop2.over => Len(user2.text) >= BUFFER_SIZE
    BY <1>1, <1>4, <2>1, <2>2 DEF Together
  <2>6. ~loop2.over => user2.text = SubSeq(bytes, loop2.line + 1, k)
    BY <1>5, <2>1, <2>2
  <2>7. user2.meant = before \o loop2.sent
    BY <2>1, <2>2 DEF Together
  <2> HIDE DEF loop2, user2
  <2>8. Together(loop2, user2, bytes, k, before)
    BY <2>2, <2>3, <2>4, <2>5, <2>6, <2>7 DEF Together
  <2> QED
    BY <2>8 DEF loop2, user2
<1>7. CASE bytes[k] = LF
  <2> DEFINE sent == IF Client!Worth(loop.over, text) THEN loop.sent \o text ELSE loop.sent
             meant == IF Len(user.text) \in 1 .. BUFFER_SIZE - 1
                      THEN user.meant \o Append(user.text, LF) ELSE user.meant
  <2>1. loop2 = [line |-> k, over |-> FALSE, sent |-> sent] /\ user2 = [text |-> <<>>, meant |-> meant]
    BY <1>7 DEF Client!Passing, Typing
  <2>2. /\ Len(user.text) \in 1 .. BUFFER_SIZE - 1 <=> Client!Worth(loop.over, text)
        /\ Client!Worth(loop.over, text) => Append(user.text, LF) = text
    <3>1. CASE loop.over
      BY <1>1, <3>1 DEF Together, Client!Worth
    <3>2. CASE ~loop.over
      <4>1. Len(user.text) + 1 = Len(text) /\ Len(text) <= BUFFER_SIZE
        BY <1>1, <1>2, <1>5, <3>2
      <4> HIDE DEF text
      <4>2. Len(user.text) \in 1 .. BUFFER_SIZE - 1 <=> Len(text) > 1
        BY <1>1, <4>1
      <4> QED
        BY <1>5, <1>7, <3>2, <4>2 DEF Client!Worth
    <3> QED
      BY <3>1, <3>2
  <2>3. sent \in Seq(Bytes) /\ meant \in Seq(Bytes) /\ meant = before \o sent
    <3>1. user.meant = before \o loop.sent
      BY DEF Together
    <3>2. (before \o loop.sent) \o text = before \o (loop.sent \o text)
      <4> HIDE DEF text
      <4>1. PICK one \in Seq(Bytes) : one = loop.sent
        BY <1>1
      <4>2. (before \o one) \o text = before \o (one \o text)
        BY <1>2, Grouping
      <4> QED
        BY <4>1, <4>2
    <3>3. loop.sent \o text \in Seq(Bytes)
      BY <1>1, <1>2, ConcatProperties
    <3>4. user.meant \o text \in Seq(Bytes)
      BY <1>1, <1>2, ConcatProperties
    <3> HIDE DEF text
    <3> QED
      BY <1>1, <2>2, <3>1, <3>2, <3>3, <3>4
  <2>4. SubSeq(bytes, k + 1, k) = <<>>
    BY <1>1, SubSeqEmpty
  <2> HIDE DEF sent, meant
  <2>5. /\ loop2.line = k /\ loop2.over = FALSE /\ loop2.sent = sent
        /\ user2.text = <<>> /\ user2.meant = meant
    BY <2>1
  <2>6. loop2 \in Loops(k) /\ user2 \in Users
    BY <1>1, <2>1, <2>3, EmptySeq DEF Loops, Users
  <2>7. \A i \in loop2.line + 1 .. k : bytes[i] # LF
    BY <1>1, <2>5
  <2> HIDE DEF loop2, user2
  <2>8. Together(loop2, user2, bytes, k, before)
    BY <2>3, <2>4, <2>5, <2>6, <2>7 DEF Together
  <2> QED
    BY <2>8 DEF loop2, user2
<1> QED
  BY <1>6, <1>7

-----------------------------------------------------------------------------
(* What the user has meant so far, and has begun to say.                   *)
User == Intentions(typed)[Len(typed)]

(* Between two reads the buffer holds less than it could, and the line the *)
(* user is in or no more than its end; what the user has meant is what the *)
(* server has read and what is on its way.                                 *)
PathInv ==
  /\ FramingInv
  /\ typed \in Seq(Bytes) /\ wire \in Seq(Bytes) /\ skipping \in BOOLEAN
  /\ line \in Seq(Bytes) /\ Len(line) < BUFFER_SIZE
  /\ \A i \in 1 .. Len(line) : line[i] # LF
  /\ User \in Users
  /\ skipping => Len(User.text) >= BUFFER_SIZE
  /\ ~skipping => User.text = line
  /\ ~raw => User.meant = stream \o wire

LEMMA ReadInputKeepsPathInv ==
  ASSUME PathInv, NEW n \in 1 .. Client!Room, NEW chunk \in [1 .. n -> Bytes],
         Client!ReadInput(chunk), UNCHANGED <<vars, raw>>
  PROVE  PathInv'
<1> DEFINE bytes == line \o chunk
           all == typed \o chunk
           k == Len(line)
           t == Len(typed)
           loop(i) == Client!Sending(bytes)[k + i]
           user(i) == Intentions(all)[t + i]
           before == User.meant
<1>1. /\ k \in Nat /\ t \in Nat /\ BUFFER_SIZE \in Nat \ {0} /\ n \in Nat \ {0}
      /\ k + n <= BUFFER_SIZE /\ before \in Seq(Bytes)
  BY LenProperties, ClientBufferAssumption DEF PathInv, Client!Room, Users
<1>2. chunk \in Seq(Bytes) /\ Len(chunk) = n
  <2>1. chunk \in Seq(Bytes)
    BY <1>1, SeqDef
  <2> QED
    BY <1>1, <2>1, LenProperties
<1>3. /\ bytes \in Seq(Bytes) /\ Len(bytes) = k + n
      /\ \A i \in 1 .. k : bytes[i] = line[i]
      /\ \A i \in 1 .. n : bytes[k + i] = chunk[i]
  <2>1. \A i \in 1 .. k + n : bytes[i] = IF i <= k THEN line[i] ELSE chunk[i - k]
    BY <1>2, ConcatProperties DEF PathInv
  <2> HIDE DEF bytes
  <2>2. \A i \in 1 .. k : i \in 1 .. k + n /\ i <= k
    BY <1>1
  <2>3. \A i \in 1 .. n : k + i \in 1 .. k + n /\ ~(k + i <= k) /\ (k + i) - k = i
    BY <1>1
  <2>4. (\A i \in 1 .. k : bytes[i] = line[i]) /\ (\A i \in 1 .. n : bytes[k + i] = chunk[i])
    BY <2>1, <2>2, <2>3
  <2>5. bytes \in Seq(Bytes) /\ Len(bytes) = k + n
    BY <1>2, ConcatProperties DEF PathInv, bytes
  <2> QED
    BY <2>4, <2>5
<1>4. /\ all \in Seq(Bytes) /\ Len(all) = t + n
      /\ \A i \in 1 .. t : all[i] = typed[i]
      /\ \A i \in 1 .. n : all[t + i] = chunk[i]
  <2>1. \A i \in 1 .. t + n : all[i] = IF i <= t THEN typed[i] ELSE chunk[i - t]
    BY <1>2, ConcatProperties DEF PathInv
  <2> HIDE DEF all
  <2>2. \A i \in 1 .. t : i \in 1 .. t + n /\ i <= t
    BY <1>1
  <2>3. \A i \in 1 .. n : t + i \in 1 .. t + n /\ ~(t + i <= t) /\ (t + i) - t = i
    BY <1>1
  <2>4. (\A i \in 1 .. t : all[i] = typed[i]) /\ (\A i \in 1 .. n : all[t + i] = chunk[i])
    BY <2>1, <2>2, <2>3
  <2>5. all \in Seq(Bytes) /\ Len(all) = t + n
    BY <1>2, ConcatProperties DEF PathInv, all
  <2> QED
    BY <2>4, <2>5
<1> HIDE DEF bytes, all, k, t, before
<1> DEFINE T == {i \in Nat : i <= n => Together(loop(i), user(i), bytes, k + i, before)}
<1>5. 0 \in T
  <2>1. loop(0) = Starting
    <3>1. Client!Sending(bytes)[k] = Starting
      <4>1. k <= Len(bytes) /\ Len(bytes) \in Nat /\ \A i \in 1 .. k : bytes[i] # LF
        BY <1>1, <1>3 DEF PathInv, k
      <4> QED
        BY <1>1, <4>1, SendingUnfinished
    <3> QED
      BY <1>1, <3>1
  <2>2. user(0) = User
    <3>1. t <= Len(all) /\ Len(all) \in Nat
      BY <1>1, <1>4
    <3>2. Intentions(all)[t] = Intentions(typed)[t]
      <4>1. PICK old : old = typed
        OBVIOUS
      <4>2. Len(old) = t /\ \A i \in 1 .. t : all[i] = old[i]
        BY <1>4, <4>1 DEF t
      <4>3. Len(old) \in Nat /\ t <= Len(old)
        BY <1>1, <4>2
      <4>4. Intentions(all)[t] = Intentions(old)[t]
        BY <1>1, <3>1, <4>2, <4>3, IntentionsOfPrefix
      <4> QED
        BY <4>1, <4>4
    <3> QED
      BY <1>1, <3>2 DEF User, t
  <2>3. SubSeq(bytes, 0 + 1, k) = line
    <3>1. SubSeq(bytes, 1, k) \in Seq(Bytes) /\ Len(SubSeq(bytes, 1, k)) = k
          /\ \A i \in 1 .. k : SubSeq(bytes, 1, k)[i] = bytes[i]
      <4>1. k \in 0 .. Len(bytes)
        BY <1>1, <1>3
      <4> QED
        BY <1>3, <4>1, PrefixProperties
    <3> QED
      BY <1>3, <3>1, SeqEqual DEF PathInv, k
  <2>4. /\ Starting.line = 0 /\ Starting.over = skipping /\ Starting.sent = <<>>
        /\ Starting \in Loops(k) /\ before \o <<>> = before
    BY <1>1, EmptySeq, ConcatEmptySeq DEF Starting, Loops, PathInv
  <2>5. \A i \in 0 + 1 .. k : bytes[i] # LF
    <3>1. \A i \in 1 .. k : bytes[i] # LF
      BY <1>3 DEF PathInv, k
    <3> QED
      BY <3>1
  <2>6. Together(Starting, User, bytes, k, before)
    BY <2>3, <2>4, <2>5 DEF Together, PathInv, before
  <2>7. k + 0 = k
    BY <1>1
  <2> HIDE DEF loop, user
  <2> QED
    BY <2>1, <2>2, <2>6, <2>7
<1>6. ASSUME NEW i \in Nat, i \in T
      PROVE  i + 1 \in T
  <2> SUFFICES ASSUME i + 1 <= n
               PROVE  Together(loop(i + 1), user(i + 1), bytes, k + (i + 1), before)
    OBVIOUS
  <2>1. /\ k + (i + 1) \in 1 .. Len(bytes) /\ (k + (i + 1)) - 1 = k + i
        /\ t + (i + 1) \in 1 .. Len(all) /\ (t + (i + 1)) - 1 = t + i
        /\ i + 1 \in 1 .. n /\ i <= n /\ Len(bytes) \in Nat /\ Len(all) \in Nat
        /\ Len(bytes) <= BUFFER_SIZE
    BY <1>1, <1>3, <1>4
  <2>2. loop(i + 1) = Client!Passing(loop(i), bytes, k + (i + 1))
    BY <2>1, SendingRecursion
  <2>3. user(i + 1) = Typing(user(i), bytes[k + (i + 1)])
    <3>1. Intentions(all)[t + (i + 1)] = Typing(Intentions(all)[t + i], all[t + (i + 1)])
      BY <2>1, IntentionsRecursion
    <3>2. all[t + (i + 1)] = bytes[k + (i + 1)]
      BY <1>3, <1>4, <2>1
    <3> QED
      BY <3>1, <3>2
  <2> HIDE DEF loop, user
  <2>4. Together(loop(i), user(i), bytes, (k + (i + 1)) - 1, before)
    BY <1>6, <2>1
  <2> QED
    <3>1. PICK one, other : one = loop(i) /\ other = user(i)
      OBVIOUS
    <3>2. PICK j \in 1 .. Len(bytes) : j = k + (i + 1)
      BY <2>1
    <3>3. Together(Client!Passing(one, bytes, j), Typing(other, bytes[j]), bytes, j, before)
      BY <1>1, <1>3, <2>1, <2>4, <3>1, <3>2, OneByteTogether
    <3> QED
      BY <2>2, <2>3, <3>1, <3>2, <3>3
<1>7. Together(loop(n), user(n), bytes, k + n, before)
  <2>1. n \in T
    <3> HIDE DEF T
    <3> QED
      BY <1>1, <1>5, <1>6, EveryNatural
  <2> QED
    BY <1>1, <2>1
<1> DEFINE end == Client!Sending(bytes)[Len(bytes)]
           rest == SubSeq(bytes, end.line + 1, Len(bytes))
<1>8. /\ typed' = all /\ wire' = wire \o end.sent
      /\ line' = IF Client!Full(rest) THEN <<>> ELSE rest
      /\ skipping' = (Client!Full(rest) \/ end.over)
  BY DEF Client!ReadInput, bytes, all
<1>9. User' = user(n) /\ end = loop(n)
  BY <1>3, <1>4, <1>8 DEF User
<1> HIDE DEF loop, user
<1>10. /\ end \in Loops(Len(bytes)) /\ User' \in Users
       /\ \A i \in end.line + 1 .. Len(bytes) : bytes[i] # LF
       /\ end.over => Len(User'.text) >= BUFFER_SIZE
       /\ ~end.over => User'.text = rest
       /\ User'.meant = before \o end.sent
  BY <1>3, <1>7, <1>9 DEF Together
<1> HIDE DEF end
<1>11. end.line \in 0 .. Len(bytes) /\ end.over \in BOOLEAN /\ end.sent \in Seq(Bytes)
  BY <1>10 DEF Loops
<1>12. /\ rest \in Seq(Bytes) /\ Len(rest) = Len(bytes) - end.line
       /\ \A i \in 1 .. Len(rest) : rest[i] = bytes[end.line + i]
  BY <1>3, <1>11, SuffixProperties
<1>13. /\ Len(rest) \in Nat /\ Len(rest) <= BUFFER_SIZE
       /\ \A i \in 1 .. Len(rest) : rest[i] # LF
  <2>1. \A i \in 1 .. Len(rest) : end.line + i \in end.line + 1 .. Len(bytes)
    BY <1>1, <1>3, <1>11, <1>12
  <2>2. \A i \in 1 .. Len(rest) : rest[i] # LF
    BY <1>10, <1>12, <2>1
  <2>3. Len(rest) \in Nat /\ Len(rest) <= BUFFER_SIZE
    <3>1. PICK m : m = Len(rest)
      OBVIOUS
    <3>2. m = Len(bytes) - end.line
      BY <1>12, <3>1
    <3>3. m \in Nat /\ m <= BUFFER_SIZE
      BY <1>1, <1>3, <1>11, <3>2
    <3> QED
      BY <3>1, <3>3
  <2> QED
    BY <2>2, <2>3
<1> HIDE DEF rest
<1>14. /\ line' \in Seq(Bytes) /\ Len(line') < BUFFER_SIZE
       /\ \A i \in 1 .. Len(line') : line'[i] # LF
  <2>1. CASE Client!Full(rest)
    BY <1>1, <1>8, <2>1, EmptySeq
  <2>2. CASE ~Client!Full(rest)
    BY <1>1, <1>8, <1>12, <1>13, <2>2 DEF Client!Full
  <2> QED
    BY <2>1, <2>2
<1>15. skipping' => Len(User'.text) >= BUFFER_SIZE
  BY <1>1, <1>8, <1>10, <1>13 DEF Client!Full
<1>16. ~skipping' => User'.text = line'
  BY <1>8, <1>10
<1>17. wire' \in Seq(Bytes) /\ (~raw => User'.meant = stream \o wire')
  <2>1. PICK sent \in Seq(Bytes) : sent = end.sent
    BY <1>11
  <2>2. wire \in Seq(Bytes) /\ stream \in Seq(Bytes)
    BY DEF PathInv, FramingInv, Framing, IndInv, TypeOK
  <2>3. (stream \o wire) \o sent = stream \o (wire \o sent) /\ wire \o sent \in Seq(Bytes)
    BY <2>1, <2>2, Grouping, ConcatProperties
  <2>4. ~raw => before = stream \o wire
    BY DEF PathInv, before
  <2> QED
    BY <1>8, <1>10, <2>1, <2>3, <2>4
<1>18. FramingInv'
  <2>1. FramingInv /\ [Next]_vars
    BY DEF PathInv
  <2> QED
    BY <2>1, NextKeepsFraming
<1>19. typed' \in Seq(Bytes) /\ skipping' \in BOOLEAN /\ raw' = raw /\ stream' = stream
  BY <1>4, <1>8, <1>11 DEF vars
<1>20. ~raw' => User'.meant = stream' \o wire'
  BY <1>17, <1>19
<1>21. typed' \in Seq(Bytes) /\ wire' \in Seq(Bytes) /\ skipping' \in BOOLEAN /\ User' \in Users
  BY <1>10, <1>17, <1>19
<1> QED
  BY ONLY <1>14, <1>15, <1>16, <1>18, <1>20, <1>21 DEF PathInv

(* The server takes from the front of what is on its way.                  *)
LEMMA ReadSentKeepsPathInv ==
  ASSUME PathInv, ReadSent
  PROVE  PathInv'
<1>1. PICK n \in 1 .. Len(wire) :
        /\ n <= Room
        /\ Read(SubSeq(wire, 1, n))
        /\ wire' = SubSeq(wire, n + 1, Len(wire))
        /\ UNCHANGED <<raw, line, skipping, eof, typed>>
  BY DEF ReadSent
<1> DEFINE chunk == SubSeq(wire, 1, n)
           rest == SubSeq(wire, n + 1, Len(wire))
<1>2. wire \in Seq(Bytes) /\ Len(wire) \in Nat /\ stream \in Seq(Bytes) /\ n \in 0 .. Len(wire)
  BY LenProperties DEF PathInv, FramingInv, Framing, IndInv, TypeOK
<1>3. chunk \in Seq(Bytes) /\ Len(chunk) = n /\ rest \in Seq(Bytes)
  BY <1>2, PrefixProperties, SuffixProperties
<1>4. chunk \o rest = wire
  <2>1. 1 \in 1 .. Len(wire) + 1 /\ n \in 1 - 1 .. Len(wire) /\ Len(wire) \in n .. Len(wire)
    BY <1>2
  <2> QED
    BY <1>2, <2>1, ConcatAdjacentSubSeq, SubSeqFull
<1> HIDE DEF chunk, rest
<1>5. stream' = stream \o chunk /\ wire' = rest
  BY <1>1 DEF Read, chunk, rest
<1>6. stream' \o wire' = stream \o wire
  <2>1. (stream \o chunk) \o rest = stream \o (chunk \o rest)
    BY <1>2, <1>3, Grouping
  <2> QED
    BY <1>4, <1>5, <2>1
<1>7. FramingInv'
  <2>1. Len(inbuf) \in Nat /\ INBUF_SIZE \in Nat
    BY LenProperties, SizeAssumption DEF PathInv, FramingInv, Framing, IndInv, TypeOK
  <2>2. n \in 1 .. Room
    BY <1>1, <2>1 DEF Room
  <2>3. chunk \in [1 .. n -> Bytes]
    BY <1>2, <1>3, LenProperties
  <2>4. Read(chunk)
    BY <1>1 DEF chunk
  <2>5. ReadAny
    BY <2>2, <2>3, <2>4 DEF ReadAny
  <2> QED
    BY <2>5, NextKeepsFraming DEF Next, PathInv
<1>8. User' = User
  BY <1>1 DEF User
<1> QED
  BY <1>1, <1>3, <1>5, <1>6, <1>7, <1>8 DEF PathInv

LEMMA InitPathInv == PathInit => PathInv
<1> SUFFICES ASSUME PathInit PROVE PathInv
  OBVIOUS
<1>1. FramingInv
  BY InitFraming DEF PathInit
<1>2. /\ typed = <<>> /\ wire = <<>> /\ line = <<>> /\ skipping = FALSE /\ stream = <<>>
  BY DEF PathInit, Client!Init, Init
<1>3. <<>> \in Seq(Bytes) /\ Len(<<>>) = 0 /\ BUFFER_SIZE \in Nat \ {0}
  BY EmptySeq, ClientBufferAssumption
<1>4. User = Nobody
  BY <1>2, <1>3, IntentionsRecursion DEF User
<1>5. Nobody \in Users /\ Nobody.text = <<>> /\ Nobody.meant = <<>>
  BY <1>3 DEF Nobody, Users
<1>6. stream \o wire = <<>>
  BY <1>2, <1>3, ConcatEmptySeq
<1>7. User \in Users /\ (~skipping => User.text = line) /\ User.meant = stream \o wire
  BY <1>2, <1>4, <1>5, <1>6
<1>8. /\ line \in Seq(Bytes) /\ Len(line) < BUFFER_SIZE
      /\ \A i \in 1 .. Len(line) : line[i] # LF
  BY <1>2, <1>3
<1>9. typed \in Seq(Bytes) /\ wire \in Seq(Bytes) /\ skipping \in BOOLEAN /\ ~skipping
  BY <1>2, <1>3
<1> QED
  BY ONLY <1>1, <1>7, <1>8, <1>9 DEF PathInv

LEMMA NextKeepsPathInv == PathInv /\ [PathNext]_pathVars => PathInv'
<1> SUFFICES ASSUME PathInv, [PathNext]_pathVars PROVE PathInv'
  OBVIOUS
<1>1. ASSUME [Next]_vars PROVE FramingInv'
  BY <1>1, NextKeepsFraming DEF PathInv
<1>2. CASE ~raw /\ Client!Next /\ UNCHANGED <<vars, raw>>
  <2>1. CASE Client!EndInput
    <3>1. User' = User
      BY <2>1 DEF Client!EndInput, User
    <3>2. stream' = stream
      BY <1>2 DEF vars
    <3> QED
      BY <1>1, <1>2, <2>1, <3>1, <3>2 DEF Client!EndInput, PathInv
  <2>2. CASE \E n \in 1 .. Client!Room : \E chunk \in [1 .. n -> Bytes] : Client!ReadInput(chunk)
    BY <1>2, <2>2, ReadInputKeepsPathInv
  <2> QED
    BY <1>2, <2>1, <2>2 DEF Client!Next
<1>3. CASE ReadSent
  BY <1>3, ReadSentKeepsPathInv
<1>4. CASE raw /\ ReadAny /\ UNCHANGED <<raw, clientVars>>
  <2>1. User' = User
    BY <1>4 DEF clientVars, User
  <2> QED
    BY <1>1, <1>4, <2>1 DEF Next, clientVars, PathInv
<1>5. CASE Process /\ UNCHANGED <<raw, clientVars>>
  <2>1. User' = User
    BY <1>5 DEF clientVars, User
  <2>2. stream' = stream
    BY <1>5 DEF Process, EndDiscard, TakeLine, NoMoreLines, Continue, GiveUpLine,
                ReplyFails
  <2> QED
    BY <1>1, <1>5, <2>1, <2>2 DEF Next, clientVars, PathInv
<1>6. CASE UNCHANGED pathVars
  <2>1. User' = User /\ stream' = stream /\ UNCHANGED vars
    BY <1>6 DEF pathVars, clientVars, User, vars
  <2> QED
    BY <1>1, <1>6, <2>1 DEF pathVars, clientVars, PathInv
<1> QED
  BY <1>2, <1>3, <1>4, <1>5, <1>6 DEF PathNext

(* Neither an overlong line nor any cutting of the input ever makes the     *)
(* client ask read() for nothing and take the answer for the end of its    *)
(* input (trader_client.c:90, 149).                                         *)
THEOREM InputHasRoomHolds == PathSpec => []InputHasRoom
<1>1. PathInv => InputHasRoom
  BY LenProperties, ClientBufferAssumption DEF PathInv, InputHasRoom, Client!Room
<1> QED
  BY <1>1, InitPathInv, NextKeepsPathInv, PTL DEF PathSpec

LEMMA PrefixOfPrefix ==
  ASSUME NEW S, NEW r \in Seq(S), NEW s \in Seq(S), NEW t \in Seq(S),
         IsPrefix(r, s), IsPrefix(s, t)
  PROVE  IsPrefix(r, t)
<1>1. /\ Len(r) \in Nat /\ Len(s) \in Nat /\ Len(t) \in Nat
      /\ Len(r) <= Len(s) /\ Len(s) <= Len(t)
      /\ SubSeq(r, 1, Len(r)) = SubSeq(s, 1, Len(r))
      /\ SubSeq(s, 1, Len(s)) = SubSeq(t, 1, Len(s))
  BY LenProperties DEF IsPrefix
<1>2. \A n \in 0 .. Len(s) : \A i \in 1 .. n : SubSeq(s, 1, n)[i] = s[i]
  BY PrefixProperties
<1>3. \A n \in 0 .. Len(t) : \A i \in 1 .. n : SubSeq(t, 1, n)[i] = t[i]
  BY PrefixProperties
<1>4. /\ Len(r) \in 0 .. Len(s) /\ Len(s) \in 0 .. Len(s) /\ Len(s) \in 0 .. Len(t)
      /\ Len(r) \in 0 .. Len(t)
  BY <1>1
<1>5. \A i \in 1 .. Len(r) : i \in 1 .. Len(s)
  BY <1>1
<1>6. \A i \in 1 .. Len(r) : SubSeq(s, 1, Len(r))[i] = SubSeq(t, 1, Len(r))[i]
  BY <1>1, <1>2, <1>3, <1>4, <1>5
<1>7. /\ SubSeq(s, 1, Len(r)) \in Seq(S) /\ Len(SubSeq(s, 1, Len(r))) = Len(r)
      /\ SubSeq(t, 1, Len(r)) \in Seq(S) /\ Len(SubSeq(t, 1, Len(r))) = Len(r)
  BY <1>4, PrefixProperties
<1>8. SubSeq(s, 1, Len(r)) = SubSeq(t, 1, Len(r))
  BY <1>6, <1>7, SeqEqual
<1> QED
  BY <1>1, <1>8 DEF IsPrefix

(* What the user means is what the server executes: through two buffers of *)
(* any two sizes, each giving up lines, cutting and refilling at its own    *)
(* pace, the commands arrive in order, each once, and nothing else does     *)
(* (trader_client.c:70, io.c:184).                                          *)
THEOREM CommandsArriveHolds == PathSpec => []CommandsArrive
<1>1. PathInv => CommandsArrive
  <2> SUFFICES ASSUME PathInv, ~raw PROVE /\ IsPrefix(out, Meaning(Intended))
                                          /\ pc = "read" /\ wire = <<>> => out = Meaning(Intended)
    BY DEF CommandsArrive
  <2>1. /\ stream \in Seq(Bytes) /\ wire \in Seq(Bytes) /\ out \in Said
        /\ Len(stream) \in Nat /\ Len(wire) \in Nat
    BY LenProperties DEF PathInv, FramingInv, Framing, IndInv, TypeOK, Said
  <2>2. PICK intended : intended = stream \o wire
    OBVIOUS
  <2>3. Intended = intended
    BY <2>2 DEF PathInv, Intended, User
  <2>4. /\ intended \in Seq(Bytes) /\ Len(intended) = Len(stream) + Len(wire)
        /\ \A i \in 1 .. Len(stream) : intended[i] = stream[i]
    <3>1. \A i \in 1 .. Len(stream) + Len(wire) :
            intended[i] = IF i <= Len(stream) THEN stream[i] ELSE wire[i - Len(stream)]
      BY <2>1, <2>2, ConcatProperties
    <3>2. \A i \in 1 .. Len(stream) : i \in 1 .. Len(stream) + Len(wire) /\ i <= Len(stream)
      BY <2>1
    <3>3. intended \in Seq(Bytes) /\ Len(intended) = Len(stream) + Len(wire)
      BY <2>1, <2>2, ConcatProperties
    <3> QED
      BY <3>1, <3>2, <3>3
  <2>5. SegmentationIndependent
    BY FramingMeansSegmentation DEF PathInv
  <2>6. Meanings(intended)[Len(stream)] = Meanings(stream)[Len(stream)]
    <3>1. Len(stream) <= Len(intended) /\ Len(stream) \in 0 .. Len(stream)
      BY <2>1, <2>4
    <3> QED
      <4>1. PICK read \in Seq(Bytes) : read = stream
        BY <2>1
      <4>2. Meanings(intended)[Len(read)] = Meanings(read)[Len(read)]
        BY <2>1, <2>4, <3>1, <4>1, MeaningsOfPrefix
      <4> QED
        BY <4>1, <4>2
  <2>7. IsPrefix(Meaning(stream), Meaning(intended))
    <3>1. Len(stream) \in 0 .. Len(intended)
      BY <2>1, <2>4
    <3>2. IsPrefix(Meanings(intended)[Len(stream)].said, Meaning(intended))
      BY <2>4, <3>1, MeaningGrows
    <3> QED
      BY <2>6, <3>2 DEF Meaning
  <2>8. Meaning(stream) \in Said /\ Meaning(intended) \in Said
    <3>1. Len(stream) \in 0 .. Len(stream) /\ Len(intended) \in 0 .. Len(intended)
      BY <2>1, <2>4
    <3> QED
      BY <2>1, <2>4, <3>1, MeaningsType DEF Meaning, States
  <2>9. IsPrefix(out, Meaning(intended))
    BY <2>1, <2>5, <2>7, <2>8, PrefixOfPrefix DEF SegmentationIndependent, Said
  <2>10. ASSUME pc = "read", wire = <<>>
         PROVE  out = Meaning(intended)
    <3>1. intended = stream
      BY <2>1, <2>2, <2>10, ConcatEmptySeq
    <3> QED
      BY <2>5, <2>10, <3>1 DEF SegmentationIndependent
  <2> QED
    BY <2>3, <2>9, <2>10
<1> QED
  BY <1>1, InitPathInv, NextKeepsPathInv, PTL DEF PathSpec
=============================================================================
