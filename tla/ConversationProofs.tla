-------------------------- MODULE ConversationProofs --------------------------
(***************************************************************************)
(* Theorems about Conversation for every script, every size of the two     *)
(* programs' buffers and of the kernel's, and every number of              *)
(* notifications.                                                          *)
(***************************************************************************)
EXTENDS Conversation, DataLemmas, FiniteSetTheorems

Output == Server!Output

-----------------------------------------------------------------------------
(* How many lines end in a run of bytes *)

EndsIn(bytes) == {i \in 1 .. Len(bytes) : bytes[i] = "newline"}
Ends(bytes) == Cardinality(EndsIn(bytes))

LEMMA EndsAreFinite ==
  ASSUME NEW s \in Seq(Output)
  PROVE  IsFiniteSet(EndsIn(s)) /\ Ends(s) \in Nat /\ Client!Newlines(s) = EndsIn(s)
<1>1. Len(s) \in Nat /\ DOMAIN s = 1 .. Len(s)
  BY LenProperties
<1>2. IsFiniteSet(1 .. Len(s)) /\ EndsIn(s) \in SUBSET (1 .. Len(s))
  BY <1>1, FS_Interval DEF EndsIn
<1>3. IsFiniteSet(EndsIn(s))
  BY <1>2, FS_Subset
<1> QED
  BY <1>1, <1>3, FS_CardinalityType DEF Ends, EndsIn, Client!Newlines

LEMMA NoBytesNoEnds == <<>> \in Seq(Output) /\ Ends(<<>>) = 0
<1>1. EndsIn(<<>>) = {}
  BY DEF EndsIn
<1> QED
  BY <1>1, FS_EmptySet, EmptySeq DEF Ends

LEMMA EndsOfConcatenation ==
  ASSUME NEW s \in Seq(Output), NEW t \in Seq(Output)
  PROVE  s \o t \in Seq(Output) /\ Ends(s \o t) = Ends(s) + Ends(t)
<1> DEFINE shifted == {Len(s) + i : i \in EndsIn(t)}
           shift == [i \in EndsIn(t) |-> Len(s) + i]
<1>1. /\ Len(s) \in Nat /\ Len(t) \in Nat
      /\ s \o t \in Seq(Output) /\ Len(s \o t) = Len(s) + Len(t)
      /\ \A i \in 1 .. Len(s) + Len(t) :
           (s \o t)[i] = IF i <= Len(s) THEN s[i] ELSE t[i - Len(s)]
  BY LenProperties, ConcatProperties
<1>2. IsFiniteSet(EndsIn(s)) /\ IsFiniteSet(EndsIn(t))
  BY EndsAreFinite
<1>3. \A i \in EndsIn(t) : i \in 1 .. Len(t)
  BY DEF EndsIn
<1>4. IsFiniteSet(shifted) /\ Cardinality(shifted) = Ends(t)
  <2>1. shift \in Bijection(EndsIn(t), shifted)
    <3>1. shift \in [EndsIn(t) -> shifted]
      OBVIOUS
    <3>2. \A i, j \in EndsIn(t) : shift[i] = shift[j] => i = j
      BY <1>1, <1>3
    <3>3. \A k \in shifted : \E i \in EndsIn(t) : shift[i] = k
      OBVIOUS
    <3> HIDE DEF shifted, shift
    <3> QED
      BY <3>1, <3>2, <3>3 DEF Bijection, Injection, Surjection, IsInjective
  <2>2. ExistsBijection(EndsIn(t), shifted)
    BY <2>1 DEF ExistsBijection
  <2> HIDE DEF shifted, shift
  <2> QED
    BY <1>2, <2>2, FS_Bijection DEF Ends
<1>5. EndsIn(s \o t) = EndsIn(s) \cup shifted
  <2>1. ASSUME NEW i \in EndsIn(s \o t) PROVE i \in EndsIn(s) \cup shifted
    <3>1. i \in 1 .. Len(s) + Len(t) /\ (s \o t)[i] = "newline"
      BY <1>1 DEF EndsIn
    <3>2. CASE i <= Len(s)
      BY <1>1, <3>1, <3>2 DEF EndsIn
    <3>3. CASE ~(i <= Len(s))
      <4>1. i - Len(s) \in EndsIn(t) /\ i = Len(s) + (i - Len(s))
        BY <1>1, <3>1, <3>3 DEF EndsIn
      <4> QED
        BY <4>1
    <3> QED
      BY <3>2, <3>3
  <2>2. ASSUME NEW i \in EndsIn(s) PROVE i \in EndsIn(s \o t)
    BY <1>1, <2>2 DEF EndsIn
  <2>3. ASSUME NEW i \in EndsIn(t) PROVE Len(s) + i \in EndsIn(s \o t)
    <3>1. i \in 1 .. Len(t) /\ t[i] = "newline"
      BY DEF EndsIn
    <3>2. (s \o t)[Len(s) + i] = t[i]
      BY <1>1, <3>1
    <3> QED
      BY <1>1, <3>1, <3>2 DEF EndsIn
  <2> QED
    BY <2>1, <2>2, <2>3
<1>6. EndsIn(s) \cap shifted = {}
  BY <1>1, <1>3 DEF EndsIn
<1>7. Cardinality(EndsIn(s) \cup shifted) = Ends(s) + Ends(t) - 0
  <2> HIDE DEF shifted, shift
  <2> QED
    BY <1>2, <1>4, <1>6, FS_Union, FS_EmptySet DEF Ends
<1>8. Ends(s) \in Nat /\ Ends(t) \in Nat
  BY EndsAreFinite
<1> QED
  BY <1>1, <1>5, <1>7, <1>8 DEF Ends

(* Cutting a run in two loses no line.                                     *)
LEMMA EndsOfParts ==
  ASSUME NEW s \in Seq(Output), NEW n \in 0 .. Len(s)
  PROVE  Ends(s) = Ends(SubSeq(s, 1, n)) + Ends(SubSeq(s, n + 1, Len(s)))
<1> DEFINE front == SubSeq(s, 1, n)
           back == SubSeq(s, n + 1, Len(s))
<1>1. /\ front \in Seq(Output) /\ Len(front) = n /\ \A i \in 1 .. n : front[i] = s[i]
      /\ back \in Seq(Output) /\ Len(back) = Len(s) - n
      /\ \A i \in 1 .. Len(s) - n : back[i] = s[n + i]
      /\ Len(s) \in Nat
  BY PrefixProperties, SuffixProperties, LenProperties
<1> HIDE DEF front, back
<1>2. /\ front \o back \in Seq(Output) /\ Len(front \o back) = Len(s)
      /\ \A i \in 1 .. Len(s) : (front \o back)[i] = IF i <= n THEN front[i] ELSE back[i - n]
  <2>1. /\ front \o back \in Seq(Output) /\ Len(front \o back) = Len(front) + Len(back)
        /\ \A i \in 1 .. Len(front) + Len(back) :
             (front \o back)[i] = IF i <= Len(front) THEN front[i] ELSE back[i - Len(front)]
    BY <1>1, ConcatProperties
  <2> QED
    BY <1>1, <2>1
<1>3. \A i \in 1 .. Len(s) : (front \o back)[i] = s[i]
  <2> TAKE i \in 1 .. Len(s)
  <2>1. CASE i <= n
    BY <1>1, <1>2, <2>1
  <2>2. CASE ~(i <= n)
    <3>1. i - n \in 1 .. Len(s) - n /\ n + (i - n) = i
      BY <1>1, <2>2
    <3> QED
      BY <1>1, <1>2, <2>2, <3>1
  <2> QED
    BY <2>1, <2>2
<1>4. EndsIn(front \o back) = EndsIn(s)
  BY <1>2, <1>3 DEF EndsIn
<1>5. Ends(front \o back) = Ends(front) + Ends(back)
  BY <1>1, EndsOfConcatenation
<1> QED
  BY <1>4, <1>5 DEF Ends, front, back

-----------------------------------------------------------------------------
(* The invariant *)

ConvTypes ==
  /\ down \in Seq(Output) /\ Len(down) <= DownSpace
  /\ outbuf \in Seq(Output)
  /\ recvbuf \in Seq(Output) /\ Len(recvbuf) <= RECVBUF_SIZE
  /\ said \in Nat /\ printed \in Nat

(* Where the two programs can be. *)
Over == at \in {"ended", "failed"}
Places ==
  /\ gone => Over
  /\ at = "server" => down # <<>> \/ pc = "closed"
  /\ at = "ended" => pc = "closed"
  /\ Len(recvbuf) < RECVBUF_SIZE \/ at = "failed"
  /\ pc \in {"backlog", "reading", "answered"} => ~closing
  /\ done => pc \in {"answered", "leaving", "closed"}
  /\ pc \in {"backlog", "closed"} => outbuf = <<>>

(* The end of the client's socket is an edge of the WRITE filter too.      *)
GoneNoticed == gone /\ pc \in {"waiting", "reading", "answered"} => writeEdge

(* A connection that goes because of a QUIT has nothing left to flush.      *)
Emptied == pc = "leaving" /\ closing /\ ~lost /\ ~Over => outbuf = <<>>

(* Every line the server undertook to send is printed or on its way.       *)
LinesAccounted ==
  ~lost /\ ~reset /\ ~Over /\ (pc = "closed" => closing) =>
    printed + Ends(down) + Ends(outbuf) = said

ConvInv ==
  /\ ConvTypes
  /\ Places
  /\ GoneNoticed
  /\ OutputScheduled
  /\ Emptied
  /\ LinesAccounted
  /\ QuitIsGraceful

-----------------------------------------------------------------------------
(* Writing *)

(* A write takes as much as there is room for: either everything is taken  *)
(* or the kernel's buffer is full.                                         *)
LEMMA WrittenProperties ==
  ASSUME ConvTypes, NEW data \in Seq(Output),
         NEW written, written = Server!Written(data),
         NEW rest, rest = Server!Without(data, written)
  PROVE  /\ written \in Seq(Output) /\ rest \in Seq(Output)
         /\ down \o written \in Seq(Output) /\ Len(down \o written) <= DownSpace
         /\ rest # <<>> => Len(down \o written) = DownSpace
         /\ Ends(down \o written) + Ends(rest) = Ends(down) + Ends(data)
<1> DEFINE n == Min({Server!Space, Len(data)})
<1>1. /\ Len(down) \in Nat /\ Len(data) \in Nat /\ Len(down) <= DownSpace
      /\ DownSpace \in Nat /\ Server!Space = DownSpace - Len(down)
  BY LenProperties, SocketAssumption DEF ConvTypes, Server!Space
<1>2. n = IF Server!Space <= Len(data) THEN Server!Space ELSE Len(data)
  BY <1>1, LesserOfTwo
<1>3. written = SubSeq(data, 1, n)
  BY DEF Server!Written, Server!Min, Min
<1> HIDE DEF n
<1>4. n \in 0 .. Len(data)
  BY <1>1, <1>2
<1>5. written \in Seq(Output) /\ Len(written) = n
  BY <1>3, <1>4, PrefixProperties
<1>6. rest = SubSeq(data, n + 1, Len(data)) /\ rest \in Seq(Output) /\ Len(rest) = Len(data) - n
  BY <1>4, <1>5, SuffixProperties DEF Server!Without
<1>7. down \o written \in Seq(Output) /\ Len(down \o written) = Len(down) + n
  BY <1>5, ConcatProperties DEF ConvTypes
<1>8. rest # <<>> => n # Len(data)
  BY <1>6, EmptySeq
<1>9. Len(down \o written) <= DownSpace /\ (rest # <<>> => Len(down \o written) = DownSpace)
  BY <1>1, <1>2, <1>7, <1>8
<1>10. Ends(data) = Ends(written) + Ends(rest)
  BY <1>3, <1>4, <1>6, EndsOfParts
<1>11. Ends(down \o written) = Ends(down) + Ends(written)
  BY <1>5, EndsOfConcatenation DEF ConvTypes
<1>12. Ends(down) \in Nat /\ Ends(written) \in Nat /\ Ends(rest) \in Nat
  BY <1>5, <1>6, EndsAreFinite DEF ConvTypes
<1>13. Ends(down \o written) + Ends(rest) = Ends(down) + Ends(data)
  BY <1>10, <1>11, <1>12
<1> QED
  BY <1>5, <1>6, <1>7, <1>9, <1>13

LEMMA OneLineEndsOnce ==
  ASSUME NEW line \in {Server!Answer, Server!Notice}
  PROVE  line \in Seq(Output) /\ Ends(line) = 1
<1>1. PICK first \in Output \ {"newline"} : line = <<first, "newline">>
  BY DEF Server!Answer, Server!Notice, Output, Server!Output
<1>2. "newline" \in Output
  BY DEF Output, Server!Output
<1>3. line \in Seq(Output) /\ Len(line) = 2 /\ line[1] = first /\ line[2] = "newline"
  BY <1>1, <1>2
<1>4. EndsIn(line) = {2}
  BY <1>3 DEF EndsIn
<1> QED
  BY <1>3, <1>4, FS_Singleton DEF Ends

(* A line that is sent is written or stored, and stored only behind a full *)
(* socket or behind older output.                                          *)
LEMMA SendLineProperties ==
  ASSUME ConvTypes, NEW line \in {Server!Answer, Server!Notice}, Server!SendLine(line)
  PROVE  /\ down' \in Seq(Output) /\ Len(down') <= DownSpace
         /\ outbuf' \in Seq(Output)
         /\ said' = said + 1 /\ lost' = lost
         /\ ~gone /\ outbuf' # <<>> => Len(down') = DownSpace \/ (outbuf # <<>> /\ down' = down)
         /\ ~gone => Ends(down') + Ends(outbuf') = Ends(down) + Ends(outbuf) + 1
         /\ ~gone => (down # <<>> => down' # <<>>)
<1> DEFINE direct == Server!Direct(line)
           rest == Server!Rest(line)
<1>1. /\ down' = IF gone THEN <<>> ELSE down \o direct
      /\ outbuf' = outbuf \o rest
      /\ said' = said + 1 /\ lost' = lost
  BY DEF Server!SendLine
<1>2. rest = Server!Without(line, direct)
  BY DEF Server!Rest
<1>3. direct = IF outbuf = <<>> THEN Server!Written(line) ELSE <<>>
  BY DEF Server!Direct
<1>4. line \in Seq(Output) /\ Ends(line) = 1 /\ Len(line) \in Nat
  BY OneLineEndsOnce, LenProperties
<1> HIDE DEF direct, rest
<1>5. /\ rest \in Seq(Output)
      /\ down \o direct \in Seq(Output) /\ Len(down \o direct) <= DownSpace
      /\ Ends(down \o direct) + Ends(rest) = Ends(down) + 1
      /\ outbuf = <<>> /\ rest # <<>> => Len(down \o direct) = DownSpace
      /\ outbuf # <<>> => down \o direct = down
  <2>1. CASE outbuf = <<>>
    <3>1. direct = Server!Written(line)
      BY <1>3, <2>1
    <3>2. /\ rest \in Seq(Output)
          /\ down \o direct \in Seq(Output) /\ Len(down \o direct) <= DownSpace
          /\ rest # <<>> => Len(down \o direct) = DownSpace
          /\ Ends(down \o direct) + Ends(rest) = Ends(down) + Ends(line)
      BY <1>2, <1>4, <3>1, WrittenProperties
    <3> QED
      BY <1>4, <2>1, <3>2
  <2>2. CASE outbuf # <<>>
    <3>1. direct = <<>>
      BY <1>3, <2>2
    <3>2. rest = SubSeq(line, 1, Len(line))
      BY <1>2, <3>1, EmptySeq DEF Server!Without
    <3>3. rest = line
      BY <1>4, <3>2, SubSeqFull
    <3>4. down \o direct = down
      BY <3>1, ConcatEmptySeq DEF ConvTypes
    <3> QED
      BY <1>4, <2>2, <3>3, <3>4 DEF ConvTypes
  <2> QED
    BY <2>1, <2>2
<1>6. /\ outbuf \o rest \in Seq(Output)
      /\ Ends(outbuf \o rest) = Ends(outbuf) + Ends(rest)
      /\ outbuf = <<>> => outbuf \o rest = rest
  BY <1>5, EndsOfConcatenation, ConcatEmptySeq DEF ConvTypes
<1>7. /\ Ends(down) \in Nat /\ Ends(outbuf) \in Nat /\ Ends(rest) \in Nat
      /\ Ends(down \o direct) \in Nat
  BY <1>5, EndsAreFinite DEF ConvTypes
<1>8. down # <<>> => down \o direct # <<>>
  <2>1. direct \in Seq(Output)
    <3>1. CASE outbuf = <<>>
      BY <1>3, <1>4, <3>1, WrittenProperties
    <3>2. CASE outbuf # <<>>
      BY <1>3, <3>2, EmptySeq
    <3> QED
      BY <3>1, <3>2
  <2> QED
    BY <2>1, ConcatEqualIffEmpty DEF ConvTypes
<1>9. <<>> \in Seq(Output) /\ Len(<<>>) = 0 /\ DownSpace \in Nat
  BY EmptySeq, SocketAssumption
<1>10. ~gone => Ends(down') + Ends(outbuf') = Ends(down) + Ends(outbuf) + 1
  <2> SUFFICES ASSUME ~gone PROVE Ends(down') + Ends(outbuf') = Ends(down) + Ends(outbuf) + 1
    OBVIOUS
  <2>1. down' = down \o direct /\ outbuf' = outbuf \o rest
    BY <1>1
  <2>2. Ends(down') = Ends(down \o direct) /\ Ends(outbuf') = Ends(outbuf) + Ends(rest)
    BY <1>6, <2>1
  <2>3. Ends(down \o direct) + (Ends(outbuf) + Ends(rest)) = Ends(down) + Ends(outbuf) + 1
    <3>1. Ends(down \o direct) + Ends(rest) = Ends(down) + 1
      BY <1>5
    <3>2. \A a, b, c, d \in Nat : a + c = b + 1 => a + (d + c) = b + d + 1
      OBVIOUS
    <3> QED
      BY <1>7, <3>1, <3>2
  <2> QED
    BY <2>2, <2>3
<1> QED
  BY <1>1, <1>5, <1>6, <1>8, <1>9, <1>10

(* A line that is given up leaves what is stored as it is.                 *)
LEMMA SendLineFailsProperties ==
  ASSUME ConvTypes, NEW line \in {Server!Answer, Server!Notice}, Server!SendLineFails(line)
  PROVE  /\ down' \in Seq(Output) /\ Len(down') <= DownSpace
         /\ outbuf' = outbuf /\ said' = said /\ lost'
         /\ outbuf # <<>> => down' = down
         /\ down # <<>> => down' # <<>>
<1>1. /\ outbuf' = outbuf /\ said' = said /\ lost'
      /\ down' = down \/ down' = down \o Server!Direct(line)
  BY DEF Server!SendLineFails
<1>2. CASE down' = down
  BY <1>1, <1>2 DEF ConvTypes
<1>3. CASE outbuf = <<>> /\ down' = down \o Server!Direct(line)
  <2>1. line \in Seq(Output)
    BY OneLineEndsOnce
  <2>2. Server!Direct(line) = Server!Written(line)
    BY <1>3 DEF Server!Direct
  <2>3. /\ Server!Direct(line) \in Seq(Output)
        /\ down \o Server!Direct(line) \in Seq(Output)
        /\ Len(down \o Server!Direct(line)) <= DownSpace
    BY <2>1, <2>2, WrittenProperties
  <2>4. down # <<>> => down \o Server!Direct(line) # <<>>
    BY <2>3, ConcatEqualIffEmpty DEF ConvTypes
  <2> QED
    BY <1>1, <1>3, <2>3, <2>4
<1>4. CASE outbuf # <<>> /\ down' = down \o Server!Direct(line)
  <2>1. Server!Direct(line) = <<>>
    BY <1>4 DEF Server!Direct
  <2>2. down' = down
    BY <1>4, <2>1, ConcatEmptySeq DEF ConvTypes
  <2> QED
    BY <1>2, <2>2
<1> QED
  BY <1>1, <1>2, <1>3, <1>4

-----------------------------------------------------------------------------
(* The server's steps *)

LEMMA LineKeepsInv ==
  ASSUME ConvInv, NEW line \in {Server!Answer, Server!Notice},
         Server!SendLine(line) \/ Server!SendLineFails(line),
         UNCHANGED <<gone, reset, writeEdge, recvbuf, at, printed>>,
         pc \in {"waiting", "reading", "answered"}, pc' \in {"waiting", "answered", "leaving"},
         pc' = "answered" => ~closing',
         done' => pc' \in {"answered", "leaving"},
         pc' = "leaving" => outbuf' = <<>> \/ lost'
  PROVE  ConvInv'
<1>1. ConvTypes /\ Places
  BY DEF ConvInv
<1>2. ~Over => ~gone
  BY <1>1 DEF Places
<1>3. /\ down' \in Seq(Output) /\ Len(down') <= DownSpace
      /\ outbuf' \in Seq(Output) /\ said' \in Nat
      /\ ~gone => (down # <<>> => down' # <<>>)
      /\ ~gone /\ outbuf' # <<>> => Len(down') = DownSpace \/ (outbuf # <<>> /\ down' = down)
      /\ ~gone /\ ~lost' =>
           /\ ~lost /\ said' = said + 1
           /\ Ends(down') + Ends(outbuf') = Ends(down) + Ends(outbuf) + 1
  <2>1. CASE Server!SendLine(line)
    BY <1>1, <2>1, SendLineProperties DEF ConvTypes
  <2>2. CASE Server!SendLineFails(line)
    BY <1>1, <2>2, SendLineFailsProperties DEF ConvTypes
  <2> QED
    BY <2>1, <2>2
<1>4. ConvTypes'
  BY <1>1, <1>3 DEF ConvTypes
<1>5. Places'
  BY <1>1, <1>2, <1>3 DEF Places, Over
<1>6. GoneNoticed'
  BY DEF ConvInv, GoneNoticed
<1>7. OutputScheduled'
  <2>1. Len(down') <= DownSpace /\ Len(down') \in Nat /\ DownSpace \in Nat
    BY <1>3, LenProperties, SocketAssumption
  <2>2. CASE gone
    BY <1>6, <2>2 DEF ConvInv, GoneNoticed, OutputScheduled
  <2>3. CASE ~gone
    BY <1>3, <2>1, <2>3 DEF ConvInv, OutputScheduled
  <2> QED
    BY <2>2, <2>3
<1>8. Emptied'
  BY DEF Emptied, Over
<1>9. LinesAccounted'
  <2> SUFFICES ASSUME ~lost', ~reset, ~Over
               PROVE  printed + Ends(down') + Ends(outbuf') = said'
    BY DEF LinesAccounted, Over
  <2>1. /\ ~lost /\ said' = said + 1
        /\ Ends(down') + Ends(outbuf') = Ends(down) + Ends(outbuf) + 1
    BY <1>2, <1>3
  <2>2. printed + Ends(down) + Ends(outbuf) = said
    BY <2>1 DEF ConvInv, LinesAccounted
  <2>3. /\ Ends(down) \in Nat /\ Ends(outbuf) \in Nat /\ printed \in Nat
        /\ Ends(down') \in Nat /\ Ends(outbuf') \in Nat
    BY <1>1, <1>3, EndsAreFinite DEF ConvTypes
  <2>4. \A a, b, c, d, e \in Nat : d + e = b + c + 1 => a + d + e = a + b + c + 1
    OBVIOUS
  <2>5. printed + Ends(down') + Ends(outbuf') = printed + Ends(down) + Ends(outbuf) + 1
    <3>1. Ends(down') + Ends(outbuf') = Ends(down) + Ends(outbuf) + 1
      BY <2>1
    <3> QED
      BY <2>3, <2>4, <3>1
  <2> QED
    BY <2>1, <2>2, <2>5
<1>10. QuitIsGraceful'
  BY <1>1 DEF Places, QuitIsGraceful
<1> QED
  BY <1>4, <1>5, <1>6, <1>7, <1>8, <1>9, <1>10 DEF ConvInv

LEMMA NotifyKeepsInv ==
  ASSUME ConvInv, Server!Notify, UNCHANGED clientVars
  PROVE  ConvInv'
<1>1. /\ Server!SendLine(Server!Notice) \/ Server!SendLineFails(Server!Notice)
      /\ pc = "waiting" /\ pc' = pc /\ ~done'
      /\ UNCHANGED <<gone, reset, writeEdge, recvbuf, at, printed>>
  BY DEF Server!Notify, clientVars, ConvInv, Places
<1> QED
  BY <1>1, LineKeepsInv

LEMMA ProcessKeepsInv ==
  ASSUME ConvInv, Server!Process, UNCHANGED clientVars
  PROVE  ConvInv'
<1>1. /\ Server!SendLine(Server!Answer) \/ Server!SendLineFails(Server!Answer)
      /\ pc = "reading"
      /\ UNCHANGED <<gone, reset, writeEdge, recvbuf, at, printed>>
  BY DEF Server!Process, clientVars
<1>2. /\ pc' \in {"waiting", "answered", "leaving"}
      /\ pc' = "answered" => ~closing'
      /\ done' => pc' \in {"answered", "leaving"}
      /\ pc' = "leaving" => outbuf' = <<>> \/ lost'
  BY DEF Server!Process, Server!NothingToFlush, Server!SendLineFails
<1> QED
  BY <1>1, <1>2, LineKeepsInv

LEMMA ExecuteKeepsInv ==
  ASSUME ConvInv, Server!Execute, UNCHANGED clientVars
  PROVE  ConvInv'
<1>1. /\ Server!SendLine(Server!Notice) \/ Server!SendLineFails(Server!Notice)
      /\ pc = "answered" /\ pc' = pc /\ ~closing'
      /\ UNCHANGED <<gone, reset, writeEdge, recvbuf, at, printed>>
  BY DEF Server!Execute, clientVars, ConvInv, Places
<1> QED
  BY <1>1, LineKeepsInv

(* The WRITE event flushes what fits, and the rest waits for the next.     *)
LEMMA WritableKeepsInv ==
  ASSUME ConvInv, Server!Writable, UNCHANGED clientVars
  PROVE  ConvInv'
<1> DEFINE written == Server!Written(outbuf)
           rest == Server!Without(outbuf, written)
<1>1. /\ down' = down \o written /\ outbuf' = rest
      /\ pc = "waiting" /\ ~gone /\ gone' = gone /\ reset' = reset
      /\ pc' = IF closing /\ outbuf' = <<>> THEN "leaving" ELSE "waiting"
      /\ UNCHANGED <<recvbuf, at, printed, closing, done, said, lost>>
  BY DEF Server!Writable, Server!Flushed, Server!LastFlushed, clientVars, Server!history
<1>2. ConvTypes /\ Places
  BY DEF ConvInv
<1>3. /\ written \in Seq(Output) /\ rest \in Seq(Output)
      /\ down \o written \in Seq(Output) /\ Len(down \o written) <= DownSpace
      /\ rest # <<>> => Len(down \o written) = DownSpace
      /\ Ends(down \o written) + Ends(rest) = Ends(down) + Ends(outbuf)
  BY <1>2, WrittenProperties DEF ConvTypes
<1> HIDE DEF written, rest
<1>4. down # <<>> => down' # <<>>
  BY <1>1, <1>2, <1>3, ConcatEqualIffEmpty DEF ConvTypes
<1>5. ConvTypes'
  BY <1>1, <1>2, <1>3 DEF ConvTypes
<1>6. Places'
  BY <1>1, <1>2, <1>4 DEF Places, Over
<1>7. OutputScheduled'
  BY <1>1, <1>3, SocketAssumption DEF OutputScheduled
<1>8. LinesAccounted'
  <2> SUFFICES ASSUME ~lost, ~reset, ~Over
               PROVE  printed + Ends(down') + Ends(outbuf') = said
    BY <1>1 DEF LinesAccounted, Over
  <2>1. printed + Ends(down) + Ends(outbuf) = said
    BY <1>1 DEF ConvInv, LinesAccounted
  <2>2. Ends(down') + Ends(outbuf') = Ends(down) + Ends(outbuf)
    BY <1>1, <1>3
  <2>3. /\ Ends(down) \in Nat /\ Ends(outbuf) \in Nat /\ printed \in Nat
        /\ Ends(down') \in Nat /\ Ends(outbuf') \in Nat
    BY <1>2, <1>5, EndsAreFinite DEF ConvTypes
  <2>4. \A a, b, c, d, e \in Nat : d + e = b + c => a + d + e = a + b + c
    OBVIOUS
  <2> QED
    BY <2>1, <2>2, <2>3, <2>4
<1> QED
  BY <1>1, <1>2, <1>5, <1>6, <1>7, <1>8
  DEF ConvInv, GoneNoticed, Emptied, Over, QuitIsGraceful, Places

(* What the server is told and what it decides without writing.            *)
LEMMA QuietStepKeepsInv ==
  ASSUME ConvInv, UNCHANGED clientVars,
         \/ Server!Register \/ Server!RegisterFails \/ Server!Readable
         \/ Server!EndCommand \/ Server!EndRead \/ Server!Disconnected
  PROVE  ConvInv'
<1>1. UNCHANGED <<down, gone, reset, outbuf, closing, done, said, lost, recvbuf, at, printed>>
  BY DEF Server!Register, Server!RegisterFails, Server!Readable, Server!EndCommand,
         Server!EndRead, Server!Disconnected, Server!socket, Server!history, clientVars
<1>2. \/ pc = "backlog" /\ pc' = "waiting" /\ writeEdge'
      \/ pc = "backlog" /\ pc' = "leaving"
      \/ pc = "waiting" /\ writeEdge' = writeEdge /\ (pc' = "waiting" \/ (pc' = "reading" /\ ~closing))
      \/ pc = "reading" /\ writeEdge' = writeEdge /\ pc' \in {"waiting", "leaving"}
      \/ pc = "answered" /\ writeEdge' = writeEdge /\ pc' = IF done THEN "leaving" ELSE "reading"
      \/ pc = "waiting" /\ gone /\ pc' = "leaving"
  <2>1. CASE Server!Register \/ Server!RegisterFails
    BY <2>1 DEF Server!Register, Server!RegisterFails
  <2>2. CASE Server!Readable
    BY <2>2 DEF Server!Readable
  <2>3. CASE Server!EndRead
    BY <2>3 DEF Server!EndRead, Server!socket
  <2>4. CASE Server!Disconnected
    BY <2>4 DEF Server!Disconnected
  <2>5. CASE Server!EndCommand
    BY <2>5 DEF Server!EndCommand, Server!socket
  <2> QED
    BY <2>1, <2>2, <2>3, <2>4, <2>5
<1>3. ConvTypes' /\ LinesAccounted'
  BY <1>1, <1>2 DEF ConvInv, ConvTypes, LinesAccounted, Over, Ends, EndsIn
<1>4. Places'
  BY <1>1, <1>2 DEF ConvInv, Places, Over
<1>5. GoneNoticed' /\ OutputScheduled'
  BY <1>1, <1>2 DEF ConvInv, Places, GoneNoticed, OutputScheduled
<1>6. Emptied' /\ QuitIsGraceful'
  BY <1>1, <1>2 DEF ConvInv, Places, Emptied, Over, QuitIsGraceful
<1> QED
  BY <1>3, <1>4, <1>5, <1>6 DEF ConvInv

(* A QUIT has been flushed when its connection is removed; what a reset    *)
(* destroys is not accounted for.                                          *)
LEMMA RemoveKeepsInv ==
  ASSUME ConvInv, Server!Remove, UNCHANGED clientVars
  PROVE  ConvInv'
<1>1. /\ pc = "leaving" /\ pc' = "closed" /\ outbuf' = <<>>
      /\ UNCHANGED <<gone, closing, done, said, lost, recvbuf, at, printed>>
      /\ (down' = down /\ reset' = reset) \/ (reset' /\ \E n \in 0 .. Len(down) : down' = SubSeq(down, 1, n))
  BY DEF Server!Remove, Server!Reset, Server!history, clientVars
<1>2. down' \in Seq(Output) /\ Len(down') <= DownSpace
  <2>1. CASE down' = down
    BY <2>1 DEF ConvInv, ConvTypes
  <2>2. CASE \E n \in 0 .. Len(down) : down' = SubSeq(down, 1, n)
    <3>1. PICK n \in 0 .. Len(down) : down' = SubSeq(down, 1, n)
      BY <2>2
    <3>2. Len(down) \in Nat /\ Len(down) <= DownSpace /\ DownSpace \in Nat
      BY LenProperties, SocketAssumption DEF ConvInv, ConvTypes
    <3>3. down' \in Seq(Output) /\ Len(down') = n
      BY <3>1, PrefixProperties DEF ConvInv, ConvTypes
    <3> QED
      BY <3>2, <3>3
  <2> QED
    BY <1>1, <2>1, <2>2
<1>3. ConvTypes'
  BY <1>1, <1>2, EmptySeq DEF ConvInv, ConvTypes
<1>4. Places'
  BY <1>1 DEF ConvInv, Places, Over
<1>5. LinesAccounted'
  <2> SUFFICES ASSUME ~lost, ~reset', ~Over, closing
               PROVE  printed + Ends(down') + Ends(outbuf') = said
    BY <1>1 DEF LinesAccounted, Over
  <2>1. down' = down /\ reset' = reset
    BY <1>1
  <2>2. outbuf' = outbuf
    BY <1>1 DEF ConvInv, Emptied
  <2>3. printed + Ends(down) + Ends(outbuf) = said
    BY <1>1, <2>1 DEF ConvInv, LinesAccounted
  <2> QED
    BY <2>1, <2>2, <2>3
<1> QED
  BY <1>1, <1>3, <1>4, <1>5
  DEF ConvInv, Places, GoneNoticed, OutputScheduled, Emptied, Over, QuitIsGraceful

-----------------------------------------------------------------------------
(* The client's steps *)

(* A step that leaves the socket's way down and the buffers alone.          *)
LEMMA ClientElsewhereKeepsInv ==
  ASSUME ConvInv, ~Over, UNCHANGED <<down, gone, reset, writeEdge, recvbuf, printed, serverVars>>,
         at' # "ended", at' = "server" => down # <<>> \/ pc = "closed"
  PROVE  ConvInv'
<1>1. UNCHANGED <<outbuf, closing, pc, done, said, lost>>
  BY DEF serverVars
<1>2. ConvTypes' /\ Places'
  BY <1>1 DEF ConvInv, ConvTypes, Places, Over
<1>3. LinesAccounted'
  BY <1>1 DEF ConvInv, LinesAccounted, Over, Ends, EndsIn
<1>4. GoneNoticed' /\ OutputScheduled' /\ Emptied' /\ QuitIsGraceful'
  BY <1>1 DEF ConvInv, GoneNoticed, OutputScheduled, Emptied, Over, QuitIsGraceful
<1> QED
  BY <1>2, <1>3, <1>4 DEF ConvInv

(* A read that returns nothing has read all there was.                      *)
LEMMA NothingReceived ==
  ASSUME ConvInv, at = "server", Client!Received = <<>>
  PROVE  down = <<>>
<1> DEFINE n == Min({RECVBUF_SIZE - Len(recvbuf), Len(down)})
<1>1. Len(down) \in Nat /\ Len(recvbuf) \in Nat /\ RECVBUF_SIZE \in Nat
  BY LenProperties, SocketAssumption DEF ConvInv, ConvTypes
<1>2. Len(recvbuf) < RECVBUF_SIZE
  BY DEF ConvInv, Places
<1>3. n \in 0 .. Len(down) /\ (n = 0 => Len(down) = 0)
  BY <1>1, <1>2, LesserOfTwo
<1>4. Client!Received = SubSeq(down, 1, n)
  BY DEF Client!Received, Client!Min, Min
<1> HIDE DEF n
<1>5. n = 0
  BY <1>3, <1>4, PrefixProperties, EmptySeq DEF ConvInv, ConvTypes
<1> QED
  BY <1>3, <1>5, EmptySeq DEF ConvInv, ConvTypes

(* The program ends.  If it ends well the server had closed the connection *)
(* and everything that was sent has been read.                             *)
LEMMA ClientEndsKeepsInv ==
  ASSUME ConvInv, ~Over, Client!CloseSocket, UNCHANGED serverVars,
         recvbuf' \in Seq(Output), Len(recvbuf') <= RECVBUF_SIZE, printed' \in Nat,
         \/ at' = "failed"
         \/ /\ at' = "ended" /\ ~reset /\ down = <<>> /\ pc = "closed"
            /\ UNCHANGED <<recvbuf, printed>>
  PROVE  ConvInv'
<1>1. /\ gone' /\ down' = <<>> /\ writeEdge'
      /\ UNCHANGED <<outbuf, closing, pc, done, said, lost>>
  BY DEF serverVars, Client!CloseSocket
<1>2. ConvTypes'
  BY <1>1, EmptySeq, SocketAssumption DEF ConvInv, ConvTypes
<1>3. Places'
  BY <1>1 DEF ConvInv, Places, Over
<1>4. QuitIsGraceful'
  <2>1. CASE at' = "failed"
    BY <2>1 DEF QuitIsGraceful
  <2>2. CASE at' = "ended"
    <3> SUFFICES ASSUME closing, ~lost PROVE printed = said
      BY <1>1, <2>2 DEF QuitIsGraceful
    <3>1. printed + Ends(down) + Ends(outbuf) = said
      BY <2>2 DEF ConvInv, LinesAccounted
    <3>2. down = <<>> /\ outbuf = <<>>
      BY <2>2 DEF ConvInv, Places
    <3>3. Ends(down) = 0 /\ Ends(outbuf) = 0 /\ printed \in Nat
      BY <3>2, NoBytesNoEnds DEF ConvInv, ConvTypes
    <3> QED
      BY <3>1, <3>3
  <2> QED
    BY <2>1, <2>2
<1> QED
  BY <1>1, <1>2, <1>3, <1>4
  DEF ConvInv, GoneNoticed, OutputScheduled, Emptied, LinesAccounted, Over

(* A read takes complete lines off the way and keeps the partial tail.     *)
LEMMA ReadServerKeepsInv ==
  ASSUME ConvInv, Client!ReadServer, UNCHANGED serverVars
  PROVE  ConvInv'
<1> DEFINE received == Client!Received
           bytes == recvbuf \o received
           n == Min({RECVBUF_SIZE - Len(recvbuf), Len(down)})
<1>1. /\ at = "server" /\ ~Over /\ UNCHANGED <<reset, outbuf, closing, pc, done, said, lost>>
      /\ recvbuf' = Client!Kept(bytes)
      /\ printed' = printed + Cardinality(Client!Newlines(received))
  <2>1. at = "server" /\ ~Over /\ UNCHANGED <<reset, outbuf, closing, pc, done, said, lost>>
    BY DEF Client!ReadServer, Over, serverVars
  <2>2. recvbuf' = Client!Kept(bytes)
    BY DEF Client!ReadServer
  <2>3. printed' = printed + Cardinality(Client!Newlines(received))
    BY DEF Client!ReadServer, Client!Cardinality, Cardinality
  <2> QED
    BY <2>1, <2>2, <2>3
<1>2. /\ Len(down) \in Nat /\ Len(recvbuf) \in Nat
      /\ RECVBUF_SIZE \in Nat /\ Len(recvbuf) <= RECVBUF_SIZE
  BY LenProperties, SocketAssumption DEF ConvInv, ConvTypes
<1>3. received = SubSeq(down, 1, n)
  BY DEF Client!Received, Client!Min, Min
<1>4. n \in 0 .. Len(down) /\ n <= RECVBUF_SIZE - Len(recvbuf)
  BY <1>2, LesserOfTwo
<1> HIDE DEF n
<1>5. received \in Seq(Output) /\ Len(received) = n
  BY <1>3, <1>4, PrefixProperties DEF ConvInv, ConvTypes
<1> HIDE DEF received
<1>6. bytes \in Seq(Output) /\ Len(bytes) = Len(recvbuf) + n
  BY <1>5, ConcatProperties DEF ConvInv, ConvTypes
<1> HIDE DEF bytes
<1>7. recvbuf' \in Seq(Output) /\ Len(recvbuf') <= RECVBUF_SIZE
  <2> DEFINE ends == Client!Newlines(bytes) \cup {0}
  <2>1. Len(bytes) \in Nat /\ Client!Newlines(bytes) = EndsIn(bytes)
    BY <1>6, LenProperties, EndsAreFinite
  <2>2. ends \subseteq 0 .. Len(bytes) /\ ends # {}
    BY <2>1 DEF EndsIn
  <2> HIDE DEF ends
  <2>3. Max(ends) \in 0 .. Len(bytes)
    BY <2>1, <2>2, GreatestOfBounded
  <2>4. recvbuf' = SubSeq(bytes, Max(ends) + 1, Len(bytes))
    BY <1>1 DEF Client!Kept, ends, Client!Max, Max
  <2>5. recvbuf' \in Seq(Output) /\ Len(recvbuf') = Len(bytes) - Max(ends)
    BY <1>6, <2>3, <2>4, SuffixProperties
  <2> QED
    BY <1>2, <1>4, <1>6, <2>1, <2>3, <2>5
<1>8. printed' = printed + Ends(received) /\ Ends(received) \in Nat /\ printed \in Nat
  BY <1>1, <1>5, EndsAreFinite DEF Ends, ConvInv, ConvTypes
<1>9. CASE at' = "failed" /\ Client!CloseSocket
  BY <1>1, <1>7, <1>8, <1>9, ClientEndsKeepsInv
<1>10. CASE /\ Len(recvbuf') < RECVBUF_SIZE
            /\ at' \in {"stdin", "poll"} /\ gone' = gone /\ writeEdge'
            /\ down' = SubSeq(down, Len(received) + 1, Len(down))
  <2>1. down' \in Seq(Output) /\ Len(down') = Len(down) - n
    BY <1>4, <1>5, <1>10, SuffixProperties DEF ConvInv, ConvTypes
  <2>2. Len(down') <= DownSpace
    BY <1>2, <1>4, <2>1, SocketAssumption DEF ConvInv, ConvTypes
  <2>3. ConvTypes'
    BY <1>1, <1>7, <1>8, <2>1, <2>2 DEF ConvInv, ConvTypes
  <2>4. Ends(down) = Ends(received) + Ends(down')
    BY <1>3, <1>4, <1>5, <1>10, EndsOfParts DEF ConvInv, ConvTypes
  <2>5. LinesAccounted'
    <3> SUFFICES ASSUME ~lost, ~reset, pc = "closed" => closing
                 PROVE  printed' + Ends(down') + Ends(outbuf) = said
      BY <1>1 DEF LinesAccounted, Over, Ends, EndsIn
    <3>1. printed + Ends(down) + Ends(outbuf) = said
      BY <1>1 DEF ConvInv, LinesAccounted
    <3>2. Ends(down') \in Nat /\ Ends(outbuf) \in Nat
      BY <2>1, EndsAreFinite DEF ConvInv, ConvTypes
    <3>3. \A a, b, c, d \in Nat : a + b + c + d = a + (b + c) + d
      OBVIOUS
    <3>4. printed + Ends(received) + Ends(down') + Ends(outbuf)
            = printed + (Ends(received) + Ends(down')) + Ends(outbuf)
      BY <1>8, <3>2, <3>3
    <3> QED
      BY <1>8, <2>4, <3>1, <3>4
  <2>6. Places'
    BY <1>1, <1>10 DEF ConvInv, Places, Over
  <2> QED
    BY <1>1, <1>10, <2>3, <2>5, <2>6
    DEF ConvInv, Places, GoneNoticed, OutputScheduled, Emptied, Over, QuitIsGraceful
<1> QED
  BY <1>9, <1>10 DEF Client!ReadServer, received

LEMMA WriteLateKeepsInv ==
  ASSUME ConvInv, Client!WriteLate, UNCHANGED serverVars
  PROVE  ConvInv'
<1>1. /\ pc = "closed" /\ at = "write" /\ at' \in {"poll", "write"} /\ reset'
      /\ UNCHANGED <<outbuf, closing, pc, done, said, lost, gone, recvbuf, printed>>
      /\ \E n \in 0 .. Len(down) : down' = SubSeq(down, 1, n)
  BY DEF Client!WriteLate, Client!LineWritten, Client!Reset, serverVars
<1>2. PICK n \in 0 .. Len(down) : down' = SubSeq(down, 1, n)
  BY <1>1
<1>3. Len(down) \in Nat /\ Len(down) <= DownSpace /\ DownSpace \in Nat
  BY LenProperties, SocketAssumption DEF ConvInv, ConvTypes
<1>4. down' \in Seq(Output) /\ Len(down') = n
  BY <1>2, PrefixProperties DEF ConvInv, ConvTypes
<1>5. ConvTypes'
  BY <1>1, <1>3, <1>4 DEF ConvInv, ConvTypes
<1>6. Places'
  BY <1>1 DEF ConvInv, Places, Over
<1> QED
  BY <1>1, <1>5, <1>6
  DEF ConvInv, GoneNoticed, OutputScheduled, Emptied, LinesAccounted, Over, QuitIsGraceful

-----------------------------------------------------------------------------
LEMMA NextKeepsConvInv == ConvInv /\ [Next]_vars => ConvInv'
<1> SUFFICES ASSUME ConvInv, [Next]_vars PROVE ConvInv'
  OBVIOUS
<1>1. CASE ServerStep
  BY <1>1, ProcessKeepsInv, ExecuteKeepsInv, WritableKeepsInv, QuietStepKeepsInv, RemoveKeepsInv
  DEF ServerStep, Server!Step
<1>2. CASE Server!Notify /\ UNCHANGED clientVars
  BY <1>2, NotifyKeepsInv
<1>3. CASE UNCHANGED serverVars /\ (Client!ReadServer \/ Client!WriteLate)
  BY <1>3, ReadServerKeepsInv, WriteLateKeepsInv
<1>4. CASE UNCHANGED serverVars /\ (Client!LoginTooLong \/ Client!WriteFails \/ Client!Kill)
  <2>1. ~Over /\ Client!CloseSocket /\ at' = "failed" /\ UNCHANGED <<recvbuf, printed>>
    BY <1>4 DEF Client!LoginTooLong, Client!WriteFails, Client!Kill, Client!Running, Over
  <2> QED
    BY <1>4, <2>1, ClientEndsKeepsInv DEF ConvInv, ConvTypes
<1>5. CASE UNCHANGED serverVars /\ Client!ServerClosed
  <2>1. /\ ~Over /\ Client!CloseSocket /\ UNCHANGED <<recvbuf, printed>>
        /\ at = "server" /\ Client!Received = <<>>
        /\ at' = IF reset THEN "failed" ELSE "ended"
    BY <1>5 DEF Client!ServerClosed, Over
  <2>2. down = <<>>
    BY <2>1, NothingReceived
  <2>3. pc = "closed"
    BY <2>1, <2>2 DEF ConvInv, Places
  <2> QED
    BY <1>5, <2>1, <2>2, <2>3, ClientEndsKeepsInv DEF ConvInv, ConvTypes
<1>6. CASE UNCHANGED serverVars /\ (Client!Connect \/ Client!ConnectFails \/ Client!Poll \/ Client!Type)
  <2>1. ~Over /\ UNCHANGED <<down, gone, reset, writeEdge, recvbuf, printed, serverVars>>
    BY <1>6 DEF Client!Connect, Client!ConnectFails, Client!Poll, Client!Type, Client!Running, Over
  <2>2. at' # "ended" /\ (at' = "server" => down # <<>> \/ pc = "closed")
    BY <1>6 DEF Client!Connect, Client!ConnectFails, Client!Poll, Client!ServerReady,
                Client!Type, Client!Running, ConvInv, Places
  <2> QED
    BY <2>1, <2>2, ClientElsewhereKeepsInv
<1>7. CASE UNCHANGED serverVars /\ (Client!ReadStdin \/ Client!HalfClose \/ Client!Write)
  <2>1. ~Over /\ UNCHANGED <<down, gone, reset, writeEdge, recvbuf, printed, serverVars>>
    BY <1>7 DEF Client!ReadStdin, Client!HalfClose, Client!Write, Over
  <2>2. at' \in {"poll", "write"}
    BY <1>7 DEF Client!ReadStdin, Client!HalfClose, Client!Write, Client!LineWritten
  <2> QED
    BY <2>1, <2>2, ClientElsewhereKeepsInv
<1>8. CASE UNCHANGED vars
  BY <1>8 DEF vars, serverVars, clientVars, ConvInv, ConvTypes, Places, Over, GoneNoticed,
              OutputScheduled, Emptied, LinesAccounted, QuitIsGraceful, Ends, EndsIn
<1> QED
  BY <1>1, <1>2, <1>3, <1>4, <1>5, <1>6, <1>7, <1>8 DEF Next, ClientStep, Client!Step

LEMMA InitConvInv == Init => ConvInv
  BY NoBytesNoEnds, EmptySeq, SocketAssumption
  DEF Init, Server!Init, Client!Init, ConvInv, ConvTypes, Places, Over, GoneNoticed,
      OutputScheduled, Emptied, LinesAccounted, QuitIsGraceful

(* Stored output is never forgotten, whatever the sizes of the buffers: if  *)
(* the socket has room, the event that flushes it is due (server.c:154).    *)
THEOREM OutputScheduledHolds == Spec => []OutputScheduled
<1>1. ConvInv => OutputScheduled
  BY DEF ConvInv
<1> QED
  BY <1>1, InitConvInv, NextKeepsConvInv, PTL DEF Spec

(* A client that quits and stays for the end has printed every line the    *)
(* server undertook to send it, for every script and however the bytes     *)
(* were cut on their way (io.c:36, 68, 181; trader_client.c:50).            *)
THEOREM QuitIsGracefulHolds == Spec => []QuitIsGraceful
<1>1. ConvInv => QuitIsGraceful
  BY DEF ConvInv
<1> QED
  BY <1>1, InitConvInv, NextKeepsConvInv, PTL DEF Spec

-----------------------------------------------------------------------------
(* Types and sizes *)

Texts == {"order", "QUIT"}

SocketTypes ==
  /\ up \in Seq(Texts) /\ Len(up) <= UpSpace
  /\ connected \in BOOLEAN /\ reset \in BOOLEAN /\ fin \in BOOLEAN /\ gone \in BOOLEAN
  /\ readEdge \in BOOLEAN /\ writeEdge \in BOOLEAN

ServerTypes ==
  /\ Len(outbuf) <= OUTBUF_SIZE
  /\ allocated \in BOOLEAN /\ closing \in BOOLEAN /\ done \in BOOLEAN /\ lost \in BOOLEAN
  /\ pc \in {"backlog", "waiting", "reading", "answered", "leaving", "closed"}
  /\ notices \in Nat

(* What is written next exists while the client program is writing.        *)
ClientTypes ==
  /\ stdin \in BOOLEAN /\ eof \in BOOLEAN
  /\ at \in {"start", "poll", "server", "stdin", "write", "ended", "failed"}
  /\ revents \subseteq {"server", "stdin"}
  /\ script \in Seq(Texts) /\ inbuf \in Seq(Texts)
  /\ at = "write" => inbuf # <<>>

TypeInv == ConvInv /\ SocketTypes /\ ServerTypes /\ ClientTypes

(* The server's variables that ConvTypes has no part of.                   *)
LEMMA LineKeepsSize ==
  ASSUME ConvTypes, Len(outbuf) <= OUTBUF_SIZE, allocated \in BOOLEAN, lost \in BOOLEAN,
         NEW line \in {Server!Answer, Server!Notice},
         Server!SendLine(line) \/ Server!SendLineFails(line)
  PROVE  Len(outbuf') <= OUTBUF_SIZE /\ allocated' \in BOOLEAN /\ lost' \in BOOLEAN
<1>1. CASE Server!SendLine(line)
  <2> DEFINE rest == Server!Rest(line)
  <2>1. outbuf' = outbuf \o rest /\ lost' = lost
    BY <1>1 DEF Server!SendLine
  <2>2. ~(Len(outbuf) + Len(rest) > OUTBUF_SIZE)
    BY <1>1 DEF Server!SendLine, Server!Overflows
  <2>3. rest \in Seq(Output)
    <3>1. line \in Seq(Output)
      BY OneLineEndsOnce
    <3>2. CASE outbuf = <<>>
      BY <3>1, <3>2, WrittenProperties DEF Server!Rest, Server!Direct
    <3>3. CASE outbuf # <<>>
      <4>1. rest = SubSeq(line, 1, Len(line))
        BY <3>3, EmptySeq DEF Server!Rest, Server!Direct, Server!Without
      <4> QED
        BY <3>1, <4>1, SubSeqFull
    <3> QED
      BY <3>2, <3>3
  <2>4. allocated' = (allocated \/ rest # <<>>)
    BY <1>1 DEF Server!SendLine
  <2> HIDE DEF rest
  <2>5. Len(outbuf') = Len(outbuf) + Len(rest) /\ Len(outbuf) \in Nat /\ Len(rest) \in Nat
    BY <2>1, <2>3, ConcatProperties, LenProperties DEF ConvTypes
  <2>6. Len(outbuf') <= OUTBUF_SIZE
    BY <2>2, <2>5, OutputAssumption
  <2> QED
    BY <2>1, <2>4, <2>6
<1>2. CASE Server!SendLineFails(line)
  BY <1>2 DEF Server!SendLineFails
<1> QED
  BY <1>1, <1>2

LEMMA ServerKeepsTypes ==
  ASSUME ConvTypes, SocketTypes, ServerTypes, ClientTypes,
         Server!Step \/ Server!Notify, UNCHANGED clientVars
  PROVE  SocketTypes' /\ ServerTypes' /\ ClientTypes'
<1>1. ClientTypes'
  BY DEF ClientTypes, clientVars
<1>2. CASE Server!Notify
  <2>1. Server!SendLine(Server!Notice) \/ Server!SendLineFails(Server!Notice)
    BY <1>2 DEF Server!Notify
  <2>2. Len(outbuf') <= OUTBUF_SIZE /\ allocated' \in BOOLEAN /\ lost' \in BOOLEAN
    BY <2>1, LineKeepsSize DEF ServerTypes
  <2> QED
    BY <1>1, <1>2, <2>2 DEF Server!Notify, SocketTypes, ServerTypes
<1>3. CASE Server!Process
  <2>1. Server!SendLine(Server!Answer) \/ Server!SendLineFails(Server!Answer)
    BY <1>3 DEF Server!Process
  <2>2. Len(outbuf') <= OUTBUF_SIZE /\ allocated' \in BOOLEAN /\ lost' \in BOOLEAN
    BY <2>1, LineKeepsSize DEF ServerTypes
  <2>3. up' \in Seq(Texts) /\ Len(up') <= UpSpace
    <3>1. up # <<>> /\ up' = Tail(up)
      BY <1>3 DEF Server!Process
    <3>2. Len(up) \in Nat /\ Tail(up) \in Seq(Texts) /\ Len(Tail(up)) = Len(up) - 1
      BY <3>1, HeadTailProperties, LenProperties DEF SocketTypes
    <3> QED
      BY <3>1, <3>2, SocketAssumption DEF SocketTypes
  <2> QED
    BY <1>1, <1>3, <2>2, <2>3 DEF Server!Process, SocketTypes, ServerTypes
<1>4. CASE Server!Writable
  <2>1. /\ outbuf' = Server!Without(outbuf, Server!Written(outbuf))
    BY <1>4 DEF Server!Writable, Server!Flushed
  <2>2. outbuf' \in Seq(Output) /\ Len(outbuf') <= Len(outbuf)
    <3> DEFINE n == Min({Server!Space, Len(outbuf)})
    <3>1. Len(down) \in Nat /\ Len(outbuf) \in Nat /\ Len(down) <= DownSpace
          /\ DownSpace \in Nat /\ Server!Space = DownSpace - Len(down)
      BY LenProperties, SocketAssumption DEF ConvTypes, Server!Space
    <3>2. n \in 0 .. Len(outbuf)
      BY <3>1, LesserOfTwo
    <3>3. Server!Written(outbuf) = SubSeq(outbuf, 1, n)
      BY DEF Server!Written, Server!Min, Min
    <3> HIDE DEF n
    <3>4. Len(Server!Written(outbuf)) = n
      BY <3>2, <3>3, PrefixProperties DEF ConvTypes
    <3>5. outbuf' = SubSeq(outbuf, n + 1, Len(outbuf))
      BY <2>1, <3>4 DEF Server!Without
    <3> QED
      BY <3>1, <3>2, <3>5, SuffixProperties DEF ConvTypes
  <2>3. Len(outbuf') <= OUTBUF_SIZE
    <3>1. Len(outbuf') \in Nat /\ Len(outbuf) \in Nat
      BY <2>2, LenProperties DEF ConvTypes
    <3> QED
      BY <2>2, <3>1, OutputAssumption DEF ServerTypes
  <2> QED
    BY <1>1, <1>4, <2>3 DEF Server!Writable, Server!history, SocketTypes, ServerTypes
<1>5. CASE Server!Remove
  <2>1. up' = <<>> /\ outbuf' = <<>> /\ (reset' = reset \/ reset' = TRUE)
    BY <1>5 DEF Server!Remove, Server!Reset
  <2>2. Len(<<>>) = 0 /\ <<>> \in Seq(Texts)
    BY EmptySeq
  <2>3. up' \in Seq(Texts) /\ Len(up') <= UpSpace /\ Len(outbuf') <= OUTBUF_SIZE
    BY <2>1, <2>2, SocketAssumption, OutputAssumption
  <2> QED
    BY <1>1, <1>5, <2>1, <2>3 DEF Server!Remove, Server!history, SocketTypes, ServerTypes
<1>6. CASE Server!Register \/ Server!RegisterFails
  <2>1. /\ UNCHANGED <<connected, reset, up, fin, gone, outbuf, allocated, closing, done, notices, lost>>
        /\ pc' \in {"waiting", "leaving"}
    BY <1>6 DEF Server!Register, Server!RegisterFails, Server!socket, Server!history
  <2>2. readEdge' \in BOOLEAN /\ writeEdge' \in BOOLEAN
    BY <1>6 DEF Server!Register, Server!RegisterFails, Server!socket, SocketTypes
  <2>3. SocketTypes'
    BY <2>1, <2>2 DEF SocketTypes
  <2>4. ServerTypes'
    BY <2>1 DEF ServerTypes
  <2> QED
    BY <1>1, <2>3, <2>4
<1>7. CASE Server!Readable \/ Server!EndCommand \/ Server!EndRead \/ Server!Disconnected
  <2>1. /\ UNCHANGED <<connected, reset, up, fin, gone, outbuf, allocated, closing, done, notices, lost>>
        /\ pc' \in {"waiting", "reading", "leaving"}
        /\ readEdge' = readEdge \/ readEdge' = FALSE
        /\ writeEdge' = writeEdge \/ writeEdge' = FALSE
    BY <1>7 DEF Server!Readable, Server!EndCommand, Server!EndRead, Server!Disconnected,
                Server!socket, Server!history
  <2>2. SocketTypes'
    BY <2>1 DEF SocketTypes
  <2>3. ServerTypes'
    BY <2>1 DEF ServerTypes
  <2> QED
    BY <1>1, <2>2, <2>3
<1>8. CASE Server!Execute
  <2>1. Server!SendLine(Server!Notice) \/ Server!SendLineFails(Server!Notice)
    BY <1>8 DEF Server!Execute
  <2>2. Len(outbuf') <= OUTBUF_SIZE /\ allocated' \in BOOLEAN /\ lost' \in BOOLEAN
    BY <2>1, LineKeepsSize DEF ServerTypes
  <2>3. done' \in BOOLEAN
    BY <1>8 DEF Server!Execute, Server!Remembered
  <2> QED
    BY <1>1, <1>8, <2>2, <2>3 DEF Server!Execute, SocketTypes, ServerTypes
<1> QED
  BY <1>2, <1>3, <1>4, <1>5, <1>6, <1>7, <1>8 DEF Server!Step

LEMMA LineWrittenKeepsTypes ==
  ASSUME inbuf \in Seq(Texts), inbuf # <<>>, Client!LineWritten
  PROVE  inbuf' \in Seq(Texts) /\ at' \in {"poll", "write"} /\ (at' = "write" => inbuf' # <<>>)
<1>1. inbuf' = Tail(inbuf) /\ at' = IF inbuf' = <<>> THEN "poll" ELSE "write"
  BY DEF Client!LineWritten
<1>2. Tail(inbuf) \in Seq(Texts)
  BY HeadTailProperties
<1> QED
  BY <1>1, <1>2

LEMMA ClientKeepsTypes ==
  ASSUME SocketTypes, ServerTypes, ClientTypes,
         Client!Step \/ Client!Type \/ Client!Kill, UNCHANGED serverVars
  PROVE  SocketTypes' /\ ServerTypes' /\ ClientTypes'
<1>1. ServerTypes'
  BY DEF ServerTypes, serverVars
<1>2. CASE Client!Connect
  <2>1. inbuf' \in Seq(Texts)
    <3>1. <<>> \in Seq(Texts) /\ <<"order">> \in Seq(Texts)
      BY EmptySeq DEF Texts
    <3> QED
      BY <1>2, <3>1 DEF Client!Connect
  <2> QED
    BY <1>1, <1>2, <2>1 DEF Client!Connect, SocketTypes, ClientTypes
<1>3. CASE Client!ConnectFails \/ Client!Type \/ Client!HalfClose
  BY <1>1, <1>3 DEF Client!ConnectFails, Client!Type, Client!HalfClose, Client!input,
                    SocketTypes, ClientTypes
<1>4. CASE Client!LoginTooLong \/ Client!ServerClosed \/ Client!WriteFails \/ Client!Kill
  BY <1>1, <1>4 DEF Client!LoginTooLong, Client!ServerClosed, Client!WriteFails, Client!Kill,
                    Client!CloseSocket, Client!input, SocketTypes, ClientTypes
<1>5. CASE Client!Poll
  BY <1>1, <1>5 DEF Client!Poll, SocketTypes, ClientTypes
<1>6. CASE Client!ReadServer
  BY <1>1, <1>6 DEF Client!ReadServer, Client!CloseSocket, Client!input, SocketTypes, ClientTypes
<1>7. CASE Client!ReadStdin
  <2>1. PICK n \in DOMAIN script : /\ inbuf' = SubSeq(script, 1, n)
                                   /\ script' = SubSeq(script, n + 1, Len(script))
    BY <1>7 DEF Client!ReadStdin
  <2>2. n \in 0 .. Len(script) /\ n # 0
    BY LenProperties DEF ClientTypes
  <2>3. inbuf' \in Seq(Texts) /\ Len(inbuf') = n /\ script' \in Seq(Texts)
    BY <2>1, <2>2, PrefixProperties, SuffixProperties DEF ClientTypes
  <2>4. inbuf' # <<>>
    BY <2>2, <2>3, EmptySeq
  <2> QED
    BY <1>1, <1>7, <2>3, <2>4 DEF Client!ReadStdin, SocketTypes, ClientTypes
<1>8. CASE Client!Write
  <2>1. Client!LineWritten /\ inbuf \in Seq(Texts) /\ inbuf # <<>>
    BY <1>8 DEF Client!Write, ClientTypes
  <2>2. inbuf' \in Seq(Texts) /\ at' \in {"poll", "write"} /\ (at' = "write" => inbuf' # <<>>)
    BY <2>1, LineWrittenKeepsTypes
  <2>3. up' = Append(up, Head(inbuf)) /\ Len(up) < UpSpace /\ Head(inbuf) \in Texts
    BY <1>8, <2>1, HeadTailProperties DEF Client!Write
  <2>4. up' \in Seq(Texts) /\ Len(up') = Len(up) + 1 /\ Len(up) \in Nat
    BY <2>3, AppendProperties, LenProperties DEF SocketTypes
  <2>5. Len(up') <= UpSpace
    BY <2>3, <2>4, SocketAssumption
  <2> QED
    BY <1>1, <1>8, <2>2, <2>4, <2>5 DEF Client!Write, SocketTypes, ClientTypes
<1>9. CASE Client!WriteLate
  <2>1. Client!LineWritten /\ inbuf \in Seq(Texts) /\ inbuf # <<>>
    BY <1>9 DEF Client!WriteLate, ClientTypes
  <2>2. inbuf' \in Seq(Texts) /\ at' \in {"poll", "write"} /\ (at' = "write" => inbuf' # <<>>)
    BY <2>1, LineWrittenKeepsTypes
  <2> QED
    BY <1>1, <1>9, <2>2 DEF Client!WriteLate, Client!Reset, SocketTypes, ClientTypes
<1> QED
  BY <1>2, <1>3, <1>4, <1>5, <1>6, <1>7, <1>8, <1>9 DEF Client!Step

LEMMA NextKeepsTypeInv == TypeInv /\ [Next]_vars => TypeInv'
<1> SUFFICES ASSUME TypeInv, [Next]_vars PROVE TypeInv'
  OBVIOUS
<1>1. ConvInv' /\ ConvTypes
  BY NextKeepsConvInv DEF TypeInv, ConvInv
<1>2. CASE UNCHANGED vars
  BY <1>1, <1>2 DEF vars, serverVars, clientVars, TypeInv, SocketTypes, ServerTypes, ClientTypes
<1>3. CASE (Server!Step \/ Server!Notify) /\ UNCHANGED clientVars
  BY <1>1, <1>3, ServerKeepsTypes DEF TypeInv
<1>4. CASE (Client!Step \/ Client!Type \/ Client!Kill) /\ UNCHANGED serverVars
  BY <1>1, <1>4, ClientKeepsTypes DEF TypeInv
<1> QED
  BY <1>2, <1>3, <1>4 DEF Next, ServerStep, ClientStep

LEMMA InitTypeInv == Init => TypeInv
<1> SUFFICES ASSUME Init PROVE TypeInv
  OBVIOUS
<1>1. ConvInv
  BY InitConvInv
<1>2. Len(<<>>) = 0 /\ <<>> \in Seq(Texts)
  BY EmptySeq
<1>3. SocketTypes
  <2>1. up = <<>> /\ UpSpace \in Nat
    BY SocketAssumption DEF Init, Server!Init
  <2>2. up \in Seq(Texts) /\ Len(up) <= UpSpace
    BY <1>2, <2>1
  <2> QED
    BY <2>2 DEF Init, Server!Init, SocketTypes
<1>4. ServerTypes
  <2>1. outbuf = <<>> /\ OUTBUF_SIZE \in Nat
    BY OutputAssumption DEF Init, Server!Init
  <2>2. Len(outbuf) <= OUTBUF_SIZE
    BY <1>2, <2>1
  <2> QED
    BY <2>2 DEF Init, Server!Init, ServerTypes
<1>5. ClientTypes
  BY <1>2, ScriptAssumption DEF Init, Client!Init, ClientTypes, Texts
<1> QED
  BY <1>1, <1>3, <1>4, <1>5 DEF TypeInv

(* Neither program, and neither direction of the socket, ever holds more    *)
(* than its buffer, whoever writes and whoever reads (io.c:65;             *)
(* trader_client.c:50).                                                     *)
THEOREM ConversationTypeOK == Spec => []TypeOK
<1>1. TypeInv => TypeOK
  BY DEF TypeInv, ConvInv, ConvTypes, SocketTypes, ServerTypes, ClientTypes, TypeOK, Output, Texts
<1> QED
  BY <1>1, InitTypeInv, NextKeepsTypeInv, PTL DEF Spec

-----------------------------------------------------------------------------
(* Lines on their way *)

(* LinesWhole of a run of bytes: whether a line may be cut, and whether the *)
(* answer that is cut may be the last.                                     *)
Cut(bytes, i, cut, over) ==
  /\ cut
  /\ \/ bytes[i] = "notice"
     \/ bytes[i] = "answer" /\ over /\ \A j \in i + 1 .. Len(bytes) : bytes[j] # "answer"
Whole(bytes, cut, over) ==
  /\ \A i \in 1 .. Len(bytes) - 1 :
       (bytes[i] # "newline" <=> bytes[i + 1] = "newline") \/ Cut(bytes, i, cut, over)
  /\ bytes # <<>> => bytes[1] # "newline"
Finished(bytes, cut, over) ==
  bytes # <<>> => bytes[Len(bytes)] = "newline" \/ Cut(bytes, Len(bytes), cut, over)

LEMMA NoBytesAreWhole ==
  ASSUME NEW cut, NEW over
  PROVE  Whole(<<>>, cut, over) /\ Finished(<<>>, cut, over)
  BY EmptySeq DEF Whole, Finished

(* No line can be cut behind the last byte.                                *)
LEMMA CutAtEnd ==
  ASSUME NEW s \in Seq(Output), NEW cut, NEW over
  PROVE  Cut(s, Len(s), cut, over)
           <=> cut /\ (s[Len(s)] = "notice" \/ (s[Len(s)] = "answer" /\ over))
<1>1. \A j \in Len(s) + 1 .. Len(s) : FALSE
  BY LenProperties
<1> QED
  BY <1>1 DEF Cut

LEMMA WholePrefix ==
  ASSUME NEW s \in Seq(Output), NEW n \in 0 .. Len(s), NEW cut, NEW over, Whole(s, cut, over)
  PROVE  Whole(SubSeq(s, 1, n), cut, over)
<1>1. PICK t : t = SubSeq(s, 1, n)
  OBVIOUS
<1>2. Len(s) \in Nat /\ t \in Seq(Output) /\ Len(t) = n /\ \A i \in 1 .. n : t[i] = s[i]
  BY <1>1, PrefixProperties, LenProperties
<1>3. \A i \in 1 .. n - 1 : i \in 1 .. n /\ i + 1 \in 1 .. n /\ i \in 1 .. Len(s) - 1
  BY <1>2
<1>4. \A i \in 1 .. n - 1 : (t[i] # "newline" <=> t[i + 1] = "newline") \/ Cut(t, i, cut, over)
  <2> TAKE i \in 1 .. n - 1
  <2>1. (s[i] # "newline" <=> s[i + 1] = "newline") \/ Cut(s, i, cut, over)
    BY <1>3 DEF Whole
  <2>2. \A j \in i + 1 .. Len(t) : j \in i + 1 .. Len(s) /\ t[j] = s[j]
    BY <1>2, <1>3
  <2>3. t[i] = s[i] /\ t[i + 1] = s[i + 1]
    BY <1>2, <1>3
  <2> QED
    BY <2>1, <2>2, <2>3 DEF Cut
<1>5. t # <<>> => t[1] # "newline"
  <2> SUFFICES ASSUME t # <<>> PROVE t[1] # "newline"
    OBVIOUS
  <2>1. n # 0
    BY <1>2, EmptySeq
  <2>2. s # <<>> /\ 1 \in 1 .. n
    BY <1>2, <2>1, EmptySeq
  <2> QED
    BY <1>2, <2>2 DEF Whole
<1> QED
  BY <1>1, <1>2, <1>4, <1>5 DEF Whole

(* What follows a newline begins with a line.                              *)
LEMMA WholeSuffix ==
  ASSUME NEW s \in Seq(Output), NEW n \in 0 .. Len(s), NEW cut, NEW over, Whole(s, cut, over),
         n # 0 => s[n] = "newline"
  PROVE  LET rest == SubSeq(s, n + 1, Len(s))
         IN  Whole(rest, cut, over) /\ (Finished(s, cut, over) => Finished(rest, cut, over))
<1>1. PICK t : t = SubSeq(s, n + 1, Len(s))
  OBVIOUS
<1>2. /\ Len(s) \in Nat /\ n \in Nat /\ n <= Len(s) /\ t \in Seq(Output) /\ Len(t) = Len(s) - n
      /\ \A i \in 1 .. Len(s) - n : t[i] = s[n + i]
  BY <1>1, SuffixProperties, LenProperties
<1>3. \A i \in 1 .. Len(t) - 1 :
        (t[i] # "newline" <=> t[i + 1] = "newline") \/ Cut(t, i, cut, over)
  <2> TAKE i \in 1 .. Len(t) - 1
  <2>1. /\ i \in 1 .. Len(s) - n /\ i + 1 \in 1 .. Len(s) - n /\ n + i \in 1 .. Len(s) - 1
        /\ n + (i + 1) = (n + i) + 1
    BY <1>2
  <2>2. t[i] = s[n + i] /\ t[i + 1] = s[(n + i) + 1]
    BY <1>2, <2>1
  <2>3. (s[n + i] # "newline" <=> s[(n + i) + 1] = "newline") \/ Cut(s, n + i, cut, over)
    BY <2>1 DEF Whole
  <2>4. \A j \in i + 1 .. Len(t) : n + j \in (n + i) + 1 .. Len(s) /\ t[j] = s[n + j]
    BY <1>2
  <2> QED
    BY <2>2, <2>3, <2>4 DEF Cut
<1>4. ASSUME t # <<>>
      PROVE  /\ t[1] # "newline"
             /\ s # <<>> /\ t[Len(t)] = s[Len(s)]
  <2>1. n + 1 \in 1 .. Len(s) /\ 1 \in 1 .. Len(s) - n /\ t[1] = s[n + 1] /\ s # <<>>
    BY <1>2, <1>4, EmptySeq
  <2>2. ASSUME n = 0 PROVE t[1] # "newline"
    BY <2>1, <2>2 DEF Whole
  <2>3. ASSUME n # 0 PROVE t[1] # "newline"
    <3>1. s[n] = "newline" /\ n \in 1 .. Len(s) - 1
      BY <1>2, <2>1, <2>3
    <3>2. s[n] # "newline" <=> s[n + 1] = "newline"
      BY <3>1 DEF Whole, Cut
    <3> QED
      BY <2>1, <3>1, <3>2
  <2>4. Len(s) - n \in 1 .. Len(s) - n /\ n + (Len(s) - n) = Len(s)
    BY <1>2, <2>1
  <2>5. t[Len(t)] = s[Len(s)]
    BY <1>2, <2>4
  <2> QED
    BY <2>1, <2>2, <2>3, <2>5
<1>5. Finished(s, cut, over) => Finished(t, cut, over)
  BY <1>2, <1>4, CutAtEnd DEF Finished
<1> QED
  BY <1>1, <1>3, <1>4, <1>5 DEF Whole

(* A run that ends with a line can be followed by another, but by no answer *)
(* after the last.                                                         *)
LEMMA WholeConcatenation ==
  ASSUME NEW s \in Seq(Output), NEW t \in Seq(Output), NEW cut, NEW over,
         Whole(s, cut, over), Finished(s, cut, over), Whole(t, cut, over),
         ~over \/ \A i \in 1 .. Len(t) : t[i] # "answer"
  PROVE  Whole(s \o t, cut, over)
<1>1. PICK st : st = s \o t
  OBVIOUS
<1>2. /\ Len(s) \in Nat /\ Len(t) \in Nat /\ st \in Seq(Output) /\ Len(st) = Len(s) + Len(t)
      /\ \A i \in 1 .. Len(s) + Len(t) : st[i] = IF i <= Len(s) THEN s[i] ELSE t[i - Len(s)]
  BY <1>1, ConcatProperties, LenProperties
<1>3. \A i \in 1 .. Len(s) : Cut(s, i, cut, over) => Cut(st, i, cut, over)
  <2> SUFFICES ASSUME NEW i \in 1 .. Len(s), Cut(s, i, cut, over), over, s[i] = "answer",
                      NEW j \in i + 1 .. Len(st)
               PROVE  st[j] # "answer"
    BY <1>2 DEF Cut
  <2>1. \A k \in i + 1 .. Len(s) : s[k] # "answer"
    BY DEF Cut
  <2>2. CASE j <= Len(s)
    BY <1>2, <2>1, <2>2
  <2>3. CASE ~(j <= Len(s))
    <3>1. j - Len(s) \in 1 .. Len(t) /\ st[j] = t[j - Len(s)]
      BY <1>2, <2>3
    <3> QED
      BY <3>1
  <2> QED
    BY <2>2, <2>3
<1>4. \A i \in 1 .. Len(t) : Cut(t, i, cut, over) => Cut(st, Len(s) + i, cut, over)
  <2> SUFFICES ASSUME NEW i \in 1 .. Len(t), Cut(t, i, cut, over)
               PROVE  Cut(st, Len(s) + i, cut, over)
    OBVIOUS
  <2>1. Len(s) + i \in 1 .. Len(s) + Len(t) /\ ~(Len(s) + i <= Len(s)) /\ Len(s) + i - Len(s) = i
    BY <1>2
  <2>2. st[Len(s) + i] = t[i]
    BY <1>2, <2>1
  <2>3. ASSUME over, t[i] = "answer" PROVE FALSE
    BY <2>3
  <2> QED
    BY <2>2, <2>3 DEF Cut
<1>5. \A i \in 1 .. Len(st) - 1 :
        (st[i] # "newline" <=> st[i + 1] = "newline") \/ Cut(st, i, cut, over)
  <2> TAKE i \in 1 .. Len(st) - 1
  <2>1. i \in 1 .. Len(s) + Len(t) /\ i + 1 \in 1 .. Len(s) + Len(t)
    BY <1>2
  <2>2. CASE i < Len(s)
    <3>1. st[i] = s[i] /\ st[i + 1] = s[i + 1] /\ i \in 1 .. Len(s) - 1 /\ i \in 1 .. Len(s)
      BY <1>2, <2>1, <2>2
    <3> QED
      BY <1>3, <3>1 DEF Whole
  <2>3. CASE i = Len(s)
    <3>1. st[i] = s[Len(s)] /\ st[i + 1] = t[1] /\ s # <<>> /\ t # <<>> /\ i \in 1 .. Len(s)
      BY <1>2, <2>1, <2>3, EmptySeq
    <3>2. t[1] # "newline" /\ (s[Len(s)] = "newline" \/ Cut(s, Len(s), cut, over))
      BY <3>1 DEF Whole, Finished
    <3> QED
      BY <1>3, <2>3, <3>1, <3>2
  <2>4. CASE i > Len(s)
    <3>1. /\ i - Len(s) \in 1 .. Len(t) - 1 /\ i - Len(s) \in 1 .. Len(t)
          /\ (i + 1) - Len(s) = (i - Len(s)) + 1 /\ Len(s) + (i - Len(s)) = i
      BY <1>2, <2>1, <2>4
    <3>2. st[i] = t[i - Len(s)] /\ st[i + 1] = t[(i - Len(s)) + 1]
      BY <1>2, <2>1, <2>4, <3>1
    <3>3. \/ t[i - Len(s)] # "newline" <=> t[(i - Len(s)) + 1] = "newline"
          \/ Cut(t, i - Len(s), cut, over)
      BY <3>1 DEF Whole
    <3> QED
      BY <1>4, <3>1, <3>2, <3>3
  <2> QED
    BY <1>2, <2>2, <2>3, <2>4
<1>6. st # <<>> => st[1] # "newline"
  <2>1. CASE s = <<>>
    BY <1>1, <2>1, ConcatEmptySeq DEF Whole
  <2>2. CASE s # <<>>
    <3>1. Len(s) # 0
      BY <2>2, EmptySeq
    <3>2. st[1] = s[1]
      BY <1>2, <3>1
    <3> QED
      BY <2>2, <3>2 DEF Whole
  <2> QED
    BY <2>1, <2>2
<1> QED
  BY <1>1, <1>5, <1>6 DEF Whole

LEMMA FinishedConcatenation ==
  ASSUME NEW s \in Seq(Output), NEW t \in Seq(Output), NEW cut, NEW over,
         Finished(s, cut, over), Finished(t, cut, over)
  PROVE  Finished(s \o t, cut, over)
<1>1. PICK st : st = s \o t
  OBVIOUS
<1>2. /\ Len(s) \in Nat /\ Len(t) \in Nat /\ st \in Seq(Output) /\ Len(st) = Len(s) + Len(t)
      /\ \A i \in 1 .. Len(s) + Len(t) : st[i] = IF i <= Len(s) THEN s[i] ELSE t[i - Len(s)]
  BY <1>1, ConcatProperties, LenProperties
<1>3. CASE t = <<>>
  BY <1>1, <1>3, ConcatEmptySeq
<1>4. CASE t # <<>>
  <2>1. Len(t) # 0
    BY <1>4, EmptySeq
  <2>2. /\ Len(st) \in 1 .. Len(s) + Len(t) /\ ~(Len(st) <= Len(s))
        /\ Len(st) - Len(s) = Len(t)
    BY <1>2, <2>1
  <2>3. st[Len(st)] = t[Len(t)]
    BY <1>2, <2>2
  <2> QED
    <3>1. t[Len(t)] = "newline" \/ (cut /\ (t[Len(t)] = "notice" \/ (t[Len(t)] = "answer" /\ over)))
      BY <1>4, CutAtEnd DEF Finished
    <3>2. st[Len(st)] = "newline" \/ Cut(st, Len(st), cut, over)
      BY <1>2, <2>3, <3>1, CutAtEnd
    <3> QED
      BY <1>1, <3>2 DEF Finished
<1> QED
  BY <1>3, <1>4

LEMMA LineIsWhole ==
  ASSUME NEW line \in {Server!Answer, Server!Notice}, NEW cut, NEW over
  PROVE  Whole(line, cut, over) /\ Finished(line, cut, over)
<1>1. PICK first \in {"answer", "notice"} : line = <<first, "newline">>
  BY DEF Server!Answer, Server!Notice
<1>2. Len(line) = 2 /\ line[1] = first /\ line[2] = "newline"
  BY <1>1
<1>3. Len(line) - 1 = 1
  BY <1>2
<1> QED
  BY <1>2, <1>3 DEF Whole, Finished

LEMMA NoticeIsNoAnswer == \A i \in 1 .. Len(Server!Notice) : Server!Notice[i] # "answer"
<1>1. Len(Server!Notice) = 2 /\ Server!Notice[1] = "notice" /\ Server!Notice[2] = "newline"
  BY DEF Server!Notice
<1>2. \A i \in 1 .. 2 : i = 1 \/ i = 2
  OBVIOUS
<1> QED
  BY <1>1, <1>2

LEMMA Grouping == \A s, t, u \in Seq(Output) : (s \o t) \o u = s \o (t \o u)
  BY ConcatAssociative

LEMMA AppendedGroups ==
  ASSUME NEW r \in Seq(Output), NEW d \in Seq(Output), NEW x \in Seq(Output),
         NEW rd, rd = r \o d
  PROVE  r \o (d \o x) = rd \o x
<1>1. r \o (d \o x) = (r \o d) \o x
  BY Grouping
<1>2. rd = r \o d
  OBVIOUS
<1> QED
  BY ONLY <1>1, <1>2, Zenon

LEMMA Regroup ==
  \A r, d, o, x, y \in Seq(Output) :
    o = <<>> \/ x = <<>> => (r \o (d \o x)) \o (o \o y) = ((r \o d) \o o) \o (x \o y)
<1> SUFFICES ASSUME NEW r \in Seq(Output), NEW d \in Seq(Output), NEW o \in Seq(Output),
                    NEW x \in Seq(Output), NEW y \in Seq(Output), o = <<>> \/ x = <<>>
             PROVE  (r \o (d \o x)) \o (o \o y) = ((r \o d) \o o) \o (x \o y)
  OBVIOUS
<1>1. PICK rd \in Seq(Output) : rd = r \o d
  BY ConcatProperties
<1>2. r \o (d \o x) = rd \o x
  BY <1>1, AppendedGroups
<1>3. CASE o = <<>>
  <2>1. o \o y = y /\ rd \o o = rd
    BY <1>3, ConcatEmptySeq
  <2>2. (rd \o x) \o y = rd \o (x \o y)
    BY Grouping
  <2> QED
    BY <1>1, <1>2, <2>1, <2>2
<1>4. CASE x = <<>>
  <2>1. x \o y = y /\ rd \o x = rd
    BY <1>4, ConcatEmptySeq
  <2>2. (rd \o o) \o y = rd \o (o \o y)
    BY Grouping
  <2> QED
    BY <1>1, <1>2, <2>1, <2>2
<1> QED
  BY <1>3, <1>4

(* What is written and what is left of it are the whole.                   *)
LEMMA WrittenIsPrefix ==
  ASSUME ConvTypes, NEW data \in Seq(Output),
         NEW written, written = Server!Written(data),
         NEW rest, rest = Server!Without(data, written)
  PROVE  /\ \E n \in 0 .. Len(data) : written = SubSeq(data, 1, n)
         /\ written \o rest = data
<1> DEFINE n == Min({Server!Space, Len(data)})
<1>1. /\ Len(down) \in Nat /\ Len(data) \in Nat /\ Len(down) <= DownSpace
      /\ DownSpace \in Nat /\ Server!Space = DownSpace - Len(down)
  BY LenProperties, SocketAssumption DEF ConvTypes, Server!Space
<1>2. n \in 0 .. Len(data)
  BY <1>1, LesserOfTwo
<1>3. written = SubSeq(data, 1, n)
  BY DEF Server!Written, Server!Min, Min
<1> HIDE DEF n
<1>4. Len(written) = n
  BY <1>2, <1>3, PrefixProperties
<1>5. rest = SubSeq(data, n + 1, Len(data))
  BY <1>4 DEF Server!Without
<1>6. SubSeq(data, 1, n) \o SubSeq(data, n + 1, Len(data)) = SubSeq(data, 1, Len(data))
  <2>1. 1 \in 1 .. Len(data) + 1 /\ n \in 1 - 1 .. Len(data) /\ Len(data) \in n .. Len(data)
    BY <1>1, <1>2
  <2> QED
    BY <2>1, ConcatAdjacentSubSeq
<1> QED
  BY <1>2, <1>3, <1>5, <1>6, SubSeqFull

(* The invariant: LinesWhole, in these words.                               *)
LinesInv ==
  at # "failed" =>
    /\ Whole(UnderWay, lost, done)
    /\ pc \notin {"leaving", "closed"} => Finished(UnderWay, lost, done)

LEMMA Buffers ==
  ConvInv => recvbuf \in Seq(Output) /\ down \in Seq(Output) /\ outbuf \in Seq(Output)
  BY DEF ConvInv, ConvTypes

LEMMA UnderWayType == ConvTypes => recvbuf \o down \in Seq(Output) /\ UnderWay \in Seq(Output)
  BY ConcatProperties DEF ConvTypes, UnderWay

LEMMA LateCuts ==
  ASSUME NEW s, NEW cut, NEW over, NEW cutLater, NEW overLater,
         cut => cutLater, over => overLater
  PROVE  /\ Whole(s, cut, over) => Whole(s, cutLater, overLater)
         /\ Finished(s, cut, over) => Finished(s, cutLater, overLater)
  BY DEF Whole, Finished, Cut

(* A step that moves bytes on, or nothing.                                 *)
LEMMA SameBytesKeepLines ==
  ASSUME LinesInv, UnderWay' = UnderWay, UNCHANGED <<lost, done>>,
         at' # "failed" => at # "failed",
         pc \in {"leaving", "closed"} => pc' \in {"leaving", "closed"}
  PROVE  LinesInv'
  BY DEF LinesInv

LEMMA SendLineKeepsLines ==
  ASSUME ConvInv, LinesInv, NEW line \in {Server!Answer, Server!Notice}, Server!SendLine(line),
         UNCHANGED <<at, recvbuf>>, pc \in {"waiting", "reading", "answered"},
         line = Server!Notice \/ ~done, done => done'
  PROVE  LinesInv'
<1> DEFINE direct == Server!Direct(line)
           rest == Server!Rest(line)
<1> SUFFICES ASSUME at # "failed"
             PROVE  Whole(UnderWay', lost', done') /\ Finished(UnderWay', lost', done')
  BY DEF LinesInv
<1>1. ConvTypes /\ ~gone
  BY DEF ConvInv, Places, Over
<1>2. down' = down \o direct /\ outbuf' = outbuf \o rest /\ lost' = lost
  BY <1>1 DEF Server!SendLine
<1>3. line \in Seq(Output)
  BY OneLineEndsOnce
<1>4. /\ direct \in Seq(Output) /\ rest \in Seq(Output) /\ direct \o rest = line
      /\ outbuf = <<>> \/ direct = <<>>
  <2>1. CASE outbuf = <<>>
    <3>1. direct = Server!Written(line) /\ rest = Server!Without(line, direct)
      BY <2>1 DEF Server!Direct, Server!Rest
    <3> HIDE DEF direct, rest
    <3> QED
      BY <1>1, <1>3, <2>1, <3>1, WrittenProperties, WrittenIsPrefix
  <2>2. CASE outbuf # <<>>
    <3>1. direct = <<>>
      BY <2>2 DEF Server!Direct
    <3>2. rest = SubSeq(line, 1, Len(line))
      BY <3>1, EmptySeq DEF Server!Rest, Server!Without
    <3> HIDE DEF direct, rest
    <3>3. rest = line
      BY <1>3, <3>2, SubSeqFull
    <3> QED
      BY <1>3, <3>1, <3>3, EmptySeq, ConcatEmptySeq
  <2> QED
    BY <2>1, <2>2
<1> HIDE DEF direct, rest
<1>5. UnderWay' = (recvbuf \o (down \o direct)) \o (outbuf \o rest)
  BY <1>2 DEF UnderWay
<1>6. UnderWay' = UnderWay \o line
  <2>1. recvbuf \in Seq(Output) /\ down \in Seq(Output) /\ outbuf \in Seq(Output)
    BY <1>1 DEF ConvTypes
  <2>2. \A o, x, y \in Seq(Output) :
          o = <<>> \/ x = <<>> =>
            (recvbuf \o (down \o x)) \o (o \o y) = ((recvbuf \o down) \o o) \o (x \o y)
    BY <2>1, Regroup
  <2>3. (recvbuf \o (down \o direct)) \o (outbuf \o rest)
          = ((recvbuf \o down) \o outbuf) \o (direct \o rest)
    BY <1>4, <2>1, <2>2
  <2> QED
    BY <1>4, <1>5, <2>3, Zenon DEF UnderWay
<1>7. Whole(UnderWay, lost, done) /\ Finished(UnderWay, lost, done)
  BY DEF LinesInv
<1>8. UnderWay \in Seq(Output)
  BY <1>1, UnderWayType
<1>9. Whole(line, lost, done) /\ Finished(line, lost, done)
  BY LineIsWhole
<1>10. ~done \/ \A i \in 1 .. Len(line) : line[i] # "answer"
  BY NoticeIsNoAnswer
<1>11. Whole(UnderWay \o line, lost, done) /\ Finished(UnderWay \o line, lost, done)
  BY <1>3, <1>7, <1>8, <1>9, <1>10, WholeConcatenation, FinishedConcatenation
<1> HIDE DEF UnderWay
<1> QED
  BY <1>2, <1>6, <1>11, LateCuts

(* Of a line that is given up a part may be on its way: a notification that *)
(* is known to be cut, or the last answer.                                 *)
LEMMA SendLineFailsKeepsLines ==
  ASSUME ConvInv, LinesInv, NEW line \in {Server!Answer, Server!Notice}, Server!SendLineFails(line),
         UNCHANGED <<at, recvbuf>>, pc \in {"waiting", "reading", "answered"},
         line = Server!Notice \/ (~done /\ done'), done => done'
  PROVE  LinesInv'
<1> DEFINE direct == Server!Direct(line)
<1> SUFFICES ASSUME at # "failed"
             PROVE  Whole(UnderWay', TRUE, done) /\ Finished(UnderWay', TRUE, done')
  BY LateCuts DEF LinesInv, Server!SendLineFails
<1>1. ConvTypes
  BY DEF ConvInv
<1>2. Whole(UnderWay, TRUE, done) /\ Finished(UnderWay, TRUE, done) /\ Finished(UnderWay, TRUE, done')
  BY LateCuts DEF LinesInv
<1>3. CASE down' = down
  <2>1. UnderWay' = UnderWay
    BY <1>3 DEF UnderWay, Server!SendLineFails
  <2> QED
    BY <1>2, <2>1
<1>4. CASE down' = down \o direct
  <2>1. /\ direct \in Seq(Output)
        /\ Whole(direct, TRUE, done) /\ Finished(direct, TRUE, done')
        /\ ~done \/ \A i \in 1 .. Len(direct) : direct[i] # "answer"
        /\ outbuf = <<>> \/ direct = <<>>
    <3>1. CASE outbuf = <<>>
      <4>1. line \in Seq(Output) /\ direct = Server!Written(line)
        BY <3>1, OneLineEndsOnce DEF Server!Direct
      <4> HIDE DEF direct
      <4>2. PICK n \in 0 .. Len(line) : direct = SubSeq(line, 1, n)
        BY <1>1, <4>1, WrittenIsPrefix
      <4>3. Whole(direct, TRUE, done)
        <5>1. Whole(line, TRUE, done)
          BY LineIsWhole
        <5>2. Whole(SubSeq(line, 1, n), TRUE, done)
          BY <4>1, <5>1, WholePrefix
        <5> QED
          BY <4>2, <5>2
      <4>4. direct \in Seq(Output) /\ Len(direct) = n /\ \A i \in 1 .. n : direct[i] = line[i]
        BY <4>1, <4>2, PrefixProperties
      <4>5. Len(line) = 2 /\ line[1] \in {"answer", "notice"} /\ line[2] = "newline"
            /\ (line[1] = "notice" \/ (~done /\ done'))
        <5>1. CASE line = Server!Notice
          BY <5>1 DEF Server!Notice
        <5>2. CASE line = Server!Answer /\ ~done /\ done'
          BY <5>2 DEF Server!Answer
        <5> QED
          BY <5>1, <5>2
      <4>6. Finished(direct, TRUE, done')
        <5> SUFFICES ASSUME direct # <<>>
                     PROVE  \/ direct[Len(direct)] \in {"notice", "newline"}
                            \/ direct[Len(direct)] = "answer" /\ done'
          BY <4>4, CutAtEnd DEF Finished
        <5>1. n \in {1, 2} /\ n \in 1 .. n
          BY <4>4, <4>5, EmptySeq
        <5>2. direct[Len(direct)] = line[n]
          BY <4>4, <5>1
        <5> QED
          BY <4>5, <5>1, <5>2
      <4>7. ~done \/ \A i \in 1 .. Len(direct) : direct[i] # "answer"
        <5> SUFFICES ASSUME done, NEW i \in 1 .. Len(direct) PROVE direct[i] # "answer"
          OBVIOUS
        <5>1. i \in 1 .. n /\ (i = 1 \/ i = 2) /\ direct[i] = line[i]
          BY <4>4, <4>5
        <5> QED
          BY <4>5, <5>1
      <4> QED
        BY <3>1, <4>3, <4>4, <4>6, <4>7
    <3>2. CASE outbuf # <<>>
      <4>1. direct = <<>>
        BY <3>2 DEF Server!Direct
      <4> HIDE DEF direct
      <4>2. <<>> \in Seq(Output) /\ \A i \in 1 .. Len(<<>>) : FALSE
        BY EmptySeq
      <4>3. Whole(<<>>, TRUE, done) /\ Finished(<<>>, TRUE, done')
        BY NoBytesAreWhole
      <4> QED
        BY <4>1, <4>2, <4>3
    <3> QED
      BY <3>1, <3>2
  <2> HIDE DEF direct
  <2>2. <<>> \in Seq(Output)
    BY EmptySeq
  <2>3. UnderWay' = (recvbuf \o (down \o direct)) \o (outbuf \o <<>>)
    <3>1. outbuf \o <<>> = outbuf
      BY <1>1, ConcatEmptySeq DEF ConvTypes
    <3> QED
      BY <1>4, <3>1 DEF UnderWay, Server!SendLineFails
  <2>4. UnderWay' = UnderWay \o (direct \o <<>>)
    <3>1. recvbuf \in Seq(Output) /\ down \in Seq(Output) /\ outbuf \in Seq(Output)
      BY <1>1 DEF ConvTypes
    <3>2. \A o, x, y \in Seq(Output) :
            o = <<>> \/ x = <<>> =>
              (recvbuf \o (down \o x)) \o (o \o y) = ((recvbuf \o down) \o o) \o (x \o y)
      BY <3>1, Regroup
    <3>3. (recvbuf \o (down \o direct)) \o (outbuf \o <<>>)
            = ((recvbuf \o down) \o outbuf) \o (direct \o <<>>)
      BY <2>1, <2>2, <3>1, <3>2
    <3> QED
      BY <2>3, <3>3, Zenon DEF UnderWay
  <2>5. UnderWay' = UnderWay \o direct
    BY <2>1, <2>4, ConcatEmptySeq
  <2>6. UnderWay \in Seq(Output)
    BY <1>1, UnderWayType
  <2> QED
    BY <1>2, <2>1, <2>5, <2>6, WholeConcatenation, FinishedConcatenation
<1> QED
  BY <1>3, <1>4 DEF Server!SendLineFails

LEMMA WritableKeepsLines ==
  ASSUME ConvInv, LinesInv, Server!Writable, UNCHANGED clientVars
  PROVE  LinesInv'
<1> DEFINE written == Server!Written(outbuf)
           rest == Server!Without(outbuf, written)
<1>1. /\ down' = down \o written /\ outbuf' = rest
      /\ pc = "waiting" /\ UNCHANGED <<recvbuf, at, lost, done>>
  BY DEF Server!Writable, Server!Flushed, clientVars, Server!history
<1>2. ConvTypes
  BY DEF ConvInv
<1>3. written \in Seq(Output) /\ rest \in Seq(Output) /\ written \o rest = outbuf
  BY <1>2, WrittenProperties, WrittenIsPrefix DEF ConvTypes
<1> HIDE DEF written, rest
<1>4. <<>> \in Seq(Output) /\ <<>> \o rest = rest /\ UnderWay \in Seq(Output)
      /\ (recvbuf \o down) \o <<>> = recvbuf \o down
  BY <1>2, <1>3, EmptySeq, ConcatEmptySeq, UnderWayType
<1>5. (recvbuf \o (down \o written)) \o (<<>> \o rest)
        = ((recvbuf \o down) \o <<>>) \o (written \o rest)
  <2>1. recvbuf \in Seq(Output) /\ down \in Seq(Output)
    BY <1>2 DEF ConvTypes
  <2>2. \A o, x, y \in Seq(Output) :
          o = <<>> \/ x = <<>> =>
            (recvbuf \o (down \o x)) \o (o \o y) = ((recvbuf \o down) \o o) \o (x \o y)
    BY <2>1, Regroup
  <2> QED
    BY <1>3, <1>4, <2>2
<1>6. UnderWay' = UnderWay
  BY <1>1, <1>3, <1>4, <1>5 DEF UnderWay
<1> QED
  BY <1>1, <1>6, SameBytesKeepLines

(* Where nothing is stored, dropping the end of what is in the socket      *)
(* leaves the lines before it whole.                                       *)
LEMMA DroppedEndKeepsLines ==
  ASSUME ConvTypes, LinesInv, NEW n \in 0 .. Len(down), down' = SubSeq(down, 1, n),
         outbuf' = <<>>, pc' \in {"leaving", "closed"},
         UNCHANGED <<recvbuf, lost, done>>, at' # "failed" => at # "failed"
  PROVE  LinesInv'
<1> SUFFICES ASSUME at # "failed" PROVE Whole(UnderWay', lost, done)
  BY DEF LinesInv
<1> DEFINE m == Len(recvbuf) + n
<1>1. /\ Len(recvbuf) \in Nat /\ Len(down) \in Nat /\ Len(outbuf) \in Nat
      /\ recvbuf \o down \in Seq(Output) /\ Len(recvbuf \o down) = Len(recvbuf) + Len(down)
      /\ UnderWay \in Seq(Output) /\ Len(UnderWay) = Len(recvbuf) + Len(down) + Len(outbuf)
      /\ \A i \in 1 .. Len(recvbuf) + Len(down) :
           (recvbuf \o down)[i] = IF i <= Len(recvbuf) THEN recvbuf[i] ELSE down[i - Len(recvbuf)]
      /\ \A i \in 1 .. Len(recvbuf) + Len(down) : UnderWay[i] = (recvbuf \o down)[i]
  BY ConcatProperties, LenProperties DEF ConvTypes, UnderWay
<1>2. down' \in Seq(Output) /\ Len(down') = n /\ \A i \in 1 .. n : down'[i] = down[i]
  BY PrefixProperties DEF ConvTypes
<1>3. recvbuf \o down' \in Seq(Output)
  BY <1>2, ConcatProperties DEF ConvTypes
<1>4. UnderWay' = recvbuf \o down'
  BY <1>3, ConcatEmptySeq DEF UnderWay
<1>5. m \in 0 .. Len(UnderWay)
  BY <1>1
<1>6. /\ SubSeq(UnderWay, 1, m) \in Seq(Output) /\ Len(SubSeq(UnderWay, 1, m)) = m
      /\ \A i \in 1 .. m : SubSeq(UnderWay, 1, m)[i] = UnderWay[i]
  BY <1>1, <1>5, PrefixProperties
<1>7. /\ Len(recvbuf \o down') = m
      /\ \A i \in 1 .. m : (recvbuf \o down')[i]
                            = IF i <= Len(recvbuf) THEN recvbuf[i] ELSE down'[i - Len(recvbuf)]
  BY <1>2, ConcatProperties DEF ConvTypes
<1>8. \A i \in 1 .. m : (recvbuf \o down')[i] = SubSeq(UnderWay, 1, m)[i]
  <2> TAKE i \in 1 .. m
  <2>1. i \in 1 .. Len(recvbuf) + Len(down)
    BY <1>1
  <2>2. CASE i <= Len(recvbuf)
    BY <1>1, <1>6, <1>7, <2>1, <2>2
  <2>3. CASE ~(i <= Len(recvbuf))
    <3>1. i - Len(recvbuf) \in 1 .. n
      BY <1>1, <2>3
    <3> QED
      BY <1>1, <1>2, <1>6, <1>7, <2>1, <2>3, <3>1
  <2> QED
    BY <2>2, <2>3
<1> HIDE DEF m
<1>9. recvbuf \o down' = SubSeq(UnderWay, 1, m)
  BY <1>3, <1>6, <1>7, <1>8, SeqEqual
<1>10. Whole(SubSeq(UnderWay, 1, m), lost, done)
  BY <1>1, <1>5, WholePrefix DEF LinesInv
<1> QED
  BY <1>4, <1>9, <1>10

LEMMA ServerKeepsLines ==
  ASSUME ConvInv, LinesInv, Server!Step \/ Server!Notify, UNCHANGED clientVars
  PROVE  LinesInv'
<1>1. UNCHANGED <<at, recvbuf>>
  BY DEF clientVars
<1>2. CASE Server!Notify
  <2>1. /\ pc = "waiting" /\ done' = done
        /\ Server!SendLine(Server!Notice) \/ Server!SendLineFails(Server!Notice)
    BY <1>2 DEF Server!Notify
  <2> QED
    BY <1>1, <2>1, SendLineKeepsLines, SendLineFailsKeepsLines
<1>3. CASE Server!Process
  <2>1. /\ pc = "reading" /\ ~done
        /\ \/ Server!SendLine(Server!Answer)
           \/ Server!SendLineFails(Server!Answer) /\ done'
    BY <1>3 DEF Server!Process, ConvInv, Places
  <2> QED
    BY <1>1, <2>1, SendLineKeepsLines, SendLineFailsKeepsLines
<1>7. CASE Server!Execute
  <2>1. /\ pc = "answered" /\ (done => done')
        /\ Server!SendLine(Server!Notice) \/ Server!SendLineFails(Server!Notice)
    BY <1>7 DEF Server!Execute, Server!Remembered
  <2> QED
    BY <1>1, <2>1, SendLineKeepsLines, SendLineFailsKeepsLines
<1>4. CASE Server!Writable
  BY <1>4, WritableKeepsLines
<1>5. CASE Server!Remove
  <2>1. /\ pc' = "closed" /\ outbuf' = <<>> /\ UNCHANGED <<lost, done>>
        /\ down' = down \/ \E n \in 0 .. Len(down) : down' = SubSeq(down, 1, n)
    BY <1>5 DEF Server!Remove, Server!Reset, Server!history
  <2>2. Len(down) \in 0 .. Len(down) /\ SubSeq(down, 1, Len(down)) = down
    BY LenProperties, SubSeqFull DEF ConvInv, ConvTypes
  <2>3. PICK n \in 0 .. Len(down) : down' = SubSeq(down, 1, n)
    BY <2>1, <2>2
  <2> QED
    BY <1>1, <2>1, <2>3, DroppedEndKeepsLines DEF ConvInv
<1>6. CASE \/ Server!Register \/ Server!RegisterFails \/ Server!Readable
           \/ Server!EndCommand \/ Server!EndRead \/ Server!Disconnected
  <2>1. UNCHANGED <<down, outbuf, lost, done>> /\ pc \notin {"leaving", "closed"}
    BY <1>6 DEF Server!Register, Server!RegisterFails, Server!Readable, Server!EndCommand,
                Server!EndRead, Server!Disconnected, Server!socket, Server!history
  <2>2. UnderWay' = UnderWay
    BY <1>1, <2>1 DEF UnderWay
  <2> QED
    BY <1>1, <2>1, <2>2, SameBytesKeepLines
<1> QED
  BY <1>2, <1>3, <1>4, <1>5, <1>6, <1>7 DEF Server!Step

LEMMA CutOfConcatenation ==
  ASSUME NEW s \in Seq(Output), NEW t \in Seq(Output), NEW m \in 0 .. Len(s)
  PROVE  SubSeq(s, m + 1, Len(s)) \o t = SubSeq(s \o t, m + 1, Len(s \o t))
<1> DEFINE front == SubSeq(s, 1, m)
           back == SubSeq(s, m + 1, Len(s))
           left == SubSeq(s \o t, 1, m)
           right == SubSeq(s \o t, m + 1, Len(s \o t))
<1>1. /\ Len(s) \in Nat /\ Len(t) \in Nat
      /\ s \o t \in Seq(Output) /\ Len(s \o t) = Len(s) + Len(t)
      /\ \A i \in 1 .. Len(s) + Len(t) :
           (s \o t)[i] = IF i <= Len(s) THEN s[i] ELSE t[i - Len(s)]
  BY ConcatProperties, LenProperties
<1>2. /\ back \in Seq(Output) /\ Len(back) = Len(s) - m
      /\ \A i \in 1 .. Len(s) - m : back[i] = s[m + i]
  BY SuffixProperties
<1>3. m \in 0 .. Len(s \o t)
  BY <1>1
<1>4. /\ right \in Seq(Output) /\ Len(right) = Len(s) + Len(t) - m
      /\ \A i \in 1 .. Len(s) + Len(t) - m : right[i] = (s \o t)[m + i]
  <2>1. PICK st : st = s \o t
    OBVIOUS
  <2>2. /\ SubSeq(st, m + 1, Len(st)) \in Seq(Output)
        /\ Len(SubSeq(st, m + 1, Len(st))) = Len(st) - m
        /\ \A i \in 1 .. Len(st) - m : SubSeq(st, m + 1, Len(st))[i] = st[m + i]
    BY <1>1, <1>3, <2>1, SuffixProperties
  <2>3. right = SubSeq(st, m + 1, Len(st)) /\ Len(st) = Len(s) + Len(t)
    BY <1>1, <2>1
  <2> HIDE DEF right
  <2> QED
    BY ONLY <2>1, <2>2, <2>3
<1> HIDE DEF back, right
<1>5. /\ back \o t \in Seq(Output) /\ Len(back \o t) = Len(s) - m + Len(t)
      /\ \A i \in 1 .. Len(s) - m + Len(t) :
           (back \o t)[i] = IF i <= Len(s) - m THEN back[i] ELSE t[i - (Len(s) - m)]
  <2>1. /\ back \o t \in Seq(Output) /\ Len(back \o t) = Len(back) + Len(t)
        /\ \A i \in 1 .. Len(back) + Len(t) :
             (back \o t)[i] = IF i <= Len(back) THEN back[i] ELSE t[i - Len(back)]
    BY <1>2, ConcatProperties
  <2> QED
    BY <1>2, <2>1
<1>6. \A i \in 1 .. Len(right) : (back \o t)[i] = right[i]
  <2> TAKE i \in 1 .. Len(right)
  <2>1. i \in 1 .. Len(s) + Len(t) - m /\ i \in 1 .. Len(s) - m + Len(t)
        /\ m + i \in 1 .. Len(s) + Len(t)
    BY <1>1, <1>4
  <2>2. right[i] = IF m + i <= Len(s) THEN s[m + i] ELSE t[m + i - Len(s)]
    <3>1. right[i] = (s \o t)[m + i]
      BY <1>4, <2>1
    <3>2. (s \o t)[m + i] = IF m + i <= Len(s) THEN s[m + i] ELSE t[m + i - Len(s)]
      BY <1>1, <2>1
    <3> QED
      BY ONLY <3>1, <3>2
  <2>3. CASE i <= Len(s) - m
    <3>1. i \in 1 .. Len(s) - m /\ m + i <= Len(s)
      BY <1>1, <2>1, <2>3
    <3> QED
      BY <1>2, <1>5, <2>1, <2>2, <3>1
  <2>4. CASE ~(i <= Len(s) - m)
    <3>1. ~(m + i <= Len(s)) /\ m + i - Len(s) = i - (Len(s) - m)
      BY <1>1, <2>1, <2>4
    <3> QED
      BY <1>5, <2>1, <2>2, <2>4, <3>1
  <2> QED
    BY <2>3, <2>4
<1>7. Len(back \o t) = Len(right)
  BY <1>1, <1>4, <1>5
<1>8. back \o t = right
  BY <1>4, <1>5, <1>6, <1>7, SeqEqual
<1> QED
  BY <1>8 DEF back, right

(* The client program prints complete lines and keeps the beginning of the *)
(* next.                                                                   *)
LEMMA ReadServerKeepsLines ==
  ASSUME ConvInv, LinesInv, Client!ReadServer, UNCHANGED serverVars
  PROVE  LinesInv'
<1> DEFINE n == Min({RECVBUF_SIZE - Len(recvbuf), Len(down)})
<1> SUFFICES ASSUME at' # "failed"
             PROVE  /\ Whole(UnderWay', lost, done)
                    /\ pc \notin {"leaving", "closed"} => Finished(UnderWay', lost, done)
  BY DEF LinesInv, serverVars
<1>1. /\ recvbuf' = Client!Kept(recvbuf \o Client!Received)
      /\ down' = SubSeq(down, Len(Client!Received) + 1, Len(down))
      /\ outbuf' = outbuf /\ at # "failed"
  BY DEF Client!ReadServer, serverVars
<1>2. /\ Len(down) \in Nat /\ Len(recvbuf) \in Nat
      /\ RECVBUF_SIZE \in Nat /\ Len(recvbuf) <= RECVBUF_SIZE
  BY LenProperties, SocketAssumption DEF ConvInv, ConvTypes
<1>3. Client!Received = SubSeq(down, 1, n)
  BY DEF Client!Received, Client!Min, Min
<1>4. n \in 0 .. Len(down)
  BY <1>2, LesserOfTwo
<1> HIDE DEF n
<1>5. PICK received \in Seq(Output) : received = SubSeq(down, 1, n) /\ Len(received) = n
  BY <1>4, PrefixProperties DEF ConvInv, ConvTypes
<1>6. down' \in Seq(Output) /\ received \o down' = down
  <2>1. down' = SubSeq(down, n + 1, Len(down))
    BY <1>1, <1>3, <1>5
  <2>2. 1 \in 1 .. Len(down) + 1 /\ n \in 1 - 1 .. Len(down) /\ Len(down) \in n .. Len(down)
    BY <1>2, <1>4
  <2>3. SubSeq(down, 1, n) \o SubSeq(down, n + 1, Len(down)) = SubSeq(down, 1, Len(down))
    BY <2>2, ConcatAdjacentSubSeq DEF ConvInv, ConvTypes
  <2> QED
    BY <1>4, <1>5, <2>1, <2>3, SuffixProperties, SubSeqFull DEF ConvInv, ConvTypes
<1>7. PICK bytes \in Seq(Output) : bytes = recvbuf \o received
  BY <1>5, ConcatProperties DEF ConvInv, ConvTypes
<1>8. PICK tail \in Seq(Output) : tail = down' \o outbuf
  BY <1>6, ConcatProperties DEF ConvInv, ConvTypes
<1>9. UnderWay = bytes \o tail
  <2>1. recvbuf \o down = bytes \o down'
    <3>1. recvbuf \in Seq(Output)
      BY Buffers
    <3>2. (recvbuf \o received) \o down' = recvbuf \o (received \o down')
      BY <1>6, <3>1, Grouping
    <3> QED
      BY <1>6, <1>7, <3>2
  <2>2. (bytes \o down') \o outbuf = bytes \o (down' \o outbuf)
    <3>1. outbuf \in Seq(Output)
      BY Buffers
    <3> QED
      BY <1>6, <3>1, Grouping
  <2> QED
    BY <1>8, <2>1, <2>2 DEF UnderWay
<1>10. PICK m \in 0 .. Len(bytes) :
         /\ recvbuf' = SubSeq(bytes, m + 1, Len(bytes))
         /\ m # 0 => bytes[m] = "newline"
  <2> DEFINE ends == Client!Newlines(bytes) \cup {0}
  <2>1. Len(bytes) \in Nat /\ Client!Newlines(bytes) = EndsIn(bytes)
    BY <1>7, LenProperties, EndsAreFinite
  <2>2. ends \subseteq 0 .. Len(bytes) /\ ends # {}
    BY <2>1 DEF EndsIn
  <2>3. \A i \in ends : i # 0 => bytes[i] = "newline"
    BY <2>1 DEF EndsIn
  <2> HIDE DEF ends
  <2>4. Max(ends) \in 0 .. Len(bytes) /\ Max(ends) \in ends
    BY <2>1, <2>2, GreatestOfBounded
  <2>5. recvbuf' = SubSeq(bytes, Max(ends) + 1, Len(bytes))
    BY <1>1, <1>3, <1>5, <1>7 DEF Client!Kept, ends, Client!Max, Max
  <2> QED
    BY <2>3, <2>4, <2>5
<1>11. UnderWay' = recvbuf' \o tail /\ recvbuf' \in Seq(Output)
  <2>1. recvbuf' \in Seq(Output)
    BY <1>10, SuffixProperties
  <2>2. (recvbuf' \o down') \o outbuf = recvbuf' \o (down' \o outbuf)
    <3>1. outbuf \in Seq(Output)
      BY Buffers
    <3> QED
      BY <1>6, <2>1, <3>1, Grouping
  <2> QED
    BY <1>1, <1>8, <2>1, <2>2 DEF UnderWay
<1>12. recvbuf' \o tail = SubSeq(bytes \o tail, m + 1, Len(bytes \o tail))
  BY <1>10, CutOfConcatenation
<1>13. /\ bytes \o tail \in Seq(Output) /\ m \in 0 .. Len(bytes \o tail)
       /\ m # 0 => (bytes \o tail)[m] = "newline"
  <2>1. /\ bytes \o tail \in Seq(Output) /\ Len(bytes \o tail) = Len(bytes) + Len(tail)
        /\ \A i \in 1 .. Len(bytes) + Len(tail) :
             (bytes \o tail)[i] = IF i <= Len(bytes) THEN bytes[i] ELSE tail[i - Len(bytes)]
        /\ Len(bytes) \in Nat /\ Len(tail) \in Nat
    BY ConcatProperties, LenProperties
  <2> QED
    BY <1>10, <2>1
<1>14. /\ Whole(bytes \o tail, lost, done)
       /\ pc \notin {"leaving", "closed"} => Finished(bytes \o tail, lost, done)
  BY <1>1, <1>9 DEF LinesInv
<1> QED
  BY <1>11, <1>12, <1>13, <1>14, WholeSuffix

LEMMA ClientKeepsLines ==
  ASSUME ConvInv, LinesInv, Client!Step \/ Client!Type \/ Client!Kill, UNCHANGED serverVars
  PROVE  LinesInv'
<1>1. UNCHANGED <<outbuf, pc, lost, done>>
  BY DEF serverVars
<1>2. CASE Client!ReadServer
  BY <1>2, ReadServerKeepsLines
<1>3. CASE at' = "failed"
  BY <1>3 DEF LinesInv
<1>4. CASE Client!ServerClosed /\ at' = "ended"
  <2>1. at = "server" /\ down' = <<>> /\ UNCHANGED recvbuf /\ Client!Received = <<>>
    BY <1>4 DEF Client!ServerClosed, Client!CloseSocket
  <2>2. down = <<>> /\ pc = "closed"
    BY <2>1, NothingReceived DEF ConvInv, Places
  <2>3. UnderWay' = UnderWay
    BY <1>1, <2>1, <2>2 DEF UnderWay
  <2> QED
    BY <1>1, <2>1, <2>3, SameBytesKeepLines
<1>5. CASE Client!WriteLate
  <2>1. /\ pc = "closed" /\ UNCHANGED recvbuf /\ at # "failed"
        /\ \E n \in 0 .. Len(down) : down' = SubSeq(down, 1, n)
    BY <1>5 DEF Client!WriteLate, Client!Reset
  <2>2. outbuf' = <<>>
    BY <1>1, <2>1 DEF ConvInv, Places
  <2> QED
    BY <1>1, <2>1, <2>2, DroppedEndKeepsLines DEF ConvInv
<1>6. CASE \/ Client!Connect \/ Client!Type \/ Client!Poll
           \/ Client!ReadStdin \/ Client!HalfClose \/ Client!Write
  <2>1. UNCHANGED <<recvbuf, down>> /\ at # "failed"
    BY <1>6 DEF Client!Connect, Client!Type, Client!Poll, Client!ReadStdin, Client!HalfClose,
                Client!Write, Client!Running
  <2>2. UnderWay' = UnderWay
    BY <1>1, <2>1 DEF UnderWay
  <2> QED
    BY <1>1, <2>1, <2>2, SameBytesKeepLines
<1>7. CASE Client!ConnectFails \/ Client!LoginTooLong \/ Client!WriteFails \/ Client!Kill
  BY <1>3, <1>7 DEF Client!ConnectFails, Client!LoginTooLong, Client!WriteFails, Client!Kill
<1>8. CASE Client!ServerClosed /\ at' # "ended"
  BY <1>3, <1>8 DEF Client!ServerClosed
<1> QED
  BY <1>2, <1>4, <1>5, <1>6, <1>7, <1>8 DEF Client!Step

LEMMA NextKeepsLines == ConvInv /\ LinesInv /\ [Next]_vars => LinesInv'
<1> SUFFICES ASSUME ConvInv, LinesInv, [Next]_vars PROVE LinesInv'
  OBVIOUS
<1>1. CASE UNCHANGED vars
  <2>1. UNCHANGED <<at, pc, lost, done, recvbuf, down, outbuf>>
    BY <1>1 DEF vars, serverVars, clientVars
  <2> QED
    BY <2>1, SameBytesKeepLines DEF UnderWay
<1>2. CASE (Server!Step \/ Server!Notify) /\ UNCHANGED clientVars
  BY <1>2, ServerKeepsLines
<1>3. CASE (Client!Step \/ Client!Type \/ Client!Kill) /\ UNCHANGED serverVars
  BY <1>3, ClientKeepsLines
<1> QED
  BY <1>1, <1>2, <1>3 DEF Next, ServerStep, ClientStep

(* However writes, the output buffer, reads and failures cut them, lines    *)
(* reach the client whole and in order, for every size of every buffer and *)
(* every script (io.c:39, 65; trader_client.c:50).                          *)
THEOREM LinesWholeHolds == Spec => []LinesWhole
<1>1. ConvInv /\ LinesInv => LinesWhole
  <2> SUFFICES ASSUME ConvInv, LinesInv PROVE LinesWhole
    OBVIOUS
  <2>1. UnderWay \in Seq(Output)
    BY UnderWayType DEF ConvInv
  <2>2. UnderWay # <<>> => Head(UnderWay) = UnderWay[1]
    BY <2>1, HeadTailProperties
  <2> QED
    BY <2>2 DEF LinesInv, LinesWhole, Whole, Finished, Cut, CutShort, ConvInv, Places
<1>2. Init => ConvInv /\ LinesInv
  <2> SUFFICES ASSUME Init PROVE LinesInv
    BY InitConvInv
  <2>1. recvbuf = <<>> /\ down = <<>> /\ outbuf = <<>>
    BY DEF Init, Server!Init, Client!Init
  <2>2. UnderWay = <<>>
    BY <2>1, NoBytesNoEnds, ConcatEmptySeq DEF UnderWay
  <2> QED
    BY <2>2, NoBytesAreWhole DEF LinesInv
<1> QED
  BY <1>1, <1>2, NextKeepsConvInv, NextKeepsLines, PTL DEF Spec
=============================================================================
