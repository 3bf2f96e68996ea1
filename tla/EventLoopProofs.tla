---------------------------- MODULE EventLoopProofs ----------------------------
(***************************************************************************)
(* Theorems about EventLoop for every number of clients and descriptors,   *)
(* every table length and batch length, and every failure of a call.       *)
(***************************************************************************)
EXTENDS EventLoop, DataLemmas

-----------------------------------------------------------------------------
(* The backlog holds the connections that wait for accept(), each once.    *)
Waiting ==
  /\ backlog \in Seq(Clients)
  /\ \A i \in 1 .. Len(backlog) : link[backlog[i]] = "backlog"
  /\ \A i, j \in 1 .. Len(backlog) : backlog[i] = backlog[j] => i = j

SlotTypes ==
  /\ link \in [Clients -> {"away", "backlog", "open", "closed", "refused"}]
  /\ conns \in [Fds -> Clients \cup {NoClient}]
  /\ curr_cap \in Nat

(* Before the loop the table is empty, and after the end nobody is left.   *)
EmptyBefore == pc \in {"start", "arm"} => \A fd \in Fds : conns[fd] = NoClient

SlotInv ==
  /\ SlotTypes
  /\ Waiting
  /\ TableMatchesSockets
  /\ EmptyBefore
  /\ ShutdownClosesAll

(* What the steps that touch neither the table nor the links need not say. *)
SlotVars == <<link, conns, curr_cap, backlog>>

LEMMA SameSlots ==
  ASSUME SlotInv, UNCHANGED SlotVars,
         pc' \in {"start", "arm"} => pc \in {"start", "arm"},
         pc' = "done" => pc = "done"
  PROVE  SlotInv'
<1>1. UNCHANGED <<link, conns, curr_cap, backlog>>
  BY DEF SlotVars
<1> QED
  BY <1>1 DEF SlotInv, SlotTypes, Waiting, TableMatchesSockets, EmptyBefore, ShutdownClosesAll

-----------------------------------------------------------------------------
(* Connections come *)

LEMMA ConnectKeepsSlots ==
  ASSUME SlotInv, NEW c \in Clients, Connect(c)
  PROVE  SlotInv'
<1>1. /\ link[c] = "away" /\ link' = [link EXCEPT ![c] = "backlog"]
      /\ backlog' = Append(backlog, c)
      /\ conns' = conns /\ curr_cap' = curr_cap /\ pc' = pc /\ pc \notin {"start", "done"}
  BY DEF Connect, serverVars
<1>2. /\ backlog' \in Seq(Clients) /\ Len(backlog') = Len(backlog) + 1
      /\ \A i \in 1 .. Len(backlog) : backlog'[i] = backlog[i]
      /\ backlog'[Len(backlog) + 1] = c
      /\ Len(backlog) \in Nat
  BY <1>1, AppendProperties, LenProperties DEF SlotInv, Waiting
<1>3. \A i \in 1 .. Len(backlog') : i \in 1 .. Len(backlog) \/ i = Len(backlog) + 1
  BY <1>2
<1>4. \A i \in 1 .. Len(backlog) : backlog[i] \in Clients /\ link[backlog[i]] = "backlog"
  BY ElementOfSeq DEF SlotInv, Waiting
<1>5. \A i \in 1 .. Len(backlog) : backlog[i] # c
  BY <1>1, <1>4
<1>6. SlotTypes'
  BY <1>1 DEF SlotInv, SlotTypes
<1>7. \A i \in 1 .. Len(backlog') : link'[backlog'[i]] = "backlog"
  BY <1>1, <1>2, <1>3, <1>4 DEF SlotInv, SlotTypes
<1>8. \A i, j \in 1 .. Len(backlog') : backlog'[i] = backlog'[j] => i = j
  BY <1>2, <1>3, <1>5 DEF SlotInv, Waiting
<1>9. \A d \in Clients : link'[d] = "open" <=> link[d] = "open"
  BY <1>1 DEF SlotInv, SlotTypes
<1>10. TableMatchesSockets'
  BY <1>1, <1>9 DEF SlotInv, TableMatchesSockets
<1>11. EmptyBefore' /\ ShutdownClosesAll'
  BY <1>1 DEF SlotInv, EmptyBefore, ShutdownClosesAll
<1> QED
  BY <1>2, <1>6, <1>7, <1>8, <1>10, <1>11 DEF SlotInv, Waiting

(* accept() takes the head of the backlog and leaves the others waiting.   *)
LEMMA HeadAccepted ==
  ASSUME SlotInv, backlog # <<>>, backlog' = Tail(backlog),
         NEW fate \in {"open", "refused"}, link' = [link EXCEPT ![Head(backlog)] = fate]
  PROVE  /\ Head(backlog) \in Clients
         /\ link[Head(backlog)] = "backlog"
         /\ link' \in [Clients -> {"away", "backlog", "open", "closed", "refused"}]
         /\ Waiting'
<1>1. backlog \in Seq(Clients) /\ Len(backlog) \in Nat /\ Len(backlog) > 0
  BY LenProperties, EmptySeq DEF SlotInv, Waiting
<1>2. \A i \in 1 .. Len(backlog) : backlog[i] \in Clients /\ link[backlog[i]] = "backlog"
  BY ElementOfSeq DEF SlotInv, Waiting
<1>3. /\ backlog' \in Seq(Clients) /\ Len(backlog') = Len(backlog) - 1
      /\ \A i \in 1 .. Len(backlog') : backlog'[i] = backlog[i + 1]
      /\ Head(backlog) = backlog[1]
  BY <1>1, HeadTailProperties
<1>4. Head(backlog) \in Clients /\ link[Head(backlog)] = "backlog"
  BY <1>1, <1>2, <1>3
<1>5. link' \in [Clients -> {"away", "backlog", "open", "closed", "refused"}]
  BY <1>4 DEF SlotInv, SlotTypes
<1>6. \A i \in 1 .. Len(backlog') : i + 1 \in 1 .. Len(backlog) /\ backlog[i + 1] # backlog[1]
  BY <1>1, <1>3 DEF SlotInv, Waiting
<1>7. \A i \in 1 .. Len(backlog') : link'[backlog'[i]] = "backlog"
  BY <1>2, <1>3, <1>4, <1>6 DEF SlotInv, SlotTypes
<1>8. \A i, j \in 1 .. Len(backlog') : backlog'[i] = backlog'[j] => i = j
  BY <1>1, <1>3, <1>6 DEF SlotInv, Waiting
<1> QED
  BY <1>3, <1>4, <1>5, <1>7, <1>8 DEF Waiting

LEMMA LowestFreeIsFree ==
  ASSUME FreeFds # {}
  PROVE  LowestFree \in Fds /\ conns[LowestFree] = NoClient
<1>1. FreeFds \subseteq Nat
  BY FdAssumption DEF FreeFds
<1>2. \E fd \in FreeFds : \A other \in FreeFds : fd <= other
  BY <1>1, LeastNatural
<1> QED
  BY <1>2 DEF LowestFree, FreeFds

(* The table only grows, and then the descriptor is an index of it.        *)
LEMMA RoomIsMade ==
  ASSUME SlotInv, NEW fd \in Fds, NEW cap \in RoomFor(fd)
  PROVE  cap \in Nat /\ curr_cap <= cap /\ fd < cap
<1>1. fd \in Nat /\ curr_cap \in Nat
  BY FdAssumption DEF SlotInv, SlotTypes
<1>2. CASE fd < curr_cap
  BY <1>1, <1>2 DEF RoomFor
<1>3. CASE ~(fd < curr_cap)
  BY <1>1, <1>3 DEF RoomFor, GrownCapacity
<1> QED
  BY <1>2, <1>3

LEMMA AcceptKeepsSlots ==
  ASSUME SlotInv, Accept
  PROVE  SlotInv'
<1> DEFINE c == Head(backlog)
           fd == LowestFree
<1>1. /\ backlog # <<>> /\ backlog' = Tail(backlog)
      /\ link' = [link EXCEPT ![c] = "open"]
      /\ conns' = [conns EXCEPT ![fd] = c]
      /\ curr_cap' \in RoomFor(fd)
      /\ pc' = pc /\ pc = "dispatch"
  BY DEF Accept, Accepting, Dispatching
<1>2. fd \in Fds /\ conns[fd] = NoClient
  BY LowestFreeIsFree DEF Accept
<1>3. /\ c \in Clients /\ link[c] = "backlog"
      /\ link' \in [Clients -> {"away", "backlog", "open", "closed", "refused"}]
      /\ Waiting'
  BY <1>1, HeadAccepted
<1> HIDE DEF c, fd
<1>4. curr_cap' \in Nat /\ curr_cap <= curr_cap' /\ fd < curr_cap'
  BY <1>1, <1>2, RoomIsMade
<1>5. /\ conns' \in [Fds -> Clients \cup {NoClient}]
      /\ conns'[fd] = c
      /\ \A other \in Fds \ {fd} : conns'[other] = conns[other]
  BY <1>1, <1>2, <1>3 DEF SlotInv, SlotTypes
<1>6. /\ link'[c] = "open"
      /\ \A d \in Clients \ {c} : link'[d] = link[d]
  BY <1>1, <1>3 DEF SlotInv, SlotTypes
<1>7. \A other \in Fds : conns[other] # c
  BY <1>3 DEF SlotInv, TableMatchesSockets
<1>8. \A d \in Clients : link'[d] = "open" <=> \E other \in Fds : conns'[other] = d
  <2>1. ASSUME NEW d \in Clients \ {c}
        PROVE  link'[d] = "open" <=> \E other \in Fds : conns'[other] = d
    <3>1. link[d] = "open" <=> \E other \in Fds : conns[other] = d
      BY DEF SlotInv, TableMatchesSockets
    <3>2. d # NoClient
      BY ClientAssumption
    <3>3. (\E other \in Fds : conns'[other] = d) <=> (\E other \in Fds : conns[other] = d)
      BY <1>2, <1>5, <3>2
    <3> QED
      BY <1>6, <3>1, <3>3
  <2> QED
    BY <1>2, <1>5, <1>6, <2>1
<1>9. \A one, other \in Fds :
        conns'[one] # NoClient /\ conns'[one] = conns'[other] => one = other
  BY <1>5, <1>7 DEF SlotInv, TableMatchesSockets
<1>10. \A other \in Fds : conns'[other] # NoClient => other < curr_cap'
  <2>1. \A other \in Fds : conns[other] # NoClient => other < curr_cap
    BY DEF SlotInv, TableMatchesSockets
  <2>2. \A other \in Fds : other \in Nat /\ curr_cap \in Nat
    BY FdAssumption DEF SlotInv, SlotTypes
  <2> QED
    BY <1>4, <1>5, <2>1, <2>2
<1> QED
  BY <1>1, <1>3, <1>4, <1>5, <1>8, <1>9, <1>10
  DEF SlotInv, SlotTypes, TableMatchesSockets, EmptyBefore, ShutdownClosesAll

LEMMA RefuseKeepsSlots ==
  ASSUME SlotInv, Refuse
  PROVE  SlotInv'
<1> DEFINE c == Head(backlog)
<1>1. /\ backlog # <<>> /\ backlog' = Tail(backlog)
      /\ link' = [link EXCEPT ![c] = "refused"]
      /\ conns' = conns /\ pc' = pc /\ pc = "dispatch"
  BY DEF Refuse, Accepting, Dispatching
<1>2. /\ c \in Clients /\ link[c] = "backlog"
      /\ link' \in [Clients -> {"away", "backlog", "open", "closed", "refused"}]
      /\ Waiting'
  BY <1>1, HeadAccepted
<1> HIDE DEF c
<1>3. curr_cap' \in Nat /\ curr_cap <= curr_cap'
  <2>1. LowestFree \in Fds /\ curr_cap \in Nat
    BY LowestFreeIsFree DEF Refuse, SlotInv, SlotTypes
  <2>2. curr_cap' = curr_cap \/ curr_cap' \in RoomFor(LowestFree)
    BY DEF Refuse
  <2> QED
    BY <2>1, <2>2, RoomIsMade
<1>4. \A d \in Clients : link'[d] = "open" <=> link[d] = "open"
  BY <1>1, <1>2 DEF SlotInv, SlotTypes
<1>5. \A fd \in Fds : conns'[fd] # NoClient => fd < curr_cap'
  <2>1. \A fd \in Fds : conns[fd] # NoClient => fd < curr_cap
    BY DEF SlotInv, TableMatchesSockets
  <2>2. \A fd \in Fds : fd \in Nat /\ curr_cap \in Nat
    BY FdAssumption DEF SlotInv, SlotTypes
  <2> QED
    BY <1>1, <1>3, <2>1, <2>2
<1> QED
  BY <1>1, <1>2, <1>3, <1>4, <1>5
  DEF SlotInv, SlotTypes, TableMatchesSockets, EmptyBefore, ShutdownClosesAll

-----------------------------------------------------------------------------
(* Connections go *)

LEMMA RemoveClientKeepsSlots ==
  ASSUME SlotInv, NEW fd \in Fds, conns[fd] # NoClient, NEW kept, RemoveClientAfter(fd, kept),
         pc' = pc
  PROVE  SlotInv'
<1> DEFINE c == conns[fd]
<1>1. /\ link' = [link EXCEPT ![c] = "closed"]
      /\ conns' = [conns EXCEPT ![fd] = NoClient]
      /\ backlog' = backlog /\ curr_cap' = curr_cap
  BY DEF RemoveClientAfter
<1>2. c \in Clients /\ link[c] = "open"
  BY DEF SlotInv, SlotTypes, TableMatchesSockets
<1>3. \A other \in Fds \ {fd} : conns[other] # c
  BY DEF SlotInv, TableMatchesSockets
<1>4. conns[fd] = c /\ c # NoClient
  BY ClientAssumption, <1>2
<1> HIDE DEF c
<1>5. /\ conns' \in [Fds -> Clients \cup {NoClient}]
      /\ conns'[fd] = NoClient
      /\ \A other \in Fds \ {fd} : conns'[other] = conns[other]
  BY <1>1 DEF SlotInv, SlotTypes
<1>6. /\ link' \in [Clients -> {"away", "backlog", "open", "closed", "refused"}]
      /\ link'[c] = "closed"
      /\ \A d \in Clients \ {c} : link'[d] = link[d]
  BY <1>1, <1>2 DEF SlotInv, SlotTypes
<1>7. SlotTypes'
  BY <1>1, <1>5, <1>6 DEF SlotInv, SlotTypes
<1>8. Waiting'
  <2>1. \A i \in 1 .. Len(backlog) : backlog[i] \in Clients /\ link[backlog[i]] = "backlog"
    BY ElementOfSeq DEF SlotInv, Waiting
  <2>2. \A i \in 1 .. Len(backlog) : link'[backlog[i]] = "backlog"
    BY <1>2, <1>6, <2>1
  <2> QED
    BY <1>1, <2>2 DEF SlotInv, Waiting
<1>9. \A d \in Clients : link'[d] = "open" <=> \E other \in Fds : conns'[other] = d
  <2>1. ASSUME NEW d \in Clients \ {c}
        PROVE  link'[d] = "open" <=> \E other \in Fds : conns'[other] = d
    <3>1. link[d] = "open" <=> \E other \in Fds : conns[other] = d
      BY DEF SlotInv, TableMatchesSockets
    <3>2. d # NoClient
      BY ClientAssumption
    <3>3. (\E other \in Fds : conns'[other] = d) <=> (\E other \in Fds : conns[other] = d)
      BY <1>4, <1>5, <3>2
    <3> QED
      BY <1>6, <3>1, <3>3
  <2>2. \A other \in Fds : conns'[other] # c
    BY <1>3, <1>4, <1>5
  <2> QED
    BY <1>6, <2>1, <2>2
<1>10. /\ \A one, other \in Fds :
            conns'[one] # NoClient /\ conns'[one] = conns'[other] => one = other
       /\ \A other \in Fds : conns'[other] # NoClient => other < curr_cap'
  BY <1>1, <1>5 DEF SlotInv, TableMatchesSockets
<1>11. EmptyBefore'
  BY <1>5 DEF SlotInv, EmptyBefore
<1>12. ShutdownClosesAll'
  BY <1>2, <1>6 DEF SlotInv, ShutdownClosesAll
<1> QED
  BY <1>7, <1>8, <1>9, <1>10, <1>11, <1>12 DEF SlotInv, TableMatchesSockets

(* The process ends with an empty table: nobody is open or waiting.        *)
LEMMA EndKeepsSlots ==
  ASSUME SlotInv, BacklogDropped, \A fd \in Fds : conns[fd] = NoClient,
         UNCHANGED <<conns, curr_cap>>, pc' = "done"
  PROVE  SlotInv'
<1>1. /\ link' = [c \in Clients |-> IF link[c] = "backlog" THEN "refused" ELSE link[c]]
      /\ backlog' = <<>> /\ conns' = conns /\ curr_cap' = curr_cap
  BY DEF BacklogDropped
<1>2. \A c \in Clients : link[c] # "open"
  BY ClientAssumption DEF SlotInv, TableMatchesSockets
<1>3. \A c \in Clients : link'[c] \notin {"open", "backlog"}
  BY <1>1, <1>2
<1>4. SlotTypes'
  BY <1>1 DEF SlotInv, SlotTypes
<1>5. Waiting'
  BY <1>1, EmptySeq DEF Waiting
<1>6. TableMatchesSockets'
  BY <1>1, <1>3, ClientAssumption DEF SlotInv, TableMatchesSockets
<1> QED
  BY <1>3, <1>4, <1>5, <1>6 DEF SlotInv, EmptyBefore, ShutdownClosesAll

LEMMA ExitKeepsSlots ==
  ASSUME SlotInv, Exit
  PROVE  SlotInv'
<1>1. \A fd \in Fds : conns[fd] = NoClient
  BY DEF Exit, Usable, SlotInv, TableMatchesSockets
<1> QED
  BY <1>1, EndKeepsSlots DEF Exit, serverVars

LEMMA StartFailsKeepsSlots ==
  ASSUME SlotInv, StartFails
  PROVE  SlotInv'
<1>1. \A fd \in Fds : conns[fd] = NoClient
  BY DEF StartFails, SlotInv, EmptyBefore
<1> QED
  BY <1>1, EndKeepsSlots DEF StartFails, serverVars

(* The steps of a handler that end in removeClient.                        *)
LEMMA EndingSteps ==
  ASSUME HandleDisconnect \/ FlushEnds \/ LineFails \/ ReadQuitEnds \/ ReadOver
  PROVE  \E kept \in SUBSET Clients :
           /\ Handling /\ RemoveClientAfter(Ev.ident, kept)
           /\ pos' = pos + 1 /\ pc' = pc
           /\ closing' = closing \/ (closing' = closing \cup {Self} /\ Self \notin closing)
<1>1. CASE HandleDisconnect \/ FlushEnds \/ ReadQuitEnds \/ ReadOver
  BY <1>1 DEF HandleDisconnect, FlushEnds, Flushing, ReadQuitEnds, ReadOver,
              AtLine, Reading, Unread, RemoveClient
<1>2. CASE LineFails
  <2>1. PICK kept \in SUBSET (Told \ {Self}) : RemoveClientAfter(Ev.ident, kept)
    BY <1>2 DEF LineFails
  <2>2. kept \in SUBSET Clients
    BY <2>1 DEF Told
  <2> QED
    BY <1>2, <2>1, <2>2 DEF LineFails, AtLine, Reading
<1> QED
  BY <1>1, <1>2

-----------------------------------------------------------------------------
LEMMA NextKeepsSlots == SlotInv /\ [Next]_vars => SlotInv'
<1> SUFFICES ASSUME SlotInv, [Next]_vars PROVE SlotInv'
  OBVIOUS
<1>1. CASE \E c \in Clients : Connect(c)
  BY <1>1, ConnectKeepsSlots
<1>2. CASE \E c \in Clients :
             (\E line \in Lines : Send(c, line)) \/ HalfClose(c) \/ Disconnect(c) \/ Take(c)
  <2>1. UNCHANGED SlotVars /\ pc' = pc
    BY <1>2 DEF Send, HalfClose, Disconnect, Take, netVars, serverVars, SlotVars
  <2> QED
    BY <2>1, SameSlots
<1>3. CASE Signal
  <2>1. UNCHANGED SlotVars /\ pc' \in {pc, "test"}
    BY <1>3 DEF Signal, netVars, SlotVars
  <2> QED
    BY <2>1, SameSlots
<1>4. CASE Listen \/ Arm \/ Test \/ Sleep \/ KeventFails
  <2>1. UNCHANGED SlotVars
    BY <1>4 DEF Listen, Arm, Test, Sleep, KeventFails, netVars, serverVars, SlotVars
  <2>2. pc' \in {"start", "arm"} => pc \in {"start", "arm"}
    BY <1>4 DEF Listen, Arm, Test, Sleep, KeventFails
  <2>3. pc' # "done"
    BY <1>4 DEF Listen, Arm, Test, Sleep, KeventFails
  <2> QED
    BY <2>1, <2>2, <2>3, SameSlots
<1>5. CASE StartFails
  BY <1>5, StartFailsKeepsSlots
<1>6. CASE Kevent \/ EndBatch
  <2>1. UNCHANGED SlotVars /\ pc' \in {"dispatch", "test"}
    BY <1>6 DEF Kevent, Deliver, EndBatch, netVars, SlotVars
  <2> QED
    BY <2>1, SameSlots
<1>7. CASE IgnoreEvent \/ FlushAll \/ FlushSome \/ ReadLine \/ ReadQuitStored \/ EndRead \/ EndAccept
  <2>1. UNCHANGED SlotVars /\ pc' = pc
    BY <1>7 DEF IgnoreEvent, FlushAll, FlushSome, ReadLine, ReadQuitStored, EndRead, EndAccept,
                netVars, serverVars, SlotVars
  <2> QED
    BY <2>1, SameSlots
<1>8. CASE HandleDisconnect \/ FlushEnds \/ LineFails \/ ReadQuitEnds \/ ReadOver
  <2>1. PICK kept \in SUBSET Clients : Handling /\ RemoveClientAfter(Ev.ident, kept) /\ pc' = pc
    BY <1>8, EndingSteps
  <2>2. Ev.ident \in Fds /\ conns[Ev.ident] # NoClient
    BY <2>1 DEF Handling, Usable
  <2> QED
    BY <2>1, <2>2, RemoveClientKeepsSlots
<1>9. CASE Accept
  BY <1>9, AcceptKeepsSlots
<1>10. CASE Refuse
  BY <1>10, RefuseKeepsSlots
<1>11. CASE CloseSlot
  BY <1>11, RemoveClientKeepsSlots DEF CloseSlot, Usable, RemoveClient
<1>12. CASE Exit
  BY <1>12, ExitKeepsSlots
<1>13. CASE UNCHANGED vars
  BY <1>13, SameSlots DEF vars, netVars, serverVars, SlotVars
<1> QED
  BY <1>1, <1>2, <1>3, <1>4, <1>5, <1>6, <1>7, <1>8, <1>9, <1>10, <1>11, <1>12, <1>13
  DEF Next, Server, Environment

LEMMA InitSlots == Init => SlotInv
<1> SUFFICES ASSUME Init PROVE SlotInv
  OBVIOUS
<1>1. SlotTypes /\ Waiting
  BY CapacityAssumption, EmptySeq DEF Init, SlotTypes, Waiting
<1>2. TableMatchesSockets
  BY ClientAssumption DEF Init, TableMatchesSockets
<1> QED
  BY <1>1, <1>2 DEF Init, SlotInv, EmptyBefore, ShutdownClosesAll

(* The table and the open sockets agree on every path through accept,      *)
(* growth, failure and teardown (server.c:31, 58, 97; io.c:91).            *)
THEOREM TableMatchesSocketsHolds == Spec => []TableMatchesSockets
<1>1. SlotInv => TableMatchesSockets
  BY DEF SlotInv
<1> QED
  BY <1>1, InitSlots, NextKeepsSlots, PTL DEF Spec

(* When the process ends, by a signal or by the failure of a call of its   *)
(* own, no connection is left open or waiting (exchange_server.c:185).      *)
THEOREM ShutdownClosesAllHolds == Spec => []ShutdownClosesAll
<1>1. SlotInv => ShutdownClosesAll
  BY DEF SlotInv
<1> QED
  BY <1>1, InitSlots, NextKeepsSlots, PTL DEF Spec

-----------------------------------------------------------------------------
(* Lists of filters *)

(* The recursion of Among has a solution.                                  *)
LEMMA AmongRecursion ==
  ASSUME NEW list, NEW set, Len(list) \in Nat
  PROVE  \E f : /\ f = [i \in 0 .. Len(list) |->
                          IF i = 0 THEN <<>>
                          ELSE IF list[i] \in set THEN Append(f[i - 1], list[i])
                          ELSE f[i - 1]]
                /\ Among(list, set) = f[Len(list)]
<1> DEFINE Walks(f, n) ==
             f = [i \in 0 .. n |-> IF i = 0 THEN <<>>
                                   ELSE IF list[i] \in set THEN Append(f[i - 1], list[i])
                                   ELSE f[i - 1]]
           T == {n \in Nat : \E f : Walks(f, n)}
<1>1. 0 \in T
  <2>1. Walks([i \in 0 .. 0 |-> <<>>], 0)
    OBVIOUS
  <2> QED
    BY <2>1
<1>2. ASSUME NEW n \in Nat, n \in T
      PROVE  n + 1 \in T
  <2>1. PICK f : Walks(f, n)
    BY <1>2
  <2> DEFINE g == [i \in 0 .. n + 1 |-> 
                     IF i \in 0 .. n THEN f[i] 
                     ELSE IF list[n + 1] \in set THEN Append(f[n], list[n + 1]) ELSE f[n]]
  <2>2. \A i \in 0 .. n : i - 1 \in 0 .. n \/ i = 0
    OBVIOUS
  <2>3. \A i \in 0 .. n : f[i] = IF i = 0 THEN <<>>
                                   ELSE IF list[i] \in set THEN Append(f[i - 1], list[i])
                                   ELSE f[i - 1]
    BY <2>1
  <2>4. Walks(g, n + 1)
    BY <2>2, <2>3
  <2> HIDE DEF g, Walks
  <2> QED
    BY <2>4
<1>3. Len(list) \in T
  <2> HIDE DEF T
  <2> QED
    BY <1>1, <1>2, EveryNatural
<1>4. PICK f : Walks(f, Len(list))
  BY <1>3
<1>5. Among(list, set) = (CHOOSE f2 : Walks(f2, Len(list)))[Len(list)]
  BY DEF Among
<1> QED
  BY <1>4, <1>5

(* Among picks out the elements of the list that are in the set.           *)
LEMMA AmongProperties ==
  ASSUME NEW S, NEW list \in Seq(S), NEW set
  PROVE  /\ Among(list, set) \in Seq(S)
         /\ ToSet(Among(list, set)) = ToSet(list) \cap set
<1>1. Len(list) \in Nat /\ \A i \in 1 .. Len(list) : list[i] \in S
  BY LenProperties, ElementOfSeq
<1>2. PICK f : /\ f = [i \in 0 .. Len(list) |->
                         IF i = 0 THEN <<>>
                         ELSE IF list[i] \in set THEN Append(f[i - 1], list[i])
                         ELSE f[i - 1]]
               /\ Among(list, set) = f[Len(list)]
  BY <1>1, AmongRecursion
<1> DEFINE Right(n) == /\ f[n] \in Seq(S)
                       /\ \A x : (\E j \in 1 .. Len(f[n]) : f[n][j] = x)
                                 <=> (\E j \in 1 .. n : list[j] = x) /\ x \in set
           T == {n \in Nat : n <= Len(list) => Right(n)}
<1> HIDE DEF Right
<1>3. 0 \in T
  <2>1. f[0] = <<>>
    BY <1>1, <1>2
  <2>2. Right(0)
    BY <2>1, EmptySeq DEF Right
  <2> QED
    BY <2>2
<1>4. ASSUME NEW n \in Nat, n \in T
      PROVE  n + 1 \in T
  <2> SUFFICES ASSUME n + 1 <= Len(list) PROVE Right(n + 1)
    OBVIOUS
  <2>1. Right(n)
    BY <1>1, <1>4
  <2>2. n + 1 \in 0 .. Len(list) /\ n + 1 # 0 /\ (n + 1) - 1 = n /\ n + 1 \in 1 .. Len(list)
    BY <1>1
  <2>3. f[n + 1] = IF list[n + 1] \in set THEN Append(f[n], list[n + 1]) ELSE f[n]
    BY <1>2, <2>2
  <2>4. list[n + 1] \in S
    BY <1>1, <2>2
  <2>5. \A x : (\E j \in 1 .. n + 1 : list[j] = x)
              <=> (\E j \in 1 .. n : list[j] = x) \/ list[n + 1] = x
    OBVIOUS
  <2>6. CASE list[n + 1] \in set
    <3>1. /\ f[n + 1] \in Seq(S) /\ Len(f[n + 1]) = Len(f[n]) + 1
          /\ \A j \in 1 .. Len(f[n]) : f[n + 1][j] = f[n][j]
          /\ f[n + 1][Len(f[n]) + 1] = list[n + 1]
          /\ Len(f[n]) \in Nat
      BY <2>1, <2>3, <2>4, <2>6, AppendProperties, LenProperties DEF Right
    <3>2. 1 .. Len(f[n + 1]) = (1 .. Len(f[n])) \cup {Len(f[n]) + 1}
      BY <3>1
    <3>3. \A x : (\E j \in 1 .. Len(f[n + 1]) : f[n + 1][j] = x)
                <=> (\E j \in 1 .. Len(f[n]) : f[n][j] = x) \/ list[n + 1] = x
      BY <3>1, <3>2
    <3> QED
      BY <2>1, <2>5, <2>6, <3>1, <3>3 DEF Right
  <2>7. CASE list[n + 1] \notin set
    BY <2>1, <2>3, <2>5, <2>7 DEF Right
  <2> QED
    BY <2>6, <2>7
<1>5. Right(Len(list))
  <2>1. Len(list) \in T
    <3> HIDE DEF T
    <3> QED
      BY <1>1, <1>3, <1>4, EveryNatural
  <2> QED
    BY <1>1, <2>1
<1>6. Among(list, set) \in Seq(S)
  BY <1>2, <1>5 DEF Right
<1>7. /\ DOMAIN list = 1 .. Len(list)
      /\ DOMAIN Among(list, set) = 1 .. Len(Among(list, set))
  BY <1>6, LenProperties
<1>8. \A x : (\E j \in 1 .. Len(Among(list, set)) : Among(list, set)[j] = x)
             <=> (\E j \in 1 .. Len(list) : list[j] = x) /\ x \in set
  BY <1>2, <1>5 DEF Right
<1>9. \A x : x \in ToSet(Among(list, set)) <=> x \in ToSet(list) /\ x \in set
  BY <1>7, <1>8 DEF ToSet
<1> QED
  BY <1>6, <1>9

LEMMA ActivateProperties ==
  ASSUME NEW list \in Seq(Knotes), NEW knote \in Knotes
  PROVE  /\ Activate(list, knote) \in Seq(Knotes)
         /\ ToSet(Activate(list, knote)) = ToSet(list) \cup {knote}
<1>1. ToSet(list) = {list[i] : i \in 1 .. Len(list)}
  BY SeqElements
<1>2. CASE Contains(list, knote)
  BY <1>1, <1>2 DEF Activate, Contains
<1>3. CASE ~Contains(list, knote)
  BY <1>3, AppendElements, AppendProperties DEF Activate
<1> QED
  BY <1>2, <1>3

-----------------------------------------------------------------------------
(* Who is told what *)

(* A disconnection that is due is known from the event itself: an event    *)
(* that does not say so was copied out before.                             *)
HangupDue(fd) ==
  \/ <<fd, "WRITE">> \in ToSet(ready)
  \/ \E event \in Pending : event.ident = fd /\ event.filter = "WRITE" /\ event.eof

(* Input that communicate() would still read, and output that may go.      *)
Unseen(c) == Readable(c) /\ c \notin closing
Unsent(c) == c \in stored \ full

Due(fd) ==
  conns[fd] # NoClient =>
    /\ Unseen(conns[fd]) => Listed(fd, "READ")
    /\ conns[fd] \in hup => HangupDue(fd)
    /\ Unsent(conns[fd]) => Listed(fd, "WRITE")

ListenerDue == backlog # <<>> /\ pc # "arm" => <<Listener, "READ">> \in ToSet(ready)

Between ==
  /\ pc # "dispatch" => events = <<>>
  /\ pc = "start" => backlog = <<>>

EventInv ==
  /\ TypeOK
  /\ NoOrphanFilter
  /\ Between
  /\ \A fd \in Fds : Due(fd)
  /\ ListenerDue

-----------------------------------------------------------------------------
(* Steps within a batch *)

LEMMA PendingAfterOne ==
  ASSUME TypeOK, Dispatching, pos' = pos + 1, UNCHANGED events
  PROVE  /\ pos' \in Nat \ {0}
         /\ Pending = Pending' \cup {Ev}
<1>1. Len(events) \in Nat /\ pos \in Nat \ {0} /\ pos <= Len(events)
  BY LenProperties DEF TypeOK, Dispatching
<1>2. pos .. Len(events) = (pos + 1 .. Len(events)) \cup {pos}
  BY <1>1
<1> QED
  BY <1>1, <1>2 DEF Pending, Ev

(* What a handler does short of teardown, and passing over an event: what   *)
(* is left to read or to write was left before, and not by the event that  *)
(* is over now.                                                            *)
LEMMA HandlerKeepsEvents ==
  ASSUME EventInv,
         UNCHANGED <<link, sent, fin, hup, backlog, ready, pc, running, events, conns, curr_cap>>,
         pos' = pos \/ (Dispatching /\ pos' = pos + 1),
         recv' \in [Clients -> Seq(Lines)],
         full' \subseteq Clients, stored' \subseteq Clients, closing' \subseteq Clients,
         \A c \in Clients : (Unseen(c)' => Unseen(c)) /\ (Unsent(c)' => Unsent(c)),
         \A fd \in Fds : pos' # pos /\ Ev.ident = fd /\ conns[fd] # NoClient =>
            /\ Ev.filter = "READ" => ~Unseen(conns[fd])'
            /\ Ev.filter = "WRITE" => ~Ev.eof /\ ~Unsent(conns[fd])'
  PROVE  EventInv'
<1>1. /\ pos' \in Nat \ {0}
      /\ \/ pos' = pos /\ Pending' = Pending
         \/ pos' # pos /\ Pending = Pending' \cup {Ev}
  <2>1. CASE pos' = pos
    BY <2>1 DEF Pending, EventInv, TypeOK
  <2>2. CASE Dispatching /\ pos' = pos + 1
    <3>1. pos' # pos
      BY <2>2 DEF EventInv, TypeOK
    <3> QED
      BY <2>2, <3>1, PendingAfterOne DEF EventInv
  <2> QED
    BY <2>1, <2>2
<1>2. TypeOK' /\ NoOrphanFilter' /\ Between' /\ ListenerDue'
  BY <1>1 DEF EventInv, TypeOK, NoOrphanFilter, Between, ListenerDue
<1>3. ASSUME NEW fd \in Fds, conns[fd] # NoClient
      PROVE  /\ Unseen(conns[fd])' => Listed(fd, "READ")'
             /\ conns[fd] \in hup => HangupDue(fd)'
             /\ Unsent(conns[fd])' => Listed(fd, "WRITE")'
  <2>1. Due(fd) /\ conns[fd] \in Clients
    BY <1>3 DEF EventInv, TypeOK
  <2>2. ASSUME Unseen(conns[fd])' PROVE Listed(fd, "READ")'
    <3>1. Listed(fd, "READ")
      BY <1>3, <2>1, <2>2 DEF Due
    <3>2. pos' = pos \/ ~(Ev.ident = fd /\ Ev.filter = "READ")
      BY <1>3, <2>2
    <3> QED
      BY <1>1, <3>1, <3>2 DEF Listed
  <2>3. ASSUME conns[fd] \in hup PROVE HangupDue(fd)'
    <3>1. HangupDue(fd)
      BY <1>3, <2>1, <2>3 DEF Due
    <3>2. pos' = pos \/ ~(Ev.ident = fd /\ Ev.filter = "WRITE" /\ Ev.eof)
      BY <1>3
    <3> QED
      BY <1>1, <3>1, <3>2 DEF HangupDue
  <2>4. ASSUME Unsent(conns[fd])' PROVE Listed(fd, "WRITE")'
    <3>1. Listed(fd, "WRITE")
      BY <1>3, <2>1, <2>4 DEF Due
    <3>2. pos' = pos \/ ~(Ev.ident = fd /\ Ev.filter = "WRITE")
      BY <1>3, <2>4
    <3> QED
      BY <1>1, <3>1, <3>2 DEF Listed
  <2> QED
    BY <2>2, <2>3, <2>4
<1>4. \A fd \in Fds : Due(fd)'
  BY <1>3 DEF Due
<1> QED
  BY <1>2, <1>4 DEF EventInv

(* An event that finds nothing to do.                                      *)
LEMMA PassKeepsEvents ==
  ASSUME EventInv, Dispatching, pos' = pos + 1,
         UNCHANGED <<netVars, ready, pc, running, events, conns, curr_cap, outVars>>,
         \A fd \in Fds : Ev.ident = fd /\ conns[fd] # NoClient =>
            Ev.filter = "READ" /\ ~Unseen(conns[fd])
  PROVE  EventInv'
<1>1. UNCHANGED <<link, recv, sent, fin, hup, backlog, full, stored, closing>>
  BY DEF netVars, outVars
<1>2. /\ recv \in [Clients -> Seq(Lines)]
      /\ full \subseteq Clients /\ stored \subseteq Clients /\ closing \subseteq Clients
  BY DEF EventInv, TypeOK
<1>3. \A c : (Unseen(c)' <=> Unseen(c)) /\ (Unsent(c)' <=> Unsent(c))
  BY <1>1 DEF Unseen, Readable, Unsent
<1> QED
  BY <1>1, <1>2, <1>3, HandlerKeepsEvents

(* Both filters and the slot of a descriptor go together, and so does the  *)
(* event that caused it.  What others were sent meanwhile waits for room.  *)
LEMMA RemoveClientKeepsEvents ==
  ASSUME SlotInv, EventInv, NEW fd \in Fds, conns[fd] # NoClient,
         NEW kept \in SUBSET Clients, RemoveClientAfter(fd, kept), pc' = pc,
         closing' = closing \/ closing' = closing \cup {conns[fd]},
         pos' = pos \/ (Dispatching /\ Ev.ident = fd /\ pos' = pos + 1)
  PROVE  EventInv'
<1>1. /\ link' = [link EXCEPT ![conns[fd]] = "closed"]
      /\ recv' = [recv EXCEPT ![conns[fd]] = <<>>]
      /\ conns' = [conns EXCEPT ![fd] = NoClient]
      /\ ready' = FiltersDeleted(ready, fd)
      /\ stored' = (stored \cup kept) \ {conns[fd]}
      /\ full' = (full \cup (kept \ stored)) \ {conns[fd]}
      /\ UNCHANGED <<sent, fin, hup, backlog, running, events, curr_cap>>
  BY DEF RemoveClientAfter, Output
<1>2. /\ conns \in [Fds -> Clients \cup {NoClient}] /\ conns'[fd] = NoClient
      /\ \A other \in Fds \ {fd} : conns'[other] = conns[other]
      /\ conns' \in [Fds -> Clients \cup {NoClient}]
      /\ conns[fd] \in Clients
  BY <1>1 DEF EventInv, TypeOK
<1>3. ready' \in Seq(Knotes) /\ ToSet(ready') = ToSet(ready) \ ({fd} \X Filters)
  <2>1. ready \in Seq(Knotes) /\ ToSet(ready) \subseteq Knotes
    BY SeqElements DEF EventInv, TypeOK
  <2> QED
    BY <1>1, <2>1, AmongProperties DEF FiltersDeleted
<1>4. pos' \in Nat \ {0} /\ \A event \in Pending : event.ident # fd => event \in Pending'
  <2>1. CASE pos' = pos
    BY <1>1, <2>1 DEF Pending, EventInv, TypeOK
  <2>2. CASE Dispatching /\ Ev.ident = fd /\ pos' = pos + 1
    <3>1. pos' \in Nat \ {0} /\ Pending = Pending' \cup {Ev}
      BY <1>1, <2>2, PendingAfterOne DEF EventInv
    <3> QED
      BY <2>2, <3>1
  <2> QED
    BY <2>1, <2>2
<1>5. TypeOK'
  <2>1. link' \in [Clients -> {"away", "backlog", "open", "closed", "refused"}]
    BY <1>1, <1>2 DEF EventInv, TypeOK
  <2>2. recv' \in [Clients -> Seq(Lines)]
    <3>1. <<>> \in Seq(Lines)
      BY EmptySeq
    <3> QED
      BY <1>1, <1>2, <3>1 DEF EventInv, TypeOK
  <2>3. full' \subseteq Clients /\ stored' \subseteq Clients /\ closing' \subseteq Clients
    BY <1>1, <1>2 DEF EventInv, TypeOK
  <2> QED
    BY <1>1, <1>2, <1>3, <1>4, <2>1, <2>2, <2>3 DEF EventInv, TypeOK
<1>6. NoOrphanFilter'
  <2> SUFFICES ASSUME NEW knote \in ToSet(ready'), knote[1] # Listener
               PROVE  conns'[knote[1]] # NoClient
    BY DEF NoOrphanFilter
  <2>1. knote \in ToSet(ready) /\ knote \notin {fd} \X Filters /\ conns[knote[1]] # NoClient
    BY <1>3 DEF EventInv, NoOrphanFilter
  <2>2. knote \in Fds \X Filters
    <3>1. knote \in Knotes
      BY <2>1, SeqElements DEF EventInv, TypeOK
    <3> QED
      BY <3>1 DEF Knotes
  <2>3. knote[1] \in Fds /\ knote[1] # fd
    BY <2>1, <2>2
  <2> QED
    BY <1>2, <2>1, <2>3
<1>7. ASSUME NEW other \in Fds
      PROVE  Due(other)'
  <2>1. CASE other = fd
    BY <1>2, <2>1 DEF Due
  <2>2. CASE other # fd /\ conns[other] = NoClient
    BY <1>2, <2>2 DEF Due
  <2>3. CASE other # fd /\ conns[other] # NoClient
    <3>1. Due(other) /\ conns'[other] = conns[other]
      BY <1>2, <2>3 DEF EventInv
    <3>2. conns[other] \in Clients /\ conns[other] # conns[fd]
      BY <1>2, <2>3 DEF SlotInv, TableMatchesSockets
    <3>3. \A filter \in Filters : <<other, filter>> \in ToSet(ready) => <<other, filter>> \in ToSet(ready')
      BY <1>3, <2>3
    <3>4. \A filter \in Filters : Listed(other, filter) => Listed(other, filter)'
      BY <1>4, <2>3, <3>3 DEF Listed
    <3>5. HangupDue(other) => HangupDue(other)'
      BY <1>4, <2>3, <3>3 DEF HangupDue, Filters
    <3>6. Unseen(conns[other])' => Unseen(conns[other])
      <4>1. recv'[conns[other]] = recv[conns[other]]
        BY <1>1, <3>2 DEF EventInv, TypeOK
      <4> QED
        BY <1>1, <3>1, <3>2, <4>1 DEF Unseen, Readable
    <3>7. Unsent(conns[other])' => Unsent(conns[other])
      BY <1>1, <3>1, <3>2 DEF Unsent
    <3> QED
      BY <1>1, <2>3, <3>1, <3>4, <3>5, <3>6, <3>7 DEF Due, Filters
  <2> QED
    BY <2>1, <2>2, <2>3
<1>8. ListenerDue' /\ Between'
  <2>1. <<Listener, "READ">> \notin {fd} \X Filters
    BY FdAssumption
  <2> QED
    BY <1>1, <1>3, <2>1 DEF EventInv, ListenerDue, Between
<1> QED
  BY <1>5, <1>6, <1>7, <1>8 DEF EventInv

-----------------------------------------------------------------------------
(* Connections change *)

LEMMA SlotOfOpen ==
  ASSUME SlotInv, NEW c \in Clients, link[c] = "open"
  PROVE  /\ FdOf(c) \in Fds /\ conns[FdOf(c)] = c
         /\ \A fd \in Fds : conns[fd] = c => fd = FdOf(c)
<1>1. \E fd \in Fds : conns[fd] = c
  BY DEF SlotInv, TableMatchesSockets
<1>2. FdOf(c) \in Fds /\ conns[FdOf(c)] = c
  BY <1>1 DEF FdOf
<1> QED
  BY <1>2, ClientAssumption DEF SlotInv, TableMatchesSockets

LEMMA ActivatedForProperties ==
  ASSUME SlotInv, ready \in Seq(Knotes), NEW c \in Clients, NEW filters
  PROVE  /\ ActivatedFor(c, filters) \in Seq(Knotes)
         /\ ToSet(ready) \subseteq ToSet(ActivatedFor(c, filters))
         /\ \A knote \in ToSet(ActivatedFor(c, filters)) \ ToSet(ready) :
              link[c] = "open" /\ knote[1] = FdOf(c)
         /\ link[c] = "open" =>
              \A filter \in filters \cap Filters :
                <<FdOf(c), filter>> \in ToSet(ActivatedFor(c, filters))
<1> DEFINE woken(list, filter) ==
             IF link[c] = "open" /\ filter \in filters
             THEN Activate(list, <<FdOf(c), filter>>) ELSE list
<1>1. ActivatedFor(c, filters) = woken(woken(ready, "READ"), "WRITE")
  BY DEF ActivatedFor
<1>2. ASSUME NEW list \in Seq(Knotes), NEW filter \in Filters
      PROVE  /\ woken(list, filter) \in Seq(Knotes)
             /\ ToSet(woken(list, filter)) =
                  IF link[c] = "open" /\ filter \in filters
                  THEN ToSet(list) \cup {<<FdOf(c), filter>>} ELSE ToSet(list)
  <2>1. CASE link[c] = "open" /\ filter \in filters
    <3>1. <<FdOf(c), filter>> \in Knotes
      BY <2>1, SlotOfOpen DEF Knotes
    <3> QED
      BY <2>1, <3>1, ActivateProperties
  <2>2. CASE ~(link[c] = "open" /\ filter \in filters)
    BY <2>2
  <2> QED
    BY <2>1, <2>2
<1> HIDE DEF woken
<1>3. "READ" \in Filters /\ "WRITE" \in Filters /\ Filters = {"READ", "WRITE"}
  BY DEF Filters
<1>4. PICK mid : mid = woken(ready, "READ")
  OBVIOUS
<1>5. /\ mid \in Seq(Knotes)
      /\ ToSet(mid) = IF link[c] = "open" /\ "READ" \in filters
                      THEN ToSet(ready) \cup {<<FdOf(c), "READ">>} ELSE ToSet(ready)
  BY <1>2, <1>3, <1>4
<1>6. /\ ActivatedFor(c, filters) \in Seq(Knotes)
      /\ ToSet(ActivatedFor(c, filters)) =
           IF link[c] = "open" /\ "WRITE" \in filters
           THEN ToSet(mid) \cup {<<FdOf(c), "WRITE">>} ELSE ToSet(mid)
  BY <1>1, <1>2, <1>3, <1>4, <1>5
<1>7. \A knote \in ToSet(ActivatedFor(c, filters)) \ ToSet(ready) :
        link[c] = "open" /\ knote \in {<<FdOf(c), "READ">>, <<FdOf(c), "WRITE">>}
  BY <1>5, <1>6
<1> QED
  BY <1>3, <1>5, <1>6, <1>7

(* What changes at the socket of one client is announced.                  *)
LEMMA SocketChangeKeepsEvents ==
  ASSUME SlotInv, EventInv, NEW c \in Clients, NEW filters, ready' = ActivatedFor(c, filters),
         UNCHANGED <<link, backlog, pc, running, events, pos, conns, curr_cap>>,
         UNCHANGED <<stored, closing>>,
         recv' \in [Clients -> Seq(Lines)], sent' \in [Clients -> Nat],
         fin' \subseteq Clients, hup' \subseteq Clients, full' \subseteq Clients,
         \A d \in Clients \ {c} : recv'[d] = recv[d],
         \A d \in Clients \ {c} : (d \in fin' <=> d \in fin) /\ (d \in hup' <=> d \in hup)
                                  /\ (d \in full' <=> d \in full),
         "READ" \in filters \/ UNCHANGED <<recv, fin, hup>>,
         "WRITE" \in filters \/ UNCHANGED <<hup, full>>
  PROVE  EventInv'
<1>1. ready \in Seq(Knotes) /\ conns \in [Fds -> Clients \cup {NoClient}]
  BY DEF EventInv, TypeOK
<1>2. /\ ready' \in Seq(Knotes) /\ ToSet(ready) \subseteq ToSet(ready')
      /\ \A knote \in ToSet(ready') \ ToSet(ready) : link[c] = "open" /\ knote[1] = FdOf(c)
      /\ link[c] = "open" =>
           \A filter \in filters \cap Filters : <<FdOf(c), filter>> \in ToSet(ready')
  BY <1>1, ActivatedForProperties
<1>3. Pending' = Pending
  BY DEF Pending
<1>4. TypeOK' /\ Between' /\ ListenerDue'
  BY <1>2 DEF EventInv, TypeOK, Between, ListenerDue
<1>5. NoOrphanFilter'
  BY <1>2, SlotOfOpen, ClientAssumption DEF EventInv, NoOrphanFilter
<1>6. ASSUME NEW fd \in Fds, conns[fd] # NoClient
      PROVE  Due(fd)'
  <2>1. Due(fd) /\ conns[fd] \in Clients
    BY <1>1, <1>6 DEF EventInv
  <2>2. \A filter \in Filters : Listed(fd, filter) => Listed(fd, filter)'
    BY <1>2, <1>3 DEF Listed
  <2>3. HangupDue(fd) => HangupDue(fd)'
    BY <1>2, <1>3 DEF HangupDue
  <2>4. CASE conns[fd] # c
    <3>1. Unseen(conns[fd])' <=> Unseen(conns[fd])
      BY <2>1, <2>4 DEF Unseen, Readable
    <3>2. Unsent(conns[fd])' <=> Unsent(conns[fd])
      BY <2>1, <2>4 DEF Unsent
    <3> QED
      BY <2>1, <2>2, <2>3, <2>4, <3>1, <3>2 DEF Due, Filters
  <2>5. CASE conns[fd] = c
    <3>1. link[c] = "open"
      BY <2>5 DEF SlotInv, TableMatchesSockets
    <3>2. fd = FdOf(c)
      BY <2>5, <3>1, SlotOfOpen
    <3>3. Unseen(conns[fd])' => Listed(fd, "READ")'
      <4>1. CASE "READ" \in filters
        BY <1>2, <3>1, <3>2, <4>1 DEF Listed, Filters
      <4>2. CASE UNCHANGED <<recv, fin, hup>>
        <5>1. Unseen(conns[fd])' <=> Unseen(conns[fd])
          BY <4>2 DEF Unseen, Readable
        <5> QED
          BY <1>6, <2>1, <2>2, <5>1 DEF Due, Filters
      <4> QED
        BY <4>1, <4>2
    <3>4. ASSUME "WRITE" \in filters
          PROVE  HangupDue(fd)' /\ Listed(fd, "WRITE")'
      BY <1>2, <3>1, <3>2, <3>4 DEF HangupDue, Listed, Filters
    <3>5. ASSUME UNCHANGED <<hup, full>>
          PROVE  /\ conns[fd] \in hup' => HangupDue(fd)'
                 /\ Unsent(conns[fd])' => Listed(fd, "WRITE")'
      <4>1. Unsent(conns[fd])' <=> Unsent(conns[fd])
        BY <3>5 DEF Unsent
      <4> QED
        BY <1>6, <2>1, <2>2, <2>3, <3>5, <4>1 DEF Due, Filters
    <3> QED
      BY <3>3, <3>4, <3>5 DEF Due
  <2> QED
    BY <2>4, <2>5
<1>7. \A fd \in Fds : Due(fd)'
  BY <1>6 DEF Due
<1> QED
  BY <1>4, <1>5, <1>7 DEF EventInv

LEMMA PeerKeepsEvents ==
  ASSUME SlotInv, EventInv, NEW c \in Clients,
         (\E line \in Lines : Send(c, line)) \/ HalfClose(c) \/ Disconnect(c) \/ Take(c)
  PROVE  EventInv'
<1>1. /\ recv \in [Clients -> Seq(Lines)] /\ sent \in [Clients -> Nat]
      /\ fin \subseteq Clients /\ hup \subseteq Clients /\ full \subseteq Clients
  BY DEF EventInv, TypeOK
<1>2. ASSUME NEW line \in Lines, Send(c, line)
      PROVE  EventInv'
  <2>1. /\ recv' = [recv EXCEPT ![c] = Append(@, line)]
        /\ sent' = [sent EXCEPT ![c] = IF c \in Endless THEN 1 ELSE @ + 1]
        /\ ready' = ActivatedFor(c, {"READ"})
        /\ UNCHANGED <<link, fin, hup, backlog, pc, running, events, pos, conns, curr_cap,
                       full, stored, closing>>
    BY <1>2 DEF Send, serverVars, outVars
  <2>2. recv' \in [Clients -> Seq(Lines)]
    <3>1. Append(recv[c], line) \in Seq(Lines)
      BY <1>1, <1>2, AppendProperties
    <3> QED
      BY <1>1, <2>1, <3>1
  <2>4. sent' \in [Clients -> Nat]
    <3>1. sent[c] \in Nat
      BY <1>1
    <3> QED
      BY <1>1, <2>1, <3>1
  <2>3. \A d \in Clients \ {c} : recv'[d] = recv[d]
    BY <1>1, <2>1
  <2> QED
    BY <1>1, <2>1, <2>2, <2>3, <2>4, SocketChangeKeepsEvents
<1>3. CASE HalfClose(c)
  <2>1. /\ fin' = fin \cup {c} /\ ready' = ActivatedFor(c, {"READ"})
        /\ UNCHANGED <<link, recv, sent, hup, backlog, pc, running, events, pos, conns, curr_cap,
                       full, stored, closing>>
    BY <1>3 DEF HalfClose, serverVars, outVars
  <2> QED
    BY <1>1, <2>1, SocketChangeKeepsEvents
<1>4. CASE Disconnect(c)
  <2>1. /\ hup' = hup \cup {c} /\ ready' = ActivatedFor(c, {"READ", "WRITE"})
        /\ UNCHANGED <<link, recv, sent, fin, backlog, pc, running, events, pos, conns, curr_cap,
                       full, stored, closing>>
    BY <1>4 DEF Disconnect, serverVars, outVars
  <2> QED
    BY <1>1, <2>1, SocketChangeKeepsEvents
<1>5. CASE Take(c)
  <2>1. /\ full' = full \ {c} /\ ready' = ActivatedFor(c, {"WRITE"})
        /\ UNCHANGED <<link, recv, sent, fin, hup, backlog, pc, running, events, pos, conns,
                       curr_cap, stored, closing>>
    BY <1>5 DEF Take, netVars, serverVars
  <2> QED
    BY <1>1, <2>1, SocketChangeKeepsEvents
<1> QED
  BY <1>2, <1>3, <1>4, <1>5

LEMMA ConnectKeepsEvents ==
  ASSUME SlotInv, EventInv, NEW c \in Clients, Connect(c)
  PROVE  EventInv'
<1>1. /\ link' = [link EXCEPT ![c] = "backlog"] /\ backlog' = Append(backlog, c)
      /\ ready' = IF pc = "arm" THEN ready ELSE Activate(ready, <<Listener, "READ">>)
      /\ pc \notin {"start", "done"}
      /\ UNCHANGED <<recv, sent, fin, hup, pc, running, events, pos, conns, curr_cap,
                     full, stored, closing>>
  BY DEF Connect, serverVars, outVars
<1>2. ready \in Seq(Knotes) /\ backlog \in Seq(Clients) /\ <<Listener, "READ">> \in Knotes
  BY DEF EventInv, TypeOK, Knotes
<1>3. /\ ready' \in Seq(Knotes)
      /\ pc = "arm" => ready' = ready
      /\ pc # "arm" => ToSet(ready') = ToSet(ready) \cup {<<Listener, "READ">>}
  BY <1>1, <1>2, ActivateProperties
<1>4. TypeOK'
  BY <1>1, <1>2, <1>3, AppendProperties DEF EventInv, TypeOK
<1>5. NoOrphanFilter'
  <2>1. \A knote \in ToSet(ready') : knote[1] # Listener => knote \in ToSet(ready)
    BY <1>3
  <2> QED
    BY <1>1, <2>1 DEF EventInv, NoOrphanFilter
<1>6. Pending' = Pending /\ ToSet(ready) \subseteq ToSet(ready')
  BY <1>1, <1>3 DEF Pending
<1>7. \A fd \in Fds : Due(fd)'
  BY <1>1, <1>6 DEF EventInv, Due, Unseen, Unsent, Readable, Listed, HangupDue
<1>8. ListenerDue' /\ Between'
  BY <1>1, <1>3 DEF EventInv, ListenerDue, Between
<1> QED
  BY <1>4, <1>5, <1>7, <1>8 DEF EventInv

(* A connection is accepted with both its filters armed, whatever came     *)
(* before it was (server.c:44).                                            *)
LEMMA AcceptKeepsEvents ==
  ASSUME SlotInv, SlotInv', EventInv, Accept
  PROVE  EventInv'
<1>0. PICK c, fd : c = Head(backlog) /\ fd = LowestFree
  OBVIOUS
<1>1. /\ backlog # <<>> /\ backlog' = Tail(backlog)
      /\ link' = [link EXCEPT ![c] = "open"]
      /\ conns' = [conns EXCEPT ![fd] = c]
      /\ ready' = Registered(ready, fd, c)
      /\ UNCHANGED <<recv, sent, fin, hup, pc, running, events, pos, full, stored, closing>>
      /\ pc = "dispatch"
  BY <1>0 DEF Accept, Accepting, Dispatching, outVars
<1>2. fd \in Fds /\ conns[fd] = NoClient
  BY <1>0, LowestFreeIsFree DEF Accept
<1>3. /\ conns' \in [Fds -> Clients \cup {NoClient}] /\ conns'[fd] = c
      /\ \A other \in Fds \ {fd} : conns'[other] = conns[other]
  BY <1>1, <1>2 DEF SlotInv, SlotTypes
<1>4. /\ ready' \in Seq(Knotes)
      /\ ToSet(ready') = ToSet(ready) \cup {<<fd, "WRITE">>}
                         \cup (IF Readable(c) THEN {<<fd, "READ">>} ELSE {})
  <2>1. ready \in Seq(Knotes) /\ <<fd, "READ">> \in Knotes /\ <<fd, "WRITE">> \in Knotes
    BY <1>2 DEF EventInv, TypeOK, Knotes, Filters
  <2>2. PICK mid : mid = IF Readable(c) THEN Activate(ready, <<fd, "READ">>) ELSE ready
    OBVIOUS
  <2>3. /\ mid \in Seq(Knotes)
        /\ ToSet(mid) = ToSet(ready) \cup (IF Readable(c) THEN {<<fd, "READ">>} ELSE {})
    BY <2>1, <2>2, ActivateProperties
  <2>4. ready' = Activate(mid, <<fd, "WRITE">>)
    BY <1>1, <2>2 DEF Registered
  <2> QED
    BY <2>1, <2>3, <2>4, ActivateProperties
<1>5. TypeOK'
  BY <1>1, <1>4 DEF EventInv, TypeOK, SlotInv, SlotTypes, Waiting
<1>6. Pending' = Pending
  BY <1>1 DEF Pending
<1>7. NoOrphanFilter'
  <2> SUFFICES ASSUME NEW knote \in ToSet(ready'), knote[1] # Listener
               PROVE  conns'[knote[1]] # NoClient
    BY DEF NoOrphanFilter
  <2>1. knote \in Fds \X Filters
    <3>1. knote \in Knotes
      BY <1>4, SeqElements
    <3> QED
      BY <3>1 DEF Knotes
  <2>2. c # NoClient
    <3>1. c \in Clients
      BY <1>0, <1>1, HeadAccepted
    <3> QED
      BY <3>1, ClientAssumption
  <2>3. CASE knote \in ToSet(ready)
    BY <1>2, <1>3, <2>1, <2>2, <2>3 DEF EventInv, NoOrphanFilter
  <2>4. CASE knote \in {<<fd, "WRITE">>, <<fd, "READ">>}
    BY <1>3, <2>2, <2>4
  <2> QED
    BY <1>4, <2>3, <2>4
<1>8. ASSUME NEW other \in Fds
      PROVE  Due(other)'
  <2>1. CASE other = fd
    <3>1. Readable(c)' <=> Readable(c)
      BY <1>1 DEF Readable
    <3> QED
      BY <1>3, <1>4, <2>1, <3>1 DEF Due, Unseen, Listed, HangupDue
  <2>2. CASE other # fd
    <3>1. Due(other) /\ conns'[other] = conns[other]
      BY <1>3, <2>2 DEF EventInv
    <3>2. /\ Listed(other, "READ") => Listed(other, "READ")'
          /\ Listed(other, "WRITE") => Listed(other, "WRITE")'
      BY <1>4, <1>6 DEF Listed
    <3>3. HangupDue(other) => HangupDue(other)'
      BY <1>4, <1>6 DEF HangupDue
    <3> QED
      BY <1>1, <3>1, <3>2, <3>3 DEF Due, Unseen, Unsent, Readable
  <2> QED
    BY <2>1, <2>2
<1>9. ListenerDue' /\ Between'
  BY <1>1, <1>4 DEF EventInv, ListenerDue, Between
<1> QED
  BY <1>5, <1>7, <1>8, <1>9 DEF EventInv

LEMMA RefuseKeepsEvents ==
  ASSUME SlotInv, SlotInv', EventInv, Refuse
  PROVE  EventInv'
<1>1. /\ backlog # <<>> /\ pc = "dispatch"
      /\ UNCHANGED <<recv, sent, fin, hup, ready, pc, running, events, pos, conns,
                     full, stored, closing>>
  BY DEF Refuse, Accepting, Dispatching, outVars
<1>2. Pending' = Pending
  BY <1>1 DEF Pending
<1>3. TypeOK'
  BY <1>1 DEF EventInv, TypeOK, SlotInv, SlotTypes, Waiting
<1>4. \A fd \in Fds : Due(fd)'
  BY <1>1, <1>2 DEF EventInv, Due, Unseen, Unsent, Readable, Listed, HangupDue
<1> QED
  BY <1>1, <1>3, <1>4 DEF EventInv, NoOrphanFilter, ListenerDue, Between

-----------------------------------------------------------------------------
(* Steps of the loop *)

LEMMA EventOfType ==
  ASSUME NEW knote \in Knotes
  PROVE  /\ EventOf(knote) \in Event
         /\ EventOf(knote).ident = knote[1] /\ EventOf(knote).filter = knote[2]
<1>1. knote[1] \in Fds \cup {Listener} /\ knote[2] \in Filters
  BY DEF Knotes, Filters
<1>2. PICK over \in BOOLEAN :
        over = (knote[1] # Listener /\ (\/ Holder(knote[1]) \in hup
                                        \/ knote[2] = "READ" /\ Holder(knote[1]) \in fin))
  OBVIOUS
<1>3. EventOf(knote) = [ident |-> knote[1], filter |-> knote[2], eof |-> over]
  BY <1>2 DEF EventOf
<1> QED
  BY <1>1, <1>3 DEF Event

(* Every active filter whose condition holds is in the batch or still       *)
(* listed, and the listening filter is listed in either case.              *)
LEMMA Delivered ==
  ASSUME EventInv, Deliver
  PROVE  /\ ready' \in Seq(Knotes) /\ events' \in Seq(Event)
         /\ \A knote \in ToSet(ready') : knote \in ToSet(ready) /\ Holds(knote)
         /\ \A knote \in ToSet(ready) : Holds(knote) =>
              \/ knote \in ToSet(ready')
              \/ knote[1] # Listener /\ \E event \in Pending' : event = EventOf(knote)
<1>1. PICK live, n, batch :
        /\ live = Live
        /\ n = IF Len(live) < MAX_EVENTS THEN Len(live) ELSE MAX_EVENTS
        /\ batch = SubSeq(live, 1, n)
  OBVIOUS
<1>2. /\ events' = [i \in 1 .. n |-> EventOf(batch[i])]
      /\ ready' = SubSeq(live, n + 1, Len(live)) \o Relisted(batch)
      /\ pos' = 1
  BY <1>1 DEF Deliver
<1>3. ready \in Seq(Knotes) /\ ToSet(ready) \subseteq Knotes
  BY SeqElements DEF EventInv, TypeOK
<1>4. /\ live \in Seq(Knotes)
      /\ \A knote : knote \in ToSet(live) <=> knote \in ToSet(ready) /\ Holds(knote)
  BY <1>1, <1>3, AmongProperties DEF Live
<1>5. n \in 0 .. Len(live) /\ n \in Nat
  BY <1>1, <1>4, LenProperties, CapacityAssumption
<1>6. /\ batch \in Seq(Knotes) /\ Len(batch) = n
      /\ SubSeq(live, n + 1, Len(live)) \in Seq(Knotes)
      /\ ToSet(live) = ToSet(batch) \cup ToSet(SubSeq(live, n + 1, Len(live)))
  BY <1>1, <1>4, <1>5, CutElements, PrefixProperties, SuffixProperties
<1>7. /\ Relisted(batch) \in Seq(Knotes)
      /\ ToSet(Relisted(batch)) = ToSet(batch) \cap {<<Listener, "READ">>}
  BY <1>6, AmongProperties DEF Relisted
<1>8. /\ ready' \in Seq(Knotes)
      /\ ToSet(ready') = ToSet(SubSeq(live, n + 1, Len(live))) \cup ToSet(Relisted(batch))
  <2>1. PICK rest, again : rest = SubSeq(live, n + 1, Len(live)) /\ again = Relisted(batch)
    OBVIOUS
  <2>2. rest \o again \in Seq(Knotes) /\ ToSet(rest \o again) = ToSet(rest) \cup ToSet(again)
    <3>1. rest \in Seq(Knotes) /\ again \in Seq(Knotes)
      BY <1>6, <1>7, <2>1
    <3> QED
      BY <3>1, ConcatElements, Zenon
  <2> QED
    BY <1>2, <2>1, <2>2
<1>9. /\ ToSet(batch) = {batch[i] : i \in 1 .. n}
      /\ \A i \in 1 .. n : batch[i] \in Knotes
  BY <1>6, SeqElements
<1>10. events' \in Seq(Event) /\ Len(events') = n
  <2>1. \A i \in 1 .. n : EventOf(batch[i]) \in Event
    BY <1>9, EventOfType
  <2>2. events' \in [1 .. n -> Event]
    BY <1>2, <2>1
  <2>3. events' \in Seq(Event)
    BY <1>5, <2>2, SeqDef
  <2> QED
    BY <1>5, <2>2, <2>3, LenProperties
<1>11. Pending' = {EventOf(batch[i]) : i \in 1 .. n}
  <2>1. Pending' = {events'[i] : i \in 1 .. n}
    BY <1>2, <1>10 DEF Pending
  <2> QED
    BY <1>2, <2>1
<1>12. ASSUME NEW knote \in ToSet(ready), Holds(knote)
       PROVE  \/ knote \in ToSet(ready')
              \/ knote[1] # Listener /\ \E event \in Pending' : event = EventOf(knote)
  <2>1. CASE knote \in ToSet(SubSeq(live, n + 1, Len(live)))
    BY <1>8, <2>1
  <2>2. CASE knote \in ToSet(batch)
    <3>1. CASE knote[1] = Listener
      <4>1. knote = <<Listener, "READ">>
        BY <1>3, <3>1, FdAssumption DEF Knotes
      <4> QED
        BY <1>7, <1>8, <2>2, <4>1
    <3>2. CASE knote[1] # Listener
      BY <1>9, <1>11, <2>2, <3>2
    <3> QED
      BY <3>1, <3>2
  <2> QED
    BY <1>4, <1>6, <1>12, <2>1, <2>2
<1>13. \A knote \in ToSet(ready') : knote \in ToSet(ready) /\ Holds(knote)
  BY <1>4, <1>6, <1>7, <1>8
<1> QED
  BY <1>8, <1>10, <1>12, <1>13

LEMMA KeventKeepsEvents ==
  ASSUME EventInv, Kevent
  PROVE  EventInv'
<1>1. /\ pc \in {"enter", "asleep"} /\ Deliver /\ pos' = 1 /\ pc' = "dispatch"
      /\ UNCHANGED <<link, recv, sent, fin, hup, backlog, running, conns, curr_cap,
                     full, stored, closing>>
  BY DEF Kevent, Deliver, netVars, outVars
<1>2. /\ ready' \in Seq(Knotes) /\ events' \in Seq(Event)
      /\ \A knote \in ToSet(ready') : knote \in ToSet(ready) /\ Holds(knote)
      /\ \A knote \in ToSet(ready) : Holds(knote) =>
           \/ knote \in ToSet(ready')
           \/ knote[1] # Listener /\ \E event \in Pending' : event = EventOf(knote)
  BY <1>1, Delivered
<1>3. Pending = {}
  <2>1. events = <<>> /\ pos \in Nat \ {0}
    BY <1>1 DEF EventInv, Between, TypeOK
  <2> QED
    BY <2>1 DEF Pending
<1>4. TypeOK' /\ Between'
  <2>1. TypeOK
    BY DEF EventInv
  <2>2. pos' \in Nat \ {0} /\ pc' = "dispatch"
    BY <1>1
  <2>3. TypeOK'
    BY ONLY <1>1, <1>2, <2>1, <2>2 DEF TypeOK
  <2>4. Between'
    BY ONLY <2>2 DEF Between
  <2> QED
    BY <2>3, <2>4
<1>5. NoOrphanFilter'
  BY <1>1, <1>2 DEF EventInv, NoOrphanFilter
<1>6. ASSUME NEW fd \in Fds, conns[fd] # NoClient
      PROVE  Due(fd)'
  <2>1. Due(fd) /\ fd # Listener
    BY FdAssumption DEF EventInv
  <2>2. /\ Unseen(conns[fd])' <=> Unseen(conns[fd])
        /\ Unsent(conns[fd])' <=> Unsent(conns[fd])
    BY <1>1 DEF Unseen, Unsent, Readable
  <2>3. ASSUME Unseen(conns[fd]) PROVE Listed(fd, "READ")'
    <3>1. <<fd, "READ">> \in ToSet(ready)
      BY <1>3, <1>6, <2>1, <2>3 DEF Due, Listed
    <3>2. Holds(<<fd, "READ">>)
      BY <1>6, <2>1, <2>3 DEF Holds, Holder, Unseen
    <3>3. <<fd, "READ">> \in Knotes
      BY DEF Knotes, Filters
    <3>4. EventOf(<<fd, "READ">>).ident = fd /\ EventOf(<<fd, "READ">>).filter = "READ"
      BY <3>3, EventOfType
    <3> QED
      BY <1>2, <3>1, <3>2, <3>4 DEF Listed
  <2>4. ASSUME conns[fd] \in hup PROVE HangupDue(fd)'
    <3>1. <<fd, "WRITE">> \in ToSet(ready)
      BY <1>3, <1>6, <2>1, <2>4 DEF Due, HangupDue
    <3>2. Holds(<<fd, "WRITE">>)
      BY <1>6, <2>1, <2>4 DEF Holds, Holder, Writable
    <3>3. EventOf(<<fd, "WRITE">>) = [ident |-> fd, filter |-> "WRITE", eof |-> TRUE]
      BY <2>1, <2>4 DEF EventOf, Holder
    <3> QED
      BY <1>2, <3>1, <3>2, <3>3 DEF HangupDue
  <2>5. ASSUME Unsent(conns[fd]) PROVE Listed(fd, "WRITE")'
    <3>1. <<fd, "WRITE">> \in ToSet(ready)
      BY <1>3, <1>6, <2>1, <2>5 DEF Due, Listed
    <3>2. Holds(<<fd, "WRITE">>)
      BY <1>6, <2>1, <2>5 DEF Holds, Holder, Writable, Unsent
    <3>3. <<fd, "WRITE">> \in Knotes
      BY DEF Knotes, Filters
    <3>4. EventOf(<<fd, "WRITE">>).ident = fd /\ EventOf(<<fd, "WRITE">>).filter = "WRITE"
      BY <3>3, EventOfType
    <3> QED
      BY <1>2, <3>1, <3>2, <3>4 DEF Listed
  <2> QED
    BY <1>1, <2>2, <2>3, <2>4, <2>5 DEF Due
<1>7. \A fd \in Fds : Due(fd)'
  BY <1>1, <1>6 DEF Due
<1>8. ListenerDue'
  <2> SUFFICES ASSUME backlog # <<>> PROVE <<Listener, "READ">> \in ToSet(ready')
    BY <1>1 DEF ListenerDue
  <2>1. <<Listener, "READ">> \in ToSet(ready)
    BY <1>1 DEF EventInv, ListenerDue
  <2>2. Holds(<<Listener, "READ">>)
    BY DEF Holds
  <2> QED
    BY <1>2, <2>1, <2>2
<1> QED
  BY <1>4, <1>5, <1>7, <1>8 DEF EventInv

LEMMA EndBatchKeepsEvents ==
  ASSUME EventInv, EndBatch
  PROVE  EventInv'
<1>1. /\ pos > Len(events) /\ pc' = "test" /\ events' = <<>> /\ pos' = 1 /\ pc = "dispatch"
      /\ UNCHANGED <<link, recv, sent, fin, hup, backlog, ready, running, conns, curr_cap,
                     full, stored, closing>>
  BY DEF EndBatch, netVars, outVars
<1>2. Pending = {} /\ Pending' = {}
  <2>1. pos \in Nat /\ Len(events) \in Nat
    BY LenProperties DEF EventInv, TypeOK
  <2>2. pos .. Len(events) = {}
    BY <1>1, <2>1
  <2> QED
    BY <1>1, <2>2 DEF Pending
<1>3. TypeOK' /\ Between' /\ ListenerDue' /\ NoOrphanFilter'
  BY <1>1, EmptySeq DEF EventInv, TypeOK, Between, ListenerDue, NoOrphanFilter
<1>4. \A fd \in Fds : Due(fd)'
  BY <1>1, <1>2 DEF EventInv, Due, Unseen, Unsent, Readable, Listed, HangupDue
<1> QED
  BY <1>3, <1>4 DEF EventInv

(* Registering the listening socket announces who is already waiting.      *)
LEMMA ArmKeepsEvents ==
  ASSUME SlotInv, EventInv, Arm
  PROVE  EventInv'
<1>1. /\ pc = "arm" /\ ready' = Armed /\ pc' = "test"
      /\ UNCHANGED <<link, recv, sent, fin, hup, backlog, running, events, pos, conns, curr_cap,
                     full, stored, closing>>
  BY DEF Arm, netVars, serverVars, outVars
<1>2. \A fd \in Fds : conns[fd] = NoClient
  BY <1>1 DEF SlotInv, EmptyBefore
<1>3. <<>> \in Seq(Knotes) /\ Len(<<>>) = 0 /\ <<Listener, "READ">> \in Knotes
  BY EmptySeq DEF Knotes
<1>4. << <<Listener, "READ">> >> \in Seq(Knotes) /\ ToSet(<< <<Listener, "READ">> >>) = {<<Listener, "READ">>}
  BY <1>3 DEF ToSet
<1>5. ToSet(<<>>) = {}
  BY DEF ToSet
<1>6. TypeOK' /\ Between'
  BY <1>1, <1>3, <1>4 DEF EventInv, TypeOK, Between, Armed
<1>7. NoOrphanFilter' /\ ListenerDue'
  BY <1>1, <1>4, <1>5 DEF NoOrphanFilter, ListenerDue, Armed
<1>8. \A fd \in Fds : Due(fd)'
  BY <1>1, <1>2 DEF Due
<1> QED
  BY <1>6, <1>7, <1>8 DEF EventInv

(* Steps that touch neither the filters nor the batch.                     *)
LEMMA QuietStepKeepsEvents ==
  ASSUME EventInv,
         UNCHANGED <<recv, sent, fin, hup, ready, events, pos, conns, curr_cap,
                     full, stored, closing>>,
         link' \in [Clients -> {"away", "backlog", "open", "closed", "refused"}],
         running' \in BOOLEAN,
         backlog' \in {backlog, <<>>},
         pc' \in {"start", "arm", "test", "enter", "asleep", "dispatch", "close", "done"},
         pc' = "arm" \/ pc # "arm" \/ backlog' = <<>>,
         pc' = "dispatch" <=> pc = "dispatch",
         pc' = "start" => pc = "start"
  PROVE  EventInv'
<1>1. TypeOK' /\ NoOrphanFilter' /\ ListenerDue' /\ Between'
  BY EmptySeq DEF EventInv, TypeOK, NoOrphanFilter, ListenerDue, Between
<1>2. Pending' = Pending
  BY DEF Pending
<1>3. \A fd \in Fds : Due(fd)'
  BY <1>2 DEF EventInv, Due, Unseen, Unsent, Readable, Listed, HangupDue
<1> QED
  BY <1>1, <1>3 DEF EventInv

LEMMA ExitKeepsEvents ==
  ASSUME SlotInv, SlotInv', EventInv, Exit
  PROVE  EventInv'
<1>1. /\ ready' = <<>> /\ backlog' = <<>> /\ pc' = "done" /\ pc = "close"
      /\ UNCHANGED <<recv, sent, fin, hup, running, events, pos, conns, curr_cap,
                     full, stored, closing>>
  BY DEF Exit, BacklogDropped, serverVars, outVars
<1>2. \A fd \in Fds : conns'[fd] = NoClient
  BY <1>1 DEF Exit, Usable, SlotInv, TableMatchesSockets
<1>3. <<>> \in Seq(Knotes) /\ <<>> \in Seq(Clients) /\ ToSet(<<>>) = {}
  BY EmptySeq DEF ToSet
<1>4. TypeOK' /\ Between' /\ ListenerDue' /\ NoOrphanFilter'
  BY <1>1, <1>3 DEF EventInv, TypeOK, Between, ListenerDue, NoOrphanFilter, SlotInv, SlotTypes
<1>5. \A fd \in Fds : Due(fd)'
  BY <1>2 DEF Due
<1> QED
  BY <1>4, <1>5 DEF EventInv

(* communicate() takes a line off the receive queue.                       *)
LEMMA PoppedTypes ==
  ASSUME EventInv, NEW line, AtLine(line), recv' = Popped
  PROVE  /\ Self \in Clients
         /\ recv' \in [Clients -> Seq(Lines)]
         /\ \A c \in Clients : recv'[c] # <<>> => recv[c] # <<>>
<1>1. recv[Self] # <<>> /\ recv' = [recv EXCEPT ![Self] = Tail(@)]
  BY DEF AtLine, Popped
<1>2. Self \in Clients
  BY DEF AtLine, Reading, Handling, Usable, Self, EventInv, TypeOK
<1>3. recv \in [Clients -> Seq(Lines)] /\ Tail(recv[Self]) \in Seq(Lines)
  <2>1. recv \in [Clients -> Seq(Lines)]
    BY DEF EventInv, TypeOK
  <2> QED
    BY <1>1, <1>2, <2>1, HeadTailProperties
<1> QED
  BY <1>1, <1>2, <1>3

LEMMA ReadLineKeepsEvents ==
  ASSUME EventInv, ReadLine
  PROVE  EventInv'
<1>1. /\ AtLine("order") /\ recv' = Popped
      /\ UNCHANGED <<link, sent, fin, hup, backlog, ready, pc, running, events, pos, conns,
                     curr_cap, closing>>
  BY DEF ReadLine, serverVars
<1>2. PICK kept \in SUBSET Clients :
        stored' = stored \cup kept /\ full' = full \cup (kept \ stored)
  BY DEF ReadLine, Told, Output
<1>3. recv' \in [Clients -> Seq(Lines)] /\ \A c \in Clients : recv'[c] # <<>> => recv[c] # <<>>
  BY <1>1, PoppedTypes
<1>4. full' \subseteq Clients /\ stored' \subseteq Clients /\ closing' \subseteq Clients
  BY <1>1, <1>2 DEF EventInv, TypeOK
<1>5. \A c \in Clients : (Unseen(c)' => Unseen(c)) /\ (Unsent(c)' => Unsent(c))
  BY <1>1, <1>2, <1>3 DEF Unseen, Unsent, Readable
<1> QED
  BY <1>1, <1>3, <1>4, <1>5, HandlerKeepsEvents

(* A QUIT whose OK is stored ends the reading of its connection.            *)
LEMMA ReadQuitStoredKeepsEvents ==
  ASSUME EventInv, ReadQuitStored
  PROVE  EventInv'
<1>1. /\ AtLine("QUIT") /\ recv' = Popped /\ pos' = pos + 1
      /\ closing' = closing \cup {Self}
      /\ stored' = stored \cup {Self} /\ full' = full \cup ({Self} \ stored)
      /\ UNCHANGED <<link, sent, fin, hup, backlog, ready, pc, running, events, conns, curr_cap>>
  BY DEF ReadQuitStored, Output
<1>2. /\ Self \in Clients /\ recv' \in [Clients -> Seq(Lines)]
      /\ \A c \in Clients : recv'[c] # <<>> => recv[c] # <<>>
  BY <1>1, PoppedTypes
<1>3. full' \subseteq Clients /\ stored' \subseteq Clients /\ closing' \subseteq Clients
  BY <1>1, <1>2 DEF EventInv, TypeOK
<1>4. \A c \in Clients : (Unseen(c)' => Unseen(c)) /\ (Unsent(c)' => Unsent(c))
  BY <1>1, <1>2 DEF Unseen, Unsent, Readable
<1>5. Dispatching /\ Ev.filter = "READ"
  BY <1>1 DEF AtLine, Reading, Handling
<1>6. \A fd \in Fds : Ev.ident = fd => ~Unseen(conns[fd])'
  BY <1>1 DEF Unseen, Self
<1> QED
  BY <1>1, <1>2, <1>3, <1>4, <1>5, <1>6, HandlerKeepsEvents

(* flushToClient writes all, or all there is room for.                     *)
LEMMA FlushKeepsEvents ==
  ASSUME EventInv, FlushAll \/ FlushSome
  PROVE  EventInv'
<1>1. /\ Dispatching /\ Ev.filter = "WRITE" /\ ~Ev.eof /\ pos' = pos + 1
      /\ UNCHANGED <<link, recv, sent, fin, hup, backlog, ready, pc, running, events, conns,
                     curr_cap, closing>>
  BY DEF FlushAll, FlushSome, Flushing, Handling, Disconnected, netVars
<1>2. Self \in Clients
  BY DEF FlushAll, FlushSome, Flushing, Handling, Usable, Self, EventInv, TypeOK
<1>3. \/ stored' = stored \ {Self} /\ full' = full
      \/ stored' = stored /\ full' = full \cup {Self}
  BY DEF FlushAll, FlushSome
<1>4. /\ recv' \in [Clients -> Seq(Lines)]
      /\ full' \subseteq Clients /\ stored' \subseteq Clients /\ closing' \subseteq Clients
  BY <1>1, <1>2, <1>3 DEF EventInv, TypeOK
<1>5. \A c \in Clients : (Unseen(c)' => Unseen(c)) /\ (Unsent(c)' => Unsent(c))
  BY <1>1, <1>3 DEF Unseen, Unsent, Readable
<1>6. \A fd \in Fds : Ev.ident = fd => ~Unsent(conns[fd])'
  BY <1>1, <1>3 DEF Unsent, Self
<1> QED
  BY <1>1, <1>4, <1>5, <1>6, HandlerKeepsEvents

-----------------------------------------------------------------------------
LEMMA NextKeepsEvents == SlotInv /\ SlotInv' /\ EventInv /\ [Next]_vars => EventInv'
<1> SUFFICES ASSUME SlotInv, SlotInv', EventInv, [Next]_vars PROVE EventInv'
  OBVIOUS
<1>1. CASE \E c \in Clients : Connect(c)
  BY <1>1, ConnectKeepsEvents
<1>2. CASE \E c \in Clients :
             (\E line \in Lines : Send(c, line)) \/ HalfClose(c) \/ Disconnect(c) \/ Take(c)
  BY <1>2, PeerKeepsEvents
<1>3. CASE Signal \/ Listen \/ Test \/ Sleep \/ KeventFails \/ UNCHANGED vars
  <2>1. UNCHANGED <<link, recv, sent, fin, hup, backlog, ready, events, pos, conns, curr_cap,
                    full, stored, closing>>
    BY <1>3 DEF Signal, Listen, Test, Sleep, KeventFails, vars, netVars, serverVars, outVars
  <2>2. /\ running' \in BOOLEAN
        /\ pc' \in {"start", "arm", "test", "enter", "asleep", "dispatch", "close", "done"}
        /\ pc' = "arm" \/ pc # "arm" \/ backlog' = <<>>
        /\ pc' = "dispatch" <=> pc = "dispatch"
        /\ pc' = "start" => pc = "start"
    BY <1>3 DEF Signal, Listen, Test, Sleep, KeventFails, vars, serverVars, EventInv, TypeOK
  <2> QED
    BY <2>1, <2>2, QuietStepKeepsEvents DEF EventInv, TypeOK
<1>4. CASE StartFails
  <2>1. /\ UNCHANGED <<recv, sent, fin, hup, ready, running, events, pos, conns, curr_cap,
                       full, stored, closing>>
        /\ backlog' = <<>> /\ pc \in {"start", "arm"} /\ pc' = "done"
    BY <1>4 DEF StartFails, BacklogDropped, serverVars, outVars
  <2>2. link' \in [Clients -> {"away", "backlog", "open", "closed", "refused"}]
    BY DEF SlotInv, SlotTypes
  <2> QED
    BY <2>1, <2>2, QuietStepKeepsEvents DEF EventInv, TypeOK
<1>5. CASE Arm
  BY <1>5, ArmKeepsEvents
<1>6. CASE Kevent
  BY <1>6, KeventKeepsEvents
<1>7. CASE EndBatch
  BY <1>7, EndBatchKeepsEvents
<1>8. CASE IgnoreEvent
  <2>1. \A fd \in Fds : Ev.ident = fd => conns[fd] = NoClient
    BY <1>8 DEF IgnoreEvent, Usable, SlotInv, TableMatchesSockets
  <2> QED
    BY <1>8, <2>1, PassKeepsEvents DEF IgnoreEvent
<1>9. CASE FlushAll \/ FlushSome
  BY <1>9, FlushKeepsEvents
<1>10. CASE EndRead
  <2>1. Ev.filter = "READ" /\ ~Unseen(conns[Ev.ident])
    BY <1>10 DEF EndRead, Unread, Drained, Self, Unseen
  <2> QED
    BY <1>10, <2>1, PassKeepsEvents DEF EndRead, Handling
<1>11. CASE EndAccept
  <2>1. Ev.ident \notin Fds
    BY <1>11, FdAssumption DEF EndAccept, Accepting
  <2> QED
    BY <1>11, <2>1, PassKeepsEvents DEF EndAccept, Accepting
<1>12. CASE HandleDisconnect \/ FlushEnds \/ LineFails \/ ReadQuitEnds \/ ReadOver
  <2>1. PICK kept \in SUBSET Clients :
          /\ Handling /\ RemoveClientAfter(Ev.ident, kept) /\ pos' = pos + 1 /\ pc' = pc
          /\ closing' = closing \/ closing' = closing \cup {conns[Ev.ident]}
    BY <1>12, EndingSteps DEF Self
  <2>2. Dispatching /\ Ev.ident \in Fds /\ conns[Ev.ident] # NoClient
    BY <2>1 DEF Handling, Usable
  <2> QED
    BY <2>1, <2>2, RemoveClientKeepsEvents
<1>13. CASE ReadLine
  BY <1>13, ReadLineKeepsEvents
<1>18. CASE ReadQuitStored
  BY <1>18, ReadQuitStoredKeepsEvents
<1>14. CASE Accept
  BY <1>14, AcceptKeepsEvents
<1>15. CASE Refuse
  BY <1>15, RefuseKeepsEvents
<1>16. CASE CloseSlot
  BY <1>16, RemoveClientKeepsEvents DEF CloseSlot, Usable, RemoveClient
<1>17. CASE Exit
  BY <1>17, ExitKeepsEvents
<1> QED
  BY <1>1, <1>2, <1>3, <1>4, <1>5, <1>6, <1>7, <1>8, <1>9, <1>10, <1>11, <1>12, <1>13,
     <1>14, <1>15, <1>16, <1>17, <1>18
  DEF Next, Server, Environment

LEMMA InitEvents == Init => EventInv
<1> SUFFICES ASSUME Init PROVE EventInv
  OBVIOUS
<1>1. \A S : <<>> \in Seq(S)
  BY EmptySeq
<1>2. ToSet(<<>>) = {}
  BY DEF ToSet
<1>3. TypeOK
  BY <1>1, CapacityAssumption DEF Init, TypeOK
<1>4. NoOrphanFilter /\ Between /\ ListenerDue /\ \A fd \in Fds : Due(fd)
  BY <1>2 DEF Init, NoOrphanFilter, Between, ListenerDue, Due
<1> QED
  BY <1>3, <1>4 DEF EventInv

LEMMA EventInvHolds == Spec => []EventInv
<1>1. Init => SlotInv /\ EventInv
  BY InitSlots, InitEvents
<1>2. SlotInv /\ EventInv /\ [Next]_vars => SlotInv' /\ EventInv'
  BY NextKeepsSlots, NextKeepsEvents
<1> QED
  BY <1>1, <1>2, PTL DEF Spec

(* Every variable of the loop keeps its type.                               *)
THEOREM EventLoopTypeOK == Spec => []TypeOK
<1>1. EventInv => TypeOK
  BY DEF EventInv
<1> QED
  BY <1>1, EventInvHolds, PTL

(* No edge is lost: what an edge-triggered filter announced once - input of *)
(* a connection that has not quit, a disconnection, room for stored output  *)
(* - is still listed, or in the batch, or has been dealt with to the end    *)
(* (server.c:74, io.c:17, 181, 184), for every batch length and failure.    *)
THEOREM NoLostEdgeHolds == Spec => []NoLostEdge
<1>1. EventInv => NoLostEdge
  <2> SUFFICES ASSUME EventInv PROVE NoLostEdge
    OBVIOUS
  <2>1. \A fd \in Fds : HangupDue(fd) => Listed(fd, "WRITE")
    BY DEF HangupDue, Listed
  <2> QED
    BY <2>1 DEF EventInv, Due, Unseen, Unsent, ListenerDue, NoLostEdge
<1> QED
  BY <1>1, EventInvHolds, PTL

(* Teardown takes the filters of a descriptor out of the kernel's list      *)
(* before the descriptor can be handed out again (io.c:96).                 *)
THEOREM NoOrphanFilterHolds == Spec => []NoOrphanFilter
<1>1. EventInv => NoOrphanFilter
  BY DEF EventInv
<1> QED
  BY <1>1, EventInvHolds, PTL
=============================================================================
