--------------------------- MODULE CommandProofs ---------------------------
(***************************************************************************)
(* What each command of the executable keeps, alone and as one of the      *)
(* commands: for any number of requests, lines, events, files, processes,  *)
(* kills and power losses.                                                 *)
(***************************************************************************)
EXTENDS Commands, FiniteSetTheorems, TLAPS

\* A step of the executable is a step of each component, or leaves it alone.
LEMMA CommandSteps ==
  [CommandsNext]_commandVars =>
    /\ [ClientNext]_clientVars /\ [RelayNext]_relayVars /\ [AdapterNext]_adapterVars
    /\ [PublishNext]_publishVars /\ [ServiceNext]_serviceVars
BY DEF CommandsNext, commandVars

-----------------------------------------------------------------------------
(* Nothing is executed after a request whose fate the caller does not know.*)

CallerType ==
  [state : {"opening", "idle", "waiting", "failed", "dropping", "dropped"},
   late : BOOLEAN, sender : BOOLEAN, issued : Int, doubted : SUBSET Int]
LinkType ==
  [ready : {"none", "ok", "failed"}, queue : Seq(Int),
   reply : {"none", "data", "protocol", "unavailable", "disconnected"}]
ReactorType ==
  [state : {"connecting", "ready", "calling", "closing", "gone", "killed"}, serving : Int]
ServiceType ==
  [session : {"none", "open", "confirmed", "deleted", "unreached"},
   wire : SUBSET Int, executed : Seq(Int)]

ClientType ==
  /\ caller \in CallerType /\ link \in LinkType /\ reactor \in ReactorType
  /\ service \in ServiceType

Seen == service.wire \cup ToSet(service.executed)
Dead == reactor.state \in {"closing", "gone", "killed"}

\* The caller waits for what it issued last, or can issue no more.
Awaited == (caller.state = "waiting" /\ link.reply = "none") \/ ~caller.sender

Queued ==
  /\ link.queue = <<>> \/ link.queue = <<caller.issued>>
  /\ link.queue # <<>> => Awaited /\ \A n \in Seen : n < caller.issued
  /\ \A n \in Seen : n <= caller.issued
  /\ caller.state = "waiting" => caller.sender

Served ==
  /\ reactor.state \in {"connecting", "ready"} => service.wire = {}
  /\ reactor.state = "calling" =>
       /\ service.wire \subseteq {reactor.serving} /\ reactor.serving = caller.issued
       /\ link.queue = <<>> /\ Awaited
  /\ link.reply \in {"unavailable", "disconnected"} => Dead

\* At most one command is on its way, and it is newer than the executed ones.
InOrder ==
  /\ \A i, j \in DOMAIN service.executed : i < j => service.executed[i] < service.executed[j]
  /\ \A e \in ToSet(service.executed), n \in service.wire : e < n
  /\ \A m, n \in service.wire : m = n

\* After a doubt the reactor takes nothing newer.
Doubts ==
  \A m \in caller.doubted :
    /\ \A n \in Seen : n <= m
    /\ Dead \/ (~caller.sender /\ m = caller.issued)

ClientInv == ClientType /\ Queued /\ Served /\ InOrder /\ Doubts

\* Nothing is issued at the beginning.
LEMMA ClientInitInv == ClientInit => ClientInv
<1> SUFFICES ASSUME ClientInit PROVE ClientInv
  OBVIOUS
<1>1. ClientType
  BY DEF ClientInit, ClientType, CallerType, LinkType, ReactorType, ServiceType
<1>2. ToSet(service.executed) = {} /\ service.wire = {} /\ service.executed = <<>>
  BY DEF ClientInit, ToSet
<1>3. Queued /\ Served /\ InOrder /\ Doubts
  BY <1>2 DEF ClientInit, Queued, Served, InOrder, Doubts, Seen, Awaited, Dead
<1>4. QED BY <1>1, <1>3 DEF ClientInv

\* What has been executed after one more command.
LEMMA ToSetAppend ==
  ASSUME NEW s \in Seq(Int), NEW n \in Int
  PROVE  /\ ToSet(Append(s, n)) = ToSet(s) \cup {n} /\ Append(s, n) \in Seq(Int)
         /\ DOMAIN s = 1..Len(s) /\ DOMAIN Append(s, n) = 1..(Len(s) + 1)
         /\ \A i \in 1..Len(s) : Append(s, n)[i] = s[i]
         /\ Append(s, n)[Len(s) + 1] = n
<1>1. /\ DOMAIN s = 1..Len(s) /\ DOMAIN Append(s, n) = 1..(Len(s) + 1) /\ Len(s) \in Nat
      /\ \A i \in 1..Len(s) : Append(s, n)[i] = s[i]
      /\ Append(s, n)[Len(s) + 1] = n /\ Append(s, n) \in Seq(Int)
  OBVIOUS
<1>2. 1..(Len(s) + 1) = 1..Len(s) \cup {Len(s) + 1}
  BY <1>1
<1>3. ToSet(Append(s, n)) = ToSet(s) \cup {n}
  BY <1>1, <1>2 DEF ToSet
<1>4. QED BY <1>1, <1>3

\* A step of the caller alone, which issues nothing.
LEMMA CallerOnly ==
  ASSUME ClientInv, UNCHANGED <<link, reactor, service>>,
         caller'.issued = caller.issued, caller'.state = "waiting" => caller'.sender,
         ~caller.sender => ~caller'.sender, Awaited => Awaited',
         \/ caller'.doubted = caller.doubted
         \/ caller'.doubted = caller.doubted \cup {caller.issued} /\ (Dead \/ ~caller'.sender)
  PROVE  Queued' /\ Served' /\ InOrder' /\ Doubts'
<1>1. Seen' = Seen /\ Dead' = Dead
  BY DEF Seen, Dead
<1>2. Queued' /\ Served' /\ InOrder'
  BY <1>1 DEF ClientInv, Queued, Served, InOrder
<1>3. ASSUME NEW m \in caller'.doubted
      PROVE  (\A n \in Seen : n <= m) /\ (Dead \/ (~caller'.sender /\ m = caller.issued))
  BY <1>3 DEF ClientInv, Queued, Doubts
<1>4. QED BY <1>1, <1>2, <1>3 DEF Doubts

\* Every step of client and service keeps the invariant.
LEMMA ClientStepInv == ClientInv /\ [ClientNext]_clientVars => ClientInv'
<1> SUFFICES ASSUME ClientInv, [ClientNext]_clientVars PROVE ClientInv'
  OBVIOUS
<1>0. /\ ClientType /\ caller \in CallerType /\ link \in LinkType /\ reactor \in ReactorType
      /\ service \in ServiceType
  BY DEF ClientInv, ClientType
<1>1. CASE OpenReturns
  <2>1. caller' \in CallerType /\ UNCHANGED <<link, reactor, service>>
    BY <1>0, <1>1 DEF OpenReturns, CallerTurns, CallerType
  <2>2. /\ caller'.issued = caller.issued /\ (caller'.state = "waiting" => caller'.sender)
        /\ ~caller.sender => ~caller'.sender
        /\ Awaited => Awaited'
        /\ \/ caller'.doubted = caller.doubted
           \/ caller'.doubted = caller.doubted \cup {caller.issued} /\ (Dead \/ ~caller'.sender)
    BY <1>0, <1>1, <2>1, ZenonT(60) DEF OpenReturns, CallerTurns, CallerType,
           Awaited, ClientInv, Queued, Served, LinkType
  <2>3. QED BY <1>0, <2>1, <2>2, CallerOnly DEF ClientInv, ClientType
<1>2. CASE OpenTimesOut
  <2>1. caller' \in CallerType /\ UNCHANGED <<link, reactor, service>>
    BY <1>0, <1>2 DEF OpenTimesOut, CallerTurns, CallerType
  <2>2. /\ caller'.issued = caller.issued /\ (caller'.state = "waiting" => caller'.sender)
        /\ ~caller.sender => ~caller'.sender
        /\ Awaited => Awaited'
        /\ \/ caller'.doubted = caller.doubted
           \/ caller'.doubted = caller.doubted \cup {caller.issued} /\ (Dead \/ ~caller'.sender)
    BY <1>0, <1>2, <2>1 DEF OpenTimesOut, CallerTurns, CallerType,
           Awaited, ClientInv, Queued, Served, LinkType
  <2>3. QED BY <1>0, <2>1, <2>2, CallerOnly DEF ClientInv, ClientType
<1>3. CASE Expire
  <2>1. caller' \in CallerType /\ UNCHANGED <<link, reactor, service>>
    BY <1>0, <1>3 DEF Expire, CallerTurns, CallerType
  <2>2. /\ caller'.issued = caller.issued /\ (caller'.state = "waiting" => caller'.sender)
        /\ ~caller.sender => ~caller'.sender
        /\ Awaited => Awaited'
        /\ \/ caller'.doubted = caller.doubted
           \/ caller'.doubted = caller.doubted \cup {caller.issued} /\ (Dead \/ ~caller'.sender)
    BY <1>0, <1>3, <2>1 DEF Expire, CallerTurns, CallerType,
           Awaited, ClientInv, Queued, Served, LinkType
  <2>3. QED BY <1>0, <2>1, <2>2, CallerOnly DEF ClientInv, ClientType
<1>4. CASE ResetDeadline
  <2>1. caller' \in CallerType /\ UNCHANGED <<link, reactor, service>>
    BY <1>0, <1>4 DEF ResetDeadline, CallerTurns, CallerType
  <2>2. /\ caller'.issued = caller.issued /\ (caller'.state = "waiting" => caller'.sender)
        /\ ~caller.sender => ~caller'.sender
        /\ Awaited => Awaited'
        /\ \/ caller'.doubted = caller.doubted
           \/ caller'.doubted = caller.doubted \cup {caller.issued} /\ (Dead \/ ~caller'.sender)
    BY <1>0, <1>4, <2>1 DEF ResetDeadline, CallerTurns, CallerType,
           Awaited, ClientInv, Queued, Served, LinkType
  <2>3. QED BY <1>0, <2>1, <2>2, CallerOnly DEF ClientInv, ClientType
<1>5. CASE RequestReturns
  <2>1. caller' \in CallerType /\ UNCHANGED <<link, reactor, service>>
    BY <1>0, <1>5 DEF RequestReturns, CallerTurns, CallerType, Doubt
  <2>2. /\ caller'.issued = caller.issued /\ (caller'.state = "waiting" => caller'.sender)
        /\ ~caller.sender => ~caller'.sender
        /\ Awaited => Awaited'
        /\ \/ caller'.doubted = caller.doubted
           \/ caller'.doubted = caller.doubted \cup {caller.issued} /\ (Dead \/ ~caller'.sender)
    BY <1>0, <1>5, <2>1 DEF RequestReturns, CallerTurns, CallerType,
           Awaited, ClientInv, Queued, Served, LinkType, Doubt
  <2>3. QED BY <1>0, <2>1, <2>2, CallerOnly DEF ClientInv, ClientType
<1>6. CASE GiveUp
  <2>1. caller' \in CallerType /\ UNCHANGED <<link, reactor, service>>
    BY <1>0, <1>6 DEF GiveUp, CallerTurns, CallerType, Doubt
  <2>2. /\ caller'.issued = caller.issued /\ (caller'.state = "waiting" => caller'.sender)
        /\ ~caller.sender => ~caller'.sender
        /\ Awaited => Awaited'
        /\ \/ caller'.doubted = caller.doubted
           \/ caller'.doubted = caller.doubted \cup {caller.issued} /\ (Dead \/ ~caller'.sender)
    BY <1>0, <1>6, <2>1 DEF GiveUp, CallerTurns, CallerType,
           Awaited, ClientInv, Queued, Served, LinkType, Doubt
  <2>3. QED BY <1>0, <2>1, <2>2, CallerOnly DEF ClientInv, ClientType
<1>7. CASE Drop
  <2>1. caller' \in CallerType /\ UNCHANGED <<link, reactor, service>>
    BY <1>0, <1>7 DEF Drop, CallerTurns, CallerType
  <2>2. /\ caller'.issued = caller.issued /\ (caller'.state = "waiting" => caller'.sender)
        /\ ~caller.sender => ~caller'.sender
        /\ Awaited => Awaited'
        /\ \/ caller'.doubted = caller.doubted
           \/ caller'.doubted = caller.doubted \cup {caller.issued} /\ (Dead \/ ~caller'.sender)
    BY <1>0, <1>7, <2>1 DEF Drop, CallerTurns, CallerType,
           Awaited, ClientInv, Queued, Served, LinkType
  <2>3. QED BY <1>0, <2>1, <2>2, CallerOnly DEF ClientInv, ClientType
<1>8. CASE DropReturns
  <2>1. caller' \in CallerType /\ UNCHANGED <<link, reactor, service>>
    BY <1>0, <1>8 DEF DropReturns, CallerTurns, CallerType
  <2>2. /\ caller'.issued = caller.issued /\ (caller'.state = "waiting" => caller'.sender)
        /\ ~caller.sender => ~caller'.sender
        /\ Awaited => Awaited'
        /\ \/ caller'.doubted = caller.doubted
           \/ caller'.doubted = caller.doubted \cup {caller.issued} /\ (Dead \/ ~caller'.sender)
    BY <1>0, <1>8, <2>1 DEF DropReturns, CallerTurns, CallerType,
           Awaited, ClientInv, Queued, Served, LinkType
  <2>3. QED BY <1>0, <2>1, <2>2, CallerOnly DEF ClientInv, ClientType
<1>9. CASE Request
  <2>1. /\ caller.state = "idle" /\ caller.sender /\ reactor.state # "gone" /\ link.queue = <<>>
        /\ \A n \in Seen : n <= caller.issued /\ n \in Int
    BY <1>0, <1>9 DEF Request, ClientInv, Queued, Awaited, Seen, ToSet, ServiceType
  <2>2. /\ caller'.issued = caller.issued + 1 /\ caller'.state = "waiting"
        /\ caller'.sender = caller.sender /\ caller'.doubted = caller.doubted
        /\ UNCHANGED <<reactor, service>>
    BY <1>0, <1>9 DEF Request, CallerType
  <2>3. /\ link'.queue = <<caller.issued + 1>> /\ link'.reply = "none" /\ link' \in LinkType
    <3> DEFINE q == Append(link.queue, caller.issued + 1)
    <3>1. q = <<caller.issued + 1>> /\ q \in Seq(Int)
      BY <1>0, <2>1 DEF CallerType
    <3>2. link' = [link EXCEPT !.queue = q, !.reply = "none"]
      BY <1>9 DEF Request
    <3> HIDE DEF q
    <3>3. link'.queue = q /\ link'.reply = "none" /\ link' \in LinkType
      BY <1>0, <3>1, <3>2 DEF LinkType
    <3>4. QED BY <3>1, <3>3
  <2>4. caller' \in CallerType
    <3> DEFINE k == caller.issued + 1
    <3>1. k \in Int /\ caller' = [caller EXCEPT !.state = "waiting", !.issued = k]
      BY <1>0, <1>9 DEF Request, CallerType
    <3> HIDE DEF k
    <3>2. QED BY <1>0, <3>1 DEF CallerType
  <2>5. Seen' = Seen /\ (Dead' = Dead) /\ Awaited'
    BY <2>2, <2>3 DEF Seen, Dead, Awaited
  <2>6. Queued'
    BY <1>0, <2>1, <2>2, <2>3, <2>5 DEF Queued, CallerType
  <2>7. Served'
    <3>1. reactor.state # "calling"
      BY <2>1 DEF ClientInv, Served, Awaited
    <3>2. QED BY <2>2, <2>3, <3>1 DEF ClientInv, Served
  <2>8. InOrder'
    BY <2>2 DEF ClientInv, InOrder
  <2>9. Doubts'
    BY <2>1, <2>2, <2>5 DEF ClientInv, Doubts
  <2>10. QED BY <1>0, <2>2, <2>3, <2>4, <2>6, <2>7, <2>8, <2>9 DEF ClientInv, ClientType
<1>10. CASE ExitProcess
  <2>1. reactor' \in ReactorType /\ reactor'.state = "killed" /\ UNCHANGED <<caller, link, service>>
    BY <1>0, <1>10 DEF ExitProcess, ReactorType
  <2>2. Seen' = Seen /\ Dead' /\ (Awaited' = Awaited)
    BY <2>1 DEF Seen, Dead, Awaited
  <2>3. Queued' /\ Served' /\ InOrder' /\ Doubts'
    BY <2>1, <2>2 DEF ClientInv, Queued, Served, InOrder, Doubts
  <2>4. QED BY <1>0, <2>1, <2>3 DEF ClientInv, ClientType
<1>11. CASE Connected
  <2>1. /\ reactor'.state = "ready" /\ reactor' \in ReactorType /\ reactor.state = "connecting"
        /\ link' \in LinkType /\ link'.queue = link.queue /\ link'.reply = link.reply
        /\ service' \in ServiceType /\ service'.wire = service.wire
        /\ service'.executed = service.executed /\ UNCHANGED caller
    BY <1>0, <1>11 DEF Connected, ReactorTurns, ReactorType, LinkType, ServiceType
  <2>2. Seen' = Seen /\ (Dead' = Dead) /\ (Awaited' = Awaited)
    BY <2>1 DEF Seen, Dead, Awaited
  <2>3. Queued' /\ Served' /\ InOrder' /\ Doubts'
    BY <2>1, <2>2 DEF ClientInv, Queued, Served, InOrder, Doubts
  <2>4. QED BY <1>0, <2>1, <2>3 DEF ClientInv, ClientType
<1>12. CASE ConnectFails
  <2>0. /\ reactor' = [state |-> "gone", serving |-> 0] /\ link' = [link EXCEPT !.ready = "failed"]
        /\ UNCHANGED <<caller, service>>
    BY <1>12 DEF ConnectFails, ReactorTurns
  <2>1. /\ reactor'.state = "gone" /\ reactor' \in ReactorType
        /\ link' \in LinkType /\ link'.queue = link.queue /\ link'.reply = link.reply
        /\ UNCHANGED <<caller, service>>
    BY <1>0, <2>0 DEF ReactorType, LinkType
  <2>2. Seen' = Seen /\ Dead' /\ (Awaited' = Awaited)
    BY <2>1 DEF Seen, Dead, Awaited
  <2>3. Queued' /\ Served' /\ InOrder' /\ Doubts'
    BY <2>1, <2>2 DEF ClientInv, Queued, Served, InOrder, Doubts
  <2>4. QED BY <1>0, <2>1, <2>3 DEF ClientInv, ClientType
<1>13. CASE TakeCommand
  <2> DEFINE n == caller.issued
  <2>1. /\ reactor.state = "ready" /\ link.queue = <<n>> /\ n \in Int /\ Awaited
        /\ service.wire = {} /\ \A e \in ToSet(service.executed) : e < n /\ e \in Int
    BY <1>0, <1>13 DEF TakeCommand, ClientInv, Queued, Served, Seen,
           CallerType, ServiceType, ToSet
  <2>2. Head(link.queue) = n /\ Tail(link.queue) = <<>>
    BY <2>1
  <2>3. /\ reactor' = [state |-> "calling", serving |-> n] /\ link' = [link EXCEPT !.queue = <<>>]
        /\ service' = [service EXCEPT !.wire = @ \cup {n}] /\ UNCHANGED caller
    BY <1>13, <2>2 DEF TakeCommand, ReactorTurns
  <2>4. /\ reactor' \in ReactorType /\ link' \in LinkType /\ service' \in ServiceType
        /\ link'.queue = <<>> /\ link'.reply = link.reply /\ service'.wire = {n}
        /\ service'.executed = service.executed
    <3>1. <<>> \in Seq(Int) /\ reactor' \in ReactorType
      BY <2>1, <2>3 DEF ReactorType
    <3>2. link' \in LinkType /\ link'.queue = <<>> /\ link'.reply = link.reply
      BY <1>0, <2>3, <3>1 DEF LinkType
    <3>3. service' \in ServiceType /\ service'.wire = {n} /\ service'.executed = service.executed
      BY <1>0, <2>1, <2>3 DEF ServiceType
    <3>4. QED BY <3>1, <3>2, <3>3
  <2>5. Seen' = ToSet(service.executed) \cup {n} /\ Awaited' /\ ~Dead'
    BY <2>1, <2>3, <2>4 DEF Seen, Awaited, Dead
  <2>6. Queued'
    BY <2>1, <2>3, <2>4, <2>5 DEF ClientInv, Queued, Seen
  <2>7. Served'
    BY <2>1, <2>3, <2>4, <2>5 DEF ClientInv, Served, Dead
  <2>8. InOrder'
    BY <2>1, <2>4 DEF ClientInv, InOrder
  <2>9. Doubts'
    <3>1. ASSUME NEW m \in caller.doubted PROVE m = n /\ ~caller.sender
      BY <2>1 DEF ClientInv, Doubts, Dead
    <3>2. QED BY <2>1, <2>3, <2>5, <3>1 DEF Doubts
  <2>10. QED BY <1>0, <2>3, <2>4, <2>6, <2>7, <2>8, <2>9 DEF ClientInv, ClientType
<1>14. CASE QueueEnds
  <2>1. /\ reactor'.state = "closing" /\ reactor' \in ReactorType /\ UNCHANGED <<caller, link, service>>
    BY <1>0, <1>14 DEF QueueEnds, ReactorTurns, ReactorType
  <2>2. Seen' = Seen /\ Dead' /\ (Awaited' = Awaited)
    BY <2>1 DEF Seen, Dead, Awaited
  <2>3. Queued' /\ Served' /\ InOrder' /\ Doubts'
    BY <2>1, <2>2 DEF ClientInv, Queued, Served, InOrder, Doubts
  <2>4. QED BY <1>0, <2>1, <2>3 DEF ClientInv, ClientType
<1>15. CASE CallSucceeds
  <2>1. /\ reactor.state = "calling" /\ reactor.serving \in ToSet(service.executed)
        /\ link.queue = <<>> /\ link.reply \notin {"unavailable", "disconnected"}
    BY <1>15 DEF CallSucceeds, ClientInv, Served, Dead
  <2>2. /\ reactor'.state = "ready" /\ reactor' \in ReactorType /\ UNCHANGED <<caller, service>>
    BY <1>0, <1>15 DEF CallSucceeds, ReactorTurns, ReactorType
  <2>3. PICK r \in {"data", "protocol"} : link' = Reply(reactor.serving, r)
    BY <1>15 DEF CallSucceeds
  <2>4. /\ link' \in LinkType /\ link'.queue = <<>>
        /\ link'.reply \notin {"unavailable", "disconnected"}
    BY <1>0, <2>1, <2>3 DEF Reply, LinkType
  <2>5. service.wire = {}
    <3>1. ASSUME NEW n \in service.wire PROVE FALSE
      <4>1. n = reactor.serving /\ reactor.serving < n /\ n \in Int
        BY <1>0, <2>1 DEF ClientInv, Served, InOrder, ServiceType
      <4>2. QED BY <4>1
    <3>2. QED BY <3>1
  <2>6. Seen' = Seen /\ ~Dead' /\ ~Dead
    BY <2>1, <2>2 DEF Seen, Dead
  <2>7. Queued' /\ Served' /\ InOrder' /\ Doubts'
    BY <2>2, <2>4, <2>5, <2>6 DEF ClientInv, Queued, Served, InOrder, Doubts
  <2>8. QED BY <1>0, <2>2, <2>4, <2>7 DEF ClientInv, ClientType
<1>16. CASE CallFails
  <2>1. /\ reactor.state = "calling" /\ link.queue = <<>>
        /\ link' = Reply(reactor.serving, "unavailable")
    BY <1>16 DEF CallFails, ClientInv, Served
  <2>2. /\ reactor'.state = "closing" /\ reactor' \in ReactorType /\ UNCHANGED <<caller, service>>
    BY <1>0, <1>16 DEF CallFails, ReactorTurns, ReactorType
  <2>3. link' \in LinkType /\ link'.queue = <<>>
    BY <1>0, <2>1 DEF Reply, LinkType
  <2>4. Seen' = Seen /\ Dead'
    BY <2>2 DEF Seen, Dead
  <2>5. Queued' /\ Served' /\ InOrder' /\ Doubts'
    BY <2>2, <2>3, <2>4 DEF ClientInv, Queued, Served, InOrder, Doubts
  <2>6. QED BY <1>0, <2>2, <2>3, <2>5 DEF ClientInv, ClientType
<1>17. CASE Close
  <2>0. PICK d \in {"deleted", "unreached"} : service' = [service EXCEPT !.session = d]
    BY <1>17 DEF Close
  <2>1. /\ reactor'.state = "gone" /\ reactor' \in ReactorType /\ UNCHANGED caller
        /\ service' \in ServiceType /\ service'.wire = service.wire
        /\ service'.executed = service.executed
    <3>1. reactor' = [state |-> "gone", serving |-> 0] /\ UNCHANGED caller
      BY <1>17 DEF Close, ReactorTurns
    <3>2. reactor'.state = "gone" /\ reactor' \in ReactorType
      BY <3>1 DEF ReactorType
    <3>3. /\ service' \in ServiceType /\ service'.wire = service.wire
          /\ service'.executed = service.executed
      BY <1>0, <2>0 DEF ServiceType
    <3>4. QED BY <3>1, <3>2, <3>3
  <2>2. link' \in LinkType /\ link'.queue = <<>>
    <3>1. CASE link.queue = <<>>
      BY <1>0, <1>17, <3>1 DEF Close
    <3>2. CASE link.queue # <<>>
      <4>1. PICK l : l = Reply(Last(link.queue), "disconnected") OBVIOUS
      <4>2. l \in LinkType
        BY <1>0, <4>1 DEF Reply, LinkType
      <4>3. link' = [l EXCEPT !.queue = <<>>]
        BY <1>17, <3>2, <4>1 DEF Close
      <4>4. <<>> \in Seq(Int) OBVIOUS
      <4>5. QED BY <4>2, <4>3, <4>4 DEF LinkType
    <3>3. QED BY <3>1, <3>2
  <2>3. Seen' = Seen /\ Dead'
    BY <2>1 DEF Seen, Dead
  <2>4. Queued' /\ Served' /\ InOrder' /\ Doubts'
    BY <2>1, <2>2, <2>3 DEF ClientInv, Queued, Served, InOrder, Doubts
  <2>5. QED BY <1>0, <2>1, <2>2, <2>4 DEF ClientInv, ClientType
<1>18. CASE OpenSession
  <2>1. /\ service' \in ServiceType /\ service'.wire = service.wire
        /\ service'.executed = service.executed /\ UNCHANGED <<caller, link, reactor>>
    BY <1>0, <1>18 DEF OpenSession, ServiceTurns, ServiceType
  <2>2. Seen' = Seen /\ (Dead' = Dead) /\ (Awaited' = Awaited)
    BY <2>1 DEF Seen, Dead, Awaited
  <2>3. Queued' /\ Served' /\ InOrder' /\ Doubts'
    BY <2>1, <2>2 DEF ClientInv, Queued, Served, InOrder, Doubts
  <2>4. QED BY <1>0, <2>1, <2>3 DEF ClientInv, ClientType
<1>19. CASE Execute
  <2>1. PICK n \in service.wire :
          service' = [service EXCEPT !.wire = @ \ {n}, !.executed = Append(@, n)]
    BY <1>19 DEF Execute, ServiceTurns
  <2>2. UNCHANGED <<caller, link, reactor>>
    BY <1>19 DEF Execute, ServiceTurns
  <2> DEFINE s == service.executed
  <2>3. s \in Seq(Int) /\ n \in Int /\ service.wire \subseteq Int
    BY <1>0 DEF ServiceType
  <2>4. /\ service'.wire = service.wire \ {n} /\ service'.executed = Append(s, n)
        /\ service' \in ServiceType
    BY <1>0, <2>1, <2>3, ToSetAppend DEF ServiceType
  <2>5. ToSet(service'.executed) = ToSet(s) \cup {n} /\ service'.wire = {}
    BY <2>3, <2>4, ToSetAppend DEF ClientInv, InOrder
  <2>6. Seen' \subseteq Seen /\ (Dead' = Dead) /\ (Awaited' = Awaited)
    BY <2>2, <2>5 DEF Seen, Dead, Awaited
  <2>7. InOrder'
    <3>1. \A i \in 1..Len(s) : s[i] < n
      BY <2>3, ToSetAppend DEF ClientInv, InOrder, ToSet
    <3>2. \A i, j \in 1..(Len(s) + 1) : i < j => Append(s, n)[i] < Append(s, n)[j]
      <4> SUFFICES ASSUME NEW i \in 1..(Len(s) + 1), NEW j \in 1..(Len(s) + 1), i < j
                   PROVE  Append(s, n)[i] < Append(s, n)[j]
        OBVIOUS
      <4>1. Len(s) \in Nat /\ i \in 1..Len(s) /\ Append(s, n)[i] = s[i]
        BY <2>3, ToSetAppend
      <4>2. CASE j = Len(s) + 1
        BY <3>1, <4>1, <4>2, <2>3, ToSetAppend
      <4>3. CASE j # Len(s) + 1
        <5>1. j \in 1..Len(s) /\ Append(s, n)[j] = s[j]
          BY <2>3, <4>1, <4>3, ToSetAppend
        <5>2. s[i] < s[j]
          BY <2>3, <4>1, <5>1, ToSetAppend DEF ClientInv, InOrder
        <5>3. QED BY <4>1, <5>1, <5>2
      <4>4. QED BY <4>2, <4>3
    <3>3. QED BY <2>3, <2>4, <2>5, <3>2, ToSetAppend DEF InOrder
  <2>8. Queued' /\ Served' /\ Doubts'
    BY <2>2, <2>5, <2>6 DEF ClientInv, Queued, Served, Doubts
  <2>9. QED BY <1>0, <2>2, <2>4, <2>7, <2>8 DEF ClientInv, ClientType
<1>20. CASE Lose
  <2>1. PICK n \in service.wire : service' = [service EXCEPT !.wire = @ \ {n}]
    BY <1>20 DEF Lose, ServiceTurns
  <2>2. /\ UNCHANGED <<caller, link, reactor>> /\ service' \in ServiceType
        /\ service'.wire \subseteq service.wire /\ service'.executed = service.executed
    BY <1>0, <1>20, <2>1 DEF Lose, ServiceTurns, ServiceType
  <2>3. Seen' \subseteq Seen /\ (Dead' = Dead) /\ (Awaited' = Awaited)
    BY <2>2 DEF Seen, Dead, Awaited
  <2>4. Queued' /\ Served' /\ InOrder' /\ Doubts'
    BY <2>2, <2>3 DEF ClientInv, Queued, Served, InOrder, Doubts
  <2>5. QED BY <1>0, <2>2, <2>4 DEF ClientInv, ClientType
<1>21. CASE UNCHANGED clientVars
  <2>1. Seen' = Seen /\ (Dead' = Dead) /\ (Awaited' = Awaited)
    BY <1>21 DEF Seen, Dead, Awaited, clientVars
  <2>2. Queued' /\ Served' /\ InOrder' /\ Doubts'
    BY <1>21, <2>1 DEF ClientInv, Queued, Served, InOrder, Doubts, clientVars
  <2>3. QED BY <1>0, <1>21, <2>2 DEF ClientInv, ClientType, clientVars
<1>22. QED
  BY <1>1, <1>2, <1>3, <1>4, <1>5, <1>6, <1>7, <1>8, <1>9, <1>10, <1>11, <1>12, <1>13, <1>14,
     <1>15, <1>16, <1>17, <1>18, <1>19, <1>20, <1>21
     DEF ClientNext, CallerNext, ReactorNext

\* Nothing is executed after, or twice besides, a request that was answered
\* "unavailable" (client.rs:177-201, 242-250).
THEOREM NothingAfterDoubtHolds == ClientSpec \/ CommandsSpec => []NothingAfterDoubt
<1>1. ClientInv => NothingAfterDoubt
  BY DEF ClientInv, InOrder, Doubts, Seen, NothingAfterDoubt
<1>2. ClientSpec => []NothingAfterDoubt
  BY ClientInitInv, ClientStepInv, <1>1, PTL DEF ClientSpec
<1>3. CommandsInit => ClientInv
  BY ClientInitInv DEF CommandsInit
<1>4. CommandsSpec => []NothingAfterDoubt
  BY ClientStepInv, CommandSteps, <1>1, <1>3, PTL DEF CommandsSpec
<1>5. QED BY <1>2, <1>4

-----------------------------------------------------------------------------
(* The stdio relay tells everything it owes before it ends.                *)

ReaderType ==
  [state : {"reading", "forwarding", "reporting", "ending", "leaving", "gone"},
   initialized : BOOLEAN, lines : Int, result : {"none", "ok", "bad"}]
ChanType ==
  [first : {"none", "go", "empty", "error"}, finished : {"none", "ok", "bad"},
   writer : BOOLEAN, inbound : Int, outbound : Int, errors : Int]
OutputType == [state : {"off", "running", "flushing", "done"}, half : BOOLEAN]
ToldType == [queued : Int, shown : Int, written : Int, printed : Int]

RelayType ==
  /\ reader \in ReaderType /\ chan \in ChanType /\ output \in OutputType /\ told \in ToldType
  /\ sdk \in {"off", "waiting", "serving", "ended", "unserved", "refused"}
  /\ task \in {"first", "opening", "serving", "ok", "error"}

\* What was queued and written is shown and printed, or still on its way.
Counted ==
  /\ told.queued = told.shown + chan.errors
  /\ told.written = told.printed + chan.outbound

InputOver == sdk \in {"ended", "unserved"}

\* The order in which reader, SDK, output task and command come to their end.
Phases ==
  /\ ~chan.writer => reader.state = "gone"
  /\ reader.state \in {"leaving", "gone"} => chan.finished = reader.result
  /\ InputOver => ~chan.writer
  /\ output.state \in {"flushing", "done"} => SdkGone
  /\ output.state \in {"flushing", "done"} /\ InputOver => chan.errors = 0 /\ chan.outbound = 0
  /\ task \in {"first", "opening"} => sdk = "off" /\ output.state = "off"
  /\ Exited => sdk = "off" \/ SdkGone
  /\ Exited /\ InputOver => output.state = "done"
  /\ Exited /\ InputOver /\ chan.finished = "bad" => task = "error"

RelayInv == RelayType /\ Counted /\ Phases

\* Nothing is queued or written and everything runs at the beginning.
LEMMA RelayInitInv == RelayInit => RelayInv
BY DEF RelayInit, RelayInv, RelayType, ReaderType, ChanType, OutputType, ToldType,
         Counted, Phases, InputOver, SdkGone, Exited

\* Every step of the relay keeps the types of its state.
LEMMA RelayStepType == RelayType /\ [RelayNext]_relayVars => RelayType'
<1> SUFFICES ASSUME RelayType, [RelayNext]_relayVars PROVE RelayType'
  OBVIOUS
<1> USE DEF RelayType, ReaderType, ChanType, OutputType, ToldType
<1>1. CASE ReadLine
  <2>0. /\ reader \in ReaderType /\ reader.lines + 1 \in Int
        /\ First("go") \in {"none", "go", "empty", "error"}
    BY DEF First
  <2>1. chan' \in ChanType
    BY <1>1, <2>0 DEF ReadLine
  <2>2. reader' \in ReaderType
    <3> DEFINE n == reader.lines + 1
    <3>1. \/ reader' = [reader EXCEPT !.state = "forwarding", !.lines = n, !.initialized = TRUE]
          \/ reader' = [reader EXCEPT !.state = "reporting", !.lines = n]
          \/ reader' = [reader EXCEPT !.state = "ending", !.lines = n, !.result = "bad"]
      BY <1>1 DEF ReadLine
    <3>2. n \in Int BY <2>0
    <3> HIDE DEF n
    <3>3. QED BY <3>1, <3>2
  <2>3. QED BY <1>1, <2>1, <2>2 DEF ReadLine
<1>2. CASE ReadEnd
  <2>1. PICK r \in {"ok", "bad"} : reader' = [reader EXCEPT !.state = "ending", !.result = r]
    BY <1>2 DEF ReadEnd
  <2>2. reader' \in ReaderType
    BY <2>1
  <2>3. QED BY <1>2, <2>2 DEF ReadEnd
<1>3. CASE Forward
  <2>1. reader' \in ReaderType
    BY <1>3 DEF Forward
  <2>2. chan' \in ChanType
    BY <1>3 DEF Forward
  <2>3. QED BY <1>3, <2>1, <2>2 DEF Forward
<1>4. CASE Report
  <2>0. First("go") \in {"none", "go", "empty", "error"}
    BY DEF First
  <2>1. reader' \in ReaderType
    BY <1>4 DEF Report
  <2>2. chan' \in ChanType
    <3> DEFINE n == chan.errors + 1
               f == First("go")
    <3>1. chan' = [chan EXCEPT !.errors = n, !.first = f] \/ chan' = chan
      BY <1>4 DEF Report
    <3>2. n \in Int /\ f \in {"none", "go", "empty", "error"}
      BY <2>0
    <3> HIDE DEF n, f
    <3>3. QED BY <3>1, <3>2
  <2>3. told' \in ToldType
    BY <1>4 DEF Report
  <2>4. QED BY <1>4, <2>1, <2>2, <2>3 DEF Report
<1>5. CASE Finish
  BY <1>5 DEF Finish, ReaderIn, Exited, First
<1>6. CASE Leave
  BY <1>6 DEF Leave, ReaderIn, Exited
<1>7. CASE FirstInput
  BY <1>7 DEF FirstInput
<1>8. CASE OpenRemote
  BY <1>8 DEF OpenRemote
<1>9. CASE OpenRemoteFails
  BY <1>9 DEF OpenRemoteFails
<1>10. CASE Return
  BY <1>10 DEF Return, SdkGone
<1>11. CASE SdkTakes
  <2>1. PICK n \in 0..1 :
          /\ chan' = [chan EXCEPT !.inbound = @ - 1, !.outbound = @ + n]
          /\ told' = [told EXCEPT !.written = @ + n]
    BY <1>11 DEF SdkTakes
  <2>2. chan' \in ChanType
    <3> DEFINE i == chan.inbound - 1
               o == chan.outbound + n
    <3>1. chan' = [chan EXCEPT !.inbound = i, !.outbound = o]
      BY <2>1
    <3>2. i \in Int /\ o \in Int
      OBVIOUS
    <3> HIDE DEF i, o
    <3>3. QED BY <3>1, <3>2
  <2>3. told' \in ToldType
    BY <2>1
  <2>4. QED BY <1>11, <2>2, <2>3 DEF SdkTakes
<1>12. CASE SdkEnds
  BY <1>12 DEF SdkEnds
<1>13. CASE ReadHalf
  <2>1. output' \in OutputType
    BY <1>13 DEF ReadHalf
  <2>2. QED BY <1>13, <2>1 DEF ReadHalf
<1>14. CASE PrintResponse
  <2>1. output' \in OutputType
    BY <1>14 DEF PrintResponse
  <2>2. chan' \in ChanType
    BY <1>14 DEF PrintResponse
  <2>3. told' \in ToldType
    BY <1>14 DEF PrintResponse
  <2>4. QED BY <1>14, <2>1, <2>2, <2>3 DEF PrintResponse
<1>15. CASE PrintError
  BY <1>15 DEF PrintError
<1>16. CASE OutputEnds
  BY <1>16 DEF OutputEnds, OutputAtEnd, SdkGone
<1>17. CASE OutputDone
  BY <1>17 DEF OutputDone
<1>18. CASE UNCHANGED relayVars
  BY <1>18 DEF relayVars
<1>19. QED
  BY <1>1, <1>2, <1>3, <1>4, <1>5, <1>6, <1>7, <1>8, <1>9, <1>10,
     <1>11, <1>12, <1>13, <1>14, <1>15, <1>16, <1>17, <1>18
     DEF RelayNext, InputNext, ReaderNext, TaskNext, SdkNext, OutputNext

\* Every step counts what it queues, writes, shows and prints.
LEMMA RelayStepCounted ==
  RelayType /\ Counted /\ [RelayNext]_relayVars => Counted'
<1> SUFFICES ASSUME RelayType, Counted, [RelayNext]_relayVars PROVE Counted'
  OBVIOUS
<1> USE DEF RelayType, ReaderType, ChanType, OutputType, ToldType, Counted
<1>1. CASE ReadLine
  BY <1>1 DEF ReadLine, ReaderIn, Exited, First
<1>2. CASE ReadEnd
  BY <1>2 DEF ReadEnd, ReaderIn, Exited
<1>3. CASE Forward
  BY <1>3 DEF Forward, ReaderIn, Exited, SdkGone
<1>4. CASE Report
  <2>1. \/ chan'.errors = chan.errors + 1 /\ told'.queued = told.queued + 1
        \/ chan'.errors = chan.errors /\ told'.queued = told.queued
    BY <1>4 DEF Report
  <2>2. /\ chan'.outbound = chan.outbound /\ told'.shown = told.shown
        /\ told'.written = told.written /\ told'.printed = told.printed
    BY <1>4 DEF Report
  <2>3. QED BY <2>1, <2>2
<1>5. CASE Finish
  BY <1>5 DEF Finish, ReaderIn, Exited, First
<1>6. CASE Leave
  BY <1>6 DEF Leave, ReaderIn, Exited
<1>7. CASE FirstInput
  BY <1>7 DEF FirstInput
<1>8. CASE OpenRemote
  BY <1>8 DEF OpenRemote
<1>9. CASE OpenRemoteFails
  BY <1>9 DEF OpenRemoteFails
<1>10. CASE Return
  BY <1>10 DEF Return, SdkGone
<1>11. CASE SdkTakes
  BY <1>11 DEF SdkTakes
<1>12. CASE SdkEnds
  BY <1>12 DEF SdkEnds
<1>13. CASE ReadHalf
  BY <1>13 DEF ReadHalf
<1>14. CASE PrintResponse
  BY <1>14 DEF PrintResponse
<1>15. CASE PrintError
  BY <1>15 DEF PrintError
<1>16. CASE OutputEnds
  BY <1>16 DEF OutputEnds, OutputAtEnd, SdkGone
<1>17. CASE OutputDone
  BY <1>17 DEF OutputDone
<1>18. CASE UNCHANGED relayVars
  BY <1>18 DEF relayVars
<1>19. QED
  BY <1>1, <1>2, <1>3, <1>4, <1>5, <1>6, <1>7, <1>8, <1>9, <1>10,
     <1>11, <1>12, <1>13, <1>14, <1>15, <1>16, <1>17, <1>18
     DEF RelayNext, InputNext, ReaderNext, TaskNext, SdkNext, OutputNext

\* Every step keeps the order of the ends.
LEMMA RelayStepPhases ==
  RelayType /\ Phases /\ [RelayNext]_relayVars => Phases'
<1> SUFFICES ASSUME RelayType, Phases, [RelayNext]_relayVars PROVE Phases'
  OBVIOUS
<1> USE DEF RelayType, ReaderType, ChanType, OutputType, ToldType,
           Phases, InputOver, SdkGone, Exited
<1>1. CASE ReadLine
  BY <1>1, ZenonT(60) DEF ReadLine, ReaderIn, Exited, First
<1>2. CASE ReadEnd
  BY <1>2 DEF ReadEnd, ReaderIn, Exited
<1>3. CASE Forward
  BY <1>3, ZenonT(60) DEF Forward, ReaderIn, Exited, SdkGone
<1>4. CASE Report
  BY <1>4, ZenonT(60) DEF Report, ReaderIn, Exited, First
<1>5. CASE Finish
  BY <1>5 DEF Finish, ReaderIn, Exited, First
<1>6. CASE Leave
  BY <1>6 DEF Leave, ReaderIn, Exited
<1>7. CASE FirstInput
  BY <1>7 DEF FirstInput
<1>8. CASE OpenRemote
  BY <1>8 DEF OpenRemote
<1>9. CASE OpenRemoteFails
  BY <1>9 DEF OpenRemoteFails
<1>10. CASE Return
  BY <1>10 DEF Return, SdkGone
<1>11. CASE SdkTakes
  BY <1>11 DEF SdkTakes
<1>12. CASE SdkEnds
  BY <1>12 DEF SdkEnds
<1>13. CASE ReadHalf
  BY <1>13 DEF ReadHalf
<1>14. CASE PrintResponse
  BY <1>14 DEF PrintResponse
<1>15. CASE PrintError
  BY <1>15 DEF PrintError
<1>16. CASE OutputEnds
  BY <1>16 DEF OutputEnds, OutputAtEnd, SdkGone
<1>17. CASE OutputDone
  BY <1>17 DEF OutputDone
<1>18. CASE UNCHANGED relayVars
  BY <1>18 DEF relayVars
<1>19. QED
  BY <1>1, <1>2, <1>3, <1>4, <1>5, <1>6, <1>7, <1>8, <1>9, <1>10,
     <1>11, <1>12, <1>13, <1>14, <1>15, <1>16, <1>17, <1>18
     DEF RelayNext, InputNext, ReaderNext, TaskNext, SdkNext, OutputNext

\* Everything queued or written before the command ended after its input was
\* told, and bad input fails it (client.rs:402-433, 440-443).
THEOREM RelayTellsAllHolds == RelaySpec \/ CommandsSpec => []RelayTellsAll
<1>1. RelayInv /\ [RelayNext]_relayVars => RelayInv'
  BY RelayStepType, RelayStepCounted, RelayStepPhases DEF RelayInv
<1>2. RelayInv => RelayTellsAll
  BY DEF RelayInv, RelayType, ReaderType, ChanType, OutputType, ToldType,
         Counted, Phases, InputOver, RelayTellsAll
<1>3. RelaySpec => []RelayTellsAll
  BY RelayInitInv, <1>1, <1>2, PTL DEF RelaySpec
<1>4. CommandsInit => RelayInv
  BY RelayInitInv DEF CommandsInit
<1>5. CommandsSpec => []RelayTellsAll
  BY CommandSteps, <1>1, <1>2, <1>4, PTL DEF CommandsSpec
<1>6. QED BY <1>3, <1>5

-----------------------------------------------------------------------------
(* What a hook sends depends on its event alone.                           *)

\* What is sent for an event, whatever the length of the ledger.
Arguments(e) == IF e.event = "context.prepare" THEN Question(e) ELSE Observation(e)

\* A ledger that has been copied from is below the root, under its own name.
AdapterInv ==
  \A s \in sent :
    /\ s.event \in Events /\ s.arguments = Arguments(s.event)
    /\ s.event.event # "context.prepare" =>
         DirOf[s.event.path.dir] # Outside /\ s.event.path.name = LedgerName

\* A hook that runs now sends what it always sends.
LEMMA AdapterStepInv == AdapterInv /\ [AdapterNext]_adapterVars => AdapterInv'
<1> SUFFICES ASSUME AdapterInv, [AdapterNext]_adapterVars PROVE AdapterInv'
  OBVIOUS
<1>1. CASE UNCHANGED adapterVars \/ AppendRow
  BY <1>1 DEF adapterVars, AppendRow, AdapterInv
<1>2. ASSUME NEW e \in Events, Observe(e) PROVE AdapterInv'
  <2>1. /\ e.event # "context.prepare"
        /\ DirOf[e.path.dir] # Outside /\ e.path.name = LedgerName
        /\ sent' = sent \cup {[event |-> e, arguments |-> Arguments(e)]}
    BY <1>2 DEF Observe, Readable, Send, Arguments
  <2>2. PICK now : now = Arguments(e)
    OBVIOUS
  <2>3. sent' = sent \cup {[event |-> e, arguments |-> now]}
    BY <2>1, <2>2
  <2>4. QED BY <2>1, <2>2, <2>3 DEF AdapterInv
<1>3. ASSUME NEW e \in Events, Prepare(e) PROVE AdapterInv'
  <2>1. /\ e.event = "context.prepare"
        /\ sent' = sent \cup {[event |-> e, arguments |-> Arguments(e)]}
    BY <1>3 DEF Prepare, Send, Arguments
  <2>2. PICK now : now = Arguments(e)
    OBVIOUS
  <2>3. sent' = sent \cup {[event |-> e, arguments |-> now]}
    BY <2>1, <2>2
  <2>4. QED BY <2>1, <2>2, <2>3 DEF AdapterInv
<1>4. QED BY <1>1, <1>2, <1>3 DEF AdapterNext

LEMMA AdapterAlways == AdapterSpec \/ CommandsSpec => []AdapterInv
<1>1. AdapterInit => AdapterInv
  BY DEF AdapterInit, AdapterInv
<1>2. CommandsInit => AdapterInv
  BY <1>1 DEF CommandsInit
<1>3. AdapterSpec => []AdapterInv
  BY <1>1, AdapterStepInv, PTL DEF AdapterSpec
<1>4. CommandsSpec => []AdapterInv
  BY <1>2, AdapterStepInv, CommandSteps, PTL DEF CommandsSpec
<1>5. QED BY <1>3, <1>4

\* Redelivered, late or repeated, a hook sends the same for the same event
\* (adapter.rs:126-147, 302-397).
THEOREM RedeliverySameHolds == AdapterSpec \/ CommandsSpec => []RedeliverySame
<1>1. AdapterInv => RedeliverySame
  BY DEF AdapterInv, RedeliverySame
<1>2. QED BY <1>1, AdapterAlways, PTL

\* The own key of an observation is in the lineage of every copy of its row
\* (adapter.rs:66-105, 322-347).
THEOREM CopiesTracedHolds == AdapterSpec \/ CommandsSpec => []CopiesTraced
<1>1. ASSUME AdapterInv PROVE CopiesTraced
  <2> SUFFICES ASSUME NEW a \in sent, NEW b \in sent, a.event.event # "context.prepare",
                      b.event.event # "context.prepare",
                      a.arguments.through \in b.arguments.copied
               PROVE  a.arguments.own \in b.arguments.lineage
    BY DEF CopiesTraced
  <2>1. a.arguments = Observation(a.event) /\ b.arguments = Observation(b.event)
    BY <1>1 DEF AdapterInv, Arguments
  <2>2. Line(a.event) = Line(b.event)
    BY <1>1, AdapterAssumption DEF AdapterInv, Line
  <2>3. /\ a.arguments.through = a.event.through
        /\ a.arguments.own = SourceKey(a.event, a.event.through)
        /\ b.arguments.copied = Evidence(b.event)
        /\ b.arguments.lineage = {SourceKey(b.event, n) : n \in Evidence(b.event)}
    BY <2>1 DEF Observation
  <2>4. SourceKey(a.event, a.event.through) = SourceKey(b.event, a.event.through)
    BY <2>2 DEF SourceKey
  <2>5. QED BY <2>3, <2>4
<1>2. QED BY <1>1, AdapterAlways, PTL

-----------------------------------------------------------------------------
(* The files of a deployment appear together and whole.                    *)

Places == 1..Len(Files)
Alive == {"write", "sync", "link", "syncdir", "remove", "done"}
InitStates == {"start", "undo", "failed"} \cup Alive

\* The names before place n are visible and on the disk, and i wrote them.
Before(i, n) ==
  \A m \in Places : m < n =>
    /\ Files[m] \in DOMAIN visible /\ visible[Files[m]] = i
    /\ Files[m] \in DOMAIN durable

PublishType ==
  /\ init \in [Inits -> [state : InitStates, at : Places]]
  /\ \A i \in Inits : init[i].state = "start" => init[i].at = 1

\* What a name stands for: a synced file of the command that linked it, and
\* the earlier names with it.
Standing ==
  /\ DOMAIN durable \subseteq DOMAIN visible
  /\ torn = {}
  /\ \A n \in DOMAIN visible : <<visible[n], n>> \in synced
  /\ \A n \in Places : Files[n] \in DOMAIN visible => Before(visible[Files[n]], n)

\* A running command has published the files before the one it is at.
ProgressOf(i) ==
  /\ init[i].state \in Alive => Before(i, init[i].at)
  /\ init[i].state = "link" => <<i, Name(i)>> \in synced
  /\ init[i].state \in {"syncdir", "remove", "done"} =>
       Name(i) \in DOMAIN visible /\ visible[Name(i)] = i
  /\ init[i].state \in {"remove", "done"} => Name(i) \in DOMAIN durable
Progress == \A i \in Inits : ProgressOf(i)

PublishInv == PublishType /\ Standing /\ Progress

\* Steps that lose nothing.
Grows ==
  /\ \A x \in DOMAIN visible : x \in DOMAIN visible' /\ visible'[x] = visible[x]
  /\ DOMAIN durable \subseteq DOMAIN durable'
  /\ synced \subseteq synced'

\* The directory is empty and every command is at its first file.
LEMMA PublishInitInv == PublishInit => PublishInv
BY PublishAssumption
   DEF PublishInit, PublishInv, PublishType, Standing, Progress, ProgressOf, Before, Places,
       InitStates, Alive

\* Published names stay published as long as the durable ones do.
LEMMA BeforeKept ==
  ASSUME NEW i, NEW n, Before(i, n),
         \A x \in DOMAIN durable \cap DOMAIN visible :
           x \in DOMAIN visible' /\ visible'[x] = visible[x],
         DOMAIN durable \subseteq DOMAIN durable'
  PROVE  Before(i, n)'
BY DEF Before

\* The progress of a command that a step does not concern.
LEMMA OthersKept ==
  ASSUME NEW j \in Inits, init'[j] = init[j], Grows, ProgressOf(j)
  PROVE  ProgressOf(j)'
<1>1. PICK a, st : a = init[j].at /\ st = init[j].state
  OBVIOUS
<1>2. Name(j) = Files[a] /\ Name(j)' = Files[a] /\ init'[j].at = a /\ init'[j].state = st
  BY <1>1 DEF Name
<1>3. st \in Alive => Before(j, a)'
  BY <1>1, BeforeKept DEF Grows, ProgressOf
<1>4. /\ st = "link" => <<j, Files[a]>> \in synced'
      /\ st \in {"syncdir", "remove", "done"} => Files[a] \in DOMAIN visible' /\ visible'[Files[a]] = j
      /\ st \in {"remove", "done"} => Files[a] \in DOMAIN durable'
  BY <1>1, <1>2 DEF Grows, ProgressOf
<1>5. QED BY <1>2, <1>3, <1>4 DEF ProgressOf

\* A step of one command from one state to the next.
LEMMA TurnTyped ==
  ASSUME PublishType, NEW i \in Inits, NEW from, NEW to \in InitStates \ {"start"},
         Turn(i, from, to)
  PROVE  /\ PublishType' /\ init[i].state = from
         /\ init'[i].state = to /\ init'[i].at = init[i].at /\ Name(i)' = Name(i)
         /\ \A j \in Inits \ {i} : init'[j] = init[j]
<1>1. init' = [init EXCEPT ![i] = [init[i] EXCEPT !.state = to]] /\ init[i].state = from
  BY DEF Turn
<1>2. init[i] \in [state : InitStates, at : Places]
  BY DEF PublishType
<1>3. [init[i] EXCEPT !.state = to] \in [state : InitStates, at : Places]
  BY <1>2
<1>4. /\ init'[i] = [init[i] EXCEPT !.state = to]
      /\ \A j \in Inits \ {i} : init'[j] = init[j]
      /\ init' \in [Inits -> [state : InitStates, at : Places]]
  BY <1>1, <1>3 DEF PublishType
<1>5. init'[i].state = to /\ init'[i].at = init[i].at
  BY <1>2, <1>4
<1>6. PublishType'
  BY <1>4, <1>5 DEF PublishType
<1>7. QED BY <1>1, <1>4, <1>5, <1>6 DEF Name

\* A step that leaves names and contents alone.
Quiet == UNCHANGED <<visible, durable, synced, torn>>
LEMMA QuietStands ==
  ASSUME Standing, Quiet
  PROVE  Standing' /\ Grows
<1>1. \A i, n : Before(i, n) = Before(i, n)'
  BY DEF Quiet, Before
<1>2. QED BY <1>1 DEF Standing, Quiet, Grows

\* The invariant after a step of one command, from its own progress.
LEMMA StepOf ==
  ASSUME PublishInv, NEW i \in Inits, PublishType', Standing', Grows,
         \A j \in Inits \ {i} : init'[j] = init[j], ProgressOf(i)'
  PROVE  PublishInv'
<1>1. ASSUME NEW j \in Inits, j # i PROVE ProgressOf(j)'
  BY <1>1, OthersKept DEF PublishInv, Progress
<1>2. QED BY <1>1 DEF PublishInv, Progress

\* Every step of init keeps the published files together.
LEMMA PublishStepInv == PublishInv /\ [PublishNext]_publishVars => PublishInv'
<1> SUFFICES ASSUME PublishInv, [PublishNext]_publishVars PROVE PublishInv'
  OBVIOUS
<1>1. CASE UNCHANGED publishVars
  <2>1. Standing' /\ Grows
    BY <1>1, QuietStands DEF publishVars, Quiet, PublishInv
  <2>2. PublishType' BY <1>1 DEF publishVars, PublishInv, PublishType
  <2>3. \A j \in Inits : ProgressOf(j)'
    BY <1>1, <2>1, OthersKept DEF publishVars, PublishInv, Progress
  <2>4. QED BY <2>1, <2>2, <2>3 DEF PublishInv, Progress
<1>2. ASSUME NEW i \in Inits,
             \/ CheckEmpty(i) \/ WriteTemporary(i) \/ SyncTemporary(i) \/ Link(i)
             \/ SyncDirectory(i) \/ RemoveTemporary(i) \/ Fail(i) \/ Undo(i) \/ Kill(i)
      PROVE  PublishInv'
  <2>0. PICK a, st : /\ a = init[i].at /\ st = init[i].state /\ Name(i) = Files[a]
                     /\ a \in Places /\ PublishType /\ Standing /\ ProgressOf(i)
    BY DEF PublishInv, PublishType, Progress, Name
  <2>1. CASE CheckEmpty(i)
    <3>1. Quiet /\ \E to \in {"write", "failed"} : Turn(i, "start", to)
      BY <2>1 DEF CheckEmpty, Quiet
    <3>2. PICK to \in {"write", "failed"} : Turn(i, "start", to)
      BY <3>1
    <3>3. /\ PublishType' /\ init'[i].state = to /\ init'[i].at = a /\ init[i].state = "start"
          /\ \A j \in Inits \ {i} : init'[j] = init[j]
      BY <2>0, <3>2, TurnTyped DEF InitStates, Alive
    <3>4. a = 1
      BY <2>0, <3>3 DEF PublishType
    <3>5. ProgressOf(i)'
      BY <2>0, <3>2, <3>3, <3>4 DEF ProgressOf, Before, Places, Alive
    <3>6. QED BY <2>0, <3>1, <3>3, <3>5, QuietStands, StepOf
  <2>2. CASE WriteTemporary(i)
    <3>1. Quiet /\ Turn(i, "write", "sync")
      BY <2>2 DEF WriteTemporary, Quiet
    <3>2. /\ PublishType' /\ init'[i].state = "sync" /\ init'[i].at = a /\ init[i].state = "write"
          /\ \A j \in Inits \ {i} : init'[j] = init[j]
      BY <2>0, <3>1, TurnTyped DEF InitStates, Alive
    <3>3. Before(i, a)'
      BY <2>0, <3>1, <3>2 DEF ProgressOf, Before, Quiet, Alive
    <3>4. ProgressOf(i)'
      BY <3>2, <3>3 DEF ProgressOf
    <3>5. QED BY <2>0, <3>1, <3>2, <3>4, QuietStands, StepOf
  <2>3. CASE SyncTemporary(i)
    <3>1. /\ Turn(i, "sync", "link") /\ synced' = synced \cup {<<i, Files[a]>>}
          /\ UNCHANGED <<visible, durable, torn>>
      BY <2>0, <2>3 DEF SyncTemporary
    <3>2. /\ PublishType' /\ init'[i].state = "link" /\ init'[i].at = a /\ init[i].state = "sync"
          /\ Name(i)' = Files[a] /\ \A j \in Inits \ {i} : init'[j] = init[j]
      BY <2>0, <3>1, TurnTyped DEF InitStates, Alive
    <3>3. \A j, n : Before(j, n) = Before(j, n)'
      BY <3>1 DEF Before
    <3>4. Grows /\ Standing'
      BY <2>0, <3>1, <3>3 DEF Grows, Standing
    <3>5. Before(i, a)'
      BY <2>0, <3>2, <3>3 DEF ProgressOf, Alive
    <3>6. ProgressOf(i)'
      BY <3>1, <3>2, <3>5 DEF ProgressOf
    <3>7. QED BY <3>2, <3>4, <3>6, StepOf
  <2>4. CASE Link(i)
    <3>1. CASE Files[a] \in DOMAIN visible
      <4>1. Quiet /\ Turn(i, "link", "undo")
        BY <2>0, <2>4, <3>1 DEF Link, Quiet
      <4>2. /\ PublishType' /\ init'[i].state = "undo"
            /\ \A j \in Inits \ {i} : init'[j] = init[j]
        BY <2>0, <4>1, TurnTyped DEF InitStates, Alive
      <4>3. ProgressOf(i)'
        BY <4>2 DEF ProgressOf, Alive
      <4>4. QED BY <2>0, <4>1, <4>2, <4>3, QuietStands, StepOf
    <3>2. CASE Files[a] \notin DOMAIN visible
      <4>1. /\ Turn(i, "link", "syncdir") /\ UNCHANGED <<durable, synced, torn>>
            /\ visible' = [n \in DOMAIN visible \cup {Files[a]} |->
                             IF n = Files[a] THEN i ELSE visible[n]]
        BY <2>0, <2>4, <3>2 DEF Link
      <4>2. /\ PublishType' /\ init'[i].state = "syncdir" /\ init'[i].at = a
            /\ init[i].state = "link" /\ Name(i)' = Files[a]
            /\ \A j \in Inits \ {i} : init'[j] = init[j]
        BY <2>0, <4>1, TurnTyped DEF InitStates, Alive
      <4>3. /\ DOMAIN visible' = DOMAIN visible \cup {Files[a]} /\ visible'[Files[a]] = i
            /\ \A x \in DOMAIN visible : visible'[x] = visible[x]
        BY <3>2, <4>1
      <4>4. Grows
        BY <4>1, <4>3 DEF Grows
      <4>5. <<i, Files[a]>> \in synced /\ Before(i, a)
        BY <2>0, <4>2 DEF ProgressOf, Alive
      <4>6. \A j, n : Before(j, n) => Before(j, n)'
        BY <4>4, BeforeKept DEF Grows
      <4>7. Standing'
        <5>1. ASSUME NEW n \in Places, Files[n] \in DOMAIN visible'
              PROVE  \A w : w = visible'[Files[n]] => Before(w, n)'
          <6>1. CASE Files[n] \in DOMAIN visible
            <7>1. Before(visible[Files[n]], n)
              BY <2>0, <6>1 DEF Standing
            <7>2. PICK w : w = visible[Files[n]]
              OBVIOUS
            <7>3. Before(w, n)'
              BY <4>6, <7>1, <7>2
            <7>4. QED BY <4>3, <6>1, <7>2, <7>3
          <6>2. CASE Files[n] \notin DOMAIN visible
            <7>1. n = a
              BY <2>0, <4>3, <5>1, <6>2, PublishAssumption DEF Places
            <7>2. QED BY <4>3, <4>5, <4>6, <7>1
          <6>3. QED BY <6>1, <6>2
        <5>2. \A n \in DOMAIN visible' : <<visible'[n], n>> \in synced'
          BY <2>0, <4>1, <4>3, <4>5 DEF Standing
        <5>3. QED BY <2>0, <4>1, <4>3, <5>1, <5>2 DEF Standing
      <4>8. Before(i, a)'
        BY <4>5, <4>6
      <4>9. ProgressOf(i)'
        BY <4>2, <4>3, <4>8 DEF ProgressOf
      <4>10. QED BY <4>2, <4>4, <4>7, <4>9, StepOf
    <3>3. QED BY <3>1, <3>2
  <2>5. CASE SyncDirectory(i)
    <3>1. Turn(i, "syncdir", "remove") /\ durable' = visible /\ UNCHANGED <<visible, synced, torn>>
      BY <2>5 DEF SyncDirectory
    <3>2. /\ PublishType' /\ init'[i].state = "remove" /\ init'[i].at = a
          /\ init[i].state = "syncdir" /\ Name(i)' = Files[a]
          /\ \A j \in Inits \ {i} : init'[j] = init[j]
      BY <2>0, <3>1, TurnTyped DEF InitStates, Alive
    <3>3. Grows
      BY <2>0, <3>1 DEF Grows, Standing
    <3>4. \A j, n : Before(j, n) => Before(j, n)'
      BY <3>3, BeforeKept DEF Grows
    <3>5. Standing'
      <4>1. ASSUME NEW n \in Places, Files[n] \in DOMAIN visible'
            PROVE  Before(visible[Files[n]], n) /\ visible'[Files[n]] = visible[Files[n]]
        BY <2>0, <3>1, <4>1 DEF Standing
      <4>2. QED BY <2>0, <3>1, <3>4, <4>1 DEF Standing
    <3>6. Before(i, a)'
      BY <2>0, <3>2, <3>4 DEF ProgressOf, Alive
    <3>7. ProgressOf(i)'
      BY <2>0, <3>1, <3>2, <3>6 DEF ProgressOf
    <3>8. QED BY <3>2, <3>3, <3>5, <3>7, StepOf
  <2>6. CASE RemoveTemporary(i)
    <3>1. /\ Quiet /\ init[i].state = "remove"
          /\ init' = [init EXCEPT ![i] = IF a = Len(Files) THEN [init[i] EXCEPT !.state = "done"]
                                         ELSE [state |-> "write", at |-> a + 1]]
      BY <2>0, <2>6 DEF RemoveTemporary, Quiet
    <3>2. /\ \A j \in Inits \ {i} : init'[j] = init[j]
          /\ init'[i] = IF a = Len(Files) THEN [init[i] EXCEPT !.state = "done"]
                        ELSE [state |-> "write", at |-> a + 1]
      BY <2>0, <3>1 DEF PublishType
    <3>3. /\ Before(i, a)' /\ Files[a] \in DOMAIN visible' /\ visible'[Files[a]] = i
          /\ Files[a] \in DOMAIN durable'
      BY <2>0, <3>1 DEF ProgressOf, Before, Quiet, Alive
    <3>4. CASE a = Len(Files)
      <4>1. init'[i] = [init[i] EXCEPT !.state = "done"] /\ init[i] \in [state : InitStates, at : Places]
        BY <2>0, <3>2, <3>4 DEF PublishType
      <4>2. /\ init'[i].state = "done" /\ init'[i].at = a
            /\ init'[i] \in [state : InitStates, at : Places]
        BY <2>0, <4>1 DEF InitStates, Alive
      <4>3. PublishType'
        BY <2>0, <3>1, <3>2, <4>2 DEF PublishType
      <4>4. ProgressOf(i)'
        BY <3>3, <4>2 DEF ProgressOf, Name
      <4>5. QED BY <2>0, <3>1, <3>2, <4>3, <4>4, QuietStands, StepOf
    <3>5. CASE a # Len(Files)
      <4>1. a + 1 \in Places
        BY <2>0, <3>5, PublishAssumption DEF Places
      <4>2. /\ init'[i].state = "write" /\ init'[i].at = a + 1
            /\ init'[i] \in [state : InitStates, at : Places]
        BY <3>2, <3>5, <4>1 DEF InitStates, Alive
      <4>3. PublishType'
        BY <2>0, <3>1, <3>2, <4>2 DEF PublishType
      <4>4. Before(i, a + 1)'
        BY <2>0, <3>3 DEF Before, Places
      <4>5. ProgressOf(i)'
        BY <4>2, <4>4 DEF ProgressOf
      <4>6. QED BY <2>0, <3>1, <3>2, <4>3, <4>5, QuietStands, StepOf
    <3>6. QED BY <3>4, <3>5
  <2>7. CASE Fail(i) \/ Undo(i)
    <3>1. PICK from \in InitStates, to \in {"undo", "failed"} : Quiet /\ Turn(i, from, to)
      BY <2>7 DEF Fail, Undo, Quiet, InitStates, Alive
    <3>2. /\ PublishType' /\ init'[i].state \in {"undo", "failed"}
          /\ \A j \in Inits \ {i} : init'[j] = init[j]
      BY <2>0, <3>1, TurnTyped DEF InitStates, Alive
    <3>3. ProgressOf(i)'
      BY <3>2 DEF ProgressOf, Alive
    <3>4. QED BY <2>0, <3>1, <3>2, <3>3, QuietStands, StepOf
  <2>8. CASE Kill(i)
    <3>1. Quiet /\ Turn(i, init[i].state, "failed")
      BY <2>8 DEF Kill, Quiet, Turn
    <3>2. /\ PublishType' /\ init'[i].state = "failed"
          /\ \A j \in Inits \ {i} : init'[j] = init[j]
      <4>1. PICK from : from = init[i].state OBVIOUS
      <4>2. QED BY <2>0, <3>1, <4>1, TurnTyped DEF InitStates, Alive
    <3>3. ProgressOf(i)'
      BY <3>2 DEF ProgressOf, Alive
    <3>4. QED BY <2>0, <3>1, <3>2, <3>3, QuietStands, StepOf
  <2>9. QED BY <1>2, <2>1, <2>2, <2>3, <2>4, <2>5, <2>6, <2>7, <2>8
<1>3. CASE PowerLoss
  <2>1. PICK kept \in SUBSET (DOMAIN visible \ DOMAIN durable) :
          visible' = [n \in DOMAIN durable \cup kept |-> visible[n]]
    BY <1>3 DEF PowerLoss, Restrict
  <2>2. /\ durable' = visible' /\ synced' = synced
        /\ torn' = torn \cup {n \in DOMAIN visible' : <<visible[n], n>> \notin synced}
        /\ init' = [i \in Inits |-> IF init[i].state \in {"start", "done"} THEN init[i]
                                    ELSE [init[i] EXCEPT !.state = "failed"]]
    BY <1>3 DEF PowerLoss
  <2>3. /\ DOMAIN visible' \subseteq DOMAIN visible /\ DOMAIN durable \subseteq DOMAIN visible'
        /\ \A x \in DOMAIN visible' : visible'[x] = visible[x]
    BY <2>1 DEF PublishInv, Standing
  <2>4. \A j, n : Before(j, n) => Before(j, n)'
    BY <2>2, <2>3, BeforeKept
  <2>5. Standing'
    <3>1. torn' = {} /\ \A n \in DOMAIN visible' : <<visible'[n], n>> \in synced'
      BY <2>2, <2>3 DEF PublishInv, Standing
    <3>2. ASSUME NEW n \in Places, Files[n] \in DOMAIN visible'
          PROVE  \A w : w = visible'[Files[n]] => Before(w, n)'
      <4>1. PICK w : w = visible[Files[n]] /\ Before(w, n)
        BY <2>3, <3>2 DEF PublishInv, Standing
      <4>2. Before(w, n)'
        BY <2>4, <4>1
      <4>3. QED BY <2>3, <3>2, <4>1, <4>2
    <3>3. QED BY <2>2, <3>1, <3>2 DEF Standing
  <2>6. PublishType'
    <3>1. ASSUME NEW i \in Inits
          PROVE  /\ init'[i] \in [state : InitStates, at : Places]
                 /\ init'[i].state = "start" => init'[i].at = 1
      <4>1. init[i] \in [state : InitStates, at : Places] /\ (init[i].state = "start" => init[i].at = 1)
        BY DEF PublishInv, PublishType
      <4>2. QED BY <2>2, <4>1 DEF InitStates, Alive
    <3>2. QED BY <2>2, <3>1 DEF PublishType
  <2>7. ASSUME NEW i \in Inits PROVE ProgressOf(i)'
    <3>0. PICK a : a = init[i].at OBVIOUS
    <3>1. CASE init[i].state = "done"
      <4>1. init'[i] = init[i] BY <2>2, <3>1
      <4>2. Before(i, a) /\ Files[a] \in DOMAIN visible /\ visible[Files[a]] = i
            /\ Files[a] \in DOMAIN durable
        BY <3>0, <3>1 DEF PublishInv, Progress, ProgressOf, Alive, Name
      <4>3. Before(i, a)' /\ Files[a] \in DOMAIN visible' /\ visible'[Files[a]] = i
            /\ Files[a] \in DOMAIN durable'
        BY <2>2, <2>3, <2>4, <4>2
      <4>4. QED BY <3>0, <3>1, <4>1, <4>3 DEF ProgressOf, Name
    <3>2. CASE init[i].state # "done"
      <4>1. init[i] \in [state : InitStates, at : Places]
        BY DEF PublishInv, PublishType
      <4>2. init'[i].state \in {"start", "failed"}
        BY <2>2, <3>2, <4>1
      <4>3. QED BY <4>2 DEF ProgressOf, Alive
    <3>3. QED BY <3>1, <3>2
  <2>8. QED BY <2>5, <2>6, <2>7 DEF PublishInv, Progress
<1>4. QED BY <1>1, <1>2, <1>3 DEF PublishNext

\* No file is visible without the ones before it, from one command and whole
\* (config.rs:178-217, common.rs:181-200).
THEOREM FilesTogetherHolds == PublishSpec \/ CommandsSpec => []FilesTogether
<1>1. PublishInv => FilesTogether
  BY DEF PublishInv, Standing, Before, Places, FilesTogether
<1>2. PublishSpec => []FilesTogether
  BY PublishInitInv, PublishStepInv, <1>1, PTL DEF PublishSpec
<1>3. CommandsInit => PublishInv
  BY PublishInitInv DEF CommandsInit
<1>4. CommandsSpec => []FilesTogether
  BY PublishStepInv, CommandSteps, <1>1, <1>3, PTL DEF CommandsSpec
<1>5. QED BY <1>2, <1>4

-----------------------------------------------------------------------------
(* One owner of the database.                                              *)

Opened == {"binding", "announcing", "serving", "draining", "cancelling", "stopping", "closing"}
Holding == {"opening", "unlocking"} \cup Opened
States == {"off", "locking"} \cup Holding

ServerType ==
  [state : States, starts : Int, requests : Int, held : Int,
   maintain : {"none", "idle", "running", "ended"}, cleanup : {"none", "idle", "ended"},
   cancelled : BOOLEAN, stop : BOOLEAN]

OwnerInv ==
  /\ server \in [Servers -> ServerType]
  /\ \A p \in Servers : server[p].state \in Holding => lock = p
  /\ database \subseteq {p \in Servers : server[p].state \in Opened}

\* Nothing runs and nothing is open at the beginning.
LEMMA ServiceInitOwner == ServiceInit => OwnerInv
BY DEF ServiceInit, OwnerInv, Off, ServerType, States, Holding, Opened

\* A step of one process keeps the types and every other process.
LEMMA TurnsOne ==
  ASSUME server \in [Servers -> ServerType], NEW p \in Servers, NEW next \in ServerType,
         Turns(p, next)
  PROVE  /\ server' \in [Servers -> ServerType] /\ server'[p] = next
         /\ \A q \in Servers \ {p} : server'[q] = server[q]
BY DEF Turns

\* A process that is off has a state of the type.
LEMMA OffTyped == Off \in ServerType
BY DEF Off, ServerType, States, Holding, Opened

\* So has one whose requests change between in flight and held.
LEMMA HeldTyped ==
  ASSUME NEW s \in ServerType
  PROVE  /\ [s EXCEPT !.requests = @ - 1, !.held = @ + 1] \in ServerType
         /\ [s EXCEPT !.held = @ - 1, !.requests = @ + 1] \in ServerType
<1>1. ASSUME NEW m \in Int, NEW n \in Int
      PROVE  /\ [s EXCEPT !.requests = m, !.held = n] \in ServerType
             /\ [s EXCEPT !.held = n, !.requests = m] \in ServerType
  BY DEF ServerType
<1>2. s.requests \in Int /\ s.held \in Int
  BY DEF ServerType
<1>3. /\ s.requests - 1 \in Int /\ s.requests + 1 \in Int
      /\ s.held - 1 \in Int /\ s.held + 1 \in Int
  BY <1>2
<1>4. QED BY <1>1, <1>3, Zenon

\* What a step that gives p the record next does to lock and database.
KeepsOwner(p, next) ==
  /\ \/ lock' = lock
     \/ lock = NoServer /\ lock' = p
     \/ lock = p /\ lock' = NoServer
  /\ next.state \in Holding => lock' = p
  /\ database' \subseteq database \cup {p}
  /\ p \in database' => next.state \in Opened

\* The invariant after a step, from the record that the step gives p.
LEMMA OwnerAfterTurn ==
  ASSUME OwnerInv, NEW p \in Servers, NEW next \in ServerType, Turns(p, next),
         KeepsOwner(p, next)
  PROVE  OwnerInv'
<1>1. /\ server' \in [Servers -> ServerType] /\ server'[p] = next
      /\ \A q \in Servers \ {p} : server'[q] = server[q]
  BY TurnsOne DEF OwnerInv
<1>2. ASSUME NEW q \in Servers, server'[q].state \in Holding PROVE lock' = q
  <2>1. CASE q = p BY <1>1, <1>2, <2>1 DEF KeepsOwner
  <2>2. CASE q # p
    <3>1. lock = q BY <1>1, <1>2, <2>2 DEF OwnerInv
    <3>2. QED BY <3>1, <2>2, ServiceAssumption DEF KeepsOwner
  <2>3. QED BY <2>1, <2>2
<1>3. database' \subseteq {q \in Servers : server'[q].state \in Opened}
  BY <1>1 DEF OwnerInv, KeepsOwner
<1>4. QED BY <1>1, <1>2, <1>3 DEF OwnerInv

\* Every step of a process keeps the lock around the open database.
LEMMA ServiceStepOwner == OwnerInv /\ [ServiceNext]_serviceVars => OwnerInv'
<1> SUFFICES ASSUME OwnerInv, [ServiceNext]_serviceVars PROVE OwnerInv'
  OBVIOUS
<1>1. CASE UNCHANGED serviceVars
  BY <1>1 DEF serviceVars, OwnerInv
<1>2. ASSUME NEW p \in Servers,
             \/ Runs(p) \/ Start(p) \/ Accept(p) \/ Hold(p) \/ LetGo(p)
             \/ Maintain(p) \/ Cleanup(p) \/ Signal(p) \/ KillServer(p)
      PROVE  OwnerInv'
  <2>0. /\ server[p] \in ServerType
        /\ server[p].state \in Holding => lock = p
        /\ p \in database => server[p].state \in Opened
    BY DEF OwnerInv
  <2>1. CASE TakeLock(p)
    <3>1. CASE lock = NoServer
      <4> DEFINE next == [server[p] EXCEPT !.state = "opening"]
      <4>1. next \in ServerType
        BY <2>0 DEF ServerType, States, Holding, Opened
      <4>2. Turns(p, next)
        BY <2>1, <3>1 DEF TakeLock, Moves
      <4>3. KeepsOwner(p, next)
        BY <2>0, <2>1, <3>1 DEF TakeLock, Moves, ServerType, Holding, Opened, KeepsOwner
      <4> HIDE DEF next
      <4>4. QED BY <4>1, <4>2, <4>3, OwnerAfterTurn
    <3>2. CASE lock # NoServer
      <4> DEFINE next == [server[p] EXCEPT !.state = "off"]
      <4>1. next \in ServerType
        BY <2>0 DEF ServerType, States, Holding, Opened
      <4>2. Turns(p, next)
        BY <2>1, <3>2 DEF TakeLock, Moves
      <4>3. KeepsOwner(p, next)
        BY <2>0, <2>1, <3>2 DEF TakeLock, Moves, ServerType, Holding, Opened, KeepsOwner
      <4> HIDE DEF next
      <4>4. QED BY <4>1, <4>2, <4>3, OwnerAfterTurn
    <3>3. QED BY <2>1, <3>1, <3>2 DEF TakeLock
  <2>2. CASE OpenStore(p)
    <3>1. CASE Moves(p, "opening", "binding") /\ database' = database \cup {p} /\ UNCHANGED lock
      <4> DEFINE next == [server[p] EXCEPT !.state = "binding"]
      <4>1. next \in ServerType
        BY <2>0 DEF ServerType, States, Holding, Opened
      <4>2. Turns(p, next)
        BY <2>2, <3>1 DEF OpenStore, Moves
      <4>3. KeepsOwner(p, next)
        BY <2>0, <2>2, <3>1 DEF OpenStore, Moves, ServerType, Holding, Opened, KeepsOwner
      <4> HIDE DEF next
      <4>4. QED BY <4>1, <4>2, <4>3, OwnerAfterTurn
    <3>2. CASE Moves(p, "opening", "off") /\ lock' = NoServer /\ UNCHANGED database
      <4> DEFINE next == [server[p] EXCEPT !.state = "off"]
      <4>1. next \in ServerType
        BY <2>0 DEF ServerType, States, Holding, Opened
      <4>2. Turns(p, next)
        BY <2>2, <3>2 DEF OpenStore, Moves
      <4>3. KeepsOwner(p, next)
        BY <2>0, <2>2, <3>2 DEF OpenStore, Moves, ServerType, Holding, Opened, KeepsOwner
      <4> HIDE DEF next
      <4>4. QED BY <4>1, <4>2, <4>3, OwnerAfterTurn
    <3>3. QED BY <2>2, <3>1, <3>2 DEF OpenStore
  <2>3. CASE Bind(p)
    <3>1. CASE port = NoServer
      <4> DEFINE next == [server[p] EXCEPT !.state = "announcing", !.maintain = "idle"]
      <4>1. next \in ServerType
        BY <2>0 DEF ServerType, States, Holding, Opened
      <4>2. Turns(p, next)
        BY <2>3, <3>1 DEF Bind, Moves
      <4>3. KeepsOwner(p, next)
        BY <2>0, <2>3, <3>1 DEF Bind, Moves, ServerType, Holding, Opened, KeepsOwner
      <4> HIDE DEF next
      <4>4. QED BY <4>1, <4>2, <4>3, OwnerAfterTurn
    <3>2. CASE port # NoServer
      <4> DEFINE next == [server[p] EXCEPT !.state = "closing"]
      <4>1. next \in ServerType
        BY <2>0 DEF ServerType, States, Holding, Opened
      <4>2. Turns(p, next)
        BY <2>3, <3>2 DEF Bind, Moves
      <4>3. KeepsOwner(p, next)
        BY <2>0, <2>3, <3>2 DEF Bind, Moves, ServerType, Holding, Opened, KeepsOwner
      <4> HIDE DEF next
      <4>4. QED BY <4>1, <4>2, <4>3, OwnerAfterTurn
    <3>3. QED BY <2>3, <3>1, <3>2 DEF Bind
  <2>4. CASE Announce(p)
    <3>1. CASE p \in Announcing /\ announced
      <4> DEFINE next == [server[p] EXCEPT !.state = "closing"]
      <4>1. next \in ServerType
        BY <2>0 DEF ServerType, States, Holding, Opened
      <4>2. Turns(p, next)
        BY <2>4, <3>1 DEF Announce
      <4>3. KeepsOwner(p, next)
        BY <2>0, <2>4, <3>1 DEF Announce, ServerType, Holding, Opened, KeepsOwner
      <4> HIDE DEF next
      <4>4. QED BY <4>1, <4>2, <4>3, OwnerAfterTurn
    <3>2. CASE ~(p \in Announcing /\ announced)
      <4> DEFINE next == [server[p] EXCEPT !.state = "serving", !.cleanup = "idle"]
      <4>1. next \in ServerType
        BY <2>0 DEF ServerType, States, Holding, Opened
      <4>2. Turns(p, next)
        BY <2>4, <3>2 DEF Announce
      <4>3. KeepsOwner(p, next)
        BY <2>0, <2>4, <3>2 DEF Announce, ServerType, Holding, Opened, KeepsOwner
      <4> HIDE DEF next
      <4>4. QED BY <4>1, <4>2, <4>3, OwnerAfterTurn
    <3>3. QED BY <2>4, <3>1, <3>2 DEF Announce
  <2>5. CASE Respond(p)
    <3> DEFINE next == [server[p] EXCEPT !.requests = @ - 1]
    <3>1. next \in ServerType
      BY <2>0 DEF ServerType, States, Holding, Opened
    <3>2. Turns(p, next)
      BY <2>5 DEF Respond
    <3>3. KeepsOwner(p, next)
      BY <2>0, <2>5 DEF Respond, ServerType, Holding, Opened, KeepsOwner
    <3> HIDE DEF next
    <3>4. QED BY <3>1, <3>2, <3>3, OwnerAfterTurn
  <2>6. CASE Drained(p)
    <3> DEFINE next == [server[p] EXCEPT !.state = "cancelling", !.cancelled = TRUE]
    <3>1. next \in ServerType
      BY <2>0 DEF ServerType, States, Holding, Opened
    <3>2. Turns(p, next)
      BY <2>6 DEF Drained
    <3>3. KeepsOwner(p, next)
      BY <2>0, <2>6 DEF Drained, ServerType, Holding, Opened, KeepsOwner
    <3> HIDE DEF next
    <3>4. QED BY <3>1, <3>2, <3>3, OwnerAfterTurn
  <2>7. CASE StopMaintenance(p)
    <3> DEFINE next == [server[p] EXCEPT !.state = "stopping", !.stop = TRUE]
    <3>1. next \in ServerType
      BY <2>0 DEF ServerType, States, Holding, Opened
    <3>2. Turns(p, next)
      BY <2>7 DEF StopMaintenance
    <3>3. KeepsOwner(p, next)
      BY <2>0, <2>7 DEF StopMaintenance, ServerType, Holding, Opened, KeepsOwner
    <3> HIDE DEF next
    <3>4. QED BY <3>1, <3>2, <3>3, OwnerAfterTurn
  <2>8. CASE Stopped(p)
    <3> DEFINE next == [server[p] EXCEPT !.state = "closing"]
    <3>1. next \in ServerType
      BY <2>0 DEF ServerType, States, Holding, Opened
    <3>2. Turns(p, next)
      BY <2>8 DEF Stopped, Moves
    <3>3. KeepsOwner(p, next)
      BY <2>0, <2>8 DEF Stopped, Moves, ServerType, Holding, Opened, KeepsOwner
    <3> HIDE DEF next
    <3>4. QED BY <3>1, <3>2, <3>3, OwnerAfterTurn
  <2>9. CASE CloseThenUnlock(p)
    <3>1. CASE Moves(p, "closing", "unlocking") /\ database' = database \ {p} /\ UNCHANGED lock
      <4> DEFINE next == [server[p] EXCEPT !.state = "unlocking"]
      <4>1. next \in ServerType
        BY <2>0 DEF ServerType, States, Holding, Opened
      <4>2. Turns(p, next)
        BY <2>9, <3>1 DEF CloseThenUnlock, Moves
      <4>3. KeepsOwner(p, next)
        BY <2>0, <2>9, <3>1 DEF CloseThenUnlock, Moves, ServerType, Holding, Opened, KeepsOwner
      <4> HIDE DEF next
      <4>4. QED BY <4>1, <4>2, <4>3, OwnerAfterTurn
    <3>2. CASE Moves(p, "unlocking", "off") /\ lock' = NoServer /\ UNCHANGED database
      <4> DEFINE next == [server[p] EXCEPT !.state = "off"]
      <4>1. next \in ServerType
        BY <2>0 DEF ServerType, States, Holding, Opened
      <4>2. Turns(p, next)
        BY <2>9, <3>2 DEF CloseThenUnlock, Moves
      <4>3. KeepsOwner(p, next)
        BY <2>0, <2>9, <3>2 DEF CloseThenUnlock, Moves, ServerType, Holding, Opened, KeepsOwner
      <4> HIDE DEF next
      <4>4. QED BY <4>1, <4>2, <4>3, OwnerAfterTurn
    <3>3. QED BY <2>9, <3>1, <3>2 DEF CloseThenUnlock
  <2>10. CASE Start(p)
    <3> DEFINE next == [Off EXCEPT !.state = "locking", !.starts = server[p].starts + 1]
    <3>0. server[p].starts \in Int
      BY <2>0 DEF ServerType
    <3>1. next \in ServerType
      <4> DEFINE n == server[p].starts + 1
      <4>1. n \in Int BY <3>0
      <4> HIDE DEF n
      <4>2. [Off EXCEPT !.state = "locking", !.starts = n] \in ServerType
        BY <4>1, OffTyped DEF ServerType, States, Holding, Opened
      <4>3. QED BY <4>2 DEF n
    <3>2. Turns(p, next)
      BY <2>10 DEF Start
    <3>3. KeepsOwner(p, next)
      BY <2>0, <2>10 DEF Start, ServerType, Holding, Opened, Off, KeepsOwner
    <3> HIDE DEF next
    <3>4. QED BY <3>1, <3>2, <3>3, OwnerAfterTurn
  <2>11. CASE Accept(p)
    <3> DEFINE next == [server[p] EXCEPT !.requests = @ + 1]
    <3>1. next \in ServerType
      BY <2>0 DEF ServerType, States, Holding, Opened
    <3>2. Turns(p, next)
      BY <2>11 DEF Accept
    <3>3. KeepsOwner(p, next)
      BY <2>0, <2>11 DEF Accept, ServerType, Holding, Opened, KeepsOwner
    <3> HIDE DEF next
    <3>4. QED BY <3>1, <3>2, <3>3, OwnerAfterTurn
  <2>12. CASE Maintain(p)
    <3>1. CASE Turns(p, [server[p] EXCEPT !.maintain = "running"])
      <4> DEFINE next == [server[p] EXCEPT !.maintain = "running"]
      <4>1. next \in ServerType
        BY <2>0 DEF ServerType, States, Holding, Opened
      <4>2. Turns(p, next)
        BY <2>12, <3>1 DEF Maintain
      <4>3. KeepsOwner(p, next)
        BY <2>0, <2>12, <3>1 DEF Maintain, ServerType, Holding, Opened, KeepsOwner
      <4> HIDE DEF next
      <4>4. QED BY <4>1, <4>2, <4>3, OwnerAfterTurn
    <3>2. CASE Turns(p, [server[p] EXCEPT !.maintain = "idle"])
      <4> DEFINE next == [server[p] EXCEPT !.maintain = "idle"]
      <4>1. next \in ServerType
        BY <2>0 DEF ServerType, States, Holding, Opened
      <4>2. Turns(p, next)
        BY <2>12, <3>2 DEF Maintain
      <4>3. KeepsOwner(p, next)
        BY <2>0, <2>12, <3>2 DEF Maintain, ServerType, Holding, Opened, KeepsOwner
      <4> HIDE DEF next
      <4>4. QED BY <4>1, <4>2, <4>3, OwnerAfterTurn
    <3>3. CASE Turns(p, [server[p] EXCEPT !.maintain = "ended"])
      <4> DEFINE next == [server[p] EXCEPT !.maintain = "ended"]
      <4>1. next \in ServerType
        BY <2>0 DEF ServerType, States, Holding, Opened
      <4>2. Turns(p, next)
        BY <2>12, <3>3 DEF Maintain
      <4>3. KeepsOwner(p, next)
        BY <2>0, <2>12, <3>3 DEF Maintain, ServerType, Holding, Opened, KeepsOwner
      <4> HIDE DEF next
      <4>4. QED BY <4>1, <4>2, <4>3, OwnerAfterTurn
    <3>4. QED BY <2>12, <3>1, <3>2, <3>3 DEF Maintain
  <2>13. CASE Cleanup(p)
    <3> DEFINE next == [server[p] EXCEPT !.cleanup = "ended"]
    <3>1. next \in ServerType
      BY <2>0 DEF ServerType, States, Holding, Opened
    <3>2. Turns(p, next)
      BY <2>13 DEF Cleanup
    <3>3. KeepsOwner(p, next)
      BY <2>0, <2>13 DEF Cleanup, ServerType, Holding, Opened, KeepsOwner
    <3> HIDE DEF next
    <3>4. QED BY <3>1, <3>2, <3>3, OwnerAfterTurn
  <2>14. CASE Signal(p)
    <3> DEFINE next == [server[p] EXCEPT !.state = "draining"]
    <3>1. next \in ServerType
      BY <2>0 DEF ServerType, States, Holding, Opened
    <3>2. Turns(p, next)
      BY <2>14 DEF Signal, Moves
    <3>3. KeepsOwner(p, next)
      BY <2>0, <2>14 DEF Signal, Moves, ServerType, Holding, Opened, KeepsOwner
    <3> HIDE DEF next
    <3>4. QED BY <3>1, <3>2, <3>3, OwnerAfterTurn
  <2>15. CASE KillServer(p)
    <3> DEFINE next == [Off EXCEPT !.starts = server[p].starts]
    <3>1. next \in ServerType
      BY <2>0, OffTyped DEF ServerType, States, Holding, Opened
    <3>2. Turns(p, next)
      BY <2>15 DEF KillServer
    <3>3. KeepsOwner(p, next)
      BY <2>0, <2>15 DEF KillServer, ServerType, Holding, Opened, Off, KeepsOwner
    <3> HIDE DEF next
    <3>4. QED BY <3>1, <3>2, <3>3, OwnerAfterTurn
  <2>16. CASE Hold(p)
    <3> DEFINE next == [server[p] EXCEPT !.requests = @ - 1, !.held = @ + 1]
    <3>1. next \in ServerType
      BY <2>0, HeldTyped
    <3>2. Turns(p, next)
      BY <2>16 DEF Hold
    <3>3. KeepsOwner(p, next)
      BY <2>0, <2>16 DEF Hold, ServerType, Holding, Opened, KeepsOwner
    <3> HIDE DEF next
    <3>4. QED BY <3>1, <3>2, <3>3, OwnerAfterTurn
  <2>17. CASE LetGo(p)
    <3>1. CASE Turns(p, [server[p] EXCEPT !.held = @ - 1, !.requests = @ + 1])
      <4> DEFINE next == [server[p] EXCEPT !.held = @ - 1, !.requests = @ + 1]
      <4>1. next \in ServerType
        BY <2>0, HeldTyped
      <4>2. KeepsOwner(p, next)
        BY <2>0, <2>17 DEF LetGo, ServerType, Holding, Opened, KeepsOwner
      <4>3. Turns(p, next)
        BY <3>1
      <4> HIDE DEF next
      <4>4. QED BY <4>1, <4>2, <4>3, OwnerAfterTurn
    <3>2. CASE Turns(p, [server[p] EXCEPT !.held = @ - 1])
      <4> DEFINE next == [server[p] EXCEPT !.held = @ - 1]
      <4>1. next \in ServerType
        BY <2>0 DEF ServerType, States, Holding, Opened
      <4>2. KeepsOwner(p, next)
        BY <2>0, <2>17 DEF LetGo, ServerType, Holding, Opened, KeepsOwner
      <4>3. Turns(p, next)
        BY <3>2
      <4> HIDE DEF next
      <4>4. QED BY <4>1, <4>2, <4>3, OwnerAfterTurn
    <3>3. QED BY <2>17, <3>1, <3>2 DEF LetGo
  <2>18. QED BY <1>2, <2>1, <2>2, <2>3, <2>4, <2>5, <2>6, <2>7, <2>8, <2>9, <2>10,
               <2>11, <2>12, <2>13, <2>14, <2>15, <2>16, <2>17 DEF Runs
<1>3. QED BY <1>1, <1>2 DEF ServiceNext

\* Whoever has the database open is the holder of the lock.
LEMMA OwnerIsOne == OwnerInv => OneOwner
<1> SUFFICES ASSUME OwnerInv PROVE Cardinality(database) <= 1
  BY DEF OneOwner
<1>1. database \in SUBSET {lock}
  BY DEF OwnerInv, Holding
<1>2. IsFiniteSet({lock}) /\ Cardinality({lock}) = 1
  BY FS_Singleton
<1>3. IsFiniteSet(database) /\ Cardinality(database) <= Cardinality({lock})
  BY <1>1, <1>2, FS_Subset
<1>4. QED BY <1>2, <1>3

\* No two processes ever have the database open (server.rs:40-48, 448-471).
THEOREM OneOwnerHolds == ServiceSpec \/ CommandsSpec => []OneOwner
<1>1. ServiceSpec => []OwnerInv
  BY ServiceInitOwner, ServiceStepOwner, PTL DEF ServiceSpec
<1>2. CommandsInit => OwnerInv
  BY ServiceInitOwner DEF CommandsInit
<1>3. CommandsSpec => []OwnerInv
  BY ServiceStepOwner, CommandSteps, <1>2, PTL DEF CommandsSpec
<1>4. QED BY <1>1, <1>3, OwnerIsOne, PTL

=============================================================================
