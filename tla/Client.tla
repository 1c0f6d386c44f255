------------------------------- MODULE Client -------------------------------
(***************************************************************************)
(* The synchronous client of client.rs: a caller's thread and the reactor  *)
(* thread it starts, joined by a queue of commands, a reply channel for    *)
(* each command and the ready channel, and the service at the other end.   *)
(* Any wait of either thread may run into its timeout, a request or a      *)
(* response may be lost, and the process may end as soon as the caller has *)
(* returned from drop.                                                     *)
(***************************************************************************)
EXTENDS Integers, Sequences, FiniteSets, SequencesExt

CONSTANTS
  MaxCommands  \* bound on the requests of one client

VARIABLES
  caller,   \* the caller's thread and what its Client holds
  link,     \* the ready channel, the queue, the last command's reply channel
  reactor,  \* the reactor thread and the command it waits for (0: none)
  service   \* the session, the commands on their way, the commands executed

clientVars == <<caller, link, reactor, service>>

ASSUME ClientAssumption == MaxCommands \in Nat

\* "doubted" is history: the commands sent and answered "unavailable".
ClientInit ==
  /\ caller = [state |-> "opening", late |-> FALSE, sender |-> TRUE, issued |-> 0, doubted |-> {}]
  /\ link = [ready |-> "none", queue |-> <<>>, reply |-> "none"]
  /\ reactor = [state |-> "connecting", serving |-> 0]
  /\ service = [session |-> "none", wire |-> {}, executed |-> <<>>]

-----------------------------------------------------------------------------
(* The caller's thread *)

CallerTurns(next) == caller' = next /\ UNCHANGED <<link, reactor, service>>

OpenReturns ==
  /\ caller.state = "opening" /\ link.ready # "none"
  /\ IF link.ready = "ok" THEN CallerTurns([caller EXCEPT !.state = "idle"])
     ELSE CallerTurns([caller EXCEPT !.state = "failed", !.sender = FALSE])

\* recv_timeout gives up on the ready channel, and the queue is dropped.
OpenTimesOut ==
  /\ caller.state = "opening"
  /\ CallerTurns([caller EXCEPT !.state = "failed", !.late = TRUE, !.sender = FALSE])

Expire ==
  /\ ~caller.late /\ caller.state \in {"idle", "waiting"}
  /\ CallerTurns([caller EXCEPT !.late = TRUE])

ResetDeadline ==
  caller.state = "idle" /\ caller.late /\ CallerTurns([caller EXCEPT !.late = FALSE])

\* A request after the deadline, or without a sender or a receiver, is
\* answered "unavailable" and changes nothing. The reactor drops the receiver
\* only after it has closed the session, so a request may still be queued
\* behind its last command.
Request ==
  /\ caller.state = "idle" /\ ~caller.late /\ caller.sender /\ reactor.state # "gone"
  /\ caller.issued < MaxCommands
  /\ caller' = [caller EXCEPT !.state = "waiting", !.issued = @ + 1]
  /\ link' = [link EXCEPT !.queue = Append(@, caller.issued + 1), !.reply = "none"]
  /\ UNCHANGED <<reactor, service>>

Doubt == caller.doubted \cup {caller.issued}

\* "disconnected": the reactor dropped the command without an answer, which
\* recv_timeout reports like a timeout.
RequestReturns ==
  /\ caller.state = "waiting" /\ link.reply # "none"
  /\ CallerTurns(
       [caller EXCEPT !.state = "idle", !.sender = (link.reply # "disconnected"),
          !.doubted = IF link.reply \in {"data", "protocol"} THEN @ ELSE Doubt])

\* Mutation: the queue stays open after a timeout.
GiveUpKeepingSender ==
  /\ caller.state = "waiting" /\ caller.late
  /\ CallerTurns([caller EXCEPT !.state = "idle", !.doubted = Doubt])

GiveUp ==
  /\ caller.state = "waiting" /\ caller.late
  /\ CallerTurns([caller EXCEPT !.state = "idle", !.sender = FALSE, !.doubted = Doubt])

\* Drop closes the queue and waits for the reactor, but at most 100 ms.
Drop ==
  caller.state = "idle" /\ CallerTurns([caller EXCEPT !.state = "dropping", !.sender = FALSE])

DropReturns == caller.state = "dropping" /\ CallerTurns([caller EXCEPT !.state = "dropped"])

\* The process ends with its main thread, whatever the reactor is doing.
ExitProcess ==
  /\ caller.state \in {"failed", "dropped"} /\ reactor.state # "gone"
  /\ reactor' = [reactor EXCEPT !.state = "killed"] /\ UNCHANGED <<caller, link, service>>

-----------------------------------------------------------------------------
(* The reactor thread *)

ReactorTurns(state, serving) == reactor' = [state |-> state, serving |-> serving]


\* It does not matter whether anyone still listens to the ready channel.
Connected ==
  /\ reactor.state = "connecting" /\ service.session = "open"
  /\ ReactorTurns("ready", 0) /\ link' = [link EXCEPT !.ready = "ok"]
  /\ service' = [service EXCEPT !.session = "confirmed"] /\ UNCHANGED caller

\* No runtime, no connection, no answer in time, or another protocol version.
ConnectFails ==
  /\ reactor.state = "connecting" /\ ReactorTurns("gone", 0)
  /\ link' = [link EXCEPT !.ready = "failed"] /\ UNCHANGED <<caller, service>>

TakeCommand ==
  /\ reactor.state = "ready" /\ link.queue # <<>>
  /\ ReactorTurns("calling", Head(link.queue)) /\ link' = [link EXCEPT !.queue = Tail(@)]
  /\ service' = [service EXCEPT !.wire = @ \cup {Head(link.queue)}] /\ UNCHANGED caller

\* recv fails only when the queue is empty and its sender dropped.
QueueEnds ==
  /\ reactor.state = "ready" /\ link.queue = <<>> /\ ~caller.sender
  /\ ReactorTurns("closing", 0) /\ UNCHANGED <<caller, link, service>>

\* A reply whose receiver has given up is ignored.
Reply(n, r) ==
  IF caller.state = "waiting" /\ caller.issued = n /\ link.reply = "none"
  THEN [link EXCEPT !.reply = r] ELSE link

\* The service's result, or its protocol error.
CallSucceeds ==
  /\ reactor.state = "calling" /\ reactor.serving \in ToSet(service.executed)
  /\ \E r \in {"data", "protocol"} : link' = Reply(reactor.serving, r)
  /\ ReactorTurns("ready", 0) /\ UNCHANGED <<caller, service>>

\* The timeout, or an error of the transport.
CallFails ==
  /\ reactor.state = "calling" /\ link' = Reply(reactor.serving, "unavailable")
  /\ ReactorTurns("closing", 0) /\ UNCHANGED <<caller, service>>

\* DELETE ends the session unless it is lost; then the queue is dropped with
\* what is still in it.
Close ==
  /\ reactor.state = "closing" /\ ReactorTurns("gone", 0)
  /\ \E s \in {"deleted", "unreached"} : service' = [service EXCEPT !.session = s]
  /\ link' = IF link.queue = <<>> THEN link
             ELSE [Reply(Last(link.queue), "disconnected") EXCEPT !.queue = <<>>]
  /\ UNCHANGED caller

-----------------------------------------------------------------------------
(* The service: external *)

ServiceTurns(next) == service' = next /\ UNCHANGED <<caller, link, reactor>>

\* It handles initialize, although the response may not be read.
OpenSession ==
  /\ service.session = "none" /\ reactor.state = "connecting"
  /\ ServiceTurns([service EXCEPT !.session = "open"])

\* A request that has reached the service runs to its end, whether or not
\* anyone still waits for it.
Execute ==
  \E n \in service.wire :
    ServiceTurns([service EXCEPT !.wire = @ \ {n}, !.executed = Append(@, n)])

Lose == \E n \in service.wire : ServiceTurns([service EXCEPT !.wire = @ \ {n}])

-----------------------------------------------------------------------------
CallerNext ==
  \/ OpenReturns \/ OpenTimesOut \/ Expire \/ ResetDeadline \/ Request \/ RequestReturns
  \/ GiveUp \/ Drop \/ DropReturns \/ ExitProcess
ReactorNext ==
  Connected \/ ConnectFails \/ TakeCommand \/ QueueEnds \/ CallSucceeds \/ CallFails \/ Close
ClientNext == CallerNext \/ ReactorNext \/ OpenSession \/ Execute \/ Lose

\* Each wait of the reactor for the service has a timeout.
ClientFairness == WF_clientVars(ReactorNext)

ClientSpec == ClientInit /\ [][ClientNext]_clientVars /\ ClientFairness

-----------------------------------------------------------------------------
(* Properties *)

\* Once a request was sent and answered "unavailable", its fate is unknown;
\* nothing that the same client is asked for later is executed, so that no
\* later effect can overtake it, and nothing is executed twice
\* (client.rs:177-201, 242-250; no retries, 19-24).
NothingAfterDoubt ==
  /\ \A i, j \in DOMAIN service.executed : i < j => service.executed[i] < service.executed[j]
  /\ \A n \in ToSet(service.executed), m \in caller.doubted : n <= m


=============================================================================
