------------------------------ MODULE Service ------------------------------
(***************************************************************************)
(* tekes-memory serve: how serve of server.rs takes the data directory     *)
(* (flock, database, port, ready file), runs requests, maintenance and     *)
(* session cleanup, and stops at a signal. Several processes may be        *)
(* started on one directory, one after the other or at once, and each may  *)
(* be killed. What requests and maintenance do is in Store, Calls and      *)
(* Sessions.                                                               *)
(***************************************************************************)
EXTENDS Integers, FiniteSets

CONSTANTS
  Servers,     \* processes
  Announcing,  \* the ones with --ready-file
  NoServer,
  MaxStarts,   \* bound on starts of one process
  MaxRequests  \* bound on connections with a request

VARIABLES
  server,    \* state, starts, requests in flight or held by peers, two tasks, stop channel
  lock,      \* who holds service.lock
  port,      \* who listens
  database,  \* who has the database open
  announced  \* the ready file exists

serviceVars == <<server, lock, port, database, announced>>

ASSUME ServiceAssumption ==
  NoServer \notin Servers /\ Announcing \subseteq Servers /\ MaxStarts \in Nat /\ MaxRequests \in Nat

Off == [state |-> "off", starts |-> 0, requests |-> 0, held |-> 0, maintain |-> "none",
        cleanup |-> "none", cancelled |-> FALSE, stop |-> FALSE]

ServiceInit ==
  /\ server = [p \in Servers |-> Off] /\ lock = NoServer /\ port = NoServer
  /\ database = {} /\ announced = FALSE

Turns(p, next) == server' = [server EXCEPT ![p] = next]
Moves(p, from, to) == server[p].state = from /\ Turns(p, [server[p] EXCEPT !.state = to])

-----------------------------------------------------------------------------
(* Starting *)

Start(p) ==
  /\ server[p].state = "off" /\ server[p].starts < MaxStarts
  /\ Turns(p, [Off EXCEPT !.state = "locking", !.starts = server[p].starts + 1])
  /\ UNCHANGED <<lock, port, database, announced>>

TakeLock(p) ==
  /\ IF lock = NoServer THEN Moves(p, "locking", "opening") /\ lock' = p
     ELSE Moves(p, "locking", "off") /\ UNCHANGED lock
  /\ UNCHANGED <<port, database, announced>>

\* Store::open succeeds, or fails and the lock goes with the process.
OpenStore(p) ==
  /\ \/ Moves(p, "opening", "binding") /\ database' = database \cup {p} /\ UNCHANGED lock
     \/ Moves(p, "opening", "off") /\ lock' = NoServer /\ UNCHANGED database
  /\ UNCHANGED <<port, announced>>

\* A port that is taken ends the start; otherwise maintenance starts.
Bind(p) ==
  /\ IF port = NoServer
     THEN /\ server[p].state = "binding" /\ port' = p
          /\ Turns(p, [server[p] EXCEPT !.state = "announcing", !.maintain = "idle"])
     ELSE Moves(p, "binding", "closing") /\ UNCHANGED port
  /\ UNCHANGED <<lock, database, announced>>

\* A ready file that is there already is not replaced and ends the start.
Announce(p) ==
  /\ server[p].state = "announcing" /\ UNCHANGED <<lock, database>>
  /\ IF p \in Announcing /\ announced
     THEN Turns(p, [server[p] EXCEPT !.state = "closing"]) /\ port' = NoServer /\ UNCHANGED announced
     ELSE /\ Turns(p, [server[p] EXCEPT !.state = "serving", !.cleanup = "idle"])
          /\ announced' = (announced \/ p \in Announcing) /\ UNCHANGED port

-----------------------------------------------------------------------------
(* Running *)

Accept(p) ==
  /\ server[p].state = "serving" /\ server[p].requests + server[p].held < MaxRequests
  /\ Turns(p, [server[p] EXCEPT !.requests = @ + 1]) /\ UNCHANGED <<lock, port, database, announced>>

\* A handler ends and its answer is taken: the body is read within 3 seconds,
\* the answer given within 30.
Respond(p) ==
  /\ server[p].requests > 0 /\ Turns(p, [server[p] EXCEPT !.requests = @ - 1])
  /\ UNCHANGED <<lock, port, database, announced>>

\* A peer does not complete the head of its request, or does not read its
\* answer: nothing in serve bounds how long.
Hold(p) ==
  /\ server[p].requests > 0
  /\ Turns(p, [server[p] EXCEPT !.requests = @ - 1, !.held = @ + 1])
  /\ UNCHANGED <<lock, port, database, announced>>

\* It goes on, or goes away.
LetGo(p) ==
  /\ server[p].held > 0
  /\ \/ Turns(p, [server[p] EXCEPT !.held = @ - 1, !.requests = @ + 1])
     \/ Turns(p, [server[p] EXCEPT !.held = @ - 1])
  /\ UNCHANGED <<lock, port, database, announced>>

\* One call of maintain on a blocking thread, then a pause that the stop
\* channel ends. The channel keeps its value: a stop sent meanwhile is seen.
Maintain(p) ==
  /\ \/ /\ server[p].maintain = "idle" /\ ~server[p].stop
        /\ server[p].state \notin {"closing", "unlocking"}
        /\ Turns(p, [server[p] EXCEPT !.maintain = "running"])
     \/ /\ server[p].maintain = "running" /\ Turns(p, [server[p] EXCEPT !.maintain = "idle"])
     \/ /\ server[p].maintain = "idle" /\ server[p].stop
        /\ Turns(p, [server[p] EXCEPT !.maintain = "ended"])
  /\ UNCHANGED <<lock, port, database, announced>>

Cleanup(p) ==
  /\ server[p].cleanup = "idle" /\ server[p].cancelled
  /\ Turns(p, [server[p] EXCEPT !.cleanup = "ended"]) /\ UNCHANGED <<lock, port, database, announced>>

-----------------------------------------------------------------------------
(* Stopping *)

\* SIGTERM or SIGINT: no new requests, and the listener is closed.
Signal(p) ==
  /\ Moves(p, "serving", "draining") /\ port' = NoServer /\ UNCHANGED <<lock, database, announced>>

\* axum waits for every connection that has a request, a held one too.
Drained(p) ==
  /\ server[p].state = "draining" /\ server[p].requests = 0 /\ server[p].held = 0
  /\ Turns(p, [server[p] EXCEPT !.state = "cancelling", !.cancelled = TRUE])
  /\ UNCHANGED <<lock, port, database, announced>>

\* Mutation: the stop is sent only when the maintenance task has ended.
StopAfterMaintenance(p) ==
  /\ server[p].state = "cancelling" /\ server[p].cleanup = "ended" /\ server[p].maintain = "ended"
  /\ Turns(p, [server[p] EXCEPT !.state = "stopping", !.stop = TRUE])
  /\ UNCHANGED <<lock, port, database, announced>>

StopMaintenance(p) ==
  /\ server[p].state = "cancelling" /\ server[p].cleanup = "ended"
  /\ Turns(p, [server[p] EXCEPT !.state = "stopping", !.stop = TRUE])
  /\ UNCHANGED <<lock, port, database, announced>>

Stopped(p) ==
  /\ server[p].maintain = "ended" /\ Moves(p, "stopping", "closing")
  /\ UNCHANGED <<lock, port, database, announced>>

\* Mutation: the lock is the first field of Inner, and dropped first.
UnlockThenClose(p) ==
  /\ \/ Moves(p, "closing", "unlocking") /\ lock' = NoServer /\ UNCHANGED database
     \/ Moves(p, "unlocking", "off") /\ database' = database \ {p} /\ UNCHANGED lock
  /\ UNCHANGED <<port, announced>>

\* Inner, or the locals of a failed start: the store before the lock, and
\* neither while a call of maintain still runs on its blocking thread.
CloseThenUnlock(p) ==
  /\ \/ server[p].maintain # "running"
        /\ Moves(p, "closing", "unlocking") /\ database' = database \ {p} /\ UNCHANGED lock
     \/ Moves(p, "unlocking", "off") /\ lock' = NoServer /\ UNCHANGED database
  /\ UNCHANGED <<port, announced>>

\* SIGKILL or power: the kernel takes lock, port and files back. The ready
\* file stays, as it does after a clean stop.
KillServer(p) ==
  /\ server[p].state # "off" /\ Turns(p, [Off EXCEPT !.starts = server[p].starts])
  /\ lock' = IF lock = p THEN NoServer ELSE lock
  /\ port' = IF port = p THEN NoServer ELSE port
  /\ database' = database \ {p} /\ UNCHANGED announced

-----------------------------------------------------------------------------
Runs(p) ==
  \/ TakeLock(p) \/ OpenStore(p) \/ Bind(p) \/ Announce(p)
  \/ Respond(p) \/ Drained(p) \/ StopMaintenance(p) \/ Stopped(p) \/ CloseThenUnlock(p)
ServiceNext ==
  \E p \in Servers :
    \/ Runs(p) \/ Start(p) \/ Accept(p) \/ Hold(p) \/ LetGo(p)
    \/ Maintain(p) \/ Cleanup(p) \/ Signal(p) \/ KillServer(p)

\* Started processes, their tasks and their handlers run; nobody has to
\* start, call or signal one, and no peer has to go on.
ServiceFairness ==
  \A p \in Servers : /\ WF_serviceVars(Runs(p)) /\ WF_serviceVars(Maintain(p))
                     /\ WF_serviceVars(Cleanup(p))

ServiceSpec == ServiceInit /\ [][ServiceNext]_serviceVars /\ ServiceFairness

-----------------------------------------------------------------------------
(* Properties *)

\* At no time have two processes the database open, not even while one stops
\* or fails to start and the next one starts (server.rs:40-48, 448-471;
\* docs/design/rmcp-migration.md:26, serve is the only owner of the store).
OneOwner == Cardinality(database) <= 1

\* A signal ends the process: the requests in flight, the cleanup task and
\* the maintenance task end in the order in which serve waits for them, and
\* the directory is free again, unless a peer holds its connection for ever:
\* serve sets that no limit (server.rs:586-600).
StopEnds ==
  \A p \in Servers :
    server[p].state = "draining"
      ~> \/ server[p].state = "off" /\ lock # p
         \/ server[p].state = "draining" /\ server[p].held > 0

=============================================================================
