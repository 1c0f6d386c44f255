------------------------------- MODULE Sessions -------------------------------
(***************************************************************************)
(* HTTP sessions of server.rs: handle() and the cleanup task of serve().   *)
(* A session exists twice, in the SDK's LocalSessionManager (sdk) and in   *)
(* the map that binds it to a principal and a term of one hour (sessions). *)
(* The handlers run on several threads and lock each table for a moment    *)
(* only; a client that hangs up drops its handler at whatever .await it    *)
(* has reached. The SDK is external: it is modelled from what handle()     *)
(* relies on, that it opens a session for an initialize request, refuses   *)
(* the requests of sessions it does not have, and closes idle ones.        *)
(***************************************************************************)
EXTENDS Integers, FiniteSets, Functions

CONSTANTS
  Principals,
  Sids,      \* session ids the SDK draws
  Handlers,  \* requests that are handled at a time: the slots of Inner
  Limit,     \* sessions there may be (1024)
  Nobody,    \* no handler, no principal
  NoSid,
  Kinds      \* bound: the requests that clients send

VARIABLES
  sdk,        \* the sessions of the LocalSessionManager
  sessions,   \* Inner::sessions
  gate,       \* the handler that holds initialize_gate
  handler,    \* what each handler is doing
  cleaner,    \* the cleanup task and its local variables
  unbound,    \* its table of unbound sessions: no, seen, aged (for a minute)
  owner,      \* who initialized a session (history)
  confirmed,  \* sessions whose initialized notification the SDK took (history)
  promised    \* sessions handed to their client and not ended since (history)

vars == <<sdk, sessions, gate, handler, cleaner, unbound, owner, confirmed, promised>>

AllKinds == {"initialize", "initialized", "call", "delete"}

ASSUME SessionsAssumption ==
  /\ Limit \in Nat /\ Kinds \subseteq AllKinds
  /\ NoSid \notin Sids /\ Nobody \notin Handlers /\ Nobody \notin Principals
  /\ IsFiniteSet(Sids) /\ IsFiniteSet(Handlers)

Idle == [pc |-> "idle", kind |-> "call", principal |-> Nobody, sid |-> NoSid]
Asleep == [pc |-> "asleep", entries |-> {}, todo |-> {}, sid |-> NoSid,
           expired |-> FALSE, orphan |-> FALSE]

Bound == DOMAIN sessions
NewSession(p) == [principal |-> p, initialized |-> FALSE, expired |-> FALSE]

Insert(s, entry) ==
  [x \in Bound \cup {s} |-> IF x = s THEN entry ELSE sessions[x]]

\* Handlers that hold a permit of session_slots; so does each bound session.
Reserving == {h \in Handlers : handler[h].pc \in {"admitted", "created", "answered"}}
Permits == Cardinality(Reserving) + Cardinality(Bound)

Handshaking(s) ==
  \E h \in Handlers : handler[h].sid = s /\ handler[h].pc \in {"created", "answered"}

Go(h, pc) == handler' = [handler EXCEPT ![h].pc = pc]
Stop(h) == handler' = [handler EXCEPT ![h] = Idle]
Others == UNCHANGED <<sdk, sessions, gate, cleaner, unbound, owner, confirmed, promised>>

-----------------------------------------------------------------------------
(* initialize *)

\* An authorised initialize request waits for initialize_gate.
Connect(h, p) ==
  /\ "initialize" \in Kinds
  /\ handler[h].pc = "idle"
  /\ handler' = [handler EXCEPT ![h] =
                   [pc |-> "waiting", kind |-> "initialize", principal |-> p, sid |-> NoSid]]
  /\ Others

Room == Cardinality(sdk) < Limit /\ Permits < Limit

\* Mutation: the gate is dropped before the SDK is called.
AdmitUngated(h) ==
  /\ handler[h].pc = "waiting" /\ gate = Nobody /\ Room
  /\ Go(h, "admitted") /\ Others

\* The gate is taken, the SDK's sessions are counted, a permit is acquired.
Admit(h) ==
  /\ handler[h].pc = "waiting" /\ gate = Nobody /\ Room
  /\ gate' = h
  /\ Go(h, "admitted")
  /\ UNCHANGED <<sdk, sessions, cleaner, unbound, owner, confirmed, promised>>

Refuse(h) ==
  /\ handler[h].pc = "waiting" /\ gate = Nobody /\ ~Room
  /\ Stop(h) /\ Others

\* External: the SDK opens a session with a fresh id.
Create(h) ==
  /\ handler[h].pc = "admitted"
  /\ \E s \in Sids :
       /\ owner[s] = Nobody
       /\ owner' = [owner EXCEPT ![s] = handler[h].principal]
       /\ sdk' = sdk \cup {s}
       /\ handler' = [handler EXCEPT ![h] = [@ EXCEPT !.pc = "created", !.sid = s]]
  /\ UNCHANGED <<sessions, gate, cleaner, unbound, confirmed, promised>>

\* Mutation: a response without session id binds as well.
AnswerAnyway(h) ==
  /\ handler[h].pc \in {"admitted", "created"}
  /\ gate' = IF gate = h THEN Nobody ELSE gate
  /\ Go(h, "answered")
  /\ UNCHANGED <<sdk, sessions, cleaner, unbound, owner, confirmed, promised>>

\* The SDK's response is there: drop(initialize_guard).
Answer(h) ==
  /\ handler[h].pc = "created"
  /\ gate' = IF gate = h THEN Nobody ELSE gate
  /\ Go(h, "answered")
  /\ UNCHANGED <<sdk, sessions, cleaner, unbound, owner, confirmed, promised>>

Bind(h) ==
  /\ handler[h].pc = "answered"
  /\ sessions' = Insert(handler[h].sid, NewSession(handler[h].principal))
  /\ Go(h, "bound")
  /\ UNCHANGED <<sdk, gate, cleaner, unbound, owner, confirmed, promised>>

\* The client gets the id. History: of a session that works at this moment.
HandOut(h) ==
  /\ handler[h].pc = "bound"
  /\ LET s == handler[h].sid IN
     promised' = IF s \in sdk \cap Bound /\ ~sessions[s].expired
                 THEN promised \cup {s} ELSE promised
  /\ Stop(h)
  /\ UNCHANGED <<sdk, sessions, gate, cleaner, unbound, owner, confirmed>>

-----------------------------------------------------------------------------
(* Requests of a session *)

\* Mutation: the principal of the session is not compared.
BeginAsAnyone(h, p, kind, s) ==
  /\ handler[h].pc = "idle" /\ s \in Bound /\ ~sessions[s].expired
  /\ handler' = [handler EXCEPT ![h] =
                   [pc |-> "checked", kind |-> kind, principal |-> p, sid |-> s]]
  /\ Others

\* The first check of a request that names a session (404 otherwise).
Begin(h, p, kind, s) ==
  /\ handler[h].pc = "idle"
  /\ s \in Bound /\ sessions[s].principal = p /\ ~sessions[s].expired
  /\ handler' = [handler EXCEPT ![h] =
                   [pc |-> "checked", kind |-> kind, principal |-> p, sid |-> s]]
  /\ Others

\* The session is still bound, and initialized unless this request says so.
MayPass(h) ==
  /\ handler[h].sid \in Bound
  /\ handler[h].kind = "initialized" \/ sessions[handler[h].sid].initialized

\* The second check of a POST, after its body has been read.
Recheck(h) ==
  /\ handler[h].pc = "checked" /\ handler[h].kind # "delete" /\ MayPass(h)
  /\ Go(h, "rechecked") /\ Others

\* The request is passed to the SDK. A DELETE has no body to read or recheck.
Passes(h) ==
  \/ handler[h].pc = "rechecked"
  \/ handler[h].pc = "checked" /\ handler[h].kind = "delete"

\* It does not pass a check, the SDK lacks its session, or it has been served.
Leave(h) ==
  /\ \/ handler[h].pc = "checked" /\ handler[h].kind # "delete" /\ ~MayPass(h)
     \/ Passes(h) /\ handler[h].sid \notin sdk
     \/ handler[h].pc = "served"
  /\ Stop(h) /\ Others

Notify(h) ==
  /\ Passes(h) /\ handler[h].sid \in sdk /\ handler[h].kind = "initialized"
  /\ confirmed' = confirmed \cup {handler[h].sid}
  /\ Go(h, "accepted")
  /\ UNCHANGED <<sdk, sessions, gate, cleaner, unbound, owner, promised>>

Serve(h) ==
  /\ Passes(h) /\ handler[h].sid \in sdk /\ handler[h].kind = "call"
  /\ Go(h, "served") /\ Others

Delete(h) ==
  /\ Passes(h) /\ handler[h].sid \in sdk /\ handler[h].kind = "delete"
  /\ sdk' = sdk \ {handler[h].sid}
  /\ promised' = promised \ {handler[h].sid}
  /\ Go(h, "accepted")
  /\ UNCHANGED <<sessions, gate, cleaner, unbound, owner, confirmed>>

\* session.initialized = true, if the session is still bound.
Initialized(h) ==
  /\ handler[h].pc = "accepted" /\ handler[h].kind = "initialized"
  /\ sessions' = [s \in Bound |-> IF s = handler[h].sid
                                  THEN [sessions[s] EXCEPT !.initialized = TRUE]
                                  ELSE sessions[s]]
  /\ Stop(h)
  /\ UNCHANGED <<sdk, gate, cleaner, unbound, owner, confirmed, promised>>

Unbind(h) ==
  /\ handler[h].pc = "accepted" /\ handler[h].kind = "delete"
  /\ sessions' = Restrict(sessions, Bound \ {handler[h].sid})
  /\ Stop(h)
  /\ UNCHANGED <<sdk, gate, cleaner, unbound, owner, confirmed, promised>>

\* The client hangs up, or the SDK or the body reports an error: the guard and
\* the permit are dropped; an SDK session stays. Bind follows Answer at once.
Abandon(h) ==
  /\ handler[h].pc \notin {"idle", "answered"}
  /\ gate' = IF gate = h THEN Nobody ELSE gate
  /\ Stop(h)
  /\ UNCHANGED <<sdk, sessions, cleaner, unbound, owner, confirmed, promised>>

-----------------------------------------------------------------------------
(* The cleanup task *)

\* The SDK's sessions are listed.
Snapshot ==
  /\ cleaner.pc = "asleep"
  /\ cleaner' = [cleaner EXCEPT !.pc = "listed", !.entries = sdk]
  /\ UNCHANGED <<sdk, sessions, gate, handler, unbound, owner, confirmed, promised>>

\* Mutation: only the task's own table is trimmed.
RetainUnbound ==
  /\ cleaner.pc = "listed"
  /\ unbound' = [s \in Sids |-> IF s \in cleaner.entries THEN unbound[s] ELSE "no"]
  /\ cleaner' = [cleaner EXCEPT !.pc = "visiting", !.todo = cleaner.entries]
  /\ UNCHANGED <<sdk, sessions, gate, handler, owner, confirmed, promised>>

\* Sessions that are not on the list are dropped from the map.
Retain ==
  /\ cleaner.pc = "listed"
  /\ sessions' = Restrict(sessions, Bound \cap cleaner.entries)
  /\ unbound' = [s \in Sids |-> IF s \in cleaner.entries THEN unbound[s] ELSE "no"]
  /\ cleaner' = [cleaner EXCEPT !.pc = "visiting", !.todo = cleaner.entries]
  /\ UNCHANGED <<sdk, gate, handler, owner, confirmed, promised>>

TakeAs(s, expired) ==
  /\ cleaner.pc = "visiting" /\ s \in cleaner.todo
  /\ cleaner' = [cleaner EXCEPT !.pc = "taken", !.sid = s, !.todo = @ \ {s},
                                !.expired = expired]
  /\ UNCHANGED <<sdk, sessions, gate, handler, unbound, owner, confirmed, promised>>

\* Mutation: the term of a session is not looked at.
TakeUnexpired(s) == TakeAs(s, FALSE)

Take(s) == TakeAs(s, s \in Bound /\ sessions[s].expired)

JudgeAs(orphan, mark) ==
  /\ cleaner.pc = "taken"
  /\ cleaner' = [cleaner EXCEPT !.pc = "judged", !.orphan = orphan]
  /\ unbound' = [unbound EXCEPT ![cleaner.sid] =
                   IF cleaner.sid \in Bound THEN "no" ELSE mark]
  /\ UNCHANGED <<sdk, sessions, gate, handler, owner, confirmed, promised>>

\* Mutation: an unbound session is an orphan at first sight.
JudgeAtSight == JudgeAs(cleaner.sid \notin Bound, "seen")

\* Mutation: each pass starts the timer of an unbound session again.
JudgeAnew == JudgeAs(FALSE, "seen")

\* An unbound session is timed from when it is first seen so.
Judge ==
  LET timer == unbound[cleaner.sid]
  IN JudgeAs(cleaner.sid \notin Bound /\ timer = "aged",
             IF timer = "no" THEN "seen" ELSE timer)

\* close_session of one that has expired, is an orphan or has gone.
Close ==
  /\ cleaner.pc = "judged"
  /\ cleaner.expired \/ cleaner.orphan \/ cleaner.sid \notin sdk
  /\ sdk' = sdk \ {cleaner.sid}
  /\ cleaner' = [cleaner EXCEPT !.pc = "closed"]
  /\ UNCHANGED <<sessions, gate, handler, unbound, owner, confirmed, promised>>

Pass ==
  /\ cleaner.pc = "judged"
  /\ ~cleaner.expired /\ ~cleaner.orphan /\ cleaner.sid \in sdk
  /\ cleaner' = [cleaner EXCEPT !.pc = "visiting"]
  /\ UNCHANGED <<sdk, sessions, gate, handler, unbound, owner, confirmed, promised>>

Drop ==
  /\ cleaner.pc = "closed"
  /\ sessions' = Restrict(sessions, Bound \ {cleaner.sid})
  /\ cleaner' = [cleaner EXCEPT !.pc = "visiting"]
  /\ UNCHANGED <<sdk, gate, handler, unbound, owner, confirmed, promised>>

Sleep ==
  /\ cleaner.pc = "visiting" /\ cleaner.todo = {}
  /\ cleaner' = Asleep
  /\ UNCHANGED <<sdk, sessions, gate, handler, unbound, owner, confirmed, promised>>

-----------------------------------------------------------------------------
(* Time, and the SDK on its own *)

\* An hour has passed since the session was bound.
Expire(s) ==
  /\ s \in Bound /\ ~sessions[s].expired
  /\ sessions' = [sessions EXCEPT ![s].expired = TRUE]
  /\ promised' = promised \ {s}
  /\ UNCHANGED <<sdk, gate, handler, cleaner, unbound, owner, confirmed>>

\* A minute has passed since the task saw s unbound. Assumed: the SDK answers
\* an initialize request within that minute.
Age(s) ==
  /\ unbound[s] = "seen" /\ ~Handshaking(s)
  /\ unbound' = [unbound EXCEPT ![s] = "aged"]
  /\ UNCHANGED <<sdk, sessions, gate, handler, cleaner, owner, confirmed, promised>>

\* External: the SDK closes an idle session (keep_alive).
SdkEnd(s) ==
  /\ s \in sdk
  /\ sdk' = sdk \ {s}
  /\ promised' = promised \ {s}
  /\ UNCHANGED <<sessions, gate, handler, cleaner, unbound, owner, confirmed>>

-----------------------------------------------------------------------------

Init ==
  /\ sdk = {} /\ sessions = [s \in {} |-> NewSession(Nobody)] /\ gate = Nobody
  /\ handler = [h \in Handlers |-> Idle]
  /\ cleaner = Asleep /\ unbound = [s \in Sids |-> "no"]
  /\ owner = [s \in Sids |-> Nobody]
  /\ confirmed = {} /\ promised = {}

\* What a handler does without its client or the SDK.
Run(h) ==
  \/ Admit(h) \/ Refuse(h) \/ Answer(h) \/ Bind(h) \/ HandOut(h)
  \/ Recheck(h) \/ Leave(h) \/ Notify(h) \/ Serve(h) \/ Delete(h)
  \/ Initialized(h) \/ Unbind(h)

Clean ==
  \/ Snapshot \/ Retain \/ (\E s \in Sids : Take(s)) \/ Judge \/ Close \/ Pass
  \/ Drop \/ Sleep

Next ==
  \/ \E h \in Handlers :
       \/ \E p \in Principals :
            \/ Connect(h, p)
            \/ \E kind \in Kinds \ {"initialize"}, s \in Sids : Begin(h, p, kind, s)
       \/ Create(h) \/ Run(h) \/ Abandon(h)
  \/ Clean
  \/ \E s \in Sids : Expire(s) \/ Age(s) \/ SdkEnd(s)

Spec == Init /\ [][Next]_vars

\* The cleanup task wakes up every 250 ms, handlers are scheduled, time passes.
FairSpec ==
  /\ Spec
  /\ WF_vars(Clean)
  /\ \A h \in Handlers : WF_vars(Run(h))
  /\ \A s \in Sids : WF_vars(Age(s))

=============================================================================
