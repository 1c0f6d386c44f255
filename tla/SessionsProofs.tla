---------------------------- MODULE SessionsProofs ----------------------------
(***************************************************************************)
(* Sessions for every set of principals, ids and handlers and every limit: *)
(* the types, the limit, who is served, and what the cleanup task spares.  *)
(*                                                                         *)
(* An id enters the system when the SDK draws it, at which moment nothing  *)
(* refers to it (owner). One handler then carries it until it is bound, so *)
(* an id is either being opened, or has been bound or given up for good.   *)
(* All that the cleanup task knows of an id is therefore still true when   *)
(* it acts: an id past its hour is not bound again, and an orphan that has *)
(* aged has no handshake left that could bind it.                          *)
(***************************************************************************)
EXTENDS SessionsProperties, FiniteSetTheorems, TLAPS

Opening == {"created", "answered", "bound"}
Using == {"checked", "rechecked", "accepted", "served"}
Visiting == {"taken", "judged", "closed"}
Used(s) == s \in Sids /\ owner[s] # Nobody

\* Each handler and the cleanup task have a session where they need one.
Placed ==
  /\ \A h \in Handlers :
       /\ handler[h].pc \in Opening \cup Using => handler[h].sid \in Sids
       /\ handler[h].pc \in Opening \cup {"waiting", "admitted"} =>
            handler[h].principal \in Principals
       /\ handler[h].pc = "served" => handler[h].kind = "call"
  /\ cleaner.pc \in Visiting => cleaner.sid \in Sids

TypeInv == TypeOK /\ Placed

\* What refers to an id refers to one that has been drawn, by its owner.
OwnerInv ==
  /\ \A h \in Handlers :
       handler[h].pc \in Opening \cup Using =>
         Used(handler[h].sid) /\ owner[handler[h].sid] = handler[h].principal
  /\ \A s \in Bound : Used(s) /\ owner[s] = sessions[s].principal
  /\ \A s \in sdk \cup promised \cup cleaner.entries \cup cleaner.todo : Used(s)
  /\ \A s \in Sids : unbound[s] # "no" => Used(s)
  /\ cleaner.pc \in Visiting => Used(cleaner.sid)

\* A session is initialized, and its calls pass, once it was confirmed.
ConfirmedInv ==
  /\ \A s \in Bound : sessions[s].initialized => s \in confirmed
  /\ \A h \in Handlers :
       \/ handler[h].pc \in {"rechecked", "served"} /\ handler[h].kind = "call"
       \/ handler[h].pc = "accepted" /\ handler[h].kind = "initialized"
       => handler[h].sid \in confirmed

\* From the count until the SDK has answered, a handler holds the gate.
LimitInv ==
  /\ \A h \in Handlers : handler[h].pc \in {"admitted", "created"} => gate = h
  /\ \A h \in Handlers : handler[h].pc = "admitted" => Cardinality(sdk) < Limit
  /\ IsFiniteSet(sdk) /\ WithinLimit

\* One handler opens a session, and it is not bound or promised before.
OpeningInv ==
  /\ \A h, i \in Handlers :
       /\ handler[h].pc \in Opening /\ handler[i].pc \in Opening
       /\ handler[h].sid = handler[i].sid
       => h = i
  /\ \A s \in Sids : Handshaking(s) => s \notin Bound /\ s \notin promised
  /\ \A s \in Sids : unbound[s] = "aged" => ~Handshaking(s)

\* A promised session has not expired and is not closed under its entry.
PromiseInv ==
  /\ \A s \in promised \cap Bound : s \in sdk /\ ~sessions[s].expired
  /\ \A h \in Handlers :
       handler[h].pc = "accepted" /\ handler[h].kind = "delete" =>
         handler[h].sid \notin sdk

\* The findings of the cleanup task still hold.
CleanerInv ==
  /\ cleaner.pc \in Visiting /\ cleaner.expired =>
       /\ ~Handshaking(cleaner.sid)
       /\ cleaner.sid \in Bound => sessions[cleaner.sid].expired
  /\ cleaner.pc \in {"judged", "closed"} /\ cleaner.orphan =>
       cleaner.sid \notin Bound /\ ~Handshaking(cleaner.sid)
  /\ cleaner.pc = "closed" => cleaner.sid \notin sdk

IInv ==
  TypeInv /\ OwnerInv /\ ConfirmedInv /\ LimitInv /\ OpeningInv /\ PromiseInv /\ CleanerInv

-----------------------------------------------------------------------------
(* Type correctness. *)

LEMMA FlagsType ==
  ASSUME NEW e \in Session
  PROVE  /\ [e EXCEPT !.initialized = TRUE] \in Session
         /\ [e EXCEPT !.expired = TRUE] \in Session
  BY DEF Session

LEMMA NextType == TypeInv /\ [Next]_vars => TypeInv'
<1> SUFFICES ASSUME TypeInv, [Next]_vars PROVE TypeInv'
  OBVIOUS
<1> USE SessionsAssumption DEF TypeInv, TypeOK, Placed, Bound, Session, Handling,
    HandlerStates, CleanerStates, AllKinds, Opening, Using, Visiting
<1>1. ASSUME NEW h \in Handlers, NEW p \in Principals, Connect(h, p) PROVE TypeInv'
  BY <1>1 DEF Connect, Others
<1>2. ASSUME NEW h \in Handlers, NEW p \in Principals,
            NEW kind \in Kinds \ {"initialize"}, NEW s \in Sids,
            Begin(h, p, kind, s)
      PROVE TypeInv'
  BY <1>2 DEF Begin, Others
<1>3. ASSUME NEW h \in Handlers, Admit(h) PROVE TypeInv'
  BY <1>3 DEF Admit, Go, Room
<1>4. ASSUME NEW h \in Handlers, Refuse(h) PROVE TypeInv'
  BY <1>4 DEF Refuse, Stop, Idle, Others
<1>5. ASSUME NEW h \in Handlers, Create(h) PROVE TypeInv'
  <2> HIDE DEF TypeInv, TypeOK, Placed
  <2>1. PICK s \in Sids :
          /\ owner' = [owner EXCEPT ![s] = handler[h].principal]
          /\ sdk' = sdk \cup {s}
          /\ handler' = [handler EXCEPT ![h] = [@ EXCEPT !.pc = "created", !.sid = s]]
    BY <1>5 DEF Create
  <2>2. handler[h] \in Handling /\ handler[h].principal \in Principals
    BY <1>5 DEF Create, TypeInv, TypeOK, Placed
  <2>3. [handler[h] EXCEPT !.pc = "created", !.sid = s] \in Handling
    BY <2>2
  <2> HIDE DEF Handling
  <2>4. TypeOK'
    BY <1>5, <2>1, <2>2, <2>3 DEF Create, TypeInv, TypeOK
  <2>5. Placed'
    BY <1>5, <2>1, <2>2 DEF Create, TypeInv, TypeOK, Placed, Handling
  <2> QED
    BY <2>4, <2>5 DEF TypeInv
<1>6. ASSUME NEW h \in Handlers, Answer(h) PROVE TypeInv'
  BY <1>6 DEF Answer, Go
<1>7. ASSUME NEW h \in Handlers, Bind(h) PROVE TypeInv'
  BY <1>7 DEF Bind, Go, Insert, NewSession
<1>8. ASSUME NEW h \in Handlers, HandOut(h) PROVE TypeInv'
  BY <1>8 DEF HandOut, Stop, Idle
<1>9. ASSUME NEW h \in Handlers, Recheck(h) PROVE TypeInv'
  BY <1>9 DEF Recheck, Go, Others, MayPass
<1>10. ASSUME NEW h \in Handlers, Leave(h) PROVE TypeInv'
  BY <1>10 DEF Leave, Stop, Idle, Others, Passes, MayPass
<1>11. ASSUME NEW h \in Handlers, Notify(h) PROVE TypeInv'
  BY <1>11 DEF Notify, Go, Passes
<1>12. ASSUME NEW h \in Handlers, Serve(h) PROVE TypeInv'
  BY <1>12 DEF Serve, Go, Others, Passes
<1>13. ASSUME NEW h \in Handlers, Delete(h) PROVE TypeInv'
  BY <1>13 DEF Delete, Go, Passes
<1>14. ASSUME NEW h \in Handlers, Initialized(h) PROVE TypeInv'
  <2> HIDE DEF Session
  <2>1. DOMAIN sessions' = Bound /\ sessions' \in [Bound -> Session]
    BY <1>14, FlagsType DEF Initialized
  <2> QED
    BY <1>14, <2>1 DEF Initialized, Stop, Idle
<1>15. ASSUME NEW h \in Handlers, Unbind(h) PROVE TypeInv'
  BY <1>15 DEF Unbind, Stop, Idle, Restrict
<1>16. ASSUME NEW h \in Handlers, Abandon(h) PROVE TypeInv'
  BY <1>16 DEF Abandon, Stop, Idle
<1>17. ASSUME Snapshot PROVE TypeInv'
  BY <1>17 DEF Snapshot
<1>18. ASSUME Retain PROVE TypeInv'
  BY <1>18 DEF Retain, Restrict
<1>19. ASSUME NEW s \in Sids, Take(s) PROVE TypeInv'
  BY <1>19 DEF Take, TakeAs
<1>20. ASSUME Judge PROVE TypeInv'
  BY <1>20 DEF Judge, JudgeAs
<1>21. ASSUME Close PROVE TypeInv'
  BY <1>21 DEF Close
<1>22. ASSUME Pass PROVE TypeInv'
  BY <1>22 DEF Pass
<1>23. ASSUME Drop PROVE TypeInv'
  BY <1>23 DEF Drop, Restrict
<1>24. ASSUME Sleep PROVE TypeInv'
  BY <1>24 DEF Sleep, Asleep
<1>25. ASSUME NEW s \in Sids, Expire(s) PROVE TypeInv'
  <2> HIDE DEF Session
  <2>1. DOMAIN sessions' = Bound /\ sessions' \in [Bound -> Session]
    BY <1>25, FlagsType DEF Expire
  <2> QED
    BY <1>25, <2>1 DEF Expire
<1>26. ASSUME NEW s \in Sids, Age(s) PROVE TypeInv'
  BY <1>26 DEF Age
<1>27. ASSUME NEW s \in Sids, SdkEnd(s) PROVE TypeInv'
  BY <1>27 DEF SdkEnd
<1>28. CASE UNCHANGED vars
  BY <1>28 DEF vars
<1> QED
  BY <1>1, <1>2, <1>3, <1>4, <1>5, <1>6, <1>7, <1>8, <1>9, <1>10, <1>11, <1>12, <1>13,
      <1>14, <1>15, <1>16, <1>17, <1>18, <1>19, <1>20, <1>21, <1>22, <1>23, <1>24, <1>25,
      <1>26, <1>27, <1>28 DEF Next, Run, Clean

LEMMA InitType == Init => TypeInv
  BY SessionsAssumption DEF Init, Idle, Asleep, TypeInv, TypeOK, Placed, Bound, Session,
     Handling, HandlerStates, CleanerStates, AllKinds, Opening, Using, Visiting

\* The tables, handlers and local variables always hold values of their kind.
THEOREM SessionsTypeCorrect == Spec => []TypeOK
<1>1. TypeInv => TypeOK
  BY DEF TypeInv
<1> QED
  BY <1>1, InitType, NextType, PTL DEF Spec

-----------------------------------------------------------------------------
(* Who owns what, and what is confirmed. *)

LEMMA NextOwner == TypeInv /\ OwnerInv /\ [Next]_vars => OwnerInv'
<1> SUFFICES ASSUME TypeInv /\ OwnerInv, [Next]_vars PROVE OwnerInv'
  OBVIOUS
<1> USE SessionsAssumption DEF TypeInv, TypeOK, Placed, Bound, Handling, Opening, Using,
    Visiting, OwnerInv, Used
<1>1. ASSUME NEW h \in Handlers, NEW p \in Principals, Connect(h, p) PROVE OwnerInv'
  BY <1>1 DEF Connect, Others
<1>2. ASSUME NEW h \in Handlers, NEW p \in Principals,
            NEW kind \in Kinds \ {"initialize"}, NEW s \in Sids,
            Begin(h, p, kind, s)
      PROVE OwnerInv'
  BY <1>2 DEF Begin, Others
<1>3. ASSUME NEW h \in Handlers, Admit(h) PROVE OwnerInv'
  BY <1>3 DEF Admit, Go, Room
<1>4. ASSUME NEW h \in Handlers, Refuse(h) PROVE OwnerInv'
  BY <1>4 DEF Refuse, Stop, Idle, Others
<1>5. ASSUME NEW h \in Handlers, Create(h) PROVE OwnerInv'
  BY <1>5 DEF Create
<1>6. ASSUME NEW h \in Handlers, Answer(h) PROVE OwnerInv'
  BY <1>6 DEF Answer, Go
<1>7. ASSUME NEW h \in Handlers, Bind(h) PROVE OwnerInv'
  BY <1>7 DEF Bind, Go, Insert, NewSession
<1>8. ASSUME NEW h \in Handlers, HandOut(h) PROVE OwnerInv'
  BY <1>8 DEF HandOut, Stop, Idle
<1>9. ASSUME NEW h \in Handlers, Recheck(h) PROVE OwnerInv'
  BY <1>9 DEF Recheck, Go, Others, MayPass
<1>10. ASSUME NEW h \in Handlers, Leave(h) PROVE OwnerInv'
  BY <1>10 DEF Leave, Stop, Idle, Others, Passes, MayPass
<1>11. ASSUME NEW h \in Handlers, Notify(h) PROVE OwnerInv'
  BY <1>11 DEF Notify, Go, Passes
<1>12. ASSUME NEW h \in Handlers, Serve(h) PROVE OwnerInv'
  BY <1>12 DEF Serve, Go, Others, Passes
<1>13. ASSUME NEW h \in Handlers, Delete(h) PROVE OwnerInv'
  BY <1>13 DEF Delete, Go, Passes
<1>14. ASSUME NEW h \in Handlers, Initialized(h) PROVE OwnerInv'
  BY <1>14 DEF Initialized, Stop, Idle
<1>15. ASSUME NEW h \in Handlers, Unbind(h) PROVE OwnerInv'
  BY <1>15 DEF Unbind, Stop, Idle, Restrict
<1>16. ASSUME NEW h \in Handlers, Abandon(h) PROVE OwnerInv'
  BY <1>16 DEF Abandon, Stop, Idle
<1>17. ASSUME Snapshot PROVE OwnerInv'
  BY <1>17 DEF Snapshot
<1>18. ASSUME Retain PROVE OwnerInv'
  BY <1>18 DEF Retain, Restrict
<1>19. ASSUME NEW s \in Sids, Take(s) PROVE OwnerInv'
  BY <1>19 DEF Take, TakeAs
<1>20. ASSUME Judge PROVE OwnerInv'
  BY <1>20 DEF Judge, JudgeAs
<1>21. ASSUME Close PROVE OwnerInv'
  BY <1>21 DEF Close
<1>22. ASSUME Pass PROVE OwnerInv'
  BY <1>22 DEF Pass
<1>23. ASSUME Drop PROVE OwnerInv'
  BY <1>23 DEF Drop, Restrict
<1>24. ASSUME Sleep PROVE OwnerInv'
  BY <1>24 DEF Sleep, Asleep
<1>25. ASSUME NEW s \in Sids, Expire(s) PROVE OwnerInv'
  BY <1>25 DEF Expire
<1>26. ASSUME NEW s \in Sids, Age(s) PROVE OwnerInv'
  BY <1>26 DEF Age
<1>27. ASSUME NEW s \in Sids, SdkEnd(s) PROVE OwnerInv'
  BY <1>27 DEF SdkEnd
<1>28. CASE UNCHANGED vars
  BY <1>28 DEF vars
<1> QED
  BY <1>1, <1>2, <1>3, <1>4, <1>5, <1>6, <1>7, <1>8, <1>9, <1>10, <1>11, <1>12, <1>13,
      <1>14, <1>15, <1>16, <1>17, <1>18, <1>19, <1>20, <1>21, <1>22, <1>23, <1>24, <1>25,
      <1>26, <1>27, <1>28 DEF Next, Run, Clean

LEMMA NextConfirmed == TypeInv /\ OwnerInv /\ ConfirmedInv /\ [Next]_vars => ConfirmedInv'
<1> SUFFICES ASSUME TypeInv /\ OwnerInv /\ ConfirmedInv, [Next]_vars PROVE ConfirmedInv'
  OBVIOUS
<1> USE SessionsAssumption DEF TypeInv, TypeOK, Placed, Bound, Handling, Opening, Using,
    Visiting, ConfirmedInv, OwnerInv, Used
<1>1. ASSUME NEW h \in Handlers, NEW p \in Principals, Connect(h, p) PROVE ConfirmedInv'
  BY <1>1 DEF Connect, Others
<1>2. ASSUME NEW h \in Handlers, NEW p \in Principals,
            NEW kind \in Kinds \ {"initialize"}, NEW s \in Sids,
            Begin(h, p, kind, s)
      PROVE ConfirmedInv'
  BY <1>2 DEF Begin, Others
<1>3. ASSUME NEW h \in Handlers, Admit(h) PROVE ConfirmedInv'
  BY <1>3 DEF Admit, Go, Room
<1>4. ASSUME NEW h \in Handlers, Refuse(h) PROVE ConfirmedInv'
  BY <1>4 DEF Refuse, Stop, Idle, Others
<1>5. ASSUME NEW h \in Handlers, Create(h) PROVE ConfirmedInv'
  BY <1>5 DEF Create
<1>6. ASSUME NEW h \in Handlers, Answer(h) PROVE ConfirmedInv'
  BY <1>6 DEF Answer, Go
<1>7. ASSUME NEW h \in Handlers, Bind(h) PROVE ConfirmedInv'
  BY <1>7 DEF Bind, Go, Insert, NewSession
<1>8. ASSUME NEW h \in Handlers, HandOut(h) PROVE ConfirmedInv'
  BY <1>8 DEF HandOut, Stop, Idle
<1>9. ASSUME NEW h \in Handlers, Recheck(h) PROVE ConfirmedInv'
  BY <1>9 DEF Recheck, Go, Others, MayPass
<1>10. ASSUME NEW h \in Handlers, Leave(h) PROVE ConfirmedInv'
  BY <1>10 DEF Leave, Stop, Idle, Others, Passes, MayPass
<1>11. ASSUME NEW h \in Handlers, Notify(h) PROVE ConfirmedInv'
  BY <1>11 DEF Notify, Go, Passes
<1>12. ASSUME NEW h \in Handlers, Serve(h) PROVE ConfirmedInv'
  BY <1>12 DEF Serve, Go, Others, Passes
<1>13. ASSUME NEW h \in Handlers, Delete(h) PROVE ConfirmedInv'
  BY <1>13 DEF Delete, Go, Passes
<1>14. ASSUME NEW h \in Handlers, Initialized(h) PROVE ConfirmedInv'
  BY <1>14 DEF Initialized, Stop, Idle
<1>15. ASSUME NEW h \in Handlers, Unbind(h) PROVE ConfirmedInv'
  BY <1>15 DEF Unbind, Stop, Idle, Restrict
<1>16. ASSUME NEW h \in Handlers, Abandon(h) PROVE ConfirmedInv'
  BY <1>16 DEF Abandon, Stop, Idle
<1>17. ASSUME Snapshot PROVE ConfirmedInv'
  BY <1>17 DEF Snapshot
<1>18. ASSUME Retain PROVE ConfirmedInv'
  BY <1>18 DEF Retain, Restrict
<1>19. ASSUME NEW s \in Sids, Take(s) PROVE ConfirmedInv'
  BY <1>19 DEF Take, TakeAs
<1>20. ASSUME Judge PROVE ConfirmedInv'
  BY <1>20 DEF Judge, JudgeAs
<1>21. ASSUME Close PROVE ConfirmedInv'
  BY <1>21 DEF Close
<1>22. ASSUME Pass PROVE ConfirmedInv'
  BY <1>22 DEF Pass
<1>23. ASSUME Drop PROVE ConfirmedInv'
  BY <1>23 DEF Drop, Restrict
<1>24. ASSUME Sleep PROVE ConfirmedInv'
  BY <1>24 DEF Sleep, Asleep
<1>25. ASSUME NEW s \in Sids, Expire(s) PROVE ConfirmedInv'
  BY <1>25 DEF Expire
<1>26. ASSUME NEW s \in Sids, Age(s) PROVE ConfirmedInv'
  BY <1>26 DEF Age
<1>27. ASSUME NEW s \in Sids, SdkEnd(s) PROVE ConfirmedInv'
  BY <1>27 DEF SdkEnd
<1>28. CASE UNCHANGED vars
  BY <1>28 DEF vars
<1> QED
  BY <1>1, <1>2, <1>3, <1>4, <1>5, <1>6, <1>7, <1>8, <1>9, <1>10, <1>11, <1>12, <1>13,
      <1>14, <1>15, <1>16, <1>17, <1>18, <1>19, <1>20, <1>21, <1>22, <1>23, <1>24, <1>25,
      <1>26, <1>27, <1>28 DEF Next, Run, Clean

-----------------------------------------------------------------------------
(* The limit. *)

LEMMA Fewer ==
  ASSUME NEW S, IsFiniteSet(S), NEW T \in SUBSET S
  PROVE  /\ IsFiniteSet(T) /\ Cardinality(T) \in Nat /\ Cardinality(S) \in Nat
         /\ Cardinality(T) <= Cardinality(S)
  BY FS_Subset, FS_CardinalityType

LEMMA NextLimit == TypeInv /\ LimitInv /\ [Next]_vars => LimitInv'
<1> SUFFICES ASSUME TypeInv /\ LimitInv, [Next]_vars PROVE LimitInv'
  OBVIOUS
<1> USE SessionsAssumption DEF TypeInv, TypeOK, Placed, Handling, LimitInv, WithinLimit
<1>1. ASSUME NEW h \in Handlers, NEW p \in Principals, Connect(h, p) PROVE LimitInv'
  BY <1>1 DEF Connect, Others
<1>2. ASSUME NEW h \in Handlers, NEW p \in Principals,
            NEW kind \in Kinds \ {"initialize"}, NEW s \in Sids,
            Begin(h, p, kind, s)
      PROVE LimitInv'
  BY <1>2 DEF Begin, Others
<1>3. ASSUME NEW h \in Handlers, Admit(h) PROVE LimitInv'
  BY <1>3 DEF Admit, Go, Room
<1>4. ASSUME NEW h \in Handlers, Refuse(h) PROVE LimitInv'
  BY <1>4 DEF Refuse, Stop, Idle, Others
<1>5. ASSUME NEW h \in Handlers, Create(h) PROVE LimitInv'
  <2>1. PICK s \in Sids :
          /\ sdk' = sdk \cup {s}
          /\ handler' = [handler EXCEPT ![h] = [@ EXCEPT !.pc = "created", !.sid = s]]
    BY <1>5 DEF Create
  <2>2. IsFiniteSet(sdk') /\ Cardinality(sdk') <= Cardinality(sdk) + 1
        /\ Cardinality(sdk') \in Nat /\ Cardinality(sdk) \in Nat
    <3>1. IsFiniteSet(sdk) /\ Cardinality(sdk) \in Nat
      BY FS_CardinalityType
    <3>2. IsFiniteSet(sdk \cup {s})
          /\ Cardinality(sdk \cup {s}) =
               IF s \in sdk THEN Cardinality(sdk) ELSE Cardinality(sdk) + 1
      BY <3>1, FS_AddElement, Zenon
    <3> QED
      BY <2>1, <3>1, <3>2
  <2>3. gate = h /\ gate' = h /\ Cardinality(sdk) < Limit
    BY <1>5 DEF Create
  <2>4. \A i \in Handlers : i # h => handler'[i] = handler[i]
    BY <2>1
  <2>5. handler'[h].pc = "created"
    BY <2>1
  <2> QED
    BY <2>2, <2>3, <2>4, <2>5
<1>6. ASSUME NEW h \in Handlers, Answer(h) PROVE LimitInv'
  BY <1>6 DEF Answer, Go
<1>7. ASSUME NEW h \in Handlers, Bind(h) PROVE LimitInv'
  BY <1>7 DEF Bind, Go, Insert, NewSession
<1>8. ASSUME NEW h \in Handlers, HandOut(h) PROVE LimitInv'
  BY <1>8 DEF HandOut, Stop, Idle
<1>9. ASSUME NEW h \in Handlers, Recheck(h) PROVE LimitInv'
  BY <1>9 DEF Recheck, Go, Others, MayPass
<1>10. ASSUME NEW h \in Handlers, Leave(h) PROVE LimitInv'
  BY <1>10 DEF Leave, Stop, Idle, Others, Passes, MayPass
<1>11. ASSUME NEW h \in Handlers, Notify(h) PROVE LimitInv'
  BY <1>11 DEF Notify, Go, Passes
<1>12. ASSUME NEW h \in Handlers, Serve(h) PROVE LimitInv'
  BY <1>12 DEF Serve, Go, Others, Passes
<1>13. ASSUME NEW h \in Handlers, Delete(h) PROVE LimitInv'
  <2>1. sdk' \subseteq sdk
    BY <1>13 DEF Delete
  <2>2. IsFiniteSet(sdk') /\ Cardinality(sdk') \in Nat /\ Cardinality(sdk) \in Nat
        /\ Cardinality(sdk') <= Cardinality(sdk)
    BY <2>1, Fewer
  <2> QED
    BY <1>13, <2>2 DEF Delete, Go, Passes
<1>14. ASSUME NEW h \in Handlers, Initialized(h) PROVE LimitInv'
  BY <1>14 DEF Initialized, Stop, Idle
<1>15. ASSUME NEW h \in Handlers, Unbind(h) PROVE LimitInv'
  BY <1>15 DEF Unbind, Stop, Idle, Restrict
<1>16. ASSUME NEW h \in Handlers, Abandon(h) PROVE LimitInv'
  BY <1>16 DEF Abandon, Stop, Idle
<1>17. ASSUME Snapshot PROVE LimitInv'
  BY <1>17 DEF Snapshot
<1>18. ASSUME Retain PROVE LimitInv'
  BY <1>18 DEF Retain, Restrict
<1>19. ASSUME NEW s \in Sids, Take(s) PROVE LimitInv'
  BY <1>19 DEF Take, TakeAs
<1>20. ASSUME Judge PROVE LimitInv'
  BY <1>20 DEF Judge, JudgeAs
<1>21. ASSUME Close PROVE LimitInv'
  <2>1. sdk' \subseteq sdk
    BY <1>21 DEF Close
  <2>2. IsFiniteSet(sdk') /\ Cardinality(sdk') \in Nat /\ Cardinality(sdk) \in Nat
        /\ Cardinality(sdk') <= Cardinality(sdk)
    BY <2>1, Fewer
  <2> QED
    BY <1>21, <2>2 DEF Close
<1>22. ASSUME Pass PROVE LimitInv'
  BY <1>22 DEF Pass
<1>23. ASSUME Drop PROVE LimitInv'
  BY <1>23 DEF Drop, Restrict
<1>24. ASSUME Sleep PROVE LimitInv'
  BY <1>24 DEF Sleep, Asleep
<1>25. ASSUME NEW s \in Sids, Expire(s) PROVE LimitInv'
  BY <1>25 DEF Expire
<1>26. ASSUME NEW s \in Sids, Age(s) PROVE LimitInv'
  BY <1>26 DEF Age
<1>27. ASSUME NEW s \in Sids, SdkEnd(s) PROVE LimitInv'
  <2>1. sdk' \subseteq sdk
    BY <1>27 DEF SdkEnd
  <2>2. IsFiniteSet(sdk') /\ Cardinality(sdk') \in Nat /\ Cardinality(sdk) \in Nat
        /\ Cardinality(sdk') <= Cardinality(sdk)
    BY <2>1, Fewer
  <2> QED
    BY <1>27, <2>2 DEF SdkEnd
<1>28. CASE UNCHANGED vars
  BY <1>28 DEF vars
<1> QED
  BY <1>1, <1>2, <1>3, <1>4, <1>5, <1>6, <1>7, <1>8, <1>9, <1>10, <1>11, <1>12, <1>13,
      <1>14, <1>15, <1>16, <1>17, <1>18, <1>19, <1>20, <1>21, <1>22, <1>23, <1>24, <1>25,
      <1>26, <1>27, <1>28 DEF Next, Run, Clean

-----------------------------------------------------------------------------
(* A session is opened once, promised, and closed. *)

LEMMA NextOpening == TypeInv /\ OwnerInv /\ OpeningInv /\ [Next]_vars => OpeningInv'
<1> SUFFICES ASSUME TypeInv /\ OwnerInv /\ OpeningInv, [Next]_vars PROVE OpeningInv'
  OBVIOUS
<1> USE SessionsAssumption DEF TypeInv, TypeOK, Placed, Bound, Handling, Session, Opening,
    Using, Visiting, OwnerInv, Used, Handshaking, OpeningInv
<1>1. ASSUME NEW h \in Handlers, NEW p \in Principals, Connect(h, p) PROVE OpeningInv'
  BY <1>1 DEF Connect, Others
<1>2. ASSUME NEW h \in Handlers, NEW p \in Principals,
            NEW kind \in Kinds \ {"initialize"}, NEW s \in Sids,
            Begin(h, p, kind, s)
      PROVE OpeningInv'
  BY <1>2 DEF Begin, Others
<1>3. ASSUME NEW h \in Handlers, Admit(h) PROVE OpeningInv'
  BY <1>3 DEF Admit, Go, Room
<1>4. ASSUME NEW h \in Handlers, Refuse(h) PROVE OpeningInv'
  BY <1>4 DEF Refuse, Stop, Idle, Others
<1>5. ASSUME NEW h \in Handlers, Create(h) PROVE OpeningInv'
  BY <1>5 DEF Create
<1>6. ASSUME NEW h \in Handlers, Answer(h) PROVE OpeningInv'
  BY <1>6 DEF Answer, Go
<1>7. ASSUME NEW h \in Handlers, Bind(h) PROVE OpeningInv'
  BY <1>7 DEF Bind, Go, Insert, NewSession
<1>8. ASSUME NEW h \in Handlers, HandOut(h) PROVE OpeningInv'
  BY <1>8 DEF HandOut, Stop, Idle
<1>9. ASSUME NEW h \in Handlers, Recheck(h) PROVE OpeningInv'
  BY <1>9 DEF Recheck, Go, Others, MayPass
<1>10. ASSUME NEW h \in Handlers, Leave(h) PROVE OpeningInv'
  BY <1>10 DEF Leave, Stop, Idle, Others, Passes, MayPass
<1>11. ASSUME NEW h \in Handlers, Notify(h) PROVE OpeningInv'
  BY <1>11 DEF Notify, Go, Passes
<1>12. ASSUME NEW h \in Handlers, Serve(h) PROVE OpeningInv'
  BY <1>12 DEF Serve, Go, Others, Passes
<1>13. ASSUME NEW h \in Handlers, Delete(h) PROVE OpeningInv'
  BY <1>13 DEF Delete, Go, Passes
<1>14. ASSUME NEW h \in Handlers, Initialized(h) PROVE OpeningInv'
  BY <1>14 DEF Initialized, Stop, Idle
<1>15. ASSUME NEW h \in Handlers, Unbind(h) PROVE OpeningInv'
  BY <1>15 DEF Unbind, Stop, Idle, Restrict
<1>16. ASSUME NEW h \in Handlers, Abandon(h) PROVE OpeningInv'
  BY <1>16 DEF Abandon, Stop, Idle
<1>17. ASSUME Snapshot PROVE OpeningInv'
  BY <1>17 DEF Snapshot
<1>18. ASSUME Retain PROVE OpeningInv'
  BY <1>18 DEF Retain, Restrict
<1>19. ASSUME NEW s \in Sids, Take(s) PROVE OpeningInv'
  BY <1>19 DEF Take, TakeAs
<1>20. ASSUME Judge PROVE OpeningInv'
  BY <1>20 DEF Judge, JudgeAs
<1>21. ASSUME Close PROVE OpeningInv'
  BY <1>21 DEF Close
<1>22. ASSUME Pass PROVE OpeningInv'
  BY <1>22 DEF Pass
<1>23. ASSUME Drop PROVE OpeningInv'
  BY <1>23 DEF Drop, Restrict
<1>24. ASSUME Sleep PROVE OpeningInv'
  BY <1>24 DEF Sleep, Asleep
<1>25. ASSUME NEW s \in Sids, Expire(s) PROVE OpeningInv'
  BY <1>25 DEF Expire
<1>26. ASSUME NEW s \in Sids, Age(s) PROVE OpeningInv'
  BY <1>26 DEF Age
<1>27. ASSUME NEW s \in Sids, SdkEnd(s) PROVE OpeningInv'
  BY <1>27 DEF SdkEnd
<1>28. CASE UNCHANGED vars
  BY <1>28 DEF vars
<1> QED
  BY <1>1, <1>2, <1>3, <1>4, <1>5, <1>6, <1>7, <1>8, <1>9, <1>10, <1>11, <1>12, <1>13,
      <1>14, <1>15, <1>16, <1>17, <1>18, <1>19, <1>20, <1>21, <1>22, <1>23, <1>24, <1>25,
      <1>26, <1>27, <1>28 DEF Next, Run, Clean

LEMMA NextPromise == IInv /\ [Next]_vars => PromiseInv'
<1> SUFFICES ASSUME IInv, [Next]_vars PROVE PromiseInv'
  OBVIOUS
<1> USE SessionsAssumption DEF IInv, TypeInv, TypeOK, Placed, Bound, Handling, Session,
    Opening, Using, Visiting, OwnerInv, Used, Handshaking, OpeningInv, PromiseInv,
    CleanerInv
<1>1. ASSUME NEW h \in Handlers, NEW p \in Principals, Connect(h, p) PROVE PromiseInv'
  BY <1>1 DEF Connect, Others
<1>2. ASSUME NEW h \in Handlers, NEW p \in Principals,
            NEW kind \in Kinds \ {"initialize"}, NEW s \in Sids,
            Begin(h, p, kind, s)
      PROVE PromiseInv'
  BY <1>2 DEF Begin, Others
<1>3. ASSUME NEW h \in Handlers, Admit(h) PROVE PromiseInv'
  BY <1>3 DEF Admit, Go, Room
<1>4. ASSUME NEW h \in Handlers, Refuse(h) PROVE PromiseInv'
  BY <1>4 DEF Refuse, Stop, Idle, Others
<1>5. ASSUME NEW h \in Handlers, Create(h) PROVE PromiseInv'
  BY <1>5 DEF Create
<1>6. ASSUME NEW h \in Handlers, Answer(h) PROVE PromiseInv'
  BY <1>6 DEF Answer, Go
<1>7. ASSUME NEW h \in Handlers, Bind(h) PROVE PromiseInv'
  BY <1>7 DEF Bind, Go, Insert, NewSession
<1>8. ASSUME NEW h \in Handlers, HandOut(h) PROVE PromiseInv'
  BY <1>8 DEF HandOut, Stop, Idle
<1>9. ASSUME NEW h \in Handlers, Recheck(h) PROVE PromiseInv'
  BY <1>9 DEF Recheck, Go, Others, MayPass
<1>10. ASSUME NEW h \in Handlers, Leave(h) PROVE PromiseInv'
  BY <1>10 DEF Leave, Stop, Idle, Others, Passes, MayPass
<1>11. ASSUME NEW h \in Handlers, Notify(h) PROVE PromiseInv'
  BY <1>11 DEF Notify, Go, Passes
<1>12. ASSUME NEW h \in Handlers, Serve(h) PROVE PromiseInv'
  BY <1>12 DEF Serve, Go, Others, Passes
<1>13. ASSUME NEW h \in Handlers, Delete(h) PROVE PromiseInv'
  BY <1>13 DEF Delete, Go, Passes
<1>14. ASSUME NEW h \in Handlers, Initialized(h) PROVE PromiseInv'
  BY <1>14 DEF Initialized, Stop, Idle
<1>15. ASSUME NEW h \in Handlers, Unbind(h) PROVE PromiseInv'
  BY <1>15 DEF Unbind, Stop, Idle, Restrict
<1>16. ASSUME NEW h \in Handlers, Abandon(h) PROVE PromiseInv'
  BY <1>16 DEF Abandon, Stop, Idle
<1>17. ASSUME Snapshot PROVE PromiseInv'
  BY <1>17 DEF Snapshot
<1>18. ASSUME Retain PROVE PromiseInv'
  BY <1>18 DEF Retain, Restrict
<1>19. ASSUME NEW s \in Sids, Take(s) PROVE PromiseInv'
  BY <1>19 DEF Take, TakeAs
<1>20. ASSUME Judge PROVE PromiseInv'
  BY <1>20 DEF Judge, JudgeAs
<1>21. ASSUME Close PROVE PromiseInv'
  BY <1>21 DEF Close
<1>22. ASSUME Pass PROVE PromiseInv'
  BY <1>22 DEF Pass
<1>23. ASSUME Drop PROVE PromiseInv'
  BY <1>23 DEF Drop, Restrict
<1>24. ASSUME Sleep PROVE PromiseInv'
  BY <1>24 DEF Sleep, Asleep
<1>25. ASSUME NEW s \in Sids, Expire(s) PROVE PromiseInv'
  BY <1>25 DEF Expire
<1>26. ASSUME NEW s \in Sids, Age(s) PROVE PromiseInv'
  BY <1>26 DEF Age
<1>27. ASSUME NEW s \in Sids, SdkEnd(s) PROVE PromiseInv'
  BY <1>27 DEF SdkEnd
<1>28. CASE UNCHANGED vars
  BY <1>28 DEF vars
<1> QED
  BY <1>1, <1>2, <1>3, <1>4, <1>5, <1>6, <1>7, <1>8, <1>9, <1>10, <1>11, <1>12, <1>13,
      <1>14, <1>15, <1>16, <1>17, <1>18, <1>19, <1>20, <1>21, <1>22, <1>23, <1>24, <1>25,
      <1>26, <1>27, <1>28 DEF Next, Run, Clean

LEMMA NextCleaner == IInv /\ [Next]_vars => CleanerInv'
<1> SUFFICES ASSUME IInv, [Next]_vars PROVE CleanerInv'
  OBVIOUS
<1> USE SessionsAssumption DEF IInv, TypeInv, TypeOK, Placed, Bound, Handling, Session,
    Opening, Using, Visiting, OwnerInv, Used, Handshaking, OpeningInv, CleanerInv
<1>1. ASSUME NEW h \in Handlers, NEW p \in Principals, Connect(h, p) PROVE CleanerInv'
  BY <1>1 DEF Connect, Others
<1>2. ASSUME NEW h \in Handlers, NEW p \in Principals,
            NEW kind \in Kinds \ {"initialize"}, NEW s \in Sids,
            Begin(h, p, kind, s)
      PROVE CleanerInv'
  BY <1>2 DEF Begin, Others
<1>3. ASSUME NEW h \in Handlers, Admit(h) PROVE CleanerInv'
  BY <1>3 DEF Admit, Go, Room
<1>4. ASSUME NEW h \in Handlers, Refuse(h) PROVE CleanerInv'
  BY <1>4 DEF Refuse, Stop, Idle, Others
<1>5. ASSUME NEW h \in Handlers, Create(h) PROVE CleanerInv'
  BY <1>5 DEF Create
<1>6. ASSUME NEW h \in Handlers, Answer(h) PROVE CleanerInv'
  BY <1>6 DEF Answer, Go
<1>7. ASSUME NEW h \in Handlers, Bind(h) PROVE CleanerInv'
  BY <1>7 DEF Bind, Go, Insert, NewSession
<1>8. ASSUME NEW h \in Handlers, HandOut(h) PROVE CleanerInv'
  BY <1>8 DEF HandOut, Stop, Idle
<1>9. ASSUME NEW h \in Handlers, Recheck(h) PROVE CleanerInv'
  BY <1>9 DEF Recheck, Go, Others, MayPass
<1>10. ASSUME NEW h \in Handlers, Leave(h) PROVE CleanerInv'
  BY <1>10 DEF Leave, Stop, Idle, Others, Passes, MayPass
<1>11. ASSUME NEW h \in Handlers, Notify(h) PROVE CleanerInv'
  BY <1>11 DEF Notify, Go, Passes
<1>12. ASSUME NEW h \in Handlers, Serve(h) PROVE CleanerInv'
  BY <1>12 DEF Serve, Go, Others, Passes
<1>13. ASSUME NEW h \in Handlers, Delete(h) PROVE CleanerInv'
  BY <1>13 DEF Delete, Go, Passes
<1>14. ASSUME NEW h \in Handlers, Initialized(h) PROVE CleanerInv'
  BY <1>14 DEF Initialized, Stop, Idle
<1>15. ASSUME NEW h \in Handlers, Unbind(h) PROVE CleanerInv'
  BY <1>15 DEF Unbind, Stop, Idle, Restrict
<1>16. ASSUME NEW h \in Handlers, Abandon(h) PROVE CleanerInv'
  BY <1>16 DEF Abandon, Stop, Idle
<1>17. ASSUME Snapshot PROVE CleanerInv'
  BY <1>17 DEF Snapshot
<1>18. ASSUME Retain PROVE CleanerInv'
  BY <1>18 DEF Retain, Restrict
<1>19. ASSUME NEW s \in Sids, Take(s) PROVE CleanerInv'
  BY <1>19 DEF Take, TakeAs
<1>20. ASSUME Judge PROVE CleanerInv'
  BY <1>20 DEF Judge, JudgeAs
<1>21. ASSUME Close PROVE CleanerInv'
  BY <1>21 DEF Close
<1>22. ASSUME Pass PROVE CleanerInv'
  BY <1>22 DEF Pass
<1>23. ASSUME Drop PROVE CleanerInv'
  BY <1>23 DEF Drop, Restrict
<1>24. ASSUME Sleep PROVE CleanerInv'
  BY <1>24 DEF Sleep, Asleep
<1>25. ASSUME NEW s \in Sids, Expire(s) PROVE CleanerInv'
  BY <1>25 DEF Expire
<1>26. ASSUME NEW s \in Sids, Age(s) PROVE CleanerInv'
  BY <1>26 DEF Age
<1>27. ASSUME NEW s \in Sids, SdkEnd(s) PROVE CleanerInv'
  BY <1>27 DEF SdkEnd
<1>28. CASE UNCHANGED vars
  BY <1>28 DEF vars
<1> QED
  BY <1>1, <1>2, <1>3, <1>4, <1>5, <1>6, <1>7, <1>8, <1>9, <1>10, <1>11, <1>12, <1>13,
      <1>14, <1>15, <1>16, <1>17, <1>18, <1>19, <1>20, <1>21, <1>22, <1>23, <1>24, <1>25,
      <1>26, <1>27, <1>28 DEF Next, Run, Clean

LEMMA InitInv == Init => IInv
<1> SUFFICES ASSUME Init PROVE IInv
  OBVIOUS
<1>1. TypeInv
  BY InitType
<1>2. OwnerInv /\ ConfirmedInv /\ OpeningInv /\ PromiseInv /\ CleanerInv
  BY DEF Init, Idle, Asleep, Bound, OwnerInv, ConfirmedInv, OpeningInv, PromiseInv,
     CleanerInv, Opening, Using, Visiting, Handshaking
<1>3. LimitInv
  BY FS_EmptySet, SessionsAssumption DEF Init, Idle, LimitInv, WithinLimit
<1> QED
  BY <1>1, <1>2, <1>3 DEF IInv

LEMMA Invariant == Spec => []IInv
<1>1. IInv /\ [Next]_vars => IInv'
  BY NextType, NextOwner, NextConfirmed, NextLimit, NextOpening, NextPromise, NextCleaner
     DEF IInv
<1> QED
  BY <1>1, InitInv, PTL DEF Spec

\* The SDK's table stays within the limit, abandoned handshakes included.
THEOREM WithinLimitHolds == Spec => []WithinLimit
<1>1. IInv => WithinLimit
  BY DEF IInv, LimitInv
<1> QED
  BY <1>1, Invariant, PTL

\* Whoever is served in a session has opened and confirmed it.
THEOREM ServedToOwnerHolds == Spec => []ServedToOwner
<1>1. IInv => ServedToOwner
  BY DEF IInv, TypeInv, Placed, OwnerInv, ConfirmedInv, ServedToOwner, Using
<1> QED
  BY <1>1, Invariant, PTL

-----------------------------------------------------------------------------
(* What the cleanup task spares. *)

Spared ==
  \A s \in promised \cap promised' :
    s \in Bound /\ s \notin DOMAIN sessions' =>
      cleaner.pc = "listed" /\ s \notin cleaner.entries

LEMMA NextSpared == IInv /\ [Next]_vars => Spared
<1> SUFFICES ASSUME IInv, [Next]_vars PROVE Spared
  OBVIOUS
<1> USE DEF IInv, TypeInv, TypeOK, Bound, PromiseInv, CleanerInv, Spared
<1>1. ASSUME NEW h \in Handlers, NEW p \in Principals, Connect(h, p) PROVE Spared
  BY <1>1 DEF Connect, Others
<1>2. ASSUME NEW h \in Handlers, NEW p \in Principals,
            NEW kind \in Kinds \ {"initialize"}, NEW s \in Sids,
            Begin(h, p, kind, s)
      PROVE Spared
  BY <1>2 DEF Begin, Others
<1>3. ASSUME NEW h \in Handlers, Admit(h) PROVE Spared
  BY <1>3 DEF Admit, Go, Room
<1>4. ASSUME NEW h \in Handlers, Refuse(h) PROVE Spared
  BY <1>4 DEF Refuse, Stop, Idle, Others
<1>5. ASSUME NEW h \in Handlers, Create(h) PROVE Spared
  BY <1>5 DEF Create
<1>6. ASSUME NEW h \in Handlers, Answer(h) PROVE Spared
  BY <1>6 DEF Answer, Go
<1>7. ASSUME NEW h \in Handlers, Bind(h) PROVE Spared
  BY <1>7 DEF Bind, Go, Insert, NewSession
<1>8. ASSUME NEW h \in Handlers, HandOut(h) PROVE Spared
  BY <1>8 DEF HandOut, Stop, Idle
<1>9. ASSUME NEW h \in Handlers, Recheck(h) PROVE Spared
  BY <1>9 DEF Recheck, Go, Others, MayPass
<1>10. ASSUME NEW h \in Handlers, Leave(h) PROVE Spared
  BY <1>10 DEF Leave, Stop, Idle, Others, Passes, MayPass
<1>11. ASSUME NEW h \in Handlers, Notify(h) PROVE Spared
  BY <1>11 DEF Notify, Go, Passes
<1>12. ASSUME NEW h \in Handlers, Serve(h) PROVE Spared
  BY <1>12 DEF Serve, Go, Others, Passes
<1>13. ASSUME NEW h \in Handlers, Delete(h) PROVE Spared
  BY <1>13 DEF Delete, Go, Passes
<1>14. ASSUME NEW h \in Handlers, Initialized(h) PROVE Spared
  BY <1>14 DEF Initialized, Stop, Idle
<1>15. ASSUME NEW h \in Handlers, Unbind(h) PROVE Spared
  BY <1>15 DEF Unbind, Stop, Idle, Restrict
<1>16. ASSUME NEW h \in Handlers, Abandon(h) PROVE Spared
  BY <1>16 DEF Abandon, Stop, Idle
<1>17. ASSUME Snapshot PROVE Spared
  BY <1>17 DEF Snapshot
<1>18. ASSUME Retain PROVE Spared
  BY <1>18 DEF Retain, Restrict
<1>19. ASSUME NEW s \in Sids, Take(s) PROVE Spared
  BY <1>19 DEF Take, TakeAs
<1>20. ASSUME Judge PROVE Spared
  BY <1>20 DEF Judge, JudgeAs
<1>21. ASSUME Close PROVE Spared
  BY <1>21 DEF Close
<1>22. ASSUME Pass PROVE Spared
  BY <1>22 DEF Pass
<1>23. ASSUME Drop PROVE Spared
  BY <1>23 DEF Drop, Restrict
<1>24. ASSUME Sleep PROVE Spared
  BY <1>24 DEF Sleep, Asleep
<1>25. ASSUME NEW s \in Sids, Expire(s) PROVE Spared
  BY <1>25 DEF Expire
<1>26. ASSUME NEW s \in Sids, Age(s) PROVE Spared
  BY <1>26 DEF Age
<1>27. ASSUME NEW s \in Sids, SdkEnd(s) PROVE Spared
  BY <1>27 DEF SdkEnd
<1>28. CASE UNCHANGED vars
  BY <1>28 DEF vars
<1> QED
  BY <1>1, <1>2, <1>3, <1>4, <1>5, <1>6, <1>7, <1>8, <1>9, <1>10, <1>11, <1>12, <1>13,
      <1>14, <1>15, <1>16, <1>17, <1>18, <1>19, <1>20, <1>21, <1>22, <1>23, <1>24, <1>25,
      <1>26, <1>27, <1>28 DEF Next, Run, Clean

\* A promised session leaves the map only in a pass whose list lacks it.
THEOREM SparedOnceListedHolds == Spec => SparedOnceListed
<1>1. IInv /\ [Next]_vars =>
        [\A s \in promised \cap promised' :
           s \in Bound /\ s \notin DOMAIN sessions' =>
             cleaner.pc = "listed" /\ s \notin cleaner.entries]_vars
  BY NextSpared DEF Spared
<1> QED
  BY <1>1, Invariant, PTL DEF Spec, SparedOnceListed

=============================================================================
