-------------------------- MODULE SessionsProperties --------------------------
(***************************************************************************)
(* What the sessions of server.rs promise.                                 *)
(***************************************************************************)
EXTENDS Sessions

HandlerStates ==
  {"idle", "waiting", "admitted", "created", "answered", "bound", "checked",
   "rechecked", "accepted", "served"}

CleanerStates == {"asleep", "listed", "visiting", "taken", "judged", "closed"}

Handling ==
  [pc : HandlerStates, kind : AllKinds,
   principal : Principals \cup {Nobody}, sid : Sids \cup {NoSid}]

Session == [principal : Principals, initialized : BOOLEAN, expired : BOOLEAN]

\* Every table, handler and local variable holds values of its kind, and a
\* session in any of them is one that the SDK has drawn.
TypeOK ==
  /\ sdk \subseteq Sids /\ Bound \subseteq Sids
  /\ sessions \in [Bound -> Session]
  /\ gate \in Handlers \cup {Nobody}
  /\ handler \in [Handlers -> Handling]
  /\ cleaner \in [pc : CleanerStates, entries : SUBSET Sids, todo : SUBSET Sids,
                  sid : Sids \cup {NoSid}, expired : BOOLEAN, orphan : BOOLEAN]
  /\ unbound \in [Sids -> {"no", "seen", "aged"}]
  /\ owner \in [Sids -> Principals \cup {Nobody}]
  /\ confirmed \subseteq Sids /\ promised \subseteq Sids

\* The SDK never holds more sessions than the limit: initialize requests that
\* run at the same time, some of which are abandoned after the SDK has opened
\* their session, do not get past the count together (initialize_gate).
WithinLimit == Cardinality(sdk) <= Limit

\* A call reaches the tools only in a session that the caller itself opened
\* and confirmed, whatever happened to the session between the two checks of
\* handle() and the SDK's.
ServedToOwner ==
  \A h \in Handlers :
    handler[h].pc = "served" =>
      owner[handler[h].sid] = handler[h].principal /\ handler[h].sid \in confirmed

\* The cleanup task takes a session that was handed out and has not ended from
\* its owner only if the session was missing on the task's own list; it never
\* closes one that it has listed.
SparedOnceListed ==
  [][\A s \in promised \cap promised' :
       s \in Bound /\ s \notin DOMAIN sessions' =>
         cleaner.pc = "listed" /\ s \notin cleaner.entries]_vars

\* A session that was handed out stays bound to its principal until it is
\* deleted, its hour is over or the SDK ends it.
PromiseKept == promised \subseteq Bound

-----------------------------------------------------------------------------

\* An SDK session that no principal is bound to, because its client hung up in
\* the handshake, does not stay for ever: it gets bound or is closed.
OrphansCleared ==
  \A s \in Sids : s \in sdk \ Bound ~> s \notin sdk \/ s \in Bound

\* A session past its hour leaves both tables.
ExpiredCleared ==
  \A s \in Sids : s \in Bound /\ sessions[s].expired ~> s \notin Bound \cup sdk

\* A bound session that the SDK no longer has gives its entry and permit back.
MapFollowsSdk ==
  \A s \in Sids : s \in Bound \ sdk ~> s \notin Bound

=============================================================================
