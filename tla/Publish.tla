------------------------------ MODULE Publish ------------------------------
(***************************************************************************)
(* tekes-memory init: setup of config.rs writes the files of a new         *)
(* deployment one after the other with write_private of common.rs, which   *)
(* writes and syncs a temporary file, links it under the final name, syncs *)
(* the directory and removes the temporary name. Two commands may run on   *)
(* one directory, a command may be killed, and the machine may lose power. *)
(***************************************************************************)
EXTENDS Integers, Sequences, FiniteSets, Functions

CONSTANTS
  Inits,       \* init commands
  Files,       \* the names they publish, in order
  MaxPowerLosses

VARIABLES
  init,     \* the commands: state, and the file they are at
  visible,  \* names in the directory: the command that wrote them
  durable,  \* the names as the disk has them
  synced,   \* files whose content is on the disk: command and name
  torn,     \* names whose content was lost
  leftover, \* temporary names in the directory
  losses    \* power losses so far

publishVars == <<init, visible, durable, synced, torn, leftover, losses>>

ASSUME PublishAssumption ==
  /\ Len(Files) \in Nat \ {0} /\ MaxPowerLosses \in Nat
  /\ \A m, n \in 1..Len(Files) : Files[m] = Files[n] => m = n

PublishInit ==
  /\ init = [i \in Inits |-> [state |-> "start", at |-> 1]]
  /\ visible = <<>> /\ durable = <<>> /\ synced = {} /\ torn = {} /\ leftover = {} /\ losses = 0

Turn(i, from, to) == init[i].state = from /\ init' = [init EXCEPT ![i].state = to]
Name(i) == Files[init[i].at]

-----------------------------------------------------------------------------
\* The directory must be empty, of temporary names too.
CheckEmpty(i) ==
  /\ IF DOMAIN visible = {} /\ leftover = {} THEN Turn(i, "start", "write")
     ELSE Turn(i, "start", "failed")
  /\ UNCHANGED <<visible, durable, synced, torn, leftover, losses>>

WriteTemporary(i) ==
  /\ Turn(i, "write", "sync") /\ leftover' = leftover \cup {i}
  /\ UNCHANGED <<visible, durable, synced, torn, losses>>

SyncTemporary(i) ==
  /\ Turn(i, "sync", "link") /\ synced' = synced \cup {<<i, Name(i)>>}
  /\ UNCHANGED <<visible, durable, torn, leftover, losses>>

\* Mutation: rename, which replaces the file of another command.
LinkReplacing(i) ==
  /\ Turn(i, "link", "syncdir")
  /\ visible' = [n \in DOMAIN visible \cup {Name(i)} |-> IF n = Name(i) THEN i ELSE visible[n]]
  /\ UNCHANGED <<durable, synced, torn, leftover, losses>>

\* A hard link fails when the name exists.
Link(i) ==
  /\ IF Name(i) \in DOMAIN visible
     THEN Turn(i, "link", "undo") /\ UNCHANGED visible
     ELSE /\ Turn(i, "link", "syncdir")
          /\ visible' = [n \in DOMAIN visible \cup {Name(i)} |->
                           IF n = Name(i) THEN i ELSE visible[n]]
  /\ UNCHANGED <<durable, synced, torn, leftover, losses>>

SyncDirectory(i) ==
  /\ Turn(i, "syncdir", "remove") /\ durable' = visible
  /\ UNCHANGED <<visible, synced, torn, leftover, losses>>

RemoveTemporary(i) ==
  /\ init[i].state = "remove" /\ leftover' = leftover \ {i}
  /\ init' = [init EXCEPT ![i] = IF @.at = Len(Files) THEN [@ EXCEPT !.state = "done"]
                                 ELSE [state |-> "write", at |-> @.at + 1]]
  /\ UNCHANGED <<visible, durable, synced, torn, losses>>

\* A write or a sync reports an error; a link that was made stays.
Fail(i) ==
  /\ \E from \in {"write", "sync", "syncdir"} : Turn(i, from, "undo")
  /\ UNCHANGED <<visible, durable, synced, torn, leftover, losses>>

\* The temporary file goes after a failure as well; the command fails.
Undo(i) ==
  /\ Turn(i, "undo", "failed") /\ leftover' = leftover \ {i}
  /\ UNCHANGED <<visible, durable, synced, torn, losses>>

Kill(i) ==
  /\ init[i].state \notin {"start", "done", "failed"}
  /\ init' = [init EXCEPT ![i].state = "failed"]
  /\ UNCHANGED <<visible, durable, synced, torn, leftover, losses>>

\* Names that no sync of the directory followed may be gone, temporary ones
\* too, and files whose content was not synced before may be torn.
PowerLoss ==
  /\ losses < MaxPowerLosses /\ losses' = losses + 1
  /\ \E kept \in SUBSET (DOMAIN visible \ DOMAIN durable) :
       visible' = Restrict(visible, DOMAIN durable \cup kept)
  /\ durable' = visible'
  /\ torn' = torn \cup {n \in DOMAIN visible' : <<visible[n], n>> \notin synced}
  /\ init' = [i \in Inits |-> IF init[i].state \in {"start", "done"} THEN init[i]
                              ELSE [init[i] EXCEPT !.state = "failed"]]
  /\ leftover' \in SUBSET leftover /\ UNCHANGED synced

PublishNext ==
  \/ \E i \in Inits : \/ CheckEmpty(i) \/ WriteTemporary(i) \/ SyncTemporary(i) \/ Link(i)
                      \/ SyncDirectory(i) \/ RemoveTemporary(i)
                      \/ Fail(i) \/ Undo(i) \/ Kill(i)
  \/ PowerLoss

PublishSpec == PublishInit /\ [][PublishNext]_publishVars

-----------------------------------------------------------------------------
(* Properties *)

\* A file is there only together with all that is written before it, whole
\* and by the same command: a service.json never names the tokens of another
\* deployment or of credentials that a crash took away
\* (config.rs:178-217, common.rs:181-200).
FilesTogether ==
  \A m, n \in 1..Len(Files) :
    m < n /\ Files[n] \in DOMAIN visible =>
      /\ Files[m] \in DOMAIN visible /\ visible[Files[m]] = visible[Files[n]]
      /\ Files[m] \notin torn /\ Files[n] \notin torn

=============================================================================
