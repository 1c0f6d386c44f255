----------------------------- MODULE MCCommands -----------------------------
(* Instances of the commands for TLC: a ledger of two turns with the events  *)
(* of its rows under several paths, and the files of init.                   *)
EXTENDS Commands

Row(kind, turn, inputs) == [kind |-> kind, turn |-> turn, inputs |-> inputs]

HookScript ==
  <<Row("genesis", 0, {}), Row("input", 0, {}), Row("turn_open", 1, {2}),
    Row("tool_result", 1, {}), Row("output", 1, {}), Row("settle", 1, {}),
    Row("input", 0, {}), Row("turn_open", 2, {7})>>

In(dir) == [dir |-> dir, name |-> "ledger"]
Raised(event, turn, through, dir) ==
  [event |-> event, turn |-> turn, through |-> through, covers |-> {}, items |-> {},
   record |-> {}, path |-> In(dir)]
Opened == Raised("turn.before", 1, 3, "direct")
Result == [Raised("tool.completed", 1, 4, "direct") EXCEPT !.record = {HookScript[4]}]
Settled == Raised("turn.settled", 1, 6, "linked")
Foreign == Raised("turn.settled", 1, 6, "elsewhere")
ByLink == [Raised("turn.settled", 1, 6, "direct") EXCEPT !.path.name = "link to ledger"]
OtherRecord == [Raised("turn.settled", 1, 6, "direct") EXCEPT !.record = {HookScript[5]}]
Compacted == [Raised("context.before_compact", 2, 7, "linked") EXCEPT !.covers = {2, 4, 6}]
Asked == Raised("context.prepare", 2, 8, "direct")
AskedWith == [Raised("context.prepare", 1, 4, "direct") EXCEPT !.items = {"text"}]

HookEvents == {Opened, Result, Settled, Foreign, ByLink, OtherRecord, Compacted, Asked, AskedWith}
HookDirs == [direct |-> "thread", linked |-> "thread", elsewhere |-> "outside"]

SetupFiles == <<"model-credential", "adapter-credential", "service", "adapter">>

=============================================================================
