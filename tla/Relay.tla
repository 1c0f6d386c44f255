------------------------------- MODULE Relay -------------------------------
(***************************************************************************)
(* The stdio relay of client.rs: an OS thread that reads standard input,   *)
(* the task that opens the remote client and serves the SDK over a pair of *)
(* pipes, and the task that writes standard output from the SDK's pipe and *)
(* from a bounded channel of protocol errors. Lines are counted: a line is *)
(* told apart only by what the reader does with it.                        *)
(***************************************************************************)
EXTENDS Integers

CONSTANTS
  ErrorLimit,  \* protocol errors the channel holds (16)
  PipeLimit,   \* lines a pipe holds (MAX_RESPONSE bytes)
  MaxLines     \* bound on the lines of the input

VARIABLES
  reader,  \* the reader thread: state, initialize passed on, lines read, result
  chan,    \* first and finished channels, the two pipes, the error channel
  sdk,     \* the SDK's service
  output,  \* the output task, and whether it holds part of a response
  task,    \* what stdio itself is doing
  told     \* history: errors queued and shown, responses written and printed

relayVars == <<reader, chan, sdk, output, task, told>>

ASSUME RelayAssumption ==
  ErrorLimit \in Nat \ {0} /\ PipeLimit \in Nat \ {0} /\ MaxLines \in Nat

RelayInit ==
  /\ reader = [state |-> "reading", initialized |-> FALSE, lines |-> 0, result |-> "none"]
  /\ chan = [first |-> "none", finished |-> "none", writer |-> TRUE,
             inbound |-> 0, outbound |-> 0, errors |-> 0]
  /\ sdk = "off" /\ output = [state |-> "off", half |-> FALSE] /\ task = "first"
  /\ told = [queued |-> 0, shown |-> 0, written |-> 0, printed |-> 0]

Exited == task \in {"ok", "error"}
SdkGone == sdk \in {"ended", "unserved", "refused"}
First(value) == IF chan.first = "none" THEN value ELSE chan.first

-----------------------------------------------------------------------------
(* The reader thread *)

ReaderIn(state) == reader.state = state /\ ~Exited

\* A request for the SDK, the first one of them initialize; a request whose
\* id is neither an integer nor a string; or a line that is not JSON, is too
\* long, or is not initialize although nothing was passed on yet.
ReadLine ==
  /\ ReaderIn("reading") /\ reader.lines < MaxLines
  /\ \/ /\ reader' = [reader EXCEPT !.state = "forwarding", !.lines = @ + 1, !.initialized = TRUE]
        /\ chan' = [chan EXCEPT !.first = First("go")]
     \/ reader' = [reader EXCEPT !.state = "reporting", !.lines = @ + 1] /\ UNCHANGED chan
     \/ reader' = [reader EXCEPT !.state = "ending", !.lines = @ + 1, !.result = "bad"]
        /\ UNCHANGED chan
  /\ UNCHANGED <<sdk, output, task, told>>

\* The end of the input, in the middle of a line or not.
ReadEnd ==
  /\ ReaderIn("reading")
  /\ \E r \in {"ok", "bad"} : reader' = [reader EXCEPT !.state = "ending", !.result = r]
  /\ UNCHANGED <<chan, sdk, output, task, told>>

\* The pipe has room, or its reading end is gone.
Forward ==
  /\ ReaderIn("forwarding")
  /\ \/ /\ ~SdkGone /\ chan.inbound < PipeLimit
        /\ chan' = [chan EXCEPT !.inbound = @ + 1] /\ reader' = [reader EXCEPT !.state = "reading"]
     \/ /\ SdkGone /\ UNCHANGED chan
        /\ reader' = [reader EXCEPT !.state = "ending", !.result = "bad"]
  /\ UNCHANGED <<sdk, output, task, told>>

\* The channel has room, or its receiver went with the output task.
Report ==
  /\ ReaderIn("reporting")
  /\ \/ /\ output.state # "done" /\ chan.errors < ErrorLimit
        /\ chan' = [chan EXCEPT !.errors = @ + 1, !.first = First("go")]
        /\ told' = [told EXCEPT !.queued = @ + 1] /\ reader' = [reader EXCEPT !.state = "reading"]
     \/ /\ output.state = "done" /\ UNCHANGED <<chan, told>>
        /\ reader' = [reader EXCEPT !.state = "ending", !.result = "bad"]
  /\ UNCHANGED <<sdk, output, task>>

\* The result is sent before the thread lets go of the pipe.
Finish ==
  /\ ReaderIn("ending") /\ reader' = [reader EXCEPT !.state = "leaving"]
  /\ chan' = [chan EXCEPT !.finished = reader.result,
                          !.first = First(IF reader.result = "ok" THEN "empty" ELSE "error")]
  /\ UNCHANGED <<sdk, output, task, told>>

\* Mutation: the writing end of the pipe outlives the reader.
LeavePipeOpen ==
  /\ ReaderIn("leaving") /\ reader' = [reader EXCEPT !.state = "gone"]
  /\ UNCHANGED <<chan, sdk, output, task, told>>

Leave ==
  /\ ReaderIn("leaving") /\ reader' = [reader EXCEPT !.state = "gone"]
  /\ chan' = [chan EXCEPT !.writer = FALSE] /\ UNCHANGED <<sdk, output, task, told>>

-----------------------------------------------------------------------------
(* stdio *)

FirstInput ==
  /\ task = "first" /\ chan.first # "none"
  /\ task' = CASE chan.first = "go" -> "opening" [] chan.first = "empty" -> "ok"
               [] chan.first = "error" -> "error"
  /\ UNCHANGED <<reader, chan, sdk, output, told>>

\* The remote client opens within its timeout; then the output task and the
\* SDK are started.
OpenRemote ==
  /\ task = "opening" /\ task' = "serving" /\ sdk' = "waiting"
  /\ output' = [output EXCEPT !.state = "running"] /\ UNCHANGED <<reader, chan, told>>

OpenRemoteFails ==
  task = "opening" /\ task' = "error" /\ UNCHANGED <<reader, chan, sdk, output, told>>

\* An input that ended badly fails the command although the SDK ended well;
\* a thread that still waits for input is not waited for.
Return ==
  /\ task = "serving" /\ SdkGone /\ output.state = "done"
  /\ task' = IF sdk = "ended" /\ chan.finished # "bad" THEN "ok" ELSE "error"
  /\ UNCHANGED <<reader, chan, sdk, output, told>>

-----------------------------------------------------------------------------
(* The SDK: external *)

\* It takes a line and may answer it; the handshake takes some lines.
SdkTakes ==
  /\ sdk \in {"waiting", "serving"} /\ chan.inbound > 0 /\ chan.outbound < PipeLimit
  /\ sdk' \in {sdk, "serving"}
  /\ \E n \in 0..1 : /\ chan' = [chan EXCEPT !.inbound = @ - 1, !.outbound = @ + n]
                     /\ told' = [told EXCEPT !.written = @ + n]
  /\ UNCHANGED <<reader, output, task>>

\* It does not accept the handshake; or its input ends, before or after it.
\* It drops the pipe it writes to.
SdkEnds ==
  /\ \/ sdk = "waiting" /\ chan.inbound > 0 /\ sdk' = "refused"
     \/ sdk = "waiting" /\ chan.inbound = 0 /\ ~chan.writer /\ sdk' = "unserved"
     \/ sdk = "serving" /\ chan.inbound = 0 /\ ~chan.writer /\ sdk' = "ended"
  /\ UNCHANGED <<reader, chan, output, task, told>>

-----------------------------------------------------------------------------
(* The output task *)

\* Part of a response arrives. When an error is taken next, the part is kept.
ReadHalf ==
  /\ output = [state |-> "running", half |-> FALSE] /\ chan.outbound > 0
  /\ output' = [output EXCEPT !.half = TRUE] /\ UNCHANGED <<reader, chan, sdk, task, told>>

PrintResponse ==
  /\ output.state = "running" /\ output.half /\ output' = [output EXCEPT !.half = FALSE]
  /\ chan' = [chan EXCEPT !.outbound = @ - 1] /\ told' = [told EXCEPT !.printed = @ + 1]
  /\ UNCHANGED <<reader, sdk, task>>

PrintError ==
  /\ output.state = "running" /\ chan.errors > 0
  /\ chan' = [chan EXCEPT !.errors = @ - 1] /\ told' = [told EXCEPT !.shown = @ + 1]
  /\ UNCHANGED <<reader, sdk, output, task>>

OutputAtEnd ==
  /\ output.state = "running" /\ SdkGone /\ chan.outbound = 0
  /\ output' = [output EXCEPT !.state = "flushing"] /\ UNCHANGED <<reader, sdk, task>>

\* Mutation: what the error channel still holds is dropped.
OutputEndsAtOnce == OutputAtEnd /\ UNCHANGED <<chan, told>>

\* The end of the SDK's pipe: what the channel holds by now is still written.
OutputEnds ==
  /\ OutputAtEnd /\ chan' = [chan EXCEPT !.errors = 0]
  /\ told' = [told EXCEPT !.shown = @ + chan.errors]

OutputDone ==
  /\ output.state = "flushing" /\ output' = [output EXCEPT !.state = "done"]
  /\ UNCHANGED <<reader, chan, sdk, task, told>>

-----------------------------------------------------------------------------
InputNext == ReadLine \/ ReadEnd
ReaderNext == Forward \/ Report \/ Finish \/ Leave
TaskNext == FirstInput \/ OpenRemote \/ OpenRemoteFails \/ Return
SdkNext == SdkTakes \/ SdkEnds
OutputNext == ReadHalf \/ PrintResponse \/ PrintError \/ OutputEnds \/ OutputDone
RelayNext == InputNext \/ ReaderNext \/ TaskNext \/ SdkNext \/ OutputNext

\* Threads and tasks run, the SDK serves what it is given, and standard
\* output is read; nobody has to write or to close standard input.
RelayFairness ==
  /\ WF_relayVars(ReaderNext) /\ WF_relayVars(TaskNext)
  /\ WF_relayVars(SdkNext) /\ WF_relayVars(OutputNext)

RelaySpec == RelayInit /\ [][RelayNext]_relayVars /\ RelayFairness

-----------------------------------------------------------------------------
(* Properties *)

\* When the SDK served until the input ended, the command ends only after
\* every request with an unsupported id was answered and every response was
\* written whole, and it fails when the input ended badly
\* (client.rs:402-433, 440-443).
RelayTellsAll ==
  Exited /\ sdk \in {"ended", "unserved"} =>
    /\ told.shown = told.queued /\ told.printed = told.written
    /\ reader.result = "bad" => task = "error"

\* The end of the input or bad input ends the command, even while the client
\* keeps its end of standard input open (client.rs:337-338, 399-400).
RelayExits == reader.state = "ending" ~> Exited

=============================================================================
