---------------------------- MODULE ExternalProcess ----------------------------
(***************************************************************************)
(* One run of an external command (external_process.cpp run_process).      *)
(* The child writes its objects to a pipe and its complaints to another.   *)
(* The main thread reads the first and a second thread the other, each     *)
(* until the end of the stream; then the main thread closes the child's    *)
(* standard input and waits for the child.                                 *)
(*                                                                         *)
(* The pipes hold PipeSize bytes: a child that writes to a full pipe       *)
(* waits, whoever it is waiting for.                                       *)
(***************************************************************************)
EXTENDS JsonSplitter, FiniteSetsExt

CONSTANTS
    PipeSize,            \* what a pipe holds
    BufferSize,          \* what one read takes
    MayStopShort,        \* a child may report success without having written all
    MaxComplaints        \* bound: how much a child writes to standard error

\* The output of a child is a sequence of parts: the texts of objects and what
\* stands between them.
Part == [text: Seq(Byte), object: BOOLEAN]

ASSUME ProcessAssumption ==
    /\ PipeSize \in Nat \ {0} /\ BufferSize \in Nat \ {0}
    /\ MayStopShort \in BOOLEAN
    /\ MaxComplaints \in Nat

VARIABLES
    child,               \* "none", "running", "exited", or "closed": it has closed
                         \* its outputs and waits for the end of its input
    status,              \* its exit status, -1 when it was killed
    output,              \* what it is to write to standard output
    written,             \* how much of that it has written
    complaints,          \* how much it will still write to standard error
    stdout_pipe,
    stderr_pipe,         \* the number of bytes in it
    stdin_open,          \* the parent's end of the child's standard input
    main,                \* the main thread, "free" outside of run_process
    err_reader,          \* the thread that reads standard error
    sink                 \* stdout_sink: the splitter and its inner sink

childVars == <<child, status, output, written, complaints>>
pipeVars == <<stdout_pipe, stderr_pipe, stdin_open>>
threadVars == <<main, err_reader, sink>>
processVars == <<childVars, pipeVars, threadVars>>

Bytes(parts) == FlattenSeq([i \in DOMAIN parts |-> parts[i].text])
Failure == 1

ProcessTypeOK ==
    /\ child \in {"none", "running", "closed", "exited"}
    /\ status \in {-1, 0, Failure}
    /\ output \in Seq(Part)
    /\ written \in 0..Len(Bytes(output))
    /\ complaints \in 0..MaxComplaints
    /\ stdout_pipe \in Seq(Byte) /\ Len(stdout_pipe) <= PipeSize
    /\ stderr_pipe \in 0..PipeSize
    /\ stdin_open \in BOOLEAN
    /\ main \in {"free", "reading", "joining", "waiting", "unwinding"}
    /\ err_reader \in {"none", "reading", "done"}
    /\ sink \in SinkState

ProcessInit ==
    /\ child = "none" /\ status = 0
    /\ output = <<>> /\ written = 0 /\ complaints = 0
    /\ stdout_pipe = <<>> /\ stderr_pipe = 0 /\ stdin_open = FALSE
    /\ main = "free" /\ err_reader = "none" /\ sink = NullSink

-----------------------------------------------------------------------------
\* The child.

ChildWrites ==
    /\ child = "running"
    /\ written < Len(Bytes(output))
    /\ Len(stdout_pipe) < PipeSize
    /\ stdout_pipe' = Append(stdout_pipe, Bytes(output)[written + 1])
    /\ written' = written + 1
    /\ UNCHANGED <<child, status, output, complaints, stderr_pipe, stdin_open, threadVars>>

ChildComplains ==
    /\ child = "running"
    /\ complaints > 0 /\ stderr_pipe < PipeSize
    /\ complaints' = complaints - 1
    /\ stderr_pipe' = stderr_pipe + 1
    /\ UNCHANGED <<child, status, output, written, stdout_pipe, stdin_open, threadVars>>

\* A child that reports success has written everything it had, unless it may
\* stop short; one that fails may do so at any time, one that is killed too.
ChildSucceeds ==
    /\ child = "running"
    /\ complaints = 0
    /\ written = Len(Bytes(output)) \/ MayStopShort
    /\ child' \in {"exited", "closed"}
    /\ UNCHANGED <<status, output, written, complaints, pipeVars, threadVars>>

ChildSeesEndOfInput ==
    /\ child = "closed"
    /\ ~stdin_open
    /\ child' = "exited"
    /\ UNCHANGED <<status, output, written, complaints, pipeVars, threadVars>>

ChildFails ==
    /\ child \in {"running", "closed"}
    /\ child' = "exited"
    /\ status' \in {Failure, -1}
    /\ UNCHANGED <<output, written, complaints, pipeVars, threadVars>>

OutputsClosed == child \in {"closed", "exited"}

ChildStep == ChildWrites \/ ChildComplains \/ ChildSucceeds \/ ChildSeesEndOfInput

\* What a child does that neither fails nor stops short.
ChildGoesOn ==
    \/ ChildWrites \/ ChildComplains \/ ChildSeesEndOfInput
    \/ ChildSucceeds /\ written = Len(Bytes(output))

-----------------------------------------------------------------------------
\* run_process.

\* The pipes, the fork and the second thread.
StartProcess(to_sink, parts) ==
    /\ main = "free"
    /\ child' = "running" /\ status' = 0
    /\ output' = parts /\ written' = 0
    /\ complaints' \in {0, MaxComplaints}
    /\ stdout_pipe' = <<>> /\ stderr_pipe' = 0 /\ stdin_open' = TRUE
    /\ main' = "reading" /\ err_reader' = "reading" /\ sink' = to_sink

\* A pipe or the fork fails: an exception before there is a child.
CannotStart == main = "free" /\ UNCHANGED processVars

\* Mutant: each read is split by itself.
ReadStdout_Apart ==
    LET n == Min({BufferSize, Len(stdout_pipe)})
        took == SubSeq(stdout_pipe, 1, n)
    IN  /\ main = "reading"
        /\ stdout_pipe # <<>>
        /\ stdout_pipe' = SubSeq(stdout_pipe, n + 1, Len(stdout_pipe))
        /\ sink' = SinkWrite([sink EXCEPT !.splitter = NewSplitter], took)
        /\ main' = IF sink'.parser.thrown THEN "unwinding" ELSE main
        /\ UNCHANGED <<childVars, stderr_pipe, stdin_open, err_reader>>

\* read returns what the pipe has, up to the size of the buffer.
ReadStdout ==
    LET n == Min({BufferSize, Len(stdout_pipe)})
        took == SubSeq(stdout_pipe, 1, n)
    IN  /\ main = "reading"
        /\ stdout_pipe # <<>>
        /\ stdout_pipe' = SubSeq(stdout_pipe, n + 1, Len(stdout_pipe))
        /\ sink' = SinkWrite(sink, took)
        /\ main' = IF sink'.parser.thrown THEN "unwinding" ELSE main
        /\ UNCHANGED <<childVars, stderr_pipe, stdin_open, err_reader>>

StdoutEnds ==
    /\ main = "reading"
    /\ stdout_pipe = <<>> /\ OutputsClosed
    /\ main' = "joining"
    /\ UNCHANGED <<childVars, pipeVars, err_reader, sink>>

\* Mutant: standard error is read after standard output.
ReadStderr_Afterwards ==
    /\ err_reader = "reading" /\ main = "joining"
    /\ stderr_pipe > 0
    /\ stderr_pipe' = stderr_pipe - Min({BufferSize, stderr_pipe})
    /\ UNCHANGED <<childVars, stdout_pipe, stdin_open, threadVars>>

ReadStderr ==
    /\ err_reader = "reading"
    /\ stderr_pipe > 0
    /\ stderr_pipe' = stderr_pipe - Min({BufferSize, stderr_pipe})
    /\ UNCHANGED <<childVars, stdout_pipe, stdin_open, threadVars>>

StderrEnds ==
    /\ err_reader = "reading"
    /\ stderr_pipe = 0 /\ OutputsClosed
    /\ err_reader' = "done"
    /\ UNCHANGED <<childVars, pipeVars, main, sink>>

\* stderr_future.get() and close(stdin_pipe[1]).
JoinErrReader ==
    /\ main = "joining"
    /\ err_reader = "done"
    /\ stdin_open' = FALSE
    /\ main' = "waiting"
    /\ UNCHANGED <<childVars, stdout_pipe, stderr_pipe, err_reader, sink>>

ReadStep == ReadStdout \/ StdoutEnds \/ ReadStderr \/ StderrEnds \/ JoinErrReader

NoProcess ==
    /\ child' = "none" /\ status' = 0
    /\ output' = <<>> /\ written' = 0 /\ complaints' = 0
    /\ stdout_pipe' = <<>> /\ stderr_pipe' = 0 /\ stdin_open' = FALSE
    /\ main' = "free" /\ err_reader' = "none" /\ sink' = NullSink

\* waitpid returns, and run_process returns status.
Reap == main = "waiting" /\ child = "exited" /\ NoProcess

\* The sink threw.  The future of the second thread waits for it in its
\* destructor; nothing reads or closes the other pipes, and nothing waits for
\* the child.
Unwind == main = "unwinding" /\ err_reader = "done" /\ NoProcess
================================================================================
