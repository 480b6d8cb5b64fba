---------------------------- MODULE ProcessSessions ----------------------------
(***************************************************************************)
(* The sessions external processes run in (external_process_manager) and   *)
(* the part of data_server::load that runs them: sessions are parsed and   *)
(* get a directory each, every init command runs, then one command for     *)
(* each type that is loaded from an external process, then every cleanup   *)
(* command.  When anything fails before that, the destructor cleans up as  *)
(* the program exits.                                                      *)
(***************************************************************************)
EXTENDS ExternalProcess

CONSTANTS
    Session,             \* the names of sessions
    SessionConfigs,      \* what external-process-sessions may be set to
    TypeConfigs,         \* the settings of the external types, in load order
    Outputs,             \* [position of a type -> what its command may write]
    Chatter              \* what init and cleanup commands may write

\* wellFormed: the session has a name and a command.
SessionConfig == [name: Session, init: BOOLEAN, cleanup: BOOLEAN, wellFormed: BOOLEAN]

TypeConfig == [session: Session, identifier: BOOLEAN, generator: BOOLEAN]

ASSUME SessionsAssumption ==
    /\ SessionConfigs \subseteq Seq(SessionConfig)
    /\ TypeConfigs \subseteq Seq(TypeConfig)
    /\ \A i \in DOMAIN Outputs : Outputs[i] \subseteq Seq(Part)
    /\ \A types \in TypeConfigs : DOMAIN types \subseteq DOMAIN Outputs
    /\ Chatter \subseteq Seq(Part)

VARIABLES
    phase,               \* "parse", "init", "load", "cleanup" or "exit"
    at,                  \* the session or type that is next
    config,              \* the setting external-process-sessions
    types,               \* the settings of the external types
    sessions,            \* sessions_
    temp_dirs,           \* the sessions that have a directory
    loaded,              \* the objects of each type loaded so far
    result,              \* how the load ended: "none" so far, "loaded" or "failed"
    \* History variables.
    inits,               \* how often the init command of each session succeeded
    cleanups,            \* how often the cleanup command of each session was tried
    outputs              \* <<output, written>> of the commands that were believed

managerVars == <<phase, at, config, types, sessions, temp_dirs, loaded, result>>
historyVars == <<inits, cleanups, outputs>>
vars == <<processVars, managerVars, historyVars>>

SessionNames(ss) == {ss[i].name : i \in DOMAIN ss}

SessionsTypeOK ==
    /\ ProcessTypeOK
    /\ phase \in {"parse", "init", "load", "cleanup", "exit"}
    /\ at \in Nat \ {0}
    /\ config \in SessionConfigs
    /\ types \in TypeConfigs
    /\ sessions \in Seq(SessionConfig)
    /\ temp_dirs \subseteq Session
    /\ loaded \in Seq(SUBSET Acceptable)
    /\ result \in {"none", "loaded", "failed"}
    /\ inits \in [Session -> Nat] /\ cleanups \in [Session -> Nat]
    /\ outputs \in Seq(Seq(Part) \X Nat)

SessionsInit ==
    /\ ProcessInit
    /\ phase = "parse" /\ at = 1
    /\ config \in SessionConfigs
    /\ types \in TypeConfigs
    /\ sessions = <<>> /\ temp_dirs = {} /\ loaded = <<>> /\ result = "none"
    /\ inits = [s \in Session |-> 0] /\ cleanups = [s \in Session |-> 0]
    /\ outputs = <<>>

\* cleanup_sessions begins: at the end of data_server::load, or in the
\* destructor of the manager when an exception has left load and the program
\* returned from main.  cleaned_up_ keeps the destructor from doing it again.
LoadEnds(how) ==
    /\ phase' = "cleanup" /\ at' = 1
    /\ result' = how

Advance(next_phase) ==
    /\ phase' = next_phase /\ at' = 1
    /\ UNCHANGED <<config, types, sessions, temp_dirs, loaded, result, historyVars, processVars>>

SkipSession ==
    /\ at' = at + 1
    /\ UNCHANGED <<phase, config, types, sessions, temp_dirs, loaded, result, historyVars,
                   processVars>>

-----------------------------------------------------------------------------
\* parse_sessions: a session that could be parsed is kept with its directory.

WellFormed(s) == s.wellFormed /\ s.name \notin SessionNames(sessions)

ParseSession ==
    /\ phase = "parse" /\ at <= Len(config)
    /\ WellFormed(config[at])
    /\ sessions' = Append(sessions, config[at])
    /\ temp_dirs' = temp_dirs \cup {config[at].name}
    /\ at' = at + 1
    /\ UNCHANGED <<phase, config, types, loaded, result, historyVars, processVars>>

\* Mutant: the destructor does not clean up.
ParseFails_NoDestructor ==
    /\ phase = "parse" /\ at <= Len(config)
    /\ ~WellFormed(config[at])
    /\ phase' = "exit" /\ result' = "failed"
    /\ UNCHANGED <<at, config, types, sessions, temp_dirs, loaded, historyVars, processVars>>

ParseFails ==
    /\ phase = "parse" /\ at <= Len(config)
    /\ ~WellFormed(config[at])
    /\ LoadEnds("failed")
    /\ UNCHANGED <<config, types, sessions, temp_dirs, loaded, historyVars, processVars>>

SessionsParsed == phase = "parse" /\ at > Len(config) /\ Advance("init")

-----------------------------------------------------------------------------
\* init_sessions.

NoInitCommand == phase = "init" /\ at <= Len(sessions) /\ ~sessions[at].init /\ SkipSession

StartInit ==
    /\ phase = "init" /\ at <= Len(sessions) /\ sessions[at].init
    /\ \E parts \in Chatter : StartProcess(NullSink, parts)
    /\ UNCHANGED <<managerVars, historyVars>>

\* Mutant: the exit status of init commands is not looked at.
InitReturns_AnyStatus ==
    /\ phase = "init" /\ Reap
    /\ at' = at + 1
    /\ inits' = IF status = 0 THEN [inits EXCEPT ![sessions[at].name] = @ + 1] ELSE inits
    /\ UNCHANGED <<phase, config, types, sessions, temp_dirs, loaded, result, cleanups, outputs>>

InitReturns ==
    /\ phase = "init" /\ Reap /\ status = 0
    /\ at' = at + 1
    /\ inits' = [inits EXCEPT ![sessions[at].name] = @ + 1]
    /\ UNCHANGED <<phase, config, types, sessions, temp_dirs, loaded, result, cleanups, outputs>>

InitFails ==
    /\ phase = "init"
    /\ \/ Reap /\ status # 0
       \/ CannotStart /\ at <= Len(sessions) /\ sessions[at].init
    /\ LoadEnds("failed")
    /\ UNCHANGED <<config, types, sessions, temp_dirs, loaded, historyVars>>

InitDone == phase = "init" /\ at > Len(sessions) /\ Advance("load")

-----------------------------------------------------------------------------
\* external_process_get for each type.

StartCommand ==
    /\ phase = "load" /\ at <= Len(types)
    /\ types[at].session \in SessionNames(sessions)
    /\ \E parts \in Outputs[at] :
          StartProcess(NewSink(types[at].identifier, types[at].generator), parts)
    /\ UNCHANGED <<managerVars, historyVars>>

\* Mutant: the output is not checked for truncation.
Believed_Incomplete == status = 0 /\ ~sink.splitter.failed /\ ~sink.parser.failed

\* What external_process_get asks of a command that returned, in its order:
\* the exit status, the splitter, the end of the output, the parser.
Believed ==
    /\ status = 0
    /\ ~sink.splitter.failed
    /\ ~incomplete(sink.splitter)
    /\ ~sink.parser.failed

CommandReturns ==
    /\ phase = "load" /\ Reap /\ Believed
    /\ loaded' = Append(loaded, sink.parser.objects)
    /\ outputs' = Append(outputs, <<output, written>>)
    /\ at' = at + 1
    /\ UNCHANGED <<phase, config, types, sessions, temp_dirs, result, inits, cleanups>>

\* CannotStart is also what get_session does with a name it does not know, and
\* what any other source of objects does that fails between two commands.
CommandFails ==
    /\ phase = "load"
    /\ (Reap /\ ~Believed) \/ Unwind \/ CannotStart
    /\ LoadEnds("failed")
    /\ UNCHANGED <<config, types, sessions, temp_dirs, loaded, historyVars>>

LoadDone ==
    /\ phase = "load" /\ at > Len(types)
    /\ LoadEnds("loaded")
    /\ UNCHANGED <<config, types, sessions, temp_dirs, loaded, historyVars, processVars>>

-----------------------------------------------------------------------------
\* cleanup_sessions.

RemoveTempDir == temp_dirs' = temp_dirs \ {sessions[at].name} /\ at' = at + 1

NoCleanupCommand ==
    /\ phase = "cleanup" /\ at <= Len(sessions) /\ ~sessions[at].cleanup
    /\ RemoveTempDir
    /\ UNCHANGED <<phase, config, types, sessions, loaded, result, historyVars, processVars>>

TryCleanup ==
    /\ phase = "cleanup" /\ at <= Len(sessions) /\ sessions[at].cleanup
    /\ main = "free"
    /\ cleanups' = [cleanups EXCEPT ![sessions[at].name] = @ + 1]
    /\ UNCHANGED <<inits, outputs>>

StartCleanup ==
    /\ TryCleanup
    /\ \E parts \in Chatter : StartProcess(NullSink, parts)
    /\ UNCHANGED managerVars

\* Whatever becomes of one cleanup command, the rest is cleaned up.
CleanupCannotStart ==
    /\ TryCleanup /\ CannotStart
    /\ RemoveTempDir
    /\ UNCHANGED <<phase, config, types, sessions, loaded, result>>

CleanupReturns ==
    /\ phase = "cleanup" /\ Reap
    /\ RemoveTempDir
    /\ UNCHANGED <<phase, config, types, sessions, loaded, result, historyVars>>

CleanupDone == phase = "cleanup" /\ at > Len(sessions) /\ Advance("exit")

Exited == phase = "exit" /\ UNCHANGED vars

-----------------------------------------------------------------------------
ManagerStep ==
    \/ ParseSession \/ ParseFails \/ SessionsParsed
    \/ NoInitCommand \/ StartInit \/ InitReturns \/ InitFails \/ InitDone
    \/ StartCommand \/ CommandReturns \/ CommandFails \/ LoadDone
    \/ NoCleanupCommand \/ StartCleanup \/ CleanupCannotStart \/ CleanupReturns \/ CleanupDone

ProcessStep ==
    /\ ReadStep \/ ChildStep \/ ChildFails
    /\ UNCHANGED <<managerVars, historyVars>>

SessionsNext == ManagerStep \/ ProcessStep \/ Exited

SessionsSpec == SessionsInit /\ [][SessionsNext]_vars

\* Each thread is scheduled, and a child that can go on does: it is finite and
\* asks for nothing but room in its pipes and the end of its input.
SessionsFairness ==
    /\ WF_vars(ManagerStep)
    /\ WF_vars((ReadStdout \/ StdoutEnds \/ JoinErrReader)
                   /\ UNCHANGED <<managerVars, historyVars>>)
    /\ WF_vars((ReadStderr \/ StderrEnds) /\ UNCHANGED <<managerVars, historyVars>>)
    /\ WF_vars(ChildGoesOn /\ UNCHANGED <<managerVars, historyVars>>)

FairSessionsSpec == SessionsSpec /\ SessionsFairness

-----------------------------------------------------------------------------
\* Properties.

WrittenUpTo(parts, k) == Len(Bytes(SubSeq(parts, 1, k)))

\* The ids of the objects that the command finished writing.
ObjectsWritten(parts, n) ==
    UNION {IdsIn(parts[k].text) :
              k \in {j \in DOMAIN parts : parts[j].object /\ WrittenUpTo(parts, j) <= n}}

\* When a load succeeds, each type has exactly the acceptable objects its
\* command wrote, wherever reads cut the stream and whatever the strings and
\* nested objects in it look like (external_process_load.cpp:141), and no
\* object was cut off.
LoadedIsWritten ==
    result = "loaded" =>
        /\ Len(loaded) = Len(types)
        /\ \A i \in DOMAIN loaded :
              LET parts == outputs[i][1]
                  n == outputs[i][2]
              IN  /\ loaded[i] = ObjectsWritten(parts, n) \cap Acceptable
                  /\ \A k \in DOMAIN parts : parts[k].object =>
                        n \notin (WrittenUpTo(parts, k - 1) + 1)..(WrittenUpTo(parts, k) - 1)

\* Where one is in a text: how many braces are open, and whether in a string.
PlaceInText == [depth: Int, quoted: BOOLEAN, escaped: BOOLEAN]
TextStart == [depth |-> 0, quoted |-> FALSE, escaped |-> FALSE]

TextByte(place, c) ==
    CASE place.escaped -> [place EXCEPT !.escaped = FALSE]
      [] place.quoted /\ ~place.escaped ->
            [place EXCEPT !.escaped = (c = "backslash"), !.quoted = (c # "quote")]
      [] OTHER ->
            [place EXCEPT !.quoted = (c = "quote"),
                          !.depth = @ + (IF c = "open" THEN 1 ELSE 0)
                                      - (IF c = "close" THEN 1 ELSE 0)]

PlaceAfter(text, n) == FoldLeft(TextByte, TextStart, SubSeq(text, 1, n))

\* The first brace is closed by the last byte and not before.
IsObjectText(text) ==
    /\ Len(text) > 1 /\ PlaceAfter(text, Len(text)).depth = 0
    /\ \A n \in 1..Len(text) - 1 : PlaceAfter(text, n).depth > 0

\* An output is well cut into its parts: objects are objects, what stands between
\* them is single bytes, and nothing is said to be an object after the end of an
\* array, where the splitter does not look any more.
WellCut(parts) ==
    /\ \A k \in DOMAIN parts :
          IF parts[k].object THEN IsObjectText(parts[k].text)
          ELSE \E c \in Byte \ {"open"} : parts[k].text = <<c>>
    /\ \A j, k \in DOMAIN parts : j < k /\ parts[j].text = <<"]">> => ~parts[k].object

OutputsAreWellCut == \A i \in DOMAIN Outputs : \A parts \in Outputs[i] : WellCut(parts)

SinkFor(t) == NewSink(t.identifier, t.generator)

\* What the i-th type's sink has made of the first n bytes of an output, had
\* they come in one piece.
InOnePiece(i, parts, n) == SinkWrite(SinkFor(types[i]), SubSeq(Bytes(parts), 1, n))

HadNoComplaint(end) ==
    /\ ~end.splitter.failed /\ ~incomplete(end.splitter)
    /\ ~end.parser.failed /\ ~end.parser.thrown

\* When a load succeeds, each type has what its sink makes of the bytes that its
\* command wrote, all of them and in one piece, and the sink had no complaint:
\* nothing depends on where the pipe and the buffer cut the stream, and nothing
\* written is left in the pipe (external_process.cpp:379).
LoadedHoweverCut ==
    result = "loaded" =>
        /\ Len(loaded) = Len(types)
        /\ \A i \in DOMAIN loaded :
              LET end == InOnePiece(i, outputs[i][1], outputs[i][2])
              IN  loaded[i] = end.parser.objects /\ HadNoComplaint(end)

\* No command runs for a type, and no load succeeds, unless every session was
\* parsed and every init command succeeded, once; nothing is cleaned up while
\* the data is still loaded (external_process.cpp:95, data_server.cpp:47).
CommandsRunInSessions ==
    (phase = "load" \/ result = "loaded") =>
        /\ sessions = config
        /\ \A i \in DOMAIN sessions :
              /\ inits[sessions[i].name] = (IF sessions[i].init THEN 1 ELSE 0)
              /\ phase = "load" => /\ cleanups[sessions[i].name] = 0
                                   /\ sessions[i].name \in temp_dirs

\* However the run ended, each cleanup command was tried once for every
\* session that was parsed and no directory is left (external_process.cpp:113).
EverySessionIsCleanedUp ==
    phase = "exit" =>
        /\ temp_dirs = {}
        /\ \A i \in DOMAIN sessions :
              cleanups[sessions[i].name] = (IF sessions[i].cleanup THEN 1 ELSE 0)

\* The inductive invariant behind the two, in named parts.

NotYetCleaning == phase \in {"parse", "init", "load"}

\* What has been parsed is a beginning of the setting, and no name comes twice.
SessionsParsedInv ==
    /\ sessions \in Seq(SessionConfig) /\ config \in Seq(SessionConfig)
    /\ Len(sessions) <= Len(config)
    /\ \A i \in 1..Len(sessions) : sessions[i] = config[i]
    /\ \A i, j \in 1..Len(sessions) : sessions[i].name = sessions[j].name => i = j
    /\ phase = "parse" => Len(sessions) = at - 1
    /\ phase \in {"init", "load"} \/ result = "loaded" => Len(sessions) = Len(config)

\* A command runs for the session or type that is next.
CommandsInv ==
    /\ at \in Nat \ {0}
    /\ main # "free" =>
          \/ phase = "init" /\ at \in 1..Len(sessions) /\ sessions[at].init
          \/ phase = "load" /\ at \in 1..Len(types)
          \/ phase = "cleanup" /\ at \in 1..Len(sessions) /\ sessions[at].cleanup

\* Which init commands have succeeded, which cleanup commands were tried, which
\* directories are there.
InitsInv ==
    /\ inits \in [Session -> Nat]
    /\ phase = "parse" => \A s \in Session : inits[s] = 0
    /\ phase = "init" =>
          \A i \in 1..Len(sessions) :
              inits[sessions[i].name] = (IF sessions[i].init /\ i < at THEN 1 ELSE 0)
    /\ phase = "load" \/ result = "loaded" =>
          \A i \in 1..Len(sessions) :
              inits[sessions[i].name] = (IF sessions[i].init THEN 1 ELSE 0)

CleanupTried(i) == i < at \/ (i = at /\ main # "free")

CleanupsInv ==
    /\ cleanups \in [Session -> Nat]
    /\ NotYetCleaning => result = "none" /\ \A s \in Session : cleanups[s] = 0
    /\ phase = "cleanup" =>
          \A i \in 1..Len(sessions) :
              cleanups[sessions[i].name] =
                  (IF sessions[i].cleanup /\ CleanupTried(i) THEN 1 ELSE 0)
    /\ NotYetCleaning => temp_dirs = {sessions[i].name : i \in 1..Len(sessions)}
    /\ phase = "cleanup" =>
          temp_dirs = {sessions[i].name : i \in {k \in 1..Len(sessions) : at <= k}}

\* From the first session parsed to the last directory removed: what has been
\* done for each session is what the place in the program says, through every
\* failure (external_process_manager).
SessionsInv ==
    /\ SessionsParsedInv
    /\ CommandsInv
    /\ InitsInv
    /\ CleanupsInv
    /\ EverySessionIsCleanedUp

\* The inductive invariant behind LoadedHoweverCut, in named parts.

\* The pipe has the last of what was written, and nothing is written or in the
\* pipe once the end of the stream was seen.
PipeInv ==
    /\ Len(stdout_pipe) <= written
    /\ stdout_pipe = SubSeq(Bytes(output), written - Len(stdout_pipe) + 1, written)
    /\ main \in {"joining", "waiting"} => stdout_pipe = <<>> /\ OutputsClosed

\* The sink of a running command is where one piece would have brought it, and
\* it did not throw, or the run is being unwound.
SinkInv ==
    phase = "load" /\ main # "free" =>
        /\ sink = InOnePiece(at, output, written - Len(stdout_pipe))
        /\ main # "unwinding" => ~sink.parser.thrown

LoadedInv ==
    /\ Len(outputs) = Len(loaded)
    /\ phase \in {"parse", "init"} => loaded = <<>>
    /\ phase = "load" => Len(loaded) = at - 1 /\ at <= Len(types) + 1
    /\ result = "loaded" => Len(loaded) = Len(types)
    /\ \A i \in DOMAIN loaded :
          LET end == InOnePiece(i, outputs[i][1], outputs[i][2])
          IN  loaded[i] = end.parser.objects /\ HadNoComplaint(end)

StreamInv == PipeInv /\ SinkInv /\ LoadedInv

\* Behind LoadedIsWritten: what the i-th command writes is an output of that type,
\* and what was believed of it is as much as it wrote.
OutputsInv ==
    /\ phase = "load" /\ main # "free" => output \in Outputs[at]
    /\ \A i \in DOMAIN outputs :
          /\ outputs[i][1] \in Outputs[i]
          /\ outputs[i][2] \in 0..Len(Bytes(outputs[i][1]))

\* A run comes to its end whatever its commands write and whichever pipe fills
\* up first: "Read stdout and stderr concurrently to avoid deadlock"
\* (external_process.cpp:378), "If it was waiting on stdin, this unblocks it"
\* (external_process.cpp:396).
RunEnds == <>(phase = "exit")

\* An array that its command did not finish is noticed: "produced truncated
\* JSON output" (external_process_load.cpp:234).
TruncatedArrayIsNoticed ==
    result = "loaded" =>
        \A i \in DOMAIN outputs :
            LET bytes == SubSeq(Bytes(outputs[i][1]), 1, outputs[i][2])
            IN  bytes # <<>> /\ bytes[1] = "[" => \E k \in DOMAIN bytes : bytes[k] = "]"
================================================================================
