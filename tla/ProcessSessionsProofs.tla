------------------------ MODULE ProcessSessionsProofs ------------------------
(***************************************************************************)
(* For every setting of sessions and types, every output of their commands *)
(* and every failure: no command of a type runs, and no load succeeds,     *)
(* before every init command has succeeded, and however a run ends, every  *)
(* session is cleaned up once; every variable keeps its type; and what is  *)
(* loaded does not depend on where pipes and reads cut what was written.   *)
(***************************************************************************)
EXTENDS ProcessSessions, FoldLemmas

LEMMA SessionsInvInit == SessionsInit => SessionsInv
<1> SUFFICES ASSUME SessionsInit PROVE SessionsInv
  OBVIOUS
<1>1. config \in Seq(SessionConfig) /\ Len(config) \in Nat
  BY SessionsAssumption, LenProperties DEF SessionsInit
<1>2. /\ sessions = <<>> /\ sessions \in Seq(SessionConfig) /\ Len(sessions) = 0
      /\ phase = "parse" /\ at = 1 /\ temp_dirs = {} /\ result = "none" /\ main = "free"
      /\ inits = [s \in Session |-> 0] /\ cleanups = [s \in Session |-> 0]
  BY DEF SessionsInit, ProcessInit
<1> QED
  BY <1>1, <1>2 DEF SessionsInv, SessionsParsedInv, CommandsInv, InitsInv, CleanupsInv,
     NotYetCleaning, EverySessionIsCleanedUp

LEMMA SessionsTyped ==
    ASSUME SessionsInv
    PROVE  /\ sessions \in Seq(SessionConfig) /\ Len(sessions) \in Nat
           /\ DOMAIN sessions = 1..Len(sessions)
           /\ \A i \in 1..Len(sessions) : sessions[i].name \in Session
           /\ Len(config) \in Nat /\ at \in Nat \ {0}
<1>1. sessions \in Seq(SessionConfig) /\ config \in Seq(SessionConfig) /\ at \in Nat \ {0}
  BY DEF SessionsInv, SessionsParsedInv, CommandsInv
<1>2. \A i \in 1..Len(sessions) : sessions[i] \in SessionConfig
  BY <1>1, ElementOfSeq
<1>3. \A s \in SessionConfig : s.name \in Session
  BY DEF SessionConfig
<1> QED
  BY <1>1, <1>2, <1>3, LenProperties

\* A step of the child or of a reading thread, or none, is all the same here.
LEMMA ProcessFrame ==
    ASSUME SessionsInv, UNCHANGED <<managerVars, historyVars>>,
           main' = main \/ (main # "free" /\ main' # "free")
    PROVE  SessionsInv'
<1>1. UNCHANGED <<phase, at, config, types, sessions, temp_dirs, result, inits, cleanups>>
  BY DEF managerVars, historyVars
<1>2. SessionsParsedInv'
  BY <1>1 DEF SessionsInv, SessionsParsedInv
<1>3. CommandsInv'
  BY <1>1 DEF SessionsInv, CommandsInv
<1>4. InitsInv'
  BY <1>1 DEF SessionsInv, InitsInv
<1>5. CleanupsInv'
  BY <1>1 DEF SessionsInv, CleanupsInv, NotYetCleaning, CleanupTried
<1>6. EverySessionIsCleanedUp'
  BY <1>1 DEF SessionsInv, EverySessionIsCleanedUp
<1> QED
  BY <1>2, <1>3, <1>4, <1>5, <1>6 DEF SessionsInv

LEMMA ProcessStepFrame ==
    ASSUME ProcessStep
    PROVE  main' = main \/ (main # "free" /\ main' # "free")
BY DEF ProcessStep, ReadStep, ReadStdout, StdoutEnds, ReadStderr, StderrEnds, JoinErrReader,
   ChildStep, ChildWrites, ChildComplains, ChildSucceeds, ChildSeesEndOfInput, ChildFails,
   threadVars

LEMMA ParseNext ==
    ASSUME SessionsInv, ParseSession
    PROVE  SessionsInv'
<1>1. /\ phase = "parse" /\ at <= Len(config) /\ WellFormed(config[at])
      /\ sessions' = Append(sessions, config[at])
      /\ temp_dirs' = temp_dirs \cup {config[at].name}
      /\ at' = at + 1
      /\ UNCHANGED <<phase, config, types, result, inits, cleanups, main>>
  BY DEF ParseSession, historyVars, processVars, threadVars
<1>2. /\ sessions \in Seq(SessionConfig) /\ config \in Seq(SessionConfig)
      /\ Len(sessions) = at - 1 /\ at \in Nat \ {0} /\ at \in 1..Len(config)
      /\ Len(sessions) \in Nat /\ Len(config) \in Nat
  BY <1>1, LenProperties DEF SessionsInv, SessionsParsedInv, CommandsInv
<1>3. config[at] \in SessionConfig
  BY <1>2, ElementOfSeq
<1>4. /\ sessions' \in Seq(SessionConfig) /\ Len(sessions') = at
      /\ \A i \in 1..Len(sessions) : sessions'[i] = sessions[i]
      /\ sessions'[at] = config[at]
  BY <1>1, <1>2, <1>3, AppendProperties
<1>5. \A i \in 1..Len(sessions) : sessions[i].name # config[at].name
  BY <1>1, <1>2 DEF WellFormed, SessionNames
<1>6. SessionsParsedInv'
  BY <1>1, <1>2, <1>4, <1>5 DEF SessionsInv, SessionsParsedInv, CleanupsInv, NotYetCleaning
<1>7. CommandsInv' /\ InitsInv' /\ EverySessionIsCleanedUp'
  BY <1>1, <1>2 DEF SessionsInv, CommandsInv, InitsInv, EverySessionIsCleanedUp, CleanupsInv,
     NotYetCleaning
<1>8. temp_dirs' = {sessions'[i].name : i \in 1..Len(sessions')}
  <2>1. temp_dirs = {sessions[i].name : i \in 1..Len(sessions)}
    BY <1>1 DEF SessionsInv, CleanupsInv, NotYetCleaning
  <2>2. 1..Len(sessions') = 1..Len(sessions) \cup {at}
    BY <1>2, <1>4
  <2> QED
    BY <1>1, <1>4, <2>1, <2>2
<1>9. CleanupsInv'
  BY <1>1, <1>8 DEF SessionsInv, CleanupsInv, NotYetCleaning
<1> QED
  BY <1>6, <1>7, <1>9 DEF SessionsInv

\* The load ends, well or not, and the cleaning up begins.
LEMMA LoadEndsNext ==
    ASSUME SessionsInv, NotYetCleaning, NEW how \in {"loaded", "failed"}, LoadEnds(how),
           how = "loaded" => phase = "load",
           main' = "free", UNCHANGED <<config, types, sessions, temp_dirs, inits, cleanups>>
    PROVE  SessionsInv'
<1>1. phase' = "cleanup" /\ at' = 1 /\ result' = how
  BY DEF LoadEnds
<1>2. sessions \in Seq(SessionConfig) /\ Len(sessions) \in Nat
  BY SessionsTyped
<1>3. SessionsParsedInv'
  BY <1>1 DEF SessionsInv, SessionsParsedInv
<1>4. CommandsInv' /\ InitsInv' /\ EverySessionIsCleanedUp'
  BY <1>1 DEF SessionsInv, CommandsInv, InitsInv, EverySessionIsCleanedUp
<1>5. CleanupsInv'
  <2>1. \A i \in 1..Len(sessions) : sessions[i].name \in Session
    BY SessionsTyped
  <2>2. {k \in 1..Len(sessions) : 1 <= k} = 1..Len(sessions)
    BY <1>2
  <2> QED
    BY <1>1, <2>1, <2>2 DEF SessionsInv, CleanupsInv, NotYetCleaning, CleanupTried
<1> QED
  BY <1>3, <1>4, <1>5 DEF SessionsInv

\* The next phase begins, with no command running.
LEMMA AdvanceNext ==
    ASSUME SessionsInv, SessionsParsed \/ InitDone
    PROVE  SessionsInv'
<1>1. /\ \/ phase = "parse" /\ phase' = "init" /\ at > Len(config)
         \/ phase = "init" /\ phase' = "load" /\ at > Len(sessions)
      /\ at' = 1
      /\ UNCHANGED <<config, types, sessions, temp_dirs, result, inits, cleanups, main>>
  BY DEF SessionsParsed, InitDone, Advance, historyVars, processVars, threadVars
<1>2. /\ sessions \in Seq(SessionConfig) /\ Len(sessions) \in Nat /\ Len(config) \in Nat
      /\ at \in Nat
      /\ \A i \in 1..Len(sessions) : sessions[i].name \in Session
  BY SessionsTyped
<1>3. SessionsParsedInv'
  BY <1>1, <1>2 DEF SessionsInv, SessionsParsedInv
<1>4. CommandsInv'
  BY <1>1, <1>2 DEF SessionsInv, CommandsInv
<1>5. InitsInv'
  BY <1>1, <1>2 DEF SessionsInv, InitsInv
<1>6. CleanupsInv' /\ EverySessionIsCleanedUp'
  BY <1>1 DEF SessionsInv, CleanupsInv, NotYetCleaning, EverySessionIsCleanedUp
<1> QED
  BY <1>3, <1>4, <1>5, <1>6 DEF SessionsInv

\* An init command, or a session without one.
LEMMA InitNext ==
    ASSUME SessionsInv, NoInitCommand \/ StartInit \/ InitReturns
    PROVE  SessionsInv'
<1>1. /\ phase = "init"
      /\ UNCHANGED <<phase, config, types, sessions, temp_dirs, result, cleanups>>
  BY DEF NoInitCommand, StartInit, InitReturns, SkipSession, managerVars, historyVars
<1>2. /\ sessions \in Seq(SessionConfig) /\ Len(sessions) \in Nat /\ at \in Nat \ {0}
      /\ \A i \in 1..Len(sessions) : sessions[i].name \in Session
  BY SessionsTyped
<1>3. at \in 1..Len(sessions)
  BY <1>1, <1>2 DEF NoInitCommand, StartInit, InitReturns, Reap, SessionsInv, CommandsInv
<1>4. SessionsParsedInv' /\ CleanupsInv' /\ EverySessionIsCleanedUp'
  BY <1>1 DEF SessionsInv, SessionsParsedInv, CleanupsInv, NotYetCleaning, EverySessionIsCleanedUp
<1>5. CASE NoInitCommand
  <2>1. ~sessions[at].init /\ at' = at + 1 /\ UNCHANGED <<inits, main>>
    BY <1>5 DEF NoInitCommand, SkipSession, historyVars, processVars, threadVars
  <2>2. CommandsInv' /\ InitsInv'
    BY <1>1, <1>2, <2>1 DEF SessionsInv, CommandsInv, InitsInv, CleanupsInv, NotYetCleaning
  <2> QED
    BY <1>4, <2>2 DEF SessionsInv
<1>6. CASE StartInit
  <2>1. sessions[at].init /\ UNCHANGED <<inits, at>>
    BY <1>6 DEF StartInit, managerVars, historyVars
  <2>2. CommandsInv' /\ InitsInv'
    BY <1>1, <1>2, <1>3, <2>1 DEF SessionsInv, CommandsInv, InitsInv
  <2> QED
    BY <1>4, <2>2 DEF SessionsInv
<1>7. CASE InitReturns
  <2>1. /\ at' = at + 1 /\ main' = "free" /\ main # "free"
        /\ inits' = [inits EXCEPT ![sessions[at].name] = @ + 1]
    BY <1>7 DEF InitReturns, Reap, NoProcess
  <2>2. sessions[at].init
    BY <1>1, <2>1 DEF SessionsInv, CommandsInv
  <2>3. CommandsInv'
    BY <1>1, <1>2, <2>1 DEF CommandsInv
  <2>4. InitsInv'
    <3>1. inits \in [Session -> Nat] /\ inits' \in [Session -> Nat]
      BY <1>2, <1>3, <2>1 DEF SessionsInv, InitsInv
    <3>2. ASSUME NEW i \in 1..Len(sessions)
          PROVE  inits'[sessions[i].name] = (IF sessions[i].init /\ i < at + 1 THEN 1 ELSE 0)
      <4>1. inits[sessions[i].name] = (IF sessions[i].init /\ i < at THEN 1 ELSE 0)
        BY <1>1 DEF SessionsInv, InitsInv
      <4>2. i # at => sessions[i].name # sessions[at].name
        BY <1>3 DEF SessionsInv, SessionsParsedInv
      <4> QED
        BY <1>2, <1>3, <2>1, <2>2, <3>1, <4>1, <4>2
    <3>3. result = "none"
      BY <1>1 DEF SessionsInv, CleanupsInv, NotYetCleaning
    <3> QED
      BY <1>1, <2>1, <3>1, <3>2, <3>3 DEF InitsInv
  <2> QED
    BY <1>4, <2>3, <2>4 DEF SessionsInv
<1> QED
  BY <1>5, <1>6, <1>7

\* The command of a type.
LEMMA CommandNext ==
    ASSUME SessionsInv, StartCommand \/ CommandReturns
    PROVE  SessionsInv'
<1>1. /\ phase = "load" /\ at \in Nat \ {0}
      /\ UNCHANGED <<phase, config, types, sessions, temp_dirs, result, inits, cleanups>>
      /\ \/ at' = at /\ at <= Len(types)
         \/ at' = at + 1 /\ main' = "free"
  BY DEF StartCommand, CommandReturns, Reap, NoProcess, managerVars, historyVars, SessionsInv,
     CommandsInv
<1>2. SessionsParsedInv' /\ InitsInv' /\ EverySessionIsCleanedUp'
  BY <1>1 DEF SessionsInv, SessionsParsedInv, InitsInv, EverySessionIsCleanedUp
<1>3. CleanupsInv'
  BY <1>1 DEF SessionsInv, CleanupsInv, NotYetCleaning
<1>4. CommandsInv'
  BY <1>1 DEF CommandsInv
<1> QED
  BY <1>2, <1>3, <1>4 DEF SessionsInv

\* A cleanup command, or a session without one.
LEMMA CleanupNext ==
    ASSUME SessionsInv,
           NoCleanupCommand \/ StartCleanup \/ CleanupCannotStart \/ CleanupReturns
    PROVE  SessionsInv'
<1>1. /\ phase = "cleanup"
      /\ UNCHANGED <<phase, config, types, sessions, result, inits>>
  BY DEF NoCleanupCommand, StartCleanup, CleanupCannotStart, CleanupReturns, TryCleanup,
     managerVars, historyVars
<1>2. /\ sessions \in Seq(SessionConfig) /\ Len(sessions) \in Nat /\ at \in Nat \ {0}
      /\ \A i \in 1..Len(sessions) : sessions[i].name \in Session
  BY SessionsTyped
<1>3. at \in 1..Len(sessions)
  BY <1>1, <1>2 DEF NoCleanupCommand, StartCleanup, CleanupCannotStart, CleanupReturns,
     TryCleanup, Reap, SessionsInv, CommandsInv
<1>4. SessionsParsedInv' /\ InitsInv' /\ EverySessionIsCleanedUp'
  BY <1>1 DEF SessionsInv, SessionsParsedInv, InitsInv, EverySessionIsCleanedUp
<1>5. /\ cleanups \in [Session -> Nat]
      /\ \A i \in 1..Len(sessions) :
             cleanups[sessions[i].name] = (IF sessions[i].cleanup /\ CleanupTried(i) THEN 1 ELSE 0)
      /\ temp_dirs = {sessions[i].name : i \in {k \in 1..Len(sessions) : at <= k}}
  BY <1>1 DEF SessionsInv, CleanupsInv
<1>6. \A i \in 1..Len(sessions) : i # at => sessions[i].name # sessions[at].name
  BY <1>3 DEF SessionsInv, SessionsParsedInv
<1>7. CASE StartCleanup
  <2>1. /\ sessions[at].cleanup /\ main = "free" /\ UNCHANGED <<at, temp_dirs>>
        /\ cleanups' = [cleanups EXCEPT ![sessions[at].name] = @ + 1]
        /\ main' = "reading"
    BY <1>7 DEF StartCleanup, TryCleanup, managerVars, StartProcess
  <2>2. CommandsInv'
    BY <1>1, <1>2, <1>3, <2>1 DEF CommandsInv
  <2>3. \A i \in 1..Len(sessions) :
            cleanups'[sessions[i].name] =
                (IF sessions[i].cleanup /\ (i < at \/ i = at) THEN 1 ELSE 0)
    BY <1>2, <1>3, <1>5, <1>6, <2>1 DEF CleanupTried
  <2>4. CleanupsInv'
    BY <1>1, <1>2, <1>3, <1>5, <2>1, <2>3 DEF CleanupsInv, NotYetCleaning, CleanupTried
  <2> QED
    BY <1>4, <2>2, <2>4 DEF SessionsInv
<1>8. CASE NoCleanupCommand \/ CleanupCannotStart \/ CleanupReturns
  <2>1. /\ temp_dirs' = temp_dirs \ {sessions[at].name} /\ at' = at + 1
    BY <1>8 DEF NoCleanupCommand, CleanupCannotStart, CleanupReturns, RemoveTempDir
  <2>2. /\ main' = "free"
        /\ \/ ~sessions[at].cleanup /\ cleanups' = cleanups
           \/ /\ sessions[at].cleanup /\ main = "free"
              /\ cleanups' = [cleanups EXCEPT ![sessions[at].name] = @ + 1]
           \/ sessions[at].cleanup /\ main # "free" /\ cleanups' = cleanups
    BY <1>1, <1>8 DEF NoCleanupCommand, CleanupCannotStart, CleanupReturns, TryCleanup, Reap,
       NoProcess, CannotStart, historyVars, processVars, threadVars, SessionsInv, CommandsInv
  <2>3. CommandsInv'
    BY <1>2, <2>1, <2>2 DEF CommandsInv
  <2>4. \A i \in 1..Len(sessions) :
            cleanups'[sessions[i].name] = (IF sessions[i].cleanup /\ i < at + 1 THEN 1 ELSE 0)
    BY <1>2, <1>3, <1>5, <1>6, <2>2 DEF CleanupTried
  <2>5. temp_dirs' = {sessions[i].name : i \in {k \in 1..Len(sessions) : at + 1 <= k}}
    <3>1. {k \in 1..Len(sessions) : at <= k} = {k \in 1..Len(sessions) : at + 1 <= k} \cup {at}
      BY <1>2, <1>3
    <3>2. \A k \in 1..Len(sessions) : at + 1 <= k => k # at
      BY <1>2
    <3> QED
      BY <1>5, <1>6, <2>1, <3>1, <3>2
  <2>6. cleanups' \in [Session -> Nat]
    BY <1>2, <1>3, <1>5, <2>2
  <2>7. CleanupsInv'
    BY <1>1, <1>2, <2>1, <2>2, <2>4, <2>5, <2>6 DEF CleanupsInv, NotYetCleaning, CleanupTried
  <2> QED
    BY <1>4, <2>3, <2>7 DEF SessionsInv
<1> QED
  BY <1>7, <1>8

LEMMA CleanupDoneNext ==
    ASSUME SessionsInv, CleanupDone
    PROVE  SessionsInv'
<1>1. /\ phase = "cleanup" /\ at > Len(sessions) /\ phase' = "exit" /\ at' = 1
      /\ UNCHANGED <<config, types, sessions, temp_dirs, result, inits, cleanups, main>>
  BY DEF CleanupDone, Advance, historyVars, processVars, threadVars
<1>2. /\ sessions \in Seq(SessionConfig) /\ Len(sessions) \in Nat /\ at \in Nat \ {0}
      /\ DOMAIN sessions = 1..Len(sessions)
  BY SessionsTyped
<1>3. main = "free"
  BY <1>1, <1>2 DEF SessionsInv, CommandsInv
<1>4. temp_dirs = {}
  <2>1. {k \in 1..Len(sessions) : at <= k} = {}
    BY <1>1, <1>2
  <2> QED
    BY <1>1, <2>1 DEF SessionsInv, CleanupsInv
<1>5. \A i \in 1..Len(sessions) :
          cleanups[sessions[i].name] = (IF sessions[i].cleanup THEN 1 ELSE 0)
  BY <1>1, <1>2 DEF SessionsInv, CleanupsInv, CleanupTried
<1>6. SessionsParsedInv'
  BY <1>1 DEF SessionsInv, SessionsParsedInv
<1>7. CommandsInv' /\ InitsInv' /\ EverySessionIsCleanedUp'
  BY <1>1, <1>2, <1>3, <1>4, <1>5
  DEF SessionsInv, CommandsInv, InitsInv, EverySessionIsCleanedUp
<1>8. CleanupsInv'
  BY <1>1 DEF SessionsInv, CleanupsInv, NotYetCleaning
<1> QED
  BY <1>6, <1>7, <1>8 DEF SessionsInv

LEMMA FailureNext ==
    ASSUME SessionsInv, ParseFails \/ InitFails \/ CommandFails \/ LoadDone
    PROVE  SessionsInv'
<1>1. /\ NotYetCleaning /\ UNCHANGED <<config, types, sessions, temp_dirs, inits, cleanups>>
      /\ \E how \in {"loaded", "failed"} : LoadEnds(how) /\ (how = "loaded" => phase = "load")
  BY DEF ParseFails, InitFails, CommandFails, LoadDone, NotYetCleaning, historyVars
<1>2. main' = "free"
  <2>1. CASE ParseFails
    BY <2>1 DEF ParseFails, historyVars, processVars, threadVars, SessionsInv, CommandsInv
  <2>2. CASE InitFails
    BY <2>2 DEF InitFails, Reap, NoProcess, CannotStart, processVars, threadVars
  <2>3. CASE CommandFails
    BY <2>3 DEF CommandFails, Reap, Unwind, NoProcess, CannotStart, processVars, threadVars
  <2>4. CASE LoadDone
    <3>1. phase = "load" /\ at > Len(types) /\ main' = main
      BY <2>4 DEF LoadDone, processVars, threadVars
    <3> QED
      BY <3>1 DEF SessionsInv, CommandsInv
  <2> QED
    BY <2>1, <2>2, <2>3, <2>4
<1> QED
  BY <1>1, <1>2, LoadEndsNext

LEMMA SessionsInvNext ==
    ASSUME SessionsInv, [SessionsNext]_vars
    PROVE  SessionsInv'
<1>1. CASE UNCHANGED vars
  BY <1>1, ProcessFrame DEF vars, processVars, threadVars
<1>2. CASE ProcessStep
  BY <1>2, ProcessFrame, ProcessStepFrame DEF ProcessStep
<1>3. CASE ManagerStep
  BY <1>3, ParseNext, AdvanceNext, InitNext, CommandNext, CleanupNext, CleanupDoneNext,
     FailureNext DEF ManagerStep
<1> QED
  BY <1>1, <1>2, <1>3 DEF SessionsNext, Exited

-----------------------------------------------------------------------------

\* The inductive invariant: for each session, what has been done for it is what
\* the place in the program says (external_process_manager).
THEOREM SessionsInvariant == SessionsSpec => []SessionsInv
BY SessionsInvInit, SessionsInvNext, PTL DEF SessionsSpec

\* No command runs for a type, and no load succeeds, unless every session was
\* parsed and every init command succeeded, once; nothing is cleaned up while the
\* data is still loaded (init_sessions, external_process_get).
THEOREM CommandsInSessions == SessionsSpec => []CommandsRunInSessions
<1>1. SessionsInv => CommandsRunInSessions
  <2> SUFFICES ASSUME SessionsInv, phase = "load" \/ result = "loaded"
               PROVE  /\ sessions = config
                      /\ \A i \in DOMAIN sessions :
                            /\ inits[sessions[i].name] = (IF sessions[i].init THEN 1 ELSE 0)
                            /\ phase = "load" => /\ cleanups[sessions[i].name] = 0
                                                 /\ sessions[i].name \in temp_dirs
    BY DEF CommandsRunInSessions
  <2>1. /\ sessions \in Seq(SessionConfig) /\ config \in Seq(SessionConfig)
        /\ Len(sessions) = Len(config) /\ \A i \in 1..Len(sessions) : sessions[i] = config[i]
    BY DEF SessionsInv, SessionsParsedInv
  <2>2. sessions = config
    BY <2>1, SeqEqual
  <2>3. /\ DOMAIN sessions = 1..Len(sessions)
        /\ \A i \in 1..Len(sessions) : sessions[i].name \in Session
    BY SessionsTyped
  <2> QED
    BY <2>2, <2>3 DEF SessionsInv, InitsInv, CleanupsInv, NotYetCleaning
<1> QED
  BY <1>1, SessionsInvariant, PTL

\* However the run ended, each cleanup command was tried once for every session
\* that was parsed, and no directory is left (cleanup_sessions).
THEOREM SessionsCleanedUp == SessionsSpec => []EverySessionIsCleanedUp
<1>1. SessionsInv => EverySessionIsCleanedUp
  BY DEF SessionsInv
<1> QED
  BY <1>1, SessionsInvariant, PTL

-----------------------------------------------------------------------------
\* The sink.

\* What a sink can be: its objects have passed the check of their ids.
Sinks == {s \in SinkState : s.parser.objects \subseteq Acceptable}

LEMMA SplitterByteType ==
    ASSUME NEW s \in SplitterState, NEW c \in Byte
    PROVE  SplitterByte(s, c) \in SplitterState
<1>1. /\ \A t \in SplitterState, b \in BOOLEAN :
            /\ [t EXCEPT !.failed = b] \in SplitterState
            /\ [t EXCEPT !.seen_first_char = b] \in SplitterState
            /\ [t EXCEPT !.is_array = b] \in SplitterState
            /\ [t EXCEPT !.done = b] \in SplitterState
            /\ [t EXCEPT !.in_string = b] \in SplitterState
            /\ [t EXCEPT !.escape_next = b] \in SplitterState
  BY Zenon DEF SplitterState
<1>2. /\ \A t \in SplitterState, d \in Int : [t EXCEPT !.brace_depth = d] \in SplitterState
      /\ \A t \in SplitterState, o \in Seq(Byte) :
            [t EXCEPT !.current_object = o] \in SplitterState
  BY Zenon DEF SplitterState
<1>3. \A t \in SplitterState : t.brace_depth \in Int /\ t.current_object \in Seq(Byte)
  BY DEF SplitterState
<1>4. <<"open">> \in Seq(Byte) /\ <<>> \in Seq(Byte)
  <2>1. "open" \in Byte
    BY Zenon DEF Byte
  <2>2. \A x \in Byte : <<x>> \in Seq(Byte)
    OBVIOUS
  <2>3. <<"open">> \in Seq(Byte)
    BY <2>1, <2>2, Zenon
  <2> QED
    BY <2>3, EmptySeq
<1>5. [s EXCEPT !.current_object = Append(@, c)] \in SplitterState
  BY <1>2, <1>3, AppendProperties
<1>6. ASSUME NEW t \in SplitterState PROVE Opened(t) \in SplitterState
  <2>1. [[t EXCEPT !.brace_depth = 1] EXCEPT !.current_object = <<"open">>] \in SplitterState
    <3>1. 1 \in Int
      OBVIOUS
    <3>2. [t EXCEPT !.brace_depth = 1] \in SplitterState
      BY <1>2, <3>1, Zenon
    <3> QED
      BY <1>2, <1>4, <3>2, Zenon
  <2>2. Opened(t) = [[t EXCEPT !.brace_depth = 1] EXCEPT !.current_object = <<"open">>]
    BY Zenon DEF Opened
  <2> QED
    BY <2>1, <2>2, Zenon
<1>7. FirstByte(s, c) \in SplitterState
  <2> DEFINE seen == [s EXCEPT !.seen_first_char = TRUE]
  <2>1. seen \in SplitterState
    BY <1>1
  <2>2. [seen EXCEPT !.is_array = TRUE] \in SplitterState
        /\ [seen EXCEPT !.failed = TRUE] \in SplitterState
        /\ Opened(seen) \in SplitterState
    BY <1>1, <1>6, <2>1
  <2> QED
    BY <2>2 DEF FirstByte
<1>8. ByteBetweenObjects(s, c) \in SplitterState
  <2>1. [s EXCEPT !.done = TRUE] \in SplitterState /\ [s EXCEPT !.failed = TRUE] \in SplitterState
        /\ Opened(s) \in SplitterState
    BY <1>1, <1>6
  <2> QED
    BY <2>1 DEF ByteBetweenObjects
<1>9. ASSUME NEW t \in SplitterState PROVE ByteInString(t, c) \in SplitterState
  <2>1. [t EXCEPT !.escape_next = FALSE] \in SplitterState
    BY <1>1
  <2>2. [[t EXCEPT !.escape_next = (c = "backslash")] EXCEPT !.in_string = (c # "quote")]
            \in SplitterState
    <3>1. (c = "backslash") \in BOOLEAN /\ (c # "quote") \in BOOLEAN
      OBVIOUS
    <3>2. [t EXCEPT !.escape_next = (c = "backslash")] \in SplitterState
      BY <1>1, <3>1, Zenon
    <3> QED
      BY <1>1, <3>1, <3>2, Zenon
  <2> QED
    BY <2>1, <2>2 DEF ByteInString
<1>10. ASSUME NEW t \in SplitterState PROVE ByteInObject(t, c) \in SplitterState
  <2> DEFINE closed == [t EXCEPT !.brace_depth = @ - 1]
  <2>1. [t EXCEPT !.in_string = TRUE] \in SplitterState
    BY <1>1
  <2>2. [t EXCEPT !.brace_depth = @ + 1] \in SplitterState
    BY <1>2, <1>3
  <2>3. closed \in SplitterState
    BY <1>2, <1>3
  <2>4. [closed EXCEPT !.current_object = <<>>] \in SplitterState
    BY <1>2, <1>4, <2>3
  <2> QED
    BY <2>1, <2>2, <2>3, <2>4 DEF ByteInObject
<1> QED
  BY <1>5, <1>7, <1>8, <1>9, <1>10 DEF SplitterByte

LEMMA ParserWriteType ==
    ASSUME NEW p \in ParserState, p.objects \subseteq Acceptable, NEW text
    PROVE  ParserWrite(p, text) \in ParserState /\ ParserWrite(p, text).objects \subseteq Acceptable
BY SplitterAssumption DEF ParserState, ParserWrite

LEMMA SinkByteType ==
    ASSUME NEW s \in Sinks, NEW c \in Byte
    PROVE  SinkByte(s, c) \in Sinks
<1>1. s \in SinkState /\ s.splitter \in SplitterState /\ s.parser \in ParserState
      /\ s.parser.objects \subseteq Acceptable
  BY DEF Sinks, SinkState
<1> DEFINE split == SplitterByte(s.splitter, c)
           parsed == IF CompletesObject(s.splitter, c)
                     THEN ParserWrite(s.parser, Append(s.splitter.current_object, c))
                     ELSE s.parser
<1>2. split \in SplitterState
  BY <1>1, SplitterByteType
<1>3. parsed \in ParserState /\ parsed.objects \subseteq Acceptable
  BY <1>1, ParserWriteType
<1>4. SinkByte(s, c) = IF s.null \/ s.parser.thrown THEN s
                       ELSE [s EXCEPT !.splitter = split, !.parser = parsed]
  BY DEF SinkByte
<1> HIDE DEF split, parsed
<1> QED
  BY <1>1, <1>2, <1>3, <1>4 DEF Sinks, SinkState

LEMMA NewSinkType ==
    ASSUME NEW identifier \in BOOLEAN, NEW generator \in BOOLEAN
    PROVE  NewSink(identifier, generator) \in Sinks /\ NullSink \in Sinks
<1>1. NewSplitter \in SplitterState
  BY DEF NewSplitter, SplitterState
<1>2. \A i, g \in BOOLEAN : NewSink(i, g) \in Sinks
  BY <1>1 DEF NewSink, NewParser, ParserState, Sinks, SinkState
<1> QED
  BY <1>2 DEF NullSink, Sinks, SinkState

\* The sinks between the bytes of a write.
IsChain(f, s, bytes) ==
    /\ f \in [0..Len(bytes) -> Sinks]
    /\ f[0] = s
    /\ \A k \in 0..Len(bytes) - 1 : f[k + 1] = SinkByte(f[k], bytes[k + 1])

LEMMA SinkChain ==
    ASSUME NEW s \in Sinks, NEW bytes \in Seq(Byte)
    PROVE  \E f : IsChain(f, s, bytes) /\ SinkWrite(s, bytes) = f[Len(bytes)]
<1> DEFINE n == Len(bytes)
           D == DOMAIN bytes
           Iter(it) == it = [x \in SUBSET D |->
                               IF x = {} THEN s ELSE SinkByte(it[x \ {Max(x)}], bytes[Max(x)])]
           iter == CHOOSE it : Iter(it)
<1>1. n \in Nat /\ D = 1..n /\ \A k \in 1..n : bytes[k] \in Byte
  BY LenProperties, ElementOfSeq
<1>2. SinkWrite(s, bytes) = iter[D]
  BY DEF SinkWrite, FoldLeft, MapThenFoldSet
<1>3. \E it : Iter(it)
  <2> DEFINE g == [p \in (1..n) \X Sinks |-> SinkByte(p[2], bytes[p[1]])]
  <2>1. g \in [(1..n) \X Sinks -> Sinks]
    BY <1>1, SinkByteType
  <2>2. PICK it \in [SUBSET (1..n) -> Sinks] : FoldsTo(it, n, s, g)
    <3> HIDE DEF g, n
    <3> QED
      BY <1>1, <2>1, FoldExists
  <2>3. ASSUME NEW x \in SUBSET (1..n)
        PROVE  it[x] = IF x = {} THEN s ELSE SinkByte(it[x \ {Max(x)}], bytes[Max(x)])
    <3>1. it[x] = IF x = {} THEN s ELSE g[<<Max(x), it[x \ {Max(x)}]>>]
      BY <2>2 DEF FoldsTo
    <3>2. ASSUME x # {} PROVE g[<<Max(x), it[x \ {Max(x)}]>>] = SinkByte(it[x \ {Max(x)}], bytes[Max(x)])
      <4>1. Max(x) \in 1..n
        BY <1>1, <3>2, MaxOf
      <4>2. it[x \ {Max(x)}] \in Sinks
        OBVIOUS
      <4> QED
        BY <4>1, <4>2
    <3> HIDE DEF g
    <3> QED
      BY <3>1, <3>2
  <2>4. it = [x \in SUBSET (1..n) |-> it[x]]
    OBVIOUS
  <2>5. Iter(it)
    BY <1>1, <2>3, <2>4
  <2> QED
    BY <2>5
<1>4. Iter(iter)
  <2> HIDE DEF Iter
  <2> QED
    BY <1>3
<1> HIDE DEF iter
<1> DEFINE f == [k \in 0..n |-> iter[1..k]]
<1>5. f[0] = s /\ iter[D] = f[n]
  BY <1>1, <1>4
<1>6. ASSUME NEW k \in 0..n - 1 PROVE f[k + 1] = SinkByte(f[k], bytes[k + 1])
  <2>1. /\ 1..k + 1 \in SUBSET (1..n) /\ 1..k + 1 # {}
        /\ Max(1..k + 1) = k + 1
        /\ (1..k + 1) \ {k + 1} = 1..k
    BY <1>1, PlacesUpTo
  <2>2. iter[1..k + 1] = SinkByte(iter[1..k], bytes[k + 1])
    BY <1>1, <1>4, <2>1
  <2> QED
    BY <1>1, <2>2
<1> DEFINE S == {k \in 0..n : f[k] \in Sinks}
<1>7. \A k \in 0..n : k \in S
  <2>1. 0 \in S
    BY <1>1, <1>5
  <2>2. ASSUME NEW k \in 0..n - 1, k \in S PROVE k + 1 \in S
    <3>1. f[k + 1] \in Sinks
      <4> HIDE DEF f
      <4> QED
        BY <1>1, <1>6, <2>2, SinkByteType
    <3>2. k + 1 \in 0..n
      BY <1>1
    <3> QED
      BY <3>1, <3>2
  <2> HIDE DEF S, n
  <2> QED
    BY <1>1, <2>1, <2>2, UpTo
<1>8. f \in [0..n -> Sinks]
  BY <1>7
<1> HIDE DEF f
<1> QED
  BY <1>2, <1>5, <1>6, <1>8 DEF IsChain

LEMMA SinkWriteType ==
    ASSUME NEW s \in Sinks, NEW bytes \in Seq(Byte)
    PROVE  SinkWrite(s, bytes) \in Sinks
<1>1. PICK f : IsChain(f, s, bytes) /\ SinkWrite(s, bytes) = f[Len(bytes)]
  BY SinkChain
<1> QED
  BY <1>1, LenProperties DEF IsChain

\* Two chains of the same bytes are the same as far as both go.
LEMMA ChainsAgree ==
    ASSUME NEW s, NEW a \in Seq(Byte), NEW b \in Seq(Byte), NEW f, NEW h,
           IsChain(f, s, a), IsChain(h, s, b),
           Len(a) <= Len(b), \A k \in 1..Len(a) : a[k] = b[k]
    PROVE  \A k \in 0..Len(a) : f[k] = h[k]
<1> DEFINE S == {k \in 0..Len(a) : f[k] = h[k]}
<1>1. Len(a) \in Nat /\ Len(b) \in Nat
  BY LenProperties
<1>2. 0 \in S
  BY <1>1 DEF IsChain
<1>3. ASSUME NEW k \in 0..Len(a) - 1, k \in S PROVE k + 1 \in S
  BY <1>1, <1>3 DEF IsChain
<1>4. \A k \in 0..Len(a) : k \in S
  <2> HIDE DEF S
  <2> QED
    BY <1>1, <1>2, <1>3, UpTo
<1> QED
  BY <1>4

\* Two writes do what one of both buffers does.
LEMMA SinkWriteTwice ==
    ASSUME NEW s \in Sinks, NEW a \in Seq(Byte), NEW b \in Seq(Byte)
    PROVE  SinkWrite(SinkWrite(s, a), b) = SinkWrite(s, a \o b)
<1>1. PICK f : IsChain(f, s, a) /\ SinkWrite(s, a) = f[Len(a)]
  BY SinkChain
<1>2. PICK h : IsChain(h, SinkWrite(s, a), b) /\ SinkWrite(SinkWrite(s, a), b) = h[Len(b)]
  BY SinkWriteType, SinkChain
<1>3. /\ a \o b \in Seq(Byte) /\ Len(a \o b) = Len(a) + Len(b)
      /\ \A k \in 1..Len(a) : (a \o b)[k] = a[k]
      /\ \A k \in 1..Len(b) : (a \o b)[Len(a) + k] = b[k]
      /\ Len(a) \in Nat /\ Len(b) \in Nat
  OBVIOUS
<1>4. PICK e : IsChain(e, s, a \o b) /\ SinkWrite(s, a \o b) = e[Len(a) + Len(b)]
  BY <1>3, SinkChain
<1>5. e[Len(a)] = f[Len(a)]
  <2>1. \A k \in 0..Len(a) : f[k] = e[k]
    <3> DEFINE ab == a \o b
    <3>1. /\ ab \in Seq(Byte) /\ IsChain(f, s, a) /\ IsChain(e, s, ab)
          /\ Len(a) <= Len(ab) /\ \A k \in 1..Len(a) : a[k] = ab[k]
      BY <1>1, <1>3, <1>4
    <3> HIDE DEF ab
    <3> QED
      BY <3>1, ChainsAgree
  <2> QED
    BY <1>3, <2>1
<1> DEFINE rest == [k \in 0..Len(b) |-> e[Len(a) + k]]
<1>6. IsChain(rest, SinkWrite(s, a), b)
  <2>1. rest \in [0..Len(b) -> Sinks]
    BY <1>3, <1>4 DEF IsChain
  <2>2. rest[0] = SinkWrite(s, a)
    BY <1>1, <1>3, <1>5
  <2>3. ASSUME NEW k \in 0..Len(b) - 1 PROVE rest[k + 1] = SinkByte(rest[k], b[k + 1])
    <3>1. Len(a) + k \in 0..Len(a \o b) - 1 /\ k + 1 \in 1..Len(b)
      BY <1>3
    <3>2. e[Len(a) + k + 1] = SinkByte(e[Len(a) + k], (a \o b)[Len(a) + k + 1])
      BY <1>4, <3>1 DEF IsChain
    <3>3. (a \o b)[Len(a) + k + 1] = b[k + 1]
      BY <1>3, <3>1
    <3> QED
      BY <1>3, <3>1, <3>2, <3>3
  <2> HIDE DEF rest
  <2> QED
    BY <2>1, <2>2, <2>3 DEF IsChain
<1>7. rest[Len(b)] = h[Len(b)]
  <2>1. \A k \in 0..Len(b) : rest[k] = h[k]
    <3> HIDE DEF rest
    <3> QED
      BY <1>2, <1>3, <1>6, ChainsAgree
  <2> QED
    BY <1>3, <2>1
<1> QED
  BY <1>2, <1>3, <1>4, <1>7
-----------------------------------------------------------------------------
\* Types.

LEMMA BytesType ==
    ASSUME NEW parts \in Seq(Part)
    PROVE  Bytes(parts) \in Seq(Byte) /\ Len(Bytes(parts)) \in Nat
<1> DEFINE texts == [i \in DOMAIN parts |-> parts[i].text]
<1>1. texts \in Seq(Seq(Byte))
  <2>1. Len(parts) \in Nat /\ DOMAIN parts = 1..Len(parts)
    BY LenProperties
  <2>2. \A i \in 1..Len(parts) : parts[i].text \in Seq(Byte)
    <3>1. \A i \in 1..Len(parts) : parts[i] \in Part
      BY ElementOfSeq
    <3> QED
      BY <3>1 DEF Part
  <2>3. texts \in [1..Len(parts) -> Seq(Byte)]
    BY <2>1, <2>2
  <2> HIDE DEF texts
  <2> QED
    BY <2>1, <2>3, SeqDef
<1>2. FlattenSeq(texts) \in Seq(Byte)
  <2> HIDE DEF texts
  <2> QED
    BY <1>1, FlattenType
<1>3. Bytes(parts) = FlattenSeq(texts)
  BY DEF Bytes
<1> QED
  BY <1>2, <1>3, LenProperties

\* What one read takes of a pipe that has n bytes.
LEMMA ReadTakes ==
    ASSUME NEW n \in Nat \ {0}
    PROVE  Min({BufferSize, n}) \in 1..n
<1>1. BufferSize \in Nat \ {0}
  BY ProcessAssumption
<1>2. \E x \in {BufferSize, n} : \A y \in {BufferSize, n} : x <= y
  BY <1>1
<1>3. Min({BufferSize, n}) \in {BufferSize, n} /\ \A y \in {BufferSize, n} : Min({BufferSize, n}) <= y
  BY <1>2 DEF Min
<1> QED
  BY <1>1, <1>3

ProcessTyped == ProcessTypeOK /\ sink \in Sinks

LEMMA StartTyped ==
    ASSUME NEW to_sink \in Sinks, NEW parts \in Seq(Part), StartProcess(to_sink, parts)
    PROVE  ProcessTyped'
<1>1. Len(Bytes(parts)) \in Nat
  BY BytesType
<1>2. 0 \in 0..Len(Bytes(parts)) /\ 0 \in 0..PipeSize /\ 0 \in 0..MaxComplaints
      /\ MaxComplaints \in 0..MaxComplaints /\ Len(<<>>) <= PipeSize
  BY <1>1, ProcessAssumption
<1>3. to_sink \in SinkState
  BY DEF Sinks
<1> QED
  BY <1>2, <1>3 DEF StartProcess, ProcessTyped, ProcessTypeOK

LEMMA NoneTyped ==
    ASSUME NoProcess
    PROVE  ProcessTyped'
<1>1. <<>> \in Seq(Part) /\ <<>> \in Seq(Byte)
  BY EmptySeq
<1>2. Len(Bytes(<<>>)) \in Nat
  BY <1>1, BytesType
<1>3. 0 \in 0..Len(Bytes(<<>>)) /\ 0 \in 0..PipeSize /\ 0 \in 0..MaxComplaints
      /\ Len(<<>>) <= PipeSize
  BY <1>2, ProcessAssumption
<1>4. NullSink \in Sinks /\ NullSink \in SinkState
  BY NewSinkType DEF Sinks
<1> QED
  BY <1>1, <1>3, <1>4 DEF NoProcess, ProcessTyped, ProcessTypeOK

LEMMA ProcessStepTyped ==
    ASSUME ProcessTyped, ReadStep \/ ChildStep \/ ChildFails
    PROVE  ProcessTyped'
<1>1. ProcessTypeOK /\ sink \in Sinks /\ PipeSize \in Nat /\ MaxComplaints \in Nat
  BY ProcessAssumption DEF ProcessTyped
<1>2. /\ Bytes(output) \in Seq(Byte) /\ Len(Bytes(output)) \in Nat
      /\ stdout_pipe \in Seq(Byte) /\ Len(stdout_pipe) \in Nat
  BY <1>1, BytesType, LenProperties DEF ProcessTypeOK
<1>3. CASE ChildWrites
  <2>1. Bytes(output)[written + 1] \in Byte
    BY <1>1, <1>2, <1>3, ElementOfSeq DEF ChildWrites, ProcessTypeOK
  <2>2. stdout_pipe' \in Seq(Byte) /\ Len(stdout_pipe') <= PipeSize
    BY <1>1, <1>2, <1>3, <2>1, AppendProperties DEF ChildWrites
  <2>3. written' \in 0..Len(Bytes(output))
    BY <1>1, <1>2, <1>3 DEF ChildWrites, ProcessTypeOK
  <2> QED
    BY <1>1, <1>3, <2>2, <2>3 DEF ChildWrites, ProcessTyped, ProcessTypeOK, threadVars
<1>4. CASE ChildComplains
  <2>1. complaints' \in 0..MaxComplaints /\ stderr_pipe' \in 0..PipeSize
    BY <1>1, <1>4 DEF ChildComplains, ProcessTypeOK
  <2> QED
    BY <1>1, <1>4, <2>1 DEF ChildComplains, ProcessTyped, ProcessTypeOK, threadVars
<1>5. CASE ChildSucceeds \/ ChildSeesEndOfInput \/ ChildFails
  BY <1>1, <1>5 DEF ChildSucceeds, ChildSeesEndOfInput, ChildFails, ProcessTyped, ProcessTypeOK,
     threadVars, pipeVars
<1>6. CASE ReadStdout
  <2> DEFINE n == Min({BufferSize, Len(stdout_pipe)})
             took == SubSeq(stdout_pipe, 1, n)
  <2>1. /\ stdout_pipe # <<>> /\ stdout_pipe' = SubSeq(stdout_pipe, n + 1, Len(stdout_pipe))
        /\ sink' = SinkWrite(sink, took)
        /\ main' \in {"reading", "unwinding"}
        /\ UNCHANGED <<childVars, stderr_pipe, stdin_open, err_reader>>
    BY <1>6 DEF ReadStdout
  <2>2. Len(stdout_pipe) \in Nat \ {0}
    BY <1>2, <2>1, EmptySeq
  <2>3. n \in 1..Len(stdout_pipe)
    BY <2>2, ReadTakes
  <2> HIDE DEF n
  <2>4. took \in Seq(Byte)
    BY <1>2, <2>3, SubSeqProperties
  <2>5. stdout_pipe' \in Seq(Byte) /\ Len(stdout_pipe') <= PipeSize
    BY <1>1, <1>2, <2>1, <2>3, SubSeqProperties DEF ProcessTypeOK
  <2>6. sink' \in Sinks /\ sink' \in SinkState
    <3> HIDE DEF took
    <3> QED
      BY <1>1, <2>1, <2>4, SinkWriteType DEF Sinks
  <2> QED
    BY <1>1, <2>1, <2>5, <2>6 DEF ProcessTyped, ProcessTypeOK, childVars
<1>7. CASE ReadStderr
  <2>1. stderr_pipe \in Nat \ {0} /\ stderr_pipe <= PipeSize
    BY <1>1, <1>7 DEF ReadStderr, ProcessTypeOK
  <2>2. Min({BufferSize, stderr_pipe}) \in 1..stderr_pipe
    BY <2>1, ReadTakes
  <2>3. stderr_pipe' \in 0..PipeSize
    BY <1>1, <1>7, <2>1, <2>2 DEF ReadStderr
  <2> QED
    BY <1>1, <1>7, <2>3 DEF ReadStderr, ProcessTyped, ProcessTypeOK, threadVars, childVars
<1>8. CASE StdoutEnds \/ StderrEnds \/ JoinErrReader
  BY <1>1, <1>8 DEF StdoutEnds, StderrEnds, JoinErrReader, ProcessTyped, ProcessTypeOK,
     childVars, pipeVars
<1> QED
  BY <1>3, <1>4, <1>5, <1>6, <1>7, <1>8 DEF ReadStep, ChildStep

LEMMA ProcessStays ==
    ASSUME ProcessTyped, UNCHANGED processVars
    PROVE  ProcessTyped'
BY DEF ProcessTyped, ProcessTypeOK, processVars, childVars, pipeVars, threadVars

\* The inductive invariant behind the types.
TypeInv == SessionsTypeOK /\ sink \in Sinks

LEMMA TypeInit == SessionsInit => TypeInv
<1> SUFFICES ASSUME SessionsInit PROVE TypeInv
  OBVIOUS
<1>1. /\ <<>> \in Seq(Part) /\ <<>> \in Seq(Byte) /\ <<>> \in Seq(SessionConfig)
      /\ <<>> \in Seq(SUBSET Acceptable) /\ <<>> \in Seq(Seq(Part) \X Nat)
  BY EmptySeq
<1>2. Len(Bytes(<<>>)) \in Nat
  BY <1>1, BytesType
<1>3. 0 \in 0..Len(Bytes(<<>>)) /\ 0 \in 0..PipeSize /\ 0 \in 0..MaxComplaints
      /\ Len(<<>>) <= PipeSize
  BY <1>2, ProcessAssumption
<1>4. NullSink \in Sinks /\ NullSink \in SinkState
  BY NewSinkType DEF Sinks
<1>5. ProcessTypeOK /\ sink \in Sinks
  BY <1>1, <1>3, <1>4 DEF SessionsInit, ProcessInit, ProcessTypeOK
<1> QED
  BY <1>1, <1>5 DEF SessionsInit, TypeInv, SessionsTypeOK

\* The types of the settings and of what is loaded.
LEMMA TypesTyped ==
    ASSUME TypeInv
    PROVE  /\ types \in Seq(TypeConfig) /\ Len(types) \in Nat
           /\ \A i \in 1..Len(types) : SinkFor(types[i]) \in Sinks
           /\ \A i \in 1..Len(types) : Outputs[i] \subseteq Seq(Part)
<1>1. types \in TypeConfigs /\ types \in Seq(TypeConfig)
  BY SessionsAssumption DEF TypeInv, SessionsTypeOK
<1>2. Len(types) \in Nat /\ DOMAIN types = 1..Len(types)
  BY <1>1, LenProperties
<1>3. \A i \in 1..Len(types) : types[i] \in TypeConfig
  BY <1>1, ElementOfSeq
<1>4. \A t \in TypeConfig : SinkFor(t) \in Sinks
  BY NewSinkType DEF SinkFor, TypeConfig
<1>5. \A i \in 1..Len(types) : i \in DOMAIN Outputs
  BY <1>1, <1>2, SessionsAssumption
<1> QED
  BY <1>1, <1>2, <1>3, <1>4, <1>5, SessionsAssumption

\* What a step of the manager does to the process.
LEMMA ManagerProcess ==
    ASSUME TypeInv, SessionsInv, ManagerStep
    PROVE  ProcessTyped'
<1>1. ProcessTyped
  BY DEF TypeInv, SessionsTypeOK, ProcessTyped
<1>2. CASE StartInit \/ StartCleanup
  <2>1. PICK parts \in Chatter : StartProcess(NullSink, parts)
    BY <1>2 DEF StartInit, StartCleanup
  <2>2. parts \in Seq(Part) /\ NullSink \in Sinks
    BY SessionsAssumption, NewSinkType
  <2> QED
    BY <2>1, <2>2, StartTyped
<1>3. CASE StartCommand
  <2>1. at \in 1..Len(types)
    BY <1>3, TypesTyped DEF StartCommand, SessionsInv, CommandsInv
  <2>2. PICK parts \in Outputs[at] : StartProcess(SinkFor(types[at]), parts)
    BY <1>3 DEF StartCommand, SinkFor
  <2>3. parts \in Seq(Part) /\ SinkFor(types[at]) \in Sinks
    BY <2>1, TypesTyped
  <2> QED
    BY <2>2, <2>3, StartTyped
<1>4. CASE InitReturns \/ CommandReturns \/ CleanupReturns
  BY <1>4, NoneTyped DEF InitReturns, CommandReturns, CleanupReturns, Reap
<1>5. CASE InitFails \/ CommandFails
  BY <1>1, <1>5, NoneTyped, ProcessStays DEF InitFails, CommandFails, Reap, Unwind, CannotStart
<1>6. CASE \/ ParseSession \/ ParseFails \/ SessionsParsed \/ NoInitCommand \/ InitDone
           \/ LoadDone \/ NoCleanupCommand \/ CleanupCannotStart \/ CleanupDone
  <2>1. UNCHANGED processVars
    BY <1>6 DEF ParseSession, ParseFails, SessionsParsed, NoInitCommand, InitDone, LoadDone,
       NoCleanupCommand, CleanupCannotStart, CleanupDone, SkipSession, Advance, CannotStart
  <2> QED
    BY <1>1, <2>1, ProcessStays
<1> QED
  BY <1>2, <1>3, <1>4, <1>5, <1>6 DEF ManagerStep

\* What a step of the manager does to what has been loaded, and to the rest.
LEMMA ManagerFrame ==
    ASSUME ManagerStep
    PROVE  /\ UNCHANGED <<config, types>>
           /\ phase' \in {phase, "init", "load", "cleanup", "exit"}
           /\ at' \in {1, at, at + 1}
           /\ result' \in {result, "loaded", "failed"}
           /\ \/ CommandReturns
              \/ UNCHANGED <<loaded, outputs>>
BY DEF ManagerStep, ParseSession, ParseFails, SessionsParsed, NoInitCommand, StartInit,
   InitReturns, InitFails, InitDone, StartCommand, CommandReturns, CommandFails, LoadDone,
   NoCleanupCommand, StartCleanup, CleanupCannotStart, CleanupReturns, CleanupDone, Advance,
   SkipSession, LoadEnds, RemoveTempDir, TryCleanup, managerVars, historyVars

LEMMA TempDirsTyped ==
    ASSUME TypeInv, SessionsInv, ManagerStep
    PROVE  temp_dirs' \subseteq Session
<1>1. temp_dirs \subseteq Session
  BY DEF TypeInv, SessionsTypeOK
<1>2. CASE ParseSession
  <2>1. config[at] \in SessionConfig /\ temp_dirs' = temp_dirs \cup {config[at].name}
    BY <1>2, ElementOfSeq, LenProperties DEF ParseSession, SessionsInv, SessionsParsedInv, CommandsInv
  <2> QED
    BY <1>1, <2>1 DEF SessionConfig
<1>3. CASE ~ParseSession
  <2>1. temp_dirs' = temp_dirs \/ temp_dirs' = temp_dirs \ {sessions[at].name}
    BY <1>3 DEF ManagerStep, ParseFails, SessionsParsed, NoInitCommand, StartInit,
       InitReturns, InitFails, InitDone, StartCommand, CommandReturns, CommandFails, LoadDone,
       NoCleanupCommand, StartCleanup, CleanupCannotStart, CleanupReturns, CleanupDone, Advance,
       SkipSession, RemoveTempDir, TryCleanup, managerVars, historyVars
  <2> QED
    BY <1>1, <2>1
<1> QED
  BY <1>2, <1>3

LEMMA TypeNext ==
    ASSUME TypeInv, SessionsInv, SessionsInv', [SessionsNext]_vars
    PROVE  TypeInv'
<1>1. ProcessTyped /\ SessionsTypeOK
  BY DEF TypeInv, SessionsTypeOK, ProcessTyped
<1>2. CASE UNCHANGED vars
  <2>1. ProcessTyped'
    BY <1>1, <1>2, ProcessStays DEF vars
  <2> QED
    BY <1>1, <1>2, <2>1 DEF vars, managerVars, historyVars, TypeInv, SessionsTypeOK, ProcessTyped
<1>3. CASE ProcessStep
  <2>1. ProcessTyped'
    BY <1>1, <1>3, ProcessStepTyped DEF ProcessStep
  <2> QED
    BY <1>1, <1>3, <2>1
    DEF ProcessStep, managerVars, historyVars, TypeInv, SessionsTypeOK, ProcessTyped
<1>4. CASE ManagerStep
  <2>1. ProcessTyped'
    BY <1>4, ManagerProcess
  <2>2. temp_dirs' \subseteq Session
    BY <1>4, TempDirsTyped
  <2>3. /\ phase' \in {"parse", "init", "load", "cleanup", "exit"}
        /\ result' \in {"none", "loaded", "failed"}
        /\ config' \in SessionConfigs /\ types' \in TypeConfigs
    BY <1>1, <1>4, ManagerFrame DEF SessionsTypeOK
  <2>4. /\ sessions' \in Seq(SessionConfig) /\ at' \in Nat \ {0}
        /\ inits' \in [Session -> Nat] /\ cleanups' \in [Session -> Nat]
    BY DEF SessionsInv, SessionsParsedInv, CommandsInv, InitsInv, CleanupsInv
  <2>5. loaded' \in Seq(SUBSET Acceptable) /\ outputs' \in Seq(Seq(Part) \X Nat)
    <3>1. CASE CommandReturns
      <4>1. /\ loaded' = Append(loaded, sink.parser.objects)
            /\ outputs' = Append(outputs, <<output, written>>)
        BY <3>1 DEF CommandReturns
      <4>2. sink.parser.objects \subseteq Acceptable
        BY <1>1 DEF ProcessTyped, Sinks
      <4>3. output \in Seq(Part) /\ written \in Nat
        <5>1. output \in Seq(Part) /\ written \in 0..Len(Bytes(output))
          BY <1>1 DEF ProcessTyped, ProcessTypeOK
        <5> QED
          BY <5>1, BytesType
      <4> QED
        BY <1>1, <4>1, <4>2, <4>3, AppendProperties DEF SessionsTypeOK
    <3>2. CASE UNCHANGED <<loaded, outputs>>
      BY <1>1, <3>2 DEF SessionsTypeOK
    <3> QED
      BY <1>4, <3>1, <3>2, ManagerFrame
  <2> QED
    BY <2>1, <2>2, <2>3, <2>4, <2>5 DEF TypeInv, SessionsTypeOK, ProcessTyped
<1> QED
  BY <1>2, <1>3, <1>4 DEF SessionsNext, Exited

LEMMA TypeInvariant == SessionsSpec => []TypeInv
<1>1. TypeInv /\ SessionsInv /\ SessionsInv' /\ [SessionsNext]_vars => TypeInv'
  BY TypeNext
<1> QED
  BY <1>1, TypeInit, SessionsInvariant, PTL DEF SessionsSpec

\* The program keeps to its types: a pipe never holds more than it can, a command
\* never writes more than its output, and a sink never has an object that the check
\* of unique identifiers would refuse (run_process, json_parser_sink::write).
THEOREM SessionsTypeCorrect == SessionsSpec => []SessionsTypeOK
<1>1. TypeInv => SessionsTypeOK
  BY DEF TypeInv
<1> QED
  BY <1>1, TypeInvariant, PTL
-----------------------------------------------------------------------------
\* What a sink is given, however it is cut.

LEMMA SinkWriteNone ==
    ASSUME NEW s \in Sinks
    PROVE  SinkWrite(s, <<>>) = s
<1>1. <<>> \in Seq(Byte) /\ Len(<<>>) = 0
  BY EmptySeq
<1>2. PICK f : IsChain(f, s, <<>>) /\ SinkWrite(s, <<>>) = f[Len(<<>>)]
  BY <1>1, SinkChain
<1> QED
  BY <1>1, <1>2 DEF IsChain

\* The pipe holds the bytes from i to w: one more is written to it.
LEMMA PipeGrows ==
    ASSUME NEW bytes \in Seq(Byte), NEW i \in Nat, NEW w \in Nat, i <= w, w < Len(bytes)
    PROVE  Append(SubSeq(bytes, i + 1, w), bytes[w + 1]) = SubSeq(bytes, i + 1, w + 1)
<1>1. /\ Len(bytes) \in Nat /\ i + 1 \in 1..Len(bytes) /\ w + 1 \in i + 1..Len(bytes)
      /\ w + 1 - 1 = w
  BY LenProperties
<1>2. SubSeq(bytes, i + 1, w + 1) = SubSeq(bytes, i + 1, w) \o <<bytes[w + 1]>>
  BY <1>1, SubSeqRecursiveSecond
<1>3. bytes[w + 1] \in Byte /\ \A k \in i + 1..w : bytes[k] \in Byte
  BY <1>1, ElementOfSeq
<1>4. SubSeq(bytes, i + 1, w) \in Seq(Byte)
  BY <1>3, SubSeqProperties
<1> QED
  BY <1>2, <1>3, <1>4, AppendIsConcat

\* n of them are read from it.
LEMMA PipeShrinks ==
    ASSUME NEW bytes \in Seq(Byte), NEW i \in Nat, NEW w \in Nat, i <= w, w <= Len(bytes),
           NEW n \in 0..w - i
    PROVE  LET pipe == SubSeq(bytes, i + 1, w)
           IN  /\ Len(pipe) = w - i
               /\ SubSeq(pipe, 1, n) = SubSeq(bytes, i + 1, i + n)
               /\ SubSeq(pipe, n + 1, Len(pipe)) = SubSeq(bytes, i + n + 1, w)
               /\ Len(SubSeq(pipe, n + 1, Len(pipe))) = w - i - n
               /\ SubSeq(bytes, 1, i) \o SubSeq(pipe, 1, n) = SubSeq(bytes, 1, i + n)
<1> DEFINE pipe == SubSeq(bytes, i + 1, w)
<1>1. Len(bytes) \in Nat /\ \A k \in 1..Len(bytes) : bytes[k] \in Byte
  BY LenProperties, ElementOfSeq
<1>2. pipe \in Seq(Byte) /\ Len(pipe) = w - i /\ \A k \in 1..w - i : pipe[k] = bytes[i + k]
  BY <1>1, SubSeqProperties
<1>3. \A k \in 1..w - i : pipe[k] \in Byte
  BY <1>1, <1>2
<1> HIDE DEF pipe
<1> DEFINE took == SubSeq(pipe, 1, n)
           rest == SubSeq(pipe, n + 1, w - i)
<1>4. took \in Seq(Byte) /\ Len(took) = n /\ \A k \in 1..n : took[k] = bytes[i + k]
  BY <1>2, <1>3, SubSeqProperties
<1>5. /\ rest \in Seq(Byte) /\ Len(rest) = w - i - n
      /\ \A k \in 1..w - i - n : rest[k] = bytes[i + n + k]
  BY <1>2, <1>3, SubSeqProperties
<1>6. /\ SubSeq(bytes, i + 1, i + n) \in Seq(Byte) /\ Len(SubSeq(bytes, i + 1, i + n)) = n
      /\ \A k \in 1..n : SubSeq(bytes, i + 1, i + n)[k] = bytes[i + k]
  BY <1>1, SubSeqProperties
<1>7. /\ SubSeq(bytes, i + n + 1, w) \in Seq(Byte)
      /\ Len(SubSeq(bytes, i + n + 1, w)) = w - i - n
      /\ \A k \in 1..w - i - n : SubSeq(bytes, i + n + 1, w)[k] = bytes[i + n + k]
  BY <1>1, SubSeqProperties
<1> HIDE DEF took, rest
<1>8. took = SubSeq(bytes, i + 1, i + n)
  BY <1>4, <1>6, SeqEqual
<1>9. rest = SubSeq(bytes, i + n + 1, w)
  BY <1>5, <1>7, SeqEqual
<1>10. SubSeq(bytes, 1, i) \o SubSeq(bytes, i + 1, i + n) = SubSeq(bytes, 1, i + n)
  BY <1>1, ConcatAdjacentSubSeq
<1> QED
  BY <1>2, <1>5, <1>8, <1>9, <1>10 DEF pipe, took, rest

\* What is known of the bytes that are on their way.
LEMMA OnTheWay ==
    ASSUME TypeInv, StreamInv
    PROVE  /\ Bytes(output) \in Seq(Byte) /\ written \in Nat /\ written <= Len(Bytes(output))
           /\ stdout_pipe \in Seq(Byte) /\ Len(stdout_pipe) \in Nat
           /\ Len(stdout_pipe) <= written
           /\ \A n \in 0..Len(Bytes(output)) : SubSeq(Bytes(output), 1, n) \in Seq(Byte)
<1>1. /\ output \in Seq(Part) /\ written \in 0..Len(Bytes(output))
      /\ stdout_pipe \in Seq(Byte)
  BY DEF TypeInv, SessionsTypeOK, ProcessTypeOK
<1>2. Bytes(output) \in Seq(Byte) /\ Len(Bytes(output)) \in Nat
  BY <1>1, BytesType
<1>3. \A k \in 1..Len(Bytes(output)) : Bytes(output)[k] \in Byte
  BY <1>2, ElementOfSeq
<1>4. \A n \in 0..Len(Bytes(output)) : SubSeq(Bytes(output), 1, n) \in Seq(Byte)
  BY <1>2, <1>3, SubSeqProperties
<1> QED
  BY <1>1, <1>2, <1>4, LenProperties DEF StreamInv, PipeInv

\* A command that has written nothing has brought its sink nowhere.
LEMMA NothingYet ==
    ASSUME TypeInv, NEW i \in 1..Len(types), NEW parts
    PROVE  InOnePiece(i, parts, 0) = SinkFor(types[i])
<1>1. SubSeq(Bytes(parts), 1, 0) = <<>>
  BY SubSeqEmpty
<1>2. SinkFor(types[i]) \in Sinks
  BY TypesTyped
<1> QED
  BY <1>1, <1>2, SinkWriteNone DEF InOnePiece

\* A pipe that has nothing of nothing.
LEMMA EmptyPipe ==
    ASSUME stdout_pipe = <<>>, written = 0, main \notin {"joining", "waiting"}
    PROVE  PipeInv
<1>1. SubSeq(Bytes(output), 1, 0) = <<>>
  BY SubSeqEmpty
<1> QED
  BY <1>1, EmptySeq DEF PipeInv

LEMMA StreamInit == SessionsInit => StreamInv
<1> SUFFICES ASSUME SessionsInit PROVE StreamInv
  OBVIOUS
<1>1. PipeInv
  BY EmptyPipe DEF SessionsInit, ProcessInit
<1>2. SinkInv
  BY DEF SessionsInit, SinkInv
<1>3. LoadedInv
  BY DEF SessionsInit, LoadedInv
<1> QED
  BY <1>1, <1>2, <1>3 DEF StreamInv

\* The child and the threads that read from it.
LEMMA ProcessStream ==
    ASSUME TypeInv, SessionsInv, StreamInv, ProcessStep
    PROVE  StreamInv'
<1>1. UNCHANGED <<phase, at, types, loaded, result, outputs, output>>
  BY DEF ProcessStep, managerVars, historyVars, ReadStep, ReadStdout, StdoutEnds, ReadStderr,
     StderrEnds, JoinErrReader, ChildStep, ChildWrites, ChildComplains, ChildSucceeds,
     ChildSeesEndOfInput, ChildFails, childVars
<1>2. LoadedInv'
  BY <1>1 DEF StreamInv, LoadedInv, InOnePiece
<1> DEFINE bytes == Bytes(output)
           i == written - Len(stdout_pipe)
<1>3. /\ bytes \in Seq(Byte) /\ i \in Nat /\ written \in Nat /\ i <= written
      /\ written <= Len(bytes) /\ stdout_pipe = SubSeq(bytes, i + 1, written)
      /\ Len(stdout_pipe) = written - i
      /\ SubSeq(bytes, 1, i) \in Seq(Byte)
  BY OnTheWay DEF StreamInv, PipeInv
<1>4. Len(bytes) \in Nat
  BY <1>3, LenProperties
<1>5. phase = "load" /\ main # "free" => at \in 1..Len(types)
  BY DEF SessionsInv, CommandsInv
<1>6. CASE ChildWrites
  <2>1. /\ written < Len(bytes) /\ stdout_pipe' = Append(stdout_pipe, bytes[written + 1])
        /\ written' = written + 1 /\ main' = main /\ sink' = sink /\ child = "running"
    BY <1>6 DEF ChildWrites, threadVars
  <2>2. stdout_pipe' = SubSeq(bytes, i + 1, written')
    BY <1>3, <2>1, PipeGrows
  <2>3. Len(stdout_pipe') = Len(stdout_pipe) + 1
    <3>1. stdout_pipe \in Seq(Byte) /\ bytes[written + 1] \in Byte
      BY <1>3, <1>4, <2>1, OnTheWay, ElementOfSeq
    <3> QED
      BY <2>1, <3>1, AppendProperties
  <2>4. written' - Len(stdout_pipe') = i
    BY <1>3, <1>4, <2>1, <2>3, OnTheWay
  <2>5. main \notin {"joining", "waiting"}
    BY <2>1 DEF StreamInv, PipeInv, OutputsClosed
  <2>6. PipeInv'
    <3>1. Len(stdout_pipe') <= written'
      BY <1>3, <2>1, <2>3, OnTheWay
    <3>2. stdout_pipe' = SubSeq(bytes, written' - Len(stdout_pipe') + 1, written')
      BY <2>2, <2>4
    <3>3. bytes' = bytes /\ main' = main
      BY <1>1, <2>1
    <3> HIDE DEF i
    <3> QED
      BY <2>5, <3>1, <3>2, <3>3 DEF PipeInv
  <2>7. SinkInv'
    BY <1>1, <2>1, <2>4 DEF StreamInv, SinkInv, InOnePiece
  <2> QED
    BY <1>2, <2>6, <2>7 DEF StreamInv
<1>7. CASE ReadStdout
  <2> DEFINE n == Min({BufferSize, Len(stdout_pipe)})
             took == SubSeq(stdout_pipe, 1, n)
  <2>1. /\ main = "reading" /\ stdout_pipe # <<>>
        /\ stdout_pipe' = SubSeq(stdout_pipe, n + 1, Len(stdout_pipe))
        /\ sink' = SinkWrite(sink, took)
        /\ main' = IF sink'.parser.thrown THEN "unwinding" ELSE "reading"
        /\ written' = written
    BY <1>7 DEF ReadStdout, childVars
  <2>2. n \in 0..written - i
    <3>1. Len(stdout_pipe) \in Nat \ {0}
      BY <2>1, OnTheWay, EmptySeq
    <3>2. n \in 1..Len(stdout_pipe)
      BY <3>1, ReadTakes
    <3> QED
      BY <1>3, <3>1, <3>2
  <2> HIDE DEF n, i, bytes
  <2>3. /\ took = SubSeq(bytes, i + 1, i + n)
        /\ stdout_pipe' = SubSeq(bytes, i + n + 1, written)
        /\ Len(stdout_pipe') = written - i - n
        /\ SubSeq(bytes, 1, i) \o took = SubSeq(bytes, 1, i + n)
    BY <1>3, <2>1, <2>2, PipeShrinks
  <2>4. written' - Len(stdout_pipe') = i + n /\ Len(stdout_pipe') \in Nat
    BY <1>3, <2>1, <2>2, <2>3
  <2>5. PipeInv'
    <3>1. Len(stdout_pipe') <= written'
      BY <1>3, <2>1, <2>2, <2>3
    <3>2. stdout_pipe' = SubSeq(bytes, written' - Len(stdout_pipe') + 1, written')
      BY <2>1, <2>3, <2>4
    <3> QED
      BY <1>1, <2>1, <3>1, <3>2 DEF PipeInv, bytes
  <2>6. SinkInv'
    <3> SUFFICES ASSUME phase = "load"
                 PROVE  sink' = SinkWrite(SinkFor(types[at]), SubSeq(bytes, 1, i + n))
      BY <1>1, <2>1, <2>4 DEF SinkInv, InOnePiece, bytes
    <3>1. sink = SinkWrite(SinkFor(types[at]), SubSeq(bytes, 1, i))
      BY <2>1 DEF StreamInv, SinkInv, InOnePiece, bytes, i
    <3>2. SinkFor(types[at]) \in Sinks
      BY <1>5, <2>1, TypesTyped
    <3>3. took \in Seq(Byte)
      <4>1. \A k \in 1..Len(bytes) : bytes[k] \in Byte
        BY <1>3, ElementOfSeq
      <4>2. \A k \in i + 1..i + n : bytes[k] \in Byte
        BY <1>3, <1>4, <2>2, <4>1
      <4> QED
        BY <1>3, <2>2, <2>3, <4>2, SubSeqProperties
    <3>4. sink' = SinkWrite(SinkFor(types[at]), SubSeq(bytes, 1, i) \o took)
      <4> HIDE DEF took
      <4> QED
        BY <1>3, <2>1, <3>1, <3>2, <3>3, SinkWriteTwice
    <3> QED
      BY <2>3, <3>4
  <2> QED
    BY <1>2, <2>5, <2>6 DEF StreamInv
<1>8. CASE ~ChildWrites /\ ~ReadStdout
  <2>1. UNCHANGED <<written, stdout_pipe, sink>>
    BY <1>8 DEF ProcessStep, ReadStep, StdoutEnds, ReadStderr, StderrEnds, JoinErrReader,
       ChildStep, ChildComplains, ChildSucceeds, ChildSeesEndOfInput, ChildFails, childVars,
       pipeVars, threadVars
  <2>2. /\ main' # "free" => main # "free"
        /\ OutputsClosed => OutputsClosed'
        /\ main' \in {"joining", "waiting"} =>
              \/ main \in {"joining", "waiting"}
              \/ stdout_pipe = <<>> /\ OutputsClosed
        /\ main' # "unwinding" => main # "unwinding"
    BY <1>8 DEF ProcessStep, ReadStep, StdoutEnds, ReadStderr, StderrEnds, JoinErrReader,
       ChildStep, ChildComplains, ChildSucceeds, ChildSeesEndOfInput, ChildFails, childVars,
       pipeVars, threadVars, OutputsClosed
  <2>3. PipeInv'
    BY <1>1, <2>1, <2>2 DEF StreamInv, PipeInv
  <2>4. SinkInv'
    BY <1>1, <2>1, <2>2 DEF StreamInv, SinkInv, InOnePiece
  <2> QED
    BY <1>2, <2>3, <2>4 DEF StreamInv
<1> QED
  BY <1>6, <1>7, <1>8

LEMMA StartedPipe ==
    ASSUME NEW to_sink, NEW parts, StartProcess(to_sink, parts)
    PROVE  PipeInv'
<1>1. SubSeq(Bytes(output'), 1, 0) = <<>>
  BY SubSeqEmpty
<1> QED
  BY <1>1, EmptySeq DEF PipeInv, StartProcess

LEMMA NoPipe ==
    ASSUME NoProcess
    PROVE  PipeInv'
<1>1. SubSeq(Bytes(output'), 1, 0) = <<>>
  BY SubSeqEmpty
<1> QED
  BY <1>1, EmptySeq DEF PipeInv, NoProcess

\* The manager starts a command, takes what it has made, or does something else.
LEMMA ManagerStream ==
    ASSUME TypeInv, SessionsInv, SessionsInv', StreamInv, ManagerStep
    PROVE  StreamInv'
<1>1. types' = types /\ config' = config
  BY ManagerFrame
<1>2. Len(types) \in Nat
  BY TypesTyped
<1>3. CASE StartCommand
  <2>1. /\ phase = "load" /\ at <= Len(types)
        /\ UNCHANGED <<phase, at, loaded, result, outputs>>
    BY <1>3 DEF StartCommand, managerVars, historyVars
  <2>2. at \in 1..Len(types)
    BY <1>2, <2>1 DEF SessionsInv, CommandsInv
  <2>3. PICK parts \in Outputs[at] : StartProcess(SinkFor(types[at]), parts)
    BY <1>3 DEF StartCommand, SinkFor
  <2>4. PipeInv'
    BY <2>3, StartedPipe
  <2>5. SinkInv'
    <3>1. sink' = SinkFor(types[at]) /\ output' = parts /\ written' = 0 /\ stdout_pipe' = <<>>
      BY <2>3 DEF StartProcess
    <3>2. InOnePiece(at, parts, 0) = SinkFor(types[at])
      BY <2>2, NothingYet
    <3>3. ~SinkFor(types[at]).parser.thrown
      BY DEF SinkFor, NewSink, NewParser
    <3> QED
      BY <1>1, <2>1, <3>1, <3>2, <3>3, EmptySeq DEF SinkInv, InOnePiece
  <2>6. LoadedInv'
    BY <1>1, <2>1 DEF StreamInv, LoadedInv, InOnePiece
  <2> QED
    BY <2>4, <2>5, <2>6 DEF StreamInv
<1>4. CASE CommandReturns
  <2>1. /\ phase = "load" /\ main = "waiting" /\ Believed /\ NoProcess
        /\ loaded' = Append(loaded, sink.parser.objects)
        /\ outputs' = Append(outputs, <<output, written>>)
        /\ at' = at + 1 /\ UNCHANGED <<phase, result>>
    BY <1>4 DEF CommandReturns, Reap
  <2>2. PipeInv' /\ SinkInv'
    BY <2>1, NoPipe DEF SinkInv, NoProcess
  <2>3. at \in 1..Len(types) /\ at \in Nat
    BY <2>1 DEF SessionsInv, CommandsInv
  <2>4. sink = InOnePiece(at, output, written) /\ HadNoComplaint(sink)
    <3>1. stdout_pipe = <<>> /\ written \in Nat
      BY <2>1, OnTheWay DEF StreamInv, PipeInv
    <3> QED
      BY <2>1, <3>1, EmptySeq DEF StreamInv, SinkInv, Believed, HadNoComplaint
  <2>5. /\ loaded \in Seq(SUBSET Acceptable) /\ outputs \in Seq(Seq(Part) \X Nat)
        /\ sink.parser.objects \in SUBSET Acceptable
        /\ <<output, written>> \in Seq(Part) \X Nat
    BY OnTheWay DEF TypeInv, SessionsTypeOK, ProcessTypeOK, Sinks
  <2>6. Len(loaded) = at - 1 /\ Len(outputs) = at - 1 /\ Len(loaded) \in Nat
    BY <2>1, <2>5, LenProperties DEF StreamInv, LoadedInv
  <2>7. /\ Len(loaded') = at /\ Len(outputs') = at
        /\ \A k \in 1..at - 1 : loaded'[k] = loaded[k] /\ outputs'[k] = outputs[k]
        /\ loaded'[at] = sink.parser.objects /\ outputs'[at] = <<output, written>>
        /\ DOMAIN loaded' = 1..at /\ DOMAIN loaded = 1..at - 1
    BY <2>1, <2>3, <2>5, <2>6, AppendProperties, LenProperties
  <2>8. ASSUME NEW k \in 1..at
        PROVE  LET end == InOnePiece(k, outputs'[k][1], outputs'[k][2])
               IN  loaded'[k] = end.parser.objects /\ HadNoComplaint(end)
    <3>1. CASE k = at
      <4>1. outputs'[k][1] = output /\ outputs'[k][2] = written
        BY <2>7, <3>1
      <4> QED
        BY <2>4, <2>7, <3>1, <4>1
    <3>2. CASE k # at
      <4>1. k \in 1..at - 1 /\ k \in DOMAIN loaded
        BY <2>3, <2>7, <3>2
      <4> QED
        BY <2>7, <4>1 DEF StreamInv, LoadedInv
    <3> QED
      BY <3>1, <3>2
  <2>9. result = "none"
    BY <2>1 DEF SessionsInv, CleanupsInv, NotYetCleaning
  <2>10. LoadedInv'
    <3>1. \A k \in DOMAIN loaded' :
            LET end == InOnePiece(k, outputs[k][1], outputs[k][2])'
            IN  loaded'[k] = end.parser.objects /\ HadNoComplaint(end)
      BY <1>1, <2>7, <2>8 DEF InOnePiece, HadNoComplaint
    <3> QED
      BY <1>1, <1>2, <2>1, <2>3, <2>7, <2>9, <3>1 DEF LoadedInv
  <2> QED
    BY <2>2, <2>10 DEF StreamInv
<1>5. CASE ~StartCommand /\ ~CommandReturns
  <2>1. UNCHANGED <<loaded, outputs>>
    BY <1>5, ManagerFrame
  <2>2. PipeInv'
    <3>1. CASE StartInit \/ StartCleanup
      BY <3>1, StartedPipe DEF StartInit, StartCleanup
    <3>2. CASE InitReturns \/ CleanupReturns
      BY <3>2, NoPipe DEF InitReturns, CleanupReturns, Reap
    <3>3. CASE UNCHANGED processVars
      BY <3>3 DEF StreamInv, PipeInv, OutputsClosed, processVars, childVars, pipeVars, threadVars
    <3>4. CASE InitFails \/ CommandFails
      BY <3>3, <3>4, NoPipe DEF InitFails, CommandFails, Reap, Unwind, CannotStart
    <3>5. CASE \/ ParseSession \/ ParseFails \/ SessionsParsed \/ NoInitCommand \/ InitDone
               \/ LoadDone \/ NoCleanupCommand \/ CleanupCannotStart \/ CleanupDone
      BY <3>3, <3>5 DEF ParseSession, ParseFails, SessionsParsed, NoInitCommand, InitDone,
         LoadDone, NoCleanupCommand, CleanupCannotStart, CleanupDone, SkipSession, Advance,
         CannotStart
    <3> QED
      BY <1>5, <3>1, <3>2, <3>4, <3>5 DEF ManagerStep
  <2>3. phase' = "load" => InitDone
    BY <1>5 DEF ManagerStep, ParseSession, ParseFails, SessionsParsed, NoInitCommand, StartInit,
       InitReturns, InitFails, CommandFails, LoadDone, NoCleanupCommand, StartCleanup,
       CleanupCannotStart, CleanupReturns, CleanupDone, Advance, SkipSession, LoadEnds,
       RemoveTempDir, TryCleanup, managerVars
  <2>4. InitDone => /\ at > Len(sessions) /\ phase = "init" /\ at' = 1 /\ main' = main
                    /\ result' = result
    BY DEF InitDone, Advance, processVars, threadVars
  <2>5. SinkInv'
    <3>1. InitDone => main' = "free"
      BY <2>4, SessionsTyped DEF SessionsInv, CommandsInv
    <3> QED
      BY <2>3, <3>1 DEF SinkInv
  <2>6. LoadedInv'
    <3>1. \A k \in DOMAIN loaded' :
            LET end == InOnePiece(k, outputs[k][1], outputs[k][2])'
            IN  loaded'[k] = end.parser.objects /\ HadNoComplaint(end)
      BY <1>1, <2>1 DEF StreamInv, LoadedInv, InOnePiece, HadNoComplaint
    <3>2. Len(outputs') = Len(loaded')
      BY <2>1 DEF StreamInv, LoadedInv
    <3>3. phase' \in {"parse", "init"} => phase \in {"parse", "init"}
      BY <1>5 DEF ManagerStep, ParseSession, ParseFails, SessionsParsed, NoInitCommand, StartInit,
         InitReturns, InitFails, InitDone, CommandFails, LoadDone, NoCleanupCommand, StartCleanup,
         CleanupCannotStart, CleanupReturns, CleanupDone, Advance, SkipSession, LoadEnds,
         RemoveTempDir, TryCleanup, managerVars
    <3>4. phase' = "load" => Len(loaded') = at' - 1 /\ at' <= Len(types') + 1
      BY <1>1, <1>2, <2>1, <2>3, <2>4 DEF StreamInv, LoadedInv
    <3>5. result' = "loaded" => Len(loaded') = Len(types')
      <4>1. result' = "loaded" => result = "loaded" \/ LoadDone
        BY DEF ManagerStep, ParseSession, ParseFails, SessionsParsed, NoInitCommand, StartInit,
           InitReturns, InitFails, InitDone, StartCommand, CommandReturns, CommandFails,
           NoCleanupCommand, StartCleanup, CleanupCannotStart, CleanupReturns, CleanupDone,
           Advance, SkipSession, LoadEnds, RemoveTempDir, TryCleanup, managerVars
      <4>2. LoadDone => phase = "load" /\ at > Len(types)
        BY DEF LoadDone
      <4>3. at \in Nat
        BY SessionsTyped
      <4> QED
        BY <1>1, <1>2, <2>1, <4>1, <4>2, <4>3 DEF StreamInv, LoadedInv
    <3> QED
      BY <2>1, <3>1, <3>2, <3>3, <3>4, <3>5 DEF StreamInv, LoadedInv
  <2> QED
    BY <2>2, <2>5, <2>6 DEF StreamInv
<1> QED
  BY <1>3, <1>4, <1>5

LEMMA StreamNext ==
    ASSUME TypeInv, SessionsInv, SessionsInv', StreamInv, [SessionsNext]_vars
    PROVE  StreamInv'
<1>1. CASE UNCHANGED vars
  BY <1>1 DEF vars, managerVars, historyVars, processVars, childVars, pipeVars, threadVars,
     StreamInv, PipeInv, OutputsClosed, SinkInv, LoadedInv, InOnePiece
<1> QED
  BY <1>1, ProcessStream, ManagerStream DEF SessionsNext, Exited

LEMMA StreamInvariant == SessionsSpec => []StreamInv
<1>1. TypeInv /\ SessionsInv /\ SessionsInv' /\ StreamInv /\ [SessionsNext]_vars => StreamInv'
  BY StreamNext
<1> QED
  BY <1>1, StreamInit, TypeInvariant, SessionsInvariant, PTL DEF SessionsSpec

\* Wherever the pipe, the buffer and the command cut the stream: when a load
\* succeeds, each type has what its sink makes of the whole of what was written,
\* in one piece, and the sink had no complaint (run_process, external_process_get).
THEOREM LoadedWhateverTheCuts == SessionsSpec => []LoadedHoweverCut
<1>1. StreamInv => LoadedHoweverCut
  BY DEF StreamInv, LoadedInv, LoadedHoweverCut
<1> QED
  BY <1>1, StreamInvariant, PTL
-----------------------------------------------------------------------------
\* What a sink makes of an output.

\* The places between the bytes of a text.
ArePlaces(p, text) ==
    /\ p \in [0..Len(text) -> PlaceInText]
    /\ p[0] = TextStart
    /\ \A k \in 0..Len(text) - 1 : p[k + 1] = TextByte(p[k], text[k + 1])

LEMMA TextByteType ==
    ASSUME NEW place \in PlaceInText, NEW c
    PROVE  TextByte(place, c) \in PlaceInText
<1>1. CASE place.escaped
  <2>1. TextByte(place, c) = [place EXCEPT !.escaped = FALSE]
    BY <1>1 DEF TextByte
  <2> QED
    BY <2>1 DEF PlaceInText
<1>2. CASE place.quoted /\ ~place.escaped
  <2>1. TextByte(place, c) = [place EXCEPT !.escaped = (c = "backslash"), !.quoted = (c # "quote")]
    BY <1>2 DEF TextByte
  <2>2. \A a, b \in BOOLEAN : [place EXCEPT !.escaped = a, !.quoted = b] \in PlaceInText
    BY DEF PlaceInText
  <2>3. (c = "backslash") \in BOOLEAN /\ (c # "quote") \in BOOLEAN
    OBVIOUS
  <2> QED
    BY <2>1, <2>2, <2>3, Zenon
<1>3. CASE ~place.quoted /\ ~place.escaped
  <2> DEFINE d == place.depth + (IF c = "open" THEN 1 ELSE 0) - (IF c = "close" THEN 1 ELSE 0)
  <2>1. TextByte(place, c) = [[place EXCEPT !.quoted = (c = "quote")] EXCEPT !.depth = d]
    BY <1>3 DEF TextByte
  <2>2. place.depth \in Int
    BY DEF PlaceInText
  <2>3. d \in Int
    <3>1. \A e \in Int : e + (IF c = "open" THEN 1 ELSE 0) - (IF c = "close" THEN 1 ELSE 0) \in Int
      OBVIOUS
    <3> QED
      BY <2>2, <3>1, Zenon
  <2>4. \A q \in PlaceInText : /\ \A a \in BOOLEAN : [q EXCEPT !.quoted = a] \in PlaceInText
                               /\ \A b \in Int : [q EXCEPT !.depth = b] \in PlaceInText
    BY DEF PlaceInText
  <2>5. (c = "quote") \in BOOLEAN
    OBVIOUS
  <2> HIDE DEF d
  <2>6. [place EXCEPT !.quoted = (c = "quote")] \in PlaceInText
    BY <2>4, <2>5, Zenon
  <2> QED
    BY <2>1, <2>3, <2>4, <2>6, Zenon
<1> QED
  BY <1>1, <1>2, <1>3

LEMMA TextStartType == TextStart \in PlaceInText
BY DEF TextStart, PlaceInText

LEMMA TextChain ==
    ASSUME NEW text \in Seq(Byte)
    PROVE  \E p : ArePlaces(p, text) /\ FoldLeft(TextByte, TextStart, text) = p[Len(text)]
<1> DEFINE n == Len(text)
           D == DOMAIN text
           Iter(it) == it = [x \in SUBSET D |->
                               IF x = {} THEN TextStart
                               ELSE TextByte(it[x \ {Max(x)}], text[Max(x)])]
           iter == CHOOSE it : Iter(it)
<1>1. n \in Nat /\ D = 1..n
  BY LenProperties
<1>2. FoldLeft(TextByte, TextStart, text) = iter[D]
  BY DEF FoldLeft, MapThenFoldSet
<1>3. \E it : Iter(it)
  <2> DEFINE g == [p \in (1..n) \X PlaceInText |-> TextByte(p[2], text[p[1]])]
  <2>1. g \in [(1..n) \X PlaceInText -> PlaceInText] /\ TextStart \in PlaceInText
    BY TextByteType, TextStartType
  <2>2. PICK it \in [SUBSET (1..n) -> PlaceInText] : FoldsTo(it, n, TextStart, g)
    <3> HIDE DEF g, n
    <3> QED
      BY <1>1, <2>1, FoldExists
  <2>3. ASSUME NEW x \in SUBSET (1..n)
        PROVE  it[x] = IF x = {} THEN TextStart ELSE TextByte(it[x \ {Max(x)}], text[Max(x)])
    <3>1. it[x] = IF x = {} THEN TextStart ELSE g[<<Max(x), it[x \ {Max(x)}]>>]
      BY <2>2 DEF FoldsTo
    <3>2. ASSUME x # {}
          PROVE  g[<<Max(x), it[x \ {Max(x)}]>>] = TextByte(it[x \ {Max(x)}], text[Max(x)])
      <4>1. Max(x) \in 1..n
        BY <1>1, <3>2, MaxOf
      <4>2. it[x \ {Max(x)}] \in PlaceInText
        OBVIOUS
      <4> QED
        BY <4>1, <4>2
    <3> HIDE DEF g
    <3> QED
      BY <3>1, <3>2
  <2>4. it = [x \in SUBSET (1..n) |-> it[x]]
    OBVIOUS
  <2>5. Iter(it)
    BY <1>1, <2>3, <2>4
  <2> QED
    BY <2>5
<1>4. Iter(iter)
  <2> HIDE DEF Iter
  <2> QED
    BY <1>3
<1> HIDE DEF iter
<1> DEFINE p == [k \in 0..n |-> iter[1..k]]
<1>5. p[0] = TextStart /\ iter[D] = p[n]
  BY <1>1, <1>4
<1>6. ASSUME NEW k \in 0..n - 1 PROVE p[k + 1] = TextByte(p[k], text[k + 1])
  <2>1. /\ 1..k + 1 \in SUBSET (1..n) /\ 1..k + 1 # {}
        /\ Max(1..k + 1) = k + 1
        /\ (1..k + 1) \ {k + 1} = 1..k
    BY <1>1, PlacesUpTo
  <2>2. iter[1..k + 1] = TextByte(iter[1..k], text[k + 1])
    BY <1>1, <1>4, <2>1
  <2> QED
    BY <1>1, <2>2
<1> DEFINE S == {k \in 0..n : p[k] \in PlaceInText}
<1>7. \A k \in 0..n : k \in S
  <2>1. 0 \in S
    BY <1>1, <1>5, TextStartType
  <2>2. ASSUME NEW k \in 0..n - 1, k \in S PROVE k + 1 \in S
    <3>1. p[k + 1] \in PlaceInText
      <4> HIDE DEF p
      <4> QED
        BY <1>6, <2>2, TextByteType
    <3>2. k + 1 \in 0..n
      BY <1>1
    <3> QED
      BY <3>1, <3>2
  <2> HIDE DEF S, n
  <2> QED
    BY <1>1, <2>1, <2>2, UpTo
<1>8. p \in [0..n -> PlaceInText]
  BY <1>7
<1> HIDE DEF p
<1> QED
  BY <1>2, <1>5, <1>6, <1>8 DEF ArePlaces

\* The beginning of a sequence.
LEMMA Beginning ==
    ASSUME NEW A, NEW s \in Seq(A), NEW n \in 0..Len(s)
    PROVE  /\ SubSeq(s, 1, n) \in Seq(A) /\ Len(SubSeq(s, 1, n)) = n
           /\ \A k \in 1..n : SubSeq(s, 1, n)[k] = s[k]
<1>1. Len(s) \in Nat /\ \A k \in 1..Len(s) : s[k] \in A
  BY LenProperties, ElementOfSeq
<1> QED
  BY <1>1, SubSeqProperties

\* PlaceAfter goes through a text byte by byte.
LEMMA TextPlaces ==
    ASSUME NEW text \in Seq(Byte)
    PROVE  \E p : ArePlaces(p, text) /\ \A n \in 0..Len(text) : PlaceAfter(text, n) = p[n]
<1>1. PICK p : ArePlaces(p, text)
  BY TextChain
<1>2. ASSUME NEW n \in 0..Len(text) PROVE PlaceAfter(text, n) = p[n]
  <2> DEFINE start == SubSeq(text, 1, n)
  <2>1. /\ start \in Seq(Byte) /\ Len(start) = n /\ n \in Nat
        /\ \A k \in 1..n : start[k] = text[k]
    BY Beginning
  <2> HIDE DEF start
  <2>2. PICK q : ArePlaces(q, start) /\ FoldLeft(TextByte, TextStart, start) = q[n]
    BY <2>1, TextChain
  <2> DEFINE S == {k \in 0..n : q[k] = p[k]}
  <2>3. 0 \in S
    BY <1>1, <2>1, <2>2 DEF ArePlaces
  <2>4. ASSUME NEW k \in 0..n - 1, k \in S PROVE k + 1 \in S
    <3>1. k + 1 \in 1..n /\ k + 1 \in 0..n /\ k \in 0..Len(text) - 1
      BY LenProperties
    <3>2. start[k + 1] = text[k + 1] /\ q[k] = p[k]
      BY <2>1, <2>4, <3>1
    <3>3. p[k + 1] = TextByte(p[k], text[k + 1])
      BY <1>1, <3>1 DEF ArePlaces
    <3>4. q[k + 1] = TextByte(q[k], start[k + 1])
      BY <2>1, <2>2 DEF ArePlaces
    <3> QED
      BY <3>1, <3>2, <3>3, <3>4
  <2>5. \A k \in 0..n : k \in S
    <3> HIDE DEF S
    <3> QED
      BY <2>1, <2>3, <2>4, UpTo
  <2> QED
    BY <2>1, <2>2, <2>5 DEF PlaceAfter, start
<1> QED
  BY <1>1, <1>2

\* A sink goes through what it is given byte by byte.
LEMMA SinkPlaces ==
    ASSUME NEW s \in Sinks, NEW bytes \in Seq(Byte)
    PROVE  \E f : /\ IsChain(f, s, bytes)
                  /\ \A n \in 0..Len(bytes) : SinkWrite(s, SubSeq(bytes, 1, n)) = f[n]
<1>1. PICK f : IsChain(f, s, bytes)
  BY SinkChain
<1>2. ASSUME NEW n \in 0..Len(bytes), NEW start \in Seq(Byte), start = SubSeq(bytes, 1, n)
      PROVE  SinkWrite(s, start) = f[n]
  <2>1. /\ Len(start) = n /\ n \in Nat /\ Len(start) <= Len(bytes)
        /\ \A k \in 1..Len(start) : start[k] = bytes[k]
    BY <1>2, Beginning, LenProperties
  <2>2. PICK h : IsChain(h, s, start) /\ SinkWrite(s, start) = h[Len(start)]
    BY SinkChain
  <2> DEFINE S == {k \in 0..n : h[k] = f[k]}
  <2>3. 0 \in S
    BY <1>1, <2>1, <2>2 DEF IsChain
  <2>4. ASSUME NEW k \in 0..n - 1, k \in S PROVE k + 1 \in S
    <3>1. k + 1 \in 1..n /\ k + 1 \in 0..n /\ k \in 0..Len(bytes) - 1
      BY <2>1, LenProperties
    <3>2. start[k + 1] = bytes[k + 1] /\ h[k] = f[k]
      BY <2>1, <2>4, <3>1
    <3>3. f[k + 1] = SinkByte(f[k], bytes[k + 1])
      BY <1>1, <3>1 DEF IsChain
    <3>4. h[k + 1] = SinkByte(h[k], start[k + 1])
      BY <2>1, <2>2 DEF IsChain
    <3> QED
      BY <3>1, <3>2, <3>3, <3>4
  <2>5. \A k \in 0..n : k \in S
    <3> HIDE DEF S
    <3> QED
      BY <2>1, <2>3, <2>4, UpTo
  <2> QED
    BY <2>1, <2>2, <2>5
<1>3. \A n \in 0..Len(bytes) : SubSeq(bytes, 1, n) \in Seq(Byte)
  BY Beginning
<1> QED
  BY <1>1, <1>2, <1>3

\* The place of each part of an output among its bytes.
LEMMA PartsInBytes ==
    ASSUME NEW parts \in Seq(Part)
    PROVE  /\ WrittenUpTo(parts, 0) = 0
           /\ WrittenUpTo(parts, Len(parts)) = Len(Bytes(parts))
           /\ \A k \in 0..Len(parts) : WrittenUpTo(parts, k) \in Nat
           /\ \A k \in 0..Len(parts) - 1 :
                 LET text == parts[k + 1].text
                     w    == WrittenUpTo(parts, k)
                 IN  /\ text \in Seq(Byte)
                     /\ WrittenUpTo(parts, k + 1) = w + Len(text)
                     /\ w + Len(text) <= Len(Bytes(parts))
                     /\ \A i \in 1..Len(text) : Bytes(parts)[w + i] = text[i]
<1> DEFINE n == Len(parts)
           texts == [i \in DOMAIN parts |-> parts[i].text]
<1>1. n \in Nat /\ DOMAIN parts = 1..n /\ \A i \in 1..n : parts[i].text \in Seq(Byte)
  <2>1. \A i \in 1..n : parts[i] \in Part
    BY ElementOfSeq
  <2> QED
    BY <2>1, LenProperties DEF Part
<1>2. /\ texts \in Seq(Seq(Byte)) /\ Len(texts) = n
      /\ \A i \in 1..n : texts[i] = parts[i].text
  <2>1. texts \in [1..n -> Seq(Byte)]
    BY <1>1
  <2>2. texts \in Seq(Seq(Byte))
    <3> HIDE DEF texts, n
    <3> QED
      BY <1>1, <2>1, SeqDef
  <2>3. DOMAIN texts = 1..n
    BY <1>1
  <2>4. Len(texts) = n
    <3> HIDE DEF texts, n
    <3> QED
      BY <1>1, <2>2, <2>3, LenProperties
  <2> QED
    BY <1>1, <2>2, <2>4
<1>3. ASSUME NEW k \in 0..n
      PROVE  Bytes(SubSeq(parts, 1, k)) = FlattenSeq(SubSeq(texts, 1, k))
  <2> DEFINE first == SubSeq(parts, 1, k)
             cut == [i \in DOMAIN first |-> first[i].text]
  <2>1. first \in Seq(Part) /\ Len(first) = k /\ \A i \in 1..k : first[i] = parts[i]
    BY Beginning
  <2>2. k \in Nat /\ DOMAIN first = 1..k
    <3> HIDE DEF first
    <3> QED
      BY <1>1, <2>1, LenProperties
  <2>3. cut = [i \in 1..k |-> texts[i]]
    <3> HIDE DEF first
    <3> QED
      BY <1>1, <2>1, <2>2
  <2>4. SubSeq(texts, 1, k) = [i \in 1..k |-> texts[i]]
    <3>1. /\ SubSeq(texts, 1, k) \in Seq(Seq(Byte)) /\ Len(SubSeq(texts, 1, k)) = k
          /\ \A i \in 1..k : SubSeq(texts, 1, k)[i] = texts[i]
      <4> HIDE DEF texts
      <4> QED
        BY <1>2, Beginning
    <3> DEFINE sub == SubSeq(texts, 1, k)
    <3> HIDE DEF sub, texts
    <3>2. DOMAIN sub = 1..k /\ sub = [i \in DOMAIN sub |-> sub[i]]
      BY <3>1, LenProperties DEF sub
    <3> QED
      BY <3>1, <3>2 DEF sub
  <2> HIDE DEF first
  <2>5. Bytes(first) = FlattenSeq(cut)
    BY DEF Bytes
  <2> QED
    BY <2>3, <2>4, <2>5 DEF first
<1>4. SubSeq(parts, 1, n) = parts
  BY SubSeqFull
<1>5. WrittenUpTo(parts, 0) = 0
  <2>1. SubSeq(parts, 1, 0) = <<>>
    BY SubSeqEmpty
  <2>2. Bytes(<<>>) = <<>>
    BY DEF Bytes, FlattenSeq
  <2> QED
    BY <2>1, <2>2, EmptySeq DEF WrittenUpTo
<1>6. WrittenUpTo(parts, n) = Len(Bytes(parts))
  BY <1>4 DEF WrittenUpTo
<1>7. ASSUME NEW k \in 0..n PROVE WrittenUpTo(parts, k) \in Nat
  <2>1. SubSeq(parts, 1, k) \in Seq(Part)
    BY Beginning
  <2> QED
    BY <2>1, BytesType DEF WrittenUpTo
<1>8. ASSUME NEW k \in 0..n - 1
      PROVE  LET text == parts[k + 1].text
                 w    == WrittenUpTo(parts, k)
             IN  /\ text \in Seq(Byte)
                 /\ WrittenUpTo(parts, k + 1) = w + Len(text)
                 /\ w + Len(text) <= Len(Bytes(parts))
                 /\ \A i \in 1..Len(text) : Bytes(parts)[w + i] = text[i]
  <2> DEFINE before == FlattenSeq(SubSeq(texts, 1, k))
  <2>1. k \in 0..n /\ k + 1 \in 0..n /\ k + 1 \in 1..n /\ n \in 0..n
    BY <1>1
  <2>2. /\ before = Bytes(SubSeq(parts, 1, k))
        /\ FlattenSeq(SubSeq(texts, 1, k + 1)) = Bytes(SubSeq(parts, 1, k + 1))
    <3> HIDE DEF texts, n
    <3> QED
      BY <1>3, <2>1
  <2>3. FlattenSeq(texts) = Bytes(parts)
    BY DEF Bytes
  <2>4. texts[k + 1] = parts[k + 1].text
    BY <1>2, <2>1
  <2> HIDE DEF texts, n
  <2>5. /\ before \in Seq(Byte) /\ texts[k + 1] \in Seq(Byte)
        /\ Len(before) + Len(texts[k + 1]) <= Len(FlattenSeq(texts))
        /\ \A i \in 1..Len(texts[k + 1]) : FlattenSeq(texts)[Len(before) + i] = texts[k + 1][i]
        /\ FlattenSeq(SubSeq(texts, 1, k + 1)) = before \o texts[k + 1]
    BY <1>2, FlattenParts
  <2>6. Len(before) = WrittenUpTo(parts, k)
    BY <2>2 DEF WrittenUpTo
  <2> HIDE DEF before
  <2>7. Len(before \o texts[k + 1]) = Len(before) + Len(texts[k + 1])
    BY <2>5
  <2>8. WrittenUpTo(parts, k + 1) = Len(before) + Len(texts[k + 1])
    BY <2>2, <2>5, <2>7 DEF WrittenUpTo
  <2> QED
    BY <2>3, <2>4, <2>5, <2>6, <2>8
<1> QED
  BY <1>5, <1>6, <1>7, <1>8

\* A complaint is for good.
Complains(s) == s.splitter.failed \/ s.parser.failed \/ s.parser.thrown

LEMMA ComplaintStays ==
    ASSUME NEW s \in Sinks, NEW c, Complains(s)
    PROVE  Complains(SinkByte(s, c))
<1>1. s \in SinkState /\ s.parser \in ParserState
  BY DEF Sinks, SinkState
<1>2. CASE s.null \/ s.parser.thrown
  BY <1>2 DEF SinkByte
<1>3. CASE ~s.null /\ ~s.parser.thrown
  <2> DEFINE parsed == IF CompletesObject(s.splitter, c)
                       THEN ParserWrite(s.parser, Append(s.splitter.current_object, c))
                       ELSE s.parser
             split == SplitterByte(s.splitter, c)
  <2>1. SinkByte(s, c) = [s EXCEPT !.splitter = split, !.parser = parsed]
    BY <1>3 DEF SinkByte
  <2>2. s.parser.failed => parsed = s.parser
    BY DEF ParserWrite
  <2>3. s.splitter.failed => split = s.splitter
    BY DEF SplitterByte
  <2> HIDE DEF parsed, split
  <2>4. SinkByte(s, c).splitter = split /\ SinkByte(s, c).parser = parsed
    BY <1>1, <2>1 DEF SinkState
  <2> QED
    BY <1>3, <2>2, <2>3, <2>4 DEF Complains
<1> QED
  BY <1>2, <1>3

\* A sink between two objects, and one within an object.
Idle(s) ==
    /\ ~s.null /\ ~Complains(s)
    /\ s.splitter.brace_depth = 0 /\ ~s.splitter.in_string /\ ~s.splitter.escape_next

Within(s, p, place, kept) ==
    /\ ~s.null /\ s.parser = p
    /\ ~s.splitter.failed /\ ~s.splitter.done /\ s.splitter.seen_first_char
    /\ s.splitter.brace_depth = place.depth
    /\ s.splitter.in_string = place.quoted /\ s.splitter.escape_next = place.escaped
    /\ s.splitter.current_object = kept

LEMMA ByteParts ==
    ASSUME NEW s \in Sinks, NEW c, ~s.null, ~s.parser.thrown
    PROVE  /\ SinkByte(s, c).null = FALSE
           /\ SinkByte(s, c).splitter = SplitterByte(s.splitter, c)
           /\ SinkByte(s, c).parser =
                 IF CompletesObject(s.splitter, c)
                 THEN ParserWrite(s.parser, Append(s.splitter.current_object, c))
                 ELSE s.parser
           /\ s.splitter \in SplitterState /\ s.parser \in ParserState
BY DEF Sinks, SinkState, SinkByte

\* What stands between objects begins none and adds none.
LEMMA BetweenByte ==
    ASSUME NEW s \in Sinks, Idle(s), NEW c, c # "open"
    PROVE  LET t == SinkByte(s, c)
           IN  /\ t.parser = s.parser
               /\ Complains(t) \/ Idle(t)
               /\ t.splitter.done => s.splitter.done \/ c = "]"
<1> DEFINE t == SinkByte(s, c)
           r == s.splitter
<1>1. /\ ~s.null /\ ~s.parser.thrown /\ ~s.parser.failed /\ ~r.failed /\ r.brace_depth = 0
      /\ ~r.in_string /\ ~r.escape_next
  BY DEF Idle, Complains
<1>2. ~t.null /\ t.splitter = SplitterByte(r, c) /\ t.parser = s.parser /\ r \in SplitterState
  <2>1. ~CompletesObject(r, c)
    BY <1>1 DEF CompletesObject
  <2> QED
    BY <1>1, <2>1, ByteParts
<1>3. c # "open"
  OBVIOUS
<1>4. LET u == SplitterByte(r, c)
      IN  /\ u.brace_depth = 0 /\ ~u.in_string /\ ~u.escape_next
          /\ u.done => r.done \/ c = "]"
  <2>1. CASE r.done
    BY <1>1, <2>1 DEF SplitterByte
  <2>2. CASE ~r.done /\ ~r.seen_first_char
    <3>1. SplitterByte(r, c) = FirstByte(r, c)
      BY <1>1, <2>2 DEF SplitterByte
    <3>2. \/ FirstByte(r, c) = r
          \/ FirstByte(r, c) = [[r EXCEPT !.seen_first_char = TRUE] EXCEPT !.is_array = TRUE]
          \/ FirstByte(r, c) = [[r EXCEPT !.seen_first_char = TRUE] EXCEPT !.failed = TRUE]
      BY <1>3 DEF FirstByte
    <3> QED
      BY <1>1, <1>2, <2>2, <3>1, <3>2 DEF SplitterState
  <2>3. CASE ~r.done /\ r.seen_first_char
    <3>1. SplitterByte(r, c) = ByteBetweenObjects(r, c)
      BY <1>1, <2>3 DEF SplitterByte
    <3>2. \/ ByteBetweenObjects(r, c) = r
          \/ c = "]" /\ ByteBetweenObjects(r, c) = [r EXCEPT !.done = TRUE]
          \/ ByteBetweenObjects(r, c) = [r EXCEPT !.failed = TRUE]
      BY <1>3 DEF ByteBetweenObjects
    <3> QED
      BY <1>1, <1>2, <2>3, <3>1, <3>2 DEF SplitterState
  <2> QED
    BY <2>1, <2>2, <2>3
<1>5. Complains(t) \/ Idle(t)
  <2>1. ~t.null /\ t.splitter.brace_depth = 0 /\ ~t.splitter.in_string /\ ~t.splitter.escape_next
    BY <1>2, <1>4, Zenon
  <2> HIDE DEF t
  <2> QED
    BY <2>1 DEF Idle
<1> HIDE DEF t, r
<1>6. t.splitter.done => r.done \/ c = "]"
  BY <1>2, <1>4
<1> QED
  BY <1>2, <1>5, <1>6 DEF t, r

Opening == [depth |-> 1, quoted |-> FALSE, escaped |-> FALSE]

LEMMA FirstOfObject ==
    ASSUME NEW s \in Sinks, Idle(s), ~s.splitter.done
    PROVE  Within(SinkByte(s, "open"), s.parser, Opening, <<"open">>)
<1> DEFINE t == SinkByte(s, "open")
           r == s.splitter
<1>1. /\ ~s.null /\ ~s.parser.thrown /\ ~r.failed /\ ~r.done /\ r.brace_depth = 0
      /\ ~r.in_string /\ ~r.escape_next
  BY DEF Idle, Complains
<1>2. ~t.null /\ t.splitter = SplitterByte(r, "open") /\ t.parser = s.parser /\ r \in SplitterState
  BY <1>1, ByteParts DEF CompletesObject
<1>3. LET u == SplitterByte(r, "open")
      IN  /\ ~u.failed /\ ~u.done /\ u.seen_first_char /\ u.brace_depth = 1
          /\ u.in_string = FALSE /\ u.escape_next = FALSE /\ u.current_object = <<"open">>
  <2>1. CASE ~r.seen_first_char
    <3>1. SplitterByte(r, "open") = Opened([r EXCEPT !.seen_first_char = TRUE])
      BY <1>1, <2>1 DEF SplitterByte, FirstByte
    <3> QED
      BY <1>1, <1>2, <3>1 DEF SplitterState, Opened
  <2>2. CASE r.seen_first_char
    <3>1. SplitterByte(r, "open") = Opened(r)
      BY <1>1, <2>2 DEF SplitterByte, ByteBetweenObjects
    <3> QED
      BY <1>1, <1>2, <2>2, <3>1 DEF SplitterState, Opened
  <2> QED
    BY <2>1, <2>2
<1> HIDE DEF t, r
<1> QED
  BY <1>2, <1>3 DEF Within, Opening, t, r

\* The splitter knows the place in the text.
LEMMA SplitterFollows ==
    ASSUME NEW r \in SplitterState, NEW place \in PlaceInText, NEW c \in Byte,
           ~r.failed, ~r.done, r.seen_first_char,
           r.brace_depth = place.depth, r.in_string = place.quoted,
           r.escape_next = place.escaped, place.depth > 0, place.escaped => place.quoted
    PROVE  LET u == SplitterByte(r, c)
               next == TextByte(place, c)
           IN  /\ ~u.failed /\ ~u.done /\ u.seen_first_char
               /\ u.brace_depth = next.depth
               /\ u.in_string = next.quoted /\ u.escape_next = next.escaped
               /\ next.escaped => next.quoted
               /\ next.depth # 0 => u.current_object = Append(r.current_object, c)
               /\ next.depth = 0 <=>
                     place.depth = 1 /\ ~place.quoted /\ c = "close"
<1> DEFINE kept == [r EXCEPT !.current_object = Append(@, c)]
           u == SplitterByte(r, c)
           next == TextByte(place, c)
<1>1. /\ place.depth \in Int /\ place.quoted \in BOOLEAN /\ place.escaped \in BOOLEAN
      /\ place = [depth |-> place.depth, quoted |-> place.quoted, escaped |-> place.escaped]
  BY DEF PlaceInText
<1>2. /\ kept \in SplitterState
      /\ kept.failed = r.failed /\ kept.done = r.done
      /\ kept.seen_first_char = r.seen_first_char /\ kept.brace_depth = r.brace_depth
      /\ kept.in_string = r.in_string /\ kept.escape_next = r.escape_next
      /\ kept.current_object = Append(r.current_object, c)
  <2>1. r.current_object \in Seq(Byte)
    BY DEF SplitterState
  <2>2. Append(r.current_object, c) \in Seq(Byte)
    BY <2>1, AppendProperties
  <2> QED
    BY <2>2 DEF SplitterState
<1> DEFINE Follows == /\ ~u.failed /\ ~u.done /\ u.seen_first_char
                      /\ u.in_string = next.quoted /\ u.escape_next = next.escaped
                      /\ next.escaped => next.quoted
           Counts == /\ u.brace_depth = next.depth
                     /\ next.depth # 0 => u.current_object = kept.current_object
                     /\ next.depth = 0 <=>
                           place.depth = 1 /\ ~place.quoted /\ c = "close"
<1> SUFFICES Follows /\ Counts
  <2> HIDE DEF kept, u, next
  <2> QED
    BY <1>2 DEF u, next
<1>3. u = IF r.in_string THEN ByteInString(kept, c) ELSE ByteInObject(kept, c)
  BY <1>1 DEF SplitterByte
<1> HIDE DEF kept, u
<1>4. CASE place.escaped
  <2>1. place.quoted
    BY <1>4
  <2>2. next = [place EXCEPT !.escaped = FALSE]
    BY <1>4 DEF TextByte
  <2>3. next.depth = place.depth /\ next.quoted = place.quoted /\ next.escaped = FALSE
    BY <2>2 DEF PlaceInText
  <2>4. u = [kept EXCEPT !.escape_next = FALSE]
    BY <1>2, <1>3, <1>4, <2>1 DEF ByteInString
  <2> HIDE DEF next
  <2>5. /\ u.failed = kept.failed /\ u.done = kept.done
        /\ u.seen_first_char = kept.seen_first_char /\ u.brace_depth = kept.brace_depth
        /\ u.current_object = kept.current_object
        /\ u.in_string = kept.in_string /\ u.escape_next = FALSE
    BY <1>2, <2>4 DEF SplitterState
  <2>6. Follows
    BY <1>2, <2>3, <2>5, Zenon
  <2>7. Counts
    BY <1>2, <2>1, <2>3, <2>5
  <2> QED
    BY <2>6, <2>7
<1>5. CASE place.quoted /\ ~place.escaped
  <2>1. next = [place EXCEPT !.escaped = (c = "backslash"), !.quoted = (c # "quote")]
    BY <1>5 DEF TextByte
  <2>2. /\ next.depth = place.depth /\ next.quoted = (c # "quote")
        /\ next.escaped = (c = "backslash")
    BY <2>1 DEF PlaceInText
  <2>3. u = [kept EXCEPT !.escape_next = (c = "backslash"), !.in_string = (c # "quote")]
    BY <1>2, <1>3, <1>5 DEF ByteInString
  <2> HIDE DEF next
  <2>4. /\ u.failed = kept.failed /\ u.done = kept.done
        /\ u.seen_first_char = kept.seen_first_char /\ u.brace_depth = kept.brace_depth
        /\ u.current_object = kept.current_object
        /\ u.in_string = (c # "quote") /\ u.escape_next = (c = "backslash")
    BY <1>2, <2>3 DEF SplitterState
  <2>5. Follows
    <3>1. c = "backslash" => c # "quote"
      OBVIOUS
    <3> QED
      BY <1>2, <2>2, <2>4, <3>1, Zenon
  <2>6. Counts
    BY <1>2, <1>5, <2>2, <2>4
  <2> QED
    BY <2>5, <2>6
<1>6. CASE ~place.quoted /\ ~place.escaped
  <2>0. place.quoted = FALSE /\ place.escaped = FALSE
    BY <1>1, <1>6, Zenon
  <2> DEFINE d == place.depth + (IF c = "open" THEN 1 ELSE 0) - (IF c = "close" THEN 1 ELSE 0)
  <2>1. next = [[place EXCEPT !.quoted = (c = "quote")] EXCEPT !.depth = d]
    BY <1>6 DEF TextByte
  <2>2. next.depth = d /\ next.quoted = (c = "quote") /\ next.escaped = FALSE
    BY <1>6, <2>1 DEF PlaceInText
  <2>3. u = ByteInObject(kept, c)
    BY <1>3, <1>6
  <2> HIDE DEF next
  <2>4. CASE c = "quote"
    <3>1. u = [kept EXCEPT !.in_string = TRUE]
      BY <2>3, <2>4 DEF ByteInObject
    <3>2. /\ u.failed = kept.failed /\ u.done = kept.done
          /\ u.seen_first_char = kept.seen_first_char /\ u.brace_depth = kept.brace_depth
          /\ u.current_object = kept.current_object
          /\ u.in_string = TRUE /\ u.escape_next = kept.escape_next
      BY <1>2, <3>1 DEF SplitterState
    <3>3. d = place.depth
      BY <1>1, <2>4
    <3> HIDE DEF d
    <3>4. Follows
      BY <1>2, <2>0, <2>2, <2>4, <3>2, Zenon
    <3>5. Counts
      <4>1. "quote" # "close"
        OBVIOUS
      <4> QED
        BY <1>1, <1>2, <2>2, <2>4, <3>2, <3>3, <4>1
    <3> QED
      BY <3>4, <3>5
  <2>5. CASE c = "open"
    <3>1. u = [kept EXCEPT !.brace_depth = @ + 1]
      BY <2>3, <2>5 DEF ByteInObject
    <3>2. /\ u.failed = kept.failed /\ u.done = kept.done
          /\ u.seen_first_char = kept.seen_first_char /\ u.brace_depth = kept.brace_depth + 1
          /\ u.current_object = kept.current_object
          /\ u.in_string = kept.in_string /\ u.escape_next = kept.escape_next
      BY <1>2, <3>1 DEF SplitterState
    <3>3. d = place.depth + 1 /\ d # 0
      BY <1>1, <2>5
    <3> HIDE DEF d
    <3>4. Follows
      <4>1. "open" # "quote"
        OBVIOUS
      <4> QED
        BY <1>2, <2>0, <2>2, <2>5, <3>2, <4>1, Zenon
    <3>5. Counts
      <4>1. "open" # "close"
        OBVIOUS
      <4> QED
        BY <1>1, <1>2, <2>2, <2>5, <3>2, <3>3, <4>1
    <3> QED
      BY <3>4, <3>5
  <2>6. CASE c = "close"
    <3>0. "close" # "quote" /\ "close" # "open"
      OBVIOUS
    <3> DEFINE closed == [kept EXCEPT !.brace_depth = @ - 1]
    <3>1. u = IF closed.brace_depth = 0 THEN [closed EXCEPT !.current_object = <<>>] ELSE closed
      BY <2>3, <2>6 DEF ByteInObject
    <3>2. /\ closed.brace_depth = place.depth - 1 /\ closed.failed = kept.failed
          /\ closed.done = kept.done /\ closed.seen_first_char = kept.seen_first_char
          /\ closed.in_string = kept.in_string /\ closed.escape_next = kept.escape_next
          /\ closed.current_object = kept.current_object
          /\ closed = [closed EXCEPT !.failed = kept.failed]
      BY <1>2 DEF SplitterState
    <3>3. d = place.depth - 1
      BY <1>1, <2>6
    <3>4. CASE place.depth = 1
      <4>1. u = [closed EXCEPT !.current_object = <<>>]
        BY <3>1, <3>2, <3>4
      <4>2. /\ u.brace_depth = closed.brace_depth /\ u.failed = closed.failed
            /\ u.done = closed.done /\ u.seen_first_char = closed.seen_first_char
            /\ u.in_string = closed.in_string /\ u.escape_next = closed.escape_next
        BY <1>2, <4>1 DEF SplitterState
      <4> HIDE DEF closed, d
      <4>3. Follows
        <5>1. /\ u.failed = r.failed /\ u.done = r.done /\ u.seen_first_char = r.seen_first_char
              /\ u.in_string = r.in_string /\ u.escape_next = r.escape_next
          BY <1>2, <3>2, <4>2, Zenon
        <5> QED
          BY <2>0, <2>2, <2>6, <3>0, <5>1, Zenon
      <4>4. Counts
        BY <1>1, <2>0, <2>2, <2>6, <3>2, <3>3, <3>4, <4>2
      <4> QED
        BY <4>3, <4>4
    <3>5. CASE place.depth # 1
      <4>1. place.depth - 1 # 0
        BY <1>1, <3>5
      <4>2. u = closed
        BY <3>1, <3>2, <4>1
      <4> HIDE DEF closed, d
      <4>3. Follows
        BY <1>2, <2>0, <2>2, <2>6, <3>0, <3>2, <4>2, Zenon
      <4>4. Counts
        BY <1>1, <1>2, <2>2, <2>6, <3>2, <3>3, <3>5, <4>2
      <4> QED
        BY <4>3, <4>4
    <3> QED
      BY <3>4, <3>5
  <2>7. CASE c # "quote" /\ c # "open" /\ c # "close"
    <3>1. u = kept
      BY <2>3, <2>7 DEF ByteInObject
    <3>2. d = place.depth
      BY <1>1, <2>7
    <3> HIDE DEF d
    <3>3. Follows
      BY <1>2, <2>0, <2>2, <2>7, <3>1, Zenon
    <3>4. Counts
      BY <1>1, <1>2, <2>2, <2>7, <3>1, <3>2
    <3> QED
      BY <3>3, <3>4
  <2> QED
    BY <2>4, <2>5, <2>6, <2>7
<1> QED
  BY <1>1, <1>4, <1>5, <1>6, Zenon

LEMMA AtTheEnd ==
    ASSUME NEW place \in PlaceInText, NEW c, place.depth > 0, TextByte(place, c).depth = 0
    PROVE  ~TextByte(place, c).quoted /\ ~TextByte(place, c).escaped
<1> DEFINE next == TextByte(place, c)
<1>1. place.depth \in Int
  BY DEF PlaceInText
<1>2. CASE place.escaped
  <2>1. next.depth = place.depth
    BY <1>2 DEF TextByte, PlaceInText
  <2> QED
    BY <1>1, <2>1
<1>3. CASE place.quoted /\ ~place.escaped
  <2>1. next.depth = place.depth
    BY <1>3 DEF TextByte, PlaceInText
  <2> QED
    BY <1>1, <2>1
<1>4. CASE ~place.quoted /\ ~place.escaped
  <2> DEFINE d == place.depth + (IF c = "open" THEN 1 ELSE 0) - (IF c = "close" THEN 1 ELSE 0)
  <2>1. next = [[place EXCEPT !.quoted = (c = "quote")] EXCEPT !.depth = d]
    BY <1>4 DEF TextByte
  <2>2. next.depth = d /\ next.quoted = (c = "quote") /\ next.escaped = place.escaped
    BY <2>1 DEF PlaceInText
  <2>3. c = "close"
    BY <1>1, <2>2
  <2> QED
    BY <1>4, <2>2, <2>3
<1> QED
  BY <1>2, <1>3, <1>4

\* A byte of an object that does not end it, and the one that does.
LEMMA ByteOfObject ==
    ASSUME NEW s \in Sinks, NEW p, NEW place \in PlaceInText, NEW kept, NEW c \in Byte,
           Within(s, p, place, kept), ~p.thrown, place.depth > 0,
           place.escaped => place.quoted
    PROVE  LET t == SinkByte(s, c)
               next == TextByte(place, c)
           IN  /\ next.escaped => next.quoted
               /\ next.depth # 0 => Within(t, p, next, Append(kept, c))
               /\ next.depth = 0 =>
                     /\ ~t.null /\ t.parser = ParserWrite(p, Append(kept, c))
                     /\ ~t.splitter.failed /\ ~t.splitter.done
                     /\ t.splitter.brace_depth = 0
                     /\ t.splitter.in_string = next.quoted
                     /\ t.splitter.escape_next = next.escaped
<1> DEFINE t == SinkByte(s, c)
           next == TextByte(place, c)
           r == s.splitter
           u == SplitterByte(r, c)
<1>1. /\ ~s.null /\ s.parser = p /\ ~r.failed /\ ~r.done /\ r.seen_first_char
      /\ r.brace_depth = place.depth /\ r.in_string = place.quoted
      /\ r.escape_next = place.escaped /\ r.current_object = kept
  BY DEF Within
<1>2. /\ ~t.null /\ t.splitter = u
      /\ t.parser = IF CompletesObject(r, c) THEN ParserWrite(p, Append(kept, c)) ELSE p
      /\ r \in SplitterState
  BY <1>1, ByteParts
<1>3. /\ ~u.failed /\ ~u.done /\ u.seen_first_char
      /\ u.brace_depth = next.depth
      /\ u.in_string = next.quoted /\ u.escape_next = next.escaped
      /\ next.escaped => next.quoted
      /\ next.depth # 0 => u.current_object = Append(kept, c)
      /\ next.depth = 0 <=> place.depth = 1 /\ ~place.quoted /\ c = "close"
  <2> HIDE DEF r, u, next
  <2>1. r \in SplitterState
    BY <1>2
  <2> QED
    BY <1>1, <2>1, SplitterFollows DEF u, next
<1>4. CompletesObject(r, c) <=> next.depth = 0
  BY <1>1, <1>3, Zenon DEF CompletesObject
<1> HIDE DEF t, next, r, u
<1>5. next.depth # 0 => Within(t, p, next, Append(kept, c))
  BY <1>2, <1>3, <1>4 DEF Within
<1> QED
  BY <1>2, <1>3, <1>4, <1>5 DEF t, next

LEMMA ObjectsFound ==
    ASSUME NEW p \in ParserState, NEW text, ~p.failed, ~p.thrown
    PROVE  LET q == ParserWrite(p, text)
           IN  q.failed \/ q.thrown \/ q.objects = p.objects \cup (IdsIn(text) \cap Acceptable)
BY DEF ParserWrite, ParserState

\* The sinks f along the bytes, of which those after the first w are the text of
\* an object: it is kept byte by byte, and goes to the parser with its last byte.
LEMMA ObjectPart ==
    ASSUME NEW s \in Sinks, NEW bytes \in Seq(Byte), NEW f, IsChain(f, s, bytes),
           NEW text \in Seq(Byte), IsObjectText(text),
           NEW w \in Nat, w + Len(text) <= Len(bytes),
           \A i \in 1..Len(text) : bytes[w + i] = text[i],
           Idle(f[w]), ~f[w].splitter.done
    PROVE  /\ \A m \in 1..Len(text) - 1 : f[w + m].splitter.brace_depth # 0
           /\ LET t == f[w + Len(text)]
              IN  \/ Complains(t)
                  \/ /\ Idle(t) /\ ~t.splitter.done
                     /\ t.parser.objects = f[w].parser.objects \cup (IdsIn(text) \cap Acceptable)
<1> DEFINE L == Len(text)
           par == f[w].parser
<1>1. PICK p : ArePlaces(p, text) /\ \A n \in 0..Len(text) : PlaceAfter(text, n) = p[n]
  BY TextPlaces
<1>2. /\ L \in Nat /\ L > 1 /\ p[L].depth = 0
      /\ \A n \in 1..L - 1 : p[n].depth > 0
      /\ \A n \in 0..L : p[n] \in PlaceInText
  <2>1. L \in Nat
    BY LenProperties
  <2>2. /\ L > 1 /\ PlaceAfter(text, L).depth = 0
        /\ \A n \in 1..L - 1 : PlaceAfter(text, n).depth > 0
    BY DEF IsObjectText
  <2>3. \A n \in 0..L : PlaceAfter(text, n) = p[n] /\ p[n] \in PlaceInText
    BY <1>1 DEF ArePlaces
  <2> HIDE DEF L
  <2>4. L \in 0..L /\ \A n \in 1..L - 1 : n \in 0..L
    BY <2>1
  <2> QED
    BY <2>1, <2>2, <2>3, <2>4
<1>3. /\ \A n \in 0..L - 1 : p[n + 1] = TextByte(p[n], text[n + 1])
      /\ p[0] = TextStart
  BY <1>1 DEF ArePlaces
<1>4. \A n \in 1..L : text[n] \in Byte
  BY ElementOfSeq
<1>5. ASSUME NEW m \in 0..L - 1
      PROVE  f[w + m] \in Sinks /\ f[w + (m + 1)] = SinkByte(f[w + m], text[m + 1])
  <2>1. Len(bytes) \in Nat
    BY LenProperties
  <2>2. w + m \in 0..Len(bytes) - 1 /\ w + m \in 0..Len(bytes) /\ m + 1 \in 1..L
        /\ w + m + 1 = w + (m + 1)
    BY <1>2, <2>1
  <2>3. f[w + m + 1] = SinkByte(f[w + m], bytes[w + m + 1]) /\ f[w + m] \in Sinks
    BY <2>2 DEF IsChain
  <2>4. bytes[w + (m + 1)] = text[m + 1]
    BY <2>2
  <2> QED
    BY <2>2, <2>3, <2>4
<1>6. p[1] = Opening /\ text[1] = "open"
  <2>1. p[1] = TextByte(TextStart, text[1]) /\ p[1].depth > 0
    BY <1>2, <1>3
  <2>2. TextByte(TextStart, text[1]) =
           [[TextStart EXCEPT !.quoted = (text[1] = "quote")]
               EXCEPT !.depth = 0 + (IF text[1] = "open" THEN 1 ELSE 0)
                                  - (IF text[1] = "close" THEN 1 ELSE 0)]
    BY DEF TextByte, TextStart
  <2>3. text[1] = "open"
    <3>1. p[1].depth = 0 + (IF text[1] = "open" THEN 1 ELSE 0)
                         - (IF text[1] = "close" THEN 1 ELSE 0)
      BY <2>1, <2>2 DEF TextStart
    <3>2. text[1] # "open" => p[1].depth \in {0, -1}
      BY <3>1
    <3> QED
      BY <2>1, <3>2
  <2>4. 0 + 1 - 0 = 1 /\ "open" # "close" /\ "open" # "quote"
    OBVIOUS
  <2>5. p[1] = [[TextStart EXCEPT !.quoted = FALSE] EXCEPT !.depth = 1]
    BY <2>1, <2>2, <2>3, <2>4, Zenon
  <2>6. p[1] = Opening
    BY <2>5 DEF TextStart, Opening
  <2> QED
    BY <2>3, <2>6
<1> HIDE DEF L, par
<1> DEFINE In(m) == Within(f[w + m], par, p[m], SubSeq(text, 1, m)) /\ (p[m].escaped => p[m].quoted)
           S == {k \in 0..L - 2 : In(k + 1)}
<1>7. ~par.thrown /\ ~par.failed /\ par \in ParserState
  <2>1. f[w + 0] \in Sinks
    <3>1. 0 \in 0..L - 1
      BY <1>2
    <3> QED
      BY <1>5, <3>1, Zenon
  <2>2. w + 0 = w
    OBVIOUS
  <2> QED
    BY <2>1, <2>2 DEF par, Idle, Complains, Sinks, SinkState
<1>8. In(1)
  <2>1. f[w + 0] \in Sinks /\ f[w + (0 + 1)] = SinkByte(f[w + 0], text[0 + 1])
    <3>1. 0 \in 0..L - 1
      BY <1>2
    <3> QED
      BY <1>5, <3>1, Zenon
  <2>2. f[w] \in Sinks /\ f[w + 1] = SinkByte(f[w], "open")
    BY <1>6, <2>1
  <2>3. Within(f[w + 1], par, Opening, <<"open">>)
    BY <2>2, FirstOfObject DEF par
  <2>4. SubSeq(text, 1, 1) = <<"open">>
    <3>1. SubSeq(text, 1, 0) = <<>> /\ 0 \in 0..Len(text) - 1
      BY <1>2, SubSeqEmpty DEF L
    <3>2. SubSeq(text, 1, 0 + 1) = Append(SubSeq(text, 1, 0), text[0 + 1])
      BY <3>1, SubSeqGrows
    <3>3. 0 + 1 = 1 /\ Append(<<>>, "open") = <<"open">>
      OBVIOUS
    <3> QED
      BY <1>6, <3>1, <3>2, <3>3, Zenon
  <2>5. ~Opening.escaped
    BY DEF Opening
  <2> QED
    BY <1>6, <2>3, <2>4, <2>5, Zenon
<1>9. ASSUME NEW m \in 1..L - 1, In(m), NEW k, k = m + 1
      PROVE  LET t == f[w + k]
             IN  /\ p[k].depth # 0 => In(k)
                 /\ p[k].depth = 0 =>
                       /\ ~t.null /\ t.parser = ParserWrite(par, SubSeq(text, 1, k))
                       /\ ~t.splitter.failed /\ ~t.splitter.done
                       /\ t.splitter.brace_depth = 0
                       /\ ~t.splitter.in_string /\ ~t.splitter.escape_next
  <2> DEFINE kept == SubSeq(text, 1, m)
  <2>1. m \in 0..L - 1 /\ k \in 1..L /\ m \in 0..L
    BY <1>2, <1>9
  <2>2. /\ f[w + m] \in Sinks /\ f[w + k] = SinkByte(f[w + m], text[k])
        /\ p[k] = TextByte(p[m], text[k])
    BY <1>3, <1>5, <1>9, <2>1
  <2>3. SubSeq(text, 1, k) = Append(kept, text[k])
    BY <1>9, <2>1, SubSeqGrows DEF L
  <2>4. p[m] \in PlaceInText /\ p[m].depth > 0 /\ text[k] \in Byte
    BY <1>2, <1>4, <2>1 DEF L
  <2>5. Within(f[w + m], par, p[m], kept) /\ (p[m].escaped => p[m].quoted)
    BY <1>9
  <2>6. p[k].depth = 0 => ~p[k].quoted /\ ~p[k].escaped
    BY <2>2, <2>4, AtTheEnd
  <2> HIDE DEF kept
  <2>7. LET t == SinkByte(f[w + m], text[k])
            next == TextByte(p[m], text[k])
        IN  /\ next.escaped => next.quoted
            /\ next.depth # 0 => Within(t, par, next, Append(kept, text[k]))
            /\ next.depth = 0 =>
                  /\ ~t.null /\ t.parser = ParserWrite(par, Append(kept, text[k]))
                  /\ ~t.splitter.failed /\ ~t.splitter.done
                  /\ t.splitter.brace_depth = 0
                  /\ t.splitter.in_string = next.quoted
                  /\ t.splitter.escape_next = next.escaped
    <3> DEFINE z == f[w + m]
               c == text[k]
               place == p[m]
    <3>1. /\ z \in Sinks /\ place \in PlaceInText /\ c \in Byte /\ ~par.thrown
          /\ place.depth > 0 /\ Within(z, par, place, kept) /\ (place.escaped => place.quoted)
      BY <1>7, <2>2, <2>4, <2>5
    <3> HIDE DEF z, c, place
    <3>2. LET t == SinkByte(z, c)
              next == TextByte(place, c)
          IN  /\ next.escaped => next.quoted
              /\ next.depth # 0 => Within(t, par, next, Append(kept, c))
              /\ next.depth = 0 =>
                    /\ ~t.null /\ t.parser = ParserWrite(par, Append(kept, c))
                    /\ ~t.splitter.failed /\ ~t.splitter.done
                    /\ t.splitter.brace_depth = 0
                    /\ t.splitter.in_string = next.quoted
                    /\ t.splitter.escape_next = next.escaped
      BY <3>1, ByteOfObject
    <3> QED
      BY <3>2 DEF z, c, place
  <2> QED
    BY <2>2, <2>3, <2>6, <2>7
<1> HIDE DEF In
<1>10. \A m \in 1..L - 1 : In(m)
  <2>1. 0 \in S
    BY <1>2, <1>8
  <2>2. ASSUME NEW j \in 0..L - 2 - 1, j \in S PROVE j + 1 \in S
    <3> DEFINE m == j + 1
               k == m + 1
    <3>1. m \in 1..L - 1 /\ k = m + 1 /\ k \in 1..L - 1 /\ m \in 0..L - 2
      BY <1>2
    <3>2. In(m)
      BY <2>2
    <3> HIDE DEF k
    <3>3. p[k].depth # 0
      BY <1>2, <3>1
    <3>4. In(k)
      BY <1>9, <3>1, <3>2, <3>3
    <3> QED
      BY <3>1, <3>4 DEF k
  <2>3. \A j \in 0..L - 2 : j \in S
    <3>1. L - 2 \in Nat
      BY <1>2
    <3> HIDE DEF S
    <3> QED
      BY <2>1, <2>2, <3>1, UpTo
  <2>4. ASSUME NEW m \in 1..L - 1 PROVE In(m)
    <3>1. m - 1 \in 0..L - 2 /\ m - 1 + 1 = m
      BY <1>2
    <3>2. m - 1 \in S
      BY <2>3, <3>1
    <3> QED
      BY <3>1, <3>2
  <2> QED
    BY <2>4
<1>11. ASSUME NEW m \in 1..L - 1 PROVE f[w + m].splitter.brace_depth # 0
  <2>1. In(m) /\ p[m].depth > 0
    BY <1>2, <1>10
  <2>2. f[w + m].splitter.brace_depth = p[m].depth /\ p[m].depth # 0
    <3>1. p[m].depth \in Int
      BY <1>2 DEF PlaceInText
    <3> QED
      BY <2>1, <3>1 DEF In, Within
  <2> QED
    BY <2>2
<1>12. LET t == f[w + L]
       IN  /\ ~t.null /\ t.parser = ParserWrite(par, text)
           /\ ~t.splitter.failed /\ ~t.splitter.done /\ t.splitter.brace_depth = 0
           /\ ~t.splitter.in_string /\ ~t.splitter.escape_next
  <2> DEFINE m == L - 1
  <2>1. m \in 1..L - 1 /\ L = m + 1
    BY <1>2
  <2> HIDE DEF m
  <2>2. In(m)
    BY <1>10, <2>1
  <2>3. SubSeq(text, 1, L) = text
    BY SubSeqFull DEF L
  <2> QED
    BY <1>2, <1>9, <2>1, <2>2, <2>3
<1>13. LET q == ParserWrite(par, text)
       IN  q.failed \/ q.thrown \/ q.objects = par.objects \cup (IdsIn(text) \cap Acceptable)
  BY <1>7, ObjectsFound
<1>14. LET t == f[w + L]
       IN  \/ Complains(t)
           \/ /\ Idle(t) /\ ~t.splitter.done
              /\ t.parser.objects = par.objects \cup (IdsIn(text) \cap Acceptable)
  <2> DEFINE t == f[w + L]
  <2>1. /\ ~t.null /\ t.parser = ParserWrite(par, text)
        /\ ~t.splitter.failed /\ ~t.splitter.done /\ t.splitter.brace_depth = 0
        /\ ~t.splitter.in_string /\ ~t.splitter.escape_next
    BY <1>12
  <2> HIDE DEF t
  <2>2. Complains(t) \/ Idle(t)
    BY <2>1 DEF Idle
  <2>3. Idle(t) => t.parser.objects = par.objects \cup (IdsIn(text) \cap Acceptable)
    BY <1>13, <2>1 DEF Idle, Complains
  <2> QED
    BY <2>1, <2>2, <2>3 DEF t
<1> QED
  BY <1>11, <1>14 DEF L, par

LEMMA ComplaintsStay ==
    ASSUME NEW s \in Sinks, NEW bytes \in Seq(Byte), NEW f, IsChain(f, s, bytes),
           NEW n \in 0..Len(bytes), NEW m \in n..Len(bytes), Complains(f[n])
    PROVE  Complains(f[m])
<1> DEFINE S == {d \in 0..m - n : Complains(f[n + d])}
<1>1. Len(bytes) \in Nat /\ n \in Nat /\ m \in Nat /\ m - n \in Nat /\ n + 0 = n
      /\ n + (m - n) = m /\ m - n \in 0..m - n
  BY LenProperties
<1>2. 0 \in S
  BY <1>1
<1>3. ASSUME NEW d \in 0..m - n - 1, d \in S PROVE d + 1 \in S
  <2> DEFINE i == n + d
  <2>1. i \in 0..Len(bytes) - 1 /\ i \in 0..Len(bytes) /\ d + 1 \in 0..m - n /\ i + 1 = n + (d + 1)
    BY <1>1
  <2>2. Complains(f[i])
    BY <1>3
  <2> HIDE DEF i
  <2>3. f[i] \in Sinks /\ f[i + 1] = SinkByte(f[i], bytes[i + 1])
    BY <2>1 DEF IsChain
  <2>4. Complains(f[i + 1])
    BY <2>2, <2>3, ComplaintStays
  <2> QED
    BY <2>1, <2>4
<1>4. \A d \in 0..m - n : d \in S
  <2> HIDE DEF S
  <2> QED
    BY <1>1, <1>2, <1>3, UpTo
<1> QED
  BY <1>1, <1>4

\* What every part of a well cut output is.
LEMMA PartsAre ==
    ASSUME NEW parts \in Seq(Part), WellCut(parts), NEW k \in 1..Len(parts)
    PROVE  /\ parts[k].object => IsObjectText(parts[k].text)
           /\ ~parts[k].object => \E c : c # "open" /\ parts[k].text = <<c>>
           /\ parts[k].text \in Seq(Byte) /\ Len(parts[k].text) \in Nat \ {0}
           /\ \A j \in 1..k - 1 : parts[j].text = <<"]">> => ~parts[k].object
<1>1. DOMAIN parts = 1..Len(parts) /\ Len(parts) \in Nat
  BY LenProperties
<1>2. parts[k].text \in Seq(Byte) /\ Len(parts[k].text) \in Nat
  <2>1. parts[k] \in Part
    BY ElementOfSeq
  <2>2. parts[k].text \in Seq(Byte)
    BY <2>1 DEF Part
  <2> QED
    BY <2>2, LenProperties
<1>3. /\ parts[k].object => IsObjectText(parts[k].text)
      /\ ~parts[k].object => \E c : c # "open" /\ parts[k].text = <<c>>
  BY <1>1 DEF WellCut
<1>4. Len(parts[k].text) # 0
  <2>1. \A c : Len(<<c>>) = 1
    OBVIOUS
  <2> QED
    BY <1>2, <1>3, <2>1 DEF IsObjectText
<1>5. \A j \in 1..k - 1 : parts[j].text = <<"]">> => ~parts[k].object
  BY <1>1 DEF WellCut
<1> QED
  BY <1>2, <1>3, <1>4, <1>5

LEMMA WrittenGrows ==
    ASSUME NEW parts \in Seq(Part), WellCut(parts)
    PROVE  \A j, k \in 0..Len(parts) :
               j < k => WrittenUpTo(parts, j) < WrittenUpTo(parts, k)
<1> DEFINE n == Len(parts)
           S == {k \in 0..n : \A j \in 0..n : j < k => WrittenUpTo(parts, j) < WrittenUpTo(parts, k)}
<1>1. n \in Nat /\ \A k \in 0..n : WrittenUpTo(parts, k) \in Nat
  BY PartsInBytes, LenProperties
<1>2. 0 \in S
  BY <1>1
<1>3. ASSUME NEW k \in 0..n - 1, k \in S PROVE k + 1 \in S
  <2>1. WrittenUpTo(parts, k + 1) = WrittenUpTo(parts, k) + Len(parts[k + 1].text)
    BY PartsInBytes
  <2>2. k + 1 \in 1..n /\ k \in 0..n /\ k + 1 \in 0..n
    BY <1>1
  <2>3. Len(parts[k + 1].text) \in Nat \ {0}
    BY <2>2, PartsAre
  <2> HIDE DEF n
  <2>4. WrittenUpTo(parts, k) < WrittenUpTo(parts, k + 1)
    BY <1>1, <2>1, <2>2, <2>3
  <2>5. ASSUME NEW j \in 0..n, j < k + 1
        PROVE  WrittenUpTo(parts, j) < WrittenUpTo(parts, k + 1)
    <3>1. j = k \/ j < k
      BY <2>5
    <3>2. j < k => WrittenUpTo(parts, j) < WrittenUpTo(parts, k)
      BY <1>3
    <3> QED
      BY <1>1, <2>2, <2>4, <3>1, <3>2
  <2> QED
    BY <2>2, <2>5
<1>4. \A k \in 0..n : k \in S
  <2> HIDE DEF S, n
  <2> QED
    BY <1>1, <1>2, <1>3, UpTo
<1> QED
  BY <1>4

\* The ids of the objects among the first k parts.
FoundIn(parts, k) ==
    (UNION {IdsIn(parts[j].text) : j \in {i \in 1..k : parts[i].object}}) \cap Acceptable

\* Between two parts a sink has complained, or it is idle and has found what was
\* in the parts before; it looks no further only after the end of an array.
FoundAt(t, parts, k) ==
    \/ Complains(t)
    \/ /\ Idle(t)
       /\ t.splitter.done => \E j \in 1..k : parts[j].text = <<"]">>
       /\ t.parser.objects = FoundIn(parts, k)

LEMMA FoundSoFar ==
    ASSUME NEW parts \in Seq(Part), WellCut(parts),
           NEW s \in Sinks, Idle(s), ~s.splitter.done, s.parser.objects = {},
           NEW f, IsChain(f, s, Bytes(parts))
    PROVE  \A k \in 0..Len(parts) : FoundAt(f[WrittenUpTo(parts, k)], parts, k)
<1> DEFINE n == Len(parts)
           bytes == Bytes(parts)
           W(k) == WrittenUpTo(parts, k)
           S == {k \in 0..n : FoundAt(f[W(k)], parts, k)}
<1>1. /\ n \in Nat /\ bytes \in Seq(Byte) /\ Len(bytes) \in Nat /\ W(0) = 0
      /\ \A k \in 0..n : W(k) \in Nat
  BY PartsInBytes, BytesType, LenProperties
<1>2. 0 \in S
  <2>1. f[0] = s
    BY DEF IsChain
  <2>2. 1..0 = {} /\ FoundIn(parts, 0) = {}
    BY DEF FoundIn
  <2>3. FoundAt(s, parts, 0)
    BY <2>2 DEF FoundAt
  <2> QED
    BY <1>1, <2>1, <2>3
<1>3. ASSUME NEW k \in 0..n - 1, k \in S PROVE k + 1 \in S
  <2> DEFINE w == W(k)
             part == parts[k + 1]
             text == part.text
             t == f[w + Len(text)]
  <2>1. /\ k + 1 \in 1..n /\ k \in 0..n /\ k + 1 \in 0..n /\ w \in Nat
        /\ 1..k + 1 = 1..k \cup {k + 1} /\ (k + 1) - 1 = k
    BY <1>1
  <2>2. /\ text \in Seq(Byte) /\ W(k + 1) = w + Len(text) /\ w + Len(text) <= Len(bytes)
        /\ \A i \in 1..Len(text) : bytes[w + i] = text[i]
    BY PartsInBytes
  <2>3. /\ part.object => IsObjectText(text)
        /\ ~part.object => \E c : c # "open" /\ text = <<c>>
        /\ Len(text) \in Nat \ {0}
        /\ \A j \in 1..k : parts[j].text = <<"]">> => ~part.object
    BY <2>1, PartsAre
  <2>4. FoundAt(f[w], parts, k)
    BY <1>3
  <2>5. FoundIn(parts, k + 1) = IF part.object THEN FoundIn(parts, k) \cup (IdsIn(text) \cap Acceptable)
                                ELSE FoundIn(parts, k)
    <3> HIDE DEF text
    <3> DEFINE ids == IdsIn(text)
               yes == part.object
               before == {IdsIn(parts[j].text) : j \in {i \in 1..k : parts[i].object}}
               after == {IdsIn(parts[j].text) : j \in {i \in 1..k + 1 : parts[i].object}}
    <3>1. {i \in 1..k + 1 : parts[i].object} =
             {i \in 1..k : parts[i].object} \cup (IF yes THEN {k + 1} ELSE {})
      BY <2>1
    <3>2. after = before \cup (IF yes THEN {ids} ELSE {})
      BY <3>1 DEF text
    <3>3. /\ FoundIn(parts, k + 1) = (UNION after) \cap Acceptable
          /\ FoundIn(parts, k) = (UNION before) \cap Acceptable
      BY Zenon DEF FoundIn
    <3>4. (UNION after) \cap Acceptable = IF yes THEN ((UNION before) \cap Acceptable) \cup (ids \cap Acceptable)
                                         ELSE (UNION before) \cap Acceptable
      <4> HIDE DEF before, after, ids, yes
      <4>1. (UNION after) = (UNION before) \cup (IF yes THEN ids ELSE {})
        BY <3>2
      <4> QED
        BY <4>1
    <3> QED
      BY <3>3, <3>4, Zenon
  <2>6. w \in 0..Len(bytes) /\ w + Len(text) \in w..Len(bytes)
    <3> HIDE DEF W, text, bytes
    <3> QED
      BY <1>1, <2>1, <2>2, <2>3
  <2>7. FoundAt(t, parts, k + 1)
    <3>1. CASE Complains(f[w])
      <4>1. Complains(t)
        <5> HIDE DEF w, text, bytes
        <5> QED
          BY <1>1, <2>6, <3>1, ComplaintsStay DEF bytes
      <4> QED
        BY <4>1 DEF FoundAt
    <3>2. CASE ~Complains(f[w]) /\ part.object
      <4>1. Idle(f[w]) /\ ~f[w].splitter.done /\ f[w].parser.objects = FoundIn(parts, k)
        <5>1. /\ Idle(f[w]) /\ f[w].parser.objects = FoundIn(parts, k)
              /\ f[w].splitter.done => \E j \in 1..k : parts[j].text = <<"]">>
          BY <2>4, <3>2 DEF FoundAt
        <5> QED
          BY <2>3, <3>2, <5>1, Zenon
      <4>2. \/ Complains(t)
            \/ /\ Idle(t) /\ ~t.splitter.done
               /\ t.parser.objects = f[w].parser.objects \cup (IdsIn(text) \cap Acceptable)
        <5>1. /\ IsObjectText(text) /\ IsChain(f, s, bytes)
              /\ bytes \in Seq(Byte) /\ text \in Seq(Byte) /\ w \in Nat
              /\ w + Len(text) <= Len(bytes)
              /\ \A i \in 1..Len(text) : bytes[w + i] = text[i]
              /\ Idle(f[w]) /\ ~f[w].splitter.done
          BY <1>1, <2>1, <2>2, <2>3, <3>2, <4>1
        <5> HIDE DEF w, text, bytes
        <5> QED
          BY <5>1, ObjectPart
      <4> QED
        BY <2>5, <3>2, <4>1, <4>2 DEF FoundAt
    <3>3. CASE ~Complains(f[w]) /\ ~part.object
      <4>1. PICK c : c # "open" /\ text = <<c>>
        BY <2>3, <3>3
      <4>2. Len(text) = 1 /\ text[1] = c
        BY <4>1
      <4> HIDE DEF text
      <4>3. bytes[w + 1] = c /\ w \in 0..Len(bytes) - 1
        <5>1. 1 \in 1..Len(text)
          BY <4>2
        <5> HIDE DEF w, bytes
        <5> QED
          BY <1>1, <2>1, <2>2, <4>2, <5>1
      <4>4. t = SinkByte(f[w], c) /\ f[w] \in Sinks
        <5>1. f[w] \in Sinks /\ f[w + 1] = SinkByte(f[w], bytes[w + 1])
          BY <1>1, <2>6, <4>3 DEF IsChain
        <5> QED
          BY <4>2, <4>3, <5>1
      <4>5. /\ Idle(f[w]) /\ f[w].parser.objects = FoundIn(parts, k)
            /\ f[w].splitter.done => \E j \in 1..k : parts[j].text = <<"]">>
        BY <2>4, <3>3 DEF FoundAt
      <4> HIDE DEF w, t
      <4>6. /\ t.parser = f[w].parser /\ (Complains(t) \/ Idle(t))
            /\ t.splitter.done => f[w].splitter.done \/ c = "]"
        BY <4>1, <4>4, <4>5, BetweenByte
      <4>7. t.splitter.done => \E j \in 1..k + 1 : parts[j].text = <<"]">>
        <5>1. c = "]" => parts[k + 1].text = <<"]">>
          BY <4>1 DEF text
        <5> QED
          BY <2>1, <4>5, <4>6, <5>1
      <4> QED
        BY <2>5, <3>3, <4>5, <4>6, <4>7 DEF FoundAt
    <3> QED
      BY <3>1, <3>2, <3>3
  <2> QED
    BY <2>1, <2>2, <2>7
<1>4. \A k \in 0..n : k \in S
  <2> HIDE DEF S, n
  <2> QED
    BY <1>1, <1>2, <1>3, UpTo
<1> QED
  BY <1>4

\* The part an output was written up to, or in the middle of the next one.
LEMMA WhichPart ==
    ASSUME NEW parts \in Seq(Part), WellCut(parts), NEW n \in 0..Len(Bytes(parts))
    PROVE  \E k \in 0..Len(parts) :
              /\ WrittenUpTo(parts, k) <= n
              /\ k < Len(parts) => n < WrittenUpTo(parts, k + 1)
<1> DEFINE N == Len(parts)
           W(k) == WrittenUpTo(parts, k)
           S == {k \in 0..N : W(k) <= n}
<1>1. N \in Nat /\ n \in Nat /\ W(0) = 0 /\ \A k \in 0..N : W(k) \in Nat
  BY PartsInBytes, LenProperties, BytesType
<1>2. SUFFICES ASSUME \A k \in 0..N : W(k) <= n => k < N /\ W(k + 1) <= n PROVE FALSE
  <2>1. \A k \in 0..N : k < N => W(k + 1) \in Nat
    <3> HIDE DEF N, W
    <3> QED
      BY <1>1
  <2> QED
    BY <1>1, <2>1
<1>3. 0 \in S /\ \A k \in 0..N - 1 : k \in S => k + 1 \in S
  <2> HIDE DEF N, W
  <2> QED
    BY <1>1, <1>2
<1>4. \A k \in 0..N : k \in S
  <2> HIDE DEF S, N
  <2> QED
    BY <1>1, <1>3, UpTo
<1>5. N \in S
  BY <1>1, <1>4
<1> QED
  BY <1>1, <1>2, <1>5

\* The objects written by then are those among the first k parts.
LEMMA WrittenByThen ==
    ASSUME NEW parts \in Seq(Part), WellCut(parts), NEW n \in Nat, NEW k \in 0..Len(parts),
           WrittenUpTo(parts, k) <= n, k < Len(parts) => n < WrittenUpTo(parts, k + 1)
    PROVE  /\ ObjectsWritten(parts, n) \cap Acceptable = FoundIn(parts, k)
           /\ \A j \in 1..Len(parts) : WrittenUpTo(parts, j) <= n <=> j <= k
           /\ \A j \in 1..Len(parts) : j # k + 1 =>
                 n \notin (WrittenUpTo(parts, j - 1) + 1)..(WrittenUpTo(parts, j) - 1)
<1> DEFINE N == Len(parts)
           W(j) == WrittenUpTo(parts, j)
<1>1. N \in Nat /\ DOMAIN parts = 1..N /\ \A j \in 0..N : W(j) \in Nat
  BY PartsInBytes, LenProperties
<1>2. \A i, j \in 0..N : i < j => W(i) < W(j)
  BY WrittenGrows
<1> HIDE DEF N, W
<1>3. k \in 0..N /\ W(k) <= n /\ (k < N => n < W(k + 1))
  BY DEF N, W
<1>4. ASSUME NEW j \in 1..N PROVE W(j) <= n <=> j <= k
  <2>1. CASE j <= k
    <3>1. j = k \/ W(j) < W(k)
      BY <1>1, <1>2, <1>3, <2>1
    <3> QED
      BY <1>1, <1>3, <2>1, <3>1
  <2>2. CASE j > k
    <3>1. k < N /\ k + 1 \in 0..N /\ (j = k + 1 \/ k + 1 < j)
      BY <1>1, <1>3, <2>2
    <3>2. n < W(k + 1) /\ (j = k + 1 \/ W(k + 1) < W(j))
      BY <1>1, <1>2, <1>3, <3>1
    <3>3. W(j) \in Nat /\ W(k + 1) \in Nat
      BY <1>1, <3>1
    <3> QED
      BY <1>1, <1>3, <2>2, <3>2, <3>3
  <2> QED
    BY <1>1, <1>3, <2>1, <2>2
<1>5. ASSUME NEW j \in 1..N, j # k + 1 PROVE n \notin (W(j - 1) + 1)..(W(j) - 1)
  <2>1. W(j) \in Nat /\ W(j - 1) \in Nat
    BY <1>1
  <2>2. CASE j <= k
    BY <1>4, <2>1, <2>2
  <2>3. CASE ~(j <= k)
    <3>1. j - 1 \in 1..N /\ k < j - 1
      BY <1>1, <1>3, <1>5, <2>3
    <3>2. ~(W(j - 1) <= n)
      BY <1>3, <1>4, <3>1
    <3> QED
      BY <2>1, <3>2
  <2> QED
    BY <2>2, <2>3
<1>6. {j \in 1..N : parts[j].object /\ W(j) <= n} = {i \in 1..k : parts[i].object}
  BY <1>1, <1>3, <1>4
<1>7. ObjectsWritten(parts, n) \cap Acceptable = FoundIn(parts, k)
  BY <1>1, <1>6, Zenon DEF ObjectsWritten, FoundIn, W
<1> QED
  BY <1>4, <1>5, <1>7 DEF N, W

\* What a sink has made of an output, as far as it was written, when it has no
\* complaint: no object was cut off, and it has the acceptable ones.
LEMMA SinkMakes ==
    ASSUME NEW parts \in Seq(Part), WellCut(parts),
           NEW s \in Sinks, Idle(s), ~s.splitter.done, s.parser.objects = {},
           NEW n \in 0..Len(Bytes(parts)),
           HadNoComplaint(SinkWrite(s, SubSeq(Bytes(parts), 1, n)))
    PROVE  /\ SinkWrite(s, SubSeq(Bytes(parts), 1, n)).parser.objects =
                 ObjectsWritten(parts, n) \cap Acceptable
           /\ \A k \in DOMAIN parts : parts[k].object =>
                 n \notin (WrittenUpTo(parts, k - 1) + 1)..(WrittenUpTo(parts, k) - 1)
<1> DEFINE N == Len(parts)
           bytes == Bytes(parts)
           W(k) == WrittenUpTo(parts, k)
<1>1. /\ N \in Nat /\ DOMAIN parts = 1..N /\ bytes \in Seq(Byte) /\ Len(bytes) \in Nat /\ n \in Nat
      /\ \A k \in 0..N : W(k) \in Nat
      /\ W(N) = Len(bytes)
  BY PartsInBytes, BytesType, LenProperties
<1>2. PICK f : /\ IsChain(f, s, bytes)
               /\ \A m \in 0..Len(bytes) : SinkWrite(s, SubSeq(bytes, 1, m)) = f[m]
  BY <1>1, SinkPlaces
<1>3. PICK k \in 0..N : W(k) <= n /\ (k < N => n < W(k + 1))
  BY WhichPart
<1>4. SinkWrite(s, SubSeq(bytes, 1, n)) = f[n] /\ HadNoComplaint(f[n])
  BY <1>2
<1>5. ~Complains(f[n]) /\ f[n].splitter.brace_depth = 0
  BY <1>4 DEF HadNoComplaint, Complains, incomplete
<1>6. FoundAt(f[W(k)], parts, k)
  BY <1>2, FoundSoFar
<1>7. ~Complains(f[W(k)])
  <2> HIDE DEF W, bytes, N
  <2>1. W(k) \in 0..Len(bytes) /\ n \in W(k)..Len(bytes)
    BY <1>1, <1>3 DEF bytes
  <2> QED
    BY <1>1, <1>2, <1>5, <2>1, ComplaintsStay
<1>8. /\ Idle(f[W(k)]) /\ f[W(k)].parser.objects = FoundIn(parts, k)
      /\ f[W(k)].splitter.done => \E j \in 1..k : parts[j].text = <<"]">>
  BY <1>6, <1>7 DEF FoundAt
<1>9. n = W(k)
  <2>1. SUFFICES ASSUME n # W(k) PROVE FALSE
    OBVIOUS
  <2> DEFINE w == W(k)
             text == parts[k + 1].text
             m == n - w
  <2>2. k < N /\ k \in 0..N - 1 /\ k + 1 \in 1..N /\ (k + 1) - 1 = k
    <3> HIDE DEF W, N, bytes
    <3>1. k # N
      BY <1>1, <1>3, <2>1 DEF bytes
    <3> QED
      BY <1>1, <3>1
  <2>3. /\ text \in Seq(Byte) /\ W(k + 1) = w + Len(text) /\ w + Len(text) <= Len(bytes)
        /\ \A i \in 1..Len(text) : bytes[w + i] = text[i]
    BY <2>2, PartsInBytes
  <2>4. /\ parts[k + 1].object => IsObjectText(text)
        /\ ~parts[k + 1].object => \E c : c # "open" /\ text = <<c>>
        /\ Len(text) \in Nat \ {0}
        /\ \A j \in 1..k : parts[j].text = <<"]">> => ~parts[k + 1].object
    BY <2>2, PartsAre
  <2>5. m \in 1..Len(text) - 1 /\ Len(text) # 1 /\ w + m = n /\ w \in Nat
    <3> HIDE DEF W, N, text
    <3>1. m \in 1..Len(text) - 1 /\ w + m = n /\ w \in Nat
      BY <1>1, <1>3, <2>1, <2>2, <2>3, <2>4
    <3> HIDE DEF m, w
    <3>2. Len(text) # 1
      <4>1. 1..1 - 1 = {}
        OBVIOUS
      <4> QED
        BY <3>1, <4>1
    <3> QED
      BY <3>1, <3>2
  <2>6. parts[k + 1].object
    <3>1. \A c : text = <<c>> => Len(text) = 1
      <4> HIDE DEF text
      <4> QED
        OBVIOUS
    <3> QED
      BY <2>4, <2>5, <3>1, Zenon
  <2>7. ~f[w].splitter.done /\ Idle(f[w])
    BY <1>8, <2>4, <2>6, Zenon
  <2>8. f[w + m].splitter.brace_depth # 0
    <3>1. /\ IsObjectText(text) /\ IsChain(f, s, bytes)
          /\ bytes \in Seq(Byte) /\ text \in Seq(Byte) /\ w \in Nat
          /\ w + Len(text) <= Len(bytes)
          /\ \A i \in 1..Len(text) : bytes[w + i] = text[i]
          /\ Idle(f[w]) /\ ~f[w].splitter.done
      BY <1>1, <1>2, <2>3, <2>4, <2>5, <2>6, <2>7
    <3> HIDE DEF w, text, bytes, m
    <3>2. /\ \A i \in 1..Len(text) - 1 : f[w + i].splitter.brace_depth # 0
          /\ LET t == f[w + Len(text)]
             IN  \/ Complains(t)
                 \/ /\ Idle(t) /\ ~t.splitter.done
                    /\ t.parser.objects = f[w].parser.objects \cup (IdsIn(text) \cap Acceptable)
      BY <3>1, ObjectPart
    <3> QED
      BY <2>5, <3>2
  <2> QED
    BY <1>5, <2>5, <2>8
<1>10. /\ ObjectsWritten(parts, n) \cap Acceptable = FoundIn(parts, k)
       /\ \A j \in 1..N : j # k + 1 => n \notin (W(j - 1) + 1)..(W(j) - 1)
  BY <1>1, <1>3, WrittenByThen
<1>11. f[n].parser.objects = ObjectsWritten(parts, n) \cap Acceptable
  BY <1>8, <1>9, <1>10
<1>12. ASSUME NEW j \in DOMAIN parts PROVE n \notin (W(j - 1) + 1)..(W(j) - 1)
  <2>1. j \in 1..N /\ (j = k + 1 => j - 1 = k)
    BY <1>1
  <2>2. CASE j # k + 1
    BY <1>10, <2>1, <2>2
  <2>3. CASE j = k + 1
    <3>1. W(j - 1) = n
      BY <1>9, <2>1, <2>3
    <3> HIDE DEF W
    <3> QED
      BY <1>1, <3>1
  <2> QED
    BY <2>2, <2>3
<1> QED
  BY <1>4, <1>11, <1>12
-----------------------------------------------------------------------------
\* What is loaded is what was written.

LEMMA OutputsInit == SessionsInit => OutputsInv
BY DEF SessionsInit, ProcessInit, OutputsInv

LEMMA OutputsNext ==
    ASSUME TypeInv, SessionsInv, StreamInv, OutputsInv, [SessionsNext]_vars
    PROVE  OutputsInv'
<1>1. CASE UNCHANGED vars
  BY <1>1 DEF vars, managerVars, historyVars, processVars, childVars, pipeVars, threadVars,
     OutputsInv
<1>2. CASE ProcessStep
  <2>1. UNCHANGED <<phase, at, outputs, output>>
    BY <1>2 DEF ProcessStep, managerVars, historyVars, ReadStep, ReadStdout, StdoutEnds,
       JoinErrReader, ReadStderr, StderrEnds, ChildStep, ChildWrites, ChildComplains,
       ChildSucceeds, ChildSeesEndOfInput, ChildFails, childVars
  <2>2. main' # "free" => main # "free"
    BY <1>2 DEF ProcessStep, ReadStep, ReadStdout, StdoutEnds, JoinErrReader, ReadStderr,
       StderrEnds, ChildStep, ChildWrites, ChildComplains, ChildSucceeds, ChildSeesEndOfInput,
       ChildFails, pipeVars, threadVars
  <2> QED
    BY <2>1, <2>2 DEF OutputsInv
<1>3. CASE StartCommand
  <2>1. /\ UNCHANGED <<phase, at, outputs>>
        /\ \E parts \in Outputs[at] : StartProcess(SinkFor(types[at]), parts)
    BY <1>3 DEF StartCommand, managerVars, historyVars, SinkFor
  <2>2. output' \in Outputs[at]
    BY <2>1 DEF StartProcess
  <2> QED
    BY <2>1, <2>2 DEF OutputsInv
<1>4. CASE CommandReturns
  <2>1. /\ phase = "load" /\ main = "waiting" /\ main' = "free"
        /\ outputs' = Append(outputs, <<output, written>>)
    BY <1>4 DEF CommandReturns, Reap, NoProcess
  <2>2. /\ output \in Outputs[at] /\ output \in Seq(Part) /\ written \in 0..Len(Bytes(output))
        /\ outputs \in Seq(Seq(Part) \X Nat) /\ loaded \in Seq(SUBSET Acceptable)
    BY <2>1 DEF OutputsInv, TypeInv, SessionsTypeOK, ProcessTypeOK
  <2>3. written \in Nat /\ <<output, written>> \in Seq(Part) \X Nat
    BY <2>2, OnTheWay
  <2>4. Len(outputs) = at - 1 /\ Len(outputs) \in Nat /\ at \in Nat
    BY <2>1, <2>2, LenProperties DEF StreamInv, LoadedInv, SessionsInv, CommandsInv
  <2>5. /\ DOMAIN outputs' = 1..at /\ DOMAIN outputs = 1..at - 1
        /\ \A k \in 1..at - 1 : outputs'[k] = outputs[k]
        /\ outputs'[at] = <<output, written>>
    BY <2>1, <2>2, <2>3, <2>4, AppendProperties, LenProperties
  <2>6. ASSUME NEW k \in DOMAIN outputs'
        PROVE  outputs'[k][1] \in Outputs[k] /\ outputs'[k][2] \in 0..Len(Bytes(outputs'[k][1]))
    <3>1. CASE k = at
      BY <2>2, <2>5, <3>1
    <3>2. CASE k # at
      <4>1. k \in DOMAIN outputs /\ outputs'[k] = outputs[k]
        BY <2>4, <2>5, <3>2
      <4> QED
        BY <4>1 DEF OutputsInv
    <3> QED
      BY <3>1, <3>2
  <2> QED
    BY <2>1, <2>6 DEF OutputsInv
<1>5. CASE ManagerStep /\ ~StartCommand /\ ~CommandReturns
  <2>1. UNCHANGED outputs
    BY <1>5, ManagerFrame
  <2>2. phase' = "load" => InitDone
    BY <1>5 DEF ManagerStep, ParseSession, ParseFails, SessionsParsed, NoInitCommand, StartInit,
       InitReturns, InitFails, CommandFails, LoadDone, NoCleanupCommand, StartCleanup,
       CleanupCannotStart, CleanupReturns, CleanupDone, Advance, SkipSession, LoadEnds,
       RemoveTempDir, TryCleanup, managerVars
  <2>3. InitDone => main' = "free"
    <3>1. InitDone => at > Len(sessions) /\ phase = "init" /\ main' = main
      BY DEF InitDone, Advance, processVars, threadVars
    <3> QED
      BY <3>1, SessionsTyped DEF SessionsInv, CommandsInv
  <2> QED
    BY <2>1, <2>2, <2>3 DEF OutputsInv
<1> QED
  BY <1>1, <1>2, <1>3, <1>4, <1>5 DEF SessionsNext, Exited

LEMMA OutputsInvariant == SessionsSpec => []OutputsInv
<1>1. TypeInv /\ SessionsInv /\ StreamInv /\ OutputsInv /\ [SessionsNext]_vars => OutputsInv'
  BY OutputsNext
<1> QED
  BY <1>1, OutputsInit, TypeInvariant, SessionsInvariant, StreamInvariant, PTL DEF SessionsSpec

\* When a load succeeds, each type has exactly the acceptable objects that its
\* command finished writing, and none was cut off: whatever the strings and the
\* nested objects in them look like and wherever the stream was cut, as long as
\* the objects an output is said to have are objects (OutputsAreWellCut)
\* (json_splitter, json_parser_sink, run_process, external_process_get).
THEOREM LoadedWhatWasWritten ==
    ASSUME OutputsAreWellCut
    PROVE  SessionsSpec => []LoadedIsWritten
<1>1. ASSUME TypeInv, StreamInv, OutputsInv, result = "loaded" PROVE LoadedIsWritten
  <2>1. /\ Len(outputs) = Len(loaded) /\ Len(loaded) = Len(types)
        /\ loaded \in Seq(SUBSET Acceptable) /\ outputs \in Seq(Seq(Part) \X Nat)
    BY <1>1 DEF StreamInv, LoadedInv, TypeInv, SessionsTypeOK
  <2>2. ASSUME NEW i \in DOMAIN loaded
        PROVE  /\ loaded[i] = ObjectsWritten(outputs[i][1], outputs[i][2]) \cap Acceptable
               /\ \A k \in DOMAIN outputs[i][1] : outputs[i][1][k].object =>
                     outputs[i][2] \notin (WrittenUpTo(outputs[i][1], k - 1) + 1)
                                              ..(WrittenUpTo(outputs[i][1], k) - 1)
    <3> DEFINE parts == outputs[i][1]
               n == outputs[i][2]
               s == SinkFor(types[i])
    <3>1. i \in 1..Len(types) /\ i \in DOMAIN outputs
      BY <2>1, LenProperties
    <3>2. /\ loaded[i] = SinkWrite(s, SubSeq(Bytes(parts), 1, n)).parser.objects
          /\ HadNoComplaint(SinkWrite(s, SubSeq(Bytes(parts), 1, n)))
      BY <1>1 DEF StreamInv, LoadedInv, InOnePiece
    <3>3. parts \in Outputs[i] /\ n \in 0..Len(Bytes(parts))
      BY <1>1, <3>1 DEF OutputsInv
    <3>4. s \in Sinks /\ parts \in Seq(Part) /\ i \in DOMAIN Outputs
      <4>1. types \in TypeConfigs /\ DOMAIN types = 1..Len(types)
        BY <1>1, TypesTyped, LenProperties DEF TypeInv, SessionsTypeOK
      <4>2. i \in DOMAIN Outputs
        BY <3>1, <4>1, SessionsAssumption
      <4> QED
        BY <1>1, <3>1, <3>3, <4>2, TypesTyped
    <3>5. WellCut(parts)
      BY <3>3, <3>4 DEF OutputsAreWellCut
    <3>6. Idle(s) /\ ~s.splitter.done /\ s.parser.objects = {}
      BY DEF SinkFor, NewSink, NewParser, NewSplitter, Idle, Complains
    <3> HIDE DEF parts, n, s
    <3>7. /\ SinkWrite(s, SubSeq(Bytes(parts), 1, n)).parser.objects =
                ObjectsWritten(parts, n) \cap Acceptable
          /\ \A k \in DOMAIN parts : parts[k].object =>
                n \notin (WrittenUpTo(parts, k - 1) + 1)..(WrittenUpTo(parts, k) - 1)
      BY <3>2, <3>3, <3>4, <3>5, <3>6, SinkMakes
    <3> QED
      BY <3>2, <3>7 DEF parts, n
  <2> QED
    BY <1>1, <2>1, <2>2 DEF LoadedIsWritten
<1>2. TypeInv /\ StreamInv /\ OutputsInv => LoadedIsWritten
  BY <1>1 DEF LoadedIsWritten
<1> QED
  BY <1>2, TypeInvariant, StreamInvariant, OutputsInvariant, PTL
=============================================================================
