---------------------------- MODULE CacheInstances ----------------------------
(***************************************************************************)
(* The cache file when several instances of the client are started on the  *)
(* same configuration: by a timer while a long run is still going on, or   *)
(* by hand beside it.  Each instance reads the cache file, later opens and *)
(* fills the temporary file, sends its requests, writes its new cache over *)
(* the filling, and renames the temporary file to the cache file           *)
(* (rendered_cache_file.cpp).  Reading and renaming are done under an      *)
(* advisory lock on a named mutex that gives up after 30 seconds           *)
(* (advisory_file_lock.cpp).  An instance may be killed anywhere.          *)
(*                                                                         *)
(* All instances share the name of the temporary file.  A file that is     *)
(* open keeps its contents when its name is renamed, so files are apart    *)
(* from their names here, as they are in the file system.                  *)
(***************************************************************************)
EXTENDS Naturals, Sequences, FiniteSets

CONSTANTS
    Instance,        \* the instances that are started, each once
    Earlier,         \* a run before all of them, whose cache file they find
    Nobody,          \* no holder, no mutex, no file
    Padding, Hole,   \* blocks that hold no part of a cache
    Blocks,          \* blocks reserved for a new cache (cache_size_upper_limit)
    Size,            \* [Instance -> 1..Blocks], the blocks its new cache takes
    RENAME_RETRIES,  \* attempts to rename
    Faults,          \* the kinds of failure that may happen
    MaxFaults        \* bound: how many

FaultKinds == {"killed", "mutex_error", "rename_refused", "disk"}

ASSUME InstancesAssumption ==
    /\ Instance # {} /\ Earlier \notin Instance
    /\ {Nobody, Padding, Hole} \cap (Instance \cup {Earlier}) = {}
    /\ Blocks \in Nat \ {0}
    /\ Size \in [Instance -> 1..Blocks]
    /\ RENAME_RETRIES \in Nat \ {0}
    /\ Faults \subseteq FaultKinds
    /\ MaxFaults \in Nat

\* A file is called after the instance that created it, and so is a mutex, of
\* which an instance can create two: one to read under and one to rename under.
Inode == Instance \cup {Earlier}
Mutex == Instance \X {"lock_read", "lock_rename"}
Block == Inode \cup {Padding, Hole}

VARIABLES
    pc,              \* how far each instance has come
    contents,        \* [Inode -> the blocks of the file]
    cacheFile,       \* the file the cache file's name leads to
    tempFile,        \* the file the temporary file's name leads to, or Nobody
    ofs,             \* [Instance -> the file its output stream writes to]
    mutexName,       \* the mutex the lock's name leads to, or Nobody
    holder,          \* [Mutex -> who holds it, or Nobody]
    m_pmtx,          \* [Instance -> the mutex it waits for or holds, or Nobody]
    tries,           \* [Instance -> renames tried]
    faults,          \* how many failures have happened (bounds the model)
    \* History variables, read by the properties only.
    abandoned,       \* mutexes that somebody has stopped waiting for
    overlap          \* two instances have had a new cache file under way at once

fileVars == <<contents, cacheFile, tempFile, ofs>>
lockVars == <<mutexName, holder, m_pmtx, abandoned>>
vars == <<pc, fileVars, lockVars, tries, faults, overlap>>

Ended == {"done", "failed", "killed"}

InstancesTypeOK ==
    /\ pc \in [Instance -> {"lock_read", "read", "begin", "save", "close", "resize",
                            "lock_rename", "rename", "sleep"} \cup Ended]
    /\ contents \in [Inode -> Seq(Block)]
    /\ \A f \in Inode : Len(contents[f]) <= Blocks
    /\ cacheFile \in Inode
    /\ tempFile \in Inode \cup {Nobody}
    /\ ofs \in [Instance -> Inode \cup {Nobody}]
    /\ mutexName \in Mutex \cup {Nobody}
    /\ holder \in [Mutex -> Instance \cup {Nobody}]
    /\ m_pmtx \in [Instance -> Mutex \cup {Nobody}]
    /\ tries \in [Instance -> 0..RENAME_RETRIES]
    /\ faults \in 0..MaxFaults
    /\ abandoned \subseteq Mutex
    /\ overlap \in BOOLEAN

InstancesInit ==
    /\ pc = [i \in Instance |-> "lock_read"]
    /\ contents = [f \in Inode |-> IF f = Earlier THEN <<Earlier>> ELSE <<>>]
    /\ cacheFile = Earlier
    /\ tempFile = Nobody
    /\ ofs = [i \in Instance |-> Nobody]
    /\ mutexName = Nobody
    /\ holder = [m \in Mutex |-> Nobody]
    /\ m_pmtx = [i \in Instance |-> Nobody]
    /\ tries = [i \in Instance |-> 0]
    /\ faults = 0
    /\ abandoned = {}
    /\ overlap = FALSE

Fault(kind) == kind \in Faults /\ faults < MaxFaults /\ faults' = faults + 1

GoTo(i, place) == pc' = [pc EXCEPT ![i] = place]

-----------------------------------------------------------------------------
\* AdvisoryFileLock.

Locking(i) == pc[i] \in {"lock_read", "lock_rename"}
Locked(i) == GoTo(i, IF pc[i] = "lock_read" THEN "read" ELSE "rename")

lockFrame == <<fileVars, tries, overlap>>

\* Mutated form: every instance makes a mutex of its own.
OpenMutex_Private(i) ==
    /\ Locking(i)
    /\ m_pmtx[i] = Nobody
    /\ mutexName' = <<i, pc[i]>>
    /\ m_pmtx' = [m_pmtx EXCEPT ![i] = <<i, pc[i]>>]
    /\ UNCHANGED <<pc, holder, abandoned, faults, lockFrame>>

\* open_or_create: the mutex the name leads to, or a new one.
OpenMutex(i) ==
    LET m == IF mutexName = Nobody THEN <<i, pc[i]>> ELSE mutexName
    IN  /\ Locking(i)
        /\ m_pmtx[i] = Nobody
        /\ mutexName' = m
        /\ m_pmtx' = [m_pmtx EXCEPT ![i] = m]
        /\ UNCHANGED <<pc, holder, abandoned, faults, lockFrame>>

\* timed_lock returns true.
LockMutex(i) ==
    /\ Locking(i)
    /\ m_pmtx[i] # Nobody
    /\ holder[m_pmtx[i]] = Nobody
    /\ holder' = [holder EXCEPT ![m_pmtx[i]] = i]
    /\ Locked(i)
    /\ UNCHANGED <<mutexName, m_pmtx, abandoned, faults, lockFrame>>

\* 30 seconds are more than it takes to read or to rename, so only two kinds of
\* holder are waited for so long: one that was killed, and one that sleeps
\* between its renames (10 to 40 seconds each time).
HeldForLong(m) == holder[m] # Nobody /\ pc[holder[m]] \in {"killed", "sleep"}

\* Mutated form: the wait has no time limit.
GiveUp_Never(i) == FALSE /\ UNCHANGED vars

\* timed_lock returns false: the waiter goes on as if it had the mutex, and
\* removes whichever mutex the name leads to by now.
GiveUp(i) ==
    /\ Locking(i)
    /\ m_pmtx[i] # Nobody
    /\ HeldForLong(m_pmtx[i])
    /\ abandoned' = abandoned \cup {m_pmtx[i]}
    /\ mutexName' = Nobody
    /\ m_pmtx' = [m_pmtx EXCEPT ![i] = Nobody]
    /\ Locked(i)
    /\ UNCHANGED <<holder, faults, lockFrame>>

\* Creating or locking the mutex throws: the instance goes on without.
MutexFails(i) ==
    /\ Locking(i)
    /\ Fault("mutex_error")
    /\ m_pmtx' = [m_pmtx EXCEPT ![i] = Nobody]
    /\ Locked(i)
    /\ UNCHANGED <<mutexName, holder, abandoned, lockFrame>>

\* The destructor.
Unlock(i) ==
    /\ holder' = IF m_pmtx[i] = Nobody THEN holder ELSE [holder EXCEPT ![m_pmtx[i]] = Nobody]
    /\ m_pmtx' = [m_pmtx EXCEPT ![i] = Nobody]
    /\ UNCHANGED <<mutexName, abandoned>>

-----------------------------------------------------------------------------
\* What is in a file.

SizeOf(who) == IF who = Earlier THEN 1 ELSE Size[who]

\* The file starts with all that who wrote; what may come after is not read.
WholeOf(who, blocks) ==
    /\ SizeOf(who) <= Len(blocks)
    /\ \A n \in 1..SizeOf(who) : blocks[n] = who

IsWhole(blocks) == \E who \in Inode : WholeOf(who, blocks)

\* The first block written, over what is there.
WriteFirst(blocks, who) == IF blocks = <<>> THEN <<who>> ELSE [blocks EXCEPT ![1] = who]

\* The file cut to a size, or made longer, which reads as zeros.
Resized(blocks, size) == [k \in 1..size |-> IF k <= Len(blocks) THEN blocks[k] ELSE Hole]

\* get_contents can come to a list.  Without the magic number the file is taken
\* for one of the old format, which reads as empty here; blocks of two writers
\* may happen to read.
CanRead(blocks) ==
    /\ blocks # <<>>
    /\ blocks[1] \in Inode => SizeOf(blocks[1]) <= Len(blocks)

\* get_contents can throw: at the end of the file, or at lengths that make no
\* sense.
CanThrow(blocks) == blocks = <<>> \/ (blocks[1] \in Inode /\ ~IsWhole(blocks))

-----------------------------------------------------------------------------
\* One instance, from reading the cache file to replacing it.

\* A list is read, or the cache cannot be read and run_main exits.
get_contents(i) ==
    /\ pc[i] = "read"
    /\ \/ CanRead(contents[cacheFile]) /\ GoTo(i, "begin")
       \/ CanThrow(contents[cacheFile]) /\ GoTo(i, "failed")
    /\ Unlock(i)
    /\ UNCHANGED <<fileVars, tries, faults, overlap>>

\* A new cache file is under way.
Saving(i) == pc[i] \in {"save", "close", "resize", "lock_rename", "rename", "sleep"}

\* Mutated form: the new cache is written over the cache file itself.
OpenTempFile_InPlace(i) ==
    /\ ofs' = [ofs EXCEPT ![i] = cacheFile]
    /\ contents' = [contents EXCEPT ![cacheFile] = [n \in 1..Blocks |-> Padding]]
    /\ UNCHANGED tempFile

\* The temporary file is opened, which empties the one that is there or makes
\* a new one, and filled.
OpenTempFile(i) ==
    LET f == IF tempFile = Nobody THEN i ELSE tempFile
    IN  /\ tempFile' = f
        /\ ofs' = [ofs EXCEPT ![i] = f]
        /\ contents' = [contents EXCEPT ![f] = [n \in 1..Blocks |-> Padding]]

begin_rendered_cache_file(i) ==
    /\ pc[i] = "begin"
    /\ OpenTempFile(i)
    /\ GoTo(i, "save")
    /\ overlap' = (overlap \/ \E j \in Instance : Saving(j))
    /\ UNCHANGED <<cacheFile, lockVars, tries, faults>>

\* The disk is full before the file is filled: nothing is sent.
PreallocationFails(i) ==
    /\ pc[i] = "begin"
    /\ Fault("disk")
    /\ OpenTempFile(i)
    /\ GoTo(i, "failed")
    /\ overlap' = (overlap \/ \E j \in Instance : Saving(j))
    /\ UNCHANGED <<cacheFile, lockVars, tries>>

\* After the requests, save writes from the start of the file; the stream passes
\* a block on when it is full, and the last when it is closed.
SaveFirst(i) ==
    /\ pc[i] = "save"
    /\ contents' = [contents EXCEPT ![ofs[i]] = WriteFirst(@, i)]
    /\ GoTo(i, IF Size[i] = 1 THEN "resize" ELSE "close")
    /\ UNCHANGED <<cacheFile, tempFile, ofs, lockVars, tries, faults, overlap>>

SaveRest(i) ==
    /\ pc[i] = "close"
    /\ contents' = [contents EXCEPT ![ofs[i]] =
                       [n \in 1..(IF Size[i] > Len(@) THEN Size[i] ELSE Len(@)) |->
                           IF n \in 2..Size[i] THEN i ELSE IF n <= Len(@) THEN @[n] ELSE Hole]]
    /\ GoTo(i, "resize")
    /\ UNCHANGED <<cacheFile, tempFile, ofs, lockVars, tries, faults, overlap>>

SaveFails(i) ==
    /\ pc[i] \in {"save", "close"}
    /\ Fault("disk")
    /\ GoTo(i, "failed")
    /\ UNCHANGED <<fileVars, lockVars, tries, overlap>>

\* The file that now has the temporary file's name is cut to the size of what
\* was written; an error is ignored.
ResizeFile(i) ==
    /\ pc[i] = "resize"
    /\ contents' = IF tempFile = Nobody THEN contents
                   ELSE [contents EXCEPT ![tempFile] = Resized(@, Size[i])]
    /\ GoTo(i, "lock_rename")
    /\ UNCHANGED <<cacheFile, tempFile, ofs, lockVars, tries, faults, overlap>>

\* At once, or after a sleep: whatever file has the temporary file's name
\* becomes the cache file.
Rename(i) ==
    /\ pc[i] \in {"rename", "sleep"}
    /\ tempFile # Nobody
    /\ cacheFile' = tempFile
    /\ tempFile' = Nobody
    /\ GoTo(i, "done")
    /\ Unlock(i)
    /\ UNCHANGED <<contents, ofs, tries, faults, overlap>>

\* Mutated form: one attempt too many.
RenameFails_OnceMore(i) ==
    /\ pc[i] \in {"rename", "sleep"}
    /\ \/ tempFile = Nobody /\ UNCHANGED faults
       \/ Fault("rename_refused")
    /\ tries' = [tries EXCEPT ![i] = @ + 1]
    /\ IF tries[i] >= RENAME_RETRIES
       THEN GoTo(i, "failed") /\ Unlock(i)
       ELSE GoTo(i, "sleep") /\ UNCHANGED lockVars
    /\ UNCHANGED <<fileVars, overlap>>

\* There is no such file, or the system refuses (another program has the cache
\* file open): sleep and try again, a few times.
RenameFails(i) ==
    /\ pc[i] \in {"rename", "sleep"}
    /\ \/ tempFile = Nobody /\ UNCHANGED faults
       \/ Fault("rename_refused")
    /\ tries' = [tries EXCEPT ![i] = @ + 1]
    /\ IF tries[i] + 1 >= RENAME_RETRIES
       THEN GoTo(i, "failed") /\ Unlock(i)
       ELSE GoTo(i, "sleep") /\ UNCHANGED lockVars
    /\ UNCHANGED <<fileVars, overlap>>

\* Killed, with the mutex left as it is.
Killed(i) ==
    /\ pc[i] \notin Ended
    /\ Fault("killed")
    /\ GoTo(i, "killed")
    /\ UNCHANGED <<fileVars, lockVars, tries, overlap>>

-----------------------------------------------------------------------------

InstanceStep(i) ==
    \/ OpenMutex(i)
    \/ LockMutex(i)
    \/ GiveUp(i)
    \/ get_contents(i)
    \/ begin_rendered_cache_file(i)
    \/ SaveFirst(i)
    \/ SaveRest(i)
    \/ ResizeFile(i)
    \/ Rename(i)
    \/ RenameFails(i)

InstanceFails(i) ==
    \/ MutexFails(i)
    \/ PreallocationFails(i)
    \/ SaveFails(i)
    \/ Killed(i)

InstancesNext == \E i \in Instance : InstanceStep(i) \/ InstanceFails(i)

\* Every instance goes on: it waits for nothing but a mutex with a time limit
\* and its own sleep.  A mutex that is let go of again and again can still be
\* taken by others each time; the instances are finitely many.
InstancesSpec == InstancesInit /\ [][InstancesNext]_vars
FairInstancesSpec == InstancesSpec /\ \A i \in Instance : WF_vars(InstanceStep(i))

-----------------------------------------------------------------------------
\* Properties.

\* What the cache file's name leads to is all that one run wrote, at every
\* moment and so also when the next instance reads it: "under normal
\* circumstances this will block multiple instances of EgilSCIMClient from
\* accessing the file at once" (advisory_file_lock.hpp).
FileIsWhole == IsWhole(contents[cacheFile])

\* The same as long as no two new cache files are under way at once: then
\* neither a kill at any place, nor a full disk, nor a lock that fails, leaves a
\* cache file that is half of one run (the rename in
\* finalize_rendered_cache_file comes after everything is written).
WholeUnlessOverlap == ~overlap => FileIsWhole

\* An instance is where the lock should keep others out.
InSection(i) == pc[i] \in {"read", "rename", "sleep"}

\* Two instances are in there together only when somebody has stopped waiting
\* for one of them, or when the mutex itself has failed: the lock is removed from
\* under a holder only by a waiter that gave up (AdvisoryFileLock).
LockExcludes ==
    \A i, j \in Instance :
        i # j /\ InSection(i) /\ InSection(j) => abandoned # {} \/ faults > 0

\* The inductive invariants behind these, in named parts.

RetriesLeft == \A i \in Instance : pc[i] \notin Ended => tries[i] < RENAME_RETRIES

\* As long as no waiter has given up and nothing has failed there is one mutex,
\* and who is in there holds it.
LockInv ==
    abandoned = {} /\ faults = 0 =>
        \A i \in Instance :
            /\ m_pmtx[i] # Nobody => m_pmtx[i] = mutexName
            /\ InSection(i) => m_pmtx[i] # Nobody /\ holder[m_pmtx[i]] = i

\* The cache file and the temporary file are never one and the same, and a file
\* is not there before the instance it is called after makes it.
FilesApart ==
    /\ cacheFile # tempFile
    /\ \A i \in Instance :
           pc[i] \in {"lock_read", "read", "begin"} => cacheFile # i /\ tempFile # i

\* How much of its new cache an instance has written, when no other writes one.
Written(i) ==
    LET blocks == contents[tempFile]
    IN  /\ pc[i] = "save" => Len(blocks) = Blocks
        /\ pc[i] = "close" => Len(blocks) = Blocks /\ blocks[1] = i
        /\ pc[i] \in {"resize", "lock_rename", "rename", "sleep"} => WholeOf(i, blocks)

SaveInv ==
    ~overlap =>
        /\ FileIsWhole
        /\ \A i, j \in Instance : Saving(i) /\ Saving(j) => i = j
        /\ \A i \in Instance :
               Saving(i) => tempFile # Nobody /\ ofs[i] = tempFile /\ Written(i)

InstancesInv == RetriesLeft /\ LockInv /\ FilesApart /\ SaveInv

\* However the others fare, every instance comes to an end: it does not wait for
\* ever for a mutex whose holder was killed.
InstancesEnd == \A i \in Instance : <>(pc[i] \in Ended)
=============================================================================
