------------------------- MODULE CacheInstancesProofs -------------------------
(***************************************************************************)
(* For any number of instances, started whenever, any sizes of their new   *)
(* caches and any number of failures: the cache file is whole unless two   *)
(* new cache files were under way at once, and the lock keeps instances    *)
(* apart until somebody gives up waiting or the mutex fails.               *)
(***************************************************************************)
EXTENDS CacheInstances, SequenceTheorems, TLAPS

-----------------------------------------------------------------------------
\* Blocks.

LEMMA BlocksOf ==
    ASSUME NEW n \in Nat, NEW blocks \in [1..n -> Block]
    PROVE  blocks \in Seq(Block) /\ Len(blocks) = n
<1>1. blocks \in Seq(Block)
  BY SeqDef
<1>2. 1..Len(blocks) = 1..n /\ Len(blocks) \in Nat
  BY <1>1, LenProperties
<1> QED
  BY <1>1, <1>2

LEMMA FilledFile ==
    /\ [n \in 1..Blocks |-> Padding] \in Seq(Block)
    /\ Len([n \in 1..Blocks |-> Padding]) = Blocks
BY BlocksOf, InstancesAssumption DEF Block

LEMMA FirstWritten ==
    ASSUME NEW blocks \in Seq(Block), Len(blocks) <= Blocks, NEW i \in Instance
    PROVE  /\ WriteFirst(blocks, i) \in Seq(Block)
           /\ Len(WriteFirst(blocks, i)) <= Blocks
           /\ Len(blocks) = Blocks => Len(WriteFirst(blocks, i)) = Blocks
           /\ WriteFirst(blocks, i)[1] = i
<1>1. i \in Block
  BY DEF Block, Inode
<1>2. CASE blocks = <<>>
  BY <1>1, <1>2, InstancesAssumption DEF WriteFirst
<1>3. CASE blocks # <<>>
  <2>1. 1 \in 1..Len(blocks)
    BY <1>3, EmptySeq
  <2> QED
    BY <1>1, <1>3, <2>1, ExceptSeq DEF WriteFirst
<1> QED
  BY <1>2, <1>3

\* What SaveRest makes of a file's blocks.
AllWritten(blocks, i) ==
    [n \in 1..(IF Size[i] > Len(blocks) THEN Size[i] ELSE Len(blocks)) |->
        IF n \in 2..Size[i] THEN i ELSE IF n <= Len(blocks) THEN blocks[n] ELSE Hole]

LEMMA RestWritten ==
    ASSUME NEW blocks \in Seq(Block), Len(blocks) <= Blocks, NEW i \in Instance
    PROVE  /\ AllWritten(blocks, i) \in Seq(Block)
           /\ Len(AllWritten(blocks, i)) <= Blocks
           /\ Len(blocks) = Blocks /\ blocks[1] = i => WholeOf(i, AllWritten(blocks, i))
<1> DEFINE size == IF Size[i] > Len(blocks) THEN Size[i] ELSE Len(blocks)
<1>1. /\ size \in Nat /\ size <= Blocks /\ Size[i] \in 1..Blocks /\ Size[i] <= size
      /\ Len(blocks) \in Nat /\ SizeOf(i) = Size[i]
  BY InstancesAssumption, LenProperties DEF SizeOf
<1>2. AllWritten(blocks, i) \in [1..size -> Block]
  <2>1. \A n \in 1..Len(blocks) : blocks[n] \in Block
    BY ElementOfSeq
  <2> QED
    BY <1>1, <2>1 DEF AllWritten, Block, Inode
<1>3. Len(AllWritten(blocks, i)) = size /\ AllWritten(blocks, i) \in Seq(Block)
  BY <1>1, <1>2, BlocksOf
<1>4. ASSUME Len(blocks) = Blocks, blocks[1] = i, NEW n \in 1..SizeOf(i)
      PROVE  AllWritten(blocks, i)[n] = i
  BY <1>1, <1>4 DEF AllWritten
<1> QED
  BY <1>1, <1>3, <1>4 DEF WholeOf

LEMMA ResizedFile ==
    ASSUME NEW blocks \in Seq(Block), NEW i \in Instance
    PROVE  /\ Resized(blocks, Size[i]) \in Seq(Block)
           /\ Len(Resized(blocks, Size[i])) <= Blocks
           /\ WholeOf(i, blocks) => WholeOf(i, Resized(blocks, Size[i]))
<1>1. Size[i] \in 1..Blocks /\ SizeOf(i) = Size[i] /\ Size[i] \in Nat /\ Blocks \in Nat
  BY InstancesAssumption DEF SizeOf
<1>2. Resized(blocks, Size[i]) \in [1..Size[i] -> Block]
  <2>1. Len(blocks) \in Nat /\ \A n \in 1..Len(blocks) : blocks[n] \in Block
    BY ElementOfSeq, LenProperties
  <2> QED
    BY <1>1, <2>1 DEF Resized, Block
<1>3. Len(Resized(blocks, Size[i])) = Size[i] /\ Resized(blocks, Size[i]) \in Seq(Block)
  BY <1>1, <1>2, BlocksOf
<1>4. WholeOf(i, blocks) => \A n \in 1..SizeOf(i) : Resized(blocks, Size[i])[n] = i
  BY <1>1 DEF WholeOf, Resized
<1> QED
  BY <1>1, <1>3, <1>4 DEF WholeOf

-----------------------------------------------------------------------------
\* Types, and that no instance runs out of renames before it ends.

TypeInv == InstancesTypeOK /\ RetriesLeft

ContentsTyped ==
    /\ contents \in [Inode -> Seq(Block)]
    /\ \A f \in Inode : Len(contents[f]) <= Blocks

LEMMA OneFileChanged ==
    ASSUME ContentsTyped, NEW f, NEW blocks, contents' = [contents EXCEPT ![f] = blocks],
           f \in Inode => blocks \in Seq(Block) /\ Len(blocks) <= Blocks
    PROVE  ContentsTyped'
BY DEF ContentsTyped

LEMMA InstancesTypeInit == InstancesInit => TypeInv
<1> SUFFICES ASSUME InstancesInit PROVE TypeInv
  OBVIOUS
<1>1. ContentsTyped
  <2>1. <<Earlier>> \in Seq(Block) /\ Len(<<Earlier>>) = 1
    BY DEF Block, Inode
  <2>2. <<>> \in Seq(Block) /\ Len(<<>>) = 0
    BY EmptySeq
  <2>3. 0 <= Blocks /\ 1 <= Blocks
    BY InstancesAssumption
  <2> QED
    BY <2>1, <2>2, <2>3 DEF InstancesInit, ContentsTyped
<1>2. RetriesLeft /\ tries \in [Instance -> 0..RENAME_RETRIES] /\ faults \in 0..MaxFaults
  BY InstancesAssumption DEF InstancesInit, RetriesLeft
<1> QED
  BY <1>1, <1>2 DEF InstancesInit, TypeInv, InstancesTypeOK, ContentsTyped, Inode

\* Steps that go on in the file system.
LEMMA FileStepTypes ==
    ASSUME TypeInv, NEW i \in Instance,
           \/ begin_rendered_cache_file(i) \/ PreallocationFails(i) \/ SaveFirst(i)
           \/ SaveRest(i) \/ ResizeFile(i)
    PROVE  ContentsTyped' /\ tempFile' \in Inode \cup {Nobody}
           /\ ofs' \in [Instance -> Inode \cup {Nobody}] /\ overlap' \in BOOLEAN
<1> USE DEF TypeInv, InstancesTypeOK
<1>1. ContentsTyped /\ i \in Inode
  BY DEF ContentsTyped, Inode
<1>2. overlap' \in BOOLEAN
  <2>1. overlap' = overlap \/ overlap' = (overlap \/ \E j \in Instance : Saving(j))
    BY DEF begin_rendered_cache_file, PreallocationFails, SaveFirst, SaveRest, ResizeFile
  <2> QED
    BY <2>1
<1>3. CASE begin_rendered_cache_file(i) \/ PreallocationFails(i)
  <2>1. PICK f \in Inode :
           /\ tempFile' = f /\ ofs' = [ofs EXCEPT ![i] = f]
           /\ contents' = [contents EXCEPT ![f] = [n \in 1..Blocks |-> Padding]]
    BY <1>1, <1>3 DEF begin_rendered_cache_file, PreallocationFails, OpenTempFile
  <2>2. Blocks <= Blocks
    BY InstancesAssumption
  <2>3. ContentsTyped'
    BY <1>1, <2>1, <2>2, OneFileChanged, FilledFile
  <2> QED
    BY <1>2, <2>1, <2>3
<1>4. CASE SaveFirst(i)
  <2>1. contents' = [contents EXCEPT ![ofs[i]] = WriteFirst(contents[ofs[i]], i)]
    BY <1>4 DEF SaveFirst
  <2> QED
    BY <1>1, <1>2, <1>4, <2>1, OneFileChanged, FirstWritten DEF SaveFirst
<1>5. CASE SaveRest(i)
  <2>1. contents' = [contents EXCEPT ![ofs[i]] = AllWritten(contents[ofs[i]], i)]
    BY <1>5 DEF SaveRest, AllWritten
  <2> QED
    BY <1>1, <1>2, <1>5, <2>1, OneFileChanged, RestWritten DEF SaveRest
<1>6. CASE ResizeFile(i)
  <2>1. CASE tempFile = Nobody
    BY <1>1, <1>2, <1>6, <2>1 DEF ResizeFile, ContentsTyped
  <2>2. CASE tempFile # Nobody
    <3>1. contents' = [contents EXCEPT ![tempFile] = Resized(contents[tempFile], Size[i])]
      BY <1>6, <2>2 DEF ResizeFile
    <3> QED
      BY <1>1, <1>2, <1>6, <3>1, OneFileChanged, ResizedFile DEF ResizeFile
  <2> QED
    BY <2>1, <2>2
<1> QED
  BY <1>3, <1>4, <1>5, <1>6

\* What a step leaves alone, and where it takes its instance.
LEMMA FileStepFrame ==
    ASSUME TypeInv, NEW i \in Instance,
           \/ begin_rendered_cache_file(i) \/ PreallocationFails(i) \/ SaveFirst(i)
           \/ SaveRest(i) \/ ResizeFile(i)
    PROVE  /\ UNCHANGED <<cacheFile, lockVars, tries>>
           /\ pc[i] \in {"begin", "save", "close", "resize"}
           /\ \E place \in {"save", "failed", "close", "resize", "lock_rename"} : GoTo(i, place)
           /\ faults' = faults \/ (faults' = faults + 1 /\ faults < MaxFaults)
BY DEF begin_rendered_cache_file, PreallocationFails, SaveFirst, SaveRest, ResizeFile, Fault, GoTo

LEMMA InstancesTypeNext ==
    ASSUME TypeInv, [InstancesNext]_vars
    PROVE  TypeInv'
<1> USE InstancesAssumption DEF TypeInv, InstancesTypeOK, RetriesLeft, Ended
<1>1. CASE UNCHANGED vars
  BY <1>1 DEF vars, fileVars, lockVars
<1>2. ASSUME NEW i \in Instance, InstanceStep(i) \/ InstanceFails(i)
      PROVE  TypeInv'
  <2>1. CASE \/ begin_rendered_cache_file(i) \/ PreallocationFails(i) \/ SaveFirst(i)
             \/ SaveRest(i) \/ ResizeFile(i)
    <3>1. /\ ContentsTyped' /\ tempFile' \in Inode \cup {Nobody}
          /\ ofs' \in [Instance -> Inode \cup {Nobody}] /\ overlap' \in BOOLEAN
      BY <2>1, FileStepTypes
    <3>2. /\ UNCHANGED <<cacheFile, lockVars, tries>>
          /\ pc[i] \in {"begin", "save", "close", "resize"}
          /\ \E place \in {"save", "failed", "close", "resize", "lock_rename"} : GoTo(i, place)
          /\ faults' = faults \/ (faults' = faults + 1 /\ faults < MaxFaults)
      BY <2>1, FileStepFrame
    <3>3. /\ pc' \in [Instance -> {"lock_read", "read", "begin", "save", "close", "resize",
                                    "lock_rename", "rename", "sleep"} \cup Ended]
          /\ \A j \in Instance : pc'[j] \notin Ended => pc[j] \notin Ended
      BY <3>2 DEF GoTo
    <3>4. faults' \in 0..MaxFaults
      BY <3>2
    <3>5. RetriesLeft'
      BY <3>2, <3>3
    <3> QED
      BY <3>1, <3>2, <3>3, <3>4, <3>5 DEF ContentsTyped, lockVars
  <2>2. CASE OpenMutex(i)
    BY <2>2 DEF OpenMutex, lockFrame, fileVars, Locking, Mutex
  <2>3. CASE LockMutex(i)
    BY <2>3 DEF LockMutex, lockFrame, fileVars, Locking, Locked, GoTo
  <2>4. CASE GiveUp(i)
    BY <2>4 DEF GiveUp, lockFrame, fileVars, Locking, Locked, GoTo
  <2>5. CASE MutexFails(i)
    BY <2>5 DEF MutexFails, Fault, lockFrame, fileVars, Locking, Locked, GoTo
  <2>6. CASE get_contents(i)
    BY <2>6 DEF get_contents, Unlock, fileVars, GoTo
  <2>7. CASE Rename(i)
    <3>1. /\ holder' \in [Mutex -> Instance \cup {Nobody}]
          /\ m_pmtx' \in [Instance -> Mutex \cup {Nobody}]
      BY <2>7 DEF Rename, Unlock
    <3> QED
      BY <2>7, <3>1 DEF Rename, Unlock, GoTo
  <2>8. CASE RenameFails(i)
    <3>1. /\ pc[i] \notin Ended /\ UNCHANGED <<fileVars, overlap>>
          /\ tries' = [tries EXCEPT ![i] = tries[i] + 1]
          /\ faults' = faults \/ (faults' = faults + 1 /\ faults < MaxFaults)
          /\ \/ tries[i] + 1 >= RENAME_RETRIES /\ GoTo(i, "failed") /\ Unlock(i)
             \/ tries[i] + 1 < RENAME_RETRIES /\ GoTo(i, "sleep") /\ UNCHANGED lockVars
      BY <2>8 DEF RenameFails, Fault
    <3>2. tries[i] \in Nat /\ tries[i] < RENAME_RETRIES
      BY <3>1
    <3>3. tries' \in [Instance -> 0..RENAME_RETRIES] /\ RetriesLeft' /\ faults' \in 0..MaxFaults
      BY <3>1, <3>2 DEF GoTo
    <3>4. /\ holder' \in [Mutex -> Instance \cup {Nobody}]
          /\ m_pmtx' \in [Instance -> Mutex \cup {Nobody}]
      BY <3>1 DEF Unlock, lockVars
    <3>5. pc' \in [Instance -> {"lock_read", "read", "begin", "save", "close", "resize",
                               "lock_rename", "rename", "sleep"} \cup Ended]
      BY <3>1 DEF GoTo
    <3> QED
      BY <3>1, <3>3, <3>4, <3>5 DEF Unlock, lockVars, fileVars
  <2>9. CASE SaveFails(i) \/ Killed(i)
    <3>1. /\ UNCHANGED <<fileVars, lockVars, tries, overlap>> /\ pc[i] \notin Ended
          /\ GoTo(i, "failed") \/ GoTo(i, "killed")
          /\ faults' = faults + 1 /\ faults < MaxFaults
      BY <2>9 DEF SaveFails, Killed, Fault
    <3>2. /\ pc' \in [Instance -> {"lock_read", "read", "begin", "save", "close", "resize",
                                    "lock_rename", "rename", "sleep"} \cup Ended]
          /\ \A j \in Instance : pc'[j] \notin Ended => pc[j] \notin Ended
      BY <3>1 DEF GoTo
    <3> QED
      BY <3>1, <3>2 DEF lockVars, fileVars
  <2> QED
    BY <1>2, <2>1, <2>2, <2>3, <2>4, <2>5, <2>6, <2>7, <2>8, <2>9 DEF InstanceStep, InstanceFails
<1> QED
  BY <1>1, <1>2 DEF InstancesNext

-----------------------------------------------------------------------------
\* The lock.

LEMMA LockInit == InstancesInit => LockInv
BY DEF InstancesInit, LockInv, InSection

\* A step that leaves the mutex alone and takes nobody in, or fails.
LEMMA LockFrame ==
    ASSUME TypeInv, LockInv, UNCHANGED <<mutexName, holder, m_pmtx, abandoned>>,
           faults' = faults \/ faults' = faults + 1,
           \A i \in Instance : InSection(i)' => InSection(i)
    PROVE  LockInv'
<1>1. faults' = 0 => faults = 0
  BY DEF TypeInv, InstancesTypeOK
<1> QED
  BY <1>1 DEF LockInv

LEMMA LockNext ==
    ASSUME TypeInv, LockInv, [InstancesNext]_vars
    PROVE  LockInv'
<1> USE DEF TypeInv, InstancesTypeOK
<1>1. CASE UNCHANGED vars
  BY <1>1, LockFrame DEF vars, lockVars, InSection
<1>2. ASSUME NEW i \in Instance, InstanceStep(i) \/ InstanceFails(i)
      PROVE  LockInv'
  <2>1. CASE \/ begin_rendered_cache_file(i) \/ PreallocationFails(i) \/ SaveFirst(i)
             \/ SaveRest(i) \/ ResizeFile(i)
    BY <2>1, FileStepFrame, LockFrame DEF lockVars, GoTo, InSection
  <2>2. CASE OpenMutex(i)
    <3>1. /\ m_pmtx[i] = Nobody /\ Locking(i)
          /\ mutexName' = IF mutexName = Nobody THEN <<i, pc[i]>> ELSE mutexName
          /\ m_pmtx' = [m_pmtx EXCEPT ![i] = mutexName']
          /\ UNCHANGED <<pc, holder, abandoned, faults>>
      BY <2>2 DEF OpenMutex
    <3>2. ~InSection(i)
      BY <3>1 DEF InSection, Locking
    <3> QED
      BY <3>1, <3>2 DEF LockInv, InSection
  <2>3. CASE LockMutex(i)
    <3>1. /\ m_pmtx[i] # Nobody /\ holder[m_pmtx[i]] = Nobody
          /\ holder' = [holder EXCEPT ![m_pmtx[i]] = i]
          /\ UNCHANGED <<mutexName, m_pmtx, abandoned, faults>>
          /\ \A j \in Instance : j # i => pc'[j] = pc[j]
      BY <2>3 DEF LockMutex, Locked, GoTo
    <3> SUFFICES ASSUME abandoned = {}, faults = 0, NEW j \in Instance
                 PROVE  /\ m_pmtx[j] # Nobody => m_pmtx[j] = mutexName
                        /\ InSection(j)' => m_pmtx[j] # Nobody /\ holder'[m_pmtx[j]] = j
      BY <3>1 DEF LockInv
    <3>2. CASE j = i
      BY <3>1, <3>2 DEF LockInv
    <3>3. CASE j # i
      <4>1. InSection(j)' => m_pmtx[j] # Nobody /\ holder[m_pmtx[j]] = j
        BY <3>1, <3>3 DEF LockInv, InSection
      <4>2. j # Nobody
        BY InstancesAssumption
      <4> QED
        BY <3>1, <3>3, <4>1, <4>2 DEF LockInv
    <3> QED
      BY <3>2, <3>3
  <2>4. CASE GiveUp(i)
    BY <2>4 DEF GiveUp, LockInv
  <2>5. CASE MutexFails(i) \/ SaveFails(i) \/ Killed(i)
    <3>1. faults' # 0
      BY <2>5 DEF MutexFails, SaveFails, Killed, Fault
    <3> QED
      BY <3>1 DEF LockInv
  <2>6. ASSUME InSection(i), ~InSection(i)', Unlock(i), faults' = faults \/ faults' = faults + 1,
               \A j \in Instance : j # i => pc'[j] = pc[j]
        PROVE  LockInv'
    <3> SUFFICES ASSUME abandoned = {}, faults = 0, NEW j \in Instance
                 PROVE  /\ m_pmtx'[j] # Nobody => m_pmtx'[j] = mutexName
                        /\ InSection(j)' => m_pmtx'[j] # Nobody /\ holder'[m_pmtx'[j]] = j
      BY <2>6 DEF LockInv, Unlock
    <3>1. m_pmtx[i] # Nobody /\ holder[m_pmtx[i]] = i
      BY <2>6 DEF LockInv
    <3>2. CASE j = i
      BY <2>6, <3>2 DEF Unlock
    <3>3. CASE j # i
      BY <2>6, <3>1, <3>3 DEF Unlock, LockInv, InSection
    <3> QED
      BY <3>2, <3>3
  <2>7. CASE get_contents(i)
    BY <2>6, <2>7 DEF get_contents, GoTo, InSection
  <2>8. CASE Rename(i)
    BY <2>6, <2>8 DEF Rename, GoTo, InSection
  <2>9. CASE RenameFails(i)
    <3>1. faults' = faults \/ faults' = faults + 1
      BY <2>9 DEF RenameFails, Fault
    <3>2. CASE GoTo(i, "failed") /\ Unlock(i)
      BY <2>6, <2>9, <3>1, <3>2 DEF RenameFails, GoTo, InSection
    <3>3. CASE GoTo(i, "sleep") /\ UNCHANGED lockVars
      BY <2>9, <3>1, <3>3, LockFrame DEF RenameFails, GoTo, InSection, lockVars
    <3> QED
      BY <2>9, <3>2, <3>3 DEF RenameFails
  <2> QED
    BY <1>2, <2>1, <2>2, <2>3, <2>4, <2>5, <2>7, <2>8, <2>9 DEF InstanceStep, InstanceFails
<1> QED
  BY <1>1, <1>2 DEF InstancesNext

-----------------------------------------------------------------------------
\* The files.

LEMMA FilesInit == InstancesInit => FilesApart /\ SaveInv
<1> SUFFICES ASSUME InstancesInit PROVE FilesApart /\ SaveInv
  OBVIOUS
<1>1. FilesApart
  BY InstancesAssumption DEF InstancesInit, FilesApart
<1>2. contents[cacheFile] = <<Earlier>>
  BY DEF InstancesInit, Inode
<1>3. FileIsWhole
  BY <1>2 DEF FileIsWhole, IsWhole, WholeOf, SizeOf, Inode
<1>4. \A i \in Instance : ~Saving(i)
  BY DEF InstancesInit, Saving
<1> QED
  BY <1>1, <1>3, <1>4 DEF SaveInv

\* Opening the temporary file.
LEMMA TempFileOpened ==
    ASSUME TypeInv, FilesApart, NEW i \in Instance,
           begin_rendered_cache_file(i) \/ PreallocationFails(i)
    PROVE  /\ tempFile' \in Inode /\ tempFile' # cacheFile
           /\ tempFile' = i \/ tempFile' = tempFile
           /\ ofs'[i] = tempFile'
           /\ contents'[tempFile'] = [n \in 1..Blocks |-> Padding]
           /\ contents'[cacheFile] = contents[cacheFile]
           /\ cacheFile' = cacheFile
           /\ ~overlap' => ~overlap /\ \A j \in Instance : ~Saving(j)
<1>1. /\ OpenTempFile(i) /\ pc[i] = "begin" /\ cacheFile' = cacheFile
      /\ overlap' = (overlap \/ \E j \in Instance : Saving(j))
  BY DEF begin_rendered_cache_file, PreallocationFails
<1>2. /\ tempFile' \in Inode /\ tempFile' # cacheFile
      /\ tempFile' = i \/ tempFile' = tempFile
      /\ contents' = [contents EXCEPT ![tempFile'] = [n \in 1..Blocks |-> Padding]]
      /\ ofs' = [ofs EXCEPT ![i] = tempFile']
  BY <1>1 DEF OpenTempFile, FilesApart, TypeInv, InstancesTypeOK, Inode
<1>3. ~overlap' => ~overlap /\ \A j \in Instance : ~Saving(j)
  BY <1>1
<1> QED
  BY <1>1, <1>2, <1>3 DEF TypeInv, InstancesTypeOK

LEMMA FilesApartNext ==
    ASSUME TypeInv, FilesApart, [InstancesNext]_vars
    PROVE  FilesApart'
<1> DEFINE Early(j) == pc[j] \in {"lock_read", "read", "begin"}
<1>1. ASSUME UNCHANGED <<cacheFile, tempFile>>, \A j \in Instance : Early(j)' => Early(j)
      PROVE  FilesApart'
  BY <1>1 DEF FilesApart
<1>2. CASE UNCHANGED vars
  BY <1>1, <1>2 DEF vars, fileVars
<1>3. ASSUME NEW i \in Instance, begin_rendered_cache_file(i) \/ PreallocationFails(i)
      PROVE  FilesApart'
  <2>1. /\ tempFile' # cacheFile /\ cacheFile' = cacheFile
        /\ tempFile' = i \/ tempFile' = tempFile
    BY <1>3, TempFileOpened
  <2>2. ~Early(i)' /\ \A j \in Instance : j # i => pc'[j] = pc[j]
    BY <1>3 DEF begin_rendered_cache_file, PreallocationFails, GoTo, TypeInv, InstancesTypeOK
  <2> QED
    BY <2>1, <2>2 DEF FilesApart
<1>4. ASSUME NEW i \in Instance, Rename(i)
      PROVE  FilesApart'
  <2>1. tempFile # Nobody /\ cacheFile' = tempFile /\ tempFile' = Nobody
    BY <1>4 DEF Rename
  <2>2. \A j \in Instance : Early(j)' => Early(j)
    BY <1>4 DEF Rename, GoTo, TypeInv, InstancesTypeOK
  <2>3. \A j \in Instance : j # Nobody
    BY InstancesAssumption
  <2> QED
    BY <2>1, <2>2, <2>3 DEF FilesApart
<1>5. ASSUME NEW i \in Instance, InstanceStep(i) \/ InstanceFails(i),
             ~begin_rendered_cache_file(i), ~PreallocationFails(i), ~Rename(i)
      PROVE  FilesApart'
  <2>1. UNCHANGED <<cacheFile, tempFile>>
    BY <1>5 DEF InstanceStep, InstanceFails, OpenMutex, LockMutex, GiveUp, get_contents, SaveFirst,
       SaveRest, ResizeFile, RenameFails, MutexFails, SaveFails, Killed, lockFrame, fileVars
  <2>2. \E place : GoTo(i, place) \/ UNCHANGED pc
    BY <1>5 DEF InstanceStep, InstanceFails, OpenMutex, LockMutex, GiveUp, get_contents, SaveFirst,
       SaveRest, ResizeFile, RenameFails, MutexFails, SaveFails, Killed, Locked
  <2>3. \A j \in Instance : j # i => pc'[j] = pc[j]
    BY <2>2 DEF GoTo, TypeInv, InstancesTypeOK
  <2>4. Early(i)' => Early(i)
    BY <1>5 DEF InstanceStep, InstanceFails, OpenMutex, LockMutex, GiveUp, get_contents, SaveFirst,
       SaveRest, ResizeFile, RenameFails, MutexFails, SaveFails, Killed, Locked, GoTo, Locking,
       TypeInv, InstancesTypeOK
  <2> QED
    BY <1>1, <2>1, <2>3, <2>4
<1> QED
  BY <1>2, <1>3, <1>4, <1>5 DEF InstancesNext, InstanceStep, InstanceFails

\* A step that writes to no file.
LEMMA SaveFrame ==
    ASSUME TypeInv, SaveInv, UNCHANGED <<fileVars, overlap>>,
           \A j \in Instance : Saving(j)' =>
              /\ Saving(j)
              /\ \/ pc'[j] = pc[j]
                 \/ {pc[j], pc'[j]} \subseteq {"lock_rename", "rename", "sleep"}
    PROVE  SaveInv'
<1> SUFFICES ASSUME ~overlap PROVE SaveInv'
  BY DEF SaveInv
<1>1. FileIsWhole'
  BY DEF SaveInv, FileIsWhole, fileVars
<1>2. ASSUME NEW j \in Instance, Saving(j)'
      PROVE  Saving(j) /\ tempFile' # Nobody /\ ofs'[j] = tempFile' /\ Written(j)'
  <2>1. Saving(j) /\ tempFile # Nobody /\ ofs[j] = tempFile /\ Written(j)
    BY <1>2 DEF SaveInv
  <2>2. Written(j)'
    BY <1>2, <2>1 DEF Written, Saving, fileVars
  <2> QED
    BY <2>1, <2>2 DEF fileVars
<1> QED
  BY <1>1, <1>2 DEF SaveInv

\* A step of the only instance that has a new cache file under way.
LEMMA SoleSaver ==
    ASSUME TypeInv, NEW i \in Instance, cacheFile' = cacheFile, FileIsWhole,
           contents'[cacheFile] = contents[cacheFile],
           \A j \in Instance : Saving(j)' => j = i,
           Saving(i)' => tempFile' # Nobody /\ ofs'[i] = tempFile' /\ Written(i)'
    PROVE  SaveInv'
<1>1. FileIsWhole'
  BY DEF FileIsWhole
<1> QED
  BY <1>1 DEF SaveInv

LEMMA SaveNext ==
    ASSUME TypeInv, FilesApart, SaveInv, [InstancesNext]_vars
    PROVE  SaveInv'
<1> USE DEF TypeInv
<1>1. CASE UNCHANGED vars
  BY <1>1, SaveFrame DEF vars, Saving
<1>2. ASSUME NEW i \in Instance, begin_rendered_cache_file(i) \/ PreallocationFails(i)
      PROVE  SaveInv'
  <2> SUFFICES ASSUME ~overlap' PROVE SaveInv'
    BY DEF SaveInv
  <2>1. /\ tempFile' \in Inode /\ ofs'[i] = tempFile'
        /\ contents'[tempFile'] = [n \in 1..Blocks |-> Padding]
        /\ contents'[cacheFile] = contents[cacheFile] /\ cacheFile' = cacheFile
        /\ ~overlap /\ \A j \in Instance : ~Saving(j)
    BY <1>2, TempFileOpened
  <2>2. /\ \A j \in Instance : j # i => pc'[j] = pc[j]
        /\ pc'[i] \in {"save", "failed"}
    BY <1>2 DEF begin_rendered_cache_file, PreallocationFails, GoTo, InstancesTypeOK
  <2>3. tempFile' # Nobody
    BY <2>1, InstancesAssumption DEF Inode
  <2>4. Written(i)'
    BY <2>1, <2>2, FilledFile DEF Written
  <2>5. \A j \in Instance : Saving(j)' => j = i
    BY <2>1, <2>2 DEF Saving
  <2>6. FileIsWhole
    BY <2>1 DEF SaveInv
  <2> QED
    BY <2>1, <2>3, <2>4, <2>5, <2>6, SoleSaver
<1>3. ASSUME NEW i \in Instance, SaveFirst(i) \/ SaveRest(i) \/ ResizeFile(i)
      PROVE  SaveInv'
  <2>1. /\ UNCHANGED <<cacheFile, tempFile, ofs, overlap>> /\ Saving(i)
        /\ \A j \in Instance : j # i => pc'[j] = pc[j]
    BY <1>3 DEF SaveFirst, SaveRest, ResizeFile, Saving, GoTo, InstancesTypeOK
  <2> SUFFICES ASSUME ~overlap PROVE SaveInv'
    BY <2>1 DEF SaveInv
  <2>2. /\ FileIsWhole /\ tempFile # Nobody /\ ofs[i] = tempFile /\ Written(i)
        /\ \A j \in Instance : Saving(j)' => j = i
    BY <2>1 DEF SaveInv, Saving
  <2>3. tempFile \in Inode /\ tempFile # cacheFile
    BY <2>2 DEF FilesApart, InstancesTypeOK
  <2> DEFINE blocks == contents[tempFile]
  <2>4. blocks \in Seq(Block) /\ Len(blocks) <= Blocks
    BY <2>3 DEF InstancesTypeOK
  <2> HIDE DEF blocks
  <2>5. Written(i)' /\ contents'[cacheFile] = contents[cacheFile]
    <3>1. CASE SaveFirst(i)
      <4>1. pc[i] = "save" /\ contents' = [contents EXCEPT ![tempFile] = WriteFirst(blocks, i)]
        BY <2>2, <3>1 DEF SaveFirst, blocks
      <4>2. contents'[tempFile] = WriteFirst(blocks, i)
        BY <2>3, <4>1 DEF InstancesTypeOK
      <4>3. Len(blocks) = Blocks
        BY <2>2, <4>1 DEF Written, blocks
      <4>4. Len(WriteFirst(blocks, i)) = Blocks /\ WriteFirst(blocks, i)[1] = i
        BY <2>4, <4>3, FirstWritten
      <4>5. pc'[i] = IF Size[i] = 1 THEN "resize" ELSE "close"
        BY <3>1 DEF SaveFirst, GoTo, InstancesTypeOK
      <4>6. Size[i] = 1 => WholeOf(i, WriteFirst(blocks, i))
        BY <4>4, InstancesAssumption DEF WholeOf, SizeOf
      <4> QED
        BY <2>1, <2>3, <4>1, <4>2, <4>4, <4>5, <4>6 DEF Written, InstancesTypeOK
    <3>2. CASE SaveRest(i)
      <4>1. pc[i] = "close" /\ contents' = [contents EXCEPT ![tempFile] = AllWritten(blocks, i)]
        BY <2>2, <3>2 DEF SaveRest, AllWritten, blocks
      <4>2. contents'[tempFile] = AllWritten(blocks, i)
        BY <2>3, <4>1 DEF InstancesTypeOK
      <4>3. Len(blocks) = Blocks /\ blocks[1] = i
        BY <2>2, <4>1 DEF Written, blocks
      <4>4. WholeOf(i, AllWritten(blocks, i))
        BY <2>4, <4>3, RestWritten
      <4>5. pc'[i] = "resize"
        BY <3>2 DEF SaveRest, GoTo, InstancesTypeOK
      <4> QED
        BY <2>1, <2>3, <4>1, <4>2, <4>4, <4>5 DEF Written, InstancesTypeOK
    <3>3. CASE ResizeFile(i)
      <4>1. pc[i] = "resize" /\ contents' = [contents EXCEPT ![tempFile] = Resized(blocks, Size[i])]
        BY <2>2, <3>3 DEF ResizeFile, blocks
      <4>2. contents'[tempFile] = Resized(blocks, Size[i])
        BY <2>3, <4>1 DEF InstancesTypeOK
      <4>3. WholeOf(i, blocks)
        BY <2>2, <4>1 DEF Written, blocks
      <4>4. WholeOf(i, Resized(blocks, Size[i]))
        BY <2>4, <4>3, ResizedFile
      <4>5. pc'[i] = "lock_rename"
        BY <3>3 DEF ResizeFile, GoTo, InstancesTypeOK
      <4> QED
        BY <2>1, <2>3, <4>1, <4>2, <4>4, <4>5 DEF Written, InstancesTypeOK
    <3> QED
      BY <1>3, <3>1, <3>2, <3>3
  <2> QED
    BY <2>1, <2>2, <2>5, SoleSaver
<1>4. ASSUME NEW i \in Instance, Rename(i)
      PROVE  SaveInv'
  <2>1. /\ cacheFile' = tempFile /\ tempFile # Nobody /\ UNCHANGED <<contents, overlap>>
        /\ pc[i] \in {"rename", "sleep"} /\ pc'[i] = "done"
        /\ \A j \in Instance : j # i => pc'[j] = pc[j]
    BY <1>4 DEF Rename, GoTo, InstancesTypeOK
  <2> SUFFICES ASSUME ~overlap PROVE SaveInv'
    BY <2>1 DEF SaveInv
  <2>2. WholeOf(i, contents[tempFile]) /\ \A j \in Instance : Saving(j) => j = i
    BY <2>1 DEF SaveInv, Saving, Written
  <2>3. FileIsWhole'
    BY <2>1, <2>2 DEF FileIsWhole, IsWhole, Inode
  <2>4. \A j \in Instance : ~Saving(j)'
    BY <2>1, <2>2 DEF Saving
  <2> QED
    BY <2>3, <2>4 DEF SaveInv
<1>5. ASSUME NEW i \in Instance,
             \/ OpenMutex(i) \/ LockMutex(i) \/ GiveUp(i) \/ MutexFails(i)
             \/ get_contents(i) \/ RenameFails(i) \/ SaveFails(i) \/ Killed(i)
      PROVE  SaveInv'
  <2>1. UNCHANGED <<fileVars, overlap>>
    BY <1>5 DEF OpenMutex, LockMutex, GiveUp, MutexFails, get_contents, RenameFails, SaveFails,
       Killed, lockFrame
  <2>2. \/ UNCHANGED pc
        \/ Locking(i) /\ Locked(i)
        \/ pc[i] = "read" /\ (GoTo(i, "begin") \/ GoTo(i, "failed"))
        \/ pc[i] \in {"rename", "sleep"} /\ (GoTo(i, "failed") \/ GoTo(i, "sleep"))
        \/ GoTo(i, "failed") \/ GoTo(i, "killed")
    BY <1>5 DEF OpenMutex, LockMutex, GiveUp, MutexFails, get_contents, RenameFails, SaveFails,
       Killed
  <2>3. \A j \in Instance : Saving(j)' =>
            /\ Saving(j)
            /\ \/ pc'[j] = pc[j]
               \/ {pc[j], pc'[j]} \subseteq {"lock_rename", "rename", "sleep"}
    BY <2>2 DEF Locked, Locking, GoTo, Saving, InstancesTypeOK
  <2> QED
    BY <2>1, <2>3, SaveFrame
<1> QED
  BY <1>1, <1>2, <1>3, <1>4, <1>5 DEF InstancesNext, InstanceStep, InstanceFails

-----------------------------------------------------------------------------

\* Every variable keeps its type; in particular no file grows beyond the
\* blocks that were reserved, and no instance renames more often than
\* RENAME_RETRIES (rendered_cache_file.cpp).
THEOREM InstancesTypeCorrect == InstancesSpec => []InstancesTypeOK
<1>1. TypeInv => InstancesTypeOK
  BY DEF TypeInv
<1> QED
  BY <1>1, InstancesTypeInit, InstancesTypeNext, PTL DEF InstancesSpec

\* The inductive invariant: one mutex while nothing has gone wrong with it, files
\* that are apart, and a temporary file that holds as much of the new cache as
\* the one instance that writes it has written (advisory_file_lock.cpp,
\* rendered_cache_file.cpp).
THEOREM InstancesInvariant == InstancesSpec => []InstancesInv
<1>1. TypeInv /\ LockInv /\ FilesApart /\ SaveInv => InstancesInv
  BY DEF TypeInv, InstancesInv
<1>2. InstancesInit => TypeInv /\ LockInv /\ FilesApart /\ SaveInv
  BY InstancesTypeInit, LockInit, FilesInit
<1>3. TypeInv /\ LockInv /\ FilesApart /\ SaveInv /\ [InstancesNext]_vars
      => (TypeInv /\ LockInv /\ FilesApart /\ SaveInv)'
  BY InstancesTypeNext, LockNext, FilesApartNext, SaveNext
<1> QED
  BY <1>1, <1>2, <1>3, PTL DEF InstancesSpec

\* The cache file is all that one run wrote, whoever was killed where and
\* whatever failed, as long as no two new cache files were under way at once
\* (finalize_rendered_cache_file renames after everything is written).
THEOREM WholeFile == InstancesSpec => []WholeUnlessOverlap
<1>1. InstancesInv => WholeUnlessOverlap
  BY DEF InstancesInv, SaveInv, WholeUnlessOverlap
<1> QED
  BY <1>1, InstancesInvariant, PTL

\* Two instances are in the section together only after a waiter gave up or
\* the mutex failed (AdvisoryFileLock).
THEOREM LockKeepsApart == InstancesSpec => []LockExcludes
<1>1. InstancesInv /\ InstancesTypeOK => LockExcludes
  <2> SUFFICES ASSUME InstancesInv, InstancesTypeOK, NEW i \in Instance, NEW j \in Instance,
                      InSection(i), InSection(j), abandoned = {}, ~(faults > 0)
               PROVE  i = j
    BY DEF LockExcludes
  <2>1. faults = 0
    BY InstancesAssumption DEF InstancesTypeOK
  <2>2. m_pmtx[i] = mutexName /\ m_pmtx[j] = mutexName
        /\ holder[m_pmtx[i]] = i /\ holder[m_pmtx[j]] = j
    BY <2>1 DEF InstancesInv, LockInv
  <2> QED
    BY <2>2
<1> QED
  BY <1>1, InstancesInvariant, InstancesTypeCorrect, PTL
=============================================================================
