----------------------------- MODULE FileLocks -----------------------------
(***************************************************************************)
(* persistence.py: the authority lock of a state directory and the         *)
(* sentinel lock of a store file.                                          *)
(*                                                                         *)
(* The authority lock is an RLock and a depth per thread over a flock of   *)
(* authority.lock.  Lock objects take their RLock from a dictionary of the *)
(* process and keep it: a forked child starts a new dictionary, but lock   *)
(* objects that were built before the fork still refer to copies of the    *)
(* parent's RLocks, in the state the fork found them in.  A flock belongs  *)
(* to the open file, which a child shares until it closes its copy; the    *)
(* kernel drops it with the last copy.  The sentinel is a file that is     *)
(* created exclusively and unlinked by its creator; nothing drops it when  *)
(* the creator dies.  None of the three ever waits.                        *)
(***************************************************************************)
EXTENDS Naturals, FiniteSets

CONSTANTS
    Procs,         \* processes
    Names,         \* names of threads within a process
    NULL,
    MaxDepth,      \* bound: nested acquisitions by one thread
    MaxWrites,     \* bound: updates of the store
    MaxLeaks,      \* bound: RLocks with an acquisition that is never released
    MaxCrashes     \* bound: processes killed

Threads == Procs \X Names

ASSUME LocksAssumption ==
    /\ NULL \notin Procs \cup Threads
    /\ IsFiniteSet(Procs) /\ Procs \cap Threads = {}
    /\ {MaxDepth, MaxWrites, MaxLeaks, MaxCrashes} \subseteq Nat

VARIABLES
    alive,         \* the processes that run
    thread,        \* thread -> what it is doing
    dicts,         \* process -> the dictionaries its lock objects come from,
                   \*   each named by the process that filled it
    rlock,         \* process -> dictionary -> the thread that owns its RLock
    leaked,        \* process, dictionary: RLocks taken by a thread that never
                   \*   releases them
    inherited,     \* process -> the dictionaries whose RLock was taken when
                   \*   the process was forked
    flock,         \* the thread whose open file has the kernel's lock
    copies,        \* the processes that hold that file open
    closing,       \* forked children that have not closed their copies
    sentinel,      \* the thread that created the .lock file that is there
    store,         \* the store file: how many updates it holds
    updates,       \* updates started, and updates acknowledged
    crashes        \* how many processes were killed

vars == <<alive, thread, dicts, rlock, leaked, inherited, flock, copies, closing,
          sentinel, store, updates, crashes>>

rlockVars == <<dicts, rlock, leaked, inherited>>
flockVars == <<flock, copies, closing>>
fileVars == <<sentinel, store, updates>>

ProcOf(t) == t[1]

\* threading.get_ident, by which an RLock knows its owner; it survives a fork.
Ident(t) == t[2]

-----------------------------------------------------------------------------
(* State *)

\* entering: it owns the RLock; leaving: the flock is to be dropped.
Locations == {"out", "entering", "in", "leaving"}

\* via: the dictionary of the lock object by which it entered.  writing: where
\* the thread is in the update of the store; read: what it read.
Thread ==
    [pc : Locations, via : Procs \cup {NULL}, depth : Nat,
     writing : {"no", "read", "replace", "unlink"}, read : Nat]

Outside ==
    [pc |-> "out", via |-> NULL, depth |-> 0, writing |-> "no", read |-> 0]

TypeOK ==
    /\ alive \subseteq Procs
    /\ thread \in [Threads -> Thread]
    /\ dicts \in [Procs -> SUBSET Procs]
    /\ rlock \in [Procs -> [Procs -> Threads \cup {NULL}]]
    /\ leaked \subseteq Procs \X Procs
    /\ inherited \in [Procs -> SUBSET Procs]
    /\ flock \in Threads \cup {NULL}
    /\ copies \subseteq Procs
    /\ closing \subseteq Procs
    /\ sentinel \in Threads \cup {NULL}
    /\ store \in Nat
    /\ updates \in [started : Nat, done : Nat]
    /\ crashes \in Nat

NoOwners == [d \in Procs |-> NULL]

\* Some processes run; the others are started or forked later.
Init ==
    /\ alive \in SUBSET Procs \ {{}}
    /\ thread = [t \in Threads |-> Outside]
    /\ dicts = [p \in Procs |-> {p}]
    /\ rlock = [p \in Procs |-> NoOwners]
    /\ leaked = {}
    /\ inherited = [p \in Procs |-> {}]
    /\ flock = NULL
    /\ copies = {}
    /\ closing = {}
    /\ sentinel = NULL
    /\ store = 0
    /\ updates = [started |-> 0, done |-> 0]
    /\ crashes = 0

\* A thread runs while its process does, one thing at a time.
Runs(t) == ProcOf(t) \in alive \ closing

Free(t) == Runs(t) /\ thread[t].writing = "no"

-----------------------------------------------------------------------------
(* AuthorityTransactionLock.acquire *)

Owner(t, d) == rlock[ProcOf(t)][d]

\* A lock object is used; its RLock is taken, or the thread raises at once.
EnterProcess(t, d) ==
    /\ Free(t) /\ thread[t].pc = "out"
    /\ d \in dicts[ProcOf(t)]
    /\ Owner(t, d) \in {NULL, t}
    /\ rlock' = [rlock EXCEPT ![ProcOf(t)][d] = t]
    /\ thread' = [thread EXCEPT ![t].pc = "entering", ![t].via = d]
    /\ UNCHANGED <<alive, dicts, leaked, inherited, flockVars, fileVars, crashes>>

Exit(t) == thread' = [thread EXCEPT ![t].pc = "out", ![t].via = NULL]

\* prepare_storage_root raises before the try: the RLock stays taken.
RootRefused(t) ==
    /\ Free(t) /\ thread[t].pc = "entering"
    /\ leaked' = leaked \cup {<<ProcOf(t), thread[t].via>>}
    /\ Cardinality(leaked') <= MaxLeaks
    /\ Exit(t)
    /\ UNCHANGED <<alive, dicts, rlock, inherited, flockVars, fileVars, crashes>>

\* An RLock is free when it was released as often as it was taken, in the
\* parent of a forked process too.
OwnerAfter(t) ==
    IF /\ <<ProcOf(t), thread[t].via>> \notin leaked
       /\ thread[t].via \notin inherited[ProcOf(t)]
    THEN NULL ELSE t

Release(t) ==
    rlock' = [rlock EXCEPT ![ProcOf(t)][thread[t].via] = OwnerAfter(t)]

\* _lock_byte: the kernel has given the lock to no open file, not even to one
\* of the same process.
Lockable == flock = NULL

\* authority.lock is opened and locked, under _AUTHORITY_LOCKS_GUARD.
Lock(t) ==
    /\ Free(t) /\ thread[t].pc = "entering"
    /\ Lockable
    /\ copies' = {ProcOf(t)}
    /\ flock' = t
    /\ thread' = [thread EXCEPT ![t].pc = "in", ![t].depth = 1]
    /\ UNCHANGED <<alive, rlockVars, closing, fileVars, crashes>>

\* AuthorityLockError: busy, or a check of the file fails.  The finally clause
\* closes it and releases the RLock.
LockRefused(t) ==
    /\ Free(t) /\ thread[t].pc = "entering"
    /\ Release(t)
    /\ Exit(t)
    /\ UNCHANGED <<alive, dicts, leaked, inherited, flockVars, fileVars, crashes>>

\* A nested entry point of the thread that is in, by the same lock object.
Nest(t) ==
    /\ Free(t) /\ thread[t].pc = "in" /\ thread[t].depth < MaxDepth
    /\ thread' = [thread EXCEPT ![t].depth = @ + 1]
    /\ UNCHANGED <<alive, rlockVars, flockVars, fileVars, crashes>>

\* An entry point returns or raises.
Leave(t) ==
    /\ Free(t) /\ thread[t].pc = "in"
    /\ thread' = IF thread[t].depth > 1
                 THEN [thread EXCEPT ![t].depth = @ - 1]
                 ELSE [thread EXCEPT ![t].depth = 0, ![t].pc = "leaving"]
    /\ UNCHANGED <<alive, rlockVars, flockVars, fileVars, crashes>>

\* The outermost one: unlock, close, and release the RLock.
Unlock(t) ==
    /\ Free(t) /\ thread[t].pc = "leaving"
    /\ flock' = NULL
    /\ copies' = {}
    /\ Release(t)
    /\ Exit(t)
    /\ UNCHANGED <<alive, dicts, leaked, inherited, closing, fileVars, crashes>>

-----------------------------------------------------------------------------
(* Processes *)

Start(p) ==
    /\ p \notin alive
    /\ alive' = alive \cup {p}
    /\ UNCHANGED <<thread, rlockVars, flockVars, fileVars, crashes>>

\* A copy of the parent's memory has each RLock as it is, owned by the same
\* identity, whether or not a thread of the child will ever have it.
Inherit(p, q) ==
    /\ dicts' = [dicts EXCEPT ![q] = dicts[p]]
    /\ rlock' = [rlock EXCEPT ![q] =
                   [d \in Procs |-> IF rlock[p][d] = NULL THEN NULL
                                    ELSE <<q, Ident(rlock[p][d])>>]]
    /\ inherited' = [inherited EXCEPT ![q] =
                       {d \in dicts[p] : rlock[p][d] # NULL}]

\* The child shares every file that its parent has open and is outside of
\* acquire (_AUTHORITY_DEPTHS is new).  A dictionary is named by its process,
\* so a child does not take a name that lock objects of its parent still bear.
Fork(p, q) ==
    /\ p \in alive \ closing /\ q \notin alive /\ q \notin dicts[p]
    /\ alive' = alive \cup {q}
    /\ Inherit(p, q)
    /\ copies' = IF p \in copies THEN copies \cup {q} ELSE copies
    /\ closing' = closing \cup {q}
    /\ UNCHANGED <<thread, leaked, flock, fileVars, crashes>>

\* Locks that the child makes from now on come from a dictionary of its own.
Restarted(q) ==
    /\ q \in closing
    /\ closing' = closing \ {q}
    /\ dicts' = [dicts EXCEPT ![q] = @ \cup {q}]
    /\ UNCHANGED <<alive, thread, rlock, leaked, inherited, fileVars, crashes>>

\* Mutant of CloseInherited: the child keeps the files it inherited.
KeepInherited(q) == Restarted(q) /\ UNCHANGED <<flock, copies>>

\* Mutant of CloseInherited: the child unlocks what it inherited.
UnlockInherited(q) ==
    /\ Restarted(q)
    /\ copies' = copies \ {q}
    /\ flock' = IF q \in copies THEN NULL ELSE flock

\* The kernel drops the lock of a file that nobody has open.
CloseCopy(p) ==
    /\ copies' = copies \ {p}
    /\ flock' = IF copies \ {p} = {} THEN NULL ELSE flock

\* _authority_after_fork_child
CloseInherited(q) == Restarted(q) /\ CloseCopy(q)

\* A process is killed: its memory and its open files are gone.
Crash(p) ==
    /\ p \in alive /\ crashes < MaxCrashes
    /\ crashes' = crashes + 1
    /\ alive' = alive \ {p}
    /\ closing' = closing \ {p}
    /\ thread' = [t \in Threads |-> IF ProcOf(t) = p THEN Outside ELSE thread[t]]
    /\ dicts' = [dicts EXCEPT ![p] = {p}]
    /\ rlock' = [rlock EXCEPT ![p] = NoOwners]
    /\ leaked' = leaked \ ({p} \X Procs)
    /\ inherited' = [inherited EXCEPT ![p] = {}]
    /\ CloseCopy(p)
    /\ UNCHANGED fileVars

-----------------------------------------------------------------------------
(* exclusive_file_lock around the read and the atomic_write_json of a store *)

\* Mutant of CreateSentinel: a sentinel that is there is taken over.
StealSentinel(t) ==
    /\ Free(t) /\ thread[t].pc \in {"out", "in"}
    /\ updates.started < MaxWrites
    /\ sentinel' = t
    /\ thread' = [thread EXCEPT ![t].writing = "read"]
    /\ updates' = [updates EXCEPT !.started = @ + 1]
    /\ UNCHANGED <<alive, rlockVars, flockVars, store, crashes>>

\* O_EXCL: if the sentinel is there, the write is refused.  The approvals are
\* also written by callers that do not hold the authority lock.
CreateSentinel(t) ==
    /\ Free(t) /\ thread[t].pc \in {"out", "in"}
    /\ updates.started < MaxWrites
    /\ sentinel = NULL
    /\ sentinel' = t
    /\ thread' = [thread EXCEPT ![t].writing = "read"]
    /\ updates' = [updates EXCEPT !.started = @ + 1]
    /\ UNCHANGED <<alive, rlockVars, flockVars, store, crashes>>

ReadStore(t) ==
    /\ Runs(t) /\ thread[t].writing = "read"
    /\ thread' = [thread EXCEPT ![t].writing = "replace", ![t].read = store]
    /\ UNCHANGED <<alive, rlockVars, flockVars, fileVars, crashes>>

\* os.replace of the temporary file.
ReplaceStore(t) ==
    /\ Runs(t) /\ thread[t].writing = "replace"
    /\ store' = thread[t].read + 1
    /\ thread' = [thread EXCEPT ![t].writing = "unlink", ![t].read = 0]
    /\ UNCHANGED <<alive, rlockVars, flockVars, sentinel, updates, crashes>>

\* The check, the write or a limit fails: the store is as it was.
WriteFails(t) ==
    /\ Runs(t) /\ thread[t].writing \in {"read", "replace"}
    /\ sentinel' = IF sentinel = t THEN NULL ELSE sentinel
    /\ thread' = [thread EXCEPT ![t].writing = "no", ![t].read = 0]
    /\ UNCHANGED <<alive, rlockVars, flockVars, store, updates, crashes>>

\* The creator unlinks the sentinel, and only its own.
UnlinkSentinel(t) ==
    /\ Runs(t) /\ thread[t].writing = "unlink"
    /\ sentinel' = IF sentinel = t THEN NULL ELSE sentinel
    /\ updates' = [updates EXCEPT !.done = @ + 1]
    /\ thread' = [thread EXCEPT ![t].writing = "no"]
    /\ UNCHANGED <<alive, rlockVars, flockVars, store, crashes>>

\* The operator removes a sentinel once no process runs that wrote it.
RemoveStale ==
    /\ sentinel # NULL
    /\ thread[sentinel].writing = "no"
    /\ sentinel' = NULL
    /\ UNCHANGED <<alive, thread, rlockVars, flockVars, store, updates, crashes>>

-----------------------------------------------------------------------------
Next ==
    \/ \E t \in Threads :
         \/ \E d \in Procs : EnterProcess(t, d)
         \/ RootRefused(t) \/ Lock(t) \/ LockRefused(t)
         \/ Nest(t) \/ Leave(t) \/ Unlock(t)
         \/ CreateSentinel(t) \/ ReadStore(t) \/ ReplaceStore(t)
         \/ WriteFails(t) \/ UnlinkSentinel(t)
    \/ \E p, q \in Procs : Fork(p, q)
    \/ \E p \in Procs : Start(p) \/ CloseInherited(p) \/ Crash(p)
    \/ RemoveStale

Spec == Init /\ [][Next]_vars

=============================================================================
