-------------------------- MODULE FileLocksProofs --------------------------
(***************************************************************************)
(* The promises of the locks, for any number of processes and threads, any *)
(* nesting and any number of crashes, forks, leaks and writes.             *)
(***************************************************************************)
EXTENDS FileLocksProperties, TLAPS

\* What holds whenever a thread is somewhere in acquire: its process runs and
\* has closed what it inherited, the RLock of its lock object is the thread's
\* own, and once it owns the lock the kernel's lock is on the file it opened.
Ownership ==
    \A t \in Threads :
        /\ thread[t].pc # "out" =>
              /\ Runs(t) /\ thread[t].via \in Procs
              /\ rlock[ProcOf(t)][thread[t].via] = t
        /\ Owns(t) => flock = t /\ ProcOf(t) \in copies

\* The kernel's lock is held open by its owner and by children that have not
\* yet closed what they inherited, and by nobody else.
Holders ==
    flock # NULL =>
        /\ copies # {}
        /\ copies \subseteq closing \cup {ProcOf(flock)}
        /\ ProcOf(flock) \in copies => Owns(flock)

\* An RLock belongs to an identity of its process that is in acquire by it,
\* that has leaked it, or that had it in the parent when the process was forked.
RLocks ==
    \A p \in Procs, d \in Procs : rlock[p][d] # NULL =>
        /\ ProcOf(rlock[p][d]) = p /\ d \in dicts[p]
        /\ \/ thread[rlock[p][d]].pc # "out" /\ thread[rlock[p][d]].via = d
           \/ <<p, d>> \in leaked
           \/ d \in inherited[p]

\* The dictionary that a child makes after the fork inherits nothing.
OwnIsNew == \A p \in Procs : p \notin inherited[p]

\* The sentinel covers the whole read and replace of an update.
Covered ==
    \A t \in Threads :
        /\ thread[t].writing # "no" => sentinel = t
        /\ thread[t].writing = "replace" => thread[t].read = store
        /\ thread[t].writing = "unlink" => store >= updates.done + 1

LockInvariant == Ownership /\ Holders /\ RLocks /\ OwnIsNew

IInv == TypeOK /\ LockInvariant /\ Covered /\ NoLostUpdate

LEMMA ProcOfType == \A t \in Threads : ProcOf(t) \in Procs
  BY DEF Threads, ProcOf

LEMMA NullIsNone == NULL \notin Procs /\ NULL \notin Threads
  BY LocksAssumption

LEMMA ThreadType ==
  ASSUME NEW p \in Procs, NEW t \in Threads
  PROVE  <<p, Ident(t)>> \in Threads /\ ProcOf(<<p, Ident(t)>>) = p
  BY DEF Threads, Ident, ProcOf

LEMMA InitInv == Init => IInv
  <1> USE NullIsNone
  <1> SUFFICES ASSUME Init PROVE IInv
    OBVIOUS
  <1>1. NoOwners \in [Procs -> Threads \cup {NULL}]
    BY DEF NoOwners
  <1>2. Outside \in Thread
    BY DEF Outside, Thread, Locations
  <1>3. TypeOK
    BY <1>1, <1>2 DEF Init, TypeOK
  <1>4. \A t \in Threads : thread[t] = Outside
    BY DEF Init
  <1>5. \A p \in Procs, d \in Procs : rlock[p][d] = NULL
    BY DEF Init, NoOwners
  <1>6. LockInvariant
    BY <1>4, <1>5 DEF LockInvariant, Ownership, Owns, Outside, Holders, RLocks,
       OwnIsNew, Init
  <1>7. Covered /\ NoLostUpdate
    BY <1>4 DEF Init, Covered, NoLostUpdate, Outside
  <1> QED
    BY <1>3, <1>6, <1>7 DEF IInv

LEMMA InvImplies == IInv => AuthorityExclusive /\ NoLostUpdate /\ BusyOnlyIfOwned
  <1> SUFFICES ASSUME IInv
               PROVE  AuthorityExclusive /\ NoLostUpdate /\ BusyOnlyIfOwned
    OBVIOUS
  <1> USE DEF IInv, LockInvariant
  <1>1. AuthorityExclusive
    BY DEF Ownership, AuthorityExclusive
  <1>2. ASSUME flock # NULL PROVE Owns(flock) \/ copies \cap closing # {}
    <2>1. PICK p \in copies : p \in closing \cup {ProcOf(flock)}
      BY <1>2 DEF Holders
    <2> QED
      BY <1>2, <2>1 DEF Holders
  <1>3. \A p \in Procs, d \in Procs : rlock[p][d] # NULL =>
           \/ thread[rlock[p][d]].pc # "out" /\ thread[rlock[p][d]].via = d
           \/ <<p, d>> \in leaked
           \/ d # p /\ d \in inherited[p]
    BY DEF RLocks, OwnIsNew
  <1> QED
    BY <1>1, <1>2, <1>3 DEF BusyOnlyIfOwned

-----------------------------------------------------------------------------
(* What becomes of the threads when one field of one of them is set.       *)

WithPc(f, t, x) == [f EXCEPT ![t].pc = x]

LEMMA SetPc ==
  ASSUME NEW f \in [Threads -> Thread], NEW t \in Threads,
         NEW x \in Locations
  PROVE  LET g == WithPc(f, t, x) IN
         /\ g \in [Threads -> Thread]
         /\ g[t].pc = x
         /\ \A u \in Threads :
              /\ u # t => g[u] = f[u]
              /\ g[u].via = f[u].via /\ g[u].depth = f[u].depth
              /\ g[u].writing = f[u].writing /\ g[u].read = f[u].read
  <1> DEFINE g == WithPc(f, t, x)
             r == [f[t] EXCEPT !.pc = x]
  <1>1. /\ r \in Thread /\ r.pc = x
        /\ r.via = f[t].via /\ r.depth = f[t].depth
        /\ r.writing = f[t].writing /\ r.read = f[t].read
    BY DEF Thread
  <1>2. g = [f EXCEPT ![t] = r]
    BY DEF WithPc
  <1> HIDE DEF r, g
  <1>3. /\ g \in [Threads -> Thread] /\ g[t] = r
        /\ \A u \in Threads : u # t => g[u] = f[u]
    BY <1>1, <1>2
  <1> QED
    BY <1>1, <1>3 DEF g

WithVia(f, t, x) == [f EXCEPT ![t].via = x]

LEMMA SetVia ==
  ASSUME NEW f \in [Threads -> Thread], NEW t \in Threads,
         NEW x \in Procs \cup {NULL}
  PROVE  LET g == WithVia(f, t, x) IN
         /\ g \in [Threads -> Thread]
         /\ g[t].via = x
         /\ \A u \in Threads :
              /\ u # t => g[u] = f[u]
              /\ g[u].pc = f[u].pc /\ g[u].depth = f[u].depth
              /\ g[u].writing = f[u].writing /\ g[u].read = f[u].read
  <1> DEFINE g == WithVia(f, t, x)
             r == [f[t] EXCEPT !.via = x]
  <1>1. /\ r \in Thread /\ r.via = x
        /\ r.pc = f[t].pc /\ r.depth = f[t].depth
        /\ r.writing = f[t].writing /\ r.read = f[t].read
    BY DEF Thread
  <1>2. g = [f EXCEPT ![t] = r]
    BY DEF WithVia
  <1> HIDE DEF r, g
  <1>3. /\ g \in [Threads -> Thread] /\ g[t] = r
        /\ \A u \in Threads : u # t => g[u] = f[u]
    BY <1>1, <1>2
  <1> QED
    BY <1>1, <1>3 DEF g

WithDepth(f, t, x) == [f EXCEPT ![t].depth = x]

LEMMA SetDepth ==
  ASSUME NEW f \in [Threads -> Thread], NEW t \in Threads,
         NEW x \in Nat
  PROVE  LET g == WithDepth(f, t, x) IN
         /\ g \in [Threads -> Thread]
         /\ g[t].depth = x
         /\ \A u \in Threads :
              /\ u # t => g[u] = f[u]
              /\ g[u].pc = f[u].pc /\ g[u].via = f[u].via
              /\ g[u].writing = f[u].writing /\ g[u].read = f[u].read
  <1> DEFINE g == WithDepth(f, t, x)
             r == [f[t] EXCEPT !.depth = x]
  <1>1. /\ r \in Thread /\ r.depth = x
        /\ r.pc = f[t].pc /\ r.via = f[t].via
        /\ r.writing = f[t].writing /\ r.read = f[t].read
    BY DEF Thread
  <1>2. g = [f EXCEPT ![t] = r]
    BY DEF WithDepth
  <1> HIDE DEF r, g
  <1>3. /\ g \in [Threads -> Thread] /\ g[t] = r
        /\ \A u \in Threads : u # t => g[u] = f[u]
    BY <1>1, <1>2
  <1> QED
    BY <1>1, <1>3 DEF g

WithWriting(f, t, x) == [f EXCEPT ![t].writing = x]

LEMMA SetWriting ==
  ASSUME NEW f \in [Threads -> Thread], NEW t \in Threads,
         NEW x \in {"no", "read", "replace", "unlink"}
  PROVE  LET g == WithWriting(f, t, x) IN
         /\ g \in [Threads -> Thread]
         /\ g[t].writing = x
         /\ \A u \in Threads :
              /\ u # t => g[u] = f[u]
              /\ g[u].pc = f[u].pc /\ g[u].via = f[u].via
              /\ g[u].depth = f[u].depth /\ g[u].read = f[u].read
  <1> DEFINE g == WithWriting(f, t, x)
             r == [f[t] EXCEPT !.writing = x]
  <1>1. /\ r \in Thread /\ r.writing = x
        /\ r.pc = f[t].pc /\ r.via = f[t].via
        /\ r.depth = f[t].depth /\ r.read = f[t].read
    BY DEF Thread
  <1>2. g = [f EXCEPT ![t] = r]
    BY DEF WithWriting
  <1> HIDE DEF r, g
  <1>3. /\ g \in [Threads -> Thread] /\ g[t] = r
        /\ \A u \in Threads : u # t => g[u] = f[u]
    BY <1>1, <1>2
  <1> QED
    BY <1>1, <1>3 DEF g

WithRead(f, t, x) == [f EXCEPT ![t].read = x]

LEMMA SetRead ==
  ASSUME NEW f \in [Threads -> Thread], NEW t \in Threads,
         NEW x \in Nat
  PROVE  LET g == WithRead(f, t, x) IN
         /\ g \in [Threads -> Thread]
         /\ g[t].read = x
         /\ \A u \in Threads :
              /\ u # t => g[u] = f[u]
              /\ g[u].pc = f[u].pc /\ g[u].via = f[u].via
              /\ g[u].depth = f[u].depth /\ g[u].writing = f[u].writing
  <1> DEFINE g == WithRead(f, t, x)
             r == [f[t] EXCEPT !.read = x]
  <1>1. /\ r \in Thread /\ r.read = x
        /\ r.pc = f[t].pc /\ r.via = f[t].via
        /\ r.depth = f[t].depth /\ r.writing = f[t].writing
    BY DEF Thread
  <1>2. g = [f EXCEPT ![t] = r]
    BY DEF WithRead
  <1> HIDE DEF r, g
  <1>3. /\ g \in [Threads -> Thread] /\ g[t] = r
        /\ \A u \in Threads : u # t => g[u] = f[u]
    BY <1>1, <1>2
  <1> QED
    BY <1>1, <1>3 DEF g

-----------------------------------------------------------------------------
(* Each action touches either the locks or the store.                       *)

\* An action that leaves the store and every update where they are.
LEMMA StoreKept ==
  ASSUME IInv, TypeOK', UNCHANGED fileVars,
         \A u \in Threads : /\ thread'[u].writing = thread[u].writing
                            /\ thread'[u].read = thread[u].read
  PROVE  Covered' /\ NoLostUpdate'
  BY DEF IInv, Covered, NoLostUpdate, fileVars

\* An action that leaves the locks and everybody's place in acquire.
LEMMA LocksKept ==
  ASSUME IInv, UNCHANGED <<alive, rlockVars, flockVars>>,
         \A u \in Threads : /\ thread'[u].pc = thread[u].pc
                            /\ thread'[u].via = thread[u].via
  PROVE  LockInvariant'
  <1> USE DEF IInv, LockInvariant, rlockVars, flockVars
  <1>1. \A u \in Threads : Owns(u)' = Owns(u) /\ Runs(u)' = Runs(u)
    BY DEF Owns, Runs
  <1>2. Ownership'
    BY <1>1 DEF Ownership
  <1>3. Holders'
    BY <1>1 DEF Holders, TypeOK
  <1>4. RLocks' /\ OwnIsNew'
    BY DEF RLocks, OwnIsNew, TypeOK
  <1> QED
    BY <1>2, <1>3, <1>4

\* One RLock changes its owner.
LEMMA OwnerSet ==
  ASSUME TypeOK, NEW p \in Procs, NEW d \in Procs, NEW o \in Threads \cup {NULL},
         rlock' = [rlock EXCEPT ![p][d] = o]
  PROVE  /\ rlock' \in [Procs -> [Procs -> Threads \cup {NULL}]]
         /\ \A q \in Procs, e \in Procs :
               rlock'[q][e] = IF q = p /\ e = d THEN o ELSE rlock[q][e]
  BY DEF TypeOK

\* Where a thread goes within acquire, its update of the store stays.
Moves(t, pc, via) ==
    /\ thread' \in [Threads -> Thread]
    /\ \A u \in Threads :
         /\ thread'[u].writing = thread[u].writing
         /\ thread'[u].read = thread[u].read
         /\ u # t => thread'[u] = thread[u]
    /\ thread'[t].pc = pc /\ thread'[t].via = via

LEMMA ExitMoves ==
  ASSUME TypeOK, NEW t \in Threads, Exit(t) PROVE Moves(t, "out", NULL)
  <1> DEFINE out == WithPc(thread, t, "out")
  <1>1. thread' = WithVia(out, t, NULL)
    BY DEF TypeOK, Exit, WithPc, WithVia
  <1>2. "out" \in Locations
    BY DEF Locations
  <1>3. /\ out \in [Threads -> Thread] /\ out[t].pc = "out"
        /\ \A u \in Threads : /\ u # t => out[u] = thread[u]
                              /\ out[u].writing = thread[u].writing
                              /\ out[u].read = thread[u].read
    BY <1>2, SetPc DEF TypeOK
  <1> HIDE DEF out
  <1> QED
    BY <1>1, <1>3, SetVia DEF Moves

LEMMA EnterProcessInv ==
  ASSUME NEW t \in Threads, NEW d \in Procs, IInv, EnterProcess(t, d) PROVE IInv'
  <1> USE ProcOfType, NullIsNone DEF IInv, LockInvariant
  <1>1. Moves(t, "entering", d)
    <2> DEFINE entering == WithPc(thread, t, "entering")
    <2>1. thread' = WithVia(entering, t, d)
      BY DEF TypeOK, EnterProcess, WithPc, WithVia
    <2>2. "entering" \in Locations
      BY DEF Locations
    <2>3. /\ entering \in [Threads -> Thread] /\ entering[t].pc = "entering"
          /\ \A u \in Threads :
                /\ u # t => entering[u] = thread[u]
                /\ entering[u].writing = thread[u].writing
                /\ entering[u].read = thread[u].read
                /\ entering[u].via = thread[u].via
      BY <2>2, SetPc DEF TypeOK
    <2> HIDE DEF entering
    <2> QED
      BY <2>1, <2>3, SetVia DEF Moves
  <1>2. /\ rlock' \in [Procs -> [Procs -> Threads \cup {NULL}]]
        /\ \A q \in Procs, e \in Procs :
              rlock'[q][e] = IF q = ProcOf(t) /\ e = d THEN t ELSE rlock[q][e]
    BY OwnerSet DEF EnterProcess
  <1>3. /\ thread[t].pc = "out" /\ Runs(t) /\ Owner(t, d) \in {NULL, t}
        /\ d \in dicts[ProcOf(t)]
        /\ UNCHANGED <<alive, dicts, leaked, inherited, crashes>>
        /\ UNCHANGED flockVars /\ UNCHANGED fileVars
    BY DEF EnterProcess, Free
  <1>4. TypeOK'
    BY <1>1, <1>2, <1>3 DEF TypeOK, Moves, flockVars, fileVars
  <1>5. \A u \in Threads : Owns(u)' = Owns(u) /\ Runs(u)' = Runs(u)
    BY <1>1, <1>3 DEF Moves, Owns, Runs, flockVars
  <1>6. Ownership'
    BY <1>1, <1>2, <1>3, <1>5 DEF Ownership, Moves, Owner, flockVars
  <1>7. Holders'
    BY <1>3, <1>5 DEF Holders, flockVars, TypeOK
  <1>8. RLocks' /\ OwnIsNew'
    <2> SUFFICES ASSUME NEW q \in Procs, NEW e \in Procs, rlock'[q][e] # NULL
                 PROVE  /\ ProcOf(rlock'[q][e]) = q /\ e \in dicts[q]
                        /\ \/ /\ thread'[rlock'[q][e]].pc # "out"
                              /\ thread'[rlock'[q][e]].via = e
                           \/ <<q, e>> \in leaked
                           \/ e \in inherited[q]
      BY <1>3 DEF RLocks, OwnIsNew
    <2>1. CASE q = ProcOf(t) /\ e = d
      BY <1>1, <1>2, <1>3, <2>1 DEF Moves
    <2>2. CASE ~(q = ProcOf(t) /\ e = d)
      <3>1. rlock'[q][e] = rlock[q][e] /\ rlock[q][e] \in Threads
        BY <1>2, <2>2 DEF TypeOK
      <3>2. CASE rlock[q][e] = t
        BY <1>3, <3>1, <3>2 DEF RLocks
      <3>3. CASE rlock[q][e] # t
        BY <1>1, <3>1, <3>3 DEF RLocks, Moves
      <3> QED
        BY <3>2, <3>3
    <2> QED
      BY <2>1, <2>2
  <1>9. Covered' /\ NoLostUpdate'
    BY <1>1, <1>3, <1>4, StoreKept DEF Moves
  <1> QED
    BY <1>4, <1>6, <1>7, <1>8, <1>9

LEMMA RootRefusedInv ==
  ASSUME NEW t \in Threads, IInv, RootRefused(t) PROVE IInv'
  <1> USE ProcOfType, NullIsNone DEF IInv, LockInvariant
  <1>1. Moves(t, "out", NULL)
    BY ExitMoves DEF RootRefused
  <1>2. /\ thread[t].pc = "entering" /\ thread[t].via \in Procs
        /\ rlock[ProcOf(t)][thread[t].via] = t
        /\ leaked' = leaked \cup {<<ProcOf(t), thread[t].via>>}
        /\ UNCHANGED <<alive, dicts, rlock, inherited, crashes>>
        /\ UNCHANGED flockVars /\ UNCHANGED fileVars
    BY DEF RootRefused, Ownership
  <1>3. TypeOK'
    BY <1>1, <1>2 DEF TypeOK, Moves, flockVars, fileVars
  <1>4. \A u \in Threads : Owns(u)' = Owns(u) /\ Runs(u)' = Runs(u)
    BY <1>1, <1>2 DEF Moves, Owns, Runs, flockVars
  <1>5. Ownership'
    BY <1>1, <1>2, <1>4 DEF Ownership, Moves, flockVars
  <1>6. Holders'
    BY <1>2, <1>4 DEF Holders, flockVars, TypeOK
  <1>7. RLocks' /\ OwnIsNew'
    <2> SUFFICES ASSUME NEW p \in Procs, NEW e \in Procs, rlock[p][e] # NULL
                 PROVE  /\ ProcOf(rlock[p][e]) = p /\ e \in dicts[p]
                        /\ \/ /\ thread'[rlock[p][e]].pc # "out"
                              /\ thread'[rlock[p][e]].via = e
                           \/ <<p, e>> \in leaked'
                           \/ e \in inherited[p]
      BY <1>2 DEF RLocks, OwnIsNew
    <2>1. rlock[p][e] \in Threads
      BY DEF TypeOK
    <2>2. CASE rlock[p][e] = t
      BY <1>2, <2>2 DEF RLocks
    <2>3. CASE rlock[p][e] # t
      BY <1>1, <1>2, <2>1, <2>3 DEF RLocks, Moves
    <2> QED
      BY <2>2, <2>3
  <1>8. Covered' /\ NoLostUpdate'
    BY <1>1, <1>2, <1>3, StoreKept DEF Moves
  <1> QED
    BY <1>3, <1>5, <1>6, <1>7, <1>8

LEMMA LockInv ==
  ASSUME NEW t \in Threads, IInv, Lock(t) PROVE IInv'
  <1> USE ProcOfType, NullIsNone DEF IInv, LockInvariant
  <1>1. Moves(t, "in", thread[t].via)
    <2> DEFINE locked == WithPc(thread, t, "in")
    <2>1. thread' = WithDepth(locked, t, 1)
      BY DEF TypeOK, Lock, WithPc, WithDepth
    <2>2. "in" \in Locations
      BY DEF Locations
    <2>3. /\ locked \in [Threads -> Thread] /\ locked[t].pc = "in"
          /\ \A u \in Threads :
                /\ u # t => locked[u] = thread[u]
                /\ locked[u].writing = thread[u].writing
                /\ locked[u].read = thread[u].read
                /\ locked[u].via = thread[u].via
      BY <2>2, SetPc DEF TypeOK
    <2> HIDE DEF locked
    <2> QED
      BY <2>1, <2>3, SetDepth DEF Moves
  <1>2. /\ thread[t].pc = "entering" /\ flock = NULL
        /\ flock' = t /\ copies' = {ProcOf(t)}
        /\ UNCHANGED <<alive, closing, crashes>>
        /\ UNCHANGED rlockVars /\ UNCHANGED fileVars
    BY DEF Lock, Lockable
  <1>3. TypeOK'
    BY <1>1, <1>2 DEF TypeOK, Moves, rlockVars, fileVars
  <1>4. \A u \in Threads : Runs(u)' = Runs(u) /\ ~Owns(u)
    BY <1>2 DEF Ownership, Runs
  <1>5. \A u \in Threads : Owns(u)' <=> u = t
    BY <1>1, <1>4 DEF Moves, Owns
  <1>6. Ownership'
    BY <1>1, <1>2, <1>4, <1>5 DEF Ownership, Moves, rlockVars
  <1>7. Holders'
    BY <1>2, <1>5 DEF Holders
  <1>8. RLocks' /\ OwnIsNew'
    BY <1>1, <1>2 DEF RLocks, OwnIsNew, Moves, TypeOK, rlockVars
  <1>9. Covered' /\ NoLostUpdate'
    BY <1>1, <1>2, <1>3, StoreKept DEF Moves
  <1> QED
    BY <1>3, <1>6, <1>7, <1>8, <1>9

\* The RLock is released as often as it was taken here, and has an owner only
\* if it was taken elsewhere.
LEMMA ReleaseKeeps ==
  ASSUME NEW t \in Threads, IInv, thread[t].pc # "out", Release(t), Exit(t),
         UNCHANGED <<alive, dicts, leaked, inherited, closing>>,
         \A u \in Threads : u # t /\ Owns(u) =>
            flock' = flock /\ copies' = copies
  PROVE  /\ rlock' \in [Procs -> [Procs -> Threads \cup {NULL}]]
         /\ Moves(t, "out", NULL)
         /\ Ownership' /\ RLocks' /\ OwnIsNew'
         /\ \A u \in Threads : Owns(u)' <=> u # t /\ Owns(u)
  <1> USE ProcOfType, NullIsNone DEF IInv, LockInvariant
  <1> DEFINE p == ProcOf(t)  d == thread[t].via
  <1>1. Moves(t, "out", NULL)
    BY ExitMoves
  <1>2. p \in Procs /\ d \in Procs /\ rlock[p][d] = t
    BY DEF Ownership
  <1>3. OwnerAfter(t) \in {NULL, t}
    BY DEF OwnerAfter
  <1>4. /\ rlock' \in [Procs -> [Procs -> Threads \cup {NULL}]]
        /\ \A q \in Procs, e \in Procs :
              rlock'[q][e] = IF q = p /\ e = d THEN OwnerAfter(t) ELSE rlock[q][e]
    <2>1. OwnerAfter(t) \in Threads \cup {NULL}
      BY <1>3
    <2>2. rlock' = [rlock EXCEPT ![p][d] = OwnerAfter(t)]
      BY DEF Release
    <2> HIDE DEF p, d
    <2> QED
      BY <1>2, <2>1, <2>2 DEF TypeOK
  <1>5. \A u \in Threads : Owns(u)' <=> u # t /\ Owns(u)
    BY <1>1 DEF Moves, Owns
  <1>6. Ownership'
    <2> SUFFICES ASSUME NEW u \in Threads
                 PROVE  /\ thread'[u].pc # "out" =>
                              /\ Runs(u)' /\ thread'[u].via \in Procs
                              /\ rlock'[ProcOf(u)][thread'[u].via] = u
                        /\ Owns(u)' => flock' = u /\ ProcOf(u) \in copies'
      BY DEF Ownership
    <2>1. CASE u = t
      BY <1>1, <2>1 DEF Moves, Owns
    <2>2. CASE u # t
      <3>1. thread'[u] = thread[u] /\ Runs(u)' = Runs(u)
        BY <1>1, <2>2 DEF Moves, Runs
      <3>2. thread[u].pc # "out" => rlock[ProcOf(u)][thread[u].via] = u
        BY DEF Ownership
      <3>3. thread[u].pc # "out" => ~(ProcOf(u) = p /\ thread[u].via = d)
        BY <1>2, <2>2, <3>2
      <3> QED
        BY <1>4, <1>5, <2>2, <3>1, <3>2, <3>3 DEF Ownership
    <2> QED
      BY <2>1, <2>2
  <1>7. RLocks'
    <2> SUFFICES ASSUME NEW q \in Procs, NEW e \in Procs, rlock'[q][e] # NULL
                 PROVE  /\ ProcOf(rlock'[q][e]) = q /\ e \in dicts[q]
                        /\ \/ /\ thread'[rlock'[q][e]].pc # "out"
                              /\ thread'[rlock'[q][e]].via = e
                           \/ <<q, e>> \in leaked
                           \/ e \in inherited[q]
      BY DEF RLocks
    <2>1. CASE q = p /\ e = d
      <3>1. OwnerAfter(t) # NULL /\ rlock'[q][e] = OwnerAfter(t)
        BY <1>2, <1>4, <2>1
      <3>2. rlock'[q][e] = t /\ (<<p, d>> \in leaked \/ d \in inherited[p])
        BY <3>1 DEF OwnerAfter
      <3> QED
        BY <1>2, <2>1, <3>2 DEF RLocks
    <2>2. CASE ~(q = p /\ e = d)
      <3>1. rlock'[q][e] = rlock[q][e] /\ rlock[q][e] \in Threads
        BY <1>4, <2>2 DEF TypeOK
      <3>2. CASE rlock[q][e] = t
        <4>1. q = p /\ e # d
          BY <2>2, <3>1, <3>2 DEF RLocks
        <4> QED
          BY <3>1, <3>2, <4>1 DEF RLocks
      <3>3. CASE rlock[q][e] # t
        BY <1>1, <3>1, <3>3 DEF RLocks, Moves
      <3> QED
        BY <3>2, <3>3
    <2> QED
      BY <2>1, <2>2
  <1> QED
    BY <1>1, <1>4, <1>5, <1>6, <1>7 DEF OwnIsNew

LEMMA LockRefusedInv ==
  ASSUME NEW t \in Threads, IInv, LockRefused(t) PROVE IInv'
  <1> USE DEF IInv, LockInvariant
  <1>1. /\ thread[t].pc = "entering" /\ Release(t) /\ Exit(t)
        /\ UNCHANGED <<alive, dicts, leaked, inherited, crashes>>
        /\ UNCHANGED flockVars /\ UNCHANGED fileVars
    BY DEF LockRefused
  <1>2. /\ rlock' \in [Procs -> [Procs -> Threads \cup {NULL}]]
        /\ Moves(t, "out", NULL)
        /\ Ownership' /\ RLocks' /\ OwnIsNew'
        /\ \A u \in Threads : Owns(u)' <=> u # t /\ Owns(u)
    BY <1>1, ReleaseKeeps DEF flockVars
  <1>3. ~Owns(t)
    BY <1>1 DEF Owns
  <1>4. TypeOK'
    BY <1>1, <1>2 DEF TypeOK, Moves, flockVars, fileVars
  <1>5. Holders'
    BY <1>1, <1>2, <1>3 DEF Holders, TypeOK, flockVars
  <1>6. Covered' /\ NoLostUpdate'
    BY <1>1, <1>2, <1>4, StoreKept DEF Moves
  <1> QED
    BY <1>2, <1>4, <1>5, <1>6

LEMMA UnlockInv ==
  ASSUME NEW t \in Threads, IInv, Unlock(t) PROVE IInv'
  <1> USE NullIsNone DEF IInv, LockInvariant
  <1>1. /\ thread[t].pc = "leaving" /\ Release(t) /\ Exit(t)
        /\ flock' = NULL /\ copies' = {}
        /\ UNCHANGED <<alive, dicts, leaked, inherited, closing, crashes>>
        /\ UNCHANGED fileVars
    BY DEF Unlock
  <1>2. \A u \in Threads : Owns(u) => u = t
    BY <1>1 DEF Ownership, Owns
  <1>3. /\ rlock' \in [Procs -> [Procs -> Threads \cup {NULL}]]
        /\ Moves(t, "out", NULL)
        /\ Ownership' /\ RLocks' /\ OwnIsNew'
    BY <1>1, <1>2, ReleaseKeeps
  <1>4. TypeOK'
    BY <1>1, <1>3 DEF TypeOK, Moves, fileVars
  <1>5. Holders'
    BY <1>1 DEF Holders
  <1>6. Covered' /\ NoLostUpdate'
    BY <1>1, <1>3, <1>4, StoreKept DEF Moves
  <1> QED
    BY <1>3, <1>4, <1>5, <1>6

LEMMA NestInv ==
  ASSUME NEW t \in Threads, IInv, Nest(t) PROVE IInv'
  <1>1. /\ thread[t].depth + 1 \in Nat
        /\ thread' = WithDepth(thread, t, thread[t].depth + 1)
    BY DEF IInv, TypeOK, Nest, Thread, WithDepth
  <1>2. /\ thread' \in [Threads -> Thread]
        /\ \A u \in Threads : /\ thread'[u].writing = thread[u].writing
                              /\ thread'[u].read = thread[u].read
                              /\ thread'[u].pc = thread[u].pc
                              /\ thread'[u].via = thread[u].via
    BY <1>1, SetDepth DEF IInv, TypeOK
  <1>3. UNCHANGED fileVars /\ UNCHANGED <<alive, rlockVars, flockVars, crashes>>
    BY DEF Nest
  <1>4. TypeOK'
    BY <1>2, <1>3 DEF IInv, TypeOK, rlockVars, flockVars, fileVars
  <1> QED
    BY <1>2, <1>3, <1>4, StoreKept, LocksKept DEF IInv

LEMMA LeaveInv ==
  ASSUME NEW t \in Threads, IInv, Leave(t) PROVE IInv'
  <1> USE ProcOfType, NullIsNone DEF IInv, LockInvariant
  <1>1. /\ thread' \in [Threads -> Thread]
        /\ \A u \in Threads :
              /\ thread'[u].writing = thread[u].writing
              /\ thread'[u].read = thread[u].read
              /\ thread'[u].via = thread[u].via
              /\ thread'[u].pc = IF u = t /\ ~(thread[t].depth > 1)
                                 THEN "leaving" ELSE thread[u].pc
    <2>1. CASE thread[t].depth > 1
      <3>1. thread[t].depth - 1 \in Nat
        BY <2>1 DEF TypeOK, Thread
      <3>2. thread' = WithDepth(thread, t, thread[t].depth - 1)
        BY <2>1 DEF Leave, TypeOK, WithDepth
      <3> QED
        BY <2>1, <3>1, <3>2, SetDepth DEF TypeOK
    <2>2. CASE ~(thread[t].depth > 1)
      <3> DEFINE reset == WithDepth(thread, t, 0)
      <3>1. thread' = WithPc(reset, t, "leaving") /\ "leaving" \in Locations
        BY <2>2 DEF TypeOK, Leave, WithPc, WithDepth, Locations
      <3>2. /\ reset \in [Threads -> Thread]
            /\ \A u \in Threads : /\ u # t => reset[u] = thread[u]
                                  /\ reset[u].writing = thread[u].writing
                                  /\ reset[u].read = thread[u].read
                                  /\ reset[u].via = thread[u].via
                                  /\ reset[u].pc = thread[u].pc
        BY SetDepth DEF TypeOK
      <3> HIDE DEF reset
      <3> QED
        BY <2>2, <3>1, <3>2, SetPc
    <2> QED
      BY <2>1, <2>2
  <1>2. thread' \in [Threads -> Thread]
    BY <1>1
  <1>3. /\ thread[t].pc = "in" /\ UNCHANGED <<alive, crashes>>
        /\ UNCHANGED rlockVars /\ UNCHANGED flockVars /\ UNCHANGED fileVars
    BY DEF Leave
  <1>4. TypeOK'
    BY <1>2, <1>3 DEF TypeOK, rlockVars, flockVars, fileVars
  <1>5. \A u \in Threads : Owns(u)' = Owns(u) /\ Runs(u)' = Runs(u)
    BY <1>1, <1>3 DEF Owns, Runs, flockVars
  <1>6. \A u \in Threads : thread'[u].pc # "out" <=> thread[u].pc # "out"
    BY <1>1, <1>3
  <1>7. Ownership'
    BY <1>1, <1>3, <1>5, <1>6 DEF Ownership, rlockVars, flockVars
  <1>8. Holders'
    BY <1>3, <1>5 DEF Holders, TypeOK, flockVars
  <1>9. RLocks' /\ OwnIsNew'
    BY <1>1, <1>3, <1>6 DEF RLocks, OwnIsNew, TypeOK, rlockVars
  <1>10. Covered' /\ NoLostUpdate'
    BY <1>1, <1>3, <1>4, StoreKept
  <1> QED
    BY <1>4, <1>7, <1>8, <1>9, <1>10

-----------------------------------------------------------------------------
(* Processes                                                                *)

LEMMA StartInv ==
  ASSUME NEW p \in Procs, IInv, Start(p) PROVE IInv'
  <1> USE DEF IInv, LockInvariant
  <1>1. /\ alive' = alive \cup {p} /\ UNCHANGED <<thread, crashes>>
        /\ UNCHANGED rlockVars /\ UNCHANGED flockVars /\ UNCHANGED fileVars
    BY DEF Start
  <1>2. TypeOK'
    BY <1>1 DEF TypeOK, rlockVars, flockVars, fileVars
  <1>3. \A u \in Threads : Owns(u)' = Owns(u) /\ (Runs(u) => Runs(u)')
    BY <1>1 DEF Owns, Runs, flockVars
  <1>4. Ownership'
    BY <1>1, <1>3 DEF Ownership, rlockVars, flockVars
  <1>5. Holders'
    BY <1>1, <1>3 DEF Holders, TypeOK, flockVars
  <1>6. RLocks' /\ OwnIsNew'
    BY <1>1 DEF RLocks, OwnIsNew, rlockVars
  <1>7. Covered' /\ NoLostUpdate'
    BY <1>1, <1>2, StoreKept
  <1> QED
    BY <1>2, <1>4, <1>5, <1>6, <1>7

\* What a child finds in its copies of its parent's RLocks.
LEMMA InheritGives ==
  ASSUME TypeOK, NEW p \in Procs, NEW q \in Procs, Inherit(p, q)
  PROVE  /\ dicts' \in [Procs -> SUBSET Procs]
         /\ inherited' \in [Procs -> SUBSET Procs]
         /\ rlock' \in [Procs -> [Procs -> Threads \cup {NULL}]]
         /\ \A r \in Procs : r # q => /\ rlock'[r] = rlock[r]
                                      /\ inherited'[r] = inherited[r]
                                      /\ dicts'[r] = dicts[r]
         /\ dicts'[q] = dicts[p]
         /\ inherited'[q] = {d \in dicts[p] : rlock[p][d] # NULL}
         /\ \A d \in Procs :
               rlock'[q][d] = IF rlock[p][d] = NULL THEN NULL
                              ELSE <<q, Ident(rlock[p][d])>>
  <1> DEFINE own == [d \in Procs |-> IF rlock[p][d] = NULL THEN NULL
                                     ELSE <<q, Ident(rlock[p][d])>>]
             taken == {d \in dicts[p] : rlock[p][d] # NULL}
  <1>1. own \in [Procs -> Threads \cup {NULL}]
    BY ThreadType DEF TypeOK
  <1>2. taken \in SUBSET Procs /\ dicts[p] \in SUBSET Procs
    BY DEF TypeOK
  <1>3. /\ dicts' = [dicts EXCEPT ![q] = dicts[p]]
        /\ rlock' = [rlock EXCEPT ![q] = own]
        /\ inherited' = [inherited EXCEPT ![q] = taken]
    BY DEF Inherit
  <1>4. \A d \in Procs : own[d] = IF rlock[p][d] = NULL THEN NULL
                                  ELSE <<q, Ident(rlock[p][d])>>
    OBVIOUS
  <1>5. taken = {d \in dicts[p] : rlock[p][d] # NULL}
    OBVIOUS
  <1> HIDE DEF own, taken
  <1> QED
    BY <1>1, <1>2, <1>3, <1>4, <1>5 DEF TypeOK

LEMMA ForkInv ==
  ASSUME NEW p \in Procs, NEW q \in Procs, IInv, Fork(p, q) PROVE IInv'
  <1> USE ProcOfType, NullIsNone DEF IInv, LockInvariant
  <1>1. /\ p \in alive \ closing /\ q \notin alive /\ q \notin dicts[p]
        /\ alive' = alive \cup {q} /\ closing' = closing \cup {q}
        /\ copies' = IF p \in copies THEN copies \cup {q} ELSE copies
        /\ UNCHANGED <<thread, leaked, flock, crashes>> /\ UNCHANGED fileVars
    BY DEF Fork
  <1>2. /\ dicts' \in [Procs -> SUBSET Procs]
        /\ inherited' \in [Procs -> SUBSET Procs]
        /\ rlock' \in [Procs -> [Procs -> Threads \cup {NULL}]]
        /\ \A r \in Procs : r # q => /\ rlock'[r] = rlock[r]
                                     /\ inherited'[r] = inherited[r]
                                     /\ dicts'[r] = dicts[r]
        /\ dicts'[q] = dicts[p]
        /\ inherited'[q] = {d \in dicts[p] : rlock[p][d] # NULL}
        /\ \A d \in Procs :
              rlock'[q][d] = IF rlock[p][d] = NULL THEN NULL
                             ELSE <<q, Ident(rlock[p][d])>>
    BY InheritGives DEF Fork
  <1>3. TypeOK'
    <2>1. copies' \subseteq Procs /\ alive' \subseteq Procs /\ closing' \subseteq Procs
      BY <1>1 DEF TypeOK
    <2> QED
      BY <1>1, <1>2, <2>1 DEF TypeOK, fileVars
  <1>4. \A u \in Threads :
           /\ thread[u].pc # "out" => ProcOf(u) # q
           /\ Runs(u) => Runs(u)'
    BY <1>1 DEF Ownership, Runs
  <1>5. \A u \in Threads : Owns(u)' = Owns(u) /\ (Owns(u) => thread[u].pc # "out")
    BY <1>1 DEF Owns
  <1>6. Ownership'
    BY <1>1, <1>2, <1>4, <1>5 DEF Ownership
  <1>7. Holders'
    <2> SUFFICES ASSUME flock # NULL
                 PROVE  /\ copies' # {}
                        /\ copies' \subseteq closing' \cup {ProcOf(flock)}
                        /\ ProcOf(flock) \in copies' => Owns(flock)
      BY <1>1, <1>5 DEF Holders, TypeOK
    <2>1. /\ copies # {} /\ copies \subseteq closing \cup {ProcOf(flock)}
          /\ ProcOf(flock) \in copies => Owns(flock)
      BY DEF Holders
    <2>2. CASE p \in copies
      <3>1. p = ProcOf(flock)
        BY <1>1, <2>1, <2>2
      <3> QED
        BY <1>1, <2>1, <2>2, <3>1
    <2>3. CASE p \notin copies
      BY <1>1, <2>1, <2>3
    <2> QED
      BY <2>2, <2>3
  <1>8. RLocks'
    <2> SUFFICES ASSUME NEW r \in Procs, NEW d \in Procs, rlock'[r][d] # NULL
                 PROVE  /\ ProcOf(rlock'[r][d]) = r /\ d \in dicts'[r]
                        /\ \/ /\ thread[rlock'[r][d]].pc # "out"
                              /\ thread[rlock'[r][d]].via = d
                           \/ <<r, d>> \in leaked
                           \/ d \in inherited'[r]
      BY <1>1 DEF RLocks
    <2>1. CASE r = q
      <3>1. rlock[p][d] # NULL /\ rlock'[q][d] = <<q, Ident(rlock[p][d])>>
        BY <1>2, <2>1
      <3>2. ProcOf(<<q, Ident(rlock[p][d])>>) = q
        BY DEF ProcOf
      <3> QED
        BY <1>2, <2>1, <3>1, <3>2 DEF RLocks
    <2>2. CASE r # q
      BY <1>2, <2>2 DEF RLocks
    <2> QED
      BY <2>1, <2>2
  <1>9. OwnIsNew'
    BY <1>1, <1>2 DEF OwnIsNew
  <1>10. Covered' /\ NoLostUpdate'
    BY <1>1, <1>3, StoreKept
  <1> QED
    BY <1>3, <1>6, <1>7, <1>8, <1>9, <1>10

\* A process closes its copy: the lock of an owner elsewhere stays.
LEMMA ClosingKeeps ==
  ASSUME IInv, NEW q \in Procs, CloseCopy(q)
  PROVE  /\ copies' \subseteq Procs
         /\ flock' \in Threads \cup {NULL}
         /\ \A t \in Threads : Owns(t) /\ ProcOf(t) # q =>
               flock' = t /\ ProcOf(t) \in copies'
         /\ flock' # NULL => /\ flock' = flock
                             /\ copies' # {} /\ copies' = copies \ {q}
  <1>1. /\ copies' = copies \ {q}
        /\ flock' = IF copies \ {q} = {} THEN NULL ELSE flock
    BY DEF CloseCopy
  <1> QED
    BY <1>1, NullIsNone DEF IInv, LockInvariant, TypeOK, Ownership

LEMMA CloseInheritedInv ==
  ASSUME NEW q \in Procs, IInv, CloseInherited(q) PROVE IInv'
  <1> USE ProcOfType, NullIsNone DEF IInv, LockInvariant
  <1>1. /\ q \in closing /\ closing' = closing \ {q} /\ CloseCopy(q)
        /\ dicts' = [dicts EXCEPT ![q] = @ \cup {q}]
        /\ UNCHANGED <<alive, thread, rlock, leaked, inherited, crashes>>
        /\ UNCHANGED fileVars
    BY DEF CloseInherited, Restarted
  <1>2. /\ dicts' \in [Procs -> SUBSET Procs]
        /\ \A r \in Procs : dicts[r] \subseteq dicts'[r]
    BY <1>1 DEF TypeOK
  <1>3. TypeOK'
    BY <1>1, <1>2, ClosingKeeps DEF TypeOK, fileVars
  <1>4. \A u \in Threads : /\ Owns(u)' = Owns(u) /\ (Runs(u) => Runs(u)')
                           /\ Owns(u) => ProcOf(u) # q
    BY <1>1 DEF Ownership, Owns, Runs
  <1>5. Ownership'
    BY <1>1, <1>4, ClosingKeeps DEF Ownership
  <1>6. Holders'
    <2> SUFFICES ASSUME flock' # NULL
                 PROVE  /\ copies' # {}
                        /\ copies' \subseteq closing' \cup {ProcOf(flock')}
                        /\ ProcOf(flock') \in copies' => Owns(flock')
      BY <1>1, <1>4, ClosingKeeps DEF Holders, Owns
    <2>1. flock' = flock /\ copies' # {} /\ copies' = copies \ {q}
      BY <1>1, ClosingKeeps
    <2> QED
      BY <1>1, <2>1 DEF Holders
  <1>7. RLocks' /\ OwnIsNew'
    BY <1>1, <1>2 DEF RLocks, OwnIsNew
  <1>8. Covered' /\ NoLostUpdate'
    BY <1>1, <1>3, StoreKept
  <1> QED
    BY <1>3, <1>5, <1>6, <1>7, <1>8

LEMMA CrashInv ==
  ASSUME NEW p \in Procs, IInv, Crash(p) PROVE IInv'
  <1> USE ProcOfType, NullIsNone DEF IInv, LockInvariant
  <1>1. /\ alive' = alive \ {p} /\ closing' = closing \ {p} /\ CloseCopy(p)
        /\ leaked' = leaked \ ({p} \X Procs)
        /\ UNCHANGED fileVars
    BY DEF Crash
  <1>2. \A u \in Threads :
           thread'[u] = IF ProcOf(u) = p THEN Outside ELSE thread[u]
    BY DEF Crash
  <1>3. /\ dicts' = [dicts EXCEPT ![p] = {p}]
        /\ rlock' = [rlock EXCEPT ![p] = NoOwners]
        /\ inherited' = [inherited EXCEPT ![p] = {}]
    BY DEF Crash
  <1>4. NoOwners \in [Procs -> Threads \cup {NULL}] /\ \A d \in Procs : NoOwners[d] = NULL
    BY DEF NoOwners
  <1>5. /\ dicts' \in [Procs -> SUBSET Procs]
        /\ rlock' \in [Procs -> [Procs -> Threads \cup {NULL}]]
        /\ inherited' \in [Procs -> SUBSET Procs]
        /\ \A d \in Procs : rlock'[p][d] = NULL
        /\ inherited'[p] = {}
        /\ \A q \in Procs : q # p => /\ rlock'[q] = rlock[q]
                                     /\ dicts'[q] = dicts[q]
                                     /\ inherited'[q] = inherited[q]
    BY <1>3, <1>4 DEF TypeOK
  <1>6. TypeOK'
    <2>1. crashes' \in Nat
      BY DEF TypeOK, Crash
    <2>2. thread' \in [Threads -> Thread]
      <3>1. Outside \in Thread
        BY DEF Outside, Thread, Locations
      <3> QED
        BY <3>1 DEF TypeOK, Crash
    <2>3. /\ alive' \subseteq Procs /\ closing' \subseteq Procs
          /\ leaked' \subseteq Procs \X Procs
      BY <1>1 DEF TypeOK
    <2>4. copies' \subseteq Procs /\ flock' \in Threads \cup {NULL}
      BY <1>1, ClosingKeeps
    <2>5. sentinel' \in Threads \cup {NULL} /\ store' \in Nat
          /\ updates' \in [started : Nat, done : Nat]
      BY <1>1 DEF TypeOK, fileVars
    <2> QED
      BY <1>5, <2>1, <2>2, <2>3, <2>4, <2>5 DEF TypeOK
  <1>7. \A u \in Threads :
           /\ Owns(u)' <=> Owns(u) /\ ProcOf(u) # p
           /\ Runs(u) /\ ProcOf(u) # p => Runs(u)'
           /\ thread'[u].pc # "out" => thread'[u] = thread[u] /\ ProcOf(u) # p
    BY <1>1, <1>2 DEF Owns, Runs, Outside
  <1>8. Ownership'
    <2> SUFFICES ASSUME NEW u \in Threads
                 PROVE  /\ thread'[u].pc # "out" =>
                              /\ Runs(u)' /\ thread'[u].via \in Procs
                              /\ rlock'[ProcOf(u)][thread'[u].via] = u
                        /\ Owns(u)' => flock' = u /\ ProcOf(u) \in copies'
      BY DEF Ownership
    <2>1. thread'[u].pc # "out" =>
             /\ Runs(u)' /\ thread'[u].via \in Procs
             /\ rlock'[ProcOf(u)][thread'[u].via] = u
      BY <1>5, <1>7 DEF Ownership
    <2>2. Owns(u)' => flock' = u /\ ProcOf(u) \in copies'
      BY <1>1, <1>7, ClosingKeeps
    <2> QED
      BY <2>1, <2>2
  <1>9. Holders'
    <2> SUFFICES ASSUME flock' # NULL
                 PROVE  /\ copies' # {}
                        /\ copies' \subseteq closing' \cup {ProcOf(flock')}
                        /\ ProcOf(flock') \in copies' => Owns(flock)'
      BY DEF Holders
    <2>1. flock' = flock /\ copies' # {} /\ copies' = copies \ {p}
      BY <1>1, ClosingKeeps
    <2>2. ProcOf(flock) \in copies' => ProcOf(flock) # p /\ Owns(flock)
      BY <2>1 DEF Holders
    <2>3. flock \in Threads
      BY <2>1 DEF TypeOK
    <2> QED
      BY <1>1, <1>7, <2>1, <2>2, <2>3 DEF Holders, Owns
  <1>10. RLocks'
    <2> SUFFICES ASSUME NEW r \in Procs, NEW d \in Procs, rlock'[r][d] # NULL
                 PROVE  /\ ProcOf(rlock'[r][d]) = r /\ d \in dicts'[r]
                        /\ \/ /\ thread'[rlock'[r][d]].pc # "out"
                              /\ thread'[rlock'[r][d]].via = d
                           \/ <<r, d>> \in leaked'
                           \/ d \in inherited'[r]
      BY DEF RLocks
    <2>1. r # p /\ rlock'[r] = rlock[r] /\ rlock[r][d] \in Threads
      BY <1>5 DEF TypeOK
    <2>2. ProcOf(rlock[r][d]) = r
      BY <2>1 DEF RLocks
    <2>3. thread'[rlock[r][d]] = thread[rlock[r][d]]
      BY <1>2, <2>1, <2>2
    <2>4. <<r, d>> \in leaked => <<r, d>> \in leaked'
      BY <1>1, <2>1
    <2> QED
      BY <1>5, <2>1, <2>2, <2>3, <2>4 DEF RLocks
  <1>11. OwnIsNew'
    BY <1>5 DEF OwnIsNew
  <1>12. Covered' /\ NoLostUpdate'
    BY <1>1, <1>2 DEF Covered, NoLostUpdate, fileVars, Outside
  <1> QED
    BY <1>6, <1>8, <1>9, <1>10, <1>11, <1>12

-----------------------------------------------------------------------------
(* The update of the store                                                  *)

LEMMA CreateSentinelInv ==
  ASSUME NEW t \in Threads, IInv, CreateSentinel(t) PROVE IInv'
  <1> USE NullIsNone
  <1>1. /\ thread' \in [Threads -> Thread] /\ thread'[t].writing = "read"
        /\ \A u \in Threads :
              /\ thread'[u].pc = thread[u].pc /\ thread'[u].via = thread[u].via
              /\ u # t => thread'[u] = thread[u]
    <2>1. thread' = WithWriting(thread, t, "read")
      BY DEF IInv, TypeOK, CreateSentinel, WithWriting
    <2> QED
      BY <2>1, SetWriting DEF IInv, TypeOK
  <1>2. TypeOK'
    BY <1>1 DEF IInv, TypeOK, CreateSentinel, rlockVars, flockVars
  <1>3. \A u \in Threads :
           /\ thread'[u].pc = thread[u].pc /\ thread'[u].via = thread[u].via
           /\ u # t => thread'[u] = thread[u]
    BY <1>1
  <1>4. UNCHANGED <<alive, rlockVars, flockVars>>
    BY DEF CreateSentinel
  <1>5. LockInvariant'
    BY <1>3, <1>4, LocksKept
  <1>6. Covered' /\ NoLostUpdate'
    <2>1. thread'[t].writing = "read" /\ sentinel' = t /\ sentinel = NULL
      BY <1>1 DEF IInv, TypeOK, CreateSentinel, Thread
    <2>2. updates'.done = updates.done /\ store' = store
      BY DEF IInv, TypeOK, CreateSentinel
    <2>3. \A u \in Threads : thread[u].writing = "no"
      BY <2>1 DEF IInv, Covered
    <2> QED
      BY <1>3, <2>1, <2>2, <2>3 DEF IInv, Covered, NoLostUpdate
  <1> QED
    BY <1>2, <1>5, <1>6 DEF IInv

LEMMA ReadStoreInv ==
  ASSUME NEW t \in Threads, IInv, ReadStore(t) PROVE IInv'
  <1> USE NullIsNone
  <1>1. /\ thread' \in [Threads -> Thread]
        /\ thread'[t].writing = "replace" /\ thread'[t].read = store
        /\ \A u \in Threads :
              /\ thread'[u].pc = thread[u].pc /\ thread'[u].via = thread[u].via
              /\ u # t => thread'[u] = thread[u]
    <2> DEFINE moved == WithWriting(thread, t, "replace")
    <2>1. thread' = WithRead(moved, t, store) /\ store \in Nat
      BY DEF IInv, TypeOK, ReadStore, WithRead, WithWriting
    <2>2. moved \in [Threads -> Thread] /\ moved[t].writing = "replace"
          /\ \A u \in Threads :
                /\ moved[u].pc = thread[u].pc /\ moved[u].via = thread[u].via
                /\ u # t => moved[u] = thread[u]
      BY SetWriting DEF IInv, TypeOK
    <2> HIDE DEF moved
    <2> QED
      BY <2>1, <2>2, SetRead
  <1>2. TypeOK'
    BY <1>1 DEF IInv, TypeOK, ReadStore, rlockVars, flockVars, fileVars
  <1>3. \A u \in Threads :
           /\ thread'[u].pc = thread[u].pc /\ thread'[u].via = thread[u].via
           /\ u # t => thread'[u] = thread[u]
    BY <1>1
  <1>4. UNCHANGED <<alive, rlockVars, flockVars>>
    BY DEF ReadStore
  <1>5. LockInvariant'
    BY <1>3, <1>4, LocksKept
  <1>6. Covered' /\ NoLostUpdate'
    <2>1. thread'[t].writing = "replace" /\ thread'[t].read = store
      BY <1>1
    <2>2. thread[t].writing = "read" /\ UNCHANGED <<sentinel, store, updates>>
      BY DEF ReadStore, fileVars
    <2> QED
      BY <1>3, <2>1, <2>2 DEF IInv, Covered, NoLostUpdate
  <1> QED
    BY <1>2, <1>5, <1>6 DEF IInv

LEMMA ReplaceStoreInv ==
  ASSUME NEW t \in Threads, IInv, ReplaceStore(t) PROVE IInv'
  <1> USE NullIsNone
  <1>1. /\ thread' \in [Threads -> Thread]
        /\ thread'[t].writing = "unlink" /\ thread'[t].read = 0
        /\ \A u \in Threads :
              /\ thread'[u].pc = thread[u].pc /\ thread'[u].via = thread[u].via
              /\ u # t => thread'[u] = thread[u]
    <2> DEFINE moved == WithWriting(thread, t, "unlink")
    <2>1. thread' = WithRead(moved, t, 0) /\ 0 \in Nat
      BY DEF IInv, TypeOK, ReplaceStore, WithRead, WithWriting
    <2>2. moved \in [Threads -> Thread] /\ moved[t].writing = "unlink"
          /\ \A u \in Threads :
                /\ moved[u].pc = thread[u].pc /\ moved[u].via = thread[u].via
                /\ u # t => moved[u] = thread[u]
      BY SetWriting DEF IInv, TypeOK
    <2> HIDE DEF moved
    <2> QED
      BY <2>1, <2>2, SetRead
  <1>2. TypeOK'
    <2>1. store' \in Nat
      BY DEF IInv, TypeOK, ReplaceStore, Thread
    <2> QED
      BY <1>1, <2>1 DEF IInv, TypeOK, ReplaceStore, rlockVars, flockVars
  <1>3. \A u \in Threads :
           /\ thread'[u].pc = thread[u].pc /\ thread'[u].via = thread[u].via
           /\ u # t => thread'[u] = thread[u]
    BY <1>1
  <1>4. UNCHANGED <<alive, rlockVars, flockVars>>
    BY DEF ReplaceStore
  <1>5. LockInvariant'
    BY <1>3, <1>4, LocksKept
  <1>6. Covered' /\ NoLostUpdate'
    <2>1. thread'[t].writing = "unlink"
      BY <1>1
    <2>2. thread[t].writing = "replace" /\ UNCHANGED <<sentinel, updates>>
      BY DEF ReplaceStore
    <2>3. store' = store + 1
      BY <2>2 DEF IInv, Covered, ReplaceStore
    <2>4. \A u \in Threads : u # t => thread[u].writing = "no"
      BY <2>2 DEF IInv, Covered
    <2>5. store \in Nat /\ updates.done \in Nat
      BY DEF IInv, TypeOK
    <2> QED
      BY <1>3, <2>1, <2>2, <2>3, <2>4, <2>5 DEF IInv, Covered, NoLostUpdate
  <1> QED
    BY <1>2, <1>5, <1>6 DEF IInv

LEMMA WriteFailsInv ==
  ASSUME NEW t \in Threads, IInv, WriteFails(t) PROVE IInv'
  <1> USE NullIsNone
  <1>1. /\ thread' \in [Threads -> Thread]
        /\ thread'[t].writing = "no" /\ thread'[t].read = 0
        /\ \A u \in Threads :
              /\ thread'[u].pc = thread[u].pc /\ thread'[u].via = thread[u].via
              /\ u # t => thread'[u] = thread[u]
    <2> DEFINE moved == WithWriting(thread, t, "no")
    <2>1. thread' = WithRead(moved, t, 0) /\ 0 \in Nat
      BY DEF IInv, TypeOK, WriteFails, WithRead, WithWriting
    <2>2. moved \in [Threads -> Thread] /\ moved[t].writing = "no"
          /\ \A u \in Threads :
                /\ moved[u].pc = thread[u].pc /\ moved[u].via = thread[u].via
                /\ u # t => moved[u] = thread[u]
      BY SetWriting DEF IInv, TypeOK
    <2> HIDE DEF moved
    <2> QED
      BY <2>1, <2>2, SetRead
  <1>2. TypeOK'
    BY <1>1 DEF IInv, TypeOK, WriteFails, rlockVars, flockVars
  <1>3. \A u \in Threads :
           /\ thread'[u].pc = thread[u].pc /\ thread'[u].via = thread[u].via
           /\ u # t => thread'[u] = thread[u]
    BY <1>1
  <1>4. UNCHANGED <<alive, rlockVars, flockVars>>
    BY DEF WriteFails
  <1>5. LockInvariant'
    BY <1>3, <1>4, LocksKept
  <1>6. Covered' /\ NoLostUpdate'
    <2>1. thread'[t].writing = "no"
      BY <1>1
    <2>2. thread[t].writing # "no" /\ UNCHANGED <<store, updates>>
      BY DEF WriteFails
    <2>3. \A u \in Threads : u # t => thread[u].writing = "no"
      BY <2>2 DEF IInv, Covered
    <2> QED
      BY <1>3, <2>1, <2>2, <2>3 DEF IInv, Covered, NoLostUpdate
  <1> QED
    BY <1>2, <1>5, <1>6 DEF IInv

LEMMA UnlinkSentinelInv ==
  ASSUME NEW t \in Threads, IInv, UnlinkSentinel(t) PROVE IInv'
  <1> USE NullIsNone
  <1>1. /\ thread' \in [Threads -> Thread] /\ thread'[t].writing = "no"
        /\ \A u \in Threads :
              /\ thread'[u].pc = thread[u].pc /\ thread'[u].via = thread[u].via
              /\ u # t => thread'[u] = thread[u]
    <2>1. thread' = WithWriting(thread, t, "no")
      BY DEF IInv, TypeOK, UnlinkSentinel, WithWriting
    <2> QED
      BY <2>1, SetWriting DEF IInv, TypeOK
  <1>2. TypeOK'
    BY <1>1 DEF IInv, TypeOK, UnlinkSentinel, rlockVars, flockVars
  <1>3. \A u \in Threads :
           /\ thread'[u].pc = thread[u].pc /\ thread'[u].via = thread[u].via
           /\ u # t => thread'[u] = thread[u]
    BY <1>1
  <1>4. UNCHANGED <<alive, rlockVars, flockVars>>
    BY DEF UnlinkSentinel
  <1>5. LockInvariant'
    BY <1>3, <1>4, LocksKept
  <1>6. Covered' /\ NoLostUpdate'
    <2>1. thread'[t].writing = "no"
      BY <1>1
    <2>2. thread[t].writing = "unlink" /\ store' = store
      BY DEF UnlinkSentinel
    <2>3. updates'.done = updates.done + 1
      BY DEF IInv, TypeOK, UnlinkSentinel
    <2>4. \A u \in Threads : u # t => thread[u].writing = "no"
      BY <2>2 DEF IInv, Covered
    <2> QED
      BY <1>3, <2>1, <2>2, <2>3, <2>4 DEF IInv, Covered, NoLostUpdate
  <1> QED
    BY <1>2, <1>5, <1>6 DEF IInv

LEMMA RemoveStaleInv ==
  ASSUME IInv, RemoveStale PROVE IInv'
  <1>1. TypeOK'
    BY DEF IInv, TypeOK, RemoveStale, rlockVars, flockVars
  <1>2. LockInvariant'
    BY LocksKept DEF RemoveStale
  <1>3. \A u \in Threads : thread[u].writing = "no"
    BY DEF IInv, Covered, RemoveStale
  <1>4. Covered' /\ NoLostUpdate'
    BY <1>3 DEF IInv, Covered, NoLostUpdate, RemoveStale
  <1> QED
    BY <1>1, <1>2, <1>4 DEF IInv

-----------------------------------------------------------------------------
LEMMA NextInv == IInv /\ [Next]_vars => IInv'
  <1> SUFFICES ASSUME IInv, [Next]_vars PROVE IInv'
    OBVIOUS
  <1>1. CASE UNCHANGED vars
    <2>1. TypeOK'
      BY <1>1 DEF IInv, TypeOK, vars
    <2>2. UNCHANGED thread /\ UNCHANGED <<alive, rlockVars, flockVars>> /\ UNCHANGED fileVars
      BY <1>1 DEF vars, rlockVars, flockVars, fileVars
    <2> QED
      BY <2>1, <2>2, StoreKept, LocksKept DEF IInv
  <1>2. ASSUME NEW t \in Threads,
               \/ \E d \in Procs : EnterProcess(t, d)
               \/ RootRefused(t) \/ Lock(t)
               \/ LockRefused(t) \/ Nest(t) \/ Leave(t) \/ Unlock(t)
        PROVE  IInv'
    BY <1>2, EnterProcessInv, RootRefusedInv, LockInv, LockRefusedInv, NestInv,
       LeaveInv, UnlockInv
  <1>3. ASSUME NEW t \in Threads,
               \/ CreateSentinel(t) \/ ReadStore(t) \/ ReplaceStore(t)
               \/ WriteFails(t) \/ UnlinkSentinel(t)
        PROVE  IInv'
    BY <1>3, CreateSentinelInv, ReadStoreInv, ReplaceStoreInv, WriteFailsInv,
       UnlinkSentinelInv
  <1>4. ASSUME NEW p \in Procs, NEW q \in Procs, Fork(p, q) PROVE IInv'
    BY <1>4, ForkInv
  <1>5. ASSUME NEW p \in Procs, Start(p) \/ CloseInherited(p) \/ Crash(p)
        PROVE  IInv'
    BY <1>5, StartInv, CloseInheritedInv, CrashInv
  <1>6. CASE RemoveStale
    BY <1>6, RemoveStaleInv
  <1> QED
    BY <1>1, <1>2, <1>3, <1>4, <1>5, <1>6 DEF Next

LEMMA InductiveInvariant == Spec => []IInv
  BY InitInv, NextInv, PTL DEF Spec

\* One owner of the authority lock at a time: AuthorityTransactionLock.acquire
\* with nested entries, forked children that share the file, and crashes.
THEOREM OneOwner == Spec => []AuthorityExclusive
  BY InductiveInvariant, InvImplies, PTL

\* No acknowledged update of a store is lost: exclusive_file_lock around the
\* read and the atomic_write_json, with or without the authority lock.
THEOREM UpdatesKept == Spec => []NoLostUpdate
  BY InductiveInvariant, InvImplies, PTL

\* What can make acquire raise "busy": an owner, a forked child that has not
\* yet closed its copy, an RLock that prepare_storage_root left taken, or the
\* RLock of a lock object older than the fork that somebody had at the fork.
THEOREM BusyIsExplained == Spec => []BusyOnlyIfOwned
  BY InductiveInvariant, InvImplies, PTL

=============================================================================
