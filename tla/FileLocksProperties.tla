------------------------ MODULE FileLocksProperties ------------------------
(* What the locks promise: properties of FileLocks.                        *)
EXTENDS FileLocks

Owns(t) == thread[t].pc \in {"in", "leaving"}

\* One writer: of all threads of all processes, forked ones included, one at
\* most is inside the authority lock.
AuthorityExclusive ==
    \A t, u \in Threads : Owns(t) /\ Owns(u) => t = u

\* The store loses no acknowledged update, although two callers may read and
\* replace it without the authority lock, and a crash may come at any point.
NoLostUpdate == store >= updates.done

\* What makes acquire raise "busy" is somebody who owns the lock, and no crash
\* leaves it behind.  The exceptions: a forked child for the moment until it has
\* closed its copy of the file; an RLock that was not released because
\* prepare_storage_root raised; and, in a forked child, a lock object that was
\* built before the fork and whose RLock some thread had taken by then: nobody
\* releases that one, while lock objects built after the fork are free of it.
BusyOnlyIfOwned ==
    /\ flock # NULL => Owns(flock) \/ copies \cap closing # {}
    /\ \A p \in Procs, d \in Procs : rlock[p][d] # NULL =>
         \/ thread[rlock[p][d]].pc # "out" /\ thread[rlock[p][d]].via = d
         \/ <<p, d>> \in leaked
         \/ d # p /\ d \in inherited[p]

=============================================================================
