------------------------------ MODULE PrivateSocket ------------------------------
(***************************************************************************)
(* The owner-private Unix socket of a service: servers that start          *)
(* (listenPrivateUnix) and end (privateListener.Close), and Uninstall's    *)
(* removal of an inactive socket, all under one flock beside the socket.   *)
(* A server that dies leaves its socket behind, and the kernel drops its   *)
(* lock and its listener.  Sockets are told apart by inode.                *)
(***************************************************************************)
EXTENDS Naturals

CONSTANTS Procs,    \* processes that serve on the socket or remove it
          NoProc,   \* the lock is free
          MaxInode  \* bound: sockets ever bound at the path

ASSUME ProcsAssumption == NoProc \notin Procs
ASSUME InodeAssumption == MaxInode \in Nat

VARIABLES
    path,      \* the inode at the socket path, 0 when there is none
    made,      \* sockets bound so far
    live,      \* inodes somebody listens on
    lock,      \* holder of the flock
    where,     \* where each process stands
    bound,     \* per process: the socket it bound
    stat,      \* per process: the identity it recorded
    foreign    \* the sockets of programs that ignore the lock

socketVars == <<path, made, live, lock, where, bound, stat, foreign>>

Places == {"idle", "locked", "stale", "bind", "listen", "inspect", "protect", "serving",
           "close", "compare", "unlink", "unlock",
           "captured", "remover.probe", "remover.compare", "remover.unlink"}

\* Every variable holds a value of its type, and nothing names a socket that
\* was not made yet.
SocketTypeOK ==
    /\ made \in 0..MaxInode /\ path \in 0..made
    /\ live \subseteq 1..made
    /\ lock \in Procs \cup {NoProc}
    /\ where \in [Procs -> Places]
    /\ bound \in [Procs -> 0..made] /\ stat \in [Procs -> 0..made]
    /\ foreign \subseteq 1..made

SocketInit ==
    /\ path = 0 /\ made = 0 /\ live = {} /\ lock = NoProc
    /\ where = [p \in Procs |-> "idle"]
    /\ bound = [p \in Procs |-> 0] /\ stat = [p \in Procs |-> 0]
    /\ foreign = {}

MovesTo(p, place) == where' = [where EXCEPT ![p] = place]

\* A return without the socket drops the lock.
Leave(p) ==
    /\ MovesTo(p, "idle")
    /\ lock' = IF lock = p THEN NoProc ELSE lock
    /\ bound' = [bound EXCEPT ![p] = 0] /\ stat' = [stat EXCEPT ![p] = 0]

(***************************************************************************)
(* listenPrivateUnix.                                                      *)
(***************************************************************************)
\* A mistake the run must notice: the flock is not exclusive.
AcquireShared(p) ==
    /\ where[p] = "idle"
    /\ lock' = p
    /\ MovesTo(p, "locked")
    /\ UNCHANGED <<path, made, live, bound, stat, foreign>>

\* LOCK_NB: a held lock is ErrSocketActive, and nothing happens.
AcquireLock(p) ==
    /\ where[p] = "idle" /\ lock = NoProc
    /\ lock' = p
    /\ MovesTo(p, "locked")
    /\ UNCHANGED <<path, made, live, bound, stat, foreign>>

\* A socket nobody listens on refuses the connection.  So does one that is
\* bound and does not listen yet.  Any other dial error is a failure.
ProbeStale(p) ==
    /\ where[p] = "locked"
    /\ \/ path = 0 /\ MovesTo(p, "bind") /\ UNCHANGED <<lock, bound, stat>>
       \/ path # 0 /\ path \notin live /\ MovesTo(p, "stale") /\ UNCHANGED <<lock, bound, stat>>
       \/ path # 0 /\ Leave(p)
    /\ UNCHANGED <<path, made, live, foreign>>

RemoveStale(p) ==
    /\ where[p] = "stale"
    /\ \/ path # 0 /\ path' = 0 /\ MovesTo(p, "bind") /\ UNCHANGED <<lock, bound, stat>>
       \/ Leave(p) /\ UNCHANGED path
    /\ UNCHANGED <<made, live, foreign>>

\* net.Listen: bind, then listen.
Bind(p) ==
    /\ where[p] = "bind"
    /\ \/ /\ path = 0 /\ made < MaxInode
          /\ made' = made + 1 /\ path' = made + 1
          /\ bound' = [bound EXCEPT ![p] = made + 1]
          /\ MovesTo(p, "listen")
          /\ UNCHANGED <<lock, stat>>
       \/ Leave(p) /\ UNCHANGED <<path, made>>
    /\ UNCHANGED <<live, foreign>>

Listen(p) ==
    /\ where[p] = "listen"
    /\ live' = live \cup {bound[p]}
    /\ MovesTo(p, "inspect")
    /\ UNCHANGED <<path, made, lock, bound, stat, foreign>>

\* A mistake: a start that fails here leaves its listener open.
InspectLeaves(p) ==
    /\ where[p] = "inspect"
    /\ \/ /\ path # 0
          /\ stat' = [stat EXCEPT ![p] = path]
          /\ MovesTo(p, "protect")
          /\ UNCHANGED <<lock, bound>>
       \/ Leave(p)
    /\ UNCHANGED <<path, made, live, foreign>>

\* Lstat takes the identity of whatever is at the path; a failure closes the new
\* listener and leaves its socket at the path, stale.
InspectCreated(p) ==
    /\ where[p] = "inspect"
    /\ \/ /\ path # 0
          /\ stat' = [stat EXCEPT ![p] = path]
          /\ MovesTo(p, "protect")
          /\ UNCHANGED <<lock, bound, live>>
       \/ Leave(p) /\ live' = live \ {bound[p]}
    /\ UNCHANGED <<path, made, foreign>>

\* Ownership and chmod; a failure closes the new listener again.
Protect(p) ==
    /\ where[p] = "protect"
    /\ MovesTo(p, "serving") \/ MovesTo(p, "close")
    /\ UNCHANGED <<path, made, live, lock, bound, stat, foreign>>

(***************************************************************************)
(* privateListener.Close.                                                  *)
(***************************************************************************)
CloseListener(p) ==
    /\ where[p] \in {"serving", "close"}
    /\ live' = live \ {bound[p]}
    /\ MovesTo(p, "compare")
    /\ UNCHANGED <<path, made, lock, bound, stat, foreign>>

\* A mistake: whatever is at the path is taken for the own socket.
CompareNothing(p) ==
    /\ where[p] = "compare"
    /\ MovesTo(p, "unlink")
    /\ UNCHANGED <<path, made, live, lock, bound, stat, foreign>>

\* Only the socket this process created is removed.
ComparePath(p) ==
    /\ where[p] = "compare"
    /\ \/ path = stat[p] /\ MovesTo(p, "unlink")
       \/ path # stat[p] /\ MovesTo(p, "unlock")
    /\ UNCHANGED <<path, made, live, lock, bound, stat, foreign>>

UnlinkOwn(p) ==
    /\ where[p] = "unlink"
    /\ path' = 0
    /\ MovesTo(p, "unlock")
    /\ UNCHANGED <<made, live, lock, bound, stat, foreign>>

Unlock(p) ==
    /\ where[p] = "unlock"
    /\ Leave(p)
    /\ UNCHANGED <<path, made, live, foreign>>

(***************************************************************************)
(* removeInactiveLifecycleSocket: the identity is captured before the lock *)
(* is taken and compared again when the file is removed.                   *)
(***************************************************************************)
CaptureSocket(p) ==
    /\ where[p] = "idle" /\ path # 0
    /\ stat' = [stat EXCEPT ![p] = path]
    /\ MovesTo(p, "captured")
    /\ UNCHANGED <<path, made, live, lock, bound, foreign>>

RemoverLocks(p) ==
    /\ where[p] = "captured"
    /\ \/ lock = NoProc /\ lock' = p /\ MovesTo(p, "remover.probe") /\ UNCHANGED <<bound, stat>>
       \/ lock # NoProc /\ Leave(p)
    /\ UNCHANGED <<path, made, live, foreign>>

RemoverProbes(p) ==
    /\ where[p] = "remover.probe"
    /\ \/ path \notin live /\ MovesTo(p, "remover.compare") /\ UNCHANGED <<lock, bound, stat>>
       \/ Leave(p)
    /\ UNCHANGED <<path, made, live, foreign>>

RemoverRemoves(p) ==
    /\ UNCHANGED <<made, live, foreign>>
    /\ \/ /\ where[p] = "remover.compare"
          /\ \/ path = stat[p] /\ MovesTo(p, "remover.unlink") /\ UNCHANGED <<lock, bound, stat>>
             \/ path # stat[p] /\ Leave(p)
          /\ UNCHANGED path
       \/ /\ where[p] = "remover.unlink"
          /\ path' = 0
          /\ Leave(p)

(***************************************************************************)
(* Deaths, and programs that ignore the lock.                              *)
(***************************************************************************)
Crash(p) ==
    /\ where[p] # "idle"
    /\ live' = live \ {bound[p]}
    /\ Leave(p)
    /\ UNCHANGED <<path, made, foreign>>

\* Removes the socket and listens on one of its own.  Not from the probe of a path to
\* the removal it guards, nor from the bind to the Lstat that takes the new socket's
\* identity from the path: nothing done by path can exclude that.
Replace ==
    /\ \A p \in Procs : where[p] \in {"idle", "serving", "close", "captured"}
    /\ made < MaxInode
    /\ made' = made + 1 /\ path' = made + 1
    /\ live' = live \cup {made + 1}
    /\ foreign' = foreign \cup {made + 1}
    /\ UNCHANGED <<lock, where, bound, stat>>

ProcNext(p) ==
    \/ AcquireLock(p) \/ ProbeStale(p) \/ RemoveStale(p) \/ Bind(p) \/ Listen(p)
    \/ InspectCreated(p) \/ Protect(p) \/ CloseListener(p) \/ ComparePath(p)
    \/ UnlinkOwn(p) \/ Unlock(p)
    \/ CaptureSocket(p) \/ RemoverLocks(p) \/ RemoverProbes(p) \/ RemoverRemoves(p)
    \/ Crash(p)

SocketNext == (\E p \in Procs : ProcNext(p)) \/ Replace

SocketSpec == SocketInit /\ [][SocketNext]_socketVars

(***************************************************************************)
(* Properties.                                                             *)
(***************************************************************************)
\* A server that listenPrivateUnix returned to Serve is reachable: the path leads to
\* its listener, unless a program outside the protocol took the path over.
\* In particular two servers never serve at once.
ServerIsReachable ==
    \A p \in Procs :
        where[p] = "serving" => bound[p] \in live /\ (path = bound[p] \/ path \in foreign)

\* No start, close or uninstall removes a socket somebody listens on, also one
\* that replaced the server's own (TestPrivateListenerClosePreservesReplacementSocket).
LiveSocketsStay ==
    [][path' # path /\ path \in live => path' \in foreign' \ foreign]_socketVars

\* The places of a process that has nothing of the socket's, and those of one that
\* listens.
Elsewhere == {"idle", "captured"}
Listening == {"inspect", "protect", "serving", "close"}

\* A start that failed at any call, a Close and a removal leave nothing that would refuse
\* the next start (listenPrivateUnix's deferred lock.Close, listener.Close in its error
\* paths, privateListener.Close): a lock has a holder that is not done yet, a listener a
\* server that will close it, and a Close that is done left no socket of its own.
NothingIsLeft ==
    /\ SocketTypeOK
    /\ \A p \in Procs : lock = p => where[p] \notin Elsewhere
    /\ \A i \in live \ foreign : \E p \in Procs : bound[p] = i /\ where[p] \in Listening
    /\ \A p \in Procs : where[p] = "unlock" => path # bound[p]
=============================================================================
