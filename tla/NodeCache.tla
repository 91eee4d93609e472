------------------------------ MODULE NodeCache ------------------------------
(***************************************************************************)
(* cache.go: loadNodeCache and saveNodeCache, and the lines of main        *)
(* (main.go) and getNodeInfo (routes.go) that use them.  Several processes *)
(* share the cache file and the lock file.  Each has two goroutines that   *)
(* may save: main when it returns, and the one that waits for Ctrl+C.      *)
(* Every save opens the lock file anew, so the two exclude each other as   *)
(* two processes do.                                                       *)
(***************************************************************************)
EXTENDS Naturals

CONSTANTS
  Processes,
  Nodes,
  Lifetime,   \* params.NodeCacheLifetime
  Interrupts, \* the processes that may get Ctrl+C
  Faults,     \* what else may happen to them
  MaxTime     \* bound on the clock

NoThread == <<"none", "none">>
PossibleFaults == {"kill", "write", "lock"}

ASSUME NodeCacheAssumption ==
  /\ Interrupts \subseteq Processes
  /\ Faults \subseteq PossibleFaults
  /\ Lifetime \in Nat /\ MaxTime \in Nat \ {0}

VARIABLES
  file,      \* the update times in the cache file
  whole,     \* the file is complete, or there is none
  nodeCache, \* r.nodeCache of each process, as update times
  readers, writer, \* who holds the lock
  pc,        \* where each goroutine is
  now

vars == <<file, whole, nodeCache, readers, writer, pc, now>>

Main(p) == <<p, "main">>
Signal(p) == <<p, "signal">>
Threads == Processes \X {"main", "signal"}
Process(t) == t[1]

Empty == [n \in Nodes |-> 0]

Init ==
  /\ file = Empty
  /\ whole = TRUE
  /\ nodeCache = [p \in Processes |-> Empty]
  /\ readers = {}
  /\ writer = NoThread
  /\ pc = [t \in Threads |-> IF t[2] = "main" THEN "load" ELSE "idle"]
  /\ now = 1

-----------------------------------------------------------------------------
(* Mutations used to show that the properties can fail.                    *)
MutMerged(own, old) == own
MutRUnlock(p) ==
  /\ pc[Main(p)] = "loaded"
  /\ pc' = [pc EXCEPT ![Main(p)] = "run"]
  /\ UNCHANGED <<file, whole, nodeCache, readers, writer, now>>
MutGetNodeInfo(p, n) ==
  /\ pc[Main(p)] = "run"
  /\ nodeCache[p][n] = 0
  /\ nodeCache' = [nodeCache EXCEPT ![p][n] = now + Lifetime]
  /\ UNCHANGED <<file, whole, readers, writer, pc, now>>

-----------------------------------------------------------------------------
Goto(t, place) == pc' = [pc EXCEPT ![t] = place]

\* What loadNodeCache finds: the nodes of the file that are not too old.  A
\* file that was cut off gives an error and no nodes.
Readable ==
  [n \in Nodes |-> IF whole /\ now - file[n] <= Lifetime THEN file[n] ELSE 0]

\* The nodes of the file that are missing, or older, in our own cache.
Merged(own, old) == [n \in Nodes |-> IF own[n] < old[n] THEN old[n] ELSE own[n]]

\* The process is gone, and its locks with it.
Ends(p) ==
  /\ pc' = [t \in Threads |-> IF Process(t) = p THEN "gone" ELSE pc[t]]
  /\ readers' = readers \ {Main(p)}
  /\ writer' = IF writer \in {Main(p), Signal(p)} THEN NoThread ELSE writer
  /\ UNCHANGED <<file, whole, nodeCache, now>>

\* main loads the cache under a shared lock.
RLock(p) ==
  /\ pc[Main(p)] = "load"
  /\ writer = NoThread
  /\ readers' = readers \cup {Main(p)}
  /\ Goto(Main(p), "read")
  /\ UNCHANGED <<file, whole, nodeCache, writer, now>>
RLockFails(p) ==
  /\ pc[Main(p)] = "load" /\ "lock" \in Faults
  /\ Goto(Main(p), "run")
  /\ UNCHANGED <<file, whole, nodeCache, readers, writer, now>>
loadNodeCache(p) ==
  /\ pc[Main(p)] = "read"
  /\ nodeCache' = [nodeCache EXCEPT ![p] = Readable]
  /\ Goto(Main(p), "loaded")
  /\ UNCHANGED <<file, whole, readers, writer, now>>
RUnlock(p) ==
  /\ pc[Main(p)] = "loaded"
  /\ readers' = readers \ {Main(p)}
  /\ Goto(Main(p), "run")
  /\ UNCHANGED <<file, whole, nodeCache, writer, now>>

\* getNodeInfo asks lnd for a node that is not in the cache.
getNodeInfo(p, n) ==
  /\ pc[Main(p)] = "run"
  /\ nodeCache[p][n] = 0
  /\ nodeCache' = [nodeCache EXCEPT ![p][n] = now]
  /\ UNCHANGED <<file, whole, readers, writer, pc, now>>

\* main returns, and its deferred save begins.
Return(p) ==
  /\ pc[Main(p)] = "run"
  /\ Goto(Main(p), "wait")
  /\ UNCHANGED <<file, whole, nodeCache, readers, writer, now>>

\* Ctrl+C, once its handler is there.
Interrupt(p) ==
  /\ p \in Interrupts
  /\ pc[Signal(p)] = "idle"
  /\ pc[Main(p)] \notin {"load", "read", "loaded"}
  /\ Goto(Signal(p), "wait")
  /\ UNCHANGED <<file, whole, nodeCache, readers, writer, now>>

\* saveNodeCache: lock, merge the file into our cache, create the file anew,
\* write it, unlock.
Lock(t) ==
  /\ pc[t] = "wait"
  /\ writer = NoThread /\ readers = {}
  /\ writer' = t
  /\ Goto(t, "merge")
  /\ UNCHANGED <<file, whole, nodeCache, readers, now>>
LockFails(t) ==
  /\ pc[t] = "wait" /\ "lock" \in Faults
  /\ Goto(t, "exit")
  /\ UNCHANGED <<file, whole, nodeCache, readers, writer, now>>
Merge(t) ==
  /\ pc[t] = "merge"
  /\ nodeCache' = [nodeCache EXCEPT ![Process(t)] = Merged(@, Readable)]
  /\ Goto(t, "create")
  /\ UNCHANGED <<file, whole, readers, writer, now>>
Create(t) ==
  /\ pc[t] = "create"
  /\ file' = Empty
  /\ whole' = FALSE
  /\ Goto(t, "encode")
  /\ UNCHANGED <<nodeCache, readers, writer, now>>
CreateFails(t) ==
  /\ pc[t] = "create" /\ "write" \in Faults
  /\ Goto(t, "unlock")
  /\ UNCHANGED <<file, whole, nodeCache, readers, writer, now>>
Encode(t) ==
  /\ pc[t] = "encode"
  /\ file' = nodeCache[Process(t)]
  /\ whole' = TRUE
  /\ Goto(t, "unlock")
  /\ UNCHANGED <<nodeCache, readers, writer, now>>
EncodeFails(t) ==
  /\ pc[t] = "encode" /\ "write" \in Faults
  /\ Goto(t, "unlock")
  /\ UNCHANGED <<file, whole, nodeCache, readers, writer, now>>
Unlock(t) ==
  /\ pc[t] = "unlock"
  /\ writer' = NoThread
  /\ Goto(t, "exit")
  /\ UNCHANGED <<file, whole, nodeCache, readers, now>>

\* os.Exit ends the process, whatever its other goroutine does.
Exit(t) ==
  /\ pc[t] = "exit"
  /\ Ends(Process(t))

\* The two goroutines use the map at the same time, and Go aborts the process
\* if it notices: main runs while the other one merges or encodes.
ConcurrentMapAccess(p) ==
  /\ pc[Main(p)] = "run"
  /\ pc[Signal(p)] \in {"merge", "encode"}
  /\ Ends(p)

Kill(p) ==
  /\ "kill" \in Faults
  /\ pc[Main(p)] # "gone"
  /\ Ends(p)

Tick ==
  /\ now < MaxTime
  /\ now' = now + 1
  /\ UNCHANGED <<file, whole, nodeCache, readers, writer, pc>>

load(p) == RLock(p) \/ loadNodeCache(p) \/ RUnlock(p)
save(t) ==
  \/ Lock(t) \/ Merge(t) \/ Create(t) \/ CreateFails(t)
  \/ Encode(t) \/ EncodeFails(t) \/ Unlock(t) \/ Exit(t)

Next ==
  \/ \E p \in Processes :
       \/ load(p) \/ RLockFails(p) \/ Return(p) \/ Interrupt(p) \/ ConcurrentMapAccess(p) \/ Kill(p)
       \/ \E n \in Nodes : getNodeInfo(p, n)
  \/ \E t \in Threads : save(t) \/ LockFails(t)
  \/ Tick

\* The scheduler runs every goroutine, and the system grants a lock that stays
\* free.  Nothing forces a process to end or a lock to fail.
Spec ==
  /\ Init /\ [][Next]_vars
  /\ \A p \in Processes : WF_vars(load(p))
  /\ \A t \in Threads : WF_vars(save(t))

-----------------------------------------------------------------------------
Places == {"load", "read", "loaded", "run", "idle", "wait", "merge", "create",
           "encode", "unlock", "exit", "gone"}
Times == 0 .. MaxTime

\* Type invariant of the cache file, the lock and the processes.
TypeOK ==
  /\ file \in [Nodes -> Times] /\ whole \in BOOLEAN
  /\ nodeCache \in [Processes -> [Nodes -> Times]]
  /\ readers \subseteq Threads /\ writer \in Threads \cup {NoThread}
  /\ pc \in [Threads -> Places]
  /\ now \in Times

\* What the file holds, or is about to hold, once it was created anew.
encoding == writer # NoThread /\ pc[writer] = "encode"
shared == IF encoding THEN nodeCache[Process(writer)] ELSE file
torn == ~whole /\ ~encoding
Shared == INSTANCE SharedCache WITH
  cache <- shared,
  MayTear <- Interrupts # {} \/ Faults \cap {"kill", "write"} # {}

(* Instances that share a cache file lose nothing another one stored but   *)
(* to a save that is cut short: every other save is a merge in which the   *)
(* newer update wins, whatever the locks and the goroutines do.            *)
ImplementsShared == Shared!SharedSpec

(* Whoever wants to load or to save gets the lock in the end and leaves,    *)
(* also when others, or its own other goroutine, die with the lock.         *)
LockIsGranted ==
  /\ \A p \in Processes : pc[Main(p)] = "load" ~> pc[Main(p)] \in {"run", "gone"}
  /\ \A t \in Threads : pc[t] = "wait" ~> pc[t] = "gone"
=============================================================================
