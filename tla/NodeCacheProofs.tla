--------------------------- MODULE NodeCacheProofs ---------------------------
(***************************************************************************)
(* Proofs about NodeCache, for any number of processes and nodes, any      *)
(* faults and any lifetime.  What makes it work is that whoever is between *)
(* lock and unlock is alone there, and that what it is about to write is   *)
(* no older than what the file holds.                                      *)
(***************************************************************************)
EXTENDS NodeCache, TLAPS

Saving == {"merge", "create", "encode", "unlock"}

\* No update lies in the future.
NotAhead ==
  /\ \A n \in Nodes : file[n] <= now
  /\ \A p \in Processes : \A n \in Nodes : nodeCache[p][n] <= now

\* A goroutine that saves holds the lock, and the holder is saving.
Exclusive ==
  /\ \A t \in Threads : pc[t] \in Saving => writer = t
  /\ writer # NoThread => writer \in Threads /\ pc[writer] \in Saving

\* Ctrl+C is handled only where it may come, and after the cache was loaded.
Handled ==
  \A p \in Processes :
    pc[Signal(p)] \notin {"idle", "gone"} =>
      p \in Interrupts /\ pc[Main(p)] \notin {"load", "read", "loaded"}

\* A file that is not complete is empty.
EmptyOrWhole == whole \/ file = Empty

\* After the merge a cache has all that is in the file.
UpToDate ==
  \A t \in Threads :
    pc[t] = "create" => \A n \in Nodes : Readable[n] <= nodeCache[Process(t)][n]

CacheInv == TypeOK /\ NotAhead /\ Exclusive /\ Handled /\ EmptyOrWhole /\ UpToDate

-----------------------------------------------------------------------------
LEMMA ThreadFacts ==
  /\ \A p \in Processes :
       /\ Main(p) \in Threads /\ Signal(p) \in Threads
       /\ Process(Main(p)) = p /\ Process(Signal(p)) = p
  /\ \A p, q \in Processes : Main(p) # Signal(q) /\ (p # q => Main(p) # Main(q) /\ Signal(p) # Signal(q))
  /\ \A t \in Threads :
       Process(t) \in Processes /\ (t = Main(Process(t)) \/ t = Signal(Process(t)))
  /\ NoThread \notin Threads
BY DEF Main, Signal, Threads, Process, NoThread

\* What may be read is in the file, and not in the future.
LEMMA ReadableType ==
  ASSUME TypeOK, NotAhead
  PROVE  /\ Readable \in [Nodes -> Times]
         /\ \A n \in Nodes : Readable[n] <= now /\ Readable[n] <= file[n]
BY NodeCacheAssumption DEF TypeOK, NotAhead, Readable, Times

\* A merge takes the newer update of each node.
LEMMA MergedType ==
  ASSUME NEW c \in [Nodes -> Times], NEW d \in [Nodes -> Times]
  PROVE  /\ Merged(c, d) \in [Nodes -> Times]
         /\ \A n \in Nodes : /\ d[n] <= Merged(c, d)[n]
                             /\ Merged(c, d)[n] \in {c[n], d[n]}
BY NodeCacheAssumption DEF Merged, Times

LEMMA CacheInit == Init => CacheInv
<1> SUFFICES ASSUME Init PROVE CacheInv
  OBVIOUS
<1>1. TypeOK /\ NotAhead /\ EmptyOrWhole
  BY ThreadFacts, NodeCacheAssumption DEF Init, TypeOK, NotAhead, EmptyOrWhole, Empty, Times, Places
<1>2. \A t \in Threads : pc[t] \in {"load", "idle"}
  BY DEF Init
<1>3. \A p \in Processes : pc[Signal(p)] = "idle"
  BY DEF Init, Threads, Signal
<1> QED
  BY <1>1, <1>2, <1>3 DEF CacheInv, Exclusive, Handled, UpToDate, Saving, Init

-----------------------------------------------------------------------------
\* The end of a process, for whatever reason.
LEMMA EndsStep ==
  ASSUME CacheInv, NEW p \in Processes, Ends(p)
  PROVE  CacheInv'
<1> USE DEF CacheInv, Ends
<1>1. pc' = [t \in Threads |-> IF Process(t) = p THEN "gone" ELSE pc[t]]
  OBVIOUS
<1>2. TypeOK'
  BY DEF TypeOK, Places
<1>3. Exclusive'
  <2>1. \A t \in Threads : pc'[t] \in Saving => pc[t] \in Saving /\ Process(t) # p
    BY <1>1 DEF Saving
  <2>2. writer \in Threads => (writer \in {Main(p), Signal(p)} <=> Process(writer) = p)
    BY ThreadFacts
  <2>3. writer' = IF writer \in {Main(p), Signal(p)} THEN NoThread ELSE writer
    OBVIOUS
  <2>4. \A t \in Threads : pc'[t] \in Saving => writer' = t
    BY <2>1, <2>2, <2>3 DEF Exclusive
  <2>5. ASSUME writer' # NoThread PROVE writer' \in Threads /\ pc'[writer'] \in Saving
    <3>1. writer' = writer /\ writer \in Threads /\ pc[writer] \in Saving /\ Process(writer) # p
      BY <2>2, <2>3, <2>5 DEF Exclusive
    <3> QED
      BY <3>1, <1>1
  <2> QED
    BY <2>4, <2>5 DEF Exclusive
<1>4. Handled'
  <2>1. ASSUME NEW q \in Processes, pc'[Signal(q)] \notin {"idle", "gone"}
        PROVE  q \in Interrupts /\ pc'[Main(q)] \notin {"load", "read", "loaded"}
    <3>1. q # p
      BY <1>1, <2>1, ThreadFacts
    <3>2. pc'[Signal(q)] = pc[Signal(q)] /\ pc'[Main(q)] = pc[Main(q)]
      BY <1>1, <3>1, ThreadFacts
    <3> QED
      BY <2>1, <3>2 DEF Handled
  <2> QED
    BY <2>1 DEF Handled
<1>5. UpToDate'
  <2>1. \A t \in Threads : pc'[t] = "create" => pc[t] = "create"
    BY <1>1
  <2>2. Readable' = Readable
    BY DEF Readable
  <2> QED
    BY <2>1, <2>2 DEF UpToDate
<1>6. NotAhead' /\ EmptyOrWhole'
  BY DEF NotAhead, EmptyOrWhole, Empty
<1> QED
  BY <1>2, <1>3, <1>4, <1>5, <1>6

-----------------------------------------------------------------------------
\* A goroutine that holds no lock goes where it needs none.
LEMMA FreeStep ==
  ASSUME CacheInv, NEW t \in Threads, NEW place \in Places \ Saving,
         Goto(t, place), pc[t] \notin Saving, readers' \subseteq Threads,
         UNCHANGED <<file, whole, nodeCache, writer, now>>
  PROVE  TypeOK' /\ NotAhead' /\ Exclusive' /\ EmptyOrWhole' /\ UpToDate'
<1> USE DEF CacheInv, Goto
<1>1. pc \in [Threads -> Places] /\ pc' = [pc EXCEPT ![t] = place]
  BY DEF TypeOK
<1>2. \A u \in Threads : pc'[u] = IF u = t THEN place ELSE pc[u]
  BY <1>1
<1>3. TypeOK'
  BY <1>1 DEF TypeOK
<1>4. NotAhead' /\ EmptyOrWhole'
  BY DEF NotAhead, EmptyOrWhole, Empty
<1>5. Exclusive'
  BY <1>2 DEF Exclusive
<1>6. UpToDate'
  <2>1. Readable' = Readable
    BY DEF Readable
  <2> QED
    BY <1>2, <2>1 DEF UpToDate, Saving
<1> QED
  BY <1>3, <1>4, <1>5, <1>6

\* The holder of the lock goes on, with the lock.
LEMMA HolderStep ==
  ASSUME CacheInv, NEW t \in Threads, NEW place \in Saving,
         Goto(t, place), pc[t] \in Saving, UNCHANGED writer
  PROVE  /\ pc' \in [Threads -> Places] /\ Exclusive' /\ Handled'
         /\ \A u \in Threads : pc'[u] = "create" => u = t /\ place = "create"
<1> USE DEF CacheInv, Goto
<1>1. pc \in [Threads -> Places] /\ pc' = [pc EXCEPT ![t] = place] /\ place \in Places
  BY DEF TypeOK, Saving, Places
<1>2. \A u \in Threads : pc'[u] = IF u = t THEN place ELSE pc[u]
  BY <1>1
<1>3. Exclusive'
  BY <1>2 DEF Exclusive
<1>4. Handled'
  <2>1. ASSUME NEW p \in Processes, pc'[Signal(p)] \notin {"idle", "gone"}
        PROVE  p \in Interrupts /\ pc'[Main(p)] \notin {"load", "read", "loaded"}
    <3>1. Signal(p) \in Threads /\ Main(p) \in Threads
      BY ThreadFacts
    <3>2. pc[Signal(p)] \notin {"idle", "gone"}
      BY <1>2, <2>1, <3>1 DEF Saving
    <3> QED
      BY <1>2, <3>1, <3>2 DEF Handled, Saving
  <2> QED
    BY <2>1 DEF Handled
<1>5. \A u \in Threads : u # t => pc'[u] # "create"
  BY <1>2, ThreadFacts DEF Exclusive, Saving
<1> QED
  BY <1>1, <1>2, <1>3, <1>4, <1>5

-----------------------------------------------------------------------------
\* Loading, with its lock, and the other steps of a process that does not save.
LEMMA ProcessStep ==
  ASSUME CacheInv, NEW p \in Processes,
         load(p) \/ RLockFails(p) \/ Return(p) \/ Interrupt(p)
  PROVE  CacheInv'
<1> USE DEF CacheInv
<1>t. /\ Main(p) \in Threads /\ Signal(p) \in Threads /\ Main(p) # Signal(p)
      /\ Process(Main(p)) = p /\ Process(Signal(p)) = p
  BY ThreadFacts
<1>h. ASSUME NEW place, Goto(Main(p), place), pc[Signal(p)] \in {"idle", "gone"}
      PROVE  Handled'
  <2>1. \A u \in Threads : pc'[u] = IF u = Main(p) THEN place ELSE pc[u]
    BY <1>h DEF Goto, TypeOK
  <2>2. ASSUME NEW q \in Processes, pc'[Signal(q)] \notin {"idle", "gone"}
        PROVE  q \in Interrupts /\ pc'[Main(q)] \notin {"load", "read", "loaded"}
    <3>1. Signal(q) \in Threads /\ Signal(q) # Main(p) /\ Main(q) \in Threads
      BY ThreadFacts
    <3>2. q # p
      BY <2>1, <2>2, <3>1, <1>h
    <3>3. Main(q) # Main(p)
      BY <3>2, ThreadFacts
    <3> QED
      BY <2>1, <2>2, <3>1, <3>3 DEF Handled
  <2> QED
    BY <2>2 DEF Handled
<1>s. pc[Main(p)] \in {"load", "read", "loaded"} => pc[Signal(p)] \in {"idle", "gone"}
  BY DEF Handled
<1>1. CASE RLock(p)
  <2>1. /\ Goto(Main(p), "read") /\ pc[Main(p)] = "load" /\ readers' = readers \cup {Main(p)}
        /\ UNCHANGED <<file, whole, nodeCache, writer, now>>
    BY <1>1 DEF RLock
  <2>2. "read" \in Places \ Saving /\ pc[Main(p)] \notin Saving /\ readers' \subseteq Threads
    BY <2>1, <1>t DEF Places, Saving, TypeOK
  <2> QED
    BY <2>1, <2>2, <1>t, <1>s, <1>h, FreeStep
<1>2. CASE RLockFails(p)
  <2>1. /\ Goto(Main(p), "run") /\ pc[Main(p)] = "load" /\ readers' = readers
        /\ UNCHANGED <<file, whole, nodeCache, writer, now>>
    BY <1>2 DEF RLockFails
  <2>2. "run" \in Places \ Saving /\ pc[Main(p)] \notin Saving /\ readers' \subseteq Threads
    BY <2>1, <1>t DEF Places, Saving, TypeOK
  <2> QED
    BY <2>1, <2>2, <1>t, <1>s, <1>h, FreeStep
<1>3. CASE RUnlock(p)
  <2>1. /\ Goto(Main(p), "run") /\ pc[Main(p)] = "loaded" /\ readers' = readers \ {Main(p)}
        /\ UNCHANGED <<file, whole, nodeCache, writer, now>>
    BY <1>3 DEF RUnlock
  <2>2. "run" \in Places \ Saving /\ pc[Main(p)] \notin Saving /\ readers' \subseteq Threads
    BY <2>1, <1>t DEF Places, Saving, TypeOK
  <2> QED
    BY <2>1, <2>2, <1>t, <1>s, <1>h, FreeStep
<1>4. CASE Return(p)
  <2>1. /\ Goto(Main(p), "wait") /\ pc[Main(p)] = "run" /\ readers' = readers
        /\ UNCHANGED <<file, whole, nodeCache, writer, now>>
    BY <1>4 DEF Return
  <2>2. "wait" \in Places \ Saving /\ pc[Main(p)] \notin Saving /\ readers' \subseteq Threads
    BY <2>1, <1>t DEF Places, Saving, TypeOK
  <2>3. Handled'
    <3>1. \A u \in Threads : pc'[u] = IF u = Main(p) THEN "wait" ELSE pc[u]
      BY <2>1 DEF Goto, TypeOK
    <3> QED
      BY <3>1, ThreadFacts DEF Handled
  <2> QED
    BY <2>1, <2>2, <2>3, <1>t, FreeStep
<1>5. CASE Interrupt(p)
  <2>1. /\ Goto(Signal(p), "wait") /\ pc[Signal(p)] = "idle" /\ readers' = readers
        /\ UNCHANGED <<file, whole, nodeCache, writer, now>>
        /\ p \in Interrupts /\ pc[Main(p)] \notin {"load", "read", "loaded"}
    BY <1>5 DEF Interrupt
  <2>2. "wait" \in Places \ Saving /\ pc[Signal(p)] \notin Saving /\ readers' \subseteq Threads
    BY <2>1, <1>t DEF Places, Saving, TypeOK
  <2>3. Handled'
    <3>1. \A u \in Threads : pc'[u] = IF u = Signal(p) THEN "wait" ELSE pc[u]
      BY <2>1 DEF Goto, TypeOK
    <3> QED
      BY <3>1, <2>1, ThreadFacts DEF Handled
  <2> QED
    BY <2>1, <2>2, <2>3, <1>t, FreeStep
<1>6. CASE loadNodeCache(p)
  <2>1. /\ Goto(Main(p), "loaded") /\ pc[Main(p)] = "read" /\ nodeCache' = [nodeCache EXCEPT ![p] = Readable]
        /\ UNCHANGED <<file, whole, readers, writer, now>>
    BY <1>6 DEF loadNodeCache
  <2>2. \A u \in Threads : pc'[u] = IF u = Main(p) THEN "loaded" ELSE pc[u]
    BY <2>1 DEF Goto, TypeOK
  <2>3. Readable \in [Nodes -> Times] /\ \A n \in Nodes : Readable[n] <= now
    BY ReadableType
  <2>4. TypeOK' /\ NotAhead' /\ EmptyOrWhole'
    BY <2>1, <2>3 DEF TypeOK, NotAhead, EmptyOrWhole, Empty, Goto, Places
  <2>5. Exclusive'
    BY <2>1, <2>2, <1>t DEF Exclusive, Saving
  <2>6. UpToDate'
    <3>1. ASSUME NEW u \in Threads, pc'[u] = "create"
          PROVE  \A n \in Nodes : Readable'[n] <= nodeCache'[Process(u)][n]
      <4>1. pc[u] = "create" /\ u # Main(p)
        BY <2>2, <3>1
      <4>2. u # Signal(p)
        BY <4>1, <1>s, <2>1
      <4>3. Process(u) # p /\ Process(u) \in Processes
        BY <4>1, <4>2, ThreadFacts
      <4>4. nodeCache'[Process(u)] = nodeCache[Process(u)]
        BY <2>1, <4>3 DEF TypeOK
      <4>5. Readable' = Readable
        BY <2>1 DEF Readable
      <4> QED
        BY <4>1, <4>4, <4>5 DEF UpToDate
    <3> QED
      BY <3>1 DEF UpToDate
  <2> QED
    BY <2>1, <2>4, <2>5, <2>6, <1>s, <1>h
<1> QED
  BY <1>1, <1>2, <1>3, <1>4, <1>5, <1>6 DEF load

\* A node is added to the cache, which gets no older by it.
LEMMA LookupStep ==
  ASSUME CacheInv, NEW p \in Processes, NEW n \in Nodes, getNodeInfo(p, n)
  PROVE  /\ CacheInv' /\ nodeCache'[p] \in [Nodes -> Times]
         /\ \A m \in Nodes : nodeCache[p][m] <= nodeCache'[p][m] /\ nodeCache'[p][m] <= now
<1> USE DEF CacheInv
<1>1. /\ nodeCache[p][n] = 0 /\ nodeCache' = [nodeCache EXCEPT ![p][n] = now]
      /\ UNCHANGED <<file, whole, readers, writer, pc, now>>
  BY DEF getNodeInfo
<1>2. nodeCache \in [Processes -> [Nodes -> Times]] /\ now \in Times /\ Times \subseteq Nat
  BY NodeCacheAssumption DEF TypeOK, Times
<1>3. /\ nodeCache'[p] \in [Nodes -> Times]
      /\ \A m \in Nodes : nodeCache'[p][m] = IF m = n THEN now ELSE nodeCache[p][m]
      /\ \A q \in Processes : q # p => nodeCache'[q] = nodeCache[q]
      /\ nodeCache' \in [Processes -> [Nodes -> Times]]
  BY <1>1, <1>2
<1>4. \A m \in Nodes : nodeCache[p][m] <= nodeCache'[p][m] /\ nodeCache'[p][m] <= now
  <2>1. \A m \in Nodes : nodeCache[p][m] \in Nat /\ nodeCache[p][m] <= now
    BY <1>2 DEF NotAhead
  <2>2. now \in Nat
    BY <1>2
  <2> QED
    BY <1>1, <1>3, <2>1, <2>2
<1>5. TypeOK' /\ Exclusive' /\ Handled' /\ EmptyOrWhole'
  BY <1>1, <1>3 DEF TypeOK, Exclusive, Handled, EmptyOrWhole, Empty
<1>6. NotAhead'
  BY <1>1, <1>3, <1>4 DEF NotAhead
<1>7. UpToDate'
  <2>1. Readable' = Readable /\ Readable \in [Nodes -> Times]
    BY <1>1, ReadableType DEF Readable
  <2>2. ASSUME NEW u \in Threads, pc[u] = "create", NEW m \in Nodes
        PROVE  Readable[m] <= nodeCache'[Process(u)][m]
    <3>1. Process(u) \in Processes /\ Readable[m] <= nodeCache[Process(u)][m]
      BY <2>2, ThreadFacts DEF UpToDate
    <3>2. nodeCache[Process(u)][m] <= nodeCache'[Process(u)][m]
      <4>1. nodeCache[Process(u)][m] \in Nat
        BY <1>2, <3>1
      <4>2. CASE Process(u) = p
        BY <1>4, <4>2
      <4>3. CASE Process(u) # p
        BY <1>3, <3>1, <4>1, <4>3
      <4> QED
        BY <4>2, <4>3
    <3>3. nodeCache[Process(u)][m] \in Nat /\ nodeCache'[Process(u)][m] \in Nat /\ Readable[m] \in Nat
      BY <1>2, <1>3, <2>1, <3>1
    <3> QED
      BY <3>1, <3>2, <3>3
  <2> QED
    BY <1>1, <2>1, <2>2 DEF UpToDate
<1> QED
  BY <1>3, <1>4, <1>5, <1>6, <1>7

\* Time goes on, and what may be read gets less.
LEMMA TickStep ==
  ASSUME CacheInv, Tick
  PROVE  CacheInv'
<1> USE DEF CacheInv
<1>1. now' = now + 1 /\ now < MaxTime /\ UNCHANGED <<file, whole, nodeCache, readers, writer, pc>>
  BY DEF Tick
<1>2. now \in Nat /\ \A n \in Nodes : file[n] \in Nat
  BY NodeCacheAssumption DEF TypeOK, Times
<1>3. TypeOK'
  BY <1>1, NodeCacheAssumption DEF TypeOK, Times
<1>4. NotAhead'
  <2>1. \A p \in Processes : \A n \in Nodes : nodeCache[p][n] \in Nat
    BY NodeCacheAssumption DEF TypeOK, Times
  <2> QED
    BY <1>1, <1>2, <2>1 DEF NotAhead
<1>5. Exclusive' /\ Handled' /\ EmptyOrWhole'
  BY <1>1 DEF Exclusive, Handled, EmptyOrWhole, Empty
<1>6. UpToDate'
  <2>1. \A n \in Nodes : Readable'[n] \in {0, Readable[n]}
    BY <1>1, <1>2, NodeCacheAssumption DEF Readable
  <2>2. \A p \in Processes : \A n \in Nodes : nodeCache[p][n] \in Nat
    BY NodeCacheAssumption DEF TypeOK, Times
  <2> QED
    BY <1>1, <2>1, <2>2, ThreadFacts DEF UpToDate
<1> QED
  BY <1>3, <1>4, <1>5, <1>6

-----------------------------------------------------------------------------
\* The steps of a save that are not the end of the process.
LEMMA SaveStep ==
  ASSUME CacheInv, NEW t \in Threads,
         Lock(t) \/ Merge(t) \/ Create(t) \/ CreateFails(t) \/ Encode(t) \/ EncodeFails(t) \/ Unlock(t)
           \/ LockFails(t)
  PROVE  CacheInv'
<1> USE DEF CacheInv
<1> DEFINE p == Process(t)
<1>p. p \in Processes
  BY ThreadFacts
<1>r. Readable \in [Nodes -> Times] /\ \A n \in Nodes : Readable[n] <= now
  BY ReadableType
<1>l. UNCHANGED <<file, whole, now>> => Readable' = Readable
  BY DEF Readable
<1>h. ASSUME NEW place, Goto(t, place), place \in {"merge", "exit"}, pc[t] \notin {"idle", "gone"}
      PROVE  Handled' /\ \A u \in Threads : pc'[u] = IF u = t THEN place ELSE pc[u]
  <2>1. \A u \in Threads : pc'[u] = IF u = t THEN place ELSE pc[u]
    BY <1>h DEF Goto, TypeOK
  <2>2. ASSUME NEW q \in Processes, pc'[Signal(q)] \notin {"idle", "gone"}
        PROVE  q \in Interrupts /\ pc'[Main(q)] \notin {"load", "read", "loaded"}
    <3>1. Signal(q) \in Threads /\ Main(q) \in Threads
      BY ThreadFacts
    <3>2. pc[Signal(q)] \notin {"idle", "gone"}
      BY <1>h, <2>1, <2>2, <3>1
    <3> QED
      BY <1>h, <2>1, <3>1, <3>2 DEF Handled
  <2> QED
    BY <2>1, <2>2 DEF Handled
<1>1. CASE Lock(t)
  <2>1. /\ pc[t] = "wait" /\ writer = NoThread /\ writer' = t /\ Goto(t, "merge")
        /\ UNCHANGED <<file, whole, nodeCache, readers, now>>
    BY <1>1 DEF Lock
  <2>2. Handled' /\ \A u \in Threads : pc'[u] = IF u = t THEN "merge" ELSE pc[u]
    BY <1>h, <2>1
  <2>3. TypeOK' /\ NotAhead' /\ EmptyOrWhole'
    BY <2>1 DEF TypeOK, NotAhead, EmptyOrWhole, Empty, Goto, Places
  <2>4. Exclusive'
    BY <2>1, <2>2, ThreadFacts DEF Exclusive, Saving
  <2>5. UpToDate'
    BY <2>1, <2>2, <1>l DEF UpToDate
  <2> QED
    BY <2>2, <2>3, <2>4, <2>5
<1>2. CASE Merge(t)
  <2>1. /\ pc[t] = "merge" /\ Goto(t, "create")
        /\ nodeCache' = [nodeCache EXCEPT ![p] = Merged(nodeCache[p], Readable)]
        /\ UNCHANGED <<file, whole, readers, writer, now>>
    BY <1>2 DEF Merge
  <2>2. /\ pc' \in [Threads -> Places] /\ Exclusive' /\ Handled'
        /\ \A u \in Threads : pc'[u] = "create" => u = t
    BY <2>1, HolderStep DEF Saving
  <2>3. nodeCache[p] \in [Nodes -> Times] /\ nodeCache \in [Processes -> [Nodes -> Times]]
    BY <1>p DEF TypeOK
  <2>4. /\ nodeCache'[p] \in [Nodes -> Times]
        /\ nodeCache'[p] = Merged(nodeCache[p], Readable)
        /\ \A q \in Processes : q # p => nodeCache'[q] = nodeCache[q]
        /\ nodeCache' \in [Processes -> [Nodes -> Times]]
    BY <2>1, <2>3, <1>p, <1>r, MergedType
  <2>5. \A n \in Nodes : Readable[n] <= nodeCache'[p][n] /\ nodeCache'[p][n] <= now
    <3>1. \A n \in Nodes : nodeCache[p][n] <= now
      BY <1>p DEF NotAhead
    <3>2. \A n \in Nodes : /\ Readable[n] <= Merged(nodeCache[p], Readable)[n]
                           /\ Merged(nodeCache[p], Readable)[n] \in {nodeCache[p][n], Readable[n]}
      BY <2>3, <1>r, MergedType
    <3> QED
      BY <2>4, <1>r, <3>1, <3>2
  <2>6. TypeOK' /\ NotAhead' /\ EmptyOrWhole'
    BY <2>1, <2>2, <2>4, <2>5 DEF TypeOK, NotAhead, EmptyOrWhole, Empty
  <2>7. UpToDate'
    BY <2>1, <2>2, <2>5, <1>l DEF UpToDate
  <2> QED
    BY <2>2, <2>6, <2>7
<1>3. CASE Create(t)
  <2>1. /\ pc[t] = "create" /\ Goto(t, "encode") /\ file' = Empty /\ whole' = FALSE
        /\ UNCHANGED <<nodeCache, readers, writer, now>>
    BY <1>3 DEF Create
  <2>2. pc' \in [Threads -> Places] /\ Exclusive' /\ Handled' /\ \A u \in Threads : pc'[u] # "create"
    BY <2>1, HolderStep DEF Saving
  <2>3. TypeOK' /\ NotAhead' /\ EmptyOrWhole'
    <3>1. Empty \in [Nodes -> Times] /\ now \in Nat /\ \A n \in Nodes : Empty[n] = 0
      BY NodeCacheAssumption DEF TypeOK, Empty, Times
    <3>2. \A n \in Nodes : Empty[n] <= now
      BY <3>1
    <3>3. EmptyOrWhole'
      BY <2>1 DEF EmptyOrWhole, Empty
    <3>4. TypeOK'
      BY <2>1, <2>2, <3>1 DEF TypeOK
    <3>5. NotAhead'
      BY <2>1, <3>2 DEF NotAhead
    <3> QED
      BY <3>3, <3>4, <3>5
  <2> QED
    BY <2>2, <2>3 DEF UpToDate
<1>4. CASE Encode(t)
  <2>1. /\ pc[t] = "encode" /\ Goto(t, "unlock") /\ file' = nodeCache[p] /\ whole' = TRUE
        /\ UNCHANGED <<nodeCache, readers, writer, now>>
    BY <1>4 DEF Encode
  <2>2. pc' \in [Threads -> Places] /\ Exclusive' /\ Handled' /\ \A u \in Threads : pc'[u] # "create"
    BY <2>1, HolderStep DEF Saving
  <2>3. TypeOK' /\ NotAhead' /\ EmptyOrWhole'
    BY <2>1, <2>2, <1>p DEF TypeOK, NotAhead, EmptyOrWhole
  <2> QED
    BY <2>2, <2>3 DEF UpToDate
<1>5. CASE CreateFails(t) \/ EncodeFails(t)
  <2>1. /\ pc[t] \in Saving /\ Goto(t, "unlock")
        /\ UNCHANGED <<file, whole, nodeCache, readers, writer, now>>
    BY <1>5 DEF CreateFails, EncodeFails, Saving
  <2>2. pc' \in [Threads -> Places] /\ Exclusive' /\ Handled' /\ \A u \in Threads : pc'[u] # "create"
    BY <2>1, HolderStep DEF Saving
  <2>3. TypeOK' /\ NotAhead' /\ EmptyOrWhole'
    BY <2>1, <2>2 DEF TypeOK, NotAhead, EmptyOrWhole, Empty
  <2> QED
    BY <2>2, <2>3 DEF UpToDate
<1>6. CASE Unlock(t)
  <2>1. /\ pc[t] = "unlock" /\ Goto(t, "exit") /\ writer' = NoThread
        /\ UNCHANGED <<file, whole, nodeCache, readers, now>>
    BY <1>6 DEF Unlock
  <2>2. Handled' /\ \A u \in Threads : pc'[u] = IF u = t THEN "exit" ELSE pc[u]
    BY <1>h, <2>1
  <2>3. TypeOK' /\ NotAhead' /\ EmptyOrWhole'
    BY <2>1 DEF TypeOK, NotAhead, EmptyOrWhole, Empty, Goto, Places
  <2>4. Exclusive'
    BY <2>1, <2>2 DEF Exclusive, Saving
  <2>5. UpToDate'
    BY <2>1, <2>2, <1>l DEF UpToDate
  <2> QED
    BY <2>2, <2>3, <2>4, <2>5
<1>7. CASE LockFails(t)
  <2>1. /\ pc[t] = "wait" /\ Goto(t, "exit") /\ readers' = readers
        /\ UNCHANGED <<file, whole, nodeCache, writer, now>>
    BY <1>7 DEF LockFails
  <2>2. "exit" \in Places \ Saving /\ pc[t] \notin Saving /\ readers' \subseteq Threads
    BY <2>1 DEF Places, Saving, TypeOK
  <2>3. Handled'
    BY <1>h, <2>1
  <2> QED
    BY <2>1, <2>2, <2>3, FreeStep
<1> QED
  BY <1>1, <1>2, <1>3, <1>4, <1>5, <1>6, <1>7

LEMMA CacheStep ==
  ASSUME CacheInv, [Next]_vars
  PROVE  CacheInv'
<1>1. ASSUME NEW p \in Processes, load(p) \/ RLockFails(p) \/ Return(p) \/ Interrupt(p)
      PROVE  CacheInv'
  BY <1>1, ProcessStep
<1>2. ASSUME NEW p \in Processes, ConcurrentMapAccess(p) \/ Kill(p) PROVE CacheInv'
  BY <1>2, EndsStep DEF ConcurrentMapAccess, Kill
<1>3. ASSUME NEW p \in Processes, NEW n \in Nodes, getNodeInfo(p, n) PROVE CacheInv'
  BY <1>3, LookupStep
<1>4. ASSUME NEW t \in Threads, save(t) \/ LockFails(t) PROVE CacheInv'
  <2>1. CASE Exit(t)
    BY <2>1, EndsStep, ThreadFacts DEF Exit
  <2>2. CASE ~Exit(t)
    BY <1>4, <2>2, SaveStep DEF save
  <2> QED
    BY <2>1, <2>2
<1>5. CASE Tick
  BY <1>5, TickStep
<1>6. CASE UNCHANGED vars
  BY <1>6 DEF vars, CacheInv, TypeOK, NotAhead, Exclusive, Handled, EmptyOrWhole, Empty, UpToDate,
              Readable
<1> QED
  BY <1>1, <1>2, <1>3, <1>4, <1>5, <1>6 DEF Next

-----------------------------------------------------------------------------
(* The refinement: between create and encode the file is, to the others,    *)
(* already what it is going to be, because only they could see a difference *)
(* and they wait for the lock.                                              *)
SharedStep == [Shared!Save \/ Shared!Tear \/ Shared!Pass]_<<shared, torn, now>>

LEMMA SharedType ==
  ASSUME CacheInv
  PROVE  /\ shared \in [Nodes -> Times] /\ now \in Times /\ Times \subseteq Nat
         /\ \A n \in Nodes : shared[n] <= now
<1>1. CASE encoding
  <2>1. Process(writer) \in Processes
    BY <1>1, ThreadFacts DEF CacheInv, Exclusive, encoding
  <2> QED
    BY <1>1, <2>1, NodeCacheAssumption DEF CacheInv, TypeOK, NotAhead, shared, Times
<1>2. CASE ~encoding
  BY <1>2, NodeCacheAssumption DEF CacheInv, TypeOK, NotAhead, shared, Times
<1> QED
  BY <1>1, <1>2

\* A file that becomes a cache which has all that was in it is a save.
LEMMA SaveOf ==
  ASSUME CacheInv, NEW own \in [Nodes -> Times],
         \A n \in Nodes : own[n] <= now,
         \A n \in Nodes : now - shared[n] <= Lifetime => shared[n] <= own[n],
         shared' = own, torn' = FALSE, now' = now
  PROVE  SharedStep
<1>1. shared \in [Nodes -> Times] /\ now \in Nat /\ Times \subseteq Nat
  BY SharedType
<1>2. own \in [Nodes -> 0 .. now]
  <2>1. ASSUME NEW n \in Nodes PROVE own[n] \in 0 .. now
    <3>1. own[n] \in Nat /\ own[n] <= now
      BY <1>1
    <3> QED
      BY <1>1, <3>1
  <2> QED
    BY <2>1
<1>3. Lifetime \in Nat
  BY NodeCacheAssumption
<1> DEFINE F == Shared!Fresh(shared, now)
<1>4. F = [n \in Nodes |-> IF now - shared[n] > Lifetime THEN 0 ELSE shared[n]]
  BY DEF Shared!Fresh
<1>5. \A n \in Nodes : F[n] \in Nat /\ own[n] \in Nat /\ F[n] <= own[n]
  <2>1. ASSUME NEW n \in Nodes PROVE F[n] \in Nat /\ own[n] \in Nat /\ F[n] <= own[n]
    <3>1. shared[n] \in Nat /\ own[n] \in Nat
      BY <1>1
    <3>2. CASE now - shared[n] > Lifetime
      BY <1>4, <3>1, <3>2
    <3>3. CASE ~(now - shared[n] > Lifetime)
      <4>1. now - shared[n] <= Lifetime
        BY <1>1, <1>3, <3>1, <3>3
      <4> QED
        BY <1>4, <3>1, <3>3, <4>1
    <3> QED
      BY <3>2, <3>3
  <2> QED
    BY <2>1
<1>6. Shared!Newest(F, own) = own
  <2> HIDE DEF F
  <2>1. Shared!Newest(F, own) = [n \in Nodes |-> IF F[n] < own[n] THEN own[n] ELSE F[n]]
    BY DEF Shared!Newest
  <2>2. \A n \in Nodes : (IF F[n] < own[n] THEN own[n] ELSE F[n]) = own[n]
    BY <1>5
  <2>3. own = [n \in Nodes |-> own[n]]
    OBVIOUS
  <2> QED
    BY <2>1, <2>2, <2>3
<1> QED
  BY <1>2, <1>6 DEF SharedStep, Shared!Save

\* Nothing changes for the others.
LEMMA HiddenStep ==
  ASSUME UNCHANGED <<file, whole, nodeCache, now>>, ~encoding, ~encoding'
  PROVE  SharedStep
BY DEF SharedStep, shared, torn

\* While a file is being written, or nobody writes, the others go on.
LEMMA OthersStep ==
  ASSUME UNCHANGED <<file, whole, nodeCache, writer, now>>, encoding' = encoding
  PROVE  SharedStep
BY DEF SharedStep, shared, torn

\* A file that was created anew and is not going to be written.
LEMMA TornStep ==
  ASSUME CacheInv, UNCHANGED <<file, whole, now>>, encoding, ~whole, ~encoding',
         Interrupts # {} \/ Faults \cap {"kill", "write"} # {}
  PROVE  SharedStep
<1>1. file = Empty
  BY DEF CacheInv, EmptyOrWhole
<1>2. shared' = [n \in Nodes |-> 0] /\ torn' = TRUE /\ now' = now
  BY <1>1 DEF shared, torn, Empty
<1> QED
  BY <1>2 DEF SharedStep, Shared!Tear

\* A process ends, which tears the file only where a save may be cut short.
LEMMA SharedEnds ==
  ASSUME CacheInv, NEW p \in Processes, Ends(p), encoding => ~whole,
         encoding /\ Process(writer) = p => Interrupts # {} \/ Faults \cap {"kill", "write"} # {}
  PROVE  SharedStep
<1>1. pc' = [t \in Threads |-> IF Process(t) = p THEN "gone" ELSE pc[t]]
  BY DEF Ends
<1>2. /\ UNCHANGED <<file, whole, nodeCache, now>>
      /\ writer' = IF writer \in {Main(p), Signal(p)} THEN NoThread ELSE writer
  BY DEF Ends
<1>3. encoding => writer \in Threads
  BY DEF encoding, CacheInv, Exclusive
<1>4. writer \in Threads => (writer \in {Main(p), Signal(p)} <=> Process(writer) = p)
  BY ThreadFacts
<1>5. CASE encoding /\ Process(writer) = p
  <2>1. ~encoding'
    BY <1>2, <1>3, <1>4, <1>5 DEF encoding
  <2> QED
    BY <1>2, <1>5, <2>1, TornStep
<1>6. CASE encoding /\ Process(writer) # p
  <2>1. writer' = writer /\ pc'[writer] = pc[writer]
    BY <1>1, <1>2, <1>3, <1>4, <1>6
  <2>2. encoding' = encoding
    BY <2>1 DEF encoding
  <2> QED
    BY <1>2, <2>1, <2>2, OthersStep
<1>7. CASE ~encoding
  <2>1. ~encoding'
    <3>1. SUFFICES ASSUME writer' # NoThread, pc'[writer'] = "encode" PROVE FALSE
      BY DEF encoding
    <3>2. writer' = writer /\ writer \in Threads
      BY <1>2, <3>1 DEF CacheInv, Exclusive
    <3>3. pc[writer] = "encode"
      BY <1>1, <3>1, <3>2
    <3> QED
      BY <1>7, <3>1, <3>2, <3>3 DEF encoding
  <2> QED
    BY <1>2, <1>7, <2>1, HiddenStep
<1> QED
  BY <1>5, <1>6, <1>7

-----------------------------------------------------------------------------
\* A file that is being written was emptied before.
Opened == \A t \in Threads : pc[t] = "encode" => ~whole

LEMMA OpenedStep ==
  ASSUME CacheInv, Opened, [Next]_vars
  PROVE  Opened'
<1> USE DEF Opened
<1>g. ASSUME NEW t \in Threads, NEW place, Goto(t, place), place # "encode", UNCHANGED whole
      PROVE  Opened'
  BY <1>g DEF Goto, CacheInv, TypeOK
<1>e. ASSUME NEW p \in Processes, Ends(p) PROVE Opened'
  BY <1>e DEF Ends
<1>1. ASSUME NEW p \in Processes, load(p) \/ RLockFails(p) \/ Return(p) \/ Interrupt(p)
      PROVE  Opened'
  <2>1. Main(p) \in Threads /\ Signal(p) \in Threads
    BY ThreadFacts
  <2>2. UNCHANGED whole
    BY <1>1 DEF load, RLock, loadNodeCache, RUnlock, RLockFails, Return, Interrupt
  <2>3. \/ \E place \in {"read", "loaded", "run", "wait"} : Goto(Main(p), place)
        \/ Goto(Signal(p), "wait")
    BY <1>1 DEF load, RLock, loadNodeCache, RUnlock, RLockFails, Return, Interrupt
  <2> QED
    BY <2>1, <2>2, <2>3, <1>g
<1>2. ASSUME NEW p \in Processes, ConcurrentMapAccess(p) \/ Kill(p) PROVE Opened'
  BY <1>2, <1>e DEF ConcurrentMapAccess, Kill
<1>3. ASSUME NEW p \in Processes, NEW n \in Nodes, getNodeInfo(p, n) PROVE Opened'
  BY <1>3 DEF getNodeInfo
<1>4. ASSUME NEW t \in Threads, save(t) \/ LockFails(t) PROVE Opened'
  <2>1. CASE Create(t)
    BY <2>1 DEF Create
  <2>2. CASE Encode(t)
    <3>1. pc[t] = "encode" /\ Goto(t, "unlock")
      BY <2>2 DEF Encode
    <3>2. \A u \in Threads : pc'[u] = IF u = t THEN "unlock" ELSE pc[u]
      BY <3>1 DEF Goto, CacheInv, TypeOK
    <3>3. \A u \in Threads : pc[u] = "encode" => u = t
      BY <3>1 DEF CacheInv, Exclusive, Saving
    <3> QED
      BY <3>2, <3>3
  <2>3. CASE Exit(t)
    BY <2>3, <1>e, ThreadFacts DEF Exit
  <2>4. CASE ~Create(t) /\ ~Encode(t) /\ ~Exit(t)
    <3>1. UNCHANGED whole /\ \E place \in {"merge", "create", "unlock", "exit"} : Goto(t, place)
      BY <1>4, <2>4 DEF save, Lock, Merge, CreateFails, EncodeFails, Unlock, LockFails
    <3> QED
      BY <3>1, <1>g
  <2> QED
    BY <2>1, <2>2, <2>3, <2>4
<1>5. CASE Tick
  BY <1>5 DEF Tick
<1>6. CASE UNCHANGED vars
  BY <1>6 DEF vars
<1> QED
  BY <1>1, <1>2, <1>3, <1>4, <1>5, <1>6 DEF Next

-----------------------------------------------------------------------------
LEMMA ImplementsStep ==
  ASSUME CacheInv, CacheInv', Opened, [Next]_vars
  PROVE  SharedStep
<1>t. encoding => writer \in Threads /\ pc[writer] = "encode" /\ ~whole
  BY DEF encoding, CacheInv, Exclusive, Opened
<1>g. ASSUME NEW t \in Threads, NEW place, Goto(t, place), pc[t] # "encode", place # "encode",
             UNCHANGED <<file, whole, nodeCache, writer, now>>
      PROVE  SharedStep
  <2>1. \A u \in Threads : pc'[u] = IF u = t THEN place ELSE pc[u]
    BY <1>g DEF Goto, CacheInv, TypeOK
  <2>2. writer # NoThread => writer \in Threads
    BY DEF CacheInv, Exclusive
  <2>3. encoding' = encoding
    BY <1>g, <2>1, <2>2 DEF encoding
  <2> QED
    BY <1>g, <2>3, OthersStep
<1>1. ASSUME NEW p \in Processes, load(p) \/ RLockFails(p) \/ Return(p) \/ Interrupt(p)
      PROVE  SharedStep
  <2>1. Main(p) \in Threads /\ Signal(p) \in Threads
    BY ThreadFacts
  <2>2. CASE loadNodeCache(p)
    <3>1. /\ pc[Main(p)] = "read" /\ Goto(Main(p), "loaded")
          /\ nodeCache' = [nodeCache EXCEPT ![p] = Readable]
          /\ UNCHANGED <<file, whole, writer, now>>
      BY <2>2 DEF loadNodeCache
    <3>2. \A u \in Threads : pc'[u] = IF u = Main(p) THEN "loaded" ELSE pc[u]
      BY <3>1 DEF Goto, CacheInv, TypeOK
    <3>3. pc[Signal(p)] \in {"idle", "gone"}
      BY <3>1 DEF CacheInv, Handled
    <3>4. writer # NoThread => writer \in Threads
      BY DEF CacheInv, Exclusive
    <3>5. encoding' = encoding
      BY <3>1, <3>2, <3>4 DEF encoding
    <3>6. encoding => Process(writer) # p /\ Process(writer) \in Processes
      BY <1>t, <3>1, <3>3, ThreadFacts
    <3>7. encoding => nodeCache'[Process(writer)] = nodeCache[Process(writer)]
      BY <3>1, <3>6 DEF CacheInv, TypeOK
    <3>8. shared' = shared /\ torn' = torn /\ now' = now
      BY <3>1, <3>5, <3>7 DEF shared, torn
    <3> QED
      BY <3>8 DEF SharedStep
  <2>3. CASE ~loadNodeCache(p)
    <3>1. \/ /\ \E place \in {"read", "run", "wait"} : Goto(Main(p), place)
             /\ pc[Main(p)] # "encode"
          \/ Goto(Signal(p), "wait") /\ pc[Signal(p)] # "encode"
      BY <1>1, <2>3 DEF load, RLock, RUnlock, RLockFails, Return, Interrupt
    <3>2. UNCHANGED <<file, whole, nodeCache, writer, now>>
      BY <1>1, <2>3 DEF load, RLock, RUnlock, RLockFails, Return, Interrupt
    <3> QED
      BY <2>1, <3>1, <3>2, <1>g
  <2> QED
    BY <2>2, <2>3
<1>2. ASSUME NEW p \in Processes, ConcurrentMapAccess(p) PROVE SharedStep
  <2>1. pc[Signal(p)] \in {"merge", "encode"} /\ Ends(p)
    BY <1>2 DEF ConcurrentMapAccess
  <2>2. Interrupts # {}
    BY <2>1 DEF CacheInv, Handled
  <2> QED
    BY <1>t, <2>1, <2>2, SharedEnds
<1>3. ASSUME NEW p \in Processes, Kill(p) PROVE SharedStep
  <2>1. "kill" \in Faults \cap {"kill", "write"} /\ Ends(p)
    BY <1>3 DEF Kill
  <2> QED
    BY <1>t, <2>1, SharedEnds
<1>4. ASSUME NEW p \in Processes, NEW n \in Nodes, getNodeInfo(p, n) PROVE SharedStep
  <2>1. /\ nodeCache' = [nodeCache EXCEPT ![p][n] = now]
        /\ UNCHANGED <<file, whole, readers, writer, pc, now>>
    BY <1>4 DEF getNodeInfo
  <2>2. encoding' = encoding
    BY <2>1 DEF encoding
  <2>3. CASE encoding /\ Process(writer) = p
    <3>1. shared' = nodeCache'[p] /\ shared = nodeCache[p] /\ torn' = FALSE
      BY <2>1, <2>2, <2>3 DEF shared, torn
    <3>2. /\ nodeCache'[p] \in [Nodes -> Times]
          /\ \A m \in Nodes : nodeCache[p][m] <= nodeCache'[p][m] /\ nodeCache'[p][m] <= now
      BY <1>4, LookupStep
    <3> QED
      BY <2>1, <3>1, <3>2, SaveOf
  <2>4. CASE ~(encoding /\ Process(writer) = p)
    <3>1. encoding => Process(writer) \in Processes
      BY <1>t, ThreadFacts
    <3>2. encoding => nodeCache'[Process(writer)] = nodeCache[Process(writer)]
      BY <2>1, <2>4, <3>1 DEF CacheInv, TypeOK
    <3>3. shared' = shared /\ torn' = torn /\ now' = now
      BY <2>1, <2>2, <3>2 DEF shared, torn
    <3> QED
      BY <3>3 DEF SharedStep
  <2> QED
    BY <2>3, <2>4
<1>5. ASSUME NEW t \in Threads, save(t) \/ LockFails(t) PROVE SharedStep
  <2> DEFINE p == Process(t)
  <2>p. p \in Processes
    BY ThreadFacts
  <2>w. pc[t] \in Saving => writer = t /\ t # NoThread
    BY ThreadFacts DEF CacheInv, Exclusive
  <2>q. ASSUME NEW place, Goto(t, place) PROVE pc'[t] = place
    BY <2>q DEF Goto, CacheInv, TypeOK
  <2>1. CASE Lock(t)
    <3>1. writer = NoThread /\ writer' = t /\ Goto(t, "merge") /\ UNCHANGED <<file, whole, nodeCache, now>>
      BY <2>1 DEF Lock
    <3>2. ~encoding /\ ~encoding'
      BY <3>1, <2>q DEF encoding
    <3> QED
      BY <3>1, <3>2, HiddenStep
  <2>2. CASE Merge(t)
    <3>1. pc[t] = "merge" /\ Goto(t, "create") /\ UNCHANGED <<file, whole, writer, now>>
      BY <2>2 DEF Merge
    <3>2. writer = t /\ pc'[t] = "create"
      BY <3>1, <2>w, <2>q DEF Saving
    <3>3. ~encoding /\ ~encoding'
      BY <3>1, <3>2 DEF encoding
    <3> QED
      BY <3>1, <3>3 DEF SharedStep, shared, torn
  <2>3. CASE Create(t)
    <3>1. pc[t] = "create" /\ Goto(t, "encode") /\ UNCHANGED <<nodeCache, writer, now>>
      BY <2>3 DEF Create
    <3>2. writer = t /\ pc'[t] = "encode" /\ t # NoThread
      BY <3>1, <2>w, <2>q DEF Saving
    <3>3. ~encoding /\ encoding'
      BY <3>1, <3>2 DEF encoding
    <3>4. shared = file /\ shared' = nodeCache[p] /\ torn' = FALSE
      BY <3>1, <3>2, <3>3 DEF shared, torn
    <3>5. nodeCache[p] \in [Nodes -> Times] /\ \A n \in Nodes : nodeCache[p][n] <= now
      BY <2>p DEF CacheInv, TypeOK, NotAhead
    <3>6. \A n \in Nodes : now - file[n] <= Lifetime => file[n] <= nodeCache[p][n]
      <4>1. CASE whole
        BY <3>1, <4>1 DEF CacheInv, UpToDate, Readable
      <4>2. CASE ~whole
        <5>1. \A n \in Nodes : file[n] = 0
          BY <4>2 DEF CacheInv, EmptyOrWhole, Empty
        <5> QED
          BY <3>5, <5>1, NodeCacheAssumption DEF Times
      <4> QED
        BY <4>1, <4>2
    <3> QED
      BY <3>1, <3>4, <3>5, <3>6, SaveOf
  <2>4. CASE Encode(t)
    <3>1. /\ pc[t] = "encode" /\ Goto(t, "unlock") /\ file' = nodeCache[p] /\ whole' = TRUE
          /\ UNCHANGED <<nodeCache, writer, now>>
      BY <2>4 DEF Encode
    <3>2. writer = t /\ pc'[t] = "unlock" /\ t # NoThread
      BY <3>1, <2>w, <2>q DEF Saving
    <3>3. encoding /\ ~encoding'
      BY <3>1, <3>2 DEF encoding
    <3>4. shared' = shared /\ torn' = torn
      BY <3>1, <3>2, <3>3 DEF shared, torn
    <3> QED
      BY <3>1, <3>4 DEF SharedStep
  <2>5. CASE EncodeFails(t)
    <3>1. /\ pc[t] = "encode" /\ Goto(t, "unlock") /\ "write" \in Faults \cap {"kill", "write"}
          /\ UNCHANGED <<file, whole, nodeCache, writer, now>>
      BY <2>5 DEF EncodeFails
    <3>2. writer = t /\ pc'[t] = "unlock" /\ t # NoThread
      BY <3>1, <2>w, <2>q DEF Saving
    <3>3. encoding /\ ~encoding'
      BY <3>1, <3>2 DEF encoding
    <3> QED
      BY <1>t, <3>1, <3>3, TornStep
  <2>6. CASE Unlock(t)
    <3>1. pc[t] = "unlock" /\ writer' = NoThread /\ UNCHANGED <<file, whole, nodeCache, now>>
      BY <2>6 DEF Unlock
    <3>2. ~encoding /\ ~encoding'
      BY <3>1, <2>w DEF encoding, Saving
    <3> QED
      BY <3>1, <3>2, HiddenStep
  <2>7. CASE Exit(t)
    <3>1. pc[t] = "exit" /\ Ends(p)
      BY <2>7 DEF Exit
    <3>2. encoding /\ Process(writer) = p => pc[Signal(p)] \notin {"idle", "gone"}
      <4>1. SUFFICES ASSUME encoding, Process(writer) = p PROVE pc[Signal(p)] \notin {"idle", "gone"}
        OBVIOUS
      <4>2. writer # t
        BY <1>t, <3>1, <4>1
      <4>3. Signal(p) \in {writer, t}
        BY <1>t, <4>1, <4>2, ThreadFacts
      <4> QED
        BY <1>t, <3>1, <4>1, <4>3
    <3>3. encoding /\ Process(writer) = p => Interrupts # {}
      BY <2>p, <3>2 DEF CacheInv, Handled
    <3> QED
      BY <1>t, <2>p, <3>1, <3>3, SharedEnds
  <2>8. CASE CreateFails(t) \/ LockFails(t)
    <3>1. /\ pc[t] # "encode" /\ \E place \in {"unlock", "exit"} : Goto(t, place)
          /\ UNCHANGED <<file, whole, nodeCache, writer, now>>
      BY <2>8 DEF CreateFails, LockFails
    <3> QED
      BY <3>1, <1>g
  <2> QED
    BY <1>5, <2>1, <2>2, <2>3, <2>4, <2>5, <2>6, <2>7, <2>8 DEF save
<1>6. CASE Tick
  <2>1. now' = now + 1 /\ UNCHANGED <<file, whole, nodeCache, readers, writer, pc>>
    BY <1>6 DEF Tick
  <2>2. shared' = shared /\ torn' = torn
    BY <2>1 DEF shared, torn, encoding
  <2> QED
    BY <2>1, <2>2 DEF SharedStep, Shared!Pass
<1>7. CASE UNCHANGED vars
  <2>1. shared' = shared /\ torn' = torn /\ now' = now
    BY <1>7 DEF vars, shared, torn, encoding
  <2> QED
    BY <2>1 DEF SharedStep
<1> QED
  BY <1>1, <1>2, <1>3, <1>4, <1>5, <1>6, <1>7 DEF Next

-----------------------------------------------------------------------------
\* The file, the lock and the caches keep their types, and no update time is
\* beyond the clock's.
THEOREM NodeCacheTypes == Spec => []TypeOK
<1>1. CacheInv /\ [Next]_vars => CacheInv'
  BY CacheStep
<1>2. CacheInv => TypeOK
  BY DEF CacheInv
<1> QED
  BY CacheInit, <1>1, <1>2, PTL DEF Spec

\* Any number of instances, killed or interrupted anywhere, implement one shared
\* cache in which the newer update wins, and which loses nothing but to a save
\* that is cut short.
THEOREM CacheImplementsShared == Spec => ImplementsShared
<1>1. Init => CacheInv /\ Opened
  BY CacheInit DEF Init, Opened
<1>2. CacheInv /\ Opened /\ [Next]_vars => CacheInv' /\ Opened'
  BY CacheStep, OpenedStep
<1>3. Init => Shared!SharedInit
  BY DEF Init, Shared!SharedInit, shared, torn, encoding, Empty
<1>4. CacheInv /\ Opened /\ [Next]_vars =>
        [Shared!Save \/ Shared!Tear \/ Shared!Pass]_<<shared, torn, now>>
  BY CacheStep, ImplementsStep DEF SharedStep
<1> QED
  BY <1>1, <1>2, <1>3, <1>4, PTL DEF Spec, ImplementsShared, Shared!SharedSpec
=============================================================================
