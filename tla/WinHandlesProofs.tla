--------------------------- MODULE WinHandlesProofs ---------------------------
(***************************************************************************)
(* Theorems about WinHandles.tla, for any number of jobs, streams, waiting *)
(* threads and handle values.                                              *)
(*                                                                         *)
(* OwnershipInv ties the handle table to its owners, one to one, the       *)
(* owners to the life of their job, and the clones, which own nothing, to  *)
(* the owner that outlives their use.                                      *)
(***************************************************************************)
EXTENDS WinHandles, TLAPS

(* The objects that handles denote are different.                          *)
LEMMA Names ==
  /\ NoValue \notin Values
  /\ \A j \in Jobs : Process(j) \in Objects /\ Process(j) # Free
  /\ \A p \in Pipes : /\ Rx(p) \in Objects /\ Rx(p) # Free
                      /\ Tx(p) \in Objects /\ Tx(p) # Free
  /\ \A j, k : Process(j) = Process(k) => j = k
  /\ \A p, q : (Rx(p) = Rx(q) => p = q) /\ (Tx(p) = Tx(q) => p = q)
  /\ \A j, p, q : Process(j) # Rx(p) /\ Process(j) # Tx(p) /\ Rx(p) # Tx(q)
  BY NamesAssumption DEF Process, Rx, Tx, Objects

LEMMA PipeNames ==
  /\ \A j \in Jobs : \A p \in PipesOf(j) : p \in Pipes
  /\ \A j \in Jobs, s \in Streams : <<j, s>> \in Pipes /\ <<j, s>> \in PipesOf(j)
  /\ \A j, k \in Jobs : \A p \in Pipes : p \in PipesOf(j) /\ p \in PipesOf(k) => j = k
  BY DEF Pipes, PipesOf

-----------------------------------------------------------------------------
LEMMA TypeInit == Init => TypeOK
  BY DEF Init, TypeOK, Idle

LEMMA CloseType ==
  ASSUME TypeOK, NEW V, Close(V)
  PROVE  table' \in [Values -> Objects \union {Free}] /\ inherit' \in SUBSET Values
  BY DEF TypeOK, Close

LEMMA TypeStep ==
  ASSUME TypeOK, OwnershipInv, [Next]_vars
  PROVE  TypeOK'
  <1>1. ASSUME NEW j \in Jobs, Spawn(j)
        PROVE  TypeOK'
    <2>1. ASSUME NEW s \in Streams, CreatePipe(j, s)
          PROVE  TypeOK'
      <3>1. <<j, s>> \in Pipes
        BY PipeNames
      <3>2. PICK v, w \in Unused :
              /\ rx' = [rx EXCEPT ![<<j, s>>] = v] /\ tx' = [tx EXCEPT ![<<j, s>>] = w]
              /\ table' = [table EXCEPT ![v] = Rx(<<j, s>>), ![w] = Tx(<<j, s>>)]
        BY <2>1 DEF CreatePipe
      <3>3. v \in Values /\ w \in Values
        BY DEF Unused
      <3>4. /\ rx' \in [Pipes -> Values \union {NoValue}] /\ tx' \in [Pipes -> Values \union {NoValue}]
            /\ table' \in [Values -> Objects \union {Free}]
        BY <3>1, <3>2, <3>3, Names DEF TypeOK
      <3> QED
        BY <2>1, <3>4 DEF TypeOK, CreatePipe, childVars
    <2>2. ASSUME NEW s \in Streams, SetInherit(j, s)
          PROVE  TypeOK'
      <3>1. <<j, s>> \in Pipes
        BY PipeNames
      <3>2. tx[<<j, s>>] \in Values
        BY <2>2, <3>1 DEF TypeOK, SetInherit, HasPipe
      <3>3. inherit' \in SUBSET Values
        BY <2>2, <3>2 DEF TypeOK, SetInherit
      <3> QED
        BY <2>2, <3>3 DEF TypeOK, SetInherit, ownerVars, childVars
    <2>3. ASSUME NEW s \in Streams, DropTx(j, s)
          PROVE  TypeOK'
      BY <2>3, CloseType, PipeNames DEF TypeOK, DropTx, childVars
    <2>4. CASE SpawnFails(j)
      BY <2>4, CloseType DEF TypeOK, SpawnFails, childVars
    <2>5. CASE CreateProcess(j)
      <3>1. Inherited \in SUBSET Pipes
        BY DEF Inherited
      <3> HIDE DEF Inherited
      <3> QED
        BY <2>5, <3>1, Names DEF TypeOK, CreateProcess, Unused
    <2> QED
      BY <1>1, <2>1, <2>2, <2>3, <2>4, <2>5 DEF Spawn
  <1>2. ASSUME NEW j \in Jobs, Child(j)
        PROVE  TypeOK'
    BY <1>2 DEF Child, ChildCloses, ChildExits, Ended, TypeOK, tableVars, ownerVars
  <1>3. ASSUME NEW j \in Jobs, Tracker(j)
        PROVE  TypeOK'
    <2>1. CASE StartTracking(j)
      BY <2>1 DEF TypeOK, StartTracking, tableVars, ownerVars, childVars
    <2>2. CASE PollReady(j)
      BY <2>2 DEF TypeOK, PollReady, tableVars, ownerVars, childVars
    <2>3. CASE StartKill(j)
      BY <2>3 DEF TypeOK, StartKill, tableVars, ownerVars, childVars
    <2>4. CASE KillReturns(j)
      BY <2>4 DEF TypeOK, KillReturns, tableVars, ownerVars, childVars
    <2>5. CASE TrackerReturns(j) \/ TrackerBreaks(j)
      BY <2>5, CloseType DEF TypeOK, TrackerReturns, TrackerBreaks, DropChild, childVars
    <2> QED
      BY <1>3, <2>1, <2>2, <2>3, <2>4, <2>5 DEF Tracker
  <1>4. ASSUME NEW j \in Jobs, Terminate(j)
        PROVE  TypeOK'
    <2>1. status' \in [Jobs -> {"none", "running", "dead"}] /\ ends' \in [Jobs -> SUBSET Pipes]
      BY <1>4 DEF TypeOK, Terminate, Ended, childVars
    <2>2. killer' \in [Jobs -> [at : {"none", "terminating", "done"}, value : Values \union {NoValue}]]
      BY <1>4 DEF TypeOK, Terminate
    <2> QED
      BY <1>4, <2>1, <2>2, CloseType DEF TypeOK, Terminate, ownerVars
  <1>5. ASSUME NEW p \in Pipes, Reader(p)
        PROVE  TypeOK'
    <2>1. ReaderReturns(p)
      BY <1>5 DEF Reader, ReaderEnds, ReaderGivesUp
    <2> QED
      BY <2>1, CloseType DEF TypeOK, ReaderReturns, childVars
  <1>6. ASSUME NEW j \in Jobs, NEW w \in Waits, Waiter(j, w)
        PROVE  TypeOK'
    <2>1. CASE PollPending(j, w)
      BY <2>1 DEF TypeOK, PollPending, tableVars, ownerVars, childVars
    <2>2. CASE WaiterCalls(j, w)
      <3>1. waiter[<<j, w>>].value \in Values
        BY <2>2 DEF WaiterCalls, OwnershipInv, CloneInv
      <3>2. waiter' \in [Jobs \X Waits -> [at : {"idle", "calling", "waiting"},
                                            value : Values \union {NoValue},
                                            object : Objects \union {Free}]]
        BY <2>2, <3>1 DEF TypeOK, WaiterCalls
      <3> QED
        BY <2>2, <3>2 DEF TypeOK, WaiterCalls, tableVars, ownerVars, childVars
    <2>3. CASE WaiterReturns(j, w)
      BY <2>3, CloseType DEF TypeOK, WaiterReturns, Idle, ownerVars, childVars
    <2> QED
      BY <1>6, <2>1, <2>2, <2>3 DEF Waiter
  <1>7. CASE UNCHANGED vars
    BY <1>7 DEF TypeOK, vars, tableVars, ownerVars, childVars
  <1> QED
    BY <1>1, <1>2, <1>3, <1>4, <1>5, <1>6, <1>7 DEF Next
-----------------------------------------------------------------------------
(* The handle table and its owners.                                        *)
TableInv == HandleIsOwn /\ OpenIsOwned

(* Closing handles while their owners forget them.                         *)
LEMMA CloseKeepsTable ==
  ASSUME TypeOK, TableInv, NEW V, Close(V),
         \A j \in Jobs : process'[j] = IF process[j] \in V THEN NoValue ELSE process[j],
         \A p \in Pipes : rx'[p] = IF rx[p] \in V THEN NoValue ELSE rx[p],
         \A p \in Pipes : tx'[p] = IF tx[p] \in V THEN NoValue ELSE tx[p]
  PROVE  TableInv'
  <1>1. \A v \in Values : table'[v] = IF v \in V THEN Free ELSE table[v]
    BY DEF Close
  <1>2. /\ \A j \in Jobs : process[j] \in Values \union {NoValue}
        /\ \A p \in Pipes : rx[p] \in Values \union {NoValue} /\ tx[p] \in Values \union {NoValue}
    BY DEF TypeOK
  <1>3. HandleIsOwn'
    BY <1>1, <1>2, Names DEF HandleIsOwn, TableInv, Process, Rx, Tx
  <1>4. OpenIsOwned'
    <2>1. \A v \in Values, j \in Jobs : table'[v] = Process(j) => process'[j] = v
      BY <1>1, <1>2, Names DEF OpenIsOwned, TableInv
    <2>2. \A v \in Values, p \in Pipes : /\ table'[v] = Rx(p) => rx'[p] = v
                                         /\ table'[v] = Tx(p) => tx'[p] = v
      BY <1>1, <1>2, Names DEF OpenIsOwned, TableInv
    <2> QED
      BY <2>1, <2>2 DEF OpenIsOwned, Process, Rx, Tx
  <1> QED
    BY <1>3, <1>4 DEF TableInv

(* No two owners hold one value.                                           *)
LEMMA OwnersDiffer ==
  ASSUME TypeOK, TableInv
  PROVE  /\ \A j, k \in Jobs : process[j] # NoValue /\ process[j] = process[k] => j = k
         /\ \A p, q \in Pipes : /\ rx[p] # NoValue /\ rx[p] = rx[q] => p = q
                                /\ tx[p] # NoValue /\ tx[p] = tx[q] => p = q
                                /\ rx[p] # NoValue => rx[p] # tx[q]
         /\ \A j \in Jobs, p \in Pipes : process[j] # NoValue =>
                                         process[j] # rx[p] /\ process[j] # tx[p]
  BY Names DEF TableInv, HandleIsOwn

(* Opening handles.                                                        *)
LEMMA OpenKeepsTable ==
  ASSUME TypeOK, TableInv,
         NEW j \in Jobs, CreateProcess(j) \/ \E s \in Streams : CreatePipe(j, s),
         HolderInv(j)
  PROVE  TableInv'
  <1>1. CASE CreateProcess(j)
    <2>1. PICK v \in Unused : process' = [process EXCEPT ![j] = v]
                             /\ table' = [table EXCEPT ![v] = Process(j)]
      BY <1>1 DEF CreateProcess
    <2>2. v \in Values /\ table[v] = Free
      BY DEF Unused
    <2>3. rx' = rx /\ tx' = tx /\ process[j] = NoValue
      BY <1>1 DEF CreateProcess, HolderInv
    <2>4. HandleIsOwn'
      BY <2>1, <2>2, <2>3, Names DEF TypeOK, TableInv, HandleIsOwn, Process, Rx, Tx
    <2>5. OpenIsOwned'
      <3>1. \A u \in Values, k \in Jobs : table'[u] = Process(k) => process'[k] = u
        BY <2>1, <2>2, <2>3, Names DEF TypeOK, TableInv, OpenIsOwned
      <3>2. \A u \in Values, p \in Pipes : /\ table'[u] = Rx(p) => rx'[p] = u
                                           /\ table'[u] = Tx(p) => tx'[p] = u
        BY <2>1, <2>2, <2>3, Names DEF TypeOK, TableInv, OpenIsOwned
      <3> QED
        BY <3>1, <3>2 DEF OpenIsOwned, Process, Rx, Tx
    <2> QED
      BY <2>4, <2>5 DEF TableInv
  <1>2. ASSUME NEW s \in Streams, CreatePipe(j, s)
        PROVE  TableInv'
    <2> DEFINE r == <<j, s>>
    <2>1. PICK v, w \in Unused :
            /\ v # w
            /\ rx' = [rx EXCEPT ![r] = v] /\ tx' = [tx EXCEPT ![r] = w]
            /\ table' = [table EXCEPT ![v] = Rx(r), ![w] = Tx(r)]
      BY <1>2 DEF CreatePipe
    <2>2. v \in Values /\ table[v] = Free /\ w \in Values /\ table[w] = Free
      BY DEF Unused
    <2>3. r \in Pipes /\ r \in PipesOf(j)
      BY PipeNames
    <2>4. process' = process /\ tx[r] = NoValue /\ rx[r] = NoValue
      BY <1>2, <2>3 DEF CreatePipe, HolderInv
    <2> HIDE DEF r
    <2>5. /\ \A u \in Values : table'[u] = IF u = w THEN Tx(r) ELSE IF u = v THEN Rx(r) ELSE table[u]
          /\ \A p \in Pipes : rx'[p] = IF p = r THEN v ELSE rx[p]
          /\ \A p \in Pipes : tx'[p] = IF p = r THEN w ELSE tx[p]
      BY <2>1, <2>2, <2>3 DEF TypeOK
    <2>6. HandleIsOwn'
      <3>1. \A k \in Jobs : process'[k] # NoValue => table'[process'[k]] = Process(k)
        <4> SUFFICES ASSUME NEW k \in Jobs, process[k] # NoValue
                     PROVE  table'[process[k]] = Process(k)
          BY <2>4
        <4>1. process[k] \in Values /\ table[process[k]] = Process(k)
          BY DEF TypeOK, TableInv, HandleIsOwn
        <4>2. process[k] # v /\ process[k] # w
          BY <2>2, <4>1, Names
        <4> QED
          BY <2>5, <4>1, <4>2
      <3>2. \A p \in Pipes : /\ rx'[p] # NoValue => table'[rx'[p]] = Rx(p)
                             /\ tx'[p] # NoValue => table'[tx'[p]] = Tx(p)
        BY <2>1, <2>2, <2>5, Names DEF TypeOK, TableInv, HandleIsOwn
      <3> QED
        BY <3>1, <3>2 DEF HandleIsOwn, Process, Rx, Tx
    <2>7. OpenIsOwned'
      <3>1. \A u \in Values, k \in Jobs : table'[u] = Process(k) => process'[k] = u
        BY <2>2, <2>4, <2>5, Names DEF TableInv, OpenIsOwned
      <3>2. \A u \in Values, p \in Pipes : /\ table'[u] = Rx(p) => rx'[p] = u
                                           /\ table'[u] = Tx(p) => tx'[p] = u
        <4> SUFFICES ASSUME NEW u \in Values, NEW p \in Pipes
                     PROVE  /\ table'[u] = Rx(p) => rx'[p] = u
                            /\ table'[u] = Tx(p) => tx'[p] = u
          OBVIOUS
        <4>1. CASE p = r
          <5>1. u # NoValue /\ rx'[r] = v /\ tx'[r] = w
            BY <2>3, <2>5, Names
          <5>2. table[u] # Rx(r) /\ table[u] # Tx(r)
            BY <2>3, <2>4, <5>1 DEF TableInv, OpenIsOwned
          <5>3. table'[u] = IF u = w THEN Tx(r) ELSE IF u = v THEN Rx(r) ELSE table[u]
            BY <2>5
          <5> QED
            BY <2>1, <4>1, <5>1, <5>2, <5>3, Names
        <4>2. CASE p # r
          BY <2>2, <2>3, <2>5, <4>2, Names DEF TableInv, OpenIsOwned
        <4> QED
          BY <4>1, <4>2
      <3> QED
        BY <3>1, <3>2 DEF OpenIsOwned, Process, Rx, Tx
    <2> QED
      BY <2>6, <2>7 DEF TableInv
  <1> QED
    BY <1>1, <1>2

(* Only these change the table or the owners.                              *)
LEMMA TableStep ==
  ASSUME TypeOK, OwnershipInv, [Next]_vars
  PROVE  TableInv'
  <1> USE Names, OwnersDiffer
  <1>1. TableInv /\ \A j \in Jobs : HolderInv(j)
    BY DEF OwnershipInv, TableInv
  <1>2. ASSUME UNCHANGED <<table, process, rx, tx>>
        PROVE  TableInv'
    BY <1>1, <1>2 DEF TableInv, HandleIsOwn, OpenIsOwned, Process, Rx, Tx
  <1>3. ASSUME NEW j \in Jobs, Spawn(j)
        PROVE  TableInv'
    <2>1. ASSUME NEW s \in Streams, SetInherit(j, s)
          PROVE  TableInv'
      BY <1>2, <2>1 DEF SetInherit, ownerVars
    <2>2. ASSUME NEW s \in Streams, DropTx(j, s)
          PROVE  TableInv'
      <3> DEFINE r == <<j, s>>
                 V == {tx[r]}
      <3>1. r \in Pipes /\ tx[r] # NoValue
        BY <2>2, PipeNames DEF DropTx
      <3>2. Close(V) /\ process' = process /\ rx' = rx /\ tx' = [tx EXCEPT ![r] = NoValue]
        BY <2>2 DEF DropTx
      <3> HIDE DEF r
      <3>3. \A k \in Jobs : process'[k] = IF process[k] \in V THEN NoValue ELSE process[k]
        BY <1>1, <3>1, <3>2
      <3>4. \A p \in Pipes : rx'[p] = IF rx[p] \in V THEN NoValue ELSE rx[p]
        BY <1>1, <3>1, <3>2
      <3>5. \A p \in Pipes : tx'[p] = IF tx[p] \in V THEN NoValue ELSE tx[p]
        BY <1>1, <3>1, <3>2 DEF TypeOK
      <3> QED
        BY <1>1, <3>2, <3>3, <3>4, <3>5, CloseKeepsTable
    <2>3. CASE SpawnFails(j)
      <3> DEFINE V == Dropped(j)
      <3>1. /\ Close(V) /\ process' = process
            /\ rx' = [p \in Pipes |-> IF p \in PipesOf(j) THEN NoValue ELSE rx[p]]
            /\ tx' = [p \in Pipes |-> IF p \in PipesOf(j) THEN NoValue ELSE tx[p]]
        BY <2>3 DEF SpawnFails
      <3>2. \A x : x \in V <=> \E p \in PipesOf(j) : x = tx[p] \/ x = rx[p]
        BY DEF Dropped, TxOf, RxOf
      <3>3. PipesOf(j) \subseteq Pipes
        BY PipeNames
      <3> HIDE DEF V
      <3>4. \A k \in Jobs : process'[k] = IF process[k] \in V THEN NoValue ELSE process[k]
        BY <1>1, <3>1, <3>2, <3>3
      <3>5. \A p \in Pipes : rx'[p] = IF rx[p] \in V THEN NoValue ELSE rx[p]
        BY <1>1, <3>1, <3>2, <3>3
      <3>6. \A p \in Pipes : tx'[p] = IF tx[p] \in V THEN NoValue ELSE tx[p]
        BY <1>1, <3>1, <3>2, <3>3
      <3> QED
        BY <1>1, <3>1, <3>4, <3>5, <3>6, CloseKeepsTable
    <2>4. CASE CreateProcess(j) \/ \E s \in Streams : CreatePipe(j, s)
      BY <1>1, <2>4, OpenKeepsTable
    <2> QED
      BY <1>3, <2>1, <2>2, <2>3, <2>4 DEF Spawn
  <1>4. ASSUME NEW j \in Jobs, Child(j)
        PROVE  TableInv'
    BY <1>2, <1>4 DEF Child, ChildCloses, ChildExits, tableVars, ownerVars
  <1>5. ASSUME NEW j \in Jobs, Tracker(j)
        PROVE  TableInv'
    <2>1. CASE StartTracking(j) \/ PollReady(j) \/ StartKill(j) \/ KillReturns(j)
      BY <1>2, <2>1 DEF StartTracking, PollReady, StartKill, KillReturns, tableVars, ownerVars
    <2>2. CASE DropChild(j)
      <3> DEFINE V == {process[j]}
      <3>1. Close(V) /\ process' = [process EXCEPT ![j] = NoValue] /\ rx' = rx /\ tx' = tx
        BY <2>2 DEF DropChild
      <3>2. process[j] # NoValue
        BY <1>1, <2>2 DEF DropChild, HolderInv
      <3>3. \A k \in Jobs : process'[k] = IF process[k] \in V THEN NoValue ELSE process[k]
        BY <1>1, <3>1, <3>2 DEF TypeOK
      <3>4. \A p \in Pipes : /\ rx'[p] = IF rx[p] \in V THEN NoValue ELSE rx[p]
                             /\ tx'[p] = IF tx[p] \in V THEN NoValue ELSE tx[p]
        BY <1>1, <3>1, <3>2
      <3> QED
        BY <1>1, <3>1, <3>3, <3>4, CloseKeepsTable
    <2> QED
      BY <1>5, <2>1, <2>2 DEF Tracker, TrackerReturns, TrackerBreaks
  <1>6. ASSUME NEW p \in Pipes, Reader(p)
        PROVE  TableInv'
    <2>1. ReaderReturns(p)
      BY <1>6 DEF Reader, ReaderEnds, ReaderGivesUp
    <2> DEFINE V == {rx[p]}
    <2>2. Close(V) /\ process' = process /\ rx' = [rx EXCEPT ![p] = NoValue] /\ tx' = tx
      BY <2>1 DEF ReaderReturns
    <2>3. rx[p] # NoValue
      <3>1. PICK j \in Jobs : p \in PipesOf(j)
        BY DEF Pipes, PipesOf
      <3> QED
        BY <1>1, <2>1, <3>1 DEF ReaderReturns, HolderInv
    <2>4. \A k \in Jobs : process'[k] = IF process[k] \in V THEN NoValue ELSE process[k]
      BY <1>1, <2>2, <2>3
    <2>5. \A q \in Pipes : rx'[q] = IF rx[q] \in V THEN NoValue ELSE rx[q]
      BY <1>1, <2>2, <2>3 DEF TypeOK
    <2>6. \A q \in Pipes : tx'[q] = IF tx[q] \in V THEN NoValue ELSE tx[q]
      BY <1>1, <2>2, <2>3
    <2> QED
      BY <1>1, <2>2, <2>4, <2>5, <2>6, CloseKeepsTable
  <1>7. Close({}) /\ TypeOK => table' = table
    BY DEF Close, TypeOK
  <1>8. ASSUME NEW j \in Jobs, Terminate(j)
        PROVE  TableInv'
    BY <1>2, <1>7, <1>8 DEF Terminate, OwnedBy, ownerVars
  <1>9. ASSUME NEW j \in Jobs, NEW w \in Waits, Waiter(j, w)
        PROVE  TableInv'
    BY <1>2, <1>7, <1>9 DEF Waiter, PollPending, WaiterCalls, WaiterReturns, OwnedBy, tableVars, ownerVars
  <1>10. CASE UNCHANGED vars
    BY <1>2, <1>10 DEF vars, tableVars, ownerVars
  <1> QED
    BY <1>3, <1>4, <1>5, <1>6, <1>8, <1>9, <1>10 DEF Next
-----------------------------------------------------------------------------
(* The owners and the life of their job.                                   *)
LEMMA HolderLocal ==
  ASSUME NEW k \in Jobs, HolderInv(k), process'[k] = process[k], pc'[k] = pc[k],
         \A p \in PipesOf(k) : rx'[p] = rx[p] /\ tx'[p] = tx[p] /\ reader'[p] = reader[p]
  PROVE  HolderInv(k)'
  BY DEF HolderInv, PipesOf

LEMMA HolderStep ==
  ASSUME TypeOK, OwnershipInv, [Next]_vars, NEW k \in Jobs
  PROVE  HolderInv(k)'
  <1>1. /\ HolderInv(k) /\ PipesOf(k) \subseteq Pipes /\ PipesOf(k)' = PipesOf(k)
        /\ NoValue \notin Values
    BY PipeNames, Names DEF OwnershipInv, PipesOf
  <1>2. ASSUME UNCHANGED <<process, rx, tx, pc, reader>>
        PROVE  HolderInv(k)'
    BY <1>1, <1>2, HolderLocal
  <1>3. ASSUME NEW j \in Jobs, Spawn(j)
        PROVE  HolderInv(k)'
    <2>1. ASSUME NEW s \in Streams, CreatePipe(j, s)
          PROVE  HolderInv(k)'
      <3> DEFINE r == <<j, s>>
      <3>1. PICK v, w \in Values : rx' = [rx EXCEPT ![r] = v] /\ tx' = [tx EXCEPT ![r] = w]
        BY <2>1 DEF CreatePipe, Unused
      <3>2. r \in Pipes /\ (j # k => r \notin PipesOf(k))
        BY PipeNames
      <3>3. UNCHANGED <<process, pc, reader>> /\ pc[j] = "piping"
        BY <2>1 DEF CreatePipe
      <3> HIDE DEF r
      <3>4. \A p \in Pipes : /\ rx'[p] = IF p = r THEN v ELSE rx[p]
                             /\ tx'[p] = IF p = r THEN w ELSE tx[p]
        BY <3>1, <3>2 DEF TypeOK
      <3>5. CASE j = k
        BY <1>1, <3>2, <3>3, <3>4, <3>5 DEF HolderInv
      <3>6. CASE j # k
        BY <1>1, <3>2, <3>3, <3>4, <3>6, HolderLocal
      <3> QED
        BY <3>5, <3>6
    <2>2. ASSUME NEW s \in Streams, SetInherit(j, s)
          PROVE  HolderInv(k)'
      BY <1>2, <2>2 DEF SetInherit, ownerVars
    <2>3. ASSUME NEW s \in Streams, DropTx(j, s)
          PROVE  HolderInv(k)'
      <3> DEFINE r == <<j, s>>
      <3>1. UNCHANGED <<process, rx, pc, reader>> /\ tx' = [tx EXCEPT ![r] = NoValue] /\ pc[j] = "dropping"
        BY <2>3 DEF DropTx
      <3>2. r \in Pipes /\ (j # k => r \notin PipesOf(k))
        BY PipeNames
      <3> HIDE DEF r
      <3>3. \A p \in Pipes : tx'[p] = IF p = r THEN NoValue ELSE tx[p]
        BY <3>1, <3>2 DEF TypeOK
      <3>4. CASE j = k
        BY <1>1, <3>1, <3>3, <3>4 DEF HolderInv
      <3>5. CASE j # k
        BY <1>1, <3>1, <3>2, <3>3, <3>5, HolderLocal
      <3> QED
        BY <3>4, <3>5
    <2>4. CASE SpawnFails(j)
      <3>1. /\ \A p \in Pipes : /\ rx'[p] = IF p \in PipesOf(j) THEN NoValue ELSE rx[p]
                               /\ tx'[p] = IF p \in PipesOf(j) THEN NoValue ELSE tx[p]
            /\ UNCHANGED <<process, reader>> /\ pc' = [pc EXCEPT ![j] = "failed"] /\ pc[j] = "piping"
        BY <2>4 DEF SpawnFails
      <3>2. CASE j = k
        BY <1>1, <3>1, <3>2 DEF HolderInv, TypeOK
      <3>3. CASE j # k
        <4>1. \A p \in PipesOf(k) : p \notin PipesOf(j)
          BY <1>1, <3>3, PipeNames
        <4>2. pc'[k] = pc[k]
          BY <3>1, <3>3 DEF TypeOK
        <4> QED
          BY <1>1, <3>1, <4>1, <4>2, HolderLocal
      <3> QED
        BY <3>2, <3>3
    <2>5. CASE CreateProcess(j)
      <3>1. PICK v \in Values : process' = [process EXCEPT ![j] = v]
        BY <2>5 DEF CreateProcess, Unused
      <3>2. /\ UNCHANGED <<rx, tx, reader>> /\ pc' = [pc EXCEPT ![j] = "dropping"] /\ pc[j] = "piping"
            /\ TxOf(j) \subseteq inherit
        BY <2>5 DEF CreateProcess
      <3>3. CASE j = k
        <4>1. \A p \in PipesOf(k) : tx[p] # NoValue
          BY <1>1, <3>2, <3>3 DEF TxOf, TypeOK
        <4> QED
          BY <1>1, <3>1, <3>2, <3>3, <4>1 DEF HolderInv, TypeOK
      <3>4. CASE j # k
        <4>1. pc'[k] = pc[k] /\ process'[k] = process[k]
          BY <3>1, <3>2, <3>4 DEF TypeOK
        <4> QED
          BY <1>1, <3>2, <4>1, HolderLocal
      <3> QED
        BY <3>3, <3>4
    <2> QED
      BY <1>3, <2>1, <2>2, <2>3, <2>4, <2>5 DEF Spawn
  <1>4. ASSUME NEW j \in Jobs, Child(j)
        PROVE  HolderInv(k)'
    BY <1>2, <1>4 DEF Child, ChildCloses, ChildExits, tableVars, ownerVars
  <1>5. ASSUME NEW j \in Jobs, Tracker(j)
        PROVE  HolderInv(k)'
    <2>1. CASE PollReady(j)
      BY <1>2, <2>1 DEF PollReady, ownerVars
    <2>2. CASE StartTracking(j)
      <3>1. /\ UNCHANGED <<process, rx, tx>> /\ pc' = [pc EXCEPT ![j] = "tracking"] /\ pc[j] = "dropping"
            /\ \A p \in Pipes : reader'[p] = IF p \in PipesOf(j) THEN "reading" ELSE reader[p]
            /\ \A p \in PipesOf(j) : tx[p] = NoValue
        BY <2>2 DEF StartTracking, ownerVars, TxDropped, TxOf
      <3>2. CASE j = k
        BY <1>1, <3>1, <3>2 DEF HolderInv, TypeOK
      <3>3. CASE j # k
        <4>1. \A p \in PipesOf(k) : p \notin PipesOf(j)
          BY <1>1, <3>3, PipeNames
        <4>2. pc'[k] = pc[k]
          BY <3>1, <3>3 DEF TypeOK
        <4> QED
          BY <1>1, <3>1, <4>1, <4>2, HolderLocal
      <3> QED
        BY <3>2, <3>3
    <2>3. CASE StartKill(j) \/ KillReturns(j)
      <3>1. /\ UNCHANGED <<process, rx, tx, reader>>
            /\ pc[j] \in {"tracking", "killing"}
            /\ pc' = [pc EXCEPT ![j] = "killing"] \/ pc' = [pc EXCEPT ![j] = "tracking"]
        BY <2>3 DEF StartKill, KillReturns, ownerVars
      <3> QED
        BY <1>1, <3>1 DEF HolderInv, TypeOK
    <2>4. CASE DropChild(j)
      <3>1. /\ UNCHANGED <<rx, tx, reader>> /\ process' = [process EXCEPT ![j] = NoValue]
            /\ pc[j] = "tracking" /\ pc' = [pc EXCEPT ![j] = "done"]
        BY <2>4 DEF DropChild
      <3> QED
        BY <1>1, <3>1 DEF HolderInv, TypeOK
    <2> QED
      BY <1>5, <2>1, <2>2, <2>3, <2>4 DEF Tracker, TrackerReturns, TrackerBreaks
  <1>6. ASSUME NEW j \in Jobs, Terminate(j)
        PROVE  HolderInv(k)'
    BY <1>2, <1>6 DEF Terminate, ownerVars
  <1>7. ASSUME NEW r \in Pipes, Reader(r)
        PROVE  HolderInv(k)'
    <2>1. ReaderReturns(r)
      BY <1>7 DEF Reader, ReaderEnds, ReaderGivesUp
    <2>2. /\ UNCHANGED <<process, tx, pc>> /\ reader[r] = "reading"
          /\ \A p \in Pipes : /\ rx'[p] = IF p = r THEN NoValue ELSE rx[p]
                             /\ reader'[p] = IF p = r THEN "done" ELSE reader[p]
      BY <2>1 DEF ReaderReturns, TypeOK
    <2> QED
      BY <1>1, <2>2 DEF HolderInv
  <1>8. ASSUME NEW j \in Jobs, NEW w \in Waits, Waiter(j, w)
        PROVE  HolderInv(k)'
    BY <1>2, <1>8 DEF Waiter, PollPending, WaiterCalls, WaiterReturns, ownerVars
  <1>9. CASE UNCHANGED vars
    BY <1>2, <1>9 DEF vars, ownerVars
  <1> QED
    BY <1>3, <1>4, <1>5, <1>6, <1>7, <1>8, <1>9 DEF Next

-----------------------------------------------------------------------------
(* The clones.                                                             *)
LEMMA CloneLocal ==
  ASSUME NEW k \in Jobs, CloneInv(k), process'[k] = process[k], pc'[k] = pc[k],
         killer'[k] = killer[k], \A w \in Waits : waiter'[<<k, w>>] = waiter[<<k, w>>]
  PROVE  CloneInv(k)'
  BY DEF CloneInv, Process

LEMMA CloneStep ==
  ASSUME TypeOK, OwnershipInv, [Next]_vars, NEW k \in Jobs
  PROVE  CloneInv(k)'
  <1>1. HolderInv(k) /\ CloneInv(k) /\ HandleIsOwn /\ NoValue \notin Values
    BY Names DEF OwnershipInv
  <1>2. ASSUME UNCHANGED <<process, pc, killer, waiter>>
        PROVE  CloneInv(k)'
    BY <1>1, <1>2, CloneLocal
  <1>3. ASSUME NEW j \in Jobs, Spawn(j)
        PROVE  CloneInv(k)'
    <2>1. ASSUME NEW s \in Streams, CreatePipe(j, s) \/ SetInherit(j, s) \/ DropTx(j, s)
          PROVE  CloneInv(k)'
      BY <1>2, <2>1 DEF CreatePipe, SetInherit, DropTx, ownerVars
    <2>2. CASE SpawnFails(j) \/ CreateProcess(j)
      <3>1. /\ UNCHANGED <<killer, waiter>> /\ pc[j] = "piping"
            /\ j # k => process'[k] = process[k] /\ pc'[k] = pc[k]
        BY <2>2 DEF SpawnFails, CreateProcess, TypeOK
      <3>2. CASE j = k
        BY <1>1, <3>1, <3>2 DEF CloneInv
      <3>3. CASE j # k
        BY <1>1, <3>1, <3>3, CloneLocal
      <3> QED
        BY <3>2, <3>3
    <2> QED
      BY <1>3, <2>1, <2>2 DEF Spawn
  <1>4. ASSUME NEW j \in Jobs, Child(j)
        PROVE  CloneInv(k)'
    BY <1>2, <1>4 DEF Child, ChildCloses, ChildExits, tableVars, ownerVars
  <1>5. ASSUME NEW j \in Jobs, Tracker(j)
        PROVE  CloneInv(k)'
    <2>1. CASE PollReady(j)
      BY <1>2, <2>1 DEF PollReady, ownerVars
    <2>2. CASE StartTracking(j)
      <3>1. UNCHANGED <<process, killer, waiter>> /\ pc[j] = "dropping" /\ pc' = [pc EXCEPT ![j] = "tracking"]
        BY <2>2 DEF StartTracking, ownerVars
      <3> QED
        BY <1>1, <3>1 DEF CloneInv, TypeOK
    <2>3. CASE StartKill(j)
      <3>1. /\ UNCHANGED <<process, waiter>> /\ pc[j] = "tracking" /\ pc' = [pc EXCEPT ![j] = "killing"]
            /\ killer' = [killer EXCEPT ![j] = [at |-> "terminating", value |-> process[j]]]
        BY <2>3 DEF StartKill, ownerVars
      <3> QED
        BY <1>1, <3>1 DEF CloneInv, TypeOK, Process
    <2>4. CASE KillReturns(j)
      <3>1. /\ UNCHANGED <<process, waiter, killer>> /\ pc[j] = "killing" /\ pc' = [pc EXCEPT ![j] = "tracking"]
            /\ killer[j].at = "done"
        BY <2>4 DEF KillReturns, KillReady, ownerVars
      <3> QED
        BY <1>1, <3>1 DEF CloneInv, TypeOK, Process
    <2>5. CASE DropChild(j)
      <3>1. /\ UNCHANGED <<killer, waiter>> /\ pc[j] = "tracking" /\ pc' = [pc EXCEPT ![j] = "done"]
            /\ process' = [process EXCEPT ![j] = NoValue]
        BY <2>5 DEF DropChild
      <3> QED
        BY <1>1, <3>1 DEF CloneInv, TypeOK, Process
    <2> QED
      BY <1>5, <2>1, <2>2, <2>3, <2>4, <2>5 DEF Tracker, TrackerReturns, TrackerBreaks
  <1>6. ASSUME NEW j \in Jobs, Terminate(j)
        PROVE  CloneInv(k)'
    <2>1. /\ UNCHANGED <<process, pc, waiter>>
          /\ killer'[j].at = "done" /\ (j # k => killer'[k] = killer[k])
      BY <1>6 DEF Terminate, ownerVars, TypeOK
    <2>2. CASE j = k
      BY <1>1, <2>1, <2>2 DEF CloneInv, Process
    <2>3. CASE j # k
      BY <1>1, <2>1, <2>3, CloneLocal
    <2> QED
      BY <2>2, <2>3
  <1>7. ASSUME NEW r \in Pipes, Reader(r)
        PROVE  CloneInv(k)'
    BY <1>2, <1>7 DEF Reader, ReaderEnds, ReaderGivesUp, ReaderReturns
  <1>8. ASSUME NEW j \in Jobs, NEW w \in Waits, Waiter(j, w)
        PROVE  CloneInv(k)'
    <2>1. UNCHANGED <<process, pc, killer>>
      BY <1>8 DEF Waiter, PollPending, WaiterCalls, WaiterReturns, ownerVars
    <2>2. \A u \in Waits : <<k, u>> # <<j, w>> => waiter'[<<k, u>>] = waiter[<<k, u>>]
      BY <1>8 DEF Waiter, PollPending, WaiterCalls, WaiterReturns, TypeOK
    <2>3. CASE j # k
      BY <1>1, <2>1, <2>2, <2>3, CloneLocal
    <2>4. CASE j = k
      <3> DEFINE old == waiter[<<k, w>>]
                 new == waiter'[<<k, w>>]
      <3>1. new.at # "idle" =>
              /\ new.value \in Values
              /\ pc[k] \in {"tracking", "killing", "done"}
              /\ pc[k] # "done" =>
                   /\ new.value = process[k]
                   /\ new.at = "waiting" => new.object = Process(k)
        <4>1. CASE PollPending(k, w)
          <5>1. new = [at |-> "calling", value |-> process[k], object |-> Free] /\ pc[k] = "tracking"
            BY <4>1 DEF PollPending, TypeOK
          <5>2. process[k] \in Values
            BY <1>1, <5>1 DEF HolderInv, TypeOK
          <5> QED
            BY <5>1, <5>2
        <4>2. CASE WaiterCalls(k, w)
          <5>1. /\ new = [at |-> "waiting", value |-> old.value, object |-> table[old.value]]
                /\ old.at = "calling"
            BY <4>2 DEF WaiterCalls, TypeOK
          <5>2. /\ old.value \in Values /\ pc[k] \in {"tracking", "killing", "done"}
                /\ pc[k] # "done" => old.value = process[k]
            BY <1>1, <5>1 DEF CloneInv
          <5>3. pc[k] # "done" => table[process[k]] = Process(k)
            BY <1>1, <5>2 DEF HandleIsOwn
          <5> QED
            BY <5>1, <5>2, <5>3
        <4>3. CASE WaiterReturns(k, w)
          BY <4>3 DEF WaiterReturns, Idle, TypeOK
        <4> QED
          BY <1>8, <2>4, <4>1, <4>2, <4>3 DEF Waiter
      <3>2. \A u \in Waits : u # w => waiter'[<<k, u>>] = waiter[<<k, u>>]
        BY <2>2
      <3> HIDE DEF old, new
      <3>3. \A u \in Waits : u = w => waiter'[<<k, u>>] = new
        BY DEF new
      <3> QED
        BY <1>1, <2>1, <3>1, <3>2, <3>3 DEF CloneInv, Process
    <2> QED
      BY <2>3, <2>4
  <1>9. CASE UNCHANGED vars
    BY <1>2, <1>9 DEF vars, ownerVars
  <1> QED
    BY <1>3, <1>4, <1>5, <1>6, <1>7, <1>8, <1>9 DEF Next

-----------------------------------------------------------------------------
LEMMA OwnershipInit == Init => OwnershipInv
  <1> SUFFICES ASSUME Init PROVE OwnershipInv
    OBVIOUS
  <1>1. HandleIsOwn
    BY DEF Init, HandleIsOwn
  <1>2. OpenIsOwned
    BY Names DEF Init, OpenIsOwned
  <1>3. \A j \in Jobs : HolderInv(j)
    BY PipeNames DEF Init, HolderInv
  <1>4. \A j \in Jobs : CloneInv(j)
    BY DEF Init, CloneInv, Idle
  <1> QED
    BY <1>1, <1>2, <1>3, <1>4 DEF OwnershipInv

LEMMA OwnershipStep ==
  ASSUME TypeOK, OwnershipInv, [Next]_vars
  PROVE  OwnershipInv'
  <1>1. HandleIsOwn' /\ OpenIsOwned'
    BY TableStep DEF TableInv
  <1>2. \A j \in Jobs : HolderInv(j)' /\ CloneInv(j)'
    BY HolderStep, CloneStep
  <1> QED
    BY <1>1, <1>2 DEF OwnershipInv

(* The invariant that is inductive.                                        *)
THEOREM HandlesInvariant == Spec => []IndInv
  <1>1. Init => TypeOK /\ OwnershipInv
    BY TypeInit, OwnershipInit
  <1>2. (TypeOK /\ OwnershipInv) /\ [Next]_vars => (TypeOK /\ OwnershipInv)'
    BY TypeStep, OwnershipStep
  <1> QED
    BY <1>1, <1>2, PTL DEF Spec, IndInv

(* The state of the handles and of the threads that use them is well       *)
(* formed; in particular a thread of WaitChild always has a handle value.  *)
THEOREM HandlesTypeCorrect == Spec => []TypeOK
  BY HandlesInvariant, PTL DEF IndInv

(* Handle, Drop and the clones: whoever owns a handle owns it alone and    *)
(* still, so close() never closes what somebody else has opened.           *)
THEOREM NoHandleIsClosedTwice == Spec => []HandleIsOwn
  <1>1. OwnershipInv => HandleIsOwn
    BY DEF OwnershipInv
  <1> QED
    BY <1>1, HandlesInvariant, PTL DEF IndInv

(* KillChild: its thread terminates the job's own process or none.         *)
THEOREM KillIsOnTarget == Spec => []KillHitsOwnProcess
  <1>1. OwnershipInv => KillHitsOwnProcess
    <2> SUFFICES ASSUME OwnershipInv, NEW j \in Jobs, killer[j].at = "terminating"
                 PROVE  table[killer[j].value] = Process(j)
      BY DEF KillHitsOwnProcess
    <2>1. pc[j] = "killing" /\ killer[j].value = process[j]
      BY DEF OwnershipInv, CloneInv
    <2> QED
      BY <2>1 DEF OwnershipInv, HolderInv, HandleIsOwn
  <1> QED
    BY <1>1, HandlesInvariant, PTL DEF IndInv

(* WaitChild: as long as the tracker needs to be woken, its threads wait   *)
(* for its own process.                                                    *)
THEOREM WaitsAreOnTarget == Spec => []WaiterServesItsTracker
  <1>1. OwnershipInv => WaiterServesItsTracker
    BY DEF OwnershipInv, CloneInv, WaiterServesItsTracker
  <1> QED
    BY <1>1, HandlesInvariant, PTL DEF IndInv

(* Failed spawns and ended jobs leave no open handle behind.               *)
THEOREM HandlesAreReturned == Spec => []NothingIsLeaked
  <1>1. TypeOK /\ OwnershipInv => NothingIsLeaked
    <2> SUFFICES ASSUME TypeOK, OwnershipInv, NEW v \in Values, NEW j \in Jobs
                 PROVE  /\ table[v] = Process(j) => pc[j] \in {"dropping", "tracking", "killing"}
                        /\ \A p \in PipesOf(j) :
                             /\ table[v] = Tx(p) => pc[j] \in {"piping", "dropping"}
                             /\ table[v] = Rx(p) => pc[j] \in {"piping", "dropping"} \/ reader[p] = "reading"
      BY DEF NothingIsLeaked
    <2>1. HolderInv(j) /\ OpenIsOwned /\ v # NoValue
      BY Names DEF OwnershipInv
    <2>2. \A p \in PipesOf(j) : p \in Pipes
      BY PipeNames
    <2> QED
      BY <2>1, <2>2 DEF OpenIsOwned, HolderInv
  <1> QED
    BY <1>1, HandlesInvariant, PTL DEF IndInv
==============================================================================
