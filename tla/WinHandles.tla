------------------------------ MODULE WinHandles ------------------------------
(***************************************************************************)
(* The handles of src/proc/spawn/win.rs: Child::spawn with its pipes, the  *)
(* owned and cloned Handle values, and what the tracker, the two reader    *)
(* threads and the threads of WaitChild and KillChild do with them.        *)
(*                                                                         *)
(* The server has one handle table.  Closing a handle frees its value for  *)
(* any later handle, and CreateProcessW gives the new process a duplicate  *)
(* of every inheritable handle that is open at that moment.  Nothing       *)
(* orders the spawn() calls of different jobs.                             *)
(*                                                                         *)
(* The handle of the child's main thread, which is never used and lives as *)
(* long as that of its process, is left out.                               *)
(***************************************************************************)
EXTENDS Naturals

CONSTANTS
  Jobs,       \* calls of Child::spawn, and the jobs they start
  Streams,    \* PipeKind: stdout and stderr
  Waits,      \* bound: pending polls of WaitChild per job, a thread each
  Values,     \* bound: the values the handle table can give out
  NoValue,    \* there is no Handle: it was not created, or was dropped
  Free        \* what a value denotes that is not in use

Pipes == Jobs \X Streams

Process(j) == [kind |-> "process", of |-> j]
Rx(p) == [kind |-> "rx", of |-> p]
Tx(p) == [kind |-> "tx", of |-> p]
Objects == [kind : {"process"}, of : Jobs] \union [kind : {"rx", "tx"}, of : Pipes]

ASSUME NamesAssumption == NoValue \notin Values /\ Free \notin Objects

VARIABLES
  table,     \* table[v]: the object the handle v denotes
  inherit,   \* the handles with HANDLE_FLAG_INHERIT
  process,   \* process[j]: the owned handle in ProcessInfo
  rx, tx,    \* rx[p], tx[p]: the owned handles of a pipe's ends
  pc,        \* pc[j]: where spawn() is, or the tracker that owns the Child
  status,    \* status[j]: the child process of j
  ends,      \* ends[j]: the pipes of which it holds a write end
  reader,    \* reader[p]: the thread of WinHandleOutputStream
  seen,      \* the jobs whose tracker has collected the exit status
  killer,    \* killer[j]: the thread of KillChild, and its clone
  waiter     \* waiter[<<j, w>>]: a thread of WaitChild, its clone, and the
             \*               object its call waits for

tableVars == <<table, inherit>>
ownerVars == <<process, rx, tx>>
childVars == <<status, ends>>
vars == <<tableVars, ownerVars, pc, childVars, reader, seen, killer, waiter>>

Idle == [at |-> "idle", value |-> NoValue, object |-> Free]

TypeOK ==
  /\ table \in [Values -> Objects \union {Free}]
  /\ inherit \in SUBSET Values
  /\ process \in [Jobs -> Values \union {NoValue}]
  /\ rx \in [Pipes -> Values \union {NoValue}]
  /\ tx \in [Pipes -> Values \union {NoValue}]
  /\ pc \in [Jobs -> {"piping", "failed", "dropping", "tracking", "killing", "done"}]
  /\ status \in [Jobs -> {"none", "running", "dead"}]
  /\ ends \in [Jobs -> SUBSET Pipes]
  /\ reader \in [Pipes -> {"none", "reading", "done"}]
  /\ seen \in SUBSET Jobs
  /\ killer \in [Jobs -> [at : {"none", "terminating", "done"}, value : Values \union {NoValue}]]
  /\ waiter \in [Jobs \X Waits -> [at : {"idle", "calling", "waiting"},
                                   value : Values \union {NoValue},
                                   object : Objects \union {Free}]]

Init ==
  /\ table = [v \in Values |-> Free] /\ inherit = {}
  /\ process = [j \in Jobs |-> NoValue]
  /\ rx = [p \in Pipes |-> NoValue] /\ tx = [p \in Pipes |-> NoValue]
  /\ pc = [j \in Jobs |-> "piping"]
  /\ status = [j \in Jobs |-> "none"] /\ ends = [j \in Jobs |-> {}]
  /\ reader = [p \in Pipes |-> "none"]
  /\ seen = {}
  /\ killer = [j \in Jobs |-> [at |-> "none", value |-> NoValue]]
  /\ waiter = [jw \in Jobs \X Waits |-> Idle]

-----------------------------------------------------------------------------
(* The handle table.                                                       *)

Unused == {v \in Values : table[v] = Free}

(* CloseHandle, of every handle in V.                                      *)
Close(V) ==
  /\ table' = [v \in Values |-> IF v \in V THEN Free ELSE table[v]]
  /\ inherit' = inherit \ V

(* Handle::close: only an owned handle is closed, and a clone never owns.  *)
(* Faulty: a clone owns what it was cloned from.                           *)
OwnedWhenCloned(clone) == {clone}
OwnedBy(clone) == {}

PipesOf(j) == {j} \X Streams
TxOf(j) == {tx[p] : p \in PipesOf(j)}
RxOf(j) == {rx[p] : p \in PipesOf(j)}

-----------------------------------------------------------------------------
(* Child::spawn.                                                           *)

(* create_handles makes one pipe after the other, and marks the write end  *)
(* of each as inheritable before the next.                                 *)
CreatePipe(j, s) ==
  /\ pc[j] = "piping"
  /\ TxOf(j) \ {NoValue} \subseteq inherit
  /\ tx[<<j, s>>] = NoValue
  /\ \E v, w \in Unused :
       /\ v # w
       /\ rx' = [rx EXCEPT ![<<j, s>>] = v]
       /\ tx' = [tx EXCEPT ![<<j, s>>] = w]
       /\ table' = [table EXCEPT ![v] = Rx(<<j, s>>), ![w] = Tx(<<j, s>>)]
  /\ UNCHANGED <<inherit, process, pc, childVars, reader, seen, killer, waiter>>

(* Faulty: an error of CreatePipe is ignored.                              *)
HasPipeAlways(j, s) == TRUE
HasPipe(j, s) == tx[<<j, s>>] # NoValue

SetInherit(j, s) ==
  /\ pc[j] = "piping"
  /\ HasPipe(j, s)
  /\ tx[<<j, s>>] \notin inherit
  /\ inherit' = inherit \union {tx[<<j, s>>]}
  /\ UNCHANGED <<table, ownerVars, pc, childVars, reader, seen, killer, waiter>>

(* Faulty: an early return forgets the read ends.                          *)
DroppedTxOnly(j) == TxOf(j)
Dropped(j) == TxOf(j) \union RxOf(j)

(* CreatePipe, SetHandleInformation or CreateProcessW fails: the ? drops   *)
(* the handles made so far.                                                *)
SpawnFails(j) ==
  /\ pc[j] = "piping"
  /\ Close(Dropped(j))
  /\ rx' = [p \in Pipes |-> IF p \in PipesOf(j) THEN NoValue ELSE rx[p]]
  /\ tx' = [p \in Pipes |-> IF p \in PipesOf(j) THEN NoValue ELSE tx[p]]
  /\ pc' = [pc EXCEPT ![j] = "failed"]
  /\ UNCHANGED <<process, childVars, reader, seen, killer, waiter>>

(* bInheritHandles is true: the child gets every inheritable handle the    *)
(* server has, whichever spawn() made it.                                  *)
Inherited == {p \in Pipes : \E v \in inherit : table[v] = Tx(p)}

CreateProcess(j) ==
  /\ pc[j] = "piping"
  /\ TxOf(j) \subseteq inherit
  /\ \E v \in Unused :
       /\ process' = [process EXCEPT ![j] = v]
       /\ table' = [table EXCEPT ![v] = Process(j)]
  /\ status' = [status EXCEPT ![j] = "running"]
  /\ ends' = [ends EXCEPT ![j] = Inherited]
  /\ pc' = [pc EXCEPT ![j] = "dropping"]
  /\ UNCHANGED <<inherit, rx, tx, reader, seen, killer, waiter>>

(* drop(stdout_tx), drop(stderr_tx).                                       *)
DropTx(j, s) ==
  /\ pc[j] = "dropping"
  /\ tx[<<j, s>>] # NoValue
  /\ Close({tx[<<j, s>>]})
  /\ tx' = [tx EXCEPT ![<<j, s>>] = NoValue]
  /\ UNCHANGED <<process, rx, pc, childVars, reader, seen, killer, waiter>>

(* Faulty: the write ends stay open in the Child.                          *)
TxKept(j) == TRUE
TxDropped(j) == TxOf(j) \subseteq {NoValue}

(* spawn() returns, and the tracker's wait() begins: stdout() and stderr() *)
(* move the read ends into their threads.                                  *)
StartTracking(j) ==
  /\ pc[j] = "dropping"
  /\ TxDropped(j)
  /\ pc' = [pc EXCEPT ![j] = "tracking"]
  /\ reader' = [p \in Pipes |-> IF p \in PipesOf(j) THEN "reading" ELSE reader[p]]
  /\ UNCHANGED <<tableVars, ownerVars, childVars, seen, killer, waiter>>

-----------------------------------------------------------------------------
(* The child processes.  A child may close its ends, and ends of itself.   *)

Ended(j) ==
  /\ status' = [status EXCEPT ![j] = "dead"]
  /\ ends' = [ends EXCEPT ![j] = {}]

ChildCloses(j, p) ==
  /\ p \in ends[j]
  /\ ends' = [ends EXCEPT ![j] = @ \ {p}]
  /\ UNCHANGED <<tableVars, ownerVars, pc, status, reader, seen, killer, waiter>>

ChildExits(j) ==
  /\ status[j] = "running"
  /\ Ended(j)
  /\ UNCHANGED <<tableVars, ownerVars, pc, reader, seen, killer, waiter>>

-----------------------------------------------------------------------------
(* read_handle.                                                            *)

(* Some process, or the server itself, can still write.                    *)
WriteEndOpen(p) ==
  \/ \E v \in Values : table[v] = Tx(p)
  \/ \E j \in Jobs : p \in ends[j]

(* The thread returns and drops the read end.                              *)
ReaderReturns(p) ==
  /\ reader[p] = "reading"
  /\ reader' = [reader EXCEPT ![p] = "done"]
  /\ Close({rx[p]})
  /\ rx' = [rx EXCEPT ![p] = NoValue]
  /\ UNCHANGED <<process, tx, pc, childVars, seen, killer, waiter>>

(* ERROR_BROKEN_PIPE.                                                      *)
ReaderEnds(p) == ~WriteEndOpen(p) /\ ReaderReturns(p)

(* Another error, or nobody takes what was read.                           *)
ReaderGivesUp(p) == WriteEndOpen(p) /\ ReaderReturns(p)

-----------------------------------------------------------------------------
(* WaitChild, polled by the select loop of the tracker.                    *)

IsSignalled(object) == \E j \in Jobs : object = Process(j) /\ status[j] = "dead"

(* WaitForSingleObject(process, 0), and GetExitCodeProcess.                *)
PollReady(j) ==
  /\ pc[j] = "tracking" /\ j \notin seen
  /\ IsSignalled(table[process[j]])
  /\ seen' = seen \union {j}
  /\ UNCHANGED <<tableVars, ownerVars, pc, childVars, reader, killer, waiter>>

(* Still running: a thread with a clone of a clone of the handle.          *)
PollPending(j, w) ==
  /\ pc[j] = "tracking" /\ j \notin seen
  /\ ~IsSignalled(table[process[j]])
  /\ waiter[<<j, w>>] = Idle
  /\ waiter' = [waiter EXCEPT ![<<j, w>>] = [at |-> "calling", value |-> process[j], object |-> Free]]
  /\ UNCHANGED <<tableVars, ownerVars, pc, childVars, reader, seen, killer>>

(* The thread enters WaitForSingleObject, which looks the handle up.       *)
WaiterCalls(j, w) ==
  /\ waiter[<<j, w>>].at = "calling"
  /\ LET value == waiter[<<j, w>>].value
     IN waiter' = [waiter EXCEPT ![<<j, w>>] =
                     [at |-> "waiting", value |-> value, object |-> table[value]]]
  /\ UNCHANGED <<tableVars, ownerVars, pc, childVars, reader, seen, killer>>

(* It returns, at once if the handle was not that of a process, and the    *)
(* thread wakes the task and drops its clone.                              *)
WaiterReturns(j, w) ==
  /\ waiter[<<j, w>>].at = "waiting"
  /\ \A k \in Jobs : waiter[<<j, w>>].object = Process(k) => IsSignalled(Process(k))
  /\ Close(OwnedBy(waiter[<<j, w>>].value))
  /\ waiter' = [waiter EXCEPT ![<<j, w>>] = Idle]
  /\ UNCHANGED <<ownerVars, pc, childVars, reader, seen, killer>>

-----------------------------------------------------------------------------
(* KillChild, awaited by the tracker.                                      *)

StartKill(j) ==
  /\ pc[j] = "tracking"
  /\ killer[j].at # "terminating"
  /\ killer' = [killer EXCEPT ![j] = [at |-> "terminating", value |-> process[j]]]
  /\ pc' = [pc EXCEPT ![j] = "killing"]
  /\ UNCHANGED <<tableVars, ownerVars, childVars, reader, seen, waiter>>

(* TerminateProcess(clone, 1), which fails unless the clone denotes a      *)
(* process that runs.  The thread then drops its clone.                    *)
Terminate(j) ==
  /\ killer[j].at = "terminating"
  /\ LET target == table[killer[j].value]
     IN IF \E k \in Jobs : target = Process(k) /\ status[k] = "running"
        THEN Ended(target.of)
        ELSE UNCHANGED childVars
  /\ Close(OwnedBy(killer[j].value))
  /\ killer' = [killer EXCEPT ![j].at = "done"]
  /\ UNCHANGED <<ownerVars, pc, reader, seen, waiter>>

(* KillChild is ready only when its thread has a result.  Faulty: once the *)
(* thread is started.                                                      *)
KillReadyEarly(j) == TRUE
KillReady(j) == killer[j].at = "done"

KillReturns(j) ==
  /\ pc[j] = "killing"
  /\ KillReady(j)
  /\ pc' = [pc EXCEPT ![j] = "tracking"]
  /\ UNCHANGED <<tableVars, ownerVars, childVars, reader, seen, killer, waiter>>

-----------------------------------------------------------------------------
(* wait() returns and drops the Child, whose process runs on if it still   *)
(* runs ("TODO: implement kill_on_drop").                                  *)
DropChild(j) ==
  /\ pc[j] = "tracking"
  /\ Close({process[j]})
  /\ process' = [process EXCEPT ![j] = NoValue]
  /\ pc' = [pc EXCEPT ![j] = "done"]
  /\ UNCHANGED <<rx, tx, childVars, reader, seen, killer, waiter>>

(* All is collected.                                                       *)
TrackerReturns(j) ==
  /\ j \in seen
  /\ \A p \in PipesOf(j) : reader[p] = "done"
  /\ DropChild(j)

(* A read failed, or the wait.                                             *)
TrackerBreaks(j) ==
  /\ ~(j \in seen /\ \A p \in PipesOf(j) : reader[p] = "done")
  /\ DropChild(j)

-----------------------------------------------------------------------------
Spawn(j) == \/ \E s \in Streams : CreatePipe(j, s) \/ SetInherit(j, s) \/ DropTx(j, s)
            \/ SpawnFails(j) \/ CreateProcess(j)

Child(j) == \/ \E p \in Pipes : ChildCloses(j, p)
            \/ ChildExits(j)

Reader(p) == ReaderEnds(p) \/ ReaderGivesUp(p)

Waiter(j, w) == PollPending(j, w) \/ WaiterCalls(j, w) \/ WaiterReturns(j, w)

Tracker(j) == \/ StartTracking(j) \/ PollReady(j) \/ StartKill(j) \/ KillReturns(j)
              \/ TrackerReturns(j) \/ TrackerBreaks(j)

Next == \/ \E j \in Jobs : Spawn(j) \/ Child(j) \/ Tracker(j) \/ Terminate(j)
        \/ \E p \in Pipes : Reader(p)
        \/ \E j \in Jobs, w \in Waits : Waiter(j, w)

Spec == Init /\ [][Next]_vars

(* Threads run, and so does a tracker; that a started kill() returns is    *)
(* not assumed (WinKill.tla).  Nothing makes a child end.                  *)
Fairness ==
  /\ \A j \in Jobs : /\ WF_vars(\E s \in Streams : SetInherit(j, s) \/ DropTx(j, s))
                     /\ WF_vars(CreateProcess(j)) /\ WF_vars(StartTracking(j))
                     /\ WF_vars(PollReady(j)) /\ WF_vars(Terminate(j))
                     /\ WF_vars(TrackerReturns(j))
  /\ \A p \in Pipes : WF_vars(ReaderEnds(p))

FairSpec == Spec /\ Fairness

-----------------------------------------------------------------------------
(* Every handle that a spawn, a tracker or a reader holds denotes what it  *)
(* was opened for: no drop on any path closed it early or closed it for    *)
(* somebody else, so none is closed twice ("cloning a handle converts it   *)
(* into a non-owned version to prevent double-close").                     *)
HandleIsOwn ==
  /\ \A j \in Jobs : process[j] # NoValue => table[process[j]] = Process(j)
  /\ \A p \in Pipes : /\ rx[p] # NoValue => table[rx[p]] = Rx(p)
                      /\ tx[p] # NoValue => table[tx[p]] = Tx(p)

(* TerminateProcess is given a clone by a thread of its own, and yet it    *)
(* never hits the process of another job or a value that was reused.       *)
KillHitsOwnProcess ==
  \A j \in Jobs : killer[j].at = "terminating" => table[killer[j].value] = Process(j)

(* A thread of WaitChild may enter its wait with a handle that was closed  *)
(* and given to somebody else.  Not while its tracker still needs to be    *)
(* woken: then it waits for the tracker's own process.                     *)
WaiterServesItsTracker ==
  \A j \in Jobs, w \in Waits :
    /\ waiter[<<j, w>>].at = "waiting"
    /\ pc[j] \in {"tracking", "killing"}
    => waiter[<<j, w>>].object = Process(j)

(* An open handle belongs to a spawn() under way, to a tracker, or to a    *)
(* reader thread that will drop it: failed spawns, ended jobs and lost     *)
(* clones leave nothing behind in the table.                               *)
NothingIsLeaked ==
  \A v \in Values, j \in Jobs :
    /\ table[v] = Process(j) => pc[j] \in {"dropping", "tracking", "killing"}
    /\ \A p \in PipesOf(j) :
         /\ table[v] = Tx(p) => pc[j] \in {"piping", "dropping"}
         /\ table[v] = Rx(p) => pc[j] \in {"piping", "dropping"} \/ reader[p] = "reading"

(* What makes them inductive (WinHandlesProofs.tla).                       *)

(* What is open has an owner, who knows it by that value.                  *)
OpenIsOwned ==
  \A v \in Values :
    /\ \A j \in Jobs : table[v] = Process(j) => process[j] = v
    /\ \A p \in Pipes : /\ table[v] = Rx(p) => rx[p] = v
                        /\ table[v] = Tx(p) => tx[p] = v

(* Who holds a handle at which time.                                       *)
HolderInv(j) ==
  /\ process[j] # NoValue <=> pc[j] \in {"dropping", "tracking", "killing"}
  /\ \A p \in PipesOf(j) :
       /\ tx[p] # NoValue => pc[j] \in {"piping", "dropping"} /\ rx[p] # NoValue
       /\ rx[p] # NoValue => pc[j] \in {"piping", "dropping"} \/ reader[p] = "reading"
       /\ pc[j] = "piping" /\ rx[p] # NoValue => tx[p] # NoValue
       /\ pc[j] = "dropping" => rx[p] # NoValue
       /\ reader[p] = "reading" => rx[p] # NoValue /\ pc[j] \notin {"piping", "dropping"}

(* A thread with a clone has the tracker's handle: that of KillChild is    *)
(* awaited, those of WaitChild are not.                                    *)
CloneInv(j) ==
  /\ killer[j].at = "terminating" => pc[j] = "killing" /\ killer[j].value = process[j]
  /\ \A w \in Waits :
       waiter[<<j, w>>].at # "idle" =>
         /\ waiter[<<j, w>>].value \in Values
         /\ pc[j] \in {"tracking", "killing", "done"}
         /\ pc[j] # "done" =>
              /\ waiter[<<j, w>>].value = process[j]
              /\ waiter[<<j, w>>].at = "waiting" => waiter[<<j, w>>].object = Process(j)

OwnershipInv ==
  /\ HandleIsOwn /\ OpenIsOwned
  /\ \A j \in Jobs : HolderInv(j) /\ CloneInv(j)

(* With the types: what every step of every thread preserves.              *)
IndInv == TypeOK /\ OwnershipInv

(* src/proc/spawn/win.rs:188 "close the write side of the pipes so that    *)
(* reads can happen": once the child has ended, the streams of its job     *)
(* end.                                                                    *)
StreamsEndWithTheChild ==
  \A j \in Jobs : (status[j] = "dead" /\ pc[j] = "tracking")
                    ~> \A p \in PipesOf(j) : reader[p] = "done"
==============================================================================
