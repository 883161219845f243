-------------------------- MODULE VulkanExecProofs --------------------------
(* exec_lock of the Vulkan device, for any number of threads and any pool: it *)
(* is held exactly by the call inside a locked section, which serializes the  *)
(* externally synchronized objects, rules out re-entry, and keeps submitted   *)
(* work from being torn down.  Its descriptor pool drains as long as nothing  *)
(* goes wrong, and once it is full between two calls nothing empties it       *)
(* again.  And of the handles of a call: what it can leave behind.            *)
EXTENDS VulkanExec, TLAPS

CallRecord == [op : Ops, pc : Nat, width : Nat \ {0}, items : Nat, left : Int, ok : BOOLEAN]
\* Where calls are: at an operation of the API and a position of its script.
CallOK ==
  /\ call \in [Thread -> CallRecord]
  /\ \A t \in Thread : call[t].pc <= Len(Script[Op(t)]) + 1
  /\ lock \in Thread \union {NoOne}
IInv == CallOK /\ LockFollowsTheCall

-----------------------------------------------------------------------------
\* The scripts as sequences of the API's operations.
LEMMA ScriptOf ==
  /\ Ops = {"run", "bench", "stage", "raw", "compile", "bound", "batch", "stage_empty",
            "batch_empty"}
  /\ Script["run"] = RunKernel /\ Script["bench"] = BenchKernel
  /\ Script["stage"] = AllocDeviceLocal /\ Script["raw"] = AllocRaw
  /\ Script["compile"] = CompileKernel /\ Script["bound"] = RunBound
  /\ Script["batch"] = RunBatch
  /\ Script["stage_empty"] = AllocEmpty /\ Script["batch_empty"] = EmptyBatch
  BY DEF Script, Ops

LEMMA ScriptLen ==
  /\ Len(RunKernel) = 17 /\ Len(BenchKernel) = 37 /\ Len(AllocDeviceLocal) = 9
  /\ Len(AllocRaw) = 1 /\ Len(CompileKernel) = 4 /\ Len(RunBound) = 8 /\ Len(RunBatch) = 8
  /\ Len(AllocEmpty) = 3 /\ Len(EmptyBatch) = 2
  BY DEF RunKernel, BenchKernel, AllocDeviceLocal, AllocRaw, CompileKernel, RunBound, RunBatch,
         AllocEmpty, EmptyBatch

LEMMA ScriptLenNat == \A o \in Ops : Len(Script[o]) \in Nat
  BY ScriptOf, ScriptLen

\* Moving on by one position enters a locked section at "lock" and leaves it
\* at "unlock".
LEMMA NextPosition ==
  ASSUME NEW o \in Ops, NEW i \in Nat, i >= 1
  PROVE  InLock(o, i + 1) <=> \/ Script[o][i] = "lock"
                              \/ InLock(o, i) /\ Script[o][i] # "unlock"
<1>1. CASE Script[o][i] = "lock"
  BY <1>1 DEF InLock
<1>2. CASE Script[o][i] # "lock"
  <2>1. ASSUME InLock(o, i + 1) PROVE InLock(o, i) /\ Script[o][i] # "unlock"
    <3>1. PICK j \in 1..i : /\ Script[o][j] = "lock"
                            /\ \A k \in j+1..i : Script[o][k] # "unlock"
      BY <2>1 DEF InLock
    <3>2. j \in 1..i-1
      BY <3>1, <1>2
    <3> QED
      BY <3>1, <3>2 DEF InLock
  <2>2. ASSUME InLock(o, i), Script[o][i] # "unlock" PROVE InLock(o, i + 1)
    <3>1. PICK j \in 1..i-1 : /\ Script[o][j] = "lock"
                              /\ \A k \in j+1..i-1 : Script[o][k] # "unlock"
      BY <2>2 DEF InLock
    <3>2. \A k \in j+1..i : Script[o][k] # "unlock"
      BY <3>1, <2>2
    <3> QED
      BY <3>1, <3>2 DEF InLock
  <2> QED
    BY <1>2, <2>1, <2>2
<1> QED
  BY <1>1, <1>2

LEMMA FirstPosition == \A o \in Ops : ~InLock(o, 1) /\ ~InLock(o, 0)
  BY DEF InLock

\* What is asked of a script: it never locks twice, it unlocks and touches the
\* synchronized objects only while it holds the lock, and it does not end with it.
WellLocked(o) ==
  /\ \A i \in 1..Len(Script[o]) :
       /\ Script[o][i] = "lock" => ~InLock(o, i)
       /\ Script[o][i] \in Synchronized \union {"unlock"} => InLock(o, i)
  /\ ~InLock(o, Len(Script[o]) + 1)

LEMMA RunWellLocked == WellLocked("run")
<1> DEFINE s == RunKernel
<1>1. /\ \A i \in 1..17 : s[i] = "lock" <=> i = 1
      /\ \A i \in 1..17 : s[i] = "unlock" <=> i = 17
      /\ \A i \in 1..17 : s[i] \in Synchronized => i \in 2..17
  BY DEF RunKernel, Synchronized
<1> HIDE DEF s
<1>2. Script["run"] = s /\ Len(s) = 17
  BY ScriptOf, ScriptLen DEF s
<1> QED
  BY <1>1, <1>2 DEF WellLocked, InLock

LEMMA StageWellLocked == WellLocked("stage")
<1> DEFINE s == AllocDeviceLocal
<1>1. /\ \A i \in 1..9 : s[i] = "lock" <=> i = 1
      /\ \A i \in 1..9 : s[i] = "unlock" <=> i = 9
      /\ \A i \in 1..9 : s[i] \in Synchronized => i \in 2..9
  BY DEF AllocDeviceLocal, Synchronized
<1> HIDE DEF s
<1>2. Script["stage"] = s /\ Len(s) = 9
  BY ScriptOf, ScriptLen DEF s
<1> QED
  BY <1>1, <1>2 DEF WellLocked, InLock

LEMMA BoundWellLocked == WellLocked("bound")
<1> DEFINE s == RunBound
<1>1. /\ \A i \in 1..8 : s[i] = "lock" <=> i = 1
      /\ \A i \in 1..8 : s[i] = "unlock" <=> i = 8
      /\ \A i \in 1..8 : s[i] \in Synchronized => i \in 2..8
  BY DEF RunBound, Synchronized
<1> HIDE DEF s
<1>2. Script["bound"] = s /\ Len(s) = 8
  BY ScriptOf, ScriptLen DEF s
<1> QED
  BY <1>1, <1>2 DEF WellLocked, InLock

LEMMA BatchWellLocked == WellLocked("batch")
<1> DEFINE s == RunBatch
<1>1. /\ \A i \in 1..8 : s[i] = "lock" <=> i = 1
      /\ \A i \in 1..8 : s[i] = "unlock" <=> i = 8
      /\ \A i \in 1..8 : s[i] \in Synchronized => i \in 2..8
  BY DEF RunBatch, Synchronized
<1> HIDE DEF s
<1>2. Script["batch"] = s /\ Len(s) = 8
  BY ScriptOf, ScriptLen DEF s
<1> QED
  BY <1>1, <1>2 DEF WellLocked, InLock

\* The early returns inside the lock.
LEMMA EmptyWellLocked == WellLocked("stage_empty") /\ WellLocked("batch_empty")
<1>1. /\ AllocEmpty[1] = "lock" /\ AllocEmpty[2] = "dst" /\ AllocEmpty[3] = "unlock"
      /\ EmptyBatch[1] = "lock" /\ EmptyBatch[2] = "unlock"
  BY DEF AllocEmpty, EmptyBatch
<1>2. /\ Script["stage_empty"] = AllocEmpty /\ Len(AllocEmpty) = 3
      /\ Script["batch_empty"] = EmptyBatch /\ Len(EmptyBatch) = 2
  BY ScriptOf, ScriptLen
<1>3. WellLocked("stage_empty")
  BY <1>1, <1>2 DEF WellLocked, InLock, Synchronized
<1>4. WellLocked("batch_empty")
  BY <1>1, <1>2 DEF WellLocked, InLock, Synchronized
<1> QED
  BY <1>3, <1>4

\* The two operations that never touch the lock.
LEMMA UnlockedOps == WellLocked("raw") /\ WellLocked("compile")
<1>1. \A i \in 1..1 : AllocRaw[i] \notin Synchronized \union {"lock", "unlock"}
  BY DEF AllocRaw, Synchronized
<1>2. \A i \in 1..4 : CompileKernel[i] \notin Synchronized \union {"lock", "unlock"}
  BY DEF CompileKernel, Synchronized
<1> QED
  BY <1>1, <1>2, ScriptOf, ScriptLen DEF WellLocked, InLock

\* bench_kernel has three locked sections: one for each upload, one to run.
LEMMA BenchSections ==
  \A i \in 1..38 : InLock("bench", i) <=> i \in 2..9 \union 12..19 \union 22..36
<1> DEFINE s == BenchKernel
<1>1. /\ \A i \in 1..37 : s[i] = "lock" <=> i \in {1, 11, 21}
      /\ \A i \in 1..37 : s[i] = "unlock" <=> i \in {9, 19, 36}
  BY DEF BenchKernel
<1> HIDE DEF s
<1>2. Script["bench"] = s
  BY ScriptOf DEF s
<1>3. ASSUME NEW i \in 1..38
      PROVE  InLock("bench", i) <=>
               \E j \in {1, 11, 21} : j < i /\ \A k \in {9, 19, 36} : ~(j < k /\ k < i)
  BY <1>1, <1>2 DEF InLock
<1> QED
  BY <1>3

LEMMA BenchWellLocked == WellLocked("bench")
<1>1. /\ \A i \in 1..37 : BenchKernel[i] = "lock" => i \in {1, 11, 21}
      /\ \A i \in 1..37 : BenchKernel[i] \in Synchronized \union {"unlock"}
           => i \in 2..9 \union 12..19 \union 22..36
  BY DEF BenchKernel, Synchronized
<1> QED
  BY <1>1, BenchSections, ScriptOf, ScriptLen DEF WellLocked

LEMMA AllWellLocked == \A o \in Ops : WellLocked(o)
  BY ScriptOf, RunWellLocked, StageWellLocked, BoundWellLocked, BatchWellLocked,
     UnlockedOps, BenchWellLocked, EmptyWellLocked

\* bench_kernel's clean-up lies behind its descriptor set.
LEMMA CleanupAt == BenchCleanup = 34 /\ BenchKernel[27] = "set"
<1>1. BenchKernel[34] = "destroy" /\ BenchKernel[27] = "set"
  BY DEF BenchKernel
<1>2. \A i \in 1..37 : BenchKernel[i] = "destroy" => i = 34
  BY DEF BenchKernel
<1>3. \A i \in 1..37 : Script.bench[i] = "destroy" <=> i = 34
  BY <1>1, <1>2, ScriptOf
<1>4. Len(Script.bench) = 37
  BY ScriptOf, ScriptLen
<1>5. BenchCleanup = CHOOSE i \in 1..37 : i = 34
  BY <1>3, <1>4 DEF BenchCleanup
<1> QED
  BY <1>1, <1>5

\* Its dispatch loop lies between the query pool and the clean-up.
LEMMA BenchLoopAt ==
  ASSUME NEW t \in Thread, CallOK, InBenchLoop(t)
  PROVE  call[t].pc \in 29..33
<1>0. /\ Script.bench = BenchKernel /\ Script["bench"] = BenchKernel
      /\ Len(BenchKernel) = 37
  BY ScriptOf, ScriptLen
<1>1. /\ \A i \in 1..37 : BenchKernel[i] = "query" => i = 28
      /\ \A i \in 28..37 : BenchKernel[i] \in {"cb", "submit", "wait", "ticks"} => i \in 29..33
  BY DEF BenchKernel
<1>3. /\ Op(t) = "bench" /\ At(t) \in {"cb", "submit", "wait", "ticks"}
      /\ \E i \in 1..call[t].pc : Script.bench[i] = "query"
  BY DEF InBenchLoop
<1>4. call[t].pc \in 1..37 /\ BenchKernel[call[t].pc] \in {"cb", "submit", "wait", "ticks"}
  <2>1. call[t].pc \in Nat
    BY DEF CallOK, CallRecord
  <2>2. At(t) = IF call[t].pc = 0 THEN "idle"
                ELSE IF call[t].pc > 37 THEN "return" ELSE BenchKernel[call[t].pc]
    BY <1>0, <1>3 DEF At
  <2> QED
    BY <1>3, <2>1, <2>2
<1>5. PICK i \in 1..call[t].pc : BenchKernel[i] = "query"
  BY <1>0, <1>3
<1> QED
  BY <1>1, <1>4, <1>5

\* The clean-up of bench_kernel and its dispatch loop are in one locked section.
LEMMA BenchLoopLocked ==
  ASSUME NEW t \in Thread, CallOK, InBenchLoop(t)
  PROVE  /\ BenchCleanup \in 1..37 /\ InLock("bench", BenchCleanup)
         /\ call[t].pc \in 1..37 /\ InLock("bench", call[t].pc)
  BY BenchLoopAt, CleanupAt, BenchSections

-----------------------------------------------------------------------------
\* A thread that is neither idle nor through stands at a step of its script.
LEMMA AtPosition ==
  ASSUME CallOK, NEW t \in Thread, At(t) \notin {"idle", "return"}
  PROVE  /\ Op(t) \in Ops /\ call[t].pc \in 1..Len(Script[Op(t)])
         /\ At(t) = Script[Op(t)][call[t].pc]
<1>1. Op(t) \in Ops /\ call[t].pc \in Nat
  BY DEF CallOK, CallRecord, Op
<1>2. Len(Script[Op(t)]) \in Nat
  BY <1>1, ScriptLenNat
<1> QED
  BY <1>1, <1>2 DEF At

\* The two updates of a call's record that change two fields.
FailedAt(r, n) == [r EXCEPT !.pc = n, !.ok = FALSE]
Granted(r, m, n) == [r EXCEPT !.left = m, !.pc = n]

LEMMA FailedType ==
  ASSUME NEW r \in CallRecord, NEW n \in Nat
  PROVE  FailedAt(r, n) \in CallRecord /\ FailedAt(r, n).pc = n /\ FailedAt(r, n).op = r.op
<1>1. FailedAt(r, n) \in CallRecord
  BY DEF FailedAt, CallRecord
<1>2. FailedAt(r, n).pc = n
  BY DEF FailedAt, CallRecord
<1>3. FailedAt(r, n).op = r.op
  BY DEF FailedAt, CallRecord
<1> QED
  BY <1>1, <1>2, <1>3

LEMMA GrantedType ==
  ASSUME NEW r \in CallRecord, NEW m \in Int, NEW n \in Nat
  PROVE  /\ Granted(r, m, n) \in CallRecord
         /\ Granted(r, m, n).pc = n /\ Granted(r, m, n).op = r.op
<1>1. Granted(r, m, n) \in CallRecord
  BY DEF Granted, CallRecord
<1>2. Granted(r, m, n).pc = n
  BY DEF Granted, CallRecord
<1>3. Granted(r, m, n).op = r.op
  BY DEF Granted, CallRecord
<1> QED
  BY <1>1, <1>2, <1>3

Moved(t, c) == call' = [call EXCEPT ![t] = c]
\* A step moves one thread's call to another position: what is left to show is
\* that the lock follows that thread, the others being where they were.
LEMMA MoveKeeps ==
  ASSUME IInv, NEW t \in Thread, NEW c \in CallRecord,
         Moved(t, c), c.pc <= Len(Script[c.op]) + 1,
         lock' \in Thread \union {NoOne},
         lock' = t <=> c.pc # 0 /\ InLock(c.op, c.pc),
         \/ lock' = lock
         \/ lock' = NoOne /\ lock = t
         \/ lock' = t /\ lock = NoOne
  PROVE  IInv'
<1>1. /\ call' \in [Thread -> CallRecord]
      /\ call'[t] = c /\ \A u \in Thread \ {t} : call'[u] = call[u]
  BY DEF IInv, CallOK, Moved
<1>2. CallOK'
  BY <1>1 DEF IInv, CallOK, Op
<1>3. ASSUME NEW u \in Thread
      PROVE  lock' = u <=> call'[u].pc # 0 /\ InLock(call'[u].op, call'[u].pc)
  BY <1>1, NoOneIsNoThread DEF IInv, LockFollowsTheCall, Op
<1>4. LockFollowsTheCall'
  BY <1>3 DEF LockFollowsTheCall, Op, InLock
<1> QED
  BY <1>2, <1>4 DEF IInv

\* The next position of a call, the lock being taken, left or let go as its
\* step says.
LEMMA AdvanceKeeps ==
  ASSUME IInv, NEW t \in Thread, At(t) \notin {"idle", "return"}, Advance(t),
         lock' = IF At(t) = "lock" THEN t ELSE IF At(t) = "unlock" THEN NoOne ELSE lock,
         At(t) = "lock" => lock = NoOne
  PROVE  IInv'
<1> DEFINE c == [call[t] EXCEPT !.pc = @ + 1]
<1>1. /\ Op(t) \in Ops /\ call[t].pc \in 1..Len(Script[Op(t)])
      /\ At(t) = Script[Op(t)][call[t].pc] /\ Len(Script[Op(t)]) \in Nat
      /\ WellLocked(Op(t))
  BY AtPosition, AllWellLocked, ScriptLenNat DEF IInv
<1>2. call[t] \in CallRecord
  BY DEF IInv, CallOK
<1>3. /\ c \in CallRecord
      /\ c.pc = call[t].pc + 1 /\ c.op = Op(t) /\ Moved(t, c)
  BY <1>2 DEF Advance, Op, CallRecord, Moved
<1>4. lock = t <=> InLock(Op(t), call[t].pc)
  BY <1>1 DEF IInv, LockFollowsTheCall
<1>5. InLock(Op(t), c.pc) <=> \/ At(t) = "lock"
                              \/ InLock(Op(t), call[t].pc) /\ At(t) # "unlock"
  BY <1>1, <1>3, NextPosition
<1>6. lock \in Thread \union {NoOne}
  BY DEF IInv, CallOK
<1>7. At(t) = "unlock" => lock = t
  BY <1>1, <1>4 DEF WellLocked
<1>8. lock' = t <=> c.pc # 0 /\ InLock(c.op, c.pc)
  BY <1>1, <1>3, <1>4, <1>5, NoOneIsNoThread
<1>9. \/ lock' = lock
      \/ lock' = NoOne /\ lock = t
      \/ lock' = t /\ lock = NoOne
  BY <1>7
<1> HIDE DEF c
<1> QED
  BY <1>1, <1>3, <1>6, <1>8, <1>9, MoveKeeps

\* A call that ends takes the lock it may hold with it.
LEMMA LeaveKeeps ==
  ASSUME IInv, NEW t \in Thread, Leave(t)
  PROVE  IInv'
<1>1. NoCall \in CallRecord
      /\ NoCall.pc = 0 /\ NoCall.op \in Ops /\ Len(Script[NoCall.op]) \in Nat
  BY ScriptOf, ScriptLenNat DEF NoCall, CallRecord
<1>2. Moved(t, NoCall) /\ lock' = IF lock = t THEN NoOne ELSE lock
  BY DEF Leave, Moved
<1>3. lock \in Thread \union {NoOne}
  BY DEF IInv, CallOK
<1> QED
  BY <1>1, <1>2, <1>3, MoveKeeps, NoOneIsNoThread

\* An error either leaves the call or, in bench_kernel's loop, goes to the
\* clean-up inside the same locked section.
LEMMA FaultKeeps ==
  ASSUME IInv, NEW t \in Thread, Fault(t)
  PROVE  IInv'
<1>1. CASE ~InBenchLoop(t)
  BY <1>1, LeaveKeeps DEF Fault
<1>2. CASE InBenchLoop(t)
  <2> DEFINE c == FailedAt(call[t], BenchCleanup)
  <2>1. /\ BenchCleanup \in 1..37 /\ InLock("bench", BenchCleanup)
        /\ call[t].pc \in 1..37 /\ InLock("bench", call[t].pc)
    BY <1>2, BenchLoopLocked DEF IInv
  <2>2. Op(t) = "bench" /\ Op(t) \in Ops /\ Len(Script["bench"]) = 37
    BY <1>2, ScriptOf, ScriptLen DEF InBenchLoop
  <2>3. call[t] \in CallRecord
    BY DEF IInv, CallOK
  <2>4. c \in CallRecord /\ c.pc = BenchCleanup /\ c.op = "bench"
    BY <2>1, <2>2, <2>3, FailedType DEF Op
  <2>6. Moved(t, c) /\ lock' = lock
    <3>1. /\ call' = [call EXCEPT ![t] = [@ EXCEPT !.pc = BenchCleanup, !.ok = FALSE]]
          /\ lock' = lock
      BY <1>2, Zenon DEF Fault
    <3> QED
      BY <3>1, Zenon DEF Moved, FailedAt
  <2> HIDE DEF c
  <2>9. BenchCleanup <= 37 + 1
    BY <2>1
  <2>7. c.pc <= Len(Script[c.op]) + 1
    BY <2>2, <2>4, <2>9
  <2>8. c.pc # 0 /\ InLock(c.op, c.pc)
    BY <2>1, <2>4
  <2>5. lock = t
    BY <2>1, <2>2 DEF IInv, LockFollowsTheCall
  <2> QED
    BY <2>4, <2>5, <2>6, <2>7, <2>8, MoveKeeps
<1> QED
  BY <1>1, <1>2

LEMMA InitIInv == Init => IInv
<1> SUFFICES ASSUME Init PROVE IInv
  OBVIOUS
<1>1. /\ NoCall \in CallRecord
      /\ NoCall.pc = 0 /\ NoCall.op \in Ops /\ Len(Script[NoCall.op]) \in Nat
  BY ScriptOf, ScriptLenNat DEF NoCall, CallRecord
<1> QED
  BY <1>1, NoOneIsNoThread DEF Init, IInv, CallOK, LockFollowsTheCall, Op

LEMMA NextIInv == IInv /\ [Next]_vars => IInv'
<1> SUFFICES ASSUME IInv, [Next]_vars PROVE IInv'
  OBVIOUS
<1>1. CASE UNCHANGED vars
  BY <1>1 DEF IInv, CallOK, LockFollowsTheCall, Op, InLock, vars
<1>2. ASSUME NEW t \in Thread, NEW o \in Ops, NEW w \in Widths \union {1, 2},
             NEW n \in 1..MaxItems, Call(t, o, w, n)
      PROVE  IInv'
  <2> DEFINE c == [op |-> o, pc |-> 1, width |-> w, items |-> n, left |-> n, ok |-> TRUE]
  <2>1. w \in Nat \ {0} /\ n \in Nat /\ Len(Script[o]) \in Nat
    BY <1>2, WidthsCount, BoundsCount, ScriptLenNat
  <2>2. /\ c \in CallRecord
        /\ c.pc = 1 /\ c.op = o /\ Moved(t, c) /\ lock' = lock
    BY <1>2, <2>1 DEF Call, CallRecord, Moved
  <2>3. ~InLock(o, 1)
    BY FirstPosition
  <2>4. lock # t
    BY <1>2 DEF Call, IInv, LockFollowsTheCall
  <2>5. lock \in Thread \union {NoOne}
    BY DEF IInv, CallOK
  <2> HIDE DEF c
  <2> QED
    BY <2>1, <2>2, <2>3, <2>4, <2>5, MoveKeeps
<1>3. ASSUME NEW t \in Thread, Lock(t) PROVE IInv'
  BY <1>3, AdvanceKeeps DEF Lock
<1>4. ASSUME NEW t \in Thread, Step(t) PROVE IInv'
  <2>1. CASE Unlock(t)
    BY <2>1, AdvanceKeeps DEF Unlock
  <2>2. CASE Make(t) \/ Free(t) \/ Keep(t) \/ Submit(t) \/ Wait(t) \/ ResetPool(t) \/ Plain(t)
    <3>1. At(t) \notin {"idle", "return", "lock", "unlock"} /\ Advance(t) /\ lock' = lock
      BY <2>2 DEF Make, Makes, PipeKinds, BufKinds, Free, Frees, Keep, Submit, Wait,
                  ResetPool, Plain
    <3> QED
      BY <3>1, AdvanceKeeps
  <2>3. CASE AllocSet(t)
    <3> DEFINE m == call[t].left - 1
               n == IF call[t].left > 1 THEN call[t].pc ELSE call[t].pc + 1
               c == Granted(call[t], m, n)
    <3>1. /\ Op(t) \in Ops /\ call[t].pc \in 1..Len(Script[Op(t)])
          /\ At(t) = Script[Op(t)][call[t].pc] /\ Len(Script[Op(t)]) \in Nat
          /\ At(t) = "set"
      BY <2>3, AtPosition, ScriptLenNat DEF AllocSet, IInv
    <3>2. call[t] \in CallRecord
      BY DEF IInv, CallOK
    <3>3. c \in CallRecord /\ c.pc \in {call[t].pc, call[t].pc + 1} /\ c.op = Op(t)
      <4>1. call[t].left \in Int /\ call[t].pc \in Nat
        BY <3>2 DEF CallRecord
      <4>2. m \in Int /\ n \in {call[t].pc, call[t].pc + 1} /\ n \in Nat
        BY <4>1
      <4> HIDE DEF m, n
      <4> QED
        BY <3>2, <4>2, GrantedType DEF Op
    <3>7. Moved(t, c) /\ lock' = lock
      <4>1. /\ call' = [call EXCEPT ![t] = [@ EXCEPT !.left = call[t].left - 1, !.pc =
                                 IF call[t].left > 1 THEN call[t].pc ELSE call[t].pc + 1]]
            /\ lock' = lock
        BY <2>3, Zenon DEF AllocSet
      <4> QED
        BY <4>1, Zenon DEF Moved, Granted
    <3>4. InLock(Op(t), call[t].pc)
      BY <3>1, AllWellLocked DEF WellLocked, Synchronized
    <3>5. InLock(Op(t), call[t].pc + 1)
      <4>1. Script[Op(t)][call[t].pc] # "unlock" /\ call[t].pc \in Nat /\ call[t].pc >= 1
        BY <3>1
      <4> QED
        BY <3>1, <3>4, <4>1, NextPosition
    <3>6. lock = t
      BY <3>1, <3>4 DEF IInv, LockFollowsTheCall
    <3> HIDE DEF c
    <3>8. c.pc <= Len(Script[c.op]) + 1 /\ c.pc # 0 /\ InLock(c.op, c.pc)
      BY <3>1, <3>3, <3>4, <3>5
    <3> QED
      BY <3>3, <3>6, <3>7, <3>8, MoveKeeps
  <2>4. CASE Return(t)
    BY <2>4, LeaveKeeps DEF Return
  <2>5. CASE Refuse(t)
    BY <2>5, FaultKeeps DEF Refuse
  <2> QED
    BY <1>4, <2>1, <2>2, <2>3, <2>4, <2>5 DEF Step
<1>5. ASSUME NEW t \in Thread, Fail(t) PROVE IInv'
  BY <1>5, FaultKeeps DEF Fail
<1>6. ASSUME NEW t \in Thread, FreeRaw(t) PROVE IInv'
  BY <1>6 DEF FreeRaw, IInv, CallOK, LockFollowsTheCall, Op, InLock
<1> QED
  BY <1>1, <1>2, <1>3, <1>4, <1>5, <1>6 DEF Next

\* exec_lock is held exactly by the call inside its locked section, on every
\* path: no error leaves it locked (mod.rs:180, the guards at :728 and on).
THEOREM LockFollows == Spec => []LockFollowsTheCall
<1>1. Spec => []IInv
  BY InitIInv, NextIInv, PTL DEF Spec
<1> QED
  BY <1>1, PTL DEF IInv

\* Whoever is at a synchronized object holds the lock.
LEMMA OneAtATime == IInv => PoolsSerialized
<1> SUFFICES ASSUME IInv, NEW t \in Thread, At(t) \in Synchronized
             PROVE  lock = t
  BY DEF PoolsSerialized
<1>1. /\ Op(t) \in Ops /\ call[t].pc \in 1..Len(Script[Op(t)])
      /\ At(t) = Script[Op(t)][call[t].pc] /\ Len(Script[Op(t)]) \in Nat
  BY AtPosition, ScriptLenNat DEF IInv, Synchronized
<1>2. InLock(Op(t), call[t].pc)
  BY <1>1, AllWellLocked DEF WellLocked
<1> QED
  BY <1>1, <1>2 DEF IInv, LockFollowsTheCall

\* Calls on the queue, the command pool and the descriptor pool are serialized,
\* for every number of threads: each is inside a locked section.
THEOREM Serialized == Spec => []PoolsSerialized
<1>1. Spec => []IInv
  BY InitIInv, NextIInv, PTL DEF Spec
<1> QED
  BY <1>1, OneAtATime, PTL

\* No call waits for the lock it holds: bench_kernel stages its buffers before
\* it takes the lock to run.
THEOREM NotReentered == Spec => []LockNotReentered
<1>1. IInv => LockNotReentered
  <2> SUFFICES ASSUME IInv, NEW t \in Thread, At(t) = "lock"
               PROVE  lock # t
    BY DEF LockNotReentered
  <2>1. /\ Op(t) \in Ops /\ call[t].pc \in 1..Len(Script[Op(t)])
        /\ At(t) = Script[Op(t)][call[t].pc] /\ Len(Script[Op(t)]) \in Nat
    BY AtPosition, ScriptLenNat DEF IInv
  <2>2. ~InLock(Op(t), call[t].pc)
    BY <2>1, AllWellLocked DEF WellLocked
  <2> QED
    BY <2>1, <2>2 DEF IInv, LockFollowsTheCall
<1>2. Spec => []IInv
  BY InitIInv, NextIInv, PTL DEF Spec
<1> QED
  BY <1>1, <1>2, PTL
-----------------------------------------------------------------------------
\* No work outlives the locked section that submitted it: until a wait for the
\* queue fails, a call whose work runs is at its wait.
DriverOK ==
  /\ held \in [Thread -> [Kinds -> Nat]]
  /\ pool \in [sets : Nat, descs : Nat]
  /\ busy \subseteq Thread
BusyWaits == ~waitFailed => \A t \in busy : At(t) = "wait"
TInv == IInv /\ DriverOK /\ BusyWaits

\* Every script waits for the queue right after it submits.
WaitsAfterSubmit(s, n) ==
  \A i \in 1..n : s[i] = "submit" => i + 1 <= n /\ s[i + 1] = "wait"

LEMMA RunWaits == WaitsAfterSubmit(RunKernel, 17)
<1>1. \A j \in 1..17 : RunKernel[j] = "submit" => j = 10
  BY DEF RunKernel
<1>2. RunKernel[11] = "wait"
  BY DEF RunKernel
<1> QED
  BY <1>1, <1>2 DEF WaitsAfterSubmit

LEMMA BenchWaits == WaitsAfterSubmit(BenchKernel, 37)
<1>1. \A j \in 1..37 : BenchKernel[j] = "submit" => j \in {5, 15, 30}
  BY DEF BenchKernel
<1>2. BenchKernel[6] = "wait" /\ BenchKernel[16] = "wait" /\ BenchKernel[31] = "wait"
  BY DEF BenchKernel
<1> QED
  BY <1>1, <1>2 DEF WaitsAfterSubmit

LEMMA StageWaits == WaitsAfterSubmit(AllocDeviceLocal, 9)
<1>1. \A j \in 1..9 : AllocDeviceLocal[j] = "submit" => j = 5
  BY DEF AllocDeviceLocal
<1>2. AllocDeviceLocal[6] = "wait"
  BY DEF AllocDeviceLocal
<1> QED
  BY <1>1, <1>2 DEF WaitsAfterSubmit

LEMMA ResidentWaits == WaitsAfterSubmit(RunBound, 8) /\ WaitsAfterSubmit(RunBatch, 8)
<1>1. /\ \A j \in 1..8 : RunBound[j] = "submit" => j = 4
      /\ \A j \in 1..8 : RunBatch[j] = "submit" => j = 4
  BY DEF RunBound, RunBatch
<1>2. RunBound[5] = "wait" /\ RunBatch[5] = "wait"
  BY DEF RunBound, RunBatch
<1> QED
  BY <1>1, <1>2 DEF WaitsAfterSubmit

LEMMA OthersWait == /\ WaitsAfterSubmit(AllocRaw, 1) /\ WaitsAfterSubmit(CompileKernel, 4)
                    /\ WaitsAfterSubmit(AllocEmpty, 3) /\ WaitsAfterSubmit(EmptyBatch, 2)
<1>1. /\ \A j \in 1..1 : AllocRaw[j] # "submit"
      /\ \A j \in 1..4 : CompileKernel[j] # "submit"
      /\ \A j \in 1..3 : AllocEmpty[j] # "submit"
      /\ \A j \in 1..2 : EmptyBatch[j] # "submit"
  BY DEF AllocRaw, CompileKernel, AllocEmpty, EmptyBatch
<1> QED
  BY <1>1 DEF WaitsAfterSubmit

LEMMA SubmitThenWait ==
  \A o \in Ops : WaitsAfterSubmit(Script[o], Len(Script[o]))
  BY RunWaits, BenchWaits, StageWaits, ResidentWaits, OthersWait, ScriptOf, ScriptLen, ZenonT(60)

\* A call at its wait goes on by Wait or by a failing wait only.
LEMMA WaitingStays ==
  ASSUME TInv, NEW t \in Thread, NEW u \in Thread, At(u) = "wait", Step(t) \/ Fail(t),
         ~waitFailed', busy' # {}
  PROVE  t # u
<1> SUFFICES ASSUME At(t) = "wait" PROVE FALSE
  OBVIOUS
<1>1. ~Step(t)
  BY DEF Step, Unlock, Make, Makes, PipeKinds, BufKinds, Free, Frees, Keep, AllocSet, Submit,
         Wait, ResetPool, Plain, Return, Refuse
<1>2. ~Fail(t)
  BY DEF Fail
<1> QED
  BY <1>1, <1>2
\* A step of one thread changes no handle of another, and counts stay counts.
LEMMA HeldKeeps ==
  ASSUME DriverOK, NEW t \in Thread, Step(t) \/ Fail(t)
  PROVE  /\ held' \in [Thread -> [Kinds -> Nat]]
         /\ \A u \in Thread \ {t} : held'[u] = held[u]
<1>0. /\ held \in [Thread -> [Kinds -> Nat]] /\ held[t] \in [Kinds -> Nat]
      /\ Nothing \in [Kinds -> Nat] /\ \A S : Without(held[t], S) \in [Kinds -> Nat]
  BY DEF DriverOK, Nothing, Without
<1>1. CASE Make(t)
  <2>1. held' = [held EXCEPT ![t][Makes[At(t)]] = @ + 1]
    BY <1>1 DEF Make
  <2> DEFINE g == [held[t] EXCEPT ![Makes[At(t)]] = @ + 1]
  <2>2. held' = [held EXCEPT ![t] = g]
    BY <2>1
  <2>4. Makes[At(t)] \in Kinds
    BY <1>1 DEF Make, Makes, Kinds, PipeKinds, BufKinds
  <2>5. held[t][Makes[At(t)]] + 1 \in Nat
    BY <1>0, <2>4
  <2>3. g \in [Kinds -> Nat]
    BY <1>0, <2>5
  <2> HIDE DEF g
  <2> QED
    BY <1>0, <2>2, <2>3
<1>2. CASE Free(t)
  <2>1. held' = [held EXCEPT ![t] = Without(held[t], Frees[At(t)])]
    BY <1>2 DEF Free
  <2> QED
    BY <1>0, <2>1
<1>3. CASE Keep(t)
  <2>1. held' = [held EXCEPT ![t]["buf"] = @ + held[t]["dst"], ![t]["dst"] = 0]
    BY <1>3 DEF Keep
  <2> DEFINE g == [held[t] EXCEPT !["buf"] = @ + held[t]["dst"]]
             h == [g EXCEPT !["dst"] = 0]
  <2>2. held' = [held EXCEPT ![t] = h]
    BY <1>0, <2>1
  <2>3. "dst" \in Kinds /\ "buf" \in Kinds
    BY DEF Kinds, BufKinds
  <2>6. held[t]["buf"] + held[t]["dst"] \in Nat
    BY <1>0, <2>3
  <2>4. g \in [Kinds -> Nat]
    BY <1>0, <2>6
  <2>5. h \in [Kinds -> Nat]
    BY <2>4
  <2> HIDE DEF g, h
  <2> QED
    BY <1>0, <2>2, <2>5
<1>4. CASE Leave(t)
  <2>1. held' = [held EXCEPT ![t] = Nothing]
    BY <1>4 DEF Leave
  <2> QED
    BY <1>0, <2>1
<1>5. CASE UNCHANGED held
  BY <1>0, <1>5
<1>6. \/ Make(t) \/ Free(t) \/ Keep(t) \/ Leave(t) \/ UNCHANGED held
  BY DEF Step, Fail, Unlock, AllocSet, Submit, Wait, ResetPool, Plain, Return, Refuse, Fault,
         driver
<1> QED
  BY <1>1, <1>2, <1>3, <1>4, <1>5, <1>6

\* The descriptor pool only shrinks by a reset.
LEMMA PoolKeeps ==
  ASSUME IInv, DriverOK, NEW t \in Thread, Step(t) \/ Fail(t)
  PROVE  /\ pool' \in [sets : Nat, descs : Nat]
         /\ pool'.sets < pool.sets => At(t) = "reset"
<1>1. CASE AllocSet(t)
  <2>1. call[t].width \in Nat
    BY DEF IInv, CallOK, CallRecord
  <2> QED
    BY <1>1, <2>1 DEF AllocSet, DriverOK
<1>2. CASE ResetPool(t)
  BY <1>2 DEF ResetPool, EmptyPool
<1>3. CASE UNCHANGED pool
  BY <1>3 DEF DriverOK
<1>4. AllocSet(t) \/ ResetPool(t) \/ UNCHANGED pool
  BY DEF Step, Fail, Make, Free, Keep, Unlock, Submit, Wait, Plain, Return, Refuse, Fault,
         Leave, driver
<1> QED
  BY <1>1, <1>2, <1>3, <1>4

\* Work is put on the queue by a submission only, and a wait clears the queue.
LEMMA BusyKeeps ==
  ASSUME DriverOK, NEW t \in Thread, Step(t) \/ Fail(t)
  PROVE  \/ Submit(t)
         \/ busy' = {}
         \/ busy' = busy
  BY DEF Step, Fail, Make, Free, Keep, Unlock, AllocSet, ResetPool, Wait, Plain, Return,
         Refuse, Fault, Leave, driver

\* A step of one thread leaves the others where they are.
LEMMA OthersStay ==
  ASSUME IInv, NEW t \in Thread, Step(t) \/ Fail(t), NEW u \in Thread \ {t}
  PROVE  call'[u] = call[u]
<1>1. call \in [Thread -> CallRecord]
  BY DEF IInv, CallOK
<1>2. \E c : call' = [call EXCEPT ![t] = c]
  BY Zenon DEF Step, Fail, Make, Free, Keep, Unlock, AllocSet, Submit, ResetPool, Wait,
         Plain, Return, Refuse, Fault, Leave, Advance
<1> QED
  BY <1>1, <1>2
\* The same for the rest of the actions, which submit nothing and hold nothing.
LEMMA CallerSteps ==
  ASSUME NEW t \in Thread,
         \/ \E o \in Ops, w \in Widths \union {1, 2}, n \in 1..MaxItems : Call(t, o, w, n)
         \/ Lock(t) \/ FreeRaw(t)
  PROVE  /\ UNCHANGED <<held, pool, busy, waitFailed>>
         /\ At(t) \in {"idle", "lock"}
         /\ IInv => \A u \in Thread \ {t} : call'[u] = call[u]
  BY DEF Call, Lock, FreeRaw, driver, errors, At, Advance, IInv, CallOK

\* Submitting leads to the wait.
LEMMA SubmitBusy ==
  ASSUME IInv, NEW t \in Thread, Submit(t)
  PROVE  At(t)' = "wait"
<1>1. /\ Op(t) \in Ops /\ call[t].pc \in 1..Len(Script[Op(t)])
      /\ Script[Op(t)][call[t].pc] = "submit" /\ Len(Script[Op(t)]) \in Nat
  BY AtPosition, ScriptLenNat DEF IInv, Submit
<1>2. /\ call[t].pc + 1 <= Len(Script[Op(t)])
      /\ Script[Op(t)][call[t].pc + 1] = "wait"
  BY <1>1, SubmitThenWait DEF WaitsAfterSubmit
<1>3. call'[t].pc = call[t].pc + 1 /\ call'[t].op = Op(t)
  BY DEF Submit, Advance, IInv, CallOK, CallRecord, Op
<1> QED
  BY <1>1, <1>2, <1>3 DEF At, Op

LEMMA NextTInv == TInv /\ [Next]_vars => TInv'
<1> SUFFICES ASSUME TInv, [Next]_vars PROVE DriverOK' /\ BusyWaits'
  BY NextIInv DEF TInv
<1>1. CASE UNCHANGED vars
  BY <1>1 DEF TInv, DriverOK, BusyWaits, At, Op, vars, driver, errors
<1>2. ASSUME NEW t \in Thread, Step(t) \/ Fail(t) PROVE DriverOK' /\ BusyWaits'
  <2>1. DriverOK'
    <3>1. busy' \subseteq Thread
      BY <1>2, BusyKeeps DEF TInv, DriverOK, Submit
    <3> QED
      BY <1>2, <3>1, HeldKeeps, PoolKeeps DEF TInv, DriverOK
  <2>2. ASSUME ~waitFailed', NEW u \in busy' PROVE At(u)' = "wait"
    <3>1. ~waitFailed
      BY <1>2, <2>2 DEF Step, Fail, Make, Free, Keep, Unlock, AllocSet, Submit, ResetPool,
                        Wait, Plain, Return, Refuse, driver, errors
    <3>2. u \in Thread
      BY <2>1 DEF DriverOK
    <3>3. CASE Submit(t) /\ u = t
      BY <3>3, SubmitBusy DEF TInv
    <3>4. CASE ~(Submit(t) /\ u = t)
      <4>1. u \in busy
        BY <1>2, <2>2, <3>4, BusyKeeps DEF TInv, Submit
      <4>2. At(u) = "wait"
        BY <3>1, <4>1 DEF TInv, BusyWaits
      <4>3. t # u
        BY <1>2, <2>2, <3>2, <4>2, WaitingStays
      <4>4. call'[u] = call[u]
        BY <1>2, <3>2, <4>3, OthersStay DEF TInv
      <4> QED
        BY <4>2, <4>4 DEF At, Op
    <3> QED
      BY <3>3, <3>4
  <2> QED
    BY <2>1, <2>2 DEF BusyWaits
<1>3. ASSUME NEW t \in Thread,
             \/ \E o \in Ops, w \in Widths \union {1, 2}, n \in 1..MaxItems : Call(t, o, w, n)
             \/ Lock(t) \/ FreeRaw(t)
      PROVE  DriverOK' /\ BusyWaits'
  <2>1. UNCHANGED <<held, pool, busy, waitFailed>> /\ At(t) \in {"idle", "lock"}
    BY <1>3, CallerSteps
  <2>2. ASSUME ~waitFailed, NEW u \in busy PROVE At(u)' = "wait"
    <3>1. At(u) = "wait" /\ u \in Thread
      BY <2>2 DEF TInv, BusyWaits, DriverOK
    <3>2. call'[u] = call[u]
      BY <1>3, <2>1, <3>1, CallerSteps DEF TInv
    <3> QED
      BY <3>1, <3>2 DEF At, Op
  <2> QED
    BY <2>1, <2>2 DEF TInv, DriverOK, BusyWaits
<1> QED
  BY <1>1, <1>2, <1>3 DEF Next

LEMMA InitTInv == Init => TInv
  BY InitIInv DEF Init, TInv, DriverOK, BusyWaits, Nothing, EmptyPool

\* Nothing that submitted work uses is destroyed before the wait for the queue,
\* and the pool is not reset under it, for every number of threads: a busy call
\* is at its wait, and a reset by another would be a second call at the
\* synchronized objects (mod.rs:183-186).
THEOREM WaitBeforeTeardown == Spec => TeardownWaits
<1> DEFINE Waits == ~waitFailed' =>
                      /\ \A t \in busy, k \in Kinds : held'[t][k] >= held[t][k]
                      /\ pool'.sets < pool.sets => busy = {}
<1>1. TInv /\ [Next]_vars => [Waits]_vars
  <2> SUFFICES ASSUME TInv, NEW t \in Thread, Step(t) \/ Fail(t), ~waitFailed', NEW u \in busy
               PROVE  /\ \A k \in Kinds : held'[u][k] >= held[u][k]
                      /\ ~(pool'.sets < pool.sets)
    <3>1. ASSUME UNCHANGED <<held, pool>>, TInv PROVE Waits
      BY <3>1 DEF TInv, DriverOK
    <3> QED
      BY <3>1, CallerSteps DEF Next
  <2>1. u \in Thread /\ held[u] \in [Kinds -> Nat] /\ pool.sets \in Nat
    BY DEF TInv, DriverOK
  <2>2. At(u) = "wait"
    BY DEF Step, Fail, Make, Free, Keep, Unlock, AllocSet, Submit, ResetPool, Wait, Plain,
           Return, Refuse, driver, errors, TInv, BusyWaits
  <2>3. CASE Wait(t)
    BY <2>1, <2>3 DEF Wait
  <2>4. CASE ~Wait(t)
    <3>1. t # u
      BY <2>2, <2>4 DEF Step, Fail, Unlock, Make, Makes, PipeKinds, BufKinds, Free, Frees,
         Keep, AllocSet, Submit, ResetPool, Plain, Return, Refuse
    <3>2. held'[u] = held[u]
      BY <2>1, <3>1, HeldKeeps DEF TInv
    <3>3. At(t) # "reset"
      BY <2>1, <2>2, <3>1, OneAtATime DEF TInv, PoolsSerialized, Synchronized
    <3> QED
      BY <2>1, <3>2, <3>3, PoolKeeps DEF TInv
  <2> QED
    BY <2>3, <2>4
<1>2. Spec => []TInv
  BY InitTInv, NextTInv, PTL DEF Spec
<1> QED
  BY <1>1, <1>2, PTL DEF Spec, TeardownWaits

-----------------------------------------------------------------------------
\* The sets in the pool, as long as nothing went wrong, are those of the call
\* that holds the lock: none before it allocates, one more with each set, all
\* of its dispatches' from its last set to its reset.
StepOf(c) == IF c.pc \in 1..Len(Script[c.op]) THEN Script[c.op][c.pc] ELSE "none"
NoSetBefore(o, i) == \A j \in 1..i-1 : Script[o][j] # "set"
InPool(o, i) ==
  \E j \in 1..i-1 : /\ Script[o][j] = "set"
                    /\ \A k \in j+1..i-1 : Script[o][k] # "reset"
Taken(c) == IF StepOf(c) = "set" THEN c.items - c.left
            ELSE IF InPool(c.op, c.pc) THEN c.items ELSE 0
LeftOK(c) == NoSetBefore(c.op, c.pc) =>
               c.left \in 1..c.items /\ (StepOf(c) # "set" => c.left = c.items)
PoolOf(c) == [sets |-> Taken(c), descs |-> Taken(c) * c.width]
NothingWrong == failures = 0 /\ ~refused
PoolCounts == NothingWrong =>
                /\ lock = NoOne => pool = EmptyPool
                /\ \A t \in Thread : lock = t => pool = PoolOf(call[t])
PInv == /\ IInv
        /\ failures \in Nat
        /\ \A t \in Thread : LeftOK(call[t])
        /\ PoolCounts

\* What is asked of a script: one "set" at most, a reset only behind it, none
\* of its sets in the pool where it takes the lock or lets it go, and no lock
\* taken behind the "set".
WellPooled(s, n) ==
  /\ \A i, j \in 1..n : s[i] = "set" /\ s[j] = "set" => i = j
  /\ \A i \in 1..n : s[i] = "reset" => \E j \in 1..i-1 : s[j] = "set"
  /\ \A i, j \in 1..n : s[i] \in {"lock", "unlock"} /\ j < i /\ s[j] = "set" =>
       \E k \in j+1..i-1 : s[k] = "reset"
  /\ \A i, j \in 1..n : s[i] = "lock" /\ s[j] = "set" => i < j

LEMMA RunWellPooled == WellPooled(RunKernel, 17)
<1> DEFINE s == RunKernel
<1>1. \A i \in 1..17 : s[i] = "set" <=> i = 8
  BY DEF RunKernel
<1>2. \A i \in 1..17 : s[i] = "reset" <=> i = 15
  BY DEF RunKernel
<1>3. \A i \in 1..17 : /\ s[i] \in {"lock", "unlock"} <=> i \in {1, 17}
                       /\ s[i] = "lock" => i = 1
  BY DEF RunKernel
<1> HIDE DEF s
<1>4. WellPooled(s, 17)
  BY <1>1, <1>2, <1>3 DEF WellPooled
<1> QED
  BY <1>4 DEF s

LEMMA BenchWellPooled == WellPooled(BenchKernel, 37)
<1> DEFINE s == BenchKernel
<1>1. \A i \in 1..37 : s[i] = "set" <=> i = 27
  BY DEF BenchKernel
<1>2. \A i \in 1..37 : s[i] = "reset" <=> i = 35
  BY DEF BenchKernel
<1>3. \A i \in 1..37 : /\ s[i] \in {"lock", "unlock"} <=> i \in {1, 9, 11, 19, 21, 36}
                       /\ s[i] = "lock" => i \in {1, 11, 21}
  BY DEF BenchKernel
<1> HIDE DEF s
<1>4. WellPooled(s, 37)
  <2>1. \A i, j \in 1..37 : s[i] = "set" /\ s[j] = "set" => i = j
    BY <1>1
  <2>2. \A i \in 1..37 : s[i] = "reset" => \E j \in 1..i-1 : s[j] = "set"
    BY <1>1, <1>2
  <2>3. \A i, j \in 1..37 : s[i] \in {"lock", "unlock"} /\ j < i /\ s[j] = "set" =>
          \E k \in j+1..i-1 : s[k] = "reset"
    <3> SUFFICES ASSUME NEW i \in 1..37, NEW j \in 1..37, s[i] \in {"lock", "unlock"},
                        j < i, s[j] = "set"
                 PROVE  \E k \in j+1..i-1 : s[k] = "reset"
      OBVIOUS
    <3>1. j = 27 /\ i = 36
      BY <1>1, <1>3
    <3> QED
      BY <1>2, <3>1
  <2>4. \A i, j \in 1..37 : s[i] = "lock" /\ s[j] = "set" => i < j
    BY <1>1, <1>3
  <2> QED
    BY <2>1, <2>2, <2>3, <2>4 DEF WellPooled
<1> QED
  BY <1>4 DEF s

LEMMA BoundWellPooled == WellPooled(RunBound, 8)
<1> DEFINE s == RunBound
<1>1. /\ \A i \in 1..8 : s[i] = "set" <=> i = 2
      /\ \A i \in 1..8 : s[i] = "reset" <=> i = 7
      /\ \A i \in 1..8 : s[i] \in {"lock", "unlock"} <=> i \in {1, 8}
      /\ \A i \in 1..8 : s[i] = "lock" => i = 1
  BY DEF RunBound
<1> HIDE DEF s
<1>2. WellPooled(s, 8)
  BY <1>1 DEF WellPooled
<1> QED
  BY <1>2 DEF s

LEMMA BatchWellPooled == WellPooled(RunBatch, 8)
<1> DEFINE s == RunBatch
<1>1. /\ \A i \in 1..8 : s[i] = "set" <=> i = 3
      /\ \A i \in 1..8 : s[i] = "reset" <=> i = 7
      /\ \A i \in 1..8 : s[i] \in {"lock", "unlock"} <=> i \in {1, 8}
      /\ \A i \in 1..8 : s[i] = "lock" => i = 1
  BY DEF RunBatch
<1> HIDE DEF s
<1>2. WellPooled(s, 8)
  BY <1>1 DEF WellPooled
<1> QED
  BY <1>2 DEF s

\* The operations that allocate no descriptor set.
LEMMA OthersWellPooled ==
  /\ WellPooled(AllocDeviceLocal, 9) /\ WellPooled(AllocRaw, 1)
  /\ WellPooled(CompileKernel, 4) /\ WellPooled(AllocEmpty, 3) /\ WellPooled(EmptyBatch, 2)
<1>1. \A i \in 1..9 : AllocDeviceLocal[i] \notin {"set", "reset"}
  BY DEF AllocDeviceLocal
<1>2. /\ \A i \in 1..1 : AllocRaw[i] \notin {"set", "reset"}
      /\ \A i \in 1..4 : CompileKernel[i] \notin {"set", "reset"}
      /\ \A i \in 1..3 : AllocEmpty[i] \notin {"set", "reset"}
      /\ \A i \in 1..2 : EmptyBatch[i] \notin {"set", "reset"}
  BY DEF AllocRaw, CompileKernel, AllocEmpty, EmptyBatch
<1>3. ASSUME NEW s, NEW n \in Nat, \A i \in 1..n : s[i] \notin {"set", "reset"}
      PROVE  WellPooled(s, n)
  BY <1>3 DEF WellPooled
<1>4. WellPooled(AllocDeviceLocal, 9)
  BY <1>1, <1>3
<1> QED
  BY <1>2, <1>3, <1>4

LEMMA AllWellPooled == \A o \in Ops : WellPooled(Script[o], Len(Script[o]))
<1>1. WellPooled(Script["run"], 17) /\ WellPooled(Script["bench"], 37)
  BY RunWellPooled, BenchWellPooled, ScriptOf
<1>2. /\ WellPooled(Script["bound"], 8) /\ WellPooled(Script["batch"], 8)
      /\ WellPooled(Script["stage"], 9) /\ WellPooled(Script["raw"], 1)
      /\ WellPooled(Script["compile"], 4) /\ WellPooled(Script["stage_empty"], 3)
      /\ WellPooled(Script["batch_empty"], 2)
  BY BoundWellPooled, BatchWellPooled, OthersWellPooled, ScriptOf
<1>3. /\ Len(Script["run"]) = 17 /\ Len(Script["bench"]) = 37 /\ Len(Script["bound"]) = 8
      /\ Len(Script["batch"]) = 8 /\ Len(Script["stage"]) = 9 /\ Len(Script["raw"]) = 1
      /\ Len(Script["compile"]) = 4 /\ Len(Script["stage_empty"]) = 3
      /\ Len(Script["batch_empty"]) = 2
  BY ScriptOf, ScriptLen
<1> QED
  BY <1>1, <1>2, <1>3, ScriptOf, ZenonT(60)

\* Going on by one position from a step that is neither a set nor a reset
\* changes nothing that a call has taken.
LEMMA PassingOn ==
  ASSUME NEW c \in CallRecord, NEW d \in CallRecord, c.pc \in 1..Len(Script[c.op]),
         d.op = c.op, d.pc = c.pc + 1, d.items = c.items, d.left = c.left,
         StepOf(c) \notin {"set", "reset"}, LeftOK(c)
  PROVE  LeftOK(d) /\ Taken(d) = Taken(c)
<1> DEFINE o == c.op
           i == c.pc
<1>1. o \in Ops /\ i \in Nat /\ Len(Script[o]) \in Nat /\ WellPooled(Script[o], Len(Script[o]))
  BY ScriptLenNat, AllWellPooled DEF CallRecord
<1>2. Script[o][i] \notin {"set", "reset"}
  BY DEF StepOf
<1>3. NoSetBefore(o, i + 1) <=> NoSetBefore(o, i)
  BY <1>1, <1>2 DEF NoSetBefore
<1>4. InPool(o, i + 1) <=> InPool(o, i)
  <2>1. ASSUME InPool(o, i + 1) PROVE InPool(o, i)
    <3>1. PICK j \in 1..i : Script[o][j] = "set" /\ \A k \in j+1..i : Script[o][k] # "reset"
      BY <2>1, <1>1 DEF InPool
    <3>2. j \in 1..i-1
      BY <3>1, <1>1, <1>2
    <3> QED
      BY <3>1, <3>2, <1>1 DEF InPool
  <2>2. ASSUME InPool(o, i) PROVE InPool(o, i + 1)
    <3>1. PICK j \in 1..i-1 : /\ Script[o][j] = "set"
                              /\ \A k \in j+1..i-1 : Script[o][k] # "reset"
      BY <2>2 DEF InPool
    <3>2. \A k \in j+1..i : Script[o][k] # "reset"
      BY <3>1, <1>1, <1>2
    <3> QED
      BY <3>1, <3>2, <1>1 DEF InPool
  <2> QED
    BY <2>1, <2>2
<1>5. LeftOK(d)
  BY <1>3 DEF LeftOK
<1>6. CASE StepOf(d) = "set"
  <2>1. NoSetBefore(o, i + 1)
    BY <1>1, <1>6 DEF StepOf, WellPooled, NoSetBefore
  <2>2. c.left = c.items /\ ~InPool(o, i)
    BY <1>3, <2>1 DEF LeftOK, NoSetBefore, InPool
  <2> QED
    BY <1>5, <1>6, <2>2 DEF Taken, CallRecord
<1>7. CASE StepOf(d) # "set"
  BY <1>4, <1>5, <1>7 DEF Taken
<1> QED
  BY <1>6, <1>7
\* A reset gives everything back, and no set follows it.
LEMMA ResetTakes ==
  ASSUME NEW c \in CallRecord, NEW d \in CallRecord, c.pc \in 1..Len(Script[c.op]),
         d.op = c.op, d.pc = c.pc + 1, StepOf(c) = "reset"
  PROVE  LeftOK(d) /\ Taken(d) = 0
<1> DEFINE o == c.op
           i == c.pc
<1>1. o \in Ops /\ i \in Nat /\ Len(Script[o]) \in Nat /\ WellPooled(Script[o], Len(Script[o]))
  BY ScriptLenNat, AllWellPooled DEF CallRecord
<1>2. Script[o][i] = "reset"
  BY DEF StepOf
<1>3. PICK j \in 1..i-1 : Script[o][j] = "set"
  BY <1>1, <1>2 DEF WellPooled
<1>4. ~NoSetBefore(o, i + 1)
  BY <1>1, <1>3 DEF NoSetBefore
<1>5. StepOf(d) # "set"
  BY <1>1, <1>3 DEF WellPooled, StepOf
<1>6. ~InPool(o, i + 1)
  BY <1>1, <1>2 DEF InPool
<1> QED
  BY <1>4, <1>5, <1>6 DEF LeftOK, Taken

\* A set granted is one more taken, whether or not it is the call's last.
LEMMA GrantTakes ==
  ASSUME NEW c \in CallRecord, c.pc \in 1..Len(Script[c.op]), StepOf(c) = "set", LeftOK(c),
         NEW n, n = IF c.left > 1 THEN c.pc ELSE c.pc + 1,
         NEW d \in CallRecord, d.op = c.op, d.pc = n, d.items = c.items, d.left = c.left - 1
  PROVE  LeftOK(d) /\ Taken(c) = c.items - c.left /\ Taken(d) = c.items - c.left + 1
<1> DEFINE o == c.op
           i == c.pc
<1>1. o \in Ops /\ i \in Nat /\ Len(Script[o]) \in Nat /\ WellPooled(Script[o], Len(Script[o]))
  BY ScriptLenNat, AllWellPooled DEF CallRecord
<1>2. Script[o][i] = "set" /\ c.items \in Nat /\ c.left \in Int
  BY DEF StepOf, CallRecord
<1>3. NoSetBefore(o, i)
  BY <1>1, <1>2 DEF WellPooled, NoSetBefore
<1>4. c.left \in 1..c.items
  BY <1>3 DEF LeftOK
<1>5. CASE c.left > 1
  BY <1>2, <1>4, <1>5 DEF LeftOK, Taken, StepOf
<1>6. CASE c.left = 1
  <2>1. ~NoSetBefore(o, i + 1) /\ InPool(o, i + 1)
    BY <1>1, <1>2 DEF NoSetBefore, InPool
  <2>2. d.pc = i + 1 /\ StepOf(d) # "set"
    BY <1>1, <1>2, <1>6 DEF WellPooled, StepOf
  <2> QED
    BY <1>2, <1>6, <2>1, <2>2 DEF LeftOK, Taken
<1> QED
  BY <1>2, <1>4, <1>5, <1>6

\* Nothing is taken where a call takes the lock or lets it go.
LEMMA NoneAtLock ==
  ASSUME NEW c \in CallRecord, StepOf(c) \in {"lock", "unlock"}
  PROVE  Taken(c) = 0
<1>1. c.op \in Ops /\ c.pc \in Nat /\ Len(Script[c.op]) \in Nat
      /\ WellPooled(Script[c.op], Len(Script[c.op]))
  BY ScriptLenNat, AllWellPooled DEF CallRecord
<1>2. c.pc \in 1..Len(Script[c.op]) /\ Script[c.op][c.pc] \in {"lock", "unlock"}
  BY DEF StepOf
<1>3. ASSUME InPool(c.op, c.pc) PROVE FALSE
  <2>1. PICK j \in 1..c.pc-1 : /\ Script[c.op][j] = "set"
                               /\ \A k \in j+1..c.pc-1 : Script[c.op][k] # "reset"
    BY <1>3 DEF InPool
  <2>2. j \in 1..Len(Script[c.op]) /\ j < c.pc
    BY <1>1, <1>2
  <2>3. \E k \in j+1..c.pc-1 : Script[c.op][k] = "reset"
    BY <1>1, <1>2, <2>1, <2>2 DEF WellPooled
  <2> QED
    BY <2>1, <2>3
<1>4. StepOf(c) # "set"
  OBVIOUS
<1> QED
  BY <1>3, <1>4 DEF Taken

\* What is left to show of a step of thread t: its own call's count, and the
\* pool's if t holds the lock before or after it.
LEMMA CountKeeps ==
  ASSUME PInv, IInv', NEW t \in Thread, \A u \in Thread \ {t} : call'[u] = call[u],
         failures' \in Nat, LeftOK(call'[t]), NothingWrong' => NothingWrong,
         NothingWrong' => /\ lock = t \/ pool' = pool
                          /\ lock' \in {lock, t, NoOne}
                          /\ lock' # lock => lock \in {t, NoOne}
                          /\ lock' = NoOne => lock = NoOne \/ pool' = EmptyPool
                          /\ lock' = t => pool' = PoolOf(call'[t])
  PROVE  PInv'
<1>1. \A u \in Thread : LeftOK(call'[u])
  BY DEF PInv
<1>2. ASSUME NothingWrong', lock' = NoOne PROVE pool' = EmptyPool
  BY <1>2, NoOneIsNoThread DEF PInv, PoolCounts
<1>3. ASSUME NothingWrong', NEW u \in Thread, lock' = u PROVE pool' = PoolOf(call'[u])
  BY <1>3, NoOneIsNoThread DEF PInv, PoolCounts
<1> QED
  BY <1>1, <1>2, <1>3 DEF PInv, PoolCounts, LeftOK, NoSetBefore, StepOf, PoolOf, Taken, InPool
LEMMA LeftNoCall == LeftOK(NoCall)
  BY DEF LeftOK, NoCall, StepOf

LEMMA InitPInv == Init => PInv
<1> SUFFICES ASSUME Init PROVE PInv
  OBVIOUS
<1> QED
  BY LeftNoCall, InitIInv, NoOneIsNoThread DEF Init, PInv, PoolCounts, NothingWrong

\* The positions At and StepOf name are the same.
LEMMA AtStep ==
  ASSUME IInv, NEW t \in Thread, At(t) \notin {"idle", "return"}
  PROVE  /\ call[t] \in CallRecord /\ call[t].pc \in 1..Len(Script[call[t].op])
         /\ StepOf(call[t]) = At(t)
  BY AtPosition DEF IInv, CallOK, StepOf, Op

\* The record of a call one position on.
LEMMA Advanced ==
  ASSUME IInv, IInv', NEW t \in Thread, Advance(t)
  PROVE  /\ call'[t] \in CallRecord
         /\ call'[t].op = call[t].op /\ call'[t].pc = call[t].pc + 1
         /\ call'[t].items = call[t].items /\ call'[t].left = call[t].left
         /\ call'[t].width = call[t].width
         /\ \A u \in Thread \ {t} : call'[u] = call[u]
<1>1. call \in [Thread -> CallRecord] /\ call' \in [Thread -> CallRecord]
  BY DEF IInv, CallOK
<1>2. call' = [call EXCEPT ![t] = [call[t] EXCEPT !.pc = call[t].pc + 1]]
  BY DEF Advance
<1> QED
  BY <1>1, <1>2 DEF CallRecord

LEMMA AdvancePool ==
  ASSUME PInv, IInv', NEW t \in Thread, At(t) \notin {"idle", "return", "set", "reset"},
         Advance(t), UNCHANGED <<pool, errors>>,
         lock' = IF At(t) = "lock" THEN t ELSE IF At(t) = "unlock" THEN NoOne ELSE lock,
         At(t) = "lock" => lock = NoOne
  PROVE  PInv'
<1> DEFINE c == call[t]
           d == call'[t]
<1>1. /\ c \in CallRecord /\ c.pc \in 1..Len(Script[c.op]) /\ StepOf(c) = At(t)
  BY AtStep DEF PInv
<1>2. /\ d \in CallRecord /\ d.op = c.op /\ d.pc = c.pc + 1 /\ d.items = c.items
      /\ d.left = c.left /\ d.width = c.width /\ \A u \in Thread \ {t} : call'[u] = call[u]
  BY Advanced DEF PInv
<1>3. LeftOK(d) /\ Taken(d) = Taken(c)
  BY <1>1, <1>2, PassingOn DEF PInv
<1>4. At(t) = "unlock" => lock = t
  <2>1. At(t) = "unlock" => InLock(Op(t), call[t].pc)
    BY <1>1, AtPosition, AllWellLocked DEF PInv, IInv, WellLocked
  <2> QED
    BY <1>1, <2>1 DEF PInv, IInv, LockFollowsTheCall
<1>5. At(t) \in {"lock", "unlock"} => PoolOf(c) = EmptyPool /\ PoolOf(d) = EmptyPool
  <2>1. c.width \in Nat
    BY <1>1 DEF CallRecord
  <2>2. At(t) \in {"lock", "unlock"} => Taken(c) = 0
    BY <1>1, NoneAtLock
  <2> QED
    BY <1>2, <1>3, <2>1, <2>2 DEF PoolOf, EmptyPool
<1>6. PoolOf(d) = PoolOf(c)
  BY <1>2, <1>3 DEF PoolOf
<1>7. /\ NothingWrong' <=> NothingWrong
      /\ failures' \in Nat
  BY DEF NothingWrong, errors, PInv
<1>8. NothingWrong /\ lock' = t => pool' = PoolOf(d)
  BY <1>5, <1>6, NoOneIsNoThread DEF PInv, PoolCounts
<1>9. NothingWrong /\ lock' = NoOne => lock = NoOne \/ pool' = EmptyPool
  BY <1>4, <1>5 DEF PInv, PoolCounts
<1> HIDE DEF c
<1> QED
  BY <1>2, <1>3, <1>4, <1>7, <1>8, <1>9, CountKeeps
\* A call that ends without error does not hold the lock; one that fails makes
\* the claim about the pool void.
LEMMA EndPool ==
  ASSUME PInv, IInv', NEW t \in Thread, Leave(t), failures' \in Nat,
         NothingWrong' => NothingWrong /\ lock # t
  PROVE  PInv'
<1>1. call'[t] = NoCall /\ \A u \in Thread \ {t} : call'[u] = call[u]
  BY DEF Leave, PInv, IInv, CallOK
<1>2. NothingWrong' => lock' = lock /\ pool' = pool
  BY DEF Leave
<1> QED
  BY <1>1, <1>2, LeftNoCall, CountKeeps

LEMMA FaultPool ==
  ASSUME PInv, IInv', NEW t \in Thread, Fault(t), failures' \in Nat, ~NothingWrong'
  PROVE  PInv'
<1>1. CASE ~InBenchLoop(t)
  BY <1>1, EndPool DEF Fault
<1>2. CASE InBenchLoop(t)
  <2> DEFINE c == FailedAt(call[t], BenchCleanup)
  <2>1. call' = [call EXCEPT ![t] = c]
    BY <1>2, Zenon DEF Fault, FailedAt
  <2>2. call[t] \in CallRecord /\ call \in [Thread -> CallRecord] /\ Op(t) = "bench"
    BY <1>2 DEF PInv, IInv, CallOK, InBenchLoop
  <2>3. BenchCleanup \in Nat /\ BenchCleanup > 27 /\ Script["bench"][27] = "set"
    BY CleanupAt, ScriptOf
  <2>4. c.pc = BenchCleanup /\ c.op = "bench"
    BY <2>2, <2>3, FailedType DEF Op
  <2> HIDE DEF c
  <2>5. LeftOK(c)
    BY <2>3, <2>4 DEF LeftOK, NoSetBefore
  <2>6. call'[t] = c /\ \A u \in Thread \ {t} : call'[u] = call[u]
    BY <2>1, <2>2
  <2> QED
    BY <2>5, <2>6, CountKeeps
<1> QED
  BY <1>1, <1>2

\* A set granted to the lock's holder.
LEMMA GrantPool ==
  ASSUME PInv, IInv', NEW t \in Thread, AllocSet(t)
  PROVE  PInv'
<1> DEFINE c == call[t]
           n == IF c.left > 1 THEN c.pc ELSE c.pc + 1
           d == Granted(c, c.left - 1, n)
<1>1. c \in CallRecord /\ c.pc \in 1..Len(Script[c.op]) /\ StepOf(c) = "set" /\ lock = t
  <2>1. At(t) = "set"
    BY DEF AllocSet
  <2>2. InLock(Op(t), call[t].pc)
    BY <2>1, AtPosition, AllWellLocked DEF WellLocked, Synchronized, PInv, IInv
  <2> QED
    BY <2>1, <2>2, AtStep DEF PInv, IInv, LockFollowsTheCall
<1>2. n \in Nat /\ c.left - 1 \in Int
  BY <1>1 DEF CallRecord
<1>3. /\ d \in CallRecord /\ d.op = c.op /\ d.pc = n /\ d.items = c.items
      /\ d.left = c.left - 1 /\ d.width = c.width
  <2> HIDE DEF c, n
  <2>1. d \in CallRecord /\ d.op = c.op /\ d.pc = n
    BY <1>1, <1>2, GrantedType
  <2>2. d.items = c.items /\ d.left = c.left - 1 /\ d.width = c.width
    BY <1>1 DEF Granted, CallRecord
  <2> QED
    BY <2>1, <2>2
<1>4. /\ call' = [call EXCEPT ![t] = d]
      /\ pool' = [sets |-> pool.sets + 1, descs |-> pool.descs + c.width]
      /\ UNCHANGED <<lock, failures, refused>>
  BY Zenon DEF AllocSet, Granted, errors
<1> HIDE DEF d
<1>5. call'[t] = d /\ \A u \in Thread \ {t} : call'[u] = call[u]
  BY <1>4 DEF PInv, IInv, CallOK
<1>6. LeftOK(d) /\ Taken(c) = c.items - c.left /\ Taken(d) = c.items - c.left + 1
  <2> HIDE DEF c
  <2>1. LeftOK(c)
    BY DEF PInv, c
  <2> QED
    BY <1>1, <1>3, <2>1, GrantTakes
<1>7. NothingWrong => pool' = PoolOf(d)
  <2>1. c.items - c.left \in Int /\ c.width \in Nat
    BY <1>1 DEF CallRecord
  <2>4. \A a \in Int, w \in Nat : a * w + w = (a + 1) * w
    OBVIOUS
  <2>2. (c.items - c.left) * c.width + c.width = (c.items - c.left + 1) * c.width
    BY <2>1, <2>4
  <2>3. NothingWrong => pool = PoolOf(c)
    BY <1>1 DEF PInv, PoolCounts
  <2> HIDE DEF c
  <2> QED
    BY <1>3, <1>4, <1>6, <2>2, <2>3 DEF PoolOf
<1>8. (NothingWrong' <=> NothingWrong) /\ failures' \in Nat
  BY <1>4 DEF NothingWrong, PInv
<1> QED
  BY <1>1, <1>4, <1>5, <1>6, <1>7, <1>8, NoOneIsNoThread, CountKeeps

LEMMA ResetGives ==
  ASSUME PInv, IInv', NEW t \in Thread, ResetPool(t)
  PROVE  PInv'
<1> DEFINE c == call[t]
           d == call'[t]
<1>1. At(t) = "reset" /\ Advance(t) /\ pool' = EmptyPool /\ UNCHANGED <<lock, failures, refused>>
  BY DEF ResetPool, errors
<1>2. c \in CallRecord /\ c.pc \in 1..Len(Script[c.op]) /\ StepOf(c) = "reset"
  BY <1>1, AtStep DEF PInv
<1>3. lock = t
  BY <1>1, AtPosition, AllWellLocked DEF WellLocked, Synchronized, PInv, IInv, LockFollowsTheCall
<1>4. /\ d \in CallRecord /\ d.op = c.op /\ d.pc = c.pc + 1 /\ d.width = c.width
      /\ \A u \in Thread \ {t} : call'[u] = call[u]
  BY <1>1, Advanced DEF PInv
<1>5. LeftOK(d) /\ Taken(d) = 0
  BY <1>2, <1>4, ResetTakes
<1>6. PoolOf(d) = EmptyPool
  <2>1. d.width \in Nat
    BY <1>4 DEF CallRecord
  <2> QED
    BY <1>5, <2>1 DEF PoolOf, EmptyPool
<1>7. (NothingWrong' <=> NothingWrong) /\ failures' \in Nat
  BY <1>1 DEF NothingWrong, PInv
<1> HIDE DEF c, d
<1> QED
  BY <1>1, <1>3, <1>4, <1>5, <1>6, <1>7, NoOneIsNoThread, CountKeeps DEF d
\* No script has a step named as the end of a call is.
NoReturn(s, n) == \A i \in 1..n : s[i] # "return"
LEMMA NoReturnStep == \A o \in Ops : NoReturn(Script[o], Len(Script[o]))
<1>1. NoReturn(RunKernel, 17)
  BY DEF NoReturn, RunKernel
<1>2. NoReturn(BenchKernel, 37)
  BY DEF NoReturn, BenchKernel
<1>3. NoReturn(AllocDeviceLocal, 9) /\ NoReturn(AllocRaw, 1) /\ NoReturn(CompileKernel, 4)
  BY DEF NoReturn, AllocDeviceLocal, AllocRaw, CompileKernel
<1>4. /\ NoReturn(RunBound, 8) /\ NoReturn(RunBatch, 8)
      /\ NoReturn(AllocEmpty, 3) /\ NoReturn(EmptyBatch, 2)
  BY DEF NoReturn, RunBound, RunBatch, AllocEmpty, EmptyBatch
<1> QED
  BY <1>1, <1>2, <1>3, <1>4, ScriptOf, ScriptLen, ZenonT(60)

LEMMA NextPInv == PInv /\ [Next]_vars => PInv'
<1> SUFFICES ASSUME PInv, [Next]_vars PROVE PInv'
  OBVIOUS
<1>0. IInv'
  BY NextIInv DEF PInv
<1>1. CASE UNCHANGED vars
  BY <1>0, <1>1 DEF PInv, PoolCounts, NothingWrong, PoolOf, Taken, LeftOK, StepOf, NoSetBefore,
                    InPool, vars, driver, errors
<1>2. ASSUME NEW t \in Thread, NEW o \in Ops, NEW w \in Widths \union {1, 2},
             NEW n \in 1..MaxItems, Call(t, o, w, n)
      PROVE  PInv'
  <2>1. /\ call'[t] = [op |-> o, pc |-> 1, width |-> w, items |-> n, left |-> n, ok |-> TRUE]
        /\ \A u \in Thread \ {t} : call'[u] = call[u]
        /\ UNCHANGED <<lock, pool, failures, refused>>
    BY <1>2 DEF Call, PInv, IInv, CallOK, driver, errors
  <2>2. LeftOK(call'[t])
    BY <2>1, BoundsCount DEF LeftOK
  <2>3. lock # t
    BY <1>2 DEF Call, PInv, IInv, LockFollowsTheCall
  <2>4. (NothingWrong' <=> NothingWrong) /\ failures' \in Nat
    BY <2>1 DEF NothingWrong, PInv
  <2> QED
    BY <1>0, <2>1, <2>2, <2>3, <2>4, NoOneIsNoThread, CountKeeps
<1>3. ASSUME NEW t \in Thread, Lock(t) PROVE PInv'
  BY <1>0, <1>3, AdvancePool DEF Lock, driver
<1>4. ASSUME NEW t \in Thread, Step(t) PROVE PInv'
  <2>1. CASE Unlock(t)
    BY <1>0, <2>1, AdvancePool DEF Unlock, driver
  <2>2. CASE Make(t) \/ Free(t) \/ Keep(t) \/ Submit(t) \/ Wait(t) \/ Plain(t)
    <3>1. /\ At(t) \notin {"idle", "return", "lock", "unlock", "set", "reset"}
          /\ Advance(t) /\ UNCHANGED <<lock, pool, errors>>
      BY <2>2 DEF Make, Makes, PipeKinds, BufKinds, Free, Frees, Keep, Submit, Wait, Plain,
                  driver
    <3> QED
      BY <1>0, <3>1, AdvancePool
  <2>3. CASE AllocSet(t)
    BY <1>0, <2>3, GrantPool
  <2>4. CASE ResetPool(t)
    BY <1>0, <2>4, ResetGives
  <2>5. CASE Return(t)
    <3>1. At(t) = "return" /\ Leave(t) /\ UNCHANGED <<failures, refused>>
      BY <2>5 DEF Return, errors
    <3>2. Op(t) \in Ops /\ call[t].pc = Len(Script[Op(t)]) + 1
      <4>1. Op(t) \in Ops /\ call[t].pc \in Nat /\ call[t].pc <= Len(Script[Op(t)]) + 1
        BY DEF PInv, IInv, CallOK, CallRecord, Op
      <4>2. Len(Script[Op(t)]) \in Nat
        BY <4>1, ScriptLenNat
      <4>3. call[t].pc = 0 \/ call[t].pc > Len(Script[Op(t)]) \/ call[t].pc \in 1..Len(Script[Op(t)])
        BY <4>1, <4>2
      <4> QED
        BY <3>1, <4>1, <4>2, <4>3, NoReturnStep DEF At, NoReturn
    <3>3. lock # t
      BY <3>2, AllWellLocked DEF WellLocked, PInv, IInv, LockFollowsTheCall
    <3>4. (NothingWrong' <=> NothingWrong) /\ failures' \in Nat
      BY <3>1 DEF NothingWrong, PInv
    <3> QED
      BY <1>0, <3>1, <3>3, <3>4, EndPool
  <2>6. CASE Refuse(t)
    BY <1>0, <2>6, FaultPool DEF Refuse, NothingWrong, PInv
  <2> QED
    BY <1>4, <2>1, <2>2, <2>3, <2>4, <2>5, <2>6 DEF Step
<1>5. ASSUME NEW t \in Thread, Fail(t) PROVE PInv'
  BY <1>0, <1>5, FaultPool DEF Fail, NothingWrong, PInv
<1>6. ASSUME NEW t \in Thread, FreeRaw(t) PROVE PInv'
  BY <1>0, <1>6 DEF FreeRaw, PInv, PoolCounts, NothingWrong, PoolOf, Taken, LeftOK, StepOf,
                    NoSetBefore, InPool, errors
<1> QED
  BY <1>1, <1>2, <1>3, <1>4, <1>5, <1>6 DEF Next

\* While nothing has gone wrong the descriptor pool is empty whenever the lock
\* is free, and the first allocation it turns down is one of a batch larger
\* than the pool (run_pipeline_batch, mod.rs:1770): for every pool and any threads.
THEOREM PoolDrains == Spec => []PoolDrained
<1>1. PInv => PoolDrained
  <2> SUFFICES ASSUME PInv, NothingWrong
               PROVE  /\ lock = NoOne => pool = EmptyPool
                      /\ \A t \in Thread : At(t) = "set" /\ ~Room(call[t].width) =>
                           \/ call[t].items > MaxSets
                           \/ call[t].items * call[t].width > MaxDescs
    BY DEF PoolDrained, NothingWrong
  <2>1. lock = NoOne => pool = EmptyPool
    BY DEF PInv, PoolCounts
  <2>2. ASSUME NEW t \in Thread, At(t) = "set", ~Room(call[t].width)
        PROVE  call[t].items > MaxSets \/ call[t].items * call[t].width > MaxDescs
    <3>1. call[t] \in CallRecord /\ call[t].pc \in 1..Len(Script[call[t].op])
          /\ StepOf(call[t]) = "set"
      BY <2>2, AtStep DEF PInv
    <3>2. lock = t
      BY <2>2, AtPosition, AllWellLocked
         DEF WellLocked, Synchronized, PInv, IInv, LockFollowsTheCall
    <3>3. call[t].left \in 1..call[t].items /\ call[t].items \in Nat /\ call[t].width \in Nat
      <4>1. NoSetBefore(call[t].op, call[t].pc)
        BY <3>1, AllWellPooled, ScriptLenNat DEF WellPooled, NoSetBefore, StepOf, CallRecord
      <4> QED
        BY <3>1, <4>1 DEF PInv, LeftOK, CallRecord
    <3> DEFINE k == call[t].items - call[t].left
    <3>4. pool.sets = k /\ pool.descs = k * call[t].width
      BY <3>1, <3>2 DEF PInv, PoolCounts, PoolOf, Taken
    <3>5. k \in Nat /\ k + 1 <= call[t].items
      BY <3>3
    <3>6. \A a, b, w \in Nat : a + 1 <= b => a * w + w <= b * w
      <4> SUFFICES ASSUME NEW a \in Nat, NEW b \in Nat, NEW w \in Nat, a + 1 <= b
                   PROVE  a * w + w <= b * w
        OBVIOUS
      <4>1. (b - a - 1) * w >= 0
        <5>1. b - a - 1 \in Nat
          OBVIOUS
        <5> QED
          BY <5>1
      <4> QED
        BY <4>1
    <3>7. k * call[t].width + call[t].width <= call[t].items * call[t].width
      BY <3>3, <3>5, <3>6
    <3>8. k >= MaxSets \/ k * call[t].width + call[t].width > MaxDescs
      BY <2>2, <3>3, <3>4, <3>5, PoolHasRoom DEF Room
    <3>9. CASE k >= MaxSets
      BY <3>3, <3>5, <3>9, PoolHasRoom
    <3>10. CASE k * call[t].width + call[t].width > MaxDescs
      <4>1. /\ k * call[t].width + call[t].width \in Nat
            /\ call[t].items * call[t].width \in Nat /\ MaxDescs \in Nat
        BY <3>3, <3>5, PoolHasRoom
      <4> QED
        BY <3>7, <3>10, <4>1
    <3> QED
      BY <3>8, <3>9, <3>10
  <2> QED
    BY <2>1, <2>2
<1>2. Spec => []PInv
  BY InitPInv, NextPInv, PTL DEF Spec
<1> QED
  BY <1>1, <1>2, PTL

-----------------------------------------------------------------------------
\* The rest of the types: the pool stays within its size because a set is only
\* granted where there is room, and no call is granted more sets than it asked
\* for, which takes the invariant of the pool.
Bounded ==
  /\ pool.sets <= MaxSets /\ pool.descs <= MaxDescs
  /\ failures <= MaxFailures
  /\ resident \in BOOLEAN /\ refused \in BOOLEAN /\ waitFailed \in BOOLEAN
  /\ \A t \in Thread : call[t].left >= 0
BInv == PInv /\ DriverOK /\ Bounded

\* A call at its set still has one to allocate.
LEMMA SetToGo ==
  ASSUME PInv, NEW t \in Thread, At(t) = "set"
  PROVE  call[t].left >= 1 /\ call[t].left \in Int
<1>1. /\ call[t] \in CallRecord /\ call[t].pc \in 1..Len(Script[call[t].op])
      /\ StepOf(call[t]) = "set"
  BY AtStep DEF PInv
<1>2. NoSetBefore(call[t].op, call[t].pc)
  BY <1>1, AllWellPooled, ScriptLenNat DEF WellPooled, NoSetBefore, StepOf, CallRecord
<1> QED
  BY <1>1, <1>2 DEF PInv, LeftOK, CallRecord

\* What a step does to the sets a call has left.
LEMMA LeftKeeps ==
  ASSUME PInv, IInv', NEW t \in Thread, Lock(t) \/ Step(t) \/ Fail(t), call[t].left >= 0
  PROVE  call'[t].left >= 0
<1>0. call \in [Thread -> CallRecord] /\ call[t] \in CallRecord
  BY DEF PInv, IInv, CallOK
<1>1. CASE AllocSet(t)
  <2>1. At(t) = "set" /\ call' = [call EXCEPT ![t] = Granted(call[t], call[t].left - 1,
                                   IF call[t].left > 1 THEN call[t].pc ELSE call[t].pc + 1)]
    BY <1>1, Zenon DEF AllocSet, Granted
  <2>2. call'[t].left = call[t].left - 1
    BY <1>0, <2>1 DEF Granted, CallRecord
  <2> QED
    BY <2>1, <2>2, SetToGo
<1>2. CASE Leave(t)
  BY <1>0, <1>2 DEF Leave, NoCall
<1>3. CASE Advance(t)
  BY <1>3, Advanced DEF PInv
<1>4. CASE InBenchLoop(t) /\ Fault(t)
  <2>1. call' = [call EXCEPT ![t] = FailedAt(call[t], BenchCleanup)]
    BY <1>4, Zenon DEF Fault, FailedAt
  <2> QED
    BY <1>0, <2>1 DEF FailedAt, CallRecord
<1> QED
  BY <1>1, <1>2, <1>3, <1>4
     DEF Lock, Step, Fail, Make, Free, Keep, Unlock, Submit, Wait, ResetPool, Plain, Return,
         Refuse, Fault

LEMMA NextBInv == BInv /\ [Next]_vars => BInv'
<1> SUFFICES ASSUME BInv, [Next]_vars PROVE BInv'
  OBVIOUS
<1>0. PInv' /\ IInv' /\ IInv
  BY NextPInv DEF BInv, PInv
<1>1. CASE UNCHANGED vars
  BY <1>0, <1>1 DEF BInv, Bounded, DriverOK, vars, driver, errors
<1>2. ASSUME NEW t \in Thread, Step(t) \/ Fail(t) PROVE BInv'
  <2>1. busy' \subseteq Thread
    BY <1>2, BusyKeeps DEF BInv, DriverOK, Submit
  <2>2. DriverOK'
    BY <1>0, <1>2, <2>1, HeldKeeps, PoolKeeps DEF BInv, DriverOK
  <2>3. pool'.sets <= MaxSets /\ pool'.descs <= MaxDescs
    <3>1. CASE AllocSet(t)
      <4>1. Room(call[t].width) /\ call[t].width \in Nat
        BY <1>0, <3>1 DEF AllocSet, IInv, CallOK, CallRecord
      <4> QED
        BY <3>1, <4>1, PoolHasRoom DEF AllocSet, Room, BInv, DriverOK
    <3>2. CASE ResetPool(t)
      BY <3>2, PoolHasRoom DEF ResetPool, EmptyPool
    <3>3. CASE UNCHANGED pool
      BY <3>3 DEF BInv, Bounded
    <3>4. AllocSet(t) \/ ResetPool(t) \/ UNCHANGED pool
      BY <1>2 DEF Step, Fail, Make, Free, Keep, Unlock, Submit, Wait, Plain, Return, Refuse,
                  Fault, Leave, driver
    <3> QED
      BY <3>1, <3>2, <3>3, <3>4
  <2>4. /\ failures' <= MaxFailures
        /\ refused' \in BOOLEAN /\ waitFailed' \in BOOLEAN
    <3>1. CASE Fail(t)
      BY <3>1, BoundsCount DEF Fail, BInv, Bounded, PInv
    <3>2. CASE Refuse(t)
      BY <3>2 DEF Refuse, BInv, Bounded
    <3>3. CASE UNCHANGED errors
      BY <3>3 DEF errors, BInv, Bounded
    <3> QED
      BY <1>2, <3>1, <3>2, <3>3
         DEF Step, Make, Free, Keep, AllocSet, ResetPool, Unlock, Submit, Wait, Plain, Return,
             errors
  <2>5. resident' \in BOOLEAN
    BY <1>2 DEF Step, Fail, Make, Free, Keep, AllocSet, ResetPool, Unlock, Submit, Wait, Plain,
                Return, Refuse, Fault, Leave, driver, BInv, Bounded
  <2>6. ASSUME NEW u \in Thread PROVE call'[u].left >= 0
    BY <1>0, <1>2, LeftKeeps, OthersStay DEF BInv, Bounded
  <2> QED
    BY <1>0, <2>2, <2>3, <2>4, <2>5, <2>6 DEF BInv, Bounded
<1>3. ASSUME NEW t \in Thread, Lock(t) PROVE BInv'
  <2>1. ASSUME NEW u \in Thread PROVE call'[u].left >= 0
    BY <1>0, <1>3, LeftKeeps, CallerSteps DEF BInv, Bounded
  <2> QED
    BY <1>0, <1>3, <2>1 DEF Lock, BInv, Bounded, DriverOK, driver, errors
<1>4. ASSUME NEW t \in Thread, FreeRaw(t) PROVE BInv'
  BY <1>0, <1>4 DEF FreeRaw, BInv, Bounded, DriverOK, errors
<1>5. ASSUME NEW t \in Thread, NEW o \in Ops, NEW w \in Widths \union {1, 2},
             NEW n \in 1..MaxItems, Call(t, o, w, n)
      PROVE  BInv'
  <2>1. /\ call'[t].left = n /\ \A u \in Thread \ {t} : call'[u] = call[u]
        /\ UNCHANGED <<driver, errors>>
    BY <1>0, <1>5 DEF Call, IInv, CallOK
  <2>2. \A u \in Thread : call'[u].left >= 0
    BY <2>1, BoundsCount DEF BInv, Bounded
  <2> QED
    BY <1>0, <2>1, <2>2 DEF BInv, Bounded, DriverOK, driver, errors
<1> QED
  BY <1>1, <1>2, <1>3, <1>4, <1>5 DEF Next

LEMMA InitBInv == Init => BInv
<1> SUFFICES ASSUME Init PROVE BInv
  OBVIOUS
<1>1. PInv
  BY InitPInv
<1>2. DriverOK
  BY InitTInv DEF TInv
<1>3. \A t \in Thread : call[t].left = 1
  BY DEF Init, NoCall
<1>4. Bounded
  <2>1. pool.sets = 0 /\ pool.descs = 0 /\ failures = 0
    BY DEF Init, EmptyPool
  <2>2. resident = FALSE /\ refused = FALSE /\ waitFailed = FALSE
    BY DEF Init
  <2>3. \A t \in Thread : call[t].left >= 0
    BY <1>3
  <2>4. MaxSets \in Nat /\ MaxDescs \in Nat /\ MaxFailures \in Nat
    BY PoolHasRoom, BoundsCount
  <2>5. pool.sets <= MaxSets /\ pool.descs <= MaxDescs /\ failures <= MaxFailures
    BY <2>1, <2>4
  <2> QED
    BY <2>2, <2>3, <2>5 DEF Bounded
<1> QED
  BY <1>1, <1>2, <1>4 DEF BInv

\* The types, for every size of the pool, any batches and any threads: handle
\* counts never go below zero, no call is granted more sets than it has
\* dispatches, and the pool never holds more than it was made for.
THEOREM VulkanTypes == Spec => []TypeOK
<1>1. BInv => TypeOK
  <2> SUFFICES ASSUME BInv PROVE TypeOK
    OBVIOUS
  <2>1. ASSUME NEW t \in Thread
        PROVE  call[t] \in [op : Ops, pc : Nat, width : Nat, items : Nat, left : Nat, ok : BOOLEAN]
    <3>1. call[t] \in CallRecord /\ call[t].left >= 0
      BY DEF BInv, PInv, IInv, CallOK, Bounded
    <3> QED
      BY <3>1 DEF CallRecord
  <2>2. pool \in [sets : 0..MaxSets, descs : 0..MaxDescs]
    BY PoolHasRoom DEF BInv, Bounded, DriverOK
  <2> QED
    BY <2>1, <2>2, BoundsCount DEF BInv, Bounded, DriverOK, PInv, IInv, CallOK, TypeOK
<1>2. Spec => []BInv
  BY InitBInv, NextBInv, PTL DEF Spec
<1> QED
  BY <1>1, <1>2, PTL

-----------------------------------------------------------------------------
\* The handles a call may hold at position i of its script: those made before
\* it and not destroyed since.
MadeBy(s) == IF s \in DOMAIN Makes THEN {Makes[s]} ELSE IF s = "keep" THEN {"buf"} ELSE {}
FreedBy(s) == IF s \in DOMAIN Frees THEN Frees[s] ELSE IF s = "keep" THEN {"dst"} ELSE {}
MayHold(s, i, k) == \E j \in 1..i-1 : /\ k \in MadeBy(s[j])
                                      /\ \A l \in j+1..i-1 : k \notin FreedBy(s[l])
\* An error in bench_kernel's loop skips the command buffer's release.
Strays(c, k) == k = "cb" /\ ~c.ok
HoldsOnly(c, h) == \A k \in Kinds : h[k] > 0 => MayHold(Script[c.op], c.pc, k) \/ Strays(c, k)
\* Only bench_kernel goes on after an error, and then only with its clean-up.
FailedLate(c) == ~c.ok => c.op = "bench" /\ c.pc >= 34
HoldOK == \A t \in Thread : HoldsOnly(call[t], held[t]) /\ FailedLate(call[t])
HInv == BInv /\ HoldOK

\* One position on: what the step made, and what was held and not freed by it.
LEMMA HoldNext ==
  ASSUME NEW s, NEW i \in Nat, i >= 1, NEW k,
         k \in MadeBy(s[i]) \/ (MayHold(s, i, k) /\ k \notin FreedBy(s[i]))
  PROVE  MayHold(s, i + 1, k)
<1>1. CASE k \in MadeBy(s[i])
  <2>1. i \in 1..(i+1)-1 /\ \A l \in i+1..(i+1)-1 : FALSE
    OBVIOUS
  <2> QED
    BY <1>1, <2>1 DEF MayHold
<1>2. CASE MayHold(s, i, k) /\ k \notin FreedBy(s[i])
  <2>1. PICK j \in 1..i-1 : k \in MadeBy(s[j]) /\ \A l \in j+1..i-1 : k \notin FreedBy(s[l])
    BY <1>2 DEF MayHold
  <2>2. j \in 1..(i+1)-1 /\ \A l \in j+1..(i+1)-1 : k \notin FreedBy(s[l])
    BY <1>2, <2>1
  <2> QED
    BY <2>1, <2>2 DEF MayHold
<1> QED
  BY <1>1, <1>2

LEMMA StepMakes ==
  \A x, k : k \in MadeBy(x) <=>
    \/ x \in PipeKinds \union BufKinds \union {"cb", "query"} /\ k = x
    \/ x \in {"upload", "keep"} /\ k = "buf"
  BY DEF MadeBy, Makes, PipeKinds, BufKinds

LEMMA StepFrees ==
  \A x, k : k \in FreedBy(x) <=>
    \/ x = "free_cb" /\ k = "cb"
    \/ x = "free_stg" /\ k = "stg"
    \/ x = "destroy" /\ k \in PipeKinds \union {"query"}
    \/ x = "free_bufs" /\ k = "buf"
    \/ x = "keep" /\ k = "dst"
  BY DEF FreedBy, Frees, PipeKinds

\* What is asked of a script: its end leaves what the call gives away, a failing
\* object of the pipeline nothing but what is unwound, and a failing step no
\* more than the operation makes before it.
MakesAtMost(o) == CASE o = "run" -> PipeKinds \union {"buf", "cb"}
                    [] o \in {"bound", "batch"} -> {"cb"}
                    [] o = "stage" -> {"dst", "stg", "cb"}
                    [] o \in {"stage_empty", "raw"} -> {}
                    [] OTHER -> Kinds
WellKept(o, s, n) ==
  /\ \A k \in Kinds : MayHold(s, n + 1, k) => k \in GivenBy(o)
  /\ \A i \in 1..n, k \in Kinds : s[i] \in PipeKinds /\ MayHold(s, i, k) => k \in Released(o, s[i])
  /\ \A i \in 1..n, k \in Kinds : s[i] \in Fallible /\ MayHold(s, i, k) => k \in MakesAtMost(o)

LEMMA RunKeeps == WellKept("run", RunKernel, 17)
<1> DEFINE s == RunKernel
<1>1. /\ \A i \in 1..17 : s[i] \in PipeKinds => i \in 2..5
      /\ s[2] = "module" /\ s[3] = "set_layout" /\ s[4] = "layout" /\ s[5] = "pipe"
  BY DEF RunKernel, PipeKinds
<1>2. /\ \A i \in 1..17 : s[i] \notin BufKinds \union {"query", "keep"}
      /\ \A i \in 1..17 : s[i] = "upload" => i = 6
      /\ \A i \in 1..17 : s[i] = "cb" => i = 9
  BY DEF RunKernel, BufKinds
<1>3. s[12] = "free_cb" /\ s[14] = "destroy" /\ s[16] = "free_bufs"
  BY DEF RunKernel
<1> HIDE DEF s
<1>4. ASSUME NEW k, NEW j \in 1..17, k \in MadeBy(s[j])
      PROVE  \/ k \in PipeKinds /\ k = s[j] /\ j \in 2..5
             \/ k = "buf" /\ j = 6
             \/ k = "cb" /\ j = 9
  BY <1>1, <1>2, <1>4, StepMakes
<1>5. ASSUME NEW k \in Kinds, MayHold(s, 18, k) PROVE FALSE
  <2>1. PICK j \in 1..17 : k \in MadeBy(s[j]) /\ \A l \in j+1..17 : k \notin FreedBy(s[l])
    BY <1>5 DEF MayHold
  <2>2. /\ k \in PipeKinds => k \in FreedBy(s[14])
        /\ k = "buf" => k \in FreedBy(s[16])
        /\ k = "cb" => k \in FreedBy(s[12])
    BY <1>3, StepFrees
  <2> QED
    BY <1>4, <2>1, <2>2
<1>6. ASSUME NEW i \in 1..17, NEW k \in Kinds, s[i] \in PipeKinds, MayHold(s, i, k)
      PROVE  k \in Released("run", s[i])
  <2>1. PICK j \in 1..i-1 : k \in MadeBy(s[j])
    BY <1>6 DEF MayHold
  <2>2. k = s[j] /\ i \in 2..5 /\ j \in 2..i-1
    BY <1>1, <1>4, <1>6, <2>1
  <2> QED
    BY <1>1, <2>2 DEF Released, Unwound, PipeKinds
<1>7. ASSUME NEW i \in 1..17, NEW k \in Kinds, MayHold(s, i, k)
      PROVE  k \in MakesAtMost("run")
  <2>1. PICK j \in 1..i-1 : k \in MadeBy(s[j])
    BY <1>7 DEF MayHold
  <2>2. k \in PipeKinds \union {"buf", "cb"}
    BY <1>4, <2>1
  <2> QED
    BY <2>2 DEF MakesAtMost
<1>8. WellKept("run", s, 17)
  BY <1>5, <1>6, <1>7 DEF WellKept
<1> QED
  BY <1>8 DEF s

LEMMA CompileKeeps == WellKept("compile", CompileKernel, 4)
<1> DEFINE s == CompileKernel
<1>1. s[1] = "module" /\ s[2] = "set_layout" /\ s[3] = "layout" /\ s[4] = "pipe"
  BY DEF CompileKernel
<1> HIDE DEF s
<1>2. ASSUME NEW i \in 1..5, NEW k \in Kinds, MayHold(s, i, k)
      PROVE  k \in PipeKinds /\ \E j \in 1..i-1 : k = s[j]
  <2>1. PICK j \in 1..i-1 : k \in MadeBy(s[j])
    BY <1>2 DEF MayHold
  <2>2. j \in 1..4
    BY <2>1
  <2> QED
    BY <1>1, <2>1, <2>2, StepMakes DEF PipeKinds
<1>3. ASSUME NEW i \in 1..4, NEW k \in Kinds, MayHold(s, i, k)
      PROVE  k \in Released("compile", s[i])
  BY <1>1, <1>2, <1>3 DEF Released, Unwound, PipeKinds
<1>4. GivenBy("compile") = PipeKinds /\ MakesAtMost("compile") = Kinds
  BY DEF GivenBy, MakesAtMost
<1>5. WellKept("compile", s, 4)
  BY <1>2, <1>3, <1>4 DEF WellKept
<1> QED
  BY <1>5 DEF s

LEMMA StageKeeps == WellKept("stage", AllocDeviceLocal, 9)
<1> DEFINE s == AllocDeviceLocal
<1>1. /\ \A i \in 1..9 : s[i] \notin PipeKinds \union {"buf", "query", "keep", "upload"}
      /\ \A i \in 1..9 : s[i] = "dst" => i = 2
      /\ \A i \in 1..9 : s[i] = "stg" => i = 3
      /\ \A i \in 1..9 : s[i] = "cb" => i = 4
  BY DEF AllocDeviceLocal, PipeKinds
<1>2. s[7] = "free_cb" /\ s[8] = "free_stg"
  BY DEF AllocDeviceLocal
<1> HIDE DEF s
<1>3. ASSUME NEW k, NEW j \in 1..9, k \in MadeBy(s[j])
      PROVE  k = "dst" \/ (k = "stg" /\ j = 3) \/ (k = "cb" /\ j = 4)
  BY <1>1, <1>3, StepMakes DEF BufKinds
<1>4. ASSUME NEW k \in Kinds, MayHold(s, 10, k) PROVE k = "dst"
  <2>1. PICK j \in 1..9 : k \in MadeBy(s[j]) /\ \A l \in j+1..9 : k \notin FreedBy(s[l])
    BY <1>4 DEF MayHold
  <2>2. "cb" \in FreedBy(s[7]) /\ "stg" \in FreedBy(s[8])
    BY <1>2, StepFrees
  <2> QED
    BY <1>3, <2>1, <2>2
<1>5. ASSUME NEW i \in 1..9, NEW k \in Kinds, MayHold(s, i, k)
      PROVE  k \in {"dst", "stg", "cb"}
  BY <1>3, <1>5 DEF MayHold
<1>6. GivenBy("stage") = {"dst"} /\ MakesAtMost("stage") = {"dst", "stg", "cb"}
  BY DEF GivenBy, MakesAtMost
<1>7. WellKept("stage", s, 9)
  BY <1>1, <1>4, <1>5, <1>6 DEF WellKept
<1> QED
  BY <1>7 DEF s

LEMMA ResidentKeeps == WellKept("bound", RunBound, 8) /\ WellKept("batch", RunBatch, 8)
<1> DEFINE Dispatches(s) ==
      /\ \A i \in 1..8 : s[i] \notin PipeKinds \union BufKinds \union {"query", "keep", "upload"}
      /\ \A i \in 1..8 : s[i] = "cb" => i < 6
      /\ s[6] = "free_cb"
<1>1. Dispatches(RunBound) /\ Dispatches(RunBatch)
  BY DEF RunBound, RunBatch, PipeKinds, BufKinds
<1>2. ASSUME NEW o \in {"bound", "batch"}, NEW s, Dispatches(s) PROVE WellKept(o, s, 8)
  <2>1. ASSUME NEW k, NEW j \in 1..8, k \in MadeBy(s[j]) PROVE k = "cb" /\ j < 6
    BY <1>2, <2>1, StepMakes
  <2>2. ASSUME NEW k \in Kinds, MayHold(s, 9, k) PROVE FALSE
    <3>1. PICK j \in 1..8 : k \in MadeBy(s[j]) /\ \A l \in j+1..8 : k \notin FreedBy(s[l])
      BY <2>2 DEF MayHold
    <3>2. "cb" \in FreedBy(s[6])
      BY <1>2, StepFrees
    <3> QED
      BY <2>1, <3>1, <3>2
  <2>3. ASSUME NEW i \in 1..8, NEW k \in Kinds, MayHold(s, i, k) PROVE k = "cb"
    BY <2>1, <2>3 DEF MayHold
  <2>4. MakesAtMost(o) = {"cb"}
    BY DEF MakesAtMost
  <2> QED
    BY <1>2, <2>2, <2>3, <2>4 DEF WellKept
<1> HIDE DEF Dispatches
<1> QED
  BY <1>1, <1>2

LEMMA ShortKeep ==
  /\ WellKept("raw", AllocRaw, 1) /\ WellKept("stage_empty", AllocEmpty, 3)
  /\ WellKept("batch_empty", EmptyBatch, 2)
<1>1. /\ AllocRaw[1] = "buf"
      /\ AllocEmpty[1] = "lock" /\ AllocEmpty[2] = "dst" /\ AllocEmpty[3] = "unlock"
      /\ EmptyBatch[1] = "lock" /\ EmptyBatch[2] = "unlock"
  BY DEF AllocRaw, AllocEmpty, EmptyBatch
<1>2. /\ \A k : ~(k \in MadeBy("lock")) /\ ~(k \in MadeBy("unlock"))
      /\ \A k : k \in MadeBy("buf") => k = "buf"
      /\ \A k : k \in MadeBy("dst") => k = "dst"
  BY StepMakes DEF PipeKinds, BufKinds
<1>3. /\ GivenBy("raw") = {"buf"} /\ GivenBy("stage_empty") = {"dst"}
      /\ MakesAtMost("raw") = {} /\ MakesAtMost("batch_empty") = Kinds
      /\ MakesAtMost("stage_empty") = {}
  BY DEF GivenBy, MakesAtMost
<1>4. /\ "buf" \notin PipeKinds /\ "dst" \notin PipeKinds /\ "lock" \notin PipeKinds
      /\ "unlock" \notin PipeKinds \union Fallible
  BY DEF PipeKinds, BufKinds, Fallible, Makes
<1>5. WellKept("raw", AllocRaw, 1)
  BY <1>1, <1>2, <1>3, <1>4 DEF WellKept, MayHold
<1>6. WellKept("stage_empty", AllocEmpty, 3)
  BY <1>1, <1>2, <1>3, <1>4 DEF WellKept, MayHold
<1>7. WellKept("batch_empty", EmptyBatch, 2)
  BY <1>1, <1>2, <1>3, <1>4 DEF WellKept, MayHold
<1> QED
  BY <1>5, <1>6, <1>7

LEMMA BenchKeeps == WellKept("bench", BenchKernel, 37)
<1> DEFINE s == BenchKernel
<1>1. /\ \A i \in 1..37 : s[i] \in PipeKinds => i \in 22..25
      /\ s[22] = "module" /\ s[23] = "set_layout" /\ s[24] = "layout" /\ s[25] = "pipe"
  BY DEF BenchKernel, PipeKinds
<1>2. /\ \A i \in 1..37 : s[i] = "dst" => i \in {2, 12}
      /\ \A i \in 1..37 : s[i] = "stg" => i \in {3, 13}
      /\ \A i \in 1..37 : s[i] = "cb" => i \in {4, 14, 29}
  BY DEF BenchKernel
<1>3. /\ \A i \in 1..37 : s[i] \notin {"buf", "upload"}
      /\ \A i \in 1..37 : s[i] = "query" => i = 28
      /\ \A i \in 1..37 : s[i] = "keep" => i \in {10, 20}
  BY DEF BenchKernel
<1>4. /\ s[17] = "free_cb" /\ s[32] = "free_cb" /\ s[18] = "free_stg" /\ s[20] = "keep"
      /\ s[34] = "destroy" /\ s[37] = "free_bufs"
  BY DEF BenchKernel
<1> HIDE DEF s
<1>5. ASSUME NEW k, NEW j \in 1..37, k \in MadeBy(s[j])
      PROVE  \/ k \in PipeKinds /\ k = s[j] /\ j \in 22..25
             \/ k = "query" /\ j = 28
             \/ k = "dst" /\ j \in {2, 12}
             \/ k = "stg" /\ j \in {3, 13}
             \/ k = "cb" /\ j \in {4, 14, 29}
             \/ k = "buf" /\ j \in {10, 20}
  BY <1>1, <1>2, <1>3, <1>5, StepMakes DEF BufKinds
<1>6. /\ \A k \in PipeKinds \union {"query"} : k \in FreedBy(s[34])
      /\ "buf" \in FreedBy(s[37]) /\ "dst" \in FreedBy(s[20]) /\ "stg" \in FreedBy(s[18])
      /\ "cb" \in FreedBy(s[17]) /\ "cb" \in FreedBy(s[32])
  BY <1>4, StepFrees
<1>7. ASSUME NEW k \in Kinds, MayHold(s, 38, k) PROVE FALSE
  <2>1. PICK j \in 1..37 : k \in MadeBy(s[j]) /\ \A l \in j+1..37 : k \notin FreedBy(s[l])
    BY <1>7 DEF MayHold
  <2> QED
    BY <1>5, <1>6, <2>1
<1>8. ASSUME NEW i \in 22..25, NEW k \in Kinds, MayHold(s, i, k)
      PROVE  k = "buf" \/ (k \in PipeKinds /\ \E j \in 22..i-1 : k = s[j])
  <2>1. PICK j \in 1..i-1 : k \in MadeBy(s[j]) /\ \A l \in j+1..i-1 : k \notin FreedBy(s[l])
    BY <1>8 DEF MayHold
  <2> QED
    BY <1>5, <1>6, <2>1
<1>9. ASSUME NEW i \in 1..37, NEW k \in Kinds, s[i] \in PipeKinds, MayHold(s, i, k)
      PROVE  k \in Released("bench", s[i])
  <2>1. i \in 22..25 /\ "buf" \in Released("bench", s[i])
    BY <1>1, <1>9 DEF Released, PipeKinds
  <2>2. ASSUME NEW j \in 22..i-1 PROVE s[j] \in Released("bench", s[i])
    BY <1>1, <2>1 DEF Released, Unwound, PipeKinds
  <2> QED
    BY <1>8, <1>9, <2>1, <2>2
<1>10. MakesAtMost("bench") = Kinds
  BY DEF MakesAtMost
<1>11. WellKept("bench", s, 37)
  BY <1>7, <1>9, <1>10 DEF WellKept
<1> QED
  BY <1>11 DEF s

\* What bench_kernel's loop holds when it fails, its clean-up finds held, but
\* for the command buffer.
LEMMA BenchStrays ==
  ASSUME NEW i \in 29..33, NEW k, MayHold(BenchKernel, i, k), k # "cb"
  PROVE  MayHold(BenchKernel, 34, k)
<1> DEFINE s == BenchKernel
<1>1. \A l \in 29..33 : s[l] \notin {"free_stg", "destroy", "free_bufs", "keep"}
  BY DEF BenchKernel
<1> HIDE DEF s
<1>2. \A l \in 29..33 : k \notin FreedBy(s[l])
  BY <1>1, StepFrees
<1>3. PICK j \in 1..i-1 : k \in MadeBy(s[j]) /\ \A l \in j+1..i-1 : k \notin FreedBy(s[l])
  BY DEF MayHold, s
<1>4. j \in 1..33 /\ \A l \in j+1..33 : k \notin FreedBy(s[l])
  BY <1>2, <1>3
<1>5. MayHold(s, 34, k)
  BY <1>3, <1>4 DEF MayHold
<1> QED
  BY <1>5 DEF s

LEMMA AllWellKept == \A o \in Ops : WellKept(o, Script[o], Len(Script[o]))
  BY RunKeeps, BenchKeeps, CompileKeeps, StageKeeps, ResidentKeeps, ShortKeep, ScriptOf,
     ScriptLen, ZenonT(60)

-----------------------------------------------------------------------------
\* No step that can fail comes after bench_kernel's clean-up began.
LEMMA NoFaultLate ==
  ASSUME IInv, NEW t \in Thread, At(t) \in Fallible, FailedLate(call[t])
  PROVE  call[t].ok
<1> SUFFICES ASSUME ~call[t].ok PROVE FALSE
  BY DEF IInv, CallOK, CallRecord
<1>1. At(t) \notin {"idle", "return"}
  BY DEF Fallible, Makes, PipeKinds, BufKinds
<1>2. Op(t) \in Ops /\ call[t].pc \in 1..Len(Script[Op(t)]) /\ At(t) = Script[Op(t)][call[t].pc]
  BY <1>1, AtPosition DEF IInv
<1>3. Op(t) = "bench" /\ call[t].pc >= 34
  BY DEF FailedLate, Op
<1>4. call[t].pc \in 34..37 /\ At(t) = BenchKernel[call[t].pc]
  BY <1>2, <1>3, ScriptOf, ScriptLen
<1>5. \A i \in 34..37 : BenchKernel[i] \in {"destroy", "reset", "unlock", "free_bufs"}
  BY DEF BenchKernel
<1>6. At(t) \in {"destroy", "reset", "unlock", "free_bufs"}
  BY <1>4, <1>5
<1> QED
  BY <1>6 DEF Fallible, Makes, PipeKinds, BufKinds

\* The claims of a return and of an error path.
LEMMA HeldLosesAtMost == HInv => ErrorsLoseAtMost
<1> SUFFICES ASSUME HInv, NEW t \in Thread
             PROVE  /\ At(t) = "return" => \A k \in Kinds : held[t][k] > 0 =>
                           k \in GivenBy(Op(t)) \/ (k = "cb" /\ ~call[t].ok)
                    /\ At(t) \in PipeKinds => WouldLose(t) = {}
                    /\ At(t) \in Fallible /\ Op(t) \in DOMAIN MayLose =>
                         WouldLose(t) \subseteq MayLose[Op(t)]
  BY DEF ErrorsLoseAtMost
<1> DEFINE o == Op(t)
           s == Script[Op(t)]
           n == Len(Script[Op(t)])
           i == call[t].pc
<1>0. IInv /\ held[t] \in [Kinds -> Nat] /\ HoldsOnly(call[t], held[t]) /\ FailedLate(call[t])
  BY DEF HInv, HoldOK, BInv, PInv, DriverOK
<1>1. o \in Ops /\ i \in Nat /\ n \in Nat /\ WellKept(o, s, n)
  BY <1>0, AllWellKept, ScriptLenNat DEF IInv, CallOK, CallRecord, Op
<1>2. \A k \in Kinds : held[t][k] > 0 => MayHold(s, i, k) \/ Strays(call[t], k)
  BY <1>0 DEF HoldsOnly, Op
<1>3. ASSUME At(t) = "return"
      PROVE  \A k \in Kinds : held[t][k] > 0 => k \in GivenBy(o) \/ (k = "cb" /\ ~call[t].ok)
  <2>1. i = n + 1
    <3>1. i <= n + 1
      BY <1>0 DEF IInv, CallOK
    <3>2. i = 0 \/ i > n \/ i \in 1..n
      BY <1>1
    <3> QED
      BY <1>1, <1>3, <3>1, <3>2, NoReturnStep DEF At, NoReturn
  <2> QED
    BY <1>1, <1>2, <2>1 DEF WellKept, Strays
<1>4. ASSUME At(t) \in Fallible
      PROVE  /\ i \in 1..n /\ At(t) = s[i]
             /\ \A k \in Kinds : held[t][k] > 0 => MayHold(s, i, k)
  <2>1. At(t) \notin {"idle", "return"}
    BY <1>4 DEF Fallible, Makes, PipeKinds, BufKinds
  <2>2. i \in 1..n /\ At(t) = s[i]
    BY <1>0, <2>1, AtPosition DEF IInv
  <2> QED
    BY <1>0, <1>2, <1>4, <2>2, NoFaultLate DEF Strays
<1>5. ASSUME At(t) \in PipeKinds PROVE WouldLose(t) = {}
  <2>1. At(t) \in Fallible /\ At(t) \notin BufKinds \union {"upload"}
    BY <1>5 DEF Fallible, Makes, PipeKinds, BufKinds
  <2>2. \A k \in Kinds : held[t][k] > 0 => k \in Released(o, At(t))
    BY <1>1, <1>4, <1>5, <2>1 DEF WellKept
  <2> QED
    BY <2>1, <2>2 DEF WouldLose
<1>6. ASSUME At(t) \in Fallible, o \in DOMAIN MayLose PROVE WouldLose(t) \subseteq MayLose[o]
  <2>1. \A k \in Kinds : held[t][k] > 0 => k \in MakesAtMost(o)
    BY <1>1, <1>4, <1>6 DEF WellKept
  <2>2. CASE o = "run"
    <3>1. /\ "buf" \in Released(o, At(t)) /\ MakesAtMost(o) = PipeKinds \union {"buf", "cb"}
          /\ MayLose[o] = PipeKinds \union {"cb", "half"}
      BY <2>2 DEF Released, MakesAtMost, MayLose
    <3> QED
      BY <2>1, <3>1 DEF WouldLose
  <2>3. CASE o \in {"bound", "batch"}
    <3>1. MakesAtMost(o) = {"cb"} /\ MayLose[o] = {"cb"}
      BY <2>3 DEF MakesAtMost, MayLose
    <3>2. \A x \in 1..8 : /\ RunBound[x] \notin BufKinds \union {"upload"}
                          /\ RunBatch[x] \notin BufKinds \union {"upload"}
      BY DEF RunBound, RunBatch, BufKinds
    <3>3. At(t) \notin BufKinds \union {"upload"}
      BY <1>4, <1>6, <2>3, <3>2, ScriptOf, ScriptLen, ZenonT(60)
    <3> QED
      BY <2>1, <3>1, <3>3 DEF WouldLose
  <2>4. CASE o = "stage"
    <3>1. MakesAtMost(o) = {"dst", "stg", "cb"} /\ MayLose[o] = {"dst", "stg", "cb", "half"}
      BY <2>4 DEF MakesAtMost, MayLose
    <3> QED
      BY <2>1, <3>1 DEF WouldLose
  <2>5. CASE o \in {"stage_empty", "raw"}
    <3>1. MakesAtMost(o) = {} /\ MayLose[o] = {"half"}
      BY <2>5 DEF MakesAtMost, MayLose
    <3> QED
      BY <2>1, <3>1 DEF WouldLose
  <2>6. o \in {"run", "bound", "batch", "stage", "stage_empty", "raw"}
    BY <1>6 DEF MayLose
  <2> QED
    BY <2>2, <2>3, <2>4, <2>5, <2>6
<1> QED
  BY <1>3, <1>5, <1>6

-----------------------------------------------------------------------------
\* A step that goes on by one position: the call holds at most what it held and
\* the step did not free, and what the step made.
Passes(t) == \A k \in Kinds : held'[t][k] > 0 =>
               k \in MadeBy(At(t)) \/ (held[t][k] > 0 /\ k \notin FreedBy(At(t)))

LEMMA StepPasses ==
  ASSUME DriverOK, NEW t \in Thread, At(t) # "lock",
         \/ Unlock(t) \/ Make(t) \/ Free(t) \/ Keep(t) \/ Submit(t) \/ Wait(t) \/ ResetPool(t)
         \/ Plain(t) \/ AllocSet(t)
  PROVE  Passes(t)
<1>0. held \in [Thread -> [Kinds -> Nat]] /\ held[t] \in [Kinds -> Nat]
  BY DEF DriverOK
<1>1. CASE Make(t)
  <2>1. /\ At(t) \in DOMAIN Makes /\ Makes[At(t)] \in Kinds
        /\ held' = [held EXCEPT ![t][Makes[At(t)]] = @ + 1]
    BY <1>1 DEF Make, Makes, Kinds, PipeKinds, BufKinds
  <2>2. \A k \in Kinds : k # Makes[At(t)] => held'[t][k] = held[t][k]
    BY <1>0, <2>1
  <2>3. Makes[At(t)] \in MadeBy(At(t)) /\ \A k : k \notin FreedBy(At(t))
    BY <2>1, StepFrees DEF MadeBy, Makes, PipeKinds, BufKinds
  <2> QED
    BY <2>2, <2>3 DEF Passes
<1>2. CASE Free(t)
  <2>1. /\ At(t) \in DOMAIN Frees
        /\ held' = [held EXCEPT ![t] = Without(held[t], Frees[At(t)])]
    BY <1>2 DEF Free
  <2>2. \A k \in Kinds : held'[t][k] = IF k \in Frees[At(t)] THEN 0 ELSE held[t][k]
    BY <1>0, <2>1 DEF Without
  <2>3. FreedBy(At(t)) = Frees[At(t)]
    BY <2>1 DEF FreedBy
  <2> QED
    BY <2>2, <2>3 DEF Passes
<1>3. CASE Keep(t)
  <2>1. /\ At(t) = "keep"
        /\ held' = [held EXCEPT ![t]["buf"] = @ + held[t]["dst"], ![t]["dst"] = 0]
    BY <1>3 DEF Keep
  <2>2. /\ held'[t]["dst"] = 0
        /\ \A k \in Kinds : k \notin {"dst", "buf"} => held'[t][k] = held[t][k]
    <3> DEFINE g == [held[t] EXCEPT !["buf"] = @ + held[t]["dst"]]
               h == [g EXCEPT !["dst"] = 0]
    <3>1. held' = [held EXCEPT ![t] = h]
      BY <1>0, <2>1
    <3>2. "dst" \in Kinds
      BY DEF Kinds, BufKinds
    <3>3. h["dst"] = 0 /\ \A k \in Kinds : k \notin {"dst", "buf"} => h[k] = held[t][k]
      BY <1>0, <3>2
    <3> HIDE DEF g, h
    <3> QED
      BY <1>0, <3>1, <3>3
  <2>3. "buf" \in MadeBy("keep") /\ \A k : k \in FreedBy("keep") => k = "dst"
    BY StepMakes, StepFrees
  <2>4. "buf" \in MadeBy(At(t)) /\ \A k : k \in FreedBy(At(t)) => k = "dst"
    BY <2>1, <2>3, Zenon
  <2>5. ASSUME NEW k \in Kinds, held'[t][k] > 0, k # "buf"
        PROVE  held[t][k] > 0 /\ k \notin FreedBy(At(t))
    <3>1. k # "dst"
      BY <2>2, <2>5
    <3>2. held'[t][k] = held[t][k]
      BY <2>2, <2>5, <3>1
    <3> QED
      BY <2>4, <2>5, <3>1, <3>2
  <2> QED
    BY <2>4, <2>5 DEF Passes
<1>4. CASE Unlock(t) \/ Submit(t) \/ Wait(t) \/ ResetPool(t) \/ Plain(t) \/ AllocSet(t)
  <2>1. /\ At(t) \in {"unlock", "submit", "wait", "reset", "push", "read", "ticks", "set"}
        /\ held' = held
    BY <1>4 DEF Unlock, Submit, Wait, ResetPool, Plain, AllocSet, driver
  <2>2. \A k : k \notin FreedBy(At(t))
    BY <2>1, StepFrees
  <2> QED
    BY <2>1, <2>2 DEF Passes
<1> QED
  BY <1>1, <1>2, <1>3, <1>4

\* Such a step leaves the call with what it may hold one position on.
LEMMA PassesHolds ==
  ASSUME IInv, NEW t \in Thread, At(t) \notin {"idle", "return"}, Passes(t),
         HoldsOnly(call[t], held[t]), NEW c, c.op = call[t].op, c.ok = call[t].ok,
         c.pc = call[t].pc + 1
  PROVE  HoldsOnly(c, held'[t])
<1>1. call[t].pc \in Nat /\ call[t].pc >= 1 /\ Op(t) \in Ops
  BY AtPosition, ScriptLenNat DEF IInv
<1>2. At(t) = Script[call[t].op][call[t].pc]
  BY AtPosition DEF IInv, Op
<1> SUFFICES ASSUME NEW k \in Kinds, held'[t][k] > 0, ~Strays(call[t], k)
             PROVE  MayHold(Script[call[t].op], call[t].pc + 1, k)
  BY DEF HoldsOnly, Strays
<1>3. \/ k \in MadeBy(At(t))
      \/ MayHold(Script[call[t].op], call[t].pc, k) /\ k \notin FreedBy(At(t))
  BY DEF Passes, HoldsOnly
<1> QED
  BY <1>1, <1>2, <1>3, HoldNext

LEMMA NothingHeld == \A c : HoldsOnly(c, Nothing)
  BY DEF HoldsOnly, Nothing

\* An error: out of the call with nothing, or to bench_kernel's clean-up.
LEMMA FaultHolds ==
  ASSUME HInv, NEW t \in Thread, Fault(t)
  PROVE  HoldsOnly(call'[t], held'[t]) /\ FailedLate(call'[t])
<1>0. /\ IInv /\ call \in [Thread -> CallRecord] /\ held \in [Thread -> [Kinds -> Nat]]
      /\ HoldsOnly(call[t], held[t])
  BY DEF HInv, HoldOK, BInv, PInv, IInv, CallOK, DriverOK
<1>1. CASE ~InBenchLoop(t)
  <2>1. call'[t] = NoCall /\ held'[t] = Nothing
    BY <1>0, <1>1 DEF Fault, Leave
  <2> QED
    BY <2>1, NothingHeld DEF FailedLate, NoCall
<1>2. CASE InBenchLoop(t)
  <2> DEFINE c == FailedAt(call[t], BenchCleanup)
  <2>1. call' = [call EXCEPT ![t] = c] /\ held' = held
    <3>1. /\ call' = [call EXCEPT ![t] = [@ EXCEPT !.pc = BenchCleanup, !.ok = FALSE]]
          /\ UNCHANGED driver
      BY <1>2, Zenon DEF Fault
    <3>2. call' = [call EXCEPT ![t] = c]
      BY <3>1, Zenon DEF FailedAt
    <3> QED
      BY <3>1, <3>2 DEF driver
  <2>2. call[t].pc \in 29..33 /\ BenchCleanup = 34 /\ call[t].op = "bench"
        /\ Script["bench"] = BenchKernel
    BY <1>0, <1>2, BenchLoopAt, CleanupAt, ScriptOf DEF InBenchLoop, Op, IInv
  <2>3. c.pc = 34 /\ c.op = "bench"
    BY <1>0, <2>2, FailedType
  <2>4. c.ok = FALSE
    BY <1>0 DEF FailedAt, CallRecord
  <2> HIDE DEF c
  <2>5. ASSUME NEW k \in Kinds, held[t][k] > 0
        PROVE  MayHold(BenchKernel, 34, k) \/ k = "cb"
    BY <1>0, <2>2, <2>5, BenchStrays DEF HoldsOnly, Strays
  <2>6. HoldsOnly(c, held[t]) /\ FailedLate(c)
    BY <2>2, <2>3, <2>4, <2>5 DEF HoldsOnly, Strays, FailedLate
  <2>7. call'[t] = c /\ held'[t] = held[t]
    BY <1>0, <2>1
  <2> QED
    BY <2>6, <2>7
<1> QED
  BY <1>1, <1>2

LEMMA NextHInv == HInv /\ [Next]_vars => HInv'
<1> SUFFICES ASSUME HInv, [Next]_vars PROVE HoldOK'
  BY NextBInv DEF HInv
<1>0. /\ IInv /\ IInv' /\ DriverOK
      /\ call \in [Thread -> CallRecord] /\ held \in [Thread -> [Kinds -> Nat]]
      /\ \A u \in Thread : HoldsOnly(call[u], held[u]) /\ FailedLate(call[u])
  BY NextIInv DEF HInv, HoldOK, BInv, PInv, IInv, CallOK, DriverOK
<1>1. CASE UNCHANGED vars
  BY <1>0, <1>1 DEF HoldOK, HoldsOnly, FailedLate, Strays, MayHold, vars, driver
<1>2. ASSUME NEW t \in Thread, HoldsOnly(call'[t], held'[t]), FailedLate(call'[t]),
             \A u \in Thread \ {t} : call'[u] = call[u] /\ held'[u] = held[u]
      PROVE  HoldOK'
  <2>1. ASSUME NEW u \in Thread PROVE HoldsOnly(call'[u], held'[u]) /\ FailedLate(call'[u])
    BY <1>0, <1>2
  <2> QED
    BY <2>1 DEF HoldOK, HoldsOnly, FailedLate, Strays, MayHold
<1>3. ASSUME NEW t \in Thread, Advance(t), Passes(t), At(t) \notin {"idle", "return"}
      PROVE  HoldsOnly(call'[t], held'[t]) /\ FailedLate(call'[t])
  <2>1. call' = [call EXCEPT ![t] = [call[t] EXCEPT !.pc = call[t].pc + 1]]
    BY <1>3 DEF Advance
  <2>2. /\ call'[t].op = call[t].op /\ call'[t].ok = call[t].ok
        /\ call'[t].pc = call[t].pc + 1 /\ call[t].pc \in Nat
    BY <1>0, <2>1 DEF CallRecord
  <2>3. HoldsOnly(call'[t], held'[t])
    BY <1>0, <1>3, <2>2, PassesHolds
  <2>4. FailedLate(call'[t])
    BY <1>0, <2>2 DEF FailedLate
  <2> QED
    BY <2>3, <2>4
<1>4. ASSUME NEW t \in Thread, Step(t) \/ Fail(t) PROVE HoldOK'
  <2>1. \A u \in Thread \ {t} : call'[u] = call[u] /\ held'[u] = held[u]
    BY <1>0, <1>4, OthersStay, HeldKeeps
  <2>2. CASE Return(t)
    <3>1. call'[t] = NoCall /\ held'[t] = Nothing
      BY <1>0, <2>2 DEF Return, Leave
    <3>2. FailedLate(NoCall)
      BY DEF FailedLate, NoCall
    <3> QED
      BY <1>2, <2>1, <3>1, <3>2, NothingHeld
  <2>3. CASE Refuse(t) \/ Fail(t)
    BY <1>2, <2>1, <2>3, FaultHolds DEF Refuse, Fail
  <2>4. CASE AllocSet(t)
    <3> DEFINE c == call'[t]
    <3>1. /\ At(t) = "set" /\ UNCHANGED held
          /\ call' = [call EXCEPT ![t] = Granted(call[t], call[t].left - 1,
                        IF call[t].left > 1 THEN call[t].pc ELSE call[t].pc + 1)]
      BY <2>4, Zenon DEF AllocSet, Granted
    <3>2. /\ c.op = call[t].op /\ c.ok = call[t].ok /\ call[t].pc \in Nat
          /\ c.pc = call[t].pc \/ c.pc = call[t].pc + 1
      BY <1>0, <3>1 DEF Granted, CallRecord
    <3>3. Passes(t)
      BY <1>0, <2>4, <3>1, StepPasses
    <3> HIDE DEF c
    <3>4. HoldsOnly(c, held'[t])
      <4>1. CASE c.pc = call[t].pc
        BY <1>0, <3>1, <3>2, <4>1 DEF HoldsOnly, Strays
      <4>2. CASE c.pc = call[t].pc + 1
        BY <1>0, <3>1, <3>2, <3>3, <4>2, PassesHolds
      <4> QED
        BY <3>2, <4>1, <4>2
    <3>5. FailedLate(c)
      BY <1>0, <3>2 DEF FailedLate
    <3> QED
      BY <1>2, <2>1, <3>4, <3>5 DEF c
  <2>5. CASE \/ Unlock(t) \/ Make(t) \/ Free(t) \/ Keep(t) \/ Submit(t) \/ Wait(t)
             \/ ResetPool(t) \/ Plain(t)
    <3>1. Advance(t) /\ At(t) \notin {"idle", "return", "lock"}
      BY <2>5 DEF Unlock, Make, Makes, PipeKinds, BufKinds, Free, Frees, Keep, Submit, Wait,
                  ResetPool, Plain
    <3>2. Passes(t)
      BY <1>0, <2>5, <3>1, StepPasses
    <3> QED
      BY <1>2, <1>3, <2>1, <3>1, <3>2
  <2> QED
    BY <1>4, <2>2, <2>3, <2>4, <2>5 DEF Step
<1>5. ASSUME NEW t \in Thread, Lock(t) PROVE HoldOK'
  <2>1. At(t) = "lock" /\ Advance(t) /\ held' = held
    BY <1>5 DEF Lock, driver
  <2>2. Passes(t)
    BY <2>1, StepFrees DEF Passes
  <2>3. \A u \in Thread \ {t} : call'[u] = call[u] /\ held'[u] = held[u]
    BY <1>0, <1>5, <2>1, CallerSteps
  <2> QED
    BY <1>2, <1>3, <2>1, <2>2, <2>3
<1>6. ASSUME NEW t \in Thread, FreeRaw(t) PROVE HoldOK'
  BY <1>0, <1>6 DEF FreeRaw, HoldOK, HoldsOnly, FailedLate, Strays, MayHold
<1>7. ASSUME NEW t \in Thread, NEW o \in Ops, NEW w \in Widths \union {1, 2},
             NEW n \in 1..MaxItems, Call(t, o, w, n)
      PROVE  HoldOK'
  <2>1. /\ call'[t].ok = TRUE /\ \A u \in Thread \ {t} : call'[u] = call[u]
        /\ held' = held /\ call[t].pc = 0
    BY <1>0, <1>7 DEF Call, driver
  <2>2. \A k \in Kinds : held[t][k] > 0 => Strays(call[t], k)
    BY <1>0, <2>1 DEF HoldsOnly, MayHold
  <2>3. call[t].ok
    BY <1>0, <2>1 DEF FailedLate, CallRecord
  <2>4. HoldsOnly(call'[t], held'[t]) /\ FailedLate(call'[t])
    BY <2>1, <2>2, <2>3 DEF HoldsOnly, Strays, FailedLate
  <2> QED
    BY <1>2, <2>1, <2>4
<1> QED
  BY <1>1, <1>4, <1>5, <1>6, <1>7 DEF Next

\* What the calls leave behind, on every path and for every number of threads:
\* a call that returns holds only what it gives its caller, a failing compile
\* nothing, a resident dispatch at most its command buffer, run_kernel its
\* pipeline objects but no buffer (the KNOWN LIMIT at mod.rs:881); the clean-up
\* of bench_kernel frees all but the command buffer its loop failed at.
THEOREM LostAtMost == Spec => []ErrorsLoseAtMost
<1>1. Init => HInv
  <2> SUFFICES ASSUME Init PROVE HoldOK
    BY InitBInv DEF HInv
  <2>1. FailedLate(NoCall)
    BY DEF FailedLate, NoCall
  <2> QED
    BY <2>1, NothingHeld DEF Init, HoldOK
<1>2. Spec => []HInv
  BY <1>1, NextHInv, PTL DEF Spec
<1> QED
  BY <1>2, HeldLosesAtMost, PTL
=============================================================================
