------------------------- MODULE CudaDispatchProofs -------------------------
(***************************************************************************)
(* What CudaDispatch promises of every number of threads, buffers and      *)
(* inputs.  The argument follows the memory through the stream: After(k)   *)
(* is what the first k works enqueued leave, and every call knows of it    *)
(* only what happens to the buffers it holds.  Executing a work moves the  *)
(* whole trajectory by one, enqueueing one extends it at the end, where    *)
(* only the buffer written to changes; whoever has a buffer by the time    *)
(* the device gets to it plays no part.                                    *)
(***************************************************************************)
EXTENDS CudaDispatch, SharedFacts, SequenceTheorems

After(k) == MemoryAfter(memory, stream)[k]
Final    == After(Len(stream))

(* Every lease belongs to one place in one call's list.                    *)
NoTwice(s) == \A i, j \in DOMAIN s : s[i] = s[j] => i = j
ListedOnce == \A t \in Threads : NoTwice(bufs[t])
OneCalls   == \A t, u \in Threads : t # u => ToSet(bufs[t]) \cap ToSet(bufs[u]) = {}
NotLost    == \A t \in Threads : ToSet(bufs[t]) \cap lost = {}
Leases     == OnlyPointerArraysLeak /\ ListedOnce /\ OneCalls /\ NotLost

(* How far a call has come says what it holds.                             *)
Uploading == {"memset", "copy", "uploaded"}
Running   == {"launch", "launched", "download"}
Shaped(t) ==
  /\ pc[t] = "idle" => bufs[t] = <<>> /\ call[t] = NoCall
  /\ pc[t] # "idle" => call[t] \in Calls
  /\ pc[t] = "alloc" => Len(bufs[t]) < (IF Kind(t) = "gemm" THEN 1 ELSE Inputs + 1)
  /\ pc[t] \in Uploading => Kind(t) = "kernel" /\ Len(bufs[t]) \in 1..(Inputs + 1)
  /\ pc[t] \in Running => Kind(t) = "kernel" /\ Complete(t)
  /\ pc[t] \in {"pointers", "gemm"} => Kind(t) = "gemm" /\ Len(bufs[t]) = 1
  /\ result[t] # NoResult => pc[t] = "drop"

(* What a call knows of the memory once all work enqueued is done: its     *)
(* first k buffers hold its input, with zeroes behind.                     *)
Holds(t, k) ==
  \A j \in 1..k : Final[bufs[t][j]] = [payload |-> Bytes(Arg(t)), slack |-> Zero]

Prepared(t) ==
  /\ pc[t] = "alloc" /\ Kind(t) = "kernel" => Holds(t, Len(bufs[t]))
  /\ pc[t] \in {"memset", "copy"} => Holds(t, Len(bufs[t]) - 1)
  /\ pc[t] = "copy" => Final[Last(bufs[t])].slack = Zero
  /\ pc[t] = "uploaded" => Holds(t, IF Complete(t) THEN Inputs ELSE Len(bufs[t]))
  /\ pc[t] \in Running => Holds(t, Inputs)
  /\ pc[t] = "gemm" => Final[Head(bufs[t])].payload = Bytes(Arg(t))

(* From the work its synchronize waits for on, a launched kernel's output  *)
(* is in place.                                                            *)
OutputInPlace(t) ==
  pc[t] \in {"launched", "download"} =>
    \A k \in wait[t]..Len(stream) : After(k)[Last(bufs[t])].payload = Output(Arg(t))

Waits(t) == wait[t] <= Len(stream)

ThreadOK(t) == Shaped(t) /\ Prepared(t) /\ OutputInPlace(t) /\ Waits(t)

IInv ==
  /\ TypeOK
  /\ Leases
  /\ \A t \in Threads : ThreadOK(t)
  /\ GemmsReadTheirPointers
  /\ TailsReadZeros
  /\ ResultsAreTheCalls

---------------------------------------------------------------------------
(* Lists of buffers *)

LEMMA AppendedList ==
  ASSUME NEW S, NEW s \in Seq(S), NEW p \in S, p \notin ToSet(s), NoTwice(s)
  PROVE  /\ Append(s, p) \in Seq(S) /\ Len(Append(s, p)) = Len(s) + 1
         /\ ToSet(Append(s, p)) = ToSet(s) \cup {p}
         /\ NoTwice(Append(s, p))
         /\ Last(Append(s, p)) = p
         /\ \A i \in 1..Len(s) : Append(s, p)[i] = s[i]
<1> DEFINE r == Append(s, p)
<1>1. r \in Seq(S) /\ Len(r) = Len(s) + 1 /\ DOMAIN r = 1..(Len(s) + 1) /\ DOMAIN s = 1..Len(s)
  OBVIOUS
<1>2. \A i \in 1..Len(s) : r[i] = s[i]
  OBVIOUS
<1>3. r[Len(s) + 1] = p
  OBVIOUS
<1>4. Len(s) \in Nat
  OBVIOUS
<1> HIDE DEF r
<1>5. \A i \in DOMAIN r : i \in 1..Len(s) \/ i = Len(s) + 1
  BY <1>1, <1>4
<1>6. \A i \in 1..Len(s) : i \in DOMAIN r
  BY <1>1, <1>4
<1>7. ToSet(r) = ToSet(s) \cup {p}
  BY <1>1, <1>2, <1>3, <1>5, <1>6 DEF ToSet
<1>8. NoTwice(r)
  BY <1>1, <1>2, <1>3, <1>5, <1>6 DEF ToSet, NoTwice
<1> QED
  BY <1>1, <1>2, <1>3, <1>7, <1>8 DEF r, Last

LEMMA TailList ==
  ASSUME NEW S, NEW s \in Seq(S), s # <<>>, NoTwice(s)
  PROVE  /\ Tail(s) \in Seq(S) /\ Len(Tail(s)) = Len(s) - 1
         /\ Head(s) \in ToSet(s) /\ Head(s) \in S
         /\ ToSet(Tail(s)) = ToSet(s) \ {Head(s)}
         /\ NoTwice(Tail(s))
<1> DEFINE r == Tail(s)
<1>1. r \in Seq(S) /\ Len(r) = Len(s) - 1 /\ DOMAIN r = 1..(Len(s) - 1) /\ DOMAIN s = 1..Len(s)
  OBVIOUS
<1>2. \A i \in 1..(Len(s) - 1) : r[i] = s[i + 1]
  OBVIOUS
<1>3. Head(s) = s[1] /\ Len(s) \in Nat \ {0} /\ s[1] \in S
  OBVIOUS
<1> HIDE DEF r
<1>4. \A i \in DOMAIN s : i = 1 \/ (i - 1 \in DOMAIN r /\ s[i] = r[i - 1])
  BY <1>1, <1>2, <1>3
<1>5. \A i \in DOMAIN r : i + 1 \in DOMAIN s /\ i + 1 # 1 /\ r[i] = s[i + 1]
  BY <1>1, <1>2, <1>3
<1>6. ToSet(r) = ToSet(s) \ {Head(s)}
  <2>1. \A i \in DOMAIN r : r[i] \in ToSet(s) /\ r[i] # s[1]
    BY <1>1, <1>3, <1>5 DEF ToSet, NoTwice
  <2>2. \A i \in DOMAIN s : s[i] # s[1] => s[i] \in ToSet(r)
    BY <1>4 DEF ToSet
  <2> QED
    BY <1>3, <2>1, <2>2 DEF ToSet
<1>7. NoTwice(r)
  <2>1. SUFFICES ASSUME NEW i \in DOMAIN r, NEW j \in DOMAIN r, r[i] = r[j] PROVE i = j
    BY DEF NoTwice
  <2>2. s[i + 1] = s[j + 1] /\ i + 1 \in DOMAIN s /\ j + 1 \in DOMAIN s
    BY <1>5, <2>1
  <2>3. i + 1 = j + 1
    BY <2>2 DEF NoTwice
  <2> QED
    BY <1>1, <2>3
<1>8. s[1] \in ToSet(s)
  BY <1>1, <1>3 DEF ToSet
<1> QED
  BY <1>1, <1>3, <1>6, <1>7, <1>8 DEF r

(* The last buffer moved to the front, as a failing upload drops them.     *)
LEMMA RotatedList ==
  ASSUME NEW S, NEW s \in Seq(S), s # <<>>, NoTwice(s)
  PROVE  LET r == <<Last(s)>> \o Front(s) IN
         /\ r \in Seq(S) /\ Len(r) = Len(s)
         /\ ToSet(r) = ToSet(s)
         /\ NoTwice(r)
<1> DEFINE f == SubSeq(s, 1, Len(s) - 1)
           one == <<s[Len(s)]>>
           r == one \o f
<1>1. Len(s) \in Nat \ {0} /\ DOMAIN s = 1..Len(s) /\ s[Len(s)] \in S
  OBVIOUS
<1>2. f \in Seq(S) /\ Len(f) = Len(s) - 1
  BY <1>1
<1>3. \A i \in 1..(Len(s) - 1) : f[i] = s[i]
  BY <1>1
<1>4. one \in Seq(S) /\ Len(one) = 1 /\ one[1] = s[Len(s)]
  BY <1>1
<1> HIDE DEF f, one
<1>5. /\ r \in Seq(S) /\ Len(r) = Len(one) + Len(f)
      /\ \A i \in 1..Len(one) + Len(f) : r[i] = IF i <= Len(one) THEN one[i] ELSE f[i - Len(one)]
  BY <1>2, <1>4, ConcatProperties
<1> HIDE DEF r
<1>6. Len(r) = Len(s) /\ DOMAIN r = 1..Len(s)
  BY <1>1, <1>2, <1>4, <1>5
<1>7. r[1] = s[Len(s)] /\ \A i \in 2..Len(s) : r[i] = s[i - 1]
  BY <1>1, <1>2, <1>3, <1>4, <1>5
<1> DEFINE back(i) == IF i = 1 THEN Len(s) ELSE i - 1
<1>8. \A i \in DOMAIN r : back(i) \in DOMAIN s /\ r[i] = s[back(i)]
  BY <1>1, <1>6, <1>7
<1>9. \A i, j \in DOMAIN r : back(i) = back(j) => i = j
  BY <1>1, <1>6
<1>10. \A i \in DOMAIN s : \E j \in DOMAIN r : back(j) = i
  <2>1. SUFFICES ASSUME NEW i \in DOMAIN s PROVE \E j \in DOMAIN r : back(j) = i
    OBVIOUS
  <2>2. CASE i = Len(s)
    BY <1>1, <1>6, <2>2
  <2>3. CASE i # Len(s)
    <3>1. i + 1 \in DOMAIN r /\ back(i + 1) = i
      BY <1>1, <1>6, <2>3
    <3> QED
      BY <3>1
  <2> QED
    BY <2>2, <2>3
<1> HIDE DEF back
<1>11. ToSet(r) = ToSet(s)
  BY <1>8, <1>10 DEF ToSet
<1>12. NoTwice(r)
  BY <1>8, <1>9 DEF NoTwice
<1> QED
  BY <1>5, <1>6, <1>11, <1>12 DEF r, one, f, Last, Front

---------------------------------------------------------------------------
(* What a work writes *)

LEMMA FunctionIsSeq ==
  ASSUME NEW S, NEW n \in Nat, NEW f \in [1..n -> S]
  PROVE  f \in Seq(S) /\ Len(f) = n /\ DOMAIN f = 1..n
<1>1. f \in Seq(S)
  BY SeqDef
<1>2. Len(f) \in Nat /\ DOMAIN f = 1..Len(f)
  BY <1>1, LenProperties
<1> QED
  BY <1>1, <1>2

Ops == {"memset", "input", "seed", "kernel", "gemm"}

LEMMA WorkParts ==
  ASSUME NEW w \in Works
  PROVE  /\ w.op \in Ops
         /\ w.on \in Seq(Ptrs) /\ Len(w.on) \in Nat \ {0} /\ Last(w.on) \in Ptrs
         /\ w.op = "kernel" => Len(w.on) = Inputs + 1
         /\ w.op # "kernel" => Len(w.on) = 1
         /\ w.op \in {"input", "gemm"} => w.for \in Args
<1>1. Inputs \in Nat
  BY DispatchAssumption
<1>2. CASE w.op = "kernel"
  <2>1. w.on \in [1..(Inputs + 1) -> Ptrs]
    BY <1>2 DEF Works
  <2>2. w.on \in Seq(Ptrs) /\ Len(w.on) = Inputs + 1
    BY <1>1, <2>1, FunctionIsSeq
  <2>3. Last(w.on) \in Ptrs
    BY <1>1, <2>1, <2>2 DEF Last
  <2> QED
    BY <1>1, <1>2, <2>2, <2>3 DEF Ops
<1>3. CASE w.op # "kernel"
  <2>1. w.on \in [1..1 -> Ptrs] /\ w.op \in Ops
    BY <1>3 DEF Works, Ops
  <2>2. w.on \in Seq(Ptrs) /\ Len(w.on) = 1
    BY <2>1, FunctionIsSeq
  <2>3. Last(w.on) \in Ptrs
    BY <2>1, <2>2 DEF Last
  <2>4. w.op \in {"input", "gemm"} => w.for \in Args
    BY DEF Works
  <2> QED
    BY <1>3, <2>1, <2>2, <2>3, <2>4
<1> QED
  BY <1>2, <1>3

LEMMA OneBufferWorks ==
  ASSUME NEW p \in Ptrs, NEW a \in Args
  PROVE  /\ Work("memset", <<p>>) \in Works /\ Work("seed", <<p>>) \in Works
         /\ WorkFor("input", <<p>>, a) \in Works /\ WorkFor("gemm", <<p>>, a) \in Works
         /\ Last(<<p>>) = p
<1>1. <<p>> \in [1..1 -> Ptrs] /\ Len(<<p>>) = 1
  OBVIOUS
<1> QED
  BY <1>1 DEF Work, WorkFor, Works, Last

LEMMA KernelWork ==
  ASSUME NEW s \in Seq(Ptrs), Len(s) = Inputs + 1
  PROVE  Work("kernel", s) \in Works
<1>1. s \in [1..(Inputs + 1) -> Ptrs]
  OBVIOUS
<1> QED
  BY <1>1 DEF Work, Works

LEMMA ComputedType == ASSUME NEW inputs PROVE Computed(inputs) \in Payloads
BY DEF Computed, Payloads

(* The inputs of one call determine its output.                            *)
LEMMA ComputedOfOne ==
  ASSUME NEW a \in Args PROVE Computed({Bytes(a)}) = Output(a)
<1>1. \A b \in Args : {Bytes(a)} = {Bytes(b)} => b = a
  <2>1. \A b \in Args : Bytes(a) = Bytes(b) => b = a
    BY DEF Bytes
  <2> QED
    BY <2>1, Zenon
<1> QED
  BY <1>1 DEF Computed

LEMMA EffectType ==
  ASSUME NEW mem \in Memories, NEW w \in Works
  PROVE  /\ Effect(mem, w) \in Memories
         /\ \A p \in Ptrs : p # Last(w.on) => Effect(mem, w)[p] = mem[p]
<1> DEFINE to == Last(w.on)
<1>1. w.op \in Ops /\ to \in Ptrs /\ (w.op \in {"input", "gemm"} => w.for \in Args)
  BY WorkParts
<1>2. /\ Junk \in Payloads /\ {Zero, Junk} = {Zero, Junk}
      /\ \A a \in Args : Bytes(a) \in Payloads
  BY DEF Payloads
<1> DEFINE Cell == [payload : Payloads, slack : {Zero, Junk}]
<1>3. ASSUME NEW c \in Cell PROVE [mem EXCEPT ![to] = c] \in Memories
  BY <1>1 DEF Memories
<1>4. mem[to] \in Cell
  BY <1>1 DEF Memories
<1>5. CASE w.op = "memset"
  <2>1. Effect(mem, w) = [mem EXCEPT ![to] = [payload |-> Junk, slack |-> Zero]]
    BY <1>5 DEF Effect
  <2>2. [payload |-> Junk, slack |-> Zero] \in Cell
    BY <1>2
  <2> QED
    BY <1>1, <1>3, <2>1, <2>2 DEF Memories
<1>6. CASE w.op = "input"
  <2>1. Effect(mem, w) = [mem EXCEPT ![to].payload = Bytes(w.for)]
    BY <1>6 DEF Effect
  <2>2. [mem[to] EXCEPT !.payload = Bytes(w.for)] \in Cell
    BY <1>1, <1>2, <1>4, <1>6
  <2> QED
    BY <1>1, <1>3, <2>1, <2>2 DEF Memories
<1>7. CASE w.op = "seed"
  <2>1. Effect(mem, w) = [mem EXCEPT ![to].payload = Junk]
    BY <1>7 DEF Effect
  <2>2. [mem[to] EXCEPT !.payload = Junk] \in Cell
    BY <1>2, <1>4
  <2> QED
    BY <1>1, <1>3, <2>1, <2>2 DEF Memories
<1>8. CASE w.op = "kernel"
  <2> DEFINE c == [payload |-> Computed({mem[w.on[k]].payload : k \in 1..Inputs}), slack |-> Junk]
  <2>1. Effect(mem, w) = [mem EXCEPT ![to] = c]
    BY <1>8 DEF Effect
  <2>2. c \in Cell
    BY ComputedType
  <2> HIDE DEF c
  <2> QED
    BY <1>1, <1>3, <2>1, <2>2 DEF Memories
<1>9. CASE w.op = "gemm"
  BY <1>9 DEF Effect
<1> QED
  BY <1>1, <1>5, <1>6, <1>7, <1>8, <1>9 DEF Ops

---------------------------------------------------------------------------
(* The memory along the stream *)

LEMMA MemoryAfterDef ==
  ASSUME NEW mem \in Memories, NEW works \in Seq(Works)
  PROVE  /\ MemoryAfter(mem, works)[0] = mem
         /\ \A k \in 0..Len(works) : MemoryAfter(mem, works)[k] \in Memories
         /\ \A k \in 1..Len(works) :
              MemoryAfter(mem, works)[k] = Effect(MemoryAfter(mem, works)[k - 1], works[k])
<1> DEFINE n == Len(works)
           Def(at) == [k \in 0..n |-> IF k = 0 THEN mem ELSE Effect(at[k - 1], works[k])]
           C == CHOOSE at : at = Def(at)
           F == [i \in Nat |-> [m \in Memories |->
                   IF i < n THEN Effect(m, works[i + 1]) ELSE m]]
<1>1. n \in Nat /\ \A k \in 1..n : works[k] \in Works
  OBVIOUS
<1>2. MemoryAfter(mem, works) = C
  BY DEF MemoryAfter
<1> HIDE DEF C
<1>3. \E at : at = Def(at)
  <2>1. F \in [Nat -> [Memories -> Memories]]
    <3>1. \A i \in Nat : i < n => i + 1 \in 1..n
      BY <1>1
    <3>2. \A i \in Nat, m \in Memories : i < n => Effect(m, works[i + 1]) \in Memories
      BY <1>1, <3>1, EffectType
    <3> QED
      BY <3>2
  <2>2. PICK g \in [Nat -> Memories] : Recurses(g, mem, F)
    <3> HIDE DEF F
    <3> QED
      BY <2>1, NatSetRecursion
  <2> DEFINE at == [k \in 0..n |-> g[k]]
  <2>3. \A k \in 0..n : k # 0 => k - 1 \in Nat /\ k - 1 \in 0..n /\ k - 1 < n /\ (k - 1) + 1 = k
    BY <1>1
  <2>4. ASSUME NEW k \in 0..n, k # 0 PROVE at[k] = Effect(at[k - 1], works[k])
    <3>1. g[(k - 1) + 1] = F[k - 1][g[k - 1]]
      BY <2>2, <2>3, <2>4 DEF Recurses
    <3>2. F[k - 1][g[k - 1]] = Effect(g[k - 1], works[(k - 1) + 1])
      BY <2>2, <2>3, <2>4
    <3> QED
      BY <2>3, <2>4, <3>1, <3>2
  <2>5. at[0] = mem
    BY <1>1, <2>2 DEF Recurses
  <2>6. \A k \in 0..n : at[k] = Def(at)[k]
    BY <2>4, <2>5
  <2>7. at = [k \in 0..n |-> at[k]] /\ Def(at) = [k \in 0..n |-> Def(at)[k]]
    OBVIOUS
  <2> HIDE DEF at, Def
  <2>8. at = Def(at)
    BY <2>6, <2>7, Zenon
  <2> QED
    BY <2>8
<1>4. C = Def(C)
  BY <1>3 DEF C
<1>5. C[0] = mem /\ \A k \in 1..n : C[k] = Effect(C[k - 1], works[k])
  <2>1. \A k \in 0..n : C[k] = Def(C)[k]
    BY <1>4
  <2> QED
    BY <1>1, <2>1
<1> DEFINE P == {k \in Nat : k <= n => C[k] \in Memories}
<1>6. 0 \in P
  BY <1>5
<1>7. ASSUME NEW k \in Nat, k \in P PROVE k + 1 \in P
  <2>1. CASE k + 1 <= n
    <3>1. C[k] \in Memories /\ k + 1 \in 1..n /\ (k + 1) - 1 = k
      BY <1>1, <1>7, <2>1
    <3>2. C[k + 1] = Effect(C[k], works[k + 1]) /\ works[k + 1] \in Works
      BY <1>1, <1>5, <3>1
    <3> QED
      BY <3>1, <3>2, EffectType
  <2> QED
    BY <2>1
<1>8. Nat \subseteq P
  <2> HIDE DEF P
  <2> QED
    BY <1>6, <1>7, NatSetInduction
<1>9. \A k \in 0..n : C[k] \in Memories
  BY <1>1, <1>8
<1> QED
  BY <1>2, <1>5, <1>9

(* Enqueueing extends the trajectory ...                                   *)
LEMMA MemoryAfterAppend ==
  ASSUME NEW mem \in Memories, NEW works \in Seq(Works), NEW w \in Works
  PROVE  /\ \A k \in 0..Len(works) : MemoryAfter(mem, Append(works, w))[k] = MemoryAfter(mem, works)[k]
         /\ MemoryAfter(mem, Append(works, w))[Len(works) + 1]
               = Effect(MemoryAfter(mem, works)[Len(works)], w)
<1> DEFINE n == Len(works)
           longer == Append(works, w)
           A == MemoryAfter(mem, longer)
           B == MemoryAfter(mem, works)
<1>1. longer \in Seq(Works) /\ Len(longer) = n + 1 /\ n \in Nat
      /\ (\A k \in 1..n : longer[k] = works[k]) /\ longer[n + 1] = w
  OBVIOUS
<1> HIDE DEF longer
<1>2. A[0] = mem /\ \A k \in 1..(n + 1) : A[k] = Effect(A[k - 1], longer[k])
  BY <1>1, MemoryAfterDef
<1>3. B[0] = mem /\ \A k \in 1..n : B[k] = Effect(B[k - 1], works[k])
  BY MemoryAfterDef
<1> HIDE DEF A, B
<1> DEFINE P == {k \in Nat : k <= n => A[k] = B[k]}
<1>4. 0 \in P
  BY <1>2, <1>3
<1>5. ASSUME NEW k \in Nat, k \in P PROVE k + 1 \in P
  <2>1. CASE k + 1 <= n
    <3>1. A[k] = B[k] /\ k + 1 \in 1..n /\ k + 1 \in 1..(n + 1) /\ (k + 1) - 1 = k
      BY <1>1, <1>5, <2>1
    <3>2. A[k + 1] = Effect(A[k], works[k + 1]) /\ B[k + 1] = Effect(B[k], works[k + 1])
      BY <1>1, <1>2, <1>3, <3>1
    <3> QED
      BY <3>1, <3>2
  <2> QED
    BY <2>1
<1>6. Nat \subseteq P
  <2> HIDE DEF P
  <2> QED
    BY <1>4, <1>5, NatSetInduction
<1>7. \A k \in 0..n : A[k] = B[k]
  BY <1>1, <1>6
<1>8. A[n + 1] = Effect(B[n], w)
  <2>1. n + 1 \in 1..(n + 1) /\ (n + 1) - 1 = n /\ n \in 0..n
    BY <1>1
  <2> QED
    BY <1>1, <1>2, <1>7, <2>1
<1> QED
  BY <1>7, <1>8 DEF A, B, longer

(* ... and executing moves it by one.                                      *)
LEMMA MemoryAfterTail ==
  ASSUME NEW mem \in Memories, NEW works \in Seq(Works), works # <<>>
  PROVE  \A k \in 0..(Len(works) - 1) :
           MemoryAfter(Effect(mem, Head(works)), Tail(works))[k] = MemoryAfter(mem, works)[k + 1]
<1> DEFINE n == Len(works)
           shorter == Tail(works)
           start == Effect(mem, Head(works))
           A == MemoryAfter(start, shorter)
           B == MemoryAfter(mem, works)
<1>1. shorter \in Seq(Works) /\ Len(shorter) = n - 1 /\ n \in Nat \ {0}
      /\ (\A k \in 1..(n - 1) : shorter[k] = works[k + 1]) /\ Head(works) = works[1]
      /\ works[1] \in Works
  OBVIOUS
<1>2. start \in Memories
  BY <1>1, EffectType
<1>3. B[0] = mem /\ \A k \in 1..n : B[k] = Effect(B[k - 1], works[k])
  BY MemoryAfterDef
<1>4. B[1] = start
  BY <1>1, <1>3
<1> HIDE DEF start, shorter
<1>5. A[0] = start /\ \A k \in 1..(n - 1) : A[k] = Effect(A[k - 1], shorter[k])
  BY <1>1, <1>2, MemoryAfterDef
<1> HIDE DEF A, B
<1> DEFINE P == {k \in Nat : k <= n - 1 => A[k] = B[k + 1]}
<1>6. 0 \in P
  BY <1>4, <1>5
<1>7. ASSUME NEW k \in Nat, k \in P PROVE k + 1 \in P
  <2>1. CASE k + 1 <= n - 1
    <3>1. A[k] = B[k + 1] /\ k + 1 \in 1..(n - 1) /\ (k + 1) + 1 \in 1..n
          /\ (k + 1) - 1 = k /\ ((k + 1) + 1) - 1 = k + 1
      BY <1>1, <1>7, <2>1
    <3>2. A[k + 1] = Effect(A[k], works[(k + 1) + 1])
      BY <1>1, <1>5, <3>1
    <3>3. B[(k + 1) + 1] = Effect(B[k + 1], works[(k + 1) + 1])
      BY <1>3, <3>1
    <3> QED
      BY <3>1, <3>2, <3>3
  <2> QED
    BY <2>1
<1>8. Nat \subseteq P
  <2> HIDE DEF P
  <2> QED
    BY <1>6, <1>7, NatSetInduction
<1>9. \A k \in 0..(n - 1) : A[k] = B[k + 1]
  BY <1>1, <1>8
<1> QED
  BY <1>9 DEF A, B, start, shorter

LEMMA StreamStays ==
  ASSUME UNCHANGED deviceVars
  PROVE  Len(stream') = Len(stream) /\ Final' = Final /\ \A k : After(k)' = After(k)
BY DEF deviceVars, After, Final

LEMMA StreamGrows ==
  ASSUME memory \in Memories, stream \in Seq(Works), NEW w \in Works,
         memory' = memory, stream' = Append(stream, w)
  PROVE  /\ Len(stream) \in Nat /\ Len(stream') = Len(stream) + 1
         /\ stream' \in Seq(Works)
         /\ stream'[Len(stream) + 1] = w
         /\ \A i \in 1..Len(stream) : stream'[i] = stream[i]
         /\ \A k \in 0..Len(stream) : After(k)' = After(k)
         /\ Final \in Memories /\ Final' \in Memories
         /\ Final' = Effect(Final, w)
         /\ \A p \in Ptrs : p # Last(w.on) => Final'[p] = Final[p]
<1>1. Len(stream) \in Nat /\ Len(stream') = Len(stream) + 1 /\ stream' \in Seq(Works)
      /\ stream'[Len(stream) + 1] = w /\ \A i \in 1..Len(stream) : stream'[i] = stream[i]
  OBVIOUS
<1>2. /\ \A k \in 0..Len(stream) : MemoryAfter(memory, stream')[k] = MemoryAfter(memory, stream)[k]
      /\ MemoryAfter(memory, stream')[Len(stream) + 1]
           = Effect(MemoryAfter(memory, stream)[Len(stream)], w)
  BY MemoryAfterAppend
<1>3. \A k \in 0..Len(stream) : After(k)' = After(k)
  BY <1>2 DEF After
<1>4. Final' = Effect(Final, w)
  BY <1>1, <1>2 DEF Final, After
<1>5. Final \in Memories
  BY <1>1, MemoryAfterDef DEF Final, After
<1> QED
  BY <1>1, <1>3, <1>4, <1>5, EffectType

LEMMA StreamMoves ==
  ASSUME memory \in Memories, stream \in Seq(Works), stream # <<>>,
         memory' = Effect(memory, Head(stream)), stream' = Tail(stream)
  PROVE  /\ Len(stream) \in Nat \ {0} /\ Len(stream') = Len(stream) - 1
         /\ memory' \in Memories /\ stream' \in Seq(Works)
         /\ \A i \in 1..(Len(stream) - 1) : stream'[i] = stream[i + 1]
         /\ \A k \in 0..(Len(stream) - 1) : After(k)' = After(k + 1)
         /\ Final' = Final
<1>1. Len(stream) \in Nat \ {0} /\ Len(stream') = Len(stream) - 1 /\ stream' \in Seq(Works)
      /\ (\A i \in 1..(Len(stream) - 1) : stream'[i] = stream[i + 1]) /\ Head(stream) \in Works
  OBVIOUS
<1>2. memory' \in Memories
  BY <1>1, EffectType
<1>3. \A k \in 0..(Len(stream) - 1) :
        MemoryAfter(memory', stream')[k] = MemoryAfter(memory, stream)[k + 1]
  BY MemoryAfterTail
<1>4. \A k \in 0..(Len(stream) - 1) : After(k)' = After(k + 1)
  BY <1>3 DEF After
<1>5. Final' = Final
  <2>1. Len(stream) - 1 \in 0..(Len(stream) - 1) /\ (Len(stream) - 1) + 1 = Len(stream)
    BY <1>1
  <2>2. MemoryAfter(memory', stream')[Len(stream) - 1] = MemoryAfter(memory, stream)[Len(stream)]
    BY <1>3, <2>1
  <2> QED
    BY <1>1, <2>2 DEF Final, After
<1> QED
  BY <1>1, <1>2, <1>4, <1>5

---------------------------------------------------------------------------
(* What each work leaves in the buffer it writes *)

LEMMA EffectOfUpload ==
  ASSUME NEW mem \in Memories, NEW p \in Ptrs, NEW a \in Args
  PROVE  /\ Effect(mem, Work("memset", <<p>>))[p].slack = Zero
         /\ Effect(mem, WorkFor("input", <<p>>, a))[p].payload = Bytes(a)
         /\ mem[p].slack = Zero =>
              Effect(mem, WorkFor("input", <<p>>, a))[p] = [payload |-> Bytes(a), slack |-> Zero]
<1>1. Last(<<p>>) = p
  BY OneBufferWorks
<1>2. p \in DOMAIN mem /\ mem[p] \in [payload : Payloads, slack : {Zero, Junk}]
  BY DEF Memories
<1>3. Effect(mem, Work("memset", <<p>>)) = [mem EXCEPT ![p] = [payload |-> Junk, slack |-> Zero]]
  BY <1>1 DEF Effect, Work
<1>4. Effect(mem, WorkFor("input", <<p>>, a)) = [mem EXCEPT ![p].payload = Bytes(a)]
  BY <1>1 DEF Effect, WorkFor
<1>5. Effect(mem, Work("memset", <<p>>))[p].slack = Zero
  BY <1>2, <1>3
<1>6. Effect(mem, WorkFor("input", <<p>>, a))[p] = [mem[p] EXCEPT !.payload = Bytes(a)]
  BY <1>2, <1>4
<1>7. [mem[p] EXCEPT !.payload = Bytes(a)].payload = Bytes(a)
  BY <1>2
<1>8. mem[p].slack = Zero =>
        [mem[p] EXCEPT !.payload = Bytes(a)] = [payload |-> Bytes(a), slack |-> Zero]
  BY <1>2
<1> QED
  BY <1>5, <1>6, <1>7, <1>8, Zenon

LEMMA EffectOfKernel ==
  ASSUME NEW mem \in Memories, NEW s \in Seq(Ptrs), Len(s) = Inputs + 1, NEW a \in Args,
         \A k \in 1..Inputs : mem[s[k]].payload = Bytes(a)
  PROVE  Effect(mem, Work("kernel", s))[Last(s)].payload = Output(a)
<1>1. Inputs \in Nat \ {0}
  BY DispatchAssumption
<1>2. {mem[s[k]].payload : k \in 1..Inputs} = {Bytes(a)}
  BY <1>1
<1>3. Last(s) \in Ptrs
  BY <1>1 DEF Last
<1>4. Last(s) \in DOMAIN mem
  BY <1>3 DEF Memories
<1>5. Effect(mem, Work("kernel", s)) =
        [mem EXCEPT ![Last(s)] =
           [payload |-> Computed({mem[s[k]].payload : k \in 1..Inputs}), slack |-> Junk]]
  BY DEF Effect, Work
<1>6. Effect(mem, Work("kernel", s))[Last(s)].payload = Computed({mem[s[k]].payload : k \in 1..Inputs})
  BY <1>4, <1>5
<1> QED
  BY <1>2, <1>6, ComputedOfOne

---------------------------------------------------------------------------
(* The works a call enqueues *)

LEMMA CallWorks ==
  ASSUME TypeOK, NEW t \in Threads, bufs[t] # <<>>, call[t] \in Calls
  PROVE  /\ Arg(t) \in Args /\ Last(bufs[t]) \in Ptrs /\ Last(bufs[t]) \in ToSet(bufs[t])
         /\ Head(bufs[t]) \in Ptrs /\ Head(bufs[t]) \in ToSet(bufs[t])
         /\ Work("memset", OnLast(t)) \in Works
         /\ Filling(t) \in Works
         /\ Filling(t) = IF Complete(t) THEN Work("seed", <<Last(bufs[t])>>)
                         ELSE WorkFor("input", <<Last(bufs[t])>>, Arg(t))
         /\ OnLast(t) = <<Last(bufs[t])>> /\ Last(OnLast(t)) = Last(bufs[t])
         /\ Complete(t) => Work("kernel", bufs[t]) \in Works
         /\ Len(bufs[t]) = 1 => /\ bufs[t] = <<Last(bufs[t])>> /\ Head(bufs[t]) = Last(bufs[t])
                                /\ WorkFor("input", bufs[t], Arg(t)) \in Works
                                /\ WorkFor("gemm", bufs[t], Arg(t)) \in Works
<1>1. bufs[t] \in Seq(Ptrs) /\ Len(bufs[t]) \in Nat \ {0} /\ DOMAIN bufs[t] = 1..Len(bufs[t])
  BY DEF TypeOK
<1>2. Last(bufs[t]) \in Ptrs /\ Last(bufs[t]) \in ToSet(bufs[t])
  BY <1>1 DEF Last, ToSet
<1>3. Head(bufs[t]) = bufs[t][1] /\ Head(bufs[t]) \in Ptrs /\ Head(bufs[t]) \in ToSet(bufs[t])
  BY <1>1 DEF ToSet
<1>4. Arg(t) \in Args
  BY DEF Arg, Calls
<1>5. /\ Work("memset", <<Last(bufs[t])>>) \in Works /\ Work("seed", <<Last(bufs[t])>>) \in Works
      /\ WorkFor("input", <<Last(bufs[t])>>, Arg(t)) \in Works
      /\ WorkFor("gemm", <<Last(bufs[t])>>, Arg(t)) \in Works
      /\ Last(<<Last(bufs[t])>>) = Last(bufs[t])
  BY <1>2, <1>4, OneBufferWorks
<1>6. OnLast(t) = <<Last(bufs[t])>>
  BY DEF OnLast
<1>7. Filling(t) = IF Complete(t) THEN Work("seed", <<Last(bufs[t])>>)
                   ELSE WorkFor("input", <<Last(bufs[t])>>, Arg(t))
  BY <1>6 DEF Filling
<1>8. Complete(t) => Work("kernel", bufs[t]) \in Works
  BY <1>1, KernelWork DEF Complete
<1>9. Len(bufs[t]) = 1 => bufs[t] = <<Last(bufs[t])>> /\ Head(bufs[t]) = Last(bufs[t])
  BY <1>1, <1>3 DEF Last
<1> QED
  BY <1>2, <1>3, <1>4, <1>5, <1>6, <1>7, <1>8, <1>9

LEMMA HasBuffers ==
  ASSUME NEW t, Shaped(t), pc[t] \in Uploading \cup Running \cup {"pointers", "gemm"}
  PROVE  bufs[t] # <<>> /\ call[t] \in Calls
<1>1. Inputs \in Nat \ {0}
  BY DispatchAssumption
<1>2. Len(<<>>) = 0
  OBVIOUS
<1>3. call[t] \in Calls
  BY DEF Shaped, Uploading, Running
<1>4. CASE pc[t] \in Uploading
  BY <1>1, <1>2, <1>3, <1>4 DEF Shaped
<1>5. CASE pc[t] \in Running
  <2>1. Len(bufs[t]) = Inputs + 1
    BY <1>5 DEF Shaped, Complete
  <2> QED
    BY <1>1, <1>2, <1>3, <2>1
<1>6. CASE pc[t] \in {"pointers", "gemm"}
  <2>1. Len(bufs[t]) = 1
    BY <1>6 DEF Shaped
  <2>2. ASSUME bufs[t] = <<>> PROVE FALSE
    <3>1. Len(bufs[t]) = 0
      BY <1>2, <2>2, Zenon
    <3> QED
      BY <2>1, <3>1
  <2> QED
    BY <1>3, <2>2
<1> QED
  BY <1>4, <1>5, <1>6

LEMMA NextWorks ==
  ASSUME TypeOK, NEW t \in Threads, Shaped(t)
  PROVE  /\ pc[t] = "memset" => Work("memset", OnLast(t)) \in Works
         /\ pc[t] = "copy" => Filling(t) \in Works
         /\ pc[t] = "launch" => Work("kernel", bufs[t]) \in Works
         /\ pc[t] = "download" => Last(bufs[t]) \in Ptrs
         /\ pc[t] = "pointers" => /\ WorkFor("input", bufs[t], Arg(t)) \in Works
                                  /\ Head(bufs[t]) \in Ptrs
         /\ pc[t] = "gemm" => WorkFor("gemm", bufs[t], Arg(t)) \in Works
<1>2. pc[t] \in Uploading \cup Running \cup {"pointers", "gemm"} => bufs[t] # <<>> /\ call[t] \in Calls
  BY HasBuffers
<1>3. /\ pc[t] \in Running => Complete(t)
      /\ pc[t] \in {"pointers", "gemm"} => Len(bufs[t]) = 1
  BY DEF Shaped
<1> QED
  BY <1>2, <1>3, CallWorks DEF Uploading, Running

---------------------------------------------------------------------------
(* Types *)

LEMMA TypeStep ==
  ASSUME TypeOK, ListedOnce, \A t \in Threads : Shaped(t), Next
  PROVE  TypeOK'
<1>w. \A t \in Threads :
         /\ pc[t] = "memset" => Work("memset", OnLast(t)) \in Works
         /\ pc[t] = "copy" => Filling(t) \in Works
         /\ pc[t] = "launch" => Work("kernel", bufs[t]) \in Works
         /\ pc[t] = "download" => Last(bufs[t]) \in Ptrs
         /\ pc[t] = "pointers" => /\ WorkFor("input", bufs[t], Arg(t)) \in Works
                                  /\ Head(bufs[t]) \in Ptrs
         /\ pc[t] = "gemm" => WorkFor("gemm", bufs[t], Arg(t)) \in Works
  BY NextWorks
<1> USE DEF TypeOK
<1>0. Inputs \in Nat \ {0}
  BY DispatchAssumption
<1>1. ASSUME NEW t \in Threads, NEW c \in Calls, Enter(t, c) PROVE TypeOK'
  BY <1>1 DEF Enter, Goto, deviceVars
<1>2. ASSUME NEW t \in Threads, NEW p \in Ptrs, Alloc(t, p) PROVE TypeOK'
  <2>1. /\ Append(bufs[t], p) \in Seq(Ptrs)
        /\ Len(Append(bufs[t], p)) <= Inputs + 1
    BY <1>0, <1>2 DEF Alloc, Shaped
  <2> QED
    BY <1>2, <2>1 DEF Alloc, Goto, deviceVars
<1>3. ASSUME NEW t \in Threads, Fail(t) PROVE TypeOK'
  <2>1. bufs'[t] \in Seq(Ptrs) /\ Len(bufs'[t]) <= Inputs + 1
    <3>1. CASE pc[t] \in Uploading
      <4>1. bufs[t] # <<>> /\ NoTwice(bufs[t]) /\ bufs[t] \in Seq(Ptrs) /\ Len(bufs[t]) <= Inputs + 1
        BY <3>1 DEF Shaped, ListedOnce
      <4>2. bufs'[t] = OnLast(t) \o Front(bufs[t])
        BY <1>3, <3>1 DEF Fail, Uploading
      <4>3. bufs'[t] = <<Last(bufs[t])>> \o Front(bufs[t])
        BY <4>2 DEF OnLast
      <4> QED
        BY <4>1, <4>3, RotatedList
    <3>2. CASE pc[t] \notin Uploading
      BY <1>3, <3>2 DEF Fail, Uploading
    <3> QED
      BY <3>1, <3>2
  <2>2. bufs' = [bufs EXCEPT ![t] = bufs'[t]]
    BY <1>3 DEF Fail
  <2>3. wait' \in [Threads -> Nat]
    BY <1>3 DEF Fail
  <2>4. bufs' \in [Threads -> Seq(Ptrs)] /\ \A u \in Threads : Len(bufs'[u]) <= Inputs + 1
    BY <2>1, <2>2
  <2> QED
    BY <1>3, <2>3, <2>4 DEF Fail, Goto, deviceVars
<1>4. ASSUME NEW t \in Threads, DropBuffer(t) PROVE TypeOK'
  <2>1. CASE bufs[t] = <<>>
    BY <1>4, <2>1 DEF DropBuffer, Return, Goto, deviceVars
  <2>2. CASE bufs[t] # <<>>
    <3>1. Tail(bufs[t]) \in Seq(Ptrs) /\ Len(Tail(bufs[t])) <= Inputs + 1
      BY <1>0, <2>2
    <3> QED
      BY <1>4, <2>2, <3>1 DEF DropBuffer, deviceVars
  <2> QED
    BY <2>1, <2>2
<1>5. ASSUME NEW t \in Threads, Memset(t) PROVE TypeOK'
  <2>1. Work("memset", OnLast(t)) \in Works
    BY <1>w, <1>5 DEF Memset
  <2>2. stream' \in Seq(Works)
    BY <1>5, <2>1 DEF Memset, Enqueue
  <2> QED
    BY <1>5, <2>2 DEF Memset, Goto, callVars
<1>6. ASSUME NEW t \in Threads, Copy(t) PROVE TypeOK'
  <2>1. Filling(t) \in Works
    BY <1>w, <1>6 DEF Copy
  <2>2. stream' \in Seq(Works) /\ Len(stream) + 1 \in Nat
    BY <1>6, <2>1 DEF Copy, Enqueue
  <2> QED
    BY <1>6, <2>2 DEF Copy, Goto, WaitFor
<1>7. ASSUME NEW t \in Threads, Uploaded(t) PROVE TypeOK'
  BY <1>7 DEF Uploaded, Goto, deviceVars, callVars
<1>8. ASSUME NEW t \in Threads, Launch(t) PROVE TypeOK'
  <2>1. Work("kernel", bufs[t]) \in Works
    BY <1>w, <1>8 DEF Launch
  <2>2. stream' \in Seq(Works) /\ Len(stream) + 1 \in Nat
    BY <1>8, <2>1 DEF Launch, Enqueue
  <2> QED
    BY <1>8, <2>2 DEF Launch, Goto, WaitFor
<1>9. ASSUME NEW t \in Threads, Launched(t) PROVE TypeOK'
  <2>1. Len(stream) + 0 \in Nat
    OBVIOUS
  <2>2. wait' \in [Threads -> Nat]
    BY <1>9, <2>1 DEF Launched, WaitFor
  <2>3. pc' \in [Threads -> {"idle", "alloc", "drop", "memset", "copy", "uploaded",
                         "launch", "launched", "download", "pointers", "gemm"}]
    BY <1>9 DEF Launched, Goto
  <2> QED
    BY <1>9, <2>2, <2>3 DEF Launched, deviceVars
<1>10. ASSUME NEW t \in Threads, Download(t) PROVE TypeOK'
  <2>1. memory[Last(bufs[t])].payload \in Payloads
    <3>1. Last(bufs[t]) \in Ptrs
      BY <1>w, <1>10 DEF Download
    <3> QED
      BY <3>1 DEF Memories
  <2> QED
    BY <1>10, <2>1 DEF Download, Goto, deviceVars
<1>11. ASSUME NEW t \in Threads, GemmCopy(t) PROVE TypeOK'
  <2>1. WorkFor("input", bufs[t], Arg(t)) \in Works
    BY <1>w, <1>11 DEF GemmCopy
  <2>2. stream' \in Seq(Works)
    BY <1>11, <2>1 DEF GemmCopy, Enqueue
  <2> QED
    BY <1>11, <2>2 DEF GemmCopy, Goto, callVars
<1>12. ASSUME NEW t \in Threads, GemmCopyFails(t) PROVE TypeOK'
  <2>1. Head(bufs[t]) \in Ptrs
    BY <1>w, <1>12 DEF GemmCopyFails
  <2>2. <<>> \in Seq(Ptrs) /\ Len(<<>>) <= Inputs + 1
    BY <1>0
  <2> QED
    BY <1>12, <2>1, <2>2 DEF GemmCopyFails, Return, Goto, deviceVars
<1>13. ASSUME NEW t \in Threads, Gemm(t) PROVE TypeOK'
  <2>1. WorkFor("gemm", bufs[t], Arg(t)) \in Works
    BY <1>w, <1>13 DEF Gemm
  <2> DEFINE longer == Append(stream, WorkFor("gemm", bufs[t], Arg(t)))
  <2>2. longer \in Seq(Works) /\ (stream' = longer \/ stream' = stream)
    BY <1>13, <2>1 DEF Gemm, Enqueue
  <2> HIDE DEF longer
  <2>3. stream' \in Seq(Works)
    BY <2>2
  <2> QED
    BY <1>13, <2>3 DEF Gemm, Goto, callVars
<1>14. ASSUME Execute PROVE TypeOK'
  <2>1. memory' \in Memories /\ stream' \in Seq(Works)
    BY <1>14, StreamMoves DEF Execute
  <2>2. wait' \in [Threads -> Nat]
    BY <1>14 DEF Execute
  <2> QED
    BY <1>14, <2>1, <2>2 DEF Execute
<1> QED
  BY <1>1, <1>2, <1>3, <1>4, <1>5, <1>6, <1>7, <1>8, <1>9, <1>10, <1>11, <1>12, <1>13, <1>14 DEF Next

---------------------------------------------------------------------------
(* Leases: no step lets a buffer be listed twice, or a lease go unlisted   *)

LEMMA LeasesStep ==
  ASSUME TypeOK, Leases, \A t \in Threads : Shaped(t), Next
  PROVE  Leases'
<1> DEFINE B(u) == ToSet(bufs[u])
<1>1. \A t \in Threads : bufs[t] \in Seq(Ptrs)
  BY DEF TypeOK
<1>2. /\ held = lost \cup UNION {B(t) : t \in Threads}
      /\ \A t \in Threads : NoTwice(bufs[t])
      /\ \A t, u \in Threads : t # u => B(t) \cap B(u) = {}
      /\ \A t \in Threads : B(t) \cap lost = {}
  BY DEF Leases, OnlyPointerArraysLeak, ListedOnce, OneCalls, NotLost
<1>3. SUFFICES /\ held' = lost' \cup UNION {B(t)' : t \in Threads}
               /\ \A t \in Threads : NoTwice(bufs'[t])
               /\ \A t, u \in Threads : t # u => B(t)' \cap B(u)' = {}
               /\ \A t \in Threads : B(t)' \cap lost' = {}
  BY DEF Leases, OnlyPointerArraysLeak, ListedOnce, OneCalls, NotLost
<1> DEFINE Kept == /\ held' = lost' \cup UNION {B(t)' : t \in Threads}
                   /\ \A t \in Threads : NoTwice(bufs'[t])
                   /\ \A t, u \in Threads : t # u => B(t)' \cap B(u)' = {}
                   /\ \A t \in Threads : B(t)' \cap lost' = {}
(* A step that changes one call's list, and the lists' buffers no more     *)
(* than it changes the leases.                                             *)
<1>4. ASSUME NEW t \in Threads, NEW r, NEW add, NEW drop, NoTwice(r),
             bufs' = [bufs EXCEPT ![t] = r],
             add \cap held = {}, drop \subseteq B(t), ToSet(r) = (B(t) \cup add) \ drop,
             \/ held' = (held \cup add) \ drop /\ lost' = lost /\ add \cap drop = {}
             \/ held' = held /\ lost' = lost \cup drop /\ add = {}
      PROVE  Kept
  <2>1. bufs'[t] = r /\ \A u \in Threads \ {t} : bufs'[u] = bufs[u]
    BY <1>4 DEF TypeOK
  <2>2. B(t)' = (B(t) \cup add) \ drop /\ \A u \in Threads \ {t} : B(u)' = B(u)
    BY <1>4, <2>1
  <2>3. \A u \in Threads : NoTwice(bufs'[u])
    BY <1>2, <1>4, <2>1
  <2> DEFINE others == UNION {B(u) : u \in Threads \ {t}}
  <2>4. /\ UNION {B(u) : u \in Threads} = others \cup B(t)
        /\ UNION {B(u)' : u \in Threads} = others \cup B(t)'
    <3> HIDE DEF B
    <3> QED
      BY <2>2
  <2>5. others \cap B(t) = {} /\ others \subseteq held /\ B(t) \subseteq held
    <3> HIDE DEF B
    <3> QED
      BY <1>2
  <2>6. held' = lost' \cup UNION {B(u)' : u \in Threads}
    <3> HIDE DEF B, others
    <3>1. held = lost \cup others \cup B(t)
      BY <1>2, <2>4
    <3>2. B(t) \cap lost = {}
      BY <1>2
    <3>3. held' = lost' \cup others \cup B(t)'
      BY <1>4, <2>2, <2>5, <3>1, <3>2
    <3> QED
      BY <2>4, <3>3
  <2>7. \A u, v \in Threads : u # v => B(u)' \cap B(v)' = {}
    <3> HIDE DEF B
    <3>1. \A u \in Threads : B(u) \subseteq held
      BY <1>2
    <3>2. \A u \in Threads \ {t} : B(u)' \cap B(t)' = {}
      BY <1>2, <1>4, <2>2, <3>1
    <3>3. \A u, v \in Threads \ {t} : u # v => B(u)' \cap B(v)' = {}
      BY <1>2, <2>2
    <3> QED
      BY <3>2, <3>3
  <2>8. \A u \in Threads : B(u)' \cap lost' = {}
    <3> HIDE DEF B
    <3>1. \A u \in Threads : B(u) \subseteq held /\ B(u) \cap lost = {} /\ lost \subseteq held
      BY <1>2
    <3> QED
      BY <1>2, <1>4, <2>2, <3>1
  <2> QED
    BY <2>3, <2>6, <2>7, <2>8
<1>5. ASSUME UNCHANGED <<held, lost, bufs>> PROVE Kept
  <2> QED
    BY <1>2, <1>5
<1> HIDE DEF Kept, B
<1>6. ASSUME NEW t \in Threads, NEW p \in Ptrs, Alloc(t, p) PROVE Kept
  <2>1. p \notin B(t)
    BY <1>2, <1>6 DEF Alloc
  <2> DEFINE r == Append(bufs[t], p)
  <2>2. NoTwice(r) /\ ToSet(r) = B(t) \cup {p}
    BY <1>1, <1>2, <2>1, AppendedList DEF B
  <2>3. ToSet(r) = (B(t) \cup {p}) \ {}
    BY <2>2
  <2>4. /\ bufs' = [bufs EXCEPT ![t] = r] /\ {p} \cap held = {}
        /\ held' = (held \cup {p}) \ {} /\ lost' = lost /\ {p} \cap {} = {} /\ {} \subseteq B(t)
    BY <1>6 DEF Alloc
  <2> HIDE DEF r
  <2> QED
    BY <1>4, <2>2, <2>3, <2>4
<1>7. ASSUME NEW t \in Threads, Fail(t) PROVE Kept
  <2>1. CASE pc[t] \in Uploading
    <3> DEFINE r == <<Last(bufs[t])>> \o Front(bufs[t])
    <3>1. bufs[t] # <<>>
      <4>1. Len(<<>>) = 0
        OBVIOUS
      <4> QED
        BY <2>1, <4>1 DEF Shaped
    <3>2. NoTwice(r) /\ ToSet(r) = B(t)
      BY <1>1, <1>2, <3>1, RotatedList DEF B
    <3>3. /\ bufs' = [bufs EXCEPT ![t] = r]
          /\ held' = held /\ lost' = lost
      BY <1>7, <2>1 DEF Fail, Uploading, OnLast
    <3>4. ToSet(r) = (B(t) \cup {}) \ {}
      BY <3>2
    <3>5. {} \cap held = {} /\ {} \subseteq B(t) /\ held' = (held \cup {}) \ {} /\ {} \cap {} = {}
      BY <3>3
    <3> HIDE DEF r
    <3> QED
      BY <1>4, <3>2, <3>3, <3>4, <3>5
  <2>2. CASE pc[t] \notin Uploading
    <3>1. bufs' = bufs
      BY <1>7, <2>2 DEF Fail, Uploading, TypeOK
    <3> QED
      BY <1>5, <1>7, <3>1 DEF Fail
  <2> QED
    BY <2>1, <2>2
<1>8. ASSUME NEW t \in Threads, DropBuffer(t) PROVE Kept
  <2>1. CASE bufs[t] = <<>>
    <3>1. bufs' = bufs
      <4>1. bufs' = [bufs EXCEPT ![t] = bufs[t]]
        BY <1>8, <2>1, Zenon DEF DropBuffer, Return
      <4>2. bufs \in [Threads -> Seq(Ptrs)]
        BY DEF TypeOK
      <4> QED BY <4>1, <4>2
    <3> QED
      BY <1>5, <1>8, <2>1, <3>1 DEF DropBuffer
  <2>2. CASE bufs[t] # <<>>
    <3> DEFINE r == Tail(bufs[t])
               h == Head(bufs[t])
    <3>1. NoTwice(r) /\ ToSet(r) = B(t) \ {h} /\ h \in B(t)
      BY <1>1, <1>2, <2>2, TailList DEF B
    <3>2. /\ bufs' = [bufs EXCEPT ![t] = r]
          /\ held' = held \ {h} /\ lost' = lost
      BY <1>8, <2>2 DEF DropBuffer
    <3>3. ToSet(r) = (B(t) \cup {}) \ {h} /\ {h} \subseteq B(t)
          /\ held' = (held \cup {}) \ {h} /\ {} \cap {h} = {} /\ {} \cap held = {}
      BY <3>1, <3>2
    <3> HIDE DEF r, h
    <3> QED
      BY <1>4, <3>1, <3>2, <3>3
  <2> QED
    BY <2>1, <2>2
<1>9. ASSUME NEW t \in Threads, GemmCopyFails(t) PROVE Kept
  <2> DEFINE h == Head(bufs[t])
  <2>1. bufs[t] \in Seq(Ptrs) /\ Len(bufs[t]) = 1
    BY <1>1, <1>9 DEF GemmCopyFails, Shaped
  <2>2. B(t) = {h}
    <3>1. DOMAIN bufs[t] = {1} /\ h = bufs[t][1]
      BY <2>1
    <3> QED
      BY <3>1 DEF B, ToSet
  <2>3. /\ bufs' = [bufs EXCEPT ![t] = <<>>]
        /\ held' = held /\ lost' = lost \cup {h}
    BY <1>9 DEF GemmCopyFails, Return
  <2>4. NoTwice(<<>>) /\ ToSet(<<>>) = {}
    BY DEF NoTwice, ToSet
  <2> HIDE DEF h
  <2>5. ToSet(<<>>) = (B(t) \cup {}) \ {h} /\ {h} \subseteq B(t) /\ {} \cap held = {}
    BY <2>2, <2>4
  <2> QED
    BY <1>4, <2>3, <2>4, <2>5, ZenonT(60)
<1>10. ASSUME NEW t \in Threads, NEW c \in Calls, Enter(t, c) PROVE Kept
  BY <1>5, <1>10 DEF Enter
<1>11. ASSUME Execute PROVE Kept
  BY <1>5, <1>11 DEF Execute
<1>12. ASSUME NEW t \in Threads,
              \/ Memset(t) \/ Copy(t) \/ Uploaded(t) \/ Launch(t) \/ Launched(t)
              \/ Download(t) \/ GemmCopy(t) \/ Gemm(t)
       PROVE  Kept
  BY <1>5, <1>12 DEF Memset, Copy, Uploaded, Launch, Launched, Download, GemmCopy, Gemm, callVars
<1>13. Kept
  BY <1>6, <1>7, <1>8, <1>9, <1>10, <1>11, <1>12 DEF Next
<1> QED
  BY <1>13 DEF Kept

---------------------------------------------------------------------------
(* A call that takes no step knows what it knew, whatever the others       *)
(* enqueue on their own buffers.                                           *)

(* One work more, on buffers of another call.                              *)
GrowsApartFrom(u) ==
  /\ memory' = memory
  /\ \E w \in Works : stream' = Append(stream, w) /\ Last(w.on) \notin ToSet(bufs[u])

LEMMA BystanderOK ==
  ASSUME TypeOK, NEW u \in Threads, ThreadOK(u),
         pc'[u] = pc[u], call'[u] = call[u], bufs'[u] = bufs[u], wait'[u] = wait[u],
         result'[u] = result[u],
         UNCHANGED deviceVars \/ GrowsApartFrom(u)
  PROVE  ThreadOK(u)'
<1>1. bufs[u] \in Seq(Ptrs) /\ DOMAIN bufs[u] = 1..Len(bufs[u]) /\ Len(bufs[u]) \in Nat
      /\ wait[u] \in Nat /\ Inputs \in Nat \ {0}
  BY DispatchAssumption DEF TypeOK
<1>2. Shaped(u)'
  BY DEF ThreadOK, Shaped, Kind, Complete
<1>3. /\ Len(stream) \in Nat
      /\ Len(stream') = Len(stream) \/ Len(stream') = Len(stream) + 1
      /\ \A k \in 0..Len(stream) : After(k)' = After(k)
      /\ \A k : k = Len(stream') => After(k)' = Final'
      /\ \A i \in DOMAIN bufs[u] : Final'[bufs[u][i]] = Final[bufs[u][i]]
  <2>1. CASE UNCHANGED deviceVars
    <3>1. Len(stream) \in Nat
      BY DEF TypeOK
    <3>2. \A k : k = Len(stream') => After(k)' = Final'
      BY DEF Final, After
    <3> QED
      BY <2>1, <3>1, <3>2, StreamStays
  <2>2. CASE GrowsApartFrom(u)
    <3>1. PICK w \in Works : stream' = Append(stream, w) /\ Last(w.on) \notin ToSet(bufs[u])
      BY <2>2 DEF GrowsApartFrom
    <3>2. memory \in Memories /\ stream \in Seq(Works) /\ memory' = memory
      BY <2>2 DEF TypeOK, GrowsApartFrom
    <3>3. /\ Len(stream) \in Nat /\ Len(stream') = Len(stream) + 1
          /\ \A k \in 0..Len(stream) : After(k)' = After(k)
          /\ \A p \in Ptrs : p # Last(w.on) => Final'[p] = Final[p]
      BY <3>1, <3>2, StreamGrows
    <3>4. \A i \in DOMAIN bufs[u] : bufs[u][i] \in Ptrs /\ bufs[u][i] # Last(w.on)
      BY <1>1, <3>1 DEF ToSet
    <3>5. \A k : k = Len(stream') => After(k)' = Final'
      BY DEF Final, After
    <3> QED
      BY <3>3, <3>4, <3>5
  <2> QED
    BY <2>1, <2>2
<1>4. ASSUME NEW k, \A j \in 1..k : j \in DOMAIN bufs[u], Holds(u, k)
      PROVE  Holds(u, k)'
  BY <1>3, <1>4 DEF Holds, Arg
<1>5. Prepared(u)'
  <2>1. Shaped(u) /\ Prepared(u)
    BY DEF ThreadOK
  <2>2. pc[u] = "alloc" /\ Kind(u) = "kernel" => Holds(u, Len(bufs[u]))'
    BY <1>1, <1>4, <2>1 DEF Prepared
  <2>3. pc[u] \in {"memset", "copy"} => Holds(u, Len(bufs[u]) - 1)'
    BY <1>1, <1>4, <2>1 DEF Prepared
  <2>4. pc[u] = "copy" => Final'[Last(bufs[u])].slack = Zero
    BY <1>1, <1>3, <2>1 DEF Prepared, Shaped, Last, Uploading
  <2>5. pc[u] = "uploaded" => Holds(u, IF Complete(u) THEN Inputs ELSE Len(bufs[u]))'
    BY <1>1, <1>4, <2>1 DEF Prepared, Complete
  <2>6. pc[u] \in Running => Holds(u, Inputs)'
    BY <1>1, <1>4, <2>1 DEF Prepared, Shaped, Complete
  <2>7. pc[u] = "gemm" => Final'[Head(bufs[u])].payload = Bytes(Arg(u))
    BY <1>1, <1>3, <2>1 DEF Prepared, Shaped
  <2> QED
    BY <2>2, <2>3, <2>4, <2>5, <2>6, <2>7 DEF Prepared, Kind, Arg, Complete, Holds
<1>6. OutputInPlace(u)' /\ Waits(u)'
  <2>1. Shaped(u) /\ OutputInPlace(u) /\ Waits(u)
    BY DEF ThreadOK
  <2>2. Waits(u)'
    BY <1>1, <1>3, <2>1 DEF Waits
  <2>3. ASSUME pc[u] \in {"launched", "download"}, NEW k \in wait[u]..Len(stream')
        PROVE  After(k)'[Last(bufs[u])].payload = Output(Arg(u))
    <3>1. k \in wait[u]..Len(stream) \/ (k = Len(stream) + 1 /\ Len(stream') = Len(stream) + 1)
      BY <1>1, <1>3
    <3>2. Len(bufs[u]) \in DOMAIN bufs[u]
      BY <1>1, <2>1, <2>3 DEF Shaped, Running, Complete
    <3>3. CASE k \in wait[u]..Len(stream)
      BY <1>1, <1>3, <2>1, <2>3, <3>3 DEF OutputInPlace
    <3>4. CASE k = Len(stream) + 1 /\ Len(stream') = Len(stream) + 1
      <4>1. After(k)'[Last(bufs[u])] = Final[Last(bufs[u])]
        BY <1>3, <3>2, <3>4 DEF Last
      <4>2. Len(stream) \in wait[u]..Len(stream)
        BY <1>1, <1>3, <2>1 DEF Waits
      <4> QED
        BY <2>1, <2>3, <4>1, <4>2 DEF OutputInPlace, Final
    <3> QED
      BY <3>1, <3>3, <3>4
  <2> QED
    BY <2>2, <2>3 DEF OutputInPlace, Arg
<1> QED
  BY <1>2, <1>5, <1>6 DEF ThreadOK

---------------------------------------------------------------------------
(* A step of one call is no step of another                                *)

Acts(t) ==
  \/ \E c \in Calls : Enter(t, c)
  \/ \E p \in Ptrs : Alloc(t, p)
  \/ Fail(t) \/ DropBuffer(t)
  \/ Memset(t) \/ Copy(t) \/ Uploaded(t)
  \/ Launch(t) \/ Launched(t) \/ Download(t)
  \/ GemmCopy(t) \/ GemmCopyFails(t) \/ Gemm(t)

GrowsOn(t) ==
  /\ memory' = memory
  /\ \E w \in Works : stream' = Append(stream, w) /\ Last(w.on) \in ToSet(bufs[t])

LEMMA OwnWorks ==
  ASSUME TypeOK, NEW t \in Threads, Shaped(t), Acts(t)
  PROVE  UNCHANGED deviceVars \/ GrowsOn(t)
<1>2. pc[t] \in Uploading \cup Running \cup {"pointers", "gemm"} => bufs[t] # <<>> /\ call[t] \in Calls
  BY HasBuffers
<1>3. CASE Memset(t)
  <2>1. Last(OnLast(t)) \in ToSet(bufs[t]) /\ Work("memset", OnLast(t)) \in Works
    BY <1>2, <1>3, CallWorks DEF Memset, Uploading
  <2>2. Work("memset", OnLast(t)).on = OnLast(t)
    BY DEF Work
  <2> QED
    BY <1>3, <2>1, <2>2 DEF Memset, Enqueue, GrowsOn
<1>4. CASE Copy(t)
  <2>1. Last(OnLast(t)) \in ToSet(bufs[t]) /\ Filling(t) \in Works
    BY <1>2, <1>4, CallWorks DEF Copy, Uploading
  <2>2. Filling(t).on = OnLast(t)
    BY DEF Filling, Work, WorkFor
  <2> QED
    BY <1>4, <2>1, <2>2 DEF Copy, Enqueue, GrowsOn
<1>5. CASE Launch(t)
  <2>1. Last(bufs[t]) \in ToSet(bufs[t]) /\ Work("kernel", bufs[t]) \in Works
    BY <1>2, <1>5, CallWorks, NextWorks DEF Launch, Running
  <2>2. Work("kernel", bufs[t]).on = bufs[t]
    BY DEF Work
  <2> QED
    BY <1>5, <2>1, <2>2 DEF Launch, Enqueue, GrowsOn
<1>6. CASE GemmCopy(t)
  <2>1. Last(bufs[t]) \in ToSet(bufs[t]) /\ WorkFor("input", bufs[t], Arg(t)) \in Works
    BY <1>2, <1>6, CallWorks, NextWorks DEF GemmCopy
  <2>2. WorkFor("input", bufs[t], Arg(t)).on = bufs[t]
    BY DEF WorkFor
  <2> QED
    BY <1>6, <2>1, <2>2 DEF GemmCopy, Enqueue, GrowsOn
<1>7. CASE Gemm(t)
  <2>1. Last(bufs[t]) \in ToSet(bufs[t]) /\ WorkFor("gemm", bufs[t], Arg(t)) \in Works
    BY <1>2, <1>7, CallWorks, NextWorks DEF Gemm
  <2>2. WorkFor("gemm", bufs[t], Arg(t)).on = bufs[t]
    BY DEF WorkFor
  <2> QED
    BY <1>7, <2>1, <2>2 DEF Gemm, Enqueue, GrowsOn, deviceVars
<1>8. CASE (\E c \in Calls : Enter(t, c)) \/ (\E p \in Ptrs : Alloc(t, p)) \/ Fail(t) \/ DropBuffer(t)
           \/ Uploaded(t) \/ Launched(t) \/ Download(t) \/ GemmCopyFails(t)
  BY <1>8 DEF Enter, Alloc, Fail, DropBuffer, Uploaded, Launched, Download, GemmCopyFails
<1> QED
  BY <1>3, <1>4, <1>5, <1>6, <1>7, <1>8 DEF Acts

LEMMA OwnVariables ==
  ASSUME TypeOK, NEW t \in Threads, Acts(t), NEW u \in Threads, u # t
  PROVE  /\ pc'[u] = pc[u] /\ call'[u] = call[u] /\ bufs'[u] = bufs[u]
         /\ wait'[u] = wait[u] /\ result'[u] = result[u]
<1> USE DEF TypeOK, Goto, WaitFor, callVars, Return
<1>1. CASE \E c \in Calls : Enter(t, c)
  BY <1>1 DEF Enter
<1>2. CASE \E p \in Ptrs : Alloc(t, p)
  BY <1>2 DEF Alloc
<1>3. CASE Fail(t)
  BY <1>3 DEF Fail
<1>4. CASE DropBuffer(t)
  BY <1>4 DEF DropBuffer
<1>5. CASE Memset(t)
  BY <1>5 DEF Memset
<1>6. CASE Copy(t)
  BY <1>6 DEF Copy
<1>7. CASE Uploaded(t)
  BY <1>7 DEF Uploaded
<1>8. CASE Launch(t)
  BY <1>8 DEF Launch
<1>9. CASE Launched(t)
  BY <1>9 DEF Launched
<1>10. CASE Download(t)
  BY <1>10 DEF Download
<1>11. CASE GemmCopy(t)
  BY <1>11 DEF GemmCopy
<1>12. CASE GemmCopyFails(t)
  BY <1>12 DEF GemmCopyFails
<1>13. CASE Gemm(t)
  BY <1>13 DEF Gemm
<1> QED
  BY <1>1, <1>2, <1>3, <1>4, <1>5, <1>6, <1>7, <1>8, <1>9, <1>10, <1>11, <1>12, <1>13 DEF Acts

LEMMA OthersStep ==
  ASSUME TypeOK, Leases, \A u \in Threads : ThreadOK(u),
         NEW t \in Threads, Acts(t), NEW u \in Threads, u # t
  PROVE  ThreadOK(u)'
<1>1. Shaped(t)
  BY DEF ThreadOK
<1>2. UNCHANGED deviceVars \/ GrowsOn(t)
  BY <1>1, OwnWorks
<1>3. GrowsOn(t) => GrowsApartFrom(u)
  BY DEF GrowsOn, GrowsApartFrom, Leases, OneCalls
<1>4. /\ pc'[u] = pc[u] /\ call'[u] = call[u] /\ bufs'[u] = bufs[u]
      /\ wait'[u] = wait[u] /\ result'[u] = result[u]
  BY OwnVariables
<1> QED
  BY <1>2, <1>3, <1>4, BystanderOK

---------------------------------------------------------------------------
(* What a step leaves the call that takes it *)

LEMMA ActorStep ==
  ASSUME TypeOK, Leases, NEW t \in Threads, ThreadOK(t), Acts(t)
  PROVE  ThreadOK(t)'
<1> DEFINE b == bufs[t]
<1>1. /\ Inputs \in Nat \ {0} /\ b \in Seq(Ptrs) /\ Len(b) \in Nat /\ DOMAIN b = 1..Len(b)
      /\ NoTwice(b) /\ wait[t] \in Nat /\ Len(stream) \in Nat
      /\ memory \in Memories /\ stream \in Seq(Works)
  BY DispatchAssumption DEF TypeOK, Leases, ListedOnce
<1>2. Shaped(t) /\ Prepared(t) /\ OutputInPlace(t) /\ Waits(t)
  BY DEF ThreadOK
<1>4. UNCHANGED deviceVars => Len(stream') = Len(stream) /\ Final' = Final
  BY StreamStays
(* A call that is about to return knows nothing of the memory.             *)
<1>5. ASSUME pc'[t] \in {"idle", "drop"}, Shaped(t)', Waits(t)'
      PROVE  ThreadOK(t)'
  BY <1>5 DEF Prepared, OutputInPlace, Running, ThreadOK
<1>6. ASSUME NEW c \in Calls, Enter(t, c) PROVE ThreadOK(t)'
  <2>1. /\ pc'[t] = "alloc" /\ call'[t] = c /\ bufs' = bufs /\ wait' = wait /\ result' = result
        /\ UNCHANGED deviceVars /\ b = <<>> /\ result[t] = NoResult
    BY <1>2, <1>6 DEF Enter, Goto, TypeOK, Idle, Shaped
  <2>2. Len(b) = 0
    BY <2>1
  <2>3. Shaped(t)'
    BY <1>1, <2>1, <2>2 DEF Shaped, Uploading, Running
  <2>4. Prepared(t)'
    BY <2>1, <2>2 DEF Prepared, Holds, Running
  <2>5. OutputInPlace(t)' /\ Waits(t)'
    BY <1>2, <1>4, <2>1 DEF OutputInPlace, Waits
  <2> QED
    BY <2>3, <2>4, <2>5 DEF ThreadOK
<1>7. ASSUME NEW p \in Ptrs, Alloc(t, p) PROVE ThreadOK(t)'
  <2> DEFINE r == Append(b, p)
  <2>1. /\ pc[t] = "alloc" /\ pc'[t] = (IF Kind(t) = "gemm" THEN "pointers" ELSE "memset")
        /\ call' = call /\ wait' = wait /\ result' = result /\ bufs'[t] = r /\ UNCHANGED deviceVars
        /\ p \notin held
    BY <1>7 DEF Alloc, Goto, TypeOK
  <2>2. p \notin ToSet(b)
    BY <2>1 DEF Leases, OnlyPointerArraysLeak
  <2>3. Len(r) = Len(b) + 1 /\ \A i \in 1..Len(b) : r[i] = b[i]
    BY <1>1, <2>2, AppendedList
  <2>4. Kind(t) \in Kinds /\ call[t] \in Calls /\ Kind(t)' = Kind(t) /\ Arg(t)' = Arg(t)
        /\ Len(b) < (IF Kind(t) = "gemm" THEN 1 ELSE Inputs + 1) /\ result[t] = NoResult
    BY <1>2, <2>1 DEF Shaped, Kind, Arg, Calls
  <2> HIDE DEF r
  <2>5. Shaped(t)'
    BY <1>1, <2>1, <2>3, <2>4 DEF Shaped, Uploading, Running, Kinds
  <2>6. Prepared(t)'
    <3>1. Kind(t) = "kernel" => Holds(t, Len(b))
      BY <1>2, <2>1 DEF Prepared
    <3>2. Len(r) - 1 = Len(b)
      BY <1>1, <2>3
    <3>3. Kind(t) = "kernel" =>
            \A j \in 1..(Len(bufs'[t]) - 1) :
              Final'[bufs'[t][j]] = [payload |-> Bytes(Arg(t)), slack |-> Zero]
      BY <1>4, <2>1, <2>3, <3>1, <3>2 DEF Holds
    <3> QED
      BY <2>1, <2>4, <3>3 DEF Prepared, Holds, Kinds, Running
  <2>7. OutputInPlace(t)' /\ Waits(t)'
    BY <1>2, <1>4, <2>1 DEF OutputInPlace, Waits
  <2> QED
    BY <2>5, <2>6, <2>7 DEF ThreadOK
<1>8. ASSUME Fail(t) PROVE ThreadOK(t)'
  <2>1. /\ pc[t] \notin {"idle", "drop"} /\ pc'[t] = "drop" /\ call' = call /\ result' = result
        /\ wait'[t] = 0 /\ UNCHANGED deviceVars
    BY <1>8 DEF Fail, Goto, TypeOK
  <2>2. Shaped(t)' /\ Waits(t)'
    BY <1>1, <1>2, <1>4, <2>1 DEF Shaped, Waits, Uploading, Running
  <2> QED
    BY <1>5, <2>1, <2>2
<1>9. ASSUME DropBuffer(t) PROVE ThreadOK(t)'
  <2>1. pc[t] = "drop" /\ wait' = wait /\ UNCHANGED deviceVars
    BY <1>9 DEF DropBuffer
  <2>2. Waits(t)'
    BY <1>2, <1>4, <2>1 DEF Waits
  <2>3. CASE b = <<>>
    <3>1. pc'[t] = "idle" /\ call'[t] = NoCall /\ bufs'[t] = <<>> /\ result'[t] = NoResult
      BY <1>9, <2>3 DEF DropBuffer, Return, Goto, TypeOK
    <3>2. Shaped(t)'
      BY <3>1 DEF Shaped, Uploading, Running
    <3> QED
      BY <1>5, <2>2, <3>1, <3>2
  <2>4. CASE b # <<>>
    <3>1. pc' = pc /\ call' = call /\ result' = result
      BY <1>9, <2>4 DEF DropBuffer
    <3>2. Shaped(t)'
      BY <1>2, <2>1, <3>1 DEF Shaped, Uploading, Running
    <3> QED
      BY <1>5, <2>1, <2>2, <3>1, <3>2
  <2> QED
    BY <2>3, <2>4
<1>10. b # <<>> => /\ Len(b) \in 1..Len(b) /\ Last(b) = b[Len(b)] /\ Last(b) \in Ptrs
                   /\ \A j \in 1..(Len(b) - 1) : b[j] \in Ptrs /\ b[j] # Last(b)
  BY <1>1, SMTT(30) DEF Last, NoTwice
<1>11. ASSUME NEW w \in Works, memory' = memory, stream' = Append(stream, w)
       PROVE  /\ Len(stream') = Len(stream) + 1 /\ Final \in Memories /\ Final' = Effect(Final, w)
              /\ \A k : k = Len(stream') => After(k)' = Final'
              /\ \A p \in Ptrs : p # Last(w.on) => Final'[p] = Final[p]
  <2>1. \A k : k = Len(stream') => After(k)' = Final'
    BY DEF Final, After
  <2> QED
    BY <1>1, <1>11, <2>1, StreamGrows
<1>12. pc[t] \in Uploading \cup Running \cup {"pointers", "gemm"} => b # <<>> /\ call[t] \in Calls
  BY <1>2, HasBuffers
<1>13. b # <<>> /\ call[t] \in Calls =>
         /\ Arg(t) \in Args /\ OnLast(t) = <<Last(b)>> /\ Last(<<Last(b)>>) = Last(b)
         /\ Work("memset", <<Last(b)>>) \in Works
  <2>1. b # <<>> /\ call[t] \in Calls =>
         /\ Arg(t) \in Args /\ OnLast(t) = <<Last(b)>> /\ Last(OnLast(t)) = Last(b)
         /\ Work("memset", OnLast(t)) \in Works
    BY CallWorks
  <2> QED
    BY <2>1
<1> HIDE DEF b
<1>14. ASSUME Memset(t) PROVE ThreadOK(t)'
  <2> DEFINE w == Work("memset", <<Last(b)>>)
  <2>1. /\ pc[t] = "memset" /\ pc'[t] = "copy" /\ call' = call /\ wait' = wait /\ result' = result
        /\ bufs' = bufs /\ memory' = memory
    BY <1>14 DEF Memset, Goto, TypeOK, callVars
  <2>2. b # <<>> /\ call[t] \in Calls
    BY <1>12, <2>1 DEF Uploading
  <2>3. stream' = Append(stream, w) /\ w \in Works
    BY <1>13, <1>14, <2>2 DEF Memset, Enqueue
  <2>4. w.on = <<Last(b)>> /\ Last(w.on) = Last(b)
    BY <1>13, <2>2 DEF Work
  <2>5. Arg(t) \in Args /\ Last(b) \in Ptrs
    BY <1>10, <1>13, <2>2
  <2>6. Final'[Last(b)].slack = Zero
    <3>1. Final' = Effect(Final, w) /\ Final \in Memories
      <4> HIDE DEF w
      <4> QED
        BY <1>11, <2>1, <2>3
    <3> QED
      BY <2>5, <3>1, EffectOfUpload
  <2> HIDE DEF w
  <2>7. \A j \in 1..(Len(b) - 1) : Final'[b[j]] = Final[b[j]]
    BY <1>10, <1>11, <2>1, <2>2, <2>3, <2>4
  <2>8. Holds(t, Len(b) - 1)
    BY <1>2, <2>1 DEF Prepared, b
  <2>9. Shaped(t)'
    BY <1>2, <2>1 DEF Shaped, Uploading, Running, Kind
  <2>10. \A j \in 1..(Len(bufs'[t]) - 1) :
           Final'[bufs'[t][j]] = [payload |-> Bytes(Arg(t)), slack |-> Zero]
    BY <2>1, <2>7, <2>8 DEF Holds, b
  <2>11. Prepared(t)'
    BY <2>1, <2>6, <2>10 DEF Prepared, Holds, Arg, Running, b
  <2>12. OutputInPlace(t)' /\ Waits(t)'
    BY <1>1, <1>2, <1>11, <2>1, <2>3 DEF OutputInPlace, Waits
  <2> QED
    BY <2>9, <2>11, <2>12 DEF ThreadOK
<1>15. ASSUME Copy(t) PROVE ThreadOK(t)'
  <2> DEFINE w == Filling(t)
  <2>1. /\ pc[t] = "copy" /\ pc'[t] = "uploaded" /\ call' = call /\ wait'[t] = Len(stream) + 1
        /\ result' = result /\ bufs' = bufs /\ memory' = memory /\ stream' = Append(stream, w)
    BY <1>15 DEF Copy, Goto, TypeOK, WaitFor, Enqueue
  <2>2. b # <<>> /\ call[t] \in Calls
    BY <1>12, <2>1 DEF Uploading
  <2>3. /\ w \in Works /\ Arg(t) \in Args
        /\ w = IF Complete(t) THEN Work("seed", <<Last(b)>>) ELSE WorkFor("input", <<Last(b)>>, Arg(t))
    BY <2>2, CallWorks DEF b
  <2>4. w.on = <<Last(b)>> /\ Last(w.on) = Last(b)
    BY <1>13, <2>2 DEF Work, WorkFor, Filling
  <2>5. \A j \in 1..(Len(b) - 1) : Final'[b[j]] = Final[b[j]]
    <3> HIDE DEF w
    <3> QED
      BY <1>10, <1>11, <2>1, <2>2, <2>3, <2>4
  <2>6. ~Complete(t) => Final'[Last(b)] = [payload |-> Bytes(Arg(t)), slack |-> Zero]
    <3>1. Final[Last(b)].slack = Zero
      BY <1>2, <2>1 DEF Prepared, b
    <3>2. Final' = Effect(Final, w) /\ Final \in Memories
      <4> HIDE DEF w
      <4> QED
        BY <1>11, <2>1, <2>3
    <3> QED
      BY <1>10, <2>2, <2>3, <3>1, <3>2, EffectOfUpload
  <2> HIDE DEF w
  <2>7. Holds(t, Len(b) - 1)
    BY <1>2, <2>1 DEF Prepared, b
  <2>8. Shaped(t)'
    BY <1>2, <2>1 DEF Shaped, Uploading, Running, Kind
  <2>9. \A j \in 1..(IF Complete(t) THEN Inputs ELSE Len(b)) :
          Final'[b[j]] = [payload |-> Bytes(Arg(t)), slack |-> Zero]
    <3>1. \A j \in 1..(Len(b) - 1) : Final'[b[j]] = [payload |-> Bytes(Arg(t)), slack |-> Zero]
      BY <2>5, <2>7 DEF Holds, b
    <3>2. CASE Complete(t)
      <4>1. Len(b) - 1 = Inputs
        BY <1>1, <3>2 DEF Complete, b
      <4> QED
        BY <3>1, <3>2, <4>1
    <3>3. CASE ~Complete(t)
      <4>1. \A n \in Nat : \A j \in 1..n : j \in 1..(n - 1) \/ j = n
        OBVIOUS
      <4>2. Len(b) \in Nat
        BY <1>1
      <4> QED
        BY <1>10, <2>2, <2>6, <3>1, <3>3, <4>1, <4>2
    <3> QED
      BY <3>2, <3>3
  <2>10. \A j \in 1..(IF Complete(t) THEN Inputs ELSE Len(bufs'[t])) :
           Final'[bufs'[t][j]] = [payload |-> Bytes(Arg(t)), slack |-> Zero]
    BY <2>1, <2>9 DEF b
  <2>11. Prepared(t)'
    BY <2>1, <2>10 DEF Prepared, Holds, Arg, Running, Complete
  <2>12. OutputInPlace(t)' /\ Waits(t)'
    BY <1>1, <1>11, <2>1, <2>3 DEF OutputInPlace, Waits
  <2> QED
    BY <2>8, <2>11, <2>12 DEF ThreadOK
<1>16. ASSUME Uploaded(t) PROVE ThreadOK(t)'
  <2>1. /\ pc[t] = "uploaded" /\ pc'[t] = (IF Complete(t) THEN "launch" ELSE "alloc")
        /\ call' = call /\ wait' = wait /\ result' = result /\ bufs' = bufs /\ UNCHANGED deviceVars
    BY <1>16 DEF Uploaded, Goto, TypeOK, callVars
  <2>2. Kind(t) = "kernel" /\ Len(bufs[t]) \in 1..(Inputs + 1) /\ call[t] \in Calls
        /\ result[t] = NoResult
    BY <1>2, <2>1 DEF Shaped, Uploading
  <2>3. Shaped(t)'
    BY <1>1, <2>1, <2>2 DEF Shaped, Uploading, Running, Complete, Kind
  <2>4. Holds(t, IF Complete(t) THEN Inputs ELSE Len(b))
    BY <1>2, <2>1 DEF Prepared, b
  <2>5. \A j \in 1..(IF Complete(t) THEN Inputs ELSE Len(bufs'[t])) :
          Final'[bufs'[t][j]] = [payload |-> Bytes(Arg(t)), slack |-> Zero]
    BY <1>4, <2>1, <2>4 DEF Holds, b
  <2>6. Prepared(t)'
    BY <2>1, <2>5 DEF Prepared, Holds, Arg, Running
  <2>7. OutputInPlace(t)' /\ Waits(t)'
    BY <1>2, <1>4, <2>1 DEF OutputInPlace, Waits
  <2> QED
    BY <2>3, <2>6, <2>7 DEF ThreadOK
<1>17. ASSUME Launch(t) PROVE ThreadOK(t)'
  <2> DEFINE w == Work("kernel", b)
  <2>1. /\ pc[t] = "launch" /\ pc'[t] = "launched" /\ call' = call /\ wait'[t] = Len(stream) + 1
        /\ result' = result /\ bufs' = bufs /\ memory' = memory /\ stream' = Append(stream, w)
    BY <1>17 DEF Launch, Goto, TypeOK, WaitFor, Enqueue, b
  <2>2. /\ b # <<>> /\ call[t] \in Calls /\ Kind(t) = "kernel" /\ Len(b) = Inputs + 1
        /\ Complete(t) /\ result[t] = NoResult
    BY <1>2, <1>12, <2>1 DEF Running, Shaped, Complete, b
  <2>3. w \in Works /\ w.on = b /\ Arg(t) \in Args
    BY <2>2, CallWorks DEF Work, b
  <2>4. Final' = Effect(Final, w) /\ Final \in Memories
    <3> HIDE DEF w
    <3> QED
      BY <1>11, <2>1, <2>3
  <2>5. Holds(t, Inputs)
    BY <1>2, <2>1 DEF Prepared, Running
  <2>6. \A j \in 1..Inputs : Final[b[j]] = [payload |-> Bytes(Arg(t)), slack |-> Zero]
    BY <2>5 DEF Holds, b
  <2>7. Final'[Last(b)].payload = Output(Arg(t))
    <3>1. \A j \in 1..Inputs : Final[b[j]].payload = Bytes(Arg(t))
      BY <2>6
    <3>2. b \in Seq(Ptrs)
      BY <1>1
    <3> QED
      BY <2>2, <2>3, <2>4, <3>1, <3>2, EffectOfKernel
  <2> HIDE DEF w
  <2>8. \A j \in 1..Inputs : Final'[b[j]] = [payload |-> Bytes(Arg(t)), slack |-> Zero]
    <3>1. \A j \in 1..Inputs : Final'[b[j]] = Final[b[j]]
      <4>1. Len(b) - 1 = Inputs
        BY <1>1, <2>2
      <4> QED
        BY <1>10, <1>11, <2>1, <2>2, <2>3, <4>1
    <3> QED
      BY <2>6, <3>1
  <2>9. Shaped(t)'
    BY <2>1, <2>2 DEF Shaped, Uploading, Running, Kind, Complete
  <2>10. \A j \in 1..Inputs : Final'[bufs'[t][j]] = [payload |-> Bytes(Arg(t)), slack |-> Zero]
    BY <2>1, <2>8 DEF b
  <2>11. Prepared(t)'
    BY <2>1, <2>10 DEF Prepared, Holds, Arg, Running
  <2>12. Len(stream') = Len(stream) + 1 /\ \A k : k = Len(stream') => After(k)' = Final'
    BY <1>11, <2>1, <2>3
  <2>13. \A k \in wait'[t]..Len(stream') : k = Len(stream')
    BY <1>1, <2>1, <2>12
  <2>14. \A k \in wait'[t]..Len(stream') : After(k)'[Last(bufs'[t])].payload = Output(Arg(t))
    BY <2>1, <2>7, <2>12, <2>13 DEF b
  <2>15. OutputInPlace(t)' /\ Waits(t)'
    BY <1>1, <2>1, <2>12, <2>14 DEF OutputInPlace, Waits, Arg
  <2> QED
    BY <2>9, <2>11, <2>15 DEF ThreadOK
<1>18. ASSUME Launched(t) PROVE ThreadOK(t)'
  <2>1. /\ pc[t] = "launched" /\ wait[t] = 0 /\ call' = call /\ result' = result /\ bufs' = bufs
        /\ UNCHANGED deviceVars
        /\ \/ pc'[t] \in {"launch", "drop"} /\ wait' = wait
           \/ pc'[t] = "download" /\ wait'[t] = Len(stream)
    BY <1>1, <1>18 DEF Launched, Goto, WaitFor, TypeOK
  <2>2. /\ call[t] \in Calls /\ Kind(t) = "kernel" /\ Complete(t) /\ result[t] = NoResult
        /\ Holds(t, Inputs)
    BY <1>2, <2>1 DEF Running, Shaped, Prepared
  <2>3. Shaped(t)'
    BY <2>1, <2>2 DEF Shaped, Uploading, Running, Kind, Complete
  <2>4. Waits(t)'
    BY <1>1, <1>2, <1>4, <2>1 DEF Waits
  <2>5. \A j \in 1..Inputs : Final'[bufs'[t][j]] = [payload |-> Bytes(Arg(t)), slack |-> Zero]
    BY <1>4, <2>1, <2>2 DEF Holds
  <2>6. Prepared(t)'
    BY <2>1, <2>5 DEF Prepared, Holds, Arg, Running
  <2>7. OutputInPlace(t)'
    <3>1. \A k \in wait[t]..Len(stream) : After(k)[Last(bufs[t])].payload = Output(Arg(t))
      BY <1>2, <2>1 DEF OutputInPlace
    <3>2. Len(stream) \in wait[t]..Len(stream)
      BY <1>1, <2>1
    <3>3. \A k \in Len(stream)..Len(stream) : k = Len(stream)
      BY <1>1
    <3>4. pc'[t] = "download" =>
            \A k \in wait'[t]..Len(stream') : After(k)'[Last(bufs'[t])].payload = Output(Arg(t))
      BY <2>1, <3>1, <3>2, <3>3, StreamStays
    <3> QED
      BY <2>1, <3>4 DEF OutputInPlace, Arg
  <2> QED
    BY <2>3, <2>4, <2>6, <2>7 DEF ThreadOK
<1>19. ASSUME Download(t) PROVE ThreadOK(t)'
  <2>1. /\ pc[t] = "download" /\ pc'[t] = "drop" /\ call' = call /\ wait' = wait
        /\ UNCHANGED deviceVars
    BY <1>19 DEF Download, Goto, TypeOK
  <2>2. Shaped(t)' /\ Waits(t)'
    BY <1>2, <1>4, <2>1 DEF Shaped, Waits, Uploading, Running
  <2> QED
    BY <1>5, <2>1, <2>2
<1>20. ASSUME GemmCopy(t) PROVE ThreadOK(t)'
  <2> DEFINE w == WorkFor("input", <<Last(b)>>, Arg(t))
  <2>1. /\ pc[t] = "pointers" /\ pc'[t] = "gemm" /\ call' = call /\ wait' = wait /\ result' = result
        /\ bufs' = bufs /\ memory' = memory /\ stream' = Append(stream, WorkFor("input", b, Arg(t)))
    BY <1>20 DEF GemmCopy, Goto, TypeOK, callVars, Enqueue, b
  <2>2. /\ b # <<>> /\ call[t] \in Calls /\ Kind(t) = "gemm" /\ Len(b) = 1 /\ result[t] = NoResult
    BY <1>2, <1>12, <2>1 DEF Shaped, b
  <2>3. /\ b = <<Last(b)>> /\ Head(b) = Last(b) /\ WorkFor("input", b, Arg(t)) \in Works
        /\ Arg(t) \in Args /\ Last(b) \in Ptrs
    BY <2>2, CallWorks DEF b
  <2>4. w = WorkFor("input", b, Arg(t)) /\ w \in Works
    BY <2>3, Zenon
  <2>5. Final' = Effect(Final, w) /\ Final \in Memories
    <3> HIDE DEF w
    <3> QED
      BY <1>11, <2>1, <2>4
  <2>6. Final'[Head(b)].payload = Bytes(Arg(t))
    BY <2>3, <2>5, EffectOfUpload
  <2> HIDE DEF w
  <2>7. Shaped(t)'
    BY <2>1, <2>2 DEF Shaped, Uploading, Running, Kind, b
  <2>8. Prepared(t)'
    BY <2>1, <2>6 DEF Prepared, Arg, Running, b
  <2>9. OutputInPlace(t)' /\ Waits(t)'
    BY <1>1, <1>2, <1>11, <2>1, <2>4 DEF OutputInPlace, Waits
  <2> QED
    BY <2>7, <2>8, <2>9 DEF ThreadOK
<1>21. ASSUME GemmCopyFails(t) PROVE ThreadOK(t)'
  <2>1. /\ pc'[t] = "idle" /\ call'[t] = NoCall /\ bufs'[t] = <<>> /\ result'[t] = NoResult
        /\ wait' = wait /\ UNCHANGED deviceVars
    BY <1>21 DEF GemmCopyFails, Return, Goto, TypeOK
  <2>2. Shaped(t)' /\ Waits(t)'
    BY <1>2, <1>4, <2>1 DEF Shaped, Waits, Uploading, Running
  <2> QED
    BY <1>5, <2>1, <2>2
<1>22. ASSUME Gemm(t) PROVE ThreadOK(t)'
  <2>1. /\ pc[t] = "gemm" /\ pc'[t] = "drop" /\ call' = call /\ wait' = wait /\ result' = result
        /\ bufs' = bufs
    BY <1>22 DEF Gemm, Goto, TypeOK, callVars
  <2>2. Len(stream') \in {Len(stream), Len(stream) + 1}
    BY <1>1, <1>22 DEF Gemm, Enqueue
  <2>3. Shaped(t)'
    BY <1>2, <2>1 DEF Shaped, Uploading, Running
  <2>4. Waits(t)'
    BY <1>1, <1>2, <2>1, <2>2 DEF Waits
  <2> QED
    BY <1>5, <2>1, <2>3, <2>4
<1> QED
  BY <1>6, <1>7, <1>8, <1>9, <1>14, <1>15, <1>16, <1>17, <1>18, <1>19, <1>20, <1>21, <1>22 DEF Acts

---------------------------------------------------------------------------
(* Executing a work                                                        *)

LEMMA ExecuteStep ==
  ASSUME TypeOK, Execute, NEW t \in Threads, ThreadOK(t)
  PROVE  ThreadOK(t)'
<1>1. /\ Shaped(t) /\ Prepared(t) /\ OutputInPlace(t) /\ Waits(t)
      /\ wait[t] \in Nat /\ wait'[t] = (IF wait[t] > 0 THEN wait[t] - 1 ELSE 0)
      /\ pc' = pc /\ call' = call /\ bufs' = bufs /\ result' = result
  BY DEF ThreadOK, TypeOK, Execute
<1>2. /\ Len(stream) \in Nat \ {0} /\ Len(stream') = Len(stream) - 1 /\ Final' = Final
      /\ \A k \in 0..(Len(stream) - 1) : After(k)' = After(k + 1)
  BY StreamMoves DEF Execute, TypeOK
<1>3. Shaped(t)'
  BY <1>1 DEF Shaped, Kind, Complete
<1>4. Prepared(t)'
  BY <1>1, <1>2 DEF Prepared, Holds, Kind, Arg, Complete
<1>5. Waits(t)'
  BY <1>1, <1>2 DEF Waits
<1>6. ASSUME pc[t] \in {"launched", "download"}
      PROVE  \A k \in wait'[t]..Len(stream') : After(k)'[Last(bufs[t])].payload = Output(Arg(t))
  <2>1. \A k \in wait'[t]..Len(stream') : k \in 0..(Len(stream) - 1) /\ k + 1 \in wait[t]..Len(stream)
    BY <1>1, <1>2
  <2>2. \A k \in wait[t]..Len(stream) : After(k)[Last(bufs[t])].payload = Output(Arg(t))
    BY <1>1, <1>6 DEF OutputInPlace
  <2> QED
    BY <1>2, <2>1, <2>2
<1>7. OutputInPlace(t)'
  BY <1>1, <1>6 DEF OutputInPlace, Arg
<1> QED
  BY <1>3, <1>4, <1>5, <1>7 DEF ThreadOK

---------------------------------------------------------------------------
(* What is enqueued finds what its call prepared                           *)

WorkOK(w, mem) ==
  /\ w.op = "gemm" => mem[Head(w.on)].payload = Bytes(w.for)
  /\ w.op = "kernel" => \A k \in 1..Inputs : mem[w.on[k]].slack = Zero

WorksOK == \A i \in 1..Len(stream) : WorkOK(stream[i], After(i - 1))

LEMMA WorksOKDef ==
  ASSUME stream \in Seq(Works)
  PROVE  WorksOK <=> GemmsReadTheirPointers /\ TailsReadZeros
<1>1. DOMAIN stream = 1..Len(stream)
  OBVIOUS
<1> QED
  BY <1>1 DEF WorksOK, WorkOK, After, MemoryAt, GemmsReadTheirPointers, TailsReadZeros

Enqueues(w) == memory' = memory /\ stream' = Append(stream, w)

LEMMA OwnWorkOK ==
  ASSUME TypeOK, NEW t \in Threads, ThreadOK(t), Acts(t)
  PROVE  \/ UNCHANGED deviceVars
         \/ \E w \in Works : Enqueues(w) /\ WorkOK(w, Final)
<1>1. Shaped(t) /\ Prepared(t)
  BY DEF ThreadOK
<1>2. pc[t] \in Uploading \cup Running \cup {"pointers", "gemm"} => bufs[t] # <<>> /\ call[t] \in Calls
  BY <1>1, HasBuffers
<1>3. /\ pc[t] = "memset" => Work("memset", OnLast(t)) \in Works
      /\ pc[t] = "copy" => Filling(t) \in Works
      /\ pc[t] = "launch" => Work("kernel", bufs[t]) \in Works
      /\ pc[t] = "pointers" => WorkFor("input", bufs[t], Arg(t)) \in Works
      /\ pc[t] = "gemm" => WorkFor("gemm", bufs[t], Arg(t)) \in Works
  BY <1>1, NextWorks
<1>4. CASE Memset(t)
  <2>1. WorkOK(Work("memset", OnLast(t)), Final)
    BY DEF WorkOK, Work
  <2> QED
    BY <1>3, <1>4, <2>1 DEF Memset, Enqueue, Enqueues
<1>5. CASE Copy(t)
  <2>1. WorkOK(Filling(t), Final)
    BY DEF WorkOK, Filling, Work, WorkFor
  <2> QED
    BY <1>3, <1>5, <2>1 DEF Copy, Enqueue, Enqueues
<1>6. CASE Launch(t)
  <2>1. Holds(t, Inputs)
    BY <1>1, <1>6 DEF Launch, Prepared, Running
  <2>2. WorkOK(Work("kernel", bufs[t]), Final)
    BY <2>1 DEF WorkOK, Work, Holds
  <2> QED
    BY <1>3, <1>6, <2>2 DEF Launch, Enqueue, Enqueues
<1>7. CASE GemmCopy(t)
  <2>1. WorkOK(WorkFor("input", bufs[t], Arg(t)), Final)
    BY DEF WorkOK, WorkFor
  <2> QED
    BY <1>3, <1>7, <2>1 DEF GemmCopy, Enqueue, Enqueues
<1>8. CASE Gemm(t)
  <2>1. Final[Head(bufs[t])].payload = Bytes(Arg(t))
    BY <1>1, <1>8 DEF Gemm, Prepared
  <2>2. WorkOK(WorkFor("gemm", bufs[t], Arg(t)), Final)
    BY <2>1 DEF WorkOK, WorkFor
  <2> QED
    BY <1>3, <1>8, <2>2 DEF Gemm, Enqueue, Enqueues, deviceVars
<1>9. CASE (\E c \in Calls : Enter(t, c)) \/ (\E p \in Ptrs : Alloc(t, p)) \/ Fail(t) \/ DropBuffer(t)
           \/ Uploaded(t) \/ Launched(t) \/ Download(t) \/ GemmCopyFails(t)
  BY <1>9 DEF Enter, Alloc, Fail, DropBuffer, Uploaded, Launched, Download, GemmCopyFails
<1> QED
  BY <1>4, <1>5, <1>6, <1>7, <1>8, <1>9 DEF Acts

LEMMA WorksStep ==
  ASSUME TypeOK, \A t \in Threads : ThreadOK(t), WorksOK, Next
  PROVE  WorksOK'
<1>1. memory \in Memories /\ stream \in Seq(Works) /\ Len(stream) \in Nat
  BY DEF TypeOK
<1>2. SUFFICES \A i \in 1..Len(stream') : WorkOK(stream'[i], After(i - 1)')
  BY DEF WorksOK, WorkOK
<1>3. CASE UNCHANGED deviceVars
  BY <1>3, StreamStays DEF WorksOK, deviceVars
<1>4. ASSUME NEW w \in Works, Enqueues(w), WorkOK(w, Final)
      PROVE  \A i \in 1..Len(stream') : WorkOK(stream'[i], After(i - 1)')
  <2>1. /\ Len(stream') = Len(stream) + 1 /\ stream'[Len(stream) + 1] = w
        /\ \A i \in 1..Len(stream) : stream'[i] = stream[i]
        /\ \A k \in 0..Len(stream) : After(k)' = After(k)
    BY <1>1, <1>4, StreamGrows DEF Enqueues
  <2>2. \A i \in 1..Len(stream') : i \in 1..Len(stream) \/ i = Len(stream) + 1
    BY <1>1, <2>1
  <2>3. \A i \in 1..Len(stream) : i - 1 \in 0..Len(stream)
    BY <1>1
  <2>4. ASSUME NEW i \in 1..Len(stream) PROVE WorkOK(stream'[i], After(i - 1)')
    <3>1. WorkOK(stream[i], After(i - 1))
      BY DEF WorksOK
    <3> QED
      BY <2>1, <2>3, <3>1
  <2>5. ASSUME NEW i, i = Len(stream) + 1 PROVE WorkOK(stream'[i], After(i - 1)')
    <3>1. i - 1 = Len(stream) /\ i - 1 \in 0..Len(stream)
      BY <1>1, <2>5
    <3>2. After(i - 1)' = Final
      BY <2>1, <3>1 DEF Final
    <3> QED
      BY <1>4, <2>1, <2>5, <3>2
  <2> QED
    BY <2>2, <2>4, <2>5
<1>5. CASE Execute
  <2>1. /\ Len(stream) \in Nat \ {0} /\ Len(stream') = Len(stream) - 1
        /\ \A i \in 1..(Len(stream) - 1) : stream'[i] = stream[i + 1]
        /\ \A k \in 0..(Len(stream) - 1) : After(k)' = After(k + 1)
    BY <1>1, <1>5, StreamMoves DEF Execute
  <2>2. SUFFICES ASSUME NEW i \in 1..Len(stream') PROVE WorkOK(stream'[i], After(i - 1)')
    OBVIOUS
  <2>3. /\ i \in 1..(Len(stream) - 1) /\ i - 1 \in 0..(Len(stream) - 1) /\ (i - 1) + 1 = i
        /\ i + 1 \in 1..Len(stream) /\ (i + 1) - 1 = i
    BY <2>1
  <2>4. WorkOK(stream[i + 1], After((i + 1) - 1))
    BY <2>3 DEF WorksOK
  <2> QED
    BY <2>1, <2>3, <2>4
<1>6. ASSUME NEW t \in Threads, Acts(t)
      PROVE  \A i \in 1..Len(stream') : WorkOK(stream'[i], After(i - 1)')
  <2>1. UNCHANGED deviceVars \/ \E w \in Works : Enqueues(w) /\ WorkOK(w, Final)
    BY <1>6, OwnWorkOK
  <2> QED
    BY <1>3, <1>4, <2>1
<1> QED
  BY <1>5, <1>6 DEF Next, Acts

---------------------------------------------------------------------------
(* Results *)

LEMMA ResultsStep ==
  ASSUME TypeOK, \A t \in Threads : ThreadOK(t), ResultsAreTheCalls, Next
  PROVE  ResultsAreTheCalls'
<1>1. SUFFICES ASSUME NEW t \in Threads, result'[t] # NoResult
               PROVE  result'[t] = Output(Arg(t)')
  BY DEF ResultsAreTheCalls, Arg
<1>2. Shaped(t) /\ OutputInPlace(t) /\ Waits(t)
  BY DEF ThreadOK
<1>3. result[t] # NoResult => result[t] = Output(Arg(t))
  BY DEF ResultsAreTheCalls
<1>4. CASE result'[t] = result[t] /\ call'[t] = call[t]
  BY <1>1, <1>3, <1>4 DEF Arg
<1>5. CASE Execute
  BY <1>4, <1>5 DEF Execute
<1>6. ASSUME NEW u \in Threads, Acts(u), u # t PROVE result'[t] = result[t] /\ call'[t] = call[t]
  BY <1>6, OwnVariables
<1>7. CASE Download(t)
  <2>1. /\ pc[t] = "download" /\ wait[t] = 0 /\ call' = call
        /\ result'[t] = memory[Last(bufs[t])].payload
    BY <1>7 DEF Download, TypeOK
  <2>2. After(0) = memory
    BY MemoryAfterDef DEF After, TypeOK
  <2>3. 0 \in wait[t]..Len(stream)
    BY <2>1 DEF TypeOK
  <2>4. After(0)[Last(bufs[t])].payload = Output(Arg(t))
    BY <1>2, <2>1, <2>3 DEF OutputInPlace
  <2> QED
    BY <2>1, <2>2, <2>4 DEF Arg
<1>8. CASE DropBuffer(t)
  BY <1>1, <1>4, <1>8 DEF DropBuffer, Return, TypeOK
<1>9. CASE GemmCopyFails(t)
  BY <1>1, <1>9 DEF GemmCopyFails, Return, TypeOK
<1>10. CASE \E c \in Calls : Enter(t, c)
  BY <1>1, <1>2, <1>10 DEF Enter, Idle, Shaped
<1>11. CASE \/ \E p \in Ptrs : Alloc(t, p)
            \/ Fail(t) \/ Memset(t) \/ Copy(t) \/ Uploaded(t) \/ Launch(t) \/ Launched(t)
            \/ GemmCopy(t) \/ Gemm(t)
  BY <1>4, <1>11 DEF Alloc, Fail, Memset, Copy, Uploaded, Launch, Launched, GemmCopy, Gemm, callVars
<1>12. CASE Acts(t)
  BY <1>7, <1>8, <1>9, <1>10, <1>11, <1>12 DEF Acts
<1> QED
  BY <1>4, <1>5, <1>6, <1>12 DEF Next, Acts

---------------------------------------------------------------------------
(* The invariant *)

LEMMA InitIInv == Init => IInv
<1> SUFFICES ASSUME Init PROVE IInv
  OBVIOUS
<1> USE DEF Init
<1>1. TypeOK
  <2>1. memory \in Memories
    BY DEF Memories, Payloads
  <2>2. Inputs \in Nat \ {0}
    BY DispatchAssumption
  <2>3. /\ stream \in Seq(Works)
        /\ bufs \in [Threads -> Seq(Ptrs)]
        /\ \A t \in Threads : Len(bufs[t]) <= Inputs + 1
    BY <2>2
  <2> QED
    BY <2>1, <2>3 DEF TypeOK
<1>2. \A t \in Threads : bufs[t] = <<>> /\ ToSet(bufs[t]) = {}
  BY DEF ToSet
<1>3. Leases
  <2>1. NoTwice(<<>>)
    BY DEF NoTwice
  <2> QED
    BY <1>2, <2>1 DEF Leases, OnlyPointerArraysLeak, ListedOnce, OneCalls, NotLost
<1>4. ASSUME NEW t \in Threads PROVE ThreadOK(t)
  <2>1. pc[t] = "idle" /\ bufs[t] = <<>> /\ call[t] = NoCall /\ result[t] = NoResult
        /\ wait[t] = 0 /\ Len(stream) = 0
    OBVIOUS
  <2>2. Shaped(t)
    BY <2>1 DEF Shaped, Uploading, Running
  <2> QED
    BY <2>1, <2>2 DEF ThreadOK, Prepared, OutputInPlace, Waits, Running
<1>5. GemmsReadTheirPointers /\ TailsReadZeros
  <2>1. DOMAIN stream = {}
    OBVIOUS
  <2> QED
    BY <2>1 DEF GemmsReadTheirPointers, TailsReadZeros
<1>6. ResultsAreTheCalls
  BY DEF ResultsAreTheCalls
<1> QED
  BY <1>1, <1>3, <1>4, <1>5, <1>6 DEF IInv

LEMMA NextIInv == IInv /\ [Next]_vars => IInv'
<1> SUFFICES ASSUME IInv, [Next]_vars PROVE IInv'
  OBVIOUS
<1>1. /\ TypeOK /\ Leases /\ (\A t \in Threads : ThreadOK(t))
      /\ GemmsReadTheirPointers /\ TailsReadZeros /\ ResultsAreTheCalls
  BY DEF IInv
<1>2. CASE Next
  <2>1. \A t \in Threads : Shaped(t)
    BY <1>1 DEF ThreadOK
  <2>2. TypeOK'
    BY <1>1, <1>2, <2>1, TypeStep DEF Leases
  <2>3. Leases'
    BY <1>1, <1>2, <2>1, LeasesStep
  <2>4. ASSUME NEW t \in Threads PROVE ThreadOK(t)'
    <3>1. CASE Execute
      BY <1>1, <3>1, ExecuteStep
    <3>2. ASSUME NEW u \in Threads, Acts(u) PROVE ThreadOK(t)'
      <4>1. CASE u = t
        BY <1>1, <3>2, <4>1, ActorStep
      <4>2. CASE u # t
        BY <1>1, <3>2, <4>2, OthersStep
      <4> QED
        BY <4>1, <4>2
    <3> QED
      BY <1>2, <3>1, <3>2 DEF Next, Acts
  <2>5. WorksOK
    BY <1>1, WorksOKDef DEF TypeOK
  <2>6. WorksOK'
    BY <1>1, <1>2, <2>5, WorksStep
  <2>7. GemmsReadTheirPointers' /\ TailsReadZeros'
    <3>1. stream' \in Seq(Works)
      BY <2>2 DEF TypeOK
    <3>2. DOMAIN stream' = 1..Len(stream')
      BY <3>1
    <3> QED
      BY <2>6, <3>2 DEF WorksOK, WorkOK, After, MemoryAt, GemmsReadTheirPointers, TailsReadZeros
  <2>8. ResultsAreTheCalls'
    BY <1>1, <1>2, ResultsStep
  <2> QED
    BY <2>2, <2>3, <2>4, <2>7, <2>8 DEF IInv
<1>3. CASE UNCHANGED vars
  <2> USE <1>3 DEF vars, deviceVars, callVars
  <2>1. TypeOK'
    BY <1>1 DEF TypeOK
  <2>2. Leases'
    BY <1>1 DEF Leases, OnlyPointerArraysLeak, ListedOnce, OneCalls, NotLost
  <2>3. ASSUME NEW t \in Threads PROVE ThreadOK(t)'
    BY <1>1, BystanderOK
  <2>4. GemmsReadTheirPointers' /\ TailsReadZeros'
    BY <1>1 DEF GemmsReadTheirPointers, TailsReadZeros, MemoryAt
  <2>5. ResultsAreTheCalls'
    BY <1>1 DEF ResultsAreTheCalls, Arg
  <2> QED
    BY <2>1, <2>2, <2>3, <2>4, <2>5 DEF IInv
<1> QED
  BY <1>2, <1>3

LEMMA Invariance == Spec => []IInv
BY InitIInv, NextIInv, PTL DEF Spec

(* Every variable keeps its type; in particular no call ever lists more    *)
(* buffers than prepare uploads.                                           *)
THEOREM TypeCorrect == Spec => []TypeOK
<1>1. IInv => TypeOK
  BY DEF IInv
<1> QED
  BY <1>1, Invariance, PTL

(* On every path of prepare, run_kernel, bench_kernel and the GEMMs, for   *)
(* any number of threads and buffers, the allocator's leases are those the *)
(* calls list and those gemm_cublas_grouped's failing copies let go of.    *)
THEOREM NothingElseLeaks == Spec => []OnlyPointerArraysLeak
<1>1. IInv => OnlyPointerArraysLeak
  BY DEF IInv, Leases
<1> QED
  BY <1>1, Invariance, PTL

(* gemm_cublas_grouped and gemm_cublas_batched free the pointer array as   *)
(* soon as the GEMM is enqueued, and any thread may get it next: stream    *)
(* order alone makes every GEMM find its own pointers in it.               *)
THEOREM PointersSurviveTheFree == Spec => []GemmsReadTheirPointers
<1>1. IInv => GemmsReadTheirPointers
  BY DEF IInv
<1> QED
  BY <1>1, Invariance, PTL

(* upload_padded zeroes the slack behind every input of every kernel, and  *)
(* nothing enqueued between the memset and the kernel dirties it.          *)
THEOREM SlackIsZeroed == Spec => []TailsReadZeros
<1>1. IInv => TailsReadZeros
  BY DEF IInv
<1> QED
  BY <1>1, Invariance, PTL

(* run_kernel reads back what the kernel computed from this call's bytes,  *)
(* whatever the other threads enqueue and recycle meanwhile.               *)
THEOREM ResultsAreOwn == Spec => []ResultsAreTheCalls
<1>1. IInv => ResultsAreTheCalls
  BY DEF IInv
<1> QED
  BY <1>1, Invariance, PTL
=============================================================================
