----------------------------- MODULE PassProofs -----------------------------
(***************************************************************************)
(* The passes keep a kernel well-formed. An instruction claims the value   *)
(* it defines and the blocks it owns; a kernel is well-formed when nothing *)
(* is claimed twice and the blocks claimed are later blocks of it. Claims  *)
(* are what the proof follows: most passes replace a block by one that     *)
(* claims no more, licm and if_conversion move claims between blocks,      *)
(* vectorize and unroll claim ids above every one in use. The passes are   *)
(* folds, so an invariant of one turn is an invariant of the pass.         *)
(*                                                                         *)
(* The second part: which passes never take a definition away from a use.  *)
(* The sweep goes by what any block reads; const_fold and value_sink keep  *)
(* every result; cse's duplicates lead to a first that stays; licm only    *)
(* moves; a value that disappears into a fused chain was read by the next  *)
(* of the chain only, and the chains of a block share nothing.             *)
(***************************************************************************)
EXTENDS PassPipeline, SharedFacts

(* What an instruction has to itself: the value it defines and the blocks  *)
(* it owns. A block is good when its instructions are those of their       *)
(* variants and no two of them claim the same.                             *)
Claims(i) == ({"value"} \X ({i.r} \ {NoResult})) \cup ({"block"} \X ElemsOf(i.b))
Claimed(blk) == UNION {Claims(i) : i \in ElemsOf(blk)}
Apart(blk) == \A p, q \in DOMAIN blk : p # q => Claims(blk[p]) \cap Claims(blk[q]) = {}
Good(blk) == IsSeq(blk) /\ (\A i \in ElemsOf(blk) : IsIns(i)) /\ Apart(blk)

(* Sequences, whatever they hold.                                          *)
LEMMA SeqFacts ==
  ASSUME NEW s
  PROVE  /\ IsSeq(s) => Len(s) \in Nat /\ DOMAIN s = 1..Len(s) /\ \A j \in 1..Len(s) : s[j] \in ElemsOf(s)
         /\ \A S : s \in Seq(S) => IsSeq(s) /\ ElemsOf(s) \subseteq S
  <1>1. ASSUME NEW S, s \in Seq(S) PROVE IsSeq(s) /\ ElemsOf(s) \subseteq S
    <2>1. Len(s) \in Nat /\ DOMAIN s = 1..Len(s) /\ s \in [1..Len(s) -> S]
      BY <1>1
    <2>2. s \in [1..Len(s) -> ElemsOf(s)]
      BY <2>1 DEF ElemsOf
    <2>3. s \in Seq(ElemsOf(s))
      BY <2>1, <2>2
    <2> QED BY <2>1, <2>3 DEF IsSeq, ElemsOf
  <1>2. IsSeq(s) => Len(s) \in Nat /\ DOMAIN s = 1..Len(s) /\ \A j \in 1..Len(s) : s[j] \in ElemsOf(s)
    BY DEF IsSeq, ElemsOf
  <1> QED BY <1>1, <1>2

LEMMA FunctionIsSeq ==
  ASSUME NEW n \in Nat, NEW s, s = [j \in 1..n |-> s[j]]
  PROVE  IsSeq(s) /\ Len(s) = n /\ ElemsOf(s) = {s[j] : j \in 1..n}
  <1>1. s \in [1..n -> {s[j] : j \in 1..n}]
    OBVIOUS
  <1>2. s \in Seq({s[j] : j \in 1..n})
    BY <1>1
  <1>3. DOMAIN s = 1..n
    OBVIOUS
  <1> QED BY <1>2, <1>3, SeqFacts DEF ElemsOf

LEMMA Concat ==
  ASSUME NEW x, NEW y, IsSeq(x), IsSeq(y)
  PROVE  /\ IsSeq(x \o y) /\ Len(x \o y) = Len(x) + Len(y)
         /\ ElemsOf(x \o y) = ElemsOf(x) \cup ElemsOf(y)
         /\ \A j \in DOMAIN (x \o y) : \/ j \in DOMAIN x /\ (x \o y)[j] = x[j]
                                       \/ j - Len(x) \in DOMAIN y /\ (x \o y)[j] = y[j - Len(x)]
  <1> DEFINE S == ElemsOf(x) \cup ElemsOf(y)
  <1>1. x \in Seq(S) /\ y \in Seq(S)
    BY DEF IsSeq
  <1> HIDE DEF S
  <1>2. x \o y \in Seq(S) /\ Len(x \o y) = Len(x) + Len(y)
    BY <1>1
  <1>3. Len(x) \in Nat /\ Len(y) \in Nat /\ DOMAIN x = 1..Len(x) /\ DOMAIN y = 1..Len(y)
        /\ DOMAIN (x \o y) = 1..(Len(x) + Len(y))
    BY <1>1, <1>2
  <1>4. ASSUME NEW j \in DOMAIN (x \o y)
        PROVE  \/ j \in DOMAIN x /\ (x \o y)[j] = x[j]
               \/ j - Len(x) \in DOMAIN y /\ (x \o y)[j] = y[j - Len(x)]
    <2>1. CASE j <= Len(x)
      BY <1>1, <1>3, <2>1
    <2>2. CASE ~(j <= Len(x))
      BY <1>1, <1>3, <2>2
    <2> QED BY <2>1, <2>2
  <1>5. \A j \in DOMAIN x : j \in DOMAIN (x \o y) /\ (x \o y)[j] = x[j]
    BY <1>1, <1>3
  <1>6. \A j \in DOMAIN y : j + Len(x) \in DOMAIN (x \o y) /\ (x \o y)[j + Len(x)] = y[j]
    BY <1>1, <1>3
  <1>7. ElemsOf(x \o y) = ElemsOf(x) \cup ElemsOf(y)
    <2>1. ElemsOf(x \o y) \subseteq ElemsOf(x) \cup ElemsOf(y)
      BY <1>4 DEF ElemsOf
    <2>2. ElemsOf(x) \subseteq ElemsOf(x \o y)
      BY <1>5 DEF ElemsOf
    <2>3. ElemsOf(y) \subseteq ElemsOf(x \o y)
      BY <1>6 DEF ElemsOf
    <2> QED BY <2>1, <2>2, <2>3
  <1> QED BY <1>2, <1>4, <1>7, SeqFacts

(* Two good blocks one after the other are a good block when they claim    *)
(* nothing in common.                                                      *)
LEMMA ConcatApart ==
  ASSUME NEW x, NEW y, IsSeq(x), IsSeq(y)
  PROVE  /\ Claimed(x \o y) = Claimed(x) \cup Claimed(y)
         /\ Apart(x \o y) <=> Apart(x) /\ Apart(y) /\ Claimed(x) \cap Claimed(y) = {}
         /\ Good(x \o y) <=> Good(x) /\ Good(y) /\ Claimed(x) \cap Claimed(y) = {}
  <1>1. Claimed(x \o y) = Claimed(x) \cup Claimed(y)
    BY Concat DEF Claimed
  <1>2. ASSUME Apart(x), Apart(y), Claimed(x) \cap Claimed(y) = {} PROVE Apart(x \o y)
    <2> SUFFICES ASSUME NEW p \in DOMAIN (x \o y), NEW q \in DOMAIN (x \o y), p # q
                 PROVE  Claims((x \o y)[p]) \cap Claims((x \o y)[q]) = {}
      BY DEF Apart
    <2>1. \A j \in DOMAIN x : Claims(x[j]) \subseteq Claimed(x)
      BY DEF Claimed, ElemsOf
    <2>2. \A j \in DOMAIN y : Claims(y[j]) \subseteq Claimed(y)
      BY DEF Claimed, ElemsOf
    <2>3. \A j \in DOMAIN (x \o y) : \/ j \in DOMAIN x /\ (x \o y)[j] = x[j]
                                     \/ j - Len(x) \in DOMAIN y /\ (x \o y)[j] = y[j - Len(x)]
      BY Concat
    <2>4. Len(x) \in Nat /\ p \in Int /\ q \in Int
      BY Concat, SeqFacts
    <2> QED BY <1>2, <2>1, <2>2, <2>3, <2>4 DEF Apart
  <1>3. ASSUME Apart(x \o y) PROVE Apart(x) /\ Apart(y) /\ Claimed(x) \cap Claimed(y) = {}
    <2>1. Len(x) \in Nat /\ Len(y) \in Nat /\ DOMAIN x = 1..Len(x) /\ DOMAIN y = 1..Len(y)
      BY SeqFacts
    <2>2. DOMAIN (x \o y) = 1..(Len(x) + Len(y))
      BY Concat, SeqFacts
    <2>3. \A j \in DOMAIN x : j \in DOMAIN (x \o y) /\ (x \o y)[j] = x[j]
      BY <2>1, <2>2 DEF IsSeq
    <2>4. \A j \in DOMAIN y : j + Len(x) \in DOMAIN (x \o y) /\ (x \o y)[j + Len(x)] = y[j]
      BY <2>1, <2>2 DEF IsSeq
    <2>5. Apart(x)
      BY <1>3, <2>3 DEF Apart
    <2>6. Apart(y)
      <3> SUFFICES ASSUME NEW p \in DOMAIN y, NEW q \in DOMAIN y, p # q
                   PROVE  Claims(y[p]) \cap Claims(y[q]) = {}
        BY DEF Apart
      <3>1. p + Len(x) # q + Len(x)
        BY <2>1
      <3>2. Claims((x \o y)[p + Len(x)]) \cap Claims((x \o y)[q + Len(x)]) = {}
        BY <1>3, <2>4, <3>1, Zenon DEF Apart
      <3> QED BY <2>4, <3>2
    <2>7. ASSUME NEW p \in DOMAIN x, NEW q \in DOMAIN y PROVE Claims(x[p]) \cap Claims(y[q]) = {}
      <3>1. p # q + Len(x)
        BY <2>1
      <3> QED BY <1>3, <2>3, <2>4, <3>1 DEF Apart
    <2>8. Claimed(x) \cap Claimed(y) = {}
      BY <2>7 DEF Claimed, ElemsOf
    <2> QED BY <2>5, <2>6, <2>8
  <1>4. (\A i \in ElemsOf(x \o y) : IsIns(i)) <=> (\A i \in ElemsOf(x) : IsIns(i)) /\ (\A i \in ElemsOf(y) : IsIns(i))
    BY Concat
  <1>5. IsSeq(x \o y)
    BY Concat
  <1> QED BY <1>1, <1>2, <1>3, <1>4, <1>5 DEF Good

-----------------------------------------------------------------------------
(* What the passes keep: nothing is claimed twice, and the blocks that are *)
(* owned are later blocks of the kernel.                                   *)
KInv(k) ==
    /\ IsFiniteSet(DOMAIN k) /\ DOMAIN k \subseteq Nat /\ Body \in DOMAIN k
    /\ \A b \in DOMAIN k : Good(k[b])
    /\ \A b, c \in DOMAIN k : b # c => Claimed(k[b]) \cap Claimed(k[c]) = {}
    /\ \A b \in DOMAIN k : \A c : <<"block", c>> \in Claimed(k[b]) => c \in DOMAIN k /\ b < c

(* Membership in what is claimed.                                          *)
LEMMA ClaimsOf ==
  ASSUME NEW i
  PROVE  /\ \A v : <<"value", v>> \in Claims(i) <=> v = i.r /\ v # NoResult
         /\ \A c : <<"block", c>> \in Claims(i) <=> c \in ElemsOf(i.b)
         /\ \A x \in Claims(i) : \/ \E v : x = <<"value", v>>
                                 \/ \E c : x = <<"block", c>>
  BY DEF Claims

LEMMA ClaimedBy ==
  ASSUME NEW blk
  PROVE  \A x : x \in Claimed(blk) <=> \E j \in DOMAIN blk : x \in Claims(blk[j])
  BY DEF Claimed, ElemsOf

(* Static single assignment and single ownership, said of claims.          *)
LEMMA WellFormedClaims ==
  ASSUME NEW k
  PROVE  WellFormed(k) <=> KInv(k)
  <1> DEFINE D == DOMAIN k
  <1>1. /\ \A s : s \in Sites(k, Defines) <=>
                    \E b \in D : \E j \in DOMAIN k[b] : s = <<b, j>> /\ k[b][j].r # NoResult
        /\ \A s : s \in Sites(k, Owns) <=>
                    \E b \in D : \E j \in DOMAIN k[b] : s = <<b, j>> /\ k[b][j].b # <<>>
    BY DEF Sites, Defines, Owns
  <1>2. SingleAssignment(k) <=>
          \A b, c \in D : \A p \in DOMAIN k[b] : \A q \in DOMAIN k[c] :
             k[b][p].r # NoResult /\ k[b][p].r = k[c][q].r => b = c /\ p = q
    <2>1. ASSUME SingleAssignment(k), NEW b \in D, NEW c \in D, NEW p \in DOMAIN k[b], NEW q \in DOMAIN k[c],
                 k[b][p].r # NoResult, k[b][p].r = k[c][q].r
          PROVE  b = c /\ p = q
      <3>1. <<b, p>> \in Sites(k, Defines) /\ <<c, q>> \in Sites(k, Defines)
        BY <1>1, <2>1
      <3>2. <<b, p>> = <<c, q>>
        BY <2>1, <3>1 DEF SingleAssignment
      <3> QED BY <3>2
    <2>2. ASSUME \A b, c \in D : \A p \in DOMAIN k[b] : \A q \in DOMAIN k[c] :
                    k[b][p].r # NoResult /\ k[b][p].r = k[c][q].r => b = c /\ p = q
          PROVE  SingleAssignment(k)
      <3> SUFFICES ASSUME NEW s \in Sites(k, Defines), NEW t \in Sites(k, Defines),
                          k[s[1]][s[2]].r = k[t[1]][t[2]].r
                   PROVE  s = t
        BY DEF SingleAssignment
      <3>1. PICK b \in D : \E j \in DOMAIN k[b] : s = <<b, j>> /\ k[b][j].r # NoResult
        BY <1>1
      <3>2. PICK p \in DOMAIN k[b] : s = <<b, p>> /\ k[b][p].r # NoResult
        BY <3>1
      <3>3. PICK c \in D : \E j \in DOMAIN k[c] : t = <<c, j>> /\ k[c][j].r # NoResult
        BY <1>1
      <3>4. PICK q \in DOMAIN k[c] : t = <<c, q>> /\ k[c][q].r # NoResult
        BY <3>3
      <3> QED BY <2>2, <3>2, <3>4
    <2> QED BY <2>1, <2>2
  <1>3. (\A s, t \in Sites(k, Owns) :
           ElemsOf(k[s[1]][s[2]].b) \cap ElemsOf(k[t[1]][t[2]].b) # {} => s = t)
        <=> \A b, c \in D : \A p \in DOMAIN k[b] : \A q \in DOMAIN k[c] :
              ElemsOf(k[b][p].b) \cap ElemsOf(k[c][q].b) # {} => b = c /\ p = q
    <2>0. \A x : ElemsOf(x) # {} => x # <<>>
      BY DEF ElemsOf
    <2>1. ASSUME \A s, t \in Sites(k, Owns) :
                   ElemsOf(k[s[1]][s[2]].b) \cap ElemsOf(k[t[1]][t[2]].b) # {} => s = t,
                 NEW b \in D, NEW c \in D, NEW p \in DOMAIN k[b], NEW q \in DOMAIN k[c],
                 ElemsOf(k[b][p].b) \cap ElemsOf(k[c][q].b) # {}
          PROVE  b = c /\ p = q
      <3>1. <<b, p>> \in Sites(k, Owns) /\ <<c, q>> \in Sites(k, Owns)
        <4>1. k[b][p].b # <<>> /\ k[c][q].b # <<>>
          BY <2>0, <2>1
        <4> QED BY <1>1, <4>1
      <3>2. <<b, p>> = <<c, q>>
        BY <2>1, <3>1
      <3> QED BY <3>2
    <2>2. ASSUME \A b, c \in D : \A p \in DOMAIN k[b] : \A q \in DOMAIN k[c] :
                   ElemsOf(k[b][p].b) \cap ElemsOf(k[c][q].b) # {} => b = c /\ p = q,
                 NEW s \in Sites(k, Owns), NEW t \in Sites(k, Owns),
                 ElemsOf(k[s[1]][s[2]].b) \cap ElemsOf(k[t[1]][t[2]].b) # {}
          PROVE  s = t
      <3>1. PICK b \in D : \E j \in DOMAIN k[b] : s = <<b, j>>
        BY <1>1
      <3>2. PICK p \in DOMAIN k[b] : s = <<b, p>>
        BY <3>1
      <3>3. PICK c \in D : \E j \in DOMAIN k[c] : t = <<c, j>>
        BY <1>1
      <3>4. PICK q \in DOMAIN k[c] : t = <<c, q>>
        BY <3>3
      <3> QED BY <2>2, <3>2, <3>4
    <2> QED BY <2>1, <2>2
  <1>4. ASSUME NEW i, NEW j
        PROVE  Claims(i) \cap Claims(j) = {} <=>
                 (i.r # NoResult => i.r # j.r) /\ ElemsOf(i.b) \cap ElemsOf(j.b) = {}
    <2> DEFINE X == Claims(i) \cap Claims(j)
    <2>1. \A v : <<"value", v>> \in X <=> v = i.r /\ v = j.r /\ v # NoResult
      BY ClaimsOf
    <2>2. \A c : <<"block", c>> \in X <=> c \in ElemsOf(i.b) /\ c \in ElemsOf(j.b)
      BY ClaimsOf
    <2>3. \A x \in X : (\E v : x = <<"value", v>>) \/ (\E c : x = <<"block", c>>)
      BY ClaimsOf
    <2> HIDE DEF X
    <2>4. X = {} <=> (\A v : <<"value", v>> \notin X) /\ (\A c : <<"block", c>> \notin X)
      BY <2>3
    <2>5. X = {} <=> (i.r # NoResult => i.r # j.r) /\ ElemsOf(i.b) \cap ElemsOf(j.b) = {}
      BY <2>1, <2>2, <2>4
    <2> QED BY <2>5 DEF X
  <1>5. ASSUME NEW b \in D
        PROVE  Apart(k[b]) <=> \A p, q \in DOMAIN k[b] : p # q =>
                 /\ k[b][p].r # NoResult => k[b][p].r # k[b][q].r
                 /\ ElemsOf(k[b][p].b) \cap ElemsOf(k[b][q].b) = {}
    BY <1>4, Zenon DEF Apart
  <1>6. ASSUME NEW b \in D, NEW c \in D
        PROVE  Claimed(k[b]) \cap Claimed(k[c]) = {} <=>
                 \A p \in DOMAIN k[b] : \A q \in DOMAIN k[c] :
                   /\ k[b][p].r # NoResult => k[b][p].r # k[c][q].r
                   /\ ElemsOf(k[b][p].b) \cap ElemsOf(k[c][q].b) = {}
    <2>1. Claimed(k[b]) \cap Claimed(k[c]) = {} <=>
            \A p \in DOMAIN k[b] : \A q \in DOMAIN k[c] : Claims(k[b][p]) \cap Claims(k[c][q]) = {}
      BY ClaimedBy
    <2> QED BY <1>4, <2>1, Zenon
  <1>7. ASSUME NEW b \in D
        PROVE  (\A c : <<"block", c>> \in Claimed(k[b]) => c \in D /\ b < c)
               <=> \A i \in ElemsOf(k[b]) : ElemsOf(i.b) \subseteq {c \in D : b < c}
    <2>1. \A c : <<"block", c>> \in Claimed(k[b]) <=> \E i \in ElemsOf(k[b]) : c \in ElemsOf(i.b)
      BY ClaimsOf DEF Claimed
    <2> QED BY <2>1
  <1>8. (SingleAssignment(k) /\ \A s, t \in Sites(k, Owns) :
           ElemsOf(k[s[1]][s[2]].b) \cap ElemsOf(k[t[1]][t[2]].b) # {} => s = t)
        <=> (\A b \in D : Apart(k[b])) /\ \A b, c \in D : b # c => Claimed(k[b]) \cap Claimed(k[c]) = {}
    <2> DEFINE Free(b, c, p, q) == /\ k[b][p].r # NoResult => k[b][p].r # k[c][q].r
                                   /\ ElemsOf(k[b][p].b) \cap ElemsOf(k[c][q].b) = {}
               All == \A b, c \in D : \A p \in DOMAIN k[b] : \A q \in DOMAIN k[c] :
                         (b = c /\ p = q) \/ Free(b, c, p, q)
    <2>1. (\A b, c \in D : \A p \in DOMAIN k[b] : \A q \in DOMAIN k[c] :
             k[b][p].r # NoResult /\ k[b][p].r = k[c][q].r => b = c /\ p = q)
          /\ (\A b, c \in D : \A p \in DOMAIN k[b] : \A q \in DOMAIN k[c] :
                ElemsOf(k[b][p].b) \cap ElemsOf(k[c][q].b) # {} => b = c /\ p = q)
          <=> All
      <3> DEFINE V(b, c, p, q) == k[b][p].r # NoResult /\ k[b][p].r = k[c][q].r => b = c /\ p = q
                 O(b, c, p, q) == ElemsOf(k[b][p].b) \cap ElemsOf(k[c][q].b) # {} => b = c /\ p = q
      <3>1. \A b, c, p, q : V(b, c, p, q) /\ O(b, c, p, q) <=> (b = c /\ p = q) \/ Free(b, c, p, q)
        OBVIOUS
      <3>2. SUFFICES (\A b, c \in D : \A p \in DOMAIN k[b] : \A q \in DOMAIN k[c] : V(b, c, p, q))
                     /\ (\A b, c \in D : \A p \in DOMAIN k[b] : \A q \in DOMAIN k[c] : O(b, c, p, q))
                     <=> All
        OBVIOUS
      <3> HIDE DEF V, O, Free
      <3> QED BY <3>1
    <2>2. \A b \in D : Apart(k[b]) <=> \A p, q \in DOMAIN k[b] : p = q \/ Free(b, b, p, q)
      BY <1>5
    <2>3. \A b, c \in D : Claimed(k[b]) \cap Claimed(k[c]) = {} <=>
                             \A p \in DOMAIN k[b] : \A q \in DOMAIN k[c] : Free(b, c, p, q)
      BY <1>6
    <2> HIDE DEF Free
    <2>4. All <=> (\A b \in D : Apart(k[b])) /\ \A b, c \in D : b # c => Claimed(k[b]) \cap Claimed(k[c]) = {}
      <3>1. All <=> /\ \A b \in D : \A p, q \in DOMAIN k[b] : p = q \/ Free(b, b, p, q)
                    /\ \A b, c \in D : b # c => \A p \in DOMAIN k[b] : \A q \in DOMAIN k[c] : Free(b, c, p, q)
        OBVIOUS
      <3> HIDE DEF All
      <3> QED BY <2>2, <2>3, <3>1
    <2> QED BY <1>2, <1>3, <2>1, <2>4
  <1> QED
    BY <1>7, <1>8 DEF WellFormed, IsKernel, SingleOwner, KInv, Good

-----------------------------------------------------------------------------
(* Flattening: one sequence after the other.                               *)
LEMMA FlattenUnfolds ==
  ASSUME NEW n \in Nat, NEW ss, ss = [j \in 1..n |-> ss[j]], \A j \in 1..n : IsSeq(ss[j])
  PROVE  \E g : g[0] = <<>> /\ g[n] = FlattenSeq(ss) /\ \A j \in 1..n : g[j] = g[j - 1] \o ss[j]
  <1>1. Len(ss) = n
    BY FunctionIsSeq
  <1>2. CASE n = 0
    <2>1. FlattenSeq(ss) = ss
      BY <1>1, <1>2 DEF FlattenSeq
    <2>2. ss = <<>>
      BY <1>2
    <2> DEFINE g == [j \in 0..0 |-> <<>>]
    <2>3. g[0] = <<>>
      OBVIOUS
    <2> HIDE DEF g
    <2> QED BY <1>2, <2>1, <2>2, <2>3
  <1>3. CASE n # 0
    <2> DEFINE U == UNION {ElemsOf(ss[j]) : j \in 1..n}
               F == [m \in Nat |-> [x \in Seq(U) |-> IF m + 1 \in 1..n THEN x \o ss[m + 1] ELSE x]]
               Def(f) == [i \in 1..n |-> IF i = 1 THEN ss[i] ELSE f[i - 1] \o ss[i]]
               f0 == CHOOSE f : f = Def(f)
    <2>1. FlattenSeq(ss) = f0[n]
      BY <1>1, <1>3 DEF FlattenSeq
    <2>2. \A j \in 1..n : ss[j] \in Seq(U)
      <3> SUFFICES ASSUME NEW j \in 1..n PROVE ss[j] \in Seq(U)
        OBVIOUS
      <3>1. ss[j] \in Seq(ElemsOf(ss[j])) /\ ElemsOf(ss[j]) \subseteq U
        BY DEF IsSeq
      <3> HIDE DEF U
      <3> QED BY <3>1
    <2> HIDE DEF U
    <2>3. \E f : f = Def(f)
      <3>1. F \in [Nat -> [Seq(U) -> Seq(U)]] /\ <<>> \in Seq(U)
        BY <2>2
      <3>2. PICK g \in [0..n -> Seq(U)] : Unfolds(g, n, <<>>, F)
        <4> HIDE DEF F
        <4> QED BY <3>1, PrefixesUnfold
      <3>3. g[0] = <<>> /\ \A k \in 0..(n - 1) : g[k + 1] = g[k] \o ss[k + 1]
        <4>1. \A k \in 0..(n - 1) : F[k][g[k]] = g[k] \o ss[k + 1]
          <5> SUFFICES ASSUME NEW k \in 0..(n - 1) PROVE F[k][g[k]] = g[k] \o ss[k + 1]
            OBVIOUS
          <5>1. k \in Nat /\ k + 1 \in 1..n /\ g[k] \in Seq(U)
            OBVIOUS
          <5>2. F[k] = [x \in Seq(U) |-> x \o ss[k + 1]]
            BY <5>1
          <5> HIDE DEF F
          <5> QED BY <5>1, <5>2
        <4> HIDE DEF F
        <4> QED BY <3>2, <4>1 DEF Unfolds
      <3> DEFINE h == [i \in 1..n |-> g[i]]
      <3>4. \A i \in 1..n : h[i] = IF i = 1 THEN ss[i] ELSE h[i - 1] \o ss[i]
        <4> SUFFICES ASSUME NEW i \in 1..n PROVE h[i] = IF i = 1 THEN ss[i] ELSE h[i - 1] \o ss[i]
          OBVIOUS
        <4>1. i - 1 \in 0..(n - 1) /\ (i - 1) + 1 = i
          OBVIOUS
        <4>2. g[i] = g[i - 1] \o ss[i]
          BY <3>3, <4>1
        <4>3. CASE i = 1
          <5>1. g[0] \o ss[1] = ss[1]
            BY <2>2, <3>3, <4>3
          <5> QED BY <4>2, <4>3, <5>1
        <4>4. CASE i # 1
          <5>1. h[i - 1] = g[i - 1]
            BY <4>4
          <5> QED BY <4>2, <4>4, <5>1
        <4> QED BY <4>3, <4>4
      <3>5. h = Def(h)
        BY <3>4
      <3> QED BY <3>5
    <2>4. f0 = Def(f0)
      <3> HIDE DEF Def
      <3> QED BY <2>3
    <2> HIDE DEF f0
    <2> DEFINE g == [j \in 0..n |-> IF j = 0 THEN <<>> ELSE f0[j]]
    <2>5. \A j \in 1..n : g[j] = g[j - 1] \o ss[j]
      <3> SUFFICES ASSUME NEW j \in 1..n PROVE g[j] = g[j - 1] \o ss[j]
        OBVIOUS
      <3>1. f0[j] = IF j = 1 THEN ss[j] ELSE f0[j - 1] \o ss[j]
        BY <2>4
      <3> HIDE DEF f0, Def
      <3>2. CASE j = 1
        <4>1. g[j] = ss[1] /\ g[j - 1] = <<>>
          BY <3>1, <3>2
        <4> QED BY <2>2, <3>2, <4>1
      <3>3. CASE j # 1
        BY <3>1, <3>3
      <3> QED BY <3>2, <3>3
    <2>6. g[0] = <<>> /\ g[n] = f0[n]
      BY <1>3
    <2> HIDE DEF g
    <2> QED BY <2>1, <2>5, <2>6
  <1> QED BY <1>2, <1>3

LEMMA FlattenElems ==
  ASSUME NEW n \in Nat, NEW ss, ss = [j \in 1..n |-> ss[j]], \A j \in 1..n : IsSeq(ss[j])
  PROVE  IsSeq(FlattenSeq(ss)) /\ ElemsOf(FlattenSeq(ss)) = UNION {ElemsOf(ss[j]) : j \in 1..n}
  <1>1. PICK g : g[0] = <<>> /\ g[n] = FlattenSeq(ss) /\ \A j \in 1..n : g[j] = g[j - 1] \o ss[j]
    BY FlattenUnfolds
  <1> DEFINE P == {m \in Nat : m <= n => IsSeq(g[m]) /\ ElemsOf(g[m]) = UNION {ElemsOf(ss[j]) : j \in 1..m}}
  <1>2. 0 \in P
    <2>1. IsSeq(<<>>) /\ ElemsOf(<<>>) = {}
      BY DEF IsSeq, ElemsOf
    <2> QED BY <1>1, <2>1
  <1>3. ASSUME NEW m \in Nat, m \in P PROVE m + 1 \in P
    <2> SUFFICES ASSUME m + 1 <= n
                 PROVE  IsSeq(g[m + 1]) /\ ElemsOf(g[m + 1]) = UNION {ElemsOf(ss[j]) : j \in 1..(m + 1)}
      OBVIOUS
    <2>1. g[m + 1] = g[m] \o ss[m + 1] /\ IsSeq(ss[m + 1])
      <3>1. m + 1 \in 1..n /\ (m + 1) - 1 = m
        OBVIOUS
      <3> QED BY <1>1, <3>1
    <2>2. IsSeq(g[m]) /\ ElemsOf(g[m]) = UNION {ElemsOf(ss[j]) : j \in 1..m}
      BY <1>3
    <2>3. IsSeq(g[m + 1]) /\ ElemsOf(g[m + 1]) = ElemsOf(g[m]) \cup ElemsOf(ss[m + 1])
      BY <2>1, <2>2, Concat
    <2>4. 1..(m + 1) = (1..m) \cup {m + 1}
      OBVIOUS
    <2> QED BY <2>2, <2>3, <2>4
  <1>4. n \in P
    <2> HIDE DEF P
    <2> QED BY <1>2, <1>3, NatSetInduction
  <1>5. n <= n
    OBVIOUS
  <1> QED BY <1>1, <1>4, <1>5

LEMMA NothingIsGood == Good(<<>>) /\ Claimed(<<>>) = {} /\ ElemsOf(<<>>) = {} /\ IsSeq(<<>>)
  BY DEF Good, Claimed, ElemsOf, IsSeq, Apart

LEMMA OneIsGood ==
  ASSUME NEW i
  PROVE  /\ IsIns(i) => Good(<<i>>)
         /\ Claimed(<<i>>) = Claims(i) /\ ElemsOf(<<i>>) = {i} /\ IsSeq(<<i>>) /\ Len(<<i>>) = 1
  <1>1. ElemsOf(<<i>>) = {i} /\ DOMAIN <<i>> = {1}
    BY DEF ElemsOf
  <1> QED BY <1>1 DEF Good, Claimed, IsSeq, Apart

(* The parts of a block claim nothing twice, and no two the same.          *)
LEMMA FlattenGood ==
  ASSUME NEW n \in Nat, NEW ss, ss = [j \in 1..n |-> ss[j]], \A j \in 1..n : Good(ss[j]),
         \A p, q \in 1..n : p # q => Claimed(ss[p]) \cap Claimed(ss[q]) = {}
  PROVE  Good(FlattenSeq(ss)) /\ Claimed(FlattenSeq(ss)) = UNION {Claimed(ss[j]) : j \in 1..n}
  <1>0. \A j \in 1..n : IsSeq(ss[j])
    BY DEF Good
  <1>1. PICK g : g[0] = <<>> /\ g[n] = FlattenSeq(ss) /\ \A j \in 1..n : g[j] = g[j - 1] \o ss[j]
    BY <1>0, FlattenUnfolds
  <1> DEFINE P == {m \in Nat : m <= n => Good(g[m]) /\ Claimed(g[m]) = UNION {Claimed(ss[j]) : j \in 1..m}}
  <1>2. 0 \in P
    BY <1>1, NothingIsGood
  <1>3. ASSUME NEW m \in Nat, m \in P PROVE m + 1 \in P
    <2> SUFFICES ASSUME m + 1 <= n
                 PROVE  Good(g[m + 1]) /\ Claimed(g[m + 1]) = UNION {Claimed(ss[j]) : j \in 1..(m + 1)}
      OBVIOUS
    <2>1. g[m + 1] = g[m] \o ss[m + 1] /\ Good(ss[m + 1])
      <3>1. m + 1 \in 1..n /\ (m + 1) - 1 = m
        OBVIOUS
      <3> QED BY <1>1, <3>1
    <2>2. Good(g[m]) /\ Claimed(g[m]) = UNION {Claimed(ss[j]) : j \in 1..m}
      BY <1>3
    <2>3. Claimed(g[m]) \cap Claimed(ss[m + 1]) = {}
      <3>1. \A j \in 1..m : Claimed(ss[j]) \cap Claimed(ss[m + 1]) = {}
        OBVIOUS
      <3> QED BY <2>2, <3>1
    <2>4. IsSeq(g[m]) /\ IsSeq(ss[m + 1])
      BY <2>1, <2>2 DEF Good
    <2>5. Good(g[m + 1]) /\ Claimed(g[m + 1]) = Claimed(g[m]) \cup Claimed(ss[m + 1])
      BY <2>1, <2>2, <2>3, <2>4, ConcatApart
    <2>6. 1..(m + 1) = (1..m) \cup {m + 1}
      OBVIOUS
    <2> QED BY <2>2, <2>5, <2>6
  <1>4. n \in P
    <2> HIDE DEF P
    <2> QED BY <1>2, <1>3, NatSetInduction
  <1>5. n <= n
    OBVIOUS
  <1> QED BY <1>1, <1>4, <1>5

LEMMA GoodFacts ==
  ASSUME NEW blk, Good(blk)
  PROVE  /\ IsSeq(blk) /\ Len(blk) \in Nat /\ DOMAIN blk = 1..Len(blk)
         /\ \A j \in DOMAIN blk : blk[j] \in ElemsOf(blk) /\ IsIns(blk[j])
         /\ \A i \in ElemsOf(blk) : IsIns(i) /\ Claims(i) \subseteq Claimed(blk)
  BY SeqFacts DEF Good, ElemsOf, Claimed

(* A block with some of its instructions left out, or replaced by some     *)
(* that claim no more.                                                     *)
LEMMA Spliced ==
  ASSUME NEW blk, Good(blk), NEW ss, DOMAIN ss = DOMAIN blk, ss = [j \in DOMAIN blk |-> ss[j]],
         \A j \in DOMAIN blk : Good(ss[j]) /\ Claimed(ss[j]) \subseteq Claims(blk[j])
  PROVE  Good(FlattenSeq(ss)) /\ Claimed(FlattenSeq(ss)) \subseteq Claimed(blk)
  <1>1. Len(blk) \in Nat /\ DOMAIN blk = 1..Len(blk)
    BY GoodFacts
  <1>2. \A p, q \in DOMAIN blk : p # q => Claimed(ss[p]) \cap Claimed(ss[q]) = {}
    BY DEF Good, Apart
  <1>3. Good(FlattenSeq(ss)) /\ Claimed(FlattenSeq(ss)) = UNION {Claimed(ss[j]) : j \in DOMAIN blk}
    BY <1>1, <1>2, FlattenGood
  <1>4. \A j \in DOMAIN blk : Claims(blk[j]) \subseteq Claimed(blk)
    BY DEF Claimed, ElemsOf
  <1> QED BY <1>3, <1>4

(* A block with some of its instructions left out.                         *)
LEMMA Filtered ==
  ASSUME NEW blk, Good(blk), NEW ss, ss = [j \in DOMAIN blk |-> ss[j]],
         \A j \in DOMAIN blk : ss[j] \in {<<>>, <<blk[j]>>}
  PROVE  /\ Good(FlattenSeq(ss)) /\ Claimed(FlattenSeq(ss)) \subseteq Claimed(blk)
         /\ ElemsOf(FlattenSeq(ss)) = {blk[j] : j \in {h \in DOMAIN blk : ss[h] # <<>>}}
  <1>1. Len(blk) \in Nat /\ DOMAIN blk = 1..Len(blk) /\ \A j \in DOMAIN blk : IsIns(blk[j])
    BY GoodFacts
  <1>2. \A j \in DOMAIN blk : Good(ss[j]) /\ Claimed(ss[j]) \subseteq Claims(blk[j]) /\ IsSeq(ss[j])
    BY <1>1, NothingIsGood, OneIsGood
  <1>3. Good(FlattenSeq(ss)) /\ Claimed(FlattenSeq(ss)) \subseteq Claimed(blk)
    BY <1>2, Spliced
  <1>4. ElemsOf(FlattenSeq(ss)) = UNION {ElemsOf(ss[j]) : j \in DOMAIN blk}
    BY <1>1, <1>2, FlattenElems
  <1>5. \A j \in DOMAIN blk : ElemsOf(ss[j]) = IF ss[j] # <<>> THEN {blk[j]} ELSE {}
    BY NothingIsGood, OneIsGood
  <1> QED BY <1>3, <1>4, <1>5

(* A block with every instruction rewritten in place.                      *)
LEMMA Mapped ==
  ASSUME NEW blk, Good(blk), NEW new, new = [j \in DOMAIN blk |-> new[j]],
         \A j \in DOMAIN blk : IsIns(new[j]) /\ Claims(new[j]) \subseteq Claims(blk[j])
  PROVE  Good(new) /\ Claimed(new) \subseteq Claimed(blk)
  <1>1. Len(blk) \in Nat /\ DOMAIN blk = 1..Len(blk)
    BY GoodFacts
  <1>2. IsSeq(new) /\ DOMAIN new = DOMAIN blk
    BY <1>1, FunctionIsSeq
  <1>3. Apart(new)
    BY <1>2 DEF Good, Apart
  <1>4. \A i \in ElemsOf(new) : IsIns(i)
    BY <1>2 DEF ElemsOf
  <1>5. Claimed(new) \subseteq Claimed(blk)
    BY <1>2 DEF Claimed, ElemsOf
  <1> QED BY <1>2, <1>3, <1>4, <1>5 DEF Good

-----------------------------------------------------------------------------
(* The folds the passes are written with, one turn of each: t names the    *)
(* fold and holds what its step takes besides the running value x and the  *)
(* element e.                                                              *)
Turn(t, x, e) ==
    IF t[1] = "sweep" THEN Sweep(x, e)
    ELSE IF t[1] = "simplify" THEN SimplifyOnce(x, e)
    ELSE IF t[1] = "copy_prop" THEN CopyPropOnce(x, e)
    ELSE IF t[1] = "follow" THEN Redirected(t[2], x)
    ELSE IF t[1] = "cse" THEN CseBlock(x, e)
    ELSE IF t[1] = "licm" THEN LicmBlock(DefBlocks(t[2]), x, e)
    ELSE IF t[1] = "if_conversion" THEN IfConvertBlock(x, e)
    ELSE IF t[1] = "chain" THEN Longer(t[2], t[3], t[4], x, e)
    ELSE IF t[1] = "chains" THEN WithChain(t[2], t[3], x, e)
    ELSE IF t[1] = "iteration" THEN CloneIteration(x, t[2], e - 1)
    ELSE IF t[1] = "unroll" THEN UnrollIns(x, e)
    ELSE IF t[1] = "unroll_block" THEN UnrollBlock(x, e)
    ELSE IF t[1] = "run" THEN Extended(t[2], t[3], t[4], t[5], x, e)
    ELSE IF t[1] = "runs" THEN WithRun(t[2], t[3], t[4], x, e)
    ELSE VectorizeBlock(x, e)

(* The function FoldLeft chooses its result from, over the prefixes ...    *)
FoldsTo(f, t, x, s, D) ==
    f = [S \in SUBSET D |-> IF S = {} THEN x ELSE Turn(t, f[S \ {Max(S)}], s[Max(S)])]
(* ... and the running values it goes through, from x to y.                *)
Goes(g, t, x, s, y) ==
    g[0] = x /\ g[Len(s)] = y /\ \A n \in 1..Len(s) : g[n] = Turn(t, g[n - 1], s[n])

LEMMA MaxOfTop ==
  ASSUME NEW n \in Nat, NEW S \in SUBSET (1..(n + 1)), n + 1 \in S
  PROVE  Max(S) = n + 1
  <1> DEFINE Top(m) == m \in S /\ \A y \in S : m >= y
  <1>1. Top(n + 1)
    OBVIOUS
  <1>2. \A m : Top(m) => m = n + 1
    OBVIOUS
  <1>3. Max(S) = CHOOSE m : Top(m)
    BY DEF Max
  <1> HIDE DEF Top
  <1> QED BY <1>1, <1>2, <1>3

(* Such a function exists: by induction on the length of the sequence.     *)
LEMMA FoldExists ==
  ASSUME NEW t, NEW x, NEW s
  PROVE  \A n \in Nat : \E f : FoldsTo(f, t, x, s, 1..n)
  <1> DEFINE P == {n \in Nat : \E f : FoldsTo(f, t, x, s, 1..n)}
  <1>1. 0 \in P
    <2> DEFINE f == [S \in SUBSET (1..0) |-> x]
    <2>1. \A S \in SUBSET (1..0) : f[S] = IF S = {} THEN x ELSE Turn(t, f[S \ {Max(S)}], s[Max(S)])
      OBVIOUS
    <2>2. FoldsTo(f, t, x, s, 1..0)
      <3>1. f = [S \in SUBSET (1..0) |-> f[S]]
        OBVIOUS
      <3> HIDE DEF f
      <3> QED BY <2>1, <3>1, Zenon DEF FoldsTo
    <2> QED BY <2>2
  <1>2. ASSUME NEW n \in Nat, n \in P PROVE n + 1 \in P
    <2>1. PICK f : FoldsTo(f, t, x, s, 1..n)
      BY <1>2
    <2> DEFINE h == [S \in SUBSET (1..(n + 1)) |->
                       IF n + 1 \in S THEN Turn(t, f[S \ {n + 1}], s[n + 1]) ELSE f[S]]
    <2>2. ASSUME NEW S \in SUBSET (1..(n + 1))
          PROVE  h[S] = IF S = {} THEN x ELSE Turn(t, h[S \ {Max(S)}], s[Max(S)])
      <3>1. CASE n + 1 \in S
        <4>1. Max(S) = n + 1 /\ S # {}
          BY <3>1, MaxOfTop
        <4>2. S \ {n + 1} \in SUBSET (1..(n + 1)) /\ n + 1 \notin S \ {n + 1}
          OBVIOUS
        <4>3. h[S \ {n + 1}] = f[S \ {n + 1}]
          BY <4>2
        <4>4. h[S] = Turn(t, f[S \ {n + 1}], s[n + 1])
          BY <3>1
        <4> QED BY <4>1, <4>3, <4>4, Zenon
      <3>2. CASE n + 1 \notin S
        <4>1. S \in SUBSET (1..n)
          BY <3>2
        <4>2. f[S] = IF S = {} THEN x ELSE Turn(t, f[S \ {Max(S)}], s[Max(S)])
          BY <2>1, <4>1, Zenon DEF FoldsTo
        <4>3. h[S] = f[S] /\ h[S \ {Max(S)}] = f[S \ {Max(S)}]
          <5>1. S \ {Max(S)} \in SUBSET (1..(n + 1)) /\ n + 1 \notin S \ {Max(S)}
            BY <3>2
          <5> QED BY <3>2, <5>1
        <4> HIDE DEF h
        <4> QED BY <4>2, <4>3, Zenon
      <3> QED BY <3>1, <3>2
    <2>3. h = [S \in SUBSET (1..(n + 1)) |-> h[S]]
      OBVIOUS
    <2>4. FoldsTo(h, t, x, s, 1..(n + 1))
      <3> HIDE DEF h
      <3> QED BY <2>2, <2>3, Zenon DEF FoldsTo
    <2> HIDE DEF h
    <2> QED BY <2>4
  <1> HIDE DEF P
  <1>3. Nat \subseteq P
    BY <1>1, <1>2, NatSetInduction
  <1> QED BY <1>3 DEF P

(* What FoldLeft is, once the function it chooses is known to exist.       *)
LEMMA FoldGoes ==
  ASSUME NEW t, NEW x, NEW s, IsSeq(s)
  PROVE  /\ \E f : FoldsTo(f, t, x, s, DOMAIN s)
         /\ \A f : FoldsTo(f, t, x, s, DOMAIN s) => \E g : Goes(g, t, x, s, f[DOMAIN s])
  <1>1. Len(s) \in Nat /\ DOMAIN s = 1..Len(s)
    BY SeqFacts
  <1>2. \E f : FoldsTo(f, t, x, s, DOMAIN s)
    BY <1>1, FoldExists
  <1>3. ASSUME NEW f, FoldsTo(f, t, x, s, DOMAIN s) PROVE \E g : Goes(g, t, x, s, f[DOMAIN s])
    <2> DEFINE g == [n \in 0..Len(s) |-> f[1..n]]
    <2>1. \A S \in SUBSET (1..Len(s)) : f[S] = IF S = {} THEN x ELSE Turn(t, f[S \ {Max(S)}], s[Max(S)])
      BY <1>1, <1>3, Zenon DEF FoldsTo
    <2>2. g[0] = x
      <3>1. f[{}] = x
        BY <2>1, Zenon
      <3>2. 1..0 = {} /\ 0 \in 0..Len(s)
        BY <1>1
      <3> QED BY <3>1, <3>2
    <2>3. g[Len(s)] = f[DOMAIN s]
      BY <1>1
    <2>4. ASSUME NEW n \in 1..Len(s) PROVE g[n] = Turn(t, g[n - 1], s[n])
      <3>1. /\ n - 1 \in Nat /\ (n - 1) + 1 = n /\ n \in 1..n /\ 1..n \in SUBSET (1..Len(s)) /\ 1..n # {}
            /\ (1..n) \ {n} = 1..(n - 1) /\ n \in 0..Len(s) /\ n - 1 \in 0..Len(s)
        <4>1. n \in Nat /\ 1 <= n /\ n <= Len(s)
          BY <1>1
        <4>2. n - 1 \in Nat /\ (n - 1) + 1 = n /\ n \in 1..n /\ n \in 0..Len(s) /\ n - 1 \in 0..Len(s)
          BY <1>1, <4>1
        <4>3. 1..n \in SUBSET (1..Len(s)) /\ 1..n # {}
          <5>1. \A m \in 1..n : m \in 1..Len(s)
            BY <1>1, <4>1
          <5> QED BY <4>2, <5>1
        <4>4. (1..n) \ {n} = 1..(n - 1)
          BY <4>1
        <4> QED BY <4>2, <4>3, <4>4
      <3>2. Max(1..n) = n
        <4> DEFINE m == n - 1
        <4>1. m \in Nat /\ m + 1 = n /\ 1..n \in SUBSET (1..(m + 1)) /\ m + 1 \in 1..n
          BY <3>1
        <4> HIDE DEF m
        <4>2. Max(1..n) = m + 1
          BY <4>1, MaxOfTop
        <4> QED BY <4>1, <4>2
      <3>3. f[1..n] = Turn(t, f[(1..n) \ {n}], s[n])
        BY <2>1, <3>1, <3>2, Zenon
      <3>4. g[n] = f[1..n] /\ g[n - 1] = f[1..(n - 1)]
        BY <3>1
      <3> HIDE DEF g
      <3> QED BY <3>1, <3>3, <3>4, Zenon
    <2> HIDE DEF g
    <2>5. Goes(g, t, x, s, f[DOMAIN s])
      BY <2>2, <2>3, <2>4 DEF Goes
    <2> QED BY <2>5
  <1> QED BY <1>2, <1>3

-----------------------------------------------------------------------------
(* Each fold of the passes is what its turns go through.                   *)
LEMMA SweepFold ==
  ASSUME NEW k, NEW s, IsSeq(s)
  PROVE  LET t == <<"sweep">>
         IN \E f : FoldsTo(f, t, k, s, DOMAIN s) /\ FoldLeft(Sweep, k, s) = f[DOMAIN s]
  <1> DEFINE t == <<"sweep">>
             P(f) == f = [S \in SUBSET DOMAIN s |->
                            IF S = {} THEN k ELSE Sweep(f[S \ {Max(S)}], s[Max(S)])]
             F == CHOOSE f : P(f)
  <1>1. FoldLeft(Sweep, k, s) = F[DOMAIN s]
    BY DEF FoldLeft, MapThenFoldSet
  <1>2. \A f : FoldsTo(f, t, k, s, DOMAIN s) <=> P(f)
    <2>1. \A x, e : Turn(t, x, e) = Sweep(x, e)
      BY DEF Turn
    <2> HIDE DEF t
    <2> QED BY ONLY <2>1, Zenon DEF FoldsTo, P
  <1>3. \E f : FoldsTo(f, t, k, s, DOMAIN s)
    BY FoldGoes
  <1> HIDE DEF P
  <1>4. P(F)
    BY <1>2, <1>3
  <1> QED BY <1>1, <1>2, <1>4

LEMMA SimplifyFold ==
  ASSUME NEW C, NEW blk, NEW s, IsSeq(s)
  PROVE  LET t == <<"simplify", C>>
         IN \E f : FoldsTo(f, t, blk, s, DOMAIN s) /\ FoldLeft(SimplifyOnce, blk, s) = f[DOMAIN s]
  <1> DEFINE t == <<"simplify", C>>
             P(f) == f = [S \in SUBSET DOMAIN s |->
                            IF S = {} THEN blk ELSE SimplifyOnce(f[S \ {Max(S)}], s[Max(S)])]
             F == CHOOSE f : P(f)
  <1>1. FoldLeft(SimplifyOnce, blk, s) = F[DOMAIN s]
    BY DEF FoldLeft, MapThenFoldSet
  <1>2. \A f : FoldsTo(f, t, blk, s, DOMAIN s) <=> P(f)
    <2>1. \A x, e : Turn(t, x, e) = SimplifyOnce(x, e)
      BY DEF Turn
    <2> HIDE DEF t
    <2> QED BY ONLY <2>1, Zenon DEF FoldsTo, P
  <1>3. \E f : FoldsTo(f, t, blk, s, DOMAIN s)
    BY FoldGoes
  <1> HIDE DEF P
  <1>4. P(F)
    BY <1>2, <1>3
  <1> QED BY <1>1, <1>2, <1>4

LEMMA CopyPropFold ==
  ASSUME NEW C, NEW blk, NEW s, IsSeq(s)
  PROVE  LET t == <<"copy_prop", C>>
         IN \E f : FoldsTo(f, t, blk, s, DOMAIN s) /\ FoldLeft(CopyPropOnce, blk, s) = f[DOMAIN s]
  <1> DEFINE t == <<"copy_prop", C>>
             P(f) == f = [S \in SUBSET DOMAIN s |->
                            IF S = {} THEN blk ELSE CopyPropOnce(f[S \ {Max(S)}], s[Max(S)])]
             F == CHOOSE f : P(f)
  <1>1. FoldLeft(CopyPropOnce, blk, s) = F[DOMAIN s]
    BY DEF FoldLeft, MapThenFoldSet
  <1>2. \A f : FoldsTo(f, t, blk, s, DOMAIN s) <=> P(f)
    <2>1. \A x, e : Turn(t, x, e) = CopyPropOnce(x, e)
      BY DEF Turn
    <2> HIDE DEF t
    <2> QED BY ONLY <2>1, Zenon DEF FoldsTo, P
  <1>3. \E f : FoldsTo(f, t, blk, s, DOMAIN s)
    BY FoldGoes
  <1> HIDE DEF P
  <1>4. P(F)
    BY <1>2, <1>3
  <1> QED BY <1>1, <1>2, <1>4

LEMMA CseFold ==
  ASSUME NEW D, NEW k, NEW s, IsSeq(s)
  PROVE  LET t == <<"cse", D>>
         IN \E f : FoldsTo(f, t, k, s, DOMAIN s) /\ FoldLeft(CseBlock, k, s) = f[DOMAIN s]
  <1> DEFINE t == <<"cse", D>>
             P(f) == f = [S \in SUBSET DOMAIN s |->
                            IF S = {} THEN k ELSE CseBlock(f[S \ {Max(S)}], s[Max(S)])]
             F == CHOOSE f : P(f)
  <1>1. FoldLeft(CseBlock, k, s) = F[DOMAIN s]
    BY DEF FoldLeft, MapThenFoldSet
  <1>2. \A f : FoldsTo(f, t, k, s, DOMAIN s) <=> P(f)
    <2>1. \A x, e : Turn(t, x, e) = CseBlock(x, e)
      BY DEF Turn
    <2> HIDE DEF t
    <2> QED BY ONLY <2>1, Zenon DEF FoldsTo, P
  <1>3. \E f : FoldsTo(f, t, k, s, DOMAIN s)
    BY FoldGoes
  <1> HIDE DEF P
  <1>4. P(F)
    BY <1>2, <1>3
  <1> QED BY <1>1, <1>2, <1>4

LEMMA IfFold ==
  ASSUME NEW k, NEW s, IsSeq(s)
  PROVE  LET t == <<"if_conversion">>
         IN \E f : FoldsTo(f, t, k, s, DOMAIN s) /\ FoldLeft(IfConvertBlock, k, s) = f[DOMAIN s]
  <1> DEFINE t == <<"if_conversion">>
             P(f) == f = [S \in SUBSET DOMAIN s |->
                            IF S = {} THEN k ELSE IfConvertBlock(f[S \ {Max(S)}], s[Max(S)])]
             F == CHOOSE f : P(f)
  <1>1. FoldLeft(IfConvertBlock, k, s) = F[DOMAIN s]
    BY DEF FoldLeft, MapThenFoldSet
  <1>2. \A f : FoldsTo(f, t, k, s, DOMAIN s) <=> P(f)
    <2>1. \A x, e : Turn(t, x, e) = IfConvertBlock(x, e)
      BY DEF Turn
    <2> HIDE DEF t
    <2> QED BY ONLY <2>1, Zenon DEF FoldsTo, P
  <1>3. \E f : FoldsTo(f, t, k, s, DOMAIN s)
    BY FoldGoes
  <1> HIDE DEF P
  <1>4. P(F)
    BY <1>2, <1>3
  <1> QED BY <1>1, <1>2, <1>4

LEMMA UnrollInsFold ==
  ASSUME NEW blk, NEW b, NEW st, NEW s, IsSeq(s)
  PROVE  LET t == <<"unroll", blk, b>>
         IN \E f : FoldsTo(f, t, st, s, DOMAIN s) /\ FoldLeft(UnrollIns, st, s) = f[DOMAIN s]
  <1> DEFINE t == <<"unroll", blk, b>>
             P(f) == f = [S \in SUBSET DOMAIN s |->
                            IF S = {} THEN st ELSE UnrollIns(f[S \ {Max(S)}], s[Max(S)])]
             F == CHOOSE f : P(f)
  <1>1. FoldLeft(UnrollIns, st, s) = F[DOMAIN s]
    BY DEF FoldLeft, MapThenFoldSet
  <1>2. \A f : FoldsTo(f, t, st, s, DOMAIN s) <=> P(f)
    <2>1. \A x, e : Turn(t, x, e) = UnrollIns(x, e)
      BY DEF Turn
    <2> HIDE DEF t
    <2> QED BY ONLY <2>1, Zenon DEF FoldsTo, P
  <1>3. \E f : FoldsTo(f, t, st, s, DOMAIN s)
    BY FoldGoes
  <1> HIDE DEF P
  <1>4. P(F)
    BY <1>2, <1>3
  <1> QED BY <1>1, <1>2, <1>4

LEMMA UnrollBlockFold ==
  ASSUME NEW st, NEW s, IsSeq(s)
  PROVE  LET t == <<"unroll_block">>
         IN \E f : FoldsTo(f, t, st, s, DOMAIN s) /\ FoldLeft(UnrollBlock, st, s) = f[DOMAIN s]
  <1> DEFINE t == <<"unroll_block">>
             P(f) == f = [S \in SUBSET DOMAIN s |->
                            IF S = {} THEN st ELSE UnrollBlock(f[S \ {Max(S)}], s[Max(S)])]
             F == CHOOSE f : P(f)
  <1>1. FoldLeft(UnrollBlock, st, s) = F[DOMAIN s]
    BY DEF FoldLeft, MapThenFoldSet
  <1>2. \A f : FoldsTo(f, t, st, s, DOMAIN s) <=> P(f)
    <2>1. \A x, e : Turn(t, x, e) = UnrollBlock(x, e)
      BY DEF Turn
    <2> HIDE DEF t
    <2> QED BY ONLY <2>1, Zenon DEF FoldsTo, P
  <1>3. \E f : FoldsTo(f, t, st, s, DOMAIN s)
    BY FoldGoes
  <1> HIDE DEF P
  <1>4. P(F)
    BY <1>2, <1>3
  <1> QED BY <1>1, <1>2, <1>4

LEMMA VectorizeFold ==
  ASSUME NEW k, NEW s, IsSeq(s)
  PROVE  LET t == <<"vectorize">>
         IN \E f : FoldsTo(f, t, k, s, DOMAIN s) /\ FoldLeft(VectorizeBlock, k, s) = f[DOMAIN s]
  <1> DEFINE t == <<"vectorize">>
             P(f) == f = [S \in SUBSET DOMAIN s |->
                            IF S = {} THEN k ELSE VectorizeBlock(f[S \ {Max(S)}], s[Max(S)])]
             F == CHOOSE f : P(f)
  <1>1. FoldLeft(VectorizeBlock, k, s) = F[DOMAIN s]
    BY DEF FoldLeft, MapThenFoldSet
  <1>2. \A f : FoldsTo(f, t, k, s, DOMAIN s) <=> P(f)
    <2>1. \A x, e : Turn(t, x, e) = VectorizeBlock(x, e)
      BY DEF Turn
    <2> HIDE DEF t
    <2> QED BY ONLY <2>1, Zenon DEF FoldsTo, P
  <1>3. \E f : FoldsTo(f, t, k, s, DOMAIN s)
    BY FoldGoes
  <1> HIDE DEF P
  <1>4. P(F)
    BY <1>2, <1>3
  <1> QED BY <1>1, <1>2, <1>4

LEMMA FollowFold ==
  ASSUME NEW map, NEW v, NEW s, s = Count(Cardinality(DOMAIN map)), IsSeq(s)
  PROVE  LET t == <<"follow", map>>
         IN \E f : FoldsTo(f, t, v, s, DOMAIN s) /\ Terminal(map, v) = f[DOMAIN s]
  <1> DEFINE t == <<"follow", map>>
             P(f) == f = [S \in SUBSET DOMAIN s |->
                            IF S = {} THEN v ELSE Redirected(map, f[S \ {Max(S)}])]
             F == CHOOSE f : P(f)
  <1>1. Terminal(map, v) = F[DOMAIN s]
    BY DEF Terminal, FoldLeft, MapThenFoldSet
  <1>2. \A f : FoldsTo(f, t, v, s, DOMAIN s) <=> P(f)
    <2>1. \A x, e : Turn(t, x, e) = Redirected(map, x)
      BY DEF Turn
    <2> HIDE DEF t
    <2> QED BY ONLY <2>1, Zenon DEF FoldsTo, P
  <1>3. \E f : FoldsTo(f, t, v, s, DOMAIN s)
    BY FoldGoes
  <1> HIDE DEF P
  <1>4. P(F)
    BY <1>2, <1>3
  <1> QED BY <1>1, <1>2, <1>4

LEMMA LicmFold ==
  ASSUME NEW k, NEW s, s = Append(Descending(Nested(k)), Body), IsSeq(s)
  PROVE  LET t == <<"licm", k>>
         IN \E f : FoldsTo(f, t, k, s, DOMAIN s) /\ Licm(k) = EliminateDeadValues(f[DOMAIN s])
  <1> DEFINE t == <<"licm", k>>
             P(f) == f = [S \in SUBSET DOMAIN s |->
                            IF S = {} THEN k ELSE LicmBlock(DefBlocks(k), f[S \ {Max(S)}], s[Max(S)])]
             F == CHOOSE f : P(f)
  <1>1. Licm(k) = EliminateDeadValues(F[DOMAIN s])
    BY DEF Licm, FoldLeft, MapThenFoldSet
  <1>2. \A f : FoldsTo(f, t, k, s, DOMAIN s) <=> P(f)
    <2>1. \A x, e : Turn(t, x, e) = LicmBlock(DefBlocks(k), x, e)
      BY DEF Turn
    <2> HIDE DEF t
    <2> QED BY ONLY <2>1, Zenon DEF FoldsTo, P
  <1>3. \E f : FoldsTo(f, t, k, s, DOMAIN s)
    BY FoldGoes
  <1> HIDE DEF P
  <1>4. P(F)
    BY <1>2, <1>3
  <1> QED BY <1>1, <1>2, <1>4

LEMMA ChainFold ==
  ASSUME NEW blk, NEW cur, NEW fused, NEW pinned, NEW s, s = Reverse(Count(cur - 1)), IsSeq(s)
  PROVE  LET t == <<"chain", blk, fused, pinned>>
         IN \E f : FoldsTo(f, t, <<cur>>, s, DOMAIN s) /\ Chain(blk, cur, fused, pinned) = f[DOMAIN s]
  <1> DEFINE t == <<"chain", blk, fused, pinned>>
             P(f) == f = [S \in SUBSET DOMAIN s |->
                            IF S = {} THEN <<cur>> ELSE Longer(blk, fused, pinned, f[S \ {Max(S)}], s[Max(S)])]
             F == CHOOSE f : P(f)
  <1>1. Chain(blk, cur, fused, pinned) = F[DOMAIN s]
    BY DEF Chain, FoldLeft, MapThenFoldSet
  <1>2. \A f : FoldsTo(f, t, <<cur>>, s, DOMAIN s) <=> P(f)
    <2>1. \A x, e : Turn(t, x, e) = Longer(blk, fused, pinned, x, e)
      BY DEF Turn
    <2> HIDE DEF t
    <2> QED BY ONLY <2>1, Zenon DEF FoldsTo, P
  <1>3. \E f : FoldsTo(f, t, <<cur>>, s, DOMAIN s)
    BY FoldGoes
  <1> HIDE DEF P
  <1>4. P(F)
    BY <1>2, <1>3
  <1> QED BY <1>1, <1>2, <1>4

LEMMA ChainsFold ==
  ASSUME NEW blk, NEW pinned, NEW s, s = Reverse(Count(Len(blk))), IsSeq(s)
  PROVE  LET t == <<"chains", blk, pinned>>
         IN \E f : FoldsTo(f, t, [chains |-> {}, fused |-> {}], s, DOMAIN s) /\ Chains(blk, pinned) = f[DOMAIN s].chains
  <1> DEFINE t == <<"chains", blk, pinned>>
             P(f) == f = [S \in SUBSET DOMAIN s |->
                            IF S = {} THEN [chains |-> {}, fused |-> {}] ELSE WithChain(blk, pinned, f[S \ {Max(S)}], s[Max(S)])]
             F == CHOOSE f : P(f)
  <1>1. Chains(blk, pinned) = F[DOMAIN s].chains
    BY DEF Chains, FoldLeft, MapThenFoldSet
  <1>2. \A f : FoldsTo(f, t, [chains |-> {}, fused |-> {}], s, DOMAIN s) <=> P(f)
    <2>1. \A x, e : Turn(t, x, e) = WithChain(blk, pinned, x, e)
      BY DEF Turn
    <2> HIDE DEF t
    <2> QED BY ONLY <2>1, Zenon DEF FoldsTo, P
  <1>3. \E f : FoldsTo(f, t, [chains |-> {}, fused |-> {}], s, DOMAIN s)
    BY FoldGoes
  <1> HIDE DEF P
  <1>4. P(F)
    BY <1>2, <1>3
  <1> QED BY <1>1, <1>2, <1>4

LEMMA IterationFold ==
  ASSUME NEW st, NEW i, NEW b, NEW R, NEW blk, NEW trips, NEW s, s = Count(trips), IsSeq(s)
  PROVE  LET t == <<"iteration", i, b, R, blk>>
         IN \E f : FoldsTo(f, t, st, s, DOMAIN s) /\ Iterations(st, i, trips) = f[DOMAIN s]
  <1> DEFINE t == <<"iteration", i, b, R, blk>>
             P(f) == f = [S \in SUBSET DOMAIN s |->
                            IF S = {} THEN st ELSE CloneIteration(f[S \ {Max(S)}], i, s[Max(S)] - 1)]
             F == CHOOSE f : P(f)
  <1>1. Iterations(st, i, trips) = F[DOMAIN s]
    BY DEF Iterations, FoldLeft, MapThenFoldSet
  <1>2. \A f : FoldsTo(f, t, st, s, DOMAIN s) <=> P(f)
    <2>1. \A x, e : Turn(t, x, e) = CloneIteration(x, i, e - 1)
      BY DEF Turn
    <2> HIDE DEF t
    <2> QED BY ONLY <2>1, Zenon DEF FoldsTo, P
  <1>3. \E f : FoldsTo(f, t, st, s, DOMAIN s)
    BY FoldGoes
  <1> HIDE DEF P
  <1>4. P(F)
    BY <1>2, <1>3
  <1> QED BY <1>1, <1>2, <1>4

LEMMA RunFold ==
  ASSUME NEW k, NEW b, NEW h, NEW skip, NEW s, s = Ascending(Window(k[b], h)), IsSeq(s)
  PROVE  LET t == <<"run", k, b, h, skip>>
         IN \E f : FoldsTo(f, t, [run |-> <<h>>, ended |-> FALSE], s, DOMAIN s) /\ RunFrom(k, b, h, skip) = f[DOMAIN s].run
  <1> DEFINE t == <<"run", k, b, h, skip>>
             P(f) == f = [S \in SUBSET DOMAIN s |->
                            IF S = {} THEN [run |-> <<h>>, ended |-> FALSE] ELSE Extended(k, b, h, skip, f[S \ {Max(S)}], s[Max(S)])]
             F == CHOOSE f : P(f)
  <1>1. RunFrom(k, b, h, skip) = F[DOMAIN s].run
    BY DEF RunFrom, FoldLeft, MapThenFoldSet
  <1>2. \A f : FoldsTo(f, t, [run |-> <<h>>, ended |-> FALSE], s, DOMAIN s) <=> P(f)
    <2>1. \A x, e : Turn(t, x, e) = Extended(k, b, h, skip, x, e)
      BY DEF Turn
    <2> HIDE DEF t
    <2> QED BY ONLY <2>1, Zenon DEF FoldsTo, P
  <1>3. \E f : FoldsTo(f, t, [run |-> <<h>>, ended |-> FALSE], s, DOMAIN s)
    BY FoldGoes
  <1> HIDE DEF P
  <1>4. P(F)
    BY <1>2, <1>3
  <1> QED BY <1>1, <1>2, <1>4

LEMMA RunsFold ==
  ASSUME NEW k, NEW b, NEW kind, NEW s, s = Count(Len(k[b])), IsSeq(s)
  PROVE  LET t == <<"runs", k, b, kind>>
         IN \E f : FoldsTo(f, t, [runs |-> {}, skip |-> {}], s, DOMAIN s) /\ Runs(k, b, kind) = f[DOMAIN s].runs
  <1> DEFINE t == <<"runs", k, b, kind>>
             P(f) == f = [S \in SUBSET DOMAIN s |->
                            IF S = {} THEN [runs |-> {}, skip |-> {}] ELSE WithRun(k, b, kind, f[S \ {Max(S)}], s[Max(S)])]
             F == CHOOSE f : P(f)
  <1>1. Runs(k, b, kind) = F[DOMAIN s].runs
    BY DEF Runs, FoldLeft, MapThenFoldSet
  <1>2. \A f : FoldsTo(f, t, [runs |-> {}, skip |-> {}], s, DOMAIN s) <=> P(f)
    <2>1. \A x, e : Turn(t, x, e) = WithRun(k, b, kind, x, e)
      BY DEF Turn
    <2> HIDE DEF t
    <2> QED BY ONLY <2>1, Zenon DEF FoldsTo, P
  <1>3. \E f : FoldsTo(f, t, [runs |-> {}, skip |-> {}], s, DOMAIN s)
    BY FoldGoes
  <1> HIDE DEF P
  <1>4. P(F)
    BY <1>2, <1>3
  <1> QED BY <1>1, <1>2, <1>4

-----------------------------------------------------------------------------
(* What holds of the running value of each fold after n turns. While block *)
(* b is rewritten (unroll) the kernel has st.out in its place, and R is    *)
(* what the instructions still to come claim.                              *)
With(k, b, out) == [c \in DOMAIN k |-> IF c = b THEN out ELSE k[c]]
Below(k, vs, bs) ==
    /\ vs \in Nat \ {0} /\ bs \in Nat
    /\ \A c \in DOMAIN k : c < bs /\ \A v : <<"value", v>> \in Claimed(k[c]) => v < vs
UnrollState == {"k", "blk", "out", "vs", "bs"}
Room(st, b, R) ==
    /\ DOMAIN st = UnrollState /\ b \in DOMAIN st.k
    /\ KInv(With(st.k, b, st.out)) /\ Below(With(st.k, b, st.out), st.vs, st.bs)
    /\ \A c \in DOMAIN st.k : R \cap Claimed(With(st.k, b, st.out)[c]) = {}
    /\ \A v : <<"value", v>> \in R => v \in Nat /\ v < st.vs
    /\ \A c : <<"block", c>> \in R => c \in DOMAIN st.k /\ b < c
Rest(blk, n) == UNION {Claims(blk[q]) : q \in (n + 1)..Len(blk)}
Picks(run, blk) == run \in Seq(DOMAIN blk) /\ run # <<>>

Holds(t, n, x) ==
    IF t[1] \in {"sweep", "if_conversion", "vectorize"} THEN KInv(x)
    ELSE IF t[1] \in {"simplify", "copy_prop"} THEN Good(x) /\ Claimed(x) \subseteq t[2]
    ELSE IF t[1] = "follow" THEN x \in Nat
    ELSE IF t[1] = "cse" THEN KInv(x) /\ DOMAIN x = t[2]
    ELSE IF t[1] = "licm" THEN KInv(x) /\ DOMAIN x = DOMAIN t[2]
    ELSE IF t[1] = "chain" THEN Picks(x, t[2])
    ELSE IF t[1] = "chains" THEN \A c \in x.chains : Picks(c, t[2])
    ELSE IF t[1] = "iteration" THEN Room(x, t[3], t[4]) /\ x.blk = t[5]
    ELSE IF t[1] = "unroll" THEN Room(x, t[3], Rest(t[2], n)) /\ x.blk = t[2]
    ELSE IF t[1] = "unroll_block" THEN DOMAIN x = UnrollState /\ KInv(x.k) /\ Below(x.k, x.vs, x.bs)
    ELSE IF t[1] = "run" THEN DOMAIN x = {"run", "ended"} /\ Picks(x.run, t[2][t[3]])
    ELSE \A run \in x.runs : Picks(run, t[2][t[3]])

(* An invariant of the turns holds of the fold.                            *)
LEMMA FoldKeeps ==
  ASSUME NEW t, NEW x, NEW s, IsSeq(s), Holds(t, 0, x),
         \A n \in 1..Len(s) : \A z : Holds(t, n - 1, z) => Holds(t, n, Turn(t, z, s[n])),
         NEW f, FoldsTo(f, t, x, s, DOMAIN s)
  PROVE  Holds(t, Len(s), f[DOMAIN s])
  <1>0. Len(s) \in Nat
    BY SeqFacts
  <1>1. PICK g : Goes(g, t, x, s, f[DOMAIN s])
    BY FoldGoes
  <1> DEFINE P == {n \in Nat : n <= Len(s) => Holds(t, n, g[n])}
  <1>2. 0 \in P
    BY <1>1 DEF Goes
  <1>3. ASSUME NEW n \in Nat, n \in P PROVE n + 1 \in P
    <2> SUFFICES ASSUME n + 1 <= Len(s) PROVE Holds(t, n + 1, g[n + 1])
      OBVIOUS
    <2>1. n + 1 \in 1..Len(s) /\ (n + 1) - 1 = n /\ n <= Len(s)
      BY <1>0
    <2>2. g[n + 1] = Turn(t, g[n], s[n + 1])
      BY <1>1, <2>1 DEF Goes
    <2>3. Holds(t, n, g[n])
      BY <1>3, <2>1
    <2>4. Holds(t, n + 1, Turn(t, g[n], s[n + 1]))
      <3> HIDE DEF P
      <3>1. Holds(t, (n + 1) - 1, g[n]) => Holds(t, n + 1, Turn(t, g[n], s[n + 1]))
        BY <2>1, Zenon
      <3> QED BY <2>1, <2>3, <3>1
    <2> QED BY <2>2, <2>4
  <1>4. Len(s) \in P
    <2> HIDE DEF P
    <2> QED BY <1>0, <1>2, <1>3, NatSetInduction
  <1>5. Len(s) <= Len(s)
    BY <1>0
  <1>6. Holds(t, Len(s), g[Len(s)])
    BY <1>4, <1>5
  <1> QED BY <1>1, <1>6 DEF Goes

LEMMA CountFacts ==
  ASSUME NEW n \in Int
  PROVE  IsSeq(Count(n)) /\ \A h \in DOMAIN Count(n) : Count(n)[h] \in 1..n
  <1>1. \A h \in DOMAIN Count(n) : Count(n)[h] \in 1..n
    BY DEF Count
  <1>2. CASE n \in Nat
    <2>1. Count(n) = [h \in 1..n |-> Count(n)[h]]
      BY DEF Count
    <2> QED BY <1>1, <1>2, <2>1, FunctionIsSeq
  <1>3. CASE n \notin Nat
    <2>1. 1..n = {}
      BY <1>3
    <2>2. Count(n) = <<>>
      BY <2>1 DEF Count
    <2> QED BY <1>1, <2>2, NothingIsGood
  <1> QED BY <1>1, <1>2, <1>3

LEMMA ReverseFacts ==
  ASSUME NEW s, IsSeq(s)
  PROVE  /\ IsSeq(Reverse(s)) /\ Len(Reverse(s)) = Len(s) /\ ElemsOf(Reverse(s)) = ElemsOf(s)
         /\ \A S : s \in Seq(S) => Reverse(s) \in Seq(S)
  <1>1. Len(s) \in Nat /\ DOMAIN s = 1..Len(s)
    BY SeqFacts
  <1>2. Reverse(s) = [i \in 1..Len(s) |-> s[(Len(s) - i) + 1]] /\ DOMAIN Reverse(s) = 1..Len(s)
    BY DEF Reverse
  <1>3. IsSeq(Reverse(s)) /\ Len(Reverse(s)) = Len(s)
    BY <1>1, <1>2, FunctionIsSeq
  <1>4. \A i \in 1..Len(s) : (Len(s) - i) + 1 \in 1..Len(s) /\ Reverse(s)[(Len(s) - i) + 1] = s[i]
    BY <1>1, <1>2
  <1>5. \A i \in 1..Len(s) : Reverse(s)[i] = s[(Len(s) - i) + 1] /\ (Len(s) - i) + 1 \in 1..Len(s)
    BY <1>1, <1>2
  <1>6. ElemsOf(Reverse(s)) \subseteq ElemsOf(s)
    BY <1>1, <1>2, <1>5 DEF ElemsOf
  <1>7. ElemsOf(s) \subseteq ElemsOf(Reverse(s))
    <2>1. \A i \in 1..Len(s) : \E m \in 1..Len(s) : s[i] = Reverse(s)[m]
      BY <1>4
    <2> SUFFICES ASSUME NEW e, e \in ElemsOf(s) PROVE e \in ElemsOf(Reverse(s))
      OBVIOUS
    <2>2. PICK i \in 1..Len(s) : e = s[i]
      BY <1>1 DEF ElemsOf
    <2>3. PICK m \in 1..Len(s) : e = Reverse(s)[m]
      BY <2>1, <2>2
    <2> QED BY <1>2, <2>3 DEF ElemsOf
  <1>8. ASSUME NEW S, s \in Seq(S) PROVE Reverse(s) \in Seq(S)
    <2>1. \A i \in 1..Len(s) : s[(Len(s) - i) + 1] \in S
      BY <1>5, <1>8
    <2> QED BY <1>1, <1>2, <2>1
  <1> QED BY <1>3, <1>6, <1>7, <1>8

-----------------------------------------------------------------------------
(* Rewriting block by block.                                               *)
LEMMA BlockwiseKeeps ==
  ASSUME NEW k, KInv(k), NEW k2, DOMAIN k2 = DOMAIN k,
         \A b \in DOMAIN k : Good(k2[b]) /\ Claimed(k2[b]) \subseteq Claimed(k[b])
  PROVE  KInv(k2)
  <1>1. \A b, c \in DOMAIN k2 : b # c => Claimed(k2[b]) \cap Claimed(k2[c]) = {}
    BY DEF KInv
  <1>2. \A b \in DOMAIN k2 : \A c : <<"block", c>> \in Claimed(k2[b]) => c \in DOMAIN k2 /\ b < c
    BY DEF KInv
  <1> QED BY <1>1, <1>2 DEF KInv

LEMMA KernelFacts ==
  ASSUME NEW k, KInv(k), NEW b \in DOMAIN k
  PROVE  b \in Nat /\ Good(k[b])
  BY DEF KInv

(* dead_value_elim *)
LEMMA SweepKeeps ==
  ASSUME NEW k, NEW n, KInv(k)
  PROVE  KInv(Sweep(k, n))
  <1> DEFINE used == AllRefs(k)
             live(i) == i.r = NoResult \/ i.k \in SideEffect \/ IndexedLoad(i) \/ i.r \in used
             ss(b) == [j \in DOMAIN k[b] |-> IF live(k[b][j]) THEN <<k[b][j]>> ELSE <<>>]
             k2 == [b \in DOMAIN k |-> FlattenSeq(ss(b))]
  <1>1. Sweep(k, n) = k \/ Sweep(k, n) = k2
    BY DEF Sweep, Only
  <1>2. ASSUME NEW b \in DOMAIN k PROVE Good(FlattenSeq(ss(b))) /\ Claimed(FlattenSeq(ss(b))) \subseteq Claimed(k[b])
    <2>1. Good(k[b])
      BY KernelFacts
    <2>2. ss(b) = [j \in DOMAIN k[b] |-> ss(b)[j]] /\ \A j \in DOMAIN k[b] : ss(b)[j] \in {<<>>, <<k[b][j]>>}
      OBVIOUS
    <2> HIDE DEF ss
    <2> QED BY <2>1, <2>2, Filtered
  <1> HIDE DEF ss
  <1>3. DOMAIN k2 = DOMAIN k /\ \A b \in DOMAIN k : k2[b] = FlattenSeq(ss(b))
    OBVIOUS
  <1> HIDE DEF k2
  <1>4. KInv(k2)
    BY <1>2, <1>3, BlockwiseKeeps
  <1> QED BY <1>1, <1>4

LEMMA EliminateKeeps ==
  ASSUME NEW k, KInv(k)
  PROVE  KInv(EliminateDeadValues(k))
  <1> DEFINE t == <<"sweep">>
             s == Count(MaxSweeps)
  <1>1. IsSeq(s)
    BY CountFacts DEF MaxSweeps
  <1> HIDE DEF s
  <1>2. PICK f : FoldsTo(f, t, k, s, DOMAIN s) /\ FoldLeft(Sweep, k, s) = f[DOMAIN s]
    BY <1>1, SweepFold
  <1>3. \A n, z : (Holds(t, n, z) <=> KInv(z)) /\ \A e : Turn(t, z, e) = Sweep(z, e)
    BY DEF Holds, Turn
  <1> HIDE DEF t
  <1>4. Holds(t, Len(s), f[DOMAIN s])
    <2>1. Holds(t, 0, k)
      BY <1>3
    <2>2. \A n \in 1..Len(s) : \A z : Holds(t, n - 1, z) => Holds(t, n, Turn(t, z, s[n]))
      BY <1>3, SweepKeeps
    <2> QED BY <1>1, <1>2, <2>1, <2>2, FoldKeeps
  <1>5. KInv(FoldLeft(Sweep, k, s))
    BY <1>2, <1>3, <1>4
  <1> QED BY <1>5 DEF EliminateDeadValues, s

(* Renaming operands.                                                      *)
IsMap(m) == \A v \in DOMAIN m : m[v] \in Nat

LEMMA RemapOperandsFacts ==
  ASSUME NEW m, IsMap(m), NEW a
  PROVE  /\ a \in Seq(Nat) => RemapOperands(a, m) \in Seq(Nat) /\ Len(RemapOperands(a, m)) = Len(a)
         /\ a \in Seq(Int) => RemapOperands(a, m) \in Seq(Int)
  <1>1. ASSUME NEW S, a \in Seq(S), Nat \subseteq S
        PROVE  RemapOperands(a, m) \in Seq(S) /\ Len(RemapOperands(a, m)) = Len(a)
    <2>1. Len(a) \in Nat /\ DOMAIN a = 1..Len(a) /\ \A n \in 1..Len(a) : a[n] \in S
      BY <1>1
    <2>2. RemapOperands(a, m) = [n \in 1..Len(a) |-> IF a[n] \in DOMAIN m THEN m[a[n]] ELSE a[n]]
      BY <2>1 DEF RemapOperands
    <2>3. \A n \in 1..Len(a) : (IF a[n] \in DOMAIN m THEN m[a[n]] ELSE a[n]) \in S
      BY <1>1, <2>1 DEF IsMap
    <2>4. RemapOperands(a, m) \in [1..Len(a) -> S]
      BY <2>2, <2>3
    <2> QED BY <2>1, <2>4
  <1> QED BY <1>1

(* A renaming changes what an instruction reads and nothing it claims.     *)
LEMMA RemapFacts ==
  ASSUME NEW i, IsIns(i), NEW m, IsMap(m)
  PROVE  IsIns(Remap(i, m)) /\ Claims(Remap(i, m)) = Claims(i)
         /\ Remap(i, m).k = i.k /\ Remap(i, m).r = i.r /\ Remap(i, m).b = i.b
  <1>1. DOMAIN i = {"k", "f", "a", "b", "r"}
    BY DEF IsIns
  <1>2. CASE i.k = "Fused"
    <2> DEFINE g == [n \in DOMAIN i.f |-> [i.f[n] EXCEPT !.a = RemapOperands(i.f[n].a, m)]]
    <2>1. Remap(i, m) = [i EXCEPT !.f = g]
      BY <1>2 DEF Remap
    <2>2. IsChain(g)
      <3>1. IsChain(i.f)
        BY <1>2 DEF IsIns
      <3>2. IsSeq(i.f)
        BY <3>1 DEF IsChain
      <3>3. Len(i.f) \in Nat /\ DOMAIN i.f = 1..Len(i.f)
        BY <3>2, SeqFacts
      <3>4. g = [n \in 1..Len(i.f) |-> g[n]]
        BY <3>3
      <3>5. \A n \in 1..Len(i.f) : DOMAIN g[n] = {"k", "f", "a"} /\ g[n].a \in Seq(Int)
        <4> SUFFICES ASSUME NEW n \in 1..Len(i.f) PROVE DOMAIN g[n] = {"k", "f", "a"} /\ g[n].a \in Seq(Int)
          OBVIOUS
        <4>1. DOMAIN i.f[n] = {"k", "f", "a"} /\ i.f[n].a \in Seq(Int)
          BY <3>1, <3>3 DEF IsChain, ElemsOf
        <4>2. RemapOperands(i.f[n].a, m) \in Seq(Int)
          BY <4>1, RemapOperandsFacts
        <4>3. g[n] = [i.f[n] EXCEPT !.a = RemapOperands(i.f[n].a, m)]
          BY <3>3
        <4> QED BY <4>1, <4>2, <4>3
      <3> HIDE DEF g
      <3>6. IsSeq(g) /\ ElemsOf(g) = {g[n] : n \in 1..Len(i.f)}
        BY <3>3, <3>4, FunctionIsSeq
      <3> QED BY <3>5, <3>6 DEF IsChain
    <2> HIDE DEF g
    <2>3. /\ DOMAIN Remap(i, m) = {"k", "f", "a", "b", "r"} /\ Remap(i, m).f = g
          /\ Remap(i, m).k = i.k /\ Remap(i, m).r = i.r /\ Remap(i, m).b = i.b /\ Remap(i, m).a = i.a
      BY <1>1, <2>1
    <2>4. IsIns(Remap(i, m))
      BY <1>2, <2>2, <2>3 DEF IsIns
    <2> QED BY <2>3, <2>4 DEF Claims
  <1>3. CASE i.k # "Fused"
    <2>1. Remap(i, m) = [i EXCEPT !.a = RemapOperands(i.a, m)]
      BY <1>3 DEF Remap
    <2>2. RemapOperands(i.a, m) \in Seq(Nat) /\ Len(RemapOperands(i.a, m)) = Len(i.a)
      BY RemapOperandsFacts DEF IsIns
    <2>3. /\ DOMAIN Remap(i, m) = {"k", "f", "a", "b", "r"} /\ Remap(i, m).f = i.f
          /\ Remap(i, m).k = i.k /\ Remap(i, m).r = i.r /\ Remap(i, m).b = i.b
          /\ Remap(i, m).a = RemapOperands(i.a, m)
      BY <1>1, <2>1
    <2>4. IsIns(Remap(i, m))
      BY <1>3, <2>2, <2>3 DEF IsIns
    <2> QED BY <2>3, <2>4 DEF Claims
  <1> QED BY <1>2, <1>3

LEMMA RemapBlockKeeps ==
  ASSUME NEW blk, Good(blk), NEW m, IsMap(m)
  PROVE  Good(RemapBlock(blk, m)) /\ Claimed(RemapBlock(blk, m)) \subseteq Claimed(blk)
         /\ DOMAIN RemapBlock(blk, m) = DOMAIN blk
         /\ \A j \in DOMAIN blk : RemapBlock(blk, m)[j] = Remap(blk[j], m)
  <1>1. /\ DOMAIN RemapBlock(blk, m) = DOMAIN blk
        /\ \A j \in DOMAIN blk : RemapBlock(blk, m)[j] = Remap(blk[j], m)
        /\ RemapBlock(blk, m) = [j \in DOMAIN blk |-> RemapBlock(blk, m)[j]]
    BY DEF RemapBlock
  <1>2. \A j \in DOMAIN blk : IsIns(Remap(blk[j], m)) /\ Claims(Remap(blk[j], m)) \subseteq Claims(blk[j])
    BY GoodFacts, RemapFacts
  <1> QED BY <1>1, <1>2, Mapped

-----------------------------------------------------------------------------
(* What an instruction of a kind has.                                      *)
LEMMA InsFacts ==
  ASSUME NEW i, IsIns(i)
  PROVE  /\ i.k \in {"BinOp", "Load", "VectorLoad", "VectorExtract", "Store", "VectorStore"} =>
              i.a[1] \in Nat
         /\ i.k \in {"BinOp", "Store", "VectorStore"} => i.a[2] \in Nat
         /\ i.k \in {"UnaryOp", "Cast", "If"} => i.a[1] \in Nat
         /\ i.k \in {"BinOp", "Store"} => Len(i.a) = 2
         /\ i.k \in {"UnaryOp", "Cast", "If", "Load"} => Len(i.a) = 1
         /\ i.k \in {"Select", "Loop"} => i.a[1] \in Nat /\ i.a[2] \in Nat /\ i.a[3] \in Nat /\ Len(i.a) = 3
         /\ i.k \notin {"If", "Loop"} => i.b = <<>> /\ ElemsOf(i.b) = {}
         /\ i.k = "Loop" => i.b[1] \in Nat /\ ElemsOf(i.b) = {i.b[1]} /\ i.f \in Nat \ {NoResult}
         /\ i.r \in Nat /\ i.a \in Seq(Nat) /\ DOMAIN i = {"k", "f", "a", "b", "r"}
  <1>1. i.a \in Seq(Nat) /\ i.b \in Seq(Nat) /\ Len(i.a) = Arity[i.k] /\ Len(i.b) \in BlocksOf(i.k)
        /\ i.r \in Nat /\ DOMAIN i = {"k", "f", "a", "b", "r"}
    BY DEF IsIns
  <1>2. \A n \in 1..Len(i.a) : i.a[n] \in Nat
    BY <1>1
  <1>3. /\ Arity["BinOp"] = 2 /\ Arity["Load"] = 1 /\ Arity["VectorLoad"] = 1 /\ Arity["VectorExtract"] = 1
        /\ Arity["Store"] = 2 /\ Arity["VectorStore"] = 2 /\ Arity["UnaryOp"] = 1 /\ Arity["Cast"] = 1
        /\ Arity["If"] = 1 /\ Arity["Select"] = 3 /\ Arity["Loop"] = 3
    BY DEF Arity
  <1>4. i.k \notin {"If", "Loop"} => i.b = <<>>
    BY <1>1 DEF BlocksOf
  <1>5. ElemsOf(<<>>) = {}
    BY NothingIsGood
  <1>6. i.k = "Loop" => i.b[1] \in Nat /\ ElemsOf(i.b) = {i.b[1]} /\ i.f \in Nat \ {NoResult}
    <2> SUFFICES ASSUME i.k = "Loop" PROVE i.b[1] \in Nat /\ ElemsOf(i.b) = {i.b[1]} /\ i.f \in Nat \ {NoResult}
      OBVIOUS
    <2>1. Len(i.b) = 1 /\ DOMAIN i.b = {1}
      BY <1>1 DEF BlocksOf
    <2>2. i.f \in Nat \ {NoResult}
      BY DEF IsIns
    <2>3. ElemsOf(i.b) = {i.b[1]}
      BY <2>1 DEF ElemsOf
    <2> QED BY <1>1, <2>1, <2>2, <2>3
  <1> QED BY <1>1, <1>2, <1>3, <1>4, <1>5, <1>6

(* Operations that own no block are made of their operands and result.     *)
Makes(k, f, a) ==
    /\ k \in DOMAIN Arity \ {"If", "Loop", "Fused"} /\ a \in Seq(Nat) /\ Len(a) = Arity[k]
    /\ (k = "BinOp" => f \in BinOps) /\ (k = "Const" => f \in Int)

LEMMA MadeIns ==
  ASSUME NEW k, NEW f, NEW a, NEW r \in Nat, Makes(k, f, a)
  PROVE  IsIns(Ins(k, f, a, <<>>, r))
         /\ Claims(Ins(k, f, a, <<>>, r)) = {"value"} \X ({r} \ {NoResult})
  <1> DEFINE i == Ins(k, f, a, <<>>, r)
  <1>1. i.k = k /\ i.f = f /\ i.a = a /\ i.b = <<>> /\ i.r = r /\ DOMAIN i = {"k", "f", "a", "b", "r"}
    BY DEF Ins
  <1> HIDE DEF i
  <1>2. Len(i.b) \in BlocksOf(i.k) /\ i.b \in Seq(Nat)
    BY <1>1 DEF BlocksOf, Makes
  <1>3. IsIns(i)
    BY <1>1, <1>2 DEF IsIns, Makes
  <1>4. Claims(i) = {"value"} \X ({r} \ {NoResult})
    BY <1>1, NothingIsGood DEF Claims
  <1> QED BY <1>3, <1>4 DEF i

LEMMA ClaimsResult ==
  ASSUME NEW i
  PROVE  {"value"} \X ({i.r} \ {NoResult}) \subseteq Claims(i)
  BY DEF Claims

LEMMA ArityFacts ==
  /\ Arity["BinOp"] = 2 /\ Arity["Load"] = 1 /\ Arity["VectorLoad"] = 1 /\ Arity["VectorExtract"] = 1
  /\ Arity["Store"] = 2 /\ Arity["VectorStore"] = 2 /\ Arity["UnaryOp"] = 1 /\ Arity["Cast"] = 1
  /\ Arity["If"] = 1 /\ Arity["Select"] = 3 /\ Arity["Loop"] = 3 /\ Arity["Const"] = 0 /\ Arity["Fused"] = 0
  /\ {"BinOp", "Load", "VectorLoad", "VectorExtract", "Store", "VectorStore", "UnaryOp", "Select", "Const",
      "Fused", "If", "Loop"}
       \subseteq DOMAIN Arity
  BY DEF Arity

LEMMA LiteralFacts ==
  ASSUME NEW n \in Int, NEW r \in Nat
  PROVE  IsIns(Literal(n, r)) /\ Claims(Literal(n, r)) = {"value"} \X ({r} \ {NoResult})
  <1>1. "Const" \in DOMAIN Arity \ {"If", "Loop", "Fused"} /\ <<>> \in Seq(Nat) /\ Len(<<>>) = Arity["Const"]
    BY ArityFacts
  <1> DEFINE kind == "Const"
             none == <<>>
  <1>2. kind = "BinOp" => n \in BinOps
    OBVIOUS
  <1>3. kind = "Const" => n \in Int
    OBVIOUS
  <1>4. kind \in DOMAIN Arity \ {"If", "Loop", "Fused"} /\ none \in Seq(Nat) /\ Len(none) = Arity[kind]
    BY <1>1
  <1>6. Makes(kind, n, none)
    BY <1>2, <1>3, <1>4 DEF Makes
  <1> HIDE DEF kind, none
  <1>5. IsIns(Ins(kind, n, none, <<>>, r))
        /\ Claims(Ins(kind, n, none, <<>>, r)) = {"value"} \X ({r} \ {NoResult})
    BY <1>6, MadeIns
  <1> QED BY <1>5 DEF Literal, kind, none

LEMMA MadeNeg ==
  ASSUME NEW v \in Nat, NEW r \in Nat
  PROVE  IsIns(Ins("UnaryOp", "Neg", <<v>>, <<>>, r))
         /\ Claims(Ins("UnaryOp", "Neg", <<v>>, <<>>, r)) = {"value"} \X ({r} \ {NoResult})
  <1> DEFINE kind == "UnaryOp"
             op == "Neg"
             a == <<v>>
  <1>1. (kind = "BinOp" => op \in BinOps) /\ (kind = "Const" => op \in Int)
    OBVIOUS
  <1>2. kind \in DOMAIN Arity \ {"If", "Loop", "Fused"} /\ a \in Seq(Nat) /\ Len(a) = Arity[kind]
    BY ArityFacts
  <1>4. Makes(kind, op, a)
    BY <1>1, <1>2 DEF Makes
  <1> HIDE DEF kind, op, a
  <1>3. IsIns(Ins(kind, op, a, <<>>, r))
        /\ Claims(Ins(kind, op, a, <<>>, r)) = {"value"} \X ({r} \ {NoResult})
    BY <1>4, MadeIns
  <1> QED BY <1>3 DEF kind, op, a

LEMMA MadeSelect ==
  ASSUME NEW op0, NEW a0 \in Seq(Nat), Len(a0) = 3, NEW r \in Nat
  PROVE  IsIns(Ins("Select", op0, a0, <<>>, r))
         /\ Claims(Ins("Select", op0, a0, <<>>, r)) = {"value"} \X ({r} \ {NoResult})
  <1> DEFINE kind == "Select"
             op == op0
             a == a0
  <1>1. (kind = "BinOp" => op \in BinOps) /\ (kind = "Const" => op \in Int)
    OBVIOUS
  <1>2. kind \in DOMAIN Arity \ {"If", "Loop", "Fused"} /\ a \in Seq(Nat) /\ Len(a) = Arity[kind]
    BY ArityFacts
  <1>4. Makes(kind, op, a)
    BY <1>1, <1>2 DEF Makes
  <1> HIDE DEF kind, op, a
  <1>3. IsIns(Ins(kind, op, a, <<>>, r))
        /\ Claims(Ins(kind, op, a, <<>>, r)) = {"value"} \X ({r} \ {NoResult})
    BY <1>4, MadeIns
  <1> QED BY <1>3 DEF kind, op, a

LEMMA MadeExtract ==
  ASSUME NEW op0, NEW a0 \in Seq(Nat), Len(a0) = 1, NEW r \in Nat
  PROVE  IsIns(Ins("VectorExtract", op0, a0, <<>>, r))
         /\ Claims(Ins("VectorExtract", op0, a0, <<>>, r)) = {"value"} \X ({r} \ {NoResult})
  <1> DEFINE kind == "VectorExtract"
             op == op0
             a == a0
  <1>1. (kind = "BinOp" => op \in BinOps) /\ (kind = "Const" => op \in Int)
    OBVIOUS
  <1>2. kind \in DOMAIN Arity \ {"If", "Loop", "Fused"} /\ a \in Seq(Nat) /\ Len(a) = Arity[kind]
    BY ArityFacts
  <1>4. Makes(kind, op, a)
    BY <1>1, <1>2 DEF Makes
  <1> HIDE DEF kind, op, a
  <1>3. IsIns(Ins(kind, op, a, <<>>, r))
        /\ Claims(Ins(kind, op, a, <<>>, r)) = {"value"} \X ({r} \ {NoResult})
    BY <1>4, MadeIns
  <1> QED BY <1>3 DEF kind, op, a

LEMMA MadeLoad ==
  ASSUME NEW op0, NEW a0 \in Seq(Nat), Len(a0) = 1, NEW r \in Nat
  PROVE  IsIns(Ins("VectorLoad", op0, a0, <<>>, r))
         /\ Claims(Ins("VectorLoad", op0, a0, <<>>, r)) = {"value"} \X ({r} \ {NoResult})
  <1> DEFINE kind == "VectorLoad"
             op == op0
             a == a0
  <1>1. (kind = "BinOp" => op \in BinOps) /\ (kind = "Const" => op \in Int)
    OBVIOUS
  <1>2. kind \in DOMAIN Arity \ {"If", "Loop", "Fused"} /\ a \in Seq(Nat) /\ Len(a) = Arity[kind]
    BY ArityFacts
  <1>4. Makes(kind, op, a)
    BY <1>1, <1>2 DEF Makes
  <1> HIDE DEF kind, op, a
  <1>3. IsIns(Ins(kind, op, a, <<>>, r))
        /\ Claims(Ins(kind, op, a, <<>>, r)) = {"value"} \X ({r} \ {NoResult})
    BY <1>4, MadeIns
  <1> QED BY <1>3 DEF kind, op, a

LEMMA MadeStore ==
  ASSUME NEW op0, NEW a0 \in Seq(Nat), Len(a0) = 2, NEW r \in Nat
  PROVE  IsIns(Ins("VectorStore", op0, a0, <<>>, r))
         /\ Claims(Ins("VectorStore", op0, a0, <<>>, r)) = {"value"} \X ({r} \ {NoResult})
  <1> DEFINE kind == "VectorStore"
             op == op0
             a == a0
  <1>1. (kind = "BinOp" => op \in BinOps) /\ (kind = "Const" => op \in Int)
    OBVIOUS
  <1>2. kind \in DOMAIN Arity \ {"If", "Loop", "Fused"} /\ a \in Seq(Nat) /\ Len(a) = Arity[kind]
    BY ArityFacts
  <1>4. Makes(kind, op, a)
    BY <1>1, <1>2 DEF Makes
  <1> HIDE DEF kind, op, a
  <1>3. IsIns(Ins(kind, op, a, <<>>, r))
        /\ Claims(Ins(kind, op, a, <<>>, r)) = {"value"} \X ({r} \ {NoResult})
    BY <1>4, MadeIns
  <1> QED BY <1>3 DEF kind, op, a

LEMMA ConstsInt ==
  ASSUME NEW blk, Good(blk), NEW v
  PROVE  Consts(blk, v) \subseteq Int
  BY GoodFacts DEF Consts, IsIns

LEMMA ArithInt ==
  ASSUME NEW f \in BinOps, NEW x \in Int, NEW y \in Int
  PROVE  Arith(f, x, y) \in Int
  <1>1. \A z \in Int : Wrap(z) \in Int
    BY DEF Wrap, Width
  <1>2. x + y \in Int /\ x - y \in Int /\ x * y \in Int
    OBVIOUS
  <1>3. \A p \in BOOLEAN : Truth(p) \in Int
    BY DEF Truth
  <1>4. Truth(x < y) \in Int /\ Truth(x > y) \in Int /\ Truth(x = y) \in Int
    BY DEF Truth
  <1>5. CASE f = "Add"
    <2>1. Arith(f, x, y) = Wrap(x + y)
      BY <1>5 DEF Arith
    <2> QED BY <1>1, <1>2, <2>1
  <1>6. CASE f = "Sub"
    <2>1. Arith(f, x, y) = Wrap(x - y)
      BY <1>6 DEF Arith
    <2> QED BY <1>1, <1>2, <2>1
  <1>7. CASE f = "Mul"
    <2>1. Arith(f, x, y) = Wrap(x * y)
      BY <1>7 DEF Arith
    <2> QED BY <1>1, <1>2, <2>1
  <1>8. CASE f = "Max"
    <2>1. Arith(f, x, y) = IF x > y THEN x ELSE y
      BY <1>8 DEF Arith
    <2> QED BY <2>1
  <1>9. CASE f \in {"CmpLt", "CmpGt", "CmpEq"}
    <2>1. Arith(f, x, y) \in {Truth(x < y), Truth(x > y), Truth(x = y)}
      BY <1>9 DEF Arith
    <2> QED BY <1>4, <2>1
  <1> QED BY <1>5, <1>6, <1>7, <1>8, <1>9 DEF BinOps

-----------------------------------------------------------------------------
(* const_fold                                                              *)
LEMMA FoldedFacts ==
  ASSUME NEW blk, Good(blk), NEW i \in ElemsOf(blk)
  PROVE  FoldedTo(blk, i) \subseteq Int /\ FoldedAway(blk, i) \subseteq Nat
  <1>1. IsIns(i)
    BY GoodFacts
  <1>2. \A v : Consts(blk, v) \subseteq Int
    BY ConstsInt
  <1>3. FoldedTo(blk, i) \subseteq Int
    <2>1. CASE i.k = "BinOp"
      <3>1. i.f \in BinOps
        BY <1>1, <2>1 DEF IsIns
      <3>2. \A x \in Consts(blk, i.a[1]), y \in Consts(blk, i.a[2]) : EvalBinop(i.f, x, y) \in Int
        BY <1>2, <3>1, ArithInt DEF EvalBinop
      <3> QED BY <2>1, <3>2 DEF FoldedTo
    <2>2. CASE i.k = "UnaryOp"
      <3>1. FoldedTo(blk, i) = {0 - x : x \in Consts(blk, i.a[1])}
        BY <2>2 DEF FoldedTo
      <3> QED BY <1>2, <3>1
    <2>3. CASE i.k \notin {"BinOp", "UnaryOp"}
      BY <2>3 DEF FoldedTo
    <2> QED BY <2>1, <2>2, <2>3
  <1>4. FoldedAway(blk, i) \subseteq Nat
    <2>1. CASE i.k # "BinOp"
      BY <2>1 DEF FoldedAway
    <2>2. CASE i.k = "BinOp"
      <3>1. i.a[1] \in Nat /\ i.a[2] \in Nat
        BY <1>1, <2>2, InsFacts
      <3> QED BY <3>1 DEF FoldedAway
    <2> QED BY <2>1, <2>2
  <1> QED BY <1>3, <1>4

LEMMA FoldBlockKeeps ==
  ASSUME NEW blk, Good(blk)
  PROVE  Good(FoldBlock(blk)) /\ Claimed(FoldBlock(blk)) \subseteq Claimed(blk)
  <1> DEFINE folded(i) == IF FoldedTo(blk, i) = {} THEN i
                          ELSE Literal(CHOOSE n \in FoldedTo(blk, i) : TRUE, i.r)
             new == [j \in DOMAIN blk |-> folded(blk[j])]
             m == AwayMap(blk, FoldedAway)
  <1>1. FoldBlock(blk) = RemapBlock(new, m)
    BY DEF FoldBlock
  <1>2. ASSUME NEW j \in DOMAIN blk PROVE IsIns(folded(blk[j])) /\ Claims(folded(blk[j])) \subseteq Claims(blk[j])
    <2>1. blk[j] \in ElemsOf(blk) /\ IsIns(blk[j]) /\ blk[j].r \in Nat
      BY GoodFacts, InsFacts
    <2>2. CASE FoldedTo(blk, blk[j]) = {}
      BY <2>1, <2>2
    <2>3. CASE FoldedTo(blk, blk[j]) # {}
      <3> DEFINE n == CHOOSE n \in FoldedTo(blk, blk[j]) : TRUE
      <3>1. n \in Int
        BY <2>1, <2>3, FoldedFacts
      <3>2. folded(blk[j]) = Literal(n, blk[j].r)
        BY <2>3
      <3> HIDE DEF n, folded
      <3> QED BY <2>1, <3>1, <3>2, LiteralFacts, ClaimsResult
    <2> QED BY <2>2, <2>3
  <1>3. Good(new) /\ Claimed(new) \subseteq Claimed(blk)
    <2>1. new = [j \in DOMAIN blk |-> new[j]] /\ \A j \in DOMAIN blk : new[j] = folded(blk[j])
      OBVIOUS
    <2> HIDE DEF new, folded
    <2> QED BY <1>2, <2>1, Mapped
  <1>4. IsMap(m)
    <2> DEFINE A(i) == FoldedAway(blk, i)
    <2>1. m = [v \in {i.r : i \in {j \in ElemsOf(blk) : A(j) # {}}} |->
                 CHOOSE w \in UNION {A(i) : i \in {j \in ElemsOf(blk) : j.r = v}} : TRUE]
      BY DEF AwayMap
    <2>2. \A i \in ElemsOf(blk) : A(i) \subseteq Nat
      BY FoldedFacts
    <2> HIDE DEF A, m
    <2> QED BY <2>1, <2>2 DEF IsMap
  <1> HIDE DEF new, m
  <1>5. Good(RemapBlock(new, m)) /\ Claimed(RemapBlock(new, m)) \subseteq Claimed(new)
    BY <1>3, <1>4, RemapBlockKeeps
  <1> QED BY <1>1, <1>3, <1>5

LEMMA ConstFoldKeeps ==
  ASSUME NEW k, KInv(k)
  PROVE  KInv(ConstFold(k))
  <1> DEFINE folded == [b \in DOMAIN k |-> FoldBlock(k[b])]
             refs == AllRefs(folded)
             used(i) == i.r = NoResult \/ i.r \in refs
             ss(b) == [j \in DOMAIN folded[b] |-> IF used(folded[b][j]) THEN <<folded[b][j]>> ELSE <<>>]
             k2 == [b \in DOMAIN k |-> IF b = Body THEN folded[b] ELSE FlattenSeq(ss(b))]
  <1>1. ConstFold(k) = EliminateDeadValues(k2)
    BY DEF ConstFold, Only
  <1>2. ASSUME NEW b \in DOMAIN k PROVE Good(folded[b]) /\ Claimed(folded[b]) \subseteq Claimed(k[b])
    BY KernelFacts, FoldBlockKeeps
  <1>3. ASSUME NEW b \in DOMAIN k PROVE Good(k2[b]) /\ Claimed(k2[b]) \subseteq Claimed(k[b])
    <2>1. Good(folded[b]) /\ Claimed(folded[b]) \subseteq Claimed(k[b])
      BY <1>2
    <2>2. /\ ss(b) = [j \in DOMAIN folded[b] |-> ss(b)[j]]
          /\ \A j \in DOMAIN folded[b] : ss(b)[j] \in {<<>>, <<folded[b][j]>>}
      OBVIOUS
    <2>3. k2[b] = folded[b] \/ k2[b] = FlattenSeq(ss(b))
      OBVIOUS
    <2> HIDE DEF ss, folded, k2
    <2>4. Good(FlattenSeq(ss(b))) /\ Claimed(FlattenSeq(ss(b))) \subseteq Claimed(folded[b])
      BY <2>1, <2>2, Filtered
    <2> QED BY <2>1, <2>3, <2>4
  <1>4. DOMAIN k2 = DOMAIN k
    OBVIOUS
  <1> HIDE DEF k2
  <1>5. KInv(k2)
    BY <1>3, <1>4, BlockwiseKeeps
  <1> QED BY <1>1, <1>5, EliminateKeeps

-----------------------------------------------------------------------------
(* The rewriting algebraic_simplify and copy_prop share.                   *)
LEMMA FiniteImage ==
  ASSUME NEW S, IsFiniteSet(S), NEW f
  PROVE  IsFiniteSet({f[x] : x \in S})
  <1> DEFINE T == {f[x] : x \in S}
             h == [x \in S |-> f[x]]
  <1>1. h \in Surjection(S, T)
    BY DEF Surjection
  <1> QED BY <1>1, FS_Surjection

LEMMA SeqFinite ==
  ASSUME NEW s, IsSeq(s)
  PROVE  IsFiniteSet(ElemsOf(s)) /\ IsFiniteSet(DOMAIN s)
  <1>1. Len(s) \in Nat /\ DOMAIN s = 1..Len(s)
    BY SeqFacts
  <1>2. IsFiniteSet(DOMAIN s)
    BY <1>1, FS_Interval
  <1>3. IsFiniteSet({s[j] : j \in DOMAIN s})
    BY <1>2, FiniteImage
  <1> QED BY <1>2, <1>3 DEF ElemsOf

(* Following a chain of redirections ends at a value id.                   *)
LEMMA TerminalNat ==
  ASSUME NEW map, IsMap(map), IsFiniteSet(DOMAIN map), NEW v \in Nat
  PROVE  Terminal(map, v) \in Nat
  <1> DEFINE t == <<"follow", map>>
             s == Count(Cardinality(DOMAIN map))
  <1>1. IsSeq(s)
    <2>1. Cardinality(DOMAIN map) \in Int
      BY FS_CardinalityType
    <2> QED BY <2>1, CountFacts
  <1>2. s = Count(Cardinality(DOMAIN map))
    OBVIOUS
  <1> HIDE DEF s
  <1>3. PICK f : FoldsTo(f, t, v, s, DOMAIN s) /\ Terminal(map, v) = f[DOMAIN s]
    BY <1>1, <1>2, FollowFold
  <1>4. \A n, z : (Holds(t, n, z) <=> z \in Nat) /\ \A e : Turn(t, z, e) = Redirected(map, z)
    BY DEF Holds, Turn
  <1>5. \A z \in Nat : Redirected(map, z) \in Nat
    BY DEF Redirected, IsMap
  <1> HIDE DEF t
  <1>6. Holds(t, Len(s), f[DOMAIN s])
    <2>1. Holds(t, 0, v)
      BY <1>4
    <2>2. \A n \in 1..Len(s) : \A z : Holds(t, n - 1, z) => Holds(t, n, Turn(t, z, s[n]))
      BY <1>4, <1>5
    <2> QED BY <1>1, <1>3, <2>1, <2>2, FoldKeeps
  <1> QED BY <1>3, <1>4, <1>6

LEMMA RedirectKeeps ==
  ASSUME NEW blk, Good(blk), NEW map, IsMap(map), IsFiniteSet(DOMAIN map), DOMAIN map \subseteq Nat
  PROVE  Good(Redirect(blk, map)) /\ Claimed(Redirect(blk, map)) \subseteq Claimed(blk)
  <1> DEFINE new == RemapBlock(blk, Transitive(map))
             ss == [j \in DOMAIN new |-> IF new[j].r \notin DOMAIN map THEN <<new[j]>> ELSE <<>>]
  <1>1. Redirect(blk, map) = FlattenSeq(ss)
    BY DEF Redirect, Only
  <1>2. IsMap(Transitive(map))
    BY TerminalNat DEF IsMap, Transitive
  <1>3. Good(new) /\ Claimed(new) \subseteq Claimed(blk)
    BY <1>2, RemapBlockKeeps
  <1>4. ss = [j \in DOMAIN new |-> ss[j]] /\ \A j \in DOMAIN new : ss[j] \in {<<>>, <<new[j]>>}
    OBVIOUS
  <1> HIDE DEF ss, new
  <1>5. Good(FlattenSeq(ss)) /\ Claimed(FlattenSeq(ss)) \subseteq Claimed(new)
    BY <1>3, <1>4, Filtered
  <1> QED BY <1>1, <1>3, <1>5

(* The results of a block are numbers, and finitely many.                  *)
LEMMA ResultsFinite ==
  ASSUME NEW blk, Good(blk), NEW S \in SUBSET ElemsOf(blk)
  PROVE  IsFiniteSet({i.r : i \in S}) /\ {i.r : i \in S} \subseteq Nat
  <1>1. IsFiniteSet(S)
    BY GoodFacts, SeqFinite, FS_Subset
  <1>2. IsFiniteSet({i.r : i \in S})
    <2> DEFINE f == [i \in S |-> i.r]
    <2>1. {i.r : i \in S} = {f[i] : i \in S}
      OBVIOUS
    <2> HIDE DEF f
    <2> QED BY <1>1, <2>1, FiniteImage
  <1>3. \A i \in S : i.r \in Nat
    BY GoodFacts, InsFacts
  <1> QED BY <1>2, <1>3

(* algebraic_simplify                                                      *)
LEMMA FunctionSeq ==
  ASSUME NEW n \in Nat, NEW S, NEW s \in [1..n -> S]
  PROVE  s \in Seq(S) /\ Len(s) = n
  OBVIOUS

LEMMA NegatedNat ==
  ASSUME NEW blk, Good(blk), NEW v
  PROVE  Negated(blk, v) \subseteq Nat
  <1> SUFFICES ASSUME NEW x \in Negated(blk, v) PROVE x \in Nat
    OBVIOUS
  <1>1. PICK i \in ElemsOf(blk) : i.k = "UnaryOp" /\ x = i.a[1]
    BY DEF Negated, DefinedBy, IsNeg
  <1> QED BY <1>1, GoodFacts, InsFacts

LEMMA InvertedNat ==
  ASSUME NEW blk, Good(blk), NEW v
  PROVE  Inverted(blk, v) \subseteq Nat
  <1> SUFFICES ASSUME NEW x \in Inverted(blk, v) PROVE x \in Nat
    OBVIOUS
  <1>1. PICK i \in ElemsOf(blk) : i.k = "BinOp" /\ (x = i.a[1] \/ x = i.a[2])
    BY DEF Inverted, DefinedBy, IsNot
  <1> QED BY <1>1, GoodFacts, InsFacts

(* The same instruction with other operands.                               *)
LEMMA WithOperands ==
  ASSUME NEW i, IsIns(i), NEW j, DOMAIN j = DOMAIN i, i.k # "BinOp" => j.f = i.f, i.k = "BinOp" => j.f \in BinOps,
         j.k = i.k, j.b = i.b, j.r = i.r, j.a \in Seq(Nat), Len(j.a) = Len(i.a)
  PROVE  IsIns(j) /\ Claims(j) = Claims(i)
  <1>1. IsIns(j)
    BY DEF IsIns
  <1> QED BY <1>1 DEF Claims

(* An identity gives the instruction other operands, or takes it out.      *)
LEMMA SimplifiedFacts ==
  ASSUME NEW blk, Good(blk), NEW i \in ElemsOf(blk)
  PROVE  IsIns(Simplified(blk, i)) /\ Claims(Simplified(blk, i)) \subseteq Claims(i)
  <1> DEFINE same == i.a[1] = i.a[2]
             neg == [n \in 1..2 |-> Negated(blk, i.a[n])]
             not == Inverted(blk, i.a[1])
             lit == \A n \in {0, 1} : IsIns(Literal(n, i.r)) /\ Claims(Literal(n, i.r)) \subseteq Claims(i)
             bin == i.k = "BinOp"
             sel == i.k = "Select"
             g1 == bin /\ i.f = "Sub" /\ same
             g2 == bin /\ i.f = "Sub" /\ ~same /\ 0 \in Consts(blk, i.a[1])
             g3 == bin /\ i.f = "Mul" /\ neg[1] # {} /\ neg[2] # {}
             g4 == bin /\ i.f = "CmpLt"
             g5 == bin /\ i.f = "CmpEq" /\ same
             g6 == sel /\ i.a[2] # i.a[3] /\ not # {} /\ Consts(blk, i.a[1]) \cap {0, 1} = {}
             x2 == Ins("UnaryOp", "Neg", <<i.a[2]>>, <<>>, i.r)
             x3 == [i EXCEPT !.a = [n \in 1..2 |-> CHOOSE v \in neg[n] : TRUE]]
             x4 == [i EXCEPT !.f = "CmpGt", !.a = Reverse(@)]
             x6 == [i EXCEPT !.a = <<CHOOSE v \in not : TRUE, i.a[3], i.a[2]>>]
  <1>0. IsIns(i) /\ DOMAIN i = {"k", "f", "a", "b", "r"} /\ i.r \in Nat /\ i.a \in Seq(Nat)
    BY GoodFacts, InsFacts
  <1>1. lit
    BY <1>0, LiteralFacts, ClaimsResult
  <1>2. bin => i.a[1] \in Nat /\ i.a[2] \in Nat /\ Len(i.a) = 2
    BY <1>0, InsFacts
  <1>3. sel => i.a[1] \in Nat /\ i.a[2] \in Nat /\ i.a[3] \in Nat /\ Len(i.a) = 3
    BY <1>0, InsFacts
  <1>4. g2 => IsIns(x2) /\ Claims(x2) \subseteq Claims(i)
    <2> SUFFICES ASSUME g2 PROVE IsIns(x2) /\ Claims(x2) \subseteq Claims(i)
      OBVIOUS
    <2>1. i.a[2] \in Nat
      BY <1>2
    <2> QED BY <1>0, <2>1, MadeNeg, ClaimsResult
  <1>5. g3 => IsIns(x3) /\ Claims(x3) \subseteq Claims(i)
    <2> SUFFICES ASSUME g3 PROVE IsIns(x3) /\ Claims(x3) \subseteq Claims(i)
      OBVIOUS
    <2> DEFINE a == [n \in 1..2 |-> CHOOSE v \in neg[n] : TRUE]
    <2>1. \A n \in 1..2 : neg[n] \subseteq Nat /\ neg[n] # {}
      BY NegatedNat
    <2> HIDE DEF neg
    <2>2. a \in [1..2 -> Nat]
      BY <2>1
    <2> HIDE DEF a
    <2>3. a \in Seq(Nat) /\ Len(a) = 2
      BY <2>2, FunctionSeq
    <2>4. x3 = [i EXCEPT !.a = a]
      BY DEF a
    <2> HIDE DEF x3
    <2>5. DOMAIN x3 = DOMAIN i /\ x3.f = i.f /\ x3.k = i.k /\ x3.b = i.b /\ x3.r = i.r /\ x3.a = a
      BY <1>0, <2>4
    <2>6. i.f \in BinOps
      BY <1>0 DEF IsIns
    <2> QED BY <1>0, <1>2, <2>3, <2>5, <2>6, WithOperands
  <1>6. g4 => IsIns(x4) /\ Claims(x4) \subseteq Claims(i)
    <2> SUFFICES ASSUME g4 PROVE IsIns(x4) /\ Claims(x4) \subseteq Claims(i)
      OBVIOUS
    <2>1. DOMAIN x4 = DOMAIN i /\ x4.f = "CmpGt" /\ x4.k = i.k /\ x4.b = i.b /\ x4.r = i.r /\ x4.a = Reverse(i.a)
      BY <1>0
    <2>2. IsSeq(i.a)
      BY <1>0, SeqFacts
    <2>3. Reverse(i.a) \in Seq(Nat) /\ Len(Reverse(i.a)) = Len(i.a)
      BY <1>0, <2>2, ReverseFacts
    <2>4. "CmpGt" \in BinOps
      BY DEF BinOps
    <2> HIDE DEF x4
    <2> QED BY <1>0, <1>2, <2>1, <2>3, <2>4, WithOperands
  <1>7. g6 => IsIns(x6) /\ Claims(x6) \subseteq Claims(i)
    <2> SUFFICES ASSUME g6 PROVE IsIns(x6) /\ Claims(x6) \subseteq Claims(i)
      OBVIOUS
    <2> DEFINE c == CHOOSE v \in not : TRUE
               a == <<c, i.a[3], i.a[2]>>
    <2>1. c \in Nat
      BY InvertedNat
    <2> HIDE DEF c
    <2>2. a \in Seq(Nat) /\ Len(a) = 3
      BY <1>3, <2>1
    <2>3. DOMAIN x6 = DOMAIN i /\ x6.f = i.f /\ x6.k = i.k /\ x6.b = i.b /\ x6.r = i.r /\ x6.a = a
      BY <1>0 DEF c
    <2> HIDE DEF x6, a
    <2> QED BY <1>0, <1>3, <2>2, <2>3, WithOperands
  <1>8. Simplified(blk, i) = CASE g1 -> Literal(0, i.r) [] g2 -> x2 [] g3 -> x3 [] g4 -> x4
                               [] g5 -> Literal(1, i.r) [] g6 -> x6 [] OTHER -> i
    BY DEF Simplified
  <1>9. /\ g1 => ~g2 /\ ~g3 /\ ~g4 /\ ~g5 /\ ~g6
        /\ g2 => ~g1 /\ ~g3 /\ ~g4 /\ ~g5 /\ ~g6
        /\ g3 => ~g1 /\ ~g2 /\ ~g4 /\ ~g5 /\ ~g6
        /\ g4 => ~g1 /\ ~g2 /\ ~g3 /\ ~g5 /\ ~g6
        /\ g5 => ~g1 /\ ~g2 /\ ~g3 /\ ~g4 /\ ~g6
        /\ g6 => ~g1 /\ ~g2 /\ ~g3 /\ ~g4 /\ ~g5
    OBVIOUS
  <1> HIDE DEF g1, g2, g3, g4, g5, g6, x2, x3, x4, x6
  <1>10. \/ g1 /\ Simplified(blk, i) = Literal(0, i.r)
         \/ g2 /\ Simplified(blk, i) = x2
         \/ g3 /\ Simplified(blk, i) = x3
         \/ g4 /\ Simplified(blk, i) = x4
         \/ g5 /\ Simplified(blk, i) = Literal(1, i.r)
         \/ g6 /\ Simplified(blk, i) = x6
         \/ Simplified(blk, i) = i
    BY <1>8, <1>9
  <1> QED BY <1>0, <1>1, <1>4, <1>5, <1>6, <1>7, <1>10

LEMMA AwayNat ==
  ASSUME NEW blk, Good(blk), NEW i \in ElemsOf(blk)
  PROVE  SimplifiedAway(blk, i) \subseteq Nat /\ Identity(blk, i) \subseteq Nat
  <1>0. IsIns(i)
    BY GoodFacts
  <1>1. CASE i.k \in {"BinOp", "Select", "Cast"}
    <2>1. i.a[1] \in Nat /\ (i.k # "Cast" => i.a[2] \in Nat) /\ (i.k = "Select" => i.a[3] \in Nat)
      BY <1>0, <1>1, InsFacts
    <2>2. SimplifiedAway(blk, i) \subseteq Nat
      BY <1>1, <2>1 DEF SimplifiedAway
    <2>3. Identity(blk, i) \subseteq Nat
      BY <1>1, <2>1 DEF Identity
    <2> QED BY <2>2, <2>3
  <1>2. CASE i.k \notin {"BinOp", "Select", "Cast"}
    BY <1>2 DEF SimplifiedAway, Identity
  <1> QED BY <1>1, <1>2

LEMMA SimplifyOnceKeeps ==
  ASSUME NEW blk, Good(blk), NEW n
  PROVE  Good(SimplifyOnce(blk, n)) /\ Claimed(SimplifyOnce(blk, n)) \subseteq Claimed(blk)
  <1> DEFINE A(i) == SimplifiedAway(blk, i)
             away == AwayMap(blk, SimplifiedAway)
             map == IF DOMAIN away \cap BlockRefs(blk) = {} THEN NoMap ELSE away
             new == [j \in DOMAIN blk |-> Simplified(blk, blk[j])]
  <1>1. SimplifyOnce(blk, n) = Redirect(new, map)
    BY DEF SimplifyOnce
  <1>2. away = [v \in {i.r : i \in {j \in ElemsOf(blk) : A(j) # {}}} |->
                  CHOOSE w \in UNION {A(i) : i \in {j \in ElemsOf(blk) : j.r = v}} : TRUE]
    BY DEF AwayMap
  <1>3. \A i \in ElemsOf(blk) : A(i) \subseteq Nat
    BY AwayNat
  <1>4. IsFiniteSet({i.r : i \in {j \in ElemsOf(blk) : A(j) # {}}})
        /\ {i.r : i \in {j \in ElemsOf(blk) : A(j) # {}}} \subseteq Nat
    <2> HIDE DEF A
    <2> QED BY ResultsFinite
  <1> HIDE DEF A, away
  <1>5. IsMap(away) /\ IsFiniteSet(DOMAIN away) /\ DOMAIN away \subseteq Nat
    BY <1>2, <1>3, <1>4 DEF IsMap
  <1>6. IsMap(NoMap) /\ IsFiniteSet(DOMAIN NoMap) /\ DOMAIN NoMap \subseteq Nat
    BY FS_EmptySet DEF IsMap, NoMap
  <1>7. IsMap(map) /\ IsFiniteSet(DOMAIN map) /\ DOMAIN map \subseteq Nat
    BY <1>5, <1>6
  <1>8. \A j \in DOMAIN blk : new[j] = Simplified(blk, blk[j]) /\ blk[j] \in ElemsOf(blk)
    BY GoodFacts
  <1>9. new = [j \in DOMAIN blk |-> new[j]]
    OBVIOUS
  <1> HIDE DEF map, new
  <1>10. \A j \in DOMAIN blk : IsIns(new[j]) /\ Claims(new[j]) \subseteq Claims(blk[j])
    BY <1>8, SimplifiedFacts
  <1>11. Good(new) /\ Claimed(new) \subseteq Claimed(blk)
    BY <1>9, <1>10, Mapped
  <1>12. Good(Redirect(new, map)) /\ Claimed(Redirect(new, map)) \subseteq Claimed(new)
    BY <1>7, <1>11, RedirectKeeps
  <1> QED BY <1>1, <1>11, <1>12

LEMMA SimplifyBlockKeeps ==
  ASSUME NEW blk, Good(blk)
  PROVE  Good(SimplifyBlock(blk)) /\ Claimed(SimplifyBlock(blk)) \subseteq Claimed(blk)
  <1> DEFINE C == Claimed(blk)
             t == <<"simplify", C>>
             s == Count(MaxRounds)
  <1>1. IsSeq(s)
    BY CountFacts, MaxRoundsAssumption
  <1>2. SimplifyBlock(blk) = FoldLeft(SimplifyOnce, blk, s)
    BY DEF SimplifyBlock
  <1> HIDE DEF s
  <1>3. PICK f : FoldsTo(f, t, blk, s, DOMAIN s) /\ FoldLeft(SimplifyOnce, blk, s) = f[DOMAIN s]
    BY <1>1, SimplifyFold
  <1>4. \A n, z : /\ Holds(t, n, z) <=> Good(z) /\ Claimed(z) \subseteq C
                  /\ \A e : Turn(t, z, e) = SimplifyOnce(z, e)
    BY DEF Holds, Turn
  <1>5. C = Claimed(blk)
    OBVIOUS
  <1> HIDE DEF t, C
  <1>6. \A z, e : Good(z) => Good(SimplifyOnce(z, e)) /\ Claimed(SimplifyOnce(z, e)) \subseteq Claimed(z)
    BY SimplifyOnceKeeps
  <1>7. Holds(t, Len(s), f[DOMAIN s])
    <2>1. Holds(t, 0, blk)
      BY <1>4, <1>5
    <2>2. \A n \in 1..Len(s) : \A z : Holds(t, n - 1, z) => Holds(t, n, Turn(t, z, s[n]))
      <3> SUFFICES ASSUME NEW n \in 1..Len(s), NEW z, Holds(t, n - 1, z) PROVE Holds(t, n, Turn(t, z, s[n]))
        OBVIOUS
      <3>1. Good(z) /\ Claimed(z) \subseteq C
        BY <1>4
      <3> QED BY <1>4, <1>6, <3>1
    <2> QED BY <1>1, <1>3, <2>1, <2>2, FoldKeeps
  <1> QED BY <1>2, <1>3, <1>4, <1>5, <1>7

LEMMA AlgebraicSimplifyKeeps ==
  ASSUME NEW k, KInv(k)
  PROVE  KInv(AlgebraicSimplify(k))
  <1> DEFINE k2 == [b \in DOMAIN k |-> SimplifyBlock(k[b])]
  <1>1. DOMAIN k2 = DOMAIN k /\ \A b \in DOMAIN k : k2[b] = SimplifyBlock(k[b])
    OBVIOUS
  <1>2. AlgebraicSimplify(k) = EliminateDeadValues(k2)
    BY DEF AlgebraicSimplify
  <1> HIDE DEF k2
  <1>3. KInv(k2)
    BY <1>1, KernelFacts, SimplifyBlockKeeps, BlockwiseKeeps
  <1> QED BY <1>2, <1>3, EliminateKeeps

(* copy_prop                                                               *)
LEMMA CopyPropOnceKeeps ==
  ASSUME NEW blk, Good(blk), NEW n
  PROVE  Good(CopyPropOnce(blk, n)) /\ Claimed(CopyPropOnce(blk, n)) \subseteq Claimed(blk)
  <1> DEFINE A(i) == Identity(blk, i)
             map == AwayMap(blk, Identity)
  <1>1. CopyPropOnce(blk, n) = blk \/ CopyPropOnce(blk, n) = Redirect(blk, map)
    BY DEF CopyPropOnce
  <1>2. map = [v \in {i.r : i \in {j \in ElemsOf(blk) : A(j) # {}}} |->
                 CHOOSE w \in UNION {A(i) : i \in {j \in ElemsOf(blk) : j.r = v}} : TRUE]
    BY DEF AwayMap
  <1>3. \A i \in ElemsOf(blk) : A(i) \subseteq Nat
    BY AwayNat
  <1>4. IsFiniteSet({i.r : i \in {j \in ElemsOf(blk) : A(j) # {}}})
        /\ {i.r : i \in {j \in ElemsOf(blk) : A(j) # {}}} \subseteq Nat
    <2> HIDE DEF A
    <2> QED BY ResultsFinite
  <1> HIDE DEF A, map
  <1>5. IsMap(map) /\ IsFiniteSet(DOMAIN map) /\ DOMAIN map \subseteq Nat
    BY <1>2, <1>3, <1>4 DEF IsMap
  <1> QED BY <1>1, <1>5, RedirectKeeps

LEMMA CopyPropBlockKeeps ==
  ASSUME NEW blk, Good(blk)
  PROVE  Good(CopyPropBlock(blk)) /\ Claimed(CopyPropBlock(blk)) \subseteq Claimed(blk)
  <1> DEFINE C == Claimed(blk)
             t == <<"copy_prop", C>>
             s == Count(MaxRounds)
  <1>1. IsSeq(s)
    BY CountFacts, MaxRoundsAssumption
  <1>2. CopyPropBlock(blk) = FoldLeft(CopyPropOnce, blk, s)
    BY DEF CopyPropBlock
  <1> HIDE DEF s
  <1>3. PICK f : FoldsTo(f, t, blk, s, DOMAIN s) /\ FoldLeft(CopyPropOnce, blk, s) = f[DOMAIN s]
    BY <1>1, CopyPropFold
  <1>4. \A n, z : /\ Holds(t, n, z) <=> Good(z) /\ Claimed(z) \subseteq C
                  /\ \A e : Turn(t, z, e) = CopyPropOnce(z, e)
    BY DEF Holds, Turn
  <1>5. C = Claimed(blk)
    OBVIOUS
  <1> HIDE DEF t, C
  <1>6. \A z, e : Good(z) => Good(CopyPropOnce(z, e)) /\ Claimed(CopyPropOnce(z, e)) \subseteq Claimed(z)
    BY CopyPropOnceKeeps
  <1>7. Holds(t, Len(s), f[DOMAIN s])
    <2>1. Holds(t, 0, blk)
      BY <1>4, <1>5
    <2>2. \A n \in 1..Len(s) : \A z : Holds(t, n - 1, z) => Holds(t, n, Turn(t, z, s[n]))
      <3> SUFFICES ASSUME NEW n \in 1..Len(s), NEW z, Holds(t, n - 1, z) PROVE Holds(t, n, Turn(t, z, s[n]))
        OBVIOUS
      <3>1. Good(z) /\ Claimed(z) \subseteq C
        BY <1>4
      <3> QED BY <1>4, <1>6, <3>1
    <2> QED BY <1>1, <1>3, <2>1, <2>2, FoldKeeps
  <1> QED BY <1>2, <1>3, <1>4, <1>5, <1>7

LEMMA CopyPropKeeps ==
  ASSUME NEW k, KInv(k)
  PROVE  KInv(CopyProp(k))
  <1> DEFINE k2 == [b \in DOMAIN k |-> CopyPropBlock(k[b])]
  <1>1. DOMAIN k2 = DOMAIN k /\ \A b \in DOMAIN k : k2[b] = CopyPropBlock(k[b])
    OBVIOUS
  <1>2. CopyProp(k) = EliminateDeadValues(k2)
    BY DEF CopyProp
  <1> HIDE DEF k2
  <1>3. KInv(k2)
    BY <1>1, KernelFacts, CopyPropBlockKeeps, BlockwiseKeeps
  <1> QED BY <1>2, <1>3, EliminateKeeps

-----------------------------------------------------------------------------
(* Numbers in order.                                                       *)
LEMMA LeastExists ==
  ASSUME NEW S \in SUBSET Nat, S # {}
  PROVE  \E h \in S : \A g \in S : h <= g
  <1> SUFFICES ASSUME \A h \in S : \E g \in S : ~(h <= g) PROVE FALSE
    OBVIOUS
  <1> DEFINE P == {n \in Nat : \A h \in S : h > n}
  <1>1. 0 \in P
    <2> SUFFICES ASSUME NEW h \in S PROVE h > 0
      OBVIOUS
    <2>1. PICK g \in S : ~(h <= g)
      OBVIOUS
    <2>2. g \in Nat /\ h \in Nat
      OBVIOUS
    <2> QED BY <2>1, <2>2
  <1>2. ASSUME NEW n \in Nat, n \in P PROVE n + 1 \in P
    <2> SUFFICES ASSUME NEW h \in S PROVE h > n + 1
      OBVIOUS
    <2>1. PICK g \in S : ~(h <= g)
      OBVIOUS
    <2>2. g > n /\ h \in Nat /\ g \in Nat
      BY <1>2
    <2> QED BY <2>1, <2>2
  <1> HIDE DEF P
  <1>3. Nat \subseteq P
    BY <1>1, <1>2, NatSetInduction
  <1>4. PICK h \in S : TRUE
    OBVIOUS
  <1>5. h > h /\ h \in Nat
    BY <1>3, <1>4 DEF P
  <1> QED BY <1>5

LEMMA MaxOfFacts ==
  ASSUME NEW S \in SUBSET Nat, IsFiniteSet(S), S # {}
  PROVE  MaxOf(S) \in S /\ \A y \in S : y <= MaxOf(S)
  <1> DEFINE P == {T \in SUBSET S : T = {} \/ \E m \in T : \A y \in T : y <= m}
  <1>1. {} \in P
    OBVIOUS
  <1>2. ASSUME NEW T \in SUBSET S, NEW x \in S \ T, T \in P PROVE T \cup {x} \in P
    <2>1. CASE T = {}
      BY <2>1
    <2>2. CASE T # {}
      <3>1. PICK m \in T : \A y \in T : y <= m
        BY <1>2, <2>2
      <3>2. m \in Nat /\ x \in Nat /\ \A y \in T : y \in Nat
        OBVIOUS
      <3>3. CASE x <= m
        BY <3>1, <3>3
      <3>4. CASE ~(x <= m)
        <4>1. \A y \in T \cup {x} : y <= x
          BY <3>1, <3>2, <3>4
        <4> QED BY <4>1
      <3> QED BY <3>3, <3>4
    <2> QED BY <2>1, <2>2
  <1> HIDE DEF P
  <1>3. S \in P
    BY <1>1, <1>2, FiniteSetInduction
  <1>4. \E m \in S : \A y \in S : y <= m
    BY <1>3 DEF P
  <1> QED BY <1>4 DEF MaxOf

(* A set of positive numbers in order has each of them once.               *)
LEMMA AscendingFacts ==
  ASSUME NEW S \in SUBSET (Nat \ {0}), IsFiniteSet(S)
  PROVE  /\ IsSeq(Ascending(S)) /\ ElemsOf(Ascending(S)) = S
         /\ \A p, q \in DOMAIN Ascending(S) : p # q => Ascending(S)[p] # Ascending(S)[q]
  <1> DEFINE N == MaxOf({0} \cup S)
             ss == [n \in 1..N |-> IF n \in S THEN <<n>> ELSE <<>>]
  <1>1. N \in Nat /\ S \subseteq 1..N
    <2> DEFINE T == {0} \cup S
    <2>1. IsFiniteSet({0})
      BY FS_Singleton
    <2>2. IsFiniteSet(T)
      BY <2>1, FS_Union
    <2>3. T \in SUBSET Nat /\ T # {} /\ S \subseteq T
      OBVIOUS
    <2>4. N = MaxOf(T)
      OBVIOUS
    <2> HIDE DEF N, T
    <2>5. N \in Nat /\ \A y \in T : y <= N
      BY <2>2, <2>3, <2>4, MaxOfFacts
    <2>6. \A y \in S : y \in 1..N
      BY <2>3, <2>5
    <2> QED BY <2>5, <2>6
  <1>2. Ascending(S) = FlattenSeq(ss)
    BY DEF Ascending
  <1> HIDE DEF N
  <1>3. ss = [n \in 1..N |-> ss[n]] /\ \A n \in 1..N : ss[n] = IF n \in S THEN <<n>> ELSE <<>>
    OBVIOUS
  <1> HIDE DEF ss
  <1>4. \A n \in 1..N : IsSeq(ss[n]) /\ ElemsOf(ss[n]) = {n} \cap S
    BY <1>3, NothingIsGood, OneIsGood
  <1>5. IsSeq(FlattenSeq(ss)) /\ ElemsOf(FlattenSeq(ss)) = UNION {ElemsOf(ss[j]) : j \in 1..N}
    BY <1>1, <1>3, <1>4, FlattenElems
  <1>6. ElemsOf(FlattenSeq(ss)) = S
    BY <1>1, <1>4, <1>5
  <1>7. PICK g : g[0] = <<>> /\ g[N] = FlattenSeq(ss) /\ \A j \in 1..N : g[j] = g[j - 1] \o ss[j]
    BY <1>1, <1>3, <1>4, FlattenUnfolds
  <1> DEFINE Rises(s, n) == /\ IsSeq(s) /\ \A p \in DOMAIN s : s[p] \in 1..n
                            /\ \A p, q \in DOMAIN s : p # q => s[p] # s[q]
             P == {n \in Nat : n <= N => Rises(g[n], n)}
  <1>8. 0 \in P
    <2>1. DOMAIN <<>> = {} /\ IsSeq(<<>>)
      BY NothingIsGood
    <2> QED BY <1>7, <2>1
  <1>9. ASSUME NEW n \in Nat, n \in P PROVE n + 1 \in P
    <2> SUFFICES ASSUME n + 1 <= N PROVE Rises(g[n + 1], n + 1)
      OBVIOUS
    <2>1. n + 1 \in 1..N /\ (n + 1) - 1 = n /\ n <= N
      BY <1>1
    <2>2. g[n + 1] = g[n] \o ss[n + 1]
      BY <1>7, <2>1
    <2>3. Rises(g[n], n)
      BY <1>9, <2>1
    <2> DEFINE x == g[n]
               y == ss[n + 1]
    <2>4. IsSeq(x) /\ IsSeq(y)
      BY <1>4, <2>1, <2>3
    <2>5. /\ IsSeq(x \o y)
          /\ \A j \in DOMAIN (x \o y) : \/ j \in DOMAIN x /\ (x \o y)[j] = x[j]
                                        \/ j - Len(x) \in DOMAIN y /\ (x \o y)[j] = y[j - Len(x)]
      BY <2>4, Concat
    <2>6. \A j \in DOMAIN y : j = 1 /\ y[j] = n + 1
      BY <1>3, <2>1
    <2>7. DOMAIN (x \o y) \subseteq Int /\ Len(x) \in Nat
      <3> HIDE DEF x, y
      <3>1. Len(x) \in Nat
        BY <2>4, SeqFacts
      <3>2. DOMAIN (x \o y) = 1..Len(x \o y) /\ Len(x \o y) \in Nat
        BY <2>5, SeqFacts
      <3> QED BY <3>1, <3>2
    <2>8. \A j \in DOMAIN x : x[j] \in 1..n
      BY <2>3
    <2>9. \A p, q \in DOMAIN x : p # q => x[p] # x[q]
      BY <2>3
    <2> HIDE DEF x, y
    <2>10. \A p \in DOMAIN (x \o y) : (x \o y)[p] \in 1..(n + 1)
      BY <2>5, <2>6, <2>8
    <2>11. \A p, q \in DOMAIN (x \o y) : p # q => (x \o y)[p] # (x \o y)[q]
      BY <2>5, <2>6, <2>7, <2>8, <2>9
    <2>12. g[n + 1] = x \o y
      BY <2>2 DEF x, y
    <2> QED BY <2>5, <2>10, <2>11, <2>12
  <1> HIDE DEF P
  <1>10. N \in P
    BY <1>1, <1>8, <1>9, NatSetInduction
  <1>11. \A p, q \in DOMAIN g[N] : p # q => g[N][p] # g[N][q]
    BY <1>1, <1>10 DEF P
  <1> QED BY <1>2, <1>5, <1>6, <1>7, <1>11

LEMMA NestedFacts ==
  ASSUME NEW k, KInv(k)
  PROVE  /\ IsSeq(Ascending(Nested(k))) /\ ElemsOf(Ascending(Nested(k))) = DOMAIN k \ {Body}
         /\ IsSeq(Descending(Nested(k))) /\ ElemsOf(Descending(Nested(k))) = DOMAIN k \ {Body}
  <1>1. Nested(k) \in SUBSET (Nat \ {0}) /\ IsFiniteSet(Nested(k))
    BY FS_Subset DEF Nested, KInv, Body
  <1>2. IsSeq(Ascending(Nested(k))) /\ ElemsOf(Ascending(Nested(k))) = DOMAIN k \ {Body}
    BY <1>1, AscendingFacts DEF Nested
  <1> QED BY <1>2, ReverseFacts DEF Descending

LEMMA AppendFacts ==
  ASSUME NEW s, IsSeq(s), NEW x
  PROVE  Append(s, x) = s \o <<x>> /\ IsSeq(Append(s, x)) /\ ElemsOf(Append(s, x)) = ElemsOf(s) \cup {x}
  <1>1. Append(s, x) = s \o <<x>>
    BY DEF IsSeq
  <1> QED BY <1>1, OneIsGood, Concat

-----------------------------------------------------------------------------
(* cse                                                                     *)
(* A duplicate is mapped to the value of the first of its kind.            *)
LEMMA DuplicatesMap ==
  ASSUME NEW blk, Good(blk)
  PROVE  IsMap(Duplicates(blk))
  <1> DEFINE firsts(j) == {h \in 1..j : Keys(blk[h]) = Keys(blk[j])}
             dup == {j \in DOMAIN blk : Keys(blk[j]) # {} /\ firsts(j) # {j}}
             J(v) == CHOOSE j \in dup : blk[j].r = v
             H(j) == CHOOSE h \in firsts(j) : \A g \in firsts(j) : h <= g
  <1>1. Duplicates(blk) = [v \in {blk[j].r : j \in dup} |-> blk[H(J(v))].r]
    BY DEF Duplicates
  <1>2. \A v \in {blk[j].r : j \in dup} : J(v) \in dup
    OBVIOUS
  <1>3. ASSUME NEW j \in dup PROVE blk[H(j)].r \in Nat
    <2>1. Len(blk) \in Nat /\ j \in 1..Len(blk) /\ DOMAIN blk = 1..Len(blk)
      BY GoodFacts
    <2>2. firsts(j) \in SUBSET Nat /\ j \in firsts(j)
      BY <2>1
    <2>3. \A h \in firsts(j) : h \in DOMAIN blk
      BY <2>1
    <2> HIDE DEF firsts
    <2>4. \E h \in firsts(j) : \A g \in firsts(j) : h <= g
      BY <2>2, LeastExists
    <2>5. H(j) \in firsts(j)
      BY <2>4
    <2> HIDE DEF H
    <2> QED BY <2>3, <2>5, GoodFacts, InsFacts
  <1> HIDE DEF dup, J, H
  <1> QED BY <1>1, <1>2, <1>3 DEF IsMap

LEMMA CseBlockKeeps ==
  ASSUME NEW k, KInv(k), NEW b \in DOMAIN k
  PROVE  KInv(CseBlock(k, b)) /\ DOMAIN CseBlock(k, b) = DOMAIN k
  <1> DEFINE map == Duplicates(k[b])
             new(c) == RemapBlock(k[c], map)
             ss == [j \in DOMAIN new(b) |-> IF new(b)[j].r \notin DOMAIN map THEN <<new(b)[j]>> ELSE <<>>]
             k2 == CseBlock(k, b)
  <1>1. k2 = [c \in DOMAIN k |-> IF c = b THEN FlattenSeq(ss) ELSE new(c)]
    BY DEF CseBlock, Only
  <1>2. IsMap(map)
    BY KernelFacts, DuplicatesMap
  <1> HIDE DEF k2, map
  <1>3. ASSUME NEW c \in DOMAIN k PROVE Good(new(c)) /\ Claimed(new(c)) \subseteq Claimed(k[c])
    BY <1>2, KernelFacts, RemapBlockKeeps
  <1>4. ss = [j \in DOMAIN new(b) |-> ss[j]] /\ \A j \in DOMAIN new(b) : ss[j] \in {<<>>, <<new(b)[j]>>}
    OBVIOUS
  <1>5. Good(new(b)) /\ Claimed(new(b)) \subseteq Claimed(k[b])
    BY <1>3
  <1> HIDE DEF ss, new
  <1>6. Good(FlattenSeq(ss)) /\ Claimed(FlattenSeq(ss)) \subseteq Claimed(k[b])
    BY <1>4, <1>5, Filtered
  <1>7. DOMAIN k2 = DOMAIN k /\ \A c \in DOMAIN k : Good(k2[c]) /\ Claimed(k2[c]) \subseteq Claimed(k[c])
    BY <1>1, <1>3, <1>6
  <1>8. KInv(k2)
    BY <1>7, BlockwiseKeeps
  <1> QED BY <1>7, <1>8 DEF k2

LEMMA CseKeeps ==
  ASSUME NEW k, KInv(k)
  PROVE  KInv(Cse(k))
  <1> DEFINE D == DOMAIN k
             t == <<"cse", D>>
             s == <<Body>> \o Ascending(Nested(k))
  <1>1. IsSeq(s) /\ ElemsOf(s) \subseteq D
    BY NestedFacts, OneIsGood, Concat DEF KInv
  <1>2. Cse(k) = EliminateDeadValues(FoldLeft(CseBlock, k, s))
    BY DEF Cse
  <1> HIDE DEF s
  <1>3. PICK f : FoldsTo(f, t, k, s, DOMAIN s) /\ FoldLeft(CseBlock, k, s) = f[DOMAIN s]
    BY <1>1, CseFold
  <1>4. \A n, z : /\ Holds(t, n, z) <=> KInv(z) /\ DOMAIN z = D
                  /\ \A e : Turn(t, z, e) = CseBlock(z, e)
    BY DEF Holds, Turn
  <1>5. D = DOMAIN k
    OBVIOUS
  <1> HIDE DEF t, D
  <1>6. Holds(t, Len(s), f[DOMAIN s])
    <2>1. Holds(t, 0, k)
      BY <1>4, <1>5
    <2>2. \A n \in 1..Len(s) : \A z : Holds(t, n - 1, z) => Holds(t, n, Turn(t, z, s[n]))
      <3> SUFFICES ASSUME NEW n \in 1..Len(s), NEW z, Holds(t, n - 1, z) PROVE Holds(t, n, Turn(t, z, s[n]))
        OBVIOUS
      <3>1. KInv(z) /\ DOMAIN z = D /\ s[n] \in D
        BY <1>1, <1>4, SeqFacts
      <3>2. KInv(CseBlock(z, s[n])) /\ DOMAIN CseBlock(z, s[n]) = D
        BY <3>1, CseBlockKeeps
      <3> QED BY <1>4, <3>2
    <2> QED BY <1>1, <1>3, <2>1, <2>2, FoldKeeps
  <1>7. KInv(FoldLeft(CseBlock, k, s))
    BY <1>3, <1>4, <1>6
  <1> QED BY <1>2, <1>7, EliminateKeeps

-----------------------------------------------------------------------------
(* licm                                                                    *)
(* What is taken out of a block and what is left claim nothing in common.  *)
LEMMA Split ==
  ASSUME NEW blk, Good(blk), NEW ss, ss = [j \in DOMAIN blk |-> ss[j]],
         NEW tt, tt = [j \in DOMAIN blk |-> tt[j]],
         \A j \in DOMAIN blk : \/ (ss[j] = <<blk[j]>> /\ tt[j] = <<>>)
                              \/ (ss[j] = <<>> /\ tt[j] = <<blk[j]>>)
  PROVE  Claimed(FlattenSeq(ss)) \cap Claimed(FlattenSeq(tt)) = {}
  <1>1. \A j \in DOMAIN blk : ss[j] \in {<<>>, <<blk[j]>>} /\ tt[j] \in {<<>>, <<blk[j]>>}
    OBVIOUS
  <1>2. ElemsOf(FlattenSeq(ss)) = {blk[j] : j \in {h \in DOMAIN blk : ss[h] # <<>>}}
    BY <1>1, Filtered
  <1>3. ElemsOf(FlattenSeq(tt)) = {blk[j] : j \in {h \in DOMAIN blk : tt[h] # <<>>}}
    BY <1>1, Filtered
  <1>4. \A j \in DOMAIN blk : ss[j] = <<>> \/ tt[j] = <<>>
    OBVIOUS
  <1> SUFFICES ASSUME NEW x \in Claimed(FlattenSeq(ss)), x \in Claimed(FlattenSeq(tt)) PROVE FALSE
    OBVIOUS
  <1>5. PICK p \in DOMAIN blk : ss[p] # <<>> /\ x \in Claims(blk[p])
    BY <1>2 DEF Claimed
  <1>6. PICK q \in DOMAIN blk : tt[q] # <<>> /\ x \in Claims(blk[q])
    BY <1>3 DEF Claimed
  <1>7. p # q
    BY <1>4, <1>5, <1>6
  <1> QED BY <1>5, <1>6, <1>7 DEF Good, Apart

(* What leaves a loop's body enters the block before the loop.             *)
LEMMA LicmBlockKeeps ==
  ASSUME NEW def, NEW k, KInv(k), NEW b \in DOMAIN k
  PROVE  KInv(LicmBlock(def, k, b)) /\ DOMAIN LicmBlock(def, k, b) = DOMAIN k
  <1> DEFINE blk == k[b]
             inv(j) == LoopInvariants(k, def, b, j)
             loops == {j \in DOMAIN blk : IsLoop(k, blk[j])}
             o(j) == blk[j].b[1]
             hs(j) == [h \in DOMAIN k[o(j)] |-> IF Hoistable(k[o(j)][h], inv(j)) THEN <<k[o(j)][h]>> ELSE <<>>]
             ls(j) == [h \in DOMAIN k[o(j)] |-> IF ~Hoistable(k[o(j)][h], inv(j)) THEN <<k[o(j)][h]>> ELSE <<>>]
             H(j) == FlattenSeq(hs(j))
             L(j) == FlattenSeq(ls(j))
             ss == [j \in DOMAIN blk |-> IF j \in loops THEN Append(H(j), blk[j]) ELSE <<blk[j]>>]
             owner(c) == {j \in loops : o(j) = c}
             J(c) == CHOOSE j \in owner(c) : TRUE
             k2 == LicmBlock(def, k, b)
  <1>1. k2 = [c \in DOMAIN k |-> IF c = b THEN FlattenSeq(ss) ELSE IF owner(c) # {} THEN L(J(c)) ELSE k[c]]
    BY DEF LicmBlock, Splice, Only
  <1>2. Good(blk) /\ Len(blk) \in Nat /\ DOMAIN blk = 1..Len(blk) /\ \A j \in DOMAIN blk : IsIns(blk[j])
    BY KernelFacts, GoodFacts
  <1>3. ASSUME NEW j \in loops
        PROVE  j \in DOMAIN blk /\ o(j) \in DOMAIN k /\ o(j) # b /\ b < o(j) /\ <<"block", o(j)>> \in Claims(blk[j])
    <2>1. j \in DOMAIN blk /\ blk[j].k = "Loop" /\ o(j) \in DOMAIN k /\ IsIns(blk[j])
      BY <1>2 DEF IsLoop
    <2>2. <<"block", o(j)>> \in Claims(blk[j])
      BY <2>1, InsFacts, ClaimsOf
    <2>3. <<"block", o(j)>> \in Claimed(k[b])
      BY <2>1, <2>2, ClaimedBy
    <2>4. b < o(j) /\ b \in Nat
      BY <2>3 DEF KInv
    <2> QED BY <2>1, <2>2, <2>4
  <1>4. ASSUME NEW p \in loops, NEW q \in loops, p # q PROVE o(p) # o(q)
    <2>1. <<"block", o(p)>> \in Claims(blk[p]) /\ <<"block", o(q)>> \in Claims(blk[q])
      BY <1>3
    <2>2. Claims(blk[p]) \cap Claims(blk[q]) = {}
      BY <1>2, <1>3, <1>4 DEF Good, Apart
    <2> QED BY <2>1, <2>2
  <1>5. ASSUME NEW j \in loops
        PROVE  /\ Good(H(j)) /\ Claimed(H(j)) \subseteq Claimed(k[o(j)])
               /\ Good(L(j)) /\ Claimed(L(j)) \subseteq Claimed(k[o(j)])
               /\ Claimed(H(j)) \cap Claimed(L(j)) = {}
    <2> DEFINE body == k[o(j)]
               h1 == hs(j)
               l1 == ls(j)
    <2>1. Good(body)
      BY <1>3, KernelFacts
    <2>2. h1 = [h \in DOMAIN body |-> h1[h]] /\ l1 = [h \in DOMAIN body |-> l1[h]]
      OBVIOUS
    <2>3. \A h \in DOMAIN body : \/ (h1[h] = <<body[h]>> /\ l1[h] = <<>>)
                                 \/ (h1[h] = <<>> /\ l1[h] = <<body[h]>>)
      OBVIOUS
    <2> HIDE DEF h1, l1, body
    <2>4. \A h \in DOMAIN body : h1[h] \in {<<>>, <<body[h]>>} /\ l1[h] \in {<<>>, <<body[h]>>}
      BY <2>3
    <2>5. Good(FlattenSeq(h1)) /\ Claimed(FlattenSeq(h1)) \subseteq Claimed(body)
      BY <2>1, <2>2, <2>4, Filtered
    <2>6. Good(FlattenSeq(l1)) /\ Claimed(FlattenSeq(l1)) \subseteq Claimed(body)
      BY <2>1, <2>2, <2>4, Filtered
    <2>7. Claimed(FlattenSeq(h1)) \cap Claimed(FlattenSeq(l1)) = {}
      BY <2>1, <2>2, <2>3, Split
    <2> QED BY <2>5, <2>6, <2>7 DEF h1, l1, body
  <1>6. \A c \in DOMAIN k : owner(c) # {} => J(c) \in loops /\ o(J(c)) = c
    OBVIOUS
  <1>7. \A c \in DOMAIN k : owner(c) = {} => \A p \in loops : o(p) # c
    OBVIOUS
  <1> HIDE DEF hs, ls, J
  <1>8. \A c, d \in DOMAIN k : c # d => Claimed(k[c]) \cap Claimed(k[d]) = {}
    BY DEF KInv
  <1>9. ss = [j \in 1..Len(blk) |-> ss[j]] /\ \A j \in DOMAIN blk : ss[j] = IF j \in loops THEN Append(H(j), blk[j]) ELSE <<blk[j]>>
    BY <1>2
  <1> HIDE DEF ss, k2
  <1> DEFINE X(j) == IF j \in loops THEN Claimed(H(j)) ELSE {}
  <1>10. ASSUME NEW j \in DOMAIN blk PROVE Good(ss[j]) /\ Claimed(ss[j]) = X(j) \cup Claims(blk[j])
    <2>0. Claims(blk[j]) \subseteq Claimed(blk) /\ Good(<<blk[j]>>) /\ IsSeq(<<blk[j]>>) /\ Claimed(<<blk[j]>>) = Claims(blk[j])
      BY <1>2, GoodFacts, OneIsGood
    <2>1. CASE j \in loops
      <3> DEFINE x == H(j)
                 y == <<blk[j]>>
      <3>1. Claimed(H(j)) \cap Claims(blk[j]) = {}
        BY <1>3, <1>5, <1>8, <2>0, <2>1
      <3>2. Good(x) /\ IsSeq(x) /\ Claimed(x) \cap Claimed(y) = {} /\ Good(y) /\ IsSeq(y)
        BY <1>5, <2>0, <2>1, <3>1 DEF Good
      <3>3. ss[j] = x \o y
        <4>1. ss[j] = Append(x, blk[j])
          BY <1>9, <2>1
        <4> HIDE DEF x
        <4> QED BY <3>2, <4>1, AppendFacts
      <3>4. X(j) = Claimed(x) /\ Claimed(y) = Claims(blk[j])
        BY <2>0, <2>1
      <3> HIDE DEF x, y, X
      <3> QED BY <3>2, <3>3, <3>4, ConcatApart
    <2>2. CASE j \notin loops
      BY <1>9, <2>0, <2>2
    <2> QED BY <2>1, <2>2
  <1>11. ASSUME NEW p \in DOMAIN blk, NEW q \in DOMAIN blk, p # q
         PROVE  Claimed(ss[p]) \cap Claimed(ss[q]) = {}
    <2>1. Claims(blk[p]) \cap Claims(blk[q]) = {}
      BY <1>2, <1>11 DEF Good, Apart
    <2>2. X(p) \cap X(q) = {}
      BY <1>3, <1>4, <1>5, <1>8, <1>11
    <2>3. \A j \in DOMAIN blk : X(j) \cap Claimed(k[b]) = {}
      BY <1>3, <1>5, <1>8
    <2>4. Claims(blk[p]) \subseteq Claimed(k[b]) /\ Claims(blk[q]) \subseteq Claimed(k[b])
      BY ClaimedBy
    <2>5. Claimed(ss[p]) = X(p) \cup Claims(blk[p]) /\ Claimed(ss[q]) = X(q) \cup Claims(blk[q])
      BY <1>10
    <2>6. X(p) \cap Claimed(k[b]) = {} /\ X(q) \cap Claimed(k[b]) = {}
      BY <2>3
    <2> HIDE DEF X
    <2> QED BY <2>1, <2>2, <2>4, <2>5, <2>6
  <1>12. Good(FlattenSeq(ss)) /\ Claimed(FlattenSeq(ss)) = UNION {Claimed(ss[j]) : j \in 1..Len(blk)}
    BY <1>2, <1>9, <1>10, <1>11, FlattenGood
  <1>13. \A x \in Claimed(FlattenSeq(ss)) : x \in Claimed(k[b]) \/ \E p \in loops : x \in Claimed(H(p))
    <2> SUFFICES ASSUME NEW x \in Claimed(FlattenSeq(ss))
                 PROVE  x \in Claimed(k[b]) \/ \E p \in loops : x \in Claimed(H(p))
      OBVIOUS
    <2>1. PICK j \in DOMAIN blk : x \in Claimed(ss[j])
      BY <1>2, <1>12
    <2>2. x \in X(j) \/ x \in Claims(blk[j])
      BY <1>10, <2>1
    <2>3. Claims(blk[j]) \subseteq Claimed(k[b])
      BY ClaimedBy
    <2> QED BY <2>2, <2>3
  <1>14. ASSUME NEW c \in DOMAIN k, c # b
         PROVE  /\ Good(k2[c]) /\ Claimed(k2[c]) \subseteq Claimed(k[c])
                /\ \A p \in loops : Claimed(H(p)) \cap Claimed(k2[c]) = {}
    <2>0. k2[c] = IF owner(c) # {} THEN L(J(c)) ELSE k[c]
      BY <1>1, <1>14
    <2>1. CASE owner(c) # {}
      <3>1. k2[c] = L(J(c)) /\ J(c) \in loops /\ o(J(c)) = c
        BY <1>6, <2>0, <2>1
      <3>2. \A p \in loops : p # J(c) => o(p) # c
        BY <1>4, <3>1
      <3> HIDE DEF loops, o, H, L
      <3> QED BY <1>3, <1>5, <1>8, <3>1, <3>2
    <2>2. CASE owner(c) = {}
      <3>1. k2[c] = k[c] /\ Good(k[c])
        BY <2>0, <2>2, KernelFacts
      <3>2. \A p \in loops : o(p) # c
        BY <1>7, <2>2
      <3> HIDE DEF loops, o, H, L
      <3> QED BY <1>3, <1>5, <1>8, <3>1, <3>2
    <2> QED BY <2>1, <2>2
  <1>15. k2[b] = FlattenSeq(ss) /\ DOMAIN k2 = DOMAIN k
    BY <1>1
  <1>16. \A j \in loops : Claimed(H(j)) \subseteq Claimed(k[o(j)]) /\ o(j) \in DOMAIN k /\ o(j) \in Nat /\ b < o(j) /\ b \in Nat
    BY <1>3, <1>5, KernelFacts
  <1> HIDE DEF loops, o, H, L, X, blk
  <1>17. \A c \in DOMAIN k2 : Good(k2[c])
    BY <1>12, <1>14, <1>15
  <1>18. \A c \in DOMAIN k : c # b => Claimed(k2[b]) \cap Claimed(k2[c]) = {}
    <2> SUFFICES ASSUME NEW c \in DOMAIN k, c # b, NEW x \in Claimed(k2[b]), x \in Claimed(k2[c]) PROVE FALSE
      OBVIOUS
    <2>1. x \in Claimed(k[b]) \/ \E p \in loops : x \in Claimed(H(p))
      BY <1>13, <1>15
    <2> QED BY <1>8, <1>14, <2>1
  <1>19. \A c, d \in DOMAIN k2 : c # d => Claimed(k2[c]) \cap Claimed(k2[d]) = {}
    <2> SUFFICES ASSUME NEW c \in DOMAIN k, NEW d \in DOMAIN k, c # d PROVE Claimed(k2[c]) \cap Claimed(k2[d]) = {}
      BY <1>15
    <2>1. CASE c = b
      BY <1>18, <2>1
    <2>2. CASE d = b
      BY <1>18, <2>2
    <2>3. CASE c # b /\ d # b
      BY <1>8, <1>14, <2>3
    <2> QED BY <2>1, <2>2, <2>3
  <1>20. \A c \in DOMAIN k2 : \A d : <<"block", d>> \in Claimed(k2[c]) => d \in DOMAIN k2 /\ c < d
    <2>0. \A c \in DOMAIN k : \A d : <<"block", d>> \in Claimed(k[c]) => d \in DOMAIN k /\ c < d /\ c \in Nat /\ d \in Nat
      BY DEF KInv
    <2> SUFFICES ASSUME NEW c \in DOMAIN k, NEW d, <<"block", d>> \in Claimed(k2[c]) PROVE d \in DOMAIN k /\ c < d
      BY <1>15
    <2>1. CASE c # b
      BY <1>14, <2>0, <2>1
    <2>2. CASE c = b
      <3>1. CASE <<"block", d>> \in Claimed(k[b])
        BY <2>0, <2>2, <3>1
      <3>2. ASSUME NEW p \in loops, <<"block", d>> \in Claimed(H(p)) PROVE d \in DOMAIN k /\ c < d
        <4>1. <<"block", d>> \in Claimed(k[o(p)]) /\ o(p) \in DOMAIN k /\ o(p) \in Nat /\ b < o(p) /\ b \in Nat
          BY <1>16, <3>2
        <4>2. d \in DOMAIN k /\ o(p) < d /\ d \in Nat
          BY <2>0, <4>1
        <4> QED BY <2>2, <4>1, <4>2
      <3> QED BY <1>13, <1>15, <2>2, <3>1, <3>2
    <2> QED BY <2>1, <2>2
  <1>21. KInv(k2)
    BY <1>15, <1>17, <1>19, <1>20 DEF KInv
  <1> QED BY <1>15, <1>21 DEF k2

LEMMA LicmKeeps ==
  ASSUME NEW k, KInv(k)
  PROVE  KInv(Licm(k))
  <1> DEFINE D == DOMAIN k
             t == <<"licm", k>>
             s == Append(Descending(Nested(k)), Body)
  <1>1. IsSeq(s) /\ ElemsOf(s) \subseteq D
    <2> DEFINE x == Descending(Nested(k))
    <2>1. IsSeq(x) /\ ElemsOf(x) \subseteq D /\ Body \in D
      BY NestedFacts DEF KInv
    <2> HIDE DEF x
    <2>2. IsSeq(Append(x, Body)) /\ ElemsOf(Append(x, Body)) = ElemsOf(x) \cup {Body}
      BY <2>1, AppendFacts
    <2> QED BY <2>1, <2>2 DEF x
  <1>2. s = Append(Descending(Nested(k)), Body)
    OBVIOUS
  <1> HIDE DEF s
  <1>3. PICK f : FoldsTo(f, t, k, s, DOMAIN s) /\ Licm(k) = EliminateDeadValues(f[DOMAIN s])
    BY <1>1, <1>2, LicmFold
  <1>4. \A n, z : /\ Holds(t, n, z) <=> KInv(z) /\ DOMAIN z = D
                  /\ \A e : Turn(t, z, e) = LicmBlock(DefBlocks(k), z, e)
    BY DEF Holds, Turn
  <1>5. D = DOMAIN k
    OBVIOUS
  <1> HIDE DEF t, D
  <1>6. Holds(t, Len(s), f[DOMAIN s])
    <2>1. Holds(t, 0, k)
      BY <1>4, <1>5
    <2>2. \A n \in 1..Len(s) : \A z : Holds(t, n - 1, z) => Holds(t, n, Turn(t, z, s[n]))
      <3> SUFFICES ASSUME NEW n \in 1..Len(s), NEW z, Holds(t, n - 1, z) PROVE Holds(t, n, Turn(t, z, s[n]))
        OBVIOUS
      <3>1. KInv(z) /\ DOMAIN z = D /\ s[n] \in D
        BY <1>1, <1>4, SeqFacts
      <3>2. KInv(LicmBlock(DefBlocks(k), z, s[n])) /\ DOMAIN LicmBlock(DefBlocks(k), z, s[n]) = D
        BY <3>1, LicmBlockKeeps
      <3> QED BY <1>4, <3>2
    <2> QED BY <1>1, <1>3, <2>1, <2>2, FoldKeeps
  <1>7. KInv(f[DOMAIN s])
    BY <1>4, <1>6
  <1> QED BY <1>3, <1>7, EliminateKeeps

-----------------------------------------------------------------------------
(* if_conversion                                                           *)
LEMMA TwoAreGood ==
  ASSUME NEW x, NEW y, IsIns(x), IsIns(y), Claims(x) = {}, Claims(y) = {}
  PROVE  Good(<<x, y>>) /\ Claimed(<<x, y>>) = {}
  <1> DEFINE w == <<x, y>>
  <1>1. Len(w) = 2 /\ DOMAIN w = 1..2 /\ w[1] = x /\ w[2] = y
    OBVIOUS
  <1>2. w \in Seq({x, y})
    OBVIOUS
  <1> SUFFICES Good(w) /\ Claimed(w) = {}
    OBVIOUS
  <1> HIDE DEF w
  <1>3. IsSeq(w)
    BY <1>2, SeqFacts
  <1>4. \A j \in DOMAIN w : w[j] \in {x, y}
    BY <1>1
  <1>5. \A i \in ElemsOf(w) : IsIns(i) /\ Claims(i) = {}
    BY <1>4 DEF ElemsOf
  <1>6. Apart(w)
    BY <1>4 DEF Apart
  <1> QED BY <1>3, <1>5, <1>6 DEF Good, Claimed

(* Nothing of a converted diamond claims anything.                         *)
LEMMA DiamondClaimsNothing ==
  ASSUME NEW k, KInv(k), NEW i, IsIns(i), Convertible(k, i)
  PROVE  Good(InlineDiamond(k, i)) /\ Claimed(InlineDiamond(k, i)) = {}
  <1> DEFINE t == k[i.b[1]]
             e == k[i.b[2]]
             n == IF Len(t) < Len(e) THEN Len(t) ELSE Len(e)
             pair(j) ==
               IF t[j].r # NoResult /\ e[j].r # NoResult
               THEN <<Ins("Select", "", <<i.a[1], t[j].r, e[j].r>>, <<>>, NoResult)>>
               ELSE IF t[j].r = NoResult /\ e[j].r = NoResult THEN <<t[j], e[j]>> ELSE <<>>
             ss == [j \in 1..n |-> pair(j)]
  <1>1. InlineDiamond(k, i) = FlattenSeq(ss)
    BY DEF InlineDiamond
  <1>2. i.k = "If" /\ i.a[1] \in Nat
    BY InsFacts DEF Convertible
  <1>3. Good(t) /\ Good(e) /\ Predictable(t) /\ Predictable(e)
    <2>1. 1 \in 1..2 /\ 2 \in 1..2
      OBVIOUS
    <2> QED BY <2>1, KernelFacts DEF Convertible
  <1>4. Len(t) \in Nat /\ Len(e) \in Nat /\ DOMAIN t = 1..Len(t) /\ DOMAIN e = 1..Len(e)
    BY <1>3, GoodFacts
  <1>5. n \in Nat /\ \A j \in 1..n : j \in DOMAIN t /\ j \in DOMAIN e
    BY <1>4
  <1>6. ASSUME NEW blk, Good(blk), Predictable(blk), NEW j \in DOMAIN blk
        PROVE  IsIns(blk[j]) /\ blk[j].r \in Nat /\ (blk[j].r = NoResult => Claims(blk[j]) = {})
    <2>1. IsIns(blk[j]) /\ blk[j].r \in Nat /\ blk[j].k \notin {"If", "Loop"}
      BY <1>6, GoodFacts, InsFacts DEF Predictable, Unpredictable
    <2>2. ElemsOf(blk[j].b) = {}
      BY <2>1, InsFacts
    <2> QED BY <2>1, <2>2 DEF Claims
  <1> HIDE DEF t, e, n
  <1>7. ASSUME NEW j \in 1..n PROVE Good(pair(j)) /\ Claimed(pair(j)) = {}
    <2>0. /\ IsIns(t[j]) /\ t[j].r \in Nat /\ (t[j].r = NoResult => Claims(t[j]) = {})
          /\ IsIns(e[j]) /\ e[j].r \in Nat /\ (e[j].r = NoResult => Claims(e[j]) = {})
      BY <1>3, <1>5, <1>6
    <2>1. CASE t[j].r # NoResult /\ e[j].r # NoResult
      <3> DEFINE x == Ins("Select", "", <<i.a[1], t[j].r, e[j].r>>, <<>>, NoResult)
      <3>1. IsIns(x) /\ Claims(x) = {"value"} \X ({NoResult} \ {NoResult})
        <4> DEFINE a == <<i.a[1], t[j].r, e[j].r>>
                   r == NoResult
                   op == ""
        <4>1. a \in Seq(Nat) /\ Len(a) = 3 /\ r \in Nat
          BY <1>2, <2>0 DEF NoResult
        <4> HIDE DEF a, r, op
        <4>2. IsIns(Ins("Select", op, a, <<>>, r))
              /\ Claims(Ins("Select", op, a, <<>>, r)) = {"value"} \X ({r} \ {NoResult})
          BY <4>1, MadeSelect
        <4> QED BY <4>2 DEF a, r, op
      <3>2. pair(j) = <<x>>
        BY <2>1
      <3> HIDE DEF x, pair
      <3>3. Claims(x) = {}
        BY <3>1
      <3> QED BY <3>1, <3>2, <3>3, OneIsGood
    <2>2. CASE t[j].r = NoResult /\ e[j].r = NoResult
      <3>1. pair(j) = <<t[j], e[j]>>
        BY <2>2
      <3> HIDE DEF pair
      <3> QED BY <2>0, <2>2, <3>1, TwoAreGood
    <2>3. CASE ~(t[j].r # NoResult /\ e[j].r # NoResult) /\ ~(t[j].r = NoResult /\ e[j].r = NoResult)
      <3>1. pair(j) = <<>>
        BY <2>3
      <3> HIDE DEF pair
      <3> QED BY <3>1, NothingIsGood
    <2> QED BY <2>1, <2>2, <2>3
  <1>8. ss = [j \in 1..n |-> ss[j]] /\ \A j \in 1..n : ss[j] = pair(j)
    OBVIOUS
  <1> HIDE DEF ss, pair
  <1>9. \A j \in 1..n : Good(ss[j]) /\ Claimed(ss[j]) = {}
    BY <1>7, <1>8
  <1>10. Good(FlattenSeq(ss)) /\ Claimed(FlattenSeq(ss)) = UNION {Claimed(ss[j]) : j \in 1..n}
    BY <1>5, <1>8, <1>9, FlattenGood
  <1>11. Claimed(FlattenSeq(ss)) = {}
    BY <1>9, <1>10
  <1> QED BY <1>1, <1>10, <1>11

(* The arms of a converted if are dropped with it: no instruction that     *)
(* stays owned them.                                                       *)
LEMMA IfConvertBlockKeeps ==
  ASSUME NEW k, KInv(k), NEW b
  PROVE  KInv(IfConvertBlock(k, b))
  <1>1. CASE b \notin DOMAIN k
    BY <1>1 DEF IfConvertBlock
  <1>2. CASE b \in DOMAIN k
    <2> DEFINE blk == k[b]
               Conv(x) == Convertible(k, x)
               ss == [j \in DOMAIN blk |-> IF Conv(blk[j]) THEN InlineDiamond(k, blk[j]) ELSE <<blk[j]>>]
               gone == UNION {ElemsOf(i.b) : i \in {x \in ElemsOf(blk) : Conv(x)}}
               k2 == IfConvertBlock(k, b)
    <2>1. k2 = [c \in DOMAIN k \ gone |-> IF c = b THEN FlattenSeq(ss) ELSE k[c]]
      BY <1>2 DEF IfConvertBlock, Splice
    <2>2. Good(blk) /\ Len(blk) \in Nat /\ DOMAIN blk = 1..Len(blk) /\ \A j \in DOMAIN blk : IsIns(blk[j])
      BY <1>2, KernelFacts, GoodFacts
    <2>3. ASSUME NEW g \in gone
          PROVE  \E j \in DOMAIN blk : Conv(blk[j]) /\ <<"block", g>> \in Claims(blk[j])
      <3>1. PICK i \in ElemsOf(blk) : Conv(i) /\ g \in ElemsOf(i.b)
        OBVIOUS
      <3>2. <<"block", g>> \in Claims(i)
        BY <3>1, ClaimsOf
      <3> HIDE DEF Conv
      <3> QED BY <3>1, <3>2 DEF ElemsOf
    <2>4. ss = [j \in 1..Len(blk) |-> ss[j]]
          /\ \A j \in DOMAIN blk : ss[j] = IF Conv(blk[j]) THEN InlineDiamond(k, blk[j]) ELSE <<blk[j]>>
      BY <2>2
    <2>5. ASSUME NEW j \in DOMAIN blk
          PROVE  /\ Good(ss[j])
                 /\ Conv(blk[j]) => Claimed(ss[j]) = {}
                 /\ ~Conv(blk[j]) => Claimed(ss[j]) = Claims(blk[j])
      <3>1. CASE Conv(blk[j])
        <4>1. ss[j] = InlineDiamond(k, blk[j]) /\ IsIns(blk[j]) /\ Convertible(k, blk[j])
          BY <2>2, <2>4, <3>1
        <4> QED BY <3>1, <4>1, DiamondClaimsNothing
      <3>2. CASE ~Conv(blk[j])
        <4>1. ss[j] = <<blk[j]>> /\ IsIns(blk[j])
          BY <2>2, <2>4, <3>2
        <4> QED BY <3>2, <4>1, OneIsGood
      <3> QED BY <3>1, <3>2
    <2> HIDE DEF ss, gone, Conv, k2
    <2>6. \A p, q \in DOMAIN blk : p # q => Claimed(ss[p]) \cap Claimed(ss[q]) = {}
      BY <2>2, <2>5 DEF Good, Apart
    <2>7. Good(FlattenSeq(ss)) /\ Claimed(FlattenSeq(ss)) = UNION {Claimed(ss[j]) : j \in 1..Len(blk)}
      BY <2>2, <2>4, <2>5, <2>6, FlattenGood
    <2>8. \A x \in Claimed(FlattenSeq(ss)) : \E j \in DOMAIN blk : ~Conv(blk[j]) /\ x \in Claims(blk[j])
      BY <2>2, <2>5, <2>7
    <2>9. \A x \in Claimed(FlattenSeq(ss)) : x \in Claimed(k[b])
      BY <2>8, ClaimedBy
    <2>10. \A g \in gone : <<"block", g>> \in Claimed(k[b])
      BY <2>3, ClaimedBy
    <2>11. b \notin gone /\ Body \notin gone
      <3>1. b \in Nat /\ \A g \in gone : g \in DOMAIN k /\ g \in Nat /\ b < g
        BY <1>2, <2>10 DEF KInv
      <3> QED BY <3>1 DEF Body
    <2>12. DOMAIN k2 = DOMAIN k \ gone /\ k2[b] = FlattenSeq(ss) /\ b \in DOMAIN k2
           /\ \A c \in DOMAIN k2 : c # b => k2[c] = k[c]
      BY <1>2, <2>1, <2>11
    <2>13. \A c \in DOMAIN k2 : Good(k2[c]) /\ Claimed(k2[c]) \subseteq Claimed(k[c])
      BY <2>7, <2>9, <2>12, KernelFacts
    <2>14. \A c, d \in DOMAIN k2 : c # d => Claimed(k2[c]) \cap Claimed(k2[d]) = {}
      BY <2>12, <2>13 DEF KInv
    <2>15. \A c \in DOMAIN k2 : \A d : <<"block", d>> \in Claimed(k2[c]) => d \notin gone
      <3> SUFFICES ASSUME NEW c \in DOMAIN k2, NEW d \in gone, <<"block", d>> \in Claimed(k2[c]) PROVE FALSE
        OBVIOUS
      <3>1. CASE c # b
        <4>1. <<"block", d>> \in Claimed(k[c]) /\ <<"block", d>> \in Claimed(k[b]) /\ c \in DOMAIN k
          BY <2>10, <2>12, <3>1
        <4> QED BY <1>2, <3>1, <4>1 DEF KInv
      <3>2. CASE c = b
        <4>1. PICK j \in DOMAIN blk : ~Conv(blk[j]) /\ <<"block", d>> \in Claims(blk[j])
          BY <2>8, <2>12, <3>2
        <4>2. PICK p \in DOMAIN blk : Conv(blk[p]) /\ <<"block", d>> \in Claims(blk[p])
          BY <2>3
        <4>3. p # j
          BY <4>1, <4>2
        <4> QED BY <2>2, <4>1, <4>2, <4>3 DEF Good, Apart
      <3> QED BY <3>1, <3>2
    <2>16. \A c \in DOMAIN k2 : \A d : <<"block", d>> \in Claimed(k2[c]) => d \in DOMAIN k2 /\ c < d
      <3> SUFFICES ASSUME NEW c \in DOMAIN k2, NEW d, <<"block", d>> \in Claimed(k2[c])
                   PROVE  d \in DOMAIN k2 /\ c < d
        OBVIOUS
      <3>1. <<"block", d>> \in Claimed(k[c]) /\ c \in DOMAIN k /\ d \notin gone
        BY <2>12, <2>13, <2>15
      <3>2. d \in DOMAIN k /\ c < d
        BY <3>1 DEF KInv
      <3> QED BY <2>12, <3>1, <3>2
    <2>17. IsFiniteSet(DOMAIN k2) /\ DOMAIN k2 \subseteq Nat /\ Body \in DOMAIN k2
      <3>1. IsFiniteSet(DOMAIN k) /\ DOMAIN k \subseteq Nat /\ Body \in DOMAIN k
        BY DEF KInv
      <3>2. DOMAIN k2 \subseteq DOMAIN k
        BY <2>12
      <3> QED BY <2>11, <2>12, <3>1, <3>2, FS_Subset
    <2>18. KInv(k2)
      BY <2>13, <2>14, <2>16, <2>17 DEF KInv
    <2> QED BY <2>18 DEF k2
  <1> QED BY <1>1, <1>2

LEMMA IfConversionKeeps ==
  ASSUME NEW k, KInv(k)
  PROVE  KInv(IfConversion(k))
  <1> DEFINE t == <<"if_conversion">>
             s == <<Body>> \o Descending(Nested(k))
  <1>1. IsSeq(s)
    BY NestedFacts, OneIsGood, Concat
  <1>2. IfConversion(k) = EliminateDeadValues(FoldLeft(IfConvertBlock, k, s))
    BY DEF IfConversion
  <1> HIDE DEF s
  <1>3. PICK f : FoldsTo(f, t, k, s, DOMAIN s) /\ FoldLeft(IfConvertBlock, k, s) = f[DOMAIN s]
    BY <1>1, IfFold
  <1>4. \A n, z : (Holds(t, n, z) <=> KInv(z)) /\ \A e : Turn(t, z, e) = IfConvertBlock(z, e)
    BY DEF Holds, Turn
  <1> HIDE DEF t
  <1>5. Holds(t, Len(s), f[DOMAIN s])
    <2>1. Holds(t, 0, k)
      BY <1>4
    <2>2. \A n \in 1..Len(s) : \A z : Holds(t, n - 1, z) => Holds(t, n, Turn(t, z, s[n]))
      BY <1>4, IfConvertBlockKeeps
    <2> QED BY <1>1, <1>3, <2>1, <2>2, FoldKeeps
  <1>6. KInv(FoldLeft(IfConvertBlock, k, s))
    BY <1>3, <1>4, <1>5
  <1> QED BY <1>2, <1>6, EliminateKeeps

-----------------------------------------------------------------------------
(* value_sink                                                              *)
LEMMA OperandSitesFacts ==
  ASSUME NEW i, NEW v \in Refs(i)
  PROVE  OperandSites(i, v) # {}
  <1>1. CASE i.k = "Fused"
    <2>1. PICK m \in DOMAIN i.f : v \in ElemsOf(i.f[m].a)
      BY <1>1 DEF Refs, ElemsOf
    <2>2. PICK x \in DOMAIN i.f[m].a : i.f[m].a[x] = v
      BY <2>1 DEF ElemsOf
    <2>3. <<m, x>> \in OperandSites(i, v)
      BY <1>1, <2>2 DEF OperandSites
    <2> QED BY <2>3
  <1>2. CASE i.k # "Fused"
    <2>1. PICK x \in DOMAIN i.a : i.a[x] = v
      BY <1>2 DEF Refs, ElemsOf
    <2>2. <<0, x>> \in OperandSites(i, v)
      BY <1>2, <2>1 DEF OperandSites
    <2> QED BY <2>2
  <1> QED BY <1>1, <1>2

(* A sunk instruction goes to one place, further down in its block.        *)
LEMMA SinkToFacts ==
  ASSUME NEW k, NEW b \in DOMAIN k, NEW j \in DOMAIN k[b]
  PROVE  /\ \A n \in SinkTo(k, k[b], j) : n \in DOMAIN k[b] /\ n > j + 1
         /\ \A n, m \in SinkTo(k, k[b], j) : n = m
  <1> DEFINE blk == k[b]
             v == blk[j].r
             sites == UNION {{c} \X UseSites(k[c], v) : c \in DOMAIN k}
  <1>1. ASSUME NEW n \in SinkTo(k, blk, j)
        PROVE  n \in DOMAIN blk /\ n > j + 1 /\ v \in Refs(blk[n]) /\ UsesOnce(k, v)
    BY DEF SinkTo
  <1>2. ASSUME NEW n \in SinkTo(k, blk, j) PROVE \E x : <<b, <<n, x>>>> \in sites
    <2>1. PICK x \in OperandSites(blk[n], v) : TRUE
      BY <1>1, OperandSitesFacts
    <2>2. <<n, x>> \in UseSites(blk, v)
      BY <1>1, <2>1 DEF UseSites
    <2> QED BY <2>2
  <1>3. ASSUME NEW n \in SinkTo(k, blk, j), NEW m \in SinkTo(k, blk, j) PROVE n = m
    <2>1. PICK s \in sites : sites = {s}
      BY <1>1 DEF UsesOnce
    <2>2. PICK x : <<b, <<n, x>>>> \in sites
      BY <1>2
    <2>3. PICK y : <<b, <<m, y>>>> \in sites
      BY <1>2
    <2> HIDE DEF sites
    <2>4. <<b, <<n, x>>>> = <<b, <<m, y>>>>
      BY <2>1, <2>2, <2>3
    <2> QED BY <2>4
  <1> QED BY <1>1, <1>3

(* Different instructions of a block, in some order.                       *)
LEMMA Picked ==
  ASSUME NEW blk, Good(blk), NEW s, IsSeq(s), \A p \in DOMAIN s : s[p] \in DOMAIN blk,
         \A p, q \in DOMAIN s : p # q => s[p] # s[q],
         NEW new, new = [h \in DOMAIN s |-> blk[s[h]]]
  PROVE  Good(new) /\ Claimed(new) = UNION {Claims(blk[j]) : j \in ElemsOf(s)}
  <1>1. Len(s) \in Nat /\ DOMAIN s = 1..Len(s)
    BY SeqFacts
  <1>2. IsSeq(new) /\ DOMAIN new = DOMAIN s /\ \A h \in DOMAIN s : new[h] = blk[s[h]]
    BY <1>1, FunctionIsSeq
  <1>3. \A i \in ElemsOf(new) : IsIns(i)
    BY <1>2, GoodFacts DEF ElemsOf
  <1>4. Apart(new)
    BY <1>2 DEF Good, Apart
  <1>5. Claimed(new) = UNION {Claims(blk[j]) : j \in ElemsOf(s)}
    BY <1>2 DEF Claimed, ElemsOf
  <1> QED BY <1>2, <1>3, <1>4, <1>5 DEF Good

(* value_sink orders a block anew.                                         *)
LEMMA SinkBlockKeeps ==
  ASSUME NEW k, KInv(k), NEW b \in DOMAIN k
  PROVE  Good(SinkBlock(k, k[b])) /\ Claimed(SinkBlock(k, k[b])) \subseteq Claimed(k[b])
  <1> DEFINE blk == k[b]
             to(j) == SinkTo(k, blk, j)
             src(n) == {j \in DOMAIN blk : n \in to(j)}
             arrive(n) == Ascending(src(n))
             first(n) == [h \in DOMAIN arrive(n) |-> blk[arrive(n)[h]]]
             last(n) == IF to(n) = {} THEN <<blk[n]>> ELSE <<>>
             ss == [n \in DOMAIN blk |-> first(n) \o last(n)]
             C(n) == src(n) \cup (IF to(n) = {} THEN {n} ELSE {})
  <1>1. SinkBlock(k, blk) = FlattenSeq(ss)
    BY DEF SinkBlock, Splice
  <1>2. Good(blk) /\ Len(blk) \in Nat /\ DOMAIN blk = 1..Len(blk) /\ \A j \in DOMAIN blk : IsIns(blk[j])
    BY KernelFacts, GoodFacts
  <1>3. \A j \in DOMAIN blk : /\ \A n \in to(j) : n \in DOMAIN blk /\ n > j + 1
                              /\ \A n, m \in to(j) : n = m
    BY SinkToFacts
  <1>4. ss = [n \in 1..Len(blk) |-> ss[n]] /\ \A n \in DOMAIN blk : ss[n] = first(n) \o last(n)
    BY <1>2
  <1> HIDE DEF to
  <1>5. ASSUME NEW n \in DOMAIN blk
        PROVE  Good(first(n)) /\ Claimed(first(n)) = UNION {Claims(blk[j]) : j \in src(n)}
    <2> DEFINE S == src(n)
               s == Ascending(S)
               new == [h \in DOMAIN s |-> blk[s[h]]]
    <2>1. S \in SUBSET (Nat \ {0}) /\ IsFiniteSet(S) /\ S \subseteq DOMAIN blk
      <3>1. IsFiniteSet(DOMAIN blk)
        BY <1>2, FS_Interval
      <3>2. S \subseteq DOMAIN blk /\ DOMAIN blk \subseteq Nat \ {0}
        BY <1>2
      <3> HIDE DEF S
      <3> QED BY <3>1, <3>2, FS_Subset
    <2> SUFFICES Good(new) /\ Claimed(new) = UNION {Claims(blk[j]) : j \in S}
      OBVIOUS
    <2>2. new = [h \in DOMAIN s |-> blk[s[h]]]
      OBVIOUS
    <2> HIDE DEF S, new
    <2>3. /\ IsSeq(s) /\ ElemsOf(s) = S
          /\ \A p, q \in DOMAIN s : p # q => s[p] # s[q]
      BY <2>1, AscendingFacts
    <2> HIDE DEF s
    <2>4. \A p \in DOMAIN s : s[p] \in DOMAIN blk
      BY <2>1, <2>3 DEF ElemsOf
    <2> QED BY <1>2, <2>2, <2>3, <2>4, Picked
  <1>6. ASSUME NEW n \in DOMAIN blk
        PROVE  Good(last(n)) /\ Claimed(last(n)) = IF to(n) = {} THEN Claims(blk[n]) ELSE {}
    BY <1>2, OneIsGood, NothingIsGood
  <1>7. ASSUME NEW n \in DOMAIN blk PROVE n \notin src(n)
    BY <1>2, <1>3
  <1>8. ASSUME NEW p \in DOMAIN blk, NEW q \in DOMAIN blk, p # q
        PROVE  C(p) \cap C(q) = {}
    BY <1>3, <1>8
  <1>9. \A n \in DOMAIN blk : C(n) \subseteq DOMAIN blk
    OBVIOUS
  <1>10. \A n \in DOMAIN blk : UNION {Claims(blk[j]) : j \in C(n)} =
                                 (UNION {Claims(blk[j]) : j \in src(n)}) \cup (IF to(n) = {} THEN Claims(blk[n]) ELSE {})
    OBVIOUS
  <1>11. \A p, q \in DOMAIN blk : p # q => Claims(blk[p]) \cap Claims(blk[q]) = {}
    BY <1>2 DEF Good, Apart
  <1>12. \A n \in DOMAIN blk : \A j \in src(n) : j \in DOMAIN blk
    OBVIOUS
  <1> HIDE DEF ss, first, last, src
  <1>13. ASSUME NEW n \in DOMAIN blk
         PROVE  Good(ss[n]) /\ Claimed(ss[n]) = UNION {Claims(blk[j]) : j \in C(n)}
    <2> DEFINE x == first(n)
               y == last(n)
    <2>1. Good(x) /\ Good(y) /\ IsSeq(x) /\ IsSeq(y)
      BY <1>5, <1>6 DEF Good
    <2>2. Claimed(x) \cap Claimed(y) = {}
      <3>1. Claimed(x) = UNION {Claims(blk[j]) : j \in src(n)}
        BY <1>5
      <3>2. Claimed(y) \subseteq Claims(blk[n])
        BY <1>6
      <3>3. \A j \in src(n) : Claims(blk[j]) \cap Claims(blk[n]) = {}
        BY <1>7, <1>11, <1>12
      <3> QED BY <3>1, <3>2, <3>3
    <2>3. ss[n] = x \o y
      BY <1>4
    <2>4. Claimed(x) \cup Claimed(y) = UNION {Claims(blk[j]) : j \in C(n)}
      <3>1. Claimed(x) = UNION {Claims(blk[j]) : j \in src(n)}
        BY <1>5
      <3>2. Claimed(y) = IF to(n) = {} THEN Claims(blk[n]) ELSE {}
        BY <1>6
      <3> HIDE DEF x, y, C
      <3> QED BY <1>10, <3>1, <3>2
    <2> HIDE DEF x, y, C
    <2>5. Good(x \o y) /\ Claimed(x \o y) = Claimed(x) \cup Claimed(y)
      BY <2>1, <2>2, ConcatApart
    <2> QED BY <2>3, <2>4, <2>5
  <1> HIDE DEF C
  <1>14. ASSUME NEW p \in DOMAIN blk, NEW q \in DOMAIN blk, p # q
         PROVE  Claimed(ss[p]) \cap Claimed(ss[q]) = {}
    <2>1. \A i \in C(p), j \in C(q) : Claims(blk[i]) \cap Claims(blk[j]) = {}
      BY <1>8, <1>9, <1>11, <1>14
    <2> QED BY <1>13, <2>1
  <1>15. Good(FlattenSeq(ss)) /\ Claimed(FlattenSeq(ss)) = UNION {Claimed(ss[j]) : j \in 1..Len(blk)}
    BY <1>2, <1>4, <1>13, <1>14, FlattenGood
  <1>16. \A j \in DOMAIN blk : Claims(blk[j]) \subseteq Claimed(blk)
    BY ClaimedBy
  <1>17. \A n \in DOMAIN blk : Claimed(ss[n]) \subseteq Claimed(blk)
    BY <1>9, <1>13, <1>16
  <1> QED BY <1>1, <1>2, <1>15, <1>17

LEMMA ValueSinkKeeps ==
  ASSUME NEW k, KInv(k)
  PROVE  KInv(ValueSink(k))
  <1> DEFINE k2 == [b \in DOMAIN k |-> SinkBlock(k, k[b])]
  <1>1. DOMAIN k2 = DOMAIN k /\ \A b \in DOMAIN k : k2[b] = SinkBlock(k, k[b])
    OBVIOUS
  <1>2. ValueSink(k) = EliminateDeadValues(k2)
    BY DEF ValueSink
  <1> HIDE DEF k2
  <1>3. KInv(k2)
    BY <1>1, SinkBlockKeeps, BlockwiseKeeps
  <1> QED BY <1>2, <1>3, EliminateKeeps

-----------------------------------------------------------------------------
(* fusion                                                                  *)
LEMMA SeqConcat ==
  ASSUME NEW S, NEW x \in Seq(S), NEW y \in Seq(S)
  PROVE  x \o y \in Seq(S) /\ Len(x \o y) = Len(x) + Len(y) /\ Len(y) \in Nat
  OBVIOUS

(* A chain is a sequence of positions in its block.                        *)
LEMMA ChainPicks ==
  ASSUME NEW blk, Good(blk), NEW cur \in DOMAIN blk, NEW fused, NEW pinned
  PROVE  Picks(Chain(blk, cur, fused, pinned), blk)
  <1> DEFINE t == <<"chain", blk, fused, pinned>>
             s == Reverse(Count(cur - 1))
  <1>1. Len(blk) \in Nat /\ DOMAIN blk = 1..Len(blk) /\ cur \in Nat /\ cur - 1 \in Int /\ cur <= Len(blk)
    BY GoodFacts
  <1>2. IsSeq(s) /\ \A h \in ElemsOf(s) : h \in DOMAIN blk
    <2> DEFINE c == Count(cur - 1)
    <2>1. IsSeq(c) /\ \A h \in DOMAIN c : c[h] \in 1..(cur - 1)
      BY <1>1, CountFacts
    <2> HIDE DEF c
    <2>2. \A h \in ElemsOf(c) : h \in 1..(cur - 1)
      BY <2>1 DEF ElemsOf
    <2>3. IsSeq(Reverse(c)) /\ ElemsOf(Reverse(c)) = ElemsOf(c)
      BY <2>1, ReverseFacts
    <2>4. \A h \in 1..(cur - 1) : h \in DOMAIN blk
      BY <1>1
    <2> QED BY <2>2, <2>3, <2>4 DEF c
  <1>3. s = Reverse(Count(cur - 1))
    OBVIOUS
  <1> HIDE DEF s
  <1>4. PICK f : FoldsTo(f, t, <<cur>>, s, DOMAIN s) /\ Chain(blk, cur, fused, pinned) = f[DOMAIN s]
    BY <1>2, <1>3, ChainFold
  <1>5. \A n, z : /\ Holds(t, n, z) <=> Picks(z, blk)
                  /\ \A e : Turn(t, z, e) = Longer(blk, fused, pinned, z, e)
    BY DEF Holds, Turn
  <1> HIDE DEF t
  <1>6. ASSUME NEW z, Picks(z, blk), NEW p \in DOMAIN blk PROVE Picks(Longer(blk, fused, pinned, z, p), blk)
    <2> DEFINE one == <<p>>
    <2>1. one \in Seq(DOMAIN blk) /\ Len(one) = 1 /\ z \in Seq(DOMAIN blk)
      BY <1>6 DEF Picks
    <2>2. Longer(blk, fused, pinned, z, p) = z \/ Longer(blk, fused, pinned, z, p) = one \o z
      BY DEF Longer
    <2> HIDE DEF one
    <2>3. one \o z \in Seq(DOMAIN blk) /\ Len(one \o z) = 1 + Len(z) /\ Len(z) \in Nat
      BY <2>1, SeqConcat
    <2>4. one \o z # <<>>
      BY <2>3
    <2> QED BY <1>6, <2>2, <2>3, <2>4 DEF Picks
  <1>7. Holds(t, Len(s), f[DOMAIN s])
    <2>1. Holds(t, 0, <<cur>>)
      <3>1. <<cur>> \in Seq(DOMAIN blk) /\ <<cur>> # <<>>
        OBVIOUS
      <3>2. Picks(<<cur>>, blk)
        BY <3>1 DEF Picks
      <3> QED BY <1>5, <3>2
    <2>2. \A n \in 1..Len(s) : \A z : Holds(t, n - 1, z) => Holds(t, n, Turn(t, z, s[n]))
      <3> SUFFICES ASSUME NEW n \in 1..Len(s), NEW z, Holds(t, n - 1, z) PROVE Holds(t, n, Turn(t, z, s[n]))
        OBVIOUS
      <3>1. s[n] \in DOMAIN blk
        BY <1>2, SeqFacts
      <3> QED BY <1>5, <1>6, <3>1
    <2> DEFINE x == <<cur>>
    <2>3. Holds(t, 0, x) /\ FoldsTo(f, t, x, s, DOMAIN s)
      BY <1>4, <2>1
    <2> HIDE DEF x
    <2> QED BY <1>2, <2>3, <2>2, FoldKeeps
  <1> QED BY <1>4, <1>5, <1>7

LEMMA ChainsPick ==
  ASSUME NEW blk, Good(blk), NEW pinned
  PROVE  \A c \in Chains(blk, pinned) : Picks(c, blk)
  <1> DEFINE t == <<"chains", blk, pinned>>
             s == Reverse(Count(Len(blk)))
             x == [chains |-> {}, fused |-> {}]
  <1>1. Len(blk) \in Nat /\ DOMAIN blk = 1..Len(blk)
    BY GoodFacts
  <1>2. IsSeq(s) /\ \A h \in ElemsOf(s) : h \in DOMAIN blk
    <2> DEFINE c == Count(Len(blk))
    <2>1. IsSeq(c) /\ \A h \in DOMAIN c : c[h] \in 1..Len(blk)
      BY <1>1, CountFacts
    <2> HIDE DEF c
    <2>2. \A h \in ElemsOf(c) : h \in DOMAIN blk
      BY <1>1, <2>1 DEF ElemsOf
    <2>3. IsSeq(Reverse(c)) /\ ElemsOf(Reverse(c)) = ElemsOf(c)
      BY <2>1, ReverseFacts
    <2> QED BY <2>2, <2>3 DEF c
  <1>3. s = Reverse(Count(Len(blk)))
    OBVIOUS
  <1> HIDE DEF s
  <1>4. PICK f : FoldsTo(f, t, x, s, DOMAIN s) /\ Chains(blk, pinned) = f[DOMAIN s].chains
    BY <1>2, <1>3, ChainsFold
  <1>5. \A n, z : /\ Holds(t, n, z) <=> \A c \in z.chains : Picks(c, blk)
                  /\ \A e : Turn(t, z, e) = WithChain(blk, pinned, z, e)
    BY DEF Holds, Turn
  <1> HIDE DEF t
  <1>6. ASSUME NEW z, \A c \in z.chains : Picks(c, blk), NEW j \in DOMAIN blk
        PROVE  \A c \in WithChain(blk, pinned, z, j).chains : Picks(c, blk)
    <2> DEFINE one == <<j>>
               c == IF blk[j].k \in Elementwise /\ j \notin z.fused THEN Chain(blk, j, z.fused, pinned) ELSE one
    <2>1. Picks(one, blk)
      BY DEF Picks
    <2>2. \/ WithChain(blk, pinned, z, j) = z
          \/ WithChain(blk, pinned, z, j) = [chains |-> z.chains \cup {c}, fused |-> z.fused \cup ElemsOf(c)]
      BY DEF WithChain
    <2> HIDE DEF one
    <2>3. Picks(c, blk)
      <3> DEFINE d == Chain(blk, j, z.fused, pinned)
      <3>1. Picks(d, blk)
        BY ChainPicks
      <3>2. c = one \/ c = d
        OBVIOUS
      <3> HIDE DEF c, d
      <3> QED BY <2>1, <3>1, <3>2
    <2> HIDE DEF c
    <2> QED BY <1>6, <2>2, <2>3
  <1>7. Holds(t, Len(s), f[DOMAIN s])
    <2>1. Holds(t, 0, x)
      BY <1>5
    <2> HIDE DEF x
    <2>2. \A n \in 1..Len(s) : \A z : Holds(t, n - 1, z) => Holds(t, n, Turn(t, z, s[n]))
      <3> SUFFICES ASSUME NEW n \in 1..Len(s), NEW z, Holds(t, n - 1, z) PROVE Holds(t, n, Turn(t, z, s[n]))
        OBVIOUS
      <3>1. s[n] \in DOMAIN blk
        BY <1>2, SeqFacts
      <3>2. Turn(t, z, s[n]) = WithChain(blk, pinned, z, s[n])
        BY <1>5
      <3>3. \A c \in WithChain(blk, pinned, z, s[n]).chains : Picks(c, blk)
        BY <1>5, <1>6, <3>1
      <3> QED BY <1>5, <3>2, <3>3
    <2> QED BY <1>2, <1>4, <2>1, <2>2, FoldKeeps
  <1> QED BY <1>4, <1>5, <1>7

(* The fused operation claims what the last member of its chain did.       *)
LEMMA FusedOpFacts ==
  ASSUME NEW blk, Good(blk), NEW c, Picks(c, blk)
  PROVE  Last(c) \in DOMAIN blk /\ IsIns(FusedOp(blk, c)) /\ Claims(FusedOp(blk, c)) \subseteq Claims(blk[Last(c)])
  <1> DEFINE member(n, v) == {p \in 1..n - 1 : blk[c[p]].r = v}
             operand(n, v) == IF member(n, v) = {} THEN v ELSE -(CHOOSE p \in member(n, v) : TRUE)
             arg(n) == [h \in DOMAIN blk[c[n]].a |-> operand(n, blk[c[n]].a[h])]
             sub(n) == [k |-> blk[c[n]].k, f |-> blk[c[n]].f, a |-> arg(n)]
             f == [n \in DOMAIN c |-> sub(n)]
             r == blk[Last(c)].r
             i == FusedOp(blk, c)
  <1>1. i = Ins("Fused", f, <<>>, <<>>, r)
    BY DEF FusedOp
  <1>2. Len(c) \in Nat /\ DOMAIN c = 1..Len(c) /\ Len(c) # 0 /\ \A n \in DOMAIN c : c[n] \in DOMAIN blk
    BY DEF Picks
  <1>3. Last(c) \in DOMAIN blk
    BY <1>2 DEF Last
  <1>4. ASSUME NEW n \in DOMAIN c PROVE DOMAIN sub(n) = {"k", "f", "a"} /\ sub(n).a \in Seq(Int)
    <2>1. IsIns(blk[c[n]]) /\ n \in Int
      BY <1>2, GoodFacts
    <2>2. blk[c[n]].a \in Seq(Nat)
      BY <2>1, InsFacts
    <2>3. \A v \in Nat : operand(n, v) \in Int
      <3> SUFFICES ASSUME NEW v \in Nat PROVE operand(n, v) \in Int
        OBVIOUS
      <3> DEFINE p == CHOOSE p \in member(n, v) : TRUE
      <3>1. CASE member(n, v) = {}
        BY <3>1
      <3>2. CASE member(n, v) # {}
        <4>1. p \in Int
          BY <2>1, <3>2
        <4>2. operand(n, v) = -p
          BY <3>2
        <4> HIDE DEF p, operand
        <4> QED BY <4>1, <4>2
      <3> QED BY <3>1, <3>2
    <2> HIDE DEF operand
    <2>4. arg(n) \in Seq(Int)
      <3> DEFINE a == blk[c[n]].a
                 new == [h \in DOMAIN a |-> operand(n, a[h])]
      <3>1. a \in Seq(Nat)
        BY <2>2
      <3> SUFFICES new \in Seq(Int)
        OBVIOUS
      <3>2. new = [h \in DOMAIN a |-> operand(n, a[h])]
        OBVIOUS
      <3> HIDE DEF a, new
      <3>3. Len(a) \in Nat /\ DOMAIN a = 1..Len(a) /\ \A h \in 1..Len(a) : a[h] \in Nat
        BY <3>1
      <3>4. new \in [1..Len(a) -> Int]
        BY <2>3, <3>2, <3>3
      <3> QED BY <3>3, <3>4, FunctionSeq
    <2> HIDE DEF arg
    <2> QED BY <2>4
  <1>5. f = [n \in 1..Len(c) |-> f[n]] /\ \A n \in DOMAIN c : f[n] = sub(n)
    BY <1>2
  <1> HIDE DEF f, sub
  <1>6. IsChain(f)
    <2>1. IsSeq(f) /\ ElemsOf(f) = {f[n] : n \in 1..Len(c)}
      BY <1>2, <1>5, FunctionIsSeq
    <2> QED BY <1>2, <1>4, <1>5, <2>1 DEF IsChain
  <1>7. r \in Nat
    BY <1>3, GoodFacts, InsFacts
  <1> HIDE DEF r, i
  <1>8. i.k = "Fused" /\ i.f = f /\ i.a = <<>> /\ i.b = <<>> /\ i.r = r /\ DOMAIN i = {"k", "f", "a", "b", "r"}
    BY <1>1 DEF Ins
  <1>9. IsIns(i)
    <2>1. i.k \in DOMAIN Arity /\ Arity[i.k] = 0 /\ BlocksOf(i.k) = {0}
      BY <1>8, ArityFacts DEF BlocksOf
    <2>2. i.a \in Seq(Nat) /\ Len(i.a) = 0 /\ i.b \in Seq(Nat) /\ Len(i.b) = 0
      BY <1>8
    <2> QED BY <1>6, <1>7, <1>8, <2>1, <2>2 DEF IsIns
  <1>10. Claims(i) \subseteq Claims(blk[Last(c)])
    <2>1. Claims(i) = {"value"} \X ({r} \ {NoResult})
      BY <1>8, NothingIsGood DEF Claims
    <2> QED BY <2>1, ClaimsResult DEF r
  <1> QED BY <1>3, <1>9, <1>10 DEF i

LEMMA FuseBlockKeeps ==
  ASSUME NEW blk, Good(blk), NEW pinned
  PROVE  Good(FuseBlock(blk, pinned)) /\ Claimed(FuseBlock(blk, pinned)) \subseteq Claimed(blk)
  <1> DEFINE chains == Chains(blk, pinned)
             of(j) == {c \in chains : j \in ElemsOf(c)}
             C(j) == CHOOSE x \in of(j) : TRUE
             new(j) == IF of(j) = {} THEN <<blk[j]>>
                       ELSE IF j = Last(C(j)) THEN <<FusedOp(blk, C(j))>> ELSE <<>>
             ss == [j \in DOMAIN blk |-> new(j)]
  <1>1. FuseBlock(blk, pinned) = FlattenSeq(ss)
    BY DEF FuseBlock, Splice
  <1>2. ASSUME NEW j \in DOMAIN blk PROVE Good(new(j)) /\ Claimed(new(j)) \subseteq Claims(blk[j])
    <2>1. CASE of(j) = {}
      <3>1. new(j) = <<blk[j]>> /\ IsIns(blk[j])
        BY <2>1, GoodFacts
      <3> HIDE DEF new
      <3> QED BY <3>1, OneIsGood
    <2>2. CASE of(j) # {} /\ j = Last(C(j))
      <3> DEFINE c == C(j)
                 i == FusedOp(blk, c)
      <3>1. c \in chains
        BY <2>2
      <3>2. Picks(c, blk)
        BY <3>1, ChainsPick
      <3>3. new(j) = <<i>> /\ j = Last(c)
        BY <2>2
      <3> HIDE DEF c
      <3>4. IsIns(i) /\ Claims(i) \subseteq Claims(blk[j])
        BY <3>2, <3>3, FusedOpFacts
      <3> HIDE DEF i, new
      <3> QED BY <3>3, <3>4, OneIsGood
    <2>3. CASE of(j) # {} /\ j # Last(C(j))
      <3>1. new(j) = <<>>
        BY <2>3
      <3> HIDE DEF new
      <3> QED BY <3>1, NothingIsGood
    <2> QED BY <2>1, <2>2, <2>3
  <1>3. DOMAIN ss = DOMAIN blk /\ ss = [j \in DOMAIN blk |-> ss[j]] /\ \A j \in DOMAIN blk : ss[j] = new(j)
    OBVIOUS
  <1> HIDE DEF ss, new
  <1>4. Good(FlattenSeq(ss)) /\ Claimed(FlattenSeq(ss)) \subseteq Claimed(blk)
    BY <1>2, <1>3, Spliced
  <1> QED BY <1>1, <1>4

LEMMA FusionKeeps ==
  ASSUME NEW k, KInv(k)
  PROVE  KInv(Fusion(k))
  <1> DEFINE pinned(b) == UNION {BlockRefs(k[c]) : c \in DOMAIN k \ {b}}
             k2 == [b \in DOMAIN k |-> FuseBlock(k[b], pinned(b))]
  <1>1. Fusion(k) = EliminateDeadValues(k2)
    BY DEF Fusion
  <1> HIDE DEF pinned
  <1>2. DOMAIN k2 = DOMAIN k /\ \A b \in DOMAIN k : k2[b] = FuseBlock(k[b], pinned(b))
    OBVIOUS
  <1> HIDE DEF k2
  <1>3. \A b \in DOMAIN k : Good(k2[b]) /\ Claimed(k2[b]) \subseteq Claimed(k[b])
    BY <1>2, KernelFacts, FuseBlockKeeps
  <1>4. KInv(k2)
    BY <1>2, <1>3, BlockwiseKeeps
  <1> QED BY <1>1, <1>4, EliminateKeeps

-----------------------------------------------------------------------------
(* vectorize                                                               *)
LEMMA ResultsOfKernel ==
  ASSUME NEW k, KInv(k)
  PROVE  IsFiniteSet({i.r : i \in Instrs(k)}) /\ {i.r : i \in Instrs(k)} \subseteq Nat
         /\ \A c \in DOMAIN k : \A v : <<"value", v>> \in Claimed(k[c]) => v \in {i.r : i \in Instrs(k)}
  <1> DEFINE E == [b \in DOMAIN k |-> ElemsOf(k[b])]
             S == {E[b] : b \in DOMAIN k}
             f == [i \in Instrs(k) |-> i.r]
  <1>1. IsFiniteSet(S)
    <2>1. IsFiniteSet(DOMAIN k)
      BY DEF KInv
    <2> HIDE DEF E
    <2> QED BY <2>1, FiniteImage
  <1>2. \A T \in S : IsFiniteSet(T)
    <2> SUFFICES ASSUME NEW b \in DOMAIN k PROVE IsFiniteSet(ElemsOf(k[b]))
      OBVIOUS
    <2>1. IsSeq(k[b])
      BY KernelFacts, GoodFacts
    <2> QED BY <2>1, SeqFinite
  <1>3. Instrs(k) = UNION S
    BY DEF Instrs
  <1> HIDE DEF S
  <1>4. IsFiniteSet(Instrs(k))
    BY <1>1, <1>2, <1>3, FS_UNION
  <1>5. {i.r : i \in Instrs(k)} = {f[i] : i \in Instrs(k)}
    OBVIOUS
  <1> HIDE DEF f
  <1>6. IsFiniteSet({i.r : i \in Instrs(k)})
    BY <1>4, <1>5, FiniteImage
  <1>7. \A i \in Instrs(k) : i.r \in Nat
    BY KernelFacts, GoodFacts, InsFacts DEF Instrs
  <1>8. ASSUME NEW c \in DOMAIN k, NEW v, <<"value", v>> \in Claimed(k[c]) PROVE v \in {i.r : i \in Instrs(k)}
    <2>1. PICK i \in ElemsOf(k[c]) : <<"value", v>> \in Claims(i)
      BY <1>8 DEF Claimed
    <2>2. v = i.r /\ i \in Instrs(k)
      BY <2>1, ClaimsOf DEF Instrs
    <2> QED BY <2>2
  <1> QED BY <1>6, <1>7, <1>8

(* The ids vectorize takes for new values are above every result.          *)
LEMMA NextVidFacts ==
  ASSUME NEW k, KInv(k), NEW b
  PROVE  NextVid(k, b) \in Nat /\ NextVid(k, b) > 0
         /\ \A c \in DOMAIN k : \A v : <<"value", v>> \in Claimed(k[c]) => v \in Nat /\ v < NextVid(k, b)
  <1> DEFINE R == {i.r : i \in Instrs(k)}
             S == R \cup {0}
  <1>1. NextVid(k, b) = MaxOf(S) + 1
    BY DEF NextVid
  <1>2. IsFiniteSet(R) /\ R \subseteq Nat /\ \A c \in DOMAIN k : \A v : <<"value", v>> \in Claimed(k[c]) => v \in R
    BY ResultsOfKernel
  <1> HIDE DEF R
  <1>3. IsFiniteSet({0})
    BY FS_Singleton
  <1>4. IsFiniteSet(S) /\ S \in SUBSET Nat /\ S # {} /\ R \subseteq S
    <2>1. IsFiniteSet(S)
      BY <1>2, <1>3, FS_Union
    <2>2. S \in SUBSET Nat /\ S # {} /\ R \subseteq S
      BY <1>2
    <2> QED BY <2>1, <2>2
  <1> HIDE DEF S
  <1>5. MaxOf(S) \in Nat /\ \A y \in S : y <= MaxOf(S) /\ y \in Nat
    BY <1>4, MaxOfFacts
  <1> DEFINE m == MaxOf(S)
  <1>6. NextVid(k, b) = m + 1 /\ m \in Nat /\ \A y \in R : y <= m /\ y \in Nat
    BY <1>1, <1>4, <1>5
  <1> HIDE DEF m
  <1>7. \A y \in R : y \in Nat /\ y < m + 1
    BY <1>6
  <1>8. m + 1 \in Nat /\ m + 1 > 0
    BY <1>6
  <1> DEFINE n == m + 1
  <1>9. NextVid(k, b) = n /\ n \in Nat /\ n > 0 /\ \A y \in R : y \in Nat /\ y < n
    BY <1>6, <1>7, <1>8
  <1> HIDE DEF n
  <1> QED BY <1>2, <1>9

LEMMA OnePicks ==
  ASSUME NEW blk, NEW j \in DOMAIN blk
  PROVE  Picks(<<j>>, blk)
  BY DEF Picks

(* A run is a sequence of positions in its block.                          *)
LEMMA RunFromPicks ==
  ASSUME NEW k, NEW b, Good(k[b]), NEW h \in DOMAIN k[b], NEW skip
  PROVE  Picks(RunFrom(k, b, h, skip), k[b])
  <1> DEFINE blk == k[b]
             t == <<"run", k, b, h, skip>>
             w == Window(blk, h)
             s == Ascending(w)
             x == [run |-> <<h>>, ended |-> FALSE]
  <1>1. Len(blk) \in Nat /\ DOMAIN blk = 1..Len(blk)
    BY GoodFacts
  <1>2. IsSeq(s) /\ \A j \in ElemsOf(s) : j \in DOMAIN blk
    <2>0. w \subseteq DOMAIN blk
      BY DEF Window
    <2>1. w \subseteq DOMAIN blk /\ IsFiniteSet(DOMAIN blk) /\ DOMAIN blk \subseteq Nat \ {0}
      <3>1. IsFiniteSet(DOMAIN blk)
        BY <1>1, FS_Interval
      <3>2. DOMAIN blk \subseteq Nat \ {0}
        BY <1>1
      <3> QED BY <2>0, <3>1, <3>2
    <2> HIDE DEF w
    <2>2. w \in SUBSET (Nat \ {0}) /\ IsFiniteSet(w)
      BY <2>1, FS_Subset
    <2> QED BY <2>1, <2>2, AscendingFacts
  <1>3. s = Ascending(Window(k[b], h))
    OBVIOUS
  <1> HIDE DEF s, w
  <1>4. PICK f : FoldsTo(f, t, x, s, DOMAIN s) /\ RunFrom(k, b, h, skip) = f[DOMAIN s].run
    BY <1>2, <1>3, RunFold
  <1>5. \A n, z : /\ Holds(t, n, z) <=> DOMAIN z = {"run", "ended"} /\ Picks(z.run, blk)
                  /\ \A e : Turn(t, z, e) = Extended(k, b, h, skip, z, e)
    BY DEF Holds, Turn
  <1> HIDE DEF t
  <1>6. ASSUME NEW z, DOMAIN z = {"run", "ended"}, Picks(z.run, blk), NEW j \in DOMAIN blk
        PROVE  LET y == Extended(k, b, h, skip, z, j) IN DOMAIN y = {"run", "ended"} /\ Picks(y.run, blk)
    <2> DEFINE y == Extended(k, b, h, skip, z, j)
    <2>1. y = z \/ y = [z EXCEPT !.run = Append(z.run, j)] \/ y = [z EXCEPT !.ended = TRUE]
      BY DEF Extended
    <2> HIDE DEF y
    <2>2. Picks(Append(z.run, j), blk)
      <3> DEFINE D == DOMAIN blk
                 run == z.run
      <3>1. run \in Seq(D) /\ j \in D
        BY <1>6 DEF Picks
      <3> HIDE DEF D, run
      <3>2. Append(run, j) \in Seq(D) /\ Append(run, j) # <<>>
        BY <3>1
      <3> QED BY <3>2 DEF Picks, D, run
    <2>3. DOMAIN y = {"run", "ended"} /\ Picks(y.run, blk)
      <3>1. CASE y = z
        BY <1>6, <3>1
      <3>2. CASE y = [z EXCEPT !.run = Append(z.run, j)]
        BY <1>6, <2>2, <3>2
      <3>3. CASE y = [z EXCEPT !.ended = TRUE]
        <4>1. y.run = z.run /\ DOMAIN y = {"run", "ended"}
          BY <1>6, <3>3
        <4> QED BY <1>6, <4>1
      <3> QED BY <2>1, <3>1, <3>2, <3>3
    <2> QED BY <2>3 DEF y
  <1>7. Holds(t, Len(s), f[DOMAIN s])
    <2>1. Holds(t, 0, x)
      <3> DEFINE one == <<h>>
      <3>2. Picks(one, blk)
        BY OnePicks
      <3>3. DOMAIN x = {"run", "ended"} /\ x.run = one
        OBVIOUS
      <3> HIDE DEF one, x
      <3> QED BY <1>5, <3>2, <3>3
    <2> HIDE DEF x
    <2>2. \A n \in 1..Len(s) : \A z : Holds(t, n - 1, z) => Holds(t, n, Turn(t, z, s[n]))
      <3> SUFFICES ASSUME NEW n \in 1..Len(s), NEW z, Holds(t, n - 1, z) PROVE Holds(t, n, Turn(t, z, s[n]))
        OBVIOUS
      <3>1. s[n] \in DOMAIN blk
        BY <1>2, SeqFacts
      <3>2. Turn(t, z, s[n]) = Extended(k, b, h, skip, z, s[n])
        BY <1>5
      <3>3. DOMAIN z = {"run", "ended"} /\ Picks(z.run, blk)
        BY <1>5
      <3> DEFINE y == Extended(k, b, h, skip, z, s[n])
      <3>4. DOMAIN y = {"run", "ended"} /\ Picks(y.run, blk)
        BY <1>6, <3>1, <3>3
      <3> HIDE DEF y
      <3>5. Holds(t, n, y)
        BY <1>5, <3>4
      <3> QED BY <3>2, <3>5 DEF y
    <2> QED BY <1>2, <1>4, <2>1, <2>2, FoldKeeps
  <1>8. Picks(f[DOMAIN s].run, blk)
    BY <1>5, <1>7
  <1> QED BY <1>4, <1>8

LEMMA RunsPick ==
  ASSUME NEW k, NEW b, Good(k[b]), NEW kind
  PROVE  \A run \in Runs(k, b, kind) : Picks(run, k[b])
  <1> DEFINE blk == k[b]
             t == <<"runs", k, b, kind>>
             s == Count(Len(blk))
             x == [runs |-> {}, skip |-> {}]
  <1>1. Len(blk) \in Nat /\ DOMAIN blk = 1..Len(blk)
    BY GoodFacts
  <1>2. IsSeq(s) /\ \A h \in DOMAIN s : s[h] \in DOMAIN blk
    BY <1>1, CountFacts
  <1>3. s = Count(Len(k[b]))
    OBVIOUS
  <1> HIDE DEF s
  <1>4. PICK f : FoldsTo(f, t, x, s, DOMAIN s) /\ Runs(k, b, kind) = f[DOMAIN s].runs
    BY <1>2, <1>3, RunsFold
  <1>5. \A n, z : /\ Holds(t, n, z) <=> \A run \in z.runs : Picks(run, blk)
                  /\ \A e : Turn(t, z, e) = WithRun(k, b, kind, z, e)
    BY DEF Holds, Turn
  <1> HIDE DEF t
  <1>6. ASSUME NEW z, \A run \in z.runs : Picks(run, blk), NEW j \in DOMAIN blk
        PROVE  \A run \in WithRun(k, b, kind, z, j).runs : Picks(run, blk)
    <2> DEFINE one == <<j>>
               d == RunFrom(k, b, j, z.skip)
               r == IF blk[j].k = kind /\ j \notin z.skip THEN d ELSE one
    <2>1. Picks(one, blk) /\ Picks(d, blk)
      <3>1. Picks(one, blk)
        BY OnePicks
      <3>2. Picks(d, blk)
        BY RunFromPicks
      <3> QED BY <3>1, <3>2
    <2>2. \/ WithRun(k, b, kind, z, j) = z
          \/ WithRun(k, b, kind, z, j) = [runs |-> z.runs \cup {r}, skip |-> z.skip \cup ElemsOf(r)]
      BY DEF WithRun
    <2>3. r = one \/ r = d
      OBVIOUS
    <2> HIDE DEF one, d, r
    <2> QED BY <1>6, <2>1, <2>2, <2>3
  <1>7. Holds(t, Len(s), f[DOMAIN s])
    <2>1. Holds(t, 0, x)
      BY <1>5
    <2> HIDE DEF x
    <2>2. \A n \in 1..Len(s) : \A z : Holds(t, n - 1, z) => Holds(t, n, Turn(t, z, s[n]))
      <3> SUFFICES ASSUME NEW n \in 1..Len(s), NEW z, Holds(t, n - 1, z) PROVE Holds(t, n, Turn(t, z, s[n]))
        OBVIOUS
      <3>1. s[n] \in DOMAIN blk
        BY <1>2, SeqFacts
      <3>2. Turn(t, z, s[n]) = WithRun(k, b, kind, z, s[n])
        BY <1>5
      <3>3. \A c \in WithRun(k, b, kind, z, s[n]).runs : Picks(c, blk)
        BY <1>5, <1>6, <3>1
      <3> QED BY <1>5, <3>2, <3>3
    <2> QED BY <1>2, <1>4, <2>1, <2>2, FoldKeeps
  <1> QED BY <1>4, <1>5, <1>7

(* What takes the place of the instruction at j claims what it did, or     *)
(* fresh values of its own.                                                *)
LEMMA MergeKeeps ==
  ASSUME NEW blk, Good(blk), NEW runs, \A run \in runs : Picks(run, blk), NEW top \in Nat, top > 0,
         \A v : <<"value", v>> \in Claimed(blk) => v \in Nat /\ v < top
  PROVE  /\ Good(Merge(blk, runs, top))
         /\ \A x \in Claimed(Merge(blk, runs, top)) :
              x \in Claimed(blk) \/ \E v \in Nat : x = <<"value", v>> /\ top <= v
  <1> DEFINE of(j) == {run \in runs : j \in ElemsOf(run)}
             R(j) == CHOOSE run \in of(j) : TRUE
             vec(run) == top + Head(run)
             lane(j) == top + Len(blk) + j
             width(j) == <<blk[j].f[1], Len(R(j))>>
             place(j) == CHOOSE n \in DOMAIN R(j) : R(j)[n] = j
             extract(j) == Ins("VectorExtract", place(j), <<vec(R(j))>>, <<>>, lane(j))
             load(j) == Ins("VectorLoad", width(j), blk[j].a, <<>>, vec(R(j)))
             store(j) == Ins("VectorStore", width(j), blk[j].a, <<>>, NoResult)
             head(j) == j = Head(R(j))
             merged(j) == CASE blk[j].k = "Load" /\ head(j) -> <<load(j), extract(j)>>
                            [] blk[j].k = "Load" /\ ~head(j) -> <<extract(j)>>
                            [] blk[j].k = "Store" /\ head(j) -> <<store(j)>>
                            [] OTHER -> <<>>
             new(j) == IF of(j) = {} THEN <<blk[j]>> ELSE merged(j)
             ss == [j \in DOMAIN blk |-> new(j)]
             loaded == {j \in UNION {ElemsOf(run) : run \in runs} : blk[j].k = "Load"}
             map == [v \in {blk[j].r : j \in loaded} |-> lane(CHOOSE j \in loaded : blk[j].r = v)]
             Fresh(j) == {"value"} \X {top + j, top + Len(blk) + j}
             Mine(j) == Claims(blk[j]) \cup Fresh(j)
  <1>1. Merge(blk, runs, top) = RemapBlock(FlattenSeq(ss), map)
    BY DEF Merge, Splice
  <1>2. /\ Len(blk) \in Nat /\ DOMAIN blk = 1..Len(blk)
        /\ \A j \in DOMAIN blk : IsIns(blk[j]) /\ j \in Nat
    <2>1. Len(blk) \in Nat /\ DOMAIN blk = 1..Len(blk) /\ \A j \in DOMAIN blk : IsIns(blk[j])
      BY GoodFacts
    <2>2. \A j \in 1..Len(blk) : j \in Nat
      BY <2>1
    <2> QED BY <2>1, <2>2
  <1>3. ASSUME NEW run \in runs PROVE Head(run) \in DOMAIN blk /\ ElemsOf(run) \subseteq DOMAIN blk
    BY DEF Picks, ElemsOf
  <1>4. IsMap(map)
    <2>1. \A v \in {blk[j].r : j \in loaded} : (CHOOSE j \in loaded : blk[j].r = v) \in loaded
      OBVIOUS
    <2>2. \A j \in loaded : j \in DOMAIN blk
      BY <1>3
    <2>3. \A j \in loaded : lane(j) \in Nat
      BY <1>2, <2>2
    <2>4. map = [v \in {blk[j].r : j \in loaded} |-> lane(CHOOSE j \in loaded : blk[j].r = v)]
      OBVIOUS
    <2> HIDE DEF loaded, lane, map
    <2> QED BY <2>1, <2>3, <2>4 DEF IsMap
  <1>5. ASSUME NEW j \in DOMAIN blk, of(j) # {}
        PROVE  /\ vec(R(j)) \in Nat /\ lane(j) \in Nat /\ vec(R(j)) # lane(j) /\ vec(R(j)) # 0 /\ lane(j) # 0
               /\ head(j) => vec(R(j)) = top + j
    <2>1. R(j) \in runs
      BY <1>5
    <2>2. Head(R(j)) \in DOMAIN blk
      BY <1>3, <2>1
    <2> DEFINE h == Head(R(j))
    <2>3. h \in Nat /\ h >= 1 /\ h <= Len(blk) /\ j \in Nat /\ j >= 1
      BY <1>2, <2>2
    <2>4. vec(R(j)) = top + h /\ (head(j) => j = h)
      OBVIOUS
    <2> HIDE DEF vec, head, h
    <2> QED BY <1>2, <2>3, <2>4
  <1> HIDE DEF vec, head, R, width, place
  <1>6. ASSUME NEW j \in DOMAIN blk, of(j) # {}
        PROVE  IsIns(extract(j)) /\ Claims(extract(j)) = {<<"value", lane(j)>>}
    <2> DEFINE v == <<vec(R(j))>>
               r == lane(j)
               p == place(j)
    <2>1. v \in Seq(Nat) /\ Len(v) = 1 /\ r \in Nat /\ r # 0
      BY <1>5, <1>6
    <2> HIDE DEF v, r, p
    <2>2. IsIns(Ins("VectorExtract", p, v, <<>>, r))
          /\ Claims(Ins("VectorExtract", p, v, <<>>, r)) = {"value"} \X ({r} \ {NoResult})
      BY <2>1, MadeExtract
    <2>3. {"value"} \X ({r} \ {NoResult}) = {<<"value", r>>}
      BY <2>1 DEF NoResult
    <2> QED BY <2>2, <2>3 DEF v, r, p
  <1>7. ASSUME NEW j \in DOMAIN blk, of(j) # {}, blk[j].k = "Load", head(j)
        PROVE  IsIns(load(j)) /\ Claims(load(j)) = {<<"value", top + j>>}
    <2> DEFINE r == vec(R(j))
               a == blk[j].a
               w == width(j)
    <2>1. r \in Nat /\ r # 0 /\ r = top + j
      BY <1>5, <1>7
    <2>2. a \in Seq(Nat) /\ Len(a) = 1
      BY <1>2, <1>7, InsFacts
    <2> HIDE DEF r, a, w
    <2>3. IsIns(Ins("VectorLoad", w, a, <<>>, r))
          /\ Claims(Ins("VectorLoad", w, a, <<>>, r)) = {"value"} \X ({r} \ {NoResult})
      BY <2>1, <2>2, MadeLoad
    <2>4. {"value"} \X ({r} \ {NoResult}) = {<<"value", top + j>>}
      BY <2>1 DEF NoResult
    <2> QED BY <2>3, <2>4 DEF r, a, w
  <1>8. ASSUME NEW j \in DOMAIN blk, blk[j].k = "Store"
        PROVE  IsIns(store(j)) /\ Claims(store(j)) = {}
    <2> DEFINE r == NoResult
               a == blk[j].a
               w == width(j)
    <2>1. r \in Nat
      BY DEF NoResult
    <2>2. a \in Seq(Nat) /\ Len(a) = 2
      BY <1>2, <1>8, InsFacts
    <2>3. {"value"} \X ({r} \ {NoResult}) = {}
      OBVIOUS
    <2> HIDE DEF r, a, w
    <2>4. IsIns(Ins("VectorStore", w, a, <<>>, r))
          /\ Claims(Ins("VectorStore", w, a, <<>>, r)) = {"value"} \X ({r} \ {NoResult})
      BY <2>1, <2>2, MadeStore
    <2> QED BY <2>3, <2>4 DEF r, a, w
  <1>9. \A j \in DOMAIN blk : <<"value", top + j>> \in Fresh(j) /\ <<"value", lane(j)>> \in Fresh(j)
    OBVIOUS
  <1>10. \A j \in DOMAIN blk : of(j) # {} => lane(j) # top + j
    BY <1>2
  <1> HIDE DEF extract, load, store, lane, Fresh
  <1>11. ASSUME NEW j \in DOMAIN blk
         PROVE  Good(new(j)) /\ (Claimed(new(j)) = Claims(blk[j]) \/ Claimed(new(j)) \subseteq Fresh(j))
    <2>1. CASE of(j) = {}
      <3>1. new(j) = <<blk[j]>> /\ IsIns(blk[j])
        BY <1>2, <2>1
      <3> HIDE DEF new
      <3> QED BY <3>1, OneIsGood
    <2>2. CASE of(j) # {} /\ blk[j].k = "Load" /\ head(j)
      <3> DEFINE x == <<load(j)>>
                 y == <<extract(j)>>
                 z == <<load(j), extract(j)>>
      <3>1. new(j) = z
        BY <2>2
      <3>2. z = x \o y
        OBVIOUS
      <3> HIDE DEF new
      <3>3. Good(x) /\ IsSeq(x) /\ Claimed(x) = {<<"value", top + j>>}
        BY <1>7, <2>2, OneIsGood
      <3>4. Good(y) /\ IsSeq(y) /\ Claimed(y) = {<<"value", lane(j)>>}
        BY <1>6, <2>2, OneIsGood
      <3>5. lane(j) # top + j
        BY <1>10, <2>2
      <3> HIDE DEF x, y, z
      <3>6. Claimed(x) \cap Claimed(y) = {}
        BY <3>3, <3>4, <3>5
      <3>7. Good(x \o y) /\ Claimed(x \o y) = Claimed(x) \cup Claimed(y)
        BY <3>3, <3>4, <3>6, ConcatApart
      <3> QED BY <1>9, <3>1, <3>2, <3>3, <3>4, <3>7
    <2>3. CASE of(j) # {} /\ blk[j].k = "Load" /\ ~head(j)
      <3>1. new(j) = <<extract(j)>>
        BY <2>3
      <3> HIDE DEF new
      <3> DEFINE x == extract(j)
                 y == <<x>>
      <3>2. IsIns(x) /\ Claims(x) = {<<"value", lane(j)>>} /\ new(j) = y
        BY <1>6, <2>3, <3>1
      <3>3. Good(y) /\ Claimed(y) = Claims(x)
        BY <3>2, OneIsGood
      <3> HIDE DEF x, y
      <3> QED BY <1>9, <3>2, <3>3
    <2>4. CASE of(j) # {} /\ blk[j].k = "Store" /\ head(j)
      <3>1. new(j) = <<store(j)>>
        BY <2>4
      <3> HIDE DEF new
      <3>2. IsIns(store(j)) /\ Claims(store(j)) = {}
        BY <1>8, <2>4
      <3> QED BY <3>1, <3>2, OneIsGood
    <2>5. CASE of(j) # {} /\ blk[j].k # "Load" /\ ~(blk[j].k = "Store" /\ head(j))
      <3>1. new(j) = <<>>
        BY <2>5
      <3> HIDE DEF new
      <3> QED BY <3>1, NothingIsGood
    <2> QED BY <2>1, <2>2, <2>3, <2>4, <2>5
  <1>12. ss = [j \in 1..Len(blk) |-> ss[j]] /\ \A j \in DOMAIN blk : ss[j] = new(j)
    BY <1>2
  <1> HIDE DEF ss, new, map
  <1>13. \A j \in DOMAIN blk : \A x \in Fresh(j) : \E v \in Nat : x = <<"value", v>> /\ top <= v
    BY <1>2 DEF Fresh
  <1>14. \A j \in DOMAIN blk : Claims(blk[j]) \subseteq Claimed(blk)
    BY ClaimedBy
  <1>15. \A p, q \in DOMAIN blk : Fresh(p) \cap Claims(blk[q]) = {}
    <2> SUFFICES ASSUME NEW p \in DOMAIN blk, NEW q \in DOMAIN blk, NEW x \in Fresh(p), x \in Claims(blk[q]) PROVE FALSE
      OBVIOUS
    <2>1. PICK v \in Nat : x = <<"value", v>> /\ top <= v
      BY <1>13
    <2>2. <<"value", v>> \in Claimed(blk)
      BY <1>14, <2>1
    <2>3. v < top
      BY <2>2
    <2> QED BY <2>1, <2>3
  <1>16. \A p, q \in DOMAIN blk : p # q => Fresh(p) \cap Fresh(q) = {}
    <2> SUFFICES ASSUME NEW p \in DOMAIN blk, NEW q \in DOMAIN blk, p # q PROVE Fresh(p) \cap Fresh(q) = {}
      OBVIOUS
    <2>1. p \in Nat /\ q \in Nat /\ 1 <= p /\ 1 <= q /\ p <= Len(blk) /\ q <= Len(blk) /\ Len(blk) \in Nat
      BY <1>2
    <2>2. {top + p, top + Len(blk) + p} \cap {top + q, top + Len(blk) + q} = {}
      BY <2>1
    <2> QED BY <2>2 DEF Fresh
  <1>17. \A p, q \in DOMAIN blk : p # q => Claims(blk[p]) \cap Claims(blk[q]) = {}
    BY DEF Good, Apart
  <1>18. ASSUME NEW p \in DOMAIN blk, NEW q \in DOMAIN blk, p # q PROVE Claimed(ss[p]) \cap Claimed(ss[q]) = {}
    <2>1. Claimed(ss[p]) = Claims(blk[p]) \/ Claimed(ss[p]) \subseteq Fresh(p)
      BY <1>11, <1>12
    <2>2. Claimed(ss[q]) = Claims(blk[q]) \/ Claimed(ss[q]) \subseteq Fresh(q)
      BY <1>11, <1>12
    <2>3. /\ Fresh(p) \cap Claims(blk[q]) = {} /\ Fresh(q) \cap Claims(blk[p]) = {}
          /\ Fresh(p) \cap Fresh(q) = {} /\ Claims(blk[p]) \cap Claims(blk[q]) = {}
      BY <1>15, <1>16, <1>17, <1>18
    <2> QED BY <2>1, <2>2, <2>3
  <1>19. Good(FlattenSeq(ss)) /\ Claimed(FlattenSeq(ss)) = UNION {Claimed(ss[j]) : j \in 1..Len(blk)}
    BY <1>2, <1>11, <1>12, <1>18, FlattenGood
  <1>20. \A x \in Claimed(FlattenSeq(ss)) : x \in Claimed(blk) \/ \E v \in Nat : x = <<"value", v>> /\ top <= v
    <2> SUFFICES ASSUME NEW x \in Claimed(FlattenSeq(ss))
                 PROVE  x \in Claimed(blk) \/ \E v \in Nat : x = <<"value", v>> /\ top <= v
      OBVIOUS
    <2>1. PICK j \in DOMAIN blk : x \in Claimed(ss[j])
      BY <1>2, <1>19
    <2>2. x \in Claims(blk[j]) \/ x \in Fresh(j)
      BY <1>11, <1>12, <2>1
    <2> QED BY <1>13, <1>14, <2>2
  <1>21. Good(RemapBlock(FlattenSeq(ss), map)) /\ Claimed(RemapBlock(FlattenSeq(ss), map)) \subseteq Claimed(FlattenSeq(ss))
    BY <1>4, <1>19, RemapBlockKeeps
  <1> QED BY <1>1, <1>20, <1>21

(* Merging a block's runs leaves the claims of the other blocks alone.     *)
LEMMA VectorizeBlockKeeps ==
  ASSUME NEW k, KInv(k), NEW b
  PROVE  KInv(VectorizeBlock(k, b))
  <1> DEFINE runs == UNION {Runs(k, b, kind) : kind \in {"Load", "Store"}}
             new == Merge(k[b], runs, NextVid(k, b))
             k2 == VectorizeBlock(k, b)
  <1>1. k2 = [k EXCEPT ![b] = new]
    BY DEF VectorizeBlock
  <1>2. DOMAIN k2 = DOMAIN k /\ \A c \in DOMAIN k : k2[c] = IF c = b THEN new ELSE k[c]
    <2> HIDE DEF new, k2
    <2> QED BY <1>1
  <1>3. CASE b \notin DOMAIN k
    <2>1. \A c \in DOMAIN k : k2[c] = k[c]
      <3> HIDE DEF new, k2
      <3> QED BY <1>2, <1>3
    <2> HIDE DEF k2
    <2>2. \A c \in DOMAIN k : Good(k2[c]) /\ Claimed(k2[c]) \subseteq Claimed(k[c])
      BY <2>1, KernelFacts
    <2>3. KInv(k2)
      BY <1>2, <2>2, BlockwiseKeeps
    <2> QED BY <2>3 DEF k2
  <1>4. CASE b \in DOMAIN k
    <2> DEFINE top == NextVid(k, b)
               blk == k[b]
    <2>1. Good(blk)
      BY <1>4, KernelFacts
    <2>2. \A run \in runs : Picks(run, blk)
      BY <2>1, RunsPick
    <2>3. top \in Nat /\ top > 0 /\ \A c \in DOMAIN k : \A v : <<"value", v>> \in Claimed(k[c]) => v \in Nat /\ v < top
      BY NextVidFacts
    <2>4. \A v : <<"value", v>> \in Claimed(blk) => v \in Nat /\ v < top
      BY <1>4, <2>3
    <2>5. new = Merge(blk, runs, top)
      OBVIOUS
    <2> HIDE DEF runs, new, top, k2
    <2>6. Good(new) /\ \A x \in Claimed(new) : x \in Claimed(blk) \/ \E v \in Nat : x = <<"value", v>> /\ top <= v
      BY <2>1, <2>2, <2>3, <2>4, <2>5, MergeKeeps
    <2>7. \A c \in DOMAIN k : Good(k2[c])
      BY <1>2, <2>6, KernelFacts
    <2>8. ASSUME NEW c \in DOMAIN k, c # b PROVE Claimed(k2[b]) \cap Claimed(k2[c]) = {}
      <3>1. k2[b] = new /\ k2[c] = k[c]
        BY <1>2, <1>4, <2>8
      <3> SUFFICES ASSUME NEW x \in Claimed(new), x \in Claimed(k[c]) PROVE FALSE
        BY <3>1
      <3>2. CASE x \in Claimed(blk)
        BY <1>4, <2>8, <3>2 DEF KInv
      <3>3. CASE \E v \in Nat : x = <<"value", v>> /\ top <= v
        <4>1. PICK v \in Nat : x = <<"value", v>> /\ top <= v
          BY <3>3
        <4>2. v < top
          BY <2>3, <4>1
        <4> QED BY <2>3, <4>1, <4>2
      <3> QED BY <2>6, <3>2, <3>3
    <2>9. \A c, d \in DOMAIN k : c # d => Claimed(k2[c]) \cap Claimed(k2[d]) = {}
      <3> SUFFICES ASSUME NEW c \in DOMAIN k, NEW d \in DOMAIN k, c # d PROVE Claimed(k2[c]) \cap Claimed(k2[d]) = {}
        OBVIOUS
      <3>1. CASE c = b
        BY <2>8, <3>1
      <3>2. CASE d = b
        BY <2>8, <3>2
      <3>3. CASE c # b /\ d # b
        BY <1>2, <3>3 DEF KInv
      <3> QED BY <3>1, <3>2, <3>3
    <2>10. \A c \in DOMAIN k : \A d : <<"block", d>> \in Claimed(k2[c]) => <<"block", d>> \in Claimed(k[c])
      <3> SUFFICES ASSUME NEW c \in DOMAIN k, NEW d, <<"block", d>> \in Claimed(k2[c])
                   PROVE  <<"block", d>> \in Claimed(k[c])
        OBVIOUS
      <3>1. CASE c # b
        BY <1>2, <3>1
      <3>2. CASE c = b
        <4>1. <<"block", d>> \in Claimed(new)
          BY <1>2, <3>2
        <4>2. \A v : <<"block", d>> # <<"value", v>>
          OBVIOUS
        <4> QED BY <2>6, <3>2, <4>1, <4>2
      <3> QED BY <3>1, <3>2
    <2>11. \A c \in DOMAIN k2 : \A d : <<"block", d>> \in Claimed(k2[c]) => d \in DOMAIN k2 /\ c < d
      BY <1>2, <2>10 DEF KInv
    <2>12. KInv(k2)
      BY <1>2, <2>7, <2>9, <2>11 DEF KInv
    <2> QED BY <2>12 DEF k2
  <1> QED BY <1>3, <1>4

LEMMA VectorizeKeeps ==
  ASSUME NEW k, KInv(k)
  PROVE  KInv(Vectorize(k))
  <1> DEFINE t == <<"vectorize">>
             x == Ascending(Nested(k))
             s == Append(x, Body)
  <1>1. IsSeq(s)
    <2>1. IsSeq(x)
      BY NestedFacts
    <2> HIDE DEF x
    <2> QED BY <2>1, AppendFacts
  <1>2. Vectorize(k) = EliminateDeadValues(FoldLeft(VectorizeBlock, k, s))
    BY DEF Vectorize
  <1> HIDE DEF s
  <1>3. PICK f : FoldsTo(f, t, k, s, DOMAIN s) /\ FoldLeft(VectorizeBlock, k, s) = f[DOMAIN s]
    BY <1>1, VectorizeFold
  <1>4. \A n, z : (Holds(t, n, z) <=> KInv(z)) /\ \A e : Turn(t, z, e) = VectorizeBlock(z, e)
    BY DEF Holds, Turn
  <1> HIDE DEF t
  <1>5. Holds(t, Len(s), f[DOMAIN s])
    <2>1. Holds(t, 0, k)
      BY <1>4
    <2>2. \A n \in 1..Len(s) : \A z : Holds(t, n - 1, z) => Holds(t, n, Turn(t, z, s[n]))
      BY <1>4, VectorizeBlockKeeps
    <2> QED BY <1>1, <1>3, <2>1, <2>2, FoldKeeps
  <1>6. KInv(FoldLeft(VectorizeBlock, k, s))
    BY <1>3, <1>4, <1>5
  <1> QED BY <1>2, <1>6, EliminateKeeps

-----------------------------------------------------------------------------
(* unroll                                                                  *)

(* Owned has the children of what it has, and only later blocks.           *)
LEMMA OwnedFacts ==
  ASSUME NEW k, NEW b \in DOMAIN k, DOMAIN k \subseteq Nat,
         \A c \in DOMAIN k : b <= c => \A d \in Children(k, c) : c < d
  PROVE  /\ \A c \in Owned(k, b) : c \in DOMAIN k /\ b < c
         /\ \A c \in Owned(k, b) \cup {b} : Children(k, c) \cap DOMAIN k \subseteq Owned(k, b)
  <1> DEFINE Closed(S) == \A c \in S \cup {b} : Children(k, c) \cap DOMAIN k \subseteq S
             O == Owned(k, b)
  <1>1. O = {c \in DOMAIN k : \A S \in SUBSET DOMAIN k : Closed(S) => c \in S}
    BY DEF Owned
  <1>2. ASSUME NEW c \in O \cup {b}, NEW d \in Children(k, c) \cap DOMAIN k PROVE d \in O
    <2> SUFFICES ASSUME NEW S \in SUBSET DOMAIN k, Closed(S) PROVE d \in S
      <3> HIDE DEF O, Closed
      <3> QED BY <1>1, <1>2
    <2>1. c \in S \cup {b}
      <3>1. c \in O => c \in S
        <4> HIDE DEF O, Closed
        <4> QED BY <1>1
      <3> QED BY <1>2, <3>1
    <2> QED BY <1>2, <2>1
  <1> DEFINE S0 == {c \in DOMAIN k : b < c}
  <1>3. Closed(S0)
    <2> SUFFICES ASSUME NEW c \in S0 \cup {b}, NEW d \in Children(k, c) \cap DOMAIN k PROVE d \in S0
      OBVIOUS
    <2>1. c \in DOMAIN k /\ b <= c /\ c \in Nat /\ b \in Nat /\ d \in Nat /\ d \in DOMAIN k
      OBVIOUS
    <2>2. c < d
      BY <2>1
    <2> QED BY <2>1, <2>2
  <1>4. S0 \in SUBSET DOMAIN k /\ \A c \in S0 : b < c
    OBVIOUS
  <1>5. \A c \in O : c \in DOMAIN k /\ c \in S0
    <2> HIDE DEF O, Closed, S0
    <2> QED BY <1>1, <1>3, <1>4
  <1> QED BY <1>2, <1>4, <1>5

(* Claims below given ids, and the same moved past them.                   *)
Low(X, vs, bs) ==
    \A x \in X : \/ \E v \in Nat \ {0} : v < vs /\ x = <<"value", v>>
                 \/ \E c \in Nat : c < bs /\ x = <<"block", c>>
Shift(X, vs, bs) ==
    {<<"value", v + vs>> : v \in {u \in Nat : <<"value", u>> \in X}}
    \cup {<<"block", c + bs>> : c \in {d \in Nat : <<"block", d>> \in X}}

(* Moved claims are new, and apart where the claims were.                  *)
LEMMA ShiftFacts ==
  ASSUME NEW vs \in Nat \ {0}, NEW bs \in Nat, NEW X, NEW Y, Low(X, vs, bs), Low(Y, vs, bs)
  PROVE  /\ X \cap Y = {} => Shift(X, vs, bs) \cap Shift(Y, vs, bs) = {}
         /\ Shift(X, vs, bs) \cap Y = {}
         /\ <<"value", vs>> \notin Shift(X, vs, bs) /\ <<"value", vs>> \notin Y
         /\ Low(X, 2 * vs, 2 * bs) /\ Low(Shift(X, vs, bs), 2 * vs, 2 * bs)
  <1> DEFINE Z == Shift(X, vs, bs)
             W == Shift(Y, vs, bs)
  <1>0. vs \in Nat /\ vs > 0 /\ bs \in Nat
    OBVIOUS
  <1>1. \A x \in Z : \/ \E v \in Nat : x = <<"value", v + vs>> /\ <<"value", v>> \in X
                     \/ \E c \in Nat : x = <<"block", c + bs>> /\ <<"block", c>> \in X
    BY DEF Shift
  <1>2. \A x \in W : \/ \E v \in Nat : x = <<"value", v + vs>> /\ <<"value", v>> \in Y
                     \/ \E c \in Nat : x = <<"block", c + bs>> /\ <<"block", c>> \in Y
    BY DEF Shift
  <1>3. \A u, v : <<"value", u>> # <<"block", v>> /\ (<<"value", u>> = <<"value", v>> => u = v)
                  /\ (<<"block", u>> = <<"block", v>> => u = v)
    OBVIOUS
  <1>4. \A v : <<"value", v>> \in X => v \in Nat /\ v > 0 /\ v < vs
    BY <1>3 DEF Low
  <1>5. \A v : <<"value", v>> \in Y => v \in Nat /\ v > 0 /\ v < vs
    BY <1>3 DEF Low
  <1>6. \A c : <<"block", c>> \in X => c \in Nat /\ c < bs
    BY <1>3 DEF Low
  <1>7. \A c : <<"block", c>> \in Y => c \in Nat /\ c < bs
    BY <1>3 DEF Low
  <1> HIDE DEF Z, W
  <1>8. ASSUME X \cap Y = {}, NEW x \in Z, x \in W PROVE FALSE
    <2>1. CASE \E v \in Nat : x = <<"value", v + vs>> /\ <<"value", v>> \in X
      <3>1. PICK v \in Nat : x = <<"value", v + vs>> /\ <<"value", v>> \in X
        BY <2>1
      <3>2. PICK u \in Nat : x = <<"value", u + vs>> /\ <<"value", u>> \in Y
        BY <1>2, <1>3, <1>8, <3>1
      <3>3. u + vs = v + vs
        BY <1>3, <3>1, <3>2
      <3>4. u = v
        BY <1>0, <3>3
      <3> QED BY <1>8, <3>1, <3>2, <3>4
    <2>2. CASE \E v \in Nat : x = <<"block", v + bs>> /\ <<"block", v>> \in X
      <3>1. PICK v \in Nat : x = <<"block", v + bs>> /\ <<"block", v>> \in X
        BY <2>2
      <3>2. PICK u \in Nat : x = <<"block", u + bs>> /\ <<"block", u>> \in Y
        BY <1>2, <1>3, <1>8, <3>1
      <3>3. u + bs = v + bs
        BY <1>3, <3>1, <3>2
      <3>4. u = v
        BY <1>0, <3>3
      <3> QED BY <1>8, <3>1, <3>2, <3>4
    <2> QED BY <1>1, <1>8, <2>1, <2>2
  <1>9. ASSUME NEW x \in Z PROVE x \notin Y /\ x # <<"value", vs>>
    <2>1. CASE \E v \in Nat : x = <<"value", v + vs>> /\ <<"value", v>> \in X
      <3>1. PICK v \in Nat : x = <<"value", v + vs>> /\ <<"value", v>> \in X
        BY <2>1
      <3>2. v + vs > vs /\ ~(v + vs < vs) /\ v + vs # vs
        BY <1>0, <1>4, <3>1
      <3> QED BY <1>3, <1>5, <3>1, <3>2
    <2>2. CASE \E v \in Nat : x = <<"block", v + bs>> /\ <<"block", v>> \in X
      <3>1. PICK v \in Nat : x = <<"block", v + bs>> /\ <<"block", v>> \in X
        BY <2>2
      <3>2. ~(v + bs < bs)
        BY <1>0, <3>1
      <3> QED BY <1>3, <1>7, <3>1, <3>2
    <2> QED BY <1>1, <1>9, <2>1, <2>2
  <1>10. <<"value", vs>> \notin Y
    BY <1>0, <1>5
  <1>11. Low(X, 2 * vs, 2 * bs)
    <2> SUFFICES ASSUME NEW x \in X
                 PROVE  \/ \E v \in Nat \ {0} : v < 2 * vs /\ x = <<"value", v>>
                        \/ \E c \in Nat : c < 2 * bs /\ x = <<"block", c>>
      BY DEF Low
    <2>1. \A v \in Nat : v < vs => v < 2 * vs
      BY <1>0
    <2>2. \A v \in Nat : v < bs => v < 2 * bs
      BY <1>0
    <2> QED BY <2>1, <2>2 DEF Low
  <1>12. Low(Z, 2 * vs, 2 * bs)
    <2> SUFFICES ASSUME NEW x \in Z
                 PROVE  \/ \E v \in Nat \ {0} : v < 2 * vs /\ x = <<"value", v>>
                        \/ \E c \in Nat : c < 2 * bs /\ x = <<"block", c>>
      BY DEF Low
    <2>1. CASE \E v \in Nat : x = <<"value", v + vs>> /\ <<"value", v>> \in X
      <3>1. PICK v \in Nat : x = <<"value", v + vs>> /\ <<"value", v>> \in X
        BY <2>1
      <3>2. v + vs < 2 * vs /\ v + vs \in Nat \ {0}
        BY <1>0, <1>4, <3>1
      <3> QED BY <3>1, <3>2
    <2>2. CASE \E v \in Nat : x = <<"block", v + bs>> /\ <<"block", v>> \in X
      <3>1. PICK v \in Nat : x = <<"block", v + bs>> /\ <<"block", v>> \in X
        BY <2>2
      <3>2. v + bs < 2 * bs /\ v + bs \in Nat
        BY <1>0, <1>6, <3>1
      <3> QED BY <3>1, <3>2
    <2> QED BY <1>1, <2>1, <2>2
  <1> QED BY <1>8, <1>9, <1>10, <1>11, <1>12 DEF Z, W

(* A copied instruction claims what the original does, moved.              *)
LEMMA CloneInsFacts ==
  ASSUME NEW i, IsIns(i), NEW m, IsMap(m), NEW vs \in Nat, NEW bs \in Nat, NoResult \notin DOMAIN m,
         i.r # NoResult => i.r \in DOMAIN m /\ m[i.r] = i.r + vs /\ i.r + vs # NoResult
  PROVE  IsIns(CloneIns(i, m, bs)) /\ Claims(CloneIns(i, m, bs)) = Shift(Claims(i), vs, bs)
  <1> DEFINE x == Remap(i, m)
             y == CloneIns(i, m, bs)
             r == IF x.r \in DOMAIN m THEN m[x.r] ELSE x.r
             bb == [n \in DOMAIN x.b |-> x.b[n] + bs]
  <1>1. IsIns(x) /\ x.k = i.k /\ x.r = i.r /\ x.b = i.b
    BY RemapFacts
  <1>2. y = [x EXCEPT !.r = r, !.b = bb]
    BY DEF CloneIns
  <1>3. DOMAIN x = {"k", "f", "a", "b", "r"} /\ x.b \in Seq(Nat) /\ x.r \in Nat
    BY <1>1 DEF IsIns
  <1>4. r \in Nat
    BY <1>1, <1>3 DEF IsMap
  <1>5. bb \in Seq(Nat) /\ Len(bb) = Len(x.b) /\ ElemsOf(bb) = {c + bs : c \in ElemsOf(i.b)}
    <2> DEFINE s == x.b
               w == [n \in DOMAIN s |-> s[n] + bs]
    <2>1. s \in Seq(Nat) /\ s = i.b
      BY <1>1, <1>3
    <2>2. w = [n \in DOMAIN s |-> s[n] + bs] /\ bb = w
      OBVIOUS
    <2> HIDE DEF s, w, bb
    <2>3. Len(s) \in Nat /\ DOMAIN s = 1..Len(s) /\ \A n \in 1..Len(s) : s[n] + bs \in Nat
      BY <2>1
    <2>4. w \in [1..Len(s) -> Nat]
      BY <2>2, <2>3
    <2>5. w \in Seq(Nat) /\ Len(w) = Len(s)
      BY <2>3, <2>4, FunctionSeq
    <2>6. ElemsOf(w) = {c + bs : c \in ElemsOf(s)}
      BY <2>2 DEF ElemsOf
    <2> QED BY <2>1, <2>2, <2>5, <2>6 DEF s
  <1> HIDE DEF x, r, bb
  <1>6. /\ y.k = x.k /\ y.f = x.f /\ y.a = x.a /\ y.b = bb /\ y.r = r
        /\ DOMAIN y = {"k", "f", "a", "b", "r"}
    BY <1>2, <1>3
  <1> HIDE DEF y
  <1>7. IsIns(y)
    BY <1>1, <1>4, <1>5, <1>6 DEF IsIns
  <1>8. IF i.r = NoResult THEN r = NoResult ELSE r = i.r + vs /\ r # NoResult
    BY <1>1 DEF r
  <1>9. i.b \in Seq(Nat) /\ i.r \in Nat
    BY <1>1, <1>3
  <1>10. ElemsOf(i.b) \subseteq Nat
    BY <1>9, SeqFacts
  <1>11. Claims(y) \subseteq Shift(Claims(i), vs, bs)
    <2> SUFFICES ASSUME NEW e \in Claims(y) PROVE e \in Shift(Claims(i), vs, bs)
      OBVIOUS
    <2>1. CASE \E v : e = <<"value", v>>
      <3>1. e = <<"value", i.r + vs>> /\ i.r # NoResult
        BY <1>6, <1>8, <2>1, ClaimsOf
      <3>2. <<"value", i.r>> \in Claims(i)
        BY <3>1, ClaimsOf
      <3> QED BY <1>9, <3>1, <3>2 DEF Shift
    <2>2. CASE \E c : e = <<"block", c>>
      <3>1. PICK c : e = <<"block", c>> /\ c \in ElemsOf(bb)
        BY <1>6, <2>2, ClaimsOf
      <3>2. PICK d \in ElemsOf(i.b) : c = d + bs
        BY <1>5, <3>1
      <3>3. <<"block", d>> \in Claims(i) /\ d \in Nat
        BY <1>10, <3>2, ClaimsOf
      <3> QED BY <3>1, <3>2, <3>3 DEF Shift
    <2> QED BY <2>1, <2>2, ClaimsOf
  <1>12. Shift(Claims(i), vs, bs) \subseteq Claims(y)
    <2> SUFFICES ASSUME NEW e \in Shift(Claims(i), vs, bs) PROVE e \in Claims(y)
      OBVIOUS
    <2>1. CASE \E v \in Nat : e = <<"value", v + vs>> /\ <<"value", v>> \in Claims(i)
      <3>1. PICK v \in Nat : e = <<"value", v + vs>> /\ <<"value", v>> \in Claims(i)
        BY <2>1
      <3>2. v = i.r /\ v # NoResult
        BY <3>1, ClaimsOf
      <3>3. e = <<"value", y.r>> /\ y.r # NoResult
        BY <1>6, <1>8, <3>1, <3>2
      <3> QED BY <3>3, ClaimsOf
    <2>2. CASE \E c \in Nat : e = <<"block", c + bs>> /\ <<"block", c>> \in Claims(i)
      <3>1. PICK c \in Nat : e = <<"block", c + bs>> /\ <<"block", c>> \in Claims(i)
        BY <2>2
      <3>2. c \in ElemsOf(i.b)
        BY <3>1, ClaimsOf
      <3>3. c + bs \in ElemsOf(y.b)
        BY <1>5, <1>6, <3>2
      <3> QED BY <3>1, <3>3, ClaimsOf
    <2> QED BY <2>1, <2>2 DEF Shift
  <1> QED BY <1>7, <1>11, <1>12 DEF y

(* So does a copied block.                                                 *)
LEMMA CloneBlockFacts ==
  ASSUME NEW blk, Good(blk), NEW m, IsMap(m), NEW vs \in Nat \ {0}, NEW bs \in Nat,
         Low(Claimed(blk), vs, bs), NoResult \notin DOMAIN m,
         \A v \in Defs(blk) : v \in DOMAIN m /\ m[v] = v + vs,
         NEW new, new = [j \in DOMAIN blk |-> CloneIns(blk[j], m, bs)]
  PROVE  Good(new) /\ Claimed(new) = Shift(Claimed(blk), vs, bs)
  <1>1. Len(blk) \in Nat /\ DOMAIN blk = 1..Len(blk) /\ \A j \in DOMAIN blk : IsIns(blk[j]) /\ blk[j] \in ElemsOf(blk)
    BY GoodFacts
  <1>2. ASSUME NEW j \in DOMAIN blk
        PROVE  IsIns(new[j]) /\ Claims(new[j]) = Shift(Claims(blk[j]), vs, bs)
    <2> DEFINE i == blk[j]
    <2>1. IsIns(i) /\ i.r \in Nat
      BY <1>1, InsFacts
    <2>2. i.r # NoResult => i.r \in DOMAIN m /\ m[i.r] = i.r + vs /\ i.r + vs # NoResult
      <3> SUFFICES ASSUME i.r # NoResult PROVE i.r \in DOMAIN m /\ m[i.r] = i.r + vs /\ i.r + vs # NoResult
        OBVIOUS
      <3>1. i.r \in Defs(blk)
        BY <1>1 DEF Defs
      <3>2. i.r \in DOMAIN m /\ m[i.r] = i.r + vs
        BY <3>1
      <3>3. i.r + vs # NoResult
        BY <2>1 DEF NoResult
      <3> QED BY <3>2, <3>3
    <2>3. new[j] = CloneIns(i, m, bs)
      OBVIOUS
    <2>4. vs \in Nat
      OBVIOUS
    <2>5. IsIns(CloneIns(i, m, bs)) /\ Claims(CloneIns(i, m, bs)) = Shift(Claims(i), vs, bs)
      <3> HIDE DEF i
      <3> QED BY <2>1, <2>2, <2>4, CloneInsFacts
    <2> QED BY <2>3, <2>5
  <1>3. IsSeq(new) /\ DOMAIN new = DOMAIN blk
    BY <1>1, FunctionIsSeq
  <1>4. \A j \in DOMAIN blk : Claims(blk[j]) \subseteq Claimed(blk)
    BY ClaimedBy
  <1>5. \A j \in DOMAIN blk : Low(Claims(blk[j]), vs, bs)
    BY <1>4 DEF Low
  <1>6. Apart(new)
    <2> SUFFICES ASSUME NEW p \in DOMAIN blk, NEW q \in DOMAIN blk, p # q
                 PROVE  Claims(new[p]) \cap Claims(new[q]) = {}
      BY <1>3 DEF Apart
    <2> DEFINE X == Claims(blk[p])
               Y == Claims(blk[q])
    <2>1. X \cap Y = {} /\ Low(X, vs, bs) /\ Low(Y, vs, bs)
      BY <1>5 DEF Good, Apart
    <2>2. Claims(new[p]) = Shift(X, vs, bs) /\ Claims(new[q]) = Shift(Y, vs, bs)
      BY <1>2
    <2> HIDE DEF X, Y
    <2>3. Shift(X, vs, bs) \cap Shift(Y, vs, bs) = {}
      <3> HIDE <2>2
      <3> QED BY ONLY <2>1, ShiftFacts, vs \in Nat \ {0}, bs \in Nat
    <2> QED BY <2>2, <2>3
  <1>7. \A i \in ElemsOf(new) : IsIns(i)
    BY <1>2, <1>3 DEF ElemsOf
  <1>8. \A e : e \in Shift(Claimed(blk), vs, bs) <=> \E j \in DOMAIN blk : e \in Shift(Claims(blk[j]), vs, bs)
    <2> SUFFICES ASSUME NEW e
                 PROVE  e \in Shift(Claimed(blk), vs, bs) <=> \E j \in DOMAIN blk : e \in Shift(Claims(blk[j]), vs, bs)
      OBVIOUS
    <2> DEFINE V(X) == \E v \in Nat : e = <<"value", v + vs>> /\ <<"value", v>> \in X
               B(X) == \E c \in Nat : e = <<"block", c + bs>> /\ <<"block", c>> \in X
    <2>1. \A X : e \in Shift(X, vs, bs) <=> V(X) \/ B(X)
      BY DEF Shift
    <2>2. V(Claimed(blk)) <=> \E j \in DOMAIN blk : V(Claims(blk[j]))
      BY ClaimedBy
    <2>3. B(Claimed(blk)) <=> \E j \in DOMAIN blk : B(Claims(blk[j]))
      BY ClaimedBy
    <2> HIDE DEF V, B
    <2> QED BY <2>1, <2>2, <2>3
  <1>9. Claimed(new) = Shift(Claimed(blk), vs, bs)
    <2>1. \A e : e \in Claimed(new) <=> \E j \in DOMAIN blk : e \in Shift(Claims(blk[j]), vs, bs)
      BY <1>2, <1>3, ClaimedBy
    <2> QED BY <1>8, <2>1
  <1> QED BY <1>3, <1>6, <1>7, <1>9 DEF Good

(* Everything claimed in a kernel is below its next ids.                   *)
LEMMA LowFacts ==
  ASSUME NEW k, KInv(k), NEW vs, NEW bs, Below(k, vs, bs), NEW c \in DOMAIN k
  PROVE  Low(Claimed(k[c]), vs, bs)
  <1> SUFFICES ASSUME NEW x \in Claimed(k[c])
               PROVE  \/ \E v \in Nat \ {0} : v < vs /\ x = <<"value", v>>
                      \/ \E d \in Nat : d < bs /\ x = <<"block", d>>
    BY DEF Low
  <1>1. PICK j \in DOMAIN k[c] : x \in Claims(k[c][j])
    BY ClaimedBy
  <1>2. k[c][j].r \in Nat
    BY KernelFacts, GoodFacts, InsFacts
  <1>3. CASE \E v : x = <<"value", v>>
    <2>1. PICK v : x = <<"value", v>>
      BY <1>3
    <2>2. v \in Nat /\ v # 0
      BY <1>1, <1>2, <2>1, ClaimsOf DEF NoResult
    <2>3. v < vs
      BY <2>1 DEF Below
    <2> QED BY <2>1, <2>2, <2>3
  <1>4. CASE \E d : x = <<"block", d>>
    <2>1. PICK d : x = <<"block", d>>
      BY <1>4
    <2>2. d \in DOMAIN k
      BY <2>1 DEF KInv
    <2>3. d \in Nat /\ d < bs
      BY <2>2 DEF KInv, Below
    <2> QED BY <2>1, <2>3
  <1> QED BY <1>1, <1>3, <1>4, ClaimsOf

LEMMA ChildrenClaims ==
  ASSUME NEW k, NEW c
  PROVE  \A d : d \in Children(k, c) <=> <<"block", d>> \in Claimed(k[c])
  <1>1. \A i : \A d : <<"block", d>> \in Claims(i) <=> d \in ElemsOf(i.b)
    BY ClaimsOf
  <1> QED BY <1>1 DEF Children, Claimed

(* R is claimed by none of the blocks; P are the blocks that body owns, at *)
(* every depth; W2 is W grown by the copies of P, with body's own copy at  *)
(* the end of block b.                                                     *)
Spare(R, W, vs) ==
    /\ \A c \in DOMAIN W : R \cap Claimed(W[c]) = {}
    /\ \A v : <<"value", v>> \in R => v \in Nat /\ v < vs
    /\ \A c : <<"block", c>> \in R => c \in DOMAIN W
Owning(W, b, body, P) ==
    /\ b \in DOMAIN W /\ body \in DOMAIN W /\ b < body
    /\ P \in SUBSET DOMAIN W /\ \A c \in P : body < c
    /\ \A c \in P \cup {body} : \A d : <<"block", d>> \in Claimed(W[c]) => d \in P
Grown(W2, W, b, body, P, vs, bs) ==
    /\ \A x : x \in DOMAIN W2 <=> x \in DOMAIN W \/ \E c \in P : x = c + bs
    /\ Good(W2[b])
    /\ Claimed(W2[b]) = Claimed(W[b]) \cup {<<"value", vs>>} \cup Shift(Claimed(W[body]), vs, bs)
    /\ \A c \in P : Good(W2[c + bs]) /\ Claimed(W2[c + bs]) = Shift(Claimed(W[c]), vs, bs)
    /\ \A c \in DOMAIN W \ {b} : W2[c] = W[c]

LEMMA GrowKeeps ==
  ASSUME NEW W, KInv(W), NEW vs, NEW bs, Below(W, vs, bs), NEW b, NEW body, NEW P, Owning(W, b, body, P),
         NEW W2, Grown(W2, W, b, body, P, vs, bs), NEW R, Spare(R, W, vs)
  PROVE  KInv(W2) /\ Below(W2, 2 * vs, 2 * bs) /\ \A c \in DOMAIN W2 : R \cap Claimed(W2[c]) = {}
  <1>a. /\ b \in DOMAIN W /\ body \in DOMAIN W /\ b < body
        /\ P \in SUBSET DOMAIN W /\ \A c \in P : body < c
        /\ \A c \in P \cup {body} : \A d : <<"block", d>> \in Claimed(W[c]) => d \in P
    BY DEF Owning
  <1>b. /\ \A x : x \in DOMAIN W2 <=> x \in DOMAIN W \/ \E c \in P : x = c + bs
        /\ Good(W2[b])
        /\ Claimed(W2[b]) = Claimed(W[b]) \cup {<<"value", vs>>} \cup Shift(Claimed(W[body]), vs, bs)
        /\ \A c \in P : Good(W2[c + bs]) /\ Claimed(W2[c + bs]) = Shift(Claimed(W[c]), vs, bs)
        /\ \A c \in DOMAIN W \ {b} : W2[c] = W[c]
    BY DEF Grown
  <1>c. /\ \A c \in DOMAIN W : R \cap Claimed(W[c]) = {}
        /\ \A v : <<"value", v>> \in R => v \in Nat /\ v < vs
        /\ \A c : <<"block", c>> \in R => c \in DOMAIN W
    BY DEF Spare
  <1> USE <1>a, <1>b, <1>c
  <1> DEFINE Q == {c + bs : c \in P}
             new == <<"value", vs>>
             C(c) == Claimed(W[c])
             S(c) == Shift(Claimed(W[c]), vs, bs)
             Home(e, c) == \/ c \in DOMAIN W /\ e \in C(c)
                           \/ c = b /\ (e = new \/ e \in S(body))
                           \/ \E d \in P : c = d + bs /\ e \in S(d)
  <1>1. /\ vs \in Nat \ {0} /\ bs \in Nat /\ DOMAIN W \subseteq Nat
        /\ \A c \in DOMAIN W : c < bs
    BY DEF KInv, Below
  <1>2. ASSUME NEW c \in DOMAIN W2, c \notin DOMAIN W PROVE \E d \in P : c = d + bs
    BY <1>2
  <1>3. \A e : \A c \in DOMAIN W2 : e \in Claimed(W2[c]) => Home(e, c)
    <2> SUFFICES ASSUME NEW e, NEW c \in DOMAIN W2, e \in Claimed(W2[c]) PROVE Home(e, c)
      OBVIOUS
    <2>1. CASE c = b
      BY <2>1
    <2>2. CASE c \in DOMAIN W \ {b}
      BY <2>2
    <2>3. CASE c \notin DOMAIN W
      <3>1. PICK d \in P : c = d + bs
        BY <1>2, <2>3
      <3>2. e \in S(d)
        BY <3>1
      <3> QED BY <3>1, <3>2
    <2> QED BY <2>1, <2>2, <2>3
  <1>4. \A c \in DOMAIN W : Low(C(c), vs, bs)
    BY LowFacts
  <1>5. \A c, d \in DOMAIN W : c # d => C(c) \cap C(d) = {}
    BY DEF KInv
  <1>6. ASSUME NEW c \in DOMAIN W, NEW d \in DOMAIN W
        PROVE  (c # d => S(c) \cap S(d) = {}) /\ S(c) \cap C(d) = {} /\ new \notin S(c) /\ new \notin C(c)
    <2> DEFINE X == C(c)
               Y == C(d)
    <2>1. Low(X, vs, bs) /\ Low(Y, vs, bs) /\ (c # d => X \cap Y = {})
      BY <1>4, <1>5
    <2>2. Shift(X, vs, bs) = S(c) /\ Shift(Y, vs, bs) = S(d)
      OBVIOUS
    <2> HIDE DEF X, Y, S
    <2>3. /\ X \cap Y = {} => Shift(X, vs, bs) \cap Shift(Y, vs, bs) = {}
          /\ Shift(X, vs, bs) \cap Y = {}
          /\ new \notin Shift(X, vs, bs)
      BY <1>1, <2>1, ShiftFacts
    <2>4. new \notin X
      BY <1>1, <2>1, ShiftFacts
    <2>5. Shift(X, vs, bs) \cap Y = {} /\ (c # d => Shift(X, vs, bs) \cap Shift(Y, vs, bs) = {})
      BY <2>1, <2>3
    <2> QED BY <2>2, <2>3, <2>4, <2>5 DEF X, Y
  <1>7. ASSUME NEW e, NEW c, NEW d, Home(e, c), Home(e, d) PROVE c = d
    <2>0. \A h \in P : h \in DOMAIN W /\ h # body
      BY <1>1
    <2>1. CASE e = new
      <3>1. \A h \in DOMAIN W : e \notin C(h) /\ e \notin S(h)
        BY <1>6, <2>1
      <3> HIDE DEF C, S, new
      <3> QED BY <1>7, <2>0, <3>1
    <2>2. CASE \E h \in DOMAIN W : e \in C(h)
      <3>1. PICK h \in DOMAIN W : e \in C(h)
        BY <2>2
      <3>2. e # new /\ \A g \in DOMAIN W : e \notin S(g) /\ (e \in C(g) => g = h)
        <4> HIDE DEF C, S, new
        <4> QED BY <1>5, <1>6, <3>1
      <3> HIDE DEF C, S, new
      <3> QED BY <1>7, <2>0, <3>1, <3>2
    <2>3. CASE e # new /\ \A h \in DOMAIN W : e \notin C(h)
      <3> HIDE DEF C, S, new
      <3>1. \A g, h \in DOMAIN W : e \in S(g) /\ e \in S(h) => g = h
        BY <1>6
      <3>2. \/ c = b /\ e \in S(body)
            \/ \E h \in P : c = h + bs /\ e \in S(h)
        BY <1>7, <2>3
      <3>3. \/ d = b /\ e \in S(body)
            \/ \E h \in P : d = h + bs /\ e \in S(h)
        BY <1>7, <2>3
      <3> HIDE DEF Home
      <3> QED BY <2>0, <3>1, <3>2, <3>3
    <2> QED BY <2>1, <2>2, <2>3
  <1>8. \A x : <<"block", x>> # new
    OBVIOUS
  <1>9. ASSUME NEW c \in DOMAIN W2, NEW x, <<"block", x>> \in Claimed(W2[c])
        PROVE  x \in DOMAIN W2 /\ c < x
    <2> DEFINE e == <<"block", x>>
    <2>0. Home(e, c)
      BY <1>3, <1>9
    <2>1. CASE c \in DOMAIN W /\ e \in C(c)
      BY <2>1 DEF KInv
    <2>2. ASSUME NEW d \in P \cup {body}, e \in S(d) PROVE \E y \in P : x = y + bs /\ (d \in P => d < y)
      <3>1. PICK y \in Nat : e = <<"block", y + bs>> /\ <<"block", y>> \in C(d)
        BY <2>2 DEF Shift
      <3>2. y \in P /\ d < y
        BY <3>1 DEF KInv
      <3>3. x = y + bs
        BY <3>1
      <3> QED BY <3>2, <3>3
    <2>3. CASE c = b /\ e \in S(body)
      <3>1. PICK y \in P : x = y + bs
        BY <2>2, <2>3
      <3>2. b < y + bs
        BY <1>1
      <3> QED BY <2>3, <3>1, <3>2
    <2>4. CASE \E d \in P : c = d + bs /\ e \in S(d)
      <3>1. PICK d \in P : c = d + bs /\ e \in S(d)
        BY <2>4
      <3>2. PICK y \in P : x = y + bs /\ d < y
        BY <2>2, <3>1
      <3>3. d + bs < y + bs
        BY <1>1, <3>2
      <3> QED BY <3>1, <3>2, <3>3
    <2> HIDE DEF C, S
    <2> QED BY <1>8, <2>0, <2>1, <2>3, <2>4
  <1>10. \A c \in DOMAIN W2 : Good(W2[c])
    <2> SUFFICES ASSUME NEW c \in DOMAIN W2 PROVE Good(W2[c])
      OBVIOUS
    <2>1. CASE c = b
      BY <2>1
    <2>2. CASE c \in DOMAIN W \ {b}
      BY <2>2 DEF KInv
    <2>3. CASE c \notin DOMAIN W
      BY <1>2, <2>3
    <2> QED BY <2>1, <2>2, <2>3
  <1>11. IsFiniteSet(DOMAIN W2) /\ DOMAIN W2 \subseteq Nat /\ Body \in DOMAIN W2
    <2>1. IsFiniteSet(DOMAIN W) /\ Body \in DOMAIN W
      BY DEF KInv
    <2>2. IsFiniteSet(P)
      BY <2>1, FS_Subset
    <2> DEFINE f == [c \in P |-> c + bs]
    <2>3. {f[c] : c \in P} = Q
      OBVIOUS
    <2> HIDE DEF f
    <2>4. IsFiniteSet(Q)
      <3>1. IsFiniteSet({f[c] : c \in P})
        BY <2>2, FiniteImage
      <3> HIDE DEF Q
      <3> QED BY <2>3, <3>1
    <2>6. DOMAIN W2 = DOMAIN W \cup Q
      OBVIOUS
    <2>5. IsFiniteSet(DOMAIN W \cup Q)
      <3> HIDE DEF Q
      <3> QED BY <2>1, <2>4, FS_Union
    <2>7. DOMAIN W2 \subseteq Nat
      BY <1>1
    <2> QED BY <2>1, <2>5, <2>6, <2>7
  <1>12. KInv(W2)
    <2>1. \A c, d \in DOMAIN W2 : c # d => Claimed(W2[c]) \cap Claimed(W2[d]) = {}
      <3> HIDE DEF Home
      <3> QED BY <1>3, <1>7
    <2>2. \A c \in DOMAIN W2 : \A x : <<"block", x>> \in Claimed(W2[c]) => x \in DOMAIN W2 /\ c < x
      BY <1>9
    <2> QED BY <1>10, <1>11, <2>1, <2>2 DEF KInv
  <1>13. Below(W2, 2 * vs, 2 * bs)
    <2>0. 2 * vs \in Nat \ {0} /\ 2 * bs \in Nat /\ vs < 2 * vs
      BY <1>1
    <2>1. \A c \in DOMAIN W2 : c < 2 * bs
      <3> SUFFICES ASSUME NEW c \in DOMAIN W2 PROVE c < 2 * bs
        OBVIOUS
      <3>1. CASE c \in DOMAIN W
        BY <1>1, <3>1
      <3>2. CASE c \notin DOMAIN W
        <4>1. PICK d \in P : c = d + bs
          BY <1>2, <3>2
        <4>2. d \in Nat /\ d < bs
          BY <1>1
        <4> QED BY <1>1, <4>1, <4>2
      <3> QED BY <3>1, <3>2
    <2>2. ASSUME NEW c \in DOMAIN W2, NEW v, <<"value", v>> \in Claimed(W2[c]) PROVE v < 2 * vs
      <3> DEFINE e == <<"value", v>>
      <3>0. Home(e, c)
        BY <1>3, <2>2
      <3>1. ASSUME NEW d \in DOMAIN W, e \in C(d) \/ e \in S(d) PROVE v < 2 * vs
        <4> DEFINE X == C(d)
        <4>1. Low(X, vs, bs) /\ S(d) = Shift(X, vs, bs)
          BY <1>4
        <4> HIDE DEF X
        <4>2. Low(X, 2 * vs, 2 * bs) /\ Low(Shift(X, vs, bs), 2 * vs, 2 * bs)
          BY <1>1, <4>1, ShiftFacts
        <4>3. e \in X \/ e \in Shift(X, vs, bs)
          BY <3>1, <4>1 DEF X
        <4> QED BY <4>2, <4>3 DEF Low
      <3>2. CASE e = new
        BY <2>0, <3>2
      <3> HIDE DEF C, S, e, new
      <3> QED BY <3>0, <3>1, <3>2
    <2> QED BY <2>0, <2>1, <2>2 DEF Below
  <1>14. ASSUME NEW c \in DOMAIN W2, NEW e \in R, e \in Claimed(W2[c]) PROVE FALSE
    <2>0. Home(e, c)
      BY <1>3, <1>14
    <2>1. e \notin C(c) \/ c \notin DOMAIN W
      OBVIOUS
    <2>2. CASE e = new
      BY <1>1, <2>2
    <2>3. ASSUME NEW d, e \in S(d) PROVE FALSE
      <3>1. CASE \E v \in Nat : e = <<"value", v + vs>>
        <4>1. PICK v \in Nat : e = <<"value", v + vs>>
          BY <3>1
        <4>2. v + vs < vs
          BY <4>1
        <4> QED BY <1>1, <4>2
      <3>2. CASE \E x \in Nat : e = <<"block", x + bs>>
        <4>1. PICK x \in Nat : e = <<"block", x + bs>>
          BY <3>2
        <4>2. x + bs < bs
          BY <1>1, <4>1
        <4> QED BY <1>1, <4>2
      <3> QED BY <2>3, <3>1, <3>2 DEF Shift
    <2> HIDE DEF C, S, new
    <2> QED BY <2>0, <2>1, <2>2, <2>3
  <1> QED BY <1>12, <1>13, <1>14

(* The ids a copy of a block with results among S is renamed to.           *)
Fresh(S, f, vs) == [v \in S \cup {f} |-> IF v \in S THEN v + vs ELSE vs]
CopyOf(blk, m, bs) == [j \in DOMAIN blk |-> CloneIns(blk[j], m, bs)]

LEMMA CopyFacts ==
  ASSUME NEW vs \in Nat \ {0}, NEW bs \in Nat, NEW blk, Good(blk), Low(Claimed(blk), vs, bs),
         NEW S \in SUBSET (Nat \ {0}), Defs(blk) \subseteq S, NEW f \in Nat \ {0}
  PROVE  Good(CopyOf(blk, Fresh(S, f, vs), bs))
         /\ Claimed(CopyOf(blk, Fresh(S, f, vs), bs)) = Shift(Claimed(blk), vs, bs)
  <1> DEFINE m == Fresh(S, f, vs)
             new == CopyOf(blk, m, bs)
  <1>1. IsMap(m) /\ NoResult \notin DOMAIN m
    BY DEF Fresh, IsMap, NoResult
  <1>2. \A v \in Defs(blk) : v \in DOMAIN m /\ m[v] = v + vs
    BY DEF Fresh
  <1>3. new = [j \in DOMAIN blk |-> CloneIns(blk[j], m, bs)]
    BY DEF CopyOf
  <1> HIDE DEF m, new
  <1>4. Good(new) /\ Claimed(new) = Shift(Claimed(blk), vs, bs)
    BY <1>1, <1>2, <1>3, CloneBlockFacts
  <1> QED BY <1>4 DEF new, m

LEMMA DefsFacts ==
  ASSUME NEW blk, Good(blk)
  PROVE  Defs(blk) \subseteq Nat \ {0}
  <1>1. \A i \in ElemsOf(blk) : i.r \in Nat
    BY GoodFacts, InsFacts
  <1> QED BY <1>1 DEF Defs, NoResult

(* A loop with literal start and step, whose body nothing else owns.       *)
Counted(blk, i, R) ==
    /\ <<"block", i.b[1]>> \in R /\ i.f \in Nat \ {0}
    /\ Consts(blk, i.a[1]) # {} /\ Consts(blk, i.a[3]) # {}

(* One iteration more: its literal, the copy of the body and the copies of *)
(* the blocks the body owns claim only what is new.                        *)
LEMMA CloneIterationKeeps ==
  ASSUME NEW st, NEW b, NEW R, Room(st, b, R), Good(st.blk), NEW i, NEW n \in Int,
         Counted(st.blk, i, R)
  PROVE  Room(CloneIteration(st, i, n), b, R) /\ CloneIteration(st, i, n).blk = st.blk
  <1> DEFINE k == st.k
             vs == st.vs
             bs == st.bs
             out == st.out
             body == i.b[1]
             f == i.f
             W == With(k, b, out)
             P == Owned(k, body)
             start == CHOOSE s \in Consts(st.blk, i.a[1]) : TRUE
             step == CHOOSE d \in Consts(st.blk, i.a[3]) : TRUE
             lit == Literal(start + n * step, vs)
             D == Defs(k[body])
             copies == {c + bs : c \in P}
             k2 == [c \in DOMAIN k \cup copies |->
                      IF c \in copies THEN CopyOf(k[c - bs], Fresh(D \cup Defs(k[c - bs]), f, vs), bs)
                      ELSE k[c]]
             out2 == out \o <<lit>> \o CopyOf(k[body], Fresh(D, f, vs), bs)
             st2 == CloneIteration(st, i, n)
             W2 == With(k2, b, out2)
  <1>0. /\ <<"block", body>> \in R /\ f \in Nat \ {0}
        /\ Consts(st.blk, i.a[1]) # {} /\ Consts(st.blk, i.a[3]) # {}
    BY DEF Counted
  <1>1. st2 = [st EXCEPT !.k = k2, !.out = out2, !.vs = 2 * vs, !.bs = 2 * bs]
    BY DEF CloneIteration, Fresh, CopyOf
  <1>2. DOMAIN st = UnrollState /\ b \in DOMAIN k /\ KInv(W) /\ Below(W, vs, bs)
        /\ (\A c \in DOMAIN k : R \cap Claimed(W[c]) = {})
        /\ (\A v : <<"value", v>> \in R => v \in Nat /\ v < vs)
        /\ (\A c : <<"block", c>> \in R => c \in DOMAIN k /\ b < c)
    BY DEF Room
  <1>3. st2.k = k2 /\ st2.out = out2 /\ st2.vs = 2 * vs /\ st2.bs = 2 * bs /\ st2.blk = st.blk
        /\ DOMAIN st2 = UnrollState
    BY <1>1, <1>2 DEF UnrollState
  <1> HIDE DEF st2
  <1>4. start \in Int /\ step \in Int
    <2>1. Consts(st.blk, i.a[1]) \subseteq Int /\ Consts(st.blk, i.a[3]) \subseteq Int
      BY ConstsInt
    <2>2. start \in Consts(st.blk, i.a[1]) /\ step \in Consts(st.blk, i.a[3])
      BY <1>0
    <2> QED BY <2>1, <2>2
  <1>5. f \in Nat \ {0} /\ body \in DOMAIN k /\ b < body
    BY <1>0, <1>2
  <1> HIDE DEF start, step, f, body
  <1>6. DOMAIN W = DOMAIN k /\ W[b] = out /\ \A c \in DOMAIN k : c # b => W[c] = k[c]
    BY <1>2 DEF With
  <1>7. DOMAIN k \subseteq Nat /\ vs \in Nat \ {0} /\ bs \in Nat /\ \A c \in DOMAIN k : c < bs
    BY <1>2, <1>6 DEF KInv, Below
  <1>8. ASSUME NEW c \in DOMAIN k, b < c
        PROVE  W[c] = k[c] /\ Good(k[c]) /\ Low(Claimed(k[c]), vs, bs)
               /\ \A d \in Children(k, c) : d \in DOMAIN k /\ c < d
    <2>1. c # b
      BY <1>2, <1>7, <1>8
    <2>2. W[c] = k[c]
      BY <1>6, <2>1
    <2>3. Good(W[c]) /\ \A d : <<"block", d>> \in Claimed(W[c]) => d \in DOMAIN W /\ c < d
      BY <1>2, <1>6 DEF KInv
    <2>4. Low(Claimed(W[c]), vs, bs)
      <3> HIDE DEF W, k, vs, bs
      <3> QED BY <1>2, <1>6, LowFacts
    <2> HIDE DEF W, k, vs, bs
    <2> QED BY <1>6, <2>2, <2>3, <2>4, ChildrenClaims
  <1> HIDE DEF W, k, vs, bs, out
  <1>9. /\ \A c \in P : c \in DOMAIN k /\ body < c
        /\ \A c \in P \cup {body} : Children(k, c) \cap DOMAIN k \subseteq P
    <2>1. \A c \in DOMAIN k : body <= c => \A d \in Children(k, c) : c < d
      <3> SUFFICES ASSUME NEW c \in DOMAIN k, body <= c PROVE \A d \in Children(k, c) : c < d
        OBVIOUS
      <3>1. b < c
        BY <1>2, <1>5, <1>7
      <3> QED BY <1>8, <3>1
    <2> HIDE DEF P
    <2> QED BY <1>5, <1>7, <2>1, OwnedFacts DEF P
  <1> HIDE DEF P
  <1>10. ASSUME NEW c \in P \cup {body}
         PROVE  c \in DOMAIN k /\ W[c] = k[c] /\ Good(k[c]) /\ Low(Claimed(k[c]), vs, bs)
                /\ \A d : <<"block", d>> \in Claimed(W[c]) => d \in P
    <2>1. c \in DOMAIN k /\ b < c
      BY <1>2, <1>5, <1>7, <1>9
    <2>2. W[c] = k[c] /\ Good(k[c]) /\ Low(Claimed(k[c]), vs, bs)
          /\ \A d \in Children(k, c) : d \in DOMAIN k /\ c < d
      BY <1>8, <2>1
    <2>3. \A d \in Children(k, c) : d \in P
      BY <1>9, <2>2
    <2> QED BY <2>1, <2>2, <2>3, ChildrenClaims
  <1>11. ASSUME NEW c \in P \cup {body}, NEW S \in SUBSET (Nat \ {0}), Defs(k[c]) \subseteq S
         PROVE  Good(CopyOf(k[c], Fresh(S, f, vs), bs))
                /\ Claimed(CopyOf(k[c], Fresh(S, f, vs), bs)) = Shift(Claimed(W[c]), vs, bs)
    <2> DEFINE x == k[c]
    <2>1. Good(x) /\ Low(Claimed(x), vs, bs) /\ W[c] = x /\ Defs(x) \subseteq S
      BY <1>10, <1>11
    <2> HIDE DEF x
    <2>2. Good(CopyOf(x, Fresh(S, f, vs), bs))
          /\ Claimed(CopyOf(x, Fresh(S, f, vs), bs)) = Shift(Claimed(x), vs, bs)
      BY <1>5, <1>7, <2>1, CopyFacts
    <2> QED BY <2>1, <2>2 DEF x
  <1>12. \A c \in P \cup {body} : Defs(k[c]) \subseteq Nat \ {0}
    BY <1>10, DefsFacts
  <1>13. D \in SUBSET (Nat \ {0}) /\ D = Defs(k[body])
    BY <1>12
  <1>14. b \notin copies
    <2>1. \A c \in P : ~(c + bs < bs)
      BY <1>7, <1>9
    <2> QED BY <1>2, <1>7, <2>1
  <1>15. DOMAIN W2 = DOMAIN W \cup {c + bs : c \in P} /\ W2[b] = out2
         /\ \A c \in DOMAIN W \ {b} : W2[c] = W[c]
    <2>1. DOMAIN k2 = DOMAIN k \cup copies
      OBVIOUS
    <2>2. \A c \in DOMAIN k : c \notin copies
      <3>1. \A c \in P : ~(c + bs < bs)
        BY <1>7, <1>9
      <3> QED BY <1>7, <3>1
    <2>3. \A c \in DOMAIN k : k2[c] = k[c]
      BY <2>2
    <2> HIDE DEF k2, out2
    <2>4. DOMAIN W2 = DOMAIN k \cup copies /\ W2[b] = out2 /\ \A c \in DOMAIN k : c # b => W2[c] = k2[c]
      BY <1>2, <2>1 DEF With
    <2> QED BY <1>6, <2>3, <2>4
  <1>16. \A c \in P : Good(W2[c + bs]) /\ Claimed(W2[c + bs]) = Shift(Claimed(W[c]), vs, bs)
    <2> SUFFICES ASSUME NEW c \in P
                 PROVE  Good(W2[c + bs]) /\ Claimed(W2[c + bs]) = Shift(Claimed(W[c]), vs, bs)
      OBVIOUS
    <2> DEFINE S == D \cup Defs(k[c])
    <2>1. c + bs \in copies /\ (c + bs) - bs = c /\ c + bs # b
      BY <1>7, <1>9, <1>14
    <2>2. k2[c + bs] = CopyOf(k[c], Fresh(S, f, vs), bs)
      BY <2>1
    <2>3. S \in SUBSET (Nat \ {0}) /\ Defs(k[c]) \subseteq S
      BY <1>12, <1>13
    <2>4. c + bs \in DOMAIN k2
      BY <2>1
    <2> HIDE DEF S, k2, D, copies
    <2>5. W2[c + bs] = k2[c + bs]
      BY <2>1, <2>4 DEF With
    <2>6. Good(CopyOf(k[c], Fresh(S, f, vs), bs))
          /\ Claimed(CopyOf(k[c], Fresh(S, f, vs), bs)) = Shift(Claimed(W[c]), vs, bs)
      BY <1>11, <2>3
    <2> QED BY <2>2, <2>5, <2>6
  <1> DEFINE copy == CopyOf(k[body], Fresh(D, f, vs), bs)
  <1>17. Good(copy) /\ Claimed(copy) = Shift(Claimed(W[body]), vs, bs)
    <2> HIDE DEF D
    <2> QED BY <1>11, <1>13
  <1>18. Good(<<lit>>) /\ Claimed(<<lit>>) = {<<"value", vs>>}
    <2> DEFINE c == start + n * step
    <2>1. c \in Int /\ vs \in Nat /\ vs # NoResult
      BY <1>4, <1>7 DEF NoResult
    <2> HIDE DEF c
    <2>2. IsIns(Literal(c, vs)) /\ Claims(Literal(c, vs)) = {"value"} \X ({vs} \ {NoResult})
      BY <2>1, LiteralFacts
    <2>3. IsIns(lit) /\ Claims(lit) = {<<"value", vs>>}
      BY <2>1, <2>2 DEF c
    <2> HIDE DEF lit
    <2> QED BY <2>3, OneIsGood
  <1>19. Good(out2) /\ Claimed(out2) = Claimed(W[b]) \cup {<<"value", vs>>} \cup Shift(Claimed(W[body]), vs, bs)
    <2> DEFINE one == <<lit>>
               X == Claimed(W[b])
               Y == Claimed(W[body])
    <2>1. Low(X, vs, bs) /\ Low(Y, vs, bs)
      <3> HIDE DEF X, Y
      <3> QED BY <1>2, <1>5, <1>6, LowFacts DEF X, Y
    <2>2. Shift(Y, vs, bs) \cap X = {} /\ <<"value", vs>> \notin Shift(Y, vs, bs) /\ <<"value", vs>> \notin X
      <3> HIDE DEF X, Y
      <3> QED BY <1>7, <2>1, ShiftFacts
    <2>3. Good(one) /\ Claimed(one) = {<<"value", vs>>}
      BY <1>18
    <2>4. Good(out) /\ Claimed(out) = X
      BY <1>2, <1>6 DEF KInv
    <2>5. Good(copy) /\ Claimed(copy) = Shift(Y, vs, bs)
      BY <1>17
    <2>6. out2 = (out \o one) \o copy
      OBVIOUS
    <2> HIDE DEF one, X, Y, copy, out2, lit
    <2>7. IsSeq(out) /\ IsSeq(one) /\ IsSeq(copy)
      BY <2>3, <2>4, <2>5 DEF Good
    <2>8. Good(out \o one) /\ Claimed(out \o one) = X \cup {<<"value", vs>>}
      BY <2>2, <2>3, <2>4, <2>7, ConcatApart
    <2> DEFINE both == out \o one
    <2>9. IsSeq(both) /\ Good(both) /\ Claimed(both) = X \cup {<<"value", vs>>}
      BY <2>8 DEF Good
    <2> HIDE DEF both
    <2>10. Claimed(both) \cap Claimed(copy) = {}
      BY <2>2, <2>5, <2>9
    <2>11. Good(both \o copy) /\ Claimed(both \o copy) = X \cup {<<"value", vs>>} \cup Shift(Y, vs, bs)
      BY <2>5, <2>7, <2>9, <2>10, ConcatApart
    <2> QED BY <2>6, <2>11 DEF both, X, Y
  <1> HIDE DEF k2, out2, copies, D, lit, copy
  <1>20. b \in DOMAIN W /\ body \in DOMAIN W /\ P \in SUBSET DOMAIN W /\ \A c \in P : body < c
    BY <1>2, <1>5, <1>6, <1>9
  <1>21. \A c \in P \cup {body} : \A d : <<"block", d>> \in Claimed(W[c]) => d \in P
    BY <1>10
  <1>22. Good(W2[b])
         /\ Claimed(W2[b]) = Claimed(W[b]) \cup {<<"value", vs>>} \cup Shift(Claimed(W[body]), vs, bs)
    BY <1>15, <1>19
  <1>23. DOMAIN k2 = DOMAIN W2
    BY DEF With
  <1> HIDE DEF W2
  <1>24. KInv(W2) /\ Below(W2, 2 * vs, 2 * bs) /\ \A c \in DOMAIN W2 : R \cap Claimed(W2[c]) = {}
    <2>1. KInv(W) /\ Below(W, vs, bs)
      BY <1>2
    <2>2. Spare(R, W, vs)
      BY <1>2, <1>6 DEF Spare
    <2>3. Owning(W, b, body, P)
      BY <1>5, <1>20, <1>21 DEF Owning
    <2>4. Grown(W2, W, b, body, P, vs, bs)
      BY <1>15, <1>16, <1>22 DEF Grown
    <2> QED BY <2>1, <2>2, <2>3, <2>4, GrowKeeps
  <1>25. \A v : <<"value", v>> \in R => v \in Nat /\ v < 2 * vs
    <2>1. \A v \in Nat : v < vs => v < 2 * vs
      BY <1>7
    <2> QED BY <1>2, <2>1
  <1>26. \A c : <<"block", c>> \in R => c \in DOMAIN k2 /\ b < c
    BY <1>2, <1>6, <1>15, <1>23
  <1>27. b \in DOMAIN k2
    BY <1>15, <1>20, <1>23
  <1>28. W2 = With(st2.k, b, st2.out) /\ DOMAIN W2 = DOMAIN st2.k
    BY <1>3, <1>23 DEF W2
  <1>29. Room(st2, b, R)
    BY <1>3, <1>23, <1>24, <1>25, <1>26, <1>27, <1>28 DEF Room
  <1> QED BY <1>3, <1>29 DEF st2

(* All the iterations of a loop.                                           *)
LEMMA IterationsKeep ==
  ASSUME NEW st, NEW b, NEW R, Room(st, b, R), Good(st.blk), NEW i, NEW trips \in Int,
         Counted(st.blk, i, R)
  PROVE  Room(Iterations(st, i, trips), b, R) /\ Iterations(st, i, trips).blk = st.blk
  <1> DEFINE blk == st.blk
             s == Count(trips)
             t == <<"iteration", i, b, R, blk>>
  <1>1. IsSeq(s) /\ \A h \in DOMAIN s : s[h] \in 1..trips
    BY CountFacts
  <1>2. s = Count(trips) /\ st.blk = blk
    OBVIOUS
  <1> HIDE DEF s
  <1>3. PICK f : FoldsTo(f, t, st, s, DOMAIN s) /\ Iterations(st, i, trips) = f[DOMAIN s]
    BY <1>1, <1>2, IterationFold
  <1>4. \A n, z : (Holds(t, n, z) <=> Room(z, b, R) /\ z.blk = blk)
                  /\ \A e : Turn(t, z, e) = CloneIteration(z, i, e - 1)
    BY DEF Holds, Turn
  <1> HIDE DEF t
  <1>5. Holds(t, 0, st)
    BY <1>2, <1>4
  <1>6. ASSUME NEW n \in 1..Len(s), NEW z, Holds(t, n - 1, z) PROVE Holds(t, n, Turn(t, z, s[n]))
    <2> DEFINE e == s[n]
    <2>1. e \in Int /\ e - 1 \in Int
      BY <1>1, SeqFacts
    <2> HIDE DEF e
    <2>2. Room(z, b, R) /\ z.blk = blk
      BY <1>4, <1>6
    <2>3. Good(z.blk) /\ Counted(z.blk, i, R)
      BY <2>2
    <2> DEFINE h == e - 1
    <2>4. h \in Int
      BY <2>1
    <2>5. Turn(t, z, e) = CloneIteration(z, i, h)
      BY <1>4
    <2> HIDE DEF h
    <2>6. Room(CloneIteration(z, i, h), b, R) /\ CloneIteration(z, i, h).blk = z.blk
      BY <2>2, <2>3, <2>4, CloneIterationKeeps
    <2>7. Holds(t, n, Turn(t, z, e))
      BY <1>4, <2>2, <2>5, <2>6
    <2> QED BY <2>7 DEF e
  <1>7. Holds(t, Len(s), f[DOMAIN s])
    BY <1>1, <1>3, <1>5, <1>6, FoldKeeps
  <1> QED BY <1>3, <1>4, <1>7

(* What is still to come after n instructions, one more taken.             *)
LEMMA RestFacts ==
  ASSUME NEW blk, Good(blk)
  PROVE  /\ Rest(blk, 0) = Claimed(blk) /\ Rest(blk, Len(blk)) = {}
         /\ \A n \in 1..Len(blk) :
              /\ Rest(blk, n - 1) = Claims(blk[n]) \cup Rest(blk, n)
              /\ Claims(blk[n]) \cap Rest(blk, n) = {}
  <1>1. Len(blk) \in Nat /\ DOMAIN blk = 1..Len(blk)
    BY GoodFacts
  <1>2. Rest(blk, 0) = Claimed(blk)
    <2>1. \A x : x \in Rest(blk, 0) <=> \E j \in DOMAIN blk : x \in Claims(blk[j])
      BY <1>1 DEF Rest
    <2> QED BY <2>1, ClaimedBy
  <1>3. Rest(blk, Len(blk)) = {}
    <2>1. (Len(blk) + 1)..Len(blk) = {}
      BY <1>1
    <2> QED BY <2>1 DEF Rest
  <1>4. ASSUME NEW n \in 1..Len(blk)
        PROVE  Rest(blk, n - 1) = Claims(blk[n]) \cup Rest(blk, n) /\ Claims(blk[n]) \cap Rest(blk, n) = {}
    <2>1. ((n - 1) + 1)..Len(blk) = {n} \cup ((n + 1)..Len(blk))
      BY <1>1
    <2>2. \A q \in (n + 1)..Len(blk) : q \in DOMAIN blk /\ n \in DOMAIN blk /\ n # q
      BY <1>1
    <2>3. \A q \in (n + 1)..Len(blk) : Claims(blk[n]) \cap Claims(blk[q]) = {}
      BY <2>2 DEF Good, Apart
    <2>4. Rest(blk, n - 1) = Claims(blk[n]) \cup Rest(blk, n)
      BY <2>1 DEF Rest
    <2>5. Claims(blk[n]) \cap Rest(blk, n) = {}
      BY <2>3 DEF Rest
    <2> QED BY <2>4, <2>5
  <1> QED BY <1>2, <1>3, <1>4

(* An instruction is kept, or a loop is replaced by its iterations; no     *)
(* other instruction owns the body that goes.                              *)
LEMMA UnrollInsKeeps ==
  ASSUME NEW blk, Good(blk), NEW st, NEW b, NEW n \in 1..Len(blk),
         Room(st, b, Rest(blk, n - 1)), st.blk = blk
  PROVE  Room(UnrollIns(st, blk[n]), b, Rest(blk, n)) /\ UnrollIns(st, blk[n]).blk = blk
  <1> DEFINE i == blk[n]
             R == Rest(blk, n - 1)
             R2 == Rest(blk, n)
             st2 == UnrollIns(st, i)
  <1>1. R = Claims(i) \cup R2 /\ Claims(i) \cap R2 = {}
    BY RestFacts
  <1>2. IsIns(i) /\ i \in ElemsOf(blk)
    BY GoodFacts
  <1>3. Room(st, b, R)
    OBVIOUS
  <1> HIDE DEF R, R2, i
  <1>4. CASE ~Unrollable(st.k, blk, i)
    <2> DEFINE W == With(st.k, b, st.out)
               out2 == Append(st.out, i)
               W2 == With(st.k, b, out2)
    <2>1. st2 = [st EXCEPT !.out = out2]
      BY <1>4 DEF UnrollIns
    <2>2. /\ DOMAIN st = UnrollState /\ b \in DOMAIN st.k /\ KInv(W) /\ Below(W, st.vs, st.bs)
          /\ \A c \in DOMAIN st.k : R \cap Claimed(W[c]) = {}
          /\ \A v : <<"value", v>> \in R => v \in Nat /\ v < st.vs
          /\ \A c : <<"block", c>> \in R => c \in DOMAIN st.k /\ b < c
      BY <1>3 DEF Room
    <2>3. DOMAIN st2 = UnrollState /\ st2.out = out2 /\ st2.k = st.k /\ st2.vs = st.vs /\ st2.bs = st.bs
          /\ st2.blk = st.blk
      BY <2>1, <2>2 DEF UnrollState
    <2> HIDE DEF st2
    <2>4. /\ DOMAIN W = DOMAIN st.k /\ W[b] = st.out /\ DOMAIN W2 = DOMAIN st.k /\ W2[b] = out2
          /\ \A c \in DOMAIN st.k : c # b => W2[c] = W[c]
      BY <2>2 DEF With
    <2>5. Good(st.out)
      BY <2>2, <2>4 DEF KInv
    <2>6. Good(<<i>>) /\ Claimed(<<i>>) = Claims(i) /\ IsSeq(<<i>>)
      BY <1>2, OneIsGood
    <2>7. Claimed(st.out) \cap Claims(i) = {}
      BY <1>1, <2>2, <2>4
    <2>8. out2 = st.out \o <<i>>
      BY <2>5, AppendFacts DEF Good
    <2>9. Good(out2) /\ Claimed(out2) = Claimed(st.out) \cup Claims(i)
      <3> DEFINE one == <<i>>
                 out == st.out
      <3>1. Good(one) /\ Claimed(one) = Claims(i) /\ IsSeq(one) /\ Good(out) /\ IsSeq(out)
            /\ Claimed(out) \cap Claims(i) = {} /\ out2 = out \o one
        BY <2>5, <2>6, <2>7, <2>8 DEF Good
      <3> HIDE DEF one, out, out2
      <3>2. Good(out \o one) /\ Claimed(out \o one) = Claimed(out) \cup Claims(i)
        BY <3>1, ConcatApart
      <3> QED BY <3>1, <3>2 DEF out
    <2> HIDE DEF W, W2, out2
    <2>10. \A c \in DOMAIN W2 : Claimed(W2[c]) \subseteq Claimed(W[c]) \cup (IF c = b THEN Claims(i) ELSE {})
      BY <2>4, <2>9
    <2>11. \A x \in Claims(i) : \A c \in DOMAIN W : x \notin Claimed(W[c])
      BY <1>1, <2>2, <2>4
    <2>12. KInv(W2)
      <3>1. IsFiniteSet(DOMAIN W2) /\ DOMAIN W2 \subseteq Nat /\ Body \in DOMAIN W2
        BY <2>2, <2>4 DEF KInv
      <3>2. \A c \in DOMAIN W2 : Good(W2[c])
        BY <2>2, <2>4, <2>9 DEF KInv
      <3>3. ASSUME NEW c \in DOMAIN W2, NEW d \in DOMAIN W2, c # d
            PROVE  Claimed(W2[c]) \cap Claimed(W2[d]) = {}
        <4>1. Claimed(W[c]) \cap Claimed(W[d]) = {}
          BY <2>2, <2>4, <3>3 DEF KInv
        <4> QED BY <2>4, <2>10, <2>11, <3>3, <4>1
      <3>4. ASSUME NEW c \in DOMAIN W2, NEW x, <<"block", x>> \in Claimed(W2[c])
            PROVE  x \in DOMAIN W2 /\ c < x
        <4>1. CASE <<"block", x>> \in Claimed(W[c])
          BY <2>2, <2>4, <4>1 DEF KInv
        <4>2. CASE c = b /\ <<"block", x>> \in Claims(i)
          BY <1>1, <2>2, <2>4, <4>2
        <4> QED BY <2>10, <3>4, <4>1, <4>2
      <3> QED BY <3>1, <3>2, <3>3, <3>4 DEF KInv
    <2>13. Below(W2, st.vs, st.bs)
      <3>1. ASSUME NEW c \in DOMAIN W2, NEW v, <<"value", v>> \in Claimed(W2[c]) PROVE v < st.vs
        <4>1. CASE <<"value", v>> \in Claimed(W[c])
          BY <2>2, <2>4, <4>1 DEF Below
        <4>2. CASE <<"value", v>> \in Claims(i)
          BY <1>1, <2>2, <4>2
        <4> QED BY <2>10, <3>1, <4>1, <4>2
      <3> QED BY <2>2, <2>4, <3>1 DEF Below
    <2>14. \A c \in DOMAIN st.k : R2 \cap Claimed(W2[c]) = {}
      BY <1>1, <2>2, <2>4, <2>10
    <2>15. Room(st2, b, R2)
      <3>1. W2 = With(st2.k, b, st2.out)
        BY <2>3 DEF W2
      <3>2. /\ \A v : <<"value", v>> \in R2 => v \in Nat /\ v < st.vs
            /\ \A c : <<"block", c>> \in R2 => c \in DOMAIN st.k /\ b < c
        BY <1>1, <2>2
      <3> QED BY <2>2, <2>3, <2>12, <2>13, <2>14, <3>1, <3>2 DEF Room
    <2> QED BY <2>3, <2>15 DEF st2, i, R2
  <1>5. CASE Unrollable(st.k, blk, i)
    <2> DEFINE trips == CHOOSE m \in TripCount(blk, i) : TRUE
               it == Iterations(st, i, trips)
               body == i.b[1]
               k2 == [c \in DOMAIN it.k \ {body} |-> it.k[c]]
               W == With(it.k, b, it.out)
               W2 == With(k2, b, it.out)
    <2>1. st2 = [it EXCEPT !.k = k2]
      BY <1>5 DEF UnrollIns
    <2>2. i.k = "Loop" /\ TripCount(blk, i) # {}
      BY <1>5 DEF Unrollable, IsLoop
    <2>3. Consts(blk, i.a[1]) # {} /\ Consts(blk, i.a[3]) # {}
      BY <2>2 DEF TripCount
    <2>4. trips \in Int
      <3>1. Consts(blk, i.a[1]) \subseteq Int /\ Consts(blk, i.a[2]) \subseteq Int /\ Consts(blk, i.a[3]) \subseteq Int
        BY ConstsInt
      <3>2. TripCount(blk, i) \subseteq Int
        BY <3>1 DEF TripCount
      <3> QED BY <2>2, <3>2
    <2> HIDE DEF trips
    <2>5. i.f \in Nat \ {0} /\ body \in ElemsOf(i.b)
      BY <1>2, <2>2, InsFacts DEF NoResult
    <2>6. <<"block", body>> \in Claims(i)
      BY <2>5, ClaimsOf
    <2>7. Room(it, b, R) /\ it.blk = blk
      <3>1. Good(st.blk) /\ Counted(st.blk, i, R)
        BY <1>1, <2>3, <2>5, <2>6 DEF Counted
      <3>2. Room(Iterations(st, i, trips), b, R) /\ Iterations(st, i, trips).blk = st.blk
        BY <1>3, <2>4, <3>1, IterationsKeep
      <3> QED BY <3>2 DEF it
    <2> HIDE DEF it, body
    <2>8. /\ DOMAIN it = UnrollState /\ b \in DOMAIN it.k /\ KInv(W) /\ Below(W, it.vs, it.bs)
          /\ \A c \in DOMAIN it.k : R \cap Claimed(W[c]) = {}
          /\ \A v : <<"value", v>> \in R => v \in Nat /\ v < it.vs
          /\ \A c : <<"block", c>> \in R => c \in DOMAIN it.k /\ b < c
      BY <2>7 DEF Room
    <2>9. st2.k = k2 /\ st2.out = it.out /\ st2.vs = it.vs /\ st2.bs = it.bs /\ st2.blk = it.blk
          /\ DOMAIN st2 = UnrollState
      BY <2>1, <2>8 DEF UnrollState
    <2> HIDE DEF st2
    <2>10. DOMAIN W = DOMAIN it.k /\ DOMAIN W2 = DOMAIN it.k \ {body} /\ \A c \in DOMAIN W2 : W2[c] = W[c]
      BY DEF With
    <2> HIDE DEF W, W2, k2
    <2>11. <<"block", body>> \in R /\ <<"block", body>> \notin R2
      BY <1>1, <2>6
    <2>12. body \in DOMAIN it.k /\ b < body /\ DOMAIN it.k \subseteq Nat /\ Body \in DOMAIN it.k
      BY <2>8, <2>10, <2>11 DEF KInv
    <2>13. body # b /\ body # Body
      BY <2>8, <2>12 DEF Body
    <2>14. \A c \in DOMAIN W : <<"block", body>> \notin Claimed(W[c])
      BY <2>8, <2>10, <2>11
    <2>15. KInv(W2)
      <3>1. IsFiniteSet(DOMAIN W2)
        <4>1. IsFiniteSet(DOMAIN W) /\ DOMAIN W2 \subseteq DOMAIN W
          BY <2>8, <2>10 DEF KInv
        <4> QED BY <4>1, FS_Subset
      <3>2. DOMAIN W2 \subseteq Nat /\ Body \in DOMAIN W2
        BY <2>10, <2>12, <2>13
      <3>3. \A c \in DOMAIN W2 : Good(W2[c])
        BY <2>8, <2>10 DEF KInv
      <3>4. \A c, d \in DOMAIN W2 : c # d => Claimed(W2[c]) \cap Claimed(W2[d]) = {}
        BY <2>8, <2>10 DEF KInv
      <3>5. \A c \in DOMAIN W2 : \A x : <<"block", x>> \in Claimed(W2[c]) => x \in DOMAIN W2 /\ c < x
        BY <2>8, <2>10, <2>14 DEF KInv
      <3> QED BY <3>1, <3>2, <3>3, <3>4, <3>5 DEF KInv
    <2>16. Below(W2, it.vs, it.bs)
      BY <2>8, <2>10 DEF Below
    <2>17. DOMAIN k2 = DOMAIN it.k \ {body}
      BY DEF k2
    <2>18. \A c \in DOMAIN k2 : R2 \cap Claimed(W2[c]) = {}
      BY <1>1, <2>8, <2>10, <2>17
    <2>19. \A c : <<"block", c>> \in R2 => c \in DOMAIN k2 /\ b < c
      BY <1>1, <2>8, <2>11, <2>17
    <2>20. Room(st2, b, R2)
      <3>1. W2 = With(st2.k, b, st2.out) /\ b \in DOMAIN k2
        BY <2>8, <2>9, <2>13, <2>17 DEF W2
      <3>2. \A v : <<"value", v>> \in R2 => v \in Nat /\ v < it.vs
        BY <1>1, <2>8
      <3> QED BY <2>9, <2>15, <2>16, <2>18, <2>19, <3>1, <3>2 DEF Room
    <2> QED BY <2>7, <2>9, <2>20 DEF st2, i, R2
  <1> QED BY <1>4, <1>5

(* A block taken apart and put together again.                             *)
LEMMA UnrollBlockKeeps ==
  ASSUME NEW st, DOMAIN st = UnrollState, KInv(st.k), Below(st.k, st.vs, st.bs), NEW b
  PROVE  /\ DOMAIN UnrollBlock(st, b) = UnrollState /\ KInv(UnrollBlock(st, b).k)
         /\ Below(UnrollBlock(st, b).k, UnrollBlock(st, b).vs, UnrollBlock(st, b).bs)
  <1>1. CASE b \notin DOMAIN st.k
    <2>1. UnrollBlock(st, b) = st
      BY <1>1 DEF UnrollBlock
    <2> QED BY <2>1
  <1>2. CASE b \in DOMAIN st.k
    <2> DEFINE k == st.k
               blk == k[b]
               none == <<>>
               s0 == [st EXCEPT !.blk = blk, !.out = none]
               R == Rest(blk, 0)
               W == With(k, b, none)
               t == <<"unroll", blk, b>>
               st2 == FoldLeft(UnrollIns, s0, blk)
               st3 == UnrollBlock(st, b)
    <2>1. st3 = [st2 EXCEPT !.k[b] = st2.out]
      BY <1>2 DEF UnrollBlock
    <2>2. DOMAIN s0 = UnrollState /\ s0.k = k /\ s0.blk = blk /\ s0.out = none /\ s0.vs = st.vs /\ s0.bs = st.bs
      BY DEF UnrollState
    <2> HIDE DEF s0, st3, st2
    <2>3. Good(blk) /\ b \in Nat /\ b \in DOMAIN k /\ KInv(k) /\ Below(k, st.vs, st.bs)
      BY <1>2 DEF KInv
    <2>4. Good(none) /\ Claimed(none) = {}
      BY NothingIsGood
    <2> HIDE DEF none, k
    <2>5. DOMAIN W = DOMAIN k /\ W[b] = none /\ \A c \in DOMAIN k : c # b => W[c] = k[c]
      BY <2>3 DEF With
    <2>6. \A c \in DOMAIN k : Good(W[c]) /\ Claimed(W[c]) \subseteq Claimed(k[c])
      BY <2>3, <2>4, <2>5 DEF KInv
    <2> HIDE DEF W
    <2>7. KInv(W)
      BY <2>3, <2>5, <2>6, BlockwiseKeeps
    <2>8. Below(W, st.vs, st.bs)
      BY <2>3, <2>5, <2>6 DEF Below
    <2>9. R = Claimed(blk)
      BY <2>3, RestFacts
    <2>10. \A c \in DOMAIN k : R \cap Claimed(W[c]) = {}
      <3> SUFFICES ASSUME NEW c \in DOMAIN k PROVE Claimed(blk) \cap Claimed(W[c]) = {}
        BY <2>9
      <3>1. CASE c = b
        BY <2>4, <2>5, <3>1
      <3>2. CASE c # b
        BY <2>3, <2>5, <3>2 DEF KInv
      <3> QED BY <3>1, <3>2
    <2>11. ASSUME NEW v, <<"value", v>> \in Claimed(blk) PROVE v \in Nat /\ v < st.vs
      <3>1. v < st.vs
        BY <2>3, <2>11 DEF Below
      <3>2. PICK i \in ElemsOf(blk) : <<"value", v>> \in Claims(i)
        BY <2>11 DEF Claimed
      <3>3. v = i.r /\ i.r \in Nat
        BY <2>3, <3>2, ClaimsOf, GoodFacts, InsFacts
      <3> QED BY <3>1, <3>3
    <2>12. \A c : <<"block", c>> \in Claimed(blk) => c \in DOMAIN k /\ b < c
      BY <2>3 DEF KInv
    <2>13. Room(s0, b, R)
      BY <2>2, <2>3, <2>7, <2>8, <2>9, <2>10, <2>11, <2>12 DEF Room, W
    <2> HIDE DEF blk
    <2>14. IsSeq(blk) /\ Len(blk) \in Nat /\ DOMAIN blk = 1..Len(blk)
      BY <2>3, GoodFacts
    <2>15. PICK f : FoldsTo(f, t, s0, blk, DOMAIN blk) /\ st2 = f[DOMAIN blk]
      BY <2>14, UnrollInsFold DEF st2
    <2>16. \A n, z : (Holds(t, n, z) <=> Room(z, b, Rest(blk, n)) /\ z.blk = blk)
                     /\ \A e : Turn(t, z, e) = UnrollIns(z, e)
      BY DEF Holds, Turn
    <2> HIDE DEF t
    <2>17. Holds(t, 0, s0)
      BY <2>2, <2>13, <2>16
    <2>18. ASSUME NEW n \in 1..Len(blk), NEW z, Holds(t, n - 1, z) PROVE Holds(t, n, Turn(t, z, blk[n]))
      <3>1. Room(z, b, Rest(blk, n - 1)) /\ z.blk = blk
        BY <2>16, <2>18
      <3>2. Room(UnrollIns(z, blk[n]), b, Rest(blk, n)) /\ UnrollIns(z, blk[n]).blk = blk
        BY <2>3, <3>1, UnrollInsKeeps
      <3> QED BY <2>16, <3>2
    <2>19. Holds(t, Len(blk), f[DOMAIN blk])
      BY <2>14, <2>15, <2>17, <2>18, FoldKeeps
    <2>20. Room(st2, b, Rest(blk, Len(blk)))
      BY <2>15, <2>16, <2>19
    <2> DEFINE k2 == With(st2.k, b, st2.out)
    <2>21. DOMAIN st2 = UnrollState /\ b \in DOMAIN st2.k /\ KInv(k2) /\ Below(k2, st2.vs, st2.bs)
      BY <2>20 DEF Room
    <2>22. k2 = [st2.k EXCEPT ![b] = st2.out]
      BY DEF With
    <2> HIDE DEF k2
    <2>23. DOMAIN st3 = UnrollState /\ st3.k = k2 /\ st3.vs = st2.vs /\ st3.bs = st2.bs
      BY <2>1, <2>21, <2>22 DEF UnrollState
    <2> QED BY <2>21, <2>23 DEF st3
  <1> QED BY <1>1, <1>2

(* What is read is finitely many value ids.                                *)
LEMMA RefsFacts ==
  ASSUME NEW i, IsIns(i)
  PROVE  IsFiniteSet(Refs(i)) /\ Refs(i) \subseteq Nat
  <1>1. CASE i.k = "Fused"
    <2> DEFINE g == [m \in ElemsOf(i.f) |-> ElemsOf(m.a)]
               T == {g[m] : m \in ElemsOf(i.f)}
    <2>1. IsSeq(i.f) /\ \A m \in ElemsOf(i.f) : m.a \in Seq(Int)
      BY <1>1 DEF IsIns, IsChain
    <2>2. IsFiniteSet(ElemsOf(i.f)) /\ \A m \in ElemsOf(i.f) : IsFiniteSet(g[m]) /\ g[m] \subseteq Int
      <3>1. IsFiniteSet(ElemsOf(i.f))
        BY <2>1, SeqFinite
      <3>2. \A m \in ElemsOf(i.f) : IsSeq(m.a) /\ ElemsOf(m.a) \subseteq Int
        BY <2>1, SeqFacts
      <3>3. \A m \in ElemsOf(i.f) : IsFiniteSet(ElemsOf(m.a))
        BY <3>2, SeqFinite
      <3> QED BY <3>1, <3>2, <3>3
    <2>3. UNION {ElemsOf(m.a) : m \in ElemsOf(i.f)} = UNION T
      OBVIOUS
    <2> HIDE DEF g
    <2>4. IsFiniteSet(T) /\ \A x \in T : IsFiniteSet(x)
      BY <2>2, FiniteImage
    <2>5. UNION T \subseteq Int
      BY <2>2
    <2> HIDE DEF T
    <2>6. IsFiniteSet(UNION T)
      BY <2>4, FS_UNION
    <2>7. Refs(i) = {v \in UNION T : v > 0}
      BY <1>1, <2>3 DEF Refs
    <2>8. Refs(i) \subseteq UNION T /\ Refs(i) \subseteq Nat
      BY <2>5, <2>7
    <2> QED BY <2>6, <2>8, FS_Subset
  <1>2. CASE i.k # "Fused"
    <2>1. i.a \in Seq(Nat) /\ Refs(i) = ElemsOf(i.a)
      BY <1>2, InsFacts DEF Refs
    <2>2. IsSeq(i.a) /\ ElemsOf(i.a) \subseteq Nat
      BY <2>1, SeqFacts
    <2> QED BY <2>1, <2>2, SeqFinite
  <1> QED BY <1>1, <1>2

LEMMA BlockRefsFacts ==
  ASSUME NEW blk, Good(blk)
  PROVE  IsFiniteSet(BlockRefs(blk)) /\ BlockRefs(blk) \subseteq Nat
  <1> DEFINE g == [i \in ElemsOf(blk) |-> Refs(i)]
             T == {g[i] : i \in ElemsOf(blk)}
  <1>1. BlockRefs(blk) = UNION T
    BY DEF BlockRefs
  <1>2. \A i \in ElemsOf(blk) : IsFiniteSet(g[i]) /\ g[i] \subseteq Nat
    BY GoodFacts, RefsFacts
  <1> HIDE DEF g
  <1>3. IsFiniteSet(ElemsOf(blk))
    BY GoodFacts, SeqFinite
  <1>4. IsFiniteSet(T) /\ \A x \in T : IsFiniteSet(x)
    BY <1>2, <1>3, FiniteImage
  <1>5. UNION T \subseteq Nat
    BY <1>2
  <1> HIDE DEF T
  <1> QED BY <1>1, <1>4, <1>5, FS_UNION

LEMMA AllRefsFacts ==
  ASSUME NEW k, KInv(k)
  PROVE  IsFiniteSet(AllRefs(k)) /\ AllRefs(k) \subseteq Nat
  <1> DEFINE g == [b \in DOMAIN k |-> BlockRefs(k[b])]
             T == {g[b] : b \in DOMAIN k}
  <1>1. AllRefs(k) = UNION T
    BY DEF AllRefs
  <1>2. \A b \in DOMAIN k : IsFiniteSet(g[b]) /\ g[b] \subseteq Nat
    BY KernelFacts, BlockRefsFacts
  <1> HIDE DEF g
  <1>3. IsFiniteSet(DOMAIN k)
    BY DEF KInv
  <1>4. IsFiniteSet(T) /\ \A x \in T : IsFiniteSet(x)
    BY <1>2, <1>3, FiniteImage
  <1>5. UNION T \subseteq Nat
    BY <1>2
  <1> HIDE DEF T
  <1> QED BY <1>1, <1>4, <1>5, FS_UNION

(* The ids unroll starts from are above all that are in use.               *)
LEMMA MaxVidFacts ==
  ASSUME NEW k, KInv(k)
  PROVE  Below(k, MaxVid(k) + LoopValue(1), MaxOf(DOMAIN k) + 1)
  <1> DEFINE rs == {i.r : i \in Instrs(k)}
             refs == AllRefs(k)
             V == {0} \cup refs \cup rs
  <1>1. IsFiniteSet(rs) /\ rs \subseteq Nat
        /\ \A c \in DOMAIN k : \A v : <<"value", v>> \in Claimed(k[c]) => v \in rs
    BY ResultsOfKernel
  <1>2. IsFiniteSet(refs) /\ refs \subseteq Nat
    BY AllRefsFacts
  <1>3. MaxVid(k) = MaxOf(V)
    BY DEF MaxVid
  <1> HIDE DEF rs, refs
  <1>4. IsFiniteSet(V) /\ V \in SUBSET Nat /\ V # {}
    <2>1. IsFiniteSet({0})
      BY FS_Singleton
    <2>2. IsFiniteSet({0} \cup refs)
      BY <1>2, <2>1, FS_Union
    <2>3. IsFiniteSet(V)
      BY <1>1, <2>2, FS_Union
    <2> QED BY <1>1, <1>2, <2>3
  <1>5. \A v \in rs : v \in V
    OBVIOUS
  <1> HIDE DEF V
  <1>6. MaxOf(V) \in Nat /\ \A v \in V : v <= MaxOf(V)
    BY <1>4, MaxOfFacts
  <1>7. LoopValue(1) = 901
    BY DEF LoopValue
  <1> DEFINE vs == MaxVid(k) + LoopValue(1)
             bs == MaxOf(DOMAIN k) + 1
  <1>8. vs \in Nat \ {0} /\ \A v \in rs : v < vs
    <2>1. vs = MaxOf(V) + 901
      BY <1>3, <1>7
    <2> HIDE DEF vs
    <2>2. \A v \in rs : v \in Nat /\ v <= MaxOf(V)
      BY <1>1, <1>5, <1>6
    <2> QED BY <1>6, <2>1, <2>2
  <1>9. bs \in Nat /\ \A c \in DOMAIN k : c < bs
    <2>1. DOMAIN k \in SUBSET Nat /\ IsFiniteSet(DOMAIN k) /\ DOMAIN k # {}
      BY DEF KInv
    <2>2. MaxOf(DOMAIN k) \in DOMAIN k /\ \A c \in DOMAIN k : c <= MaxOf(DOMAIN k)
      BY <2>1, MaxOfFacts
    <2> DEFINE m == MaxOf(DOMAIN k)
    <2>3. m \in Nat /\ bs = m + 1 /\ \A c \in DOMAIN k : c \in Nat /\ c <= m
      BY <2>1, <2>2
    <2> HIDE DEF m
    <2> QED BY <2>3
  <1> HIDE DEF vs, bs
  <1>10. Below(k, vs, bs)
    BY <1>1, <1>8, <1>9 DEF Below
  <1> QED BY <1>10 DEF vs, bs

LEMMA UnrollKeeps ==
  ASSUME NEW k, KInv(k)
  PROVE  KInv(Unroll(k))
  <1> DEFINE s == <<Body>> \o Ascending(Nested(k))
             t == <<"unroll_block">>
             st == [k |-> k, blk |-> <<>>, out |-> <<>>, vs |-> MaxVid(k) + LoopValue(1),
                    bs |-> MaxOf(DOMAIN k) + 1]
  <1>1. Unroll(k) = EliminateDeadValues(FoldLeft(UnrollBlock, st, s).k)
    BY DEF Unroll
  <1>2. IsSeq(s)
    BY NestedFacts, OneIsGood, Concat
  <1>3. DOMAIN st = UnrollState /\ st.k = k /\ st.vs = MaxVid(k) + LoopValue(1) /\ st.bs = MaxOf(DOMAIN k) + 1
    BY DEF UnrollState
  <1> HIDE DEF s, st
  <1>4. KInv(st.k) /\ Below(st.k, st.vs, st.bs)
    BY <1>3, MaxVidFacts
  <1>5. PICK f : FoldsTo(f, t, st, s, DOMAIN s) /\ FoldLeft(UnrollBlock, st, s) = f[DOMAIN s]
    BY <1>2, UnrollBlockFold
  <1>6. \A n, z : /\ Holds(t, n, z) <=> DOMAIN z = UnrollState /\ KInv(z.k) /\ Below(z.k, z.vs, z.bs)
                  /\ \A e : Turn(t, z, e) = UnrollBlock(z, e)
    BY DEF Holds, Turn
  <1> HIDE DEF t
  <1>7. Holds(t, 0, st)
    BY <1>3, <1>4, <1>6
  <1>8. ASSUME NEW n \in 1..Len(s), NEW z, Holds(t, n - 1, z) PROVE Holds(t, n, Turn(t, z, s[n]))
    <2> DEFINE b == s[n]
    <2>1. DOMAIN z = UnrollState /\ KInv(z.k) /\ Below(z.k, z.vs, z.bs)
      BY <1>6, <1>8
    <2> HIDE DEF b
    <2>2. /\ DOMAIN UnrollBlock(z, b) = UnrollState /\ KInv(UnrollBlock(z, b).k)
          /\ Below(UnrollBlock(z, b).k, UnrollBlock(z, b).vs, UnrollBlock(z, b).bs)
      BY <2>1, UnrollBlockKeeps
    <2>3. Holds(t, n, Turn(t, z, b))
      BY <1>6, <2>2
    <2> QED BY <2>3 DEF b
  <1>9. Holds(t, Len(s), f[DOMAIN s])
    BY <1>2, <1>5, <1>7, <1>8, FoldKeeps
  <1>10. KInv(FoldLeft(UnrollBlock, st, s).k)
    BY <1>5, <1>6, <1>9
  <1> QED BY <1>1, <1>10, EliminateKeeps

-----------------------------------------------------------------------------
(* Whatever well-formed kernels the pipeline is given and however many     *)
(* rounds and trips its passes are allowed, every pass hands on a          *)
(* well-formed kernel: each instruction has the operands of its variant, no *)
(* value has two definitions in any of the blocks (the ids unroll and      *)
(* vectorize make up are fresh), and every block that is owned is a later  *)
(* block of the kernel, owned once.                                        *)
THEOREM PipelineTypes == Spec => []TypeOK
  <1>1. Len(Order) = 10 /\ DOMAIN Order = 1..10
    BY DEF Order
  <1>2. Init => TypeOK
    BY <1>1, SourcesAssumption DEF Init, TypeOK
  <1>3. ASSUME TypeOK, [Next]_vars PROVE TypeOK'
    <2>1. next \in 1..11 /\ WellFormed(kernel)
      BY <1>1, <1>3 DEF TypeOK
    <2>2. KInv(kernel)
      BY <2>1, WellFormedClaims
    <2>3. ASSUME NEW name, NEW result, KInv(result), Run(name, result) PROVE TypeOK'
      <3>1. kernel' = result /\ next' = next + 1 /\ next \in 1..10
        BY <1>1, <2>3 DEF Run
      <3>2. WellFormed(kernel')
        BY <2>3, <3>1, WellFormedClaims
      <3>3. next' \in 1..Len(Order) + 1
        BY <1>1, <3>1
      <3> QED BY <3>2, <3>3 DEF TypeOK
    <2>4. CASE ConstFoldPass
      BY <2>2, <2>3, <2>4, ConstFoldKeeps DEF ConstFoldPass
    <2>5. CASE AlgebraicSimplifyPass
      BY <2>2, <2>3, <2>5, AlgebraicSimplifyKeeps DEF AlgebraicSimplifyPass
    <2>6. CASE CopyPropPass
      BY <2>2, <2>3, <2>6, CopyPropKeeps DEF CopyPropPass
    <2>7. CASE CsePass
      BY <2>2, <2>3, <2>7, CseKeeps DEF CsePass
    <2>8. CASE LicmPass
      BY <2>2, <2>3, <2>8, LicmKeeps DEF LicmPass
    <2>9. CASE IfConversionPass
      BY <2>2, <2>3, <2>9, IfConversionKeeps DEF IfConversionPass
    <2>10. CASE ValueSinkPass
      BY <2>2, <2>3, <2>10, ValueSinkKeeps DEF ValueSinkPass
    <2>11. CASE FusionPass
      BY <2>2, <2>3, <2>11, FusionKeeps DEF FusionPass
    <2>12. CASE UnrollPass
      BY <2>2, <2>3, <2>12, UnrollKeeps DEF UnrollPass
    <2>13. CASE VectorizePass
      BY <2>2, <2>3, <2>13, VectorizeKeeps DEF VectorizePass
    <2>14. CASE UNCHANGED vars
      BY <1>3, <2>14 DEF vars, TypeOK
    <2> QED BY <1>3, <2>4, <2>5, <2>6, <2>7, <2>8, <2>9, <2>10, <2>11, <2>12, <2>13, <2>14 DEF Next
  <1> QED BY <1>2, <1>3, PTL DEF Spec

-----------------------------------------------------------------------------
(* No use without its definition. What a kernel reads and nothing in it    *)
(* defines: loop variables, and whatever a pass may have forgotten.        *)
Values(k) == UNION {Defs(k[b]) : b \in DOMAIN k}
Undefined(k) == AllRefs(k) \ (Values(k) \cup {NoResult})

LEMMA ReadAndDefined ==
  ASSUME NEW k
  PROVE  /\ \A v : v \in AllRefs(k) <=> \E b \in DOMAIN k : \E i \in ElemsOf(k[b]) : v \in Refs(i)
         /\ \A v : v \in Values(k) <=> \E b \in DOMAIN k : \E i \in ElemsOf(k[b]) : v = i.r /\ v # NoResult
  BY DEF AllRefs, BlockRefs, Values, Defs

(* A rewriting reads what was read before or is defined after, and what it *)
(* no longer defines it no longer reads.                                   *)
LEMMA NoneLost ==
  ASSUME NEW k, NEW k2,
         \A v \in AllRefs(k2) : v \in AllRefs(k) \/ v \in Values(k2) \/ v = NoResult,
         \A v \in Values(k) : v \in AllRefs(k2) => v \in Values(k2)
  PROVE  Undefined(k2) \subseteq Undefined(k)
  BY DEF Undefined

(* Taking away instructions nobody reads.                                  *)
LEMMA UnreadTaken ==
  ASSUME NEW k, NEW k2, DOMAIN k2 = DOMAIN k,
         \A b \in DOMAIN k : ElemsOf(k2[b]) \subseteq ElemsOf(k[b]),
         \A b \in DOMAIN k : \A i \in ElemsOf(k[b]) : i.r \in AllRefs(k) /\ i.r # NoResult => i \in ElemsOf(k2[b])
  PROVE  Undefined(k2) \subseteq Undefined(k)
  <1>1. \A v \in AllRefs(k2) : v \in AllRefs(k)
    BY ReadAndDefined
  <1>2. \A v \in Values(k) : v \in AllRefs(k2) => v \in Values(k2)
    <2> SUFFICES ASSUME NEW v \in Values(k), v \in AllRefs(k2) PROVE v \in Values(k2)
      OBVIOUS
    <2>1. PICK b \in DOMAIN k : \E i \in ElemsOf(k[b]) : v = i.r /\ v # NoResult
      BY ReadAndDefined
    <2>2. PICK i \in ElemsOf(k[b]) : v = i.r /\ v # NoResult
      BY <2>1
    <2>3. i \in ElemsOf(k2[b])
      BY <1>1, <2>2
    <2> QED BY <2>2, <2>3, ReadAndDefined
  <1> QED BY <1>1, <1>2, NoneLost

(* Each block defines the same values and reads no more.                   *)
LEMMA BlockwiseDefined ==
  ASSUME NEW k, NEW k2, DOMAIN k2 = DOMAIN k,
         \A b \in DOMAIN k : BlockRefs(k2[b]) \subseteq BlockRefs(k[b]) /\ Defs(k[b]) \subseteq Defs(k2[b])
  PROVE  Undefined(k2) \subseteq Undefined(k)
  <1>1. \A v \in AllRefs(k2) : v \in AllRefs(k)
    BY DEF AllRefs
  <1>2. Values(k) \subseteq Values(k2)
    BY DEF Values
  <1> QED BY <1>1, <1>2, NoneLost

(* Steps from 0 to N stay where each leads.                                *)
LEMMA StepsReach ==
  ASSUME NEW N \in Nat, NEW P, 0 \in P, \A n \in 1..N : n - 1 \in P => n \in P
  PROVE  N \in P
  <1> DEFINE S == {n \in Nat : n <= N => n \in P}
  <1>1. 0 \in S
    OBVIOUS
  <1>2. ASSUME NEW n \in Nat, n \in S PROVE n + 1 \in S
    <2> SUFFICES ASSUME n + 1 <= N PROVE n + 1 \in P
      OBVIOUS
    <2>1. n + 1 \in 1..N /\ (n + 1) - 1 = n /\ n \in P
      BY <1>2
    <2> QED BY <2>1
  <1> HIDE DEF S
  <1>3. N \in S
    BY <1>1, <1>2, NatSetInduction
  <1> QED BY <1>3 DEF S

LEMMA SweepDefined ==
  ASSUME NEW k, NEW n, KInv(k)
  PROVE  Undefined(Sweep(k, n)) \subseteq Undefined(k)
  <1> DEFINE used == AllRefs(k)
             live(i) == i.r = NoResult \/ i.k \in SideEffect \/ IndexedLoad(i) \/ i.r \in used
             ss(b) == [j \in DOMAIN k[b] |-> IF live(k[b][j]) THEN <<k[b][j]>> ELSE <<>>]
             k2 == [b \in DOMAIN k |-> FlattenSeq(ss(b))]
  <1>1. Sweep(k, n) = k \/ Sweep(k, n) = k2
    BY DEF Sweep, Only
  <1>2. ASSUME NEW b \in DOMAIN k
        PROVE  /\ ElemsOf(k2[b]) \subseteq ElemsOf(k[b])
               /\ \A i \in ElemsOf(k[b]) : i.r \in used /\ i.r # NoResult => i \in ElemsOf(k2[b])
    <2>1. Good(k[b])
      BY KernelFacts
    <2>2. ss(b) = [j \in DOMAIN k[b] |-> ss(b)[j]] /\ \A j \in DOMAIN k[b] : ss(b)[j] \in {<<>>, <<k[b][j]>>}
      OBVIOUS
    <2>3. \A j \in DOMAIN k[b] : k[b][j].r \in used => ss(b)[j] = <<k[b][j]>>
      OBVIOUS
    <2>4. k2[b] = FlattenSeq(ss(b))
      OBVIOUS
    <2> HIDE DEF ss, k2, used
    <2>5. ElemsOf(k2[b]) = {k[b][j] : j \in {h \in DOMAIN k[b] : ss(b)[h] # <<>>}}
      BY <2>1, <2>2, <2>4, Filtered
    <2>6. \A i \in ElemsOf(k[b]) : i.r \in used => i \in ElemsOf(k2[b])
      <3> SUFFICES ASSUME NEW i \in ElemsOf(k[b]), i.r \in used PROVE i \in ElemsOf(k2[b])
        OBVIOUS
      <3>1. PICK j \in DOMAIN k[b] : i = k[b][j]
        BY DEF ElemsOf
      <3>2. ss(b)[j] = <<i>>
        BY <2>3, <3>1
      <3>3. <<i>> # <<>>
        OBVIOUS
      <3> QED BY <2>5, <3>1, <3>2, <3>3
    <2> QED BY <2>5, <2>6 DEF ElemsOf
  <1>3. DOMAIN k2 = DOMAIN k
    OBVIOUS
  <1> HIDE DEF k2
  <1>4. Undefined(k2) \subseteq Undefined(k)
    BY <1>2, <1>3, UnreadTaken
  <1> QED BY <1>1, <1>4

(* The sweep takes away only what no block reads.                          *)
LEMMA EliminateDefined ==
  ASSUME NEW k, KInv(k)
  PROVE  Undefined(EliminateDeadValues(k)) \subseteq Undefined(k)
  <1> DEFINE t == <<"sweep">>
             s == Count(MaxSweeps)
             N == Len(s)
  <1>1. IsSeq(s)
    BY CountFacts DEF MaxSweeps
  <1> HIDE DEF s
  <1>2. PICK f : FoldsTo(f, t, k, s, DOMAIN s) /\ FoldLeft(Sweep, k, s) = f[DOMAIN s]
    BY <1>1, SweepFold
  <1>3. \A z, e : Turn(t, z, e) = Sweep(z, e)
    BY DEF Turn
  <1> HIDE DEF t
  <1>4. PICK g : Goes(g, t, k, s, f[DOMAIN s])
    BY <1>1, <1>2, FoldGoes
  <1> DEFINE P == {n \in 0..N : KInv(g[n]) /\ Undefined(g[n]) \subseteq Undefined(k)}
  <1>5. N \in Nat
    BY <1>1, SeqFacts
  <1>6. N \in P
    <2>1. 0 \in P
      BY <1>4, <1>5 DEF Goes
    <2>2. ASSUME NEW n \in 1..N, n - 1 \in P PROVE n \in P
      <3>1. g[n] = Sweep(g[n - 1], s[n])
        BY <1>3, <1>4 DEF Goes
      <3>2. KInv(g[n - 1]) /\ Undefined(g[n - 1]) \subseteq Undefined(k)
        BY <2>2
      <3>3. KInv(g[n]) /\ Undefined(g[n]) \subseteq Undefined(g[n - 1])
        BY <3>1, <3>2, SweepKeeps, SweepDefined
      <3> QED BY <1>5, <3>2, <3>3
    <2> HIDE DEF P
    <2> QED BY <1>5, <2>1, <2>2, StepsReach
  <1>7. Undefined(FoldLeft(Sweep, k, s)) \subseteq Undefined(k)
    BY <1>2, <1>4, <1>6 DEF Goes
  <1> QED BY <1>7 DEF EliminateDeadValues, s

-----------------------------------------------------------------------------
(* Renaming operands brings in nothing but what the map leads to.          *)
LEMMA RemapRefs ==
  ASSUME NEW i, IsIns(i), NEW m
  PROVE  \A v \in Refs(Remap(i, m)) : (v \in Refs(i) /\ v \notin DOMAIN m) \/ \E w \in DOMAIN m : v = m[w]
  <1> DEFINE New(a) == RemapOperands(a, m)
  <1>1. ASSUME NEW a, NEW v \in ElemsOf(New(a))
        PROVE  (v \in ElemsOf(a) /\ v \notin DOMAIN m) \/ \E w \in DOMAIN m : v = m[w]
    <2>1. DOMAIN New(a) = DOMAIN a /\ \A n \in DOMAIN a : New(a)[n] = IF a[n] \in DOMAIN m THEN m[a[n]] ELSE a[n]
      BY DEF RemapOperands
    <2> HIDE DEF New
    <2>2. PICK n \in DOMAIN a : v = New(a)[n]
      BY <2>1 DEF ElemsOf
    <2> QED BY <2>1, <2>2 DEF ElemsOf
  <1> HIDE DEF New
  <1>2. CASE i.k # "Fused"
    <2>1. Remap(i, m) = [i EXCEPT !.a = New(i.a)]
      BY <1>2 DEF Remap, New
    <2>2. Remap(i, m).a = New(i.a) /\ Remap(i, m).k = i.k
      BY <2>1 DEF IsIns
    <2> QED BY <1>1, <1>2, <2>2 DEF Refs
  <1>3. CASE i.k = "Fused"
    <2> DEFINE h == [n \in DOMAIN i.f |-> [i.f[n] EXCEPT !.a = New(i.f[n].a)]]
    <2>1. Remap(i, m) = [i EXCEPT !.f = h]
      BY <1>3 DEF Remap, New
    <2>2. Remap(i, m).f = h /\ Remap(i, m).k = i.k
      BY <2>1 DEF IsIns
    <2>3. ASSUME NEW n \in DOMAIN i.f PROVE h[n].a = New(i.f[n].a)
      <3>1. i.f[n] \in ElemsOf(i.f) /\ DOMAIN i.f[n] = {"k", "f", "a"}
        BY <1>3 DEF IsIns, IsChain, ElemsOf
      <3> QED BY <3>1
    <2>4. DOMAIN h = DOMAIN i.f
      OBVIOUS
    <2> HIDE DEF h
    <2>5. ASSUME NEW v \in Refs(Remap(i, m))
          PROVE  (v \in Refs(i) /\ v \notin DOMAIN m) \/ \E w \in DOMAIN m : v = m[w]
      <3>1. v > 0 /\ v \in UNION {ElemsOf(x.a) : x \in ElemsOf(h)}
        BY <1>3, <2>2 DEF Refs
      <3>2. PICK n \in DOMAIN i.f : v \in ElemsOf(h[n].a)
        BY <2>4, <3>1 DEF ElemsOf
      <3>3. v \in ElemsOf(New(i.f[n].a))
        BY <2>3, <3>2
      <3>4. (v \in ElemsOf(i.f[n].a) /\ v \notin DOMAIN m) \/ \E w \in DOMAIN m : v = m[w]
        BY <1>1, <3>3
      <3>5. v \in ElemsOf(i.f[n].a) => v \in Refs(i)
        BY <1>3, <3>1 DEF Refs, ElemsOf
      <3> QED BY <3>4, <3>5
    <2> QED BY <2>5
  <1> QED BY <1>2, <1>3

(* const_fold: an operand is taken from the block's own, and results stay. *)
LEMMA FoldBlockDefined ==
  ASSUME NEW blk, Good(blk)
  PROVE  BlockRefs(FoldBlock(blk)) \subseteq BlockRefs(blk) /\ Defs(blk) \subseteq Defs(FoldBlock(blk))
  <1> DEFINE folded(i) == IF FoldedTo(blk, i) = {} THEN i
                          ELSE Literal(CHOOSE n \in FoldedTo(blk, i) : TRUE, i.r)
             new == [j \in DOMAIN blk |-> folded(blk[j])]
             m == AwayMap(blk, FoldedAway)
             out == FoldBlock(blk)
  <1>1. out = [j \in DOMAIN blk |-> Remap(new[j], m)]
    BY DEF FoldBlock, RemapBlock
  <1>2. \A w \in DOMAIN m : m[w] \in BlockRefs(blk)
    <2> DEFINE A(i) == FoldedAway(blk, i)
               All(v) == UNION {A(i) : i \in {j \in ElemsOf(blk) : j.r = v}}
    <2>1. m = [v \in {i.r : i \in {j \in ElemsOf(blk) : A(j) # {}}} |-> CHOOSE w \in All(v) : TRUE]
      BY DEF AwayMap
    <2>2. \A i \in ElemsOf(blk) : A(i) \subseteq BlockRefs(blk)
      <3> SUFFICES ASSUME NEW i \in ElemsOf(blk), NEW v \in A(i) PROVE v \in BlockRefs(blk)
        OBVIOUS
      <3>1. i.k = "BinOp" /\ (v = i.a[1] \/ v = i.a[2])
        BY DEF FoldedAway
      <3>2. Len(i.a) = 2 /\ i.a \in Seq(Nat)
        BY <3>1, GoodFacts, InsFacts
      <3>3. v \in ElemsOf(i.a)
        BY <3>1, <3>2 DEF ElemsOf
      <3> QED BY <3>1, <3>3 DEF BlockRefs, Refs
    <2> HIDE DEF A, m
    <2>3. ASSUME NEW v \in DOMAIN m PROVE m[v] \in BlockRefs(blk)
      <3>1. PICK i \in ElemsOf(blk) : A(i) # {} /\ v = i.r
        BY <2>1
      <3>2. All(v) # {} /\ All(v) \subseteq BlockRefs(blk)
        BY <2>2, <3>1
      <3> HIDE DEF All
      <3>3. m[v] = CHOOSE w \in All(v) : TRUE
        BY <2>1
      <3>4. m[v] \in All(v)
        BY <3>2, <3>3
      <3> QED BY <3>2, <3>4
    <2> QED BY <2>3
  <1>3. ASSUME NEW j \in DOMAIN blk
        PROVE  /\ IsIns(new[j]) /\ new[j].r = blk[j].r /\ Refs(new[j]) \subseteq BlockRefs(blk)
    <2>1. blk[j] \in ElemsOf(blk) /\ IsIns(blk[j]) /\ blk[j].r \in Nat
      BY GoodFacts, InsFacts
    <2>2. CASE FoldedTo(blk, blk[j]) = {}
      BY <2>1, <2>2 DEF BlockRefs
    <2>3. CASE FoldedTo(blk, blk[j]) # {}
      <3> DEFINE n == CHOOSE n \in FoldedTo(blk, blk[j]) : TRUE
      <3>1. n \in Int
        BY <2>1, <2>3, FoldedFacts
      <3>2. new[j] = Literal(n, blk[j].r)
        BY <2>3
      <3> HIDE DEF n, new
      <3>3. IsIns(new[j])
        BY <2>1, <3>1, <3>2, LiteralFacts
      <3>4. new[j].r = blk[j].r /\ new[j].k = "Const" /\ new[j].a = <<>>
        BY <3>2 DEF Literal, Ins
      <3>5. Refs(new[j]) = {}
        BY <3>4 DEF Refs, ElemsOf
      <3> QED BY <3>3, <3>4, <3>5
    <2> QED BY <2>2, <2>3
  <1> HIDE DEF new, m, out
  <1>4. ASSUME NEW j \in DOMAIN blk PROVE Refs(out[j]) \subseteq BlockRefs(blk) /\ out[j].r = blk[j].r
    <2>1. out[j] = Remap(new[j], m)
      BY <1>1
    <2>2. Refs(out[j]) \subseteq BlockRefs(blk)
      BY <1>2, <1>3, <2>1, RemapRefs
    <2>3. out[j].r = new[j].r
      BY <1>3, <2>1 DEF Remap, IsIns
    <2> QED BY <1>3, <2>2, <2>3
  <1>5. DOMAIN out = DOMAIN blk
    BY <1>1
  <1>6. BlockRefs(out) \subseteq BlockRefs(blk)
    BY <1>4, <1>5 DEF BlockRefs, ElemsOf
  <1>7. Defs(blk) \subseteq Defs(out)
    BY <1>4, <1>5 DEF Defs, ElemsOf
  <1> QED BY <1>6, <1>7 DEF out

LEMMA ConstFoldDefined ==
  ASSUME NEW k, KInv(k)
  PROVE  Undefined(ConstFold(k)) \subseteq Undefined(k)
  <1> DEFINE folded == [b \in DOMAIN k |-> FoldBlock(k[b])]
             refs == AllRefs(folded)
             used(i) == i.r = NoResult \/ i.r \in refs
             ss(b) == [j \in DOMAIN folded[b] |-> IF used(folded[b][j]) THEN <<folded[b][j]>> ELSE <<>>]
             k2 == [b \in DOMAIN k |-> IF b = Body THEN folded[b] ELSE FlattenSeq(ss(b))]
  <1>1. ConstFold(k) = EliminateDeadValues(k2)
    BY DEF ConstFold, Only
  <1>2. DOMAIN k2 = DOMAIN k /\ DOMAIN folded = DOMAIN k
    OBVIOUS
  <1>3. ASSUME NEW b \in DOMAIN k
        PROVE  /\ Good(folded[b]) /\ Claimed(folded[b]) \subseteq Claimed(k[b])
               /\ BlockRefs(folded[b]) \subseteq BlockRefs(k[b]) /\ Defs(k[b]) \subseteq Defs(folded[b])
    BY KernelFacts, FoldBlockKeeps, FoldBlockDefined
  <1>4. Undefined(folded) \subseteq Undefined(k)
    <2> HIDE DEF folded
    <2> QED BY <1>2, <1>3, BlockwiseDefined
  <1>5. ASSUME NEW b \in DOMAIN k
        PROVE  /\ Good(k2[b]) /\ Claimed(k2[b]) \subseteq Claimed(k[b])
               /\ ElemsOf(k2[b]) \subseteq ElemsOf(folded[b])
               /\ \A i \in ElemsOf(folded[b]) : i.r \in refs => i \in ElemsOf(k2[b])
    <2>1. /\ ss(b) = [j \in DOMAIN folded[b] |-> ss(b)[j]]
          /\ \A j \in DOMAIN folded[b] : ss(b)[j] \in {<<>>, <<folded[b][j]>>}
          /\ \A j \in DOMAIN folded[b] : folded[b][j].r \in refs => ss(b)[j] = <<folded[b][j]>>
      OBVIOUS
    <2>2. k2[b] = folded[b] \/ k2[b] = FlattenSeq(ss(b))
      OBVIOUS
    <2> HIDE DEF ss, folded, k2, refs
    <2>3. /\ Good(FlattenSeq(ss(b))) /\ Claimed(FlattenSeq(ss(b))) \subseteq Claimed(folded[b])
          /\ ElemsOf(FlattenSeq(ss(b))) = {folded[b][j] : j \in {h \in DOMAIN folded[b] : ss(b)[h] # <<>>}}
      BY <1>3, <2>1, Filtered
    <2>4. \A i \in ElemsOf(folded[b]) : i.r \in refs => i \in ElemsOf(FlattenSeq(ss(b)))
      <3> SUFFICES ASSUME NEW i \in ElemsOf(folded[b]), i.r \in refs PROVE i \in ElemsOf(FlattenSeq(ss(b)))
        OBVIOUS
      <3>1. PICK j \in DOMAIN folded[b] : i = folded[b][j]
        BY DEF ElemsOf
      <3>2. ss(b)[j] = <<i>>
        BY <2>1, <3>1
      <3>3. <<i>> # <<>>
        OBVIOUS
      <3> QED BY <2>3, <3>1, <3>2, <3>3
    <2>5. ElemsOf(FlattenSeq(ss(b))) \subseteq ElemsOf(folded[b])
      BY <2>3 DEF ElemsOf
    <2>6. Claimed(folded[b]) \subseteq Claimed(k[b]) /\ Good(folded[b])
      BY <1>3
    <2> QED BY <2>2, <2>3, <2>4, <2>5, <2>6
  <1> HIDE DEF k2, folded
  <1>6. KInv(k2)
    BY <1>2, <1>5, BlockwiseKeeps
  <1>7. Undefined(k2) \subseteq Undefined(folded)
    BY <1>2, <1>5, UnreadTaken
  <1> QED BY <1>1, <1>4, <1>6, <1>7, EliminateDefined

-----------------------------------------------------------------------------
(* cse: a duplicate leads to the first of its kind, which is none itself.  *)
LEMMA FirstOfItsKind ==
  ASSUME NEW blk, Good(blk), NEW v \in DOMAIN Duplicates(blk)
  PROVE  \/ Duplicates(blk)[v] = NoResult
         \/ Duplicates(blk)[v] \in Defs(blk) /\ Duplicates(blk)[v] \notin DOMAIN Duplicates(blk)
  <1> DEFINE firsts(j) == {h \in 1..j : Keys(blk[h]) = Keys(blk[j])}
             dup == {j \in DOMAIN blk : Keys(blk[j]) # {} /\ firsts(j) # {j}}
             J(x) == CHOOSE j \in dup : blk[j].r = x
             H(j) == CHOOSE h \in firsts(j) : \A g \in firsts(j) : h <= g
             map == Duplicates(blk)
  <1>1. map = [x \in {blk[j].r : j \in dup} |-> blk[H(J(x))].r]
    BY DEF Duplicates
  <1>2. J(v) \in dup /\ map[v] = blk[H(J(v))].r
    <2>1. v \in {blk[j].r : j \in dup}
      BY <1>1
    <2> HIDE DEF map, dup, H
    <2> QED BY <1>1, <2>1
  <1> DEFINE j == J(v)
             h == H(j)
  <1>3. Len(blk) \in Nat /\ j \in 1..Len(blk) /\ DOMAIN blk = 1..Len(blk) /\ j \in dup
    BY <1>2, GoodFacts
  <1> HIDE DEF J
  <1>4. h \in firsts(j) /\ \A g \in firsts(j) : h <= g
    <2>1. firsts(j) \in SUBSET Nat /\ j \in firsts(j)
      BY <1>3
    <2> HIDE DEF firsts, j
    <2> QED BY <2>1, LeastExists
  <1> HIDE DEF H, map, j
  <1>5. h \in DOMAIN blk /\ h \in Nat /\ h <= j /\ Keys(blk[h]) = Keys(blk[j]) /\ j \in Nat
    BY <1>3, <1>4
  <1>6. map[v] = blk[h].r
    BY <1>2 DEF j
  <1> HIDE DEF h
  <1>7. h \notin dup
    <2> SUFFICES ASSUME h \in dup PROVE FALSE
      OBVIOUS
    <2>1. h \in firsts(h) /\ firsts(h) # {h}
      BY <1>3, <1>5
    <2>2. PICK g \in firsts(h) : g # h
      BY <2>1
    <2>3. g \in firsts(j) /\ g < h /\ g \in Nat
      BY <1>5, <2>2
    <2> QED BY <1>4, <1>5, <2>3
  <1>8. ASSUME blk[h].r # NoResult PROVE blk[h].r \notin {blk[p].r : p \in dup}
    <2> SUFFICES ASSUME NEW p \in dup, blk[h].r = blk[p].r PROVE FALSE
      OBVIOUS
    <2>1. p # h /\ p \in DOMAIN blk
      BY <1>7
    <2>2. <<"value", blk[h].r>> \in Claims(blk[h]) /\ <<"value", blk[h].r>> \in Claims(blk[p])
      BY <1>8, ClaimsOf
    <2> QED BY <1>5, <2>1, <2>2 DEF Good, Apart
  <1>9. DOMAIN map = {blk[p].r : p \in dup}
    BY <1>1
  <1>10. blk[h].r # NoResult => blk[h].r \in Defs(blk)
    BY <1>5 DEF Defs, ElemsOf
  <1> QED BY <1>6, <1>8, <1>9, <1>10 DEF map

(* A duplicate's readers read the first of its kind, in every block.       *)
LEMMA CseBlockDefined ==
  ASSUME NEW k, KInv(k), NEW b \in DOMAIN k
  PROVE  Undefined(CseBlock(k, b)) \subseteq Undefined(k)
  <1> DEFINE map == Duplicates(k[b])
             new(c) == RemapBlock(k[c], map)
             ss == [j \in DOMAIN new(b) |-> IF new(b)[j].r \notin DOMAIN map THEN <<new(b)[j]>> ELSE <<>>]
             k2 == CseBlock(k, b)
  <1>1. k2 = [c \in DOMAIN k |-> IF c = b THEN FlattenSeq(ss) ELSE new(c)]
    BY DEF CseBlock, Only
  <1>2. IsMap(map)
    BY KernelFacts, DuplicatesMap
  <1>3. \A v \in DOMAIN map : \/ map[v] = NoResult
                              \/ map[v] \in Defs(k[b]) /\ map[v] \notin DOMAIN map
    BY KernelFacts, FirstOfItsKind
  <1> HIDE DEF k2, map
  <1>4. ASSUME NEW c \in DOMAIN k
        PROVE  /\ Good(new(c)) /\ DOMAIN new(c) = DOMAIN k[c]
               /\ \A j \in DOMAIN k[c] : new(c)[j] = Remap(k[c][j], map)
    BY <1>2, KernelFacts, RemapBlockKeeps
  <1>5. /\ ss = [j \in DOMAIN new(b) |-> ss[j]] /\ \A j \in DOMAIN new(b) : ss[j] \in {<<>>, <<new(b)[j]>>}
        /\ \A j \in DOMAIN new(b) : new(b)[j].r \notin DOMAIN map => ss[j] = <<new(b)[j]>>
    OBVIOUS
  <1>6. Good(new(b))
    BY <1>4
  <1> HIDE DEF ss, new
  <1>7. ElemsOf(FlattenSeq(ss)) = {new(b)[j] : j \in {h \in DOMAIN new(b) : ss[h] # <<>>}}
    BY <1>5, <1>6, Filtered
  <1>8. ASSUME NEW c \in DOMAIN k, NEW i2 \in ElemsOf(k2[c])
        PROVE  \E i \in ElemsOf(k[c]) : i2 = Remap(i, map)
    <2>1. i2 \in ElemsOf(new(c))
      BY <1>1, <1>7 DEF ElemsOf
    <2>2. PICK j \in DOMAIN new(c) : i2 = new(c)[j]
      BY <2>1 DEF ElemsOf
    <2> QED BY <1>4, <2>2 DEF ElemsOf
  <1>9. ASSUME NEW c \in DOMAIN k, NEW i \in ElemsOf(k[c]), c # b \/ i.r \notin DOMAIN map
        PROVE  \E i2 \in ElemsOf(k2[c]) : i2.r = i.r
    <2>1. PICK j \in DOMAIN k[c] : i = k[c][j]
      BY DEF ElemsOf
    <2>2. new(c)[j] = Remap(i, map) /\ j \in DOMAIN new(c) /\ IsIns(i)
      BY <1>4, <2>1, KernelFacts, GoodFacts
    <2>3. new(c)[j].r = i.r
      BY <1>2, <2>2, RemapFacts
    <2>4. CASE c # b
      <3>1. new(c)[j] \in ElemsOf(k2[c])
        BY <1>1, <2>2, <2>4 DEF ElemsOf
      <3> QED BY <2>3, <3>1
    <2>5. CASE c = b
      <3>1. ss[j] = <<new(b)[j]>>
        BY <1>5, <1>9, <2>2, <2>3, <2>5
      <3>2. ss[j] # <<>>
        BY <3>1
      <3>3. new(b)[j] \in ElemsOf(k2[b])
        BY <1>1, <1>7, <2>2, <2>5, <3>2
      <3> QED BY <2>3, <2>5, <3>3
    <2> QED BY <2>4, <2>5
  <1>10. DOMAIN k2 = DOMAIN k
    BY <1>1
  <1>11. ASSUME NEW v \in AllRefs(k2)
         PROVE  (v \in AllRefs(k) /\ v \notin DOMAIN map) \/ \E w \in DOMAIN map : v = map[w]
    <2>1. PICK c \in DOMAIN k : \E i2 \in ElemsOf(k2[c]) : v \in Refs(i2)
      BY <1>10, ReadAndDefined
    <2>2. PICK i \in ElemsOf(k[c]) : v \in Refs(Remap(i, map))
      BY <1>8, <2>1
    <2>3. IsIns(i)
      BY KernelFacts, GoodFacts
    <2>4. (v \in Refs(i) /\ v \notin DOMAIN map) \/ \E w \in DOMAIN map : v = map[w]
      BY <2>2, <2>3, RemapRefs
    <2> QED BY <2>4, ReadAndDefined
  <1>12. ASSUME NEW v \in Values(k), v \notin DOMAIN map PROVE v \in Values(k2)
    <2>1. PICK c \in DOMAIN k : \E i \in ElemsOf(k[c]) : v = i.r /\ v # NoResult
      BY ReadAndDefined
    <2>2. \E i2 \in ElemsOf(k2[c]) : i2.r = v
      BY <1>9, <1>12, <2>1
    <2> QED BY <1>10, <2>1, <2>2, ReadAndDefined
  <1>13. \A w \in DOMAIN map : map[w] = NoResult \/ (map[w] \in Values(k2) /\ map[w] \notin DOMAIN map)
    BY <1>3, <1>12 DEF Values
  <1>14. \A v \in AllRefs(k2) : v \in AllRefs(k) \/ v \in Values(k2) \/ v = NoResult
    BY <1>11, <1>13
  <1>15. \A v \in Values(k) : v \in AllRefs(k2) => v \in Values(k2)
    <2>1. \A v \in Values(k) : v # NoResult
      BY ReadAndDefined
    <2> QED BY <1>11, <1>12, <1>13, <2>1
  <1> QED BY <1>14, <1>15, NoneLost DEF k2

LEMMA CseDefined ==
  ASSUME NEW k, KInv(k)
  PROVE  Undefined(Cse(k)) \subseteq Undefined(k)
  <1> DEFINE D == DOMAIN k
             t == <<"cse", D>>
             s == <<Body>> \o Ascending(Nested(k))
             N == Len(s)
  <1>1. IsSeq(s) /\ ElemsOf(s) \subseteq D
    BY NestedFacts, OneIsGood, Concat DEF KInv
  <1>2. Cse(k) = EliminateDeadValues(FoldLeft(CseBlock, k, s))
    BY DEF Cse
  <1> HIDE DEF s
  <1>3. PICK f : FoldsTo(f, t, k, s, DOMAIN s) /\ FoldLeft(CseBlock, k, s) = f[DOMAIN s]
    BY <1>1, CseFold
  <1>4. \A z, e : Turn(t, z, e) = CseBlock(z, e)
    BY DEF Turn
  <1> HIDE DEF t
  <1>5. PICK g : Goes(g, t, k, s, f[DOMAIN s])
    BY <1>1, <1>3, FoldGoes
  <1> DEFINE P == {n \in 0..N : KInv(g[n]) /\ DOMAIN g[n] = D /\ Undefined(g[n]) \subseteq Undefined(k)}
  <1>6. N \in Nat /\ \A n \in 1..N : s[n] \in D
    BY <1>1, SeqFacts
  <1>7. N \in P
    <2>1. 0 \in P
      BY <1>5, <1>6 DEF Goes
    <2>2. ASSUME NEW n \in 1..N, n - 1 \in P PROVE n \in P
      <3>1. g[n] = CseBlock(g[n - 1], s[n])
        BY <1>4, <1>5 DEF Goes
      <3>2. KInv(g[n - 1]) /\ DOMAIN g[n - 1] = D /\ Undefined(g[n - 1]) \subseteq Undefined(k)
        BY <2>2
      <3>3. s[n] \in DOMAIN g[n - 1]
        BY <1>6, <3>2
      <3>4. KInv(g[n]) /\ DOMAIN g[n] = D /\ Undefined(g[n]) \subseteq Undefined(g[n - 1])
        BY <3>1, <3>2, <3>3, CseBlockKeeps, CseBlockDefined
      <3> QED BY <1>6, <3>2, <3>4
    <2> HIDE DEF P
    <2> QED BY <1>6, <2>1, <2>2, StepsReach
  <1>8. KInv(FoldLeft(CseBlock, k, s)) /\ Undefined(FoldLeft(CseBlock, k, s)) \subseteq Undefined(k)
    BY <1>3, <1>5, <1>7 DEF Goes
  <1> QED BY <1>2, <1>8, EliminateDefined

-----------------------------------------------------------------------------
(* Instructions that change places: nothing is lost.                       *)
LEMMA OnlyMoved ==
  ASSUME NEW k, NEW k2, Instrs(k2) = Instrs(k)
  PROVE  Undefined(k2) = Undefined(k)
  <1>1. ASSUME NEW x
        PROVE  /\ \A v : v \in AllRefs(x) <=> \E i \in Instrs(x) : v \in Refs(i)
               /\ \A v : v \in Values(x) <=> \E i \in Instrs(x) : v = i.r /\ v # NoResult
    BY ReadAndDefined DEF Instrs
  <1>2. AllRefs(k2) = AllRefs(k)
    BY <1>1
  <1>3. Values(k2) = Values(k)
    BY <1>1
  <1> QED BY <1>2, <1>3 DEF Undefined

(* licm: what leaves a loop's body enters the block before the loop.       *)
LEMMA LicmBlockMoves ==
  ASSUME NEW def, NEW k, KInv(k), NEW b \in DOMAIN k
  PROVE  Instrs(LicmBlock(def, k, b)) = Instrs(k)
  <1> DEFINE blk == k[b]
             inv(j) == LoopInvariants(k, def, b, j)
             loops == {j \in DOMAIN blk : IsLoop(k, blk[j])}
             o(j) == blk[j].b[1]
             hs(j) == [h \in DOMAIN k[o(j)] |-> IF Hoistable(k[o(j)][h], inv(j)) THEN <<k[o(j)][h]>> ELSE <<>>]
             ls(j) == [h \in DOMAIN k[o(j)] |-> IF ~Hoistable(k[o(j)][h], inv(j)) THEN <<k[o(j)][h]>> ELSE <<>>]
             H(j) == FlattenSeq(hs(j))
             L(j) == FlattenSeq(ls(j))
             ss == [j \in DOMAIN blk |-> IF j \in loops THEN Append(H(j), blk[j]) ELSE <<blk[j]>>]
             owner(c) == {j \in loops : o(j) = c}
             J(c) == CHOOSE j \in owner(c) : TRUE
             k2 == LicmBlock(def, k, b)
  <1>1. k2 = [c \in DOMAIN k |-> IF c = b THEN FlattenSeq(ss) ELSE IF owner(c) # {} THEN L(J(c)) ELSE k[c]]
    BY DEF LicmBlock, Splice, Only
  <1>2. Good(blk) /\ Len(blk) \in Nat /\ DOMAIN blk = 1..Len(blk) /\ \A j \in DOMAIN blk : IsIns(blk[j])
    BY KernelFacts, GoodFacts
  <1>3. ASSUME NEW j \in loops
        PROVE  j \in DOMAIN blk /\ o(j) \in DOMAIN k /\ o(j) # b
    <2>1. j \in DOMAIN blk /\ blk[j].k = "Loop" /\ o(j) \in DOMAIN k /\ IsIns(blk[j])
      BY <1>2 DEF IsLoop
    <2>2. <<"block", o(j)>> \in Claims(blk[j])
      BY <2>1, InsFacts, ClaimsOf
    <2>3. <<"block", o(j)>> \in Claimed(k[b])
      BY <2>1, <2>2, ClaimedBy
    <2>4. b < o(j) /\ b \in Nat
      BY <2>3 DEF KInv
    <2> QED BY <2>1, <2>4
  <1>4. ASSUME NEW p \in loops, NEW q \in loops, o(p) = o(q) PROVE p = q
    <2>1. ASSUME NEW j \in loops PROVE <<"block", o(j)>> \in Claims(blk[j])
      <3>1. blk[j].k = "Loop" /\ IsIns(blk[j])
        BY <1>2 DEF IsLoop
      <3> QED BY <3>1, InsFacts, ClaimsOf
    <2>2. p # q => Claims(blk[p]) \cap Claims(blk[q]) = {}
      BY <1>2, <1>3 DEF Good, Apart
    <2> QED BY <1>4, <2>1, <2>2
  <1>5. ASSUME NEW j \in loops
        PROVE  IsSeq(H(j)) /\ ElemsOf(H(j)) \cup ElemsOf(L(j)) = ElemsOf(k[o(j)])
    <2> DEFINE body == k[o(j)]
               h1 == hs(j)
               l1 == ls(j)
    <2>1. Good(body)
      BY <1>3, KernelFacts
    <2>2. h1 = [h \in DOMAIN body |-> h1[h]] /\ l1 = [h \in DOMAIN body |-> l1[h]]
      OBVIOUS
    <2>3. \A h \in DOMAIN body : \/ (h1[h] = <<body[h]>> /\ l1[h] = <<>>)
                                 \/ (h1[h] = <<>> /\ l1[h] = <<body[h]>>)
      OBVIOUS
    <2> HIDE DEF h1, l1, body
    <2>4. \A h \in DOMAIN body : h1[h] \in {<<>>, <<body[h]>>} /\ l1[h] \in {<<>>, <<body[h]>>}
      BY <2>3
    <2>5. /\ Good(FlattenSeq(h1))
          /\ ElemsOf(FlattenSeq(h1)) = {body[h] : h \in {g \in DOMAIN body : h1[g] # <<>>}}
      BY <2>1, <2>2, <2>4, Filtered
    <2>6. ElemsOf(FlattenSeq(l1)) = {body[h] : h \in {g \in DOMAIN body : l1[g] # <<>>}}
      BY <2>1, <2>2, <2>4, Filtered
    <2>7. \A g \in DOMAIN body : h1[g] # <<>> \/ l1[g] # <<>>
      <3>1. \A x : <<x>> # <<>>
        OBVIOUS
      <3> QED BY <2>3, <3>1
    <2>8. ElemsOf(FlattenSeq(h1)) \cup ElemsOf(FlattenSeq(l1)) = ElemsOf(body)
      BY <2>5, <2>6, <2>7 DEF ElemsOf
    <2> QED BY <2>5, <2>8 DEF Good, h1, l1, body
  <1>6. \A c \in DOMAIN k : owner(c) # {} => J(c) \in loops /\ o(J(c)) = c
    OBVIOUS
  <1>7. \A c \in DOMAIN k : owner(c) = {} => \A p \in loops : o(p) # c
    OBVIOUS
  <1> HIDE DEF hs, ls, J
  <1>8. ss = [j \in 1..Len(blk) |-> ss[j]] /\ \A j \in DOMAIN blk : ss[j] = IF j \in loops THEN Append(H(j), blk[j]) ELSE <<blk[j]>>
    BY <1>2
  <1> HIDE DEF ss, k2
  <1>9. ASSUME NEW j \in DOMAIN blk
        PROVE  IsSeq(ss[j]) /\ ElemsOf(ss[j]) = {blk[j]} \cup (IF j \in loops THEN ElemsOf(H(j)) ELSE {})
    <2>1. CASE j \in loops
      <3>1. IsSeq(H(j)) /\ ss[j] = Append(H(j), blk[j])
        BY <1>5, <1>8, <2>1
      <3> DEFINE x == H(j)
                 y == <<blk[j]>>
      <3>2. IsSeq(x) /\ IsSeq(y) /\ ElemsOf(y) = {blk[j]}
        BY <3>1, OneIsGood
      <3>3. ss[j] = x \o y
        <4>1. ss[j] = Append(x, blk[j])
          BY <3>1
        <4> HIDE DEF x
        <4> QED BY <3>2, <4>1, AppendFacts
      <3>4. x = H(j)
        OBVIOUS
      <3> HIDE DEF x, y, H, loops
      <3>5. IsSeq(x \o y) /\ ElemsOf(x \o y) = ElemsOf(x) \cup ElemsOf(y)
        BY <3>2, Concat
      <3>6. IsSeq(ss[j]) /\ ElemsOf(ss[j]) = ElemsOf(H(j)) \cup {blk[j]}
        BY <3>2, <3>3, <3>4, <3>5
      <3> QED BY <2>1, <3>6
    <2>2. CASE j \notin loops
      BY <1>8, <2>2, OneIsGood
    <2> QED BY <2>1, <2>2
  <1>10. ElemsOf(FlattenSeq(ss)) = UNION {ElemsOf(ss[j]) : j \in 1..Len(blk)}
    BY <1>2, <1>8, <1>9, FlattenElems
  <1>11. k2[b] = FlattenSeq(ss) /\ DOMAIN k2 = DOMAIN k
    BY <1>1
  <1>12. \A c \in DOMAIN k : c # b => k2[c] = IF owner(c) # {} THEN L(J(c)) ELSE k[c]
    BY <1>1
  <1>13. \A j \in DOMAIN blk : blk[j] \in ElemsOf(k2[b])
    BY <1>2, <1>9, <1>10, <1>11
  <1>14. \A j \in loops : ElemsOf(H(j)) \subseteq ElemsOf(k2[b])
    BY <1>2, <1>3, <1>9, <1>10, <1>11
  <1>15. \A i \in ElemsOf(k2[b]) : i \in ElemsOf(blk) \/ \E j \in loops : i \in ElemsOf(k[o(j)])
    <2> SUFFICES ASSUME NEW i \in ElemsOf(k2[b])
                 PROVE  i \in ElemsOf(blk) \/ \E j \in loops : i \in ElemsOf(k[o(j)])
      OBVIOUS
    <2>1. PICK j \in DOMAIN blk : i \in ElemsOf(ss[j])
      BY <1>2, <1>10, <1>11
    <2>2. i = blk[j] \/ (j \in loops /\ i \in ElemsOf(H(j)))
      BY <1>9, <2>1
    <2> QED BY <1>2, <1>5, <2>2, GoodFacts
  <1> HIDE DEF loops, H, L, o
  <1>16. ASSUME NEW i \in Instrs(k2) PROVE i \in Instrs(k)
    <2>1. PICK c \in DOMAIN k : i \in ElemsOf(k2[c])
      BY <1>11 DEF Instrs
    <2>2. CASE c = b
      BY <1>3, <1>15, <2>1, <2>2 DEF Instrs
    <2>3. CASE c # b
      <3>1. owner(c) # {} => i \in ElemsOf(k[c])
        BY <1>5, <1>6, <1>12, <2>1, <2>3
      <3>2. i \in ElemsOf(k[c])
        BY <1>12, <2>1, <2>3, <3>1
      <3> QED BY <3>2 DEF Instrs
    <2> QED BY <2>2, <2>3
  <1>17. ASSUME NEW i \in Instrs(k) PROVE i \in Instrs(k2)
    <2>1. PICK c \in DOMAIN k : i \in ElemsOf(k[c])
      BY DEF Instrs
    <2>2. CASE c = b
      <3>1. PICK j \in DOMAIN blk : i = blk[j]
        BY <2>1, <2>2 DEF ElemsOf
      <3> QED BY <1>11, <1>13, <3>1 DEF Instrs
    <2>3. CASE c # b /\ owner(c) = {}
      BY <1>11, <1>12, <2>1, <2>3 DEF Instrs
    <2>4. CASE c # b /\ owner(c) # {}
      <3>1. J(c) \in loops /\ o(J(c)) = c
        BY <1>6, <2>4
      <3>2. i \in ElemsOf(H(J(c))) \/ i \in ElemsOf(L(J(c)))
        BY <1>5, <2>1, <3>1
      <3>3. k2[c] = L(J(c))
        BY <1>12, <2>4
      <3>4. i \in ElemsOf(k2[b]) \/ i \in ElemsOf(k2[c])
        BY <1>14, <3>1, <3>2, <3>3
      <3> QED BY <1>11, <3>4 DEF Instrs
    <2> QED BY <2>2, <2>3, <2>4
  <1> QED BY <1>16, <1>17 DEF k2

LEMMA LicmDefined ==
  ASSUME NEW k, KInv(k)
  PROVE  Undefined(Licm(k)) \subseteq Undefined(k)
  <1> DEFINE D == DOMAIN k
             t == <<"licm", k>>
             s == Append(Descending(Nested(k)), Body)
             N == Len(s)
  <1>1. IsSeq(s) /\ ElemsOf(s) \subseteq D
    <2> DEFINE x == Descending(Nested(k))
    <2>1. IsSeq(x) /\ ElemsOf(x) = D \ {Body}
      BY NestedFacts
    <2>2. Body \in D
      BY DEF KInv
    <2> HIDE DEF x
    <2>3. IsSeq(Append(x, Body)) /\ ElemsOf(Append(x, Body)) = ElemsOf(x) \cup {Body}
      BY <2>1, AppendFacts
    <2> QED BY <2>1, <2>2, <2>3 DEF x
  <1>2. PICK f : FoldsTo(f, t, k, s, DOMAIN s) /\ Licm(k) = EliminateDeadValues(f[DOMAIN s])
    BY <1>1, LicmFold
  <1> HIDE DEF s
  <1>3. \A z, e : Turn(t, z, e) = LicmBlock(DefBlocks(k), z, e)
    BY DEF Turn
  <1> HIDE DEF t
  <1>4. PICK g : Goes(g, t, k, s, f[DOMAIN s])
    BY <1>1, <1>2, FoldGoes
  <1> DEFINE P == {n \in 0..N : KInv(g[n]) /\ DOMAIN g[n] = D /\ Undefined(g[n]) \subseteq Undefined(k)}
  <1>5. N \in Nat /\ \A n \in 1..N : s[n] \in D
    BY <1>1, SeqFacts
  <1>6. N \in P
    <2>1. 0 \in P
      BY <1>4, <1>5 DEF Goes
    <2>2. ASSUME NEW n \in 1..N, n - 1 \in P PROVE n \in P
      <3>1. g[n] = LicmBlock(DefBlocks(k), g[n - 1], s[n])
        BY <1>3, <1>4 DEF Goes
      <3>2. KInv(g[n - 1]) /\ DOMAIN g[n - 1] = D /\ Undefined(g[n - 1]) \subseteq Undefined(k)
        BY <2>2
      <3>3. s[n] \in DOMAIN g[n - 1]
        BY <1>5, <3>2
      <3>4. KInv(g[n]) /\ DOMAIN g[n] = D /\ Undefined(g[n]) = Undefined(g[n - 1])
        BY <3>1, <3>2, <3>3, LicmBlockKeeps, LicmBlockMoves, OnlyMoved
      <3> QED BY <1>5, <3>2, <3>4
    <2> HIDE DEF P
    <2> QED BY <1>5, <2>1, <2>2, StepsReach
  <1>7. KInv(f[DOMAIN s]) /\ Undefined(f[DOMAIN s]) \subseteq Undefined(k)
    BY <1>4, <1>6 DEF Goes
  <1> QED BY <1>2, <1>7, EliminateDefined

-----------------------------------------------------------------------------
(* value_sink: every instruction stays, where it was or before its use.    *)
LEMMA SinkBlockMoves ==
  ASSUME NEW k, KInv(k), NEW b \in DOMAIN k
  PROVE  ElemsOf(SinkBlock(k, k[b])) = ElemsOf(k[b])
  <1> DEFINE blk == k[b]
             to(j) == SinkTo(k, blk, j)
             src(n) == {j \in DOMAIN blk : n \in to(j)}
             arrive(n) == Ascending(src(n))
             first(n) == [h \in DOMAIN arrive(n) |-> blk[arrive(n)[h]]]
             last(n) == IF to(n) = {} THEN <<blk[n]>> ELSE <<>>
             ss == [n \in DOMAIN blk |-> first(n) \o last(n)]
  <1>1. SinkBlock(k, blk) = FlattenSeq(ss)
    BY DEF SinkBlock, Splice
  <1>2. Good(blk) /\ Len(blk) \in Nat /\ DOMAIN blk = 1..Len(blk)
    BY KernelFacts, GoodFacts
  <1>3. \A j \in DOMAIN blk : \A n \in to(j) : n \in DOMAIN blk
    BY SinkToFacts
  <1>4. ss = [n \in 1..Len(blk) |-> ss[n]] /\ \A n \in DOMAIN blk : ss[n] = first(n) \o last(n)
    BY <1>2
  <1> HIDE DEF to, ss
  <1>5. ASSUME NEW n \in DOMAIN blk
        PROVE  IsSeq(first(n)) /\ ElemsOf(first(n)) = {blk[j] : j \in src(n)}
    <2> DEFINE S == src(n)
               s == Ascending(S)
               new == [h \in DOMAIN s |-> blk[s[h]]]
    <2>1. S \in SUBSET (Nat \ {0}) /\ IsFiniteSet(S)
      <3>1. IsFiniteSet(DOMAIN blk)
        BY <1>2, FS_Interval
      <3>2. S \subseteq DOMAIN blk /\ DOMAIN blk \subseteq Nat \ {0}
        BY <1>2
      <3> HIDE DEF S
      <3> QED BY <3>1, <3>2, FS_Subset
    <2> SUFFICES IsSeq(new) /\ ElemsOf(new) = {blk[j] : j \in S}
      OBVIOUS
    <2>2. new = [h \in DOMAIN s |-> blk[s[h]]]
      OBVIOUS
    <2> HIDE DEF S, new
    <2>3. IsSeq(s) /\ ElemsOf(s) = S
      BY <2>1, AscendingFacts
    <2> HIDE DEF s
    <2>4. Len(s) \in Nat /\ DOMAIN s = 1..Len(s)
      BY <2>3, SeqFacts
    <2>5. new = [h \in 1..Len(s) |-> new[h]] /\ \A h \in 1..Len(s) : new[h] = blk[s[h]]
      BY <2>2, <2>4
    <2>6. IsSeq(new) /\ ElemsOf(new) = {new[h] : h \in 1..Len(s)}
      BY <2>4, <2>5, FunctionIsSeq
    <2>7. {new[h] : h \in 1..Len(s)} = {blk[j] : j \in S}
      BY <2>3, <2>4, <2>5 DEF ElemsOf
    <2> QED BY <2>6, <2>7
  <1>6. ASSUME NEW n \in DOMAIN blk
        PROVE  IsSeq(last(n)) /\ ElemsOf(last(n)) = IF to(n) = {} THEN {blk[n]} ELSE {}
    BY OneIsGood, NothingIsGood
  <1>7. \A n \in DOMAIN blk : src(n) \subseteq DOMAIN blk
    OBVIOUS
  <1>8. \A j \in DOMAIN blk : to(j) = {} \/ \E n \in DOMAIN blk : j \in src(n)
    BY <1>3
  <1> HIDE DEF first, last, src
  <1>9. ASSUME NEW n \in DOMAIN blk
        PROVE  IsSeq(ss[n]) /\ ElemsOf(ss[n]) = {blk[j] : j \in src(n)} \cup (IF to(n) = {} THEN {blk[n]} ELSE {})
    <2> DEFINE x == first(n)
               y == last(n)
    <2>1. IsSeq(x) /\ IsSeq(y) /\ ss[n] = x \o y
      BY <1>4, <1>5, <1>6
    <2>2. ElemsOf(x) = {blk[j] : j \in src(n)} /\ ElemsOf(y) = IF to(n) = {} THEN {blk[n]} ELSE {}
      BY <1>5, <1>6
    <2> HIDE DEF x, y
    <2>3. IsSeq(x \o y) /\ ElemsOf(x \o y) = ElemsOf(x) \cup ElemsOf(y)
      BY <2>1, Concat
    <2> QED BY <2>1, <2>2, <2>3
  <1>10. ElemsOf(FlattenSeq(ss)) = UNION {ElemsOf(ss[n]) : n \in 1..Len(blk)}
    BY <1>2, <1>4, <1>9, FlattenElems
  <1>11. ASSUME NEW j \in DOMAIN blk PROVE blk[j] \in ElemsOf(FlattenSeq(ss))
    <2>1. \E n \in DOMAIN blk : blk[j] \in ElemsOf(ss[n])
      BY <1>8, <1>9
    <2> QED BY <1>2, <1>10, <2>1
  <1>12. ASSUME NEW i \in ElemsOf(FlattenSeq(ss)) PROVE i \in ElemsOf(blk)
    <2>1. PICK n \in DOMAIN blk : i \in ElemsOf(ss[n])
      BY <1>2, <1>10
    <2>2. i \in {blk[j] : j \in src(n)} \/ i = blk[n]
      BY <1>9, <2>1
    <2> QED BY <1>7, <2>2 DEF ElemsOf
  <1>13. ElemsOf(FlattenSeq(ss)) = ElemsOf(blk)
    BY <1>11, <1>12 DEF ElemsOf
  <1> QED BY <1>1, <1>13

LEMMA ValueSinkDefined ==
  ASSUME NEW k, KInv(k)
  PROVE  Undefined(ValueSink(k)) \subseteq Undefined(k)
  <1> DEFINE k2 == [b \in DOMAIN k |-> SinkBlock(k, k[b])]
  <1>1. ValueSink(k) = EliminateDeadValues(k2)
    BY DEF ValueSink
  <1>2. DOMAIN k2 = DOMAIN k /\ \A b \in DOMAIN k : k2[b] = SinkBlock(k, k[b])
    OBVIOUS
  <1> HIDE DEF k2
  <1>3. \A b \in DOMAIN k : Good(k2[b]) /\ Claimed(k2[b]) \subseteq Claimed(k[b])
    BY <1>2, SinkBlockKeeps
  <1>4. KInv(k2)
    BY <1>2, <1>3, BlockwiseKeeps
  <1>5. Instrs(k2) = Instrs(k)
    BY <1>2, SinkBlockMoves DEF Instrs
  <1>6. Undefined(k2) = Undefined(k)
    BY <1>5, OnlyMoved
  <1> QED BY <1>1, <1>4, <1>6, EliminateDefined

-----------------------------------------------------------------------------
(* fusion: the places that read a value are finitely many, so that a value *)
(* counted once is read in one place.                                      *)
LEMMA SitesFinite ==
  ASSUME NEW blk, Good(blk), NEW v
  PROVE  IsFiniteSet(UseSites(blk, v))
  <1> DEFINE At(a, m) == {<<m, n>> : n \in {x \in DOMAIN a : a[x] = v}}
  <1>1. ASSUME NEW a, IsSeq(a), NEW m
        PROVE  IsFiniteSet(At(a, m))
    <2> DEFINE S == {x \in DOMAIN a : a[x] = v}
               f == [n \in S |-> <<m, n>>]
    <2>1. IsFiniteSet(DOMAIN a) /\ S \in SUBSET DOMAIN a
      BY <1>1, SeqFinite
    <2> HIDE DEF S
    <2>2. IsFiniteSet(S)
      BY <2>1, FS_Subset
    <2>3. {<<m, n>> : n \in S} = {f[n] : n \in S}
      OBVIOUS
    <2> HIDE DEF f
    <2>4. IsFiniteSet({f[n] : n \in S})
      BY <2>2, FiniteImage
    <2> QED BY <2>3, <2>4 DEF S
  <1>2. ASSUME NEW i, IsIns(i) PROVE IsFiniteSet(OperandSites(i, v))
    <2>1. OperandSites(i, v) = IF i.k = "Fused" THEN UNION {At(i.f[m].a, m) : m \in DOMAIN i.f} ELSE At(i.a, 0)
      BY DEF OperandSites
    <2> HIDE DEF At
    <2>2. CASE i.k # "Fused"
      <3>1. IsSeq(i.a)
        BY <1>2, InsFacts, SeqFacts
      <3> QED BY <1>1, <2>1, <2>2, <3>1
    <2>3. CASE i.k = "Fused"
      <3> DEFINE g == [m \in DOMAIN i.f |-> At(i.f[m].a, m)]
                 S == {g[m] : m \in DOMAIN i.f}
      <3>1. IsSeq(i.f) /\ \A m \in DOMAIN i.f : IsSeq(i.f[m].a)
        <4>1. IsChain(i.f)
          BY <1>2, <2>3 DEF IsIns
        <4>2. ASSUME NEW m \in DOMAIN i.f PROVE i.f[m].a \in Seq(Int)
          BY <4>1 DEF IsChain, ElemsOf
        <4> QED BY <4>1, <4>2, SeqFacts DEF IsChain
      <3>2. OperandSites(i, v) = UNION S
        BY <2>1, <2>3
      <3>3. IsFiniteSet(DOMAIN i.f)
        BY <3>1, SeqFinite
      <3>4. \A T \in S : IsFiniteSet(T)
        BY <1>1, <3>1
      <3> HIDE DEF g
      <3>5. IsFiniteSet(S)
        BY <3>3, FiniteImage
      <3> HIDE DEF S
      <3> QED BY <3>2, <3>4, <3>5, FS_UNION
    <2> QED BY <2>2, <2>3
  <1> DEFINE g == [j \in DOMAIN blk |-> {j} \X OperandSites(blk[j], v)]
             S == {g[j] : j \in DOMAIN blk}
  <1>3. IsFiniteSet(DOMAIN blk)
    BY GoodFacts, SeqFinite
  <1>4. ASSUME NEW j \in DOMAIN blk PROVE IsFiniteSet({j} \X OperandSites(blk[j], v))
    <2> DEFINE T == OperandSites(blk[j], v)
    <2>1. IsFiniteSet(T) /\ IsFiniteSet({j})
      BY <1>2, GoodFacts, FS_Singleton
    <2> HIDE DEF T
    <2>2. IsFiniteSet({j} \X T)
      BY <2>1, FS_Product
    <2> QED BY <2>2 DEF T
  <1>5. \A T \in S : IsFiniteSet(T)
    BY <1>4
  <1>6. UseSites(blk, v) = UNION S
    BY DEF UseSites
  <1> HIDE DEF g
  <1>7. IsFiniteSet(S)
    BY <1>3, FiniteImage
  <1> HIDE DEF S
  <1> QED BY <1>5, <1>6, <1>7, FS_UNION

(* A value counted once is read by one instruction.                        *)
LEMMA OneReader ==
  ASSUME NEW blk, Good(blk), NEW v, Cardinality(UseSites(blk, v)) = 1,
         NEW p \in DOMAIN blk, v \in Refs(blk[p]), NEW q \in DOMAIN blk, v \in Refs(blk[q])
  PROVE  p = q
  <1> DEFINE S == UseSites(blk, v)
  <1>1. PICK x : S = {x}
    <2>1. IsFiniteSet(S) /\ Cardinality(S) = 1
      BY SitesFinite
    <2> HIDE DEF S
    <2> QED BY <2>1, FS_Singleton
  <1>2. PICK y : y \in OperandSites(blk[p], v)
    BY OperandSitesFacts
  <1>3. PICK z : z \in OperandSites(blk[q], v)
    BY OperandSitesFacts
  <1>4. <<p, y>> \in S /\ <<q, z>> \in S
    BY <1>2, <1>3 DEF UseSites
  <1> HIDE DEF S
  <1> QED BY <1>1, <1>4

(* An elementwise instruction reads its first operand.                     *)
LEMMA ReadsFirst ==
  ASSUME NEW i, IsIns(i), i.k \in Elementwise
  PROVE  i.a[1] \in Refs(i) /\ i.k # "Fused"
  <1>1. i.a \in Seq(Nat) /\ Len(i.a) >= 1
    BY InsFacts DEF Elementwise
  <1>2. 1 \in DOMAIN i.a /\ i.k # "Fused"
    BY <1>1 DEF Elementwise
  <1> QED BY <1>2 DEF Refs, ElemsOf

(* A strand: ever later elementwise instructions, not in fused, each of    *)
(* which nothing but the next reads.                                       *)
Link(blk, pinned, p, q) ==
    /\ blk[p].r = blk[q].a[1] /\ blk[p].r \notin pinned
    /\ Cardinality(UseSites(blk, blk[p].r)) = 1
Strand(blk, pinned, fused, c) ==
    /\ Picks(c, blk)
    /\ \A n \in DOMAIN c : blk[c[n]].k \in Elementwise /\ c[n] \notin fused
    /\ \A m, n \in DOMAIN c : m < n => c[m] < c[n]
    /\ \A n \in DOMAIN c : n < Len(c) => Link(blk, pinned, c[n], c[n + 1])

LEMMA StrandGrows ==
  ASSUME NEW blk, Good(blk), NEW pinned, NEW fused, NEW c, Strand(blk, pinned, fused, c),
         NEW p \in DOMAIN blk, p < c[1]
  PROVE  LET d == Longer(blk, fused, pinned, c, p)
         IN Strand(blk, pinned, fused, d) /\ p <= d[1]
  <1> DEFINE d == Longer(blk, fused, pinned, c, p)
  <1>0. DOMAIN blk \subseteq Nat
    BY GoodFacts
  <1>1. c \in Seq(DOMAIN blk) /\ Len(c) \in Nat /\ DOMAIN c = 1..Len(c) /\ Len(c) >= 1
    BY DEF Strand, Picks
  <1>2. CASE d = c
    <2>1. c[1] \in Nat /\ p \in Nat
      BY <1>0, <1>1
    <2> QED BY <1>2, <2>1
  <1>3. CASE d # c
    <2>1. d = <<p>> \o c /\ Feeds(blk, fused, pinned, p, blk[Head(c)].a[1])
      BY <1>3 DEF Longer
    <2>2. Head(c) = c[1]
      BY <1>1
    <2>3. Link(blk, pinned, p, c[1]) /\ blk[p].k \in Elementwise /\ p \notin fused
      BY <2>1, <2>2 DEF Feeds, Link
    <2>4. /\ d \in Seq(DOMAIN blk) /\ Len(d) = Len(c) + 1 /\ DOMAIN d = 1..(Len(c) + 1)
          /\ d[1] = p /\ \A n \in 2..(Len(c) + 1) : d[n] = c[n - 1]
      BY <1>1, <2>1
    <2> HIDE DEF d
    <2>5. Picks(d, blk)
      BY <1>1, <2>4 DEF Picks
    <2>6. \A n \in DOMAIN d : n = 1 \/ (n \in 2..(Len(c) + 1) /\ n - 1 \in DOMAIN c /\ d[n] = c[n - 1])
      BY <1>1, <2>4
    <2>7. \A n \in DOMAIN d : blk[d[n]].k \in Elementwise /\ d[n] \notin fused
      BY <2>3, <2>4, <2>6 DEF Strand
    <2>8. ASSUME NEW m \in DOMAIN d, NEW n \in DOMAIN d, m < n PROVE d[m] < d[n]
      <3>1. n - 1 \in DOMAIN c /\ d[n] = c[n - 1] /\ m \in Nat /\ n \in Nat
        BY <1>1, <2>4, <2>6, <2>8
      <3>2. \A x, y \in DOMAIN c : x < y => c[x] < c[y]
        BY DEF Strand
      <3>3. \A x \in DOMAIN c : c[x] \in Nat
        BY <1>0, <1>1
      <3>4. CASE m = 1
        <4>1. p < c[n - 1]
          <5>1. n - 1 = 1 \/ 1 < n - 1
            BY <1>1, <3>1
          <5>2. c[1] <= c[n - 1] /\ c[1] \in Nat /\ c[n - 1] \in Nat /\ p \in Nat
            BY <1>0, <1>1, <3>1, <3>2, <3>3, <5>1
          <5> QED BY <5>2
        <4> QED BY <2>4, <3>1, <3>4, <4>1
      <3>5. CASE m # 1
        <4>1. m - 1 \in DOMAIN c /\ d[m] = c[m - 1] /\ m - 1 < n - 1
          BY <2>6, <2>8, <3>1, <3>5
        <4> QED BY <3>1, <3>2, <4>1
      <3> QED BY <3>4, <3>5
    <2>9. ASSUME NEW n \in DOMAIN d, n < Len(d) PROVE Link(blk, pinned, d[n], d[n + 1])
      <3>1. d[n + 1] = c[n] /\ n \in Nat /\ n \in DOMAIN c
        BY <1>1, <2>4, <2>9
      <3>2. CASE n = 1
        BY <2>3, <2>4, <3>1, <3>2
      <3>3. CASE n # 1
        <4>1. n - 1 \in DOMAIN c /\ d[n] = c[n - 1] /\ n - 1 < Len(c) /\ (n - 1) + 1 = n
          BY <1>1, <2>4, <2>6, <2>9, <3>1, <3>3
        <4>2. Link(blk, pinned, c[n - 1], c[(n - 1) + 1])
          BY <4>1 DEF Strand
        <4> QED BY <3>1, <4>1, <4>2
      <3> QED BY <3>2, <3>3
    <2>10. Strand(blk, pinned, fused, d)
      BY <2>5, <2>7, <2>8, <2>9 DEF Strand
    <2>11. p <= d[1]
      BY <1>0, <2>4
    <2> QED BY <2>10, <2>11 DEF d
  <1> QED BY <1>2, <1>3

LEMMA ChainStrand ==
  ASSUME NEW blk, Good(blk), NEW cur \in DOMAIN blk, NEW fused, NEW pinned,
         blk[cur].k \in Elementwise, cur \notin fused
  PROVE  Strand(blk, pinned, fused, Chain(blk, cur, fused, pinned))
  <1> DEFINE t == <<"chain", blk, fused, pinned>>
             s == Reverse(Count(cur - 1))
             N == cur - 1
             x == <<cur>>
  <1>1. Len(blk) \in Nat /\ DOMAIN blk = 1..Len(blk) /\ cur \in Nat /\ N \in Nat /\ cur <= Len(blk)
    BY GoodFacts
  <1>2. IsSeq(s) /\ Len(s) = N /\ \A n \in 1..N : s[n] = cur - n
    <2> DEFINE c == Count(cur - 1)
    <2>1. IsSeq(c) /\ Len(c) = N /\ \A h \in 1..N : c[h] = h
      <3>1. c = [h \in 1..N |-> h] /\ IsSeq(c)
        BY <1>1, CountFacts DEF Count
      <3> HIDE DEF c
      <3> QED BY <1>1, <3>1, FunctionIsSeq
    <2> HIDE DEF c
    <2>2. IsSeq(Reverse(c)) /\ Len(Reverse(c)) = N
      BY <2>1, ReverseFacts
    <2>3. \A n \in 1..N : Reverse(c)[n] = cur - n
      BY <1>1, <2>1 DEF Reverse
    <2> QED BY <2>2, <2>3 DEF c
  <1>3. s = Reverse(Count(cur - 1))
    OBVIOUS
  <1> HIDE DEF s
  <1>4. PICK f : FoldsTo(f, t, x, s, DOMAIN s) /\ Chain(blk, cur, fused, pinned) = f[DOMAIN s]
    BY <1>2, <1>3, ChainFold
  <1>5. \A z, e : Turn(t, z, e) = Longer(blk, fused, pinned, z, e)
    BY DEF Turn
  <1>6. Strand(blk, pinned, fused, x) /\ x[1] = cur
    <2>1. Picks(x, blk)
      BY OnePicks
    <2>2. DOMAIN x = {1} /\ x[1] = cur /\ Len(x) = 1
      OBVIOUS
    <2> HIDE DEF x
    <2> QED BY <2>1, <2>2 DEF Strand
  <1> HIDE DEF t, x
  <1>7. PICK g : Goes(g, t, x, s, f[DOMAIN s])
    BY <1>2, <1>4, FoldGoes
  <1> DEFINE P == {n \in 0..N : Strand(blk, pinned, fused, g[n]) /\ cur - n <= g[n][1]}
  <1>8. N \in P
    <2>1. 0 \in P
      BY <1>1, <1>6, <1>7 DEF Goes
    <2>2. ASSUME NEW n \in 1..N, n - 1 \in P PROVE n \in P
      <3>1. g[n] = Longer(blk, fused, pinned, g[n - 1], s[n]) /\ s[n] = cur - n
        BY <1>2, <1>5, <1>7 DEF Goes
      <3>2. Strand(blk, pinned, fused, g[n - 1]) /\ cur - (n - 1) <= g[n - 1][1]
        BY <2>2
      <3> DEFINE p == cur - n
      <3>3. p \in DOMAIN blk /\ p < cur - (n - 1)
        BY <1>1
      <3>4. g[n - 1][1] \in Nat
        <4>1. g[n - 1] \in Seq(DOMAIN blk) /\ g[n - 1] # <<>>
          BY <3>2 DEF Strand, Picks
        <4>2. g[n - 1][1] \in DOMAIN blk
          BY <4>1
        <4> QED BY <1>1, <4>2
      <3>5. p < g[n - 1][1]
        BY <1>1, <3>2, <3>3, <3>4
      <3>6. Strand(blk, pinned, fused, g[n]) /\ p <= g[n][1]
        <4> DEFINE c == g[n - 1]
                   q == p
        <4>1. Strand(blk, pinned, fused, c) /\ q \in DOMAIN blk /\ q < c[1] /\ g[n] = Longer(blk, fused, pinned, c, q)
          BY <3>1, <3>2, <3>3, <3>5
        <4> HIDE DEF c, q
        <4>2. Strand(blk, pinned, fused, g[n]) /\ q <= g[n][1]
          BY <4>1, StrandGrows
        <4> QED BY <4>2 DEF q
      <3> QED BY <3>6
    <2> HIDE DEF P
    <2> QED BY <1>1, <2>1, <2>2, StepsReach
  <1>9. Strand(blk, pinned, fused, g[N])
    BY <1>8
  <1> QED BY <1>2, <1>4, <1>7, <1>9 DEF Goes

(* The chains of a block are strands that share no instruction.            *)
LEMMA ChainsApart ==
  ASSUME NEW blk, Good(blk), NEW pinned
  PROVE  /\ \A c \in Chains(blk, pinned) : Strand(blk, pinned, {}, c)
         /\ \A c, d \in Chains(blk, pinned) : c # d => ElemsOf(c) \cap ElemsOf(d) = {}
  <1> DEFINE t == <<"chains", blk, pinned>>
             s == Reverse(Count(Len(blk)))
             N == Len(s)
             x == [chains |-> {}, fused |-> {}]
             Tied(st) == /\ \A c \in st.chains : Strand(blk, pinned, {}, c) /\ ElemsOf(c) \subseteq st.fused
                         /\ \A c, d \in st.chains : c # d => ElemsOf(c) \cap ElemsOf(d) = {}
  <1>1. Len(blk) \in Nat /\ DOMAIN blk = 1..Len(blk)
    BY GoodFacts
  <1>2. IsSeq(s) /\ N \in Nat /\ \A n \in 1..N : s[n] \in DOMAIN blk
    <2> DEFINE c == Count(Len(blk))
    <2>1. IsSeq(c) /\ \A h \in DOMAIN c : c[h] \in 1..Len(blk)
      BY <1>1, CountFacts
    <2> HIDE DEF c
    <2>2. \A h \in ElemsOf(c) : h \in DOMAIN blk
      BY <1>1, <2>1 DEF ElemsOf
    <2> DEFINE r == Reverse(c)
    <2>3. IsSeq(r) /\ ElemsOf(r) = ElemsOf(c)
      BY <2>1, ReverseFacts
    <2>4. r = s
      BY DEF c
    <2> HIDE DEF r, s
    <2>5. Len(r) \in Nat /\ \A n \in 1..Len(r) : r[n] \in ElemsOf(r)
      BY <2>3, SeqFacts
    <2> QED BY <2>2, <2>3, <2>4, <2>5
  <1>3. s = Reverse(Count(Len(blk)))
    OBVIOUS
  <1> HIDE DEF s
  <1>4. PICK f : FoldsTo(f, t, x, s, DOMAIN s) /\ Chains(blk, pinned) = f[DOMAIN s].chains
    BY <1>2, <1>3, ChainsFold
  <1>5. \A z, e : Turn(t, z, e) = WithChain(blk, pinned, z, e)
    BY DEF Turn
  <1>6. Tied(x)
    OBVIOUS
  <1> HIDE DEF t, x
  <1>7. ASSUME NEW z, Tied(z), NEW j \in DOMAIN blk PROVE Tied(WithChain(blk, pinned, z, j))
    <2> DEFINE free == blk[j].k \in Elementwise /\ j \notin z.fused
               d == Chain(blk, j, z.fused, pinned)
               c == IF free THEN d ELSE <<j>>
               w == WithChain(blk, pinned, z, j)
               y == [chains |-> z.chains \cup {c}, fused |-> z.fused \cup ElemsOf(c)]
    <2> SUFFICES Tied(w)
      OBVIOUS
    <2>1. w = IF Len(c) >= 2 /\ blk[j].r \notin pinned THEN y ELSE z
      BY DEF WithChain
    <2>2. CASE ~free
      <3>1. c = <<j>>
        BY <2>2
      <3>2. Len(c) = 1
        BY <3>1
      <3> HIDE DEF c, w, y
      <3>3. ~(Len(c) >= 2)
        BY <3>2
      <3>4. w = z
        BY <2>1, <3>3
      <3> HIDE DEF Tied
      <3> QED BY <1>7, <3>4
    <2>3. CASE free
      <3>1. c = d
        BY <2>3
      <3>2. Strand(blk, pinned, z.fused, d)
        BY <2>3, ChainStrand
      <3> HIDE DEF d, free
      <3>3. Strand(blk, pinned, {}, d) /\ ElemsOf(d) \cap z.fused = {}
        BY <3>2 DEF Strand, ElemsOf
      <3>4. y.chains = z.chains \cup {d} /\ y.fused = z.fused \cup ElemsOf(d)
        BY <3>1
      <3> HIDE DEF c, w, y
      <3>5. Tied(y)
        BY <1>7, <3>3, <3>4
      <3>6. w = y \/ w = z
        BY <2>1
      <3> HIDE DEF Tied
      <3> QED BY <1>7, <3>5, <3>6
    <2> QED BY <2>2, <2>3
  <1>8. PICK g : Goes(g, t, x, s, f[DOMAIN s])
    BY <1>2, <1>4, FoldGoes
  <1> HIDE DEF Tied
  <1> DEFINE P == {n \in 0..N : Tied(g[n])}
  <1>9. N \in P
    <2>1. 0 \in P
      BY <1>2, <1>6, <1>8 DEF Goes
    <2>2. ASSUME NEW n \in 1..N, n - 1 \in P PROVE n \in P
      <3>1. g[n] = WithChain(blk, pinned, g[n - 1], s[n])
        BY <1>5, <1>8 DEF Goes
      <3>2. Tied(g[n - 1])
        BY <2>2
      <3>3. Tied(g[n])
        BY <1>2, <1>7, <3>1, <3>2
      <3> QED BY <1>2, <3>3
    <2> HIDE DEF P
    <2> QED BY <1>2, <2>1, <2>2, StepsReach
  <1>10. Tied(f[DOMAIN s])
    BY <1>8, <1>9 DEF Goes
  <1> QED BY <1>4, <1>10 DEF Tied

(* A fused operation reads what a member reads that is no earlier member's *)
(* value.                                                                  *)
LEMMA FusedReads ==
  ASSUME NEW blk, Good(blk), NEW pinned, NEW c, Strand(blk, pinned, {}, c), NEW v \in Refs(FusedOp(blk, c))
  PROVE  \E n \in DOMAIN c : v \in Refs(blk[c[n]]) /\ \A p \in 1..n - 1 : blk[c[p]].r # v
  <1> DEFINE member(n, w) == {p \in 1..n - 1 : blk[c[p]].r = w}
             operand(n, w) == IF member(n, w) = {} THEN w ELSE -(CHOOSE p \in member(n, w) : TRUE)
             arg(n) == [h \in DOMAIN blk[c[n]].a |-> operand(n, blk[c[n]].a[h])]
             sub(n) == [k |-> blk[c[n]].k, f |-> blk[c[n]].f, a |-> arg(n)]
             f == [n \in DOMAIN c |-> sub(n)]
             i == FusedOp(blk, c)
  <1>1. i = Ins("Fused", f, <<>>, <<>>, blk[Last(c)].r)
    BY DEF FusedOp
  <1>2. /\ Len(c) \in Nat /\ DOMAIN c = 1..Len(c)
        /\ \A n \in DOMAIN c : c[n] \in DOMAIN blk /\ IsIns(blk[c[n]]) /\ blk[c[n]].k \in Elementwise /\ n \in Int
    <2>1. c \in Seq(DOMAIN blk)
      BY DEF Strand, Picks
    <2>2. Len(c) \in Nat /\ DOMAIN c = 1..Len(c) /\ \A n \in DOMAIN c : c[n] \in DOMAIN blk /\ n \in Int
      BY <2>1
    <2> QED BY <2>2, GoodFacts DEF Strand
  <1>3. i.k = "Fused" /\ i.f = f
    BY <1>1 DEF Ins
  <1>4. v > 0 /\ v \in UNION {ElemsOf(e.a) : e \in ElemsOf(f)}
    BY <1>3 DEF Refs
  <1>5. PICK n \in DOMAIN c : v \in ElemsOf(sub(n).a)
    <2>1. DOMAIN f = DOMAIN c /\ \A n \in DOMAIN c : f[n] = sub(n)
      OBVIOUS
    <2> HIDE DEF f, sub
    <2>2. PICK n \in DOMAIN f : v \in ElemsOf(f[n].a)
      BY <1>4 DEF ElemsOf
    <2> QED BY <2>1, <2>2
  <1>6. PICK h \in DOMAIN blk[c[n]].a : v = operand(n, blk[c[n]].a[h])
    BY <1>5 DEF ElemsOf
  <1> DEFINE w == blk[c[n]].a[h]
  <1>7. member(n, w) = {}
    <2> SUFFICES ASSUME member(n, w) # {} PROVE FALSE
      OBVIOUS
    <2> DEFINE p == CHOOSE p \in member(n, w) : TRUE
    <2>1. p \in 1..n - 1 /\ n \in Int
      BY <1>2
    <2>2. v = -p
      BY <1>6
    <2> HIDE DEF p
    <2>3. p \in Int /\ p >= 1
      BY <2>1
    <2> QED BY <1>4, <2>2, <2>3
  <1>8. v = w
    BY <1>6, <1>7
  <1>9. v \in Refs(blk[c[n]])
    <2>1. blk[c[n]].k # "Fused"
      BY <1>2, ReadsFirst
    <2> QED BY <1>8, <2>1 DEF Refs, ElemsOf
  <1>10. \A p \in 1..n - 1 : blk[c[p]].r # v
    BY <1>7, <1>8
  <1> QED BY <1>9, <1>10

(* fusion: a value that stops being defined was read by the next member of *)
(* its chain only, in the same block.                                      *)
LEMMA FuseBlockDefined ==
  ASSUME NEW blk, Good(blk), NEW pinned
  PROVE  LET out == FuseBlock(blk, pinned)
         IN /\ BlockRefs(out) \subseteq BlockRefs(blk)
            /\ \A v \in Defs(blk) : v \in Defs(out) \/ (v \notin BlockRefs(out) /\ v \notin pinned)
  <1> DEFINE chains == Chains(blk, pinned)
             of(j) == {c \in chains : j \in ElemsOf(c)}
             C(j) == CHOOSE x \in of(j) : TRUE
             new(j) == IF of(j) = {} THEN <<blk[j]>>
                       ELSE IF j = Last(C(j)) THEN <<FusedOp(blk, C(j))>> ELSE <<>>
             ss == [j \in DOMAIN blk |-> new(j)]
             out == FuseBlock(blk, pinned)
  <1>1. out = FlattenSeq(ss)
    BY DEF FuseBlock, Splice
  <1>2. Len(blk) \in Nat /\ DOMAIN blk = 1..Len(blk) /\ \A j \in DOMAIN blk : IsIns(blk[j]) /\ blk[j] \in ElemsOf(blk)
    BY GoodFacts
  <1>3. /\ \A c \in chains : Strand(blk, pinned, {}, c)
        /\ \A c, d \in chains : c # d => ElemsOf(c) \cap ElemsOf(d) = {}
    BY ChainsApart
  <1>4. ASSUME NEW c \in chains
        PROVE  Len(c) \in Nat /\ Len(c) >= 1 /\ DOMAIN c = 1..Len(c) /\ \A n \in DOMAIN c : c[n] \in DOMAIN blk
    <2>1. c \in Seq(DOMAIN blk) /\ c # <<>>
      BY <1>3 DEF Strand, Picks
    <2> QED BY <2>1
  <1> HIDE DEF chains
  <1>5. \A j : of(j) # {} => C(j) \in chains /\ j \in ElemsOf(C(j))
    OBVIOUS
  <1>6. \A j, c : c \in chains /\ j \in ElemsOf(c) => c \in of(j)
    OBVIOUS
  <1>7. ASSUME NEW j \in DOMAIN blk
        PROVE  /\ IsSeq(new(j))
               /\ ElemsOf(new(j)) = IF of(j) = {} THEN {blk[j]}
                                    ELSE IF j = Last(C(j)) THEN {FusedOp(blk, C(j))} ELSE {}
    <2> HIDE DEF of, C
    <2> QED BY OneIsGood, NothingIsGood
  <1>8. ss = [j \in 1..Len(blk) |-> ss[j]] /\ \A j \in DOMAIN blk : ss[j] = new(j)
    BY <1>2
  <1> HIDE DEF ss, new, of, C, out
  <1>9. ElemsOf(out) = UNION {ElemsOf(new(j)) : j \in DOMAIN blk}
    <2>1. \A j \in 1..Len(blk) : IsSeq(ss[j])
      BY <1>2, <1>7, <1>8
    <2>2. ElemsOf(FlattenSeq(ss)) = UNION {ElemsOf(ss[j]) : j \in 1..Len(blk)}
      BY <1>2, <1>8, <2>1, FlattenElems
    <2>3. UNION {ElemsOf(ss[j]) : j \in 1..Len(blk)} = UNION {ElemsOf(new(j)) : j \in DOMAIN blk}
      BY <1>2, <1>8
    <2> QED BY <1>1, <2>2, <2>3
  <1>10. ASSUME NEW v \in BlockRefs(out)
         PROVE  \/ \E j \in DOMAIN blk : of(j) = {} /\ v \in Refs(blk[j])
                \/ \E c \in chains : \E n \in DOMAIN c : v \in Refs(blk[c[n]]) /\ \A p \in 1..n - 1 : blk[c[p]].r # v
    <2>1. PICK j \in DOMAIN blk : \E i \in ElemsOf(new(j)) : v \in Refs(i)
      BY <1>9, <1>10 DEF BlockRefs
    <2>2. CASE of(j) = {}
      BY <1>7, <2>1, <2>2
    <2>3. CASE of(j) # {}
      <3> DEFINE c == C(j)
      <3>1. c \in chains /\ v \in Refs(FusedOp(blk, c))
        BY <1>5, <1>7, <2>1, <2>3
      <3>2. Strand(blk, pinned, {}, c)
        BY <1>3, <3>1
      <3> HIDE DEF c
      <3> QED BY <3>1, <3>2, FusedReads
    <2> QED BY <2>2, <2>3
  <1>11. BlockRefs(out) \subseteq BlockRefs(blk)
    <2> SUFFICES ASSUME NEW v \in BlockRefs(out) PROVE v \in BlockRefs(blk)
      OBVIOUS
    <2>1. \E j \in DOMAIN blk : v \in Refs(blk[j])
      BY <1>4, <1>10
    <2> QED BY <1>2, <2>1 DEF BlockRefs
  <1>12. ASSUME NEW j \in DOMAIN blk, of(j) = {} \/ j = Last(C(j))
         PROVE  \E i \in ElemsOf(out) : i.r = blk[j].r
    <2>1. CASE of(j) = {}
      BY <1>7, <1>9, <2>1
    <2>2. CASE of(j) # {}
      <3>1. FusedOp(blk, C(j)) \in ElemsOf(out) /\ j = Last(C(j))
        BY <1>7, <1>9, <1>12, <2>2
      <3>2. FusedOp(blk, C(j)).r = blk[Last(C(j))].r
        BY DEF FusedOp, Ins
      <3> QED BY <3>1, <3>2
    <2> QED BY <2>1, <2>2
  <1>13. ASSUME NEW j \in DOMAIN blk, of(j) # {}, j # Last(C(j))
         PROVE  blk[j].r \notin BlockRefs(out) /\ blk[j].r \notin pinned
    <2> DEFINE c == C(j)
               v == blk[j].r
    <2>1. c \in chains /\ j \in ElemsOf(c) /\ j # Last(c)
      BY <1>5, <1>13
    <2> HIDE DEF c
    <2>2. Strand(blk, pinned, {}, c) /\ Len(c) \in Nat /\ DOMAIN c = 1..Len(c)
      BY <1>3, <1>4, <2>1
    <2>3. PICK n \in DOMAIN c : j = c[n]
      BY <2>1 DEF ElemsOf
    <2>4. n < Len(c) /\ n \in Nat /\ n + 1 \in DOMAIN c
      BY <2>1, <2>2, <2>3 DEF Last
    <2>5. Link(blk, pinned, c[n], c[n + 1])
      BY <2>2, <2>4 DEF Strand
    <2> DEFINE q == c[n + 1]
    <2>6. v = blk[q].a[1] /\ v \notin pinned /\ Cardinality(UseSites(blk, v)) = 1
      BY <2>3, <2>5 DEF Link
    <2>7. q \in DOMAIN blk /\ q \in ElemsOf(c) /\ blk[q].k \in Elementwise
      BY <1>4, <2>1, <2>2, <2>4 DEF Strand, ElemsOf
    <2>8. v \in Refs(blk[q])
      BY <1>2, <2>6, <2>7, ReadsFirst
    <2> HIDE DEF v, q
    <2>9. \A p \in DOMAIN blk : v \in Refs(blk[p]) => p = q
      BY <2>6, <2>7, <2>8, OneReader
    <2>10. v \notin BlockRefs(out)
      <3> SUFFICES ASSUME v \in BlockRefs(out) PROVE FALSE
        OBVIOUS
      <3>1. CASE \E p \in DOMAIN blk : of(p) = {} /\ v \in Refs(blk[p])
        <4>1. of(q) = {}
          BY <2>9, <3>1
        <4> QED BY <1>6, <2>1, <2>7, <4>1
      <3>2. CASE \E d \in chains : \E m \in DOMAIN d : v \in Refs(blk[d[m]]) /\ \A p \in 1..m - 1 : blk[d[p]].r # v
        <4>1. PICK d \in chains : \E m \in DOMAIN d : v \in Refs(blk[d[m]]) /\ \A p \in 1..m - 1 : blk[d[p]].r # v
          BY <3>2
        <4>2. PICK m \in DOMAIN d : v \in Refs(blk[d[m]]) /\ \A p \in 1..m - 1 : blk[d[p]].r # v
          BY <4>1
        <4>3. d[m] = q
          BY <1>4, <2>9, <4>2
        <4>4. q \in ElemsOf(d)
          BY <4>2, <4>3 DEF ElemsOf
        <4>5. d = c
          BY <1>3, <2>1, <2>7, <4>4
        <4>6. m \in DOMAIN c /\ c[m] = c[n + 1] /\ \A p \in 1..m - 1 : blk[c[p]].r # v
          BY <4>2, <4>3, <4>5 DEF q
        <4>7. m = n + 1
          <5>1. \A x, y \in DOMAIN c : x < y => c[x] < c[y]
            BY <2>2 DEF Strand
          <5>2. c[m] \in Nat /\ c[n + 1] \in Nat
            BY <1>2, <1>4, <2>1, <2>4, <4>6
          <5>3. ~(m < n + 1) /\ ~(n + 1 < m)
            BY <2>4, <4>6, <5>1, <5>2
          <5> QED BY <2>2, <2>4, <4>6, <5>3
        <4>8. n \in 1..m - 1 /\ blk[c[n]].r = v
          BY <2>2, <2>3, <2>4, <4>7 DEF v
        <4> QED BY <4>6, <4>8
      <3> QED BY <1>10, <3>1, <3>2
    <2> QED BY <2>6, <2>10 DEF v
  <1>14. ASSUME NEW v \in Defs(blk) PROVE v \in Defs(out) \/ (v \notin BlockRefs(out) /\ v \notin pinned)
    <2>1. PICK j \in DOMAIN blk : v = blk[j].r /\ v # NoResult
      BY DEF Defs, ElemsOf
    <2>2. CASE of(j) = {} \/ j = Last(C(j))
      <3>1. PICK i \in ElemsOf(out) : i.r = v
        BY <1>12, <2>1, <2>2
      <3> QED BY <2>1, <3>1 DEF Defs
    <2>3. CASE of(j) # {} /\ j # Last(C(j))
      BY <1>13, <2>1, <2>3
    <2> QED BY <2>2, <2>3
  <1> QED BY <1>11, <1>14 DEF out

LEMMA FusionDefined ==
  ASSUME NEW k, KInv(k)
  PROVE  Undefined(Fusion(k)) \subseteq Undefined(k)
  <1> DEFINE pinned(b) == UNION {BlockRefs(k[c]) : c \in DOMAIN k \ {b}}
             k2 == [b \in DOMAIN k |-> FuseBlock(k[b], pinned(b))]
  <1>1. Fusion(k) = EliminateDeadValues(k2)
    BY DEF Fusion
  <1>2. \A b, c \in DOMAIN k : b # c => BlockRefs(k[c]) \subseteq pinned(b)
    OBVIOUS
  <1> HIDE DEF pinned
  <1>3. DOMAIN k2 = DOMAIN k /\ \A b \in DOMAIN k : k2[b] = FuseBlock(k[b], pinned(b))
    OBVIOUS
  <1> HIDE DEF k2
  <1>4. \A b \in DOMAIN k : Good(k2[b]) /\ Claimed(k2[b]) \subseteq Claimed(k[b])
    BY <1>3, KernelFacts, FuseBlockKeeps
  <1>5. KInv(k2)
    BY <1>3, <1>4, BlockwiseKeeps
  <1>6. \A b \in DOMAIN k :
           /\ BlockRefs(k2[b]) \subseteq BlockRefs(k[b])
           /\ \A v \in Defs(k[b]) : v \in Defs(k2[b]) \/ (v \notin BlockRefs(k2[b]) /\ v \notin pinned(b))
    BY <1>3, KernelFacts, FuseBlockDefined
  <1>7. \A v \in AllRefs(k2) : v \in AllRefs(k)
    BY <1>3, <1>6 DEF AllRefs
  <1>8. ASSUME NEW v \in Values(k), v \in AllRefs(k2) PROVE v \in Values(k2)
    <2>1. PICK b \in DOMAIN k : v \in Defs(k[b])
      BY DEF Values
    <2>2. PICK c \in DOMAIN k : v \in BlockRefs(k2[c])
      BY <1>3, <1>8 DEF AllRefs
    <2>3. v \in Defs(k2[b])
      BY <1>2, <1>6, <2>1, <2>2
    <2> QED BY <1>3, <2>3 DEF Values
  <1>9. Undefined(k2) \subseteq Undefined(k)
    BY <1>7, <1>8, NoneLost
  <1> QED BY <1>1, <1>5, <1>9, EliminateDefined

-----------------------------------------------------------------------------
(* What the compiler the emitted source is handed to would refuse: a name  *)
(* used and never declared. const_fold, cse, licm, value_sink and fusion   *)
(* remove, replace and move definitions; none of them, nor the sweep it    *)
(* ends with, takes a definition away from a use in any block of the       *)
(* kernel, entry or nested.                                                *)
NothingUndeclared ==
    [][ConstFoldPass \/ CsePass \/ LicmPass \/ ValueSinkPass \/ FusionPass
         => Undefined(kernel') \subseteq Undefined(kernel)]_vars

(* Those five passes leave no use without its definition, whatever the     *)
(* kernels the pipeline is given.                                          *)
THEOREM DefinitionsStay == Spec => NothingUndeclared
  <1>1. ASSUME TypeOK, ConstFoldPass \/ CsePass \/ LicmPass \/ ValueSinkPass \/ FusionPass
        PROVE  Undefined(kernel') \subseteq Undefined(kernel)
    <2>1. KInv(kernel)
      BY <1>1, WellFormedClaims DEF TypeOK
    <2>2. CASE ConstFoldPass
      BY <2>1, <2>2, ConstFoldDefined DEF ConstFoldPass, Run
    <2>3. CASE CsePass
      BY <2>1, <2>3, CseDefined DEF CsePass, Run
    <2>4. CASE LicmPass
      BY <2>1, <2>4, LicmDefined DEF LicmPass, Run
    <2>5. CASE ValueSinkPass
      BY <2>1, <2>5, ValueSinkDefined DEF ValueSinkPass, Run
    <2>6. CASE FusionPass
      BY <2>1, <2>6, FusionDefined DEF FusionPass, Run
    <2> QED BY <1>1, <2>2, <2>3, <2>4, <2>5, <2>6
  <1> QED BY <1>1, PipelineTypes, PTL DEF NothingUndeclared
=============================================================================
