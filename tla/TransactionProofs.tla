-------------------------- MODULE TransactionProofs --------------------------
(***************************************************************************)
(* What Merge makes of its inputs, for any number of inputs, namespaces,   *)
(* endorsements and MSPs: the loops of the code are folds, and what they   *)
(* compute follows by looking at the smallest input for which it would     *)
(* not.                                                                    *)
(***************************************************************************)
EXTENDS Transaction, TLAPS, WellFoundedInduction

\* A set of natural numbers has a smallest one.
LEMMA Smallest ==
    ASSUME NEW T, T \subseteq Nat, T # {}
    PROVE  \E x \in T : \A y \in T : x <= y
<1>1. PICK R : R = OpToRel(<, Nat)
  OBVIOUS
<1>2. IsWellFoundedOn(R, Nat)
  BY <1>1, NatLessThanWellFounded
<1>3. R = {ss \in Nat \X Nat : ss[1] < ss[2]}
  BY <1>1 DEF OpToRel
<1>4. \E x \in T : \A y \in T : ~(<<y, x>> \in R)
  BY <1>2, WFMin
<1>5. PICK x \in T : \A y \in T : ~(<<y, x>> \in R)
  BY <1>4
<1>6. ASSUME NEW y \in T PROVE x <= y
  <2>1. x \in Nat /\ y \in Nat /\ ~(<<y, x>> \in R)
    BY <1>5
  <2>2. ~(y < x)
    BY <1>3, <2>1
  <2> QED BY <2>1, <2>2
<1> QED BY <1>6

\* Induction over the natural numbers, for a set of them.
LEMMA Inductive ==
    ASSUME NEW T, 0 \in T, \A n \in Nat : n \in T => n + 1 \in T
    PROVE  \A n \in Nat : n \in T
<1>1. SUFFICES ASSUME {n \in Nat : n \notin T} # {} PROVE FALSE
  OBVIOUS
<1>2. PICK x \in {n \in Nat : n \notin T} : \A y \in {n \in Nat : n \notin T} : x <= y
  <2>1. {n \in Nat : n \notin T} \subseteq Nat
    OBVIOUS
  <2> QED BY <1>1, <2>1, Smallest
<1>3. x \in Nat \ {0} /\ x - 1 \in Nat /\ ~(x <= x - 1) /\ (x - 1) + 1 = x
  BY <1>2
<1>4. x - 1 \in T
  BY <1>2, <1>3
<1> QED BY <1>2, <1>3, <1>4

-----------------------------------------------------------------------------
(* One endorsement per MSP                                                 *)

\* The body of the loop.
Keep(kept, e) == IF \E i \in DOMAIN kept : MspOf(kept[i]) = MspOf(e) THEN kept ELSE Append(kept, e)

\* The function that FoldLeft defines over the sets of positions.
Folding(g, es, n) ==
    g = [s \in SUBSET (1..n) |->
            IF s = {} THEN <<>> ELSE Keep(g[s \ {Max(s)}], es[Max(s)])]

LEMMA FoldingExists == ASSUME NEW es PROVE \A n \in Nat : \E g : Folding(g, es, n)
<1> DEFINE T == {n \in Nat : \E g : Folding(g, es, n)}
<1>1. 0 \in T
  <2>1. PICK g : g = [s \in SUBSET (1..0) |-> <<>>]
    OBVIOUS
  <2>2. \A s \in SUBSET (1..0) : s = {}
    OBVIOUS
  <2>3. Folding(g, es, 0)
    BY <2>1, <2>2 DEF Folding
  <2> QED BY <2>3
<1>2. ASSUME NEW n \in Nat, n \in T PROVE n + 1 \in T
  <2>1. PICK h : Folding(h, es, n)
    BY <1>2
  <2>2. PICK g : g = [s \in SUBSET (1..(n + 1)) |->
                        IF n + 1 \in s THEN Keep(h[s \ {n + 1}], es[n + 1]) ELSE h[s]]
    OBVIOUS
  <2>3. \A s \in SUBSET (1..(n + 1)) : n + 1 \notin s => s \in SUBSET (1..n) /\ g[s] = h[s]
    BY <2>2
  <2>4. ASSUME NEW s \in SUBSET (1..(n + 1))
        PROVE  g[s] = IF s = {} THEN <<>> ELSE Keep(g[s \ {Max(s)}], es[Max(s)])
    <3>1. CASE n + 1 \in s
      <4>1. Max(s) = n + 1
        <5>1. \A y \in s : y \in Int /\ n + 1 >= y /\ (y >= n + 1 => y = n + 1)
          OBVIOUS
        <5> QED BY <3>1, <5>1 DEF Max
      <4>2. s \ {n + 1} \in SUBSET (1..(n + 1)) /\ n + 1 \notin s \ {n + 1}
        OBVIOUS
      <4>3. g[s \ {n + 1}] = h[s \ {n + 1}]
        BY <2>3, <4>2
      <4>4. g[s] = Keep(h[s \ {n + 1}], es[n + 1])
        BY <2>2, <3>1
      <4> QED BY <3>1, <4>1, <4>3, <4>4
    <3>2. CASE n + 1 \notin s
      <4>1. s \in SUBSET (1..n) /\ g[s] = h[s]
        BY <2>3, <3>2
      <4>2. h[s] = IF s = {} THEN <<>> ELSE Keep(h[s \ {Max(s)}], es[Max(s)])
        BY <2>1, <4>1 DEF Folding
      <4>3. g[s \ {Max(s)}] = h[s \ {Max(s)}]
        BY <2>3, <3>2
      <4> QED BY <4>1, <4>2, <4>3
    <3> QED BY <3>1, <3>2
  <2>5. Folding(g, es, n + 1)
    <3>1. g = [s \in SUBSET (1..(n + 1)) |-> g[s]]
      BY <2>2
    <3> QED BY <2>4, <3>1 DEF Folding
  <2> QED BY <2>5
<1> HIDE DEF T
<1>3. \A n \in Nat : n \in T
  BY <1>1, <1>2, Inductive
<1> QED BY <1>3 DEF T

\* OncePerMsp goes through its argument and keeps or drops one endorsement at a time.
LEMMA OncePerMspLoops ==
    ASSUME NEW E, NEW es \in Seq(E)
    PROVE  \E f : /\ f[0] = <<>>
                  /\ \A k \in 1..Len(es) : f[k] = Keep(f[k - 1], es[k])
                  /\ OncePerMsp(es) = f[Len(es)]
<1>1. PICK n : n = Len(es)
  OBVIOUS
<1>2. n \in Nat /\ DOMAIN es = 1..n
  BY <1>1
<1> DEFINE iter == CHOOSE g : Folding(g, es, n)
<1>3. Folding(iter, es, n)
  BY <1>2, FoldingExists
<1>4. OncePerMsp(es) = iter[1..n]
  BY <1>2 DEF OncePerMsp, FoldLeft, MapThenFoldSet, Folding, Keep
<1> HIDE DEF iter
<1>5. PICK f : f = [k \in 0..n |-> iter[1..k]]
  OBVIOUS
<1>6. f[0] = <<>>
  <2>1. (1..0) = {} /\ {} \in SUBSET (1..n) /\ 0 \in 0..n
    BY <1>2
  <2>2. iter[{}] = <<>>
    BY <1>3, <2>1 DEF Folding
  <2> QED BY <1>5, <2>1, <2>2
<1>7. ASSUME NEW k \in 1..n PROVE f[k] = Keep(f[k - 1], es[k])
  <2>1. k \in 0..n /\ k - 1 \in 0..n /\ 1..k \in SUBSET (1..n) /\ 1..k # {} /\ k \in 1..k
    BY <1>2
  <2>2. Max(1..k) = k
    <3>1. \A y \in 1..k : y \in Int /\ k >= y /\ (y >= k => y = k)
      BY <1>2
    <3> QED BY <2>1, <3>1 DEF Max
  <2>3. (1..k) \ {k} = 1..(k - 1)
    BY <1>2
  <2>4. iter[1..k] = Keep(iter[1..(k - 1)], es[k])
    BY <1>3, <2>1, <2>2, <2>3 DEF Folding
  <2> QED BY <1>5, <2>1, <2>4
<1>8. n \in 0..n
  BY <1>2
<1>9. f[n] = iter[1..n]
  BY <1>5, <1>8
<1> QED BY <1>1, <1>4, <1>6, <1>7, <1>9

-----------------------------------------------------------------------------
(* Sequences of endorsements                                               *)

In(es, e) == \E i \in DOMAIN es : es[i] = e

HasMsp(es, msp) == \E i \in DOMAIN es : MspOf(es[i]) = msp

DistinctMsps(es) == \A i, j \in DOMAIN es : MspOf(es[i]) = MspOf(es[j]) => i = j

SortedByMsp(es) == \A i, j \in DOMAIN es : i < j => MspOf(es[i]) < MspOf(es[j])

\* e is the first endorsement of its MSP among the first k.
FirstUpTo(es, k, e) ==
    \E x \in 1..k : es[x] = e /\ \A y \in 1..(x - 1) : MspOf(es[y]) # MspOf(e)

IsFirst(es, e) == FirstUpTo(es, Len(es), e)

\* Once per MSP means: the first of every MSP, and nothing else.
LEMMA OncePerMspIs ==
    ASSUME NEW E, NEW es \in Seq(E)
    PROVE  /\ OncePerMsp(es) \in Seq(E)
           /\ DistinctMsps(OncePerMsp(es))
           /\ \A e : In(OncePerMsp(es), e) <=> IsFirst(es, e)
<1>1. PICK f : /\ f[0] = <<>>
               /\ \A k \in 1..Len(es) : f[k] = Keep(f[k - 1], es[k])
               /\ OncePerMsp(es) = f[Len(es)]
  BY OncePerMspLoops
<1> DEFINE Ok(k) == /\ f[k] \in Seq(E)
                    /\ DistinctMsps(f[k])
                    /\ \A e : In(f[k], e) <=> FirstUpTo(es, k, e)
                    /\ \A x \in 1..k : HasMsp(f[k], MspOf(es[x]))
           T == {k \in Nat : k <= Len(es) => Ok(k)}
<1>2. 0 \in T
  <2>1. f[0] \in Seq(E) /\ DOMAIN f[0] = {} /\ 1..0 = {}
    BY <1>1
  <2>2. Ok(0)
    BY <2>1 DEF DistinctMsps, In, FirstUpTo
  <2> QED BY <2>2
<1>3. ASSUME NEW n \in Nat, n \in T PROVE n + 1 \in T
  <2>1. SUFFICES ASSUME n + 1 <= Len(es) PROVE Ok(n + 1)
    OBVIOUS
  <2>2. Ok(n)
    BY <1>3, <2>1
  <2>3. n + 1 \in 1..Len(es) /\ (n + 1) - 1 = n /\ es[n + 1] \in E
    BY <2>1
  <2>4. f[n + 1] = Keep(f[n], es[n + 1])
    BY <1>1, <2>3
  <2>5. \A x \in 1..(n + 1) : x \in 1..n \/ x = n + 1
    OBVIOUS
  <2>6. CASE HasMsp(f[n], MspOf(es[n + 1]))
    <3>1. f[n + 1] = f[n]
      BY <2>4, <2>6 DEF Keep, HasMsp
    <3>2. PICK i \in DOMAIN f[n] : MspOf(f[n][i]) = MspOf(es[n + 1])
      BY <2>6 DEF HasMsp
    <3>3. FirstUpTo(es, n, f[n][i])
      BY <2>2 DEF In
    <3>4. PICK y \in 1..n : es[y] = f[n][i]
      BY <3>3 DEF FirstUpTo
    <3>5. ASSUME NEW e PROVE FirstUpTo(es, n + 1, e) <=> FirstUpTo(es, n, e)
      <4>1. y \in 1..((n + 1) - 1) /\ MspOf(es[y]) = MspOf(es[n + 1])
        BY <3>2, <3>4
      <4>2. 1..n \subseteq 1..(n + 1)
        OBVIOUS
      <4> QED BY <2>5, <4>1, <4>2 DEF FirstUpTo
    <3>6. \A x \in 1..(n + 1) : HasMsp(f[n + 1], MspOf(es[x]))
      BY <2>2, <2>5, <2>6, <3>1
    <3> QED BY <2>2, <3>1, <3>5, <3>6
  <2>7. CASE ~HasMsp(f[n], MspOf(es[n + 1]))
    <3>1. f[n + 1] = Append(f[n], es[n + 1])
      BY <2>4, <2>7 DEF Keep, HasMsp
    <3>2. PICK l : l = Len(f[n])
      OBVIOUS
    <3>3. /\ l \in Nat
          /\ f[n + 1] \in Seq(E)
          /\ DOMAIN f[n] = 1..l
          /\ DOMAIN f[n + 1] = 1..(l + 1)
          /\ f[n + 1][l + 1] = es[n + 1]
          /\ \A i \in 1..l : f[n + 1][i] = f[n][i]
      BY <2>2, <2>3, <3>1, <3>2
    <3>4. \A i \in 1..(l + 1) : i \in 1..l \/ i = l + 1
      BY <3>3
    <3>5. DistinctMsps(f[n + 1])
      BY <2>2, <2>7, <3>3, <3>4 DEF DistinctMsps, HasMsp
    <3>6. 1..l \subseteq 1..(l + 1) /\ l + 1 \in 1..(l + 1) /\ 1..n \subseteq 1..(n + 1)
      BY <3>3
    <3>7. \A e : In(f[n + 1], e) <=> In(f[n], e) \/ e = es[n + 1]
      BY <3>3, <3>4, <3>6 DEF In
    <3>8. \A y \in 1..n : MspOf(es[y]) # MspOf(es[n + 1])
      BY <2>2, <2>7
    <3>9. ASSUME NEW e PROVE FirstUpTo(es, n + 1, e) <=> FirstUpTo(es, n, e) \/ e = es[n + 1]
      <4>1. (n + 1) - 1 = n /\ n + 1 \in 1..(n + 1)
        OBVIOUS
      <4> QED BY <2>5, <3>6, <3>8, <4>1 DEF FirstUpTo
    <3>10. \A x \in 1..(n + 1) : HasMsp(f[n + 1], MspOf(es[x]))
      BY <2>2, <2>5, <3>3, <3>6 DEF HasMsp
    <3> QED BY <2>2, <3>3, <3>5, <3>7, <3>9, <3>10
  <2> QED BY <2>6, <2>7
<1> HIDE DEF T
<1>4. \A n \in Nat : n \in T
  BY <1>2, <1>3, Inductive
<1>5. Len(es) \in Nat
  OBVIOUS
<1>6. Ok(Len(es))
  BY <1>4, <1>5 DEF T
<1> QED BY <1>1, <1>6 DEF IsFirst

\* Whatever MSP there is, one of its endorsements is the first.
LEMMA EveryMspHasAFirst ==
    ASSUME NEW E, NEW es \in Seq(E), NEW msp
    PROVE  HasMsp(es, msp) <=> \E e : IsFirst(es, e) /\ MspOf(e) = msp
<1>1. ASSUME HasMsp(es, msp) PROVE \E e : IsFirst(es, e) /\ MspOf(e) = msp
  <2>1. PICK T : T = {i \in DOMAIN es : MspOf(es[i]) = msp}
    OBVIOUS
  <2>2. T \subseteq Nat /\ T # {} /\ DOMAIN es = 1..Len(es)
    BY <1>1, <2>1 DEF HasMsp
  <2>3. PICK x \in T : \A y \in T : x <= y
    BY <2>2, Smallest
  <2>4. x \in 1..Len(es) /\ MspOf(es[x]) = msp
    BY <2>1, <2>2
  <2>5. \A y \in 1..(x - 1) : y \in DOMAIN es /\ ~(x <= y)
    BY <2>2, <2>4
  <2> QED BY <2>1, <2>3, <2>4, <2>5 DEF IsFirst, FirstUpTo
<1>2. DOMAIN es = 1..Len(es)
  OBVIOUS
<1> QED BY <1>1, <1>2 DEF IsFirst, FirstUpTo, HasMsp

-----------------------------------------------------------------------------
(* Several sequences, one after the other                                  *)

\* The function that FlattenSeq defines over the positions.
Flattening(g, seqs, n) ==
    g = [i \in 1..n |-> IF i = 1 THEN seqs[i] ELSE g[i - 1] \o seqs[i]]

LEMMA FlatteningExists == ASSUME NEW seqs PROVE \A n \in Nat : \E g : Flattening(g, seqs, n)
<1> DEFINE T == {n \in Nat : \E g : Flattening(g, seqs, n)}
<1>1. 0 \in T
  <2>1. PICK g : g = [i \in 1..0 |-> seqs[i]]
    OBVIOUS
  <2>2. Flattening(g, seqs, 0)
    BY <2>1 DEF Flattening
  <2> QED BY <2>2
<1>2. ASSUME NEW n \in Nat, n \in T PROVE n + 1 \in T
  <2>1. PICK h : Flattening(h, seqs, n)
    BY <1>2
  <2>2. PICK g : g = [i \in 1..(n + 1) |->
                        IF i = n + 1
                        THEN IF i = 1 THEN seqs[i] ELSE h[n] \o seqs[i]
                        ELSE h[i]]
    OBVIOUS
  <2>3. \A i \in 1..n : g[i] = h[i] /\ i \in 1..(n + 1) /\ i # n + 1
    BY <2>2
  <2>4. ASSUME NEW i \in 1..(n + 1)
        PROVE  g[i] = IF i = 1 THEN seqs[i] ELSE g[i - 1] \o seqs[i]
    <3>1. CASE i = n + 1
      <4>1. CASE i = 1
        BY <2>2, <3>1, <4>1
      <4>2. CASE i # 1
        <5>1. i - 1 = n /\ n \in 1..n
          BY <3>1, <4>2
        <5>2. g[n] = h[n]
          BY <2>3, <5>1
        <5> QED BY <2>2, <3>1, <4>2, <5>1, <5>2
      <4> QED BY <4>1, <4>2
    <3>2. CASE i # n + 1
      <4>1. i \in 1..n /\ (i # 1 => i - 1 \in 1..n)
        BY <3>2
      <4>2. h[i] = IF i = 1 THEN seqs[i] ELSE h[i - 1] \o seqs[i]
        BY <2>1, <4>1 DEF Flattening
      <4> QED BY <2>3, <4>1, <4>2
    <3> QED BY <3>1, <3>2
  <2>5. Flattening(g, seqs, n + 1)
    <3>1. g = [i \in 1..(n + 1) |-> g[i]]
      BY <2>2
    <3> QED BY <2>4, <3>1 DEF Flattening
  <2> QED BY <2>5
<1> HIDE DEF T
<1>3. \A n \in Nat : n \in T
  BY <1>1, <1>2, Inductive
<1> QED BY <1>3 DEF T

\* FlattenSeq appends one sequence at a time.
LEMMA FlattenSeqLoops ==
    ASSUME NEW E, NEW seqs \in Seq(Seq(E)), Len(seqs) > 0
    PROVE  \E g : /\ g[1] = seqs[1]
                  /\ \A i \in 2..Len(seqs) : g[i] = g[i - 1] \o seqs[i]
                  /\ FlattenSeq(seqs) = g[Len(seqs)]
<1>1. PICK n : n = Len(seqs)
  OBVIOUS
<1>2. n \in Nat /\ n > 0
  BY <1>1
<1> DEFINE flat == CHOOSE g : Flattening(g, seqs, n)
<1>3. Flattening(flat, seqs, n)
  BY <1>2, FlatteningExists
<1>4. FlattenSeq(seqs) = flat[n]
  BY <1>1, <1>2 DEF FlattenSeq, Flattening
<1> HIDE DEF flat
<1>5. \A i \in 1..n : flat[i] = IF i = 1 THEN seqs[i] ELSE flat[i - 1] \o seqs[i]
  BY <1>3 DEF Flattening
<1>6. 1 \in 1..n /\ \A i \in 2..n : i \in 1..n /\ i # 1
  BY <1>2
<1>7. flat[1] = seqs[1] /\ \A i \in 2..n : flat[i] = flat[i - 1] \o seqs[i]
  BY <1>5, <1>6
<1> QED BY <1>1, <1>4, <1>7

\* The first of its MSP in a concatenation: in the front, or behind it and no
\* endorsement of that MSP in the front.
LEMMA FirstInConcatenation ==
    ASSUME NEW E, NEW front \in Seq(E), NEW back \in Seq(E), NEW e
    PROVE  IsFirst(front \o back, e)
              <=> IsFirst(front, e) \/ (IsFirst(back, e) /\ ~HasMsp(front, MspOf(e)))
<1>1. PICK m, k : m = Len(front) /\ k = Len(back)
  OBVIOUS
<1>2. PICK es : es = front \o back
  OBVIOUS
<1>3. /\ m \in Nat /\ k \in Nat
      /\ DOMAIN front = 1..m /\ DOMAIN back = 1..k
      /\ Len(es) = m + k
      /\ \A i \in 1..m : es[i] = front[i]
      /\ \A i \in 1..k : es[m + i] = back[i]
  BY <1>1, <1>2
<1>4. ASSUME IsFirst(front, e) PROVE IsFirst(es, e)
  <2>1. PICK x \in 1..m : front[x] = e /\ \A y \in 1..(x - 1) : MspOf(front[y]) # MspOf(e)
    BY <1>1, <1>4 DEF IsFirst, FirstUpTo
  <2>2. x \in 1..(m + k) /\ 1..(x - 1) \subseteq 1..m
    BY <1>3
  <2> QED BY <1>3, <2>1, <2>2 DEF IsFirst, FirstUpTo
<1>5. ASSUME IsFirst(back, e), ~HasMsp(front, MspOf(e)) PROVE IsFirst(es, e)
  <2>1. PICK x \in 1..k : back[x] = e /\ \A y \in 1..(x - 1) : MspOf(back[y]) # MspOf(e)
    BY <1>1, <1>5 DEF IsFirst, FirstUpTo
  <2>2. m + x \in 1..(m + k) /\ es[m + x] = e
    BY <1>3, <2>1
  <2>3. ASSUME NEW y \in 1..((m + x) - 1) PROVE MspOf(es[y]) # MspOf(e)
    <3>1. CASE y <= m
      <4>1. y \in 1..m
        BY <3>1
      <4> QED BY <1>3, <1>5, <4>1 DEF HasMsp
    <3>2. CASE y > m
      <4>1. y - m \in 1..(x - 1) /\ y - m \in 1..k /\ m + (y - m) = y
        BY <1>3, <3>2
      <4> QED BY <1>3, <2>1, <4>1
    <3> QED BY <1>3, <3>1, <3>2
  <2> QED BY <1>3, <2>2, <2>3 DEF IsFirst, FirstUpTo
<1>6. ASSUME IsFirst(es, e)
      PROVE  IsFirst(front, e) \/ (IsFirst(back, e) /\ ~HasMsp(front, MspOf(e)))
  <2>1. PICK x \in 1..(m + k) : es[x] = e /\ \A y \in 1..(x - 1) : MspOf(es[y]) # MspOf(e)
    BY <1>3, <1>6 DEF IsFirst, FirstUpTo
  <2>2. CASE x <= m
    <3>1. x \in 1..m /\ 1..(x - 1) \subseteq 1..m
      BY <1>3, <2>2
    <3> QED BY <1>1, <1>3, <2>1, <3>1 DEF IsFirst, FirstUpTo
  <2>3. CASE x > m
    <3>1. x - m \in 1..k /\ m + (x - m) = x
      BY <1>3, <2>3
    <3>2. back[x - m] = e
      BY <1>3, <2>1, <3>1
    <3>3. \A y \in 1..((x - m) - 1) : y \in 1..k /\ m + y \in 1..(x - 1)
      BY <1>3, <2>3
    <3>4. \A y \in 1..((x - m) - 1) : MspOf(back[y]) # MspOf(e)
      BY <1>3, <2>1, <3>3
    <3>5. IsFirst(back, e)
      BY <1>1, <3>1, <3>2, <3>4 DEF IsFirst, FirstUpTo
    <3>6. 1..m \subseteq 1..(x - 1)
      BY <1>3, <2>3
    <3>7. ~HasMsp(front, MspOf(e))
      BY <1>3, <2>1, <3>6 DEF HasMsp
    <3> QED BY <3>5, <3>7
  <2> QED BY <1>3, <2>2, <2>3
<1> QED BY <1>2, <1>4, <1>5, <1>6

LEMMA MspInConcatenation ==
    ASSUME NEW E, NEW front \in Seq(E), NEW back \in Seq(E), NEW msp
    PROVE  HasMsp(front \o back, msp) <=> HasMsp(front, msp) \/ HasMsp(back, msp)
<1>1. PICK m, k : m = Len(front) /\ k = Len(back)
  OBVIOUS
<1>2. PICK es : es = front \o back
  OBVIOUS
<1>3. /\ m \in Nat /\ k \in Nat
      /\ DOMAIN front = 1..m /\ DOMAIN back = 1..k /\ DOMAIN es = 1..(m + k)
      /\ \A i \in 1..m : es[i] = front[i] /\ i \in 1..(m + k)
      /\ \A i \in 1..k : es[m + i] = back[i] /\ m + i \in 1..(m + k)
  BY <1>1, <1>2
<1>4. \A i \in 1..(m + k) : i \in 1..m \/ (i - m \in 1..k /\ m + (i - m) = i)
  BY <1>3
<1>5. HasMsp(es, msp) => HasMsp(front, msp) \/ HasMsp(back, msp)
  BY <1>3, <1>4 DEF HasMsp
<1>6. HasMsp(front, msp) \/ HasMsp(back, msp) => HasMsp(es, msp)
  BY <1>3 DEF HasMsp
<1> QED BY <1>2, <1>5, <1>6

\* e is the first endorsement of its MSP in the first n sequences, in their order.
FirstOfSome(seqs, n, e) ==
    \E j \in 1..n : IsFirst(seqs[j], e) /\ \A l \in 1..(j - 1) : ~HasMsp(seqs[l], MspOf(e))

FirstOfAll(seqs, e) == FirstOfSome(seqs, Len(seqs), e)

LEMMA FirstInFlattened ==
    ASSUME NEW E, NEW seqs \in Seq(Seq(E)), Len(seqs) > 0
    PROVE  /\ FlattenSeq(seqs) \in Seq(E)
           /\ \A e : IsFirst(FlattenSeq(seqs), e) <=> FirstOfAll(seqs, e)
<1>1. PICK g : /\ g[1] = seqs[1]
               /\ \A i \in 2..Len(seqs) : g[i] = g[i - 1] \o seqs[i]
               /\ FlattenSeq(seqs) = g[Len(seqs)]
  BY FlattenSeqLoops
<1> DEFINE Ok(k) == /\ g[k] \in Seq(E)
                    /\ \A e : IsFirst(g[k], e) <=> FirstOfSome(seqs, k, e)
                    /\ \A msp : HasMsp(g[k], msp) <=> \E l \in 1..k : HasMsp(seqs[l], msp)
           T == {k \in Nat : 0 < k /\ k <= Len(seqs) => Ok(k)}
<1>2. 0 \in T
  OBVIOUS
<1>3. ASSUME NEW n \in Nat, n \in T PROVE n + 1 \in T
  <2>1. SUFFICES ASSUME n + 1 <= Len(seqs) PROVE Ok(n + 1)
    OBVIOUS
  <2>2. n + 1 \in 1..Len(seqs) /\ seqs[n + 1] \in Seq(E) /\ (n + 1) - 1 = n
    BY <2>1
  <2>3. CASE n = 0
    <3>1. g[n + 1] = seqs[1] /\ seqs[1] \in Seq(E) /\ 1..(n + 1) = {1} /\ 1..(1 - 1) = {}
      BY <1>1, <2>2, <2>3
    <3>2. \A e : IsFirst(g[n + 1], e) <=> FirstOfSome(seqs, n + 1, e)
      BY <3>1 DEF FirstOfSome
    <3> QED BY <3>1, <3>2
  <2>4. CASE n # 0
    <3>1. Ok(n)
      BY <1>3, <2>1, <2>4
    <3>2. n + 1 \in 2..Len(seqs)
      BY <2>1, <2>4
    <3>3. g[n + 1] = g[n] \o seqs[n + 1]
      BY <1>1, <2>2, <3>2
    <3>4. g[n + 1] \in Seq(E)
      BY <2>2, <3>1, <3>3
    <3>5. /\ \A l \in 1..(n + 1) : l \in 1..n \/ l = n + 1
          /\ 1..n \subseteq 1..(n + 1)
          /\ n + 1 \in 1..(n + 1)
      OBVIOUS
    <3>6. ASSUME NEW msp
          PROVE  HasMsp(g[n + 1], msp) <=> \E l \in 1..(n + 1) : HasMsp(seqs[l], msp)
      <4>1. HasMsp(g[n + 1], msp) <=> HasMsp(g[n], msp) \/ HasMsp(seqs[n + 1], msp)
        BY <2>2, <3>1, <3>3, MspInConcatenation
      <4> QED BY <3>1, <3>5, <4>1
    <3>7. ASSUME NEW e PROVE IsFirst(g[n + 1], e) <=> FirstOfSome(seqs, n + 1, e)
      <4>1. IsFirst(g[n + 1], e)
              <=> IsFirst(g[n], e) \/ (IsFirst(seqs[n + 1], e) /\ ~HasMsp(g[n], MspOf(e)))
        BY <2>2, <3>1, <3>3, FirstInConcatenation
      <4>2. FirstOfSome(seqs, n + 1, e)
              <=> \/ FirstOfSome(seqs, n, e)
                  \/ IsFirst(seqs[n + 1], e) /\ \A l \in 1..n : ~HasMsp(seqs[l], MspOf(e))
        BY <2>2, <3>5 DEF FirstOfSome
      <4> QED BY <3>1, <4>1, <4>2
    <3> QED BY <3>4, <3>6, <3>7
  <2> QED BY <2>3, <2>4
<1> HIDE DEF T
<1>4. \A n \in Nat : n \in T
  BY <1>2, <1>3, Inductive
<1>5. Len(seqs) \in Nat /\ 0 < Len(seqs) /\ Len(seqs) <= Len(seqs)
  OBVIOUS
<1> HIDE DEF Ok
<1>6. Ok(Len(seqs))
  BY <1>4, <1>5 DEF T
<1> QED BY <1>1, <1>6 DEF FirstOfAll, Ok

LEMMA EveryMspHasAFirstOfAll ==
    ASSUME NEW E, NEW seqs \in Seq(Seq(E)), NEW msp
    PROVE  (\E j \in DOMAIN seqs : HasMsp(seqs[j], msp))
              <=> \E e : FirstOfAll(seqs, e) /\ MspOf(e) = msp
<1>1. DOMAIN seqs = 1..Len(seqs) /\ \A j \in DOMAIN seqs : seqs[j] \in Seq(E)
  OBVIOUS
<1>2. \A j \in DOMAIN seqs : HasMsp(seqs[j], msp)
                                <=> \E e : IsFirst(seqs[j], e) /\ MspOf(e) = msp
  BY <1>1, EveryMspHasAFirst
<1>3. ASSUME \E j \in DOMAIN seqs : HasMsp(seqs[j], msp)
      PROVE  \E e : FirstOfAll(seqs, e) /\ MspOf(e) = msp
  <2>1. PICK T : T = {j \in DOMAIN seqs : HasMsp(seqs[j], msp)}
    OBVIOUS
  <2>2. T \subseteq Nat /\ T # {}
    BY <1>1, <1>3, <2>1
  <2>3. PICK x \in T : \A y \in T : x <= y
    BY <2>2, Smallest
  <2>4. PICK e : IsFirst(seqs[x], e) /\ MspOf(e) = msp
    BY <1>2, <2>1
  <2>5. x \in 1..Len(seqs) /\ \A y \in 1..(x - 1) : y \in DOMAIN seqs /\ ~(x <= y)
    BY <1>1, <2>1
  <2> QED BY <2>1, <2>3, <2>4, <2>5 DEF FirstOfAll, FirstOfSome
<1> QED BY <1>1, <1>2, <1>3 DEF FirstOfAll, FirstOfSome

-----------------------------------------------------------------------------
(* Sorting                                                                 *)

Ordering(es, p) ==
    /\ p \in Bijection(DOMAIN es, DOMAIN es)
    /\ \A i, j \in DOMAIN es : i < j => MspOf(es[p[i]]) <= MspOf(es[p[j]])

\* Numbers in finitely many positions have a greatest one.
LEMMA GreatestExists ==
    \A n \in Nat : \A c \in [1..(n + 1) -> Int] :
        \E m \in 1..(n + 1) : \A i \in 1..(n + 1) : c[i] <= c[m]
<1> DEFINE T == {n \in Nat : \A c \in [1..(n + 1) -> Int] :
                    \E m \in 1..(n + 1) : \A i \in 1..(n + 1) : c[i] <= c[m]}
<1>1. 0 \in T
  <2>1. 1..(0 + 1) = {1}
    OBVIOUS
  <2> QED BY <2>1
<1>2. ASSUME NEW n \in Nat, n \in T PROVE n + 1 \in T
  <2>1. SUFFICES ASSUME NEW c \in [1..((n + 1) + 1) -> Int]
                 PROVE  \E m \in 1..((n + 1) + 1) : \A i \in 1..((n + 1) + 1) : c[i] <= c[m]
    BY n + 1 \in Nat, Zenon
  <2>2. PICK d : d = [i \in 1..(n + 1) |-> c[i]]
    OBVIOUS
  <2>3. d \in [1..(n + 1) -> Int]
    BY <2>2
  <2>4. PICK m \in 1..(n + 1) : \A i \in 1..(n + 1) : d[i] <= d[m]
    BY <1>2, <2>3
  <2>5. \A i \in 1..(n + 1) : c[i] <= c[m]
    BY <2>2, <2>4
  <2>6. /\ \A i \in 1..((n + 1) + 1) : c[i] \in Int /\ (i \in 1..(n + 1) \/ i = (n + 1) + 1)
        /\ (n + 1) + 1 \in 1..((n + 1) + 1)
        /\ m \in 1..((n + 1) + 1)
    OBVIOUS
  <2>7. CASE c[m] <= c[(n + 1) + 1]
    <3>1. \A i \in 1..((n + 1) + 1) : c[i] <= c[(n + 1) + 1]
      BY <2>5, <2>6, <2>7
    <3> QED BY <2>6, <3>1
  <2>8. CASE c[(n + 1) + 1] <= c[m]
    BY <2>5, <2>6, <2>8
  <2> QED BY <2>6, <2>7, <2>8
<1> HIDE DEF T
<1>3. \A n \in Nat : n \in T
  BY <1>1, <1>2, Inductive
<1> QED BY <1>3 DEF T

\* Numbers in finitely many positions can be sorted: the greatest changes places
\* with the last.
LEMMA OrderingExists ==
    \A n \in Nat : \A c \in [1..n -> Int] :
        \E p \in Bijection(1..n, 1..n) : \A i, j \in 1..n : i < j => c[p[i]] <= c[p[j]]
<1> DEFINE T == {n \in Nat : \A c \in [1..n -> Int] :
                    \E p \in Bijection(1..n, 1..n) :
                        \A i, j \in 1..n : i < j => c[p[i]] <= c[p[j]]}
<1>1. 0 \in T
  <2>1. PICK p : p = [i \in 1..0 |-> i]
    OBVIOUS
  <2>2. p \in Bijection(1..0, 1..0)
    BY <2>1 DEF Bijection, Injection, Surjection, IsInjective
  <2> QED BY <2>2
<1>2. ASSUME NEW n \in Nat, n \in T PROVE n + 1 \in T
  <2>1. SUFFICES ASSUME NEW c \in [1..(n + 1) -> Int]
                 PROVE  \E p \in Bijection(1..(n + 1), 1..(n + 1)) :
                            \A i, j \in 1..(n + 1) : i < j => c[p[i]] <= c[p[j]]
    OBVIOUS
  <2>2. PICK m \in 1..(n + 1) : \A i \in 1..(n + 1) : c[i] <= c[m]
    BY GreatestExists
  <2>3. PICK d : d = [i \in 1..n |-> IF i = m THEN c[n + 1] ELSE c[i]]
    OBVIOUS
  <2>4. d \in [1..n -> Int]
    BY <2>3
  <2>5. PICK p \in Bijection(1..n, 1..n) : \A i, j \in 1..n : i < j => d[p[i]] <= d[p[j]]
    BY <1>2, <2>4
  <2>6. /\ p \in [1..n -> 1..n]
        /\ \A i, j \in 1..n : p[i] = p[j] => i = j
        /\ \A k \in 1..n : \E i \in 1..n : p[i] = k
    BY <2>5 DEF Bijection, Injection, Surjection, IsInjective
  <2>7. PICK q : q = [i \in 1..(n + 1) |-> IF i = n + 1 THEN m
                                          ELSE IF p[i] = m THEN n + 1 ELSE p[i]]
    OBVIOUS
  <2>8. /\ \A i \in 1..(n + 1) : i \in 1..n \/ i = n + 1
        /\ \A i \in 1..n : i \in 1..(n + 1) /\ i # n + 1
        /\ n + 1 \in 1..(n + 1)
    OBVIOUS
  <2>9. q[n + 1] = m /\ \A i \in 1..n : q[i] = IF p[i] = m THEN n + 1 ELSE p[i]
    BY <2>7, <2>8
  <2>10. q \in [1..(n + 1) -> 1..(n + 1)]
    BY <2>6, <2>7, <2>8
  <2>11. \A i, j \in 1..(n + 1) : q[i] = q[j] => i = j
    BY <2>6, <2>8, <2>9
  <2>12. ASSUME NEW k \in 1..(n + 1) PROVE \E i \in 1..(n + 1) : q[i] = k
    <3>1. CASE k = m
      BY <2>8, <2>9, <3>1
    <3>2. CASE k # m /\ k = n + 1
      <4>1. m \in 1..n
        BY <2>8, <3>2
      <4>2. PICK i \in 1..n : p[i] = m
        BY <2>6, <4>1
      <4> QED BY <2>8, <2>9, <3>2, <4>2
    <3>3. CASE k # m /\ k # n + 1
      <4>1. PICK i \in 1..n : p[i] = k
        BY <2>6, <2>8, <3>3
      <4> QED BY <2>8, <2>9, <3>3, <4>1
    <3> QED BY <3>1, <3>2, <3>3
  <2>13. q \in Bijection(1..(n + 1), 1..(n + 1))
    BY <2>10, <2>11, <2>12 DEF Bijection, Injection, Surjection, IsInjective
  <2>14. \A i \in 1..n : c[q[i]] = d[p[i]]
    BY <2>3, <2>6, <2>9
  <2>15. ASSUME NEW i \in 1..(n + 1), NEW j \in 1..(n + 1), i < j PROVE c[q[i]] <= c[q[j]]
    <3>1. i \in 1..n
      BY <2>15
    <3>2. CASE j \in 1..n
      BY <2>5, <2>14, <2>15, <3>1, <3>2
    <3>3. CASE j = n + 1
      BY <2>2, <2>9, <2>10, <3>3
    <3> QED BY <2>8, <3>2, <3>3
  <2> QED BY <2>13, <2>15
<1> HIDE DEF T
<1>3. \A n \in Nat : n \in T
  BY <1>1, <1>2, Inductive
<1> QED BY <1>3 DEF T

\* Sorting keeps the endorsements and puts them in the order of their MSPs.
LEMMA SortedIs ==
    ASSUME NEW E, \A e \in E : MspOf(e) \in Int, NEW es \in Seq(E), DistinctMsps(es)
    PROVE  /\ SortEndorsementsByMspID(es) \in Seq(E)
           /\ SortedByMsp(SortEndorsementsByMspID(es))
           /\ \A e : In(SortEndorsementsByMspID(es), e) <=> In(es, e)
<1>1. PICK n : n = Len(es)
  OBVIOUS
<1>2. n \in Nat /\ DOMAIN es = 1..n /\ \A i \in 1..n : es[i] \in E /\ MspOf(es[i]) \in Int
  BY <1>1
<1> DEFINE order == CHOOSE p : Ordering(es, p)
<1>3. \E p : Ordering(es, p)
  <2>1. PICK c : c = [i \in 1..n |-> MspOf(es[i])]
    OBVIOUS
  <2>2. c \in [1..n -> Int]
    BY <1>2, <2>1
  <2>3. PICK p \in Bijection(1..n, 1..n) : \A i, j \in 1..n : i < j => c[p[i]] <= c[p[j]]
    BY <1>2, <2>2, OrderingExists
  <2>4. \A i \in 1..n : p[i] \in 1..n
    BY <2>3 DEF Bijection, Injection
  <2>5. \A i \in 1..n : c[p[i]] = MspOf(es[p[i]])
    BY <2>1, <2>4
  <2> QED BY <1>2, <2>3, <2>5 DEF Ordering
<1>4. Ordering(es, order)
  BY <1>3
<1>5. SortEndorsementsByMspID(es) = [i \in DOMAIN es |-> es[order[i]]]
  BY DEF SortEndorsementsByMspID, Ordering
<1> HIDE DEF order
<1>6. PICK out : out = [i \in 1..n |-> es[order[i]]]
  OBVIOUS
<1>7. /\ \A i \in 1..n : order[i] \in 1..n
      /\ \A i, j \in 1..n : order[i] = order[j] => i = j
      /\ \A k \in 1..n : \E i \in 1..n : order[i] = k
      /\ \A i, j \in 1..n : i < j => MspOf(es[order[i]]) <= MspOf(es[order[j]])
  BY <1>2, <1>4 DEF Ordering, Bijection, Injection, Surjection, IsInjective
<1>8. DOMAIN out = 1..n /\ \A i \in 1..n : out[i] = es[order[i]] /\ out[i] \in E
  BY <1>2, <1>6, <1>7
<1>9. out \in Seq(E)
  BY <1>2, <1>6, <1>8
<1>10. SortedByMsp(out)
  <2>1. SUFFICES ASSUME NEW i \in 1..n, NEW j \in 1..n, i < j
                 PROVE  MspOf(out[i]) < MspOf(out[j])
    BY <1>8 DEF SortedByMsp
  <2>2. MspOf(es[order[i]]) <= MspOf(es[order[j]])
    BY <1>7, <2>1
  <2>3. i # j /\ order[i] \in 1..n /\ order[j] \in 1..n /\ order[i] # order[j]
    BY <1>7, <2>1
  <2>4. MspOf(es[order[i]]) # MspOf(es[order[j]])
    BY <1>2, <2>3 DEF DistinctMsps
  <2>5. MspOf(es[order[i]]) \in Int /\ MspOf(es[order[j]]) \in Int
    BY <1>2, <2>3
  <2> QED BY <1>8, <2>2, <2>4, <2>5
<1>11. ASSUME NEW e PROVE In(out, e) <=> In(es, e)
  <2>1. ASSUME NEW k \in 1..n, es[k] = e PROVE \E i \in 1..n : out[i] = e
    <3>1. PICK i \in 1..n : order[i] = k
      BY <1>7
    <3> QED BY <1>8, <2>1, <3>1
  <2>2. ASSUME NEW i \in 1..n, out[i] = e PROVE \E k \in 1..n : es[k] = e
    <3>1. order[i] \in 1..n /\ es[order[i]] = e
      BY <1>7, <1>8, <2>2
    <3> QED BY <3>1
  <2> QED BY <1>2, <1>8, <2>1, <2>2 DEF In
<1> QED BY <1>2, <1>5, <1>6, <1>9, <1>10, <1>11

\* There is one order: sequences sorted by MSP with the same endorsements are equal.
LEMMA SortedIsInitial ==
    ASSUME NEW E, \A e \in E : MspOf(e) \in Int,
           NEW a \in Seq(E), NEW b \in Seq(E),
           SortedByMsp(a), SortedByMsp(b), \A e : In(a, e) <=> In(b, e)
    PROVE  \A k \in DOMAIN a : k \in DOMAIN b /\ a[k] = b[k]
<1>1. PICK m, n : m = Len(a) /\ n = Len(b)
  OBVIOUS
<1>2. /\ m \in Nat /\ n \in Nat /\ DOMAIN a = 1..m /\ DOMAIN b = 1..n
      /\ \A i \in 1..m : MspOf(a[i]) \in Int
      /\ \A i \in 1..n : MspOf(b[i]) \in Int
  BY <1>1
<1>3. PICK T : T = {k \in 1..m : ~(k \in 1..n /\ a[k] = b[k])}
  OBVIOUS
<1>4. SUFFICES ASSUME T # {} PROVE FALSE
  BY <1>2, <1>3
<1>5. PICK k \in T : \A y \in T : k <= y
  <2>1. T \subseteq Nat
    BY <1>3
  <2> QED BY <1>4, <2>1, Smallest
<1>6. k \in 1..m /\ \A y \in 1..m : y < k => y \in 1..n /\ a[y] = b[y]
  BY <1>2, <1>3, <1>5
<1>7. \A i, j \in 1..m : i < j => MspOf(a[i]) < MspOf(a[j])
  BY <1>2 DEF SortedByMsp
<1>8. \A i, j \in 1..n : i < j => MspOf(b[i]) < MspOf(b[j])
  BY <1>2 DEF SortedByMsp
<1>9. PICK j \in 1..n : b[j] = a[k]
  BY <1>2, <1>6 DEF In
<1>10. CASE j = k
  BY <1>3, <1>9, <1>10
<1>11. CASE j < k
  <2>1. j \in 1..m
    BY <1>2, <1>6, <1>11
  <2>2. a[j] = a[k] /\ MspOf(a[j]) < MspOf(a[k])
    BY <1>6, <1>7, <1>9, <1>11, <2>1
  <2> QED BY <1>2, <1>6, <2>2
<1>12. CASE k < j
  <2>1. k \in 1..n
    BY <1>2, <1>6, <1>12
  <2>2. PICK l \in 1..m : a[l] = b[k]
    BY <1>2, <2>1 DEF In
  <2>3. MspOf(a[l]) < MspOf(a[k])
    BY <1>8, <1>9, <1>12, <2>1, <2>2
  <2>4. l < k
    <3>1. l # k
      BY <1>2, <1>6, <2>3
    <3>2. CASE k < l
      <4>1. MspOf(a[k]) < MspOf(a[l])
        BY <1>6, <1>7, <3>2
      <4> QED BY <1>2, <1>6, <2>3, <4>1
    <3> QED BY <1>2, <1>6, <3>1, <3>2
  <2>5. l \in 1..n /\ a[l] = b[l]
    BY <1>6, <2>4
  <2>6. MspOf(b[l]) < MspOf(b[k])
    BY <1>8, <2>1, <2>4, <2>5
  <2> QED BY <1>2, <2>1, <2>2, <2>5, <2>6
<1> QED BY <1>2, <1>6, <1>10, <1>11, <1>12

LEMMA SortedIsUnique ==
    ASSUME NEW E, \A e \in E : MspOf(e) \in Int,
           NEW a \in Seq(E), NEW b \in Seq(E),
           SortedByMsp(a), SortedByMsp(b), \A e : In(a, e) <=> In(b, e)
    PROVE  a = b
<1>1. \A k \in DOMAIN a : k \in DOMAIN b /\ a[k] = b[k]
  BY SortedIsInitial
<1>2. \A k \in DOMAIN b : k \in DOMAIN a /\ b[k] = a[k]
  BY SortedIsInitial
<1>3. DOMAIN a = 1..Len(a) /\ DOMAIN b = 1..Len(b) /\ Len(a) \in Nat /\ Len(b) \in Nat
  OBVIOUS
<1>4. Len(a) = Len(b)
  <2>1. PICK m, n : m = Len(a) /\ n = Len(b)
    OBVIOUS
  <2>2. m \in Nat /\ n \in Nat /\ \A k : k \in 1..m <=> k \in 1..n
    BY <1>1, <1>2, <1>3, <2>1
  <2>3. ~(m < n)
    BY <2>2, n \in 1..n <=> n \in 1..m
  <2>4. ~(n < m)
    BY <2>2, m \in 1..m <=> m \in 1..n
  <2> QED BY <2>1, <2>2, <2>3, <2>4
<1> QED BY <1>1, <1>4

-----------------------------------------------------------------------------
(* Merging                                                                 *)

\* The endorsement sets of namespace n, input by input.
SetsOf(txs, n) == [i \in DOMAIN txs |-> EndorsementsOf(txs[i], n)]

\* What Merge makes: the namespaces of the inputs; for each, sorted by MSP, the
\* first endorsement of every MSP in the order of the inputs and nothing else
\* (merge.go:20-107).
THEOREM MergeIs ==
    ASSUME NEW E, \A e \in E : MspOf(e) \in Int,
           NEW txs, DOMAIN txs = 1..Len(txs), Len(txs) \in Nat, Len(txs) > 0,
           NEW N, txs[1].namespaces \in Seq(N),
           \A n \in DOMAIN txs[1].namespaces, i \in DOMAIN txs :
               EndorsementsOf(txs[i], n) \in Seq(E)
    PROVE  /\ DOMAIN Merge(txs) = {"namespaces", "endorsements"}
           /\ Merge(txs) = [namespaces   |-> txs[1].namespaces,
                            endorsements |-> Merge(txs).endorsements]
           /\ Merge(txs).endorsements \in Seq(Seq(E))
           /\ Len(Merge(txs).endorsements) = Len(txs[1].namespaces)
           /\ \A n \in DOMAIN txs[1].namespaces :
                 /\ SortedByMsp(Merge(txs).endorsements[n])
                 /\ \A e : In(Merge(txs).endorsements[n], e) <=> FirstOfAll(SetsOf(txs, n), e)
<1>1. PICK k : k = Len(txs[1].namespaces)
  OBVIOUS
<1>2. k \in Nat /\ DOMAIN txs[1].namespaces = 1..k
  BY <1>1
<1>3. PICK merged : merged = MergeEndorsements(txs)
  OBVIOUS
<1>4. PICK sets : sets = [n \in DOMAIN merged |-> SortEndorsementsByMspID(merged[n])]
  OBVIOUS
<1>5. Merge(txs) = [namespaces |-> txs[1].namespaces, endorsements |-> sets]
  BY <1>3, <1>4 DEF Merge
<1>6. merged = [n \in 1..k |-> OncePerMsp(FlattenSeq(SetsOf(txs, n)))]
  BY <1>2, <1>3 DEF MergeEndorsements, SetsOf
<1>7. ASSUME NEW n \in 1..k
      PROVE  /\ sets[n] \in Seq(E)
             /\ SortedByMsp(sets[n])
             /\ \A e : In(sets[n], e) <=> FirstOfAll(SetsOf(txs, n), e)
  <2>1. SetsOf(txs, n) \in Seq(Seq(E)) /\ Len(SetsOf(txs, n)) = Len(txs)
    BY <1>2 DEF SetsOf
  <2>2. PICK flat : flat = FlattenSeq(SetsOf(txs, n))
    OBVIOUS
  <2>3. flat \in Seq(E) /\ \A e : IsFirst(flat, e) <=> FirstOfAll(SetsOf(txs, n), e)
    BY <2>1, <2>2, FirstInFlattened
  <2>4. PICK once : once = OncePerMsp(flat)
    OBVIOUS
  <2>5. /\ once \in Seq(E)
        /\ DistinctMsps(once)
        /\ \A e : In(once, e) <=> IsFirst(flat, e)
    BY <2>3, <2>4, OncePerMspIs
  <2>6. merged[n] = once /\ DOMAIN merged = 1..k
    BY <1>6, <2>2, <2>4
  <2>7. sets[n] = SortEndorsementsByMspID(once)
    BY <1>4, <2>6
  <2>8. /\ sets[n] \in Seq(E)
        /\ SortedByMsp(sets[n])
        /\ \A e : In(sets[n], e) <=> In(once, e)
    BY <2>5, <2>7, SortedIs
  <2> QED BY <2>3, <2>5, <2>8
<1>8. sets = [n \in 1..k |-> sets[n]]
  BY <1>4, <1>6
<1>9. sets \in Seq(Seq(E)) /\ Len(sets) = k
  <2>1. PICK S : S = Seq(E)
    OBVIOUS
  <2>2. \A n \in 1..k : sets[n] \in S
    BY <1>7, <2>1
  <2>3. sets \in Seq(S) /\ Len(sets) = k
    BY <1>2, <1>8, <2>2
  <2> QED BY <2>1, <2>3
<1> QED BY <1>1, <1>2, <1>5, <1>7, <1>9

=============================================================================
