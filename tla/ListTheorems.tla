----------------------------- MODULE ListTheorems -----------------------------
(***************************************************************************)
(* Induction over the natural numbers, for one set or one function at a    *)
(* time, from the least-element theorem of the library; and what follows   *)
(* for the recursive functions the models use.                             *)
(***************************************************************************)
EXTENDS ListOps, SequenceTheorems, WellFoundedInduction, TLAPS

(* A set of natural numbers has a least element. *)
LEMMA LeastElement ==
    ASSUME NEW T, T \subseteq Nat, T # {}
    PROVE  \E x \in T : \A y \in T : x <= y
<1>1. IsWellFoundedOn(OpToRel(<, Nat), Nat)
  BY NatLessThanWellFounded
<1>2. \E x \in T : \A y \in T : ~(<<y, x>> \in OpToRel(<, Nat))
  BY <1>1, WFMin
<1>3. PICK x \in T : \A y \in T : ~(<<y, x>> \in OpToRel(<, Nat))
  BY <1>2
<1>4. \A y \in T : <<y, x>> \in OpToRel(<, Nat) <=> y < x
  BY <1>3 DEF OpToRel
<1>5. \A y \in T : ~(y < x) /\ y \in Nat /\ x \in Nat
  BY <1>3, <1>4
<1> QED
  BY <1>5

(* Induction up to n: a set that has 0, and i whenever it has i - 1, has   *)
(* all the numbers up to n.                                                *)
LEMMA InductionUpTo ==
    ASSUME NEW n \in Nat, NEW S,
           0 \in S, \A i \in 1 .. n : i - 1 \in S => i \in S
    PROVE  \A i \in 0 .. n : i \in S
<1> DEFINE T == {i \in 0 .. n : i \notin S}
<1> SUFFICES ASSUME T # {} PROVE FALSE
  OBVIOUS
<1>1. T \subseteq Nat
  OBVIOUS
<1>2. PICK x \in T : \A y \in T : x <= y
  <2> HIDE DEF T
  <2> QED
    BY <1>1, LeastElement
<1>3. x \in 1 .. n /\ x - 1 \in 0 .. n
  BY <1>2
<1>4. x - 1 \in S
  BY <1>2, <1>3
<1> QED
  BY <1>2, <1>3, <1>4

(* f takes values in V, starts from base and goes on by step. *)
Unfolds(f, n, V, base, step) ==
    /\ f \in [0 .. n -> V]
    /\ f[0] = base
    /\ \A i \in 1 .. n : f[i] = step[i][f[i - 1]]

(* A recursive definition over 0 .. n has a solution. *)
LEMMA RecursionUpTo ==
    ASSUME NEW n \in Nat, NEW V, NEW base \in V, NEW step \in [1 .. n -> [V -> V]]
    PROVE  \E f : Unfolds(f, n, V, base, step)
<1> DEFINE Solves(f, k) == /\ f[0] = base
                           /\ \A i \in 1 .. k : f[i] = step[i][f[i - 1]]
           S == {k \in 0 .. n : \E f \in [0 .. k -> V] : Solves(f, k)}
<1>1. 0 \in S
  <2> DEFINE f == [i \in 0 .. 0 |-> base]
  <2>1. f \in [0 .. 0 -> V] /\ f[0] = base /\ 0 \in 0 .. n /\ 1 .. 0 = {}
    OBVIOUS
  <2> HIDE DEF f
  <2> QED
    BY <2>1
<1>2. ASSUME NEW k \in 1 .. n, k - 1 \in S PROVE k \in S
  <2>1. PICK g \in [0 .. k - 1 -> V] : Solves(g, k - 1)
    BY <1>2
  <2> DEFINE f == [i \in 0 .. k |-> IF i = k THEN step[k][g[k - 1]] ELSE g[i]]
  <2>2. /\ k \in Nat /\ k # 0 /\ k - 1 \in 0 .. k - 1 /\ k \in 0 .. n
        /\ \A i \in 0 .. k : i # k => i \in 0 .. k - 1
        /\ \A i \in 1 .. k : i - 1 \in 0 .. k - 1 /\ i \in 1 .. n /\ i - 1 # k
    BY <1>2
  <2>3. f \in [0 .. k -> V]
    BY <2>1, <2>2
  <2>4. f[0] = base
    BY <2>1, <2>2
  <2>5. ASSUME NEW i \in 1 .. k PROVE f[i] = step[i][f[i - 1]]
    <3>1. f[i - 1] = g[i - 1]
      BY <2>2
    <3>2. CASE i = k
      BY <3>1, <3>2, <2>2
    <3>3. CASE i # k
      <4>1. i \in 1 .. k - 1
        BY <3>3, <2>2
      <4> QED
        BY <4>1, <3>1, <3>3, <2>1
    <3> QED
      BY <3>2, <3>3
  <2> HIDE DEF f
  <2> QED
    BY <2>2, <2>3, <2>4, <2>5
<1>3. \A k \in 0 .. n : k \in S
  <2> HIDE DEF S
  <2> QED
    BY <1>1, <1>2, InductionUpTo
<1>4. n \in S
  BY <1>3
<1> QED
  BY <1>4 DEF Unfolds

-----------------------------------------------------------------------------
(* Selections is the function its definition asks for. *)
LEMMA SelectionsRecursion ==
    ASSUME NEW V, NEW list \in Seq(V), NEW S
    PROVE  /\ Selections(list, S) \in [0 .. Len(list) -> Seq(V)]
           /\ Selections(list, S)[0] = <<>>
           /\ \A i \in 1 .. Len(list) :
                Selections(list, S)[i] =
                    IF list[i] \in S THEN Append(Selections(list, S)[i - 1], list[i])
                    ELSE Selections(list, S)[i - 1]
<1> DEFINE n == Len(list)
           W == Seq(V)
           Equation(g) ==
              g = [i \in 0 .. Len(list) |->
                     IF i = 0 THEN <<>>
                     ELSE IF list[i] \in S THEN Append(g[i - 1], list[i])
                     ELSE g[i - 1]]
           step == [i \in 1 .. n |->
                      [s \in W |-> IF list[i] \in S THEN Append(s, list[i]) ELSE s]]
<1>1. /\ n \in Nat /\ <<>> \in W
      /\ \A i \in 1 .. n : list[i] \in V
      /\ \A s \in W, x \in V : Append(s, x) \in W
  BY LenProperties, EmptySeq, ElementOfSeq
<1>2. step \in [1 .. n -> [W -> W]]
  <2> HIDE DEF W, n
  <2> QED
    BY <1>1
<1>3. \E g : g \in [0 .. n -> W] /\ Equation(g)
  <2>1. PICK g \in [0 .. n -> W] :
           /\ g[0] = <<>>
           /\ \A i \in 1 .. n : g[i] = step[i][g[i - 1]]
    <3> HIDE DEF step, n, W
    <3>1. \E g : Unfolds(g, n, W, <<>>, step)
      BY <1>1, <1>2, RecursionUpTo
    <3> QED
      BY <3>1 DEF Unfolds
  <2>2. ASSUME NEW i \in 0 .. n, i # 0
        PROVE  g[i] = IF list[i] \in S THEN Append(g[i - 1], list[i]) ELSE g[i - 1]
    <3>1. i \in 1 .. n /\ g[i - 1] \in W
      BY <2>2, <1>1
    <3> QED
      BY <3>1, <2>1
  <2>3. Equation(g)
    BY <2>1, <2>2
  <2> QED
    BY <2>1, <2>3
<1>4. Selections(list, S) = CHOOSE g : Equation(g)
  BY DEF Selections
<1> DEFINE kept == Selections(list, S)
           T == {i \in 0 .. n : kept[i] \in W}
<1>5. Equation(kept)
  <2> HIDE DEF Equation
  <2> QED
    BY <1>3, <1>4
<1> HIDE DEF kept
<1>6. /\ kept = [i \in 0 .. n |-> kept[i]]
      /\ kept[0] = <<>>
      /\ \A i \in 1 .. n :
           kept[i] = IF list[i] \in S THEN Append(kept[i - 1], list[i]) ELSE kept[i - 1]
  <2> HIDE DEF W
  <2>1. 0 \in 0 .. n /\ \A i \in 1 .. n : i \in 0 .. n /\ i # 0
    BY <1>1
  <2>2. kept = [i \in 0 .. n |-> kept[i]]
    BY <1>5
  <2>3. kept[0] = <<>>
    BY <2>1, <1>5
  <2>4. ASSUME NEW i \in 1 .. n
        PROVE  kept[i] = IF list[i] \in S THEN Append(kept[i - 1], list[i])
                         ELSE kept[i - 1]
    BY <2>1, <1>5
  <2> QED
    BY <2>2, <2>3, <2>4
<1> HIDE DEF n, W
<1>7. ASSUME NEW i \in 1 .. n, i - 1 \in T PROVE i \in T
  <2>1. i \in 0 .. n /\ kept[i - 1] \in W /\ list[i] \in V
    BY <1>1, <1>7
  <2>2. kept[i] \in W
    BY <2>1, <1>1, <1>6
  <2> QED
    BY <2>1, <2>2
<1>8. 0 \in T
  BY <1>1, <1>6
<1>9. \A i \in 0 .. n : kept[i] \in W
  <2> HIDE DEF T
  <2>1. \A i \in 0 .. n : i \in T
    BY <1>1, <1>7, <1>8, InductionUpTo
  <2> QED
    BY <2>1 DEF T
<1> QED
  BY <1>6, <1>9 DEF kept, n, W

(* What is selected is of the list and of the set, and no longer than the  *)
(* list.                                                                   *)
LEMMA SelectedProperties ==
    ASSUME NEW V, NEW list \in Seq(V), NEW S
    PROVE  /\ Selected(list, S) \in Seq(V \intersect S)
           /\ Len(Selected(list, S)) <= Len(list)
<1> DEFINE n == Len(list)
           W == V \intersect S
           kept == Selections(list, S)
           T == {i \in 0 .. n : kept[i] \in Seq(W) /\ Len(kept[i]) <= i}
<1>1. n \in Nat /\ \A i \in 1 .. n : list[i] \in V
  BY LenProperties, ElementOfSeq
<1>2. /\ kept[0] = <<>>
      /\ \A i \in 1 .. n :
           kept[i] = IF list[i] \in S THEN Append(kept[i - 1], list[i]) ELSE kept[i - 1]
  BY SelectionsRecursion
<1> HIDE DEF kept
<1>3. 0 \in T
  <2>1. kept[0] \in Seq(W) /\ Len(kept[0]) = 0
    BY <1>2, EmptySeq
  <2> HIDE DEF W
  <2> QED
    BY <2>1, <1>1
<1>4. ASSUME NEW i \in 1 .. n, i - 1 \in T PROVE i \in T
  <2>1. /\ i \in 0 .. n /\ kept[i - 1] \in Seq(W) /\ Len(kept[i - 1]) <= i - 1
        /\ Len(kept[i - 1]) \in Nat /\ i \in Nat
    BY <1>4, <1>1, LenProperties
  <2>2. CASE list[i] \in S
    <3>1. list[i] \in W
      BY <2>2, <1>1
    <3>2. kept[i] = Append(kept[i - 1], list[i])
      BY <2>2, <1>2
    <3>3. kept[i] \in Seq(W) /\ Len(kept[i]) = Len(kept[i - 1]) + 1
      <4> HIDE DEF W
      <4> QED
        BY <3>1, <3>2, <2>1, AppendProperties
    <3> QED
      BY <3>3, <2>1
  <2>3. CASE list[i] \notin S
    BY <2>1, <2>3, <1>2
  <2> QED
    BY <2>2, <2>3
<1>5. \A i \in 0 .. n : i \in T
  <2> HIDE DEF T, n
  <2> QED
    BY <1>1, <1>3, <1>4, InductionUpTo
<1> QED
  BY <1>1, <1>5 DEF Selected, kept

-----------------------------------------------------------------------------
(* What a list holds, and whether it holds nothing twice.                  *)
Entries(list) == {list[i] : i \in DOMAIN list}
NoneTwice(list) == \A i, j \in DOMAIN list : list[i] = list[j] => i = j

LEMMA AppendedEntries ==
    ASSUME NEW V, NEW list \in Seq(V), NEW x \in V
    PROVE  /\ Entries(Append(list, x)) = Entries(list) \union {x}
           /\ NoneTwice(list) /\ x \notin Entries(list) => NoneTwice(Append(list, x))
<1> DEFINE new == Append(list, x)
           n == Len(list)
<1>1. /\ n \in Nat /\ DOMAIN list = 1 .. n /\ DOMAIN new = 1 .. n + 1
      /\ \A i \in 1 .. n : new[i] = list[i]
      /\ new[n + 1] = x
  BY LenProperties, AppendProperties
<1> HIDE DEF new, n
<1>2. Entries(new) = Entries(list) \union {x}
  <2>1. \A i \in DOMAIN new : new[i] \in Entries(list) \union {x}
    BY <1>1 DEF Entries
  <2>2. \A i \in DOMAIN list : list[i] \in Entries(new)
    BY <1>1 DEF Entries
  <2>3. x \in Entries(new)
    BY <1>1 DEF Entries
  <2> QED
    BY <2>1, <2>2, <2>3 DEF Entries
<1>3. ASSUME NoneTwice(list), x \notin Entries(list) PROVE NoneTwice(new)
  <2>1. \A i \in 1 .. n : list[i] # x
    BY <1>1, <1>3 DEF Entries
  <2> QED
    BY <1>1, <1>3, <2>1 DEF NoneTwice
<1> QED
  BY <1>2, <1>3 DEF new

LEMMA TailEntries ==
    ASSUME NEW V, NEW list \in Seq(V), list # <<>>, NoneTwice(list)
    PROVE  /\ Entries(Tail(list)) = Entries(list) \ {Head(list)}
           /\ NoneTwice(Tail(list))
           /\ Head(list) \in Entries(list)
<1> DEFINE new == Tail(list)
           n == Len(list)
<1>1. /\ n \in Nat /\ n >= 1 /\ DOMAIN list = 1 .. n /\ DOMAIN new = 1 .. n - 1
      /\ \A i \in 1 .. n - 1 : new[i] = list[i + 1]
      /\ Head(list) = list[1]
  BY LenProperties, HeadTailProperties, EmptySeq
<1> HIDE DEF new, n
<1>2. Entries(new) = Entries(list) \ {list[1]}
  <2>1. ASSUME NEW i \in DOMAIN new PROVE new[i] \in Entries(list) \ {list[1]}
    <3>1. i + 1 \in DOMAIN list /\ new[i] = list[i + 1] /\ 1 \in DOMAIN list /\ i + 1 # 1
      BY <1>1, <2>1
    <3> QED
      BY <3>1 DEF Entries, NoneTwice
  <2>2. ASSUME NEW i \in DOMAIN list, list[i] # list[1] PROVE list[i] \in Entries(new)
    <3>1. i - 1 \in DOMAIN new /\ new[i - 1] = list[i]
      BY <1>1, <2>2
    <3> QED
      BY <3>1 DEF Entries
  <2> QED
    BY <2>1, <2>2 DEF Entries
<1>3. NoneTwice(new)
  <2>1. ASSUME NEW i \in DOMAIN new, NEW j \in DOMAIN new, new[i] = new[j] PROVE i = j
    <3>1. i + 1 \in DOMAIN list /\ j + 1 \in DOMAIN list /\ list[i + 1] = list[j + 1]
      BY <1>1, <2>1
    <3>2. i + 1 = j + 1 /\ i \in Nat /\ j \in Nat
      BY <1>1, <3>1 DEF NoneTwice
    <3> QED
      BY <3>2
  <2> QED
    BY <2>1 DEF NoneTwice
<1>4. list[1] \in Entries(list)
  BY <1>1 DEF Entries
<1> QED
  BY <1>1, <1>2, <1>3, <1>4 DEF new

(* Selected keeps what is in the set, each entry where it was. *)
LEMMA SelectedEntries ==
    ASSUME NEW V, NEW list \in Seq(V), NEW S
    PROVE  /\ Entries(Selected(list, S)) = Entries(list) \intersect S
           /\ NoneTwice(list) => NoneTwice(Selected(list, S))
<1> DEFINE n == Len(list)
           kept == Selections(list, S)
           First(i) == {list[j] : j \in 1 .. i}
           T == {i \in 0 .. n : /\ Entries(kept[i]) = First(i) \intersect S
                                /\ NoneTwice(list) => NoneTwice(kept[i])}
<1>1. n \in Nat /\ DOMAIN list = 1 .. n /\ \A i \in 1 .. n : list[i] \in V
  BY LenProperties, ElementOfSeq
<1>2. /\ kept \in [0 .. n -> Seq(V)]
      /\ kept[0] = <<>>
      /\ \A i \in 1 .. n :
           kept[i] = IF list[i] \in S THEN Append(kept[i - 1], list[i]) ELSE kept[i - 1]
  BY SelectionsRecursion
<1> HIDE DEF kept
<1>3. 0 \in T
  <2>1. DOMAIN kept[0] = {} /\ First(0) = {}
    BY <1>2
  <2>2. Entries(kept[0]) = {} /\ NoneTwice(kept[0])
    BY <2>1 DEF Entries, NoneTwice
  <2> QED
    BY <1>1, <2>1, <2>2
<1>4. ASSUME NEW i \in 1 .. n, i - 1 \in T PROVE i \in T
  <2>1. /\ i \in 0 .. n /\ i - 1 \in 0 .. n /\ kept[i - 1] \in Seq(V) /\ list[i] \in V
        /\ Entries(kept[i - 1]) = First(i - 1) \intersect S
        /\ NoneTwice(list) => NoneTwice(kept[i - 1])
    <3>1. i \in 0 .. n /\ i - 1 \in 0 .. n /\ list[i] \in V
      BY <1>1
    <3>2. kept[i - 1] \in Seq(V)
      BY <1>2, <3>1
    <3> HIDE DEF First
    <3>3. /\ Entries(kept[i - 1]) = First(i - 1) \intersect S
          /\ NoneTwice(list) => NoneTwice(kept[i - 1])
      BY <1>4
    <3> QED
      BY <3>1, <3>2, <3>3
  <2>2. First(i) = First(i - 1) \union {list[i]}
    BY <1>1, <2>1
  <2>3. NoneTwice(list) => list[i] \notin First(i - 1)
    BY <1>1, <2>1 DEF NoneTwice
  <2>4. CASE list[i] \in S
    <3>1. kept[i] = Append(kept[i - 1], list[i])
      BY <2>4, <1>2
    <3>2. /\ Entries(kept[i]) = Entries(kept[i - 1]) \union {list[i]}
          /\ NoneTwice(kept[i - 1]) /\ list[i] \notin Entries(kept[i - 1])
                => NoneTwice(kept[i])
      BY <3>1, <2>1, AppendedEntries
    <3> HIDE DEF First
    <3>3. /\ Entries(kept[i]) = First(i) \intersect S
          /\ NoneTwice(list) => NoneTwice(kept[i])
      BY <2>1, <2>2, <2>3, <2>4, <3>2
    <3> QED
      BY <3>3, <2>1
  <2>5. CASE list[i] \notin S
    <3>1. kept[i] = kept[i - 1]
      BY <2>5, <1>2
    <3> HIDE DEF First
    <3> QED
      BY <2>1, <2>2, <2>5, <3>1
  <2> QED
    BY <2>4, <2>5
<1>5. \A i \in 0 .. n : i \in T
  <2> HIDE DEF T, n
  <2> QED
    BY <1>1, <1>3, <1>4, InductionUpTo
<1>6. n \in T /\ First(n) = Entries(list)
  BY <1>1, <1>5 DEF Entries
<1> QED
  BY <1>6 DEF Selected, kept
===============================================================================
