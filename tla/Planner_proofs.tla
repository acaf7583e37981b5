---------------------------- MODULE Planner_proofs ----------------------------
(***************************************************************************)
(* Proofs about Planner, for any emails, any books and any edits by staff. *)
(* The numbers and folds it is written with come first, then what each     *)
(* plan writes (Ops, Plans), then what its operations leave of a book:     *)
(* Leads(B, ops, C) says every way of landing ops on B comes to C, and     *)
(* CrewDone, Moves and Followed say what C is for a change of crew, of     *)
(* times and of both.  The invariant (PlanInv) has the email planned once  *)
(* on before, and book as the operations written so far leave it           *)
(* (Progress).  Then emails of new calls: the changes of the held calls    *)
(* land (CallLands, HeldLands) and the shifts of the others (FreshLands),  *)
(* so each call is Kept; a kept call asks nothing more (KeptRests), and    *)
(* what is kept stays so whatever staff change (KeptInv).                  *)
(***************************************************************************)
EXTENDS Planner, FiniteSetTheorems, WellFoundedInduction, TLAPS

-----------------------------------------------------------------------------
(* Numbers, folds and orders. *)

LEMMA LeastCount ==
  ASSUME NEW S, S \subseteq Nat, S # {}
  PROVE  \E x \in S : \A y \in S : x <= y
<1> DEFINE R == OpToRel(<, Nat)
<1>1. IsWellFoundedOn(R, Nat)
  BY NatLessThanWellFounded
<1>2. \A x, y \in Nat : y < x => <<y, x>> \in R
  BY DEF OpToRel
<1> HIDE DEF R
<1>3. PICK x \in S : \A y \in S : ~ (<<y, x>> \in R)
  BY <1>1, WFMin
<1>4. \A y \in S : ~ (y < x)
  BY <1>2, <1>3
<1>5. QED BY <1>4

LEMMA MinIsLeast ==
  ASSUME NEW S, S \subseteq Nat, S # {}
  PROVE  Min(S) \in S /\ \A y \in S : Min(S) <= y
BY LeastCount DEF Min

\* What holds of none, and of one more whenever it holds, holds of every number up to n.
LEMMA Upwards ==
  ASSUME NEW S, 0 \in S, NEW n \in Nat, \A k \in 0..(n - 1) : k \in S => k + 1 \in S
  PROVE  \A k \in 0..n : k \in S
<1> SUFFICES ASSUME NEW m \in 0..n, m \notin S PROVE FALSE
  OBVIOUS
<1> DEFINE bad == {k \in 0..n : k \notin S}
<1>1. bad \subseteq Nat /\ bad # {}
  OBVIOUS
<1>2. PICK x \in bad : \A y \in bad : x <= y
  BY <1>1, LeastCount
<1>3. x # 0 /\ x - 1 \in 0..(n - 1)
  BY <1>2
<1>4. x - 1 \in S
  BY <1>2, <1>3
<1>5. QED BY <1>2, <1>3, <1>4

\* A finite set of numbers has a greatest one.
LEMMA MaxIsGreatest ==
  ASSUME NEW S, S \subseteq Nat, S # {}, IsFiniteSet(S)
  PROVE  Max(S) \in S /\ \A y \in S : Max(S) >= y
<1> DEFINE ok == {n \in Nat : \A T \in SUBSET S : Cardinality(T) = n /\ T # {} => \E x \in T : \A y \in T : x >= y}
<1>1. \A T \in SUBSET S : IsFiniteSet(T) /\ Cardinality(T) \in Nat
  BY FS_Subset, FS_CardinalityType
<1>2. 0 \in ok
  BY <1>1, FS_EmptySet
<1>3. \A k \in 0..(Cardinality(S) - 1) : k \in ok => k + 1 \in ok
  <2> SUFFICES ASSUME NEW k \in 0..(Cardinality(S) - 1), k \in ok, NEW T \in SUBSET S, Cardinality(T) = k + 1, T # {}
               PROVE  \E x \in T : \A y \in T : x >= y
    BY <1>1
  <2>1. PICK a \in T : TRUE
    OBVIOUS
  <2>2. T \ {a} \in SUBSET S /\ Cardinality(T \ {a}) = k
    BY <1>1, FS_RemoveElement
  <2>3. CASE T \ {a} = {}
    BY <2>1, <2>3
  <2>4. CASE T \ {a} # {}
    <3>1. PICK b \in T \ {a} : \A y \in T \ {a} : b >= y
      BY <2>2, <2>4
    <3>2. a \in Nat /\ b \in Nat /\ \A y \in T : y \in Nat
      OBVIOUS
    <3>3. CASE a >= b
      <4>1. \A y \in T : a >= y
        BY <3>1, <3>2, <3>3
      <4>2. QED BY <4>1
    <3>4. CASE ~ (a >= b)
      <4>1. \A y \in T : b >= y
        BY <3>1, <3>2, <3>4
      <4>2. QED BY <4>1
    <3>5. QED BY <3>3, <3>4
  <2>5. QED BY <2>3, <2>4
<1> HIDE DEF ok
<1>4. Cardinality(S) \in ok
  BY <1>1, <1>2, <1>3, Upwards
<1>5. \E x \in S : \A y \in S : x >= y
  BY <1>4 DEF ok
<1>6. QED BY <1>5 DEF Max

\* A fold over the subsets of D: one member, chosen by ch, is taken at a time, by H.
Folds(D, V, base, ch, H) ==
  /\ IsFiniteSet(D) /\ base \in V
  /\ \A s \in SUBSET D : s # {} => ch[s] \in s
  /\ \A x \in D : \A v \in V : H[x][v] \in V
FoldOf(f, D, base, ch, H) ==
  \A s \in SUBSET D : f[s] = IF s = {} THEN base ELSE H[ch[s]][f[s \ {ch[s]}]]

\* A fold over a finite set is defined, and of its type.
LEMMA FoldExists ==
  ASSUME NEW D, NEW V, NEW base, NEW ch, NEW H, Folds(D, V, base, ch, H)
  PROVE  \E f \in [SUBSET D -> V] : FoldOf(f, D, base, ch, H)
<1>0. /\ IsFiniteSet(D) /\ base \in V
      /\ \A s \in SUBSET D : s # {} => ch[s] \in s
      /\ \A x \in D, v \in V : H[x][v] \in V
  BY DEF Folds
<1> DEFINE upto(n) == {s \in SUBSET D : Cardinality(s) <= n}
           good(f, n) == \A s \in upto(n) : f[s] = IF s = {} THEN base ELSE H[ch[s]][f[s \ {ch[s]}]]
           ok == {n \in Nat : \E f \in [upto(n) -> V] : good(f, n)}
<1>1. \A s \in SUBSET D : IsFiniteSet(s) /\ Cardinality(s) \in Nat /\ Cardinality(s) <= Cardinality(D)
  BY <1>0, FS_Subset, FS_CardinalityType
<1>2. Cardinality(D) \in Nat
  BY <1>0, FS_CardinalityType
<1>3. \A s \in SUBSET D : s # {} => s \ {ch[s]} \in SUBSET D /\ Cardinality(s \ {ch[s]}) = Cardinality(s) - 1
  <2> SUFFICES ASSUME NEW s \in SUBSET D, s # {}
               PROVE  s \ {ch[s]} \in SUBSET D /\ Cardinality(s \ {ch[s]}) = Cardinality(s) - 1
    OBVIOUS
  <2>1. IsFiniteSet(s) /\ ch[s] \in s
    BY <1>0, <1>1
  <2>2. QED BY <2>1, FS_RemoveElement
<1> HIDE DEF ok
<1>4. 0 \in ok
  <2>0. \A s \in SUBSET D : Cardinality(s) <= 0 <=> s = {}
    <3>1. Cardinality({}) = 0 /\ \A s \in SUBSET D : Cardinality(s) = 0 <=> s = {}
      BY <1>1, FS_EmptySet
    <3>2. \A s \in SUBSET D : Cardinality(s) <= 0 <=> Cardinality(s) = 0
      BY <1>1
    <3>3. QED BY <3>1, <3>2
  <2>1. upto(0) = {{}}
    BY <2>0
  <2> DEFINE f == [s \in upto(0) |-> base]
  <2>2. f \in [upto(0) -> V]
    BY <1>0
  <2>3. good(f, 0)
    BY <2>1
  <2>4. QED BY <2>2, <2>3 DEF ok
<1>5. \A k \in 0..(Cardinality(D) - 1) : k \in ok => k + 1 \in ok
  <2> SUFFICES ASSUME NEW k \in 0..(Cardinality(D) - 1), k \in ok PROVE k + 1 \in ok
    OBVIOUS
  <2>1. PICK f \in [upto(k) -> V] : good(f, k)
    BY DEF ok
  <2> DEFINE g == [s \in upto(k + 1) |-> IF Cardinality(s) <= k THEN f[s] ELSE H[ch[s]][f[s \ {ch[s]}]]]
  <2>21. \A s \in upto(k + 1) : g[s] = IF Cardinality(s) <= k THEN f[s] ELSE H[ch[s]][f[s \ {ch[s]}]]
    OBVIOUS
  <2>22. g = [s \in upto(k + 1) |-> g[s]]
    OBVIOUS
  <2> HIDE DEF g
  <2>2. \A s \in upto(k + 1) : Cardinality(s) <= k => s \in upto(k)
    OBVIOUS
  <2>20. \A s \in upto(k + 1) : s # {} => s \ {ch[s]} \in upto(k) /\ s \ {ch[s]} \in upto(k + 1) /\ ch[s] \in D
    <3> SUFFICES ASSUME NEW s \in upto(k + 1), s # {}
                 PROVE s \ {ch[s]} \in upto(k) /\ s \ {ch[s]} \in upto(k + 1) /\ ch[s] \in D
      OBVIOUS
    <3>1. Cardinality(s \ {ch[s]}) = Cardinality(s) - 1 /\ Cardinality(s) \in Nat /\ Cardinality(s) <= k + 1
      BY <1>1, <1>3
    <3>2. Cardinality(s \ {ch[s]}) <= k /\ Cardinality(s \ {ch[s]}) <= k + 1
      BY <3>1
    <3>3. ch[s] \in s
      BY <1>0
    <3>4. QED BY <3>2, <3>3
  <2>3. \A s \in upto(k + 1) : ~ (Cardinality(s) <= k) => s # {}
    <3> SUFFICES ASSUME NEW s \in upto(k + 1), s = {} PROVE Cardinality(s) <= k
      OBVIOUS
    <3>1. Cardinality(s) = 0
      BY FS_EmptySet
    <3>2. QED BY <3>1
  <2>4. g \in [upto(k + 1) -> V]
    <3> SUFFICES ASSUME NEW s \in upto(k + 1) PROVE g[s] \in V
      BY <2>22
    <3>1. CASE Cardinality(s) <= k
      <4>1. g[s] = f[s]
        BY <2>21, <3>1
      <4>2. QED BY <2>1, <2>2, <3>1, <4>1
    <3>2. CASE ~ (Cardinality(s) <= k)
      <4>1. g[s] = H[ch[s]][f[s \ {ch[s]}]]
        BY <2>21, <3>2
      <4>2. f[s \ {ch[s]}] \in V /\ ch[s] \in D
        BY <2>1, <2>20, <2>3, <3>2
      <4>3. QED BY <1>0, <4>1, <4>2
    <3>3. QED BY <3>1, <3>2
  <2>5. \A s \in upto(k + 1) : s # {} => g[s \ {ch[s]}] = f[s \ {ch[s]}]
    <3> SUFFICES ASSUME NEW s \in upto(k + 1), s # {} PROVE g[s \ {ch[s]}] = f[s \ {ch[s]}]
      OBVIOUS
    <3>1. s \ {ch[s]} \in upto(k) /\ s \ {ch[s]} \in upto(k + 1)
      BY <2>20
    <3>2. Cardinality(s \ {ch[s]}) <= k
      BY <3>1
    <3>3. QED BY <2>21, <3>1, <3>2
  <2>6. good(g, k + 1)
    <3> SUFFICES ASSUME NEW s \in upto(k + 1) PROVE g[s] = IF s = {} THEN base ELSE H[ch[s]][g[s \ {ch[s]}]]
      OBVIOUS
    <3>1. CASE Cardinality(s) <= k
      <4>1. g[s] = f[s] /\ s \in upto(k)
        BY <2>2, <2>21, <3>1
      <4>2. f[s] = IF s = {} THEN base ELSE H[ch[s]][f[s \ {ch[s]}]]
        BY <2>1, <4>1
      <4>3. QED BY <2>5, <4>1, <4>2
    <3>2. CASE ~ (Cardinality(s) <= k)
      BY <2>21, <2>3, <2>5, <3>2
    <3>3. QED BY <3>1, <3>2
  <2>7. k + 1 \in Nat
    OBVIOUS
  <2>8. QED BY <2>4, <2>6, <2>7 DEF ok
<1> DEFINE n == Cardinality(D)
<1>6. n \in ok
  <2>1. n \in Nat /\ n \in 0..n /\ \A k \in 0..(n - 1) : k \in ok => k + 1 \in ok
    BY <1>2, <1>5
  <2> HIDE DEF n
  <2>2. QED BY <2>1, <1>4, Upwards
<1>7. PICK f \in [upto(n) -> V] : good(f, n)
  BY <1>6 DEF ok
<1>8. upto(n) = SUBSET D
  BY <1>1
<1>9. f \in [SUBSET D -> V] /\ \A s \in SUBSET D : f[s] = IF s = {} THEN base ELSE H[ch[s]][f[s \ {ch[s]}]]
  BY <1>7, <1>8
<1>10. QED BY <1>9 DEF FoldOf

\* A finite set whose members have each a number of their own can be put in order.
LEMMA Sorts ==
  ASSUME NEW S, IsFiniteSet(S), NEW key, \A x \in S : key[x] \in Nat,
         \A x, y \in S : key[x] = key[y] => x = y
  PROVE  \E f \in [1..Cardinality(S) -> S] : \A i, j \in 1..Cardinality(S) : i < j => key[f[i]] < key[f[j]]
<1> DEFINE sorted(T) == \E f \in [1..Cardinality(T) -> T] : \A i, j \in 1..Cardinality(T) : i < j => key[f[i]] < key[f[j]]
           ok == {n \in Nat : \A T \in SUBSET S : Cardinality(T) = n => sorted(T)}
<1>1. \A T \in SUBSET S : IsFiniteSet(T) /\ Cardinality(T) \in Nat
  BY FS_Subset, FS_CardinalityType
<1>2. 0 \in ok
  <2> SUFFICES ASSUME NEW T \in SUBSET S, Cardinality(T) = 0 PROVE sorted(T)
    OBVIOUS
  <2>1. [i \in 1..0 |-> 0] \in [1..0 -> T]
    OBVIOUS
  <2>2. T = {}
    BY <1>1, FS_EmptySet
  <2>3. \A i \in 1..0 : FALSE
    OBVIOUS
  <2>4. QED BY <2>1, <2>3
<1>3. \A k \in 0..(Cardinality(S) - 1) : k \in ok => k + 1 \in ok
  <2> SUFFICES ASSUME NEW k \in 0..(Cardinality(S) - 1), k \in ok, NEW T \in SUBSET S, Cardinality(T) = k + 1
               PROVE  sorted(T)
    OBVIOUS
  <2> DEFINE keys == {key[x] : x \in T}
  <2>1. T # {}
    BY <1>1, FS_EmptySet
  <2>2. keys \subseteq Nat /\ keys # {} /\ IsFiniteSet(keys)
    <3>1. IsFiniteSet(keys)
      <4>1. IsFiniteSet(T)
        BY <1>1
      <4>2. [x \in T |-> key[x]] \in Surjection(T, keys)
        BY DEF Surjection
      <4> HIDE DEF keys
      <4>3. QED BY <4>1, <4>2, FS_Surjection
    <3>2. QED BY <2>1, <3>1
  <2>3. Max(keys) \in keys /\ \A y \in keys : Max(keys) >= y
    BY <2>2, MaxIsGreatest
  <2>4. PICK a \in T : key[a] = Max(keys)
    BY <2>3
  <2>5. T \ {a} \in SUBSET S /\ Cardinality(T \ {a}) = k
    BY <1>1, FS_RemoveElement
  <2>6. PICK f \in [1..k -> T \ {a}] : \A i, j \in 1..k : i < j => key[f[i]] < key[f[j]]
    BY <2>5
  <2> DEFINE g == [i \in 1..(k + 1) |-> IF i = k + 1 THEN a ELSE f[i]]
  <2>7. g \in [1..(k + 1) -> T]
    OBVIOUS
  <2>8. \A x \in T \ {a} : key[x] < key[a]
    <3> SUFFICES ASSUME NEW x \in T \ {a} PROVE key[x] < key[a]
      OBVIOUS
    <3>1. key[x] \in keys /\ key[x] \in Nat /\ key[a] \in Nat /\ key[x] # key[a]
      OBVIOUS
    <3>2. key[a] >= key[x]
      <4> HIDE DEF keys
      <4>1. QED BY <2>3, <2>4, <3>1
    <3>3. QED BY <3>1, <3>2
  <2>9. \A i, j \in 1..(k + 1) : i < j => key[g[i]] < key[g[j]]
    <3> SUFFICES ASSUME NEW i \in 1..(k + 1), NEW j \in 1..(k + 1), i < j PROVE key[g[i]] < key[g[j]]
      OBVIOUS
    <3>1. i \in 1..k /\ g[i] = f[i] /\ f[i] \in T \ {a}
      BY <2>6
    <3>2. CASE j = k + 1
      BY <2>8, <3>1, <3>2
    <3>3. CASE j # k + 1
      BY <2>6, <3>1, <3>3
    <3>4. QED BY <3>2, <3>3
  <2>10. QED BY <2>7, <2>9
<1>4. Cardinality(S) \in ok
  <2> HIDE DEF ok
  <2>1. QED BY <1>1, <1>2, <1>3, Upwards
<1>5. QED BY <1>4

\* A list in strict order has every member of the set once.
LEMMA ListsAll ==
  ASSUME NEW S, IsFiniteSet(S), NEW f \in [1..Cardinality(S) -> S],
         \A i, j \in 1..Cardinality(S) : i # j => f[i] # f[j]
  PROVE  \A x \in S : \E i \in 1..Cardinality(S) : f[i] = x
<1> DEFINE n == Cardinality(S)
           T == {f[i] : i \in 1..n}
<1>1. n \in Nat
  BY FS_CardinalityType
<1>2. f \in Bijection(1..n, T)
  BY DEF Bijection, Injection, Surjection, IsInjective
<1>3. Cardinality(1..n) = n /\ IsFiniteSet(1..n)
  BY <1>1, FS_Interval
<1>4. IsFiniteSet(T) /\ Cardinality(T) = n
  BY <1>2, <1>3, FS_Bijection DEF ExistsBijection
<1>5. T = S
  BY <1>4, FS_Subset
<1>6. QED BY <1>5

-----------------------------------------------------------------------------
(* Sums of people. *)

Sized(ps) == IsFiniteSet(ps) /\ \A s \in ps : s.size \in Nat

\* A sum is defined: that of none is 0, any other is one member's size and the rest's.
LEMMA PeopleFold ==
  ASSUME NEW ps, Sized(ps)
  PROVE  \E f \in [SUBSET ps -> Nat] :
           /\ f[{}] = 0 /\ People(ps) = f[ps]
           /\ \A s \in SUBSET ps : s # {} => f[s] = (CHOOSE x \in s : TRUE).size + f[s \ {CHOOSE x \in s : TRUE}]
<1> DEFINE ch == [s \in SUBSET ps |-> CHOOSE x \in s : TRUE]
           H == [x \in ps |-> [v \in Nat |-> x.size + v]]
           Eq(f) == f = [s \in SUBSET ps |-> IF s = {} THEN 0 ELSE LET x == CHOOSE x \in s : TRUE IN x.size + f[s \ {x}]]
<1>1. \A s \in SUBSET ps : s # {} => ch[s] \in s
  OBVIOUS
<1>2. \A x \in ps, v \in Nat : H[x][v] \in Nat /\ H[x][v] = x.size + v
  BY DEF Sized
<1>3. IsFiniteSet(ps) /\ 0 \in Nat
  BY DEF Sized
<1>4. \A s \in SUBSET ps : ch[s] = CHOOSE x \in s : TRUE
  OBVIOUS
<1> HIDE DEF ch, H
<1>5. PICK f \in [SUBSET ps -> Nat] : \A s \in SUBSET ps : f[s] = IF s = {} THEN 0 ELSE H[ch[s]][f[s \ {ch[s]}]]
  <2>1. Folds(ps, Nat, 0, ch, H)
    BY <1>1, <1>2, <1>3 DEF Folds
  <2>2. PICK f \in [SUBSET ps -> Nat] : FoldOf(f, ps, 0, ch, H)
    BY <2>1, FoldExists
  <2>3. QED BY <2>2 DEF FoldOf
<1>6. \A s \in SUBSET ps : s # {} => H[ch[s]][f[s \ {ch[s]}]] = (CHOOSE x \in s : TRUE).size + f[s \ {CHOOSE x \in s : TRUE}]
  <2> SUFFICES ASSUME NEW s \in SUBSET ps, s # {}
               PROVE  H[ch[s]][f[s \ {ch[s]}]] = (CHOOSE x \in s : TRUE).size + f[s \ {CHOOSE x \in s : TRUE}]
    OBVIOUS
  <2>1. ch[s] \in ps /\ f[s \ {ch[s]}] \in Nat
    BY <1>1
  <2>2. H[ch[s]][f[s \ {ch[s]}]] = ch[s].size + f[s \ {ch[s]}]
    BY <1>2, <2>1
  <2>3. QED BY <1>4, <2>2
<1>8. \A s \in SUBSET ps : f[s] = IF s = {} THEN 0 ELSE LET x == CHOOSE x \in s : TRUE IN x.size + f[s \ {x}]
  BY <1>5, <1>6
<1>9. Eq(f)
  BY <1>8, <1>5
<1> DEFINE iter == CHOOSE g : Eq(g)
<1>10. People(ps) = iter[ps]
  BY DEF People, MapThenSumSet, MapThenFoldSet
<1>11. Eq(iter)
  BY <1>9
<1> HIDE DEF iter
<1>12. iter = [s \in SUBSET ps |-> iter[s]]
  BY <1>11
<1>13. \A s \in SUBSET ps : iter[s] = IF s = {} THEN 0 ELSE LET x == CHOOSE x \in s : TRUE IN x.size + iter[s \ {x}]
  BY <1>11
<1> DEFINE ok == {n \in Nat : \A s \in SUBSET ps : Cardinality(s) = n => iter[s] \in Nat}
<1>14. \A s \in SUBSET ps : IsFiniteSet(s) /\ Cardinality(s) \in Nat
  BY <1>3, FS_Subset, FS_CardinalityType
<1>15. 0 \in ok
  <2>1. \A s \in SUBSET ps : Cardinality(s) = 0 => s = {}
    BY <1>14, FS_EmptySet
  <2>2. iter[{}] = 0
    BY <1>13
  <2>3. \A s \in SUBSET ps : Cardinality(s) = 0 => iter[s] \in Nat
    <3> SUFFICES ASSUME NEW s \in SUBSET ps, Cardinality(s) = 0 PROVE iter[s] \in Nat
      OBVIOUS
    <3>1. s = {}
      BY <2>1
    <3>2. QED BY <2>2, <3>1
  <2>4. QED BY <2>3
<1>16. \A k \in 0..(Cardinality(ps) - 1) : k \in ok => k + 1 \in ok
  <2> SUFFICES ASSUME NEW k \in 0..(Cardinality(ps) - 1), k \in ok, NEW s \in SUBSET ps, Cardinality(s) = k + 1
               PROVE  iter[s] \in Nat
    BY <1>14
  <2>1. s # {}
    BY <1>14, FS_EmptySet
  <2>2. PICK x \in s : x = CHOOSE y \in s : TRUE
    BY <2>1
  <2>3. Cardinality(s \ {x}) = k
    <3>1. IsFiniteSet(s)
      BY <1>14
    <3>2. Cardinality(s \ {x}) = Cardinality(s) - 1
      BY <3>1, FS_RemoveElement
    <3>3. QED BY <3>2
  <2>4. iter[s \ {x}] \in Nat /\ x.size \in Nat
    BY <2>3 DEF Sized
  <2>5. iter[s] = x.size + iter[s \ {x}]
    BY <1>13, <2>1, <2>2
  <2>6. QED BY <2>4, <2>5
<1>17. Cardinality(ps) \in Nat
  BY <1>14
<1>18. \A n \in 0..Cardinality(ps) : n \in ok
  <2> HIDE DEF ok
  <2>1. QED BY <1>15, <1>16, <1>17, Upwards
<1>19. \A s \in SUBSET ps : Cardinality(s) \in 0..Cardinality(ps)
  BY <1>3, <1>14, <1>17, FS_Subset
<1>20. iter \in [SUBSET ps -> Nat]
  BY <1>12, <1>18, <1>19
<1>21. QED
  <2>1. iter[{}] = 0
    BY <1>13
  <2>2. \A s \in SUBSET ps : s # {} => iter[s] = (CHOOSE x \in s : TRUE).size + iter[s \ {CHOOSE x \in s : TRUE}]
    BY <1>13
  <2>3. QED BY <1>10, <1>20, <2>1, <2>2

\* The fold of a set is, on each of its parts, that part's sum.
LEMMA PeoplePart ==
  ASSUME NEW ps, Sized(ps), ps # {}
  PROVE  \E x \in ps : People(ps) = x.size + People(ps \ {x})
<1>0. PICK x \in ps : x = CHOOSE y \in ps : TRUE
  OBVIOUS
<1> DEFINE U == ps \ {x}
<1>1. Sized(U)
  BY FS_Subset DEF Sized
<1>2. PICK f \in [SUBSET ps -> Nat] :
           /\ f[{}] = 0 /\ People(ps) = f[ps]
           /\ \A s \in SUBSET ps : s # {} => f[s] = (CHOOSE y \in s : TRUE).size + f[s \ {CHOOSE y \in s : TRUE}]
  BY PeopleFold
<1>3. PICK g \in [SUBSET U -> Nat] :
           /\ g[{}] = 0 /\ People(U) = g[U]
           /\ \A s \in SUBSET U : s # {} => g[s] = (CHOOSE y \in s : TRUE).size + g[s \ {CHOOSE y \in s : TRUE}]
  BY <1>1, PeopleFold
<1> DEFINE ok == {n \in Nat : \A s \in SUBSET U : Cardinality(s) = n => f[s] = g[s]}
<1>4. \A s \in SUBSET U : IsFiniteSet(s) /\ Cardinality(s) \in Nat
  BY <1>1, FS_Subset, FS_CardinalityType DEF Sized
<1>5. 0 \in ok
  <2> SUFFICES ASSUME NEW s \in SUBSET U, Cardinality(s) = 0 PROVE f[s] = g[s]
    OBVIOUS
  <2>1. s = {}
    BY <1>4, FS_EmptySet
  <2>2. QED BY <1>2, <1>3, <2>1
<1>6. \A k \in 0..(Cardinality(U) - 1) : k \in ok => k + 1 \in ok
  <2> SUFFICES ASSUME NEW k \in 0..(Cardinality(U) - 1), k \in ok, NEW s \in SUBSET U, Cardinality(s) = k + 1
               PROVE  f[s] = g[s]
    BY <1>4
  <2>1. s # {} /\ s \in SUBSET ps
    BY <1>4, FS_EmptySet
  <2>2. PICK y \in s : y = CHOOSE z \in s : TRUE
    BY <2>1
  <2>3. s \ {y} \in SUBSET U /\ Cardinality(s \ {y}) = k
    <3>1. IsFiniteSet(s)
      BY <1>4
    <3>2. Cardinality(s \ {y}) = Cardinality(s) - 1
      BY <3>1, FS_RemoveElement
    <3>3. QED BY <3>2
  <2>4. f[s \ {y}] = g[s \ {y}]
    BY <2>3
  <2>5. f[s] = y.size + f[s \ {y}]
    BY <1>2, <2>1, <2>2
  <2>6. g[s] = y.size + g[s \ {y}]
    BY <1>3, <2>1, <2>2
  <2>7. QED BY <2>4, <2>5, <2>6
<1>7. Cardinality(U) \in Nat /\ U \in SUBSET U
  BY <1>4
<1>8. f[U] = g[U]
  <2>1. Cardinality(U) \in ok
    <3> DEFINE n == Cardinality(U)
    <3> HIDE DEF ok
    <3>1. n \in Nat /\ n \in 0..n
      BY <1>7
    <3>2. \A k \in 0..(n - 1) : k \in ok => k + 1 \in ok
      BY <1>6
    <3> HIDE DEF n
    <3>4. n \in ok
      BY <1>5, <3>1, <3>2, Upwards
    <3>5. QED BY <3>4 DEF n
  <2>2. QED BY <1>7, <2>1
<1>9. f[ps] = x.size + f[U]
  BY <1>0, <1>2
<1>10. People(ps) = x.size + People(ps \ {x})
  BY <1>2, <1>3, <1>8, <1>9
<1>11. QED BY <1>10

LEMMA PeopleNone == People({}) = 0
<1>1. Sized({})
  BY FS_EmptySet DEF Sized
<1>2. QED BY <1>1, PeopleFold

LEMMA PeopleNat == ASSUME NEW ps, Sized(ps) PROVE People(ps) \in Nat
<1>1. PICK f \in [SUBSET ps -> Nat] : People(ps) = f[ps]
  BY PeopleFold
<1>2. ps \in SUBSET ps
  OBVIOUS
<1>3. QED BY <1>1, <1>2

\* Whichever member is taken first, the sum is the same.
LEMMA PeopleTake ==
  ASSUME NEW ps, Sized(ps), NEW a \in ps
  PROVE  People(ps) = a.size + People(ps \ {a})
<1> DEFINE ok == {n \in Nat : \A s \in SUBSET ps : Cardinality(s) = n => \A b \in s : People(s) = b.size + People(s \ {b})}
<1>1. \A s \in SUBSET ps : Sized(s) /\ IsFiniteSet(s) /\ Cardinality(s) \in Nat
  BY FS_Subset, FS_CardinalityType DEF Sized
<1>2. 0 \in ok
  <2> SUFFICES ASSUME NEW s \in SUBSET ps, Cardinality(s) = 0 PROVE \A b \in s : People(s) = b.size + People(s \ {b})
    OBVIOUS
  <2>1. s = {}
    BY <1>1, FS_EmptySet
  <2>2. QED BY <2>1
<1>3. \A k \in 0..(Cardinality(ps) - 1) : k \in ok => k + 1 \in ok
  <2> SUFFICES ASSUME NEW k \in 0..(Cardinality(ps) - 1), k \in ok, NEW s \in SUBSET ps, Cardinality(s) = k + 1, NEW b \in s
               PROVE  People(s) = b.size + People(s \ {b})
    BY <1>1
  <2>2. PICK x \in s : People(s) = x.size + People(s \ {x})
    <3>1. Sized(s) /\ s # {}
      BY <1>1
    <3>2. QED BY <3>1, PeoplePart
  <2>3. CASE x = b
    BY <2>2, <2>3
  <2>4. CASE x # b
    <3>1. \A z \in s : s \ {z} \in SUBSET ps /\ Cardinality(s \ {z}) = k
      <4> SUFFICES ASSUME NEW z \in s PROVE s \ {z} \in SUBSET ps /\ Cardinality(s \ {z}) = k
        OBVIOUS
      <4>1. IsFiniteSet(s)
        BY <1>1
      <4>2. Cardinality(s \ {z}) = Cardinality(s) - 1
        BY <4>1, FS_RemoveElement
      <4>3. QED BY <4>2
    <3>2. b \in s \ {x} /\ x \in s \ {b}
      BY <2>4
    <3>3. People(s \ {x}) = b.size + People((s \ {x}) \ {b})
      BY <3>1, <3>2
    <3>4. People(s \ {b}) = x.size + People((s \ {b}) \ {x})
      BY <3>1, <3>2
    <3>5. (s \ {x}) \ {b} = (s \ {b}) \ {x} /\ Sized((s \ {b}) \ {x})
      BY <1>1
    <3>6. People((s \ {b}) \ {x}) \in Nat /\ x.size \in Nat /\ b.size \in Nat
      <4>1. x \in ps /\ b \in ps
        OBVIOUS
      <4>2. QED BY <3>5, <4>1, PeopleNat DEF Sized
    <3> DEFINE rest == People((s \ {b}) \ {x})
    <3>7. People(s) = x.size + (b.size + rest) /\ People(s \ {b}) = x.size + rest /\ rest \in Nat
      BY <2>2, <3>3, <3>4, <3>5, <3>6
    <3> HIDE DEF rest
    <3>8. QED BY <3>6, <3>7
  <2>5. QED BY <2>3, <2>4
<1>4. Cardinality(ps) \in ok
  <2>1. Cardinality(ps) \in Nat
    BY <1>1
  <2> HIDE DEF ok
  <2>2. QED BY <1>2, <1>3, <2>1, Upwards
<1>5. QED BY <1>4

LEMMA PeopleAdd ==
  ASSUME NEW ps, Sized(ps), NEW a, a \notin ps, a.size \in Nat
  PROVE  Sized(ps \cup {a}) /\ People(ps \cup {a}) = People(ps) + a.size
<1>1. Sized(ps \cup {a})
  BY FS_AddElement DEF Sized
<1>2. (ps \cup {a}) \ {a} = ps
  OBVIOUS
<1>3. People(ps \cup {a}) = a.size + People(ps)
  BY <1>1, <1>2, PeopleTake
<1>4. QED BY <1>1, <1>3, PeopleNat

LEMMA PeopleOne == ASSUME NEW a, a.size \in Nat PROVE Sized({a}) /\ People({a}) = a.size
<1>1. Sized({}) /\ {} \cup {a} = {a}
  BY FS_EmptySet DEF Sized
<1>2. Sized({} \cup {a}) /\ People({} \cup {a}) = People({}) + a.size
  BY <1>1, PeopleAdd
<1>3. QED BY <1>1, <1>2, PeopleNone

\* People of two sets with no member in common.
LEMMA PeopleUnion ==
  ASSUME NEW A, NEW B, Sized(A), Sized(B), A \cap B = {}
  PROVE  Sized(A \cup B) /\ People(A \cup B) = People(A) + People(B)
<1> DEFINE ok == {n \in Nat : \A s \in SUBSET B : Cardinality(s) = n => People(A \cup s) = People(A) + People(s)}
<1>1. \A s \in SUBSET B : Sized(s) /\ IsFiniteSet(s) /\ Cardinality(s) \in Nat
  BY FS_Subset, FS_CardinalityType DEF Sized
<1>2. \A s \in SUBSET B : Sized(A \cup s)
  BY <1>1, FS_Union DEF Sized
<1>3. People(A) \in Nat
  BY PeopleNat
<1>4. 0 \in ok
  <2> SUFFICES ASSUME NEW s \in SUBSET B, Cardinality(s) = 0 PROVE People(A \cup s) = People(A) + People(s)
    OBVIOUS
  <2>1. s = {}
    BY <1>1, FS_EmptySet
  <2>2. A \cup s = A
    BY <2>1
  <2>3. QED BY <1>3, <2>1, <2>2, PeopleNone
<1>5. \A k \in 0..(Cardinality(B) - 1) : k \in ok => k + 1 \in ok
  <2> SUFFICES ASSUME NEW k \in 0..(Cardinality(B) - 1), k \in ok, NEW s \in SUBSET B, Cardinality(s) = k + 1
               PROVE  People(A \cup s) = People(A) + People(s)
    BY <1>1
  <2>1. IsFiniteSet(s) /\ s # {}
    BY <1>1, FS_EmptySet
  <2>2. PICK b \in s : TRUE
    BY <2>1
  <2>3. s \ {b} \in SUBSET B /\ Cardinality(s \ {b}) = k
    <3>1. Cardinality(s \ {b}) = Cardinality(s) - 1
      BY <2>1, FS_RemoveElement
    <3>2. QED BY <3>1
  <2>4. People(A \cup (s \ {b})) = People(A) + People(s \ {b})
    BY <2>3
  <2>5. People(s) = b.size + People(s \ {b})
    BY <1>1, PeopleTake
  <2>6. (A \cup s) \ {b} = A \cup (s \ {b}) /\ b \in A \cup s
    OBVIOUS
  <2>7. People(A \cup s) = b.size + People(A \cup (s \ {b}))
    <3>1. Sized(A \cup s)
      BY <1>2
    <3>2. People(A \cup s) = b.size + People((A \cup s) \ {b})
      BY <2>6, <3>1, PeopleTake
    <3>3. QED BY <2>6, <3>2
  <2>8. People(s \ {b}) \in Nat /\ b.size \in Nat
    BY <1>1, <2>3, PeopleNat DEF Sized
  <2>9. QED BY <1>3, <2>4, <2>5, <2>7, <2>8
<1>6. Cardinality(B) \in ok
  <2>1. Cardinality(B) \in Nat
    BY <1>1
  <2> HIDE DEF ok
  <2>2. QED BY <1>4, <1>5, <2>1, Upwards
<1>7. QED BY <1>2, <1>6

\* People are as many when each member's size is.
LEMMA PeopleImage ==
  ASSUME NEW A, Sized(A), NEW g, \A x \in A : g[x].size = x.size, \A x, y \in A : g[x] = g[y] => x = y
  PROVE  Sized({g[x] : x \in A}) /\ People({g[x] : x \in A}) = People(A)
<1> DEFINE im(s) == {g[x] : x \in s}
           ok == {n \in Nat : \A s \in SUBSET A : Cardinality(s) = n => Sized(im(s)) /\ People(im(s)) = People(s)}
<1>1. \A s \in SUBSET A : Sized(s) /\ IsFiniteSet(s) /\ Cardinality(s) \in Nat
  BY FS_Subset, FS_CardinalityType DEF Sized
<1>2. 0 \in ok
  <2> SUFFICES ASSUME NEW s \in SUBSET A, Cardinality(s) = 0 PROVE Sized(im(s)) /\ People(im(s)) = People(s)
    OBVIOUS
  <2>1. s = {}
    BY <1>1, FS_EmptySet
  <2>2. im(s) = {}
    BY <2>1
  <2>3. QED BY <1>1, <2>1, <2>2
<1>3. \A k \in 0..(Cardinality(A) - 1) : k \in ok => k + 1 \in ok
  <2> SUFFICES ASSUME NEW k \in 0..(Cardinality(A) - 1), k \in ok, NEW s \in SUBSET A, Cardinality(s) = k + 1
               PROVE  Sized(im(s)) /\ People(im(s)) = People(s)
    BY <1>1
  <2>1. IsFiniteSet(s) /\ s # {}
    BY <1>1, FS_EmptySet
  <2>2. PICK b \in s : TRUE
    BY <2>1
  <2>3. s \ {b} \in SUBSET A /\ Cardinality(s \ {b}) = k
    <3>1. Cardinality(s \ {b}) = Cardinality(s) - 1
      BY <2>1, FS_RemoveElement
    <3>2. QED BY <3>1
  <2>4. Sized(im(s \ {b})) /\ People(im(s \ {b})) = People(s \ {b})
    BY <2>3
  <2>5. g[b] \notin im(s \ {b}) /\ im(s) = im(s \ {b}) \cup {g[b]}
    OBVIOUS
  <2>6. g[b].size = b.size /\ b.size \in Nat
    BY DEF Sized
  <2>7. People(s) = b.size + People(s \ {b}) /\ People(s \ {b}) \in Nat
    BY <1>1, <2>3, PeopleTake, PeopleNat
  <2> HIDE DEF im
  <2> DEFINE was == im(s \ {b})
             new == g[b]
  <2>80. Sized(was) /\ new \notin was /\ im(s) = was \cup {new} /\ new.size \in Nat
    BY <2>4, <2>5, <2>6
  <2> HIDE DEF was, new
  <2>81. Sized(was \cup {new}) /\ People(was \cup {new}) = People(was) + new.size
    BY <2>80, PeopleAdd
  <2>8. Sized(im(s)) /\ People(im(s)) = People(im(s \ {b})) + g[b].size
    BY <2>80, <2>81 DEF was, new
  <2>9. QED BY <2>4, <2>6, <2>7, <2>8
<1>4. Cardinality(A) \in ok
  <2>1. Cardinality(A) \in Nat /\ Cardinality(A) \in 0..Cardinality(A)
    BY <1>1
  <2> HIDE DEF ok
  <2>2. QED BY <1>2, <1>3, <2>1, Upwards
<1>5. QED BY <1>4

\* People there are, where there is a member of at least one.
LEMMA PeoplePositive ==
  ASSUME NEW ps, Sized(ps), NEW a \in ps, a.size > 0
  PROVE  People(ps) > 0
<1>1. Sized(ps \ {a})
  BY FS_Subset DEF Sized
<1>2. People(ps) = a.size + People(ps \ {a}) /\ People(ps \ {a}) \in Nat /\ a.size \in Nat
  BY <1>1, PeopleTake, PeopleNat DEF Sized
<1>3. QED BY <1>2

-----------------------------------------------------------------------------
(* What a plan is made of. *)

Win == {w \in [b : Nat, e : Nat] : w.b < w.e}
PositionRow == [kind : Kind, size : Nat \ {0}]
Home == [order : Nat \ {0}, team : Nat \ {0}]
IdsOf(B) == {s.id : s \in B}

SizeOps(B) == [kind : {"size"}, slot : IdsOf(B), size : Nat \ {0}]
TimesOps(B) == [kind : {"times"}, slot : IdsOf(B), w : Win]
CancelOps(B) == [kind : {"cancel"}, slot : IdsOf(B)]
SlotOps(B) == SizeOps(B) \cup TimesOps(B) \cup CancelOps(B)
AddOps == [kind : {"add"}, at : Home, position : PositionRow, w : Win]
ShiftOps == [kind : {"shift"}, order : Nat \ {0}, w : Win, positions : {rows \in SUBSET PositionRow : IsFiniteSet(rows)}]
Ops(B) == SlotOps(B) \cup AddOps \cup ShiftOps

Plans(B) == [refused : BOOLEAN, ops : Seq(Ops(B)), asked : SUBSET (Shift \X Action), moved : SUBSET [at : Shift, w : Win]]

LEMMA PositionType ==
  ASSUME NEW B, WellFormed(B), NEW s \in B
  PROVE  /\ s \in Position /\ s.id \in Nat \ {0} /\ s.order \in Nat \ {0} /\ s.team \in Nat \ {0} /\ s.kind \in Kind
         /\ s.size \in Nat \ {0} /\ s.b \in Nat /\ s.e \in Nat /\ s.b < s.e
BY DEF WellFormed, Position

LEMMA BookSized == ASSUME NEW B, WellFormed(B), NEW ps, ps \subseteq B PROVE Sized(ps) /\ WellFormed(ps)
<1>1. IsFiniteSet(ps)
  BY FS_Subset DEF WellFormed
<1>2. \A s \in ps : s.size \in Nat
  BY PositionType
<1>3. QED BY <1>1, <1>2 DEF Sized, WellFormed

LEMMA PlanParts ==
  ASSUME NEW B, NEW p \in Plans(B)
  PROVE  p.refused \in BOOLEAN /\ p.ops \in Seq(Ops(B)) /\ p.asked \subseteq (Shift \X Action) /\ p.moved \subseteq [at : Shift, w : Win]
BY DEF Plans

\* A plan with one of its parts set.
LEMMA PlanSet ==
  ASSUME NEW B, NEW p \in Plans(B)
  PROVE  /\ \A x : [p EXCEPT !.ops = x] = [refused |-> p.refused, ops |-> x, asked |-> p.asked, moved |-> p.moved]
         /\ \A x : [p EXCEPT !.asked = x] = [refused |-> p.refused, ops |-> p.ops, asked |-> x, moved |-> p.moved]
         /\ \A x : [p EXCEPT !.refused = x] = [refused |-> x, ops |-> p.ops, asked |-> p.asked, moved |-> p.moved]
         /\ \A x : [p EXCEPT !.moved = x] = [refused |-> p.refused, ops |-> p.ops, asked |-> p.asked, moved |-> x]
<1> DEFINE D == {"refused", "ops", "asked", "moved"}
<1>1. DOMAIN p = D /\ p = [x \in D |-> p[x]]
  BY DEF Plans
<1>2. QED BY <1>1

LEMMA RefusedOK == ASSUME NEW B PROVE Refused \in Plans(B) /\ NoPlan \in Plans(B) /\ Refused.refused /\ ~NoPlan.refused /\ NoPlan.ops = <<>> /\ NoPlan.moved = {}
<1>2. <<>> \in Seq(Ops(B)) /\ {} \in SUBSET (Shift \X Action) /\ {} \in SUBSET [at : Shift, w : Win] /\ TRUE \in BOOLEAN /\ FALSE \in BOOLEAN
  OBVIOUS
<1>3. NoPlan \in Plans(B) /\ ~NoPlan.refused /\ NoPlan.ops = <<>> /\ NoPlan.moved = {}
  BY <1>2 DEF NoPlan, Plans
<1>1. Refused = [refused |-> TRUE, ops |-> NoPlan.ops, asked |-> NoPlan.asked, moved |-> NoPlan.moved]
  BY <1>3, PlanSet DEF Refused
<1>4. Refused \in Plans(B) /\ Refused.refused
  BY <1>1, <1>3, PlanParts DEF Plans
<1>5. QED BY <1>3, <1>4

LEMMA DoOK ==
  ASSUME NEW B, NEW p \in Plans(B), NEW op \in Ops(B)
  PROVE  /\ Do(p, op) \in Plans(B) /\ Do(p, op).ops = Append(p.ops, op)
         /\ Do(p, op).refused = p.refused /\ Do(p, op).moved = p.moved /\ Do(p, op).asked = p.asked
<1>1. Append(p.ops, op) \in Seq(Ops(B))
  BY PlanParts
<1>2. Do(p, op) = [refused |-> p.refused, ops |-> Append(p.ops, op), asked |-> p.asked, moved |-> p.moved]
  BY PlanSet DEF Do
<1> HIDE DEF Do
<1>3. QED BY <1>1, <1>2, PlanParts DEF Plans

LEMMA DoAllOK ==
  ASSUME NEW B, NEW p \in Plans(B), NEW more \in Seq(Ops(B))
  PROVE  /\ DoAll(p, more) \in Plans(B) /\ DoAll(p, more).ops = p.ops \o more
         /\ DoAll(p, more).refused = p.refused /\ DoAll(p, more).moved = p.moved /\ DoAll(p, more).asked = p.asked
<1>1. p.ops \o more \in Seq(Ops(B))
  BY PlanParts
<1>2. DoAll(p, more) = [refused |-> p.refused, ops |-> p.ops \o more, asked |-> p.asked, moved |-> p.moved]
  BY PlanSet DEF DoAll
<1>3. QED BY <1>1, <1>2, PlanParts DEF Plans

LEMMA AskedOK ==
  ASSUME NEW B, NEW p \in Plans(B), NEW a \in Shift \X Action
  PROVE  /\ [p EXCEPT !.asked = @ \cup {a}] \in Plans(B)
         /\ [p EXCEPT !.asked = @ \cup {a}].ops = p.ops
         /\ [p EXCEPT !.asked = @ \cup {a}].refused = p.refused
         /\ [p EXCEPT !.asked = @ \cup {a}].moved = p.moved
<1> DEFINE x == p.asked \cup {a}
           q == [p EXCEPT !.asked = @ \cup {a}]
<1>1. q = [p EXCEPT !.asked = x] /\ x \subseteq Shift \X Action
  BY PlanParts
<1> HIDE DEF x, q
<1>2. q = [refused |-> p.refused, ops |-> p.ops, asked |-> x, moved |-> p.moved]
  BY <1>1, PlanSet
<1>3. q \in Plans(B) /\ q.ops = p.ops /\ q.refused = p.refused /\ q.moved = p.moved
  BY <1>1, <1>2, PlanParts DEF Plans
<1>4. QED BY <1>3 DEF q

LEMMA OpsOK ==
  ASSUME NEW B, WellFormed(B), NEW s \in B
  PROVE  /\ \A n \in Nat \ {0} : SetSize(s, n) \in Ops(B)
         /\ \A w \in Win : SetTimes(s, w) \in Ops(B)
         /\ CancelPosition(s) \in Ops(B)
<1>1. s.id \in IdsOf(B)
  BY DEF IdsOf
<1>2. ASSUME NEW n \in Nat \ {0} PROVE SetSize(s, n) \in Ops(B)
  BY <1>1 DEF SetSize, Ops, SlotOps, SizeOps
<1>3. ASSUME NEW w \in Win PROVE SetTimes(s, w) \in Ops(B)
  BY <1>1 DEF SetTimes, Ops, SlotOps, TimesOps
<1>4. CancelPosition(s) \in Ops(B)
  BY <1>1 DEF CancelPosition, Ops, SlotOps, CancelOps
<1>5. QED BY <1>2, <1>3, <1>4

LEMMA AddOK ==
  ASSUME NEW B, NEW t \in Home, NEW kind \in Kind, NEW n \in Nat \ {0}, NEW w \in Win
  PROVE  AddPosition(t, kind, n, w) \in Ops(B) /\ AddPosition(t, kind, n, w) \in AddOps
<1>1. [kind |-> kind, size |-> n] \in PositionRow
  BY DEF PositionRow
<1>2. QED BY <1>1 DEF AddPosition, Ops, AddOps

-----------------------------------------------------------------------------
(* First, largest, in order. *)

LEMMA FirstIs ==
  ASSUME NEW B, WellFormed(B), NEW ps, ps \subseteq B, ps # {}
  PROVE  First(ps) \in ps /\ \A q \in ps : First(ps).id <= q.id
<1> DEFINE ids == {s.id : s \in ps}
<1>1. ids \subseteq Nat /\ ids # {}
  BY PositionType
<1>2. PICK n \in ids : \A m \in ids : n <= m
  BY <1>1, LeastCount
<1>3. PICK s \in ps : s.id = n
  BY <1>2
<1>4. \A q \in ps : s.id <= q.id
  BY <1>2, <1>3
<1>5. \E s1 \in ps : \A q \in ps : s1.id <= q.id
  BY <1>4
<1>6. QED BY <1>5 DEF First

LEMMA LargestIs ==
  ASSUME NEW B, WellFormed(B), NEW ps, ps \subseteq B, ps # {}
  PROVE  Largest(ps) \in ps
<1> DEFINE sizes == {s.size : s \in ps}
<1>1. IsFiniteSet(ps)
  BY FS_Subset DEF WellFormed
<1>2. IsFiniteSet(sizes)
  <2>1. [s \in ps |-> s.size] \in Surjection(ps, sizes)
    BY DEF Surjection
  <2>2. QED BY <1>1, <2>1, FS_Surjection
<1>3. sizes \subseteq Nat /\ sizes # {}
  BY PositionType
<1> DEFINE top == {s \in ps : s.size = Max(sizes)}
<1>4. Max(sizes) \in sizes /\ \A n \in sizes : Max(sizes) >= n
  <2> HIDE DEF sizes
  <2>1. QED BY <1>2, <1>3, MaxIsGreatest
<1>5. top # {} /\ top \subseteq B
  BY <1>4
<1>6. PICK s \in top : \A q \in top : s.id <= q.id
  <2> HIDE DEF top
  <2>1. QED BY <1>5, FirstIs
<1>7. ASSUME NEW u \in ps PROVE u.size < s.size \/ (u.size = s.size /\ s.id <= u.id)
  <2>1. u.size \in sizes /\ u.size \in Nat /\ s.size = Max(sizes) /\ s.size \in Nat
    BY PositionType
  <2>2. s.size >= u.size
    BY <1>4, <2>1
  <2>3. CASE u.size = s.size
    BY <1>6, <2>1, <2>3
  <2>4. CASE u.size # s.size
    BY <2>1, <2>2, <2>4
  <2>5. QED BY <2>3, <2>4
<1>8. QED BY <1>7 DEF Largest

LEMMA ByIdIs ==
  ASSUME NEW B, WellFormed(B), NEW ps, ps \subseteq B
  PROVE  /\ ById(ps) \in [1..Cardinality(ps) -> ps] /\ Cardinality(ps) \in Nat
         /\ DOMAIN ById(ps) = 1..Cardinality(ps)
         /\ \A s \in ps : \E i \in 1..Cardinality(ps) : ById(ps)[i] = s
<1>1. IsFiniteSet(ps) /\ Cardinality(ps) \in Nat
  BY FS_Subset, FS_CardinalityType DEF WellFormed
<1> DEFINE key == [s \in ps |-> s.id]
           n == Cardinality(ps)
<1>2. \A s \in ps : key[s] = s.id /\ key[s] \in Nat
  BY PositionType
<1>3. \A s, u \in ps : key[s] = key[u] => s = u
  BY DEF WellFormed
<1> HIDE DEF key
<1>4. PICK f \in [1..n -> ps] : \A i, j \in 1..n : i < j => key[f[i]] < key[f[j]]
  BY <1>1, <1>2, <1>3, Sorts
<1>5. \A i, j \in DOMAIN f : i < j => f[i].id < f[j].id
  BY <1>2, <1>4
<1>6. \E g \in [1..n -> ps] : \A i, j \in DOMAIN g : i < j => g[i].id < g[j].id
  BY <1>5
<1>7. ById(ps) = CHOOSE g \in [1..n -> ps] : \A i, j \in DOMAIN g : i < j => g[i].id < g[j].id
  BY DEF ById, InOrderBy
<1>8. ById(ps) \in [1..n -> ps] /\ \A i, j \in DOMAIN ById(ps) : i < j => ById(ps)[i].id < ById(ps)[j].id
  BY <1>6, <1>7
<1> DEFINE s == ById(ps)
<1> HIDE DEF s
<1>9. s \in [1..n -> ps] /\ \A i, j \in 1..n : i < j => s[i].id < s[j].id
  BY <1>8 DEF s
<1>10. \A i, j \in 1..n : i # j => s[i] # s[j]
  <2> SUFFICES ASSUME NEW i \in 1..n, NEW j \in 1..n, i # j PROVE s[i] # s[j]
    OBVIOUS
  <2>1. s[i].id \in Nat /\ s[j].id \in Nat
    BY <1>9, PositionType
  <2>2. CASE i < j
    BY <1>9, <2>1, <2>2
  <2>3. CASE j < i
    BY <1>9, <2>1, <2>3
  <2>4. QED BY <1>1, <2>2, <2>3
<1>11. \A x \in ps : \E i \in 1..n : s[i] = x
  BY <1>1, <1>9, <1>10, ListsAll
<1>12. QED BY <1>1, <1>9, <1>11 DEF s

-----------------------------------------------------------------------------
(* A change keeps a plan one. *)

LEMMA WindowIs ==
  ASSUME NEW day \in Nat, NEW start \in 0..23, NEW end \in 0..23
  PROVE  /\ Window(day, start, end) \in Win /\ Window(day, start, end).b = 24 * day + start
         /\ DayOf(Window(day, start, end).b) = day /\ HourOf(Window(day, start, end).b) = start
         /\ Window(day, start, end).e - Window(day, start, end).b \in 1..24
<1> DEFINE b == 24 * day + start
           e == 24 * day + end + IF end <= start THEN 24 ELSE 0
<1>1. b \in Nat /\ e \in Nat /\ b < e /\ e - b \in 1..24
  OBVIOUS
<1>2. b \div 24 = day /\ b % 24 = start
  OBVIOUS
<1>3. Window(day, start, end) = [b |-> b, e |-> e]
  BY DEF Window
<1> HIDE DEF b, e
<1>4. QED BY <1>1, <1>2, <1>3 DEF Win, DayOf, HourOf, b

LEMMA AskParts ==
  ASSUME NEW r \in Ask
  PROVE  /\ r.action \in Action /\ r.day \in Nat /\ r.to \in Nat \cup {Absent} /\ r.at \in Time /\ r.start \in Time /\ r.end \in Time
         /\ r.length \in Nat \cup {Absent} /\ r.crew \in Nat /\ r.more \in Nat /\ r.fewer \in Nat /\ r.set \in BOOLEAN
         /\ r.chief \in BOOLEAN /\ r.trade \in BOOLEAN /\ r.shift \in Shift
BY DEF Ask

LEMMA ChangedHoursWin ==
  ASSUME NEW B, WellFormed(B), NEW first \in B, NEW day \in Nat, NEW r \in Ask
  PROVE  ChangedHours(first, day, r) \in Win
<1> DEFINE start == CASE r.start # Absent -> r.start
                      [] r.start = Absent /\ r.end # Absent /\ r.length # Absent -> (r.end - r.length) % 24
                      [] OTHER -> HourOf(first.b)
           end == CASE r.end # Absent -> r.end
                    [] r.end = Absent /\ r.length # Absent -> (start + r.length) % 24
                    [] r.end = Absent /\ r.length = Absent /\ r.start # Absent -> (start + first.e - first.b) % 24
                    [] OTHER -> HourOf(first.e)
<1>1. r.start \in 0..23 \cup {Absent} /\ r.end \in 0..23 \cup {Absent} /\ r.length \in Nat \cup {Absent} /\ first.b \in Nat /\ first.e \in Nat
  BY AskParts, PositionType DEF Time
<1>2. \A n \in Int : n % 24 \in 0..23
  OBVIOUS
<1>3. start \in 0..23
  <2>1. CASE r.start # Absent
    BY <1>1, <2>1
  <2>2. CASE r.start = Absent /\ r.end # Absent /\ r.length # Absent
    <3>1. r.end - r.length \in Int
      BY <1>1, <2>2
    <3>2. QED BY <1>2, <2>2, <3>1
  <2>3. CASE r.start = Absent /\ ~(r.end # Absent /\ r.length # Absent)
    <3>1. HourOf(first.b) \in 0..23
      BY <1>1, <1>2 DEF HourOf
    <3>2. QED BY <2>3, <3>1
  <2>4. QED BY <2>1, <2>2, <2>3
<1> HIDE DEF start
<1>4. end \in 0..23
  <2>1. CASE r.end # Absent
    BY <1>1, <2>1
  <2>2. CASE r.end = Absent /\ r.length # Absent
    <3>1. start + r.length \in Int
      BY <1>1, <1>3, <2>2
    <3>2. QED BY <1>2, <2>2, <3>1
  <2>3. CASE r.end = Absent /\ r.length = Absent /\ r.start # Absent
    <3>1. start + first.e - first.b \in Int
      BY <1>1, <1>3, <2>3
    <3>2. QED BY <1>2, <2>3, <3>1
  <2>4. CASE r.end = Absent /\ r.length = Absent /\ r.start = Absent
    <3>1. HourOf(first.e) \in 0..23
      BY <1>1, <1>2 DEF HourOf
    <3>2. QED BY <2>4, <3>1
  <2>5. QED BY <2>1, <2>2, <2>3, <2>4
<1> HIDE DEF end
<1>5. ChangedHours(first, day, r) = Window(day, start, end)
  BY DEF ChangedHours, start, end
<1>6. day \in Nat
  OBVIOUS
<1>7. Window(day, start, end) \in Win
  BY ONLY <1>3, <1>4, <1>6, WindowIs
<1>8. QED BY <1>5, <1>7

\* A plan with the times of some positions set.
LEMMA MoveOK ==
  ASSUME NEW B, WellFormed(B), NEW p \in Plans(B), NEW slots, slots \subseteq B, NEW t \in Shift, NEW w \in Win
  PROVE  MoveLate(p, t, slots, w) \in Plans(B)
<1> DEFINE late == {s \in slots : s.b # w.b \/ s.e # w.e}
           row == ById(late)
           more == [i \in DOMAIN row |-> SetTimes(row[i], w)]
           q == DoAll(p, more)
<1>1. row \in [1..Cardinality(late) -> late] /\ Cardinality(late) \in Nat
  BY ByIdIs
<1>2. more \in Seq(Ops(B))
  <2>1. DOMAIN row = 1..Cardinality(late)
    BY <1>1
  <2>2. \A i \in DOMAIN row : SetTimes(row[i], w) \in Ops(B)
    BY <1>1, OpsOK
  <2> HIDE DEF row, late
  <2>3. more \in [1..Cardinality(late) -> Ops(B)]
    BY <2>1, <2>2
  <2>4. QED BY <1>1, <2>3
<1> HIDE DEF more
<1>3. q \in Plans(B)
  BY <1>2, DoAllOK
<1> HIDE DEF q
<1>4. [at |-> t, w |-> w] \in [at : Shift, w : Win]
  OBVIOUS
<1>5. [q EXCEPT !.moved = @ \cup {[at |-> t, w |-> w]}] \in Plans(B)
  <2>1. q.moved \cup {[at |-> t, w |-> w]} \in SUBSET [at : Shift, w : Win]
    BY <1>3, <1>4, PlanParts
  <2>2. [q EXCEPT !.moved = @ \cup {[at |-> t, w |-> w]}] = [q EXCEPT !.moved = q.moved \cup {[at |-> t, w |-> w]}]
    OBVIOUS
  <2>3. QED BY <1>3, <2>1, <2>2, PlanSet, PlanParts DEF Plans
<1>6. MoveLate(p, t, slots, w) = IF w.e - w.b = 24 THEN Refused ELSE [q EXCEPT !.moved = @ \cup {[at |-> t, w |-> w]}]
  BY DEF MoveLate, Move, q, more
<1>7. QED BY <1>5, <1>6, RefusedOK

LEMMA TimesOK ==
  ASSUME NEW B, WellFormed(B), NEW p \in Plans(B), NEW ps, ps \subseteq B, ps # {}, NEW t \in Shift, NEW r \in Ask
  PROVE  ChangeTimes(p, ps, t, r) \in Plans(B)
<1> DEFINE slots == IF r.chief \/ r.trade THEN {s \in ps : (r.chief /\ s.kind = "chief") \/ (r.trade /\ s.kind = "trade")} ELSE ps
           day == IF r.to # Absent /\ r.to # r.day THEN r.to ELSE DayOf(First(ps).b)
<1>1. slots \subseteq B
  OBVIOUS
<1>2. day \in Nat
  <2>1. First(ps).b \in Nat
    BY FirstIs, PositionType
  <2>2. DayOf(First(ps).b) \in Nat
    BY <2>1 DEF DayOf
  <2>3. QED BY <2>2, AskParts
<1>3. ChangeTimes(p, ps, t, r) = ChangeTimesOf(p, slots, t, day, r)
  BY DEF ChangeTimes
<1> HIDE DEF slots, day
<1>4. CASE slots = {} \/ (r.crew # 0 /\ r.crew # People(slots))
  BY <1>3, <1>4, RefusedOK DEF ChangeTimesOf
<1>5. CASE ~(slots = {} \/ (r.crew # 0 /\ r.crew # People(slots)))
  <2>1. First(slots) \in B
    BY <1>1, <1>5, FirstIs
  <2>2. ChangedHours(First(slots), day, r) \in Win
    BY <1>2, <2>1, ChangedHoursWin
  <2>3. ChangeTimes(p, ps, t, r) = MoveLate(p, t, slots, ChangedHours(First(slots), day, r))
    BY <1>3, <1>5 DEF ChangeTimesOf
  <2>4. QED BY <1>1, <2>2, <2>3, MoveOK
<1>6. QED BY <1>4, <1>5

LEMMA HoursForWin ==
  ASSUME NEW B, WellFormed(B), NEW p \in Plans(B), NEW ps, ps \subseteq B, ps # {}, NEW t
  PROVE  HoursFor(p, ps, t) \in Win
<1>1. CASE \E m \in p.moved : m.at = t
  <2>1. (CHOOSE m \in p.moved : m.at = t) \in p.moved
    BY <1>1
  <2>2. (CHOOSE m \in p.moved : m.at = t) \in [at : Shift, w : Win]
    BY <2>1, PlanParts
  <2>3. (CHOOSE m \in p.moved : m.at = t).w \in Win
    BY <2>2
  <2>4. QED BY <1>1, <2>3 DEF HoursFor
<1>2. CASE ~(\E m \in p.moved : m.at = t)
  <2>1. First(ps).b \in Nat /\ First(ps).e \in Nat /\ First(ps).b < First(ps).e
    BY FirstIs, PositionType
  <2>2. [b |-> First(ps).b, e |-> First(ps).e] \in Win
    BY <2>1 DEF Win
  <2>3. QED BY <1>2, <2>2 DEF HoursFor
<1>3. QED BY <1>1, <1>2

LEMMA TradeOK ==
  ASSUME NEW B, WellFormed(B), NEW p \in Plans(B), NEW ps, ps \subseteq B, ps # {}, NEW t \in Home, NEW r \in Ask
  PROVE  ChangeTrade(p, ps, t, r) \in Plans(B)
<1> DEFINE held == OfKind(ps, "trade")
           now == People(held)
           total == Total(r, now)
           w == HoursFor(p, ps, t)
<1>1. held \subseteq B /\ Sized(held)
  BY BookSized DEF OfKind
<1>2. now \in Nat
  BY <1>1, PeopleNat
<1>3. total \in Int
  <2> HIDE DEF now
  <2>1. QED BY <1>2, AskParts DEF Total
<1>4. w \in Win /\ "trade" \in Kind
  BY HoursForWin DEF Kind
<1>5. ChangeTrade(p, ps, t, r) = ChangeTradeOf(p, ps, t, r, held, now, total)
  BY DEF ChangeTrade
<1>6. \A n \in Nat \ {0} : Do(p, AddPosition(t, "trade", n, w)) \in Plans(B)
  BY <1>4, AddOK, DoOK
<1>7. held # {} => First(held) \in B
  BY <1>1, FirstIs
<1>8. held # {} => /\ Do(p, CancelPosition(First(held))) \in Plans(B)
                   /\ \A n \in Nat \ {0} : Do(p, SetSize(First(held), n)) \in Plans(B)
  BY <1>7, OpsOK, DoOK
<1>9. r.more \in Nat
  BY AskParts
<1> HIDE DEF held, now, total
<1>10. CASE r.more # 0 /\ r.crew = 0 /\ r.fewer = 0
  BY <1>5, <1>6, <1>9, <1>10 DEF ChangeTradeOf
<1> DEFINE no == Cardinality(held) > 1 \/ Disagrees(r, now) \/ total < 0 \/ (held = {} /\ total = 0)
<1>11. CASE ~(r.more # 0 /\ r.crew = 0 /\ r.fewer = 0) /\ no
  BY <1>5, <1>11, RefusedOK DEF ChangeTradeOf
<1>12. CASE ~(r.more # 0 /\ r.crew = 0 /\ r.fewer = 0) /\ ~no
  <2>1. total \in Nat /\ (held = {} => total \in Nat \ {0})
    BY <1>3, <1>12
  <2>2. ChangeTrade(p, ps, t, r) =
          IF held = {} THEN Do(p, AddPosition(t, "trade", total, w))
          ELSE IF total = 0 THEN Do(p, CancelPosition(First(held)))
          ELSE IF total # now THEN Do(p, SetSize(First(held), total)) ELSE p
    BY <1>5, <1>12 DEF ChangeTradeOf
  <2>3. CASE held = {}
    BY <1>6, <2>1, <2>2, <2>3
  <2>4. CASE held # {} /\ total = 0
    BY <1>8, <2>2, <2>4
  <2>5. CASE held # {} /\ total # 0
    BY <1>8, <2>1, <2>2, <2>5
  <2>6. QED BY <2>3, <2>4, <2>5
<1>13. QED BY <1>10, <1>11, <1>12

LEMMA ResizeOK ==
  ASSUME NEW B, WellFormed(B), NEW p \in Plans(B), NEW s \in B, NEW n \in Int
  PROVE  Resize(p, s, n) \in Plans(B)
<1>1. CASE n < 1
  BY <1>1, RefusedOK DEF Resize
<1>2. CASE ~(n < 1)
  <2>1. n \in Nat \ {0}
    BY <1>2
  <2>2. Do(p, SetSize(s, n)) \in Plans(B)
    BY <2>1, OpsOK, DoOK
  <2>3. QED BY <1>2, <2>2 DEF Resize
<1>3. QED BY <1>1, <1>2

LEMMA ChiefsForNat == \A total \in Int, asked \in BOOLEAN : ChiefsFor(total, asked) \in Nat
BY DEF ChiefsFor

LEMMA WithChiefsOK ==
  ASSUME NEW B, WellFormed(B), NEW p \in Plans(B), NEW ps, ps \subseteq B, ps # {}, NEW t \in Home,
         NEW chiefs, chiefs \subseteq B, NEW want \in Nat
  PROVE  WithChiefs(p, ps, t, chiefs, want) \in Plans(B)
<1> DEFINE w == HoursFor(p, ps, t)
<1>1. w \in Win /\ "chief" \in Kind
  BY HoursForWin DEF Kind
<1>2. want # 0 => Do(p, AddPosition(t, "chief", want, w)) \in Plans(B)
  <2>1. want # 0 => want \in Nat \ {0}
    OBVIOUS
  <2> HIDE DEF w
  <2>2. QED BY <1>1, <2>1, AddOK, DoOK
<1>3. chiefs # {} => First(chiefs) \in B
  BY FirstIs
<1>4. chiefs # {} => Do(p, CancelPosition(First(chiefs))) \in Plans(B) /\ (want # 0 => Do(p, SetSize(First(chiefs), want)) \in Plans(B))
  BY <1>3, OpsOK, DoOK
<1>5. WithChiefs(p, ps, t, chiefs, want) =
        IF want = People(chiefs) THEN p
        ELSE IF chiefs = {} THEN Do(p, AddPosition(t, "chief", want, w))
        ELSE IF want = 0 THEN Do(p, CancelPosition(First(chiefs)))
        ELSE Do(p, SetSize(First(chiefs), want))
  BY DEF WithChiefs
<1>6. chiefs = {} => People(chiefs) = 0
  BY PeopleNone
<1> HIDE DEF w
<1>7. QED BY <1>2, <1>4, <1>5, <1>6

LEMMA CrewOK ==
  ASSUME NEW B, WellFormed(B), NEW p \in Plans(B), NEW ps, ps \subseteq B, ps # {}, NEW t \in Home, NEW r \in Ask
  PROVE  ChangeCrew(p, ps, t, r) \in Plans(B)
<1> DEFINE chiefs == OfKind(ps, "chief")
           crew == Largest(OfKind(ps, "crew"))
           taken == chiefs \cup {crew}
           current == People(taken)
           total == Total(r, current)
           others == People(ps \ taken)
           asked == r.chief \/ (chiefs # {} /\ current + others < 4)
           want == ChiefsFor(total + others, asked)
<1>1. CASE OfKind(ps, "crew") = {}
  BY <1>1, RefusedOK DEF ChangeCrew
<1>2. CASE OfKind(ps, "crew") # {}
  <2>1. crew \in B /\ chiefs \subseteq B
    <3>1. OfKind(ps, "crew") \subseteq B
      BY DEF OfKind
    <3>2. crew \in OfKind(ps, "crew")
      BY <1>2, <3>1, LargestIs
    <3>3. QED BY <3>1, <3>2 DEF OfKind
  <2>2. taken \subseteq B /\ Sized(taken) /\ Sized(ps \ taken)
    <3>1. taken \subseteq B /\ (ps \ taken) \subseteq B
      BY <2>1
    <3> HIDE DEF taken
    <3>2. QED BY <3>1, BookSized
  <2>3. current \in Nat /\ others \in Nat
    BY <2>2, PeopleNat
  <2>4. ChangeCrew(p, ps, t, r) = ChangeCrewOf(p, ps, t, r, chiefs, crew, current, total, others)
    BY <1>2 DEF ChangeCrew
  <2> HIDE DEF chiefs, crew, current, others
  <2>5. total \in Int
    BY <2>3, AskParts DEF Total
  <2> HIDE DEF total
  <2>6. asked \in BOOLEAN
    BY AskParts
  <2> HIDE DEF asked
  <2>7. want \in Nat
    BY <2>3, <2>5, <2>6, ChiefsForNat
  <2>8. crew.size \in Nat
    BY <2>1, PositionType
  <2>9. Resize(p, crew, crew.size + total - current) \in Plans(B)
    <3>1. crew.size + total - current \in Int
      BY <2>3, <2>5, <2>8
    <3>2. QED BY <2>1, <3>1, ResizeOK
  <2> HIDE DEF want
  <2>10. Resize(WithChiefs(p, ps, t, chiefs, want), crew, total - want) \in Plans(B)
    <3>1. total - want \in Int
      BY <2>5, <2>7
    <3>2. WithChiefs(p, ps, t, chiefs, want) \in Plans(B)
      BY <2>1, <2>7, WithChiefsOK
    <3>3. QED BY <2>1, <3>1, <3>2, ResizeOK
  <2>11. ChangeCrew(p, ps, t, r) = IF Disagrees(r, current) THEN Refused
             ELSE IF Cardinality(chiefs) > 1 THEN Resize(p, crew, crew.size + total - current)
             ELSE Resize(WithChiefs(p, ps, t, chiefs, want), crew, total - want)
    BY <2>4 DEF ChangeCrewOf, want, asked
  <2>12. QED BY <2>9, <2>10, <2>11, RefusedOK
<1>3. QED BY <1>1, <1>2

LEMMA CancelOK ==
  ASSUME NEW B, WellFormed(B), NEW p \in Plans(B), NEW ps, ps \subseteq B
  PROVE  LET slots == ById(ps) IN DoAll(p, [i \in DOMAIN slots |-> CancelPosition(slots[i])]) \in Plans(B)
<1> DEFINE slots == ById(ps)
           more == [i \in DOMAIN slots |-> CancelPosition(slots[i])]
<1>1. slots \in [1..Cardinality(ps) -> ps] /\ Cardinality(ps) \in Nat
  BY ByIdIs
<1>2. more \in Seq(Ops(B))
  <2>1. DOMAIN slots = 1..Cardinality(ps)
    BY <1>1
  <2>2. \A i \in DOMAIN slots : CancelPosition(slots[i]) \in Ops(B)
    BY <1>1, OpsOK
  <2> HIDE DEF slots
  <2>3. more \in [1..Cardinality(ps) -> Ops(B)]
    BY <2>1, <2>2
  <2>4. QED BY <1>1, <2>3
<1> HIDE DEF more
<1>3. DoAll(p, more) \in Plans(B)
  BY <1>2, DoAllOK
<1>4. QED BY <1>3 DEF more

\* What a change asks of a shift with something on it.
LEMMA ShiftChangeOK ==
  ASSUME NEW B, WellFormed(B), NEW p \in Plans(B), NEW ps, ps \subseteq B, ps # {}, NEW t \in Home, NEW r \in Ask,
         r.action # "new_shift"
  PROVE  ChangeShift(p, ps, t, r) \in Plans(B)
<1>1. t \in Shift
  BY DEF Home, Shift
<1>2. CASE r.action = "change_times"
  BY <1>1, <1>2, TimesOK DEF ChangeShift
<1>3. CASE r.action = "cancel_shift"
  BY <1>3, CancelOK DEF ChangeShift
<1>4. CASE r.action = "change_crew" /\ OtherHours(ps, r)
  BY <1>4, RefusedOK DEF ChangeShift
<1>5. CASE r.action = "change_crew" /\ ~OtherHours(ps, r)
  BY <1>5, TradeOK, CrewOK DEF ChangeShift
<1>6. QED BY <1>2, <1>3, <1>4, <1>5, AskParts DEF Action

LEMMA TeamsAre ==
  ASSUME NEW B, WellFormed(B), NEW ps, ps \subseteq B
  PROVE  /\ \A t \in Teams(ps) : t \in Home /\ t \in Shift /\ t # NoShift /\ Of(ps, t) # {} /\ Of(ps, t) \subseteq ps
         /\ \A s \in ps : [order |-> s.order, team |-> s.team] \in Teams(ps) /\ s \in Of(ps, [order |-> s.order, team |-> s.team])
         /\ IsFiniteSet(Teams(ps))
<1>1. ASSUME NEW t \in Teams(ps)
      PROVE  t \in Home /\ t \in Shift /\ t # NoShift /\ Of(ps, t) # {} /\ Of(ps, t) \subseteq ps
  <2>1. PICK s \in ps : t = [order |-> s.order, team |-> s.team]
    BY DEF Teams
  <2>2. t.order = s.order /\ t.team = s.team /\ s.order \in Nat \ {0} /\ s.team \in Nat \ {0}
    BY <2>1, PositionType
  <2>3. s \in Of(ps, t) /\ Of(ps, t) \subseteq ps
    BY <2>2 DEF Of
  <2>4. t \in Home /\ t \in Shift
    BY <2>1, <2>2 DEF Home, Shift
  <2>5. t # NoShift
    BY <2>2 DEF NoShift
  <2>6. QED BY <2>3, <2>4, <2>5
<1>2. \A s \in ps : [order |-> s.order, team |-> s.team] \in Teams(ps) /\ s \in Of(ps, [order |-> s.order, team |-> s.team])
  BY DEF Teams, Of
<1>3. IsFiniteSet(Teams(ps))
  <2>1. [s \in ps |-> [order |-> s.order, team |-> s.team]] \in Surjection(ps, Teams(ps))
    BY DEF Surjection, Teams
  <2>2. IsFiniteSet(ps)
    BY FS_Subset DEF WellFormed
  <2>3. QED BY <2>1, <2>2, FS_Surjection
<1>4. QED BY <1>1, <1>2, <1>3

\* An ask that can be planned against the positions ps.
Asks(ps) == {r \in Ask : r.action # "new_shift" /\ (r.shift # NoShift => r.shift \in Teams(ps))}

LEMMA CandidatesAre == ASSUME NEW ps, NEW r PROVE Candidates(ps, r) \subseteq Teams(ps)
BY DEF Candidates

LEMMA ChangeOK ==
  ASSUME NEW B, WellFormed(B), NEW p \in Plans(B), NEW ps, ps \subseteq B, NEW r \in Asks(ps)
  PROVE  Change(ps, p, r) \in Plans(B) /\ (p.refused => Change(ps, p, r).refused)
<1> DEFINE about == IF r.shift # NoShift THEN {r.shift} ELSE Candidates(ps, r)
           no == p.refused \/ Cardinality(about) # 1 \/ \E t \in about : <<t, r.action>> \in p.asked
           t == CHOOSE x \in about : TRUE
           q == [p EXCEPT !.asked = @ \cup {<<t, r.action>>}]
<1>1. about \subseteq Teams(ps)
  BY CandidatesAre DEF Asks
<1>2. Change(ps, p, r) = IF no THEN Refused ELSE ChangeShift(q, Of(ps, t), t, r)
  BY DEF Change, ChangeAbout
<1>3. CASE no
  BY <1>2, <1>3, RefusedOK
<1>4. CASE ~no
  <2>1. about # {}
    BY <1>4, FS_EmptySet
  <2>2. t \in Teams(ps)
    BY <1>1, <2>1
  <2> HIDE DEF about, t
  <2>3. t \in Home /\ t \in Shift /\ Of(ps, t) # {} /\ Of(ps, t) \subseteq B /\ r.action \in Action /\ r \in Ask /\ r.action # "new_shift"
    BY <2>2, TeamsAre, AskParts DEF Asks
  <2>4. <<t, r.action>> \in Shift \X Action
    BY <2>3
  <2>5. q \in Plans(B)
    BY <2>4, AskedOK
  <2> HIDE DEF q
  <2>6. ChangeShift(q, Of(ps, t), t, r) \in Plans(B)
    BY <2>3, <2>5, ShiftChangeOK
  <2>7. QED BY <1>2, <1>4, <2>6
<1>5. QED BY <1>3, <1>4

\* Changes one after the other.
LEMMA ChangesSteps ==
  ASSUME NEW B, WellFormed(B), NEW p \in Plans(B), NEW ps, ps \subseteq B, NEW rs \in Seq(Asks(ps))
  PROVE  \E g \in [0..Len(rs) -> Plans(B)] :
           /\ g[0] = p /\ Changes(ps, p, rs) = g[Len(rs)]
           /\ \A k \in 1..Len(rs) : g[k] = Change(ps, g[k - 1], rs[k])
<1> DEFINE D == DOMAIN rs
           n == Len(rs)
           ch == [s \in SUBSET D |-> Max(s)]
           H == [i \in D |-> [v \in Plans(B) |-> Change(ps, v, rs[i])]]
           Eq(f) == f = [s \in SUBSET D |-> IF s = {} THEN p ELSE LET x == Max(s) IN Change(ps, f[s \ {x}], rs[x])]
<1>1. n \in Nat /\ D = 1..n /\ \A i \in D : rs[i] \in Asks(ps)
  OBVIOUS
<1>2. IsFiniteSet(D) /\ \A s \in SUBSET D : s # {} => Max(s) \in s /\ \A y \in s : Max(s) >= y
  <2>1. IsFiniteSet(D) /\ D \subseteq Nat
    BY <1>1, FS_Interval
  <2> HIDE DEF D
  <2>2. ASSUME NEW s \in SUBSET D, s # {} PROVE Max(s) \in s /\ \A y \in s : Max(s) >= y
    <3>1. IsFiniteSet(s) /\ s \subseteq Nat
      BY <2>1, FS_Subset
    <3>2. QED BY <2>2, <3>1, MaxIsGreatest
  <2>3. QED BY <2>1, <2>2
<1>3. \A i \in D : \A v \in Plans(B) : H[i][v] = Change(ps, v, rs[i]) /\ H[i][v] \in Plans(B)
  <2>1. \A i \in D : \A v \in Plans(B) : Change(ps, v, rs[i]) \in Plans(B)
    BY <1>1, ChangeOK
  <2>2. QED BY <2>1
<1>4. \A s \in SUBSET D : ch[s] = Max(s)
  OBVIOUS
<1> HIDE DEF ch, H, D, n
<1>5. Folds(D, Plans(B), p, ch, H)
  BY <1>2, <1>3, <1>4 DEF Folds
<1>6. PICK f \in [SUBSET D -> Plans(B)] : FoldOf(f, D, p, ch, H)
  BY <1>5, FoldExists
<1>7. \A s \in SUBSET D : f[s] = IF s = {} THEN p ELSE LET x == Max(s) IN Change(ps, f[s \ {x}], rs[x])
  <2> SUFFICES ASSUME NEW s \in SUBSET D, s # {} PROVE f[s] = Change(ps, f[s \ {Max(s)}], rs[Max(s)])
    BY <1>6 DEF FoldOf
  <2>1. f[s] = H[ch[s]][f[s \ {ch[s]}]] /\ ch[s] = Max(s)
    BY <1>4, <1>6 DEF FoldOf
  <2>2. Max(s) \in D /\ f[s \ {Max(s)}] \in Plans(B)
    BY <1>2
  <2>3. QED BY <1>3, <2>1, <2>2
<1>8. Eq(f)
  BY <1>7, <1>6
<1> DEFINE iter == CHOOSE g : Eq(g)
<1>9. Changes(ps, p, rs) = iter[D]
  BY DEF Changes, FoldLeft, MapThenFoldSet, D
<1>10. Eq(iter)
  BY <1>8
<1> HIDE DEF iter
<1>11. \A s \in SUBSET D : iter[s] = IF s = {} THEN p ELSE LET x == Max(s) IN Change(ps, iter[s \ {x}], rs[x])
  BY <1>10
<1> DEFINE g == [k \in 0..n |-> iter[1..k]]
<1>12. g[0] = p
  <2>1. g[0] = iter[{}] /\ {} \in SUBSET D
    <3>1. 1..0 = {} /\ 0 \in 0..n
      BY <1>1
    <3>2. QED BY <3>1
  <2>2. QED BY <1>11, <2>1
<1>13. \A k \in 1..n : g[k] = Change(ps, g[k - 1], rs[k])
  <2> SUFFICES ASSUME NEW k \in 1..n PROVE g[k] = Change(ps, g[k - 1], rs[k])
    OBVIOUS
  <2>1. 1..k \in SUBSET D /\ 1..k # {} /\ k \in 1..k
    BY <1>1
  <2>2. Max(1..k) = k
    <3>1. Max(1..k) \in 1..k /\ Max(1..k) >= k
      BY <1>2, <2>1
    <3>2. QED BY <1>1, <3>1
  <2>3. (1..k) \ {k} = 1..(k - 1)
    BY <1>1
  <2>4. iter[1..k] = Change(ps, iter[1..(k - 1)], rs[k])
    BY <1>11, <2>1, <2>2, <2>3
  <2>5. g[k] = iter[1..k] /\ g[k - 1] = iter[1..(k - 1)]
    BY <1>1
  <2>6. QED BY <2>4, <2>5
<1>14. g[n] = iter[D]
  BY <1>1
<1>15. g = [k \in 0..n |-> g[k]]
  OBVIOUS
<1> HIDE DEF g
<1> DEFINE ok == {k \in 0..n : g[k] \in Plans(B)}
<1>16. \A k \in 0..n : k \in ok
  <2>1. 0 \in ok
    BY <1>1, <1>12
  <2>2. \A k \in 0..(n - 1) : k \in ok => k + 1 \in ok
    <3> SUFFICES ASSUME NEW k \in 0..(n - 1), k \in ok PROVE g[k + 1] \in Plans(B)
      BY <1>1
    <3>1. k + 1 \in 1..n /\ (k + 1) - 1 = k
      BY <1>1
    <3>2. g[k + 1] = Change(ps, g[k], rs[k + 1]) /\ rs[k + 1] \in Asks(ps) /\ g[k] \in Plans(B)
      BY <1>1, <1>13, <3>1
    <3>3. QED BY <3>2, ChangeOK
  <2> HIDE DEF ok
  <2>3. QED BY <1>1, <2>1, <2>2, Upwards
<1>17. g \in [0..n -> Plans(B)]
  BY <1>15, <1>16
<1>18. QED BY <1>9, <1>12, <1>13, <1>14, <1>17 DEF n

LEMMA ChangesOK ==
  ASSUME NEW B, WellFormed(B), NEW p \in Plans(B), NEW ps, ps \subseteq B, NEW rs \in Seq(Asks(ps))
  PROVE  /\ Changes(ps, p, rs) \in Plans(B)
         /\ p.refused => Changes(ps, p, rs).refused
         /\ Len(rs) = 0 => Changes(ps, p, rs) = p
         /\ Len(rs) = 1 => Changes(ps, p, rs) = Change(ps, p, rs[1])
         /\ Len(rs) = 2 => Changes(ps, p, rs) = Change(ps, Change(ps, p, rs[1]), rs[2])
<1>1. PICK g \in [0..Len(rs) -> Plans(B)] :
           /\ g[0] = p /\ Changes(ps, p, rs) = g[Len(rs)]
           /\ \A k \in 1..Len(rs) : g[k] = Change(ps, g[k - 1], rs[k])
  BY ChangesSteps
<1>2. Len(rs) \in Nat
  OBVIOUS
<1>3. Changes(ps, p, rs) \in Plans(B)
  BY <1>1, <1>2
<1>4. Len(rs) = 1 => Changes(ps, p, rs) = Change(ps, p, rs[1])
  BY <1>1
<1>5. Len(rs) = 2 => Changes(ps, p, rs) = Change(ps, Change(ps, p, rs[1]), rs[2])
  <2> SUFFICES ASSUME Len(rs) = 2 PROVE g[2] = Change(ps, Change(ps, p, rs[1]), rs[2])
    BY <1>1
  <2>1. g[1] = Change(ps, g[0], rs[1])
    BY <1>1
  <2>2. g[2] = Change(ps, g[1], rs[2])
    BY <1>1
  <2>3. QED BY <1>1, <2>1, <2>2
<1>6. p.refused => Changes(ps, p, rs).refused
  <2> SUFFICES ASSUME p.refused PROVE g[Len(rs)].refused
    BY <1>1
  <2> DEFINE ok == {k \in 0..Len(rs) : g[k].refused}
  <2>1. 0 \in ok
    BY <1>1, <1>2
  <2>2. \A k \in 0..(Len(rs) - 1) : k \in ok => k + 1 \in ok
    <3> SUFFICES ASSUME NEW k \in 0..(Len(rs) - 1), k \in ok PROVE g[k + 1].refused
      BY <1>2
    <3>1. k + 1 \in 1..Len(rs) /\ (k + 1) - 1 = k
      BY <1>2
    <3>2. g[k + 1] = Change(ps, g[k], rs[k + 1]) /\ rs[k + 1] \in Asks(ps) /\ g[k] \in Plans(B)
      BY <1>1, <1>2, <3>1
    <3>3. QED BY <3>2, ChangeOK
  <2> DEFINE n == Len(rs)
  <2>20. \A k \in 0..(n - 1) : k \in ok => k + 1 \in ok
    BY <2>2
  <2>21. n \in Nat /\ n \in 0..n
    BY <1>2
  <2> HIDE DEF ok, n
  <2>22. n \in ok
    BY <2>1, <2>20, <2>21, Upwards
  <2>3. Len(rs) \in ok
    BY <2>22 DEF n
  <2>4. QED BY <2>3 DEF ok
<1>7. QED BY <1>1, <1>3, <1>4, <1>5, <1>6

LEMMA SplitIs ==
  ASSUME NEW ps, NEW r \in Asks(ps), r.shift = NoShift
  PROVE  /\ Split(r) \in Seq(Asks(ps)) /\ Len(Split(r)) \in 1..2
         /\ Len(Split(r)) = 1 => Split(r) = <<r>>
<1> DEFINE two == r.action = "change_times" /\ (r.more # 0 \/ r.fewer # 0 \/ r.set)
           one == [r EXCEPT !.crew = IF r.set THEN 0 ELSE @, !.more = 0, !.fewer = 0]
           other == [r EXCEPT !.action = "change_crew", !.start = Absent, !.end = Absent, !.length = Absent, !.crew = IF r.set THEN @ ELSE 0]
<1>1. Split(r) = IF two THEN <<one, other>> ELSE <<r>>
  BY DEF Split
<1>2. CASE ~two
  BY <1>1, <1>2
<1>3. CASE two
  <2>1. r \in Ask
    BY DEF Asks
  <2>2. one \in Ask
    <3>1. (IF r.set THEN 0 ELSE r.crew) \in Nat /\ 0 \in Nat
      BY <2>1, AskParts
    <3>2. QED BY <2>1, <3>1 DEF Ask
  <2>3. other \in Ask
    <3>1. (IF r.set THEN r.crew ELSE 0) \in Nat /\ Absent \in Time /\ "change_crew" \in Action
      BY <2>1, AskParts DEF Time, Action
    <3>2. QED BY <2>1, <3>1 DEF Ask
  <2>4. one.action = "change_times" /\ one.shift = NoShift /\ other.action = "change_crew" /\ other.shift = NoShift
    BY <1>3, <2>1 DEF Ask
  <2> HIDE DEF one, other
  <2>5. one \in Asks(ps) /\ other \in Asks(ps)
    BY <2>2, <2>3, <2>4 DEF Asks
  <2>6. QED BY <1>1, <1>3, <2>5
<1>4. QED BY <1>2, <1>3

\* What an email may ask of an order: the asks of the assumption.
AskOf(r) == r \in Ask /\ r.shift = NoShift /\ (r.action = "new_shift" => Absent \notin {r.start, r.end} /\ r.crew > 0)
MailOf(rs) == rs \in Seq(Ask) /\ \A i \in 1..Len(rs) : AskOf(rs[i])

AskedStep(ps, q, r) == IF r.action = "new_shift" THEN q ELSE Changes(ps, q, Split(r))

AskedBy(g, ps, p, rs) ==
  /\ g[0] = p /\ ChangesAsked(ps, p, rs) = g[Len(rs)]
  /\ \A k \in 1..Len(rs) : g[k] = AskedStep(ps, g[k - 1], rs[k])

LEMMA AskedStepOK ==
  ASSUME NEW B, WellFormed(B), NEW p \in Plans(B), NEW ps, ps \subseteq B, NEW r, AskOf(r)
  PROVE  AskedStep(ps, p, r) \in Plans(B)
<1>1. CASE r.action = "new_shift"
  BY <1>1 DEF AskedStep
<1>2. CASE r.action # "new_shift"
  <2>1. r \in Asks(ps) /\ r.shift = NoShift
    BY <1>2 DEF AskOf, Asks
  <2>2. Changes(ps, p, Split(r)) \in Plans(B)
    BY <2>1, SplitIs, ChangesOK
  <2>3. QED BY <1>2, <2>2 DEF AskedStep
<1>3. QED BY <1>1, <1>2

LEMMA AskedSteps ==
  ASSUME NEW B, WellFormed(B), NEW p \in Plans(B), NEW ps, ps \subseteq B, NEW rs, MailOf(rs)
  PROVE  \E g \in [0..Len(rs) -> Plans(B)] : AskedBy(g, ps, p, rs)
<1> DEFINE D == DOMAIN rs
           n == Len(rs)
           ch == [s \in SUBSET D |-> Max(s)]
           H == [i \in D |-> [v \in Plans(B) |-> AskedStep(ps, v, rs[i])]]
           Eq(f) == f = [s \in SUBSET D |-> IF s = {} THEN p
                                            ELSE LET x == Max(s)
                                                 IN IF rs[x].action = "new_shift" THEN f[s \ {x}] ELSE Changes(ps, f[s \ {x}], Split(rs[x]))]
<1>1. n \in Nat /\ D = 1..n /\ \A i \in D : AskOf(rs[i])
  BY DEF MailOf
<1>2. IsFiniteSet(D) /\ \A s \in SUBSET D : s # {} => Max(s) \in s /\ \A y \in s : Max(s) >= y
  <2>1. IsFiniteSet(D) /\ D \subseteq Nat
    BY <1>1, FS_Interval
  <2> HIDE DEF D
  <2>2. ASSUME NEW s \in SUBSET D, s # {} PROVE Max(s) \in s /\ \A y \in s : Max(s) >= y
    <3>1. IsFiniteSet(s) /\ s \subseteq Nat
      BY <2>1, FS_Subset
    <3>2. QED BY <2>2, <3>1, MaxIsGreatest
  <2>3. QED BY <2>1, <2>2
<1>3. \A i \in D : \A v \in Plans(B) : H[i][v] = AskedStep(ps, v, rs[i]) /\ H[i][v] \in Plans(B)
  <2>1. \A i \in D : \A v \in Plans(B) : AskedStep(ps, v, rs[i]) \in Plans(B)
    BY <1>1, AskedStepOK
  <2>2. QED BY <2>1
<1>4. \A s \in SUBSET D : ch[s] = Max(s)
  OBVIOUS
<1> HIDE DEF ch, H, D, n
<1>5. Folds(D, Plans(B), p, ch, H)
  BY <1>2, <1>3, <1>4 DEF Folds
<1>6. PICK f \in [SUBSET D -> Plans(B)] : FoldOf(f, D, p, ch, H)
  BY <1>5, FoldExists
<1>7. \A s \in SUBSET D : f[s] = IF s = {} THEN p
                                 ELSE LET x == Max(s)
                                      IN IF rs[x].action = "new_shift" THEN f[s \ {x}] ELSE Changes(ps, f[s \ {x}], Split(rs[x]))
  <2> SUFFICES ASSUME NEW s \in SUBSET D, s # {} PROVE f[s] = AskedStep(ps, f[s \ {Max(s)}], rs[Max(s)])
    BY <1>6 DEF FoldOf, AskedStep
  <2>1. f[s] = H[ch[s]][f[s \ {ch[s]}]] /\ ch[s] = Max(s)
    BY <1>4, <1>6 DEF FoldOf
  <2>2. Max(s) \in D /\ f[s \ {Max(s)}] \in Plans(B)
    BY <1>2
  <2>3. QED BY <1>3, <2>1, <2>2
<1>8. Eq(f)
  BY <1>7, <1>6
<1> DEFINE iter == CHOOSE g : Eq(g)
<1>9. ChangesAsked(ps, p, rs) = iter[D]
  BY DEF ChangesAsked, FoldLeft, MapThenFoldSet, D
<1>10. Eq(iter)
  BY <1>8
<1> HIDE DEF iter
<1>11. \A s \in SUBSET D : iter[s] = IF s = {} THEN p ELSE AskedStep(ps, iter[s \ {Max(s)}], rs[Max(s)])
  BY <1>10 DEF AskedStep
<1> DEFINE g == [k \in 0..n |-> iter[1..k]]
<1>12. g[0] = p
  <2>1. g[0] = iter[{}] /\ {} \in SUBSET D
    <3>1. 1..0 = {} /\ 0 \in 0..n
      BY <1>1
    <3>2. QED BY <3>1
  <2>2. QED BY <1>11, <2>1
<1>13. \A k \in 1..n : g[k] = AskedStep(ps, g[k - 1], rs[k])
  <2> SUFFICES ASSUME NEW k \in 1..n PROVE g[k] = AskedStep(ps, g[k - 1], rs[k])
    OBVIOUS
  <2>1. 1..k \in SUBSET D /\ 1..k # {} /\ k \in 1..k
    <3>1. k \in 1..k /\ \A i \in 1..k : i \in 1..n
      BY <1>1
    <3>2. QED BY <1>1, <3>1
  <2>2. Max(1..k) = k
    <3>1. Max(1..k) \in 1..k /\ Max(1..k) >= k
      BY <1>2, <2>1
    <3>2. QED BY <1>1, <3>1
  <2>3. (1..k) \ {k} = 1..(k - 1)
    BY <1>1
  <2>4. iter[1..k] = AskedStep(ps, iter[1..(k - 1)], rs[k])
    BY <1>11, <2>1, <2>2, <2>3
  <2>5. g[k] = iter[1..k] /\ g[k - 1] = iter[1..(k - 1)]
    BY <1>1
  <2>6. QED BY <2>4, <2>5
<1>14. g[n] = iter[D]
  BY <1>1
<1>15. g = [k \in 0..n |-> g[k]]
  OBVIOUS
<1> HIDE DEF g
<1> DEFINE ok == {k \in 0..n : g[k] \in Plans(B)}
<1>16. \A k \in 0..n : k \in ok
  <2>1. 0 \in ok
    BY <1>1, <1>12
  <2>2. \A k \in 0..(n - 1) : k \in ok => k + 1 \in ok
    <3> SUFFICES ASSUME NEW k \in 0..(n - 1), k \in ok PROVE g[k + 1] \in Plans(B)
      BY <1>1
    <3>1. k + 1 \in 1..n /\ (k + 1) - 1 = k
      BY <1>1
    <3>2. g[k + 1] = AskedStep(ps, g[k], rs[k + 1]) /\ AskOf(rs[k + 1]) /\ g[k] \in Plans(B)
      BY <1>1, <1>13, <3>1
    <3>3. QED BY <3>2, AskedStepOK
  <2> HIDE DEF ok
  <2>3. QED BY <1>1, <2>1, <2>2, Upwards
<1>17. g \in [0..n -> Plans(B)]
  BY <1>15, <1>16
<1>18. QED BY <1>9, <1>12, <1>13, <1>14, <1>17 DEF n, AskedBy

\* What an email of one change asks, and an email of new shifts.
LEMMA AskedOfOne ==
  ASSUME NEW B, WellFormed(B), NEW ps, ps \subseteq B, NEW rs, MailOf(rs)
  PROVE  /\ ChangesAsked(ps, NoPlan, rs) \in Plans(B)
         /\ Len(rs) = 1 => ChangesAsked(ps, NoPlan, rs) = AskedStep(ps, NoPlan, rs[1])
         /\ (\A i \in 1..Len(rs) : rs[i].action = "new_shift") => ChangesAsked(ps, NoPlan, rs) = NoPlan
<1>1. PICK g \in [0..Len(rs) -> Plans(B)] :
           /\ g[0] = NoPlan /\ ChangesAsked(ps, NoPlan, rs) = g[Len(rs)]
           /\ \A k \in 1..Len(rs) : g[k] = AskedStep(ps, g[k - 1], rs[k])
  <2>1. NoPlan \in Plans(B)
    BY RefusedOK
  <2>2. PICK g \in [0..Len(rs) -> Plans(B)] : AskedBy(g, ps, NoPlan, rs)
    BY <2>1, AskedSteps
  <2>3. QED BY <2>2 DEF AskedBy
<1> DEFINE n == Len(rs)
<1>2. n \in Nat /\ n \in 0..n
  BY DEF MailOf
<1>3. ASSUME \A i \in 1..n : rs[i].action = "new_shift" PROVE g[n] = NoPlan
  <2> DEFINE ok == {k \in 0..n : g[k] = NoPlan}
  <2>1. 0 \in ok
    BY <1>1, <1>2
  <2>2. \A k \in 0..(n - 1) : k \in ok => k + 1 \in ok
    <3> SUFFICES ASSUME NEW k \in 0..(n - 1), k \in ok PROVE k + 1 \in 0..n /\ g[k + 1] = NoPlan
      OBVIOUS
    <3>1. k + 1 \in 1..n /\ (k + 1) - 1 = k
      BY <1>2
    <3>2. g[k + 1] = AskedStep(ps, g[k], rs[k + 1]) /\ rs[k + 1].action = "new_shift"
      BY <1>1, <1>3, <3>1
    <3>3. QED BY <3>1, <3>2 DEF AskedStep
  <2> HIDE DEF ok, n
  <2>3. n \in ok
    BY <1>2, <2>1, <2>2, Upwards
  <2>4. QED BY <2>3 DEF ok
<1>4. n = 1 => g[n] = AskedStep(ps, NoPlan, rs[1])
  BY <1>1
<1>5. QED BY <1>1, <1>2, <1>3, <1>4

-----------------------------------------------------------------------------
(* The calls of an email's new shifts. *)

PeopleInStep(m, f, s) ==
  s # {} => f[s] = m.asks[CHOOSE x \in s : TRUE].crew + f[s \ {CHOOSE x \in s : TRUE}]

LEMMA PeopleInIs ==
  ASSUME NEW m, NEW is, IsFiniteSet(is), \A i \in is : m.asks[i].crew \in Nat
  PROVE  /\ PeopleIn(m, is) \in Nat
         /\ is # {} /\ (\A i \in is : m.asks[i].crew > 0) => PeopleIn(m, is) > 0
<1> DEFINE ch == [s \in SUBSET is |-> CHOOSE x \in s : TRUE]
           H == [x \in is |-> [v \in Nat |-> m.asks[x].crew + v]]
           Eq(f) == f = [s \in SUBSET is |-> IF s = {} THEN 0 ELSE LET x == CHOOSE x \in s : TRUE IN m.asks[x].crew + f[s \ {x}]]
<1>1. \A s \in SUBSET is : ch[s] = CHOOSE x \in s : TRUE
  OBVIOUS
<1>2. \A s \in SUBSET is : s # {} => ch[s] \in s
  BY <1>1
<1>3. \A x \in is : \A v \in Nat : H[x][v] \in Nat /\ H[x][v] = m.asks[x].crew + v
  OBVIOUS
<1> HIDE DEF ch, H
<1>4. Folds(is, Nat, 0, ch, H)
  BY <1>2, <1>3 DEF Folds
<1>5. PICK f \in [SUBSET is -> Nat] : FoldOf(f, is, 0, ch, H)
  BY <1>4, FoldExists
<1>6. \A s \in SUBSET is : f[s] = IF s = {} THEN 0 ELSE LET x == CHOOSE x \in s : TRUE IN m.asks[x].crew + f[s \ {x}]
  <2> SUFFICES ASSUME NEW s \in SUBSET is, s # {}
               PROVE  f[s] = m.asks[CHOOSE x \in s : TRUE].crew + f[s \ {CHOOSE x \in s : TRUE}]
    BY <1>5 DEF FoldOf
  <2>1. f[s] = H[ch[s]][f[s \ {ch[s]}]] /\ ch[s] \in is /\ f[s \ {ch[s]}] \in Nat
    BY <1>2, <1>5 DEF FoldOf
  <2>2. f[s] = m.asks[ch[s]].crew + f[s \ {ch[s]}]
    BY <1>3, <2>1
  <2>3. QED BY <1>1, <2>2
<1>7. Eq(f)
  BY <1>6
<1> DEFINE iter == CHOOSE g : Eq(g)
<1>8. PeopleIn(m, is) = iter[is]
  BY DEF PeopleIn, MapThenSumSet, MapThenFoldSet
<1>9. Eq(iter)
  BY <1>7
<1> HIDE DEF iter
<1>10. iter[{}] = 0 /\ \A s \in SUBSET is : PeopleInStep(m, iter, s)
  BY <1>9 DEF PeopleInStep
<1> DEFINE ok == {n \in Nat : \A s \in SUBSET is : Cardinality(s) = n => iter[s] \in Nat}
<1>11. \A s \in SUBSET is : IsFiniteSet(s) /\ Cardinality(s) \in Nat
  BY FS_Subset, FS_CardinalityType
<1>12. 0 \in ok
  <2> SUFFICES ASSUME NEW s \in SUBSET is, Cardinality(s) = 0 PROVE iter[s] \in Nat
    OBVIOUS
  <2>1. s = {}
    BY <1>11, FS_EmptySet
  <2>2. QED BY <1>10, <2>1
<1>13. \A k \in 0..(Cardinality(is) - 1) : k \in ok => k + 1 \in ok
  <2> SUFFICES ASSUME NEW k \in 0..(Cardinality(is) - 1), k \in ok, NEW s \in SUBSET is, Cardinality(s) = k + 1
               PROVE  iter[s] \in Nat
    BY <1>11
  <2>1. IsFiniteSet(s) /\ s # {}
    BY <1>11, FS_EmptySet
  <2>2. PICK x \in s : x = CHOOSE y \in s : TRUE
    BY <2>1
  <2>3. Cardinality(s \ {x}) = k
    <3>1. Cardinality(s \ {x}) = Cardinality(s) - 1
      BY <2>1, FS_RemoveElement
    <3>2. QED BY <3>1
  <2>4. iter[s \ {x}] \in Nat /\ m.asks[x].crew \in Nat
    BY <2>3
  <2>5. iter[s] = m.asks[x].crew + iter[s \ {x}]
    BY <1>10, <2>1, <2>2 DEF PeopleInStep
  <2>6. QED BY <2>4, <2>5
<1>14. \A s \in SUBSET is : iter[s] \in Nat
  <2> DEFINE n == Cardinality(is)
  <2>1. n \in Nat /\ \A k \in 0..(n - 1) : k \in ok => k + 1 \in ok
    BY <1>11, <1>13
  <2> HIDE DEF ok, n
  <2>2. \A k \in 0..n : k \in ok
    BY <1>12, <2>1, Upwards
  <2>3. \A s \in SUBSET is : Cardinality(s) \in 0..n
    BY <1>11, <2>1, FS_Subset DEF n
  <2>4. QED BY <2>2, <2>3 DEF ok
<1>15. is # {} /\ (\A i \in is : m.asks[i].crew > 0) => iter[is] > 0
  <2> SUFFICES ASSUME is # {}, \A i \in is : m.asks[i].crew > 0 PROVE iter[is] > 0
    OBVIOUS
  <2>1. PICK x \in is : x = CHOOSE y \in is : TRUE
    OBVIOUS
  <2>2. iter[is] = m.asks[x].crew + iter[is \ {x}]
    BY <1>10, <2>1 DEF PeopleInStep
  <2>3. iter[is \ {x}] \in Nat /\ m.asks[x].crew \in Nat /\ m.asks[x].crew > 0
    BY <1>14
  <2>4. QED BY <2>2, <2>3
<1>16. QED BY <1>8, <1>14, <1>15

NewCall == {c \in [w : Win, day : Nat, start : 0..23, end : 0..23, crew : Nat, trade : Nat, chief : BOOLEAN] :
           c.w = Window(c.day, c.start, c.end) /\ c.crew + c.trade > 0}

LEMMA CallParts ==
  ASSUME NEW c \in NewCall
  PROVE  /\ c.w \in Win /\ c.day \in Nat /\ c.start \in 0..23 /\ c.end \in 0..23 /\ c.crew \in Nat /\ c.trade \in Nat /\ c.chief \in BOOLEAN
         /\ c.w = Window(c.day, c.start, c.end) /\ c.crew + c.trade > 0
BY DEF NewCall

LEMMA CallIs ==
  ASSUME NEW m, MailOf(m.asks), NEW i \in NewIn(m)
  PROVE  CallOf(m, WindowOf(m.asks[i])) \in NewCall /\ CallOf(m, WindowOf(m.asks[i])).w = WindowOf(m.asks[i])
<1> DEFINE w == WindowOf(m.asks[i])
           of == {j \in NewIn(m) : WindowOf(m.asks[j]) = w}
           plain == {j \in of : ~m.asks[j].trade}
           trades == {j \in of : m.asks[j].trade}
           r == m.asks[Min(of)]
           crew == PeopleIn(m, plain)
           trade == PeopleIn(m, trades)
           chief == \E j \in of : m.asks[j].chief
<1>1. of \subseteq 1..Len(m.asks) /\ i \in of /\ Len(m.asks) \in Nat
  BY DEF MailOf, NewIn
<1>2. \A j \in of : AskOf(m.asks[j]) /\ m.asks[j].action = "new_shift" /\ WindowOf(m.asks[j]) = w
  BY <1>1 DEF MailOf, NewIn
<1>3. Min(of) \in of
  <2>1. of \subseteq Nat /\ of # {}
    BY <1>1
  <2> HIDE DEF of
  <2>2. QED BY <2>1, MinIsLeast
<1>4. \A j \in of : m.asks[j].crew \in Nat /\ m.asks[j].crew > 0 /\ m.asks[j].trade \in BOOLEAN
  BY <1>2, AskParts DEF AskOf
<1>5. IsFiniteSet(of)
  <2>1. IsFiniteSet(1..Len(m.asks))
    BY <1>1, FS_Interval
  <2> HIDE DEF of
  <2>2. QED BY <1>1, <2>1, FS_Subset
<1>6. IsFiniteSet(plain) /\ IsFiniteSet(trades) /\ plain \subseteq of /\ trades \subseteq of /\ of = plain \cup trades
  <2> HIDE DEF of
  <2>1. QED BY <1>5, FS_Subset
<1>7. r \in Ask /\ r.start \in 0..23 /\ r.end \in 0..23 /\ r.day \in Nat /\ WindowOf(r) = w
  <2>1. AskOf(r) /\ r.action = "new_shift" /\ WindowOf(r) = w
    BY <1>2, <1>3
  <2>2. r \in Ask /\ Absent \notin {r.start, r.end}
    BY <2>1 DEF AskOf
  <2>3. QED BY <2>1, <2>2, AskParts DEF Time
<1>8. w = Window(r.day, r.start, r.end) /\ w \in Win
  <2>1. WindowOf(r) = Window(r.day, r.start, r.end)
    BY DEF WindowOf
  <2> HIDE DEF w, r
  <2>2. Window(r.day, r.start, r.end) \in Win
    BY <1>7, WindowIs
  <2>3. QED BY <1>7, <2>1, <2>2
<1> HIDE DEF of, w
<1>9. crew \in Nat /\ trade \in Nat /\ (plain # {} => crew > 0) /\ (trades # {} => trade > 0)
  <2> HIDE DEF plain, trades
  <2>1. QED BY <1>4, <1>6, PeopleInIs
<1>10. crew + trade > 0
  <2>1. plain # {} \/ trades # {}
    BY <1>1, <1>6
  <2>2. QED BY <1>9, <2>1
<1>11. CallOf(m, w) = [w |-> w, day |-> r.day, start |-> r.start, end |-> r.end, crew |-> crew, trade |-> trade, chief |-> chief]
  BY DEF CallOf, of
<1> HIDE DEF crew, trade, r
<1>12. chief \in BOOLEAN
  OBVIOUS
<1> HIDE DEF chief
<1> DEFINE c == [w |-> w, day |-> r.day, start |-> r.start, end |-> r.end, crew |-> crew, trade |-> trade, chief |-> chief]
<1>13. c \in [w : Win, day : Nat, start : 0..23, end : 0..23, crew : Nat, trade : Nat, chief : BOOLEAN]
  BY <1>7, <1>8, <1>9, <1>12
<1>14. c.w = Window(c.day, c.start, c.end) /\ c.crew + c.trade > 0
  BY <1>8, <1>10
<1>15. c \in NewCall /\ c.w = w
  BY <1>13, <1>14 DEF NewCall
<1>16. QED BY <1>11, <1>15 DEF w

LEMMA CallsAre ==
  ASSUME NEW m, MailOf(m.asks)
  PROVE  /\ Calls(m) \subseteq NewCall /\ IsFiniteSet(Calls(m))
         /\ \A c, d \in Calls(m) : c.w = d.w => c = d
<1>1. \A i \in NewIn(m) : CallOf(m, WindowOf(m.asks[i])) \in NewCall /\ CallOf(m, WindowOf(m.asks[i])).w = WindowOf(m.asks[i])
  BY CallIs
<1>2. Calls(m) \subseteq NewCall
  BY <1>1 DEF Calls
<1>3. IsFiniteSet(Calls(m))
  <2>1. [i \in NewIn(m) |-> CallOf(m, WindowOf(m.asks[i]))] \in Surjection(NewIn(m), Calls(m))
    BY DEF Surjection, Calls
  <2>2. NewIn(m) \subseteq 1..Len(m.asks) /\ Len(m.asks) \in Nat
    BY DEF NewIn, MailOf
  <2>3. IsFiniteSet(NewIn(m))
    <3>1. IsFiniteSet(1..Len(m.asks))
      BY <2>2, FS_Interval
    <3>2. QED BY <2>2, <3>1, FS_Subset
  <2>4. QED BY <2>1, <2>3, FS_Surjection
<1>4. ASSUME NEW c \in Calls(m), NEW d \in Calls(m), c.w = d.w PROVE c = d
  <2>1. c = CallOf(m, c.w) /\ d = CallOf(m, d.w)
    BY <1>1 DEF Calls
  <2>2. QED BY <1>4, <2>1
<1>5. QED BY <1>2, <1>3, <1>4

\* The calls, or some of them, in order: each once.
LEMMA InOrderIs ==
  ASSUME NEW cs, cs \subseteq NewCall, IsFiniteSet(cs), \A c, d \in cs : c.w = d.w => c = d
  PROVE  /\ InOrder(cs) \in [1..Cardinality(cs) -> cs] /\ Cardinality(cs) \in Nat
         /\ InOrder(cs) \in Seq(cs) /\ Len(InOrder(cs)) = Cardinality(cs)
         /\ DOMAIN InOrder(cs) = 1..Cardinality(cs)
         /\ \A c \in cs : \E i \in 1..Cardinality(cs) : InOrder(cs)[i] = c
         /\ \A i, j \in 1..Cardinality(cs) : i # j => InOrder(cs)[i] # InOrder(cs)[j]
<1> DEFINE n == Cardinality(cs)
           key == [c \in cs |-> 25 * c.w.b + (c.w.e - c.w.b)]
           Before(c, d) == c.w.b < d.w.b \/ (c.w.b = d.w.b /\ c.w.e < d.w.e)
<1>1. n \in Nat
  BY FS_CardinalityType
<1>2. \A c \in cs : c.w \in Win /\ c.w.b \in Nat /\ c.w.e \in Nat /\ c.w.e - c.w.b \in 1..24
  <2> SUFFICES ASSUME NEW c \in cs PROVE c.w \in Win /\ c.w.b \in Nat /\ c.w.e \in Nat /\ c.w.e - c.w.b \in 1..24
    OBVIOUS
  <2>1. c \in NewCall
    OBVIOUS
  <2> DEFINE x == Window(c.day, c.start, c.end)
  <2>10. x \in Win /\ x.e - x.b \in 1..24
    BY <2>1, CallParts, WindowIs
  <2>2. c.w \in Win /\ c.w.e - c.w.b \in 1..24
    BY <2>1, <2>10, CallParts
  <2>3. QED BY <2>2 DEF Win
<1>3. \A c \in cs : key[c] = 25 * c.w.b + (c.w.e - c.w.b) /\ key[c] \in Nat
  BY <1>2
<1>4. \A c, d \in cs : key[c] < key[d] <=> Before(c, d)
  BY <1>2, <1>3
<1>5. \A c, d \in cs : key[c] = key[d] => c = d
  <2> SUFFICES ASSUME NEW c \in cs, NEW d \in cs, key[c] = key[d] PROVE c = d
    OBVIOUS
  <2>1. c.w.b = d.w.b /\ c.w.e = d.w.e
    BY <1>2, <1>3
  <2>2. c.w = d.w
    BY <1>2, <2>1 DEF Win
  <2>3. QED BY <2>2
<1> HIDE DEF key
<1>6. PICK f \in [1..n -> cs] : \A i, j \in 1..n : i < j => key[f[i]] < key[f[j]]
  BY <1>3, <1>5, Sorts
<1>7. \A i, j \in DOMAIN f : i < j => Before(f[i], f[j])
  BY <1>4, <1>6
<1> DEFINE s == InOrder(cs)
<1>8. s = CHOOSE g \in [1..n -> cs] : \A i, j \in DOMAIN g : i < j => Before(g[i], g[j])
  BY DEF InOrder, InOrderBy
<1> DEFINE inOrder(g) == \A i, j \in DOMAIN g : i < j => Before(g[i], g[j])
<1>80. s = CHOOSE g \in [1..n -> cs] : inOrder(g)
  BY <1>8
<1>81. inOrder(f)
  BY <1>7
<1>9. s \in [1..n -> cs] /\ \A i, j \in DOMAIN s : i < j => Before(s[i], s[j])
  <2> HIDE DEF s, inOrder
  <2>1. s \in [1..n -> cs] /\ inOrder(s)
    BY <1>80, <1>81
  <2>2. QED BY <2>1 DEF inOrder
<1> HIDE DEF s, n
<1>10. \A i, j \in 1..n : i # j => s[i] # s[j]
  <2> SUFFICES ASSUME NEW i \in 1..n, NEW j \in 1..n, i # j PROVE s[i] # s[j]
    OBVIOUS
  <2>1. \A c \in cs : ~ Before(c, c)
    BY <1>2
  <2>2. CASE i < j
    BY <1>9, <2>1, <2>2
  <2>3. CASE j < i
    BY <1>9, <2>1, <2>3
  <2>4. QED BY <1>1, <2>2, <2>3
<1>11. \A c \in cs : \E i \in 1..n : s[i] = c
  BY <1>9, <1>10, ListsAll DEF n
<1>12. s \in Seq(cs) /\ Len(s) = n /\ DOMAIN s = 1..n
  BY <1>1, <1>9
<1>13. QED BY <1>1, <1>9, <1>10, <1>11, <1>12 DEF s, n

-----------------------------------------------------------------------------
(* What a call becomes. *)

LEMMA ChiefsFit == \A total \in Nat, asked \in BOOLEAN : ChiefsFor(total, asked) \in Nat /\ ChiefsFor(total, asked) <= total
BY DEF ChiefsFor

LEMMA PositionsAre ==
  ASSUME NEW c \in NewCall
  PROVE  /\ Positions(c) \subseteq PositionRow /\ IsFiniteSet(Positions(c)) /\ Positions(c) # {}
         /\ Sized(Positions(c)) /\ People(Positions(c)) = c.crew + c.trade
         /\ \A x, y \in Positions(c) : x.kind = y.kind => x = y
<1> DEFINE chiefs == ChiefsFor(c.crew + c.trade, c.chief)
           fromCrew == Min({chiefs, c.crew})
           a == c.crew - fromCrew
           b == c.trade - (chiefs - fromCrew)
           One(k, n) == IF n > 0 THEN {[kind |-> k, size |-> n]} ELSE {}
<1>1. c.crew \in Nat /\ c.trade \in Nat /\ c.chief \in BOOLEAN /\ c.crew + c.trade > 0
  BY CallParts
<1>2. chiefs \in Nat /\ chiefs <= c.crew + c.trade
  BY <1>1, ChiefsFit
<1> HIDE DEF chiefs
<1>3. fromCrew \in {chiefs, c.crew} /\ fromCrew <= chiefs /\ fromCrew <= c.crew
  <2>1. {chiefs, c.crew} \subseteq Nat /\ {chiefs, c.crew} # {}
    BY <1>1, <1>2
  <2>2. QED BY <2>1, MinIsLeast
<1>4. a \in Nat /\ b \in Nat /\ chiefs + a + b = c.crew + c.trade
  BY <1>1, <1>2, <1>3
<1> HIDE DEF fromCrew
<1>5. Positions(c) = {q \in {[kind |-> "chief", size |-> chiefs], [kind |-> "crew", size |-> a], [kind |-> "trade", size |-> b]} : q.size > 0}
  BY DEF Positions, chiefs, fromCrew
<1> HIDE DEF a, b
<1>6. Positions(c) = One("chief", chiefs) \cup One("crew", a) \cup One("trade", b)
  BY <1>5
<1>7. ASSUME NEW k \in Kind, NEW n \in Nat
      PROVE  One(k, n) \subseteq PositionRow /\ Sized(One(k, n)) /\ People(One(k, n)) = n /\ \A q \in One(k, n) : q.kind = k
  <2>1. CASE n > 0
    <3>1. [kind |-> k, size |-> n] \in PositionRow /\ [kind |-> k, size |-> n].size = n
      BY <2>1 DEF PositionRow
    <3>2. Sized({[kind |-> k, size |-> n]}) /\ People({[kind |-> k, size |-> n]}) = n
      BY <3>1, PeopleOne
    <3>3. QED BY <2>1, <3>1, <3>2
  <2>2. CASE ~(n > 0)
    <3>1. One(k, n) = {} /\ n = 0
      BY <2>2
    <3>2. QED BY <3>1, PeopleNone, FS_EmptySet DEF Sized
  <2>3. QED BY <2>1, <2>2
<1> DEFINE C == One("chief", chiefs)
           K == One("crew", a)
           T == One("trade", b)
<1>8. /\ C \subseteq PositionRow /\ Sized(C) /\ People(C) = chiefs /\ \A q \in C : q.kind = "chief"
      /\ K \subseteq PositionRow /\ Sized(K) /\ People(K) = a /\ \A q \in K : q.kind = "crew"
      /\ T \subseteq PositionRow /\ Sized(T) /\ People(T) = b /\ \A q \in T : q.kind = "trade"
  <2>1. {"chief", "crew", "trade"} \subseteq Kind
    BY DEF Kind
  <2>2. QED BY <1>2, <1>4, <1>7, <2>1
<1>9. Positions(c) = (C \cup K) \cup T
  BY <1>6
<1>90. \A x, y \in Positions(c) : x.kind = y.kind => x = y
  BY <1>5
<1> HIDE DEF C, K, T
<1>10. Sized(C \cup K) /\ People(C \cup K) = chiefs + a
  <2>1. C \cap K = {}
    BY <1>8
  <2>2. QED BY <1>8, <2>1, PeopleUnion
<1>11. Sized((C \cup K) \cup T) /\ People((C \cup K) \cup T) = (chiefs + a) + b
  <2>1. (C \cup K) \cap T = {}
    BY <1>8
  <2>2. QED BY <1>8, <1>10, <2>1, PeopleUnion
<1>12. Positions(c) # {}
  <2>1. chiefs > 0 \/ a > 0 \/ b > 0
    BY <1>1, <1>2, <1>4
  <2>2. C # {} \/ K # {} \/ T # {}
    BY <2>1 DEF C, K, T
  <2>3. QED BY <1>9, <2>2
<1>13. IsFiniteSet(Positions(c))
  BY <1>9, <1>11 DEF Sized
<1>14. QED BY <1>2, <1>4, <1>8, <1>9, <1>90, <1>11, <1>12, <1>13

-----------------------------------------------------------------------------
(* What is said of a call. *)

StartingAt(ps, c) == {s \in ps : s.b = c.w.b}
SameEnd(c, at) == \A s \in at : s.e = c.w.e
CrewAsk(c, t) == [Reshape(c, t) EXCEPT !.crew = c.crew, !.chief = c.chief]
TimeAsk(c, t) == [Reshape(c, t) EXCEPT !.action = "change_times", !.start = c.start, !.end = c.end]

CallSet(cs) == cs \subseteq NewCall /\ IsFiniteSet(cs) /\ \A c, d \in cs : c.w = d.w => c = d
IsVerdict(v, ps) == v.kind \in {"fresh", "held", "person"} /\ v.asks \in Seq(Asks(ps))
Verdicts(of, ps) == CallSet(DOMAIN of) /\ \A c \in DOMAIN of : IsVerdict(of[c], ps)

LEMMA ReshapeIs ==
  ASSUME NEW c \in NewCall, NEW t \in Home
  PROVE  /\ CrewAsk(c, t) \in Ask /\ CrewAsk(c, t).action = "change_crew" /\ CrewAsk(c, t).shift = t
         /\ CrewAsk(c, t).start = Absent /\ CrewAsk(c, t).end = Absent /\ CrewAsk(c, t).length = Absent
         /\ CrewAsk(c, t).crew = c.crew /\ CrewAsk(c, t).more = 0 /\ CrewAsk(c, t).fewer = 0
         /\ CrewAsk(c, t).chief = c.chief /\ ~CrewAsk(c, t).trade
         /\ TimeAsk(c, t) \in Ask /\ TimeAsk(c, t).action = "change_times" /\ TimeAsk(c, t).shift = t
         /\ TimeAsk(c, t).start = c.start /\ TimeAsk(c, t).end = c.end /\ TimeAsk(c, t).to = Absent
         /\ TimeAsk(c, t).crew = 0 /\ ~TimeAsk(c, t).chief /\ ~TimeAsk(c, t).trade
<1>1. c.day \in Nat /\ c.start \in Time /\ c.end \in Time /\ c.crew \in Nat /\ c.chief \in BOOLEAN /\ Absent \in Time
  BY CallParts DEF Time
<1>2. t \in Shift
  BY DEF Home, Shift
<1> DEFINE r == Reshape(c, t)
<1>3. r \in Ask
  BY <1>1, <1>2 DEF Reshape, Ask, Action
<1>4. /\ r.action = "change_crew" /\ r.shift = t /\ r.start = Absent /\ r.end = Absent /\ r.length = Absent /\ r.to = Absent
      /\ r.crew = 0 /\ r.more = 0 /\ r.fewer = 0 /\ ~r.chief /\ ~r.trade
  BY DEF Reshape
<1> HIDE DEF r
<1>5. CrewAsk(c, t) = [r EXCEPT !.crew = c.crew, !.chief = c.chief]
  BY DEF CrewAsk, r
<1>6. TimeAsk(c, t) = [r EXCEPT !.action = "change_times", !.start = c.start, !.end = c.end]
  BY DEF TimeAsk, r
<1>7. CrewAsk(c, t) \in Ask
  BY <1>1, <1>3, <1>5 DEF Ask
<1>8. "change_times" \in Action
  BY DEF Action
<1>9. TimeAsk(c, t) \in Ask
  BY <1>1, <1>3, <1>6, <1>8 DEF Ask
<1>10. /\ CrewAsk(c, t).action = "change_crew" /\ CrewAsk(c, t).shift = t
       /\ CrewAsk(c, t).start = Absent /\ CrewAsk(c, t).end = Absent /\ CrewAsk(c, t).length = Absent
       /\ CrewAsk(c, t).crew = c.crew /\ CrewAsk(c, t).more = 0 /\ CrewAsk(c, t).fewer = 0
       /\ CrewAsk(c, t).chief = c.chief /\ ~CrewAsk(c, t).trade
  BY <1>3, <1>4, <1>5 DEF Ask
<1>11. /\ TimeAsk(c, t).action = "change_times" /\ TimeAsk(c, t).shift = t
       /\ TimeAsk(c, t).start = c.start /\ TimeAsk(c, t).end = c.end /\ TimeAsk(c, t).to = Absent
       /\ TimeAsk(c, t).crew = 0 /\ ~TimeAsk(c, t).chief /\ ~TimeAsk(c, t).trade
  BY <1>3, <1>4, <1>6 DEF Ask
<1>12. QED BY <1>7, <1>9, <1>10, <1>11

\* A call already on the order, as it stands there: in another shape, or not.
Changed(c, at, t) ==
  /\ Teams(at) = {t}
  /\ ~(SameEnd(c, at) /\ c.crew = People(at))
Untouched(c, at, staff) == Teams(at) \cap staff # {} \/ (SameEnd(c, at) /\ c.crew = People(at))

BookedHere(ps, c, staff) ==
  LET v == BookedAt(ps, c, staff)
      at == StartingAt(ps, c)
  IN
  /\ IsVerdict(v, ps)
  /\ v.kind = "fresh" => v.asks = <<>> /\ (c.trade = 0 => at = {}) /\ (c.trade > 0 => \A s \in at : s.e # c.w.e)
  /\ v.kind = "held" => at # {}
  /\ v.kind = "held" /\ c.trade > 0 => v.asks = <<>> /\ \E s \in at : s.e = c.w.e
  /\ v.kind = "held" /\ c.trade = 0 /\ Untouched(c, at, staff) => v.asks = <<>>
  /\ v.kind = "held" /\ c.trade = 0 /\ ~Untouched(c, at, staff) =>
       \E t \in Teams(at) :
         /\ Changed(c, at, t)
         /\ v.asks = (IF c.crew = People(at) THEN <<>> ELSE <<CrewAsk(c, t)>>) \o (IF SameEnd(c, at) THEN <<>> ELSE <<TimeAsk(c, t)>>)

LEMMA TeamsWithin == ASSUME NEW ps, NEW qs, qs \subseteq ps PROVE Teams(qs) \subseteq Teams(ps) /\ Asks(qs) \subseteq Asks(ps)
BY DEF Teams, Asks

LEMMA BookedIs ==
  ASSUME NEW B, WellFormed(B), NEW ps, ps \subseteq B, NEW c \in NewCall, NEW staff
  PROVE  BookedHere(ps, c, staff)
<1> DEFINE v == BookedAt(ps, c, staff)
           at == StartingAt(ps, c)
<1>1. c.trade \in Nat /\ c.crew \in Nat
  BY CallParts
<1>2. Unheld.kind = "fresh" /\ Unheld.asks = <<>> /\ ForPerson.kind = "person" /\ ForPerson.asks = <<>>
      /\ \A as : HeldWith(as).kind = "held" /\ HeldWith(as).asks = as
  BY DEF Unheld, ForPerson, HeldWith
<1>3. <<>> \in Seq(Asks(ps))
  OBVIOUS
<1>4. CASE c.trade > 0
  <2>1. v = IF \E s \in ps : s.b = c.w.b /\ s.e = c.w.e THEN HeldWith(<<>>) ELSE Unheld
    BY <1>4 DEF BookedAt
  <2> HIDE DEF v
  <2>2. CASE \E s \in ps : s.b = c.w.b /\ s.e = c.w.e
    <3>1. \E s \in at : s.e = c.w.e
      BY <2>2 DEF StartingAt
    <3>2. v.kind = "held" /\ v.asks = <<>> /\ at # {}
      BY <1>2, <2>1, <2>2, <3>1
    <3> HIDE DEF at
    <3>3. QED BY <1>1, <1>3, <1>4, <3>1, <3>2 DEF BookedHere, IsVerdict, v, at
  <2>3. CASE ~(\E s \in ps : s.b = c.w.b /\ s.e = c.w.e)
    <3>1. v.kind = "fresh" /\ v.asks = <<>> /\ \A s \in at : s.e # c.w.e
      BY <1>2, <2>1, <2>3 DEF StartingAt
    <3> HIDE DEF at
    <3>2. QED BY <1>1, <1>3, <1>4, <3>1 DEF BookedHere, IsVerdict, v, at
  <2>4. QED BY <2>2, <2>3
<1>5. CASE c.trade = 0 /\ at = {}
  <2>1. v = IF NearStart(ps, c) THEN ForPerson ELSE Unheld
    BY <1>5 DEF BookedAt, StartingAt
  <2> HIDE DEF v
  <2>2. v.asks = <<>> /\ v.kind \in {"fresh", "person"}
    BY <1>2, <2>1
  <2>3. QED BY <1>3, <1>5, <2>2 DEF BookedHere, IsVerdict, v
<1>6. CASE c.trade = 0 /\ at # {}
  <2> DEFINE t == CHOOSE x \in Teams(at) : TRUE
             both == (IF c.crew = People(at) THEN <<>> ELSE <<CrewAsk(c, t)>>) \o (IF SameEnd(c, at) THEN <<>> ELSE <<TimeAsk(c, t)>>)
  <2>1. v = BookedAs(c, at, staff)
    <3>1. ~(c.trade > 0)
      BY <1>6
    <3>2. ~(\A s \in ps : s.b # c.w.b)
      BY <1>6 DEF StartingAt
    <3>3. QED BY <3>1, <3>2 DEF BookedAt, StartingAt
  <2>2. v = IF Untouched(c, at, staff) THEN HeldWith(<<>>)
            ELSE IF Cardinality(Teams(at)) > 1 THEN ForPerson ELSE HeldWith(both)
    BY <2>1 DEF BookedAs, Untouched, SameEnd, CrewAsk, TimeAsk
  <2>3. at \subseteq ps /\ at \subseteq B
    BY DEF StartingAt
  <2>4. t \in Teams(at) /\ t \in Home /\ t \in Teams(ps) /\ t # NoShift
    <3>1. Teams(at) # {}
      <4>1. PICK s \in at : TRUE
        BY <1>6
      <4>2. [order |-> s.order, team |-> s.team] \in Teams(at)
        BY <2>3, <4>1, TeamsAre
      <4>3. QED BY <4>2
    <3>2. t \in Teams(at)
      BY <3>1
    <3> HIDE DEF t, at
    <3>3. QED BY <2>3, <3>2, TeamsAre, TeamsWithin
  <2> HIDE DEF t
  <2>5. CrewAsk(c, t) \in Asks(ps) /\ TimeAsk(c, t) \in Asks(ps)
    BY <2>4, ReshapeIs DEF Asks
  <2>6. both \in Seq(Asks(ps))
    BY <2>5
  <2> HIDE DEF both, v, at
  <2>7. CASE Untouched(c, at, staff)
    <3>1. v.kind = "held" /\ v.asks = <<>>
      BY <1>2, <2>2, <2>7
    <3>2. QED BY <1>3, <1>6, <2>7, <3>1 DEF BookedHere, IsVerdict, v, at
  <2>8. CASE ~Untouched(c, at, staff) /\ Cardinality(Teams(at)) > 1
    <3>1. v.kind = "person" /\ v.asks = <<>>
      BY <1>2, <2>2, <2>8
    <3>2. QED BY <1>3, <1>6, <3>1 DEF BookedHere, IsVerdict, v, at
  <2>9. CASE ~Untouched(c, at, staff) /\ ~(Cardinality(Teams(at)) > 1)
    <3>1. v.kind = "held" /\ v.asks = both
      BY <1>2, <2>2, <2>9
    <3>2. Teams(at) = {t}
      <4>1. IsFiniteSet(Teams(at))
        BY <2>3, TeamsAre
      <4>2. Cardinality(Teams(at)) \in Nat /\ Cardinality(Teams(at)) # 0
        BY <2>4, <4>1, FS_CardinalityType, FS_EmptySet
      <4>3. Cardinality(Teams(at)) = 1
        BY <2>9, <4>2
      <4>4. PICK x : Teams(at) = {x}
        BY <4>1, <4>3, FS_Singleton
      <4>5. QED BY <2>4, <4>4
    <3>3. Changed(c, at, t)
      BY <2>9, <3>2 DEF Changed, Untouched
    <3>4. QED BY <1>6, <2>4, <2>6, <2>9, <3>1, <3>3 DEF BookedHere, IsVerdict, v, at, both
  <2>10. QED BY <2>7, <2>8, <2>9
<1>7. QED BY <1>1, <1>4, <1>5, <1>6

LEMMA OrdersAre ==
  ASSUME NEW B, WellFormed(B), NEW ps, ps \subseteq B
  PROVE  /\ Orders(ps) \subseteq Nat \ {0} /\ IsFiniteSet(Orders(ps))
         /\ \A c : Hits(ps, c) \subseteq Orders(ps)
         /\ \A o \in Nat \ {0} : OnOrder(ps, o) = {s \in ps : s.order = o}
         /\ \A o : OnOrder(ps, o) \subseteq ps
<1>1. Orders(ps) \subseteq Nat \ {0}
  BY PositionType DEF Orders
<1>2. IsFiniteSet(Orders(ps))
  <2>1. [s \in ps |-> s.order] \in Surjection(ps, Orders(ps))
    BY DEF Surjection, Orders
  <2>2. IsFiniteSet(ps)
    BY FS_Subset DEF WellFormed
  <2>3. QED BY <2>1, <2>2, FS_Surjection
<1>3. QED BY <1>1, <1>2 DEF Hits, Orders, OnOrder

LEMMA OrdersMore ==
  ASSUME NEW B, WellFormed(B), NEW ps, ps \subseteq B
  PROVE  Max(Orders(ps) \cup {0}) \in Nat /\ \A o \in Orders(ps) : o <= Max(Orders(ps) \cup {0})
<1> DEFINE os == Orders(ps) \cup {0}
<1>1. os \subseteq Nat /\ os # {} /\ IsFiniteSet(os)
  BY OrdersAre, FS_AddElement
<1> HIDE DEF os
<1>2. Max(os) \in os /\ \A o \in os : Max(os) >= o
  BY <1>1, MaxIsGreatest
<1>3. Max(os) \in Nat /\ \A o \in os : o <= Max(os)
  BY <1>1, <1>2
<1>4. QED BY <1>3 DEF os

VerdictHere(ps, c, staff) ==
  LET v == Verdict(ps, c, staff)
      there(o) == BookedAt(OnOrder(ps, o), c, staff)
  IN
  /\ IsVerdict(v, ps)
  /\ v.kind = "fresh" => v.asks = <<>> /\ (c.trade = 0 => Hits(ps, c) = {})
  /\ v.kind = "held" => Hits(ps, c) # {}
  /\ v.kind # "person" /\ Hits(ps, c) # {} => \E o \in Hits(ps, c) : /\ v = there(o)
                                                                     /\ Hits(ps, c) = {o} \/ \A x \in Hits(ps, c) : there(x) = HeldWith(<<>>)

LEMMA VerdictIs ==
  ASSUME NEW B, WellFormed(B), NEW ps, ps \subseteq B, NEW c \in NewCall, NEW staff
  PROVE  VerdictHere(ps, c, staff)
<1> DEFINE v == Verdict(ps, c, staff)
           there(o) == BookedAt(OnOrder(ps, o), c, staff)
           hits == Hits(ps, c)
           each == [o \in hits |-> there(o)]
<1>1. v = IF hits = {} THEN IF c.trade = 0 /\ NearStart(ps, c) THEN ForPerson ELSE Unheld
          ELSE IF Cardinality(hits) > 1 /\ \E o \in hits : each[o] # HeldWith(<<>>) THEN ForPerson
          ELSE each[Min(hits)]
  BY DEF Verdict, VerdictOf
<1>2. Unheld.kind = "fresh" /\ Unheld.asks = <<>> /\ ForPerson.kind = "person" /\ ForPerson.asks = <<>>
  BY DEF Unheld, ForPerson
<1>3. <<>> \in Seq(Asks(ps))
  OBVIOUS
<1>4. hits \subseteq Nat \ {0} /\ IsFiniteSet(hits)
  <2>1. hits \subseteq Orders(ps) /\ Orders(ps) \subseteq Nat \ {0} /\ IsFiniteSet(Orders(ps))
    BY OrdersAre
  <2> HIDE DEF hits
  <2>2. QED BY <2>1, FS_Subset
<1>5. CASE hits = {}
  <2>1. v \in {ForPerson, Unheld}
    BY <1>1, <1>5
  <2> HIDE DEF v, hits
  <2>2. v.asks = <<>> /\ v.kind \in {"fresh", "person"}
    BY <1>2, <2>1
  <2>3. QED BY <1>3, <1>5, <2>2 DEF VerdictHere, IsVerdict, v, hits
<1>6. CASE hits # {} /\ Cardinality(hits) > 1 /\ \E o \in hits : each[o] # HeldWith(<<>>)
  <2>1. v = ForPerson
    BY <1>1, <1>6
  <2> HIDE DEF v
  <2>2. QED BY <1>2, <1>3, <2>1 DEF VerdictHere, IsVerdict, v
<1>7. CASE hits # {} /\ ~(Cardinality(hits) > 1 /\ \E o \in hits : each[o] # HeldWith(<<>>))
  <2> DEFINE o == Min(hits)
  <2>1. o \in hits /\ o \in Nat \ {0}
    <3>1. hits \subseteq Nat /\ hits # {}
      BY <1>4, <1>7
    <3> HIDE DEF hits
    <3>2. o \in hits
      BY <3>1, MinIsLeast
    <3>3. QED BY <1>4, <3>2
  <2>2. v = there(o)
    BY <1>1, <1>7, <2>1
  <2> HIDE DEF o
  <2>3. OnOrder(ps, o) = {s \in ps : s.order = o} /\ OnOrder(ps, o) \subseteq B
    <3>1. o # 0
      BY <2>1
    <3>2. QED BY <3>1 DEF OnOrder
  <2>4. BookedHere(OnOrder(ps, o), c, staff)
    BY <2>3, BookedIs
  <2>5. hits = {o} \/ \A x \in hits : there(x) = HeldWith(<<>>)
    <3>1. CASE Cardinality(hits) > 1
      BY <1>7, <3>1
    <3>2. CASE ~(Cardinality(hits) > 1)
      <4>1. Cardinality(hits) \in Nat /\ Cardinality(hits) # 0
        BY <1>4, <1>7, FS_CardinalityType, FS_EmptySet
      <4>2. Cardinality(hits) = 1
        BY <3>2, <4>1
      <4> HIDE DEF hits
      <4>3. PICK x : hits = {x}
        BY <1>4, <4>2, FS_Singleton
      <4>4. QED BY <2>1, <4>3
    <3>3. QED BY <3>1, <3>2
  <2>6. IsVerdict(there(o), OnOrder(ps, o))
    BY <2>4 DEF BookedHere
  <2>7. Asks(OnOrder(ps, o)) \subseteq Asks(ps)
    BY <2>3, TeamsWithin
  <2> DEFINE w == there(o)
  <2> HIDE DEF v, w, hits
  <2>8. IsVerdict(v, ps)
    BY <2>2, <2>6, <2>7 DEF IsVerdict, w
  <2>9. v.kind = "fresh" => v.asks = <<>> /\ c.trade # 0
    <3> SUFFICES ASSUME v.kind = "fresh" PROVE v.asks = <<>> /\ c.trade # 0
      OBVIOUS
    <3>1. v.asks = <<>> /\ (c.trade = 0 => StartingAt(OnOrder(ps, o), c) = {})
      BY <2>2, <2>4 DEF BookedHere, w
    <3>2. PICK s \in ps : s.b = c.w.b /\ s.order = o
      BY <2>1 DEF hits, Hits
    <3>3. s \in StartingAt(OnOrder(ps, o), c)
      BY <2>3, <3>2 DEF StartingAt
    <3>4. QED BY <3>1, <3>3
  <2>10. QED BY <2>1, <2>2, <2>5, <2>8, <2>9 DEF VerdictHere, v, w, hits
<1>8. QED BY <1>5, <1>6, <1>7

-----------------------------------------------------------------------------
(* The changes the held calls come to, one call after the other. *)

ReshapedBy(g, ps, p, of) ==
  LET s == InOrder(DOMAIN of)
      n == Cardinality(DOMAIN of)
  IN
  /\ g[0] = p /\ Reshaped(ps, p, of) = g[n]
  /\ \A k \in 1..n : g[k] = Changes(ps, g[k - 1], of[s[k]].asks)

LEMMA ReshapedSteps ==
  ASSUME NEW B, WellFormed(B), NEW p \in Plans(B), NEW ps, ps \subseteq B, NEW of, Verdicts(of, ps)
  PROVE  \E g \in [0..Cardinality(DOMAIN of) -> Plans(B)] : ReshapedBy(g, ps, p, of)
<1> DEFINE cs == DOMAIN of
           rs == InOrder(cs)
           n == Cardinality(cs)
           D == 1..n
           ch == [s \in SUBSET D |-> Max(s)]
           H == [i \in D |-> [v \in Plans(B) |-> Changes(ps, v, of[rs[i]].asks)]]
           Eq(f) == f = [s \in SUBSET D |-> IF s = {} THEN p ELSE LET x == Max(s) IN Changes(ps, f[s \ {x}], of[rs[x]].asks)]
<1>0. cs \subseteq NewCall /\ IsFiniteSet(cs) /\ \A c, d \in cs : c.w = d.w => c = d
  BY DEF Verdicts, CallSet
<1>1. n \in Nat /\ DOMAIN rs = D /\ \A i \in D : of[rs[i]].asks \in Seq(Asks(ps))
  <2>1. n \in Nat /\ DOMAIN rs = D /\ \A i \in D : rs[i] \in cs
    <3> HIDE DEF cs
    <3>1. QED BY <1>0, InOrderIs
  <2>2. QED BY <2>1 DEF Verdicts, IsVerdict
<1>2. IsFiniteSet(D) /\ \A s \in SUBSET D : s # {} => Max(s) \in s /\ \A y \in s : Max(s) >= y
  <2>1. IsFiniteSet(D) /\ D \subseteq Nat
    BY <1>1, FS_Interval
  <2> HIDE DEF D
  <2>2. ASSUME NEW s \in SUBSET D, s # {} PROVE Max(s) \in s /\ \A y \in s : Max(s) >= y
    <3>1. IsFiniteSet(s) /\ s \subseteq Nat
      BY <2>1, FS_Subset
    <3>2. QED BY <2>2, <3>1, MaxIsGreatest
  <2>3. QED BY <2>1, <2>2
<1>3. \A i \in D : \A v \in Plans(B) : H[i][v] = Changes(ps, v, of[rs[i]].asks) /\ H[i][v] \in Plans(B)
  <2>1. \A i \in D : \A v \in Plans(B) : Changes(ps, v, of[rs[i]].asks) \in Plans(B)
    <3> SUFFICES ASSUME NEW i \in D, NEW v \in Plans(B) PROVE Changes(ps, v, of[rs[i]].asks) \in Plans(B)
      OBVIOUS
    <3>1. of[rs[i]].asks \in Seq(Asks(ps))
      BY <1>1
    <3>2. QED BY <3>1, ChangesOK
  <2>2. QED BY <2>1
<1>4. \A s \in SUBSET D : ch[s] = Max(s)
  OBVIOUS
<1> HIDE DEF ch, H, n, rs, cs, D
<1>5. Folds(D, Plans(B), p, ch, H)
  BY <1>2, <1>3, <1>4 DEF Folds
<1>6. PICK f \in [SUBSET D -> Plans(B)] : FoldOf(f, D, p, ch, H)
  BY <1>5, FoldExists
<1>7. \A s \in SUBSET D : f[s] = IF s = {} THEN p ELSE LET x == Max(s) IN Changes(ps, f[s \ {x}], of[rs[x]].asks)
  <2> SUFFICES ASSUME NEW s \in SUBSET D, s # {} PROVE f[s] = Changes(ps, f[s \ {Max(s)}], of[rs[Max(s)]].asks)
    BY <1>6 DEF FoldOf
  <2>1. f[s] = H[ch[s]][f[s \ {ch[s]}]] /\ ch[s] = Max(s)
    BY <1>4, <1>6 DEF FoldOf
  <2>2. Max(s) \in D /\ f[s \ {Max(s)}] \in Plans(B)
    BY <1>2
  <2>3. QED BY <1>3, <2>1, <2>2
<1>8. Eq(f)
  BY <1>7, <1>6
<1> DEFINE iter == CHOOSE g : Eq(g)
<1>9. Reshaped(ps, p, of) = iter[D]
  <2>1. DOMAIN rs = D
    BY <1>1
  <2>2. Reshaped(ps, p, of) = FoldLeft(LAMBDA q, c : Changes(ps, q, of[c].asks), p, rs)
    BY DEF Reshaped, rs, cs
  <2>3. QED BY <2>1, <2>2 DEF FoldLeft, MapThenFoldSet
<1>10. Eq(iter)
  BY <1>8
<1> HIDE DEF iter
<1>11. \A s \in SUBSET D : iter[s] = IF s = {} THEN p ELSE LET x == Max(s) IN Changes(ps, iter[s \ {x}], of[rs[x]].asks)
  BY <1>10
<1> DEFINE g == [k \in 0..n |-> iter[1..k]]
<1>100. D = 1..n
  BY DEF D
<1>12. g[0] = p
  <2>1. g[0] = iter[{}] /\ {} \in SUBSET D
    <3>1. 1..0 = {} /\ 0 \in 0..n
      BY <1>1
    <3>2. QED BY <3>1
  <2>2. QED BY <1>11, <2>1
<1>13. \A k \in 1..n : g[k] = Changes(ps, g[k - 1], of[rs[k]].asks)
  <2> SUFFICES ASSUME NEW k \in 1..n PROVE g[k] = Changes(ps, g[k - 1], of[rs[k]].asks)
    OBVIOUS
  <2>1. 1..k \in SUBSET D /\ 1..k # {} /\ k \in 1..k
    <3>1. k \in 1..k /\ \A i \in 1..k : i \in 1..n
      BY <1>1
    <3>2. QED BY <1>100, <3>1
  <2>2. Max(1..k) = k
    <3>1. Max(1..k) \in 1..k /\ Max(1..k) >= k
      BY <1>2, <2>1
    <3>2. QED BY <1>1, <3>1
  <2>3. (1..k) \ {k} = 1..(k - 1)
    BY <1>1
  <2>4. iter[1..k] = Changes(ps, iter[1..(k - 1)], of[rs[k]].asks)
    BY <1>11, <2>1, <2>2, <2>3
  <2>5. g[k] = iter[1..k] /\ g[k - 1] = iter[1..(k - 1)]
    BY <1>1
  <2>6. QED BY <2>4, <2>5
<1>14. g[n] = iter[D]
  BY <1>1, <1>100
<1>15. g = [k \in 0..n |-> g[k]]
  OBVIOUS
<1> HIDE DEF g
<1> DEFINE ok == {k \in 0..n : g[k] \in Plans(B)}
<1>16. \A k \in 0..n : k \in ok
  <2>1. 0 \in ok
    BY <1>1, <1>12
  <2>2. \A k \in 0..(n - 1) : k \in ok => k + 1 \in ok
    <3> SUFFICES ASSUME NEW k \in 0..(n - 1), k \in ok PROVE g[k + 1] \in Plans(B)
      BY <1>1
    <3>1. k + 1 \in 1..n /\ (k + 1) - 1 = k
      BY <1>1
    <3>2. g[k + 1] = Changes(ps, g[k], of[rs[k + 1]].asks) /\ of[rs[k + 1]].asks \in Seq(Asks(ps)) /\ g[k] \in Plans(B)
      BY <1>1, <1>100, <1>13, <3>1
    <3>3. QED BY <3>2, ChangesOK
  <2> HIDE DEF ok
  <2>3. QED BY <1>1, <2>1, <2>2, Upwards
<1>17. g \in [0..n -> Plans(B)]
  BY <1>15, <1>16
<1>18. QED BY <1>9, <1>12, <1>13, <1>14, <1>17 DEF ReshapedBy, n, rs, cs

LEMMA ReshapedOK ==
  ASSUME NEW B, WellFormed(B), NEW p \in Plans(B), NEW ps, ps \subseteq B, NEW of, Verdicts(of, ps)
  PROVE  Reshaped(ps, p, of) \in Plans(B)
<1>1. PICK g \in [0..Cardinality(DOMAIN of) -> Plans(B)] : ReshapedBy(g, ps, p, of)
  BY ReshapedSteps
<1>2. Cardinality(DOMAIN of) \in Nat
  BY FS_CardinalityType DEF Verdicts, CallSet
<1>3. Cardinality(DOMAIN of) \in 0..Cardinality(DOMAIN of)
  BY <1>2
<1>4. QED BY <1>1, <1>3 DEF ReshapedBy

-----------------------------------------------------------------------------
(* The shifts of the calls booked afresh. *)

ShiftsOf(o, cs) == LET s == InOrder(cs) IN [i \in DOMAIN s |-> AddShift(o, s[i].w, Positions(s[i]))]

LEMMA ShiftsOfOK ==
  ASSUME NEW B, NEW o \in Nat \ {0}, NEW cs, CallSet(cs)
  PROVE  ShiftsOf(o, cs) \in Seq(Ops(B)) /\ Len(ShiftsOf(o, cs)) = Cardinality(cs)
<1> DEFINE s == InOrder(cs)
           n == Cardinality(cs)
<1>1. n \in Nat /\ DOMAIN s = 1..n /\ \A i \in 1..n : s[i] \in cs /\ s[i] \in NewCall
  BY InOrderIs DEF CallSet
<1>2. \A c \in NewCall : AddShift(o, c.w, Positions(c)) \in Ops(B)
  <2> SUFFICES ASSUME NEW c \in NewCall PROVE AddShift(o, c.w, Positions(c)) \in Ops(B)
    OBVIOUS
  <2>1. Positions(c) \in {rows \in SUBSET PositionRow : IsFiniteSet(rows)} /\ c.w \in Win
    BY PositionsAre, CallParts
  <2>2. QED BY <2>1 DEF AddShift, Ops, ShiftOps
<1>3. ShiftsOf(o, cs) = [i \in 1..n |-> AddShift(o, s[i].w, Positions(s[i]))]
  BY <1>1 DEF ShiftsOf
<1> HIDE DEF s, n
<1>4. ShiftsOf(o, cs) \in [1..n -> Ops(B)]
  BY <1>1, <1>2, <1>3
<1>5. QED BY <1>1, <1>4 DEF n

LEMMA AddShiftsOK ==
  ASSUME NEW B, NEW p \in Plans(B), NEW o \in Nat \ {0}, NEW cs, CallSet(cs)
  PROVE  /\ AddShifts(p, o, cs) \in Plans(B)
         /\ ~AddShifts(p, o, cs).refused => ~p.refused /\ AddShifts(p, o, cs).ops = p.ops \o ShiftsOf(o, cs)
<1> DEFINE q == DoAll(p, ShiftsOf(o, cs))
<1>1. AddShifts(p, o, cs) = IF p.refused \/ \E c \in cs : TooShort(c) THEN Refused ELSE q
  BY DEF AddShifts, ShiftsOf
<1>2. q \in Plans(B) /\ q.ops = p.ops \o ShiftsOf(o, cs)
  BY ShiftsOfOK, DoAllOK
<1> HIDE DEF q
<1>3. QED BY <1>1, <1>2, RefusedOK

\* No shift to add asks nothing.
LEMMA AddNone ==
  ASSUME NEW B, NEW p \in Plans(B), NEW o
  PROVE  AddShifts(p, o, {}) \in Plans(B) /\ (~AddShifts(p, o, {}).refused => AddShifts(p, o, {}).ops = p.ops)
<1>1. CallSet({})
  BY FS_EmptySet DEF CallSet
<1>2. InOrder({}) \in [1..0 -> {}] /\ DOMAIN InOrder({}) = 1..0
  BY <1>1, InOrderIs, FS_EmptySet DEF CallSet
<1> DEFINE more == LET s == InOrder({}) IN [i \in DOMAIN s |-> AddShift(o, s[i].w, Positions(s[i]))]
<1>3. more = <<>>
  BY <1>2
<1>4. AddShifts(p, o, {}) = IF p.refused THEN Refused ELSE DoAll(p, more)
  BY DEF AddShifts
<1> HIDE DEF more
<1>5. more \in Seq(Ops(B)) /\ p.ops \o more = p.ops
  <2>1. p.ops \in Seq(Ops(B))
    BY PlanParts
  <2>2. QED BY <1>3, <2>1
<1>6. DoAll(p, more) \in Plans(B) /\ DoAll(p, more).ops = p.ops
  BY <1>5, DoAllOK
<1>7. QED BY <1>4, <1>6, RefusedOK

-----------------------------------------------------------------------------
(* The plan of a whole email. *)

FreshCalls(of) == OfVerdict(of, "fresh")

LEMMA SomeCalls ==
  ASSUME NEW cs, CallSet(cs), NEW ds, ds \subseteq cs
  PROVE  CallSet(ds)
<1>1. IsFiniteSet(ds)
  BY FS_Subset DEF CallSet
<1>2. QED BY <1>1 DEF CallSet

NamedVerdicts(ps, m, staff) == [c \in Calls(m) |-> BookedAt(ps, c, staff)]
NewVerdicts(ps, m, staff) == [c \in Calls(m) |-> Verdict(ps, c, staff)]

LEMMA VerdictsAre ==
  ASSUME NEW B, WellFormed(B), NEW ps, ps \subseteq B, NEW m, MailOf(m.asks), NEW staff
  PROVE  /\ Verdicts(NamedVerdicts(ps, m, staff), ps) /\ DOMAIN NamedVerdicts(ps, m, staff) = Calls(m)
         /\ Verdicts(NewVerdicts(ps, m, staff), ps) /\ DOMAIN NewVerdicts(ps, m, staff) = Calls(m)
<1>1. CallSet(Calls(m))
  BY CallsAre DEF CallSet
<1>2. \A c \in Calls(m) : IsVerdict(BookedAt(ps, c, staff), ps) /\ IsVerdict(Verdict(ps, c, staff), ps)
  <2> SUFFICES ASSUME NEW c \in Calls(m) PROVE IsVerdict(BookedAt(ps, c, staff), ps) /\ IsVerdict(Verdict(ps, c, staff), ps)
    OBVIOUS
  <2>1. c \in NewCall
    BY <1>1 DEF CallSet
  <2>2. QED BY <2>1, BookedIs, VerdictIs DEF BookedHere, VerdictHere
<1>3. QED BY <1>1, <1>2 DEF Verdicts, NamedVerdicts, NewVerdicts

\* What an email adds to the order it names.
AddedToNamed(q, p, ps, of) ==
  ~q.refused => /\ OfVerdict(of, "person") = {} /\ ~Reshaped(ps, p, of).refused
                /\ IF FreshCalls(of) = {} THEN q.ops = Reshaped(ps, p, of).ops
                   ELSE q.ops = Reshaped(ps, p, of).ops \o ShiftsOf(First(ps).order, FreshCalls(of))

LEMMA NamedOK ==
  ASSUME NEW B, WellFormed(B), NEW p \in Plans(B), NEW ps, ps \subseteq B, NEW of, Verdicts(of, ps)
  PROVE  /\ ps # {} \/ FreshCalls(of) = {} => AddToNamedAs(p, ps, of) \in Plans(B)
         /\ ps # {} \/ FreshCalls(of) = {} => AddedToNamed(AddToNamedAs(p, ps, of), p, ps, of)
<1> SUFFICES ASSUME ps # {} \/ FreshCalls(of) = {}
             PROVE  AddToNamedAs(p, ps, of) \in Plans(B) /\ AddedToNamed(AddToNamedAs(p, ps, of), p, ps, of)
  OBVIOUS
<1> DEFINE r == Reshaped(ps, p, of)
           o == First(ps).order
           q == AddToNamedAs(p, ps, of)
<1>1. r \in Plans(B)
  BY ReshapedOK
<1>2. q = IF OfVerdict(of, "person") # {} THEN Refused ELSE AddShifts(r, o, FreshCalls(of))
  BY DEF AddToNamedAs, FreshCalls
<1>3. CallSet(FreshCalls(of))
  <2>1. FreshCalls(of) \subseteq DOMAIN of
    BY DEF FreshCalls, OfVerdict
  <2>2. QED BY <2>1, SomeCalls DEF Verdicts
<1> HIDE DEF r, q
<1>4. CASE OfVerdict(of, "person") # {}
  BY <1>2, <1>4, RefusedOK DEF AddedToNamed, q
<1>5. CASE OfVerdict(of, "person") = {} /\ FreshCalls(of) = {}
  <2>1. q \in Plans(B) /\ (~q.refused => q.ops = r.ops)
    BY <1>1, <1>2, <1>5, AddNone
  <2>2. r.refused => q.refused
    <3>1. r.refused => q = Refused
      BY <1>2, <1>5 DEF AddShifts
    <3>2. QED BY <3>1, RefusedOK
  <2>3. QED BY <1>5, <2>1, <2>2 DEF AddedToNamed, q, r
<1>6. CASE OfVerdict(of, "person") = {} /\ FreshCalls(of) # {}
  <2>1. o \in Nat \ {0}
    BY <1>6, FirstIs, PositionType
  <2> HIDE DEF o
  <2>2. q \in Plans(B) /\ (~q.refused => ~r.refused /\ q.ops = r.ops \o ShiftsOf(o, FreshCalls(of)))
    <3> DEFINE fresh == FreshCalls(of)
    <3>1. q = AddShifts(r, o, fresh) /\ CallSet(fresh) /\ fresh # {}
      BY <1>2, <1>3, <1>6
    <3> HIDE DEF fresh
    <3>2. AddShifts(r, o, fresh) \in Plans(B)
      BY ONLY <1>1, <2>1, <3>1, AddShiftsOK
    <3>3. ~AddShifts(r, o, fresh).refused => ~r.refused /\ AddShifts(r, o, fresh).ops = r.ops \o ShiftsOf(o, fresh)
      BY ONLY <1>1, <2>1, <3>1, AddShiftsOK
    <3>4. QED BY <3>1, <3>2, <3>3 DEF fresh
  <2>3. QED BY <1>6, <2>2 DEF AddedToNamed, q, r, o
<1>7. QED BY <1>4, <1>5, <1>6

\* What an email adds that names no order.
OnOf(ps, of) == {Min(Hits(ps, c)) : c \in OfVerdict(of, "held")}
AddedToNew(q, p, ps, of) ==
  ~q.refused => /\ OfVerdict(of, "person") = {} /\ ~Reshaped(ps, p, of).refused
                /\ IF FreshCalls(of) = {} THEN q.ops = Reshaped(ps, p, of).ops
                   ELSE \E o \in Nat \ {0} : q.ops = Reshaped(ps, p, of).ops \o ShiftsOf(o, FreshCalls(of))

HeldHit(ps, of) == \A c \in DOMAIN of : of[c].kind = "held" => Hits(ps, c) # {}

LEMMA NewOK ==
  ASSUME NEW B, WellFormed(B), NEW p \in Plans(B), NEW ps, ps \subseteq B, NEW of, Verdicts(of, ps), HeldHit(ps, of), NEW near
  PROVE  BookNewAs(p, ps, of, near) \in Plans(B) /\ AddedToNew(BookNewAs(p, ps, of, near), p, ps, of)
<1> DEFINE r == Reshaped(ps, p, of)
           on == OnOf(ps, of)
           q == BookNewAs(p, ps, of, near)
           last == Max(Orders(ps) \cup {0}) + 1
           fresh == FreshCalls(of)
<1>1. r \in Plans(B)
  BY ReshapedOK
<1>2. q = IF OfVerdict(of, "person") # {} THEN Refused
          ELSE IF fresh = {} THEN r
          ELSE IF on # {} THEN IF Cardinality(on) = 1 THEN AddShifts(r, Min(on), fresh) ELSE Refused
          ELSE IF near THEN Refused ELSE AddShifts(r, last, fresh)
  BY DEF BookNewAs, AddTheRest, OnOf, FreshCalls
<1>3. CallSet(fresh)
  <2>1. FreshCalls(of) \subseteq DOMAIN of
    BY DEF FreshCalls, OfVerdict
  <2>2. QED BY <2>1, SomeCalls DEF Verdicts
<1>4. on # {} => Min(on) \in Nat \ {0}
  <2>1. \A c \in OfVerdict(of, "held") : Min(Hits(ps, c)) \in Nat \ {0}
    <3> SUFFICES ASSUME NEW c \in OfVerdict(of, "held") PROVE Min(Hits(ps, c)) \in Nat \ {0}
      OBVIOUS
    <3>1. Hits(ps, c) # {}
      BY DEF OfVerdict, HeldHit
    <3>2. Hits(ps, c) \subseteq Nat \ {0}
      BY OrdersAre
    <3>3. Min(Hits(ps, c)) \in Hits(ps, c)
      BY <3>1, <3>2, MinIsLeast
    <3>4. QED BY <3>2, <3>3
  <2>2. on \subseteq Nat \ {0}
    BY <2>1 DEF OnOf
  <2> HIDE DEF on
  <2>3. QED BY <2>2, MinIsLeast
<1>5. last \in Nat \ {0}
  BY OrdersMore
<1> HIDE DEF on, last, r, q, fresh
<1>6. CASE q = Refused
  BY <1>6, RefusedOK DEF AddedToNew, q
<1>7. CASE OfVerdict(of, "person") = {} /\ fresh = {}
  BY <1>1, <1>2, <1>7 DEF AddedToNew, q, fresh, r
<1>8. CASE OfVerdict(of, "person") = {} /\ fresh # {} /\ \E o \in Nat \ {0} : q = AddShifts(r, o, fresh)
  <2>1. PICK o \in Nat \ {0} : q = AddShifts(r, o, fresh)
    BY <1>8
  <2>2. q \in Plans(B) /\ (~q.refused => ~r.refused /\ q.ops = r.ops \o ShiftsOf(o, fresh))
    <3>1. AddShifts(r, o, fresh) \in Plans(B)
      BY ONLY <1>1, <1>3, <1>8, AddShiftsOK
    <3>2. ~AddShifts(r, o, fresh).refused => ~r.refused /\ AddShifts(r, o, fresh).ops = r.ops \o ShiftsOf(o, fresh)
      BY ONLY <1>1, <1>3, <1>8, AddShiftsOK
    <3>3. QED BY <2>1, <3>1, <3>2
  <2>3. ~q.refused => \E x \in Nat \ {0} : q.ops = r.ops \o ShiftsOf(x, fresh)
    BY <2>2
  <2>4. QED BY <1>8, <2>2, <2>3 DEF AddedToNew, q, fresh, r
<1>9. QED BY <1>2, <1>4, <1>5, <1>6, <1>7, <1>8

LEMMA HeldAreHit ==
  ASSUME NEW B, WellFormed(B), NEW ps, ps \subseteq B, NEW m, MailOf(m.asks), NEW staff
  PROVE  HeldHit(ps, NewVerdicts(ps, m, staff))
<1> SUFFICES ASSUME NEW c \in Calls(m), Verdict(ps, c, staff).kind = "held" PROVE Hits(ps, c) # {}
  BY DEF HeldHit, NewVerdicts
<1>1. c \in NewCall
  BY CallsAre
<1>2. QED BY <1>1, VerdictIs DEF VerdictHere

\* A plan is one, whatever the email: of changes, or of new shifts on the order it names, or on none.
LEMMA DecideOK ==
  ASSUME NEW B, WellFormed(B), NEW m, MailOf(m.asks), NEW staff, m.named \in Orders(B) \cup {0}
  PROVE  Decide(B, m, staff) \in Plans(B)
<1> DEFINE p == ChangesAsked(OnOrder(B, m.named), NoPlan, m.asks)
           ps == OnOrder(B, m.named)
<1>1. ps \subseteq B
  BY OrdersAre
<1>2. p \in Plans(B)
  BY <1>1, AskedOfOne
<1> HIDE DEF p
<1>3. m.named # 0 => ps # {}
  <2> SUFFICES ASSUME m.named # 0 PROVE ps # {}
    OBVIOUS
  <2>1. PICK s \in B : s.order = m.named
    BY DEF Orders
  <2>2. s \in OnOrder(B, m.named)
    BY <2>1 DEF OnOrder
  <2>3. QED BY <2>2
<1> HIDE DEF ps
<1>4. m.named # 0 => AddToNamed(p, ps, m, staff) \in Plans(B)
  <2> SUFFICES ASSUME m.named # 0 PROVE AddToNamed(p, ps, m, staff) \in Plans(B)
    OBVIOUS
  <2> DEFINE of == NamedVerdicts(ps, m, staff)
  <2>1. Verdicts(of, ps)
    BY <1>1, VerdictsAre
  <2>2. AddToNamed(p, ps, m, staff) = AddToNamedAs(p, ps, of)
    BY DEF AddToNamed, NamedVerdicts
  <2> HIDE DEF of
  <2>3. QED BY <1>1, <1>2, <1>3, <2>1, <2>2, NamedOK
<1>5. BookNew(p, B, m, staff) \in Plans(B)
  <2> DEFINE of == NewVerdicts(B, m, staff)
  <2>1. Verdicts(of, B) /\ HeldHit(B, of)
    BY VerdictsAre, HeldAreHit
  <2>2. BookNew(p, B, m, staff) = BookNewAs(p, B, of, m.near)
    BY DEF BookNew, NewVerdicts
  <2> HIDE DEF of
  <2>3. QED BY <1>2, <2>1, <2>2, NewOK
<1>6. Decide(B, m, staff) = IF p.refused \/ TwoOnOne(p) THEN Refused
                            ELSE IF NewIn(m) = {} THEN p
                            ELSE IF m.named # 0 THEN AddToNamed(p, ps, m, staff) ELSE BookNew(p, B, m, staff)
  BY DEF Decide, WithNews, p, ps
<1>7. QED BY <1>2, <1>4, <1>5, <1>6, RefusedOK
-----------------------------------------------------------------------------
(* The operations land. *)

Wells == {ps \in SUBSET Position : WellFormed(ps)}
LandsBy(f, B, ops) == f[0] = B /\ \A k \in 1..Len(ops) : f[k] = Lands(B, f[k - 1], ops[k])

\* The operations, one after the other on B, leave C.
Leads(B, ops, C) == \A f : LandsBy(f, B, ops) => f[Len(ops)] = C

LEMMA LeadsNone == ASSUME NEW B PROVE Leads(B, <<>>, B)
BY DEF Leads, LandsBy

LEMMA LeadsOne ==
  ASSUME NEW B, NEW S, NEW ops \in Seq(S), NEW C, Leads(B, ops, C), NEW op \in S
  PROVE  Leads(B, Append(ops, op), Lands(B, C, op))
<1> DEFINE n == Len(ops)
           more == Append(ops, op)
<1>1. n \in Nat /\ Len(more) = n + 1 /\ more[n + 1] = op /\ \A k \in 1..n : more[k] = ops[k]
  OBVIOUS
<1> SUFFICES ASSUME NEW f, LandsBy(f, B, more) PROVE f[Len(more)] = Lands(B, C, op)
  BY DEF Leads
<1>2. f[0] = B /\ \A k \in 1..(n + 1) : f[k] = Lands(B, f[k - 1], more[k])
  BY <1>1 DEF LandsBy
<1> HIDE DEF more
<1>3. \A k \in 1..n : f[k] = Lands(B, f[k - 1], ops[k])
  BY <1>1, <1>2
<1>4. f[n] = C
  BY <1>2, <1>3 DEF Leads, LandsBy
<1>5. n + 1 \in 1..(n + 1) /\ (n + 1) - 1 = n
  BY <1>1
<1>6. f[n + 1] = Lands(B, f[n], more[n + 1])
  BY <1>2, <1>5
<1>7. QED BY <1>1, <1>4, <1>6

\* What holds of C, and after each operation of a list if before it, holds of what the list leaves.
LEMMA LeadsAll ==
  ASSUME NEW B, NEW S, NEW ops \in Seq(S), NEW more \in Seq(S), NEW I, NEW C \in I[0], Leads(B, ops, C),
         \A k \in 1..Len(more) : \A D \in I[k - 1] : Lands(B, D, more[k]) \in I[k]
  PROVE  \E D \in I[Len(more)] : Leads(B, ops \o more, D)
<1> DEFINE n == Len(ops)
           m == Len(more)
           all == ops \o more
<1>1. /\ n \in Nat /\ m \in Nat /\ Len(all) = n + m
      /\ \A k \in 1..n : all[k] = ops[k]
      /\ \A k \in 1..m : all[n + k] = more[k]
  OBVIOUS
<1> DEFINE ok == {k \in Nat : \E D \in I[k] : \A f : LandsBy(f, B, all) => f[n + k] = D}
<1> HIDE DEF n, m, all
<1>2. \A f : LandsBy(f, B, all) => f[0] = B /\ \A k \in 1..(n + m) : f[k] = Lands(B, f[k - 1], all[k])
  BY <1>1 DEF LandsBy
<1>3. 0 \in ok
  <2> SUFFICES ASSUME NEW f, LandsBy(f, B, all) PROVE f[n + 0] = C
    OBVIOUS
  <2>1. \A k \in 1..n : f[k] = Lands(B, f[k - 1], ops[k])
    BY <1>1, <1>2
  <2>2. f[n] = C
    BY <1>2, <2>1 DEF Leads, LandsBy, n
  <2>3. QED BY <1>1, <2>2
<1>4. \A k \in 0..(m - 1) : k \in ok => k + 1 \in ok
  <2> SUFFICES ASSUME NEW k \in 0..(m - 1), k \in ok PROVE k + 1 \in ok
    OBVIOUS
  <2>1. PICK D \in I[k] : \A f : LandsBy(f, B, all) => f[n + k] = D
    OBVIOUS
  <2>2. k + 1 \in 1..m /\ (k + 1) - 1 = k /\ k + 1 \in Nat /\ n + (k + 1) \in 1..(n + m) /\ n + (k + 1) - 1 = n + k
    BY <1>1
  <2>3. Lands(B, D, more[k + 1]) \in I[k + 1]
    BY <2>2 DEF m
  <2>4. ASSUME NEW f, LandsBy(f, B, all) PROVE f[n + (k + 1)] = Lands(B, D, more[k + 1])
    <3>0. \A q \in 1..(n + m) : f[q] = Lands(B, f[q - 1], all[q])
      BY <1>2, <2>4
    <3>1. f[n + (k + 1)] = Lands(B, f[n + k], all[n + (k + 1)])
      <4>1. PICK q \in 1..(n + m) : q = n + (k + 1) /\ q - 1 = n + k
        BY <1>1, <2>2
      <4>2. f[q] = Lands(B, f[q - 1], all[q])
        BY <3>0
      <4>3. QED BY <4>1, <4>2
    <3>2. f[n + k] = D /\ all[n + (k + 1)] = more[k + 1]
      BY <1>1, <2>1, <2>2, <2>4
    <3>3. QED BY <2>2, <3>1, <3>2
  <2>5. QED BY <2>2, <2>3, <2>4
<1>5. m \in ok
  <2>1. m \in Nat /\ m \in 0..m
    BY <1>1
  <2> HIDE DEF ok
  <2>2. QED BY <1>3, <1>4, <2>1, Upwards
<1>6. PICK D \in I[m] : \A f : LandsBy(f, B, all) => f[n + m] = D
  BY <1>5
<1>7. Leads(B, all, D)
  BY <1>1, <1>6 DEF Leads
<1>8. QED BY <1>6, <1>7 DEF m, all
LEMMA NumbersGrow ==
  ASSUME NEW ps, IsFiniteSet(ps), ps \subseteq Position
  PROVE  /\ NextId(ps) \in Nat \ {0} /\ \A s \in ps : s.id < NextId(ps)
         /\ NextTeam(ps) \in Nat \ {0} /\ \A s \in ps : s.team < NextTeam(ps)
<1>1. IsFiniteSet(ps) /\ \A s \in ps : s.id \in Nat /\ s.team \in Nat
  BY DEF Position
<1> DEFINE ids == {s.id : s \in ps}
           teams == {s.team : s \in ps}
<1>2. IsFiniteSet(ids)
  <2>1. [s \in ps |-> s.id] \in Surjection(ps, ids)
    BY DEF Surjection
  <2> HIDE DEF ids
  <2>2. QED BY <1>1, <2>1, FS_Surjection
<1>3. IsFiniteSet(teams)
  <2>1. [s \in ps |-> s.team] \in Surjection(ps, teams)
    BY DEF Surjection
  <2> HIDE DEF teams
  <2>2. QED BY <1>1, <2>1, FS_Surjection
<1>4. ids \subseteq Nat /\ teams \subseteq Nat /\ \A s \in ps : s.id \in ids /\ s.team \in teams
  BY <1>1
<1>5. NextId(ps) = Max(ids \cup {0}) + 1 /\ NextTeam(ps) = Max(teams \cup {0}) + 1
  BY DEF NextId, NextTeam
<1> HIDE DEF ids, teams
<1>6. \A S : S \subseteq Nat /\ IsFiniteSet(S) => Max(S \cup {0}) \in Nat /\ \A y \in S : y <= Max(S \cup {0})
  <2> SUFFICES ASSUME NEW S, S \subseteq Nat, IsFiniteSet(S) PROVE Max(S \cup {0}) \in Nat /\ \A y \in S : y <= Max(S \cup {0})
    OBVIOUS
  <2> DEFINE T == S \cup {0}
  <2>1. T \subseteq Nat /\ T # {} /\ IsFiniteSet(T) /\ S \subseteq T
    BY FS_AddElement
  <2> HIDE DEF T
  <2>2. Max(T) \in T /\ \A y \in T : Max(T) >= y
    BY <2>1, MaxIsGreatest
  <2>3. Max(T) \in Nat /\ \A y \in S : y <= Max(T)
    BY <2>1, <2>2
  <2>4. QED BY <2>3 DEF T
<1>7. /\ Max(ids \cup {0}) \in Nat /\ \A y \in ids : y <= Max(ids \cup {0})
      /\ Max(teams \cup {0}) \in Nat /\ \A y \in teams : y <= Max(teams \cup {0})
  BY <1>2, <1>3, <1>4, <1>6
<1> DEFINE a == Max(ids \cup {0})
           b == Max(teams \cup {0})
<1>8. /\ NextId(ps) = a + 1 /\ NextTeam(ps) = b + 1 /\ a \in Nat /\ b \in Nat
      /\ \A s \in ps : s.id \in Nat /\ s.team \in Nat /\ s.id <= a /\ s.team <= b
  <2>1. \A s \in ps : s.id <= a /\ s.team <= b
    BY <1>4, <1>7
  <2>2. QED BY <1>1, <1>5, <1>7, <2>1
<1> HIDE DEF a, b
<1>9. NextId(ps) \in Nat \ {0} /\ NextTeam(ps) \in Nat \ {0}
  BY <1>8
<1>10. \A s \in ps : s.id < NextId(ps) /\ s.team < NextTeam(ps)
  BY <1>8
<1>11. QED BY <1>9, <1>10

LEMMA NumbersFresh ==
  ASSUME NEW was \in Wells, NEW ps \in Wells
  PROVE  /\ NextId(ps \cup was) \in Nat \ {0} /\ \A s \in ps \cup was : s.id < NextId(ps \cup was)
         /\ NextTeam(ps \cup was) \in Nat \ {0} /\ \A s \in ps \cup was : s.team < NextTeam(ps \cup was)
<1>1. IsFiniteSet(ps \cup was) /\ ps \cup was \subseteq Position
  BY FS_Union DEF Wells, WellFormed
<1>2. QED BY <1>1, NumbersGrow

Resized(ps, i, n) == {IF s.id = i THEN [s EXCEPT !.size = n] ELSE s : s \in ps}
Cancelled(ps, i) == {s \in ps : s.id # i}
Retimed(ps, ids, w) == {IF s.id \in ids THEN [s EXCEPT !.b = w.b, !.e = w.e] ELSE s : s \in ps}
NewRow(was, ps, t, q, w) ==
  [id |-> NextId(ps \cup was), order |-> t.order, team |-> t.team, kind |-> q.kind, size |-> q.size, b |-> w.b, e |-> w.e]

\* What a shift's operation puts there: rows of a number of their own, on a team nobody else is on, with its people and hours.
NewShift(N, was, ps, op) ==
  /\ IsFiniteSet(N) /\ N \subseteq Position
  /\ \A x \in N : /\ \A s \in ps \cup was : x.id # s.id /\ x.team # s.team
                  /\ x.order = op.order /\ x.b = op.w.b /\ x.e = op.w.e
  /\ \A x, y \in N : x.id = y.id => x = y
  /\ op.positions # {} => N # {}
  /\ People(N) = People(op.positions)

\* Where an operation on a position, or for one more, leads.
Landing(C, was, ps, op) ==
  /\ op.kind = "size" => C = Resized(ps, op.slot, op.size)
  /\ op.kind = "times" => C = Retimed(ps, {op.slot}, op.w)
  /\ op.kind = "cancel" => C = Cancelled(ps, op.slot)
  /\ op.kind = "add" => C = ps \cup {NewRow(was, ps, op.at, op.position, op.w)}

LEMMA LandsIs ==
  ASSUME NEW was, NEW ps, NEW B, NEW op \in Ops(B)
  PROVE  Landing(Lands(was, ps, op), was, ps, op)
BY DEF Lands, Landing, Resized, Retimed, Cancelled, NewRow

LEMMA ShiftLands ==
  ASSUME NEW was \in Wells, NEW ps \in Wells, NEW op \in ShiftOps
  PROVE  \E N : NewShift(N, was, ps, op) /\ Lands(was, ps, op) = ps \cup N
<1> DEFINE id == NextId(ps \cup was)
           team == NextTeam(ps \cup was)
           rows == op.positions
           row == SetToSeq(rows)
           n == Cardinality(rows)
           new(i) == [id |-> id + i, order |-> op.order, team |-> team, kind |-> row[i].kind, size |-> row[i].size, b |-> op.w.b, e |-> op.w.e]
<1>1. /\ op.kind = "shift" /\ op.order \in Nat \ {0} /\ op.w \in Win /\ rows \subseteq PositionRow /\ IsFiniteSet(rows)
  BY DEF ShiftOps
<1>2. op.w.b \in Nat /\ op.w.e \in Nat
  BY <1>1 DEF Win
<1>3. n \in Nat
  BY <1>1, FS_CardinalityType
<1>4. row \in [1..n -> rows] /\ \A i, j \in 1..n : i # j => row[i] # row[j]
  <2>1. PICK f : f \in Bijection(1..n, rows)
    BY <1>1, FS_CardinalityType DEF ExistsBijection
  <2>2. f \in [1..n -> rows] /\ IsInjective(f)
    BY <2>1 DEF Bijection, Injection, IsInjective
  <2>3. row \in [1..n -> rows] /\ IsInjective(row)
    BY <2>2 DEF SetToSeq
  <2>4. QED BY <2>3 DEF IsInjective
<1>5. \A x \in rows : \E i \in 1..n : row[i] = x
  <2>1. IsFiniteSet(rows)
    BY <1>1
  <2> HIDE DEF row, rows
  <2>2. QED BY ONLY <1>4, <2>1, ListsAll
<1> DEFINE N == {new(i) : i \in 1..n}
<1>6. Lands(was, ps, op) = ps \cup N
  <2>1. DOMAIN row = 1..n
    BY <1>4
  <2> HIDE DEF row, n
  <2>2. {new(i) : i \in DOMAIN row} = N
    BY <2>1
  <2>3. QED BY <1>1, <2>2 DEF Lands, row
<1>7. /\ id \in Nat \ {0} /\ \A s \in ps \cup was : s.id < id
      /\ team \in Nat \ {0} /\ \A s \in ps \cup was : s.team < team
  BY NumbersFresh
<1> HIDE DEF row, n, id, team
<1>8. \A i \in 1..n : row[i] \in PositionRow /\ row[i].kind \in Kind /\ row[i].size \in Nat \ {0}
  BY <1>1, <1>4 DEF PositionRow
<1>9. \A i \in 1..n : new(i) \in Position
  BY <1>1, <1>2, <1>3, <1>7, <1>8 DEF Position
<1>10. \A i, j \in 1..n : new(i).id = new(j).id => i = j
  BY <1>3, <1>7
<1>11. IsFiniteSet(N)
  <2>1. [i \in 1..n |-> new(i)] \in Surjection(1..n, N)
    BY DEF Surjection
  <2>2. IsFiniteSet(1..n)
    BY <1>3, FS_Interval
  <2> HIDE DEF N
  <2>3. QED BY <2>1, <2>2, FS_Surjection
<1>12. \A x \in N : \A s \in ps \cup was : x.id # s.id
  <2> SUFFICES ASSUME NEW i \in 1..n, NEW s \in ps \cup was PROVE id + i # s.id
    OBVIOUS
  <2>1. s.id < id /\ s.id \in Nat
    BY <1>7 DEF Wells, Position
  <2>2. QED BY <1>3, <1>7, <2>1
<1>12a. \A x \in N : \A s \in ps \cup was : x.team # s.team
  <2>1. \A s \in ps \cup was : s.team < team /\ s.team \in Nat
    BY <1>7 DEF Wells, Position
  <2>2. \A x \in N : x.team = team
    OBVIOUS
  <2> HIDE DEF N
  <2>3. \A s \in ps \cup was : team # s.team
    BY <1>7, <2>1
  <2>4. QED BY <2>2, <2>3
<1>13. rows # {} => N # {}
  <2>1. rows # {} => \E i \in 1..n : TRUE
    BY <1>5
  <2> HIDE DEF new, rows
  <2>2. QED BY <2>1
<1>14. People(N) = People(rows)
  <2> DEFINE at == [x \in rows |-> CHOOSE i \in 1..n : row[i] = x]
             g == [x \in rows |-> new(at[x])]
  <2>1. \A x \in rows : at[x] \in 1..n /\ row[at[x]] = x
    BY <1>5
  <2>2. \A i \in 1..n : row[i] \in rows /\ at[row[i]] = i
    BY <1>4, <2>1
  <2> HIDE DEF at
  <2>3. \A x \in rows : g[x] = new(at[x]) /\ g[x].size = x.size /\ g[x].id = id + at[x]
    BY <2>1
  <2>4. \A x, y \in rows : g[x] = g[y] => x = y
    BY <1>3, <1>7, <2>1, <2>3
  <2>5. {g[x] : x \in rows} = N
    <3>1. \A i \in 1..n : g[row[i]] = new(i) /\ row[i] \in rows
      BY <2>2, <2>3
    <3>2. \A x \in rows : g[x] = new(at[x]) /\ at[x] \in 1..n
      BY <2>1, <2>3
    <3> HIDE DEF new, g, rows
    <3>3. QED BY <3>1, <3>2
  <2>6. Sized(rows)
    BY <1>1 DEF Sized, PositionRow
  <2> HIDE DEF g, N, rows
  <2>7. \A x \in rows : g[x].size = x.size
    BY <2>3
  <2>8. People({g[x] : x \in rows}) = People(rows)
    BY <2>4, <2>6, <2>7, PeopleImage
  <2>9. QED BY <2>5, <2>8
<1>15. NewShift(N, was, ps, op)
  <2>1. \A x \in N : x.order = op.order /\ x.b = op.w.b /\ x.e = op.w.e
    OBVIOUS
  <2>2. \A x, y \in N : x.id = y.id => x = y
    BY <1>10
  <2>3. N \subseteq Position
    BY <1>9
  <2> HIDE DEF N
  <2>4. QED BY <1>11, <1>12, <1>12a, <1>13, <1>14, <2>1, <2>2, <2>3 DEF NewShift
<1>16. QED BY <1>6, <1>15
LEMMA ResizedOK ==
  ASSUME NEW ps \in Wells, NEW i, NEW n \in Nat \ {0}
  PROVE  Resized(ps, i, n) \in Wells /\ IdsOf(Resized(ps, i, n)) = IdsOf(ps)
<1> DEFINE at(s) == IF s.id = i THEN [s EXCEPT !.size = n] ELSE s
<1>1. IsFiniteSet(ps) /\ \A s \in ps : s \in Position /\ s.b < s.e
  BY DEF Wells, WellFormed
<1>2. \A s, u \in ps : s.id = u.id => s = u
  BY DEF Wells, WellFormed
<1>3. \A s \in ps : at(s) \in Position /\ at(s).id = s.id /\ at(s).b < at(s).e
  BY <1>1 DEF Position
<1> DEFINE g == [s \in ps |-> at(s)]
<1>4. Resized(ps, i, n) = {g[s] : s \in ps} /\ \A s \in ps : g[s] \in Position /\ g[s].id = s.id /\ g[s].b < g[s].e
  BY <1>3 DEF Resized
<1> HIDE DEF g
<1> DEFINE T == {g[s] : s \in ps}
<1>5. IsFiniteSet(T)
  <2>1. [s \in ps |-> g[s]] \in Surjection(ps, T)
    BY DEF Surjection
  <2> HIDE DEF T
  <2>2. QED BY <1>1, <2>1, FS_Surjection
<1>6. QED BY <1>2, <1>4, <1>5 DEF Wells, WellFormed, IdsOf

LEMMA RetimedOK ==
  ASSUME NEW ps \in Wells, NEW ids, NEW w \in Win
  PROVE  Retimed(ps, ids, w) \in Wells /\ IdsOf(Retimed(ps, ids, w)) = IdsOf(ps)
<1> DEFINE at(s) == IF s.id \in ids THEN [s EXCEPT !.b = w.b, !.e = w.e] ELSE s
<1>0. w.b \in Nat /\ w.e \in Nat /\ w.b < w.e
  BY DEF Win
<1>1. IsFiniteSet(ps) /\ \A s \in ps : s \in Position /\ s.b < s.e
  BY DEF Wells, WellFormed
<1>2. \A s, u \in ps : s.id = u.id => s = u
  BY DEF Wells, WellFormed
<1>3. \A s \in ps : at(s) \in Position /\ at(s).id = s.id /\ at(s).b < at(s).e
  BY <1>0, <1>1 DEF Position
<1> DEFINE g == [s \in ps |-> at(s)]
<1>4. Retimed(ps, ids, w) = {g[s] : s \in ps} /\ \A s \in ps : g[s] \in Position /\ g[s].id = s.id /\ g[s].b < g[s].e
  BY <1>3 DEF Retimed
<1> HIDE DEF g
<1> DEFINE T == {g[s] : s \in ps}
<1>5. IsFiniteSet(T)
  <2>1. [s \in ps |-> g[s]] \in Surjection(ps, T)
    BY DEF Surjection
  <2> HIDE DEF T
  <2>2. QED BY <1>1, <2>1, FS_Surjection
<1>6. QED BY <1>2, <1>4, <1>5 DEF Wells, WellFormed, IdsOf

\* More positions, of numbers of their own.
LEMMA MoreOK ==
  ASSUME NEW ps \in Wells, NEW N, IsFiniteSet(N), N \subseteq Position, \A x \in N : x.b < x.e,
         \A x \in N : \A s \in ps : x.id # s.id, \A x, y \in N : x.id = y.id => x = y
  PROVE  ps \cup N \in Wells /\ IdsOf(ps) \subseteq IdsOf(ps \cup N)
<1>1. IsFiniteSet(ps \cup N)
  BY FS_Union DEF Wells, WellFormed
<1>2. QED BY <1>1 DEF Wells, WellFormed, IdsOf

LEMMA NewRowIs ==
  ASSUME NEW was \in Wells, NEW ps \in Wells, NEW t \in Home, NEW q \in PositionRow, NEW w \in Win
  PROVE  LET x == NewRow(was, ps, t, q, w) IN
         /\ x \in Position /\ x.order = t.order /\ x.team = t.team /\ x.kind = q.kind /\ x.size = q.size /\ x.b = w.b /\ x.e = w.e
         /\ x.b < x.e /\ \A s \in ps \cup was : s.id # x.id
         /\ ps \cup {x} \in Wells
<1> DEFINE x == NewRow(was, ps, t, q, w)
           id == NextId(ps \cup was)
<1>1. id \in Nat \ {0} /\ \A s \in ps \cup was : s.id < id
  BY NumbersFresh
<1>2. \A s \in ps \cup was : s.id \in Nat
  BY DEF Wells, Position
<1>3. /\ w.b \in Nat /\ w.e \in Nat /\ w.b < w.e /\ q.kind \in Kind /\ q.size \in Nat \ {0}
      /\ t.order \in Nat \ {0} /\ t.team \in Nat \ {0}
  BY DEF Win, PositionRow, Home
<1>4. x = [id |-> id, order |-> t.order, team |-> t.team, kind |-> q.kind, size |-> q.size, b |-> w.b, e |-> w.e]
  BY DEF NewRow
<1> HIDE DEF x, id
<1>5. /\ x \in Position /\ x.order = t.order /\ x.team = t.team /\ x.kind = q.kind /\ x.size = q.size /\ x.b = w.b /\ x.e = w.e
      /\ x.b < x.e /\ x.id = id
  BY <1>1, <1>3, <1>4 DEF Position
<1>6. \A s \in ps \cup was : s.id # x.id
  BY <1>1, <1>2, <1>5
<1>7. ps \cup {x} \in Wells
  <2>1. IsFiniteSet({x})
    BY FS_Singleton
  <2>2. QED BY <1>5, <1>6, <2>1, MoreOK
<1>8. QED BY <1>5, <1>6, <1>7 DEF x

\* Whatever lands, the orders stay well formed, and only what is cancelled goes.
LEMMA LandsOK ==
  ASSUME NEW was \in Wells, NEW ps \in Wells, NEW B, NEW op \in Ops(B)
  PROVE  /\ Lands(was, ps, op) \in Wells
         /\ IdsOf(ps) \ (IF op.kind = "cancel" THEN {op.slot} ELSE {}) \subseteq IdsOf(Lands(was, ps, op))
<1>0. /\ op.kind = "size" => Lands(was, ps, op) = Resized(ps, op.slot, op.size)
      /\ op.kind = "times" => Lands(was, ps, op) = Retimed(ps, {op.slot}, op.w)
      /\ op.kind = "cancel" => Lands(was, ps, op) = Cancelled(ps, op.slot)
      /\ op.kind = "add" => Lands(was, ps, op) = ps \cup {NewRow(was, ps, op.at, op.position, op.w)}
  <2>1. Landing(Lands(was, ps, op), was, ps, op)
    BY LandsIs
  <2>2. QED BY <2>1 DEF Landing
<1>1. CASE op \in SizeOps(B)
  <2>1. op.kind = "size" /\ op.size \in Nat \ {0}
    BY <1>1 DEF SizeOps
  <2>2. QED BY <1>0, <2>1, ResizedOK
<1>2. CASE op \in TimesOps(B)
  <2>1. op.kind = "times" /\ op.w \in Win
    BY <1>2 DEF TimesOps
  <2>2. QED BY <1>0, <2>1, RetimedOK
<1>3. CASE op \in CancelOps(B)
  <2>1. op.kind = "cancel"
    BY <1>3 DEF CancelOps
  <2>2. Lands(was, ps, op) = Cancelled(ps, op.slot)
    BY <1>0, <2>1
  <2>3. Cancelled(ps, op.slot) \in Wells
    BY BookSized DEF Wells, Cancelled
  <2>4. QED BY <2>1, <2>2, <2>3 DEF IdsOf, Cancelled
<1>4. CASE op \in AddOps
  <2>1. op.kind = "add" /\ op.at \in Home /\ op.position \in PositionRow /\ op.w \in Win
    BY <1>4 DEF AddOps
  <2>2. Lands(was, ps, op) = ps \cup {NewRow(was, ps, op.at, op.position, op.w)}
    BY <1>0, <2>1
  <2>3. ps \cup {NewRow(was, ps, op.at, op.position, op.w)} \in Wells
    BY <2>1, NewRowIs
  <2>4. QED BY <2>1, <2>2, <2>3 DEF IdsOf
<1>5. CASE op \in ShiftOps
  <2>1. op.kind = "shift" /\ op.w \in Win
    BY <1>5 DEF ShiftOps
  <2>2. PICK N : NewShift(N, was, ps, op) /\ Lands(was, ps, op) = ps \cup N
    BY <1>5, ShiftLands
  <2>3. ps \cup N \in Wells /\ IdsOf(ps) \subseteq IdsOf(ps \cup N)
    <3>1. op.w.b < op.w.e
      BY <2>1 DEF Win
    <3>2. QED BY <2>2, <3>1, MoreOK DEF NewShift
  <2>4. QED BY <2>1, <2>2, <2>3
<1>6. QED BY <1>1, <1>2, <1>3, <1>4, <1>5 DEF Ops, SlotOps
-----------------------------------------------------------------------------
(* A change of people lands. *)

OutOf(ps, t) == ps \ Of(ps, t)

\* The same positions, whatever their hours.
SameRow(s, u) == u.id = s.id /\ u.kind = s.kind /\ u.size = s.size
AlikeRows(S, T) == (\A s \in S : \E u \in T : SameRow(s, u)) /\ \A u \in T : \E s \in S : SameRow(s, u)

LEMMA AlikePeople ==
  ASSUME NEW B \in Wells, NEW C \in Wells, NEW S, S \subseteq B, NEW T, T \subseteq C, AlikeRows(S, T)
  PROVE  People(S) = People(T)
<1> DEFINE g == [s \in S |-> CHOOSE u \in T : SameRow(s, u)]
<1>1. \A s \in S : g[s] \in T /\ SameRow(s, g[s])
  BY DEF AlikeRows
<1>2. /\ \A s, u \in S : s.id = u.id => s = u
      /\ \A s, u \in T : s.id = u.id => s = u
  BY DEF Wells, WellFormed
<1> HIDE DEF g
<1>3. Sized(S)
  BY BookSized DEF Wells
<1>4. /\ \A s \in S : g[s].size = s.size
      /\ \A x, y \in S : g[x] = g[y] => x = y
  BY <1>1, <1>2 DEF SameRow
<1>5. {g[s] : s \in S} = T
  <2>1. \A u \in T : \E s \in S : g[s] = u
    <3> SUFFICES ASSUME NEW u \in T PROVE \E s \in S : g[s] = u
      OBVIOUS
    <3>1. PICK s \in S : SameRow(s, u)
      BY DEF AlikeRows
    <3>2. g[s] = u
      BY <1>1, <1>2, <3>1 DEF SameRow
    <3>3. QED BY <3>2
  <2>2. QED BY <1>1, <2>1
<1>6. People({g[s] : s \in S}) = People(S)
  BY <1>3, <1>4, PeopleImage
<1>7. QED BY <1>5, <1>6

LEMMA AlikeKinds ==
  ASSUME NEW S, NEW T, AlikeRows(S, T), NEW k
  PROVE  AlikeRows(OfKind(S, k), OfKind(T, k))
BY DEF AlikeRows, OfKind, SameRow

\* One position changed for another of its kind on its shift, gone, or new.
Swap(D, C, t, kind, R, A) ==
  /\ D = (C \ R) \cup A /\ R \subseteq OfKind(Of(C, t), kind)
  /\ \A x \in A : x.order = t.order /\ x.team = t.team /\ x.kind = kind

LEMMA Swapped ==
  ASSUME NEW C, NEW D, NEW t, NEW kind, NEW R, NEW A, Swap(D, C, t, kind, R, A)
  PROVE  /\ OutOf(D, t) = OutOf(C, t)
         /\ \A k \in Kind \ {kind} : OfKind(Of(D, t), k) = OfKind(Of(C, t), k)
         /\ OfKind(Of(D, t), kind) = (OfKind(Of(C, t), kind) \ R) \cup A
BY DEF Swap, OutOf, OfKind, Of

LEMMA ResizedIs ==
  ASSUME NEW C \in Wells, NEW u \in C, NEW n
  PROVE  /\ Resized(C, u.id, n) = (C \ {u}) \cup {[u EXCEPT !.size = n]}
         /\ Cancelled(C, u.id) = C \ {u}
<1>1. \A s \in C : s.id = u.id => s = u
  BY DEF Wells, WellFormed
<1>2. QED BY <1>1 DEF Resized, Cancelled

\* The people of one kind on a shift are one position's, and nothing else has changed.
Manned(D, C, t, kind, n, w) ==
  /\ OutOf(D, t) = OutOf(C, t)
  /\ \A k \in Kind \ {kind} : OfKind(Of(D, t), k) = OfKind(Of(C, t), k)
  /\ People(OfKind(Of(D, t), kind)) = n
  /\ \A x, y \in OfKind(Of(D, t), kind) : x = y
  /\ \A x \in OfKind(Of(D, t), kind) : (x.b = w.b /\ x.e = w.e) \/ \E u \in Of(C, t) : x.b = u.b /\ x.e = u.e

LEMMA ResizedManned ==
  ASSUME NEW C \in Wells, NEW t, NEW kind, NEW u, OfKind(Of(C, t), kind) = {u}, NEW n \in Nat \ {0}, NEW w
  PROVE  Manned(Resized(C, u.id, n), C, t, kind, n, w)
<1> DEFINE x == [u EXCEPT !.size = n]
           D == Resized(C, u.id, n)
<1>1. u \in C /\ u \in Of(C, t) /\ u.kind = kind /\ u.order = t.order /\ u.team = t.team
  BY DEF OfKind, Of
<1>2. u \in Position
  BY <1>1 DEF Wells
<1>3. x.size = n /\ x.kind = kind /\ x.order = t.order /\ x.team = t.team /\ x.b = u.b /\ x.e = u.e
  BY <1>1, <1>2 DEF Position
<1>4. D = (C \ {u}) \cup {x}
  BY <1>1, ResizedIs
<1> HIDE DEF D, x
<1>5. Swap(D, C, t, kind, {u}, {x})
  BY <1>3, <1>4 DEF Swap
<1>6. /\ OutOf(D, t) = OutOf(C, t)
      /\ \A k \in Kind \ {kind} : OfKind(Of(D, t), k) = OfKind(Of(C, t), k)
      /\ OfKind(Of(D, t), kind) = (OfKind(Of(C, t), kind) \ {u}) \cup {x}
  BY <1>5, Swapped
<1>7. OfKind(Of(D, t), kind) = {x}
  BY <1>6
<1>8. People({x}) = n
  BY <1>3, PeopleOne
<1>9. QED BY <1>1, <1>3, <1>6, <1>7, <1>8 DEF Manned, D

LEMMA CancelledManned ==
  ASSUME NEW C \in Wells, NEW t, NEW kind, NEW u, OfKind(Of(C, t), kind) = {u}, NEW w
  PROVE  Manned(Cancelled(C, u.id), C, t, kind, 0, w)
<1> DEFINE D == Cancelled(C, u.id)
<1>1. u \in C
  BY DEF OfKind, Of
<1>2. D = C \ {u}
  BY <1>1, ResizedIs
<1> HIDE DEF D
<1>3. Swap(D, C, t, kind, {u}, {})
  BY <1>2 DEF Swap
<1>4. /\ OutOf(D, t) = OutOf(C, t)
      /\ \A k \in Kind \ {kind} : OfKind(Of(D, t), k) = OfKind(Of(C, t), k)
      /\ OfKind(Of(D, t), kind) = (OfKind(Of(C, t), kind) \ {u}) \cup {}
  BY <1>3, Swapped
<1>5. OfKind(Of(D, t), kind) = {}
  BY <1>4
<1>6. QED BY <1>4, <1>5, PeopleNone DEF Manned, D

LEMMA AddedManned ==
  ASSUME NEW C, NEW t, NEW kind, OfKind(Of(C, t), kind) = {}, NEW x, NEW w,
         x.order = t.order, x.team = t.team, x.kind = kind, x.b = w.b, x.e = w.e, x.size \in Nat
  PROVE  Manned(C \cup {x}, C, t, kind, x.size, w)
<1> DEFINE D == C \cup {x}
<1>2. D = (C \ {}) \cup {x}
  OBVIOUS
<1> HIDE DEF D
<1>3. Swap(D, C, t, kind, {}, {x})
  BY <1>2 DEF Swap
<1>4. /\ OutOf(D, t) = OutOf(C, t)
      /\ \A k \in Kind \ {kind} : OfKind(Of(D, t), k) = OfKind(Of(C, t), k)
      /\ OfKind(Of(D, t), kind) = (OfKind(Of(C, t), kind) \ {}) \cup {x}
  BY <1>3, Swapped
<1>5. OfKind(Of(D, t), kind) = {x}
  BY <1>4
<1>6. People({x}) = x.size
  BY PeopleOne
<1>7. QED BY <1>4, <1>5, <1>6 DEF Manned, D

LEMMA SameManned ==
  ASSUME NEW C, NEW t, NEW kind, \A x, y \in OfKind(Of(C, t), kind) : x = y, NEW w
  PROVE  Manned(C, C, t, kind, People(OfKind(Of(C, t), kind)), w)
BY DEF Manned, OfKind
LEMMA LandsDo ==
  ASSUME NEW B \in Wells, NEW p \in Plans(B), NEW C \in Wells, Leads(B, p.ops, C), NEW op \in Ops(B)
  PROVE  Leads(B, Do(p, op).ops, Lands(B, C, op)) /\ Landing(Lands(B, C, op), B, C, op) /\ Lands(B, C, op) \in Wells
<1>1. p.ops \in Seq(Ops(B)) /\ Do(p, op).ops = Append(p.ops, op)
  BY PlanParts, DoOK
<1>2. Leads(B, Append(p.ops, op), Lands(B, C, op))
  BY <1>1, LeadsOne
<1>3. Landing(Lands(B, C, op), B, C, op)
  BY LandsIs
<1>4. Lands(B, C, op) \in Wells
  BY LandsOK
<1>5. QED BY <1>1, <1>2, <1>3, <1>4

\* The one position of a kind, as it stands after what landed before.
LEMMA OneAlike ==
  ASSUME NEW B \in Wells, NEW C \in Wells, NEW S, S \subseteq B, NEW T, T \subseteq C, AlikeRows(S, T), NEW s \in S, \A x, y \in S : x = y
  PROVE  \E u \in T : T = {u} /\ SameRow(s, u)
<1>1. PICK u \in T : SameRow(s, u)
  BY DEF AlikeRows
<1>2. \A x \in T : SameRow(s, x)
  BY DEF AlikeRows
<1>3. \A x, y \in T : x.id = y.id => x = y
  BY DEF Wells, WellFormed
<1>4. QED BY <1>1, <1>2, <1>3 DEF SameRow

LEMMA ChiefLands ==
  ASSUME NEW B \in Wells, NEW p \in Plans(B), NEW ps, ps \subseteq B, ps # {}, NEW t \in Home, NEW chiefs, chiefs \subseteq B,
         NEW want \in Nat, NEW C \in Wells, Leads(B, p.ops, C), AlikeRows(chiefs, OfKind(Of(C, t), "chief")), \A x, y \in chiefs : x = y
  PROVE  LET q == WithChiefs(p, ps, t, chiefs, want) IN
         /\ q.refused = p.refused /\ q.moved = p.moved
         /\ \E D \in Wells : Leads(B, q.ops, D) /\ Manned(D, C, t, "chief", want, HoursFor(p, ps, t))
<1> DEFINE q == WithChiefs(p, ps, t, chiefs, want)
           H == OfKind(Of(C, t), "chief")
           w == HoursFor(p, ps, t)
<1>0. WellFormed(B) /\ H \subseteq C /\ WellFormed(C)
  BY DEF Wells, OfKind, Of
<1>1. People(chiefs) = People(H)
  <2>1. AlikeRows(chiefs, H)
    OBVIOUS
  <2> HIDE DEF H
  <2>2. QED BY <1>0, <2>1, AlikePeople
<1>2. CASE want = People(chiefs)
  <2>1. q = p
    BY <1>2 DEF WithChiefs
  <2>2. \A x, y \in H : x = y
    <3>1. \A x, y \in H : x.id = y.id => x = y
      BY DEF OfKind, Of, Wells, WellFormed
    <3>2. \A x, y \in H : x.id = y.id
      <4> SUFFICES ASSUME NEW x \in H, NEW y \in H PROVE x.id = y.id
        OBVIOUS
      <4>1. PICK s \in chiefs : SameRow(s, x)
        BY DEF AlikeRows
      <4>2. PICK v \in chiefs : SameRow(v, y)
        BY DEF AlikeRows
      <4>3. QED BY <4>1, <4>2 DEF SameRow
    <3>3. QED BY <3>1, <3>2
  <2>3. Manned(C, C, t, "chief", People(H), w)
    BY <2>2, SameManned
  <2>4. QED BY <1>1, <1>2, <2>1, <2>3
<1>3. CASE want # People(chiefs) /\ chiefs = {}
  <2> DEFINE op == AddPosition(t, "chief", want, w)
  <2>1. q = Do(p, op)
    BY <1>3 DEF WithChiefs
  <2>2. want \in Nat \ {0}
    BY <1>3, PeopleNone
  <2>3. w \in Win
    BY <1>0, HoursForWin
  <2>31. "chief" \in Kind
    BY DEF Kind
  <2>4. op \in Ops(B)
    <3> HIDE DEF op, w
    <3>1. AddPosition(t, "chief", want, w) \in Ops(B)
      BY <2>2, <2>3, <2>31, AddOK
    <3>2. QED BY <3>1 DEF op
  <2>5. op.kind = "add" /\ op.at = t /\ op.position = [kind |-> "chief", size |-> want] /\ op.w = w
    BY DEF AddPosition
  <2> DEFINE x == NewRow(B, C, t, [kind |-> "chief", size |-> want], w)
  <2>6. Leads(B, q.ops, C \cup {x}) /\ C \cup {x} \in Wells /\ q.refused = p.refused /\ q.moved = p.moved
    <3> HIDE DEF op, x
    <3>1. Leads(B, Do(p, op).ops, Lands(B, C, op)) /\ Landing(Lands(B, C, op), B, C, op) /\ Lands(B, C, op) \in Wells
      BY <2>4, LandsDo
    <3>2. Lands(B, C, op) = C \cup {x}
      BY <2>5, <3>1 DEF Landing, x
    <3>3. Do(p, op).refused = p.refused /\ Do(p, op).moved = p.moved
      BY <2>4, DoOK
    <3>4. QED BY <2>1, <3>1, <3>2, <3>3
  <2>7. x.order = t.order /\ x.team = t.team /\ x.kind = "chief" /\ x.size = want /\ x.b = w.b /\ x.e = w.e
    BY DEF NewRow
  <2>8. H = {}
    BY <1>3 DEF AlikeRows
  <2> HIDE DEF x
  <2>9. Manned(C \cup {x}, C, t, "chief", want, w)
    <3>1. x.size \in Nat
      BY <2>7
    <3>2. Manned(C \cup {x}, C, t, "chief", x.size, w)
      BY <2>7, <2>8, <3>1, AddedManned
    <3>3. QED BY <2>7, <3>2
  <2>10. QED BY <2>6, <2>9
<1>4. CASE want # People(chiefs) /\ chiefs # {}
  <2> DEFINE h == First(chiefs)
  <2>1. h \in chiefs /\ h \in B
    BY <1>0, <1>4, FirstIs
  <2>2. PICK u \in H : H = {u} /\ SameRow(h, u)
    <3> HIDE DEF H, h
    <3>1. QED BY <1>0, <2>1, OneAlike DEF H
  <2> HIDE DEF h
  <2>3. u.id = h.id
    BY <2>2 DEF SameRow
  <2>4. CASE want = 0
    <3> DEFINE op == CancelPosition(h)
    <3>1. q = Do(p, op)
      BY <1>4, <2>4 DEF WithChiefs, h
    <3>2. op \in Ops(B)
      BY <1>0, <2>1, OpsOK
    <3>3. op.kind = "cancel" /\ op.slot = u.id
      BY <2>3 DEF CancelPosition
    <3> HIDE DEF op
    <3>4. Leads(B, q.ops, Lands(B, C, op)) /\ Landing(Lands(B, C, op), B, C, op) /\ Lands(B, C, op) \in Wells
      BY <3>1, <3>2, LandsDo
    <3>5. Lands(B, C, op) = Cancelled(C, u.id)
      BY <3>3, <3>4 DEF Landing
    <3>6. Manned(Cancelled(C, u.id), C, t, "chief", 0, w)
      BY <2>2, CancelledManned
    <3>7. q.refused = p.refused /\ q.moved = p.moved
      BY <3>1, <3>2, DoOK
    <3>8. QED BY <2>4, <3>4, <3>5, <3>6, <3>7
  <2>5. CASE want # 0
    <3> DEFINE op == SetSize(h, want)
    <3>1. q = Do(p, op)
      BY <1>4, <2>5 DEF WithChiefs, h
    <3>2. op \in Ops(B)
      BY <1>0, <2>1, <2>5, OpsOK
    <3>3. op.kind = "size" /\ op.slot = u.id /\ op.size = want
      BY <2>3 DEF SetSize
    <3> HIDE DEF op
    <3>4. Leads(B, q.ops, Lands(B, C, op)) /\ Landing(Lands(B, C, op), B, C, op) /\ Lands(B, C, op) \in Wells
      BY <3>1, <3>2, LandsDo
    <3>5. Lands(B, C, op) = Resized(C, u.id, want)
      BY <3>3, <3>4 DEF Landing
    <3>6. Manned(Resized(C, u.id, want), C, t, "chief", want, w)
      BY <2>2, <2>5, ResizedManned
    <3>7. q.refused = p.refused /\ q.moved = p.moved
      BY <3>1, <3>2, DoOK
    <3>8. QED BY <3>4, <3>5, <3>6, <3>7
  <2>6. QED BY <2>4, <2>5
<1>5. QED BY <1>2, <1>3, <1>4
\* A plan, of which only this has landed since C: the people of one kind on a shift.
Staffs(q, p, B, C, t, kind, n, w) ==
  /\ q.refused = p.refused /\ q.moved = p.moved
  /\ \E D \in Wells : Leads(B, q.ops, D) /\ Manned(D, C, t, kind, n, w)

LEMMA ResizeLands ==
  ASSUME NEW B \in Wells, NEW p \in Plans(B), NEW s \in B, NEW n \in Int, ~Resize(p, s, n).refused,
         NEW t, NEW kind, NEW C \in Wells, Leads(B, p.ops, C), NEW u, OfKind(Of(C, t), kind) = {u}, SameRow(s, u), NEW w
  PROVE  Staffs(Resize(p, s, n), p, B, C, t, kind, n, w) /\ n \in Nat \ {0}
<1> DEFINE q == Resize(p, s, n)
<1>0. WellFormed(B)
  BY DEF Wells
<1>1. n \in Nat \ {0}
  <2>1. ~(n < 1)
    BY RefusedOK DEF Resize
  <2>2. QED BY <2>1
<1>2. u.id = s.id /\ u.size = s.size
  BY DEF SameRow
<1>3. CASE n = s.size
  <2>1. q = p
    BY <1>1, <1>3 DEF Resize
  <2>2. People(OfKind(Of(C, t), kind)) = n
    BY <1>1, <1>2, <1>3, PeopleOne
  <2>3. Manned(C, C, t, kind, People(OfKind(Of(C, t), kind)), w)
    BY SameManned
  <2>4. QED BY <1>1, <2>1, <2>2, <2>3 DEF Staffs
<1>4. CASE n # s.size
  <2> DEFINE op == SetSize(s, n)
  <2>1. q = Do(p, op)
    BY <1>1, <1>4 DEF Resize
  <2>2. op \in Ops(B)
    BY <1>0, <1>1, OpsOK
  <2>3. op.kind = "size" /\ op.slot = u.id /\ op.size = n
    BY <1>2 DEF SetSize
  <2> HIDE DEF op
  <2>4. Leads(B, q.ops, Lands(B, C, op)) /\ Landing(Lands(B, C, op), B, C, op) /\ Lands(B, C, op) \in Wells
    BY <2>1, <2>2, LandsDo
  <2>5. Lands(B, C, op) = Resized(C, u.id, n)
    BY <2>3, <2>4 DEF Landing
  <2>6. Manned(Resized(C, u.id, n), C, t, kind, n, w)
    BY <1>1, ResizedManned
  <2>7. q.refused = p.refused /\ q.moved = p.moved
    BY <2>1, <2>2, DoOK
  <2>8. QED BY <1>1, <2>1, <2>4, <2>5, <2>6, <2>7 DEF Staffs
<1>5. QED BY <1>3, <1>4

-----------------------------------------------------------------------------
(* A crew change on a shift of one crew position and at most one chief position. *)

OneOfEach(ps) == \A s, u \in ps : s.kind = u.kind /\ s.kind # "trade" => s = u
PlainOf(ps) == OfKind(ps, "chief") \cup OfKind(ps, "crew")
Others(ps) == People(OfKind(ps, "trade"))
TotalOn(ps, r) == Total(r, People(PlainOf(ps)))
WantOn(ps, r) == ChiefsFor(TotalOn(ps, r) + Others(ps), r.chief \/ (OfKind(ps, "chief") # {} /\ People(PlainOf(ps)) + Others(ps) < 4))

LEMMA KindsApart ==
  ASSUME NEW B \in Wells, NEW ps, ps \subseteq B
  PROVE  /\ Sized(PlainOf(ps)) /\ Sized(OfKind(ps, "trade")) /\ Sized(OfKind(ps, "chief")) /\ Sized(OfKind(ps, "crew"))
         /\ ps = PlainOf(ps) \cup OfKind(ps, "trade") /\ ps \ PlainOf(ps) = OfKind(ps, "trade")
         /\ People(ps) = People(PlainOf(ps)) + Others(ps)
         /\ People(PlainOf(ps)) = People(OfKind(ps, "chief")) + People(OfKind(ps, "crew"))
         /\ People(PlainOf(ps)) \in Nat /\ Others(ps) \in Nat
<1>1. WellFormed(B) /\ PlainOf(ps) \subseteq B /\ \A k : OfKind(ps, k) \subseteq B
  BY DEF Wells, PlainOf, OfKind
<1>2. Sized(PlainOf(ps)) /\ \A k : Sized(OfKind(ps, k))
  BY <1>1, BookSized
<1>3. \A s \in ps : s.kind \in {"chief", "crew", "trade"}
  BY <1>1, PositionType DEF Kind
<1>4. ps = PlainOf(ps) \cup OfKind(ps, "trade") /\ ps \ PlainOf(ps) = OfKind(ps, "trade") /\ PlainOf(ps) \cap OfKind(ps, "trade") = {}
  BY <1>3 DEF PlainOf, OfKind
<1>5. OfKind(ps, "chief") \cap OfKind(ps, "crew") = {}
  BY DEF OfKind
<1>6. People(PlainOf(ps)) = People(OfKind(ps, "chief")) + People(OfKind(ps, "crew"))
  BY <1>2, <1>5, PeopleUnion DEF PlainOf
<1> DEFINE a == PlainOf(ps)
           c == OfKind(ps, "trade")
<1> HIDE DEF a, c
<1>7. People(a \cup c) = People(a) + People(c)
  BY <1>2, <1>4, PeopleUnion DEF a, c
<1>8. QED BY <1>2, <1>4, <1>6, <1>7, PeopleNat DEF a, c, Others

LEMMA CrewIs ==
  ASSUME NEW B \in Wells, NEW p \in Plans(B), NEW ps, ps \subseteq B, ps # {}, OneOfEach(ps), NEW t \in Home, NEW r \in Ask,
         ~ChangeCrew(p, ps, t, r).refused
  PROVE  /\ \E k \in B : /\ OfKind(ps, "crew") = {k}
                         /\ ChangeCrew(p, ps, t, r) =
                              Resize(WithChiefs(p, ps, t, OfKind(ps, "chief"), WantOn(ps, r)), k, TotalOn(ps, r) - WantOn(ps, r))
         /\ TotalOn(ps, r) \in Int /\ WantOn(ps, r) \in Nat
<1> DEFINE chiefs == OfKind(ps, "chief")
           crews == OfKind(ps, "crew")
           k == Largest(crews)
           taken == chiefs \cup {k}
<1>0. WellFormed(B) /\ chiefs \subseteq B /\ crews \subseteq B
  BY DEF Wells, OfKind
<1>1. crews # {}
  BY RefusedOK DEF ChangeCrew
<1>2. k \in crews
  BY <1>0, <1>1, LargestIs
<1>3. crews = {k}
  <2>1. \A x, y \in crews : x = y
    BY DEF OneOfEach, OfKind
  <2> HIDE DEF crews, k
  <2>2. QED BY <1>2, <2>1
<1>4. taken = PlainOf(ps) /\ ps \ taken = OfKind(ps, "trade")
  <2>1. taken = PlainOf(ps)
    BY <1>3 DEF PlainOf
  <2>2. ps \ PlainOf(ps) = OfKind(ps, "trade")
    BY KindsApart
  <2> HIDE DEF taken
  <2>3. QED BY <2>1, <2>2
<1> HIDE DEF k, crews
<1>5. ChangeCrew(p, ps, t, r) = ChangeCrewOf(p, ps, t, r, chiefs, k, People(PlainOf(ps)), TotalOn(ps, r), Others(ps))
  BY <1>1, <1>4 DEF ChangeCrew, k, crews, TotalOn, Others
<1>6. ~(Cardinality(chiefs) > 1)
  <2>1. \A x, y \in chiefs : x = y
    BY DEF OneOfEach, OfKind
  <2>2. chiefs = {} \/ \E x : chiefs = {x}
    BY <2>1
  <2> HIDE DEF chiefs
  <2>3. Cardinality(chiefs) = 0 \/ Cardinality(chiefs) = 1
    BY <2>2, FS_EmptySet, FS_Singleton
  <2>4. QED BY <2>3
<1>7. ChangeCrew(p, ps, t, r) = Resize(WithChiefs(p, ps, t, chiefs, WantOn(ps, r)), k, TotalOn(ps, r) - WantOn(ps, r))
  BY <1>5, <1>6, RefusedOK DEF ChangeCrewOf, WantOn
<1>8. k \in B
  BY <1>0, <1>2 DEF crews
<1>9. People(PlainOf(ps)) \in Nat /\ Others(ps) \in Nat
  BY KindsApart
<1>10. TotalOn(ps, r) \in Int
  BY <1>9, AskParts DEF TotalOn, Total
<1>11. WantOn(ps, r) \in Nat
  <2> DEFINE asked == r.chief \/ (OfKind(ps, "chief") # {} /\ People(PlainOf(ps)) + Others(ps) < 4)
  <2>1. asked \in BOOLEAN
    BY AskParts
  <2>2. WantOn(ps, r) = ChiefsFor(TotalOn(ps, r) + Others(ps), asked)
    BY DEF WantOn
  <2> HIDE DEF asked
  <2>3. TotalOn(ps, r) + Others(ps) \in Int
    BY <1>9, <1>10
  <2>4. QED BY <2>1, <2>2, <2>3, ChiefsForNat
<1>12. QED BY <1>3, <1>7, <1>8, <1>10, <1>11 DEF crews

\* The shift has the people asked, its chiefs among them, and its trades as before; all else is as it was.
CrewDone(D, C, t, total, want, w) ==
  /\ OutOf(D, t) = OutOf(C, t)
  /\ OfKind(Of(D, t), "trade") = OfKind(Of(C, t), "trade")
  /\ People(OfKind(Of(D, t), "chief")) = want
  /\ People(PlainOf(Of(D, t))) = total
  /\ OneOfEach(Of(D, t)) /\ OfKind(Of(D, t), "crew") # {}
  /\ \A x \in Of(D, t) : (x.b = w.b /\ x.e = w.e) \/ \E u \in Of(C, t) : x.b = u.b /\ x.e = u.e

LEMMA MannedTwice ==
  ASSUME NEW C \in Wells, NEW C1 \in Wells, NEW D \in Wells, NEW t, NEW w, NEW want \in Nat, NEW n \in Nat \ {0},
         Manned(C1, C, t, "chief", want, w), Manned(D, C1, t, "crew", n, w)
  PROVE  CrewDone(D, C, t, want + n, want, w)
<1> DEFINE d == Of(D, t)
           c1 == Of(C1, t)
           c == Of(C, t)
<1>0. {"chief", "crew", "trade"} = Kind /\ d \subseteq D /\ c1 \subseteq C1
  BY DEF Kind, Of
<1>1. /\ OutOf(C1, t) = OutOf(C, t) /\ OfKind(c1, "trade") = OfKind(c, "trade") /\ OfKind(c1, "crew") = OfKind(c, "crew")
      /\ People(OfKind(c1, "chief")) = want /\ \A x, y \in OfKind(c1, "chief") : x = y
      /\ \A x \in OfKind(c1, "chief") : (x.b = w.b /\ x.e = w.e) \/ \E u \in c : x.b = u.b /\ x.e = u.e
  BY <1>0 DEF Manned
<1>2. /\ OutOf(D, t) = OutOf(C1, t) /\ OfKind(d, "trade") = OfKind(c1, "trade") /\ OfKind(d, "chief") = OfKind(c1, "chief")
      /\ People(OfKind(d, "crew")) = n /\ \A x, y \in OfKind(d, "crew") : x = y
      /\ \A x \in OfKind(d, "crew") : (x.b = w.b /\ x.e = w.e) \/ \E u \in c1 : x.b = u.b /\ x.e = u.e
  BY <1>0 DEF Manned
<1>3. People(PlainOf(d)) = want + n
  <2>1. People(PlainOf(d)) = People(OfKind(d, "chief")) + People(OfKind(d, "crew"))
    BY <1>0, KindsApart
  <2>2. QED BY <1>1, <1>2, <2>1
<1>4. OfKind(d, "crew") # {}
  BY <1>2, PeopleNone
<1>5. \A x \in D : x.kind \in Kind
  BY DEF Wells, Position
<1>6. \A x \in C1 : x.kind \in Kind
  BY DEF Wells, Position
<1>7. \A ps : \A x \in ps : x \in OfKind(ps, x.kind)
  BY DEF OfKind
<1>8. \A k : OfKind(c, k) \subseteq c /\ OfKind(c1, k) \subseteq c1
  BY DEF OfKind
<1> HIDE DEF d, c1, c
<1>9. OneOfEach(d)
  <2> SUFFICES ASSUME NEW s \in d, NEW u \in d, s.kind = u.kind, s.kind # "trade" PROVE s = u
    BY DEF OneOfEach
  <2>1. s.kind \in Kind /\ s \in OfKind(d, s.kind) /\ u \in OfKind(d, s.kind)
    BY <1>0, <1>5, <1>7
  <2>2. s.kind = "chief" \/ s.kind = "crew"
    BY <1>0, <2>1
  <2>3. QED BY <1>1, <1>2, <2>1, <2>2
<1>10. \A x \in c1 : (x.b = w.b /\ x.e = w.e) \/ \E u \in c : x.b = u.b /\ x.e = u.e
  <2> SUFFICES ASSUME NEW x \in c1 PROVE (x.b = w.b /\ x.e = w.e) \/ \E u \in c : x.b = u.b /\ x.e = u.e
    OBVIOUS
  <2>1. x.kind \in Kind /\ x \in OfKind(c1, x.kind)
    BY <1>0, <1>6, <1>7
  <2>2. CASE x.kind = "chief"
    BY <1>1, <2>1, <2>2
  <2>3. CASE x.kind # "chief"
    <3>1. x \in c
      BY <1>0, <1>1, <1>8, <2>1, <2>3
    <3>2. QED BY <3>1
  <2>4. QED BY <2>2, <2>3
<1>11. \A x \in d : (x.b = w.b /\ x.e = w.e) \/ \E u \in c : x.b = u.b /\ x.e = u.e
  <2> SUFFICES ASSUME NEW x \in d PROVE (x.b = w.b /\ x.e = w.e) \/ \E u \in c : x.b = u.b /\ x.e = u.e
    OBVIOUS
  <2>1. x.kind \in Kind /\ x \in OfKind(d, x.kind)
    BY <1>0, <1>5, <1>7
  <2>2. CASE x.kind = "crew"
    <3>1. (x.b = w.b /\ x.e = w.e) \/ \E u \in c1 : x.b = u.b /\ x.e = u.e
      BY <1>2, <2>1, <2>2
    <3>2. QED BY <1>10, <3>1
  <2>3. CASE x.kind # "crew"
    <3>1. x \in c1
      BY <1>0, <1>2, <1>8, <2>1, <2>3
    <3>2. QED BY <1>10, <3>1
  <2>4. QED BY <2>2, <2>3
<1>12. QED BY <1>1, <1>2, <1>3, <1>4, <1>9, <1>11 DEF CrewDone, d, c1, c

\* A change of crew that is not refused leaves, once its operations are in, the people it asks.
LEMMA CrewLands ==
  ASSUME NEW B \in Wells, NEW p \in Plans(B), NEW ps, ps \subseteq B, ps # {}, OneOfEach(ps), NEW t \in Home, NEW r \in Ask,
         ~ChangeCrew(p, ps, t, r).refused, NEW C \in Wells, Leads(B, p.ops, C), AlikeRows(ps, Of(C, t))
  PROVE  LET q == ChangeCrew(p, ps, t, r) IN
         /\ ~p.refused /\ q.moved = p.moved
         /\ TotalOn(ps, r) \in Nat
         /\ \E D \in Wells : Leads(B, q.ops, D) /\ CrewDone(D, C, t, TotalOn(ps, r), WantOn(ps, r), HoursFor(p, ps, t))
<1> DEFINE q == ChangeCrew(p, ps, t, r)
           total == TotalOn(ps, r)
           want == WantOn(ps, r)
           w == HoursFor(p, ps, t)
           chiefs == OfKind(ps, "chief")
           crews == OfKind(ps, "crew")
           p1 == WithChiefs(p, ps, t, chiefs, want)
<1>1. PICK k \in B : crews = {k} /\ q = Resize(p1, k, total - want)
  BY CrewIs
<1>2. total \in Int /\ want \in Nat
  BY CrewIs
<1>3. /\ WellFormed(B) /\ chiefs \subseteq B /\ crews \subseteq B
      /\ \A kind : AlikeRows(OfKind(ps, kind), OfKind(Of(C, t), kind))
      /\ \A x, y \in chiefs : x = y
      /\ \A kind : \A X : OfKind(Of(X, t), kind) \subseteq X
  <2>1. \A kind : AlikeRows(OfKind(ps, kind), OfKind(Of(C, t), kind))
    BY AlikeKinds
  <2>2. QED BY <2>1 DEF Wells, OfKind, OneOfEach, Of
<1> HIDE DEF want, total, q
<1>4. /\ p1.refused = p.refused /\ p1.moved = p.moved
      /\ \E D \in Wells : Leads(B, p1.ops, D) /\ Manned(D, C, t, "chief", want, w)
  <2> HIDE DEF chiefs
  <2>1. AlikeRows(chiefs, OfKind(Of(C, t), "chief"))
    BY <1>3 DEF chiefs
  <2>2. QED BY <1>2, <1>3, <2>1, ChiefLands
<1>5. PICK C1 \in Wells : Leads(B, p1.ops, C1) /\ Manned(C1, C, t, "chief", want, w)
  BY <1>4
<1>6. p1 \in Plans(B)
  BY <1>2, <1>3, WithChiefsOK
<1> HIDE DEF p1, w
<1>7. OfKind(Of(C1, t), "crew") = OfKind(Of(C, t), "crew")
  <2>1. "crew" \in Kind \ {"chief"}
    BY DEF Kind
  <2>2. QED BY <1>5, <2>1 DEF Manned
<1>8. PICK u \in OfKind(Of(C1, t), "crew") : OfKind(Of(C1, t), "crew") = {u} /\ SameRow(k, u)
  <2>1. AlikeRows(crews, OfKind(Of(C1, t), "crew")) /\ k \in crews /\ \A x, y \in crews : x = y
    BY <1>1, <1>3, <1>7
  <2>2. OfKind(Of(C1, t), "crew") \subseteq C1
    BY <1>3
  <2> HIDE DEF crews
  <2>3. QED BY <1>3, <2>1, <2>2, OneAlike
<1>9. total - want \in Int
  BY <1>2
<1>10. /\ ~p1.refused /\ q.moved = p1.moved /\ total - want \in Nat \ {0}
       /\ \E D \in Wells : Leads(B, q.ops, D) /\ Manned(D, C1, t, "crew", total - want, w)
  <2>1. ~Resize(p1, k, total - want).refused
    BY <1>1 DEF q
  <2> DEFINE n == total - want
             q1 == Resize(p1, k, n)
  <2>2. n \in Int /\ ~Resize(p1, k, n).refused
    BY <1>9, <2>1
  <2> HIDE DEF n
  <2> HIDE DEF crews, chiefs
  <2>3. Staffs(Resize(p1, k, n), p1, B, C1, t, "crew", n, w) /\ n \in Nat \ {0}
    BY <1>1, <1>5, <1>6, <1>8, <2>2, ResizeLands
  <2>4. q = q1
    BY <1>1 DEF n
  <2> HIDE DEF q1
  <2>5. Staffs(q, p1, B, C1, t, "crew", n, w)
    BY <2>3, <2>4 DEF q1
  <2>6. ~q.refused
    BY <2>1, <2>4 DEF q
  <2>7. QED BY <2>3, <2>5, <2>6 DEF n, Staffs
<1>11. PICK D \in Wells : Leads(B, q.ops, D) /\ Manned(D, C1, t, "crew", total - want, w)
  BY <1>10
<1>12. CrewDone(D, C, t, want + (total - want), want, w)
  BY <1>2, <1>5, <1>10, <1>11, MannedTwice
<1>13. want + (total - want) = total /\ total \in Nat
  BY <1>2, <1>10
<1>14. QED BY <1>4, <1>10, <1>11, <1>12, <1>13 DEF want, total, q, w
-----------------------------------------------------------------------------
(* A change of times lands. *)

OneMore(C, ids, i, w) == Retimed(Retimed(C, ids, w), {i}, w) = Retimed(C, ids \cup {i}, w)
LEMMA RetimedTwice ==
  ASSUME NEW C \in Wells, NEW ids, NEW i, NEW w \in Win
  PROVE  OneMore(C, ids, i, w)
<1> DEFINE one(s) == IF s.id \in ids THEN [s EXCEPT !.b = w.b, !.e = w.e] ELSE s
           two(s) == IF s.id = i THEN [s EXCEPT !.b = w.b, !.e = w.e] ELSE s
           both(s) == IF s.id \in ids \cup {i} THEN [s EXCEPT !.b = w.b, !.e = w.e] ELSE s
<1>0. w.b \in Nat /\ w.e \in Nat
  BY DEF Win
<1>1. \A s \in C : two(one(s)) = both(s)
  <2> SUFFICES ASSUME NEW s \in C PROVE two(one(s)) = both(s)
    OBVIOUS
  <2>1. s \in Position
    BY DEF Wells
  <2> DEFINE x == [s EXCEPT !.b = w.b, !.e = w.e]
  <2>2. x.id = s.id /\ [x EXCEPT !.b = w.b, !.e = w.e] = x
    BY <1>0, <2>1 DEF Position
  <2> HIDE DEF x
  <2>3. CASE s.id \in ids
    <3>1. one(s) = x /\ both(s) = x
      BY <2>3 DEF x
    <3>2. two(x) = x
      BY <2>2
    <3>3. QED BY <3>1, <3>2
  <2>4. CASE s.id \notin ids
    BY <2>4
  <2>5. QED BY <2>3, <2>4
<1>2. Retimed(C, ids, w) = {one(s) : s \in C}
  BY DEF Retimed
<1>3. Retimed(Retimed(C, ids, w), {i}, w) = {two(x) : x \in Retimed(C, ids, w)}
  BY DEF Retimed
<1>4. Retimed(C, ids \cup {i}, w) = {both(s) : s \in C}
  BY DEF Retimed
<1> HIDE DEF one, two, both
<1>5. \A y : y \in Retimed(C, ids, w) <=> \E s \in C : y = one(s)
  BY <1>2
<1>6. \A y : y \in Retimed(Retimed(C, ids, w), {i}, w) <=> \E x \in Retimed(C, ids, w) : y = two(x)
  BY <1>3
<1>7. \A y : y \in Retimed(C, ids \cup {i}, w) <=> \E s \in C : y = both(s)
  BY <1>4
<1>8. \A y : y \in Retimed(Retimed(C, ids, w), {i}, w) <=> y \in Retimed(C, ids \cup {i}, w)
  <2> SUFFICES ASSUME NEW y PROVE y \in Retimed(Retimed(C, ids, w), {i}, w) <=> y \in Retimed(C, ids \cup {i}, w)
    OBVIOUS
  <2>1. y \in Retimed(Retimed(C, ids, w), {i}, w) <=> \E s \in C : y = two(one(s))
    BY <1>5, <1>6
  <2>2. y \in Retimed(C, ids \cup {i}, w) <=> \E s \in C : y = both(s)
    BY <1>7
  <2>3. QED BY <1>1, <2>1, <2>2
<1>9. QED BY <1>8 DEF OneMore

LEMMA RetimedNone == ASSUME NEW C, NEW w PROVE Retimed(C, {}, w) = C
BY DEF Retimed

\* The positions not at the hours yet.
LateFor(slots, w) == {s \in slots : s.b # w.b \/ s.e # w.e}
Moves(q, p, B, C, t, slots, w) ==
  /\ q.refused = p.refused /\ q.moved = p.moved \cup {[at |-> t, w |-> w]}
  /\ Leads(B, q.ops, Retimed(C, IdsOf(LateFor(slots, w)), w))

LEMMA MoveLands ==
  ASSUME NEW B \in Wells, NEW p \in Plans(B), NEW slots, slots \subseteq B, NEW t \in Shift, NEW w \in Win,
         NEW C \in Wells, Leads(B, p.ops, C), ~MoveLate(p, t, slots, w).refused
  PROVE  Moves(MoveLate(p, t, slots, w), p, B, C, t, slots, w)
<1> DEFINE late == LateFor(slots, w)
           l == ById(late)
           m == Cardinality(late)
           more == [i \in DOMAIN l |-> SetTimes(l[i], w)]
           p1 == DoAll(p, more)
           q == MoveLate(p, t, slots, w)
           ids(k) == {l[i].id : i \in 1..k}
<1>0. WellFormed(B) /\ late \subseteq B
  BY DEF Wells, LateFor
<1>1. /\ l \in [1..m -> late] /\ m \in Nat /\ DOMAIN l = 1..m
      /\ \A s \in late : \E i \in 1..m : l[i] = s
  <2> HIDE DEF late
  <2>1. QED BY <1>0, ByIdIs
<1> HIDE DEF late, l, m
<1>2. /\ more \in Seq(Ops(B)) /\ Len(more) = m
      /\ \A i \in 1..m : more[i].kind = "times" /\ more[i].slot = l[i].id /\ more[i].w = w /\ more[i] \in Ops(B)
  <2>1. \A i \in 1..m : l[i] \in B
    BY <1>0, <1>1
  <2>2. \A i \in 1..m : SetTimes(l[i], w) \in Ops(B)
    BY <1>0, <2>1, OpsOK
  <2>3. \A s : SetTimes(s, w).kind = "times" /\ SetTimes(s, w).slot = s.id /\ SetTimes(s, w).w = w
    BY DEF SetTimes
  <2>4. more \in [1..m -> Ops(B)] /\ \A i \in 1..m : more[i] = SetTimes(l[i], w)
    BY <1>1, <2>2
  <2> HIDE DEF more
  <2>5. more \in Seq(Ops(B)) /\ Len(more) = m
    BY <1>1, <2>4
  <2>6. QED BY <2>2, <2>3, <2>4, <2>5
<1>3. q = [p1 EXCEPT !.moved = @ \cup {[at |-> t, w |-> w]}]
  <2>1. q = Move(p, t, l, w)
    BY DEF MoveLate, l, late, LateFor
  <2>2. QED BY <2>1, RefusedOK DEF Move
<1> HIDE DEF more
<1>4. p1 \in Plans(B) /\ p1.ops = p.ops \o more /\ p1.refused = p.refused /\ p1.moved = p.moved
  BY <1>2, DoAllOK
<1> HIDE DEF p1, q
<1>5. q.ops = p1.ops /\ q.refused = p1.refused /\ q.moved = p1.moved \cup {[at |-> t, w |-> w]}
  BY <1>3, <1>4, PlanSet
<1> DEFINE I == [k \in 0..m |-> {Retimed(C, ids(k), w)}]
<1>6. C \in I[0]
  <2>1. ids(0) = {}
    OBVIOUS
  <2>2. 0 \in 0..m
    BY <1>1
  <2> HIDE DEF ids
  <2>3. QED BY <2>1, <2>2, RetimedNone
<1>7. \A k \in 1..Len(more) : \A D \in I[k - 1] : Lands(B, D, more[k]) \in I[k]
  <2> SUFFICES ASSUME NEW k \in 1..m, NEW D \in I[k - 1] PROVE Lands(B, D, more[k]) \in I[k]
    BY <1>2
  <2>1. k \in 0..m /\ k - 1 \in 0..m
    BY <1>1
  <2>2. ids(k) = ids(k - 1) \cup {l[k].id}
    <3>1. 1..k = (1..(k - 1)) \cup {k}
      BY <1>1
    <3>2. QED BY <3>1
  <2> HIDE DEF ids
  <2>3. D = Retimed(C, ids(k - 1), w)
    BY <2>1
  <2>4. Landing(Lands(B, D, more[k]), B, D, more[k])
    BY <1>2, LandsIs
  <2>5. Lands(B, D, more[k]) = Retimed(D, {l[k].id}, w)
    BY <1>2, <2>4 DEF Landing
  <2>6. Retimed(D, {l[k].id}, w) = Retimed(C, ids(k), w)
    <3>1. Retimed(Retimed(C, ids(k - 1), w), {l[k].id}, w) = Retimed(C, ids(k - 1) \cup {l[k].id}, w)
      <4>1. OneMore(C, ids(k - 1), l[k].id, w)
        BY RetimedTwice
      <4>2. QED BY <4>1 DEF OneMore
    <3>2. QED BY <2>2, <2>3, <3>1
  <2>7. QED BY <2>1, <2>5, <2>6
<1>8. ids(m) = IdsOf(late)
  BY <1>1 DEF IdsOf
<1>9. I[m] = {Retimed(C, IdsOf(late), w)}
  <2>1. m \in 0..m
    BY <1>1
  <2> HIDE DEF ids
  <2>2. QED BY <1>8, <2>1
<1> HIDE DEF I, ids
<1>10. \E D \in I[Len(more)] : Leads(B, p.ops \o more, D)
  <2>1. p.ops \in Seq(Ops(B))
    BY PlanParts
  <2>2. QED BY <1>2, <1>6, <1>7, <2>1, LeadsAll
<1>11. Leads(B, q.ops, Retimed(C, IdsOf(late), w))
  BY <1>2, <1>4, <1>5, <1>9, <1>10
<1>12. QED BY <1>4, <1>5, <1>11 DEF Moves, q, late
-----------------------------------------------------------------------------
(* One change lands. *)

About(ps, r) == IF r.shift # NoShift THEN {r.shift} ELSE Candidates(ps, r)

\* A change is on the one shift it is about.
ChangesOn(q, p, ps, t, r, B) ==
  /\ About(ps, r) = {t} /\ t \in Teams(ps)
  /\ \E p1 \in Plans(B) : /\ p1.ops = p.ops /\ p1.moved = p.moved /\ p1.refused = FALSE
                          /\ p.refused = FALSE /\ q = ChangeShift(p1, Of(ps, t), t, r)

LEMMA ChangeIs ==
  ASSUME NEW B, WellFormed(B), NEW p \in Plans(B), NEW ps, ps \subseteq B, NEW r \in Asks(ps), ~Change(ps, p, r).refused
  PROVE  \E t : ChangesOn(Change(ps, p, r), p, ps, t, r, B)
<1> DEFINE about == About(ps, r)
           no == p.refused \/ Cardinality(about) # 1 \/ \E t \in about : <<t, r.action>> \in p.asked
           t == CHOOSE x \in about : TRUE
           q == [p EXCEPT !.asked = @ \cup {<<t, r.action>>}]
<1>1. about \subseteq Teams(ps)
  BY CandidatesAre DEF Asks, About
<1>2. Change(ps, p, r) = IF no THEN Refused ELSE ChangeShift(q, Of(ps, t), t, r)
  BY DEF Change, ChangeAbout, About
<1>3. ~no
  BY <1>2, RefusedOK
<1>4. IsFiniteSet(about)
  <2>1. IsFiniteSet(Teams(ps))
    BY TeamsAre
  <2> HIDE DEF about
  <2>2. QED BY <1>1, <2>1, FS_Subset
<1>5. \E x : about = {x}
  <2> HIDE DEF about
  <2>1. QED BY <1>3, <1>4, FS_Singleton
<1>6. about = {t} /\ t \in Teams(ps)
  BY <1>1, <1>5
<1> HIDE DEF about, t
<1>7. t \in Shift /\ r.action \in Action
  BY <1>6, TeamsAre, AskParts DEF Asks
<1>8. q \in Plans(B) /\ q.ops = p.ops /\ q.refused = p.refused /\ q.moved = p.moved
  <2>1. <<t, r.action>> \in Shift \X Action
    BY <1>7
  <2>2. QED BY <2>1, AskedOK
<1> HIDE DEF q
<1>9. p.refused = FALSE
  BY <1>3, PlanParts
<1>10. ChangesOn(Change(ps, p, r), p, ps, t, r, B)
  BY <1>2, <1>3, <1>6, <1>8, <1>9 DEF ChangesOn, about
<1>11. QED BY <1>10

\* Where a change of crew leads.
CrewChanged(q, p, B, C, S, t, r) ==
  /\ q.moved = p.moved /\ TotalOn(S, r) \in Nat
  /\ \E D \in Wells : Leads(B, q.ops, D) /\ CrewDone(D, C, t, TotalOn(S, r), WantOn(S, r), HoursFor(p, S, t))

LEMMA CrewChangeLands ==
  ASSUME NEW B \in Wells, NEW p, NEW q, NEW ps, ps \subseteq B, NEW r \in Ask, NEW t, ChangesOn(q, p, ps, t, r, B),
         r.action = "change_crew", ~r.trade, ~q.refused, OneOfEach(Of(ps, t)),
         NEW C \in Wells, Leads(B, p.ops, C), AlikeRows(Of(ps, t), Of(C, t))
  PROVE  CrewChanged(q, p, B, C, Of(ps, t), t, r)
<1> DEFINE S == Of(ps, t)
<1>1. PICK p1 \in Plans(B) : p1.ops = p.ops /\ p1.moved = p.moved /\ q = ChangeShift(p1, S, t, r)
  BY DEF ChangesOn
<1>2. t \in Home /\ S # {} /\ S \subseteq B
  <2>1. WellFormed(B) /\ t \in Teams(ps)
    BY DEF Wells, ChangesOn
  <2>2. QED BY <2>1, TeamsAre
<1>3. q = IF OtherHours(S, r) THEN Refused ELSE ChangeCrew(p1, S, t, r)
  <2>1. OtherHours(S, r) \in BOOLEAN
    BY DEF OtherHours
  <2>2. QED BY <1>1, <2>1 DEF ChangeShift
<1>4. q = ChangeCrew(p1, S, t, r)
  BY <1>3, RefusedOK
<1>5. HoursFor(p1, S, t) = HoursFor(p, S, t)
  BY <1>1 DEF HoursFor
<1> HIDE DEF S
<1>6. OneOfEach(S) /\ AlikeRows(S, Of(C, t)) /\ Leads(B, p1.ops, C) /\ ~ChangeCrew(p1, S, t, r).refused
  BY <1>1, <1>4 DEF S
<1>7. /\ q.moved = p1.moved /\ TotalOn(S, r) \in Nat
      /\ \E D \in Wells : Leads(B, q.ops, D) /\ CrewDone(D, C, t, TotalOn(S, r), WantOn(S, r), HoursFor(p1, S, t))
  BY <1>2, <1>4, <1>6, CrewLands
<1>8. CrewChanged(q, p, B, C, S, t, r)
  BY <1>1, <1>5, <1>7 DEF CrewChanged
<1>9. QED BY <1>8 DEF S

\* Where a change of times leads.
TimesChanged(q, p, B, C, S, t, r) ==
  \E slots \in SUBSET S : \E w \in Win :
    /\ Moves(q, p, B, C, t, slots, w) /\ slots # {} /\ (~r.chief => slots = S)
    /\ w = ChangedHours(First(slots), IF r.to # Absent /\ r.to # r.day THEN r.to ELSE DayOf(First(S).b), r)

LEMMA TimesChangeLands ==
  ASSUME NEW B \in Wells, NEW p, NEW q, NEW ps, ps \subseteq B, NEW r \in Ask, NEW t, ChangesOn(q, p, ps, t, r, B),
         r.action = "change_times", ~r.trade, ~q.refused, NEW C \in Wells, Leads(B, p.ops, C)
  PROVE  TimesChanged(q, p, B, C, Of(ps, t), t, r)
<1> DEFINE S == Of(ps, t)
           slots == IF r.chief \/ r.trade THEN {s \in S : (r.chief /\ s.kind = "chief") \/ (r.trade /\ s.kind = "trade")} ELSE S
           day == IF r.to # Absent /\ r.to # r.day THEN r.to ELSE DayOf(First(S).b)
           w == ChangedHours(First(slots), day, r)
<1>0. WellFormed(B) /\ t \in Teams(ps)
  BY DEF Wells, ChangesOn
<1>1. PICK p1 \in Plans(B) : p1.ops = p.ops /\ p1.moved = p.moved /\ p1.refused = p.refused /\ q = ChangeShift(p1, S, t, r)
  BY DEF ChangesOn
<1>2. t \in Shift /\ S # {} /\ S \subseteq B
  BY <1>0, TeamsAre
<1>3. q = ChangeTimesOf(p1, slots, t, day, r)
  BY <1>1 DEF ChangeShift, ChangeTimes
<1>4. slots \subseteq S /\ (~r.chief => slots = S)
  OBVIOUS
<1>5. day \in Nat
  <2> HIDE DEF S
  <2>1. First(S).b \in Nat
    BY <1>0, <1>2, FirstIs, PositionType
  <2>2. DayOf(First(S).b) \in Nat
    BY <2>1 DEF DayOf
  <2>3. QED BY <2>2, AskParts
<1> HIDE DEF slots, S
<1>6. slots # {} /\ q = MoveLate(p1, t, slots, w)
  BY <1>3, RefusedOK DEF ChangeTimesOf
<1>7. slots \subseteq B
  BY <1>2, <1>4
<1>8. w \in Win
  <2>1. First(slots) \in B
    BY <1>0, <1>6, <1>7, FirstIs
  <2> HIDE DEF day
  <2>2. QED BY <1>0, <1>5, <2>1, ChangedHoursWin
<1> HIDE DEF w
<1>9. Moves(MoveLate(p1, t, slots, w), p1, B, C, t, slots, w)
  <2>1. Leads(B, p1.ops, C) /\ ~MoveLate(p1, t, slots, w).refused
    BY <1>1, <1>6
  <2>2. QED BY <1>2, <1>7, <1>8, <2>1, MoveLands
<1>10. Moves(q, p, B, C, t, slots, w)
  BY <1>1, <1>6, <1>9 DEF Moves
<1>11. slots \in SUBSET S
  BY <1>4
<1>12. TimesChanged(q, p, B, C, S, t, r)
  BY <1>4, <1>6, <1>8, <1>10, <1>11 DEF TimesChanged, w
<1>13. QED BY <1>12 DEF S
-----------------------------------------------------------------------------
(* An email of one change is followed. *)

ShiftRetimed(D, C, t, ids, w) ==
  /\ OutOf(D, t) = OutOf(C, t) /\ AlikeRows(Of(C, t), Of(D, t))
  /\ \A x \in Of(D, t) : IF x.id \in ids THEN x.b = w.b /\ x.e = w.e ELSE x \in Of(C, t)

LEMMA RetimedShift ==
  ASSUME NEW C \in Wells, NEW t, NEW ids, NEW w \in Win, \A s \in OutOf(C, t) : s.id \notin ids
  PROVE  ShiftRetimed(Retimed(C, ids, w), C, t, ids, w)
<1> DEFINE at(s) == IF s.id \in ids THEN [s EXCEPT !.b = w.b, !.e = w.e] ELSE s
           f == [s \in C |-> at(s)]
           D == Retimed(C, ids, w)
<1>1. \A s \in C : f[s] = at(s)
  OBVIOUS
<1>2. \A s \in C : /\ f[s].id = s.id /\ f[s].kind = s.kind /\ f[s].size = s.size /\ f[s].order = s.order /\ f[s].team = s.team
                   /\ IF s.id \in ids THEN f[s].b = w.b /\ f[s].e = w.e ELSE f[s] = s
  BY DEF Wells, Position
<1>3. \A x : x \in D <=> \E s \in C : x = f[s]
  BY <1>1 DEF Retimed
<1> HIDE DEF f, D
<1>4. Of(D, t) = {x \in D : x.order = t.order /\ x.team = t.team} /\ Of(C, t) = {x \in C : x.order = t.order /\ x.team = t.team}
  BY DEF Of
<1>5. \A s \in C : f[s] \in Of(D, t) <=> s \in Of(C, t)
  BY <1>2, <1>3, <1>4
<1>6. OutOf(D, t) = OutOf(C, t)
  <2>1. \A s \in OutOf(C, t) : f[s] = s /\ s \in C
    BY <1>2 DEF OutOf
  <2>2. \A x : x \in OutOf(D, t) <=> x \in OutOf(C, t)
    BY <1>3, <1>5, <2>1 DEF OutOf
  <2>3. QED BY <2>2
<1>7. AlikeRows(Of(C, t), Of(D, t))
  <2>1. \A s \in Of(C, t) : f[s] \in Of(D, t) /\ SameRow(s, f[s])
    BY <1>2, <1>4, <1>5 DEF SameRow
  <2>2. \A x \in Of(D, t) : \E s \in Of(C, t) : x = f[s]
    BY <1>3, <1>4, <1>5
  <2>3. \A x \in Of(D, t) : \E s \in Of(C, t) : SameRow(s, x)
    BY <2>1, <2>2
  <2>4. QED BY <2>1, <2>3 DEF AlikeRows
<1>8. \A x \in Of(D, t) : IF x.id \in ids THEN x.b = w.b /\ x.e = w.e ELSE x \in Of(C, t)
  <2> SUFFICES ASSUME NEW x \in Of(D, t) PROVE IF x.id \in ids THEN x.b = w.b /\ x.e = w.e ELSE x \in Of(C, t)
    OBVIOUS
  <2>1. PICK s \in C : x = f[s]
    BY <1>3, <1>4
  <2>2. s \in Of(C, t)
    BY <1>5, <2>1
  <2>3. QED BY <1>2, <2>1, <2>2
<1>9. QED BY <1>6, <1>7, <1>8 DEF ShiftRetimed, D

SameHours(ps) == \A s, u \in ps : s.b = u.b /\ s.e = u.e
PlainShift(ps) == OneOfEach(ps) /\ SameHours(ps)

\* A shift all of whose positions move works the new hours, whoever stood at them already.
LEMMA MovedShift ==
  ASSUME NEW B \in Wells, NEW t \in Home, NEW slots, slots \subseteq Of(B, t), NEW w \in Win
  PROVE  LET D == Retimed(B, IdsOf(LateFor(slots, w)), w) IN
         /\ D \in Wells /\ AlikeRows(Of(B, t), Of(D, t)) /\ OutOf(D, t) = OutOf(B, t)
         /\ slots = Of(B, t) => \A x \in Of(D, t) : x.b = w.b /\ x.e = w.e
<1> DEFINE ids == IdsOf(LateFor(slots, w))
           D == Retimed(B, ids, w)
<1>1. \A s, u \in B : s.id = u.id => s = u
  BY DEF Wells, WellFormed
<1>2. \A i : i \in ids <=> \E s \in slots : (s.b # w.b \/ s.e # w.e) /\ s.id = i
  BY DEF IdsOf, LateFor
<1>3. Of(B, t) \subseteq B
  BY DEF Of
<1>4. \A s \in OutOf(B, t) : s.id \notin ids
  BY <1>1, <1>2, <1>3 DEF OutOf
<1> HIDE DEF ids
<1>5. D \in Wells
  BY RetimedOK
<1>6. ShiftRetimed(D, B, t, ids, w)
  BY <1>4, RetimedShift
<1>7. ASSUME slots = Of(B, t), NEW x \in Of(D, t) PROVE x.b = w.b /\ x.e = w.e
  <2>1. CASE x.id \in ids
    BY <1>6, <2>1 DEF ShiftRetimed
  <2>2. CASE x.id \notin ids
    <3>1. x \in slots
      BY <1>6, <1>7, <2>2 DEF ShiftRetimed
    <3>2. QED BY <1>2, <2>2, <3>1
  <2>3. QED BY <2>1, <2>2
<1>8. QED BY <1>5, <1>6, <1>7 DEF ShiftRetimed, ids

\* One hour for all of them.
LEMMA HoursOne ==
  ASSUME NEW ps, ps # {}, NEW w, \A x \in ps : x.b = w.b /\ x.e = w.e
  PROVE  Cardinality({<<s.b, s.e>> : s \in ps}) = 1
<1>1. {<<s.b, s.e>> : s \in ps} = {<<w.b, w.e>>}
  OBVIOUS
<1>2. QED BY <1>1, FS_Singleton

\* CrewFollows, of the shift as it was and as it is.
Followed(was, is, r) ==
  /\ People(PlainOf(is)) = IF r.crew # 0 /\ (r.action = "change_crew" \/ r.set) THEN r.crew ELSE People(PlainOf(was)) + r.more - r.fewer
  /\ (r.action = "change_crew" \/ r.more # 0 \/ r.fewer # 0 \/ r.set) /\ People(is) >= 4 =>
         People(OfKind(is, "chief")) = 1 + People(is) \div 10
  /\ ~r.chief => Cardinality({<<s.b, s.e>> : s \in is}) = 1

FollowedBy(q, B, t, r) == \E D \in Wells : Leads(B, q.ops, D) /\ Followed(Of(B, t), Of(D, t), r)

\* The people after a change of crew: the total, and the chiefs of the rule.
LEMMA CrewDonePeople ==
  ASSUME NEW B \in Wells, NEW C \in Wells, NEW D \in Wells, NEW t, NEW S, S \subseteq B, AlikeRows(S, Of(C, t)), NEW r, NEW w,
         TotalOn(S, r) \in Nat, CrewDone(D, C, t, TotalOn(S, r), WantOn(S, r), w)
  PROVE  /\ People(PlainOf(Of(D, t))) = TotalOn(S, r)
         /\ People(Of(D, t)) = TotalOn(S, r) + Others(S) /\ Others(Of(D, t)) = Others(S)
         /\ People(OfKind(Of(D, t), "chief")) = WantOn(S, r)
         /\ People(Of(D, t)) >= 4 => People(OfKind(Of(D, t), "chief")) = 1 + People(Of(D, t)) \div 10
<1> DEFINE is == Of(D, t)
<1>0. is \subseteq D /\ Of(C, t) \subseteq C
  BY DEF Of
<1>1. /\ People(PlainOf(is)) = TotalOn(S, r) /\ People(OfKind(is, "chief")) = WantOn(S, r)
      /\ OfKind(is, "trade") = OfKind(Of(C, t), "trade")
  BY DEF CrewDone
<1>2. Others(is) = Others(S)
  <2>1. AlikeRows(OfKind(S, "trade"), OfKind(Of(C, t), "trade"))
    BY AlikeKinds
  <2>2. OfKind(S, "trade") \subseteq B /\ OfKind(Of(C, t), "trade") \subseteq C
    BY <1>0 DEF OfKind
  <2>3. People(OfKind(S, "trade")) = People(OfKind(Of(C, t), "trade"))
    BY <2>1, <2>2, AlikePeople
  <2>4. QED BY <1>1, <2>3 DEF Others
<1>3. People(is) = People(PlainOf(is)) + Others(is) /\ Others(is) \in Nat
  <2> HIDE DEF is
  <2>1. QED BY <1>0, KindsApart
<1>4. ASSUME People(is) >= 4 PROVE WantOn(S, r) = 1 + People(is) \div 10
  <2> DEFINE n == TotalOn(S, r) + Others(S)
             asked == r.chief \/ (OfKind(S, "chief") # {} /\ People(PlainOf(S)) + Others(S) < 4)
  <2>1. n \in Nat /\ n = People(is) /\ n >= 4
    BY <1>1, <1>2, <1>3, <1>4
  <2>2. WantOn(S, r) = ChiefsFor(n, asked)
    BY DEF WantOn
  <2> HIDE DEF n, asked
  <2>3. ChiefsFor(n, asked) = 1 + n \div 10
    BY <2>1 DEF ChiefsFor
  <2>4. QED BY <2>1, <2>2, <2>3
<1>5. QED BY <1>1, <1>2, <1>3, <1>4
LEMMA OnOrderOf ==
  ASSUME NEW B, WellFormed(B), NEW o \in Nat, NEW t \in Teams(OnOrder(B, o))
  PROVE  Of(OnOrder(B, o), t) = Of(B, t) /\ t \in Teams(B)
<1>1. CASE o = 0
  BY <1>1 DEF OnOrder
<1>2. CASE o # 0
  <2>1. OnOrder(B, o) = {s \in B : s.order = o}
    BY <1>2 DEF OnOrder
  <2>2. t.order = o /\ t \in Teams(B)
    BY <2>1 DEF Teams
  <2>3. QED BY <2>1, <2>2 DEF Of
<1>3. QED BY <1>1, <1>2

\* One change of times.
LEMMA TimesFollowed ==
  ASSUME NEW B \in Wells, NEW ps, ps \subseteq B, NEW r \in Ask, NEW t, NEW q, ChangesOn(q, NoPlan, ps, t, r, B), ~q.refused,
         r.action = "change_times", ~r.trade, r.more = 0, r.fewer = 0, ~r.set, Of(ps, t) = Of(B, t)
  PROVE  FollowedBy(q, B, t, r)
<1> DEFINE S == Of(B, t)
<1>1. WellFormed(B) /\ NoPlan.ops = <<>> /\ Leads(B, NoPlan.ops, B)
  BY RefusedOK, LeadsNone DEF Wells
<1>2. t \in Home /\ S # {} /\ S \subseteq B
  <2>1. t \in Teams(ps)
    BY DEF ChangesOn
  <2>2. QED BY <1>1, <2>1, TeamsAre
<1>3. TimesChanged(q, NoPlan, B, B, S, t, r)
  <2>1. TimesChanged(q, NoPlan, B, B, Of(ps, t), t, r)
    BY <1>1, TimesChangeLands
  <2>2. QED BY <2>1
<1>4. PICK slots \in SUBSET S, w \in Win : Moves(q, NoPlan, B, B, t, slots, w) /\ (~r.chief => slots = S)
  BY <1>3 DEF TimesChanged
<1> DEFINE D == Retimed(B, IdsOf(LateFor(slots, w)), w)
<1>5. Leads(B, q.ops, D)
  BY <1>4 DEF Moves
<1>6. /\ D \in Wells /\ AlikeRows(S, Of(D, t))
      /\ slots = S => \A x \in Of(D, t) : x.b = w.b /\ x.e = w.e
  BY <1>2, MovedShift
<1> HIDE DEF D
<1>7. Of(D, t) \subseteq D
  BY DEF Of
<1> DEFINE is == Of(D, t)
<1>8. People(PlainOf(is)) = People(PlainOf(S))
  <2>1. AlikeRows(PlainOf(S), PlainOf(is))
    <3>1. AlikeRows(OfKind(S, "chief"), OfKind(is, "chief")) /\ AlikeRows(OfKind(S, "crew"), OfKind(is, "crew"))
      BY <1>6, AlikeKinds
    <3>2. QED BY <3>1 DEF PlainOf, AlikeRows
  <2>2. PlainOf(S) \subseteq B /\ PlainOf(is) \subseteq D
    BY <1>2, <1>7 DEF PlainOf, OfKind
  <2>3. QED BY <1>6, <2>1, <2>2, AlikePeople
<1>9. is # {}
  BY <1>2, <1>6 DEF AlikeRows
<1>10. ~r.chief => Cardinality({<<s.b, s.e>> : s \in is}) = 1
  <2>1. SUFFICES ASSUME ~r.chief PROVE Cardinality({<<s.b, s.e>> : s \in is}) = 1
    OBVIOUS
  <2>2. \A x \in is : x.b = w.b /\ x.e = w.e
    BY <1>4, <1>6, <2>1
  <2> HIDE DEF is
  <2>3. QED BY <1>9, <2>2, HoursOne
<1>11. People(PlainOf(S)) \in Nat
  BY <1>2, KindsApart
<1>12. Followed(S, is, r)
  <2>1. People(PlainOf(S)) + r.more - r.fewer = People(PlainOf(S))
    BY <1>11
  <2>2. QED BY <1>8, <1>10, <2>1 DEF Followed
<1>13. QED BY <1>5, <1>6, <1>12 DEF FollowedBy

Stands(C, t, w) == \A x \in Of(C, t) : x.b = w.b /\ x.e = w.e

\* One change of crew, after what else the email changed on the shift has landed.
LEMMA CrewFollowedOn ==
  ASSUME NEW B \in Wells, NEW p, NEW ps, ps \subseteq B, NEW r \in Ask, NEW t, NEW q, ChangesOn(q, p, ps, t, r, B), ~q.refused,
         r.action = "change_crew", ~r.trade, OneOfEach(Of(B, t)), Of(ps, t) = Of(B, t),
         NEW C \in Wells, Leads(B, p.ops, C), AlikeRows(Of(B, t), Of(C, t)),
         r.chief \/ Stands(C, t, HoursFor(p, Of(B, t), t))
  PROVE  FollowedBy(q, B, t, r)
<1> DEFINE S == Of(B, t)
           total == TotalOn(S, r)
           w == HoursFor(p, S, t)
<1>1. CrewChanged(q, p, B, C, S, t, r)
  <2>1. CrewChanged(q, p, B, C, Of(ps, t), t, r)
    BY CrewChangeLands
  <2>2. QED BY <2>1
<1>2. PICK D \in Wells : Leads(B, q.ops, D) /\ CrewDone(D, C, t, total, WantOn(S, r), w)
  BY <1>1 DEF CrewChanged
<1>3. total \in Nat
  BY <1>1 DEF CrewChanged
<1>4. S \subseteq B
  BY DEF Of
<1> DEFINE is == Of(D, t)
<1>5. /\ People(PlainOf(is)) = total
      /\ People(is) >= 4 => People(OfKind(is, "chief")) = 1 + People(is) \div 10
  BY <1>2, <1>3, <1>4, CrewDonePeople
<1>6. is # {} /\ \A x \in is : (x.b = w.b /\ x.e = w.e) \/ \E u \in Of(C, t) : x.b = u.b /\ x.e = u.e
  BY <1>2 DEF CrewDone, OfKind
<1>7. ~r.chief => Cardinality({<<s.b, s.e>> : s \in is}) = 1
  <2>1. SUFFICES ASSUME ~r.chief PROVE Cardinality({<<s.b, s.e>> : s \in is}) = 1
    OBVIOUS
  <2>2. \A x \in is : x.b = w.b /\ x.e = w.e
    BY <1>6, <2>1 DEF Stands
  <2> HIDE DEF is, w
  <2>3. QED BY <1>6, <2>2, HoursOne
<1>8. total = IF r.crew # 0 /\ (r.action = "change_crew" \/ r.set) THEN r.crew ELSE People(PlainOf(S)) + r.more - r.fewer
  BY DEF TotalOn, Total
<1>9. Followed(S, is, r)
  BY <1>5, <1>7, <1>8 DEF Followed
<1>10. QED BY <1>2, <1>9 DEF FollowedBy
-----------------------------------------------------------------------------
(* A change of times that is also one of people. *)

OnDay(ps, r) == {t \in Teams(ps) : \E s \in Of(ps, t) : DayOf(s.b) = r.day}
NamedBy(ps, r) ==
  IF Cardinality(OnDay(ps, r)) > 1 /\ r.at # Absent THEN {t \in OnDay(ps, r) : \E s \in Of(ps, t) : HourOf(s.b) = r.at} ELSE OnDay(ps, r)

LEMMA CandidatesNamed ==
  ASSUME NEW ps, NEW r, r.start = Absent \/ Cardinality(NamedBy(ps, r)) = 1
  PROVE  Candidates(ps, r) = NamedBy(ps, r)
<1> DEFINE apart(t) == {(HourOf(First(Of(ps, t)).b) - r.start) % 24, (r.start - HourOf(First(Of(ps, t)).b)) % 24}
           near == {t \in NamedBy(ps, r) : /\ (First(Of(ps, t)).e - First(Of(ps, t)).b) % 24 = (r.end - r.start) % 24
                                           /\ Min(apart(t)) <= 2}
<1>1. Candidates(ps, r) = IF Cardinality(NamedBy(ps, r)) > 1 /\ r.start # Absent /\ r.end # Absent /\ Cardinality(near) = 1
                          THEN near ELSE NamedBy(ps, r)
  BY DEF Candidates, NamedBy, OnDay
<1> HIDE DEF near
<1>2. QED BY <1>1

LEMMA NamedByDay ==
  ASSUME NEW ps, NEW r, NEW u, u.day = r.day, u.at = r.at
  PROVE  NamedBy(ps, u) = NamedBy(ps, r)
<1>1. OnDay(ps, u) = OnDay(ps, r)
  BY DEF OnDay
<1>2. QED BY <1>1 DEF NamedBy

\* The two halves of an ask.
TimesHalf(r) == [r EXCEPT !.crew = IF r.set THEN 0 ELSE @, !.more = 0, !.fewer = 0]
CrewHalf(r) == [r EXCEPT !.action = "change_crew", !.start = Absent, !.end = Absent, !.length = Absent, !.crew = IF r.set THEN @ ELSE 0]
Both(r) == r.action = "change_times" /\ (r.more # 0 \/ r.fewer # 0 \/ r.set)

LEMMA HalvesAre ==
  ASSUME NEW ps, NEW r \in Asks(ps), r.shift = NoShift, Both(r)
  PROVE  /\ Split(r) = <<TimesHalf(r), CrewHalf(r)>>
         /\ TimesHalf(r) \in Asks(ps) /\ TimesHalf(r).shift = NoShift /\ TimesHalf(r).action = "change_times"
         /\ TimesHalf(r).trade = r.trade /\ TimesHalf(r).chief = r.chief /\ TimesHalf(r).day = r.day /\ TimesHalf(r).at = r.at
         /\ CrewHalf(r) \in Asks(ps) /\ CrewHalf(r).shift = NoShift /\ CrewHalf(r).action = "change_crew"
         /\ CrewHalf(r).trade = r.trade /\ CrewHalf(r).chief = r.chief /\ CrewHalf(r).day = r.day /\ CrewHalf(r).at = r.at
         /\ CrewHalf(r).start = Absent /\ CrewHalf(r).more = r.more /\ CrewHalf(r).fewer = r.fewer
         /\ CrewHalf(r).crew = IF r.set THEN r.crew ELSE 0
<1>0. r \in Ask
  BY DEF Asks
<1>1. Split(r) = <<TimesHalf(r), CrewHalf(r)>>
  BY DEF Split, Both, TimesHalf, CrewHalf
<1>2. TimesHalf(r) \in Ask
  <2>1. (IF r.set THEN 0 ELSE r.crew) \in Nat /\ 0 \in Nat
    BY <1>0, AskParts
  <2>2. QED BY <1>0, <2>1 DEF Ask, TimesHalf
<1>3. CrewHalf(r) \in Ask
  <2>1. (IF r.set THEN r.crew ELSE 0) \in Nat /\ Absent \in Time /\ "change_crew" \in Action
    BY <1>0, AskParts DEF Time, Action
  <2>2. QED BY <1>0, <2>1 DEF Ask, CrewHalf
<1>4. /\ TimesHalf(r).shift = NoShift /\ TimesHalf(r).action = "change_times"
      /\ TimesHalf(r).trade = r.trade /\ TimesHalf(r).chief = r.chief /\ TimesHalf(r).day = r.day /\ TimesHalf(r).at = r.at
  BY <1>0 DEF Ask, TimesHalf, Both
<1>5. /\ CrewHalf(r).shift = NoShift /\ CrewHalf(r).action = "change_crew"
      /\ CrewHalf(r).trade = r.trade /\ CrewHalf(r).chief = r.chief /\ CrewHalf(r).day = r.day /\ CrewHalf(r).at = r.at
      /\ CrewHalf(r).start = Absent /\ CrewHalf(r).more = r.more /\ CrewHalf(r).fewer = r.fewer
      /\ CrewHalf(r).crew = IF r.set THEN r.crew ELSE 0
  BY <1>0 DEF Ask, CrewHalf
<1>6. TimesHalf(r) \in Asks(ps) /\ CrewHalf(r) \in Asks(ps)
  BY <1>2, <1>3, <1>4, <1>5 DEF Asks
<1>7. QED BY <1>1, <1>4, <1>5, <1>6

OnlyAbout(ps, r, t) == About(ps, r) = {t}

\* Both halves are on the shift the whole ask is about.
LEMMA HalvesOn ==
  ASSUME NEW ps, NEW r \in Asks(ps), r.shift = NoShift, Both(r), NEW t, NEW u,
         OnlyAbout(ps, TimesHalf(r), t), OnlyAbout(ps, CrewHalf(r), u)
  PROVE  t = u /\ OnlyAbout(ps, r, t)
<1>1. /\ TimesHalf(r).shift = NoShift /\ TimesHalf(r).day = r.day /\ TimesHalf(r).at = r.at
      /\ CrewHalf(r).shift = NoShift /\ CrewHalf(r).day = r.day /\ CrewHalf(r).at = r.at /\ CrewHalf(r).start = Absent
  BY HalvesAre
<1>2. NamedBy(ps, CrewHalf(r)) = {u}
  BY <1>1, CandidatesNamed DEF About, OnlyAbout
<1>3. NamedBy(ps, TimesHalf(r)) = {u} /\ NamedBy(ps, r) = {u}
  BY <1>1, <1>2, NamedByDay
<1>4. Cardinality({u}) = 1
  BY FS_Singleton
<1>5. Candidates(ps, TimesHalf(r)) = {u} /\ Candidates(ps, r) = {u}
  BY <1>3, <1>4, CandidatesNamed
<1>6. QED BY <1>1, <1>5 DEF About, OnlyAbout

LEMMA BothFollowed ==
  ASSUME NEW B \in Wells, NEW ps, ps \subseteq B, NEW r \in Asks(ps), r.shift = NoShift, Both(r), ~r.trade, NEW t, NEW p1, NEW q,
         ChangesOn(p1, NoPlan, ps, t, TimesHalf(r), B), ~p1.refused, ChangesOn(q, p1, ps, t, CrewHalf(r), B), ~q.refused,
         OneOfEach(Of(B, t)), Of(ps, t) = Of(B, t)
  PROVE  FollowedBy(q, B, t, r)
<1> DEFINE S == Of(B, t)
           r1 == TimesHalf(r)
           r2 == CrewHalf(r)
<1>1. WellFormed(B) /\ NoPlan.ops = <<>> /\ NoPlan.moved = {} /\ Leads(B, NoPlan.ops, B)
  BY RefusedOK, LeadsNone DEF Wells
<1>2. t \in Home /\ S \subseteq B
  <2>1. t \in Teams(ps)
    BY DEF ChangesOn
  <2>2. QED BY <1>1, <2>1, TeamsAre DEF Of
<1>3. /\ r1 \in Ask /\ r1.action = "change_times" /\ ~r1.trade /\ r1.chief = r.chief
      /\ r2 \in Ask /\ r2.action = "change_crew" /\ ~r2.trade /\ r2.chief = r.chief
      /\ r2.more = r.more /\ r2.fewer = r.fewer /\ r2.crew = IF r.set THEN r.crew ELSE 0
  BY HalvesAre DEF Asks
<1> HIDE DEF r1, r2
<1>4. TimesChanged(p1, NoPlan, B, B, S, t, r1)
  <2>1. TimesChanged(p1, NoPlan, B, B, Of(ps, t), t, r1)
    BY <1>1, <1>3, TimesChangeLands DEF r1
  <2>2. QED BY <2>1
<1>5. PICK slots \in SUBSET S, w \in Win : Moves(p1, NoPlan, B, B, t, slots, w) /\ (~r1.chief => slots = S)
  BY <1>4 DEF TimesChanged
<1> DEFINE C == Retimed(B, IdsOf(LateFor(slots, w)), w)
<1>6. Leads(B, p1.ops, C) /\ p1.moved = {[at |-> t, w |-> w]}
  BY <1>1, <1>5 DEF Moves
<1>7. /\ C \in Wells /\ AlikeRows(S, Of(C, t))
      /\ slots = S => \A x \in Of(C, t) : x.b = w.b /\ x.e = w.e
  BY <1>2, MovedShift
<1> HIDE DEF C
<1>8. HoursFor(p1, S, t) = w
  <2>1. \A m \in p1.moved : m.at = t /\ m.w = w
    BY <1>6
  <2>2. \E m \in p1.moved : m.at = t
    BY <1>6
  <2>3. (CHOOSE m \in p1.moved : m.at = t).w = w
    BY <2>1, <2>2
  <2>4. QED BY <2>2, <2>3 DEF HoursFor
<1>9. r2.chief \/ Stands(C, t, HoursFor(p1, S, t))
  BY <1>3, <1>5, <1>7, <1>8 DEF Stands
<1>10. ChangesOn(q, p1, ps, t, r2, B)
  BY DEF r2
<1>11. FollowedBy(q, B, t, r2)
  BY <1>3, <1>6, <1>7, <1>9, <1>10, CrewFollowedOn
<1>12. r.action = "change_times" /\ (r.set => TRUE)
  BY DEF Both
<1>13. \A is : Followed(S, is, r2) => Followed(S, is, r)
  <2>1. r2.crew # 0 /\ (r2.action = "change_crew" \/ r2.set) <=> r.crew # 0 /\ (r.action = "change_crew" \/ r.set)
    BY <1>3, <1>12
  <2>2. r2.crew # 0 => r2.crew = r.crew
    BY <1>3
  <2>3. QED BY <1>3, <2>1, <2>2 DEF Followed
<1>14. QED BY <1>11, <1>13 DEF FollowedBy
-----------------------------------------------------------------------------
(* An email of one change, decided and written. *)

LEMMA DecideOfOne ==
  ASSUME NEW B, WellFormed(B), NEW m, MailOf(m.asks), m.named \in Orders(B) \cup {0}, NEW staff, Len(m.asks) = 1,
         m.asks[1].action # "new_shift", ~Decide(B, m, staff).refused
  PROVE  /\ Decide(B, m, staff) = Changes(OnOrder(B, m.named), NoPlan, Split(m.asks[1]))
         /\ m.asks[1] \in Asks(OnOrder(B, m.named)) /\ m.asks[1].shift = NoShift /\ m.named \in Nat /\ OnOrder(B, m.named) \subseteq B
<1> DEFINE ps == OnOrder(B, m.named)
           r == m.asks[1]
           pc == ChangesAsked(ps, NoPlan, m.asks)
<1>1. ps \subseteq B /\ m.named \in Nat
  BY OrdersAre
<1>2. r \in Ask /\ r.shift = NoShift
  BY DEF MailOf, AskOf
<1>3. NewIn(m) = {}
  <2>1. DOMAIN m.asks = 1..1
    BY DEF MailOf
  <2>2. QED BY <2>1 DEF NewIn
<1>4. pc = AskedStep(ps, NoPlan, r)
  <2> HIDE DEF ps
  <2>1. QED BY <1>1, AskedOfOne
<1>5. pc = Changes(ps, NoPlan, Split(r))
  BY <1>4 DEF AskedStep
<1>6. Decide(B, m, staff) = WithNews(pc, B, m, staff)
  BY DEF Decide
<1> HIDE DEF pc, ps
<1>7. Decide(B, m, staff) = pc
  BY <1>3, <1>6, RefusedOK DEF WithNews
<1>8. r \in Asks(ps)
  BY <1>2 DEF Asks
<1>9. QED BY <1>1, <1>2, <1>5, <1>7, <1>8 DEF ps

LEMMA CrewFollowed ==
  ASSUME NEW B \in Wells, NEW m, MailOf(m.asks), m.named \in Orders(B) \cup {0}, NEW staff, Len(m.asks) = 1,
         NEW r, r = m.asks[1], r.action \in {"change_times", "change_crew"}, ~r.trade, ~Decide(B, m, staff).refused,
         NEW t, t = CHOOSE x \in Candidates(OnOrder(B, m.named), r) : TRUE, PlainShift(Of(B, t))
  PROVE  FollowedBy(Decide(B, m, staff), B, t, r)
<1> DEFINE ps == OnOrder(B, m.named)
           q == Decide(B, m, staff)
<1>1. WellFormed(B)
  BY DEF Wells
<1>2. /\ q = Changes(ps, NoPlan, Split(r)) /\ r \in Asks(ps) /\ r.shift = NoShift /\ m.named \in Nat /\ ps \subseteq B
      /\ r \in Ask
  BY <1>1, DecideOfOne DEF Asks
<1>3. NoPlan \in Plans(B) /\ ~q.refused /\ NoPlan.ops = <<>> /\ NoPlan.moved = {} /\ Leads(B, NoPlan.ops, B)
  BY RefusedOK, LeadsNone
<1>4. \A x \in Teams(ps) : Of(ps, x) = Of(B, x) /\ x \in Teams(B)
  BY <1>1, <1>2, OnOrderOf
<1>5. \A x \in Teams(B) : Of(B, x) # {}
  BY <1>1, TeamsAre
<1>6. OneOfEach(Of(B, t)) /\ SameHours(Of(B, t))
  BY DEF PlainShift
<1> HIDE DEF q, ps
<1>7. CASE ~Both(r)
  <2>1. Split(r) = <<r>>
    BY <1>7 DEF Split, Both
  <2>2. q = Change(ps, NoPlan, r)
    <3> DEFINE rs == <<r>>
    <3>1. rs \in Seq(Asks(ps)) /\ Len(rs) = 1 /\ rs[1] = r
      BY <1>2
    <3>2. q = Changes(ps, NoPlan, rs)
      BY <1>2, <2>1
    <3> HIDE DEF rs
    <3>3. Changes(ps, NoPlan, rs) = Change(ps, NoPlan, rs[1])
      BY <1>1, <1>2, <1>3, <3>1, ChangesOK
    <3>4. QED BY <3>1, <3>2, <3>3
  <2>3. PICK u : ChangesOn(q, NoPlan, ps, u, r, B)
    BY <1>1, <1>2, <1>3, <2>2, ChangeIs
  <2>4. u = t
    <3>1. Candidates(ps, r) = {u}
      BY <1>2, <2>3 DEF ChangesOn, About
    <3>2. QED BY <3>1 DEF ps
  <2>5. ChangesOn(q, NoPlan, ps, t, r, B) /\ t \in Teams(ps) /\ Of(ps, t) = Of(B, t) /\ Of(B, t) # {}
    BY <1>4, <1>5, <2>3, <2>4 DEF ChangesOn
  <2>6. CASE r.action = "change_times"
    <3>1. r.more = 0 /\ r.fewer = 0 /\ ~r.set
      BY <1>7, <2>6 DEF Both
    <3>2. FollowedBy(q, B, t, r)
      BY <1>2, <1>3, <2>5, <2>6, <3>1, TimesFollowed
    <3>3. QED BY <3>2 DEF q
  <2>7. CASE r.action = "change_crew"
    <3>1. HoursFor(NoPlan, Of(B, t), t) = [b |-> First(Of(B, t)).b, e |-> First(Of(B, t)).e]
      BY <1>3 DEF HoursFor
    <3>2. First(Of(B, t)) \in Of(B, t)
      BY <1>1, <2>5, FirstIs DEF Of
    <3>3. Stands(B, t, HoursFor(NoPlan, Of(B, t), t))
      BY <1>6, <3>1, <3>2 DEF SameHours, Stands
    <3>4. AlikeRows(Of(B, t), Of(B, t))
      BY DEF AlikeRows, SameRow
    <3>5. FollowedBy(q, B, t, r)
      BY <1>2, <1>3, <1>6, <2>5, <2>7, <3>3, <3>4, CrewFollowedOn
    <3>6. QED BY <3>5 DEF q
  <2>8. QED BY <2>6, <2>7
<1>8. CASE Both(r)
  <2> DEFINE r1 == TimesHalf(r)
             r2 == CrewHalf(r)
             p1 == Change(ps, NoPlan, r1)
  <2>1. Split(r) = <<r1, r2>> /\ r1 \in Asks(ps) /\ r2 \in Asks(ps)
    BY <1>2, <1>8, HalvesAre
  <2> HIDE DEF r1, r2
  <2>2. q = Change(ps, p1, r2) /\ p1 \in Plans(B)
    <3> DEFINE rs == <<r1, r2>>
    <3>1. rs \in Seq(Asks(ps)) /\ Len(rs) = 2 /\ rs[1] = r1 /\ rs[2] = r2
      BY <2>1
    <3>2. q = Changes(ps, NoPlan, rs)
      BY <1>2, <2>1
    <3> HIDE DEF rs
    <3>3. Changes(ps, NoPlan, rs) = Change(ps, Change(ps, NoPlan, rs[1]), rs[2])
      BY <1>1, <1>2, <1>3, <3>1, ChangesOK
    <3>4. p1 \in Plans(B)
      BY <1>1, <1>2, <1>3, <2>1, ChangeOK
    <3>5. QED BY <3>1, <3>2, <3>3, <3>4
  <2> HIDE DEF p1
  <2>3. PICK v : ChangesOn(q, p1, ps, v, r2, B)
    BY <1>1, <1>2, <1>3, <2>1, <2>2, ChangeIs
  <2>4. ~p1.refused
    BY <2>3 DEF ChangesOn
  <2>5. PICK u : ChangesOn(p1, NoPlan, ps, u, r1, B)
    BY <1>1, <1>2, <1>3, <2>1, <2>4, ChangeIs DEF p1
  <2>6. u = v /\ Candidates(ps, r) = {u}
    <3>1. OnlyAbout(ps, TimesHalf(r), u) /\ OnlyAbout(ps, CrewHalf(r), v)
      BY <2>3, <2>5 DEF ChangesOn, OnlyAbout, r1, r2
    <3>2. u = v /\ OnlyAbout(ps, r, u)
      BY <1>2, <1>8, <3>1, HalvesOn
    <3>3. QED BY <1>2, <3>2 DEF OnlyAbout, About
  <2>7. u = t
    BY <2>6 DEF ps
  <2>8. Of(ps, t) = Of(B, t)
    BY <1>4, <2>5, <2>7 DEF ChangesOn
  <2>9. ChangesOn(p1, NoPlan, ps, t, TimesHalf(r), B) /\ ChangesOn(q, p1, ps, t, CrewHalf(r), B)
    BY <2>3, <2>5, <2>6, <2>7 DEF r1, r2
  <2>10. FollowedBy(q, B, t, r)
    BY <1>2, <1>3, <1>6, <1>8, <2>4, <2>8, <2>9, BothFollowed
  <2>11. QED BY <2>10 DEF q
<1>9. QED BY <1>7, <1>8
-----------------------------------------------------------------------------
(* The email from its receipt to its last write. *)

OnSlot(op) == op.kind \in {"size", "times", "cancel"}

\* The first j operations have landed, and the rest are still to write.
Doing(f, j, B, ops, now, rest) ==
  /\ f[0] = B /\ f[j] = now
  /\ \A k \in 1..j : f[k] = Lands(B, f[k - 1], ops[k])
  /\ rest = SubSeq(ops, j + 1, Len(ops))
  /\ \A x \in IdsOf(B) : (\A k \in 1..j : ops[k].kind = "cancel" => ops[k].slot # x) => x \in IdsOf(now)

Progress ==
  stage = "writing" =>
    /\ ~Decide(before, email, touched).refused
    /\ \E f : \E j \in 0..(Len(Decide(before, email, touched).ops) - 1) :
         Doing(f, j, before, Decide(before, email, touched).ops, book, todo)

MailOK ==
  stage # "none" => /\ MailOf(email.asks) /\ email.named \in Nat
                    /\ stage = "sent" => email.named \in Orders(book) \cup {0}
                    /\ stage \in {"writing", "written", "nothing"} => email.named \in Orders(before) \cup {0}

SlotsThere(ops, ps) == \A i \in DOMAIN ops : OnSlot(ops[i]) => ops[i].slot \in IdsOf(ps)

TodoOK ==
  /\ stage \in {"none", "sent", "written", "nothing", "person", "same"} => todo = <<>>
  /\ stage = "more" /\ NewIn(email) = {} => SlotsThere(todo, book)

BookOK == stage \in Stage /\ edits \in 0..StaffEdits /\ book \in Wells /\ before \in Wells

PlanInv == BookOK /\ MailOK /\ TodoOK /\ Progress

\* An email of changes is planned whatever has become of the order it names, and never with two writes on one position.
LEMMA DecideOfChanges ==
  ASSUME NEW B \in Wells, NEW m, MailOf(m.asks), m.named \in Nat, NewIn(m) = {}, NEW staff
  PROVE  /\ Decide(B, m, staff) \in Plans(B)
         /\ ~Decide(B, m, staff).refused => ~TwoOnOne(Decide(B, m, staff))
<1> DEFINE ps == OnOrder(B, m.named)
           pc == ChangesAsked(ps, NoPlan, m.asks)
<1>1. WellFormed(B) /\ ps \subseteq B
  BY OrdersAre DEF Wells
<1>2. pc \in Plans(B)
  <2> HIDE DEF ps
  <2>1. QED BY <1>1, AskedOfOne
<1>3. Decide(B, m, staff) = WithNews(pc, B, m, staff)
  BY DEF Decide
<1> HIDE DEF pc
<1>4. Decide(B, m, staff) = IF pc.refused \/ TwoOnOne(pc) THEN Refused ELSE pc
  BY <1>3 DEF WithNews
<1>5. QED BY <1>2, <1>4, RefusedOK

LEMMA SlotOpsAre ==
  ASSUME NEW B, NEW op \in Ops(B), OnSlot(op)
  PROVE  op.slot \in IdsOf(B)
BY DEF OnSlot, Ops, SlotOps, SizeOps, TimesOps, CancelOps, AddOps, ShiftOps

LEMMA PlanSlots ==
  ASSUME NEW B, NEW p \in Plans(B)
  PROVE  SlotsThere(p.ops, B)
<1>1. p.ops \in Seq(Ops(B))
  BY PlanParts
<1>2. \A i \in DOMAIN p.ops : p.ops[i] \in Ops(B)
  BY <1>1
<1>3. QED BY <1>2, SlotOpsAre DEF SlotsThere

\* While an email of changes is written, what it has still to write on is there.
LEMMA DoingSlots ==
  ASSUME NEW B \in Wells, NEW m, MailOf(m.asks), m.named \in Nat, NewIn(m) = {}, NEW staff, ~Decide(B, m, staff).refused,
         NEW f, NEW j \in 0..(Len(Decide(B, m, staff).ops) - 1), NEW now, NEW rest,
         Doing(f, j, B, Decide(B, m, staff).ops, now, rest)
  PROVE  SlotsThere(rest, now)
<1> DEFINE p == Decide(B, m, staff)
           ops == p.ops
<1>1. p \in Plans(B) /\ ~TwoOnOne(p)
  BY DecideOfChanges
<1>2. ops \in Seq(Ops(B)) /\ SlotsThere(ops, B)
  BY <1>1, PlanParts, PlanSlots
<1> HIDE DEF p
<1>3. Len(ops) \in Nat /\ DOMAIN ops = 1..Len(ops) /\ j \in Nat
  BY <1>2 DEF p
<1>4. rest = SubSeq(ops, j + 1, Len(ops))
  BY DEF Doing, p
<1>5. \A i \in DOMAIN rest : j + i \in DOMAIN ops /\ rest[i] = ops[j + i] /\ i > 0 /\ i \in Nat
  <2> HIDE DEF ops
  <2>1. j < Len(ops)
    BY <1>3 DEF ops, p
  <2>2. DOMAIN rest = 1..(Len(ops) - j)
    BY <1>2, <1>3, <1>4, <2>1
  <2>3. \A i \in 1..(Len(ops) - j) : rest[i] = ops[j + i]
    BY <1>2, <1>3, <1>4, <2>1
  <2>4. QED BY <1>3, <2>1, <2>2, <2>3
<1> SUFFICES ASSUME NEW i \in DOMAIN rest, OnSlot(rest[i]) PROVE rest[i].slot \in IdsOf(now)
  BY DEF SlotsThere
<1>6. PICK x : x = j + i
  OBVIOUS
<1>7. x \in DOMAIN ops /\ rest[i] = ops[x] /\ x > j
  BY <1>3, <1>5, <1>6
<1>8. ops[x].slot \in IdsOf(B)
  BY <1>2, <1>7 DEF SlotsThere
<1>9. \A k \in 1..j : ops[k].kind = "cancel" => ops[k].slot # ops[x].slot
  <2> SUFFICES ASSUME NEW k \in 1..j, ops[k].kind = "cancel", ops[k].slot = ops[x].slot PROVE FALSE
    OBVIOUS
  <2>1. k \in DOMAIN ops /\ k # x
    BY <1>3, <1>7
  <2>2. ops[k].kind \in {"size", "times", "cancel"} /\ ops[x].kind \in {"size", "times", "cancel"}
    BY <1>7 DEF OnSlot
  <2>3. QED BY <1>1, <1>7, <2>1, <2>2 DEF TwoOnOne
<1>10. ops[x].slot \in IdsOf(now)
  BY <1>8, <1>9 DEF Doing, p
<1>11. QED BY <1>7, <1>10
LEMMA DoingStart ==
  ASSUME NEW B, NEW S, NEW ops \in Seq(S), ops # <<>>
  PROVE  \E f : \E j \in 0..(Len(ops) - 1) : Doing(f, j, B, ops, B, ops)
<1> DEFINE f == [k \in 0..0 |-> B]
<1>1. 0 \in 0..(Len(ops) - 1) /\ SubSeq(ops, 1, Len(ops)) = ops
  OBVIOUS
<1>2. f[0] = B
  OBVIOUS
<1>3. Doing(f, 0, B, ops, B, ops)
  BY <1>1, <1>2 DEF Doing
<1>4. QED BY <1>1, <1>3

LEMMA DoingStep ==
  ASSUME NEW B \in Wells, NEW ops \in Seq(Ops(B)), NEW f, NEW j \in 0..(Len(ops) - 1), NEW now \in Wells, NEW rest, Doing(f, j, B, ops, now, rest)
  PROVE  LET is == Lands(B, now, Head(rest)) IN
         /\ is \in Wells
         /\ Tail(rest) # <<>> => \E g : \E i \in 0..(Len(ops) - 1) : Doing(g, i, B, ops, is, Tail(rest))
         /\ Tail(rest) = <<>> => \A D : Leads(B, ops, D) => is = D
<1> DEFINE n == Len(ops)
           i == j + 1
           is == Lands(B, now, ops[i])
           g == [k \in 0..i |-> IF k = i THEN is ELSE f[k]]
<1>1. n \in Nat /\ j \in Nat /\ i \in 1..n /\ ops[i] \in Ops(B) /\ rest = SubSeq(ops, i, n)
  BY DEF Doing
<1>2. Head(rest) = ops[i] /\ Tail(rest) = SubSeq(ops, i + 1, n)
  BY <1>1
<1>3. Tail(rest) # <<>> <=> i < n
  <2> DEFINE l == SubSeq(ops, i + 1, n)
  <2>1. l \in Seq(Ops(B)) /\ Len(l) = n - i
    BY <1>1
  <2> HIDE DEF l
  <2>2. l = <<>> <=> Len(l) = 0
    BY <2>1
  <2>3. QED BY <1>1, <1>2, <2>1, <2>2 DEF l
<1>4. is \in Wells /\ IdsOf(now) \ (IF ops[i].kind = "cancel" THEN {ops[i].slot} ELSE {}) \subseteq IdsOf(is)
  BY <1>1, LandsOK
<1>5. f[0] = B /\ f[j] = now /\ \A k \in 1..j : f[k] = Lands(B, f[k - 1], ops[k])
  BY DEF Doing
<1> HIDE DEF is, n
<1>6. g[0] = B /\ g[i] = is
  BY <1>1, <1>5
<1>7. \A k \in 1..i : g[k] = Lands(B, g[k - 1], ops[k])
  <2> SUFFICES ASSUME NEW k \in 1..i PROVE g[k] = Lands(B, g[k - 1], ops[k])
    OBVIOUS
  <2>1. CASE k = i
    <3>1. g[k - 1] = now
      BY <1>1, <1>5, <2>1
    <3>2. QED BY <1>6, <2>1, <3>1 DEF is
  <2>2. CASE k # i
    <3>1. k \in 1..j /\ g[k] = f[k] /\ g[k - 1] = f[k - 1]
      BY <1>1, <2>2
    <3>2. QED BY <1>5, <3>1
  <2>3. QED BY <2>1, <2>2
<1>8. \A x \in IdsOf(B) : (\A k \in 1..i : ops[k].kind = "cancel" => ops[k].slot # x) => x \in IdsOf(is)
  <2> SUFFICES ASSUME NEW x \in IdsOf(B), \A k \in 1..i : ops[k].kind = "cancel" => ops[k].slot # x PROVE x \in IdsOf(is)
    OBVIOUS
  <2>1. \A k \in 1..j : k \in 1..i
    BY <1>1
  <2>2. x \in IdsOf(now)
    BY <2>1 DEF Doing
  <2>3. i \in 1..i
    BY <1>1
  <2>4. QED BY <1>4, <2>2, <2>3
<1> HIDE DEF g
<1>9. Doing(g, i, B, ops, is, Tail(rest))
  BY <1>2, <1>6, <1>7, <1>8 DEF Doing, n
<1>10. ASSUME Tail(rest) = <<>>, NEW D, Leads(B, ops, D) PROVE is = D
  <2>1. i = n
    <3>1. ~(i < n)
      BY <1>3, <1>10
    <3>2. QED BY <1>1, <3>1
  <2>2. LandsBy(g, B, ops)
    BY <1>6, <1>7, <2>1 DEF LandsBy, n
  <2>3. QED BY <1>6, <1>10, <2>1, <2>2 DEF Leads, n
<1>11. Tail(rest) # <<>> => i \in 0..(n - 1)
  BY <1>1, <1>3
<1>12. QED BY <1>2, <1>4, <1>9, <1>10, <1>11 DEF is, n

LEMMA StaffEdited ==
  ASSUME NEW B \in Wells, NEW s \in OfKind(B, "crew")
  PROVE  LET D == (B \ {s}) \cup {[s EXCEPT !.size = @ + 1]} IN
         /\ D \in Wells /\ Orders(D) = Orders(B) /\ Teams({s}) # {}
<1> DEFINE x == [s EXCEPT !.size = s.size + 1]
           D == (B \ {s}) \cup {x}
<1>1. s \in B /\ s \in Position
  BY DEF OfKind, Wells
<1>2. s.size + 1 \in Nat \ {0} /\ x.order = s.order
  BY <1>1 DEF Position
<1>3. D = Resized(B, s.id, s.size + 1)
  BY <1>1, ResizedIs
<1>4. Resized(B, s.id, s.size + 1) \in Wells
  BY <1>2, ResizedOK
<1>5. Orders(D) = Orders(B)
  <2>1. \A o : o \in Orders(D) <=> \E u \in D : o = u.order
    BY DEF Orders
  <2>2. \A o : o \in Orders(B) <=> \E u \in B : o = u.order
    BY DEF Orders
  <2>3. \A u : u \in D <=> u = x \/ (u \in B /\ u # s)
    OBVIOUS
  <2> HIDE DEF D, x
  <2>4. \A o : o \in Orders(D) <=> o \in Orders(B)
    BY <1>1, <1>2, <2>1, <2>2, <2>3
  <2>5. QED BY <2>4
<1>6. Teams({s}) # {}
  BY DEF Teams
<1>7. QED BY <1>3, <1>4, <1>5, <1>6

LEMMA EmailsAre ==
  ASSUME NEW m \in Emails
  PROVE  MailOf(m.asks)
<1>1. /\ m.asks \in Seq(Ask)
      /\ \A i \in DOMAIN m.asks : /\ m.asks[i].shift = NoShift
                                  /\ m.asks[i].action = "new_shift" => Absent \notin {m.asks[i].start, m.asks[i].end} /\ m.asks[i].crew > 0
  BY PlannerAssumption
<1>2. DOMAIN m.asks = 1..Len(m.asks) /\ \A i \in 1..Len(m.asks) : m.asks[i] \in Ask
  BY <1>1
<1>3. QED BY <1>1, <1>2 DEF MailOf, AskOf

LEMMA BooksAre ==
  ASSUME NEW B \in Books
  PROVE  B \in Wells
BY PlannerAssumption DEF Wells, WellFormed
LEMMA InvInit == PlannerInit => PlanInv
<1> SUFFICES ASSUME PlannerInit PROVE PlanInv
  OBVIOUS
<1>1. StaffEdits \in Nat
  BY PlannerAssumption
<1>2. {} \in Wells
  BY FS_EmptySet DEF Wells, WellFormed
<1>3. QED BY <1>1, <1>2 DEF PlannerInit, PlanInv, BookOK, MailOK, TodoOK, Progress, Stage

LEMMA InvReceive == PlanInv /\ Receive => PlanInv'
<1> SUFFICES ASSUME PlanInv, Receive PROVE PlanInv'
  OBVIOUS
<1>1. book' \in Wells /\ MailOf(email'.asks) /\ email'.named \in Orders(book') \cup {0}
  BY BooksAre, EmailsAre DEF Receive
<1>2. email'.named \in Nat
  <2>1. WellFormed(book')
    BY <1>1 DEF Wells
  <2>2. Orders(book') \subseteq Nat \ {0}
    BY <2>1, OrdersAre
  <2>3. QED BY <1>1, <2>2
<1>3. BookOK'
  BY <1>1 DEF PlanInv, BookOK, Receive, Stage
<1>4. MailOK'
  BY <1>1, <1>2 DEF MailOK, Receive
<1>5. TodoOK' /\ Progress'
  BY DEF PlanInv, TodoOK, Progress, Receive
<1>6. QED BY <1>3, <1>4, <1>5 DEF PlanInv

LEMMA InvPlan == PlanInv /\ Plan => PlanInv'
<1> SUFFICES ASSUME PlanInv, Plan PROVE PlanInv'
  OBVIOUS
<1> DEFINE p == Decide(book, email, touched)
<1>1. /\ stage = "sent" /\ before' = book /\ UNCHANGED <<book, email, touched, edits>>
      /\ todo' = IF p.refused THEN <<>> ELSE p.ops
      /\ stage' = IF p.refused THEN "person" ELSE IF p.ops = <<>> THEN "nothing" ELSE "writing"
  BY DEF Plan
<1>2. book \in Wells /\ WellFormed(book) /\ MailOf(email.asks) /\ email.named \in Orders(book) \cup {0} /\ email.named \in Nat
  BY <1>1 DEF PlanInv, BookOK, MailOK, Wells
<1>3. p \in Plans(book)
  BY <1>2, DecideOK
<1>4. Decide(before', email', touched') = p
  BY <1>1
<1> HIDE DEF p
<1>5. p.ops \in Seq(Ops(book))
  BY <1>3, PlanParts
<1>6. Progress'
  <2> SUFFICES ASSUME stage' = "writing" PROVE Progress'
    BY DEF Progress
  <2>1. ~p.refused /\ p.ops # <<>> /\ todo' = p.ops
    BY <1>1
  <2>2. \E f : \E j \in 0..(Len(p.ops) - 1) : Doing(f, j, book, p.ops, book, p.ops)
    BY <1>5, <2>1, DoingStart
  <2>3. \E f : \E j \in 0..(Len(p.ops) - 1) : Doing(f, j, before', p.ops, book', todo')
    BY <1>1, <2>1, <2>2
  <2>4. QED BY <1>4, <2>1, <2>3 DEF Progress
<1>7. BookOK' /\ TodoOK'
  BY <1>1, <1>2 DEF PlanInv, BookOK, TodoOK, Stage
<1>8. MailOK'
  BY <1>1, <1>2 DEF MailOK
<1>9. QED BY <1>6, <1>7, <1>8 DEF PlanInv

\* What a write leaves, and, of the last, where the plan leads.
LEMMA WriteIs ==
  ASSUME PlanInv, Write
  PROVE  LET ops == Decide(before, email, touched).ops IN
         /\ book' \in Wells /\ ~Decide(before, email, touched).refused
         /\ todo' # <<>> => \E g : \E i \in 0..(Len(ops) - 1) : Doing(g, i, before, ops, book', todo')
         /\ todo' = <<>> => \A D : Leads(before, ops, D) => book' = D
<1> DEFINE p == Decide(before, email, touched)
           ops == p.ops
<1>1. stage = "writing" /\ book' = Lands(before, book, Head(todo)) /\ todo' = Tail(todo)
  BY DEF Write
<1>2. /\ book \in Wells /\ before \in Wells /\ WellFormed(before) /\ MailOf(email.asks)
      /\ email.named \in Orders(before) \cup {0}
  BY <1>1 DEF PlanInv, BookOK, MailOK, Wells
<1>3. p \in Plans(before)
  BY <1>2, DecideOK
<1>4. ~p.refused
  BY <1>1 DEF PlanInv, Progress
<1>5. PICK f : \E j \in 0..(Len(ops) - 1) : Doing(f, j, before, ops, book, todo)
  BY <1>1 DEF PlanInv, Progress
<1>6. PICK j \in 0..(Len(ops) - 1) : Doing(f, j, before, ops, book, todo)
  BY <1>5
<1> HIDE DEF p
<1>7. ops \in Seq(Ops(before))
  BY <1>3, PlanParts
<1> HIDE DEF ops
<1> DEFINE is == Lands(before, book, Head(todo))
<1>8. /\ is \in Wells
      /\ Tail(todo) # <<>> => \E g : \E i \in 0..(Len(ops) - 1) : Doing(g, i, before, ops, is, Tail(todo))
      /\ Tail(todo) = <<>> => \A D : Leads(before, ops, D) => is = D
  BY <1>2, <1>6, <1>7, DoingStep
<1>9. QED BY <1>1, <1>4, <1>8 DEF p, ops

LEMMA InvWrite == PlanInv /\ Write => PlanInv'
<1> SUFFICES ASSUME PlanInv, Write PROVE PlanInv'
  OBVIOUS
<1> DEFINE p == Decide(before, email, touched)
<1>1. /\ stage = "writing" /\ UNCHANGED <<email, touched, before, edits>>
      /\ stage' = IF todo' = <<>> THEN "written" ELSE "writing"
  BY DEF Write
<1>2. /\ book' \in Wells /\ ~p.refused
      /\ todo' # <<>> => \E g : \E i \in 0..(Len(p.ops) - 1) : Doing(g, i, before, p.ops, book', todo')
  BY WriteIs
<1>3. Decide(before', email', touched') = p
  BY <1>1
<1> HIDE DEF p
<1>4. Progress'
  <2> SUFFICES ASSUME stage' = "writing" PROVE Progress'
    BY DEF Progress
  <2>1. \E g : \E i \in 0..(Len(p.ops) - 1) : Doing(g, i, before', p.ops, book', todo')
    BY <1>1, <1>2
  <2>2. QED BY <1>2, <1>3, <2>1 DEF Progress
<1>5. BookOK' /\ TodoOK' /\ MailOK'
  BY <1>1, <1>2 DEF PlanInv, BookOK, TodoOK, MailOK, Stage
<1>6. QED BY <1>4, <1>5 DEF PlanInv

LEMMA InvPlanAgain == PlanInv /\ PlanAgain => PlanInv'
<1> SUFFICES ASSUME PlanInv, PlanAgain PROVE PlanInv'
  OBVIOUS
<1> DEFINE d == Decide(book, email, touched)
           p == Settle(d, book, touched)
<1>1. /\ stage \in {"written", "nothing"} /\ UNCHANGED <<book, email, touched, before, edits>>
      /\ todo' = IF p.refused THEN <<>> ELSE p.ops
      /\ stage' = IF p.refused THEN "person" ELSE IF p.ops = <<>> THEN "same" ELSE "more"
  BY DEF PlanAgain
<1>2. book \in Wells /\ MailOf(email.asks) /\ email.named \in Nat
  BY <1>1 DEF PlanInv, BookOK, MailOK
<1>3. p \in {d, [NoPlan EXCEPT !.asked = d.asked]}
  BY DEF Settle
<1>4. NewIn(email) = {} => SlotsThere(p.ops, book)
  <2> SUFFICES ASSUME NewIn(email) = {} PROVE SlotsThere(p.ops, book)
    OBVIOUS
  <2>1. d \in Plans(book)
    BY <1>2, DecideOfChanges
  <2>2. SlotsThere(d.ops, book)
    BY <2>1, PlanSlots
  <2>3. [NoPlan EXCEPT !.asked = d.asked].ops = <<>>
    BY DEF NoPlan
  <2>4. SlotsThere(<<>>, book)
    BY DEF SlotsThere
  <2> HIDE DEF d, p
  <2>5. QED BY <1>3, <2>2, <2>3, <2>4
<1> HIDE DEF p, d
<1>5. TodoOK'
  BY <1>1, <1>4 DEF TodoOK
<1>6. BookOK' /\ MailOK' /\ Progress'
  BY <1>1 DEF PlanInv, BookOK, MailOK, Progress, Stage
<1>7. QED BY <1>5, <1>6 DEF PlanInv

LEMMA InvStaffEdit == PlanInv /\ StaffEdit => PlanInv'
<1> SUFFICES ASSUME PlanInv, StaffEdit PROVE PlanInv'
  OBVIOUS
<1>1. PICK s \in OfKind(book, "crew") : book' = (book \ {s}) \cup {[s EXCEPT !.size = @ + 1]}
  BY DEF StaffEdit
<1>2. book \in Wells
  BY DEF PlanInv, BookOK
<1>3. book' \in Wells /\ Orders(book') = Orders(book)
  BY <1>1, <1>2, StaffEdited
<1>4. BookOK'
  BY <1>3, PlannerAssumption DEF PlanInv, BookOK, StaffEdit
<1>5. MailOK'
  BY <1>3 DEF PlanInv, MailOK, StaffEdit
<1>6. TodoOK' /\ Progress'
  BY DEF PlanInv, TodoOK, Progress, StaffEdit
<1>7. QED BY <1>4, <1>5, <1>6 DEF PlanInv

LEMMA InvStays == PlanInv /\ UNCHANGED plannerVars => PlanInv'
BY DEF PlanInv, BookOK, MailOK, TodoOK, Progress, plannerVars

LEMMA InvNext == PlanInv /\ [PlannerNext]_plannerVars => PlanInv'
BY InvReceive, InvPlan, InvWrite, InvPlanAgain, InvStaffEdit, InvStays DEF PlannerNext

LEMMA InvAlways == PlannerSpec => []PlanInv
BY InvInit, InvNext, PTL DEF PlannerSpec

LEMMA InvTyped == PlanInv => PlannerTypeOK
<1> SUFFICES ASSUME PlanInv PROVE PlannerTypeOK
  OBVIOUS
<1>1. stage \in Stage /\ edits \in 0..StaffEdits /\ book \in Wells /\ WellFormed(book)
  BY DEF PlanInv, BookOK, Wells
<1>2. NewIn(email) = {} => SlotsThere(todo, book)
  <2> SUFFICES ASSUME NewIn(email) = {} PROVE SlotsThere(todo, book)
    OBVIOUS
  <2>1. CASE stage = "more"
    BY <2>1 DEF PlanInv, TodoOK
  <2>2. CASE stage = "writing"
    <3> DEFINE p == Decide(before, email, touched)
    <3>1. before \in Wells /\ MailOf(email.asks) /\ email.named \in Nat /\ ~p.refused
      BY <2>2 DEF PlanInv, BookOK, MailOK, Progress
    <3>2. PICK f : \E j \in 0..(Len(p.ops) - 1) : Doing(f, j, before, p.ops, book, todo)
      BY <2>2 DEF PlanInv, Progress
    <3>3. PICK j \in 0..(Len(p.ops) - 1) : Doing(f, j, before, p.ops, book, todo)
      BY <3>2
    <3>4. QED BY <3>1, <3>3, DoingSlots
  <2>3. CASE stage \notin {"more", "writing"}
    <3>1. todo = <<>>
      BY <1>1, <2>3 DEF PlanInv, TodoOK, Stage
    <3>2. QED BY <3>1 DEF SlotsThere
  <2>4. QED BY <2>1, <2>2, <2>3
<1>3. NewIn(email) = {} => \A i \in DOMAIN todo : todo[i].kind \in {"size", "times", "cancel"} => \E s \in book : s.id = todo[i].slot
  BY <1>2 DEF SlotsThere, OnSlot, IdsOf
<1>4. QED BY <1>1, <1>3 DEF PlannerTypeOK

\* The orders stay well formed whatever lands, and an email of changes, however it was planned, never has a write to make on a position
\* that is no longer there.
THEOREM TypesHold == PlannerSpec => []PlannerTypeOK
BY InvAlways, InvTyped, PTL

-----------------------------------------------------------------------------
(* CrewFollows. *)

\* The shift one change is about, as it was.
ShiftAsked == CHOOSE x \in Candidates(OnOrder(before, email.named), email.asks[1]) : TRUE

LEMMA FollowsWritten ==
  ASSUME PlanInv, Write
  PROVE  PlainShift(Of(before, ShiftAsked)) => CrewFollows'
<1> SUFFICES ASSUME PlainShift(Of(before, ShiftAsked)) PROVE CrewFollows'
  OBVIOUS
<1> DEFINE r == email.asks[1]
           t == ShiftAsked
<1>1. UNCHANGED <<email, touched, before>> /\ (stage' = "written" => todo' = <<>>) /\ stage = "writing"
  BY DEF Write
<1>2. SUFFICES ASSUME stage' = "written", Len(email.asks) = 1, r.action \in {"change_times", "change_crew"}, ~r.trade
               PROVE  Followed(Of(before, t), Of(book', t), r)
  BY <1>1 DEF CrewFollows, Followed, PlainOf, ShiftAsked
<1>3. /\ before \in Wells /\ MailOf(email.asks) /\ email.named \in Orders(before) \cup {0}
  BY <1>1 DEF PlanInv, BookOK, MailOK
<1>4. /\ ~Decide(before, email, touched).refused
      /\ \A D : Leads(before, Decide(before, email, touched).ops, D) => book' = D
  BY <1>1, <1>2, WriteIs
<1>5. t = CHOOSE x \in Candidates(OnOrder(before, email.named), r) : TRUE
  BY DEF ShiftAsked
<1> HIDE DEF t, r
<1>6. FollowedBy(Decide(before, email, touched), before, t, r)
  <2>1. r = email.asks[1] /\ PlainShift(Of(before, t))
    BY DEF r, t
  <2>2. QED BY <1>2, <1>3, <1>4, <1>5, <2>1, CrewFollowed
<1>7. PICK D \in Wells : Leads(before, Decide(before, email, touched).ops, D) /\ Followed(Of(before, t), Of(D, t), r)
  BY <1>6 DEF FollowedBy
<1>8. QED BY <1>4, <1>7

CrewFollowsPlain == PlainShift(Of(before, ShiftAsked)) => CrewFollows

LEMMA FollowsNext == PlanInv /\ CrewFollowsPlain /\ [PlannerNext]_plannerVars => CrewFollowsPlain'
<1> SUFFICES ASSUME PlanInv, CrewFollowsPlain, [PlannerNext]_plannerVars PROVE CrewFollowsPlain'
  OBVIOUS
<1>1. CASE Receive \/ Plan \/ PlanAgain
  <2>1. stage' # "written"
    BY <1>1 DEF Receive, Plan, PlanAgain
  <2>2. QED BY <2>1 DEF CrewFollowsPlain, CrewFollows
<1>2. CASE Write
  <2>1. before' = before /\ email' = email
    BY <1>2 DEF Write
  <2>2. ShiftAsked' = ShiftAsked
    BY <2>1 DEF ShiftAsked
  <2>3. PlainShift(Of(before, ShiftAsked)) => CrewFollows'
    BY <1>2, FollowsWritten
  <2>4. QED BY <2>1, <2>2, <2>3 DEF CrewFollowsPlain
<1>3. CASE StaffEdit
  <2>1. PICK s \in OfKind(book, "crew") : touched' = touched \cup Teams({s})
    BY <1>3 DEF StaffEdit
  <2>2. book \in Wells
    BY DEF PlanInv, BookOK
  <2>3. Teams({s}) # {}
    BY <2>2, StaffEdited
  <2>4. touched' # {}
    BY <2>1, <2>3
  <2>5. QED BY <2>4 DEF CrewFollowsPlain, CrewFollows
<1>4. CASE UNCHANGED plannerVars
  <2>1. ShiftAsked' = ShiftAsked /\ before' = before
    BY <1>4 DEF ShiftAsked, plannerVars
  <2>2. CrewFollows => CrewFollows'
    BY <1>4 DEF CrewFollows, plannerVars
  <2>3. QED BY <2>1, <2>2 DEF CrewFollowsPlain
<1>5. QED BY <1>1, <1>2, <1>3, <1>4 DEF PlannerNext

\* Whatever the orders hold: a change of people or times, on a shift of one crew position and at most one chief position whose hours are
\* one, leaves it with the people asked, the chiefs of the rule and one pair of hours once its last write has landed.
THEOREM ChangeIsFollowed == PlannerSpec => [](PlainShift(Of(before, ShiftAsked)) => CrewFollows)
<1>1. PlannerInit => CrewFollowsPlain
  BY DEF PlannerInit, CrewFollowsPlain, CrewFollows
<1>2. CrewFollowsPlain => (PlainShift(Of(before, ShiftAsked)) => CrewFollows)
  BY DEF CrewFollowsPlain
<1>3. QED BY <1>1, <1>2, FollowsNext, InvAlways, PTL DEF PlannerSpec

-----------------------------------------------------------------------------
(* A call on an order. *)

\* The positions of an order that start when a call does.
On(C, o, b) == {s \in C : s.order = o /\ s.b = b}

\* A shift that has the people a call asks and its chiefs by the rule: a crew change to them has nothing to do.
Ruled(c, S) ==
  /\ OneOfEach(S) /\ OfKind(S, "crew") # {} /\ People(PlainOf(S)) = c.crew
  /\ People(OfKind(S, "chief")) = ChiefsFor(c.crew + Others(S), c.chief \/ (OfKind(S, "chief") # {} /\ c.crew + Others(S) < 4))

\* BothChange, of the orders B.
BothOn(B, c) ==
  \E o \in Orders(B) : LET at == {s \in B : s.order = o /\ s.b = c.w.b} IN People(at) # c.crew /\ \E s \in at : s.e # c.w.e

\* The positions S have the people of a call of plain crew, and unless it changed both its people and its hours nothing is left to change.
Shaped(B, c, S) ==
  /\ c.crew \in {People(S), People(PlainOf(S))}
  /\ BothOn(B, c) \/ (SameEnd(c, S) /\ (c.crew = People(S) \/ Ruled(c, S)))

\* Asked again, the rule gives the chiefs it gave: a chief under four people stays because it is there.
LEMMA ChiefsStay ==
  ASSUME NEW n \in Nat, n > 0, NEW asked \in BOOLEAN, NEW was \in BOOLEAN, NEW is \in BOOLEAN,
         is <=> ChiefsFor(n, asked \/ was) > 0
  PROVE  ChiefsFor(n, asked \/ was) = ChiefsFor(n, asked \/ (is /\ n < 4))
<1>1. CASE n >= 4
  BY <1>1 DEF ChiefsFor
<1>2. CASE n < 4
  <2>1. n \in 1..3 /\ ~(n < 1)
    BY <1>2
  <2>2. \A a \in BOOLEAN : ChiefsFor(n, a) = IF a THEN 1 ELSE 0
    BY <2>1 DEF ChiefsFor
  <2>3. is <=> (asked \/ was)
    BY <2>2
  <2>4. QED BY <1>2, <2>2, <2>3
<1>3. QED BY <1>1, <1>2

LEMMA CrewTotal ==
  ASSUME NEW c \in NewCall, c.trade = 0, NEW t \in Home, NEW S
  PROVE  /\ c.crew \in Nat \ {0} /\ TotalOn(S, CrewAsk(c, t)) = c.crew
         /\ WantOn(S, CrewAsk(c, t)) =
              ChiefsFor(c.crew + Others(S), c.chief \/ (OfKind(S, "chief") # {} /\ People(PlainOf(S)) + Others(S) < 4))
<1>1. c.crew \in Nat \ {0}
  BY CallParts
<1>2. CrewAsk(c, t).crew = c.crew /\ CrewAsk(c, t).chief = c.chief
  BY ReshapeIs
<1>3. TotalOn(S, CrewAsk(c, t)) = c.crew
  BY <1>1, <1>2 DEF TotalOn, Total
<1>4. QED BY <1>1, <1>2, <1>3 DEF WantOn

\* A crew change to a call's people leaves them ruled.
LEMMA CrewDoneRuled ==
  ASSUME NEW B \in Wells, NEW C \in Wells, NEW D \in Wells, NEW t \in Home, NEW S, S \subseteq B, AlikeRows(S, Of(C, t)),
         NEW c \in NewCall, c.trade = 0, NEW w,
         CrewDone(D, C, t, TotalOn(S, CrewAsk(c, t)), WantOn(S, CrewAsk(c, t)), w)
  PROVE  Ruled(c, Of(D, t))
<1> DEFINE r == CrewAsk(c, t)
           is == Of(D, t)
           was == OfKind(S, "chief") # {} /\ People(PlainOf(S)) + Others(S) < 4
           n == c.crew + Others(S)
<1>1. /\ c.crew \in Nat \ {0} /\ TotalOn(S, r) = c.crew /\ WantOn(S, r) = ChiefsFor(n, c.chief \/ was)
  BY CrewTotal
<1>2. /\ People(PlainOf(is)) = c.crew /\ Others(is) = Others(S) /\ People(OfKind(is, "chief")) = ChiefsFor(n, c.chief \/ was)
  <2>1. TotalOn(S, r) \in Nat
    BY <1>1
  <2> HIDE DEF r
  <2>2. /\ People(PlainOf(is)) = TotalOn(S, r) /\ Others(is) = Others(S) /\ People(OfKind(is, "chief")) = WantOn(S, r)
    BY <2>1, CrewDonePeople DEF r
  <2>3. QED BY <1>1, <2>2
<1>3. Others(S) \in Nat /\ n \in Nat /\ n > 0
  BY <1>1, KindsApart
<1>4. OfKind(is, "chief") # {} <=> People(OfKind(is, "chief")) > 0
  <2>1. is \subseteq D /\ OfKind(is, "chief") \subseteq D
    BY DEF Of, OfKind
  <2>2. Sized(OfKind(is, "chief"))
    BY <2>1, KindsApart
  <2>3. \A x \in OfKind(is, "chief") : x.size > 0
    BY <2>1 DEF Wells, Position
  <2> HIDE DEF is
  <2>4. OfKind(is, "chief") # {} => People(OfKind(is, "chief")) > 0
    BY <2>2, <2>3, PeoplePositive
  <2>5. OfKind(is, "chief") = {} => People(OfKind(is, "chief")) = 0
    BY PeopleNone
  <2>6. QED BY <2>4, <2>5
<1>5. ChiefsFor(n, c.chief \/ was) = ChiefsFor(n, c.chief \/ (OfKind(is, "chief") # {} /\ n < 4))
  <2> DEFINE there == OfKind(is, "chief") # {}
  <2>1. there \in BOOLEAN /\ was \in BOOLEAN /\ c.chief \in BOOLEAN
    BY CallParts
  <2>2. there <=> ChiefsFor(n, c.chief \/ was) > 0
    BY <1>2, <1>4
  <2> HIDE DEF there, was, n
  <2>3. ChiefsFor(n, c.chief \/ was) = ChiefsFor(n, c.chief \/ (there /\ n < 4))
    BY <1>3, <2>1, <2>2, ChiefsStay
  <2>4. QED BY <2>3 DEF there
<1>6. OneOfEach(is) /\ OfKind(is, "crew") # {}
  BY DEF CrewDone
<1> HIDE DEF is, was
<1>7. Ruled(c, is)
  BY <1>2, <1>5, <1>6 DEF Ruled
<1>8. QED BY <1>7 DEF is

\* The size of a shift's one crew position.
LEMMA OneCrew ==
  ASSUME NEW B \in Wells, NEW S, S \subseteq B, NEW k, OfKind(S, "crew") = {k}
  PROVE  k \in B /\ k.size \in Nat \ {0} /\ People(PlainOf(S)) = People(OfKind(S, "chief")) + k.size /\ People(OfKind(S, "chief")) \in Nat
<1>1. k \in S /\ k \in B
  BY DEF OfKind
<1>2. k.size \in Nat \ {0}
  BY <1>1 DEF Wells, Position
<1>3. People({k}) = k.size
  BY <1>2, PeopleOne
<1>4. People(PlainOf(S)) = People(OfKind(S, "chief")) + People(OfKind(S, "crew")) /\ Sized(OfKind(S, "chief"))
  BY KindsApart
<1>5. People(OfKind(S, "chief")) \in Nat
  BY <1>4, PeopleNat
<1>6. QED BY <1>1, <1>2, <1>3, <1>4, <1>5

\* A crew change on a shift that is ruled is refused or asks nothing.
Quiet(q, p) == q.refused \/ (~p.refused /\ q.ops = p.ops)

LEMMA RuledQuiet ==
  ASSUME NEW B \in Wells, NEW p \in Plans(B), NEW ps, ps \subseteq B, NEW t \in Teams(ps), NEW c \in NewCall, c.trade = 0, Ruled(c, Of(ps, t))
  PROVE  Quiet(Change(ps, p, CrewAsk(c, t)), p)
<1> DEFINE r == CrewAsk(c, t)
           q == Change(ps, p, r)
           S == Of(ps, t)
<1> SUFFICES ASSUME ~q.refused PROVE ~p.refused /\ q.ops = p.ops
  BY DEF Quiet
<1>0. WellFormed(B)
  BY DEF Wells
<1>1. t \in Home /\ t # NoShift /\ S # {} /\ S \subseteq B
  BY <1>0, TeamsAre
<1>2. /\ r \in Ask /\ r.action = "change_crew" /\ r.shift = t /\ ~r.trade /\ c.crew \in Nat \ {0}
      /\ TotalOn(S, r) = c.crew
  BY <1>1, ReshapeIs, CrewTotal
<1>3. WantOn(S, r) = People(OfKind(S, "chief"))
  <2>1. WantOn(S, r) = ChiefsFor(c.crew + Others(S), c.chief \/ (OfKind(S, "chief") # {} /\ People(PlainOf(S)) + Others(S) < 4))
    BY <1>1, CrewTotal
  <2> HIDE DEF r, S
  <2>2. QED BY <2>1 DEF Ruled, S
<1>4. r \in Asks(ps)
  BY <1>2 DEF Asks
<1> HIDE DEF S, r
<1>5. PICK u : ChangesOn(q, p, ps, u, r, B)
  BY <1>0, <1>4, ChangeIs
<1>6. u = t
  BY <1>1, <1>2, <1>5 DEF ChangesOn, About
<1>7. PICK p1 \in Plans(B) : p1.ops = p.ops /\ p.refused = FALSE /\ q = ChangeShift(p1, S, t, r)
  BY <1>5, <1>6 DEF ChangesOn, S
<1>8. q = ChangeCrew(p1, S, t, r)
  <2>1. CASE OtherHours(S, r)
    <3>1. q = Refused
      BY <1>2, <1>7, <2>1 DEF ChangeShift
    <3>2. QED BY <3>1, RefusedOK
  <2>2. CASE ~OtherHours(S, r)
    BY <1>2, <1>7, <2>2 DEF ChangeShift
  <2>3. QED BY <2>1, <2>2
<1>9. OneOfEach(S)
  BY DEF Ruled, S
<1>10. ~ChangeCrew(p1, S, t, r).refused
  BY <1>8
<1> HIDE DEF q
<1>11. PICK k \in B : /\ OfKind(S, "crew") = {k}
                      /\ ChangeCrew(p1, S, t, r) = Resize(WithChiefs(p1, S, t, OfKind(S, "chief"), WantOn(S, r)), k, TotalOn(S, r) - WantOn(S, r))
  BY <1>1, <1>2, <1>9, <1>10, CrewIs
<1>12. WithChiefs(p1, S, t, OfKind(S, "chief"), WantOn(S, r)) = p1
  BY <1>3 DEF WithChiefs
<1>13. TotalOn(S, r) - WantOn(S, r) = k.size /\ k.size \in Nat \ {0}
  <2>1. People(PlainOf(S)) = c.crew
    BY DEF Ruled, S
  <2>2. c.crew = People(OfKind(S, "chief")) + k.size /\ k.size \in Nat \ {0} /\ People(OfKind(S, "chief")) \in Nat
    BY <1>1, <1>11, <2>1, OneCrew
  <2>3. QED BY <1>2, <1>3, <2>2
<1>14. q = p1
  BY <1>8, <1>11, <1>12, <1>13 DEF Resize
<1>15. QED BY <1>7, <1>14

-----------------------------------------------------------------------------
(* The changes of one call land. *)

\* A shift the client's orders hold as the call's, nothing of it having been changed yet.
CallOn(B, C, ps, p, c, t) ==
  /\ t \in Teams(ps) /\ Of(ps, t) = Of(B, t) /\ Of(C, t) = Of(B, t) /\ PlainShift(Of(B, t))
  /\ \A x \in Of(B, t) : x.b = c.w.b
  /\ \A mv \in p.moved : mv.at # t
  /\ c.trade = 0

\* After a crew change: the people asked, at the hours there were.
CrewStands(D, C, S, c, t) ==
  /\ OutOf(D, t) = OutOf(C, t) /\ Of(D, t) # {} /\ Ruled(c, Of(D, t))
  /\ \A x \in Of(D, t) : x.b = c.w.b /\ \A s \in S : x.e = s.e
CrewLed(q, p, B, C, S, c, t) == q.moved = p.moved /\ ~p.refused /\ \E D \in Wells : Leads(B, q.ops, D) /\ CrewStands(D, C, S, c, t)

LEMMA CrewCall ==
  ASSUME NEW B \in Wells, NEW p \in Plans(B), NEW ps, ps \subseteq B, NEW C \in Wells, Leads(B, p.ops, C), NEW c \in NewCall, NEW t,
         CallOn(B, C, ps, p, c, t), ~Change(ps, p, CrewAsk(c, t)).refused
  PROVE  CrewLed(Change(ps, p, CrewAsk(c, t)), p, B, C, Of(B, t), c, t)
<1> DEFINE r == CrewAsk(c, t)
           q == Change(ps, p, r)
           S == Of(B, t)
<1>0. WellFormed(B)
  BY DEF Wells
<1>1. t \in Home /\ t # NoShift /\ S # {} /\ S \subseteq B
  BY <1>0, TeamsAre DEF CallOn, Of
<1>2. /\ r \in Ask /\ r.action = "change_crew" /\ r.shift = t /\ ~r.trade /\ TotalOn(S, r) = c.crew
  BY <1>1, ReshapeIs, CrewTotal DEF CallOn
<1>3. r \in Asks(ps)
  BY <1>2 DEF Asks, CallOn
<1>4. First(S) \in S
  BY <1>0, <1>1, FirstIs
<1>5. Of(ps, t) = S /\ Of(C, t) = S /\ OneOfEach(S) /\ SameHours(S) /\ (\A x \in S : x.b = c.w.b) /\ c.trade = 0
  BY DEF CallOn, PlainShift
<1>6. HoursFor(p, S, t) = [b |-> First(S).b, e |-> First(S).e]
  BY DEF CallOn, HoursFor
<1> DEFINE w == HoursFor(p, S, t)
<1>7. w.b = c.w.b /\ \A s \in S : w.e = s.e
  BY <1>4, <1>5, <1>6 DEF SameHours
<1> HIDE DEF S, r, w
<1>8. PICK u : ChangesOn(q, p, ps, u, r, B)
  <2>1. ~q.refused
    BY DEF r
  <2>2. ~Change(ps, p, r).refused
    BY <2>1
  <2>3. QED BY <1>0, <1>3, <2>2, ChangeIs
<1>9. u = t /\ ~p.refused
  BY <1>1, <1>2, <1>8 DEF ChangesOn, About
<1>10. AlikeRows(S, S)
  BY DEF AlikeRows, SameRow
<1> HIDE DEF q
<1>11. CrewChanged(q, p, B, C, S, t, r)
  <2>1. ~q.refused
    BY DEF q, r
  <2>2. ChangesOn(q, p, ps, t, r, B) /\ OneOfEach(Of(ps, t)) /\ AlikeRows(Of(ps, t), Of(C, t))
    BY <1>5, <1>8, <1>9, <1>10
  <2>3. CrewChanged(q, p, B, C, Of(ps, t), t, r)
    BY <1>2, <2>1, <2>2, CrewChangeLands
  <2>4. QED BY <1>5, <2>3
<1>12. PICK D \in Wells : Leads(B, q.ops, D) /\ CrewDone(D, C, t, TotalOn(S, r), WantOn(S, r), w)
  BY <1>11 DEF CrewChanged, w
<1>13. Ruled(c, Of(D, t))
  <2>1. AlikeRows(S, Of(C, t))
    BY <1>5, <1>10
  <2>2. CrewDone(D, C, t, TotalOn(S, CrewAsk(c, t)), WantOn(S, CrewAsk(c, t)), w)
    BY <1>12 DEF r
  <2>3. QED BY <1>1, <1>5, <2>1, <2>2, CrewDoneRuled
<1>14. OutOf(D, t) = OutOf(C, t) /\ Of(D, t) # {}
  BY <1>12 DEF CrewDone, OfKind
<1>15. ASSUME NEW x \in Of(D, t) PROVE x.b = c.w.b /\ \A s \in S : x.e = s.e
  <2>1. (x.b = w.b /\ x.e = w.e) \/ \E v \in Of(C, t) : x.b = v.b /\ x.e = v.e
    BY <1>12 DEF CrewDone
  <2>2. CASE x.b = w.b /\ x.e = w.e
    BY <1>7, <2>2
  <2>3. CASE \E v \in Of(C, t) : x.b = v.b /\ x.e = v.e
    BY <1>5, <2>3 DEF SameHours
  <2>4. QED BY <2>1, <2>2, <2>3
<1>16. CrewStands(D, C, S, c, t)
  BY <1>13, <1>14, <1>15 DEF CrewStands
<1>17. q.moved = p.moved
  BY <1>11 DEF CrewChanged
<1>18. CrewLed(q, p, B, C, S, c, t)
  BY <1>9, <1>12, <1>16, <1>17 DEF CrewLed
<1>19. QED BY <1>18 DEF q, r, S

\* After a change of times: the shift as it was made before, those that were there when it was planned at the hours asked.
TimeStands(D, C, S, c, t) ==
  /\ ShiftRetimed(D, C, t, IdsOf(LateFor(S, c.w)), c.w)
TimeLed(q, p, B, C, S, c, t) ==
  /\ q.moved = p.moved \cup {[at |-> t, w |-> c.w]} /\ ~p.refused
  /\ \E D \in Wells : Leads(B, q.ops, D) /\ TimeStands(D, C, S, c, t)

LEMMA TimeCall ==
  ASSUME NEW B \in Wells, NEW p \in Plans(B), NEW ps, ps \subseteq B, NEW C \in Wells, Leads(B, p.ops, C), NEW c \in NewCall, NEW t \in Teams(ps),
         Of(ps, t) = Of(B, t), \A x \in Of(B, t) : x.b = c.w.b,
         NEW A \in Wells, Of(A, t) = Of(B, t), OutOf(C, t) = OutOf(A, t), ~Change(ps, p, TimeAsk(c, t)).refused
  PROVE  TimeLed(Change(ps, p, TimeAsk(c, t)), p, B, C, Of(B, t), c, t)
<1> DEFINE r == TimeAsk(c, t)
           q == Change(ps, p, r)
           S == Of(B, t)
<1>0. WellFormed(B)
  BY DEF Wells
<1>1. t \in Home /\ t # NoShift /\ S # {} /\ S \subseteq B
  BY <1>0, TeamsAre DEF Of
<1>2. /\ r \in Ask /\ r.action = "change_times" /\ r.shift = t /\ ~r.trade /\ ~r.chief /\ r.to = Absent
      /\ r.start = c.start /\ r.end = c.end
  BY <1>1, ReshapeIs
<1>3. r \in Asks(ps)
  BY <1>2 DEF Asks
<1>4. First(S) \in S
  BY <1>0, <1>1, FirstIs
<1>5. ChangedHours(First(S), DayOf(First(S).b), r) = c.w
  <2>1. First(S).b = c.w.b
    BY <1>4
  <2>2. c.w = Window(c.day, c.start, c.end) /\ c.day \in Nat /\ c.start \in 0..23 /\ c.end \in 0..23
    BY CallParts
  <2>3. DayOf(c.w.b) = c.day
    <3> HIDE DEF S, r, q
    <3>1. DayOf(Window(c.day, c.start, c.end).b) = c.day
      BY ONLY <2>2, WindowIs
    <3>2. QED BY <2>2, <3>1
  <2>4. r.start # Absent /\ r.end # Absent
    BY <1>2, <2>2 DEF Absent
  <2> HIDE DEF r, S
  <2>5. QED BY <1>2, <2>1, <2>2, <2>3, <2>4 DEF ChangedHours
<1> HIDE DEF S, r
<1>6. PICK u : ChangesOn(q, p, ps, u, r, B)
  <2>1. ~q.refused
    BY DEF r
  <2> HIDE DEF q
  <2>2. QED BY <1>0, <1>3, <2>1, ChangeIs DEF q
<1>7. u = t /\ ~p.refused
  BY <1>1, <1>2, <1>6 DEF ChangesOn, About
<1>8. ~q.refused
  BY DEF r
<1> HIDE DEF q
<1>9. TimesChanged(q, p, B, C, S, t, r)
  <2>1. ChangesOn(q, p, ps, t, r, B)
    BY <1>6, <1>7
  <2>2. TimesChanged(q, p, B, C, Of(ps, t), t, r)
    BY <1>2, <1>8, <2>1, TimesChangeLands
  <2>3. QED BY <2>2 DEF S
<1>10. PICK slots \in SUBSET S : \E w \in Win : /\ Moves(q, p, B, C, t, slots, w) /\ slots = S
                                               /\ w = ChangedHours(First(slots), IF r.to # Absent /\ r.to # r.day THEN r.to ELSE DayOf(First(S).b), r)
  BY <1>2, <1>9 DEF TimesChanged
<1>11. Moves(q, p, B, C, t, S, c.w) /\ c.w \in Win
  BY <1>2, <1>5, <1>10
<1> DEFINE ids == IdsOf(LateFor(S, c.w))
           D == Retimed(C, ids, c.w)
<1>12. ASSUME NEW s \in OutOf(C, t) PROVE s.id \notin ids
  <2>1. s \in A /\ s \notin S
    BY DEF OutOf, S
  <2>2. S \subseteq A
    BY DEF S, Of
  <2>3. \A x, y \in A : x.id = y.id => x = y
    BY DEF Wells, WellFormed
  <2>4. \A i \in ids : \E x \in S : x.id = i
    BY DEF IdsOf, LateFor
  <2>5. QED BY <2>1, <2>2, <2>3, <2>4
<1> HIDE DEF ids
<1>13. ShiftRetimed(D, C, t, ids, c.w) /\ D \in Wells
  BY <1>11, <1>12, RetimedShift, RetimedOK
<1>14. TimeStands(D, C, S, c, t)
  BY <1>13 DEF TimeStands, ids
<1>15. Leads(B, q.ops, D) /\ q.moved = p.moved \cup {[at |-> t, w |-> c.w]}
  BY <1>11 DEF Moves, ids
<1>16. TimeLed(q, p, B, C, S, c, t)
  BY <1>7, <1>13, <1>14, <1>15 DEF TimeLed
<1>17. QED BY <1>16 DEF q, r, S

\* The people of plain crew are as many where the positions are alike.
LEMMA AlikePlain ==
  ASSUME NEW C \in Wells, NEW D \in Wells, NEW S, S \subseteq C, NEW T, T \subseteq D, AlikeRows(S, T)
  PROVE  People(PlainOf(S)) = People(PlainOf(T))
<1>1. \A k : AlikeRows(OfKind(S, k), OfKind(T, k))
  BY AlikeKinds
<1>2. \A k : People(OfKind(S, k)) = People(OfKind(T, k))
  <2> TAKE k
  <2>1. OfKind(S, k) \subseteq C /\ OfKind(T, k) \subseteq D
    BY DEF OfKind
  <2>2. QED BY <1>1, <2>1, AlikePeople
<1>3. /\ People(PlainOf(S)) = People(OfKind(S, "chief")) + People(OfKind(S, "crew"))
      /\ People(PlainOf(T)) = People(OfKind(T, "chief")) + People(OfKind(T, "crew"))
  BY KindsApart
<1>4. QED BY <1>2, <1>3

\* What the changes of a held call say.
ReshapeAsks(c, S, t) == (IF c.crew = People(S) THEN <<>> ELSE <<CrewAsk(c, t)>>) \o (IF SameEnd(c, S) THEN <<>> ELSE <<TimeAsk(c, t)>>)

\* The shift T has what the call asks where it had S; its hours and its people were changed both, or nothing of it is left to change.
Fits(c, S, T) ==
  /\ T # {} /\ \A x \in T : x.b = c.w.b
  /\ c.crew \in {People(T), People(PlainOf(T))}
  /\ (c.crew # People(S) /\ ~SameEnd(c, S)) \/ (SameEnd(c, T) /\ (c.crew = People(T) \/ Ruled(c, T)))
CallDone(q, p, B, C, c, t) ==
  /\ ~p.refused /\ \A mv \in q.moved : mv \in p.moved \/ mv.at = t
  /\ \E D \in Wells : Leads(B, q.ops, D) /\ OutOf(D, t) = OutOf(C, t) /\ Fits(c, Of(B, t), Of(D, t))

LEMMA CrewCallDone ==
  ASSUME NEW B \in Wells, NEW p \in Plans(B), NEW ps, ps \subseteq B, NEW C \in Wells, Leads(B, p.ops, C), NEW c \in NewCall, NEW t,
         CallOn(B, C, ps, p, c, t), SameEnd(c, Of(B, t)), ~Change(ps, p, CrewAsk(c, t)).refused
  PROVE  CallDone(Change(ps, p, CrewAsk(c, t)), p, B, C, c, t)
<1> DEFINE q == Change(ps, p, CrewAsk(c, t))
           S == Of(B, t)
<1>1. CrewLed(q, p, B, C, S, c, t)
  BY CrewCall
<1>2. S # {}
  BY TeamsAre DEF CallOn, Wells
<1> HIDE DEF q
<1>3. PICK D \in Wells : Leads(B, q.ops, D) /\ CrewStands(D, C, S, c, t)
  BY <1>1 DEF CrewLed
<1>4. Fits(c, S, Of(D, t))
  <2>1. \A x \in Of(D, t) : x.b = c.w.b /\ \A s \in S : x.e = s.e
    BY <1>3 DEF CrewStands
  <2>2. Of(D, t) # {} /\ Ruled(c, Of(D, t))
    BY <1>3 DEF CrewStands
  <2>3. SameEnd(c, Of(D, t))
    BY <1>2, <2>1 DEF SameEnd
  <2>4. c.crew = People(PlainOf(Of(D, t)))
    BY <2>2 DEF Ruled
  <2>5. QED BY <2>1, <2>2, <2>3, <2>4 DEF Fits
<1>5. CallDone(q, p, B, C, c, t)
  BY <1>1, <1>3, <1>4 DEF CallDone, CrewLed, CrewStands
<1>6. QED BY <1>5 DEF q

LEMMA TimeCallDone ==
  ASSUME NEW B \in Wells, NEW p \in Plans(B), NEW ps, ps \subseteq B, NEW C \in Wells, Leads(B, p.ops, C), NEW c \in NewCall, NEW t,
         CallOn(B, C, ps, p, c, t), c.crew = People(Of(B, t)), ~Change(ps, p, TimeAsk(c, t)).refused
  PROVE  CallDone(Change(ps, p, TimeAsk(c, t)), p, B, C, c, t)
<1> DEFINE q == Change(ps, p, TimeAsk(c, t))
           S == Of(B, t)
<1>1. TimeLed(q, p, B, C, S, c, t)
  <2>1. t \in Teams(ps) /\ Of(ps, t) = Of(B, t) /\ Of(C, t) = Of(B, t) /\ \A x \in Of(B, t) : x.b = c.w.b
    BY DEF CallOn
  <2>2. QED BY <2>1, TimeCall
<1>2. S # {} /\ Of(C, t) = S /\ S \subseteq C
  BY TeamsAre DEF CallOn, Wells, Of
<1> HIDE DEF q, S
<1>3. PICK D \in Wells : Leads(B, q.ops, D) /\ ShiftRetimed(D, C, t, IdsOf(LateFor(S, c.w)), c.w)
  BY <1>1 DEF TimeLed, TimeStands
<1> DEFINE T == Of(D, t)
<1>4. OutOf(D, t) = OutOf(C, t) /\ AlikeRows(S, T)
  BY <1>2, <1>3 DEF ShiftRetimed
<1>5. \A x \in T : x.b = c.w.b /\ x.e = c.w.e
  <2> SUFFICES ASSUME NEW x \in T PROVE x.b = c.w.b /\ x.e = c.w.e
    OBVIOUS
  <2>1. IF x.id \in IdsOf(LateFor(S, c.w)) THEN x.b = c.w.b /\ x.e = c.w.e ELSE x \in S
    BY <1>2, <1>3 DEF ShiftRetimed
  <2>2. x \in S /\ x.id \notin IdsOf(LateFor(S, c.w)) => x.b = c.w.b /\ x.e = c.w.e
    BY DEF IdsOf, LateFor
  <2>3. QED BY <2>1, <2>2
<1>6. T # {}
  BY <1>2, <1>4 DEF AlikeRows
<1>7. c.crew = People(T)
  <2>1. T \subseteq D
    BY DEF Of
  <2> HIDE DEF T
  <2>2. People(S) = People(T)
    BY <1>2, <1>4, <2>1, AlikePeople
  <2>3. QED BY <2>2 DEF S
<1> HIDE DEF T
<1>8. Fits(c, S, T)
  BY <1>5, <1>6, <1>7 DEF Fits, SameEnd
<1>9. CallDone(q, p, B, C, c, t)
  BY <1>1, <1>3, <1>4, <1>8 DEF CallDone, TimeLed, S, T
<1>10. QED BY <1>9 DEF q

LEMMA BothCallDone ==
  ASSUME NEW B \in Wells, NEW p \in Plans(B), NEW ps, ps \subseteq B, NEW C \in Wells, Leads(B, p.ops, C), NEW c \in NewCall, NEW t,
         CallOn(B, C, ps, p, c, t), c.crew # People(Of(B, t)), ~SameEnd(c, Of(B, t)),
         NEW p1 \in Plans(B), p1 = Change(ps, p, CrewAsk(c, t)), ~p1.refused, ~Change(ps, p1, TimeAsk(c, t)).refused
  PROVE  CallDone(Change(ps, p1, TimeAsk(c, t)), p, B, C, c, t)
<1> DEFINE q == Change(ps, p1, TimeAsk(c, t))
           S == Of(B, t)
<1>1. CrewLed(p1, p, B, C, S, c, t)
  BY CrewCall
<1>2. PICK C1 \in Wells : Leads(B, p1.ops, C1) /\ CrewStands(C1, C, S, c, t)
  BY <1>1 DEF CrewLed
<1>3. TimeLed(q, p1, B, C1, S, c, t)
  <2>1. t \in Teams(ps) /\ Of(ps, t) = Of(B, t) /\ Of(C, t) = Of(B, t) /\ \A x \in Of(B, t) : x.b = c.w.b
    BY DEF CallOn
  <2>2. OutOf(C1, t) = OutOf(C, t)
    BY <1>2 DEF CrewStands
  <2>3. QED BY <1>2, <2>1, <2>2, TimeCall
<1> HIDE DEF q, S
<1>4. PICK D \in Wells : Leads(B, q.ops, D) /\ ShiftRetimed(D, C1, t, IdsOf(LateFor(S, c.w)), c.w)
  BY <1>3 DEF TimeLed, TimeStands
<1> DEFINE T == Of(D, t)
           T1 == Of(C1, t)
<1>5. /\ OutOf(D, t) = OutOf(C, t) /\ AlikeRows(T1, T) /\ T1 # {} /\ Ruled(c, T1) /\ \A x \in T1 : x.b = c.w.b
  BY <1>2, <1>4 DEF ShiftRetimed, CrewStands
<1>6. \A x \in T : x.b = c.w.b
  <2> SUFFICES ASSUME NEW x \in T PROVE x.b = c.w.b
    OBVIOUS
  <2>1. IF x.id \in IdsOf(LateFor(S, c.w)) THEN x.b = c.w.b /\ x.e = c.w.e ELSE x \in T1
    BY <1>4 DEF ShiftRetimed
  <2>2. QED BY <1>5, <2>1
<1>7. T # {}
  BY <1>5 DEF AlikeRows
<1>8. c.crew = People(PlainOf(T))
  <2>1. T \subseteq D /\ T1 \subseteq C1
    BY DEF Of
  <2> HIDE DEF T, T1
  <2>2. People(PlainOf(T1)) = People(PlainOf(T))
    BY <1>5, <2>1, AlikePlain
  <2>3. QED BY <1>5, <2>2 DEF Ruled
<1> HIDE DEF T, T1
<1>9. Fits(c, S, T)
  BY <1>6, <1>7, <1>8 DEF Fits, S
<1>10. CallDone(q, p, B, C, c, t)
  BY <1>1, <1>3, <1>4, <1>5, <1>9 DEF CallDone, TimeLed, CrewLed, S, T
<1>11. QED BY <1>10 DEF q

\* The changes of a held call, in the order they are planned.
LEMMA CallLands ==
  ASSUME NEW B \in Wells, NEW p \in Plans(B), NEW ps, ps \subseteq B, NEW C \in Wells, Leads(B, p.ops, C), NEW c \in NewCall, NEW t,
         CallOn(B, C, ps, p, c, t), ~(SameEnd(c, Of(B, t)) /\ c.crew = People(Of(B, t))),
         NEW rs \in Seq(Asks(ps)), rs = ReshapeAsks(c, Of(B, t), t), ~Changes(ps, p, rs).refused
  PROVE  CallDone(Changes(ps, p, rs), p, B, C, c, t)
<1> DEFINE a == CrewAsk(c, t)
           b == TimeAsk(c, t)
           S == Of(B, t)
<1>0. WellFormed(B)
  BY DEF Wells
<1> HIDE DEF a, b
<1>1. rs = (IF c.crew = People(S) THEN <<>> ELSE <<a>>) \o (IF SameEnd(c, S) THEN <<>> ELSE <<b>>)
  BY DEF ReshapeAsks, a, b
<1> HIDE DEF S
<1>2. CASE c.crew # People(S) /\ SameEnd(c, S)
  <2>1. Len(rs) = 1 /\ rs[1] = a
    BY <1>1, <1>2
  <2>2. Changes(ps, p, rs) = Change(ps, p, rs[1])
    BY <1>0, <2>1, ChangesOK
  <2>3. Changes(ps, p, rs) = Change(ps, p, CrewAsk(c, t)) /\ SameEnd(c, Of(B, t))
    BY <1>2, <2>1, <2>2 DEF a, S
  <2>4. QED BY <2>3, CrewCallDone
<1>3. CASE c.crew = People(S) /\ ~SameEnd(c, S)
  <2>1. Len(rs) = 1 /\ rs[1] = b
    BY <1>1, <1>3
  <2>2. Changes(ps, p, rs) = Change(ps, p, rs[1])
    BY <1>0, <2>1, ChangesOK
  <2>3. Changes(ps, p, rs) = Change(ps, p, TimeAsk(c, t)) /\ c.crew = People(Of(B, t))
    BY <1>3, <2>1, <2>2 DEF b, S
  <2>4. QED BY <2>3, TimeCallDone
<1>4. CASE c.crew # People(S) /\ ~SameEnd(c, S)
  <2>1. Len(rs) = 2 /\ rs[1] = a /\ rs[2] = b
    BY <1>1, <1>4
  <2>2. Changes(ps, p, rs) = Change(ps, Change(ps, p, rs[1]), rs[2])
    BY <1>0, <2>1, ChangesOK
  <2>3. rs[1] \in Asks(ps) /\ rs[2] \in Asks(ps)
    <3>1. 1 \in 1..Len(rs) /\ 2 \in 1..Len(rs)
      BY <2>1
    <3>2. QED BY <3>1
  <2> DEFINE p1 == Change(ps, p, rs[1])
  <2>4. p1 \in Plans(B)
    BY <1>0, <2>3, ChangeOK
  <2>5. p1.refused => Change(ps, p1, rs[2]).refused
    <3> HIDE DEF p1
    <3>1. QED BY <1>0, <2>3, <2>4, ChangeOK
  <2>6. ~p1.refused /\ p1 = Change(ps, p, CrewAsk(c, t)) /\ Changes(ps, p, rs) = Change(ps, p1, TimeAsk(c, t))
    BY <2>1, <2>2, <2>5 DEF a, b
  <2>7. c.crew # People(Of(B, t)) /\ ~SameEnd(c, Of(B, t))
    BY <1>4 DEF S
  <2> HIDE DEF p1
  <2>8. ~Change(ps, p1, TimeAsk(c, t)).refused
    BY <2>6
  <2>9. CallDone(Change(ps, p1, TimeAsk(c, t)), p, B, C, c, t)
    BY <2>4, <2>6, <2>7, <2>8, BothCallDone
  <2>10. QED BY <2>6, <2>9
<1>5. QED BY <1>2, <1>3, <1>4 DEF S

-----------------------------------------------------------------------------
(* The changes of all the held calls land. *)

\* A call changes the shift t, which is all that starts then on its order.
Reshaping(B, ps, c, t) ==
  /\ t \in Teams(ps) /\ Of(ps, t) = Of(B, t) /\ PlainShift(Of(B, t)) /\ On(B, t.order, c.w.b) = Of(B, t)
  /\ c.trade = 0 /\ ~(SameEnd(c, Of(B, t)) /\ c.crew = People(Of(B, t)))

Busy(of) == {c \in DOMAIN of : of[c].asks # <<>>}
StartsApart(cs) == \A c, d \in cs : c.w.b = d.w.b => c = d

\* Each call with changes makes them on a shift of its own.
Assigned(T, B, ps, of) ==
  \A c \in Busy(of) : Reshaping(B, ps, c, T[c]) /\ of[c].asks = ReshapeAsks(c, Of(B, T[c]), T[c])

\* The shifts of the calls H fit them, the others are as they were.
Standing(C, B, T, H) ==
  /\ \A u \in Home : (\A d \in H : T[d] # u) => Of(C, u) = Of(B, u)
  /\ \A d \in H : T[d] \in Home /\ Fits(d, Of(B, T[d]), Of(C, T[d]))

LEMMA OtherShift ==
  ASSUME NEW C, NEW D, NEW t \in Home, NEW u \in Home, u # t, OutOf(D, t) = OutOf(C, t)
  PROVE  Of(D, u) = Of(C, u)
<1>1. u.order # t.order \/ u.team # t.team
  BY DEF Home
<1>2. \A x : x \in Of(D, u) <=> x \in OutOf(D, t) /\ x.order = u.order /\ x.team = u.team
  BY <1>1 DEF Of, OutOf
<1>3. \A x : x \in Of(C, u) <=> x \in OutOf(C, t) /\ x.order = u.order /\ x.team = u.team
  BY <1>1 DEF Of, OutOf
<1>4. \A x : x \in Of(D, u) <=> x \in Of(C, u)
  BY <1>2, <1>3
<1>5. Of(D, u) \subseteq D /\ Of(C, u) \subseteq C
  BY DEF Of
<1>6. QED BY <1>4, <1>5

LEMMA StandingStep ==
  ASSUME NEW B, NEW C, NEW D, NEW T, NEW H, NEW c, T[c] \in Home, Standing(C, B, T, H), OutOf(D, T[c]) = OutOf(C, T[c]),
         Fits(c, Of(B, T[c]), Of(D, T[c])), \A d \in H : T[d] # T[c]
  PROVE  Standing(D, B, T, H \cup {c})
<1>1. \A u \in Home : u # T[c] => Of(D, u) = Of(C, u)
  BY OtherShift
<1>2. ASSUME NEW u \in Home, \A d \in H \cup {c} : T[d] # u PROVE Of(D, u) = Of(B, u)
  BY <1>1, <1>2 DEF Standing
<1>3. ASSUME NEW d \in H PROVE T[d] \in Home /\ Fits(d, Of(B, T[d]), Of(D, T[d]))
  <2>1. T[d] \in Home /\ Fits(d, Of(B, T[d]), Of(C, T[d]))
    BY DEF Standing
  <2>2. Of(D, T[d]) = Of(C, T[d])
    BY <1>1, <2>1
  <2>3. QED BY <2>1, <2>2
<1>4. QED BY <1>2, <1>3 DEF Standing

\* Two calls never change one shift.
LEMMA AssignedApart ==
  ASSUME NEW B \in Wells, NEW ps, ps \subseteq B, NEW of, StartsApart(DOMAIN of), NEW T, Assigned(T, B, ps, of),
         NEW c \in Busy(of), NEW d \in Busy(of), T[c] = T[d]
  PROVE  c = d
<1>0. WellFormed(B)
  BY DEF Wells
<1>1. T[c] \in Teams(ps) /\ On(B, T[c].order, c.w.b) = Of(B, T[c]) /\ On(B, T[c].order, d.w.b) = Of(B, T[c]) /\ Of(ps, T[c]) = Of(B, T[c])
  BY DEF Assigned, Reshaping
<1>2. Of(B, T[c]) # {}
  BY <1>0, <1>1, TeamsAre
<1>3. PICK x : x \in Of(B, T[c])
  BY <1>2
<1>4. x.b = c.w.b /\ x.b = d.w.b
  BY <1>1, <1>3 DEF On
<1>5. QED BY <1>4 DEF StartsApart, Busy

\* The calls with changes among the first k.
Among(of, k) == {c \in Busy(of) : \E i \in 1..k : InOrder(DOMAIN of)[i] = c}

\* The changes of the first k have landed.
Landed(q, B, T, H) ==
  /\ \A mv \in q.moved : \E c \in H : mv.at = T[c]
  /\ \E C \in Wells : Leads(B, q.ops, C) /\ Standing(C, B, T, H)

LEMMA LandedStep ==
  ASSUME NEW B \in Wells, NEW ps, ps \subseteq B, NEW of, Verdicts(of, ps), StartsApart(DOMAIN of), NEW T, Assigned(T, B, ps, of),
         NEW p \in Plans(B), NEW H, H \subseteq Busy(of), Landed(p, B, T, H), NEW c \in Busy(of), c \notin H,
         ~Changes(ps, p, of[c].asks).refused
  PROVE  Landed(Changes(ps, p, of[c].asks), B, T, H \cup {c})
<1> DEFINE t == T[c]
           rs == of[c].asks
           q == Changes(ps, p, rs)
<1>0. WellFormed(B)
  BY DEF Wells
<1>1. c \in NewCall /\ rs \in Seq(Asks(ps))
  BY DEF Busy, Verdicts, CallSet, IsVerdict
<1>2. Reshaping(B, ps, c, t) /\ rs = ReshapeAsks(c, Of(B, t), t)
  BY DEF Assigned
<1>3. \A d \in H : T[d] # t
  BY AssignedApart
<1>4. PICK C \in Wells : Leads(B, p.ops, C) /\ Standing(C, B, T, H)
  BY DEF Landed
<1>5. t \in Home
  BY <1>0, <1>2, TeamsAre DEF Reshaping
<1> HIDE DEF t, rs
<1>6. CallOn(B, C, ps, p, c, t)
  <2>1. Of(C, t) = Of(B, t)
    BY <1>3, <1>4, <1>5 DEF Standing
  <2>2. \A mv \in p.moved : mv.at # t
    BY <1>3 DEF Landed
  <2>3. \A x \in Of(B, t) : x.b = c.w.b
    BY <1>2 DEF Reshaping, On
  <2>4. QED BY <1>2, <2>1, <2>2, <2>3 DEF CallOn, Reshaping
<1>7. ~q.refused
  BY DEF rs
<1>8. CallDone(q, p, B, C, c, t)
  <2>1. ~(SameEnd(c, Of(B, t)) /\ c.crew = People(Of(B, t)))
    BY <1>2 DEF Reshaping
  <2> HIDE DEF q
  <2>2. ~Changes(ps, p, rs).refused
    BY <1>7 DEF q
  <2>3. CallDone(Changes(ps, p, rs), p, B, C, c, t)
    BY <1>1, <1>2, <1>4, <1>6, <2>1, <2>2, CallLands
  <2>4. QED BY <2>3 DEF q
<1> HIDE DEF q
<1>9. PICK D \in Wells : Leads(B, q.ops, D) /\ OutOf(D, t) = OutOf(C, t) /\ Fits(c, Of(B, t), Of(D, t))
  BY <1>8 DEF CallDone
<1>10. Standing(D, B, T, H \cup {c})
  BY <1>3, <1>4, <1>5, <1>9, StandingStep DEF t
<1>11. \A mv \in q.moved : \E d \in H \cup {c} : mv.at = T[d]
  <2>1. \A mv \in q.moved : mv \in p.moved \/ mv.at = T[c]
    BY <1>8 DEF CallDone, t
  <2>2. \A mv \in p.moved : \E d \in H : mv.at = T[d]
    BY DEF Landed
  <2>3. QED BY <2>1, <2>2
<1>12. Landed(q, B, T, H \cup {c})
  BY <1>9, <1>10, <1>11 DEF Landed
<1>13. QED BY <1>12 DEF q, rs

LEMMA HeldLands ==
  ASSUME NEW B \in Wells, NEW ps, ps \subseteq B, NEW of, Verdicts(of, ps), StartsApart(DOMAIN of), NEW T, Assigned(T, B, ps, of),
         ~Reshaped(ps, NoPlan, of).refused
  PROVE  Landed(Reshaped(ps, NoPlan, of), B, T, Busy(of))
<1> DEFINE n == Cardinality(DOMAIN of)
           s == InOrder(DOMAIN of)
<1>0. WellFormed(B)
  BY DEF Wells
<1>1. PICK g \in [0..n -> Plans(B)] : ReshapedBy(g, ps, NoPlan, of)
  BY <1>0, RefusedOK, ReshapedSteps
<1>2. /\ g[0] = NoPlan /\ Reshaped(ps, NoPlan, of) = g[n]
      /\ \A k \in 1..n : g[k] = Changes(ps, g[k - 1], of[s[k]].asks)
  BY <1>1 DEF ReshapedBy
<1>3. /\ s \in [1..n -> DOMAIN of] /\ n \in Nat
      /\ \A c \in DOMAIN of : \E i \in 1..n : s[i] = c
      /\ \A i, j \in 1..n : i # j => s[i] # s[j]
  BY InOrderIs DEF Verdicts, CallSet
<1> HIDE DEF n, s
<1> DEFINE H(k) == Among(of, k)
           ok == {k \in 0..n : ~g[k].refused => Landed(g[k], B, T, H(k))}
<1>4. 0 \in ok
  <2>1. H(0) = {}
    BY DEF Among
  <2>2. Standing(B, B, T, {})
    BY DEF Standing
  <2>3. NoPlan.moved = {} /\ Leads(B, NoPlan.ops, B)
    BY RefusedOK, LeadsNone
  <2>4. Landed(NoPlan, B, T, {})
    BY <2>2, <2>3 DEF Landed
  <2>5. 0 \in 0..n
    BY <1>3
  <2> HIDE DEF H
  <2>6. QED BY <1>2, <2>1, <2>4, <2>5
<1>5. \A k \in 0..(n - 1) : k \in ok => k + 1 \in ok
  <2> SUFFICES ASSUME NEW k \in 0..(n - 1), k \in ok PROVE k + 1 \in ok
    OBVIOUS
  <2>1. k \in 0..n /\ k + 1 \in 1..n /\ k + 1 \in 0..n /\ (k + 1) - 1 = k
    BY <1>3
  <2> DEFINE c == s[k + 1]
             q == g[k + 1]
             p == g[k]
  <2>2. c \in DOMAIN of /\ p \in Plans(B) /\ q = Changes(ps, p, of[c].asks)
    BY <1>1, <1>2, <1>3, <2>1
  <2>3. of[c].asks \in Seq(Asks(ps))
    BY <2>2 DEF Verdicts, IsVerdict
  <2> HIDE DEF c, q, p
  <2>4. (p.refused => q.refused) /\ (Len(of[c].asks) = 0 => q = p)
    <3> DEFINE rs == of[c].asks
    <3>1. rs \in Seq(Asks(ps)) /\ q = Changes(ps, p, rs)
      BY <2>2, <2>3
    <3> HIDE DEF rs
    <3>2. (p.refused => q.refused) /\ (Len(rs) = 0 => q = p)
      BY <1>0, <2>2, <3>1, ChangesOK
    <3>3. QED BY <3>2 DEF rs
  <2>5. ~p.refused => Landed(p, B, T, H(k))
    BY DEF p
  <2>6. \A d : d \in H(k + 1) <=> d \in H(k) \/ (d = c /\ c \in Busy(of))
    <3>1. \A d : (\E i \in 1..(k + 1) : s[i] = d) <=> (\E i \in 1..k : s[i] = d) \/ d = c
      BY <2>1 DEF c
    <3>2. QED BY <3>1 DEF Among, s
  <2>7. H(k) \subseteq Busy(of) /\ c \notin H(k)
    <3>1. \A i \in 1..k : s[i] # c
      BY <1>3, <2>1 DEF c
    <3>2. QED BY <3>1 DEF Among, s
  <2> HIDE DEF H
  <2>8. ~q.refused => Landed(q, B, T, H(k + 1))
    <3> SUFFICES ASSUME ~q.refused PROVE Landed(q, B, T, H(k + 1))
      OBVIOUS
    <3>1. CASE c \in Busy(of)
      <4>1. H(k + 1) = H(k) \cup {c}
        BY <2>6, <3>1
      <4>2. ~Changes(ps, p, of[c].asks).refused /\ Landed(p, B, T, H(k))
        BY <2>2, <2>4, <2>5
      <4>3. Landed(Changes(ps, p, of[c].asks), B, T, H(k) \cup {c})
        BY <2>2, <2>7, <3>1, <4>2, LandedStep
      <4>4. QED BY <2>2, <4>1, <4>3
    <3>2. CASE c \notin Busy(of)
      <4>1. H(k + 1) = H(k)
        BY <2>6, <3>2
      <4>2. of[c].asks = <<>>
        BY <2>2, <3>2 DEF Busy
      <4>3. Len(of[c].asks) = 0
        BY <4>2
      <4>4. q = p
        BY <2>4, <4>3
      <4>5. QED BY <2>5, <4>1, <4>4
    <3>3. QED BY <3>1, <3>2
  <2>9. QED BY <2>1, <2>8 DEF q
<1>6. n \in ok
  <2>1. n \in 0..n
    BY <1>3
  <2> HIDE DEF ok
  <2>2. \A k \in 0..n : k \in ok
    BY <1>3, <1>4, <1>5, Upwards
  <2>3. QED BY <2>1, <2>2
<1>7. H(n) = Busy(of)
  BY <1>3 DEF Among, Busy, s
<1>8. QED BY <1>2, <1>6, <1>7

-----------------------------------------------------------------------------
(* The shifts of the fresh calls land. *)

AtHours(x, w) == x.b = w.b /\ x.e = w.e
RowsOf(D, C, w) == {x \in D \ C : AtHours(x, w)}

\* Each of the calls has a shift of its own on the order, and nothing else has come.
Booked(D, C, o, cs) ==
  /\ C \subseteq D
  /\ \A x \in D \ C : x.order = o /\ (\E c \in cs : AtHours(x, c.w)) /\ \A y \in C : x.team # y.team
  /\ \A c \in cs : RowsOf(D, C, c.w) # {} /\ People(RowsOf(D, C, c.w)) = c.crew + c.trade

LEMMA SameWindow ==
  ASSUME NEW c \in NewCall, NEW d \in NewCall, NEW x, AtHours(x, c.w), AtHours(x, d.w)
  PROVE  c.w = d.w
<1>1. c.w \in Win /\ d.w \in Win /\ c.w.b = d.w.b /\ c.w.e = d.w.e
  BY CallParts DEF AtHours
<1>2. \A v \in Win : v = [b |-> v.b, e |-> v.e]
  BY DEF Win
<1>3. QED BY <1>1, <1>2

LEMMA BookedStep ==
  ASSUME NEW B \in Wells, NEW C \in Wells, NEW D \in Wells, NEW o \in Nat \ {0}, NEW cs, NEW c \in NewCall, cs \subseteq NewCall,
         \A d \in cs : d.w # c.w, Booked(D, C, o, cs), NEW op, op = AddShift(o, c.w, Positions(c))
  PROVE  Lands(B, D, op) \in Wells /\ Booked(Lands(B, D, op), C, o, cs \cup {c})
<1>1. op.kind = "shift" /\ op.order = o /\ op.w = c.w /\ op.positions = Positions(c)
  BY DEF AddShift
<1>2. Positions(c) \subseteq PositionRow /\ IsFiniteSet(Positions(c)) /\ Positions(c) # {} /\ People(Positions(c)) = c.crew + c.trade
  BY PositionsAre
<1>3. op \in ShiftOps
  <2>1. c.w \in Win
    BY CallParts
  <2>2. op = [kind |-> "shift", order |-> o, w |-> c.w, positions |-> Positions(c)]
    BY DEF AddShift
  <2> HIDE DEF AddShift
  <2>3. QED BY <1>2, <2>1, <2>2 DEF ShiftOps
<1>4. PICK N : NewShift(N, B, D, op) /\ Lands(B, D, op) = D \cup N
  BY <1>3, ShiftLands
<1> DEFINE E == D \cup N
<1>5. Lands(B, D, op) \in Wells
  <2>1. op \in Ops(B)
    BY <1>3 DEF Ops
  <2>2. QED BY <2>1, LandsOK
<1>6. /\ \A x \in N : x \notin D /\ x.order = o /\ AtHours(x, c.w) /\ \A s \in D : x.team # s.team
      /\ N # {} /\ People(N) = c.crew + c.trade
  BY <1>1, <1>2, <1>4 DEF NewShift, AtHours
<1>7. C \subseteq D /\ \A x : x \in E \ C <=> x \in D \ C \/ x \in N
  BY <1>6 DEF Booked
<1>8. \A x \in D \ C : ~AtHours(x, c.w)
  <2> SUFFICES ASSUME NEW x \in D \ C, AtHours(x, c.w) PROVE FALSE
    OBVIOUS
  <2>1. PICK d \in cs : AtHours(x, d.w)
    BY DEF Booked
  <2>2. d.w = c.w
    BY <2>1, SameWindow
  <2>3. QED BY <2>2
<1>9. RowsOf(E, C, c.w) = N
  BY <1>6, <1>7, <1>8 DEF RowsOf
<1>10. ASSUME NEW d \in cs PROVE RowsOf(E, C, d.w) = RowsOf(D, C, d.w)
  <2>1. \A x \in N : ~AtHours(x, d.w)
    <3> SUFFICES ASSUME NEW x \in N, AtHours(x, d.w) PROVE FALSE
      OBVIOUS
    <3>1. d.w = c.w
      BY <1>6, SameWindow
    <3>2. QED BY <3>1
  <2>2. QED BY <1>7, <2>1 DEF RowsOf
<1>11. ASSUME NEW x \in E \ C PROVE x.order = o /\ (\E d \in cs \cup {c} : AtHours(x, d.w)) /\ \A y \in C : x.team # y.team
  BY <1>6, <1>7 DEF Booked
<1>12. \A d \in cs \cup {c} : RowsOf(E, C, d.w) # {} /\ People(RowsOf(E, C, d.w)) = d.crew + d.trade
  BY <1>6, <1>9, <1>10 DEF Booked
<1>13. C \subseteq E
  BY <1>7
<1> HIDE DEF E
<1>14. Booked(E, C, o, cs \cup {c})
  BY <1>11, <1>12, <1>13 DEF Booked
<1>15. QED BY <1>4, <1>5, <1>14 DEF E

LEMMA FreshLands ==
  ASSUME NEW B \in Wells, NEW C \in Wells, NEW ops \in Seq(Ops(B)), Leads(B, ops, C), NEW o \in Nat \ {0}, NEW cs, CallSet(cs)
  PROVE  \E D \in Wells : Leads(B, ops \o ShiftsOf(o, cs), D) /\ Booked(D, C, o, cs)
<1> DEFINE n == Cardinality(cs)
           s == InOrder(cs)
           more == ShiftsOf(o, cs)
           first(k) == {s[i] : i \in 1..k}
           I == [k \in 0..n |-> {D \in Wells : Booked(D, C, o, first(k))}]
<1>1. /\ s \in [1..n -> cs] /\ n \in Nat /\ DOMAIN s = 1..n
      /\ \A c \in cs : \E i \in 1..n : s[i] = c
      /\ \A i, j \in 1..n : i # j => s[i] # s[j]
  BY InOrderIs DEF CallSet
<1>2. more \in Seq(Ops(B)) /\ Len(more) = n
  BY ShiftsOfOK
<1>3. \A k \in 1..n : more[k] = AddShift(o, s[k].w, Positions(s[k]))
  BY <1>1 DEF ShiftsOf
<1> HIDE DEF n, s, more
<1>4. C \in I[0]
  <2>1. first(0) = {}
    OBVIOUS
  <2>2. 0 \in 0..n
    BY <1>1
  <2>3. Booked(C, C, o, {})
    BY DEF Booked
  <2> HIDE DEF first
  <2>4. QED BY <2>1, <2>2, <2>3
<1>5. \A k \in 1..Len(more) : \A D \in I[k - 1] : Lands(B, D, more[k]) \in I[k]
  <2> SUFFICES ASSUME NEW k \in 1..n, NEW D \in I[k - 1] PROVE Lands(B, D, more[k]) \in I[k]
    BY <1>2
  <2>1. k \in 0..n /\ k - 1 \in 0..n
    BY <1>1
  <2>2. first(k) = first(k - 1) \cup {s[k]}
    <3>1. 1..k = (1..(k - 1)) \cup {k}
      BY <1>1
    <3>2. QED BY <3>1
  <2>3. s[k] \in cs /\ first(k - 1) \subseteq cs /\ \A d \in first(k - 1) : d # s[k]
    <3>1. \A i \in 1..(k - 1) : i \in 1..n /\ i # k
      BY <1>1
    <3>2. QED BY <1>1, <3>1
  <2> HIDE DEF first
  <2>4. s[k] \in NewCall /\ first(k - 1) \subseteq NewCall /\ \A d \in first(k - 1) : d.w # s[k].w
    BY <2>3 DEF CallSet
  <2>5. D \in Wells /\ Booked(D, C, o, first(k - 1))
    BY <2>1
  <2>6. Lands(B, D, more[k]) \in Wells /\ Booked(Lands(B, D, more[k]), C, o, first(k - 1) \cup {s[k]})
    <3> DEFINE c == s[k]
               op == more[k]
               sofar == first(k - 1)
    <3>1. c \in NewCall /\ sofar \subseteq NewCall /\ (\A d \in sofar : d.w # c.w) /\ Booked(D, C, o, sofar) /\ op = AddShift(o, c.w, Positions(c))
      BY <1>3, <2>4, <2>5
    <3> HIDE DEF c, op, sofar
    <3>2. Lands(B, D, op) \in Wells /\ Booked(Lands(B, D, op), C, o, sofar \cup {c})
      BY <2>5, <3>1, BookedStep
    <3>3. QED BY <3>2 DEF c, op, sofar
  <2>7. QED BY <2>1, <2>2, <2>6
<1>6. first(n) = cs
  BY <1>1
<1>7. \A D \in I[n] : D \in Wells /\ Booked(D, C, o, cs)
  <2>1. n \in 0..n
    BY <1>1
  <2> HIDE DEF first
  <2>2. QED BY <1>6, <2>1
<1> HIDE DEF I, first
<1>8. \E D \in I[Len(more)] : Leads(B, ops \o more, D)
  BY <1>2, <1>4, <1>5, LeadsAll
<1>9. \E D \in Wells : Leads(B, ops \o more, D) /\ Booked(D, C, o, cs)
  BY <1>2, <1>7, <1>8
<1>10. QED BY <1>9 DEF more

-----------------------------------------------------------------------------
(* What an email of new calls leaves. *)

\* Nothing is left to change of the shift t, which is all that starts then.
Settled(D, c, on) == \E t \in Home : Teams(on) = {t} /\ Of(D, t) = on /\ Ruled(c, on)

\* The order holds the call as it was asked, unless its people and its hours both had to change.
Kept(B, D, c, o, staff) ==
  LET on == On(D, o, c.w.b) IN
  /\ on # {}
  /\ c.trade > 0 => \E x \in on : x.e = c.w.e
  /\ c.trade = 0 /\ Teams(on) \cap staff = {} =>
       /\ c.crew \in {People(on), People(PlainOf(on))}
       /\ BothOn(B, c) \/ (SameEnd(c, on) /\ (c.crew = People(on) \/ Settled(D, c, on)))

\* The orders in `home` are planned against ps, which has them whole.
Within(B, ps, home) ==
  /\ home \subseteq Nat \ {0} /\ ps \subseteq B /\ \A t \in Teams(ps) : t.order \in home
  /\ \A t \in Teams(B) : t.order \in home => t \in Teams(ps) /\ Of(ps, t) = Of(B, t)

\* What was said of each call is of an order in `home`.
Seen(B, of, staff, home) ==
  \A c \in DOMAIN of :
    /\ of[c].kind = "held" => \E o \in home : BookedHere(OnOrder(B, o), c, staff) /\ of[c] = BookedAt(OnOrder(B, o), c, staff)
    /\ of[c].kind = "fresh" => of[c].asks = <<>> /\ (c.trade = 0 => \A o \in home : On(B, o, c.w.b) = {})
    /\ of[c].kind \in {"held", "fresh"}

\* The shifts there when a call starts have one crew position, at most one chief position and one pair of hours.
PlainAt(B, cs) == \A c \in cs : \A t \in Teams(B) : (\E s \in Of(B, t) : s.b = c.w.b) => PlainShift(Of(B, t))

LEMMA AtIsOn ==
  ASSUME NEW B \in Wells, NEW o \in Nat \ {0}, NEW c
  PROVE  StartingAt(OnOrder(B, o), c) = On(B, o, c.w.b)
<1>1. OnOrder(B, o) = {s \in B : s.order = o}
  BY DEF OnOrder
<1>2. QED BY <1>1 DEF StartingAt, On

\* The one shift at a start is the positions there.
LEMMA OneShiftThere ==
  ASSUME NEW B \in Wells, NEW o \in Nat \ {0}, NEW b, NEW t, Teams(On(B, o, b)) = {t}, SameHours(Of(B, t))
  PROVE  On(B, o, b) = Of(B, t) /\ t \in Teams(B) /\ t.order = o
<1> DEFINE at == On(B, o, b)
<1>1. PICK y \in at : t = [order |-> y.order, team |-> y.team]
  BY DEF Teams
<1>2. \A x \in at : [order |-> x.order, team |-> x.team] = t
  BY DEF Teams
<1>3. y \in B /\ y.order = o /\ y.b = b
  BY <1>1 DEF On
<1>4. t.order = o /\ t.team = y.team /\ t \in Teams(B) /\ y \in Of(B, t)
  BY <1>1, <1>3 DEF Teams, Of
<1>5. ASSUME NEW x \in at PROVE x \in Of(B, t)
  <2>1. x.order = t.order /\ x.team = t.team /\ x \in B
    <3>1. [order |-> x.order, team |-> x.team] = t
      BY <1>2
    <3>2. [order |-> x.order, team |-> x.team].order = t.order /\ [order |-> x.order, team |-> x.team].team = t.team
      BY <3>1
    <3>3. QED BY <3>2 DEF On
  <2>2. QED BY <2>1 DEF Of
<1>6. ASSUME NEW x \in Of(B, t) PROVE x \in at
  <2>1. x.b = b
    BY <1>3, <1>4 DEF SameHours
  <2>2. QED BY <1>4, <2>1 DEF Of, On
<1>7. at \subseteq B /\ Of(B, t) \subseteq B
  BY DEF On, Of
<1>8. QED BY <1>4, <1>5, <1>6

LEMMA CallAssigned ==
  ASSUME NEW B \in Wells, NEW ps, NEW home, Within(B, ps, home), NEW of, Verdicts(of, ps), NEW staff, Seen(B, of, staff, home),
         PlainAt(B, DOMAIN of), NEW c \in Busy(of)
  PROVE  \E t : Reshaping(B, ps, c, t) /\ of[c].asks = ReshapeAsks(c, Of(B, t), t)
<1>1. c \in DOMAIN of /\ of[c].asks # <<>> /\ c \in NewCall
  BY DEF Busy, Verdicts, CallSet
<1>2. of[c].kind = "held"
  BY <1>1 DEF Seen
<1>3. PICK o \in home : BookedHere(OnOrder(B, o), c, staff) /\ of[c] = BookedAt(OnOrder(B, o), c, staff)
  BY <1>1, <1>2 DEF Seen
<1> DEFINE at == On(B, o, c.w.b)
<1>4. o \in Nat \ {0} /\ StartingAt(OnOrder(B, o), c) = at
  BY <1>3, AtIsOn DEF Within
<1> HIDE DEF at
<1>5. c.trade \in Nat
  BY <1>1, CallParts
<1>6. c.trade = 0 /\ ~Untouched(c, at, staff)
  BY <1>1, <1>2, <1>3, <1>4, <1>5 DEF BookedHere
<1>7. PICK t \in Teams(at) : Changed(c, at, t) /\ of[c].asks = ReshapeAsks(c, at, t)
  BY <1>2, <1>3, <1>4, <1>6 DEF BookedHere, ReshapeAsks
<1>8. PlainShift(Of(B, t))
  <2>1. PICK y \in at : t = [order |-> y.order, team |-> y.team]
    BY DEF Teams
  <2>2. y \in B /\ y.b = c.w.b
    BY <2>1 DEF at, On
  <2>3. t \in Teams(B) /\ y \in Of(B, t)
    BY <2>1, <2>2 DEF Teams, Of
  <2>4. QED BY <1>1, <2>2, <2>3 DEF PlainAt
<1>9. at = Of(B, t) /\ t \in Teams(B) /\ t.order = o
  <2>1. Teams(On(B, o, c.w.b)) = {t} /\ SameHours(Of(B, t))
    BY <1>7, <1>8 DEF Changed, PlainShift, at
  <2>2. QED BY <1>4, <2>1, OneShiftThere DEF at
<1>10. t \in Teams(ps) /\ Of(ps, t) = Of(B, t)
  BY <1>3, <1>9 DEF Within
<1>11. Reshaping(B, ps, c, t)
  BY <1>6, <1>7, <1>8, <1>9, <1>10 DEF Reshaping, Changed, at
<1>12. QED BY <1>7, <1>9, <1>11

LEMMA AllAssigned ==
  ASSUME NEW B \in Wells, NEW ps, NEW home, Within(B, ps, home), NEW of, Verdicts(of, ps), NEW staff, Seen(B, of, staff, home),
         PlainAt(B, DOMAIN of)
  PROVE  \E T : Assigned(T, B, ps, of)
<1> DEFINE good(c, t) == Reshaping(B, ps, c, t) /\ of[c].asks = ReshapeAsks(c, Of(B, t), t)
           T == [c \in Busy(of) |-> CHOOSE t : good(c, t)]
<1>1. \A c \in Busy(of) : \E t : good(c, t)
  BY CallAssigned
<1> HIDE DEF good
<1>2. \A c \in Busy(of) : good(c, T[c])
  BY <1>1
<1> HIDE DEF T
<1>3. Assigned(T, B, ps, of)
  BY <1>2 DEF Assigned, good
<1>4. QED BY <1>3

\* The team a position is on.
TeamOf(x) == [order |-> x.order, team |-> x.team]
LEMMA TeamOfIs ==
  ASSUME NEW C \in Wells, NEW x \in C
  PROVE  TeamOf(x) \in Home /\ x \in Of(C, TeamOf(x)) /\ TeamOf(x).order = x.order /\ TeamOf(x) \in Teams(C)
<1>1. x.order \in Nat \ {0} /\ x.team \in Nat \ {0}
  BY PositionType DEF Wells
<1>2. QED BY <1>1 DEF TeamOf, Home, Of, Teams

\* A shift that was changed starts when its call does, and did.
LEMMA ChangedStarts ==
  ASSUME NEW B \in Wells, NEW C, NEW ps, NEW of, NEW T, Assigned(T, B, ps, of), Standing(C, B, T, Busy(of)), NEW d \in Busy(of)
  PROVE  (\A x \in Of(B, T[d]) : x.b = d.w.b) /\ (\A x \in Of(C, T[d]) : x.b = d.w.b)
<1>1. On(B, T[d].order, d.w.b) = Of(B, T[d])
  BY DEF Assigned, Reshaping
<1>2. \A x \in Of(C, T[d]) : x.b = d.w.b
  BY DEF Standing, Fits
<1>3. QED BY <1>1, <1>2 DEF On

\* Where no change was to start, the positions are as they were.
LEMMA UnchangedOn ==
  ASSUME NEW B \in Wells, NEW C \in Wells, NEW ps, NEW of, NEW T, Assigned(T, B, ps, of), Standing(C, B, T, Busy(of)),
         NEW b, \A d \in Busy(of) : d.w.b # b, NEW o
  PROVE  On(C, o, b) = On(B, o, b)
<1>1. ASSUME NEW x \in On(C, o, b) PROVE x \in On(B, o, b)
  <2>1. x \in C /\ x.order = o /\ x.b = b
    BY <1>1 DEF On
  <2>2. TeamOf(x) \in Home /\ x \in Of(C, TeamOf(x))
    BY <2>1, TeamOfIs
  <2>3. \A d \in Busy(of) : T[d] # TeamOf(x)
    BY <2>1, <2>2, ChangedStarts
  <2>4. x \in Of(B, TeamOf(x))
    BY <2>2, <2>3 DEF Standing
  <2>5. QED BY <2>1, <2>4 DEF Of, On
<1>2. ASSUME NEW x \in On(B, o, b) PROVE x \in On(C, o, b)
  <2>1. x \in B /\ x.order = o /\ x.b = b
    BY <1>2 DEF On
  <2>2. TeamOf(x) \in Home /\ x \in Of(B, TeamOf(x))
    BY <2>1, TeamOfIs
  <2>3. \A d \in Busy(of) : T[d] # TeamOf(x)
    BY <2>1, <2>2, ChangedStarts
  <2>4. x \in Of(C, TeamOf(x))
    BY <2>2, <2>3 DEF Standing
  <2>5. QED BY <2>1, <2>4 DEF Of, On
<1>3. On(C, o, b) \subseteq C /\ On(B, o, b) \subseteq B
  BY DEF On
<1>4. QED BY <1>1, <1>2, <1>3

\* Where a call changed a shift, that shift is all there is.
LEMMA ChangedOn ==
  ASSUME NEW B \in Wells, NEW C \in Wells, NEW ps, NEW of, NEW T, Assigned(T, B, ps, of), Standing(C, B, T, Busy(of)),
         StartsApart(DOMAIN of), NEW c \in Busy(of)
  PROVE  On(C, T[c].order, c.w.b) = Of(C, T[c])
<1> DEFINE t == T[c]
           o == T[c].order
           b == c.w.b
<1>1. \A x \in Of(C, t) : x.b = b
  BY ChangedStarts
<1>2. ASSUME NEW x \in Of(C, t) PROVE x \in On(C, o, b)
  BY <1>1, <1>2 DEF Of, On
<1>3. ASSUME NEW x \in On(C, o, b) PROVE x \in Of(C, t)
  <2>1. x \in C /\ x.order = o /\ x.b = b
    BY <1>3 DEF On
  <2>2. TeamOf(x) \in Home /\ x \in Of(C, TeamOf(x))
    BY <2>1, TeamOfIs
  <2>3. \A d \in Busy(of) : T[d] = TeamOf(x) => d = c
    <3> SUFFICES ASSUME NEW d \in Busy(of), T[d] = TeamOf(x) PROVE d = c
      OBVIOUS
    <3>1. x.b = d.w.b
      BY <2>2, ChangedStarts
    <3>2. QED BY <2>1, <3>1 DEF StartsApart, Busy
  <2>4. TeamOf(x) = t
    <3> SUFFICES ASSUME TeamOf(x) # t PROVE FALSE
      OBVIOUS
    <3>1. \A d \in Busy(of) : T[d] # TeamOf(x)
      BY <2>3
    <3>2. x \in Of(B, TeamOf(x))
      BY <2>2, <3>1 DEF Standing
    <3>3. x \in On(B, o, b)
      BY <2>1, <3>2 DEF Of, On
    <3>4. x \in Of(B, t)
      BY <3>3 DEF Assigned, Reshaping
    <3>5. x.order = t.order /\ x.team = t.team /\ t \in Home
      BY <3>4 DEF Of, Standing
    <3>6. t = [order |-> t.order, team |-> t.team]
      BY <3>5 DEF Home
    <3>7. QED BY <3>5, <3>6 DEF TeamOf
  <2>5. QED BY <2>2, <2>4
<1>4. On(C, o, b) \subseteq C /\ Of(C, t) \subseteq C
  BY DEF On, Of
<1>5. QED BY <1>2, <1>3, <1>4

\* A fresh shift comes at its call's start, on a team of its own.
LEMMA BookedElsewhere ==
  ASSUME NEW C, NEW D, NEW o, NEW cs, Booked(D, C, o, cs), NEW b, \A d \in cs : d.w.b # b, NEW u
  PROVE  On(D, u, b) = On(C, u, b)
<1>1. \A x \in D \ C : x.b # b
  BY DEF Booked, AtHours
<1>2. C \subseteq D
  BY DEF Booked
<1>3. QED BY <1>1, <1>2 DEF On

LEMMA BookedThere ==
  ASSUME NEW C, NEW D, NEW o, NEW cs, Booked(D, C, o, cs), StartsApart(cs), NEW c \in cs
  PROVE  On(D, o, c.w.b) = On(C, o, c.w.b) \cup RowsOf(D, C, c.w)
<1>1. \A x \in D \ C : x.order = o /\ (x.b = c.w.b <=> AtHours(x, c.w))
  <2> SUFFICES ASSUME NEW x \in D \ C PROVE x.order = o /\ (x.b = c.w.b => AtHours(x, c.w))
    BY DEF AtHours
  <2>1. PICK d \in cs : AtHours(x, d.w) /\ x.order = o
    BY DEF Booked
  <2>2. x.b = c.w.b => d = c
    BY <2>1 DEF AtHours, StartsApart
  <2>3. QED BY <2>1, <2>2
<1>2. C \subseteq D
  BY DEF Booked
<1>3. QED BY <1>1, <1>2 DEF On, RowsOf

LEMMA BookedApart ==
  ASSUME NEW C, NEW D, NEW o, NEW cs, Booked(D, C, o, cs), NEW t, Of(C, t) # {}
  PROVE  Of(D, t) = Of(C, t)
<1>1. PICK y \in C : y.team = t.team
  BY DEF Of
<1>2. \A x \in D \ C : x.team # t.team
  BY <1>1 DEF Booked
<1>3. C \subseteq D
  BY DEF Booked
<1>4. QED BY <1>2, <1>3 DEF Of

-----------------------------------------------------------------------------
(* Each call is kept. *)

\* A call that changed its shift.
LEMMA BusyKept ==
  ASSUME NEW B \in Wells, NEW C \in Wells, NEW D \in Wells, NEW ps, ps \subseteq B, NEW of, NEW T, Assigned(T, B, ps, of),
         Standing(C, B, T, Busy(of)), StartsApart(DOMAIN of), NEW o, NEW cs, Booked(D, C, o, cs), cs \subseteq DOMAIN of \ Busy(of),
         NEW c \in Busy(of), NEW staff
  PROVE  Kept(B, D, c, T[c].order, staff)
<1> DEFINE t == T[c]
           S == Of(B, t)
           on == On(D, t.order, c.w.b)
<1>1. \A d \in cs : d.w.b # c.w.b
  BY DEF StartsApart, Busy
<1>2. on = Of(C, t)
  <2>1. On(C, t.order, c.w.b) = Of(C, t)
    BY ChangedOn
  <2>2. on = On(C, t.order, c.w.b)
    BY <1>1, BookedElsewhere
  <2>3. QED BY <2>1, <2>2
<1>3. t \in Home /\ Fits(c, S, Of(C, t))
  BY DEF Standing
<1>4. Of(D, t) = Of(C, t)
  <2>1. Of(C, t) # {}
    BY <1>3 DEF Fits
  <2>2. QED BY <2>1, BookedApart
<1>5. Reshaping(B, ps, c, t)
  BY DEF Assigned
<1> HIDE DEF t, S, on
<1>6. Fits(c, S, on)
  BY <1>2, <1>3
<1>7. Of(D, t) = on
  BY <1>2, <1>4
<1>8. c.crew # People(S) /\ ~SameEnd(c, S) => BothOn(B, c)
  <2> SUFFICES ASSUME c.crew # People(S), ~SameEnd(c, S) PROVE BothOn(B, c)
    OBVIOUS
  <2>1. S = On(B, t.order, c.w.b) /\ S # {}
    <3>1. WellFormed(B)
      BY DEF Wells
    <3>2. QED BY <1>5, <3>1, TeamsAre DEF Reshaping, S
  <2>2. t.order \in Orders(B)
    BY <2>1 DEF On, Orders
  <2>3. S = {s \in B : s.order = t.order /\ s.b = c.w.b}
    BY <2>1 DEF On
  <2>4. \E s \in S : s.e # c.w.e
    BY DEF SameEnd
  <2>5. QED BY <2>2, <2>3, <2>4 DEF BothOn
<1>9. Teams(on) = {t}
  <2>1. on # {} /\ \A x \in on : x.order = t.order /\ x.team = t.team
    <3>1. on # {}
      BY <1>6 DEF Fits
    <3>2. QED BY <1>7, <3>1 DEF Of
  <2>2. t = [order |-> t.order, team |-> t.team]
    BY <1>3 DEF Home
  <2>3. \A x \in on : [order |-> x.order, team |-> x.team] = t
    BY <2>1, <2>2
  <2>4. QED BY <2>1, <2>3 DEF Teams
<1>10. Ruled(c, on) => Settled(D, c, on)
  BY <1>3, <1>7, <1>9 DEF Settled
<1>11. c.trade = 0
  BY <1>5 DEF Reshaping
<1>12. Kept(B, D, c, t.order, staff)
  <2>1. /\ on # {} /\ c.crew \in {People(on), People(PlainOf(on))}
        /\ BothOn(B, c) \/ (SameEnd(c, on) /\ (c.crew = People(on) \/ Settled(D, c, on)))
    BY <1>6, <1>8, <1>10 DEF Fits
  <2>2. QED BY <1>11, <2>1 DEF Kept, on
<1>13. QED BY <1>12 DEF t

\* A call the order had as it was asked, and one that staff have worked on.
LEMMA StillKept ==
  ASSUME NEW B \in Wells, NEW C \in Wells, NEW D \in Wells, NEW ps, NEW of, NEW T, Assigned(T, B, ps, of),
         Standing(C, B, T, Busy(of)), StartsApart(DOMAIN of), NEW b, NEW cs, Booked(D, C, b, cs), cs \subseteq DOMAIN of,
         NEW c \in DOMAIN of, c \notin Busy(of), c \notin cs, c \in NewCall, NEW staff,
         NEW o \in Nat \ {0}, BookedHere(OnOrder(B, o), c, staff), of[c] = BookedAt(OnOrder(B, o), c, staff), of[c].kind = "held"
  PROVE  Kept(B, D, c, o, staff)
<1> DEFINE on == On(D, o, c.w.b)
<1>1. (\A d \in cs : d.w.b # c.w.b) /\ \A d \in Busy(of) : d.w.b # c.w.b
  BY DEF StartsApart, Busy
<1>2. on = On(B, o, c.w.b)
  <2>1. On(C, o, c.w.b) = On(B, o, c.w.b)
    BY <1>1, UnchangedOn
  <2>2. on = On(C, o, c.w.b)
    BY <1>1, BookedElsewhere
  <2>3. QED BY <2>1, <2>2
<1>3. on = StartingAt(OnOrder(B, o), c)
  BY <1>2, AtIsOn
<1>4. of[c].asks = <<>>
  BY DEF Busy
<1> HIDE DEF on
<1>5. c.trade \in Nat
  BY CallParts
<1>6. on # {} /\ (c.trade > 0 => \E s \in on : s.e = c.w.e)
  BY <1>3 DEF BookedHere
<1>7. c.trade = 0 => Untouched(c, on, staff)
  <2> SUFFICES ASSUME c.trade = 0, ~Untouched(c, on, staff) PROVE FALSE
    OBVIOUS
  <2>1. PICK t \in Teams(on) : /\ Changed(c, on, t)
                               /\ of[c].asks = (IF c.crew = People(on) THEN <<>> ELSE <<CrewAsk(c, t)>>) \o (IF SameEnd(c, on) THEN <<>> ELSE <<TimeAsk(c, t)>>)
    BY <1>3 DEF BookedHere
  <2> DEFINE a == CrewAsk(c, t)
             z == TimeAsk(c, t)
  <2> HIDE DEF a, z
  <2>2. of[c].asks = (IF c.crew = People(on) THEN <<>> ELSE <<a>>) \o (IF SameEnd(c, on) THEN <<>> ELSE <<z>>)
    BY <2>1 DEF a, z
  <2>3. ~(SameEnd(c, on) /\ c.crew = People(on))
    BY <2>1 DEF Changed
  <2>4. Len(of[c].asks) > 0
    BY <2>2, <2>3
  <2>5. QED BY <1>4, <2>4
<1>8. QED BY <1>6, <1>7 DEF Kept, Untouched, on

\* A call booked afresh.
LEMMA FreshKept ==
  ASSUME NEW B \in Wells, NEW C \in Wells, NEW D \in Wells, NEW ps, NEW of, NEW T, Assigned(T, B, ps, of),
         Standing(C, B, T, Busy(of)), StartsApart(DOMAIN of), NEW o \in Nat \ {0}, NEW cs, Booked(D, C, o, cs), cs \subseteq DOMAIN of,
         NEW c \in cs, c \notin Busy(of), c \in NewCall, c.trade = 0 => On(B, o, c.w.b) = {}, NEW staff
  PROVE  Kept(B, D, c, o, staff)
<1> DEFINE on == On(D, o, c.w.b)
           N == RowsOf(D, C, c.w)
<1>1. on = On(B, o, c.w.b) \cup N
  <2>1. \A d \in Busy(of) : d.w.b # c.w.b
    BY DEF StartsApart, Busy
  <2>2. On(C, o, c.w.b) = On(B, o, c.w.b)
    BY <2>1, UnchangedOn
  <2>3. StartsApart(cs)
    BY DEF StartsApart
  <2>4. QED BY <2>2, <2>3, BookedThere
<1>2. N # {} /\ People(N) = c.crew + c.trade
  BY DEF Booked
<1>3. \A x \in N : x.e = c.w.e
  BY DEF RowsOf, AtHours
<1> HIDE DEF on, N
<1>4. on # {} /\ \E x \in on : x.e = c.w.e
  BY <1>1, <1>2, <1>3
<1>5. c.trade = 0 => People(on) = c.crew /\ SameEnd(c, on)
  <2> SUFFICES ASSUME c.trade = 0 PROVE People(on) = c.crew /\ SameEnd(c, on)
    OBVIOUS
  <2>1. on = N
    BY <1>1
  <2>2. c.crew \in Nat
    BY CallParts
  <2>3. QED BY <1>2, <1>3, <2>1, <2>2 DEF SameEnd
<1>6. QED BY <1>4, <1>5 DEF Kept, on

\* The plan of an email of new calls, when it is one of changes and of shifts.
NewsPlan(q, B, ps, of, o) ==
  /\ ~Reshaped(ps, NoPlan, of).refused
  /\ FreshCalls(of) = {} => q.ops = Reshaped(ps, NoPlan, of).ops
  /\ FreshCalls(of) # {} => q.ops = Reshaped(ps, NoPlan, of).ops \o ShiftsOf(o, FreshCalls(of))

AllKept(B, D, cs, home, staff) == \A c \in cs : \E o \in home : Kept(B, D, c, o, staff)

LEMMA NewsKept ==
  ASSUME NEW B \in Wells, NEW ps, NEW home, Within(B, ps, home), NEW of, Verdicts(of, ps), NEW staff, Seen(B, of, staff, home),
         PlainAt(B, DOMAIN of), StartsApart(DOMAIN of), NEW o \in home, NEW q, NewsPlan(q, B, ps, of, o)
  PROVE  \E D \in Wells : Leads(B, q.ops, D) /\ AllKept(B, D, DOMAIN of, home, staff)
<1> DEFINE r == Reshaped(ps, NoPlan, of)
           cs == FreshCalls(of)
<1>1. PICK T : Assigned(T, B, ps, of)
  BY AllAssigned
<1>2. ps \subseteq B /\ o \in Nat \ {0} /\ home \subseteq Nat \ {0}
  BY DEF Within
<1>3. ~r.refused
  BY DEF NewsPlan
<1>4. Landed(r, B, T, Busy(of))
  BY <1>1, <1>2, <1>3, HeldLands
<1>5. r \in Plans(B) /\ r.ops \in Seq(Ops(B))
  <2>1. r \in Plans(B)
    BY <1>2, RefusedOK, ReshapedOK DEF Wells
  <2> HIDE DEF r
  <2>2. QED BY <2>1, PlanParts
<1> HIDE DEF r
<1>6. PICK C \in Wells : Leads(B, r.ops, C) /\ Standing(C, B, T, Busy(of))
  BY <1>4 DEF Landed
<1>7. cs \subseteq DOMAIN of /\ CallSet(cs) /\ \A c \in cs : c \notin Busy(of) /\ (c.trade = 0 => On(B, o, c.w.b) = {})
  <2>1. cs \subseteq DOMAIN of
    BY DEF FreshCalls, OfVerdict
  <2>2. CallSet(cs)
    BY <2>1, SomeCalls DEF Verdicts
  <2>3. QED BY <2>1, <2>2 DEF Seen, FreshCalls, OfVerdict, Busy
<1>8. \E D \in Wells : Leads(B, q.ops, D) /\ Booked(D, C, o, cs)
  <2>1. CASE cs = {}
    <3>1. Booked(C, C, o, cs)
      BY <2>1 DEF Booked
    <3>2. q.ops = r.ops
      BY <2>1 DEF NewsPlan, r
    <3>3. QED BY <1>6, <3>1, <3>2
  <2>2. CASE cs # {}
    <3>1. q.ops = r.ops \o ShiftsOf(o, cs)
      BY <2>2 DEF NewsPlan, r
    <3> HIDE DEF cs
    <3>2. QED BY <1>2, <1>5, <1>6, <1>7, <3>1, FreshLands
  <2>3. QED BY <2>1, <2>2
<1>9. PICK D \in Wells : Leads(B, q.ops, D) /\ Booked(D, C, o, cs)
  BY <1>8
<1> HIDE DEF cs
<1>10. ASSUME NEW c \in DOMAIN of PROVE \E u \in home : Kept(B, D, c, u, staff)
  <2>1. c \in NewCall
    BY DEF Verdicts, CallSet
  <2>2. CASE c \in Busy(of)
    <3>1. cs \subseteq DOMAIN of \ Busy(of)
      BY <1>7
    <3>2. Kept(B, D, c, T[c].order, staff)
      BY <1>1, <1>2, <1>6, <1>9, <2>2, <3>1, BusyKept
    <3>3. T[c].order \in home
      <4>1. T[c] \in Teams(ps)
        BY <1>1, <2>2 DEF Assigned, Reshaping
      <4>2. QED BY <4>1 DEF Within
    <3>4. QED BY <3>2, <3>3
  <2>3. CASE c \in cs
    <3>1. Kept(B, D, c, o, staff)
      BY <1>1, <1>2, <1>6, <1>7, <1>9, <2>1, <2>3, FreshKept
    <3>2. QED BY <3>1
  <2>4. CASE c \notin Busy(of) /\ c \notin cs
    <3>1. of[c].kind = "held"
      BY <2>4 DEF Seen, cs, FreshCalls, OfVerdict
    <3>2. PICK u \in home : BookedHere(OnOrder(B, u), c, staff) /\ of[c] = BookedAt(OnOrder(B, u), c, staff)
      BY <3>1 DEF Seen
    <3>3. u \in Nat \ {0}
      BY <1>2
    <3>4. Kept(B, D, c, u, staff)
      BY <1>1, <1>6, <1>7, <1>9, <2>1, <2>4, <3>1, <3>2, <3>3, StillKept
    <3>5. QED BY <3>4
  <2>5. QED BY <2>2, <2>3, <2>4
<1>11. AllKept(B, D, DOMAIN of, home, staff)
  BY <1>10 DEF AllKept
<1>12. QED BY <1>9, <1>11

-----------------------------------------------------------------------------
(* The plan of an email of new calls. *)

\* The orders an email's calls may be on.
HomeOf(m) == IF m.named # 0 THEN {m.named} ELSE Nat \ {0}

LEMMA NewsDecide ==
  ASSUME NEW B, WellFormed(B), NEW m, MailOf(m.asks), NewIn(m) = DOMAIN m.asks, NEW staff, m.named \in Nat
  PROVE  Decide(B, m, staff) = IF NewIn(m) = {} THEN NoPlan
                               ELSE IF m.named # 0 THEN AddToNamedAs(NoPlan, OnOrder(B, m.named), NamedVerdicts(OnOrder(B, m.named), m, staff))
                               ELSE BookNewAs(NoPlan, B, NewVerdicts(B, m, staff), m.near)
<1> DEFINE ps == OnOrder(B, m.named)
<1>1. \A i \in 1..Len(m.asks) : m.asks[i].action = "new_shift"
  <2>1. DOMAIN m.asks = 1..Len(m.asks)
    BY DEF MailOf
  <2>2. QED BY <2>1 DEF NewIn
<1>2. ChangesAsked(ps, NoPlan, m.asks) = NoPlan
  <2>1. ps \subseteq B
    BY OrdersAre
  <2> HIDE DEF ps
  <2>2. QED BY <1>1, <2>1, AskedOfOne
<1>3. ~NoPlan.refused /\ ~TwoOnOne(NoPlan)
  BY DEF NoPlan, TwoOnOne
<1>4. Decide(B, m, staff) = WithNews(NoPlan, B, m, staff)
  BY <1>2 DEF Decide
<1> DEFINE v == NamedVerdicts(ps, m, staff)
           u == NewVerdicts(B, m, staff)
<1>5. AddToNamed(NoPlan, ps, m, staff) = AddToNamedAs(NoPlan, ps, v)
  BY DEF AddToNamed, NamedVerdicts
<1>6. BookNew(NoPlan, B, m, staff) = BookNewAs(NoPlan, B, u, m.near)
  BY DEF BookNew, NewVerdicts
<1>7. WithNews(NoPlan, B, m, staff) = IF NewIn(m) = {} THEN NoPlan
                               ELSE IF m.named # 0 THEN AddToNamed(NoPlan, ps, m, staff) ELSE BookNew(NoPlan, B, m, staff)
  BY <1>3 DEF WithNews
<1> HIDE DEF ps, u, v
<1>8. QED BY <1>4, <1>5, <1>6, <1>7 DEF ps, u, v

LEMMA SeenNamed ==
  ASSUME NEW B \in Wells, NEW o \in Nat \ {0}, NEW m, MailOf(m.asks), NEW staff, NEW of, of = NamedVerdicts(OnOrder(B, o), m, staff),
         OfVerdict(of, "person") = {}
  PROVE  Seen(B, of, staff, {o})
<1>0. WellFormed(B)
  BY DEF Wells
<1>1. OnOrder(B, o) \subseteq B
  BY <1>0, OrdersAre
<1>2. DOMAIN of = Calls(m) /\ Calls(m) \subseteq NewCall
  BY CallsAre DEF NamedVerdicts
<1> SUFFICES ASSUME NEW c \in DOMAIN of
             PROVE  /\ of[c].kind = "held" => BookedHere(OnOrder(B, o), c, staff) /\ of[c] = BookedAt(OnOrder(B, o), c, staff)
                    /\ of[c].kind = "fresh" => of[c].asks = <<>> /\ (c.trade = 0 => On(B, o, c.w.b) = {})
                    /\ of[c].kind \in {"held", "fresh"}
  BY DEF Seen
<1>3. c \in Calls(m) /\ c \in NewCall
  BY <1>2
<1>4. of[c] = BookedAt(OnOrder(B, o), c, staff)
  BY <1>3 DEF NamedVerdicts
<1>5. BookedHere(OnOrder(B, o), c, staff)
  BY <1>0, <1>1, <1>3, BookedIs
<1>6. StartingAt(OnOrder(B, o), c) = On(B, o, c.w.b)
  BY AtIsOn
<1>7. of[c].kind # "person"
  BY DEF OfVerdict
<1>8. QED BY <1>4, <1>5, <1>6, <1>7 DEF BookedHere, IsVerdict

LEMMA SeenNew ==
  ASSUME NEW B \in Wells, NEW m, MailOf(m.asks), NEW staff, NEW of, of = NewVerdicts(B, m, staff), OfVerdict(of, "person") = {}
  PROVE  Seen(B, of, staff, Nat \ {0})
<1>0. WellFormed(B)
  BY DEF Wells
<1>2. DOMAIN of = Calls(m) /\ Calls(m) \subseteq NewCall
  BY CallsAre DEF NewVerdicts
<1> SUFFICES ASSUME NEW c \in DOMAIN of
             PROVE  /\ of[c].kind = "held" =>
                         \E o \in Nat \ {0} : BookedHere(OnOrder(B, o), c, staff) /\ of[c] = BookedAt(OnOrder(B, o), c, staff)
                    /\ of[c].kind = "fresh" => of[c].asks = <<>> /\ (c.trade = 0 => \A o \in Nat \ {0} : On(B, o, c.w.b) = {})
                    /\ of[c].kind \in {"held", "fresh"}
  BY DEF Seen
<1>3. c \in Calls(m) /\ c \in NewCall
  BY <1>2
<1>4. of[c] = Verdict(B, c, staff)
  BY <1>3 DEF NewVerdicts
<1>5. VerdictHere(B, c, staff)
  BY <1>0, <1>3, VerdictIs
<1>6. of[c].kind \in {"held", "fresh"}
  BY <1>4, <1>5 DEF OfVerdict, VerdictHere, IsVerdict
<1>7. ASSUME of[c].kind = "held"
      PROVE  \E o \in Nat \ {0} : BookedHere(OnOrder(B, o), c, staff) /\ of[c] = BookedAt(OnOrder(B, o), c, staff)
  <2>1. PICK o \in Hits(B, c) : of[c] = BookedAt(OnOrder(B, o), c, staff)
    BY <1>4, <1>5, <1>7 DEF VerdictHere
  <2>2. o \in Nat \ {0} /\ OnOrder(B, o) \subseteq B
    BY <1>0, OrdersAre
  <2>3. BookedHere(OnOrder(B, o), c, staff)
    BY <1>0, <1>3, <2>2, BookedIs
  <2>4. QED BY <2>1, <2>2, <2>3
<1>8. ASSUME of[c].kind = "fresh" PROVE of[c].asks = <<>> /\ (c.trade = 0 => \A o \in Nat \ {0} : On(B, o, c.w.b) = {})
  <2>1. of[c].asks = <<>> /\ (c.trade = 0 => Hits(B, c) = {})
    BY <1>4, <1>5, <1>8 DEF VerdictHere
  <2>2. Hits(B, c) = {} => \A o \in Nat \ {0} : On(B, o, c.w.b) = {}
    BY DEF Hits, On
  <2>3. QED BY <2>1, <2>2
<1>9. QED BY <1>6, <1>7, <1>8

LEMMA WithinNamed ==
  ASSUME NEW B \in Wells, NEW o \in Nat \ {0}
  PROVE  Within(B, OnOrder(B, o), {o})
<1>1. OnOrder(B, o) = {s \in B : s.order = o}
  BY DEF OnOrder
<1>2. QED BY <1>1 DEF Within, Teams, Of

LEMMA WithinAll ==
  ASSUME NEW B \in Wells
  PROVE  Within(B, B, Nat \ {0})
<1>1. \A t \in Teams(B) : t \in Home
  BY TeamsAre DEF Wells
<1>2. QED BY <1>1 DEF Within, Home

LEMMA DecideNews ==
  ASSUME NEW B \in Wells, NEW m, MailOf(m.asks), NewIn(m) = DOMAIN m.asks, NEW staff, m.named \in Orders(B) \cup {0},
         PlainAt(B, Calls(m)), StartsApart(Calls(m)), ~Decide(B, m, staff).refused
  PROVE  \E D \in Wells : Leads(B, Decide(B, m, staff).ops, D) /\ AllKept(B, D, Calls(m), HomeOf(m), staff)
<1> DEFINE q == Decide(B, m, staff)
<1>0. WellFormed(B) /\ NoPlan \in Plans(B) /\ ~NoPlan.refused /\ NoPlan.ops = <<>> /\ m.named \in Nat
  BY RefusedOK, OrdersAre DEF Wells
<1>1. CASE NewIn(m) = {}
  <2>1. q = NoPlan
    BY <1>0, <1>1, NewsDecide
  <2>2. Calls(m) = {}
    BY <1>1 DEF Calls
  <2>3. Leads(B, q.ops, B) /\ AllKept(B, B, Calls(m), HomeOf(m), staff)
    BY <1>0, <2>1, <2>2, LeadsNone DEF AllKept
  <2>4. QED BY <2>3
<1>2. CASE NewIn(m) # {} /\ m.named # 0
  <2> DEFINE o == m.named
             ps == OnOrder(B, o)
             of == NamedVerdicts(ps, m, staff)
  <2>1. q = AddToNamedAs(NoPlan, ps, of)
    BY <1>0, <1>2, NewsDecide
  <2>2. o \in Nat \ {0} /\ ps \subseteq B /\ ps # {} /\ Within(B, ps, {o}) /\ First(ps).order = o
    <3>1. o \in Orders(B) /\ o \in Nat \ {0}
      BY <1>0, <1>2, OrdersAre
    <3>2. ps = {s \in B : s.order = o}
      BY <3>1 DEF OnOrder
    <3>3. PICK s \in B : s.order = o
      BY <3>1 DEF Orders
    <3>4. ps \subseteq B /\ ps # {}
      BY <3>2, <3>3
    <3>5. First(ps) \in ps
      BY <1>0, <3>4, FirstIs
    <3>6. Within(B, ps, {o})
      BY <3>1, WithinNamed
    <3>7. QED BY <3>1, <3>2, <3>4, <3>5, <3>6
  <2>3. Verdicts(of, ps) /\ DOMAIN of = Calls(m)
    BY <1>0, <2>2, VerdictsAre
  <2>4. HomeOf(m) = {o}
    BY <1>2 DEF HomeOf
  <2>5. of = NamedVerdicts(ps, m, staff)
    OBVIOUS
  <2> HIDE DEF q, of
  <2>6. AddedToNamed(q, NoPlan, ps, of)
    BY ONLY <1>0, <2>1, <2>2, <2>3, NamedOK
  <2>7. ~q.refused
    BY DEF q
  <2>8. OfVerdict(of, "person") = {} /\ NewsPlan(q, B, ps, of, o)
    BY <2>2, <2>6, <2>7 DEF AddedToNamed, NewsPlan
  <2>9. Seen(B, of, staff, {o})
    BY <2>2, <2>5, <2>8, SeenNamed
  <2>10. o \in {o} /\ PlainAt(B, DOMAIN of) /\ StartsApart(DOMAIN of)
    BY <2>3
  <2> HIDE DEF ps
  <2>11. \E D \in Wells : Leads(B, q.ops, D) /\ AllKept(B, D, DOMAIN of, {o}, staff)
    BY ONLY B \in Wells, <2>2, <2>3, <2>8, <2>9, <2>10, NewsKept
  <2>12. QED BY <2>3, <2>4, <2>11 DEF q
<1>3. CASE NewIn(m) # {} /\ m.named = 0
  <2> DEFINE of == NewVerdicts(B, m, staff)
             home == Nat \ {0}
  <2>1. q = BookNewAs(NoPlan, B, of, m.near)
    BY <1>0, <1>3, NewsDecide
  <2>2. Verdicts(of, B) /\ DOMAIN of = Calls(m) /\ HeldHit(B, of) /\ Within(B, B, home)
    BY <1>0, VerdictsAre, HeldAreHit, WithinAll
  <2>3. HomeOf(m) = home
    BY <1>3 DEF HomeOf
  <2>4. of = NewVerdicts(B, m, staff)
    OBVIOUS
  <2> HIDE DEF q, of
  <2>5. AddedToNew(q, NoPlan, B, of)
    <3>1. B \subseteq B
      OBVIOUS
    <3>2. AddedToNew(BookNewAs(NoPlan, B, of, m.near), NoPlan, B, of)
      BY ONLY <1>0, <2>2, <3>1, NewOK
    <3>3. QED BY <2>1, <3>2
  <2>6. ~q.refused
    BY DEF q
  <2>7. PICK o \in home : NewsPlan(q, B, B, of, o)
    <3>1. CASE FreshCalls(of) = {}
      <4>1. NewsPlan(q, B, B, of, 1) /\ 1 \in home
        BY <2>5, <2>6, <3>1 DEF AddedToNew, NewsPlan
      <4>2. QED BY <4>1
    <3>2. CASE FreshCalls(of) # {}
      BY <2>5, <2>6, <3>2 DEF AddedToNew, NewsPlan
    <3>3. QED BY <3>1, <3>2
  <2>8. Seen(B, of, staff, home)
    <3>1. OfVerdict(of, "person") = {}
      BY <2>5, <2>6 DEF AddedToNew
    <3>2. QED BY <2>4, <3>1, SeenNew
  <2>9. PlainAt(B, DOMAIN of) /\ StartsApart(DOMAIN of)
    BY <2>2
  <2> HIDE DEF home
  <2>10. \E D \in Wells : Leads(B, q.ops, D) /\ AllKept(B, D, DOMAIN of, home, staff)
    BY ONLY B \in Wells, <2>2, <2>7, <2>8, <2>9, NewsKept
  <2>11. QED BY <2>2, <2>3, <2>10 DEF q
<1>4. QED BY <1>1, <1>2, <1>3

-----------------------------------------------------------------------------
(* The same email, planned again. *)

\* Nothing to do for a call that is kept: it is held, with no change asked or with one that finds the people and the chiefs it asks.
Rests(v, ps, c) ==
  /\ v.kind # "fresh"
  /\ v.asks = <<>> \/ (c.trade = 0 /\ \E t \in Teams(ps) : Ruled(c, Of(ps, t)) /\ v.asks = <<CrewAsk(c, t)>>)

LEMMA KeptRests ==
  ASSUME NEW B, NEW D \in Wells, NEW c \in NewCall, NEW o \in Nat \ {0}, NEW staff, Kept(B, D, c, o, staff), ~BothOn(B, c),
         NEW ps, ps \subseteq D, \A t \in Teams(D) : t.order = o => t \in Teams(ps) /\ Of(ps, t) = Of(D, t),
         NEW v, v = BookedAt(OnOrder(D, o), c, staff), v.kind # "person"
  PROVE  Rests(v, ps, c)
<1> DEFINE on == On(D, o, c.w.b)
<1>0. WellFormed(D)
  BY DEF Wells
<1>1. BookedHere(OnOrder(D, o), c, staff) /\ StartingAt(OnOrder(D, o), c) = on
  BY <1>0, BookedIs, OrdersAre, AtIsOn
<1>2. c.trade \in Nat
  BY CallParts
<1>3. on # {} /\ (c.trade > 0 => \E x \in on : x.e = c.w.e)
  BY DEF Kept
<1>4. c.trade = 0 /\ Teams(on) \cap staff = {} => SameEnd(c, on) /\ (c.crew = People(on) \/ Settled(D, c, on))
  BY DEF Kept
<1> HIDE DEF on
<1>5. v.kind = "held"
  <2>1. v.kind \in {"fresh", "held", "person"}
    BY <1>1 DEF BookedHere, IsVerdict
  <2>2. v.kind # "fresh"
    BY <1>1, <1>2, <1>3 DEF BookedHere
  <2>3. QED BY <2>1, <2>2
<1>6. CASE c.trade > 0
  BY <1>1, <1>5, <1>6 DEF BookedHere, Rests
<1>7. CASE c.trade = 0 /\ Untouched(c, on, staff)
  BY <1>1, <1>5, <1>7 DEF BookedHere, Rests
<1>8. CASE c.trade = 0 /\ ~Untouched(c, on, staff)
  <2>1. SameEnd(c, on) /\ c.crew # People(on) /\ Settled(D, c, on)
    BY <1>4, <1>8 DEF Untouched
  <2>2. PICK t \in Teams(on) : Changed(c, on, t) /\ v.asks = <<CrewAsk(c, t)>> \o <<>>
    BY <1>1, <1>5, <1>8, <2>1 DEF BookedHere
  <2>3. Of(D, t) = on /\ Ruled(c, on)
    BY <2>1, <2>2 DEF Settled, Changed
  <2>4. t \in Teams(D) /\ t.order = o
    <3>1. PICK y \in on : t = [order |-> y.order, team |-> y.team]
      BY <2>2 DEF Teams
    <3>2. y \in D /\ y.order = o
      BY <3>1 DEF on, On
    <3>3. QED BY <3>1, <3>2 DEF Teams
  <2>5. v.asks = <<CrewAsk(c, t)>>
    <3> DEFINE r == CrewAsk(c, t)
    <3> HIDE DEF r
    <3>1. <<r>> \o <<>> = <<r>>
      OBVIOUS
    <3>2. QED BY <2>2, <3>1 DEF r
  <2>6. t \in Teams(ps) /\ Of(ps, t) = on
    BY <2>3, <2>4
  <2>7. QED BY <1>5, <1>8, <2>3, <2>5, <2>6 DEF Rests
<1>9. QED BY <1>2, <1>6, <1>7, <1>8

\* Calls that rest add nothing to a plan, or a person makes it.
LEMMA ReshapedRests ==
  ASSUME NEW B \in Wells, NEW ps, ps \subseteq B, NEW of, Verdicts(of, ps), \A c \in DOMAIN of : Rests(of[c], ps, c)
  PROVE  Quiet(Reshaped(ps, NoPlan, of), NoPlan)
<1> DEFINE s == InOrder(DOMAIN of)
           n == Cardinality(DOMAIN of)
<1>0. WellFormed(B) /\ NoPlan \in Plans(B) /\ ~NoPlan.refused
  BY RefusedOK DEF Wells
<1>1. PICK g \in [0..n -> Plans(B)] : ReshapedBy(g, ps, NoPlan, of)
  BY <1>0, ReshapedSteps
<1>2. n \in Nat /\ \A i \in 1..n : s[i] \in DOMAIN of /\ s[i] \in NewCall
  BY InOrderIs DEF Verdicts, CallSet
<1>3. g[0] = NoPlan /\ Reshaped(ps, NoPlan, of) = g[n] /\ \A k \in 1..n : g[k] = Changes(ps, g[k - 1], of[s[k]].asks)
  BY <1>1 DEF ReshapedBy
<1> HIDE DEF s, n
<1>4. ASSUME NEW k \in 1..n, NEW p \in Plans(B)
      PROVE  Quiet(Changes(ps, p, of[s[k]].asks), p)
  <2> DEFINE c == s[k]
             rs == of[c].asks
  <2>1. c \in DOMAIN of /\ c \in NewCall /\ rs \in Seq(Asks(ps)) /\ Rests(of[c], ps, c)
    BY <1>2 DEF Verdicts, IsVerdict
  <2> HIDE DEF c, rs
  <2>5. rs = <<>> => Changes(ps, p, rs) = p
    <3>1. Changes(ps, p, rs) \in Plans(B) /\ (Len(rs) = 0 => Changes(ps, p, rs) = p)
      BY <1>0, <2>1, ChangesOK
    <3>2. QED BY <3>1
  <2>2. CASE rs = <<>>
    <3>1. Changes(ps, p, rs) = p
      BY <2>2, <2>5
    <3>2. p.refused \in BOOLEAN
      BY PlanParts
    <3>3. QED BY <3>1, <3>2 DEF Quiet, c, rs
  <2>3. CASE rs # <<>>
    <3>1. PICK t \in Teams(ps) : Ruled(c, Of(ps, t)) /\ rs = <<CrewAsk(c, t)>> /\ c.trade = 0
      BY <2>1, <2>3 DEF Rests, rs
    <3> DEFINE r == CrewAsk(c, t)
    <3>2. Quiet(Change(ps, p, r), p)
      BY <2>1, <3>1, RuledQuiet
    <3>3. rs = <<r>>
      BY <3>1
    <3> HIDE DEF r
    <3>4. Len(rs) = 1 /\ rs[1] = r
      BY <3>3
    <3>5. Changes(ps, p, rs) = Change(ps, p, rs[1])
      BY <1>0, <2>1, <3>4, ChangesOK
    <3>6. QED BY <3>2, <3>4, <3>5 DEF c, rs
  <2>4. QED BY <2>2, <2>3
<1> DEFINE quiet == {k \in 0..n : Quiet(g[k], NoPlan)}
<1>5. 0 \in quiet
  BY <1>0, <1>2, <1>3 DEF Quiet
<1>6. \A k \in 0..(n - 1) : k \in quiet => k + 1 \in quiet
  <2> SUFFICES ASSUME NEW k \in 0..(n - 1), k \in quiet PROVE Quiet(g[k + 1], NoPlan)
    BY <1>2
  <2>1. k + 1 \in 1..n /\ (k + 1) - 1 = k /\ g[k] \in Plans(B)
    BY <1>2
  <2>2. Quiet(g[k + 1], g[k])
    <3>1. g[k + 1] = Changes(ps, g[k], of[s[k + 1]].asks)
      BY <1>3, <2>1
    <3>2. QED BY <1>4, <2>1, <3>1
  <2>3. QED BY <2>2 DEF Quiet
<1> HIDE DEF quiet
<1>7. n \in quiet
  <2>1. \A k \in 0..n : k \in quiet
    BY <1>2, <1>5, <1>6, Upwards
  <2>2. QED BY <1>2, <2>1
<1>8. QED BY <1>3, <1>7 DEF quiet

LEMMA NewsRest ==
  ASSUME NEW D \in Wells, NEW ps, ps \subseteq D, NEW of, Verdicts(of, ps), \A c \in DOMAIN of : of[c].kind = "person" \/ Rests(of[c], ps, c)
  PROVE  /\ Quiet(AddToNamedAs(NoPlan, ps, of), NoPlan)
         /\ \A near : HeldHit(ps, of) => Quiet(BookNewAs(NoPlan, ps, of, near), NoPlan)
<1>0. WellFormed(D) /\ NoPlan \in Plans(D) /\ ~NoPlan.refused /\ Refused.refused
  BY RefusedOK DEF Wells
<1>1. CASE OfVerdict(of, "person") # {}
  BY <1>0, <1>1 DEF AddToNamedAs, BookNewAs, Quiet
<1>2. CASE OfVerdict(of, "person") = {}
  <2>1. \A c \in DOMAIN of : Rests(of[c], ps, c)
    BY <1>2 DEF OfVerdict
  <2>2. Quiet(Reshaped(ps, NoPlan, of), NoPlan)
    BY <2>1, ReshapedRests
  <2>3. FreshCalls(of) = {}
    BY <2>1 DEF FreshCalls, OfVerdict, Rests
  <2>4. AddToNamedAs(NoPlan, ps, of) \in Plans(D) /\ AddedToNamed(AddToNamedAs(NoPlan, ps, of), NoPlan, ps, of)
    BY <1>0, <2>3, NamedOK
  <2>5. Quiet(AddToNamedAs(NoPlan, ps, of), NoPlan)
    BY <1>0, <2>2, <2>3, <2>4 DEF AddedToNamed, Quiet
  <2>6. ASSUME NEW near, HeldHit(ps, of) PROVE Quiet(BookNewAs(NoPlan, ps, of, near), NoPlan)
    <3>0. WellFormed(ps)
      BY <1>0, BookSized
    <3>1. AddedToNew(BookNewAs(NoPlan, ps, of, near), NoPlan, ps, of)
      BY <1>0, <2>6, NewOK
    <3>2. QED BY <1>0, <2>2, <2>3, <3>1 DEF AddedToNew, Quiet
  <2>7. QED BY <2>5, <2>6
<1>3. QED BY <1>1, <1>2

LEMMA DecideAgain ==
  ASSUME NEW B, NEW D \in Wells, NEW m, MailOf(m.asks), NewIn(m) = DOMAIN m.asks, NEW staff, m.named \in Nat,
         AllKept(B, D, Calls(m), HomeOf(m), staff), \A c \in Calls(m) : ~BothOn(B, c)
  PROVE  Quiet(Decide(D, m, staff), NoPlan)
<1> DEFINE q == Decide(D, m, staff)
<1>0. WellFormed(D) /\ ~NoPlan.refused /\ D \subseteq D /\ Calls(m) \subseteq NewCall
  BY RefusedOK, CallsAre DEF Wells
<1>1. CASE NewIn(m) = {}
  <2>1. q = NoPlan
    BY <1>0, <1>1, NewsDecide
  <2>2. QED BY <1>0, <2>1 DEF Quiet
<1>2. CASE NewIn(m) # {} /\ m.named # 0
  <2> DEFINE o == m.named
             ps == OnOrder(D, o)
             of == NamedVerdicts(ps, m, staff)
  <2>1. q = AddToNamedAs(NoPlan, ps, of)
    BY <1>0, <1>2, NewsDecide
  <2>2. o \in Nat \ {0} /\ ps \subseteq D /\ Within(D, ps, {o}) /\ HomeOf(m) = {o}
    <3>1. o \in Nat \ {0}
      BY <1>2
    <3>2. QED BY <1>0, <1>2, <3>1, WithinNamed, OrdersAre DEF HomeOf
  <2>3. Verdicts(of, ps) /\ DOMAIN of = Calls(m)
    BY <1>0, <2>2, VerdictsAre
  <2>4. \A c \in Calls(m) : of[c] = BookedAt(ps, c, staff)
    BY DEF NamedVerdicts
  <2> HIDE DEF of
  <2>5. ASSUME NEW c \in Calls(m), of[c].kind # "person" PROVE Rests(of[c], ps, c)
    <3>1. Kept(B, D, c, o, staff) /\ ~BothOn(B, c) /\ c \in NewCall
      BY <1>0, <2>2 DEF AllKept
    <3>2. \A t \in Teams(D) : t.order = o => t \in Teams(ps) /\ Of(ps, t) = Of(D, t)
      BY <2>2 DEF Within
    <3> DEFINE v == BookedAt(OnOrder(D, o), c, staff)
    <3>3. v = BookedAt(OnOrder(D, o), c, staff) /\ v.kind # "person" /\ of[c] = v
      BY <2>4, <2>5
    <3> HIDE DEF v, ps
    <3>4. Rests(v, ps, c)
      BY <2>2, <3>1, <3>2, <3>3, KeptRests
    <3>5. QED BY <3>3, <3>4
  <2>6. Quiet(AddToNamedAs(NoPlan, ps, of), NoPlan)
    BY <2>2, <2>3, <2>5, NewsRest
  <2>7. QED BY <2>1, <2>6
<1>3. CASE NewIn(m) # {} /\ m.named = 0
  <2> DEFINE of == NewVerdicts(D, m, staff)
  <2>1. q = BookNewAs(NoPlan, D, of, m.near)
    BY <1>0, <1>3, NewsDecide
  <2>2. Verdicts(of, D) /\ DOMAIN of = Calls(m) /\ HeldHit(D, of)
    BY <1>0, VerdictsAre, HeldAreHit
  <2>3. \A c \in Calls(m) : of[c] = Verdict(D, c, staff)
    BY DEF NewVerdicts
  <2> HIDE DEF of
  <2>4. ASSUME NEW c \in Calls(m), of[c].kind # "person" PROVE Rests(of[c], D, c)
    <3>1. PICK o \in Nat \ {0} : Kept(B, D, c, o, staff)
      BY <1>3 DEF AllKept, HomeOf
    <3>2. ~BothOn(B, c) /\ c \in NewCall
      BY <1>0
    <3>3. o \in Hits(D, c)
      <4>1. PICK s \in D : s.order = o /\ s.b = c.w.b
        BY <3>1 DEF Kept, On
      <4>2. QED BY <4>1 DEF Hits
    <3>4. VerdictHere(D, c, staff)
      BY <1>0, <3>2, VerdictIs
    <3>5. PICK a \in Hits(D, c) : /\ of[c] = BookedAt(OnOrder(D, a), c, staff)
                                  /\ Hits(D, c) = {a} \/ \A x \in Hits(D, c) : BookedAt(OnOrder(D, x), c, staff) = HeldWith(<<>>)
      BY <2>3, <2>4, <3>3, <3>4 DEF VerdictHere
    <3>6. of[c] = BookedAt(OnOrder(D, o), c, staff)
      BY <3>3, <3>5
    <3> DEFINE v == of[c]
    <3>7. v = BookedAt(OnOrder(D, o), c, staff) /\ v.kind # "person"
      BY <2>4, <3>6
    <3> HIDE DEF v
    <3>8. Rests(v, D, c)
      BY <1>0, <3>1, <3>2, <3>7, KeptRests
    <3>9. QED BY <3>8 DEF v
  <2>5. Quiet(BookNewAs(NoPlan, D, of, m.near), NoPlan)
    BY <1>0, <2>2, <2>4, NewsRest
  <2>6. QED BY <2>1, <2>5
<1>4. QED BY <1>1, <1>2, <1>3

-----------------------------------------------------------------------------
(* PeopleAsAsked and RestatedIsNothing. *)

LEMMA LeadsNowhere ==
  ASSUME NEW B, NEW D, Leads(B, <<>>, D)
  PROVE  D = B
<1> DEFINE f == [k \in {0} |-> B]
<1>1. f[0] = B /\ Len(<<>>) = 0
  OBVIOUS
<1>2. LandsBy(f, B, <<>>)
  BY <1>1 DEF LandsBy
<1> HIDE DEF f
<1>3. f[Len(<<>>)] = D
  BY <1>2 DEF Leads
<1>4. QED BY <1>1, <1>3

\* One more on a position: its shift is staff's from then on.
Edited(D, s) == (D \ {s}) \cup {[s EXCEPT !.size = @ + 1]}

LEMMA EditedOn ==
  ASSUME NEW D \in Wells, NEW s \in D, NEW o, NEW b
  PROVE  /\ s \notin On(D, o, b) => On(Edited(D, s), o, b) = On(D, o, b)
         /\ s \in On(D, o, b) => \A x \in On(D, o, b) : \E y \in On(Edited(D, s), o, b) : y.e = x.e /\ (x = s => TeamOf(y) = TeamOf(s))
         /\ \A t : s \notin Of(D, t) => Of(Edited(D, s), t) = Of(D, t)
<1> DEFINE z == [s EXCEPT !.size = @ + 1]
<1>1. s \in Position
  BY DEF Wells
<1>2. z.order = s.order /\ z.team = s.team /\ z.b = s.b /\ z.e = s.e
  BY <1>1 DEF Position
<1> HIDE DEF z
<1>3. Edited(D, s) = (D \ {s}) \cup {z}
  BY DEF Edited, z
<1>4. ASSUME s \notin On(D, o, b) PROVE On(Edited(D, s), o, b) = On(D, o, b)
  BY <1>2, <1>3, <1>4 DEF On
<1>5. ASSUME s \in On(D, o, b), NEW x \in On(D, o, b)
      PROVE  \E y \in On(Edited(D, s), o, b) : y.e = x.e /\ (x = s => TeamOf(y) = TeamOf(s))
  <2>1. CASE x = s
    <3>1. z \in On(Edited(D, s), o, b)
      BY <1>2, <1>3, <1>5 DEF On
    <3>2. TeamOf(z) = TeamOf(s)
      BY <1>2 DEF TeamOf
    <3>3. QED BY <1>2, <2>1, <3>1, <3>2
  <2>2. CASE x # s
    <3>1. x \in On(Edited(D, s), o, b)
      BY <1>3, <1>5, <2>2 DEF On
    <3>2. QED BY <2>2, <3>1
  <2>3. QED BY <2>1, <2>2
<1>6. ASSUME NEW t, s \notin Of(D, t) PROVE Of(Edited(D, s), t) = Of(D, t)
  BY <1>2, <1>3, <1>6 DEF Of
<1>7. QED BY <1>4, <1>5, <1>6

LEMMA KeptEdited ==
  ASSUME NEW B, NEW D \in Wells, NEW s \in D, NEW c, NEW o, NEW staff, Kept(B, D, c, o, staff)
  PROVE  Kept(B, Edited(D, s), c, o, staff \cup Teams({s}))
<1> DEFINE on == On(D, o, c.w.b)
           is == On(Edited(D, s), o, c.w.b)
           more == staff \cup Teams({s})
<1>1. on # {} /\ (c.trade > 0 => \E x \in on : x.e = c.w.e)
  BY DEF Kept
<1>2. TeamOf(s) \in more
  BY DEF Teams, TeamOf
<1>3. CASE s \in on
  <2>1. \A x \in on : \E y \in is : y.e = x.e /\ (x = s => TeamOf(y) = TeamOf(s))
    BY <1>3, EditedOn
  <2>2. PICK y \in is : TeamOf(y) = TeamOf(s)
    BY <1>3, <2>1
  <2>3. TeamOf(s) \in Teams(is)
    BY <2>2 DEF Teams, TeamOf
  <2>4. Teams(is) \cap more # {}
    BY <1>2, <2>3
  <2>5. is # {} /\ (c.trade > 0 => \E x \in is : x.e = c.w.e)
    BY <1>1, <2>1, <2>2
  <2> HIDE DEF is, more
  <2>6. QED BY <2>4, <2>5 DEF Kept, is, more
<1>4. CASE s \notin on
  <2>1. is = on
    BY <1>4, EditedOn
  <2>2. Settled(D, c, on) => Settled(Edited(D, s), c, on)
    <3> SUFFICES ASSUME Settled(D, c, on) PROVE Settled(Edited(D, s), c, on)
      OBVIOUS
    <3>1. PICK t \in Home : Teams(on) = {t} /\ Of(D, t) = on /\ Ruled(c, on)
      BY DEF Settled
    <3>2. Of(Edited(D, s), t) = on
      BY <1>4, <3>1, EditedOn
    <3> HIDE DEF on
    <3>3. QED BY <3>1, <3>2 DEF Settled
  <2>3. c.trade = 0 /\ Teams(on) \cap staff = {} =>
          /\ c.crew \in {People(on), People(PlainOf(on))}
          /\ BothOn(B, c) \/ (SameEnd(c, on) /\ (c.crew = People(on) \/ Settled(D, c, on)))
    BY DEF Kept
  <2>4. Teams(on) \cap more = {} => Teams(on) \cap staff = {}
    OBVIOUS
  <2> HIDE DEF is, on, more
  <2>5. QED BY <1>1, <2>1, <2>2, <2>3, <2>4 DEF Kept, is, on, more
<1>5. QED BY <1>3, <1>4

\* An email of new calls that start apart, where shifts that start with one are plain, leaves each of them kept.
AsPlanned == NewIn(email) = DOMAIN email.asks /\ StartsApart(Calls(email)) /\ PlainAt(before, Calls(email))
KeptInv == stage \in {"written", "nothing"} /\ AsPlanned => AllKept(before, book, Calls(email), HomeOf(email), touched)

LEMMA KeptPlanned ==
  ASSUME PlanInv, Plan
  PROVE  KeptInv'
<1> SUFFICES ASSUME stage' = "nothing", AsPlanned' PROVE AllKept(before', book', Calls(email'), HomeOf(email'), touched')
  BY DEF KeptInv, Plan
<1> DEFINE q == Decide(book, email, touched)
<1>1. ~q.refused /\ q.ops = <<>> /\ before' = book /\ book' = book /\ email' = email /\ touched' = touched /\ stage = "sent"
  BY DEF Plan
<1>2. book \in Wells /\ MailOf(email.asks) /\ email.named \in Orders(book) \cup {0}
  BY <1>1 DEF PlanInv, BookOK, MailOK
<1>3. NewIn(email) = DOMAIN email.asks /\ StartsApart(Calls(email)) /\ PlainAt(book, Calls(email))
  BY <1>1 DEF AsPlanned
<1>4. PICK D \in Wells : Leads(book, q.ops, D) /\ AllKept(book, D, Calls(email), HomeOf(email), touched)
  BY <1>1, <1>2, <1>3, DecideNews
<1>5. D = book
  BY <1>1, <1>4, LeadsNowhere
<1>6. QED BY <1>1, <1>4, <1>5

LEMMA KeptWritten ==
  ASSUME PlanInv, Write
  PROVE  KeptInv'
<1> SUFFICES ASSUME stage' = "written", AsPlanned' PROVE AllKept(before', book', Calls(email'), HomeOf(email'), touched')
  BY DEF KeptInv, Write
<1> DEFINE q == Decide(before, email, touched)
<1>1. before' = before /\ email' = email /\ touched' = touched /\ stage = "writing" /\ todo' = <<>>
  BY DEF Write
<1>2. before \in Wells /\ MailOf(email.asks) /\ email.named \in Orders(before) \cup {0}
  BY <1>1 DEF PlanInv, BookOK, MailOK
<1>3. NewIn(email) = DOMAIN email.asks /\ StartsApart(Calls(email)) /\ PlainAt(before, Calls(email))
  BY <1>1 DEF AsPlanned
<1>4. ~q.refused /\ \A D : Leads(before, q.ops, D) => book' = D
  BY <1>1, WriteIs
<1>5. PICK D \in Wells : Leads(before, q.ops, D) /\ AllKept(before, D, Calls(email), HomeOf(email), touched)
  BY <1>2, <1>3, <1>4, DecideNews
<1>6. book' = D
  BY <1>4, <1>5
<1>7. QED BY <1>1, <1>5, <1>6

LEMMA KeptNext == PlanInv /\ KeptInv /\ [PlannerNext]_plannerVars => KeptInv'
<1> SUFFICES ASSUME PlanInv, KeptInv, [PlannerNext]_plannerVars PROVE KeptInv'
  OBVIOUS
<1>1. CASE Receive \/ PlanAgain
  <2>1. stage' \notin {"written", "nothing"}
    BY <1>1 DEF Receive, PlanAgain
  <2>2. QED BY <2>1 DEF KeptInv
<1>2. CASE Plan
  BY <1>2, KeptPlanned
<1>3. CASE Write
  BY <1>3, KeptWritten
<1>4. CASE StaffEdit
  <2>1. PICK s \in OfKind(book, "crew") : /\ book' = (book \ {s}) \cup {[s EXCEPT !.size = @ + 1]}
                                          /\ touched' = touched \cup Teams({s})
    BY <1>4 DEF StaffEdit
  <2>2. s \in book /\ book \in Wells /\ book' = Edited(book, s)
    BY <2>1 DEF OfKind, Edited, PlanInv, BookOK
  <2>3. stage' = stage /\ before' = before /\ email' = email
    BY <1>4 DEF StaffEdit
  <2> SUFFICES ASSUME stage \in {"written", "nothing"}, AsPlanned
               PROVE  AllKept(before, Edited(book, s), Calls(email), HomeOf(email), touched \cup Teams({s}))
    BY <2>1, <2>2, <2>3 DEF KeptInv, AsPlanned
  <2>4. AllKept(before, book, Calls(email), HomeOf(email), touched)
    BY DEF KeptInv
  <2>5. QED BY <2>2, <2>4, KeptEdited DEF AllKept
<1>5. CASE UNCHANGED plannerVars
  BY <1>5 DEF KeptInv, AsPlanned, plannerVars
<1>6. QED BY <1>1, <1>2, <1>3, <1>4, <1>5 DEF PlannerNext

LEMMA KeptAlways == PlannerSpec => []KeptInv
<1>1. PlannerInit => KeptInv
  BY DEF PlannerInit, KeptInv
<1>2. QED BY <1>1, KeptNext, InvAlways, PTL DEF PlannerSpec

LEMMA KeptPeople ==
  ASSUME NEW B, NEW D \in Wells, NEW c \in NewCall, NEW o, Kept(B, D, c, o, {})
  PROVE  HasPeople(c, {s \in D : s.b = c.w.b})
<1> DEFINE over == {s \in D : s.b = c.w.b}
           on == On(D, o, c.w.b)
<1>1. {s \in over : s.order = o} = on
  BY DEF On
<1>2. o \in Orders(over)
  <2>1. PICK s \in on : TRUE
    BY DEF Kept
  <2>2. s \in over /\ s.order = o
    BY DEF On
  <2>3. QED BY <2>2 DEF Orders
<1>3. c.trade = 0 => c.crew \in {People(on), People(PlainOf(on))}
  BY DEF Kept
<1>4. on \ OfKind(on, "trade") = PlainOf(on)
  <2>1. \A s \in on : s.kind \in {"chief", "crew", "trade"}
    BY DEF On, Wells, Position, Kind
  <2> HIDE DEF on
  <2>2. QED BY <2>1 DEF OfKind, PlainOf
<1> HIDE DEF on
<1>5. c.trade = 0 => c.crew \in {People(on), People(on \ OfKind(on, "trade"))}
  BY <1>3, <1>4
<1>6. \E p \in Orders(over) : LET at == {s \in over : s.order = p} IN c.trade = 0 => c.crew \in {People(at), People(at \ OfKind(at, "trade"))}
  BY <1>1, <1>2, <1>5
<1>7. QED BY <1>6 DEF HasPeople

PeoplePlain == PlainAt(before, Calls(email)) => PeopleAsAsked

LEMMA PeopleKept ==
  ASSUME PlanInv, KeptInv
  PROVE  PeoplePlain
<1> SUFFICES ASSUME PlainAt(before, Calls(email)), stage = "written", touched = {}, OnlyNew, StartApart, NEW c \in Calls(email)
             PROVE  HasPeople(c, {s \in book : s.b = c.w.b})
  BY DEF PeoplePlain, PeopleAsAsked
<1>1. AsPlanned
  BY DEF AsPlanned, OnlyNew, StartApart, StartsApart
<1>2. AllKept(before, book, Calls(email), HomeOf(email), {})
  BY <1>1 DEF KeptInv
<1>3. book \in Wells /\ MailOf(email.asks)
  BY DEF PlanInv, BookOK, MailOK
<1>4. c \in NewCall
  BY <1>3, CallsAre
<1>5. PICK o \in HomeOf(email) : Kept(before, book, c, o, {})
  BY <1>2 DEF AllKept
<1>6. QED BY <1>3, <1>4, <1>5, KeptPeople

\* Whatever the orders hold and the emails ask: the calls of an email of new shifts that start apart, where a shift that starts with one
\* of them has one crew position, at most one chief position and one pair of hours, have each their people once the last write is in.
THEOREM PeopleTurnUp == PlannerSpec => [](PlainAt(before, Calls(email)) => PeopleAsAsked)
<1>1. PlanInv /\ KeptInv => PeoplePlain
  BY PeopleKept
<1>2. PeoplePlain => (PlainAt(before, Calls(email)) => PeopleAsAsked)
  BY DEF PeoplePlain
<1>3. QED BY <1>1, <1>2, InvAlways, KeptAlways, PTL

-----------------------------------------------------------------------------

RestatedPlain == PlainAt(before, Calls(email)) => RestatedIsNothing

LEMMA RestatedAgain ==
  ASSUME PlanInv, KeptInv, PlanAgain
  PROVE  RestatedPlain'
<1> SUFFICES ASSUME stage' = "more", AsPlanned', \A c \in Calls(email') : ~BothOn(before', c) PROVE FALSE
  BY DEF RestatedPlain, RestatedIsNothing, AsPlanned, OnlyNew, StartApart, StartsApart, BothOn, BothChange
<1> DEFINE q == Decide(book, email, touched)
           p == Settle(q, book, touched)
<1>1. stage \in {"written", "nothing"} /\ email' = email /\ before' = before /\ ~p.refused /\ p.ops # <<>>
  BY DEF PlanAgain
<1>2. book \in Wells /\ MailOf(email.asks) /\ email.named \in Nat
  BY <1>1 DEF PlanInv, BookOK, MailOK
<1>3. AsPlanned /\ AllKept(before, book, Calls(email), HomeOf(email), touched)
  BY <1>1 DEF AsPlanned, KeptInv
<1>4. \A c \in Calls(email) : ~BothOn(before, c)
  BY <1>1
<1>5. Quiet(q, NoPlan)
  BY <1>2, <1>3, <1>4, DecideAgain DEF AsPlanned
<1> HIDE DEF q
<1>6. p = q \/ p.ops = <<>>
  BY DEF Settle, NoPlan
<1> HIDE DEF p
<1>7. NoPlan.ops = <<>>
  BY DEF NoPlan
<1>8. QED BY <1>1, <1>5, <1>6, <1>7 DEF Quiet

LEMMA RestatedNext == PlanInv /\ KeptInv /\ RestatedPlain /\ [PlannerNext]_plannerVars => RestatedPlain'
<1> SUFFICES ASSUME PlanInv, KeptInv, RestatedPlain, [PlannerNext]_plannerVars PROVE RestatedPlain'
  OBVIOUS
<1>1. CASE Receive \/ Plan \/ Write \/ StaffEdit
  <2>1. stage' # "more"
    BY <1>1 DEF Receive, Plan, Write, StaffEdit
  <2>2. QED BY <2>1 DEF RestatedPlain, RestatedIsNothing
<1>2. CASE PlanAgain
  BY <1>2, RestatedAgain
<1>3. CASE UNCHANGED plannerVars
  BY <1>3 DEF RestatedPlain, RestatedIsNothing, OnlyNew, StartApart, BothChange, plannerVars
<1>4. QED BY <1>1, <1>2, <1>3 DEF PlannerNext

\* Whatever staff changed meanwhile, the same email planned again writes nothing, unless one of its calls gave a shift both another count
\* and another finish: under PeopleTurnUp's condition on the shifts that start with its calls.
THEOREM RestatedStays == PlannerSpec => [](PlainAt(before, Calls(email)) => RestatedIsNothing)
<1>1. PlannerInit => RestatedPlain
  BY DEF PlannerInit, RestatedPlain, RestatedIsNothing
<1>2. RestatedPlain => (PlainAt(before, Calls(email)) => RestatedIsNothing)
  BY DEF RestatedPlain
<1>3. QED BY <1>1, <1>2, RestatedNext, InvAlways, KeptAlways, PTL DEF PlannerSpec
=============================================================================
