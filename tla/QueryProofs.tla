------------------------------ MODULE QueryProofs ------------------------------
(***************************************************************************)
(* Theorems about what a query finds and what its client is told, for all  *)
(* graphs, texts, vendors and clients: the results of a traversal show     *)
(* what is the organization's own once, and an answer that is told to be   *)
(* whole is whole however both streams are cut.  What the recursive        *)
(* functions of the models compute is proved by induction over their       *)
(* length.  The last part is the types of the parts that MCServices looks  *)
(* at side by side.                                                        *)
(***************************************************************************)
EXTENDS MCServices, WebhooksProofs, ServicesProofs, SequenceTheorems, WellFoundedInduction, TLAPS

(* Induction over the natural numbers, as a statement about a set. *)
LEMMA SetInduction ==
    ASSUME NEW S, 0 \in S, \A n \in Nat : n \in S => n + 1 \in S
    PROVE  \A n \in Nat : n \in S
<1> DEFINE left == Nat \ S
           before == {p \in Nat \X Nat : p[1] < p[2]}
<1>1. IsWellFoundedOn(before, Nat)
  BY NatLessThanWellFounded DEF OpToRel
<1> SUFFICES ASSUME left # {} PROVE FALSE
  OBVIOUS
<1>2. left \subseteq Nat
  OBVIOUS
<1> HIDE DEF left, before
<1>3. PICK n \in left : \A m \in left : <<m, n>> \notin before
  BY <1>1, <1>2, WFMin
<1>4. n \in Nat /\ n \notin S /\ n # 0
  BY <1>2, <1>3 DEF left
<1>5. n - 1 \in Nat /\ n - 1 < n /\ (n - 1) + 1 = n
  BY <1>4
<1>6. n - 1 \in S
  BY <1>4, <1>5, <1>3 DEF left, before
<1> QED
  BY <1>4, <1>5, <1>6

(* Every sequence of steps on a set of values, from a first one, has a     *)
(* function that lists the values one step after the other.                *)
StepsOn(A, n) == [1 .. n -> [A -> A]]
Follows(f, base, step, n) == f[0] = base /\ \A i \in 1 .. n : f[i] = step[i][f[i - 1]]
HasFold(A, base, step, n) == \E f \in [0 .. n -> A] : Follows(f, base, step, n)

LEMMA FoldExists ==
    ASSUME NEW A, NEW base, NEW n, NEW step, base \in A, n \in Nat, step \in StepsOn(A, n)
    PROVE  HasFold(A, base, step, n)
<1> DEFINE Listing(f, m) == Follows(f, base, step, m)
           S == {m \in Nat : m <= n => \E f \in [0 .. m -> A] : Listing(f, m)}
<1>1. 0 \in S
  <2> DEFINE f == [i \in 0 .. 0 |-> base]
  <2>1. f \in [0 .. 0 -> A] /\ Listing(f, 0)
    BY DEF Follows
  <2> QED
    BY <2>1
<1>2. ASSUME NEW m \in Nat, m \in S PROVE m + 1 \in S
  <2> SUFFICES ASSUME m + 1 <= n PROVE \E g \in [0 .. m + 1 -> A] : Listing(g, m + 1)
    OBVIOUS
  <2>1. PICK f \in [0 .. m -> A] : Listing(f, m)
    BY <1>2
  <2> DEFINE g == [i \in 0 .. m + 1 |-> IF i <= m THEN f[i] ELSE step[m + 1][f[m]]]
  <2>2. step[m + 1] \in [A -> A] /\ f[m] \in A
    BY DEF StepsOn
  <2>3. g \in [0 .. m + 1 -> A]
    BY <2>2
  <2>4. g[0] = base /\ g[m + 1] = step[m + 1][f[m]] /\ \A i \in 0 .. m : g[i] = f[i]
    BY <2>1 DEF Follows
  <2>5. ASSUME NEW i \in 1 .. m + 1 PROVE g[i] = step[i][g[i - 1]]
    <3>1. CASE i = m + 1
      BY <2>4, <3>1
    <3>2. CASE i \in 1 .. m
      <4>1. i - 1 \in 0 .. m /\ i \in 0 .. m
        BY <3>2
      <4> QED
        BY <2>1, <2>4, <3>2, <4>1 DEF Follows
    <3> QED
      BY <3>1, <3>2
  <2> QED
    BY <2>3, <2>4, <2>5 DEF Follows
<1> HIDE DEF S
<1>3. n \in S
  BY <1>1, <1>2, SetInduction
<1> QED
  BY <1>3 DEF S, HasFold

(* The recursion of Filtered has a function, whatever the sequence. *)
LEMMA FilteredUpTo ==
    ASSUME NEW X, NEW s \in Seq(X), NEW keep
    PROVE  \E f \in [0 .. Len(s) -> Seq(X)] :
             /\ f[0] = <<>>
             /\ \A i \in 1 .. Len(s) : f[i] = IF s[i] \in keep THEN Append(f[i - 1], s[i]) ELSE f[i - 1]
             /\ Filtered(s, keep) = f[Len(s)]
<1> DEFINE step == [i \in 1 .. Len(s) |-> [a \in Seq(X) |-> IF s[i] \in keep THEN Append(a, s[i]) ELSE a]]
           Recurs(f) == f = [i \in 0 .. Len(s) |-> IF i = 0 THEN <<>> ELSE
                               IF s[i] \in keep THEN Append(f[i - 1], s[i]) ELSE f[i - 1]]
<1>1. Len(s) \in Nat /\ \A i \in 1 .. Len(s) : s[i] \in X
  OBVIOUS
<1>2. step \in [1 .. Len(s) -> [Seq(X) -> Seq(X)]] /\ <<>> \in Seq(X)
  BY <1>1
<1>3. PICK f \in [0 .. Len(s) -> Seq(X)] : f[0] = <<>> /\ \A i \in 1 .. Len(s) : f[i] = step[i][f[i - 1]]
  <2> DEFINE A == Seq(X)
             n == Len(s)
  <2>1. n \in Nat /\ step \in StepsOn(A, n) /\ <<>> \in A
    BY <1>1, <1>2 DEF StepsOn
  <2> HIDE DEF step, A, n
  <2>2. HasFold(A, <<>>, step, n)
    BY <2>1, FoldExists
  <2> QED
    BY <2>2 DEF A, n, HasFold, Follows
<1>4. \A i \in 1 .. Len(s) : f[i] = IF s[i] \in keep THEN Append(f[i - 1], s[i]) ELSE f[i - 1]
  <2> TAKE i \in 1 .. Len(s)
  <2>1. f[i - 1] \in Seq(X)
    BY <1>1
  <2> QED
    BY <1>3, <2>1
<1> DEFINE rule(g) == [i \in 0 .. Len(s) |-> IF i = 0 THEN <<>> ELSE
                        IF s[i] \in keep THEN Append(g[i - 1], s[i]) ELSE g[i - 1]]
<1>5. Recurs(f)
  <2>1. f = [i \in 0 .. Len(s) |-> f[i]]
    BY <1>3
  <2>2. ASSUME NEW i \in 0 .. Len(s) PROVE f[i] = rule(f)[i]
    <3>1. CASE i = 0
      BY <1>3, <3>1
    <3>2. CASE i \in 1 .. Len(s)
      <4>1. i # 0 /\ i \in 0 .. Len(s)
        BY <1>1, <3>2
      <4>2. rule(f)[i] = IF s[i] \in keep THEN Append(f[i - 1], s[i]) ELSE f[i - 1]
        BY <4>1
      <4> HIDE DEF rule
      <4> QED
        BY <1>4, <3>2, <4>2
    <3> QED
      BY <1>1, <3>1, <3>2
  <2> QED
    BY <2>1, <2>2
<1> DEFINE c == CHOOSE g : Recurs(g)
<1>6. Recurs(c)
  <2> HIDE DEF Recurs
  <2> QED
    BY <1>5
<1>7. Filtered(s, keep) = c[Len(s)]
  BY DEF Filtered
<1> HIDE DEF c
<1>8. c[0] = <<>> /\ \A i \in 1 .. Len(s) : c[i] = IF s[i] \in keep THEN Append(c[i - 1], s[i]) ELSE c[i - 1]
  <2>1. \A i \in 0 .. Len(s) : c[i] = rule(c)[i]
    BY <1>6
  <2>2. 0 \in 0 .. Len(s) /\ \A i \in 1 .. Len(s) : i \in 0 .. Len(s) /\ i # 0
    BY <1>1
  <2> QED
    BY <2>1, <2>2
<1>9. c \in [0 .. Len(s) -> Seq(X)]
  <2> DEFINE S == {m \in Nat : m <= Len(s) => c[m] \in Seq(X)}
  <2>1. 0 \in S
    BY <1>2, <1>8
  <2>2. ASSUME NEW m \in Nat, m \in S PROVE m + 1 \in S
    <3> SUFFICES ASSUME m + 1 <= Len(s) PROVE c[m + 1] \in Seq(X)
      OBVIOUS
    <3>1. c[m] \in Seq(X) /\ m + 1 \in 1 .. Len(s) /\ (m + 1) - 1 = m
      BY <1>1, <2>2
    <3>2. c[m + 1] = IF s[m + 1] \in keep THEN Append(c[m], s[m + 1]) ELSE c[m]
      BY <1>8, <3>1
    <3> QED
      BY <1>1, <3>1, <3>2
  <2> HIDE DEF S
  <2>3. \A m \in Nat : m \in S
    BY <2>1, <2>2, SetInduction
  <2>4. \A m \in 0 .. Len(s) : c[m] \in Seq(X)
    BY <1>1, <2>3 DEF S
  <2>5. c = [i \in 0 .. Len(s) |-> c[i]]
    BY <1>6
  <2> QED
    BY <2>4, <2>5
<1> QED
  BY <1>7, <1>8, <1>9

(* What a filter leaves: the elements that are kept, at places of their    *)
(* own, and fewer than before when one was dropped.                        *)
LEMMA FilteredProperties ==
    ASSUME NEW X, NEW s \in Seq(X), NEW keep, NEW r, r = Filtered(s, keep)
    PROVE  /\ r \in Seq(X) /\ ToSet(r) = ToSet(s) \cap keep
           /\ Len(r) <= Len(s) /\ (ToSet(s) \subseteq keep \/ Len(r) < Len(s))
           /\ \E from \in [DOMAIN r -> DOMAIN s] :
                /\ \A k \in DOMAIN r : r[k] = s[from[k]]
                /\ \A k, l \in DOMAIN r : from[k] = from[l] => k = l
<1>1. PICK f \in [0 .. Len(s) -> Seq(X)] :
        /\ f[0] = <<>>
        /\ \A i \in 1 .. Len(s) : f[i] = IF s[i] \in keep THEN Append(f[i - 1], s[i]) ELSE f[i - 1]
        /\ r = f[Len(s)]
  BY FilteredUpTo
<1>2. Len(s) \in Nat /\ DOMAIN s = 1 .. Len(s) /\ \A i \in 1 .. Len(s) : s[i] \in X
  OBVIOUS
<1> DEFINE At(m) == 1 .. Len(f[m])
           Up(m) == {s[i] : i \in 1 .. m}
           Of(m) == {f[m][k] : k \in At(m)}
           Good(m) == /\ Len(f[m]) <= m /\ (Up(m) \subseteq keep \/ Len(f[m]) < m)
                      /\ Of(m) = Up(m) \cap keep
                      /\ \E from \in [At(m) -> 1 .. m] :
                           /\ \A k \in At(m) : f[m][k] = s[from[k]]
                           /\ \A k, l \in At(m) : from[k] = from[l] => k = l
           S == {m \in Nat : m <= Len(s) => Good(m)}
<1> HIDE DEF Good, S
<1>3. 0 \in S
  <2>1. Len(f[0]) = 0 /\ At(0) = {} /\ Up(0) = {} /\ Of(0) = {}
    BY <1>1
  <2>2. [k \in {} |-> 0] \in [At(0) -> 1 .. 0]
    BY <2>1
  <2>3. Good(0)
    BY <2>1, <2>2 DEF Good
  <2> QED
    BY <2>3 DEF S
<1>4. ASSUME NEW m \in Nat, m \in S PROVE m + 1 \in S
  <2> SUFFICES ASSUME m + 1 <= Len(s) PROVE Good(m + 1)
    BY DEF S
  <2>1. m + 1 \in 1 .. Len(s) /\ m \in 0 .. Len(s) /\ (m + 1) - 1 = m /\ f[m] \in Seq(X) /\ s[m + 1] \in X
    BY <1>2
  <2>2. f[m + 1] = IF s[m + 1] \in keep THEN Append(f[m], s[m + 1]) ELSE f[m]
    BY <1>1, <2>1
  <2>3. Good(m)
    BY <1>2, <1>4 DEF S
  <2>4. Up(m + 1) = Up(m) \cup {s[m + 1]}
    <3>1. 1 .. m + 1 = (1 .. m) \cup {m + 1}
      OBVIOUS
    <3> QED
      BY <3>1
  <2>5. PICK from \in [At(m) -> 1 .. m] :
          /\ \A k \in At(m) : f[m][k] = s[from[k]]
          /\ \A k, l \in At(m) : from[k] = from[l] => k = l
    BY <2>3 DEF Good
  <2>6. CASE s[m + 1] \notin keep
    <3>1. f[m + 1] = f[m] /\ At(m + 1) = At(m) /\ Of(m + 1) = Of(m)
      BY <2>2, <2>6
    <3>5. Of(m) = Up(m) \cap keep
      BY <2>3 DEF Good
    <3>2. Of(m + 1) = Up(m + 1) \cap keep
      <4> HIDE DEF At, Of, Up
      <4> QED
        BY <2>4, <2>6, <3>1, <3>5
    <3>3. Len(f[m + 1]) < m + 1 /\ Len(f[m + 1]) <= m + 1
      BY <2>1, <2>3, <3>1 DEF Good
    <3>4. /\ from \in [At(m + 1) -> 1 .. m + 1]
          /\ \A k \in At(m + 1) : f[m + 1][k] = s[from[k]]
          /\ \A k, l \in At(m + 1) : from[k] = from[l] => k = l
      BY <2>5, <3>1
    <3> HIDE DEF At, Of, Up
    <3> QED
      BY <3>2, <3>3, <3>4, Zenon DEF Good
  <2>7. CASE s[m + 1] \in keep
    <3>1. /\ f[m + 1] = Append(f[m], s[m + 1]) /\ Len(f[m]) \in Nat /\ Len(f[m + 1]) = Len(f[m]) + 1
          /\ \A k \in At(m) : f[m + 1][k] = f[m][k]
          /\ f[m + 1][Len(f[m]) + 1] = s[m + 1]
      BY <2>1, <2>2, <2>7
    <3>2. At(m + 1) = At(m) \cup {Len(f[m]) + 1} /\ Len(f[m]) + 1 \notin At(m)
      BY <3>1
    <3>3. Of(m + 1) = Of(m) \cup {s[m + 1]}
      <4>1. Of(m + 1) = {f[m + 1][k] : k \in At(m)} \cup {f[m + 1][Len(f[m]) + 1]}
        BY <3>2
      <4> QED
        BY <3>1, <4>1
    <3>4. Of(m + 1) = Up(m + 1) \cap keep
      BY <2>3, <2>4, <2>7, <3>3 DEF Good
    <3>5. Len(f[m + 1]) <= m + 1 /\ (Up(m + 1) \subseteq keep \/ Len(f[m + 1]) < m + 1)
      BY <2>3, <2>4, <2>7, <3>1 DEF Good
    <3> DEFINE new == [k \in At(m + 1) |-> IF k \in At(m) THEN from[k] ELSE m + 1]
    <3>6. new \in [At(m + 1) -> 1 .. m + 1]
      BY <3>2
    <3>7. \A k \in At(m + 1) : f[m + 1][k] = s[new[k]]
      BY <2>5, <3>1, <3>2
    <3>8. \A k, l \in At(m + 1) : new[k] = new[l] => k = l
      <4>1. \A k \in At(m) : new[k] = from[k] /\ new[k] \in 1 .. m
        BY <3>2
      <4>2. new[Len(f[m]) + 1] = m + 1 /\ m + 1 \notin 1 .. m
        BY <3>2
      <4> HIDE DEF new, At
      <4> QED
        BY <2>5, <3>2, <4>1, <4>2
    <3> HIDE DEF new
    <3> QED
      BY <3>4, <3>5, <3>6, <3>7, <3>8 DEF Good
  <2> QED
    BY <2>6, <2>7
<1>5. Len(s) \in S
  BY <1>2, <1>3, <1>4, SetInduction
<1>6. Good(Len(s))
  BY <1>2, <1>5 DEF S
<1>7. r \in Seq(X) /\ DOMAIN r = At(Len(s)) /\ ToSet(r) = Of(Len(s)) /\ ToSet(s) = Up(Len(s))
  BY <1>1, <1>2 DEF ToSet
<1>8. Len(r) = Len(f[Len(s)]) /\ DOMAIN s = 1 .. Len(s)
  BY <1>1, <1>2
<1>9. PICK from \in [At(Len(s)) -> 1 .. Len(s)] :
        /\ \A k \in At(Len(s)) : f[Len(s)][k] = s[from[k]]
        /\ \A k, l \in At(Len(s)) : from[k] = from[l] => k = l
  BY <1>6 DEF Good
<1>10. /\ from \in [DOMAIN r -> DOMAIN s]
       /\ \A k \in DOMAIN r : r[k] = s[from[k]]
       /\ \A k, l \in DOMAIN r : from[k] = from[l] => k = l
  BY <1>1, <1>7, <1>8, <1>9
<1>11. /\ ToSet(r) = ToSet(s) \cap keep /\ Len(r) <= Len(s)
       /\ ToSet(s) \subseteq keep \/ Len(r) < Len(s)
  BY <1>6, <1>7, <1>8 DEF Good
<1> QED
  BY <1>7, <1>10, <1>11

LEMMA WithoutProperties ==
    ASSUME NEW X, NEW s \in Seq(X), NEW drop, NEW r, r = Without(s, drop)
    PROVE  /\ r \in Seq(X) /\ ToSet(r) = ToSet(s) \ drop
           /\ Len(r) <= Len(s) /\ (ToSet(s) \cap drop = {} \/ Len(r) < Len(s))
           /\ IsInjective(s) => IsInjective(r)
<1> DEFINE keep == ToSet(s) \ drop
<1>1. r = Filtered(s, keep)
  BY DEF Without
<1> HIDE DEF keep
<1>2. PICK from \in [DOMAIN r -> DOMAIN s] :
        /\ r \in Seq(X) /\ ToSet(r) = ToSet(s) \cap keep
        /\ Len(r) <= Len(s) /\ (ToSet(s) \subseteq keep \/ Len(r) < Len(s))
        /\ \A k \in DOMAIN r : r[k] = s[from[k]]
        /\ \A k, l \in DOMAIN r : from[k] = from[l] => k = l
  BY <1>1, FilteredProperties
<1>3. IsInjective(s) => IsInjective(r)
  BY <1>2 DEF IsInjective
<1> QED
  BY <1>2, <1>3 DEF keep

(* A set of natural numbers has a least element. *)
LEMMA Least ==
    ASSUME NEW S, S \subseteq Nat, S # {}
    PROVE  \E n \in S : \A m \in S : n <= m
<1> DEFINE before == {p \in Nat \X Nat : p[1] < p[2]}
<1>1. IsWellFoundedOn(before, Nat)
  BY NatLessThanWellFounded DEF OpToRel
<1> HIDE DEF before
<1>2. PICK n \in S : \A m \in S : <<m, n>> \notin before
  BY <1>1, WFMin
<1>3. ASSUME NEW m \in S PROVE n <= m
  <2>1. m \in Nat /\ n \in Nat /\ ~(m < n)
    BY <1>2 DEF before
  <2> QED
    BY <2>1
<1> QED
  BY <1>3

(* What is left of a list: the elements at the places whose key neither an *)
(* earlier list has nor an earlier place of the list itself.               *)
Fresh(rowed, i) == {j \in DOMAIN rowed[i] : ~Repeats(rowed, i, j)}

(* Where the elements come from, of what a filter leaves. *)
IsFilteredBy(X, s, keep, r) ==
    /\ r \in Seq(X) /\ ToSet(r) = ToSet(s) \cap keep
    /\ \E from \in [DOMAIN r -> DOMAIN s] :
         /\ \A k \in DOMAIN r : r[k] = s[from[k]]
         /\ \A k, l \in DOMAIN r : from[k] = from[l] => k = l

LEMMA FilteredPlaces ==
    ASSUME NEW s \in Seq(Nat), NEW keep
    PROVE  IsFilteredBy(Nat, s, keep, Filtered(s, keep))
<1> DEFINE r == Filtered(s, keep)
<1>1. r = Filtered(s, keep)
  OBVIOUS
<1> HIDE DEF r
<1>2. /\ r \in Seq(Nat) /\ ToSet(r) = ToSet(s) \cap keep
      /\ Len(r) <= Len(s) /\ (ToSet(s) \subseteq keep \/ Len(r) < Len(s))
      /\ \E from \in [DOMAIN r -> DOMAIN s] :
           /\ \A k \in DOMAIN r : r[k] = s[from[k]]
           /\ \A k, l \in DOMAIN r : from[k] = from[l] => k = l
  BY <1>1, FilteredProperties
<1>3. IsFilteredBy(Nat, s, keep, r)
  BY <1>2, Zenon DEF IsFilteredBy
<1> QED
  BY <1>1, <1>3

LEMMA FirstsOf ==
    ASSUME NEW X, NEW rowed \in Seq(Seq(X)), NEW i \in DOMAIN rowed, NEW firsts, firsts = FirstShown(rowed)
    PROVE  \E at \in [DOMAIN firsts[i] -> Fresh(rowed, i)] :
             /\ \A k \in DOMAIN firsts[i] : firsts[i][k] = rowed[i][at[k]]
             /\ \A k, l \in DOMAIN firsts[i] : at[k] = at[l] => k = l
             /\ \A j \in Fresh(rowed, i) : \E k \in DOMAIN firsts[i] : at[k] = j
<1> DEFINE m == Len(rowed[i])
           all == [j \in 1 .. m |-> j]
           fresh == Fresh(rowed, i)
           at == Filtered(all, fresh)
<1>1. m \in Nat /\ DOMAIN rowed[i] = 1 .. m /\ fresh \subseteq 1 .. m
  <2>1. rowed[i] \in Seq(X)
    OBVIOUS
  <2> QED
    BY <2>1 DEF Fresh
<1>2. firsts[i] = [k \in 1 .. Len(at) |-> rowed[i][at[k]]]
  BY DEF FirstShown, Fresh
<1> HIDE DEF m, fresh
<1>3. all \in Seq(Nat) /\ DOMAIN all = 1 .. m /\ ToSet(all) = 1 .. m
  BY <1>1 DEF ToSet
<1>4. \A j \in 1 .. m : all[j] = j
  OBVIOUS
<1>14. at = Filtered(all, fresh)
  OBVIOUS
<1> HIDE DEF all, at
<1>15. all \in Seq(Nat)
  BY <1>3
<1>16. IsFilteredBy(Nat, all, fresh, at)
  BY <1>14, <1>15, FilteredPlaces
<1>5. PICK from \in [DOMAIN at -> DOMAIN all] :
        /\ at \in Seq(Nat) /\ ToSet(at) = ToSet(all) \cap fresh
        /\ \A k \in DOMAIN at : at[k] = all[from[k]]
        /\ \A k, l \in DOMAIN at : from[k] = from[l] => k = l
  BY <1>16 DEF IsFilteredBy
<1>6. DOMAIN at = 1 .. Len(at) /\ ToSet(at) = fresh /\ DOMAIN firsts[i] = 1 .. Len(at)
  <2>1. DOMAIN at = 1 .. Len(at)
    BY <1>5
  <2>2. ToSet(at) = fresh
    BY <1>1, <1>3, <1>5
  <2> QED
    BY <1>2, <2>1, <2>2
<1>7. at \in [DOMAIN firsts[i] -> fresh] /\ \A j \in fresh : \E k \in DOMAIN firsts[i] : at[k] = j
  <2>1. at = [k \in 1 .. Len(at) |-> at[k]]
    BY <1>5
  <2>2. \A k \in 1 .. Len(at) : at[k] \in fresh
    BY <1>6 DEF ToSet
  <2>3. \A j \in fresh : \E k \in 1 .. Len(at) : at[k] = j
    BY <1>6 DEF ToSet
  <2> QED
    BY <1>6, <2>1, <2>2, <2>3
<1>8. \A k, l \in DOMAIN firsts[i] : at[k] = at[l] => k = l
  BY <1>3, <1>4, <1>5, <1>6
<1>9. \A k \in DOMAIN firsts[i] : firsts[i][k] = rowed[i][at[k]]
  BY <1>2
<1> QED
  BY <1>7, <1>8, <1>9 DEF fresh

(* Every key of a list has a first place, where it is not left out.        *)
LEMMA FirstPlace ==
    ASSUME NEW X, NEW rowed \in Seq(Seq(X)), NEW i \in DOMAIN rowed, NEW j \in DOMAIN rowed[i]
    PROVE  \E k \in DOMAIN rowed : \E l \in Fresh(rowed, k) : SameKey(rowed[i][j], rowed[k][l])
<1> DEFINE same(k) == {l \in DOMAIN rowed[k] : SameKey(rowed[i][j], rowed[k][l])}
           having == {k \in DOMAIN rowed : same(k) # {}}
<1>1. DOMAIN rowed \subseteq Nat /\ \A k \in DOMAIN rowed : DOMAIN rowed[k] \subseteq Nat
  OBVIOUS
<1>2. i \in having
  <2>1. j \in same(i)
    BY DEF SameKey
  <2> QED
    BY <2>1
<1>3. having \subseteq Nat
  BY <1>1
<1> HIDE DEF having
<1>4. PICK k \in having : \A other \in having : k <= other
  BY <1>2, <1>3, Least
<1>5. k \in DOMAIN rowed /\ same(k) # {} /\ same(k) \subseteq Nat /\ k \in Nat
  BY <1>1, <1>4 DEF having
<1> HIDE DEF same
<1>6. PICK l \in same(k) : \A other \in same(k) : l <= other
  BY <1>5, Least
<1>7. l \in DOMAIN rowed[k] /\ SameKey(rowed[i][j], rowed[k][l]) /\ l \in Nat
  BY <1>5, <1>6 DEF same
<1>8. ASSUME Repeats(rowed, k, l) PROVE FALSE
  <2>1. PICK k2 \in 1 .. k : \E l2 \in DOMAIN rowed[k2] : (k2 < k \/ l2 < l) /\ SameKey(rowed[k2][l2], rowed[k][l])
    BY <1>8 DEF Repeats
  <2>2. PICK l2 \in DOMAIN rowed[k2] : (k2 < k \/ l2 < l) /\ SameKey(rowed[k2][l2], rowed[k][l])
    BY <2>1
  <2>3. k2 \in DOMAIN rowed
    BY <1>5
  <2>4. l2 \in same(k2)
    BY <1>7, <2>2 DEF same, SameKey
  <2>5. k2 \in having
    BY <2>3, <2>4 DEF having
  <2>6. k2 = k
    BY <1>4, <1>5, <2>5
  <2>7. l2 < l /\ l2 \in same(k) /\ l2 \in Nat
    BY <1>5, <2>2, <2>4, <2>6
  <2>8. l <= l2
    BY <1>6, <2>7
  <2> QED
    BY <1>7, <2>7, <2>8
<1> QED
  BY <1>5, <1>7, <1>8 DEF Fresh

(* What is shown first of some lists is shown once, and stands for all of  *)
(* what the lists have.                                                    *)
LEMMA FirstShownProperties ==
    ASSUME NEW X, NEW rowed \in Seq(Seq(X)), NEW must, NEW may,
           \A i \in DOMAIN rowed : ToSet(rowed[i]) \subseteq may,
           \A x \in must : \E i \in DOMAIN rowed : x \in ToSet(rowed[i]),
           NEW firsts, firsts = FirstShown(rowed)
    PROVE  DOMAIN firsts = DOMAIN rowed /\ EachOnce(firsts, must, may)
<1>1. DOMAIN firsts = DOMAIN rowed
  BY DEF FirstShown
<1> DEFINE Places(i, at) ==
             /\ at \in [DOMAIN firsts[i] -> Fresh(rowed, i)]
             /\ \A k \in DOMAIN firsts[i] : firsts[i][k] = rowed[i][at[k]]
             /\ \A k, l \in DOMAIN firsts[i] : at[k] = at[l] => k = l
             /\ \A j \in Fresh(rowed, i) : \E k \in DOMAIN firsts[i] : at[k] = j
<1>2. ASSUME NEW i \in DOMAIN rowed PROVE \E at : Places(i, at)
  BY FirstsOf
<1>3. \A i \in DOMAIN rowed : Fresh(rowed, i) \subseteq DOMAIN rowed[i] /\ DOMAIN rowed[i] \subseteq Nat /\ i \in Nat
  BY DEF Fresh
<1> HIDE DEF Places
<1>4. Shown(firsts) \subseteq may
  <2> SUFFICES ASSUME NEW i \in DOMAIN rowed, NEW k \in DOMAIN firsts[i] PROVE firsts[i][k] \in may
    BY <1>1 DEF Shown, ToSet
  <2>1. PICK at : Places(i, at)
    BY <1>2
  <2>2. firsts[i][k] = rowed[i][at[k]] /\ at[k] \in DOMAIN rowed[i]
    BY <1>3, <2>1 DEF Places
  <2> QED
    BY <2>2 DEF ToSet
<1>5. ASSUME NEW x \in must PROVE \E y \in Shown(firsts) : SameKey(x, y)
  <2>1. PICK i \in DOMAIN rowed : \E j \in DOMAIN rowed[i] : x = rowed[i][j]
    BY DEF ToSet
  <2>2. PICK j \in DOMAIN rowed[i] : x = rowed[i][j]
    BY <2>1
  <2>3. PICK k \in DOMAIN rowed : \E l \in Fresh(rowed, k) : SameKey(x, rowed[k][l])
    BY <2>2, FirstPlace
  <2>4. PICK l \in Fresh(rowed, k) : SameKey(x, rowed[k][l])
    BY <2>3
  <2>5. PICK at : Places(k, at)
    BY <1>2
  <2>6. PICK n \in DOMAIN firsts[k] : at[n] = l
    BY <2>4, <2>5 DEF Places
  <2>7. firsts[k][n] = rowed[k][l]
    BY <2>5, <2>6 DEF Places
  <2>8. firsts[k][n] \in Shown(firsts)
    BY <1>1 DEF Shown, ToSet
  <2> QED
    BY <2>4, <2>7, <2>8
<1>6. ASSUME NEW i \in DOMAIN rowed, NEW j \in DOMAIN rowed, NEW k \in DOMAIN firsts[i], NEW l \in DOMAIN firsts[j],
             SameKey(firsts[i][k], firsts[j][l])
      PROVE  i = j /\ k = l
  <2>1. PICK at : Places(i, at)
    BY <1>2
  <2>2. PICK to : Places(j, to)
    BY <1>2
  <2>3. /\ at[k] \in Fresh(rowed, i) /\ to[l] \in Fresh(rowed, j)
        /\ SameKey(rowed[i][at[k]], rowed[j][to[l]]) /\ SameKey(rowed[j][to[l]], rowed[i][at[k]])
    BY <1>6, <2>1, <2>2 DEF Places, SameKey
  <2>4. at[k] \in DOMAIN rowed[i] /\ to[l] \in DOMAIN rowed[j] /\ at[k] \in Nat /\ to[l] \in Nat /\ i \in Nat /\ j \in Nat
    BY <1>3, <2>3
  <2>5. i >= 1 /\ j >= 1
    OBVIOUS
  <2>6. ~(i < j)
    <3> SUFFICES ASSUME i < j PROVE FALSE
      OBVIOUS
    <3>1. i \in 1 .. j
      BY <2>4, <2>5
    <3>2. Repeats(rowed, j, to[l])
      BY <2>3, <2>4, <3>1 DEF Repeats
    <3> QED
      BY <2>3, <3>2 DEF Fresh
  <2>7. ~(j < i)
    <3> SUFFICES ASSUME j < i PROVE FALSE
      OBVIOUS
    <3>1. j \in 1 .. i
      BY <2>4, <2>5
    <3>2. Repeats(rowed, i, at[k])
      BY <2>3, <2>4, <3>1 DEF Repeats
    <3> QED
      BY <2>3, <3>2 DEF Fresh
  <2>8. i = j /\ i \in 1 .. i
    BY <2>4, <2>5, <2>6, <2>7
  <2>9. ~(at[k] < to[l]) /\ ~(to[l] < at[k])
    <3>1. at[k] < to[l] => Repeats(rowed, i, to[l])
      BY <2>3, <2>4, <2>8 DEF Repeats
    <3>2. to[l] < at[k] => Repeats(rowed, i, at[k])
      BY <2>3, <2>4, <2>8 DEF Repeats
    <3> QED
      BY <2>3, <2>8, <3>1, <3>2 DEF Fresh
  <2>10. at[k] = to[l]
    BY <2>4, <2>9
  <2>11. firsts[j] = firsts[i] /\ l \in DOMAIN firsts[i]
    BY <2>8
  <2>12. k = l
    <3>1. PICK n \in DOMAIN firsts[i] : n = l
      BY <2>11
    <3>2. SameKey(firsts[i][k], firsts[i][n])
      BY <1>6, <2>8, <3>1
    <3>3. at[n] \in Fresh(rowed, i) /\ at[k] \in Fresh(rowed, i) /\ SameKey(rowed[i][at[k]], rowed[i][at[n]])
          /\ SameKey(rowed[i][at[n]], rowed[i][at[k]])
      BY <2>1, <3>2 DEF Places, SameKey
    <3>4. at[n] \in DOMAIN rowed[i] /\ at[k] \in DOMAIN rowed[i] /\ at[n] \in Nat /\ at[k] \in Nat
      BY <1>3, <3>3
    <3>5. at[k] < at[n] => Repeats(rowed, i, at[n])
      BY <2>8, <3>3, <3>4 DEF Repeats
    <3>6. at[n] < at[k] => Repeats(rowed, i, at[k])
      BY <2>8, <3>3, <3>4 DEF Repeats
    <3>7. ~(at[k] < at[n]) /\ ~(at[n] < at[k])
      BY <3>3, <3>5, <3>6 DEF Fresh
    <3>8. at[k] = at[n]
      BY <3>4, <3>7
    <3> QED
      BY <2>1, <3>1, <3>8 DEF Places
  <2> QED
    BY <2>8, <2>12
<1> QED
  BY <1>1, <1>4, <1>5, <1>6 DEF EachOnce

(* Lists are dropped that have nothing to show. *)
LEMMA DroppedEmpty ==
    ASSUME NEW rowed, NEW must, NEW may, EachOnce(rowed, must, may),
           NEW kept, NEW from \in [DOMAIN kept -> DOMAIN rowed],
           \A k \in DOMAIN kept : kept[k] = rowed[from[k]],
           \A k, l \in DOMAIN kept : from[k] = from[l] => k = l,
           \A i \in DOMAIN rowed : ToSet(rowed[i]) # {} => \E k \in DOMAIN kept : kept[k] = rowed[i]
    PROVE  EachOnce(kept, must, may)
<1>1. Shown(kept) = Shown(rowed)
  <2>1. ASSUME NEW k \in DOMAIN kept PROVE ToSet(kept[k]) \subseteq Shown(rowed)
    BY DEF Shown
  <2>2. ASSUME NEW i \in DOMAIN rowed, NEW x \in ToSet(rowed[i]) PROVE \E k \in DOMAIN kept : x \in ToSet(kept[k])
    <3>1. PICK k \in DOMAIN kept : kept[k] = rowed[i]
      OBVIOUS
    <3> QED
      BY <3>1
  <2> QED
    BY <2>1, <2>2 DEF Shown
<1>2. ASSUME NEW i \in DOMAIN kept, NEW j \in DOMAIN kept, NEW k \in DOMAIN kept[i], NEW l \in DOMAIN kept[j],
             SameKey(kept[i][k], kept[j][l])
      PROVE  i = j /\ k = l
  <2>1. from[i] = from[j] /\ k = l
    BY <1>2 DEF EachOnce
  <2> QED
    BY <2>1
<1> QED
  BY <1>1, <1>2 DEF EachOnce

(* A path's nodes and hops: of the nodes the organization's own are kept,  *)
(* of the hops at least those between two of them.                         *)
LEMMA PathParts ==
    ASSUME NEW p \in Paths
    PROVE  /\ NodesOf(p) \in Seq(Nodes) /\ ToSet(NodesOf(p)) = ToSet(p.nodes) \cap Own
           /\ EdgesOf(p) \in Seq(Edges) /\ ToSet(EdgesOf(p)) = ToSet(p.edges) \cap Allowed(p)
           /\ \A e \in ToSet(p.edges) : Joins[e] \subseteq Own => e \in Allowed(p)
<1>1. p.nodes \in Seq(Nodes) /\ p.edges \in Seq(Edges) /\ Len(p.nodes) = Len(p.edges) + 1 /\ Leads(p)
  <2>1. p.nodes \in SeqOf(Nodes, 3) /\ p.edges \in SeqOf(Edges, 2) /\ Len(p.nodes) = Len(p.edges) + 1 /\ Leads(p)
    BY DEF Paths
  <2>2. PICK m \in 0 .. 3 : p.nodes \in [1 .. m -> Nodes]
    BY <2>1 DEF SeqOf
  <2>3. PICK n \in 0 .. 2 : p.edges \in [1 .. n -> Edges]
    BY <2>1 DEF SeqOf
  <2> QED
    BY <2>1, <2>2, <2>3
<1>2. NodesOf(p) \in Seq(Nodes) /\ ToSet(NodesOf(p)) = ToSet(p.nodes) \cap Own
  BY <1>1, FilteredProperties DEF NodesOf
<1>3. EdgesOf(p) \in Seq(Edges) /\ ToSet(EdgesOf(p)) = ToSet(p.edges) \cap Allowed(p)
  BY <1>1, FilteredProperties DEF EdgesOf
<1>4. ASSUME NEW i \in DOMAIN p.edges, Joins[p.edges[i]] \subseteq Own PROVE p.edges[i] \in Allowed(p)
  <2>1. p.edges[i] \in Edges /\ i \in DOMAIN p.nodes /\ i + 1 \in DOMAIN p.nodes
    BY <1>1
  <2>2. Joins[p.edges[i]] = {p.nodes[i], p.nodes[i + 1]}
    BY <1>1 DEF Leads
  <2>3. Joins[p.edges[i]] \subseteq ToSet(p.nodes) \cap Own
    BY <1>4, <2>1, <2>2 DEF ToSet
  <2> QED
    BY <1>2, <2>1, <2>3 DEF Allowed, SameKey
<1> QED
  BY <1>2, <1>3, <1>4 DEF ToSet

(* What traversalSearch makes of the rows of the graph. *)
LEMMA ResultsAreOwnOnce ==
    ASSUME NEW rows \in Rows, NEW results, results = Results(rows)
    PROVE  OwnOnce(rows, results)
<1> DEFINE n == Len(rows)
           nodeLists == [i \in DOMAIN rows |-> NodesOf(rows[i])]
           edgeLists == [i \in DOMAIN rows |-> EdgesOf(rows[i])]
           nodes == FirstShown(nodeLists)
           edges == FirstShown(edgeLists)
           all == [i \in DOMAIN rows |-> [nodes |-> nodes[i], edges |-> edges[i], parts |-> Len(NodesOf(rows[i]))]]
           keep == {r \in ToSet(all) : r.nodes # <<>> \/ r.edges # <<>>}
           ownNodes == Met(rows) \cap Own
           ownEdges == {e \in Hops(rows) : Joins[e] \subseteq Own}
           likely == {e \in Hops(rows) : \A x \in Joins[e] : LooksOwn(x, rows)}
<1>1. rows \in Seq(Paths) /\ n \in Nat /\ DOMAIN rows = 1 .. n /\ \A i \in 1 .. n : rows[i] \in Paths
  <2>1. MaxRows \in Nat
    BY RetrievalAssumption DEF RetrievalAssumption
  <2>2. PICK m \in 0 .. MaxRows : rows \in [1 .. m -> Paths]
    BY DEF Rows, SeqOf
  <2>3. rows \in Seq(Paths)
    BY <2>1, <2>2
  <2> QED
    BY <2>3
<1>2. results = Filtered(all, keep)
  BY DEF Results
<1>3. /\ nodeLists \in Seq(Seq(Nodes)) /\ DOMAIN nodeLists = 1 .. n
      /\ edgeLists \in Seq(Seq(Edges)) /\ DOMAIN edgeLists = 1 .. n
  <2>1. /\ DOMAIN nodeLists = 1 .. n /\ \A i \in 1 .. n : nodeLists[i] \in Seq(Nodes)
        /\ DOMAIN edgeLists = 1 .. n /\ \A i \in 1 .. n : edgeLists[i] \in Seq(Edges)
    BY <1>1, PathParts
  <2> QED
    BY <1>1, <2>1
<1>a. /\ \A i \in 1 .. n : nodeLists[i] = NodesOf(rows[i]) /\ edgeLists[i] = EdgesOf(rows[i])
      /\ \A i \in 1 .. n : ToSet(rows[i].nodes) \subseteq Met(rows) /\ ToSet(rows[i].edges) \subseteq Hops(rows)
      /\ \A x \in Met(rows) : \E i \in 1 .. n : x \in ToSet(rows[i].nodes)
      /\ \A e \in Hops(rows) : \E i \in 1 .. n : e \in ToSet(rows[i].edges)
  <2>1. ToSet(rows) = {rows[i] : i \in 1 .. n}
    BY <1>1 DEF ToSet
  <2>2. \A i \in 1 .. n : nodeLists[i] = NodesOf(rows[i]) /\ edgeLists[i] = EdgesOf(rows[i])
    BY <1>1
  <2> HIDE DEF n, nodeLists, edgeLists
  <2> QED
    BY <2>1, <2>2 DEF Met, Hops
<1> HIDE DEF nodeLists, edgeLists
<1>4. /\ \A i \in DOMAIN nodeLists : ToSet(nodeLists[i]) \subseteq ownNodes
      /\ \A x \in ownNodes : \E i \in DOMAIN nodeLists : x \in ToSet(nodeLists[i])
  <2>1. \A i \in 1 .. n : ToSet(nodeLists[i]) = ToSet(rows[i].nodes) \cap Own
    BY <1>1, <1>a, PathParts
  <2> HIDE DEF n
  <2> QED
    BY <1>3, <1>a, <2>1
<1>5. /\ \A i \in DOMAIN edgeLists : ToSet(edgeLists[i]) \subseteq likely
      /\ \A e \in ownEdges : \E i \in DOMAIN edgeLists : e \in ToSet(edgeLists[i])
  <2>1. \A i \in 1 .. n : ToSet(edgeLists[i]) = ToSet(rows[i].edges) \cap Allowed(rows[i])
    BY <1>1, <1>a, PathParts
  <2>2. ASSUME NEW i \in 1 .. n, NEW e \in ToSet(edgeLists[i]) PROVE e \in likely
    <3>1. e \in Hops(rows) /\ e \in Allowed(rows[i])
      BY <1>a, <2>1, <2>2
    <3>2. ASSUME NEW x \in Joins[e] PROVE LooksOwn(x, rows)
      <4>1. PICK o \in ToSet(NodesOf(rows[i])) : SameKey(x, o)
        BY <3>1 DEF Allowed
      <4>2. o \in Met(rows) \cap Own
        BY <1>1, <1>a, <4>1, PathParts
      <4> QED
        BY <4>1, <4>2 DEF LooksOwn
    <3> QED
      BY <3>1, <3>2
  <2>3. ASSUME NEW e \in ownEdges PROVE \E i \in 1 .. n : e \in ToSet(edgeLists[i])
    <3>1. PICK i \in 1 .. n : e \in ToSet(rows[i].edges)
      BY <1>a
    <3>2. e \in Allowed(rows[i])
      BY <1>1, <3>1, PathParts
    <3> QED
      BY <2>1, <3>1, <3>2
  <2> HIDE DEF n
  <2> QED
    BY <1>3, <2>2, <2>3
<1> HIDE DEF n, ownNodes, ownEdges, likely
<1>6. DOMAIN nodes = 1 .. n /\ EachOnce(nodes, ownNodes, ownNodes)
  <2>1. nodes = FirstShown(nodeLists)
    OBVIOUS
  <2> HIDE DEF nodes
  <2> QED
    BY <1>3, <1>4, <2>1, FirstShownProperties
<1>7. DOMAIN edges = 1 .. n /\ EachOnce(edges, ownEdges, likely)
  <2>1. edges = FirstShown(edgeLists)
    OBVIOUS
  <2> HIDE DEF edges
  <2> QED
    BY <1>3, <1>5, <2>1, FirstShownProperties
<1> HIDE DEF nodes, edges
<1>8. DOMAIN all = 1 .. n /\ \A i \in 1 .. n : all[i].nodes = nodes[i] /\ all[i].edges = edges[i]
  BY <1>1
<1>9. all \in Seq(ToSet(all))
  <2>1. all = [i \in 1 .. n |-> all[i]] /\ \A i \in 1 .. n : all[i] \in ToSet(all)
    BY <1>1 DEF ToSet
  <2> HIDE DEF all
  <2>2. all \in [1 .. n -> ToSet(all)]
    BY <2>1
  <2> QED
    BY <1>1, <2>2
<1> HIDE DEF all, keep
<1>10. PICK from \in [DOMAIN results -> DOMAIN all] :
        /\ results \in Seq(ToSet(all)) /\ ToSet(results) = ToSet(all) \cap keep
        /\ \A k \in DOMAIN results : results[k] = all[from[k]]
        /\ \A k, l \in DOMAIN results : from[k] = from[l] => k = l
  BY <1>2, <1>9, FilteredProperties
<1> DEFINE m == Len(results)
<1>11. m \in Nat /\ DOMAIN results = 1 .. m /\ from \in [1 .. m -> 1 .. n] /\ \A k, l \in 1 .. m : from[k] = from[l] => k = l
  BY <1>8, <1>10
<1>12. ASSUME NEW i \in 1 .. n, ToSet(nodes[i]) # {} \/ ToSet(edges[i]) # {}
       PROVE  \E k \in 1 .. m : results[k] = all[i]
  <2>1. nodes[i] # <<>> \/ edges[i] # <<>>
    BY <1>12 DEF ToSet
  <2>2. all[i] \in ToSet(all)
    BY <1>8 DEF ToSet
  <2>3. all[i] \in ToSet(results)
    BY <1>8, <1>10, <2>1, <2>2 DEF keep
  <2> QED
    BY <1>11, <2>3 DEF ToSet
<1> HIDE DEF m
<1>13. EachOnce([k \in 1 .. m |-> nodes[from[k]]], ownNodes, ownNodes)
  <2> DEFINE kept == [k \in 1 .. m |-> nodes[from[k]]]
  <2>1. DOMAIN kept = 1 .. m /\ \A k \in 1 .. m : kept[k] = nodes[from[k]]
    OBVIOUS
  <2> HIDE DEF kept
  <2>2. ASSUME NEW i \in 1 .. n, ToSet(nodes[i]) # {} PROVE \E k \in 1 .. m : kept[k] = nodes[i]
    <3>1. PICK k \in 1 .. m : results[k] = all[i]
      BY <1>12, <2>2
    <3>2. k \in DOMAIN results /\ from[k] \in 1 .. n
      BY <1>11
    <3>3. kept[k] = nodes[from[k]]
      BY <2>1
    <3>4. all[from[k]] = all[i]
      BY <1>10, <3>1, <3>2
    <3>5. nodes[from[k]] = all[from[k]].nodes /\ nodes[i] = all[i].nodes
      BY <1>8, <3>2
    <3> QED
      BY <3>3, <3>4, <3>5
  <2>3. /\ from \in [DOMAIN kept -> DOMAIN nodes] /\ \A k \in DOMAIN kept : kept[k] = nodes[from[k]]
        /\ \A k, l \in DOMAIN kept : from[k] = from[l] => k = l
        /\ \A i \in DOMAIN nodes : ToSet(nodes[i]) # {} => \E k \in DOMAIN kept : kept[k] = nodes[i]
    BY <1>6, <1>11, <2>1, <2>2
  <2>4. EachOnce(kept, ownNodes, ownNodes)
    BY <1>6, <2>3, DroppedEmpty
  <2> QED
    BY <2>4 DEF kept
<1>14. EachOnce([k \in 1 .. m |-> edges[from[k]]], ownEdges, likely)
  <2> DEFINE kept == [k \in 1 .. m |-> edges[from[k]]]
  <2>1. DOMAIN kept = 1 .. m /\ \A k \in 1 .. m : kept[k] = edges[from[k]]
    OBVIOUS
  <2> HIDE DEF kept
  <2>2. ASSUME NEW i \in 1 .. n, ToSet(edges[i]) # {} PROVE \E k \in 1 .. m : kept[k] = edges[i]
    <3>1. PICK k \in 1 .. m : results[k] = all[i]
      BY <1>12, <2>2
    <3>2. k \in DOMAIN results /\ from[k] \in 1 .. n
      BY <1>11
    <3>3. kept[k] = edges[from[k]]
      BY <2>1
    <3>4. all[from[k]] = all[i]
      BY <1>10, <3>1, <3>2
    <3>5. edges[from[k]] = all[from[k]].edges /\ edges[i] = all[i].edges
      BY <1>8, <3>2
    <3> QED
      BY <3>3, <3>4, <3>5
  <2>3. /\ from \in [DOMAIN kept -> DOMAIN edges] /\ \A k \in DOMAIN kept : kept[k] = edges[from[k]]
        /\ \A k, l \in DOMAIN kept : from[k] = from[l] => k = l
        /\ \A i \in DOMAIN edges : ToSet(edges[i]) # {} => \E k \in DOMAIN kept : kept[k] = edges[i]
    BY <1>7, <1>11, <2>1, <2>2
  <2>4. EachOnce(kept, ownEdges, likely)
    BY <1>7, <2>3, DroppedEmpty
  <2> QED
    BY <2>4 DEF kept
<1>15. \A k \in 1 .. m : results[k].nodes = nodes[from[k]] /\ results[k].edges = edges[from[k]]
  BY <1>8, <1>10, <1>11
<1>16. /\ [i \in DOMAIN results |-> results[i].nodes] = [k \in 1 .. m |-> nodes[from[k]]]
       /\ [i \in DOMAIN results |-> results[i].edges] = [k \in 1 .. m |-> edges[from[k]]]
  BY <1>11, <1>15
<1> QED
  BY <1>13, <1>14, <1>16 DEF OwnOnce, ownNodes, ownEdges, likely

(* Whatever paths the graph returns, traversalSearch shows the             *)
(* organization's own nodes and the edges between them, each once, and     *)
(* nothing of another organization: up to the rounding of the graph's ids. *)
THEOREM TraversalCorrect == RetrievalSpec => []TraversalIsOwnOnce
<1>1. OwnOnce(NothingFound.rows, NothingFound.results)
  <2>1. NothingFound.rows = <<>> /\ NothingFound.results = <<>> /\ DOMAIN <<>> = {} /\ ToSet(<<>>) = {}
    BY DEF NothingFound, ToSet
  <2> QED
    BY <2>1 DEF OwnOnce, EachOnce, Shown, Met, Hops
<1>2. ASSUME NEW rows \in Rows, NEW f, f = [rows |-> rows, results |-> Results(rows)]
      PROVE  OwnOnce(f.rows, f.results)
  BY <1>2, ResultsAreOwnOnce
<1>3. RetrievalInit => TraversalIsOwnOnce
  BY <1>1 DEF RetrievalInit, TraversalIsOwnOnce
<1>4. TraversalIsOwnOnce /\ [RetrievalNext]_retrievalVars => TraversalIsOwnOnce'
  <2> SUFFICES ASSUME TraversalIsOwnOnce, [RetrievalNext]_retrievalVars PROVE TraversalIsOwnOnce'
    OBVIOUS
  <2>1. CASE found' = NothingFound
    BY <1>1, <2>1 DEF TraversalIsOwnOnce
  <2>2. CASE \E rows \in Rows : found' = [rows |-> rows, results |-> Results(rows)]
    BY <1>2, <2>2 DEF TraversalIsOwnOnce
  <2>3. CASE found' = found
    BY <2>3 DEF TraversalIsOwnOnce
  <2> QED
    BY <2>1, <2>2, <2>3 DEF RetrievalNext, PipelineNext, TraversalSearch, retrievalVars
<1> QED
  BY <1>3, <1>4, PTL DEF RetrievalSpec

(* Tokens of either stream: a half of a word, or a newline. *)
Vocabulary == ToSet(Deltas) \cup Reserved
Tokens == Vocabulary \X {1, 2} \cup {NL}
Chunks == Seq(Tokens)

LEMMA TokensOfWords ==
  ASSUME NEW w \in Vocabulary
  PROVE  /\ <<w, 1>> \in Tokens /\ <<w, 2>> \in Tokens /\ NL \in Tokens
         /\ <<w, 1>> # NL /\ <<w, 2>> # NL /\ Halves(w) \in Chunks /\ Len(Halves(w)) = 2
         /\ Halves(w)[1] = <<w, 1>> /\ Halves(w)[2] = <<w, 2>>
<1>1. <<w, 1>> \in Tokens /\ <<w, 2>> \in Tokens /\ NL \in Tokens
  BY DEF Tokens, NL
<1>2. <<w, 1>> # NL /\ <<w, 2>> # NL
  BY DEF NL
<1>3. Halves(w)[1] = <<w, 1>> /\ Halves(w)[2] = <<w, 2>> /\ Len(Halves(w)) = 2
  BY DEF Halves
<1>4. Halves(w) \in Chunks
  BY <1>1 DEF Halves, Chunks
<1> QED
  BY <1>1, <1>2, <1>3, <1>4

LEMMA HalvesApart ==
  ASSUME NEW v \in Vocabulary, NEW w \in Vocabulary, Halves(v) = Halves(w)
  PROVE  v = w
<1>1. <<v, 1>> = <<w, 1>>
  BY TokensOfWords
<1> QED
  BY <1>1

(* The recursion of readSSELines has a function, whatever the chunk. *)
LEMMA ReadSSELinesUpTo ==
    ASSUME NEW buf \in Chunks, NEW chunk \in Chunks
    PROVE  \E f : /\ f[0] = [buf |-> buf, lines |-> <<>>]
                  /\ \A i \in 1 .. Len(chunk) : f[i] = ReadLine(f[i - 1], chunk[i])
                  /\ ReadSSELines(buf, chunk) = f[Len(chunk)]
<1> DEFINE A == [buf : Chunks, lines : Seq(Chunks)]
           n == Len(chunk)
           base == [buf |-> buf, lines |-> <<>>]
           step == [i \in 1 .. n |-> [a \in A |-> ReadLine(a, chunk[i])]]
           rule(g) == [i \in 0 .. n |-> IF i = 0 THEN base ELSE ReadLine(g[i - 1], chunk[i])]
           Recurs(g) == g = rule(g)
           c == CHOOSE g : Recurs(g)
<1>1. n \in Nat /\ \A i \in 1 .. n : chunk[i] \in Tokens
  BY DEF Chunks
<1>2. base \in A
  BY DEF Chunks
<1>3. ASSUME NEW a \in A, NEW t \in Tokens PROVE ReadLine(a, t) \in A
  <2>1. a = [buf |-> a.buf, lines |-> a.lines] /\ a.buf \in Chunks /\ a.lines \in Seq(Chunks)
    OBVIOUS
  <2>2. Append(a.buf, t) \in Chunks /\ Append(a.lines, a.buf) \in Seq(Chunks) /\ <<>> \in Chunks
    BY <2>1 DEF Chunks
  <2>3. CASE t # NL
    <3>1. ReadLine(a, t) = [buf |-> Append(a.buf, t), lines |-> a.lines]
      BY <2>1, <2>3 DEF ReadLine
    <3> QED
      BY <2>1, <2>2, <3>1
  <2>4. CASE t = NL
    <3>1. ReadLine(a, t) = [buf |-> <<>>, lines |-> IF a.buf = <<>> THEN a.lines ELSE Append(a.lines, a.buf)]
      BY <2>4 DEF ReadLine
    <3> QED
      BY <2>1, <2>2, <3>1
  <2> QED
    BY <2>3, <2>4
<1>4. step \in [1 .. n -> [A -> A]]
  BY <1>1, <1>3
<1> HIDE DEF A, base, n
<1>5. PICK f \in [0 .. n -> A] : f[0] = base /\ \A i \in 1 .. n : f[i] = step[i][f[i - 1]]
  <2>1. n \in Nat /\ base \in A /\ step \in StepsOn(A, n)
    BY <1>1, <1>2, <1>4 DEF StepsOn
  <2> HIDE DEF step
  <2>2. HasFold(A, base, step, n)
    BY <2>1, FoldExists
  <2> QED
    BY <2>2 DEF HasFold, Follows
<1>6. Recurs(f)
  <2>1. ASSUME NEW i \in 0 .. n PROVE f[i] = rule(f)[i]
    <3>1. CASE i = 0
      BY <1>5, <3>1
    <3>2. CASE i \in 1 .. n
      <4>1. i # 0 /\ i - 1 \in 0 .. n
        BY <1>1, <3>2
      <4>2. f[i - 1] \in A
        BY <4>1
      <4>3. step[i][f[i - 1]] = ReadLine(f[i - 1], chunk[i])
        BY <3>2, <4>2
      <4> QED
        BY <1>5, <3>2, <4>1, <4>3
    <3> QED
      BY <1>1, <3>1, <3>2
  <2>2. f = [i \in 0 .. n |-> f[i]]
    BY <1>5
  <2> HIDE DEF rule
  <2>3. f = [i \in 0 .. n |-> rule(f)[i]]
    BY <2>1, <2>2
  <2>4. rule(f) = [i \in 0 .. n |-> rule(f)[i]]
    BY DEF rule
  <2> QED
    BY <2>3, <2>4
<1>7. Recurs(c)
  <2> HIDE DEF Recurs
  <2> QED
    BY <1>6
<1>8. ReadSSELines(buf, chunk) = c[n]
  BY DEF ReadSSELines, Folded, base, n
<1> HIDE DEF c
<1>9. c[0] = base /\ \A i \in 1 .. n : c[i] = ReadLine(c[i - 1], chunk[i])
  <2>1. \A i \in 0 .. n : c[i] = rule(c)[i]
    BY <1>7
  <2>2. 0 \in 0 .. n /\ \A i \in 1 .. n : i \in 0 .. n /\ i # 0
    BY <1>1
  <2> QED
    BY <2>1, <2>2
<1> QED
  BY <1>8, <1>9 DEF base, n

(* Every place of a stream is a number of whole lines and a bit of one. *)
LEMMA Thirds ==
    ASSUME NEW k \in Nat, NEW c \in 0 .. 2
    PROVE  (3 * k + c) \div 3 = k /\ (3 * k + c) % 3 = c
  OBVIOUS

LEMMA SomeThirds ==
    ASSUME NEW n \in Nat
    PROVE  \E k \in Nat, c \in 0 .. 2 : n = 3 * k + c
<1> DEFINE S == {m \in Nat : \E k \in Nat, c \in 0 .. 2 : m = 3 * k + c}
<1>1. 0 \in S
  <2>1. 0 = 3 * 0 + 0
    OBVIOUS
  <2> QED
    BY <2>1
<1>2. ASSUME NEW m \in Nat, m \in S PROVE m + 1 \in S
  <2> SUFFICES \E k \in Nat, c \in 0 .. 2 : m + 1 = 3 * k + c
    OBVIOUS
  <2>1. PICK k \in Nat, c \in 0 .. 2 : m = 3 * k + c
    BY <1>2
  <2>2. CASE c = 2
    <3>1. m + 1 = 3 * (k + 1) + 0 /\ k + 1 \in Nat
      BY <2>1, <2>2
    <3> WITNESS k + 1 \in Nat, 0 \in 0 .. 2
    <3> QED
      BY <3>1
  <2>3. CASE c # 2
    <3>1. m + 1 = 3 * k + (c + 1) /\ c + 1 \in 0 .. 2
      BY <2>1, <2>3
    <3> c + 1 \in 0 .. 2
      BY <3>1
    <3> WITNESS k \in Nat, c + 1 \in 0 .. 2
    <3> QED
      BY <3>1
  <2> QED
    BY <2>2, <2>3
<1> HIDE DEF S
<1>3. n \in S
  BY <1>1, <1>2, SetInduction
<1> QED
  BY <1>3 DEF S

LEMMA LineTokens ==
    ASSUME NEW words \in Seq(Vocabulary), NEW k \in Nat, k < Len(words)
    PROVE  /\ Lines(words)[3 * k + 1] = <<words[k + 1], 1>> /\ Lines(words)[3 * k + 2] = <<words[k + 1], 2>>
           /\ Lines(words)[3 * k + 3] = NL /\ words[k + 1] \in Vocabulary
<1> DEFINE script(i) == IF i % 3 = 0 THEN NL ELSE <<words[(i + 2) \div 3], i % 3>>
<1>1. Len(words) \in Nat /\ words[k + 1] \in Vocabulary
  OBVIOUS
<1>2. ASSUME NEW i \in 1 .. 3 * Len(words) PROVE Lines(words)[i] = script(i)
  BY DEF Lines
<1>3. 3 * k + 1 \in 1 .. 3 * Len(words) /\ 3 * k + 2 \in 1 .. 3 * Len(words) /\ 3 * k + 3 \in 1 .. 3 * Len(words)
  BY <1>1
<1>4. (3 * k + 1) % 3 = 1 /\ (3 * k + 2) % 3 = 2 /\ (3 * k + 3) % 3 = 0
  <2>1. 3 * k + 3 = 3 * (k + 1) + 0
    OBVIOUS
  <2> QED
    BY <2>1, Thirds
<1>5. (3 * k + 1 + 2) \div 3 = k + 1 /\ (3 * k + 2 + 2) \div 3 = k + 1
  <2>1. 3 * k + 1 + 2 = 3 * (k + 1) + 0 /\ 3 * k + 2 + 2 = 3 * (k + 1) + 1
    OBVIOUS
  <2> QED
    BY <2>1, Thirds
<1>6. script(3 * k + 1) = <<words[k + 1], 1>> /\ script(3 * k + 2) = <<words[k + 1], 2>> /\ script(3 * k + 3) = NL
  <2>1. 3 * k + 1 + 2 = (3 * k + 1) + 2 /\ 3 * k + 2 + 2 = (3 * k + 2) + 2
    OBVIOUS
  <2> QED
    BY <1>4, <1>5, <2>1
<1> HIDE DEF script
<1> QED
  BY <1>1, <1>2, <1>3, <1>6

(* The beginning of a line that no chunk has completed yet. *)
PartOf(words, k, c) ==
    IF c = 0 THEN <<>> ELSE IF c = 1 THEN <<<<words[k + 1], 1>>>> ELSE Halves(words[k + 1])

LEMMA Appended ==
    ASSUME NEW x, NEW y
    PROVE  Append(<<x>>, y) = <<x, y>>
<1> DEFINE s == Append(<<x>>, y)
<1>1. <<x>> \in Seq({x, y}) /\ y \in {x, y} /\ Len(<<x>>) = 1
  OBVIOUS
<1>2. s \in Seq({x, y}) /\ Len(s) = 2 /\ s[1] = x /\ s[2] = y
  BY <1>1
<1>3. <<x, y>> \in Seq({x, y}) /\ Len(<<x, y>>) = 2 /\ <<x, y>>[1] = x /\ <<x, y>>[2] = y
  OBVIOUS
<1> HIDE DEF s
<1> DEFINE t == <<x, y>>
<1> HIDE DEF t
<1>4. \A i \in 1 .. Len(s) : s[i] = t[i]
  BY <1>2, <1>3 DEF t
<1>5. t \in Seq({x, y}) /\ Len(t) = Len(s)
  BY <1>2, <1>3 DEF t
<1>6. s = t
  BY <1>2, <1>4, <1>5, SeqEqual
<1> QED
  BY <1>6 DEF s, t

(* Whole lines, from one to another. *)
LinesFrom(words, k, l) == [j \in 1 .. l - k |-> Halves(words[k + j])]

(* What reading up to a place yields. *)
ReadUpTo(words, k, at, read) ==
    \E l \in Nat, d \in 0 .. 2 :
      at = 3 * l + d /\ k <= l /\ read.buf = PartOf(words, l, d) /\ read.lines = LinesFrom(words, k, l)

(* The chunk is what follows the first tokens. *)
IsRead(chunk, words, at) == \A i \in 1 .. Len(chunk) : chunk[i] = Lines(words)[at + i]

(* Wherever a chunk begins and ends, reading it yields the lines that it   *)
(* completes and the beginning of the next one.                            *)
LEMMA ChunkOfLines ==
    ASSUME NEW words \in Seq(Vocabulary), NEW k \in Nat, NEW c \in 0 .. 2, NEW n \in Nat,
           3 * k + c + n <= 3 * Len(words),
           NEW buf, buf = PartOf(words, k, c),
           NEW chunk \in Chunks, Len(chunk) = n, IsRead(chunk, words, 3 * k + c)
    PROVE  ReadUpTo(words, k, 3 * k + c + n, ReadSSELines(buf, chunk))
<1>1. Len(words) \in Nat /\ (c # 0 => k < Len(words))
  OBVIOUS
<1>2. buf \in Chunks
  <2>1. c # 0 => words[k + 1] \in Vocabulary
    BY <1>1, LineTokens
  <2>2. CASE c = 0
    BY <2>2 DEF PartOf, Chunks
  <2>3. CASE c = 1
    <3>1. <<words[k + 1], 1>> \in Tokens
      BY <2>1, <2>3 DEF Tokens
    <3> QED
      BY <2>3, <3>1 DEF PartOf, Chunks
  <2>4. CASE c = 2
    <3>1. <<words[k + 1], 1>> \in Tokens /\ <<words[k + 1], 2>> \in Tokens
      BY <2>1, <2>4 DEF Tokens
    <3>2. Halves(words[k + 1]) \in Chunks
      BY <3>1 DEF Halves, Chunks
    <3> QED
      BY <2>4, <3>2 DEF PartOf
  <2> QED
    BY <2>2, <2>3, <2>4
<1>3. PICK f : /\ f[0] = [buf |-> buf, lines |-> <<>>]
               /\ \A i \in 1 .. n : f[i] = ReadLine(f[i - 1], chunk[i])
               /\ ReadSSELines(buf, chunk) = f[n]
  BY <1>2, ReadSSELinesUpTo
<1> DEFINE Read(m, l, d) ==
             /\ 3 * k + c + m = 3 * l + d /\ k <= l
             /\ f[m] = [buf |-> PartOf(words, l, d), lines |-> LinesFrom(words, k, l)]
           S == {m \in Nat : m <= n => \E l \in Nat, d \in 0 .. 2 : Read(m, l, d)}
<1> HIDE DEF Read
<1>4. 0 \in S
  <2>1. LinesFrom(words, k, k) = <<>>
    BY DEF LinesFrom
  <2>2. Read(0, k, c)
    BY <1>3, <2>1 DEF Read
  <2> QED
    BY <2>2
<1>5. ASSUME NEW m \in Nat, m \in S PROVE m + 1 \in S
  <2> SUFFICES ASSUME m + 1 <= n PROVE \E l \in Nat, d \in 0 .. 2 : Read(m + 1, l, d)
    OBVIOUS
  <2>1. PICK l \in Nat, d \in 0 .. 2 : Read(m, l, d)
    BY <1>5
  <2> DEFINE lines == LinesFrom(words, k, l)
             t == Lines(words)[3 * l + d + 1]
  <2>2. f[m + 1] = ReadLine(f[m], t) /\ f[m].buf = PartOf(words, l, d) /\ f[m].lines = lines
    <3>0. 3 * k + c + m = 3 * l + d
      BY <2>1 DEF Read
    <3>1. m + 1 \in 1 .. n /\ (m + 1) - 1 = m /\ 3 * k + c + (m + 1) = 3 * l + d + 1
      BY <3>0
    <3>2. f[m + 1] = ReadLine(f[m], chunk[m + 1]) /\ chunk[m + 1] = Lines(words)[3 * k + c + (m + 1)]
      BY <1>3, <3>1 DEF IsRead
    <3>3. chunk[m + 1] = t
      BY <3>1, <3>2
    <3> HIDE DEF t
    <3>4. f[m].buf = PartOf(words, l, d) /\ f[m].lines = lines
      BY <2>1 DEF Read
    <3> QED
      BY <3>2, <3>3, <3>4
  <2>3. f[m] = [buf |-> PartOf(words, l, d), lines |-> lines]
    BY <2>1 DEF Read
  <2>4. l < Len(words)
    <3>1. 3 * k + c + m = 3 * l + d
      BY <2>1 DEF Read
    <3> QED
      BY <1>1, <3>1
  <2>5. /\ words[l + 1] \in Vocabulary
        /\ d = 0 => t = <<words[l + 1], 1>>
        /\ d = 1 => t = <<words[l + 1], 2>>
        /\ d = 2 => t = NL
    <3>1. /\ Lines(words)[3 * l + 1] = <<words[l + 1], 1>> /\ Lines(words)[3 * l + 2] = <<words[l + 1], 2>>
          /\ Lines(words)[3 * l + 3] = NL /\ words[l + 1] \in Vocabulary
      BY <2>4, LineTokens
    <3>2. /\ d = 0 => 3 * l + d + 1 = 3 * l + 1
          /\ d = 1 => 3 * l + d + 1 = 3 * l + 2
          /\ d = 2 => 3 * l + d + 1 = 3 * l + 3
      OBVIOUS
    <3> QED
      BY <3>1, <3>2
  <2>6. t # NL => f[m + 1] = [buf |-> Append(PartOf(words, l, d), t), lines |-> lines]
    <3> HIDE DEF t, lines
    <3> QED
      BY <2>2, <2>3 DEF ReadLine
  <2>7. t = NL /\ PartOf(words, l, d) # <<>> => f[m + 1] = [buf |-> <<>>, lines |-> Append(lines, PartOf(words, l, d))]
    <3> HIDE DEF t, lines
    <3> QED
      BY <2>2, <2>3 DEF ReadLine
  <2>8. CASE d = 0
    <3>1. PartOf(words, l, 0) = <<>> /\ PartOf(words, l, 1) = <<<<words[l + 1], 1>>>>
      BY DEF PartOf
    <3>2. t = <<words[l + 1], 1>> /\ t # NL
      BY <2>5, <2>8, TokensOfWords
    <3>3. Append(<<>>, <<words[l + 1], 1>>) = <<<<words[l + 1], 1>>>>
      OBVIOUS
    <3>4. f[m + 1] = [buf |-> PartOf(words, l, 1), lines |-> lines]
      BY <2>6, <2>8, <3>1, <3>2, <3>3
    <3>5. Read(m + 1, l, 1)
      <4>0. 3 * k + c + m = 3 * l + 0 /\ k <= l
        BY <2>1, <2>8 DEF Read
      <4>1. 3 * k + c + (m + 1) = 3 * l + 1 /\ k <= l
        BY <4>0
      <4> QED
        BY <3>4, <4>1 DEF Read
    <3> QED
      BY <3>5
  <2>9. CASE d = 1
    <3>1. PartOf(words, l, 2) = Halves(words[l + 1]) /\ PartOf(words, l, 1) = <<<<words[l + 1], 1>>>>
      BY DEF PartOf
    <3>2. t = <<words[l + 1], 2>> /\ t # NL
      BY <2>5, <2>9, TokensOfWords
    <3>3. Append(<<<<words[l + 1], 1>>>>, <<words[l + 1], 2>>) = Halves(words[l + 1])
      <4> DEFINE x == <<words[l + 1], 1>>
                 y == <<words[l + 1], 2>>
      <4>1. Halves(words[l + 1]) = <<x, y>>
        BY DEF Halves
      <4>2. Append(<<x>>, y) = <<x, y>>
        BY Appended
      <4> QED
        BY <4>1, <4>2
    <3>4. f[m + 1] = [buf |-> PartOf(words, l, 2), lines |-> lines]
      BY <2>6, <2>9, <3>1, <3>2, <3>3
    <3>5. Read(m + 1, l, 2)
      <4>0. 3 * k + c + m = 3 * l + 1 /\ k <= l
        BY <2>1, <2>9 DEF Read
      <4>1. 3 * k + c + (m + 1) = 3 * l + 2 /\ k <= l
        BY <4>0
      <4> QED
        BY <3>4, <4>1 DEF Read
    <3> QED
      BY <3>5
  <2>10. CASE d = 2
    <3>1. PartOf(words, l, 2) = Halves(words[l + 1]) /\ PartOf(words, l + 1, 0) = <<>>
      BY DEF PartOf
    <3>2. Halves(words[l + 1]) # <<>>
      BY DEF Halves
    <3>3. f[m + 1] = [buf |-> <<>>, lines |-> Append(lines, Halves(words[l + 1]))]
      BY <2>5, <2>7, <2>10, <3>1, <3>2
    <3>4. Append(lines, Halves(words[l + 1])) = LinesFrom(words, k, l + 1)
      <4>1. l - k \in Nat /\ (l + 1) - k = (l - k) + 1 /\ k + ((l - k) + 1) = l + 1
        BY <2>1 DEF Read
      <4> QED
        BY <4>1 DEF LinesFrom
    <3>5. Read(m + 1, l + 1, 0)
      <4>0. 3 * k + c + m = 3 * l + 2 /\ k <= l
        BY <2>1, <2>10 DEF Read
      <4>1. 3 * k + c + (m + 1) = 3 * (l + 1) + 0 /\ k <= l + 1
        BY <4>0
      <4> QED
        BY <3>1, <3>3, <3>4, <4>1 DEF Read
    <3> QED
      BY <3>5
  <2> QED
    BY <2>8, <2>9, <2>10
<1> HIDE DEF S
<1>6. n \in S
  BY <1>4, <1>5, SetInduction
<1>7. PICK l \in Nat, d \in 0 .. 2 : Read(n, l, d)
  BY <1>6 DEF S
<1>8. /\ 3 * k + c + n = 3 * l + d /\ k <= l
      /\ ReadSSELines(buf, chunk) = [buf |-> PartOf(words, l, d), lines |-> LinesFrom(words, k, l)]
  BY <1>3, <1>7 DEF Read
<1> HIDE DEF Read
<1>9. /\ ReadSSELines(buf, chunk).buf = PartOf(words, l, d)
      /\ ReadSSELines(buf, chunk).lines = LinesFrom(words, k, l)
  BY <1>8
<1> QED
  BY <1>8, <1>9 DEF ReadUpTo

---------------------------------------------------------------------------
(* The provider's words and the answer made of them. *)
Upto(k) == [i \in 1 .. k |-> Deltas[i]]

LEMMA DeltasKnown ==
    /\ Len(Deltas) \in Nat /\ DOMAIN Deltas = 1 .. Len(Deltas) /\ Deltas \in Seq(ToSet(Deltas))
    /\ \A i \in 1 .. Len(Deltas) : Deltas[i] \in ToSet(Deltas)
    /\ ToSet(Deltas) \cap Reserved = {}
<1>1. Deltas \in Seq(STRING) /\ ToSet(Deltas) \cap Reserved = {}
  BY AnswerStreamAssumption DEF AnswerStreamAssumption
<1>2. Len(Deltas) \in Nat /\ DOMAIN Deltas = 1 .. Len(Deltas) /\ Deltas = [i \in 1 .. Len(Deltas) |-> Deltas[i]]
  BY <1>1
<1>3. \A i \in 1 .. Len(Deltas) : Deltas[i] \in ToSet(Deltas)
  BY <1>2 DEF ToSet
<1>4. Deltas \in Seq(ToSet(Deltas))
  <2> DEFINE D == ToSet(Deltas)
             m == Len(Deltas)
  <2> HIDE DEF D
  <2>1. Deltas \in [1 .. m -> D]
    BY <1>2, <1>3 DEF D
  <2>2. m \in Nat
    BY <1>2
  <2> QED
    BY <2>1, <2>2 DEF D
<1> QED
  BY <1>1, <1>2, <1>3, <1>4

LEMMA Beginnings ==
    ASSUME NEW k \in 0 .. Len(Deltas)
    PROVE  /\ Upto(k) \in Seq(ToSet(Deltas)) /\ Len(Upto(k)) = k /\ Upto(k) \in Prefixes(Deltas)
           /\ Beginning(k) = Upto(k) /\ Upto(0) = <<>>
           /\ k < Len(Deltas) => Append(Upto(k), Deltas[k + 1]) = Upto(k + 1)
<1>1. Upto(k) \in Seq(ToSet(Deltas)) /\ Len(Upto(k)) = k
  BY DeltasKnown DEF Upto
<1>2. SubSeq(Deltas, 1, k) = Upto(k)
  <2>1. SubSeq(Deltas, 1, k) = [i \in 1 .. k |-> Deltas[i]]
    BY DeltasKnown
  <2> QED
    BY <2>1 DEF Upto
<1>3. Beginning(k) = Upto(k) /\ Upto(k) \in Prefixes(Deltas)
  <2>1. Len(Deltas) \in Nat
    BY DeltasKnown
  <2>2. (IF k > Len(Deltas) THEN Len(Deltas) ELSE k) = k
    BY <2>1
  <2>3. Beginning(k) = Upto(k)
    BY <1>2, <2>2 DEF Beginning
  <2>4. Upto(k) \in Prefixes(Deltas)
    BY <1>2, Zenon DEF Prefixes
  <2> QED
    BY <2>3, <2>4
<1>4. ASSUME k < Len(Deltas) PROVE Append(Upto(k), Deltas[k + 1]) = Upto(k + 1)
  <2>1. k + 1 \in 1 .. Len(Deltas) /\ k \in Nat
    BY <1>4, DeltasKnown
  <2> QED
    BY <1>1, <2>1 DEF Upto
<1>5. Upto(0) = <<>>
  BY DEF Upto
<1> QED
  BY <1>1, <1>3, <1>4, <1>5

(* What was said cannot be more than there is to say. *)
LEMMA AllSaid ==
    ASSUME NEW n \in Nat, n >= Len(Deltas)
    PROVE  Beginning(n) = Upto(Len(Deltas))
<1>1. (IF n > Len(Deltas) THEN Len(Deltas) ELSE n) = Len(Deltas)
  <2>1. Len(Deltas) \in Nat
    BY DeltasKnown
  <2> QED
    BY <2>1
<1>2. Beginning(n) = SubSeq(Deltas, 1, Len(Deltas))
  BY <1>1 DEF Beginning
<1>3. SubSeq(Deltas, 1, Len(Deltas)) = [i \in 1 .. Len(Deltas) |-> Deltas[i]]
  BY DeltasKnown
<1> QED
  BY <1>2, <1>3 DEF Upto

LEMMA WordsKnown ==
    /\ Words \in Seq(Vocabulary) /\ Len(Words) \in Len(Deltas) .. Len(Deltas) + 1 /\ Len(Words) \in Nat
    /\ \A i \in 1 .. Len(Deltas) : Words[i] = Deltas[i]
    /\ Len(Words) = Len(Deltas) + 1 => vendor \in Compatible /\ Words[Len(Words)] = "[DONE]"
<1>1. Deltas \in Seq(Vocabulary) /\ "[DONE]" \in Vocabulary
  <2>1. ToSet(Deltas) \subseteq Vocabulary /\ "[DONE]" \in Vocabulary
    BY DEF Vocabulary, Reserved
  <2> DEFINE D == ToSet(Deltas)
             V == Vocabulary
  <2>2. Deltas \in Seq(D) /\ D \subseteq V
    BY <2>1, DeltasKnown
  <2> HIDE DEF D, V
  <2>3. Deltas \in Seq(V)
    BY <2>2
  <2> QED
    BY <2>1, <2>3 DEF V
<1>2. CASE vendor \in Compatible
  <2>1. Words = Append(Deltas, "[DONE]")
    BY <1>2 DEF Words
  <2> QED
    BY <1>1, <1>2, <2>1
<1>3. CASE vendor \notin Compatible
  <2>1. Words = Deltas
    BY <1>3 DEF Words
  <2> QED
    BY <1>1, <2>1
<1> QED
  BY <1>2, <1>3

(* What the three parsers make of whole lines and of a broken one. *)
LEMMA LineYields ==
    ASSUME vendor \in Vendors, NEW i \in 1 .. Len(Words)
    PROVE  /\ i <= Len(Deltas) => StreamChatLLM(Halves(Words[i])) = {Deltas[i]}
           /\ i > Len(Deltas) => StreamChatLLM(Halves(Words[i])) = {"break"}
           /\ StreamChatLLM(<<<<Words[i], 1>>>>) = {}
<1>1. vendor \in Compatible \/ vendor = "anthropic" \/ vendor = "gemini"
  BY AnswerStreamAssumption DEF AnswerStreamAssumption
<1>2. "anthropic" \notin Compatible /\ "gemini" \notin Compatible
  BY DEF Compatible
<1>3. ASSUME NEW line
      PROVE  \/ StreamChatLLM(line) = {d \in ToSet(Deltas) : line = Halves(d)}
             \/ StreamChatLLM(line) = IF line = Halves("[DONE]") THEN {"break"} ELSE {d \in ToSet(Deltas) : line = Halves(d)}
  BY <1>1, <1>2 DEF StreamChatLLM, StreamOpenAICompatible, StreamAnthropic, StreamGemini
<1>4. \A d \in ToSet(Deltas) : d \in Vocabulary /\ d # "[DONE]"
  BY DeltasKnown DEF Vocabulary, Reserved
<1>5. "[DONE]" \in Vocabulary
  BY DEF Vocabulary, Reserved
<1>6. ASSUME i <= Len(Deltas) PROVE StreamChatLLM(Halves(Words[i])) = {Deltas[i]}
  <2>1. Words[i] = Deltas[i] /\ Deltas[i] \in ToSet(Deltas)
    BY <1>6, WordsKnown, DeltasKnown
  <2>2. Halves(Deltas[i]) # Halves("[DONE]")
    BY <1>4, <1>5, <2>1, HalvesApart
  <2>3. {d \in ToSet(Deltas) : Halves(Deltas[i]) = Halves(d)} = {Deltas[i]}
    BY <1>4, <2>1, HalvesApart
  <2> QED
    BY <1>3, <2>1, <2>2, <2>3
<1>7. ASSUME i > Len(Deltas) PROVE StreamChatLLM(Halves(Words[i])) = {"break"}
  <2>1. vendor \in Compatible /\ Words[i] = "[DONE]"
    <3>1. i = Len(Deltas) + 1 /\ i = Len(Words)
      BY <1>7, WordsKnown, DeltasKnown
    <3> QED
      BY <3>1, WordsKnown
  <2> QED
    BY <1>2, <2>1 DEF StreamChatLLM, StreamOpenAICompatible
<1>8. StreamChatLLM(<<<<Words[i], 1>>>>) = {}
  <2> DEFINE line == <<<<Words[i], 1>>>>
  <2>1. ASSUME NEW w PROVE line # Halves(w)
    <3>1. Len(line) = 1 /\ Len(Halves(w)) = 2
      BY DEF Halves
    <3> QED
      BY <3>1
  <2> HIDE DEF line
  <2>2. StreamChatLLM(line) = {}
    BY <1>3, <2>1
  <2> QED
    BY <2>2 DEF line
<1> QED
  BY <1>6, <1>7, <1>8

(* None of them looks for an error. *)
LEMMA ErrorYields == ASSUME vendor \in Vendors PROVE StreamChatLLM(Halves("error")) = {}
<1>1. vendor \in Compatible \/ vendor = "anthropic" \/ vendor = "gemini"
  BY AnswerStreamAssumption DEF AnswerStreamAssumption
<1>2. "anthropic" \notin Compatible /\ "gemini" \notin Compatible
  BY DEF Compatible
<1>3. "error" \in Vocabulary /\ "[DONE]" \in Vocabulary /\ "error" # "[DONE]" /\ "error" \notin ToSet(Deltas)
  BY DeltasKnown DEF Vocabulary, Reserved
<1>4. Halves("error") # Halves("[DONE]")
  BY <1>3, HalvesApart
<1>5. {d \in ToSet(Deltas) : Halves("error") = Halves(d)} = {}
  <2>1. \A d \in ToSet(Deltas) : d \in Vocabulary /\ d # "error"
    BY <1>3 DEF Vocabulary
  <2> QED
    BY <1>3, <2>1, HalvesApart
<1> QED
  BY <1>1, <1>2, <1>4, <1>5 DEF StreamChatLLM, StreamOpenAICompatible, StreamAnthropic, StreamGemini

(* How far the provider's stream was read, and the answer at that point. *)
SaidBy(L) == Beginning((L.at + IF L.pc = "eof" THEN 1 ELSE 0) \div 3)

OpenAt(words, L, answer) ==
    \E k \in Nat, c \in 0 .. 2, q \in Nat :
      /\ L.at = 3 * k + c /\ L.at <= 3 * Len(words) /\ q <= k /\ k - q <= Len(Deltas)
      /\ L.buf = PartOf(words, k, c)
      /\ L.lines = LinesFrom(words, k - q, k)
      /\ answer = Upto(k - q)

(* The provider's last line is an error, after whole lines. *)
Complains(L, answer) == L.lines = <<Halves("error")>> /\ answer = SaidBy(L)

EndedAt(words, L, answer) ==
    \/ L.lines = <<>> /\ answer = SaidBy(L)
    \/ \E k \in 0 .. Len(Deltas), c \in {1, 2} :
         /\ L.at = 3 * k + c /\ k < Len(words)
         /\ L.lines = <<PartOf(words, k, c)>> /\ answer = Upto(k)
    \/ Complains(L, answer)

LEMMA LinesType ==
    ASSUME NEW words \in Seq(Vocabulary)
    PROVE  Lines(words) \in Chunks /\ Len(Lines(words)) = 3 * Len(words)
<1>1. Len(words) \in Nat /\ 3 * Len(words) \in Nat
  OBVIOUS
<1>2. ASSUME NEW i \in 1 .. 3 * Len(words) PROVE Lines(words)[i] \in Tokens
  <2>1. i - 1 \in Nat
    BY <1>1
  <2>2. PICK k \in Nat, c \in 0 .. 2 : i - 1 = 3 * k + c
    BY <2>1, SomeThirds
  <2>3. k < Len(words) /\ (i = 3 * k + 1 \/ i = 3 * k + 2 \/ i = 3 * k + 3)
    BY <1>1, <2>2
  <2>4. /\ Lines(words)[3 * k + 1] = <<words[k + 1], 1>> /\ Lines(words)[3 * k + 2] = <<words[k + 1], 2>>
        /\ Lines(words)[3 * k + 3] = NL /\ words[k + 1] \in Vocabulary
    BY <2>3, LineTokens
  <2> DEFINE w == words[k + 1]
  <2>5. <<w, 1>> \in Tokens /\ <<w, 2>> \in Tokens /\ NL \in Tokens
    BY <2>4, TokensOfWords
  <2> HIDE DEF w
  <2>6. Lines(words)[3 * k + 1] = <<w, 1>> /\ Lines(words)[3 * k + 2] = <<w, 2>> /\ Lines(words)[3 * k + 3] = NL
    BY <2>4 DEF w
  <2> QED
    BY <2>3, <2>5, <2>6
<1>3. DOMAIN Lines(words) = 1 .. 3 * Len(words) /\ Lines(words) = [i \in 1 .. 3 * Len(words) |-> Lines(words)[i]]
  BY DEF Lines
<1> DEFINE lines == Lines(words)
           n == 3 * Len(words)
<1> HIDE DEF lines
<1>4. lines \in [1 .. n -> Tokens] /\ n \in Nat
  BY <1>1, <1>2, <1>3 DEF lines
<1>5. lines \in Chunks /\ Len(lines) = n
  <2> HIDE DEF n
  <2> QED
    BY <1>4 DEF Chunks
<1> QED
  BY <1>5 DEF lines

LEMMA SpeaksOn ==
    ASSUME NEW words \in Seq(Vocabulary), NEW L, L.at \in Nat, L.buf \in Chunks, NEW answer, OpenAt(words, L, answer),
           L.lines = <<>>, NEW n \in Nat, L.at + n <= 3 * Len(words),
           NEW M, M.at = L.at + n,
           M.buf = ReadSSELines(L.buf, SubSeq(Lines(words), L.at + 1, L.at + n)).buf,
           M.lines = ReadSSELines(L.buf, SubSeq(Lines(words), L.at + 1, L.at + n)).lines
    PROVE  OpenAt(words, M, answer) /\ M.buf \in Chunks /\ M.lines \in Seq(Chunks)
<1> DEFINE chunk == SubSeq(Lines(words), L.at + 1, L.at + n)
<1>1. Len(words) \in Nat /\ Lines(words) \in Chunks /\ Len(Lines(words)) = 3 * Len(words)
  BY LinesType
<1>2. chunk \in Chunks /\ Len(chunk) = n /\ \A i \in 1 .. n : chunk[i] = Lines(words)[L.at + i]
  <2> DEFINE s == Lines(words)
             a == L.at
  <2>1. s \in Seq(Tokens) /\ a \in Nat /\ a + n <= Len(s)
    BY <1>1 DEF Chunks
  <2> HIDE DEF s, a
  <2>2. SubSeq(s, a + 1, a + n) \in Seq(Tokens) /\ Len(SubSeq(s, a + 1, a + n)) = n
    BY <2>1
  <2>3. \A i \in 1 .. n : SubSeq(s, a + 1, a + n)[i] = s[a + i]
    BY <2>1
  <2> QED
    BY <2>2, <2>3 DEF s, a, Chunks
<1> HIDE DEF chunk
<1>3. PICK k \in Nat, c \in 0 .. 2, q \in Nat :
      /\ L.at = 3 * k + c /\ L.at <= 3 * Len(words) /\ q <= k /\ k - q <= Len(Deltas)
      /\ L.buf = PartOf(words, k, c)
      /\ L.lines = LinesFrom(words, k - q, k)
      /\ answer = Upto(k - q)
  BY DEF OpenAt
<1>4. q = 0
  <2>1. Len(<<>>) = 0 /\ Len(LinesFrom(words, k - q, k)) = q
    BY <1>3 DEF LinesFrom
  <2> QED
    BY <1>3, <2>1
<1>5. PICK l \in Nat, d \in 0 .. 2 :
             /\ 3 * k + c + n = 3 * l + d /\ k <= l
             /\ ReadSSELines(L.buf, chunk).buf = PartOf(words, l, d)
             /\ ReadSSELines(L.buf, chunk).lines = LinesFrom(words, k, l)
  <2>1. 3 * k + c + n <= 3 * Len(words) /\ \A i \in 1 .. n : chunk[i] = Lines(words)[3 * k + c + i]
    BY <1>2, <1>3
  <2> DEFINE buf == L.buf
  <2>2. buf = PartOf(words, k, c)
    BY <1>3
  <2> HIDE DEF buf
  <2>3. ReadUpTo(words, k, 3 * k + c + n, ReadSSELines(buf, chunk))
    <3>1. /\ words \in Seq(Vocabulary) /\ k \in Nat /\ c \in 0 .. 2 /\ n \in Nat /\ chunk \in Chunks /\ Len(chunk) = n
          /\ 3 * k + c + n <= 3 * Len(words) /\ IsRead(chunk, words, 3 * k + c)
      BY <1>2, <2>1 DEF IsRead
    <3> QED
      BY <2>2, <3>1, ChunkOfLines
  <2> QED
    BY <2>3 DEF buf, ReadUpTo
<1>6. M.buf = PartOf(words, l, d) /\ M.lines = LinesFrom(words, k, l) /\ M.at = 3 * l + d
  BY <1>3, <1>5 DEF chunk
<1>11. L.at = 3 * k + c /\ 3 * k + c + n = 3 * l + d /\ k <= l /\ k - q <= Len(Deltas) /\ answer = Upto(k - q)
  BY <1>3, <1>5
<1>7. OpenAt(words, M, answer)
  <2> DEFINE p == l - k
  <2>1. p \in Nat /\ p <= l /\ l - p = k /\ k <= Len(Deltas) /\ M.at <= 3 * Len(words) /\ answer = Upto(l - p)
    <3>0. q = 0 /\ k <= l
      BY <1>4, <1>11
    <3>1. p \in Nat /\ p <= l /\ l - p = k /\ k - q = k
      BY <3>0
    <3>2. M.at <= 3 * Len(words)
      BY <1>6, <1>11
    <3> QED
      BY <1>11, <3>1, <3>2
  <2>2. M.lines = LinesFrom(words, l - p, l)
    BY <1>6, <2>1
  <2> HIDE DEF p
  <2> QED
    BY <1>6, <2>1, <2>2 DEF OpenAt
<1>8. \A i \in 1 .. Len(words) : Halves(words[i]) \in Chunks /\ <<words[i], 1>> \in Tokens
  <2> TAKE i \in 1 .. Len(words)
  <2> DEFINE w == words[i]
  <2>1. w \in Vocabulary
    BY <1>1
  <2> HIDE DEF w
  <2>2. Halves(w) \in Chunks /\ <<w, 1>> \in Tokens
    BY <2>1, TokensOfWords
  <2> QED
    BY <2>2 DEF w
<1>9. M.buf \in Chunks
  <2>1. d # 0 => l + 1 \in 1 .. Len(words)
    BY <1>1, <1>11
  <2>2. CASE d = 0
    <3>1. M.buf = <<>>
      BY <1>6, <2>2 DEF PartOf
    <3>2. <<>> \in Chunks
      BY DEF Chunks
    <3> QED
      BY <3>1, <3>2, Zenon
  <2>3. CASE d = 1
    <3> DEFINE t == <<words[l + 1], 1>>
    <3>1. t \in Tokens
      BY <1>8, <2>1, <2>3
    <3>2. M.buf = <<t>>
      BY <1>6, <2>3 DEF PartOf
    <3> HIDE DEF t
    <3>3. <<t>> \in Seq(Tokens)
      BY <3>1
    <3> QED
      BY <3>2, <3>3 DEF Chunks
  <2>4. CASE d = 2
    <3>1. Halves(words[l + 1]) \in Chunks
      <4>1. l + 1 \in 1 .. Len(words)
        BY <2>1, <2>4
      <4> QED
        BY <1>8, <4>1, Zenon
    <3>2. M.buf = Halves(words[l + 1])
      BY <1>6, <2>4 DEF PartOf
    <3> QED
      BY <3>1, <3>2, Zenon
  <2> QED
    BY <2>2, <2>3, <2>4
<1>10. M.lines \in Seq(Chunks)
  <2>1. l - k \in Nat /\ \A j \in 1 .. l - k : k + j \in 1 .. Len(words)
    BY <1>1, <1>11
  <2>2. \A j \in 1 .. l - k : Halves(words[k + j]) \in Chunks
    BY <1>8, <2>1
  <2> DEFINE p == l - k
             line(j) == Halves(words[k + j])
  <2>3. p \in Nat /\ (\A j \in 1 .. p : line(j) \in Chunks) /\ M.lines = [j \in 1 .. p |-> line(j)]
    BY <1>6, <2>1, <2>2 DEF LinesFrom
  <2> HIDE DEF p, line
  <2> QED
    BY <2>3
<1> QED
  BY <1>7, <1>9, <1>10

(* The stream ends: what was left of a line is one. *)
LEMMA EndsHere ==
    ASSUME NEW words \in Seq(Vocabulary), NEW L, L.at \in Nat, L.buf \in Chunks, NEW answer, OpenAt(words, L, answer),
           L.lines = <<>>, NEW M, M.at = L.at, M.pc = "eof", M.lines = LinesAtEnd(L.buf)
    PROVE  EndedAt(words, M, answer) /\ M.lines \in Seq(Chunks)
<1>1. PICK k \in Nat, c \in 0 .. 2, q \in Nat :
      /\ L.at = 3 * k + c /\ L.at <= 3 * Len(words) /\ q <= k /\ k - q <= Len(Deltas)
      /\ L.buf = PartOf(words, k, c)
      /\ L.lines = LinesFrom(words, k - q, k)
      /\ answer = Upto(k - q)
  BY DEF OpenAt
<1>2. q = 0
  <2>1. Len(<<>>) = 0 /\ Len(LinesFrom(words, k - q, k)) = q
    BY <1>1 DEF LinesFrom
  <2> QED
    BY <1>1, <2>1
<1>3. answer = Upto(k) /\ k \in 0 .. Len(Deltas) /\ Len(words) \in Nat
  BY <1>1, <1>2, DeltasKnown
<1>4. M.lines \in Seq(Chunks)
  BY DEF LinesAtEnd, Tail1
<1>5. CASE c = 0
  <2>1. M.lines = <<>>
    BY <1>1, <1>5 DEF PartOf, LinesAtEnd, Tail1
  <2>2. (M.at + 1) \div 3 = k
    <3>1. M.at + 1 = 3 * k + 1
      BY <1>1, <1>5
    <3> QED
      BY <3>1, Thirds
  <2>3. SaidBy(M) = Upto(k)
    BY <1>3, <2>2, Beginnings DEF SaidBy
  <2> QED
    BY <1>3, <1>4, <2>1, <2>3 DEF EndedAt
<1>6. CASE c \in {1, 2}
  <2>1. k < Len(words)
    BY <1>1, <1>3, <1>6
  <2>2. M.lines = <<PartOf(words, k, c)>>
    <3>1. PartOf(words, k, c) # <<>>
      BY <1>6 DEF PartOf, Halves
    <3> QED
      BY <1>1, <3>1 DEF LinesAtEnd, Tail1
  <2>3. EndedAt(words, M, answer)
    BY <1>1, <1>3, <1>6, <2>1, <2>2 DEF EndedAt
  <2> QED
    BY <1>4, <2>3
<1> QED
  BY <1>5, <1>6

(* The next line that waits while the stream is open. *)
Waits(words, L, answer, i) ==
    /\ Head(L.lines) = Halves(words[i]) /\ i - 1 <= Len(Deltas) /\ answer = Upto(i - 1) /\ L.at >= 3 * i
    /\ i <= Len(Deltas) => \A M : M.at = L.at /\ M.buf = L.buf /\ M.lines = Tail(L.lines) => OpenAt(words, M, Upto(i))

LEMMA LineOfOpen ==
    ASSUME NEW words \in Seq(Vocabulary), NEW L, NEW answer, OpenAt(words, L, answer), L.lines # <<>>
    PROVE  \E i \in 1 .. Len(words) : Waits(words, L, answer, i)
<1>1. PICK k \in Nat, c \in 0 .. 2, q \in Nat :
      /\ L.at = 3 * k + c /\ L.at <= 3 * Len(words) /\ q <= k /\ k - q <= Len(Deltas)
      /\ L.buf = PartOf(words, k, c)
      /\ L.lines = LinesFrom(words, k - q, k)
      /\ answer = Upto(k - q)
  BY DEF OpenAt
<1> DEFINE i == k - q + 1
           line(j) == Halves(words[k - q + j])
<1>2. q # 0 /\ L.lines = [j \in 1 .. q |-> line(j)]
  <2>1. k - (k - q) = q
    BY <1>1
  <2>2. L.lines = [j \in 1 .. q |-> line(j)]
    BY <1>1, <2>1 DEF LinesFrom
  <2> QED
    BY <2>2
<1>3. i \in Nat /\ i >= 1 /\ i <= k /\ i - 1 = k - q /\ k <= Len(words) /\ Len(words) \in Nat
  BY <1>1, <1>2
<1>4. i \in 1 .. Len(words) /\ L.at >= 3 * i
  BY <1>1, <1>3
<1>5. Head(L.lines) = Halves(words[i]) /\ L.lines \in Seq({line(j) : j \in 1 .. q}) /\ Len(L.lines) = q
  <2>1. L.lines[1] = line(1)
    BY <1>2
  <2> HIDE DEF line
  <2>2. L.lines \in Seq({line(j) : j \in 1 .. q}) /\ Len(L.lines) = q
    BY <1>2
  <2>3. Head(L.lines) = line(1)
    BY <1>2, <2>1, <2>2
  <2> QED
    BY <2>2, <2>3 DEF line
<1>6. ASSUME i <= Len(Deltas), NEW M, M.at = L.at, M.buf = L.buf, M.lines = Tail(L.lines)
      PROVE  OpenAt(words, M, Upto(i))
  <2> DEFINE p == q - 1
  <2>1. p \in Nat /\ p <= k /\ k - p = i
    BY <1>1, <1>2, <1>3
  <2>2. M.lines = LinesFrom(words, k - p, k)
    <3>1. M.lines = [j \in 1 .. p |-> L.lines[j + 1]]
      <4> DEFINE t == L.lines
      <4>1. t \in Seq({line(j) : j \in 1 .. q}) /\ Len(t) = q /\ M.lines = Tail(t)
        BY <1>5, <1>6
      <4>2. q \in Nat /\ q # 0
        BY <1>1, <1>2
      <4> HIDE DEF t, line
      <4>3. t # <<>>
        BY <4>1, <4>2
      <4> DEFINE X == {line(j) : j \in 1 .. q}
                 u == Tail(t)
      <4>4. t \in Seq(X) /\ t # <<>>
        BY <4>1, <4>3
      <4> HIDE DEF X
      <4>5. u \in Seq(X) /\ Len(u) = Len(t) - 1 /\ \A j \in 1 .. Len(u) : u[j] = t[j + 1]
        BY <4>4, HeadTailProperties
      <4> HIDE DEF u
      <4>6. u = [j \in 1 .. Len(u) |-> u[j]]
        BY <4>5
      <4>7. Len(u) = p
        BY <4>1, <4>5
      <4>8. u = [j \in 1 .. p |-> t[j + 1]]
        BY <4>5, <4>6, <4>7
      <4> QED
        BY <4>1, <4>8 DEF t, u
    <3>2. \A j \in 1 .. p : L.lines[j + 1] = Halves(words[k - p + j])
      <4> TAKE j \in 1 .. p
      <4>1. j + 1 \in 1 .. q /\ k - q + (j + 1) = k - p + j
        BY <1>1, <1>2
      <4>2. L.lines[j + 1] = line(j + 1)
        BY <1>2, <4>1
      <4> QED
        BY <4>1, <4>2
    <3>3. k - (k - p) = p
      BY <1>1, <1>2
    <3> HIDE DEF p
    <3> QED
      BY <3>1, <3>2, <3>3 DEF LinesFrom
  <2>3. M.at = 3 * k + c /\ M.at <= 3 * Len(words) /\ k - p <= Len(Deltas) /\ M.buf = PartOf(words, k, c)
    BY <1>1, <1>6, <2>1
  <2>4. Upto(i) = Upto(k - p)
    BY <2>1
  <2> HIDE DEF p, i
  <2> QED
    BY <2>1, <2>2, <2>3, <2>4 DEF OpenAt
<1>7. i - 1 <= Len(Deltas) /\ answer = Upto(i - 1)
  BY <1>1, <1>3
<1> HIDE DEF i
<1>8. Waits(words, L, answer, i)
  BY <1>4, <1>5, <1>6, <1>7 DEF Waits
<1> QED
  BY <1>4, <1>8

(* The one line that the end of the stream has left: half of one, or a     *)
(* whole one without its newline.                                          *)
Rests(words, L, answer, i) ==
    /\ i <= Len(Deltas) + 1 /\ answer = Upto(i - 1) /\ Tail(L.lines) = <<>>
    /\ \/ Head(L.lines) = <<<<words[i], 1>>>> /\ SaidBy(L) = Upto(i - 1)
       \/ Head(L.lines) = Halves(words[i]) /\ SaidBy(L) = Upto(IF i <= Len(Deltas) THEN i ELSE i - 1)

LEMMA LineOfEnded ==
    ASSUME NEW words \in Seq(Vocabulary), NEW L, L.pc = "eof", NEW answer, EndedAt(words, L, answer), L.lines # <<>>
    PROVE  Complains(L, answer) \/ \E i \in 1 .. Len(words) : Rests(words, L, answer, i)
<1> SUFFICES ASSUME ~Complains(L, answer) PROVE \E i \in 1 .. Len(words) : Rests(words, L, answer, i)
  OBVIOUS
<1>1. PICK k \in 0 .. Len(Deltas), c \in {1, 2} :
         /\ L.at = 3 * k + c /\ k < Len(words)
         /\ L.lines = <<PartOf(words, k, c)>> /\ answer = Upto(k)
  BY DEF EndedAt
<1> DEFINE i == k + 1
<1>2. i \in 1 .. Len(words) /\ i - 1 = k /\ i <= Len(Deltas) + 1 /\ Len(Deltas) \in Nat /\ k \in Nat
  BY <1>1, DeltasKnown
<1>3. Head(L.lines) = PartOf(words, k, c) /\ Tail(L.lines) = <<>>
  BY <1>1
<1>4. CASE c = 1
  <2>1. (L.at + 1) \div 3 = k
    <3>1. L.at + 1 = 3 * k + 2
      BY <1>1, <1>2, <1>4
    <3> QED
      BY <1>2, <3>1, Thirds
  <2>2. SaidBy(L) = Upto(i - 1)
    BY <1>1, <1>2, <2>1, Beginnings DEF SaidBy
  <2>3. Head(L.lines) = <<<<words[i], 1>>>>
    BY <1>3, <1>4 DEF PartOf
  <2>4. Rests(words, L, answer, i)
    BY <1>1, <1>2, <1>3, <2>2, <2>3 DEF Rests
  <2> QED
    BY <1>2, <2>4
<1>5. CASE c = 2
  <2>1. (L.at + 1) \div 3 = k + 1
    <3>1. L.at + 1 = 3 * (k + 1) + 0 /\ k + 1 \in Nat
      BY <1>1, <1>2, <1>5
    <3> QED
      BY <3>1, Thirds
  <2>2. SaidBy(L) = Beginning(k + 1)
    BY <2>1 DEF SaidBy
  <2>3. SaidBy(L) = Upto(IF i <= Len(Deltas) THEN i ELSE i - 1)
    <3>1. CASE k + 1 <= Len(Deltas)
      <4>1. k + 1 \in 0 .. Len(Deltas)
        BY <1>2, <3>1
      <4>2. Beginning(k + 1) = Upto(k + 1)
        BY <4>1, Beginnings
      <4> QED
        BY <2>2, <3>1, <4>2
    <3>2. CASE k = Len(Deltas)
      <4>1. k + 1 \in Nat /\ k + 1 >= Len(Deltas) /\ ~(k + 1 <= Len(Deltas)) /\ (k + 1) - 1 = k
        BY <1>2, <3>2
      <4>2. Beginning(k + 1) = Upto(Len(Deltas))
        BY <4>1, AllSaid
      <4> QED
        BY <2>2, <3>2, <4>1, <4>2
    <3> QED
      BY <1>1, <1>2, <3>1, <3>2
  <2>4. Head(L.lines) = Halves(words[i])
    BY <1>3, <1>5 DEF PartOf
  <2>5. Rests(words, L, answer, i)
    BY <1>1, <1>2, <1>3, <2>3, <2>4 DEF Rests
  <2> QED
    BY <1>2, <2>5
<1> QED
  BY <1>4, <1>5

---------------------------------------------------------------------------
(* The server's half.  While the answer is synthesized it is what the      *)
(* lines that were looked at say; the lines that wait say what comes next, *)
(* and the rest of a line what follows them.                               *)
Reading(words, L, answer) ==
    /\ L.pc \in {"open", "eof", "failed"}
    /\ L.pc = "open" => OpenAt(words, L, answer)
    /\ L.pc = "eof" => EndedAt(words, L, answer)
    /\ L.pc = "failed" => L.lines = <<>>

Streams == [pc : {"off", "open", "eof", "failed"}, at : Nat, buf : Chunks, lines : Seq(Chunks)]
Begun == {Upto(k) : k \in 0 .. Len(Deltas)}
Handlers == [pc : {"asked", "synth", "log", "closed"}, answer : Begun, degraded : BOOLEAN]
NotAsked == [pc |-> "off", at |-> 0, buf |-> <<>>, lines |-> <<>>]

ServerInv ==
    /\ vendor \in Vendors /\ client \in Clients /\ gone \in BOOLEAN
    /\ llm \in Streams /\ llm.at <= 3 * Len(Words) /\ server \in Handlers
    /\ server.pc = "asked" => llm = NotAsked /\ server.answer = <<>>
    /\ server.pc = "synth" => Reading(Words, llm, server.answer)
    /\ server.pc = "log" /\ ~gone => server.degraded \/ server.answer = SaidBy(llm)

LEMMA BegunKnown ==
    /\ <<>> \in Begun /\ Deltas \in Begun /\ Upto(0) = <<>> /\ Upto(Len(Deltas)) = Deltas
    /\ \A i \in 1 .. Len(Deltas) + 1 : Upto(i - 1) \in Begun
    /\ \A i \in 1 .. Len(Deltas) : Upto(i) \in Begun /\ Append(Upto(i - 1), Deltas[i]) = Upto(i)
<1>1. Len(Deltas) \in Nat /\ Deltas = [i \in 1 .. Len(Deltas) |-> Deltas[i]]
  BY DeltasKnown
<1>2. Upto(Len(Deltas)) = Deltas
  BY <1>1 DEF Upto
<1>3. Upto(0) = <<>>
  BY DEF Upto
<1>4. 0 \in 0 .. Len(Deltas) /\ Len(Deltas) \in 0 .. Len(Deltas)
  BY <1>1
<1>5. <<>> \in Begun /\ Deltas \in Begun
  BY <1>2, <1>3, <1>4 DEF Begun
<1>6. \A i \in 1 .. Len(Deltas) + 1 : Upto(i - 1) \in Begun
  <2> TAKE i \in 1 .. Len(Deltas) + 1
  <2>1. i - 1 \in 0 .. Len(Deltas)
    BY <1>1
  <2> QED
    BY <2>1 DEF Begun
<1>7. ASSUME NEW i \in 1 .. Len(Deltas) PROVE Upto(i) \in Begun /\ Append(Upto(i - 1), Deltas[i]) = Upto(i)
  <2>1. i - 1 \in 0 .. Len(Deltas) /\ i - 1 < Len(Deltas) /\ (i - 1) + 1 = i /\ i \in 0 .. Len(Deltas)
    BY <1>1
  <2>2. Append(Upto(i - 1), Deltas[(i - 1) + 1]) = Upto((i - 1) + 1)
    BY <2>1, Beginnings
  <2> QED
    BY <2>1, <2>2 DEF Begun
<1> QED
  BY <1>2, <1>3, <1>5, <1>6, <1>7

LEMMA SpeaksKeeps == ASSUME ServerInv, Speaks PROVE ServerInv'
<1>1. /\ server.pc = "synth" /\ llm.pc = "open" /\ llm.lines = <<>>
      /\ UNCHANGED <<vendor, client, server, pipe, reader, gone>>
  BY DEF Speaks
<1>2. PICK n \in 1 .. Len(Script) - llm.at :
         llm' = [llm EXCEPT !.at = @ + n,
                   !.buf = ReadSSELines(llm.buf, SubSeq(Script, llm.at + 1, llm.at + n)).buf,
                   !.lines = ReadSSELines(llm.buf, SubSeq(Script, llm.at + 1, llm.at + n)).lines]
  BY DEF Speaks
<1>3. /\ llm \in Streams /\ llm.at \in Nat /\ llm.buf \in Chunks /\ Words \in Seq(Vocabulary) /\ Script = Lines(Words)
      /\ Len(Script) = 3 * Len(Words) /\ Len(Words) \in Nat
  BY WordsKnown, LinesType DEF ServerInv, Streams, Script
<1>4. n \in Nat /\ llm.at + n <= 3 * Len(Words) /\ llm.at + n \in Nat
  BY <1>3
<1> DEFINE read == ReadSSELines(llm.buf, SubSeq(Lines(Words), llm.at + 1, llm.at + n))
<1>5. llm' = [llm EXCEPT !.at = llm.at + n, !.buf = read.buf, !.lines = read.lines]
  BY <1>2, <1>3
<1> HIDE DEF read
<1>6. llm'.at = llm.at + n /\ llm'.buf = read.buf /\ llm'.lines = read.lines /\ llm'.pc = "open"
  BY <1>1, <1>3, <1>5 DEF Streams
<1>7. OpenAt(Words, llm, server.answer)
  BY <1>1 DEF ServerInv, Reading
<1>8. OpenAt(Words, llm', server.answer) /\ llm'.buf \in Chunks /\ llm'.lines \in Seq(Chunks)
  BY <1>1, <1>3, <1>4, <1>6, <1>7, SpeaksOn DEF read
<1>9. llm' \in Streams /\ llm'.at <= 3 * Len(Words)
  BY <1>3, <1>4, <1>5, <1>6, <1>8 DEF Streams
<1>10. Words' = Words /\ Reading(Words, llm', server.answer)
  BY <1>1, <1>6, <1>8 DEF Words, Reading
<1> QED
  BY <1>1, <1>9, <1>10 DEF ServerInv

LEMMA EndsKeeps == ASSUME ServerInv, Ends PROVE ServerInv'
<1>1. /\ server.pc = "synth" /\ llm.pc = "open" /\ llm.lines = <<>>
      /\ llm' = [llm EXCEPT !.pc = "eof", !.buf = <<>>, !.lines = LinesAtEnd(llm.buf)]
      /\ UNCHANGED <<vendor, client, server, pipe, reader, gone>>
  BY DEF Ends
<1>2. llm \in Streams /\ llm.at \in Nat /\ llm.buf \in Chunks /\ Words \in Seq(Vocabulary) /\ <<>> \in Chunks
  BY WordsKnown DEF ServerInv, Streams, Chunks
<1>3. llm'.at = llm.at /\ llm'.pc = "eof" /\ llm'.lines = LinesAtEnd(llm.buf) /\ llm'.buf = <<>>
  BY <1>1, <1>2 DEF Streams
<1>4. OpenAt(Words, llm, server.answer)
  BY <1>1 DEF ServerInv, Reading
<1>5. EndedAt(Words, llm', server.answer) /\ llm'.lines \in Seq(Chunks)
  BY <1>1, <1>2, <1>3, <1>4, EndsHere
<1>6. llm' \in Streams /\ llm'.at <= 3 * Len(Words)
  BY <1>1, <1>2, <1>3, <1>5 DEF Streams, ServerInv
<1>7. Words' = Words /\ Reading(Words, llm', server.answer)
  BY <1>1, <1>3, <1>5 DEF Words, Reading
<1> QED
  BY <1>1, <1>6, <1>7 DEF ServerInv

LEMMA ReportsErrorKeeps == ASSUME ServerInv, ReportsError PROVE ServerInv'
<1>1. /\ server.pc = "synth" /\ llm.pc = "open" /\ llm.lines = <<>> /\ llm.buf = <<>>
      /\ llm' = [llm EXCEPT !.pc = "eof", !.lines = <<Halves("error")>>]
      /\ UNCHANGED <<vendor, client, server, pipe, reader, gone>>
  BY DEF ReportsError
<1>2. llm \in Streams /\ llm.at \in Nat /\ Words \in Seq(Vocabulary)
  BY WordsKnown DEF ServerInv, Streams
<1>3. Halves("error") \in Chunks
  <2> DEFINE h1 == <<"error", 1>>
             h2 == <<"error", 2>>
             T == Tokens
  <2>1. h1 \in T /\ h2 \in T
    BY DEF Tokens, Vocabulary, Reserved
  <2>2. Halves("error") = <<h1, h2>>
    BY DEF Halves
  <2> HIDE DEF h1, h2, T
  <2>3. <<h1, h2>> \in Seq(T)
    BY <2>1
  <2> QED
    BY <2>2, <2>3 DEF Chunks, T
<1>4. llm' \in Streams /\ llm'.at = llm.at /\ llm'.pc = "eof" /\ llm'.lines = <<Halves("error")>>
  <2> DEFINE line == Halves("error")
  <2>1. <<line>> \in Seq(Chunks) /\ llm' = [llm EXCEPT !.pc = "eof", !.lines = <<line>>]
    BY <1>1, <1>3
  <2> HIDE DEF line
  <2>2. llm' \in Streams /\ llm'.at = llm.at /\ llm'.pc = "eof" /\ llm'.lines = <<line>>
    BY <1>2, <2>1 DEF Streams
  <2> QED
    BY <2>2 DEF line
<1>5. server.answer = SaidBy(llm')
  <2>1. LinesAtEnd(llm.buf) = <<>>
    BY <1>1 DEF LinesAtEnd, Tail1
  <2> DEFINE M == [at |-> llm.at, pc |-> "eof", lines |-> <<>>]
  <2>2. llm.buf \in Chunks /\ OpenAt(Words, llm, server.answer) /\ M.at = llm.at /\ M.pc = "eof" /\ M.lines = LinesAtEnd(llm.buf)
    BY <1>1, <1>2, <2>1 DEF ServerInv, Reading, Streams
  <2>3. M.lines = <<>> /\ SaidBy(M) = SaidBy(llm')
    BY <1>4 DEF SaidBy
  <2> HIDE DEF M
  <2>4. EndedAt(Words, M, server.answer)
    BY <1>1, <1>2, <2>2, EndsHere
  <2>5. ASSUME NEW words, NEW k, NEW c \in {1, 2} PROVE <<PartOf(words, k, c)>> # <<>>
    OBVIOUS
  <2>6. server.answer = SaidBy(M)
    BY <2>3, <2>4, <2>5 DEF EndedAt, Complains
  <2> QED
    BY <2>3, <2>6
<1>6. EndedAt(Words, llm', server.answer)
  BY <1>4, <1>5 DEF EndedAt, Complains
<1>7. llm'.at <= 3 * Len(Words) /\ Words' = Words /\ Reading(Words, llm', server.answer)
  BY <1>1, <1>4, <1>6 DEF Words, Reading, ServerInv
<1> QED
  BY <1>1, <1>4, <1>7 DEF ServerInv

LEMMA BreaksKeeps == ASSUME ServerInv, Breaks PROVE ServerInv'
<1>1. /\ server.pc = "synth" /\ llm.lines = <<>>
      /\ llm' = [llm EXCEPT !.pc = "failed", !.buf = <<>>]
      /\ UNCHANGED <<vendor, client, server, pipe, reader, gone>>
  BY DEF Breaks
<1>2. llm \in Streams /\ <<>> \in Chunks
  BY DEF ServerInv, Streams, Chunks
<1>3. llm'.at = llm.at /\ llm'.pc = "failed" /\ llm'.lines = <<>> /\ llm' \in Streams
  BY <1>1, <1>2 DEF Streams
<1>4. Words' = Words /\ Reading(Words, llm', server.answer)
  BY <1>1, <1>3 DEF Words, Reading
<1> QED
  BY <1>1, <1>3, <1>4 DEF ServerInv

LEMMA RetrievesKeeps == ASSUME ServerInv, Retrieves PROVE ServerInv'
<1>1. /\ server.pc = "asked" /\ UNCHANGED <<vendor, client, reader, gone>>
      /\ \/ /\ server' = [server EXCEPT !.pc = IF gone THEN "closed" ELSE "synth"]
            /\ llm' = IF gone THEN llm ELSE [llm EXCEPT !.pc = "open"]
         \/ server' = [server EXCEPT !.pc = "closed"] /\ UNCHANGED llm
  BY DEF Retrieves
<1>2. llm = NotAsked /\ server.answer = <<>> /\ Words' = Words /\ llm \in Streams /\ server \in Handlers /\ Words \in Seq(Vocabulary)
  BY <1>1, WordsKnown DEF ServerInv, Words
<1>3. CASE server' = [server EXCEPT !.pc = "closed"] /\ llm' = llm
  <2>1. server'.pc = "closed" /\ server' \in Handlers
    BY <1>2, <1>3 DEF Handlers
  <2> QED
    BY <1>1, <1>2, <1>3, <2>1 DEF ServerInv
<1>4. CASE server' = [server EXCEPT !.pc = "synth"] /\ llm' = [llm EXCEPT !.pc = "open"]
  <2>1. server'.pc = "synth" /\ server'.answer = <<>> /\ server' \in Handlers
    BY <1>2, <1>4 DEF Handlers
  <2>2. llm' = [pc |-> "open", at |-> 0, buf |-> <<>>, lines |-> <<>>]
    BY <1>2, <1>4 DEF NotAsked
  <2>3. llm' \in Streams /\ llm'.at = 0 /\ llm'.pc = "open" /\ llm'.buf = <<>> /\ llm'.lines = <<>> /\ Len(Words) \in Nat
    BY <1>2, <2>2 DEF Streams, Chunks
  <2>4. OpenAt(Words, llm', <<>>)
    <3>1. PartOf(Words, 0, 0) = <<>> /\ LinesFrom(Words, 0, 0) = <<>> /\ Upto(0) = <<>>
      BY DEF PartOf, LinesFrom, Upto
    <3>2. 0 \in Nat /\ 0 \in 0 .. 2 /\ 0 - 0 = 0 /\ 0 <= Len(Deltas) /\ 3 * 0 + 0 = 0 /\ 0 <= 3 * Len(Words) /\ 0 <= 0
      BY <2>3, DeltasKnown
    <3> QED
      BY <2>3, <3>1, <3>2 DEF OpenAt
  <2>5. Reading(Words, llm', server'.answer)
    BY <2>1, <2>3, <2>4 DEF Reading
  <2> QED
    BY <1>1, <1>2, <2>1, <2>3, <2>5 DEF ServerInv
<1> QED
  BY <1>1, <1>3, <1>4 DEF ServerInv

(* synthesizeStream takes the next line: of a stream that is still open,   *)
(* or the one that the end has left.                                       *)
LEMMA SynthesizeKeeps == ASSUME ServerInv, SynthesizeStream PROVE ServerInv'
<1> DEFINE out == StreamChatLLM(Head(llm.lines))
<1>1. /\ server.pc = "synth" /\ llm.lines # <<>> /\ UNCHANGED <<vendor, client, reader, gone>>
      /\ \/ /\ out \cap ToSet(Deltas) = {} /\ "break" \notin out
            /\ llm' = [llm EXCEPT !.lines = Tail(@)] /\ server' = server
         \/ "break" \in out /\ llm' = [llm EXCEPT !.pc = "eof", !.lines = <<>>] /\ server' = server
         \/ \E d \in out \cap ToSet(Deltas) :
              /\ llm' = [llm EXCEPT !.lines = Tail(@)]
              /\ server' = [server EXCEPT !.answer = Append(@, d), !.pc = IF gone THEN "log" ELSE @]
  BY DEF SynthesizeStream
<1> HIDE DEF out
<1>2. /\ llm \in Streams /\ server \in Handlers /\ Words \in Seq(Vocabulary) /\ Words' = Words /\ vendor \in Vendors
      /\ Len(Words) \in Len(Deltas) .. Len(Deltas) + 1 /\ Len(Deltas) \in Nat /\ llm.at <= 3 * Len(Words) /\ llm.at \in Nat
      /\ Reading(Words, llm, server.answer) /\ llm.pc \in {"open", "eof"}
  BY <1>1, WordsKnown, DeltasKnown DEF ServerInv, Words, Reading, Streams
<1>14. llm \in Streams /\ server \in Handlers /\ server.pc = "synth"
  BY <1>1, <1>2
<1>3. Tail(llm.lines) \in Seq(Chunks)
  <2> DEFINE waiting == llm.lines
  <2>1. waiting \in Seq(Chunks) /\ waiting # <<>>
    BY <1>1, <1>14 DEF Streams
  <2> HIDE DEF waiting
  <2>2. Tail(waiting) \in Seq(Chunks)
    BY <2>1
  <2> QED
    BY <2>2 DEF waiting
<1>4. ASSUME NEW answer \in Begun, NEW L \in Streams, L.at = llm.at, llm' = L,
             \/ server' = [server EXCEPT !.answer = answer, !.pc = "synth"] /\ Reading(Words, L, answer)
             \/ server' = [server EXCEPT !.answer = answer, !.pc = "log"] /\ gone
      PROVE  ServerInv'
  <2>1. CASE server' = [server EXCEPT !.answer = answer, !.pc = "synth"] /\ Reading(Words, L, answer)
    <3>1. server' \in Handlers /\ server'.pc = "synth" /\ server'.answer = answer
      BY <1>2, <2>1 DEF Handlers
    <3> QED
      BY <1>1, <1>2, <1>4, <2>1, <3>1 DEF ServerInv
  <2>2. CASE server' = [server EXCEPT !.answer = answer, !.pc = "log"] /\ gone
    <3>1. server' \in Handlers /\ server'.pc = "log" /\ server'.answer = answer
      BY <1>2, <2>2 DEF Handlers
    <3> QED
      BY <1>1, <1>2, <1>4, <2>2, <3>1 DEF ServerInv
  <2> QED
    BY <1>4, <2>1, <2>2
<1>5. "break" \notin ToSet(Deltas)
  BY DeltasKnown DEF Reserved
<1> DEFINE kept == [llm EXCEPT !.lines = Tail(llm.lines)]
           ended == [llm EXCEPT !.pc = "eof", !.lines = <<>>]
<1>6. /\ kept \in Streams /\ kept.at = llm.at /\ kept.pc = llm.pc /\ kept.buf = llm.buf /\ kept.lines = Tail(llm.lines)
      /\ ended \in Streams /\ ended.at = llm.at /\ ended.pc = "eof" /\ ended.lines = <<>>
  <2> DEFINE rest == Tail(llm.lines)
  <2>1. rest \in Seq(Chunks) /\ <<>> \in Seq(Chunks)
    BY <1>3
  <2> HIDE DEF rest
  <2>2. kept = [llm EXCEPT !.lines = rest]
    BY DEF rest
  <2>3. kept \in Streams /\ kept.at = llm.at /\ kept.pc = llm.pc /\ kept.buf = llm.buf /\ kept.lines = rest
    <3> HIDE DEF kept
    <3> QED
      BY <1>14, <2>1, <2>2 DEF Streams
  <2>4. ended \in Streams /\ ended.at = llm.at /\ ended.pc = "eof" /\ ended.lines = <<>>
    BY <1>14, <2>1 DEF Streams
  <2> QED
    BY <2>3, <2>4 DEF rest
<1>7. \/ out \cap ToSet(Deltas) = {} /\ "break" \notin out /\ llm' = kept /\ server' = server
      \/ "break" \in out /\ llm' = ended /\ server' = server
      \/ \E d \in out \cap ToSet(Deltas) :
           llm' = kept /\ server' = [server EXCEPT !.answer = Append(server.answer, d), !.pc = IF gone THEN "log" ELSE server.pc]
  BY <1>1
<1> HIDE DEF kept, ended
<1>8. server = [server EXCEPT !.answer = server.answer, !.pc = "synth"] /\ server.answer \in Begun
  BY <1>14 DEF Handlers
(* The three outcomes for a line of the provider's words. *)
<1>9. ASSUME NEW i \in 1 .. Len(Words), i <= Len(Deltas), out = {Deltas[i]}, server.answer = Upto(i - 1),
             Reading(Words, kept, Upto(i))
      PROVE  ServerInv'
  <2>1. i \in 1 .. Len(Deltas) /\ Deltas[i] \in ToSet(Deltas)
    BY <1>2, <1>9, DeltasKnown
  <2>2. Append(Upto(i - 1), Deltas[i]) = Upto(i) /\ Upto(i) \in Begun
    BY <2>1, BegunKnown
  <2>3. llm' = kept /\ server' = [server EXCEPT !.answer = Upto(i), !.pc = IF gone THEN "log" ELSE "synth"]
    BY <1>1, <1>5, <1>7, <1>9, <2>1, <2>2
  <2>4. CASE gone
    BY <1>4, <1>6, <2>2, <2>3, <2>4
  <2>5. CASE ~gone
    BY <1>4, <1>6, <1>9, <2>2, <2>3, <2>5
  <2> QED
    BY <2>4, <2>5
<1>10. ASSUME out = {"break"}, Reading(Words, ended, server.answer) PROVE ServerInv'
  <2>1. llm' = ended /\ server' = server
    BY <1>5, <1>7, <1>10
  <2> QED
    BY <1>4, <1>6, <1>8, <1>10, <2>1
<1>11. ASSUME out = {}, Reading(Words, kept, server.answer) PROVE ServerInv'
  <2>1. llm' = kept /\ server' = server
    BY <1>7, <1>11
  <2> QED
    BY <1>4, <1>6, <1>8, <1>11, <2>1
<1>12. CASE llm.pc = "open"
  <2>1. OpenAt(Words, llm, server.answer)
    BY <1>2, <1>12 DEF Reading
  <2>2. PICK i \in 1 .. Len(Words) : Waits(Words, llm, server.answer, i)
    BY <1>1, <1>2, <2>1, LineOfOpen
  <2>3. Head(llm.lines) = Halves(Words[i]) /\ server.answer = Upto(i - 1) /\ llm.at >= 3 * i /\ i - 1 <= Len(Deltas)
    BY <2>2 DEF Waits
  <2>4. CASE i <= Len(Deltas)
    <3>1. out = {Deltas[i]}
      BY <1>2, <2>3, <2>4, LineYields DEF out
    <3>2. OpenAt(Words, kept, Upto(i))
      BY <1>6, <2>2, <2>4 DEF Waits
    <3>3. Reading(Words, kept, Upto(i))
      BY <1>6, <1>12, <3>2 DEF Reading
    <3> QED
      BY <1>9, <2>3, <2>4, <3>1, <3>3
  <2>5. CASE i > Len(Deltas)
    <3>1. out = {"break"}
      BY <1>2, <2>3, <2>5, LineYields DEF out
    <3>2. i = Len(Deltas) + 1 /\ i - 1 = Len(Deltas)
      BY <1>2, <2>5
    <3>3. SaidBy(ended) = Upto(Len(Deltas))
      <4>1. PICK k \in Nat, c \in 0 .. 2 : ended.at + 1 = 3 * k + c
        <5> DEFINE n == ended.at + 1
        <5>1. n \in Nat
          BY <1>2, <1>6
        <5> HIDE DEF n
        <5>2. \E k \in Nat, c \in 0 .. 2 : n = 3 * k + c
          BY <5>1, SomeThirds
        <5> QED
          BY <5>2 DEF n
      <4>2. (ended.at + 1) \div 3 = k
        BY <4>1, Thirds
      <4>3. k >= Len(Deltas)
        BY <1>2, <1>6, <2>3, <3>2, <4>1
      <4> QED
        BY <1>6, <4>2, <4>3, AllSaid DEF SaidBy
    <3>4. server.answer = SaidBy(ended)
      BY <2>3, <3>2, <3>3
    <3>5. Reading(Words, ended, server.answer)
      BY <1>6, <3>4 DEF Reading, EndedAt
    <3> QED
      BY <1>10, <3>1, <3>5
  <2> QED
    BY <1>2, <2>4, <2>5
<1>15. llm.pc = "eof" =>
        Complains(llm, server.answer) \/ \E i \in 1 .. Len(Words) : Rests(Words, llm, server.answer, i)
  BY <1>1, <1>2, LineOfEnded DEF Reading
<1>16. CASE llm.pc = "eof" /\ Complains(llm, server.answer)
  <2>1. Head(llm.lines) = Halves("error") /\ kept.lines = <<>> /\ SaidBy(kept) = SaidBy(llm)
    BY <1>6, <1>16 DEF Complains, SaidBy
  <2>2. out = {}
    BY <1>2, <2>1, ErrorYields DEF out
  <2>3. Reading(Words, kept, server.answer)
    BY <1>6, <1>16, <2>1 DEF Reading, EndedAt, Complains
  <2> QED
    BY <1>11, <2>2, <2>3
<1>13. CASE llm.pc = "eof" /\ \E i \in 1 .. Len(Words) : Rests(Words, llm, server.answer, i)
  <2>2. PICK i \in 1 .. Len(Words) : Rests(Words, llm, server.answer, i)
    BY <1>13
  <2>3. kept.lines = <<>> /\ SaidBy(kept) = SaidBy(llm) /\ SaidBy(ended) = SaidBy(llm)
    BY <1>6, <1>13, <2>2 DEF Rests, SaidBy
  <2>4. ASSUME NEW L, L.pc = "eof", L.lines = <<>>, NEW answer, answer = SaidBy(L)
        PROVE  Reading(Words, L, answer)
    BY <2>4 DEF Reading, EndedAt
  <2>5. CASE Head(llm.lines) = <<<<Words[i], 1>>>> /\ SaidBy(llm) = Upto(i - 1)
    <3>1. out = {}
      BY <1>2, <2>5, LineYields DEF out
    <3>2. Reading(Words, kept, server.answer)
      BY <1>6, <1>13, <2>2, <2>3, <2>4, <2>5 DEF Rests
    <3> QED
      BY <1>11, <3>1, <3>2
  <2>6. CASE Head(llm.lines) = Halves(Words[i]) /\ SaidBy(llm) = Upto(IF i <= Len(Deltas) THEN i ELSE i - 1)
    <3>1. CASE i <= Len(Deltas)
      <4>1. out = {Deltas[i]}
        BY <1>2, <2>6, <3>1, LineYields DEF out
      <4>2. Reading(Words, kept, Upto(i))
        BY <1>6, <1>13, <2>3, <2>4, <2>6, <3>1
      <4> QED
        BY <1>9, <2>2, <3>1, <4>1, <4>2 DEF Rests
    <3>2. CASE i > Len(Deltas)
      <4>1. out = {"break"}
        BY <1>2, <2>6, <3>2, LineYields DEF out
      <4>2. ~(i <= Len(Deltas)) /\ server.answer = Upto(i - 1)
        BY <1>2, <2>2, <3>2 DEF Rests
      <4>3. Reading(Words, ended, server.answer)
        BY <1>6, <2>3, <2>4, <2>6, <4>2
      <4> QED
        BY <1>10, <4>1, <4>3
    <3> QED
      BY <1>2, <3>1, <3>2
  <2> QED
    BY <2>2, <2>5, <2>6 DEF Rests
<1> QED
  BY <1>2, <1>12, <1>13, <1>15, <1>16

LEMMA SynthesizedKeeps == ASSUME ServerInv, Synthesized PROVE ServerInv'
<1>1. /\ server.pc = "synth" /\ llm.lines = <<>> /\ llm.pc \in {"eof", "failed"}
      /\ server' = [server EXCEPT !.pc = "log", !.degraded = llm.pc = "failed"]
      /\ UNCHANGED <<vendor, client, llm, pipe, reader, gone>>
  BY DEF Synthesized
<1>2. server \in Handlers /\ Reading(Words, llm, server.answer) /\ Words' = Words
  BY <1>1 DEF ServerInv, Words
<1>3. server' \in Handlers /\ server'.pc = "log" /\ server'.answer = server.answer /\ (server'.degraded <=> llm.pc = "failed")
  BY <1>1, <1>2 DEF Handlers
<1>4. llm.pc = "eof" => server.answer = SaidBy(llm)
  <2>1. ASSUME NEW words, NEW k, NEW c \in {1, 2} PROVE <<PartOf(words, k, c)>> # <<>>
    OBVIOUS
  <2> QED
    BY <1>1, <1>2, <2>1 DEF Reading, EndedAt, Complains
<1> QED
  BY <1>1, <1>2, <1>3, <1>4 DEF ServerInv

LEMMA ClosesKeeps ==
    ASSUME ServerInv, server' \in Handlers, server'.pc = "closed", UNCHANGED <<vendor, client, llm, gone>>
    PROVE  ServerInv'
<1>1. Words' = Words
  BY DEF Words
<1> QED
  BY <1>1 DEF ServerInv

LEMMA FinishesKeeps == ASSUME ServerInv, Finishes \/ Executes PROVE ServerInv'
<1>1. server \in Handlers
  BY DEF ServerInv
<1>2. CASE Finishes
  <2>1. server' \in Handlers /\ server'.pc = "closed" /\ UNCHANGED <<vendor, client, llm, gone>>
    BY <1>1, <1>2 DEF Finishes, Handlers
  <2> QED
    BY <2>1, ClosesKeeps
<1>3. CASE Executes
  <2>1. UNCHANGED <<vendor, client, llm, gone>>
    BY <1>3 DEF Executes
  <2>2. \/ \E ok \in BOOLEAN : server' = [pc |-> "closed", answer |-> IF ok THEN Deltas ELSE <<>>, degraded |-> ~ok]
        \/ server' = [server EXCEPT !.pc = "closed"]
    <3>1. ASSUME NEW reply \in Replies PROVE CallChatLLM(vendor, TRUE, FALSE, reply) \in BOOLEAN
      <4>1. vendor \in {"anthropic", "gemini", "openai", "openrouter", "grok"}
        BY AnswerStreamAssumption DEF AnswerStreamAssumption, Compatible, ServerInv
      <4> QED
        BY <4>1 DEF CallChatLLM, CallGemini, CallAnthropic, CallOpenAI, CallOpenRouter, CallGrok
    <3> QED
      BY <1>3, <3>1 DEF Executes
  <2>3. server' \in Handlers /\ server'.pc = "closed"
    <3>1. CASE server' = [server EXCEPT !.pc = "closed"]
      BY <1>1, <3>1 DEF Handlers
    <3>2. CASE \E ok \in BOOLEAN : server' = [pc |-> "closed", answer |-> IF ok THEN Deltas ELSE <<>>, degraded |-> ~ok]
      BY <3>2, BegunKnown DEF Handlers
    <3> QED
      BY <2>2, <3>1, <3>2
  <2> QED
    BY <2>1, <2>3, ClosesKeeps
<1> QED
  BY <1>2, <1>3

(* What the client does leaves the server's half alone. *)
LEMMA ClientKeepsServer ==
    ASSUME ServerInv, UNCHANGED <<vendor, client, llm, server>>, gone' \in BOOLEAN, gone => gone'
    PROVE  ServerInv'
<1>1. Words' = Words
  BY DEF Words
<1> QED
  BY <1>1 DEF ServerInv

LEMMA ServerNext == ASSUME ServerInv, [AnswerNext]_answerVars PROVE ServerInv'
<1>1. gone \in BOOLEAN
  BY DEF ServerInv
<1>2. CASE UNCHANGED answerVars
  BY <1>1, <1>2, ClientKeepsServer DEF answerVars
<1>3. CASE ReadsChunk \/ StreamEnds \/ Cut \/ Leaves \/ Returns
  <2>1. UNCHANGED <<vendor, client, llm, server>> /\ gone' \in BOOLEAN /\ (gone => gone')
    BY <1>1, <1>3 DEF ReadsChunk, StreamEnds, Cut, Leaves, Returns
  <2> QED
    BY <2>1, ClientKeepsServer
<1> QED
  BY <1>2, <1>3, SpeaksKeeps, EndsKeeps, ReportsErrorKeeps, BreaksKeeps, RetrievesKeeps, SynthesizeKeeps, SynthesizedKeeps, FinishesKeeps
     DEF AnswerNext

LEMMA ServerStarts == AnswerInit => ServerInv
<1> SUFFICES ASSUME AnswerInit PROVE ServerInv
  OBVIOUS
<1>1. /\ vendor \in Vendors /\ client \in Clients /\ llm = NotAsked /\ gone = FALSE
      /\ server = [pc |-> "asked", answer |-> <<>>, degraded |-> FALSE]
  BY DEF AnswerInit, NotAsked
<1>2. llm \in Streams /\ llm.at = 0 /\ server \in Handlers
  BY <1>1, BegunKnown DEF NotAsked, Streams, Handlers, Chunks
<1>3. 0 <= 3 * Len(Words)
  BY WordsKnown
<1> QED
  BY <1>1, <1>2, <1>3 DEF ServerInv

---------------------------------------------------------------------------
(* The client's half: frames, and what a reader makes of their events. *)
LEMMA EventsKnown ==
    /\ Events \subseteq Vocabulary /\ ToSet(Deltas) \subseteq Events
    /\ {"meta", "done", "done, degraded", "error"} \subseteq Events
    /\ "meta" \notin ToSet(Deltas) /\ "done" \notin ToSet(Deltas) /\ "done, degraded" \notin ToSet(Deltas)
    /\ "error" \notin ToSet(Deltas) /\ "no data" \notin Events
  BY DeltasKnown DEF Events, Vocabulary, Reserved

LEMMA EventOfFrame ==
    ASSUME NEW e \in Events
    PROVE  EventOf(Halves(e)) = e
<1>1. \A v \in Events : Halves(e) = Halves(v) => v = e
  BY EventsKnown, HalvesApart
<1> DEFINE frame == Halves(e)
<1>2. \E v \in Events : frame = Halves(v)
  OBVIOUS
<1>3. EventOf(frame) = CHOOSE v \in Events : frame = Halves(v)
  BY <1>2 DEF EventOf
<1>4. (CHOOSE v \in Events : frame = Halves(v)) \in Events /\ frame = Halves(CHOOSE v \in Events : frame = Halves(v))
  <2> HIDE DEF frame
  <2> QED
    BY <1>2
<1> QED
  BY <1>1, <1>3, <1>4

LEMMA NoEvent ==
    ASSUME NEW x
    PROVE  EventOf(<<x>>) = "no data"
<1>1. ASSUME NEW v PROVE <<x>> # Halves(v)
  <2>1. Len(<<x>>) = 1 /\ Len(Halves(v)) = 2
    BY DEF Halves
  <2> QED
    BY <2>1
<1> QED
  BY <1>1 DEF EventOf

LEMMA Quarters ==
    ASSUME NEW k \in Nat, NEW c \in 0 .. 3
    PROVE  (4 * k + c) \div 4 = k /\ (4 * k + c) % 4 = c
  OBVIOUS

LEMMA SomeQuarters ==
    ASSUME NEW n \in Nat
    PROVE  \E k \in Nat, c \in 0 .. 3 : n = 4 * k + c
<1> DEFINE S == {m \in Nat : \E k \in Nat, c \in 0 .. 3 : m = 4 * k + c}
<1>1. 0 \in S
  <2>1. 0 = 4 * 0 + 0
    OBVIOUS
  <2> QED
    BY <2>1
<1>2. ASSUME NEW m \in Nat, m \in S PROVE m + 1 \in S
  <2> SUFFICES \E k \in Nat, c \in 0 .. 3 : m + 1 = 4 * k + c
    OBVIOUS
  <2>1. PICK k \in Nat, c \in 0 .. 3 : m = 4 * k + c
    BY <1>2
  <2>2. CASE c = 3
    <3>1. m + 1 = 4 * (k + 1) + 0 /\ k + 1 \in Nat
      BY <2>1, <2>2
    <3> WITNESS k + 1 \in Nat, 0 \in 0 .. 3
    <3> QED
      BY <3>1
  <2>3. CASE c # 3
    <3>1. m + 1 = 4 * k + (c + 1) /\ c + 1 \in 0 .. 3
      BY <2>1, <2>3
    <3> c + 1 \in 0 .. 3
      BY <3>1
    <3> WITNESS k \in Nat, c + 1 \in 0 .. 3
    <3> QED
      BY <3>1
  <2> QED
    BY <2>2, <2>3
<1> HIDE DEF S
<1>3. n \in S
  BY <1>1, <1>2, SetInduction
<1> QED
  BY <1>3 DEF S

(* What the events that were written look like on their way. *)
Framed(events) == [j \in 1 .. 4 * Len(events) |-> IF j % 4 \in {1, 2} THEN <<events[(j + 3) \div 4], j % 4>> ELSE NL]

LEMMA FrameTokens ==
    ASSUME NEW events \in Seq(Events), NEW k \in Nat, k < Len(events)
    PROVE  /\ Framed(events)[4 * k + 1] = <<events[k + 1], 1>> /\ Framed(events)[4 * k + 2] = <<events[k + 1], 2>>
           /\ Framed(events)[4 * k + 3] = NL /\ Framed(events)[4 * k + 4] = NL
           /\ events[k + 1] \in Events /\ events[k + 1] \in Vocabulary
<1> DEFINE token(j) == IF j % 4 \in {1, 2} THEN <<events[(j + 3) \div 4], j % 4>> ELSE NL
<1>1. Len(events) \in Nat /\ events[k + 1] \in Events
  OBVIOUS
<1>2. ASSUME NEW j \in 1 .. 4 * Len(events) PROVE Framed(events)[j] = token(j)
  BY DEF Framed
<1>3. /\ 4 * k + 1 \in 1 .. 4 * Len(events) /\ 4 * k + 2 \in 1 .. 4 * Len(events)
      /\ 4 * k + 3 \in 1 .. 4 * Len(events) /\ 4 * k + 4 \in 1 .. 4 * Len(events)
  BY <1>1
<1>4. (4 * k + 1) % 4 = 1 /\ (4 * k + 2) % 4 = 2 /\ (4 * k + 3) % 4 = 3 /\ (4 * k + 4) % 4 = 0
  <2>1. 4 * k + 4 = 4 * (k + 1) + 0
    OBVIOUS
  <2> QED
    BY <2>1, Quarters
<1>5. ((4 * k + 1) + 3) \div 4 = k + 1 /\ ((4 * k + 2) + 3) \div 4 = k + 1
  <2>1. (4 * k + 1) + 3 = 4 * (k + 1) + 0 /\ (4 * k + 2) + 3 = 4 * (k + 1) + 1
    OBVIOUS
  <2> QED
    BY <2>1, Quarters
<1>6. /\ token(4 * k + 1) = <<events[k + 1], 1>> /\ token(4 * k + 2) = <<events[k + 1], 2>>
      /\ token(4 * k + 3) = NL /\ token(4 * k + 4) = NL
  BY <1>4, <1>5
<1> HIDE DEF token
<1> QED
  BY <1>1, <1>2, <1>3, <1>6, EventsKnown

(* The beginning of a frame that is not complete yet. *)
PartOfFrame(events, k, c) ==
    IF c = 0 THEN <<>> ELSE IF c = 1 THEN <<<<events[k + 1], 1>>>>
    ELSE IF c = 2 THEN Halves(events[k + 1]) ELSE Append(Halves(events[k + 1]), NL)

LEMMA FramesUpTo ==
    ASSUME NEW buf \in Chunks, NEW chunk \in Chunks
    PROVE  \E f : /\ f[0] = [buf |-> buf, frames |-> <<>>]
                  /\ \A i \in 1 .. Len(chunk) : f[i] = ReadFrame(f[i - 1], chunk[i])
                  /\ Frames(buf, chunk) = f[Len(chunk)]
<1> DEFINE A == [buf : Chunks, frames : Seq(Chunks)]
           n == Len(chunk)
           base == [buf |-> buf, frames |-> <<>>]
           step == [i \in 1 .. n |-> [a \in A |-> ReadFrame(a, chunk[i])]]
           rule(g) == [i \in 0 .. n |-> IF i = 0 THEN base ELSE ReadFrame(g[i - 1], chunk[i])]
           Recurs(g) == g = rule(g)
           c == CHOOSE g : Recurs(g)
<1>1. n \in Nat /\ \A i \in 1 .. n : chunk[i] \in Tokens
  BY DEF Chunks
<1>2. base \in A
  BY DEF Chunks
<1>3. ASSUME NEW a \in A, NEW t \in Tokens PROVE ReadFrame(a, t) \in A
  <2> DEFINE b == a.buf
             fs == a.frames
  <2>1. a = [buf |-> b, frames |-> fs] /\ b \in Seq(Tokens) /\ fs \in Seq(Chunks)
    BY DEF Chunks
  <2> HIDE DEF b, fs
  <2>2. Append(b, t) \in Chunks /\ <<>> \in Chunks
    BY <2>1 DEF Chunks
  <2>3. CASE t = NL /\ b # <<>> /\ Last(b) = NL
    <3>1. Front(b) \in Chunks
      BY <2>1, <2>3 DEF Front, Chunks
    <3>2. ReadFrame(a, t) = [buf |-> <<>>, frames |-> Append(fs, Front(b))]
      BY <2>1, <2>3 DEF ReadFrame
    <3>3. Append(fs, Front(b)) \in Seq(Chunks)
      BY <2>1, <3>1
    <3> QED
      BY <2>2, <3>2, <3>3
  <2>4. CASE ~(t = NL /\ b # <<>> /\ Last(b) = NL)
    <3>1. ReadFrame(a, t) = [buf |-> Append(b, t), frames |-> fs]
      BY <2>1, <2>4 DEF ReadFrame
    <3> DEFINE more == Append(b, t)
    <3>2. more \in Chunks /\ fs \in Seq(Chunks) /\ ReadFrame(a, t) = [buf |-> more, frames |-> fs]
      BY <2>1, <2>2, <3>1
    <3> HIDE DEF more
    <3> QED
      BY <3>2
  <2> QED
    BY <2>3, <2>4
<1>4. step \in [1 .. n -> [A -> A]]
  BY <1>1, <1>3
<1> HIDE DEF A, base, n
<1>5. PICK f \in [0 .. n -> A] : f[0] = base /\ \A i \in 1 .. n : f[i] = step[i][f[i - 1]]
  <2>1. n \in Nat /\ base \in A /\ step \in StepsOn(A, n)
    BY <1>1, <1>2, <1>4 DEF StepsOn
  <2> HIDE DEF step
  <2>2. HasFold(A, base, step, n)
    BY <2>1, FoldExists
  <2> QED
    BY <2>2 DEF HasFold, Follows
<1>6. Recurs(f)
  <2>1. ASSUME NEW i \in 0 .. n PROVE f[i] = rule(f)[i]
    <3>1. CASE i = 0
      BY <1>5, <3>1
    <3>2. CASE i \in 1 .. n
      <4>1. i # 0 /\ i - 1 \in 0 .. n
        BY <1>1, <3>2
      <4>2. f[i - 1] \in A
        BY <4>1
      <4>3. step[i][f[i - 1]] = ReadFrame(f[i - 1], chunk[i])
        BY <3>2, <4>2
      <4> QED
        BY <1>5, <3>2, <4>1, <4>3
    <3> QED
      BY <1>1, <3>1, <3>2
  <2>2. f = [i \in 0 .. n |-> f[i]]
    BY <1>5
  <2> HIDE DEF rule
  <2>3. f = [i \in 0 .. n |-> rule(f)[i]]
    BY <2>1, <2>2
  <2>4. rule(f) = [i \in 0 .. n |-> rule(f)[i]]
    BY DEF rule
  <2> QED
    BY <2>3, <2>4
<1>7. Recurs(c)
  <2> HIDE DEF Recurs
  <2> QED
    BY <1>6
<1>8. Frames(buf, chunk) = c[n]
  BY DEF Frames, Folded, base, n
<1> HIDE DEF c
<1>9. c[0] = base /\ \A i \in 1 .. n : c[i] = ReadFrame(c[i - 1], chunk[i])
  <2>1. \A i \in 0 .. n : c[i] = rule(c)[i]
    BY <1>7
  <2>2. 0 \in 0 .. n /\ \A i \in 1 .. n : i \in 0 .. n /\ i # 0
    BY <1>1
  <2> QED
    BY <2>1, <2>2
<1> QED
  BY <1>8, <1>9 DEF base, n

(* The chunk is what follows the first tokens of the events. *)
IsHeard(chunk, events, at) == \A i \in 1 .. Len(chunk) : chunk[i] = Framed(events)[at + i]

(* What reading up to a place yields. *)
HeardUpTo(events, k, at, read) ==
    \E l \in Nat, d \in 0 .. 3 :
      at = 4 * l + d /\ k <= l /\ read.buf = PartOfFrame(events, l, d) /\ read.frames = LinesFrom(events, k, l)

LEMMA PartOfFrameType ==
    ASSUME NEW events \in Seq(Events), NEW k \in Nat, NEW c \in 0 .. 3, c = 0 \/ k < Len(events)
    PROVE  PartOfFrame(events, k, c) \in Chunks
<1> DEFINE e == events[k + 1]
<1>1. c # 0 => e \in Vocabulary
  BY FrameTokens
<1> HIDE DEF e
<1>2. CASE c = 0
  BY <1>2 DEF PartOfFrame, Chunks
<1>3. CASE c # 0
  <2>1. <<e, 1>> \in Tokens /\ Halves(e) \in Chunks /\ NL \in Tokens
    BY <1>1, <1>3, TokensOfWords
  <2>2. <<<<e, 1>>>> \in Chunks
    <3> DEFINE t == <<e, 1>>
    <3>1. t \in Tokens
      BY <2>1
    <3> HIDE DEF t
    <3>2. <<t>> \in Seq(Tokens)
      BY <3>1
    <3> QED
      BY <3>2 DEF t, Chunks
  <2>3. Append(Halves(e), NL) \in Chunks
    <3> DEFINE h == Halves(e)
    <3>1. h \in Seq(Tokens)
      BY <2>1 DEF Chunks
    <3> HIDE DEF h
    <3>2. Append(h, NL) \in Seq(Tokens)
      BY <2>1, <3>1
    <3> QED
      BY <3>2 DEF h, Chunks
  <2>4. PartOfFrame(events, k, c) = IF c = 1 THEN <<<<e, 1>>>> ELSE IF c = 2 THEN Halves(e) ELSE Append(Halves(e), NL)
    BY <1>3 DEF PartOfFrame, e
  <2> QED
    BY <2>1, <2>2, <2>3, <2>4, Zenon
<1> QED
  BY <1>2, <1>3

LEMMA FrontOfAppended ==
    ASSUME NEW T, NEW h \in Seq(T), NEW x \in T, NEW b, b = Append(h, x)
    PROVE  b # <<>> /\ Last(b) = x /\ Front(b) = h
<1>1. b \in Seq(T) /\ b # <<>> /\ Len(b) = Len(h) + 1 /\ (\A i \in 1 .. Len(h) : b[i] = h[i]) /\ b[Len(h) + 1] = x
  BY AppendProperties
<1>2. Len(h) \in Nat
  OBVIOUS
<1> DEFINE n == Len(h)
           f == SubSeq(b, 1, n)
<1>3. n \in Nat /\ Len(b) - 1 = n /\ Len(b) = n + 1 /\ \A i \in 1 .. n : b[i] = h[i]
  BY <1>1, <1>2
<1>4. Front(b) = f /\ Last(b) = x
  BY <1>1, <1>3 DEF Front, Last
<1>5. f = [i \in 1 .. n |-> b[i]]
  BY <1>1, <1>3
<1>6. h = [i \in 1 .. n |-> h[i]]
  OBVIOUS
<1>9. f = h
  <2> HIDE DEF f, n
  <2> QED
    BY <1>3, <1>5, <1>6
<1> QED
  BY <1>1, <1>4, <1>9

(* A frame is complete with its second newline. *)
TokenAt(events, k, c) == Framed(events)[4 * k + c + 1]
Reached(events, k, c, frames) == [buf |-> PartOfFrame(events, k, c), frames |-> frames]
AfterToken(events, k, c, frames) ==
    IF c = 3 THEN [buf |-> <<>>, frames |-> Append(frames, Halves(events[k + 1]))]
    ELSE [buf |-> PartOfFrame(events, k, c + 1), frames |-> frames]

LEMMA OneToken ==
    ASSUME NEW events \in Seq(Events), NEW k \in Nat, NEW c \in 0 .. 3, k < Len(events), NEW acc,
           NEW frames, acc = Reached(events, k, c, frames),
           NEW t, t = TokenAt(events, k, c)
    PROVE  ReadFrame(acc, t) = AfterToken(events, k, c, frames)
<1> DEFINE e == events[k + 1]
<1>1. /\ e \in Vocabulary
      /\ c = 0 => t = <<e, 1>>
      /\ c = 1 => t = <<e, 2>>
      /\ c = 2 => t = NL
      /\ c = 3 => t = NL
  <2>1. /\ Framed(events)[4 * k + 1] = <<e, 1>> /\ Framed(events)[4 * k + 2] = <<e, 2>>
        /\ Framed(events)[4 * k + 3] = NL /\ Framed(events)[4 * k + 4] = NL /\ e \in Vocabulary
    BY FrameTokens
  <2>2. /\ c = 0 => 4 * k + c + 1 = 4 * k + 1
        /\ c = 1 => 4 * k + c + 1 = 4 * k + 2
        /\ c = 2 => 4 * k + c + 1 = 4 * k + 3
        /\ c = 3 => 4 * k + c + 1 = 4 * k + 4
    OBVIOUS
  <2> QED
    BY <2>1, <2>2 DEF TokenAt
<1>2. /\ PartOfFrame(events, k, 0) = <<>> /\ PartOfFrame(events, k, 1) = <<<<e, 1>>>>
      /\ PartOfFrame(events, k, 2) = Halves(e) /\ PartOfFrame(events, k, 3) = Append(Halves(e), NL)
  BY DEF PartOfFrame
<1> HIDE DEF e
<1>3. <<e, 1>> # NL /\ <<e, 2>> # NL /\ <<e, 1>> \in Tokens /\ Halves(e) \in Chunks /\ Len(Halves(e)) = 2 /\ Halves(e)[2] = <<e, 2>>
  BY <1>1, TokensOfWords
<1>4. acc = [buf |-> PartOfFrame(events, k, c), frames |-> frames] /\ acc.buf = PartOfFrame(events, k, c) /\ acc.frames = frames
  BY DEF Reached
<1>5. ASSUME t # NL PROVE ReadFrame(acc, t) = [buf |-> Append(acc.buf, t), frames |-> frames]
  BY <1>4, <1>5 DEF ReadFrame
<1>6. CASE c = 0
  <2>1. Append(<<>>, <<e, 1>>) = <<<<e, 1>>>>
    OBVIOUS
  <2>2. acc.buf = <<>> /\ t = <<e, 1>> /\ t # NL
    BY <1>1, <1>2, <1>3, <1>4, <1>6
  <2>3. ReadFrame(acc, t) = [buf |-> PartOfFrame(events, k, 1), frames |-> frames]
    BY <1>2, <1>5, <2>1, <2>2
  <2>4. c + 1 = 1 /\ c # 3
    BY <1>6
  <2> QED
    BY <2>3, <2>4 DEF AfterToken
<1>7. CASE c = 1
  <2>1. Append(<<<<e, 1>>>>, <<e, 2>>) = Halves(e)
    BY Appended DEF Halves
  <2>2. acc.buf = <<<<e, 1>>>> /\ t = <<e, 2>> /\ t # NL
    BY <1>1, <1>2, <1>3, <1>4, <1>7
  <2>3. ReadFrame(acc, t) = [buf |-> PartOfFrame(events, k, 2), frames |-> frames]
    BY <1>2, <1>5, <2>1, <2>2
  <2>4. c + 1 = 2 /\ c # 3
    BY <1>7
  <2> QED
    BY <2>3, <2>4 DEF AfterToken
<1>8. CASE c = 2
  <2>1. Last(Halves(e)) # NL
    BY <1>3 DEF Last
  <2>2. ReadFrame(acc, t) = [buf |-> Append(Halves(e), NL), frames |-> frames]
    BY <1>1, <1>2, <1>4, <1>8, <2>1 DEF ReadFrame
  <2>3. ReadFrame(acc, t) = [buf |-> PartOfFrame(events, k, 3), frames |-> frames]
    BY <1>2, <2>2
  <2>4. c + 1 = 3 /\ c # 3
    BY <1>8
  <2> QED
    BY <2>3, <2>4 DEF AfterToken
<1>9. CASE c = 3
  <2> DEFINE h == Halves(e)
             b == Append(h, NL)
  <2>1. h \in Seq(Tokens) /\ Len(h) = 2
    BY <1>3 DEF Chunks
  <2> HIDE DEF h
  <2>2. NL \in Tokens
    BY DEF Tokens
  <2>3. b # <<>> /\ Last(b) = NL /\ Front(b) = h
    BY <2>1, <2>2, FrontOfAppended
  <2>6. acc.buf = b
    BY <1>2, <1>4, <1>9 DEF b, h
  <2>7. ReadFrame(acc, t) = [buf |-> <<>>, frames |-> Append(frames, h)]
    BY <1>1, <1>4, <1>9, <2>3, <2>6 DEF ReadFrame
  <2> QED
    BY <1>9, <2>7 DEF AfterToken, h, e
<1> QED
  BY <1>6, <1>7, <1>8, <1>9

LEMMA ChunkOfFrames ==
    ASSUME NEW events \in Seq(Events), NEW k \in Nat, NEW c \in 0 .. 3, NEW n \in Nat,
           4 * k + c + n <= 4 * Len(events),
           NEW buf, buf = PartOfFrame(events, k, c),
           NEW chunk \in Chunks, Len(chunk) = n, IsHeard(chunk, events, 4 * k + c)
    PROVE  HeardUpTo(events, k, 4 * k + c + n, Frames(buf, chunk))
<1>1. Len(events) \in Nat /\ (c # 0 => k < Len(events))
  OBVIOUS
<1>2. buf \in Chunks
  BY <1>1, PartOfFrameType
<1>3. PICK f : /\ f[0] = [buf |-> buf, frames |-> <<>>]
               /\ \A i \in 1 .. n : f[i] = ReadFrame(f[i - 1], chunk[i])
               /\ Frames(buf, chunk) = f[n]
  BY <1>2, FramesUpTo
<1> DEFINE Read(m, l, d) ==
             /\ 4 * k + c + m = 4 * l + d /\ k <= l
             /\ f[m] = [buf |-> PartOfFrame(events, l, d), frames |-> LinesFrom(events, k, l)]
           S == {m \in Nat : m <= n => \E l \in Nat, d \in 0 .. 3 : Read(m, l, d)}
<1> HIDE DEF Read
<1>4. 0 \in S
  <2>1. LinesFrom(events, k, k) = <<>>
    BY DEF LinesFrom
  <2>2. Read(0, k, c)
    BY <1>3, <2>1 DEF Read
  <2> QED
    BY <2>2
<1>5. ASSUME NEW m \in Nat, m \in S PROVE m + 1 \in S
  <2> SUFFICES ASSUME m + 1 <= n PROVE \E l \in Nat, d \in 0 .. 3 : Read(m + 1, l, d)
    OBVIOUS
  <2>1. PICK l \in Nat, d \in 0 .. 3 : Read(m, l, d)
    BY <1>5
  <2> DEFINE frames == LinesFrom(events, k, l)
             t == Framed(events)[4 * l + d + 1]
  <2>2. 4 * k + c + m = 4 * l + d /\ k <= l /\ f[m] = [buf |-> PartOfFrame(events, l, d), frames |-> frames]
    BY <2>1 DEF Read
  <2>3. f[m + 1] = ReadFrame(f[m], t)
    <3>0. 4 * k + c + m = 4 * l + d
      BY <2>2
    <3>1. m + 1 \in 1 .. n /\ (m + 1) - 1 = m /\ 4 * k + c + (m + 1) = 4 * l + d + 1
      BY <3>0
    <3>2. f[m + 1] = ReadFrame(f[m], chunk[m + 1]) /\ chunk[m + 1] = Framed(events)[4 * k + c + (m + 1)]
      BY <1>3, <3>1 DEF IsHeard
    <3>3. chunk[m + 1] = t
      BY <3>1, <3>2
    <3> HIDE DEF t
    <3> QED
      BY <3>2, <3>3
  <2>4. l < Len(events)
    BY <1>1, <2>2
  <2> HIDE DEF frames, t
  <2>8. f[m + 1] = AfterToken(events, l, d, frames)
    <3> DEFINE acc == f[m]
    <3>1. acc = Reached(events, l, d, frames) /\ f[m + 1] = ReadFrame(acc, t)
      BY <2>2, <2>3 DEF Reached
    <3> HIDE DEF acc
    <3>2. t = TokenAt(events, l, d)
      BY DEF t, TokenAt
    <3>3. ReadFrame(acc, t) = AfterToken(events, l, d, frames)
      BY <2>4, <3>1, <3>2, OneToken
    <3> QED
      BY <3>1, <3>3
  <2>5. f[m + 1] = IF d = 3 THEN [buf |-> <<>>, frames |-> Append(frames, Halves(events[l + 1]))]
                   ELSE [buf |-> PartOfFrame(events, l, d + 1), frames |-> frames]
    BY <2>8 DEF AfterToken
  <2>6. CASE d # 3
    <3>1. d + 1 \in 0 .. 3 /\ 4 * k + c + (m + 1) = 4 * l + (d + 1)
      BY <2>2, <2>6
    <3>2. Read(m + 1, l, d + 1)
      BY <2>2, <2>5, <2>6, <3>1 DEF Read, frames
    <3> QED
      BY <3>1, <3>2
  <2>7. CASE d = 3
    <3>1. Append(frames, Halves(events[l + 1])) = LinesFrom(events, k, l + 1)
      <4>1. l - k \in Nat /\ (l + 1) - k = (l - k) + 1 /\ k + ((l - k) + 1) = l + 1
        BY <2>2
      <4> QED
        BY <4>1 DEF LinesFrom, frames
    <3>2. PartOfFrame(events, l + 1, 0) = <<>>
      BY DEF PartOfFrame
    <3>3. 4 * k + c + (m + 1) = 4 * (l + 1) + 0 /\ k <= l + 1
      BY <2>2, <2>7
    <3>4. Read(m + 1, l + 1, 0)
      BY <2>5, <2>7, <3>1, <3>2, <3>3 DEF Read
    <3> QED
      BY <3>4
  <2> QED
    BY <2>6, <2>7
<1> HIDE DEF S
<1>6. n \in S
  BY <1>4, <1>5, SetInduction
<1>7. PICK l \in Nat, d \in 0 .. 3 : Read(n, l, d)
  BY <1>6 DEF S
<1>8. /\ 4 * k + c + n = 4 * l + d /\ k <= l
      /\ Frames(buf, chunk) = [buf |-> PartOfFrame(events, l, d), frames |-> LinesFrom(events, k, l)]
  BY <1>3, <1>7 DEF Read
<1>9. /\ Frames(buf, chunk).buf = PartOfFrame(events, l, d)
      /\ Frames(buf, chunk).frames = LinesFrom(events, k, l)
  BY <1>8
<1> QED
  BY <1>8, <1>9 DEF HeardUpTo

---------------------------------------------------------------------------
(* What is on its way to the client. *)
IsLeft(p, events, at) ==
    p \in Chunks /\ Len(p) = 4 * Len(events) - at /\ \A i \in 1 .. Len(p) : p[i] = Framed(events)[at + i]

LEMMA FrameKnown ==
    ASSUME NEW e \in Vocabulary
    PROVE  /\ Frame(e) \in Chunks /\ Len(Frame(e)) = 4 /\ Frame(e)[1] = <<e, 1>> /\ Frame(e)[2] = <<e, 2>>
           /\ Frame(e)[3] = NL /\ Frame(e)[4] = NL
<1> DEFINE h == Halves(e)
           x == NL
           z == <<x, x>>
<1>1. h \in Seq(Tokens) /\ Len(h) = 2 /\ h[1] = <<e, 1>> /\ h[2] = <<e, 2>> /\ x \in Tokens
  BY TokensOfWords DEF Chunks
<1> HIDE DEF h, x
<1>2. z \in Seq(Tokens) /\ Len(z) = 2 /\ z[1] = x /\ z[2] = x
  BY <1>1
<1> HIDE DEF z
<1>3. /\ h \o z \in Seq(Tokens) /\ Len(h \o z) = Len(h) + Len(z)
      /\ \A i \in 1 .. Len(h) + Len(z) : (h \o z)[i] = IF i <= Len(h) THEN h[i] ELSE z[i - Len(h)]
  BY <1>1, <1>2, ConcatProperties
<1>4. (h \o z)[1] = h[1] /\ (h \o z)[2] = h[2] /\ (h \o z)[3] = z[1] /\ (h \o z)[4] = z[2] /\ Len(h \o z) = 4
  BY <1>1, <1>2, <1>3
<1>5. Frame(e) = h \o z
  BY DEF Frame, h, z, x
<1> QED
  BY <1>1, <1>2, <1>3, <1>4, <1>5 DEF x, Chunks

LEMMA FramedMore ==
    ASSUME NEW events \in Seq(Events), NEW e \in Events, NEW more, more = Append(events, e), NEW j \in 1 .. 4 * Len(events)
    PROVE  Framed(more)[j] = Framed(events)[j]
<1>1. more \in Seq(Events) /\ Len(more) = Len(events) + 1 /\ (\A i \in 1 .. Len(events) : more[i] = events[i]) /\ Len(events) \in Nat
  BY AppendProperties
<1>2. j - 1 \in Nat
  OBVIOUS
<1>3. PICK k \in Nat, c \in 0 .. 3 : j - 1 = 4 * k + c
  <2> DEFINE n == j - 1
  <2> HIDE DEF n
  <2>1. \E k \in Nat, c \in 0 .. 3 : n = 4 * k + c
    BY <1>2, SomeQuarters DEF n
  <2> QED
    BY <2>1 DEF n
<1>4. k < Len(events) /\ k < Len(more) /\ (j = 4 * k + 1 \/ j = 4 * k + 2 \/ j = 4 * k + 3 \/ j = 4 * k + 4) /\ k + 1 \in 1 .. Len(events)
  BY <1>1, <1>3
<1>5. /\ Framed(events)[4 * k + 1] = <<events[k + 1], 1>> /\ Framed(events)[4 * k + 2] = <<events[k + 1], 2>>
      /\ Framed(events)[4 * k + 3] = NL /\ Framed(events)[4 * k + 4] = NL
  BY <1>4, FrameTokens
<1>6. /\ Framed(more)[4 * k + 1] = <<more[k + 1], 1>> /\ Framed(more)[4 * k + 2] = <<more[k + 1], 2>>
      /\ Framed(more)[4 * k + 3] = NL /\ Framed(more)[4 * k + 4] = NL
  BY <1>1, <1>4, FrameTokens
<1>7. more[k + 1] = events[k + 1]
  BY <1>1, <1>4
<1> QED
  BY <1>4, <1>5, <1>6, <1>7

LEMMA WrittenMore ==
    ASSUME NEW events \in Seq(Events), NEW e \in Events, NEW at \in Nat, at <= 4 * Len(events),
           NEW p, IsLeft(p, events, at), NEW more, more = Append(events, e), NEW q, q = p \o Frame(e)
    PROVE  IsLeft(q, more, at)
<1>1. more \in Seq(Events) /\ Len(more) = Len(events) + 1 /\ more[Len(events) + 1] = e /\ Len(events) \in Nat
  BY AppendProperties
<1> DEFINE f == Frame(e)
           n == Len(events)
<1>2. f \in Seq(Tokens) /\ Len(f) = 4 /\ f[1] = <<e, 1>> /\ f[2] = <<e, 2>> /\ f[3] = NL /\ f[4] = NL
  BY EventsKnown, FrameKnown DEF Chunks
<1> HIDE DEF f
<1>3. p \in Seq(Tokens) /\ Len(p) = 4 * n - at /\ \A i \in 1 .. Len(p) : p[i] = Framed(events)[at + i]
  BY DEF IsLeft, Chunks
<1>4. /\ q \in Seq(Tokens) /\ Len(q) = Len(p) + Len(f)
      /\ \A i \in 1 .. Len(p) + Len(f) : q[i] = IF i <= Len(p) THEN p[i] ELSE f[i - Len(p)]
  <2>1. q = p \o f
    BY DEF f
  <2>2. p \in Seq(Tokens) /\ f \in Seq(Tokens)
    BY <1>2, <1>3
  <2>3. /\ p \o f \in Seq(Tokens) /\ Len(p \o f) = Len(p) + Len(f)
        /\ \A i \in 1 .. Len(p) + Len(f) : (p \o f)[i] = IF i <= Len(p) THEN p[i] ELSE f[i - Len(p)]
    BY <2>2, ConcatProperties
  <2> QED
    BY <2>1, <2>3
<1>10. /\ Len(p) \in Nat /\ Len(q) = Len(p) + 4 /\ Len(p) = 4 * n - at
       /\ \A i \in 1 .. Len(p) + 4 : q[i] = IF i <= Len(p) THEN p[i] ELSE f[i - Len(p)]
  <2>1. Len(p) \in Nat
    <3>1. p \in Seq(Tokens)
      BY <1>3
    <3> QED
      BY <3>1
  <2>2. Len(q) = Len(p) + 4 /\ Len(p) = 4 * n - at
    <3>1. Len(f) = 4 /\ Len(q) = Len(p) + Len(f) /\ Len(p) = 4 * n - at
      BY <1>2, <1>3, <1>4
    <3> HIDE DEF n
    <3> QED
      BY <3>1
  <2>3. \A i \in 1 .. Len(p) + 4 : q[i] = IF i <= Len(p) THEN p[i] ELSE f[i - Len(p)]
    <3>1. Len(f) = 4
      BY <1>2
    <3>2. \A i \in 1 .. Len(p) + Len(f) : q[i] = IF i <= Len(p) THEN p[i] ELSE f[i - Len(p)]
      BY <1>4
    <3> QED
      BY <3>1, <3>2
  <2> QED
    BY <2>1, <2>2, <2>3
<1>5. Len(q) = 4 * Len(more) - at
  BY <1>1, <1>2, <1>3, <1>4
<1>6. /\ Framed(more)[4 * n + 1] = <<e, 1>> /\ Framed(more)[4 * n + 2] = <<e, 2>>
      /\ Framed(more)[4 * n + 3] = NL /\ Framed(more)[4 * n + 4] = NL
  <2>1. n \in Nat /\ n < Len(more) /\ more[n + 1] = e
    BY <1>1
  <2> HIDE DEF n
  <2>2. /\ Framed(more)[4 * n + 1] = <<more[n + 1], 1>> /\ Framed(more)[4 * n + 2] = <<more[n + 1], 2>>
        /\ Framed(more)[4 * n + 3] = NL /\ Framed(more)[4 * n + 4] = NL
    BY <1>1, <2>1, FrameTokens
  <2> QED
    BY <2>1, <2>2
<1> HIDE DEF n
<1>7. n \in Nat /\ n = Len(events)
  BY <1>1 DEF n
<1>8. ASSUME NEW i \in 1 .. Len(q) PROVE q[i] = Framed(more)[at + i]
  <2>1. CASE i <= Len(p)
    <3>1. i \in 1 .. Len(p) /\ at + i \in 1 .. 4 * Len(events)
      BY <1>3, <1>7, <2>1
    <3>2. Framed(more)[at + i] = Framed(events)[at + i]
      BY <3>1, FramedMore
    <3>3. q[i] = p[i]
      BY <1>2, <1>3, <1>4, <2>1
    <3> QED
      BY <1>3, <3>1, <3>2, <3>3
  <2>2. CASE i > Len(p)
    <3> DEFINE j == i - Len(p)
    <3>1. j \in 1 .. 4 /\ at + i = 4 * n + j
      <4> DEFINE m == Len(p)
                 l == Len(q)
      <4>1. m \in Nat /\ l = m + 4 /\ m = 4 * n - at /\ i \in 1 .. l /\ i > m /\ n \in Nat /\ j = i - m
        BY <1>7, <1>10, <2>2
      <4> HIDE DEF m, l, j
      <4> QED
        BY <4>1
    <3>2. q[i] = f[j]
      <4>1. i \in 1 .. Len(p) + 4 /\ ~(i <= Len(p))
        BY <1>7, <1>10, <2>2
      <4> QED
        BY <1>10, <4>1
    <3> HIDE DEF j
    <3>3. f[j] = Framed(more)[4 * n + j]
      <4>1. j = 1 \/ j = 2 \/ j = 3 \/ j = 4
        BY <3>1
      <4> QED
        BY <1>2, <1>6, <4>1
    <3> QED
      BY <3>1, <3>2, <3>3
  <2>3. Len(p) \in Nat /\ i \in Nat
    BY <1>7, <1>10
  <2>4. i <= Len(p) \/ i > Len(p)
    BY <2>3
  <2> QED
    BY <2>1, <2>2, <2>4, Zenon
<1> QED
  BY <1>4, <1>5, <1>8 DEF IsLeft, Chunks

(* A chunk, and what it leaves. *)
CutsOff(chunk, q, events, at, n) ==
    /\ chunk \in Chunks /\ Len(chunk) = n /\ IsHeard(chunk, events, at) /\ at + n <= 4 * Len(events)
    /\ IsLeft(q, events, at + n)

LEMMA ChunkOfPipe ==
    ASSUME NEW events \in Seq(Events), NEW at \in Nat, at <= 4 * Len(events), NEW p, IsLeft(p, events, at), NEW n \in 1 .. Len(p),
           NEW chunk, chunk = SubSeq(p, 1, n), NEW q, q = SubSeq(p, n + 1, Len(p))
    PROVE  CutsOff(chunk, q, events, at, n)
<1> DEFINE m == Len(p)
<1>1. p \in Seq(Tokens) /\ m = 4 * Len(events) - at /\ (\A i \in 1 .. m : p[i] = Framed(events)[at + i]) /\ Len(events) \in Nat /\ m \in Nat
  BY DEF IsLeft, Chunks
<1>2. \A i \in 1 .. m : p[i] \in Tokens
  BY <1>1
<1> HIDE DEF m
<1>3. n \in 1 .. m /\ q = SubSeq(p, n + 1, m)
  BY DEF m
<1>4. /\ chunk = [i \in 1 .. n |-> p[i]] /\ q = [i \in 1 .. m - n |-> p[n + i]]
  <2>1. chunk = [i \in 1 .. n |-> p[i]]
    BY <1>1, <1>3
  <2>2. SubSeq(p, n + 1, m) = [i \in 1 .. m - n |-> p[n + i]]
    <3> DEFINE k == n + 1
               s == SubSeq(p, k, m)
    <3>1. k \in Int /\ m \in Int /\ (\A i \in k .. m : p[i] \in Tokens) /\ k <= m + 1
      BY <1>1, <1>2, <1>3
    <3> HIDE DEF k
    <3>2. /\ s \in Seq(Tokens) /\ Len(s) = IF k <= m THEN m - k + 1 ELSE 0
          /\ \A i \in 1 .. m - k + 1 : s[i] = p[k + i - 1]
      BY <3>1, SubSeqProperties
    <3>3. Len(s) = m - n /\ m - k + 1 = m - n /\ \A i \in 1 .. m - n : k + i - 1 = n + i
      <4> DEFINE l == Len(s)
      <4>1. k = n + 1 /\ n \in 1 .. m /\ m \in Nat /\ l = IF k <= m THEN m - k + 1 ELSE 0
        BY <1>1, <1>3, <3>2 DEF k
      <4> HIDE DEF l
      <4>2. l = m - n
        BY <4>1
      <4>3. m - k + 1 = m - n /\ \A i \in 1 .. m - n : k + i - 1 = n + i
        BY <4>1
      <4> QED
        BY <4>2, <4>3 DEF l
    <3> HIDE DEF s
    <3>7. s \in Seq(Tokens)
      BY <3>2
    <3>4. s = [i \in 1 .. Len(s) |-> s[i]]
      BY <3>7
    <3>5. s = [i \in 1 .. m - n |-> p[n + i]]
      BY <3>2, <3>3, <3>4
    <3> QED
      BY <3>5 DEF s, k
  <2> QED
    BY <1>3, <2>1, <2>2
<1>12. m \in Nat
  BY <1>1
<1>5. m - n \in Nat /\ n \in Nat
  BY <1>3, <1>12
<1>6. chunk \in Seq(Tokens) /\ Len(chunk) = n
  BY <1>1, <1>2, <1>3, <1>4, <1>5
<1>7. q \in Seq(Tokens) /\ Len(q) = m - n
  <2>1. \A i \in 1 .. m - n : p[n + i] \in Tokens
    BY <1>2, <1>3, <1>1
  <2> QED
    BY <1>4, <1>5, <2>1
<1>8. IsHeard(chunk, events, at)
  BY <1>1, <1>3, <1>4, <1>6 DEF IsHeard
<1>9. at + n <= 4 * Len(events) /\ m - n = 4 * Len(events) - (at + n)
  BY <1>1, <1>3
<1>10. \A i \in 1 .. m - n : q[i] = Framed(events)[(at + n) + i]
  <2> TAKE i \in 1 .. m - n
  <2>1. n \in Nat /\ n <= m /\ m \in Nat /\ n >= 1
    BY <1>3, <1>12
  <2>2. n + i \in 1 .. m /\ at + (n + i) = (at + n) + i
    BY <2>1
  <2> QED
    BY <1>1, <1>4, <2>2
<1>11. IsLeft(q, events, at + n)
  BY <1>7, <1>9, <1>10 DEF IsLeft, Chunks
<1> QED
  BY <1>6, <1>8, <1>9, <1>11 DEF Chunks, CutsOff

(* What a reader makes of the events. *)
Readers == [verdict : Verdicts, meta : BOOLEAN, buf : Chunks, text : Seq(ToSet(Deltas))]

LEMMA HearType ==
    ASSUME client \in Streamers, NEW r \in Readers, NEW e
    PROVE  Hear(r, e) \in Readers /\ Hear(r, e).buf = r.buf
<1> DEFINE D == ToSet(Deltas)
<1>1. r \in [verdict : Verdicts, meta : BOOLEAN, buf : Chunks, text : Seq(D)] /\ <<>> \in Seq(D)
  BY DEF Readers
<1>2. Told(e) \in Verdicts /\ "error" \in Verdicts
  BY DEF Told, Verdicts
<1>3. Readers = [verdict : Verdicts, meta : BOOLEAN, buf : Chunks, text : Seq(D)]
  BY DEF Readers
<1>4. ASSUME NEW needsMeta \in BOOLEAN
      PROVE  /\ Hears(r, e, needsMeta) \in [verdict : Verdicts, meta : BOOLEAN, buf : Chunks, text : Seq(D)]
             /\ Hears(r, e, needsMeta).buf = r.buf
  <2>1. CASE e \in D
    <3>1. Hears(r, e, needsMeta) = [r EXCEPT !.text = Append(r.text, e)]
      BY <2>1 DEF Hears
    <3> HIDE DEF D
    <3>2. Append(r.text, e) \in Seq(D)
      BY <1>1, <2>1
    <3> QED
      BY <1>1, <3>1, <3>2
  <2>2. CASE e \notin D
    <3>1. Hears(r, e, needsMeta) \in {[r EXCEPT !.meta = TRUE], r, [r EXCEPT !.verdict = Told(e)]}
      BY <2>2 DEF Hears
    <3> HIDE DEF D
    <3> QED
      BY <1>1, <1>2, <3>1
  <2> QED
    BY <2>1, <2>2
<1>5. \/ Hear(r, e) = Hears(r, e, FALSE) \/ Hear(r, e) = Hears(r, e, TRUE)
      \/ Hear(r, e) = r \/ Hear(r, e) = [r EXCEPT !.verdict = "error", !.text = <<>>]
  BY DEF Hear, BrowserHears, TypeScriptHears, GoHears, Streamers
<1> HIDE DEF D
<1>6. CASE Hear(r, e) = Hears(r, e, FALSE) \/ Hear(r, e) = Hears(r, e, TRUE)
  BY <1>3, <1>4, <1>6
<1>7. CASE Hear(r, e) = r \/ Hear(r, e) = [r EXCEPT !.verdict = "error", !.text = <<>>]
  BY <1>1, <1>2, <1>3, <1>7
<1> QED
  BY <1>5, <1>6, <1>7

(* The recursion of a reader over a chunk's frames has a function, too. *)
Hearing(f, first, frames) ==
    /\ f[0] = first
    /\ \A i \in 1 .. Len(frames) : f[i - 1] \in Readers /\ f[i] = HearFrame(f[i - 1], frames[i])
    /\ Folded(HearFrame, first, frames) = f[Len(frames)]

LEMMA HearsUpTo ==
    ASSUME client \in Streamers, NEW first, NEW frames, first \in Readers, frames \in Seq(Chunks)
    PROVE  \E f : Hearing(f, first, frames)
<1> DEFINE A == Readers
           n == Len(frames)
           step == [i \in 1 .. n |-> [a \in A |-> HearFrame(a, frames[i])]]
           rule(g) == [i \in 0 .. n |-> IF i = 0 THEN first ELSE HearFrame(g[i - 1], frames[i])]
           Recurs(g) == g = rule(g)
           c == CHOOSE g : Recurs(g)
<1>1. n \in Nat
  OBVIOUS
<1>2. first \in A
  OBVIOUS
<1>3. ASSUME NEW a \in A, NEW t PROVE HearFrame(a, t) \in A
  <2> DEFINE e == EventOf(t)
  <2>1. HearFrame(a, t) = Hear(a, e)
    BY DEF HearFrame
  <2> HIDE DEF e
  <2> QED
    BY <2>1, HearType
<1> HIDE DEF A, n
<1>4. step \in [1 .. n -> [A -> A]]
  BY <1>1, <1>3
<1>5. PICK f \in [0 .. n -> A] : f[0] = first /\ \A i \in 1 .. n : f[i] = step[i][f[i - 1]]
  <2>1. n \in Nat /\ first \in A /\ step \in StepsOn(A, n)
    BY <1>1, <1>2, <1>4 DEF StepsOn
  <2> HIDE DEF step
  <2>2. HasFold(A, first, step, n)
    BY <2>1, FoldExists
  <2> QED
    BY <2>2 DEF HasFold, Follows
<1>6. ASSUME NEW g, g = rule(g)
      PROVE  /\ g[0] = first
             /\ \A i \in 1 .. n : g[i - 1] \in A /\ g[i] = HearFrame(g[i - 1], frames[i])
  <2>1. \A i \in 0 .. n : g[i] = rule(g)[i]
    BY <1>6
  <2>2. 0 \in 0 .. n /\ \A i \in 1 .. n : i \in 0 .. n /\ i # 0
    BY <1>1
  <2>3. g[0] = first /\ \A i \in 1 .. n : g[i] = HearFrame(g[i - 1], frames[i])
    BY <2>1, <2>2
  <2> DEFINE S == {i \in Nat : i <= n => g[i] \in A}
  <2>4. 0 \in S
    BY <1>2, <2>3
  <2>5. ASSUME NEW i \in Nat, i \in S PROVE i + 1 \in S
    <3> SUFFICES ASSUME i + 1 <= n PROVE g[i + 1] \in A
      OBVIOUS
    <3> DEFINE j == i + 1
    <3>1. j \in 1 .. n /\ j - 1 = i /\ i <= n
      BY <1>1
    <3>2. g[i] \in A
      BY <2>5, <3>1
    <3> HIDE DEF j
    <3>3. g[j] = HearFrame(g[i], frames[j])
      BY <2>3, <3>1
    <3>4. g[j] \in A
      BY <1>3, <3>2, <3>3
    <3> QED
      BY <3>4 DEF j
  <2> HIDE DEF S
  <2>6. \A i \in Nat : i \in S
    BY <2>4, <2>5, SetInduction
  <2>7. \A i \in 1 .. n : g[i - 1] \in A
    <3> TAKE i \in 1 .. n
    <3> DEFINE j == i - 1
    <3>1. j \in Nat /\ j <= n
      BY <1>1
    <3> HIDE DEF j
    <3>2. g[j] \in A
      BY <2>6, <3>1 DEF S
    <3> QED
      BY <3>2 DEF j
  <2> QED
    BY <2>3, <2>7
<1>7. Recurs(f)
  <2>1. ASSUME NEW i \in 0 .. n PROVE f[i] = rule(f)[i]
    <3>1. CASE i = 0
      BY <1>5, <3>1
    <3>2. CASE i \in 1 .. n
      <4>1. i # 0 /\ i - 1 \in 0 .. n
        BY <1>1, <3>2
      <4>2. f[i - 1] \in A
        BY <4>1
      <4>3. step[i][f[i - 1]] = HearFrame(f[i - 1], frames[i])
        BY <3>2, <4>2
      <4> QED
        BY <1>5, <3>2, <4>1, <4>3
    <3> QED
      BY <1>1, <3>1, <3>2
  <2>2. f = [i \in 0 .. n |-> f[i]]
    BY <1>5
  <2> HIDE DEF rule
  <2>3. f = [i \in 0 .. n |-> rule(f)[i]]
    BY <2>1, <2>2
  <2>4. rule(f) = [i \in 0 .. n |-> rule(f)[i]]
    BY DEF rule
  <2> QED
    BY <2>3, <2>4
<1>8. Recurs(c)
  <2> HIDE DEF Recurs
  <2> QED
    BY <1>7
<1>9. Folded(HearFrame, first, frames) = c[n]
  BY DEF Folded, n
<1> HIDE DEF c, rule
<1>10. /\ c[0] = first
       /\ \A i \in 1 .. n : c[i - 1] \in A /\ c[i] = HearFrame(c[i - 1], frames[i])
  BY <1>6, <1>8
<1> QED
  BY <1>9, <1>10 DEF A, n, Hearing

(* What the handler writes: `meta`, m - 1 pieces of text, and one event     *)
(* that ends it; without `meta`, an error.                                 *)
Finals == {"done", "done, degraded", "error"}
Plan(events, m) ==
    /\ events \in Seq(Events) /\ m \in 0 .. Len(Deltas) + 1 /\ Len(events) \in {m, m + 1}
    /\ \A i \in 1 .. m : events[i] = IF i = 1 THEN "meta" ELSE Deltas[i - 1]
    /\ Len(events) = m + 1 => events[m + 1] \in Finals /\ (m = 0 => events[m + 1] = "error")

(* A reader that has heard the first h events, and none that ends it. *)
TextOf(h) == IF h = 0 THEN <<>> ELSE Upto(h - 1)
Quiet(r, h) == r \in Readers /\ r.verdict = "none" /\ (r.meta <=> h # 0) /\ r.text = TextOf(h)
(* One that has heard the last. *)
Closed(r, events, m) ==
    /\ r \in Readers /\ r.verdict # "none"
    /\ r.verdict = "whole" => events[m + 1] = "done" /\ m # 0 /\ r.text = TextOf(m)
Heard(events, m, r, l) == (l <= m /\ Quiet(r, l)) \/ (l = m + 1 /\ l = Len(events) /\ Closed(r, events, m))

LEMMA HeardOne ==
    ASSUME client \in Streamers, NEW events, NEW m, Plan(events, m), NEW h \in Nat, h <= m, h < Len(events),
           NEW r, Quiet(r, h), NEW frame, frame = Halves(events[h + 1])
    PROVE  Heard(events, m, HearFrame(r, frame), h + 1) /\ HearFrame(r, frame).buf = r.buf
<1> DEFINE e == events[h + 1]
           D == ToSet(Deltas)
<1>1. /\ events \in Seq(Events) /\ m \in Nat /\ m <= Len(Deltas) + 1 /\ Len(Deltas) \in Nat /\ Len(events) \in Nat
      /\ (h < m \/ (h = m /\ Len(events) = m + 1))
  <2>1. Len(events) \in {m, m + 1} /\ m \in 0 .. Len(Deltas) + 1 /\ events \in Seq(Events)
    BY DEF Plan
  <2>2. Len(Deltas) \in Nat
    BY DeltasKnown
  <2> QED
    BY <2>1, <2>2
<1>2. e \in Events
  BY <1>1
<1>3. HearFrame(r, frame) = Hear(r, e)
  BY <1>2, EventOfFrame DEF HearFrame
<1>4. Hear(r, e) \in Readers /\ Hear(r, e).buf = r.buf
  BY HearType DEF Quiet
<1>5. r \in Readers /\ r.verdict = "none" /\ (r.meta <=> h # 0) /\ r.text = TextOf(h) /\ r.meta \in BOOLEAN
  BY DEF Quiet, Readers
<1>6. "meta" \notin D /\ "done" \notin D /\ "done, degraded" \notin D /\ "error" \notin D
  BY EventsKnown
<1>7. \/ Hear(r, e) = Hears(r, e, FALSE)
      \/ e # "error" /\ Hear(r, e) = Hears(r, e, TRUE)
      \/ e = "error" /\ Hear(r, e) = [r EXCEPT !.verdict = "error", !.text = <<>>]
  BY <1>5 DEF Hear, BrowserHears, TypeScriptHears, GoHears, Streamers
<1>8. CASE h < m
  <2>1. e = IF h = 0 THEN "meta" ELSE Deltas[h]
    <3>1. h + 1 \in 1 .. m /\ (h + 1 = 1 <=> h = 0) /\ (h + 1) - 1 = h
      BY <1>1, <1>8
    <3>2. \A i \in 1 .. m : events[i] = IF i = 1 THEN "meta" ELSE Deltas[i - 1]
      BY DEF Plan
    <3> DEFINE i == h + 1
    <3>3. i \in 1 .. m /\ (i = 1 <=> h = 0) /\ i - 1 = h
      BY <3>1
    <3> HIDE DEF i
    <3>4. events[i] = IF h = 0 THEN "meta" ELSE Deltas[h]
      BY <3>2, <3>3
    <3> QED
      BY <3>4 DEF i
  <2>2. h # 0 => h \in 1 .. Len(Deltas) /\ Deltas[h] \in D
    <3>1. h # 0 => h \in 1 .. Len(Deltas)
      BY <1>1, <1>8
    <3> QED
      BY <3>1, DeltasKnown
  <2> HIDE DEF e, D
  <2>3. CASE h = 0
    <3>1. e = "meta" /\ e \notin D /\ e # "error"
      BY <1>6, <2>1, <2>3
    <3>2. Hear(r, e) = [r EXCEPT !.meta = TRUE]
      BY <1>7, <3>1 DEF Hears, D
    <3>3. Hear(r, e).verdict = "none" /\ Hear(r, e).meta = TRUE /\ Hear(r, e).text = <<>>
      BY <1>5, <2>3, <3>2 DEF Readers, TextOf
    <3>4. TextOf(h + 1) = <<>> /\ h + 1 # 0
      <4>1. h + 1 # 0 /\ (h + 1) - 1 = 0
        BY <2>3
      <4> QED
        BY <4>1, BegunKnown DEF TextOf
    <3> QED
      BY <1>1, <1>3, <1>4, <1>8, <3>3, <3>4 DEF Heard, Quiet
  <2>4. CASE h # 0
    <3>1. e = Deltas[h] /\ e \in D /\ e # "error"
      BY <1>6, <2>1, <2>2, <2>4
    <3>2. Hear(r, e) = [r EXCEPT !.text = Append(r.text, e)]
      BY <1>7, <3>1 DEF Hears, D
    <3>3. Hear(r, e).verdict = "none" /\ Hear(r, e).meta = r.meta /\ Hear(r, e).text = Append(r.text, e)
      BY <1>5, <3>2 DEF Readers
    <3>4. TextOf(h + 1) = Append(TextOf(h), e) /\ h + 1 # 0
      <4>1. h + 1 # 0 /\ (h + 1) - 1 = h
        BY <2>4
      <4>2. Append(Upto(h - 1), Deltas[h]) = Upto(h)
        BY <2>2, <2>4, BegunKnown
      <4> QED
        BY <2>4, <3>1, <4>1, <4>2 DEF TextOf
    <3> QED
      BY <1>1, <1>3, <1>4, <1>5, <1>8, <2>4, <3>3, <3>4 DEF Heard, Quiet
  <2> QED
    BY <2>3, <2>4
<1>9. CASE h = m /\ Len(events) = m + 1
  <2>1. e \in Finals /\ (m = 0 => e = "error")
    BY <1>9 DEF Plan
  <2> HIDE DEF e, D
  <2>2. e \notin D /\ e # "meta" /\ e # "no data" /\ (e # "error" => m # 0 /\ r.meta)
    BY <1>5, <1>6, <1>9, <2>1 DEF Finals
  <2>3. Hear(r, e) = [r EXCEPT !.verdict = Told(e)] \/ (e = "error" /\ Hear(r, e) = [r EXCEPT !.verdict = "error", !.text = <<>>])
    BY <1>7, <2>2 DEF Hears, D
  <2>4. Told(e) # "none" /\ (Told(e) = "whole" => e = "done")
    BY <2>1 DEF Told, Finals
  <2>5. Hear(r, e).verdict # "none" /\ (Hear(r, e).verdict = "whole" => e = "done" /\ Hear(r, e).text = r.text)
    BY <1>5, <2>3, <2>4 DEF Readers
  <2>6. Closed(Hear(r, e), events, m)
    <3>1. e = events[m + 1]
      BY <1>9 DEF e
    <3> QED
      BY <1>4, <1>5, <1>9, <2>2, <2>5, <3>1 DEF Closed
  <2> QED
    BY <1>3, <1>4, <1>9, <2>6 DEF Heard
<1> QED
  BY <1>1, <1>8, <1>9

MayHear(events, m, h, l, r, frames) ==
    /\ Plan(events, m) /\ h \in Nat /\ h <= m /\ l \in Nat /\ h <= l /\ l <= Len(events)
    /\ Quiet(r, h) /\ frames = LinesFrom(events, h, l)
HeardThrough(events, m, l, r, end) == Heard(events, m, end, l) /\ end.buf = r.buf
LEMMA HeardAll ==
    ASSUME client \in Streamers, NEW events, NEW m, NEW h, NEW l, NEW r, NEW frames, MayHear(events, m, h, l, r, frames)
    PROVE  HeardThrough(events, m, l, r, Folded(HearFrame, r, frames))
<1> SUFFICES ASSUME Plan(events, m), h \in Nat, h <= m, l \in Nat, h <= l, l <= Len(events),
                    Quiet(r, h), frames = LinesFrom(events, h, l)
             PROVE  Heard(events, m, Folded(HearFrame, r, frames), l) /\ Folded(HearFrame, r, frames).buf = r.buf
  BY DEF MayHear, HeardThrough
<1> DEFINE n == l - h
<1>1. events \in Seq(Events) /\ m \in Nat /\ Len(events) \in Nat /\ n \in Nat /\ h + n = l /\ Len(events) \in {m, m + 1}
  <2>1. Len(events) \in {m, m + 1} /\ m \in 0 .. Len(Deltas) + 1 /\ events \in Seq(Events)
    BY DEF Plan
  <2>2. Len(Deltas) \in Nat
    BY DeltasKnown
  <2> QED
    BY <2>1, <2>2
<1>2. frames = [j \in 1 .. n |-> Halves(events[h + j])]
  BY DEF LinesFrom
<1> HIDE DEF n
<1>3. \A j \in 1 .. n : frames[j] = Halves(events[h + j]) /\ Halves(events[h + j]) \in Chunks
  <2> TAKE j \in 1 .. n
  <2> DEFINE e == events[h + j]
  <2>1. h + j \in 1 .. Len(events)
    BY <1>1
  <2>2. e \in Vocabulary
    <3>1. e \in Events
      BY <1>1, <2>1
    <3> HIDE DEF e
    <3> QED
      BY <3>1, EventsKnown
  <2> HIDE DEF e
  <2>3. Halves(e) \in Chunks
    BY <2>2, TokensOfWords
  <2> QED
    BY <1>2, <2>3 DEF e
<1>4. frames \in Seq(Chunks) /\ Len(frames) = n
  BY <1>1, <1>2, <1>3
<1>5. PICK f : /\ f[0] = r
               /\ \A i \in 1 .. n : f[i - 1] \in Readers /\ f[i] = HearFrame(f[i - 1], frames[i])
               /\ Folded(HearFrame, r, frames) = f[n]
  <2>1. r \in Readers
    BY DEF Quiet
  <2>2. PICK f : Hearing(f, r, frames)
    BY <1>4, <2>1, HearsUpTo
  <2>3. /\ f[0] = r
        /\ \A i \in 1 .. n : f[i - 1] \in Readers /\ f[i] = HearFrame(f[i - 1], frames[i])
        /\ Folded(HearFrame, r, frames) = f[n]
    BY <1>4, <2>2 DEF Hearing
  <2> QED
    BY <2>3
<1> DEFINE S == {i \in Nat : i <= n => Heard(events, m, f[i], h + i) /\ f[i].buf = r.buf}
<1>6. 0 \in S
  <2>1. Heard(events, m, f[0], h + 0)
    BY <1>5 DEF Heard
  <2> QED
    BY <1>5, <2>1
<1>7. ASSUME NEW i \in Nat, i \in S PROVE i + 1 \in S
  <2> SUFFICES ASSUME i + 1 <= n PROVE Heard(events, m, f[i + 1], h + (i + 1)) /\ f[i + 1].buf = r.buf
    OBVIOUS
  <2> DEFINE j == i + 1
             p == h + i
  <2>1. j \in 1 .. n /\ j - 1 = i /\ i <= n /\ p \in Nat /\ h + j = p + 1 /\ p < Len(events)
    BY <1>1
  <2>2. Heard(events, m, f[i], p) /\ f[i].buf = r.buf
    BY <1>7, <2>1
  <2> HIDE DEF j, p
  <2>3. p <= m /\ Quiet(f[i], p)
    <3>1. p # Len(events)
      BY <1>1, <2>1
    <3> QED
      BY <2>2, <3>1 DEF Heard
  <2>4. f[j] = HearFrame(f[i], frames[j]) /\ frames[j] = Halves(events[p + 1])
    BY <1>3, <1>5, <2>1
  <2>5. Heard(events, m, HearFrame(f[i], frames[j]), p + 1) /\ HearFrame(f[i], frames[j]).buf = f[i].buf
    <3> DEFINE q == f[i]
               frame == frames[j]
    <3>1. Quiet(q, p) /\ p \in Nat /\ p <= m /\ p < Len(events) /\ frame = Halves(events[p + 1])
      BY <2>1, <2>3, <2>4
    <3> HIDE DEF q, frame
    <3>2. Heard(events, m, HearFrame(q, frame), p + 1) /\ HearFrame(q, frame).buf = q.buf
      BY <3>1, HeardOne
    <3> QED
      BY <3>2 DEF q, frame
  <2>6. Heard(events, m, f[j], h + j) /\ f[j].buf = r.buf
    BY <2>1, <2>2, <2>4, <2>5
  <2> QED
    BY <2>6 DEF j
<1> HIDE DEF S
<1>8. n \in S
  BY <1>1, <1>6, <1>7, SetInduction
<1> QED
  BY <1>1, <1>5, <1>8 DEF S

---------------------------------------------------------------------------
(* The client's half: while the client listens, what it has heard, the     *)
(* frame it is in and what waits in the connection are the events that the *)
(* handler wrote.                                                          *)
Written(events, m, S, L) ==
    /\ Plan(events, m)
    /\ S.pc = "asked" => m = 0 /\ Len(events) = m
    /\ S.pc \in {"synth", "log"} => m # 0 /\ Len(events) = m /\ S.answer = TextOf(m)
    /\ S.pc = "closed" => Len(events) = m + 1 /\ (events[m + 1] = "done" => TextOf(m) = SaidBy(L))
InPipe(events, m, h, b, R, P) ==
    /\ h <= m /\ Quiet(R, h) /\ R.buf = PartOfFrame(events, h, b)
    /\ 4 * h + b <= 4 * Len(events) /\ IsLeft(P, events, 4 * h + b)
Delivers(R, P, S, L) ==
    \E events \in Seq(Events), m \in Nat, h \in Nat, b \in 0 .. 3 : Written(events, m, S, L) /\ InPipe(events, m, h, b, R, P)

ClientInv ==
    /\ reader \in Readers
    /\ gone => reader.verdict # "none"
    /\ client \in Streamers /\ reader.verdict = "none" => Delivers(reader, pipe, server, llm)
    /\ client \in Streamers /\ reader.verdict = "whole" => server.pc = "closed" /\ reader.text = SaidBy(llm)

LEMMA PlanKnown ==
    ASSUME NEW events, NEW m, Plan(events, m)
    PROVE  /\ events \in Seq(Events) /\ m \in Nat /\ m <= Len(Deltas) + 1 /\ Len(Deltas) \in Nat /\ Len(events) \in Nat
           /\ Len(events) = m \/ Len(events) = m + 1
           /\ \A i \in 1 .. m : events[i] = IF i = 1 THEN "meta" ELSE Deltas[i - 1]
           /\ Len(events) = m + 1 => events[m + 1] \in Finals /\ (m = 0 => events[m + 1] = "error")
<1>1. Len(events) \in {m, m + 1} /\ m \in 0 .. Len(Deltas) + 1 /\ events \in Seq(Events)
  BY DEF Plan
<1>2. Len(Deltas) \in Nat
  BY DeltasKnown
<1> QED
  BY <1>1, <1>2 DEF Plan

(* One more piece of text, or the first event. *)
NextEvent(m) == IF m = 0 THEN "meta" ELSE Deltas[m]
GoesOn(events, m, e, more) ==
    Plan(events, m) /\ Len(events) = m /\ m <= Len(Deltas) /\ e = NextEvent(m) /\ more = Append(events, e)
IsPlanned(more, n, e) == Plan(more, n) /\ Len(more) = n /\ e \in Events
LEMMA PlanGoesOn ==
    ASSUME NEW events, NEW m, NEW e, NEW more, GoesOn(events, m, e, more)
    PROVE  IsPlanned(more, m + 1, e)
<1>0. Plan(events, m) /\ Len(events) = m /\ m <= Len(Deltas) /\ e = NextEvent(m) /\ more = Append(events, e)
  BY DEF GoesOn
<1>1. /\ events \in Seq(Events) /\ m \in Nat /\ Len(Deltas) \in Nat
      /\ \A i \in 1 .. m : events[i] = IF i = 1 THEN "meta" ELSE Deltas[i - 1]
  BY <1>0, PlanKnown
<1>2. e \in Events
  <2>1. CASE m = 0
    BY <1>0, <2>1, EventsKnown DEF NextEvent
  <2>2. CASE m # 0
    <3>1. m \in 1 .. Len(Deltas)
      BY <1>0, <1>1, <2>2
    <3> QED
      BY <1>0, <2>2, <3>1, DeltasKnown, EventsKnown DEF NextEvent
  <2> QED
    BY <2>1, <2>2
<1>3. more \in Seq(Events) /\ Len(more) = m + 1 /\ (\A i \in 1 .. m : more[i] = events[i]) /\ more[m + 1] = e
  BY <1>0, <1>1, <1>2, AppendProperties
<1>4. \A i \in 1 .. m + 1 : more[i] = IF i = 1 THEN "meta" ELSE Deltas[i - 1]
  <2> TAKE i \in 1 .. m + 1
  <2>1. CASE i \in 1 .. m
    BY <1>1, <1>3, <2>1
  <2>2. CASE i = m + 1
    <3>1. (i = 1 <=> m = 0) /\ i - 1 = m
      BY <1>1, <2>2
    <3>2. more[i] = IF m = 0 THEN "meta" ELSE Deltas[m]
      BY <1>0, <1>3, <2>2 DEF NextEvent
    <3> QED
      BY <3>1, <3>2
  <2> QED
    BY <1>1, <2>1, <2>2
<1>5. Len(more) \in {m + 1, (m + 1) + 1} /\ ~(Len(more) = (m + 1) + 1) /\ m + 1 \in 0 .. Len(Deltas) + 1
  BY <1>0, <1>1, <1>3
<1> QED
  BY <1>2, <1>3, <1>4, <1>5 DEF Plan, IsPlanned

(* The event that ends it. *)
MayEnd(e, m) == e \in Finals /\ (m = 0 => e = "error")
EndedBy(more, m, e) == Plan(more, m) /\ Len(more) = m + 1 /\ e \in Events /\ more[m + 1] = e
LEMMA PlanEnds ==
    ASSUME NEW events, NEW m, Plan(events, m), Len(events) = m, NEW e, MayEnd(e, m),
           NEW more, more = Append(events, e)
    PROVE  EndedBy(more, m, e)
<1>1. /\ events \in Seq(Events) /\ m \in Nat /\ Len(Deltas) \in Nat /\ m <= Len(Deltas) + 1
      /\ \A i \in 1 .. m : events[i] = IF i = 1 THEN "meta" ELSE Deltas[i - 1]
  BY PlanKnown
<1>2. e \in Events
  BY EventsKnown DEF Finals, MayEnd
<1>3. more \in Seq(Events) /\ Len(more) = m + 1 /\ (\A i \in 1 .. m : more[i] = events[i]) /\ more[m + 1] = e
  BY <1>1, <1>2, AppendProperties
<1>4. \A i \in 1 .. m : more[i] = IF i = 1 THEN "meta" ELSE Deltas[i - 1]
  BY <1>1, <1>3
<1>5. m \in 0 .. Len(Deltas) + 1
  BY <1>1
<1> QED
  BY <1>2, <1>3, <1>4, <1>5 DEF Plan, MayEnd, EndedBy

(* What is written waits at the end of the connection. *)
LEMMA WaitsInPipe ==
    ASSUME NEW events \in Seq(Events), NEW m \in Nat, NEW h \in Nat, NEW b \in 0 .. 3, NEW R, NEW P, InPipe(events, m, h, b, R, P),
           NEW e \in Events, NEW more, more = Append(events, e), NEW k \in Nat, m <= k, NEW Q, Q = P \o Frame(e)
    PROVE  InPipe(more, k, h, b, R, Q)
<1>1. /\ h <= m /\ Quiet(R, h) /\ R.buf = PartOfFrame(events, h, b)
      /\ 4 * h + b <= 4 * Len(events) /\ IsLeft(P, events, 4 * h + b)
  BY DEF InPipe
<1>2. more \in Seq(Events) /\ Len(more) = Len(events) + 1 /\ (\A i \in 1 .. Len(events) : more[i] = events[i]) /\ Len(events) \in Nat
  BY AppendProperties
<1>3. h <= k /\ 4 * h + b <= 4 * Len(more) /\ 4 * h + b \in Nat
  BY <1>1, <1>2
<1>4. IsLeft(Q, more, 4 * h + b)
  <2> DEFINE at == 4 * h + b
  <2>1. at \in Nat /\ at <= 4 * Len(events) /\ IsLeft(P, events, at)
    BY <1>1, <1>3
  <2> HIDE DEF at
  <2>2. IsLeft(Q, more, at)
    BY <2>1, WrittenMore
  <2> QED
    BY <2>2 DEF at
<1>5. PartOfFrame(more, h, b) = PartOfFrame(events, h, b)
  <2>1. CASE b = 0
    BY <2>1 DEF PartOfFrame
  <2>2. CASE b # 0
    <3>1. h + 1 \in 1 .. Len(events)
      BY <1>1, <1>2, <2>2
    <3>2. more[h + 1] = events[h + 1]
      BY <1>2, <3>1
    <3> QED
      BY <3>2 DEF PartOfFrame
  <2> QED
    BY <2>1, <2>2
<1> QED
  BY <1>1, <1>3, <1>4, <1>5 DEF InPipe

(* The handler's steps: a reader with a verdict is left alone by them, and *)
(* none is left to do when an answer was told to be whole.                 *)
LEMMA HandlerKeeps ==
    ASSUME ClientInv, server.pc # "closed", UNCHANGED <<client, reader, gone>>,
           client \in Streamers /\ reader.verdict = "none" => Delivers(reader, pipe', server', llm')
    PROVE  ClientInv'
  BY DEF ClientInv

LEMMA SilentKeeps ==
    ASSUME ClientInv, server.pc = "synth", server'.pc \in {"synth", "log"}, server'.answer = server.answer,
           UNCHANGED <<client, pipe, reader, gone>>
    PROVE  ClientInv'
<1>1. ASSUME client \in Streamers, reader.verdict = "none" PROVE Delivers(reader, pipe', server', llm')
  <2>1. PICK events \in Seq(Events), m \in Nat, h \in Nat, b \in 0 .. 3 : Written(events, m, server, llm) /\ InPipe(events, m, h, b, reader, pipe)
    BY <1>1 DEF ClientInv, Delivers
  <2>2. Written(events, m, server', llm')
    BY <2>1 DEF Written
  <2> QED
    BY <2>1, <2>2 DEF Delivers
<1> QED
  BY <1>1, HandlerKeeps

(* Events that are written before a client leaves. *)
LEMMA EventKeeps ==
    ASSUME NEW e, NEW R, NEW P, NEW Q, NEW S, NEW L, NEW events \in Seq(Events), NEW m \in Nat, NEW h \in Nat, NEW b \in 0 .. 3,
           InPipe(events, m, h, b, R, P), e \in Events, Q = P \o Frame(e), NEW k, k \in Nat, m <= k,
           NEW more, more = Append(events, e), Written(more, k, S, L)
    PROVE  Delivers(R, Q, S, L)
<1>1. InPipe(more, k, h, b, R, Q)
  BY WaitsInPipe
<1>2. more \in Seq(Events)
  OBVIOUS
<1> QED
  BY <1>1, <1>2 DEF Delivers

LEMMA MetaKeeps ==
    ASSUME ServerInv, ClientInv, Retrieves
    PROVE  ClientInv'
<1>1. /\ server.pc = "asked" /\ UNCHANGED <<vendor, client, reader, gone>>
      /\ \/ /\ WriteEvent("meta")
            /\ server' = [server EXCEPT !.pc = IF gone THEN "closed" ELSE "synth"]
         \/ WriteEvent("error") /\ server' = [server EXCEPT !.pc = "closed"]
  BY DEF Retrieves
<1>2. ASSUME client \in Streamers, reader.verdict = "none" PROVE Delivers(reader, pipe', server', llm')
  <2>1. PICK events \in Seq(Events), m \in Nat, h \in Nat, b \in 0 .. 3 : Written(events, m, server, llm) /\ InPipe(events, m, h, b, reader, pipe)
    BY <1>2 DEF ClientInv, Delivers
  <2>2. Plan(events, m) /\ m = 0 /\ Len(events) = 0
    BY <1>1, <2>1 DEF Written
  <2>3. ~gone /\ server \in Handlers /\ server.answer = <<>>
    BY <1>1, <1>2 DEF ServerInv, ClientInv
  <2>4. CASE WriteEvent("meta") /\ server' = [server EXCEPT !.pc = IF gone THEN "closed" ELSE "synth"]
    <3> DEFINE more == Append(events, "meta")
    <3>1. pipe' = pipe \o Frame("meta") /\ server'.pc = "synth" /\ server'.answer = <<>>
      BY <2>3, <2>4 DEF WriteEvent, Handlers
    <3>2. Plan(more, 1) /\ Len(more) = 1 /\ "meta" \in Events
      <4>1. m <= Len(Deltas) /\ m + 1 = 1
        BY <2>2, DeltasKnown
      <4> DEFINE e == "meta"
      <4>2. GoesOn(events, m, e, more)
        BY <2>2, <4>1 DEF GoesOn, NextEvent
      <4> HIDE DEF e, more
      <4>3. IsPlanned(more, m + 1, e)
        BY <4>2, PlanGoesOn
      <4> QED
        BY <4>1, <4>3 DEF e, IsPlanned
    <3> HIDE DEF more
    <3>3. TextOf(1) = <<>>
      BY BegunKnown DEF TextOf
    <3>4. Written(more, 1, server', llm')
      BY <3>1, <3>2, <3>3 DEF Written
    <3>5. more = Append(events, "meta") /\ m <= 1
      BY <2>2 DEF more
    <3> QED
      BY <2>1, <3>1, <3>2, <3>4, <3>5, EventKeeps
  <2>5. CASE WriteEvent("error") /\ server' = [server EXCEPT !.pc = "closed"]
    <3> DEFINE e == "error"
               more == Append(events, e)
    <3>1. pipe' = pipe \o Frame(e) /\ server'.pc = "closed"
      BY <2>3, <2>5 DEF WriteEvent, Handlers
    <3>2. Plan(more, m) /\ Len(more) = m + 1 /\ e \in Events /\ more[m + 1] = e
      <4>1. MayEnd(e, m) /\ Len(events) = m /\ more = Append(events, e) /\ Plan(events, m)
        BY <2>2 DEF Finals, MayEnd
      <4> HIDE DEF e, more
      <4>2. EndedBy(more, m, e)
        BY <4>1, PlanEnds
      <4> QED
        BY <4>2 DEF EndedBy
    <3>3. e # "done"
      OBVIOUS
    <3> HIDE DEF more, e
    <3>4. Written(more, m, server', llm')
      BY <3>1, <3>2, <3>3 DEF Written
    <3>5. more = Append(events, e) /\ m <= m
      BY DEF more
    <3> QED
      BY <2>1, <3>1, <3>2, <3>4, <3>5, EventKeeps
  <2> QED
    BY <1>1, <2>4, <2>5
<1> QED
  BY <1>1, <1>2, HandlerKeeps

LEMMA DeltaKeeps ==
    ASSUME ServerInv, ServerInv', ClientInv, SynthesizeStream
    PROVE  ClientInv'
<1>1. /\ server.pc = "synth" /\ UNCHANGED <<vendor, client, reader, gone>>
      /\ \/ server' = server /\ pipe' = pipe
         \/ \E d \in ToSet(Deltas) :
              /\ server' = [server EXCEPT !.answer = Append(@, d), !.pc = IF gone THEN "log" ELSE @]
              /\ WriteEvent(d)
  BY DEF SynthesizeStream
<1>2. CASE server' = server /\ pipe' = pipe
  BY <1>1, <1>2, SilentKeeps
<1>3. ASSUME client \in Streamers, reader.verdict = "none",
             NEW d \in ToSet(Deltas), server' = [server EXCEPT !.answer = Append(@, d), !.pc = IF gone THEN "log" ELSE @],
             WriteEvent(d)
      PROVE  Delivers(reader, pipe', server', llm')
  <2>1. PICK events \in Seq(Events), m \in Nat, h \in Nat, b \in 0 .. 3 : Written(events, m, server, llm) /\ InPipe(events, m, h, b, reader, pipe)
    BY <1>3 DEF ClientInv, Delivers
  <2>2. Plan(events, m) /\ m # 0 /\ Len(events) = m /\ server.answer = TextOf(m)
    BY <1>1, <2>1 DEF Written
  <2>3. ~gone /\ server \in Handlers /\ server' \in Handlers
    BY <1>3 DEF ServerInv, ClientInv
  <2>4. pipe' = pipe \o Frame(d) /\ server'.pc = "synth" /\ server'.answer = Append(Upto(m - 1), d) /\ server'.answer \in Begun
    BY <1>1, <1>3, <2>2, <2>3 DEF WriteEvent, Handlers, TextOf
  <2>5. m \in 1 .. Len(Deltas) /\ d = Deltas[m] /\ Append(Upto(m - 1), d) = Upto(m)
    <3>1. m - 1 \in 0 .. Len(Deltas) /\ Len(Deltas) \in Nat
      BY <2>2, PlanKnown
    <3> DEFINE n == m - 1
               t == Upto(n)
    <3>2. t \in Seq(ToSet(Deltas)) /\ Len(t) = n /\ n \in Nat /\ m = n + 1
      BY <3>1, Beginnings
    <3>3. PICK k \in 0 .. Len(Deltas) : Append(t, d) = Upto(k)
      BY <2>4 DEF Begun
    <3>4. Len(Upto(k)) = k
      BY Beginnings
    <3> HIDE DEF t, n
    <3>5. Len(Append(t, d)) = n + 1 /\ Append(t, d)[n + 1] = d
      BY <1>3, <3>2, AppendProperties
    <3>6. k = m
      BY <3>2, <3>3, <3>4, <3>5
    <3>7. m \in 1 .. m /\ Upto(m)[m] = Deltas[m]
      BY <2>2 DEF Upto
    <3>8. d = Deltas[m]
      BY <3>2, <3>3, <3>5, <3>6, <3>7
    <3>9. m \in 1 .. Len(Deltas)
      BY <2>2, <3>6
    <3>10. Append(Upto(m - 1), d) = Upto(m)
      BY <3>3, <3>6 DEF t, n
    <3> QED
      BY <3>8, <3>9, <3>10
  <2> DEFINE more == Append(events, d)
  <2>6. Plan(more, m + 1) /\ Len(more) = m + 1 /\ d \in Events
    <3>1. m <= Len(Deltas) /\ d = NextEvent(m)
      BY <2>2, <2>5, DeltasKnown DEF NextEvent
    <3>2. GoesOn(events, m, d, more)
      BY <2>2, <3>1 DEF GoesOn
    <3> HIDE DEF more
    <3>3. IsPlanned(more, m + 1, d)
      BY <3>2, PlanGoesOn
    <3> QED
      BY <3>3 DEF IsPlanned
  <2>7. TextOf(m + 1) = Upto(m) /\ m + 1 # 0
    <3>1. m + 1 # 0 /\ (m + 1) - 1 = m
      OBVIOUS
    <3> QED
      BY <3>1 DEF TextOf
  <2>8. more = Append(events, d) /\ m + 1 \in Nat /\ m <= m + 1
    OBVIOUS
  <2> HIDE DEF more
  <2>9. Written(more, m + 1, server', llm')
    BY <2>4, <2>5, <2>6, <2>7 DEF Written
  <2> DEFINE k == m + 1
  <2>10. k \in Nat /\ m <= k /\ Written(more, k, server', llm')
    BY <2>8, <2>9
  <2> HIDE DEF k
  <2> QED
    BY <2>1, <2>4, <2>6, <2>8, <2>10, EventKeeps
<1>4. CASE ~(server' = server /\ pipe' = pipe)
  <2>1. client \in Streamers /\ reader.verdict = "none" => Delivers(reader, pipe', server', llm')
    BY <1>1, <1>3, <1>4
  <2> QED
    BY <1>1, <2>1, HandlerKeeps
<1> QED
  BY <1>2, <1>4

LEMMA FinalKeeps ==
    ASSUME ServerInv, ClientInv, Finishes
    PROVE  ClientInv'
<1>1. /\ server.pc = "log" /\ UNCHANGED <<vendor, client, llm, reader, gone>>
      /\ server' = [server EXCEPT !.pc = "closed"]
      /\ \E e \in {"error", IF server.degraded THEN "done, degraded" ELSE "done"} : WriteEvent(e)
  BY DEF Finishes
<1>2. ASSUME client \in Streamers, reader.verdict = "none" PROVE Delivers(reader, pipe', server', llm')
  <2>1. PICK events \in Seq(Events), m \in Nat, h \in Nat, b \in 0 .. 3 : Written(events, m, server, llm) /\ InPipe(events, m, h, b, reader, pipe)
    BY <1>2 DEF ClientInv, Delivers
  <2>2. Plan(events, m) /\ m # 0 /\ Len(events) = m /\ server.answer = TextOf(m)
    BY <1>1, <2>1 DEF Written
  <2>3. ~gone /\ server \in Handlers /\ (server.degraded \/ server.answer = SaidBy(llm))
    BY <1>1, <1>2 DEF ServerInv, ClientInv
  <2>4. PICK e \in Finals : WriteEvent(e) /\ (e = "done" => ~server.degraded)
    BY <1>1 DEF Finals
  <2>5. pipe' = pipe \o Frame(e) /\ server'.pc = "closed"
    BY <1>1, <2>3, <2>4 DEF WriteEvent, Handlers
  <2> DEFINE more == Append(events, e)
  <2>6. Plan(more, m) /\ Len(more) = m + 1 /\ e \in Events /\ more[m + 1] = e
    <3>1. MayEnd(e, m) /\ more = Append(events, e)
      BY <2>2, <2>4 DEF MayEnd
    <3> HIDE DEF more
    <3>2. EndedBy(more, m, e)
      BY <2>2, <3>1, PlanEnds
    <3> QED
      BY <3>2 DEF EndedBy
  <2>7. more = Append(events, e) /\ m <= m
    OBVIOUS
  <2> HIDE DEF more
  <2>8. e = "done" => TextOf(m) = SaidBy(llm')
    BY <1>1, <2>2, <2>3, <2>4
  <2>9. Written(more, m, server', llm')
    BY <2>5, <2>6, <2>8 DEF Written
  <2> QED
    BY <2>1, <2>5, <2>6, <2>7, <2>9, EventKeeps
<1> QED
  BY <1>1, <1>2, HandlerKeeps

(* A chunk that is read: what it completes is heard, the rest is kept. *)
LEMMA ChunkKeeps ==
    ASSUME ServerInv, ClientInv, ReadsChunk
    PROVE  ClientInv'
<1>1. /\ client \in Streamers /\ reader.verdict = "none" /\ UNCHANGED <<vendor, client, llm, server, gone>>
      /\ \E n \in 1 .. Len(pipe) :
           /\ reader' = Folded(HearFrame, [reader EXCEPT !.buf = Frames(reader.buf, SubSeq(pipe, 1, n)).buf],
                               Frames(reader.buf, SubSeq(pipe, 1, n)).frames)
           /\ pipe' = SubSeq(pipe, n + 1, Len(pipe))
  BY DEF ReadsChunk
<1>2. PICK n \in 1 .. Len(pipe) :
           /\ reader' = Folded(HearFrame, [reader EXCEPT !.buf = Frames(reader.buf, SubSeq(pipe, 1, n)).buf],
                               Frames(reader.buf, SubSeq(pipe, 1, n)).frames)
           /\ pipe' = SubSeq(pipe, n + 1, Len(pipe))
  BY <1>1
<1>3. PICK events \in Seq(Events), m \in Nat, h \in Nat, b \in 0 .. 3 : Written(events, m, server, llm) /\ InPipe(events, m, h, b, reader, pipe)
  BY <1>1 DEF ClientInv, Delivers
<1>4. Plan(events, m) /\ Len(events) \in Nat /\ (Len(events) = m \/ Len(events) = m + 1)
  BY <1>3, PlanKnown DEF Written
<1>5. /\ h <= m /\ Quiet(reader, h) /\ reader.buf = PartOfFrame(events, h, b)
      /\ 4 * h + b <= 4 * Len(events) /\ IsLeft(pipe, events, 4 * h + b)
  BY <1>3 DEF InPipe
<1> DEFINE at == 4 * h + b
           chunk == SubSeq(pipe, 1, n)
           rest == SubSeq(pipe, n + 1, Len(pipe))
           buf == reader.buf
           read == Frames(buf, chunk)
<1>6. at \in Nat /\ at <= 4 * Len(events) /\ n \in Nat
  BY <1>5
<1>7. /\ chunk \in Chunks /\ Len(chunk) = n /\ IsHeard(chunk, events, at) /\ at + n <= 4 * Len(events)
      /\ IsLeft(rest, events, at + n)
  <2>1. PICK p, a : p = pipe /\ a = at
    OBVIOUS
  <2>2. PICK c, q : c = chunk /\ q = rest
    OBVIOUS
  <2>3. /\ n \in 1 .. Len(p) /\ a \in Nat /\ a <= 4 * Len(events) /\ IsLeft(p, events, a)
        /\ c = SubSeq(p, 1, n) /\ q = SubSeq(p, n + 1, Len(p))
    BY <1>5, <1>6, <2>1, <2>2
  <2>4. CutsOff(c, q, events, a, n)
    BY <2>3, ChunkOfPipe
  <2> HIDE DEF chunk, rest, at
  <2> QED
    BY <2>1, <2>2, <2>4 DEF CutsOff
<1> HIDE DEF chunk, rest, read
<1>8. HeardUpTo(events, h, at + n, read)
  <2>1. PICK c, u : c = chunk /\ u = buf
    OBVIOUS
  <2>2. /\ 4 * h + b + n <= 4 * Len(events) /\ u = PartOfFrame(events, h, b)
        /\ c \in Chunks /\ Len(c) = n /\ IsHeard(c, events, 4 * h + b)
    BY <1>5, <1>7, <2>1
  <2>3. HeardUpTo(events, h, 4 * h + b + n, Frames(u, c))
    BY <1>6, <2>2, ChunkOfFrames
  <2> QED
    BY <2>1, <2>3 DEF read
<1>9. PICK l \in Nat, d \in 0 .. 3 :
         at + n = 4 * l + d /\ h <= l /\ read.buf = PartOfFrame(events, l, d) /\ read.frames = LinesFrom(events, h, l)
  BY <1>8 DEF HeardUpTo
<1> HIDE DEF at
<1>10. l <= Len(events) /\ (d = 0 \/ l < Len(events)) /\ 4 * l + d <= 4 * Len(events)
  BY <1>4, <1>7, <1>9
<1> DEFINE r == [reader EXCEPT !.buf = read.buf]
<1>11. reader' = Folded(HearFrame, r, read.frames) /\ pipe' = rest
  BY <1>2 DEF read, chunk, rest
<1>12. Quiet(r, h) /\ r.buf = read.buf
  <2>1. PICK c : c = read.buf
    OBVIOUS
  <2>2. c \in Chunks
    BY <1>9, <1>10, <2>1, PartOfFrameType
  <2>3. r = [reader EXCEPT !.buf = c]
    BY <2>1
  <2> HIDE DEF r
  <2>4. r \in Readers /\ r.verdict = reader.verdict /\ r.meta = reader.meta /\ r.text = reader.text /\ r.buf = c
    BY <1>5, <2>2, <2>3 DEF Readers, Quiet
  <2> QED
    BY <1>5, <2>1, <2>4 DEF Quiet
<1> HIDE DEF r, read
<1>13. Heard(events, m, reader', l) /\ reader'.buf = PartOfFrame(events, l, d)
  <2>1. PICK q, frames : q = r /\ frames = read.frames
    OBVIOUS
  <2>2. Quiet(q, h) /\ frames = LinesFrom(events, h, l)
    BY <1>9, <1>12, <2>1
  <2>5. MayHear(events, m, h, l, q, frames)
    BY <1>4, <1>5, <1>9, <1>10, <2>2 DEF MayHear
  <2>6. HeardThrough(events, m, l, q, Folded(HearFrame, q, frames))
    BY <1>1, <2>5, HeardAll
  <2>3. Heard(events, m, Folded(HearFrame, q, frames), l) /\ Folded(HearFrame, q, frames).buf = q.buf
    BY <2>6 DEF HeardThrough
  <2>4. reader' = Folded(HearFrame, q, frames) /\ q.buf = PartOfFrame(events, l, d)
    BY <1>9, <1>11, <1>12, <2>1
  <2> QED
    BY <2>3, <2>4
<1>14. IsLeft(pipe', events, 4 * l + d)
  BY <1>7, <1>9, <1>11
<1>15. CASE l <= m /\ Quiet(reader', l)
  <2>1. InPipe(events, m, l, d, reader', pipe')
    BY <1>10, <1>13, <1>14, <1>15 DEF InPipe
  <2>2. Written(events, m, server', llm')
    BY <1>1, <1>3
  <2>3. reader' \in Readers /\ reader'.verdict = "none"
    BY <1>15 DEF Quiet
  <2>4. Delivers(reader', pipe', server', llm')
    BY <2>1, <2>2 DEF Delivers
  <2> QED
    BY <1>1, <2>3, <2>4 DEF ClientInv
<1>16. CASE l = m + 1 /\ l = Len(events) /\ Closed(reader', events, m)
  <2>1. server.pc = "closed"
    BY <1>3, <1>16 DEF Written, ServerInv, Handlers
  <2>2. reader' \in Readers /\ reader'.verdict # "none" /\ (reader'.verdict = "whole" => reader'.text = SaidBy(llm))
    BY <1>3, <1>16, <2>1 DEF Closed, Written
  <2> QED
    BY <1>1, <2>1, <2>2 DEF ClientInv
<1> QED
  BY <1>13, <1>15, <1>16 DEF Heard

(* What the line that Scan hands out at the end is. *)
LEMMA LastLine ==
    ASSUME NEW events \in Seq(Events), NEW h \in Nat, NEW b \in 0 .. 3, 4 * h + b <= 4 * Len(events),
           NEW buf, buf = PartOfFrame(events, h, b)
    PROVE  \/ b = 0 /\ buf = <<>>
           \/ b = 1 /\ buf # <<>> /\ EventOf(Trimmed(buf)) = "no data"
           \/ buf # <<>> /\ h < Len(events) /\ events[h + 1] \in Events /\ Trimmed(buf) = Halves(events[h + 1])
<1>1. CASE b = 0
  BY <1>1 DEF PartOfFrame
<1>2. CASE b # 0
  <2> DEFINE e == events[h + 1]
  <2>1. h < Len(events) /\ Len(events) \in Nat
    BY <1>2
  <2>2. e \in Events /\ e \in Vocabulary
    BY <2>1, FrameTokens
  <2>3. buf = IF b = 1 THEN <<<<e, 1>>>> ELSE IF b = 2 THEN Halves(e) ELSE Append(Halves(e), NL)
    BY <1>2 DEF PartOfFrame
  <2> HIDE DEF e
  <2>4. <<e, 1>> # NL /\ <<e, 2>> # NL /\ Halves(e) \in Seq(Tokens) /\ Len(Halves(e)) = 2 /\ Halves(e)[2] = <<e, 2>> /\ NL \in Tokens
    BY <2>2, TokensOfWords DEF Chunks
  <2>5. CASE b = 1
    <3> DEFINE t == <<e, 1>>
    <3>1. buf = <<t>> /\ t # NL
      BY <2>3, <2>4, <2>5
    <3> HIDE DEF t
    <3>2. buf # <<>> /\ Last(buf) = t
      BY <3>1 DEF Last
    <3>3. Trimmed(buf) = <<t>>
      BY <3>1, <3>2 DEF Trimmed
    <3> QED
      BY <2>5, <3>2, <3>3, NoEvent
  <2>6. CASE b = 2
    <3> DEFINE g == Halves(e)
    <3>3. buf = g /\ g \in Seq(Tokens) /\ Len(g) = 2 /\ g[2] = <<e, 2>>
      BY <2>3, <2>4, <2>6
    <3> HIDE DEF g
    <3>4. g # <<>> /\ Last(g) = <<e, 2>>
      <4>1. Len(g) = 2 /\ Len(<<>>) = 0
        BY <3>3
      <4>2. g # <<>>
        <5> SUFFICES ASSUME g = <<>> PROVE FALSE
          OBVIOUS
        <5>1. Len(g) = 0
          OBVIOUS
        <5> QED
          BY <4>1, <5>1
      <4>3. Last(g) = g[2]
        BY <4>1 DEF Last
      <4> QED
        BY <3>3, <4>2, <4>3
    <3>1. buf = Halves(e) /\ buf # <<>> /\ Last(buf) = <<e, 2>>
      BY <3>3, <3>4 DEF g
    <3>2. Trimmed(buf) = Halves(e)
      BY <2>4, <3>1 DEF Trimmed
    <3> QED
      BY <2>1, <2>2, <3>1, <3>2 DEF e
  <2>7. CASE b = 3
    <3> DEFINE g == Halves(e)
               x == NL
    <3>1. buf = Append(g, x) /\ g \in Seq(Tokens) /\ x \in Tokens
      BY <2>3, <2>4, <2>7
    <3> HIDE DEF g, x
    <3>2. buf # <<>> /\ Last(buf) = x /\ Front(buf) = g
      BY <3>1, FrontOfAppended
    <3>3. Trimmed(buf) = g
      BY <3>2 DEF Trimmed, x
    <3> QED
      BY <2>1, <2>2, <3>2, <3>3 DEF g, e
  <2>8. b = 1 \/ b = 2 \/ b = 3
    BY <1>2
  <2> QED
    BY <2>5, <2>6, <2>7, <2>8, Zenon
<1> QED
  BY <1>1, <1>2

(* The end of a stream that nobody has called done: only a reader that     *)
(* takes the last line as an event can still be told that all is there.    *)
LEMMA EndKeeps ==
    ASSUME ServerInv, ClientInv, StreamEnds
    PROVE  ClientInv'
<1>1. /\ client \in Streamers /\ reader.verdict = "none" /\ UNCHANGED <<vendor, client, llm, server, pipe>>
      /\ reader' \in CASE client = "browser" -> BrowserEnd(reader)
                       [] client = "typescript" -> TypeScriptEnd(reader)
                       [] client = "go" -> GoEnd(reader)
  BY DEF StreamEnds
<1>2. reader \in Readers
  BY DEF ClientInv
<1>3. ASSUME reader' \in Readers, reader'.verdict # "none",
             reader'.verdict = "whole" => server.pc = "closed" /\ reader'.text = SaidBy(llm)
      PROVE  ClientInv'
  BY <1>1, <1>3 DEF ClientInv
<1>4. ASSUME NEW v \in {"ended", "degraded", "guess", "error"}, reader' = [reader EXCEPT !.verdict = v]
      PROVE  ClientInv'
  <2>1. v \in Verdicts /\ v # "none" /\ v # "whole"
    BY <1>4 DEF Verdicts
  <2>2. reader' \in Readers /\ reader'.verdict = v
    BY <1>2, <1>4, <2>1 DEF Readers
  <2> QED
    BY <1>3, <2>1, <2>2
<1>5. CASE client = "browser"
  <2>1. \E v \in {"ended", "degraded", "guess", "error"} : reader' = [reader EXCEPT !.verdict = v]
    BY <1>1, <1>5 DEF BrowserEnd
  <2> QED
    BY <1>4, <2>1
<1>6. CASE client = "typescript"
  <2>1. reader' = [reader EXCEPT !.verdict = "ended"]
    BY <1>1, <1>6 DEF TypeScriptEnd
  <2> QED
    BY <1>4, <2>1
<1>7. CASE client = "go"
  <2>1. PICK events \in Seq(Events), m \in Nat, h \in Nat, b \in 0 .. 3 : Written(events, m, server, llm) /\ InPipe(events, m, h, b, reader, pipe)
    BY <1>1 DEF ClientInv, Delivers
  <2>2. Plan(events, m) /\ h <= m /\ Quiet(reader, h) /\ reader.buf = PartOfFrame(events, h, b) /\ 4 * h + b <= 4 * Len(events)
    BY <2>1 DEF Written, InPipe
  <2> DEFINE frame == Trimmed(reader.buf)
             last == EventOf(frame)
             heard == GoHears(reader, last)
  <2>3. reader' \in IF reader.buf = <<>> THEN {[reader EXCEPT !.verdict = "ended"]}
                    ELSE IF last = "no data" THEN {[reader EXCEPT !.verdict = v] : v \in {"ended", "error"}}
                    ELSE {IF heard.verdict = "none" THEN [heard EXCEPT !.verdict = "ended"] ELSE heard}
    BY <1>1, <1>7 DEF GoEnd
  <2> HIDE DEF frame, last, heard
  <2>4. \/ reader.buf = <<>> \/ last = "no data"
        \/ reader.buf # <<>> /\ h < Len(events) /\ events[h + 1] \in Events /\ frame = Halves(events[h + 1])
    BY <2>2, LastLine DEF frame, last
  <2>5. CASE reader.buf = <<>> \/ last = "no data"
    <3>1. \E v \in {"ended", "degraded", "guess", "error"} : reader' = [reader EXCEPT !.verdict = v]
      BY <2>3, <2>5
    <3> QED
      BY <1>4, <3>1
  <2>6. CASE reader.buf # <<>> /\ last # "no data" /\ h < Len(events) /\ events[h + 1] \in Events /\ frame = Halves(events[h + 1])
    <3>1. reader' = IF heard.verdict = "none" THEN [heard EXCEPT !.verdict = "ended"] ELSE heard
      BY <2>3, <2>6
    <3>2. heard = HearFrame(reader, frame)
      BY <1>7 DEF HearFrame, Hear, heard, last
    <3>3. Heard(events, m, heard, h + 1)
      <4>1. PICK r, f : r = reader /\ f = frame
        OBVIOUS
      <4>2. Quiet(r, h) /\ f = Halves(events[h + 1])
        BY <2>2, <2>6, <4>1
      <4>3. Heard(events, m, HearFrame(r, f), h + 1)
        BY <1>1, <2>2, <2>6, <4>2, HeardOne
      <4> QED
        BY <3>2, <4>1, <4>3
    <3>4. CASE Quiet(heard, h + 1)
      <4>1. heard \in Readers /\ reader' = [heard EXCEPT !.verdict = "ended"]
        BY <3>1, <3>4 DEF Quiet
      <4>2. reader' \in Readers /\ reader'.verdict = "ended"
        BY <4>1 DEF Readers, Verdicts
      <4> QED
        BY <1>3, <4>2
    <3>5. CASE h + 1 = m + 1 /\ h + 1 = Len(events) /\ Closed(heard, events, m)
      <4>1. reader' = heard /\ heard \in Readers /\ heard.verdict # "none"
        BY <3>1, <3>5 DEF Closed
      <4>2. server.pc = "closed"
        BY <2>1, <3>5 DEF Written, ServerInv, Handlers
      <4>3. heard.verdict = "whole" => heard.text = SaidBy(llm)
        BY <2>1, <3>5, <4>2 DEF Closed, Written
      <4> QED
        BY <1>3, <4>1, <4>2, <4>3
    <3> QED
      BY <3>3, <3>4, <3>5 DEF Heard
  <2> QED
    BY <2>4, <2>5, <2>6
<1> QED
  BY <1>1, <1>5, <1>6, <1>7 DEF Streamers

LEMMA LeaveKeeps ==
    ASSUME ServerInv, ClientInv, Cut \/ Leaves
    PROVE  ClientInv'
<1>1. /\ reader.verdict = "none" /\ gone' = TRUE /\ UNCHANGED <<vendor, client, llm, server, pipe>> /\ reader \in Readers
      /\ \E v \in {"null", "error", "left"}, t \in {<<>>, reader.text} : reader' = [reader EXCEPT !.verdict = v, !.text = t]
  <2>1. reader \in Readers /\ reader.verdict = "none" /\ gone' = TRUE /\ UNCHANGED <<vendor, client, llm, server, pipe>>
    BY DEF Cut, Leaves, ClientInv
  <2>2. CASE Cut
    BY <2>1, <2>2 DEF Cut
  <2>3. CASE Leaves
    <3>1. reader' = [reader EXCEPT !.verdict = "left"]
      BY <2>3 DEF Leaves
    <3>2. [reader EXCEPT !.verdict = "left"] = [reader EXCEPT !.verdict = "left", !.text = reader.text]
      BY <2>1 DEF Readers
    <3> QED
      BY <2>1, <3>1, <3>2
  <2> QED
    BY <2>1, <2>2, <2>3
<1>2. PICK v \in {"null", "error", "left"}, t \in {<<>>, reader.text} : reader' = [reader EXCEPT !.verdict = v, !.text = t]
  BY <1>1
<1>3. v \in Verdicts /\ v # "none" /\ v # "whole" /\ t \in Seq(ToSet(Deltas))
  <2>1. v \in Verdicts /\ v # "none" /\ v # "whole"
    BY DEF Verdicts
  <2>2. reader \in Readers
    BY <1>1
  <2>3. reader.text \in Seq(ToSet(Deltas)) /\ <<>> \in Seq(ToSet(Deltas))
    BY <2>2 DEF Readers
  <2> QED
    BY <2>1, <2>3
<1>4. reader' \in Readers /\ reader'.verdict = v
  BY <1>1, <1>2, <1>3 DEF Readers
<1> QED
  BY <1>1, <1>3, <1>4 DEF ClientInv

(* The plain calls.  *)
LEMMA PlainKeeps ==
    ASSUME ServerInv, ClientInv, Executes \/ Returns
    PROVE  ClientInv'
<1>1. client \in PlainClients /\ client' = client /\ gone' = gone /\ client \notin Streamers
  BY DEF Executes, Returns, PlainClients, Streamers
<1>2. CASE Executes
  <2>1. reader' = reader
    BY <1>2 DEF Executes
  <2> QED
    BY <1>1, <2>1 DEF ClientInv
<1>3. CASE Returns
  <2>1. reader.verdict = "none" /\ reader \in Readers /\ ~gone /\ server.answer \in Seq(ToSet(Deltas))
    <3>1. server.answer \in Begun
      BY DEF ServerInv, Handlers
    <3>2. \A k \in 0 .. Len(Deltas) : Upto(k) \in Seq(ToSet(Deltas))
      BY Beginnings
    <3>3. gone \in BOOLEAN
      BY DEF ServerInv
    <3> QED
      BY <1>3, <3>1, <3>2, <3>3 DEF Returns, ClientInv, Begun
  <2> DEFINE code == Head(pipe)
             v == CASE client = "tsExecute" -> RequestJson(code)
                    [] client = "goExecute" -> DecodeJSONResponse(code)
                    [] client = "python" -> PythonQuery(code)
  <2>2. reader' = [reader EXCEPT !.text = server.answer, !.verdict = v]
    BY <1>3 DEF Returns
  <2> HIDE DEF code
  <2>3. v \in Verdicts
    BY <1>1 DEF PlainClients, RequestJson, DecodeJSONResponse, PythonQuery, TypeScriptError, GoError, PythonError, Verdicts
  <2> HIDE DEF v
  <2>4. reader' \in Readers
    BY <2>1, <2>2, <2>3 DEF Readers
  <2> QED
    BY <1>1, <2>1, <2>4 DEF ClientInv
<1> QED
  BY <1>2, <1>3

LEMMA ClientNext ==
    ASSUME ServerInv, ServerInv', ClientInv, [AnswerNext]_answerVars
    PROVE  ClientInv'
<1>1. CASE UNCHANGED answerVars
  BY <1>1 DEF answerVars, ClientInv
<1>2. CASE Speaks \/ Ends \/ ReportsError \/ Breaks \/ Synthesized
  <2>1. /\ server.pc = "synth" /\ server'.pc \in {"synth", "log"} /\ server'.answer = server.answer
        /\ UNCHANGED <<client, pipe, reader, gone>>
    BY <1>2 DEF Speaks, Ends, ReportsError, Breaks, Synthesized, ServerInv, Handlers
  <2> QED
    BY <2>1, SilentKeeps
<1> QED
  BY <1>1, <1>2, MetaKeeps, DeltaKeeps, FinalKeeps, ChunkKeeps, EndKeeps, LeaveKeeps, PlainKeeps DEF AnswerNext

LEMMA ClientStarts == AnswerInit => ClientInv
<1> SUFFICES ASSUME AnswerInit PROVE ClientInv
  OBVIOUS
<1>1. /\ server = [pc |-> "asked", answer |-> <<>>, degraded |-> FALSE] /\ pipe = <<>> /\ gone = FALSE
      /\ reader = [verdict |-> "none", meta |-> FALSE, buf |-> <<>>, text |-> <<>>]
  BY DEF AnswerInit
<1>2. reader \in Readers /\ reader.verdict = "none" /\ reader.buf = <<>>
  BY <1>1 DEF Readers, Verdicts, Chunks
<1>3. <<>> \in Seq(Events) /\ Len(<<>>) = 0 /\ Plan(<<>>, 0)
  <2>1. Len(Deltas) \in Nat
    BY DeltasKnown
  <2> QED
    BY <2>1 DEF Plan
<1>4. Written(<<>>, 0, server, llm)
  BY <1>1, <1>3 DEF Written
<1>5. InPipe(<<>>, 0, 0, 0, reader, pipe)
  <2>1. IsLeft(pipe, <<>>, 4 * 0 + 0)
    BY <1>1, <1>3 DEF IsLeft, Chunks
  <2>2. Quiet(reader, 0)
    BY <1>1, <1>2 DEF Quiet, TextOf
  <2> QED
    BY <1>2, <1>3, <2>1, <2>2 DEF InPipe, PartOfFrame
<1>6. Delivers(reader, pipe, server, llm)
  <2>1. PICK events, n : events = <<>> /\ n = 0
    OBVIOUS
  <2>2. events \in Seq(Events) /\ n \in Nat /\ n \in 0 .. 3 /\ Written(events, n, server, llm) /\ InPipe(events, n, n, n, reader, pipe)
    BY <1>3, <1>4, <1>5, <2>1
  <2> QED
    BY <2>2 DEF Delivers
<1> QED
  BY <1>1, <1>2, <1>6 DEF ClientInv

LEMMA ClientTold == ASSUME ClientInv PROVE ToldWholeIsWhole
  BY DEF ClientInv, ToldWholeIsWhole, Said, SaidBy

(* What the generator and the client may be told of the answer             *)
(* (query.service.ts, useQueryStream.ts and the SDKs): a text that its     *)
(* client is told to be whole is all that the provider has sent, for every *)
(* text, vendor and client, and wherever both streams are cut.             *)
THEOREM ToldWholeCorrect == AnswerSpec => []ToldWholeIsWhole
<1>1. AnswerInit => ServerInv /\ ClientInv
  BY ServerStarts, ClientStarts
<1>2. ServerInv /\ ClientInv /\ [AnswerNext]_answerVars => (ServerInv /\ ClientInv)'
  <2> SUFFICES ASSUME ServerInv, ClientInv, [AnswerNext]_answerVars PROVE ServerInv' /\ ClientInv'
    OBVIOUS
  <2>1. ServerInv'
    BY ServerNext
  <2> QED
    BY <2>1, ClientNext
<1>3. ServerInv /\ ClientInv => ToldWholeIsWhole
  BY ClientTold
<1> QED
  BY <1>1, <1>2, <1>3, PTL DEF AnswerSpec

LEMMA AnswerTypes == ASSUME ServerInv, ClientInv PROVE AnswerTypeOK
<1>1. llm \in Streams /\ llm.at <= 3 * Len(Words) /\ server \in Handlers /\ reader \in Readers /\ gone \in BOOLEAN
  BY DEF ServerInv, ClientInv
<1>2. llm.pc \in {"off", "open", "eof", "failed"} /\ llm.at \in Nat
  BY <1>1 DEF Streams
<1>3. Words \in Seq(Vocabulary)
  BY WordsKnown
<1>4. llm.at \in 0 .. Len(Script)
  <2>1. Len(Script) = 3 * Len(Words)
    BY <1>3, LinesType DEF Script
  <2>2. Len(Words) \in Nat
    BY <1>3
  <2> HIDE DEF Words, Script
  <2> QED
    BY <1>1, <1>2, <2>1, <2>2
<1>5. server.pc \in {"asked", "synth", "log", "closed"} /\ server.answer \in Begun /\ server.degraded \in BOOLEAN
  BY <1>1 DEF Handlers
<1>6. server.answer \in Prefixes(Deltas)
  <2>1. PICK k \in 0 .. Len(Deltas) : server.answer = Upto(k)
    BY <1>5 DEF Begun
  <2> QED
    BY <2>1, Beginnings
<1>7. reader.verdict \in Verdicts /\ reader.text \in Seq(ToSet(Deltas)) /\ reader.meta \in BOOLEAN
  BY <1>1 DEF Readers
<1>8. ToSet(reader.text) \subseteq ToSet(Deltas)
  <2> DEFINE D == ToSet(Deltas)
             text == reader.text
  <2>1. text \in Seq(D)
    BY <1>7
  <2> HIDE DEF D, text
  <2>2. ToSet(text) \subseteq D
    BY <2>1 DEF ToSet
  <2> QED
    BY <2>2 DEF D, text
<1> QED
  BY <1>1, <1>2, <1>4, <1>5, <1>6, <1>7, <1>8 DEF AnswerTypeOK

---------------------------------------------------------------------------
(* Types.  What the actions of a part write has its type only because of   *)
(* what the other invariants say of it.  The cache of embeddings has each  *)
(* question once and never more than its size.                             *)
CacheOK(questions) == questions \in Seq(Texts) /\ IsInjective(questions) /\ Len(questions) <= CacheSize
CacheInv == CacheOK(memo) /\ expired \subseteq ToSet(memo)

RetrievalInv ==
    /\ FallbackInv /\ CacheInv
    /\ embedder \in Embedders /\ envKey \in BOOLEAN /\ centroids \in BOOLEAN /\ payer \in BOOLEAN
    /\ blamed \subseteq Askers
    /\ \A a \in Askers : ask[a].pc = "embedding" => ask[a].text \in Texts

(* A question becomes the newest of the cache.                             *)
LEMMA Newest ==
    ASSUME NEW s \in Seq(Texts), IsInjective(s), NEW t \in Texts, t \notin ToSet(s), NEW r, r = Append(s, t)
    PROVE  r \in Seq(Texts) /\ IsInjective(r) /\ Len(r) = Len(s) + 1 /\ ToSet(r) = ToSet(s) \cup {t}
<1>1. /\ r \in Seq(Texts) /\ Len(r) = Len(s) + 1 /\ Len(s) \in Nat
      /\ \A i \in 1 .. Len(s) : r[i] = s[i]
      /\ r[Len(s) + 1] = t /\ DOMAIN r = 1 .. Len(s) + 1 /\ DOMAIN s = 1 .. Len(s)
  OBVIOUS
<1>2. \A i \in 1 .. Len(s) : s[i] # t
  BY <1>1 DEF ToSet
<1>3. IsInjective(r)
  <2> SUFFICES ASSUME NEW i \in 1 .. Len(s) + 1, NEW j \in 1 .. Len(s) + 1, r[i] = r[j] PROVE i = j
    BY <1>1 DEF IsInjective
  <2>1. CASE i \in 1 .. Len(s) /\ j \in 1 .. Len(s)
    BY <1>1, <2>1 DEF IsInjective
  <2>2. CASE i = Len(s) + 1 /\ j = Len(s) + 1
    BY <2>2
  <2>3. CASE i \in 1 .. Len(s) /\ j = Len(s) + 1
    BY <1>1, <1>2, <2>3
  <2>4. CASE j \in 1 .. Len(s) /\ i = Len(s) + 1
    BY <1>1, <1>2, <2>4
  <2> QED
    BY <1>1, <2>1, <2>2, <2>3, <2>4
<1>4. ToSet(r) = ToSet(s) \cup {t}
  <2>1. ASSUME NEW x \in ToSet(r) PROVE x \in ToSet(s) \cup {t}
    <3>1. PICK i \in 1 .. Len(s) + 1 : x = r[i]
      BY <1>1 DEF ToSet
    <3>2. CASE i \in 1 .. Len(s)
      BY <1>1, <3>1, <3>2 DEF ToSet
    <3>3. CASE i = Len(s) + 1
      BY <1>1, <3>1, <3>3
    <3> QED
      BY <1>1, <3>2, <3>3
  <2>2. ASSUME NEW x \in ToSet(s) PROVE x \in ToSet(r)
    <3>1. PICK i \in 1 .. Len(s) : x = s[i]
      BY <1>1 DEF ToSet
    <3>2. i \in 1 .. Len(s) + 1 /\ r[i] = x
      BY <1>1, <3>1
    <3> QED
      BY <1>1, <3>2 DEF ToSet
  <2>3. t \in ToSet(r)
    <3>1. Len(s) + 1 \in 1 .. Len(s) + 1
      BY <1>1
    <3> QED
      BY <1>1, <3>1 DEF ToSet
  <2> QED
    BY <2>1, <2>2, <2>3
<1> QED
  BY <1>1, <1>3, <1>4

(* LRUCache.get. *)
LEMMA GetKeeps == ASSUME CacheInv, NEW t \in Texts, CacheGet(t) PROVE CacheInv'
<1>1. memo \in Seq(Texts) /\ IsInjective(memo) /\ Len(memo) <= CacheSize /\ expired \subseteq ToSet(memo) /\ CacheSize \in Nat
  BY RetrievalAssumption DEF CacheInv, CacheOK
<1>2. PICK rest : rest = Without(memo, {t})
  OBVIOUS
<1>3. /\ rest \in Seq(Texts) /\ ToSet(rest) = ToSet(memo) \ {t} /\ Len(rest) <= Len(memo)
      /\ ToSet(memo) \cap {t} = {} \/ Len(rest) < Len(memo)
      /\ IsInjective(rest)
  BY <1>1, <1>2, WithoutProperties
<1>4. Len(rest) \in Nat /\ Len(memo) \in Nat
  BY <1>1, <1>3
<1>5. CASE t \in expired
  <2>1. memo' = rest /\ expired' = expired \ {t}
    BY <1>2, <1>5 DEF CacheGet
  <2>2. Len(rest) <= CacheSize
    BY <1>1, <1>3, <1>4
  <2> QED
    BY <1>1, <1>3, <2>1, <2>2 DEF CacheInv, CacheOK
<1>6. CASE t \notin expired /\ t \in ToSet(memo)
  <2>1. memo' = Append(rest, t) /\ expired' = expired
    BY <1>2, <1>6 DEF CacheGet
  <2>2. t \notin ToSet(rest) /\ Len(rest) < Len(memo)
    BY <1>3, <1>6
  <2>3. memo' \in Seq(Texts) /\ IsInjective(memo') /\ Len(memo') = Len(rest) + 1 /\ ToSet(memo') = ToSet(rest) \cup {t}
    BY <1>3, <2>1, <2>2, Newest
  <2>4. Len(memo') <= CacheSize
    BY <1>1, <1>4, <2>2, <2>3
  <2>5. expired' \subseteq ToSet(memo')
    BY <1>1, <1>3, <2>1, <2>3
  <2> QED
    BY <2>3, <2>4, <2>5 DEF CacheInv, CacheOK
<1>7. CASE t \notin expired /\ t \notin ToSet(memo)
  BY <1>7 DEF CacheGet, CacheInv, CacheOK
<1> QED
  BY <1>5, <1>6, <1>7

(* LRUCache.set. *)
LEMMA SetKeeps == ASSUME CacheInv, NEW t \in Texts, CacheSet(t) PROVE CacheInv'
<1>1. memo \in Seq(Texts) /\ IsInjective(memo) /\ Len(memo) <= CacheSize /\ expired \subseteq ToSet(memo)
      /\ CacheSize \in Nat /\ Len(memo) \in Nat
  BY RetrievalAssumption DEF CacheInv, CacheOK
<1>2. CASE CacheSize = 0
  BY <1>2 DEF CacheSet, CacheInv, CacheOK
<1>3. CASE CacheSize # 0
  <2>1. PICK rest : rest = Evicted(t)
    OBVIOUS
  <2>2. rest \in Seq(Texts) /\ IsInjective(rest) /\ t \notin ToSet(rest) /\ Len(rest) + 1 <= CacheSize
    <3>1. CASE t \notin ToSet(memo) /\ Len(memo) >= CacheSize
      <4>1. rest = Tail(memo)
        BY <2>1, <3>1 DEF Evicted
      <4>2. memo # <<>>
        BY <1>1, <1>3, <3>1
      <4>3. /\ rest \in Seq(Texts) /\ Len(rest) = Len(memo) - 1 /\ DOMAIN memo = 1 .. Len(memo)
            /\ DOMAIN rest = 1 .. Len(memo) - 1 /\ \A i \in 1 .. Len(memo) - 1 : rest[i] = memo[i + 1]
        BY <1>1, <4>1, <4>2
      <4>4. IsInjective(rest)
        <5> SUFFICES ASSUME NEW i \in 1 .. Len(memo) - 1, NEW j \in 1 .. Len(memo) - 1, rest[i] = rest[j] PROVE i = j
          BY <4>3 DEF IsInjective
        <5>1. i + 1 \in DOMAIN memo /\ j + 1 \in DOMAIN memo /\ memo[i + 1] = memo[j + 1]
          BY <1>1, <4>3
        <5>2. i + 1 = j + 1
          BY <1>1, <5>1 DEF IsInjective
        <5> QED
          BY <1>1, <5>2
      <4>5. t \notin ToSet(rest)
        <5> SUFFICES ASSUME NEW i \in 1 .. Len(memo) - 1, rest[i] = t PROVE FALSE
          BY <4>3 DEF ToSet
        <5>1. i + 1 \in DOMAIN memo /\ memo[i + 1] = t
          BY <1>1, <4>3
        <5> QED
          BY <3>1, <5>1 DEF ToSet
      <4>6. Len(rest) + 1 <= CacheSize
        BY <1>1, <4>3
      <4> QED
        BY <4>3, <4>4, <4>5, <4>6
    <3>2. CASE ~(t \notin ToSet(memo) /\ Len(memo) >= CacheSize)
      <4>1. rest = Without(memo, {t})
        BY <2>1, <3>2 DEF Evicted
      <4>2. /\ rest \in Seq(Texts) /\ ToSet(rest) = ToSet(memo) \ {t} /\ Len(rest) <= Len(memo)
            /\ ToSet(memo) \cap {t} = {} \/ Len(rest) < Len(memo)
            /\ IsInjective(rest)
        BY <1>1, <4>1, WithoutProperties
      <4>3. t \in ToSet(memo) => Len(rest) < Len(memo)
        BY <4>2
      <4>4. Len(rest) + 1 <= CacheSize
        <5>1. Len(rest) \in Nat
          BY <4>2
        <5>2. CASE t \in ToSet(memo)
          BY <1>1, <4>3, <5>1, <5>2
        <5>3. CASE t \notin ToSet(memo)
          BY <1>1, <3>2, <4>2, <5>1, <5>3
        <5> QED
          BY <5>2, <5>3
      <4> QED
        BY <4>2, <4>4
    <3> QED
      BY <3>1, <3>2
  <2>3. memo' = Append(rest, t) /\ expired' = (expired \cap ToSet(rest)) \ {t}
    BY <1>3, <2>1 DEF CacheSet
  <2>4. memo' \in Seq(Texts) /\ IsInjective(memo') /\ Len(memo') = Len(rest) + 1 /\ ToSet(memo') = ToSet(rest) \cup {t}
    BY <2>2, <2>3, Newest
  <2> QED
    BY <2>2, <2>3, <2>4 DEF CacheInv, CacheOK
<1> QED
  BY <1>2, <1>3

(* A query becomes the record x, which asks for a text if for anything. *)
LEMMA AsksForText ==
    ASSUME FallbackInv, \A b \in Askers : ask[b].pc = "embedding" => ask[b].text \in Texts,
           NEW a \in Askers, NEW x, Turns(a, x), x.pc = "embedding" => x.text \in Texts
    PROVE  \A b \in Askers : ask'[b].pc = "embedding" => ask'[b].text \in Texts
<1>1. ask' = [ask EXCEPT ![a] = x] /\ ask \in [Askers -> Question]
  BY DEF Turns, FallbackInv
<1>2. ask'[a] = x /\ \A b \in Askers \ {a} : ask'[b] = ask[b]
  BY <1>1
<1> QED
  BY <1>2

LEMMA ReachesSome == ASSUME NEW own \in BOOLEAN, embedder \in Embedders, envKey \in BOOLEAN
                     PROVE  EmbedBatch(own) \subseteq BOOLEAN
<1>1. embedder \in {"openai", "openrouter", "cohere", "gemini", "ollama", "bedrock"}
  BY RetrievalAssumption
<1>2. (own \/ envKey) \in BOOLEAN
  OBVIOUS
<1> QED
  BY <1>1, <1>2 DEF EmbedBatch, EmbedOpenAI, EmbedOpenRouter, EmbedCohere, EmbedGemini, EmbedOllama, EmbedBedrock

LEMMA RetrievalStarts == RetrievalInit => RetrievalInv
<1> SUFFICES ASSUME RetrievalInit PROVE RetrievalInv
  OBVIOUS
<1>1. FallbackInv
  BY FallbackInductive
<1>2. CacheInv
  <2>1. memo = <<>> /\ expired = {} /\ CacheSize \in Nat
    BY RetrievalAssumption DEF RetrievalInit
  <2>2. IsInjective(memo)
    BY <2>1 DEF IsInjective
  <2> QED
    BY <2>1, <2>2 DEF CacheInv, CacheOK
<1>3. \A a \in Askers : ask[a].pc = "idle"
  BY DEF RetrievalInit, NoQuestion
<1> QED
  BY <1>1, <1>2, <1>3 DEF RetrievalInit, RetrievalInv

LEMMA RetrievalTypeNext == RetrievalInv /\ [RetrievalNext]_retrievalVars => RetrievalInv'
<1> SUFFICES ASSUME RetrievalInv, [RetrievalNext]_retrievalVars PROVE RetrievalInv'
  OBVIOUS
<1> DEFINE Texted == \A a \in Askers : ask[a].pc = "embedding" => ask[a].text \in Texts
           Plain == /\ embedder \in Embedders /\ envKey \in BOOLEAN /\ centroids \in BOOLEAN /\ payer \in BOOLEAN
                    /\ blamed \subseteq Askers
<1>1. FallbackInv /\ CacheInv /\ Plain /\ Texted /\ ask \in [Askers -> Question]
  BY DEF RetrievalInv, FallbackInv
<1>2. FallbackInv'
  BY <1>1, FallbackInductive
<1>3. SUFFICES CacheInv' /\ Plain' /\ Texted'
  BY <1>2 DEF RetrievalInv
<1>4. \A a \in Askers : ask[a] \in Question /\ ask[a].own \in BOOLEAN
  BY <1>1 DEF Question
<1>5. CASE UNCHANGED retrievalVars
  BY <1>1, <1>5 DEF retrievalVars, CacheInv, CacheOK
<1>6. ASSUME NEW t \in Texts, Expire(t) PROVE CacheInv' /\ Plain' /\ Texted'
  BY <1>1, <1>6 DEF Expire, CacheInv, CacheOK
<1>7. ASSUME NEW a \in Askers, NEW t \in Texts, NEW own \in BOOLEAN, EmbedSingle(a, t, own)
      PROVE  CacheInv' /\ Plain' /\ Texted'
  <2>1. CacheInv' /\ Plain'
    BY <1>1, <1>7, GetKeeps DEF EmbedSingle
  <2>2. PICK x : /\ Turns(a, x)
                 /\ \/ x = [NoQuestion EXCEPT !.pc = "embedded", !.own = own]
                    \/ x = [NoQuestion EXCEPT !.pc = "embedding", !.own = own, !.text = t]
    BY <1>7 DEF EmbedSingle
  <2>3. x.pc = "embedding" => x.text \in Texts
    BY <2>2 DEF NoQuestion
  <2> QED
    BY <1>1, <2>1, <2>2, <2>3, AsksForText
<1>8. ASSUME NEW a \in Askers, Embedded(a) PROVE CacheInv' /\ Plain' /\ Texted'
  <2>1. Plain' /\ ask[a].text \in Texts
    BY <1>1, <1>8 DEF Embedded
  <2>2. CacheInv'
    <3>1. CacheSet(ask[a].text) \/ UNCHANGED <<memo, expired>>
      BY <1>8 DEF Embedded
    <3>2. CASE UNCHANGED <<memo, expired>>
      BY <1>1, <3>2 DEF CacheInv, CacheOK
    <3> QED
      BY <1>1, <2>1, <3>1, <3>2, SetKeeps
  <2>3. PICK x : Turns(a, x) /\ (x = NoQuestion \/ x = [ask[a] EXCEPT !.pc = "embedded", !.text = "none"])
    BY <1>8 DEF Embedded
  <2>4. x.pc # "embedding"
    <3>1. CASE x = NoQuestion
      BY <3>1 DEF NoQuestion
    <3>2. CASE x = [ask[a] EXCEPT !.pc = "embedded", !.text = "none"]
      <4>1. ask[a] \in Question
        BY <1>4
      <4>2. x.pc = "embedded"
        BY <3>2, <4>1 DEF Question
      <4> QED
        BY <4>2
    <3> QED
      BY <2>3, <3>1, <3>2
  <2> QED
    BY <1>1, <2>1, <2>2, <2>3, <2>4, AsksForText
<1>9. ASSUME NEW a \in Askers,
             ForcedStrategy(a) \/ KeywordsDecide(a) \/ EnsureCentroids(a) \/ Route(a)
             \/ SimilaritySearch(a) \/ TraversalSearch(a, Rows)
      PROVE  CacheInv' /\ Plain' /\ Texted'
  <2>1. UNCHANGED <<memo, expired>>
    BY <1>9 DEF ForcedStrategy, KeywordsDecide, EnsureCentroids, Route, SimilaritySearch, TraversalSearch
  <2>2. CacheInv'
    BY <1>1, <2>1 DEF CacheInv, CacheOK
  <2>3. Plain'
    BY <1>1, <1>4, <1>9 DEF ForcedStrategy, KeywordsDecide, EnsureCentroids, Route, SimilaritySearch, TraversalSearch
  <2>4. PICK x : Turns(a, x) /\ x.pc # "embedding"
    <3>1. \A k, sure, s : Routed(a, k, sure, s).pc = "routed"
      BY <1>4 DEF Routed, Question
    <3>2. \A pc : [ask[a] EXCEPT !.pc = pc].pc = pc
      BY <1>4 DEF Question
    <3>3. [NoQuestion EXCEPT !.pc = Needs(ask[a].strategy), !.strategy = ask[a].strategy].pc \in {"graph", "vector"}
      BY DEF NoQuestion, Needs
    <3>4. NoQuestion.pc # "embedding"
      BY DEF NoQuestion
    <3>5. CASE ForcedStrategy(a) \/ KeywordsDecide(a)
      BY <3>1, <3>5 DEF ForcedStrategy, KeywordsDecide
    <3>6. CASE EnsureCentroids(a)
      BY <3>1, <3>2, <3>6 DEF EnsureCentroids, Fallback
    <3>7. CASE Route(a)
      BY <3>3, <3>7 DEF Route
    <3>8. CASE SimilaritySearch(a) \/ TraversalSearch(a, Rows)
      BY <3>2, <3>4, <3>8 DEF SimilaritySearch, TraversalSearch
    <3> QED
      BY <1>9, <3>5, <3>6, <3>7, <3>8
  <2> QED
    BY <1>1, <2>2, <2>3, <2>4, AsksForText
<1>10. CASE WarmUpEnds
  <2>1. PICK ok \in EmbedBatch(payer), nearest \in [Askers -> Strategies] :
          /\ centroids' = ok
          /\ ask' = [a \in Askers |-> IF ask[a].pc # "waiting" THEN ask[a]
                                      ELSE IF ok THEN Routed(a, "embedding_centroid", FALSE, nearest[a])
                                      ELSE Fallback(a)]
          /\ payer' = FALSE
          /\ blamed' = IF ok THEN blamed ELSE blamed \cup {a \in Askers : ask[a].pc = "waiting"}
    BY <1>10 DEF WarmUpEnds, NearestCentroid
  <2>2. UNCHANGED <<embedder, envKey, memo, expired>>
    BY <1>10 DEF WarmUpEnds
  <2>3. ok \in BOOLEAN
    BY <1>1, ReachesSome
  <2>4. CacheInv' /\ Plain'
    BY <1>1, <2>1, <2>2, <2>3 DEF CacheInv, CacheOK
  <2>5. ASSUME NEW a \in Askers, ask'[a].pc = "embedding" PROVE ask'[a].text \in Texts
    <3>1. \A k, sure, s : Routed(a, k, sure, s).pc = "routed"
      BY <1>4 DEF Routed, Question
    <3>2. ask[a].pc # "waiting"
      BY <2>1, <2>5, <3>1 DEF Fallback
    <3> QED
      BY <1>1, <2>1, <2>5, <3>2
  <2> QED
    BY <2>4, <2>5
<1> QED
  BY <1>5, <1>6, <1>7, <1>8, <1>9, <1>10 DEF RetrievalNext, PipelineNext

LEMMA RetrievalTypes == ASSUME RetrievalInv PROVE RetrievalTypeOK
<1>1. IsInjective(memo) /\ Len(memo) <= CacheSize /\ expired \subseteq ToSet(memo) /\ memo \in Seq(Texts)
  BY DEF RetrievalInv, CacheInv, CacheOK
<1>2. ToSet(memo) \subseteq Texts
  BY <1>1 DEF ToSet
<1>3. ask \in [Askers -> Question] /\ warming \in {"none", "running", "rejected"}
  BY DEF RetrievalInv, FallbackInv
<1> QED
  BY <1>1, <1>2, <1>3 DEF RetrievalInv, RetrievalTypeOK, Question

(* What the page of the credential keeps: a list that is on display is one *)
(* of the catalog's, and what is about to be stored is in one of them.     *)
Choice == [provider : Providers, model : Models \cup {NoModel}, by : {"nobody", "default", "user", "row"}]
Asked == [pc : {"none", "asked", "failed", "loaded"}, got : Lists \cup {<<>>}]
Knowledge == [row : Stored \cup {Unread}, pc : {"idle", "asked", "read"}, got : Stored \cup {Unread}, again : BOOLEAN]
Saves == [pc : {"idle", "sent", "testing", "done", "refused"}, provider : Providers, model : Models \cup {NoModel}]

PageTypes == lists \in [Providers -> Asked] /\ shown \in Lists \cup {<<>>} /\ choice \in Choice
KnownTypes == known \in Knowledge /\ (known.pc = "read" => known.got \in Stored)
SaveTypes == save \in Saves /\ (save.pc = "testing" => save.model \in Models)
CredentialsInv ==
    /\ PageTypes /\ KnownTypes /\ SaveTypes
    /\ catalog \in {"none", "fresh", "old"} /\ stored \in Stored
    /\ removing \in {"idle", "sent", "done", "refused"} /\ danger \in {"closed", "deleting", "out"}

LEMMA ListsKnown ==
    /\ \A s \in Lists : s # <<>> /\ ToSet(s) \subseteq Models /\ Head(s) \in Models
    /\ ToSet(<<>>) = {} /\ Head(LiveModels) \in Models
    /\ FixedModels \in Lists /\ LiveModels \in Lists /\ FallbackModels \in Lists
<1>1. ASSUME NEW s \in Lists PROVE s # <<>> /\ ToSet(s) \subseteq Models /\ Head(s) \in Models
  <2>1. s \in Seq(STRING) /\ Len(s) > 0
    BY CredentialsAssumption DEF Lists
  <2>2. ToSet(s) \subseteq Models
    BY DEF Lists, Models
  <2>3. s # <<>> /\ Head(s) = s[1] /\ 1 \in DOMAIN s
    BY <2>1
  <2>4. Head(s) \in ToSet(s)
    BY <2>3 DEF ToSet
  <2> QED
    BY <2>2, <2>3, <2>4
<1>2. ToSet(<<>>) = {}
  BY DEF ToSet
<1>3. FixedModels \in Lists /\ LiveModels \in Lists /\ FallbackModels \in Lists
  BY DEF Lists
<1> QED
  BY <1>1, <1>2, <1>3

(* A render shows a list of the catalog and chooses from it. *)
LEMMA RenderKeeps ==
    ASSUME PageTypes, NEW c \in Choice, NEW ls \in [Providers -> Asked], Render(c, ls)
    PROVE  PageTypes'
<1>1. c.provider \in Providers /\ ls[c.provider] \in Asked
  BY DEF Choice
<1>2. lists' \in [Providers -> Asked]
  <2>1. lists' = Wanted(c.provider, ls)
    BY DEF Render
  <2>2. ASSUME NEW x, x = [ls[c.provider] EXCEPT !.pc = "asked"] PROVE x \in Asked
    BY <1>1, <2>2 DEF Asked
  <2>3. [ls EXCEPT ![c.provider].pc = "asked"] \in [Providers -> Asked]
    BY <1>1, <2>2
  <2> QED
    BY <2>1, <2>3 DEF Wanted
<1>3. PICK data : data = Data(c.provider, ls)
  OBVIOUS
<1>4. data \in Lists \cup {<<>>}
  BY <1>1, <1>3 DEF Data, PageTypes, Asked
<1>5. shown' = data /\ choice' = Default(c, data)
  BY <1>3 DEF Render
<1>6. choice' \in Choice
  <2>1. CASE c.model = NoModel /\ data # <<>>
    <3>1. choice' = [c EXCEPT !.model = Head(data), !.by = "default"]
      BY <1>5, <2>1 DEF Default
    <3>2. Head(data) \in Models
      BY <1>4, <2>1, ListsKnown
    <3> HIDE DEF Models, Providers
    <3> QED
      BY <3>1, <3>2 DEF Choice
  <2>2. CASE ~(c.model = NoModel /\ data # <<>>)
    BY <1>5, <2>2 DEF Default
  <2> QED
    BY <2>1, <2>2
<1> QED
  BY <1>2, <1>4, <1>5, <1>6 DEF PageTypes

LEMMA KnowledgeGoesOn ==
    ASSUME KnownTypes, NEW k, k = Again(known) \/ k = Over(known) \/ k = Over([known EXCEPT !.row = known.got])
    PROVE  k \in Knowledge /\ (k.pc = "read" => k.got \in Stored)
<1>1. known \in Knowledge /\ (known.pc = "read" => known.got \in Stored)
  BY DEF KnownTypes
<1>2. ASSUME NEW r \in Knowledge PROVE Over(r) \in Knowledge /\ Over(r).pc \in {"asked", "idle"}
  BY DEF Over, Knowledge
<1>3. [known EXCEPT !.row = known.got] \in Knowledge
  BY <1>1 DEF Knowledge
<1>4. CASE k = Again(known)
  <2>1. CASE known.pc = "idle"
    <3>1. k = [known EXCEPT !.pc = "asked"]
      BY <1>4, <2>1 DEF Again
    <3> QED
      BY <1>1, <3>1 DEF Knowledge
  <2>2. CASE known.pc # "idle"
    <3>1. k = [known EXCEPT !.again = TRUE]
      BY <1>4, <2>2 DEF Again
    <3> QED
      BY <1>1, <3>1 DEF Knowledge
  <2> QED
    BY <2>1, <2>2
<1> QED
  BY <1>1, <1>2, <1>3, <1>4

LEMMA CredentialsStarts == CredentialsInit => CredentialsInv
<1> SUFFICES ASSUME CredentialsInit PROVE CredentialsInv
  OBVIOUS
<1>1. /\ FixedProvider \in Providers /\ OpenRouter \in Providers /\ <<>> \in Lists \cup {<<>>}
      /\ NoCredential \in Stored /\ Unread \in Stored \cup {Unread}
  BY DEF Providers, Stored
<1>2. stored \in Stored
  BY <1>1, ListsKnown DEF CredentialsInit, Stored
<1>3. PageTypes
  <2>1. NoRequest \in Asked /\ [NoRequest EXCEPT !.pc = "asked"] \in Asked
    BY DEF NoRequest, Asked
  <2>2. lists \in [Providers -> Asked]
    BY <2>1 DEF CredentialsInit
  <2> QED
    BY <1>1, <2>2 DEF CredentialsInit, PageTypes, Choice
<1>4. KnownTypes
  BY <1>1 DEF CredentialsInit, KnownTypes, Knowledge
<1>5. SaveTypes
  BY <1>1 DEF CredentialsInit, SaveTypes, Saves, NoSave
<1> QED
  BY <1>2, <1>3, <1>4, <1>5 DEF CredentialsInit, CredentialsInv

LEMMA AnswersKnown ==
    ASSUME NEW p, catalog \in {"none", "fresh", "old"}, NEW answer \in GetModels(p)
    PROVE  answer[1] \in Lists /\ answer[2] \in {"none", "fresh", "old"}
  BY ListsKnown DEF GetModels, FetchOpenRouterModels

LEMMA CredentialsTypeNext == CredentialsInv /\ [CredentialsNext]_credentialVars => CredentialsInv'
<1> SUFFICES ASSUME CredentialsInv, [CredentialsNext]_credentialVars PROVE CredentialsInv'
  OBVIOUS
<1>1. /\ PageTypes /\ KnownTypes /\ SaveTypes
      /\ catalog \in {"none", "fresh", "old"} /\ stored \in Stored
      /\ removing \in {"idle", "sent", "done", "refused"} /\ danger \in {"closed", "deleting", "out"}
  BY DEF CredentialsInv
<1>2. UNCHANGED <<lists, shown, choice>> => PageTypes'
  BY <1>1 DEF PageTypes
<1>3. UNCHANGED known => KnownTypes'
  BY <1>1 DEF KnownTypes
<1>4. UNCHANGED save => SaveTypes'
  BY <1>1 DEF SaveTypes
<1>5. lists \in [Providers -> Asked] /\ shown \in Lists \cup {<<>>} /\ choice \in Choice
  BY <1>1 DEF PageTypes
<1>6. CASE UNCHANGED credentialVars
  BY <1>1, <1>2, <1>3, <1>4, <1>6 DEF credentialVars, CredentialsInv
<1>7. CASE CatalogExpires
  BY <1>1, <1>2, <1>3, <1>4, <1>7 DEF CatalogExpires, CredentialsInv
<1>8. CASE ReadCredential
  <2>1. KnownTypes'
    <3>1. known' = [known EXCEPT !.pc = "read", !.got = stored] /\ known \in Knowledge
      BY <1>1, <1>8 DEF ReadCredential, KnownTypes
    <3> QED
      BY <1>1, <3>1 DEF KnownTypes, Knowledge
  <2> QED
    BY <1>1, <1>2, <1>4, <1>8, <2>1 DEF ReadCredential, CredentialsInv
<1>9. CASE CredentialArrives
  <2>1. KnownTypes'
    <3>1. known' = Over([known EXCEPT !.row = known.got])
      BY <1>9 DEF CredentialArrives
    <3> QED
      BY <1>1, <3>1, KnowledgeGoesOn DEF KnownTypes
  <2>2. PageTypes'
    <3>1. CASE known.got # known.row /\ known.got # NoCredential
      <4>1. known.got \in Stored
        BY <1>1, <1>9 DEF CredentialArrives, KnownTypes
      <4>2. PICK c : c = [provider |-> known.got.provider, model |-> known.got.model, by |-> "row"]
        OBVIOUS
      <4>3. c \in Choice
        BY <3>1, <4>1, <4>2 DEF Stored, Choice
      <4>4. Render(c, lists)
        BY <1>9, <3>1, <4>2 DEF CredentialArrives
      <4> QED
        BY <1>1, <1>5, <4>3, <4>4, RenderKeeps
    <3>2. CASE ~(known.got # known.row /\ known.got # NoCredential)
      BY <1>2, <1>9, <3>2 DEF CredentialArrives
    <3> QED
      BY <3>1, <3>2
  <2> QED
    BY <1>1, <1>4, <1>9, <2>1, <2>2 DEF CredentialArrives, CredentialsInv
<1>10. CASE GetCredentialFails
  <2>1. KnownTypes'
    <3>1. known' = Over(known)
      BY <1>10 DEF GetCredentialFails
    <3> QED
      BY <1>1, <3>1, KnowledgeGoesOn DEF KnownTypes
  <2> QED
    BY <1>1, <1>2, <1>4, <1>10, <2>1 DEF GetCredentialFails, CredentialsInv
<1>11. ASSUME NEW p \in Providers, HandleProviderChange(p) PROVE CredentialsInv'
  <2>1. PICK c : c = [provider |-> p, model |-> NoModel, by |-> "nobody"]
    OBVIOUS
  <2>2. c \in Choice
    BY <2>1 DEF Choice
  <2>3. Render(c, lists)
    BY <1>11, <2>1 DEF HandleProviderChange
  <2>4. PageTypes'
    BY <1>1, <1>5, <2>2, <2>3, RenderKeeps
  <2> QED
    BY <1>1, <1>3, <1>4, <1>11, <2>4 DEF HandleProviderChange, CredentialsInv
<1>12. ASSUME NEW p \in Providers, ListModels(p) PROVE CredentialsInv'
  <2>1. PICK answer \in GetModels(p) :
          catalog' = answer[2] /\ Render(choice, [lists EXCEPT ![p] = [pc |-> "loaded", got |-> answer[1]]])
    BY <1>12 DEF ListModels
  <2>2. answer[1] \in Lists /\ answer[2] \in {"none", "fresh", "old"}
    BY <1>1, AnswersKnown
  <2>3. PICK ls : ls = [lists EXCEPT ![p] = [pc |-> "loaded", got |-> answer[1]]]
    OBVIOUS
  <2>4. ls \in [Providers -> Asked]
    <3>1. [pc |-> "loaded", got |-> answer[1]] \in Asked
      BY <2>2 DEF Asked
    <3> QED
      BY <1>5, <2>3, <3>1
  <2>5. PageTypes'
    <3>1. Render(choice, ls)
      BY <2>1, <2>3
    <3> QED
      BY <1>1, <1>5, <2>4, <3>1, RenderKeeps
  <2> QED
    BY <1>1, <1>3, <1>4, <1>12, <2>1, <2>2, <2>5 DEF ListModels, CredentialsInv
<1>13. ASSUME NEW p \in Providers, ListModelsFails(p) PROVE CredentialsInv'
  <2>1. lists' = [lists EXCEPT ![p].pc = "failed"] /\ UNCHANGED <<shown, choice>>
    BY <1>13 DEF ListModelsFails
  <2>2. ASSUME NEW x, x = [lists[p] EXCEPT !.pc = "failed"] PROVE x \in Asked
    BY <1>5, <2>2 DEF Asked
  <2>3. lists' \in [Providers -> Asked]
    BY <1>5, <2>1, <2>2
  <2>4. PageTypes'
    BY <1>5, <2>1, <2>3 DEF PageTypes
  <2> QED
    BY <1>1, <1>3, <1>4, <1>13, <2>4 DEF ListModelsFails, CredentialsInv
<1>14. ASSUME NEW m \in Models, PickModel(m) PROVE CredentialsInv'
  <2>1. choice' = [choice EXCEPT !.model = m, !.by = "user"] /\ UNCHANGED <<lists, shown>>
    BY <1>14 DEF PickModel
  <2>2. choice' \in Choice
    <3> HIDE DEF Models, Providers
    <3> QED
      BY <1>5, <2>1 DEF Choice
  <2>3. PageTypes'
    BY <1>5, <2>1, <2>2 DEF PageTypes
  <2> QED
    BY <1>1, <1>3, <1>4, <1>14, <2>3 DEF PickModel, CredentialsInv
<1>15. CASE HandleSaveCredential
  <2>1. SaveTypes'
    BY <1>5, <1>15 DEF HandleSaveCredential, SaveTypes, Saves, Choice
  <2> QED
    BY <1>1, <1>2, <1>3, <1>15, <2>1 DEF HandleSaveCredential, CredentialsInv
<1>16. save \in Saves /\ (save.pc = "testing" => save.model \in Models)
  BY <1>1 DEF SaveTypes
<1>17. CASE SaveChecks
  <2>1. PICK answer \in GetModels(save.provider) :
          /\ catalog' = answer[2]
          /\ save' = [save EXCEPT !.pc = IF IsValidModel(answer, save.model) THEN "testing" ELSE "refused"]
    BY <1>17 DEF SaveChecks
  <2>2. answer[1] \in Lists /\ answer[2] \in {"none", "fresh", "old"}
    BY <1>1, AnswersKnown
  <2>3. SaveTypes'
    <3>1. CASE IsValidModel(answer, save.model)
      <4>1. save' = [save EXCEPT !.pc = "testing"] /\ save.model \in Models
        BY <2>1, <2>2, <3>1, ListsKnown DEF IsValidModel
      <4> QED
        BY <1>16, <4>1 DEF SaveTypes, Saves
    <3>2. CASE ~IsValidModel(answer, save.model)
      <4>1. save' = [save EXCEPT !.pc = "refused"]
        BY <2>1, <3>2
      <4> QED
        BY <1>16, <4>1 DEF SaveTypes, Saves
    <3> QED
      BY <3>1, <3>2
  <2> QED
    BY <1>1, <1>2, <1>3, <1>17, <2>1, <2>2, <2>3 DEF SaveChecks, CredentialsInv
<1>18. CASE TestFails
  <2>1. save' = [save EXCEPT !.pc = "refused"]
    BY <1>18 DEF TestFails
  <2>2. SaveTypes'
    BY <1>16, <2>1 DEF SaveTypes, Saves
  <2> QED
    BY <1>1, <1>2, <1>3, <1>18, <2>2 DEF TestFails, CredentialsInv
<1>19. CASE Upsert
  <2>1. save' = [save EXCEPT !.pc = "done"] /\ stored' = [provider |-> save.provider, model |-> save.model]
        /\ save.provider \in Providers /\ save.model \in Models
    BY <1>16, <1>19 DEF Upsert, Saves
  <2>2. SaveTypes' /\ stored' \in Stored
    BY <1>16, <2>1 DEF SaveTypes, Saves, Stored
  <2> QED
    BY <1>1, <1>2, <1>3, <1>19, <2>2 DEF Upsert, CredentialsInv
<1>20. CASE SaveReturns
  <2>1. KnownTypes'
    <3>1. known' = Again(known)
      BY <1>20 DEF SaveReturns
    <3> QED
      BY <1>1, <3>1, KnowledgeGoesOn DEF KnownTypes
  <2>2. SaveTypes'
    BY <1>20 DEF SaveReturns, NoSave, SaveTypes, Saves, Providers
  <2> QED
    BY <1>1, <1>2, <1>20, <2>1, <2>2 DEF SaveReturns, CredentialsInv
<1>21. CASE HandleRemoveCredential
  BY <1>1, <1>2, <1>3, <1>4, <1>21 DEF HandleRemoveCredential, CredentialsInv
<1>22. CASE RemoveRow
  <2>1. stored' \in Stored
    BY <1>1, <1>22 DEF RemoveRow, Stored
  <2> QED
    BY <1>1, <1>2, <1>3, <1>4, <1>22, <2>1 DEF RemoveRow, CredentialsInv
<1>23. CASE RemoveReturns
  <2>1. KnownTypes'
    <3>1. known' = Again(known)
      BY <1>23 DEF RemoveReturns
    <3> QED
      BY <1>1, <3>1, KnowledgeGoesOn DEF KnownTypes
  <2> QED
    BY <1>1, <1>2, <1>4, <1>23, <2>1 DEF RemoveReturns, CredentialsInv
<1>24. CASE HandleDeleteOrganization
  <2>1. danger' \in {"closed", "deleting", "out"}
    BY <1>1, <1>24 DEF HandleDeleteOrganization
  <2> QED
    BY <1>1, <1>2, <1>3, <1>4, <1>24, <2>1 DEF HandleDeleteOrganization, CredentialsInv
<1> QED
  BY <1>6, <1>7, <1>8, <1>9, <1>10, <1>11, <1>12, <1>13, <1>14, <1>15, <1>17, <1>18, <1>19, <1>20, <1>21, <1>22,
     <1>23, <1>24 DEF CredentialsNext

LEMMA CredentialsTypes == ASSUME CredentialsInv PROVE CredentialsTypeOK
<1>1. \A p \in Providers : lists[p] \in Asked
  BY DEF CredentialsInv, PageTypes
<1>2. \A p \in Providers : lists[p].pc \in {"none", "asked", "failed", "loaded"} /\ lists[p].got \in Lists \cup {<<>>}
  BY <1>1 DEF Asked
<1> QED
  BY <1>2 DEF CredentialsInv, PageTypes, KnownTypes, SaveTypes, Choice, Knowledge, Saves, CredentialsTypeOK

---------------------------------------------------------------------------
(* Only a webhook that is there is counted as failing. *)
LEMMA FailingKeeps ==
    ASSUME WebhookInv, failing \subseteq Hooks, [WebhookNext]_webhookVars
    PROVE  failing' \subseteq Hooks
<1>1. ASSUME NEW p \in Dispatchers, DispatchRecords(p) PROVE failing' \subseteq Hooks
  <2>1. dispatch[p].pc \in {"success", "failure"} => dispatch[p].cur \in Hooks
    BY DEF WebhookInv, Calls
  <2> QED
    BY <1>1, <2>1 DEF DispatchRecords
<1>2. ASSUME NEW p \in Dispatchers, DispatchStep(p) PROVE failing' \subseteq Hooks
  <2>1. DispatchRecords(p) \/ UNCHANGED failing
    BY <1>2 DEF DispatchStep, Dispatch, DispatchPosts, DispatchEnqueues, DispatchStops
  <2> QED
    BY <1>1, <2>1
<1>3. ASSUME NEW p \in Polls, PollStep(p) PROVE failing' \subseteq failing
  BY <1>3 DEF PollStep, Poll, PollLooksUp, PollPosts, PollDelivered, PollRecordsSuccess, PollRejected,
              PollFindsNoWebhook, PollStops
<1>4. ASSUME NEW h \in Hooks, CreateWebhook(h) \/ DeleteWebhook(h) PROVE failing' \subseteq failing
  BY <1>4 DEF CreateWebhook, DeleteWebhook
<1>5. ASSUME NEW d \in Deliveries, BackoffElapses(d) PROVE failing' \subseteq failing
  BY <1>5 DEF BackoffElapses
<1> QED
  BY <1>2, <1>3, <1>4, <1>5 DEF WebhookNext, webhookVars

LEMMA WebhookTypes == ASSUME WebhookInv, failing \subseteq Hooks PROVE WebhookTypeOK
<1>1. Types
  BY DEF WebhookInv
<1>2. ASSUME NEW p \in Dispatchers
      PROVE  dispatch[p].pc \in {"idle", "post", "success", "failure", "enqueue"} /\ dispatch[p].todo \subseteq Hooks
  BY <1>1 DEF Types, Call
<1>3. ASSUME NEW p \in Polls
      PROVE  /\ poll[p].pc \in {"idle", "next", "post", "accepted", "rejected", "missing", "success"}
             /\ poll[p].todo \subseteq Loads
  BY <1>1 DEF Types, Run, Busy
<1>4. There \cup {"none", "removed"} = {"none", "pending", "delivered", "dead_letter", "removed"}
  BY DEF There
<1>5. row \in [Deliveries -> [hook : Hooks \cup {"none"}, attempts : 0 .. MaxAttempts - 1, due : BOOLEAN,
                              status : {"none", "pending", "delivered", "dead_letter", "removed"}]]
  BY <1>1, <1>4 DEF Types, Row
<1>6. failed \in [Deliveries -> Nat]
  BY <1>1 DEF Types, MaxAttempts
<1> QED
  BY <1>1, <1>2, <1>3, <1>5, <1>6 DEF Types, WebhookTypeOK

LEMMA BillingTypes == ASSUME BillingInv PROVE BillingTypeOK
  BY DEF BillingInv, PlanRows, Stripe, SignUps, PlanRow, BillingTypeOK

(* What the parts keep side by side. *)
ServicesInv ==
    /\ WebhookInv /\ failing \subseteq Hooks
    /\ BillingInv /\ RateInv /\ ConsoleInv /\ CredentialsInv
    /\ ServerInv /\ ClientInv /\ RetrievalInv

(* Every part takes its own steps, and the others stand still. *)
PartSteps ==
    /\ [WebhookNext]_webhookVars /\ [BillingNext]_billingVars /\ [RateNext]_rateVars /\ [ConsoleNext]_consoleVars
    /\ [CredentialsNext]_credentialVars /\ [AnswerNext]_answerVars /\ [RetrievalNext]_retrievalVars

LEMMA StepsOfParts == ASSUME [Next]_allVars PROVE PartSteps
<1>1. CASE UNCHANGED allVars
  BY <1>1 DEF allVars, PartSteps
<1>2. CASE Next
  <2>1. ASSUME NEW a \in Askers, TraversalSearch(a, Short) PROVE TraversalSearch(a, Rows)
    BY <2>1 DEF TraversalSearch, Short
  <2>2. PipelineNext \/ (\E a \in Askers : TraversalSearch(a, Short)) => RetrievalNext
    BY <2>1, Zenon DEF RetrievalNext
  <2> QED
    BY <1>2, <2>2, Zenon DEF Next, PartSteps
<1> QED
  BY <1>1, <1>2

(* The records of the webhooks, the subscriptions, the rate limiter, the   *)
(* dashboard, the credential's page, the streamed answer and the           *)
(* retrieval keep their types, for all values of the constants.            *)
THEOREM TypesCorrect == Spec => []TypeOK
<1>1. Init => ServicesInv
  <2> SUFFICES ASSUME Init PROVE ServicesInv
    OBVIOUS
  <2>1. WebhookInit /\ BillingInit /\ RateInit /\ ConsoleInit /\ CredentialsInit /\ AnswerInit /\ RetrievalInit
    BY DEF Init
  <2>2. failing \subseteq Hooks
    BY <2>1 DEF WebhookInit
  <2> QED
    BY <2>1, <2>2, InitInv, BillingStarts, RateInductive, ConsoleInductive, CredentialsStarts, ServerStarts,
       ClientStarts, RetrievalStarts, Zenon DEF ServicesInv
<1>2. ServicesInv /\ [Next]_allVars => ServicesInv'
  <2> SUFFICES ASSUME ServicesInv, [Next]_allVars PROVE ServicesInv'
    OBVIOUS
  <2>1. /\ [WebhookNext]_webhookVars /\ [BillingNext]_billingVars /\ [RateNext]_rateVars /\ [ConsoleNext]_consoleVars
        /\ [CredentialsNext]_credentialVars /\ [AnswerNext]_answerVars /\ [RetrievalNext]_retrievalVars
    BY StepsOfParts, Zenon DEF PartSteps
  <2>2. /\ WebhookInv /\ failing \subseteq Hooks /\ BillingInv /\ RateInv /\ ConsoleInv /\ CredentialsInv
        /\ ServerInv /\ ClientInv /\ RetrievalInv
    BY Zenon DEF ServicesInv
  <2>3. WebhookInv' /\ failing' \subseteq Hooks
    BY <2>1, <2>2, NextInv, FailingKeeps, Zenon
  <2>4. BillingInv' /\ RateInv' /\ ConsoleInv'
    BY <2>1, <2>2, BillingNextInv, RateInductive, ConsoleInductive, Zenon
  <2>5. CredentialsInv' /\ RetrievalInv'
    BY <2>1, <2>2, CredentialsTypeNext, RetrievalTypeNext, Zenon
  <2>6. ServerInv'
    BY <2>1, <2>2, ServerNext, Zenon
  <2>7. ClientInv'
    BY <2>1, <2>2, <2>6, ClientNext, Zenon
  <2> QED
    BY <2>3, <2>4, <2>5, <2>6, <2>7, Zenon DEF ServicesInv
<1>3. ServicesInv => TypeOK
  <2> SUFFICES ASSUME ServicesInv PROVE TypeOK
    OBVIOUS
  <2>1. /\ WebhookInv /\ failing \subseteq Hooks /\ BillingInv /\ RateInv /\ ConsoleInv /\ CredentialsInv
        /\ ServerInv /\ ClientInv /\ RetrievalInv
    BY Zenon DEF ServicesInv
  <2>2. RateTypeOK /\ ConsoleTypeOK
    BY <2>1, Zenon DEF RateInv, ConsoleInv
  <2> QED
    BY <2>1, <2>2, WebhookTypes, BillingTypes, CredentialsTypes, AnswerTypes, RetrievalTypes, Zenon DEF TypeOK
<1> QED
  BY <1>1, <1>2, <1>3, PTL DEF Spec
=============================================================================
