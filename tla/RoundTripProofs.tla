--------------------------- MODULE RoundTripProofs ---------------------------
(***************************************************************************)
(* Theorems about what is written and read again: settings that are saved  *)
(* and loaded (CoreCfg), the lines of a file that is read in blocks        *)
(* (CfgLoad), and the fields of a message (MessageFields).                 *)
(*                                                                         *)
(* They need induction over the natural numbers, which is derived here     *)
(* from the fact that < is well founded on them: over the lines that load  *)
(* reads, over the parts that FlattenSeq puts together, and over the bytes *)
(* of a number.                                                            *)
(***************************************************************************)
EXTENDS CoreCfg, CfgLoad, MessageFields, WellFoundedInduction, TLAPS

\* A set of natural numbers that is not empty has a least element, and Min is it.
\* The library proves that < is well founded on the natural numbers.
LEMMA LeastNumber ==
  ASSUME NEW T \in SUBSET Nat, T # {}
  PROVE  /\ Min(T) \in T
         /\ \A y \in T : Min(T) <= y
<1> DEFINE R == OpToRel(<, Nat)
<1>1. IsWellFoundedOn(R, Nat)
  BY NatLessThanWellFounded
<1>2. PICK x \in T : \A y \in T : ~(<<y, x>> \in R)
  <2> HIDE DEF R
  <2> QED BY <1>1, WFMin
<1>3. \A y \in T : y \in Nat /\ x \in Nat /\ ~(y < x)
  BY <1>2 DEF OpToRel
<1>4. \A y \in T : x =< y
  BY <1>3
<1> QED BY <1>4 DEF Min

\* Induction over the natural numbers, for a set in the place of a predicate: the
\* least number outside the set would be one more than a number inside.
LEMMA Induction ==
  ASSUME NEW T, 0 \in T, \A n \in Nat : n \in T => n + 1 \in T
  PROVE  \A n \in Nat : n \in T
<1> SUFFICES ASSUME NEW k \in Nat, k \notin T PROVE FALSE
  OBVIOUS
<1> DEFINE U == {m \in Nat : m \notin T}
<1>1. Min(U) \in U /\ \A y \in U : Min(U) <= y
  <2>1. U \in SUBSET Nat /\ U # {}
    OBVIOUS
  <2> HIDE DEF U
  <2> QED BY <2>1, LeastNumber
<1>2. PICK x \in U : \A y \in U : x <= y
  BY <1>1
<1>3. x \in Nat /\ x # 0 /\ x - 1 \in Nat /\ ~(x <= x - 1)
  BY <1>2
<1>4. x - 1 \in T
  BY <1>2, <1>3
<1>5. (x - 1) + 1 \in T
  BY <1>3, <1>4
<1> QED BY <1>2, <1>3, <1>5

\* There is a function that starts with a and follows the steps s up to N.
Recursive(A, a, s, N) ==
  \E f \in [0 .. N -> A] : f[0] = a /\ \A n \in 1 .. N : f[n] = s[n][f[n - 1]]

\* A function on 0 .. N may be defined by its first value and its steps.
LEMMA Recursion ==
  ASSUME NEW A, NEW a \in A, NEW s \in [Nat -> [A -> A]], NEW N \in Nat
  PROVE  Recursive(A, a, s, N)
<1> DEFINE Ok(f, n) == f[0] = a /\ \A m \in 1 .. n : f[m] = s[m][f[m - 1]]
           T == {n \in Nat : \E f \in [0 .. n -> A] : Ok(f, n)}
<1>1. 0 \in T
  <2>1. [m \in 0 .. 0 |-> a] \in [0 .. 0 -> A] /\ Ok([m \in 0 .. 0 |-> a], 0)
    OBVIOUS
  <2> QED BY <2>1
<1>2. ASSUME NEW n \in Nat, n \in T PROVE n + 1 \in T
  <2>1. PICK f \in [0 .. n -> A] : Ok(f, n)
    BY <1>2
  <2> DEFINE g == [m \in 0 .. n + 1 |-> IF m = n + 1 THEN s[n + 1][f[n]] ELSE f[m]]
  <2>2. f[n] \in A /\ n + 1 \in Nat
    OBVIOUS
  <2>3. s[n + 1][f[n]] \in A
    BY <2>2
  <2>4. g \in [0 .. n + 1 -> A]
    BY <2>3
  <2>5. g[0] = a
    BY <2>1
  <2>6. ASSUME NEW m \in 1 .. n + 1 PROVE g[m] = s[m][g[m - 1]]
    <3>1. CASE m = n + 1
      BY <3>1
    <3>2. CASE m # n + 1
      <4>1. m \in 1 .. n /\ m - 1 \in 0 .. n /\ m - 1 # n + 1
        BY <3>2
      <4>2. g[m] = f[m] /\ g[m - 1] = f[m - 1]
        BY <4>1, <3>2
      <4> QED BY <4>1, <4>2, <2>1
    <3> QED BY <3>1, <3>2
  <2> HIDE DEF g
  <2> QED BY <2>2, <2>4, <2>5, <2>6
<1>3. N \in T
  <2> HIDE DEF T
  <2> QED BY <1>1, <1>2, Induction
<1> QED BY <1>3 DEF Recursive

\* FlattenSeq puts the sequences together one by one.
LEMMA FlattenSteps ==
  ASSUME NEW S, NEW q \in Seq(Seq(S)), Len(q) # 0
  PROVE  \E f \in [1 .. Len(q) -> Seq(S)] :
           /\ f[1] = q[1]
           /\ \A i \in 2 .. Len(q) : f[i] = f[i - 1] \o q[i]
           /\ FlattenSeq(q) = f[Len(q)]
<1>0. PICK N \in Nat : N = Len(q)
  OBVIOUS
<1> DEFINE Eq(f) == f = [i \in 1 .. N |-> IF i = 1 THEN q[i] ELSE f[i - 1] \o q[i]]
           F == CHOOSE f : Eq(f)
<1>1. N \in Nat /\ N # 0 /\ \A i \in 1 .. N : q[i] \in Seq(S)
  BY <1>0
<1>2. PICK s \in [Nat -> [Seq(S) -> Seq(S)]] :
        \A n \in 1 .. N : \A u \in Seq(S) : s[n][u] = u \o q[n]
  <2>1. \A n \in 1 .. N, u \in Seq(S) : u \o q[n] \in Seq(S)
    BY <1>1
  <2> DEFINE w == [n \in Nat |-> [u \in Seq(S) |-> IF n \in 1 .. N THEN u \o q[n] ELSE u]]
  <2>2. w \in [Nat -> [Seq(S) -> Seq(S)]]
    BY <2>1
  <2>3. ASSUME NEW n \in 1 .. N, NEW u \in Seq(S) PROVE w[n][u] = u \o q[n]
    <3>1. n \in Nat
      OBVIOUS
    <3>2. w[n] = [x \in Seq(S) |-> IF n \in 1 .. N THEN x \o q[n] ELSE x]
      BY <3>1
    <3> HIDE DEF w
    <3> QED BY <3>2
  <2> HIDE DEF w
  <2> QED BY <2>2, <2>3
<1>3. PICK A, z : A = Seq(S) /\ z = <<>>
  OBVIOUS
<1>4. PICK g \in [0 .. N -> A] : g[0] = z /\ \A n \in 1 .. N : g[n] = s[n][g[n - 1]]
  <2>1. z \in A /\ s \in [Nat -> [A -> A]]
    BY <1>3
  <2>2. Recursive(A, z, s, N)
    BY <2>1, <1>1, Recursion
  <2> QED BY <2>2 DEF Recursive
<1>5. ASSUME NEW n \in 1 .. N PROVE g[n - 1] \in Seq(S) /\ g[n] = g[n - 1] \o q[n]
  <2>1. n - 1 \in 0 .. N
    BY <1>1
  <2>2. g[n - 1] \in Seq(S)
    BY <2>1, <1>3
  <2>3. g[n] = s[n][g[n - 1]]
    BY <1>4
  <2> QED BY <2>2, <2>3, <1>2
<1> DEFINE h == [i \in 1 .. N |-> g[i]]
<1>6. Eq(h)
  <2>1. g[1] = q[1]
    <3>1. 1 \in 1 .. N /\ 1 - 1 = 0 /\ q[1] \in Seq(S)
      BY <1>1
    <3>2. g[1] = g[0] \o q[1]
      BY <3>1, <1>5
    <3>3. <<>> \o q[1] = q[1]
      BY <3>1
    <3> QED BY <3>2, <3>3, <1>3, <1>4
  <2>2. ASSUME NEW i \in 1 .. N
        PROVE  h[i] = IF i = 1 THEN q[i] ELSE h[i - 1] \o q[i]
    <3>1. CASE i = 1
      BY <3>1, <2>1
    <3>2. CASE i # 1
      <4>1. i - 1 \in 1 .. N
        BY <3>2, <1>1
      <4> QED BY <4>1, <3>2, <1>5
    <3> QED BY <3>1, <3>2
  <2>3. h = [i \in 1 .. N |-> h[i]]
    OBVIOUS
  <2> HIDE DEF h
  <2> QED BY <2>2, <2>3
<1>7. Eq(F)
  <2> HIDE DEF Eq
  <2> QED BY <1>6
<1>8. FlattenSeq(q) = F[N]
  BY <1>0, <1>1 DEF FlattenSeq
<1> HIDE DEF F, Eq
<1>9. /\ F = [i \in 1 .. N |-> F[i]]
      /\ F[1] = q[1]
      /\ \A i \in 2 .. N : F[i] = F[i - 1] \o q[i]
  <2>1. \A i \in 1 .. N : F[i] = IF i = 1 THEN q[i] ELSE F[i - 1] \o q[i]
    BY <1>7 DEF Eq
  <2>2. 1 \in 1 .. N /\ \A i \in 2 .. N : i \in 1 .. N /\ i # 1
    BY <1>1
  <2>3. F = [i \in 1 .. N |-> F[i]]
    BY <1>7 DEF Eq
  <2>4. ASSUME NEW i \in 2 .. N PROVE F[i] = F[i - 1] \o q[i]
    BY <2>1, <2>2
  <2> QED BY <2>1, <2>2, <2>3, <2>4
<1> DEFINE T == {n \in Nat : n + 1 \in 1 .. N => F[n + 1] \in Seq(S)}
<1>10. 0 \in T
  <2>1. 0 + 1 = 1 /\ q[1] \in Seq(S)
    BY <1>1
  <2> QED BY <2>1, <1>9
<1>11. ASSUME NEW n \in Nat, n \in T PROVE n + 1 \in T
  <2> SUFFICES ASSUME (n + 1) + 1 \in 1 .. N PROVE F[(n + 1) + 1] \in Seq(S)
    OBVIOUS
  <2>1. n + 1 \in 1 .. N /\ ((n + 1) + 1) - 1 = n + 1 /\ (n + 1) + 1 \in 2 .. N
    BY <1>1
  <2>2. F[n + 1] \in Seq(S)
    BY <2>1, <1>11
  <2>3. F[(n + 1) + 1] = F[n + 1] \o q[(n + 1) + 1]
    BY <2>1, <1>9
  <2>4. q[(n + 1) + 1] \in Seq(S)
    BY <1>1
  <2> QED BY <2>2, <2>3, <2>4
<1>12. \A n \in Nat : n \in T
  <2> HIDE DEF T
  <2> QED BY <1>10, <1>11, Induction
<1>13. \A i \in 1 .. N : F[i] \in Seq(S)
  <2> SUFFICES ASSUME NEW i \in 1 .. N PROVE F[i] \in Seq(S)
    OBVIOUS
  <2>1. i - 1 \in Nat /\ (i - 1) + 1 = i
    BY <1>1
  <2> QED BY <2>1, <1>12
<1>14. F \in [1 .. N -> Seq(S)]
  BY <1>9, <1>13
<1> QED BY <1>0, <1>8, <1>9, <1>14

\* What is in FlattenSeq(q) is what is in the sequences of q.
LEMMA FlattenOf ==
  ASSUME NEW S, NEW q \in Seq(Seq(S))
  PROVE  /\ FlattenSeq(q) \in Seq(S)
         /\ \A e : (\E j \in DOMAIN FlattenSeq(q) : FlattenSeq(q)[j] = e)
                    <=> (\E i \in DOMAIN q : \E j \in DOMAIN q[i] : q[i][j] = e)
<1>1. CASE Len(q) = 0
  BY <1>1 DEF FlattenSeq
<1>2. CASE Len(q) # 0
  <2>0. PICK N \in Nat : N = Len(q)
    OBVIOUS
  <2> DEFINE Has(u, e) == \E j \in DOMAIN u : u[j] = e
  <2>1. N \in Nat /\ N # 0 /\ DOMAIN q = 1 .. N /\ \A i \in 1 .. N : q[i] \in Seq(S)
    BY <1>2, <2>0
  <2>2. PICK f \in [1 .. N -> Seq(S)] :
           /\ f[1] = q[1]
           /\ \A i \in 2 .. N : f[i] = f[i - 1] \o q[i]
           /\ FlattenSeq(q) = f[N]
    BY <1>2, <2>0, FlattenSteps
  <2> DEFINE T == {n \in Nat : n + 1 \in 1 .. N =>
                     \A e : Has(f[n + 1], e) <=> \E i \in 1 .. n + 1 : Has(q[i], e)}
  <2>3. 0 \in T
    BY <2>1, <2>2
  <2>4. ASSUME NEW n \in Nat, n \in T PROVE n + 1 \in T
    <3> SUFFICES ASSUME (n + 1) + 1 \in 1 .. N, NEW e
                 PROVE  Has(f[(n + 1) + 1], e) <=> \E i \in 1 .. (n + 1) + 1 : Has(q[i], e)
      OBVIOUS
    <3>1. n + 1 \in 1 .. N /\ (n + 1) + 1 \in 2 .. N /\ ((n + 1) + 1) - 1 = n + 1
      BY <2>1
    <3>2. f[(n + 1) + 1] = f[n + 1] \o q[(n + 1) + 1]
      BY <3>1, <2>2
    <3>3. PICK u \in Seq(S) : u = f[n + 1]
      BY <3>1
    <3>4. PICK v \in Seq(S) : v = q[(n + 1) + 1]
      BY <2>1
    <3>5. Has(u \o v, e) <=> Has(u, e) \/ Has(v, e)
      <4>1. ASSUME NEW j \in 1 .. Len(u \o v)
            PROVE  (u \o v)[j] = IF j <= Len(u) THEN u[j] ELSE v[j - Len(u)]
        OBVIOUS
      <4>2. Len(u) \in Nat /\ Len(v) \in Nat /\ DOMAIN u = 1 .. Len(u) /\ DOMAIN v = 1 .. Len(v)
            /\ DOMAIN (u \o v) = 1 .. Len(u) + Len(v) /\ Len(u \o v) = Len(u) + Len(v)
        OBVIOUS
      <4>3. ASSUME NEW j \in 1 .. Len(u) PROVE j \in 1 .. Len(u) + Len(v) /\ (u \o v)[j] = u[j]
        BY <4>2
      <4>4. ASSUME NEW j \in 1 .. Len(v)
            PROVE  Len(u) + j \in 1 .. Len(u) + Len(v) /\ (u \o v)[Len(u) + j] = v[j]
        BY <4>2
      <4>5. ASSUME NEW j \in 1 .. Len(u) + Len(v)
            PROVE  \/ j \in 1 .. Len(u) /\ (u \o v)[j] = u[j]
                   \/ j - Len(u) \in 1 .. Len(v) /\ (u \o v)[j] = v[j - Len(u)]
        BY <4>1, <4>2
      <4> QED BY <4>2, <4>3, <4>4, <4>5
    <3>6. Has(f[n + 1], e) <=> \E i \in 1 .. n + 1 : Has(q[i], e)
      BY <2>4, <3>1
    <3>7. 1 .. (n + 1) + 1 = (1 .. n + 1) \cup {(n + 1) + 1}
      OBVIOUS
    <3> HIDE DEF Has
    <3> QED BY <3>2, <3>3, <3>4, <3>5, <3>6, <3>7
  <2>5. \A n \in Nat : n \in T
    <3> HIDE DEF T
    <3> QED BY <2>3, <2>4, Induction
  <2>6. N - 1 \in Nat /\ (N - 1) + 1 = N /\ N \in 1 .. N
    BY <2>1
  <2>7. \A e : Has(f[N], e) <=> \E i \in 1 .. N : Has(q[i], e)
    <3>1. N - 1 \in T
      BY <2>5, <2>6
    <3> HIDE DEF Has
    <3> QED BY <2>6, <3>1
  <2>8. f[N] \in Seq(S)
    BY <2>1
  <2> QED BY <2>1, <2>2, <2>7, <2>8
<1> QED BY <1>1, <1>2

-----------------------------------------------------------------------------
\* The entries of a key.
Entries(cfg, k) == {i \in DOMAIN cfg : Lower(cfg[i].name) = k}

\* The entries say that key k has type t and value v, or are not there.
Says(cfg, k, t, v) ==
  IF v = Unset THEN Entries(cfg, k) = {}
  ELSE /\ \E i \in Entries(cfg, k) : Entries(cfg, k) = {i}
       /\ \A i \in Entries(cfg, k) : cfg[i].type = t /\ cfg[i].holds = <<t, v>>

Entry == [name : Names, type : CfgTypes, holds : CfgTypes \X CfgValues]
FileLine == [name : Names, type : CfgTypes \ {"cfg_p"}, v : CfgValues]

CfgTypeOK ==
  /\ m_vecCfg \in Seq(Entry)
  /\ file \in Seq(FileLine)
  /\ crashed \in BOOLEAN
  /\ kind \in [Keys -> Types]
  /\ mixed \in SUBSET Keys
  /\ given \in [Keys -> CfgValues \cup {Unset}]
  /\ onDisk \in [Keys -> CfgValues \cup {Unset}]

Agreed == \A k \in Keys \ mixed : Says(m_vecCfg, k, kind[k], given[k])

\* The lines of the file for a key whose callers agree.
SavedAgrees ==
  \A k \in Keys \ mixed :
    /\ \A i \in DOMAIN file : Lower(file[i].name) = k =>
         file[i].type = kind[k] /\ file[i].v = onDisk[k]
    /\ onDisk[k] # Unset /\ kind[k] # "cfg_p" <=>
         \E i \in DOMAIN file : Lower(file[i].name) = k

CfgInv == CfgTypeOK /\ Agreed /\ SavedAgrees /\ (crashed => mixed # {})

\* A name in lower case is a key.
LEMMA NameKeys == \A name \in Names : Lower(name) \in Keys
BY DEF Keys

\* No value is taken for a missing one.
LEMMA NotUnset == \A v \in CfgValues : v # Unset
BY ValueAssumption DEF Unset

\* Ref finds an entry of the name or of its alias, if there is one.
LEMMA RefOf ==
  ASSUME NEW cfg \in Seq(Entry), NEW name \in Names, NEW alias
  PROVE  /\ Ref(cfg, name, alias) = 0 => Entries(cfg, Lower(name)) = {}
         /\ Ref(cfg, name, alias) # 0 => Ref(cfg, name, alias) \in DOMAIN cfg
         /\ Ref(cfg, name, alias) # 0 /\ alias = NoAlias =>
              Ref(cfg, name, alias) \in Entries(cfg, Lower(name))
<1> DEFINE I == {i \in 1 .. Len(cfg) : Lower(cfg[i].name) = Lower(name) \/ alias = <<Lower(cfg[i].name), 0>>}
<1>1. Ref(cfg, name, alias) = IF I # {} THEN Min(I) ELSE 0
  BY DEF Ref, SelectInSeq
<1>2. /\ I \subseteq DOMAIN cfg /\ Entries(cfg, Lower(name)) \subseteq I
      /\ alias = NoAlias => I = Entries(cfg, Lower(name))
  <2>1. I \subseteq DOMAIN cfg /\ Entries(cfg, Lower(name)) \subseteq I
    BY DEF Entries
  <2>2. alias = NoAlias => \A x : alias # <<x, 0>>
    BY DEF NoAlias
  <2> QED BY <2>1, <2>2 DEF Entries
<1>3. I \in SUBSET Nat /\ 0 \notin I
  OBVIOUS
<1>4. I # {} => Min(I) \in I
  <2> HIDE DEF I
  <2> QED BY <1>3, LeastNumber
<1> HIDE DEF I
<1> QED BY <1>1, <1>2, <1>3, <1>4

\* Entry at may be the one a setter of the name uses: an entry, or a new one if there
\* is none of that name.
CanReach(cfg, at, name) == (at = 0 /\ Entries(cfg, Lower(name)) = {}) \/ (at # 0 /\ at \in DOMAIN cfg)

KeyOf(cfg, at, name) == IF at = 0 THEN Lower(name) ELSE Lower(cfg[at].name)

\* A setter changes what the entries say of the key it reaches only; if they had its
\* type they then say what it set.
LEMMA SetValueOf ==
  ASSUME NEW cfg \in Seq(Entry), NEW name \in Names, NEW t \in CfgTypes, NEW v \in CfgValues,
         NEW ref, CanReach(cfg, ref, name)
  PROVE  /\ SetValue(cfg, ref, name, t, v) \in Seq(Entry)
         /\ \A k \in Keys, u \in Types, w \in CfgValues \cup {Unset} :
              k # KeyOf(cfg, ref, name) /\ Says(cfg, k, u, w)
                => Says(SetValue(cfg, ref, name, t, v), k, u, w)
         /\ \A w \in CfgValues \cup {Unset} :
              Says(cfg, KeyOf(cfg, ref, name), t, w)
                => Says(SetValue(cfg, ref, name, t, v), KeyOf(cfg, ref, name), t, v)
<1>2. PICK new : new = SetValue(cfg, ref, name, t, v)
  OBVIOUS
<1>3. PICK l : l = KeyOf(cfg, ref, name)
  OBVIOUS
<1>4. v # Unset
  BY NotUnset
<1>5. CASE ref = 0
  <2>1. PICK e : e = [name |-> name, type |-> t, holds |-> <<t, v>>]
    OBVIOUS
  <2>2. e \in Entry /\ e.name = name /\ e.type = t /\ e.holds = <<t, v>>
    BY <2>1 DEF Entry
  <2>3. new = Append(cfg, e)
    BY <1>2, <1>5, <2>1 DEF SetValue
  <2>4. /\ new \in Seq(Entry)
        /\ Len(cfg) + 1 \notin DOMAIN cfg
        /\ DOMAIN new = DOMAIN cfg \cup {Len(cfg) + 1}
        /\ \A i \in DOMAIN cfg : new[i] = cfg[i]
        /\ new[Len(cfg) + 1] = e
    BY <2>2, <2>3
  <2>5. Entries(cfg, l) = {} /\ l = Lower(name)
    BY <1>3, <1>5 DEF CanReach, KeyOf
  <2>6. PICK z : z = Len(cfg) + 1
    OBVIOUS
  <2>7. ASSUME NEW k PROVE Entries(new, k) = IF k = l THEN {z} ELSE Entries(cfg, k)
    <3>1. CASE k = l
      BY <2>2, <2>4, <2>5, <2>6, <3>1 DEF Entries
    <3>2. CASE k # l
      BY <2>2, <2>4, <2>5, <2>6, <3>2 DEF Entries
    <3> QED BY <3>1, <3>2
  <2>8. Says(new, l, t, v)
    BY <1>4, <2>2, <2>4, <2>6, <2>7 DEF Says
  <2>9. ASSUME NEW k \in Keys, NEW u \in Types, NEW w \in CfgValues \cup {Unset},
               k # l, Says(cfg, k, u, w)
        PROVE  Says(new, k, u, w)
    <3>1. Entries(new, k) = Entries(cfg, k) /\ \A i \in Entries(cfg, k) : new[i] = cfg[i]
      BY <2>4, <2>7, <2>9 DEF Entries
    <3> QED BY <3>1, <2>9 DEF Says
  <2> QED BY <1>2, <1>3, <2>4, <2>8, <2>9
<1>6. CASE ref # 0
  <2>2. ref \in DOMAIN cfg /\ Lower(cfg[ref].name) = l
    BY <1>3, <1>6 DEF CanReach, KeyOf
  <2>1. ref \in Entries(cfg, l)
    BY <2>2 DEF Entries
  <2>3. new = [cfg EXCEPT ![ref].holds = <<t, v>>]
    BY <1>2, <1>6 DEF SetValue
  <2>4. cfg[ref] \in Entry /\ DOMAIN cfg = 1 .. Len(cfg) /\ Len(cfg) \in Nat
    BY <2>2
  <2>5. PICK e : e = [cfg[ref] EXCEPT !.holds = <<t, v>>]
    OBVIOUS
  <2>6. e \in Entry /\ e.name = cfg[ref].name /\ e.type = cfg[ref].type /\ e.holds = <<t, v>>
    BY <2>4, <2>5 DEF Entry
  <2>7. new = [cfg EXCEPT ![ref] = e]
    BY <2>3, <2>5
  <2>8. /\ new \in Seq(Entry)
        /\ DOMAIN new = DOMAIN cfg
        /\ \A i \in DOMAIN cfg : i # ref => new[i] = cfg[i]
        /\ new[ref] = e
    BY <2>2, <2>6, <2>7
  <2>9. ASSUME NEW k PROVE Entries(new, k) = Entries(cfg, k)
    <3>1. \A i \in DOMAIN cfg : new[i].name = cfg[i].name
      BY <2>6, <2>8
    <3> QED BY <2>8, <3>1 DEF Entries
  <2>10. ASSUME NEW w \in CfgValues \cup {Unset}, Says(cfg, l, t, w) PROVE Says(new, l, t, v)
    <3>1. w # Unset
      BY <2>1, <2>10 DEF Says
    <3>2. Entries(cfg, l) = {ref} /\ cfg[ref].type = t
      BY <2>1, <2>10, <3>1 DEF Says
    <3> QED BY <1>4, <2>6, <2>8, <2>9, <3>2 DEF Says
  <2>11. ASSUME NEW k \in Keys, NEW u \in Types, NEW w \in CfgValues \cup {Unset},
                k # l, Says(cfg, k, u, w)
         PROVE  Says(new, k, u, w)
    <3>1. \A i \in Entries(cfg, k) : new[i] = cfg[i]
      BY <2>2, <2>8, <2>11 DEF Entries
    <3> QED BY <3>1, <2>9, <2>11 DEF Says
  <2> QED BY <1>2, <1>3, <2>8, <2>10, <2>11
<1> QED BY <1>5, <1>6

\* What save prints for entry i of cfg.
LEMMA PrintedOf ==
  ASSUME CfgTypeOK
  PROVE  LET q == [i \in DOMAIN m_vecCfg |-> Printed(i)]
         IN /\ q \in Seq(Seq(FileLine))
            /\ \A e : (\E i \in DOMAIN q : \E j \in DOMAIN q[i] : q[i][j] = e)
                      <=> \E i \in DOMAIN m_vecCfg : m_vecCfg[i].type # "cfg_p" /\ e = Line(i)
<1> DEFINE q == [i \in DOMAIN m_vecCfg |-> Printed(i)]
           P(i) == {j \in 1 .. i : m_vecCfg[j].type # "cfg_p"}
           Newest(i) == CHOOSE j \in P(i) : \A h \in P(i) : h <= j
<1>1. PICK N \in Nat : N = Len(m_vecCfg) /\ DOMAIN m_vecCfg = 1 .. N
  BY DEF CfgTypeOK
<1>2. \A i \in 1 .. N : m_vecCfg[i] \in Entry
  BY <1>1 DEF CfgTypeOK
<1>3. ASSUME NEW i \in 1 .. N, m_vecCfg[i].type # "cfg_p" PROVE Line(i) \in FileLine
  BY <1>2, <1>3 DEF Line, FileLine, Entry
<1>4. ASSUME NEW i \in 1 .. N, P(i) # {} PROVE Newest(i) \in P(i) /\ \A h \in P(i) : h <= Newest(i)
  <2> DEFINE M == {i - j : j \in P(i)}
  <2>1. M \in SUBSET Nat /\ M # {}
    BY <1>4
  <2>2. PICK m \in M : \A y \in M : m <= y
    <3> HIDE DEF M
    <3> QED BY <2>1, LeastNumber
  <2>3. PICK j \in P(i) : m = i - j
    BY <2>2
  <2>4. \A h \in P(i) : h <= j
    <3> SUFFICES ASSUME NEW h \in P(i) PROVE h <= j
      OBVIOUS
    <3>1. i - j <= i - h
      BY <2>2, <2>3
    <3>2. h \in 1 .. i /\ j \in 1 .. i
      OBVIOUS
    <3> HIDE DEF P, M
    <3> QED BY <3>1, <3>2
  <2> HIDE DEF P
  <2> QED BY <2>4
<1>5. ASSUME NEW i \in 1 .. N
      PROVE  /\ P(i) = {} => Printed(i) = <<>>
             /\ P(i) # {} => /\ Printed(i) = <<Line(Newest(i))>>
                             /\ Newest(i) \in 1 .. N /\ m_vecCfg[Newest(i)].type # "cfg_p"
  <2>1. P(i) = {} => Printed(i) = <<>>
    BY DEF Printed
  <2>2. P(i) # {} => Printed(i) = <<Line(Newest(i))>>
    BY DEF Printed
  <2>3. P(i) # {} => Newest(i) \in P(i)
    BY <1>4
  <2>4. \A j \in P(i) : j \in 1 .. N /\ m_vecCfg[j].type # "cfg_p"
    BY <1>1
  <2> HIDE DEF P, Newest
  <2> QED BY <2>1, <2>2, <2>3, <2>4
<1>6. ASSUME NEW i \in 1 .. N PROVE Printed(i) \in Seq(FileLine)
  <2>1. <<>> \in Seq(FileLine) /\ \A e \in FileLine : <<e>> \in Seq(FileLine)
    OBVIOUS
  <2> HIDE DEF P, Newest
  <2> QED BY <1>3, <1>5, <2>1
<1>7. q \in Seq(Seq(FileLine))
  <2>1. q \in [1 .. N -> Seq(FileLine)]
    BY <1>1, <1>6
  <2> HIDE DEF q
  <2> QED BY <1>1, <2>1
<1>8. ASSUME NEW i \in 1 .. N, NEW e, \E j \in DOMAIN Printed(i) : Printed(i)[j] = e
      PROVE  \E h \in 1 .. N : m_vecCfg[h].type # "cfg_p" /\ e = Line(h)
  <2> HIDE DEF P, Newest
  <2>1. P(i) # {}
    BY <1>5, <1>8
  <2>2. Printed(i) = <<Line(Newest(i))>> /\ Newest(i) \in 1 .. N /\ m_vecCfg[Newest(i)].type # "cfg_p"
    BY <1>5, <2>1
  <2>3. e = Line(Newest(i))
    BY <1>8, <2>2
  <2> QED BY <2>2, <2>3
<1>9. ASSUME NEW i \in 1 .. N, m_vecCfg[i].type # "cfg_p"
      PROVE  \E j \in DOMAIN Printed(i) : Printed(i)[j] = Line(i)
  <2>1. i \in P(i) /\ \A h \in P(i) : h <= i
    BY <1>9
  <2>2. Newest(i) = i
    <3>1. Newest(i) \in P(i) /\ i <= Newest(i)
      BY <1>4, <2>1
    <3>2. Newest(i) \in 1 .. i
      BY <3>1
    <3> HIDE DEF P, Newest
    <3> QED BY <3>1, <3>2
  <2>3. Printed(i) = <<Line(i)>>
    <3> HIDE DEF P, Newest
    <3> QED BY <1>5, <2>1, <2>2
  <2> QED BY <2>3
<1> HIDE DEF P, Newest
<1>10. DOMAIN q = 1 .. N /\ \A i \in 1 .. N : q[i] = Printed(i)
  BY <1>1
<1> HIDE DEF q
<1>11. ASSUME NEW e PROVE (\E i \in DOMAIN q : \E j \in DOMAIN q[i] : q[i][j] = e)
                      <=> \E i \in DOMAIN m_vecCfg : m_vecCfg[i].type # "cfg_p" /\ e = Line(i)
  <2>1. ASSUME NEW i \in DOMAIN q, \E j \in DOMAIN q[i] : q[i][j] = e
        PROVE  \E h \in DOMAIN m_vecCfg : m_vecCfg[h].type # "cfg_p" /\ e = Line(h)
    <3>1. i \in 1 .. N /\ q[i] = Printed(i)
      BY <1>10
    <3>2. \E j \in DOMAIN Printed(i) : Printed(i)[j] = e
      BY <2>1, <3>1
    <3>3. \E h \in 1 .. N : m_vecCfg[h].type # "cfg_p" /\ e = Line(h)
      BY <1>8, <3>1, <3>2, Zenon
    <3> QED BY <1>1, <3>3, Zenon
  <2>2. ASSUME NEW i \in DOMAIN m_vecCfg, m_vecCfg[i].type # "cfg_p", e = Line(i)
        PROVE  \E h \in DOMAIN q : \E j \in DOMAIN q[h] : q[h][j] = e
    <3>1. i \in 1 .. N /\ i \in DOMAIN q /\ q[i] = Printed(i)
      BY <1>1, <1>10
    <3>2. PICK j \in DOMAIN Printed(i) : Printed(i)[j] = Line(i)
      BY <1>9, <2>2, <3>1
    <3>3. j \in DOMAIN q[i] /\ q[i][j] = e
      BY <2>2, <3>1, <3>2
    <3> QED BY <3>1, <3>3
  <2> QED BY <2>1, <2>2
<1> QED BY <1>7, <1>11 DEF q

\* save writes the lines of the entries that are not objects, and nothing else.
LEMMA SaveLines ==
  ASSUME CfgTypeOK, Save
  PROVE  /\ file' \in Seq(FileLine)
         /\ ~crashed' => \A e : (\E j \in DOMAIN file' : file'[j] = e)
                   <=> \E i \in DOMAIN m_vecCfg : m_vecCfg[i].type # "cfg_p" /\ e = Line(i)
<1>1. PICK q : q = [i \in DOMAIN m_vecCfg |-> Printed(i)]
  OBVIOUS
<1>2. file' \in IF crashed' THEN Prefixes(FlattenSeq(q)) ELSE {FlattenSeq(q)}
  BY <1>1 DEF Save
<1>3. /\ q \in Seq(Seq(FileLine))
      /\ \A e : (\E i \in DOMAIN q : \E j \in DOMAIN q[i] : q[i][j] = e)
                <=> \E i \in DOMAIN m_vecCfg : m_vecCfg[i].type # "cfg_p" /\ e = Line(i)
  BY <1>1, PrintedOf
<1>4. PICK S : S = FileLine
  OBVIOUS
<1>5. /\ FlattenSeq(q) \in Seq(S)
      /\ \A e : (\E j \in DOMAIN FlattenSeq(q) : FlattenSeq(q)[j] = e)
                    <=> (\E i \in DOMAIN q : \E j \in DOMAIN q[i] : q[i][j] = e)
  <2>1. q \in Seq(Seq(S))
    BY <1>3, <1>4
  <2> QED BY <2>1, FlattenOf
<1>6. PICK f \in Seq(S) : f = FlattenSeq(q)
  BY <1>5
<1>7. \A g \in Prefixes(f) : g \in Seq(S)
  BY DEF Prefixes
<1>8. CASE crashed'
  BY <1>2, <1>4, <1>6, <1>7, <1>8
<1>9. CASE ~crashed'
  <2>1. file' = f
    BY <1>2, <1>6, <1>9
  <2> QED BY <1>3, <1>4, <1>5, <1>6, <2>1
<1> QED BY <1>8, <1>9

\* What Ref finds may be used, and without an alias is of the name.
LEMMA RefReaches ==
  ASSUME NEW cfg \in Seq(Entry), NEW name \in Names, NEW alias
  PROVE  /\ CanReach(cfg, Ref(cfg, name, alias), name)
         /\ alias = NoAlias => KeyOf(cfg, Ref(cfg, name, alias), name) = Lower(name)
BY RefOf DEF CanReach, KeyOf, Entries

\* A call that uses a wild string is one of a key whose callers do not agree.
LEMMA WildIsMixed ==
  ASSUME NEW cfg \in Seq(Entry), NEW at, NEW name \in Names, NEW t, CanReach(cfg, at, name),
         UsesWildString(cfg, at, t), NEW w, Says(cfg, KeyOf(cfg, at, name), t, w)
  PROVE  FALSE
<1>1. t = "cfg_cstr" /\ at # 0 /\ at \in DOMAIN cfg /\ cfg[at].holds[1] # "cfg_cstr"
  BY DEF UsesWildString, CanReach
<1>2. PICK k : k = KeyOf(cfg, at, name)
  OBVIOUS
<1>3. at \in Entries(cfg, k)
  BY <1>1, <1>2 DEF KeyOf, Entries
<1>4. cfg[at].holds = <<t, w>>
  BY <1>2, <1>3 DEF Says
<1> QED BY <1>1, <1>4

\* The value that key k has after the first n lines of the file.
ValueIn(n, k) == IF \E j \in 1 .. n : Lower(file[j].name) = k THEN onDisk[k] ELSE given[k]

\* Loading the file sets every key whose callers agree to the value it had when the
\* file was saved.
LEMMA LoadSays ==
  ASSUME CfgInv, Load
  PROVE  /\ m_vecCfg' \in Seq(Entry)
         /\ \A k \in Keys \ mixed' : Says(m_vecCfg', k, kind[k], ValueIn(Len(file), k))
         /\ crashed' => mixed' # {}
<1> DEFINE Eq(f) == f = [n \in 0 .. Len(file) |->
                          IF n = 0 THEN m_vecCfg ELSE LoadLine(f[n - 1], file[n])]
           F == CHOOSE f : Eq(f)
           WildAt(n) == UsesWildString(F[n - 1], Ref(F[n - 1], file[n].name, NoAlias), file[n].type)
<1>1. /\ m_vecCfg' = F[Len(file)]
      /\ crashed' \in {FALSE, \E n \in DOMAIN file : WildAt(n)}
      /\ mixed' = mixed \cup {k \in {Lower(file[n].name) : n \in DOMAIN file} : kind[k] = "cfg_u"}
  BY DEF Load
<1>2. PICK N \in Nat : N = Len(file) /\ DOMAIN file = 1 .. N /\ \A n \in 1 .. N : file[n] \in FileLine
  BY DEF CfgInv, CfgTypeOK
<1>3. ASSUME NEW n \in 1 .. N, NEW c \in Seq(Entry)
      PROVE  /\ file[n].name \in Names /\ file[n].v \in CfgValues
             /\ file[n].type \in CfgTypes /\ Parsed(file[n].type) \in CfgTypes
             /\ LoadLine(c, file[n]) = SetValue(c, Ref(c, file[n].name, NoAlias), file[n].name,
                                                Parsed(file[n].type), file[n].v)
             /\ LoadLine(c, file[n]) \in Seq(Entry)
  <2>1. file[n].name \in Names /\ file[n].type \in CfgTypes /\ file[n].v \in CfgValues
    BY <1>2 DEF FileLine
  <2>2. Parsed(file[n].type) \in CfgTypes
    BY <2>1 DEF Parsed, CfgTypes
  <2>3. LoadLine(c, file[n]) = SetValue(c, Ref(c, file[n].name, NoAlias), file[n].name,
                                        Parsed(file[n].type), file[n].v)
    BY DEF LoadLine
  <2>4. CanReach(c, Ref(c, file[n].name, NoAlias), file[n].name)
    BY <2>1, RefReaches
  <2>5. SetValue(c, Ref(c, file[n].name, NoAlias), file[n].name,
                 Parsed(file[n].type), file[n].v) \in Seq(Entry)
    BY <2>1, <2>2, <2>4, SetValueOf
  <2> QED BY <2>1, <2>2, <2>3, <2>5
<1>4. PICK s \in [Nat -> [Seq(Entry) -> Seq(Entry)]] :
        \A n \in 1 .. N : \A c \in Seq(Entry) : s[n][c] = LoadLine(c, file[n])
  <2> DEFINE w == [n \in Nat |-> [c \in Seq(Entry) |-> IF n \in 1 .. N THEN LoadLine(c, file[n]) ELSE c]]
  <2>1. w \in [Nat -> [Seq(Entry) -> Seq(Entry)]]
    BY <1>3
  <2>2. ASSUME NEW n \in 1 .. N, NEW c \in Seq(Entry) PROVE w[n][c] = LoadLine(c, file[n])
    <3>1. n \in Nat
      OBVIOUS
    <3>2. w[n] = [x \in Seq(Entry) |-> IF n \in 1 .. N THEN LoadLine(x, file[n]) ELSE x]
      BY <3>1
    <3> HIDE DEF w
    <3> QED BY <3>2
  <2> HIDE DEF w
  <2> QED BY <2>1, <2>2
<1>5. PICK A, z : A = Seq(Entry) /\ z = m_vecCfg
  OBVIOUS
<1>6. PICK g \in [0 .. N -> A] : g[0] = z /\ \A n \in 1 .. N : g[n] = s[n][g[n - 1]]
  <2>1. z \in A /\ s \in [Nat -> [A -> A]]
    BY <1>5 DEF CfgInv, CfgTypeOK
  <2>2. Recursive(A, z, s, N)
    BY <2>1, Recursion
  <2> QED BY <2>2 DEF Recursive
<1>7. Eq(g)
  <2>1. ASSUME NEW n \in 0 .. N PROVE g[n] = IF n = 0 THEN m_vecCfg ELSE LoadLine(g[n - 1], file[n])
    <3>1. CASE n = 0
      BY <3>1, <1>5, <1>6
    <3>2. CASE n # 0
      <4>1. n \in 1 .. N /\ n - 1 \in 0 .. N
        BY <3>2
      <4>2. g[n] = s[n][g[n - 1]] /\ g[n - 1] \in Seq(Entry)
        BY <4>1, <1>5, <1>6
      <4> QED BY <4>1, <4>2, <3>2, <1>4
    <3> QED BY <3>1, <3>2
  <2> QED BY <2>1, <1>2
<1>8. Eq(F)
  <2> HIDE DEF Eq
  <2> QED BY <1>7
<1>9. \A n \in 0 .. N : F[n] = IF n = 0 THEN m_vecCfg ELSE LoadLine(F[n - 1], file[n])
  <2> HIDE DEF F
  <2> QED BY <1>2, <1>8
<1> HIDE DEF Eq, F, WildAt
<1> DEFINE Ok(n) == F[n] \in Seq(Entry) /\ \A k \in Keys \ mixed' : Says(F[n], k, kind[k], ValueIn(n, k))
           T == {n \in Nat : n \in 0 .. N => Ok(n)}
<1>10. 0 \in T
  <2>1. F[0] = m_vecCfg
    BY <1>9
  <2>2. \A k : ValueIn(0, k) = given[k]
    BY DEF ValueIn
  <2>3. F[0] \in Seq(Entry)
    BY <2>1 DEF CfgInv, CfgTypeOK
  <2>4. ASSUME NEW k \in Keys \ mixed' PROVE Says(F[0], k, kind[k], ValueIn(0, k))
    <3>1. k \in Keys \ mixed
      BY <1>1
    <3> QED BY <2>1, <2>2, <3>1 DEF CfgInv, Agreed
  <2> QED BY <2>3, <2>4
\* The type of a line whose key is not mixed.
<1>a. ASSUME NEW n \in 1 .. N, Lower(file[n].name) \notin mixed'
      PROVE  /\ Lower(file[n].name) \in Keys
             /\ file[n].type = kind[Lower(file[n].name)] /\ Parsed(file[n].type) = file[n].type
             /\ file[n].v = onDisk[Lower(file[n].name)]
  <2>1. PICK k : k = Lower(file[n].name)
    OBVIOUS
  <2>2. k \in Keys /\ n \in DOMAIN file
    BY <1>2, <2>1, NameKeys DEF FileLine
  <2>3. k \notin mixed /\ kind[k] # "cfg_u"
    BY <1>1, <1>a, <2>1, <2>2
  <2>4. file[n].type = kind[k] /\ file[n].v = onDisk[k]
    BY <2>1, <2>2, <2>3 DEF CfgInv, SavedAgrees
  <2> QED BY <2>1, <2>2, <2>3, <2>4 DEF Parsed
<1>11. ASSUME NEW n \in Nat, n \in T PROVE n + 1 \in T
  <2> SUFFICES ASSUME n + 1 \in 0 .. N PROVE Ok(n + 1)
    OBVIOUS
  <2>1. n \in 0 .. N /\ n + 1 \in 1 .. N /\ n + 1 # 0 /\ (n + 1) - 1 = n
    OBVIOUS
  <2>2. Ok(n)
    BY <1>11, <2>1
  <2>3. PICK c \in Seq(Entry) : c = F[n]
    BY <2>2
  <2>4. PICK line \in FileLine : line = file[n + 1]
    BY <1>2, <2>1
  <2>5. F[n + 1] = LoadLine(c, line)
    BY <1>9, <2>1, <2>3, <2>4
  <2>6. PICK name \in Names, t \in CfgTypes, v \in CfgValues :
          name = line.name /\ t = Parsed(line.type) /\ v = line.v
    BY <1>3, <2>1, <2>3, <2>4
  <2>7. PICK at : at = Ref(c, name, NoAlias)
    OBVIOUS
  <2>8. F[n + 1] = SetValue(c, at, name, t, v)
    BY <1>3, <2>1, <2>4, <2>5, <2>6, <2>7
  <2>9. CanReach(c, at, name) /\ KeyOf(c, at, name) = Lower(name)
    BY <2>7, RefReaches
  <2>10. F[n + 1] \in Seq(Entry)
    BY <2>8, <2>9, SetValueOf
  <2>11. 1 .. n + 1 = (1 .. n) \cup {n + 1}
    OBVIOUS
  <2>12. ASSUME NEW k \in Keys \ mixed' PROVE Says(F[n + 1], k, kind[k], ValueIn(n + 1, k))
    <3>1. Says(c, k, kind[k], ValueIn(n, k)) /\ ValueIn(n, k) \in CfgValues \cup {Unset} /\ kind[k] \in Types
      BY <2>2, <2>3 DEF ValueIn, CfgInv, CfgTypeOK
    <3>2. CASE Lower(name) # k
      <4>1. ValueIn(n + 1, k) = ValueIn(n, k)
        BY <2>4, <2>6, <2>11, <3>2 DEF ValueIn
      <4> QED BY <2>8, <2>9, <3>1, <3>2, <4>1, SetValueOf
    <3>3. CASE Lower(name) = k
      <4>1. t = kind[k] /\ v = onDisk[k]
        BY <1>a, <2>1, <2>4, <2>6, <3>3
      <4>2. ValueIn(n + 1, k) = v
        BY <2>4, <2>6, <2>11, <3>3, <4>1 DEF ValueIn
      <4>3. Says(SetValue(c, at, name, t, v), Lower(name), t, v)
        BY <2>9, <3>1, <3>3, <4>1, SetValueOf
      <4> QED BY <2>8, <3>3, <4>1, <4>2, <4>3
    <3> QED BY <3>2, <3>3
  <2> QED BY <2>10, <2>12
<1>12. \A n \in Nat : n \in T
  <2> HIDE DEF T
  <2> QED BY <1>10, <1>11, Induction
<1>13. \A n \in 0 .. N : Ok(n)
  BY <1>12
<1>14. ASSUME NEW n \in 1 .. N, WildAt(n), mixed' = {} PROVE FALSE
  <2>1. PICK c \in Seq(Entry) : c = F[n - 1] /\ \A k \in Keys \ mixed' : Says(c, k, kind[k], ValueIn(n - 1, k))
    BY <1>13
  <2>2. PICK name \in Names : name = file[n].name
    BY <1>3, <2>1
  <2>3. PICK at : at = Ref(c, name, NoAlias)
    OBVIOUS
  <2>4. CanReach(c, at, name) /\ KeyOf(c, at, name) = Lower(name)
    BY <2>3, RefReaches
  <2>5. UsesWildString(c, at, file[n].type)
    BY <1>14, <2>1, <2>2, <2>3 DEF WildAt
  <2>6. Lower(name) \in Keys /\ Lower(name) \notin mixed' /\ file[n].type = kind[Lower(name)]
    BY <1>14, <1>a, <2>2
  <2>7. Says(c, KeyOf(c, at, name), file[n].type, ValueIn(n - 1, Lower(name)))
    BY <2>1, <2>4, <2>6
  <2> QED BY <2>4, <2>5, <2>7, WildIsMixed
<1>15. crashed' => mixed' # {}
  BY <1>1, <1>2, <1>14
<1>16. Ok(N)
  BY <1>13
<1> QED BY <1>1, <1>2, <1>15, <1>16

\* A new object has no entries and there is no file.
LEMMA CfgInitInv == CfgInit => CfgInv
<1> SUFFICES ASSUME CfgInit PROVE CfgInv
  OBVIOUS
<1>1. PICK agreed \in [Keys -> Types] : CfgStart(agreed)
  BY DEF CfgInit
<1>2. m_vecCfg = <<>> /\ file = <<>> /\ DOMAIN m_vecCfg = {} /\ DOMAIN file = {}
  BY <1>1 DEF CfgStart
<1>3. CfgTypeOK
  <2>1. m_vecCfg \in Seq(Entry) /\ file \in Seq(FileLine)
    BY <1>2
  <2>2. crashed = FALSE /\ kind = agreed /\ mixed = {}
    BY <1>1 DEF CfgStart
  <2>3. given \in [Keys -> CfgValues \cup {Unset}] /\ onDisk \in [Keys -> CfgValues \cup {Unset}]
    BY <1>1 DEF CfgStart
  <2> QED BY <2>1, <2>2, <2>3 DEF CfgTypeOK
<1>4. \A k \in Keys : given[k] = Unset /\ onDisk[k] = Unset
  BY <1>1 DEF CfgStart
<1>5. Agreed
  BY <1>2, <1>4 DEF Agreed, Says, Entries
<1>6. SavedAgrees
  BY <1>2, <1>4 DEF SavedAgrees
<1> QED BY <1>1, <1>3, <1>5, <1>6 DEF CfgInv, CfgStart

\* The history of the keys that are not mixed is kept, and that of the others forgotten.
LEMMA KeptOf ==
  ASSUME NEW f \in [Keys -> CfgValues \cup {Unset}]
  PROVE  /\ Kept(f) \in [Keys -> CfgValues \cup {Unset}]
         /\ \A k \in Keys \ mixed' : Kept(f)[k] = f[k]
BY DEF Kept

\* The file still agrees when keys become mixed.
LEMMA StillSaved ==
  ASSUME CfgInv, mixed \subseteq mixed', file' = file, kind' = kind, onDisk' = Kept(onDisk)
  PROVE  SavedAgrees' /\ onDisk' \in [Keys -> CfgValues \cup {Unset}]
<1>1. onDisk \in [Keys -> CfgValues \cup {Unset}]
  BY DEF CfgInv, CfgTypeOK
<1>2. /\ onDisk' \in [Keys -> CfgValues \cup {Unset}]
      /\ \A k \in Keys \ mixed' : onDisk'[k] = onDisk[k]
  BY <1>1, KeptOf
<1> QED BY <1>2 DEF CfgInv, SavedAgrees

\* The entry that a call with a reference or a name uses, and its key.
LEMMA ReachedOf ==
  ASSUME CfgInv, NEW name \in Names, NEW alias, NEW ref \in 0 .. Len(m_vecCfg)
  PROVE  /\ CanReach(m_vecCfg, Reached(name, alias, ref), name)
         /\ KeyAt(Reached(name, alias, ref), name) = KeyOf(m_vecCfg, Reached(name, alias, ref), name)
         /\ KeyAt(Reached(name, alias, ref), name) \in Keys
<1>1. PICK c \in Seq(Entry) : c = m_vecCfg
  BY DEF CfgInv, CfgTypeOK
<1>2. PICK at : at = Reached(name, alias, ref)
  OBVIOUS
<1>3. CanReach(c, at, name)
  <2>1. CASE ref = NoRef
    BY <1>1, <1>2, <2>1, RefReaches DEF Reached
  <2>2. CASE ref # NoRef
    BY <1>1, <1>2, <2>2 DEF Reached, NoRef, CanReach
  <2> QED BY <2>1, <2>2
<1>4. KeyAt(at, name) = KeyOf(c, at, name)
  BY <1>1 DEF KeyAt, KeyOf
<1>5. KeyOf(c, at, name) \in Keys
  <2>1. CASE at = 0
    BY <2>1, NameKeys DEF KeyOf
  <2>2. CASE at # 0
    <3>1. c[at] \in Entry
      BY <1>3, <2>2 DEF CanReach
    <3>2. c[at].name \in Names
      BY <3>1 DEF Entry
    <3> QED BY <2>2, <3>2, NameKeys DEF KeyOf
  <2> QED BY <2>1, <2>2
<1> QED BY <1>1, <1>2, <1>3, <1>4, <1>5

\* The setters, SetInt and the others, keep the invariant.
LEMMA SetInv ==
  ASSUME CfgInv, NEW name \in Names, NEW ref \in 0 .. Len(m_vecCfg), NEW t \in Types,
         NEW v \in CfgValues, Set(name, ref, t, v)
  PROVE  CfgInv'
<1>1. PICK c \in Seq(Entry) : c = m_vecCfg
  BY DEF CfgInv, CfgTypeOK
<1>2. PICK at : at = Reached(name, NoAlias, ref)
  OBVIOUS
<1>3. PICK k \in Keys : k = KeyAt(at, name) /\ k = KeyOf(c, at, name) /\ CanReach(c, at, name)
  BY <1>1, <1>2, ReachedOf
<1>4. /\ m_vecCfg' = SetValue(c, at, name, t, v)
      /\ crashed' \in {FALSE, UsesWildString(c, at, t)}
      /\ Breaks(IF k # Lower(name) THEN {k, Lower(name)} ELSE IF t # kind[k] THEN {k} ELSE {})
      /\ given' = Kept([given EXCEPT ![k] = v])
      /\ onDisk' = Kept(onDisk)
      /\ file' = file /\ kind' = kind
  BY <1>1, <1>2, <1>3 DEF Set
<1>5. /\ mixed \subseteq mixed' /\ mixed' \in SUBSET Keys
      /\ k \in mixed' \/ t = kind[k]
  <2>1. Lower(name) \in Keys /\ mixed \in SUBSET Keys
    BY NameKeys DEF CfgInv, CfgTypeOK
  <2> QED BY <1>4, <2>1 DEF Breaks
<1>6. t \in CfgTypes
  BY TypesAssumption
<1>7. PICK g \in [Keys -> CfgValues \cup {Unset}] :
        g = [given EXCEPT ![k] = v] /\ g[k] = v /\ \A x \in Keys : x # k => g[x] = given[x]
  <2>1. given \in [Keys -> CfgValues \cup {Unset}]
    BY DEF CfgInv, CfgTypeOK
  <2>2. [given EXCEPT ![k] = v] \in [Keys -> CfgValues \cup {Unset}]
    BY <2>1
  <2> QED BY <2>1, <2>2
<1>8. /\ given' \in [Keys -> CfgValues \cup {Unset}]
      /\ \A x \in Keys \ mixed' : given'[x] = g[x]
  BY <1>4, <1>7, KeptOf
<1>9. SavedAgrees' /\ onDisk' \in [Keys -> CfgValues \cup {Unset}]
  BY <1>4, <1>5, StillSaved
<1>10. m_vecCfg' \in Seq(Entry)
  BY <1>3, <1>4, <1>6, SetValueOf
<1>11. CfgTypeOK'
  <2>1. crashed' \in BOOLEAN
    BY <1>4 DEF UsesWildString
  <2> QED BY <1>4, <1>5, <1>8, <1>9, <1>10, <2>1 DEF CfgInv, CfgTypeOK
<1>12. ASSUME NEW x \in Keys \ mixed'
       PROVE  /\ Says(c, x, kind[x], given[x])
              /\ kind[x] \in Types /\ given[x] \in CfgValues \cup {Unset}
  BY <1>1, <1>5 DEF CfgInv, Agreed, CfgTypeOK
<1>13. Agreed'
  <2> SUFFICES ASSUME NEW x \in Keys \ mixed' PROVE Says(m_vecCfg', x, kind[x], given'[x])
    BY <1>4 DEF Agreed
  <2>1. CASE x # k
    <3>1. given'[x] = given[x]
      BY <1>7, <1>8, <2>1
    <3> QED BY <1>3, <1>4, <1>6, <1>12, <2>1, <3>1, SetValueOf
  <2>2. CASE x = k
    <3>1. t = kind[x] /\ given'[x] = v
      BY <1>5, <1>7, <1>8, <2>2
    <3>2. Says(SetValue(c, at, name, t, v), KeyOf(c, at, name), t, v)
      BY <1>3, <1>6, <1>12, <2>2, <3>1, SetValueOf
    <3> QED BY <1>3, <1>4, <2>2, <3>1, <3>2
  <2> QED BY <2>1, <2>2
<1>14. crashed' => mixed' # {}
  <2> SUFFICES ASSUME UsesWildString(c, at, t), mixed' = {} PROVE FALSE
    BY <1>4
  <2>1. t = kind[k] /\ Says(c, k, kind[k], given[k])
    BY <1>5, <1>12
  <2> QED BY <1>3, <2>1, WildIsMixed
<1> QED BY <1>9, <1>11, <1>13, <1>14 DEF CfgInv

\* The getters, GetInt and the others, keep the invariant, also when they set the
\* default.
LEMMA GetInv ==
  ASSUME CfgInv, NEW name \in Names, NEW alias, NEW ref \in 0 .. Len(m_vecCfg), NEW t \in Types,
         NEW def \in CfgValues, Get(name, alias, ref, t, def)
  PROVE  CfgInv'
<1>1. PICK c \in Seq(Entry) : c = m_vecCfg
  BY DEF CfgInv, CfgTypeOK
<1>2. PICK at : at = Reached(name, alias, ref)
  OBVIOUS
<1>3. PICK k \in Keys : k = KeyAt(at, name) /\ k = KeyOf(c, at, name) /\ CanReach(c, at, name)
  BY <1>1, <1>2, ReachedOf
<1>4. /\ m_vecCfg' = IF at = 0 \/ c[at].type # t THEN SetValue(c, at, name, t, def) ELSE c
      /\ crashed' \in {FALSE, UsesWildString(c, at, t)}
      /\ Breaks(IF t # kind[k] THEN {k} ELSE {})
      /\ given' = Kept(IF at = 0 THEN [given EXCEPT ![k] = def] ELSE given)
      /\ onDisk' = Kept(onDisk)
      /\ file' = file /\ kind' = kind
  BY <1>1, <1>2, <1>3 DEF Get
<1>5. /\ mixed \subseteq mixed' /\ mixed' \in SUBSET Keys
      /\ k \in mixed' \/ t = kind[k]
  <2>1. mixed \in SUBSET Keys
    BY DEF CfgInv, CfgTypeOK
  <2> QED BY <1>4, <2>1 DEF Breaks
<1>6. t \in CfgTypes
  BY TypesAssumption
<1>7. PICK g \in [Keys -> CfgValues \cup {Unset}] :
        /\ g = IF at = 0 THEN [given EXCEPT ![k] = def] ELSE given
        /\ at = 0 => g[k] = def
        /\ at # 0 => g[k] = given[k]
        /\ \A x \in Keys : x # k => g[x] = given[x]
  <2>1. given \in [Keys -> CfgValues \cup {Unset}]
    BY DEF CfgInv, CfgTypeOK
  <2>2. [given EXCEPT ![k] = def] \in [Keys -> CfgValues \cup {Unset}]
    BY <2>1
  <2>3. CASE at = 0
    BY <2>1, <2>2, <2>3
  <2>4. CASE at # 0
    BY <2>1, <2>4
  <2> QED BY <2>3, <2>4
<1>8. /\ given' \in [Keys -> CfgValues \cup {Unset}]
      /\ \A x \in Keys \ mixed' : given'[x] = g[x]
  BY <1>4, <1>7, KeptOf
<1>9. SavedAgrees' /\ onDisk' \in [Keys -> CfgValues \cup {Unset}]
  BY <1>4, <1>5, StillSaved
<1>10. m_vecCfg' \in Seq(Entry)
  BY <1>3, <1>4, <1>6, SetValueOf
<1>11. CfgTypeOK'
  <2>1. crashed' \in BOOLEAN
    BY <1>4 DEF UsesWildString
  <2> QED BY <1>4, <1>5, <1>8, <1>9, <1>10, <2>1 DEF CfgInv, CfgTypeOK
<1>12. ASSUME NEW x \in Keys \ mixed'
       PROVE  /\ Says(c, x, kind[x], given[x])
              /\ kind[x] \in Types /\ given[x] \in CfgValues \cup {Unset}
  BY <1>1, <1>5 DEF CfgInv, Agreed, CfgTypeOK
<1>13. Agreed'
  <2> SUFFICES ASSUME NEW x \in Keys \ mixed' PROVE Says(m_vecCfg', x, kind[x], given'[x])
    BY <1>4 DEF Agreed
  <2>1. CASE x # k
    <3>1. given'[x] = given[x]
      BY <1>7, <1>8, <2>1
    <3>2. Says(SetValue(c, at, name, t, def), x, kind[x], given[x])
      BY <1>3, <1>6, <1>12, <2>1, SetValueOf
    <3> QED BY <1>4, <1>12, <3>1, <3>2
  <2>2. CASE x = k /\ at = 0
    <3>1. t = kind[x] /\ given'[x] = def
      BY <1>5, <1>7, <1>8, <2>2
    <3>2. Says(SetValue(c, at, name, t, def), KeyOf(c, at, name), t, def)
      BY <1>3, <1>6, <1>12, <2>2, <3>1, SetValueOf
    <3> QED BY <1>3, <1>4, <2>2, <3>1, <3>2
  <2>3. CASE x = k /\ at # 0
    <3>1. t = kind[x] /\ given'[x] = given[x]
      BY <1>5, <1>7, <1>8, <2>3
    <3>2. at \in Entries(c, x)
      BY <1>3, <2>3 DEF CanReach, KeyOf, Entries
    <3>3. c[at].type = t
      BY <1>12, <3>1, <3>2 DEF Says
    <3> QED BY <1>4, <1>12, <2>3, <3>1, <3>3
  <2> QED BY <2>1, <2>2, <2>3
<1>14. crashed' => mixed' # {}
  <2> SUFFICES ASSUME UsesWildString(c, at, t), mixed' = {} PROVE FALSE
    BY <1>4
  <2>1. t = kind[k] /\ Says(c, k, kind[k], given[k])
    BY <1>5, <1>12
  <2> QED BY <1>3, <2>1, WildIsMixed
<1> QED BY <1>9, <1>11, <1>13, <1>14 DEF CfgInv

\* A reference to no entry breaks what is known of its name only.
LEMMA StaleInv == ASSUME CfgInv, NEW name \in Names, UseStaleRef(name) PROVE CfgInv'
<1>1. /\ crashed' \in BOOLEAN /\ Breaks({Lower(name)})
      /\ given' = Kept(given) /\ onDisk' = Kept(onDisk)
      /\ m_vecCfg' = m_vecCfg /\ file' = file /\ kind' = kind
  BY DEF UseStaleRef
<1>2. mixed \subseteq mixed' /\ mixed' \in SUBSET Keys /\ mixed' # {}
  BY <1>1, NameKeys DEF Breaks, CfgInv, CfgTypeOK
<1>3. given \in [Keys -> CfgValues \cup {Unset}]
  BY DEF CfgInv, CfgTypeOK
<1>4. given' \in [Keys -> CfgValues \cup {Unset}] /\ \A x \in Keys \ mixed' : given'[x] = given[x]
  BY <1>1, <1>3, KeptOf
<1>5. SavedAgrees' /\ onDisk' \in [Keys -> CfgValues \cup {Unset}]
  BY <1>1, <1>2, StillSaved
<1>6. CfgTypeOK'
  BY <1>1, <1>2, <1>4, <1>5 DEF CfgInv, CfgTypeOK
<1>7. Agreed'
  BY <1>1, <1>2, <1>4 DEF CfgInv, Agreed
<1> QED BY <1>2, <1>5, <1>6, <1>7 DEF CfgInv

\* An entry with a wild string is one of a key whose callers do not agree.
LEMMA WildEntryIsMixed == ASSUME CfgInv, WildEntry PROVE mixed # {}
<1> SUFFICES ASSUME mixed = {} PROVE FALSE
  OBVIOUS
<1>1. PICK i \in DOMAIN m_vecCfg : m_vecCfg[i].type = "cfg_cstr" /\ m_vecCfg[i].holds[1] # "cfg_cstr"
  BY DEF WildEntry, UsesWildString
<1>2. m_vecCfg[i] \in Entry
  BY DEF CfgInv, CfgTypeOK
<1>3. PICK k \in Keys \ mixed : i \in Entries(m_vecCfg, k)
  BY <1>2, NameKeys DEF Entry, Entries
<1>4. Says(m_vecCfg, k, kind[k], given[k])
  BY DEF CfgInv, Agreed
<1>5. m_vecCfg[i].type = kind[k] /\ m_vecCfg[i].holds = <<kind[k], given[k]>>
  BY <1>3, <1>4 DEF Says
<1> QED BY <1>1, <1>5

\* save keeps the invariant: the lines of the file agree with what the names hold.
LEMMA SaveInv == ASSUME CfgInv, Save PROVE CfgInv'
<1>1. /\ file' \in Seq(FileLine)
      /\ ~crashed' => \A e : (\E j \in DOMAIN file' : file'[j] = e)
                <=> \E i \in DOMAIN m_vecCfg : m_vecCfg[i].type # "cfg_p" /\ e = Line(i)
  BY SaveLines DEF CfgInv
<1>2. /\ m_vecCfg' = m_vecCfg /\ kind' = kind
      /\ mixed' = IF crashed' THEN Keys ELSE mixed
      /\ given' = Kept(given) /\ onDisk' = Kept(given)
      /\ crashed' \in {FALSE, WildEntry}
  BY DEF Save
<1>3. mixed \subseteq mixed' /\ mixed' \in SUBSET Keys
  BY <1>2 DEF CfgInv, CfgTypeOK
<1>4. given \in [Keys -> CfgValues \cup {Unset}]
  BY DEF CfgInv, CfgTypeOK
<1>5. /\ given' \in [Keys -> CfgValues \cup {Unset}] /\ onDisk' \in [Keys -> CfgValues \cup {Unset}]
      /\ \A k \in Keys \ mixed' : given'[k] = given[k] /\ onDisk'[k] = given[k]
  BY <1>2, <1>4, KeptOf
<1>6. CfgTypeOK'
  <2>1. crashed' \in BOOLEAN
    BY <1>2 DEF WildEntry
  <2> QED BY <1>1, <1>2, <1>3, <1>5, <2>1 DEF CfgInv, CfgTypeOK
<1>7. Agreed'
  BY <1>2, <1>3, <1>5 DEF CfgInv, Agreed
<1>8. crashed' => mixed' # {}
  BY <1>2, <1>3, WildEntryIsMixed
<1>9. CASE crashed'
  <2>1. SavedAgrees'
    BY <1>2, <1>9 DEF SavedAgrees
  <2> QED BY <1>6, <1>7, <1>8, <2>1 DEF CfgInv
<1>10. CASE ~crashed'
  <2>0. SavedAgrees'
    <3> SUFFICES ASSUME NEW k \in Keys \ mixed
                 PROVE  /\ \A i \in DOMAIN file' : Lower(file'[i].name) = k =>
                             file'[i].type = kind[k] /\ file'[i].v = given[k]
                        /\ given[k] # Unset /\ kind[k] # "cfg_p" <=>
                             \E i \in DOMAIN file' : Lower(file'[i].name) = k
      BY <1>2, <1>5, <1>10 DEF SavedAgrees
    <3>1. Says(m_vecCfg, k, kind[k], given[k])
      BY DEF CfgInv, Agreed
    <3>2. ASSUME NEW i \in DOMAIN m_vecCfg
          PROVE  /\ Line(i).name = m_vecCfg[i].name /\ Line(i).type = m_vecCfg[i].type
                 /\ Line(i).v = m_vecCfg[i].holds[2]
      BY DEF Line
    <3>3. ASSUME NEW j \in DOMAIN file', Lower(file'[j].name) = k
          PROVE  /\ file'[j].type = kind[k] /\ file'[j].v = given[k]
                 /\ given[k] # Unset /\ kind[k] # "cfg_p"
      <4>1. PICK i \in DOMAIN m_vecCfg : m_vecCfg[i].type # "cfg_p" /\ file'[j] = Line(i)
        BY <1>1, <1>10
      <4>2. i \in Entries(m_vecCfg, k)
        BY <3>2, <3>3, <4>1 DEF Entries
      <4>3. given[k] # Unset /\ m_vecCfg[i].type = kind[k] /\ m_vecCfg[i].holds = <<kind[k], given[k]>>
        BY <3>1, <4>2 DEF Says
      <4> QED BY <3>2, <4>1, <4>3
    <3>4. ASSUME given[k] # Unset, kind[k] # "cfg_p" PROVE \E j \in DOMAIN file' : Lower(file'[j].name) = k
      <4>1. PICK i \in Entries(m_vecCfg, k) : m_vecCfg[i].type = kind[k]
        BY <3>1, <3>4 DEF Says
      <4>2. i \in DOMAIN m_vecCfg /\ Lower(m_vecCfg[i].name) = k
        BY <4>1 DEF Entries
      <4>3. PICK j \in DOMAIN file' : file'[j] = Line(i)
        BY <1>1, <1>10, <3>4, <4>1, <4>2
      <4>4. Lower(file'[j].name) = k
        BY <3>2, <4>2, <4>3
      <4> QED BY <4>4
    <3> QED BY <3>3, <3>4
  <2> QED BY <1>6, <1>7, <1>8, <2>0 DEF CfgInv
<1> QED BY <1>9, <1>10

\* A new list keeps the invariant.
LEMMA ReleaseInv == ASSUME CfgInv, Release PROVE CfgInv'
<1>1. /\ file' = file /\ kind' = kind /\ mixed' = mixed /\ onDisk' = onDisk /\ m_vecCfg' = <<>>
      /\ given' = [k \in Keys |-> Unset]
      /\ crashed' \in {FALSE, ~crashed /\ WildEntry}
  BY DEF Release
<1>2. m_vecCfg' \in Seq(Entry) /\ \A k : Entries(m_vecCfg', k) = {}
  BY <1>1 DEF Entries
<1>3. CfgTypeOK'
  <2>1. crashed' \in BOOLEAN
    BY <1>1
  <2> QED BY <1>1, <1>2, <2>1 DEF CfgInv, CfgTypeOK
<1>4. SavedAgrees'
  BY <1>1 DEF CfgInv, SavedAgrees
<1>5. Agreed'
  BY <1>1, <1>2 DEF Agreed, Says
<1>6. crashed' => mixed' # {}
  BY <1>1, WildEntryIsMixed
<1> QED BY <1>3, <1>4, <1>5, <1>6 DEF CfgInv

\* Loading the file keeps the invariant.
LEMMA LoadCfgInv == ASSUME CfgInv, Load PROVE CfgInv'
<1> DEFINE g == [k \in Keys |-> IF kind[k] = "cfg_p" \/ onDisk[k] = Unset THEN given[k] ELSE onDisk[k]]
<1>1. /\ file' = file /\ kind' = kind /\ onDisk' = Kept(onDisk) /\ given' = Kept(g)
      /\ mixed' = mixed \cup {k \in {Lower(file[n].name) : n \in DOMAIN file} : kind[k] = "cfg_u"}
  BY DEF Load
<1>2. /\ m_vecCfg' \in Seq(Entry)
      /\ \A k \in Keys \ mixed' : Says(m_vecCfg', k, kind[k], ValueIn(Len(file), k))
      /\ crashed' => mixed' # {}
  BY LoadSays
<1>3. mixed \subseteq mixed' /\ mixed' \in SUBSET Keys
  <2>1. \A n \in DOMAIN file : file[n].name \in Names
    <3>1. \A n \in DOMAIN file : file[n] \in FileLine
      BY DEF CfgInv, CfgTypeOK
    <3> QED BY <3>1 DEF FileLine
  <2> QED BY <1>1, <2>1, NameKeys DEF CfgInv, CfgTypeOK
<1>4. g \in [Keys -> CfgValues \cup {Unset}]
  BY DEF CfgInv, CfgTypeOK
<1>5. \A k \in Keys : g[k] = IF kind[k] = "cfg_p" \/ onDisk[k] = Unset THEN given[k] ELSE onDisk[k]
  OBVIOUS
<1> HIDE DEF g
<1>6. given' \in [Keys -> CfgValues \cup {Unset}] /\ \A k \in Keys \ mixed' : given'[k] = g[k]
  BY <1>1, <1>4, KeptOf
<1>7. SavedAgrees' /\ onDisk' \in [Keys -> CfgValues \cup {Unset}]
  BY <1>1, <1>3, StillSaved
<1>8. CfgTypeOK'
  <2>1. crashed' \in BOOLEAN
    BY DEF Load
  <2> QED BY <1>1, <1>2, <1>3, <1>6, <1>7, <2>1 DEF CfgInv, CfgTypeOK
<1>9. ASSUME NEW k \in Keys \ mixed' PROVE given'[k] = ValueIn(Len(file), k)
  <2>1. DOMAIN file = 1 .. Len(file)
    BY DEF CfgInv, CfgTypeOK
  <2>2. onDisk[k] # Unset /\ kind[k] # "cfg_p" <=> \E i \in 1 .. Len(file) : Lower(file[i].name) = k
    BY <1>3, <2>1 DEF CfgInv, SavedAgrees
  <2> QED BY <1>5, <1>6, <2>2 DEF ValueIn
<1>10. Agreed'
  BY <1>1, <1>2, <1>9 DEF Agreed
<1> QED BY <1>2, <1>7, <1>8, <1>10 DEF CfgInv

\* Every step of a server on its settings keeps the invariant.
LEMMA CfgNextInv == ASSUME CfgInv, [CfgNext]_cfgVars PROVE CfgInv'
<1>1. CASE CfgCall
  <2>1. PICK name \in Names, t \in Types, v \in CfgValues :
          \/ \E ref \in 0 .. Len(m_vecCfg) : Set(name, ref, t, v) \/ Get(name, NoAlias, ref, t, v)
          \/ \E alias \in Names : Get(name, alias, NoRef, t, v)
    BY <1>1 DEF CfgCall
  <2>2. NoRef \in 0 .. Len(m_vecCfg)
    BY DEF CfgInv, CfgTypeOK, NoRef
  <2> QED BY <2>1, <2>2, SetInv, GetInv
<1>2. CASE \E name \in Names : UseStaleRef(name)
  BY <1>2, StaleInv
<1>3. CASE Save
  BY <1>3, SaveInv
<1>4. CASE Release
  BY <1>4, ReleaseInv
<1>5. CASE Load
  BY <1>5, LoadCfgInv
<1>6. CASE UNCHANGED cfgVars
  BY <1>6 DEF cfgVars, CfgInv, CfgTypeOK, Agreed, SavedAgrees
<1> QED BY <1>1, <1>2, <1>3, <1>4, <1>5, <1>6 DEF CfgNext

\* A name whose callers agree on its type, and use no reference of another name nor are
\* used through one, keeps the value it was last given through set, get, save, release
\* and load, for any number of names, values, references and lines.
THEOREM KeepsValueHolds == CfgSpec => []KeepsValue
<1>1. CfgInv => KeepsValue
  BY DEF CfgInv, Agreed, Says, Entries, KeepsValue
<1> QED BY <1>1, CfgInitInv, CfgNextInv, PTL DEF CfgSpec

-----------------------------------------------------------------------------
\* The line end of L bytes.
EndOf(L) == IF L = 1 THEN <<LF>> ELSE <<CR, LF>>

\* The bytes F are those of the lines, with line ends of L bytes; E[j] is where line
\* j ends.
FileShape(lines, F, E, L) ==
  /\ L \in {1, 2}
  /\ F \in Seq(Int)
  /\ E \in [0 .. Len(lines) -> Nat]
  /\ E[0] = 0 /\ Len(F) = E[Len(lines)]
  /\ \A j \in 1 .. Len(lines) :
       /\ E[j] <= Len(F)
       /\ E[j - 1] + L < E[j] /\ E[j] <= E[j - 1] + MaxLine + L
       /\ lines[j] = [i \in 1 .. (E[j] - L) - E[j - 1] |-> F[E[j - 1] + i]]
       /\ \A q \in E[j - 1] + 1 .. E[j] - 1 : F[q] # LF
       /\ F[E[j]] = LF
       /\ L = 2 => F[E[j] - 1] = CR
  /\ \A q \in 1 .. Len(F) : F[q] # NUL /\ (L = 1 => F[q] # CR)

\* The buffer w holds the z bytes of F behind position b, and a zero.
Window(w, F, b, z) ==
  /\ w \in [0 .. 2 * Block - 1 -> Int]
  /\ b \in Nat /\ z \in Nat /\ z <= Block /\ b + z <= Len(F)
  /\ \A i \in 0 .. z - 1 : w[i] = F[b + i + 1]
  /\ w[z] = NUL

\* The least of a set is the only one of its elements that is below all.
LEMMA MinIs ==
  ASSUME NEW T \in SUBSET Nat, NEW x \in T, \A y \in T : x <= y
  PROVE  Min(T) = x
<1>1. Min(T) \in T /\ \A y \in T : Min(T) <= y
  BY LeastNumber
<1>2. Min(T) \in Nat /\ x \in Nat /\ Min(T) <= x /\ x <= Min(T)
  BY <1>1
<1> QED BY <1>2

\* A C string in the buffer goes up to the zero.
LEMMA StrlenOf ==
  ASSUME NEW F \in Seq(Int), \A q \in 1 .. Len(F) : F[q] # NUL,
         NEW w, NEW b, NEW z, Window(w, F, b, z), NEW p \in 0 .. z
  PROVE  Strlen(w, p) = z - p
<1>1. PICK M \in Nat : M = 2 * Block - 1 /\ Block <= M
  BY BlockAssumption
<1>2. b \in Nat /\ z \in Nat /\ z <= M /\ b + z <= Len(F) /\ Len(F) \in Nat
  BY <1>1, BlockAssumption DEF Window
<1> DEFINE T == {i \in p .. M : w[i] = NUL}
<1>3. T \in SUBSET Nat /\ z \in T
  BY <1>2 DEF Window
<1>4. ASSUME NEW i \in T PROVE z <= i
  <2> SUFFICES ASSUME i < z PROVE FALSE
    BY <1>2
  <2>1. i \in 0 .. z - 1 /\ b + i + 1 \in 1 .. Len(F)
    BY <1>2
  <2>2. w[i] = F[b + i + 1]
    BY <2>1 DEF Window
  <2> QED BY <2>1, <2>2
<1>5. Min(T) = z
  <2> HIDE DEF T
  <2> QED BY <1>3, <1>4, MinIs
<1> QED BY <1>1, <1>5 DEF Strlen

\* What Finds returns from position p on.
FindsIn(w, F, b, z, p) ==
  /\ Finds(w, p, <<LF>>) = {i \in p .. z - 1 : F[b + i + 1] = LF}
  /\ Finds(w, p, <<CR, LF>>) = {i \in p .. z - 2 : F[b + i + 1] = CR /\ F[b + i + 2] = LF}

\* The line ends in the buffer are those in its part of the file.
LEMMA FindsOf ==
  ASSUME NEW F \in Seq(Int), \A q \in 1 .. Len(F) : F[q] # NUL,
         NEW w, NEW b, NEW z, Window(w, F, b, z), NEW p \in 0 .. z
  PROVE  FindsIn(w, F, b, z, p)
<1>1. b \in Nat /\ z \in Nat /\ b + z <= Len(F) /\ Len(F) \in Nat
  BY DEF Window
<1>2. Strlen(w, p) = z - p
  BY StrlenOf
<1>4. ASSUME NEW i \in 0 .. z - 1 PROVE w[i] = F[b + i + 1]
  BY DEF Window
<1>5. Finds(w, p, <<LF>>) = {i \in p .. z - 1 : F[b + i + 1] = LF}
  <2>1. PICK e : e = <<LF>>
    OBVIOUS
  <2>2. Len(e) = 1 /\ e[1] = LF /\ 1 .. Len(e) = {1}
    BY <2>1
  <2>3. p .. p + Strlen(w, p) - Len(e) = p .. z - 1
    BY <1>1, <1>2, <2>2
  <2>4. Finds(w, p, e) = {i \in p .. z - 1 : w[i + 1 - 1] = LF}
    BY <2>2, <2>3 DEF Finds
  <2>5. ASSUME NEW i \in p .. z - 1 PROVE w[i + 1 - 1] = F[b + i + 1]
    BY <1>1, <1>4
  <2> QED BY <2>1, <2>4, <2>5
<1>6. Finds(w, p, <<CR, LF>>) = {i \in p .. z - 2 : F[b + i + 1] = CR /\ F[b + i + 2] = LF}
  <2>1. PICK e : e = <<CR, LF>>
    OBVIOUS
  <2>2. Len(e) = 2 /\ e[1] = CR /\ e[2] = LF /\ 1 .. Len(e) = {1, 2}
    BY <2>1
  <2>3. p .. p + Strlen(w, p) - Len(e) = p .. z - 2
    BY <1>1, <1>2, <2>2
  <2>4. Finds(w, p, e) = {i \in p .. z - 2 : w[i + 1 - 1] = CR /\ w[i + 2 - 1] = LF}
    BY <2>2, <2>3 DEF Finds
  <2>5. ASSUME NEW i \in p .. z - 2
        PROVE  w[i + 1 - 1] = F[b + i + 1] /\ w[i + 2 - 1] = F[b + i + 2]
    <3>1. /\ i \in 0 .. z - 1 /\ i + 1 \in 0 .. z - 1
          /\ i + 1 - 1 = i /\ i + 2 - 1 = i + 1 /\ b + (i + 1) + 1 = b + i + 2
      BY <1>1
    <3> QED BY <3>1, <1>4
  <2> QED BY <2>1, <2>4, <2>5
<1> QED BY <1>5, <1>6 DEF FindsIn

\* The line behind line j starts behind position x and ends at y.
LineAt(lines, F, E, L, j, x, y) ==
  /\ x = E[j] /\ y = E[j + 1]
  /\ x \in Nat /\ y \in Nat /\ y <= Len(F) /\ Len(F) \in Nat
  /\ x + L < y /\ y <= x + MaxLine + L
  /\ lines[j + 1] = [i \in 1 .. (y - L) - x |-> F[x + i]]
  /\ \A q \in x + 1 .. y - 1 : F[q] # LF
  /\ F[y] = LF
  /\ L = 2 => F[y - 1] = CR

\* What the shape of a file says of one line.
LEMMA LineOf ==
  ASSUME NEW lines, Len(lines) \in Nat, NEW F, NEW E, NEW L, FileShape(lines, F, E, L),
         NEW j \in 0 .. Len(lines) - 1
  PROVE  LineAt(lines, F, E, L, j, E[j], E[j + 1])
<1>1. j + 1 \in 1 .. Len(lines) /\ (j + 1) - 1 = j /\ j \in 0 .. Len(lines) /\ j + 1 \in 0 .. Len(lines)
  OBVIOUS
<1>2. PICK k : k = j + 1
  OBVIOUS
<1>3. /\ E[k] <= Len(F)
      /\ E[k - 1] + L < E[k] /\ E[k] <= E[k - 1] + MaxLine + L
      /\ lines[k] = [i \in 1 .. (E[k] - L) - E[k - 1] |-> F[E[k - 1] + i]]
      /\ \A q \in E[k - 1] + 1 .. E[k] - 1 : F[q] # LF
      /\ F[E[k]] = LF
      /\ L = 2 => F[E[k] - 1] = CR
  BY <1>1, <1>2 DEF FileShape
<1>4. E[j] \in Nat /\ E[j + 1] \in Nat /\ Len(F) \in Nat
  <2>1. E \in [0 .. Len(lines) -> Nat] /\ F \in Seq(Int)
    BY DEF FileShape
  <2> QED BY <1>1, <2>1
<1>5. k - 1 = j
  BY <1>1, <1>2
<1>6. PICK x, y : x = E[j] /\ y = E[j + 1]
  OBVIOUS
<1>7. E[k - 1] = x /\ E[k] = y
  BY <1>2, <1>5, <1>6
<1>8. LineAt(lines, F, E, L, j, x, y)
  BY <1>2, <1>3, <1>4, <1>6, <1>7, Zenon DEF LineAt
<1> QED BY <1>6, <1>8

\* From the end of line j on Finds returns the end of the next line, at least.
NextEnd(w, E, L, j, b) ==
  /\ Finds(w, E[j] - b, EndOf(L)) # {}
  /\ Min(Finds(w, E[j] - b, EndOf(L))) = (E[j + 1] - L) - b

\* The first line end behind the start of a line is the end of that line.
LEMMA FirstEnd ==
  ASSUME NEW lines, Len(lines) \in Nat, NEW F, NEW E, NEW L, FileShape(lines, F, E, L),
         NEW j \in 0 .. Len(lines) - 1,
         NEW w, NEW b, NEW z, Window(w, F, b, z), b <= E[j], E[j + 1] <= b + z
  PROVE  NextEnd(w, E, L, j, b)
<1>0. LineAt(lines, F, E, L, j, E[j], E[j + 1])
  BY LineOf
<1>1. PICK x \in Nat, y \in Nat : x = E[j] /\ y = E[j + 1]
  BY <1>0 DEF LineAt
<1>2. /\ x + L < y /\ y <= Len(F) /\ Len(F) \in Nat
      /\ \A q \in x + 1 .. y - 1 : F[q] # LF
      /\ F[y] = LF
      /\ L = 2 => F[y - 1] = CR
  BY <1>0, <1>1 DEF LineAt
<1>3. F \in Seq(Int) /\ (\A q \in 1 .. Len(F) : F[q] # NUL) /\ L \in {1, 2}
  BY DEF FileShape
<1>4. b \in Nat /\ z \in Nat /\ b <= x /\ y <= b + z
  BY <1>1 DEF Window
<1>5. x - b \in 0 .. z /\ x - b \in Nat
  BY <1>2, <1>3, <1>4
<1>6. PICK p \in 0 .. z : p = x - b
  BY <1>5
<1>7. /\ Finds(w, p, <<LF>>) = {i \in p .. z - 1 : F[b + i + 1] = LF}
      /\ Finds(w, p, <<CR, LF>>) = {i \in p .. z - 2 : F[b + i + 1] = CR /\ F[b + i + 2] = LF}
  <2>1. FindsIn(w, F, b, z, p)
    BY <1>3, FindsOf
  <2> QED BY <2>1 DEF FindsIn
<1>8. PICK T : T = Finds(w, p, EndOf(L))
  OBVIOUS
<1>9. CASE L = 1
  <2>1. T = {i \in p .. z - 1 : F[b + i + 1] = LF}
    BY <1>7, <1>8, <1>9 DEF EndOf
  <2>2. PICK m \in Nat : m = (y - L) - b /\ m \in p .. z - 1 /\ b + m + 1 = y
    BY <1>2, <1>4, <1>6, <1>9
  <2>3. m \in T /\ T \in SUBSET Nat
    BY <2>1, <2>2, <1>2
  <2>4. ASSUME NEW i \in T PROVE m <= i
    <3> SUFFICES ASSUME i < m PROVE FALSE
      BY <2>2, <2>3
    <3>1. i \in p .. z - 1 /\ F[b + i + 1] = LF
      BY <2>1
    <3>2. b + i + 1 \in x + 1 .. y - 1
      BY <2>2, <3>1, <1>4, <1>6
    <3> QED BY <3>1, <3>2, <1>2
  <2>5. Min(T) = m
    BY <2>3, <2>4, MinIs
  <2> QED BY <1>1, <1>6, <1>8, <2>2, <2>3, <2>5 DEF NextEnd
<1>10. CASE L = 2
  <2>1. T = {i \in p .. z - 2 : F[b + i + 1] = CR /\ F[b + i + 2] = LF}
    BY <1>7, <1>8, <1>10 DEF EndOf
  <2>2. PICK m \in Nat : m = (y - L) - b /\ m \in p .. z - 2 /\ b + m + 2 = y /\ b + m + 1 = y - 1
    BY <1>2, <1>4, <1>6, <1>10
  <2>3. m \in T /\ T \in SUBSET Nat
    BY <2>1, <2>2, <1>2, <1>10
  <2>4. ASSUME NEW i \in T PROVE m <= i
    <3> SUFFICES ASSUME i < m PROVE FALSE
      BY <2>2, <2>3
    <3>1. i \in p .. z - 2 /\ F[b + i + 2] = LF
      BY <2>1
    <3>2. b + i + 2 \in x + 1 .. y - 1
      BY SMTT(30), <2>2, <3>1, <1>4, <1>6
    <3> QED BY <3>1, <3>2, <1>2
  <2>5. Min(T) = m
    BY <2>3, <2>4, MinIs
  <2> QED BY <1>1, <1>6, <1>8, <2>2, <2>3, <2>5 DEF NextEnd
<1> QED BY <1>3, <1>9, <1>10

\* A line that does not end in the buffer shows no line end there.
LEMMA NoEnd ==
  ASSUME NEW lines, Len(lines) \in Nat, NEW F, NEW E, NEW L, FileShape(lines, F, E, L),
         NEW j \in 0 .. Len(lines),
         NEW w, NEW b, NEW z, Window(w, F, b, z), b <= E[j], E[j] <= b + z,
         j < Len(lines) => b + z < E[j + 1]
  PROVE  Finds(w, E[j] - b, EndOf(L)) = {}
<1>1. F \in Seq(Int) /\ Len(F) \in Nat /\ (\A q \in 1 .. Len(F) : F[q] # NUL) /\ L \in {1, 2}
  BY DEF FileShape
<1>2. PICK x \in Nat : x = E[j]
  BY DEF FileShape
<1>3. b \in Nat /\ z \in Nat /\ b <= x /\ x <= b + z /\ b + z <= Len(F)
  BY <1>2 DEF Window
<1>4. PICK p \in 0 .. z : p = x - b
  BY <1>3
<1>5. /\ Finds(w, p, <<LF>>) = {i \in p .. z - 1 : F[b + i + 1] = LF}
      /\ Finds(w, p, <<CR, LF>>) = {i \in p .. z - 2 : F[b + i + 1] = CR /\ F[b + i + 2] = LF}
  <2>1. FindsIn(w, F, b, z, p)
    BY <1>1, FindsOf
  <2> QED BY <2>1 DEF FindsIn
<1>6. ASSUME NEW q \in x + 1 .. b + z PROVE F[q] # LF
  <2>1. CASE j = Len(lines)
    <3>1. x = Len(F)
      BY <1>2, <2>1 DEF FileShape
    <3> QED BY <1>1, <1>3, <3>1
  <2>2. CASE j # Len(lines)
    <3>1. j \in 0 .. Len(lines) - 1 /\ j < Len(lines)
      BY <2>2
    <3>0. LineAt(lines, F, E, L, j, E[j], E[j + 1])
      BY <3>1, LineOf
    <3>2. PICK y \in Nat : y = E[j + 1] /\ \A h \in x + 1 .. y - 1 : F[h] # LF
      BY <1>2, <3>0 DEF LineAt
    <3>3. q \in x + 1 .. y - 1
      BY <1>3, <3>1, <3>2
    <3> QED BY <3>2, <3>3
  <2> QED BY <2>1, <2>2
<1>7. ASSUME NEW i \in p .. z - 1 PROVE F[b + i + 1] # LF
  <2>1. b + i + 1 \in x + 1 .. b + z
    BY <1>3, <1>4
  <2> QED BY <1>6, <2>1
<1>8. ASSUME NEW i \in p .. z - 2 PROVE F[b + i + 2] # LF
  <2>1. b + i + 2 \in x + 1 .. b + z
    BY <1>3, <1>4
  <2> QED BY <1>6, <2>1
<1>9. CASE L = 1
  BY <1>2, <1>4, <1>5, <1>7, <1>9 DEF EndOf
<1>10. CASE L = 2
  BY <1>2, <1>4, <1>5, <1>8, <1>10 DEF EndOf
<1> QED BY <1>1, <1>9, <1>10

\* The bytes t are those of s behind position a.
Suffix(s, a, t) ==
  /\ t \in Seq(Int) /\ Len(t) = Len(s) - a /\ Len(t) \in Nat
  /\ \A i \in 1 .. Len(s) - a : t[i] = s[a + i]

\* A rest of a sequence is the bytes behind a position.
LEMMA SuffixOf ==
  ASSUME NEW s \in Seq(Int), NEW a \in Nat, a <= Len(s)
  PROVE  Suffix(s, a, SubSeq(s, a + 1, Len(s)))
BY DEF Suffix

\* Sequences of one length with the same elements are equal.
LEMMA SameSequence ==
  ASSUME NEW u \in Seq(Int), NEW v \in Seq(Int), Len(u) = Len(v), \A i \in 1 .. Len(v) : u[i] = v[i]
  PROVE  u = v
<1>1. u = [i \in 1 .. Len(u) |-> u[i]] /\ v = [i \in 1 .. Len(v) |-> v[i]]
  OBVIOUS
<1> QED BY <1>1

\* A rest of a rest is a rest.
LEMMA SuffixTwice ==
  ASSUME NEW s \in Seq(Int), NEW a \in Nat, a <= Len(s), NEW n \in Nat, n <= Len(s) - a
  PROVE  SubSeq(SubSeq(s, a + 1, Len(s)), n + 1, Len(s) - a) = SubSeq(s, a + n + 1, Len(s))
<1>1. PICK t : t = SubSeq(s, a + 1, Len(s))
  OBVIOUS
<1>2. t \in Seq(Int) /\ Len(t) = Len(s) - a /\ \A i \in 1 .. Len(s) - a : t[i] = s[a + i]
  <2>1. Suffix(s, a, t)
    BY <1>1, SuffixOf
  <2> QED BY <2>1 DEF Suffix
<1>3. PICK v : v = SubSeq(t, n + 1, Len(t))
  OBVIOUS
<1>4. v \in Seq(Int) /\ Len(v) = Len(t) - n /\ \A i \in 1 .. Len(t) - n : v[i] = t[n + i]
  <2>1. n <= Len(t)
    BY <1>2
  <2>2. Suffix(t, n, v)
    BY <1>2, <1>3, <2>1, SuffixOf
  <2> QED BY <2>2 DEF Suffix
<1>5. PICK x : x = SubSeq(s, (a + n) + 1, Len(s))
  OBVIOUS
<1>6. x \in Seq(Int) /\ Len(x) = Len(s) - (a + n) /\ \A i \in 1 .. Len(s) - (a + n) : x[i] = s[(a + n) + i]
  <2>1. PICK m \in Nat : m = a + n /\ m <= Len(s)
    OBVIOUS
  <2>2. Suffix(s, m, x)
    BY <1>5, <2>1, SuffixOf
  <2> QED BY <2>1, <2>2 DEF Suffix
<1>7. Len(v) = Len(x) /\ \A i \in 1 .. Len(x) : v[i] = x[i]
  <2>1. Len(v) = Len(x) /\ Len(x) = Len(s) - (a + n)
    BY <1>2, <1>4, <1>6
  <2>2. ASSUME NEW i \in 1 .. Len(x) PROVE v[i] = x[i]
    <3>1. i \in 1 .. Len(t) - n /\ n + i \in 1 .. Len(s) - a /\ a + (n + i) = (a + n) + i
      BY <1>2, <1>6
    <3> QED BY <1>2, <1>4, <1>6, <3>1
  <2> QED BY <2>1, <2>2
<1>8. v = x
  BY <1>4, <1>6, <1>7, SameSequence
<1> QED BY <1>1, <1>2, <1>3, <1>5, <1>8

\* The first j elements and the next one are the first j + 1.
LEMMA PrefixGrows ==
  ASSUME NEW S, NEW T \in Seq(S), NEW j \in Nat, j < Len(T)
  PROVE  /\ Append(SubSeq(T, 1, j), T[j + 1]) = SubSeq(T, 1, j + 1)
         /\ Len(SubSeq(T, 1, j + 1)) = j + 1
OBVIOUS

\* Between two blocks the buffer holds the start of a line, up to offset.
AtRead(F, E) ==
  LET b == E[Len(set)]
  IN /\ offset \in Nat /\ b + offset <= Len(F)
     /\ unread = SubSeq(F, b + offset + 1, Len(F))
     /\ \A i \in 0 .. offset - 1 : buf[i] = F[b + i + 1]
     /\ Len(set) < Len(text) => b + offset < E[Len(set) + 1]

\* Within a block the buffer holds a part of the file in which the line in turn ends.
AtLine(F, E, L, b, z) ==
  /\ Window(buf, F, b, z)
  /\ unread = SubSeq(F, b + z + 1, Len(F))
  /\ b <= E[Len(set)] /\ prev = E[Len(set)] - b
  /\ Len(set) < Len(text) /\ E[Len(set) + 1] <= b + z
  /\ is_unix = (L = 1)

LoadShape(F, E, L) ==
  /\ text \in Seq(Seq(Int))
  /\ FileShape(text, F, E, L)
  /\ buf \in [0 .. 2 * Block - 1 -> Int]
  /\ Len(set) \in 0 .. Len(text)
  /\ set = SubSeq(text, 1, Len(set))
  /\ loadPc \in {"read", "line", "done"}
  /\ loadPc = "read" => AtRead(F, E)
  /\ loadPc = "line" => \E b, z : AtLine(F, E, L, b, z)
  /\ loadPc = "done" => Len(set) = Len(text)

LoadInv == \E F, E, L : LoadShape(F, E, L)

\* fread keeps the invariant: the new bytes come behind the rest that was kept, and a
\* line that is cut is not taken for a whole one.
LEMMA ReadInv == ASSUME LoadInv, ReadBlock PROVE LoadInv'
<1>1. PICK F, E, L : LoadShape(F, E, L)
  BY DEF LoadInv
<1>2. loadPc = "read" /\ AtRead(F, E) /\ FileShape(text, F, E, L) /\ text \in Seq(Seq(Int))
  BY <1>1 DEF LoadShape, ReadBlock
<1>3. PICK N \in Nat, j \in Nat : N = Len(text) /\ j = Len(set) /\ j <= N
  <2>1. Len(text) \in Nat /\ Len(set) \in 0 .. Len(text)
    BY <1>1, <1>2 DEF LoadShape
  <2> QED BY <2>1
<1>4. PICK b \in Nat, len \in Nat : b = E[j] /\ len = Len(F)
  BY <1>2, <1>3 DEF FileShape
<1>5. /\ F \in Seq(Int) /\ L \in {1, 2} /\ len = E[N]
      /\ \A q \in 1 .. len : F[q] # NUL /\ (L = 1 => F[q] # CR)
  BY <1>2, <1>3, <1>4 DEF FileShape
<1>6. PICK r \in Nat : r = offset
  BY <1>2 DEF AtRead
<1>7. /\ b + r <= len
      /\ unread = SubSeq(F, b + r + 1, len)
      /\ \A i \in 0 .. r - 1 : buf[i] = F[b + i + 1]
      /\ j < N => b + r < E[j + 1]
  BY <1>2, <1>3, <1>4, <1>6 DEF AtRead
<1>8. PICK u \in Nat : u = Len(unread) /\ u = len - (b + r) /\ \A i \in 1 .. u : unread[i] = F[b + r + i]
  <2>1. PICK a \in Nat : a = b + r /\ a <= Len(F)
    BY <1>4, <1>6, <1>7
  <2>2. Suffix(F, a, SubSeq(F, a + 1, Len(F)))
    BY <1>5, <2>1, SuffixOf
  <2> QED BY <1>4, <1>7, <2>1, <2>2 DEF Suffix
<1>9. j < N => LineAt(text, F, E, L, j, b, E[j + 1])
  <2> SUFFICES ASSUME j < N PROVE LineAt(text, F, E, L, j, b, E[j + 1])
    OBVIOUS
  <2>1. Len(text) \in Nat /\ j \in 0 .. Len(text) - 1
    BY <1>3
  <2> QED BY <1>2, <1>4, <2>1, LineOf
<1>10. j = N => b = len
  BY <1>4, <1>5
<1>t. N \in Nat /\ j \in Nat /\ j <= N /\ b \in Nat /\ len \in Nat /\ r \in Nat /\ u \in Nat
  BY <1>3, <1>4, <1>6, <1>8
<1>11. r < Block /\ Block \in Nat
  <2>1. CASE j < N
    <3>1. /\ E[j + 1] \in Nat /\ E[j + 1] <= b + MaxLine + L /\ b + r < E[j + 1]
      BY <2>1, <1>7, <1>9 DEF LineAt
    <3> QED BY <1>5, <1>t, <3>1, BlockAssumption
  <2>2. CASE j = N
    BY <2>2, <1>t, <1>7, <1>10, BlockAssumption
  <2> QED BY <1>t, <2>1, <2>2
<1>12. PICK n \in Nat : /\ n = Min({Block - offset, Len(unread)})
                        /\ n <= Block - r /\ n <= u /\ (n = Block - r \/ n = u)
  <2>1. PICK T : T = {Block - r, u}
    OBVIOUS
  <2>2. T \in SUBSET Nat /\ T # {}
    BY <1>t, <1>11, <2>1
  <2>3. Min(T) \in T /\ \A y \in T : Min(T) <= y
    BY <2>2, LeastNumber
  <2> QED BY <1>t, <1>6, <1>8, <1>11, <2>1, <2>2, <2>3
<1>a. n \in Nat /\ u = len - (b + r) /\ n <= Block - r /\ n <= u /\ (n = Block - r \/ n = u)
  BY <1>8, <1>12
<1>13. text' = text /\ set' = set /\ offset' = offset
  BY DEF ReadBlock
<1>14. CASE n = 0
  <2>1. loadPc' = "done" /\ buf' = buf
    BY <1>12, <1>14 DEF ReadBlock
  <2>2. u = 0
    BY <1>t, <1>11, <1>12, <1>14
  <2>3. j = N
    <3> SUFFICES ASSUME j < N PROVE FALSE
      BY <1>t
    <3>1. E[j + 1] \in Nat /\ E[j + 1] <= len
      BY <1>4, <1>9 DEF LineAt
    <3> QED BY <2>2, <1>t, <1>7, <1>8, <3>1
  <2>4. LoadShape(F, E, L)'
    BY <1>1, <1>3, <1>13, <2>1, <2>3 DEF LoadShape
  <2> QED BY <2>4 DEF LoadInv
<1>15. CASE n # 0
  <2>1. PICK z \in Nat : z = r + n
    BY <1>t, <1>12
  <2>2. z <= Block /\ z \in 1 .. Block /\ b + z <= len /\ (z = Block \/ b + z = len) /\ z - 1 \in Nat
    BY <1>t, <1>a, <1>11, <1>15, <2>1
  <2>3. j < N
    BY <1>t, <1>10, <2>1, <2>2
  <2>4. PICK y \in Nat : /\ y = E[j + 1] /\ LineAt(text, F, E, L, j, b, y)
    BY <1>9, <2>3 DEF LineAt
  <2>5. b + r < y /\ y <= b + z
    <3>1. y <= b + MaxLine + L /\ y <= len /\ b + r < y /\ y \in Nat
      BY <1>4, <1>7, <2>3, <2>4 DEF LineAt
    <3> QED BY <1>t, <1>5, <2>1, <2>2, <3>1, BlockAssumption
  <2>6. PICK M \in Nat : M = 2 * Block - 1 /\ Block <= M
    BY <1>11
  <2>7. buf \in [0 .. M -> Int]
    BY <1>1, <2>6 DEF LoadShape
  <2>8. PICK R : R = [i \in 0 .. M |-> IF i \in r .. z - 1 THEN unread[i - r + 1]
                                         ELSE IF i = z THEN NUL ELSE buf[i]]
    OBVIOUS
  <2>9. ASSUME NEW i \in 0 .. z - 1 PROVE R[i] = F[b + i + 1] /\ R[i] \in Int
    <3>1. i \in 0 .. M /\ b + i + 1 \in 1 .. len
      BY <1>t, <1>11, <2>1, <2>2, <2>6, SMTT(30)
    <3>2. R[i] = IF i \in r .. z - 1 THEN unread[i - r + 1] ELSE buf[i]
      <4>1. i # z
        BY <2>2
      <4> QED BY <2>8, <3>1, <4>1, ZenonT(30)
    <3>3. CASE i < r
      <4>1. i \in 0 .. r - 1 /\ ~(i \in r .. z - 1)
        BY <1>t, <2>1, <3>3
      <4> QED BY <1>7, <2>7, <3>1, <3>2, <4>1
    <3>4. CASE r <= i
      <4>1. i \in r .. z - 1 /\ i - r + 1 \in 1 .. u /\ b + r + (i - r + 1) = b + i + 1
        BY <1>t, <1>12, <2>1, <3>4
      <4>2. R[i] = F[b + i + 1]
        BY <1>8, <3>2, <4>1
      <4>3. F[b + i + 1] \in Int
        <5>1. \A q \in 1 .. len : F[q] \in Int
          <6>1. F \in Seq(Int) /\ len = Len(F)
            BY <1>4, <1>5
          <6> QED BY <6>1
        <5> QED BY <3>1, <5>1
      <4> QED BY <4>2, <4>3
    <3> QED BY <3>3, <3>4
  <2>10. R[z] = NUL
    <3>1. z \in 0 .. M /\ ~(z \in r .. z - 1)
      BY <1>t, <1>11, <2>1, <2>2, <2>6
    <3> QED BY <2>8, <3>1
  <2>11. R \in [0 .. M -> Int]
    <3>1. ASSUME NEW i \in 0 .. M PROVE R[i] \in Int
      <4>1. CASE i \in 0 .. z - 1
        BY <2>9, <4>1
      <4>2. CASE i = z
        BY <2>10, <4>2 DEF NUL
      <4>3. CASE i \notin 0 .. z - 1 /\ i # z
        <5>1. i \notin r .. z - 1
          BY <4>3
        <5> QED BY <2>7, <2>8, <4>3, <5>1
      <4> QED BY <4>1, <4>2, <4>3
    <3> QED BY <2>8, <3>1
  <2>12. Window(R, F, b, z)
    BY <1>4, <2>2, <2>6, <2>9, <2>10, <2>11 DEF Window
  <2>13. buf' = R
    <3>1. DOMAIN buf = 0 .. M
      BY <2>7
    <3>2. z + 2 < Block => R[z - 1] = LF
      <4> SUFFICES ASSUME z + 2 < Block PROVE R[z - 1] = LF
        OBVIOUS
      <4>1. b + z = len /\ z - 1 \in 0 .. z - 1 /\ b + (z - 1) + 1 = len
        BY <2>2
      <4>2. N - 1 \in 0 .. N - 1 /\ (N - 1) + 1 = N
        BY <2>3
      <4>3. LineAt(text, F, E, L, N - 1, E[N - 1], E[(N - 1) + 1])
        BY <1>2, <1>3, <4>2, LineOf
      <4>4. F[len] = LF
        BY <1>5, <4>2, <4>3 DEF LineAt
      <4> QED BY <2>9, <4>1, <4>4
    <3>3. buf' = WithLineEnd(n)
      BY <1>12, <1>15 DEF ReadBlock
    <3>4. WithLineEnd(n) = IF z + 2 < Block /\ R[z - 1] # LF
                             THEN [R EXCEPT ![z] = CR, ![z + 1] = LF] ELSE R
      BY <1>6, <2>1, <2>8, <3>1, Zenon DEF WithLineEnd
    <3> QED BY <3>2, <3>3, <3>4
  <2>14. unread' = SubSeq(F, b + z + 1, len)
    <3>1. unread' = SubSeq(unread, n + 1, u)
      BY <1>8, <1>12, <1>15 DEF ReadBlock
    <3>2. PICK a \in Nat : a = b + r /\ a <= Len(F) /\ n <= Len(F) - a
      <4>1. b + r \in Nat /\ b + r <= len /\ n <= len - (b + r)
        BY <1>t, <1>a, <1>7
      <4> QED BY <1>4, <4>1
    <3>3. unread = SubSeq(F, a + 1, Len(F)) /\ u = Len(F) - a
      BY <1>4, <1>7, <1>8, <3>2
    <3>4. SubSeq(SubSeq(F, a + 1, Len(F)), n + 1, Len(F) - a) = SubSeq(F, a + n + 1, Len(F))
      BY ZenonT(30), <1>5, <1>12, <3>2, SuffixTwice
    <3>5. a + n + 1 = b + z + 1
      BY <1>t, <1>12, <2>1, <3>2
    <3> QED BY <1>4, <3>1, <3>3, <3>4, <3>5
  <2>15. E[j] - b = 0 /\ b <= E[j]
    <3>1. b - b = 0 /\ b <= b
      BY <1>t
    <3> QED BY <1>4, <3>1
  <2>16. Finds(R, 0, EndOf(L)) # {}
    <3>1. j \in 0 .. Len(text) - 1 /\ Len(text) \in Nat /\ b <= E[j] /\ E[j + 1] <= b + z
      BY <1>3, <2>3, <2>4, <2>5, <2>15
    <3>2. NextEnd(R, E, L, j, b)
      BY <1>2, <2>12, <3>1, FirstEnd
    <3> QED BY <2>15, <3>2 DEF NextEnd
  <2>17. L = 1 => Finds(R, 0, <<CR, LF>>) = {}
    <3> SUFFICES ASSUME L = 1 PROVE Finds(R, 0, <<CR, LF>>) = {}
      OBVIOUS
    <3>1. 0 \in 0 .. z
      OBVIOUS
    <3>2. FindsIn(R, F, b, z, 0)
      BY <1>4, <1>5, <2>12, <3>1, FindsOf
    <3>3. ASSUME NEW i \in 0 .. z - 2 PROVE F[b + i + 1] # CR
      <4>1. b + i + 1 \in 1 .. len
        BY <2>2
      <4> QED BY <1>5, <4>1
    <3> QED BY <3>2, <3>3 DEF FindsIn
  <2>18. is_unix' = (L = 1) /\ loadPc' = "line" /\ prev' = 0
    <3>1. /\ is_unix' = (Finds(R, 0, <<CR, LF>>) = {})
          /\ prev' = 0
          /\ loadPc' = IF is_unix' /\ Finds(R, 0, <<LF>>) = {} THEN "read" ELSE "line"
      BY <1>12, <1>15, <2>13 DEF ReadBlock
    <3>2. CASE L = 1
      BY <2>16, <2>17, <3>1, <3>2 DEF EndOf
    <3>3. CASE L = 2
      <4>1. EndOf(L) = <<CR, LF>> /\ L # 1
        BY <3>3 DEF EndOf
      <4> QED BY <2>16, <3>1, <4>1, Zenon
    <3> QED BY <1>5, <3>2, <3>3
  <2>19. AtLine(F, E, L, b, z)'
    BY <1>3, <1>4, <1>13, <2>3, <2>4, <2>5, <2>12, <2>13, <2>14, <2>15, <2>18 DEF AtLine
  <2>20. LoadShape(F, E, L)'
    BY <1>1, <1>13, <2>6, <2>11, <2>13, <2>18, <2>19 DEF LoadShape
  <2> QED BY <2>20 DEF LoadInv
<1> QED BY <1>14, <1>15

\* Handing on a line keeps the invariant: the line is the next one of the file, and what
\* is behind the last whole line of the buffer moves to the front.
LEMMA ParseInv == ASSUME LoadInv, ParseLine PROVE LoadInv'
<1>1. PICK F, E, L : LoadShape(F, E, L)
  BY DEF LoadInv
<1>2. loadPc = "line" /\ FileShape(text, F, E, L) /\ text \in Seq(Seq(Int))
  BY <1>1 DEF LoadShape, ParseLine
<1>3. PICK b, z : AtLine(F, E, L, b, z)
  BY <1>1, <1>2 DEF LoadShape
<1>4. PICK N \in Nat, j \in Nat : N = Len(text) /\ j = Len(set) /\ j < N
  <2>1. Len(text) \in Nat /\ Len(set) \in 0 .. Len(text) /\ Len(set) < Len(text)
    BY <1>1, <1>2, <1>3 DEF LoadShape, AtLine
  <2> QED BY <2>1
<1>5. /\ Window(buf, F, b, z)
      /\ unread = SubSeq(F, b + z + 1, Len(F))
      /\ b <= E[j] /\ prev = E[j] - b
      /\ E[j + 1] <= b + z
      /\ is_unix = (L = 1)
  BY <1>3, <1>4 DEF AtLine
<1>6. PICK M \in Nat : M = 2 * Block - 1 /\ Block <= M
  BY BlockAssumption
<1>7. /\ b \in Nat /\ z \in Nat /\ z <= Block /\ b + z <= Len(F)
      /\ buf \in [0 .. M -> Int] /\ buf[z] = NUL
      /\ \A i \in 0 .. z - 1 : buf[i] = F[b + i + 1]
  BY <1>5, <1>6 DEF Window
<1>8. F \in Seq(Int) /\ L \in {1, 2} /\ Len(F) = E[N] /\ \A q \in 1 .. Len(F) : F[q] # NUL
  BY <1>2, <1>4 DEF FileShape
<1>9. j \in 0 .. Len(text) - 1 /\ Len(text) \in Nat
  BY <1>4
<1>10. LineAt(text, F, E, L, j, E[j], E[j + 1])
  BY <1>2, <1>9, LineOf
<1>11. PICK x \in Nat, y \in Nat : x = E[j] /\ y = E[j + 1] /\ LineAt(text, F, E, L, j, x, y)
  BY <1>10 DEF LineAt
<1>12. PICK len \in Nat : len = Len(F)
  BY <1>8
<1>13. /\ x + L < y /\ y <= len /\ b <= x /\ y <= b + z
       /\ text[j + 1] = [i \in 1 .. (y - L) - x |-> F[x + i]]
  BY <1>5, <1>11, <1>12 DEF LineAt
<1>t. /\ N \in Nat /\ j \in Nat /\ j < N /\ M \in Nat /\ b \in Nat /\ z \in Nat /\ x \in Nat /\ y \in Nat
      /\ len \in Nat /\ L \in Nat /\ b + z <= len /\ z <= M
      /\ x + L < y /\ y <= len /\ b <= x /\ y <= b + z
  <2>1. L \in Nat
    BY <1>8
  <2>2. Block \in Nat /\ z \in Nat /\ z <= Block
    BY <1>7, BlockAssumption
  <2>3. z <= M
    BY <1>6, <2>2
  <2>4. b \in Nat /\ b + z <= len
    BY <1>7, <1>12
  <2> QED BY <1>4, <1>11, <1>13, <2>1, <2>2, <2>3, <2>4
<1>14. End = EndOf(L)
  <2>1. CASE L = 1
    BY <1>5, <2>1 DEF End, EndOf
  <2>2. CASE L = 2
    <3>1. L # 1
      BY <2>2
    <3> QED BY <1>5, <3>1 DEF End, EndOf
  <2> QED BY <1>8, <2>1, <2>2
<1>15. Len(End) = L
  <2>1. CASE L = 1
    BY <1>14, <2>1 DEF EndOf
  <2>2. CASE L = 2
    BY <1>14, <2>2 DEF EndOf
  <2> QED BY <1>8, <2>1, <2>2
<1>16. PICK pp : pp = Min(Finds(buf, prev, End))
  OBVIOUS
<1>17. pp = (y - L) - b
  <2>1. NextEnd(buf, E, L, j, b)
    BY <1>2, <1>5, <1>9, FirstEnd
  <2> QED BY <1>5, <1>11, <1>14, <1>16, <2>1 DEF NextEnd
<1>18. PICK next \in Nat : next = pp + Len(End) /\ next = y - b /\ next <= z
  BY <1>t, <1>15, <1>17
<1>19. PICK rest \in Nat : rest = Strlen(buf, next) /\ rest = z - next
  <2>1. next \in 0 .. z
    BY <1>t, <1>18
  <2>2. Strlen(buf, next) = z - next
    BY <1>5, <1>8, <2>1, StrlenOf
  <2> QED BY <1>t, <1>18, <2>2
<1>a. next \in Nat /\ rest \in Nat /\ next = y - b /\ rest = z - next /\ next <= z
  BY <1>18, <1>19
<1>20. /\ text' = text /\ unread' = unread /\ is_unix' = is_unix /\ prev' = next
       /\ set' = Append(set, [i \in 1 .. pp - prev |-> buf[prev + i - 1]])
  BY <1>16, <1>18 DEF ParseLine
<1>21. [i \in 1 .. pp - prev |-> buf[prev + i - 1]] = text[j + 1]
  <2>1. prev = x - b /\ pp - prev = (y - L) - x
    <3>1. prev = x - b
      BY <1>5, <1>11
    <3> QED BY <1>t, <1>17, <3>1
  <2>2. ASSUME NEW i \in 1 .. (y - L) - x PROVE buf[prev + i - 1] = F[x + i]
    <3>1. prev + i - 1 \in 0 .. z - 1 /\ b + (prev + i - 1) + 1 = x + i
      BY <1>t, <2>1
    <3> QED BY <1>7, <3>1
  <2>3. [i \in 1 .. pp - prev |-> buf[prev + i - 1]] = [i \in 1 .. (y - L) - x |-> buf[prev + i - 1]]
    BY <2>1
  <2>4. [i \in 1 .. (y - L) - x |-> buf[prev + i - 1]] = [i \in 1 .. (y - L) - x |-> F[x + i]]
    BY <2>2
  <2> QED BY <1>13, <2>3, <2>4
<1>22. set' = SubSeq(text, 1, j + 1) /\ Len(set') = j + 1
  <2>1. PICK T \in Seq(Seq(Int)) : T = text /\ Len(T) = N
    BY SMTT(30), <1>2, <1>4
  <2>2. set = SubSeq(T, 1, j)
    BY <1>1, <1>4, <2>1 DEF LoadShape
  <2>3. set' = Append(SubSeq(T, 1, j), T[j + 1])
    BY <1>20, <1>21, <2>1, <2>2
  <2>4. Append(SubSeq(T, 1, j), T[j + 1]) = SubSeq(T, 1, j + 1) /\ Len(SubSeq(T, 1, j + 1)) = j + 1
    BY <1>t, <2>1, PrefixGrows
  <2> QED BY <2>1, <2>3, <2>4
<1>23. CASE Finds(buf, next, End) # {}
  <2>1. buf' = buf /\ loadPc' = loadPc
    BY <1>16, <1>18, <1>23 DEF ParseLine
  <2>2. j + 1 < N /\ E[j + 1 + 1] <= b + z
    <3> SUFFICES ASSUME ~(j + 1 < N /\ E[j + 1 + 1] <= b + z) PROVE FALSE
      OBVIOUS
    <3>1. j + 1 \in 0 .. Len(text) /\ b <= E[j + 1] /\ E[j + 1] <= b + z
      BY <1>t, <1>4, <1>11
    <3>2. j + 1 < Len(text) => b + z < E[j + 1 + 1]
      <4> SUFFICES ASSUME j + 1 < Len(text) PROVE b + z < E[j + 1 + 1]
        OBVIOUS
      <4>1. j + 1 \in 0 .. Len(text) - 1
        BY <1>t, <1>4
      <4>2. E[j + 1 + 1] \in Nat
        BY <1>2, <1>9, <4>1, LineOf DEF LineAt
      <4> QED BY <1>t, <1>4, <4>2
    <3>3. Finds(buf, E[j + 1] - b, EndOf(L)) = {}
      BY <1>2, <1>5, <1>9, <3>1, <3>2, NoEnd
    <3> QED BY <1>11, <1>14, <1>18, <1>23, <3>3
  <2>3. b <= E[j + 1] /\ prev' = E[j + 1] - b
    BY <1>t, <1>11, <1>18, <1>20
  <2>4. AtLine(F, E, L, b, z)'
    BY <1>4, <1>5, <1>20, <1>22, <2>1, <2>2, <2>3 DEF AtLine
  <2>5. LoadShape(F, E, L)'
    <3>1. j + 1 \in 0 .. Len(text)
      BY <1>t, <1>4
    <3> QED BY <1>1, <1>2, <1>20, <1>22, <2>1, <2>4, <3>1 DEF LoadShape
  <2> QED BY <2>5 DEF LoadInv
<1>24. CASE Finds(buf, next, End) = {}
  <2>1. /\ buf' = [i \in DOMAIN buf |-> IF i < rest THEN buf[next + i]
                                        ELSE IF i = rest THEN NUL ELSE buf[i]]
        /\ offset' = rest
        /\ loadPc' = "read"
    BY <1>16, <1>18, <1>19, <1>24 DEF ParseLine
  <2>2. DOMAIN buf = 0 .. M
    BY <1>7
  <2>3. ASSUME NEW i \in 0 .. rest - 1 PROVE buf'[i] = F[y + i + 1]
    <3>1. i \in 0 .. M /\ i < rest /\ next + i \in 0 .. z - 1 /\ b + (next + i) + 1 = y + i + 1
      BY <1>t, <1>a
    <3>2. buf'[i] = buf[next + i]
      BY <2>1, <2>2, <3>1
    <3> QED BY <1>7, <3>1, <3>2
  <2>4. buf' \in [0 .. M -> Int]
    <3>1. ASSUME NEW i \in 0 .. M
          PROVE  (IF i < rest THEN buf[next + i] ELSE IF i = rest THEN NUL ELSE buf[i]) \in Int
      <4>1. CASE i < rest
        <5>1. next + i \in 0 .. M
          BY <1>t, <1>a, <4>1
        <5> QED BY <1>7, <4>1, <5>1
      <4>2. CASE ~(i < rest)
        BY <1>7, <4>2 DEF NUL
      <4> QED BY <4>1, <4>2
    <3> QED BY <2>1, <2>2, <3>1
  <2>5. y + rest = b + z
    BY <1>t, <1>a
  <2>6. j + 1 < N => y + rest < E[j + 1 + 1]
    <3> SUFFICES ASSUME j + 1 < N, ~(b + z < E[j + 1 + 1]) PROVE FALSE
      BY <2>5
    <3>1. j + 1 \in 0 .. Len(text) - 1 /\ b <= E[j + 1]
      BY <1>t, <1>4, <1>11
    <3>2. E[j + 1 + 1] \in Nat
      BY <1>2, <1>9, <3>1, LineOf DEF LineAt
    <3>3. E[j + 1 + 1] <= b + z
      BY <1>t, <3>2
    <3>4. NextEnd(buf, E, L, j + 1, b)
      BY <1>2, <1>5, <1>9, <3>1, <3>3, FirstEnd
    <3> QED BY <1>11, <1>14, <1>18, <1>24, <3>4 DEF NextEnd
  <2>7. AtRead(F, E)'
    <3>1. y + rest <= len /\ unread' = SubSeq(F, y + rest + 1, len)
      BY <1>t, <1>5, <1>12, <1>20, <2>5
    <3> QED BY <1>4, <1>11, <1>12, <1>19, <1>20, <1>22, <2>1, <2>3, <2>6, <3>1 DEF AtRead
  <2>8. LoadShape(F, E, L)'
    <3>1. j + 1 \in 0 .. Len(text)
      BY <1>t, <1>4
    <3> QED BY <1>2, <1>6, <1>20, <1>22, <2>1, <2>4, <2>7, <3>1 DEF LoadShape
  <2> QED BY <2>8 DEF LoadInv
<1> QED BY <1>23, <1>24

\* The sequences that FlattenSeq passes through.
Flattens(f, q, N) ==
  /\ f \in [1 .. N -> Seq(Int)]
  /\ \A i \in 1 .. N : q[i] \in Seq(Int)
  /\ \A i \in 2 .. N : f[i] = f[i - 1] \o q[i]

StartsWith(u, v) == Len(v) <= Len(u) /\ \A p \in 1 .. Len(v) : u[p] = v[p]

\* Each sequence that FlattenSeq passes through starts with those before it.
LEMMA FlattenPrefix ==
  ASSUME NEW N \in Nat, NEW q, NEW f, Flattens(f, q, N), NEW j \in 1 .. N
  PROVE  StartsWith(f[N], f[j])
<1> DEFINE Ok(m) == Len(f[j]) <= Len(f[m]) /\ \A p \in 1 .. Len(f[j]) : f[m][p] = f[j][p]
           T == {d \in Nat : j + d <= N => Ok(j + d)}
<1>0. /\ \A i \in 1 .. N : q[i] \in Seq(Int)
      /\ f \in [1 .. N -> Seq(Int)]
      /\ \A i \in 2 .. N : f[i] = f[i - 1] \o q[i]
  BY DEF Flattens
<1>1. 0 \in T
  <2>1. j + 0 = j /\ Len(f[j]) \in Nat
    BY <1>0
  <2> QED BY <2>1
<1>2. ASSUME NEW d \in Nat, d \in T PROVE d + 1 \in T
  <2> SUFFICES ASSUME j + (d + 1) <= N PROVE Ok(j + (d + 1))
    OBVIOUS
  <2>1. PICK m \in Nat : m = j + d
    OBVIOUS
  <2>2. m \in 1 .. N /\ m + 1 \in 2 .. N /\ j + (d + 1) = m + 1 /\ (m + 1) - 1 = m /\ m + 1 \in 1 .. N
    BY <2>1
  <2>3. Ok(m)
    BY <1>2, <2>1, <2>2
  <2>4. PICK u \in Seq(Int), v \in Seq(Int), w \in Seq(Int) : u = f[j] /\ v = f[m] /\ w = q[m + 1]
    BY <1>0, <2>2
  <2>5. f[m + 1] = v \o w
    BY <1>0, <2>2, <2>4
  <2>6. Len(v \o w) = Len(v) + Len(w) /\ \A p \in 1 .. Len(v) : (v \o w)[p] = v[p]
    OBVIOUS
  <2>7. Len(u) <= Len(v) /\ \A p \in 1 .. Len(u) : v[p] = u[p]
    BY <2>3, <2>4
  <2>8. Len(u) <= Len(v \o w) /\ \A p \in 1 .. Len(u) : (v \o w)[p] = u[p]
    <3>1. Len(u) \in Nat /\ Len(v) \in Nat /\ Len(w) \in Nat
      OBVIOUS
    <3>2. Len(u) <= Len(v \o w)
      BY <2>6, <2>7, <3>1
    <3>3. ASSUME NEW p \in 1 .. Len(u) PROVE (v \o w)[p] = u[p]
      <4>1. p \in 1 .. Len(v)
        BY <2>7, <3>1
      <4> QED BY <2>6, <2>7, <4>1
    <3> QED BY <3>2, <3>3
  <2> QED BY <2>2, <2>4, <2>5, <2>8
<1>3. \A d \in Nat : d \in T
  <2> HIDE DEF T
  <2> QED BY <1>1, <1>2, Induction
<1>4. PICK d \in Nat : j + d = N /\ j + d <= N
  <2>1. N - j \in Nat /\ j + (N - j) = N /\ N <= N
    OBVIOUS
  <2> QED BY <2>1
<1>5. Ok(j + d)
  <2>1. d \in T
    BY <1>3, <1>4
  <2> HIDE DEF Ok
  <2> QED BY <1>4, <2>1
<1> QED BY <1>4, <1>5 DEF StartsWith

\* Line k of n consists of bytes k.
PlainLines(lines, N) ==
  /\ lines \in Seq(Seq(Int)) /\ Len(lines) = N
  /\ \A k \in 1 .. N : /\ Len(lines[k]) \in 1 .. MaxLine
                       /\ \A i \in 1 .. Len(lines[k]) : lines[k][i] = k

\* A line end of L bytes.
EndBytes(end, L) ==
  /\ L \in {1, 2} /\ L = Len(end) /\ end \in Seq(Int) /\ end[L] = LF
  /\ L = 2 => end[1] = CR
  /\ \A i \in 1 .. L : end[i] # NUL /\ (L = 1 => end[i] # CR) /\ (i # L => end[i] # LF)

\* Both line ends are line ends.
LEMMA EndBytesOf == ASSUME NEW end \in LineEnds PROVE EndBytes(end, Len(end))
<1>1. CASE end = <<LF>>
  BY <1>1 DEF LF, CR, NUL, EndBytes
<1>2. CASE end = <<CR, LF>>
  BY <1>2 DEF LF, CR, NUL, EndBytes
<1> QED BY <1>1, <1>2 DEF LineEnds

\* The first line end behind position x is at y.
EndsAt(F, x, y, L) ==
  /\ \A h \in x + 1 .. y - 1 : F[h] # LF
  /\ F[y] = LF
  /\ L = 2 => F[y - 1] = CR

\* A line of m bytes j behind position x, and its end.
LEMMA LineBytes ==
  ASSUME NEW F, NEW x \in Nat, NEW m \in Nat, NEW j \in Nat, NEW end, NEW L, EndBytes(end, L),
         \A i \in 1 .. m : F[x + i] = j,
         \A i \in 1 .. L : F[x + (m + i)] = end[i],
         NEW y \in Nat, y = x + (m + L)
  PROVE  EndsAt(F, x, y, L)
<1>1. /\ L \in Nat /\ (L = 1 \/ L = 2) /\ end[L] = LF /\ (L = 2 => end[1] = CR)
      /\ \A i \in 1 .. L : i # L => end[i] # LF
  BY DEF EndBytes
<1>2. F[y] = LF
  <2>1. L \in 1 .. L
    BY <1>1
  <2> QED BY <1>1, <2>1
<1>3. L = 2 => F[y - 1] = CR
  <2> SUFFICES ASSUME L = 2 PROVE F[y - 1] = CR
    OBVIOUS
  <2>1. 1 \in 1 .. L /\ y - 1 = x + (m + 1)
    OBVIOUS
  <2>2. F[x + (m + 1)] = end[1]
    BY <2>1
  <2> QED BY <1>1, <2>1, <2>2
<1>4. ASSUME NEW h \in x + 1 .. y - 1 PROVE F[h] # LF
  <2>1. PICK i \in Nat : i = h - x /\ h = x + i /\ i # 0 /\ i < m + L
    BY <1>1
  <2>2. CASE i <= m
    <3>1. i \in 1 .. m
      BY <2>1, <2>2
    <3>2. F[h] = j
      BY <2>1, <3>1
    <3> QED BY <3>2 DEF LF
  <2>3. CASE ~(i <= m)
    <3>1. PICK d \in Nat : d = i - m /\ d # 0 /\ d < L /\ h = x + (m + d)
      BY <1>1, <2>1, <2>3
    <3>2. d \in 1 .. L /\ d # L
      BY <1>1, <3>1
    <3>3. F[h] = end[d]
      BY <3>1, <3>2
    <3> QED BY <1>1, <3>2, <3>3
  <2> QED BY <2>2, <2>3
<1> QED BY <1>2, <1>3, <1>4 DEF EndsAt

\* The bytes of a file have the shape that its lines and line ends give them.
LEMMA FileHasShape ==
  ASSUME EndsLast = TRUE, NEW N \in Nat, N # 0, NEW lines, PlainLines(lines, N),
         NEW end, NEW L, EndBytes(end, L)
  PROVE  \E E : FileShape(lines, FileOf(lines, end), E, L)
<1>1. /\ lines \in Seq(Seq(Int)) /\ Len(lines) = N /\ DOMAIN lines = 1 .. N
      /\ \A k \in 1 .. N : lines[k] \in Seq(Int)
  <2>1. lines \in Seq(Seq(Int)) /\ Len(lines) = N
    BY DEF PlainLines
  <2> QED BY <2>1
<1>2. PICK size : /\ \A k \in 1 .. N : size[k] \in Nat /\ size[k] # 0 /\ size[k] <= MaxLine /\ size[k] = Len(lines[k])
                  /\ \A k \in 1 .. N : \A i \in 1 .. size[k] : lines[k][i] = k
  <2> DEFINE sz == [k \in 1 .. N |-> Len(lines[k])]
  <2>1. \A k \in 1 .. N : sz[k] = Len(lines[k])
    OBVIOUS
  <2>2. ASSUME NEW k \in 1 .. N
        PROVE  Len(lines[k]) \in Nat /\ Len(lines[k]) # 0 /\ Len(lines[k]) <= MaxLine
    <3>1. Len(lines[k]) \in 1 .. MaxLine
      BY DEF PlainLines
    <3> QED BY <3>1, BlockAssumption
  <2>3. \A k \in 1 .. N : \A i \in 1 .. Len(lines[k]) : lines[k][i] = k
    BY DEF PlainLines
  <2> HIDE DEF sz
  <2> QED BY <2>1, <2>2, <2>3
<1>3. /\ L \in Nat /\ L # 0 /\ L = Len(end) /\ end \in Seq(Int) /\ MaxLine \in Nat
      /\ \A i \in 1 .. L : end[i] # NUL /\ (L = 1 => end[i] # CR)
  BY BlockAssumption DEF EndBytes
<1>4. PICK q : q = [k \in 1 .. N |-> lines[k] \o end]
  OBVIOUS
<1>5. FileOf(lines, end) = FlattenSeq(q)
  <2>1. ASSUME NEW k \in 1 .. N
        PROVE  (IF k = Len(lines) /\ ~EndsLast THEN lines[k] ELSE lines[k] \o end) = lines[k] \o end
    OBVIOUS
  <2>2. [k \in DOMAIN lines |-> IF k = Len(lines) /\ ~EndsLast THEN lines[k] ELSE lines[k] \o end] = q
    BY <1>1, <1>4, <2>1
  <2> QED BY <2>2 DEF FileOf
<1>6. ASSUME NEW k \in 1 .. N
      PROVE  /\ q[k] \in Seq(Int) /\ Len(q[k]) = size[k] + L
             /\ \A i \in 1 .. size[k] : q[k][i] = k
             /\ \A i \in 1 .. L : q[k][size[k] + i] = end[i]
  <2>1. PICK u \in Seq(Int) : u = lines[k] /\ Len(u) = size[k] /\ \A i \in 1 .. size[k] : u[i] = k
    BY <1>1, <1>2
  <2>2. q[k] = u \o end /\ end \in Seq(Int)
    BY <1>3, <1>4, <2>1
  <2>3. /\ u \o end \in Seq(Int) /\ Len(u \o end) = Len(u) + Len(end)
        /\ \A i \in 1 .. Len(u) : (u \o end)[i] = u[i]
        /\ \A i \in 1 .. Len(end) : (u \o end)[Len(u) + i] = end[i]
    BY <2>2
  <2> QED BY <1>3, <2>1, <2>2, <2>3
<1>7. q \in Seq(Seq(Int)) /\ Len(q) = N /\ DOMAIN q = 1 .. N
  <2>1. q \in [1 .. N -> Seq(Int)]
    BY <1>4, <1>6
  <2> QED BY <2>1
<1>8. PICK f \in [1 .. N -> Seq(Int)] :
         /\ f[1] = q[1]
         /\ \A i \in 2 .. N : f[i] = f[i - 1] \o q[i]
         /\ FlattenSeq(q) = f[N]
  BY <1>7, FlattenSteps
<1>9. PICK F \in Seq(Int) : F = f[N] /\ F = FlattenSeq(q)
  BY <1>8
<1>10. PICK E : E = [j \in 0 .. N |-> IF j = 0 THEN 0 ELSE Len(f[j])]
  OBVIOUS
<1>11. E \in [0 .. N -> Nat] /\ E[0] = 0 /\ \A j \in 1 .. N : E[j] = Len(f[j])
  <2>1. \A j \in 1 .. N : Len(f[j]) \in Nat
    OBVIOUS
  <2> QED BY <1>10, <2>1
<1>12. ASSUME NEW j \in 1 .. N
       PROVE  /\ E[j - 1] \in Nat /\ E[j] = E[j - 1] + (size[j] + L)
              /\ \A p \in 1 .. size[j] + L : f[j][E[j - 1] + p] = q[j][p]
  <2>1. CASE j = 1
    <3>1. E[j - 1] = 0 /\ f[j] = q[j] /\ E[j] = Len(f[j])
      BY <1>8, <1>11, <2>1
    <3>2. PICK m \in Nat : m = size[j] + L /\ Len(q[j]) = m
      <4>1. size[j] \in Nat /\ L \in Nat
        BY <1>2, <1>3
      <4>2. size[j] + L \in Nat
        BY <4>1
      <4> QED BY <1>6, <4>2
    <3>3. E[j] = E[j - 1] + (size[j] + L)
      BY <3>1, <3>2
    <3>4. \A p \in 1 .. size[j] + L : E[j - 1] + p = p
      BY <3>1, <3>2
    <3> QED BY <3>1, <3>3, <3>4
  <2>2. CASE j # 1
    <3>1. j \in 2 .. N /\ j - 1 \in 1 .. N
      BY <2>2
    <3>2. PICK u \in Seq(Int), v \in Seq(Int) : u = f[j - 1] /\ v = q[j]
      BY <1>6, <3>1
    <3>3. f[j] = u \o v
      BY <1>8, <3>1, <3>2
    <3>4. E[j - 1] = Len(u) /\ E[j] = Len(f[j]) /\ Len(v) = size[j] + L
      BY <1>6, <1>11, <3>1, <3>2
    <3>5. Len(u) \in Nat /\ Len(u \o v) = Len(u) + Len(v) /\ \A p \in 1 .. Len(v) : (u \o v)[Len(u) + p] = v[p]
      OBVIOUS
    <3> QED BY <3>2, <3>3, <3>4, <3>5
  <2> QED BY <2>1, <2>2
<1>13. ASSUME NEW j \in 1 .. N
       PROVE  E[j] <= Len(F) /\ \A p \in 1 .. size[j] + L : F[E[j - 1] + p] = q[j][p]
  <2>1. StartsWith(f[N], f[j])
    <3>1. Flattens(f, q, N)
      BY <1>6, <1>8 DEF Flattens
    <3> QED BY <3>1, FlattenPrefix
  <2>2. E[j] <= Len(F) /\ \A p \in 1 .. E[j] : F[p] = f[j][p]
    BY <1>9, <1>11, <2>1 DEF StartsWith
  <2>3. ASSUME NEW p \in 1 .. size[j] + L PROVE F[E[j - 1] + p] = q[j][p]
    <3>1. PICK x \in Nat, m \in Nat : x = E[j - 1] /\ m = size[j] + L /\ E[j] = x + m
      <4>1. size[j] \in Nat /\ L \in Nat
        BY <1>2, <1>3
      <4>2. E[j - 1] \in Nat /\ E[j] = E[j - 1] + (size[j] + L)
        BY <1>12
      <4>3. size[j] + L \in Nat
        BY <4>1
      <4> QED BY <4>2, <4>3
    <3>2. x + p \in 1 .. E[j]
      BY <3>1
    <3> QED BY <1>12, <2>2, <3>1, <3>2
  <2> QED BY <2>2, <2>3
<1>14. ASSUME NEW j \in 1 .. N
       PROVE  /\ E[j] <= Len(F)
              /\ E[j - 1] + L < E[j] /\ E[j] <= E[j - 1] + MaxLine + L
              /\ lines[j] = [i \in 1 .. (E[j] - L) - E[j - 1] |-> F[E[j - 1] + i]]
              /\ \A h \in E[j - 1] + 1 .. E[j] - 1 : F[h] # LF
              /\ F[E[j]] = LF
              /\ L = 2 => F[E[j] - 1] = CR
  <2>1. PICK x, y, m : x = E[j - 1] /\ y = E[j] /\ m = size[j]
    OBVIOUS
  <2>2. x \in Nat /\ m \in Nat /\ m # 0 /\ m <= MaxLine /\ y = x + (m + L)
    BY <1>2, <1>12, <2>1
  <2>3. /\ (y - L) - x = m /\ x + L < y /\ y <= x + MaxLine + L /\ y \in Nat
    BY <1>3, <2>2
  <2>4. ASSUME NEW i \in 1 .. m PROVE F[x + i] = j
    <3>1. i \in 1 .. m + L
      BY <1>3, <2>2
    <3>2. F[x + i] = q[j][i]
      BY <1>13, <2>1, <3>1
    <3> QED BY <1>6, <2>1, <3>2
  <2>5. ASSUME NEW i \in 1 .. L PROVE F[x + (m + i)] = end[i]
    <3>1. m + i \in 1 .. m + L
      BY <1>3, <2>2
    <3>2. F[x + (m + i)] = q[j][m + i]
      BY <1>13, <2>1, <3>1
    <3> QED BY <1>6, <2>1, <3>2
  <2>6. lines[j] = [i \in 1 .. (y - L) - x |-> F[x + i]]
    <3>1. lines[j] \in Seq(Int) /\ Len(lines[j]) = m /\ \A i \in 1 .. m : lines[j][i] = j
      BY <1>1, <1>2, <2>1
    <3>2. lines[j] = [i \in 1 .. m |-> lines[j][i]]
      BY <3>1
    <3>3. [i \in 1 .. m |-> lines[j][i]] = [i \in 1 .. m |-> F[x + i]]
      BY <2>4, <3>1
    <3> QED BY <2>3, <3>2, <3>3
  <2>7. /\ \A h \in x + 1 .. y - 1 : F[h] # LF
        /\ F[y] = LF
        /\ L = 2 => F[y - 1] = CR
    <3>1. j \in Nat
      OBVIOUS
    <3>2. EndsAt(F, x, y, L)
      BY <2>2, <2>3, <2>4, <2>5, <3>1, LineBytes
    <3> QED BY <3>2 DEF EndsAt
  <2>8. y <= Len(F)
    BY <1>13, <2>1
  <2> QED BY <2>1, <2>3, <2>6, <2>7, <2>8
<1>15. ASSUME NEW h \in 1 .. Len(F) PROVE F[h] # NUL /\ (L = 1 => F[h] # CR)
  <2>1. PICK e : e = F[h]
    OBVIOUS
  <2>2. DOMAIN F = 1 .. Len(F)
    BY <1>9
  <2>3. \E p \in DOMAIN FlattenSeq(q) : FlattenSeq(q)[p] = e
    BY <1>9, <2>1, <2>2, Zenon
  <2>4. \E k \in DOMAIN q : \E i \in DOMAIN q[k] : q[k][i] = e
    <3>1. PICK S : S = Int
      OBVIOUS
    <3>2. q \in Seq(Seq(S))
      BY <1>7, <3>1
    <3>3. \A c : (\E p \in DOMAIN FlattenSeq(q) : FlattenSeq(q)[p] = c)
                    <=> (\E k \in DOMAIN q : \E i \in DOMAIN q[k] : q[k][i] = c)
      BY ZenonT(30), <3>2, FlattenOf
    <3> QED BY <2>3, <3>3, Zenon
  <2>5. PICK k \in 1 .. N : \E i \in DOMAIN q[k] : q[k][i] = e
    BY <1>7, <2>4
  <2>6. DOMAIN q[k] = 1 .. size[k] + L
    BY <1>6
  <2>7. PICK i \in 1 .. size[k] + L : q[k][i] = e
    BY <2>5, <2>6
  <2>8. PICK m \in Nat : m = size[k]
    BY <1>2
  <2>9. i \in 1 .. m + L
    BY <2>7, <2>8
  <2>10. CASE i <= m
    <3>1. i \in 1 .. size[k]
      BY <2>8, <2>9, <2>10
    <3>2. e = k
      BY <1>6, <2>7, <3>1
    <3> QED BY <2>1, <3>2 DEF NUL, CR
  <2>11. CASE ~(i <= m)
    <3>1. PICK d \in 1 .. L : i = m + d
      <4>1. L \in Nat /\ m \in Nat /\ i \in Nat /\ i <= m + L
        BY <1>3, <2>8, <2>9
      <4>2. i - m \in 1 .. L /\ i = m + (i - m)
        BY <2>11, <4>1
      <4> QED BY <4>2
    <3>2. e = end[d]
      BY <1>6, <2>7, <2>8, <3>1
    <3> QED BY <1>3, <2>1, <3>1, <3>2
  <2> QED BY <2>10, <2>11
<1>16. Len(F) = E[N]
  <2>1. N \in 1 .. N
    OBVIOUS
  <2> QED BY <1>9, <1>11, <2>1
<1>17. L \in {1, 2}
  BY DEF EndBytes
<1>18. FileShape(lines, F, E, L)
  BY <1>1, <1>9, <1>11, <1>14, <1>15, <1>16, <1>17 DEF FileShape
<1> QED BY <1>5, <1>9, <1>18

\* A file as it is before load reads it satisfies the invariant.
LEMMA LoadInitInv == ASSUME EndsLast = TRUE, LoadInit PROVE LoadInv
<1>1. PICK n \in 1 .. MaxLines, end \in LineEnds : \E size \in [1 .. n -> 1 .. MaxLine] :
        LoadStart([k \in 1 .. n |-> [i \in 1 .. size[k] |-> k]], end)
  BY DEF LoadInit
<1>2. PICK size \in [1 .. n -> 1 .. MaxLine] :
        LoadStart([k \in 1 .. n |-> [i \in 1 .. size[k] |-> k]], end)
  BY <1>1
<1>3. n \in Nat /\ n # 0
  BY <1>1, BlockAssumption
<1>4. PICK lines : lines = [k \in 1 .. n |-> [i \in 1 .. size[k] |-> k]]
  OBVIOUS
<1>5. PICK F, L : F = FileOf(lines, end) /\ L = Len(end)
  OBVIOUS
<1>s. ASSUME NEW k \in 1 .. n
      PROVE  /\ lines[k] \in Seq(Int) /\ Len(lines[k]) \in 1 .. MaxLine
             /\ \A i \in 1 .. Len(lines[k]) : lines[k][i] = k
  <2>1. PICK m \in Nat : m = size[k] /\ m \in 1 .. MaxLine
    BY <1>2, BlockAssumption
  <2>2. lines[k] = [i \in 1 .. m |-> k]
    BY <1>4, <2>1
  <2>3. [i \in 1 .. m |-> k] \in Seq(Int) /\ Len([i \in 1 .. m |-> k]) = m
    BY <1>3, <2>1
  <2> QED BY <2>1, <2>2, <2>3
<1>8. lines \in Seq(Seq(Int)) /\ Len(lines) = n
  <2>1. lines \in [1 .. n -> Seq(Int)]
    BY <1>4, <1>s
  <2> QED BY <1>3, <2>1
<1>6. PICK E : FileShape(lines, F, E, L)
  <2>1. PlainLines(lines, n)
    BY <1>8, <1>s DEF PlainLines
  <2>2. EndBytes(end, L)
    BY <1>1, <1>5, EndBytesOf
  <2> QED BY <1>3, <1>5, <2>1, <2>2, FileHasShape
<1>7. /\ text = lines /\ unread = F /\ buf = [i \in 0 .. 2 * Block - 1 |-> NUL]
      /\ offset = 0 /\ loadPc = "read" /\ set = <<>>
  BY <1>2, <1>4, <1>5 DEF LoadStart
<1>9. Len(set) = 0 /\ set = SubSeq(text, 1, 0) /\ Len(set) \in 0 .. Len(text)
  BY <1>3, <1>7, <1>8
<1>10. F \in Seq(Int) /\ E[0] = 0
  BY <1>6 DEF FileShape
<1>11. AtRead(F, E)
  <2>1. SubSeq(F, 1, Len(F)) = F /\ Len(F) \in Nat
    BY <1>10
  <2>2. 0 + 0 + 1 = 1 /\ 0 + 0 = 0 /\ 0 .. 0 - 1 = {}
    OBVIOUS
  <2>3. Len(lines) > 0 => 0 < E[0 + 1]
    <3>1. Len(lines) \in Nat /\ 0 \in 0 .. Len(lines) - 1
      BY <1>3, <1>8
    <3>2. LineAt(lines, F, E, L, 0, E[0], E[0 + 1])
      BY <1>6, <3>1, LineOf
    <3>3. L \in Nat
      BY <1>6 DEF FileShape
    <3> QED BY <1>10, <3>2, <3>3 DEF LineAt
  <2> QED BY <1>3, <1>7, <1>8, <1>9, <1>10, <2>1, <2>2, <2>3 DEF AtRead
<1>12. buf \in [0 .. 2 * Block - 1 -> Int]
  <2>1. NUL \in Int
    BY DEF NUL
  <2> QED BY <1>7, <2>1
<1>13. LoadShape(F, E, L)
  BY <1>6, <1>7, <1>8, <1>9, <1>11, <1>12 DEF LoadShape
<1> QED BY <1>13 DEF LoadInv

\* Every step of load keeps the invariant.
LEMMA LoadNextInv == ASSUME LoadInv, [LoadNext]_loadVars PROVE LoadInv'
<1>1. CASE ReadBlock
  BY <1>1, ReadInv
<1>2. CASE ParseLine
  BY <1>2, ParseInv
<1>3. CASE UNCHANGED loadVars
  <2>1. PICK F, E, L : LoadShape(F, E, L)
    BY DEF LoadInv
  <2>2. LoadShape(F, E, L)'
    BY <1>3, <2>1, ZenonT(40) DEF loadVars, LoadShape, AtRead, AtLine
  <2> QED BY <2>2 DEF LoadInv
<1> QED BY <1>1, <1>2, <1>3 DEF LoadNext

\* load hands on every line of a file, once, in order and whole, for any size of the
\* block and any number and lengths of lines that fit into one.  The last line ends like
\* the others.
THEOREM SetsEveryLineHolds == ASSUME EndsLast = TRUE PROVE LoadSpec => []SetsEveryLine
<1>1. LoadInv => SetsEveryLine
  <2> SUFFICES ASSUME LoadInv PROVE SetsEveryLine
    OBVIOUS
  <2>1. PICK F, E, L : LoadShape(F, E, L)
    BY DEF LoadInv
  <2>2. /\ text \in Seq(Seq(Int)) /\ set = SubSeq(text, 1, Len(set))
        /\ loadPc = "done" => Len(set) = Len(text)
    BY <2>1 DEF LoadShape
  <2>3. SubSeq(text, 1, Len(text)) = text
    BY <2>2
  <2> QED BY <2>2, <2>3 DEF SetsEveryLine
<1> QED BY <1>1, LoadInitInv, LoadNextInv, PTL DEF LoadSpec

-----------------------------------------------------------------------------
\* The functions that Size, Image and Number are defined by.
IsSize(f, w) == f = [i \in 0 .. w |-> IF i = 0 THEN 1 ELSE Base * f[i - 1]]
IsQuot(f, n, w) == f = [i \in 0 .. w |-> IF i = 0 THEN n ELSE f[i - 1] \div Base]
IsVal(f, b) == f = [i \in 0 .. Len(b) |-> IF i = 0 THEN 0 ELSE f[i - 1] * Base + b[Len(b) - i + 1]]

\* A function whose first value is in a set and whose steps stay in it.
LEMMA StaysIn ==
  ASSUME NEW A, NEW N \in Nat, NEW F, F = [i \in 0 .. N |-> F[i]], F[0] \in A,
         \A i \in 1 .. N : F[i - 1] \in A => F[i] \in A
  PROVE  F \in [0 .. N -> A]
<1> DEFINE T == {i \in Nat : i \in 0 .. N => F[i] \in A}
<1>1. 0 \in T
  OBVIOUS
<1>2. ASSUME NEW i \in Nat, i \in T PROVE i + 1 \in T
  <2> SUFFICES ASSUME i + 1 \in 0 .. N PROVE F[i + 1] \in A
    OBVIOUS
  <2>1. i \in 0 .. N /\ i + 1 \in 1 .. N /\ (i + 1) - 1 = i
    OBVIOUS
  <2>2. F[i] \in A
    BY <1>2, <2>1
  <2> QED BY <2>1, <2>2
<1>3. \A i \in Nat : i \in T
  <2> HIDE DEF T
  <2> QED BY <1>1, <1>2, Induction
<1>4. ASSUME NEW i \in 0 .. N PROVE F[i] \in A
  <2>1. i \in Nat
    OBVIOUS
  <2> QED BY <1>3, <2>1
<1> QED BY <1>4

\* A byte has a value 1 and a value -1.
LEMMA BaseOf == Base \in Nat /\ Base >= 4
BY BaseAssumption

\* Division by the number of values of a byte.
LEMMA Euclid ==
  ASSUME NEW n \in Int
  PROVE  n \div Base \in Int /\ n % Base \in 0 .. Base - 1 /\ n = (n \div Base) * Base + (n % Base)
BY BaseOf

\* The number of values of w bytes, for each number of bytes.
SizeFun(f, w) ==
  /\ f \in [0 .. w -> Nat]
  /\ f[0] = 1
  /\ \A i \in 1 .. w : f[i] = Base * f[i - 1]
  /\ Size(w) = f[w]

\* Size is the last value of a function that starts with 1 and multiplies by Base.
LEMMA SizeOf == ASSUME NEW w \in Nat PROVE \E f : SizeFun(f, w)
<1> DEFINE F == CHOOSE f : IsSize(f, w)
<1>1. PICK A : A = Int
  OBVIOUS
<1>2. PICK s \in [Nat -> [A -> A]] : \A i \in Nat : \A x \in Int : s[i][x] = Base * x
  <2>1. \A x \in Int : Base * x \in Int
    BY BaseOf
  <2> DEFINE t == [i \in Nat |-> [x \in Int |-> Base * x]]
  <2>2. t \in [Nat -> [Int -> Int]]
    BY <2>1
  <2>3. \A i \in Nat : \A x \in Int : t[i][x] = Base * x
    OBVIOUS
  <2> HIDE DEF t
  <2> QED BY <1>1, <2>2, <2>3
<1>3. PICK g \in [0 .. w -> A] : g[0] = 1 /\ \A i \in 1 .. w : g[i] = s[i][g[i - 1]]
  <2>1. PICK a \in A : a = 1
    BY <1>1
  <2>2. Recursive(A, a, s, w)
    BY Recursion
  <2> QED BY <2>1, <2>2 DEF Recursive
<1>4. IsSize(g, w)
  <2>1. ASSUME NEW i \in 0 .. w PROVE g[i] = IF i = 0 THEN 1 ELSE Base * g[i - 1]
    <3>1. CASE i = 0
      BY <1>3, <3>1
    <3>2. CASE i # 0
      <4>1. i \in 1 .. w /\ i - 1 \in 0 .. w /\ i \in Nat
        BY <3>2
      <4>2. g[i] = s[i][g[i - 1]] /\ g[i - 1] \in Int
        BY <1>1, <1>3, <4>1
      <4> QED BY <1>2, <3>2, <4>1, <4>2
    <3> QED BY <3>1, <3>2
  <2> QED BY <2>1 DEF IsSize
<1>5. IsSize(F, w)
  BY <1>4
<1>6. Size(w) = F[w]
  BY DEF Size, IsSize
<1> HIDE DEF F
<1>7. \A i \in 0 .. w : F[i] = IF i = 0 THEN 1 ELSE Base * F[i - 1]
  BY <1>5 DEF IsSize
<1>8. F = [i \in 0 .. w |-> F[i]]
  BY <1>5 DEF IsSize
<1>9. F[0] = 1
  BY <1>7
<1>10. ASSUME NEW i \in 1 .. w PROVE F[i] = Base * F[i - 1]
  BY <1>7
<1>11. F \in [0 .. w -> Nat]
  <2>1. ASSUME NEW i \in 1 .. w, F[i - 1] \in Nat PROVE F[i] \in Nat
    BY <1>10, <2>1, BaseOf
  <2>2. PICK D : D = Nat
    OBVIOUS
  <2>3. F \in [0 .. w -> D]
    <3>1. F[0] \in D /\ \A i \in 1 .. w : F[i - 1] \in D => F[i] \in D
      BY <1>9, <2>1, <2>2
    <3> QED BY <1>8, <3>1, StaysIn
  <2> QED BY <2>2, <2>3
<1> QED BY <1>6, <1>9, <1>10, <1>11 DEF SizeFun

\* The quotients of n by 1, Base and so on, and the bytes of n.
QuotFun(f, n, w) ==
  /\ f \in [0 .. w -> Int]
  /\ f[0] = n
  /\ \A i \in 1 .. w : f[i] = f[i - 1] \div Base
  /\ Image(n, w) = [i \in 1 .. w |-> f[i - 1] % Base]

\* Image takes its bytes from a function that starts with the number and divides by Base.
LEMMA QuotOf == ASSUME NEW n \in Int, NEW w \in Nat PROVE \E f : QuotFun(f, n, w)
<1> DEFINE F == CHOOSE f : IsQuot(f, n, w)
<1>1. PICK A : A = Int
  OBVIOUS
<1>2. PICK s \in [Nat -> [A -> A]] : \A i \in Nat : \A x \in Int : s[i][x] = x \div Base
  <2>1. \A x \in Int : x \div Base \in Int
    BY Euclid
  <2> DEFINE t == [i \in Nat |-> [x \in Int |-> x \div Base]]
  <2>2. t \in [Nat -> [Int -> Int]]
    BY <2>1
  <2>3. \A i \in Nat : \A x \in Int : t[i][x] = x \div Base
    OBVIOUS
  <2> HIDE DEF t
  <2> QED BY <1>1, <2>2, <2>3
<1>3. PICK g \in [0 .. w -> A] : g[0] = n /\ \A i \in 1 .. w : g[i] = s[i][g[i - 1]]
  <2>1. PICK a \in A : a = n
    BY <1>1
  <2>2. Recursive(A, a, s, w)
    BY Recursion
  <2> QED BY <2>1, <2>2 DEF Recursive
<1>4. IsQuot(g, n, w)
  <2>1. ASSUME NEW i \in 0 .. w PROVE g[i] = IF i = 0 THEN n ELSE g[i - 1] \div Base
    <3>1. CASE i = 0
      BY <1>3, <3>1
    <3>2. CASE i # 0
      <4>1. i \in 1 .. w /\ i - 1 \in 0 .. w /\ i \in Nat
        BY <3>2
      <4>2. g[i] = s[i][g[i - 1]] /\ g[i - 1] \in Int
        BY <1>1, <1>3, <4>1
      <4> QED BY <1>2, <3>2, <4>1, <4>2
    <3> QED BY <3>1, <3>2
  <2> QED BY <2>1 DEF IsQuot
<1>5. IsQuot(F, n, w)
  BY <1>4
<1>6. Image(n, w) = [i \in 1 .. w |-> F[i - 1] % Base]
  BY DEF Image, IsQuot
<1> HIDE DEF F
<1>7. \A i \in 0 .. w : F[i] = IF i = 0 THEN n ELSE F[i - 1] \div Base
  BY <1>5 DEF IsQuot
<1>8. F = [i \in 0 .. w |-> F[i]]
  BY <1>5 DEF IsQuot
<1>9. F[0] = n
  BY <1>7
<1>10. ASSUME NEW i \in 1 .. w PROVE F[i] = F[i - 1] \div Base
  BY <1>7
<1>11. F \in [0 .. w -> Int]
  <2>1. ASSUME NEW i \in 1 .. w, F[i - 1] \in Int PROVE F[i] \in Int
    BY <1>10, <2>1, Euclid
  <2>2. PICK D : D = Int
    OBVIOUS
  <2>3. F \in [0 .. w -> D]
    <3>1. F[0] \in D /\ \A i \in 1 .. w : F[i - 1] \in D => F[i] \in D
      BY <1>9, <2>1, <2>2
    <3> QED BY <1>8, <3>1, StaysIn
  <2> QED BY <2>2, <2>3
<1> QED BY <1>6, <1>9, <1>10, <1>11 DEF QuotFun

\* The numbers in the last bytes of b.
ValFun(f, b) ==
  /\ f \in [0 .. Len(b) -> Int]
  /\ f[0] = 0
  /\ \A i \in 1 .. Len(b) : f[i] = f[i - 1] * Base + b[Len(b) - i + 1]
  /\ Number(b) = f[Len(b)]

\* Number is the last value of a function that starts with 0 and takes the bytes from the
\* last to the first.
LEMMA ValOf == ASSUME NEW b \in Seq(Int) PROVE \E f : ValFun(f, b)
<1> DEFINE F == CHOOSE f : IsVal(f, b)
<1>1. PICK A : A = Int
  OBVIOUS
<1>w. PICK w \in Nat : w = Len(b)
  OBVIOUS
<1>b. \A i \in 1 .. w : b[w - i + 1] \in Int
  BY <1>w
<1>2. PICK s \in [Nat -> [A -> A]] : \A i \in 1 .. w : \A x \in Int : s[i][x] = x * Base + b[w - i + 1]
  <2>1. \A i \in 1 .. w : \A x \in Int : x * Base + b[w - i + 1] \in Int
    BY <1>b, BaseOf
  <2> DEFINE t == [i \in Nat |-> [x \in Int |-> IF i \in 1 .. w THEN x * Base + b[w - i + 1] ELSE x]]
  <2>2. t \in [Nat -> [Int -> Int]]
    BY <2>1
  <2>3. ASSUME NEW i \in 1 .. w, NEW x \in Int PROVE t[i][x] = x * Base + b[w - i + 1]
    <3>1. i \in Nat
      OBVIOUS
    <3>2. t[i] = [y \in Int |-> IF i \in 1 .. w THEN y * Base + b[w - i + 1] ELSE y]
      BY <3>1
    <3> HIDE DEF t
    <3> QED BY <3>2
  <2> HIDE DEF t
  <2> QED BY <1>1, <2>2, <2>3
<1>3. PICK g \in [0 .. w -> A] : g[0] = 0 /\ \A i \in 1 .. w : g[i] = s[i][g[i - 1]]
  <2>1. PICK a \in A : a = 0
    BY <1>1
  <2>2. Recursive(A, a, s, w)
    BY Recursion
  <2> QED BY <2>1, <2>2 DEF Recursive
<1>4. IsVal(g, b)
  <2>1. ASSUME NEW i \in 0 .. w PROVE g[i] = IF i = 0 THEN 0 ELSE g[i - 1] * Base + b[w - i + 1]
    <3>1. CASE i = 0
      BY <1>3, <3>1
    <3>2. CASE i # 0
      <4>1. i \in 1 .. w /\ i - 1 \in 0 .. w
        BY <3>2
      <4>2. g[i] = s[i][g[i - 1]] /\ g[i - 1] \in Int
        BY <1>1, <1>3, <4>1
      <4> QED BY <1>2, <3>2, <4>1, <4>2
    <3> QED BY <3>1, <3>2
  <2> QED BY <1>w, <2>1 DEF IsVal
<1>5. IsVal(F, b)
  BY <1>4
<1>6. Number(b) = F[w]
  BY <1>w DEF Number, IsVal
<1> HIDE DEF F
<1>7. \A i \in 0 .. w : F[i] = IF i = 0 THEN 0 ELSE F[i - 1] * Base + b[w - i + 1]
  BY <1>5, <1>w DEF IsVal
<1>8. F = [i \in 0 .. w |-> F[i]]
  BY <1>5, <1>w DEF IsVal
<1>9. F[0] = 0
  BY <1>7
<1>10. ASSUME NEW i \in 1 .. w PROVE F[i] = F[i - 1] * Base + b[w - i + 1]
  BY <1>7
<1>11. F \in [0 .. w -> Int]
  <2>1. ASSUME NEW i \in 1 .. w, F[i - 1] \in Int PROVE F[i] \in Int
    <3>1. PICK x \in Int, c \in Int : x = F[i - 1] /\ c = b[w - i + 1]
      BY <2>1, <1>b
    <3>2. F[i] = x * Base + c
      BY <1>10, <3>1
    <3> QED BY <3>2, BaseOf
  <2>2. PICK D : D = Int
    OBVIOUS
  <2>3. F \in [0 .. w -> D]
    <3>1. F[0] \in D /\ \A i \in 1 .. w : F[i - 1] \in D => F[i] \in D
      BY <1>9, <2>1, <2>2
    <3> QED BY <1>8, <3>1, StaysIn
  <2> QED BY <2>2, <2>3
<1> QED BY <1>6, <1>9, <1>10, <1>11, <1>w DEF ValFun

\* An image is a string of bytes.
LEMMA ImageBytes ==
  ASSUME NEW n \in Int, NEW w \in Nat
  PROVE  Image(n, w) \in Seq(Int) /\ Len(Image(n, w)) = w
<1>1. PICK g : QuotFun(g, n, w)
  BY QuotOf
<1>2. g \in [0 .. w -> Int] /\ Image(n, w) = [i \in 1 .. w |-> g[i - 1] % Base]
  BY <1>1 DEF QuotFun
<1>3. ASSUME NEW i \in 1 .. w PROVE g[i - 1] % Base \in Int
  <2>1. g[i - 1] \in Int
    BY <1>2
  <2> QED BY <2>1, Euclid
<1>4. [i \in 1 .. w |-> g[i - 1] % Base] \in [1 .. w -> Int]
  BY <1>3
<1> QED BY <1>2, <1>4

\* One more byte: what a value x, the value v of the bytes above and their number of
\* values p say of the value with the byte.
LEMMA OneMoreByte ==
  ASSUME NEW x \in Int, NEW y \in Int, NEW v \in Int, NEW q \in Int, NEW p \in Nat, NEW r \in 0 .. Base - 1,
         x = y * Base + r, v = y - q * p, 0 <= v, v < p
  PROVE  /\ v * Base + r = x - q * (Base * p)
         /\ 0 <= v * Base + r
         /\ v * Base + r < Base * p
<1>0. PICK B \in Nat : B = Base /\ B >= 4
  BY BaseOf
<1>1. r \in Int /\ 0 <= r /\ r < B
  BY <1>0
<1>2. v * B = y * B - q * (B * p)
  BY <1>0
<1>3. 0 <= v * B
  BY <1>0
<1>4. v + 1 <= p /\ (v + 1) * B = v * B + B
  BY <1>0
<1>5. (v + 1) * B <= p * B /\ p * B = B * p
  BY <1>0, <1>4
<1> QED BY <1>0, <1>1, <1>2, <1>3, <1>4, <1>5

\* The number in the image of n differs from n by a multiple of the number of values.
LEMMA NumberOfImage ==
  ASSUME NEW n \in Int, NEW w \in Nat
  PROVE  \E q \in Int : /\ Number(Image(n, w)) = n - q * Size(w)
                        /\ 0 <= Number(Image(n, w)) /\ Number(Image(n, w)) < Size(w)
<1>1. PICK f : SizeFun(f, w)
  BY SizeOf
<1>2. PICK g : QuotFun(g, n, w)
  BY QuotOf
<1>3. PICK b \in Seq(Int) : b = Image(n, w) /\ Len(b) = w
  BY ImageBytes
<1>4. PICK h : ValFun(h, b)
  BY ValOf
<1>5. f \in [0 .. w -> Nat] /\ f[0] = 1 /\ (\A i \in 1 .. w : f[i] = Base * f[i - 1]) /\ Size(w) = f[w]
  BY <1>1 DEF SizeFun
<1>6. /\ g \in [0 .. w -> Int] /\ g[0] = n /\ (\A i \in 1 .. w : g[i] = g[i - 1] \div Base)
      /\ \A i \in 1 .. w : b[i] = g[i - 1] % Base
  BY <1>2, <1>3 DEF QuotFun
<1>7. /\ h \in [0 .. w -> Int] /\ h[0] = 0 /\ (\A i \in 1 .. w : h[i] = h[i - 1] * Base + b[w - i + 1])
      /\ Number(b) = h[w]
  BY <1>3, <1>4 DEF ValFun
<1>8. PICK q \in Int : q = g[w]
  BY <1>6
<1> DEFINE Ok(i) == h[i] = g[w - i] - q * f[i] /\ 0 <= h[i] /\ h[i] < f[i]
           T == {i \in Nat : i \in 0 .. w => Ok(i)}
<1>9. 0 \in T
  <2>1. w - 0 = w /\ q - q * 1 = 0
    OBVIOUS
  <2> QED BY <1>5, <1>7, <1>8, <2>1
<1>10. ASSUME NEW i \in Nat, i \in T PROVE i + 1 \in T
  <2> SUFFICES ASSUME i + 1 \in 0 .. w PROVE Ok(i + 1)
    OBVIOUS
  <2>1. PICK k \in Nat : k = w - (i + 1) /\ k \in 0 .. w /\ k + 1 \in 1 .. w /\ (k + 1) - 1 = k
    OBVIOUS
  <2>2. i \in 0 .. w /\ i + 1 \in 1 .. w /\ (i + 1) - 1 = i /\ w - (i + 1) + 1 = k + 1 /\ w - i = k + 1
    BY <2>1
  <2>3. Ok(i)
    BY <1>10, <2>2
  <2>4. PICK x \in Int, y \in Int, v \in Int, p \in Nat : x = g[k] /\ y = g[k + 1] /\ v = h[i] /\ p = f[i]
    <3>1. g[k] \in Int /\ g[k + 1] \in Int
      BY <1>6, <2>1
    <3>2. h[i] \in Int /\ f[i] \in Nat
      BY <1>5, <1>7, <2>2
    <3> QED BY <3>1, <3>2
  <2>5. v = y - q * p /\ 0 <= v /\ v < p
    BY <2>2, <2>3, <2>4
  <2>6. y = x \div Base /\ b[k + 1] = x % Base
    BY <1>6, <2>1, <2>4
  <2>7. PICK r \in 0 .. Base - 1 : r = x % Base /\ x = y * Base + r
    BY <2>6, Euclid
  <2>8. h[i + 1] = v * Base + r /\ f[i + 1] = Base * p
    BY <1>5, <1>7, <2>2, <2>4, <2>6, <2>7
  <2>9. v * Base + r = x - q * (Base * p) /\ 0 <= v * Base + r /\ v * Base + r < Base * p
    BY <2>5, <2>7, OneMoreByte
  <2> QED BY <2>1, <2>4, <2>8, <2>9
<1>11. \A i \in Nat : i \in T
  <2> HIDE DEF T
  <2> QED BY <1>9, <1>10, Induction
<1>12. Ok(w) /\ w - w = 0
  <2>1. w \in 0 .. w /\ w - w = 0
    OBVIOUS
  <2> QED BY <1>11, <2>1
<1> QED BY <1>3, <1>5, <1>6, <1>7, <1>12

\* A number of w bytes, signed or not, comes back from its image.
LEMMA NumberBack ==
  ASSUME NEW n \in Int, NEW w \in Nat
  PROVE  /\ Size(w) \in Nat
         /\ 0 <= n /\ n < Size(w) => Number(Image(n, w)) = n
         /\ n < 0 /\ 0 <= n + Size(w) => Number(Image(n, w)) = n + Size(w)
<1>1. PICK f : SizeFun(f, w)
  BY SizeOf
<1>2. PICK P \in Nat : P = Size(w)
  BY <1>1 DEF SizeFun
<1>m. PICK m : m = Number(Image(n, w))
  OBVIOUS
<1>3. PICK q \in Int : m = n - q * P /\ 0 <= m /\ m < P
  BY <1>2, <1>m, NumberOfImage
<1>4. q >= 1 => q * P >= P
  OBVIOUS
<1>5. q <= -1 => q * P <= -P
  OBVIOUS
<1>6. q <= -2 => q * P <= -P - P
  OBVIOUS
<1>7. q * P \in Int /\ (q = 0 => q * P = 0) /\ (q = -1 => q * P = -P)
  OBVIOUS
<1>8. ASSUME 0 <= n, n < P PROVE m = n
  <2>1. q = 0
    BY <1>3, <1>4, <1>5, <1>7, <1>8
  <2> QED BY <1>3, <1>7, <2>1
<1>9. ASSUME n < 0, 0 <= n + P PROVE m = n + P
  <2>1. q = -1
    BY <1>3, <1>4, <1>6, <1>7, <1>9
  <2> QED BY <1>3, <1>7, <2>1
<1> QED BY <1>2, <1>m, <1>8, <1>9

\* Quotient and remainder.
LEMMA Remainder ==
  ASSUME NEW P \in Nat \ {0}, NEW a \in Int
  PROVE  \E q \in Int, r \in Int : a = P * q + r /\ 0 <= r /\ r < P /\ r = a % P
<1>1. PICK q \in Int : q = a \div P
  OBVIOUS
<1>2. PICK r \in 0 .. P - 1 : r = a % P
  OBVIOUS
<1>3. a = P * (a \div P) + (a % P)
  OBVIOUS
<1>4. r \in Int /\ 0 <= r /\ r < P
  OBVIOUS
<1> QED BY <1>1, <1>2, <1>3, <1>4

\* Whole multiples of P do not change a remainder.
LEMMA SameRemainder ==
  ASSUME NEW P \in Nat \ {0}, NEW a \in Int, NEW k \in Int
  PROVE  (a + P * k) % P = a % P
<1>1. PICK q \in Int, r \in Int : a = P * q + r /\ 0 <= r /\ r < P /\ r = a % P
  BY Remainder
<1>2. PICK b \in Int : b = a + P * k
  OBVIOUS
<1>3. PICK u \in Int, t \in Int : b = P * u + t /\ 0 <= t /\ t < P /\ t = b % P
  BY Remainder
<1>4. PICK d \in Int : d = (q + k) - u
  OBVIOUS
<1>5. P * d = t - r
  <2>1. P * ((q + k) - u) = P * q + P * k - P * u
    OBVIOUS
  <2>2. PICK x \in Int, y \in Int, z \in Int : x = P * q /\ y = P * k /\ z = P * u
    OBVIOUS
  <2>3. P * d = x + y - z
    BY <1>4, <2>1, <2>2
  <2>4. x + r + y = z + t
    BY <1>1, <1>2, <1>3, <2>2
  <2> QED BY <2>3, <2>4
<1>6. (d >= 1 => P * d >= P) /\ (d <= -1 => P * d <= -P) /\ (d = 0 => P * d = 0)
  OBVIOUS
<1>7. d = 0
  BY <1>1, <1>3, <1>5, <1>6
<1>8. t = r
  BY <1>1, <1>3, <1>5, <1>6, <1>7
<1> QED BY <1>1, <1>2, <1>3, <1>8

\* The fields of which the theorem speaks: numbers that are not swapped, and strings
\* whose length fits a byte, which is what lstring1 has for it.
PlainFields ==
  /\ Little = TRUE
  /\ Kinds \subseteq Numbers \cup {"cstring", "cstring_len", "string", "lstring1", "lstring2"}
  /\ \A n \in Lengths : n < Base

\* The elements of two sequences put together.
LEMMA ConcatOf ==
  ASSUME NEW u \in Seq(Int), NEW v \in Seq(Int)
  PROVE  /\ u \o v \in Seq(Int)
         /\ Len(u \o v) = Len(u) + Len(v)
         /\ \A i \in 1 .. Len(u) : (u \o v)[i] = u[i]
         /\ \A i \in 1 .. Len(v) : (u \o v)[Len(u) + i] = v[i]
OBVIOUS

\* The first Len(u) bytes of u and v are u, the others v.
LEMMA TakeApart ==
  ASSUME NEW u \in Seq(Int), NEW v \in Seq(Int)
  PROVE  /\ u \o v \in Seq(Int) /\ Len(u \o v) = Len(u) + Len(v)
         /\ SubSeq(u \o v, 1, Len(u)) = u
         /\ SubSeq(u \o v, Len(u) + 1, Len(u \o v)) = v
<1>1. PICK c \in Seq(Int) : c = u \o v
  BY ConcatOf
<1>2. /\ Len(c) = Len(u) + Len(v) /\ Len(u) \in Nat /\ Len(v) \in Nat
      /\ \A i \in 1 .. Len(u) : c[i] = u[i]
      /\ \A i \in 1 .. Len(v) : c[Len(u) + i] = v[i]
  BY <1>1, ConcatOf
<1>3. PICK x : x = SubSeq(c, 1, Len(u))
  OBVIOUS
<1>4. x \in Seq(Int) /\ Len(x) = Len(u) /\ \A i \in 1 .. Len(u) : x[i] = c[i]
  BY <1>2, <1>3
<1>5. x = u
  BY <1>2, <1>4, SameSequence
<1>6. PICK y : y = SubSeq(c, Len(u) + 1, Len(c))
  OBVIOUS
<1>7. y \in Seq(Int) /\ Len(y) = Len(v) /\ \A i \in 1 .. Len(v) : y[i] = c[Len(u) + i]
  BY <1>2, <1>6
<1>8. y = v
  BY <1>2, <1>7, SameSequence
<1> QED BY <1>1, <1>2, <1>3, <1>5, <1>6, <1>8

\* The sequence c is u and then v.
Joined(u, v, c) ==
  /\ c = u \o v /\ c \in Seq(Int)
  /\ Len(u) \in Nat /\ Len(v) \in Nat /\ Len(c) = Len(u) + Len(v)
  /\ \A i \in 1 .. Len(u) : c[i] = u[i]
  /\ \A i \in 1 .. Len(v) : c[Len(u) + i] = v[i]
  /\ SubSeq(c, 1, Len(u)) = u
  /\ SubSeq(c, Len(u) + 1, Len(c)) = v

\* Two sequences put together can be taken apart again.
LEMMA Join ==
  ASSUME NEW u \in Seq(Int), NEW v \in Seq(Int)
  PROVE  Joined(u, v, u \o v)
<1>1. Len(u) \in Nat /\ Len(v) \in Nat
  OBVIOUS
<1> QED BY <1>1, ConcatOf, TakeApart DEF Joined

\* Of three parts the first two or the last two may be put together first.
Regroups(u, v, x) == (u \o v) \o x = u \o (v \o x)

\* Any three sequences of bytes regroup.
LEMMA ThreeParts ==
  ASSUME NEW u \in Seq(Int), NEW v \in Seq(Int), NEW x \in Seq(Int)
  PROVE  Regroups(u, v, x)
<1>1. PICK c \in Seq(Int) : c = u \o v /\ Len(c) = Len(u) + Len(v)
  BY TakeApart
<1>2. PICK d \in Seq(Int) : d = v \o x /\ Len(d) = Len(v) + Len(x)
  BY TakeApart
<1>3. PICK l \in Seq(Int) : l = c \o x /\ Len(l) = Len(c) + Len(x)
  BY TakeApart
<1>4. PICK r \in Seq(Int) : r = u \o d /\ Len(r) = Len(u) + Len(d)
  BY TakeApart
<1>5. Len(u) \in Nat /\ Len(v) \in Nat /\ Len(x) \in Nat /\ Len(l) = Len(u) + Len(v) + Len(x) /\ Len(l) = Len(r)
  BY <1>1, <1>2, <1>3, <1>4
<1>6. ASSUME NEW i \in 1 .. Len(r) PROVE l[i] = r[i]
  <2>1. CASE i <= Len(u)
    <3>1. c[i] = u[i] /\ l[i] = c[i] /\ r[i] = u[i]
      BY <1>1, <1>3, <1>4, <1>5, <2>1
    <3> QED BY <3>1
  <2>2. CASE Len(u) < i /\ i <= Len(u) + Len(v)
    <3>1. PICK k \in 1 .. Len(v) : i = Len(u) + k
      <4>1. i - Len(u) \in 1 .. Len(v) /\ i = Len(u) + (i - Len(u))
        BY <1>5, <2>2
      <4> QED BY <4>1
    <3>2. c[i] = v[k] /\ d[k] = v[k]
      BY <1>1, <1>2, <3>1
    <3>3. l[i] = c[i] /\ r[i] = d[k]
      BY <1>1, <1>2, <1>3, <1>4, <1>5, <3>1
    <3> QED BY <3>2, <3>3
  <2>3. CASE Len(u) + Len(v) < i
    <3>1. PICK k \in 1 .. Len(x) : i = Len(u) + Len(v) + k
      <4>1. i - (Len(u) + Len(v)) \in 1 .. Len(x) /\ i = Len(u) + Len(v) + (i - (Len(u) + Len(v)))
        BY <1>5, <2>3
      <4> QED BY <4>1
    <3>2. PICK j \in 1 .. Len(d) : j = Len(v) + k /\ i = Len(u) + j
      BY <1>2, <1>5, <3>1
    <3>3. d[j] = x[k]
      BY <1>2, <3>1, <3>2
    <3>4. l[i] = x[k]
      <4>0. Joined(c, x, l)
        BY <1>3, Join
      <4>1. l[Len(c) + k] = x[k]
        BY <4>0 DEF Joined
      <4>2. Len(c) + k = i
        BY <1>1, <3>1
      <4> QED BY <4>1, <4>2
    <3>5. r[i] = d[j]
      BY <1>4, <3>2
    <3> QED BY <3>3, <3>4, <3>5
  <2> QED BY <1>5, <2>1, <2>2, <2>3
<1>7. l = r
  BY <1>5, <1>6, SameSequence
<1> QED BY <1>1, <1>2, <1>3, <1>4, <1>7 DEF Regroups

\* The numbers of values of one, two, four and eight bytes.
LEMMA SizesOf ==
  /\ Size(1) = Base
  /\ Size(2) \in Nat /\ Size(2) >= Base + Base
  /\ Size(4) \in Nat /\ Size(4) >= Base + Base
  /\ Size(8) \in Nat /\ Size(8) >= Base + Base
  /\ \E k \in Nat : Size(8) = Size(4) * k
<1>0. PICK B \in Nat : B = Base /\ B >= 4
  BY BaseOf
<1>1. \A p \in Nat : B * p \in Nat /\ B * p >= p + p
  BY <1>0
<1>2. PICK f : SizeFun(f, 1)
  BY SizeOf
<1>3. Size(1) = B
  BY <1>0, <1>2 DEF SizeFun
<1>4. PICK g : SizeFun(g, 2)
  BY SizeOf
<1>5. Size(2) \in Nat /\ Size(2) >= B + B
  <2>1. g[0] = 1 /\ g[1] = B * g[1 - 1] /\ g[2] = B * g[2 - 1] /\ Size(2) = g[2]
    BY <1>0, <1>4 DEF SizeFun
  <2>2. g[1] = B /\ g[2] = B * B
    BY <1>0, <2>1
  <2> QED BY <1>0, <1>1, <2>1, <2>2
<1>6. PICK h : SizeFun(h, 4)
  BY SizeOf
<1>7. Size(4) \in Nat /\ Size(4) >= B + B
  <2>1. /\ h[0] = 1 /\ h[1] = B * h[1 - 1] /\ h[2] = B * h[2 - 1]
        /\ h[3] = B * h[3 - 1] /\ h[4] = B * h[4 - 1] /\ Size(4) = h[4]
    BY <1>0, <1>6 DEF SizeFun
  <2>2. h[1] = B /\ h[2] = B * B /\ h[3] = B * (B * B) /\ h[4] = B * (B * (B * B))
    BY <1>0, <2>1
  <2>3. PICK x \in Nat : x = B * B /\ x >= B + B
    BY <1>0, <1>1
  <2>4. PICK y \in Nat : y = B * x /\ y >= x + x
    BY <1>1
  <2>5. B * y \in Nat /\ B * y >= y + y
    BY <1>1
  <2> QED BY <1>0, <2>1, <2>2, <2>3, <2>4, <2>5
<1>8. PICK P \in Nat : P = Size(4) /\ P >= B + B
  BY <1>7
<1>9. PICK d : SizeFun(d, 8)
  BY SizeOf
<1>10. d[4] = P
  <2>1. /\ h[0] = 1 /\ h[1] = B * h[1 - 1] /\ h[2] = B * h[2 - 1]
        /\ h[3] = B * h[3 - 1] /\ h[4] = B * h[4 - 1] /\ Size(4) = h[4]
    BY <1>0, <1>6 DEF SizeFun
  <2>2. /\ d[0] = 1 /\ d[1] = B * d[1 - 1] /\ d[2] = B * d[2 - 1]
        /\ d[3] = B * d[3 - 1] /\ d[4] = B * d[4 - 1]
    BY <1>0, <1>9 DEF SizeFun
  <2> QED BY <1>8, <2>1, <2>2
<1>11. Size(8) = B * (B * (B * (B * P)))
  <2>1. /\ d[5] = B * d[5 - 1] /\ d[6] = B * d[6 - 1]
        /\ d[7] = B * d[7 - 1] /\ d[8] = B * d[8 - 1] /\ Size(8) = d[8]
    BY <1>0, <1>9 DEF SizeFun
  <2> QED BY <1>10, <2>1
<1>12. PICK k \in Nat : k = B * (B * (B * B)) /\ k >= 1
  <2>1. PICK x \in Nat : x = B * B /\ x >= B + B
    BY <1>0, <1>1
  <2>2. PICK y \in Nat : y = B * x /\ y >= x + x
    BY <1>1
  <2>3. B * y \in Nat /\ B * y >= y + y
    BY <1>1
  <2> QED BY <1>0, <2>1, <2>2, <2>3
<1>13. B * (B * (B * (B * P))) = P * k
  <2>1. PICK x \in Nat : x = B * P
    BY <1>0, <1>8
  <2>2. PICK y \in Nat : y = B * x
    BY <1>0
  <2>3. PICK z \in Nat : z = B * y
    BY <1>0
  <2>4. x = P * B /\ y = P * (B * B) /\ z = P * (B * (B * B)) /\ B * z = P * (B * (B * (B * B)))
    BY <1>0, <1>8, <2>1, <2>2, <2>3
  <2> QED BY <1>12, <2>1, <2>2, <2>3, <2>4
<1>14. P * k \in Nat /\ P * k >= P
  BY <1>8, <1>12
<1> QED BY <1>0, <1>3, <1>5, <1>7, <1>8, <1>11, <1>12, <1>13, <1>14


\* A value that fits a kind of number.
Fits(ty, v) ==
  /\ v \in Int
  /\ ty = "uiboolean" => v \in {0, 1}
  /\ ty \in {"uint8", "uint16", "uint32", "uint64"} => 0 <= v /\ v < Size(Width(ty))
  /\ ty \in {"sint8", "sint16", "int", "int64"} =>
       -(Size(Width(ty)) \div 2) <= v /\ v < Size(Width(ty)) \div 2

\* What Serial writes for a number has the width of its kind, and Serial reads from it
\* what the script is to get, whatever comes behind.
NumberReads(ty, v, r) ==
  /\ WriteNumber(ty, v) \in Seq(Int)
  /\ Len(WriteNumber(ty, v)) = Width(ty)
  /\ ReadNumber(ty, WriteNumber(ty, v) \o r) = ComesBack([kind |-> ty, v |-> v])

\* A length of a number is that of its kind.
LEMMA WidthsOf ==
  ASSUME NEW ty \in Numbers
  PROVE  /\ Width(ty) \in {1, 2, 4, 8} /\ Width(ty) \in Nat
         /\ Size(Width(ty)) \in Nat /\ Size(Width(ty)) >= 4
<1>1. Width(ty) \in {1, 2, 4, 8}
  BY DEF Numbers, Signed, Width
<1>2. /\ Size(1) \in Nat /\ Size(1) >= 4 /\ Size(2) \in Nat /\ Size(2) >= 4
      /\ Size(4) \in Nat /\ Size(4) >= 4 /\ Size(8) \in Nat /\ Size(8) >= 4
  BY BaseOf, SizesOf
<1> QED BY <1>1, <1>2

\* Serial of a number that fits its kind, writing and then reading.
LEMMA NumberField ==
  ASSUME Little = TRUE, NEW ty \in Numbers, NEW v, Fits(ty, v), NEW r \in Seq(Int)
  PROVE  NumberReads(ty, v, r)
<1>1. PICK w \in Nat : w = Width(ty) /\ w \in {1, 2, 4, 8}
  BY WidthsOf
<1>2. PICK P \in Nat : P = Size(w) /\ P >= 4
  BY <1>1, WidthsOf
<1>3. PICK H \in Nat : H = P \div 2 /\ H + H <= P /\ H >= 2
  <2>1. P \div 2 \in Nat /\ (P \div 2) + (P \div 2) <= P /\ P \div 2 >= 2
    BY <1>2
  <2> QED BY <2>1
<1>v. v \in Int
  BY DEF Fits
<1>4. PICK a \in Int : a = IF w = 8 THEN Atoll(v) ELSE v
  <2>1. w = 8 => Atoll(v) = IF v >= H THEN H - 1 ELSE IF v < -H THEN -H ELSE v
    BY <1>2, <1>3 DEF Atoll
  <2> QED BY <1>3, <1>v, <2>1
<1>5. PICK b \in Seq(Int) : b = WriteNumber(ty, v) /\ b = Image(a, w) /\ Len(b) = w
  BY <1>1, <1>4, ImageBytes DEF WriteNumber
<1>6. SubSeq(b \o r, 1, w) = b
  BY <1>5, TakeApart
<1>7. PICK n : n = Number(b)
  OBVIOUS
<1>8. Number(Swap(SubSeq(b \o r, 1, w))) = n
  BY <1>6, <1>7 DEF Swap
<1>9. (0 <= a /\ a < P => n = a) /\ (a < 0 /\ 0 <= a + P => n = a + P)
  BY <1>2, <1>5, <1>7, NumberBack
<1>f. PICK f : f = [kind |-> ty, v |-> v] /\ f.kind = ty /\ f.v = v
  <2>1. PICK f : f = [kind |-> ty, v |-> v]
    OBVIOUS
  <2>2. f.kind = ty /\ f.v = v
    BY <2>1
  <2> QED BY <2>1, <2>2
<1>10. ReadNumber(ty, b \o r) = ComesBack(f)
  <2>1. CASE ty = "uiboolean"
    <3>1. ReadNumber(ty, b \o r) = IF n = 1 THEN 1 ELSE 0
      BY <1>1, <1>8, <2>1 DEF ReadNumber, Signed
    <3>2. v \in {0, 1} /\ w = 4
      BY <1>1, <2>1 DEF Fits, Width
    <3>3. n = v
      BY <1>2, <1>4, <1>9, <3>2
    <3>4. ComesBack(f) = v
      BY <1>f, <2>1 DEF ComesBack
    <3> QED BY <3>1, <3>2, <3>3, <3>4
  <2>2. CASE ty \in {"uint8", "uint16"}
    <3>1. ReadNumber(ty, b \o r) = n
      BY <1>1, <1>8, <2>2 DEF ReadNumber, Signed
    <3>2. 0 <= v /\ v < P /\ w # 8
      BY <1>1, <1>2, <2>2 DEF Fits, Width
    <3>3. n = v
      BY <1>4, <1>9, <3>2
    <3>4. ComesBack(f) = v
      BY <1>f, <2>2 DEF ComesBack
    <3> QED BY <3>1, <3>3, <3>4
  <2>3. CASE ty \in {"sint8", "sint16", "int"}
    <3>1. ReadNumber(ty, b \o r) = IF n >= H THEN n - P ELSE n
      BY <1>1, <1>2, <1>3, <1>8, <2>3 DEF ReadNumber, Signed, AsSigned
    <3>2. -H <= v /\ v < H /\ w # 8
      BY <1>1, <1>2, <1>3, <2>3 DEF Fits, Width
    <3>3. ComesBack(f) = v
      BY <1>f, <2>3 DEF ComesBack
    <3>4. CASE v < 0
      <4>1. n = v + P /\ n >= H /\ n - P = v
        BY <1>v, <1>3, <1>4, <1>9, <3>2, <3>4
      <4> QED BY <3>1, <3>3, <4>1
    <3>5. CASE ~(v < 0)
      <4>1. n = v /\ ~(n >= H)
        BY <1>v, <1>3, <1>4, <1>9, <3>2, <3>5
      <4> QED BY <3>1, <3>3, <4>1
    <3> QED BY <3>4, <3>5
  <2>4. CASE ty = "uint32"
    <3>1. ReadNumber(ty, b \o r) = AsSigned(n, 4)
      BY <1>1, <1>8, <2>4 DEF ReadNumber, Signed, Width
    <3>2. 0 <= v /\ v < P /\ w # 8
      BY <1>1, <1>2, <2>4 DEF Fits, Width
    <3>3. n = v
      BY <1>4, <1>9, <3>2
    <3>4. ComesBack(f) = AsSigned(v, 4)
      BY <1>f, <2>4 DEF ComesBack
    <3> QED BY <3>1, <3>3, <3>4
  <2>5. CASE ty \in {"uint64", "int64"}
    <3>1. w = 8
      BY <1>1, <2>5 DEF Width
    <3>2. -H <= a /\ a < H /\ (ty = "int64" => a = v)
      <4>1. Atoll(v) = IF v >= H THEN H - 1 ELSE IF v < -H THEN -H ELSE v
        BY <1>2, <1>3, <3>1 DEF Atoll
      <4>2. ty = "int64" => -H <= v /\ v < H
        BY <1>1, <1>2, <1>3 DEF Fits
      <4> QED BY <1>v, <1>3, <1>4, <3>1, <4>1, <4>2
    <3>3. n = a \/ n = a + P
      BY <1>3, <1>9, <3>2
    <3>4. PICK Q \in Nat \ {0}, k \in Nat : Q = Size(4) /\ P = Q * k
      BY <1>2, <3>1, SizesOf, BaseOf
    <3>5. LowWord(n) = LowWord(a)
      <4>1. (a + Q * k) % Q = a % Q
        <5>1. k \in Int
          OBVIOUS
        <5> QED BY <1>4, <5>1, SameRemainder
      <4> QED BY <3>3, <3>4, <4>1 DEF LowWord
    <3>6. CASE ty = "uint64"
      <4>1. ReadNumber(ty, b \o r) = LowWord(n)
        BY <1>1, <1>8, <3>6 DEF ReadNumber, Signed
      <4>2. ComesBack(f) = LowWord(a)
        BY <1>f, <1>4, <3>1, <3>6 DEF ComesBack
      <4> QED BY <3>5, <4>1, <4>2
    <3>7. CASE ty = "int64"
      <4>1. ReadNumber(ty, b \o r) = AsSigned(LowWord(n), 4)
        BY <1>1, <1>8, <3>7 DEF ReadNumber
      <4>2. ComesBack(f) = AsSigned(LowWord(a), 4)
        BY <1>f, <3>2, <3>7 DEF ComesBack
      <4> QED BY <3>5, <4>1, <4>2
    <3> QED BY <2>5, <3>6, <3>7
  <2> QED BY <2>1, <2>2, <2>3, <2>4, <2>5 DEF Numbers, Signed
<1> QED BY <1>1, <1>f, <1>5, <1>10 DEF NumberReads

\* The numbers a script writes fit their kinds.
LEMMA ValuesFit ==
  ASSUME NEW ty \in Numbers, NEW v \in FieldValues(ty)
  PROVE  Fits(ty, v)
<1>1. PICK w \in Nat : w = Width(ty)
  BY WidthsOf
<1>2. PICK P \in Nat : P = Size(w) /\ P >= 4
  BY <1>1, WidthsOf
<1>3. PICK H \in Nat : H = P \div 2 /\ H >= 2 /\ H + H <= P
  <2>1. P \div 2 \in Nat /\ P \div 2 >= 2 /\ (P \div 2) + (P \div 2) <= P
    BY <1>2
  <2> QED BY <2>1
<1>4. CASE ty = "uiboolean"
  <2>1. v \in {0, 1}
    BY <1>4 DEF FieldValues
  <2> QED BY <1>4, <2>1 DEF Fits
<1>5. CASE ty \in {"uint8", "uint16", "uint32", "uint64"}
  <2>1. v \in {0, 1, H - 1, H, P - 1}
    BY <1>1, <1>2, <1>3, <1>5 DEF FieldValues
  <2>2. v \in Int /\ 0 <= v /\ v < P
    BY <1>2, <1>3, <2>1
  <2> QED BY <1>1, <1>2, <1>5, <2>2 DEF Fits
<1>6. CASE ty \in {"sint8", "sint16", "int", "int64"}
  <2>1. v \in {-H, -1, 0, 1, H - 1}
    BY <1>1, <1>2, <1>3, <1>6 DEF FieldValues
  <2>2. v \in Int /\ -H <= v /\ v < H
    BY <1>3, <2>1
  <2> QED BY <1>1, <1>2, <1>3, <1>6, <2>2 DEF Fits
<1> QED BY <1>4, <1>5, <1>6 DEF Numbers, Signed

PlainStrings == {"cstring", "cstring_len", "string", "lstring1", "lstring2"}

\* A string that a script may write as a field of a kind: n bytes, without a zero if
\* the kind is a C string.
IsString(ty, s, n) ==
  /\ n \in Lengths /\ n \in Nat /\ n < Base
  /\ s \in Seq(Int) /\ Len(s) = n
  /\ \A i \in 1 .. n : s[i] \in 0 .. Base - 1
  /\ ty \notin {"lstring1", "lstring2"} => \A i \in 1 .. n : s[i] # 0

\* The strings a script writes.
LEMMA StringsOf ==
  ASSUME PlainFields, NEW ty \in PlainStrings, NEW s \in FieldValues(ty)
  PROVE  \E n : IsString(ty, s, n)
<1>1. ASSUME NEW n \in Lengths
      PROVE  n \in Nat /\ n < Base
  BY LengthAssumption DEF PlainFields
<1>2. CASE ty \in {"lstring1", "lstring2"}
  <2>1. s \in {[i \in 1 .. n |-> i % 2] : n \in Lengths}
    BY <1>2 DEF FieldValues, Signed, Numbers
  <2>2. PICK n \in Lengths : s = [i \in 1 .. n |-> i % 2]
    BY <2>1
  <2>3. n \in Nat /\ n < Base
    BY <1>1
  <2>4. s \in [1 .. n -> Int]
    BY <2>2, <2>3
  <2>5. s \in Seq(Int) /\ Len(s) = n
    BY <2>3, <2>4
  <2>6. ASSUME NEW i \in 1 .. n PROVE s[i] \in 0 .. Base - 1
    <3>1. i \in Nat /\ s[i] = i % 2
      BY <2>2, <2>3
    <3>2. i % 2 \in 0 .. 1
      BY <3>1
    <3> QED BY <3>1, <3>2, BaseOf
  <2> QED BY <1>2, <2>3, <2>5, <2>6 DEF IsString
<1>3. CASE ty \in {"cstring", "cstring_len", "string"}
  <2>1. s \in {[i \in 1 .. n |-> 1] : n \in Lengths}
    BY <1>3 DEF FieldValues, Signed, Numbers
  <2>2. PICK n \in Lengths : s = [i \in 1 .. n |-> 1]
    BY <2>1
  <2>3. n \in Nat /\ n < Base
    BY <1>1
  <2>4. s \in [1 .. n -> Int] /\ \A i \in 1 .. n : s[i] = 1
    BY <2>2, <2>3
  <2>5. s \in Seq(Int) /\ Len(s) = n
    BY <2>3, <2>4
  <2>6. \A i \in 1 .. n : s[i] \in 0 .. Base - 1 /\ s[i] # 0
    BY <2>4, BaseOf
  <2> QED BY <2>3, <2>5, <2>6 DEF IsString
<1> QED BY <1>2, <1>3 DEF PlainStrings

\* A string is not longer than the size scripts agree on.
LEMMA FixedSizeOf ==
  ASSUME PlainFields, NEW n \in Lengths
  PROVE  FixedSize \in Nat /\ n <= FixedSize
<1>1. PICK S \in Nat : S = Base
  BY BaseOf
<1>2. \A l \in Lengths : l \in Nat /\ l < S
  BY <1>1, LengthAssumption DEF PlainFields
<1> DEFINE D == {S - l : l \in Lengths}
<1>3. D \in SUBSET Nat /\ D # {}
  BY <1>2
<1>4. PICK d \in D : \A e \in D : d <= e
  <2> HIDE DEF D
  <2> QED BY <1>3, LeastNumber
<1>5. PICK m \in Lengths : d = S - m
  BY <1>4
<1>6. \A l \in Lengths : m >= l
  <2> SUFFICES ASSUME NEW l \in Lengths PROVE m >= l
    OBVIOUS
  <2>1. S - m <= S - l
    BY <1>4, <1>5
  <2> QED BY <1>2, <2>1
<1>7. FixedSize \in Lengths /\ \A l \in Lengths : FixedSize >= l
  BY <1>6 DEF FixedSize, Max
<1> QED BY <1>2, <1>7

\* The length n in front of a string is read from what was written for it.
LengthReads(ty, n, r) ==
  /\ WriteNumber(LengthKind(ty), n) \in Seq(Int)
  /\ Len(WriteNumber(LengthKind(ty), n)) = Width(LengthKind(ty))
  /\ ReadNumber(LengthKind(ty), WriteNumber(LengthKind(ty), n) \o r) = n

\* The length in front of a string can be read again.
LEMMA LengthField ==
  ASSUME PlainFields, NEW ty \in PlainStrings, NEW n \in Nat, n < Base, NEW r \in Seq(Int)
  PROVE  LengthReads(ty, n, r)
<1>1. PICK l : l = LengthKind(ty) /\ l \in {"uint8", "uint16", "int"}
  BY DEF LengthKind
<1>2. Fits(l, n)
  <2>1. PICK w : w = Width(l) /\ w \in {1, 2, 4} /\ (l = "int" => w = 4)
    BY <1>1 DEF Width
  <2>2. n < Size(w) /\ Size(w) \in Nat
    BY <2>1, BaseOf, SizesOf
  <2>3. l = "int" => Size(w) >= Base + Base
    BY <2>1, SizesOf
  <2>4. PICK P \in Nat : P = Size(w)
    BY <2>2
  <2>5. P \div 2 \in Nat /\ (P >= Base + Base => P \div 2 >= Base)
    BY BaseOf
  <2>6. l = "int" => -(P \div 2) <= n /\ n < P \div 2
    BY <2>3, <2>4, <2>5, BaseOf
  <2> QED BY <1>1, <2>1, <2>2, <2>4, <2>6 DEF Fits
<1>3. l \in Numbers
  BY <1>1 DEF Numbers, Signed
<1>4. Little = TRUE
  BY DEF PlainFields
<1>5. NumberReads(l, n, r)
  BY <1>2, <1>3, <1>4, NumberField
<1>6. ComesBack([kind |-> l, v |-> n]) = n
  BY <1>1 DEF ComesBack
<1> QED BY <1>1, <1>5, <1>6 DEF NumberReads, LengthReads

\* What Serial writes for a string is what Serial reads, whatever comes behind.
StringReads(ty, s, r) ==
  /\ WriteString(ty, s) \in Seq(Int)
  /\ ReadString(ty, WriteString(ty, s) \o r)
       = [value |-> s, used |-> Len(WriteString(ty, s))]

\* A string that is too long for SerialStr is not read.
UnreadString(s, r) ==
  /\ WriteString("cstring", s) \in Seq(Int)
  /\ ReadString("cstring", WriteString("cstring", s) \o r).value = Wild

\* The sequence y is the bytes of u behind position w, up to h.
IsMiddle(u, w, h, y) ==
  /\ y \in Seq(Int) /\ Len(y) = h - w
  /\ \A i \in 1 .. h - w : y[i] = u[w + i]

\* SubSeq takes a part out of the middle.
LEMMA Middle ==
  ASSUME NEW u \in Seq(Int), NEW w \in Nat, NEW h \in Nat, w <= h, h <= Len(u)
  PROVE  IsMiddle(u, w, h, SubSeq(u, w + 1, h))
BY DEF IsMiddle

\* A string with its length, once or twice.
LEMMA CountedField ==
  ASSUME PlainFields, NEW ty \in PlainStrings \ {"cstring_len"}, NEW s, NEW n, IsString(ty, s, n),
         NEW r \in Seq(Int)
  PROVE  IF ty = "cstring" /\ n >= StrLimit THEN UnreadString(s, r) ELSE StringReads(ty, s, r)
<1>1. n \in Nat /\ n < Base /\ s \in Seq(Int) /\ Len(s) = n /\ StrLimit \in Nat
  BY LengthAssumption DEF IsString
<1>2. PICK l, w : l = LengthKind(ty) /\ w = Width(l)
  OBVIOUS
<1>3. PICK c \in Seq(Int) : c = WriteNumber(l, n) /\ Len(c) = w
  <2>1. LengthReads(ty, n, r)
    BY <1>1, LengthField
  <2> QED BY <1>2, <2>1 DEF LengthReads
<1>4. w \in Nat
  BY <1>3
<1>5. ASSUME NEW x \in Seq(Int)
      PROVE  ReadNumber(l, c \o x) = n /\ SubSeq(c \o x, w + 1, Len(c \o x)) = x
  <2>1. LengthReads(ty, n, x)
    BY <1>1, LengthField
  <2>2. ReadNumber(l, c \o x) = n
    BY <1>2, <1>3, <2>1 DEF LengthReads
  <2> QED BY <1>3, <2>2, TakeApart
<1>6. PICK t \in Seq(Int) : t = s \o r /\ SubSeq(t, 1, n) = s
  <2>1. s \o r \in Seq(Int) /\ SubSeq(s \o r, 1, Len(s)) = s
    BY <1>1, TakeApart
  <2> QED BY <1>1, <2>1
<1>7. CASE ty = "string"
  <2>1. PICK d \in Seq(Int) : d = c \o c /\ Len(d) = w + w
    BY <1>3, TakeApart
  <2>2. PICK e \in Seq(Int) : e = d \o s /\ Len(e) = w + w + n
    <3>1. Joined(d, s, d \o s)
      BY <1>1, <2>1, Join
    <3> QED BY <1>1, <2>1, <3>1 DEF Joined
  <2>3. WriteString(ty, s) = e
    BY <1>1, <1>2, <1>3, <1>7, <2>1, <2>2 DEF WriteString
  <2>4. PICK u \in Seq(Int) : u = c \o t
    BY TakeApart
  <2>5. PICK b \in Seq(Int) : b = e \o r /\ b = c \o u
    <3>1. (d \o s) \o r = d \o (s \o r)
      <4>1. Regroups(d, s, r)
        BY <1>1, ThreeParts
      <4> QED BY <4>1 DEF Regroups
    <3>2. (c \o c) \o t = c \o (c \o t)
      <4>1. Regroups(c, c, t)
        BY ThreeParts
      <4> QED BY <4>1 DEF Regroups
    <3>3. c \o u \in Seq(Int)
      BY TakeApart
    <3> QED BY <1>6, <2>1, <2>2, <2>4, <3>1, <3>2, <3>3
  <2>6. ReadNumber(l, b) = n /\ SubSeq(b, w + 1, Len(b)) = u
    BY <1>5, <2>5
  <2>7. ReadString(ty, b) = [value |-> SubSeq(u, w + 1, w + n), used |-> 2 * w + n]
    BY <1>2, <1>7, <2>6 DEF ReadString
  <2>8. SubSeq(u, w + 1, w + n) = s
    <3>1. PICK y : y = SubSeq(u, w + 1, w + n)
      OBVIOUS
    <3>2. Len(t) = n + Len(r) /\ Len(r) \in Nat /\ \A i \in 1 .. n : t[i] = s[i]
      <4>1. Joined(s, r, t)
        BY <1>1, <1>6, Join
      <4> QED BY <1>1, <4>1 DEF Joined
    <3>3. Len(u) = w + Len(t) /\ \A i \in 1 .. Len(t) : u[w + i] = t[i]
      <4>1. Joined(c, t, u)
        BY <2>4, Join
      <4> QED BY <1>3, <4>1 DEF Joined
    <3>4. PICK h \in Nat : h = w + n /\ h <= Len(u) /\ h - w = n /\ Len(u) \in Nat
      <4>1. w + n \in Nat /\ Len(t) \in Nat /\ Len(u) \in Nat
        BY <1>1, <1>4
      <4>2. w + n <= Len(u)
        BY <1>1, <1>4, <3>2, <3>3, <4>1
      <4> QED BY <1>1, <1>4, <4>1, <4>2
    <3>5. y \in Seq(Int) /\ Len(y) = n /\ \A i \in 1 .. n : y[i] = u[w + i]
      <4>1. w <= h
        BY <1>1, <1>4, <3>4
      <4>2. IsMiddle(u, w, h, y)
        BY <1>4, <3>1, <3>4, <4>1, Middle
      <4> QED BY <3>4, <4>2 DEF IsMiddle
    <3>6. \A i \in 1 .. n : y[i] = s[i]
      <4> SUFFICES ASSUME NEW i \in 1 .. n PROVE y[i] = s[i]
        OBVIOUS
      <4>1. i \in 1 .. Len(t)
        BY <1>1, <3>2
      <4> QED BY <3>2, <3>3, <3>5, <4>1
    <3> QED BY <1>1, <3>1, <3>5, <3>6, SameSequence
  <2>9. 2 * w + n = w + w + n
    BY <1>1, <1>4
  <2> QED BY <1>7, <2>2, <2>3, <2>5, <2>7, <2>8, <2>9 DEF StringReads
<1>8. CASE ty \in {"cstring", "lstring1", "lstring2"}
  <2>1. PICK e \in Seq(Int) : e = c \o s /\ Len(e) = w + n
    BY <1>1, <1>3, TakeApart
  <2>2. WriteString(ty, s) = e
    BY <1>1, <1>2, <1>3, <1>8, <2>1 DEF WriteString
  <2>3. PICK b \in Seq(Int) : b = e \o r /\ b = c \o t
    <3>1. (c \o s) \o r = c \o (s \o r)
      <4>1. Regroups(c, s, r)
        BY <1>1, ThreeParts
      <4> QED BY <4>1 DEF Regroups
    <3>2. c \o t \in Seq(Int)
      BY TakeApart
    <3> QED BY <1>6, <2>1, <3>1, <3>2
  <2>4. ReadNumber(l, b) = n /\ SubSeq(b, w + 1, Len(b)) = t
    BY <1>5, <2>3
  <2>5. PICK a : a = ReadCString(t, n)
    OBVIOUS
  <2>6. ty = "cstring" => ReadString(ty, b) = [value |-> a.value, used |-> w + a.used]
    BY <1>2, <2>4, <2>5 DEF ReadString
  <2>7. CASE ~(ty = "cstring" /\ n >= StrLimit)
    <3>1. CASE ty = "cstring"
      <4>0. n < StrLimit
        BY <1>1, <2>7, <3>1
      <4>1. a = [value |-> s, used |-> n]
        BY <1>6, <2>5, <4>0 DEF ReadCString
      <4>2. a.value = s /\ a.used = n
        BY <4>1
      <4> QED BY <2>1, <2>2, <2>3, <2>6, <2>7, <3>1, <4>2 DEF StringReads
    <3>2. CASE ty \in {"lstring1", "lstring2"}
      <4>1. ReadString(ty, b) = [value |-> s, used |-> w + n]
        BY <1>2, <1>6, <2>4, <3>2 DEF ReadString
      <4> QED BY <2>1, <2>2, <2>3, <2>7, <4>1 DEF StringReads
    <3> QED BY <1>8, <3>1, <3>2
  <2>8. CASE ty = "cstring" /\ n >= StrLimit
    <3>1. a = [value |-> Wild, used |-> 0]
      BY <1>1, <2>5, <2>8 DEF ReadCString
    <3>2. a.value = Wild
      BY <3>1
    <3>3. ReadString(ty, b).value = Wild
      BY <2>6, <2>8, <3>2
    <3> QED BY <2>1, <2>2, <2>3, <2>8, <3>3 DEF UnreadString
  <2> QED BY <2>7, <2>8
<1> QED BY <1>7, <1>8 DEF PlainStrings

\* A string that is padded with zeros ends at the first of them.
LEMMA PaddedField ==
  ASSUME PlainFields, NEW s, NEW n, IsString("cstring_len", s, n), NEW r \in Seq(Int)
  PROVE  StringReads("cstring_len", s, r)
<1>1. n \in Nat /\ n \in Lengths /\ s \in Seq(Int) /\ Len(s) = n /\ \A i \in 1 .. n : s[i] # 0
  BY DEF IsString
<1>2. PICK m \in Nat : m = FixedSize /\ n <= m
  BY <1>1, FixedSizeOf
<1>3. PICK z \in Seq(Int) : z = [i \in 1 .. m - n |-> 0] /\ Len(z) = m - n /\ \A i \in 1 .. m - n : z[i] = 0
  <2>1. m - n \in Nat
    BY <1>1, <1>2
  <2>2. [i \in 1 .. m - n |-> 0] \in [1 .. m - n -> Int]
    OBVIOUS
  <2>3. [i \in 1 .. m - n |-> 0] \in Seq(Int) /\ Len([i \in 1 .. m - n |-> 0]) = m - n
    BY <2>1, <2>2
  <2> QED BY <2>3
<1>4. PICK e \in Seq(Int) : e = s \o z /\ Len(e) = m
  <2>1. Joined(s, z, s \o z)
    BY <1>1, <1>3, Join
  <2>2. s \o z \in Seq(Int) /\ Len(s \o z) = Len(s) + Len(z)
    BY <2>1 DEF Joined
  <2>3. Len(s) + Len(z) = m
    BY <1>1, <1>2, <1>3
  <2> QED BY <2>2, <2>3
<1>5. (\A i \in 1 .. n : e[i] # 0) /\ \A i \in n + 1 .. m : e[i] = 0
  <2>1. ASSUME NEW i \in 1 .. n PROVE e[i] # 0
    <3>1. e[i] = s[i]
      BY <1>1, <1>3, <1>4, ConcatOf
    <3> QED BY <1>1, <3>1
  <2>2. ASSUME NEW i \in n + 1 .. m PROVE e[i] = 0
    <3>1. PICK k \in 1 .. m - n : i = n + k
      <4>1. i - n \in 1 .. m - n /\ i = n + (i - n)
        BY <1>1, <1>2
      <4> QED BY <4>1
    <3>2. e[n + k] = z[k]
      BY <1>1, <1>3, <1>4, ConcatOf
    <3> QED BY <1>3, <3>1, <3>2
  <2> QED BY <2>1, <2>2
<1>6. WriteString("cstring_len", s) = e
  BY <1>1, <1>2, <1>3, <1>4 DEF WriteString
<1>7. SubSeq(e \o r, 1, m) = e
  BY <1>4, TakeApart
<1>8. SubSeq(e, 1, n) = s
  BY <1>1, <1>3, <1>4, TakeApart
<1>9. CString(e) = s
  <2>1. CASE n = m
    <3>1. ~Contains(e, 0)
      BY <1>1, <1>4, <1>5, <2>1 DEF Contains
    <3>2. SubSeq(e, 1, m) = e
      BY <1>4
    <3> QED BY <1>8, <2>1, <3>1, <3>2 DEF CString
  <2>2. CASE n # m
    <3>1. n + 1 \in 1 .. m /\ n + 1 \in n + 1 .. m /\ n + 1 \in Nat /\ (n + 1) - 1 = n
      BY <1>1, <1>2, <2>2
    <3>2. Contains(e, 0)
      BY <1>4, <1>5, <3>1 DEF Contains
    <3> DEFINE I == {i \in 1 .. m : e[i] = 0}
    <3>3. I \in SUBSET Nat /\ n + 1 \in I
      BY <1>5, <3>1
    <3>4. ASSUME NEW i \in I PROVE n + 1 <= i
      <4> SUFFICES ASSUME ~(n + 1 <= i) PROVE FALSE
        OBVIOUS
      <4>1. i \in 1 .. n
        BY <1>1, <1>2
      <4> QED BY <1>5, <4>1
    <3>5. Min(I) = n + 1 /\ I # {}
      <4> HIDE DEF I
      <4> QED BY <3>3, <3>4, MinIs
    <3>6. SelectInSeq(e, LAMBDA d : d = 0) = n + 1
      BY <1>4, <3>5 DEF SelectInSeq
    <3> QED BY <1>8, <3>1, <3>2, <3>6 DEF CString
  <2> QED BY <2>1, <2>2
<1>10. ReadString("cstring_len", e \o r) = [value |-> s, used |-> m]
  BY <1>2, <1>7, <1>9 DEF ReadString
<1> QED BY <1>4, <1>6, <1>10 DEF StringReads

\* What a field is written as, and what is read for its kind.
Written(f) == IF f.kind \in Numbers THEN WriteNumber(f.kind, f.v) ELSE WriteString(f.kind, f.v)
Read(ty, b) ==
  IF ty \in Numbers THEN [value |-> ReadNumber(ty, b), used |-> Width(ty)] ELSE ReadString(ty, b)

\* A field is written as bytes, and the script gets from them what is to come back,
\* whatever is behind.
FieldReads(f) ==
  /\ Written(f) \in Seq(Int)
  /\ \A r \in Seq(Int) :
       /\ Read(f.kind, Written(f) \o r).value = ComesBack(f)
       /\ ~TooLong(f) => Read(f.kind, Written(f) \o r).used = Len(Written(f))

\* A value that a script may write as a field of a kind.
Writable(ty, v) ==
  \/ ty \in Numbers /\ Fits(ty, v)
  \/ ty \in PlainStrings /\ \E n : IsString(ty, v, n)

\* The values of the model are some of them.
LEMMA ValuesWritable ==
  ASSUME PlainFields, NEW ty \in Kinds, NEW v \in FieldValues(ty)
  PROVE  Writable(ty, v)
<1>1. ty \in Numbers \/ ty \in PlainStrings
  BY DEF PlainFields, PlainStrings
<1>2. CASE ty \in Numbers
  BY <1>2, ValuesFit DEF Writable
<1>3. CASE ty \in PlainStrings
  BY <1>3, StringsOf DEF Writable
<1> QED BY <1>1, <1>2, <1>3

\* Every field a script may write comes back.
LEMMA EveryFieldReads ==
  ASSUME PlainFields, NEW ty, NEW v, Writable(ty, v), NEW f, f = [kind |-> ty, v |-> v]
  PROVE  FieldReads(f)
<1>1. f.kind = ty /\ f.v = v
  OBVIOUS
<1>2. <<>> \in Seq(Int)
  OBVIOUS
<1>4. CASE ty \in Numbers /\ Fits(ty, v)
  <2>1. Fits(ty, v) /\ Little = TRUE
    BY <1>4 DEF PlainFields
  <2>2. ASSUME NEW r \in Seq(Int) PROVE NumberReads(ty, v, r)
    BY <1>4, <2>1, NumberField
  <2>4. PICK b : b = Written(f) /\ b = WriteNumber(ty, v)
    BY <1>1, <1>4 DEF Written
  <2>5. b \in Seq(Int) /\ Len(b) = Width(ty)
    BY <1>2, <2>2, <2>4 DEF NumberReads
  <2>6. ASSUME NEW r \in Seq(Int)
        PROVE  Read(ty, b \o r).value = ComesBack(f) /\ Read(ty, b \o r).used = Len(b)
    <3>1. ReadNumber(ty, b \o r) = ComesBack(f)
      BY <2>2, <2>4 DEF NumberReads
    <3>2. Read(ty, b \o r) = [value |-> ComesBack(f), used |-> Len(b)]
      BY <1>4, <2>5, <3>1 DEF Read
    <3> QED BY <3>2
  <2> QED BY <1>1, <2>4, <2>5, <2>6 DEF FieldReads
<1>5. CASE ty \in PlainStrings /\ \E n : IsString(ty, v, n)
  <2>1. PICK n : IsString(ty, v, n)
    BY <1>5
  <2>2. Len(v) = n
    BY <2>1 DEF IsString
  <2>3. ty \notin Numbers
    BY <1>5 DEF PlainStrings, Numbers, Signed
  <2>4. PICK b : b = Written(f) /\ b = WriteString(ty, v)
    BY <1>1, <2>3 DEF Written
  <2>5. CASE ~TooLong(f)
    <3>1. ASSUME NEW r \in Seq(Int) PROVE StringReads(ty, v, r)
      <4>1. CASE ty = "cstring_len"
        BY <2>1, <4>1, PaddedField
      <4>2. CASE ty # "cstring_len"
        <5>1. ~(ty = "cstring" /\ n >= StrLimit)
          BY <1>1, <2>2, <2>5 DEF TooLong
        <5> QED BY <1>5, <2>1, <4>2, <5>1, CountedField
      <4> QED BY <4>1, <4>2
    <3>2. b \in Seq(Int)
      BY <1>2, <2>4, <3>1 DEF StringReads
    <3>3. ComesBack(f) = v
      BY <1>1, <1>5, <2>5 DEF ComesBack, PlainStrings
    <3>4. ASSUME NEW r \in Seq(Int)
          PROVE  Read(ty, b \o r).value = ComesBack(f) /\ Read(ty, b \o r).used = Len(b)
      <4>1. ReadString(ty, b \o r) = [value |-> v, used |-> Len(b)]
        BY <2>4, <3>1 DEF StringReads
      <4>2. Read(ty, b \o r) = [value |-> v, used |-> Len(b)]
        BY <2>3, <4>1 DEF Read
      <4> QED BY <3>3, <4>2
    <3> QED BY <1>1, <2>4, <3>2, <3>4 DEF FieldReads
  <2>6. CASE TooLong(f)
    <3>1. ty = "cstring" /\ n >= StrLimit
      BY <1>1, <2>2, <2>6 DEF TooLong
    <3>2. ASSUME NEW r \in Seq(Int) PROVE UnreadString(v, r)
      BY <1>5, <2>1, <3>1, CountedField
    <3>3. b \in Seq(Int)
      BY <1>2, <2>4, <3>1, <3>2 DEF UnreadString
    <3>4. ComesBack(f) = Wild
      BY <1>1, <2>6, <3>1 DEF ComesBack
    <3>5. ASSUME NEW r \in Seq(Int) PROVE Read(ty, b \o r).value = ComesBack(f)
      <4>1. ReadString(ty, b \o r).value = Wild
        BY <2>4, <3>1, <3>2 DEF UnreadString
      <4> QED BY <2>3, <3>4, <4>1 DEF Read
    <3> QED BY <1>1, <2>4, <2>6, <3>3, <3>5 DEF FieldReads
  <2> QED BY <2>5, <2>6
<1> QED BY <1>4, <1>5 DEF Writable

\* The bytes behind each of the n fields fs: rem[k] are those behind field k.
Rests(rem, fs, n) ==
  /\ rem \in [0 .. n -> Seq(Int)]
  /\ rem[n] = <<>>
  /\ \A k \in 1 .. n : FieldReads(fs[k]) /\ rem[k - 1] = Written(fs[k]) \o rem[k]

\* What the script gets for a field.
Back(f) == [kind |-> f.kind, v |-> ComesBack(f)]

FieldShape(rem, n, g) ==
  /\ n \in Nat /\ g \in 0 .. n
  /\ Rests(rem, written, n)
  /\ DOMAIN written = 1 .. n /\ written \in Seq({written[k] : k \in 1 .. n}) /\ Len(written) = n
  /\ got \in Seq({Back(written[k]) : k \in 1 .. n}) /\ Len(got) = g
  /\ \A k \in 1 .. g : got[k] = Back(written[k])
  /\ ~Lost => bytes = rem[g]
  /\ m_nMode \in {"SM_WRITE", "SM_READ"}
  /\ m_nMode = "SM_WRITE" => g = 0

FieldInv == \E rem, n, g : FieldShape(rem, n, g)

\* A new message has no fields and no bytes.
LEMMA FieldInitInv == FieldInit => FieldInv
<1> SUFFICES ASSUME FieldInit PROVE FieldInv
  OBVIOUS
<1> DEFINE rem == [k \in 0 .. 0 |-> <<>>]
<1>1. rem \in [0 .. 0 -> Seq(Int)] /\ rem[0] = <<>> /\ 1 .. 0 = {}
  OBVIOUS
<1> HIDE DEF rem
<1>2. Rests(rem, written, 0)
  BY <1>1 DEF Rests
<1>3. /\ written = <<>> /\ got = <<>> /\ bytes = <<>> /\ m_nMode = "SM_WRITE"
  BY DEF FieldInit
<1>4. /\ DOMAIN written = 1 .. 0 /\ Len(written) = 0 /\ Len(got) = 0
      /\ got \in Seq({Back(written[k]) : k \in 1 .. 0})
      /\ written \in Seq({written[k] : k \in 1 .. 0})
  BY <1>3
<1>5. FieldShape(rem, 0, 0)
  BY <1>1, <1>2, <1>3, <1>4 DEF FieldShape
<1> QED BY <1>5 DEF FieldInv

\* A field is written behind the others.
LEMMA WriteInv ==
  ASSUME PlainFields, FieldInv, NEW ty, NEW v, Writable(ty, v), WriteField(ty, v)
  PROVE  FieldInv'
<1>1. PICK rem, n, g : FieldShape(rem, n, g)
  BY DEF FieldInv
<1>2. /\ n \in Nat /\ g = 0 /\ m_nMode = "SM_WRITE"
      /\ Rests(rem, written, n) /\ DOMAIN written = 1 .. n /\ Len(written) = n
      /\ got = <<>> /\ bytes = rem[0]
  <2>1. /\ n \in Nat /\ g = 0 /\ m_nMode = "SM_WRITE"
        /\ Rests(rem, written, n) /\ DOMAIN written = 1 .. n /\ Len(written) = n
        /\ got \in Seq({Back(written[k]) : k \in 1 .. n}) /\ Len(got) = 0
    BY <1>1 DEF FieldShape, WriteField
  <2>2. got = <<>>
    BY <2>1
  <2>3. ~Lost
    BY <2>1 DEF Lost
  <2> QED BY <1>1, <2>1, <2>2, <2>3 DEF FieldShape
<1>3. PICK f : f = [kind |-> ty, v |-> v]
  OBVIOUS
<1>4. FieldReads(f)
  BY <1>3, EveryFieldReads
<1>5. PICK e \in Seq(Int) : e = Written(f)
  BY <1>4 DEF FieldReads
<1>6. bytes' = bytes \o e /\ written' = Append(written, f) /\ m_nMode' = m_nMode /\ got' = got
  <2>1. f.kind = ty /\ f.v = v
    BY <1>3
  <2> QED BY <1>3, <1>5, <2>1 DEF WriteField, Written
<1>7. /\ DOMAIN written' = 1 .. n + 1 /\ Len(written') = n + 1
      /\ written'[n + 1] = f /\ \A k \in 1 .. n : written'[k] = written[k]
      /\ written' \in Seq({written'[k] : k \in 1 .. n + 1})
  <2>1. PICK S : S = {written[k] : k \in 1 .. n} \cup {f}
    OBVIOUS
  <2>2. written \in Seq(S) /\ f \in S
    <3>1. \A k \in 1 .. n : written[k] \in S
      BY <2>1
    <3>2. written = [k \in 1 .. n |-> written[k]]
      BY <1>1, <1>2 DEF FieldShape
    <3>3. written \in [1 .. n -> S]
      BY <3>1, <3>2
    <3>4. written \in Seq(S)
      BY <1>2, <3>3
    <3> QED BY <2>1, <3>4
  <2>3. /\ written' \in Seq(S) /\ Len(written') = n + 1 /\ DOMAIN written' = 1 .. n + 1
        /\ written'[n + 1] = f /\ \A k \in 1 .. n : written'[k] = written[k]
    BY <1>2, <1>6, <2>2
  <2>4. written' = [k \in 1 .. n + 1 |-> written'[k]]
    BY <1>2, <2>3
  <2>5. PICK W : W = {written'[k] : k \in 1 .. n + 1}
    OBVIOUS
  <2>6. written' \in Seq(W)
    BY <1>2, <2>4, <2>5
  <2> QED BY <2>3, <2>5, <2>6
<1>8. /\ rem \in [0 .. n -> Seq(Int)] /\ rem[n] = <<>>
      /\ \A k \in 1 .. n : FieldReads(written[k]) /\ rem[k - 1] = Written(written[k]) \o rem[k]
  BY <1>2 DEF Rests
<1>9. PICK new : new = [k \in 0 .. n + 1 |-> IF k = n + 1 THEN <<>> ELSE rem[k] \o e]
  OBVIOUS
<1>10. new[n + 1] = <<>> /\ \A k \in 0 .. n : new[k] = rem[k] \o e
  BY <1>2, <1>9
<1>11. new \in [0 .. n + 1 -> Seq(Int)]
  <2>1. ASSUME NEW k \in 0 .. n + 1 PROVE (IF k = n + 1 THEN <<>> ELSE rem[k] \o e) \in Seq(Int)
    <3>1. CASE k = n + 1
      BY <3>1
    <3>2. CASE k # n + 1
      <4>1. rem[k] \in Seq(Int)
        BY <1>2, <1>8, <3>2
      <4> QED BY <3>2, <4>1, ConcatOf
    <3> QED BY <3>1, <3>2
  <2> QED BY <1>9, <2>1
<1>12. Rests(new, written', n + 1)
  <2>1. ASSUME NEW k \in 1 .. n + 1
        PROVE  FieldReads(written'[k]) /\ new[k - 1] = Written(written'[k]) \o new[k]
    <3>1. CASE k = n + 1
      <4>0. n \in 0 .. n
        BY <1>2
      <4>1. new[n] = rem[n] \o e
        BY <1>10, <4>0
      <4>2. <<>> \o e = e /\ e \o <<>> = e
        OBVIOUS
      <4>3. k - 1 = n
        BY <1>2, <3>1
      <4> QED BY <1>4, <1>5, <1>7, <1>8, <1>10, <3>1, <4>1, <4>2, <4>3
    <3>2. CASE k # n + 1
      <4>1. k \in 1 .. n /\ k \in 0 .. n /\ k - 1 \in 0 .. n
        BY <1>2, <3>2
      <4>2. PICK a \in Seq(Int), b \in Seq(Int) : a = Written(written[k]) /\ b = rem[k]
        BY <1>8, <4>1 DEF FieldReads
      <4>3. new[k - 1] = (a \o b) \o e /\ new[k] = b \o e
        BY <1>8, <1>10, <4>1, <4>2
      <4>4. (a \o b) \o e = a \o (b \o e)
        <5>1. Regroups(a, b, e)
          BY ThreeParts
        <5> QED BY <5>1 DEF Regroups
      <4> QED BY <1>7, <1>8, <4>1, <4>2, <4>3, <4>4
    <3> QED BY <3>1, <3>2
  <2> QED BY <1>10, <1>11, <2>1 DEF Rests
<1>13. got' = <<>> /\ Len(got') = 0 /\ got' \in Seq({Back(written'[k]) : k \in 1 .. n + 1})
  BY <1>2, <1>6
<1>14. bytes' = new[0]
  BY <1>2, <1>6, <1>10
<1>15. FieldShape(new, n + 1, 0)'
  <2>1. n + 1 \in Nat /\ 0 \in 0 .. n + 1
    BY <1>2
  <2> QED BY <1>2, <1>6, <1>7, <1>12, <1>13, <1>14, <2>1 DEF FieldShape
<1> QED BY <1>15 DEF FieldInv

\* The next field is read from its own bytes.
LEMMA ReadFieldInv == ASSUME FieldInv, ReadField PROVE FieldInv'
<1>1. PICK rem, n, g : FieldShape(rem, n, g)
  BY DEF FieldInv
<1>2. /\ n \in Nat /\ g \in 0 .. n /\ m_nMode = "SM_READ"
      /\ Rests(rem, written, n) /\ DOMAIN written = 1 .. n /\ Len(written) = n
      /\ Len(got) = g /\ bytes = rem[g]
  BY <1>1 DEF FieldShape, ReadField, CanRead
<1>3. g \in Nat /\ g < n /\ g + 1 \in 1 .. n /\ (g + 1) - 1 = g /\ g + 1 \in 0 .. n
  BY <1>2 DEF ReadField, CanRead
<1>4. PICK f : f = written[g + 1]
  OBVIOUS
<1>5. FieldReads(f) /\ rem[g] = Written(f) \o rem[g + 1] /\ rem[g + 1] \in Seq(Int)
  BY <1>2, <1>3, <1>4 DEF Rests
<1>6. PICK e \in Seq(Int), r \in Seq(Int) : e = Written(f) /\ r = rem[g + 1] /\ bytes = e \o r
  BY <1>2, <1>5 DEF FieldReads
<1>7. PICK x : x = Read(f.kind, bytes)
  OBVIOUS
<1>8. x.value = ComesBack(f) /\ (~TooLong(f) => x.used = Len(e))
  BY <1>5, <1>6, <1>7, ZenonT(30) DEF FieldReads
<1>9. /\ got' = Append(got, [kind |-> f.kind, v |-> x.value])
      /\ bytes' = SubSeq(bytes, x.used + 1, Len(bytes))
      /\ m_nMode' = m_nMode /\ written' = written
  <2>1. written[Len(got) + 1] = f
    BY <1>2, <1>4
  <2>2. x = IF f.kind \in Numbers THEN [value |-> ReadNumber(f.kind, bytes), used |-> Width(f.kind)]
                                  ELSE ReadString(f.kind, bytes)
    BY <1>7 DEF Read
  <2> QED BY <2>1, <2>2, ZenonT(30) DEF ReadField
<1>10. PICK y : y = Back(f) /\ got' = Append(got, y)
  BY <1>8, <1>9 DEF Back
<1>11. ~TooLong(f) => bytes' = r
  <2>1. SubSeq(e \o r, Len(e) + 1, Len(e \o r)) = r
    BY TakeApart
  <2> QED BY <1>6, <1>8, <1>9, <2>1
<1>12. /\ got' \in Seq({Back(written[k]) : k \in 1 .. n}) /\ Len(got') = g + 1
       /\ \A k \in 1 .. g + 1 : got'[k] = Back(written[k])
  <2>1. PICK S : S = {Back(written[k]) : k \in 1 .. n}
    OBVIOUS
  <2>2. got \in Seq(S) /\ y \in S /\ \A k \in 1 .. g : got[k] = Back(written[k])
    <3>1. got \in Seq(S) /\ \A k \in 1 .. g : got[k] = Back(written[k])
      BY <1>1, <2>1 DEF FieldShape
    <3> QED BY <1>3, <1>4, <1>10, <2>1, <3>1
  <2>3. /\ got' \in Seq(S) /\ Len(got') = g + 1 /\ got'[g + 1] = y
        /\ \A k \in 1 .. g : got'[k] = got[k]
    BY <1>2, <1>3, <1>10, <2>2
  <2>4. ASSUME NEW k \in 1 .. g + 1 PROVE got'[k] = Back(written[k])
    <3>1. CASE k = g + 1
      BY <1>4, <1>10, <2>3, <3>1
    <3>2. CASE k \in 1 .. g
      BY <2>2, <2>3, <3>2
    <3> QED BY <1>3, <3>1, <3>2
  <2> QED BY <2>1, <2>3, <2>4
<1>13. ~Lost' => bytes' = rem[g + 1]
  <2>1. TooLong(f) => Lost'
    <3>1. g + 1 \in 1 .. Len(got') /\ written'[g + 1] = f
      BY <1>3, <1>4, <1>9, <1>12
    <3> QED BY <3>1 DEF Lost, TooLong
  <2> QED BY <1>6, <1>11, <2>1
<1>14. FieldShape(rem, n, g + 1)'
  <2>1. written \in Seq({written[k] : k \in 1 .. n})
    BY <1>1 DEF FieldShape
  <2> QED BY <1>2, <1>3, <1>9, <1>12, <1>13, <2>1 DEF FieldShape
<1> QED BY <1>14 DEF FieldInv

\* The model with every value that a script may write in the place of those at the
\* edges of their ranges.
AnyFieldNext ==
  \/ \E ty \in Kinds : \E v : Writable(ty, v) /\ WriteField(ty, v)
  \/ LuaSetMode
  \/ ReadField
  \/ PrintOverruns

AnyFieldSpec == FieldInit /\ [][AnyFieldNext]_fieldVars

\* Every step on the fields of a message keeps the invariant.
LEMMA FieldNextInv == ASSUME PlainFields, FieldInv, [AnyFieldNext]_fieldVars PROVE FieldInv'
<1>1. CASE \E ty \in Kinds : \E v : Writable(ty, v) /\ WriteField(ty, v)
  BY <1>1, WriteInv
<1>2. CASE LuaSetMode
  <2>1. PICK rem, n, g : FieldShape(rem, n, g)
    BY DEF FieldInv
  <2>2. bytes' = bytes /\ written' = written /\ got' = got /\ m_nMode' = "SM_READ"
    BY <1>2 DEF LuaSetMode
  <2>3. FieldShape(rem, n, g)'
    BY <2>1, <2>2 DEF FieldShape, Lost, TooLong
  <2> QED BY <2>3 DEF FieldInv
<1>3. CASE ReadField
  BY <1>3, ReadFieldInv
<1>4. CASE UNCHANGED fieldVars \/ PrintOverruns
  <2>1. PICK rem, n, g : FieldShape(rem, n, g)
    BY DEF FieldInv
  <2>2. bytes' = bytes /\ written' = written /\ got' = got /\ m_nMode' = m_nMode
    BY <1>4 DEF fieldVars, PrintOverruns
  <2>3. FieldShape(rem, n, g)'
    BY <2>1, <2>2 DEF FieldShape, Lost, TooLong
  <2> QED BY <2>3 DEF FieldInv
<1> QED BY <1>1, <1>2, <1>3, <1>4 DEF AnyFieldNext

\* What a script reads from a message is what was written, field by field, for any
\* number of fields, of values of a byte and of lengths, and for every value that fits
\* its kind, with the exceptions ComesBack states: a uint32 of the upper half, the high
\* half of 64 bits, and a cstring that is too long, behind which the script is lost.
\* Until then no field takes bytes of the next one.
THEOREM AnyFieldsComeBack == ASSUME PlainFields PROVE AnyFieldSpec => []FieldsComeBack
<1>1. FieldInv => FieldsComeBack
  <2> SUFFICES ASSUME FieldInv PROVE FieldsComeBack
    OBVIOUS
  <2>1. PICK rem, n, g : FieldShape(rem, n, g)
    BY DEF FieldInv
  <2>2. /\ n \in Nat /\ g \in 0 .. n /\ Len(got) = g /\ Len(written) = n
        /\ ~Lost => bytes = rem[g] /\ rem[n] = <<>>
    BY <2>1 DEF FieldShape, Rests
  <2>3. \A i \in 1 .. Len(got) : got[i] = [kind |-> written[i].kind, v |-> ComesBack(written[i])]
    BY <2>1, <2>2 DEF FieldShape, Back
  <2> QED BY <2>2, <2>3 DEF FieldsComeBack
<1> QED BY <1>1, FieldInitInv, FieldNextInv, PTL DEF AnyFieldSpec

\* The same of the values at the edges of their ranges, which TLC checks.
THEOREM FieldsComeBackHolds == ASSUME PlainFields PROVE FieldSpec => []FieldsComeBack
<1>1. [FieldNext]_fieldVars => [AnyFieldNext]_fieldVars
  <2>1. ASSUME NEW ty \in Kinds, NEW v \in FieldValues(ty), WriteField(ty, v) PROVE AnyFieldNext
    BY <2>1, ValuesWritable DEF AnyFieldNext
  <2> QED BY <2>1 DEF FieldNext, AnyFieldNext
<1> QED BY <1>1, AnyFieldsComeBack, PTL DEF FieldSpec, AnyFieldSpec
==============================================================================
