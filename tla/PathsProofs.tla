----------------------------- MODULE PathsProofs ------------------------------
(***************************************************************************)
(* The path functions over any names, any size of the buffer and any depth *)
(* of comp_ends: no result is longer than the buffer, a normalized path    *)
(* has nothing left to resolve, and it means what the path meant.          *)
(***************************************************************************)
EXTENDS Paths, FiniteSetTheorems, SequenceTheorems, WellFoundedInduction, TLAPS

Components == Names \cup {".", ".."}
PathType == [abs : BOOLEAN, comps : Seq(Components), slash : BOOLEAN]

-----------------------------------------------------------------------------
(* Induction, and what the loop of normalize_path has written              *)

Smaller == {ss \in Nat \X Nat : ss[1] < ss[2]}

LEMMA SmallerIsWellFounded == IsWellFoundedOn(Smaller, Nat)
<1>1. OpToRel(<, Nat) = Smaller
  BY Zenon DEF OpToRel, Smaller
<1> QED
  BY ONLY <1>1, NatLessThanWellFounded, Zenon

\* A set of naturals has a least element: what induction there is rests on it.
LEMMA LeastElement == ASSUME NEW T, T \subseteq Nat, T # {} PROVE \E x \in T : \A y \in T : x <= y
<1>1. \E x \in T : \A y \in T : ~(<<y, x>> \in Smaller)
  BY SmallerIsWellFounded, WFMin
<1>2. \A x, y \in Nat : ~(<<y, x>> \in Smaller) => x <= y
  BY DEF Smaller
<1> QED
  BY <1>1, <1>2

Start == [text |-> <<>>, comp_ends |-> <<>>]
Here(abs) == [abs |-> abs, up |-> 0, down |-> <<>>]

\* The two loops over the components of a path: the one of normalize_path that
\* writes, and the walk that tells what a path means.
First(loop, abs)      == IF loop = "write" THEN Start ELSE Here(abs)
Step(loop, x, c, abs) == IF loop = "write" THEN component(x, c, abs) ELSE Walk(x, c, abs)

\* g is how far a loop has come after each of the first k components.
Runs(g, loop, comps, abs, k) ==
  g = [j \in 0 .. k |-> IF j = 0 THEN First(loop, abs) ELSE Step(loop, g[j - 1], comps[j], abs)]

LEMMA OneFurther ==
  ASSUME NEW loop, NEW comps, NEW abs, NEW k \in Nat \ {0}, NEW g, Runs(g, loop, comps, abs, k - 1)
  PROVE  \E h : Runs(h, loop, comps, abs, k)
<1> DEFINE next(f, j) == IF j = 0 THEN First(loop, abs) ELSE Step(loop, f[j - 1], comps[j], abs)
           h == [j \in 0 .. k |-> next(g, j)]
<1>1. \A j \in 0 .. k - 1 : g[j] = next(g, j)
  BY DEF Runs
<1>2. \A j \in 0 .. k - 1 : h[j] = g[j]
  BY <1>1
<1>3. \A j \in 0 .. k : next(h, j) = next(g, j)
  <2> SUFFICES ASSUME NEW j \in 0 .. k PROVE next(h, j) = next(g, j)
    OBVIOUS
  <2>1. j # 0 => j - 1 \in 0 .. k - 1
    OBVIOUS
  <2>2. j # 0 => h[j - 1] = g[j - 1]
    BY <1>2, <2>1
  <2> HIDE DEF h
  <2> QED
    BY <2>2
<1>4. h = [j \in 0 .. k |-> next(h, j)]
  <2>1. \A f : f = h => (\A j \in 0 .. k : next(f, j) = next(g, j))
    BY <1>3
  <2>2. PICK f : f = h
    OBVIOUS
  <2>3. f = [j \in 0 .. k |-> next(g, j)]
    BY <2>2
  <2> HIDE DEF h
  <2>4. f = [j \in 0 .. k |-> next(f, j)]
    BY <2>1, <2>2, <2>3
  <2> QED
    BY <2>2, <2>4
<1> HIDE DEF h
<1> QED
  BY <1>4 DEF Runs

LEMMA RunsThrough ==
  ASSUME NEW loop, NEW comps, NEW abs, NEW n \in Nat
  PROVE  \E g : Runs(g, loop, comps, abs, n)
<1> DEFINE T == {k \in Nat : ~\E g : Runs(g, loop, comps, abs, k)}
<1> SUFFICES ASSUME T # {} PROVE FALSE
  OBVIOUS
<1>1. PICK k \in T : \A y \in T : k <= y
  BY LeastElement
<1>2. CASE k = 0
  <2>1. Runs([j \in 0 .. 0 |-> First(loop, abs)], loop, comps, abs, 0)
    BY DEF Runs
  <2> QED
    BY <1>2, <2>1
<1>3. CASE k # 0
  <2>1. k - 1 \in Nat /\ k \in Nat \ {0} /\ ~(k <= k - 1)
    BY <1>3
  <2>2. \E g : Runs(g, loop, comps, abs, k - 1)
    BY <1>1, <2>1
  <2> QED
    BY <2>1, <2>2, OneFurther
<1> QED
  BY <1>2, <1>3

LEMMA RunsIs ==
  ASSUME NEW loop, NEW comps, NEW abs, NEW n \in Nat, NEW g,
         g = CHOOSE f : Runs(f, loop, comps, abs, n)
  PROVE  /\ g[0] = First(loop, abs)
         /\ \A k \in 1 .. n : g[k] = Step(loop, g[k - 1], comps[k], abs)
<1>1. Runs(g, loop, comps, abs, n)
  BY RunsThrough
<1>2. \A j \in 0 .. n :
        g[j] = IF j = 0 THEN First(loop, abs) ELSE Step(loop, g[j - 1], comps[j], abs)
  BY <1>1 DEF Runs
<1>3. 0 \in 0 .. n /\ \A k \in 1 .. n : k \in 0 .. n /\ k # 0
  OBVIOUS
<1> QED
  BY <1>2, <1>3

\* The recursive functions of the model are what their equations say.
LEMMA NormalizedSteps ==
  ASSUME NEW comps \in Seq(Components), NEW abs
  PROVE  /\ Normalized(comps, abs)[0] = Start
         /\ \A k \in 1 .. Len(comps) :
              Normalized(comps, abs)[k] = component(Normalized(comps, abs)[k - 1], comps[k], abs)
<1>1. Normalized(comps, abs) = CHOOSE g : Runs(g, "write", comps, abs, Len(comps))
  BY Zenon DEF Normalized, Runs, Start, First, Step
<1>2. Len(comps) \in Nat
  OBVIOUS
<1>3. PICK g : g = Normalized(comps, abs)
  OBVIOUS
<1>4. /\ g[0] = First("write", abs)
      /\ \A k \in 1 .. Len(comps) : g[k] = Step("write", g[k - 1], comps[k], abs)
  BY <1>1, <1>2, <1>3, RunsIs
<1> QED
  BY <1>3, <1>4 DEF First, Step

LEMMA WalkedSteps ==
  ASSUME NEW comps \in Seq(Components), NEW abs
  PROVE  /\ Walked(comps, abs)[0] = Here(abs)
         /\ \A k \in 1 .. Len(comps) :
              Walked(comps, abs)[k] = Walk(Walked(comps, abs)[k - 1], comps[k], abs)
<1>1. Walked(comps, abs) = CHOOSE g : Runs(g, "walk", comps, abs, Len(comps))
  BY Zenon DEF Walked, Runs, Here, First, Step
<1>2. Len(comps) \in Nat
  OBVIOUS
<1>3. PICK g : g = Walked(comps, abs)
  OBVIOUS
<1>4. /\ g[0] = First("walk", abs)
      /\ \A k \in 1 .. Len(comps) : g[k] = Step("walk", g[k - 1], comps[k], abs)
  BY <1>1, <1>2, <1>3, RunsIs
<1> QED
  BY <1>3, <1>4 DEF First, Step

-----------------------------------------------------------------------------
(* What a text weighs: two bytes for each component, with its separator,   *)
(* and one more for each ".."                                              *)

Dots(s, k)   == Cardinality({j \in 1 .. k : s[j] = ".."})
Weight(s, k) == 2 * k + Dots(s, k)

LEMMA DotsFinite ==
  ASSUME NEW s, NEW k \in Nat
  PROVE  IsFiniteSet({j \in 1 .. k : s[j] = ".."}) /\ Dots(s, k) \in Nat
<1>1. IsFiniteSet(1 .. k)
  BY FS_Interval
<1>2. {j \in 1 .. k : s[j] = ".."} \subseteq 1 .. k
  OBVIOUS
<1>3. IsFiniteSet({j \in 1 .. k : s[j] = ".."})
  BY <1>1, <1>2, FS_Subset
<1> QED
  BY <1>3, FS_CardinalityType DEF Dots

LEMMA WeightStep ==
  ASSUME NEW s, NEW k \in Nat
  PROVE  /\ Weight(s, 0) = 0
         /\ Weight(s, k + 1) = Weight(s, k) + 2 + (IF s[k + 1] = ".." THEN 1 ELSE 0)
<1> DEFINE D == {j \in 1 .. k : s[j] = ".."}
           E == {j \in 1 .. k + 1 : s[j] = ".."}
<1>1. {j \in 1 .. 0 : s[j] = ".."} = {} /\ Dots(s, 0) = 0
  BY FS_EmptySet DEF Dots
<1>2. IsFiniteSet(D) /\ Cardinality(D) \in Nat /\ k + 1 \notin D
  BY DotsFinite DEF Dots
<1>3. E = IF s[k + 1] = ".." THEN D \cup {k + 1} ELSE D
  <2>1. \A j : j \in 1 .. k + 1 <=> j \in 1 .. k \/ j = k + 1
    OBVIOUS
  <2> QED
    BY <2>1
<1>4. Cardinality(E) = Cardinality(D) + (IF s[k + 1] = ".." THEN 1 ELSE 0)
  <2> HIDE DEF D, E
  <2> QED
    BY <1>2, <1>3, FS_AddElement
<1> QED
  BY <1>1, <1>2, <1>4 DEF Weight, Dots

LEMMA SameWeight ==
  ASSUME NEW s, NEW r, NEW k \in Nat, \A j \in 1 .. k : s[j] = r[j]
  PROVE  Weight(s, k) = Weight(r, k)
BY DEF Weight, Dots

LEMMA LessWeight ==
  ASSUME NEW s, NEW k \in Nat, NEW m \in 0 .. k
  PROVE  Weight(s, m) \in Nat /\ Weight(s, k) \in Nat /\ Weight(s, m) <= Weight(s, k)
<1> DEFINE D == {j \in 1 .. m : s[j] = ".."}
           E == {j \in 1 .. k : s[j] = ".."}
<1>1. m \in Nat /\ m <= k /\ D \subseteq E
  OBVIOUS
<1>2. IsFiniteSet(E) /\ Dots(s, m) \in Nat /\ Dots(s, k) \in Nat
  BY <1>1, DotsFinite
<1>3. Cardinality(D) <= Cardinality(E)
  BY <1>1, <1>2, FS_Subset
<1> QED
  BY <1>1, <1>2, <1>3 DEF Weight, Dots

-----------------------------------------------------------------------------
(* The loop keeps the text resolved and no heavier than what it has read   *)

States == [text : Seq(Components), comp_ends : Seq(Nat)]

\* Nothing is left to resolve: a ".." stands only behind others of its kind.
Resolved(s, abs) ==
  \A i \in 1 .. Len(s) :
    /\ s[i] # "."
    /\ s[i] = ".." => ~abs /\ \A j \in 1 .. i : s[j] = ".."

\* The places to go back to lie in the text, in order, and what is in front of
\* all of them is nothing but "..".
Places(st, abs) ==
  /\ \A i \in 1 .. Len(st.comp_ends) : st.comp_ends[i] <= Len(st.text)
  /\ \A i, j \in 1 .. Len(st.comp_ends) : i <= j => st.comp_ends[i] <= st.comp_ends[j]
  /\ \A i \in 1 .. Len(st.text) :
       (\A j \in 1 .. Len(st.comp_ends) : i <= st.comp_ends[j]) => st.text[i] = ".." /\ ~abs

Good(st, abs, w) ==
  /\ st \in States /\ Resolved(st.text, abs) /\ Places(st, abs)
  /\ Weight(st.text, Len(st.text)) <= w

LEMMA Remembered ==
  ASSUME NEW ends \in Seq(Nat), NEW place \in Nat, NEW r, r = Remember(ends, place),
         NEW m \in Nat, m = Len(ends)
  PROVE  /\ r \in Seq(Nat) /\ Len(r) \in Nat
         /\ \/ r = ends /\ m # 0
            \/ /\ Len(r) = m + 1 /\ r[m + 1] = place
               /\ \A i \in 1 .. m : r[i] = ends[i]
BY PathsAssumption, AppendProperties DEF Remember

LEMMA AddedWeight ==
  ASSUME NEW s, NEW r, NEW n \in Nat, \A j \in 1 .. n : s[j] = r[j]
  PROVE  /\ Weight(s, n) \in Nat
         /\ r[n + 1] = ".." => Weight(r, n + 1) = Weight(s, n) + 3
         /\ r[n + 1] # ".." => Weight(r, n + 1) = Weight(s, n) + 2
<1>1. Weight(s, n) = Weight(r, n)
  BY SameWeight
<1>2. Dots(s, n) \in Nat
  BY DotsFinite
<1>3. Weight(r, n + 1) = Weight(r, n) + 2 + (IF r[n + 1] = ".." THEN 1 ELSE 0)
  BY WeightStep
<1>4. Weight(s, n) \in Nat
  BY <1>2 DEF Weight
<1> QED
  BY <1>1, <1>3, <1>4

LEMMA NameKept ==
  ASSUME NEW st, NEW abs \in BOOLEAN, NEW w \in Nat, Good(st, abs, w),
         NEW c \in Components, c # ".", c # ".."
  PROVE  Good(name(st, c), abs, w + 2)
<1>0. PICK n, m, s, e : /\ s = st.text /\ n = Len(s)
                        /\ e = st.comp_ends /\ m = Len(e)
  OBVIOUS
<1>1. /\ s \in Seq(Components) /\ e \in Seq(Nat) /\ n \in Nat /\ m \in Nat
      /\ \A j \in 1 .. m : e[j] \in Nat
  BY <1>0 DEF Good, States
<1>2. PICK t : t = Append(s, c)
  OBVIOUS
<1>3. PICK ends : ends = Remember(e, n)
  OBVIOUS
<1>4. /\ t \in Seq(Components) /\ Len(t) = n + 1 /\ t[n + 1] = c
      /\ \A i \in 1 .. n : t[i] = s[i]
      /\ Weight(t, n + 1) = Weight(s, n) + 2
  <2>1. s \in Seq(Components) /\ n \in Nat /\ n = Len(s) /\ t = Append(s, c)
    BY <1>0, <1>1, <1>2
  <2>2. /\ t \in Seq(Components) /\ Len(t) = n + 1 /\ t[n + 1] = c
        /\ \A i \in 1 .. n : s[i] = t[i]
    BY <2>1, AppendProperties
  <2>3. t[n + 1] # ".."
    BY <2>2
  <2>4. n \in Nat /\ \A i \in 1 .. n : s[i] = t[i]
    BY <2>1, <2>2
  <2>5. t[n + 1] # ".." => Weight(t, n + 1) = Weight(s, n) + 2
    BY ONLY <2>4, AddedWeight
  <2> QED
    BY <2>2, <2>3, <2>5
<1>5. /\ ends \in Seq(Nat) /\ Len(ends) \in Nat
      /\ \/ ends = e /\ m # 0
         \/ Len(ends) = m + 1 /\ ends[m + 1] = n /\ \A i \in 1 .. m : ends[i] = e[i]
  <2>1. e \in Seq(Nat) /\ m \in Nat /\ m = Len(e) /\ n \in Nat /\ ends = Remember(e, n)
    BY <1>0, <1>1, <1>3
  <2> QED
    BY ONLY <2>1, Remembered, SMTT(20)
<1>6. PICK new : new = name(st, c) /\ new = [text |-> t, comp_ends |-> ends]
  BY <1>0, <1>2, <1>3 DEF name
<1>7. Resolved(t, abs)
  <2> SUFFICES ASSUME NEW i \in 1 .. n + 1
               PROVE  t[i] # "." /\ (t[i] = ".." => ~abs /\ \A j \in 1 .. i : t[j] = "..")
    BY <1>4 DEF Resolved
  <2>1. CASE i = n + 1
    BY <1>4, <2>1
  <2>2. CASE i # n + 1
    <3>1. i \in 1 .. n /\ \A j \in 1 .. i : j \in 1 .. n
      BY <1>1, <2>2
    <3> QED
      BY <1>0, <1>4, <3>1 DEF Good, Resolved
  <2> QED
    BY <2>1, <2>2
<1>8. /\ \A i \in 1 .. Len(ends) : ends[i] <= n
      /\ \A i, j \in 1 .. Len(ends) : i <= j => ends[i] <= ends[j]
  <2>1. /\ \A i \in 1 .. m : e[i] <= n
        /\ \A i, j \in 1 .. m : i <= j => e[i] <= e[j]
        /\ \A i \in 1 .. m : e[i] \in Nat
    BY <1>0, <1>1 DEF Good, Places
  <2>2. CASE Len(ends) = m + 1 /\ ends[m + 1] = n /\ \A i \in 1 .. m : ends[i] = e[i]
    <3>1. \A i \in 1 .. m + 1 : i = m + 1 \/ i \in 1 .. m
      BY <1>1
    <3>2. \A i \in 1 .. Len(ends) : ends[i] <= n
      BY <1>1, <2>1, <2>2, <3>1
    <3>3. ASSUME NEW i \in 1 .. m + 1, NEW j \in 1 .. m + 1, i <= j PROVE ends[i] <= ends[j]
      <4>1. CASE j = m + 1
        BY <2>2, <3>2, <4>1
      <4>2. CASE j # m + 1
        <5>1. i \in 1 .. m /\ j \in 1 .. m
          BY <1>1, <3>3, <4>2
        <5> QED
          BY <2>1, <2>2, <3>3, <5>1
      <4> QED
        BY <4>1, <4>2
    <3> QED
      BY <2>2, <3>2, <3>3
  <2> QED
    BY <1>0, <1>5, <2>1, <2>2
<1>9. ASSUME NEW i \in 1 .. n + 1, \A j \in 1 .. Len(ends) : i <= ends[j]
      PROVE  t[i] = ".." /\ ~abs
  <2>1. 1 \in 1 .. Len(ends)
    <3>1. Len(ends) # 0
      BY <1>0, <1>1, <1>5
    <3> QED
      BY <1>5, <3>1
  <2>2. i <= n /\ i \in 1 .. n
    BY <1>1, <1>5, <1>8, <1>9, <2>1
  <2>3. \A j \in 1 .. m : i <= e[j]
    <3>1. \A j \in 1 .. m : j \in 1 .. Len(ends) /\ ends[j] = e[j]
      <4>1. (ends = e /\ Len(ends) = m) \/ (Len(ends) = m + 1 /\ \A j \in 1 .. m : ends[j] = e[j])
        BY <1>0, <1>5
      <4>2. \A j \in 1 .. m : j \in 1 .. m + 1
        BY <1>1
      <4> QED
        BY ONLY <4>1, <4>2
    <3> QED
      BY <1>9, <3>1
  <2> QED
    BY <1>0, <1>4, <2>2, <2>3 DEF Good, Places
<1>10. \A i \in 1 .. Len(ends) : ends[i] <= n + 1
  BY <1>1, <1>5, <1>8
<1>11. Places(new, abs)
  BY <1>4, <1>6, <1>8, <1>9, <1>10 DEF Places
<1>12. Weight(s, n) \in Nat /\ Weight(s, n) <= w
  BY <1>0, <1>1, LessWeight DEF Good
<1> QED
  <2>1. Weight(t, n + 1) <= w + 2
    BY <1>4, <1>12
  <2>2. new \in States
    BY <1>4, <1>5, <1>6 DEF States
  <2> QED
    <3>1. new.text = t /\ Len(t) = n + 1
      BY <1>4, <1>6
    <3> QED
      BY <1>6, <1>7, <1>11, <2>1, <2>2, <3>1, Zenon DEF Good

\* Going back to the last place.
LEMMA BackKept ==
  ASSUME NEW st, NEW abs \in BOOLEAN, NEW w \in Nat, Good(st, abs, w), st.comp_ends # <<>>
  PROVE  Good(dotdot(st, abs), abs, w)
<1> DEFINE m == Len(st.comp_ends)
<1>1. /\ st.text \in Seq(Components) /\ st.comp_ends \in Seq(Nat) /\ Len(st.text) \in Nat
      /\ m \in Nat \ {0}
      /\ \A j \in 1 .. m : st.comp_ends[j] \in Nat
  BY EmptySeq DEF Good, States
<1>2. PICK n : n = st.comp_ends[m]
  OBVIOUS
<1>3. n \in 0 .. Len(st.text)
  <2>1. m \in 1 .. m
    BY <1>1
  <2>2. \A j \in 1 .. m : st.comp_ends[j] <= Len(st.text)
    BY DEF Good, Places
  <2>3. n \in Nat /\ n <= Len(st.text)
    BY <1>1, <1>2, <2>1, <2>2
  <2> QED
    BY <1>1, <2>3
<1>4. PICK t : t = SubSeq(st.text, 1, n)
  OBVIOUS
<1>5. t \in Seq(Components) /\ Len(t) = n /\ \A i \in 1 .. n : t[i] = st.text[i]
  <2>1. \A i \in 1 .. n : i \in 1 .. Len(st.text)
    BY <1>1, <1>3
  <2>2. \A i \in 1 .. n : st.text[i] \in Components
    BY <1>1, <2>1, ElementOfSeq
  <2> QED
    BY <1>1, <1>3, <1>4, <2>2, SubSeqProperties
<1>6. PICK ends : ends = Front(st.comp_ends)
  OBVIOUS
<1>7. ends \in Seq(Nat) /\ Len(ends) = m - 1 /\ \A i \in 1 .. m - 1 : ends[i] = st.comp_ends[i]
  BY <1>1, <1>6, SubSeqProperties DEF Front
<1>8. dotdot(st, abs) = [text |-> t, comp_ends |-> ends]
  BY <1>2, <1>4, <1>6 DEF dotdot, Last
<1>9. Resolved(t, abs)
  <2> SUFFICES ASSUME NEW i \in 1 .. n
               PROVE  t[i] # "." /\ (t[i] = ".." => ~abs /\ \A j \in 1 .. i : t[j] = "..")
    BY <1>5 DEF Resolved
  <2>1. i \in 1 .. Len(st.text) /\ \A j \in 1 .. i : j \in 1 .. n
    BY <1>1, <1>3
  <2> QED
    BY <1>5, <2>1 DEF Good, Resolved
<1>10. \A i \in 1 .. m - 1 : i \in 1 .. m /\ m \in 1 .. m /\ i <= m
  BY <1>1
<1>11. /\ \A i \in 1 .. m - 1 : ends[i] <= n
       /\ \A i, j \in 1 .. m - 1 : i <= j => ends[i] <= ends[j]
  BY <1>2, <1>7, <1>10 DEF Good, Places
<1>12. ASSUME NEW i \in 1 .. n, \A j \in 1 .. m - 1 : i <= ends[j]
       PROVE  t[i] = ".." /\ ~abs
  <2>1. \A j \in 1 .. m : j \in 1 .. m - 1 \/ j = m
    BY <1>1
  <2>2. \A j \in 1 .. m : i <= st.comp_ends[j]
    <3>1. \A j \in 1 .. m - 1 : i <= st.comp_ends[j]
      BY <1>7, <1>12
    <3> QED
      BY <1>2, <2>1, <3>1
  <2>3. i \in 1 .. Len(st.text)
    BY <1>1, <1>3
  <2> QED
    BY <1>5, <2>2, <2>3 DEF Good, Places
<1>13. Places(dotdot(st, abs), abs)
  <2>1. Places([text |-> t, comp_ends |-> ends], abs)
    BY <1>5, <1>7, <1>11, <1>12 DEF Places
  <2> QED
    BY <1>8, <2>1
<1>14. Weight(t, n) <= w
  <2>1. Weight(t, n) = Weight(st.text, n)
    BY <1>3, <1>5, SameWeight
  <2>2. /\ Weight(st.text, n) \in Nat /\ Weight(st.text, Len(st.text)) \in Nat
        /\ Weight(st.text, n) <= Weight(st.text, Len(st.text))
    BY <1>1, <1>3, LessWeight
  <2> QED
    BY <2>1, <2>2 DEF Good
<1> QED
  BY <1>5, <1>7, <1>8, <1>9, <1>13, <1>14 DEF Good, States

\* Nothing to go back to: in a relative path the ".." stays.
LEMMA UpKept ==
  ASSUME NEW st, NEW abs \in BOOLEAN, NEW w \in Nat, Good(st, abs, w), st.comp_ends = <<>>
  PROVE  Good(dotdot(st, abs), abs, w + 3)
<1>1. /\ st.text \in Seq(Components) /\ Len(st.text) \in Nat /\ Len(st.comp_ends) = 0
      /\ Weight(st.text, Len(st.text)) \in Nat /\ Weight(st.text, Len(st.text)) <= w
  BY LessWeight DEF Good, States
<1>2. CASE abs
  <2>1. dotdot(st, abs) = st
    BY <1>2 DEF dotdot
  <2> QED
    BY <1>1, <2>1 DEF Good
<1>3. CASE ~abs
  <2>0. PICK n, s, e : s = st.text /\ n = Len(s) /\ e = st.comp_ends /\ Len(e) = 0
    BY <1>1
  <2>1. PICK t : t = Append(s, "..")
    OBVIOUS
  <2>2. PICK ends : ends = Remember(e, n + 1)
    OBVIOUS
  <2>3. dotdot(st, abs) = [text |-> t, comp_ends |-> ends]
    BY <1>3, <2>0, <2>1, <2>2 DEF dotdot
  <2>4. /\ t \in Seq(Components) /\ Len(t) = n + 1 /\ t[n + 1] = ".."
        /\ \A i \in 1 .. n : t[i] = s[i]
        /\ Weight(t, n + 1) = Weight(s, n) + 3
    <3>1. s \in Seq(Components) /\ n \in Nat /\ ".." \in Components
      BY <1>1, <2>0 DEF Components
    <3>2. /\ t \in Seq(Components) /\ Len(t) = n + 1 /\ t[n + 1] = ".."
          /\ \A i \in 1 .. n : s[i] = t[i]
      BY <2>0, <2>1, <3>1, AppendProperties
    <3> QED
      BY <3>1, <3>2, AddedWeight
  <2>5. ends \in Seq(Nat) /\ Len(ends) = 1 /\ ends[1] = n + 1
    <3>1. e \in Seq(Nat) /\ n + 1 \in Nat
      BY <1>1, <2>0 DEF Good, States
    <3>2. ends = Append(e, n + 1)
      BY <2>0, <2>2, PathsAssumption DEF Remember
    <3> QED
      BY <2>0, <3>1, <3>2, AppendProperties
  <2>6. \A i \in 1 .. n : s[i] = ".."
    BY <1>1, <2>0 DEF Good, Places
  <2>7. \A i \in 1 .. n + 1 : t[i] = ".."
    <3>1. \A i \in 1 .. n + 1 : i \in 1 .. n \/ i = n + 1
      BY <1>1, <2>0
    <3> QED
      BY <2>4, <2>6, <3>1
  <2>8. \A i \in 1 .. n + 1 : \A j \in 1 .. i : j \in 1 .. n + 1
    BY <1>1, <2>0
  <2>9. Resolved(t, abs)
    BY <1>3, <2>4, <2>7, <2>8 DEF Resolved
  <2>10. Places(dotdot(st, abs), abs)
    <3>1. n \in Nat /\ n + 1 <= n + 1 /\ \A j \in 1 .. 1 : j = 1
      BY <1>1, <2>0
    <3>2. /\ \A j \in 1 .. Len(ends) : ends[j] <= Len(t)
          /\ \A i, j \in 1 .. Len(ends) : i <= j => ends[i] <= ends[j]
      BY <2>4, <2>5, <3>1
    <3>3. \A i \in 1 .. Len(t) : t[i] = ".." /\ ~abs
      BY <1>3, <2>4, <2>7
    <3>4. PICK u : u = dotdot(st, abs)
      OBVIOUS
    <3>5. u.text = t /\ u.comp_ends = ends
      BY <2>3, <3>4
    <3> QED
      BY <3>2, <3>3, <3>4, <3>5 DEF Places
  <2> QED
    BY <1>1, <2>0, <2>3, <2>4, <2>5, <2>9, <2>10 DEF Good, States
<1> QED
  BY <1>2, <1>3

LEMMA ComponentKept ==
  ASSUME NEW st, NEW abs \in BOOLEAN, NEW w \in Nat, Good(st, abs, w), NEW c \in Components
  PROVE  Good(component(st, c, abs), abs, w + 2 + (IF c = ".." THEN 1 ELSE 0))
<1>1. \A v \in Nat : w <= v => Good(st, abs, v)
  BY LessWeight DEF Good, States
<1>2. CASE c = "."
  BY <1>1, <1>2 DEF component
<1>3. CASE c = ".."
  <2>1. component(st, c, abs) = dotdot(st, abs) /\ w + 2 + 1 = w + 3 /\ w + 3 \in Nat
    BY <1>3 DEF component
  <2>2. Good(st, abs, w + 3)
    BY <1>1
  <2> QED
    BY <1>3, <2>1, <2>2, BackKept, UpKept
<1>4. CASE c # "." /\ c # ".."
  BY <1>4, NameKept DEF component
<1> QED
  BY <1>2, <1>3, <1>4

\* The text is resolved and no heavier than all the components, whatever they are.
LEMMA LoopKept ==
  ASSUME NEW comps \in Seq(Components), NEW abs \in BOOLEAN, NEW n, n = Len(comps)
  PROVE  Good(Normalized(comps, abs)[n], abs, Weight(comps, n))
<1>1. PICK st : st = Normalized(comps, abs)
  OBVIOUS
<1>2. /\ n \in Nat /\ st[0] = Start
      /\ \A k \in 1 .. n : st[k] = component(st[k - 1], comps[k], abs) /\ comps[k] \in Components
  BY <1>1, NormalizedSteps, ElementOfSeq
<1> DEFINE T == {k \in 0 .. n : ~Good(st[k], abs, Weight(comps, k))}
<1> SUFFICES ASSUME T # {} PROVE FALSE
  BY <1>1, <1>2
<1>3. PICK k \in T : \A y \in T : k <= y
  <2>1. T \subseteq Nat
    BY <1>2
  <2> QED
    BY <2>1, LeastElement
<1>4. k \in 0 .. n /\ ~Good(st[k], abs, Weight(comps, k))
  BY <1>3
<1>5. CASE k = 0
  <2>1. Weight(comps, 0) = 0 /\ Weight(<<>>, 0) = 0
    BY WeightStep
  <2>2. /\ Start \in States /\ Start.text = <<>> /\ Start.comp_ends = <<>>
        /\ Len(Start.text) = 0 /\ Len(Start.comp_ends) = 0
    BY DEF Start, States
  <2>3. Resolved(Start.text, abs) /\ Places(Start, abs)
    BY <2>2 DEF Resolved, Places
  <2>4. Good(Start, abs, 0)
    BY <2>1, <2>2, <2>3 DEF Good
  <2> QED
    BY <1>2, <1>4, <1>5, <2>1, <2>4
<1>6. CASE k # 0
  <2>1. PICK j : j \in Nat /\ j \in 0 .. n /\ j = k - 1 /\ k = j + 1 /\ k \in 1 .. n /\ ~(k <= j)
    BY <1>2, <1>4, <1>6
  <2>2. Good(st[j], abs, Weight(comps, j))
    BY <1>3, <2>1
  <2>3. st[k] = component(st[j], comps[k], abs) /\ comps[k] \in Components
    BY <1>2, <2>1
  <2>4. Weight(comps, k) = Weight(comps, j) + 2 + (IF comps[k] = ".." THEN 1 ELSE 0)
    BY <2>1, WeightStep
  <2>5. Weight(comps, j) \in Nat
    BY <2>1, LessWeight
  <2> QED
    BY <1>4, <2>2, <2>3, <2>4, <2>5, ComponentKept
<1> QED
  BY <1>5, <1>6

-----------------------------------------------------------------------------
(* Lengths                                                                 *)

Bit(b) == IF b THEN 1 ELSE 0

LEMMA LengthIs ==
  ASSUME NEW p \in PathType, NEW n, n = Len(p.comps)
  PROVE  /\ n \in Nat /\ (p.comps = <<>> <=> n = 0)
         /\ Weight(p.comps, n) \in Nat /\ n <= Weight(p.comps, n)
         /\ Length(p) \in Int /\ Bit(p.abs) \in 0 .. 1 /\ Bit(p.slash) \in 0 .. 1
         /\ n = 0 => Length(p) = Weight(p.comps, n) + Bit(p.abs) + Bit(p.slash)
         /\ n # 0 => Length(p) = Weight(p.comps, n) - 1 + Bit(p.abs) + Bit(p.slash)
<1>1. p.comps \in Seq(Components) /\ n \in Nat /\ DOMAIN p.comps = 1 .. n
  BY DEF PathType
<1>2. p.comps = <<>> <=> n = 0
  BY <1>1, EmptySeq
<1>3. Cardinality(Parents(p.comps)) = Dots(p.comps, n) /\ Dots(p.comps, n) \in Nat
  BY <1>1, DotsFinite DEF Parents, Dots
<1>4. Bit(p.abs) \in 0 .. 1 /\ Bit(p.slash) \in 0 .. 1
  BY DEF Bit
<1>5. Length(p) = n + Dots(p.comps, n) + (IF n = 0 THEN 0 ELSE n - 1)
                    + Bit(p.abs) + Bit(p.slash)
  BY <1>2, <1>3 DEF Length, Bit
<1>6. Weight(p.comps, n) \in Nat /\ Weight(p.comps, n) = n + n + Dots(p.comps, n)
  BY <1>1, <1>3 DEF Weight
<1>7. CASE n = 0
  BY <1>1, <1>2, <1>3, <1>4, <1>5, <1>6, <1>7
<1>8. CASE n # 0
  <2>1. PICK d, a, b : d = Dots(p.comps, n) /\ a = Bit(p.abs) /\ b = Bit(p.slash)
    OBVIOUS
  <2>2. d \in Nat /\ a \in 0 .. 1 /\ b \in 0 .. 1
    BY <1>3, <1>4, <2>1
  <2>0. n \in Nat
    BY <1>1
  <2>3. Length(p) = n + d + (n - 1) + a + b
    BY <1>5, <1>8, <2>1
  <2>4. Weight(p.comps, n) = n + n + d
    BY <1>6, <2>1
  <2>5. Length(p) = Weight(p.comps, n) - 1 + a + b /\ Length(p) \in Int
    BY ONLY <2>0, <2>2, <2>3, <2>4
  <2>6. n <= Weight(p.comps, n)
    BY <1>1, <2>2, <2>4
  <2> QED
    BY <1>1, <1>2, <1>4, <1>6, <1>8, <2>1, <2>5, <2>6
<1> QED
  BY <1>7, <1>8

LEMMA Added ==
  ASSUME NEW s \in Seq(Components), NEW e \in Components, NEW n \in Nat, n = Len(s)
  PROVE  /\ s \o <<e>> \in Seq(Components) /\ Len(s \o <<e>>) = n + 1
         /\ \A i \in 1 .. n : s[i] = (s \o <<e>>)[i]
         /\ (s \o <<e>>)[n + 1] = e
<1>1. <<e>> \in Seq(Components) /\ Len(<<e>>) = 1 /\ <<e>>[1] = e
  OBVIOUS
<1>2. /\ s \o <<e>> \in Seq(Components) /\ Len(s \o <<e>>) = n + 1
      /\ \A i \in 1 .. n + 1 : (s \o <<e>>)[i] = IF i <= n THEN s[i] ELSE <<e>>[i - n]
  BY <1>1, ConcatProperties
<1>3. \A i \in 1 .. n : i \in 1 .. n + 1 /\ i <= n
  OBVIOUS
<1>4. n + 1 \in 1 .. n + 1 /\ ~(n + 1 <= n) /\ (n + 1) - n = 1
  OBVIOUS
<1> QED
  BY <1>1, <1>2, <1>3, <1>4

LEMMA NormalizeKept ==
  ASSUME NEW p \in PathType, min_out(p) <= BufSize, NEW q, q = normalize(p)
  PROVE  /\ q \in PathType /\ Fits(q)
         /\ ~q.slash /\ (q = Dot \/ Resolved(q.comps, q.abs))
<1>1. PICK n, end : n = Len(p.comps) /\ end = Normalized(p.comps, p.abs)[n]
  OBVIOUS
<1>2. /\ p.comps \in Seq(Components) /\ p.abs \in BOOLEAN /\ p.slash \in BOOLEAN
      /\ BufSize \in Nat /\ 2 <= BufSize
  BY PathsAssumption DEF PathType
<1>3. Good(end, p.abs, Weight(p.comps, n))
  BY <1>1, <1>2, LoopKept
<1>4. q = IF end.text = <<>> /\ ~p.abs THEN Dot
          ELSE [abs |-> p.abs, comps |-> end.text, slash |-> FALSE]
  BY <1>1 DEF normalize
<1>5. CASE end.text = <<>> /\ ~p.abs
  <2>1. /\ Dot \in PathType /\ ~Dot.slash /\ ~Dot.abs
        /\ Len(Dot.comps) = 1 /\ Dot.comps[1] = "."
    BY DEF Dot, Relative, PathType, Components
  <2>2. Weight(Dot.comps, 0) = 0 /\ Weight(Dot.comps, 0 + 1) = Weight(Dot.comps, 0) + 2
    <3>1. 0 \in Nat /\ Dot.comps[0 + 1] # ".."
      BY <2>1
    <3> QED
      BY <3>1, WeightStep
  <2>3. Length(Dot) = 1
    <3>1. PICK d, n1 : d = Dot /\ n1 = Len(d.comps)
      OBVIOUS
    <3>2. d \in PathType /\ n1 = 1 /\ Weight(d.comps, n1) = 2 /\ Bit(d.abs) = 0 /\ Bit(d.slash) = 0
      BY <2>1, <2>2, <3>1 DEF Bit
    <3>3. n1 # 0 => Length(d) = Weight(d.comps, n1) - 1 + Bit(d.abs) + Bit(d.slash)
      BY <3>1, <3>2, LengthIs
    <3> QED
      BY <3>1, <3>2, <3>3
  <2> QED
    BY <1>2, <1>4, <1>5, <2>1, <2>3 DEF Fits
<1>6. CASE ~(end.text = <<>> /\ ~p.abs)
  <2>1. /\ q = [abs |-> p.abs, comps |-> end.text, slash |-> FALSE]
        /\ q.comps = end.text /\ q.abs = p.abs /\ q.slash = FALSE
    BY <1>4, <1>6
  <2>2. q \in PathType /\ Resolved(q.comps, q.abs)
    BY <1>2, <1>3, <2>1 DEF PathType, Good, States
  <2>3. PICK m : m = Len(q.comps)
    OBVIOUS
  <2>4. /\ m \in Nat /\ Weight(q.comps, m) \in Nat /\ m <= Weight(q.comps, m)
        /\ Length(q) \in Int /\ Bit(q.abs) \in 0 .. 1 /\ Bit(q.slash) = 0
        /\ m = 0 => Length(q) = Weight(q.comps, m) + Bit(q.abs) + Bit(q.slash)
        /\ m # 0 => Length(q) = Weight(q.comps, m) - 1 + Bit(q.abs) + Bit(q.slash)
    BY <2>1, <2>2, <2>3, LengthIs DEF Bit
  <2>5. /\ n \in Nat /\ Weight(p.comps, n) \in Nat /\ n <= Weight(p.comps, n)
        /\ Length(p) \in Int /\ Bit(p.abs) \in 0 .. 1 /\ Bit(p.slash) \in 0 .. 1
        /\ n = 0 => Length(p) = Weight(p.comps, n) + Bit(p.abs) + Bit(p.slash)
        /\ n # 0 => Length(p) = Weight(p.comps, n) - 1 + Bit(p.abs) + Bit(p.slash)
    BY <1>1, LengthIs
  <2>6. Weight(q.comps, m) <= Weight(p.comps, n)
    BY <1>3, <2>1, <2>3 DEF Good
  <2>7. n = 0 => Weight(p.comps, n) = 0
    BY WeightStep
  <2>8. Length(q) <= Length(p) /\ Length(q) \in Int /\ Length(p) \in Int
    <3>1. m = 0 => Weight(q.comps, m) = 0
      BY WeightStep
    <3>2. Bit(q.abs) = Bit(p.abs)
      BY <2>1
    <3> QED
      BY <2>4, <2>5, <2>6, <2>7, <3>1, <3>2
  <2>9. Length(p) + 1 <= BufSize
    <3>1. Length(p) = 0 \/ min_out(p) = Length(p) + 1
      BY DEF min_out
    <3> QED
      BY <1>2, <2>8, <3>1
  <2> QED
    BY <1>2, <2>1, <2>2, <2>8, <2>9 DEF Fits
<1> QED
  BY <1>5, <1>6

LEMMA JoinKept ==
  ASSUME NEW p \in PathType, NEW part \in Parts, needed(p, part) <= BufSize,
         NEW q, q = join(p, part)
  PROVE  q \in PathType /\ Fits(q)
<1>1. p.comps \in Seq(Components) /\ p.abs \in BOOLEAN /\ p.slash \in BOOLEAN
  BY DEF PathType
<1>2. CASE part = Root
  <2>1. part.abs /\ part \in PathType
    BY <1>2 DEF Root, PathType
  <2>2. q = part /\ needed(p, part) = Length(part) + 1
    BY <2>1 DEF join, needed
  <2> QED
    BY <2>1, <2>2 DEF Fits
<1>3. CASE part = Relative(<<>>)
  <2>1. ~part.abs /\ part.comps = <<>> /\ part.slash = FALSE /\ Len(part.comps) = 0
    BY <1>3 DEF Relative
  <2>2. part \in PathType
    BY <1>3 DEF Relative, PathType
  <2>3. p.comps \o part.comps = p.comps
    BY <1>1, <2>1, ConcatEmptySeq
  <2>4. q = p
    BY <1>1, <2>1, <2>3 DEF join, PathType
  <2>5. Weight(part.comps, 0) = 0
    BY WeightStep
  <2>6. Length(part) = 0
    <3>1. PICK n : n = Len(part.comps) /\ n = 0
      BY <2>1
    <3>2. Bit(part.abs) = 0 /\ Bit(part.slash) = 0
      BY <2>1 DEF Bit
    <3>3. n = 0 => Length(part) = Weight(part.comps, n) + Bit(part.abs) + Bit(part.slash)
      BY <2>2, <3>1, LengthIs
    <3> QED
      BY <2>5, <3>1, <3>2, <3>3
  <2>7. needed(p, part) = Length(p) + 0 + 0 + 1
    BY <2>1, <2>6 DEF needed, need_sep
  <2>8. Length(p) \in Int
    <3>1. PICK n : n = Len(p.comps)
      OBVIOUS
    <3> QED
      BY <3>1, LengthIs
  <2> QED
    BY <2>4, <2>7, <2>8 DEF Fits
<1>4. ASSUME NEW c \in Names \cup {".", ".."}, NEW s \in BOOLEAN,
             part = [abs |-> FALSE, comps |-> <<c>>, slash |-> s]
      PROVE  q \in PathType /\ Fits(q)
  <2>1. /\ ~part.abs /\ part.comps = <<c>> /\ part.comps # <<>> /\ part.slash = s
        /\ Len(part.comps) = 1 /\ part.comps[1] = c /\ c \in Components
    BY <1>4 DEF Components
  <2>2. part \in PathType
    <3>1. <<c>> \in Seq(Components)
      BY <2>1
    <3> QED
      BY <1>4, <3>1 DEF PathType
  <2>3. PICK n : n = Len(p.comps)
    OBVIOUS
  <2>4. /\ q = [abs |-> p.abs, comps |-> p.comps \o <<c>>, slash |-> s]
        /\ q.abs = p.abs /\ q.comps = p.comps \o <<c>> /\ q.slash = s
    BY <2>1 DEF join
  <2>5. /\ n \in Nat /\ (p.comps = <<>> <=> n = 0)
        /\ Length(p) \in Int /\ Bit(p.abs) \in 0 .. 1 /\ Bit(p.slash) \in 0 .. 1
        /\ n = 0 => Length(p) = Weight(p.comps, n) + Bit(p.abs) + Bit(p.slash)
        /\ n # 0 => Length(p) = Weight(p.comps, n) - 1 + Bit(p.abs) + Bit(p.slash)
        /\ Weight(p.comps, n) \in Nat
    BY <2>3, LengthIs
  <2>6. /\ q.comps \in Seq(Components) /\ Len(q.comps) = n + 1
        /\ \A i \in 1 .. n : p.comps[i] = q.comps[i]
        /\ q.comps[n + 1] = c
    BY <1>1, <2>1, <2>3, <2>4, <2>5, Added
  <2>7. q \in PathType
    BY <1>1, <2>4, <2>6 DEF PathType
  <2>8. /\ c = ".." => Weight(q.comps, n + 1) = Weight(p.comps, n) + 3
        /\ c # ".." => Weight(q.comps, n + 1) = Weight(p.comps, n) + 2
    <3>1. PICK a, b : a = p.comps /\ b = q.comps
      OBVIOUS
    <3>2. n \in Nat /\ \A i \in 1 .. n : a[i] = b[i]
      BY <2>5, <2>6, <3>1
    <3>3. /\ b[n + 1] = ".." => Weight(b, n + 1) = Weight(a, n) + 3
          /\ b[n + 1] # ".." => Weight(b, n + 1) = Weight(a, n) + 2
      BY ONLY <3>2, AddedWeight
    <3> QED
      BY <2>6, <3>1, <3>3
  <2>9. Length(q) = Weight(q.comps, n + 1) - 1 + Bit(p.abs) + Bit(s)
    <3>1. PICK m : m = Len(q.comps) /\ m = n + 1 /\ m # 0
      BY <2>5, <2>6
    <3> QED
      BY <2>4, <2>7, <3>1, LengthIs
  <2>10. (c = ".." => Weight(part.comps, 1) = 3) /\ (c # ".." => Weight(part.comps, 1) = 2)
    <3>1. Weight(part.comps, 0) = 0
      BY WeightStep
    <3>2. 0 \in Nat /\ 0 + 1 = 1
      OBVIOUS
    <3>3. Weight(part.comps, 0 + 1)
            = Weight(part.comps, 0) + 2 + (IF part.comps[0 + 1] = ".." THEN 1 ELSE 0)
      BY <3>2, WeightStep
    <3> QED
      BY <2>1, <3>1, <3>2, <3>3
  <2>11. Length(part) = Weight(part.comps, 1) - 1 + Bit(s)
    <3>1. PICK m : m = Len(part.comps) /\ m = 1 /\ m # 0
      BY <2>1
    <3>2. Length(part) = Weight(part.comps, m) - 1 + Bit(part.abs) + Bit(part.slash)
      BY <2>2, <3>1, LengthIs
    <3>3. Bit(part.abs) = 0 /\ Bit(part.slash) = Bit(s) /\ Bit(s) \in 0 .. 1
      BY <2>1 DEF Bit
    <3>4. Weight(part.comps, m) \in Int
      BY <2>10, <3>1
    <3> QED
      BY <3>1, <3>2, <3>3, <3>4
  <2>12. /\ n # 0 => needed(p, part) = Length(p) + (1 - Bit(p.slash)) + Length(part) + 1
         /\ n = 0 => needed(p, part) = Length(p) + 0 + Length(part) + 1
    BY <2>1, <2>5 DEF needed, need_sep, Bit
  <2>13. Length(q) + 1 <= needed(p, part) /\ Length(q) \in Int /\ needed(p, part) \in Int
    <3>1. Bit(s) \in 0 .. 1
      BY DEF Bit
    <3>2. PICK x \in 2 .. 3 : /\ Weight(q.comps, n + 1) = Weight(p.comps, n) + x
                              /\ Weight(part.comps, 1) = x
      BY <2>8, <2>10
    <3>3. Length(q) = Weight(p.comps, n) + x - 1 + Bit(p.abs) + Bit(s)
      BY <2>5, <2>9, <3>1, <3>2
    <3>4. Length(part) = x - 1 + Bit(s)
      BY <2>11, <3>2
    <3>5. CASE n = 0
      <4>1. Weight(p.comps, n) \in Nat /\ Bit(p.abs) \in 0 .. 1 /\ Bit(p.slash) \in 0 .. 1
        BY <2>5
      <4>2. Length(p) = Weight(p.comps, n) + Bit(p.abs) + Bit(p.slash)
        BY <2>5, <3>5
      <4>3. needed(p, part) = Length(p) + 0 + Length(part) + 1
        BY <2>12, <3>5
      <4> QED
        BY <3>1, <3>3, <3>4, <4>1, <4>2, <4>3
    <3>6. CASE n # 0
      <4>1. Weight(p.comps, n) \in Nat /\ Bit(p.abs) \in 0 .. 1 /\ Bit(p.slash) \in 0 .. 1
        BY <2>5
      <4>2. Length(p) = Weight(p.comps, n) - 1 + Bit(p.abs) + Bit(p.slash)
        BY <2>5, <3>6
      <4>3. needed(p, part) = Length(p) + (1 - Bit(p.slash)) + Length(part) + 1
        BY <2>12, <3>6
      <4> QED
        BY <3>1, <3>3, <3>4, <4>1, <4>2, <4>3
    <3> QED
      BY <3>5, <3>6
  <2>14. BufSize \in Int
    BY PathsAssumption
  <2> QED
    BY <2>7, <2>13, <2>14 DEF Fits
<1> QED
  BY <1>2, <1>3, <1>4 DEF Parts

-----------------------------------------------------------------------------
(* Theorem *)

PInv == path \in PathType /\ ResultsFitAndAreNormal

\* The invariant, with the type of the path: no call that shares the buffer
\* loses either.
LEMMA PathsKept == PathsSpec => []PInv
<1>1. PathsInit => PInv
  <2> SUFFICES ASSUME PathsInit PROVE PInv
    OBVIOUS
  <2>1. /\ path \in PathType /\ Len(path.comps) = 0 /\ ~path.abs /\ ~path.slash
    BY DEF PathsInit, Relative, PathType
  <2>2. Weight(path.comps, 0) = 0
    BY WeightStep
  <2>3. Length(path) = 0
    <3>1. PICK p, n : p = path /\ n = Len(p.comps) /\ n = 0
      BY <2>1
    <3>2. p \in PathType /\ Bit(p.abs) = 0 /\ Bit(p.slash) = 0 /\ Weight(p.comps, n) = 0
      BY <2>1, <2>2, <3>1 DEF Bit
    <3>3. Length(p) = Weight(p.comps, n) + Bit(p.abs) + Bit(p.slash)
      BY <3>1, <3>2, LengthIs
    <3> QED
      BY <3>1, <3>2, <3>3
  <2> QED
    BY <2>1, <2>3, PathsAssumption
       DEF PathsInit, PInv, ResultsFitAndAreNormal, ResultFits, NormalForm, Fits
<1>2. PInv /\ [PathsNext]_pvars => PInv'
  <2> SUFFICES ASSUME PInv, [PathsNext]_pvars PROVE PInv'
    OBVIOUS
  <2>1. CASE normalize_path
    <3>1. PICK q : q = path' /\ q = normalize(path) /\ min_out(path) <= BufSize
      BY <2>1 DEF normalize_path
    <3>2. q \in PathType /\ Fits(q) /\ ~q.slash /\ (q = Dot \/ Resolved(q.comps, q.abs))
      BY <3>1, NormalizeKept DEF PInv
    <3> QED
      BY <3>1, <3>2 DEF PInv, ResultsFitAndAreNormal, ResultFits, NormalForm, Resolved, Fits
  <2>2. CASE path_dirname
    <3>1. path' = dirname(path) /\ normal' = FALSE /\ Fits(dirname(path))
      BY <2>2 DEF path_dirname
    <3>2. dirname(path) \in PathType
      <4>1. path.comps \in Seq(Components) /\ path \in PathType
        BY DEF PInv, PathType
      <4>2. CASE Len(path.comps) > 1
        <5>1. Front(path.comps) \in Seq(Components)
          <6>1. \A i \in 1 .. Len(path.comps) - 1 : path.comps[i] \in Components
            BY <4>1, ElementOfSeq
          <6> QED
            BY <4>1, <4>2, <6>1, SubSeqProperties DEF Front
        <5> QED
          BY <4>1, <4>2, <5>1 DEF dirname, PathType
      <4>3. CASE ~(Len(path.comps) > 1)
        <5>1. Root \in PathType /\ Dot \in PathType
          BY DEF PathType, Root, Dot, Relative, Components
        <5>2. [path EXCEPT !.slash = FALSE] \in PathType
          BY <4>1 DEF PathType
        <5> QED
          BY <4>3, <5>1, <5>2 DEF dirname
      <4> QED
        BY <4>2, <4>3
    <3> QED
      BY <3>1, <3>2 DEF PInv, ResultsFitAndAreNormal, ResultFits, NormalForm, Fits
  <2>3. ASSUME NEW part \in Parts, path_join(part)
        PROVE  PInv'
    <3>1. PICK q : /\ q = path' /\ q = join(path, part) /\ needed(path, part) <= BufSize
                   /\ normal' = FALSE
      BY <2>3 DEF path_join
    <3>2. q \in PathType /\ Fits(q)
      BY <3>1, JoinKept DEF PInv
    <3> QED
      BY <3>1, <3>2 DEF PInv, ResultsFitAndAreNormal, ResultFits, NormalForm, Fits
  <2>4. CASE UNCHANGED pvars
    BY <2>4 DEF pvars, PInv, ResultsFitAndAreNormal, ResultFits, NormalForm, Fits
  <2> QED
    BY <2>1, <2>2, <2>3, <2>4 DEF PathsNext
<1> QED
  BY <1>1, <1>2, PTL DEF PathsSpec

\* Whatever is joined, normalized and cut off in one buffer, the result fits it
\* with its terminator, and after cpr_normalize_path no "." and no ".." that
\* could be resolved is left (fs.c 82-254).
THEOREM PathsFit == PathsSpec => []ResultsFitAndAreNormal
<1>1. PInv => ResultsFitAndAreNormal
  BY DEF PInv
<1> QED
  BY <1>1, PathsKept, PTL

-----------------------------------------------------------------------------
(* Normalizing keeps what a path means, if it leads up by one level at most *)

Means(m, abs) ==
  /\ m = [abs |-> abs, up |-> m.up, down |-> m.down]
  /\ m.up \in Nat /\ m.down \in Seq(Components) /\ (abs => m.up = 0)
  /\ \A i \in 1 .. Len(m.down) : m.down[i] # "." /\ m.down[i] # ".."

\* A text that spells out a meaning: the way up, then the way down.
Spells(text, m) ==
  /\ text \in Seq(Components) /\ Len(text) = m.up + Len(m.down)
  /\ \A i \in 1 .. Len(text) : text[i] = IF i <= m.up THEN ".." ELSE m.down[i - m.up]

\* What has been written spells out where the walk has come, and every
\* component of it has its place to go back to; the "..", the one behind it.
Tied(st, m, k) ==
  m.up <= 1 =>
    /\ Spells(st.text, m) /\ Len(st.text) <= k
    /\ st.comp_ends \in Seq(Nat) /\ Len(st.comp_ends) = Len(st.text)
    /\ \A i \in 1 .. Len(st.text) : st.comp_ends[i] = IF i <= m.up THEN 1 ELSE i - 1

LEMMA Shortened ==
  ASSUME NEW S, NEW s \in Seq(S), NEW n \in 0 .. Len(s)
  PROVE  /\ SubSeq(s, 1, n) \in Seq(S) /\ Len(SubSeq(s, 1, n)) = n
         /\ \A i \in 1 .. n : SubSeq(s, 1, n)[i] = s[i]
<1>1. \A i \in 1 .. n : i \in 1 .. Len(s)
  OBVIOUS
<1>2. \A i \in 1 .. n : s[i] \in S
  BY <1>1, ElementOfSeq
<1> QED
  BY <1>2, SubSeqProperties

LEMMA WalkDown ==
  ASSUME NEW m, NEW abs \in BOOLEAN, Means(m, abs), NEW c \in Components, c # ".", c # "..",
         NEW w, w = Walk(m, c, abs), NEW n \in Nat, n = Len(m.down)
  PROVE  /\ Means(w, abs) /\ w.up = m.up /\ Len(w.down) = n + 1
         /\ w.down[n + 1] = c /\ \A i \in 1 .. n : w.down[i] = m.down[i]
<1>1. m.down \in Seq(Components) /\ m.up \in Nat
  BY DEF Means
<1>2. PICK d : d = Append(m.down, c)
  OBVIOUS
<1>3. /\ d \in Seq(Components) /\ Len(d) = n + 1 /\ d[n + 1] = c
      /\ \A i \in 1 .. n : d[i] = m.down[i]
  BY <1>1, <1>2, AppendProperties
<1>4. w = [m EXCEPT !.down = d]
  BY <1>2 DEF Walk
<1>5. w = [abs |-> abs, up |-> m.up, down |-> d] /\ w.up = m.up /\ w.down = d
  BY <1>4 DEF Means
<1>6. \A i \in 1 .. n + 1 : d[i] # "." /\ d[i] # ".."
  <2>1. \A i \in 1 .. n + 1 : i \in 1 .. n \/ i = n + 1
    OBVIOUS
  <2>2. \A i \in 1 .. n : m.down[i] # "." /\ m.down[i] # ".."
    BY DEF Means
  <2> QED
    BY <1>3, <2>1, <2>2
<1> QED
  BY <1>1, <1>3, <1>5, <1>6 DEF Means

LEMMA WalkBack ==
  ASSUME NEW m, NEW abs \in BOOLEAN, Means(m, abs), m.down # <<>>,
         NEW w, w = Walk(m, "..", abs), NEW n \in Nat, n = Len(m.down)
  PROVE  /\ Means(w, abs) /\ w.up = m.up /\ n # 0 /\ Len(w.down) = n - 1
         /\ \A i \in 1 .. n - 1 : w.down[i] = m.down[i]
<1>1. m.down \in Seq(Components) /\ m.up \in Nat /\ n # 0
  BY EmptySeq DEF Means
<1>2. PICK d : d = SubSeq(m.down, 1, n - 1)
  OBVIOUS
<1>3. n - 1 \in 0 .. n /\ \A i \in 1 .. n - 1 : i \in 1 .. n
  BY <1>1
<1>4. d \in Seq(Components) /\ Len(d) = n - 1 /\ \A i \in 1 .. n - 1 : d[i] = m.down[i]
  BY <1>1, <1>2, <1>3, Shortened
<1>5. w = [m EXCEPT !.down = d]
  BY <1>2 DEF Walk, Front
<1>6. w = [abs |-> abs, up |-> m.up, down |-> d] /\ w.up = m.up /\ w.down = d
  BY <1>5 DEF Means
<1>7. \A i \in 1 .. n - 1 : d[i] # "." /\ d[i] # ".."
  BY <1>3, <1>4 DEF Means
<1> QED
  BY <1>1, <1>4, <1>6, <1>7 DEF Means

LEMMA WalkUp ==
  ASSUME NEW m, NEW abs \in BOOLEAN, Means(m, abs), m.down = <<>>,
         NEW w, w = Walk(m, "..", abs)
  PROVE  /\ Means(w, abs) /\ w.down = <<>>
         /\ abs => w = m
         /\ ~abs => w.up = m.up + 1
<1>1. CASE abs
  BY <1>1 DEF Walk
<1>2. CASE ~abs
  <2>1. w = [m EXCEPT !.up = m.up + 1]
    BY <1>2 DEF Walk
  <2>2. w = [abs |-> abs, up |-> m.up + 1, down |-> m.down] /\ w.up = m.up + 1 /\ w.down = m.down
    BY <2>1 DEF Means
  <2>3. m.up + 1 \in Nat /\ m.down \in Seq(Components) /\ w.down = <<>>
    BY <2>2 DEF Means
  <2>4. \A i \in 1 .. Len(w.down) : w.down[i] # "." /\ w.down[i] # ".."
    BY <2>2 DEF Means
  <2> QED
    BY <1>2, <2>2, <2>3, <2>4 DEF Means
<1> QED
  BY <1>1, <1>2

LEMMA WalkKept ==
  ASSUME NEW m, NEW abs \in BOOLEAN, Means(m, abs), NEW c \in Components
  PROVE  Means(Walk(m, c, abs), abs) /\ m.up <= Walk(m, c, abs).up
<1>0. PICK n, w : n = Len(m.down) /\ w = Walk(m, c, abs)
  OBVIOUS
<1>1. n \in Nat /\ m.up \in Nat
  BY <1>0 DEF Means
<1>2. CASE c = "."
  BY <1>1, <1>2 DEF Walk
<1>3. CASE c # "." /\ c # ".."
  BY <1>0, <1>1, <1>3, WalkDown
<1>4. CASE c = ".." /\ m.down # <<>>
  BY <1>0, <1>1, <1>4, WalkBack
<1>5. CASE c = ".." /\ m.down = <<>>
  <2>1. Means(w, abs) /\ (abs => w = m) /\ (~abs => w.up = m.up + 1)
    BY <1>0, <1>5, WalkUp
  <2> QED
    BY <1>0, <1>1, <2>1
<1> QED
  BY <1>2, <1>3, <1>4, <1>5

\* What Tied says of a text s with the places e, of up ".." and the names down.
Agree(s, e, up, down, n) ==
  /\ s \in Seq(Components) /\ e \in Seq(Nat) /\ Len(s) = n /\ Len(e) = n /\ n = up + Len(down)
  /\ \A i \in 1 .. n : s[i] = IF i <= up THEN ".." ELSE down[i - up]
  /\ \A i \in 1 .. n : e[i] = IF i <= up THEN 1 ELSE i - 1

LEMMA TiedIs ==
  ASSUME NEW st, NEW m, NEW k, NEW s, NEW e, NEW n \in Nat, s = st.text, e = st.comp_ends, n = Len(s)
  PROVE  Tied(st, m, k) <=> (m.up <= 1 => n <= k /\ Agree(s, e, m.up, m.down, n))
BY DEF Tied, Spells, Agree

LEMMA Grown ==
  ASSUME NEW S, NEW s \in Seq(S), NEW c \in S, NEW n \in Nat, n = Len(s), NEW t, t = Append(s, c)
  PROVE  /\ t \in Seq(S) /\ Len(t) = n + 1 /\ t[n + 1] = c
         /\ \A i \in 1 .. n : t[i] = s[i]
BY AppendProperties

LEMMA TiedName ==
  ASSUME NEW s, NEW e, NEW n \in Nat, NEW m, NEW abs \in BOOLEAN, Means(m, abs),
         Agree(s, e, m.up, m.down, n), n < MaxDepth,
         NEW c \in Components, c # ".", c # "..", NEW w, w = Walk(m, c, abs),
         NEW st, st = name([text |-> s, comp_ends |-> e], c)
  PROVE  Agree(st.text, st.comp_ends, w.up, w.down, n + 1)
<1>0. PICK d, up, down, t, r :
        /\ d = Len(m.down) /\ up = m.up /\ down = w.down
        /\ t = Append(s, c) /\ r = Append(e, n)
  OBVIOUS
<1>1. d \in Nat /\ up \in Nat /\ n = up + d /\ s \in Seq(Components) /\ e \in Seq(Nat)
  BY <1>0 DEF Means, Agree
<1>2. /\ Means(w, abs) /\ w.up = up /\ Len(down) = d + 1 /\ down[d + 1] = c
      /\ \A i \in 1 .. d : down[i] = m.down[i]
  <2>1. d \in Nat /\ d = Len(m.down)
    BY <1>0, <1>1
  <2>2. /\ Means(w, abs) /\ w.up = m.up /\ Len(w.down) = d + 1
        /\ w.down[d + 1] = c /\ \A i \in 1 .. d : w.down[i] = m.down[i]
    BY <2>1, WalkDown
  <2> QED
    BY <1>0, <2>2
<1>3. Len(s) = n /\ Len(e) = n
  BY DEF Agree
<1>4. /\ t \in Seq(Components) /\ Len(t) = n + 1 /\ t[n + 1] = c
      /\ \A i \in 1 .. n : t[i] = s[i]
  BY <1>0, <1>1, <1>3, Grown
<1>5. /\ r \in Seq(Nat) /\ Len(r) = n + 1 /\ r[n + 1] = n
      /\ \A i \in 1 .. n : r[i] = e[i]
  BY <1>0, <1>1, <1>3, Grown
<1>6. st.text = t /\ st.comp_ends = r
  BY <1>0, <1>3 DEF name, Remember
<1>7. ASSUME NEW i \in 1 .. n + 1
      PROVE  /\ t[i] = IF i <= up THEN ".." ELSE down[i - up]
             /\ r[i] = IF i <= up THEN 1 ELSE i - 1
  <2>1. CASE i = n + 1
    <3>1. ~(i <= up) /\ i - up = d + 1 /\ i - 1 = n
      BY <1>1, <2>1
    <3> QED
      BY <1>2, <1>4, <1>5, <2>1, <3>1
  <2>2. CASE i # n + 1
    <3>1. i \in 1 .. n /\ (~(i <= up) => i - up \in 1 .. d)
      BY <1>1, <2>2
    <3>2. /\ s[i] = IF i <= up THEN ".." ELSE m.down[i - up]
          /\ e[i] = IF i <= up THEN 1 ELSE i - 1
      BY <1>0, <3>1 DEF Agree
    <3>3. t[i] = s[i] /\ r[i] = e[i] /\ (~(i <= up) => down[i - up] = m.down[i - up])
      BY <1>2, <1>4, <1>5, <3>1
    <3> QED
      BY ONLY <3>2, <3>3
  <2> QED
    BY <2>1, <2>2
<1>8. n + 1 = up + (d + 1)
  BY <1>1
<1> QED
  <2>1. n + 1 = up + Len(down)
    BY <1>2, <1>8
  <2>2. Agree(t, r, up, down, n + 1)
    BY ONLY <1>4, <1>5, <1>7, <2>1 DEF Agree
  <2> QED
    BY <1>0, <1>2, <1>6, <2>2

LEMMA TiedBack ==
  ASSUME NEW s, NEW e, NEW n \in Nat, NEW m, NEW abs \in BOOLEAN, Means(m, abs), m.down # <<>>,
         Agree(s, e, m.up, m.down, n), NEW w, w = Walk(m, "..", abs),
         NEW st, st = dotdot([text |-> s, comp_ends |-> e], abs)
  PROVE  n # 0 /\ Agree(st.text, st.comp_ends, w.up, w.down, n - 1)
<1>0. PICK d, up, down, t, r :
        /\ d = Len(m.down) /\ up = m.up /\ down = w.down
        /\ t = SubSeq(s, 1, n - 1) /\ r = SubSeq(e, 1, n - 1)
  OBVIOUS
<1>1. d \in Nat /\ up \in Nat /\ n = up + d /\ s \in Seq(Components) /\ e \in Seq(Nat)
  BY <1>0 DEF Means, Agree
<1>2. /\ Means(w, abs) /\ w.up = up /\ d # 0 /\ Len(down) = d - 1
      /\ \A i \in 1 .. d - 1 : down[i] = m.down[i]
  <2>1. d \in Nat /\ d = Len(m.down)
    BY <1>0, <1>1
  <2>2. /\ Means(w, abs) /\ w.up = m.up /\ d # 0 /\ Len(w.down) = d - 1
        /\ \A i \in 1 .. d - 1 : w.down[i] = m.down[i]
    BY <2>1, WalkBack
  <2> QED
    BY <1>0, <2>2
<1>3. Len(s) = n /\ Len(e) = n /\ n - 1 \in 0 .. n /\ n \in 1 .. n /\ ~(n <= up)
  BY <1>1, <1>2 DEF Agree
<1>4. t \in Seq(Components) /\ Len(t) = n - 1 /\ \A i \in 1 .. n - 1 : t[i] = s[i]
  BY <1>0, <1>1, <1>3, Shortened
<1>5. r \in Seq(Nat) /\ Len(r) = n - 1 /\ \A i \in 1 .. n - 1 : r[i] = e[i]
  BY <1>0, <1>1, <1>3, Shortened
<1>6. e[n] = n - 1 /\ e # <<>>
  BY <1>0, <1>3 DEF Agree
<1>7. st.text = t /\ st.comp_ends = r
  BY <1>0, <1>3, <1>6 DEF dotdot, Front, Last
<1>8. ASSUME NEW i \in 1 .. n - 1
      PROVE  /\ t[i] = IF i <= up THEN ".." ELSE down[i - up]
             /\ r[i] = IF i <= up THEN 1 ELSE i - 1
  <2>1. i \in 1 .. n /\ (~(i <= up) => i - up \in 1 .. d - 1)
    BY <1>1
  <2>2. /\ s[i] = IF i <= up THEN ".." ELSE m.down[i - up]
        /\ e[i] = IF i <= up THEN 1 ELSE i - 1
    BY <1>0, <2>1 DEF Agree
  <2> QED
    BY <1>2, <1>4, <1>5, <2>1, <2>2
<1>9. n - 1 = up + (d - 1) /\ n # 0
  BY <1>1, <1>2
<1> QED
  <2>1. n - 1 = up + Len(down)
    BY <1>2, <1>9
  <2>2. Agree(t, r, up, down, n - 1)
    BY ONLY <1>4, <1>5, <1>8, <2>1 DEF Agree
  <2> QED
    BY <1>0, <1>2, <1>7, <1>9, <2>2

LEMMA TiedUp ==
  ASSUME NEW s, NEW e, NEW n \in Nat, NEW m, NEW abs \in BOOLEAN, Means(m, abs), m.down = <<>>,
         Agree(s, e, m.up, m.down, n), NEW w, w = Walk(m, "..", abs), w.up <= 1,
         NEW st, st = dotdot([text |-> s, comp_ends |-> e], abs)
  PROVE  \E l \in {n, n + 1} : Agree(st.text, st.comp_ends, w.up, w.down, l)
<1>1. Means(w, abs) /\ w.down = <<>> /\ (abs => w = m) /\ (~abs => w.up = m.up + 1)
  BY WalkUp
<1>2. m.up \in Nat /\ n = m.up /\ (abs => m.up = 0)
  BY DEF Means, Agree
<1>3. m.up = 0 /\ n = 0
  BY <1>1, <1>2
<1>4. s = <<>> /\ e = <<>> /\ s \in Seq(Components) /\ e \in Seq(Nat)
  BY <1>3, EmptySeq DEF Agree
<1>5. CASE abs
  <2>1. st = [text |-> s, comp_ends |-> e]
    BY <1>4, <1>5 DEF dotdot
  <2>2. st.text = s /\ st.comp_ends = e
    BY <2>1
  <2> QED
    BY <1>1, <1>5, <2>2
<1>6. CASE ~abs
  <2>1. PICK t, r : t = Append(s, "..") /\ r = Append(e, 1)
    OBVIOUS
  <2>2. t \in Seq(Components) /\ Len(t) = 1 /\ t[1] = ".."
    BY <1>4, <2>1 DEF Components
  <2>3. r \in Seq(Nat) /\ Len(r) = 1 /\ r[1] = 1
    BY <1>4, <2>1
  <2>4. Len(s) = 0 /\ Len(e) = 0
    BY <1>4
  <2>5. Remember(e, 1) = r
    BY <2>1, <2>4, PathsAssumption DEF Remember
  <2>6. st.text = t /\ st.comp_ends = r
    BY <1>4, <1>6, <2>1, <2>4, <2>5 DEF dotdot
  <2>7. Len(w.down) = 0 /\ w.up = 1
    BY <1>1, <1>3, <1>6
  <2>8. \A i \in 1 .. 1 : i = 1 /\ i <= 1
    OBVIOUS
  <2>9. Agree(t, r, 1, w.down, 1)
    BY <2>2, <2>3, <2>7, <2>8 DEF Agree
  <2> QED
    BY <1>3, <2>6, <2>7, <2>9
<1> QED
  BY <1>5, <1>6

\* One component further, the text still spells out where the walk has come.
LEMMA TiedStep ==
  ASSUME NEW st, NEW m, NEW abs \in BOOLEAN, NEW k \in Nat, Means(m, abs), Tied(st, m, k),
         st = [text |-> st.text, comp_ends |-> st.comp_ends], k < MaxDepth, NEW c \in Components
  PROVE  Tied(component(st, c, abs), Walk(m, c, abs), k + 1)
<1>0. PICK w, new : w = Walk(m, c, abs) /\ new = component(st, c, abs)
  OBVIOUS
<1>1. Means(w, abs) /\ m.up <= w.up /\ m.up \in Nat /\ w.up \in Nat
  BY <1>0, WalkKept DEF Means
<1> SUFFICES ASSUME w.up <= 1 PROVE Tied(new, w, k + 1)
  BY <1>0 DEF Tied
<1>2. PICK s, e, n : s = st.text /\ e = st.comp_ends /\ n = Len(s)
  OBVIOUS
<1>3. m.up <= 1
  BY <1>1
<1>4. s \in Seq(Components) /\ n \in Nat
  BY <1>2, <1>3 DEF Tied, Spells
<1>5. n <= k /\ Agree(s, e, m.up, m.down, n)
  BY <1>2, <1>3, <1>4, TiedIs
<1>6. ASSUME NEW l \in Nat, l <= k + 1, Agree(new.text, new.comp_ends, w.up, w.down, l)
      PROVE  Tied(new, w, k + 1)
  BY <1>6 DEF Agree, Tied, Spells
<1>7. st = [text |-> s, comp_ends |-> e] /\ n < MaxDepth /\ MaxDepth \in Nat
  BY <1>2, <1>4, <1>5, PathsAssumption
<1>8. CASE c = "."
  <2>1. new = st /\ w = m
    BY <1>0, <1>8 DEF component, Walk
  <2> QED
    BY <1>2, <1>4, <1>5, <1>6, <2>1
<1>9. CASE c # "." /\ c # ".."
  <2>1. new = name([text |-> s, comp_ends |-> e], c)
    BY <1>0, <1>7, <1>9 DEF component
  <2>2. Agree(new.text, new.comp_ends, w.up, w.down, n + 1)
    BY <1>0, <1>4, <1>5, <1>7, <1>9, <2>1, TiedName
  <2> QED
    BY <1>4, <1>5, <1>6, <2>2
<1>10. CASE c = ".."
  <2>1. new = dotdot([text |-> s, comp_ends |-> e], abs) /\ w = Walk(m, "..", abs)
    BY <1>0, <1>7, <1>10 DEF component
  <2>2. CASE m.down # <<>>
    <3>1. n # 0 /\ Agree(new.text, new.comp_ends, w.up, w.down, n - 1)
      BY <1>4, <1>5, <2>1, <2>2, TiedBack
    <3>2. n - 1 \in Nat /\ n - 1 <= k + 1
      BY <1>4, <1>5, <3>1
    <3> QED
      BY <1>6, <3>1, <3>2
  <2>3. CASE m.down = <<>>
    <3>1. \E l \in {n, n + 1} : Agree(new.text, new.comp_ends, w.up, w.down, l)
      BY <1>4, <1>5, <2>1, <2>3, TiedUp
    <3> QED
      BY <1>4, <1>5, <1>6, <3>1
  <2> QED
    BY <2>2, <2>3
<1> QED
  BY <1>8, <1>9, <1>10

Pair(st, m, abs, k) ==
  Means(m, abs) /\ Tied(st, m, k) /\ st = [text |-> st.text, comp_ends |-> st.comp_ends]

LEMMA PairStep ==
  ASSUME NEW st, NEW m, NEW abs \in BOOLEAN, NEW k \in Nat, Pair(st, m, abs, k), k < MaxDepth,
         NEW c \in Components
  PROVE  Pair(component(st, c, abs), Walk(m, c, abs), abs, k + 1)
<1>0. PICK new : new = component(st, c, abs)
  OBVIOUS
<1>1. new = [text |-> new.text, comp_ends |-> new.comp_ends]
  BY <1>0 DEF component, dotdot, name, Pair
<1>2. Means(Walk(m, c, abs), abs)
  BY WalkKept DEF Pair
<1>3. Tied(new, Walk(m, c, abs), k + 1)
  BY <1>0, TiedStep DEF Pair
<1> QED
  BY <1>0, <1>1, <1>2, <1>3 DEF Pair

LEMMA PairThrough ==
  ASSUME NEW comps \in Seq(Components), NEW abs \in BOOLEAN, NEW n, n = Len(comps), n <= MaxDepth
  PROVE  Pair(Normalized(comps, abs)[n], Walked(comps, abs)[n], abs, n)
<1>1. PICK st, m : st = Normalized(comps, abs) /\ m = Walked(comps, abs)
  OBVIOUS
<1>2. /\ n \in Nat /\ st[0] = Start /\ m[0] = Here(abs)
      /\ \A k \in 1 .. n : /\ st[k] = component(st[k - 1], comps[k], abs)
                           /\ m[k] = Walk(m[k - 1], comps[k], abs)
                           /\ comps[k] \in Components
  BY <1>1, NormalizedSteps, WalkedSteps, ElementOfSeq
<1> DEFINE T == {k \in 0 .. n : ~Pair(st[k], m[k], abs, k)}
<1> SUFFICES ASSUME T # {} PROVE FALSE
  BY <1>1, <1>2
<1>3. PICK k \in T : \A y \in T : k <= y
  <2>1. T \subseteq Nat
    BY <1>2
  <2> QED
    BY <2>1, LeastElement
<1>4. k \in 0 .. n /\ ~Pair(st[k], m[k], abs, k)
  BY <1>3
<1>5. CASE k = 0
  <2>1. /\ Start.text = <<>> /\ Start.comp_ends = <<>>
        /\ Start = [text |-> Start.text, comp_ends |-> Start.comp_ends]
    BY DEF Start
  <2>2. PICK h : h = Here(abs)
    OBVIOUS
  <2>3. h = [abs |-> abs, up |-> 0, down |-> <<>>] /\ h.up = 0 /\ h.down = <<>>
    BY <2>2 DEF Here
  <2>4. Means(h, abs)
    BY <2>3 DEF Means
  <2>5. Tied(Start, h, 0)
    BY <2>1, <2>3 DEF Tied, Spells
  <2> QED
    BY <1>2, <1>4, <1>5, <2>1, <2>2, <2>4, <2>5 DEF Pair
<1>6. CASE k # 0
  <2>1. PICK j : j \in Nat /\ j \in 0 .. n /\ j = k - 1 /\ k = j + 1 /\ k \in 1 .. n /\ ~(k <= j)
    BY <1>2, <1>4, <1>6
  <2>2. Pair(st[j], m[j], abs, j)
    BY <1>3, <2>1
  <2>3. st[k] = component(st[j], comps[k], abs) /\ m[k] = Walk(m[j], comps[k], abs)
        /\ comps[k] \in Components
    BY <1>2, <2>1
  <2>4. j < MaxDepth
    BY <1>2, <2>1, PathsAssumption
  <2> QED
    BY <1>4, <2>1, <2>2, <2>3, <2>4, PairStep
<1> QED
  BY <1>5, <1>6

\* How far the walk over a text that spells m has come after k components.
Sofar(x, m, abs, k) ==
  /\ Means(x, abs)
  /\ x.up = IF k <= m.up THEN k ELSE m.up
  /\ Len(x.down) = IF k <= m.up THEN 0 ELSE k - m.up
  /\ \A i \in 1 .. Len(x.down) : x.down[i] = m.down[i]

LEMMA SofarStep ==
  ASSUME NEW m, NEW abs \in BOOLEAN, Means(m, abs), NEW text, Spells(text, m),
         NEW x, NEW k \in Nat, k + 1 \in 1 .. Len(text), Sofar(x, m, abs, k)
  PROVE  Sofar(Walk(x, text[k + 1], abs), m, abs, k + 1)
<1>0. PICK w, c, up, d : /\ w = Walk(x, c, abs) /\ c = text[k + 1]
                         /\ up = m.up /\ d = Len(x.down)
  OBVIOUS
<1>1. /\ up \in Nat /\ d \in Nat /\ Means(x, abs) /\ x.up \in Nat /\ x.down \in Seq(Components)
      /\ c = (IF k + 1 <= up THEN ".." ELSE m.down[k + 1 - up])
      /\ Len(text) = up + Len(m.down) /\ Len(m.down) \in Nat /\ c \in Components
  BY <1>0, ElementOfSeq DEF Means, Spells, Sofar
<1>2. CASE k + 1 <= up
  <2>1. c = ".." /\ x.up = k /\ d = 0 /\ ~abs
    BY <1>0, <1>1, <1>2 DEF Sofar, Means
  <2>2. x.down = <<>>
    BY <1>0, <1>1, <2>1, EmptySeq
  <2>3. Means(w, abs) /\ w.down = <<>> /\ w.up = k + 1
    BY <1>0, <1>1, <2>1, <2>2, WalkUp
  <2>4. Len(w.down) = 0
    BY <2>3
  <2> QED
    BY <1>0, <1>2, <2>3, <2>4 DEF Sofar
<1>3. CASE ~(k + 1 <= up)
  <2>1. k + 1 - up \in 1 .. Len(m.down) /\ c = m.down[k + 1 - up]
    BY <1>1, <1>3
  <2>2. c # "." /\ c # ".."
    BY <2>1 DEF Means
  <2>3. d = k - up /\ d + 1 = k + 1 - up /\ x.up = up
    BY <1>0, <1>1, <1>3 DEF Sofar
  <2>4. /\ Means(w, abs) /\ w.up = x.up /\ Len(w.down) = d + 1
        /\ w.down[d + 1] = c /\ \A i \in 1 .. d : w.down[i] = x.down[i]
    <3>1. /\ Means(x, abs) /\ c \in Components /\ c # "." /\ c # ".."
          /\ w = Walk(x, c, abs) /\ d \in Nat /\ d = Len(x.down)
      BY <1>0, <1>1, <2>2
    <3> QED
      BY ONLY <3>1, abs \in BOOLEAN, WalkDown
  <2>5. \A i \in 1 .. d : x.down[i] = m.down[i]
    BY <1>0 DEF Sofar
  <2>6. \A i \in 1 .. d + 1 : i \in 1 .. d \/ i = d + 1
    BY <1>1
  <2>7. \A i \in 1 .. d + 1 : w.down[i] = m.down[i]
    BY <2>1, <2>3, <2>4, <2>5, <2>6
  <2> QED
    <3>1. /\ w.up = up /\ ~(k + 1 <= up) /\ Len(w.down) = d + 1
          /\ Len(w.down) = (k + 1) - up
      <4>1. (k + 1) - up = k + 1 - up
        BY <1>1
      <4> QED
        BY <1>3, <2>3, <2>4, <4>1
    <3>2. Sofar(w, m, abs, k + 1)
      <4>1. /\ w.up = IF k + 1 <= m.up THEN k + 1 ELSE m.up
            /\ Len(w.down) = IF k + 1 <= m.up THEN 0 ELSE (k + 1) - m.up
            /\ Len(w.down) = d + 1
        BY <1>0, <3>1
      <4>2. \A i \in 1 .. Len(w.down) : w.down[i] = m.down[i]
        BY <2>7, <4>1
      <4> QED
        BY <2>4, <4>1, <4>2 DEF Sofar
    <3> QED
      BY <1>0, <3>2
<1> QED
  BY <1>2, <1>3

\* To walk over a text leads to what it spells.
LEMMA WalkOver ==
  ASSUME NEW m, NEW abs \in BOOLEAN, Means(m, abs), NEW text, Spells(text, m)
  PROVE  Walked(text, abs)[Len(text)] = m
<1>0. PICK w, n : w = Walked(text, abs) /\ n = Len(text)
  OBVIOUS
<1>1. text \in Seq(Components) /\ n = m.up + Len(m.down) /\ m.up \in Nat /\ m.down \in Seq(Components)
  BY <1>0 DEF Spells, Means
<1>2. /\ n \in Nat /\ w[0] = Here(abs)
      /\ \A k \in 1 .. n : w[k] = Walk(w[k - 1], text[k], abs)
  <2>1. n \in Nat
    BY <1>0, <1>1
  <2>2. /\ Walked(text, abs)[0] = Here(abs)
        /\ \A k \in 1 .. Len(text) :
             Walked(text, abs)[k] = Walk(Walked(text, abs)[k - 1], text[k], abs)
    BY <1>1, WalkedSteps
  <2> QED
    BY ONLY <1>0, <2>1, <2>2
<1>3. \A k \in 0 .. n : Sofar(w[k], m, abs, k)
  <2> DEFINE T == {k \in 0 .. n : ~Sofar(w[k], m, abs, k)}
  <2> SUFFICES ASSUME T # {} PROVE FALSE
    OBVIOUS
  <2>1. PICK k \in T : \A y \in T : k <= y
    <3>1. T \subseteq Nat
      BY <1>2
    <3> QED
      BY <3>1, LeastElement
  <2>2. k \in 0 .. n /\ ~Sofar(w[k], m, abs, k)
    BY <2>1
  <2>3. CASE k = 0
    <3>1. PICK h : h = Here(abs)
      OBVIOUS
    <3>2. h = [abs |-> abs, up |-> 0, down |-> <<>>] /\ h.up = 0 /\ h.down = <<>>
      BY <3>1 DEF Here
    <3>3. Means(h, abs)
      BY <3>2 DEF Means
    <3>4. Len(h.down) = 0 /\ 0 <= m.up
      BY <1>1, <3>2
    <3>5. Sofar(h, m, abs, 0)
      BY <3>2, <3>3, <3>4 DEF Sofar
    <3> QED
      BY <1>2, <2>2, <2>3, <3>1, <3>5
  <2>4. CASE k # 0
    <3>1. PICK j : j \in Nat /\ j \in 0 .. n /\ j = k - 1 /\ k = j + 1 /\ k \in 1 .. n /\ ~(k <= j)
      BY <1>2, <2>2, <2>4
    <3>2. Sofar(w[j], m, abs, j)
      BY <2>1, <3>1
    <3>3. w[k] = Walk(w[j], text[j + 1], abs)
      BY <1>2, <3>1
    <3>4. j + 1 \in 1 .. Len(text)
      BY <1>0, <3>1
    <3>5. Sofar(Walk(w[j], text[j + 1], abs), m, abs, j + 1)
      BY <3>1, <3>2, <3>4, SofarStep
    <3> QED
      BY <2>2, <3>1, <3>3, <3>5
  <2> QED
    BY <2>3, <2>4
<1>4. PICK x : x = w[n]
  OBVIOUS
<1>5. Sofar(x, m, abs, n)
  BY <1>2, <1>3, <1>4
<1>6. x.up = m.up /\ Len(x.down) = Len(m.down)
  BY <1>1, <1>2, <1>5 DEF Sofar
<1>7. x.down = m.down
  <2>1. x.down \in Seq(Components) /\ \A i \in 1 .. Len(x.down) : x.down[i] = m.down[i]
    BY <1>5 DEF Sofar, Means
  <2> QED
    BY <1>1, <1>6, <2>1, SeqEqual
<1>8. x = [abs |-> abs, up |-> x.up, down |-> x.down] /\ m = [abs |-> abs, up |-> m.up, down |-> m.down]
  BY <1>5 DEF Sofar, Means
<1> QED
  BY <1>0, <1>4, <1>6, <1>7, <1>8

LEMMA MeaningKept ==
  ASSUME NEW p \in PathType, Ordinary(p)
  PROVE  Meaning(normalize(p)) = Meaning(p)
<1>0. PICK abs, n, st, m : /\ abs = p.abs /\ n = Len(p.comps)
                           /\ st = Normalized(p.comps, p.abs)[n]
                           /\ m = Walked(p.comps, p.abs)[n]
  OBVIOUS
<1>1. abs \in BOOLEAN /\ p.comps \in Seq(Components)
  BY <1>0 DEF PathType
<1>2. m = Meaning(p) /\ m.up <= 1 /\ n <= MaxDepth
  BY <1>0 DEF Meaning, Ordinary
<1>3. Pair(st, m, abs, n)
  BY <1>0, <1>1, <1>2, PairThrough
<1>4. Means(m, abs) /\ Spells(st.text, m)
  BY <1>2, <1>3 DEF Pair, Tied
<1>5. Walked(st.text, abs)[Len(st.text)] = m
  BY <1>1, <1>4, WalkOver
<1>6. CASE st.text = <<>> /\ ~abs
  <2>1. normalize(p) = Dot
    BY <1>0, <1>6 DEF normalize
  <2>2. Dot.comps = <<".">> /\ Dot.abs = FALSE /\ Len(<<".">>) = 1 /\ <<".">>[1] = "."
    BY DEF Dot, Relative
  <2>3. PICK one, c : one = 1 /\ c = <<".">>
    OBVIOUS
  <2>4. c \in Seq(Components) /\ Len(c) = one /\ one \in 1 .. one /\ c[one] = "." /\ one - 1 = 0
    BY <2>3 DEF Components
  <2>5. Walked(c, FALSE)[one] = Walk(Walked(c, FALSE)[0], ".", FALSE)
    BY <2>4, WalkedSteps
  <2>6. Walked(c, FALSE)[0] = Here(FALSE)
    BY <2>4, WalkedSteps
  <2>7. Walked(c, FALSE)[one] = Here(FALSE)
    BY <2>5, <2>6 DEF Walk
  <2>8. Meaning(Dot) = Here(FALSE)
    BY <2>2, <2>3, <2>7 DEF Meaning
  <2>9. Walked(<<>>, abs)[0] = Here(abs) /\ Len(<<>>) = 0
    BY WalkedSteps, <<>> \in Seq(Components)
  <2> QED
    BY <1>1, <1>2, <1>5, <1>6, <2>1, <2>8, <2>9
<1>7. CASE ~(st.text = <<>> /\ ~abs)
  <2>1. normalize(p) = [abs |-> abs, comps |-> st.text, slash |-> FALSE]
    BY <1>0, <1>7 DEF normalize
  <2>2. normalize(p).comps = st.text /\ normalize(p).abs = abs
    BY <2>1
  <2> QED
    BY <1>2, <1>5, <2>2 DEF Meaning
<1> QED
  BY <1>6, <1>7

\* fs.h 49: normalizing "Resolves `.` and `..` components".  Whatever calls
\* shared the buffer before, cpr_normalize_path keeps what a path means if it
\* leads up by one level at most and is no deeper than comp_ends.
THEOREM OrdinaryMeaningKept == PathsSpec => NormalizeKeepsOrdinaryMeaning
<1> DEFINE Kept == normalize_path /\ Ordinary(path) => Meaning(path') = Meaning(path)
<1>1. PInv /\ [PathsNext]_pvars => [Kept]_pvars
  <2> SUFFICES ASSUME PInv, normalize_path, Ordinary(path) PROVE Meaning(path') = Meaning(path)
    OBVIOUS
  <2>1. path' = normalize(path) /\ path \in PathType
    BY DEF normalize_path, PInv
  <2>2. Meaning(normalize(path)) = Meaning(path)
    BY <2>1, MeaningKept
  <2> QED
    BY <2>1, <2>2
<1> QED
  BY <1>1, PathsKept, PTL DEF PathsSpec, NormalizeKeepsOrdinaryMeaning
=============================================================================
