------------------------------ MODULE Recursion ------------------------------
(***************************************************************************)
(* Functions defined by recursion over an interval of integers.            *)
(*                                                                         *)
(*     LET f[i \in a..b] == Body(e, f, i) IN ...                           *)
(*                                                                         *)
(* stands for a CHOOSE, of which nothing follows until there is such an f. *)
(* There is one if Body looks at f on earlier places only; then f is what  *)
(* its equation says, and two recursions that do the same agree.           *)
(*                                                                         *)
(* The provers do not instantiate a theorem about an operator: each        *)
(* recursion has an INSTANCE of this module instead, with its own Body.    *)
(* What the body reads, a series or a window, is the argument e.           *)
(***************************************************************************)
EXTENDS Integers, WellFoundedInduction, TLAPS

CONSTANT Body(_, _, _)  \* of what it reads, the function so far, and a place

IsRec(f, e, a, b) == f = [i \in a..b |-> Body(e, f, i)]
DefinedOn(f, a, b) == f = [i \in a..b |-> f[i]]
Rec(e, a, b) == CHOOSE f : IsRec(f, e, a, b)

SameBelow(g, h, a, i) == \A j \in a..(i - 1) : g[j] = h[j]
LooksBack(e, a, b) ==
    \A i \in a..b : \A g, h : SameBelow(g, h, a, i) => Body(e, g, i) = Body(e, h, i)

-----------------------------------------------------------------------------
\* What is true of a place once it is true of all before it is true of all.
LEMMA Everywhere ==
    ASSUME NEW a \in Int, NEW b \in Int, NEW T,
           \A i \in a..b : (\A j \in a..(i - 1) : j \in T) => i \in T
    PROVE  \A i \in a..b : i \in T
<1> DEFINE R == OpToRel(<, Nat)
           bad == {k \in Nat : a + k \in a..b /\ a + k \notin T}
<1>1. IsWellFoundedOn(R, Nat)
  BY NatLessThanWellFounded
<1>2. \A x, y \in Nat : x < y => <<x, y>> \in R
  BY DEF OpToRel
<1>3. bad \in SUBSET Nat
  OBVIOUS
<1> HIDE DEF R
<1>4. bad = {}
  <2> SUFFICES ASSUME bad # {} PROVE FALSE
    OBVIOUS
  <2> HIDE DEF bad
  <2>1. PICK k \in bad : \A x \in bad : <<x, k>> \notin R
    BY <1>1, <1>3, WFMin
  <2>2. k \in Nat /\ a + k \in a..b /\ a + k \notin T
    BY <2>1 DEF bad
  <2>3. ASSUME NEW j \in a..(a + k - 1) PROVE j \in T
    <3>1. j - a \in Nat /\ j - a < k /\ a + (j - a) = j /\ j \in a..b
      BY <2>2
    <3>2. j - a \notin bad
      BY <1>2, <2>1, <2>2, <3>1
    <3> QED BY <3>1, <3>2 DEF bad
  <2> QED BY <2>2, <2>3
<1> SUFFICES ASSUME NEW i \in a..b, i \notin T PROVE FALSE
  OBVIOUS
<1>5. i - a \in Nat /\ a + (i - a) = i
  OBVIOUS
<1>6. i - a \in bad
  BY <1>5
<1> QED BY <1>4, <1>6

\* A shorter recursion can be carried a place on.
LEMMA OneMore ==
    ASSUME NEW e, NEW a \in Int, NEW b \in Int, a <= b, LooksBack(e, a, b),
           NEW f, IsRec(f, e, a, b - 1)
    PROVE  \E g : IsRec(g, e, a, b)
<1> DEFINE g == [i \in a..b |-> IF i = b THEN Body(e, f, b) ELSE f[i]]
           body == [i \in a..b |-> Body(e, g, i)]
<1>1. \A i \in a..(b - 1) : i \in a..b /\ i # b
  OBVIOUS
<1>2. \A i \in a..b : SameBelow(g, f, a, i)
  BY <1>1 DEF SameBelow
<1>3. \A i \in a..b : g[i] = IF i = b THEN Body(e, f, b) ELSE f[i]
  OBVIOUS
<1>4. g = [i \in a..b |-> g[i]]
  OBVIOUS
<1> HIDE DEF g
<1>5. \A i \in a..b : Body(e, g, i) = Body(e, f, i)
  BY <1>2 DEF LooksBack
<1>6. \A i \in a..(b - 1) : f[i] = Body(e, f, i)
  BY DEF IsRec
<1>7. \A i \in a..b : i # b => i \in a..(b - 1)
  OBVIOUS
<1>8. \A i \in a..b : g[i] = Body(e, g, i)
  BY <1>3, <1>5, <1>6, <1>7
<1>9. g = body
  BY <1>4, <1>8
<1> QED BY <1>9 DEF IsRec

\* The recursion is well defined: it satisfies its equation.
THEOREM Unfolds ==
    ASSUME NEW e, NEW a \in Int, NEW b \in Int, LooksBack(e, a, b)
    PROVE  /\ DefinedOn(Rec(e, a, b), a, b)
           /\ \A i \in a..b : Rec(e, a, b)[i] = Body(e, Rec(e, a, b), i)
<1> DEFINE T == {k \in Int : \E f : IsRec(f, e, a, k)}
<1>1. a - 1 \in T
  <2> DEFINE f == [i \in a..(a - 1) |-> 0]
             body == [i \in a..(a - 1) |-> Body(e, f, i)]
  <2>1. f = body
    <3>1. \A i \in a..(a - 1) : FALSE
      OBVIOUS
    <3> QED BY <3>1
  <2> QED BY <2>1 DEF IsRec
<1>2. ASSUME NEW k \in a..b, k - 1 \in T PROVE k \in T
  <2>1. PICK f : IsRec(f, e, a, k - 1)
    BY <1>2
  <2>2. LooksBack(e, a, k)
    <3>1. \A i \in a..k : i \in a..b
      OBVIOUS
    <3> QED BY <3>1 DEF LooksBack
  <2>3. \E g : IsRec(g, e, a, k)
    BY <2>1, <2>2, OneMore
  <2> QED BY <2>3
<1>3. b < a => \E f : IsRec(f, e, a, b)
  <2> DEFINE f == [i \in a..b |-> 0]
             body == [i \in a..b |-> Body(e, f, i)]
  <2> SUFFICES ASSUME b < a PROVE f = body
    BY DEF IsRec
  <2>1. \A i \in a..b : FALSE
    OBVIOUS
  <2> QED BY <2>1
<1>4. ASSUME a <= b PROVE b \in T
  <2> HIDE DEF T
  <2>1. \A i \in a..b : (\A j \in a..(i - 1) : j \in T) => i \in T
    <3> SUFFICES ASSUME NEW i \in a..b, \A j \in a..(i - 1) : j \in T PROVE i \in T
      OBVIOUS
    <3>1. CASE i = a
      BY <1>1, <1>2, <3>1
    <3>2. CASE i # a
      <4>1. i - 1 \in a..(i - 1)
        BY <3>2
      <4> QED BY <1>2, <4>1
    <3> QED BY <3>1, <3>2
  <2>2. \A i \in a..b : i \in T
    BY <2>1, Everywhere
  <2> QED BY <1>4, <2>2
<1>5. \E f : IsRec(f, e, a, b)
  BY <1>3, <1>4
<1>6. IsRec(Rec(e, a, b), e, a, b)
  BY <1>5 DEF Rec
<1>7. PICK f : f = Rec(e, a, b)
  OBVIOUS
<1>8. f = [i \in a..b |-> Body(e, f, i)]
  BY <1>6, <1>7 DEF IsRec
<1>9. \A i \in a..b : f[i] = Body(e, f, i)
  BY <1>8
<1>10. f = [i \in a..b |-> f[i]]
  BY <1>8
<1> QED BY <1>7, <1>9, <1>10 DEF DefinedOn

\* Two recursions that do the same up to a place agree up to it, however
\* far either goes on.  It is enough that they do the same with what the
\* first of them has computed so far.
THEOREM AgreeAlong ==
    ASSUME NEW d, NEW e, NEW a \in Int, NEW b \in Int, NEW c \in Int, NEW n \in Int,
           n <= b, n <= c, LooksBack(d, a, b), LooksBack(e, a, c),
           \A i \in a..n : Body(d, Rec(d, a, b), i) = Body(e, Rec(d, a, b), i)
    PROVE  \A i \in a..n : Rec(d, a, b)[i] = Rec(e, a, c)[i]
<1>1. PICK f : f = Rec(d, a, b)
  OBVIOUS
<1>2. PICK g : g = Rec(e, a, c)
  OBVIOUS
<1>3. \A i \in a..b : f[i] = Body(d, f, i)
  BY <1>1, Unfolds
<1>4. \A i \in a..c : g[i] = Body(e, g, i)
  BY <1>2, Unfolds
<1>0. \A i \in a..n : Body(d, f, i) = Body(e, f, i)
  BY <1>1
<1> DEFINE T == {i \in Int : f[i] = g[i]}
<1>5. ASSUME NEW i \in a..n, \A j \in a..(i - 1) : j \in T PROVE i \in T
  <2>1. SameBelow(f, g, a, i)
    BY <1>5 DEF SameBelow
  <2>2. i \in a..b /\ i \in a..c /\ i \in Int
    OBVIOUS
  <2>3. Body(e, f, i) = Body(e, g, i)
    BY <2>1, <2>2 DEF LooksBack
  <2> QED BY <1>0, <1>3, <1>4, <2>2, <2>3
<1> HIDE DEF T
<1>6. \A i \in a..n : i \in T
  BY <1>5, Everywhere
<1> QED BY <1>1, <1>2, <1>6 DEF T

\* Two recursions that do the same up to a place, whatever they are given,
\* agree up to it.
THEOREM Agree ==
    ASSUME NEW d, NEW e, NEW a \in Int, NEW b \in Int, NEW c \in Int, NEW n \in Int,
           n <= b, n <= c, LooksBack(d, a, b), LooksBack(e, a, c),
           \A i \in a..n : \A g : Body(d, g, i) = Body(e, g, i)
    PROVE  \A i \in a..n : Rec(d, a, b)[i] = Rec(e, a, c)[i]
BY AgreeAlong

\* Over the same places they are one function.
THEOREM Coincide ==
    ASSUME NEW d, NEW e, NEW a \in Int, NEW b \in Int, LooksBack(d, a, b), LooksBack(e, a, b),
           \A i \in a..b : \A g : Body(d, g, i) = Body(e, g, i)
    PROVE  Rec(d, a, b) = Rec(e, a, b)
<1>1. PICK f : f = Rec(d, a, b)
  OBVIOUS
<1>2. PICK g : g = Rec(e, a, b)
  OBVIOUS
<1>3. DefinedOn(f, a, b) /\ DefinedOn(g, a, b)
  BY <1>1, <1>2, Unfolds
<1>4. \A i \in a..b : f[i] = g[i]
  BY <1>1, <1>2, Agree
<1>5. f = g
  BY <1>3, <1>4 DEF DefinedOn
<1> QED BY <1>1, <1>2, <1>5
=============================================================================
