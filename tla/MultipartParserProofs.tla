------------------------- MODULE MultipartParserProofs -------------------------
(***************************************************************************)
(* What is proved of MultipartParser, for every request, every way to cut  *)
(* its body into blocks, and every place where it ends.                    *)
(***************************************************************************)
EXTENDS MultipartParser, Integers, FiniteSetTheorems, SequenceTheorems,
        WellFoundedInduction, TLAPS

(***************************************************************************)
(* 1. Least numbers and induction.  The induction theorems of the library  *)
(* have an operator as parameter; here sets and functions take its place.  *)
(***************************************************************************)

\* A set of natural numbers that is not empty has a least element.
LEMMA LeastNumber ==
  ASSUME NEW T, T \subseteq Nat, T # {}
  PROVE  \E m \in T : \A n \in T : m <= n
<1> DEFINE R == {ss \in Nat \X Nat : ss[1] < ss[2]}
<1>1. IsWellFoundedOn(R, Nat)
  BY NatLessThanWellFounded DEF OpToRel
<1>2. \A m, n \in T : <<n, m>> \in R <=> n < m
  OBVIOUS
<1> HIDE DEF R
<1>3. PICK m \in T : \A n \in T : ~(<<n, m>> \in R)
  BY <1>1, WFMin
<1>4. ASSUME NEW n \in T PROVE m <= n
  <2>1. m \in Nat /\ n \in Nat
    OBVIOUS
  <2>2. ~(n < m)
    BY <1>2, <1>3
  <2> QED
    BY <2>1, <2>2
<1> QED
  BY <1>4

\* Min is that element.
LEMMA MinIsLeast ==
  ASSUME NEW T, T \subseteq Nat, T # {}
  PROVE  Min(T) \in T /\ \A n \in T : Min(T) <= n
  BY LeastNumber DEF Min

\* An element that is not greater than another one is the least one.
LEMMA MinIs ==
  ASSUME NEW T, T \subseteq Nat, NEW m \in T, \A n \in T : m <= n
  PROVE  Min(T) = m
<1>1. Min(T) \in T /\ Min(T) <= m
  BY MinIsLeast
<1>2. m <= Min(T) /\ m \in Nat /\ Min(T) \in Nat
  BY <1>1
<1> QED
  BY <1>1, <1>2

\* Induction up to a bound.
LEMMA InductionTo ==
  ASSUME NEW N \in Nat, NEW T, 0 \in T, \A n \in 0 .. N - 1 : n \in T => n + 1 \in T
  PROVE  0 .. N \subseteq T
<1> DEFINE C == (0 .. N) \ T
<1>1. SUFFICES ASSUME C # {} PROVE FALSE
  OBVIOUS
<1>2. PICK m \in C : \A n \in C : m <= n
  <2>1. C \subseteq Nat
    OBVIOUS
  <2> HIDE DEF C
  <2> QED
    BY <1>1, <2>1, LeastNumber
<1>3. m # 0 /\ m - 1 \in 0 .. N - 1 /\ m - 1 \in T
  BY <1>2
<1> QED
  BY <1>2, <1>3

\* f starts with a value and goes from one value to the next in steps.
Recurs(f, N, X, base, step) ==
  /\ f \in [0 .. N -> X]
  /\ f[0] = base
  /\ \A i \in 1 .. N : f[i] = step[<<f[i - 1], i>>]

\* A value and a step from one value to the next determine such a function.
LEMMA Recursion ==
  ASSUME NEW N \in Nat, NEW X, NEW base \in X, NEW step \in [X \X (1 .. N) -> X]
  PROVE  \E f : Recurs(f, N, X, base, step)
<1> DEFINE Upto(n) == \E f \in [0 .. n -> X] :
                        f[0] = base /\ \A i \in 1 .. n : f[i] = step[<<f[i - 1], i>>]
           T == {n \in 0 .. N : Upto(n)}
<1>1. 0 \in T
  <2> DEFINE f == [i \in 0 .. 0 |-> base]
  <2>1. f \in [0 .. 0 -> X] /\ f[0] = base /\ 1 .. 0 = {}
    OBVIOUS
  <2>2. \A i \in 1 .. 0 : f[i] = step[<<f[i - 1], i>>]
    BY <2>1
  <2>3. Upto(0)
    BY <2>1, <2>2
  <2> QED
    BY <2>3
<1>2. ASSUME NEW n \in 0 .. N - 1, n \in T
      PROVE  n + 1 \in T
  <2>1. PICK f \in [0 .. n -> X] :
          f[0] = base /\ \A i \in 1 .. n : f[i] = step[<<f[i - 1], i>>]
    BY <1>2
  <2> DEFINE g == [i \in 0 .. n + 1 |-> IF i <= n THEN f[i] ELSE step[<<f[n], n + 1>>]]
  <2>2. step[<<f[n], n + 1>>] \in X
    BY <2>1
  <2>3. g \in [0 .. n + 1 -> X]
    BY <2>1, <2>2
  <2>4. g[0] = base
    BY <2>1
  <2>5. ASSUME NEW i \in 1 .. n + 1
        PROVE  g[i] = step[<<g[i - 1], i>>]
    <3>1. i \in Int /\ i - 1 \in 0 .. n /\ g[i - 1] = f[i - 1]
      OBVIOUS
    <3>2. CASE i <= n
      <4>1. i \in 1 .. n /\ g[i] = f[i]
        BY <3>1, <3>2
      <4> QED
        BY <2>1, <3>1, <4>1
    <3>3. CASE i = n + 1
      <4>1. g[i] = step[<<f[n], i>>] /\ g[i - 1] = f[n]
        BY <3>1, <3>3
      <4> QED
        BY <4>1
    <3> QED
      BY <3>1, <3>2, <3>3
  <2>6. Upto(n + 1)
    BY <2>3, <2>4, <2>5
  <2> QED
    BY <2>6
<1>3. 0 .. N \subseteq T
  <2> HIDE DEF T
  <2> QED
    BY <1>1, <1>2, InductionTo
<1> QED
  BY <1>3 DEF Recurs

(***************************************************************************)
(* 2. Sequences: FlattenSeq, prefixes and what is seen through a window.   *)
(***************************************************************************)

\* FlattenSeq is the last of the values that add one sequence after the other.
LEMMA FlattenIs ==
  ASSUME NEW S, NEW m \in Nat \ {0}, NEW h \in [1 .. m -> Seq(S)],
         NEW F \in [0 .. m -> Seq(S)], F[0] = <<>>, \A i \in 1 .. m : F[i] = F[i - 1] \o h[i]
  PROVE  FlattenSeq(h) = F[m]
<1> DEFINE Flattens(f) == f = [i \in 1 .. Len(h) |-> IF i = 1 THEN h[i] ELSE f[i - 1] \o h[i]]
           fl == CHOOSE f : Flattens(f)
<1>1. Len(h) = m
  OBVIOUS
<1>2. FlattenSeq(h) = fl[m]
  BY <1>1 DEF FlattenSeq
<1>3. F[1] = h[1]
  <2>1. 1 \in 1 .. m /\ 1 - 1 = 0 /\ h[1] \in Seq(S)
    OBVIOUS
  <2>2. F[1] = <<>> \o h[1]
    BY <2>1
  <2> QED
    BY <2>1, <2>2, ConcatEmptySeq
<1>4. Flattens([i \in 1 .. m |-> F[i]])
  <2> DEFINE G == [i \in 1 .. m |-> F[i]]
  <2>1. \A i \in 1 .. m : G[i] = IF i = 1 THEN h[i] ELSE G[i - 1] \o h[i]
    <3>1. ASSUME NEW i \in 1 .. m, i # 1
          PROVE  G[i] = G[i - 1] \o h[i]
      <4>1. i - 1 \in 1 .. m
        BY <3>1
      <4> QED
        BY <4>1
    <3> QED
      BY <3>1, <1>3
  <2>2. G = [i \in 1 .. m |-> IF i = 1 THEN h[i] ELSE G[i - 1] \o h[i]]
    BY <2>1
  <2> QED
    BY <2>2, <1>1
<1>5. fl = [i \in 1 .. m |-> IF i = 1 THEN h[i] ELSE fl[i - 1] \o h[i]]
  <2> HIDE DEF Flattens
  <2>1. Flattens(fl)
    BY <1>4
  <2> QED
    BY <2>1, <1>1 DEF Flattens
<1> HIDE DEF fl
<1> DEFINE T == {n \in 0 .. m - 1 : fl[n + 1] = F[n + 1]}
<1>6. 0 \in T
  BY <1>3, <1>5
<1>7. ASSUME NEW n \in 0 .. (m - 1) - 1, n \in T
      PROVE  n + 1 \in T
  <2>1. n + 2 \in 1 .. m /\ n + 2 # 1 /\ (n + 2) - 1 = n + 1 /\ (n + 1) + 1 = n + 2
    OBVIOUS
  <2>2. fl[n + 2] = fl[n + 1] \o h[n + 2]
    BY <1>5, <2>1
  <2>3. F[n + 2] = F[n + 1] \o h[n + 2]
    BY <2>1
  <2>4. fl[n + 1] = F[n + 1] /\ n + 1 \in 0 .. m - 1
    BY <1>7
  <2>5. fl[(n + 1) + 1] = F[(n + 1) + 1]
    BY <2>1, <2>2, <2>3, <2>4
  <2> QED
    BY <2>4, <2>5
<1>8. 0 .. m - 1 \subseteq T
  <2>1. m - 1 \in Nat
    OBVIOUS
  <2> HIDE DEF T
  <2> QED
    BY <1>6, <1>7, <2>1, InductionTo, Zenon
<1>9. m - 1 \in 0 .. m - 1 /\ (m - 1) + 1 = m
  OBVIOUS
<1> QED
  BY <1>2, <1>8, <1>9

\* What is flattened is a sequence, and one more sequence is added at its end.
LEMMA FlattenOneMore ==
  ASSUME NEW S, NEW n \in Nat, NEW f \in [1 .. n + 1 -> Seq(S)]
  PROVE  /\ FlattenSeq([i \in 1 .. n |-> f[i]]) \in Seq(S)
         /\ FlattenSeq(f) = FlattenSeq([i \in 1 .. n |-> f[i]]) \o f[n + 1]
<1> DEFINE step == [xi \in Seq(S) \X (1 .. n + 1) |-> xi[1] \o f[xi[2]]]
           g == [i \in 1 .. n |-> f[i]]
<1>1. step \in [Seq(S) \X (1 .. n + 1) -> Seq(S)]
  OBVIOUS
<1>2. PICK F \in [0 .. n + 1 -> Seq(S)] :
        F[0] = <<>> /\ \A i \in 1 .. n + 1 : F[i] = step[<<F[i - 1], i>>]
  <2> HIDE DEF step
  <2>1. <<>> \in Seq(S) /\ n + 1 \in Nat
    OBVIOUS
  <2>2. \E F : Recurs(F, n + 1, Seq(S), <<>>, step)
    BY <1>1, <2>1, Recursion
  <2> QED
    BY <2>2 DEF Recurs
<1>3. ASSUME NEW i \in 1 .. n + 1
      PROVE  F[i] = F[i - 1] \o f[i]
  <2>1. <<F[i - 1], i>> \in Seq(S) \X (1 .. n + 1)
    OBVIOUS
  <2>2. step[<<F[i - 1], i>>] = F[i - 1] \o f[i]
    BY <2>1
  <2> QED
    BY <1>2, <2>2
<1> HIDE DEF step
<1>4. FlattenSeq(f) = F[n + 1]
  <2>1. n + 1 \in Nat \ {0}
    OBVIOUS
  <2> QED
    BY <1>2, <1>3, <2>1, FlattenIs, Zenon
<1>5. FlattenSeq(g) = F[n]
  <2>1. CASE n = 0
    <3>1. g = <<>> /\ Len(g) = 0
      BY <2>1
    <3> QED
      BY <2>1, <3>1, <1>2 DEF FlattenSeq
  <2>2. CASE n # 0
    <3>1. g \in [1 .. n -> Seq(S)]
      OBVIOUS
    <3> DEFINE G == [i \in 0 .. n |-> F[i]]
    <3>2. G \in [0 .. n -> Seq(S)] /\ G[0] = <<>> /\ n \in Nat \ {0} /\ G[n] = F[n]
      BY <2>2, <1>2
    <3>3. ASSUME NEW i \in 1 .. n
          PROVE  G[i] = G[i - 1] \o g[i]
      <4>1. i \in 1 .. n + 1 /\ i \in 0 .. n /\ i - 1 \in 0 .. n
        OBVIOUS
      <4> QED
        BY <4>1, <1>3
    <3> HIDE DEF g, G
    <3>4. FlattenSeq(g) = G[n]
      BY <3>1, <3>2, <3>3, FlattenIs, Zenon
    <3> QED
      BY <3>2, <3>4
  <2> QED
    BY <2>1, <2>2
<1>6. F[n] \in Seq(S) /\ F[n + 1] = F[n] \o f[n + 1]
  <2>1. n + 1 \in 1 .. n + 1 /\ (n + 1) - 1 = n /\ n \in 0 .. n + 1
    OBVIOUS
  <2> QED
    BY <2>1, <1>3
<1> QED
  BY <1>4, <1>5, <1>6

\* What is seen of a text from symbol c + 1 to symbol e.
LEMMA Window ==
  ASSUME NEW b \in Text, NEW c \in Nat, NEW e \in Nat, c <= e, e <= Len(b)
  PROVE  /\ SubSeq(b, c + 1, e) \in Text
         /\ Len(SubSeq(b, c + 1, e)) = e - c
         /\ \A i \in 1 .. e - c : SubSeq(b, c + 1, e)[i] = b[c + i]
<1>1. c + 1 \in Int /\ e \in Int /\ \A i \in c + 1 .. e : b[i] \in Symbols
  BY DEF Text
<1>2. /\ SubSeq(b, c + 1, e) \in Seq(Symbols)
      /\ Len(SubSeq(b, c + 1, e)) = IF c + 1 <= e THEN e - (c + 1) + 1 ELSE 0
      /\ \A i \in 1 .. e - (c + 1) + 1 : SubSeq(b, c + 1, e)[i] = b[(c + 1) + i - 1]
  BY <1>1, SubSeqProperties
<1>3. e - (c + 1) + 1 = e - c /\ \A i \in 1 .. e - c : (c + 1) + i - 1 = c + i
  OBVIOUS
<1> QED
  BY <1>2, <1>3 DEF Text

\* The first symbols of a text.
LEMMA FirstSymbols ==
  ASSUME NEW s \in Text, NEW n \in 0 .. Len(s)
  PROVE  /\ SubSeq(s, 1, n) \in Text
         /\ Len(SubSeq(s, 1, n)) = n
         /\ \A i \in 1 .. n : SubSeq(s, 1, n)[i] = s[i]
<1> DEFINE w == SubSeq(s, 1, n)
           z == 0
<1>1. z \in Nat /\ n \in Nat /\ z <= n /\ n <= Len(s)
  BY DEF Text
<1>2. z + 1 = 1 /\ n - z = n /\ \A i \in 1 .. n : z + i = i
  BY <1>1
<1> HIDE DEF z
<1>3. /\ SubSeq(s, z + 1, n) \in Text
      /\ Len(SubSeq(s, z + 1, n)) = n - z
      /\ \A i \in 1 .. n - z : SubSeq(s, z + 1, n)[i] = s[z + i]
  BY <1>1, Window
<1> QED
  BY <1>2, <1>3

\* Two texts are equal when their symbols are.
LEMMA SameText ==
  ASSUME NEW s \in Text, NEW t \in Text, Len(s) = Len(t), \A i \in 1 .. Len(s) : s[i] = t[i]
  PROVE  s = t
  BY SeqEqual DEF Text

\* A window without its first symbols is a window.
LEMMA WindowMoves ==
  ASSUME NEW b \in Text, NEW c \in Nat, NEW e \in Nat, c <= e, e <= Len(b), NEW n \in 0 .. e - c
  PROVE  LET w == SubSeq(b, c + 1, e)
         IN  SubSeq(w, n + 1, Len(w)) = SubSeq(b, (c + n) + 1, e)
<1> DEFINE w == SubSeq(b, c + 1, e)
           v == SubSeq(b, (c + n) + 1, e)
           u == SubSeq(w, n + 1, Len(w))
<1>1. w \in Text /\ Len(w) = e - c /\ \A i \in 1 .. e - c : w[i] = b[c + i]
  BY Window
<1>2. c + n \in Nat /\ c + n <= e
  OBVIOUS
<1>3. v \in Text /\ Len(v) = e - (c + n) /\ \A i \in 1 .. e - (c + n) : v[i] = b[(c + n) + i]
  BY <1>2, Window
<1>4. u \in Text /\ Len(u) = Len(w) - n /\ \A i \in 1 .. Len(w) - n : u[i] = w[n + i]
  <2> HIDE DEF w
  <2>1. n \in Nat /\ Len(w) \in Nat /\ n <= Len(w)
    BY <1>1
  <2> QED
    BY <1>1, <2>1, Window
<1> HIDE DEF w, v, u
<1>5. ASSUME NEW i \in 1 .. Len(u) PROVE u[i] = v[i]
  <2>1. i \in 1 .. Len(w) - n /\ n + i \in 1 .. e - c /\ i \in 1 .. e - (c + n)
    BY <1>1, <1>4
  <2>2. u[i] = b[c + (n + i)]
    BY <1>1, <1>4, <2>1
  <2>3. c + (n + i) = (c + n) + i
    OBVIOUS
  <2> QED
    BY <1>3, <2>1, <2>2, <2>3
<1>6. Len(u) = Len(v)
  BY <1>1, <1>3, <1>4
<1>7. u = v
  BY <1>3, <1>4, <1>5, <1>6, SameText
<1> QED
  BY <1>7 DEF u, v, w

\* A window grows by the symbols that follow it.
LEMMA WindowGrows ==
  ASSUME NEW b \in Text, NEW c \in Nat, NEW e \in Nat, NEW n \in Nat, c <= e, e + n <= Len(b)
  PROVE  SubSeq(b, c + 1, e) \o SubSeq(b, e + 1, e + n) = SubSeq(b, c + 1, e + n)
<1>1. b \in Seq(Symbols) /\ Len(b) \in Nat
  BY DEF Text
<1>2. /\ c + 1 \in 1 .. Len(b) + 1
      /\ e \in (c + 1) - 1 .. Len(b)
      /\ e + n \in e .. Len(b)
  BY <1>1
<1> QED
  BY <1>1, <1>2, ConcatAdjacentSubSeq

\* A pattern occurs where its symbols are.
LEMMA OccursAt ==
  ASSUME NEW p \in Text, NEW s \in Text, p # <<>>, NEW i \in Nat \ {0}
  PROVE  i \in Occurrences(p, s) <=>
           i + Len(p) - 1 <= Len(s) /\ \A j \in 1 .. Len(p) : s[(i - 1) + j] = p[j]
<1>1. Len(p) \in Nat \ {0} /\ Len(s) \in Nat
  BY EmptySeq DEF Text
<1> SUFFICES ASSUME i + Len(p) - 1 <= Len(s)
             PROVE  SubSeq(s, i, i + Len(p) - 1) = p <=>
                      \A j \in 1 .. Len(p) : s[(i - 1) + j] = p[j]
  BY <1>1 DEF Occurrences
<1> DEFINE c == i - 1
           e == i + Len(p) - 1
           w == SubSeq(s, c + 1, e)
<1>2. c \in Nat /\ e \in Nat /\ c <= e /\ e <= Len(s) /\ c + 1 = i /\ e - c = Len(p)
  BY <1>1
<1>3. w \in Text /\ Len(w) = Len(p) /\ \A j \in 1 .. Len(p) : w[j] = s[c + j]
  <2> HIDE DEF c, e
  <2> QED
    BY <1>2, Window
<1>4. w = p <=> \A j \in 1 .. Len(p) : w[j] = p[j]
  <2> HIDE DEF w
  <2> QED
    BY <1>3, SameText
<1>5. w = SubSeq(s, i, i + Len(p) - 1)
  BY <1>2
<1> QED
  BY <1>3, <1>4, <1>5

\* What occurs in a window occurs in the text, and ends before the window does.
LEMMA WindowOccurrences ==
  ASSUME NEW b \in Text, NEW c \in Nat, NEW e \in Nat, c <= e, e <= Len(b),
         NEW p \in Text, p # <<>>, NEW i \in Nat \ {0}
  PROVE  i \in Occurrences(p, SubSeq(b, c + 1, e)) <=>
           c + i \in Occurrences(p, b) /\ c + i + Len(p) - 1 <= e
<1> DEFINE w == SubSeq(b, c + 1, e)
<1>1. w \in Text /\ Len(w) = e - c /\ \A j \in 1 .. e - c : w[j] = b[c + j]
  BY Window
<1>2. Len(p) \in Nat \ {0} /\ Len(b) \in Nat
  BY EmptySeq DEF Text
<1> HIDE DEF w
<1>3. i \in Occurrences(p, w) <=>
        i + Len(p) - 1 <= e - c /\ \A j \in 1 .. Len(p) : w[(i - 1) + j] = p[j]
  BY <1>1, OccursAt
<1>4. c + i \in Nat \ {0}
  OBVIOUS
<1>5. c + i \in Occurrences(p, b) <=>
        c + i + Len(p) - 1 <= Len(b) /\ \A j \in 1 .. Len(p) : b[(c + i - 1) + j] = p[j]
  BY <1>4, OccursAt
<1>6. ASSUME i + Len(p) - 1 <= e - c, NEW j \in 1 .. Len(p)
      PROVE  w[(i - 1) + j] = b[(c + i - 1) + j]
  <2>1. (i - 1) + j \in 1 .. e - c /\ c + ((i - 1) + j) = (c + i - 1) + j
    BY <1>2, <1>6
  <2> QED
    BY <1>1, <2>1
<1>7. i + Len(p) - 1 <= e - c <=> c + i + Len(p) - 1 <= e
  BY <1>2
<1>8. c + i + Len(p) - 1 <= e => c + i + Len(p) - 1 <= Len(b)
  BY <1>2
<1>9. i + Len(p) - 1 <= e - c =>
        ((\A j \in 1 .. Len(p) : w[(i - 1) + j] = p[j]) <=>
         (\A j \in 1 .. Len(p) : b[(c + i - 1) + j] = p[j]))
  BY <1>6
<1>10. i \in Occurrences(p, w) <=> c + i \in Occurrences(p, b) /\ c + i + Len(p) - 1 <= e
  BY <1>3, <1>5, <1>7, <1>8, <1>9
<1> QED
  BY <1>10 DEF w

\* Occurrences are places, and Before counts the symbols before the first one.
LEMMA FirstOccurrence ==
  ASSUME NEW p \in Text, NEW s \in Text, p # <<>>
  PROVE  /\ Occurrences(p, s) \subseteq Nat \ {0}
         /\ Occurrences(p, s) # {} => Before(p, s) \in 0 .. Len(s) - Len(p)
         /\ \A m \in Occurrences(p, s) :
              (\A n \in Occurrences(p, s) : m <= n) => Before(p, s) = m - 1
<1>1. Len(p) \in Nat \ {0} /\ Len(s) \in Nat
  BY EmptySeq DEF Text
<1>2. Occurrences(p, s) \subseteq 1 .. Len(s) + 1 - Len(p)
  BY DEF Occurrences
<1>3. Occurrences(p, s) \subseteq Nat
  BY <1>1, <1>2
<1>4. ASSUME Occurrences(p, s) # {}
      PROVE  Before(p, s) \in 0 .. Len(s) - Len(p)
  <2>1. Min(Occurrences(p, s)) \in Occurrences(p, s)
    BY <1>3, <1>4, MinIsLeast
  <2>2. Min(Occurrences(p, s)) \in 1 .. Len(s) + 1 - Len(p)
    BY <1>2, <2>1
  <2> HIDE DEF Occurrences
  <2> QED
    BY <1>1, <2>2 DEF Before
<1>5. ASSUME NEW m \in Occurrences(p, s), \A n \in Occurrences(p, s) : m <= n
      PROVE  Before(p, s) = m - 1
  BY <1>3, <1>5, MinIs DEF Before
<1>6. Occurrences(p, s) \subseteq Nat \ {0}
  BY <1>1, <1>2
<1> QED
  BY <1>4, <1>5, <1>6

(***************************************************************************)
(* 3. Where the parts of a request are in its body.                        *)
(***************************************************************************)

Count(r)     == Len(r.parts)
\* The body up to the end of part m, and the symbols before part k, before what
\* follows its boundary, and before its data.  (Part Count(r) + 1 is the end.)
Lead(r, m)   == FlattenSeq([i \in 1 .. m |-> PartText(r.parts[i])])
Start(r, k)  == Len(Lead(r, k - 1))
Header(r, k) == Start(r, k) + Len(Boundary)
Data(r, k)   == Header(r, k) + 7

\* The symbols of two texts, one after the other.
LEMMA ConcatText ==
  ASSUME NEW s \in Text, NEW t \in Text
  PROVE  /\ s \o t \in Text
         /\ Len(s \o t) = Len(s) + Len(t)
         /\ \A i \in 1 .. Len(s) : (s \o t)[i] = s[i]
         /\ \A i \in 1 .. Len(t) : (s \o t)[Len(s) + i] = t[i]
<1>1. s \in Seq(Symbols) /\ t \in Seq(Symbols) /\ Len(s) \in Nat /\ Len(t) \in Nat
  BY DEF Text
<1>2. /\ s \o t \in Seq(Symbols)
      /\ Len(s \o t) = Len(s) + Len(t)
      /\ \A i \in 1 .. Len(s) + Len(t) :
           (s \o t)[i] = IF i <= Len(s) THEN s[i] ELSE t[i - Len(s)]
  BY <1>1, ConcatProperties
<1>3. ASSUME NEW i \in 1 .. Len(s) PROVE (s \o t)[i] = s[i]
  BY <1>1, <1>2
<1>4. ASSUME NEW i \in 1 .. Len(t) PROVE (s \o t)[Len(s) + i] = t[i]
  <2>1. Len(s) + i \in 1 .. Len(s) + Len(t) /\ ~(Len(s) + i <= Len(s)) /\ (Len(s) + i) - Len(s) = i
    BY <1>1
  <2> QED
    BY <1>2, <2>1
<1> QED
  BY <1>2, <1>3, <1>4 DEF Text

\* What texts are made of.
LEMMA SymbolsAreTexts ==
  /\ Boundary \in Text /\ Boundary # <<>> /\ Len(Boundary) \in Nat /\ Len(Boundary) > 2
  /\ CRLF \in Text /\ Len(CRLF) = 2 /\ CRLF[1] = CR /\ CRLF[2] = LF
  /\ \A n \in Names \cup {None} : <<n>> \in Text /\ Len(<<n>>) = 1 /\ <<n>>[1] = n
  /\ <<Dash, Dash>> \in Text /\ Len(<<Dash, Dash>>) = 2
  /\ EndBoundary \in Text /\ Len(EndBoundary) = Len(Boundary) + 2
  /\ CRLF \o CRLF = <<CR, LF, CR, LF>> /\ CRLF \o CRLF \in Text
<1>1. Mark \in Text /\ Mark # <<>> /\ Len(Mark) \in Nat \ {0}
  BY ParserAssumption, SeqMonotonic, EmptySeq DEF Symbols, Text
<1>2. <<Dash, Dash>> \in Text /\ Len(<<Dash, Dash>>) = 2
  BY DEF Text, Symbols
<1>3. Boundary \in Text /\ Len(Boundary) = 2 + Len(Mark)
  BY <1>1, <1>2, ConcatText DEF Boundary
<1>4. Boundary # <<>>
  BY <1>1, <1>3
<1>5. CRLF \in Text /\ Len(CRLF) = 2 /\ CRLF[1] = CR /\ CRLF[2] = LF
  BY DEF Text, Symbols, CRLF
<1>6. \A n \in Names \cup {None} : <<n>> \in Text /\ Len(<<n>>) = 1 /\ <<n>>[1] = n
  BY DEF Text, Symbols
<1>7. EndBoundary \in Text /\ Len(EndBoundary) = Len(Boundary) + 2
  BY <1>2, <1>3, ConcatText DEF EndBoundary
<1>8. CRLF \o CRLF = <<CR, LF, CR, LF>> /\ CRLF \o CRLF \in Text
  <2> DEFINE q == <<CR, LF, CR, LF>>
  <2>1. q \in Text /\ Len(q) = 4 /\ q[1] = CR /\ q[2] = LF /\ q[3] = CR /\ q[4] = LF
    BY DEF Text, Symbols
  <2>2. /\ CRLF \o CRLF \in Text
        /\ Len(CRLF \o CRLF) = Len(CRLF) + Len(CRLF)
        /\ \A i \in 1 .. Len(CRLF) : (CRLF \o CRLF)[i] = CRLF[i]
        /\ \A i \in 1 .. Len(CRLF) : (CRLF \o CRLF)[Len(CRLF) + i] = CRLF[i]
    BY <1>5, ConcatText
  <2>3. (CRLF \o CRLF)[1] = CR /\ (CRLF \o CRLF)[2] = LF
    BY <1>5, <2>2
  <2>4. (CRLF \o CRLF)[2 + 1] = CR /\ (CRLF \o CRLF)[2 + 2] = LF
    BY <1>5, <2>2
  <2> DEFINE t == CRLF \o CRLF
  <2>5. /\ t \in Text /\ Len(t) = 4
        /\ t[1] = CR /\ t[2] = LF /\ t[3] = CR /\ t[4] = LF
    BY <1>5, <2>2, <2>3, <2>4
  <2> HIDE DEF q, t
  <2>6. \A i \in 1 .. 4 : t[i] = q[i]
    <3>1. \A i \in 1 .. 4 : i = 1 \/ i = 2 \/ i = 3 \/ i = 4
      OBVIOUS
    <3> QED
      BY <2>1, <2>5, <3>1
  <2>7. t = q
    BY <2>1, <2>5, <2>6, SameText
  <2> QED
    BY <2>5, <2>7 DEF q, t
<1> QED
  BY <1>1, <1>2, <1>3, <1>4, <1>5, <1>6, <1>7, <1>8

\* A text with a line end added.
LEMMA LineEndAdded ==
  ASSUME NEW s \in Text, NEW n \in Nat, Len(s) = n
  PROVE  /\ s \o CRLF \in Text
         /\ Len(s \o CRLF) = n + 2
         /\ \A j \in 1 .. n : (s \o CRLF)[j] = s[j]
         /\ (s \o CRLF)[n + 1] = CR
         /\ (s \o CRLF)[n + 2] = LF
<1>1. /\ s \o CRLF \in Text
      /\ Len(s \o CRLF) = n + Len(CRLF)
      /\ \A i \in 1 .. n : (s \o CRLF)[i] = s[i]
      /\ \A i \in 1 .. Len(CRLF) : (s \o CRLF)[n + i] = CRLF[i]
  <2>1. CRLF \in Text
    BY SymbolsAreTexts
  <2> QED
    BY <2>1, ConcatText
<1>2. Len(CRLF) = 2 /\ CRLF[1] = CR /\ CRLF[2] = LF
  BY SymbolsAreTexts
<1> QED
  BY <1>1, <1>2

\* A part's boundary, its headers (a line end, the name, two line ends), its data
\* and a line end.
LEMMA PartTextShape ==
  ASSUME NEW p \in Part
  PROVE  LET t == PartText(p)
             h == Len(Boundary)
             d == Len(p.data)
         IN  /\ t \in Text /\ d \in Nat /\ Len(t) = h + 9 + d
             /\ \A j \in 1 .. h : t[j] = Boundary[j]
             /\ t[h + 1] = CR /\ t[h + 2] = LF /\ t[h + 3] = p.name
             /\ t[h + 4] = CR /\ t[h + 5] = LF /\ t[h + 6] = CR /\ t[h + 7] = LF
             /\ \A j \in 1 .. d : t[h + 7 + j] = p.data[j]
             /\ t[h + 7 + d + 1] = CR /\ t[h + 7 + d + 2] = LF
<1> DEFINE h == Len(Boundary)
           d == Len(p.data)
           t1 == Boundary \o CRLF
           t2 == t1 \o <<p.name>>
           t3 == t2 \o CRLF
           t4 == t3 \o CRLF
           t5 == t4 \o p.data
           t6 == t5 \o CRLF
<1>1. p.name \in Names \cup {None} /\ p.data \in Text /\ d \in Nat /\ h \in Nat
  BY SymbolsAreTexts DEF Part, Text
<1> HIDE DEF h, d
<1>2. /\ t1 \in Text /\ Len(t1) = h + 2 /\ t1[h + 1] = CR /\ t1[h + 2] = LF
      /\ \A j \in 1 .. h : t1[j] = Boundary[j]
  BY <1>1, SymbolsAreTexts, LineEndAdded DEF h
<1> HIDE DEF t1
<1>3. /\ t2 \in Text /\ Len(t2) = h + 3 /\ t2[h + 3] = p.name
      /\ \A j \in 1 .. h + 2 : t2[j] = t1[j]
  <2> DEFINE q == <<p.name>>
  <2>1. q \in Text /\ Len(q) = 1 /\ q[1] = p.name
    BY <1>1, SymbolsAreTexts
  <2> HIDE DEF q
  <2>2. /\ t1 \o q \in Text
        /\ Len(t1 \o q) = Len(t1) + Len(q)
        /\ \A j \in 1 .. Len(t1) : (t1 \o q)[j] = t1[j]
        /\ \A j \in 1 .. Len(q) : (t1 \o q)[Len(t1) + j] = q[j]
    BY <1>2, <2>1, ConcatText
  <2>3. (t1 \o q)[(h + 2) + 1] = p.name /\ (h + 2) + 1 = h + 3
    BY <1>1, <1>2, <2>1, <2>2
  <2> QED
    BY <1>2, <2>1, <2>2, <2>3 DEF q
<1> HIDE DEF t2
<1>4. /\ t3 \in Text /\ Len(t3) = h + 5 /\ t3[h + 4] = CR /\ t3[h + 5] = LF
      /\ \A j \in 1 .. h + 3 : t3[j] = t2[j]
  <2>1. h + 3 \in Nat /\ (h + 3) + 1 = h + 4 /\ (h + 3) + 2 = h + 5
    BY <1>1
  <2> QED
    BY <2>1, <1>3, LineEndAdded
<1> HIDE DEF t3
<1>5. /\ t4 \in Text /\ Len(t4) = h + 7 /\ t4[h + 6] = CR /\ t4[h + 7] = LF
      /\ \A j \in 1 .. h + 5 : t4[j] = t3[j]
  <2>1. h + 5 \in Nat /\ (h + 5) + 1 = h + 6 /\ (h + 5) + 2 = h + 7
    BY <1>1
  <2> QED
    BY <2>1, <1>4, LineEndAdded
<1> HIDE DEF t4
<1>6. /\ t5 \in Text /\ Len(t5) = h + 7 + d
      /\ \A j \in 1 .. h + 7 : t5[j] = t4[j]
      /\ \A j \in 1 .. d : t5[h + 7 + j] = p.data[j]
  <2>1. /\ t5 \in Text /\ Len(t5) = Len(t4) + Len(p.data)
        /\ \A j \in 1 .. Len(t4) : t5[j] = t4[j]
        /\ \A j \in 1 .. Len(p.data) : t5[Len(t4) + j] = p.data[j]
    BY <1>1, <1>5, ConcatText
  <2> HIDE DEF t5
  <2> QED
    BY <1>5, <2>1 DEF d
<1> HIDE DEF t5
<1>7. /\ t6 \in Text /\ Len(t6) = h + 9 + d
      /\ t6[h + 7 + d + 1] = CR /\ t6[h + 7 + d + 2] = LF
      /\ \A j \in 1 .. h + 7 + d : t6[j] = t5[j]
  <2>1. h + 7 + d \in Nat /\ (h + 7 + d) + 2 = h + 9 + d
    BY <1>1
  <2> QED
    BY <2>1, <1>6, LineEndAdded
<1>8. t6 = PartText(p)
  BY DEF PartText, t1, t2, t3, t4, t5
<1> HIDE DEF t6
<1>9. \A j \in 1 .. h + 7 : t6[j] = t4[j]
  BY <1>1, <1>6, <1>7
<1>10. \A j \in 1 .. h + 3 : t6[j] = t2[j]
  BY <1>1, <1>4, <1>5, <1>9
<1>11. \A j \in 1 .. h : t6[j] = Boundary[j]
  BY <1>1, <1>2, <1>3, <1>10
<1>12. t6[h + 1] = CR /\ t6[h + 2] = LF /\ t6[h + 3] = p.name
  BY <1>1, <1>2, <1>3, <1>10
<1>13. t6[h + 4] = CR /\ t6[h + 5] = LF /\ t6[h + 6] = CR /\ t6[h + 7] = LF
  BY <1>1, <1>4, <1>5, <1>9
<1>14. ASSUME NEW j \in 1 .. d PROVE t6[h + 7 + j] = p.data[j]
  <2>1. h + 7 + j \in 1 .. h + 7 + d
    BY <1>1
  <2> QED
    BY <1>6, <1>7, <2>1
<1> QED
  BY <1>1, <1>7, <1>8, <1>11, <1>12, <1>13, <1>14 DEF h, d

\* The parts follow one another.
Starts(r) ==
  /\ Count(r) \in Nat /\ Start(r, 1) = 0
  /\ \A k \in 1 .. Count(r) + 1 : Start(r, k) \in Nat
  /\ \A k \in 1 .. Count(r) :
       /\ Len(r.parts[k].data) \in Nat
       /\ Start(r, k + 1) = Start(r, k) + Len(Boundary) + 9 + Len(r.parts[k].data)
  /\ \A j, k \in 1 .. Count(r) + 1 : j < k => Start(r, j) + Len(Boundary) + 9 <= Start(r, k)

\* What is where in part k, and at the end.
PartAt(r, k) ==
  LET h == Header(r, k)
      d == Len(r.parts[k].data)
      b == Body(r)
  IN  /\ b[h + 1] = CR /\ b[h + 2] = LF /\ b[h + 3] = r.parts[k].name
      /\ b[h + 4] = CR /\ b[h + 5] = LF /\ b[h + 6] = CR /\ b[h + 7] = LF
      /\ \A j \in 1 .. d : b[h + 7 + j] = r.parts[k].data[j]
      /\ b[h + 7 + d + 1] = CR /\ b[h + 7 + d + 2] = LF
EndAt(r) ==
  LET h == Header(r, Count(r) + 1)
      b == Body(r)
  IN  /\ b \in Text /\ Len(b) = h + 4
      /\ b[h + 1] = Dash /\ b[h + 2] = Dash /\ b[h + 3] = CR /\ b[h + 4] = LF

\* The beginnings of a body.
LEMMA LeadsAreTexts ==
  ASSUME NEW r \in Requests
  PROVE  /\ Count(r) \in Nat /\ r.parts \in [1 .. Count(r) -> Part]
         /\ Lead(r, 0) = <<>>
         /\ \A m \in 0 .. Count(r) : Lead(r, m) \in Text
         /\ \A m \in 0 .. Count(r) - 1 :
              Lead(r, m + 1) = Lead(r, m) \o PartText(r.parts[m + 1])
         /\ Body(r) = Lead(r, Count(r)) \o EndBoundary \o CRLF
<1> DEFINE N == Count(r)
<1>1. r.parts \in Seq(Part)
  BY ParserAssumption DEF Request
<1>2. N \in Nat /\ r.parts \in [1 .. N -> Part] /\ DOMAIN r.parts = 1 .. N
  BY <1>1, LenProperties DEF Count
<1>3. Lead(r, 0) = <<>>
  <2>1. [i \in 1 .. 0 |-> PartText(r.parts[i])] = <<>> /\ Len(<<>>) = 0
    OBVIOUS
  <2> QED
    BY <2>1 DEF Lead, FlattenSeq
<1> HIDE DEF N
<1>4. ASSUME NEW m \in 0 .. N - 1
      PROVE  Lead(r, m) \in Text /\ Lead(r, m + 1) = Lead(r, m) \o PartText(r.parts[m + 1])
  <2> DEFINE f == [i \in 1 .. m + 1 |-> PartText(r.parts[i])]
  <2>1. m \in Nat /\ \A i \in 1 .. m + 1 : i \in 1 .. N
    BY <1>2
  <2>2. \A i \in 1 .. m + 1 : PartText(r.parts[i]) \in Seq(Symbols)
    BY <1>2, <2>1, PartTextShape DEF Text
  <2>3. f \in [1 .. m + 1 -> Seq(Symbols)] /\ f[m + 1] = PartText(r.parts[m + 1])
    BY <2>1, <2>2
  <2>4. [i \in 1 .. m |-> f[i]] = [i \in 1 .. m |-> PartText(r.parts[i])]
    BY <2>1
  <2> HIDE DEF f
  <2>5. /\ FlattenSeq([i \in 1 .. m |-> f[i]]) \in Seq(Symbols)
        /\ FlattenSeq(f) = FlattenSeq([i \in 1 .. m |-> f[i]]) \o f[m + 1]
    BY <2>1, <2>3, FlattenOneMore
  <2>6. FlattenSeq([i \in 1 .. m |-> f[i]]) = Lead(r, m) /\ FlattenSeq(f) = Lead(r, m + 1)
    BY <2>4 DEF Lead, f
  <2> QED
    BY <2>3, <2>5, <2>6 DEF Text
<1>5. ASSUME NEW m \in 0 .. N
      PROVE  Lead(r, m) \in Text
  <2>1. CASE m < N
    BY <1>2, <1>4, <2>1
  <2>2. CASE m = N /\ m = 0
    <3>1. <<>> \in Text
      BY EmptySeq DEF Text
    <3> QED
      BY <2>2, <3>1, <1>3
  <2>3. CASE m = N /\ m > 0
    <3>1. m - 1 \in 0 .. N - 1 /\ (m - 1) + 1 = m /\ m \in 1 .. N
      BY <1>2, <2>3
    <3>2. Lead(r, m - 1) \in Text /\ Lead(r, m) = Lead(r, m - 1) \o PartText(r.parts[m])
      BY <1>4, <3>1
    <3>3. PartText(r.parts[m]) \in Text
      BY <1>2, <3>1, PartTextShape
    <3> QED
      BY <3>2, <3>3, ConcatText
  <2> QED
    BY <1>2, <2>1, <2>2, <2>3
<1>6. Body(r) = Lead(r, N) \o EndBoundary \o CRLF
  BY <1>2 DEF Body, Lead
<1> QED
  BY <1>2, <1>3, <1>4, <1>5, <1>6 DEF N

\* A beginning is followed by the rest.
LEMMA LeadsGrow ==
  ASSUME NEW r \in Requests, NEW m \in 0 .. Count(r), NEW n \in m .. Count(r)
  PROVE  /\ Len(Lead(r, m)) \in Nat /\ Len(Lead(r, n)) \in Nat
         /\ Len(Lead(r, m)) <= Len(Lead(r, n))
         /\ \A i \in 1 .. Len(Lead(r, m)) : Lead(r, n)[i] = Lead(r, m)[i]
<1> DEFINE N == Count(r)
           Grown(d) == /\ Len(Lead(r, m)) <= Len(Lead(r, m + d))
                       /\ \A i \in 1 .. Len(Lead(r, m)) : Lead(r, m + d)[i] = Lead(r, m)[i]
           T == {d \in 0 .. N - m : Grown(d)}
<1>1. N \in Nat /\ r.parts \in [1 .. N -> Part] /\ N - m \in Nat
  BY LeadsAreTexts
<1>2. \A i \in 0 .. N : Lead(r, i) \in Text /\ Len(Lead(r, i)) \in Nat
  BY LeadsAreTexts DEF Text
<1>3. 0 \in T
  BY <1>1, <1>2
<1>4. ASSUME NEW d \in 0 .. (N - m) - 1, d \in T
      PROVE  d + 1 \in T
  <2> DEFINE e == m + d
  <2>1. e \in 0 .. N - 1 /\ e + 1 \in 1 .. N /\ m + (d + 1) = e + 1 /\ e \in 0 .. N
    BY <1>1
  <2>2. Lead(r, e + 1) = Lead(r, e) \o PartText(r.parts[e + 1])
    BY <2>1, LeadsAreTexts
  <2>3. PartText(r.parts[e + 1]) \in Text
    BY <1>1, <2>1, PartTextShape
  <2>4. Len(PartText(r.parts[e + 1])) \in Nat
    BY <2>3 DEF Text
  <2>5. /\ Len(Lead(r, e + 1)) = Len(Lead(r, e)) + Len(PartText(r.parts[e + 1]))
        /\ \A i \in 1 .. Len(Lead(r, e)) : Lead(r, e + 1)[i] = Lead(r, e)[i]
    BY <1>2, <2>1, <2>2, <2>3, ConcatText
  <2>6. Grown(d)
    BY <1>4
  <2>7. Len(Lead(r, m)) \in Nat /\ Len(Lead(r, e)) \in Nat
    BY <1>2, <2>1
  <2> HIDE DEF e
  <2>8. /\ Len(Lead(r, m)) <= Len(Lead(r, e + 1))
        /\ \A i \in 1 .. Len(Lead(r, m)) : Lead(r, e + 1)[i] = Lead(r, m)[i]
    BY <2>4, <2>5, <2>6, <2>7 DEF e
  <2>9. Grown(d + 1)
    BY <2>1, <2>8
  <2> QED
    BY <1>1, <2>9
<1>5. 0 .. N - m \subseteq T
  <2> HIDE DEF T, N
  <2> QED
    BY <1>1, <1>3, <1>4, InductionTo
<1>6. n - m \in 0 .. N - m /\ m + (n - m) = n
  BY <1>1
<1>7. Grown(n - m)
  BY <1>5, <1>6
<1> QED
  BY <1>1, <1>2, <1>6, <1>7

\* The parts of a body follow one another.
LEMMA StartsOfParts ==
  ASSUME NEW r \in Requests
  PROVE  Starts(r)
<1> DEFINE N == Count(r)
           h == Len(Boundary)
<1>1. N \in Nat /\ r.parts \in [1 .. N -> Part] /\ h \in Nat
  BY LeadsAreTexts, SymbolsAreTexts
<1>2. \A i \in 0 .. N : Lead(r, i) \in Text /\ Len(Lead(r, i)) \in Nat
  BY LeadsAreTexts DEF Text
<1> HIDE DEF N, h
<1>3. Start(r, 1) = 0
  BY LeadsAreTexts, EmptySeq DEF Start
<1>4. ASSUME NEW k \in 1 .. N + 1 PROVE Start(r, k) \in Nat
  <2>1. k - 1 \in 0 .. N
    BY <1>1
  <2> QED
    BY <1>2, <2>1 DEF Start
<1>5. ASSUME NEW k \in 1 .. N
      PROVE  /\ Len(r.parts[k].data) \in Nat
             /\ Start(r, k + 1) = Start(r, k) + h + 9 + Len(r.parts[k].data)
  <2>1. k - 1 \in 0 .. N - 1 /\ k - 1 \in 0 .. N /\ (k - 1) + 1 = k /\ (k + 1) - 1 = k
    BY <1>1
  <2>2. Lead(r, k) = Lead(r, k - 1) \o PartText(r.parts[k])
    BY <2>1, LeadsAreTexts DEF N
  <2>3. /\ PartText(r.parts[k]) \in Text /\ Len(r.parts[k].data) \in Nat
        /\ Len(PartText(r.parts[k])) = h + 9 + Len(r.parts[k].data)
    BY <1>1, PartTextShape DEF h
  <2>4. Len(Lead(r, k)) = Len(Lead(r, k - 1)) + Len(PartText(r.parts[k]))
    BY <1>2, <2>1, <2>2, <2>3, ConcatText
  <2>5. Len(Lead(r, k - 1)) \in Nat
    BY <1>2, <2>1
  <2>6. Start(r, k + 1) = Len(Lead(r, k)) /\ Start(r, k) = Len(Lead(r, k - 1))
    BY <2>1 DEF Start
  <2> DEFINE d == Len(r.parts[k].data)
             s == Len(Lead(r, k - 1))
             e == Len(Lead(r, k))
  <2>7. d \in Nat /\ s \in Nat /\ e = s + (h + 9 + d)
    BY <2>3, <2>4, <2>5
  <2> HIDE DEF d, s, e
  <2>8. e = s + h + 9 + d
    BY <1>1, <2>7
  <2> QED
    BY <2>6, <2>7, <2>8 DEF d, s, e
<1>6. ASSUME NEW j \in 1 .. N + 1, NEW k \in 1 .. N + 1, j < k
      PROVE  Start(r, j) + h + 9 <= Start(r, k)
  <2>1. j \in 1 .. N /\ j \in 0 .. N /\ k - 1 \in j .. N /\ (j + 1) - 1 = j /\ j + 1 \in 1 .. N + 1
    BY <1>1, <1>6
  <2>2. Len(Lead(r, j)) <= Len(Lead(r, k - 1))
    BY <2>1, LeadsGrow DEF N
  <2>3. Start(r, j + 1) <= Start(r, k)
    BY <2>1, <2>2 DEF Start
  <2>4. /\ Len(r.parts[j].data) \in Nat
        /\ Start(r, j + 1) = Start(r, j) + h + 9 + Len(r.parts[j].data)
    BY <1>5, <2>1
  <2>5. Start(r, j) \in Nat /\ Start(r, j + 1) \in Nat /\ Start(r, k) \in Nat
    BY <1>4, <2>1
  <2> QED
    BY <1>1, <2>3, <2>4, <2>5
<1> QED
  BY <1>1, <1>3, <1>4, <1>5, <1>6 DEF Starts, N, h

\* A part, and the end, are in the body where they start.
LEMMA PartsInBody ==
  ASSUME NEW r \in Requests
  PROVE  /\ \A k \in 1 .. Count(r) : PartAt(r, k)
         /\ EndAt(r)
         /\ \A k \in 1 .. Count(r) + 1 : \A j \in 1 .. Len(Boundary) :
              Body(r)[Start(r, k) + j] = Boundary[j]
<1> DEFINE N == Count(r)
           h == Len(Boundary)
           L == Lead(r, N)
           b == Body(r)
<1>1. N \in Nat /\ r.parts \in [1 .. N -> Part] /\ h \in Nat
  BY LeadsAreTexts, SymbolsAreTexts
<1>2. \A i \in 0 .. N : Lead(r, i) \in Text /\ Len(Lead(r, i)) \in Nat
  BY LeadsAreTexts DEF Text
<1> HIDE DEF h
<1>3. L \in Text /\ Len(L) \in Nat /\ Start(r, N + 1) = Len(L)
  <2>1. N \in 0 .. N /\ (N + 1) - 1 = N
    BY <1>1
  <2> QED
    BY <1>2, <2>1 DEF Start
<1> HIDE DEF N, L
<1>4. /\ b \in Text /\ Len(b) = Len(L) + h + 4
      /\ \A i \in 1 .. Len(L) : b[i] = L[i]
      /\ \A j \in 1 .. h : b[Len(L) + j] = Boundary[j]
      /\ b[Len(L) + h + 1] = Dash /\ b[Len(L) + h + 2] = Dash
      /\ b[Len(L) + h + 3] = CR /\ b[Len(L) + h + 4] = LF
  <2> DEFINE q == <<Dash, Dash>>
             e == EndBoundary
             Le == L \o e
  <2>1. q \in Text /\ Len(q) = 2 /\ q[1] = Dash /\ q[2] = Dash
    BY SymbolsAreTexts
  <2> HIDE DEF q
  <2>2. Boundary \in Text /\ e = Boundary \o q
    BY SymbolsAreTexts DEF EndBoundary, q
  <2>3. /\ e \in Text /\ Len(e) = h + 2
        /\ \A j \in 1 .. h : e[j] = Boundary[j]
        /\ \A j \in 1 .. 2 : e[h + j] = q[j]
    <3>1. /\ Boundary \o q \in Text /\ Len(Boundary \o q) = Len(Boundary) + Len(q)
          /\ \A j \in 1 .. Len(Boundary) : (Boundary \o q)[j] = Boundary[j]
          /\ \A j \in 1 .. Len(q) : (Boundary \o q)[Len(Boundary) + j] = q[j]
      BY <2>1, <2>2, ConcatText
    <3> HIDE DEF e
    <3> QED
      BY <2>1, <2>2, <3>1 DEF h
  <2> HIDE DEF e
  <2>4. /\ Le \in Text /\ Len(Le) = Len(L) + (h + 2)
        /\ \A i \in 1 .. Len(L) : Le[i] = L[i]
        /\ \A j \in 1 .. h + 2 : Le[Len(L) + j] = e[j]
    <3>1. /\ Le \in Text /\ Len(Le) = Len(L) + Len(e)
          /\ \A i \in 1 .. Len(L) : Le[i] = L[i]
          /\ \A j \in 1 .. Len(e) : Le[Len(L) + j] = e[j]
      BY <1>3, <2>3, ConcatText
    <3> HIDE DEF Le
    <3> QED
      BY <2>3, <3>1
  <2> HIDE DEF Le
  <2> DEFINE n == Len(L) + (h + 2)
  <2>5. b = Le \o CRLF
    BY LeadsAreTexts DEF Le, e, L, N
  <2>6. n \in Nat
    BY <1>1, <1>3
  <2>7. /\ b \in Text /\ Len(b) = n + 2
        /\ \A i \in 1 .. n : b[i] = Le[i]
        /\ b[n + 1] = CR /\ b[n + 2] = LF
    BY <2>4, <2>5, <2>6, LineEndAdded
  <2> HIDE DEF b
  <2>8. ASSUME NEW j \in 1 .. h + 2 PROVE b[Len(L) + j] = e[j]
    <3>1. Len(L) + j \in 1 .. n
      BY <1>1, <1>3
    <3> QED
      BY <2>4, <2>7, <3>1
  <2>9. \A j \in 1 .. h : b[Len(L) + j] = Boundary[j]
    BY <1>1, <2>3, <2>8
  <2>10. b[Len(L) + (h + 1)] = Dash /\ b[Len(L) + (h + 2)] = Dash
    <3>1. h + 1 \in 1 .. h + 2 /\ h + 2 \in 1 .. h + 2
      BY <1>1
    <3>2. e[h + 1] = Dash /\ e[h + 2] = Dash
      BY <2>1, <2>3
    <3> QED
      BY <2>8, <3>1, <3>2
  <2>11. /\ Len(L) + h + 1 = Len(L) + (h + 1) /\ Len(L) + h + 2 = Len(L) + (h + 2)
         /\ Len(L) + h + 3 = n + 1 /\ Len(L) + h + 4 = n + 2
    BY <1>1, <1>3
  <2>12. \A i \in 1 .. Len(L) : i \in 1 .. n
    BY <1>1, <1>3
  <2>13. \A i \in 1 .. Len(L) : b[i] = L[i]
    BY <2>4, <2>7, <2>12
  <2> QED
    BY <2>7, <2>9, <2>10, <2>11, <2>13
<1> HIDE DEF b
<1>5. EndAt(r)
  BY <1>3, <1>4 DEF EndAt, Header, h, b, N
<1>6. ASSUME NEW k \in 1 .. N
      PROVE  \A j \in 1 .. Len(PartText(r.parts[k])) :
               b[Start(r, k) + j] = PartText(r.parts[k])[j]
  <2> DEFINE t == PartText(r.parts[k])
             s == Lead(r, k - 1)
  <2>1. k - 1 \in 0 .. N - 1 /\ k - 1 \in 0 .. N /\ (k - 1) + 1 = k /\ k \in 0 .. N /\ N \in k .. N
    BY <1>1
  <2>2. Lead(r, k) = s \o t
    BY <2>1, LeadsAreTexts DEF N
  <2>3. t \in Text /\ s \in Text /\ Len(s) \in Nat
    BY <1>1, <1>2, <2>1, PartTextShape
  <2>4. Start(r, k) = Len(s)
    BY DEF Start
  <2>5. /\ Len(Lead(r, k)) \in Nat /\ Len(Lead(r, k)) <= Len(L)
        /\ \A i \in 1 .. Len(Lead(r, k)) : L[i] = Lead(r, k)[i]
    BY <2>1, LeadsGrow DEF N, L
  <2> HIDE DEF t, s
  <2>6. /\ Len(Lead(r, k)) = Len(s) + Len(t)
        /\ \A j \in 1 .. Len(t) : Lead(r, k)[Len(s) + j] = t[j]
    BY <2>2, <2>3, ConcatText
  <2>7. Len(t) \in Nat
    BY <2>3 DEF Text
  <2>8. ASSUME NEW j \in 1 .. Len(t) PROVE b[Len(s) + j] = t[j]
    <3>1. Len(s) + j \in 1 .. Len(Lead(r, k)) /\ Len(s) + j \in 1 .. Len(L)
      BY <1>3, <2>3, <2>5, <2>6, <2>7
    <3> QED
      BY <1>4, <2>5, <2>6, <3>1
  <2> QED
    BY <2>4, <2>8 DEF t
<1>7. ASSUME NEW k \in 1 .. N
      PROVE  PartAt(r, k) /\ \A j \in 1 .. h : b[Start(r, k) + j] = Boundary[j]
  <2> DEFINE t == PartText(r.parts[k])
             d == Len(r.parts[k].data)
             s == Start(r, k)
  <2>1. r.parts[k] \in Part
    BY <1>1
  <2>2. /\ d \in Nat /\ Len(t) = h + 9 + d
        /\ \A j \in 1 .. h : t[j] = Boundary[j]
        /\ t[h + 1] = CR /\ t[h + 2] = LF /\ t[h + 3] = r.parts[k].name
        /\ t[h + 4] = CR /\ t[h + 5] = LF /\ t[h + 6] = CR /\ t[h + 7] = LF
        /\ \A j \in 1 .. d : t[h + 7 + j] = r.parts[k].data[j]
        /\ t[h + 7 + d + 1] = CR /\ t[h + 7 + d + 2] = LF
    BY <2>1, PartTextShape DEF h
  <2>3. s \in Nat
    BY <1>1, StartsOfParts DEF Starts, N
  <2>4. \A j \in 1 .. Len(t) : b[s + j] = t[j]
    BY <1>6
  <2> HIDE DEF t, d, s
  <2>5. ASSUME NEW j \in 1 .. h + 9 + d PROVE b[s + j] = t[j]
    BY <2>2, <2>4
  <2>6. /\ h + 1 \in 1 .. h + 9 + d /\ h + 2 \in 1 .. h + 9 + d /\ h + 3 \in 1 .. h + 9 + d
        /\ h + 4 \in 1 .. h + 9 + d /\ h + 5 \in 1 .. h + 9 + d /\ h + 6 \in 1 .. h + 9 + d
        /\ h + 7 \in 1 .. h + 9 + d /\ h + 7 + d + 1 \in 1 .. h + 9 + d
        /\ h + 7 + d + 2 \in 1 .. h + 9 + d
        /\ \A j \in 1 .. h : j \in 1 .. h + 9 + d
        /\ \A j \in 1 .. d : h + 7 + j \in 1 .. h + 9 + d
    BY <1>1, <2>2
  <2>7. /\ b[s + (h + 1)] = CR /\ b[s + (h + 2)] = LF /\ b[s + (h + 3)] = r.parts[k].name
        /\ b[s + (h + 4)] = CR /\ b[s + (h + 5)] = LF /\ b[s + (h + 6)] = CR /\ b[s + (h + 7)] = LF
        /\ b[s + (h + 7 + d + 1)] = CR /\ b[s + (h + 7 + d + 2)] = LF
    BY <2>2, <2>5, <2>6
  <2>8. \A j \in 1 .. d : b[s + (h + 7 + j)] = r.parts[k].data[j]
    BY <2>2, <2>5, <2>6
  <2>9. \A j \in 1 .. h : b[s + j] = Boundary[j]
    BY <2>2, <2>5, <2>6
  <2>10. /\ s + (h + 1) = s + h + 1 /\ s + (h + 2) = s + h + 2 /\ s + (h + 3) = s + h + 3
         /\ s + (h + 4) = s + h + 4 /\ s + (h + 5) = s + h + 5 /\ s + (h + 6) = s + h + 6
         /\ s + (h + 7) = s + h + 7
         /\ s + (h + 7 + d + 1) = s + h + 7 + d + 1 /\ s + (h + 7 + d + 2) = s + h + 7 + d + 2
         /\ \A j \in 1 .. d : s + (h + 7 + j) = s + h + 7 + j
    BY <1>1, <2>2, <2>3
  <2>11. /\ b[s + h + 1] = CR /\ b[s + h + 2] = LF /\ b[s + h + 3] = r.parts[k].name
         /\ b[s + h + 4] = CR /\ b[s + h + 5] = LF /\ b[s + h + 6] = CR /\ b[s + h + 7] = LF
         /\ b[s + h + 7 + d + 1] = CR /\ b[s + h + 7 + d + 2] = LF
         /\ \A j \in 1 .. d : b[s + h + 7 + j] = r.parts[k].data[j]
    BY <2>7, <2>8, <2>10
  <2> QED
    BY <2>9, <2>11 DEF PartAt, Header, b, s, h, d
<1>8. ASSUME NEW k \in 1 .. N + 1
      PROVE  \A j \in 1 .. h : b[Start(r, k) + j] = Boundary[j]
  <2>1. CASE k \in 1 .. N
    BY <1>7, <2>1
  <2>2. CASE k = N + 1
    BY <1>3, <1>4, <2>2
  <2> QED
    BY <1>1, <2>1, <2>2
<1> QED
  BY <1>5, <1>7, <1>8 DEF N, h, b

\* The boundary occurs where the parts and the end start, and nowhere else.
LEMMA BoundariesInBody ==
  ASSUME NEW r \in Requests
  PROVE  Occurrences(Boundary, Body(r)) = {Start(r, k) + 1 : k \in 1 .. Count(r) + 1}
<1> DEFINE N == Count(r)
           h == Len(Boundary)
           b == Body(r)
           O == Occurrences(Boundary, b)
           f == [k \in 1 .. N + 1 |-> Start(r, k) + 1]
<1>1. N \in Nat /\ h \in Nat \ {0} /\ Starts(r) /\ EndAt(r)
  BY LeadsAreTexts, SymbolsAreTexts, StartsOfParts, PartsInBody
<1>2. b \in Text /\ Len(b) = Start(r, N + 1) + h + 4 /\ \A k \in 1 .. N + 1 : Start(r, k) \in Nat
  BY <1>1 DEF EndAt, Header, Starts
<1>3. ASSUME NEW k \in 1 .. N + 1 PROVE f[k] \in O
  <2>1. Start(r, k) <= Start(r, N + 1) /\ Start(r, k) \in Nat /\ Start(r, N + 1) \in Nat
    <3>1. k = N + 1 \/ k < N + 1
      BY <1>1
    <3>2. N + 1 \in 1 .. N + 1
      BY <1>1
    <3>3. k < N + 1 => Start(r, k) + h + 9 <= Start(r, N + 1)
      BY <1>1, <3>2 DEF Starts
    <3> QED
      BY <1>1, <1>2, <3>1, <3>2, <3>3
  <2> DEFINE i == Start(r, k) + 1
  <2>2. i \in Nat \ {0} /\ i - 1 = Start(r, k) /\ i + h - 1 <= Len(b)
    <3> DEFINE s == Start(r, k)
               e == Start(r, N + 1)
               l == Len(b)
    <3>1. s \in Nat /\ e \in Nat /\ s <= e /\ l = e + h + 4 /\ i = s + 1
      BY <1>2, <2>1
    <3> HIDE DEF s, e, l, h, i
    <3>2. i \in Nat \ {0} /\ i - 1 = s /\ i + h - 1 <= l
      BY <1>1, <3>1
    <3> QED
      BY <3>2 DEF s, l
  <2>3. \A j \in 1 .. h : b[(i - 1) + j] = Boundary[j]
    BY <2>2, PartsInBody
  <2>4. Boundary \in Text /\ Boundary # <<>>
    BY SymbolsAreTexts
  <2>5. f[k] = i
    OBVIOUS
  <2> HIDE DEF i, b, f
  <2>6. i \in Occurrences(Boundary, b)
    BY <1>2, <2>2, <2>3, <2>4, OccursAt
  <2> QED
    BY <2>5, <2>6
<1>4. ASSUME NEW j \in 1 .. N + 1, NEW k \in 1 .. N + 1, f[j] = f[k]
      PROVE  j = k
  <2>1. \A m, n \in 1 .. N + 1 : m < n => Start(r, m) + h + 9 <= Start(r, n)
    BY <1>1 DEF Starts
  <2>2. Start(r, j) = Start(r, k)
    BY <1>2, <1>4
  <2> QED
    BY <1>1, <1>2, <2>1, <2>2
<1>5. IsFiniteSet(O)
  <2>1. O \subseteq 1 .. Len(b) + 1 - h
    BY DEF Occurrences
  <2>2. IsFiniteSet(1 .. Len(b) + 1 - h)
    <3>1. Len(b) \in Nat
      BY <1>2 DEF Text
    <3>2. Len(b) + 1 - h \in Int
      BY <1>1, <3>1
    <3> QED
      BY <3>2, FS_Interval
  <2> HIDE DEF O
  <2> QED
    BY <2>1, <2>2, FS_Subset
<1>6. Cardinality(O) = N + 1
  BY RequestsAssumption DEF Count
<1>7. Cardinality(1 .. N + 1) = N + 1
  <2>1. 1 \in Int /\ N + 1 \in Int /\ ~(1 > N + 1) /\ (N + 1) - 1 + 1 = N + 1
    BY <1>1
  <2> HIDE DEF N
  <2> QED
    BY <2>1, FS_Interval
<1> HIDE DEF O
<1>8. f \in Injection(1 .. N + 1, O)
  <2>1. f \in [1 .. N + 1 -> O]
    BY <1>3
  <2>2. IsInjective(f)
    BY <1>4 DEF IsInjective
  <2> QED
    BY <2>1, <1>4 DEF Injection, IsInjective
<1>9. f \in Surjection(1 .. N + 1, O)
  <2> HIDE DEF f
  <2> QED
    BY <1>5, <1>6, <1>7, <1>8, FS_Injection
<1>10. \A o \in O : \E k \in 1 .. N + 1 : f[k] = o
  BY <1>9 DEF Surjection
<1> QED
  BY <1>3, <1>10 DEF O

(***************************************************************************)
(* 4. What of a body is seen from symbol c + 1 to symbol e.                *)
(***************************************************************************)

\* Boundaries that are seen: the next one, as soon as all of it is there.
LEMMA BoundarySeen ==
  ASSUME NEW r \in Requests, NEW k \in 1 .. Count(r) + 1, NEW c \in Nat, NEW e \in Nat,
         c <= e, e <= Len(Body(r)), c <= Start(r, k), k > 1 => Start(r, k - 1) < c
  PROVE  LET w == SubSeq(Body(r), c + 1, e)
         IN  /\ Occurrences(Boundary, w) # {} <=> Header(r, k) <= e
             /\ Header(r, k) <= e => Before(Boundary, w) = Start(r, k) - c
<1> DEFINE N == Count(r)
           h == Len(Boundary)
           b == Body(r)
           w == SubSeq(b, c + 1, e)
           s == Start(r, k)
           m == (s - c) + 1
           O == Occurrences(Boundary, w)
<1>1. /\ N \in Nat /\ h \in Nat \ {0} /\ Starts(r) /\ b \in Text
      /\ Boundary \in Text /\ Boundary # <<>> /\ e <= Len(b)
  BY LeadsAreTexts, SymbolsAreTexts, StartsOfParts, PartsInBody DEF EndAt
<1>2. s \in Nat /\ m \in Nat \ {0} /\ c + m = s + 1 /\ m - 1 = s - c
  BY <1>1 DEF Starts
<1>3. w \in Text
  BY <1>1, Window
<1>4. \A i \in Nat \ {0} : i \in O <=> c + i \in Occurrences(Boundary, b) /\ c + i + h - 1 <= e
  <2> HIDE DEF b
  <2> QED
    BY <1>1, WindowOccurrences
<1>5. Occurrences(Boundary, b) = {Start(r, j) + 1 : j \in 1 .. N + 1}
  BY BoundariesInBody
<1>6. \A j \in 1 .. N + 1 : Start(r, j) \in Nat /\ (Start(r, j) < c \/ Start(r, j) >= s)
  <2>1. ASSUME NEW j \in 1 .. N + 1
        PROVE  Start(r, j) \in Nat /\ (Start(r, j) < c \/ Start(r, j) >= s)
    <3>1. \A i, l \in 1 .. N + 1 : i < l => Start(r, i) + h + 9 <= Start(r, l)
      BY <1>1 DEF Starts
    <3>2. \A i \in 1 .. N + 1 : Start(r, i) \in Nat
      BY <1>1 DEF Starts
    <3>3. j < k - 1 \/ j = k - 1 \/ j = k \/ j > k
      BY <1>1
    <3>4. CASE j < k - 1
      <4>1. k - 1 \in 1 .. N + 1 /\ k > 1
        BY <1>1, <3>4
      <4>2. Start(r, j) + h + 9 <= Start(r, k - 1) /\ Start(r, k - 1) < c
        BY <3>1, <3>4, <4>1
      <4>3. Start(r, j) \in Nat /\ Start(r, k - 1) \in Nat
        BY <3>2, <4>1
      <4> QED
        BY <1>1, <4>2, <4>3
    <3>5. CASE j = k - 1
      BY <3>2, <3>5
    <3>6. CASE j = k
      BY <1>2, <3>6
    <3>7. CASE j > k
      <4>1. s + h + 9 <= Start(r, j) /\ Start(r, j) \in Nat
        BY <3>1, <3>2, <3>7
      <4> HIDE DEF s
      <4> QED
        BY <1>1, <1>2, <4>1
    <3> QED
      BY <3>3, <3>4, <3>5, <3>6, <3>7
  <2> QED
    BY <2>1
<1> HIDE DEF N, h, b, w, O
<1>7. ASSUME NEW i \in Nat \ {0}, i \in O
      PROVE  m <= i /\ s + h <= e
  <2>1. PICK j \in 1 .. N + 1 : c + i = Start(r, j) + 1
    BY <1>4, <1>5, <1>7
  <2>2. c + i + h - 1 <= e
    BY <1>4, <1>7
  <2> DEFINE t == Start(r, j)
  <2>3. t \in Nat /\ (t < c \/ t >= s) /\ c + i = t + 1
    BY <1>6, <2>1
  <2> HIDE DEF t, s, m
  <2>4. t >= s
    BY <2>3
  <2> QED
    BY <1>1, <1>2, <2>2, <2>3, <2>4
<1>8. ASSUME s + h <= e
      PROVE  m \in O
  <2>1. c + m \in Occurrences(Boundary, b)
    <3>1. k \in 1 .. N + 1
      BY DEF N
    <3> QED
      BY <1>2, <1>5, <3>1
  <2>2. c + m + h - 1 <= e
    <3> HIDE DEF s, m
    <3> QED
      BY <1>1, <1>2, <1>8
  <2> QED
    BY <1>2, <1>4, <2>1, <2>2
<1>9. O \subseteq Nat \ {0}
  BY <1>1, <1>3, FirstOccurrence DEF O
<1>10. ASSUME s + h <= e PROVE Before(Boundary, w) = m - 1
  <2>1. m \in O /\ \A i \in O : m <= i
    BY <1>7, <1>8, <1>9, <1>10
  <2> HIDE DEF m
  <2> QED
    BY <1>1, <1>3, <2>1, FirstOccurrence DEF O
<1>11. O # {} <=> s + h <= e
  BY <1>7, <1>8, <1>9
<1> QED
  BY <1>2, <1>10, <1>11 DEF Header, O, w, b, h, s

\* After the end no boundary is seen.
LEMMA NoBoundarySeen ==
  ASSUME NEW r \in Requests, NEW c \in Nat, NEW e \in Nat,
         c <= e, e <= Len(Body(r)), Start(r, Count(r) + 1) < c
  PROVE  Occurrences(Boundary, SubSeq(Body(r), c + 1, e)) = {}
<1> DEFINE N == Count(r)
           h == Len(Boundary)
           b == Body(r)
           w == SubSeq(b, c + 1, e)
           O == Occurrences(Boundary, w)
<1>1. /\ N \in Nat /\ h \in Nat \ {0} /\ Starts(r) /\ b \in Text
      /\ Boundary \in Text /\ Boundary # <<>> /\ e <= Len(b)
  BY LeadsAreTexts, SymbolsAreTexts, StartsOfParts, PartsInBody DEF EndAt
<1>2. w \in Text
  BY <1>1, Window
<1>3. O \subseteq Nat \ {0}
  <2> HIDE DEF w
  <2> QED
    BY <1>1, <1>2, FirstOccurrence
<1>4. ASSUME NEW i \in O PROVE FALSE
  <2>1. i \in Nat \ {0}
    BY <1>3
  <2>2. c + i \in Occurrences(Boundary, b)
    <3> HIDE DEF b
    <3> QED
      BY <1>1, <1>4, <2>1, WindowOccurrences
  <2>3. PICK j \in 1 .. N + 1 : c + i = Start(r, j) + 1
    BY <2>2, BoundariesInBody
  <2> DEFINE t == Start(r, j)
             l == Start(r, N + 1)
  <2>4. t \in Nat /\ l \in Nat /\ c + i = t + 1 /\ l < c /\ t <= l
    <3>1. t \in Nat /\ l \in Nat /\ c + i = t + 1 /\ l < c
      BY <1>1, <2>3 DEF Starts
    <3>2. j = N + 1 \/ (j < N + 1 /\ t + h + 9 <= l)
      BY <1>1 DEF Starts
    <3> HIDE DEF t, l, h, N
    <3>3. j < N + 1 => t <= l
      BY <1>1, <3>1, <3>2
    <3> QED
      BY <3>1, <3>2, <3>3 DEF t, l
  <2> HIDE DEF t, l
  <2> QED
    BY <2>1, <2>4
<1> QED
  BY <1>4

\* Two line ends that are seen are four symbols.
LEMMA LineEndsSeen ==
  ASSUME NEW b \in Text, NEW c \in Nat, NEW e \in Nat, c <= e, e <= Len(b), NEW i \in Nat \ {0}
  PROVE  i \in Occurrences(CRLF \o CRLF, SubSeq(b, c + 1, e)) <=>
           /\ c + i + 3 <= e
           /\ b[c + i] = CR /\ b[c + i + 1] = LF /\ b[c + i + 2] = CR /\ b[c + i + 3] = LF
<1> DEFINE p == <<CR, LF, CR, LF>>
           w == SubSeq(b, c + 1, e)
<1>1. /\ CRLF \o CRLF = p /\ p \in Text /\ Len(p) = 4 /\ p # <<>>
      /\ p[1] = CR /\ p[2] = LF /\ p[3] = CR /\ p[4] = LF
  BY SymbolsAreTexts
<1>2. w \in Text /\ Len(w) = e - c /\ \A j \in 1 .. e - c : w[j] = b[c + j]
  BY Window
<1> HIDE DEF p, w
<1>3. i \in Occurrences(p, w) <=>
        i + 4 - 1 <= e - c /\ \A j \in 1 .. 4 : w[(i - 1) + j] = p[j]
  <2>1. i \in Occurrences(p, w) <=>
          i + Len(p) - 1 <= Len(w) /\ \A j \in 1 .. Len(p) : w[(i - 1) + j] = p[j]
    BY <1>1, <1>2, OccursAt
  <2> QED
    BY <1>1, <1>2, <2>1
<1>4. (\A j \in 1 .. 4 : w[(i - 1) + j] = p[j]) <=>
        w[i] = CR /\ w[i + 1] = LF /\ w[i + 2] = CR /\ w[i + 3] = LF
  <2>1. (i - 1) + 1 = i /\ (i - 1) + 2 = i + 1 /\ (i - 1) + 3 = i + 2 /\ (i - 1) + 4 = i + 3
    OBVIOUS
  <2>2. \A j \in 1 .. 4 : j = 1 \/ j = 2 \/ j = 3 \/ j = 4
    OBVIOUS
  <2>3. 1 \in 1 .. 4 /\ 2 \in 1 .. 4 /\ 3 \in 1 .. 4 /\ 4 \in 1 .. 4
    OBVIOUS
  <2>4. (\A j \in 1 .. 4 : w[(i - 1) + j] = p[j]) <=>
          w[(i - 1) + 1] = p[1] /\ w[(i - 1) + 2] = p[2] /\ w[(i - 1) + 3] = p[3] /\ w[(i - 1) + 4] = p[4]
    BY <2>2, <2>3
  <2> QED
    BY <1>1, <2>1, <2>4
<1>5. i + 4 - 1 <= e - c <=> c + i + 3 <= e
  OBVIOUS
<1>6. ASSUME c + i + 3 <= e
      PROVE  /\ w[i] = b[c + i] /\ w[i + 1] = b[c + i + 1]
             /\ w[i + 2] = b[c + i + 2] /\ w[i + 3] = b[c + i + 3]
  <2>1. /\ i \in 1 .. e - c /\ i + 1 \in 1 .. e - c /\ i + 2 \in 1 .. e - c /\ i + 3 \in 1 .. e - c
        /\ c + (i + 1) = c + i + 1 /\ c + (i + 2) = c + i + 2 /\ c + (i + 3) = c + i + 3
    BY <1>6
  <2>2. /\ w[i] = b[c + i] /\ w[i + 1] = b[c + (i + 1)]
        /\ w[i + 2] = b[c + (i + 2)] /\ w[i + 3] = b[c + (i + 3)]
    BY <1>2, <2>1
  <2> QED
    BY <2>1, <2>2
<1>7. i \in Occurrences(p, w) <=>
        /\ c + i + 3 <= e
        /\ b[c + i] = CR /\ b[c + i + 1] = LF /\ b[c + i + 2] = CR /\ b[c + i + 3] = LF
  BY <1>3, <1>4, <1>5, <1>6
<1> QED
  BY <1>1, <1>7 DEF w

\* The headers of a part are seen as soon as they are complete.
SeesHeaders(r, k, c, e) ==
  LET w == SubSeq(Body(r), c + 1, e)
      m == Header(r, k) + 3 - c
  IN  /\ Occurrences(CRLF \o CRLF, w) # {} <=> Data(r, k) <= e
      /\ Data(r, k) <= e =>
           /\ Before(CRLF \o CRLF, w) = m
           /\ \A i \in 1 .. m : w[i] \in Names <=> i = m /\ r.parts[k].name # None
           /\ w[m] = r.parts[k].name

\* They are, once the boundary before them was consumed.
LEMMA HeadersSeen ==
  ASSUME NEW r \in Requests, NEW k \in 1 .. Count(r), NEW c \in Nat, NEW e \in Nat,
         c <= e, e <= Len(Body(r)), Header(r, k) <= c, c <= Header(r, k) + 2
  PROVE  SeesHeaders(r, k, c, e)
<1> DEFINE b == Body(r)
           p == CRLF \o CRLF
           w == SubSeq(b, c + 1, e)
           t == Header(r, k)
           m == (t + 4) - c
           name == r.parts[k].name
           O == Occurrences(p, w)
<1>1. b \in Text /\ p \in Text /\ p # <<>> /\ e <= Len(b) /\ t \in Nat
  <2>1. k \in 1 .. Count(r) + 1
    BY LeadsAreTexts
  <2>2. Start(r, k) \in Nat /\ Len(Boundary) \in Nat
    BY <2>1, StartsOfParts, SymbolsAreTexts DEF Starts
  <2>3. p = <<CR, LF, CR, LF>> /\ p \in Text
    BY SymbolsAreTexts
  <2> HIDE DEF p
  <2> QED
    BY <2>2, <2>3, PartsInBody DEF EndAt, Header
<1>2. name \in Names \cup {None} /\ name # CR /\ name # LF
  <2>1. r.parts[k] \in Part
    BY LeadsAreTexts
  <2> QED
    BY <2>1, SymbolsAssumption DEF Part
<1>3. /\ b[t + 1] = CR /\ b[t + 2] = LF /\ b[t + 3] = name
      /\ b[t + 4] = CR /\ b[t + 5] = LF /\ b[t + 6] = CR /\ b[t + 7] = LF
  BY PartsInBody DEF PartAt
<1>4. w \in Text /\ Len(w) = e - c /\ \A j \in 1 .. e - c : w[j] = b[c + j]
  BY <1>1, Window
<1>5. m \in Nat \ {0} /\ t + 4 = c + m /\ t <= c /\ c <= t + 2 /\ Data(r, k) = t + 7
  BY <1>1 DEF Data
<1> HIDE DEF b, p, w, t, name, O
<1>6. \A i \in Nat \ {0} :
        i \in O <=> /\ c + i + 3 <= e
                    /\ b[c + i] = CR /\ b[c + i + 1] = LF
                    /\ b[c + i + 2] = CR /\ b[c + i + 3] = LF
  BY <1>1, LineEndsSeen DEF O, w, p
<1>7. O \subseteq Nat \ {0}
  BY <1>1, <1>4, FirstOccurrence DEF O
<1>8. ASSUME NEW i \in O
      PROVE  m <= i /\ t + 7 <= e
  <2>1. /\ i \in Nat \ {0} /\ c + i + 3 <= e
        /\ b[c + i] = CR /\ b[c + i + 2] = CR
    BY <1>6, <1>7
  <2>2. CR # LF
    BY SymbolsAssumption
  <2>3. c + i # t + 1
    <3>1. (t + 1) + 2 = t + 3
      BY <1>1
    <3> QED
      BY <1>2, <1>3, <2>1, <3>1
  <2>4. c + i # t + 2 /\ c + i # t + 3
    BY <1>2, <1>3, <2>1, <2>2
  <2> QED
    BY <1>1, <1>5, <2>1, <2>3, <2>4
<1>9. ASSUME t + 7 <= e PROVE m \in O
  <2>1. c + m + 3 = t + 7 /\ c + m + 1 = t + 5 /\ c + m + 2 = t + 6 /\ c + m = t + 4
    BY <1>1, <1>5
  <2> QED
    BY <1>3, <1>5, <1>6, <1>9, <2>1
<1>10. O # {} <=> t + 7 <= e
  BY <1>8, <1>9
<1>11. ASSUME t + 7 <= e
       PROVE  /\ Before(p, w) = m - 1
              /\ \A i \in 1 .. m - 1 : w[i] \in Names <=> i = m - 1 /\ name # None
              /\ w[m - 1] = name
  <2>1. Before(p, w) = m - 1
    <3>1. m \in O /\ \A i \in O : m <= i
      BY <1>8, <1>9, <1>11
    <3> HIDE DEF m
    <3> QED
      BY <1>1, <1>4, <3>1, FirstOccurrence DEF O
  <2>2. ASSUME NEW i \in 1 .. m - 1
        PROVE  /\ w[i] = b[c + i] /\ (i = m - 1 => c + i = t + 3)
               /\ i # m - 1 => c + i = t + 1 \/ c + i = t + 2
    <3>1. i \in 1 .. e - c
      BY <1>1, <1>5, <1>11
    <3>2. i = m - 1 => c + i = t + 3
      BY <1>1, <1>5
    <3>3. i # m - 1 => c + i = t + 1 \/ c + i = t + 2
      BY <1>1, <1>5
    <3> QED
      BY <1>4, <3>1, <3>2, <3>3
  <2>3. CR \notin Names /\ LF \notin Names /\ None \notin Names
    BY SymbolsAssumption
  <2>4. m - 1 \in 1 .. m - 1
    BY <1>1, <1>5
  <2>5. w[m - 1] = name
    BY <1>3, <2>2, <2>4
  <2>6. \A i \in 1 .. m - 1 : w[i] \in Names <=> i = m - 1 /\ name # None
    BY <1>2, <1>3, <2>2, <2>3
  <2> QED
    BY <2>1, <2>5, <2>6
<1>12. m - 1 = t + 3 - c
  BY <1>1
<1> QED
  BY <1>5, <1>10, <1>11, <1>12 DEF SeesHeaders, O, w, b, t, name, p

\* After the end's boundary no headers are seen.
LEMMA NoHeadersSeen ==
  ASSUME NEW r \in Requests, NEW c \in Nat, NEW e \in Nat,
         c <= e, e <= Len(Body(r)), Header(r, Count(r) + 1) <= c
  PROVE  Occurrences(CRLF \o CRLF, SubSeq(Body(r), c + 1, e)) = {}
<1> DEFINE b == Body(r)
           p == CRLF \o CRLF
           w == SubSeq(b, c + 1, e)
           t == Header(r, Count(r) + 1)
           O == Occurrences(p, w)
<1>1. /\ b \in Text /\ p \in Text /\ p # <<>> /\ e <= Len(b) /\ t \in Nat
      /\ Len(b) = t + 4 /\ b[t + 1] = Dash
  <2>1. Count(r) + 1 \in 1 .. Count(r) + 1
    BY LeadsAreTexts
  <2>2. Start(r, Count(r) + 1) \in Nat /\ Len(Boundary) \in Nat
    BY <2>1, StartsOfParts, SymbolsAreTexts DEF Starts
  <2>3. p = <<CR, LF, CR, LF>> /\ p \in Text
    BY SymbolsAreTexts
  <2> HIDE DEF p
  <2> QED
    BY <2>2, <2>3, PartsInBody DEF EndAt, Header
<1>2. w \in Text
  BY <1>1, Window
<1> HIDE DEF b, p, w, t
<1>3. O \subseteq Nat \ {0}
  BY <1>1, <1>2, FirstOccurrence
<1>4. ASSUME NEW i \in O PROVE FALSE
  <2>1. i \in Nat \ {0} /\ t <= c
    BY <1>3 DEF t
  <2>2. c + i + 3 <= e /\ b[c + i] = CR
    BY <1>1, <1>4, <2>1, LineEndsSeen DEF p, w
  <2>3. c + i = t + 1
    BY <1>1, <2>1, <2>2
  <2>4. CR # Dash
    BY SymbolsAssumption
  <2> QED
    BY <1>1, <2>2, <2>3, <2>4
<1> QED
  BY <1>4 DEF O, w, b, p

(***************************************************************************)
(* 5. The files of a request.                                              *)
(***************************************************************************)

\* Part k is a file that can be opened; the ones of the first m parts.
Opens(r, k)  == r.parts[k].name \in Names \ r.broken
Opened(r, m) == FlattenSeq([i \in 1 .. m |-> IF Opens(r, i) THEN <<r.parts[i]>> ELSE <<>>])

\* They are found one after the other.
LEMMA OpenedGrows ==
  ASSUME NEW r \in Requests
  PROVE  /\ Opened(r, 0) = <<>>
         /\ OpenedParts(r) = Opened(r, Count(r))
         /\ \A m \in 0 .. Count(r) : Opened(r, m) \in Seq(Part)
         /\ \A m \in 0 .. Count(r) - 1 :
              Opened(r, m + 1) = IF Opens(r, m + 1) THEN Append(Opened(r, m), r.parts[m + 1])
                                                    ELSE Opened(r, m)
<1> DEFINE N == Count(r)
           One(i) == IF Opens(r, i) THEN <<r.parts[i]>> ELSE <<>>
<1>1. N \in Nat /\ r.parts \in [1 .. N -> Part]
  BY LeadsAreTexts
<1>2. Opened(r, 0) = <<>> /\ Opened(r, 0) \in Seq(Part)
  <2>1. [i \in 1 .. 0 |-> One(i)] = <<>> /\ Len(<<>>) = 0
    OBVIOUS
  <2> QED
    BY <2>1 DEF Opened, FlattenSeq
<1>3. OpenedParts(r) = Opened(r, N)
  <2>1. DOMAIN r.parts = 1 .. N
    BY <1>1
  <2> QED
    BY <2>1 DEF OpenedParts, Opened, Opens
<1> HIDE DEF N
<1>4. ASSUME NEW m \in 0 .. N - 1
      PROVE  /\ Opened(r, m) \in Seq(Part) /\ Opened(r, m + 1) \in Seq(Part)
             /\ Opened(r, m + 1) = IF Opens(r, m + 1) THEN Append(Opened(r, m), r.parts[m + 1])
                                                      ELSE Opened(r, m)
  <2> DEFINE f == [i \in 1 .. m + 1 |-> One(i)]
  <2>1. m \in Nat /\ m + 1 \in 1 .. m + 1 /\ \A i \in 1 .. m + 1 : i \in 1 .. N
    BY <1>1
  <2>2. \A i \in 1 .. m + 1 : One(i) \in Seq(Part)
    BY <1>1, <2>1
  <2>3. f \in [1 .. m + 1 -> Seq(Part)] /\ f[m + 1] = One(m + 1)
    BY <2>1, <2>2
  <2>4. [i \in 1 .. m |-> f[i]] = [i \in 1 .. m |-> One(i)]
    BY <2>1
  <2> HIDE DEF f
  <2>5. /\ FlattenSeq([i \in 1 .. m |-> f[i]]) \in Seq(Part)
        /\ FlattenSeq(f) = FlattenSeq([i \in 1 .. m |-> f[i]]) \o f[m + 1]
    BY <2>1, <2>3, FlattenOneMore
  <2>6. FlattenSeq([i \in 1 .. m |-> f[i]]) = Opened(r, m) /\ FlattenSeq(f) = Opened(r, m + 1)
    BY <2>4 DEF Opened, f
  <2>7. Opened(r, m) \in Seq(Part) /\ Opened(r, m + 1) = Opened(r, m) \o One(m + 1)
    BY <2>3, <2>5, <2>6
  <2>8. r.parts[m + 1] \in Part
    BY <1>1, <2>1
  <2> DEFINE o == Opened(r, m)
             q == Opened(r, m + 1)
             x == r.parts[m + 1]
  <2> HIDE DEF o, q, x
  <2>9. q \in Seq(Part) /\ q = IF Opens(r, m + 1) THEN Append(o, x) ELSE o
    <3>1. o \in Seq(Part) /\ x \in Part /\ q = o \o (IF Opens(r, m + 1) THEN <<x>> ELSE <<>>)
      BY <2>7, <2>8 DEF o, x, q
    <3>2. o \o <<x>> = Append(o, x) /\ o \o <<>> = o /\ Append(o, x) \in Seq(Part)
      BY <3>1, ConcatEmptySeq, AppendIsConcat, AppendProperties
    <3> QED
      BY <3>1, <3>2
  <2> QED
    BY <2>7, <2>9 DEF o, q, x
<1>5. ASSUME NEW m \in 0 .. N
      PROVE  Opened(r, m) \in Seq(Part)
  <2>1. CASE m < N
    BY <1>1, <1>4, <2>1
  <2>2. CASE m = N /\ m = 0
    BY <1>2, <2>2
  <2>3. CASE m = N /\ m > 0
    <3>1. m - 1 \in 0 .. N - 1 /\ (m - 1) + 1 = m
      BY <1>1, <2>3
    <3>2. Opened(r, (m - 1) + 1) \in Seq(Part)
      BY <1>4, <3>1
    <3> QED
      BY <3>1, <3>2
  <2> QED
    BY <1>1, <2>1, <2>2, <2>3
<1> QED
  BY <1>2, <1>3, <1>4, <1>5 DEF N

\* They are parts, in their order.
LEMMA OpenedAreParts ==
  ASSUME NEW r \in Requests, NEW m \in 0 .. Count(r), NEW i \in 1 .. Len(Opened(r, m))
  PROVE  \E j \in 1 .. m : Opened(r, m)[i] = r.parts[j] /\ Opens(r, j)
<1> DEFINE N == Count(r)
           P(n) == \A l \in 1 .. Len(Opened(r, n)) :
                     \E j \in 1 .. n : Opened(r, n)[l] = r.parts[j] /\ Opens(r, j)
           T == {n \in 0 .. N : P(n)}
<1>1. N \in Nat
  BY LeadsAreTexts
<1>2. 0 \in T
  BY <1>1, OpenedGrows
<1>3. ASSUME NEW n \in 0 .. N - 1, n \in T
      PROVE  n + 1 \in T
  <2> DEFINE o == Opened(r, n)
             q == Opened(r, n + 1)
  <2>1. n \in 0 .. N /\ n + 1 \in 0 .. N /\ n + 1 \in 1 .. n + 1 /\ \A j \in 1 .. n : j \in 1 .. n + 1
    BY <1>1
  <2>2. o \in Seq(Part) /\ q = IF Opens(r, n + 1) THEN Append(o, r.parts[n + 1]) ELSE o
    BY <2>1, OpenedGrows
  <2>3. \A l \in 1 .. Len(o) : \E j \in 1 .. n : o[l] = r.parts[j] /\ Opens(r, j)
    BY <1>3
  <2> HIDE DEF o, q
  <2>4. ASSUME NEW l \in 1 .. Len(q)
        PROVE  \E j \in 1 .. n + 1 : q[l] = r.parts[j] /\ Opens(r, j)
    <3>1. CASE l \in 1 .. Len(o) /\ q[l] = o[l]
      BY <2>1, <2>3, <3>1
    <3>2. CASE Opens(r, n + 1) /\ q[l] = r.parts[n + 1]
      BY <2>1, <3>2
    <3>3. \/ l \in 1 .. Len(o) /\ q[l] = o[l]
          \/ Opens(r, n + 1) /\ q[l] = r.parts[n + 1]
      BY <2>2
    <3> QED
      BY <3>1, <3>2, <3>3
  <2>5. P(n + 1)
    BY <2>4 DEF q
  <2> QED
    BY <2>1, <2>5
<1>4. 0 .. N \subseteq T
  <2> HIDE DEF T
  <2> QED
    BY <1>1, <1>2, <1>3, InductionTo
<1>5. P(m)
  BY <1>4
<1> QED
  BY <1>5

\* The ones of the first parts are the first ones.
LEMMA OpenedArePrefixes ==
  ASSUME NEW r \in Requests, NEW m \in 0 .. Count(r), NEW n \in m .. Count(r)
  PROVE  /\ Len(Opened(r, m)) \in Nat /\ Len(Opened(r, n)) \in Nat
         /\ Len(Opened(r, m)) <= Len(Opened(r, n))
         /\ \A i \in 1 .. Len(Opened(r, m)) : Opened(r, n)[i] = Opened(r, m)[i]
<1> DEFINE N == Count(r)
           Grown(d) == /\ Len(Opened(r, m)) <= Len(Opened(r, m + d))
                       /\ \A i \in 1 .. Len(Opened(r, m)) : Opened(r, m + d)[i] = Opened(r, m)[i]
           T == {d \in 0 .. N - m : Grown(d)}
<1>1. N \in Nat /\ N - m \in Nat
  BY LeadsAreTexts
<1>2. \A i \in 0 .. N : Opened(r, i) \in Seq(Part) /\ Len(Opened(r, i)) \in Nat
  BY OpenedGrows
<1>3. 0 \in T
  BY <1>1, <1>2
<1>4. ASSUME NEW d \in 0 .. (N - m) - 1, d \in T
      PROVE  d + 1 \in T
  <2> DEFINE e == m + d
             s == Opened(r, m)
             o == Opened(r, e)
             q == Opened(r, e + 1)
  <2>1. e \in 0 .. N - 1 /\ m + (d + 1) = e + 1 /\ e \in 0 .. N
    BY <1>1
  <2>2. q = IF Opens(r, e + 1) THEN Append(o, r.parts[e + 1]) ELSE o
    BY <2>1, OpenedGrows
  <2>3. Len(s) <= Len(o) /\ \A i \in 1 .. Len(s) : o[i] = s[i]
    BY <1>4
  <2>4. o \in Seq(Part) /\ s \in Seq(Part)
    BY <1>2, <2>1
  <2> HIDE DEF e, s, o, q
  <2>5. Len(s) <= Len(q) /\ \A i \in 1 .. Len(s) : q[i] = s[i]
    BY <2>2, <2>3, <2>4
  <2>6. Grown(d + 1)
    BY <2>1, <2>5 DEF s, q
  <2> QED
    BY <1>1, <2>6
<1>5. 0 .. N - m \subseteq T
  <2> HIDE DEF T, N
  <2> QED
    BY <1>1, <1>3, <1>4, InductionTo
<1>6. n - m \in 0 .. N - m /\ m + (n - m) = n
  BY <1>1
<1>7. Grown(n - m)
  BY <1>5, <1>6
<1> QED
  BY <1>1, <1>2, <1>6, <1>7

(***************************************************************************)
(* 6. The invariant.                                                       *)
(***************************************************************************)

\* The number of symbols that were consumed: the buffer is what follows them.
cursor == fed - Len(buffer)

BufferInv ==
  /\ fed \in 0 .. Len(Body(request))
  /\ buffer \in Text
  /\ Len(buffer) <= fed
  /\ buffer = SubSeq(Body(request), cursor + 1, fed)

\* The parser is at part k, or (k = Count(request) + 1) at the end.
Where(k) ==
  /\ state = "FindBoundary" =>
       /\ k > 1 => Start(request, k - 1) < cursor
       /\ k <= Count(request) => cursor <= Start(request, k)
  /\ state = "ParseHeaders" =>
       /\ Header(request, k) <= cursor
       /\ k <= Count(request) => cursor <= Header(request, k) + 2
  /\ state \in {"StreamFileData", "BufferFormData"} =>
       /\ k <= Count(request)
       /\ Data(request, k) <= cursor
       /\ cursor + 2 <= Start(request, k + 1)
  /\ state = "StreamFileData" => Opens(request, k)
  /\ state = "BufferFormData" => ~Opens(request, k)

\* The files of the parts before part k are stored, each in a file of its own.
SavedInv(k) ==
  LET o == Opened(request, k - 1)
  IN  /\ Len(saved) = Len(o)
      /\ \A i \in 1 .. Len(saved) :
           /\ disk[saved[i].path] = Base(request) \o o[i].data
           /\ saved[i].size = Len(disk[saved[i].path])
           /\ request.resume = None => saved[i].path[1] = o[i].name
      /\ \A i, j \in 1 .. Len(saved) : saved[i].path = saved[j].path => i = j

\* The file that is open has what was consumed of the data of part k.
FileInv(k) ==
  /\ state = "StreamFileData" =>
       /\ file \in SavedFile
       /\ disk[file.path] = Base(request) \o SubSeq(Body(request), Data(request, k) + 1, cursor)
       /\ file.size = Len(disk[file.path])
       /\ request.resume = None => file.path[1] = request.parts[k].name
       /\ \A i \in 1 .. Len(saved) : saved[i].path # file.path
  /\ state # "StreamFileData" =>
       /\ file = None
       /\ request.resume # None /\ k = 1 => disk = request.disk

\* An iteration would consume nothing.
Drained ==
  IF state = "ParseHeaders" THEN ~HasHeaders ELSE ~HasBoundary /\ Safe = 0

\* The states that were gone through: with EnoughIterations, no call makes more
\* iterations than that before one has nothing to consume.
Rank(k) ==
  3 * (k - 1) + (IF state = "FindBoundary" THEN 0 ELSE IF state = "ParseHeaders" THEN 1 ELSE 2)
RoundsInv(k) ==
  IF phase \in {"feed", "finish"} THEN iterations <= Rank(k) \/ Drained
                                  ELSE iterations = 0 /\ Drained

Types ==
  /\ request \in Requests
  /\ state \in {"FindBoundary", "ParseHeaders", "StreamFileData", "BufferFormData"}
  /\ saved \in Seq(SavedFile)
  /\ disk \in [Paths -> Text \cup {None}]
  /\ phase \in {"wait", "feed", "finish", "close", "done"}
  /\ iterations \in 0 .. MaxIterations - 1

At(k) ==
  /\ Where(k)
  /\ SavedInv(k)
  /\ FileInv(k)
  /\ EnoughIterations => RoundsInv(k)

\* The files of a body that arrived as a whole are stored as a whole.
Done ==
  /\ file = None /\ state # "StreamFileData"
  /\ SizesAreTrue
  /\ EnoughIterations /\ fed = Len(Body(request)) => SavedInv(Count(request) + 1)

ParserInv ==
  /\ Types
  /\ BufferInv
  /\ phase # "done" => \E k \in 1 .. Count(request) + 1 : At(k)
  /\ phase = "done" => Done

\* Where things are, in numbers.
LEMMA Places ==
  ASSUME NEW r \in Requests, NEW k \in 1 .. Count(r)
  PROVE  /\ Count(r) \in Nat /\ k + 1 \in 1 .. Count(r) + 1 /\ k \in 1 .. Count(r) + 1
         /\ Len(Boundary) \in Nat /\ Len(Boundary) > 2
         /\ Start(r, k) \in Nat /\ Start(r, k + 1) \in Nat /\ Len(r.parts[k].data) \in Nat
         /\ Header(r, k) = Start(r, k) + Len(Boundary)
         /\ Header(r, k + 1) = Start(r, k + 1) + Len(Boundary)
         /\ Data(r, k) = Start(r, k) + Len(Boundary) + 7
         /\ Data(r, k) + Len(r.parts[k].data) + 2 = Start(r, k + 1)
<1> DEFINE d == Len(r.parts[k].data)
           h == Len(Boundary)
           s == Start(r, k)
           e == Start(r, k + 1)
<1>1. Count(r) \in Nat /\ h \in Nat /\ h > 2 /\ Starts(r)
  BY LeadsAreTexts, SymbolsAreTexts, StartsOfParts
<1>2. k + 1 \in 1 .. Count(r) + 1 /\ k \in 1 .. Count(r) + 1
  BY <1>1
<1>3. s \in Nat /\ e \in Nat /\ d \in Nat /\ e = s + h + 9 + d
  BY <1>1, <1>2 DEF Starts
<1> HIDE DEF d, h, s, e
<1>4. (s + h + 7) + d + 2 = e
  BY <1>1, <1>3
<1>5. Header(r, k) = s + h /\ Header(r, k + 1) = e + h /\ Data(r, k) = s + h + 7
  BY DEF Header, Data, s, e, h
<1> QED
  BY <1>1, <1>2, <1>3, <1>4, <1>5 DEF d, h, s, e

\* The end of a body.
LEMMA LastPlaces ==
  ASSUME NEW r \in Requests, NEW k \in 1 .. Count(r) + 1
  PROVE  /\ Count(r) \in Nat /\ Count(r) + 1 \in 1 .. Count(r) + 1
         /\ Len(Boundary) \in Nat /\ Len(Boundary) > 2
         /\ Start(r, k) \in Nat /\ Header(r, k) = Start(r, k) + Len(Boundary)
         /\ Start(r, 1) = 0 /\ Start(r, k) <= Start(r, Count(r) + 1)
         /\ Body(r) \in Text /\ Len(Body(r)) = Header(r, Count(r) + 1) + 4
<1> DEFINE N == Count(r)
           s == Start(r, k)
           h == Len(Boundary)
           e == Start(r, N + 1)
<1>1. N \in Nat /\ h \in Nat /\ h > 2 /\ Starts(r) /\ EndAt(r)
  BY LeadsAreTexts, SymbolsAreTexts, StartsOfParts, PartsInBody
<1>2. N + 1 \in 1 .. N + 1
  BY <1>1
<1>3. s \in Nat /\ e \in Nat /\ Start(r, 1) = 0
  BY <1>1, <1>2 DEF Starts
<1>4. s <= e
  <2>1. k = N + 1 \/ k < N + 1
    BY <1>1
  <2>2. k < N + 1 => s + h + 9 <= e
    BY <1>1, <1>2 DEF Starts
  <2> HIDE DEF h, e, N
  <2>3. k < N + 1 => s <= e
    BY <1>1, <1>3, <2>2
  <2>4. k = N + 1 => s = e
    BY DEF e
  <2> QED
    BY <1>3, <2>1, <2>3, <2>4
<1> QED
  BY <1>1, <1>2, <1>3, <1>4 DEF Header, EndAt

\* The data of a part are in the body.
LEMMA DataInBody ==
  ASSUME NEW r \in Requests, NEW k \in 1 .. Count(r)
  PROVE  /\ r.parts[k].data \in Text
         /\ SubSeq(Body(r), Data(r, k) + 1, Data(r, k) + Len(r.parts[k].data)) = r.parts[k].data
         /\ Start(r, k + 1) <= Len(Body(r))
<1> DEFINE d == Len(r.parts[k].data)
           b == Body(r)
           c == Data(r, k)
           w == SubSeq(b, c + 1, c + d)
           x == r.parts[k].data
<1>1. x \in Text
  BY LeadsAreTexts DEF Part
<1>2. d \in Nat /\ c \in Nat /\ c + d + 2 = Start(r, k + 1)
  BY Places
<1>3. Start(r, k + 1) <= Len(b) /\ b \in Text
  <2>1. k + 1 \in 1 .. Count(r) + 1
    BY Places
  <2>2. /\ Start(r, k + 1) \in Nat /\ Start(r, k + 1) <= Start(r, Count(r) + 1)
        /\ Len(b) = Header(r, Count(r) + 1) + 4 /\ b \in Text /\ Len(Boundary) \in Nat
    BY <2>1, LastPlaces
  <2>3. Start(r, Count(r) + 1) \in Nat /\ Header(r, Count(r) + 1) = Start(r, Count(r) + 1) + Len(Boundary)
    BY <2>1, LastPlaces
  <2> QED
    BY <2>2, <2>3
<1>4. \A j \in 1 .. d : b[c + j] = x[j]
  BY PartsInBody DEF PartAt, Data
<1>5. c + d \in Nat /\ c <= c + d /\ c + d <= Len(b) /\ (c + d) - c = d
  <2> HIDE DEF c, d, b
  <2>1. Len(b) \in Nat
    BY <1>3 DEF Text
  <2> QED
    BY <1>2, <1>3, <2>1
<1>6. w \in Text /\ Len(w) = d /\ \A j \in 1 .. d : w[j] = b[c + j]
  <2> HIDE DEF c, d, b
  <2>1. /\ w \in Text /\ Len(w) = (c + d) - c
        /\ \A j \in 1 .. (c + d) - c : w[j] = b[c + j]
    BY <1>2, <1>3, <1>5, Window
  <2> QED
    BY <1>5, <2>1
<1> HIDE DEF w, c, b, x
<1>7. w = x
  BY <1>1, <1>4, <1>6, SameText DEF x
<1> QED
  BY <1>1, <1>3, <1>7 DEF w, c, b, x

(***************************************************************************)
(* 7. What the parser sees in its buffer.                                  *)
(***************************************************************************)

\* The buffer in numbers.
LEMMA BufferInNumbers ==
  ASSUME request \in Requests, BufferInv
  PROVE  /\ Body(request) \in Text /\ Len(Body(request)) \in Nat
         /\ fed \in Nat /\ cursor \in Nat /\ cursor <= fed /\ fed <= Len(Body(request))
         /\ buffer \in Text /\ Len(buffer) \in Nat /\ Len(buffer) = fed - cursor
         /\ buffer = SubSeq(Body(request), cursor + 1, fed)
<1>1. Body(request) \in Text
  BY PartsInBody DEF EndAt
<1>2. Len(Body(request)) \in Nat /\ buffer \in Text /\ Len(buffer) \in Nat
  BY <1>1 DEF Text, BufferInv
<1> QED
  BY <1>1, <1>2 DEF BufferInv, cursor

\* An iteration that consumes n symbols moves the buffer.
LEMMA Consumed ==
  ASSUME request \in Requests, BufferInv, NEW n \in 0 .. Len(buffer), Consume(n)
  PROVE  BufferInv' /\ cursor' = cursor + n /\ fed' = fed /\ request' = request
<1> DEFINE c == cursor
           b == Body(request)
           l == Len(buffer)
<1>1. /\ b \in Text /\ Len(b) \in Nat /\ fed \in Nat /\ c \in Nat /\ c <= fed /\ fed <= Len(b)
      /\ buffer \in Text /\ l \in Nat /\ l = fed - c /\ buffer = SubSeq(b, c + 1, fed)
  BY BufferInNumbers
<1>2. fed' = fed /\ request' = request /\ buffer' = SubSeq(buffer, n + 1, l)
  BY DEF Consume
<1>3. n \in 0 .. fed - c
  BY <1>1
<1> HIDE DEF c, b, l
<1>4. buffer' = SubSeq(b, (c + n) + 1, fed)
  <2>1. LET w == SubSeq(b, c + 1, fed) IN SubSeq(w, n + 1, Len(w)) = SubSeq(b, (c + n) + 1, fed)
    BY <1>1, <1>3, WindowMoves
  <2> QED
    BY <1>1, <1>2, <2>1 DEF l
<1>5. c + n \in Nat /\ c + n <= fed
  BY <1>1, <1>3
<1>6. buffer' \in Text /\ Len(buffer') = fed - (c + n)
  BY <1>1, <1>4, <1>5, Window
<1>7. cursor' = c + n
  BY <1>1, <1>2, <1>5, <1>6 DEF cursor
<1>8. fed \in 0 .. Len(b) /\ Len(buffer') <= fed
  BY <1>1, <1>5, <1>6
<1> QED
  BY <1>2, <1>4, <1>6, <1>7, <1>8 DEF BufferInv, c, b

\* The next boundary is in the buffer as soon as all of it arrived.
LEMMA BoundaryInBuffer ==
  ASSUME request \in Requests, BufferInv, NEW k \in 1 .. Count(request) + 1,
         cursor <= Start(request, k), k > 1 => Start(request, k - 1) < cursor
  PROVE  /\ HasBoundary <=> Header(request, k) <= fed
         /\ HasBoundary => ToBoundary = Start(request, k) - cursor
<1>1. /\ cursor \in Nat /\ fed \in Nat /\ cursor <= fed /\ fed <= Len(Body(request))
      /\ buffer = SubSeq(Body(request), cursor + 1, fed)
  BY BufferInNumbers
<1> DEFINE w == SubSeq(Body(request), cursor + 1, fed)
<1>2. /\ Occurrences(Boundary, w) # {} <=> Header(request, k) <= fed
      /\ Header(request, k) <= fed => Before(Boundary, w) = Start(request, k) - cursor
  <2> HIDE DEF cursor
  <2> QED
    BY <1>1, BoundarySeen
<1>3. buffer = w
  BY <1>1
<1> HIDE DEF w
<1> QED
  BY <1>2, <1>3 DEF HasBoundary, ToBoundary

\* After the end there is none.
LEMMA NoBoundaryInBuffer ==
  ASSUME request \in Requests, BufferInv, Start(request, Count(request) + 1) < cursor
  PROVE  ~HasBoundary
<1>1. /\ cursor \in Nat /\ fed \in Nat /\ cursor <= fed /\ fed <= Len(Body(request))
      /\ buffer = SubSeq(Body(request), cursor + 1, fed)
  BY BufferInNumbers
<1>2. Occurrences(Boundary, SubSeq(Body(request), cursor + 1, fed)) = {}
  <2> HIDE DEF cursor
  <2> QED
    BY <1>1, NoBoundarySeen
<1> QED
  BY <1>1, <1>2 DEF HasBoundary

\* The headers of a part are in the buffer as soon as all of them arrived.
LEMMA HeadersInBuffer ==
  ASSUME request \in Requests, BufferInv, NEW k \in 1 .. Count(request),
         Header(request, k) <= cursor, cursor <= Header(request, k) + 2
  PROVE  /\ HasHeaders <=> Data(request, k) <= fed
         /\ HasHeaders => /\ cursor + ToHeaderEnd + 4 = Data(request, k)
                          /\ ToHeaderEnd + 4 \in 1 .. Len(buffer)
                          /\ HeaderName = request.parts[k].name
<1> DEFINE w == SubSeq(Body(request), cursor + 1, fed)
           t == Header(request, k)
           m == t + 3 - cursor
           name == request.parts[k].name
<1>1. /\ cursor \in Nat /\ fed \in Nat /\ cursor <= fed /\ fed <= Len(Body(request))
      /\ buffer = w /\ Len(buffer) = fed - cursor
  BY BufferInNumbers
<1>2. /\ Occurrences(CRLF \o CRLF, w) # {} <=> Data(request, k) <= fed
      /\ Data(request, k) <= fed =>
           /\ Before(CRLF \o CRLF, w) = m
           /\ \A i \in 1 .. m : w[i] \in Names <=> i = m /\ name # None
           /\ w[m] = name
  <2>1. cursor \in Nat /\ fed \in Nat /\ cursor <= fed /\ fed <= Len(Body(request))
    BY <1>1
  <2> HIDE DEF cursor
  <2>2. SeesHeaders(request, k, cursor, fed)
    BY <2>1, HeadersSeen
  <2> QED
    BY <2>2 DEF SeesHeaders
<1>3. /\ t \in Nat /\ Data(request, k) = t + 7 /\ t <= cursor /\ cursor <= t + 2
  BY Places DEF Header, Data
<1>4. name \in Names \cup {None} /\ None \notin Names
  BY LeadsAreTexts, SymbolsAssumption DEF Part
<1> HIDE DEF w, t, name
<1>5. HasHeaders <=> Data(request, k) <= fed
  BY <1>1, <1>2 DEF HasHeaders
<1> SUFFICES ASSUME HasHeaders
             PROVE  /\ cursor + ToHeaderEnd + 4 = Data(request, k)
                    /\ ToHeaderEnd + 4 \in 1 .. Len(buffer)
                    /\ HeaderName = name
  BY <1>5 DEF name
<1>6. ToHeaderEnd = m
  BY <1>1, <1>2, <1>5 DEF ToHeaderEnd
<1>7. m \in 1 .. m /\ m + 4 = (t + 7) - cursor /\ cursor + m + 4 = t + 7
  BY <1>1, <1>3
<1>8. ToHeaderEnd + 4 \in 1 .. Len(buffer)
  BY <1>1, <1>3, <1>5, <1>6, <1>7
<1>9. HeaderName = name
  <2> DEFINE named == {i \in 1 .. m : buffer[i] \in Names}
  <2>1. HeaderName = IF named = {} THEN None ELSE buffer[Min(named)]
    BY <1>6 DEF HeaderName
  <2>2. \A i \in 1 .. m : buffer[i] \in Names <=> i = m /\ name # None
    BY <1>1, <1>2, <1>5
  <2>3. CASE name = None
    BY <2>1, <2>2, <2>3
  <2>4. CASE name # None
    <3>1. m \in named /\ \A i \in named : i = m
      BY <1>7, <2>2, <2>4
    <3> HIDE DEF named, m
    <3>2. named = {m}
      BY <3>1
    <3>3. Min({m}) = m
      <4>1. m \in Nat
        BY <1>1, <1>3, <1>7 DEF m
      <4> QED
        BY <4>1, MinIs
    <3>4. named # {} /\ Min(named) = m
      BY <3>2, <3>3
    <3>5. HeaderName = buffer[m]
      BY <2>1, <3>4
    <3> QED
      BY <1>1, <1>2, <1>5, <3>5
  <2> QED
    BY <2>3, <2>4
<1> QED
  BY <1>3, <1>6, <1>7, <1>8, <1>9

\* After the end's boundary there are none.
LEMMA NoHeadersInBuffer ==
  ASSUME request \in Requests, BufferInv, Header(request, Count(request) + 1) <= cursor
  PROVE  ~HasHeaders
<1>1. /\ cursor \in Nat /\ fed \in Nat /\ cursor <= fed /\ fed <= Len(Body(request))
      /\ buffer = SubSeq(Body(request), cursor + 1, fed)
  BY BufferInNumbers
<1>2. Occurrences(CRLF \o CRLF, SubSeq(Body(request), cursor + 1, fed)) = {}
  <2> HIDE DEF cursor
  <2> QED
    BY <1>1, NoHeadersSeen
<1> QED
  BY <1>1, <1>2 DEF HasHeaders

\* The symbols that end lines are counted up to one that does not.
LEMMA LineEndsCount ==
  ASSUME buffer \in Text, NEW n \in 0 .. Len(buffer)
  PROVE  /\ LineEnds(n) \in 0 .. Len(buffer) - n
         /\ \A i \in n + 1 .. Len(buffer) : buffer[i] \notin {CR, LF} => n + LineEnds(n) < i
<1> DEFINE others == {i \in n + 1 .. Len(buffer) : buffer[i] \notin {CR, LF}}
           m == Min(others)
<1>1. Len(buffer) \in Nat
  BY DEF Text
<1>2. LineEnds(n) = IF others = {} THEN Len(buffer) - n ELSE m - 1 - n
  BY DEF LineEnds
<1>3. CASE others = {}
  BY <1>1, <1>2, <1>3
<1>4. CASE others # {}
  <2>1. others \subseteq Nat /\ others \subseteq n + 1 .. Len(buffer)
    BY <1>1
  <2> HIDE DEF others
  <2>2. m \in others /\ \A i \in others : m <= i
    BY <1>4, <2>1, MinIsLeast
  <2>3. m \in n + 1 .. Len(buffer)
    BY <2>1, <2>2
  <2> HIDE DEF m
  <2>4. LineEnds(n) = m - 1 - n
    BY <1>2, <1>4
  <2>5. LineEnds(n) \in 0 .. Len(buffer) - n /\ n + LineEnds(n) = m - 1
    BY <1>1, <2>3, <2>4
  <2>6. \A i \in n + 1 .. Len(buffer) : buffer[i] \notin {CR, LF} => m <= i
    BY <2>2 DEF others
  <2> QED
    BY <1>1, <2>3, <2>5, <2>6
<1> QED
  BY <1>3, <1>4

(***************************************************************************)
(* 8. The steps keep the invariant.                                        *)
(***************************************************************************)

\* The types after an iteration that consumes n symbols.
LEMMA ConsumeTypes ==
  ASSUME Types, phase \in {"feed", "finish"}, NEW n, Consume(n)
  PROVE  /\ request' = request /\ fed' = fed
         /\ phase' \in {"wait", "feed", "finish", "close"}
         /\ iterations' \in 0 .. MaxIterations - 1
<1>1. iterations \in 0 .. MaxIterations - 1 /\ MaxIterations \in Nat \ {0}
  BY ParserAssumption DEF Types
<1> QED
  BY <1>1 DEF Consume

\* The number of iterations stays below the states that were gone through, until
\* an iteration would consume nothing.
LEMMA RoundsGoOn ==
  ASSUME Types, phase \in {"feed", "finish"}, EnoughIterations,
         NEW k \in 1 .. Count(request) + 1, NEW j \in 1 .. Count(request) + 1,
         NEW n \in Nat, Consume(n), RoundsInv(k),
         \/ Drained'
         \/ n > 0 /\ ~Drained /\ k <= Count(request) /\ Rank(j)' > Rank(k)
  PROVE  RoundsInv(j)'
<1>1. /\ Count(request) \in Nat /\ 3 * Count(request) < MaxIterations
      /\ iterations \in Nat /\ MaxIterations \in Nat
  BY ParserAssumption, LeadsAreTexts DEF Types, EnoughIterations, Count
<1>2. CASE Drained'
  BY <1>2 DEF RoundsInv, Consume
<1>3. CASE n > 0 /\ ~Drained /\ k <= Count(request) /\ Rank(j)' > Rank(k)
  <2>1. Rank(k) \in Nat /\ Rank(k) < 3 * Count(request) /\ Rank(j)' \in Nat
    BY <1>1, <1>3 DEF Rank
  <2>2. iterations <= Rank(k)
    BY <1>3 DEF RoundsInv
  <2>3. iterations + 1 < MaxIterations /\ iterations + 1 <= Rank(j)'
    BY <1>1, <1>3, <2>1, <2>2
  <2>4. iterations' = iterations + 1 /\ phase' = phase
    BY <1>3, <2>3 DEF Consume
  <2>5. iterations' <= Rank(j)'
    BY <2>3, <2>4
  <2> QED
    BY <2>4, <2>5 DEF RoundsInv
<1> QED
  BY <1>2, <1>3

\* After what is safe was consumed, an iteration would consume nothing.
LEMMA SkippedSafely ==
  ASSUME request \in Requests, BufferInv, ~HasBoundary, Consume(Safe),
         state # "ParseHeaders", state' = state
  PROVE  Drained'
<1> DEFINE l == Len(buffer)
           n == Safe
<1>1. buffer \in Text /\ l \in Nat
  BY BufferInNumbers
<1>2. Overlap \in Nat
  BY SymbolsAreTexts DEF Overlap
<1>3. n \in 0 .. l /\ l - n <= Overlap
  BY <1>1, <1>2 DEF Safe
<1>4. buffer' = SubSeq(buffer, n + 1, l)
  BY DEF Consume
<1> HIDE DEF l, n
<1>5. Len(buffer') = l - n
  <2>1. n \in Nat /\ n <= l /\ l <= Len(buffer)
    BY <1>1, <1>3 DEF l
  <2> QED
    BY <1>1, <1>4, <2>1, Window
<1>6. Safe' = 0
  BY <1>1, <1>2, <1>3, <1>5 DEF Safe, Overlap
<1>7. ~HasBoundary'
  <2>1. SUFFICES ASSUME NEW i \in Occurrences(Boundary, SubSeq(buffer, n + 1, l)) PROVE FALSE
    BY <1>4 DEF HasBoundary
  <2>2. n \in Nat /\ n <= l /\ l <= Len(buffer) /\ Boundary \in Text /\ Boundary # <<>>
    BY <1>1, <1>3, SymbolsAreTexts DEF l
  <2>3. SubSeq(buffer, n + 1, l) \in Text
    BY <1>1, <2>2, Window
  <2>4. i \in Nat \ {0}
    BY <2>1, <2>2, <2>3, FirstOccurrence
  <2>5. n + i \in Occurrences(Boundary, buffer)
    BY <1>1, <2>1, <2>2, <2>4, WindowOccurrences
  <2> QED
    BY <2>5 DEF HasBoundary
<1> QED
  BY <1>6, <1>7 DEF Drained

\* What is safe ends before the next boundary and the line end before it.
LEMMA SafeIsBefore ==
  ASSUME request \in Requests, BufferInv, ~HasBoundary, NEW k \in 1 .. Count(request) + 1,
         k > 1 => Start(request, k - 1) < cursor, cursor <= Start(request, k)
  PROVE  /\ Safe \in 0 .. Len(buffer)
         /\ cursor + Safe <= Start(request, k)
         /\ Safe > 0 => cursor + Safe + 2 <= Start(request, k)
<1> DEFINE h == Len(Boundary)
           s == Start(request, k)
           c == cursor
           l == Len(buffer)
<1>1. fed \in Nat /\ c \in Nat /\ l \in Nat /\ l = fed - c
  BY BufferInNumbers
<1>2. h \in Nat /\ s \in Nat /\ Header(request, k) = s + h
  BY LastPlaces
<1>3. ~(s + h <= fed) /\ c <= s
  BY <1>2, BoundaryInBuffer
<1>4. Safe = IF l > h + 8 THEN l - (h + 8) ELSE 0
  BY DEF Safe, Overlap
<1> HIDE DEF h, s, c, l
<1>5. Safe \in 0 .. l /\ c + Safe <= s /\ (Safe > 0 => c + Safe + 2 <= s)
  BY <1>1, <1>2, <1>3, <1>4
<1> QED
  BY <1>5 DEF s, c, l

\* SkipText: before a boundary, or after the end, or in a form field.
LEMMA SkipTextStep ==
  ASSUME Types, BufferInv, NEW k \in 1 .. Count(request) + 1, At(k), SkipText
  PROVE  Types' /\ BufferInv' /\ phase' # "done" /\ At(k)'
<1> DEFINE N == Count(request)
<1>1. request \in Requests /\ phase \in {"feed", "finish"} /\ N \in Nat
  BY LeadsAreTexts DEF Types, SkipText, Iterates
<1>2. /\ ~HasBoundary /\ Consume(Safe)
      /\ state \in {"FindBoundary", "BufferFormData"}
      /\ state' = state /\ file' = file /\ saved' = saved /\ disk' = disk
  BY DEF SkipText, Iterates
<1>3. /\ request' = request /\ phase' \in {"wait", "feed", "finish", "close"}
      /\ iterations' \in 0 .. MaxIterations - 1
  BY <1>1, <1>2, ConsumeTypes
<1>4. Safe \in 0 .. Len(buffer)
  <2>1. Len(buffer) \in Nat /\ Overlap \in Nat
    BY <1>1, BufferInNumbers, SymbolsAreTexts DEF Overlap
  <2> QED
    BY <2>1 DEF Safe
<1>5. BufferInv' /\ cursor' = cursor + Safe /\ cursor \in Nat /\ Safe \in Nat
  <2>1. Len(buffer) \in Nat
    BY <1>1, BufferInNumbers
  <2> QED
    BY <1>1, <1>2, <1>4, <2>1, Consumed, BufferInNumbers
<1>6. Types'
  BY <1>2, <1>3 DEF Types
<1>7. Where(k)'
  <2>1. CASE state = "FindBoundary"
    <3>1. k > 1 => Start(request, k - 1) < cursor'
      <4>1. k > 1 => Start(request, k - 1) < cursor /\ Start(request, k - 1) \in Nat
        <5>1. k > 1 => k - 1 \in 1 .. N + 1
          BY <1>1
        <5> QED
          BY <1>1, <2>1, <5>1, LastPlaces DEF At, Where
      <4> QED
        BY <1>5, <4>1
    <3>2. k <= N => cursor' <= Start(request, k)
      <4>1. ASSUME k <= N PROVE cursor + Safe <= Start(request, k)
        <5>1. cursor <= Start(request, k) /\ (k > 1 => Start(request, k - 1) < cursor)
          BY <2>1, <4>1 DEF At, Where
        <5> QED
          BY <1>1, <1>2, <5>1, SafeIsBefore
      <4> QED
        BY <1>5, <4>1
    <3> QED
      BY <1>2, <1>3, <2>1, <3>1, <3>2 DEF Where
  <2>2. CASE state = "BufferFormData"
    <3>1. /\ k \in 1 .. N /\ Data(request, k) <= cursor /\ cursor + 2 <= Start(request, k + 1)
          /\ ~Opens(request, k)
      BY <1>1, <2>2 DEF At, Where
    <3>2. /\ k + 1 \in 1 .. N + 1 /\ Start(request, k) \in Nat /\ Start(request, k + 1) \in Nat
          /\ Data(request, k) = Start(request, k) + Len(Boundary) + 7 /\ Len(Boundary) \in Nat
      BY <1>1, <3>1, Places
    <3>3. cursor <= Start(request, k + 1) /\ Start(request, (k + 1) - 1) < cursor
      BY <1>5, <3>1, <3>2
    <3>4. Safe > 0 => cursor + Safe + 2 <= Start(request, k + 1)
      BY <1>1, <1>2, <3>2, <3>3, SafeIsBefore
    <3>5. Data(request, k) <= cursor' /\ cursor' + 2 <= Start(request, k + 1)
      BY <1>5, <3>1, <3>2, <3>4
    <3> QED
      BY <1>2, <1>3, <2>2, <3>1, <3>5 DEF Where
  <2> QED
    BY <1>2, <2>1, <2>2
<1>8. SavedInv(k)' /\ FileInv(k)'
  BY <1>2, <1>3 DEF At, SavedInv, FileInv
<1>9. EnoughIterations => RoundsInv(k)'
  <2>1. Drained'
    BY <1>1, <1>2, SkippedSafely
  <2> QED
    BY <1>1, <1>2, <1>5, <2>1, RoundsGoOn DEF At
<1> QED
  BY <1>3, <1>5, <1>6, <1>7, <1>8, <1>9 DEF At

\* A boundary in the buffer is the one of the part that the parser is at.
LEMMA BoundaryAhead ==
  ASSUME request \in Requests, BufferInv, NEW k \in 1 .. Count(request) + 1, Where(k),
         state = "FindBoundary", HasBoundary
  PROVE  /\ cursor <= Start(request, k) /\ Header(request, k) <= fed
         /\ ToBoundary = Start(request, k) - cursor
         /\ ToBoundary + Len(Boundary) \in 1 .. Len(buffer)
         /\ cursor + (ToBoundary + Len(Boundary)) = Header(request, k)
         /\ k > 1 => Start(request, k - 1) < cursor
<1> DEFINE N == Count(request)
           h == Len(Boundary)
           s == Start(request, k)
           c == cursor
           l == Len(buffer)
<1>1. N \in Nat /\ s \in Nat /\ h \in Nat /\ h > 2 /\ Header(request, k) = s + h
  BY LastPlaces
<1>2. fed \in Nat /\ c \in Nat /\ l \in Nat /\ l = fed - c
  BY BufferInNumbers
<1>3. k > 1 => Start(request, k - 1) < cursor
  BY DEF Where
<1>4. c <= s
  <2>1. k <= N => c <= s
    BY DEF Where
  <2>2. k = N + 1 => ~(s < c)
    BY NoBoundaryInBuffer
  <2> QED
    BY <1>1, <1>2, <2>1, <2>2
<1>5. s + h <= fed /\ ToBoundary = s - c
  BY <1>1, <1>3, <1>4, BoundaryInBuffer
<1> HIDE DEF N, h, s, c, l
<1>6. ToBoundary + h \in 1 .. l /\ c + (ToBoundary + h) = s + h
  BY <1>1, <1>2, <1>4, <1>5
<1> QED
  BY <1>1, <1>3, <1>4, <1>5, <1>6 DEF h, s, c, l

\* The boundary of a part is not taken for the end.
LEMMA PartIsNotEnd ==
  ASSUME request \in Requests, BufferInv, NEW k \in 1 .. Count(request), Where(k),
         state = "FindBoundary", HasBoundary
  PROVE  ~AtEndBoundary
<1> DEFINE h == Len(Boundary)
           s == Start(request, k)
           c == cursor
           b == Body(request)
           tb == ToBoundary
           v == SubSeq(buffer, tb + 1, Len(buffer))
<1>1. k \in 1 .. Count(request) + 1 /\ s \in Nat /\ h \in Nat /\ Header(request, k) = s + h
  BY Places
<1>2. c <= s /\ s + h <= fed /\ tb = s - c
  BY <1>1, BoundaryAhead
<1>3. /\ b \in Text /\ Len(b) \in Nat /\ fed \in Nat /\ c \in Nat /\ fed <= Len(b) /\ c <= fed
      /\ buffer = SubSeq(b, c + 1, fed)
  BY BufferInNumbers
<1> HIDE DEF h, s, c, b, tb
<1>4. v = SubSeq(b, s + 1, fed)
  <2>1. tb \in 0 .. fed - c /\ c + tb = s
    BY <1>1, <1>2, <1>3
  <2>2. LET w == SubSeq(b, c + 1, fed) IN SubSeq(w, tb + 1, Len(w)) = SubSeq(b, (c + tb) + 1, fed)
    BY <1>3, <2>1, WindowMoves
  <2> QED
    BY <1>3, <2>1, <2>2
<1>5. v \in Text /\ Len(v) = fed - s /\ \A i \in 1 .. fed - s : v[i] = b[s + i]
  <2>1. s <= fed
    BY <1>1, <1>2, <1>3
  <2> HIDE DEF v
  <2> QED
    BY <1>1, <1>3, <1>4, <2>1, Window
<1> HIDE DEF v
<1>6. SUFFICES ASSUME IsPrefix(EndBoundary, v) PROVE FALSE
  BY DEF AtEndBoundary, v, tb
<1>7. EndBoundary \in Text /\ Len(EndBoundary) = h + 2 /\ EndBoundary[h + 1] = Dash
  <2> DEFINE q == <<Dash, Dash>>
  <2>1. Boundary \in Text /\ q \in Text /\ Len(q) = 2 /\ q[1] = Dash /\ EndBoundary = Boundary \o q
    BY SymbolsAreTexts DEF EndBoundary
  <2> HIDE DEF q
  <2>2. \A i \in 1 .. Len(q) : (Boundary \o q)[Len(Boundary) + i] = q[i]
    BY <2>1, ConcatText
  <2>3. 1 \in 1 .. Len(q)
    BY <2>1
  <2> QED
    BY <2>1, <2>2, <2>3, SymbolsAreTexts DEF h
<1>8. h + 2 <= Len(v) /\ SubSeq(EndBoundary, 1, h + 2) = SubSeq(v, 1, h + 2)
  BY <1>6, <1>7 DEF IsPrefix
<1>9. h + 1 \in 1 .. h + 2 /\ h + 2 \in Nat /\ 0 \in Nat /\ 0 <= h + 2 /\ (h + 2) - 0 = h + 2
  BY <1>1
<1>10. SubSeq(EndBoundary, 0 + 1, h + 2)[h + 1] = EndBoundary[0 + (h + 1)]
  BY <1>7, <1>9, Window
<1>11. SubSeq(v, 0 + 1, h + 2)[h + 1] = v[0 + (h + 1)]
  BY <1>5, <1>8, <1>9, Window
<1>12. v[h + 1] = Dash
  <2>1. 0 + (h + 1) = h + 1 /\ 0 + 1 = 1
    BY <1>1
  <2> QED
    BY <1>7, <1>8, <1>10, <1>11, <2>1
<1>13. v[h + 1] = b[s + h + 1]
  <2>1. h + 1 \in 1 .. fed - s /\ s + (h + 1) = s + h + 1
    BY <1>1, <1>3, <1>5, <1>8
  <2> QED
    BY <1>5, <2>1
<1>14. b[s + h + 1] = CR
  BY <1>1, PartsInBody DEF PartAt, b
<1> QED
  BY <1>12, <1>13, <1>14, SymbolsAssumption

\* SkipEnd: the boundary at the end, and all that follows it.
LEMMA SkipEndStep ==
  ASSUME Types, BufferInv, NEW k \in 1 .. Count(request) + 1, At(k), SkipEnd
  PROVE  Types' /\ BufferInv' /\ phase' # "done" /\ At(k)'
<1> DEFINE N == Count(request)
           l == Len(buffer)
<1>1. request \in Requests /\ phase \in {"feed", "finish"} /\ N \in Nat
  BY LeadsAreTexts DEF Types, SkipEnd, Iterates
<1>2. /\ HasBoundary /\ AtEndBoundary /\ Consume(l) /\ state = "FindBoundary"
      /\ state' = state /\ file' = file /\ saved' = saved /\ disk' = disk
  BY DEF SkipEnd, Iterates
<1>3. /\ request' = request /\ phase' \in {"wait", "feed", "finish", "close"}
      /\ iterations' \in 0 .. MaxIterations - 1
  BY <1>1, <1>2, ConsumeTypes
<1>4. k = N + 1
  <2>1. ~(k \in 1 .. N)
    BY <1>1, <1>2, PartIsNotEnd DEF At
  <2> QED
    BY <1>1, <2>1
<1>5. l \in Nat /\ cursor \in Nat /\ fed \in Nat
  BY <1>1, BufferInNumbers
<1>6. BufferInv' /\ cursor' = cursor + l
  BY <1>1, <1>2, <1>5, Consumed
<1>7. Types'
  BY <1>2, <1>3 DEF Types
<1>8. Where(k)'
  <2>1. k > 1 => Start(request, k - 1) < cursor'
    <3>1. k > 1 => Start(request, k - 1) < cursor /\ Start(request, k - 1) \in Nat
      <4>1. k > 1 => k - 1 \in 1 .. N + 1
        BY <1>1
      <4> QED
        BY <1>1, <1>2, <4>1, LastPlaces DEF At, Where
    <3> QED
      BY <1>5, <1>6, <3>1
  <2>2. ~(k <= N)
    BY <1>1, <1>4
  <2> QED
    BY <1>2, <1>3, <2>1, <2>2 DEF Where
<1>9. SavedInv(k)' /\ FileInv(k)'
  BY <1>2, <1>3 DEF At, SavedInv, FileInv
<1>10. Drained'
  <2>1. Start(request, N + 1) < cursor' /\ fed' = fed /\ Len(buffer') = 0
    <3>1. cursor + l = fed
      BY <1>1, <1>5, BufferInNumbers
    <3>2. Header(request, k) <= fed /\ Start(request, k) \in Nat
          /\ Header(request, k) = Start(request, k) + Len(Boundary) /\ Len(Boundary) \in Nat
          /\ Len(Boundary) > 2
      BY <1>1, <1>2, BoundaryAhead, LastPlaces DEF At
    <3>3. fed' = fed /\ cursor' = fed' - Len(buffer') /\ Len(buffer') \in Nat
      BY <1>1, <1>2, <1>6, ConsumeTypes DEF cursor, BufferInv, Text
    <3> QED
      BY <1>4, <1>5, <1>6, <3>1, <3>2, <3>3
  <2>2. Safe' = 0
    <3>1. Overlap \in Nat
      BY SymbolsAreTexts DEF Overlap
    <3> QED
      BY <2>1, <3>1 DEF Safe, Overlap
  <2>3. ~HasBoundary'
    <3>1. buffer' = SubSeq(Body(request), cursor' + 1, fed')
      BY <1>3, <1>6 DEF BufferInv
    <3>2. fed' \in Nat /\ cursor' \in Nat /\ cursor' <= fed' /\ fed' <= Len(Body(request))
      <4>1. fed <= Len(Body(request))
        BY <1>1, BufferInNumbers
      <4>2. cursor' = fed' - Len(buffer')
        BY DEF cursor
      <4> QED
        BY <1>5, <1>6, <2>1, <4>1, <4>2
    <3>3. Occurrences(Boundary, SubSeq(Body(request), cursor' + 1, fed')) = {}
      <4> HIDE DEF N
      <4> HIDE DEF cursor
      <4>1. Start(request, Count(request) + 1) < cursor'
        BY <2>1 DEF N
      <4> QED
        BY <1>1, <3>2, <4>1, NoBoundarySeen
    <3> QED
      BY <3>1, <3>3 DEF HasBoundary
  <2> QED
    BY <1>2, <2>2, <2>3 DEF Drained
<1>11. EnoughIterations => RoundsInv(k)'
  BY <1>1, <1>2, <1>5, <1>10, RoundsGoOn DEF At
<1> QED
  BY <1>3, <1>6, <1>7, <1>8, <1>9, <1>11 DEF At

\* SkipBoundary: the boundary of a part, or the end's if not all of it arrived,
\* and the line end.
LEMMA SkipBoundaryStep ==
  ASSUME Types, BufferInv, NEW k \in 1 .. Count(request) + 1, At(k), SkipBoundary
  PROVE  Types' /\ BufferInv' /\ phase' # "done" /\ At(k)'
<1> DEFINE N == Count(request)
           h == Len(Boundary)
           n == ToBoundary + h
           m == n + LineEnds(n)
<1>1. request \in Requests /\ phase \in {"feed", "finish"} /\ N \in Nat
  BY LeadsAreTexts DEF Types, SkipBoundary, Iterates
<1>2. /\ HasBoundary /\ Consume(m) /\ state = "FindBoundary"
      /\ state' = "ParseHeaders" /\ file' = file /\ saved' = saved /\ disk' = disk
  BY DEF SkipBoundary, Iterates
<1>3. /\ request' = request /\ phase' \in {"wait", "feed", "finish", "close"}
      /\ iterations' \in 0 .. MaxIterations - 1 /\ fed' = fed
  <2> HIDE DEF m
  <2> QED
    BY <1>1, <1>2, ConsumeTypes
<1>4. /\ cursor \in Nat /\ fed \in Nat /\ Len(buffer) \in Nat /\ Len(buffer) = fed - cursor
      /\ buffer \in Text /\ fed <= Len(Body(request)) /\ cursor <= fed
      /\ buffer = SubSeq(Body(request), cursor + 1, fed) /\ Body(request) \in Text
  BY <1>1, BufferInNumbers
<1>5. n \in 1 .. Len(buffer) /\ cursor + n = Header(request, k) /\ cursor <= Start(request, k)
  BY <1>1, <1>2, BoundaryAhead DEF At
<1>6. /\ LineEnds(n) \in 0 .. Len(buffer) - n
      /\ \A i \in n + 1 .. Len(buffer) : buffer[i] \notin {CR, LF} => n + LineEnds(n) < i
  <2> HIDE DEF n
  <2>1. n \in 0 .. Len(buffer)
    BY <1>4, <1>5
  <2> QED
    BY <1>4, <2>1, LineEndsCount
<1> HIDE DEF n
<1>7. m \in 1 .. Len(buffer) /\ n <= m
  BY <1>4, <1>5, <1>6
<1>8. BufferInv' /\ cursor' = cursor + m
  <2>1. m \in 0 .. Len(buffer)
    BY <1>4, <1>7
  <2> HIDE DEF m
  <2> QED
    BY <1>1, <1>2, <2>1, Consumed
<1>9. Types'
  BY <1>2, <1>3 DEF Types
<1>10. Header(request, k) <= cursor'
  <2> HIDE DEF m
  <2> QED
    BY <1>4, <1>5, <1>7, <1>8
<1>11. k <= N => cursor' <= Header(request, k) + 2
  <2> SUFFICES ASSUME k \in 1 .. N PROVE cursor' <= Header(request, k) + 2
    BY <1>1
  <2> DEFINE t == Header(request, k)
             b == Body(request)
             c == cursor
             l == Len(buffer)
  <2>1. CASE m <= n + 2
    <3> HIDE DEF m
    <3> QED
      BY <1>4, <1>5, <1>7, <1>8, <2>1
  <2>2. CASE m > n + 2
    <3>1. n + 3 \in n + 1 .. l
      BY <1>4, <1>5, <1>7, <2>2
    <3>2. b[t + 3] = request.parts[k].name
      BY <1>1, PartsInBody DEF PartAt
    <3>3. request.parts[k].name \notin {CR, LF}
      <4>1. request.parts[k] \in Part
        BY <1>1, LeadsAreTexts
      <4> QED
        BY <4>1, SymbolsAssumption DEF Part
    <3>4. buffer[n + 3] = b[c + (n + 3)]
      <4>1. n + 3 \in 1 .. fed - c
        BY <1>4, <1>5, <3>1
      <4> HIDE DEF c
      <4>2. \A i \in 1 .. fed - c : SubSeq(b, c + 1, fed)[i] = b[c + i]
        BY <1>4, Window DEF c
      <4>3. buffer = SubSeq(b, c + 1, fed)
        BY <1>4 DEF c
      <4> QED
        BY <4>1, <4>2, <4>3
    <3>5. c + (n + 3) = t + 3
      <4> HIDE DEF c, t
      <4>1. c \in Nat /\ n \in Nat /\ c + n = t
        BY <1>4, <1>5 DEF c, t
      <4> QED
        BY <4>1
    <3>6. m < n + 3
      BY <1>6, <3>1, <3>2, <3>3, <3>4, <3>5
    <3> HIDE DEF m
    <3>7. m \in Nat /\ n \in Nat
      BY <1>4, <1>5, <1>7
    <3> QED
      BY <2>2, <3>6, <3>7
  <2> QED
    BY <2>1, <2>2, <1>4, <1>5, <1>7
<1>12. Where(k)'
  BY <1>2, <1>3, <1>10, <1>11 DEF Where
<1>13. SavedInv(k)' /\ FileInv(k)'
  BY <1>2, <1>3 DEF At, SavedInv, FileInv
<1>14. EnoughIterations => RoundsInv(k)'
  <2> HIDE DEF m
  <2>1. m \in Nat /\ m > 0
    BY <1>4, <1>7
  <2>2. CASE k <= N
    <3>1. ~Drained
      BY <1>2 DEF Drained
    <3>2. Rank(k)' > Rank(k)
      BY <1>2 DEF Rank
    <3> QED
      BY <1>1, <1>2, <2>1, <2>2, <3>1, <3>2, RoundsGoOn DEF At
  <2>3. CASE k = N + 1
    <3>1. fed' \in Nat /\ cursor' \in Nat /\ cursor' <= fed' /\ fed' <= Len(Body(request))
      BY <1>3, <1>4, <1>7, <1>8
    <3>2. Occurrences(CRLF \o CRLF, SubSeq(Body(request), cursor' + 1, fed')) = {}
      <4>1. Header(request, Count(request) + 1) <= cursor'
        BY <1>10, <2>3
      <4> HIDE DEF N, cursor
      <4> QED
        BY <1>1, <3>1, <4>1, NoHeadersSeen
    <3>3. buffer' = SubSeq(Body(request), cursor' + 1, fed')
      BY <1>3, <1>8 DEF BufferInv
    <3>4. Drained'
      BY <1>2, <3>2, <3>3 DEF Drained, HasHeaders
    <3> QED
      BY <1>1, <1>2, <2>1, <3>4, RoundsGoOn DEF At
  <2> QED
    BY <1>1, <2>2, <2>3
<1> QED
  BY <1>3, <1>8, <1>9, <1>12, <1>13, <1>14 DEF At

\* AwaitHeaders: nothing is consumed.
LEMMA AwaitHeadersStep ==
  ASSUME Types, BufferInv, NEW k \in 1 .. Count(request) + 1, At(k), AwaitHeaders
  PROVE  Types' /\ BufferInv' /\ phase' # "done" /\ At(k)'
<1>1. request \in Requests /\ phase \in {"feed", "finish"}
  BY DEF Types, AwaitHeaders, Iterates
<1>2. /\ ~HasHeaders /\ Consume(0) /\ state = "ParseHeaders"
      /\ state' = state /\ file' = file /\ saved' = saved /\ disk' = disk
  BY DEF AwaitHeaders, Iterates
<1>3. /\ request' = request /\ phase' \in {"wait", "feed", "finish", "close"}
      /\ iterations' \in 0 .. MaxIterations - 1
  BY <1>1, <1>2, ConsumeTypes
<1>4. cursor \in Nat /\ Len(buffer) \in Nat /\ buffer \in Text
  BY <1>1, BufferInNumbers
<1>5. BufferInv' /\ cursor' = cursor
  <2>1. 0 \in 0 .. Len(buffer) /\ cursor + 0 = cursor
    BY <1>4
  <2> QED
    BY <1>1, <1>2, <2>1, Consumed
<1>6. buffer' = buffer
  <2>1. buffer' = SubSeq(buffer, 1, Len(buffer))
    BY <1>2 DEF Consume
  <2> QED
    BY <1>4, <2>1 DEF Text
<1>7. Types'
  BY <1>2, <1>3 DEF Types
<1>8. Where(k)' /\ SavedInv(k)' /\ FileInv(k)'
  BY <1>2, <1>3, <1>5 DEF At, Where, SavedInv, FileInv
<1>9. EnoughIterations => RoundsInv(k)'
  <2>1. Drained'
    BY <1>2, <1>6 DEF Drained, HasHeaders
  <2> QED
    BY <1>1, <1>2, <2>1, RoundsGoOn DEF At
<1> QED
  BY <1>3, <1>5, <1>7, <1>8, <1>9 DEF At

\* Headers in the buffer are the ones of the part that the parser is at.
LEMMA HeadersAhead ==
  ASSUME request \in Requests, BufferInv, NEW k \in 1 .. Count(request) + 1, Where(k),
         state = "ParseHeaders", HasHeaders
  PROVE  /\ k \in 1 .. Count(request)
         /\ cursor + (ToHeaderEnd + 4) = Data(request, k)
         /\ ToHeaderEnd + 4 \in 1 .. Len(buffer)
         /\ HeaderName = request.parts[k].name
<1>1. Count(request) \in Nat /\ Header(request, k) <= cursor
  BY LeadsAreTexts DEF Where
<1>2. k # Count(request) + 1
  BY <1>1, NoHeadersInBuffer
<1>3. k \in 1 .. Count(request)
  BY <1>1, <1>2
<1>4. cursor <= Header(request, k) + 2
  BY <1>3 DEF Where
<1>5. /\ cursor + ToHeaderEnd + 4 = Data(request, k)
      /\ ToHeaderEnd + 4 \in 1 .. Len(buffer)
      /\ HeaderName = request.parts[k].name
  BY <1>1, <1>3, <1>4, HeadersInBuffer
<1>6. cursor \in Nat /\ ToHeaderEnd \in Int
  <2>1. cursor \in Nat
    BY BufferInNumbers
  <2>2. CRLF \o CRLF \in Text /\ CRLF \o CRLF # <<>> /\ Len(buffer) \in Nat /\ buffer \in Text
    BY BufferInNumbers, SymbolsAreTexts
  <2>3. Before(CRLF \o CRLF, buffer) \in 0 .. Len(buffer) - Len(CRLF \o CRLF)
    BY <2>2, FirstOccurrence DEF HasHeaders
  <2> QED
    BY <2>1, <2>3 DEF ToHeaderEnd
<1>7. cursor + (ToHeaderEnd + 4) = cursor + ToHeaderEnd + 4
  BY <1>6
<1> QED
  BY <1>3, <1>5, <1>7

\* BeginField: the headers of a form field.
LEMMA BeginFieldStep ==
  ASSUME Types, BufferInv, NEW k \in 1 .. Count(request) + 1, At(k), BeginField
  PROVE  Types' /\ BufferInv' /\ phase' # "done" /\ At(k)'
<1> DEFINE N == Count(request)
           n == ToHeaderEnd + 4
<1>1. request \in Requests /\ phase \in {"feed", "finish"} /\ N \in Nat
  BY LeadsAreTexts DEF Types, BeginField, Iterates
<1>2. /\ HasHeaders /\ HeaderName = None /\ Consume(n) /\ state = "ParseHeaders"
      /\ state' = "BufferFormData" /\ file' = file /\ saved' = saved /\ disk' = disk
  BY DEF BeginField, Iterates
<1>3. /\ k \in 1 .. N /\ cursor + n = Data(request, k)
      /\ n \in 1 .. Len(buffer) /\ request.parts[k].name = None
  BY <1>1, <1>2, HeadersAhead DEF At
<1> HIDE DEF n
<1>4. /\ request' = request /\ phase' \in {"wait", "feed", "finish", "close"}
      /\ iterations' \in 0 .. MaxIterations - 1
  BY <1>1, <1>2, ConsumeTypes
<1>5. n \in 0 .. Len(buffer) /\ n \in Nat /\ n > 0 /\ cursor \in Nat
  <2>1. Len(buffer) \in Nat /\ cursor \in Nat
    BY <1>1, BufferInNumbers
  <2> QED
    BY <1>3, <2>1
<1>6. BufferInv' /\ cursor' = Data(request, k)
  BY <1>1, <1>2, <1>3, <1>5, Consumed
<1>7. Types'
  BY <1>2, <1>4 DEF Types
<1>8. Where(k)'
  <2>1. /\ Data(request, k) + Len(request.parts[k].data) + 2 = Start(request, k + 1)
        /\ Len(request.parts[k].data) \in Nat /\ Data(request, k) \in Nat
    <3>1. /\ Len(Boundary) \in Nat /\ Start(request, k) \in Nat
          /\ Data(request, k) = Start(request, k) + Len(Boundary) + 7
          /\ Data(request, k) + Len(request.parts[k].data) + 2 = Start(request, k + 1)
          /\ Len(request.parts[k].data) \in Nat
      BY <1>1, <1>3, Places
    <3> QED
      BY <3>1
  <2>2. Data(request, k) <= cursor' /\ cursor' + 2 <= Start(request, k + 1)
    BY <1>6, <2>1
  <2>3. ~Opens(request, k)
    BY <1>3, SymbolsAssumption DEF Opens
  <2> QED
    BY <1>1, <1>2, <1>3, <1>4, <2>2, <2>3 DEF Where
<1>9. SavedInv(k)' /\ FileInv(k)'
  BY <1>2, <1>4 DEF At, SavedInv, FileInv
<1>10. EnoughIterations => RoundsInv(k)'
  <2>1. ~Drained
    BY <1>2 DEF Drained
  <2>2. Rank(k)' > Rank(k)
    BY <1>2 DEF Rank
  <2>3. k <= N
    BY <1>3
  <2> QED
    BY <1>1, <1>2, <1>5, <2>1, <2>2, <2>3, RoundsGoOn DEF At
<1> QED
  BY <1>4, <1>6, <1>7, <1>8, <1>9, <1>10 DEF At

\* The files that were saved.
LEMMA SavedTypes ==
  ASSUME Types, NEW i \in 1 .. Len(saved)
  PROVE  saved[i] \in SavedFile /\ saved[i].path \in Paths /\ saved[i].size \in Nat
<1>1. saved[i] \in SavedFile
  BY DEF Types
<1> QED
  BY <1>1 DEF SavedFile

\* The path that a part's file gets is the one of a file that is resumed, or is not
\* the one of a file that was saved.
LEMMA PathIsNew ==
  ASSUME Types, NEW k \in 1 .. Count(request), SavedInv(k), Opens(request, k),
         request.resume # None /\ k = 1 => disk = request.disk,
         NEW name, name = request.parts[k].name, Free(name) # {}
  PROVE  /\ SavePath(name) \in Paths
         /\ Resumes => /\ Base(request) = disk[SavePath(name)]
                       /\ Len(disk[SavePath(name)]) = request.resume.offset
                       /\ disk[SavePath(name)] \in Text
                       /\ request.resume.offset \in Nat
         /\ ~Resumes => Base(request) = <<>>
         /\ request.resume = None => SavePath(name)[1] = name
         /\ \A i \in 1 .. Len(saved) : saved[i].path # SavePath(name)
<1> DEFINE N == Count(request)
           path == SavePath(name)
           o == Opened(request, k - 1)
<1>1. request \in Requests /\ disk \in [Paths -> Text \cup {None}] /\ request \in Request /\ N \in Nat
  BY ParserAssumption, LeadsAreTexts DEF Types
<1>2. name \in Names
  BY DEF Opens
<1>3. request.resume \in Resume \cup {None} /\ None \notin Resume /\ None \notin Text
  BY <1>1, SymbolsAssumption DEF Request
<1>4. request.resume # None => k = 1 /\ N = 1
  BY <1>1, RequestsAssumption DEF Count
<1>5. request.resume # None => disk = request.disk /\ Len(saved) = 0
  <2>1. k = 1 => Opened(request, k - 1) = <<>>
    BY <1>1, OpenedGrows
  <2> QED
    BY <1>4, <2>1 DEF SavedInv
<1>6. CASE Resumes
  <2>1. request.resume # None /\ request.resume \in Resume
    BY <1>3, <1>6 DEF Resumes
  <2>2. path = request.resume.path /\ path \in Paths /\ request.resume.offset \in Nat
    BY <1>6, <2>1 DEF SavePath, Resume
  <2>3. disk[path] # None /\ Len(disk[path]) = request.resume.offset
    BY <1>6, <2>2 DEF Resumes
  <2>4. disk[path] \in Text
    BY <1>1, <2>2, <2>3
  <2>5. Base(request) = disk[path]
    BY <1>5, <2>1, <2>2, <2>3 DEF Base
  <2> QED
    BY <1>5, <1>6, <2>1, <2>2, <2>3, <2>4, <2>5
<1>7. CASE ~Resumes
  <2> DEFINE j == Min(Free(name))
  <2>1. path = <<name, j>>
    BY <1>7 DEF SavePath
  <2>2. Free(name) \subseteq 0 .. Copies /\ Copies \in Nat
    BY ParserAssumption DEF Free
  <2>3. j \in Free(name)
    <3>1. Free(name) \subseteq Nat
      BY <2>2
    <3> HIDE DEF Free
    <3> QED
      BY <3>1, MinIsLeast
  <2> HIDE DEF j
  <2>4. path \in Paths /\ path[1] = name
    BY <1>2, <2>1, <2>2, <2>3 DEF Paths
  <2>5. Base(request) = <<>>
    <3>1. CASE request.resume = None
      BY <3>1 DEF Base
    <3>2. CASE request.resume # None
      BY <1>5, <1>7, <3>2 DEF Base, Resumes
    <3> QED
      BY <3>1, <3>2
  <2>6. ASSUME NEW i \in 1 .. Len(saved), saved[i].path = path
        PROVE  FALSE
    <3>1. request.resume = None
      BY <1>5
    <3>2. /\ Len(saved) = Len(o) /\ saved[i].path[1] = o[i].name
          /\ disk[saved[i].path] = Base(request) \o o[i].data
      BY <3>1 DEF SavedInv
    <3>3. k - 1 \in 0 .. N /\ i \in 1 .. Len(o)
      BY <1>1, <3>2
    <3>4. PICK m \in 1 .. k - 1 : o[i] = request.parts[m] /\ Opens(request, m)
      BY <1>1, <3>3, OpenedAreParts
    <3>5. m \in DOMAIN request.parts /\ k \in DOMAIN request.parts /\ m # k
          /\ request.parts[m] \in Part
      <4>1. request.parts \in [1 .. N -> Part]
        BY <1>1, LeadsAreTexts
      <4>2. m \in 1 .. N /\ k \in 1 .. N /\ m # k
        BY <1>1
      <4> QED
        BY <4>1, <4>2
    <3>6. CASE name \in Nested
      <4>1. request.parts[m].name = name
        BY <2>4, <2>6, <3>2, <3>4
      <4> QED
        BY <1>1, <3>5, <3>6, <4>1, RequestsAssumption
    <3>7. CASE name \notin Nested
      <4>1. disk[<<name, j>>] = None
        BY <2>3, <3>7 DEF Free
      <4>2. disk[path] = <<>> \o o[i].data
        BY <2>5, <2>6, <3>2
      <4>3. o[i].data \in Text
        BY <3>4, <3>5 DEF Part
      <4>4. <<>> \o o[i].data \in Text
        <5>1. <<>> \in Text
          BY EmptySeq DEF Text
        <5> QED
          BY <4>3, <5>1, ConcatText
      <4> QED
        BY <1>3, <2>1, <4>1, <4>2, <4>4
    <3> QED
      BY <3>6, <3>7
  <2> QED
    BY <1>7, <2>4, <2>5, <2>6
<1> QED
  BY <1>6, <1>7

\* What the disk has of a file that is resumed is a text.
LEMMA BaseIsText ==
  ASSUME NEW r \in Requests
  PROVE  Base(r) \in Text
<1>1. r \in Request
  BY ParserAssumption
<1>2. <<>> \in Text
  BY EmptySeq DEF Text
<1>3. r.resume # None => r.resume.path \in Paths
  BY <1>1 DEF Request, Resume
<1>4. r.resume # None /\ r.disk[r.resume.path] # None => r.disk[r.resume.path] \in Text
  BY <1>1, <1>3 DEF Request
<1> QED
  BY <1>2, <1>4 DEF Base

\* BeginFile: the headers of a file, which is opened if it can be.
LEMMA BeginFileStep ==
  ASSUME Types, BufferInv, NEW k \in 1 .. Count(request) + 1, At(k), BeginFile
  PROVE  /\ Types' /\ BufferInv' /\ phase' # "done"
         /\ \E j \in 1 .. Count(request) + 1 : At(j)'
<1> DEFINE N == Count(request)
           n == ToHeaderEnd + 4
           name == HeaderName
           path == SavePath(name)
<1>1. request \in Requests /\ phase \in {"feed", "finish"} /\ N \in Nat
  BY LeadsAreTexts DEF Types, BeginFile, Iterates
<1>2. /\ HasHeaders /\ name # None /\ Free(name) # {} /\ Consume(n)
      /\ state = "ParseHeaders" /\ saved' = saved
  BY DEF BeginFile, Iterates
<1>3. /\ k \in 1 .. N /\ cursor + n = Data(request, k)
      /\ n \in 1 .. Len(buffer) /\ name = request.parts[k].name
  BY <1>1, <1>2, HeadersAhead DEF At
<1> HIDE DEF n
<1>4. /\ request' = request /\ phase' \in {"wait", "feed", "finish", "close"}
      /\ iterations' \in 0 .. MaxIterations - 1 /\ fed' = fed
  BY <1>1, <1>2, ConsumeTypes
<1>5. n \in 0 .. Len(buffer) /\ n \in Nat /\ n > 0 /\ cursor \in Nat
  <2>1. Len(buffer) \in Nat /\ cursor \in Nat
    BY <1>1, BufferInNumbers
  <2> QED
    BY <1>3, <2>1
<1>6. BufferInv' /\ cursor' = Data(request, k)
  BY <1>1, <1>2, <1>3, <1>5, Consumed
<1>7. name \in Names /\ k + 1 \in 1 .. N + 1
  <2>1. request.parts[k] \in Part
    BY <1>1, <1>3, LeadsAreTexts
  <2> QED
    BY <1>1, <1>2, <1>3, <2>1 DEF Part
<1>8. /\ Data(request, k) + 2 <= Start(request, k + 1) /\ Start(request, k) < Data(request, k)
      /\ Data(request, k) \in Nat
  <2>1. /\ Len(Boundary) \in Nat /\ Start(request, k) \in Nat
        /\ Data(request, k) = Start(request, k) + Len(Boundary) + 7
        /\ Data(request, k) + Len(request.parts[k].data) + 2 = Start(request, k + 1)
        /\ Len(request.parts[k].data) \in Nat
    BY <1>1, <1>3, Places
  <2> QED
    BY <2>1
<1>9. ~Drained
  BY <1>2 DEF Drained
<1>10. CASE name \in request.broken
  <2>1. state' = "FindBoundary" /\ file' = file /\ disk' = disk
    BY <1>10 DEF BeginFile
  <2>2. Types'
    BY <1>2, <1>4, <2>1 DEF Types
  <2>3. Where(k + 1)'
    <3>1. cursor' <= Start(request, k + 1)
      <4>1. Start(request, k + 1) \in Nat
        BY <1>1, <1>3, Places
      <4> QED
        BY <1>6, <1>8, <4>1
    <3>2. Start(request, (k + 1) - 1) < cursor'
      BY <1>3, <1>6, <1>8
    <3> QED
      BY <1>1, <1>4, <2>1, <3>1, <3>2 DEF Where
  <2>4. SavedInv(k + 1)'
    <3>1. Opened(request, (k + 1) - 1) = Opened(request, k - 1)
      <4>1. k - 1 \in 0 .. N - 1 /\ (k - 1) + 1 = k /\ (k + 1) - 1 = k
        BY <1>1, <1>3
      <4>2. ~Opens(request, k)
        BY <1>3, <1>10 DEF Opens
      <4>3. Opened(request, (k - 1) + 1) = Opened(request, k - 1)
        BY <1>1, <4>1, <4>2, OpenedGrows
      <4> QED
        BY <4>1, <4>3
    <3> QED
      BY <1>2, <1>4, <2>1, <3>1 DEF At, SavedInv
  <2>5. FileInv(k + 1)'
    <3>1. k + 1 # 1
      BY <1>3
    <3> QED
      BY <1>2, <1>4, <2>1, <3>1 DEF At, FileInv
  <2>6. EnoughIterations => RoundsInv(k + 1)'
    <3>1. Rank(k + 1)' > Rank(k)
      BY <1>1, <1>2, <1>3, <2>1 DEF Rank
    <3>2. k <= N
      BY <1>3
    <3> QED
      BY <1>1, <1>2, <1>5, <1>7, <1>9, <3>1, <3>2, RoundsGoOn DEF At
  <2> QED
    BY <1>4, <1>6, <1>7, <2>2, <2>3, <2>4, <2>5, <2>6 DEF At
<1>11. CASE name \notin request.broken
  <2>1. Opens(request, k)
    BY <1>3, <1>7, <1>11 DEF Opens
  <2>2. /\ state' = "StreamFileData"
        /\ file' = [path |-> path, size |-> IF Resumes THEN request.resume.offset ELSE 0]
        /\ disk' = IF Resumes THEN disk ELSE [disk EXCEPT ![path] = <<>>]
    BY <1>11 DEF BeginFile
  <2>3. /\ path \in Paths
        /\ Resumes => /\ Base(request) = disk[path]
                      /\ Len(disk[path]) = request.resume.offset
                      /\ disk[path] \in Text
                      /\ request.resume.offset \in Nat
        /\ ~Resumes => Base(request) = <<>>
        /\ request.resume = None => path[1] = name
        /\ \A i \in 1 .. Len(saved) : saved[i].path # path
    <3>1. request.resume # None /\ k = 1 => disk = request.disk
      BY <1>2 DEF At, FileInv
    <3>2. SavedInv(k)
      BY DEF At
    <3> HIDE DEF name
    <3> QED
      BY <1>2, <1>3, <2>1, <3>1, <3>2, PathIsNew
  <2> HIDE DEF path
  <2>4. disk \in [Paths -> Text \cup {None}] /\ saved \in Seq(SavedFile)
    BY DEF Types
  <2>5. <<>> \in Text /\ Len(<<>>) = 0
    BY EmptySeq DEF Text
  <2>6. /\ disk' \in [Paths -> Text \cup {None}]
        /\ disk'[path] = Base(request) /\ Len(disk'[path]) = file'.size
        /\ file' \in SavedFile /\ file'.path = path
        /\ \A p \in Paths : p # path => disk'[p] = disk[p]
    <3>1. CASE Resumes
      BY <2>2, <2>3, <2>4, <3>1 DEF SavedFile
    <3>2. CASE ~Resumes
      <4>1. disk' = [disk EXCEPT ![path] = <<>>] /\ file' = [path |-> path, size |-> 0]
        BY <2>2, <3>2
      <4> QED
        BY <2>3, <2>4, <2>5, <3>2, <4>1 DEF SavedFile
    <3> QED
      BY <3>1, <3>2
  <2>7. Types'
    BY <1>2, <1>4, <2>2, <2>6 DEF Types
  <2>8. Where(k)'
    BY <1>1, <1>3, <1>4, <1>6, <1>8, <2>1, <2>2 DEF Where, Opens
  <2>9. \A i \in 1 .. Len(saved) : disk'[saved[i].path] = disk[saved[i].path]
    <3>1. \A i \in 1 .. Len(saved) : saved[i].path \in Paths
      BY SavedTypes
    <3> QED
      BY <2>3, <2>6, <3>1
  <2>10. SavedInv(k)'
    BY <1>2, <1>4, <2>9 DEF At, SavedInv
  <2>11. FileInv(k)'
    <3>1. SubSeq(Body(request), Data(request, k) + 1, cursor') = <<>>
      <4> DEFINE c == Data(request, k)
                 w == SubSeq(Body(request), c + 1, c)
      <4>1. c <= Len(Body(request)) /\ Body(request) \in Text
        <5>1. cursor' <= fed' /\ fed' <= Len(Body(request)) /\ Len(buffer') \in Nat /\ fed' \in Nat
          <6>1. Body(request) \in Text /\ Len(Body(request)) \in Nat
            BY <1>1, BufferInNumbers
          <6>2. fed' \in 0 .. Len(Body(request)) /\ Len(buffer') \in Nat /\ cursor' = fed' - Len(buffer')
            BY <1>4, <1>6 DEF BufferInv, Text, cursor
          <6> QED
            BY <6>1, <6>2
        <5>2. Body(request) \in Text /\ Len(Body(request)) \in Nat
          BY <1>1, BufferInNumbers
        <5> QED
          BY <1>6, <1>8, <5>1, <5>2
      <4>2. c \in Nat
        BY <1>8
      <4> HIDE DEF c
      <4>3. w \in Text /\ Len(w) = c - c
        BY <4>1, <4>2, Window
      <4>4. w = <<>>
        BY <4>2, <4>3, EmptySeq DEF Text
      <4> QED
        BY <1>6, <4>4 DEF c
    <3>2. Base(request) \o <<>> = Base(request)
      BY <1>1, BaseIsText, ConcatEmptySeq DEF Text
    <3>3. disk'[file'.path] =
            Base(request) \o SubSeq(Body(request), Data(request, k) + 1, cursor')
      BY <2>6, <3>1, <3>2
    <3> QED
      BY <1>2, <1>3, <1>4, <2>2, <2>3, <2>6, <3>3 DEF FileInv
  <2>12. EnoughIterations => RoundsInv(k)'
    <3>1. Rank(k)' > Rank(k)
      BY <1>2, <2>2 DEF Rank
    <3>2. k <= N
      BY <1>3
    <3> QED
      BY <1>1, <1>2, <1>5, <1>9, <3>1, <3>2, RoundsGoOn DEF At
  <2> QED
    BY <1>4, <1>6, <2>7, <2>8, <2>10, <2>11, <2>12 DEF At
<1> QED
  BY <1>10, <1>11

\* The first n symbols of the buffer are written to the file that is open.
LEMMA FileGrows ==
  ASSUME Types, BufferInv, NEW k \in 1 .. Count(request), FileInv(k),
         state = "StreamFileData", Data(request, k) <= cursor,
         NEW n \in 0 .. Len(buffer), disk' = Written(n)
  PROVE  /\ disk' \in [Paths -> Text \cup {None}]
         /\ disk'[file.path] =
              Base(request) \o SubSeq(Body(request), Data(request, k) + 1, cursor + n)
         /\ Len(disk'[file.path]) = file.size + n
         /\ file.size \in Nat /\ file.path \in Paths
         /\ \A i \in 1 .. Len(saved) : disk'[saved[i].path] = disk[saved[i].path]
<1> DEFINE d == Data(request, k)
           c == cursor
           b == Body(request)
           base == Base(request)
           w == SubSeq(b, d + 1, c)
           v == SubSeq(buffer, 1, n)
           p == file.path
<1>1. request \in Requests /\ disk \in [Paths -> Text \cup {None}]
  BY DEF Types
<1>2. /\ file \in SavedFile /\ disk[p] = base \o w /\ file.size = Len(disk[p])
      /\ \A i \in 1 .. Len(saved) : saved[i].path # p
  BY DEF FileInv
<1>3. p \in Paths /\ file.size \in Nat
  BY <1>2 DEF SavedFile
<1>4. /\ b \in Text /\ Len(b) \in Nat /\ fed \in Nat /\ c \in Nat /\ c <= fed /\ fed <= Len(b)
      /\ buffer \in Text /\ Len(buffer) \in Nat /\ Len(buffer) = fed - c
      /\ buffer = SubSeq(b, c + 1, fed)
  BY <1>1, BufferInNumbers
<1>5. d \in Nat /\ d <= c
  <2>1. /\ Len(Boundary) \in Nat /\ Start(request, k) \in Nat
        /\ Data(request, k) = Start(request, k) + Len(Boundary) + 7
    BY <1>1, Places
  <2> QED
    BY <2>1
<1>6. disk' = [disk EXCEPT ![p] = @ \o v]
  BY DEF Written
<1> HIDE DEF d, c, b, base, w, v, p
<1>7. /\ base \in Text /\ w \in Text
  <2>1. c <= Len(b)
    BY <1>4
  <2> QED
    BY <1>1, <1>4, <1>5, <2>1, BaseIsText, Window DEF base, w
<1>8. v = SubSeq(b, c + 1, c + n) /\ v \in Text /\ Len(v) = n
  <2> DEFINE u == SubSeq(b, c + 1, c + n)
    <2>1. v \in Text /\ Len(v) = n /\ \A i \in 1 .. n : v[i] = buffer[i]
    BY <1>4, FirstSymbols DEF v
  <2>2. c + n \in Nat /\ c <= c + n /\ c + n <= Len(b) /\ (c + n) - c = n
    BY <1>4
  <2>3. u \in Text /\ Len(u) = (c + n) - c /\ \A i \in 1 .. (c + n) - c : u[i] = b[c + i]
    BY <1>4, <2>2, Window
  <2>4. \A i \in 1 .. fed - c : buffer[i] = b[c + i]
    BY <1>4, Window
  <2> HIDE DEF u
  <2>6. \A i \in 1 .. n : v[i] = u[i]
    <3>1. \A i \in 1 .. n : i \in 1 .. fed - c /\ i \in 1 .. (c + n) - c
      BY <1>4
    <3> QED
      BY <2>1, <2>3, <2>4, <3>1
  <2>7. v \in Text /\ Len(v) = n /\ Len(u) = n
    BY <1>4, <2>1, <2>2, <2>3
  <2>8. v = u
    BY <2>3, <2>6, <2>7, SameText
  <2> QED
    BY <2>7, <2>8 DEF u
<1>9. w \o v = SubSeq(b, d + 1, c + n)
  <2>1. c + n <= Len(b) /\ n \in Nat
    BY <1>4
  <2> QED
    BY <1>4, <1>5, <1>8, <2>1, WindowGrows DEF w
<1>10. (base \o w) \o v = base \o (w \o v)
  <2>1. base \in Seq(Symbols) /\ w \in Seq(Symbols) /\ v \in Seq(Symbols)
    BY <1>7, <1>8 DEF Text
  <2> QED
    BY <2>1, ConcatAssociative
<1>11. disk[p] \in Text
  BY <1>2, <1>7, ConcatText
<1>12. /\ disk[p] \o v \in Text /\ Len(disk[p] \o v) = Len(disk[p]) + Len(v)
  BY <1>8, <1>11, ConcatText
<1>13. disk' \in [Paths -> Text \cup {None}] /\ disk'[p] = disk[p] \o v
  BY <1>1, <1>3, <1>6, <1>12
<1>14. disk'[p] = base \o SubSeq(b, d + 1, c + n)
  BY <1>2, <1>9, <1>10, <1>13
<1>15. Len(disk'[p]) = file.size + n
  BY <1>2, <1>8, <1>12, <1>13
<1>16. ASSUME NEW i \in 1 .. Len(saved) PROVE disk'[saved[i].path] = disk[saved[i].path]
  <2>1. saved[i].path \in Paths /\ saved[i].path # p
    BY <1>2, SavedTypes
  <2> QED
    BY <1>1, <1>6, <2>1
<1> QED
  BY <1>3, <1>13, <1>14, <1>15, <1>16 DEF p, base, b, d, c

\* WriteSafe: what is safe is written.
LEMMA WriteSafeStep ==
  ASSUME Types, BufferInv, NEW k \in 1 .. Count(request) + 1, At(k), WriteSafe
  PROVE  Types' /\ BufferInv' /\ phase' # "done" /\ At(k)'
<1> DEFINE N == Count(request)
           n == Safe
<1>1. request \in Requests /\ phase \in {"feed", "finish"} /\ N \in Nat
  BY LeadsAreTexts DEF Types, WriteSafe, Iterates
<1>2. /\ ~HasBoundary /\ Consume(n) /\ state = "StreamFileData"
      /\ state' = state /\ saved' = saved /\ disk' = Written(n)
      /\ file' = [file EXCEPT !.size = @ + n]
  BY DEF WriteSafe, Iterates
<1>3. /\ request' = request /\ phase' \in {"wait", "feed", "finish", "close"}
      /\ iterations' \in 0 .. MaxIterations - 1
  <2> HIDE DEF n
  <2> QED
    BY <1>1, <1>2, ConsumeTypes
<1>4. /\ k \in 1 .. N /\ Data(request, k) <= cursor /\ cursor + 2 <= Start(request, k + 1)
      /\ Opens(request, k)
  BY <1>1, <1>2 DEF At, Where
<1>5. /\ k + 1 \in 1 .. N + 1 /\ Start(request, k) \in Nat /\ Start(request, k + 1) \in Nat
      /\ Data(request, k) = Start(request, k) + Len(Boundary) + 7 /\ Len(Boundary) \in Nat
  BY <1>1, <1>4, Places
<1>6. cursor \in Nat /\ Len(buffer) \in Nat
  BY <1>1, BufferInNumbers
<1>7. cursor <= Start(request, k + 1) /\ Start(request, (k + 1) - 1) < cursor
  BY <1>4, <1>5, <1>6
<1>8. n \in 0 .. Len(buffer) /\ (n > 0 => cursor + n + 2 <= Start(request, k + 1))
  BY <1>1, <1>2, <1>5, <1>7, SafeIsBefore
<1>9. BufferInv' /\ cursor' = cursor + n
  BY <1>1, <1>2, <1>8, Consumed
<1>10. file \in SavedFile /\ FileInv(k)
  BY <1>2 DEF At, FileInv
<1> HIDE DEF n
<1>11. /\ disk' \in [Paths -> Text \cup {None}]
       /\ disk'[file.path] =
            Base(request) \o SubSeq(Body(request), Data(request, k) + 1, cursor + n)
       /\ Len(disk'[file.path]) = file.size + n
       /\ file.size \in Nat /\ file.path \in Paths
       /\ \A i \in 1 .. Len(saved) : disk'[saved[i].path] = disk[saved[i].path]
  BY <1>2, <1>4, <1>8, <1>10, FileGrows
<1>12. n \in Nat
  BY <1>6, <1>8
<1>13. file' \in SavedFile /\ file'.path = file.path /\ file'.size = file.size + n
  BY <1>2, <1>10, <1>11, <1>12 DEF SavedFile
<1>14. Types'
  BY <1>2, <1>3, <1>11 DEF Types
<1>15. Where(k)'
  <2>1. Data(request, k) <= cursor' /\ cursor' + 2 <= Start(request, k + 1)
    BY <1>4, <1>5, <1>6, <1>8, <1>9, <1>12
  <2> QED
    BY <1>2, <1>3, <1>4, <2>1 DEF Where
<1>16. SavedInv(k)'
  BY <1>2, <1>3, <1>11 DEF At, SavedInv
<1>17. FileInv(k)'
  <2>1. disk'[file'.path] = Base(request) \o SubSeq(Body(request), Data(request, k) + 1, cursor')
    BY <1>9, <1>11, <1>13
  <2>2. file'.size = Len(disk'[file'.path])
    BY <1>11, <1>13
  <2>3. /\ request.resume = None => file'.path[1] = request.parts[k].name
        /\ \A i \in 1 .. Len(saved) : saved[i].path # file'.path
    BY <1>2, <1>10, <1>13 DEF FileInv
  <2> QED
    BY <1>2, <1>3, <1>13, <2>1, <2>2, <2>3 DEF FileInv
<1>18. EnoughIterations => RoundsInv(k)'
  <2>1. Drained'
    BY <1>1, <1>2, SkippedSafely DEF n
  <2> QED
    BY <1>1, <1>2, <1>12, <2>1, RoundsGoOn DEF At
<1> QED
  BY <1>3, <1>9, <1>14, <1>15, <1>16, <1>17, <1>18 DEF At

\* A boundary in the buffer is the one after the data.
LEMMA BoundaryAfterData ==
  ASSUME request \in Requests, BufferInv, NEW k \in 1 .. Count(request) + 1, Where(k),
         state \in {"StreamFileData", "BufferFormData"}
  PROVE  /\ k \in 1 .. Count(request)
         /\ HasBoundary <=> Header(request, k + 1) <= fed
         /\ HasBoundary => /\ ToBoundary \in 2 .. Len(buffer) /\ ToBoundary \in Nat
                           /\ cursor + ToBoundary = Start(request, k + 1)
<1> DEFINE s == Start(request, k + 1)
           c == cursor
<1>1. /\ k \in 1 .. Count(request) /\ Data(request, k) <= cursor /\ c + 2 <= s
  BY LeadsAreTexts DEF Where
<1>2. /\ k + 1 \in 1 .. Count(request) + 1 /\ Start(request, k) \in Nat /\ s \in Nat
      /\ Data(request, k) = Start(request, k) + Len(Boundary) + 7 /\ Len(Boundary) \in Nat
      /\ Header(request, k + 1) = s + Len(Boundary)
  BY <1>1, Places
<1>3. c \in Nat /\ fed \in Nat /\ Len(buffer) \in Nat /\ Len(buffer) = fed - c
  BY BufferInNumbers
<1>4. c <= s /\ Start(request, (k + 1) - 1) < c
  BY <1>1, <1>2, <1>3
<1>5. /\ HasBoundary <=> Header(request, k + 1) <= fed
      /\ HasBoundary => ToBoundary = s - c
  BY <1>2, <1>4, BoundaryInBuffer
<1> HIDE DEF s, c
<1>6. HasBoundary => /\ ToBoundary \in 2 .. Len(buffer) /\ ToBoundary \in Nat
                     /\ c + ToBoundary = s
  BY <1>1, <1>2, <1>3, <1>5
<1> QED
  BY <1>1, <1>5, <1>6 DEF s, c

\* The line end before it is not data.
LEMMA LineEndBefore ==
  ASSUME request \in Requests, BufferInv, NEW k \in 1 .. Count(request),
         NEW n \in 2 .. Len(buffer), cursor + n = Start(request, k + 1)
  PROVE  /\ WithoutLineEnd(n) = n - 2
         /\ n - 2 \in 0 .. Len(buffer)
         /\ cursor + (n - 2) = Data(request, k) + Len(request.parts[k].data)
<1> DEFINE s == Start(request, k + 1)
           c == cursor
           b == Body(request)
           d == Data(request, k) + Len(request.parts[k].data)
<1>1. /\ Body(request) \in Text /\ fed \in Nat /\ c \in Nat /\ c <= fed /\ fed <= Len(b)
      /\ buffer = SubSeq(b, c + 1, fed) /\ Len(buffer) \in Nat /\ Len(buffer) = fed - c
  BY BufferInNumbers
<1>2. d + 2 = s /\ d \in Nat
  <2>1. /\ Start(request, k) \in Nat /\ Len(Boundary) \in Nat /\ Len(request.parts[k].data) \in Nat
        /\ Data(request, k) = Start(request, k) + Len(Boundary) + 7
        /\ Data(request, k) + Len(request.parts[k].data) + 2 = Start(request, k + 1)
    BY Places
  <2> QED
    BY <2>1
<1>3. b[d + 1] = CR /\ b[d + 2] = LF
  BY PartsInBody DEF PartAt, Data
<1> HIDE DEF s, c, b, d
<1>4. n \in 1 .. fed - c /\ n - 1 \in 1 .. fed - c /\ c + n = d + 2 /\ c + (n - 1) = d + 1
  BY <1>1, <1>2 DEF s, c
<1>5. \A i \in 1 .. fed - c : buffer[i] = b[c + i]
  BY <1>1, Window DEF b
<1>6. buffer[n] = LF /\ buffer[n - 1] = CR
  BY <1>3, <1>4, <1>5
<1>7. n > 0 /\ n - 1 > 0 /\ (n - 1) - 1 = n - 2
  OBVIOUS
<1>8. WithoutLineEnd(n) = n - 2
  BY <1>6, <1>7 DEF WithoutLineEnd
<1>9. n - 2 \in 0 .. Len(buffer) /\ c + (n - 2) = d
  BY <1>1, <1>2, <1>4
<1> QED
  BY <1>8, <1>9 DEF c, d

\* The files of the first k parts, if all of part k was stored or it is not a file.
LEMMA NextOpened ==
  ASSUME NEW r \in Requests, NEW k \in 1 .. Count(r)
  PROVE  /\ Opened(r, k - 1) \in Seq(Part)
         /\ Opened(r, (k + 1) - 1) = IF Opens(r, k) THEN Append(Opened(r, k - 1), r.parts[k])
                                                    ELSE Opened(r, k - 1)
<1>1. k - 1 \in 0 .. Count(r) - 1 /\ k - 1 \in 0 .. Count(r) /\ (k - 1) + 1 = k /\ (k + 1) - 1 = k
  BY LeadsAreTexts
<1>2. Opened(r, (k - 1) + 1) = IF Opens(r, (k - 1) + 1)
                               THEN Append(Opened(r, k - 1), r.parts[(k - 1) + 1])
                               ELSE Opened(r, k - 1)
  BY <1>1, OpenedGrows
<1>3. Opened(r, k - 1) \in Seq(Part)
  BY <1>1, OpenedGrows
<1> QED
  BY <1>1, <1>2, <1>3

\* EndField: up to the boundary after a form field.
LEMMA EndFieldStep ==
  ASSUME Types, BufferInv, NEW k \in 1 .. Count(request) + 1, At(k), EndField
  PROVE  Types' /\ BufferInv' /\ phase' # "done" /\ k + 1 \in 1 .. Count(request) + 1 /\ At(k + 1)'
<1> DEFINE N == Count(request)
           n == ToBoundary
<1>1. request \in Requests /\ phase \in {"feed", "finish"} /\ N \in Nat
  BY LeadsAreTexts DEF Types, EndField, Iterates
<1>2. /\ HasBoundary /\ Consume(n) /\ state = "BufferFormData"
      /\ state' = "FindBoundary" /\ file' = file /\ saved' = saved /\ disk' = disk
  BY DEF EndField, Iterates
<1>3. k \in 1 .. N /\ n \in 2 .. Len(buffer) /\ n \in Nat /\ cursor + n = Start(request, k + 1)
  BY <1>1, <1>2, BoundaryAfterData DEF At
<1> HIDE DEF n
<1>4. /\ request' = request /\ phase' \in {"wait", "feed", "finish", "close"}
      /\ iterations' \in 0 .. MaxIterations - 1
  BY <1>1, <1>2, ConsumeTypes
<1>5. n \in 0 .. Len(buffer) /\ n > 0
  BY <1>3
<1>6. BufferInv' /\ cursor' = Start(request, k + 1)
  BY <1>1, <1>2, <1>3, <1>5, Consumed
<1>7. Types'
  BY <1>2, <1>4 DEF Types
<1>8. /\ k + 1 \in 1 .. N + 1 /\ Start(request, k) < Start(request, k + 1)
      /\ Start(request, k + 1) \in Nat
  <2>1. /\ k + 1 \in 1 .. N + 1 /\ Start(request, k) \in Nat /\ Start(request, k + 1) \in Nat
        /\ Len(Boundary) \in Nat /\ Len(request.parts[k].data) \in Nat
        /\ Data(request, k) = Start(request, k) + Len(Boundary) + 7
        /\ Data(request, k) + Len(request.parts[k].data) + 2 = Start(request, k + 1)
    BY <1>1, <1>3, Places
  <2> QED
    BY <2>1
<1>9. Where(k + 1)'
  <2>1. Start(request, (k + 1) - 1) < cursor' /\ cursor' <= Start(request, k + 1)
    BY <1>3, <1>6, <1>8
  <2> QED
    BY <1>1, <1>2, <1>4, <2>1 DEF Where
<1>10. SavedInv(k + 1)'
  <2>1. Opened(request, (k + 1) - 1) = Opened(request, k - 1)
    BY <1>1, <1>2, <1>3, NextOpened DEF At, Where
  <2> QED
    BY <1>2, <1>4, <2>1 DEF At, SavedInv
<1>11. FileInv(k + 1)'
  <2>1. k + 1 # 1
    BY <1>3
  <2> QED
    BY <1>2, <1>4, <2>1 DEF At, FileInv
<1>12. EnoughIterations => RoundsInv(k + 1)'
  <2>1. ~Drained
    BY <1>2 DEF Drained
  <2>2. Rank(k + 1)' > Rank(k)
    BY <1>1, <1>2, <1>3 DEF Rank
  <2>3. k <= N
    BY <1>3
  <2> QED
    BY <1>1, <1>2, <1>3, <1>5, <1>8, <2>1, <2>2, <2>3, RoundsGoOn DEF At
<1> QED
  BY <1>4, <1>6, <1>7, <1>8, <1>9, <1>10, <1>11, <1>12 DEF At

\* WriteRest: up to the line end before the boundary; the file is saved.
LEMMA WriteRestStep ==
  ASSUME Types, BufferInv, NEW k \in 1 .. Count(request) + 1, At(k), WriteRest
  PROVE  Types' /\ BufferInv' /\ phase' # "done" /\ k + 1 \in 1 .. Count(request) + 1 /\ At(k + 1)'
<1> DEFINE N == Count(request)
           m == ToBoundary
           n == WithoutLineEnd(m)
           f == [file EXCEPT !.size = @ + n]
           o == Opened(request, k - 1)
           q == Opened(request, (k + 1) - 1)
           x == request.parts[k]
<1>1. request \in Requests /\ phase \in {"feed", "finish"} /\ N \in Nat
  BY LeadsAreTexts DEF Types, WriteRest, Iterates
<1>2. /\ HasBoundary /\ Consume(m) /\ state = "StreamFileData"
      /\ state' = "FindBoundary" /\ file' = None /\ saved' = Append(saved, f) /\ disk' = Written(n)
  BY DEF WriteRest, Iterates
<1>3. k \in 1 .. N /\ m \in 2 .. Len(buffer) /\ m \in Nat /\ cursor + m = Start(request, k + 1)
  BY <1>1, <1>2, BoundaryAfterData DEF At
<1> HIDE DEF m
<1>4. /\ request' = request /\ phase' \in {"wait", "feed", "finish", "close"}
      /\ iterations' \in 0 .. MaxIterations - 1
  BY <1>1, <1>2, ConsumeTypes
<1>5. m \in 0 .. Len(buffer) /\ m > 0
  BY <1>3
<1>6. BufferInv' /\ cursor' = Start(request, k + 1)
  BY <1>1, <1>2, <1>3, <1>5, Consumed
<1>7. n = m - 2 /\ n \in 0 .. Len(buffer) /\ cursor + n = Data(request, k) + Len(x.data)
  BY <1>1, <1>3, LineEndBefore
<1> HIDE DEF n
<1>8. n \in Nat
  BY <1>3, <1>7
<1>9. FileInv(k) /\ Data(request, k) <= cursor /\ Opens(request, k) /\ SavedInv(k) /\ file \in SavedFile
  BY <1>2 DEF At, Where, FileInv
<1>10. /\ disk' \in [Paths -> Text \cup {None}]
       /\ disk'[file.path] =
            Base(request) \o SubSeq(Body(request), Data(request, k) + 1, cursor + n)
       /\ Len(disk'[file.path]) = file.size + n
       /\ file.size \in Nat /\ file.path \in Paths
       /\ \A i \in 1 .. Len(saved) : disk'[saved[i].path] = disk[saved[i].path]
  BY <1>2, <1>3, <1>7, <1>9, FileGrows
<1>11. f \in SavedFile /\ f.path = file.path /\ f.size = file.size + n
  BY <1>8, <1>9, <1>10 DEF SavedFile
<1> HIDE DEF f
<1>12. saved \in Seq(SavedFile) /\ Len(saved) \in Nat
  BY DEF Types
<1>13. /\ saved' \in Seq(SavedFile) /\ Len(saved') = Len(saved) + 1 /\ saved'[Len(saved) + 1] = f
       /\ \A i \in 1 .. Len(saved) : saved'[i] = saved[i]
  BY <1>2, <1>11, <1>12
<1>14. Types'
  BY <1>2, <1>4, <1>10, <1>13 DEF Types
<1>15. /\ k + 1 \in 1 .. N + 1 /\ Start(request, k) < Start(request, k + 1)
       /\ Start(request, k + 1) \in Nat
  <2>1. /\ k + 1 \in 1 .. N + 1 /\ Start(request, k) \in Nat /\ Start(request, k + 1) \in Nat
        /\ Len(Boundary) \in Nat /\ Len(x.data) \in Nat
        /\ Data(request, k) = Start(request, k) + Len(Boundary) + 7
        /\ Data(request, k) + Len(x.data) + 2 = Start(request, k + 1)
    BY <1>1, <1>3, Places
  <2> QED
    BY <2>1
<1>16. Where(k + 1)'
  <2>1. Start(request, (k + 1) - 1) < cursor' /\ cursor' <= Start(request, k + 1)
    BY <1>3, <1>6, <1>15
  <2> QED
    BY <1>1, <1>2, <1>4, <2>1 DEF Where
<1>17. disk'[f.path] = Base(request) \o x.data /\ f.size = Len(disk'[f.path])
  <2>1. SubSeq(Body(request), Data(request, k) + 1, cursor + n) = x.data
    BY <1>1, <1>3, <1>7, DataInBody
  <2> QED
    BY <1>10, <1>11, <2>1
<1>18. o \in Seq(Part) /\ q = Append(o, x) /\ x \in Part
  BY <1>1, <1>3, <1>9, NextOpened, LeadsAreTexts
<1>19. /\ Len(saved) = Len(o)
       /\ \A i \in 1 .. Len(saved) :
            /\ disk[saved[i].path] = Base(request) \o o[i].data
            /\ saved[i].size = Len(disk[saved[i].path])
            /\ request.resume = None => saved[i].path[1] = o[i].name
       /\ \A i, j \in 1 .. Len(saved) : saved[i].path = saved[j].path => i = j
  BY <1>9 DEF SavedInv
<1>20. /\ request.resume = None => f.path[1] = x.name
       /\ \A i \in 1 .. Len(saved) : saved[i].path # f.path
  BY <1>2, <1>9, <1>11 DEF FileInv
<1> HIDE DEF o, x
<1>21. /\ Len(q) = Len(saved) + 1 /\ q[Len(saved) + 1] = x
       /\ \A i \in 1 .. Len(saved) : q[i] = o[i]
  <2> HIDE DEF q
  <2> QED
    BY <1>12, <1>18, <1>19
<1> HIDE DEF q
<1>22. ASSUME NEW i \in 1 .. Len(saved')
       PROVE  /\ disk'[saved'[i].path] = Base(request) \o q[i].data
              /\ saved'[i].size = Len(disk'[saved'[i].path])
              /\ request.resume = None => saved'[i].path[1] = q[i].name
  <2>1. CASE i \in 1 .. Len(saved)
    <3>1. saved'[i] = saved[i] /\ q[i] = o[i] /\ disk'[saved[i].path] = disk[saved[i].path]
      BY <1>10, <1>13, <1>21, <2>1
    <3>2. /\ disk[saved[i].path] = Base(request) \o o[i].data
          /\ saved[i].size = Len(disk[saved[i].path])
          /\ request.resume = None => saved[i].path[1] = o[i].name
      BY <1>19, <2>1
    <3> QED
      BY <3>1, <3>2
  <2>2. CASE i = Len(saved) + 1
    BY <1>13, <1>17, <1>20, <1>21, <2>2
  <2> QED
    BY <1>12, <1>13, <2>1, <2>2
<1>23. ASSUME NEW i \in 1 .. Len(saved'), NEW j \in 1 .. Len(saved'),
              saved'[i].path = saved'[j].path
       PROVE  i = j
  <2>1. /\ i \in 1 .. Len(saved) \/ i = Len(saved) + 1
        /\ j \in 1 .. Len(saved) \/ j = Len(saved) + 1
    BY <1>12, <1>13
  <2> QED
    BY <1>13, <1>19, <1>20, <1>23, <2>1
<1>24. SavedInv(k + 1)'
  BY <1>4, <1>13, <1>21, <1>22, <1>23 DEF SavedInv, q
<1>25. FileInv(k + 1)'
  <2>1. k + 1 # 1
    BY <1>3
  <2> QED
    BY <1>2, <1>4, <2>1 DEF FileInv
<1>26. EnoughIterations => RoundsInv(k + 1)'
  <2>1. ~Drained
    BY <1>2 DEF Drained
  <2>2. Rank(k + 1)' > Rank(k)
    BY <1>1, <1>2, <1>3 DEF Rank
  <2>3. k <= N
    BY <1>3
  <2> QED
    BY <1>1, <1>2, <1>3, <1>5, <1>15, <2>1, <2>2, <2>3, RoundsGoOn DEF At
<1> QED
  BY <1>4, <1>6, <1>14, <1>15, <1>16, <1>24, <1>25, <1>26 DEF At

\* Feed: a block of the body is added to the buffer.
LEMMA FeedStep ==
  ASSUME Types, BufferInv, NEW k \in 1 .. Count(request) + 1, At(k), NEW n \in Nat, Feed(n)
  PROVE  Types' /\ BufferInv' /\ phase' # "done" /\ At(k)'
<1> DEFINE b == Body(request)
           c == cursor
<1>1. /\ request \in Requests /\ phase = "wait" /\ phase' = "feed"
      /\ n \in 1 .. Len(b) - fed /\ fed' = fed + n
      /\ buffer' = buffer \o SubSeq(b, fed + 1, fed + n)
      /\ request' = request /\ state' = state /\ file' = file /\ saved' = saved /\ disk' = disk
      /\ iterations' = iterations
  BY DEF Types, Feed
<1>2. /\ b \in Text /\ Len(b) \in Nat /\ fed \in Nat /\ c \in Nat /\ c <= fed /\ fed <= Len(b)
      /\ buffer \in Text /\ Len(buffer) \in Nat /\ Len(buffer) = fed - c
      /\ buffer = SubSeq(b, c + 1, fed)
  BY <1>1, BufferInNumbers
<1> HIDE DEF b, c
<1>3. fed + n <= Len(b) /\ fed + n \in Nat /\ c <= fed + n
  BY <1>1, <1>2
<1>4. buffer' = SubSeq(b, c + 1, fed + n)
  BY <1>1, <1>2, <1>3, WindowGrows
<1>5. buffer' \in Text /\ Len(buffer') = (fed + n) - c
  BY <1>2, <1>3, <1>4, Window
<1>6. cursor' = c
  BY <1>1, <1>2, <1>5 DEF cursor
<1>7. BufferInv'
  <2>1. fed' \in 0 .. Len(b) /\ Len(buffer') <= fed'
    BY <1>1, <1>2, <1>3, <1>5
  <2> QED
    BY <1>1, <1>4, <1>5, <1>6, <2>1 DEF BufferInv, b
<1>8. Types'
  BY <1>1 DEF Types
<1>9. Where(k)' /\ SavedInv(k)' /\ FileInv(k)'
  BY <1>1, <1>6 DEF At, Where, SavedInv, FileInv, c
<1>10. EnoughIterations => RoundsInv(k)'
  <2>1. 0 <= Rank(k)'
    BY LeadsAreTexts DEF Rank
  <2> QED
    BY <1>1, <2>1 DEF At, RoundsInv
<1> QED
  BY <1>1, <1>7, <1>8, <1>9, <1>10 DEF At

\* Finish: the body ends, or the connection does.
LEMMA FinishStep ==
  ASSUME Types, BufferInv, NEW k \in 1 .. Count(request) + 1, At(k), Finish
  PROVE  Types' /\ BufferInv' /\ phase' # "done" /\ At(k)'
<1>1. /\ phase = "wait" /\ phase' = "finish"
      /\ UNCHANGED <<request, fed, buffer, state, file, saved, disk, iterations>>
  BY DEF Finish
<1>2. Types' /\ BufferInv'
  BY <1>1 DEF Types, BufferInv, cursor
<1>3. Where(k)' /\ SavedInv(k)' /\ FileInv(k)'
  BY <1>1 DEF At, Where, SavedInv, FileInv, cursor
<1>4. EnoughIterations => RoundsInv(k)'
  <2>1. 0 <= Rank(k)'
    BY LeadsAreTexts DEF Rank
  <2> QED
    BY <1>1, <2>1 DEF At, RoundsInv
<1> QED
  BY <1>1, <1>2, <1>3, <1>4 DEF At

\* At the end of a call all that can be taken from the buffer was taken: a body that
\* arrived as a whole leaves no file open.
LEMMA WholeIsDrained ==
  ASSUME Types, BufferInv, NEW k \in 1 .. Count(request) + 1, At(k), Drained,
         fed = Len(Body(request))
  PROVE  k = Count(request) + 1 /\ state # "StreamFileData"
<1> DEFINE N == Count(request)
           h == Len(Boundary)
           e == Start(request, N + 1)
<1>1. request \in Requests
  BY DEF Types
<1>2. N \in Nat /\ N + 1 \in 1 .. N + 1 /\ h \in Nat /\ Where(k)
  BY <1>1, LastPlaces DEF At
<1>3. e \in Nat /\ fed = e + h + 4 /\ Header(request, N + 1) = e + h
  BY <1>1, <1>2, LastPlaces
<1> HIDE DEF h, e, N
<1>4. ASSUME state = "FindBoundary", k \in 1 .. N
      PROVE  FALSE
  <2>1. ~HasBoundary
    BY <1>4 DEF Drained
  <2>2. cursor <= Start(request, k) /\ (k > 1 => Start(request, k - 1) < cursor)
    BY <1>2, <1>4 DEF Where, N
  <2>3. ~(Header(request, k) <= fed)
    BY <1>1, <2>1, <2>2, BoundaryInBuffer
  <2>4. /\ Start(request, k) \in Nat /\ Header(request, k) = Start(request, k) + h
        /\ Start(request, k) <= e
    BY <1>1, LastPlaces DEF h, e, N
  <2> QED
    BY <1>2, <1>3, <2>3, <2>4
<1>5. ASSUME state = "ParseHeaders", k \in 1 .. N
      PROVE  FALSE
  <2>1. ~HasHeaders
    BY <1>5 DEF Drained
  <2>2. Header(request, k) <= cursor /\ cursor <= Header(request, k) + 2
    BY <1>2, <1>5 DEF Where, N
  <2>3. ~(Data(request, k) <= fed)
    BY <1>1, <1>5, <2>1, <2>2, HeadersInBuffer DEF N
  <2>4. /\ Start(request, k) \in Nat /\ Data(request, k) = Start(request, k) + h + 7
        /\ Data(request, k) + Len(request.parts[k].data) + 2 = Start(request, k + 1)
        /\ Len(request.parts[k].data) \in Nat /\ k + 1 \in 1 .. N + 1
    BY <1>1, <1>5, Places DEF h, N
  <2>5. Start(request, k + 1) \in Nat /\ Start(request, k + 1) <= e
    BY <1>1, <2>4, LastPlaces DEF e, N
  <2> DEFINE s == Start(request, k)
             t == Start(request, k + 1)
             d == Len(request.parts[k].data)
             x == Data(request, k)
  <2>6. s \in Nat /\ t \in Nat /\ d \in Nat /\ x = s + h + 7 /\ x + d + 2 = t /\ t <= e
    BY <2>4, <2>5
  <2> HIDE DEF s, t, d, x
  <2>7. x <= fed
    BY <1>2, <1>3, <2>6
  <2> QED
    BY <2>3, <2>7 DEF x
<1>6. ASSUME state \in {"StreamFileData", "BufferFormData"}
      PROVE  FALSE
  <2>1. ~HasBoundary
    BY <1>6 DEF Drained
  <2>2. k \in 1 .. N /\ ~(Header(request, k + 1) <= fed)
    BY <1>1, <1>2, <1>6, <2>1, BoundaryAfterData DEF N
  <2>3. k + 1 \in 1 .. N + 1
    BY <1>2, <2>2
  <2>4. /\ Start(request, k + 1) \in Nat /\ Header(request, k + 1) = Start(request, k + 1) + h
        /\ Start(request, k + 1) <= e
    BY <1>1, <2>3, LastPlaces DEF h, e, N
  <2> QED
    BY <1>2, <1>3, <2>2, <2>4
<1>7. k \in 1 .. N + 1
  BY DEF N
<1>8. k \in 1 .. N => FALSE
  BY <1>4, <1>5, <1>6 DEF Types
<1> QED
  BY <1>2, <1>6, <1>7, <1>8 DEF N

\* Close: the file that is open is saved.
LEMMA CloseStep ==
  ASSUME Types, BufferInv, NEW k \in 1 .. Count(request) + 1, At(k), Close
  PROVE  Types' /\ BufferInv' /\ phase' = "done" /\ Done'
<1>1. /\ phase = "close" /\ phase' = "done" /\ file' = None
      /\ saved' = IF file = None THEN saved ELSE Append(saved, file)
      /\ state' = IF file = None THEN state ELSE "FindBoundary"
      /\ UNCHANGED <<request, fed, buffer, disk, iterations>>
  BY DEF Close
<1>2. BufferInv'
  BY <1>1 DEF BufferInv, cursor
<1>3. saved \in Seq(SavedFile) /\ request \in Requests
  BY DEF Types
<1>4. /\ state = "StreamFileData" => file \in SavedFile /\ file.size = Len(disk[file.path])
      /\ state # "StreamFileData" => file = None
  BY DEF At, FileInv
<1>5. \A i \in 1 .. Len(saved) : saved[i].size = Len(disk[saved[i].path])
  BY DEF At, SavedInv
<1>6. Types' /\ state' # "StreamFileData" /\ SizesAreTrue'
  <2>1. CASE file = None
    <3>1. state # "StreamFileData"
      BY <1>4, <2>1, SymbolsAssumption
    <3>2. saved' = saved /\ state' = state
      BY <1>1, <2>1
    <3>3. DOMAIN saved = 1 .. Len(saved)
      BY <1>3
    <3> QED
      BY <1>1, <1>5, <3>1, <3>2, <3>3 DEF Types, SizesAreTrue
  <2>2. CASE file # None
    <3>1. file \in SavedFile /\ file.size = Len(disk[file.path])
      BY <1>4, <2>2
    <3>2. saved' = Append(saved, file) /\ state' = "FindBoundary"
      BY <1>1, <2>2
    <3>3. /\ saved' \in Seq(SavedFile) /\ DOMAIN saved' = 1 .. Len(saved) + 1
          /\ saved'[Len(saved) + 1] = file /\ \A i \in 1 .. Len(saved) : saved'[i] = saved[i]
          /\ Len(saved) \in Nat
      BY <1>3, <3>1, <3>2
    <3>4. ASSUME NEW i \in DOMAIN saved' PROVE saved'[i].size = Len(disk'[saved'[i].path])
      <4>1. i \in 1 .. Len(saved) \/ i = Len(saved) + 1
        BY <3>3
      <4>2. disk' = disk
        BY <1>1
      <4> QED
        BY <1>5, <3>1, <3>3, <4>1, <4>2
    <3> QED
      BY <1>1, <3>2, <3>3, <3>4 DEF Types, SizesAreTrue
  <2> QED
    BY <2>1, <2>2
<1>7. ASSUME EnoughIterations, fed' = Len(Body(request'))
      PROVE  SavedInv(Count(request) + 1)'
  <2>1. Drained /\ fed = Len(Body(request))
    BY <1>1, <1>7 DEF At, RoundsInv
  <2>2. k = Count(request) + 1 /\ file = None
    BY <1>4, <2>1, WholeIsDrained
  <2> QED
    BY <1>1, <2>2 DEF At, SavedInv
<1>8. Done'
  BY <1>1, <1>6, <1>7 DEF Done
<1> QED
  BY <1>1, <1>2, <1>6, <1>8

\* The steps of the parser keep the invariant.
LEMMA ParserInvStep ==
  ParserInv /\ [ParserNext]_parserVars => ParserInv'
<1> SUFFICES ASSUME ParserInv, [ParserNext]_parserVars PROVE ParserInv'
  OBVIOUS
<1>1. CASE UNCHANGED parserVars
  <2>1. UNCHANGED <<request, fed, buffer, state, file, saved, disk, phase, iterations>>
    BY <1>1 DEF parserVars
  <2>2. Types' <=> Types
    BY <2>1 DEF Types
  <2>3. BufferInv' <=> BufferInv
    BY <2>1 DEF BufferInv, cursor
  <2>4. Drained' <=> Drained
    BY <2>1 DEF Drained, HasHeaders, HasBoundary, Safe
  <2>5. ASSUME NEW k PROVE At(k)' <=> At(k)
    <3>1. Where(k)' <=> Where(k)
      BY <2>1 DEF Where, cursor
    <3>2. SavedInv(k)' <=> SavedInv(k)
      BY <2>1 DEF SavedInv
    <3>3. FileInv(k)' <=> FileInv(k)
      BY <2>1 DEF FileInv, cursor
    <3>4. RoundsInv(k)' <=> RoundsInv(k)
      BY <2>1, <2>4 DEF RoundsInv, Rank
    <3> QED
      BY <3>1, <3>2, <3>3, <3>4 DEF At
  <2>6. SavedInv(Count(request) + 1)' <=> SavedInv(Count(request) + 1)
    BY <2>1 DEF SavedInv
  <2>7. Done' <=> Done
    BY <2>1, <2>6 DEF Done, SizesAreTrue
  <2> QED
    BY <2>1, <2>2, <2>3, <2>5, <2>7 DEF ParserInv
<1>2. ASSUME ParserNext, phase # "done"
      PROVE  ParserInv'
  <2>1. PICK k \in 1 .. Count(request) + 1 : At(k)
    BY <1>2 DEF ParserInv
  <2>2. Types /\ BufferInv
    BY DEF ParserInv
  <2>3. ASSUME Types' /\ BufferInv' /\ phase' # "done", request' = request,
               NEW j \in 1 .. Count(request) + 1, At(j)'
        PROVE  ParserInv'
    BY <2>3 DEF ParserInv
  <2>4. ASSUME NEW n \in 1 .. Len(Body(request)), Feed(n) PROVE ParserInv'
    <3>1. n \in Nat /\ request' = request
      BY <2>4 DEF Feed
    <3>2. Types' /\ BufferInv' /\ phase' # "done" /\ At(k)'
      BY <2>1, <2>2, <2>4, <3>1, FeedStep
    <3> QED
      BY <2>3, <3>1, <3>2
  <2>5. CASE Finish
    BY <2>1, <2>2, <2>3, <2>5, FinishStep DEF Finish
  <2>6. CASE SkipText
    BY <2>1, <2>2, <2>3, <2>6, SkipTextStep DEF SkipText, Consume
  <2>7. CASE SkipEnd
    BY <2>1, <2>2, <2>3, <2>7, SkipEndStep DEF SkipEnd, Consume
  <2>8. CASE SkipBoundary
    BY <2>1, <2>2, <2>3, <2>8, SkipBoundaryStep DEF SkipBoundary, Consume
  <2>9. CASE AwaitHeaders
    BY <2>1, <2>2, <2>3, <2>9, AwaitHeadersStep DEF AwaitHeaders, Consume
  <2>10. CASE BeginField
    BY <2>1, <2>2, <2>3, <2>10, BeginFieldStep DEF BeginField, Consume
  <2>11. CASE BeginFile
    BY <2>1, <2>2, <2>3, <2>11, BeginFileStep DEF BeginFile, Consume
  <2>12. CASE WriteSafe
    BY <2>1, <2>2, <2>3, <2>12, WriteSafeStep DEF WriteSafe, Consume
  <2>13. CASE WriteRest
    BY <2>1, <2>2, <2>3, <2>13, WriteRestStep DEF WriteRest, Consume
  <2>14. CASE EndField
    BY <2>1, <2>2, <2>3, <2>14, EndFieldStep DEF EndField, Consume
  <2>15. CASE Close
    BY <2>1, <2>2, <2>15, CloseStep DEF ParserInv
  <2> QED
    BY <1>2, <2>4, <2>5, <2>6, <2>7, <2>8, <2>9, <2>10, <2>11, <2>12, <2>13, <2>14, <2>15
    DEF ParserNext, Process
<1>3. ASSUME ParserNext, phase = "done" PROVE FALSE
  BY <1>3 DEF ParserNext, Process, Feed, Finish, SkipText, SkipEnd, SkipBoundary, AwaitHeaders,
     BeginField, BeginFile, WriteSafe, WriteRest, EndField, Close, Iterates
<1> QED
  BY <1>1, <1>2, <1>3

\* It holds when a request begins.
LEMMA ParserInvInit == ParserInit => ParserInv
<1> SUFFICES ASSUME ParserInit PROVE ParserInv
  OBVIOUS
<1>1. /\ request \in Requests /\ disk = request.disk /\ fed = 0 /\ buffer = <<>>
      /\ state = "FindBoundary" /\ file = None /\ saved = <<>> /\ phase = "wait" /\ iterations = 0
  BY DEF ParserInit
<1>2. Types
  <2>1. disk \in [Paths -> Text \cup {None}]
    BY <1>1, ParserAssumption DEF Request
  <2>2. 0 \in 0 .. MaxIterations - 1
    BY ParserAssumption
  <2> QED
    BY <1>1, <2>1, <2>2 DEF Types
<1>3. /\ Body(request) \in Text /\ Len(Body(request)) \in Nat
      /\ Boundary \in Text /\ Boundary # <<>> /\ Len(Boundary) \in Nat
      /\ <<>> \in Text /\ Len(<<>>) = 0
  BY <1>1, PartsInBody, SymbolsAreTexts, EmptySeq DEF EndAt, Text
<1>4. cursor = 0
  <2>1. Len(buffer) = 0 /\ fed = 0
    BY <1>1, <1>3
  <2> QED
    BY <2>1 DEF cursor
<1>5. BufferInv
  <2>1. SubSeq(Body(request), 1, 0) = <<>>
    BY <1>3, FirstSymbols, EmptySeq DEF Text
  <2> QED
    BY <1>1, <1>3, <1>4, <2>1 DEF BufferInv
<1>6. 1 \in 1 .. Count(request) + 1 /\ Start(request, 1) = 0
  BY <1>1, LeadsAreTexts, StartsOfParts DEF Starts
<1>7. Where(1)
  BY <1>1, <1>4, <1>6 DEF Where
<1>8. SavedInv(1) /\ FileInv(1)
  <2>1. Opened(request, 1 - 1) = <<>>
    BY <1>1, OpenedGrows
  <2> QED
    BY <1>1, <1>3, <2>1 DEF SavedInv, FileInv
<1>9. Drained
  <2>1. Len(buffer) = 0 /\ Safe = 0
    BY <1>1, <1>3 DEF Safe, Overlap
  <2>2. ~HasBoundary
    <3>1. Occurrences(Boundary, buffer) # {} => Before(Boundary, buffer) \in 0 .. 0 - Len(Boundary)
      BY <1>1, <1>3, FirstOccurrence
    <3>2. Len(Boundary) > 2
      BY SymbolsAreTexts
    <3> QED
      BY <1>3, <3>1, <3>2 DEF HasBoundary
  <2> QED
    BY <1>1, <2>1, <2>2 DEF Drained
<1>10. At(1)
  BY <1>1, <1>7, <1>8, <1>9 DEF At, RoundsInv
<1> QED
  BY <1>1, <1>2, <1>5, <1>6, <1>10 DEF ParserInv

\* The inductive invariant of the parser.
LEMMA ParserInvariant == ParserSpec => []ParserInv
  BY ParserInvInit, ParserInvStep, PTL DEF ParserSpec

\* At any time the saved files have the sizes that they are reported with.
LEMMA SizesFollow == ParserInv => SizesAreTrue
<1> SUFFICES ASSUME ParserInv PROVE SizesAreTrue
  OBVIOUS
<1>1. DOMAIN saved = 1 .. Len(saved)
  BY DEF ParserInv, Types
<1>2. CASE phase = "done"
  BY <1>2 DEF ParserInv, Done
<1>3. CASE phase # "done"
  <2>1. PICK k \in 1 .. Count(request) + 1 : SavedInv(k)
    BY <1>3 DEF ParserInv, At
  <2> QED
    BY <1>1, <2>1 DEF SavedInv, SizesAreTrue
<1> QED
  BY <1>2, <1>3

\* The variables have their types.
LEMMA TypesFollow == ParserInv => ParserTypeOK
<1> SUFFICES ASSUME ParserInv PROVE ParserTypeOK
  OBVIOUS
<1>1. Types /\ BufferInv
  BY DEF ParserInv
<1>2. /\ file \in SavedFile \cup {None}
      /\ file # None <=> state = "StreamFileData"
  <2>1. CASE phase = "done"
    BY <2>1 DEF ParserInv, Done
  <2>2. CASE phase # "done"
    <3>1. PICK k \in 1 .. Count(request) + 1 : FileInv(k)
      BY <2>2 DEF ParserInv, At
    <3> QED
      BY <3>1, SymbolsAssumption DEF FileInv
  <2> QED
    BY <2>1, <2>2
<1> QED
  BY <1>1, <1>2 DEF Types, BufferInv, ParserTypeOK

\* The variables have their types, whatever arrives and however it is cut: the
\* buffer is a text of the body, a file is open exactly while one is streamed, and
\* the iterations of a call stay below the code's limit (processBuffer).
THEOREM ParserTypeCorrect == ParserSpec => []ParserTypeOK
  BY ParserInvariant, TypesFollow, PTL

\* The size that a file is saved with is its size on the disk, for a file that was
\* resumed, that is complete, or that was cut (saveCurrentFile, finish).
THEOREM SavedSizesAreTrue == ParserSpec => []SizesAreTrue
  BY ParserInvariant, SizesFollow, PTL

(***************************************************************************)
(* 9. The parser implements FormUpload.                                    *)
(***************************************************************************)

\* The contents of the files of the parts before part k.
Contents(r, k) ==
  [i \in 1 .. Len(Opened(r, k - 1)) |-> Base(r) \o Opened(r, k - 1)[i].data]

\* The ones of all parts are what the form contains.
LEMMA WantedContents ==
  ASSUME NEW r \in Requests
  PROVE  /\ WantedFiles(r) = Contents(r, Count(r) + 1)
         /\ WantedFiles(r) \in Seq(Text)
<1>1. Count(r) \in Nat /\ (Count(r) + 1) - 1 = Count(r) /\ Count(r) \in 0 .. Count(r)
  BY LeadsAreTexts
<1>2. OpenedParts(r) = Opened(r, Count(r)) /\ Opened(r, Count(r)) \in Seq(Part)
  BY <1>1, OpenedGrows
<1> DEFINE o == OpenedParts(r)
<1>3. o \in Seq(Part) /\ DOMAIN o = 1 .. Len(o) /\ Len(o) \in Nat
  BY <1>2
<1>4. WantedFiles(r) = Contents(r, Count(r) + 1)
  BY <1>1, <1>2, <1>3 DEF WantedFiles, Contents
<1> HIDE DEF o
<1>5. \A i \in 1 .. Len(o) : Base(r) \o o[i].data \in Text
  <2>1. \A i \in 1 .. Len(o) : o[i] \in Part
    BY <1>3
  <2>2. \A i \in 1 .. Len(o) : o[i].data \in Text
    BY <2>1 DEF Part
  <2> QED
    BY <2>2, BaseIsText, ConcatText
<1>6. WantedFiles(r) = [i \in 1 .. Len(o) |-> Base(r) \o o[i].data]
  BY <1>3 DEF WantedFiles, o
<1>7. WantedFiles(r) \in [1 .. Len(o) -> Text]
  BY <1>5, <1>6
<1> QED
  BY <1>3, <1>4, <1>7

\* The next content is the one of the next file.
LEMMA NextContent ==
  ASSUME NEW r \in Requests, NEW k \in 1 .. Count(r), Opens(r, k)
  PROVE  /\ Len(Contents(r, k)) \in Nat
         /\ Len(Contents(r, k)) < Len(WantedFiles(r))
         /\ WantedFiles(r)[Len(Contents(r, k)) + 1] = Base(r) \o r.parts[k].data
         /\ Contents(r, k + 1) = Append(Contents(r, k), Base(r) \o r.parts[k].data)
<1> DEFINE N == Count(r)
           o == Opened(r, k - 1)
           q == Opened(r, (k + 1) - 1)
           z == Opened(r, N)
           x == r.parts[k]
<1>1. N \in Nat /\ (k + 1) - 1 = k /\ k \in 0 .. N /\ N \in k .. N /\ (N + 1) - 1 = N
  BY LeadsAreTexts
<1>2. o \in Seq(Part) /\ q = Append(o, x) /\ x \in Part
  BY NextOpened, LeadsAreTexts
<1>3. /\ Len(Opened(r, k)) \in Nat /\ Len(z) \in Nat /\ Len(Opened(r, k)) <= Len(z)
      /\ \A i \in 1 .. Len(Opened(r, k)) : z[i] = Opened(r, k)[i]
  BY <1>1, OpenedArePrefixes
<1>4. q = Opened(r, k)
  BY <1>1
<1>5. WantedFiles(r) = [i \in 1 .. Len(z) |-> Base(r) \o z[i].data]
  BY <1>1, WantedContents DEF Contents
<1>6. /\ Contents(r, k) = [i \in 1 .. Len(o) |-> Base(r) \o o[i].data]
      /\ Contents(r, k + 1) = [i \in 1 .. Len(q) |-> Base(r) \o q[i].data]
  BY DEF Contents
<1> HIDE DEF o, q, z, x
<1>7. /\ Len(o) \in Nat /\ Len(q) = Len(o) + 1 /\ q[Len(o) + 1] = x
      /\ \A i \in 1 .. Len(o) : q[i] = o[i]
  BY <1>2
<1>8. Len(Contents(r, k)) = Len(o) /\ Len(WantedFiles(r)) = Len(z)
  BY <1>3, <1>5, <1>6, <1>7
<1>9. Len(o) + 1 \in 1 .. Len(q) /\ Len(o) + 1 \in 1 .. Len(z) /\ Len(o) < Len(z)
  BY <1>3, <1>4, <1>7
<1>10. z[Len(o) + 1] = x
  BY <1>3, <1>4, <1>7, <1>9
<1>11. WantedFiles(r)[Len(o) + 1] = Base(r) \o x.data
  BY <1>5, <1>9, <1>10
<1>12. Contents(r, k + 1) = Append(Contents(r, k), Base(r) \o x.data)
  <2> DEFINE c == Contents(r, k)
             y == Base(r) \o x.data
             e == Contents(r, k + 1)
  <2>1. c \in Seq(Text) /\ y \in Text
    <3>1. \A i \in 1 .. Len(o) : Base(r) \o o[i].data \in Text
      <4>1. \A i \in 1 .. Len(o) : o[i] \in Part
        BY <1>2
      <4> QED
        BY <4>1, BaseIsText, ConcatText DEF Part
    <3>2. c \in [1 .. Len(o) -> Text]
      BY <1>6, <3>1
    <3>3. x.data \in Text
      BY <1>2 DEF Part
    <3>4. y \in Text
      BY <3>3, BaseIsText, ConcatText
    <3> HIDE DEF c, y
    <3> QED
      BY <1>7, <3>2, <3>4
  <2>2. \A i \in 1 .. Len(o) + 1 : Base(r) \o q[i].data = IF i <= Len(o) THEN c[i] ELSE y
    <3>1. ASSUME NEW i \in 1 .. Len(o)
          PROVE  Base(r) \o q[i].data = c[i]
      BY <1>6, <1>7
    <3>2. Base(r) \o q[Len(o) + 1].data = y
      BY <1>7
    <3>3. \A i \in 1 .. Len(o) + 1 : (i <= Len(o) /\ i \in 1 .. Len(o)) \/ (~(i <= Len(o)) /\ i = Len(o) + 1)
      BY <1>7
    <3> HIDE DEF c, y
    <3> QED
      BY <3>1, <3>2, <3>3
  <2>3. e = [i \in 1 .. Len(o) + 1 |-> Base(r) \o q[i].data]
    BY <1>6, <1>7
  <2> HIDE DEF c, y, e
  <2>4. Len(c) = Len(o)
    BY <1>8 DEF c
  <2>5. e \in Seq(Text) /\ Len(e) = Len(o) + 1
    <3>1. \A i \in 1 .. Len(o) + 1 : Base(r) \o q[i].data \in Text
      <4>1. \A i \in 1 .. Len(o) : c[i] \in Text
        BY <2>1, <2>4
      <4> SUFFICES ASSUME NEW i \in 1 .. Len(o) + 1
                   PROVE  (IF i <= Len(o) THEN c[i] ELSE y) \in Text
        BY <2>2
      <4>2. i <= Len(o) => i \in 1 .. Len(o)
        BY <1>7
      <4> QED
        BY <2>1, <4>1, <4>2
    <3>2. e \in [1 .. Len(o) + 1 -> Text]
      BY <2>3, <3>1
    <3> QED
      BY <1>7, <3>2
  <2>6. e = Append(c, y)
    <3> DEFINE a == Append(c, y)
    <3>1. /\ a \in Seq(Text) /\ Len(a) = Len(o) + 1
          /\ \A i \in 1 .. Len(o) + 1 : a[i] = IF i <= Len(o) THEN c[i] ELSE y
      BY <1>7, <2>1, <2>4
    <3>2. \A i \in 1 .. Len(e) : e[i] = a[i]
      BY <2>2, <2>3, <2>5, <3>1
    <3> HIDE DEF a
    <3>3. e = a
      BY <2>5, <3>1, <3>2, SeqEqual
    <3> QED
      BY <3>3 DEF a
  <2> QED
    BY <2>6 DEF e, c, y
<1> QED
  BY <1>7, <1>8, <1>9, <1>11, <1>12 DEF x

\* What is on the disk under the paths that were saved, and of the file at work.
Stored  == [i \in DOMAIN saved |-> disk[saved[i].path]]
Current == IF file = None THEN None ELSE disk[file.path]

\* While the parser is at part k, what is saved are the contents of the files before it.
LEMMA StoredContents ==
  \A k \in Nat : Types /\ SavedInv(k) => Stored = Contents(request, k)
<1> SUFFICES ASSUME NEW k \in Nat, Types, SavedInv(k)
             PROVE  Stored = Contents(request, k)
  OBVIOUS
<1> DEFINE o == Opened(request, k - 1)
<1>1. DOMAIN saved = 1 .. Len(saved)
  BY DEF Types
<1>2. Len(saved) = Len(o) /\ \A i \in 1 .. Len(saved) : disk[saved[i].path] = Base(request) \o o[i].data
  BY DEF SavedInv
<1> QED
  BY <1>1, <1>2 DEF Stored, Contents

\* The same after a step.
LEMMA StoredNext ==
  (\A k \in Nat : Types /\ SavedInv(k) => Stored = Contents(request, k))'
  BY StoredContents, PTL

\* A text is a prefix of the text and what follows it.
LEMMA FollowedText ==
  ASSUME NEW s \in Text, NEW t \in Text
  PROVE  /\ s \in Prefixes(s \o t)
         /\ IsPrefix(s, s \o t)
         /\ t # <<>> => s # s \o t
<1> DEFINE u == s \o t
<1>1. /\ u \in Text /\ Len(u) = Len(s) + Len(t) /\ \A i \in 1 .. Len(s) : u[i] = s[i]
  BY ConcatText
<1>2. Len(s) \in Nat /\ Len(t) \in Nat
  BY DEF Text
<1> HIDE DEF u
<1>3. Len(s) \in 0 .. Len(u) /\ Len(s) \in 0 .. Len(s)
  BY <1>1, <1>2
<1> DEFINE v == SubSeq(u, 1, Len(s))
<1>4. v \in Text /\ Len(v) = Len(s) /\ \A i \in 1 .. Len(s) : v[i] = u[i]
  BY <1>1, <1>3, FirstSymbols
<1>5. v = s
  <2> HIDE DEF v
  <2> QED
    BY <1>1, <1>4, SameText
<1>6. SubSeq(s, 1, Len(s)) = s
  BY <1>2 DEF Text
<1>7. s \in Prefixes(u)
  BY <1>3, <1>5 DEF Prefixes
<1>8. IsPrefix(s, u)
  BY <1>1, <1>2, <1>5, <1>6 DEF IsPrefix
<1>9. t # <<>> => s # u
  <2>1. t # <<>> => Len(t) # 0
    BY EmptySeq DEF Text
  <2> QED
    BY <1>1, <1>2, <2>1
<1> QED
  BY <1>7, <1>8, <1>9 DEF u

\* A file that grows by what follows it in the body.
LEMMA FollowedWindow ==
  ASSUME NEW r \in Requests, NEW c \in Nat, NEW e \in Nat, NEW n \in Nat,
         c <= e, e + n <= Len(Body(r))
  PROVE  LET s == Base(r) \o SubSeq(Body(r), c + 1, e)
             t == Base(r) \o SubSeq(Body(r), c + 1, e + n)
         IN  s \in Text /\ s \in Prefixes(t) /\ IsPrefix(s, t) /\ (n > 0 => s # t)
<1> DEFINE b == Body(r)
           w == SubSeq(b, c + 1, e)
           v == SubSeq(b, e + 1, e + n)
           base == Base(r)
<1>1. b \in Text /\ Len(b) \in Nat /\ base \in Text
  BY PartsInBody, BaseIsText DEF EndAt, Text
<1> HIDE DEF b, base
<1>2. e + n \in Nat /\ e <= e + n /\ (e + n) - e = n /\ e <= Len(b) /\ e + n <= Len(b)
  BY <1>1 DEF b
<1>3. w \in Text /\ v \in Text /\ Len(v) = (e + n) - e
  BY <1>1, <1>2, Window
<1>4. w \o v = SubSeq(b, c + 1, e + n)
  BY <1>1, <1>2, WindowGrows
<1>5. Len(v) = n
  BY <1>2, <1>3
<1> HIDE DEF w, v
<1>6. base \o w \in Text
  BY <1>1, <1>3, ConcatText
<1>7. (base \o w) \o v = base \o (w \o v)
  <2>1. base \in Seq(Symbols) /\ w \in Seq(Symbols) /\ v \in Seq(Symbols)
    BY <1>1, <1>3 DEF Text
  <2> QED
    BY <2>1, ConcatAssociative
<1>8. n > 0 => v # <<>>
  BY <1>3, <1>5, EmptySeq DEF Text
<1>9. /\ base \o w \in Prefixes((base \o w) \o v) /\ IsPrefix(base \o w, (base \o w) \o v)
      /\ v # <<>> => base \o w # (base \o w) \o v
  BY <1>3, <1>6, FollowedText
<1> QED
  BY <1>4, <1>6, <1>7, <1>8, <1>9 DEF w, b, base

\* The form begins.
LEMMA FormBegins == ParserInit => Form!FormInit
<1> SUFFICES ASSUME ParserInit PROVE Form!FormInit
  OBVIOUS
<1>1. request \in Requests /\ file = None /\ saved = <<>> /\ phase = "wait"
  BY DEF ParserInit
<1>2. WantedFiles(request) \in Seq(Seq(Symbols))
  BY <1>1, WantedContents DEF Text
<1>3. [i \in DOMAIN saved |-> disk[saved[i].path]] = <<>>
  <2>1. DOMAIN saved = {}
    BY <1>1
  <2> QED
    BY <1>1, <2>1
<1> QED
  BY <1>1, <1>2, <1>3 DEF Form!FormInit

\* A step that changes no file is none of the form.
LEMMA FormStands ==
  ASSUME request' = request, saved' = saved, disk' = disk, file' = file,
         phase # "done", phase' # "done"
  PROVE  UNCHANGED Form!formVars
<1>1. Stored' = Stored /\ Current' = Current
  BY DEF Stored, Current
<1> QED
  BY <1>1 DEF Form!formVars, Stored, Current

\* The prefixes of which FormUpload speaks.
LEMMA SamePrefixes ==
  ASSUME NEW s, NEW t
  PROVE  /\ Form!Prefixes(s) = Prefixes(s)
         /\ Form!IsStrictPrefix(s, t) <=> IsPrefix(s, t) /\ s # t
BY DEF Form!Prefixes, Prefixes, Form!IsStrictPrefix, Form!IsPrefix, IsPrefix

\* BeginFile opens the next file of the form, or none.
LEMMA FormBegin ==
  ASSUME Types, BufferInv, NEW k \in 1 .. Count(request) + 1, At(k), BeginFile
  PROVE  Form!Begin \/ UNCHANGED Form!formVars
<1> DEFINE name == HeaderName
           path == SavePath(name)
<1>1. request \in Requests /\ phase \in {"feed", "finish"}
  BY DEF Types, BeginFile, Iterates
<1>2. /\ HasHeaders /\ name # None /\ Free(name) # {}
      /\ state = "ParseHeaders" /\ saved' = saved /\ request' = request
      /\ phase' \in {"feed", "finish", "wait", "close"}
  BY <1>1 DEF BeginFile, Iterates, Consume
<1>3. k \in 1 .. Count(request) /\ name = request.parts[k].name
  BY <1>1, <1>2, HeadersAhead DEF At
<1>4. CASE name \in request.broken
  <2>1. file' = file /\ disk' = disk
    BY <1>4 DEF BeginFile
  <2> QED
    BY <1>1, <1>2, <2>1, FormStands
<1>5. CASE name \notin request.broken
  <2>1. Opens(request, k)
    <3>1. request.parts[k] \in Part
      BY <1>1, <1>3, LeadsAreTexts
    <3> QED
      BY <1>2, <1>3, <1>5, <3>1 DEF Opens, Part
  <2>2. /\ file' = [path |-> path, size |-> IF Resumes THEN request.resume.offset ELSE 0]
        /\ disk' = IF Resumes THEN disk ELSE [disk EXCEPT ![path] = <<>>]
    BY <1>5 DEF BeginFile
  <2>3. /\ path \in Paths
        /\ Resumes => Base(request) = disk[path]
        /\ ~Resumes => Base(request) = <<>>
        /\ \A i \in 1 .. Len(saved) : saved[i].path # path
    <3>1. request.resume # None /\ k = 1 => disk = request.disk
      BY <1>2 DEF At, FileInv
    <3>2. SavedInv(k)
      BY DEF At
    <3> HIDE DEF name
    <3> QED
      BY <1>2, <1>3, <2>1, <3>1, <3>2, PathIsNew
  <2> HIDE DEF path
  <2>4. disk \in [Paths -> Text \cup {None}] /\ file' \in SavedFile
    <3>1. Resumes => request.resume.offset \in Nat
      <4>1. request.resume \in Resume \cup {None}
        BY <1>1, ParserAssumption DEF Request
      <4> QED
        BY <4>1 DEF Resumes, Resume
    <3> QED
      BY <2>2, <2>3, <3>1 DEF Types, SavedFile
  <2>5. disk'[path] = Base(request) /\ \A p \in Paths : p # path => disk'[p] = disk[p]
    BY <2>2, <2>3, <2>4
  <2>6. file = None /\ file' # None /\ file'.path = path
    BY <1>2, <2>2, <2>4, SymbolsAssumption DEF At, FileInv
  <2>7. Stored = Contents(request, k)
    BY StoredContents DEF At
  <2>8. Stored' = Stored
    <3>1. \A i \in 1 .. Len(saved) : disk'[saved[i].path] = disk[saved[i].path]
      BY <2>3, <2>5, SavedTypes
    <3>2. DOMAIN saved = 1 .. Len(saved)
      BY DEF Types
    <3> QED
      BY <1>2, <3>1, <3>2 DEF Stored
  <2>9. /\ Len(Stored) < Len(WantedFiles(request))
        /\ WantedFiles(request)[Len(Stored) + 1] = Base(request) \o request.parts[k].data
    BY <1>1, <1>3, <2>1, <2>7, NextContent
  <2>10. Base(request) \in Prefixes(Base(request) \o request.parts[k].data)
    <3>1. request.parts[k].data \in Text
      BY <1>1, <1>3, LeadsAreTexts DEF Part
    <3> QED
      BY <1>1, <3>1, BaseIsText, FollowedText
  <2>11. Current = None /\ Current' = Base(request)
    BY <2>5, <2>6 DEF Current
  <2>12. Form!Begin
    <3>1. phase # "done" /\ phase' # "done"
      BY <1>1, <1>2
    <3>2. WantedFiles(request)' = WantedFiles(request)
      BY <1>2
    <3>3. Current' \in Form!Prefixes(WantedFiles(request)[Len(Stored) + 1])
      BY <2>9, <2>10, <2>11, SamePrefixes
    <3> QED
      BY <1>2, <2>8, <2>9, <2>11, <3>1, <3>2, <3>3 DEF Form!Begin, Form!Content, Stored, Current
  <2> QED
    BY <2>12
<1> QED
  BY <1>4, <1>5

\* A file that is open has a content.
LEMMA OpenIsText ==
  ASSUME Types, BufferInv, NEW k \in 1 .. Count(request) + 1, At(k), file # None
  PROVE  file \in SavedFile /\ disk[file.path] \in Text
<1>1. state = "StreamFileData"
  BY DEF At, FileInv
<1>2. /\ file \in SavedFile
      /\ disk[file.path] = Base(request) \o SubSeq(Body(request), Data(request, k) + 1, cursor)
  BY <1>1 DEF At, FileInv
<1>3. Data(request, k) <= cursor /\ k <= Count(request)
  BY <1>1 DEF At, Where
<1>4. request \in Requests
  BY DEF Types
<1>5. /\ file \in SavedFile
      /\ disk[file.path] = Base(request) \o SubSeq(Body(request), Data(request, k) + 1, cursor)
      /\ Data(request, k) <= cursor /\ k \in 1 .. Count(request) /\ request \in Requests
  BY <1>2, <1>3, <1>4, LeadsAreTexts
<1>6. Data(request, k) \in Nat
  <2>1. /\ Start(request, k) \in Nat /\ Len(Boundary) \in Nat
        /\ Data(request, k) = Start(request, k) + Len(Boundary) + 7
    BY <1>5, Places
  <2> QED
    BY <2>1
<1>7. /\ cursor \in Nat /\ cursor <= fed /\ fed \in Nat /\ fed <= Len(Body(request))
      /\ Len(Body(request)) \in Nat
  BY <1>5, BufferInNumbers
<1>8. cursor + 0 <= Len(Body(request)) /\ 0 \in Nat
  BY <1>7
<1> QED
  BY <1>5, <1>6, <1>7, <1>8, FollowedWindow

\* WriteSafe lets the file grow, or leaves it.
LEMMA FormGrow ==
  ASSUME Types, BufferInv, NEW k \in 1 .. Count(request) + 1, At(k), WriteSafe
  PROVE  Form!Grow \/ UNCHANGED Form!formVars
<1> DEFINE N == Count(request)
           n == Safe
           d == Data(request, k)
           x == request.parts[k].data
           p == file.path
           base == Base(request)
           b == Body(request)
<1>1. request \in Requests /\ phase \in {"feed", "finish"} /\ N \in Nat
  BY LeadsAreTexts DEF Types, WriteSafe, Iterates
<1>2. /\ ~HasBoundary /\ Consume(n) /\ state = "StreamFileData"
      /\ state' = state /\ saved' = saved /\ disk' = Written(n)
      /\ file' = [file EXCEPT !.size = @ + n]
  BY DEF WriteSafe, Iterates
<1>3. request' = request /\ phase' \in {"wait", "feed", "finish", "close"}
  <2> HIDE DEF n
  <2> QED
    BY <1>1, <1>2, ConsumeTypes
<1>4. /\ k \in 1 .. N /\ d <= cursor /\ cursor + 2 <= Start(request, k + 1)
      /\ Opens(request, k)
  BY <1>1, <1>2 DEF At, Where
<1>5. /\ Start(request, k) \in Nat /\ Start(request, k + 1) \in Nat /\ Len(x) \in Nat
      /\ d = Start(request, k) + Len(Boundary) + 7 /\ Len(Boundary) \in Nat
      /\ d + Len(x) + 2 = Start(request, k + 1)
  BY <1>1, <1>4, Places
<1>6. cursor \in Nat /\ Len(buffer) \in Nat /\ d \in Nat
  <2>1. d \in Nat
    BY <1>5
  <2> QED
    BY <1>1, <2>1, BufferInNumbers
<1>7. cursor <= Start(request, k + 1) /\ Start(request, (k + 1) - 1) < cursor
  BY <1>4, <1>5, <1>6
<1>8. n \in 0 .. Len(buffer) /\ (n > 0 => cursor + n + 2 <= Start(request, k + 1))
  <2>1. k + 1 \in 1 .. N + 1
    BY <1>1, <1>4
  <2> QED
    BY <1>1, <1>2, <1>5, <1>7, <2>1, SafeIsBefore
<1>9. file \in SavedFile /\ FileInv(k)
  BY <1>2 DEF At, FileInv
<1> HIDE DEF n
<1>10. /\ disk'[p] = base \o SubSeq(b, d + 1, cursor + n)
       /\ \A i \in 1 .. Len(saved) : disk'[saved[i].path] = disk[saved[i].path]
  BY <1>2, <1>4, <1>8, <1>9, FileGrows
<1>11. disk[p] = base \o SubSeq(b, d + 1, cursor)
  BY <1>2, <1>9 DEF FileInv
<1>12. n \in Nat
  BY <1>6, <1>8
<1>13. file' \in SavedFile /\ file'.path = p
  <2>1. file.size \in Nat
    BY <1>9 DEF SavedFile
  <2> QED
    BY <1>2, <1>9, <1>12, <2>1 DEF SavedFile
<1>14. file # None /\ file' # None
  BY <1>9, <1>13, SymbolsAssumption
<1>15. Current = disk[p] /\ Current' = disk'[p]
  BY <1>13, <1>14 DEF Current
<1>16. Stored' = Stored /\ Stored = Contents(request, k)
  <2>1. DOMAIN saved = 1 .. Len(saved)
    BY DEF Types
  <2>2. Stored' = Stored
    BY <1>2, <1>10, <2>1 DEF Stored
  <2> QED
    BY <2>2, StoredContents DEF At
<1>17. CASE n = 0
  <2>1. Current' = Current
    BY <1>6, <1>10, <1>11, <1>15, <1>17
  <2>2. UNCHANGED Form!formVars
    BY <1>1, <1>3, <1>16, <2>1 DEF Form!formVars, Stored, Current
  <2> QED
    BY <2>2
<1>18. CASE n > 0
  <2>1. WantedFiles(request)[Len(Stored) + 1] = base \o x
    BY <1>1, <1>4, <1>16, NextContent
  <2>2. SubSeq(b, d + 1, d + Len(x)) = x /\ Start(request, k + 1) <= Len(b)
    BY <1>1, <1>4, DataInBody
  <2> DEFINE c == cursor
             e == cursor + n
             m == (d + Len(x)) - e
             y == Start(request, k + 1)
  <2>3. /\ c \in Nat /\ e \in Nat /\ d <= c /\ d <= e /\ c + n = e /\ e + 2 <= y /\ y <= Len(b)
        /\ y \in Nat /\ d + Len(x) + 2 = y
    BY <1>4, <1>5, <1>6, <1>8, <1>12, <1>18, <2>2
  <2>4. Len(b) \in Nat
    BY <1>1, BufferInNumbers
  <2> HIDE DEF c, y, b
  <2> DEFINE l == Len(x)
  <2>5. l \in Nat /\ d \in Nat /\ d + l + 2 = y
    BY <1>5, <1>6, <2>3
  <2> HIDE DEF e, d, l
  <2>6. e <= d + l /\ (d + l) - e \in Nat /\ e + ((d + l) - e) = d + l /\ d + l <= Len(b)
    BY <2>3, <2>4, <2>5
  <2>7. c + n <= Len(b)
    BY <2>3, <2>4
  <2>8. m \in Nat /\ e + m = d + Len(x) /\ e + m <= Len(b) /\ c + n <= Len(b)
    BY <2>6, <2>7 DEF l
  <2> HIDE DEF m, x
  <2>9. /\ IsPrefix(base \o SubSeq(b, d + 1, c), base \o SubSeq(b, d + 1, c + n))
        /\ base \o SubSeq(b, d + 1, c) # base \o SubSeq(b, d + 1, c + n)
    BY <1>1, <1>6, <1>12, <1>18, <2>3, <2>8, FollowedWindow DEF b
  <2>10. base \o SubSeq(b, d + 1, e) \in Prefixes(base \o SubSeq(b, d + 1, e + m))
    BY <1>1, <1>6, <2>3, <2>8, FollowedWindow DEF b
  <2>11. Current' = base \o SubSeq(b, d + 1, e) /\ Current = base \o SubSeq(b, d + 1, c)
    BY <1>10, <1>11, <1>15 DEF c, e
  <2>12. Current' \in Form!Prefixes(WantedFiles(request)[Len(Stored) + 1])
    BY <2>1, <2>2, <2>8, <2>10, <2>11, SamePrefixes DEF x
  <2>13. Form!IsStrictPrefix(Current, Current')
    BY <2>3, <2>9, <2>11, SamePrefixes
  <2>14. Current # None
    <3>1. disk[p] \in Text
      BY <1>1, <1>6, <1>11, <1>12, <2>3, <2>8, FollowedWindow DEF b, c
    <3> QED
      BY <1>15, <3>1, SymbolsAssumption
  <2>15. phase # "done" /\ phase' # "done" /\ WantedFiles(request)' = WantedFiles(request)
    BY <1>1, <1>3
  <2>16. Form!Grow
    BY <1>16, <2>12, <2>13, <2>14, <2>15 DEF Form!Grow, Form!Content, Stored, Current
  <2> QED
    BY <2>16
<1> QED
  BY <1>12, <1>17, <1>18

\* WriteRest saves the file with its content.
LEMMA FormSave ==
  ASSUME Types, BufferInv, NEW k \in 1 .. Count(request) + 1, At(k), WriteRest
  PROVE  Form!Save
<1> DEFINE x == request.parts[k].data
<1>1. /\ request \in Requests /\ phase \in {"feed", "finish"} /\ state = "StreamFileData"
      /\ file' = None /\ HasBoundary
  BY DEF Types, WriteRest, Iterates
<1>2. request' = request /\ phase' \in {"wait", "feed", "finish", "close"}
  BY <1>1, ConsumeTypes DEF WriteRest, Consume
<1>3. k \in 1 .. Count(request) /\ Opens(request, k)
  BY <1>1, BoundaryAfterData DEF At, Where
<1>4. /\ Stored = Contents(request, k)
      /\ WantedFiles(request)[Len(Stored) + 1] = Base(request) \o x
      /\ Contents(request, k + 1) = Append(Stored, Base(request) \o x)
  BY <1>1, <1>3, StoredContents, NextContent DEF At
<1>5. Stored' = Contents(request, k + 1)
  <2>1. Types' /\ k + 1 \in Nat /\ SavedInv(k + 1)'
    <3>1. Types' /\ At(k + 1)'
      BY WriteRestStep
    <3> QED
      BY <1>1, <1>3, <3>1, LeadsAreTexts DEF At
  <2>3. Contents(request, k + 1)' = Contents(request, k + 1)
    BY <1>2 DEF Contents, Opened, Base
  <2>4. Stored' = Contents(request, k + 1)'
    BY <2>1, StoredNext
  <2> QED
    BY <2>3, <2>4
<1>6. Current # None /\ Current' = None
  <2>1. file \in SavedFile /\ disk[file.path] \in Text
    BY <1>1, OpenIsText, SymbolsAssumption DEF At, FileInv
  <2> QED
    BY <1>1, <2>1, SymbolsAssumption DEF Current
<1>7. phase # "done" /\ phase' # "done" /\ WantedFiles(request)' = WantedFiles(request)
  BY <1>1, <1>2
<1> QED
  BY <1>4, <1>5, <1>6, <1>7 DEF Form!Save, Form!Content, Stored, Current

\* Close ends the form.
LEMMA FormEnd ==
  ASSUME Types, BufferInv, NEW k \in 1 .. Count(request) + 1, At(k), Close, EnoughIterations
  PROVE  Form!EndWhole \/ Form!EndCut
<1>1. /\ phase = "close" /\ phase' = "done" /\ file' = None
      /\ saved' = IF file = None THEN saved ELSE Append(saved, file)
      /\ UNCHANGED <<request, fed, disk>> /\ request \in Requests
  BY DEF Close, Types
<1>2. WantedFiles(request)' = WantedFiles(request) /\ Body(request)' = Body(request)
  BY <1>1
<1>3. CASE fed = Len(Body(request))
  <2>1. k = Count(request) + 1 /\ state # "StreamFileData"
    BY <1>1, <1>3, WholeIsDrained DEF At, RoundsInv
  <2>2. file = None
    BY <2>1 DEF At, FileInv
  <2>3. Stored = WantedFiles(request)
    BY <1>1, <2>1, StoredContents, WantedContents, LeadsAreTexts DEF At
  <2>4. Stored' = Stored /\ Current = None /\ Current' = None
    BY <1>1, <2>2 DEF Stored, Current
  <2>5. Form!EndWhole
    BY <1>1, <1>2, <1>3, <2>3, <2>4 DEF Form!EndWhole, Stored, Current
  <2> QED
    BY <2>5
<1>4. CASE fed # Len(Body(request))
  <2>1. Stored' = IF Current = None THEN Stored ELSE Append(Stored, Current)
    <3>1. CASE file = None
      BY <1>1, <3>1 DEF Stored, Current
    <3>2. CASE file # None
      <4>1. file \in SavedFile /\ disk[file.path] \in Text
        BY <3>2, OpenIsText DEF At, FileInv
      <4>2. /\ DOMAIN saved = 1 .. Len(saved) /\ Len(saved) \in Nat
            /\ DOMAIN saved' = 1 .. Len(saved) + 1 /\ saved'[Len(saved) + 1] = file
            /\ \A i \in 1 .. Len(saved) : saved'[i] = saved[i]
        <5>1. saved \in Seq(SavedFile) /\ saved' = Append(saved, file)
          BY <1>1, <3>2 DEF Types
        <5> QED
          BY <4>1, <5>1
      <4>3. Current = disk[file.path] /\ Current # None
        BY <3>2, <4>1, SymbolsAssumption DEF Current
      <4>4. Len(Stored) = Len(saved) /\ Stored \in Seq(Text \cup {None})
        <5>1. \A i \in 1 .. Len(saved) : disk[saved[i].path] \in Text \cup {None}
          BY SavedTypes DEF Types
        <5>2. Stored \in [1 .. Len(saved) -> Text \cup {None}]
          BY <4>2, <5>1 DEF Stored
        <5> QED
          BY <4>2, <5>2
      <4> DEFINE a == Append(Stored, Current)
      <4>5. /\ a \in Seq(Text \cup {None}) /\ DOMAIN a = 1 .. Len(saved) + 1
            /\ a[Len(saved) + 1] = Current /\ \A i \in 1 .. Len(saved) : a[i] = Stored[i]
        BY <4>1, <4>2, <4>3, <4>4
      <4>6. /\ Stored' = [i \in 1 .. Len(saved) + 1 |-> disk[saved'[i].path]]
            /\ \A i \in 1 .. Len(saved) : Stored[i] = disk[saved[i].path]
        BY <1>1, <4>2 DEF Stored
      <4> HIDE DEF a
      <4>7. \A i \in 1 .. Len(saved) + 1 : a[i] = disk[saved'[i].path]
        <5>1. ASSUME NEW i \in 1 .. Len(saved) + 1 PROVE a[i] = disk[saved'[i].path]
          <6>1. i \in 1 .. Len(saved) \/ i = Len(saved) + 1
            BY <4>2
          <6> QED
            BY <4>2, <4>3, <4>5, <4>6, <6>1
        <5> QED
          BY <5>1
      <4>8. a = [i \in 1 .. Len(saved) + 1 |-> a[i]]
        BY <4>5
      <4>9. Stored' = a
        BY <4>6, <4>7, <4>8
      <4> QED
        BY <4>3, <4>9 DEF a
    <3> QED
      BY <3>1, <3>2
  <2>2. Current' = None
    BY <1>1 DEF Current
  <2>3. Form!EndCut
    BY <1>1, <1>2, <1>4, <2>1, <2>2 DEF Form!EndCut, Stored, Current
  <2> QED
    BY <2>3
<1> QED
  BY <1>3, <1>4

\* Each step of the parser is a step of the form, or none.
LEMMA FormSteps ==
  ASSUME EnoughIterations
  PROVE  ParserInv /\ [ParserNext]_parserVars => [Form!FormNext]_(Form!formVars)
<1> SUFFICES ASSUME ParserInv, [ParserNext]_parserVars
             PROVE  Form!FormNext \/ UNCHANGED Form!formVars
  BY DEF Form!FormNext
<1>1. CASE UNCHANGED parserVars
  <2>1. UNCHANGED <<request, fed, saved, disk, file, phase>>
    BY <1>1 DEF parserVars
  <2>2. UNCHANGED Form!formVars
    BY <2>1 DEF Form!formVars
  <2> QED
    BY <2>2
<1>2. ASSUME ParserNext, phase # "done"
      PROVE  Form!FormNext \/ UNCHANGED Form!formVars
  <2>1. PICK k \in 1 .. Count(request) + 1 : At(k)
    BY <1>2 DEF ParserInv
  <2>2. Types /\ BufferInv
    BY DEF ParserInv
  <2>3. ASSUME request' = request, saved' = saved, disk' = disk, file' = file, phase' # "done"
        PROVE  Form!FormNext \/ UNCHANGED Form!formVars
    BY <1>2, <2>3, FormStands
  <2>4. ASSUME NEW n \in 1 .. Len(Body(request)), Feed(n)
        PROVE  Form!FormNext \/ UNCHANGED Form!formVars
    BY <2>3, <2>4 DEF Feed
  <2>5. CASE Finish
    BY <2>3, <2>5 DEF Finish
  <2>6. CASE SkipText
    BY <2>1, <2>2, <2>3, <2>6, SkipTextStep DEF SkipText, Consume
  <2>7. CASE SkipEnd
    BY <2>1, <2>2, <2>3, <2>7, SkipEndStep DEF SkipEnd, Consume
  <2>8. CASE SkipBoundary
    BY <2>1, <2>2, <2>3, <2>8, SkipBoundaryStep DEF SkipBoundary, Consume
  <2>9. CASE AwaitHeaders
    BY <2>1, <2>2, <2>3, <2>9, AwaitHeadersStep DEF AwaitHeaders, Consume
  <2>10. CASE BeginField
    BY <2>1, <2>2, <2>3, <2>10, BeginFieldStep DEF BeginField, Consume
  <2>11. CASE BeginFile
    BY <2>1, <2>2, <2>11, FormBegin DEF Form!FormNext
  <2>12. CASE WriteSafe
    BY <2>1, <2>2, <2>12, FormGrow DEF Form!FormNext
  <2>13. CASE WriteRest
    BY <2>1, <2>2, <2>13, FormSave DEF Form!FormNext
  <2>14. CASE EndField
    BY <2>1, <2>2, <2>3, <2>14, EndFieldStep DEF EndField, Consume
  <2>15. CASE Close
    BY <2>1, <2>2, <2>15, FormEnd DEF Form!FormNext
  <2> QED
    BY <1>2, <2>4, <2>5, <2>6, <2>7, <2>8, <2>9, <2>10, <2>11, <2>12, <2>13, <2>14, <2>15
    DEF ParserNext, Process
<1>3. ASSUME ParserNext, phase = "done" PROVE FALSE
  BY <1>3 DEF ParserNext, Process, Feed, Finish, SkipText, SkipEnd, SkipBoundary, AwaitHeaders,
     BeginField, BeginFile, WriteSafe, WriteRest, EndField, Close, Iterates
<1> QED
  BY <1>1, <1>2, <1>3

\* The parser stores the files of a form as FormUpload says, in whatever blocks the
\* body arrives and wherever it is cut, if the loop of processBuffer may make enough
\* iterations for the parts of a request (three for each; 100 in the code).
THEOREM ParserImplementsForm ==
  ASSUME EnoughIterations
  PROVE  ParserSpec => StoresForm
<1>1. ParserInit => Form!FormInit
  BY FormBegins
<1>2. ParserInv /\ [ParserNext]_parserVars => [Form!FormNext]_(Form!formVars)
  BY FormSteps
<1> QED
  BY <1>1, <1>2, ParserInvariant, PTL DEF ParserSpec, StoresForm, Form!FormSpec

(***************************************************************************)
(* 10. The parser of bodies that are in memory.                            *)
(***************************************************************************)

\* The places that are found after n symbols.
From(p, b, n) == {i \in Occurrences(p, b) : i > n}

\* They are numbers, and what is found there is in the text.
LEMMA FoundInText ==
  ASSUME NEW p \in Text, p # <<>>, NEW b \in Text, NEW n \in Nat, From(p, b, n) # {}
  PROVE  /\ Min(From(p, b, n)) \in Nat
         /\ Min(From(p, b, n)) > n
         /\ Min(From(p, b, n)) + Len(p) - 1 <= Len(b)
<1> DEFINE F == From(p, b, n)
<1>1. Occurrences(p, b) \subseteq Nat \ {0}
  BY FirstOccurrence
<1>2. F \subseteq Nat
  BY <1>1 DEF From
<1>3. Min(F) \in F
  <2> HIDE DEF F
  <2> QED
    BY <1>2, MinIsLeast DEF F
<1>4. Min(F) \in Occurrences(p, b) /\ Min(F) > n
  BY <1>3 DEF From
<1>5. Min(F) + Len(p) - 1 <= Len(b)
  BY <1>1, <1>4, OccursAt
<1> QED
  BY <1>2, <1>3, <1>4, <1>5

\* The boundary that is found next is the one of the next part.
LEMMA BoundaryFound ==
  ASSUME NEW r \in Requests, NEW k \in 1 .. Count(r) + 1, NEW c \in Nat,
         c <= Start(r, k), k > 1 => Start(r, k - 1) < c
  PROVE  /\ From(Boundary, Body(r), c) # {}
         /\ Min(From(Boundary, Body(r), c)) - 1 = Start(r, k)
<1> DEFINE N == Count(r)
           F == From(Boundary, Body(r), c)
           m == Start(r, k) + 1
<1>1. N \in Nat /\ Starts(r)
  BY LeadsAreTexts, StartsOfParts
<1>2. F = {i \in {Start(r, j) + 1 : j \in 1 .. N + 1} : i > c}
  BY BoundariesInBody DEF From
<1>3. m \in F
  BY <1>1, <1>2 DEF Starts
<1>4. ASSUME NEW i \in F PROVE m <= i
  <2>1. PICK j \in 1 .. N + 1 : i = Start(r, j) + 1
    BY <1>2
  <2>2. i > c
    BY <1>2
  <2>3. ASSUME j < k PROVE FALSE
    <3>1. k > 1 /\ k - 1 \in 1 .. N + 1 /\ (j = k - 1 \/ j < k - 1)
      BY <1>1, <2>3
    <3>2. Start(r, j) <= Start(r, k - 1)
      <4>1. j < k - 1 => Start(r, j) + Len(Boundary) + 9 <= Start(r, k - 1)
        BY <1>1, <3>1 DEF Starts
      <4>2. Start(r, j) \in Nat /\ Start(r, k - 1) \in Nat /\ Len(Boundary) \in Nat
        BY <1>1, <3>1, SymbolsAreTexts DEF Starts
      <4> QED
        BY <3>1, <4>1, <4>2
    <3>3. Start(r, j) \in Nat /\ Start(r, k - 1) \in Nat
      BY <1>1, <3>1 DEF Starts
    <3> QED
      BY <2>1, <2>2, <3>1, <3>2, <3>3
  <2>4. j = k \/ j > k
    BY <1>1, <2>3
  <2>5. j > k => Start(r, k) + Len(Boundary) + 9 <= Start(r, j)
    BY <1>1 DEF Starts
  <2>6. Start(r, j) \in Nat /\ Start(r, k) \in Nat /\ Len(Boundary) \in Nat
    BY <1>1, SymbolsAreTexts DEF Starts
  <2> QED
    BY <2>1, <2>4, <2>5, <2>6
<1>5. F \subseteq Nat /\ m - 1 = Start(r, k)
  BY <1>1, <1>2 DEF Starts
<1>6. Min(F) = m
  <2> HIDE DEF F, m
  <2> QED
    BY <1>3, <1>4, <1>5, MinIs
<1> QED
  BY <1>3, <1>5, <1>6

\* Two line ends in a text.
LEMMA LineEndsAt ==
  ASSUME NEW b \in Text, NEW i \in Nat \ {0}
  PROVE  i \in Occurrences(CRLF \o CRLF, b) <=>
           /\ i + 3 <= Len(b)
           /\ b[i] = CR /\ b[i + 1] = LF /\ b[i + 2] = CR /\ b[i + 3] = LF
<1> DEFINE e == Len(b)
           z == 0
<1>1. e \in Nat /\ z \in Nat /\ z <= e /\ z + 1 = 1 /\ e <= Len(b)
  BY DEF Text
<1>2. /\ z + i + 3 = i + 3 /\ z + i = i /\ z + i + 1 = i + 1 /\ z + i + 2 = i + 2
  OBVIOUS
<1>3. SubSeq(b, z + 1, e) = b
  BY <1>1 DEF Text
<1> HIDE DEF z, e
<1>4. i \in Occurrences(CRLF \o CRLF, SubSeq(b, z + 1, e)) <=>
        /\ z + i + 3 <= e
        /\ b[z + i] = CR /\ b[z + i + 1] = LF /\ b[z + i + 2] = CR /\ b[z + i + 3] = LF
  BY <1>1, LineEndsSeen
<1> QED
  BY <1>2, <1>3, <1>4 DEF e

\* The body after part k or, for k = 1, from its beginning: the next part is read.
LEMMA PartIsRead ==
  ASSUME NEW r \in Requests, NEW k \in 1 .. Count(r), NEW c \in Nat,
         c <= Start(r, k), k > 1 => Start(r, k - 1) < c
  PROVE  /\ ReadPart(Body(r), c) # None
         /\ r.parts[k].name \in Names =>
              ReadPart(Body(r), c) = [files |-> <<r.parts[k]>>, next |-> Start(r, k + 1)]
         /\ r.parts[k].name \notin Names =>
              ReadPart(Body(r), c) = [files |-> <<>>, next |-> Data(r, k)]
<1> DEFINE body   == Body(r)
           p      == CRLF \o CRLF
           x      == r.parts[k]
           t      == Header(r, k)
           s      == Start(r, k + 1)
           starts == From(Boundary, body, c)
           after  == Min(starts) - 1 + Len(Boundary)
           lines  == {i \in after + 1 .. Len(body) : body[i] \notin {CR, LF}}
           n      == IF lines = {} THEN Len(body) ELSE Min(lines) - 1
           ends   == From(p, body, n)
           begin  == Min(ends) - 1 + 4
           named  == {i \in after + 1 .. Min(ends) - 1 : body[i] \in Names}
           nexts  == From(Boundary, body, begin)
           last   == Min(nexts) - 1
           lf     == IF last > begin /\ body[last] = LF THEN last - 1 ELSE last
           crlf   == IF lf > begin /\ body[lf] = CR THEN lf - 1 ELSE lf
           found  == [name |-> body[Min(named)], data |-> SubSeq(body, begin + 1, crlf)]
<1>1. ReadPart(body, c) =
        IF starts = {} \/ ends = {} THEN None
        ELSE IF named = {} THEN [files |-> <<>>, next |-> begin]
        ELSE IF nexts = {} THEN None
        ELSE [files |-> <<found>>, next |-> last]
  BY DEF ReadPart, From
<1>2. /\ k \in 1 .. Count(r) + 1 /\ k + 1 \in 1 .. Count(r) + 1 /\ (k + 1) - 1 = k /\ k + 1 > 1
      /\ Len(Boundary) \in Nat /\ Start(r, k) \in Nat /\ s \in Nat /\ Len(x.data) \in Nat
      /\ t = Start(r, k) + Len(Boundary) /\ Data(r, k) = Start(r, k) + Len(Boundary) + 7
      /\ Data(r, k) + Len(x.data) + 2 = s
  <2>1. Count(r) \in Nat
    BY LeadsAreTexts
  <2>2. k + 1 \in 1 .. Count(r) + 1 /\ (k + 1) - 1 = k /\ k + 1 > 1
    BY <2>1
  <2> QED
    BY <2>2, Places
<1> DEFINE d == Data(r, k)
           l == Len(x.data)
<1>3. t \in Nat /\ d = t + 7 /\ l \in Nat /\ s \in Nat /\ d + l + 2 = s
  BY <1>2
<1>4. /\ body \in Text /\ Len(body) \in Nat /\ s <= Len(body)
      /\ x.data \in Text /\ SubSeq(body, d + 1, d + l) = x.data /\ x \in Part
      /\ x.name \in Names \cup {None}
  <2>1. body \in Text
    BY PartsInBody DEF EndAt
  <2>2. x \in Part
    BY LeadsAreTexts
  <2>3. s <= Len(body) /\ x.data \in Text /\ SubSeq(body, d + 1, d + l) = x.data
    BY DataInBody
  <2> HIDE DEF body, x, s, d, l
  <2>4. Len(body) \in Nat
    BY <2>1 DEF Text
  <2>5. x.name \in Names \cup {None}
    BY <2>2 DEF Part
  <2> QED
    BY <2>1, <2>2, <2>3, <2>4, <2>5
<1>5. /\ body[t + 1] = CR /\ body[t + 2] = LF /\ body[t + 3] = x.name
      /\ body[t + 4] = CR /\ body[t + 5] = LF /\ body[t + 6] = CR /\ body[t + 7] = LF
      /\ body[t + 7 + l + 1] = CR /\ body[t + 7 + l + 2] = LF
  BY PartsInBody DEF PartAt
<1>6. /\ CR # LF /\ CR \notin Names /\ LF \notin Names /\ x.name \notin {CR, LF} /\ None \notin Names
  BY <1>4, SymbolsAssumption
<1>7. starts # {} /\ after = t
  BY <1>2, BoundaryFound
<1> HIDE DEF starts, after, s, d, l, t, x, body
<1>8. n = t + 2
  <2>1. /\ t + 3 \in lines /\ t + 3 \in Nat
        /\ \A i \in lines : t + 3 <= i
        /\ lines \subseteq Nat
    <3>1. t + 3 \in lines
      BY <1>3, <1>4, <1>5, <1>6, <1>7
    <3>2. ASSUME NEW i \in lines PROVE t + 3 <= i /\ i \in Nat
      <4>1. i \in t + 1 .. Len(body) /\ body[i] \notin {CR, LF}
        BY <1>7
      <4>2. i # t + 1 /\ i # t + 2
        BY <1>5, <4>1
      <4> QED
        BY <1>3, <4>1, <4>2
    <3> QED
      BY <1>3, <3>1, <3>2
  <2> HIDE DEF lines
  <2>2. Min(lines) = t + 3
    BY <2>1, MinIs
  <2> QED
    BY <1>3, <2>1, <2>2
<1> HIDE DEF n
<1>9. ends # {} /\ Min(ends) = t + 4
  <2>1. t + 4 \in ends
    <3>1. t + 4 \in Nat \ {0} /\ (t + 4) + 3 <= Len(body) /\ t + 4 > t + 2
      BY <1>3, <1>4
    <3>2. (t + 4) + 1 = t + 5 /\ (t + 4) + 2 = t + 6 /\ (t + 4) + 3 = t + 7
      BY <1>3
    <3>3. t + 4 \in Occurrences(p, body)
      BY <1>4, <1>5, <3>1, <3>2, LineEndsAt
    <3> QED
      BY <1>8, <3>1, <3>3 DEF From
  <2>2. ASSUME NEW i \in ends PROVE t + 4 <= i /\ i \in Nat
    <3>1. i \in Occurrences(p, body) /\ i > t + 2
      BY <1>8 DEF From
    <3>2. i \in Nat \ {0}
      BY <1>4, <3>1, FirstOccurrence, SymbolsAreTexts
    <3>3. body[i] = CR
      BY <1>4, <3>1, <3>2, LineEndsAt
    <3>4. i # t + 3
      BY <1>5, <1>6, <3>3
    <3> QED
      BY <1>3, <3>1, <3>2, <3>4
  <2>3. ends \subseteq Nat
    BY <2>2
  <2> HIDE DEF ends
  <2> QED
    BY <2>1, <2>2, <2>3, MinIs
<1> HIDE DEF ends
<1>10. begin = d
  BY <1>3, <1>9
<1>11. named = IF x.name \in Names THEN {t + 3} ELSE {}
  <2>1. named = {i \in t + 1 .. t + 3 : body[i] \in Names}
    <3>1. Min(ends) - 1 = t + 3
      BY <1>3, <1>9
    <3> QED
      BY <1>7, <3>1
  <2>2. t + 1 .. t + 3 = {t + 1, t + 2, t + 3}
    BY <1>3
  <2> HIDE DEF named
  <2> QED
    BY <1>5, <1>6, <2>1, <2>2
<1> HIDE DEF begin, named
<1>12. nexts # {} /\ last = s
  <2>1. d \in Nat /\ d <= s /\ Start(r, k) < d
    BY <1>2, <1>3 DEF d, s, t
  <2> QED
    BY <1>2, <1>10, <2>1, BoundaryFound DEF body, s, d
<1> HIDE DEF nexts, last
<1>13. crlf = d + l
  <2>1. body[s] = LF /\ body[s - 1] = CR /\ s > d /\ s - 1 > d /\ (s - 1) - 1 = d + l
    <3>1. t + 7 + l + 2 = s /\ t + 7 + l + 1 = s - 1
      BY <1>3
    <3>2. s > d /\ s - 1 > d /\ (s - 1) - 1 = d + l
      BY <1>3
    <3> QED
      BY <1>5, <3>1, <3>2
  <2>2. lf = s - 1
    BY <1>10, <1>12, <2>1
  <2> HIDE DEF lf
  <2> QED
    BY <1>10, <2>1, <2>2
<1> HIDE DEF crlf
<1>14. CASE x.name \in Names
  <2>1. named # {} /\ Min(named) = t + 3
    <3>1. {t + 3} \subseteq Nat /\ t + 3 \in {t + 3} /\ \A i \in {t + 3} : t + 3 <= i
      BY <1>3
    <3>2. named = {t + 3}
      BY <1>11, <1>14
    <3> QED
      BY <3>1, <3>2, MinIs
  <2>2. found = x
    <3>1. found = [name |-> x.name, data |-> x.data]
      BY <1>4, <1>5, <1>10, <1>13, <2>1
    <3> QED
      BY <1>4, <3>1 DEF Part
  <2> HIDE DEF found
  <2>3. ReadPart(body, c) = [files |-> <<x>>, next |-> s]
    BY <1>1, <1>7, <1>9, <1>12, <2>1, <2>2
  <2>4. [files |-> <<x>>, next |-> s] \in Reading
    BY <1>3, <1>4 DEF Reading
  <2> QED
    BY <1>14, <2>3, <2>4, SymbolsAssumption DEF x, s, body
<1>15. CASE x.name \notin Names
  <2>1. ReadPart(body, c) = [files |-> <<>>, next |-> d]
    BY <1>1, <1>7, <1>9, <1>10, <1>11, <1>15
  <2>2. [files |-> <<>>, next |-> d] \in Reading
    BY <1>3 DEF Reading
  <2> QED
    BY <1>15, <2>1, <2>2, SymbolsAssumption DEF x, d, body
<1> QED
  BY <1>14, <1>15

\* After the last part nothing is read.
LEMMA EndIsRead ==
  ASSUME NEW r \in Requests, NEW c \in Nat, c <= Start(r, Count(r) + 1),
         Count(r) > 0 => Start(r, Count(r)) < c
  PROVE  ReadPart(Body(r), c) = None
<1> DEFINE N      == Count(r)
           body   == Body(r)
           p      == CRLF \o CRLF
           t      == Header(r, N + 1)
           starts == From(Boundary, body, c)
           after  == Min(starts) - 1 + Len(Boundary)
           lines  == {i \in after + 1 .. Len(body) : body[i] \notin {CR, LF}}
           n      == IF lines = {} THEN Len(body) ELSE Min(lines) - 1
           ends   == From(p, body, n)
<1>1. starts = {} \/ ends = {} => ReadPart(body, c) = None
  BY DEF ReadPart, From
<1>2. /\ N \in Nat /\ N + 1 \in 1 .. N + 1 /\ (N + 1) - 1 = N /\ (N + 1 > 1 => N > 0)
      /\ t \in Nat /\ t = Start(r, N + 1) + Len(Boundary)
  <2>1. N \in Nat
    BY LeadsAreTexts
  <2>2. N + 1 \in 1 .. N + 1 /\ (N + 1) - 1 = N /\ (N + 1 > 1 => N > 0)
    BY <2>1
  <2>3. Start(r, N + 1) \in Nat /\ t = Start(r, N + 1) + Len(Boundary) /\ Len(Boundary) \in Nat
    BY <2>2, LastPlaces
  <2>4. t \in Nat
    BY <2>3
  <2> QED
    BY <2>1, <2>2, <2>3, <2>4
<1>3. body \in Text /\ Len(body) = t + 4 /\ body[t + 1] = Dash
  BY PartsInBody DEF EndAt
<1>4. after = t
  BY <1>2, BoundaryFound
<1> HIDE DEF N, body, t, starts, after
<1>5. n = t
  <2>1. t + 1 \in lines
    BY <1>2, <1>3, <1>4, SymbolsAssumption
  <2>2. \A i \in lines : t + 1 <= i /\ i \in Nat
    BY <1>2, <1>4
  <2>3. lines \subseteq Nat
    BY <2>2
  <2> HIDE DEF lines
  <2>4. Min(lines) = t + 1
    BY <2>1, <2>2, <2>3, MinIs
  <2> QED
    BY <1>2, <2>1, <2>4
<1> HIDE DEF n
<1>6. ends = {}
  <2> SUFFICES ASSUME NEW i \in ends PROVE FALSE
    OBVIOUS
  <2>1. i \in Occurrences(p, body) /\ i > t
    BY <1>5 DEF From
  <2>2. i \in Nat \ {0}
    BY <1>3, <2>1, FirstOccurrence, SymbolsAreTexts
  <2>3. body[i] = CR /\ i + 3 <= t + 4
    BY <1>3, <2>1, <2>2, LineEndsAt
  <2>4. i = t + 1
    BY <1>2, <2>1, <2>2, <2>3
  <2> QED
    BY <1>3, <2>3, <2>4, SymbolsAssumption
<1> QED
  BY <1>1, <1>6 DEF body

\* What is read of a text is a sequence of parts, and the reading goes on after it.
LEMMA ReadingGoesOn ==
  ASSUME NEW b \in Text, NEW c \in 0 .. Len(b), ReadPart(b, c) # None
  PROVE  /\ ReadPart(b, c).files \in Seq(Part)
         /\ ReadPart(b, c).next \in c + 1 .. Len(b)
<1> DEFINE p      == CRLF \o CRLF
           starts == From(Boundary, b, c)
           after  == Min(starts) - 1 + Len(Boundary)
           lines  == {i \in after + 1 .. Len(b) : b[i] \notin {CR, LF}}
           n      == IF lines = {} THEN Len(b) ELSE Min(lines) - 1
           ends   == From(p, b, n)
           begin  == Min(ends) - 1 + 4
           named  == {i \in after + 1 .. Min(ends) - 1 : b[i] \in Names}
           nexts  == From(Boundary, b, begin)
           last   == Min(nexts) - 1
           lf     == IF last > begin /\ b[last] = LF THEN last - 1 ELSE last
           crlf   == IF lf > begin /\ b[lf] = CR THEN lf - 1 ELSE lf
           found  == [name |-> b[Min(named)], data |-> SubSeq(b, begin + 1, crlf)]
<1>1. ReadPart(b, c) =
        IF starts = {} \/ ends = {} THEN None
        ELSE IF named = {} THEN [files |-> <<>>, next |-> begin]
        ELSE IF nexts = {} THEN None
        ELSE [files |-> <<found>>, next |-> last]
  BY DEF ReadPart, From
<1>2. /\ Len(b) \in Nat /\ c \in Nat
      /\ Boundary \in Text /\ Boundary # <<>> /\ Len(Boundary) \in Nat /\ Len(Boundary) > 2
      /\ p \in Text /\ p # <<>> /\ Len(p) = 4
  BY SymbolsAreTexts DEF Text
<1>3. starts # {} /\ ends # {}
  <2> HIDE DEF starts, ends
  <2> QED
    BY <1>1
<1>4. after \in Nat /\ after > c /\ after <= Len(b)
  <2>1. /\ Min(starts) \in Nat /\ Min(starts) > c
        /\ Min(starts) + Len(Boundary) - 1 <= Len(b)
    BY <1>2, <1>3, FoundInText
  <2> HIDE DEF starts
  <2> QED
    BY <1>2, <2>1
<1> HIDE DEF starts, after
<1>5. n \in Nat /\ n > c
  <2>1. CASE lines = {}
    BY <1>2, <1>4, <2>1
  <2>2. CASE lines # {}
    <3>1. lines \subseteq Nat /\ \A i \in lines : i >= after + 1
      BY <1>4
    <3> HIDE DEF lines
    <3>2. Min(lines) \in lines
      BY <2>2, <3>1, MinIsLeast
    <3>3. Min(lines) \in Nat /\ Min(lines) >= after + 1
      BY <3>1, <3>2
    <3>4. n = Min(lines) - 1
      BY <2>2
    <3> HIDE DEF n
    <3> QED
      BY <1>4, <3>3, <3>4
  <2> QED
    BY <2>1, <2>2
<1> HIDE DEF n
<1>6. begin \in Nat /\ begin > c /\ begin <= Len(b)
  <2>1. Min(ends) \in Nat /\ Min(ends) > n /\ Min(ends) + Len(p) - 1 <= Len(b)
    BY <1>2, <1>3, <1>5, FoundInText
  <2> HIDE DEF ends, p
  <2> QED
    BY <1>2, <1>5, <2>1
<1> HIDE DEF ends, begin
<1>7. CASE named = {}
  <2>1. ReadPart(b, c) = [files |-> <<>>, next |-> begin]
    BY <1>1, <1>3, <1>7
  <2>2. begin \in c + 1 .. Len(b)
    BY <1>2, <1>6
  <2> QED
    BY <2>1, <2>2
<1>8. CASE named # {}
  <2>1. nexts # {}
    <3> HIDE DEF nexts, named
    <3> QED
      BY <1>1, <1>3, <1>8
  <2>2. ReadPart(b, c) = [files |-> <<found>>, next |-> last]
    <3> HIDE DEF nexts, named, found, last
    <3> QED
      BY <1>1, <1>3, <1>8, <2>1
  <2>3. last \in Nat /\ last >= begin /\ last <= Len(b)
    <3>1. /\ Min(nexts) \in Nat /\ Min(nexts) > begin
          /\ Min(nexts) + Len(Boundary) - 1 <= Len(b)
      BY <1>2, <1>6, <2>1, FoundInText
    <3> HIDE DEF nexts
    <3> QED
      BY <1>2, <1>6, <3>1
  <2> HIDE DEF nexts, last
  <2>4. crlf \in Nat /\ begin <= crlf /\ crlf <= Len(b)
    <3>1. lf \in Nat /\ begin <= lf /\ lf <= Len(b)
      BY <1>2, <1>6, <2>3
    <3> HIDE DEF lf
    <3> QED
      BY <1>2, <1>6, <3>1
  <2> HIDE DEF crlf
  <2>5. SubSeq(b, begin + 1, crlf) \in Text
    BY <1>6, <2>4, Window
  <2>6. b[Min(named)] \in Names
    <3>1. named \subseteq Nat
      BY <1>4
    <3>2. Min(named) \in named
      <4> HIDE DEF named
      <4> QED
        BY <1>8, <3>1, MinIsLeast
    <3> QED
      BY <3>2
  <2>7. found \in Part
    BY <2>5, <2>6 DEF Part
  <2>8. last \in c + 1 .. Len(b)
    BY <1>2, <1>6, <2>3
  <2> HIDE DEF found
  <2> QED
    BY <2>2, <2>7, <2>8
<1> QED
  BY <1>7, <1>8

\* What a function f of the places of b is that takes one part after the other.
Reads(b, f, m) ==
  /\ f \in [m .. Len(b) -> Seq(Part)]
  /\ \A c \in m .. Len(b) :
       f[c] = IF ReadPart(b, c) = None THEN <<>>
              ELSE ReadPart(b, c).files \o f[ReadPart(b, c).next]

\* There is one.
LEMMA ReadingEnds ==
  ASSUME NEW b \in Text
  PROVE  \E f : Reads(b, f, 0)
<1> DEFINE L == Len(b)
           T == {n \in 0 .. L : \E f : Reads(b, f, L - n)}
<1>1. L \in Nat
  BY DEF Text
<1>2. ASSUME NEW m \in 0 .. L, NEW g, g \in [m + 1 .. L -> Seq(Part)],
             m + 1 <= L => Reads(b, g, m + 1)
      PROVE  \E f : Reads(b, f, m)
  <2> DEFINE v == IF ReadPart(b, m) = None THEN <<>>
                  ELSE ReadPart(b, m).files \o g[ReadPart(b, m).next]
             f == [c \in m .. L |-> IF c = m THEN v ELSE g[c]]
  <2>1. v \in Seq(Part)
    <3>1. CASE ReadPart(b, m) = None
      BY <3>1
    <3>2. CASE ReadPart(b, m) # None
      <4>1. ReadPart(b, m).files \in Seq(Part) /\ ReadPart(b, m).next \in m + 1 .. L
        BY <3>2, ReadingGoesOn
      <4>2. g[ReadPart(b, m).next] \in Seq(Part)
        BY <1>2, <4>1
      <4>3. v = ReadPart(b, m).files \o g[ReadPart(b, m).next]
        BY <3>2
      <4> QED
        BY <4>1, <4>2, <4>3, ConcatProperties
    <3> QED
      BY <3>1, <3>2
  <2>2. \A c \in m .. L : c = m \/ c \in m + 1 .. L
    BY <1>1
  <2>3. f \in [m .. L -> Seq(Part)]
    <3> HIDE DEF v
    <3> QED
      BY <1>2, <2>1, <2>2
  <2>4. f[m] = v /\ \A c \in m + 1 .. L : f[c] = g[c]
    <3> HIDE DEF v
    <3> QED
      BY <1>1
  <2> HIDE DEF f
  <2>5. ASSUME NEW c \in m .. L
        PROVE  f[c] = IF ReadPart(b, c) = None THEN <<>>
                      ELSE ReadPart(b, c).files \o f[ReadPart(b, c).next]
    <3>1. ReadPart(b, c) # None => ReadPart(b, c).next \in c + 1 .. L
      <4>1. c \in 0 .. Len(b)
        BY <1>1
      <4> QED
        BY <4>1, ReadingGoesOn
    <3>2. ReadPart(b, c) # None => f[ReadPart(b, c).next] = g[ReadPart(b, c).next]
      <4>1. \A j \in c + 1 .. L : j \in m + 1 .. L
        BY <1>1
      <4> HIDE DEF L
      <4> QED
        BY <2>4, <3>1, <4>1
    <3>3. CASE c = m
      BY <2>4, <3>2, <3>3
    <3>4. CASE c \in m + 1 .. L
      <4>1. m + 1 <= L
        BY <1>1, <3>4
      <4>2. g[c] = IF ReadPart(b, c) = None THEN <<>>
                   ELSE ReadPart(b, c).files \o g[ReadPart(b, c).next]
        BY <1>2, <3>4, <4>1 DEF Reads
      <4> QED
        BY <2>4, <3>2, <3>4, <4>2
    <3> QED
      BY <2>2, <3>3, <3>4
  <2>6. Reads(b, f, m)
    BY <2>3, <2>5 DEF Reads
  <2> QED
    BY <2>6
<1>3. 0 \in T
  <2> DEFINE g == [c \in L + 1 .. L |-> <<>>]
  <2>1. g \in [L + 1 .. L -> Seq(Part)] /\ ~(L + 1 <= L) /\ L \in 0 .. L
    BY <1>1
  <2>2. \E f : Reads(b, f, L)
    <3> HIDE DEF g
    <3> QED
      BY <1>2, <2>1
  <2>3. L - 0 = L /\ 0 \in 0 .. L
    BY <1>1
  <2> QED
    BY <2>2, <2>3
<1>4. ASSUME NEW n \in 0 .. L - 1, n \in T
      PROVE  n + 1 \in T
  <2> DEFINE m == L - (n + 1)
  <2>1. m \in 0 .. L /\ m + 1 = L - n /\ n + 1 \in 0 .. L
    BY <1>1
  <2>2. PICK g : Reads(b, g, m + 1)
    BY <1>4, <2>1
  <2> HIDE DEF m
  <2>3. g \in [m + 1 .. L -> Seq(Part)]
    BY <2>2 DEF Reads
  <2>4. \E f : Reads(b, f, m)
    BY <1>2, <2>1, <2>2, <2>3
  <2> QED
    BY <2>1, <2>4 DEF m
<1>5. L \in T
  <2> HIDE DEF T
  <2>1. 0 .. L \subseteq T
    BY <1>1, <1>3, <1>4, InductionTo
  <2> QED
    BY <1>1, <2>1
<1>6. L - L = 0
  BY <1>1
<1> QED
  BY <1>5, <1>6

\* parseMultipartFormData is the value of one at the beginning.
LEMMA ParsedIs ==
  ASSUME NEW b \in Text
  PROVE  \E f : Reads(b, f, 0) /\ parseMultipartFormData(b) = f[0]
<1> DEFINE Is(f) == f = [c \in 0 .. Len(b) |->
                           IF ReadPart(b, c) = None THEN <<>>
                           ELSE ReadPart(b, c).files \o f[ReadPart(b, c).next]]
           parts == CHOOSE f : Is(f)
<1>1. parseMultipartFormData(b) = parts[0]
  BY DEF parseMultipartFormData
<1>2. \E f : Is(f)
  BY ReadingEnds DEF Reads
<1>3. Is(parts)
  BY <1>2
<1> DEFINE L == Len(b)
           T == {n \in 0 .. L : \A c \in L - n .. L : parts[c] \in Seq(Part)}
<1>4. L \in Nat
  BY DEF Text
<1>5. \A c \in 0 .. L : parts[c] = IF ReadPart(b, c) = None THEN <<>>
                                   ELSE ReadPart(b, c).files \o parts[ReadPart(b, c).next]
  <2> HIDE DEF parts
  <2> QED
    BY <1>3
<1>6. parts = [c \in 0 .. L |-> parts[c]]
  <2> HIDE DEF parts
  <2> QED
    BY <1>3
<1> HIDE DEF parts, Is
<1>7. ASSUME NEW m \in 0 .. L, \A c \in m + 1 .. L : parts[c] \in Seq(Part)
      PROVE  parts[m] \in Seq(Part)
  <2>1. CASE ReadPart(b, m) = None
    <3>1. parts[m] = <<>>
      BY <1>5, <2>1
    <3> QED
      BY <3>1
  <2>2. CASE ReadPart(b, m) # None
    <3>1. ReadPart(b, m).files \in Seq(Part) /\ ReadPart(b, m).next \in m + 1 .. L
      BY <2>2, ReadingGoesOn
    <3>2. parts[ReadPart(b, m).next] \in Seq(Part)
      BY <1>7, <3>1
    <3>3. parts[m] = ReadPart(b, m).files \o parts[ReadPart(b, m).next]
      BY <1>5, <2>2
    <3> QED
      BY <3>1, <3>2, <3>3, ConcatProperties
  <2> QED
    BY <2>1, <2>2
<1>8. 0 \in T
  <2>1. L \in 0 .. L /\ L + 1 .. L = {} /\ L - 0 = L /\ L .. L = {L} /\ 0 \in 0 .. L
    BY <1>4
  <2>2. parts[L] \in Seq(Part)
    BY <1>7, <2>1
  <2> QED
    BY <2>1, <2>2
<1>9. ASSUME NEW n \in 0 .. L - 1, n \in T
      PROVE  n + 1 \in T
  <2> DEFINE m == L - (n + 1)
  <2>1. /\ m \in 0 .. L /\ m + 1 = L - n /\ n + 1 \in 0 .. L
        /\ \A c \in m .. L : c = m \/ c \in m + 1 .. L
    BY <1>4
  <2> HIDE DEF m
  <2>2. \A c \in m + 1 .. L : parts[c] \in Seq(Part)
    BY <1>9, <2>1
  <2>3. parts[m] \in Seq(Part)
    BY <1>7, <2>1, <2>2
  <2>4. \A c \in m .. L : parts[c] \in Seq(Part)
    BY <2>1, <2>2, <2>3
  <2> QED
    BY <2>1, <2>4 DEF m
<1>10. \A c \in 0 .. L : parts[c] \in Seq(Part)
  <2> HIDE DEF T
  <2>1. 0 .. L \subseteq T
    BY <1>4, <1>8, <1>9, InductionTo
  <2>2. L - L = 0 /\ L \in 0 .. L
    BY <1>4
  <2> QED
    BY <2>1, <2>2 DEF T
<1>11. Reads(b, parts, 0)
  BY <1>5, <1>6, <1>10 DEF Reads
<1> QED
  BY <1>1, <1>11

\* In the body of a request it finds the files, in their order.
LEMMA ParsedAreParts ==
  ASSUME NEW r \in Requests, r.broken = {}
  PROVE  parseMultipartFormData(Body(r)) = Opened(r, Count(r))
<1> DEFINE N == Count(r)
           b == Body(r)
           Place(c, k) == c <= Start(r, k) /\ (k > 1 => Start(r, k - 1) < c)
<1>1. PICK f : Reads(b, f, 0) /\ parseMultipartFormData(b) = f[0]
  <2>1. b \in Text
    BY PartsInBody DEF EndAt
  <2> QED
    BY <2>1, ParsedIs
<1>2. /\ f \in [0 .. Len(b) -> Seq(Part)]
      /\ \A c \in 0 .. Len(b) :
           f[c] = IF ReadPart(b, c) = None THEN <<>>
                  ELSE ReadPart(b, c).files \o f[ReadPart(b, c).next]
  BY <1>1 DEF Reads
<1>3. N \in Nat /\ Len(b) \in Nat
  BY LeadsAreTexts, PartsInBody DEF EndAt, Text
<1> DEFINE T == {n \in 0 .. N : \E c \in 0 .. Len(b) :
                                  Place(c, n + 1) /\ f[0] = Opened(r, n) \o f[c]}
<1>4. 0 \in T
  <2>1. Start(r, 1) = 0 /\ 0 \in 0 .. Len(b) /\ 0 \in 0 .. N
    BY <1>3, StartsOfParts DEF Starts
  <2>2. Opened(r, 0) = <<>> /\ f[0] \in Seq(Part)
    BY <1>2, <2>1, OpenedGrows
  <2>3. Place(0, 0 + 1) /\ f[0] = Opened(r, 0) \o f[0]
    BY <2>1, <2>2, ConcatEmptySeq
  <2> QED
    BY <2>1, <2>3
<1>5. ASSUME NEW n \in 0 .. N - 1, n \in T
      PROVE  n + 1 \in T
  <2> DEFINE k == n + 1
             x == r.parts[k]
  <2>1. PICK c \in 0 .. Len(b) : Place(c, k) /\ f[0] = Opened(r, n) \o f[c]
    BY <1>5
  <2>2. /\ k \in 1 .. N /\ k \in 0 .. N /\ k - 1 = n /\ (k + 1) - 1 = k
        /\ k + 1 > 1 /\ c \in Nat /\ n \in 0 .. N
    BY <1>3
  <2> HIDE DEF k
  <2>3. /\ ReadPart(b, c) # None
        /\ x.name \in Names =>
             ReadPart(b, c) = [files |-> <<x>>, next |-> Start(r, k + 1)]
        /\ x.name \notin Names =>
             ReadPart(b, c) = [files |-> <<>>, next |-> Data(r, k)]
    BY <2>1, <2>2, PartIsRead
  <2>4. /\ Opened(r, n) \in Seq(Part) /\ x \in Part
        /\ Opened(r, k) = IF Opens(r, k) THEN Append(Opened(r, n), x) ELSE Opened(r, n)
    BY <2>2, NextOpened, LeadsAreTexts
  <2>5. Opens(r, k) <=> x.name \in Names
    BY DEF Opens
  <2>6. f[c] = ReadPart(b, c).files \o f[ReadPart(b, c).next]
    BY <1>2, <2>1, <2>3
  <2>7. /\ Start(r, k) < Data(r, k) /\ Data(r, k) <= Start(r, k + 1)
        /\ Start(r, k) < Start(r, k + 1)
        /\ Start(r, k + 1) \in 0 .. Len(b) /\ Data(r, k) \in 0 .. Len(b)
    <3>1. /\ Len(Boundary) \in Nat /\ Start(r, k) \in Nat /\ Start(r, k + 1) \in Nat
          /\ Len(x.data) \in Nat
          /\ Data(r, k) = Start(r, k) + Len(Boundary) + 7
          /\ Data(r, k) + Len(x.data) + 2 = Start(r, k + 1)
      BY <2>2, Places
    <3>2. Start(r, k + 1) <= Len(b)
      BY <2>2, DataInBody
    <3> DEFINE h == Len(Boundary)
               s == Start(r, k)
               t == Start(r, k + 1)
               l == Len(x.data)
               d == Data(r, k)
               m == Len(b)
    <3>3. /\ h \in Nat /\ s \in Nat /\ t \in Nat /\ l \in Nat /\ m \in Nat
          /\ d = s + h + 7 /\ d + l + 2 = t /\ t <= m
      BY <1>3, <3>1, <3>2
    <3> HIDE DEF h, s, t, l, d, m
    <3>4. s < d /\ d <= t /\ s < t /\ t \in 0 .. m /\ d \in 0 .. m
      BY <3>3
    <3> QED
      BY <3>4 DEF s, t, d, m
  <2>8. ASSUME NEW d \in 0 .. Len(b), Start(r, k) < d, d <= Start(r, k + 1),
               Opened(r, n) \o f[c] = Opened(r, k) \o f[d]
        PROVE  k \in T
    <3>1. Place(d, k + 1)
      BY <2>2, <2>8
    <3> QED
      BY <2>1, <2>2, <2>8, <3>1
  <2>9. CASE x.name \in Names
    <3> DEFINE d == Start(r, k + 1)
    <3>1. f[c] = <<x>> \o f[d] /\ f[d] \in Seq(Part)
      <4>1. ReadPart(b, c) = [files |-> <<x>>, next |-> d]
        BY <2>3, <2>9
      <4>2. ReadPart(b, c).files = <<x>> /\ ReadPart(b, c).next = d
        <5> HIDE DEF b, x, d
        <5> QED
          BY <4>1
      <4>3. f[d] \in Seq(Part)
        BY <1>2, <2>7
      <4> QED
        BY <2>6, <4>2, <4>3
    <3>2. Opened(r, k) = Opened(r, n) \o <<x>>
      BY <2>4, <2>5, <2>9, AppendIsConcat
    <3>3. <<x>> \in Seq(Part) /\ Opened(r, n) \in Seq(Part)
      <4> HIDE DEF x
      <4> QED
        BY <2>4
    <3> HIDE DEF x, d, T, Place, b
    <3>4. Opened(r, n) \o (<<x>> \o f[d]) = (Opened(r, n) \o <<x>>) \o f[d]
      <4> DEFINE o == Opened(r, n)
                 y == <<x>>
                 z == f[d]
      <4>1. o \in Seq(Part) /\ y \in Seq(Part) /\ z \in Seq(Part)
        BY <3>1, <3>3
      <4> HIDE DEF o, y, z
      <4>2. o \o (y \o z) = (o \o y) \o z
        BY <4>1, ConcatAssociative
      <4> QED
        BY <4>2 DEF o, y, z
    <3>5. Opened(r, n) \o f[c] = Opened(r, k) \o f[d]
      BY <3>1, <3>2, <3>4
    <3>6. d \in 0 .. Len(b) /\ Start(r, k) < d /\ d <= Start(r, k + 1)
      <4>1. Start(r, k + 1) \in Nat
        BY <2>7
      <4> QED
        BY <2>7, <4>1 DEF d
    <3>7. k \in T
      BY <2>8, <3>5, <3>6
    <3> QED
      BY <3>7 DEF k
  <2>10. CASE x.name \notin Names
    <3> DEFINE d == Data(r, k)
    <3>1. f[c] = <<>> \o f[d] /\ f[d] \in Seq(Part)
      <4>1. ReadPart(b, c) = [files |-> <<>>, next |-> d]
        BY <2>3, <2>10
      <4>2. ReadPart(b, c).files = <<>> /\ ReadPart(b, c).next = d
        <5> HIDE DEF b, d
        <5> QED
          BY <4>1
      <4>3. f[d] \in Seq(Part)
        BY <1>2, <2>7
      <4> QED
        BY <2>6, <4>2, <4>3
    <3>2. f[c] = f[d]
      BY <3>1, ConcatEmptySeq
    <3>3. Opened(r, k) = Opened(r, n)
      BY <2>4, <2>5, <2>10
    <3> HIDE DEF x, T, Place, b
    <3>4. k \in T
      BY <2>7, <2>8, <3>2, <3>3
    <3> QED
      BY <3>4 DEF k
  <2> QED
    BY <2>9, <2>10
<1>6. N \in T
  <2> HIDE DEF T
  <2>1. 0 .. N \subseteq T
    BY <1>3, <1>4, <1>5, InductionTo
  <2> QED
    BY <1>3, <2>1
<1>7. PICK c \in 0 .. Len(b) : Place(c, N + 1) /\ f[0] = Opened(r, N) \o f[c]
  BY <1>6
<1>8. ReadPart(b, c) = None
  <2>1. (N + 1) - 1 = N /\ (N > 0 => N + 1 > 1) /\ c \in Nat
    BY <1>3
  <2> QED
    BY <1>7, <2>1, EndIsRead
<1>9. Opened(r, N) \in Seq(Part)
  <2>1. N \in 0 .. N
    BY <1>3
  <2> QED
    BY <2>1, OpenedGrows
<1>10. f[c] = <<>>
  BY <1>2, <1>7, <1>8
<1> QED
  BY <1>1, <1>7, <1>9, <1>10, ConcatEmptySeq

\* When the body has arrived, the streaming parser has stored these files.
LEMMA AgreementFollows ==
  ASSUME EnoughIterations, ParserInv
  PROVE  ParsersAgree
<1> SUFFICES ASSUME phase = "done", fed = Len(Body(request)),
                    request.broken = {}, request.resume = None
             PROVE  parseMultipartFormData(Body(request)) =
                      [i \in DOMAIN saved |->
                         [name |-> saved[i].path[1], data |-> disk[saved[i].path]]]
  BY DEF ParsersAgree
<1> DEFINE o == Opened(request, Count(request))
<1>1. request \in Requests /\ DOMAIN saved = 1 .. Len(saved) /\ Len(saved) \in Nat
  BY DEF ParserInv, Types
<1>2. (Count(request) + 1) - 1 = Count(request) /\ Count(request) \in 0 .. Count(request)
  BY <1>1, LeadsAreTexts
<1>3. /\ Len(saved) = Len(o)
      /\ \A i \in 1 .. Len(saved) : /\ disk[saved[i].path] = Base(request) \o o[i].data
                                    /\ saved[i].path[1] = o[i].name
  BY <1>2 DEF ParserInv, Done, SavedInv
<1>4. o \in Seq(Part)
  BY <1>1, <1>2, OpenedGrows
<1>5. Base(request) = <<>>
  BY DEF Base
<1>6. parseMultipartFormData(Body(request)) = o
  BY <1>1, ParsedAreParts
<1> HIDE DEF o
<1>7. ASSUME NEW i \in 1 .. Len(saved)
      PROVE  o[i] = [name |-> saved[i].path[1], data |-> disk[saved[i].path]]
  <2>1. o[i] \in Part
    BY <1>3, <1>4
  <2>2. o[i] = [name |-> o[i].name, data |-> o[i].data] /\ o[i].data \in Seq(Symbols)
    BY <2>1 DEF Part, Text
  <2>3. <<>> \o o[i].data = o[i].data
    BY <2>2, ConcatEmptySeq
  <2> QED
    BY <1>3, <1>5, <2>2, <2>3
<1>8. o = [i \in 1 .. Len(saved) |-> o[i]]
  BY <1>3, <1>4
<1>9. o = [i \in DOMAIN saved |-> [name |-> saved[i].path[1], data |-> disk[saved[i].path]]]
  BY <1>1, <1>7, <1>8
<1> QED
  BY <1>6, <1>9

\* The two parsers of the server agree on every form of any number and size of files
\* and fields, in whatever blocks the streaming one gets it, if processBuffer may
\* make enough iterations for the parts.
THEOREM ParsersReadTheSame ==
  ASSUME EnoughIterations
  PROVE  ParserSpec => []ParsersAgree
<1>1. ParserInv => ParsersAgree
  BY AgreementFollows
<1> QED
  BY <1>1, ParserInvariant, PTL
================================================================================
