------------------------ MODULE SessionRequestsProofs -----------------------
(***************************************************************************)
(* For any requests and texts: the handler is started with the command the *)
(* client meant, the fields it reads stay as they are, Pty and X11 report  *)
(* what was asked for, and a terminal gets the line ends it needs.  The    *)
(* folds and recursive functions of the model are reasoned about by        *)
(* induction on natural numbers.                                           *)
(***************************************************************************)
EXTENDS SessionRequests, SequenceTheorems, WellFoundedInduction, TLAPS

-----------------------------------------------------------------------------
(* Induction, for sets: every non-empty set of naturals has a least one.   *)
LEMMA LeastExists ==
  ASSUME NEW T, T \subseteq Nat, T # {}
  PROVE  \E n \in T : \A m \in T : n <= m
<1> DEFINE R == OpToRel(<, Nat)
<1>1. IsWellFoundedOn(R, Nat)  BY NatLessThanWellFounded
<1> HIDE DEF R
<1>2. PICK n \in T : \A m \in T : ~(<<m, n>> \in R)  BY <1>1, WFMin
<1>3. ASSUME NEW m \in T PROVE n <= m
  <2>1. ~(<<m, n>> \in R) /\ m \in Nat /\ n \in Nat  BY <1>2
  <2>2. ~(m < n)  BY <2>1 DEF R, OpToRel
  <2>3. QED  BY <2>1, <2>2
<1>4. QED  BY <1>3

LEMMA Induction ==
  ASSUME NEW T, 0 \in T, \A n \in Nat : n \in T => n + 1 \in T
  PROVE  \A n \in Nat : n \in T
<1> SUFFICES ASSUME Nat \ T # {} PROVE FALSE  OBVIOUS
<1>1. PICK n \in Nat \ T : \A m \in Nat \ T : n <= m  BY LeastExists
<1>2. n # 0  BY <1>1
<1>3. n - 1 \in Nat /\ n - 1 \in T  BY <1>1, <1>2
<1>4. QED  BY <1>3

(* 1..n as a fold takes it apart.                                          *)
LEMMA Upto ==
  ASSUME NEW n \in Nat
  PROVE  /\ 1..0 = {} /\ 1..(n + 1) # {}
         /\ Max(1..(n + 1)) = n + 1
         /\ 1..(n + 1) \ {n + 1} = 1..n
<1>1. 1..0 = {} /\ 1..(n + 1) # {} /\ 1..(n + 1) \ {n + 1} = 1..n  OBVIOUS
<1>2. Max(1..(n + 1)) = n + 1
  <2>1. n + 1 \in 1..(n + 1) /\ \A y \in 1..(n + 1) : n + 1 >= y  OBVIOUS
  <2>2. \A x \in 1..(n + 1) : (\A y \in 1..(n + 1) : x >= y) => x = n + 1  OBVIOUS
  <2>3. QED  BY <2>1, <2>2 DEF Max
<1>3. QED  BY <1>1, <1>2

LEMMA GreatestExists ==
  ASSUME NEW n \in Nat, NEW S, S \subseteq 1..n, S # {}
  PROVE  \E x \in S : \A y \in S : x >= y
<1> DEFINE T == {n - x : x \in S}
<1>1. \A x \in S : x \in Nat /\ n - x \in Nat  OBVIOUS
<1>2. T \subseteq Nat /\ T # {}  BY <1>1
<1>3. PICK m \in T : \A k \in T : m <= k  BY <1>2, LeastExists
<1>4. PICK x \in S : m = n - x  BY <1>3
<1>5. ASSUME NEW y \in S PROVE x >= y
  <2>1. n - y \in T  OBVIOUS
  <2>2. n - x <= n - y  BY <2>1, <1>3, <1>4
  <2>3. QED  BY <2>2, <1>1
<1>6. QED  BY <1>5

LEMMA MaxOfUpto ==
  ASSUME NEW n \in Nat, NEW s, s \subseteq 1..n, s # {}
  PROVE  Max(s) \in s
<1>1. \E x \in s : \A y \in s : x >= y  BY GreatestExists
<1>2. QED  BY <1>1 DEF Max

LEMMA MaxIs ==
  ASSUME NEW S, S \subseteq Nat, NEW x \in S, \A y \in S : x >= y
  PROVE  Max(S) = x
<1>1. \A z \in S : (\A y \in S : z >= y) => z = x
  <2> SUFFICES ASSUME NEW z \in S, \A y \in S : z >= y PROVE z = x  OBVIOUS
  <2>1. z \in Nat /\ x \in Nat /\ z >= x /\ x >= z  OBVIOUS
  <2>2. QED  BY <2>1
<1>2. QED  BY <1>1 DEF Max

(* The function a fold over 1..n is defined by exists.                     *)
IsFold(f, n, D, base, step) ==
  /\ f = [s \in SUBSET (1..n) |->
            IF s = {} THEN base ELSE step[Max(s)][f[s \ {Max(s)}]]]
  /\ \A s \in SUBSET (1..n) : f[s] \in D

LEMMA FoldExists ==
  ASSUME NEW D, NEW base \in D, NEW n \in Nat, NEW step \in [1..n -> [D -> D]]
  PROVE  \E f : IsFold(f, n, D, base, step)
<1> DEFINE Is(f, k) ==
             /\ f = [s \in SUBSET (1..k) |->
                       IF s = {} THEN base ELSE step[Max(s)][f[s \ {Max(s)}]]]
             /\ \A s \in SUBSET (1..k) : f[s] \in D
           T == {k \in Nat : k <= n => \E f : Is(f, k)}
<1>1. 0 \in T
  <2> DEFINE f == [s \in SUBSET (1..0) |-> base]
  <2>1. SUBSET (1..0) = {{}}  BY 1..0 = {}
  <2>2. f = [s \in SUBSET (1..0) |->
               IF s = {} THEN base ELSE step[Max(s)][f[s \ {Max(s)}]]]
    BY <2>1
  <2>3. Is(f, 0)  BY <2>1, <2>2
  <2>4. QED  BY <2>3
<1>2. ASSUME NEW k \in Nat, k \in T PROVE k + 1 \in T
  <2> SUFFICES ASSUME k + 1 <= n PROVE \E f : Is(f, k + 1)
    <3>1. k + 1 \in Nat  OBVIOUS
    <3>2. QED  BY <3>1
  <2>1. PICK g : Is(g, k)
    <3>1. k <= n  OBVIOUS
    <3>2. QED  BY <1>2, <3>1
  <2> DEFINE h(s) == IF k + 1 \in s THEN step[k + 1][g[s \ {k + 1}]] ELSE g[s]
             f == [s \in SUBSET (1..(k + 1)) |-> h(s)]
  <2>2. ASSUME NEW s \in SUBSET (1..(k + 1)), k + 1 \notin s
        PROVE  s \in SUBSET (1..k)
    BY <2>2
  <2>3. ASSUME NEW s \in SUBSET (1..(k + 1)) PROVE h(s) \in D
    <3>1. CASE k + 1 \in s
      <4>1. s \ {k + 1} \in SUBSET (1..k)  OBVIOUS
      <4>2. g[s \ {k + 1}] \in D  BY <4>1, <2>1
      <4>3. k + 1 \in 1..n /\ step[k + 1] \in [D -> D]  OBVIOUS
      <4>4. QED  BY <3>1, <4>2, <4>3
    <3>2. CASE k + 1 \notin s
      <4>1. g[s] \in D  BY <2>1, <2>2, <3>2
      <4>2. QED  BY <3>2, <4>1
    <3>3. QED  BY <3>1, <3>2
  <2>4. ASSUME NEW s \in SUBSET (1..(k + 1))
        PROVE  h(s) = IF s = {} THEN base ELSE step[Max(s)][f[s \ {Max(s)}]]
    <3>1. CASE k + 1 \in s
      <4>1. Max(s) = k + 1
        <5>1. \A y \in s : k + 1 >= y  OBVIOUS
        <5>2. \A x \in s : (\A y \in s : x >= y) => x = k + 1  BY <3>1
        <5>3. QED  BY <3>1, <5>1, <5>2 DEF Max
      <4>2. s \ {k + 1} \in SUBSET (1..k) /\ s \ {k + 1} \in SUBSET (1..(k + 1))  OBVIOUS
      <4>3. f[s \ {k + 1}] = g[s \ {k + 1}]  BY <4>2
      <4>4. QED  BY <3>1, <4>1, <4>3
    <3>2. CASE k + 1 \notin s
      <4>1. s \in SUBSET (1..k)  BY <2>2, <3>2
      <4>2. g[s] = IF s = {} THEN base ELSE step[Max(s)][g[s \ {Max(s)}]]  BY <4>1, <2>1
      <4>3. ASSUME s # {} PROVE f[s \ {Max(s)}] = g[s \ {Max(s)}]
        <5>1. s \ {Max(s)} \in SUBSET (1..(k + 1)) /\ k + 1 \notin s \ {Max(s)}  BY <3>2
        <5>2. QED  BY <5>1
      <4>4. QED  BY <3>2, <4>2, <4>3
    <3>3. QED  BY <3>1, <3>2
  <2> HIDE DEF h
  <2>5. f = [s \in SUBSET (1..(k + 1)) |->
               IF s = {} THEN base ELSE step[Max(s)][f[s \ {Max(s)}]]]
    BY <2>4
  <2>6. \A s \in SUBSET (1..(k + 1)) : f[s] \in D  BY <2>3
  <2>7. QED  BY <2>5, <2>6
<1> HIDE DEF T
<1>3. n \in T  BY <1>1, <1>2, Induction
<1>4. \E f : Is(f, n)
  <2>1. n <= n  OBVIOUS
  <2>2. QED  BY <1>3, <2>1 DEF T
<1>5. QED  BY <1>4 DEF IsFold

(* What a fold goes through, from its base to its value. *)
IsRun(st, n, D, base, step) ==
  /\ st \in [0..n -> D]
  /\ st[0] = base
  /\ \A k \in 1..n : st[k] = step[k][st[k - 1]]

LEMMA RunExists ==
  ASSUME NEW D, NEW base \in D, NEW n \in Nat, NEW step \in [1..n -> [D -> D]]
  PROVE  \E st : IsRun(st, n, D, base, step)
<1>1. PICK f : IsFold(f, n, D, base, step)  BY FoldExists
<1> DEFINE st == [k \in 0..n |-> f[1..k]]
<1>2. st \in [0..n -> D]
  <2>1. \A k \in 0..n : 1..k \in SUBSET (1..n)  OBVIOUS
  <2>2. QED  BY <1>1, <2>1 DEF IsFold
<1>3. st[0] = base
  <2>1. 1..0 = {} /\ {} \in SUBSET (1..n) /\ 0 \in 0..n  OBVIOUS
  <2>2. QED  BY <1>1, <2>1 DEF IsFold
<1>4. ASSUME NEW k \in 1..n PROVE st[k] = step[k][st[k - 1]]
  <2>1. k - 1 \in Nat /\ (k - 1) + 1 = k /\ k \in 0..n /\ k - 1 \in 0..n  OBVIOUS
  <2>2. 1..k # {} /\ Max(1..k) = k /\ 1..k \ {k} = 1..(k - 1)  BY <2>1, Upto
  <2>3. 1..k \in SUBSET (1..n)  OBVIOUS
  <2>4. f[1..k] = step[k][f[1..(k - 1)]]  BY <1>1, <2>2, <2>3 DEF IsFold
  <2>5. QED  BY <2>1, <2>4
<1>5. QED  BY <1>2, <1>3, <1>4 DEF IsRun

(* Two runs that start and go on alike. *)
LEMMA RunsAgree ==
  ASSUME NEW n \in Nat, NEW st, NEW su, st[0] = su[0],
         \A k \in 1..n : st[k - 1] = su[k - 1] => st[k] = su[k]
  PROVE  st[n] = su[n]
<1> DEFINE T == {k \in Nat : k <= n => st[k] = su[k]}
<1>1. 0 \in T  OBVIOUS
<1>2. ASSUME NEW k \in Nat, k \in T PROVE k + 1 \in T
  <2> SUFFICES ASSUME k + 1 <= n PROVE st[k + 1] = su[k + 1]  OBVIOUS
  <2>1. k + 1 \in 1..n /\ (k + 1) - 1 = k /\ st[k] = su[k]  BY <1>2
  <2>2. QED  BY <2>1
<1> HIDE DEF T
<1>3. n \in T  BY <1>1, <1>2, Induction
<1>4. QED  BY <1>3 DEF T

(* Induction over sequences, as sets of them. *)
LEMMA SeqInduction ==
  ASSUME NEW S, NEW T, <<>> \in T,
         \A s \in Seq(S) : \A x \in S : s \in T => Append(s, x) \in T
  PROVE  \A s \in Seq(S) : s \in T
<1> DEFINE N == {k \in Nat : \A s \in Seq(S) : Len(s) = k => s \in T}
<1>1. 0 \in N
  <2>1. \A s \in Seq(S) : Len(s) = 0 => s = <<>>  BY EmptySeq
  <2>2. QED  BY <2>1
<1>2. ASSUME NEW k \in Nat, k \in N PROVE k + 1 \in N
  <2> SUFFICES ASSUME NEW s \in Seq(S), Len(s) = k + 1 PROVE s \in T  OBVIOUS
  <2> DEFINE f == SubSeq(s, 1, k)
  <2>1. f \in Seq(S) /\ Len(f) = k /\ s[k + 1] \in S  OBVIOUS
  <2>2. s = Append(f, s[k + 1])  OBVIOUS
  <2>3. f \in T  BY <1>2, <2>1
  <2> HIDE DEF f
  <2>4. QED  BY <2>1, <2>2, <2>3
<1> HIDE DEF N
<1>3. \A k \in Nat : k \in N  BY <1>1, <1>2, Induction
<1>4. QED  BY <1>3, LenProperties DEF N

(* FlattenSeq, one sequence after the other. *)
LEMMA FlattenRun ==
  ASSUME NEW A, NEW seqs \in Seq(Seq(A))
  PROVE  \E st \in [0..Len(seqs) -> Seq(A)] :
           /\ st[0] = <<>>
           /\ \A k \in 1..Len(seqs) : st[k] = st[k - 1] \o seqs[k]
           /\ FlattenSeq(seqs) = st[Len(seqs)]
<1> DEFINE n == Len(seqs)
           D == Seq(A)
           step == [k \in 1..n |-> [s \in D |-> s \o seqs[k]]]
           Is(f) == f = [i \in 1..n |-> IF i = 1 THEN seqs[i] ELSE f[i - 1] \o seqs[i]]
           flatten == CHOOSE f : Is(f)
<1>1. n \in Nat /\ <<>> \in D /\ \A k \in 1..n : seqs[k] \in D  OBVIOUS
<1>2. step \in [1..n -> [D -> D]]  BY <1>1
<1> HIDE DEF n, D, step
<1>3. PICK st : IsRun(st, n, D, <<>>, step)  BY <1>1, <1>2, RunExists
<1>4. st \in [0..n -> D] /\ st[0] = <<>>  BY <1>3 DEF IsRun
<1>5. \A k \in 1..n : k - 1 \in 0..n /\ st[k] = st[k - 1] \o seqs[k]
  <2> SUFFICES ASSUME NEW k \in 1..n PROVE k - 1 \in 0..n /\ st[k] = st[k - 1] \o seqs[k]
    OBVIOUS
  <2>1. k - 1 \in 0..n  BY <1>1
  <2>2. st[k] = step[k][st[k - 1]] /\ st[k - 1] \in D  BY <1>3, <2>1 DEF IsRun
  <2>3. QED  BY <2>1, <2>2 DEF step
<1>6. ASSUME n # 0 PROVE FlattenSeq(seqs) = st[n]
  <2> DEFINE g == [i \in 1..n |-> st[i]]
  <2>1. ASSUME NEW i \in 1..n
        PROVE  st[i] = IF i = 1 THEN seqs[i] ELSE g[i - 1] \o seqs[i]
    <3>1. CASE i = 1
      <4>1. 1 \in 1..n /\ 1 - 1 = 0  BY <3>1
      <4>2. st[1] = <<>> \o seqs[1]  BY <1>4, <1>5, <4>1
      <4>3. seqs[1] \in Seq(A)  BY <1>1, <4>1 DEF D
      <4>4. seqs[1] = <<>> \o seqs[1]  BY <4>3
      <4>5. QED  BY <3>1, <4>2, <4>4
    <3>2. CASE i # 1
      <4>1. i - 1 \in 1..n  BY <1>1, <3>2
      <4>2. QED  BY <1>5, <3>2, <4>1
    <3>3. QED  BY <3>1, <3>2
  <2>2. Is(g)  BY <2>1
  <2>3. Is(flatten)  BY <2>2
  <2>4. FlattenSeq(seqs) = flatten[n]  BY <1>6 DEF FlattenSeq, n
  <2> HIDE DEF flatten
  <2>5. flatten[1] = g[1]
    <3>1. 1 \in 1..n  BY <1>1, <1>6
    <3>2. flatten[1] = seqs[1]  BY <3>1, <2>3
    <3>3. st[1] = seqs[1]  BY <3>1, <2>1
    <3>4. QED  BY <3>1, <3>2, <3>3
  <2> DEFINE a == [k \in 0..n |-> IF k = 0 THEN <<>> ELSE flatten[k]]
  <2>6. ASSUME NEW k \in 1..n, a[k - 1] = st[k - 1] PROVE a[k] = st[k]
    <3>1. CASE k = 1  BY <2>5, <3>1
    <3>2. CASE k # 1
      <4>1. k - 1 \in 1..n /\ k - 1 # 0 /\ k - 1 \in 0..n /\ k \in 0..n /\ k # 0  BY <1>1, <3>2
      <4>2. flatten[k] = flatten[k - 1] \o seqs[k]  BY <2>3, <3>2
      <4>3. QED  BY <1>5, <2>6, <4>1, <4>2
    <3>3. QED  BY <3>1, <3>2
  <2>7. a[0] = st[0]  BY <1>1, <1>4
  <2> HIDE DEF a
  <2>8. a[n] = st[n]  BY <1>1, <2>6, <2>7, RunsAgree
  <2>9. a[n] = flatten[n]  BY <1>1, <1>6 DEF a
  <2>10. QED  BY <2>4, <2>8, <2>9
<1>7. ASSUME n = 0 PROVE FlattenSeq(seqs) = st[n]
  <2>1. seqs = <<>>  BY <1>7, EmptySeq DEF n
  <2>2. QED  BY <1>4, <1>7, <2>1 DEF FlattenSeq
<1>8. QED  BY <1>4, <1>5, <1>6, <1>7 DEF D, n

LEMMA FlattenAppend ==
  ASSUME NEW A, NEW seqs \in Seq(Seq(A)), NEW x \in Seq(A)
  PROVE  /\ FlattenSeq(seqs) \in Seq(A)
         /\ FlattenSeq(Append(seqs, x)) = FlattenSeq(seqs) \o x
<1> DEFINE n == Len(seqs)
           t == Append(seqs, x)
<1>1. n \in Nat /\ t \in Seq(Seq(A)) /\ Len(t) = n + 1 /\ t[n + 1] = x
      /\ \A k \in 1..n : t[k] = seqs[k]
  OBVIOUS
<1>2. PICK st \in [0..n -> Seq(A)] :
        /\ st[0] = <<>> /\ \A k \in 1..n : st[k] = st[k - 1] \o seqs[k]
        /\ FlattenSeq(seqs) = st[n]
  BY FlattenRun
<1> HIDE DEF t, n
<1>3. PICK su \in [0..Len(t) -> Seq(A)] :
        /\ su[0] = <<>> /\ \A k \in 1..Len(t) : su[k] = su[k - 1] \o t[k]
        /\ FlattenSeq(t) = su[Len(t)]
  BY <1>1, FlattenRun
<1>4. st[n] = su[n]
  <2>1. \A k \in 1..n : k \in 1..(n + 1)  BY <1>1
  <2>2. \A k \in 1..n : st[k - 1] = su[k - 1] => st[k] = su[k]  BY <1>1, <1>2, <1>3, <2>1
  <2>3. st[0] = su[0]  BY <1>2, <1>3
  <2>4. QED  BY <1>1, <2>2, <2>3, RunsAgree
<1>5. n + 1 \in 1..(n + 1) /\ (n + 1) - 1 = n /\ n \in 0..n  BY <1>1
<1>6. su[n + 1] = su[n] \o x  BY <1>1, <1>3, <1>5
<1>7. QED  BY <1>1, <1>2, <1>3, <1>4, <1>5, <1>6 DEF t

-----------------------------------------------------------------------------
(* The scanner of shlexSplit. *)
States     == Quote \cup {"space", "word", "backslash"}
Scanner(A) == [words : Seq(Seq(A)), token : Seq(A), quoted : BOOLEAN, state : States,
               escaped : States]
Scan(text) == FoldLeft(Step, Start, text)

LEMMA StepTyped ==
  ASSUME NEW A, "backslash" \in A, NEW r \in Scanner(A), NEW c \in A
  PROVE  Step(r, c) \in Scanner(A)
<1> USE DEF Scanner, States, Quote
<1>1. ASSUME NEW x \in Scanner(A), NEW d \in A PROVE Take(x, d) \in Scanner(A)
  <2>1. Append(x.token, d) \in Seq(A)  OBVIOUS
  <2>2. QED  BY <2>1 DEF Take
<1>2. ASSUME NEW x \in Scanner(A), NEW d \in States PROVE Escape(x, d) \in Scanner(A)
  BY DEF Escape
<1>3. ASSUME NEW x \in Scanner(A), NEW d \in States PROVE [x EXCEPT !.state = d] \in Scanner(A)
  OBVIOUS
<1>4. EndToken(r) \in Scanner(A)
  <2>1. Append(r.words, r.token) \in Seq(Seq(A)) /\ r.words \in Seq(Seq(A))  OBVIOUS
  <2>2. <<>> \in Seq(A)  OBVIOUS
  <2>3. QED  BY <2>1, <2>2 DEF EndToken, Start
<1>5. r.state \in States /\ r.escaped \in States  OBVIOUS
<1> HIDE DEF Scanner
<1>6. InSpace(r, c) \in Scanner(A)
  BY <1>1, <1>2, <1>3, <1>4 DEF InSpace
<1>7. InQuotes(r, c) \in Scanner(A)
  <2>1. [r EXCEPT !.quoted = TRUE] \in Scanner(A)  BY DEF Scanner
  <2>2. QED  BY <2>1, <1>1, <1>2, <1>3 DEF InQuotes
<1>8. AfterBackslash(r, c) \in Scanner(A)
  BY <1>1, <1>3, <1>5 DEF AfterBackslash
<1>9. InWord(r, c) \in Scanner(A)
  BY <1>1, <1>2, <1>3, <1>4 DEF InWord
<1>10. QED  BY <1>6, <1>7, <1>8, <1>9 DEF Step

(* The states it goes through, one per character. *)
LEMMA ScanRun ==
  ASSUME NEW A, "backslash" \in A, NEW text \in Seq(A)
  PROVE  \E st \in [0..Len(text) -> Scanner(A)] :
           /\ st[0] = Start
           /\ \A k \in 1..Len(text) : st[k] = Step(st[k - 1], text[k])
           /\ Scan(text) = st[Len(text)]
<1> DEFINE n == Len(text)
           D == Scanner(A)
           Is(f) == f = [s \in SUBSET (1..n) |->
                           IF s = {} THEN Start
                           ELSE Step(f[s \ {Max(s)}], text[Max(s)])]
           fold == CHOOSE f : Is(f)
<1>1. n \in Nat /\ DOMAIN text = 1..n /\ \A i \in 1..n : text[i] \in A  OBVIOUS
<1>2. Start \in D
  <2>1. <<>> \in Seq(A) /\ <<>> \in Seq(Seq(A))  OBVIOUS
  <2>2. QED  BY <2>1 DEF Scanner, States, Start
<1>3. Is(fold)
  <2> DEFINE step == [i \in 1..n |-> [r \in D |-> Step(r, text[i])]]
  <2>1. step \in [1..n -> [D -> D]]  BY <1>1, StepTyped
  <2> HIDE DEF D, step, n
  <2>2. PICK f : /\ f = [s \in SUBSET (1..n) |->
                           IF s = {} THEN Start ELSE step[Max(s)][f[s \ {Max(s)}]]]
                 /\ \A s \in SUBSET (1..n) : f[s] \in D
    <3>1. PICK f : IsFold(f, n, D, Start, step)  BY <1>1, <1>2, <2>1, FoldExists
    <3>2. QED  BY <3>1 DEF IsFold
  <2>3. ASSUME NEW s \in SUBSET (1..n), s # {}
        PROVE  step[Max(s)][f[s \ {Max(s)}]] = Step(f[s \ {Max(s)}], text[Max(s)])
    <3>1. Max(s) \in 1..n /\ s \ {Max(s)} \in SUBSET (1..n)  BY <1>1, <2>3, MaxOfUpto
    <3>2. f[s \ {Max(s)}] \in D  BY <2>2, <3>1
    <3>3. QED  BY <3>1, <3>2 DEF step
  <2>4. Is(f)  BY <2>2, <2>3
  <2>5. QED  BY <2>4
<1>4. Scan(text) = fold[1..n]
  BY <1>1 DEF Scan, FoldLeft, MapThenFoldSet
<1> DEFINE st == [k \in 0..n |-> fold[1..k]]
<1> HIDE DEF fold
<1>5. st[0] = Start
  <2>1. 1..0 = {} /\ 0 \in 0..n  BY <1>1
  <2>2. fold[{}] = Start  BY <1>3
  <2>3. QED  BY <2>1, <2>2
<1>6. ASSUME NEW k \in 1..n PROVE st[k] = Step(st[k - 1], text[k])
  <2>1. k - 1 \in Nat /\ (k - 1) + 1 = k  BY <1>1
  <2>2. 1..k # {} /\ Max(1..k) = k /\ 1..k \ {k} = 1..(k - 1)  BY <2>1, Upto
  <2>3. 1..k \in SUBSET (1..n)  BY <1>1
  <2>4. fold[1..k] = Step(fold[1..(k - 1)], text[k])  BY <1>3, <2>2, <2>3
  <2>5. k \in 0..n /\ k - 1 \in 0..n  BY <1>1
  <2>6. QED  BY <2>4, <2>5
<1>7. \A k \in 0..n : st[k] \in D
  <2> DEFINE T == {k \in Nat : k <= n => st[k] \in D}
  <2> HIDE DEF st, D
  <2>1. 0 \in T  BY <1>2, <1>5
  <2>2. ASSUME NEW k \in Nat, k \in T PROVE k + 1 \in T
    <3> SUFFICES ASSUME k + 1 <= n PROVE st[k + 1] \in D  OBVIOUS
    <3>1. k + 1 \in 1..n /\ (k + 1) - 1 = k /\ st[k] \in D  BY <1>1, <2>2
    <3>2. st[k + 1] = Step(st[k], text[k + 1])  BY <3>1, <1>6
    <3>3. QED  BY <1>1, <3>1, <3>2, StepTyped DEF D
  <2> HIDE DEF T
  <2>3. \A k \in Nat : k \in T  BY <2>1, <2>2, Induction
  <2>4. QED  BY <1>1, <2>3 DEF T
<1>8. st \in [0..n -> D]  BY <1>7
<1>9. Scan(text) = st[n]
  BY <1>1, <1>4
<1>10. QED  BY <1>5, <1>6, <1>8, <1>9

LEMMA ScanAppend ==
  ASSUME NEW A, "backslash" \in A, NEW text \in Seq(A), NEW c \in A
  PROVE  Scan(Append(text, c)) = Step(Scan(text), c)
<1> DEFINE n == Len(text)
           t == Append(text, c)
<1>1. n \in Nat /\ t \in Seq(A) /\ Len(t) = n + 1 /\ t[n + 1] = c
      /\ \A k \in 1..n : t[k] = text[k]
  OBVIOUS
<1>2. PICK st \in [0..n -> Scanner(A)] :
        /\ st[0] = Start /\ \A k \in 1..n : st[k] = Step(st[k - 1], text[k])
        /\ Scan(text) = st[n]
  BY ScanRun
<1>3. PICK su \in [0..(n + 1) -> Scanner(A)] :
        /\ su[0] = Start /\ \A k \in 1..(n + 1) : su[k] = Step(su[k - 1], t[k])
        /\ Scan(t) = su[n + 1]
  BY <1>1, ScanRun
<1> HIDE DEF t, n
<1>4. st[0] = su[0]  BY <1>2, <1>3
<1>5. \A k \in 1..n : st[k - 1] = su[k - 1] => st[k] = su[k]
  <2>1. \A k \in 1..n : k \in 1..(n + 1)  BY <1>1
  <2>2. QED  BY <1>1, <1>2, <1>3, <2>1
<1>6. st[n] = su[n]  BY <1>1, <1>4, <1>5, RunsAgree
<1>7. n + 1 \in 1..(n + 1) /\ (n + 1) - 1 = n  BY <1>1
<1>8. su[n + 1] = Step(su[n], c)  BY <1>1, <1>3, <1>7
<1>9. QED  BY <1>2, <1>3, <1>6, <1>8 DEF t

LEMMA ScanStarts ==
  ASSUME NEW A, "backslash" \in A
  PROVE  /\ Scan(<<>>) = Start
         /\ \A text \in Seq(A) : Scan(text) \in Scanner(A)
<1>1. Scan(<<>>) = Start
  <2>1. <<>> \in Seq(A) /\ Len(<<>>) = 0  OBVIOUS
  <2>2. QED  BY <2>1, ScanRun
<1>2. ASSUME NEW text \in Seq(A) PROVE Scan(text) \in Scanner(A)
  <2>1. Len(text) \in Nat  OBVIOUS
  <2>2. Len(text) \in 0..Len(text)  BY <2>1
  <2>3. QED  BY <2>2, ScanRun
<1>3. QED  BY <1>1, <1>2

-----------------------------------------------------------------------------
(* Quoting.  The scanner within a word: words before it, token so far.     *)
Text(Char) == Char \cup Quote \cup {"space", "backslash"}

Within(r, words, token, how) ==
  /\ r.words = words /\ r.token = token
  /\ IF how = "backslash" THEN IF token = <<>> THEN r.state \in {"space", "word"} ELSE r.state = "word"
                          ELSE r.state = how

LEMMA QuotedCharTyped ==
  ASSUME NEW Char, NEW c \in Char, NEW how
  PROVE  QuotedChar(c, how) \in Seq(Text(Char)) /\ CharRead(c, how) \in Seq(Text(Char))
<1> DEFINE A == Text(Char)
<1>1. "backslash" \in A /\ "single" \in A /\ c \in A  BY DEF Text, Quote
<1> HIDE DEF A
<1>2. <<c>> \in Seq(A) /\ <<"backslash", c>> \in Seq(A)  BY <1>1
<1>3. <<"single", "backslash", "single", "single">> \in Seq(A)  BY <1>1
<1>4. QED  BY <1>2, <1>3 DEF QuotedChar, CharRead, A

(* Of a quoted character the scanner takes what CharRead says. *)
LEMMA CharScanned ==
  ASSUME NEW Char, NEW c \in Char, NEW how \in Quoting, NEW text \in Seq(Text(Char)),
         NEW words, NEW token \in Seq(Text(Char)), Within(Scan(text), words, token, how)
  PROVE  Within(Scan(text \o QuotedChar(c, how)), words, token \o CharRead(c, how), how)
<1> DEFINE A == Text(Char)
           r == Scan(text)
<1>1. "backslash" \in A /\ "single" \in A /\ "double" \in A /\ c \in A  BY DEF Text, Quote
<1>2. r \in Scanner(A)  BY <1>1, ScanStarts
<1>3. Append(token, c) # <<>> /\ Append(token, c) = token \o <<c>>  BY DEF Text
<1> HIDE DEF A
<1>4. ASSUME NEW x \in A PROVE Scan(text \o <<x>>) = Step(r, x)
  <2>1. text \o <<x>> = Append(text, x)  BY DEF A
  <2>2. QED  BY <1>1, <2>1, ScanAppend DEF A
<1>5. ASSUME NEW x \in A, NEW y \in A PROVE Scan(text \o <<x, y>>) = Step(Step(r, x), y)
  <2>1. text \o <<x, y>> = Append(Append(text, x), y) /\ Append(text, x) \in Seq(A)  BY DEF A
  <2>2. Scan(Append(text, x)) = Step(r, x)  BY <1>1, ScanAppend DEF A
  <2>3. Scan(Append(Append(text, x), y)) = Step(Scan(Append(text, x)), y)
    BY <1>1, <2>1, ScanAppend
  <2>4. QED  BY <2>1, <2>2, <2>3
<1>6. ASSUME NEW x \in A, NEW y \in A, NEW z \in A, NEW w \in A
      PROVE  Scan(text \o <<x, y, z, w>>) = Step(Step(Step(Step(r, x), y), z), w)
  <2>1. /\ text \o <<x, y, z, w>> = Append(Append(Append(Append(text, x), y), z), w)
        /\ Append(text, x) \in Seq(A) /\ Append(Append(text, x), y) \in Seq(A)
        /\ Append(Append(Append(text, x), y), z) \in Seq(A)
    BY DEF A
  <2> DEFINE t2 == Append(Append(text, x), y)
  <2>2. Scan(t2) = Step(Step(r, x), y)
    <3>1. t2 = text \o <<x, y>>  BY DEF A
    <3>2. QED  BY <1>5, <3>1
  <2>3. Scan(Append(t2, z)) = Step(Scan(t2), z)  BY <1>1, <2>1, ScanAppend
  <2>4. Scan(Append(Append(t2, z), w)) = Step(Scan(Append(t2, z)), w)
    BY <1>1, <2>1, ScanAppend
  <2>5. QED  BY <2>1, <2>2, <2>3, <2>4
<1> HIDE DEF r
<1> USE DEF Take, Escape, Scanner, States, Quote, Within
(* A backslash before a character it escapes, and outside of quotes.       *)
<1>7. ASSUME NEW q \in Scanner(A), NEW x \in A, q.state = "backslash",
             q.escaped \notin Quote \/ x \in {"backslash", q.escaped}
      PROVE  /\ Step(q, x).words = q.words /\ Step(q, x).token = Append(q.token, x)
             /\ Step(q, x).state = q.escaped
  <2>1. Step(q, x) = AfterBackslash(q, x)  BY <1>7 DEF Step
  <2>2. AfterBackslash(q, x) = [Take(q, x) EXCEPT !.state = q.escaped]
    BY <1>7 DEF AfterBackslash
  <2>3. QED  BY <2>1, <2>2
<1>8. \A q \in Scanner(A), x \in A : Step(q, x) \in Scanner(A)  BY <1>1, StepTyped
<1>9. CASE how = "backslash"
  <2>1. QuotedChar(c, how) = <<"backslash", c>>  BY <1>9 DEF QuotedChar
  <2>2. Step(r, "backslash") = [r EXCEPT !.state = "backslash", !.escaped = "word"]
    BY <1>2, <1>9 DEF Step, InSpace, InWord, r
  <2> DEFINE q == Step(r, "backslash")
  <2>3. /\ q \in Scanner(A) /\ q.state = "backslash" /\ q.escaped = "word"
        /\ q.words = words /\ q.token = token
    BY <1>1, <1>2, <1>8, <2>2 DEF r
  <2> HIDE DEF q
  <2>4. Within(Step(q, c), words, token \o <<c>>, how)
    BY <1>1, <1>3, <1>9, <1>7, <2>3
  <2>5. CharRead(c, how) = <<c>>  BY <1>9 DEF CharRead
  <2>6. QED  BY <1>1, <1>5, <2>1, <2>4, <2>5 DEF q
<1>10. CASE how = "double"
  <2>1. CASE c \in {"double", "backslash"}
    <3>1. QuotedChar(c, how) = <<"backslash", c>>  BY <1>10, <2>1 DEF QuotedChar
    <3>2. Step(r, "backslash") = [r EXCEPT !.quoted = TRUE, !.state = "backslash", !.escaped = "double"]
      BY <1>2, <1>10 DEF Step, InQuotes, r
    <3> DEFINE q == Step(r, "backslash")
    <3>3. /\ q \in Scanner(A) /\ q.state = "backslash" /\ q.escaped = "double"
          /\ q.words = words /\ q.token = token
      BY <1>1, <1>2, <1>8, <3>2 DEF r
    <3> HIDE DEF q
    <3>4. Within(Step(q, c), words, token \o <<c>>, how)
      BY <1>1, <1>3, <1>10, <1>7, <2>1, <3>3
    <3>5. CharRead(c, how) = <<c>>  BY <2>1 DEF CharRead
    <3>6. QED  BY <1>1, <1>5, <3>1, <3>4, <3>5 DEF q
  <2>2. CASE c = "dollar"
    <3>1. /\ QuotedChar(c, how) = <<"backslash", c>>
          /\ CharRead(c, how) = <<"backslash", c>>
      BY <1>10, <2>2 DEF QuotedChar, CharRead
    <3>2. Step(r, "backslash") = [r EXCEPT !.quoted = TRUE, !.state = "backslash", !.escaped = "double"]
      BY <1>2, <1>10 DEF Step, InQuotes, r
    <3> DEFINE q == Step(r, "backslash")
    <3>3. /\ q \in Scanner(A) /\ q.state = "backslash" /\ q.escaped = "double"
          /\ q.words = words /\ q.token = token
      BY <1>1, <1>2, <1>8, <3>2 DEF r
    <3> HIDE DEF q
    <3>4. Step(q, c) = AfterBackslash(q, c)  BY <3>3 DEF Step
    <3>5. AfterBackslash(q, c) = [Take(Take(q, "backslash"), c) EXCEPT !.state = "double"]
      BY <2>2, <3>3 DEF AfterBackslash
    <3>6. /\ Step(q, c).words = words /\ Step(q, c).state = "double"
          /\ Step(q, c).token = Append(Append(token, "backslash"), c)
      BY <3>3, <3>4, <3>5
    <3>7. Append(Append(token, "backslash"), c) = token \o <<"backslash", c>>  BY <1>1 DEF A
    <3>8. Within(Step(q, c), words, token \o <<"backslash", c>>, how)  BY <1>10, <3>6, <3>7
    <3>9. QED  BY <1>1, <1>5, <3>1, <3>8 DEF q
  <2>3. CASE c \notin {"double", "backslash", "dollar"}
    <3>1. QuotedChar(c, how) = <<c>> /\ CharRead(c, how) = <<c>>
      BY <1>10, <2>3 DEF QuotedChar, CharRead
    <3>2. Step(r, c) = [r EXCEPT !.quoted = TRUE, !.token = Append(@, c)]
      BY <1>2, <1>10, <2>3 DEF Step, InQuotes, r
    <3>3. QED  BY <1>1, <1>2, <1>3, <1>4, <1>10, <3>1, <3>2 DEF r
  <2>4. QED  BY <2>1, <2>2, <2>3
<1>11. CASE how = "single"
  <2> USE <1>3
  <2>0. CharRead(c, how) = <<c>>  BY <1>11 DEF CharRead
  <2>1. CASE c = "single"
    <3>1. QuotedChar(c, how) = <<"single", "backslash", "single", "single">>
      BY <1>11, <2>1 DEF QuotedChar
    <3>2. Step(r, "single") = [r EXCEPT !.quoted = TRUE, !.state = "word"]
      BY <1>2, <1>11 DEF Step, InQuotes, r
    <3>3. Step(Step(r, "single"), "backslash") =
            [r EXCEPT !.quoted = TRUE, !.state = "backslash", !.escaped = "word"]
      BY <1>2, <3>2 DEF Step, InWord
    <3> DEFINE q == Step(Step(r, "single"), "backslash")
    <3>4. /\ q \in Scanner(A) /\ q.state = "backslash" /\ q.escaped = "word"
          /\ q.words = words /\ q.token = token
      BY <1>1, <1>2, <1>8, <3>3 DEF r
    <3> HIDE DEF q
    <3> DEFINE w == Step(q, "single")
    <3>5. /\ w \in Scanner(A) /\ w.state = "word"
          /\ w.words = words /\ w.token = Append(token, "single")
      <4>1. w \in Scanner(A)  BY ONLY <1>1, <1>8, <3>4
      <4>2. q.escaped \notin Quote  BY <3>4
      <4>3. w.words = q.words /\ w.token = Append(q.token, "single") /\ w.state = q.escaped
        BY ONLY <1>1, <1>7, <3>4, <4>2
      <4>4. QED  BY ONLY <3>4, <4>1, <4>3
    <3> HIDE DEF w
    <3>6. Step(w, "single") = [w EXCEPT !.state = "single"]  BY <3>5 DEF Step, InWord
    <3>7. Within(Step(w, "single"), words, token \o <<c>>, how)
      BY <1>11, <2>1, <3>5, <3>6
    <3>8. QED  BY <1>1, <1>6, <2>0, <3>1, <3>7 DEF q, w
  <2>2. CASE c # "single"
    <3>1. QuotedChar(c, how) = <<c>>  BY <1>11, <2>2 DEF QuotedChar
    <3>2. Step(r, c) = [r EXCEPT !.quoted = TRUE, !.token = Append(@, c)]
      BY <1>2, <1>11, <2>2 DEF Step, InQuotes, r
    <3>3. QED  BY <1>1, <1>2, <1>4, <1>11, <2>0, <3>1, <3>2 DEF r
  <2>3. QED  BY <2>1, <2>2
<1>12. QED  BY <1>9, <1>10, <1>11 DEF Quoting

(* The sequences a function makes of the elements, one after the other. *)
Flat(f, u) == FlattenSeq([i \in DOMAIN u |-> f[u[i]]])

LEMMA FlatAppend ==
  ASSUME NEW S, NEW A, NEW f \in [S -> Seq(A)], NEW u \in Seq(S), NEW c \in S
  PROVE  /\ Flat(f, <<>>) = <<>>
         /\ Flat(f, u) \in Seq(A)
         /\ Flat(f, Append(u, c)) = Flat(f, u) \o f[c]
<1> DEFINE Parts(v) == [i \in DOMAIN v |-> f[v[i]]]
<1>1. ASSUME NEW v \in Seq(S) PROVE Parts(v) \in Seq(Seq(A)) /\ Len(Parts(v)) = Len(v)
  <2> DEFINE D == Seq(A)
  <2>1. \A i \in 1..Len(v) : f[v[i]] \in D  OBVIOUS
  <2> HIDE DEF D
  <2>2. Len(v) \in Nat /\ DOMAIN v = 1..Len(v)  OBVIOUS
  <2>3. Parts(v) = [i \in 1..Len(v) |-> f[v[i]]]  BY <2>2
  <2> HIDE DEF Parts
  <2>4. Parts(v) \in Seq(D) /\ Len(Parts(v)) = Len(v)  BY <2>1, <2>2, <2>3
  <2>5. QED  BY <2>4 DEF D
<1>2. Parts(Append(u, c)) = Append(Parts(u), f[c])
  <2> DEFINE v == Append(u, c)
             n == Len(u)
  <2>1. v \in Seq(S) /\ Len(v) = n + 1 /\ n \in Nat
        /\ v[n + 1] = c /\ \A i \in 1..n : v[i] = u[i]
    OBVIOUS
  <2>2. Parts(v) \in Seq(Seq(A)) /\ Len(Parts(v)) = n + 1
        /\ Parts(u) \in Seq(Seq(A)) /\ Len(Parts(u)) = n
    BY <1>1, <2>1
  <2>3. DOMAIN v = 1..(n + 1) /\ DOMAIN u = 1..n  BY <2>1
  <2>4. \A i \in 1..n : Parts(v)[i] = Parts(u)[i]
    <3>1. \A i \in 1..n : i \in DOMAIN v /\ i \in DOMAIN u  BY <2>1, <2>3
    <3> HIDE DEF v
    <3>2. QED  BY <2>1, <3>1
  <2>5. Parts(v)[n + 1] = f[c]  BY <2>1, <2>3
  <2>6. f[c] \in Seq(A)  OBVIOUS
  <2> HIDE DEF Parts, v, n
  <2>7. Parts(v) = Append(Parts(u), f[c])
    BY <2>1, <2>2, <2>4, <2>5, <2>6
  <2>8. QED  BY <2>7 DEF v
<1>3. Parts(<<>>) = <<>>
  <2>1. <<>> \in Seq(S) /\ Len(<<>>) = 0  OBVIOUS
  <2>2. Parts(<<>>) \in Seq(Seq(A)) /\ Len(Parts(<<>>)) = 0  BY <1>1, <2>1
  <2> HIDE DEF Parts
  <2>3. QED  BY <2>2, EmptySeq
<1>4. f[c] \in Seq(A)  OBVIOUS
<1>5. FlattenSeq(<<>>) = <<>>  BY DEF FlattenSeq
<1>6. Parts(u) \in Seq(Seq(A))  BY <1>1
<1> HIDE DEF Parts
<1>7. FlattenSeq(Parts(u)) \in Seq(A)
      /\ FlattenSeq(Append(Parts(u), f[c])) = FlattenSeq(Parts(u)) \o f[c]
  BY <1>4, <1>6, FlattenAppend
<1>8. QED  BY <1>2, <1>3, <1>5, <1>7 DEF Flat, Parts

(* The same for sequences of sequences, where the provers need the type as *)
(* one predicate to find the instance.                                     *)
FlatTyped(S, A, f, u, c) == f \in [S -> Seq(A)] /\ u \in Seq(S) /\ c \in S

LEMMA FlatAppendTyped ==
  ASSUME NEW S, NEW A, NEW f, NEW u, NEW c, FlatTyped(S, A, f, u, c)
  PROVE  /\ Flat(f, <<>>) = <<>>
         /\ Flat(f, u) \in Seq(A)
         /\ Flat(f, Append(u, c)) = Flat(f, u) \o f[c]
BY FlatAppend DEF FlatTyped

(* The characters of a word as they are quoted, and as they are read. *)
Body(word, how) == FlattenSeq([i \in DOMAIN word |-> QuotedChar(word[i], how)])

LEMMA BodyAppend ==
  ASSUME NEW Char, NEW how, NEW word \in Seq(Char), NEW c \in Char
  PROVE  /\ Body(<<>>, how) = <<>>
         /\ Body(word, how) \in Seq(Text(Char))
         /\ Body(Append(word, c), how) = Body(word, how) \o QuotedChar(c, how)
<1> DEFINE f == [x \in Char |-> QuotedChar(x, how)]
<1>1. f \in [Char -> Seq(Text(Char))]  BY QuotedCharTyped
<1>2. ASSUME NEW u \in Seq(Char) PROVE Body(u, how) = Flat(f, u)
  <2>1. \A i \in DOMAIN u : f[u[i]] = QuotedChar(u[i], how)  OBVIOUS
  <2> HIDE DEF f
  <2>2. [i \in DOMAIN u |-> f[u[i]]] = [i \in DOMAIN u |-> QuotedChar(u[i], how)]  BY <2>1
  <2>3. QED  BY <2>2 DEF Body, Flat
<1>3. <<>> \in Seq(Char) /\ Append(word, c) \in Seq(Char) /\ f[c] = QuotedChar(c, how)  OBVIOUS
<1> HIDE DEF f
<1>4. /\ Flat(f, <<>>) = <<>>
      /\ Flat(f, word) \in Seq(Text(Char))
      /\ Flat(f, Append(word, c)) = Flat(f, word) \o f[c]
  BY ONLY word \in Seq(Char), c \in Char, <1>1, FlatAppend
<1>5. QED  BY <1>2, <1>3, <1>4

LEMMA ReadAppend ==
  ASSUME NEW Char, NEW how, NEW word \in Seq(Char), NEW c \in Char
  PROVE  /\ WordRead(<<>>, how) = <<>>
         /\ WordRead(word, how) \in Seq(Text(Char))
         /\ WordRead(Append(word, c), how) = WordRead(word, how) \o CharRead(c, how)
<1> DEFINE f == [x \in Char |-> CharRead(x, how)]
<1>1. f \in [Char -> Seq(Text(Char))]  BY QuotedCharTyped
<1>2. ASSUME NEW u \in Seq(Char) PROVE WordRead(u, how) = Flat(f, u)
  <2>1. \A i \in DOMAIN u : f[u[i]] = CharRead(u[i], how)  OBVIOUS
  <2> HIDE DEF f
  <2>2. [i \in DOMAIN u |-> f[u[i]]] = [i \in DOMAIN u |-> CharRead(u[i], how)]  BY <2>1
  <2>3. QED  BY <2>2 DEF WordRead, Flat
<1>3. <<>> \in Seq(Char) /\ Append(word, c) \in Seq(Char) /\ f[c] = CharRead(c, how)  OBVIOUS
<1> HIDE DEF f
<1>4. /\ Flat(f, <<>>) = <<>>
      /\ Flat(f, word) \in Seq(Text(Char))
      /\ Flat(f, Append(word, c)) = Flat(f, word) \o f[c]
  BY ONLY word \in Seq(Char), c \in Char, <1>1, FlatAppend
<1>5. QED  BY <1>2, <1>3, <1>4

(* The words as they are read: the empty ones are lost. *)
LEMMA WordsReadAppend ==
  ASSUME NEW Char, NEW how, NEW words \in Seq(Seq(Char)), NEW w \in Seq(Char)
  PROVE  /\ WordsRead(<<>>, how) = <<>>
         /\ WordsRead(words, how) \in Seq(Seq(Text(Char)))
         /\ WordsRead(Append(words, w), how) =
              WordsRead(words, how) \o (IF w = <<>> THEN <<>> ELSE <<WordRead(w, how)>>)
<1> DEFINE W == Seq(Char)
           D == Seq(Text(Char))
           read == [x \in W |-> IF x = <<>> THEN <<>> ELSE <<WordRead(x, how)>>]
<1>1. ASSUME NEW x \in W PROVE WordRead(x, how) \in D
  <2>1. CASE x = <<>>
    <3>1. WordRead(x, how) = <<>>  BY <2>1 DEF WordRead, FlattenSeq
    <3>2. QED  BY <3>1
  <2>2. CASE x # <<>>
    <3>1. x[1] \in Char  BY <2>2
    <3>2. QED  BY <3>1, ReadAppend
  <2>3. QED  BY <2>1, <2>2
<1>2. read \in [W -> Seq(D)]
  <2> HIDE DEF D, W
  <2>1. QED  BY <1>1
<1>3. ASSUME NEW u \in Seq(W) PROVE WordsRead(u, how) = Flat(read, u)
  <2>1. \A i \in DOMAIN u : u[i] \in W  OBVIOUS
  <2>2. \A i \in DOMAIN u :
          read[u[i]] = IF u[i] = <<>> THEN <<>> ELSE <<WordRead(u[i], how)>>
    BY <2>1
  <2> HIDE DEF read, W
  <2>3. [i \in DOMAIN u |-> read[u[i]]] =
          [i \in DOMAIN u |-> IF u[i] = <<>> THEN <<>> ELSE <<WordRead(u[i], how)>>]
    BY <2>2
  <2>4. QED  BY <2>3 DEF WordsRead, Flat
<1>4. words \in Seq(W) /\ w \in W  OBVIOUS
<1>5. /\ <<>> \in Seq(W) /\ Append(words, w) \in Seq(W)
      /\ read[w] = IF w = <<>> THEN <<>> ELSE <<WordRead(w, how)>>
  OBVIOUS
<1> HIDE DEF read
<1>6. /\ Flat(read, <<>>) = <<>>
      /\ Flat(read, words) \in Seq(D)
      /\ Flat(read, Append(words, w)) = Flat(read, words) \o read[w]
  <2>1. FlatTyped(W, D, read, words, w)  BY <1>2, <1>4 DEF FlatTyped
  <2>2. QED  BY <2>1, FlatAppendTyped
<1>7. QED  BY <1>3, <1>4, <1>5, <1>6 DEF D

LEMMA BodyScanned ==
  ASSUME NEW Char, NEW how \in Quoting, NEW text \in Seq(Text(Char)), NEW words,
         Within(Scan(text), words, <<>>, how), NEW word \in Seq(Char)
  PROVE  /\ Body(word, how) \in Seq(Text(Char))
         /\ WordRead(word, how) \in Seq(Text(Char))
         /\ Within(Scan(text \o Body(word, how)), words, WordRead(word, how), how)
<1> DEFINE A == Text(Char)
           Good(u) == /\ Body(u, how) \in Seq(A)
                      /\ WordRead(u, how) \in Seq(A)
                      /\ Within(Scan(text \o Body(u, how)), words, WordRead(u, how), how)
           T == {u \in Seq(Char) : Good(u)}
<1>1. <<>> \in T
  <2>1. <<>> \in Seq(Char) /\ <<>> \in Seq(A) /\ text \o <<>> = text  OBVIOUS
  <2>2. Body(<<>>, how) = <<>> /\ WordRead(<<>>, how) = <<>>  BY DEF Body, WordRead, FlattenSeq
  <2>3. QED  BY <2>1, <2>2
<1>2. ASSUME NEW u \in Seq(Char), NEW c \in Char, u \in T PROVE Append(u, c) \in T
  <2> DEFINE b == Body(u, how)
             q == QuotedChar(c, how)
             k == WordRead(u, how)
  <2>1. b \in Seq(A) /\ k \in Seq(A) /\ Within(Scan(text \o b), words, k, how)  BY <1>2
  <2>2. q \in Seq(A)  BY QuotedCharTyped
  <2>3. Body(Append(u, c), how) = b \o q  BY BodyAppend
  <2>4. Append(u, c) \in Seq(Char)  OBVIOUS
  <2>5. WordRead(Append(u, c), how) = k \o CharRead(c, how)  BY ReadAppend
  <2>6. WordRead(Append(u, c), how) \in Seq(A)  BY <2>4, ReadAppend
  <2> HIDE DEF A, b, q, k
  <2>7. text \o b \in Seq(A) /\ b \o q \in Seq(A)
        /\ text \o (b \o q) = (text \o b) \o q
    BY <2>1, <2>2 DEF A
  <2>8. Within(Scan((text \o b) \o q), words, k \o CharRead(c, how), how)
    BY <2>1, <2>7, CharScanned DEF A, q
  <2>9. QED  BY <2>3, <2>4, <2>5, <2>6, <2>7, <2>8
<1> HIDE DEF T
<1>3. \A u \in Seq(Char) : u \in T  BY <1>1, <1>2, SeqInduction
<1>4. QED  BY <1>3 DEF T

(* Between two words. *)
Between(words) == [Start EXCEPT !.words = words]

(* A quoted word, from where one may start to where one may end: the next  *)
(* space ends it, also if it is empty.                                     *)
WordEnds(r, words, token) ==
  /\ r.words = words /\ r.token = token /\ r.state = "word"
  /\ token = <<>> => r.quoted

LEMMA WordInQuotes ==
  ASSUME NEW Char, NEW how \in Quote, NEW text \in Seq(Text(Char)), NEW words,
         Scan(text) = Between(words), NEW word \in Seq(Char)
  PROVE  /\ QuotedWord(word, how) \in Seq(Text(Char))
         /\ WordEnds(Scan(text \o QuotedWord(word, how)), words, WordRead(word, how))
<1> DEFINE A == Text(Char)
           b == Body(word, how)
           k == WordRead(word, how)
<1>0. "backslash" \in A /\ "single" \in A /\ "double" \in A /\ how \in Quoting
  BY DEF Text, Quote, Quoting
<1>1. how # "backslash" /\ how \in A /\ how # "space"  BY <1>0 DEF Quote
<1>2. QuotedWord(word, how) = <<how>> \o b \o <<how>>  BY <1>1 DEF QuotedWord, Body
<1> DEFINE open == Append(text, how)
<1>3. open \in Seq(A)  BY <1>1
<1> HIDE DEF A
<1>4. Scan(open) = Step(Scan(text), how)  BY <1>0, <1>1, ScanAppend DEF A
<1>5. Scan(open) = [Start EXCEPT !.words = words, !.state = how]
  <2> DEFINE r == Scan(text)
  <2>1. r = [Start EXCEPT !.words = words] /\ r.state = "space"  BY DEF Between, Start
  <2> HIDE DEF r
  <2>2. Step(r, how) = InSpace(r, how)  BY <2>1 DEF Step, Quote
  <2>3. InSpace(r, how) = [r EXCEPT !.state = how]  BY <1>1 DEF InSpace
  <2>4. [r EXCEPT !.state = how] = [Start EXCEPT !.words = words, !.state = how]
    BY <2>1 DEF Start
  <2>5. QED  BY <1>4, <2>2, <2>3, <2>4 DEF r
<1>6. Within(Scan(open), words, <<>>, how)  BY <1>1, <1>5 DEF Within, Start
<1> HIDE DEF open, b, k
<1>7. b \in Seq(A) /\ Within(Scan(open \o b), words, k, how)
  BY <1>0, <1>3, <1>6, BodyScanned DEF A, b, k
<1>8. open \o b \in Seq(A)  BY <1>3, <1>7
<1>9. Scan(Append(open \o b, how)) = Step(Scan(open \o b), how)
  BY <1>0, <1>1, <1>8, ScanAppend
<1>10. Scan(open \o b) \in Scanner(A)  BY <1>0, <1>8, ScanStarts
<1>11. Step(Scan(open \o b), how) = [Scan(open \o b) EXCEPT !.quoted = TRUE, !.state = "word"]
  BY <1>1, <1>7, <1>10 DEF Step, InQuotes, Within, Scanner
<1>12. text \o (<<how>> \o b \o <<how>>) = Append(open \o b, how)
  <2> DEFINE h == <<how>>
  <2>1. h \in Seq(A) /\ text \in Seq(A)  BY <1>1 DEF A
  <2>2. open = text \o h /\ Append(open \o b, how) = (open \o b) \o h
    BY <1>1, <1>3, <1>7, <1>8, <2>1, AppendIsConcat DEF open, A
  <2> HIDE DEF h
  <2>3. h \o b \in Seq(A)  BY <1>7, <2>1
  <2>4. text \o ((h \o b) \o h) = (text \o (h \o b)) \o h  BY <2>1, <2>3, ConcatAssociative
  <2>5. b \in Seq(A)  BY <1>7
  <2>6. text \o (h \o b) = (text \o h) \o b  BY ONLY <2>1, <2>5, ConcatAssociative
  <2>7. QED  BY <2>2, <2>4, <2>6 DEF h
<1>13. <<how>> \o b \o <<how>> \in Seq(A)  BY <1>1, <1>7
<1> DEFINE r == Scan(open \o b)
<1>14. r.words = words /\ r.token = k  BY <1>7 DEF Within
<1>15. Scan(text \o QuotedWord(word, how)) = [r EXCEPT !.quoted = TRUE, !.state = "word"]
  BY <1>2, <1>9, <1>11, <1>12
<1>16. r \in Scanner(A)  BY <1>10
<1> HIDE DEF r
<1>17. /\ [r EXCEPT !.quoted = TRUE, !.state = "word"].words = words
       /\ [r EXCEPT !.quoted = TRUE, !.state = "word"].token = k
       /\ [r EXCEPT !.quoted = TRUE, !.state = "word"].state = "word"
       /\ [r EXCEPT !.quoted = TRUE, !.state = "word"].quoted = TRUE
  BY <1>14, <1>16 DEF Scanner
<1>18. WordEnds(Scan(text \o QuotedWord(word, how)), words, k)  BY <1>15, <1>17 DEF WordEnds
<1>19. QED  BY <1>2, <1>13, <1>18 DEF A, k

LEMMA WordScanned ==
  ASSUME NEW Char, NEW how \in Quoting, NEW text \in Seq(Text(Char)), NEW words,
         Scan(text) = Between(words), NEW word \in Seq(Char)
  PROVE  /\ QuotedWord(word, how) \in Seq(Text(Char))
         /\ WordEnds(Scan(text \o QuotedWord(word, how)), words, WordRead(word, how))
<1> DEFINE A == Text(Char)
           b == Body(word, how)
           k == WordRead(word, how)
<1>1. CASE how \in Quote  BY <1>1, WordInQuotes
<1>2. CASE how = "backslash" /\ word = <<>>
  <2>1. QuotedWord(<<>>, how) = QuotedWord(<<>>, "single")
    <3>1. Body(<<>>, how) = <<>> /\ Body(<<>>, "single") = <<>>  BY DEF Body, FlattenSeq
    <3>2. QED  BY <1>2, <3>1 DEF QuotedWord, Body
  <2>2. WordRead(<<>>, how) = WordRead(<<>>, "single")  BY DEF WordRead, FlattenSeq
  <2>3. "single" \in Quote /\ <<>> \in Seq(Char)  BY DEF Quote
  <2>4. /\ QuotedWord(<<>>, "single") \in Seq(Text(Char))
        /\ WordEnds(Scan(text \o QuotedWord(<<>>, "single")), words, WordRead(<<>>, "single"))
    BY <2>3, WordInQuotes
  <2>5. QED  BY <1>2, <2>1, <2>2, <2>4
<1>3. CASE how = "backslash" /\ word # <<>>
  <2>1. QuotedWord(word, how) = b  BY <1>3 DEF QuotedWord, Body
  <2>2. Within(Scan(text), words, <<>>, how)  BY <1>3 DEF Within, Between, Start
  <2>3. k # <<>>
    <3> DEFINE u == SubSeq(word, 1, Len(word) - 1)
               c == word[Len(word)]
    <3>1. u \in Seq(Char) /\ c \in Char /\ word = Append(u, c)  BY <1>3
    <3> HIDE DEF u, c
    <3>2. /\ WordRead(u, how) \in Seq(A)
          /\ WordRead(Append(u, c), how) = WordRead(u, how) \o CharRead(c, how)
      BY <3>1, ReadAppend
    <3>3. CharRead(c, how) = <<c>>  BY <1>3 DEF CharRead
    <3>4. WordRead(u, how) \o <<c>> # <<>>  BY <3>2
    <3>5. QED  BY <3>1, <3>2, <3>3, <3>4
  <2> HIDE DEF b, k
  <2>4. b \in Seq(A) /\ Within(Scan(text \o b), words, k, how)
    BY <2>2, BodyScanned DEF b, k
  <2>5. WordEnds(Scan(text \o b), words, k)  BY <1>3, <2>3, <2>4 DEF Within, WordEnds
  <2>6. QED  BY <2>1, <2>4, <2>5 DEF k
<1>4. QED  BY <1>1, <1>2, <1>3 DEF Quoting, Quote

(* The words, one after the other. *)
Joined(text, w, how) ==
  IF text = <<>> THEN QuotedWord(w, how) ELSE Append(text, "space") \o QuotedWord(w, how)

LEMMA JoinedTyped ==
  ASSUME NEW Char, NEW how \in Quoting, NEW w \in Seq(Char), NEW text \in Seq(Text(Char))
  PROVE  Joined(text, w, how) \in Seq(Text(Char))
<1> DEFINE A == Text(Char)
<1>1. Body(w, how) \in Seq(A)
  <2>1. CASE w = <<>>
    <3>1. Body(w, how) = <<>>  BY <2>1 DEF Body, FlattenSeq
    <3>2. QED  BY <3>1
  <2>2. CASE w # <<>>
    <3> DEFINE u == SubSeq(w, 1, Len(w) - 1)
    <3>1. u \in Seq(Char) /\ w[Len(w)] \in Char /\ w = Append(u, w[Len(w)])
      BY <2>2
    <3> HIDE DEF u, A
    <3>2. Body(w, how) = Body(u, how) \o QuotedChar(w[Len(w)], how)
          /\ Body(u, how) \in Seq(A)
      BY <3>1, BodyAppend DEF A
    <3>3. QuotedChar(w[Len(w)], how) \in Seq(A)  BY <3>1, QuotedCharTyped DEF A
    <3>4. QED  BY <3>2, <3>3
  <2>3. QED  BY <2>1, <2>2
<1>2. "single" \in A /\ (how \in A \/ how = "backslash")  BY DEF Text, Quoting, Quote
<1>3. "space" \in A  BY DEF Text
<1> HIDE DEF A
<1>4. QuotedWord(w, how) \in Seq(A)
  <2> DEFINE quote == IF how = "backslash" THEN "single" ELSE how
  <2>1. QuotedWord(w, how) = IF how = "backslash" /\ w # <<>>
                               THEN Body(w, how)
                               ELSE <<quote>> \o Body(w, how) \o <<quote>>
    BY DEF QuotedWord, Body
  <2>2. quote \in A  BY <1>2
  <2>3. QED  BY <1>1, <2>1, <2>2
<1>5. text \in Seq(A)  BY DEF A
<1>6. QED  BY <1>3, <1>4, <1>5 DEF Joined, A

LEMMA QuotedRun ==
  ASSUME NEW Char, NEW how \in Quoting, NEW words \in Seq(Seq(Char))
  PROVE  \E st \in [0..Len(words) -> Seq(Text(Char))] :
           /\ st[0] = <<>>
           /\ \A k \in 1..Len(words) : st[k] = Joined(st[k - 1], words[k], how)
           /\ Quoted(words, how) = st[Len(words)]
<1> DEFINE n == Len(words)
           D == Seq(Text(Char))
           Is(f) == f = [s \in SUBSET (1..n) |->
                           IF s = {} THEN <<>>
                           ELSE Joined(f[s \ {Max(s)}], words[Max(s)], how)]
           fold == CHOOSE f : Is(f)
<1>1. n \in Nat /\ DOMAIN words = 1..n /\ \A i \in 1..n : words[i] \in Seq(Char)  OBVIOUS
<1>2. <<>> \in D  OBVIOUS
<1>3. Is(fold)
  <2> DEFINE step == [i \in 1..n |-> [t \in D |-> Joined(t, words[i], how)]]
  <2>1. step \in [1..n -> [D -> D]]  BY <1>1, JoinedTyped
  <2> HIDE DEF D, step, n
  <2>2. PICK f : IsFold(f, n, D, <<>>, step)  BY <1>1, <1>2, <2>1, FoldExists
  <2>3. ASSUME NEW s \in SUBSET (1..n), s # {}
        PROVE  step[Max(s)][f[s \ {Max(s)}]] = Joined(f[s \ {Max(s)}], words[Max(s)], how)
    <3>1. Max(s) \in 1..n /\ s \ {Max(s)} \in SUBSET (1..n)  BY <1>1, <2>3, MaxOfUpto
    <3>2. f[s \ {Max(s)}] \in D  BY <2>2, <3>1 DEF IsFold
    <3>3. QED  BY <3>1, <3>2 DEF step
  <2>4. Is(f)  BY <2>2, <2>3 DEF IsFold
  <2>5. QED  BY <2>4
<1>4. Quoted(words, how) = fold[1..n]
  BY <1>1 DEF Quoted, FoldLeft, MapThenFoldSet, Joined
<1> DEFINE st == [k \in 0..n |-> fold[1..k]]
<1> HIDE DEF fold
<1>5. st[0] = <<>>
  <2>1. 1..0 = {} /\ 0 \in 0..n  BY <1>1
  <2>2. fold[{}] = <<>>  BY <1>3
  <2>3. QED  BY <2>1, <2>2
<1>6. ASSUME NEW k \in 1..n PROVE st[k] = Joined(st[k - 1], words[k], how)
  <2>1. k - 1 \in Nat /\ (k - 1) + 1 = k  BY <1>1
  <2>2. 1..k # {} /\ Max(1..k) = k /\ 1..k \ {k} = 1..(k - 1)  BY <2>1, Upto
  <2>3. 1..k \in SUBSET (1..n)  BY <1>1
  <2>4. fold[1..k] = Joined(fold[1..(k - 1)], words[k], how)  BY <1>3, <2>2, <2>3
  <2>5. k \in 0..n /\ k - 1 \in 0..n  BY <1>1
  <2>6. QED  BY <2>4, <2>5
<1>7. \A k \in 0..n : st[k] \in D
  <2> DEFINE T == {k \in Nat : k <= n => st[k] \in D}
  <2> HIDE DEF st, D
  <2>1. 0 \in T  BY <1>2, <1>5
  <2>2. ASSUME NEW k \in Nat, k \in T PROVE k + 1 \in T
    <3> SUFFICES ASSUME k + 1 <= n PROVE st[k + 1] \in D  OBVIOUS
    <3>1. k + 1 \in 1..n /\ (k + 1) - 1 = k /\ st[k] \in D  BY <1>1, <2>2
    <3>2. st[k + 1] = Joined(st[k], words[k + 1], how)  BY <3>1, <1>6
    <3>3. QED  BY <1>1, <3>1, <3>2, JoinedTyped DEF D
  <2> HIDE DEF T
  <2>3. \A k \in Nat : k \in T  BY <2>1, <2>2, Induction
  <2>4. QED  BY <1>1, <2>3 DEF T
<1>8. st \in [0..n -> D]  BY <1>7
<1>9. Quoted(words, how) = st[n]
  BY <1>1, <1>4
<1>10. QED  BY <1>5, <1>6, <1>8, <1>9

LEMMA QuotedNone ==
  ASSUME NEW how \in Quoting
  PROVE  Quoted(<<>>, how) = <<>>
<1> DEFINE none == <<>>
           Char == {}
<1>1. none \in Seq(Seq(Char))  OBVIOUS
<1>2. Len(none) = 0  OBVIOUS
<1> HIDE DEF none, Char
<1>3. PICK st \in [0..Len(none) -> Seq(Text(Char))] :
        /\ st[0] = <<>> /\ \A k \in 1..Len(none) : st[k] = Joined(st[k - 1], none[k], how)
        /\ Quoted(none, how) = st[Len(none)]
  BY <1>1, QuotedRun
<1>4. QED  BY <1>3, <1>2 DEF none

LEMMA QuotedAppend ==
  ASSUME NEW Char, NEW how \in Quoting, NEW words \in Seq(Seq(Char)), NEW w \in Seq(Char)
  PROVE  Quoted(Append(words, w), how) = Joined(Quoted(words, how), w, how)
<1> DEFINE n == Len(words)
           t == Append(words, w)
<1>1. n \in Nat /\ t \in Seq(Seq(Char)) /\ Len(t) = n + 1 /\ t[n + 1] = w
      /\ \A k \in 1..n : t[k] = words[k]
  OBVIOUS
<1>2. PICK st \in [0..n -> Seq(Text(Char))] :
        /\ st[0] = <<>> /\ \A k \in 1..n : st[k] = Joined(st[k - 1], words[k], how)
        /\ Quoted(words, how) = st[n]
  BY QuotedRun
<1> HIDE DEF t, n
<1>3. PICK su \in [0..Len(t) -> Seq(Text(Char))] :
        /\ su[0] = <<>> /\ \A k \in 1..Len(t) : su[k] = Joined(su[k - 1], t[k], how)
        /\ Quoted(t, how) = su[Len(t)]
  BY <1>1, QuotedRun
<1>4. st[0] = su[0]  BY <1>2, <1>3
<1>5. \A k \in 1..n : st[k - 1] = su[k - 1] => st[k] = su[k]
  <2>1. \A k \in 1..n : k \in 1..(n + 1)  BY <1>1
  <2>2. QED  BY <1>1, <1>2, <1>3, <2>1
<1>6. st[n] = su[n]  BY <1>1, <1>4, <1>5, RunsAgree
<1>7. n + 1 \in 1..(n + 1) /\ (n + 1) - 1 = n  BY <1>1
<1>8. su[n + 1] = Joined(su[n], w, how)  BY <1>1, <1>3, <1>7
<1>9. QED  BY <1>1, <1>2, <1>3, <1>6, <1>8 DEF t

(* Of quoted words the scanner reads what WordsRead says, for any characters. *)
LEMMA SplitQuoted ==
  ASSUME NEW Char, NEW how \in Quoting, NEW words \in Seq(Seq(Char))
  PROVE  Split(Quoted(words, how)) = WordsRead(words, how)
<1> DEFINE A == Text(Char)
           W == Seq(Char)
           q(ws) == Quoted(ws, how)
           k(ws) == WordsRead(ws, how)
           Good(ws) == /\ q(ws) \in Seq(A)
                       /\ EndToken(Scan(q(ws))).words = k(ws)
                       /\ q(ws) = <<>> => k(ws) = <<>>
                       /\ q(ws) # <<>> =>
                            LET r == Scan(q(ws))
                            IN r.state = "word" /\ (r.token = <<>> => r.quoted)
           T == {ws \in Seq(W) : Good(ws)}
<1>1. "backslash" \in A /\ "space" \in A  BY DEF Text
<1>2. Scan(<<>>) = Start /\ \A text \in Seq(A) : Scan(text) \in Scanner(A)
  BY <1>1, ScanStarts
<1>3. <<>> \in T
  <2>1. <<>> \in Seq(W) /\ <<>> \in Seq(Seq(Char)) /\ <<>> \in Seq(A) /\ Len(<<>>) = 0  OBVIOUS
  <2>2. q(<<>>) = <<>>  BY QuotedNone
  <2>3. k(<<>>) = <<>>  BY DEF WordsRead, FlattenSeq
  <2> HIDE DEF A, W, k
  <2>4. EndToken(Start).words = <<>>  BY DEF EndToken, Start
  <2>5. QED  BY <1>2, <2>1, <2>2, <2>3, <2>4
<1>4. ASSUME NEW ws \in Seq(W), NEW w \in W, ws \in T PROVE Append(ws, w) \in T
  <2> DEFINE text == q(ws)
             open == IF text = <<>> THEN text ELSE Append(text, "space")
             full == open \o QuotedWord(w, how)
             read == WordRead(w, how)
  <2>1. Good(ws) /\ w \in Seq(Char) /\ ws \in Seq(Seq(Char))  BY <1>4
  <2>2. q(Append(ws, w)) = Joined(text, w, how)  BY <2>1, QuotedAppend
  <2>3. Append(ws, w) \in Seq(W)  OBVIOUS
  <2>4. k(ws) \in Seq(Seq(A)) /\ k(Append(ws, w)) = k(ws) \o (IF w = <<>> THEN <<>> ELSE <<read>>)
    BY <2>1, WordsReadAppend
  <2>5. read \in Seq(A) /\ (read = <<>> <=> w = <<>>)
    <3>1. CASE w = <<>>
      <4>1. read = <<>>  BY <3>1 DEF WordRead, FlattenSeq
      <4>2. <<>> \in Seq(A)  OBVIOUS
      <4> HIDE DEF read, A
      <4>3. QED  BY <3>1, <4>1, <4>2
    <3>2. CASE w # <<>>
      <4> DEFINE u == SubSeq(w, 1, Len(w) - 1)
                 c == w[Len(w)]
      <4>1. u \in Seq(Char) /\ c \in Char /\ w = Append(u, c)  BY <3>2
      <4> HIDE DEF u, c
      <4>2. /\ WordRead(u, how) \in Seq(A) /\ WordRead(w, how) \in Seq(A)
            /\ WordRead(Append(u, c), how) = WordRead(u, how) \o CharRead(c, how)
        BY <2>1, <3>2, <4>1, ReadAppend
      <4>3. CharRead(c, how) \in Seq(A) /\ CharRead(c, how) # <<>>
        <5>1. CharRead(c, how) \in Seq(A)  BY <4>1, QuotedCharTyped
        <5>2. CharRead(c, how) # <<>>  BY DEF CharRead
        <5>3. QED  BY <5>1, <5>2
      <4>4. \A x, y \in Seq(A) : y # <<>> => x \o y # <<>>
        <5> HIDE DEF A
        <5>1. QED  OBVIOUS
      <4>5. QED  BY <3>2, <4>1, <4>2, <4>3, <4>4
    <3>3. QED  BY <3>1, <3>2
  <2> HIDE DEF W, q, A, k
  <2>6. text \in Seq(A) /\ open \in Seq(A)  BY <1>1, <2>1
  <2> HIDE DEF text, read
  <2>7. Scan(open) = Between(k(ws))
    <3>1. CASE text = <<>>
      <4>1. k(ws) = <<>> /\ Scan(open) = Start  BY <1>2, <2>1, <3>1 DEF text
      <4>2. QED  BY <4>1 DEF Between, Start
    <3>2. CASE text # <<>>
      <4>1. Scan(open) = Step(Scan(text), "space")  BY <1>1, <2>6, <3>2, ScanAppend
      <4>2. Scan(text).state = "word" /\ (Scan(text).token = <<>> => Scan(text).quoted)
        BY <2>1, <3>2 DEF text
      <4>3. Step(Scan(text), "space") = EndToken(Scan(text))  BY <4>2 DEF Step, InWord, Quote
      <4>4. EndToken(Scan(text)).words = k(ws)  BY <2>1 DEF text
      <4>5. EndToken(Scan(text)) = Between(k(ws))  BY <4>4 DEF EndToken, Between, Start
      <4>6. QED  BY <4>1, <4>3, <4>5
    <3>3. QED  BY <3>1, <3>2
  <2> HIDE DEF open
  <2>8. QuotedWord(w, how) \in Seq(A) /\ WordEnds(Scan(full), k(ws), read)
    <3>1. w \in Seq(Char)  BY <2>1
    <3>2. open \in Seq(Text(Char))  BY <2>6 DEF A
    <3>3. QED  BY ONLY how \in Quoting, <2>7, <3>1, <3>2, WordScanned DEF A, read
  <2>9. q(Append(ws, w)) = full
    <3>1. CASE text = <<>>
      <4>1. full = QuotedWord(w, how)  BY <2>8, <3>1 DEF open
      <4>2. QED  BY <2>2, <3>1, <4>1 DEF Joined
    <3>2. CASE text # <<>>  BY <2>2, <3>2 DEF Joined, open
    <3>3. QED  BY <3>1, <3>2
  <2>10. full \in Seq(A)  BY <2>6, <2>8
  <2> HIDE DEF full
  <2>11. EndToken(Scan(full)).words = k(Append(ws, w))
    <3>1. Scan(full).words = k(ws) /\ Scan(full).token = read  BY <2>8 DEF WordEnds
    <3>2. EndToken(Scan(full)).words = IF read = <<>> THEN k(ws) ELSE Append(k(ws), read)
      BY <3>1 DEF EndToken, Start
    <3>3. k(ws) \o <<>> = k(ws) /\ Append(k(ws), read) = k(ws) \o <<read>>
      <4> DEFINE B == Seq(A)
      <4>1. k(ws) \in Seq(B) /\ read \in B  BY <2>4, <2>5
      <4> HIDE DEF B
      <4>2. QED  BY <4>1
    <3>4. QED  BY <2>4, <2>5, <3>2, <3>3
  <2>12. Scan(full).state = "word" /\ (Scan(full).token = <<>> => Scan(full).quoted)
    BY <2>8 DEF WordEnds
  <2>13. full # <<>>  BY <1>2, <2>12 DEF Start
  <2>14. Good(Append(ws, w))  BY <2>9, <2>10, <2>11, <2>12, <2>13
  <2>15. QED  BY <2>3, <2>14
<1> HIDE DEF T, W
<1>5. \A ws \in Seq(W) : ws \in T  BY <1>3, <1>4, SeqInduction
<1>6. Good(words)  BY <1>5 DEF T, W
<1>7. QED  BY <1>6 DEF Split, Scan

-----------------------------------------------------------------------------
(* A command is kept only while a handler runs it. *)
CommandKept ==
  /\ CommandAsMeant
  /\ ~handled => rawCmd = <<>>

(* The handler is given the command line of the request that was granted,  *)
(* whatever was refused before, and reads its words as the client meant    *)
(* them, of any length, over any characters, quoted in any of the three    *)
(* ways, but that empty ones are lost and that a backslash before a $ or ` *)
(* stays within double quotes (handleRequests and shlexSplit, session.go   *)
(* and shlex.go 22, 81-86).                                                *)
THEOREM CommandGivenAsMeant ==
  ASSUME NEW Char, \A c \in Commands : c.words \in Seq(Seq(Char))
  PROVE  Spec => []CommandAsMeant
<1>1. Split(<<>>) = <<>>
  <2>1. Scan(<<>>) = Start  BY ScanStarts
  <2>2. QED  BY <2>1 DEF Split, Scan, EndToken, Start
<1>2. ASSUME NEW c \in Commands
      PROVE  Split(Quoted(c.words, c.how)) = WordsRead(c.words, c.how)
  <2>1. c.how \in Quoting  BY RequestsAssumption
  <2>2. c.words \in Seq(Seq(Char))  OBVIOUS
  <2>3. QED  BY <2>1, <2>2, SplitQuoted
<1>3. Init => CommandKept  BY DEF Init, CommandKept, CommandAsMeant
<1>4. ASSUME CommandKept, [Next]_vars PROVE CommandKept'
  <2> USE DEF CommandKept, CommandAsMeant, startVars, ptyVars, x11Vars, outVars
  <2>1. ASSUME UNCHANGED startVars PROVE CommandKept'  BY <1>4, <2>1
  <2>2. CASE UNCHANGED vars  BY <2>1, <2>2 DEF vars
  <2>3. ASSUME NEW allowed \in BOOLEAN, NEW c \in Commands,
               ExecRequest(c, Quoted(c.words, c.how), allowed)
        PROVE  CommandKept'
    BY <1>2, <1>4, <2>3 DEF ExecRequest
  <2>4. ASSUME NEW allowed \in BOOLEAN, ShellRequest(allowed) PROVE CommandKept'
    BY <1>1, <1>4, <2>4 DEF ShellRequest
  <2>5. ASSUME NEW allowed \in BOOLEAN, NEW name, SubsystemRequest(name, allowed)
        PROVE  CommandKept'
    BY <1>1, <1>4, <2>5 DEF SubsystemRequest
  <2>6. ASSUME NEW allowed, NEW ask, NEW payload, PtyRequest(ask, payload, allowed)
        PROVE  CommandKept'
    BY <2>1, <2>6 DEF PtyRequest
  <2>7. ASSUME NEW allowed, NEW ask, NEW payload, X11Request(ask, payload, allowed)
        PROVE  CommandKept'
    BY <2>1, <2>7 DEF X11Request
  <2>8. ASSUME NEW v, EnvRequest(v) PROVE CommandKept'  BY <2>1, <2>8 DEF EnvRequest
  <2>9. ASSUME NEW win, NEW payload, WindowChange(win, payload) PROVE CommandKept'
    BY <2>1, <2>9 DEF WindowChange
  <2>10. ASSUME NEW p, Write(p) PROVE CommandKept'  BY <2>1, <2>10 DEF Write
  <2>11. CASE DisablePTYEmulation  BY <2>1, <2>11 DEF DisablePTYEmulation
  <2>12. QED
    BY <1>4, <2>2, <2>3, <2>4, <2>5, <2>6, <2>7, <2>8, <2>9, <2>10, <2>11 DEF Next
<1>5. CommandKept => CommandAsMeant  BY DEF CommandKept
<1>6. QED  BY <1>3, <1>4, <1>5, PTL DEF Spec

-----------------------------------------------------------------------------
(* The pty, if there is one, is a record of three fields. *)
OnePty ==
  /\ \A p \in pty, q \in pty : p = q
  /\ \A p \in pty : p = [term |-> p.term, window |-> p.window, modes |-> p.modes]

LEMMA PtyRecord ==
  ASSUME NEW payload, parsePtyRequest(payload).ok
  PROVE  LET p == parsePtyRequest(payload).val
         IN p = [term |-> p.term, window |-> p.window, modes |-> p.modes]
  BY DEF parsePtyRequest, Failed

(* A step that starts no handler: what a running handler reads stays. *)
Reading ==
  handled => /\ UNCHANGED <<handled, rawCmd, subsystem, env, x11>>
             /\ pty' = {} <=> pty = {}
             /\ \A p \in pty, q \in pty' : p = [q EXCEPT !.window = p.window]

LEMMA StepReads ==
  ASSUME OnePty, [Next]_vars
  PROVE  OnePty' /\ Reading
<1>1. ASSUME UNCHANGED pty, ~handled \/ UNCHANGED <<handled, rawCmd, subsystem, env, x11>>
      PROVE  OnePty' /\ Reading
  <2>1. OnePty'  BY <1>1 DEF OnePty
  <2>2. \A p \in pty, q \in pty' : p = [q EXCEPT !.window = p.window]
    BY <1>1 DEF OnePty
  <2>3. QED  BY <1>1, <2>1, <2>2 DEF Reading
<1> USE DEF startVars, ptyVars, x11Vars, outVars
<1>2. CASE UNCHANGED vars  BY <1>1, <1>2 DEF vars
<1>3. ASSUME NEW allowed, NEW c, ExecRequest(c, Quoted(c.words, c.how), allowed)
      PROVE  OnePty' /\ Reading
  BY <1>1, <1>3 DEF ExecRequest
<1>4. ASSUME NEW allowed, ShellRequest(allowed) PROVE OnePty' /\ Reading
  BY <1>1, <1>4 DEF ShellRequest
<1>5. ASSUME NEW allowed, NEW name, SubsystemRequest(name, allowed) PROVE OnePty' /\ Reading
  BY <1>1, <1>5 DEF SubsystemRequest
<1>6. ASSUME NEW allowed, NEW ask, NEW payload, PtyRequest(ask, payload, allowed)
      PROVE  OnePty' /\ Reading
  BY <1>6, PtyRecord DEF PtyRequest, OnePty, Reading
<1>7. ASSUME NEW allowed, NEW ask, NEW payload, X11Request(ask, payload, allowed)
      PROVE  OnePty' /\ Reading
  BY <1>1, <1>7 DEF X11Request
<1>8. ASSUME NEW v, EnvRequest(v) PROVE OnePty' /\ Reading
  BY <1>1, <1>8 DEF EnvRequest
<1>9. ASSUME NEW win, NEW payload, WindowChange(win, payload) PROVE OnePty' /\ Reading
  <2> DEFINE w == parseWindow(payload).val
             Resized(q) == [q EXCEPT !.window = w]
  <2>1. pty # {} /\ pty' = {Resized(q) : q \in pty}
        /\ UNCHANGED <<handled, rawCmd, subsystem, env, x11>>
    BY <1>9 DEF WindowChange
  <2>2. ASSUME NEW q \in pty
        PROVE  Resized(q) = [term |-> q.term, window |-> w, modes |-> q.modes]
    BY DEF OnePty
  <2>3. PICK p \in pty : pty = {p}  BY <2>1 DEF OnePty
  <2>4. pty' = {Resized(p)}  BY <2>1, <2>3
  <2>5. p = [Resized(p) EXCEPT !.window = p.window]  BY <2>2, <2>3 DEF OnePty
  <2> HIDE DEF Resized
  <2>6. OnePty'
    BY <2>2, <2>4 DEF OnePty
  <2>7. QED  BY <2>1, <2>3, <2>4, <2>5, <2>6 DEF Reading
<1>10. ASSUME NEW p, Write(p) PROVE OnePty' /\ Reading
  BY <1>1, <1>10 DEF Write
<1>11. CASE DisablePTYEmulation  BY <1>1, <1>11 DEF DisablePTYEmulation
<1>12. QED
  BY <1>2, <1>3, <1>4, <1>5, <1>6, <1>7, <1>8, <1>9, <1>10, <1>11 DEF Next

(* Once the handler runs no request changes what it reads of the session,  *)
(* but the window of its terminal (handleRequests, session.go): the state  *)
(* Environ, Command, Subsystem, Pty and X11 copy is the one it was started *)
(* with.                                                                   *)
THEOREM HandlerFieldsFrozen == Spec => FrozenAfterStart
<1>1. Init => OnePty  BY DEF Init, OnePty
<1>2. OnePty /\ [Next]_vars => OnePty'  BY StepReads
<1>3. OnePty /\ [Next]_vars =>
        [handled => /\ UNCHANGED <<handled, rawCmd, subsystem, env, x11>>
                    /\ pty' = {} <=> pty = {}
                    /\ \A p \in pty, q \in pty' : p = [q EXCEPT !.window = p.window]]_vars
  BY StepReads DEF Reading
<1>4. QED  BY <1>1, <1>2, <1>3, PTL DEF Spec, FrozenAfterStart

-----------------------------------------------------------------------------
(* Line ends.  The two passes of Normalized.                               *)
Parts(p) == [i \in DOMAIN p |-> IF p[i] = "LF" THEN <<"CR", "LF">> ELSE <<p[i]>>]
Widened(p) == FlattenSeq(Parts(p))

Extra(q, i) == i + 2 \in DOMAIN q /\ SubSeq(q, i, i + 2) = <<"CR", "CR", "LF">>
Thinned(q) == [i \in DOMAIN q |-> IF Extra(q, i) THEN <<>> ELSE <<q[i]>>]

Marked(p) == [i \in DOMAIN p |->
               IF p[i] = "LF" /\ (i = 1 \/ p[i - 1] # "CR") THEN <<"CR", "LF">> ELSE <<p[i]>>]

Bytes(Char) == Char \cup {"CR", "LF"}

LEMMA PassesOfNormalized ==
  ASSUME NEW p
  PROVE  Normalized(p) = FlattenSeq(Thinned(Widened(p))) /\ CRLF(p) = FlattenSeq(Marked(p))
  BY DEF Normalized, Widened, Parts, Thinned, Extra, CRLF, Marked

LEMMA LongerByOne ==
  ASSUME NEW S, NEW n \in Nat, NEW f \in Seq(S), Len(f) = n, NEW x \in S,
         NEW g \in Seq(S), Len(g) = n + 1, \A i \in 1..n : g[i] = f[i], g[n + 1] = x
  PROVE  g = Append(f, x)
  OBVIOUS

LEMMA PairJoined ==
  ASSUME NEW A, NEW s \in Seq(A), NEW x \in A, NEW y \in A
  PROVE  (s \o <<x>>) \o <<y>> = s \o <<x, y>>
<1>1. s \o <<x>> = Append(s, x) /\ Append(s, x) \in Seq(A)  OBVIOUS
<1>2. Append(s, x) \o <<y>> = Append(Append(s, x), y)  BY <1>1, AppendIsConcat
<1>3. s \o <<x, y>> = Append(Append(s, x), y)  OBVIOUS
<1>4. QED  BY <1>1, <1>2, <1>3

LEMMA ExtraAt ==
  ASSUME NEW A, NEW q \in Seq(A), NEW i \in 1..Len(q)
  PROVE  Extra(q, i) <=> i + 2 <= Len(q) /\ q[i] = "CR" /\ q[i + 1] = "CR" /\ q[i + 2] = "LF"
<1>1. i + 2 \in DOMAIN q <=> i + 2 <= Len(q)  OBVIOUS
<1>2. ASSUME i + 2 <= Len(q)
      PROVE  SubSeq(q, i, i + 2) = <<q[i], q[i + 1], q[i + 2]>>
  <2> DEFINE s == SubSeq(q, i, i + 2)
             m == i + 2
             u == <<q[i], q[i + 1], q[i + 2]>>
  <2>1. i \in 1..(Len(q) + 1) /\ m \in i-1 .. Len(q) /\ m - i + 1 = 3  BY <1>2
  <2>2. SubSeq(q, i, m) \in Seq(A) /\ Len(SubSeq(q, i, m)) = m - i + 1
        /\ \A k \in 1..(m - i + 1) : SubSeq(q, i, m)[k] = q[i + k - 1]
    BY <2>1, SubSeqProperties
  <2>3. s \in Seq(A) /\ Len(s) = 3 /\ \A k \in 1..3 : s[k] = q[i + k - 1]  BY <2>1, <2>2
  <2> HIDE DEF s
  <2>4. s[1] = q[i] /\ s[2] = q[i + 1] /\ s[3] = q[i + 2]
    <3>1. 1 \in 1..3 /\ 2 \in 1..3 /\ 3 \in 1..3  OBVIOUS
    <3>2. i + 1 - 1 = i /\ i + 2 - 1 = i + 1 /\ i + 3 - 1 = i + 2  OBVIOUS
    <3>3. QED  BY <2>3, <3>1, <3>2
  <2>5. u \in Seq(A)  BY <1>2
  <2>6. s = u  BY <2>3, <2>4, <2>5
  <2>7. QED  BY <2>6 DEF s
<1>3. QED  BY <1>1, <1>2 DEF Extra

LEMMA ThinnedTyped ==
  ASSUME NEW A, NEW q \in Seq(A)
  PROVE  Thinned(q) \in Seq(Seq(A)) /\ Len(Thinned(q)) = Len(q) /\ DOMAIN Thinned(q) = 1..Len(q)
<1>1. \A i \in 1..Len(q) : (IF Extra(q, i) THEN <<>> ELSE <<q[i]>>) \in Seq(A)  OBVIOUS
<1>2. DOMAIN q = 1..Len(q) /\ Len(q) \in Nat  OBVIOUS
<1>3. QED  BY <1>1, <1>2 DEF Thinned

(* The second pass at the end of what the first one made. *)
LEMMA ThinnedAppend ==
  ASSUME NEW A, NEW q \in Seq(A), NEW c \in A,
         c = "LF" => \A n \in Nat : n = Len(q) /\ n > 1 => ~(q[n - 1] = "CR" /\ q[n] = "CR")
  PROVE  Thinned(Append(q, c)) = Append(Thinned(q), <<c>>)
<1> DEFINE n == Len(q)
           t == Append(q, c)
<1>1. n \in Nat /\ t \in Seq(A) /\ Len(t) = n + 1 /\ t[n + 1] = c /\ DOMAIN t = 1..(n + 1)
      /\ DOMAIN q = 1..n /\ \A i \in 1..n : t[i] = q[i]
  OBVIOUS
<1>2. c = "LF" /\ n > 1 => ~(q[n - 1] = "CR" /\ q[n] = "CR")  BY <1>1
<1> HIDE DEF n, t
<1>3. ASSUME NEW i \in 1..n PROVE Extra(t, i) <=> Extra(q, i)
  <2>1. i \in 1..Len(t) /\ i \in 1..Len(q)
    <3>1. i \in 1..Len(t)  BY <1>1
    <3>2. QED  BY <3>1 DEF n
  <2>2. Extra(t, i) <=> i + 2 <= n + 1 /\ t[i] = "CR" /\ t[i + 1] = "CR" /\ t[i + 2] = "LF"
    BY <1>1, <2>1, ExtraAt
  <2>3. Extra(q, i) <=> i + 2 <= n /\ q[i] = "CR" /\ q[i + 1] = "CR" /\ q[i + 2] = "LF"
    BY <2>1, ExtraAt DEF n
  <2>4. CASE i + 2 <= n
    <3>1. i + 1 \in 1..n /\ i + 2 \in 1..n  BY <1>1, <2>4
    <3>2. QED  BY <1>1, <2>2, <2>3, <2>4, <3>1
  <2>5. CASE i + 2 = n + 1
    <3>1. i = n - 1 /\ i + 1 = n /\ n > 1 /\ n \in 1..n  BY <1>1, <2>5
    <3>2. QED  BY <1>1, <1>2, <2>2, <2>3, <2>5, <3>1
  <2>6. CASE i + 2 > n + 1  BY <1>1, <2>2, <2>3, <2>6
  <2>7. QED  BY <1>1, <2>4, <2>5, <2>6
<1>4. ~Extra(t, n + 1)
  <2>1. n + 1 \in 1..Len(t) /\ ~(n + 1 + 2 <= Len(t))  BY <1>1
  <2>2. QED  BY <1>1, <2>1, ExtraAt
<1>5. \A i \in 1..n : Thinned(t)[i] = Thinned(q)[i]
  <2>1. \A i \in 1..n : i \in DOMAIN t /\ i \in DOMAIN q  BY <1>1
  <2>2. QED  BY <1>1, <1>3, <2>1 DEF Thinned
<1>6. Thinned(t)[n + 1] = <<c>>
  <2>1. n + 1 \in DOMAIN t  BY <1>1
  <2>2. QED  BY <1>1, <1>4, <2>1 DEF Thinned
<1>7. Thinned(t) \in Seq(Seq(A)) /\ Len(Thinned(t)) = n + 1  BY <1>1, ThinnedTyped
<1>8. Thinned(q) \in Seq(Seq(A)) /\ Len(Thinned(q)) = n /\ <<c>> \in Seq(A)
  BY ThinnedTyped DEF n
<1>9. QED  BY <1>1, <1>5, <1>6, <1>7, <1>8, LongerByOne DEF t

LEMMA ThinnedCRLF ==
  ASSUME NEW A, NEW q \in Seq(A), "CR" \in A, "LF" \in A
  PROVE  Thinned(Append(Append(Append(q, "CR"), "CR"), "LF")) =
           Append(Append(Append(Thinned(q), <<>>), <<"CR">>), <<"LF">>)
<1> DEFINE n == Len(q)
           t == Append(Append(Append(q, "CR"), "CR"), "LF")
           u == Append(Append(Append(Thinned(q), <<>>), <<"CR">>), <<"LF">>)
<1>1. n \in Nat /\ t \in Seq(A) /\ Len(t) = n + 3 /\ t[n + 1] = "CR" /\ t[n + 2] = "CR"
      /\ t[n + 3] = "LF" /\ DOMAIN t = 1..(n + 3) /\ DOMAIN q = 1..n
      /\ \A i \in 1..n : t[i] = q[i]
  OBVIOUS
<1>2. Thinned(q) \in Seq(Seq(A)) /\ Len(Thinned(q)) = n  BY ThinnedTyped
<1>3. <<>> \in Seq(A) /\ <<"CR">> \in Seq(A) /\ <<"LF">> \in Seq(A)  OBVIOUS
<1>4. /\ u \in Seq(Seq(A)) /\ Len(u) = n + 3 /\ \A i \in 1..n : u[i] = Thinned(q)[i]
      /\ u[n + 1] = <<>> /\ u[n + 2] = <<"CR">> /\ u[n + 3] = <<"LF">>
  BY <1>1, <1>2, <1>3
<1> HIDE DEF n, t, u
<1>5. ASSUME NEW i \in 1..n PROVE Extra(t, i) <=> Extra(q, i)
  <2>1. i \in 1..Len(t) /\ i \in 1..Len(q)
    <3>1. i \in 1..Len(t)  BY <1>1
    <3>2. QED  BY <3>1 DEF n
  <2>2. Extra(t, i) <=> i + 2 <= n + 3 /\ t[i] = "CR" /\ t[i + 1] = "CR" /\ t[i + 2] = "LF"
    BY <1>1, <2>1, ExtraAt
  <2>3. Extra(q, i) <=> i + 2 <= n /\ q[i] = "CR" /\ q[i + 1] = "CR" /\ q[i + 2] = "LF"
    BY <2>1, ExtraAt DEF n
  <2>4. CASE i + 2 <= n
    <3>1. i + 1 \in 1..n /\ i + 2 \in 1..n  BY <1>1, <2>4
    <3>2. QED  BY <1>1, <2>2, <2>3, <2>4, <3>1
  <2>5. CASE i + 2 = n + 1 \/ i + 2 = n + 2
    <3>1. t[i + 2] = "CR"  BY <1>1, <2>5
    <3>2. QED  BY <1>1, <2>2, <2>3, <2>5, <3>1
  <2>6. QED  BY <1>1, <2>4, <2>5
<1>6. Extra(t, n + 1) /\ ~Extra(t, n + 2) /\ ~Extra(t, n + 3)
  <2>1. n + 1 \in 1..Len(t) /\ n + 2 \in 1..Len(t) /\ n + 3 \in 1..Len(t)  BY <1>1
  <2>2. n + 1 + 1 = n + 2 /\ n + 1 + 2 = n + 3  BY <1>1
  <2>3. Extra(t, n + 1)  BY <1>1, <2>1, <2>2, ExtraAt
  <2>4. ~(n + 2 + 2 <= Len(t)) /\ ~(n + 3 + 2 <= Len(t))  BY <1>1
  <2>5. QED  BY <1>1, <2>1, <2>3, <2>4, ExtraAt
<1>7. Len(Thinned(t)) = n + 3 /\ Thinned(t) \in Seq(Seq(A))  BY <1>1, ThinnedTyped
<1>8. ASSUME NEW i \in 1..(n + 3) PROVE Thinned(t)[i] = u[i]
  <2>1. i \in 1..n \/ i = n + 1 \/ i = n + 2 \/ i = n + 3  BY <1>1
  <2>2. Thinned(t)[i] = IF Extra(t, i) THEN <<>> ELSE <<t[i]>>  BY <1>1 DEF Thinned
  <2>3. i \in 1..n => Thinned(q)[i] = IF Extra(q, i) THEN <<>> ELSE <<q[i]>>
    BY <1>1 DEF Thinned
  <2>4. QED  BY <1>1, <1>4, <1>5, <1>6, <2>1, <2>2, <2>3
<1>9. Thinned(t) = u  BY <1>1, <1>4, <1>7, <1>8, SeqEqual
<1>10. QED  BY <1>9 DEF t, u

LEMMA PartsAppend ==
  ASSUME NEW Char, NEW p \in Seq(Char), NEW c \in Char
  PROVE  LET A == Bytes(Char)
             last == IF c = "LF" THEN <<"CR", "LF">> ELSE <<c>>
             mark == IF c = "LF" /\ (p = <<>> \/ p[Len(p)] # "CR") THEN <<"CR", "LF">> ELSE <<c>>
         IN /\ Parts(p) \in Seq(Seq(A)) /\ last \in Seq(A)
            /\ Parts(Append(p, c)) = Append(Parts(p), last)
            /\ Marked(p) \in Seq(Seq(A)) /\ mark \in Seq(A)
            /\ Marked(Append(p, c)) = Append(Marked(p), mark)
<1> DEFINE A == Bytes(Char)
           last == IF c = "LF" THEN <<"CR", "LF">> ELSE <<c>>
           mark == IF c = "LF" /\ (p = <<>> \/ p[Len(p)] # "CR") THEN <<"CR", "LF">> ELSE <<c>>
           n == Len(p)
           t == Append(p, c)
<1>1. n \in Nat /\ t \in Seq(Char) /\ Len(t) = n + 1 /\ t[n + 1] = c /\ DOMAIN t = 1..(n + 1)
      /\ DOMAIN p = 1..n /\ \A i \in 1..n : t[i] = p[i]
  OBVIOUS
<1>2. c \in A /\ "CR" \in A /\ "LF" \in A /\ \A d \in Char : d \in A  BY DEF Bytes
<1> HIDE DEF A
<1>3. <<"CR", "LF">> \in Seq(A) /\ \A d \in Char : <<d>> \in Seq(A)  BY <1>2
<1>4. last \in Seq(A) /\ mark \in Seq(A)  BY <1>3
<1>5. p = <<>> <=> n = 0  BY EmptySeq
<1> HIDE DEF n, t
<1>6. \A i \in 1..n : p[i] \in Char  BY DEF n
<1>7. ASSUME NEW u \in Seq(Char) PROVE Parts(u) \in Seq(Seq(A)) /\ Len(Parts(u)) = Len(u)
  <2>1. \A i \in 1..Len(u) : (IF u[i] = "LF" THEN <<"CR", "LF">> ELSE <<u[i]>>) \in Seq(A)
    BY <1>3
  <2>2. DOMAIN u = 1..Len(u) /\ Len(u) \in Nat  OBVIOUS
  <2>3. QED  BY <2>1, <2>2 DEF Parts
<1>8. ASSUME NEW u \in Seq(Char) PROVE Marked(u) \in Seq(Seq(A)) /\ Len(Marked(u)) = Len(u)
  <2>1. \A i \in 1..Len(u) : (IF u[i] = "LF" /\ (i = 1 \/ u[i - 1] # "CR")
                              THEN <<"CR", "LF">> ELSE <<u[i]>>) \in Seq(A)
    BY <1>3
  <2>2. DOMAIN u = 1..Len(u) /\ Len(u) \in Nat  OBVIOUS
  <2>3. QED  BY <2>1, <2>2 DEF Marked
<1>9. \A i \in 1..n : i \in 1..(n + 1) /\ (i # 1 => i - 1 \in 1..n)  BY <1>1
<1>10. n + 1 \in 1..(n + 1) /\ (n + 1) - 1 = n /\ (n # 0 => n \in 1..n) /\ (n + 1 = 1 <=> n = 0)
  BY <1>1
<1>11. Parts(t) = Append(Parts(p), last)
  <2>1. Parts(t) \in Seq(Seq(A)) /\ Len(Parts(t)) = n + 1 
        /\ Parts(p) \in Seq(Seq(A)) /\ Len(Parts(p)) = n
    BY <1>1, <1>7 DEF n
  <2>2. \A i \in 1..n : Parts(t)[i] = Parts(p)[i]  BY <1>1, <1>9 DEF Parts
  <2>3. Parts(t)[n + 1] = last  BY <1>1, <1>10 DEF Parts
  <2> HIDE DEF last
  <2>4. QED  BY <1>1, <1>4, <2>1, <2>2, <2>3, LongerByOne
<1>12. Marked(t) = Append(Marked(p), mark)
  <2>1. Marked(t) \in Seq(Seq(A)) /\ Len(Marked(t)) = n + 1
        /\ Marked(p) \in Seq(Seq(A)) /\ Len(Marked(p)) = n
    BY <1>1, <1>8 DEF n
  <2>2. \A i \in 1..n : Marked(t)[i] = Marked(p)[i]
    <3> SUFFICES ASSUME NEW i \in 1..n PROVE Marked(t)[i] = Marked(p)[i]  OBVIOUS
    <3>1. t[i] = p[i] /\ (i # 1 => t[i - 1] = p[i - 1])  BY <1>1, <1>9
    <3>2. QED  BY <1>1, <1>9, <3>1 DEF Marked
  <2>3. Marked(t)[n + 1] = mark
    <3>1. n # 0 => t[n] = p[n]  BY <1>1, <1>10
    <3>2. Marked(t)[n + 1] = IF c = "LF" /\ (n = 0 \/ t[n] # "CR") THEN <<"CR", "LF">> ELSE <<c>>
      BY <1>1, <1>10 DEF Marked
    <3>3. mark = IF c = "LF" /\ (n = 0 \/ p[n] # "CR") THEN <<"CR", "LF">> ELSE <<c>>
      BY <1>5 DEF n
    <3> HIDE DEF mark
    <3>4. QED  BY <3>1, <3>2, <3>3
  <2> HIDE DEF mark
  <2>4. QED  BY <1>1, <1>4, <2>1, <2>2, <2>3, LongerByOne
<1>13. QED  BY <1>4, <1>7, <1>8, <1>11, <1>12 DEF A, t

(* The two passes give a terminal what it needs, and never fewer bytes     *)
(* than the handler's.                                                     *)
LEMMA NormalizedIsCRLF ==
  ASSUME NEW Char, NEW p \in Seq(Char)
  PROVE  /\ Normalized(p) = CRLF(p)
         /\ CRLF(p) \in Seq(Bytes(Char)) /\ Len(CRLF(p)) >= Len(p)
<1> DEFINE A == Bytes(Char)
           Done(q) == FlattenSeq(Thinned(q))
           Ends(q, c) == q # <<>> /\ q[Len(q)] = c
           Good(u) == /\ Widened(u) \in Seq(A)
                      /\ Ends(Widened(u), "CR") <=> Ends(u, "CR")
                      /\ Done(Widened(u)) = CRLF(u)
                      /\ CRLF(u) \in Seq(A) /\ Len(CRLF(u)) >= Len(u)
           T == {u \in Seq(Char) : Good(u)}
<1>1. "CR" \in A /\ "LF" \in A /\ \A c \in Char : c \in A  BY DEF Bytes
<1>2. ASSUME NEW q \in Seq(A), NEW c \in A, c # "LF" \/ ~Ends(q, "CR") \/ q[Len(q) - 1] # "CR" \/ Len(q) < 2
      PROVE  Done(q) \in Seq(A) /\ Done(Append(q, c)) = Done(q) \o <<c>>
  <2>1. c = "LF" => \A n \in Nat : n = Len(q) /\ n > 1 => ~(q[n - 1] = "CR" /\ q[n] = "CR")
    BY <1>2
  <2> HIDE DEF A
  <2>2. Thinned(Append(q, c)) = Append(Thinned(q), <<c>>)  BY <2>1, ThinnedAppend
  <2>3. Thinned(q) \in Seq(Seq(A)) /\ <<c>> \in Seq(A)  BY ThinnedTyped
  <2>4. QED  BY <2>2, <2>3, FlattenAppend
<1>3. <<>> \in T
  <2>1. Parts(<<>>) = <<>> /\ Marked(<<>>) = <<>>  BY DEF Parts, Marked
  <2>2. FlattenSeq(<<>>) = <<>>  BY DEF FlattenSeq
  <2>3. Thinned(<<>>) = <<>>  BY DEF Thinned
  <2>4. CRLF(<<>>) = <<>> /\ Widened(<<>>) = <<>> /\ Done(<<>>) = <<>>
    BY <2>1, <2>2, <2>3, PassesOfNormalized DEF Widened
  <2> HIDE DEF Done, A
  <2>5. <<>> \in Seq(A) /\ <<>> \in Seq(Char) /\ Len(<<>>) = 0  OBVIOUS
  <2>6. Len(CRLF(<<>>)) >= Len(<<>>)  BY <2>4, <2>5
  <2>7. Good(<<>>)  BY <2>4, <2>5, <2>6
  <2> HIDE DEF Good
  <2>8. QED  BY <2>5, <2>7
<1>4. ASSUME NEW u \in Seq(Char), NEW c \in Char, u \in T PROVE Append(u, c) \in T
  <2> DEFINE t == Append(u, c)
             w == Widened(u)
             last == IF c = "LF" THEN <<"CR", "LF">> ELSE <<c>>
             mark == IF c = "LF" /\ (u = <<>> \/ u[Len(u)] # "CR") THEN <<"CR", "LF">> ELSE <<c>>
  <2>1. Good(u)  BY <1>4
  <2>2. t \in Seq(Char) /\ Len(t) = Len(u) + 1 /\ t # <<>> /\ t[Len(t)] = c  OBVIOUS
  <2>3. /\ Parts(u) \in Seq(Seq(A)) /\ last \in Seq(A) /\ Parts(t) = Append(Parts(u), last)
        /\ Marked(u) \in Seq(Seq(A)) /\ mark \in Seq(A) /\ Marked(t) = Append(Marked(u), mark)
    BY PartsAppend
  <2> HIDE DEF A, mark, last
  <2>4. Widened(t) = w \o last
    BY <2>3, FlattenAppend DEF Widened
  <2>5. CRLF(t) = CRLF(u) \o mark /\ CRLF(u) \in Seq(A)
    <3>1. CRLF(t) = FlattenSeq(Marked(t)) /\ CRLF(u) = FlattenSeq(Marked(u))
      BY PassesOfNormalized
    <3>2. QED  BY <2>3, <3>1, FlattenAppend
  <2>6. mark = IF c = "LF" /\ ~Ends(u, "CR") THEN <<"CR", "LF">> ELSE <<c>>  BY DEF mark
  <2>7. w \in Seq(A) /\ (Ends(w, "CR") <=> Ends(u, "CR")) /\ Done(w) = CRLF(u)
        /\ Len(CRLF(u)) >= Len(u)
    BY <2>1
  <2>8. c \in A  BY <1>1
  <2>9. last = IF c = "LF" THEN <<"CR", "LF">> ELSE <<c>>  BY DEF last
  <2> HIDE DEF w, mark, t, Done, A, T
  <2>10. /\ Widened(t) \in Seq(A) /\ (Ends(Widened(t), "CR") <=> Ends(t, "CR"))
        /\ Done(Widened(t)) = CRLF(t)
    <3>1. CASE c # "LF"
      <4>1. Widened(t) = Append(w, c) /\ mark = <<c>>
        BY <2>4, <2>6, <2>7, <2>8, <2>9, <3>1, AppendIsConcat
      <4>2. Done(Append(w, c)) = Done(w) \o <<c>>  BY <1>2, <2>7, <2>8, <3>1
      <4>3. Append(w, c) \in Seq(A) /\ (Ends(Append(w, c), "CR") <=> c = "CR")
        BY <2>7, <2>8
      <4>4. QED  BY <2>2, <2>5, <2>7, <4>1, <4>2, <4>3
    <3>2. CASE c = "LF"
      <4> DEFINE v == Append(w, "CR")
      <4>1. v \in Seq(A) /\ Append(v, "LF") \in Seq(A) /\ Len(v) = Len(w) + 1
            /\ Ends(v, "CR") /\ ~Ends(Append(v, "LF"), "CR") /\ (w # <<>> => v[Len(v) - 1] = w[Len(w)])
        <5>1. v \in Seq(A) /\ Len(v) = Len(w) + 1 /\ v[Len(v)] = "CR" /\ v # <<>>
              /\ Len(w) \in Nat
          BY <1>1, <2>7
        <5>2. ASSUME w # <<>> PROVE v[Len(v) - 1] = w[Len(w)]
          <6>1. Len(w) # 0  BY <2>7, <5>2, EmptySeq
          <6>2. QED  BY <1>1, <2>7, <6>1
        <5>3. Append(v, "LF") \in Seq(A) /\ Append(v, "LF")[Len(Append(v, "LF"))] = "LF"
          BY <1>1, <5>1
        <5>4. QED  BY <5>1, <5>2, <5>3
      <4>2. Widened(t) = Append(v, "LF")
        BY <1>1, <2>4, <2>7, <2>9, <3>2
      <4>3. Done(v) = Done(w) \o <<"CR">>
        <5>1. "CR" # "LF"  OBVIOUS
        <5>2. QED  BY <1>1, <1>2, <2>7, <5>1
      <4>4. CASE ~Ends(u, "CR")
        <5>1. w = <<>> \/ w[Len(w)] # "CR"  BY <2>7, <4>4
        <5>2. v[Len(v) - 1] # "CR" \/ Len(v) < 2
          <6>1. w = <<>> => Len(v) < 2  BY <4>1
          <6>2. QED  BY <4>1, <5>1, <6>1
        <5>3. Done(v) \in Seq(A) /\ Done(Append(v, "LF")) = Done(v) \o <<"LF">>
          BY <1>1, <1>2, <4>1, <5>2
        <5>4. mark = <<"CR", "LF">>  BY <2>6, <3>2, <4>4
        <5>5. Done(w) \in Seq(A)  BY <2>5, <2>7
        <5>6. (Done(w) \o <<"CR">>) \o <<"LF">> = Done(w) \o <<"CR", "LF">>
          BY <1>1, <5>5, PairJoined
        <5>7. QED  BY <2>2, <2>5, <2>7, <3>2, <4>1, <4>2, <4>3, <5>3, <5>4, <5>6
      <4>5. CASE Ends(u, "CR")
        <5> DEFINE q == SubSeq(w, 1, Len(w) - 1)
        <5>1. w # <<>> /\ w[Len(w)] = "CR"  BY <2>7, <4>5
        <5>2. q \in Seq(A) /\ w = Append(q, "CR")  BY <2>7, <5>1
        <5> HIDE DEF q
        <5>3. Thinned(Append(v, "LF")) =
                Append(Append(Append(Thinned(q), <<>>), <<"CR">>), <<"LF">>)
          BY <1>1, <5>2, ThinnedCRLF
        <5>4. Done(w) = Done(q) \o <<"CR">> /\ Done(q) \in Seq(A)
          <6>1. "CR" # "LF"  OBVIOUS
          <6>2. QED  BY <1>1, <1>2, <5>2, <6>1
        <5>5. Done(Append(v, "LF")) = ((Done(q) \o <<>>) \o <<"CR">>) \o <<"LF">>
          <6> DEFINE s == Thinned(q)
                     s1 == Append(s, <<>>)
                     s2 == Append(s1, <<"CR">>)
          <6>1. <<>> \in Seq(A) /\ <<"CR">> \in Seq(A) /\ <<"LF">> \in Seq(A)  BY <1>1
          <6>2. s \in Seq(Seq(A))  BY <5>2, ThinnedTyped
          <6>3. s1 \in Seq(Seq(A)) /\ s2 \in Seq(Seq(A))  BY <6>1, <6>2
          <6>4. FlattenSeq(s1) = FlattenSeq(s) \o <<>>  BY <6>1, <6>2, FlattenAppend
          <6>5. FlattenSeq(s2) = FlattenSeq(s1) \o <<"CR">>  BY <6>1, <6>3, FlattenAppend
          <6>6. FlattenSeq(Append(s2, <<"LF">>)) = FlattenSeq(s2) \o <<"LF">>
            BY <6>1, <6>3, FlattenAppend
          <6>7. QED  BY <5>3, <6>4, <6>5, <6>6 DEF Done
        <5>6. Done(q) \o <<>> = Done(q)  BY <5>4
        <5>7. mark = <<"LF">>  BY <2>6, <3>2, <4>5
        <5>8. QED  BY <2>2, <2>5, <2>7, <3>2, <4>1, <4>2, <5>4, <5>5, <5>6, <5>7
      <4>6. QED  BY <4>4, <4>5
    <3>3. QED  BY <3>1, <3>2
  <2>11. mark \in Seq(A) /\ Len(mark) >= 1  BY <1>1, <2>6, <2>8
  <2>12. CRLF(t) \in Seq(A) /\ Len(CRLF(t)) >= Len(t)
    BY <2>2, <2>5, <2>7, <2>11
  <2>13. Good(t)  BY <2>10, <2>12
  <2>14. QED  BY <2>2, <2>13 DEF T, t
<1> HIDE DEF T
<1>5. \A u \in Seq(Char) : u \in T  BY <1>3, <1>4, SeqInduction
<1>6. Good(p)  BY <1>5 DEF T
<1>7. QED  BY <1>6, PassesOfNormalized

-----------------------------------------------------------------------------
(* What a running handler has written; it writes nothing before.           *)
Shown(p) == IF pty # {} /\ ~disabled THEN CRLF(p) ELSE p
Written(Char) ==
  /\ WrittenAsMeant
  /\ texts \in Seq(Seq(Char)) /\ counts \in Seq(Nat) /\ Len(counts) = Len(texts)
  /\ texts # <<>> => handled

LEMMA WriteKeeps ==
  ASSUME NEW Char, Written(Char), NEW p \in Seq(Char), Write(p)
  PROVE  Written(Char)'
<1> DEFINE A == Bytes(Char)
           all == [i \in DOMAIN texts |-> Shown(texts[i])]
           written == IF pty # {} /\ ~disabled THEN Normalized(p) ELSE p
<1>1. /\ handled /\ out' = out \o written /\ texts' = Append(texts, p)
      /\ counts' = Append(counts, IF Len(written) > Len(p) THEN Len(p) ELSE Len(written))
      /\ UNCHANGED <<handled, pty, disabled>>
  BY DEF Write, startVars, ptyVars
<1>2. ASSUME NEW q \in Seq(Char) PROVE Shown(q) \in Seq(A)
  <2>1. q \in Seq(A)  BY DEF Bytes
  <2>2. QED  BY <2>1, NormalizedIsCRLF DEF Shown
<1>3. written = Shown(p) /\ Len(written) >= Len(p)
  <2>1. Len(p) \in Nat  OBVIOUS
  <2>2. Normalized(p) = CRLF(p) /\ Len(CRLF(p)) >= Len(p)  BY NormalizedIsCRLF
  <2>3. QED  BY <2>1, <2>2 DEF Shown
<1>4. /\ texts \in Seq(Seq(Char)) /\ counts \in Seq(Nat) /\ Len(counts) = Len(texts)
      /\ out = FlattenSeq(all) /\ \A i \in DOMAIN counts : counts[i] = Len(texts[i])
  BY DEF Written, WrittenAsMeant, Shown
<1>5. all \in Seq(Seq(A)) /\ Len(all) = Len(texts)
  <2>1. \A i \in 1..Len(texts) : Shown(texts[i]) \in Seq(A)  BY <1>2, <1>4
  <2>2. DOMAIN texts = 1..Len(texts) /\ Len(texts) \in Nat  BY <1>4
  <2>3. QED  BY <2>1, <2>2
<1> DEFINE n == Len(texts)
           t == Append(texts, p)
           more == [i \in DOMAIN t |-> Shown(t[i])]
<1>6. n \in Nat /\ t \in Seq(Seq(Char)) /\ Len(t) = n + 1 /\ DOMAIN t = 1..(n + 1)
      /\ DOMAIN texts = 1..n /\ t[n + 1] = p /\ \A i \in 1..n : t[i] = texts[i]
  BY <1>4
<1> HIDE DEF n, t, A
<1>7. more \in Seq(Seq(A)) /\ Len(more) = n + 1
  <2>1. \A i \in 1..(n + 1) : t[i] \in Seq(Char)  BY <1>6
  <2>2. \A i \in 1..(n + 1) : Shown(t[i]) \in Seq(A)  BY <1>2, <2>1
  <2>3. QED  BY <1>6, <2>2
<1>8. more = Append(all, Shown(p))
  <2>1. \A i \in 1..n : more[i] = all[i]
    <3>1. \A i \in 1..n : i \in 1..(n + 1)  BY <1>6
    <3>2. QED  BY <1>6, <3>1
  <2>2. more[n + 1] = Shown(p)
    <3>1. n + 1 \in 1..(n + 1)  BY <1>6
    <3>2. QED  BY <1>6, <3>1
  <2>3. Shown(p) \in Seq(A)  BY <1>2
  <2>4. Len(all) = n /\ all \in Seq(Seq(A))  BY <1>5 DEF n
  <2> HIDE DEF more, all
  <2>5. QED  BY <1>6, <1>7, <2>1, <2>2, <2>3, <2>4, LongerByOne
<1>9. FlattenSeq(more) = FlattenSeq(all) \o Shown(p)
  <2>1. Shown(p) \in Seq(A)  BY <1>2
  <2> HIDE DEF more, all
  <2>2. QED  BY <1>5, <1>8, <2>1, FlattenAppend
<1>10. out' = FlattenSeq([i \in DOMAIN texts' |->
                  IF pty' # {} /\ ~disabled' THEN CRLF(texts'[i]) ELSE texts'[i]])
  <2>1. out' = FlattenSeq(more)  BY <1>1, <1>3, <1>4, <1>9
  <2>2. more = [i \in DOMAIN t |-> IF pty # {} /\ ~disabled THEN CRLF(t[i]) ELSE t[i]]
    BY DEF Shown
  <2>3. QED  BY <1>1, <2>1, <2>2 DEF t
<1>11. counts' \in Seq(Nat) /\ Len(counts') = n + 1 /\ DOMAIN counts' = 1..(n + 1)
       /\ \A i \in DOMAIN counts' : counts'[i] = Len(t[i])
  <2>1. counts' = Append(counts, Len(p)) /\ Len(p) \in Nat
    <3>1. written \in Seq(A)  BY <1>2, <1>3
    <3>2. Len(written) \in Nat /\ Len(p) \in Nat  BY <3>1
    <3> HIDE DEF written
    <3>3. QED  BY <1>1, <1>3, <3>2
  <2>2. Len(counts) = n /\ counts \in Seq(Nat)  BY <1>4 DEF n
  <2>3. /\ counts' \in Seq(Nat) /\ Len(counts') = n + 1 /\ DOMAIN counts' = 1..(n + 1)
        /\ counts'[n + 1] = Len(p) /\ \A i \in 1..n : counts'[i] = counts[i]
    BY <1>6, <2>1, <2>2
  <2>4. \A i \in 1..(n + 1) : i \in 1..n \/ i = n + 1  BY <1>6
  <2>5. \A i \in 1..n : counts[i] = Len(texts[i])
    <3>1. DOMAIN counts = 1..n  BY <2>2
    <3>2. QED  BY <1>4, <3>1
  <2>6. QED  BY <1>6, <2>3, <2>4, <2>5
<1>12. texts' = t  BY <1>1 DEF t
<1>13. QED
  BY <1>1, <1>6, <1>10, <1>11, <1>12 DEF Written, WrittenAsMeant

(* A terminal gets every line feed of the handler after a carriage return, *)
(* and nothing else but its bytes; Write counts those (Write, session.go). *)
THEOREM TextWrittenAsMeant ==
  ASSUME NEW Char, Texts \subseteq Seq(Char)
  PROVE  Spec => []WrittenAsMeant
<1> DEFINE W == Written(Char)
<1>1. Init => W
  <2> SUFFICES ASSUME Init PROVE W  OBVIOUS
  <2>1. texts = <<>> /\ counts = <<>> /\ out = <<>>  BY DEF Init
  <2>2. WrittenAsMeant
    <3>1. FlattenSeq([i \in DOMAIN texts |->
             IF pty # {} /\ ~disabled THEN CRLF(texts[i]) ELSE texts[i]]) = <<>>
      <4>1. [i \in DOMAIN texts |->
             IF pty # {} /\ ~disabled THEN CRLF(texts[i]) ELSE texts[i]] = <<>>
        BY <2>1
      <4>2. QED  BY <4>1 DEF FlattenSeq
    <3>2. QED  BY <2>1, <3>1 DEF WrittenAsMeant
  <2>3. QED  BY <2>1, <2>2 DEF Written
<1>2. ASSUME W, [Next]_vars PROVE W'
  <2> USE DEF startVars, ptyVars, x11Vars, outVars
  <2>1. ASSUME UNCHANGED <<out, texts, counts>>,
               texts = <<>> \/ (UNCHANGED disabled /\ (pty' = {} <=> pty = {})),
               texts = <<>> \/ handled'
        PROVE  W'
    <3>1. CASE texts = <<>>
      <4>1. out = <<>> /\ counts = <<>>
        <5>1. [i \in DOMAIN texts |->
             IF pty # {} /\ ~disabled THEN CRLF(texts[i]) ELSE texts[i]] = <<>>
          BY <3>1
        <5>2. out = FlattenSeq(<<>>)  BY <1>2, <5>1 DEF Written, WrittenAsMeant
        <5>3. counts \in Seq(Nat) /\ Len(counts) = 0  BY <1>2, <3>1 DEF Written
        <5>4. QED  BY <5>2, <5>3, EmptySeq DEF FlattenSeq
      <4>2. [i \in DOMAIN texts' |->
             IF pty' # {} /\ ~disabled' THEN CRLF(texts'[i]) ELSE texts'[i]] = <<>>
        BY <2>1, <3>1
      <4>3. FlattenSeq(<<>>) = <<>>  BY DEF FlattenSeq
      <4>4. WrittenAsMeant'
        BY <2>1, <3>1, <4>1, <4>2, <4>3 DEF WrittenAsMeant
      <4>5. QED  BY <1>2, <2>1, <3>1, <4>4 DEF Written
    <3>2. CASE texts # <<>>
      <4>1. WrittenAsMeant'
        <5>1. (pty' # {} /\ ~disabled') <=> (pty # {} /\ ~disabled)  BY <2>1, <3>2
        <5>2. [i \in DOMAIN texts' |->
                 IF pty' # {} /\ ~disabled' THEN CRLF(texts'[i]) ELSE texts'[i]]
              = [i \in DOMAIN texts |->
                 IF pty # {} /\ ~disabled THEN CRLF(texts[i]) ELSE texts[i]]
          BY <2>1, <5>1
        <5>3. QED  BY <1>2, <2>1, <5>2 DEF Written, WrittenAsMeant
      <4>2. QED  BY <1>2, <2>1, <3>2, <4>1 DEF Written
    <3>3. QED  BY <3>1, <3>2
  <2> HIDE DEF W
  <2>2. texts = <<>> \/ handled  BY <1>2 DEF W, Written
  <2>3. CASE UNCHANGED vars  BY <2>1, <2>2, <2>3 DEF vars
  <2>4. ASSUME NEW allowed, NEW c, ExecRequest(c, Quoted(c.words, c.how), allowed)
        PROVE  W'
    BY <2>1, <2>2, <2>4 DEF ExecRequest
  <2>5. ASSUME NEW allowed, ShellRequest(allowed) PROVE W'
    BY <2>1, <2>2, <2>5 DEF ShellRequest
  <2>6. ASSUME NEW allowed, NEW name, SubsystemRequest(name, allowed) PROVE W'
    BY <2>1, <2>2, <2>6 DEF SubsystemRequest
  <2>7. ASSUME NEW allowed, NEW ask, NEW payload, PtyRequest(ask, payload, allowed) PROVE W'
    <3>1. ~handled /\ UNCHANGED <<out, texts, counts>>  BY <2>7 DEF PtyRequest
    <3>2. texts = <<>>  BY <2>2, <3>1
    <3>3. UNCHANGED <<out, texts, counts>>  BY <3>1
    <3>4. QED  BY <2>1, <3>2, <3>3
  <2>8. ASSUME NEW allowed, NEW ask, NEW payload, X11Request(ask, payload, allowed) PROVE W'
    BY <2>1, <2>2, <2>8 DEF X11Request
  <2>9. ASSUME NEW v, EnvRequest(v) PROVE W'  BY <2>1, <2>2, <2>9 DEF EnvRequest
  <2>10. ASSUME NEW win, NEW payload, WindowChange(win, payload) PROVE W'
    <3>1. pty # {} /\ pty' # {} /\ UNCHANGED <<out, texts, counts, disabled, handled>>
      BY <2>10 DEF WindowChange
    <3>2. QED  BY <2>1, <2>2, <3>1
  <2>11. ASSUME NEW p \in Texts, Write(p) PROVE W'  BY <1>2, <2>11, WriteKeeps DEF W
  <2>12. CASE DisablePTYEmulation  BY <2>1, <2>2, <2>12 DEF DisablePTYEmulation
  <2>13. QED
    BY <1>2, <2>3, <2>4, <2>5, <2>6, <2>7, <2>8, <2>9, <2>10, <2>11, <2>12 DEF Next
<1>3. W => WrittenAsMeant  BY DEF Written
<1>4. QED  BY <1>1, <1>2, <1>3, PTL DEF Spec

-----------------------------------------------------------------------------
(* Payloads.  What remains of a payload that may be cut off: either the    *)
(* cut is within its first part, or that is whole.                         *)
LEMMA CutOfConcat ==
  ASSUME NEW a \in Seq(Nat), NEW b \in Seq(Nat), NEW in \in Cut(a \o b)
  PROVE  in \in Seq(Nat) /\ (Len(in) < Len(a) \/ \E r \in Cut(b) : r \in Seq(Nat) /\ in = a \o r)
<1>1. PICK n \in 0..Len(a \o b) : in = SubSeq(a \o b, 1, n)  BY DEF Cut
<1>2. a \o b \in Seq(Nat) /\ Len(a \o b) = Len(a) + Len(b) /\ Len(a) \in Nat /\ Len(b) \in Nat
  OBVIOUS
<1>3. in \in Seq(Nat) /\ Len(in) = n /\ \A i \in 1..n : in[i] = (a \o b)[i]
  BY <1>1, <1>2
<1>4. ASSUME n >= Len(a) PROVE \E r \in Cut(b) : r \in Seq(Nat) /\ in = a \o r
  <2> DEFINE m == n - Len(a)
             r == SubSeq(b, 1, m)
  <2>1. m \in 0..Len(b) /\ n = Len(a) + m  BY <1>1, <1>2, <1>4
  <2> HIDE DEF m
  <2>2. r \in Seq(Nat) /\ Len(r) = m /\ \A i \in 1..m : r[i] = b[i]  BY <2>1
  <2>3. r \in Cut(b)  BY <2>1 DEF Cut
  <2> HIDE DEF r
  <2>4. a \o r \in Seq(Nat) /\ Len(a \o r) = n  BY <2>1, <2>2, ConcatProperties
  <2>5. \A i \in 1..n : in[i] = (a \o r)[i]
    <3> SUFFICES ASSUME NEW i \in 1..n PROVE in[i] = (a \o r)[i]  OBVIOUS
    <3>1. (a \o b)[i] = IF i <= Len(a) THEN a[i] ELSE b[i - Len(a)]
      <4>1. i \in 1..(Len(a) + Len(b))  BY <1>1, <1>2
      <4>2. QED  BY <4>1, ConcatProperties
    <3>2. (a \o r)[i] = IF i <= Len(a) THEN a[i] ELSE r[i - Len(a)]
      <4>1. i \in 1..(Len(a) + Len(r))  BY <2>1, <2>2
      <4>2. QED  BY <2>2, <4>1, ConcatProperties
    <3>3. i > Len(a) => i - Len(a) \in 1..m  BY <1>2, <2>1
    <3>4. QED  BY <1>2, <1>3, <2>2, <3>1, <3>2, <3>3
  <2>6. in = a \o r  BY <1>3, <2>4, <2>5, SeqEqual
  <2>7. QED  BY <2>2, <2>3, <2>6
<1>5. n >= Len(a) \/ n < Len(a)  BY <1>1, <1>2
<1>6. QED  BY <1>3, <1>4, <1>5

LEMMA PutUint32Typed ==
  ASSUME NEW v \in Nat
  PROVE  /\ PutUint32(v) \in Seq(Nat) /\ Len(PutUint32(v)) = 4
         /\ ((PutUint32(v)[1] * 256 + PutUint32(v)[2]) * 256 + PutUint32(v)[3]) * 256 + PutUint32(v)[4] = v
<1> DEFINE a == v \div 16777216
           b == v \div 65536
           c == v \div 256
<1>1. a \in Nat /\ b \in Nat /\ c \in Nat /\ b % 256 \in Nat /\ c % 256 \in Nat /\ v % 256 \in Nat
  OBVIOUS
<1>2. (c * 256) + (v % 256) = v  OBVIOUS
<1>3. (b * 256) + (c % 256) = c  OBVIOUS
<1>4. (a * 256) + (b % 256) = b  OBVIOUS
<1>5. PutUint32(v) = <<a, b % 256, c % 256, v % 256>>  BY DEF PutUint32
<1> HIDE DEF a, b, c
<1>6. QED  BY <1>1, <1>2, <1>3, <1>4, <1>5

(* Reading back what was put, from a payload that may be cut off after it. *)
LEMMA Uint32Whole ==
  ASSUME NEW v \in Nat, NEW r \in Seq(Nat)
  PROVE  Uint32(PutUint32(v) \o r) = [ok |-> TRUE, val |-> v, rem |-> r]
<1> DEFINE a == PutUint32(v)
           in == a \o r
<1>1. a \in Seq(Nat) /\ Len(a) = 4 /\ ((a[1] * 256 + a[2]) * 256 + a[3]) * 256 + a[4] = v
  BY PutUint32Typed
<1> HIDE DEF a
<1>2. /\ in \in Seq(Nat) /\ Len(in) = 4 + Len(r)
      /\ \A i \in 1..(4 + Len(r)) : in[i] = IF i <= 4 THEN a[i] ELSE r[i - 4]
  <2>1. /\ a \o r \in Seq(Nat) /\ Len(a \o r) = Len(a) + Len(r)
        /\ \A i \in 1..(Len(a) + Len(r)) : (a \o r)[i] = IF i <= Len(a) THEN a[i] ELSE r[i - Len(a)]
    BY <1>1, ConcatProperties
  <2>2. QED  BY <1>1, <2>1
<1>3. in[1] = a[1] /\ in[2] = a[2] /\ in[3] = a[3] /\ in[4] = a[4]
  <2>1. Len(r) \in Nat  OBVIOUS
  <2>2. 1 \in 1..(4 + Len(r)) /\ 2 \in 1..(4 + Len(r)) /\ 3 \in 1..(4 + Len(r)) /\ 4 \in 1..(4 + Len(r))
    BY <2>1
  <2> HIDE DEF in
  <2>3. QED  BY <1>2, <2>2
<1> HIDE DEF in
<1>4. SubSeq(in, 5, Len(in)) = r
  <2>1. Len(r) \in Nat /\ Len(in) - 5 + 1 = Len(r)  BY <1>2
  <2>2. \A i \in 5..Len(in) : in[i] \in Nat  BY <1>2
  <2>3. /\ SubSeq(in, 5, Len(in)) \in Seq(Nat)
        /\ Len(SubSeq(in, 5, Len(in))) = IF 5 <= Len(in) THEN Len(in) - 5 + 1 ELSE 0
        /\ \A i \in 1..(Len(in) - 5 + 1) : SubSeq(in, 5, Len(in))[i] = in[5 + i - 1]
    BY <1>2, <2>2, SubSeqProperties
  <2>4. Len(SubSeq(in, 5, Len(in))) = Len(r)  BY <1>2, <2>1, <2>3
  <2>5. \A i \in 1..Len(r) : SubSeq(in, 5, Len(in))[i] = r[i]
    <3> SUFFICES ASSUME NEW i \in 1..Len(r) PROVE SubSeq(in, 5, Len(in))[i] = r[i]  OBVIOUS
    <3>1. 5 + i - 1 = i + 4 /\ i + 4 \in 1..(4 + Len(r)) /\ i + 4 > 4 /\ (i + 4) - 4 = i  BY <2>1
    <3>2. in[i + 4] = r[i]  BY <1>2, <3>1
    <3>3. SubSeq(in, 5, Len(in))[i] = in[i + 4]  BY <2>1, <2>3, <3>1
    <3>4. QED  BY <3>2, <3>3
  <2>6. QED  BY <2>3, <2>4, <2>5, SeqEqual
<1>5. ~(Len(in) < 4)
  <2>1. Len(r) \in Nat  OBVIOUS
  <2>2. QED  BY <1>2, <2>1
<1>6. Uint32(in) = [ok |-> TRUE, val |-> v, rem |-> r]
  BY <1>1, <1>3, <1>4, <1>5 DEF Uint32
<1>7. QED  BY <1>6 DEF in, a

LEMMA Uint32Read ==
  ASSUME NEW v \in Nat, NEW b \in Seq(Nat), NEW in \in Cut(PutUint32(v) \o b)
  PROVE  \/ ~Uint32(in).ok
         \/ \E r \in Cut(b) : r \in Seq(Nat) /\ Uint32(in) = [ok |-> TRUE, val |-> v, rem |-> r]
<1>1. PutUint32(v) \in Seq(Nat) /\ Len(PutUint32(v)) = 4  BY PutUint32Typed
<1>2. in \in Seq(Nat) /\ (Len(in) < 4 \/ \E r \in Cut(b) : r \in Seq(Nat) /\ in = PutUint32(v) \o r)
  BY <1>1, CutOfConcat
<1>3. CASE Len(in) < 4  BY <1>3 DEF Uint32, Failed
<1>4. CASE \E r \in Cut(b) : r \in Seq(Nat) /\ in = PutUint32(v) \o r
  BY <1>4, Uint32Whole
<1>5. QED  BY <1>2, <1>3, <1>4

LEMMA BoolRead ==
  ASSUME NEW v \in BOOLEAN, NEW b \in Seq(Nat), NEW in \in Cut(PutBool(v) \o b)
  PROVE  \/ ~Bool(in).ok
         \/ \E r \in Cut(b) : r \in Seq(Nat) /\ Bool(in) = [ok |-> TRUE, val |-> v, rem |-> r]
<1> DEFINE x == IF v THEN 1 ELSE 0
<1>1. PutBool(v) = <<x>> /\ x \in Nat /\ (x = 1 <=> v)  BY DEF PutBool
<1> HIDE DEF x
<1>2. <<x>> \in Seq(Nat) /\ Len(<<x>>) = 1  BY <1>1
<1>3. in \in Seq(Nat) /\ (Len(in) < 1 \/ \E r \in Cut(b) : r \in Seq(Nat) /\ in = <<x>> \o r)
  <2>1. in \in Cut(<<x>> \o b)  BY <1>1
  <2>2. QED  BY <1>2, <2>1, CutOfConcat
<1>4. CASE Len(in) < 1
  <2>1. in = <<>>  BY <1>3, <1>4
  <2>2. QED  BY <2>1 DEF Bool, Failed
<1>5. CASE \E r \in Cut(b) : r \in Seq(Nat) /\ in = <<x>> \o r
  <2>1. PICK r \in Cut(b) : r \in Seq(Nat) /\ in = <<x>> \o r  BY <1>5
  <2>2. in # <<>> /\ in[1] = x /\ Tail(in) = r  BY <1>1, <2>1
  <2>3. (in[1] = 1) = v  BY <1>1, <2>2
  <2>4. Bool(in) = [ok |-> TRUE, val |-> v, rem |-> r]  BY <2>2, <2>3 DEF Bool
  <2>5. QED  BY <2>1, <2>4
<1>6. QED  BY <1>3, <1>4, <1>5

LEMMA StringRead ==
  ASSUME NEW s \in Seq(Nat), NEW b \in Seq(Nat), NEW in \in Cut(PutString(s) \o b)
  PROVE  \/ ~String(in).ok
         \/ \E r \in Cut(b) : r \in Seq(Nat) /\ String(in) = [ok |-> TRUE, val |-> s, rem |-> r]
<1> DEFINE a == PutUint32(Len(s))
           n == Uint32(in)
<1>1. a \in Seq(Nat) /\ s \o b \in Seq(Nat) /\ Len(s) \in Nat  BY PutUint32Typed
<1>2. PutString(s) \o b = a \o (s \o b)
  <2> HIDE DEF a
  <2>1. (a \o s) \o b = a \o (s \o b)  BY <1>1, ConcatAssociative
  <2>2. QED  BY <2>1 DEF PutString, a
<1>3. \/ ~n.ok
      \/ \E q \in Cut(s \o b) : q \in Seq(Nat) /\ n = [ok |-> TRUE, val |-> Len(s), rem |-> q]
  BY <1>1, <1>2, Uint32Read
<1> HIDE DEF n
<1>4. CASE ~n.ok  BY <1>4 DEF String, Failed, n
<1>5. CASE \E q \in Cut(s \o b) : q \in Seq(Nat) /\ n = [ok |-> TRUE, val |-> Len(s), rem |-> q]
  <2>1. PICK q \in Cut(s \o b) : q \in Seq(Nat) /\ n = [ok |-> TRUE, val |-> Len(s), rem |-> q]
    BY <1>5
  <2>2. Len(q) < Len(s) \/ \E r \in Cut(b) : r \in Seq(Nat) /\ q = s \o r
    BY <2>1, CutOfConcat
  <2>3. n.ok /\ n.val = Len(s) /\ n.rem = q  BY <2>1
  <2>4. CASE Len(q) < Len(s)  BY <2>3, <2>4 DEF String, Failed, n
  <2>5. CASE \E r \in Cut(b) : r \in Seq(Nat) /\ q = s \o r
    <3>1. PICK r \in Cut(b) : r \in Seq(Nat) /\ q = s \o r  BY <2>5
    <3>2. Len(q) = Len(s) + Len(r) /\ Len(r) \in Nat  BY <3>1
    <3>3. SubSeq(q, 1, Len(s)) = s /\ SubSeq(q, Len(s) + 1, Len(q)) = r
      BY <1>1, <3>1, <3>2, SubSeqOfConcat1, SubSeqOfConcat2
    <3>4. String(in) = [ok |-> TRUE, val |-> s, rem |-> r]
      <4>1. ~(~n.ok \/ Len(n.rem) < n.val)  BY <1>1, <2>1, <2>3, <3>2
      <4>2. String(in) = [ok |-> TRUE, val |-> SubSeq(n.rem, 1, n.val),
                          rem |-> SubSeq(n.rem, n.val + 1, Len(n.rem))]
        BY <4>1 DEF String, n
      <4>3. QED  BY <2>3, <3>3, <4>2
    <3>5. QED  BY <3>1, <3>4
  <2>6. QED  BY <2>2, <2>4, <2>5
<1>6. QED  BY <1>3, <1>4, <1>5

(* The fields of a payload, one after the other.                           *)
Values  == Nat \cup BOOLEAN \cup Seq(Nat)
Results == {Failed} \cup [ok : {TRUE}, vals : Seq(Values), rem : Seq(Nat)]

LEMMA FieldTyped ==
  ASSUME NEW r \in Results, NEW kind
  PROVE  Field(r, kind) \in Results
<1>1. CASE ~r.ok  BY <1>1 DEF Field, Results
<1>2. CASE r.ok
  <2>1. r # Failed  BY <1>2 DEF Failed
  <2>2. r \in [ok : {TRUE}, vals : Seq(Values), rem : Seq(Nat)]  BY <2>1 DEF Results
  <2>3. r.rem \in Seq(Nat) /\ r.vals \in Seq(Values)  BY <2>2
  <2> DEFINE in == r.rem
  <2> HIDE DEF in
  <2>4. Uint32(in).ok => Uint32(in).val \in Nat /\ Uint32(in).rem \in Seq(Nat)
    <3> SUFFICES ASSUME Uint32(in).ok PROVE Uint32(in).val \in Nat /\ Uint32(in).rem \in Seq(Nat)
      OBVIOUS
    <3>1. in \in Seq(Nat)  BY <2>3 DEF in
    <3>2. ~(Len(in) < 4)  BY DEF Uint32, Failed
    <3>3. in[1] \in Nat /\ in[2] \in Nat /\ in[3] \in Nat /\ in[4] \in Nat /\ Len(in) \in Nat
      BY <3>1, <3>2
    <3>4. SubSeq(in, 5, Len(in)) \in Seq(Nat)
      <4>1. \A i \in 5..Len(in) : in[i] \in Nat  BY <3>1
      <4>2. QED  BY <3>3, <4>1, SubSeqProperties
    <3>5. /\ Uint32(in).rem = SubSeq(in, 5, Len(in))
          /\ Uint32(in).val = ((in[1] * 256 + in[2]) * 256 + in[3]) * 256 + in[4]
      BY <3>2 DEF Uint32
    <3>6. \A x, y \in Nat : x * 256 + y \in Nat  OBVIOUS
    <3>7. in[1] * 256 + in[2] \in Nat  BY <3>3, <3>6
    <3>8. (in[1] * 256 + in[2]) * 256 + in[3] \in Nat  BY <3>3, <3>6, <3>7
    <3>9. ((in[1] * 256 + in[2]) * 256 + in[3]) * 256 + in[4] \in Nat  BY <3>3, <3>6, <3>8
    <3>10. Uint32(in).val \in Nat  BY <3>5, <3>9
    <3>11. QED  BY <3>4, <3>5, <3>10
  <2>5. Bool(in).ok => Bool(in).val \in BOOLEAN /\ Bool(in).rem \in Seq(Nat)
    <3>1. in \in Seq(Nat)  BY <2>3 DEF in
    <3>2. in # <<>> => Tail(in) \in Seq(Nat)  BY <3>1
    <3>3. QED  BY <3>2 DEF Bool, Failed
  <2>6. String(in).ok => String(in).val \in Seq(Nat) /\ String(in).rem \in Seq(Nat)
    <3> DEFINE n == Uint32(in)
    <3> SUFFICES ASSUME String(in).ok PROVE String(in).val \in Seq(Nat) /\ String(in).rem \in Seq(Nat)
      OBVIOUS
    <3> HIDE DEF n
    <3>1. n.ok /\ ~(Len(n.rem) < n.val)  BY DEF String, Failed, n
    <3>2. n.val \in Nat /\ n.rem \in Seq(Nat)  BY <2>4, <3>1 DEF n
    <3>3. Len(n.rem) \in Nat /\ n.val <= Len(n.rem)  BY <3>1, <3>2
    <3>4. SubSeq(n.rem, 1, n.val) \in Seq(Nat) /\ SubSeq(n.rem, n.val + 1, Len(n.rem)) \in Seq(Nat)
      <4>1. (\A i \in 1..n.val : n.rem[i] \in Nat) /\ (\A i \in n.val + 1..Len(n.rem) : n.rem[i] \in Nat)
        BY <3>2, <3>3
      <4>2. n.val + 1 \in Int  BY <3>2
      <4>3. QED  BY <3>2, <3>3, <4>1, <4>2, SubSeqProperties
    <3>5. String(in) = [ok |-> TRUE, val |-> SubSeq(n.rem, 1, n.val),
                        rem |-> SubSeq(n.rem, n.val + 1, Len(n.rem))]
      BY <3>1 DEF String, n
    <3>6. QED  BY <3>4, <3>5
  <2> DEFINE f == CASE kind = "uint32" -> Uint32(r.rem)
                    [] kind = "bool"   -> Bool(r.rem)
                    [] OTHER           -> String(r.rem)
  <2>7. f.ok => f.val \in Values /\ f.rem \in Seq(Nat)
    <3>1. f = Uint32(in) \/ f = Bool(in) \/ f = String(in)  BY DEF in
    <3> HIDE DEF f
    <3>2. QED  BY <2>4, <2>5, <2>6, <3>1 DEF Values
  <2>8. Field(r, kind) = IF f.ok THEN [ok |-> TRUE, vals |-> Append(r.vals, f.val), rem |-> f.rem]
                                 ELSE Failed
    BY <1>2 DEF Field
  <2> HIDE DEF f
  <2>9. f.ok => Append(r.vals, f.val) \in Seq(Values)  BY <2>3, <2>7
  <2>10. QED  BY <2>7, <2>8, <2>9 DEF Results
<1>3. QED  BY <1>1, <1>2

LEMMA FieldsRun ==
  ASSUME NEW S, NEW kinds \in Seq(S), NEW in \in Seq(Nat)
  PROVE  \E st \in [0..Len(kinds) -> Results] :
           /\ st[0] = [ok |-> TRUE, vals |-> <<>>, rem |-> in]
           /\ \A k \in 1..Len(kinds) : st[k] = Field(st[k - 1], kinds[k])
           /\ Fields(kinds, in) = st[Len(kinds)]
<1> DEFINE n == Len(kinds)
           D == Results
           base == [ok |-> TRUE, vals |-> <<>>, rem |-> in]
           Is(f) == f = [s \in SUBSET (1..n) |->
                           IF s = {} THEN base
                           ELSE Field(f[s \ {Max(s)}], kinds[Max(s)])]
           fold == CHOOSE f : Is(f)
<1>1. n \in Nat /\ DOMAIN kinds = 1..n  OBVIOUS
<1>2. base \in D
  <2>1. <<>> \in Seq(Values)  OBVIOUS
  <2>2. QED  BY <2>1 DEF Results
<1>3. Is(fold)
  <2> DEFINE step == [i \in 1..n |-> [r \in D |-> Field(r, kinds[i])]]
  <2>1. step \in [1..n -> [D -> D]]  BY <1>1, FieldTyped
  <2> HIDE DEF D, step, n, base
  <2>2. PICK f : IsFold(f, n, D, base, step)  BY <1>1, <1>2, <2>1, FoldExists
  <2>3. ASSUME NEW s \in SUBSET (1..n), s # {}
        PROVE  step[Max(s)][f[s \ {Max(s)}]] = Field(f[s \ {Max(s)}], kinds[Max(s)])
    <3>1. Max(s) \in 1..n /\ s \ {Max(s)} \in SUBSET (1..n)  BY <1>1, <2>3, MaxOfUpto
    <3>2. f[s \ {Max(s)}] \in D  BY <2>2, <3>1 DEF IsFold
    <3>3. QED  BY <3>1, <3>2 DEF step
  <2>4. Is(f)  BY <2>2, <2>3 DEF IsFold
  <2>5. QED  BY <2>4
<1>4. Fields(kinds, in) = fold[1..n]
  BY <1>1 DEF Fields, FoldLeft, MapThenFoldSet
<1> DEFINE st == [k \in 0..n |-> fold[1..k]]
<1> HIDE DEF fold, base
<1>5. st[0] = base
  <2>1. 1..0 = {} /\ 0 \in 0..n  BY <1>1
  <2>2. fold[{}] = base  BY <1>3
  <2>3. QED  BY <2>1, <2>2
<1>6. ASSUME NEW k \in 1..n PROVE st[k] = Field(st[k - 1], kinds[k])
  <2>1. k - 1 \in Nat /\ (k - 1) + 1 = k  BY <1>1
  <2>2. 1..k # {} /\ Max(1..k) = k /\ 1..k \ {k} = 1..(k - 1)  BY <2>1, Upto
  <2>3. 1..k \in SUBSET (1..n)  BY <1>1
  <2>4. fold[1..k] = Field(fold[1..(k - 1)], kinds[k])  BY <1>3, <2>2, <2>3
  <2>5. k \in 0..n /\ k - 1 \in 0..n  BY <1>1
  <2>6. QED  BY <2>4, <2>5
<1>7. \A k \in 0..n : st[k] \in D
  <2> DEFINE T == {k \in Nat : k <= n => st[k] \in D}
  <2> HIDE DEF st, D
  <2>1. 0 \in T  BY <1>2, <1>5
  <2>2. ASSUME NEW k \in Nat, k \in T PROVE k + 1 \in T
    <3> SUFFICES ASSUME k + 1 <= n PROVE st[k + 1] \in D  OBVIOUS
    <3>1. k + 1 \in 1..n /\ (k + 1) - 1 = k /\ st[k] \in D  BY <1>1, <2>2
    <3>2. st[k + 1] = Field(st[k], kinds[k + 1])  BY <3>1, <1>6
    <3>3. QED  BY <3>1, <3>2, FieldTyped DEF D
  <2> HIDE DEF T
  <2>3. \A k \in Nat : k \in T  BY <2>1, <2>2, Induction
  <2>4. QED  BY <1>1, <2>3 DEF T
<1>8. st \in [0..n -> D]  BY <1>7
<1>9. Fields(kinds, in) = st[n]
  BY <1>1, <1>4
<1>10. QED  BY <1>5, <1>6, <1>8, <1>9 DEF base

(* Concatenation as an operator, so that the provers take it as it is.     *)
Cat(s, t) == s \o t

LEMMA CatAssociative ==
  ASSUME NEW S, NEW s \in Seq(S), NEW t \in Seq(S), NEW u \in Seq(S)
  PROVE  Cat(s, t) \in Seq(S) /\ Cat(Cat(s, t), u) = Cat(s, Cat(t, u))
  BY ConcatAssociative DEF Cat

(* The reading of fields so far: failed, or the values that were put and a *)
(* cut of what is to come.                                                 *)
ReadSoFar(r, vals, b) == r.ok => /\ r = [ok |-> TRUE, vals |-> vals, rem |-> r.rem]
                               /\ r.rem \in Cut(b)

LEMMA FieldRead ==
  ASSUME NEW r, NEW vals, NEW b \in Seq(Nat), NEW v, NEW put, NEW kind,
         ReadSoFar(r, vals, Cat(put, b)),
         \/ kind = "uint32" /\ v \in Nat /\ put = PutUint32(v)
         \/ kind = "bool" /\ v \in BOOLEAN /\ put = PutBool(v)
         \/ kind = "string" /\ v \in Seq(Nat) /\ put = PutString(v)
  PROVE  ReadSoFar(Field(r, kind), Append(vals, v), b)
<1>1. CASE ~r.ok  BY <1>1 DEF Field, ReadSoFar, Failed
<1>2. CASE r.ok
  <2> DEFINE f == CASE kind = "uint32" -> Uint32(r.rem)
                    [] kind = "bool"   -> Bool(r.rem)
                    [] OTHER           -> String(r.rem)
  <2>1. r.rem \in Cut(put \o b) /\ r.vals = vals  BY <1>2 DEF ReadSoFar, Cat
  <2>2. ~f.ok \/ \E q \in Cut(b) : q \in Seq(Nat) /\ f = [ok |-> TRUE, val |-> v, rem |-> q]
    <3>1. CASE kind = "uint32" /\ v \in Nat /\ put = PutUint32(v)
      <4>1. f = Uint32(r.rem)  BY <3>1
      <4> HIDE DEF f
      <4>2. QED  BY <2>1, <3>1, <4>1, Uint32Read
    <3>2. CASE kind = "bool" /\ v \in BOOLEAN /\ put = PutBool(v)
      <4>1. f = Bool(r.rem)  BY <3>2
      <4> HIDE DEF f
      <4>2. QED  BY <2>1, <3>2, <4>1, BoolRead
    <3>3. CASE kind = "string" /\ v \in Seq(Nat) /\ put = PutString(v)
      <4>1. f = String(r.rem)  BY <3>3
      <4> HIDE DEF f
      <4>2. QED  BY <2>1, <3>3, <4>1, StringRead
    <3>4. QED  BY <3>1, <3>2, <3>3
  <2>3. Field(r, kind) = IF f.ok THEN [ok |-> TRUE, vals |-> Append(vals, f.val), rem |-> f.rem]
                                 ELSE Failed
    BY <1>2, <2>1 DEF Field
  <2> HIDE DEF f
  <2>4. CASE ~f.ok  BY <2>3, <2>4 DEF ReadSoFar, Failed
  <2>5. CASE f.ok
    <3>1. PICK q \in Cut(b) : f = [ok |-> TRUE, val |-> v, rem |-> q]  BY <2>2, <2>5
    <3>2. Field(r, kind) = [ok |-> TRUE, vals |-> Append(vals, v), rem |-> q]
      BY <2>3, <3>1
    <3>3. QED  BY <3>2 DEF ReadSoFar
  <2>6. QED  BY <2>4, <2>5
<1>3. QED  BY <1>1, <1>2

LEMMA FieldsOfFour ==
  ASSUME NEW a, NEW b, NEW c, NEW d, NEW in \in Seq(Nat)
  PROVE  Fields(<<a, b, c, d>>, in) =
           Field(Field(Field(Field([ok |-> TRUE, vals |-> <<>>, rem |-> in], a), b), c), d)
<1> DEFINE kinds == <<a, b, c, d>>
           S == {a, b, c, d}
           r == [ok |-> TRUE, vals |-> <<>>, rem |-> in]
<1>1. kinds \in Seq(S)  OBVIOUS
<1>2. Len(kinds) = 4 /\ kinds[1] = a /\ kinds[2] = b /\ kinds[3] = c /\ kinds[4] = d  OBVIOUS
<1> HIDE DEF kinds, r, S
<1>3. PICK st \in [0..Len(kinds) -> Results] :
        /\ st[0] = [ok |-> TRUE, vals |-> <<>>, rem |-> in]
        /\ \A k \in 1..Len(kinds) : st[k] = Field(st[k - 1], kinds[k])
        /\ Fields(kinds, in) = st[Len(kinds)]
  BY <1>1, FieldsRun
<1>4. st[0] = r /\ Fields(kinds, in) = st[4]  BY <1>2, <1>3 DEF r
<1>5. \A k \in 1..4 : st[k] = Field(st[k - 1], kinds[k])  BY <1>2, <1>3
<1>6. st[1] = Field(st[0], a) /\ st[2] = Field(st[1], b) /\ st[3] = Field(st[2], c)
      /\ st[4] = Field(st[3], d)
  <2>1. 1 \in 1..4 /\ 2 \in 1..4 /\ 3 \in 1..4 /\ 4 \in 1..4 /\ 1 - 1 = 0 /\ 2 - 1 = 1
        /\ 3 - 1 = 2 /\ 4 - 1 = 3
    OBVIOUS
  <2>2. st[1] = Field(st[1 - 1], kinds[1]) /\ st[2] = Field(st[2 - 1], kinds[2])
        /\ st[3] = Field(st[3 - 1], kinds[3]) /\ st[4] = Field(st[4 - 1], kinds[4])
    BY <1>5, <2>1
  <2>3. QED  BY <1>2, <2>1, <2>2
<1>7. QED  BY <1>4, <1>6 DEF kinds, r

LEMMA ConcatFour ==
  ASSUME NEW S, NEW a \in Seq(S), NEW b \in Seq(S), NEW c \in Seq(S), NEW d \in Seq(S)
  PROVE  /\ Cat(Cat(Cat(a, b), c), d) = Cat(a, Cat(b, Cat(c, d)))
         /\ Cat(a, Cat(b, Cat(c, d))) \in Seq(S)
  BY CatAssociative

LEMMA ConcatFive ==
  ASSUME NEW S, NEW a \in Seq(S), NEW b \in Seq(S), NEW c \in Seq(S), NEW d \in Seq(S),
         NEW e \in Seq(S)
  PROVE  /\ Cat(Cat(Cat(Cat(a, b), c), d), e) = Cat(a, Cat(b, Cat(c, Cat(d, e))))
         /\ Cat(Cat(Cat(a, b), c), d) \in Seq(S)
<1> DEFINE ab == Cat(a, b)
           de == Cat(d, e)
<1>1. ab \in Seq(S) /\ de \in Seq(S)  BY CatAssociative
<1> HIDE DEF ab, de
<1>2. Cat(ab, c) \in Seq(S) /\ Cat(Cat(ab, c), d) \in Seq(S)  BY <1>1, CatAssociative
<1>3. Cat(Cat(Cat(ab, c), d), e) = Cat(Cat(ab, c), de)  BY <1>1, <1>2, CatAssociative DEF de
<1>4. Cat(Cat(ab, c), de) = Cat(ab, Cat(c, de))  BY <1>1, CatAssociative
<1>5. Cat(c, de) \in Seq(S)  BY <1>1, CatAssociative
<1>6. Cat(ab, Cat(c, de)) = Cat(a, Cat(b, Cat(c, de)))  BY <1>5, CatAssociative DEF ab
<1>7. Cat(Cat(Cat(ab, c), d), e) = Cat(a, Cat(b, Cat(c, de)))  BY <1>3, <1>4, <1>6
<1>8. QED  BY <1>2, <1>7 DEF ab, de

LEMMA FourAppended ==
  ASSUME NEW a, NEW b, NEW c, NEW d
  PROVE  /\ Append(<<>>, a) = <<a>>
         /\ Append(Append(Append(<<a>>, b), c), d) = <<a, b, c, d>>
<1> DEFINE S == {a, b, c, d}
           s == Append(Append(Append(<<a>>, b), c), d)
           t == <<a, b, c, d>>
<1>1. a \in S /\ b \in S /\ c \in S /\ d \in S  OBVIOUS
<1>2. Append(<<>>, a) = <<a>>  OBVIOUS
<1> HIDE DEF S
<1>3. <<a>> \in Seq(S) /\ Len(<<a>>) = 1 /\ <<a>>[1] = a  BY <1>1
<1>4. t \in Seq(S) /\ Len(t) = 4 /\ t[1] = a /\ t[2] = b /\ t[3] = c /\ t[4] = d  BY <1>1
<1>5. s \in Seq(S) /\ Len(s) = 4  BY <1>1, <1>3
<1>6. s[1] = a /\ s[2] = b /\ s[3] = c /\ s[4] = d  BY <1>1, <1>3
<1> HIDE DEF s, t
<1>7. s = t  BY <1>4, <1>5, <1>6
<1>8. QED  BY <1>2, <1>7 DEF s, t

LEMMA FlattenFour ==
  ASSUME NEW A, NEW a \in Seq(A), NEW b \in Seq(A), NEW c \in Seq(A), NEW d \in Seq(A)
  PROVE  FlattenSeq(<<a, b, c, d>>) = Cat(Cat(Cat(a, b), c), d)
<1> DEFINE s1 == <<a>>
           s2 == Append(s1, b)
           s3 == Append(s2, c)
<1>1. FlattenSeq(<<>>) = <<>> /\ <<>> \in Seq(Seq(A))  BY DEF FlattenSeq
<1>2. FlattenSeq(Append(<<>>, a)) = <<>> \o a  BY <1>1, FlattenAppend
<1>3. Append(<<>>, a) = s1 /\ <<>> \o a = a  OBVIOUS
<1>4. s1 \in Seq(Seq(A)) /\ s2 \in Seq(Seq(A)) /\ s3 \in Seq(Seq(A))  OBVIOUS
<1>5. FlattenSeq(s2) = FlattenSeq(s1) \o b  BY <1>4, FlattenAppend
<1>6. FlattenSeq(s3) = FlattenSeq(s2) \o c  BY <1>4, FlattenAppend
<1>7. FlattenSeq(Append(s3, d)) = FlattenSeq(s3) \o d  BY <1>4, FlattenAppend
<1>8. Append(s3, d) = <<a, b, c, d>>  BY FourAppended
<1>9. QED  BY <1>2, <1>3, <1>5, <1>6, <1>7, <1>8 DEF Cat

LEMMA WindowPut ==
  ASSUME NEW w \in [1..4 -> Nat], NEW b \in Seq(Nat)
  PROVE  /\ PutWindow(w) \in Seq(Nat)
         /\ Cat(PutWindow(w), b) =
              Cat(PutUint32(w[1]), Cat(PutUint32(w[2]), Cat(PutUint32(w[3]), Cat(PutUint32(w[4]), b))))
<1> DEFINE a == PutUint32(w[1])
           c == PutUint32(w[2])
           d == PutUint32(w[3])
           e == PutUint32(w[4])
<1>1. a \in Seq(Nat) /\ c \in Seq(Nat) /\ d \in Seq(Nat) /\ e \in Seq(Nat)  BY PutUint32Typed
<1>2. [i \in 1..4 |-> PutUint32(w[i])] = <<a, c, d, e>>  OBVIOUS
<1>3. PutWindow(w) = FlattenSeq(<<a, c, d, e>>)  BY <1>2 DEF PutWindow
<1> HIDE DEF a, c, d, e
<1>4. PutWindow(w) = Cat(Cat(Cat(a, c), d), e)
  <2>1. FlattenSeq(<<a, c, d, e>>) = Cat(Cat(Cat(a, c), d), e)  BY <1>1, FlattenFour
  <2>2. QED  BY <1>3, <2>1
<1>5. QED  BY <1>1, <1>4, ConcatFive DEF a, c, d, e

LEMMA OthersPut ==
  /\ \A s \in Seq(Nat) : PutString(s) \in Seq(Nat)
  /\ \A v \in BOOLEAN : PutBool(v) \in Seq(Nat)
<1>1. ASSUME NEW s \in Seq(Nat) PROVE PutString(s) \in Seq(Nat)
  <2>1. PutUint32(Len(s)) \in Seq(Nat)  BY PutUint32Typed
  <2>2. QED  BY <2>1 DEF PutString
<1>2. \A v \in BOOLEAN : PutBool(v) \in Seq(Nat)  BY DEF PutBool
<1>3. QED  BY <1>1, <1>2

(* Four numbers are a window. *)
LEMMA FourRead ==
  ASSUME NEW w \in [1..4 -> Nat], NEW b \in Seq(Nat), NEW r, NEW v,
         ReadSoFar(r, v, Cat(PutWindow(w), b))
  PROVE  ReadSoFar(Field(Field(Field(Field(r, "uint32"), "uint32"), "uint32"), "uint32"),
                   Append(Append(Append(Append(v, w[1]), w[2]), w[3]), w[4]), b)
<1> DEFINE p(i) == PutUint32(w[i])
           b4 == Cat(p(4), b)
           b3 == Cat(p(3), b4)
           b2 == Cat(p(2), b3)
           r1 == Field(r, "uint32")
           r2 == Field(r1, "uint32")
           r3 == Field(r2, "uint32")
           v1 == Append(v, w[1])
           v2 == Append(v1, w[2])
           v3 == Append(v2, w[3])
<1>1. w[1] \in Nat /\ w[2] \in Nat /\ w[3] \in Nat /\ w[4] \in Nat  OBVIOUS
<1>2. p(1) \in Seq(Nat) /\ p(2) \in Seq(Nat) /\ p(3) \in Seq(Nat) /\ p(4) \in Seq(Nat)
  BY <1>1, PutUint32Typed
<1> HIDE DEF p
<1>3. b4 \in Seq(Nat) /\ b3 \in Seq(Nat) /\ b2 \in Seq(Nat)  BY <1>2, CatAssociative
<1>4. ReadSoFar(r, v, Cat(p(1), b2))  BY WindowPut DEF p
<1> HIDE DEF b4, b3, b2
<1>5. ReadSoFar(r1, v1, b2)  BY <1>1, <1>3, <1>4, FieldRead DEF p
<1> HIDE DEF r1, v1
<1>6. ReadSoFar(r2, v2, b3)  BY <1>1, <1>3, <1>5, FieldRead DEF p, b2
<1> HIDE DEF r2, v2
<1>7. ReadSoFar(r3, v3, b4)  BY <1>1, <1>3, <1>6, FieldRead DEF p, b3
<1> HIDE DEF r3, v3
<1>8. ReadSoFar(Field(r3, "uint32"), Append(v3, w[4]), b)
  BY <1>1, <1>3, <1>7, FieldRead DEF p, b4
<1>9. QED  BY <1>8 DEF r3, r2, r1, v3, v2, v1

LEMMA StartRead ==
  ASSUME NEW b \in Seq(Nat), NEW in \in Cut(b)
  PROVE  /\ in \in Seq(Nat)
         /\ ReadSoFar([ok |-> TRUE, vals |-> <<>>, rem |-> in], <<>>, b)
<1>1. PICK n \in 0..Len(b) : in = SubSeq(b, 1, n)  BY DEF Cut
<1>2. in \in Seq(Nat)  BY <1>1
<1>3. QED  BY <1>2 DEF ReadSoFar

LEMMA WindowRead ==
  ASSUME NEW w \in [1..4 -> Nat], NEW in \in Cut(PutWindow(w)), parseWindow(in).ok
  PROVE  parseWindow(in).val = w
<1> DEFINE f == Fields(WindowFields, in)
           r == [ok |-> TRUE, vals |-> <<>>, rem |-> in]
<1>1. <<>> \in Seq(Nat) /\ PutWindow(w) \in Seq(Nat)
  <2>1. <<>> \in Seq(Nat)  OBVIOUS
  <2>2. QED  BY <2>1, WindowPut
<1>2. Cat(PutWindow(w), <<>>) = PutWindow(w)  BY <1>1, ConcatEmptySeq DEF Cat
<1>3. in \in Seq(Nat) /\ ReadSoFar(r, <<>>, PutWindow(w))  BY <1>1, StartRead
<1>4. f = Field(Field(Field(Field(r, "uint32"), "uint32"), "uint32"), "uint32")
  BY <1>3, FieldsOfFour DEF WindowFields
<1> HIDE DEF f, r
<1>5. ReadSoFar(f, Append(Append(Append(Append(<<>>, w[1]), w[2]), w[3]), w[4]), <<>>)
  BY <1>1, <1>2, <1>3, <1>4, FourRead
<1>6. Append(Append(Append(Append(<<>>, w[1]), w[2]), w[3]), w[4]) = w
  <2>1. Append(Append(Append(Append(<<>>, w[1]), w[2]), w[3]), w[4]) = <<w[1], w[2], w[3], w[4]>>
    BY FourAppended
  <2>2. <<w[1], w[2], w[3], w[4]>> = w  OBVIOUS
  <2>3. QED  BY <2>1, <2>2
<1>7. f.ok  BY DEF parseWindow, Failed, f
<1>8. f.vals = w  BY <1>5, <1>6, <1>7 DEF ReadSoFar
<1>9. QED  BY <1>7, <1>8 DEF parseWindow, f

LEMMA X11Read ==
  ASSUME NEW x \in [single : BOOLEAN, protocol : Seq(Nat), data : Seq(Nat), screen : Nat],
         NEW in \in Cut(PutX11(x)), parseX11Request(in).ok
  PROVE  parseX11Request(in).val = x
<1> DEFINE kinds == <<"bool", "string", "string", "uint32">>
           r == [ok |-> TRUE, vals |-> <<>>, rem |-> in]
           f == Fields(kinds, in)
           a == PutBool(x.single)
           b == PutString(x.protocol)
           c == PutString(x.data)
           d == PutUint32(x.screen)
<1>1. x.single \in BOOLEAN /\ x.protocol \in Seq(Nat) /\ x.data \in Seq(Nat) /\ x.screen \in Nat
  OBVIOUS
<1>2. a \in Seq(Nat) /\ b \in Seq(Nat) /\ c \in Seq(Nat) /\ d \in Seq(Nat) /\ <<>> \in Seq(Nat)
  <2>1. a \in Seq(Nat) /\ b \in Seq(Nat) /\ c \in Seq(Nat)  BY <1>1, OthersPut
  <2>2. d \in Seq(Nat)  BY <1>1, PutUint32Typed
  <2> HIDE DEF a, b, c, d
  <2>3. QED  BY <2>1, <2>2
<1>3. PutX11(x) = Cat(Cat(Cat(a, b), c), d)  BY DEF PutX11, Cat
<1> HIDE DEF a, b, c, d
<1>4. Cat(c, d) \in Seq(Nat) /\ Cat(b, Cat(c, d)) \in Seq(Nat) /\ Cat(d, <<>>) = d
  <2>1. Cat(c, d) \in Seq(Nat)  BY <1>2, CatAssociative
  <2>2. Cat(b, Cat(c, d)) \in Seq(Nat)  BY <1>2, <2>1, CatAssociative
  <2>3. Cat(d, <<>>) = d  BY <1>2, ConcatEmptySeq DEF Cat
  <2>4. QED  BY <2>1, <2>2, <2>3
<1>5. PutX11(x) = Cat(a, Cat(b, Cat(c, d))) /\ PutX11(x) \in Seq(Nat)
  BY <1>2, <1>3, ConcatFour
<1>6. in \in Seq(Nat) /\ ReadSoFar(r, <<>>, Cat(a, Cat(b, Cat(c, d))))  BY <1>5, StartRead
<1>7. f = Field(Field(Field(Field(r, "bool"), "string"), "string"), "uint32")
  BY <1>6, FieldsOfFour
<1> HIDE DEF f, r
<1> DEFINE r1 == Field(r, "bool")
           r2 == Field(r1, "string")
           r3 == Field(r2, "string")
           v1 == Append(<<>>, x.single)
           v2 == Append(v1, x.protocol)
           v3 == Append(v2, x.data)
<1>8. ReadSoFar(r1, v1, Cat(b, Cat(c, d)))  BY <1>1, <1>4, <1>6, FieldRead DEF a
<1> HIDE DEF r1, v1
<1>9. ReadSoFar(r2, v2, Cat(c, d))  BY <1>1, <1>4, <1>8, FieldRead DEF b
<1> HIDE DEF r2, v2
<1>10. ReadSoFar(r3, v3, Cat(d, <<>>))  BY <1>1, <1>2, <1>4, <1>9, FieldRead DEF c
<1> HIDE DEF r3, v3
<1>11. ReadSoFar(Field(r3, "uint32"), Append(v3, x.screen), <<>>)
  BY <1>1, <1>2, <1>10, FieldRead DEF d
<1>12. f = Field(r3, "uint32")  BY <1>7 DEF r3, r2, r1
<1>13. Append(v3, x.screen) = <<x.single, x.protocol, x.data, x.screen>>
  BY FourAppended DEF v3, v2, v1
<1>14. f.ok  BY DEF parseX11Request, Failed, f
<1>15. f.vals = <<x.single, x.protocol, x.data, x.screen>>
  BY <1>11, <1>12, <1>13, <1>14 DEF ReadSoFar
<1>16. parseX11Request(in).val = [single |-> f.vals[1], protocol |-> f.vals[2],
                                  data |-> f.vals[3], screen |-> f.vals[4]]
  BY <1>14 DEF parseX11Request, f
<1>17. QED  BY <1>15, <1>16

-----------------------------------------------------------------------------
(* Terminal modes.                                                         *)
(* One round of the loop of parseTerminalModes at position i, given the    *)
(* result of the rounds after it.                                          *)
ModeAt(in, i, rest) ==
  IF i > Len(in) \/ in[i] = 0 \/ in[i] > 160 THEN [ok |-> TRUE, val |-> <<>>]
  ELSE LET arg == Uint32(SubSeq(in, i + 1, Len(in)))
           Value(op) == IF op \in DOMAIN rest.val THEN rest.val[op] ELSE arg.val
       IN IF arg.ok /\ rest.ok
          THEN [ok |-> TRUE, val |-> [op \in DOMAIN rest.val \cup {in[i]} |-> Value(op)]]
          ELSE Failed

LEMMA ModesExist ==
  ASSUME NEW in \in Seq(Nat)
  PROVE  \E f : f = [i \in Nat |-> ModeAt(in, i, f[i + 5])]
<1> DEFINE L == Len(in)
           Is(f, m) == /\ f = [i \in Nat |-> f[i]]
                       /\ \A i \in Nat : i + m > L => f[i] = ModeAt(in, i, f[i + 5])
           T == {m \in Nat : \E f : Is(f, m)}
<1>1. L \in Nat  OBVIOUS
<1>2. 0 \in T
  <2> DEFINE f == [i \in Nat |-> [ok |-> TRUE, val |-> <<>>]]
  <2>1. ASSUME NEW i \in Nat, i + 0 > L PROVE f[i] = ModeAt(in, i, f[i + 5])
    BY <2>1 DEF ModeAt
  <2>2. Is(f, 0)  BY <2>1
  <2>3. QED  BY <2>2
<1> HIDE DEF L
<1>3. ASSUME NEW m \in Nat, m \in T PROVE m + 1 \in T
  <2>1. PICK g : Is(g, m)  BY <1>3
  <2> DEFINE f == [i \in Nat |-> IF i + m > L THEN g[i] ELSE ModeAt(in, i, g[i + 5])]
  <2>2. ASSUME NEW i \in Nat, i + (m + 1) > L PROVE f[i] = ModeAt(in, i, f[i + 5])
    <3>1. i + 5 \in Nat /\ (i + 5) + m > L  BY <1>1, <2>2
    <3>2. f[i + 5] = g[i + 5]  BY <3>1
    <3>3. f[i] = ModeAt(in, i, g[i + 5])  BY <2>1
    <3>4. QED  BY <3>2, <3>3
  <2>3. f = [i \in Nat |-> f[i]]  OBVIOUS
  <2> HIDE DEF f
  <2>4. Is(f, m + 1)  BY <2>2, <2>3
  <2> HIDE DEF Is
  <2>5. QED  BY <2>4
<1> HIDE DEF T
<1>4. \A m \in Nat : m \in T  BY <1>2, <1>3, Induction
<1>5. L + 1 \in T  BY <1>1, <1>4
<1>6. PICK f : Is(f, L + 1)  BY <1>5 DEF T
<1>7. ASSUME NEW i \in Nat PROVE f[i] = ModeAt(in, i, f[i + 5])
  <2>1. i + (L + 1) > L  BY <1>1
  <2>2. QED  BY <1>6, <2>1
<1>8. f = [i \in Nat |-> ModeAt(in, i, f[i + 5])]  BY <1>6, <1>7
<1>9. QED  BY <1>8

LEMMA ModesFrom ==
  ASSUME NEW in \in Seq(Nat), ~(Len(in) < 4)
  PROVE  \E f : /\ \A i \in Nat : f[i] = ModeAt(in, i, f[i + 5])
                /\ parseTerminalModes(in) = f[5]
<1> DEFINE Is(f) == f = [i \in Nat |->
             IF i > Len(in) \/ in[i] = 0 \/ in[i] > 160 THEN [ok |-> TRUE, val |-> <<>>]
             ELSE LET arg == Uint32(SubSeq(in, i + 1, Len(in)))
                      rest == f[i + 5]
                      Value(op) == IF op \in DOMAIN rest.val THEN rest.val[op] ELSE arg.val
                  IN IF arg.ok /\ rest.ok
                     THEN [ok |-> TRUE, val |-> [op \in DOMAIN rest.val \cup {in[i]} |-> Value(op)]]
                     ELSE Failed]
           from == CHOOSE f : Is(f)
<1>1. parseTerminalModes(in) = from[5]  BY DEF parseTerminalModes
<1>2. \A f : Is(f) <=> f = [i \in Nat |-> ModeAt(in, i, f[i + 5])]  BY DEF ModeAt
<1>3. \E f : Is(f)
  <2>1. PICK f : f = [i \in Nat |-> ModeAt(in, i, f[i + 5])]  BY ModesExist
  <2>2. Is(f)  BY <1>2, <2>1
  <2> HIDE DEF Is
  <2>3. QED  BY <2>2
<1>4. Is(from)  BY <1>3
<1> HIDE DEF from
<1>5. from = [i \in Nat |-> ModeAt(in, i, from[i + 5])]  BY <1>2, <1>4
<1>6. \A i \in Nat : from[i] = ModeAt(in, i, from[i + 5])
  <2> DEFINE g == [i \in Nat |-> ModeAt(in, i, from[i + 5])]
  <2>1. \A i \in Nat : g[i] = ModeAt(in, i, from[i + 5])  OBVIOUS
  <2>2. g = from  BY <1>5
  <2> HIDE DEF g
  <2>3. QED  BY <2>1, <2>2
<1>7. QED  BY <1>1, <1>6

(* Sequences of five, one after the other. *)
LEMMA FlattenFives ==
  ASSUME NEW A, NEW units \in Seq(Seq(A)), \A k \in 1..Len(units) : Len(units[k]) = 5
  PROVE  /\ FlattenSeq(units) \in Seq(A) /\ Len(FlattenSeq(units)) = 5 * Len(units)
         /\ \A k \in 1..Len(units) : \A j \in 1..5 : FlattenSeq(units)[5 * k - 5 + j] = units[k][j]
<1> DEFINE n == Len(units)
<1>1. n \in Nat /\ \A k \in 1..n : units[k] \in Seq(A)  OBVIOUS
<1>2. PICK st \in [0..n -> Seq(A)] :
        /\ st[0] = <<>> /\ \A k \in 1..n : st[k] = st[k - 1] \o units[k]
        /\ FlattenSeq(units) = st[n]
  BY FlattenRun
<1> HIDE DEF n
<1> DEFINE Is(k) == /\ Len(st[k]) = 5 * k
                    /\ \A l \in 1..k : \A j \in 1..5 : st[k][5 * l - 5 + j] = units[l][j]
           T == {k \in Nat : k <= n => Is(k)}
<1>3. 0 \in T  BY <1>2
<1>4. ASSUME NEW k \in Nat, k \in T PROVE k + 1 \in T
  <2> SUFFICES ASSUME k + 1 <= n PROVE Is(k + 1)  OBVIOUS
  <2>1. k \in 0..n /\ k + 1 \in 1..n /\ (k + 1) - 1 = k  BY <1>1
  <2>2. Is(k) /\ st[k] \in Seq(A)  BY <1>1, <1>2, <1>4, <2>1
  <2> DEFINE s == st[k]
             u == units[k + 1]
  <2>3. u \in Seq(A) /\ Len(u) = 5  BY <1>1, <2>1 DEF n
  <2>4. st[k + 1] = s \o u  BY <1>2, <2>1
  <2>5. s \in Seq(A) /\ Len(s) = 5 * k
        /\ \A l \in 1..k : \A j \in 1..5 : s[5 * l - 5 + j] = units[l][j]
    BY <2>2
  <2> HIDE DEF s
  <2>6. Len(s \o u) = 5 * k + 5
        /\ \A i \in 1..(5 * k + 5) : (s \o u)[i] = IF i <= 5 * k THEN s[i] ELSE u[i - 5 * k]
    <3>1. Len(s \o u) = Len(s) + Len(u)
          /\ \A i \in 1..(Len(s) + Len(u)) : (s \o u)[i] = IF i <= Len(s) THEN s[i] ELSE u[i - Len(s)]
      BY <2>3, <2>5, ConcatProperties
    <3>2. Len(s) = 5 * k /\ Len(u) = 5  BY <2>3, <2>5
    <3>3. QED  BY <3>1, <3>2
  <2>7. ASSUME NEW l \in 1..(k + 1), NEW j \in 1..5
        PROVE  (s \o u)[5 * l - 5 + j] = units[l][j]
    <3>1. CASE l = k + 1
      <4>1. 5 * l - 5 + j \in 1..(5 * k + 5) /\ ~(5 * l - 5 + j <= 5 * k)
            /\ (5 * l - 5 + j) - 5 * k = j
        BY <3>1
      <4>2. QED  BY <2>6, <3>1, <4>1
    <3>2. CASE l # k + 1
      <4>1. l \in 1..k /\ 5 * l - 5 + j \in 1..(5 * k + 5) /\ 5 * l - 5 + j <= 5 * k  BY <3>2
      <4>2. QED  BY <2>5, <2>6, <4>1
    <3>3. QED  BY <3>1, <3>2
  <2>8. Len(st[k + 1]) = 5 * (k + 1)  BY <2>4, <2>6
  <2>9. QED  BY <2>4, <2>7, <2>8
<1> HIDE DEF T
<1>5. n \in T  BY <1>1, <1>3, <1>4, Induction
<1>6. Is(n)  BY <1>1, <1>5 DEF T
<1>7. st[n] \in Seq(A)  BY <1>1, <1>2
<1>8. QED  BY <1>2, <1>6, <1>7 DEF n

Modes == Seq((1..160) \X Nat)

LEMMA ConcatAt ==
  ASSUME NEW A, NEW s \in Seq(A), NEW t \in Seq(A)
  PROVE  /\ Cat(s, t) \in Seq(A) /\ Len(Cat(s, t)) = Len(s) + Len(t)
         /\ Len(s) \in Nat /\ Len(t) \in Nat
         /\ \A i \in 1..Len(s) : Cat(s, t)[i] = s[i]
         /\ \A j \in 1..Len(t) : Cat(s, t)[Len(s) + j] = t[j]
<1>1. /\ s \o t \in Seq(A) /\ Len(s \o t) = Len(s) + Len(t)
      /\ \A i \in 1..(Len(s) + Len(t)) : (s \o t)[i] = IF i <= Len(s) THEN s[i] ELSE t[i - Len(s)]
  BY ConcatProperties
<1>2. Len(s) \in Nat /\ Len(t) \in Nat  OBVIOUS
<1>3. ASSUME NEW i \in 1..Len(s) PROVE (s \o t)[i] = s[i]
  <2>1. i \in 1..(Len(s) + Len(t)) /\ i <= Len(s)  BY <1>2
  <2>2. QED  BY <1>1, <2>1
<1>4. ASSUME NEW j \in 1..Len(t) PROVE (s \o t)[Len(s) + j] = t[j]
  <2>1. Len(s) + j \in 1..(Len(s) + Len(t)) /\ ~(Len(s) + j <= Len(s)) /\ (Len(s) + j) - Len(s) = j
    BY <1>2
  <2>2. QED  BY <1>1, <2>1
<1>5. QED  BY <1>1, <1>2, <1>3, <1>4 DEF Cat

(* The bytes of a client's modes after their length. *)
ModesBytes(modes) ==
  Append(FlattenSeq([i \in DOMAIN modes |-> <<modes[i][1]>> \o PutUint32(modes[i][2])]), 0)

LEMMA BytesOfModes ==
  ASSUME NEW modes \in Modes
  PROVE  /\ ModesBytes(modes) \in Seq(Nat) /\ Len(ModesBytes(modes)) = 5 * Len(modes) + 1
         /\ ModesBytes(modes)[5 * Len(modes) + 1] = 0
         /\ \A k \in 1..Len(modes) :
              /\ ModesBytes(modes)[5 * k - 4] = modes[k][1]
              /\ \A j \in 1..4 : ModesBytes(modes)[5 * k - 4 + j] = PutUint32(modes[k][2])[j]
<1> DEFINE n == Len(modes)
           units == [i \in DOMAIN modes |-> <<modes[i][1]>> \o PutUint32(modes[i][2])]
           flat == FlattenSeq(units)
<1>1. n \in Nat /\ DOMAIN modes = 1..n
      /\ \A k \in 1..n : modes[k][1] \in 1..160 /\ modes[k][2] \in Nat
  BY DEF Modes
<1>2. ASSUME NEW k \in 1..n
      PROVE  /\ units[k] \in Seq(Nat) /\ Len(units[k]) = 5 /\ units[k][1] = modes[k][1]
             /\ \A j \in 1..4 : units[k][1 + j] = PutUint32(modes[k][2])[j]
  <2> DEFINE x == modes[k][1]
             p == PutUint32(modes[k][2])
             o == <<x>>
  <2>1. p \in Seq(Nat) /\ Len(p) = 4  BY <1>1, PutUint32Typed
  <2>2. units[k] = Cat(o, p)  BY <1>1 DEF Cat
  <2>3. x \in 1..160  BY <1>1
  <2> HIDE DEF p, x, units
  <2>4. x \in Nat  BY <2>3
  <2>5. o \in Seq(Nat) /\ Len(o) = 1 /\ o[1] = x  BY <2>4
  <2> HIDE DEF o
  <2>6. /\ Cat(o, p) \in Seq(Nat) /\ Len(Cat(o, p)) = Len(o) + Len(p)
        /\ \A i \in 1..Len(o) : Cat(o, p)[i] = o[i]
        /\ \A j \in 1..Len(p) : Cat(o, p)[Len(o) + j] = p[j]
    <3>1. o \in Seq(Nat) /\ p \in Seq(Nat)  BY <2>1, <2>5
    <3>2. Cat(o, p) \in Seq(Nat) /\ Len(Cat(o, p)) = Len(o) + Len(p)  BY <3>1, ConcatAt
    <3>3. \A i \in 1..Len(o) : Cat(o, p)[i] = o[i]  BY <3>1, ConcatAt
    <3>4. \A j \in 1..Len(p) : Cat(o, p)[Len(o) + j] = p[j]  BY <3>1, ConcatAt
    <3>5. QED  BY <3>2, <3>3, <3>4
  <2>7. Cat(o, p)[1] = x /\ Len(Cat(o, p)) = 5 /\ \A j \in 1..4 : Cat(o, p)[1 + j] = p[j]
    BY <2>1, <2>5, <2>6
  <2>8. QED  BY <2>2, <2>6, <2>7 DEF p, x
<1> HIDE DEF n
<1>3. units \in Seq(Seq(Nat)) /\ Len(units) = n
  <2>1. units = [i \in 1..n |-> <<modes[i][1]>> \o PutUint32(modes[i][2])]  BY <1>1
  <2>2. \A k \in 1..n : units[k] \in Seq(Nat)  BY <1>2
  <2>3. DOMAIN units = 1..n  BY <2>1
  <2> HIDE DEF units
  <2>4. units \in [1..n -> Seq(Nat)]  BY <2>1, <2>2, <2>3
  <2>5. QED  BY <1>1, <2>4, LenProperties
<1> HIDE DEF units
<1>4. /\ flat \in Seq(Nat) /\ Len(flat) = 5 * n
      /\ \A k \in 1..n : \A j \in 1..5 : flat[5 * k - 5 + j] = units[k][j]
  <2>1. \A k \in 1..Len(units) : Len(units[k]) = 5  BY <1>2, <1>3
  <2>2. QED  BY <1>3, <2>1, FlattenFives
<1>5. ModesBytes(modes) = Append(flat, 0)  BY DEF ModesBytes, units
<1> HIDE DEF flat
<1>6. Append(flat, 0) \in Seq(Nat) /\ Len(Append(flat, 0)) = 5 * n + 1
      /\ Append(flat, 0)[5 * n + 1] = 0 /\ \A i \in 1..(5 * n) : Append(flat, 0)[i] = flat[i]
  <2>1. <<0>> \in Seq(Nat) /\ Len(<<0>>) = 1 /\ <<0>>[1] = 0  OBVIOUS
  <2>2. Append(flat, 0) = flat \o <<0>>  BY <1>4
  <2> DEFINE z == <<0>>
  <2> HIDE DEF z
  <2>3. /\ Cat(flat, z) \in Seq(Nat) /\ Len(Cat(flat, z)) = Len(flat) + Len(z)
        /\ \A i \in 1..Len(flat) : Cat(flat, z)[i] = flat[i]
        /\ \A j \in 1..Len(z) : Cat(flat, z)[Len(flat) + j] = z[j]
    <3>1. z \in Seq(Nat) /\ flat \in Seq(Nat)  BY <1>4, <2>1 DEF z
    <3>2. Cat(flat, z) \in Seq(Nat) /\ Len(Cat(flat, z)) = Len(flat) + Len(z)
      BY <3>1, ConcatAt
    <3>3. \A i \in 1..Len(flat) : Cat(flat, z)[i] = flat[i]  BY <3>1, ConcatAt
    <3>4. \A j \in 1..Len(z) : Cat(flat, z)[Len(flat) + j] = z[j]  BY <3>1, ConcatAt
    <3>5. QED  BY <3>2, <3>3, <3>4
  <2>4. Len(z) = 1 /\ z[1] = 0  BY <2>1 DEF z
  <2>5. Cat(flat, z)[5 * n + 1] = 0  BY <1>4, <2>3, <2>4
  <2>6. Append(flat, 0) = Cat(flat, z)  BY <2>2 DEF z, Cat
  <2>7. QED  BY <1>4, <2>3, <2>4, <2>5, <2>6
<1>7. ASSUME NEW k \in 1..n
      PROVE  /\ Append(flat, 0)[5 * k - 4] = modes[k][1]
             /\ \A j \in 1..4 : Append(flat, 0)[5 * k - 4 + j] = PutUint32(modes[k][2])[j]
  <2>1. 5 * k - 4 \in 1..(5 * n) /\ 5 * k - 5 + 1 = 5 * k - 4 /\ 1 \in 1..5  BY <1>1
  <2>2. flat[5 * k - 4] = modes[k][1]  BY <1>2, <1>4, <2>1
  <2>3. ASSUME NEW j \in 1..4
        PROVE  Append(flat, 0)[5 * k - 4 + j] = PutUint32(modes[k][2])[j]
    <3>1. 1 + j \in 1..5 /\ 5 * k - 4 + j \in 1..(5 * n) /\ 5 * k - 5 + (1 + j) = 5 * k - 4 + j
      BY <1>1
    <3>2. flat[5 * k - 4 + j] = units[k][1 + j]  BY <1>4, <3>1
    <3>3. QED  BY <1>2, <1>6, <3>1, <3>2
  <2>4. QED  BY <1>6, <2>1, <2>2, <2>3
<1>8. QED  BY <1>5, <1>6, <1>7 DEF n

(* What is left of them after a cut: opcodes, arguments that are whole or  *)
(* missing, and the end.                                                   *)
LEMMA BytesLeft ==
  ASSUME NEW modes \in Modes, NEW in \in Cut(PutModes(modes)), ~(Len(in) < 4)
  PROVE  /\ in \in Seq(Nat) /\ Len(in) <= 5 * Len(modes) + 5
         /\ 5 * Len(modes) + 5 <= Len(in) => in[5 * Len(modes) + 5] = 0
         /\ \A k \in 1..Len(modes) :
              /\ 5 * k <= Len(in) => in[5 * k] = modes[k][1]
              /\ LET arg == Uint32(SubSeq(in, 5 * k + 1, Len(in)))
                 IN arg.ok => arg.val = modes[k][2]
<1> DEFINE n == Len(modes)
           q == ModesBytes(modes)
           a == PutUint32(Len(q))
<1>1. n \in Nat /\ \A k \in 1..n : modes[k][2] \in Nat  BY DEF Modes
<1>2. /\ q \in Seq(Nat) /\ Len(q) = 5 * n + 1 /\ q[5 * n + 1] = 0
      /\ \A k \in 1..n : /\ q[5 * k - 4] = modes[k][1]
                         /\ \A j \in 1..4 : q[5 * k - 4 + j] = PutUint32(modes[k][2])[j]
  BY BytesOfModes
<1>3. PutModes(modes) = Cat(a, q)  BY DEF PutModes, PutString, ModesBytes, Cat
<1> HIDE DEF n, q
<1>4. a \in Seq(Nat) /\ Len(a) = 4  BY <1>1, <1>2, PutUint32Typed
<1> HIDE DEF a
<1>5. PICK r \in Cut(q) : r \in Seq(Nat) /\ in = Cat(a, r)
  <2>1. in \in Cut(a \o q)  BY <1>3 DEF Cat
  <2>2. Len(in) < Len(a) \/ \E r \in Cut(q) : r \in Seq(Nat) /\ in = Cat(a, r)
    BY <1>2, <1>4, <2>1, CutOfConcat DEF Cat
  <2>3. QED  BY <1>4, <2>2
<1>6. Len(r) \in Nat /\ Len(r) <= Len(q) /\ \A i \in 1..Len(r) : r[i] = q[i]
  <2>1. PICK m \in 0..Len(q) : r = SubSeq(q, 1, m)  BY DEF Cut
  <2>2. QED  BY <1>2, <2>1
<1>7. /\ in \in Seq(Nat) /\ Len(in) = 4 + Len(r)
      /\ \A i \in 1..(4 + Len(r)) : i > 4 => in[i] = r[i - 4]
  <2>1. /\ Cat(a, r) \in Seq(Nat) /\ Len(Cat(a, r)) = Len(a) + Len(r)
        /\ \A j \in 1..Len(r) : Cat(a, r)[Len(a) + j] = r[j]
    <3>1. a \in Seq(Nat) /\ r \in Seq(Nat)  BY <1>4, <1>5
    <3>2. Cat(a, r) \in Seq(Nat) /\ Len(Cat(a, r)) = Len(a) + Len(r)  BY <3>1, ConcatAt
    <3>3. \A j \in 1..Len(r) : Cat(a, r)[Len(a) + j] = r[j]  BY <3>1, ConcatAt
    <3>4. QED  BY <3>2, <3>3
  <2>2. ASSUME NEW i \in 1..(4 + Len(r)), i > 4 PROVE in[i] = r[i - 4]
    <3>1. i - 4 \in 1..Len(r) /\ 4 + (i - 4) = i  BY <1>6, <2>2
    <3>2. QED  BY <1>4, <1>5, <2>1, <3>1
  <2>3. QED  BY <1>4, <1>5, <2>1, <2>2
<1>8. ASSUME NEW i \in Nat, 4 < i, i <= Len(in) PROVE in[i] = q[i - 4]
  <2>1. i \in 1..(4 + Len(r)) /\ i - 4 \in 1..Len(r)  BY <1>6, <1>7, <1>8
  <2>2. QED  BY <1>6, <1>7, <1>8, <2>1
<1>9. Len(in) \in Nat /\ Len(in) <= 5 * n + 5  BY <1>1, <1>2, <1>6, <1>7
<1>10. 5 * n + 5 <= Len(in) => in[5 * n + 5] = 0
  <2>1. 5 * n + 5 \in Nat /\ 4 < 5 * n + 5 /\ (5 * n + 5) - 4 = 5 * n + 1  BY <1>1
  <2>2. QED  BY <1>2, <1>8, <2>1
<1>11. ASSUME NEW k \in 1..n
       PROVE  /\ 5 * k <= Len(in) => in[5 * k] = modes[k][1]
              /\ LET arg == Uint32(SubSeq(in, 5 * k + 1, Len(in)))
                 IN arg.ok => arg.val = modes[k][2]
  <2> DEFINE v == modes[k][2]
             s == SubSeq(in, 5 * k + 1, Len(in))
             p == PutUint32(v)
  <2>1. 5 * k <= Len(in) => in[5 * k] = modes[k][1]
    <3>1. 5 * k \in Nat /\ 4 < 5 * k  BY <1>1
    <3>2. QED  BY <1>2, <1>8, <3>1
  <2>2. ((p[1] * 256 + p[2]) * 256 + p[3]) * 256 + p[4] = v  BY <1>1, PutUint32Typed
  <2> HIDE DEF p
  <2>3. ASSUME ~(Len(s) < 4), NEW j \in 1..4 PROVE s[j] = p[j]
    <3>1. k \in Nat /\ k > 0  BY <1>1
    <3>2. \A i \in 5 * k + 1..Len(in) : in[i] \in Nat  BY <1>7, <3>1
    <3>3. /\ Len(s) = IF 5 * k + 1 <= Len(in) THEN Len(in) - (5 * k + 1) + 1 ELSE 0
          /\ \A i \in 1..(Len(in) - (5 * k + 1) + 1) : s[i] = in[5 * k + 1 + i - 1]
      BY <1>9, <3>1, <3>2, SubSeqProperties
    <3> HIDE DEF s
    <3>4. 5 * k + 4 <= Len(in)  BY <1>9, <2>3, <3>1, <3>3
    <3>5. j \in 1..(Len(in) - (5 * k + 1) + 1) /\ 5 * k + 1 + j - 1 = 5 * k + j  BY <1>9, <3>1, <3>4
    <3>6. s[j] = in[5 * k + j]  BY <3>3, <3>5
    <3>7. 5 * k + j \in Nat /\ 4 < 5 * k + j /\ 5 * k + j <= Len(in)
          /\ (5 * k + j) - 4 = 5 * k - 4 + j
      BY <1>9, <3>1, <3>4
    <3>8. in[5 * k + j] = q[5 * k - 4 + j]  BY <1>8, <3>7
    <3>9. QED  BY <1>2, <3>6, <3>8 DEF p
  <2> HIDE DEF s, v
  <2>4. Uint32(s).ok => Uint32(s).val = v
    <3> SUFFICES ASSUME Uint32(s).ok PROVE Uint32(s).val = v  OBVIOUS
    <3>1. ~(Len(s) < 4)  BY DEF Uint32, Failed
    <3>2. s[1] = p[1] /\ s[2] = p[2] /\ s[3] = p[3] /\ s[4] = p[4]  BY <2>3, <3>1
    <3>3. Uint32(s).val = ((s[1] * 256 + s[2]) * 256 + s[3]) * 256 + s[4]  BY <3>1 DEF Uint32
    <3>4. QED  BY <2>2, <3>2, <3>3
  <2>5. QED  BY <2>1, <2>4 DEF s, v
<1>12. QED  BY <1>7, <1>9, <1>10, <1>11 DEF n

(* The values of the modes from the lo-th to the n-th. *)
LastOf(modes, lo, n) ==
  LET Latest(op) == Max({i \in lo..n : modes[i][1] = op})
  IN [op \in {modes[i][1] : i \in lo..n} |-> modes[Latest(op)][2]]

(* The values of later modes with one of an earlier mode. *)
Preceded(rest, code, v) ==
  [op \in DOMAIN rest \cup {code} |-> IF op \in DOMAIN rest THEN rest[op] ELSE v]

LEMMA LastStep ==
  ASSUME NEW modes, NEW n \in Nat, NEW k \in 1..n
  PROVE  Preceded(LastOf(modes, k + 1, n), modes[k][1], modes[k][2]) = LastOf(modes, k, n)
<1> DEFINE rest == LastOf(modes, k + 1, n)
           At(lo, op) == {i \in lo..n : modes[i][1] = op}
           Ops(lo) == {modes[i][1] : i \in lo..n}
<1>1. k..n = {k} \cup (k + 1..n) /\ ~(k \in k + 1..n) /\ k \in Nat  OBVIOUS
<1>2. DOMAIN rest = Ops(k + 1) /\ \A op \in Ops(k + 1) : rest[op] = modes[Max(At(k + 1, op))][2]
  BY DEF LastOf
<1>3. Ops(k) = DOMAIN rest \cup {modes[k][1]}  BY <1>1, <1>2
<1>4. ASSUME NEW op \in Ops(k + 1) PROVE Max(At(k, op)) = Max(At(k + 1, op))
  <2> DEFINE S == At(k + 1, op)
             U == At(k, op)
  <2>1. S # {}  OBVIOUS
  <2>2. S \subseteq 1..n /\ U \subseteq 1..n
    <3>1. \A i \in k + 1..n : i \in 1..n  OBVIOUS
    <3>2. \A i \in k..n : i \in 1..n  OBVIOUS
    <3>3. QED  BY <3>1, <3>2
  <2>3. U \subseteq S \cup {k} /\ S \subseteq U  BY <1>1
  <2>4. \A i \in S : i > k  OBVIOUS
  <2> HIDE DEF S, U
  <2>5. PICK x \in S : \A y \in S : x >= y  BY <2>1, <2>2, GreatestExists
  <2>6. S \subseteq Nat /\ U \subseteq Nat /\ x \in U  BY <2>2, <2>3
  <2>7. ASSUME NEW y \in U PROVE x >= y
    <3>1. y \in S \/ y = k  BY <2>3
    <3>2. x > k /\ x \in Nat /\ k \in Nat  BY <1>1, <2>4, <2>6
    <3>3. y = k => x >= y  BY <3>2
    <3>4. QED  BY <2>5, <3>1, <3>3
  <2>8. Max(S) = x /\ Max(U) = x  BY <2>5, <2>6, <2>7, MaxIs
  <2>9. QED  BY <2>8 DEF S, U
<1>5. ASSUME modes[k][1] \notin Ops(k + 1) PROVE Max(At(k, modes[k][1])) = k
  <2> DEFINE op == modes[k][1]
             U == At(k, op)
  <2>1. U = {k}  BY <1>1, <1>5
  <2>2. QED  BY <1>1, <2>1, MaxIs
<1>6. LastOf(modes, k, n) = [op \in Ops(k) |-> modes[Max(At(k, op))][2]]  BY DEF LastOf
<1>7. ASSUME NEW op \in Ops(k)
      PROVE  modes[Max(At(k, op))][2] = IF op \in DOMAIN rest THEN rest[op] ELSE modes[k][2]
  <2>1. CASE op \in Ops(k + 1)  BY <1>2, <1>4, <2>1
  <2>2. CASE op \notin Ops(k + 1)
    <3>1. op = modes[k][1]  BY <1>2, <1>3, <2>2
    <3>2. QED  BY <1>2, <1>5, <2>2, <3>1
  <2>3. QED  BY <2>1, <2>2
<1> HIDE DEF At, Ops, rest
<1>8. Preceded(rest, modes[k][1], modes[k][2]) = LastOf(modes, k, n)
  BY <1>3, <1>6, <1>7 DEF Preceded
<1>9. QED  BY <1>8 DEF rest

LEMMA LastOfNone ==
  ASSUME NEW modes, NEW k \in Nat
  PROVE  LastOf(modes, k + 1, k) = <<>>
<1>1. k + 1..k = {}  OBVIOUS
<1>2. LastOf(modes, k + 1, k) = [op \in {} |-> modes[Max({i \in {} : modes[i][1] = op})][2]]
  BY <1>1 DEF LastOf
<1>3. QED  BY <1>2

LEMMA ModesRead ==
  ASSUME NEW modes \in Modes, NEW in \in Cut(PutModes(modes)), parseTerminalModes(in).ok
  PROVE  \E n \in 0..Len(modes) : parseTerminalModes(in).val = LastOf(modes, 1, n)
<1> DEFINE N == Len(modes)
<1>1. N \in Nat /\ \A k \in 1..N : modes[k][1] \in 1..160
  <2>1. modes \in Seq((1..160) \X Nat)  BY DEF Modes
  <2>2. ASSUME NEW k \in 1..N PROVE modes[k][1] \in 1..160
    <3>1. modes[k] \in (1..160) \X Nat  BY <2>1
    <3>2. QED  BY <3>1
  <2>3. QED  BY <2>1, <2>2
<1>2. ~(Len(in) < 4)  BY DEF parseTerminalModes, Failed
<1>3. /\ in \in Seq(Nat) /\ Len(in) <= 5 * N + 5
      /\ 5 * N + 5 <= Len(in) => in[5 * N + 5] = 0
      /\ \A k \in 1..N :
           /\ 5 * k <= Len(in) => in[5 * k] = modes[k][1]
           /\ LET arg == Uint32(SubSeq(in, 5 * k + 1, Len(in)))
              IN arg.ok => arg.val = modes[k][2]
  BY <1>2, BytesLeft
<1>4. PICK f : /\ \A i \in Nat : f[i] = ModeAt(in, i, f[i + 5])
               /\ parseTerminalModes(in) = f[5]
  BY <1>2, <1>3, ModesFrom
<1>5. Len(in) \in Nat  BY <1>3
<1> HIDE DEF N
<1> DEFINE P(k) == f[5 * k].ok => \E n \in k - 1..N : f[5 * k].val = LastOf(modes, k, n)
           T == {m \in Nat : m <= N => P(N + 1 - m)}
<1>6. ASSUME NEW i \in Nat, i > Len(in) \/ in[i] = 0
      PROVE  f[i].val = <<>>
  <2>1. f[i] = ModeAt(in, i, f[i + 5])  BY <1>4
  <2> DEFINE rest == f[i + 5]
  <2>2. f[i] = ModeAt(in, i, rest)  BY <2>1
  <2> HIDE DEF rest
  <2>3. ModeAt(in, i, rest) = [ok |-> TRUE, val |-> <<>>]  BY <1>6 DEF ModeAt
  <2>4. QED  BY <2>2, <2>3
<1>7. 0 \in T
  <2>1. 5 * (N + 1) = 5 * N + 5 /\ 5 * N + 5 \in Nat /\ N + 1 - 0 = N + 1
        /\ (N + 1) - 1 = N /\ N \in N..N
    BY <1>1
  <2>2. f[5 * N + 5].val = <<>>  BY <1>3, <1>5, <1>6, <2>1
  <2>3. f[5 * N + 5].val = LastOf(modes, N + 1, N)  BY <1>1, <2>2, LastOfNone
  <2>4. P(N + 1)  BY <2>1, <2>3
  <2>5. QED  BY <2>1, <2>4
<1>8. ASSUME NEW m \in Nat, m \in T PROVE m + 1 \in T
  <2> SUFFICES ASSUME m + 1 <= N PROVE P(N + 1 - (m + 1))  OBVIOUS
  <2> DEFINE k == N - m
  <2>1. k \in 1..N /\ N + 1 - (m + 1) = k /\ N + 1 - m = k + 1 /\ k - 1 \in Nat
        /\ 5 * k \in Nat /\ 5 * (k + 1) = 5 * k + 5 /\ m <= N /\ (k - 1) + 1 = k
        /\ (k + 1) - 1 = k
    BY <1>1
  <2>2. P(k + 1)  BY <1>8, <2>1
  <2> HIDE DEF k
  <2> SUFFICES ASSUME f[5 * k].ok PROVE \E n \in k - 1..N : f[5 * k].val = LastOf(modes, k, n)
    BY <2>1
  <2>3. CASE 5 * k > Len(in)
    <3>1. f[5 * k].val = <<>>  BY <1>6, <2>1, <2>3
    <3>2. f[5 * k].val = LastOf(modes, k, k - 1)  BY <2>1, <3>1, LastOfNone
    <3>3. k - 1 \in k - 1..N  BY <1>1, <2>1
    <3>4. QED  BY <3>2, <3>3
  <2>4. CASE ~(5 * k > Len(in))
    <3> DEFINE rest == f[5 * k + 5]
               arg == Uint32(SubSeq(in, 5 * k + 1, Len(in)))
               val == Preceded(rest.val, modes[k][1], modes[k][2])
    <3>1. in[5 * k] = modes[k][1]  BY <1>3, <1>5, <2>1, <2>4
    <3>2. ~(in[5 * k] = 0 \/ in[5 * k] > 160)
      <4>1. modes[k][1] \in 1..160  BY <1>1, <2>1
      <4>2. QED  BY <3>1, <4>1
    <3>3. arg.ok => arg.val = modes[k][2]  BY <1>3, <2>1
    <3>4. f[5 * k] = ModeAt(in, 5 * k, rest)  BY <1>4, <2>1
    <3> HIDE DEF rest
    <3>5. arg.ok /\ rest.ok /\ f[5 * k].val = val
      <4> DEFINE w(a) == [op \in DOMAIN rest.val \cup {in[5 * k]} |->
                           IF op \in DOMAIN rest.val THEN rest.val[op] ELSE a.val]
      <4>1. f[5 * k] = IF arg.ok /\ rest.ok THEN [ok |-> TRUE, val |-> w(arg)] ELSE Failed
        BY <2>4, <3>2, <3>4 DEF ModeAt
      <4> HIDE DEF arg, w
      <4>2. arg.ok /\ rest.ok /\ f[5 * k].val = w(arg)  BY <4>1 DEF Failed
      <4>3. w(arg) = val  BY <3>1, <3>3, <4>2 DEF w, Preceded
      <4>4. QED  BY <4>2, <4>3
    <3>6. PICK n \in k..N : rest.val = LastOf(modes, k + 1, n)  BY <2>1, <2>2, <3>5 DEF rest
    <3>7. n \in Nat /\ k \in 1..n /\ n \in k - 1..N  BY <1>1, <2>1
    <3>8. val = LastOf(modes, k, n)  BY <3>6, <3>7, LastStep
    <3>9. QED  BY <3>5, <3>7, <3>8
  <2>5. QED  BY <2>3, <2>4
<1> HIDE DEF T
<1>9. N \in T  BY <1>1, <1>7, <1>8, Induction
<1>10. P(1)
  <2>1. N <= N /\ N + 1 - N = 1  BY <1>1
  <2>2. QED  BY <1>9, <2>1 DEF T
<1>11. QED  BY <1>4, <1>10 DEF N

-----------------------------------------------------------------------------
LEMMA FieldsOfFive ==
  ASSUME NEW S, NEW kinds \in Seq(S), NEW a, NEW b, NEW c, NEW d, NEW e, NEW in \in Seq(Nat),
         Len(kinds) = 5, kinds[1] = a, kinds[2] = b, kinds[3] = c, kinds[4] = d, kinds[5] = e
  PROVE  Fields(kinds, in) =
           Field(Field(Field(Field(Field([ok |-> TRUE, vals |-> <<>>, rem |-> in], a), b), c), d), e)
<1> DEFINE r == [ok |-> TRUE, vals |-> <<>>, rem |-> in]
<1>1. kinds \in Seq(S)  OBVIOUS
<1>2. Len(kinds) = 5 /\ kinds[1] = a /\ kinds[2] = b /\ kinds[3] = c /\ kinds[4] = d
      /\ kinds[5] = e
  OBVIOUS
<1> HIDE DEF r
<1>3. PICK st \in [0..Len(kinds) -> Results] :
        /\ st[0] = [ok |-> TRUE, vals |-> <<>>, rem |-> in]
        /\ \A k \in 1..Len(kinds) : st[k] = Field(st[k - 1], kinds[k])
        /\ Fields(kinds, in) = st[Len(kinds)]
  BY <1>1, FieldsRun
<1>4. st[0] = r /\ Fields(kinds, in) = st[5]  BY <1>2, <1>3 DEF r
<1>5. \A k \in 1..5 : st[k] = Field(st[k - 1], kinds[k])  BY <1>2, <1>3
<1>6. st[1] = Field(st[0], a) /\ st[2] = Field(st[1], b) /\ st[3] = Field(st[2], c)
      /\ st[4] = Field(st[3], d) /\ st[5] = Field(st[4], e)
  <2>1. 1 \in 1..5 /\ 2 \in 1..5 /\ 3 \in 1..5 /\ 4 \in 1..5 /\ 5 \in 1..5 /\ 1 - 1 = 0
        /\ 2 - 1 = 1 /\ 3 - 1 = 2 /\ 4 - 1 = 3 /\ 5 - 1 = 4
    OBVIOUS
  <2>2. st[1] = Field(st[1 - 1], kinds[1]) /\ st[2] = Field(st[2 - 1], kinds[2])
        /\ st[3] = Field(st[3 - 1], kinds[3]) /\ st[4] = Field(st[4 - 1], kinds[4])
        /\ st[5] = Field(st[5 - 1], kinds[5])
    BY <1>5, <2>1
  <2>3. QED  BY <1>2, <2>1, <2>2
<1>7. QED  BY <1>4, <1>6 DEF r

LEMMA WindowAppended ==
  ASSUME NEW t, NEW w \in [1..4 -> Nat]
  PROVE  LET v == Append(Append(Append(Append(<<t>>, w[1]), w[2]), w[3]), w[4])
         IN v[1] = t /\ Tail(v) = w
<1> DEFINE S == Nat \cup {t}
           v == Append(Append(Append(Append(<<t>>, w[1]), w[2]), w[3]), w[4])
<1>1. t \in S /\ w[1] \in S /\ w[2] \in S /\ w[3] \in S /\ w[4] \in S  OBVIOUS
<1> HIDE DEF S
<1>2. <<t>> \in Seq(S) /\ Len(<<t>>) = 1 /\ <<t>>[1] = t  BY <1>1
<1>3. v \in Seq(S) /\ Len(v) = 5  BY <1>1, <1>2
<1>4. v[1] = t /\ v[2] = w[1] /\ v[3] = w[2] /\ v[4] = w[3] /\ v[5] = w[4]  BY <1>1, <1>2
<1> HIDE DEF v
<1>5. Tail(v) \in Seq(S) /\ Len(Tail(v)) = 4 /\ \A i \in 1..4 : Tail(v)[i] = v[i + 1]
  <2>1. v # <<>> /\ Len(v) - 1 = 4
    <3>1. Len(v) = 5 /\ 5 - 1 = 4  BY <1>3
    <3>2. v # <<>>
      <4>1. Len(<<>>) = 0 /\ 5 # 0  OBVIOUS
      <4>2. QED  BY <3>1, <4>1, Zenon
    <3>3. QED  BY <3>1, <3>2
  <2>2. Tail(v) \in Seq(S)  BY <1>3, <2>1, HeadTailProperties
  <2>3. Len(Tail(v)) = Len(v) - 1  BY <1>3, <2>1, HeadTailProperties
  <2>4. \A i \in 1..Len(Tail(v)) : Tail(v)[i] = v[i + 1]  BY <1>3, <2>1, HeadTailProperties
  <2>5. QED  BY <2>1, <2>2, <2>3, <2>4
<1>6. Tail(v) = w
  <2> DEFINE u == Tail(v)
  <2>1. u \in Seq(S) /\ Len(u) = 4 /\ \A i \in 1..4 : u[i] = v[i + 1]  BY <1>5
  <2> HIDE DEF u
  <2>2. u[1] = v[1 + 1] /\ u[2] = v[2 + 1] /\ u[3] = v[3 + 1] /\ u[4] = v[4 + 1]  BY <2>1
  <2>3. u[1] = w[1] /\ u[2] = w[2] /\ u[3] = w[3] /\ u[4] = w[4]  BY <1>4, <2>2
  <2>4. \A i \in 1..4 : u[i] = w[i]
    <3>1. \A i \in 1..4 : i = 1 \/ i = 2 \/ i = 3 \/ i = 4  OBVIOUS
    <3>2. QED  BY <2>3, <3>1
  <2>5. u = [i \in 1..4 |-> u[i]]  BY <2>1
  <2>6. w = [i \in 1..4 |-> w[i]]  OBVIOUS
  <2>7. u = w  BY <2>4, <2>5, <2>6
  <2>8. QED  BY <2>7 DEF u
<1>7. QED  BY <1>4, <1>6 DEF v

(* What clients ask for. *)
PtyAsks == [term : Seq(Nat), window : [1..4 -> Nat], modes : Modes]
X11Asks == [single : BOOLEAN, protocol : Seq(Nat), data : Seq(Nat), screen : Nat]

LEMMA PtyRead ==
  ASSUME NEW p \in PtyAsks, NEW in \in Cut(PutPty(p)), parsePtyRequest(in).ok
  PROVE  LET v == parsePtyRequest(in).val
         IN /\ v.term = p.term /\ v.window = p.window
            /\ \E n \in 0..Len(p.modes) : v.modes = ModesOf(p, n)
<1> DEFINE kinds == Cat(<<"string">>, WindowFields)
           r == [ok |-> TRUE, vals |-> <<>>, rem |-> in]
           f == Fields(kinds, in)
           a == PutString(p.term)
           w == PutWindow(p.window)
           q == PutModes(p.modes)
<1>1. p.term \in Seq(Nat) /\ p.window \in [1..4 -> Nat] /\ p.modes \in Modes  BY DEF PtyAsks
<1>2. a \in Seq(Nat) /\ w \in Seq(Nat) /\ q \in Seq(Nat)
  <2>1. a \in Seq(Nat)  BY <1>1, OthersPut
  <2>2. <<>> \in Seq(Nat)  OBVIOUS
  <2>3. w \in Seq(Nat)  BY <1>1, <2>2, WindowPut
  <2>4. ModesBytes(p.modes) \in Seq(Nat)  BY <1>1, BytesOfModes
  <2>5. PutString(ModesBytes(p.modes)) \in Seq(Nat)  BY <2>4, OthersPut
  <2>6. q = PutString(ModesBytes(p.modes))  BY DEF PutModes, ModesBytes
  <2> HIDE DEF a, w, q
  <2>7. QED  BY <2>1, <2>3, <2>5, <2>6
<1>3. PutPty(p) = Cat(Cat(a, w), q)  BY DEF PutPty, Cat
<1> HIDE DEF a, w, q
<1>4. Cat(Cat(a, w), q) = Cat(a, Cat(w, q)) /\ Cat(w, q) \in Seq(Nat)  BY <1>2, CatAssociative
<1>5. Cat(a, Cat(w, q)) \in Seq(Nat)  BY <1>2, <1>4, CatAssociative
<1>6. in \in Seq(Nat) /\ ReadSoFar(r, <<>>, Cat(a, Cat(w, q)))
  BY <1>3, <1>4, <1>5, StartRead
<1>7. f = Field(Field(Field(Field(Field(r, "string"), "uint32"), "uint32"), "uint32"), "uint32")
  <2> DEFINE s == <<"string">>
             S == {"string", "uint32"}
             u == WindowFields
  <2>1. s \in Seq(S) /\ Len(s) = 1 /\ s[1] = "string"  OBVIOUS
  <2>2. u \in Seq(S) /\ Len(u) = 4 /\ u[1] = "uint32" /\ u[2] = "uint32" /\ u[3] = "uint32"
        /\ u[4] = "uint32"
    BY DEF WindowFields
  <2> HIDE DEF s, S, u
  <2>3. s \in Seq(S) /\ u \in Seq(S)  BY <2>1, <2>2
  <2> DEFINE t == Cat(s, u)
  <2>4. t \in Seq(S) /\ Len(t) = Len(s) + Len(u)  BY <2>3, ConcatAt
  <2>5. \A i \in 1..Len(s) : t[i] = s[i]  BY <2>3, ConcatAt
  <2>6. \A j \in 1..Len(u) : t[Len(s) + j] = u[j]  BY <2>3, ConcatAt
  <2> HIDE DEF t
  <2>7. Len(t) = 5 /\ t[1] = "string"  BY <2>1, <2>2, <2>4, <2>5
  <2>8. t[1 + 1] = u[1] /\ t[1 + 2] = u[2] /\ t[1 + 3] = u[3] /\ t[1 + 4] = u[4]
    BY <2>1, <2>2, <2>6
  <2>9. t[2] = "uint32" /\ t[3] = "uint32" /\ t[4] = "uint32" /\ t[5] = "uint32"
    BY <2>2, <2>8
  <2>10. Fields(t, in) =
           Field(Field(Field(Field(Field([ok |-> TRUE, vals |-> <<>>, rem |-> in], "string"),
                 "uint32"), "uint32"), "uint32"), "uint32")
    BY <1>6, <2>4, <2>7, <2>9, FieldsOfFive
  <2>11. QED  BY <2>10 DEF t, s, u
<1>8. <<"string">> \o WindowFields = kinds  BY DEF Cat
<1> HIDE DEF kinds, f, r
<1> DEFINE r1 == Field(r, "string")
           v1 == <<p.term>>
           v  == Append(Append(Append(Append(v1, p.window[1]), p.window[2]), p.window[3]), p.window[4])
<1>9. ReadSoFar(r1, v1, Cat(w, q))
  <2>1. Append(<<>>, p.term) = <<p.term>>  OBVIOUS
  <2>2. ReadSoFar(Field(r, "string"), Append(<<>>, p.term), Cat(w, q))
    BY <1>1, <1>4, <1>6, FieldRead DEF a
  <2>3. QED  BY <2>1, <2>2
<1> HIDE DEF r1
<1>10. ReadSoFar(f, v, q)
  <2> HIDE DEF v1
  <2>1. ReadSoFar(r1, v1, Cat(PutWindow(p.window), q))  BY <1>9 DEF w
  <2>2. ReadSoFar(Field(Field(Field(Field(r1, "uint32"), "uint32"), "uint32"), "uint32"), v, q)
    BY <1>1, <1>2, <2>1, FourRead
  <2>3. QED  BY <1>7, <2>2 DEF r1
<1>11. v[1] = p.term /\ Tail(v) = p.window  BY <1>1, WindowAppended
<1> HIDE DEF v
<1> DEFINE m == parseTerminalModes(f.rem)
<1>12. parsePtyRequest(in) =
         IF ~(f.ok /\ m.ok) THEN Failed
         ELSE [ok |-> TRUE, val |-> [term |-> f.vals[1], window |-> Tail(f.vals), modes |-> m.val]]
  <2>1. Failed.ok = FALSE  BY DEF Failed
  <2>2. QED  BY <1>8, <2>1 DEF parsePtyRequest, f
<1> HIDE DEF m
<1>13. f.ok /\ m.ok  BY <1>12 DEF Failed
<1>14. f.vals = v /\ f.rem \in Cut(q)  BY <1>10, <1>13 DEF ReadSoFar
<1>15. \E n \in 0..Len(p.modes) : m.val = LastOf(p.modes, 1, n)
  BY <1>1, <1>13, <1>14, ModesRead DEF m, q
<1>16. \A n : ModesOf(p, n) = LastOf(p.modes, 1, n)  BY DEF ModesOf, LastOf
<1>17. parsePtyRequest(in).val = [term |-> v[1], window |-> Tail(v), modes |-> m.val]
  BY <1>12, <1>13, <1>14
<1>18. QED  BY <1>11, <1>15, <1>16, <1>17

(* The invariant: besides the property, that both the pty and what it was  *)
(* asked for are records, for the window to be replaced in both.           *)
GrantKept == GrantedAsAsked /\ OnePty /\ askedPty \subseteq PtyAsks

(* What Pty and X11 report is what the client asked for in the request     *)
(* that was granted, wherever its payload was cut off (parsePtyRequest,    *)
(* parseX11Request and parseWindow, util.go, with handleRequests).         *)
THEOREM FieldsGrantedAsAsked ==
  ASSUME Ptys \subseteq PtyAsks, X11s \subseteq X11Asks, Windows \subseteq [1..4 -> Nat]
  PROVE  Spec => []GrantedAsAsked
<1>1. Init => GrantKept  BY DEF Init, GrantKept, GrantedAsAsked, OnePty
<1>2. ASSUME GrantKept, [Next]_vars PROVE GrantKept'
  <2>1. OnePty'  BY <1>2, StepReads DEF GrantKept
  <2> USE DEF startVars, ptyVars, x11Vars, outVars
  <2>2. ASSUME UNCHANGED <<ptyVars, x11Vars>> PROVE GrantKept'
    BY <1>2, <2>1, <2>2 DEF GrantKept, GrantedAsAsked, ModesOf
  <2>3. CASE UNCHANGED vars  BY <2>2, <2>3 DEF vars
  <2>4. ASSUME NEW allowed, NEW c, ExecRequest(c, Quoted(c.words, c.how), allowed)
        PROVE  GrantKept'
    BY <2>2, <2>4 DEF ExecRequest
  <2>5. ASSUME NEW allowed, ShellRequest(allowed) PROVE GrantKept'
    BY <2>2, <2>5 DEF ShellRequest
  <2>6. ASSUME NEW allowed, NEW name, SubsystemRequest(name, allowed) PROVE GrantKept'
    BY <2>2, <2>6 DEF SubsystemRequest
  <2>7. ASSUME NEW allowed, NEW ask \in Ptys, NEW payload \in Cut(PutPty(ask)),
               PtyRequest(ask, payload, allowed)
        PROVE  GrantKept'
    <3> DEFINE v == parsePtyRequest(payload).val
    <3>1. /\ parsePtyRequest(payload).ok /\ pty' = {v} /\ askedPty' = {ask}
          /\ UNCHANGED <<x11, askedX11>>
      BY <2>7 DEF PtyRequest
    <3>2. /\ v.term = ask.term /\ v.window = ask.window
          /\ \E n \in 0..Len(ask.modes) : v.modes = ModesOf(ask, n)
      BY <3>1, PtyRead
    <3> HIDE DEF v
    <3>3. GrantedAsAsked'
      BY <1>2, <3>1, <3>2 DEF GrantKept, GrantedAsAsked, ModesOf
    <3>4. QED  BY <2>1, <3>1, <3>3 DEF GrantKept
  <2>8. ASSUME NEW allowed, NEW ask \in X11s, NEW payload \in Cut(PutX11(ask)),
               X11Request(ask, payload, allowed)
        PROVE  GrantKept'
    <3>1. /\ parseX11Request(payload).ok /\ x11' = {parseX11Request(payload).val}
          /\ askedX11' = {ask} /\ UNCHANGED <<pty, askedPty>>
      BY <2>8 DEF X11Request
    <3>2. parseX11Request(payload).val = ask  BY <3>1, X11Read DEF X11Asks
    <3>3. GrantedAsAsked'
      BY <1>2, <3>1, <3>2 DEF GrantKept, GrantedAsAsked, ModesOf
    <3>4. QED  BY <1>2, <2>1, <3>1, <3>3 DEF GrantKept
  <2>9. ASSUME NEW v, EnvRequest(v) PROVE GrantKept'  BY <2>2, <2>9 DEF EnvRequest
  <2>10. ASSUME NEW win \in Windows, NEW payload \in Cut(PutWindow(win)),
                WindowChange(win, payload)
         PROVE  GrantKept'
    <3> DEFINE Resized(q) == [q EXCEPT !.window = win]
    <3>1. parseWindow(payload).ok /\ UNCHANGED <<x11, askedX11>>
          /\ pty' = {[q EXCEPT !.window = parseWindow(payload).val] : q \in pty}
          /\ askedPty' = {Resized(q) : q \in askedPty}
      BY <2>10 DEF WindowChange
    <3>2. parseWindow(payload).val = win  BY <3>1, WindowRead
    <3>3. pty' = {Resized(q) : q \in pty}  BY <3>1, <3>2
    <3>4. ASSUME NEW q \in askedPty
          PROVE  /\ Resized(q) \in PtyAsks /\ Resized(q).term = q.term /\ Resized(q).window = win
                 /\ Resized(q).modes = q.modes
      BY <1>2 DEF GrantKept, PtyAsks
    <3>5. ASSUME NEW q \in pty
          PROVE  Resized(q).term = q.term /\ Resized(q).window = win /\ Resized(q).modes = q.modes
      BY <1>2 DEF GrantKept, OnePty
    <3> HIDE DEF Resized
    <3>6. askedPty' \subseteq PtyAsks  BY <3>1, <3>4
    <3>7. ASSUME NEW q \in pty
          PROVE  \E ask \in askedPty' :
                   /\ Resized(q).term = ask.term /\ Resized(q).window = ask.window
                   /\ \E n \in 0..Len(ask.modes) : Resized(q).modes = ModesOf(ask, n)
      <4>1. PICK ask \in askedPty :
              /\ q.term = ask.term /\ q.window = ask.window
              /\ \E n \in 0..Len(ask.modes) : q.modes = ModesOf(ask, n)
        BY <1>2 DEF GrantKept, GrantedAsAsked
      <4>2. PICK n \in 0..Len(ask.modes) : q.modes = ModesOf(ask, n)  BY <4>1
      <4>3. ModesOf(Resized(ask), n) = ModesOf(ask, n)  BY <3>4 DEF ModesOf
      <4>4. n \in 0..Len(Resized(ask).modes) /\ Resized(q).modes = ModesOf(Resized(ask), n)
        BY <3>4, <3>5, <4>2, <4>3
      <4>5. Resized(q).term = Resized(ask).term /\ Resized(q).window = Resized(ask).window
        BY <3>4, <3>5, <4>1
      <4>6. QED  BY <3>1, <4>4, <4>5
    <3>8. GrantedAsAsked'
      <4>1. x11' = askedX11'  BY <1>2, <3>1 DEF GrantKept, GrantedAsAsked
      <4>2. \A p \in pty' : \E ask \in askedPty' :
              /\ p.term = ask.term /\ p.window = ask.window
              /\ \E n \in 0..Len(ask.modes) : p.modes = ModesOf(ask, n)
        BY <3>3, <3>7
      <4>3. QED  BY <4>1, <4>2 DEF GrantedAsAsked, ModesOf
    <3>9. QED  BY <2>1, <3>6, <3>8 DEF GrantKept
  <2>11. ASSUME NEW p, Write(p) PROVE GrantKept'  BY <2>2, <2>11 DEF Write
  <2>12. CASE DisablePTYEmulation  BY <2>2, <2>12 DEF DisablePTYEmulation
  <2>13. QED
    BY <1>2, <2>3, <2>4, <2>5, <2>6, <2>7, <2>8, <2>9, <2>10, <2>11, <2>12 DEF Next
<1>3. GrantKept => GrantedAsAsked  BY DEF GrantKept
<1>4. QED  BY <1>1, <1>2, <1>3, PTL DEF Spec
=============================================================================
