----------------------------- MODULE ShellProofs -----------------------------
(***************************************************************************)
(* Theorems about Shell, for any lines, batches, options and firmwares:    *)
(* what is written is read, options and arguments come to their command,   *)
(* the completion fits, and crashes are explained.                         *)
(***************************************************************************)
EXTENDS Shell, SequenceTheorems, FiniteSetTheorems, WellFoundedInduction, TLAPS

-----------------------------------------------------------------------------
(* Numbers, and functions that are defined recursively                     *)

\* Induction, for a set of numbers instead of a predicate.
LEMMA Induction ==
  ASSUME NEW S, 0 \in S, \A n \in Nat : n \in S => n + 1 \in S
  PROVE  Nat \subseteq S
<1> DEFINE T == {n \in Nat : n \notin S}
           Less == {p \in Nat \X Nat : p[1] < p[2]}
<1>1. IsWellFoundedOn(Less, Nat)
  BY NatLessThanWellFounded DEF OpToRel
<1>2. SUFFICES ASSUME T # {} PROVE FALSE
  OBVIOUS
<1>3. PICK m \in T : \A k \in T : ~(<<k, m>> \in Less)
  BY <1>1, <1>2, WFMin
<1>4. m # 0 /\ m - 1 \in Nat /\ <<m - 1, m>> \in Less
  OBVIOUS
<1> QED
  BY <1>3, <1>4

\* A set of numbers that is not empty has a least one.
LEMMA LeastOne ==
  ASSUME NEW T \in SUBSET Nat, T # {}
  PROVE  \E m \in T : \A k \in T : m <= k
<1> DEFINE Less == {p \in Nat \X Nat : p[1] < p[2]}
<1>1. IsWellFoundedOn(Less, Nat)
  BY NatLessThanWellFounded DEF OpToRel
<1>2. PICK m \in T : \A k \in T : ~(<<k, m>> \in Less)
  BY <1>1, WFMin
<1>3. \A k \in T : ~(k < m) /\ k \in Nat /\ m \in Nat
  BY <1>2
<1> QED
  BY <1>3

\* Induction up to a number.
LEMMA UpTo ==
  ASSUME NEW N \in Nat, NEW P, 0 \in P, \A n \in 1 .. N : n - 1 \in P => n \in P
  PROVE  \A n \in 0 .. N : n \in P
<1> DEFINE S == {n \in Nat : n <= N => n \in P}
<1>1. 0 \in S
  OBVIOUS
<1>2. ASSUME NEW n \in Nat, n \in S PROVE n + 1 \in S
  <2>1. SUFFICES ASSUME n + 1 <= N PROVE n + 1 \in P
    OBVIOUS
  <2>2. n + 1 \in 1 .. N /\ (n + 1) - 1 = n /\ n <= N
    BY <2>1
  <2>3. n \in P
    BY <1>2, <2>2
  <2> QED
    BY <2>2, <2>3
<1>3. Nat \subseteq S
  <2> HIDE DEF S
  <2> QED
    BY <1>1, <1>2, Induction
<1> QED
  BY <1>3

\* A function that is defined by the one before: there is one.
Recurs(r, A, base, N, H) ==
  r \in [0 .. N -> A] /\ r[0] = base /\ \A n \in 1 .. N : r[n] = H[n][r[n - 1]]

\* There is a function each value of which comes from the one before.
LEMMA Recursion ==
  ASSUME NEW A, NEW base \in A, NEW N \in Nat, NEW H \in [1 .. N -> [A -> A]]
  PROVE  \E r : Recurs(r, A, base, N, H)
<1> DEFINE Good(m, r) == /\ r \in [0 .. m -> A] /\ r[0] = base
                         /\ \A n \in 1 .. m : r[n] = H[n][r[n - 1]]
           S == {m \in Nat : m <= N => \E r : Good(m, r)}
<1>1. 0 \in S
  <2>1. Good(0, [n \in 0 .. 0 |-> base])
    OBVIOUS
  <2> QED
    BY <2>1
<1>2. ASSUME NEW m \in Nat, m \in S PROVE m + 1 \in S
  <2>1. SUFFICES ASSUME m + 1 <= N PROVE \E r : Good(m + 1, r)
    OBVIOUS
  <2>2. PICK r : Good(m, r)
    BY <1>2, <2>1
  <2> DEFINE q == [n \in 0 .. m + 1 |-> IF n = m + 1 THEN H[m + 1][r[m]] ELSE r[n]]
  <2>3. H[m + 1][r[m]] \in A
    BY <2>1, <2>2
  <2>4. Good(m + 1, q)
    BY <2>1, <2>2, <2>3
  <2> QED
    BY <2>4
<1> HIDE DEF S
<1>3. N \in S
  BY <1>1, <1>2, Induction
<1> QED
  BY <1>3 DEF S, Recurs

-----------------------------------------------------------------------------
(* The tokenizer, character by character                                   *)

\* What the tokenizer works with.
State == {"space", "word", "quote", "backslash", "quotebackslash"}
Token == [state : State, ret : Word, begun : BOOLEAN]
Tokenizer == [words : Seq(Word), token : Token]

\* Every character keeps these types.
LEMMA ReadCharType ==
  ASSUME NEW acc \in Tokenizer, NEW c \in Symbols
  PROVE  ReadChar(acc, c) \in Tokenizer
<1>1. acc.words \in Seq(Word) /\ acc.token \in Token
  BY DEF Tokenizer
<1>2. acc.token.ret \in Word /\ acc.token.state \in State
  BY <1>1 DEF Token
<1>3. NoToken \in Token
  BY DEF NoToken, Token, State, Word
<1>4. Append(acc.token.ret, c) \in Word
  BY <1>2 DEF Word
<1>5. Next_(acc.token.state, c)[1] \in State
  BY <1>2 DEF Next_, InWord, InQuote, State
<1>6. Read(acc.token, c) \in Token
  BY <1>2, <1>4, <1>5 DEF Read, Token
<1>7. Append(acc.words, acc.token.ret) \in Seq(Word)
  BY <1>1, <1>2
<1> QED
  BY <1>1, <1>3, <1>6, <1>7 DEF ReadChar, Tokenizer

\* Reading(line) goes character by character.
LEMMA ReadingIs ==
  ASSUME NEW line \in Word
  PROVE  /\ Reading(line) \in [0 .. Len(line) -> Tokenizer]
         /\ Reading(line)[0] = NoWords
         /\ \A n \in 1 .. Len(line) : Reading(line)[n] = ReadChar(Reading(line)[n - 1], line[n])
<1>1. Len(line) \in Nat /\ \A n \in 1 .. Len(line) : line[n] \in Symbols
  BY DEF Word
<1>2. NoWords \in Tokenizer
  BY DEF NoWords, NoToken, Tokenizer, Token, State, Word
<1> DEFINE H == [n \in 1 .. Len(line) |-> [acc \in Tokenizer |-> ReadChar(acc, line[n])]]
<1>3. H \in [1 .. Len(line) -> [Tokenizer -> Tokenizer]]
  BY <1>1, ReadCharType
<1>4. PICK r : Recurs(r, Tokenizer, NoWords, Len(line), H)
  <2> HIDE DEF H
  <2>1. Len(line) \in Nat
    BY <1>1
  <2> QED
    BY <2>1, <1>2, <1>3, Recursion
<1>5. ASSUME NEW n \in 1 .. Len(line) PROVE r[n] = ReadChar(r[n - 1], line[n])
  <2>1. n - 1 \in 0 .. Len(line) /\ r[n - 1] \in Tokenizer
    BY <1>1, <1>4 DEF Recurs
  <2>2. r[n] = H[n][r[n - 1]]
    BY <1>4 DEF Recurs
  <2> QED
    BY <2>1, <2>2
<1> DEFINE Equation(f) == f = [n \in 0 .. Len(line) |->
                                 IF n = 0 THEN NoWords ELSE ReadChar(f[n - 1], line[n])]
<1>6. Equation(r)
  BY <1>1, <1>4, <1>5 DEF Recurs
<1>7. Reading(line) = CHOOSE f : Equation(f)
  BY DEF Reading
<1>8. Equation(Reading(line))
  <2> HIDE DEF Equation
  <2> QED
    BY <1>6, <1>7
<1> DEFINE f == Reading(line)
<1> HIDE DEF f
<1>9. f = [n \in 0 .. Len(line) |-> IF n = 0 THEN NoWords ELSE ReadChar(f[n - 1], line[n])]
  BY <1>8 DEF f
<1>13. /\ DOMAIN f = 0 .. Len(line)
       /\ f[0] = NoWords
       /\ \A n \in 1 .. Len(line) : f[n] = ReadChar(f[n - 1], line[n])
  <2>1. DOMAIN f = 0 .. Len(line)
    BY <1>9
  <2>2. \A n \in 0 .. Len(line) : f[n] = IF n = 0 THEN NoWords ELSE ReadChar(f[n - 1], line[n])
    BY <1>9
  <2>3. 0 \in 0 .. Len(line) /\ \A n \in 1 .. Len(line) : n \in 0 .. Len(line) /\ n # 0
    BY <1>1
  <2> QED
    BY <2>1, <2>2, <2>3
<1>14. f = [n \in 0 .. Len(line) |-> f[n]]
  BY <1>9
<1> DEFINE S == {n \in 0 .. Len(line) : f[n] \in Tokenizer}
<1>10. 0 \in S
  BY <1>1, <1>2, <1>13
<1>11. ASSUME NEW n \in 1 .. Len(line), n - 1 \in S PROVE n \in S
  <2>1. f[n - 1] \in Tokenizer /\ line[n] \in Symbols /\ f[n] = ReadChar(f[n - 1], line[n])
    BY <1>1, <1>13, <1>11
  <2>2. f[n] \in Tokenizer
    BY <2>1, ReadCharType
  <2> QED
    BY <2>2
<1>12. \A n \in 0 .. Len(line) : f[n] \in Tokenizer
  <2>1. Len(line) \in Nat
    BY <1>1
  <2> HIDE DEF S
  <2>2. \A n \in 0 .. Len(line) : n \in S
    BY <1>10, <1>11, <2>1, UpTo
  <2> QED
    BY <2>2 DEF S
<1> QED
  BY <1>13, <1>14, <1>12 DEF f

-----------------------------------------------------------------------------
(* Sequences that grow part by part                                        *)

\* line has part behind its p-th element.
Has(line, p, part) ==
  /\ p \in Nat /\ Len(part) \in Nat /\ Len(line) \in Nat /\ p + Len(part) <= Len(line)
  /\ \A i \in 1 .. Len(part) : line[p + i] = part[i]

\* Its first element is at p + 1.
LEMMA HasElement ==
  ASSUME NEW line, NEW p, NEW part, Has(line, p, part), NEW i \in 1 .. Len(part)
  PROVE  p + i \in 1 .. Len(line) /\ line[p + i] = part[i] /\ (p + i) - 1 = p + (i - 1)
BY DEF Has

\* A part of a part.
LEMMA HasPart ==
  ASSUME NEW line, NEW p, NEW whole, NEW q, NEW part, Has(line, p, whole), Has(whole, q, part)
  PROVE  Has(line, p + q, part)
<1>1. /\ p \in Nat /\ q \in Nat /\ Len(part) \in Nat /\ Len(whole) \in Nat /\ Len(line) \in Nat
      /\ p + Len(whole) <= Len(line) /\ q + Len(part) <= Len(whole)
  BY DEF Has
<1>2. p + q \in Nat /\ (p + q) + Len(part) <= Len(line)
  BY <1>1
<1>3. ASSUME NEW i \in 1 .. Len(part) PROVE line[(p + q) + i] = part[i]
  <2>1. q + i \in 1 .. Len(whole) /\ whole[q + i] = part[i]
    BY HasElement
  <2>2. line[p + (q + i)] = whole[q + i]
    BY <2>1 DEF Has
  <2>3. p + (q + i) = (p + q) + i
    BY <1>1
  <2> QED
    BY <2>1, <2>2, <2>3
<1> QED
  BY <1>1, <1>2, <1>3 DEF Has

\* Where a part of a sequence that grows part by part ends up in the whole.
Grows(f, S, x, N) ==
  /\ N \in Nat /\ x \in [1 .. N -> Seq(S)]
  /\ f \in [0 .. N -> Seq(S)]
  /\ f[0] = <<>>
  /\ \A n \in 1 .. N : f[n] = f[n - 1] \o x[n]

\* The n-th beginning is where the n-th part ends, and the whole has it.
Placed(e, x, N) ==
  /\ \A n \in 0 .. N : /\ Len(e[n]) \in 0 .. Len(e[N])
                       /\ \A i \in 1 .. Len(e[n]) : e[N][i] = e[n][i]
  /\ \A n \in 1 .. N : /\ Len(e[n]) = Len(e[n - 1]) + Len(x[n])
                       /\ \A i \in 1 .. Len(x[n]) : e[N][Len(e[n - 1]) + i] = x[n][i]

\* The parts of a sequence that grows part by part are where they were put.
LEMMA Growing ==
  ASSUME NEW S, NEW N, NEW e, NEW x, Grows(e, S, x, N)
  PROVE  Placed(e, x, N)
<1>0. /\ N \in Nat /\ x \in [1 .. N -> Seq(S)]
      /\ e \in [0 .. N -> Seq(S)] /\ \A n \in 1 .. N : e[n] = e[n - 1] \o x[n]
  BY DEF Grows
<1> USE <1>0
<1>1. ASSUME NEW k \in 0 .. N, NEW n \in 1 .. N, n = k + 1
      PROVE  /\ Len(e[n]) = Len(e[k]) + Len(x[n])
             /\ \A i \in 1 .. Len(e[k]) : e[n][i] = e[k][i]
             /\ \A i \in 1 .. Len(x[n]) : e[n][Len(e[k]) + i] = x[n][i]
             /\ Len(e[n]) \in Nat /\ Len(e[k]) \in Nat /\ Len(x[n]) \in Nat
  <2>1. n - 1 = k /\ n \in 0 .. N
    BY <1>1
  <2>2. e[k] \in Seq(S) /\ x[n] \in Seq(S) /\ e[n] = e[k] \o x[n]
    BY <1>0, <2>1
  <2>3. /\ Len(e[n]) = Len(e[k]) + Len(x[n])
        /\ \A i \in 1 .. Len(e[k]) + Len(x[n]) :
             e[n][i] = IF i <= Len(e[k]) THEN e[k][i] ELSE x[n][i - Len(e[k])]
    BY <2>2, ConcatProperties
  <2>4. Len(e[k]) \in Nat /\ Len(x[n]) \in Nat
    BY <2>2, LenProperties
  <2>5. \A i \in 1 .. Len(e[k]) : i \in 1 .. Len(e[k]) + Len(x[n]) /\ i <= Len(e[k])
    BY <2>4
  <2>6. \A i \in 1 .. Len(x[n]) : /\ Len(e[k]) + i \in 1 .. Len(e[k]) + Len(x[n])
                                 /\ ~(Len(e[k]) + i <= Len(e[k]))
                                 /\ (Len(e[k]) + i) - Len(e[k]) = i
    BY <2>4
  <2>7. \A i \in 1 .. Len(x[n]) : e[n][Len(e[k]) + i] = x[n][i]
    BY <2>3, <2>6
  <2> QED
    BY <2>3, <2>4, <2>5, <2>7
<1> DEFINE Inside(n) == /\ Len(e[n]) \in 0 .. Len(e[N])
                        /\ \A i \in 1 .. Len(e[n]) : e[N][i] = e[n][i]
           P == {k \in 0 .. N : Inside(N - k)}
<1>2. 0 \in P
  <2>1. Len(e[N]) \in Nat
    BY <1>0, LenProperties
  <2>2. Inside(N)
    BY <2>1
  <2> QED
    BY <2>2
<1>3. ASSUME NEW k \in 1 .. N, k - 1 \in P PROVE k \in P
  <2>1. PICK m \in 0 .. N, n \in 1 .. N : m = N - k /\ n = m + 1 /\ n = N - (k - 1)
    <3>1. N - k \in 0 .. N /\ (N - k) + 1 \in 1 .. N /\ (N - k) + 1 = N - (k - 1)
      OBVIOUS
    <3> QED
      BY <3>1
  <2>2. Len(e[n]) \in 0 .. Len(e[N]) /\ \A i \in 1 .. Len(e[n]) : e[N][i] = e[n][i]
    BY <1>3, <2>1
  <2>3. /\ Len(e[n]) = Len(e[m]) + Len(x[n])
        /\ \A i \in 1 .. Len(e[m]) : e[n][i] = e[m][i]
        /\ Len(e[n]) \in Nat /\ Len(e[m]) \in Nat /\ Len(x[n]) \in Nat
    BY <1>1, <2>1
  <2>5. Len(e[N]) \in Nat
    BY <1>0, LenProperties
  <2>8. \A a, b, c, d \in Nat : a = b + c /\ a \in 0 .. d =>
                               b \in 0 .. d /\ \A i \in 1 .. b : i \in 1 .. a
    OBVIOUS
  <2>6. Len(e[m]) \in 0 .. Len(e[N]) /\ \A i \in 1 .. Len(e[m]) : i \in 1 .. Len(e[n])
    BY <2>2, <2>3, <2>5, <2>8
  <2>4. Inside(m)
    BY <2>2, <2>3, <2>6
  <2> QED
    BY <2>1, <2>4
<1>4. \A n \in 0 .. N : Inside(n)
  <2>1. \A k \in 0 .. N : k \in P
    <3> HIDE DEF P
    <3> QED
      BY <1>2, <1>3, UpTo
  <2>2. ASSUME NEW n \in 0 .. N PROVE Inside(n)
    <3>2. N - n \in 0 .. N /\ N - (N - n) = n
      OBVIOUS
    <3>1. N - n \in P
      BY <2>1, <3>2
    <3> QED
      BY <3>1, <3>2
  <2> QED
    BY <2>2
<1>5. ASSUME NEW n \in 1 .. N
      PROVE  /\ Len(e[n]) = Len(e[n - 1]) + Len(x[n])
             /\ \A i \in 1 .. Len(x[n]) : e[N][Len(e[n - 1]) + i] = x[n][i]
  <2>1. PICK k \in 0 .. N : k = n - 1 /\ n = k + 1
    <3>1. n - 1 \in 0 .. N /\ n = (n - 1) + 1
      OBVIOUS
    <3> QED
      BY <3>1
  <2>2. n \in 0 .. N /\ \A i \in 1 .. Len(e[n]) : e[N][i] = e[n][i]
    BY <1>4
  <2>3. \A i \in 1 .. Len(x[n]) : Len(e[k]) + i \in 1 .. Len(e[n])
    BY <1>1, <2>1
  <2> QED
    BY <1>1, <2>1, <2>2, <2>3
<1> QED
  BY <1>4, <1>5 DEF Placed

\* The n-th part comes behind the first n - 1.
Follows(e, x, N, n) ==
  /\ Len(e[n - 1]) \in Nat /\ Len(x[n]) \in Nat /\ Len(e[n]) = Len(e[n - 1]) + Len(x[n])
  /\ Has(e[N], Len(e[n - 1]), x[n]) /\ Has(e[N], 0, e[n])

\* So is each of them behind the one before.
LEMMA GrowingPart ==
  ASSUME NEW S, NEW N, NEW e, NEW x, Grows(e, S, x, N),
         NEW n \in 1 .. N
  PROVE  Follows(e, x, N, n)
<1> DEFINE k == n - 1
<1>0. N \in Nat /\ N \in 0 .. N /\ n \in 0 .. N /\ k \in 0 .. N
  BY DEF Grows
<1> HIDE DEF k
<1>1. /\ \A m \in 0 .. N : /\ Len(e[m]) \in 0 .. Len(e[N])
                            /\ \A i \in 1 .. Len(e[m]) : e[N][i] = e[m][i]
      /\ \A m \in 1 .. N : /\ Len(e[m]) = Len(e[m - 1]) + Len(x[m])
                            /\ \A i \in 1 .. Len(x[m]) : e[N][Len(e[m - 1]) + i] = x[m][i]
  <2>1. Placed(e, x, N)
    BY Growing
  <2> QED
    BY <2>1 DEF Placed
<1>9. k = n - 1
  BY DEF k
<1>2. /\ Len(e[n]) = Len(e[k]) + Len(x[n])
      /\ \A i \in 1 .. Len(x[n]) : e[N][Len(e[k]) + i] = x[n][i]
  BY <1>0, <1>1, <1>9
<1>3. e[N] \in Seq(S) /\ e[k] \in Seq(S) /\ e[n] \in Seq(S) /\ x[n] \in Seq(S)
  BY <1>0 DEF Grows
<1>4. Len(e[N]) \in Nat /\ Len(e[k]) \in Nat /\ Len(e[n]) \in Nat /\ Len(x[n]) \in Nat
  BY <1>3, LenProperties
<1>6. Len(e[n]) <= Len(e[N]) /\ \A i \in 1 .. Len(e[n]) : e[N][i] = e[n][i]
  BY <1>0, <1>1, <1>4
<1>7. Len(e[k]) + Len(x[n]) <= Len(e[N])
  BY <1>2, <1>6
<1>8. 0 + Len(e[n]) <= Len(e[N]) /\ \A i \in 1 .. Len(e[n]) : 0 + i = i
  BY <1>4, <1>6
<1> QED
  BY <1>2, <1>4, <1>6, <1>7, <1>8, <1>9 DEF Has, Follows

\* A character as it is written is one or two.
LEMMA EscapedType ==
  ASSUME NEW c \in Symbols, NEW chars
  PROVE  Escaped(c, chars) \in Word
<1>1. Backslash \in Symbols
  BY CommandLineAssumption
<1>2. <<Backslash, c>> \in Word /\ <<c>> \in Word
  BY <1>1 DEF Word
<1> QED
  BY <1>2 DEF Escaped

\* A sequence that grows part by part: there is one.
Concatenates(f, x, N) == f = [n \in 0 .. N |-> IF n = 0 THEN <<>> ELSE f[n - 1] \o x[n]]

\* And nothing else is meant by such a definition.
LEMMA Concatenations ==
  ASSUME NEW S, NEW N \in Nat, NEW x \in [1 .. N -> Seq(S)]
  PROVE  /\ \E f : Concatenates(f, x, N)
         /\ \A f : Concatenates(f, x, N) => Grows(f, S, x, N)
<1> DEFINE H == [n \in 1 .. N |-> [s \in Seq(S) |-> s \o x[n]]]
<1>1. H \in [1 .. N -> [Seq(S) -> Seq(S)]]
  <2>1. \A n \in 1 .. N : \A s \in Seq(S) : s \o x[n] \in Seq(S)
    BY ConcatProperties
  <2> QED
    BY <2>1
<1>2. PICK r : Recurs(r, Seq(S), <<>>, N, H)
  <2>1. <<>> \in Seq(S)
    OBVIOUS
  <2> HIDE DEF H
  <2> QED
    BY <1>1, <2>1, Recursion
<1>3. ASSUME NEW n \in 1 .. N PROVE r[n] = r[n - 1] \o x[n]
  <2>1. n - 1 \in 0 .. N /\ r[n - 1] \in Seq(S)
    BY <1>2 DEF Recurs
  <2>2. r[n] = H[n][r[n - 1]]
    BY <1>2 DEF Recurs
  <2> QED
    BY <2>1, <2>2
<1>4. Concatenates(r, x, N)
  <2>1. ASSUME NEW n \in 0 .. N PROVE r[n] = IF n = 0 THEN <<>> ELSE r[n - 1] \o x[n]
    <3>1. CASE n = 0
      BY <3>1, <1>2 DEF Recurs
    <3>2. CASE n \in 1 .. N
      <4>1. r[n] = r[n - 1] \o x[n]
        BY <3>2, <1>3
      <4>2. n # 0
        BY <3>2
      <4> QED
        BY <4>1, <4>2, Zenon
    <3>3. n = 0 \/ n \in 1 .. N
      OBVIOUS
    <3> QED
      BY <3>1, <3>2, <3>3, Zenon
  <2>2. r = [n \in 0 .. N |-> r[n]]
    BY <1>2 DEF Recurs
  <2> QED
    BY <2>1, <2>2 DEF Concatenates
<1>5. ASSUME NEW f, Concatenates(f, x, N)
      PROVE  Grows(f, S, x, N)
  <2>1. \A n \in 0 .. N : f[n] = IF n = 0 THEN <<>> ELSE f[n - 1] \o x[n]
    BY <1>5 DEF Concatenates
  <2>2. 0 \in 0 .. N /\ \A n \in 1 .. N : n \in 0 .. N /\ n # 0
    OBVIOUS
  <2>3. f[0] = <<>> /\ \A n \in 1 .. N : f[n] = f[n - 1] \o x[n]
    BY <2>1, <2>2
  <2> DEFINE P == {n \in 0 .. N : f[n] \in Seq(S)}
  <2>8. <<>> \in Seq(S)
    OBVIOUS
  <2>4. 0 \in P
    BY <2>2, <2>3, <2>8
  <2>5. ASSUME NEW n \in 1 .. N, n - 1 \in P PROVE n \in P
    <3>1. f[n - 1] \in Seq(S) /\ x[n] \in Seq(S)
      BY <2>5
    <3>2. f[n] \in Seq(S)
      BY <2>3, <3>1, ConcatProperties
    <3> QED
      BY <2>2, <3>2
  <2>6. \A n \in 0 .. N : n \in P
    <3> HIDE DEF P
    <3> QED
      BY <2>4, <2>5, UpTo
  <2>7. f = [n \in 0 .. N |-> f[n]]
    BY <1>5 DEF Concatenates
  <2> QED
    BY <2>3, <2>6, <2>7 DEF Grows
<1> QED
  BY <1>4, <1>5

\* The parts of a word as it is written.
Escapes(word, chars) == [n \in 1 .. Len(word) |-> Escaped(word[n], chars)]

\* WithBackslashes() puts them together.
LEMMA EscapingIs ==
  ASSUME NEW word \in Word, NEW chars
  PROVE  /\ Len(word) \in Nat
         /\ Grows(Escaping(word, chars), Symbols, Escapes(word, chars), Len(word))
<1> DEFINE N == Len(word)
           x == Escapes(word, chars)
           Equation(f) == f = [n \in 0 .. N |-> IF n = 0 THEN <<>>
                                                ELSE f[n - 1] \o Escaped(word[n], chars)]
<1>1. N \in Nat /\ \A n \in 1 .. N : word[n] \in Symbols
  BY DEF Word
<1>2. x \in [1 .. N -> Seq(Symbols)]
  <2>1. \A n \in 1 .. N : Escaped(word[n], chars) \in Seq(Symbols)
    BY <1>1, EscapedType DEF Word
  <2> QED
    BY <2>1 DEF Escapes
<1>3. ASSUME NEW f
      PROVE  Equation(f) <=> Concatenates(f, x, N)
  <2>1. [n \in 0 .. N |-> IF n = 0 THEN <<>> ELSE f[n - 1] \o Escaped(word[n], chars)]
          = [n \in 0 .. N |-> IF n = 0 THEN <<>> ELSE f[n - 1] \o x[n]]
    BY <1>1 DEF Escapes
  <2> QED
    BY <2>1 DEF Concatenates
<1>4. Escaping(word, chars) = CHOOSE f : Equation(f)
  BY DEF Escaping
<1> HIDE DEF N, x, Equation
<1>5. Equation(Escaping(word, chars))
  BY <1>1, <1>2, <1>3, <1>4, Concatenations
<1>6. Grows(Escaping(word, chars), Symbols, x, N)
  BY <1>1, <1>2, <1>3, <1>5, Concatenations
<1> QED
  BY <1>1, <1>2, <1>6 DEF N, x

-----------------------------------------------------------------------------
(* What is written is read                                                 *)

\* Between two words, and in one.
Fresh(words) == [words |-> words, token |-> NoToken]
In(words, state, ret) ==
  [words |-> words, token |-> [state |-> state, ret |-> ret, begun |-> TRUE]]

\* The characters with a meaning differ.
LEMMA SpecialsDiffer == Quote # Backslash /\ Quote # Space /\ Backslash # Space
  BY DEF Quote, Backslash, Space

\* What a character does in each state of the tokenizer.
LEMMA ReadFresh ==
  ASSUME NEW words, NEW c
  PROVE  ReadChar(Fresh(words), c) =
           IF c = Quote THEN In(words, "quote", <<>>)
           ELSE IF c = Backslash THEN In(words, "backslash", <<>>)
           ELSE In(words, "word", Append(<<>>, c))
  BY SpecialsDiffer
     DEF ReadChar, Read, Next_, InWord, InQuote, Fresh, In, NoToken

\* In a word.
LEMMA ReadInWord ==
  ASSUME NEW words, NEW ret, NEW c
  PROVE  ReadChar(In(words, "word", ret), c) =
           IF c = Space THEN Fresh(Append(words, ret))
           ELSE IF c = Quote THEN In(words, "quote", ret)
           ELSE IF c = Backslash THEN In(words, "backslash", ret)
           ELSE In(words, "word", Append(ret, c))
  BY SpecialsDiffer
     DEF ReadChar, Read, Next_, InWord, InQuote, Fresh, In, NoToken

\* In quotation marks.
LEMMA ReadInQuote ==
  ASSUME NEW words, NEW ret, NEW c
  PROVE  ReadChar(In(words, "quote", ret), c) =
           IF c = Quote THEN In(words, "word", ret)
           ELSE IF c = Backslash THEN In(words, "quotebackslash", ret)
           ELSE In(words, "quote", Append(ret, c))
  BY SpecialsDiffer
     DEF ReadChar, Read, Next_, InWord, InQuote, Fresh, In, NoToken

\* Behind a backslash.
LEMMA ReadBehindBackslash ==
  ASSUME NEW words, NEW ret, NEW c
  PROVE  /\ ReadChar(In(words, "backslash", ret), c) = In(words, "word", Append(ret, c))
         /\ ReadChar(In(words, "quotebackslash", ret), c) = In(words, "quote", Append(ret, c))
  BY SpecialsDiffer
     DEF ReadChar, Read, Next_, InWord, InQuote, Fresh, In, NoToken

\* Inside a word of the two styles, behind n of its characters.
Amid(mode, words, n, ret) ==
  IF mode = "quote" THEN In(words, "quote", ret)
  ELSE IF n = 0 THEN Fresh(words) ELSE In(words, "word", ret)

\* What a backslash is put at in each style.
Escapable(mode) == IF mode = "quote" THEN {Quote, Backslash} ELSE Special

\* What one or two characters do.
Leads(part, from, to) ==
  \/ Len(part) = 1 /\ ReadChar(from, part[1]) = to
  \/ Len(part) = 2 /\ ReadChar(ReadChar(from, part[1]), part[2]) = to

\* A character as it is written is read as itself.
LEMMA EscapedRead ==
  ASSUME NEW mode \in {"quote", "word"}, NEW words, NEW n \in Nat, NEW ret, NEW c,
         n = 0 => ret = <<>>
  PROVE  Leads(Escaped(c, Escapable(mode)),
               Amid(mode, words, n, ret), Amid(mode, words, n + 1, Append(ret, c)))
<1> DEFINE x == Escaped(c, Escapable(mode))
<1>1. n + 1 # 0
  OBVIOUS
<1>2. CASE c \in Escapable(mode)
  <2>1. Len(x) = 2 /\ x[1] = Backslash /\ x[2] = c
    BY <1>2 DEF Escaped
  <2> HIDE DEF x
  <2>2. CASE mode = "quote"
    <3>1. /\ Amid(mode, words, n, ret) = In(words, "quote", ret)
          /\ Amid(mode, words, n + 1, Append(ret, c)) = In(words, "quote", Append(ret, c))
      BY <1>1, <2>2 DEF Amid
    <3>2. ReadChar(In(words, "quote", ret), Backslash) = In(words, "quotebackslash", ret)
      BY SpecialsDiffer, ReadInQuote
    <3>3. ReadChar(In(words, "quotebackslash", ret), c) = In(words, "quote", Append(ret, c))
      BY ReadBehindBackslash
    <3> QED
      BY <2>1, <3>1, <3>2, <3>3 DEF Leads, x
  <2>3. CASE mode = "word" /\ n = 0
    <3>1. /\ Amid(mode, words, n, ret) = Fresh(words)
          /\ Amid(mode, words, n + 1, Append(ret, c)) = In(words, "word", Append(ret, c))
      BY <1>1, <2>3 DEF Amid
    <3>2. ReadChar(Fresh(words), Backslash) = In(words, "backslash", ret)
      BY SpecialsDiffer, <2>3, ReadFresh
    <3>3. ReadChar(In(words, "backslash", ret), c) = In(words, "word", Append(ret, c))
      BY ReadBehindBackslash
    <3> QED
      BY <2>1, <3>1, <3>2, <3>3 DEF Leads, x
  <2>4. CASE mode = "word" /\ n # 0
    <3>1. /\ Amid(mode, words, n, ret) = In(words, "word", ret)
          /\ Amid(mode, words, n + 1, Append(ret, c)) = In(words, "word", Append(ret, c))
      BY <1>1, <2>4 DEF Amid
    <3>2. ReadChar(In(words, "word", ret), Backslash) = In(words, "backslash", ret)
      BY SpecialsDiffer, ReadInWord
    <3>3. ReadChar(In(words, "backslash", ret), c) = In(words, "word", Append(ret, c))
      BY ReadBehindBackslash
    <3> QED
      BY <2>1, <3>1, <3>2, <3>3 DEF Leads, x
  <2> QED
    BY <2>2, <2>3, <2>4 DEF x
<1>3. CASE c \notin Escapable(mode)
  <2>1. Len(x) = 1 /\ x[1] = c
    BY <1>3 DEF Escaped
  <2> HIDE DEF x
  <2>2. CASE mode = "quote"
    <3>1. /\ Amid(mode, words, n, ret) = In(words, "quote", ret)
          /\ Amid(mode, words, n + 1, Append(ret, c)) = In(words, "quote", Append(ret, c))
      BY <1>1, <2>2 DEF Amid
    <3>2. ReadChar(In(words, "quote", ret), c) = In(words, "quote", Append(ret, c))
      BY <1>3, <2>2, ReadInQuote DEF Escapable
    <3> QED
      BY <2>1, <3>1, <3>2 DEF Leads, x
  <2>3. CASE mode = "word" /\ n = 0
    <3>1. /\ Amid(mode, words, n, ret) = Fresh(words)
          /\ Amid(mode, words, n + 1, Append(ret, c)) = In(words, "word", Append(ret, c))
      BY <1>1, <2>3 DEF Amid
    <3>2. ReadChar(Fresh(words), c) = In(words, "word", Append(ret, c))
      BY <1>3, <2>3, ReadFresh DEF Escapable, Special
    <3> QED
      BY <2>1, <3>1, <3>2 DEF Leads, x
  <2>4. CASE mode = "word" /\ n # 0
    <3>1. /\ Amid(mode, words, n, ret) = In(words, "word", ret)
          /\ Amid(mode, words, n + 1, Append(ret, c)) = In(words, "word", Append(ret, c))
      BY <1>1, <2>4 DEF Amid
    <3>2. ReadChar(In(words, "word", ret), c) = In(words, "word", Append(ret, c))
      BY <1>3, <2>4, ReadInWord DEF Escapable, Special
    <3> QED
      BY <2>1, <3>1, <3>2 DEF Leads, x
  <2> QED
    BY <2>2, <2>3, <2>4 DEF x
<1> QED
  BY <1>2, <1>3

\* So it is wherever it is in the line.
LEMMA PartRead ==
  ASSUME NEW line \in Word, NEW p, NEW part, Has(line, p, part),
         NEW to, Leads(part, Reading(line)[p], to)
  PROVE  Reading(line)[p + Len(part)] = to
<1> DEFINE r == Reading(line)
<1> HIDE DEF r
<1>1. \A n \in 1 .. Len(line) : r[n] = ReadChar(r[n - 1], line[n])
  BY ReadingIs DEF r
<1>2. p \in Nat
  BY DEF Has
<1>3. ASSUME NEW i \in 1 .. Len(part) PROVE r[p + i] = ReadChar(r[p + (i - 1)], part[i])
  <2>1. p + i \in 1 .. Len(line) /\ line[p + i] = part[i] /\ (p + i) - 1 = p + (i - 1)
    BY HasElement
  <2> QED
    BY <1>1, <2>1
<1>4. ASSUME 1 \in 1 .. Len(part) PROVE r[p + 1] = ReadChar(r[p], part[1])
  <2>1. p + (1 - 1) = p
    BY <1>2
  <2> QED
    BY <1>3, <1>4, <2>1
<1>5. ASSUME 2 \in 1 .. Len(part) PROVE r[p + 2] = ReadChar(r[p + 1], part[2])
  <2>1. p + (2 - 1) = p + 1
    BY <1>2
  <2> QED
    BY <1>3, <1>5, <2>1
<1>6. Len(part) = 1 => 1 \in 1 .. Len(part)
  OBVIOUS
<1>7. Len(part) = 2 => 1 \in 1 .. Len(part) /\ 2 \in 1 .. Len(part)
  OBVIOUS
<1>8. Leads(part, r[p], to)
  BY DEF r
<1>9. r[p + Len(part)] = to
  BY <1>4, <1>5, <1>6, <1>7, <1>8 DEF Leads
<1> QED
  BY <1>9 DEF r

\* So are those of a word, one after another.
LEMMA WithBackslashesRead ==
  ASSUME NEW line \in Word, NEW word \in Word, NEW mode \in {"quote", "word"},
         NEW words, NEW p, Has(line, p, WithBackslashes(word, Escapable(mode))),
         Reading(line)[p] = Amid(mode, words, 0, <<>>)
  PROVE  Reading(line)[p + Len(WithBackslashes(word, Escapable(mode)))]
           = Amid(mode, words, Len(word), word)
<1> DEFINE r == Reading(line)
           N == Len(word)
           e == Escaping(word, Escapable(mode))
           x == Escapes(word, Escapable(mode))
<1>1. N \in Nat /\ Grows(e, Symbols, x, N)
  BY EscapingIs
<1>2. Has(line, p, e[N]) /\ p \in Nat
  BY DEF WithBackslashes, Has
<1>3. \A n \in 1 .. N : x[n] = Escaped(word[n], Escapable(mode))
  BY DEF Escapes
<1>4. Len(e[0]) = 0
  BY <1>1 DEF Grows
<1>9. SubSeq(word, 1, N) = word /\ SubSeq(word, 1, 0) = <<>>
  BY SubSeqFull DEF Word
<1>10. r[p] = Amid(mode, words, 0, <<>>)
  OBVIOUS
<1>11. N = Len(word) /\ e[N] = WithBackslashes(word, Escapable(mode))
  BY DEF WithBackslashes
<1> HIDE DEF e, x, N
<1> DEFINE P == {n \in 0 .. N : r[p + Len(e[n])] = Amid(mode, words, n, SubSeq(word, 1, n))}
<1>6. 0 \in P
  <2>1. p + Len(e[0]) = p /\ 0 \in 0 .. N
    BY <1>1, <1>2, <1>4
  <2> QED
    BY <1>9, <1>10, <2>1
<1>7. ASSUME NEW n \in 1 .. N, n - 1 \in P PROVE n \in P
  <2>1. PICK k \in 0 .. N : k = n - 1 /\ n = k + 1
    <3>1. n - 1 \in 0 .. N /\ n = (n - 1) + 1
      BY <1>1
    <3> QED
      BY <3>1
  <2> DEFINE ret == SubSeq(word, 1, k)
             q == p + Len(e[k])
             c == word[n]
  <2>2. r[q] = Amid(mode, words, k, ret)
    BY <1>7, <2>1
  <2>3. x[n] = Escaped(c, Escapable(mode))
    BY <1>3
  <2>4. Append(ret, c) = SubSeq(word, 1, n) /\ (k = 0 => ret = <<>>)
    BY <1>1, <1>9, <2>1 DEF Word, N
  <2>5. /\ Len(e[k]) \in Nat /\ Len(x[n]) \in Nat /\ Len(e[n]) = Len(e[k]) + Len(x[n])
        /\ Has(e[N], Len(e[k]), x[n])
    <3>1. Follows(e, x, N, n)
      BY <1>1, GrowingPart
    <3> QED
      BY <2>1, <3>1 DEF Follows
  <2>6. Has(line, q, x[n])
    BY <1>2, <2>5, HasPart
  <2> HIDE DEF ret, q, c
  <2>7. Leads(x[n], r[q], Amid(mode, words, n, Append(ret, c)))
    <3>1. k \in Nat
      BY <1>1
    <3>2. Leads(x[n], Amid(mode, words, k, ret), Amid(mode, words, k + 1, Append(ret, c)))
      BY <2>3, <2>4, <3>1, EscapedRead
    <3> QED
      BY <2>1, <2>2, <3>2
  <2>8. r[q + Len(x[n])] = Amid(mode, words, n, Append(ret, c))
    BY <2>6, <2>7, PartRead
  <2>9. q + Len(x[n]) = p + Len(e[n])
    <3>1. \A a, b, c_1 \in Nat : (a + b) + c_1 = a + (b + c_1)
      OBVIOUS
    <3>2. q = p + Len(e[k])
      BY DEF q
    <3> QED
      <4>1. p \in Nat /\ Len(e[k]) \in Nat /\ Len(x[n]) \in Nat
        BY <1>2, <2>5
      <4>2. Len(e[n]) = Len(e[k]) + Len(x[n])
        BY <2>5
      <4>3. (p + Len(e[k])) + Len(x[n]) = p + (Len(e[k]) + Len(x[n]))
        BY <3>1, <4>1, Zenon
      <4> QED
        BY <3>2, <4>2, <4>3, Zenon
  <2>10. r[p + Len(e[n])] = Amid(mode, words, n, SubSeq(word, 1, n)) /\ n \in 0 .. N
    BY <1>1, <2>4, <2>8, <2>9
  <2> QED
    BY <2>10
<1>8. N \in P
  <2> HIDE DEF P
  <2>1. \A n \in 0 .. N : n \in P
    BY <1>1, <1>6, <1>7, UpTo
  <2>2. N \in 0 .. N
    BY <1>1
  <2> QED
    BY <2>1, <2>2
<1> QED
  BY <1>8, <1>9, <1>11

\* The parts of a concatenation.
LEMMA HasConcat ==
  ASSUME NEW S, NEW s \in Seq(S), NEW t \in Seq(S)
  PROVE  Has(s \o t, 0, s) /\ Has(s \o t, Len(s), t)
<1>1. /\ Len(s \o t) = Len(s) + Len(t) /\ Len(s) \in Nat /\ Len(t) \in Nat
      /\ \A i \in 1 .. Len(s) + Len(t) : (s \o t)[i] = IF i <= Len(s) THEN s[i] ELSE t[i - Len(s)]
  BY ConcatProperties, LenProperties
<1>2. ASSUME NEW i \in 1 .. Len(s) PROVE (s \o t)[0 + i] = s[i]
  <2>1. i \in 1 .. Len(s) + Len(t) /\ i <= Len(s) /\ 0 + i = i
    BY <1>1
  <2> QED
    BY <1>1, <2>1
<1>3. ASSUME NEW i \in 1 .. Len(t) PROVE (s \o t)[Len(s) + i] = t[i]
  <2>1. /\ Len(s) + i \in 1 .. Len(s) + Len(t) /\ ~(Len(s) + i <= Len(s))
        /\ (Len(s) + i) - Len(s) = i
    BY <1>1
  <2> QED
    BY <1>1, <2>1
<1> QED
  BY <1>1, <1>2, <1>3 DEF Has

\* A word as it is written is a word.
LEMMA WithBackslashesType ==
  ASSUME NEW word \in Word, NEW chars
  PROVE  WithBackslashes(word, chars) \in Word
<1>1. Len(word) \in Nat /\ Grows(Escaping(word, chars), Symbols, Escapes(word, chars), Len(word))
  BY EscapingIs
<1>2. Escaping(word, chars) \in [0 .. Len(word) -> Seq(Symbols)] /\ Len(word) \in 0 .. Len(word)
  BY <1>1 DEF Grows
<1> QED
  BY <1>2 DEF WithBackslashes, Word

\* So are a quotation mark and a space.
LEMMA QuoteType == <<Quote>> \in Word /\ <<Space>> \in Word
  <1>1. Quote \in Symbols /\ Space \in Symbols
    BY CommandLineAssumption
  <1> QED
    BY <1>1 DEF Word

\* In either style.
LEMMA WrittenType ==
  ASSUME NEW word \in Word, NEW style
  PROVE  Written(word, style) \in Word
<1>1. <<Quote>> \o WithBackslashes(word, {Quote, Backslash}) \in Word
  BY WithBackslashesType, QuoteType, ConcatProperties DEF Word
<1>2. InQuotes(word) \in Word
  BY <1>1, QuoteType, ConcatProperties DEF Word, InQuotes
<1> QED
  BY <1>2, WithBackslashesType DEF Written

\* Between quotation marks a word is read as itself.
LEMMA InQuotesRead ==
  ASSUME NEW line \in Word, NEW word \in Word, NEW words, NEW p,
         Has(line, p, InQuotes(word)), Reading(line)[p] = Fresh(words)
  PROVE  Reading(line)[p + Len(InQuotes(word))] = In(words, "word", word)
<1> DEFINE r == Reading(line)
           w == WithBackslashes(word, {Quote, Backslash})
           b == <<Quote>> \o w
           all == b \o <<Quote>>
<1>1. all = InQuotes(word)
  BY DEF InQuotes
<1>2. w \in Word /\ <<Quote>> \in Word /\ b \in Word
  BY WithBackslashesType, QuoteType, ConcatProperties DEF Word
<1>3. Len(w) \in Nat /\ Len(<<Quote>>) = 1 /\ Len(b) = 1 + Len(w) /\ Len(all) = (1 + Len(w)) + 1
  BY <1>2, ConcatProperties, LenProperties DEF Word
<1>4. Has(b, 0, <<Quote>>) /\ Has(b, 1, w) /\ Has(all, 0, b) /\ Has(all, 1 + Len(w), <<Quote>>)
  BY <1>2, <1>3, HasConcat DEF Word
<1>5. p \in Nat /\ Has(line, p, all)
  BY <1>1 DEF Has
<1>6. w = WithBackslashes(word, Escapable("quote"))
  BY DEF Escapable
<1> HIDE DEF w, b, all
<1>7. Has(all, 0 + 0, <<Quote>>) /\ Has(all, 0 + 1, w)
  BY <1>4, HasPart
<1>8. Has(line, p + 0, <<Quote>>) /\ Has(line, p + 1, w) /\ Has(line, p + (1 + Len(w)), <<Quote>>)
  <2>1. Has(all, 0, <<Quote>>) /\ Has(all, 1, w)
    BY <1>7
  <2>2. Has(line, p + 0, <<Quote>>)
    BY <1>5, <2>1, HasPart
  <2>3. Has(line, p + 1, w)
    BY <1>5, <2>1, HasPart
  <2>4. Has(line, p + (1 + Len(w)), <<Quote>>)
    BY <1>4, <1>5, HasPart
  <2> QED
    BY <2>2, <2>3, <2>4
<1>9. p + 0 = p /\ p + (1 + Len(w)) = (p + 1) + Len(w)
  BY <1>3, <1>5
<1>10. Leads(<<Quote>>, Fresh(words), In(words, "quote", <<>>))
  BY ReadFresh DEF Leads
<1>11. r[p + 1] = In(words, "quote", <<>>)
  <2>1. Has(line, p, <<Quote>>) /\ Len(<<Quote>>) = 1
    BY <1>8, <1>9
  <2> QED
    BY <1>10, <2>1, PartRead
<1>12. r[p + 1] = Amid("quote", words, 0, <<>>)
  BY <1>11 DEF Amid
<1>13. r[(p + 1) + Len(w)] = Amid("quote", words, Len(word), word)
  BY <1>6, <1>8, <1>12, WithBackslashesRead
<1>14. r[(p + 1) + Len(w)] = In(words, "quote", word)
  BY <1>13 DEF Amid
<1>15. Leads(<<Quote>>, In(words, "quote", word), In(words, "word", word))
  BY ReadInQuote DEF Leads
<1>16. r[((p + 1) + Len(w)) + 1] = In(words, "word", word)
  <2>1. Has(line, (p + 1) + Len(w), <<Quote>>) /\ Len(<<Quote>>) = 1
    BY <1>8, <1>9
  <2> QED
    BY <1>14, <1>15, <2>1, PartRead
<1>17. ((p + 1) + Len(w)) + 1 = p + Len(all)
  BY <1>3, <1>5
<1> QED
  BY <1>1, <1>16, <1>17

\* So it is in either style, whatever words are before it.
LEMMA WrittenRead ==
  ASSUME NEW line \in Word, NEW word \in Word, NEW style, NEW words, NEW p,
         Has(line, p, Written(word, style)), Reading(line)[p] = Fresh(words)
  PROVE  Reading(line)[p + Len(Written(word, style))] = In(words, "word", word)
<1>1. CASE word = <<>> \/ style = "quotes"
  BY <1>1, InQuotesRead DEF Written
<1>2. CASE ~(word = <<>> \/ style = "quotes")
  <2>1. Written(word, style) = WithBackslashes(word, Escapable("word"))
    BY <1>2 DEF Written, Escapable
  <2>2. Reading(line)[p] = Amid("word", words, 0, <<>>)
    BY DEF Amid
  <2>3. Reading(line)[p + Len(Written(word, style))] = Amid("word", words, Len(word), word)
    BY <2>1, <2>2, WithBackslashesRead
  <2>4. Len(word) # 0
    BY <1>2 DEF Word
  <2> QED
    BY <2>3, <2>4 DEF Amid
<1> QED
  BY <1>1, <1>2

\* The parts of a line: the words as they are written, each but the first behind a space.
Writes(words, style) == [n \in 1 .. Len(words) |-> Separator(n) \o Written(words[n], style)]

\* Line() puts them together.
LEMMA WritingIs ==
  ASSUME NEW words \in Seq(Word), NEW style
  PROVE  Grows(Writing(words, style), Symbols, Writes(words, style), Len(words))
<1> DEFINE N == Len(words)
           x == Writes(words, style)
           Equation(f) == f = [n \in 0 .. N |-> IF n = 0 THEN <<>>
                                 ELSE f[n - 1] \o (Separator(n) \o Written(words[n], style))]
<1>1. N \in Nat /\ \A n \in 1 .. N : words[n] \in Word
  OBVIOUS
<1>2. x \in [1 .. N -> Seq(Symbols)]
  <2>1. ASSUME NEW n \in 1 .. N PROVE Separator(n) \o Written(words[n], style) \in Seq(Symbols)
    <3>1. Written(words[n], style) \in Seq(Symbols)
      BY <1>1, WrittenType DEF Word
    <3>2. <<>> \in Seq(Symbols)
      OBVIOUS
    <3>3. Separator(n) \in Seq(Symbols)
      BY <3>2, QuoteType DEF Separator, Word
    <3> QED
      BY <3>1, <3>3, ConcatProperties
  <2> QED
    BY <2>1 DEF Writes
<1>3. ASSUME NEW f
      PROVE  Equation(f) <=> Concatenates(f, x, N)
  <2>1. [n \in 0 .. N |-> IF n = 0 THEN <<>>
                          ELSE f[n - 1] \o (Separator(n) \o Written(words[n], style))]
          = [n \in 0 .. N |-> IF n = 0 THEN <<>> ELSE f[n - 1] \o x[n]]
    BY <1>1 DEF Writes
  <2> QED
    BY <2>1 DEF Concatenates
<1>4. Writing(words, style) = CHOOSE f : Equation(f)
  BY DEF Writing
<1> HIDE DEF N, x, Equation
<1>5. Equation(Writing(words, style))
  BY <1>1, <1>2, <1>3, <1>4, Concatenations
<1>6. Grows(Writing(words, style), Symbols, x, N)
  BY <1>1, <1>2, <1>3, <1>5, Concatenations
<1> QED
  BY <1>6 DEF N, x

\* A line is a sequence of symbols like a word.
LEMMA LineType ==
  ASSUME NEW words \in Seq(Word), NEW style
  PROVE  Line(words, style) \in Word
<1>0. Grows(Writing(words, style), Symbols, Writes(words, style), Len(words))
  BY WritingIs
<1>1. /\ Writing(words, style) \in [0 .. Len(words) -> Seq(Symbols)]
      /\ Len(words) \in 0 .. Len(words)
  BY <1>0 DEF Grows
<1> QED
  BY <1>1 DEF Line, Word

\* Behind a line the tokenizer has its words, the last of them not yet ended.
LEMMA LineRead ==
  ASSUME NEW line \in Word, NEW words \in Seq(Word), words # <<>>, NEW style,
         Has(line, 0, Line(words, style))
  PROVE  Reading(line)[Len(Line(words, style))]
           = In(SubSeq(words, 1, Len(words) - 1), "word", words[Len(words)])
<1> DEFINE r == Reading(line)
           N == Len(words)
           e == Writing(words, style)
           x == Writes(words, style)
           At(n) == r[Len(e[n])] = In(SubSeq(words, 1, n - 1), "word", words[n])
           P == {n \in 0 .. N : n > 0 => At(n)}
<1>1. N \in Nat /\ N > 0 /\ \A n \in 1 .. N : words[n] \in Word
  OBVIOUS
<1>2. Grows(e, Symbols, x, N)
  BY WritingIs
<1>3. Has(line, 0, e[N])
  BY DEF Line
<1>4. r[Len(e[0])] = Fresh(<<>>)
  BY <1>2, ReadingIs DEF Grows, NoWords, Fresh
<1>5. ASSUME NEW n \in 1 .. N PROVE x[n] = Separator(n) \o Written(words[n], style)
  BY DEF Writes
<1>6. 0 \in P
  BY <1>1
<1>7. e[N] = Line(words, style)
  BY DEF Line
<1> HIDE DEF e, x, r, At
<1>8. ASSUME NEW n \in 1 .. N, n - 1 \in P PROVE n \in P
  <2> DEFINE k == n - 1
             q == Len(e[k])
             w == Written(words[n], style)
  <2>1. k \in 0 .. N /\ n = k + 1 /\ n \in 0 .. N /\ n > 0
    BY <1>1
  <2>2. q \in Nat /\ Len(x[n]) \in Nat /\ Len(e[n]) = q + Len(x[n]) /\ Has(e[N], q, x[n])
    <3>1. Follows(e, x, N, n)
      BY <1>2, GrowingPart
    <3> QED
      BY <3>1 DEF Follows
  <2>3. Has(line, 0 + q, x[n]) /\ 0 + q = q
    BY <1>3, <2>2, HasPart
  <2>4. w \in Word /\ words[n] \in Word
    BY <1>1, WrittenType
  <2> HIDE DEF k, q, w
  <2>5. Has(line, q, x[n])
    BY <2>3
  <2>6. CASE k = 0
    <3>1. n = 1 /\ q = Len(e[0])
      BY <2>1, <2>6 DEF q
    <3>2. x[n] = w
      <4>1. x[n] = <<>> \o w
        BY <1>5, <3>1 DEF Separator, w
      <4> QED
        BY <2>4, <4>1, ConcatEmptySeq DEF Word
    <3>3. r[q + Len(w)] = In(<<>>, "word", words[n])
      <4>1. Has(line, q, Written(words[n], style)) /\ Reading(line)[q] = Fresh(<<>>)
        BY <1>4, <2>5, <3>1, <3>2 DEF w, r
      <4> QED
        BY <2>4, <4>1, WrittenRead DEF w, r
    <3>4. SubSeq(words, 1, n - 1) = <<>>
      BY <3>1
    <3> QED
      BY <2>1, <2>2, <3>2, <3>3, <3>4 DEF At
  <2>7. CASE k # 0
    <3>1. k \in 1 .. N /\ k > 0
      BY <2>1, <2>7, <1>1
    <3>2. At(k)
      BY <1>8, <2>1, <3>1 DEF k
    <3>3. r[q] = In(SubSeq(words, 1, k - 1), "word", words[k])
      BY <3>2 DEF At, q
    <3>4. x[n] = <<Space>> \o w
      BY <1>5, <2>1, <2>7 DEF Separator, w
    <3>5. Has(x[n], 0, <<Space>>) /\ Has(x[n], 1, w) /\ Len(x[n]) = 1 + Len(w) /\ Len(w) \in Nat
      <4>1. <<Space>> \in Seq(Symbols) /\ w \in Seq(Symbols) /\ Len(<<Space>>) = 1
        BY <2>4, QuoteType DEF Word
      <4>2. Has(x[n], 0, <<Space>>) /\ Has(x[n], 1, w)
        BY <3>4, <4>1, HasConcat
      <4>3. Len(x[n]) = 1 + Len(w) /\ Len(w) \in Nat
        BY <3>4, <4>1, ConcatProperties, LenProperties
      <4> QED
        BY <4>2, <4>3
    <3>6. Has(line, q, <<Space>>)
      <4>1. Has(line, q + 0, <<Space>>)
        BY <2>5, <3>5, HasPart
      <4>2. q + 0 = q
        BY <2>2
      <4> QED
        BY <4>1, <4>2
    <3>7. Has(line, q + 1, w)
      BY <2>5, <3>5, HasPart
    <3>8. Append(SubSeq(words, 1, k - 1), words[k]) = SubSeq(words, 1, n - 1)
      BY <1>1, <2>1, <3>1
    <3>9. Leads(<<Space>>, r[q], Fresh(SubSeq(words, 1, n - 1)))
      <4>1. ReadChar(r[q], Space) = Fresh(Append(SubSeq(words, 1, k - 1), words[k]))
        BY <3>3, ReadInWord
      <4>2. Len(<<Space>>) = 1 /\ <<Space>>[1] = Space
        OBVIOUS
      <4> QED
        BY <3>8, <4>1, <4>2 DEF Leads
    <3>10. r[q + 1] = Fresh(SubSeq(words, 1, n - 1))
      <4>1. Has(line, q, <<Space>>) /\ Len(<<Space>>) = 1
        BY <3>6
      <4> QED
        BY <3>9, <4>1, PartRead DEF r
    <3>11. r[(q + 1) + Len(w)] = In(SubSeq(words, 1, n - 1), "word", words[n])
      BY <2>4, <3>7, <3>10, WrittenRead DEF w, r
    <3>12. (q + 1) + Len(w) = Len(e[n])
      BY <2>2, <3>5
    <3> QED
      BY <2>1, <3>11, <3>12 DEF At
  <2> QED
    BY <2>6, <2>7
<1>9. At(N)
  <2>1. \A n \in 0 .. N : n \in P
    <3> HIDE DEF P
    <3> QED
      BY <1>1, <1>6, <1>8, UpTo
  <2>2. N \in 0 .. N
    BY <1>1
  <2> QED
    BY <1>1, <2>1, <2>2
<1> QED
  BY <1>7, <1>9 DEF At, r

\* ShellStringTokenizer: the words that a line was written for come out of it, in each style
\* of quoting and whatever characters they hold.
THEOREM TokenizeLine ==
  ASSUME NEW words \in Seq(Word), NEW style
  PROVE  Tokenize(Line(words, style)) = words
<1> DEFINE line == Line(words, style)
<1>1. line \in Word /\ Len(line) \in Nat
  BY LineType DEF Word
<1>2. CASE words = <<>>
  <2>1. Len(words) = 0
    BY <1>2
  <2>2. Grows(Writing(words, style), Symbols, Writes(words, style), Len(words))
    BY WritingIs
  <2>3. line = <<>>
    BY <2>1, <2>2 DEF Grows, Line
  <2>4. Reading(line)[Len(line)] = NoWords
    BY <1>1, <2>3, ReadingIs
  <2> QED
    BY <1>2, <2>4 DEF Tokenize, Tokens, NoWords, NoToken
<1>3. CASE words # <<>>
  <2> DEFINE n == Len(words)
  <2>1. n \in Nat /\ n > 0 /\ Append(SubSeq(words, 1, n - 1), words[n]) = words
    BY <1>3
  <2>2. Has(line, 0, line)
    BY <1>1 DEF Has
  <2>3. Reading(line)[Len(line)] = In(SubSeq(words, 1, n - 1), "word", words[n])
    BY <1>1, <1>3, <2>2, LineRead
  <2> HIDE DEF n, line
  <2>4. Tokens(In(SubSeq(words, 1, n - 1), "word", words[n])) = words
    BY <2>1 DEF Tokens, In
  <2> QED
    BY <2>3, <2>4 DEF Tokenize, line
<1> QED
  BY <1>2, <1>3

\* So they do before a word that is only begun, and what is typed of it comes out last: the
\* words that Shell::complete() works with.
THEOREM TokenizeHalfLine ==
  ASSUME NEW words \in Seq(Word), words # <<>>, NEW style,
         NEW text \in Word, \A i \in DOMAIN text : text[i] \notin Special
  PROVE  Tokenize(Append(Line(words, style), Space) \o text)
           = IF text = <<>> THEN words ELSE Append(words, text)
<1> DEFINE typed == Line(words, style)
           begun == Append(typed, Space)
           line == begun \o text
           r == Reading(line)
           L == Len(begun)
           n == Len(words)
<1>1. typed \in Word /\ <<Space>> \in Word /\ begun = typed \o <<Space>>
  BY LineType, QuoteType, AppendIsConcat, CommandLineAssumption DEF Word
<1>2. begun \in Word /\ line \in Word
  BY <1>1, ConcatProperties DEF Word
<1>3. /\ Len(typed) \in Nat /\ L = Len(typed) + 1 /\ Len(text) \in Nat /\ Len(line) = L + Len(text)
  BY <1>1, <1>2, ConcatProperties, LenProperties DEF Word
<1>4. Has(begun, 0, typed) /\ Has(begun, Len(typed), <<Space>>)
  BY <1>1, HasConcat DEF Word
<1>5. Has(line, 0, begun) /\ Has(line, L, text)
  BY <1>2, HasConcat DEF Word
<1> HIDE DEF typed, begun, line, r, L
<1>6. Has(line, 0, typed) /\ Has(line, Len(typed), <<Space>>)
  <2>1. Has(line, 0 + 0, typed) /\ Has(line, 0 + Len(typed), <<Space>>)
    BY <1>4, <1>5, HasPart
  <2> QED
    BY <1>3, <2>1
<1>7. r[Len(typed)] = In(SubSeq(words, 1, n - 1), "word", words[n])
  BY <1>2, <1>6, LineRead DEF typed, r
<1>8. r[L] = Fresh(words)
  <2>1. Append(SubSeq(words, 1, n - 1), words[n]) = words
    OBVIOUS
  <2>2. ReadChar(r[Len(typed)], Space) = Fresh(words)
    <3>1. \A u, v : ReadChar(In(u, "word", v), Space) = Fresh(Append(u, v))
      BY ReadInWord
    <3> QED
      BY <1>7, <2>1, <3>1
  <2>3. Len(<<Space>>) = 1 /\ <<Space>>[1] = Space
    OBVIOUS
  <2>4. Leads(<<Space>>, r[Len(typed)], Fresh(words))
    BY <2>2, <2>3 DEF Leads
  <2>5. r[Len(typed) + Len(<<Space>>)] = Fresh(words)
    BY <1>2, <1>6, <2>4, PartRead DEF r
  <2> QED
    BY <1>3, <2>3, <2>5
<1> DEFINE P == {k \in 0 .. Len(text) : r[L + k] = Amid("word", words, k, SubSeq(text, 1, k))}
<1>9. 0 \in P
  <2>1. L + 0 = L /\ SubSeq(text, 1, 0) = <<>> /\ 0 \in 0 .. Len(text)
    BY <1>3
  <2> QED
    BY <1>8, <2>1 DEF Amid
<1>10. ASSUME NEW k \in 1 .. Len(text), k - 1 \in P PROVE k \in P
  <2> DEFINE j == k - 1
             ret == SubSeq(text, 1, j)
             c == text[k]
  <2>1. j \in 0 .. Len(text) /\ k = j + 1 /\ k \in 0 .. Len(text) /\ j \in Nat
    BY <1>3
  <2>2. r[L + j] = Amid("word", words, j, ret)
    BY <1>10
  <2>3. Append(ret, c) = SubSeq(text, 1, k) /\ (j = 0 => ret = <<>>)
    BY <2>1 DEF Word
  <2>4. c \notin Special
    BY DEF Word
  <2>5. Escaped(c, Escapable("word")) = <<c>>
    BY <2>4 DEF Escaped, Escapable
  <2> HIDE DEF j, ret, c
  <2>6. Leads(<<c>>, Amid("word", words, j, ret), Amid("word", words, j + 1, Append(ret, c)))
    BY <2>1, <2>3, <2>5, EscapedRead
  <2>7. Has(line, L + j, <<c>>) /\ Len(<<c>>) = 1
    <3>1. /\ L \in Nat /\ Len(text) \in Nat /\ Len(line) \in Nat /\ L + Len(text) <= Len(line)
          /\ line[L + k] = text[k]
      BY <1>5 DEF Has
    <3>2. L + j \in Nat /\ (L + j) + 1 <= Len(line) /\ (L + j) + 1 = L + k
      BY <2>1, <3>1
    <3>3. Len(<<c>>) = 1 /\ <<c>>[1] = c
      OBVIOUS
    <3>4. \A i \in 1 .. 1 : line[(L + j) + i] = <<c>>[i]
      BY <3>1, <3>2, <3>3 DEF c
    <3> QED
      BY <3>1, <3>2, <3>3, <3>4 DEF Has
  <2>8. r[(L + j) + 1] = Amid("word", words, k, SubSeq(text, 1, k))
    BY <1>2, <2>1, <2>2, <2>3, <2>6, <2>7, PartRead DEF r
  <2>9. (L + j) + 1 = L + k
    BY <1>3, <2>1
  <2> QED
    BY <2>1, <2>8, <2>9
<1>11. r[Len(line)] = Amid("word", words, Len(text), text)
  <2>1. \A k \in 0 .. Len(text) : k \in P
    <3> HIDE DEF P
    <3> QED
      BY <1>3, <1>9, <1>10, UpTo
  <2>2. Len(text) \in P
    BY <1>3, <2>1
  <2>3. SubSeq(text, 1, Len(text)) = text
    BY SubSeqFull DEF Word
  <2> QED
    BY <1>3, <2>2, <2>3
<1>12. CASE text = <<>>
  <2>1. r[Len(line)] = Fresh(words)
    BY <1>11, <1>12 DEF Amid
  <2> QED
    BY <1>12, <2>1 DEF Tokenize, Tokens, Fresh, NoToken, r, line, begun, typed
<1>13. CASE text # <<>>
  <2>1. Len(text) # 0
    BY <1>13 DEF Word
  <2>2. r[Len(line)] = In(words, "word", text)
    BY <1>11, <2>1 DEF Amid
  <2>3. Tokens(In(words, "word", text)) = Append(words, text)
    BY DEF Tokens, In
  <2> QED
    BY <1>13, <2>2, <2>3 DEF Tokenize, r, line, begun, typed
<1> QED
  BY <1>12, <1>13

-----------------------------------------------------------------------------
(* The parser of the program's options                                     *)

\* What parse() works with.
Value == [type : {"invalid", "flag", "string"}, string : Word]
Parser == [values : [Options -> Value], args : Seq(Word), awaits : SUBSET Options, rest : BOOLEAN]

\* The letters of a word are some of its symbols.
LEMMA LettersType ==
  ASSUME NEW word \in Word, word # <<>>
  PROVE  Letters(word) \in Word
<1> DEFINE all == Tail(word)
           ends == {i \in DOMAIN all : all[i] \notin Flags}
           end == CHOOSE i \in ends : \A j \in ends : i <= j
<1>1. all \in Seq(Symbols) /\ Len(all) \in Nat /\ DOMAIN all = 1 .. Len(all)
  BY DEF Word
<1>2. CASE ends = {}
  <2>1. Letters(word) = all
    BY <1>2 DEF Letters
  <2> QED
    BY <1>1, <2>1 DEF Word
<1>3. CASE ends # {}
  <2>1. ends \in SUBSET Nat
    BY <1>1
  <2>2. end \in ends
    <3> HIDE DEF ends
    <3>1. \E i \in ends : \A j \in ends : i <= j
      BY <1>3, <2>1, LeastOne
    <3> QED
      BY <3>1
  <2>3. end \in 1 .. Len(all)
    BY <1>1, <2>2
  <2>4. Letters(word) = SubSeq(all, 1, end)
    BY <1>3 DEF Letters
  <2> HIDE DEF end, all
  <2>5. SubSeq(all, 1, end) \in Seq(Symbols)
    BY <1>1, <2>3
  <2> QED
    BY <2>4, <2>5 DEF Word
<1> QED
  BY <1>2, <1>3

\* An option is set to a value.
LEMMA SetFlagsType ==
  ASSUME NEW values \in [Options -> Value], NEW letters
  PROVE  SetFlags(values, letters) \in [Options -> Value]
<1>1. Flag \in Value
  BY DEF Flag, Value, Word
<1> QED
  BY <1>1 DEF SetFlags

\* Or to a string.
LEMMA SetValueType ==
  ASSUME NEW values \in [Options -> Value], NEW letter, NEW word \in Word
  PROVE  SetValue(values, letter, String(word)) \in [Options -> Value]
<1>1. String(word) \in Value
  BY DEF String, Value
<1> QED
  BY <1>1 DEF SetValue

\* The parts of a parser,
LEMMA ParserFields ==
  ASSUME NEW acc \in Parser
  PROVE  /\ acc.values \in [Options -> Value] /\ acc.args \in Seq(Word)
         /\ acc.awaits \in SUBSET Options /\ acc.rest \in BOOLEAN
  BY DEF Parser

\* and a parser of its parts.
LEMMA ParserMade ==
  ASSUME NEW v \in [Options -> Value], NEW a \in Seq(Word), NEW w \in SUBSET Options,
         NEW r \in BOOLEAN
  PROVE  [values |-> v, args |-> a, awaits |-> w, rest |-> r] \in Parser
  BY DEF Parser

\* What each kind of word makes of a parser is one.
LEMMA PassType ==
  ASSUME NEW acc \in Parser, NEW word \in Word, NEW rest \in BOOLEAN
  PROVE  Pass(acc, word, rest) \in Parser
<1>1. Append(acc.args, word) \in Seq(Word) /\ {} \in SUBSET Options
  BY ParserFields
<1> QED
  BY <1>1, ParserFields, ParserMade DEF Pass

\* The argument of an option.
LEMMA ParseArgumentType ==
  ASSUME NEW acc \in Parser, NEW word \in Word
  PROVE  ParseArgument(acc, word) \in Parser
<1> DEFINE o == CHOOSE o \in acc.awaits : TRUE
<1>1. SetValue(acc.values, o, String(word)) \in [Options -> Value]
  BY ParserFields, SetValueType
<1> QED
  BY <1>1, ParserFields, ParserMade DEF ParseArgument

\* An option that is none.
LEMMA ParseInvalidType ==
  ASSUME NEW acc \in Parser, NEW word \in Word
  PROVE  ParseInvalid(acc, word) \in Parser
<1> DEFINE v == SetFlags(acc.values, ToSet(Front(Letters(word))))
           a == IF AllRead(word) THEN <<>> ELSE <<word>>
<1>1. v \in [Options -> Value]
  BY ParserFields, SetFlagsType
<1>2. a \in Seq(Word)
  OBVIOUS
<1> HIDE DEF v, a
<1>3. [values |-> v, args |-> a, awaits |-> {}, rest |-> TRUE] \in Parser
  BY <1>1, <1>2, ParserMade
<1> QED
  BY <1>3 DEF ParseInvalid, v, a

\* An option.
LEMMA ParseOptionType ==
  ASSUME NEW acc \in Parser, NEW word \in Word, word # <<>>, ~Unknown(word)
  PROVE  ParseOption(acc, word) \in Parser
<1> DEFINE last   == Last(Letters(word))
           values == SetFlags(acc.values, ToSet(Letters(word)) \cap Flags)
           string == SubSeq(word, Len(Letters(word)) + 2, Len(word))
           awaits == IF last \in Strings /\ AllRead(word) THEN {last} ELSE {}
           v == IF last \in Flags \/ awaits # {} THEN values
                ELSE SetValue(values, last, String(string))
<1>1. last \in Options
  BY DEF Unknown
<1>2. values \in [Options -> Value]
  BY ParserFields, SetFlagsType
<1>3. string \in Word
  <2>1. Len(Letters(word)) \in Nat
    BY LettersType DEF Word
  <2>2. Len(word) \in Nat /\ \A i \in 1 .. Len(word) : word[i] \in Symbols
    BY DEF Word
  <2> DEFINE k == Len(Letters(word))
  <2> HIDE DEF k
  <2>3. \A i \in k + 2 .. Len(word) : word[i] \in Symbols
    BY <2>1, <2>2 DEF k
  <2> QED
    BY <2>1, <2>2, <2>3, SubSeqProperties DEF Word, k
<1>4. v \in [Options -> Value]
  <2> HIDE DEF last, values, string, awaits
  <2>1. SetValue(values, last, String(string)) \in [Options -> Value]
    BY <1>2, <1>3, SetValueType
  <2> QED
    BY <1>2, <2>1
<1>5. awaits \in SUBSET Options
  <2> HIDE DEF last
  <2> QED
    BY <1>1
<1>6. ParseOption(acc, word)
        = [values |-> v, args |-> acc.args, awaits |-> awaits, rest |-> acc.rest]
  BY DEF ParseOption
<1> HIDE DEF v, awaits
<1>7. [values |-> v, args |-> acc.args, awaits |-> awaits, rest |-> acc.rest] \in Parser
  BY <1>4, <1>5, ParserFields, ParserMade
<1> QED
  BY <1>6, <1>7

\* Any word.
LEMMA ParseWordType ==
  ASSUME NEW acc \in Parser, NEW word \in Word
  PROVE  ParseWord(acc, word) \in Parser
<1>1. CASE acc.awaits # {}
  BY <1>1, ParseArgumentType DEF ParseWord
<1>2. CASE acc.awaits = {} /\ (acc.rest \/ ~IsOption(word))
  <2>1. (acc.rest \/ ~Permute) \in BOOLEAN
    OBVIOUS
  <2> QED
    BY <1>2, <2>1, PassType DEF ParseWord
<1>3. CASE acc.awaits = {} /\ ~acc.rest /\ IsOption(word)
  <2>1. word # <<>>
    BY <1>3 DEF IsOption
  <2>2. EndOptions(acc) \in Parser
    BY ParserFields, ParserMade DEF EndOptions
  <2> QED
    BY <1>3, <2>1, <2>2, ParseInvalidType, ParseOptionType DEF ParseWord
<1> QED
  BY <1>1, <1>2, <1>3

\* It begins as one.
LEMMA ParsingType == Parsing \in Parser
<1>1. <<>> \in Word /\ <<>> \in Seq(Word)
  BY DEF Word
<1>2. [o \in Options |-> NotGiven] \in [Options -> Value]
  BY <1>1 DEF NotGiven, Value
<1> QED
  BY <1>1, <1>2, ParserMade DEF Parsing

\* Parsings(argv) goes word by word.
LEMMA ParsingsIs ==
  ASSUME NEW argv \in Seq(Word)
  PROVE  /\ Parsings(argv) \in [0 .. Len(argv) -> Parser]
         /\ Parsings(argv)[0] = Parsing
         /\ \A n \in 1 .. Len(argv) : Parsings(argv)[n] = ParseWord(Parsings(argv)[n - 1], argv[n])
<1>1. Len(argv) \in Nat /\ \A n \in 1 .. Len(argv) : argv[n] \in Word
  OBVIOUS
<1>2. Parsing \in Parser
  BY ParsingType
<1> DEFINE H == [n \in 1 .. Len(argv) |-> [acc \in Parser |-> ParseWord(acc, argv[n])]]
<1>3. H \in [1 .. Len(argv) -> [Parser -> Parser]]
  BY <1>1, ParseWordType
<1>4. PICK r : Recurs(r, Parser, Parsing, Len(argv), H)
  <2> HIDE DEF H
  <2>1. Len(argv) \in Nat
    BY <1>1
  <2> QED
    BY <2>1, <1>2, <1>3, Recursion
<1>5. ASSUME NEW n \in 1 .. Len(argv) PROVE r[n] = ParseWord(r[n - 1], argv[n])
  <2>1. n - 1 \in 0 .. Len(argv) /\ r[n - 1] \in Parser
    BY <1>1, <1>4 DEF Recurs
  <2>2. r[n] = H[n][r[n - 1]]
    BY <1>4 DEF Recurs
  <2> QED
    BY <2>1, <2>2
<1> DEFINE Equation(f) == f = [n \in 0 .. Len(argv) |->
                                 IF n = 0 THEN Parsing ELSE ParseWord(f[n - 1], argv[n])]
<1>6. Equation(r)
  BY <1>1, <1>4, <1>5 DEF Recurs
<1>7. Parsings(argv) = CHOOSE f : Equation(f)
  BY DEF Parsings
<1>8. Equation(Parsings(argv))
  <2> HIDE DEF Equation
  <2> QED
    BY <1>6, <1>7
<1> DEFINE f == Parsings(argv)
<1> HIDE DEF f
<1>9. f = [n \in 0 .. Len(argv) |-> IF n = 0 THEN Parsing ELSE ParseWord(f[n - 1], argv[n])]
  BY <1>8 DEF f
<1>13. /\ DOMAIN f = 0 .. Len(argv)
       /\ f[0] = Parsing
       /\ \A n \in 1 .. Len(argv) : f[n] = ParseWord(f[n - 1], argv[n])
  <2>1. DOMAIN f = 0 .. Len(argv)
    BY <1>9
  <2>2. \A n \in 0 .. Len(argv) : f[n] = IF n = 0 THEN Parsing ELSE ParseWord(f[n - 1], argv[n])
    BY <1>9
  <2>3. 0 \in 0 .. Len(argv) /\ \A n \in 1 .. Len(argv) : n \in 0 .. Len(argv) /\ n # 0
    BY <1>1
  <2> QED
    BY <2>1, <2>2, <2>3
<1>14. f = [n \in 0 .. Len(argv) |-> f[n]]
  BY <1>9
<1> DEFINE S == {n \in 0 .. Len(argv) : f[n] \in Parser}
<1>10. 0 \in S
  BY <1>1, <1>2, <1>13
<1>11. ASSUME NEW n \in 1 .. Len(argv), n - 1 \in S PROVE n \in S
  <2>1. f[n - 1] \in Parser /\ argv[n] \in Word /\ f[n] = ParseWord(f[n - 1], argv[n])
    BY <1>1, <1>13, <1>11
  <2>2. f[n] \in Parser
    BY <2>1, ParseWordType
  <2> QED
    BY <2>2
<1>12. \A n \in 0 .. Len(argv) : f[n] \in Parser
  <2>1. Len(argv) \in Nat
    BY <1>1
  <2> HIDE DEF S
  <2>2. \A n \in 0 .. Len(argv) : n \in S
    BY <1>10, <1>11, <2>1, UpTo
  <2> QED
    BY <2>2 DEF S
<1> QED
  BY <1>13, <1>14, <1>12 DEF f


\* parse() drops the arguments if an option waits for its own, and nothing else.
LEMMA ParseType ==
  ASSUME NEW argv \in Seq(Word)
  PROVE  /\ Parse(argv) \in Parser
         /\ Parse(argv).values = Parsings(argv)[Len(argv)].values
         /\ Parse(argv).awaits = Parsings(argv)[Len(argv)].awaits
         /\ Parse(argv).rest = Parsings(argv)[Len(argv)].rest
         /\ Parse(argv).awaits = {} => Parse(argv).args = Parsings(argv)[Len(argv)].args
<1> DEFINE end == Parsings(argv)[Len(argv)]
<1>1. end \in Parser
  BY ParsingsIs
<1>2. Parse(argv) = IF end.awaits # {} THEN [end EXCEPT !.args = <<>>] ELSE end
  BY DEF Parse
<1>3. <<>> \in Seq(Word)
  OBVIOUS
<1> HIDE DEF end
<1> QED
  BY <1>1, <1>2, <1>3 DEF Parser, end

\* What comes behind some words has no effect on what they are parsed to.
LEMMA ParsingsOfBeginning ==
  ASSUME NEW o \in Seq(Word), NEW w \in Seq(Word)
  PROVE  \A n \in 0 .. Len(o) : Parsings(o \o w)[n] = Parsings(o)[n]
<1> DEFINE ow == o \o w
           P == {n \in 0 .. Len(o) : Parsings(ow)[n] = Parsings(o)[n]}
<1>1. /\ ow \in Seq(Word) /\ Len(ow) = Len(o) + Len(w)
      /\ Len(o) \in Nat /\ Len(w) \in Nat /\ \A n \in 1 .. Len(o) : ow[n] = o[n]
  BY ConcatProperties
<1> HIDE DEF ow
<1>2. Parsings(ow)[0] = Parsing /\ Parsings(o)[0] = Parsing
  BY <1>1, ParsingsIs
<1>3. \A n \in 1 .. Len(ow) : Parsings(ow)[n] = ParseWord(Parsings(ow)[n - 1], ow[n])
  BY <1>1, ParsingsIs
<1>4. \A n \in 1 .. Len(o) : Parsings(o)[n] = ParseWord(Parsings(o)[n - 1], o[n])
  BY ParsingsIs
<1>5. 0 \in P
  BY <1>1, <1>2
<1>6. ASSUME NEW n \in 1 .. Len(o), n - 1 \in P PROVE n \in P
  <2>1. n \in 1 .. Len(ow) /\ Parsings(ow)[n - 1] = Parsings(o)[n - 1]
    BY <1>1, <1>6
  <2> QED
    BY <1>1, <1>3, <1>4, <2>1
<1>7. \A n \in 0 .. Len(o) : n \in P
  <2> HIDE DEF P
  <2> QED
    BY <1>1, <1>5, <1>6, UpTo
<1> QED
  BY <1>7 DEF ow

\* OptionParser: the words of a batch, behind complete options of the program, are its
\* arguments as they were given, and no option is read out of them.
THEOREM WordsLeft ==
  ASSUME NEW o \in Seq(Word), NEW w \in Seq(Word), Parse(o).args = <<>>, Parse(o).awaits = {},
         EndOfOptions \in ToSet(o) => Parse(o).rest, Sheltered(o, w)
  PROVE  Parse(o \o w).args = w /\ Parse(o \o w).values = Parse(o).values
<1> DEFINE ow == o \o w
           N == Len(o)
           p(k) == Parsings(ow)[N + k]
           v == Parse(o).values
           None == \A i \in 1 .. Len(w) : ~IsOption(w[i])
           Good(k) == /\ p(k).values = v /\ p(k).awaits = {}
                      /\ p(k).args = SubSeq(w, 1, k)
                      /\ \/ p(k).rest
                         \/ None
                         \/ /\ ~Permute /\ k = 0 /\ w # <<>> /\ ~IsOption(w[1])
           P == {k \in 0 .. Len(w) : Good(k)}
<1>1. /\ ow \in Seq(Word) /\ Len(ow) = N + Len(w) /\ N \in Nat /\ Len(w) \in Nat
      /\ \A n \in N + 1 .. N + Len(w) : ow[n] = w[n - N]
  BY ConcatProperties
<1>2. p(0) = Parsings(o)[N]
  BY <1>1, ParsingsOfBeginning
<1>3. p(0).values = v /\ p(0).awaits = {} /\ p(0).args = <<>> /\ p(0).rest = Parse(o).rest
  BY <1>2, ParseType
<1>4. SubSeq(w, 1, 0) = <<>>
  OBVIOUS
<1>5. p(0).rest \/ None \/ (~Permute /\ w # <<>> /\ ~IsOption(w[1]))
  BY <1>3 DEF Sheltered
<1> HIDE DEF p, None, v, ow, N
<1>6. 0 \in P
  <2>1. 0 \in 0 .. Len(w)
    BY <1>1
  <2>2. Good(0)
    BY <1>3, <1>4, <1>5
  <2> QED
    BY <2>1, <2>2
<1>7. ASSUME NEW k \in 1 .. Len(w), k - 1 \in P PROVE k \in P
  <2> DEFINE j == k - 1
  <2>1. /\ j \in Nat /\ k = j + 1 /\ N + k \in 1 .. Len(ow) /\ (N + k) - 1 = N + j
        /\ ow[N + k] = w[k] /\ N + k = (N + j) + 1
    BY <1>1
  <2>2. p(k) = ParseWord(p(j), w[k])
    <3>1. \A n \in 1 .. Len(ow) : Parsings(ow)[n] = ParseWord(Parsings(ow)[n - 1], ow[n])
      BY <1>1, ParsingsIs
    <3>2. Parsings(ow)[N + k] = ParseWord(Parsings(ow)[(N + k) - 1], ow[N + k])
      BY <2>1, <3>1
    <3> QED
      BY <2>1, <3>2 DEF p
  <2>3. Good(j)
    BY <1>7
  <2>4. p(j).rest \/ ~IsOption(w[k])
    BY <2>1, <2>3 DEF None
  <2> DEFINE rest == p(j).rest \/ ~Permute
  <2>5. p(k) = Pass(p(j), w[k], rest)
    BY <2>2, <2>3, <2>4 DEF ParseWord
  <2>6. SubSeq(w, 1, k) = Append(SubSeq(w, 1, j), w[k])
    <3>1. SubSeq(w, 1, k) = SubSeq(w, 1, k - 1) \o <<w[k]>>
      BY <1>1, SubSeqRecursiveSecond
    <3>2. SubSeq(w, 1, j) \in Seq(Word) /\ w[k] \in Word
      BY <1>1, <2>1, SubSeqProperties
    <3> QED
      BY <3>1, <3>2, AppendIsConcat
  <2>7. /\ p(k).values = v /\ p(k).awaits = {} /\ p(k).args = SubSeq(w, 1, k)
        /\ p(k).rest = rest
    <3> HIDE DEF rest
    <3>1. \A acc, word, to :
            /\ Pass(acc, word, to).values = acc.values /\ Pass(acc, word, to).awaits = {}
            /\ Pass(acc, word, to).args = Append(acc.args, word)
            /\ Pass(acc, word, to).rest = to
      BY DEF Pass
    <3>2. /\ p(k).values = p(j).values /\ p(k).awaits = {}
          /\ p(k).args = Append(p(j).args, w[k]) /\ p(k).rest = rest
      BY <2>5, <3>1
    <3> QED
      BY <2>3, <2>6, <3>2
  <2>8. p(k).rest \/ None
    BY <2>1, <2>3, <2>7
  <2>9. k \in 0 .. Len(w)
    BY <1>1
  <2> QED
    BY <2>7, <2>8, <2>9
<1>8. \A k \in 0 .. Len(w) : k \in P
  <2> HIDE DEF P
  <2> QED
    BY <1>1, <1>6, <1>7, UpTo
<1>9. Good(Len(w))
  BY <1>1, <1>8
<1>10. SubSeq(w, 1, Len(w)) = w
  BY SubSeqProperties
<1>11. p(Len(w)) = Parsings(ow)[Len(ow)]
  BY <1>1 DEF p
<1>12. Parse(ow).awaits = {} /\ Parse(ow).values = v /\ Parse(ow).args = w
  BY <1>1, <1>9, <1>10, <1>11, ParseType
<1> QED
  BY <1>12 DEF v, ow

-----------------------------------------------------------------------------
(* A command, its options, and what is behind them                         *)

\* OptionsAhead() finds the first word that is no option.
LEMMA OptionsAheadIs ==
  ASSUME NEW words \in Seq(Word)
  PROVE  /\ OptionsAhead(words) \in 0 .. Len(words)
         /\ \A i \in 1 .. OptionsAhead(words) :
              LooksLikeOption(words[i]) /\ words[i] # EndOfOptions
         /\ \A i \in 1 .. Len(words) :
              i = OptionsAhead(words) + 1 => words[i] = EndOfOptions \/ ~LooksLikeOption(words[i])
<1> DEFINE others == {i \in 1 .. Len(words) : words[i] = EndOfOptions \/ ~LooksLikeOption(words[i])}
           first == CHOOSE i \in others : \A j \in others : i <= j
<1>1. Len(words) \in Nat /\ DOMAIN words = 1 .. Len(words)
  OBVIOUS
<1>2. CASE others = {}
  <2>1. OptionsAhead(words) = Len(words)
    BY <1>1, <1>2 DEF OptionsAhead
  <2> QED
    BY <1>1, <1>2, <2>1
<1>3. CASE others # {}
  <2>1. OptionsAhead(words) = first - 1
    BY <1>1, <1>3 DEF OptionsAhead
  <2>2. others \in SUBSET Nat
    OBVIOUS
  <2>3. first \in others /\ \A j \in others : first <= j
    <3> HIDE DEF others
    <3>1. \E i \in others : \A j \in others : i <= j
      BY <1>3, <2>2, LeastOne
    <3> QED
      BY <3>1
  <2> HIDE DEF first
  <2>4. first \in 1 .. Len(words) /\ \A i \in 1 .. Len(words) : i < first => i \notin others
    BY <1>1, <2>3
  <2> QED
    BY <1>1, <2>1, <2>3, <2>4
<1> QED
  BY <1>2, <1>3

\* Behind() is the tail.
LEMMA BehindIs ==
  ASSUME NEW words \in Seq(Word)
  PROVE  /\ Behind(words) \in Seq(Word)
         /\ words # <<>> => /\ Len(Behind(words)) = Len(words) - 1 /\ Behind(words) = Tail(words)
                            /\ \A i \in 1 .. Len(words) - 1 : Behind(words)[i] = words[i + 1]
<1>1. Len(words) \in Nat /\ \A i \in 2 .. Len(words) : words[i] \in Word
  OBVIOUS
<1>2. Behind(words) \in Seq(Word)
  BY <1>1, SubSeqProperties DEF Behind
<1>3. words # <<>> => Behind(words) = Tail(words)
  BY TailIsSubSeq DEF Behind
<1> QED
  BY <1>2, <1>3, HeadTailProperties

\* The same of the words behind a command.
LEMMA MeantOptionsAhead ==
  ASSUME NEW words \in Seq(Word), words # <<>>
  PROVE  /\ OptionsAhead(Behind(words)) \in 0 .. Len(words) - 1
         /\ \A i \in 2 .. OptionsAhead(Behind(words)) + 1 :
              LooksLikeOption(words[i]) /\ words[i] # EndOfOptions
         /\ \A i \in 2 .. Len(words) :
              i = OptionsAhead(Behind(words)) + 2
                => words[i] = EndOfOptions \/ ~LooksLikeOption(words[i])
<1> DEFINE b == Behind(words)
           a == OptionsAhead(b)
<1>1. /\ b \in Seq(Word) /\ Len(b) = Len(words) - 1 /\ Len(words) \in Nat
      /\ \A i \in 1 .. Len(words) - 1 : b[i] = words[i + 1]
  BY BehindIs
<1>2. /\ a \in 0 .. Len(b)
      /\ \A i \in 1 .. a : LooksLikeOption(b[i]) /\ b[i] # EndOfOptions
      /\ \A i \in 1 .. Len(b) : i = a + 1 => b[i] = EndOfOptions \/ ~LooksLikeOption(b[i])
  BY <1>1, OptionsAheadIs
<1> HIDE DEF a, b
<1>3. ASSUME NEW i \in 2 .. Len(words)
      PROVE  i - 1 \in 1 .. Len(b) /\ b[i - 1] = words[i]
  <2>1. i - 1 \in 1 .. Len(words) - 1 /\ (i - 1) + 1 = i
    BY <1>1
  <2> QED
    BY <1>1, <2>1
<1>4. a \in 0 .. Len(words) - 1
  BY <1>1, <1>2
<1>5. ASSUME NEW i \in 2 .. a + 1
      PROVE  LooksLikeOption(words[i]) /\ words[i] # EndOfOptions
  <2>1. i \in 2 .. Len(words) /\ i - 1 \in 1 .. a
    BY <1>1, <1>4
  <2> QED
    BY <1>2, <1>3, <2>1
<1>6. ASSUME NEW i \in 2 .. Len(words), i = a + 2
      PROVE  words[i] = EndOfOptions \/ ~LooksLikeOption(words[i])
  <2>1. i - 1 \in 1 .. Len(b) /\ i - 1 = a + 1
    BY <1>1, <1>3, <1>4, <1>6
  <2> QED
    BY <1>2, <1>3, <2>1
<1> QED
  BY <1>4, <1>5, <1>6 DEF a, b

\* The rest of some words.
LEMMA TailOfRest ==
  ASSUME NEW words \in Seq(Word), NEW m \in 1 .. Len(words)
  PROVE  /\ SubSeq(words, m, Len(words)) # <<>>
         /\ SubSeq(words, m, Len(words))[1] = words[m]
         /\ Tail(SubSeq(words, m, Len(words))) = SubSeq(words, m + 1, Len(words))
<1> DEFINE n == Len(words)
           s == SubSeq(words, m, n)
<1>1. n \in Nat /\ m \in Nat /\ m <= n /\ n \in m .. n /\ \A i \in m .. n : words[i] \in Word
  OBVIOUS
<1>2. s \in Seq(Word) /\ Len(s) = n - m + 1
  BY <1>1, SubSeqProperties
<1>3. Head(s) = words[m] /\ Tail(s) = SubSeq(words, m + 1, n)
  BY <1>1, HeadTailOfSubSeq
<1>4. Len(s) # 0
  BY <1>1, <1>2
<1> HIDE DEF s
<1>5. s # <<>> /\ Head(s) = s[1]
  BY <1>2, <1>4
<1> QED
  BY <1>3, <1>5 DEF s

\* AfterOptions() is the end of the words, with "--" or without.
LEMMA AfterOptionsIs ==
  ASSUME NEW words \in Seq(Word), words # <<>>, NEW a, a = OptionsAhead(Behind(words))
  PROVE  AfterOptions(words)
           = IF a + 1 < Len(words) /\ words[a + 2] = EndOfOptions
             THEN SubSeq(words, a + 3, Len(words)) ELSE SubSeq(words, a + 2, Len(words))
<1> DEFINE n == Len(words)
           left == SubSeq(words, 2 + a, n)
<1>1. n \in Nat /\ a \in 0 .. n - 1
  BY MeantOptionsAhead
<1>2. AfterOptions(words)
        = IF left # <<>> /\ left[1] = EndOfOptions THEN Tail(left) ELSE left
  BY DEF AfterOptions
<1>3. CASE a + 1 < n
  <2>1. 2 + a \in 1 .. n /\ 2 + a = a + 2 /\ (a + 2) + 1 = a + 3
    BY <1>1, <1>3
  <2>2. left # <<>> /\ left[1] = words[a + 2] /\ Tail(left) = SubSeq(words, a + 3, n)
    BY <2>1, TailOfRest
  <2> QED
    BY <1>2, <1>3, <2>1, <2>2
<1>4. CASE ~(a + 1 < n)
  <2>1. left = <<>> /\ 2 + a = a + 2
    BY <1>1, <1>4, SubSeqEmpty
  <2> QED
    BY <1>2, <1>4, <2>1
<1> QED
  BY <1>3, <1>4

\* What is behind the options are words.
LEMMA AfterType ==
  ASSUME NEW words \in Seq(Word)
  PROVE  /\ AfterOptions(words) \in Seq(Word)
         /\ \A k \in Nat :
              SubSeq(AfterOptions(words), 1 + k, Len(AfterOptions(words))) \in Seq(Word)
<1> DEFINE m == 2 + OptionsAhead(Behind(words))
           left == SubSeq(words, m, Len(words))
<1>1. Behind(words) \in Seq(Word)
  BY BehindIs
<1>2. m \in Nat /\ m > 0
  BY <1>1, OptionsAheadIs
<1>3. left \in Seq(Word)
  <2>1. \A i \in m .. Len(words) : words[i] \in Word
    BY <1>2
  <2> HIDE DEF m
  <2> QED
    BY <1>2, <2>1, SubSeqProperties
<1>4. AfterOptions(words) = IF left # <<>> /\ left[1] = EndOfOptions THEN Tail(left) ELSE left
  BY DEF AfterOptions
<1> HIDE DEF left
<1>5. AfterOptions(words) \in Seq(Word)
  BY <1>3, <1>4
<1> DEFINE after == AfterOptions(words)
<1> HIDE DEF after
<1>6. ASSUME NEW k \in Nat PROVE SubSeq(after, 1 + k, Len(after)) \in Seq(Word)
  <2>1. after \in Seq(Word)
    BY <1>5 DEF after
  <2>2. \A i \in 1 + k .. Len(after) : after[i] \in Word
    BY <2>1
  <2> QED
    BY <2>1, <2>2, SubSeqProperties
<1> QED
  BY <1>5, <1>6 DEF after

\* The rest of some words and one more.
LEMMA RestOfAppend ==
  ASSUME NEW words \in Seq(Word), NEW w \in Word, NEW m \in 1 .. Len(words) + 1
  PROVE  SubSeq(Append(words, w), m, Len(words) + 1) = Append(SubSeq(words, m, Len(words)), w)
<1> DEFINE v == Append(words, w)
           n == Len(words)
<1>1. /\ v \in Seq(Word) /\ Len(v) = n + 1 /\ v[n + 1] = w
      /\ \A i \in 1 .. n : v[i] = words[i]
  BY AppendProperties
<1>2. n \in Nat /\ m \in 1 .. n + 1 /\ \A i \in m .. n : i \in 1 .. n
  OBVIOUS
<1>3. SubSeq(words, m, n) \in Seq(Word)
  <2>1. \A i \in m .. n : words[i] \in Word
    BY <1>2
  <2> HIDE DEF n
  <2> QED
    BY <1>2, <2>1, SubSeqProperties
<1> HIDE DEF v, n
<1>4. SubSeq(v, m, n + 1) = SubSeq(v, m, n) \o <<v[n + 1]>>
  <2>1. m \in 1 .. Len(v) /\ n + 1 \in m .. Len(v) /\ (n + 1) - 1 = n
    BY <1>1, <1>2
  <2> QED
    BY <1>1, <2>1, SubSeqRecursiveSecond
<1>5. SubSeq(v, m, n) = SubSeq(words, m, n)
  <2>1. CASE m = n + 1
    BY <1>2, <2>1, SubSeqEmpty
  <2>2. CASE m # n + 1
    <3>1. m \in 1 .. n /\ n \in 1 .. n /\ <<w>> \in Seq(Word) /\ v = words \o <<w>>
      BY <1>2, <2>2, AppendIsConcat DEF v
    <3> QED
      BY <3>1, SubSeqOfConcat1 DEF n
  <2> QED
    BY <2>1, <2>2
<1>6. Append(SubSeq(words, m, n), w) = SubSeq(words, m, n) \o <<w>>
  BY <1>3, AppendIsConcat
<1> QED
  BY <1>1, <1>4, <1>5, <1>6 DEF v, n

\* A word that does not look like an option comes behind the options.
LEMMA AfterOptionsAppend ==
  ASSUME NEW words \in Seq(Word), words # <<>>, NEW w \in Word, ~LooksLikeOption(w)
  PROVE  AfterOptions(Append(words, w)) = Append(AfterOptions(words), w)
<1> DEFINE v == Append(words, w)
           n == Len(words)
           a == OptionsAhead(Behind(words))
           b == OptionsAhead(Behind(v))
           Stop(x) == x = EndOfOptions \/ ~LooksLikeOption(x)
<1>1. /\ v \in Seq(Word) /\ v # <<>> /\ Len(v) = n + 1 /\ v[n + 1] = w
      /\ \A i \in 1 .. n : v[i] = words[i]
  BY AppendProperties
<1>2. n \in Nat /\ n > 0
  OBVIOUS
<1>3. /\ a \in 0 .. n - 1
      /\ \A i \in 2 .. a + 1 : ~Stop(words[i])
      /\ \A i \in 2 .. n : i = a + 2 => Stop(words[i])
  BY MeantOptionsAhead
<1>4. /\ b \in 0 .. n
      /\ \A i \in 2 .. b + 1 : ~Stop(v[i])
      /\ \A i \in 2 .. n + 1 : i = b + 2 => Stop(v[i])
  <2>1. Len(v) - 1 = n
    BY <1>1, <1>2
  <2> HIDE DEF v, n
  <2>2. /\ b \in 0 .. Len(v) - 1
        /\ \A i \in 2 .. b + 1 : ~Stop(v[i])
        /\ \A i \in 2 .. Len(v) : i = b + 2 => Stop(v[i])
    BY <1>1, MeantOptionsAhead
  <2> QED
    BY <1>1, <2>1, <2>2
<1>5. Stop(w) /\ w # EndOfOptions
  BY DEF EndOfOptions, LooksLikeOption
<1>6. AfterOptions(words)
        = IF a + 1 < n /\ words[a + 2] = EndOfOptions
          THEN SubSeq(words, a + 3, n) ELSE SubSeq(words, a + 2, n)
  BY AfterOptionsIs
<1>7. AfterOptions(v)
        = IF b + 1 < n + 1 /\ v[b + 2] = EndOfOptions
          THEN SubSeq(v, b + 3, n + 1) ELSE SubSeq(v, b + 2, n + 1)
  <2> HIDE DEF v, n
  <2> QED
    BY <1>1, AfterOptionsIs
<1>8. \A m \in 1 .. n + 1 : SubSeq(v, m, n + 1) = Append(SubSeq(words, m, n), w)
  BY RestOfAppend
<1> HIDE DEF v, n, a, b, Stop
<1>9. a = b
  <2>1. CASE b > a
    <3>1. a + 2 \in 2 .. b + 1 /\ a + 2 \in 2 .. n + 1
      BY <1>2, <1>3, <1>4, <2>1
    <3>2. Stop(v[a + 2])
      BY <1>1, <1>2, <1>3, <1>5, <3>1
    <3> QED
      BY <1>4, <3>1, <3>2
  <2>2. CASE b < a
    <3>1. b + 2 \in 2 .. a + 1 /\ b + 2 \in 2 .. n + 1 /\ b + 2 \in 1 .. n
      BY <1>2, <1>3, <1>4, <2>2
    <3> QED
      BY <1>1, <1>3, <1>4, <3>1
  <2> QED
    BY <1>3, <1>4, <2>1, <2>2
<1>10. a + 1 < n + 1 /\ (v[a + 2] = EndOfOptions <=> a + 1 < n /\ words[a + 2] = EndOfOptions)
  <2>1. CASE a + 1 < n
    <3>1. a + 2 \in 1 .. n
      BY <1>2, <1>3, <2>1
    <3> QED
      BY <1>1, <1>2, <1>3, <2>1, <3>1
  <2>2. CASE ~(a + 1 < n)
    <3>1. a + 2 = n + 1
      BY <1>2, <1>3, <2>2
    <3> QED
      BY <1>1, <1>2, <1>3, <1>5, <2>2, <3>1
  <2> QED
    BY <2>1, <2>2
<1>11. a + 2 \in 1 .. n + 1 /\ (a + 1 < n => a + 3 \in 1 .. n + 1)
  BY <1>2, <1>3
<1>12. CASE a + 1 < n /\ words[a + 2] = EndOfOptions
  BY <1>6, <1>7, <1>8, <1>9, <1>10, <1>11, <1>12 DEF v
<1>13. CASE ~(a + 1 < n /\ words[a + 2] = EndOfOptions)
  BY <1>6, <1>7, <1>8, <1>9, <1>10, <1>11, <1>13 DEF v
<1> QED
  BY <1>12, <1>13

-----------------------------------------------------------------------------
(* Prefixes, and what is inserted for a word                               *)

\* A prefix is one element by element.
LEMMA PrefixIs ==
  ASSUME NEW S, NEW s \in Seq(S), NEW t \in Seq(S)
  PROVE  IsPrefix(s, t) <=> Len(s) <= Len(t) /\ \A i \in 1 .. Len(s) : s[i] = t[i]
<1>1. Len(s) \in Nat /\ Len(t) \in Nat /\ SubSeq(s, 1, Len(s)) = s
  BY SubSeqFull
<1>2. SUFFICES ASSUME Len(s) <= Len(t)
               PROVE  s = SubSeq(t, 1, Len(s)) <=> \A i \in 1 .. Len(s) : s[i] = t[i]
  BY <1>1 DEF IsPrefix
<1> DEFINE u == SubSeq(t, 1, Len(s))
<1>3. u \in Seq(S) /\ Len(u) = Len(s) /\ \A i \in 1 .. Len(s) : u[i] = t[i]
  <2>1. \A i \in 1 .. Len(s) : t[i] \in S
    BY <1>1, <1>2
  <2>2. /\ u \in Seq(S) /\ Len(u) = IF 1 <= Len(s) THEN Len(s) - 1 + 1 ELSE 0
        /\ \A i \in 1 .. Len(s) - 1 + 1 : u[i] = t[1 + i - 1]
    BY <1>1, <2>1, SubSeqProperties
  <2> HIDE DEF u
  <2>3. \A i \in 1 .. Len(s) : i \in 1 .. Len(s) - 1 + 1 /\ 1 + i - 1 = i
    BY <1>1
  <2> QED
    BY <1>1, <2>2, <2>3
<1> HIDE DEF u
<1>4. s = u <=> \A i \in 1 .. Len(s) : s[i] = t[i]
  BY <1>3, SeqEqual
<1> QED
  BY <1>4 DEF u

\* A set of numbers up to N has a greatest one.
LEMMA GreatestOne ==
  ASSUME NEW N \in Nat, NEW T \in SUBSET (0 .. N), T # {}
  PROVE  Max(T) \in T /\ \A k \in T : k <= Max(T)
<1> DEFINE U == {N - k : k \in T}
<1>1. U \in SUBSET Nat /\ U # {}
  <2>1. \A k \in T : k \in 0 .. N
    OBVIOUS
  <2>2. \A k \in T : N - k \in Nat
    BY <2>1
  <2> QED
    BY <2>2
<1>2. PICK m \in U : \A k \in U : m <= k
  <2> HIDE DEF U
  <2> QED
    BY <1>1, LeastOne
<1>3. PICK g \in T : m = N - g
  BY <1>2
<1>4. ASSUME NEW k \in T PROVE g >= k
  <2>1. N - k \in U /\ k \in Nat /\ g \in Nat
    OBVIOUS
  <2>2. N - g <= N - k
    BY <1>2, <1>3, <2>1
  <2> QED
    BY <2>1, <2>2
<1>5. \E x \in T : \A y \in T : x >= y
  BY <1>4
<1>6. Max(T) \in T /\ \A y \in T : Max(T) >= y
  BY <1>5 DEF Max
<1>7. \A k \in T : k \in Nat
  OBVIOUS
<1> QED
  BY <1>6, <1>7

\* Among words there is one that has no other one for a prefix: a shortest one.
LEMMA FirstOfIs ==
  ASSUME NEW S, NEW words \in SUBSET Seq(S), words # {}, <<"all">> \notin words
  PROVE  /\ FirstOf(words) \in words
         /\ \A v \in words : IsPrefix(v, FirstOf(words)) => v = FirstOf(words)
<1>1. Sorted(words) = words
  BY DEF Sorted
<1> DEFINE T == {Len(w) : w \in words}
<1>2. T \in SUBSET Nat /\ T # {}
  OBVIOUS
<1>3. PICK m \in T : \A k \in T : m <= k
  <2> HIDE DEF T
  <2> QED
    BY <1>2, LeastOne
<1>4. PICK w \in words : m = Len(w)
  BY <1>3
<1>5. ASSUME NEW v \in words, IsPrefix(v, w) PROVE v = w
  <2>1. Len(v) \in Nat /\ Len(w) \in Nat /\ v \in Seq(S) /\ w \in Seq(S)
    OBVIOUS
  <2>2. Len(w) <= Len(v)
    BY <1>3, <1>4
  <2>3. Len(v) <= Len(w) /\ \A i \in 1 .. Len(v) : v[i] = w[i]
    BY <1>5, <2>1, PrefixIs
  <2>4. Len(v) = Len(w)
    BY <2>1, <2>2, <2>3
  <2> QED
    BY <2>1, <2>3, <2>4, SeqEqual
<1>6. \E x \in Sorted(words) : \A v \in Sorted(words) : IsPrefix(v, x) => v = x
  BY <1>1, <1>5
<1>7. FirstOf(words) \in Sorted(words)
      /\ \A v \in Sorted(words) : IsPrefix(v, FirstOf(words)) => v = FirstOf(words)
  BY <1>6 DEF FirstOf
<1> QED
  BY <1>1, <1>7

\* What is inserted is common to all the words.
LEMMA ReplacementIsPrefix ==
  ASSUME NEW S, NEW words \in SUBSET Seq(S), <<"all">> \notin words, NEW w \in words
  PROVE  IsPrefix(Replacement(words), w)
<1> DEFINE F == FirstOf(words)
           agreed == {n \in 0 .. Len(F) : \A x \in words : Agree(SubSeq(F, 1, n), x)}
<1>1. F \in words /\ \A v \in words : IsPrefix(v, F) => v = F
  BY FirstOfIs
<1> HIDE DEF F
<1>2. F \in Seq(S) /\ Len(F) \in Nat
  BY <1>1
<1>3. ASSUME NEW n \in 0 .. Len(F)
      PROVE  /\ SubSeq(F, 1, n) \in Seq(S) /\ Len(SubSeq(F, 1, n)) = n
             /\ \A i \in 1 .. n : SubSeq(F, 1, n)[i] = F[i]
  <2>1. n \in Nat /\ \A i \in 1 .. n : F[i] \in S
    BY <1>2
  <2>2. /\ SubSeq(F, 1, n) \in Seq(S) /\ Len(SubSeq(F, 1, n)) = IF 1 <= n THEN n - 1 + 1 ELSE 0
        /\ \A i \in 1 .. n - 1 + 1 : SubSeq(F, 1, n)[i] = F[1 + i - 1]
    BY <2>1, SubSeqProperties
  <2>3. \A i \in 1 .. n : i \in 1 .. n - 1 + 1 /\ 1 + i - 1 = i
    BY <2>1
  <2> QED
    BY <2>1, <2>2, <2>3
<1>4. 0 \in agreed
  <2>1. 0 \in 0 .. Len(F)
    BY <1>2
  <2>2. ASSUME NEW x \in words PROVE Agree(SubSeq(F, 1, 0), x)
    <3>1. x \in Seq(S) /\ Len(x) \in Nat
      OBVIOUS
    <3> DEFINE none == SubSeq(F, 1, 0)
    <3>2. none \in Seq(S) /\ Len(none) = 0
      BY <1>3, <2>1
    <3> HIDE DEF none
    <3>3. Len(none) <= Len(x) /\ \A i \in 1 .. Len(none) : none[i] = x[i]
      BY <3>1, <3>2
    <3>4. IsPrefix(none, x)
      BY <3>1, <3>2, <3>3, PrefixIs
    <3> QED
      BY <3>4 DEF Agree, none
  <2> QED
    BY <2>1, <2>2
<1> DEFINE m == Max(agreed)
           v == SubSeq(F, 1, m)
<1>5. m \in agreed
  <2>1. agreed \in SUBSET (0 .. Len(F))
    OBVIOUS
  <2> HIDE DEF agreed
  <2> QED
    BY <1>2, <1>4, <2>1, GreatestOne
<1>6. Replacement(words) = v
  BY DEF Replacement, F
<1>7. m \in 0 .. Len(F) /\ Agree(v, w)
  <2> HIDE DEF m
  <2> QED
    BY <1>5
<1> HIDE DEF m, v, agreed
<1>8. v \in Seq(S) /\ Len(v) = m /\ m \in Nat /\ m <= Len(F) /\ \A i \in 1 .. m : v[i] = F[i]
  BY <1>2, <1>3, <1>7 DEF v
<1>9. w \in Seq(S) /\ Len(w) \in Nat
  OBVIOUS
<1>10. ASSUME IsPrefix(w, v) PROVE IsPrefix(v, w)
  <2>1. Len(w) <= m /\ \A i \in 1 .. Len(w) : w[i] = v[i]
    BY <1>8, <1>9, <1>10, PrefixIs
  <2>2. Len(w) <= Len(F) /\ \A i \in 1 .. Len(w) : w[i] = F[i]
    BY <1>2, <1>8, <1>9, <2>1
  <2>3. IsPrefix(w, F)
    BY <1>2, <1>9, <2>2, PrefixIs
  <2>4. w = F
    BY <1>1, <2>3
  <2> QED
    BY <1>8, <1>9, <2>4, PrefixIs
<1> QED
  BY <1>6, <1>7, <1>10 DEF Agree

-----------------------------------------------------------------------------
(* The position of the argument that is completed                          *)

\* A small number is its own remainder.
LEMMA Remainder ==
  ASSUME NEW M \in Nat \ {0}, NEW k \in Nat, k < M
  PROVE  k % M = k
  OBVIOUS

\* No command is named like an option.
LEMMA NamesAreNoOptions ==
  ASSUME NEW w \in Words
  PROVE  ~LooksLikeOption(w)
<1> DEFINE No(c) == \A x \in c.names : x[1] # Dash
<1> USE DEF Aliased, AbstractCommand, WithArgument, Dash
<1>1. No(Exit_) /\ No(Help) /\ No(HelpCmd)
  BY DEF Exit_, Help, HelpCmd
<1>2. No(Copying) /\ No(List) /\ No(Info) /\ No(Pin)
  BY DEF Copying, List, Info, Pin
<1>3. No(Download) /\ No(Cache) /\ No(Devices) /\ No(Device)
  BY DEF Download, Cache, Devices, Device
<1>4. No(Upload) /\ No(Start) /\ No(Reset)
  BY DEF Upload, Start, Reset
<1>5. PICK c \in Commands : w \in c.names
  BY DEF Words
<1> HIDE DEF No
<1>6. No(c)
  BY <1>1, <1>2, <1>3, <1>4
     DEF Commands, BuiltIn, FirmwareCommands, CacheCommands, DeviceCommands, BoardCommands
<1> QED
  BY <1>5, <1>6 DEF No, LooksLikeOption

\* The words of a rest.
LEMMA InRest ==
  ASSUME NEW words \in Seq(Word), NEW m \in Nat, m > 0, NEW i \in m .. Len(words)
  PROVE  words[i] \in ToSet(SubSeq(words, m, Len(words)))
<1> DEFINE s == SubSeq(words, m, Len(words))
           j == i - m + 1
<1>1. Len(words) \in Nat /\ i \in Nat /\ m <= i /\ i <= Len(words)
  OBVIOUS
<1>2. /\ s \in Seq(Word) /\ Len(s) = Len(words) - m + 1
      /\ \A k \in 1 .. Len(words) - m + 1 : s[k] = words[m + k - 1]
  <2>1. \A k \in m .. Len(words) : words[k] \in Word
    BY <1>1
  <2> QED
    BY <1>1, <2>1, SubSeqProperties
<1>3. j \in 1 .. Len(words) - m + 1 /\ m + j - 1 = i
  BY <1>1
<1> HIDE DEF s, j
<1>4. s[j] = words[i] /\ j \in DOMAIN s
  BY <1>2, <1>3
<1> QED
  BY <1>4 DEF ToSet, s

\* How many words of a line the shell counts as options.
LEMMA OptionsInIs ==
  ASSUME NEW words \in Seq(Word), words # <<>>, NEW text \in Word, NEW vec,
         vec = IF text = <<>> THEN words ELSE Append(words, text),
         ~LooksLikeOption(words[1]), ~LooksLikeOption(text),
         \A w \in ToSet(AfterOptions(words)) : ~LooksLikeOption(w)
  PROVE  /\ OptionsIn(vec) \in Nat
         /\ OptionsIn(vec) + Len(AfterOptions(words)) + 1 = Len(words)
<1> DEFINE n == Len(words)
           a == OptionsAhead(Behind(words))
           looks == {i \in DOMAIN vec : LooksLikeOption(vec[i])}
<1>1. n \in Nat /\ n > 0 /\ \A i \in 1 .. n : words[i] \in Word
  OBVIOUS
<1>2. /\ a \in 0 .. n - 1
      /\ \A i \in 2 .. a + 1 : LooksLikeOption(words[i])
  BY MeantOptionsAhead
<1>3. looks = {i \in 1 .. n : LooksLikeOption(words[i])}
  <2>1. CASE text = <<>>
    BY <2>1
  <2>2. CASE text # <<>>
    <3>1. vec = Append(words, text)
      BY <2>2
    <3>2. /\ DOMAIN vec = 1 .. n + 1 /\ \A i \in 1 .. n : vec[i] = words[i]
          /\ vec[n + 1] = text
      BY <3>1, AppendProperties
    <3> QED
      BY <1>1, <3>2
  <2> QED
    BY <2>1, <2>2
<1>4. OptionsIn(vec) = Cardinality(looks)
  BY DEF OptionsIn
<1>5. AfterOptions(words) = IF a + 1 < n /\ words[a + 2] = EndOfOptions
                            THEN SubSeq(words, a + 3, n) ELSE SubSeq(words, a + 2, n)
  BY AfterOptionsIs
<1>6. LooksLikeOption(EndOfOptions)
  BY DEF EndOfOptions, LooksLikeOption
<1> HIDE DEF looks, a
<1>7. CASE a + 1 < n /\ words[a + 2] = EndOfOptions
  <2>1. AfterOptions(words) = SubSeq(words, a + 3, n) /\ a + 3 \in Nat /\ a + 3 > 0
    BY <1>2, <1>5, <1>7
  <2>2. \A i \in a + 3 .. n : ~LooksLikeOption(words[i])
    BY <2>1, InRest
  <2>3. looks = 2 .. a + 2
    BY <1>1, <1>2, <1>3, <1>6, <1>7, <2>2
  <2>4. Cardinality(looks) = a + 1
    BY <1>2, <2>3, FS_Interval
  <2>5. Len(AfterOptions(words)) = n - a - 2
    <3>1. \A i \in a + 3 .. n : words[i] \in Word
      BY <1>1, <1>2
    <3> QED
      BY <1>1, <1>2, <1>7, <2>1, <3>1, SubSeqProperties
  <2> QED
    BY <1>1, <1>2, <1>4, <2>4, <2>5
<1>8. CASE ~(a + 1 < n /\ words[a + 2] = EndOfOptions)
  <2>1. AfterOptions(words) = SubSeq(words, a + 2, n) /\ a + 2 \in Nat /\ a + 2 > 0
    BY <1>2, <1>5, <1>8
  <2>2. \A i \in a + 2 .. n : ~LooksLikeOption(words[i])
    BY <2>1, InRest
  <2>3. looks = 2 .. a + 1
    BY <1>1, <1>2, <1>3, <2>2
  <2>4. Cardinality(looks) = a
    BY <1>2, <2>3, FS_Interval
  <2>5. Len(AfterOptions(words)) = n - a - 1
    <3>1. \A i \in a + 2 .. n : words[i] \in Word
      BY <1>1, <1>2
    <3> QED
      BY <1>1, <1>2, <2>1, <3>1, SubSeqProperties
  <2> QED
    BY <1>1, <1>2, <1>4, <2>4, <2>5
<1> QED
  BY <1>7, <1>8

\* pos is a size_t.
LEMMA PositionType ==
  ASSUME NEW words \in Seq(Word), NEW text \in Word, NEW vec,
         vec = IF text = <<>> THEN words ELSE Append(words, text)
  PROVE  Position(vec, text) \in Nat
<1>1. vec \in Seq(Word) /\ Len(vec) \in Nat /\ DOMAIN vec = 1 .. Len(vec)
  BY AppendProperties
<1> DEFINE looks == {i \in DOMAIN vec : LooksLikeOption(vec[i])}
<1>2. OptionsIn(vec) \in Nat
  <2>1. IsFiniteSet(1 .. Len(vec))
    BY <1>1, FS_Interval
  <2>2. looks \in SUBSET (1 .. Len(vec))
    BY <1>1
  <2>3. IsFiniteSet(looks)
    BY <2>1, <2>2, FS_Subset
  <2> QED
    BY <2>3, FS_CardinalityType DEF OptionsIn
<1> DEFINE typed == IF text # <<>> THEN 1 ELSE 0
           k == Len(vec) - 1 - typed - OptionsIn(vec)
<1>3. k \in Int
  <2>1. typed \in Int
    OBVIOUS
  <2> HIDE DEF typed
  <2> QED
    BY <1>1, <1>2, <2>1
<1>4. Position(vec, text) = k % SizeLimit
  BY DEF Position
<1> HIDE DEF k
<1>5. k % SizeLimit \in Nat
  BY <1>3, ShellAssumption
<1> QED
  BY <1>4, <1>5

\* Shell::complete(): the argument that is completed is the one that run() will make of the
\* word, where no word before it looks like an option.
THEOREM PositionIs ==
  ASSUME NEW words \in Seq(Word), words # <<>>, Len(words) <= SizeLimit, NEW text \in Word, NEW vec,
         vec = IF text = <<>> THEN words ELSE Append(words, text),
         ~LooksLikeOption(words[1]), ~LooksLikeOption(text),
         \A w \in ToSet(AfterOptions(words)) : ~LooksLikeOption(w)
  PROVE  Position(vec, text) = Len(AfterOptions(words))
<1> DEFINE n == Len(words)
           k == Len(AfterOptions(words))
           o == OptionsIn(vec)
           typed == IF text # <<>> THEN 1 ELSE 0
<1>1. n \in Nat /\ k \in Nat /\ o \in Nat /\ o + k + 1 = n
  <2>1. o \in Nat /\ o + k + 1 = n
    BY OptionsInIs
  <2>2. AfterOptions(words) \in Seq(Word)
    BY AfterType
  <2> QED
    BY <2>1, <2>2
<1>2. Len(vec) = n + typed /\ typed \in Nat
  BY AppendProperties
<1>3. Position(vec, text) = (Len(vec) - 1 - typed - o) % SizeLimit
  BY DEF Position
<1> HIDE DEF n, k, o, typed
<1>4. Len(vec) - 1 - typed - o = k
  BY <1>1, <1>2
<1>5. SizeLimit \in Nat \ {0} /\ n <= SizeLimit
  BY ShellAssumption DEF n
<1>6. k < SizeLimit
  BY <1>1, <1>5
<1>7. k % SizeLimit = k
  BY <1>1, <1>5, <1>6, Remainder
<1> QED
  BY <1>3, <1>4, <1>7 DEF k

-----------------------------------------------------------------------------
(* The inductive invariant                                                 *)

\* cmd, while it is being run.
Run ==
  [name : Word, command : Commands \cup {NoCommand}, options : Seq(Word), args : Seq(Word),
   given : Nat]

AtCommand == pc \in {"lookup", "options", "arguments", "execute"}

Typing ==
  /\ config \in CliConfiguration
  /\ eof \in BOOLEAN /\ plain \in BOOLEAN /\ unknown \in BOOLEAN
  /\ input \in Seq(Word) /\ meant \in Seq(Word)
  /\ cmd \in Run
  /\ it \in 1 .. Len(input) + 1
  /\ pc \in {"read", "lookup", "options", "arguments", "execute", "quit", "down"}
  /\ ended \in {"no", "ok", "error", "crash"}

\* What is there where run() is.
Steps ==
  /\ pc \notin {"options", "down"} => it = 1
  /\ pc = "read" => input = <<>> /\ ~batch
  /\ pc = "lookup" => input # <<>>
  /\ pc \in {"options", "arguments", "execute"} => cmd.command \in Commands
  /\ pc = "execute" => /\ Len(cmd.args) = cmd.command.argNumber /\ cmd.given <= Len(cmd.args)
                       /\ ~batch => input = <<>>

\* Only a word that is no command has a NULL entry, and it was asked for.
Table ==
  /\ Words \subseteq DOMAIN m_commands /\ DOMAIN m_commands \subseteq Word
  /\ \A w \in Words : m_commands[w] = CommandOf(w)
  /\ \A w \in DOMAIN m_commands \ Words : m_commands[w] = NoCommand
  /\ DOMAIN m_commands = Words \/ unknown

\* Of a plain command the loop takes at most one option, behind which "it" has gone on.
OptionsRead ==
  /\ PlainCommand(meant) /\ cmd.name = meant[1]
  /\ \/ it = 1 /\ cmd.options = <<>> /\ input = Behind(meant)
     \/ /\ it = 2 /\ OptionsAhead(Behind(meant)) = 1
        /\ cmd.options = <<meant[2]>> /\ input = SubSeq(meant, 3, Len(meant))

\* What has become of the words that are meant.
Flow ==
  plain =>
    /\ AtCommand => meant # <<>>
    /\ pc = "lookup" => input = meant
    /\ pc = "options" => OptionsRead
    /\ pc = "arguments" => /\ cmd.name = meant[1] /\ cmd.options = MeantOptions(meant)
                           /\ input = AfterOptions(meant)
    /\ pc = "execute" => Separated
    /\ AtCommand /\ batch => config = asked

CrashIsEnd == ended = "crash" => pc = "down" /\ (unknown \/ ~plain)

\* What the completion may offer: of an argument, what belongs to the one that follows what
\* is there of the line.
ArgumentOffered ==
  /\ offered.line \in Seq(Word) /\ offered.line # <<>> /\ offered.line[1] \in Words
  /\ offered.pos \in 0 .. CommandOf(offered.line[1]).argNumber - 1
  /\ offered.words \subseteq Word
  /\ offered.words \subseteq Taken(CommandOf(offered.line[1])) \/ unknown
  /\ NoneLooksLikeOption(AfterOptions(offered.line)) =>
       offered.pos = Len(AfterOptions(offered.line))

Offers ==
  /\ offered.of \in {"nothing", "command", "options", "argument"}
  /\ offered.of = "argument" => ArgumentOffered
  /\ offered.of = "command" => offered.words \subseteq Words \/ unknown
  /\ <<"all">> \notin offered.words =>
       \A w \in offered.words : IsPrefix(Replacement(offered.words), w)

\* A line with a completed word: its command has one argument, for which the word was offered,
\* and where run() is with the words.
Completed(a) ==
  /\ a.word \in Word /\ a.pos = 0
  /\ Len(meant) >= 2 /\ meant[Len(meant)] = a.word
  /\ meant[1] \in Words /\ CommandOf(meant[1]).argNumber = 1
  /\ a.word \in Taken(CommandOf(meant[1])) \/ unknown
  /\ ~LooksLikeOption(a.word) /\ NoneLooksLikeOption(AfterOptions(meant)) =>
       Len(AfterOptions(meant)) = 1

WordKept(a) ==
  /\ pc = "lookup" => input = meant
  /\ pc \in {"options", "arguments"} => /\ input # <<>> /\ input[Len(input)] = a.word
                                        /\ cmd.command = CommandOf(meant[1])
  /\ pc = "execute" => cmd.args = <<a.word>> /\ cmd.command = CommandOf(meant[1])

Accepts ==
  \A a \in accepted :
    /\ ~batch /\ pc \in {"lookup", "options", "arguments", "execute", "down"}
    /\ Completed(a)
    /\ ~LooksLikeOption(a.word) => WordKept(a)

IInv == Typing /\ Steps /\ Table /\ Flow /\ CrashIsEnd /\ Offers /\ Accepts

-----------------------------------------------------------------------------
(* It holds at first                                                       *)

\* What the assumption says of a command.
LEMMA CommandsType ==
  ASSUME NEW c \in Commands
  PROVE  c.names \subseteq Word /\ c.argNumber \in {0, 1} /\ c.options \subseteq Word
  BY NamesAreUnique DEF Command

\* The names of commands are words.
LEMMA WordsType == Words \subseteq Word
  BY CommandsType DEF Words

\* Each name is that of a command.
LEMMA CommandOfType ==
  ASSUME NEW w \in Words
  PROVE  CommandOf(w) \in Commands /\ w \in CommandOf(w).names
  BY DEF Words, CommandOf

\* No command is being run.
LEMMA IdleType == Idle \in Run
<1>1. <<>> \in Word /\ <<>> \in Seq(Word)
  BY DEF Word
<1> QED
  BY <1>1 DEF Idle, Run

\* The configuration, but for the words that are left, comes from the values of the options.
Configured(values, some) ==
  [batch |-> some, debug |-> values["D"].type = "flag", offline |-> values["o"].type = "flag",
   dataDir |-> IF values["d"].type = "invalid" THEN DefaultDir ELSE values["d"].string]

\* It is all that the configuration comes from.
LEMMA ConfigurationIs ==
  ASSUME NEW argv
  PROVE  Configuration(argv) = Configured(Parse(argv).values, GetArgs(argv) # <<>>)
  BY DEF Configuration, DefaultConfiguration, Configured, GetValue

\* It is a configuration.
LEMMA ConfiguredType ==
  ASSUME NEW values \in [Options -> Value], NEW some \in BOOLEAN
  PROVE  Configured(values, some) \in CliConfiguration
<1>1. values["d"] \in Value
  BY ShellAssumption DEF Options
<1>2. (IF values["d"].type = "invalid" THEN DefaultDir ELSE values["d"].string)
        \in {DefaultDir} \cup Word
  BY <1>1 DEF Value
<1> QED
  BY <1>2 DEF Configured, CliConfiguration

\* So is that of any command line.
LEMMA ConfigurationType ==
  ASSUME NEW argv \in Seq(Word)
  PROVE  Configuration(argv) \in CliConfiguration
<1>1. Parse(argv).values \in [Options -> Value]
  BY ParseType DEF Parser
<1> QED
  BY <1>1, ConfigurationIs, ConfiguredType

\* The invariant holds at first.
LEMMA InitInv == Init => IInv
<1> SUFFICES ASSUME Init PROVE IInv
  OBVIOUS
<1>1. PICK o \in ProgramOptions, w \in Batches :
        /\ config = Configuration(o \o w)
        /\ input = GetArgs(o \o w)
        /\ asked = [Configuration(o) EXCEPT !.batch = (w # <<>>)]
        /\ plain = (input = <<>> \/ Sheltered(o, w))
        /\ meant = IF input = <<>> THEN <<>> ELSE w
  BY DEF Init
<1>2. /\ pc = (IF batch THEN "lookup" ELSE "read") /\ it = 1 /\ cmd = Idle /\ eof = FALSE
      /\ ended = "no" /\ offered = NoOffer /\ unknown = FALSE
      /\ m_commands = [x \in Words |-> CommandOf(x)]
  BY DEF Init
<1>3. o \in Seq(Word) /\ w \in Seq(Word) /\ o \o w \in Seq(Word) /\ <<>> \in Seq(Word)
  BY ProgramAssumption
<1>4. input \in Seq(Word)
  BY <1>1, <1>3, ParseType DEF GetArgs, Parser
<1>5. config \in CliConfiguration /\ batch = (input # <<>>)
  BY <1>1, <1>3, ConfigurationType, ConfigurationIs DEF batch, Configured
<1>6. ASSUME input # <<>>, Sheltered(o, w)
      PROVE  input = w /\ config = asked
  <2>1. Parse(o).args = <<>> /\ Parse(o).awaits = {} /\ (EndOfOptions \in ToSet(o) => Parse(o).rest)
    BY ProgramAssumption
  <2>2. Parse(o \o w).args = w /\ Parse(o \o w).values = Parse(o).values
    BY <1>3, <1>6, <2>1, WordsLeft
  <2>3. GetArgs(o \o w) = w
    BY <2>2 DEF GetArgs
  <2>4. config = Configured(Parse(o).values, w # <<>>)
    BY <1>1, <2>2, <2>3, ConfigurationIs
  <2>5. asked = [Configured(Parse(o).values, GetArgs(o) # <<>>) EXCEPT !.batch = (w # <<>>)]
    BY <1>1, ConfigurationIs
  <2>6. asked = config
    BY <2>4, <2>5 DEF Configured
  <2> QED
    BY <1>1, <2>3, <2>6
<1>7. Typing
  <2>1. eof \in BOOLEAN /\ unknown \in BOOLEAN /\ cmd \in Run /\ ended = "no"
    BY <1>2, IdleType
  <2>2. plain \in BOOLEAN
    BY <1>1
  <2>3. meant \in Seq(Word)
    BY <1>1, <1>3
  <2>4. it \in 1 .. Len(input) + 1
    BY <1>2, <1>4
  <2>5. pc \in {"lookup", "read"}
    BY <1>2
  <2> QED
    BY <1>4, <1>5, <2>1, <2>2, <2>3, <2>4, <2>5 DEF Typing
<1>8. Steps
  BY <1>2, <1>5 DEF Steps
<1>9. Table
  BY <1>2, WordsType DEF Table
<1>10. Flow
  BY <1>1, <1>2, <1>5, <1>6 DEF Flow, AtCommand
<1>11. CrashIsEnd
  BY <1>2 DEF CrashIsEnd
<1>12. Offers
  <2>1. offered.of = "nothing" /\ offered.words = {<<>>}
    BY <1>2 DEF NoOffer, Offering
  <2>2. {<<>>} \in SUBSET Seq(Symbols) /\ <<"all">> \notin {<<>>}
    OBVIOUS
  <2>3. \A x \in {<<>>} : IsPrefix(Replacement({<<>>}), x)
    BY <2>2, ReplacementIsPrefix
  <2> QED
    BY <2>1, <2>3 DEF Offers
<1>13. Accepts
  BY DEF Init, Accepts
<1> QED
  BY <1>7, <1>8, <1>9, <1>10, <1>11, <1>12, <1>13 DEF IInv

-----------------------------------------------------------------------------
(* Types                                                                   *)

\* The vector of a line that the user types: the words he has in mind.
LEMMA LineVec ==
  ASSUME NEW line \in TypedLines
  PROVE  line.words \in Seq(Word) /\ line.vec = line.words
<1>1. PICK words \in Lines, style \in Styles :
        line = [words |-> words, vec |-> Tokenize(Line(words, style))]
  BY DEF TypedLines
<1>2. words \in Seq(Word)
  BY UserAssumption
<1> QED
  BY <1>1, <1>2, TokenizeLine

\* And that of a line he has begun.
LEMMA HalfLineVec ==
  ASSUME NEW half \in TypedHalfLines
  PROVE  /\ half.words \in Seq(Word) /\ half.words # <<>> /\ Len(half.words) <= SizeLimit
         /\ half.text \in Word
         /\ half.vec = IF half.text = <<>> THEN half.words ELSE Append(half.words, half.text)
<1>1. PICK h \in HalfLines :
        half = [words |-> h.words, text |-> h.text,
                vec |-> Tokenize(Append(Line(h.words, "quotes"), Space) \o h.text)]
  BY DEF TypedHalfLines
<1>2. /\ h.words \in Seq(Word) /\ h.words # <<>> /\ Len(h.words) <= SizeLimit
      /\ h.text \in Word /\ \A i \in DOMAIN h.text : h.text[i] \notin Special
  BY UserAssumption
<1>3. Tokenize(Append(Line(h.words, "quotes"), Space) \o h.text)
        = IF h.text = <<>> THEN h.words ELSE Append(h.words, h.text)
  BY <1>2, TokenizeHalfLine
<1> QED
  BY <1>1, <1>2, <1>3

\* Its first word is the command.
LEMMA HalfLineWord ==
  ASSUME NEW half \in TypedHalfLines
  PROVE  half.vec[1] = half.words[1]
<1>1. /\ half.words \in Seq(Word) /\ half.words # <<>> /\ half.text \in Word
      /\ 1 \in 1 .. Len(half.words)
  BY HalfLineVec
<1>2. Append(half.words, half.text)[1] = half.words[1]
  BY <1>1, AppendProperties
<1> QED
  BY <1>2, HalfLineVec

\* A line that is entered is, as words, what the user has in mind, also when its last word
\* was completed.
LEMMA LineEntered ==
  ASSUME NEW line \in TypedLines, ReadLine(line)
  PROVE  line.words \in Seq(Word) /\ GetsLine(line.words, line.words, {})
  BY LineVec DEF ReadLine, GetsLine

LEMMA CompletedEntered ==
  ASSUME Offers, NEW word \in offered.words, ReadCompleted(word)
  PROVE  /\ ArgumentOffered /\ word \in Word
         /\ Append(offered.line, word) \in Seq(Word)
         /\ GetsLine(Append(offered.line, word), Append(offered.line, word),
                     {[pos |-> offered.pos, word |-> word]})
<1>1. ArgumentOffered
  BY DEF Offers, ReadCompleted
<1>2. /\ offered.line \in Seq(Word) /\ offered.line # <<>> /\ word \in Word
      /\ word # <<>> /\ \A i \in DOMAIN word : word[i] \notin Special
  BY <1>1 DEF ArgumentOffered, ReadCompleted
<1> DEFINE words == Append(offered.line, word)
           vec == Tokenize(Append(Line(offered.line, "quotes"), Space) \o word)
<1>3. vec = words
  BY <1>2, TokenizeHalfLine
<1>4. GetsLine(words, vec, {[pos |-> offered.pos, word |-> word]})
  BY DEF ReadCompleted
<1> HIDE DEF words, vec
<1>5. GetsLine(words, words, {[pos |-> offered.pos, word |-> word]})
  BY <1>3, <1>4
<1> QED
  BY <1>1, <1>2, <1>5, AppendProperties DEF words

\* Without one of its elements a sequence is one.
LEMMA RemoveAtType ==
  ASSUME NEW S, NEW s \in Seq(S), NEW i \in 1 .. Len(s)
  PROVE  RemoveAt(s, i) \in Seq(S) /\ Len(RemoveAt(s, i)) = Len(s) - 1
<1> DEFINE u == SubSeq(s, 1, i - 1)
           v == SubSeq(s, i + 1, Len(s))
<1>1. i \in Nat /\ Len(s) \in Nat /\ \A j \in 1 .. Len(s) : s[j] \in S
  OBVIOUS
<1>2. u \in Seq(S) /\ Len(u) = i - 1
  BY <1>1, SubSeqProperties
<1>3. v \in Seq(S) /\ Len(v) = Len(s) - i
  BY <1>1, SubSeqProperties
<1>4. RemoveAt(s, i) = u \o v
  BY DEF RemoveAt
<1> HIDE DEF u, v
<1>5. u \o v \in Seq(S) /\ Len(u \o v) = Len(u) + Len(v)
  BY <1>2, <1>3, ConcatProperties
<1>6. Len(u) + Len(v) = Len(s) - 1
  BY <1>1, <1>2, <1>3
<1> QED
  BY <1>4, <1>5, <1>6

\* What Arguments does, but for the end of the file.
LEMMA ArgumentsTake ==
  ASSUME Typing, Steps, Arguments
  PROVE  \E given \in Seq(Word), answers \in Seq(Word) :
           /\ given = IF TooFew THEN input ELSE SubSeq(input, 1, cmd.command.argNumber)
           /\ Len(given) \in Nat
           /\ Len(answers) = cmd.command.argNumber - Len(given)
           /\ cmd' = [name |-> cmd.name, command |-> cmd.command, options |-> cmd.options,
                      args |-> given \o answers, given |-> Len(given)]
           /\ input' = SubSeq(input, Len(given) + 1, Len(input))
<1> DEFINE N == cmd.command.argNumber
           given == IF TooFew THEN input ELSE SubSeq(input, 1, N)
           missing == 1 .. N - Len(given)
<1>1. input \in Seq(Word) /\ N \in Nat /\ cmd \in Run
  <2>1. cmd.command \in Commands
    BY DEF Steps, Arguments
  <2>2. N \in {0, 1}
    BY <2>1, CommandsType
  <2> QED
    BY <2>2 DEF Typing
<1>2. given \in Seq(Word) /\ Len(given) \in Nat /\ Len(given) <= N
  <2>1. CASE TooFew
    BY <1>1, <2>1 DEF TooFew
  <2>2. CASE ~TooFew
    <3>1. Len(input) \in Nat /\ N <= Len(input) /\ \A i \in 1 .. N : input[i] \in Word
      BY <1>1, <2>2 DEF TooFew
    <3>2. SubSeq(input, 1, N) \in Seq(Word) /\ Len(SubSeq(input, 1, N)) = N
      <4> HIDE DEF N
      <4> QED
        BY <1>1, <3>1, SubSeqProperties
    <3> QED
      BY <1>1, <2>2, <3>2
  <2> QED
    BY <2>1, <2>2
<1>3. PICK answers \in [missing -> Answers \cup {<<>>}] :
        cmd' = [cmd EXCEPT !.args = given \o answers, !.given = Len(given)]
  BY DEF Arguments
<1>4. input' = SubSeq(input, Len(given) + 1, Len(input))
  BY DEF Arguments
<1>5. answers \in Seq(Word) /\ Len(answers) = N - Len(given)
  <2>1. Answers \cup {<<>>} \subseteq Word
    <3>1. <<>> \in Word
      BY DEF Word
    <3> QED
      BY <3>1, UserAssumption
  <2> DEFINE k == N - Len(given)
  <2>2. k \in Nat
    BY <1>1, <1>2
  <2>3. answers \in [1 .. k -> Word]
    BY <1>3, <2>1
  <2> HIDE DEF k
  <2>4. answers \in Seq(Word) /\ Len(answers) = k
    BY <2>2, <2>3
  <2> QED
    BY <2>4 DEF k
<1>6. cmd = [name |-> cmd.name, command |-> cmd.command, options |-> cmd.options,
             args |-> cmd.args, given |-> cmd.given]
  BY <1>1 DEF Run
<1> HIDE DEF given, missing, N
<1>7. cmd' = [name |-> cmd.name, command |-> cmd.command, options |-> cmd.options,
              args |-> given \o answers, given |-> Len(given)]
  BY <1>3, <1>6
<1> QED
  BY <1>2, <1>4, <1>5, <1>7 DEF given, N

\* Every step keeps the types.
LEMMA TypingStep ==
  ASSUME Typing, Steps, Table, Offers, Next
  PROVE  Typing'
<1>0. /\ <<>> \in Seq(Word) /\ <<>> \in Word /\ Len(input) \in Nat /\ it \in 1 .. Len(input) + 1
      /\ config \in CliConfiguration
  BY DEF Typing, Word
<1>1. ASSUME NEW words \in Seq(Word), NEW completed, GetsLine(words, words, completed)
      PROVE  Typing'
  <2>1. pc = "read" /\ it = 1
    BY <1>1 DEF GetsLine, Steps
  <2>2. it \in 1 .. Len(words) + 1
    BY <2>1
  <2> QED
    BY <1>1, <2>1, <2>2 DEF GetsLine, Typing
<1>2. CASE EndOfFile
  BY <1>2 DEF EndOfFile, history, Typing
<1>3. ASSUME NEW half \in TypedHalfLines, Complete(half)
      PROVE  Typing'
  BY <1>3 DEF Complete, Typing
<1>4. ASSUME NEW text \in HalfCommands, CompleteCommand(text)
      PROVE  Typing'
  BY <1>4 DEF CompleteCommand, history, Typing
<1>5. ASSUME NEW line \in BOOLEAN, Throws(line)
      PROVE  Typing'
  <2>1. /\ config' = config /\ eof' = eof /\ unknown' = unknown /\ plain' = TRUE
        /\ input' = <<>> /\ meant' = <<>> /\ it' = 1 /\ cmd' = Idle
    BY <1>5 DEF Throws, table
  <2>2. pc' \in {"quit", "read"} /\ ended' \in {ended, "error"}
    BY <1>5 DEF Throws, Prompt
  <2>3. it' \in 1 .. Len(input') + 1
    BY <2>1
  <2> QED
    BY <1>0, <2>1, <2>2, <2>3, IdleType DEF Typing
<1>6. CASE Crashes
  BY <1>6 DEF Crashes, table, history, Typing
<1>7. CASE Lookup
  <2>1. /\ input # <<>> /\ input \in Seq(Word) /\ input[1] \in Word /\ Tail(input) \in Seq(Word)
    BY <1>7 DEF Lookup, Found, Steps, Typing
  <2>2. m_commands[input[1]] \in Commands
    BY <1>7, CommandOfType DEF Lookup, Found, Table
  <2>3. cmd' = [Idle EXCEPT !.name = input[1], !.command = m_commands[input[1]]]
    BY <1>7 DEF Lookup, Found
  <2>4. cmd' = [name |-> input[1], command |-> m_commands[input[1]], options |-> <<>>,
                args |-> <<>>, given |-> 0]
    BY <2>3 DEF Idle
  <2>5. cmd' \in Run
    BY <1>0, <2>1, <2>2, <2>4 DEF Run
  <2>6. it' \in 1 .. Len(input') + 1
    BY <1>7, <2>1 DEF Lookup, Found
  <2>7. plain' \in BOOLEAN /\ input' \in Seq(Word) /\ pc' = "options"
    BY <1>7, <2>1 DEF Lookup, Found
  <2> QED
    BY <1>7, <2>5, <2>6, <2>7 DEF Lookup, Found, table, Typing
<1>8. CASE OptionsEnd
  <2>1. input' \in Seq(Word)
    BY <1>0, <1>8, RemoveAtType DEF OptionsEnd, AtOption, Typing
  <2> QED
    BY <1>8, <2>1 DEF OptionsEnd, table, history, Typing
<1>9. CASE OptionTaken
  <2>1. /\ it \in 1 .. Len(input) /\ it < Len(input) /\ input \in Seq(Word) /\ input[it] \in Word
        /\ cmd \in Run
    BY <1>9 DEF OptionTaken, AtOption, Typing
  <2>2. input' \in Seq(Word) /\ Len(input') = Len(input) - 1
    BY <1>9, <2>1, RemoveAtType DEF OptionTaken
  <2>3. it' \in 1 .. Len(input') + 1
    BY <1>0, <1>9, <2>1, <2>2 DEF OptionTaken
  <2>4. cmd' \in Run
    <3>1. Append(cmd.options, input[it]) \in Seq(Word)
      BY <2>1 DEF Run
    <3> QED
      BY <1>9, <2>1, <3>1 DEF OptionTaken, Run
  <2> QED
    BY <1>9, <2>2, <2>3, <2>4 DEF OptionTaken, table, history, Typing
<1>10. CASE LastOptionTaken
  <2>1. CASE Fails
    BY <1>5, <2>1 DEF Fails, batch, CliConfiguration, Typing
  <2>2. CASE ~Fails /\ ~Crashes
    <3>1. /\ it = Len(input) /\ input \in Seq(Word) /\ input # <<>> /\ input[it] \in Word
          /\ cmd \in Run
      BY <1>10 DEF LastOptionTaken, AtOption, Typing
    <3>2. /\ pc' = "arguments" /\ it' = 1 /\ input' = Front(input)
          /\ cmd' = [cmd EXCEPT !.options = Append(@, input[it])]
          /\ UNCHANGED <<table, ended, history>>
      BY <1>10, <2>2 DEF LastOptionTaken
    <3>3. input' \in Seq(Word)
      BY <1>0, <3>1, <3>2, SubSeqProperties DEF Front
    <3>4. it' \in 1 .. Len(input') + 1
      BY <3>2, <3>3
    <3>5. cmd' \in Run
      <4>1. Append(cmd.options, input[it]) \in Seq(Word)
        BY <3>1 DEF Run
      <4> QED
        BY <3>1, <3>2, <4>1 DEF Run
    <3> QED
      BY <3>2, <3>3, <3>4, <3>5 DEF table, history, Typing
  <2> QED
    BY <1>6, <2>1, <2>2
<1>11. CASE Arguments
  <2>1. PICK given \in Seq(Word), answers \in Seq(Word) :
          /\ Len(given) \in Nat
          /\ cmd' = [name |-> cmd.name, command |-> cmd.command, options |-> cmd.options,
                     args |-> given \o answers, given |-> Len(given)]
          /\ input' = SubSeq(input, Len(given) + 1, Len(input))
    BY <1>11, ArgumentsTake
  <2>2. given \o answers \in Seq(Word)
    BY ConcatProperties
  <2>3. cmd' \in Run
    BY <2>1, <2>2 DEF Typing, Run
  <2>4. input' \in Seq(Word)
    <3>1. \A i \in Len(given) + 1 .. Len(input) : input[i] \in Word
      BY <1>0, <2>1 DEF Typing
    <3> QED
      BY <1>0, <2>1, <3>1, SubSeqProperties
  <2>5. it' = 1 /\ pc' = "execute"
    BY <1>11 DEF Arguments, Steps
  <2>6. it' \in 1 .. Len(input') + 1
    BY <2>4, <2>5
  <2>7. eof' \in BOOLEAN
    <3>1. eof' \in {eof, TRUE, FALSE}
      BY <1>11 DEF Arguments
    <3> QED
      BY <3>1 DEF Typing
  <2> QED
    BY <1>11, <2>3, <2>4, <2>5, <2>6, <2>7 DEF Arguments, history, Typing
<1>12. CASE NextCommand
  <2>1. meant' \in Seq(Word)
    <3>1. MeantNext \in Seq(Word)
      BY AfterType DEF MeantNext, Typing, Run
    <3> QED
      BY <1>0, <1>12, <3>1 DEF NextCommand
  <2>2. plain' \in BOOLEAN
    BY <1>12 DEF NextCommand, Typing
  <2>3. pc' \in {"lookup", "quit", "read"}
    BY <1>12 DEF NextCommand, Prompt
  <2> QED
    BY <1>12, <2>1, <2>2, <2>3, IdleType DEF NextCommand, table, Typing
<1>13. CASE Leave
  BY <1>13, IdleType DEF Leave, table, Typing
<1>14. CASE Quit
  BY <1>14 DEF Quit, table, history, Typing
<1> QED
  BY <1>1, <1>2, <1>3, <1>4, <1>5, <1>6, <1>7, <1>8, <1>9, <1>10, <1>11, <1>12, <1>13, <1>14,
     LineEntered, CompletedEntered
     DEF Next, UserStep, RunStep, LookupInvalid, LookupNull, OptionUnsupported, ArgumentsWrong,
         Execute, Exit, ExecuteNull, ExecuteThrows, Fails, batch, CliConfiguration

\* Every step keeps what is known of each place of run().
LEMMA StepsStep ==
  ASSUME Typing, Steps, Table, Offers, Next
  PROVE  Steps'
<1>0. Len(input) \in Nat /\ config \in CliConfiguration
  BY DEF Typing
<1>1. ASSUME NEW words \in Seq(Word), NEW completed, GetsLine(words, words, completed)
      PROVE  Steps'
  BY <1>1 DEF GetsLine, Steps
<1>2. CASE EndOfFile
  BY <1>2 DEF EndOfFile, Steps
<1>3. ASSUME NEW half \in TypedHalfLines, Complete(half)
      PROVE  Steps'
  BY <1>3 DEF Complete, Steps, batch
<1>4. ASSUME NEW text \in HalfCommands, CompleteCommand(text)
      PROVE  Steps'
  BY <1>4 DEF CompleteCommand, Steps, batch
<1>5. ASSUME NEW line \in BOOLEAN, Throws(line), line => ~batch
      PROVE  Steps'
  <2>1. config' = config /\ input' = <<>> /\ it' = 1
    BY <1>5 DEF Throws, table
  <2>2. pc' = "quit" \/ (pc' = "read" /\ ~batch)
    BY <1>5 DEF Throws, Prompt
  <2> QED
    BY <2>1, <2>2 DEF Steps, batch
<1>6. CASE Crashes
  BY <1>6 DEF Crashes, Steps
<1>7. CASE Lookup
  <2>1. m_commands[input[1]] \in Commands
    BY <1>7, CommandOfType DEF Lookup, Found, Table
  <2>2. cmd' = [Idle EXCEPT !.name = input[1], !.command = m_commands[input[1]]]
    BY <1>7 DEF Lookup, Found
  <2>3. cmd'.command = m_commands[input[1]]
    BY <2>2 DEF Idle
  <2> QED
    BY <1>7, <2>1, <2>3 DEF Lookup, Found, Steps
<1>8. CASE OptionsEnd
  BY <1>8 DEF OptionsEnd, Steps
<1>9. CASE OptionTaken
  <2>1. cmd'.command = cmd.command
    BY <1>9 DEF OptionTaken, Typing, Run
  <2> QED
    BY <1>9, <2>1 DEF OptionTaken, AtOption, Steps
<1>10. CASE LastOptionTaken
  <2>1. CASE Fails
    BY <1>0, <1>5, <2>1 DEF Fails, batch, CliConfiguration
  <2>2. CASE ~Fails /\ ~Crashes
    <3>1. /\ pc = "options" /\ pc' = "arguments" /\ it' = 1
          /\ cmd' = [cmd EXCEPT !.options = Append(@, input[it])]
      BY <1>10, <2>2 DEF LastOptionTaken, AtOption
    <3>2. cmd'.command = cmd.command
      BY <3>1 DEF Typing, Run
    <3> QED
      BY <3>1, <3>2 DEF Steps
  <2> QED
    BY <1>6, <2>1, <2>2
<1>11. CASE Arguments
  <2> DEFINE N == cmd.command.argNumber
  <2>1. PICK given \in Seq(Word), answers \in Seq(Word) :
          /\ given = IF TooFew THEN input ELSE SubSeq(input, 1, N)
          /\ Len(given) \in Nat /\ Len(answers) = N - Len(given)
          /\ cmd' = [name |-> cmd.name, command |-> cmd.command, options |-> cmd.options,
                     args |-> given \o answers, given |-> Len(given)]
          /\ input' = SubSeq(input, Len(given) + 1, Len(input))
    BY <1>11, ArgumentsTake
  <2>2. cmd.command \in Commands /\ N \in Nat
    <3>1. cmd.command \in Commands
      BY <1>11 DEF Arguments, Steps
    <3>2. N \in {0, 1}
      BY <3>1, CommandsType
    <3> QED
      BY <3>1, <3>2
  <2>3. Len(given \o answers) = N /\ Len(given) <= N
    <3> HIDE DEF N
    <3>1. Len(given \o answers) = Len(given) + Len(answers) /\ Len(answers) \in Nat
      BY ConcatProperties
    <3> QED
      BY <2>1, <2>2, <3>1
  <2>4. ~batch => input' = <<>>
    <3>1. SUFFICES ASSUME ~batch PROVE input' = <<>>
      OBVIOUS
    <3>2. Len(input) <= N
      BY <1>0, <1>11, <2>2, <3>1 DEF Arguments, WrongNumber, TooManyOnLine
    <3>3. Len(given) = Len(input)
      <4>1. CASE TooFew
        BY <2>1, <4>1
      <4>2. CASE ~TooFew
        <5>1. N = Len(input)
          BY <1>0, <2>2, <3>2, <4>2 DEF TooFew
        <5>2. given = SubSeq(input, 1, Len(input))
          BY <2>1, <4>2, <5>1
        <5> QED
          BY <5>2, SubSeqFull DEF Typing
      <4> QED
        BY <4>1, <4>2
    <3>4. input' = SubSeq(input, Len(input) + 1, Len(input))
      BY <2>1, <3>3
    <3>5. Len(input) + 1 \in Int /\ Len(input) \in Int /\ Len(input) < Len(input) + 1
      BY <1>0
    <3> QED
      BY <3>4, <3>5, SubSeqEmpty
  <2>5. /\ cmd'.command = cmd.command /\ cmd'.args = given \o answers
        /\ cmd'.given = Len(given)
    BY <2>1
  <2>6. it' = 1 /\ pc' = "execute" /\ config' = config
    BY <1>11 DEF Arguments, Steps
  <2> HIDE DEF N
  <2>7. Len(cmd'.args) = cmd'.command.argNumber /\ cmd'.given <= Len(cmd'.args)
    BY <2>3, <2>5 DEF N
  <2> QED
    BY <2>2, <2>4, <2>5, <2>6, <2>7 DEF Steps, batch
<1>12. ASSUME pc = "execute", NextCommand
       PROVE  Steps'
  <2>1. config' = config /\ input' = input /\ it' = 1
    BY <1>12 DEF NextCommand, table, Steps
  <2>2. CASE batch /\ input # <<>>
    BY <1>12, <2>1, <2>2 DEF NextCommand, Steps
  <2>3. CASE ~(batch /\ input # <<>>)
    BY <1>12, <2>1, <2>3 DEF NextCommand, Prompt, Steps, batch
  <2> QED
    BY <2>2, <2>3
<1>13. ASSUME pc = "execute", Leave
       PROVE  Steps'
  BY <1>13 DEF Leave, Steps
<1>14. CASE Quit
  BY <1>14 DEF Quit, Steps
<1> QED
  BY <1>0, <1>1, <1>2, <1>3, <1>4, <1>5, <1>6, <1>7, <1>8, <1>9, <1>10, <1>11, <1>12, <1>13, <1>14,
     LineEntered, CompletedEntered
     DEF Next, UserStep, RunStep, LookupInvalid, LookupNull, OptionUnsupported, ArgumentsWrong,
         Execute, Exit, ExecuteNull, ExecuteThrows, Fails, batch, CliConfiguration

\* Only the completion adds to the table, and only NULL entries; it is remembered.
LEMMA TableStep ==
  ASSUME Typing, Table, Next
  PROVE  Table' /\ (unknown => unknown')
<1>1. ASSUME UNCHANGED <<m_commands, unknown>>
      PROVE  Table' /\ (unknown => unknown')
  BY <1>1 DEF Table
<1>2. ASSUME NEW half \in TypedHalfLines, Complete(half)
      PROVE  Table' /\ (unknown => unknown')
  <2> DEFINE w == half.vec[1]
  <2>1. m_commands' = LookedUp(w) /\ unknown' = (unknown \/ w \notin Words)
    BY <1>2 DEF Complete
  <2>5. w \in Word
    <3>1. half.words \in Seq(Word) /\ half.words # <<>> /\ half.words[1] \in Word
      BY HalfLineVec
    <3>2. half.vec[1] = half.words[1]
      BY HalfLineWord
    <3> QED
      BY <3>1, <3>2
  <2> HIDE DEF w
  <2>2. DOMAIN m_commands' = DOMAIN m_commands \cup {w}
    BY <2>1 DEF LookedUp
  <2>3. \A v \in DOMAIN m_commands : m_commands'[v] = m_commands[v]
    BY <2>1 DEF LookedUp
  <2>4. w \notin DOMAIN m_commands => m_commands'[w] = NoCommand
    BY <2>1 DEF LookedUp
  <2> QED
    BY <2>1, <2>2, <2>3, <2>4, <2>5 DEF Table
<1> QED
  BY <1>1, <1>2
     DEF Next, UserStep, RunStep, ReadLine, ReadCompleted, GetsLine,
         EndOfFile, CompleteCommand, LookupInvalid, LookupNull,
         Lookup, Found, OptionsEnd, OptionUnsupported, OptionTaken, LastOptionTaken,
         ArgumentsWrong, Arguments, Execute, Exit, ExecuteNull, ExecuteThrows, Quit, Fails,
         Throws, Crashes, NextCommand, Leave, table, history

\* The entries of the table that are no command.
LEMMA NullUnknown ==
  ASSUME Table, ~unknown
  PROVE  NoNull /\ DOMAIN m_commands = Words /\ \A w \in Words : m_commands[w] = CommandOf(w)
  BY CommandOfType, ShellAssumption DEF Table, NoNull

-----------------------------------------------------------------------------
(* The words of a command                                                  *)

\* Without its first element a sequence is its tail.
LEMMA RemoveAtFirst ==
  ASSUME NEW s \in Seq(Word), s # <<>>
  PROVE  RemoveAt(s, 1) = Tail(s)
<1>1. RemoveAt(s, 1) = SubSeq(s, 1, 0) \o SubSeq(s, 2, Len(s))
  BY DEF RemoveAt
<1>2. SubSeq(s, 1, 0) = <<>>
  OBVIOUS
<1>3. SubSeq(s, 2, Len(s)) = Tail(s) /\ Tail(s) \in Seq(Word)
  BY TailIsSubSeq
<1> QED
  BY <1>1, <1>2, <1>3, ConcatEmptySeq

\* The elements of a rest.
LEMMA Rests ==
  ASSUME NEW s \in Seq(Word), NEW k \in Nat, NEW i \in 1 .. Len(s) - k
  PROVE  SubSeq(s, k + 1, Len(s))[i] = s[k + i] /\ Len(SubSeq(s, k + 1, Len(s))) = Len(s) - k
<1>1. /\ Len(s) \in Nat /\ k + 1 \in Int /\ i \in Nat /\ k + 1 <= Len(s)
      /\ \A j \in k + 1 .. Len(s) : s[j] \in Word
  OBVIOUS
<1>2. Len(s) - (k + 1) + 1 = Len(s) - k /\ (k + 1) + i - 1 = k + i
  BY <1>1
<1> QED
  BY <1>1, <1>2, SubSeqProperties

\* What PlainCommand() says of the first words.
LEMMA PlainIs ==
  ASSUME NEW words \in Seq(Word), words # <<>>, PlainCommand(words), NEW a,
         a = OptionsAhead(Behind(words))
  PROVE  \/ a = 0
         \/ /\ a = 1 /\ Len(words) > 2 /\ words[3] # EndOfOptions
            /\ Len(words) > 3 => ~LooksLikeOption(words[4])
  BY DEF PlainCommand

\* What comes to the loop of the options, as one of the words that are meant.
LEMMA AtOptionIs ==
  ASSUME Typing, meant # <<>>, OptionsRead, it <= Len(input)
  PROVE  \/ /\ it = 1 /\ input = Tail(meant) /\ Len(meant) \in Nat /\ Len(meant) >= 2
            /\ input[it] = meant[2] /\ Len(input) = Len(meant) - 1
         \/ /\ it = 2 /\ Len(meant) \in Nat /\ Len(meant) >= 4 /\ input[it] = meant[4]
            /\ ~LooksLikeOption(meant[4]) /\ OptionsAhead(Behind(meant)) = 1
<1>1. meant \in Seq(Word) /\ Len(meant) \in Nat /\ input \in Seq(Word) /\ Len(input) \in Nat
  BY DEF Typing
<1>2. CASE it = 1 /\ input = Behind(meant)
  <2>1. input = Tail(meant) /\ Len(input) = Len(meant) - 1
    BY <1>1, <1>2, BehindIs
  <2>2. 1 \in 1 .. Len(meant) - 1
    BY <1>1, <1>2, <2>1
  <2>3. input[1] = meant[2]
    BY <1>1, <1>2, <2>2, BehindIs
  <2> QED
    BY <1>1, <1>2, <2>1, <2>2, <2>3
<1>3. CASE it = 2 /\ OptionsAhead(Behind(meant)) = 1 /\ input = SubSeq(meant, 3, Len(meant))
  <2>1. Len(meant) > 2 /\ (Len(meant) > 3 => ~LooksLikeOption(meant[4]))
    BY <1>1, <1>3, PlainIs DEF OptionsRead
  <2>2. 1 \in 1 .. Len(meant) - 2 /\ 2 \in Nat
    BY <1>1, <2>1
  <2>3. Len(input) = Len(meant) - 2
    BY <1>1, <1>3, <2>2, Rests
  <2>4. 2 \in 1 .. Len(meant) - 2 /\ Len(meant) >= 4
    BY <1>1, <1>3, <2>3
  <2>5. input[2] = meant[4]
    BY <1>1, <1>3, <2>2, <2>4, Rests
  <2> QED
    BY <1>1, <1>3, <2>1, <2>4, <2>5
<1> QED
  BY <1>2, <1>3 DEF OptionsRead

\* An option that comes to the loop of a plain command is its first word.
LEMMA OptionAtOnce ==
  ASSUME Typing, meant # <<>>, OptionsRead, it <= Len(input), Option(input[it])
  PROVE  /\ it = 1 /\ input = Tail(meant) /\ input[1] = meant[2]
         /\ OptionsAhead(Behind(meant)) = 1
         /\ Len(meant) > 2 /\ Len(input) = Len(meant) - 1
         /\ cmd.options = <<>> /\ PlainCommand(meant) /\ cmd.name = meant[1]
<1>1. /\ it = 1 /\ input = Tail(meant) /\ Len(meant) \in Nat /\ Len(meant) >= 2
      /\ input[1] = meant[2] /\ Len(input) = Len(meant) - 1
  BY AtOptionIs DEF Option
<1>2. OptionsAhead(Behind(meant)) # 0
  <2>1. SUFFICES ASSUME OptionsAhead(Behind(meant)) = 0 PROVE FALSE
    OBVIOUS
  <2>2. 2 \in 2 .. Len(meant) /\ 2 = OptionsAhead(Behind(meant)) + 2
    BY <1>1, <2>1
  <2>3. meant[2] = EndOfOptions \/ ~LooksLikeOption(meant[2])
    BY <2>2, MeantOptionsAhead DEF Typing
  <2> QED
    BY <1>1, <2>3 DEF Option
<1>3. OptionsAhead(Behind(meant)) = 1 /\ Len(meant) > 2
  BY <1>2, PlainIs DEF OptionsRead, Typing
<1> QED
  BY <1>1, <1>3 DEF OptionsRead

\* The last word of a plain command is no option.
LEMMA LastOptionAmbiguous ==
  ASSUME Typing, Flow, LastOptionTaken
  PROVE  ~plain
<1> SUFFICES ASSUME plain PROVE FALSE
  OBVIOUS
<1>1. /\ meant # <<>> /\ OptionsRead /\ it = Len(input) /\ Option(input[it]) /\ it <= Len(input)
  BY DEF Flow, AtCommand, LastOptionTaken, AtOption
<1>2. it = 1 /\ Len(meant) > 2 /\ Len(input) = Len(meant) - 1
  BY <1>1, OptionAtOnce
<1>3. Len(meant) \in Nat /\ Len(input) \in Nat
  BY DEF Typing
<1>4. Len(input) = 1 /\ Len(input) > 1
  <2>1. Len(input) = 1
    BY <1>1, <1>2
  <2>2. Len(input) = Len(meant) - 1 /\ Len(meant) > 2
    BY <1>2
  <2>3. Len(input) > 1
    BY <2>2, <1>3
  <2> QED
    BY <2>1, <2>3
<1> QED
  BY <1>4

\* The loop takes the option of a plain command.
LEMMA OptionTakenFlow ==
  ASSUME Typing, meant # <<>>, OptionsRead, OptionTaken
  PROVE  OptionsRead'
<1>1. it <= Len(input) /\ Option(input[it])
  BY DEF OptionTaken, AtOption
<1>2. /\ it = 1 /\ input = Tail(meant) /\ input[1] = meant[2]
      /\ OptionsAhead(Behind(meant)) = 1 /\ cmd.options = <<>> /\ cmd.name = meant[1]
      /\ Len(meant) > 2 /\ Len(input) = Len(meant) - 1 /\ PlainCommand(meant)
  BY <1>1, OptionAtOnce
<1>3. meant \in Seq(Word) /\ Len(meant) \in Nat /\ input \in Seq(Word) /\ cmd \in Run
  BY DEF Typing
<1>4. /\ meant' = meant /\ it' = it + 1 /\ input' = RemoveAt(input, it)
      /\ cmd' = [cmd EXCEPT !.options = Append(@, input[it])]
  BY DEF OptionTaken, history
<1>5. input' = SubSeq(meant, 3, Len(meant))
  <2>1. input # <<>> /\ 2 \in 1 .. Len(meant)
    <3>1. Len(input) # 0
      BY <1>2, <1>3
    <3>2. input # <<>>
      BY <3>1
    <3>3. 2 \in 1 .. Len(meant)
      BY <1>2, <1>3
    <3> QED
      BY <3>2, <3>3
  <2>2. input' = Tail(input)
    BY <1>2, <1>3, <1>4, <2>1, RemoveAtFirst
  <2>3. input = SubSeq(meant, 2, Len(meant))
    BY <1>2, <1>3, TailIsSubSeq
  <2>4. Tail(SubSeq(meant, 2, Len(meant))) = SubSeq(meant, 2 + 1, Len(meant))
    BY <1>3, <2>1, TailOfRest
  <2> QED
    BY <2>2, <2>3, <2>4
<1>6. cmd'.options = <<meant[2]>> /\ cmd'.name = meant[1]
  BY <1>2, <1>3, <1>4 DEF Run
<1> QED
  BY <1>2, <1>4, <1>5, <1>6 DEF OptionsRead

\* And ends with the options and words that are meant.
LEMMA OptionsEndFlow ==
  ASSUME Typing, meant # <<>>, OptionsRead, OptionsEnd
  PROVE  /\ cmd'.name = meant[1]
         /\ cmd'.options = MeantOptions(meant)
         /\ input' = AfterOptions(meant)
<1> DEFINE a == OptionsAhead(Behind(meant))
<1>1. /\ meant \in Seq(Word) /\ Len(meant) \in Nat /\ Len(meant) > 0 /\ input \in Seq(Word)
      /\ Len(input) \in Nat
  BY DEF Typing
<1>2. cmd' = cmd /\ cmd.name = meant[1]
  BY DEF OptionsEnd, OptionsRead
<1>3. a = 0 \/ a = 1
  BY <1>1, PlainIs DEF OptionsRead
<1>4. AfterOptions(meant)
        = IF a + 1 < Len(meant) /\ meant[a + 2] = EndOfOptions
          THEN SubSeq(meant, a + 3, Len(meant)) ELSE SubSeq(meant, a + 2, Len(meant))
  BY <1>1, AfterOptionsIs
<1>5. EndOfOptions # <<>> /\ LooksLikeOption(EndOfOptions)
  BY DEF EndOfOptions, LooksLikeOption
<1>6. CASE it = 1 /\ cmd.options = <<>> /\ input = Behind(meant)
  <2>1. input = Tail(meant) /\ input = SubSeq(meant, 2, Len(meant)) /\ Len(input) = Len(meant) - 1
    BY <1>1, <1>6, BehindIs DEF Behind
  <2>2. CASE it = Len(input) + 1 /\ UNCHANGED input
    <3>1. Len(meant) = 1 /\ a = 0
      <4>1. a \in 0 .. Len(meant) - 1
        BY <1>1, MeantOptionsAhead
      <4>2. Len(meant) = 1
        BY <1>1, <1>6, <2>1, <2>2
      <4> QED
        BY <4>1, <4>2
    <3> QED
      BY <1>1, <1>2, <1>4, <1>6, <2>1, <2>2, <3>1, SubSeqEmpty DEF MeantOptions
  <2>3. CASE it <= Len(input) /\ ~Option(input[it])
    <3>1. Len(meant) >= 2 /\ input[it] = meant[2]
      BY <1>1, <1>6, <2>3, AtOptionIs
    <3>2. a = 0
      <4>1. SUFFICES ASSUME a = 1 PROVE FALSE
        BY <1>3
      <4>2. 2 \in 2 .. a + 1
        BY <4>1
      <4>3. LooksLikeOption(meant[2]) /\ meant[2] # EndOfOptions
        BY <1>1, <4>2, MeantOptionsAhead
      <4> QED
        BY <2>3, <3>1, <4>3 DEF Option
    <3>3. MeantOptions(meant) = <<>>
      BY <1>1, <3>2, SubSeqEmpty DEF MeantOptions
    <3>4. AfterOptions(meant) = IF meant[2] = EndOfOptions THEN SubSeq(meant, 3, Len(meant))
                                ELSE SubSeq(meant, 2, Len(meant))
      BY <1>1, <1>4, <3>1, <3>2
    <3>5. CASE ~LooksLikeOption(meant[2])
      <4>1. input' = input
        BY <1>5, <1>6, <2>3, <3>1, <3>5 DEF OptionsEnd, AtOption
      <4> QED
        BY <1>2, <1>5, <1>6, <2>1, <3>3, <3>4, <3>5, <4>1
    <3>6. CASE meant[2] = EndOfOptions
      <4>1. input' = RemoveAt(input, 1)
        BY <1>1, <1>5, <1>6, <2>1, <2>3, <3>1, <3>6 DEF OptionsEnd, AtOption
      <4>2. input # <<>> /\ 2 \in 1 .. Len(meant)
        BY <1>1, <2>1, <3>1
      <4>3. input' = Tail(input)
        BY <1>1, <4>1, <4>2, RemoveAtFirst
      <4>4. Tail(SubSeq(meant, 2, Len(meant))) = SubSeq(meant, 2 + 1, Len(meant))
        BY <1>1, <4>2, TailOfRest
      <4> QED
        BY <1>2, <1>6, <2>1, <3>3, <3>4, <3>6, <4>3, <4>4
    <3> QED
      BY <2>3, <3>1, <3>5, <3>6 DEF Option
  <2> QED
    BY <1>1, <1>5, <2>2, <2>3 DEF OptionsEnd, AtOption, Option
<1>7. CASE /\ it = 2 /\ a = 1
           /\ cmd.options = <<meant[2]>> /\ input = SubSeq(meant, 3, Len(meant))
  <2>1. Len(meant) > 2 /\ meant[3] # EndOfOptions
    BY <1>1, <1>7, PlainIs DEF OptionsRead
  <2>2. AfterOptions(meant) = input
    BY <1>1, <1>4, <1>7, <2>1
  <2>3. MeantOptions(meant) = <<meant[2]>>
    <3>1. MeantOptions(meant) = SubSeq(meant, 2, 2)
      BY <1>7 DEF MeantOptions
    <3>2. SubSeq(meant, 2, 2) = SubSeq(meant, 2, 2 - 1) \o <<meant[2]>> /\ meant[2] \in Word
      BY <1>1, <2>1, SubSeqRecursiveSecond
    <3>3. SubSeq(meant, 2, 2 - 1) = <<>> /\ <<meant[2]>> \in Seq(Word)
      BY <3>2, SubSeqEmpty
    <3> QED
      BY <3>1, <3>2, <3>3, ConcatEmptySeq
  <2>4. input' = input
    <3>1. it <= Len(input) => ~LooksLikeOption(input[it])
      BY AtOptionIs, <1>7
    <3> QED
      BY <1>5, <3>1 DEF OptionsEnd, AtOption
  <2> QED
    BY <1>2, <1>7, <2>2, <2>3, <2>4
<1> QED
  BY <1>6, <1>7 DEF OptionsRead

\* The first part of a concatenation,
LEMMA FirstOfConcat ==
  ASSUME NEW s \in Seq(Word), NEW t \in Seq(Word)
  PROVE  SubSeq(s \o t, 1, Len(s)) = s
<1>1. CASE s = <<>>
  BY <1>1, SubSeqEmpty
<1>2. CASE s # <<>>
  <2>1. 1 \in 1 .. Len(s) /\ Len(s) \in 1 .. Len(s)
    BY <1>2
  <2> QED
    BY <2>1, SubSeqOfConcat1, SubSeqFull
<1> QED
  BY <1>1, <1>2

\* and the second one.
LEMMA SecondOfConcat ==
  ASSUME NEW s \in Seq(Word), NEW t \in Seq(Word)
  PROVE  SubSeq(s \o t, Len(s) + 1, Len(s \o t)) = t
<1>1. Len(s) \in Nat /\ Len(t) \in Nat /\ Len(s \o t) = Len(s) + Len(t)
  BY ConcatProperties
<1>2. CASE t = <<>>
  BY <1>1, <1>2, SubSeqEmpty
<1>3. CASE t # <<>>
  <2>1. /\ Len(s) + 1 \in Len(s) + 1 .. Len(s) + Len(t)
        /\ Len(s) + Len(t) \in Len(s) + 1 .. Len(s) + Len(t)
    BY <1>1, <1>3
  <2>2. (Len(s) + 1) - Len(s) = 1 /\ (Len(s) + Len(t)) - Len(s) = Len(t)
    BY <1>1
  <2> QED
    BY <1>1, <2>1, <2>2, SubSeqOfConcat2, SubSeqFull
<1> QED
  BY <1>2, <1>3

\* run() takes the arguments from what is behind the options.
LEMMA ArgumentsFlow ==
  ASSUME Typing, Steps, Arguments, cmd.name = meant[1], cmd.options = MeantOptions(meant),
         input = AfterOptions(meant)
  PROVE  Separated'
<1> DEFINE N == cmd.command.argNumber
<1>1. PICK given \in Seq(Word), answers \in Seq(Word) :
        /\ given = IF TooFew THEN input ELSE SubSeq(input, 1, N)
        /\ Len(given) \in Nat
        /\ cmd' = [name |-> cmd.name, command |-> cmd.command, options |-> cmd.options,
                   args |-> given \o answers, given |-> Len(given)]
        /\ input' = SubSeq(input, Len(given) + 1, Len(input))
  BY ArgumentsTake
<1>2. meant' = meant
  BY DEF Arguments, history
<1>3. /\ cmd'.name = cmd.name /\ cmd'.options = cmd.options /\ cmd'.args = given \o answers
      /\ cmd'.given = Len(given)
  BY <1>1
<1>4. SubSeq(given \o answers, 1, Len(given)) = given
  BY FirstOfConcat
<1>5. Given' = given
  BY <1>3, <1>4 DEF Given
<1>6. given \o input' = input
  <2>0. input \in Seq(Word) /\ Len(input) \in Nat
    BY DEF Typing
  <2>1. CASE TooFew
    <3>1. given = input
      BY <1>1, <2>1
    <3>2. input' = <<>>
      BY <1>1, <2>0, <3>1, SubSeqEmpty
    <3> QED
      BY <2>0, <3>1, <3>2, ConcatEmptySeq
  <2>2. CASE ~TooFew
    <3>1. N \in Nat /\ N <= Len(input)
      <4>1. cmd.command \in Commands
        BY DEF Arguments, Steps
      <4>2. N \in {0, 1}
        BY <4>1, CommandsType
      <4> QED
        BY <2>0, <2>2, <4>2 DEF TooFew
    <3> HIDE DEF N
    <3>2. given = SubSeq(input, 1, N)
      BY <1>1, <2>2
    <3>3. Len(given) = N
      <4>1. \A i \in 1 .. N : input[i] \in Word
        BY <2>0, <3>1
      <4> QED
        BY <2>0, <3>1, <3>2, <4>1, SubSeqProperties
    <3>4. SubSeq(input, 1, N) \o SubSeq(input, N + 1, Len(input)) = SubSeq(input, 1, Len(input))
      <4>1. /\ 1 \in 1 .. Len(input) + 1 /\ N \in 1 - 1 .. Len(input)
            /\ Len(input) \in N .. Len(input)
        BY <2>0, <3>1
      <4> QED
        BY <2>0, <4>1, ConcatAdjacentSubSeq
    <3> QED
      BY <1>1, <2>0, <3>2, <3>3, <3>4, SubSeqFull
  <2> QED
    BY <2>1, <2>2
<1> QED
  BY <1>2, <1>3, <1>5, <1>6 DEF Separated

\* What it leaves begins with the next command of a batch.
LEMMA NextFlow ==
  ASSUME Typing, Steps, pc = "execute", Separated
  PROVE  MeantNext = input
<1>1. /\ cmd.args \in Seq(Word) /\ cmd.given \in Nat /\ cmd.given <= Len(cmd.args)
      /\ input \in Seq(Word)
  BY DEF Typing, Run, Steps
<1>2. Given \in Seq(Word) /\ Len(Given) = cmd.given
  <2>1. \A i \in 1 .. cmd.given : cmd.args[i] \in Word
    BY <1>1
  <2> QED
    BY <1>1, <2>1, SubSeqProperties DEF Given
<1>3. AfterOptions(meant) = Given \o input
  BY DEF Separated
<1>4. SubSeq(Given \o input, Len(Given) + 1, Len(Given \o input)) = input
  BY <1>1, <1>2, SecondOfConcat
<1>5. 1 + cmd.given = Len(Given) + 1
  BY <1>1, <1>2
<1> QED
  BY <1>3, <1>4, <1>5 DEF MeantNext

\* Every step keeps words and configuration as they are meant.
LEMMA FlowStep ==
  ASSUME Typing, Steps, Table, Flow, Offers, Next
  PROVE  Flow'
<1>1. ASSUME NEW words \in Seq(Word), NEW completed, GetsLine(words, words, completed)
      PROVE  Flow'
  <2>1. /\ pc' = "lookup" /\ input' = words /\ meant' = words /\ words # <<>>
        /\ config' = config /\ ~batch
    BY <1>1 DEF GetsLine, Steps
  <2> QED
    BY <2>1 DEF Flow, batch
<1>2. ASSUME NEW half \in TypedHalfLines, Complete(half)
      PROVE  Flow'
  BY <1>2 DEF Complete, Flow, AtCommand, OptionsRead, Separated, Given, batch
<1>3. ASSUME NEW text \in HalfCommands, CompleteCommand(text)
      PROVE  Flow'
  BY <1>3 DEF CompleteCommand, Flow, AtCommand, OptionsRead, Separated, Given, batch, history
<1>4. ASSUME pc' \in {"read", "quit", "down"}
      PROVE  Flow'
  BY <1>4 DEF Flow, AtCommand
<1>5. ASSUME NEW line, Throws(line)
      PROVE  pc' \in {"read", "quit", "down"}
  BY <1>5 DEF Throws, Prompt
<1>6. CASE Lookup
  <2>1. /\ pc = "lookup" /\ pc' = "options" /\ plain' = (plain /\ PlainCommand(meant))
        /\ it' = 1 /\ meant' = meant /\ config' = config /\ asked' = asked
        /\ cmd' = [Idle EXCEPT !.name = input[1], !.command = m_commands[input[1]]]
        /\ input' = Tail(input)
    BY <1>6 DEF Lookup, Found, table
  <2>2. SUFFICES ASSUME plain' PROVE Flow'
    BY DEF Flow
  <2>3. plain /\ PlainCommand(meant) /\ input = meant /\ meant # <<>> /\ (batch => config = asked)
    BY <2>1, <2>2 DEF Flow, AtCommand
  <2>4. cmd'.name = input[1] /\ cmd'.options = <<>>
    BY <2>1 DEF Idle
  <2>5. input' = Behind(meant)
    BY <2>1, <2>3, BehindIs DEF Typing
  <2>6. OptionsRead'
    BY <2>1, <2>3, <2>4, <2>5 DEF OptionsRead
  <2> QED
    BY <2>1, <2>3, <2>6 DEF Flow, batch
<1>7. CASE OptionsEnd
  <2>1. /\ pc = "options" /\ pc' = "arguments" /\ plain' = plain /\ meant' = meant
        /\ config' = config /\ asked' = asked
    BY <1>7 DEF OptionsEnd, table, history
  <2>2. SUFFICES ASSUME plain PROVE Flow'
    BY <2>1 DEF Flow
  <2>3. meant # <<>> /\ OptionsRead /\ (batch => config = asked)
    BY <2>1, <2>2 DEF Flow, AtCommand
  <2>4. cmd'.name = meant[1] /\ cmd'.options = MeantOptions(meant) /\ input' = AfterOptions(meant)
    BY <1>7, <2>3, OptionsEndFlow
  <2> QED
    BY <2>1, <2>3, <2>4 DEF Flow, batch
<1>8. CASE OptionTaken
  <2>1. /\ pc = "options" /\ pc' = "options" /\ plain' = plain /\ meant' = meant
        /\ config' = config /\ asked' = asked
    BY <1>8 DEF OptionTaken, AtOption, table, history
  <2>2. SUFFICES ASSUME plain PROVE Flow'
    BY <2>1 DEF Flow
  <2>3. meant # <<>> /\ OptionsRead /\ (batch => config = asked)
    BY <2>1, <2>2 DEF Flow, AtCommand
  <2>4. OptionsRead'
    BY <1>8, <2>3, OptionTakenFlow
  <2> QED
    BY <2>1, <2>3, <2>4 DEF Flow, batch
<1>9. CASE LastOptionTaken
  <2>1. ~plain
    BY <1>9, LastOptionAmbiguous
  <2>2. plain' = plain \/ pc' \in {"read", "quit", "down"}
    BY <1>5, <1>9 DEF LastOptionTaken, Fails, Crashes, history
  <2> QED
    BY <1>4, <2>1, <2>2 DEF Flow
<1>10. CASE Arguments
  <2>1. /\ pc = "arguments" /\ pc' = "execute" /\ plain' = plain /\ meant' = meant
        /\ config' = config /\ asked' = asked
    BY <1>10 DEF Arguments, history
  <2>2. SUFFICES ASSUME plain PROVE Flow'
    BY <2>1 DEF Flow
  <2>3. /\ meant # <<>> /\ (batch => config = asked)
        /\ cmd.name = meant[1] /\ cmd.options = MeantOptions(meant) /\ input = AfterOptions(meant)
    BY <2>1, <2>2 DEF Flow, AtCommand
  <2>4. Separated'
    BY <1>10, <2>3, ArgumentsFlow
  <2> QED
    BY <2>1, <2>3, <2>4 DEF Flow, batch
<1>11. ASSUME pc = "execute", NextCommand
       PROVE  Flow'
  <2>1. CASE batch /\ input # <<>>
    <3>1. /\ pc' = "lookup" /\ meant' = MeantNext /\ plain' = plain /\ input' = input
          /\ config' = config /\ asked' = asked
      BY <1>11, <2>1 DEF NextCommand, table
    <3>2. SUFFICES ASSUME plain PROVE Flow'
      BY <3>1 DEF Flow
    <3>3. Separated /\ config = asked
      BY <1>11, <2>1, <3>2 DEF Flow, AtCommand
    <3>4. MeantNext = input
      BY <1>11, <3>3, NextFlow
    <3> QED
      BY <2>1, <3>1, <3>3, <3>4 DEF Flow, batch
  <2>2. CASE ~(batch /\ input # <<>>)
    <3>1. pc' \in {"read", "quit"}
      BY <1>11, <2>2 DEF NextCommand, Prompt
    <3> QED
      BY <1>4, <3>1
  <2> QED
    BY <2>1, <2>2
<1> QED
  BY <1>1, <1>2, <1>3, <1>4, <1>5, <1>6, <1>7, <1>8, <1>9, <1>10, <1>11,
     LineEntered, CompletedEntered
     DEF Next, UserStep, RunStep, EndOfFile, LookupInvalid, LookupNull, OptionUnsupported,
         ArgumentsWrong, Execute, Exit, ExecuteNull, ExecuteThrows, Quit, Fails, Crashes, Leave

\* Every step into a crash is explained.
LEMMA CrashStep ==
  ASSUME Typing, Table, Flow, CrashIsEnd, Next
  PROVE  CrashIsEnd'
<1>1. ASSUME NEW line, Throws(line), pc # "down"
      PROVE  CrashIsEnd'
  BY <1>1 DEF Throws, CrashIsEnd
<1>2. ASSUME Crashes, unknown \/ ~plain
      PROVE  CrashIsEnd'
  BY <1>2 DEF Crashes, history, CrashIsEnd
<1>3. CASE LookupNull
  BY <1>2, <1>3, NullUnknown DEF LookupNull, NoNull
<1>4. CASE ExecuteNull
  BY <1>2, <1>4, NullUnknown DEF ExecuteNull, MeetsNull, AsksFor, NoNull
<1>5. ASSUME ended' = ended, pc # "down"
      PROVE  CrashIsEnd'
  BY <1>5 DEF CrashIsEnd
<1>6. CASE LastOptionTaken
  BY <1>1, <1>2, <1>5, <1>6, LastOptionAmbiguous DEF LastOptionTaken, AtOption, Fails
<1>7. CASE Quit
  BY <1>7, NullUnknown DEF Quit, history, CrashIsEnd
<1> QED
  BY <1>1, <1>3, <1>4, <1>5, <1>6, <1>7
     DEF Next, UserStep, RunStep, ReadLine, ReadCompleted, GetsLine,
         EndOfFile, Complete, CompleteCommand, AtPrompt,
         LookupInvalid, Lookup, Found, OptionsEnd, OptionUnsupported, OptionTaken, AtOption,
         ArgumentsWrong, Arguments, Execute, Exit, ExecuteThrows, Fails, NextCommand, Leave

-----------------------------------------------------------------------------
(* Offers                                                                  *)

\* Which commands have an argument.
LEMMA WithArguments ==
  ASSUME NEW c \in Commands, c.argNumber # 0
  PROVE  c \in {Info, Pin, Download, Cache, Device, Upload, HelpCmd}
<1> USE DEF Aliased, AbstractCommand
<1>1. Exit_.argNumber = 0 /\ Help.argNumber = 0 /\ Copying.argNumber = 0 /\ List.argNumber = 0
  BY DEF Exit_, Help, Copying, List
<1>2. Devices.argNumber = 0 /\ Start.argNumber = 0 /\ Reset.argNumber = 0
  BY DEF Devices, Start, Reset
<1> QED
  BY <1>1, <1>2
     DEF Commands, BuiltIn, FirmwareCommands, CacheCommands, DeviceCommands, BoardCommands

\* A command takes what is offered for its argument.
LEMMA OfferedIsTaken ==
  ASSUME NEW c \in Commands, c.argNumber # 0, NEW text, NEW names, names \subseteq Words
  PROVE  CompleteArgument(c, text, names) \subseteq Taken(c)
<1>1. /\ CompleteFirmware(text) \subseteq FirmwareNames
      /\ CompleteDownload(text) \subseteq {<<"all">>} \cup FirmwareNames
      /\ CompleteCache(text) \subseteq {<<"clean">>, <<"delete">>}
      /\ CompleteUpload(text) \subseteq FirmwareNames
      /\ StartingWith(text, names) \subseteq Words
  BY DEF CompleteFirmware, CompleteDownload, CompleteCache, CompleteUpload, StartingWith
<1> QED
  BY <1>1, WithArguments
     DEF CompleteArgument, Taken, TakenByInfo, TakenByDownload, TakenByCache, TakenByDevice,
         TakenByUpload, CompleteDevice

\* What is offered are words.
LEMMA OfferedType ==
  ASSUME NEW c \in Commands, c.argNumber # 0, NEW text, NEW names, names \subseteq Word
  PROVE  CompleteArgument(c, text, names) \subseteq Word
<1>1. /\ CompleteFirmware(text) \subseteq Word /\ CompleteDownload(text) \subseteq Word
      /\ CompleteCache(text) \subseteq Word /\ CompleteUpload(text) \subseteq Word
      /\ StartingWith(text, names) \subseteq Word /\ Numbers \subseteq Word
  BY UsbprogCommandsAssumption
     DEF CompleteFirmware, CompleteDownload, CompleteCache, CompleteUpload, StartingWith
<1> QED
  BY <1>1, WithArguments DEF CompleteArgument, CompleteDevice

\* What Offer() can make.
LEMMA OfferIs ==
  ASSUME NEW c, NEW vec, NEW text, NEW names
  PROVE  \/ Offer(c, vec, text, names) = NoOffer
         \/ /\ c # NoCommand
            /\ Offer(c, vec, text, names) = Offering("options", 0, CompleteOption(c, text))
         \/ /\ c # NoCommand /\ ~LooksLikeOption(text)
            /\ ~(c.argNumber <= Position(vec, text))
            /\ Offer(c, vec, text, names)
                 = Offering("argument", Position(vec, text), CompleteArgument(c, text, names))
<1>1. CASE c = NoCommand
  BY <1>1 DEF Offer
<1>2. CASE c # NoCommand /\ LooksLikeOption(text)
  BY <1>2 DEF Offer, OfferOptions
<1>3. CASE c # NoCommand /\ ~LooksLikeOption(text)
  BY <1>3 DEF Offer, OfferArgument
<1> QED
  BY <1>1, <1>2, <1>3

\* Every step keeps what is said of an offer.
LEMMA OffersStep ==
  ASSUME Typing, Table, Offers, Next
  PROVE  Offers'
<1>0. (unknown => unknown') /\ Table'
  BY TableStep
<1>1. ASSUME offered' = offered
      PROVE  Offers'
  BY <1>0, <1>1 DEF Offers, ArgumentOffered
<1>2. ASSUME NEW words \in SUBSET Word, <<"all">> \notin words
      PROVE  \A w \in words : IsPrefix(Replacement(words), w)
  BY <1>2, ReplacementIsPrefix DEF Word
<1>3. <<>> \in Word /\ <<>> # <<"all">>
  BY DEF Word
<1>4. ASSUME NEW line, offered' = [NoOffer EXCEPT !.line = line] \/ offered' = NoOffer
      PROVE  Offers'
  <2>1. offered'.of = "nothing" /\ offered'.words = {<<>>}
    BY <1>4 DEF NoOffer, Offering
  <2>2. \A w \in offered'.words : IsPrefix(Replacement(offered'.words), w)
    BY <1>2, <1>3, <2>1
  <2> QED
    BY <2>1, <2>2 DEF Offers
<1>5. ASSUME NEW text \in HalfCommands, CompleteCommand(text)
      PROVE  Offers'
  <2>1. /\ offered'.of = "command" /\ offered'.words = StartingWith(text, DOMAIN m_commands)
        /\ m_commands' = m_commands /\ unknown' = unknown
    BY <1>5 DEF CompleteCommand, Offering, history
  <2>2. offered'.words \subseteq DOMAIN m_commands
    BY <2>1 DEF StartingWith
  <2>3. offered'.words \subseteq Words \/ unknown
    BY <2>2 DEF Table
  <2>4. offered'.words \in SUBSET Word
    BY <2>2 DEF Table
  <2>5. <<"all">> \notin offered'.words
          => \A w \in offered'.words : IsPrefix(Replacement(offered'.words), w)
    BY <1>2, <2>4
  <2> QED
    BY <2>1, <2>3, <2>5 DEF Offers
<1>6. ASSUME NEW half \in TypedHalfLines, Complete(half)
      PROVE  Offers'
  <2> DEFINE c == m_commands'[half.vec[1]]
             names == DOMAIN m_commands'
             text == half.text
             offer == Offer(c, half.vec, text, names)
  <2>1. offered' = [offer EXCEPT !.line = half.words]
    BY <1>6 DEF Complete
  <2>2. /\ half.words \in Seq(Word) /\ half.words # <<>> /\ Len(half.words) <= SizeLimit
        /\ text \in Word
        /\ half.vec = IF text = <<>> THEN half.words ELSE Append(half.words, text)
        /\ half.vec[1] = half.words[1]
    BY HalfLineVec, HalfLineWord
  <2>3. half.vec[1] \in names
    BY <1>6 DEF Complete, LookedUp
  <2>4. c # NoCommand => /\ half.words[1] \in Words /\ c = CommandOf(half.words[1])
                         /\ c \in Commands
    BY <1>0, <2>2, <2>3, CommandOfType DEF Table
  <2>5. (names \subseteq Words \/ unknown') /\ names \subseteq Word
    BY <1>0 DEF Table
  <2> HIDE DEF c, names, text
  <2>6. CASE offer = NoOffer
    BY <1>4, <2>1, <2>6
  <2>7. CASE c # NoCommand /\ offer = Offering("options", 0, CompleteOption(c, text))
    <3>1. offered'.of = "options" /\ offered'.words = CompleteOption(c, text)
      BY <2>1, <2>7 DEF Offering
    <3>2. offered'.words \in SUBSET Word
      BY <2>4, <2>7, <3>1, CommandsType DEF CompleteOption, StartingWith
    <3>3. <<"all">> \notin offered'.words
            => \A w \in offered'.words : IsPrefix(Replacement(offered'.words), w)
      BY <1>2, <3>2
    <3> QED
      BY <3>1, <3>3 DEF Offers
  <2>8. CASE /\ c # NoCommand /\ ~LooksLikeOption(text)
             /\ ~(c.argNumber <= Position(half.vec, text))
             /\ offer = Offering("argument", Position(half.vec, text),
                                 CompleteArgument(c, text, names))
    <3> DEFINE pos == Position(half.vec, text)
    <3>1. /\ offered'.of = "argument" /\ offered'.pos = pos
          /\ offered'.words = CompleteArgument(c, text, names) /\ offered'.line = half.words
      BY <2>1, <2>8 DEF Offering
    <3>2. c = CommandOf(offered'.line[1]) /\ c \in Commands
      BY <2>4, <2>8, <3>1
    <3>3. pos \in 0 .. c.argNumber - 1 /\ c.argNumber # 0
      <4>1. pos \in Nat
        BY <2>2, PositionType
      <4>2. c.argNumber \in {0, 1}
        BY <3>2, CommandsType
      <4> HIDE DEF pos
      <4> QED
        BY <2>8, <4>1, <4>2 DEF pos
    <3>4. offered'.words \subseteq Taken(c) \/ unknown'
      BY <2>5, <3>1, <3>2, <3>3, OfferedIsTaken
    <3>5. offered'.words \in SUBSET Word
      BY <2>5, <3>1, <3>2, <3>3, OfferedType
    <3>6. <<"all">> \notin offered'.words
            => \A w \in offered'.words : IsPrefix(Replacement(offered'.words), w)
      BY <1>2, <3>5
    <3>7. NoneLooksLikeOption(AfterOptions(offered'.line))
            => offered'.pos = Len(AfterOptions(offered'.line))
      <4>1. ~LooksLikeOption(half.words[1])
        BY <2>4, <2>8, NamesAreNoOptions
      <4> QED
        BY <2>2, <2>8, <3>1, <4>1, PositionIs DEF NoneLooksLikeOption
    <3>8. ArgumentOffered'
      BY <2>2, <2>4, <2>8, <3>1, <3>2, <3>3, <3>4, <3>5, <3>7 DEF ArgumentOffered
    <3> QED
      BY <3>1, <3>6, <3>8 DEF Offers
  <2> QED
    BY <2>6, <2>7, <2>8, OfferIs DEF c, names, text
<1> QED
  BY <1>1, <1>4, <1>5, <1>6
     DEF Next, UserStep, RunStep, ReadLine, ReadCompleted, GetsLine,
         EndOfFile, LookupInvalid, LookupNull,
         Lookup, Found, OptionsEnd, OptionUnsupported, OptionTaken, LastOptionTaken,
         ArgumentsWrong, Arguments, Execute, Exit, ExecuteNull, ExecuteThrows, Quit, Fails,
         Throws, Crashes, NextCommand, Leave, table

-----------------------------------------------------------------------------
(* Completed words                                                         *)

\* Without an element before it, a sequence keeps its last one.
LEMMA LastStays ==
  ASSUME NEW s \in Seq(Word), NEW i \in 1 .. Len(s) - 1
  PROVE  RemoveAt(s, i) # <<>> /\ RemoveAt(s, i)[Len(RemoveAt(s, i))] = s[Len(s)]
<1> DEFINE u == SubSeq(s, 1, i - 1)
           v == SubSeq(s, i + 1, Len(s))
<1>1. i \in Nat /\ i > 0 /\ Len(s) \in Nat /\ i < Len(s) /\ \A j \in 1 .. Len(s) : s[j] \in Word
  OBVIOUS
<1>2. u \in Seq(Word) /\ Len(u) = i - 1
  BY <1>1, SubSeqProperties
<1>3. v \in Seq(Word) /\ Len(v) = Len(s) - i /\ v[Len(s) - i] = s[Len(s)]
  <2>1. Len(s) - i \in 1 .. Len(s) - i /\ i + (Len(s) - i) = Len(s)
    BY <1>1
  <2>2. v[Len(s) - i] = s[i + (Len(s) - i)] /\ Len(v) = Len(s) - i
    BY <1>1, <2>1, Rests
  <2>3. v \in Seq(Word)
    BY <1>1, SubSeqProperties
  <2> QED
    BY <2>1, <2>2, <2>3
<1>4. RemoveAt(s, i) = u \o v
  BY DEF RemoveAt
<1> DEFINE k == Len(u) + Len(v)
<1>5. /\ Len(u \o v) = k
      /\ \A j \in 1 .. k : (u \o v)[j] = IF j <= Len(u) THEN u[j] ELSE v[j - Len(u)]
  <2> HIDE DEF u, v
  <2> QED
    BY <1>2, <1>3, ConcatProperties
<1>6. k \in 1 .. k /\ ~(k <= Len(u)) /\ k - Len(u) = Len(s) - i
  <2> HIDE DEF u, v
  <2> QED
    BY <1>1, <1>2, <1>3
<1> HIDE DEF u, v, k
<1>7. Len(u \o v) = k /\ (u \o v)[k] = s[Len(s)] /\ u \o v # <<>>
  <2>1. (u \o v)[k] = s[Len(s)]
    BY <1>3, <1>5, <1>6
  <2>2. k # 0
    BY <1>6
  <2> QED
    BY <1>5, <2>1, <2>2
<1> QED
  BY <1>4, <1>7

\* A line with the word that was offered for its argument.
LEMMA CompletedLine ==
  ASSUME Steps, Offers, NEW word \in offered.words, ReadCompleted(word)
  PROVE  Accepts'
<1> DEFINE words == Append(offered.line, word)
           c == CommandOf(offered.line[1])
<1>0. PICK a : a = [pos |-> offered.pos, word |-> word]
  OBVIOUS
<1>1. /\ offered.line \in Seq(Word) /\ offered.line # <<>> /\ offered.line[1] \in Words
      /\ offered.pos \in 0 .. c.argNumber - 1
      /\ word \in Word /\ (word \in Taken(c) \/ unknown)
      /\ NoneLooksLikeOption(AfterOptions(offered.line)) =>
           offered.pos = Len(AfterOptions(offered.line))
  BY CompletedEntered DEF ArgumentOffered
<1>2. /\ pc' = "lookup" /\ input' = words /\ meant' = words /\ accepted' = {a}
      /\ config' = config /\ unknown' = unknown /\ ~batch
  BY <1>0, CompletedEntered DEF GetsLine, Steps
<1>3. Len(words) >= 2 /\ words[Len(words)] = word /\ words[1] = offered.line[1]
  <2>1. /\ Len(offered.line) \in Nat /\ 1 \in 1 .. Len(offered.line)
        /\ Len(words) = Len(offered.line) + 1 /\ words[Len(offered.line) + 1] = word
        /\ \A i \in 1 .. Len(offered.line) : words[i] = offered.line[i]
    BY <1>1, AppendProperties
  <2> HIDE DEF words
  <2> QED
    BY <2>1
<1>4. c.argNumber = 1 /\ offered.pos = 0
  <2>1. c.argNumber \in {0, 1}
    BY <1>1, CommandOfType, CommandsType
  <2> HIDE DEF c
  <2> QED
    BY <1>1, <2>1
<1>5. ASSUME ~LooksLikeOption(word), NoneLooksLikeOption(AfterOptions(words))
      PROVE  Len(AfterOptions(words)) = 1
  <2> DEFINE before == AfterOptions(offered.line)
  <2>1. before \in Seq(Word) /\ AfterOptions(words) = Append(before, word)
    BY <1>1, <1>5, AfterType, AfterOptionsAppend
  <2> HIDE DEF before, words
  <2>2. /\ Len(AfterOptions(words)) = Len(before) + 1 /\ Len(before) \in Nat
        /\ \A i \in 1 .. Len(before) : AfterOptions(words)[i] = before[i]
    BY <1>1, <2>1, AppendProperties
  <2>3. NoneLooksLikeOption(before)
    <3>1. ASSUME NEW w \in ToSet(before) PROVE ~LooksLikeOption(w)
      <4>1. PICK i \in 1 .. Len(before) : w = before[i]
        BY <2>1 DEF ToSet
      <4>2. i \in DOMAIN AfterOptions(words) /\ AfterOptions(words)[i] = w
        BY <1>1, <2>1, <2>2, <4>1
      <4> QED
        BY <1>5, <4>2 DEF NoneLooksLikeOption, ToSet
    <3> QED
      BY <3>1 DEF NoneLooksLikeOption
  <2>4. Len(before) = 0
    BY <1>1, <1>4, <2>3 DEF before
  <2> QED
    BY <2>2, <2>4
<1> HIDE DEF words
<1>6. Completed(a)'
  <2>1. a.pos = 0 /\ a.word = word
    BY <1>0, <1>4
  <2>2. CommandOf(meant'[1]) = c /\ meant'[1] \in Words
    BY <1>1, <1>2, <1>3
  <2> HIDE DEF c
  <2> QED
    BY <1>1, <1>2, <1>3, <1>4, <1>5, <2>1, <2>2 DEF Completed
<1>7. WordKept(a)'
  BY <1>2 DEF WordKept
<1> QED
  BY <1>2, <1>6, <1>7 DEF Accepts, batch

\* Every step brings a completed word on to its argument.
LEMMA AcceptsStep ==
  ASSUME Typing, Steps, Table, Offers, Accepts, Next
  PROVE  Accepts'
<1>0. unknown => unknown'
  BY TableStep
<1>1. ASSUME accepted' = {}
      PROVE  Accepts'
  BY <1>1 DEF Accepts
<1>2. ASSUME accepted' = accepted, meant' = meant, config' = config,
             pc' \in {"lookup", "options", "arguments", "execute", "down"},
             \A a \in accepted : ~LooksLikeOption(a.word) => WordKept(a)'
      PROVE  Accepts'
  BY <1>0, <1>2 DEF Accepts, Completed, batch
<1>3. ASSUME UNCHANGED <<accepted, meant, config, pc, input, cmd>>
      PROVE  Accepts'
  BY <1>0, <1>3 DEF Accepts, Completed, WordKept, batch
<1>4. ASSUME NEW a \in accepted, ~LooksLikeOption(a.word)
      PROVE  /\ ~batch /\ Completed(a) /\ WordKept(a)
             /\ meant \in Seq(Word) /\ Len(meant) \in Nat
             /\ input \in Seq(Word) /\ Len(input) \in Nat
  BY <1>4 DEF Accepts, Typing
<1>5. CASE Lookup
  <2>1. /\ pc = "lookup" /\ pc' = "options" /\ input' = Tail(input)
        /\ accepted' = accepted /\ meant' = meant /\ config' = config
        /\ cmd' = [Idle EXCEPT !.name = input[1], !.command = m_commands[input[1]]]
    BY <1>5 DEF Lookup, Found, table
  <2>2. cmd'.command = m_commands[input[1]]
    BY <2>1 DEF Idle
  <2>3. ASSUME NEW a \in accepted, ~LooksLikeOption(a.word)
        PROVE  WordKept(a)'
    <3>1. /\ input = meant /\ meant \in Seq(Word) /\ Len(meant) \in Nat /\ Len(meant) >= 2
          /\ meant[Len(meant)] = a.word /\ meant[1] \in Words
      BY <1>4, <2>1, <2>3 DEF Completed, WordKept
    <3>2. /\ Tail(meant) \in Seq(Word) /\ Len(Tail(meant)) = Len(meant) - 1
          /\ Tail(meant)[Len(meant) - 1] = meant[Len(meant)]
      BY <3>1
    <3>3. Tail(meant) # <<>>
      <4> DEFINE t == Tail(meant)
      <4>1. t \in Seq(Word) /\ Len(t) # 0
        BY <3>1, <3>2
      <4> HIDE DEF t
      <4>2. t # <<>>
        BY <4>1
      <4> QED
        BY <4>2 DEF t
    <3>4. cmd'.command = CommandOf(meant[1])
      BY <2>2, <3>1 DEF Table
    <3> QED
      BY <2>1, <3>1, <3>2, <3>3, <3>4 DEF WordKept
  <2> QED
    BY <1>2, <2>1, <2>3
<1>6. CASE OptionsEnd
  <2>1. /\ pc = "options" /\ pc' = "arguments" /\ cmd' = cmd
        /\ accepted' = accepted /\ meant' = meant /\ config' = config
    BY <1>6 DEF OptionsEnd, table, history
  <2>2. ASSUME NEW a \in accepted, ~LooksLikeOption(a.word)
        PROVE  WordKept(a)'
    <3>1. /\ input # <<>> /\ input[Len(input)] = a.word /\ cmd.command = CommandOf(meant[1])
          /\ input \in Seq(Word) /\ Len(input) \in Nat
      BY <1>4, <2>1, <2>2 DEF WordKept
    <3>2. CASE input' = input
      BY <2>1, <3>1, <3>2 DEF WordKept
    <3>3. CASE it <= Len(input) /\ input[it] = EndOfOptions /\ input' = RemoveAt(input, it)
      <4>1. LooksLikeOption(EndOfOptions)
        BY DEF EndOfOptions, LooksLikeOption
      <4>2. it \in 1 .. Len(input) - 1
        <5>1. it # Len(input)
          BY <2>2, <3>1, <3>3, <4>1
        <5> QED
          BY <3>1, <3>3, <5>1 DEF Typing
      <4> QED
        BY <2>1, <3>1, <3>3, <4>2, LastStays DEF WordKept
    <3> QED
      BY <1>6, <3>2, <3>3 DEF OptionsEnd, AtOption
  <2> QED
    BY <1>2, <2>1, <2>2
<1>7. CASE OptionTaken
  <2>1. /\ pc = "options" /\ pc' = "options" /\ it < Len(input) /\ input' = RemoveAt(input, it)
        /\ accepted' = accepted /\ meant' = meant /\ config' = config
        /\ cmd' = [cmd EXCEPT !.options = Append(@, input[it])]
    BY <1>7 DEF OptionTaken, AtOption, table, history
  <2>2. cmd'.command = cmd.command
    BY <2>1 DEF Typing, Run
  <2>3. ASSUME NEW a \in accepted, ~LooksLikeOption(a.word)
        PROVE  WordKept(a)'
    <3>1. /\ input # <<>> /\ input[Len(input)] = a.word /\ cmd.command = CommandOf(meant[1])
          /\ input \in Seq(Word) /\ Len(input) \in Nat
      BY <1>4, <2>1, <2>3 DEF WordKept
    <3>2. it \in 1 .. Len(input) - 1
      BY <2>1, <3>1 DEF Typing
    <3> QED
      BY <2>1, <2>2, <3>1, <3>2, LastStays DEF WordKept
  <2> QED
    BY <1>2, <2>1, <2>3
<1>8. ASSUME NEW line, Throws(line)
      PROVE  Accepts'
  BY <1>1, <1>8 DEF Throws
<1>9. ASSUME Crashes, pc \notin {"read", "quit"}
      PROVE  Accepts'
  BY <1>2, <1>9 DEF Crashes, table, history, WordKept
<1>10. CASE LastOptionTaken
  <2>1. ASSUME NEW a \in accepted
        PROVE  LooksLikeOption(a.word)
    <3>1. LooksLikeOption(input[Len(input)]) /\ pc = "options"
      BY <1>10 DEF LastOptionTaken, AtOption, Option
    <3> QED
      BY <1>4, <2>1, <3>1 DEF WordKept
  <2>2. CASE ~Fails /\ ~Crashes
    <3>1. pc' = "arguments" /\ UNCHANGED <<table, history>>
      BY <1>10, <2>2 DEF LastOptionTaken
    <3> QED
      BY <1>2, <2>1, <3>1 DEF table, history
  <2> QED
    BY <1>8, <1>9, <1>10, <2>2 DEF LastOptionTaken, AtOption, Fails
<1>11. CASE Arguments
  <2>1. /\ pc = "arguments" /\ pc' = "execute" /\ ~WrongNumber
        /\ accepted' = accepted /\ meant' = meant /\ config' = config
    BY <1>11 DEF Arguments, history
  <2>2. ASSUME NEW a \in accepted, ~LooksLikeOption(a.word)
        PROVE  WordKept(a)'
    <3>1. /\ input # <<>> /\ input[Len(input)] = a.word /\ cmd.command = CommandOf(meant[1])
          /\ input \in Seq(Word) /\ Len(input) \in Nat /\ ~batch
          /\ cmd.command.argNumber = 1
      BY <1>4, <2>1, <2>2 DEF WordKept, Completed
    <3>2. Len(input) = 1 /\ ~TooFew
      <4>1. ~(Len(input) > 1)
        BY <2>1, <3>1 DEF WrongNumber, TooManyOnLine
      <4>2. Len(input) # 0
        BY <3>1
      <4> QED
        BY <3>1, <4>1, <4>2 DEF TooFew
    <3>3. PICK given \in Seq(Word), answers \in Seq(Word) :
            /\ given = SubSeq(input, 1, 1) /\ Len(answers) = 1 - Len(given)
            /\ cmd' = [name |-> cmd.name, command |-> cmd.command, options |-> cmd.options,
                       args |-> given \o answers, given |-> Len(given)]
      BY <1>11, <3>1, <3>2, ArgumentsTake
    <3>4. SubSeq(input, 1, 1) = input
      BY <3>1, <3>2, SubSeqFull
    <3>5. given \o answers = given
      <4>1. answers = <<>>
        BY <3>2, <3>3, <3>4
      <4> QED
        BY <4>1, ConcatEmptySeq
    <3>6. input = <<a.word>>
      BY <3>1, <3>2
    <3>7. cmd'.args = <<a.word>> /\ cmd'.command = cmd.command
      BY <3>3, <3>4, <3>5, <3>6
    <3> QED
      BY <2>1, <3>1, <3>7 DEF WordKept
  <2> QED
    BY <1>2, <2>1, <2>2
<1>12. ASSUME pc \in {"read", "quit"}, accepted' = accepted
       PROVE  Accepts'
  BY <1>1, <1>12 DEF Accepts
<1>13. ASSUME NEW half \in TypedHalfLines, Complete(half)
       PROVE  Accepts'
  BY <1>3, <1>13 DEF Complete
<1>14. ASSUME NEW text \in HalfCommands, CompleteCommand(text)
       PROVE  Accepts'
  BY <1>3, <1>14 DEF CompleteCommand, history
<1>15. ASSUME NextCommand \/ Leave
       PROVE  Accepts'
  BY <1>1, <1>15 DEF NextCommand, Leave
<1>16. CASE EndOfFile \/ Quit
  BY <1>12, <1>16 DEF EndOfFile, Quit, history
<1>17. ASSUME NEW line \in TypedLines, ReadLine(line)
       PROVE  Accepts'
  BY <1>1, <1>17 DEF ReadLine, GetsLine
<1> QED
  BY <1>5, <1>6, <1>7, <1>8, <1>9, <1>10, <1>11, <1>13, <1>14, <1>15, <1>16, <1>17, CompletedLine
     DEF Next, UserStep, RunStep, LookupInvalid, LookupNull, OptionUnsupported, ArgumentsWrong,
         Execute, Exit, ExecuteNull, ExecuteThrows, Fails

-----------------------------------------------------------------------------
(* The theorems                                                            *)

\* IInv is an invariant.
LEMMA Inductive ==
  ASSUME IInv, [Next]_vars
  PROVE  IInv'
<1>1. CASE Next
  BY <1>1, TypingStep, StepsStep, TableStep, FlowStep, CrashStep, OffersStep, AcceptsStep DEF IInv
<1>2. CASE UNCHANGED vars
  <2>1. Typing' /\ Steps' /\ Table' /\ CrashIsEnd'
    BY <1>2 DEF vars, table, history, IInv, Typing, Steps, Table, CrashIsEnd, batch
  <2>2. Flow'
    BY <1>2 DEF vars, table, history, IInv, Flow, AtCommand, OptionsRead, Separated, Given, batch
  <2>3. Offers'
    BY <1>2 DEF vars, table, history, IInv, Offers, ArgumentOffered
  <2>4. Accepts'
    BY <1>2 DEF vars, table, history, IInv, Accepts, Completed, WordKept, batch
  <2> QED
    BY <2>1, <2>2, <2>3, <2>4 DEF IInv
<1> QED
  BY <1>1, <1>2

\* So it holds always.
THEOREM Invariance == Spec => []IInv
  BY InitInv, Inductive, PTL DEF Spec

\* The type invariant of the shell, for every set of lines, batches and options.
THEOREM ShellTypeOK == Spec => []TypeOK
<1>1. IInv => TypeOK
  <2> SUFFICES ASSUME IInv PROVE TypeOK
    OBVIOUS
  <2>1. \A w \in DOMAIN m_commands : m_commands[w] \in Commands \cup {NoCommand}
    BY CommandOfType DEF IInv, Table
  <2> QED
    BY <2>1 DEF IInv, Typing, Steps, Table, Offers, ArgumentOffered, Accepts, TypeOK
<1> QED
  BY <1>1, Invariance, PTL

\* Shell::run(): a plain command gets its options and arguments, however the words were
\* quoted, and leaves the words of the next one; and a batch has the configuration that
\* the program's own options ask for.
THEOREM ShellGetsItsWords == Spec => []GetsItsWords
<1>1. IInv => GetsItsWords
  BY DEF IInv, Flow, AtCommand, GetsItsWords
<1> QED
  BY <1>1, Invariance, PTL

\* Shell::complete(): the command is executed with the completed word as the argument that
\* it was offered for, and takes it; run() does not refuse a plain line for too many
\* arguments; and what is inserted is common to all that is offered.
THEOREM ShellCompletesItsArgument == Spec => []CompletesItsArgument
<1>1. IInv => CompletesItsArgument
  <2> SUFFICES ASSUME IInv PROVE CompletesItsArgument
    OBVIOUS
  <2>1. ASSUME NEW a \in accepted, ~LooksLikeOption(a.word)
        PROVE  ~batch /\ Completed(a) /\ WordKept(a)
    BY <2>1 DEF IInv, Accepts
  <2>2. ASSUME NEW a \in accepted, ~LooksLikeOption(a.word), pc = "arguments", plain,
               NoneLooksLikeOption(AfterOptions(meant))
        PROVE  ~WrongNumber
    <3>1. input = AfterOptions(meant)
      BY <2>2 DEF IInv, Flow
    <3>2. Len(input) = 1 /\ cmd.command.argNumber = 1 /\ ~batch
      BY <2>1, <2>2, <3>1 DEF Completed, WordKept
    <3> QED
      BY <3>2 DEF WrongNumber, TooManyOnLine
  <2>3. ASSUME NEW a \in accepted, ~LooksLikeOption(a.word), pc = "execute"
        PROVE  cmd.args[a.pos + 1] = a.word /\ (a.word \in Taken(cmd.command) \/ unknown)
    <3>1. a.pos = 0 /\ cmd.args = <<a.word>>
      BY <2>1, <2>3 DEF Completed, WordKept
    <3>2. a.word \in Taken(cmd.command) \/ unknown
      BY <2>1, <2>3 DEF Completed, WordKept
    <3> QED
      BY <3>1, <3>2
  <2> QED
    BY <2>2, <2>3 DEF IInv, Offers, CompletesItsArgument
<1> QED
  BY <1>1, Invariance, PTL

\* The shell crashes only behind a completion of an unknown command, or at options that
\* run() cannot separate.
THEOREM ShellCrashesExplained == Spec => []CrashesExplained
<1>1. IInv => CrashesExplained
  BY DEF IInv, CrashIsEnd, CrashesExplained
<1> QED
  BY <1>1, Invariance, PTL

\* run(m_args): a batch ends before its last word only at an error of its own, or at exit.
THEOREM ShellBatchRunsAll == Spec => BatchRunsAll
<1> DEFINE A == pc = "execute" /\ batch /\ input # <<>> /\ pc' # "lookup"
                  => cmd.command = Exit_ \/ ended' # "no"
<1>1. IInv /\ [Next]_vars => [A]_vars
  <2> SUFFICES ASSUME Next, pc = "execute", batch, input # <<>>, pc' # "lookup"
               PROVE  cmd.command = Exit_ \/ ended' # "no"
    OBVIOUS
  <2> QED
    BY DEF Next, UserStep, RunStep, ReadLine, ReadCompleted, GetsLine,
           EndOfFile, Complete, CompleteCommand, AtPrompt,
           LookupInvalid, LookupNull, Lookup, Found, OptionsEnd, OptionUnsupported, OptionTaken,
           LastOptionTaken, AtOption, ArgumentsWrong, Arguments, Execute, Exit, ExecuteNull,
           ExecuteThrows, Quit, Throws, Crashes, NextCommand
<1> QED
  BY <1>1, Invariance, PTL DEF Spec, BatchRunsAll
=============================================================================
