-------------------------- MODULE HttpParserProofs --------------------------
(***************************************************************************)
(* Proofs about the request and the response parser, for messages of any   *)
(* length.  Folds are recursive functions; induction over them comes from  *)
(* the well-foundedness of < on the naturals, by way of sets.              *)
(***************************************************************************)
EXTENDS HttpResponseParser, SequenceTheorems, WellFoundedInduction, TLAPS

-----------------------------------------------------------------------------
(* Induction and recursion.                                                *)

Below == {pair \in Nat \X Nat : pair[1] < pair[2]}

\* < is well founded on the naturals.
LEMMA BelowWellFounded == IsWellFoundedOn(Below, Nat)
BY NatLessThanWellFounded DEF OpToRel, Below

\* A set of numbers that is not empty has a least element.
LEMMA LeastExists ==
  ASSUME NEW S, S \subseteq Nat, S # {}
  PROVE  \E m \in S : \A n \in S : m <= n
<1>1. PICK m \in S : \A n \in S : ~ (<<n, m>> \in Below)
  BY BelowWellFounded, WFMin
<1>2. ASSUME NEW n \in S PROVE m <= n
  <2>1. m \in Nat /\ n \in Nat /\ <<n, m>> \notin Below
    BY <1>1
  <2>2. ~ (n < m)
    BY <2>1 DEF Below
  <2> QED BY <2>1, <2>2
<1> QED BY <1>2

\* Every set of naturals that is not empty has a least element.
LEMMA MinFacts ==
  ASSUME NEW S, S \subseteq Nat, S # {}
  PROVE  Min(S) \in S /\ \A n \in S : Min(S) <= n
BY LeastExists DEF Min

\* Induction, over a set of numbers instead of a predicate.
LEMMA SetInduction ==
  ASSUME NEW S, 0 \in S, \A n \in Nat : n \in S => n + 1 \in S
  PROVE  Nat \subseteq S
<1> SUFFICES ASSUME Nat \ S # {} PROVE FALSE
  OBVIOUS
<1>1. PICK m \in Nat \ S : \A n \in Nat \ S : m <= n
  BY LeastExists
<1>2. m - 1 \in Nat /\ m - 1 \in S
  BY <1>1
<1> QED BY <1>1, <1>2

\* next is what a fold applies to each element and to its value so far.
Iterates(next, start, w, f) ==
  f = [i \in 0 .. Len(w) |-> IF i = 0 THEN start ELSE next[w[i]][f[i - 1]]]

\* A function applied along a sequence has a result at every place, of the
\* type that the function keeps.
LEMMA IterationExists ==
  ASSUME NEW S, NEW A, NEW next \in [A -> [S -> S]], NEW start \in S, NEW w \in Seq(A)
  PROVE  \E f \in [0 .. Len(w) -> S] : Iterates(next, start, w, f)
<1> DEFINE Upto(n) == \E f \in [0 .. n -> S] :
                        /\ f[0] = start
                        /\ \A i \in 1 .. n : f[i] = next[w[i]][f[i - 1]]
           T == {n \in Nat : n <= Len(w) => Upto(n)}
<1>1. 0 \in T
  <2> DEFINE f == [i \in 0 .. 0 |-> start]
  <2>1. f \in [0 .. 0 -> S] /\ f[0] = start
    OBVIOUS
  <2>2. \A i \in 1 .. 0 : f[i] = next[w[i]][f[i - 1]]
    OBVIOUS
  <2>3. Upto(0)
    BY <2>1, <2>2
  <2> HIDE DEF Upto
  <2> QED BY <2>3
<1>2. ASSUME NEW n \in Nat, n \in T PROVE n + 1 \in T
  <2> SUFFICES ASSUME n + 1 <= Len(w) PROVE Upto(n + 1)
    <3> HIDE DEF Upto
    <3> QED OBVIOUS
  <2>1. PICK f \in [0 .. n -> S] :
          f[0] = start /\ \A i \in 1 .. n : f[i] = next[w[i]][f[i - 1]]
    <3>1. Upto(n)
      <4> HIDE DEF Upto
      <4> QED BY <1>2
    <3> QED BY <3>1
  <2>2. w[n + 1] \in A /\ f[n] \in S
    OBVIOUS
  <2> DEFINE g == [i \in 0 .. n + 1 |-> IF i = n + 1 THEN next[w[n + 1]][f[n]] ELSE f[i]]
  <2>3. g \in [0 .. n + 1 -> S]
    BY <2>2
  <2>4. g[0] = start
    BY <2>1
  <2>5. ASSUME NEW i \in 1 .. n + 1 PROVE g[i] = next[w[i]][g[i - 1]]
    BY <2>1
  <2>6. Upto(n + 1)
    <3> HIDE DEF g
    <3> QED BY <2>3, <2>4, <2>5
  <2> QED BY <2>6
<1>3. Len(w) \in T
  <2> HIDE DEF T
  <2> QED BY <1>1, <1>2, SetInduction
<1>4. PICK f \in [0 .. Len(w) -> S] :
        f[0] = start /\ \A i \in 1 .. Len(w) : f[i] = next[w[i]][f[i - 1]]
  BY <1>3
<1>5. Iterates(next, start, w, f)
  BY <1>4 DEF Iterates
<1> QED BY <1>5

\* What the first value of a fold has, and each step keeps, every value has.
LEMMA IterationTyped ==
  ASSUME NEW S, NEW n \in Nat, NEW f, f[0] \in S,
         \A i \in 1 .. n : f[i - 1] \in S => f[i] \in S
  PROVE  \A i \in 0 .. n : f[i] \in S
<1> DEFINE T == {i \in Nat : i <= n => f[i] \in S}
<1>1. 0 \in T
  OBVIOUS
<1>2. ASSUME NEW i \in Nat, i \in T PROVE i + 1 \in T
  <2> SUFFICES ASSUME i + 1 <= n PROVE f[i + 1] \in S
    OBVIOUS
  <2>1. i + 1 \in 1 .. n /\ (i + 1) - 1 = i /\ f[i] \in S
    BY <1>2
  <2>2. f[(i + 1) - 1] \in S => f[i + 1] \in S
    BY <2>1
  <2> QED BY <2>1, <2>2
<1>3. \A i \in Nat : i \in T
  <2> HIDE DEF T
  <2> QED BY <1>1, <1>2, SetInduction
<1> QED BY <1>3

-----------------------------------------------------------------------------
(* Numbers.                                                                *)

\* A digit has a value.
LEMMA DigitValueTyped ==
  ASSUME NEW A, NEW digits \in Seq(A), NEW c \in Range(digits)
  PROVE  DigitValue(c, digits) \in Nat
<1> DEFINE I == {i \in 1 .. Len(digits) : digits[i] = c}
<1>1. I \subseteq Nat /\ 0 \notin I
  OBVIOUS
<1>2. I # {}
  BY DEF Range
<1>3. DigitValue(c, digits) = Min(I) - 1
  BY <1>2 DEF DigitValue, SelectInSeq
<1>4. Min(I) \in Nat \ {0}
  BY <1>1, <1>2, MinFacts
<1> QED BY <1>3, <1>4

\* A sequence of elements of R is a sequence over R.
LEMMA SeqNarrowed ==
  ASSUME NEW A, NEW R, NEW s \in Seq(A), \A i \in 1 .. Len(s) : s[i] \in R
  PROVE  s \in Seq(R)
<1>1. s = [i \in 1 .. Len(s) |-> s[i]]
  OBVIOUS
<1>2. [i \in 1 .. Len(s) |-> s[i]] \in [1 .. Len(s) -> R]
  OBVIOUS
<1> QED BY <1>1, <1>2, SeqDef

\* Only digits are left: the first other symbol is where LeadingDigits cuts.
LEMMA LeadingDigitsTyped ==
  ASSUME NEW D, NEW digits \in Seq(D), NEW A, NEW s \in Seq(A)
  PROVE  LeadingDigits(s, digits) \in Seq(Range(digits))
<1> DEFINE I == {i \in 1 .. Len(s) : s[i] \notin Range(digits)}
           R == Range(digits)
<1>0. I \subseteq Nat /\ 0 \notin I
  OBVIOUS
<1>1. CASE I = {}
  <2>1. LeadingDigits(s, digits) = s
    BY <1>1 DEF LeadingDigits, SelectInSeq
  <2>2. \A i \in 1 .. Len(s) : s[i] \in R
    BY <1>1
  <2> HIDE DEF R
  <2>3. s \in Seq(R)
    BY <2>2, SeqNarrowed
  <2> QED BY <2>1, <2>3 DEF R
<1>2. CASE I # {}
  <2>1. LeadingDigits(s, digits) = SubSeq(s, 1, Min(I) - 1)
    <3>1. Min(I) # 0
      BY <1>0, <1>2, MinFacts
    <3> QED BY <1>2, <3>1 DEF LeadingDigits, SelectInSeq
  <2>2. Min(I) \in I /\ \A i \in I : Min(I) <= i
    <3> HIDE DEF I
    <3> QED BY <1>0, <1>2, MinFacts
  <2>3. Min(I) \in 1 .. Len(s)
    BY <2>2
  <2>5. ASSUME NEW i \in 1 .. Min(I) - 1 PROVE s[i] \in R
    <3>1. i \in 1 .. Len(s) /\ ~ (Min(I) <= i)
      BY <2>3
    <3>2. i \notin I
      <4> HIDE DEF I
      <4> QED BY <2>2, <3>1
    <3> QED BY <3>1, <3>2
  <2> HIDE DEF R, I
  <2>4. SubSeq(s, 1, Min(I) - 1) \in Seq(R)
    BY <2>3, <2>5, SubSeqProperties
  <2> QED BY <2>1, <2>4 DEF R
<1> QED BY <1>1, <1>2

\* The number that each of the leading digits completes.
NumberSteps(s, digits, f) ==
  LET w == LeadingDigits(s, digits)
  IN  /\ f[0] = 0 /\ f[Len(w)] = NumberOf(s, digits)
      /\ \A i \in 1 .. Len(w) : f[i] = f[i - 1] * Len(digits) + DigitValue(w[i], digits)
      /\ \A i \in 0 .. Len(w) : f[i] \in Nat

\* The number read from a text exists.
LEMMA NumberIs ==
  ASSUME NEW D, NEW digits \in Seq(D), NEW A, NEW s \in Seq(A)
  PROVE  \E f : NumberSteps(s, digits, f)
<1> DEFINE R == Range(digits)
           w == LeadingDigits(s, digits)
           next == [c \in R |-> [n \in Nat |-> n * Len(digits) + DigitValue(c, digits)]]
           Equation(f) ==
             f = [i \in 0 .. Len(w) |->
                    IF i = 0 THEN 0 ELSE f[i - 1] * Len(digits) + DigitValue(w[i], digits)]
<1>1. w \in Seq(R)
  BY LeadingDigitsTyped
<1>2. next \in [R -> [Nat -> Nat]]
  <2>1. ASSUME NEW c \in R, NEW n \in Nat
        PROVE  n * Len(digits) + DigitValue(c, digits) \in Nat
    <3>1. DigitValue(c, digits) \in Nat /\ Len(digits) \in Nat
      BY DigitValueTyped
    <3>2. \A a, b \in Nat : a * b \in Nat
      OBVIOUS
    <3> QED BY <3>1, <3>2
  <2> QED BY <2>1
<1>3. \E f : Equation(f)
  <2>1. PICK f \in [0 .. Len(w) -> Nat] : Iterates(next, 0, w, f)
    <3> HIDE DEF next, w, R
    <3> QED BY <1>1, <1>2, IterationExists
  <2> HIDE DEF next, w, R, Equation
  <2>2. ASSUME NEW i \in 1 .. Len(w)
        PROVE  next[w[i]][f[i - 1]] = f[i - 1] * Len(digits) + DigitValue(w[i], digits)
    <3>1. Len(w) \in Nat
      BY <1>1, LenProperties
    <3>2. w[i] \in R
      BY <1>1, ElementOfSeq
    <3>3. f[i - 1] \in Nat
      BY <2>1, <3>1
    <3> QED BY <3>2, <3>3 DEF next
  <2>3. ASSUME NEW i \in 0 .. Len(w)
        PROVE  (IF i = 0 THEN 0 ELSE next[w[i]][f[i - 1]])
                 = IF i = 0 THEN 0 ELSE f[i - 1] * Len(digits) + DigitValue(w[i], digits)
    <3>1. Len(w) \in Nat
      BY <1>1, LenProperties
    <3>2. CASE i \in 1 .. Len(w)
      BY <2>2, <3>2
    <3> QED BY <3>1, <3>2
  <2>4. Equation(f)
    BY <2>1, <2>3 DEF Iterates, Equation
  <2> QED BY <2>4
<1> DEFINE f == CHOOSE f : Equation(f)
<1>4. Equation(f)
  <2> HIDE DEF Equation
  <2> QED BY <1>3
<1>5. NumberOf(s, digits) = f[Len(w)]
  BY DEF NumberOf, Fold
<1> HIDE DEF f
<1>6. Len(w) \in Nat
  <2> HIDE DEF w, R
  <2> QED BY <1>1, LenProperties
<1>7. ASSUME NEW i \in 1 .. Len(w), f[i - 1] \in Nat PROVE f[i] \in Nat
  <2>1. w[i] \in R
    <3> HIDE DEF w, R
    <3> QED BY <1>1, ElementOfSeq
  <2>2. f[i] = f[i - 1] * Len(digits) + DigitValue(w[i], digits)
    <3> HIDE DEF w, R
    <3> QED BY <1>4, <1>6
  <2>3. DigitValue(w[i], digits) \in Nat /\ Len(digits) \in Nat
    <3> HIDE DEF w
    <3> QED BY <2>1, DigitValueTyped
  <2>4. \A a, b, c \in Nat : a * b + c \in Nat
    OBVIOUS
  <2> HIDE DEF w, R
  <2> QED BY <1>7, <2>2, <2>3, <2>4
<1>8. f[0] = 0
  <2> HIDE DEF w, R
  <2> QED BY <1>4, <1>6
<1>9. \A i \in 0 .. Len(w) : f[i] \in Nat
  <2> HIDE DEF w, R, Equation, next
  <2>1. \A i \in 1 .. Len(w) : f[i - 1] \in Nat => f[i] \in Nat
    BY <1>7
  <2>2. f[0] \in Nat
    BY <1>8
  <2> QED BY <1>6, <2>1, <2>2, IterationTyped
<1>10. \A i \in 1 .. Len(w) : f[i] = f[i - 1] * Len(digits) + DigitValue(w[i], digits)
  <2> HIDE DEF w, R
  <2> QED BY <1>4, <1>6
<1>11. NumberSteps(s, digits, f)
  BY <1>5, <1>8, <1>9, <1>10 DEF NumberSteps
<1> QED BY <1>11

\* Every text reads as a number.
LEMMA NumberTyped ==
  ASSUME NEW D, NEW digits \in Seq(D), NEW A, NEW s \in Seq(A)
  PROVE  NumberOf(s, digits) \in Nat
<1> DEFINE w == LeadingDigits(s, digits)
<1>1. PICK f : NumberSteps(s, digits, f)
  BY NumberIs
<1>2. w \in Seq(Range(digits))
  BY LeadingDigitsTyped
<1> HIDE DEF w
<1>3. Len(w) \in Nat
  BY <1>2, LenProperties
<1> QED BY <1>1, <1>3 DEF NumberSteps, w


\* The digits are sequences.
LEMMA DigitsTyped == \E S : Digits \in Seq(S) /\ HexDigits \in Seq(S)
<1> DEFINE S == {"0", "1", "2", "3", "4", "5", "6", "7", "8", "9", "a", "b", "c", "d", "e", "f"}
<1>1. Digits \in Seq(S)
  BY DEF Digits
<1>2. <<"a", "b", "c", "d", "e", "f">> \in Seq(S)
  OBVIOUS
<1>3. HexDigits \in Seq(S)
  <2> HIDE DEF S
  <2> QED BY <1>1, <1>2, ConcatProperties DEF HexDigits
<1> QED BY <1>1, <1>3

COROLLARY AtoiTyped ==
  ASSUME NEW A, NEW s \in Seq(A)
  PROVE  atoi(s) \in Nat /\ strtol16(s) \in Nat
BY DigitsTyped, NumberTyped DEF atoi, strtol16

-----------------------------------------------------------------------------
(* What the proofs use of the tables.                                      *)

GoodParsers(rows) == {p \in Parsers(rows) : AtHand(p)}

Actions ==
  {"method", "uri", "status", "versionMajor", "versionMinor", "statusCode",
   "skip", "version09", "clearVersion", "fold", "newHeader", "name", "value",
   "bodyHeader", "bodyHeaderOfPost", "endOfHeaders", "body", "chunkDigit", "chunkStart",
   "chunkData", "trailer", "statusCodeEnd", "complete"}

RowOK(r) ==
  /\ r[4] \in Actions
  /\ r[4] \in {"name", "value", "bodyHeader", "bodyHeaderOfPost"} => r[1] \in InHeader
  /\ r[3] \in InHeader => r[1] \in InHeader \/ r[4] \in {"fold", "newHeader"}
  /\ r[1] = "ChunkData" \/ r[3] = "ChunkData" => r[4] \in {"chunkData", "chunkStart"}
  /\ r[4] = "chunkData" => r[1] = "ChunkData" /\ r[3] = "ChunkData"

TableOK(rows) ==
  /\ \A r \in rows : RowOK(r)
  /\ {"ChunkSize", "Post", "ChunkSizeNewLine_2", "ChunkData", "ChunkDataNewLine_1"}
       \subseteq States(rows)

\* The rows of the request line.
LEMMA RequestLineRowsOK == \A r \in RequestLineRows : RowOK(r)
BY DEF RequestLineRows, RowOK, InHeader, Actions, Texts, Numbers

\* The rows of the status line.
LEMMA StatusLineRowsOK == \A r \in StatusLineRows : RowOK(r)
BY DEF StatusLineRows, RowOK, InHeader, Actions, Texts, Numbers

\* The rows of the headers.
LEMMA HeaderRowsOK ==
  \A r \in HeaderRows \cup BodyHeaderRows \cup ResponseBodyHeaderRows : RowOK(r)
BY DEF HeaderRows, BodyHeaderRows, ResponseBodyHeaderRows, RowOK, InHeader, Actions, Texts, Numbers

\* The rows of the body and of the trailers.
LEMMA BodyRowsOK == \A r \in BodyRows \cup TrailerRows : RowOK(r)
BY DEF BodyRows, TrailerRows, RowOK, InHeader, Actions, Texts, Numbers

\* A table of such rows with those of a body is one that keeps its parsers good.
LEMMA TableIsOK ==
  ASSUME NEW rows, \A r \in rows : RowOK(r), BodyRows \cup TrailerRows \subseteq rows
  PROVE  TableOK(rows)
<1>1. {"ChunkSize", "Post"} \subseteq {r[1] : r \in BodyRows}
  BY DEF BodyRows
<1>2. {"ChunkSizeNewLine_2", "ChunkData", "ChunkDataNewLine_1"} \subseteq {r[1] : r \in TrailerRows}
  BY DEF TrailerRows
<1>3. {r[1] : r \in BodyRows} \cup {r[1] : r \in TrailerRows} \subseteq States(rows)
  BY DEF States
<1> QED BY <1>1, <1>2, <1>3 DEF TableOK

\* The request parser's table.
LEMMA RequestTableOK == TableOK(RequestRows)
<1>1. \A r \in RequestRows : RowOK(r)
  BY RequestLineRowsOK, HeaderRowsOK, BodyRowsOK DEF RequestRows
<1> QED BY <1>1, TableIsOK DEF RequestRows

\* The response parser's table.
LEMMA ResponseTableOK == TableOK(ResponseRows)
<1>1. \A r \in ResponseRows : RowOK(r)
  BY StatusLineRowsOK, HeaderRowsOK, BodyRowsOK
     DEF ResponseRows, ResponseHeaderRows, ResponseBodyRows
<1> QED BY <1>1, TableIsOK DEF ResponseRows, ResponseBodyRows

-----------------------------------------------------------------------------
\* headers.back() += c, of a message that has a header.
LEMMA AppendToLastTyped ==
  ASSUME NEW rows, NEW p \in Parsers(rows), p.message.headers # <<>>,
         NEW field \in {"name", "value"}, NEW c \in STRING
  PROVE  /\ AppendToLast(p, field, c) \in Parsers(rows)
         /\ AppendToLast(p, field, c).state = p.state
         /\ AppendToLast(p, field, c).chunkSize = p.chunkSize
         /\ AppendToLast(p, field, c).message.headers # <<>>
<1> DEFINE hs == p.message.headers
           h == [hs[Len(hs)] EXCEPT ![field] = Append(@, c)]
           gs == [hs EXCEPT ![Len(hs)] = h]
           m == [p.message EXCEPT !.headers = gs]
<1>1. hs \in Seq(Headers) /\ Len(hs) \in 1 .. Len(hs) /\ hs[Len(hs)] \in Headers
  <2>1. p.message \in Messages /\ hs # <<>>
    BY DEF Parsers
  <2>2. hs \in Seq(Headers)
    BY <2>1 DEF Messages
  <2> QED BY <2>1, <2>2, EmptySeq, ElementOfSeq
<1>2. h \in Headers
  <2> DEFINE g == hs[Len(hs)]
  <2>1. g \in [name : Seq(STRING), value : Seq(STRING)]
    BY <1>1 DEF Headers
  <2> HIDE DEF g
  <2>2. Append(g[field], c) \in Seq(STRING)
    BY <2>1, AppendProperties
  <2>3. [g EXCEPT ![field] = Append(@, c)] \in Headers
    BY <2>1, <2>2 DEF Headers
  <2> QED BY <2>3 DEF g
<1>3. gs \in Seq(Headers) /\ gs # <<>>
  <2> HIDE DEF h
  <2> QED BY <1>1, <1>2
<1>4. m \in Messages /\ m.headers # <<>>
  <2> HIDE DEF gs
  <2> QED BY <1>3 DEF Parsers, Messages
<1>5. AppendToLast(p, field, c) = [p EXCEPT !.message = m]
  BY <1>1 DEF AppendToLast, Parsers, Messages
<1> HIDE DEF m
<1> QED BY <1>4, <1>5 DEF Parsers

\* After blanks and a sign, a text begins with a number, or with no digits.
LEMMA SignedTyped ==
  ASSUME NEW A, NEW s \in Seq(A)
  PROVE  /\ Signed(s).digits \in Seq(Range(Digits)) /\ Signed(s).negative \in BOOLEAN
         /\ Value(Signed(s)) \in Int
<1> DEFINE I == {j \in 1 .. Len(s) : s[j] # SP}
           i == SelectInSeq(s, LAMBDA c : c # SP)
           u == IF i = 0 THEN <<>> ELSE SubSeq(s, i, Len(s))
           sign == u # <<>> /\ u[1] \in {"-", "+"}
           w == IF sign THEN Tail(u) ELSE u
<1>1. i \in Nat
  <2>1. CASE I = {}
    BY <2>1 DEF SelectInSeq
  <2>2. CASE I # {}
    <3>1. I \subseteq Nat
      OBVIOUS
    <3>2. Min(I) \in I
      <4> HIDE DEF I
      <4> QED BY <2>2, <3>1, MinFacts
    <3> QED BY <2>2, <3>2 DEF SelectInSeq
  <2> QED BY <2>1, <2>2
<1>2. i = 0 \/ i \in 1 .. Len(s)
  <2>1. CASE I = {}
    BY <2>1 DEF SelectInSeq
  <2>2. CASE I # {}
    <3>1. I \subseteq Nat
      OBVIOUS
    <3>2. Min(I) \in I
      <4> HIDE DEF I
      <4> QED BY <2>2, <3>1, MinFacts
    <3> QED BY <2>2, <3>2 DEF SelectInSeq
  <2> QED BY <2>1, <2>2
<1> HIDE DEF i
<1>3. u \in Seq(A)
  BY <1>1, <1>2, SubSeqProperties
<1>4. Signed(s) = [negative |-> sign /\ u[1] = "-", digits |-> LeadingDigits(w, Digits)]
  BY DEF Signed, i
<1> HIDE DEF u
<1>5. w \in Seq(A)
  BY <1>3, HeadTailProperties
<1> HIDE DEF w
<1>6. LeadingDigits(w, Digits) \in Seq(Range(Digits))
  BY <1>5, DigitsTyped, LeadingDigitsTyped
<1>7. Signed(s).digits \in Seq(Range(Digits)) /\ Signed(s).negative \in BOOLEAN
  BY <1>4, <1>6
<1>8. atoi(Signed(s).digits) \in Nat
  BY <1>7, AtoiTyped
<1> QED BY <1>7, <1>8 DEF Value

\* What an int keeps of a number is a number, and the number itself if it fits.
LEMMA TruncatedTyped ==
  ASSUME NEW v \in Int
  PROVE  Truncated(v) \in Int /\ (v \in 0 .. IntMax => Truncated(v) = v)
<1> DEFINE width == 2 * (IntMax + 1)
<1>1. IntMax \in Nat /\ width \in Nat \ {0}
  BY IntMaxOK
<1>2. (v + IntMax + 1) % width \in 0 .. width - 1
  <2> HIDE DEF width
  <2> QED BY <1>1
<1>3. ASSUME v \in 0 .. IntMax PROVE (v + IntMax + 1) % width = v + IntMax + 1
  <2>1. v + IntMax + 1 \in 0 .. width - 1
    BY <1>1, <1>3
  <2> HIDE DEF width
  <2> QED BY <1>1, <2>1
<1>4. Truncated(v) = ((v + IntMax + 1) % width) - (IntMax + 1)
  BY DEF Truncated
<1> HIDE DEF width
<1> QED BY <1>1, <1>2, <1>3, <1>4

\* What a header says of the body goes into the counters only, or is thrown.
LEMMA BodyHeaderTyped ==
  ASSUME NEW rows, NEW p \in Parsers(rows), p.message.headers # <<>>
  PROVE  /\ BodyHeader(p) \in Parsers(rows)
         /\ BodyHeader(p).state = p.state
         /\ BodyHeader(p).chunkSize = p.chunkSize
         /\ BodyHeader(p).message = p.message
         /\ BodyHeader(p).result # "ParsingError" \/ p.result = "ParsingError"
<1> DEFINE h == Last(p.message.headers)
           size == Truncated(Value(Signed(h.value)))
<1>1. h \in Headers
  BY DEF Parsers, Messages, Last
<1>2. size % SizeModulus \in 0 .. SizeModulus - 1
  <2>1. size \in Int
    BY <1>1, SignedTyped, TruncatedTyped DEF Headers
  <2> HIDE DEF size
  <2> QED BY <2>1, SizeModulusOK
<1> HIDE DEF h, size
<1>3. BodyHeader(p) \in {[p EXCEPT !.contentSize = size % SizeModulus],
                         [p EXCEPT !.chunked = TRUE], p, Throws(p)}
  BY DEF BodyHeader, h, size
<1>4. Throws(p) \in Parsers(rows) /\ Throws(p) = [p EXCEPT !.result = "throws"]
  BY DEF Throws, Parsers, Results
<1> QED BY <1>2, <1>3, <1>4 DEF Parsers

\* What the whole of a step relies on, of what is done with the symbol.
Follows(rows, p, q) ==
  /\ q \in Parsers(rows)
  /\ p.message.headers # <<>> => q.message.headers # <<>>
  /\ q.result = "ParsingError" => q.chunkSize = p.chunkSize
  /\ q.result # "ParsingError" => AtHand(q)

\* The parser p has moved to the next state by the row r.
Moved(rows, r, p, n) ==
  /\ TableOK(rows) /\ r \in rows /\ r[1] = p.state
  /\ p \in GoodParsers(rows) /\ p.result # "ParsingError"
  /\ n = [p EXCEPT !.state = r[3]]

\* The parser between the row's change of state and what the row does.
LEMMA MovedTyped ==
  ASSUME NEW rows, NEW r, NEW p, NEW n, Moved(rows, r, p, n)
  PROVE  /\ n \in Parsers(rows) /\ RowOK(r) /\ r[1] = p.state /\ AtHand(p)
         /\ n.state = r[3] /\ n.chunkSize = p.chunkSize /\ n.message = p.message
         /\ n.result = p.result /\ p.result # "ParsingError"
         /\ p.message \in Messages
<1>1. r[3] \in States(rows)
  BY DEF Moved, States
<1> QED BY <1>1 DEF Moved, GoodParsers, Parsers, TableOK

\* Most actions keep the state and chunkSize, and the headers there are.
LEMMA MildAction ==
  ASSUME NEW rows, NEW r, NEW p, NEW n, Moved(rows, r, p, n), NEW q \in Parsers(rows),
         r[4] \notin {"chunkData", "chunkStart"},
         q.state = n.state, q.chunkSize = n.chunkSize,
         n.message.headers # <<>> => q.message.headers # <<>>,
         r[4] \in {"fold", "newHeader"} /\ q.result # "ParsingError"
           => q.message.headers # <<>>
  PROVE  Follows(rows, p, q)
BY MovedTyped DEF RowOK, AtHand, Follows

\* A symbol of the method, the URI or the status.
LEMMA TextAppended ==
  ASSUME NEW m \in Messages, NEW field \in {"method", "uri", "status"}, NEW c \in STRING
  PROVE  /\ [m EXCEPT ![field] = Append(@, c)] \in Messages
         /\ [m EXCEPT ![field] = Append(@, c)].headers = m.headers
<1>1. m[field] \in Seq(STRING)
  BY DEF Messages
<1>2. Append(m[field], c) \in Seq(STRING)
  BY <1>1, AppendProperties
<1> QED BY <1>2 DEF Messages

\* A digit of a version or a status code.
LEMMA NumberChanged ==
  ASSUME NEW m \in Messages, NEW field \in {"versionMajor", "versionMinor", "statusCode"},
         NEW i \in Nat
  PROVE  /\ [m EXCEPT ![field] = @ * 10 + i] \in Messages
         /\ [m EXCEPT ![field] = @ * 10 + i].headers = m.headers
<1>1. m[field] \in Nat
  BY DEF Messages
<1>2. m[field] * 10 + i \in Nat
  BY <1>1
<1> QED BY <1>2 DEF Messages

\* The rows that write into the message keep the parser good.
LEMMA MessageActions ==
  ASSUME NEW rows, NEW r, NEW p, NEW n, Moved(rows, r, p, n), NEW c \in STRING,
         r[4] \in {"method", "uri", "status", "versionMajor", "versionMinor", "statusCode",
                   "version09", "clearVersion"}
  PROVE  Follows(rows, p, Done(r[4], n, c))
<1> DEFINE q == Done(r[4], n, c)
<1>1. n \in Parsers(rows) /\ n.message \in Messages
  BY MovedTyped
<1>2. atoi(<<c>>) \in Nat
  <2>1. <<c>> \in Seq(STRING)
    OBVIOUS
  <2> QED BY <2>1, AtoiTyped
<1>3. \E m \in Messages : /\ m.headers = n.message.headers
                          /\ q \in {[n EXCEPT !.message = m],
                                    [n EXCEPT !.message = m, !.result = "ParsingCompleted"]}
  <2>1. CASE r[4] \in {"method", "uri", "status"}
    <3> DEFINE m == [n.message EXCEPT ![r[4]] = Append(@, c)]
    <3>1. m \in Messages /\ m.headers = n.message.headers
      BY <1>1, <2>1, TextAppended
    <3>2. q = [n EXCEPT !.message = m]
      BY <2>1 DEF Done, Texts, Numbers
    <3> QED BY <3>1, <3>2
  <2>2. CASE r[4] \in {"versionMajor", "versionMinor", "statusCode"}
    <3> DEFINE m == [n.message EXCEPT ![r[4]] = @ * 10 + atoi(<<c>>)]
    <3>1. m \in Messages /\ m.headers = n.message.headers
      BY <1>1, <1>2, <2>2, NumberChanged
    <3>2. q = [n EXCEPT !.message = m]
      BY <2>2 DEF Done, Texts, Numbers
    <3> QED BY <3>1, <3>2
  <2>3. CASE r[4] = "version09"
    <3> DEFINE m == [n.message EXCEPT !.versionMajor = 0, !.versionMinor = 9]
    <3>1. m \in Messages /\ m.headers = n.message.headers
      BY <1>1 DEF Messages
    <3>2. q = [n EXCEPT !.message = m, !.result = "ParsingCompleted"]
      BY <2>3 DEF Done, Texts, Numbers, Completed
    <3> QED BY <3>1, <3>2
  <2>4. CASE r[4] = "clearVersion"
    <3> DEFINE m == [n.message EXCEPT !.versionMajor = 0, !.versionMinor = 0]
    <3>1. m \in Messages /\ m.headers = n.message.headers
      BY <1>1 DEF Messages
    <3>2. q = [n EXCEPT !.message = m]
      BY <2>4 DEF Done, Texts, Numbers
    <3> QED BY <3>1, <3>2
  <2> QED BY <2>1, <2>2, <2>3, <2>4
<1>4. /\ q \in Parsers(rows) /\ q.state = n.state /\ q.chunkSize = n.chunkSize
      /\ q.message.headers = n.message.headers
  <2> HIDE DEF q
  <2> QED BY <1>1, <1>3 DEF Parsers, Results
<1> HIDE DEF q
<1>5. Follows(rows, p, q)
  BY <1>4, MildAction
<1> QED BY <1>5 DEF q

\* The rows of a header keep the parser good, as there is a last header.
LEMMA HeaderActions ==
  ASSUME NEW rows, NEW r, NEW p, NEW n, Moved(rows, r, p, n), NEW c \in STRING,
         r[4] \in {"fold", "newHeader", "name", "value", "bodyHeader", "bodyHeaderOfPost"}
  PROVE  Follows(rows, p, Done(r[4], n, c))
<1> DEFINE q == Done(r[4], n, c)
<1>1. n \in Parsers(rows) /\ n.message \in Messages
  BY MovedTyped
<1>2. CASE r[4] = "fold"
  <2>1. q = IF n.message.headers = <<>> THEN [n EXCEPT !.result = "ParsingError"] ELSE n
    BY <1>2 DEF Done, Texts, Numbers, Error
  <2>2. /\ q \in Parsers(rows) /\ q.state = n.state /\ q.chunkSize = n.chunkSize
        /\ q.message.headers = n.message.headers
        /\ q.result # "ParsingError" => n.message.headers # <<>>
    <3> HIDE DEF q
    <3> QED BY <1>1, <2>1 DEF Parsers, Results
  <2> HIDE DEF q
  <2>3. Follows(rows, p, q)
    BY <1>2, <2>2, MildAction
  <2> QED BY <2>3 DEF q
<1>3. CASE r[4] = "newHeader"
  <2> DEFINE h == [name |-> <<c>>, value |-> <<>>]
             hs == Append(n.message.headers, h)
  <2>1. h \in Headers
    BY DEF Headers
  <2>2. hs \in Seq(Headers) /\ hs # <<>>
    <3>1. n.message.headers \in Seq(Headers)
      BY <1>1 DEF Messages
    <3> HIDE DEF h
    <3> QED BY <2>1, <3>1
  <2>3. q = [n EXCEPT !.message = [n.message EXCEPT !.headers = hs]]
    BY <1>3 DEF Done, Texts, Numbers
  <2>4. /\ q \in Parsers(rows) /\ q.state = n.state /\ q.chunkSize = n.chunkSize
        /\ q.message.headers # <<>>
    <3> HIDE DEF q, hs
    <3> QED BY <1>1, <2>2, <2>3 DEF Parsers, Messages
  <2> HIDE DEF q
  <2>5. Follows(rows, p, q)
    BY <1>3, <2>4, MildAction
  <2> QED BY <2>5 DEF q
<1>4. CASE r[4] \in {"name", "value"}
  <2>1. n.message.headers # <<>>
    BY <1>4, MovedTyped DEF RowOK, AtHand
  <2>2. q = AppendToLast(n, r[4], c)
    BY <1>4 DEF Done, Texts, Numbers
  <2>3. /\ q \in Parsers(rows) /\ q.state = n.state /\ q.chunkSize = n.chunkSize
        /\ q.message.headers # <<>>
    BY <1>1, <1>4, <2>1, <2>2, AppendToLastTyped
  <2> HIDE DEF q
  <2>4. Follows(rows, p, q)
    BY <1>4, <2>3, MildAction
  <2> QED BY <2>4 DEF q
<1>5. CASE r[4] \in {"bodyHeader", "bodyHeaderOfPost"}
  <2>1. n.message.headers # <<>>
    BY <1>5, MovedTyped DEF RowOK, AtHand
  <2>2. q \in {BodyHeader(n), n}
    BY <1>5 DEF Done, Texts, Numbers
  <2>3. /\ q \in Parsers(rows) /\ q.state = n.state /\ q.chunkSize = n.chunkSize
        /\ q.message.headers # <<>>
    BY <1>1, <2>1, <2>2, BodyHeaderTyped
  <2> HIDE DEF q
  <2>4. Follows(rows, p, q)
    BY <1>5, <2>3, MildAction
  <2> QED BY <2>4 DEF q
<1> QED BY <1>2, <1>3, <1>4, <1>5

\* The rows that only move on keep the parser good.
LEMMA PlainActions ==
  ASSUME NEW rows, NEW r, NEW p, NEW n, Moved(rows, r, p, n), NEW c \in STRING,
         r[4] \in {"skip", "chunkDigit", "trailer", "statusCodeEnd", "complete"}
  PROVE  Follows(rows, p, Done(r[4], n, c))
<1> DEFINE q == Done(r[4], n, c)
<1>1. n \in Parsers(rows)
  BY MovedTyped
<1>2. q \in {n, [n EXCEPT !.result = "ParsingError"], [n EXCEPT !.result = "ParsingCompleted"],
             [n EXCEPT !.chunkSizeStr = Append(@, c)]}
  BY DEF Done, Texts, Numbers, Error, Completed
<1>3. Append(n.chunkSizeStr, c) \in Seq(STRING)
  <2>1. n.chunkSizeStr \in Seq(STRING)
    BY <1>1 DEF Parsers
  <2> QED BY <2>1, AppendProperties
<1> HIDE DEF q
<1>4. /\ q \in Parsers(rows) /\ q.state = n.state /\ q.chunkSize = n.chunkSize
      /\ q.message = n.message
  BY <1>1, <1>2, <1>3 DEF Parsers, Results
<1>5. Follows(rows, p, q)
  BY <1>4, MildAction
<1> QED BY <1>5 DEF q

\* A message asks to keep the connection or does not.
LEMMA KeepsAliveTyped == \A m : KeepsAlive(m) \in BOOLEAN
<1> TAKE m
<1> DEFINE i == SelectInSeq(m.headers, LAMBDA h : strcasecmp(h.name, "Connection"))
<1>1. CASE i # 0
  <2>1. KeepsAlive(m) = strcasecmp(m.headers[i].value, "Keep-Alive")
    BY <1>1 DEF KeepsAlive
  <2> QED BY <2>1 DEF strcasecmp
<1>2. CASE i = 0
  <2>1. KeepsAlive(m) = (\/ m.versionMajor > 1
                         \/ m.versionMajor = 1 /\ m.versionMinor = 1
                         \/ m.keepAlive)
    BY <1>2 DEF KeepsAlive
  <2> QED BY <2>1
<1> QED BY <1>1, <1>2

\* The end of the headers completes the message or leads into a body.
LEMMA EndOfHeadersFollows ==
  ASSUME NEW rows, NEW r, NEW p, NEW n, Moved(rows, r, p, n), NEW c \in STRING,
         r[4] = "endOfHeaders"
  PROVE  Follows(rows, p, Done(r[4], n, c))
<1> DEFINE k == KeepsAlive(n.message)
           q == [n EXCEPT !.message.keepAlive = k]
           z == Done(r[4], n, c)
<1>1. n \in Parsers(rows) /\ n.message \in Messages
  BY MovedTyped
<1>2. k \in BOOLEAN
  BY KeepsAliveTyped
<1>3. q \in Parsers(rows) /\ q.message.headers = n.message.headers
      /\ q.state = n.state /\ q.chunkSize = n.chunkSize
  <2>1. q = [n EXCEPT !.message = [n.message EXCEPT !.keepAlive = k]]
    OBVIOUS
  <2> HIDE DEF k, q
  <2> QED BY <1>1, <1>2, <2>1 DEF Parsers, Messages
<1>4. z \in {[q EXCEPT !.state = "ChunkSize"], [q EXCEPT !.state = "Post"],
             [q EXCEPT !.result = "ParsingCompleted"], [q EXCEPT !.result = "ParsingError"]}
  BY DEF Done, Texts, Numbers, EndOfHeaders, Completed, Error
<1> HIDE DEF q, z
<1>5. {"ChunkSize", "Post"} \subseteq States(rows)
  BY DEF Moved, TableOK
<1>6. z \in Parsers(rows) /\ z.message.headers = n.message.headers /\ z.chunkSize = n.chunkSize
      /\ z.state \in {"ChunkSize", "Post", n.state}
  BY <1>3, <1>4, <1>5 DEF Parsers, Results
<1>7. z.state \notin InHeader \/ z.message.headers # <<>>
  BY <1>6, MovedTyped DEF RowOK, AtHand, InHeader
<1>8. z.state # "ChunkData"
  BY <1>6, MovedTyped DEF RowOK
<1>9. Follows(rows, p, z)
  BY <1>6, <1>7, <1>8, MovedTyped DEF Follows, AtHand
<1> QED BY <1>9 DEF z

\* --n of a size_t, which wraps at 0.
LEMMA DecrementedTyped ==
  ASSUME NEW n \in 0 .. SizeModulus - 1
  PROVE  Decremented(n) \in 0 .. SizeModulus - 1
BY SizeModulusOK DEF Decremented

\* A symbol of a body of a given size.
LEMMA BodyFollows ==
  ASSUME NEW rows, NEW r, NEW p, NEW n, Moved(rows, r, p, n), NEW c \in STRING,
         r[4] = "body"
  PROVE  Follows(rows, p, Done(r[4], n, c))
<1> DEFINE d == Decremented(n.contentSize)
           m == [n.message EXCEPT !.content = Append(@, c)]
           q == [n EXCEPT !.contentSize = d, !.message = m]
           z == Done(r[4], n, c)
<1>1. n \in Parsers(rows) /\ n.message \in Messages
  BY MovedTyped
<1>2. d \in 0 .. SizeModulus - 1
  BY <1>1, DecrementedTyped DEF Parsers
<1>3. m \in Messages /\ m.headers = n.message.headers
  <2>1. n.message.content \in Seq(STRING)
    BY <1>1 DEF Messages
  <2>2. Append(n.message.content, c) \in Seq(STRING)
    BY <2>1, AppendProperties
  <2> QED BY <1>1, <2>2 DEF Messages
<1>4. z \in {q, [q EXCEPT !.result = "ParsingCompleted"]}
  BY DEF Done, Texts, Numbers, Body, Completed
<1> HIDE DEF d, m, z
<1>5. /\ z \in Parsers(rows) /\ z.state = n.state /\ z.chunkSize = n.chunkSize
      /\ z.message.headers = n.message.headers
  BY <1>1, <1>2, <1>3, <1>4 DEF Parsers, Results
<1>6. Follows(rows, p, z)
  BY <1>5, MildAction
<1> QED BY <1>6 DEF z

\* The end of a chunk's size: a chunk to fill is not empty.
LEMMA ChunkStartFollows ==
  ASSUME NEW rows, NEW r, NEW p, NEW n, Moved(rows, r, p, n), NEW c \in STRING,
         r[4] = "chunkStart"
  PROVE  Follows(rows, p, Done(r[4], n, c))
<1> DEFINE size == strtol16(n.chunkSizeStr)
           next == IF size = 0 THEN "ChunkSizeNewLine_2" ELSE "ChunkData"
           q == [n EXCEPT !.chunkSize = size, !.chunkSizeStr = <<>>, !.state = next]
<1>1. n \in Parsers(rows)
  BY MovedTyped
<1>2. size \in Nat
  BY <1>1, AtoiTyped DEF Parsers
<1>3. Done(r[4], n, c) = q
  BY DEF Done, Texts, Numbers, ChunkStart
<1>4. next \in States(rows)
  BY DEF Moved, TableOK
<1>5. next = "ChunkData" => size > 0
  BY <1>2
<1>6. next \notin InHeader
  BY DEF InHeader
<1> HIDE DEF size, next
<1>0. <<>> \in Seq(STRING)
  OBVIOUS
<1>7. /\ q \in Parsers(rows) /\ q.message = n.message /\ q.chunkSize = size
      /\ q.state = next /\ q.result = n.result
  BY <1>0, <1>1, <1>2, <1>4 DEF Parsers
<1>8. AtHand(q)
  <2> HIDE DEF q
  <2> QED BY <1>5, <1>6, <1>7 DEF AtHand
<1> HIDE DEF q
<1> QED BY <1>3, <1>7, <1>8, MovedTyped DEF Follows

\* A symbol of a chunk: chunkSize was not 0.
LEMMA ChunkDataFollows ==
  ASSUME NEW rows, NEW r, NEW p, NEW n, Moved(rows, r, p, n), NEW c \in STRING,
         r[4] = "chunkData"
  PROVE  Follows(rows, p, Done(r[4], n, c))
<1> DEFINE m == [n.message EXCEPT !.content = Append(@, c)]
           next == IF n.chunkSize = 1 THEN "ChunkDataNewLine_1" ELSE n.state
           q == [n EXCEPT !.message = m, !.chunkSize = @ - 1, !.state = next]
<1>1. n \in Parsers(rows) /\ n.message \in Messages
  BY MovedTyped
<1>2. n.state = "ChunkData" /\ n.chunkSize \in Nat \ {0}
  BY <1>1, MovedTyped DEF RowOK, AtHand, Parsers
<1>3. m \in Messages /\ m.headers = n.message.headers
  <2>1. n.message.content \in Seq(STRING)
    BY <1>1 DEF Messages
  <2>2. Append(n.message.content, c) \in Seq(STRING)
    BY <2>1, AppendProperties
  <2> QED BY <1>1, <2>2 DEF Messages
<1>4. Done(r[4], n, c) = q
  BY DEF Done, Texts, Numbers, ChunkData
<1>5. next \in States(rows)
  BY <1>2 DEF Moved, TableOK
<1>6. n.chunkSize - 1 \in Nat /\ (next = "ChunkData" => n.chunkSize - 1 > 0)
  BY <1>2
<1>7. next \notin InHeader
  BY <1>2 DEF InHeader
<1> HIDE DEF m, next
<1>8. /\ q \in Parsers(rows) /\ q.message = m /\ q.chunkSize = n.chunkSize - 1
      /\ q.state = next /\ q.result = n.result
  BY <1>1, <1>3, <1>5, <1>6 DEF Parsers
<1>9. AtHand(q)
  <2> HIDE DEF q
  <2> QED BY <1>6, <1>7, <1>8 DEF AtHand
<1> HIDE DEF q
<1> QED BY <1>3, <1>4, <1>8, <1>9, MovedTyped DEF Follows

\* One turn of the loop: headers.back() and --chunkSize stay defined.
LEMMA StepTyped ==
  ASSUME NEW rows, TableOK(rows), NEW p \in GoodParsers(rows), NEW c \in STRING,
         p.result = "ParsingIncompleted"
  PROVE  Step(rows, p, c) \in GoodParsers(rows)
<1> DEFINE row == {r \in rows : r[1] = p.state /\ Accepts(r[2], c)}
<1>1. CASE row = {}
  <2>1. Step(rows, p, c) = [p EXCEPT !.result = "ParsingError"]
    BY <1>1 DEF Step, Error
  <2> QED BY <2>1 DEF GoodParsers, Parsers, Results, AtHand
<1>2. CASE row # {}
  <2> DEFINE r == CHOOSE r \in row : TRUE
             n == [p EXCEPT !.state = r[3]]
             q == Done(r[4], n, c)
  <2>1. r \in row
    BY <1>2
  <2>2. Step(rows, p, c) = IF q.result = "ParsingError" THEN [q EXCEPT !.state = p.state] ELSE q
    BY <1>2 DEF Step
  <2>3. Moved(rows, r, p, n) /\ r[4] \in Actions
    BY <2>1 DEF Results, Moved, TableOK, RowOK
  <2> HIDE DEF r, n
  <2>4. Follows(rows, p, q)
    BY <2>3, MessageActions, HeaderActions, PlainActions, EndOfHeadersFollows, BodyFollows,
       ChunkStartFollows, ChunkDataFollows DEF Actions
  <2> HIDE DEF q
  <2>5. CASE q.result = "ParsingError"
    BY <2>2, <2>4, <2>5 DEF Follows, GoodParsers, Parsers, AtHand
  <2>6. CASE q.result # "ParsingError"
    BY <2>2, <2>4, <2>6 DEF Follows, GoodParsers
  <2> QED BY <2>5, <2>6
<1> QED BY <1>1, <1>2

-----------------------------------------------------------------------------
(* Parsing a text, and the pieces of a text.                               *)

Started(p) == [p EXCEPT !.result = "ParsingIncompleted"]

\* after[i] is the parser after the first i symbols.
Parsing(rows, p, symbols, after) ==
  after = [i \in 0 .. Len(symbols) |->
            IF i = 0 THEN Started(p) ELSE Consume(rows, after[i - 1], symbols[i])]

\* parse() clears a result other than that of an incomplete message.
LEMMA StartedTyped ==
  ASSUME NEW rows, NEW p \in GoodParsers(rows)
  PROVE  /\ Started(p) \in GoodParsers(rows)
         /\ p.result = "ParsingIncompleted" => Started(p) = p
BY DEF Started, GoodParsers, Parsers, Results, AtHand

\* Any symbol leaves a good parser good.
LEMMA ConsumeTyped ==
  ASSUME NEW rows, TableOK(rows), NEW p \in GoodParsers(rows), NEW c \in STRING
  PROVE  Consume(rows, p, c) \in GoodParsers(rows)
BY StepTyped DEF Consume

\* So does any text.
LEMMA ParsingTyped ==
  ASSUME NEW rows, TableOK(rows), NEW p \in GoodParsers(rows), NEW s \in Seq(STRING),
         NEW after, Parsing(rows, p, s, after)
  PROVE  /\ Len(s) \in Nat
         /\ after[0] = Started(p)
         /\ \A i \in 1 .. Len(s) : after[i] = Consume(rows, after[i - 1], s[i])
         /\ \A i \in 0 .. Len(s) : after[i] \in GoodParsers(rows)
<1>1. Len(s) \in Nat
  OBVIOUS
<1>2. after[0] = Started(p) /\ \A i \in 1 .. Len(s) : after[i] = Consume(rows, after[i - 1], s[i])
  BY <1>1 DEF Parsing
<1>3. ASSUME NEW i \in 1 .. Len(s), after[i - 1] \in GoodParsers(rows)
      PROVE  after[i] \in GoodParsers(rows)
  <2>1. s[i] \in STRING
    BY ElementOfSeq
  <2> QED BY <1>2, <1>3, <2>1, ConsumeTyped
<1>4. \A i \in 0 .. Len(s) : after[i] \in GoodParsers(rows)
  <2>1. after[0] \in GoodParsers(rows)
    BY <1>2, StartedTyped
  <2>2. \A i \in 1 .. Len(s) : after[i - 1] \in GoodParsers(rows) => after[i] \in GoodParsers(rows)
    BY <1>3
  <2> QED BY <1>1, <2>1, <2>2, IterationTyped
<1> QED BY <1>1, <1>2, <1>4

\* Any text can be parsed.
LEMMA ParsingExists ==
  ASSUME NEW rows, TableOK(rows), NEW p \in GoodParsers(rows), NEW s \in Seq(STRING)
  PROVE  \E after : Parsing(rows, p, s, after)
<1> DEFINE G == GoodParsers(rows)
           next == [c \in STRING |-> [q \in G |-> Consume(rows, q, c)]]
<1>1. next \in [STRING -> [G -> G]]
  BY ConsumeTyped
<1>2. Started(p) \in G
  BY StartedTyped
<1> HIDE DEF next, G
<1>3. PICK f \in [0 .. Len(s) -> G] : Iterates(next, Started(p), s, f)
  BY <1>1, <1>2, IterationExists
<1>4. ASSUME NEW i \in 0 .. Len(s)
      PROVE  (IF i = 0 THEN Started(p) ELSE next[s[i]][f[i - 1]])
               = IF i = 0 THEN Started(p) ELSE Consume(rows, f[i - 1], s[i])
  <2>1. Len(s) \in Nat
    OBVIOUS
  <2>2. CASE i \in 1 .. Len(s)
    <3>1. s[i] \in STRING
      BY <2>2, ElementOfSeq
    <3>2. f[i - 1] \in G
      BY <2>1, <2>2, <1>3
    <3> QED BY <3>1, <3>2 DEF next
  <2> QED BY <2>1, <2>2
<1>5. Parsing(rows, p, s, f)
  BY <1>3, <1>4 DEF Iterates, Parsing
<1> QED BY <1>5

\* The fold of Parse is that parsing.
LEMMA ParseIs ==
  ASSUME NEW rows, TableOK(rows), NEW p \in GoodParsers(rows), NEW s \in Seq(STRING)
  PROVE  \E after : Parsing(rows, p, s, after) /\ Parse(rows, p, s) = after[Len(s)]
<1> DEFINE f == CHOOSE f : Parsing(rows, p, s, f)
<1>1. Parsing(rows, p, s, f)
  BY ParsingExists
<1>2. Parse(rows, p, s) = f[Len(s)]
  BY DEF Parse, Fold, Parsing, Started
<1> QED BY <1>1, <1>2

\* However long the text and wherever the parser stands in a message: it stays
\* a parser, and uses headers.back() and --chunkSize only where they are defined.
THEOREM ParseTyped ==
  ASSUME NEW rows, TableOK(rows), NEW p \in GoodParsers(rows), NEW s \in Seq(STRING)
  PROVE  Parse(rows, p, s) \in GoodParsers(rows)
<1>1. PICK f : Parsing(rows, p, s, f) /\ Parse(rows, p, s) = f[Len(s)]
  BY ParseIs
<1> QED BY <1>1, ParsingTyped

\* There is only one.
LEMMA ParsingUnique ==
  ASSUME NEW rows, TableOK(rows), NEW p \in GoodParsers(rows), NEW s \in Seq(STRING),
         NEW n \in 0 .. Len(s), NEW f, NEW g,
         f[0] = g[0],
         \A i \in 1 .. n : f[i] = Consume(rows, f[i - 1], s[i]),
         \A i \in 1 .. n : g[i] = Consume(rows, g[i - 1], s[i])
  PROVE  f[n] = g[n]
<1> DEFINE T == {i \in Nat : i <= n => f[i] = g[i]}
<1>1. 0 \in T
  OBVIOUS
<1>2. ASSUME NEW i \in Nat, i \in T PROVE i + 1 \in T
  <2> SUFFICES ASSUME i + 1 <= n PROVE f[i + 1] = g[i + 1]
    OBVIOUS
  <2>1. i + 1 \in 1 .. n /\ (i + 1) - 1 = i /\ f[i] = g[i]
    BY <1>2
  <2>2. f[i + 1] = Consume(rows, f[i], s[i + 1]) /\ g[i + 1] = Consume(rows, g[i], s[i + 1])
    BY <2>1
  <2> QED BY <2>1, <2>2
<1>3. n \in T
  <2> HIDE DEF T
  <2>1. n \in Nat
    BY LenProperties
  <2> QED BY <1>1, <1>2, <2>1, SetInduction
<1> QED BY <1>3, LenProperties

\* A text cut in two is parsed as one, and what follows the end of a message is
\* left unread.
THEOREM ParseInPieces ==
  ASSUME NEW rows, TableOK(rows), NEW p \in GoodParsers(rows),
         NEW s \in Seq(STRING), NEW t \in Seq(STRING)
  PROVE  LET q == Parse(rows, p, s)
         IN  Parse(rows, p, s \o t) =
               IF q.result = "ParsingIncompleted" THEN Parse(rows, q, t) ELSE q
<1> DEFINE q == Parse(rows, p, s)
<1>1. /\ Len(s) \in Nat /\ Len(t) \in Nat
      /\ s \o t \in Seq(STRING) /\ Len(s \o t) = Len(s) + Len(t)
      /\ \A i \in 1 .. Len(s) : (s \o t)[i] = s[i]
      /\ \A j \in 1 .. Len(t) : (s \o t)[Len(s) + j] = t[j]
  BY LenProperties, ConcatProperties
<1>2. PICK f : Parsing(rows, p, s, f) /\ q = f[Len(s)]
  BY ParseIs
<1>3. PICK h : Parsing(rows, p, s \o t, h) /\ Parse(rows, p, s \o t) = h[Len(s) + Len(t)]
  BY <1>1, ParseIs
<1> HIDE DEF q
<1>4. q \in GoodParsers(rows)
  BY ParseTyped DEF q
<1>5. /\ h[0] = Started(p)
      /\ \A i \in 1 .. Len(s) + Len(t) : h[i] = Consume(rows, h[i - 1], (s \o t)[i])
  <2>1. s \o t \in Seq(STRING)
    BY <1>1
  <2>2. /\ h[0] = Started(p)
        /\ \A i \in 1 .. Len(s \o t) : h[i] = Consume(rows, h[i - 1], (s \o t)[i])
    <3> DEFINE u == s \o t
    <3>1. u \in Seq(STRING) /\ Parsing(rows, p, u, h)
      BY <1>3, <2>1
    <3>2. /\ h[0] = Started(p)
          /\ \A i \in 1 .. Len(u) : h[i] = Consume(rows, h[i - 1], u[i])
      <4> HIDE DEF u
      <4> QED BY <3>1, ParsingTyped
    <3> QED BY <3>2
  <2> QED BY <1>1, <2>2
<1>6. h[Len(s)] = q
  <2>1. f[0] = Started(p) /\ \A i \in 1 .. Len(s) : f[i] = Consume(rows, f[i - 1], s[i])
    BY <1>2, ParsingTyped
  <2>2. \A i \in 1 .. Len(s) : h[i] = Consume(rows, h[i - 1], s[i])
    BY <1>1, <1>5
  <2>3. Len(s) \in 0 .. Len(s)
    BY <1>1
  <2>4. f[Len(s)] = h[Len(s)]
    BY <1>5, <2>1, <2>2, <2>3, ParsingUnique
  <2> QED BY <1>2, <2>4
<1> DEFINE rest == [j \in 0 .. Len(t) |-> h[Len(s) + j]]
<1>7. rest[0] = q /\ rest[Len(t)] = h[Len(s) + Len(t)]
  BY <1>1, <1>6
<1>8. ASSUME NEW j \in 1 .. Len(t)
      PROVE  rest[j] = Consume(rows, rest[j - 1], t[j])
  <2>1. Len(s) + j \in 1 .. Len(s) + Len(t) /\ (Len(s) + j) - 1 = Len(s) + (j - 1)
    BY <1>1
  <2>2. h[Len(s) + j] = Consume(rows, h[Len(s) + (j - 1)], t[j])
    BY <1>1, <1>5, <2>1
  <2>3. j \in 0 .. Len(t) /\ j - 1 \in 0 .. Len(t)
    BY <1>1
  <2> QED BY <2>2, <2>3
<1> HIDE DEF rest
<1>9. CASE q.result = "ParsingIncompleted"
  <2>1. PICK g : Parsing(rows, q, t, g) /\ Parse(rows, q, t) = g[Len(t)]
    BY <1>4, ParseIs
  <2>2. g[0] = q /\ \A j \in 1 .. Len(t) : g[j] = Consume(rows, g[j - 1], t[j])
    BY <1>4, <1>9, <2>1, ParsingTyped, StartedTyped
  <2>3. Len(t) \in 0 .. Len(t)
    BY <1>1
  <2>4. g[Len(t)] = rest[Len(t)]
    <3>1. g[0] = rest[0]
      BY <1>7, <2>2
    <3>2. \A j \in 1 .. Len(t) : rest[j] = Consume(rows, rest[j - 1], t[j])
      BY <1>8
    <3>3. \A j \in 1 .. Len(t) : g[j] = Consume(rows, g[j - 1], t[j])
      BY <2>2
    <3> HIDE <1>7, <1>8, <2>2
    <3> QED BY <1>4, <2>3, <3>1, <3>2, <3>3, ParsingUnique
  <2> QED BY <1>3, <1>7, <1>9, <2>1, <2>4 DEF q
<1>10. CASE q.result # "ParsingIncompleted"
  <2>1. ASSUME NEW j \in 1 .. Len(t), rest[j - 1] \in {q} PROVE rest[j] \in {q}
    <3>1. Consume(rows, q, t[j]) = q
      BY <1>10 DEF Consume
    <3> QED BY <1>8, <2>1, <3>1
  <2>2. rest[0] \in {q}
    BY <1>7
  <2>3. \A j \in 0 .. Len(t) : rest[j] \in {q}
    <3> DEFINE S == {q}
    <3>1. Len(t) \in Nat /\ rest[0] \in S
      BY <1>1, <2>2
    <3>2. \A j \in 1 .. Len(t) : rest[j - 1] \in S => rest[j] \in S
      BY <2>1
    <3>3. \A j \in 0 .. Len(t) : rest[j] \in S
      <4> HIDE DEF S
      <4> QED BY <3>1, <3>2, IterationTyped
    <3> QED BY <3>3
  <2>4. rest[Len(t)] = q
    BY <1>1, <2>3
  <2> QED BY <1>3, <1>7, <1>10, <2>4 DEF q
<1> QED BY <1>9, <1>10
=============================================================================
