------------------------- MODULE HttpMessagesProofs -------------------------
(***************************************************************************)
(* The parsers read every message and every URL that is written as HTTP    *)
(* allows as what was written, however long it is and wherever the network *)
(* cuts it.                                                                *)
(*                                                                         *)
(* Reads(rows, p, w, q), a run of the table that takes the parser p to q   *)
(* over the text w, composes (ReadsBoth, ReadsParts), so that a lemma for  *)
(* each part of a message is enough, from a symbol up to MessageReads and  *)
(* UrlIsRead.  The invariant is that what is still to come leads the       *)
(* parser to the end (DocumentInv), and a piece of it leaves the rest      *)
(* (PieceReads).                                                           *)
(***************************************************************************)
EXTENDS HttpMessages, HttpParserProofs

-----------------------------------------------------------------------------
(* Texts.                                                                  *)

\* The symbols.  The provers do not know that a literal is a string.
Alphabet ==
  STRING \cup isControl \cup isSpecial \cup isalnum
    \cup {".", "GET", "chunked", "Content-Length", "transfer-encoding"}
AText == Seq(Alphabet)

\* The symbols written as two characters are none of the others.
LEMMA SpecialSymbols ==
  /\ SP \notin {"\r", "\n", ":", "=", "/", ".", "0", "1", "2", "3", "4", "5", "6", "7", "8", "9",
                "a", "b", "c", "d", "e", "f", "H", "T", "P", "word", "https"}
  /\ Semicolon \notin {"\r", "\n", ":", "=", "/", ".", "0", "1", "2", "3", "4", "5", "6", "7",
                       "8", "9", "a", "b", "c", "d", "e", "f", "H", "T", "P", "word", "https"}
  /\ Tab \notin {"\r", "\n", ":", "=", "/", ".", "0", "1", "2", "3", "4", "5", "6", "7", "8", "9",
                 "a", "b", "c", "d", "e", "f", "H", "T", "P", "word", "https"}
  /\ SP # Semicolon /\ SP # Tab /\ SP # "control" /\ Tab # Semicolon
BY Zenon DEF SP, Semicolon, Tab

\* The decimal digits.
LEMMA DigitsAre == Range(Digits) = {"0", "1", "2", "3", "4", "5", "6", "7", "8", "9"}
BY DEF Digits, Range

\* The hexadecimal digits.
LEMMA HexDigitsAre ==
  Range(HexDigits) = {"0", "1", "2", "3", "4", "5", "6", "7", "8", "9", "a", "b", "c", "d", "e", "f"}
<1> DEFINE t == <<"a", "b", "c", "d", "e", "f">>
           S == {"0", "1", "2", "3", "4", "5", "6", "7", "8", "9", "a", "b", "c", "d", "e", "f"}
<1>1. Digits \in Seq(S) /\ t \in Seq(S) /\ Len(Digits) = 10 /\ Len(t) = 6
  BY DEF Digits
<1>2. HexDigits = Digits \o t
  BY DEF HexDigits
<1>3. Len(HexDigits) = 16 /\ \A i \in 1 .. 16 : HexDigits[i] = IF i <= 10 THEN Digits[i] ELSE t[i - 10]
  <2> HIDE DEF t, S
  <2>1. /\ Digits \o t \in Seq(S) /\ Len(Digits \o t) = Len(Digits) + Len(t)
        /\ \A i \in 1 .. Len(Digits) + Len(t) :
             (Digits \o t)[i] = IF i <= Len(Digits) THEN Digits[i] ELSE t[i - Len(Digits)]
    BY <1>1, ConcatProperties
  <2>2. Len(Digits) + Len(t) = 16
    BY <1>1
  <2>3. Len(Digits \o t) = 16
    BY <2>1, <2>2
  <2>4. \A i \in 1 .. 16 : (Digits \o t)[i] = IF i <= 10 THEN Digits[i] ELSE t[i - 10]
    BY <1>1, <2>1, <2>2
  <2> QED BY <1>2, <2>3, <2>4
<1>4. DOMAIN HexDigits = 1 .. 16
  <2> HIDE DEF t, S
  <2> QED BY <1>1, <1>2, <1>3, ConcatProperties, LenProperties
<1>5. \A i \in 1 .. 16 : HexDigits[i] \in S
  BY <1>3 DEF Digits
<1>6. /\ HexDigits[1] = "0" /\ HexDigits[2] = "1" /\ HexDigits[3] = "2" /\ HexDigits[4] = "3"
      /\ HexDigits[5] = "4" /\ HexDigits[6] = "5" /\ HexDigits[7] = "6" /\ HexDigits[8] = "7"
      /\ HexDigits[9] = "8" /\ HexDigits[10] = "9"
  BY <1>3 DEF Digits
<1>7. /\ HexDigits[11] = "a" /\ HexDigits[12] = "b" /\ HexDigits[13] = "c" /\ HexDigits[14] = "d"
      /\ HexDigits[15] = "e" /\ HexDigits[16] = "f"
  BY <1>3
<1>8. S \subseteq {HexDigits[i] : i \in 1 .. 16}
  BY <1>6, <1>7
<1> QED BY <1>4, <1>5, <1>8 DEF Range

\* A text over a set is a text over a larger one.
LEMMA SeqWidened ==
  ASSUME NEW A, NEW B, A \subseteq B, NEW s \in Seq(A)
  PROVE  s \in Seq(B)
<1>1. \A i \in 1 .. Len(s) : s[i] \in B
  BY ElementOfSeq
<1> QED BY <1>1, SeqNarrowed

\* A text grows from nothing to the whole, a symbol at a time.
LEMMA PrefixFacts ==
  ASSUME NEW A, NEW w \in Seq(A)
  PROVE  /\ Len(w) \in Nat
         /\ SubSeq(w, 1, 0) = <<>> /\ SubSeq(w, 1, Len(w)) = w
         /\ \A i \in 1 .. Len(w) : /\ SubSeq(w, 1, i) = Append(SubSeq(w, 1, i - 1), w[i])
                                   /\ w[i] \in A
         /\ \A i \in 0 .. Len(w) : SubSeq(w, 1, i) \in Seq(A) /\ Len(SubSeq(w, 1, i)) = i
OBVIOUS

\* So does a text that follows another.
LEMMA Appended ==
  ASSUME NEW A, NEW s \in Seq(A), NEW w \in Seq(A), NEW i \in 1 .. Len(w)
  PROVE  s \o SubSeq(w, 1, i) = Append(s \o SubSeq(w, 1, i - 1), w[i])
OBVIOUS

Agree(f, g, i) == f[i] = g[i]

\* Two sequences of values that begin alike and go on alike are alike.
LEMMA SameIteration ==
  ASSUME NEW n \in Nat, NEW f, NEW g, Agree(f, g, 0),
         \A i \in 1 .. n : Agree(f, g, i - 1) => Agree(f, g, i)
  PROVE  \A i \in 0 .. n : Agree(f, g, i)
<1> DEFINE T == {i \in Nat : i <= n => Agree(f, g, i)}
<1>1. 0 \in T
  OBVIOUS
<1>2. ASSUME NEW i \in Nat, i \in T PROVE i + 1 \in T
  <2> SUFFICES ASSUME i + 1 <= n PROVE Agree(f, g, i + 1)
    OBVIOUS
  <2>1. i + 1 \in 1 .. n /\ (i + 1) - 1 = i /\ Agree(f, g, i)
    BY <1>2
  <2> QED BY <2>1
<1>3. Nat \subseteq T
  <2> HIDE DEF T
  <2> QED BY <1>1, <1>2, SetInduction
<1> QED BY <1>3

\* The text up to each of the parts that Concat puts together.
ConcatSteps(ss, f) ==
  /\ f[0] = <<>> /\ Concat(ss) = f[Len(ss)]
  /\ \A i \in 1 .. Len(ss) : f[i] = f[i - 1] \o ss[i]

\* The fold behind Concat has values, each one text longer.
LEMMA ConcatIs ==
  ASSUME NEW A, NEW ss \in Seq(Seq(A))
  PROVE  \E f \in [0 .. Len(ss) -> Seq(A)] : ConcatSteps(ss, f)
<1> DEFINE S == Seq(A)
           Joined(s, t) == s \o t
           next == [t \in S |-> [s \in S |-> Joined(s, t)]]
           n == Len(ss)
           Equation(f) == f = [i \in 0 .. n |-> IF i = 0 THEN <<>> ELSE Joined(f[i - 1], ss[i])]
<1>1. n \in Nat /\ ss \in Seq(S) /\ \A i \in 1 .. n : ss[i] \in S
  BY ElementOfSeq, LenProperties
<1>2. <<>> \in S /\ \A s, t \in S : Joined(s, t) \in S
  OBVIOUS
<1>3. Concat(ss) = (CHOOSE f : Equation(f))[n]
  BY DEF Concat, Fold
<1>4. \A f : ConcatSteps(ss, f) <=> /\ f[0] = <<>> /\ Concat(ss) = f[n]
                                   /\ \A i \in 1 .. n : f[i] = Joined(f[i - 1], ss[i])
  BY DEF ConcatSteps
<1> HIDE DEF S, Joined
<1>5. next \in [S -> [S -> S]] /\ \A s, t \in S : next[t][s] = Joined(s, t)
  BY <1>2
<1> HIDE DEF next
<1>6. PICK g \in [0 .. n -> S] : Iterates(next, <<>>, ss, g)
  BY <1>1, <1>2, <1>5, IterationExists
<1> HIDE DEF n
<1>7. \A i \in 1 .. n : i - 1 \in 0 .. n /\ i \in 0 .. n /\ i # 0
  BY <1>1
<1>8. \A i \in 1 .. n : next[ss[i]][g[i - 1]] = Joined(g[i - 1], ss[i])
  BY <1>1, <1>5, <1>6, <1>7
<1>9. g = [i \in 0 .. n |-> IF i = 0 THEN <<>> ELSE next[ss[i]][g[i - 1]]]
  BY <1>6 DEF Iterates, n
<1>10. \A i \in 0 .. n : i = 0 \/ i \in 1 .. n
  BY <1>1
<1>11. Equation(g)
  BY <1>8, <1>9, <1>10
<1> DEFINE f == CHOOSE f : Equation(f)
<1>12. Equation(f) /\ Concat(ss) = f[n]
  <2> HIDE DEF Equation
  <2> QED BY <1>3, <1>11
<1> HIDE DEF f
<1>13. f[0] = <<>> /\ \A i \in 1 .. n : f[i] = Joined(f[i - 1], ss[i])
  BY <1>1, <1>7, <1>12
<1>14. g[0] = <<>> /\ \A i \in 1 .. n : g[i] = Joined(g[i - 1], ss[i])
  BY <1>1, <1>7, <1>11
<1> HIDE DEF Equation
<1>15. \A i \in 0 .. n : f[i] = g[i]
  <2>1. \A i \in 1 .. n : Agree(f, g, i - 1) => Agree(f, g, i)
    BY <1>13, <1>14 DEF Agree
  <2>2. Agree(f, g, 0)
    BY <1>13, <1>14 DEF Agree
  <2>3. \A i \in 0 .. n : Agree(f, g, i)
    BY <1>1, <2>1, <2>2, SameIteration
  <2> QED BY <2>3 DEF Agree
<1>16. ConcatSteps(ss, g)
  BY <1>1, <1>4, <1>12, <1>14, <1>15
<1> QED BY <1>6, <1>16 DEF S, n

-----------------------------------------------------------------------------
(* A text that leads one parser to another, each of its symbols read.      *)

Ready(p) == p.result = "ParsingIncompleted" /\ Started(p) = p

ReadBy(rows, w, f) ==
  \A i \in 1 .. Len(w) : Ready(f[i - 1]) /\ f[i] = Step(rows, f[i - 1], w[i])

Reads(rows, p, w, q) ==
  /\ w \in AText
  /\ \E f : f[0] = p /\ f[Len(w)] = q /\ ReadBy(rows, w, f)

\* The empty text leads from a parser to itself.
LEMMA ReadsNothing == \A rows, p : Reads(rows, p, <<>>, p)
<1> TAKE rows, p
<1> DEFINE f == [i \in 0 .. 0 |-> p]
<1>1. f[0] = p /\ Len(<<>>) = 0 /\ \A i \in 1 .. 0 : FALSE
  OBVIOUS
<1>2. <<>> \in AText
  BY DEF AText
<1> HIDE DEF f
<1> QED BY <1>1, <1>2 DEF Reads, ReadBy

\* One symbol leads a parser that is ready to its next step.
LEMMA ReadsOne ==
  ASSUME NEW rows, NEW p, NEW c \in Alphabet, Ready(p)
  PROVE  Reads(rows, p, <<c>>, Step(rows, p, c))
<1> DEFINE q == Step(rows, p, c)
           f == [i \in 0 .. 1 |-> IF i = 0 THEN p ELSE q]
<1>1. f[0] = p /\ f[1] = q /\ Len(<<c>>) = 1 /\ <<c>>[1] = c
  OBVIOUS
<1> HIDE DEF f
<1>2. \A i \in 1 .. 1 : Ready(f[i - 1]) /\ f[i] = Step(rows, f[i - 1], <<c>>[i])
  BY <1>1
<1>3. <<c>> \in AText
  BY DEF AText
<1> QED BY <1>1, <1>2, <1>3 DEF Reads, ReadBy

\* Two ways, one after the other.
Glues(h, f, m, g, n) ==
  /\ h[0] = f[0] /\ h[m + n] = g[n]
  /\ \A i \in 1 .. m : h[i - 1] = f[i - 1] /\ h[i] = f[i]
  /\ \A i \in 1 .. n : h[(m + i) - 1] = g[i - 1] /\ h[m + i] = g[i]

\* Two runs, the second from where the first ends, are one run.
LEMMA Glued ==
  ASSUME NEW f, NEW g, NEW m \in Nat, NEW n \in Nat, f[m] = g[0]
  PROVE  \E h : Glues(h, f, m, g, n)
<1> DEFINE h == [i \in 0 .. m + n |-> IF i <= m THEN f[i] ELSE g[i - m]]
<1>1. \A i \in 0 .. m : h[i] = f[i]
  OBVIOUS
<1>2. \A i \in 0 .. n : h[m + i] = g[i]
  <2>1. \A i \in 1 .. n : h[m + i] = g[i]
    OBVIOUS
  <2> HIDE DEF h
  <2>2. h[m + 0] = g[0]
    BY <1>1
  <2>3. \A i \in 0 .. n : i = 0 \/ i \in 1 .. n
    OBVIOUS
  <2> QED BY <2>1, <2>2, <2>3
<1> HIDE DEF h
<1>3. \A i \in 1 .. m : h[i - 1] = f[i - 1] /\ h[i] = f[i]
  BY <1>1
<1>4. \A i \in 1 .. n : h[(m + i) - 1] = g[i - 1] /\ h[m + i] = g[i]
  <2>1. \A i \in 1 .. n : i - 1 \in 0 .. n /\ i \in 0 .. n /\ (m + i) - 1 = m + (i - 1)
    OBVIOUS
  <2> QED BY <1>2, <2>1
<1>5. h[0] = f[0] /\ h[m + n] = g[n]
  BY <1>1, <1>2
<1> QED BY <1>3, <1>4, <1>5 DEF Glues

\* The symbols of two texts, one after the other.
LEMMA ConcatParts ==
  ASSUME NEW A, NEW u \in Seq(A), NEW v \in Seq(A)
  PROVE  /\ Len(u) \in Nat /\ Len(v) \in Nat /\ u \o v \in Seq(A)
         /\ Len(u \o v) = Len(u) + Len(v)
         /\ \A i \in 1 .. Len(u) : (u \o v)[i] = u[i]
         /\ \A i \in 1 .. Len(v) : (u \o v)[Len(u) + i] = v[i]
BY ConcatProperties, LenProperties

\* What holds at the places of two texts holds at those of both.
LEMMA PlacesOfBoth ==
  ASSUME NEW m \in Nat, NEW n \in Nat, NEW i \in 1 .. m + n
  PROVE  i \in 1 .. m \/ \E j \in 1 .. n : i = m + j
<1>1. CASE i <= m
  BY <1>1
<1>2. CASE i > m
  <2>1. i - m \in 1 .. n /\ i = m + (i - m)
    BY <1>2
  <2> QED BY <2>1
<1> QED BY <1>1, <1>2

\* Reading composes: two texts, one after the other.
LEMMA ReadsBoth ==
  ASSUME NEW rows, NEW p, NEW u, NEW q, NEW v, NEW r, Reads(rows, p, u, q), Reads(rows, q, v, r)
  PROVE  Reads(rows, p, u \o v, r)
<1> DEFINE m == Len(u)
           n == Len(v)
           w == u \o v
<1>1. /\ m \in Nat /\ n \in Nat /\ w \in AText /\ Len(w) = m + n
      /\ \A i \in 1 .. m : w[i] = u[i]
      /\ \A i \in 1 .. n : w[m + i] = v[i]
  BY ConcatParts DEF Reads, AText
<1>2. PICK f : f[0] = p /\ f[m] = q /\ ReadBy(rows, u, f)
  BY DEF Reads
<1>3. PICK g : g[0] = q /\ g[n] = r /\ ReadBy(rows, v, g)
  BY DEF Reads
<1> HIDE DEF m, n, w
<1>4. PICK h : Glues(h, f, m, g, n)
  BY <1>1, <1>2, <1>3, Glued
<1>5. \A i \in 1 .. m : Ready(h[i - 1]) /\ h[i] = Step(rows, h[i - 1], w[i])
  BY <1>1, <1>2, <1>4 DEF Glues, ReadBy, m
<1>6. \A i \in 1 .. n : Ready(h[(m + i) - 1]) /\ h[m + i] = Step(rows, h[(m + i) - 1], w[m + i])
  BY <1>1, <1>3, <1>4 DEF Glues, ReadBy, n
<1>7. \A i \in 1 .. m + n : Ready(h[i - 1]) /\ h[i] = Step(rows, h[i - 1], w[i])
  BY <1>1, <1>5, <1>6, PlacesOfBoth
<1>8. ReadBy(rows, w, h)
  BY <1>1, <1>7 DEF ReadBy
<1> QED BY <1>1, <1>2, <1>3, <1>4, <1>8 DEF Glues, Reads, w

\* Texts in a row, as Concat puts them together.
LEMMA ReadsParts ==
  ASSUME NEW rows, NEW ss \in Seq(AText), NEW g,
         \A i \in 1 .. Len(ss) : Reads(rows, g[i - 1], ss[i], g[i])
  PROVE  Reads(rows, g[0], Concat(ss), g[Len(ss)])
<1> DEFINE n == Len(ss)
<1>1. PICK f : ConcatSteps(ss, f)
  BY ConcatIs DEF AText
<1>2. n \in Nat
  BY LenProperties
<1> DEFINE T == {i \in Nat : i <= n => Reads(rows, g[0], f[i], g[i])}
<1>3. 0 \in T
  BY <1>1, ReadsNothing DEF ConcatSteps
<1>4. ASSUME NEW i \in Nat, i \in T PROVE i + 1 \in T
  <2> SUFFICES ASSUME i + 1 <= n PROVE Reads(rows, g[0], f[i + 1], g[i + 1])
    OBVIOUS
  <2> HIDE DEF n
  <2>1. i + 1 \in 1 .. n /\ (i + 1) - 1 = i /\ i \in 0 .. n
    BY <1>2
  <2>2. f[i + 1] = f[i] \o ss[i + 1]
    BY <1>1, <2>1 DEF ConcatSteps, n
  <2>4. Reads(rows, g[0], f[i], g[i])
    BY <1>4, <2>1
  <2>5. Reads(rows, g[i], ss[i + 1], g[i + 1])
    BY <2>1 DEF n
  <2>6. Reads(rows, g[0], f[i] \o ss[i + 1], g[i + 1])
    BY <2>4, <2>5, ReadsBoth
  <2> QED BY <2>2, <2>6
<1>5. Nat \subseteq T
  <2> HIDE DEF T
  <2> QED BY <1>3, <1>4, SetInduction
<1>6. Concat(ss) = f[n]
  BY <1>1 DEF ConcatSteps
<1>7. Reads(rows, g[0], f[n], g[n])
  <2> HIDE DEF n
  <2> QED BY <1>2, <1>5
<1> QED BY <1>6, <1>7

-----------------------------------------------------------------------------
(* The tables.                                                             *)

Tables == {RequestRows, ResponseRows}

RowsAt(rows, s) == {r \in rows : r[1] = s}

\* r is the one row that a state has for a symbol.
Only(rows, s, c, r) == \A x : x \in rows /\ x[1] = s /\ Accepts(x[2], c) <=> x = r

\* No symbol written as two characters is the name of a class.
LEMMA SpecialClasses ==
  /\ SP \notin {"token", "text", "visible", "blank", "char", "inLine", "digit", "alnum", "any"}
  /\ Semicolon \notin {"token", "text", "visible", "blank", "char", "inLine", "digit", "alnum", "any"}
BY Zenon DEF SP, Semicolon

\* What the classes of HttpParser.Accepts stand for.
LEMMA Classes ==
  \A c : /\ Accepts("token", c) => c \notin {"\r", "\n", SP, Tab, "control", ":", Semicolon, "=", "/"}
         /\ Accepts("text", c) <=> c \notin {"\r", "\n", Tab, "control"}
         /\ Accepts("visible", c) <=> c \notin {"\r", "\n", Tab, "control", SP}
         /\ Accepts("blank", c) <=> c \in {SP, Tab}
         /\ Accepts("char", c) <=> c # "byte"
         /\ Accepts("inLine", c) <=> c \notin {"\r", "byte"}
         /\ Accepts("digit", c) <=> c \in Range(Digits)
         /\ Accepts("alnum", c) <=> c \in Range(HexDigits) \cup {"H", "T", "P", "word", "https"}
         /\ Accepts("any", c)
BY DEF Accepts, isChar, isControl, isSpecial, isalnum

\* A symbol as a class stands for itself.
LEMMA SymbolClasses ==
  \A s \in {SP, Semicolon, "\r", "\n", "H", "T", "P", "/", ".", ":", "="} :
    \A c : Accepts(s, c) <=> c = s
BY SpecialClasses DEF Accepts

-----------------------------------------------------------------------------
(* Parsers in the middle of a message: a state, the counters, the message. *)

Counters(size, digits, left, chunked) ==
  [contentSize |-> size, chunkSizeStr |-> digits, chunkSize |-> left, chunked |-> chunked]

Reader(s, k, m) ==
  [state |-> s, contentSize |-> k.contentSize, chunkSizeStr |-> k.chunkSizeStr,
   chunkSize |-> k.chunkSize, chunked |-> k.chunked, result |-> "ParsingIncompleted",
   message |-> m]

\* A parser in the middle of a message is ready for a symbol.
LEMMA ReaderReady ==
  \A s, k, m : Ready(Reader(s, k, m)) /\ Reader(s, k, m).result = "ParsingIncompleted"
BY DEF Ready, Reader, Started

\* A new parser is such a one.
LEMMA NewReader == \A s : NewParser(s) = Reader(s, Counters(0, <<>>, 0, FALSE), NewMessage)
BY DEF NewParser, Reader, Counters

\* The one row that a table has for a state and a symbol is the step.
LEMMA StepByRow ==
  ASSUME NEW rows, NEW s, NEW k, NEW m, NEW c, NEW r, NEW q,
         Only(rows, s, c, r), q = Done(r[4], Reader(r[3], k, m), c), q.result # "ParsingError"
  PROVE  Step(rows, Reader(s, k, m), c) = q
<1> DEFINE p == Reader(s, k, m)
           row == {x \in rows : x[1] = p.state /\ Accepts(x[2], c)}
<1>1. p.state = s /\ [p EXCEPT !.state = r[3]] = Reader(r[3], k, m)
  BY DEF Reader
<1>2. row = {r}
  BY <1>1 DEF Only
<1>3. (CHOOSE x \in row : TRUE) = r
  BY <1>2
<1> HIDE DEF row
<1>4. Step(rows, p, c) = LET x == CHOOSE x \in row : TRUE
                             z == Done(x[4], [p EXCEPT !.state = x[3]], c)
                         IN  IF z.result = "ParsingError" THEN [z EXCEPT !.state = p.state] ELSE z
  BY <1>2 DEF Step, row
<1> HIDE DEF p
<1> QED BY <1>1, <1>3, <1>4 DEF p

\* The same, as the reading of one symbol.
LEMMA ReadsByRow ==
  ASSUME NEW rows, NEW s, NEW k, NEW m, NEW c \in Alphabet, NEW r, NEW q,
         Only(rows, s, c, r), q = Done(r[4], Reader(r[3], k, m), c), q.result # "ParsingError"
  PROVE  Reads(rows, Reader(s, k, m), <<c>>, q)
BY StepByRow, ReadsOne, ReaderReady

\* A row that skips its symbol only moves on.
LEMMA SkipIs == \A p, c : Done("skip", p, c) = p
BY DEF Done, Texts, Numbers

\* The same, as the reading of one symbol.
LEMMA Skips ==
  ASSUME NEW rows, NEW s, NEW k, NEW m, NEW c \in Alphabet, NEW r, Only(rows, s, c, r),
         r[4] = "skip"
  PROVE  Reads(rows, Reader(s, k, m), <<c>>, Reader(r[3], k, m))
<1>1. Done(r[4], Reader(r[3], k, m), c) = Reader(r[3], k, m)
  BY SkipIs
<1> QED BY <1>1, ReadsByRow, ReaderReady

\* A text whose first symbol is read from s0 to s, and the others in s, by rows
\* that do the same.
Taken(rows, s0, s, w, do) ==
  \A i \in 1 .. Len(w) :
    \E r : Only(rows, IF i = 1 THEN s0 ELSE s, w[i], r) /\ r[3] = s /\ r[4] = do

Reached(s0, s, w) == IF Len(w) = 0 THEN s0 ELSE s

\* A text whose symbols all have a row of one kind is read by doing each.
LEMMA Takes ==
  ASSUME NEW rows, NEW s0, NEW s, NEW w \in AText, NEW do, Taken(rows, s0, s, w, do),
         NEW ks, NEW ms,
         \A i \in 1 .. Len(w) :
           Done(do, Reader(s, ks[i - 1], ms[i - 1]), w[i]) = Reader(s, ks[i], ms[i])
  PROVE  Reads(rows, Reader(s0, ks[0], ms[0]), w,
               Reader(Reached(s0, s, w), ks[Len(w)], ms[Len(w)]))
<1> DEFINE st(i) == IF i = 0 THEN s0 ELSE s
           f == [i \in 0 .. Len(w) |-> Reader(st(i), ks[i], ms[i])]
<1>1. Len(w) \in Nat
  BY DEF AText
<1>2. f[0] = Reader(s0, ks[0], ms[0])
  BY <1>1
<1>3. f[Len(w)] = Reader(Reached(s0, s, w), ks[Len(w)], ms[Len(w)])
  BY <1>1 DEF Reached
<1>4. ASSUME NEW i \in 1 .. Len(w)
      PROVE  Ready(f[i - 1]) /\ f[i] = Step(rows, f[i - 1], w[i])
  <2>1. PICK r : Only(rows, IF i = 1 THEN s0 ELSE s, w[i], r) /\ r[3] = s /\ r[4] = do
    BY DEF Taken
  <2>2. f[i - 1] = Reader(st(i - 1), ks[i - 1], ms[i - 1]) /\ f[i] = Reader(s, ks[i], ms[i])
    BY <1>1
  <2> HIDE DEF f
  <2>3. Only(rows, st(i - 1), w[i], r)
    BY <2>1, <1>1
  <2> HIDE DEF st
  <2>4. Step(rows, f[i - 1], w[i]) = f[i]
    BY <2>1, <2>2, <2>3, StepByRow, ReaderReady
  <2> QED BY <2>2, <2>4, ReaderReady
<1> HIDE DEF f
<1> QED BY <1>2, <1>3, <1>4 DEF Reads, ReadBy

\* A text whose symbols are all skipped.
LEMMA SkipsAll ==
  ASSUME NEW rows, NEW s0, NEW s, NEW k, NEW m, NEW w \in AText, Taken(rows, s0, s, w, "skip")
  PROVE  Reads(rows, Reader(s0, k, m), w, Reader(Reached(s0, s, w), k, m))
<1> DEFINE ks == [i \in 0 .. Len(w) |-> k]
           ms == [i \in 0 .. Len(w) |-> m]
<1>1. Len(w) \in Nat
  BY DEF AText
<1>2. /\ ks[0] = k /\ ms[0] = m /\ ks[Len(w)] = k /\ ms[Len(w)] = m
      /\ \A i \in 1 .. Len(w) : ks[i - 1] = k /\ ms[i - 1] = m /\ ks[i] = k /\ ms[i] = m
  BY <1>1
<1> HIDE DEF ks, ms
<1>3. \A i \in 1 .. Len(w) :
        Done("skip", Reader(s, ks[i - 1], ms[i - 1]), w[i]) = Reader(s, ks[i], ms[i])
  BY <1>2, SkipIs
<1>4. Reads(rows, Reader(s0, ks[0], ms[0]), w,
            Reader(Reached(s0, s, w), ks[Len(w)], ms[Len(w)]))
  BY <1>3, Takes
<1> QED BY <1>2, <1>4

-----------------------------------------------------------------------------
(* The fields of the message.                                              *)

AHeaders == [name : AText, value : AText]

\* Messages, with an alphabet that the provers see all symbols in.
AMessages ==
  [method : AText, uri : AText, status : AText, content : AText,
   versionMajor : Nat, versionMinor : Nat, statusCode : Nat,
   headers : Seq(AHeaders), keepAlive : BOOLEAN]

\* The empty message is a message.
LEMMA NewMessageTyped == NewMessage \in AMessages
<1>1. <<>> \in AText /\ <<>> \in Seq(AHeaders)
  BY DEF AText
<1> QED BY <1>1 DEF NewMessage, AMessages

Put(m, field, x) == [m EXCEPT ![field] = x]

\* Setting a text of a message.
LEMMA PutText ==
  ASSUME NEW m \in AMessages, NEW do \in Texts \cup {"content"}, NEW t \in AText, NEW u
  PROVE  /\ m[do] \in AText
         /\ Put(m, do, t) \in AMessages /\ Put(m, do, t)[do] = t
         /\ Put(Put(m, do, t), do, u) = Put(m, do, u) /\ Put(m, do, m[do]) = m
BY DEF AMessages, Texts, Put

\* Setting a number of a message.
LEMMA PutNumber ==
  ASSUME NEW m \in AMessages, NEW do \in Numbers, NEW t \in Nat, NEW u
  PROVE  /\ m[do] \in Nat
         /\ Put(m, do, t) \in AMessages /\ Put(m, do, t)[do] = t
         /\ Put(Put(m, do, t), do, u) = Put(m, do, u) /\ Put(m, do, m[do]) = m
BY DEF AMessages, Numbers, Put

\* A row that names a text appends its symbol to it.
LEMMA TextDone ==
  ASSUME NEW s, NEW k, NEW m, NEW do \in Texts, NEW c
  PROVE  Done(do, Reader(s, k, m), c) = Reader(s, k, Put(m, do, Append(m[do], c)))
<1>1. ASSUME NEW p
      PROVE  Done(do, p, c) = [p EXCEPT !.message[do] = Append(@, c)]
  <2>1. CASE do = "method"
    BY <2>1 DEF Done, Texts, Numbers
  <2>2. CASE do = "uri"
    BY <2>2 DEF Done, Texts, Numbers
  <2>3. CASE do = "status"
    BY <2>3 DEF Done, Texts, Numbers
  <2> QED BY <2>1, <2>2, <2>3 DEF Texts
<1>2. \A x : [Reader(s, k, m) EXCEPT !.message = x] = Reader(s, k, x)
  BY DEF Reader
<1>3. Reader(s, k, m).message = m
  BY DEF Reader
<1> QED BY <1>1, <1>2, <1>3 DEF Put

\* (The provers do not match arithmetic on a field that is a variable.)
WithDigit(n, c) == n * 10 + atoi(<<c>>)

\* A row that names a number appends its digit to it.
LEMMA NumberDone ==
  ASSUME NEW s, NEW k, NEW m, NEW do \in Numbers, NEW c
  PROVE  Done(do, Reader(s, k, m), c) = Reader(s, k, Put(m, do, WithDigit(m[do], c)))
<1>1. ASSUME NEW p
      PROVE  Done(do, p, c) = [p EXCEPT !.message[do] = @ * 10 + atoi(<<c>>)]
  <2>1. CASE do = "versionMajor"
    BY <2>1 DEF Done, Texts, Numbers
  <2>2. CASE do = "versionMinor"
    BY <2>2 DEF Done, Texts, Numbers
  <2>3. CASE do = "statusCode"
    BY <2>3 DEF Done, Texts, Numbers
  <2> QED BY <2>1, <2>2, <2>3 DEF Numbers
<1>2. \A x : [Reader(s, k, m) EXCEPT !.message = x] = Reader(s, k, x)
  BY DEF Reader
<1>3. Reader(s, k, m).message = m
  BY DEF Reader
<1> QED BY <1>1, <1>2, <1>3 DEF Put, WithDigit

\* A text whose symbols are all appended to a field is in that field.
LEMMA TakesText ==
  ASSUME NEW rows, NEW s0, NEW s, NEW k, NEW m \in AMessages, NEW do \in Texts, NEW w \in AText,
         Taken(rows, s0, s, w, do)
  PROVE  /\ Reads(rows, Reader(s0, k, m), w, Reader(Reached(s0, s, w), k, Put(m, do, m[do] \o w)))
         /\ Put(m, do, m[do] \o w) \in AMessages
<1> DEFINE t == m[do]
           x(i) == t \o SubSeq(w, 1, i)
           ks == [i \in 0 .. Len(w) |-> k]
           ms == [i \in 0 .. Len(w) |-> Put(m, do, x(i))]
<1>1. t \in AText
  BY PutText DEF AText
<1> HIDE DEF t
<1>2. Len(w) \in Nat
  BY DEF AText
<1>3. x(0) = t /\ x(Len(w)) = t \o w /\ \A i \in 0 .. Len(w) : x(i) \in AText
  <2>1. /\ SubSeq(w, 1, 0) = <<>> /\ SubSeq(w, 1, Len(w)) = w
        /\ \A i \in 0 .. Len(w) : SubSeq(w, 1, i) \in AText
    BY PrefixFacts DEF AText
  <2>2. t \o <<>> = t /\ \A z \in AText : t \o z \in AText
    BY <1>1 DEF AText
  <2> QED BY <2>1, <2>2
<1>4. \A i \in 1 .. Len(w) : x(i) = Append(x(i - 1), w[i])
  BY <1>1, Appended DEF AText
<1> HIDE DEF x
<1>5. /\ ks[0] = k /\ ms[0] = Put(m, do, x(0)) /\ ks[Len(w)] = k
      /\ ms[Len(w)] = Put(m, do, x(Len(w)))
      /\ \A i \in 1 .. Len(w) : /\ ks[i - 1] = k /\ ms[i - 1] = Put(m, do, x(i - 1))
                                /\ ks[i] = k /\ ms[i] = Put(m, do, x(i))
  BY <1>2
<1> HIDE DEF ks, ms
<1>6. ASSUME NEW i \in 1 .. Len(w)
      PROVE  Done(do, Reader(s, ks[i - 1], ms[i - 1]), w[i]) = Reader(s, ks[i], ms[i])
  <2> DEFINE n == ms[i - 1]
  <2>1. i - 1 \in 0 .. Len(w)
    BY <1>2
  <2>2. x(i - 1) \in AText
    BY <1>3, <2>1
  <2>3. n = Put(m, do, x(i - 1))
    BY <1>5
  <2>4. n[do] = x(i - 1) /\ Put(n, do, Append(n[do], w[i])) = Put(m, do, Append(x(i - 1), w[i]))
    BY <2>2, <2>3, PutText
  <2> HIDE DEF n
  <2>5. Done(do, Reader(s, k, n), w[i]) = Reader(s, k, Put(n, do, Append(n[do], w[i])))
    BY TextDone
  <2> QED BY <1>4, <1>5, <2>4, <2>5 DEF n
<1>7. Reads(rows, Reader(s0, ks[0], ms[0]), w,
            Reader(Reached(s0, s, w), ks[Len(w)], ms[Len(w)]))
  BY <1>6, Takes
<1>8. Put(m, do, t) = m
  BY PutText DEF t
<1>9. t \o w \in AText
  BY <1>1 DEF AText
<1>10. Put(m, do, t \o w) \in AMessages
  BY <1>9, PutText
<1> QED BY <1>3, <1>5, <1>7, <1>8, <1>10 DEF t

-----------------------------------------------------------------------------
(* Numbers, a digit at a time.                                             *)

\* The digits that a word of digits begins with are all of it.
LEMMA AllDigits ==
  ASSUME NEW digits, NEW w \in Seq(Range(digits))
  PROVE  LeadingDigits(w, digits) = w
<1> DEFINE I == {i \in 1 .. Len(w) : w[i] \notin Range(digits)}
<1>1. I = {}
  BY ElementOfSeq
<1> QED BY <1>1 DEF LeadingDigits, SelectInSeq

\* The strings of digits are texts of digits.
LEMMA TenDigits ==
  /\ Digits \in Seq(Range(Digits)) /\ Len(Digits) = 10
  /\ HexDigits \in Seq(Range(HexDigits))
<1>1. \E S : Digits \in Seq(S) /\ HexDigits \in Seq(S)
  BY DigitsTyped
<1>2. \A S : \A s \in Seq(S) : s \in Seq(Range(s))
  BY DEF Range
<1>3. Len(Digits) = 10
  BY DEF Digits
<1> QED BY <1>1, <1>2, <1>3

\* The number that one digit writes.
LEMMA OneDigit ==
  ASSUME NEW c \in Range(Digits)
  PROVE  atoi(<<c>>) = DigitValue(c, Digits) /\ DigitValue(c, Digits) \in Nat
<1> DEFINE w == <<c>>
<1>1. w \in Seq(Range(Digits)) /\ Len(w) = 1 /\ w[1] = c
  OBVIOUS
<1> HIDE DEF w
<1>2. PICK f : NumberSteps(w, Digits, f)
  BY <1>1, TenDigits, NumberIs
<1>3. LeadingDigits(w, Digits) = w
  BY <1>1, AllDigits
<1>4. f[0] = 0 /\ f[1] = NumberOf(w, Digits) /\ f[1] = f[0] * Len(Digits) + DigitValue(c, Digits)
  <2>1. /\ f[0] = 0 /\ f[Len(w)] = NumberOf(w, Digits)
        /\ \A i \in 1 .. Len(w) : f[i] = f[i - 1] * Len(Digits) + DigitValue(w[i], Digits)
    BY <1>2, <1>3 DEF NumberSteps
  <2>2. 1 \in 1 .. Len(w) /\ 1 - 1 = 0
    BY <1>1
  <2>3. f[1] = f[1 - 1] * Len(Digits) + DigitValue(w[1], Digits)
    BY <2>1, <2>2
  <2> QED BY <1>1, <2>1, <2>2, <2>3
<1>5. DigitValue(c, Digits) \in Nat
  BY TenDigits, DigitValueTyped
<1>6. NumberOf(w, Digits) = DigitValue(c, Digits)
  BY <1>4, <1>5, TenDigits
<1> QED BY <1>5, <1>6 DEF atoi, w

\* No digits are read as 0.
LEMMA NoDigits == atoi(<<>>) = 0 /\ strtol16(<<>>) = 0
<1>1. ASSUME NEW digits, digits \in Seq(Range(digits)) PROVE NumberOf(<<>>, digits) = 0
  <2> DEFINE w == <<>>
  <2>1. w \in Seq(Range(digits)) /\ Len(w) = 0
    OBVIOUS
  <2> HIDE DEF w
  <2>2. PICK f : NumberSteps(w, digits, f)
    BY <1>1, <2>1, NumberIs
  <2>3. LeadingDigits(w, digits) = w
    BY <2>1, AllDigits
  <2>4. f[0] = 0 /\ f[Len(w)] = NumberOf(w, digits)
    BY <2>2, <2>3 DEF NumberSteps
  <2> QED BY <2>1, <2>4 DEF w
<1> QED BY <1>1, TenDigits DEF atoi, strtol16

\* A word of digits is a number without blanks and without a sign.
LEMMA SignedDigits ==
  ASSUME NEW w \in Seq(Range(Digits))
  PROVE  Value(Signed(w)) = atoi(w)
<1> DEFINE I == {j \in 1 .. Len(w) : w[j] # SP}
           i == SelectInSeq(w, LAMBDA c : c # SP)
           u == IF i = 0 THEN <<>> ELSE SubSeq(w, i, Len(w))
           sign == u # <<>> /\ u[1] \in {"-", "+"}
<1>1. \A c \in Range(Digits) : c # SP /\ c \notin {"-", "+"}
  BY DigitsAre, HexDigitsAre, SpecialSymbols DEF isalnum
<1>2. u = w /\ (w # <<>> => w[1] \in Range(Digits))
  <2>1. CASE w = <<>>
    <3>1. I = {}
      BY <2>1, EmptySeq
    <3>2. i = 0
      BY <3>1 DEF SelectInSeq
    <3> QED BY <2>1, <3>2
  <2>2. CASE w # <<>>
    <3>1. Len(w) \in Nat /\ Len(w) # 0
      BY <2>2, EmptySeq, LenProperties
    <3>2. 1 \in 1 .. Len(w) /\ w[1] \in Range(Digits)
      BY <3>1, ElementOfSeq
    <3>3. I \subseteq Nat /\ 1 \in I /\ 0 \notin I
      BY <1>1, <3>2
    <3>4. Min(I) \in I /\ Min(I) <= 1
      <4> HIDE DEF I
      <4> QED BY <3>3, MinFacts
    <3>5. Min(I) = 1
      <4>1. Min(I) \in Nat /\ Min(I) # 0
        <5> HIDE DEF I
        <5> QED BY <3>3, <3>4
      <4> QED BY <3>4, <4>1
    <3>6. i = 1
      BY <3>3, <3>5 DEF SelectInSeq
    <3>7. SubSeq(w, 1, Len(w)) = w
      OBVIOUS
    <3>8. u = SubSeq(w, 1, Len(w))
      <4> HIDE DEF i
      <4> QED BY <3>6
    <3> HIDE DEF u
    <3> QED BY <3>2, <3>7, <3>8
  <2> QED BY <2>1, <2>2
<1>3. ~ sign
  BY <1>1, <1>2
<1>4. Signed(w) = [negative |-> sign /\ u[1] = "-",
                   digits |-> LeadingDigits(IF sign THEN Tail(u) ELSE u, Digits)]
  BY DEF Signed
<1>5. Signed(w) = [negative |-> FALSE, digits |-> LeadingDigits(w, Digits)]
  <2> HIDE DEF u
  <2>1. (sign /\ u[1] = "-") = FALSE /\ (IF sign THEN Tail(u) ELSE u) = w
    BY <1>2, <1>3
  <2> HIDE DEF sign
  <2> QED BY <1>4, <2>1
<1> HIDE DEF u, sign
<1> QED BY <1>5, AllDigits DEF Value

\* A word of digits, read one by one, is the number that atoi makes of it.
LEMMA TakesNumber ==
  ASSUME NEW rows, NEW s0, NEW s, NEW k, NEW m \in AMessages, NEW do \in Numbers,
         NEW w \in Seq(Range(Digits)), Taken(rows, s0, s, w, do), w \in AText
  PROVE  /\ Reads(rows, Reader(s0, k, Put(m, do, 0)), w, Reader(Reached(s0, s, w), k, Put(m, do, atoi(w))))
         /\ Put(m, do, atoi(w)) \in AMessages
<1>1. PICK f : NumberSteps(w, Digits, f)
  BY TenDigits, NumberIs
<1>2. /\ f[0] = 0 /\ f[Len(w)] = atoi(w)
      /\ \A i \in 1 .. Len(w) : f[i] = f[i - 1] * 10 + DigitValue(w[i], Digits)
      /\ \A i \in 0 .. Len(w) : f[i] \in Nat
  BY <1>1, AllDigits, TenDigits DEF NumberSteps, atoi
<1>3. Len(w) \in Nat
  BY LenProperties
<1>4. \A i \in 1 .. Len(w) : f[i] = f[i - 1] * 10 + atoi(<<w[i]>>)
  <2>1. \A i \in 1 .. Len(w) : w[i] \in Range(Digits)
    BY ElementOfSeq
  <2> QED BY <1>2, <2>1, OneDigit
<1> DEFINE ks == [i \in 0 .. Len(w) |-> k]
           ms == [i \in 0 .. Len(w) |-> Put(m, do, f[i])]
<1>5. /\ ks[0] = k /\ ms[0] = Put(m, do, f[0]) /\ ks[Len(w)] = k
      /\ ms[Len(w)] = Put(m, do, f[Len(w)])
      /\ \A i \in 1 .. Len(w) : /\ ks[i - 1] = k /\ ms[i - 1] = Put(m, do, f[i - 1])
                                /\ ks[i] = k /\ ms[i] = Put(m, do, f[i])
  BY <1>3
<1> HIDE DEF ks, ms
<1>6. ASSUME NEW i \in 1 .. Len(w)
      PROVE  Done(do, Reader(s, ks[i - 1], ms[i - 1]), w[i]) = Reader(s, ks[i], ms[i])
  <2> DEFINE n == ms[i - 1]
  <2>1. i - 1 \in 0 .. Len(w)
    BY <1>3
  <2>2. f[i - 1] \in Nat
    BY <1>2, <2>1
  <2>3. n = Put(m, do, f[i - 1])
    BY <1>5
  <2> DEFINE x == WithDigit(n[do], w[i])
  <2>4. n[do] = f[i - 1]
    BY <2>2, <2>3, PutNumber
  <2>5. Put(n, do, x) = Put(m, do, x)
    <3> HIDE DEF x, n
    <3> QED BY <2>2, <2>3, PutNumber
  <2>6. x = f[i]
    BY <1>4, <2>4 DEF WithDigit
  <2>7. Done(do, Reader(s, k, n), w[i]) = Reader(s, k, Put(n, do, WithDigit(n[do], w[i])))
    <3> HIDE DEF n
    <3> QED BY NumberDone
  <2> QED BY <1>5, <2>5, <2>6, <2>7 DEF n
<1>7. Reads(rows, Reader(s0, ks[0], ms[0]), w,
            Reader(Reached(s0, s, w), ks[Len(w)], ms[Len(w)]))
  BY <1>6, Takes
<1>9. atoi(w) \in Nat
  BY <1>2, <1>3
<1>10. Put(m, do, atoi(w)) \in AMessages
  BY <1>9, PutNumber
<1> QED BY <1>2, <1>5, <1>7, <1>10

-----------------------------------------------------------------------------
(* The first line.                                                         *)

\* What is written, of an alphabet that the provers see all symbols in.
ASymbols(class) == {c \in Alphabet : Accepts(class, c)}
AWords(class) == Seq(ASymbols(class)) \ {<<>>}

\* What a message is written with is a text of the parsers.
LEMMA Widened ==
  \A class : Seq(Symbols(class)) \subseteq Seq(ASymbols(class)) /\ Words(class) \subseteq AWords(class)
<1>1. \A class : Symbols(class) \subseteq ASymbols(class)
  BY DEF Symbols, ASymbols, Alphabet
<1> QED BY <1>1, SeqWidened DEF Words, AWords

\* The symbols of a word are of its class.
LEMMA Written ==
  ASSUME NEW class, NEW w \in Seq(ASymbols(class))
  PROVE  /\ w \in AText /\ Len(w) \in Nat
         /\ \A i \in 1 .. Len(w) : w[i] \in Alphabet /\ Accepts(class, w[i])
         /\ w \in AWords(class) => Len(w) # 0
<1>1. \A i \in 1 .. Len(w) : w[i] \in ASymbols(class)
  BY ElementOfSeq
<1>2. ASymbols(class) \subseteq Alphabet
  BY DEF ASymbols, Alphabet
<1>3. \A i \in 1 .. Len(w) : w[i] \in Alphabet
  BY <1>1, <1>2
<1>4. w \in AText
  BY <1>3, SeqNarrowed DEF AText
<1>5. Len(w) \in Nat /\ (Len(w) = 0 <=> w = <<>>)
  BY EmptySeq, LenProperties
<1> QED BY <1>1, <1>2, <1>3, <1>4, <1>5 DEF ASymbols, AWords

\* A word is a text over its class.
LEMMA WordsAreTexts == \A class : \A w \in AWords(class) : w \in Seq(ASymbols(class))
BY DEF AWords

\* A word of the class of digits is a word of digits.
LEMMA DigitsWritten ==
  ASSUME NEW w \in Seq(ASymbols("digit"))
  PROVE  w \in Seq(Range(Digits))
<1>1. \A i \in 1 .. Len(w) : w[i] \in Range(Digits)
  BY Written, Classes
<1> QED BY <1>1, SeqNarrowed

\* The symbols with a meaning are symbols.
LEMMA SymbolsTyped ==
  {"\r", "\n", SP, Semicolon, ":", "=", "/", ".", "H", "T", "P"} \subseteq Alphabet
BY DEF Alphabet, isControl, isSpecial, isalnum

\* Two symbols in a row.
LEMMA ReadsTwo ==
  ASSUME NEW rows, NEW p, NEW c, NEW q, NEW d, NEW r,
         Reads(rows, p, <<c>>, q), Reads(rows, q, <<d>>, r)
  PROVE  Reads(rows, p, <<c, d>>, r)
<1> DEFINE A == {c, d}
           s == <<c>>
           t == <<d>>
           u == <<c, d>>
<1>1. /\ s \in Seq(A) /\ Len(s) = 1 /\ s[1] = c
      /\ t \in Seq(A) /\ Len(t) = 1 /\ t[1] = d
      /\ u \in Seq(A) /\ Len(u) = 2 /\ u[1] = c /\ u[2] = d
  OBVIOUS
<1>2. s \o t = u
  <2> HIDE DEF A, s, t, u
  <2>1. /\ s \o t \in Seq(A) /\ Len(s \o t) = 2
        /\ (s \o t)[1] = c /\ (s \o t)[2] = d
    BY <1>1, ConcatProperties
  <2>2. \A i \in 1 .. 2 : (s \o t)[i] = u[i]
    BY <1>1, <2>1
  <2> QED BY <1>1, <2>1, <2>2, SeqEqual
<1> QED BY <1>2, ReadsBoth

\* The two numbers of the version are set in any order.
LEMMA PutVersion ==
  ASSUME NEW m \in AMessages, NEW a \in Nat, NEW b \in Nat
  PROVE  Put(Put(m, "versionMajor", a), "versionMinor", b)
           = Put(Put(m, "versionMinor", b), "versionMajor", a)
BY DEF AMessages, Put

\* The version starts again from 0.0.
LEMMA VersionCleared ==
  ASSUME NEW s, NEW k, NEW m \in AMessages, NEW c
  PROVE  Done("clearVersion", Reader(s, k, m), c)
           = Reader(s, k, Put(Put(m, "versionMajor", 0), "versionMinor", 0))
BY DEF AMessages, Put, Done, Texts, Numbers, Reader

\* The rows that read a version, whatever the states are called.
VersionRows(rows, s) ==
  /\ Only(rows, s[1], "H", <<s[1], "H", s[2], "skip">>)
  /\ Only(rows, s[2], "T", <<s[2], "T", s[3], "skip">>)
  /\ Only(rows, s[3], "T", <<s[3], "T", s[4], "skip">>)
  /\ Only(rows, s[4], "P", <<s[4], "P", s[5], "skip">>)
  /\ Only(rows, s[5], "/", <<s[5], "/", s[6], "clearVersion">>)
  /\ \A c \in Range(Digits) :
       /\ Only(rows, s[6], c, <<s[6], "digit", s[7], "versionMajor">>)
       /\ Only(rows, s[7], c, <<s[7], "digit", s[7], "versionMajor">>)
       /\ Only(rows, s[8], c, <<s[8], "digit", s[9], "versionMinor">>)
       /\ Only(rows, s[9], c, <<s[9], "digit", s[9], "versionMinor">>)
  /\ Only(rows, s[7], ".", <<s[7], ".", s[8], "skip">>)

RequestVersionStates ==
  <<"RequestHttpVersion_h", "RequestHttpVersion_ht", "RequestHttpVersion_htt",
    "RequestHttpVersion_http", "RequestHttpVersion_slash", "RequestHttpVersion_majorStart",
    "RequestHttpVersion_major", "RequestHttpVersion_minorStart", "RequestHttpVersion_minor">>
ResponseVersionStates ==
  <<"ResponseStatusStart", "ResponseHttpVersion_ht", "ResponseHttpVersion_htt",
    "ResponseHttpVersion_http", "ResponseHttpVersion_slash", "ResponseHttpVersion_majorStart",
    "ResponseHttpVersion_major", "ResponseHttpVersion_minorStart", "ResponseHttpVersion_minor">>

\* No digit ends a number.
LEMMA DigitSymbols ==
  \A c \in Range(Digits) : Accepts("digit", c) /\ c \notin {SP, "\r", "."}
BY DigitsAre, Classes, SpecialSymbols

\* The rows of the request parser for the version.
LEMMA RequestVersionRows == VersionRows(RequestRows, RequestVersionStates)
<1> DEFINE s == RequestVersionStates
<1>1. /\ Only(RequestRows, s[1], "H", <<s[1], "H", s[2], "skip">>)
      /\ Only(RequestRows, s[2], "T", <<s[2], "T", s[3], "skip">>)
      /\ Only(RequestRows, s[3], "T", <<s[3], "T", s[4], "skip">>)
      /\ Only(RequestRows, s[4], "P", <<s[4], "P", s[5], "skip">>)
      /\ Only(RequestRows, s[5], "/", <<s[5], "/", s[6], "clearVersion">>)
      /\ Only(RequestRows, s[7], ".", <<s[7], ".", s[8], "skip">>)
  BY Classes, SymbolClasses, SpecialSymbols, DigitsAre
     DEF RequestVersionStates, Only, RequestRows, RequestLineRows, HeaderRows,
         BodyHeaderRows, BodyRows, TrailerRows
<1>2. ASSUME NEW c \in Range(Digits)
      PROVE  /\ Only(RequestRows, s[6], c, <<s[6], "digit", s[7], "versionMajor">>)
             /\ Only(RequestRows, s[7], c, <<s[7], "digit", s[7], "versionMajor">>)
             /\ Only(RequestRows, s[8], c, <<s[8], "digit", s[9], "versionMinor">>)
             /\ Only(RequestRows, s[9], c, <<s[9], "digit", s[9], "versionMinor">>)
  BY SymbolClasses, DigitSymbols
     DEF RequestVersionStates, Only, RequestRows, RequestLineRows, HeaderRows,
         BodyHeaderRows, BodyRows, TrailerRows
<1> QED BY <1>1, <1>2 DEF VersionRows

\* The rows of the response parser for the version.
LEMMA ResponseVersionRows == VersionRows(ResponseRows, ResponseVersionStates)
<1> DEFINE s == ResponseVersionStates
<1>1. /\ Only(ResponseRows, s[1], "H", <<s[1], "H", s[2], "skip">>)
      /\ Only(ResponseRows, s[2], "T", <<s[2], "T", s[3], "skip">>)
      /\ Only(ResponseRows, s[3], "T", <<s[3], "T", s[4], "skip">>)
      /\ Only(ResponseRows, s[4], "P", <<s[4], "P", s[5], "skip">>)
      /\ Only(ResponseRows, s[5], "/", <<s[5], "/", s[6], "clearVersion">>)
      /\ Only(ResponseRows, s[7], ".", <<s[7], ".", s[8], "skip">>)
  BY Classes, SymbolClasses, SpecialSymbols, DigitsAre
     DEF ResponseVersionStates, Only, ResponseRows, StatusLineRows, HeaderRows,
         ResponseHeaderRows, ResponseBodyHeaderRows, BodyRows, TrailerRows, ResponseBodyRows
<1>2. ASSUME NEW c \in Range(Digits)
      PROVE  /\ Only(ResponseRows, s[6], c, <<s[6], "digit", s[7], "versionMajor">>)
             /\ Only(ResponseRows, s[7], c, <<s[7], "digit", s[7], "versionMajor">>)
             /\ Only(ResponseRows, s[8], c, <<s[8], "digit", s[9], "versionMinor">>)
             /\ Only(ResponseRows, s[9], c, <<s[9], "digit", s[9], "versionMinor">>)
  BY SymbolClasses, DigitSymbols
     DEF ResponseVersionStates, Only, ResponseRows, StatusLineRows, HeaderRows,
         ResponseHeaderRows, ResponseBodyHeaderRows, BodyRows, TrailerRows, ResponseBodyRows
<1> QED BY <1>1, <1>2 DEF VersionRows

Versioned(m, msg) ==
  Put(Put(m, "versionMajor", atoi(msg.major)), "versionMinor", atoi(msg.minor))

\* Both parsers read the version.
LEMMA VersionReads ==
  ASSUME NEW rows, NEW s, VersionRows(rows, s), NEW k, NEW m \in AMessages, NEW msg,
         msg.major \in AWords("digit"), msg.minor \in AWords("digit")
  PROVE  /\ Reads(rows, Reader(s[1], k, m), RenderVersion(msg), Reader(s[9], k, Versioned(m, msg)))
         /\ Versioned(m, msg) \in AMessages
<1> DEFINE a == msg.major
           b == msg.minor
           R(n) == Reader(s[n], k, m)
           m0 == Put(m, "versionMinor", 0)
           m1 == Put(m, "versionMajor", atoi(a))
           H == <<"H", "T", "T", "P", "/">>
<1>1. /\ a \in Seq(Range(Digits)) /\ a \in AText /\ Len(a) # 0
      /\ b \in Seq(Range(Digits)) /\ b \in AText /\ Len(b) # 0
  BY WordsAreTexts, Written, DigitsWritten
<1>2. /\ Reads(rows, R(1), <<"H">>, R(2)) /\ Reads(rows, R(2), <<"T">>, R(3))
      /\ Reads(rows, R(3), <<"T">>, R(4)) /\ Reads(rows, R(4), <<"P">>, R(5))
  BY Skips, SymbolsTyped DEF VersionRows
<1>3. Reads(rows, R(5), <<"/">>, Reader(s[6], k, Put(m0, "versionMajor", 0)))
  <2>1. Put(m0, "versionMajor", 0) = Put(Put(m, "versionMajor", 0), "versionMinor", 0)
    BY PutVersion
  <2>2. Done("clearVersion", Reader(s[6], k, m), "/") = Reader(s[6], k, Put(m0, "versionMajor", 0))
    BY <2>1, VersionCleared
  <2> QED BY <2>2, ReadsByRow, ReaderReady, SymbolsTyped DEF VersionRows
<1>4. H = <<"H">> \o <<"T">> \o <<"T">> \o <<"P">> \o <<"/">>
  OBVIOUS
<1> HIDE DEF H
<1>5. Reads(rows, R(1), H, Reader(s[6], k, Put(m0, "versionMajor", 0)))
  <2> HIDE DEF R
  <2> QED BY <1>2, <1>3, <1>4, ReadsBoth
<1>6. m0 \in AMessages /\ m1 \in AMessages
  BY <1>1, PutNumber, AtoiTyped DEF Numbers
<1>7. Reads(rows, Reader(s[6], k, Put(m0, "versionMajor", 0)), a,
            Reader(s[7], k, Put(m0, "versionMajor", atoi(a))))
  <2>1. Taken(rows, s[6], s[7], a, "versionMajor")
    <3>1. \A i \in 1 .. Len(a) : a[i] \in Range(Digits)
      BY <1>1, ElementOfSeq
    <3> QED BY <3>1 DEF Taken, VersionRows
  <2>2. Reached(s[6], s[7], a) = s[7]
    BY <1>1 DEF Reached
  <2> HIDE DEF a, m0
  <2> QED BY <1>1, <1>6, <2>1, <2>2, TakesNumber DEF Numbers
<1>8. Put(m0, "versionMajor", atoi(a)) = Put(m1, "versionMinor", 0)
  BY <1>1, PutVersion, AtoiTyped
<1>9. Reads(rows, Reader(s[7], k, Put(m1, "versionMinor", 0)), <<".">>,
            Reader(s[8], k, Put(m1, "versionMinor", 0)))
  BY Skips, SymbolsTyped DEF VersionRows
<1>10. /\ Reads(rows, Reader(s[8], k, Put(m1, "versionMinor", 0)), b,
                Reader(s[9], k, Put(m1, "versionMinor", atoi(b))))
       /\ Put(m1, "versionMinor", atoi(b)) \in AMessages
  <2>1. Taken(rows, s[8], s[9], b, "versionMinor")
    <3>1. \A i \in 1 .. Len(b) : b[i] \in Range(Digits)
      BY <1>1, ElementOfSeq
    <3> QED BY <3>1 DEF Taken, VersionRows
  <2>2. Reached(s[8], s[9], b) = s[9]
    BY <1>1 DEF Reached
  <2> HIDE DEF b, m1
  <2> QED BY <1>1, <1>6, <2>1, <2>2, TakesNumber DEF Numbers
<1>11. Reads(rows, R(1), H \o a \o <<".">> \o b, Reader(s[9], k, Put(m1, "versionMinor", atoi(b))))
  <2> HIDE DEF R, a, b, m0, m1
  <2> QED BY <1>5, <1>7, <1>8, <1>9, <1>10, ReadsBoth
<1> QED BY <1>10, <1>11 DEF RenderVersion, Versioned, H

AtFirst == Counters(0, <<>>, 0, FALSE)

Requested(m) == Versioned(Put(Put(NewMessage, "method", m.method), "uri", m.uri), m)
Answered(m) ==
  Put(Put(Versioned(NewMessage, m), "statusCode", atoi(m.code)), "status", m.status)

\* The rows that end a first line.
LEMMA LineEnds ==
  ASSUME NEW k, NEW m
  PROVE  /\ Reads(RequestRows, Reader("RequestHttpVersion_minor", k, m), CRLF,
                  Reader("HeaderLineStart", k, m))
         /\ Reads(ResponseRows, Reader("ResponseHttpVersion_statusText", k, m), CRLF,
                  Reader("HeaderLineStart", k, m))
<1>1. /\ Only(RequestRows, "RequestHttpVersion_minor", "\r",
              <<"RequestHttpVersion_minor", "\r", "ResponseHttpVersion_newLine", "skip">>)
      /\ Only(RequestRows, "ResponseHttpVersion_newLine", "\n",
              <<"ResponseHttpVersion_newLine", "\n", "HeaderLineStart", "skip">>)
      /\ Only(ResponseRows, "ResponseHttpVersion_statusText", "\r",
              <<"ResponseHttpVersion_statusText", "\r", "ResponseHttpVersion_newLine", "skip">>)
      /\ Only(ResponseRows, "ResponseHttpVersion_newLine", "\n",
              <<"ResponseHttpVersion_newLine", "\n", "HeaderLineStart", "skip">>)
  BY Classes, SymbolClasses, DigitsAre
     DEF Only, RequestRows, RequestLineRows, HeaderRows, BodyHeaderRows, BodyRows, TrailerRows,
         ResponseRows, StatusLineRows, ResponseHeaderRows, ResponseBodyHeaderRows, ResponseBodyRows
<1>2. /\ Reads(RequestRows, Reader("RequestHttpVersion_minor", k, m), <<"\r">>,
               Reader("ResponseHttpVersion_newLine", k, m))
      /\ Reads(RequestRows, Reader("ResponseHttpVersion_newLine", k, m), <<"\n">>,
               Reader("HeaderLineStart", k, m))
      /\ Reads(ResponseRows, Reader("ResponseHttpVersion_statusText", k, m), <<"\r">>,
               Reader("ResponseHttpVersion_newLine", k, m))
      /\ Reads(ResponseRows, Reader("ResponseHttpVersion_newLine", k, m), <<"\n">>,
               Reader("HeaderLineStart", k, m))
  BY <1>1, Skips, SymbolsTyped
<1> QED BY <1>2, ReadsTwo DEF CRLF

\* A word that is read from s0 to s, by one row for its first symbol and one for the others.
LEMMA TakenIs ==
  ASSUME NEW rows, NEW s0, NEW s, NEW class, NEW w \in Seq(ASymbols(class)), NEW do,
         NEW first, NEW others, first[3] = s, others[3] = s, first[4] = do, others[4] = do,
         \A c \in ASymbols(class) : Only(rows, s0, c, first) /\ Only(rows, s, c, others)
  PROVE  Taken(rows, s0, s, w, do)
<1>1. \A i \in 1 .. Len(w) : w[i] \in ASymbols(class)
  BY ElementOfSeq
<1> QED BY <1>1 DEF Taken

\* The first line of a request is read: method, URI and version.
LEMMA RequestLineReads ==
  ASSUME NEW m, m.method \in AWords("token"), m.uri \in AWords("visible"),
         m.major \in AWords("digit"), m.minor \in AWords("digit")
  PROVE  /\ Reads(RequestRows, NewParser("RequestMethodStart"), RequestLine(m) \o CRLF,
                  Reader("HeaderLineStart", AtFirst, Requested(m)))
         /\ Requested(m) \in AMessages
<1> DEFINE k == AtFirst
           R(s, x) == Reader(s, k, x)
           m1 == Put(NewMessage, "method", m.method)
           m2 == Put(m1, "uri", m.uri)
<1>1. NewParser("RequestMethodStart") = R("RequestMethodStart", NewMessage)
  BY NewReader DEF AtFirst
<1>2. /\ Only(RequestRows, "RequestMethod", SP, <<"RequestMethod", SP, "RequestUriStart", "skip">>)
      /\ Only(RequestRows, "RequestUri", SP, <<"RequestUri", SP, "RequestHttpVersion_h", "skip">>)
      /\ \A c \in ASymbols("token") :
           /\ Only(RequestRows, "RequestMethodStart", c,
                   <<"RequestMethodStart", "token", "RequestMethod", "method">>)
           /\ Only(RequestRows, "RequestMethod", c,
                   <<"RequestMethod", "token", "RequestMethod", "method">>)
      /\ \A c \in ASymbols("visible") :
           /\ Only(RequestRows, "RequestUriStart", c, <<"RequestUriStart", "text", "RequestUri", "uri">>)
           /\ Only(RequestRows, "RequestUri", c, <<"RequestUri", "visible", "RequestUri", "uri">>)
  BY Classes, SymbolClasses, SpecialSymbols
     DEF ASymbols, Only, RequestRows, RequestLineRows, HeaderRows, BodyHeaderRows, BodyRows, TrailerRows
<1>3. /\ m.method \in Seq(ASymbols("token")) /\ m.method \in AText /\ Len(m.method) # 0
      /\ m.uri \in Seq(ASymbols("visible")) /\ m.uri \in AText /\ Len(m.uri) # 0
  BY WordsAreTexts, Written
<1>4. /\ Taken(RequestRows, "RequestMethodStart", "RequestMethod", m.method, "method")
      /\ Taken(RequestRows, "RequestUriStart", "RequestUri", m.uri, "uri")
  <2>1. Taken(RequestRows, "RequestMethodStart", "RequestMethod", m.method, "method")
    BY <1>2, <1>3, TakenIs
  <2>2. Taken(RequestRows, "RequestUriStart", "RequestUri", m.uri, "uri")
    BY <1>2, <1>3, TakenIs
  <2> QED BY <2>1, <2>2
<1>5. /\ Reads(RequestRows, R("RequestMethodStart", NewMessage), m.method, R("RequestMethod", m1))
      /\ m1 \in AMessages
  <2>1. NewMessage["method"] \o m.method = m.method
    BY <1>3 DEF NewMessage, AText
  <2>2. Reached("RequestMethodStart", "RequestMethod", m.method) = "RequestMethod"
    BY <1>3 DEF Reached
  <2> QED BY <1>3, <1>4, <2>1, <2>2, TakesText, NewMessageTyped DEF Texts
<1>6. /\ Reads(RequestRows, R("RequestUriStart", m1), m.uri, R("RequestUri", m2))
      /\ m2 \in AMessages
  <2>1. m1["uri"] \o m.uri = m.uri
    BY <1>3 DEF NewMessage, AText, Put
  <2>2. Reached("RequestUriStart", "RequestUri", m.uri) = "RequestUri"
    BY <1>3 DEF Reached
  <2> HIDE DEF m1
  <2> QED BY <1>3, <1>4, <1>5, <2>1, <2>2, TakesText DEF Texts
<1>7. /\ Reads(RequestRows, R("RequestMethod", m1), <<SP>>, R("RequestUriStart", m1))
      /\ Reads(RequestRows, R("RequestUri", m2), <<SP>>, R("RequestHttpVersion_h", m2))
  BY <1>2, Skips, SymbolsTyped
<1> HIDE DEF m1, m2
<1>8. /\ Reads(RequestRows, R("RequestHttpVersion_h", m2), RenderVersion(m),
               R("RequestHttpVersion_minor", Versioned(m2, m)))
      /\ Versioned(m2, m) \in AMessages
  <2>1. RequestVersionStates[1] = "RequestHttpVersion_h"
        /\ RequestVersionStates[9] = "RequestHttpVersion_minor"
    BY DEF RequestVersionStates
  <2> QED BY <1>6, <2>1, RequestVersionRows, VersionReads
<1>9. Reads(RequestRows, R("RequestHttpVersion_minor", Versioned(m2, m)), CRLF,
            R("HeaderLineStart", Versioned(m2, m)))
  BY LineEnds
<1>10. Versioned(m2, m) = Requested(m)
  BY DEF m1, m2, Requested
<1> HIDE DEF R
<1>11. Reads(RequestRows, R("RequestMethodStart", NewMessage),
             m.method \o <<SP>> \o m.uri \o <<SP>> \o RenderVersion(m) \o CRLF,
             R("HeaderLineStart", Versioned(m2, m)))
  BY <1>5, <1>6, <1>7, <1>8, <1>9, ReadsBoth
<1> QED BY <1>1, <1>8, <1>10, <1>11 DEF RequestLine, R

\* The first line of a response is read: version, code and text.
LEMMA StatusLineReads ==
  ASSUME NEW m, m.code \in Seq(ASymbols("digit")), atoi(m.code) \in 100 .. 999,
         m.status \in AWords("inLine"), m.major \in AWords("digit"), m.minor \in AWords("digit")
  PROVE  /\ Reads(ResponseRows, NewParser("ResponseStatusStart"), StatusLine(m) \o CRLF,
                  Reader("HeaderLineStart", AtFirst, Answered(m)))
         /\ Answered(m) \in AMessages
<1> DEFINE k == AtFirst
           R(s, x) == Reader(s, k, x)
           m1 == Versioned(NewMessage, m)
           m2 == Put(m1, "statusCode", atoi(m.code))
           m3 == Put(m2, "status", m.status)
<1>1. NewParser("ResponseStatusStart") = R("ResponseStatusStart", NewMessage)
  BY NewReader DEF AtFirst
<1>2. /\ Only(ResponseRows, "ResponseHttpVersion_minor", SP,
              <<"ResponseHttpVersion_minor", SP, "ResponseHttpVersion_statusCodeStart", "skip">>)
      /\ Only(ResponseRows, "ResponseHttpVersion_statusCode", SP,
              <<"ResponseHttpVersion_statusCode", SP, "ResponseHttpVersion_statusTextStart",
                "statusCodeEnd">>)
      /\ \A c \in ASymbols("digit") :
           /\ Only(ResponseRows, "ResponseHttpVersion_statusCodeStart", c,
                   <<"ResponseHttpVersion_statusCodeStart", "digit", "ResponseHttpVersion_statusCode",
                     "statusCode">>)
           /\ Only(ResponseRows, "ResponseHttpVersion_statusCode", c,
                   <<"ResponseHttpVersion_statusCode", "digit", "ResponseHttpVersion_statusCode",
                     "statusCode">>)
      /\ \A c \in ASymbols("inLine") :
           /\ Only(ResponseRows, "ResponseHttpVersion_statusTextStart", c,
                   <<"ResponseHttpVersion_statusTextStart", "char", "ResponseHttpVersion_statusText",
                     "status">>)
           /\ Only(ResponseRows, "ResponseHttpVersion_statusText", c,
                   <<"ResponseHttpVersion_statusText", "inLine", "ResponseHttpVersion_statusText",
                     "status">>)
  BY Classes, SymbolClasses, SpecialSymbols, DigitsAre, DigitSymbols
     DEF ASymbols, Only, ResponseRows, StatusLineRows, HeaderRows, ResponseHeaderRows,
         ResponseBodyHeaderRows, BodyRows, TrailerRows, ResponseBodyRows
<1>3. /\ m.code \in Seq(Range(Digits)) /\ m.code \in AText /\ Len(m.code) # 0
      /\ m.status \in Seq(ASymbols("inLine")) /\ m.status \in AText /\ Len(m.status) # 0
  <2>1. Len(m.code) # 0
    <3> DEFINE n == atoi(m.code)
    <3>1. n # 0
      <4>1. n \in 100 .. 999
        OBVIOUS
      <4> HIDE DEF n
      <4> QED BY <4>1
    <3>2. m.code # <<>>
      BY <3>1, NoDigits
    <3> QED BY <3>2, EmptySeq
  <2> QED BY <2>1, WordsAreTexts, Written, DigitsWritten
<1>4. Taken(ResponseRows, "ResponseHttpVersion_statusCodeStart", "ResponseHttpVersion_statusCode",
            m.code, "statusCode")
  BY <1>2, TakenIs
<1>5. Taken(ResponseRows, "ResponseHttpVersion_statusTextStart", "ResponseHttpVersion_statusText",
            m.status, "status")
  BY <1>2, <1>3, TakenIs
<1>6. /\ Reads(ResponseRows, R("ResponseStatusStart", NewMessage), RenderVersion(m),
               R("ResponseHttpVersion_minor", m1))
      /\ m1 \in AMessages
  <2>1. ResponseVersionStates[1] = "ResponseStatusStart"
        /\ ResponseVersionStates[9] = "ResponseHttpVersion_minor"
    BY DEF ResponseVersionStates
  <2> QED BY <2>1, ResponseVersionRows, VersionReads, NewMessageTyped
<1>7. /\ m1 = Put(m1, "statusCode", 0) /\ m1["status"] = <<>>
  <2>1. m1["statusCode"] = 0 /\ m1["status"] = <<>>
    BY DEF Versioned, Put, NewMessage
  <2> HIDE DEF m1
  <2> QED BY <1>6, <2>1, PutNumber DEF Numbers
<1>8. /\ Reads(ResponseRows, R("ResponseHttpVersion_statusCodeStart", m1), m.code,
               R("ResponseHttpVersion_statusCode", m2))
      /\ m2 \in AMessages /\ m2["status"] = <<>> /\ m2.statusCode \in 100 .. 999
  <2>1. Reached("ResponseHttpVersion_statusCodeStart", "ResponseHttpVersion_statusCode", m.code)
          = "ResponseHttpVersion_statusCode"
    BY <1>3 DEF Reached
  <2> HIDE DEF m1
  <2>2. m2["status"] = <<>> /\ m2.statusCode = atoi(m.code)
    BY <1>6, <1>7 DEF Put, AMessages
  <2> DEFINE x == Put(m1, "statusCode", 0)
  <2>3. /\ Reads(ResponseRows, R("ResponseHttpVersion_statusCodeStart", x), m.code,
                 R("ResponseHttpVersion_statusCode", m2))
        /\ m2 \in AMessages
    BY <1>3, <1>4, <1>6, <2>1, TakesNumber DEF Numbers
  <2>4. x = m1
    BY <1>7
  <2> HIDE DEF x, m2
  <2> QED BY <2>2, <2>3, <2>4
<1>9. /\ Reads(ResponseRows, R("ResponseHttpVersion_statusTextStart", m2), m.status,
               R("ResponseHttpVersion_statusText", m3))
      /\ m3 \in AMessages
  <2>1. m2["status"] \o m.status = m.status
    <3> HIDE DEF m2
    <3>1. <<>> \o m.status = m.status
      BY <1>3 DEF AText
    <3> QED BY <1>8, <3>1
  <2>2. Reached("ResponseHttpVersion_statusTextStart", "ResponseHttpVersion_statusText", m.status)
          = "ResponseHttpVersion_statusText"
    BY <1>3 DEF Reached
  <2> HIDE DEF m1, m2
  <2> QED BY <1>3, <1>5, <1>8, <2>1, <2>2, TakesText DEF Texts
<1> HIDE DEF m1, m2, m3
<1>10. Reads(ResponseRows, R("ResponseHttpVersion_minor", m1), <<SP>>,
             R("ResponseHttpVersion_statusCodeStart", m1))
  BY <1>2, Skips, SymbolsTyped
<1>11. Reads(ResponseRows, R("ResponseHttpVersion_statusCode", m2), <<SP>>,
             R("ResponseHttpVersion_statusTextStart", m2))
  <2>1. \A s, c : Done("statusCodeEnd", R(s, m2), c) = R(s, m2)
    BY <1>8 DEF Done, Texts, Numbers, Reader
  <2> QED BY <1>2, <2>1, ReadsByRow, ReaderReady, SymbolsTyped
<1>12. Reads(ResponseRows, R("ResponseHttpVersion_statusText", m3), CRLF, R("HeaderLineStart", m3))
  BY LineEnds
<1>13. m3 = Answered(m)
  BY DEF m1, m2, m3, Answered
<1> HIDE DEF R
<1>14. Reads(ResponseRows, R("ResponseStatusStart", NewMessage),
             RenderVersion(m) \o <<SP>> \o m.code \o <<SP>> \o m.status \o CRLF,
             R("HeaderLineStart", m3))
  BY <1>6, <1>8, <1>9, <1>10, <1>11, <1>12, ReadsBoth
<1> QED BY <1>1, <1>9, <1>13, <1>14 DEF StatusLine, R

-----------------------------------------------------------------------------
(* A header.                                                               *)

WithHeaders(m, hs) == [m EXCEPT !.headers = hs]
Field(name, value) == [name |-> name, value |-> value]

Parts == {"name", "value"}

\* A name and a value are a header.
LEMMA FieldTyped ==
  \A n, v \in AText : /\ Field(n, v) \in AHeaders
                      /\ Field(n, v)["name"] = n /\ Field(n, v)["value"] = v
BY DEF Field, AHeaders

\* Setting the headers of a message.
LEMMA HeadersPut ==
  ASSUME NEW m \in AMessages, NEW hs \in Seq(AHeaders), NEW gs
  PROVE  /\ WithHeaders(m, hs) \in AMessages /\ WithHeaders(m, hs).headers = hs
         /\ WithHeaders(WithHeaders(m, hs), gs) = WithHeaders(m, gs)
         /\ WithHeaders(m, m.headers) = m
         /\ WithHeaders(m, hs).method = m.method
BY DEF AMessages, WithHeaders

\* Setting the name or the value of a header.
LEMMA PutPart ==
  ASSUME NEW h \in AHeaders, NEW field \in Parts, NEW t \in AText, NEW u
  PROVE  /\ h[field] \in AText
         /\ Put(h, field, t) \in AHeaders /\ Put(h, field, t)[field] = t
         /\ Put(Put(h, field, t), field, u) = Put(h, field, u) /\ Put(h, field, h[field]) = h
BY DEF AHeaders, Put, Parts

\* AppendToLast changes the last header only.
LEMMA AppendIs ==
  ASSUME NEW p, NEW field, NEW c
  PROVE  LET m == p.message
             hs == m.headers
             h == hs[Len(hs)]
         IN  AppendToLast(p, field, c)
               = [p EXCEPT !.message = WithHeaders(m, [hs EXCEPT ![Len(hs)] =
                                                         Put(h, field, Append(h[field], c))])]
BY DEF AppendToLast, WithHeaders, Put

\* Changing the last of a sequence.
LEMMA LastChanged ==
  ASSUME NEW A, NEW hs \in Seq(A), NEW g \in A, NEW h \in A
  PROVE  LET gs == Append(hs, g)
         IN  /\ gs \in Seq(A) /\ gs[Len(gs)] = g
             /\ [gs EXCEPT ![Len(gs)] = h] = Append(hs, h)
<1> DEFINE gs == Append(hs, g)
           fs == [gs EXCEPT ![Len(gs)] = h]
           es == Append(hs, h)
<1>1. /\ Len(hs) \in Nat
      /\ gs \in Seq(A) /\ Len(gs) = Len(hs) + 1 /\ gs[Len(hs) + 1] = g
      /\ \A i \in 1 .. Len(hs) : gs[i] = hs[i]
  BY AppendProperties, LenProperties
<1>2. /\ es \in Seq(A) /\ Len(es) = Len(hs) + 1 /\ es[Len(hs) + 1] = h
      /\ \A i \in 1 .. Len(hs) : es[i] = hs[i]
  BY AppendProperties
<1> HIDE DEF gs, es
<1>3. /\ fs \in Seq(A) /\ Len(fs) = Len(gs)
      /\ \A j \in 1 .. Len(gs) : fs[j] = IF j = Len(gs) THEN h ELSE gs[j]
  <2>1. Len(gs) \in 1 .. Len(gs)
    BY <1>1
  <2> QED BY <1>1, <2>1, ExceptSeq
<1> HIDE DEF fs
<1>4. fs = es
  <2>1. \A i \in 1 .. Len(fs) : fs[i] = es[i]
    BY <1>1, <1>2, <1>3
  <2>2. Len(fs) = Len(es)
    BY <1>1, <1>2, <1>3
  <2> QED BY <1>2, <1>3, <2>1, <2>2, SeqEqual
<1> QED BY <1>1, <1>4 DEF gs, fs, es

\* The header h is the last one so far; and with one symbol more.
Begun(m, hs, h) == WithHeaders(m, Append(hs, h))
Grown(h, field, c) == Put(h, field, Append(h[field], c))

\* A message with one more header is a message.
LEMMA BegunTyped ==
  ASSUME NEW m \in AMessages, NEW hs \in Seq(AHeaders), NEW h \in AHeaders
  PROVE  Begun(m, hs, h) \in AMessages
<1>1. Append(hs, h) \in Seq(AHeaders)
  BY AppendProperties
<1> QED BY <1>1, HeadersPut DEF Begun

\* The parts of a header are texts.
LEMMA PartTyped ==
  ASSUME NEW h \in AHeaders, NEW field \in Parts
  PROVE  h[field] \in AText
BY DEF AHeaders, Parts

\* A part that grows by a symbol makes a header.
LEMMA GrownTyped ==
  ASSUME NEW h \in AHeaders, NEW field \in Parts, NEW c \in Alphabet
  PROVE  Grown(h, field, c) \in AHeaders
<1>1. h[field] \in AText
  BY PartTyped
<1>2. \A t \in AText : Append(t, c) \in AText
  BY AppendProperties DEF AText
<1>3. \A t \in AText : Put(h, field, t) \in AHeaders
  BY PutPart
<1> QED BY <1>1, <1>2, <1>3 DEF Grown

\* A row that names a part appends its symbol to that of the last header.
LEMMA PartDone ==
  ASSUME NEW s, NEW k, NEW m \in AMessages, NEW hs \in Seq(AHeaders), NEW h \in AHeaders,
         NEW field \in Parts, NEW c \in Alphabet
  PROVE  Done(field, Reader(s, k, Begun(m, hs, h)), c)
           = Reader(s, k, Begun(m, hs, Grown(h, field, c)))
<1> DEFINE gs == Append(hs, h)
           g == Grown(h, field, c)
           n == Begun(m, hs, h)
           p == Reader(s, k, n)
           es == [gs EXCEPT ![Len(gs)] = g]
<1>1. g \in AHeaders
  BY GrownTyped
<1>2. gs \in Seq(AHeaders) /\ gs[Len(gs)] = h /\ es = Append(hs, g)
  <2> HIDE DEF g
  <2> QED BY <1>1, LastChanged
<1>3. n.headers = gs
  <2> HIDE DEF gs
  <2> QED BY <1>2, HeadersPut DEF Begun, gs
<1>4. WithHeaders(n, es) = Begun(m, hs, g)
  <2>1. \A x : WithHeaders(WithHeaders(m, gs), x) = WithHeaders(m, x)
    <3> HIDE DEF gs
    <3> QED BY <1>2, HeadersPut
  <2>2. n = WithHeaders(m, gs)
    BY DEF Begun
  <2>3. WithHeaders(m, Append(hs, g)) = Begun(m, hs, g)
    BY DEF Begun
  <2> HIDE DEF n, gs, es, g
  <2> QED BY <1>2, <2>1, <2>2, <2>3
<1>5. \A x : [p EXCEPT !.message = x] = Reader(s, k, x)
  BY DEF Reader
<1>6. p.message = n
  BY DEF Reader
<1>7. Done(field, p, c) = AppendToLast(p, field, c)
  <2> HIDE DEF p
  <2>1. CASE field = "name"
    BY <2>1 DEF Done, Texts, Numbers
  <2>2. CASE field = "value"
    BY <2>2 DEF Done, Texts, Numbers
  <2> QED BY <2>1, <2>2 DEF Parts
<1> HIDE DEF p, n, gs
<1>8. AppendToLast(p, field, c)
        = [p EXCEPT !.message = WithHeaders(n, [gs EXCEPT ![Len(gs)] = Grown(gs[Len(gs)], field, c)])]
  BY <1>3, <1>6, AppendIs DEF Grown
<1>9. AppendToLast(p, field, c) = [p EXCEPT !.message = WithHeaders(n, es)]
  BY <1>2, <1>8
<1> HIDE DEF g, es
<1>10. Done(field, p, c) = Reader(s, k, Begun(m, hs, g))
  BY <1>4, <1>5, <1>7, <1>9
<1> QED BY <1>10 DEF p, g, n

\* A text whose symbols are all appended to that part is in it.
LEMMA TakesPart ==
  ASSUME NEW rows, NEW s0, NEW s, NEW k, NEW m \in AMessages, NEW hs \in Seq(AHeaders),
         NEW h \in AHeaders, NEW field \in Parts, NEW w \in AText,
         Taken(rows, s0, s, w, field)
  PROVE  /\ Reads(rows, Reader(s0, k, Begun(m, hs, h)), w,
                  Reader(Reached(s0, s, w), k, Begun(m, hs, Put(h, field, h[field] \o w))))
         /\ Put(h, field, h[field] \o w) \in AHeaders
<1> DEFINE t == h[field]
           x(i) == t \o SubSeq(w, 1, i)
           M(y) == Begun(m, hs, Put(h, field, y))
           ks == [i \in 0 .. Len(w) |-> k]
           ms == [i \in 0 .. Len(w) |-> M(x(i))]
<1>1. t \in AText
  BY PartTyped
<1> HIDE DEF t
<1>2. Len(w) \in Nat
  BY DEF AText
<1>3. x(0) = t /\ x(Len(w)) = t \o w /\ \A i \in 0 .. Len(w) : x(i) \in AText
  <2>1. /\ SubSeq(w, 1, 0) = <<>> /\ SubSeq(w, 1, Len(w)) = w
        /\ \A i \in 0 .. Len(w) : SubSeq(w, 1, i) \in AText
    BY PrefixFacts DEF AText
  <2>2. t \o <<>> = t /\ \A z \in AText : t \o z \in AText
    BY <1>1 DEF AText
  <2> QED BY <2>1, <2>2
<1>4. \A i \in 1 .. Len(w) : x(i) = Append(x(i - 1), w[i]) /\ w[i] \in Alphabet
  <2>1. \A i \in 1 .. Len(w) : w[i] \in Alphabet
    BY ElementOfSeq DEF AText
  <2> QED BY <1>1, <2>1, Appended DEF AText
<1> HIDE DEF x, M
<1>5. /\ ks[0] = k /\ ms[0] = M(x(0)) /\ ks[Len(w)] = k
      /\ ms[Len(w)] = M(x(Len(w)))
      /\ \A i \in 1 .. Len(w) : /\ ks[i - 1] = k /\ ms[i - 1] = M(x(i - 1))
                                /\ ks[i] = k /\ ms[i] = M(x(i))
  BY <1>2
<1> HIDE DEF ks, ms
<1>6. ASSUME NEW i \in 1 .. Len(w)
      PROVE  Done(field, Reader(s, ks[i - 1], ms[i - 1]), w[i]) = Reader(s, ks[i], ms[i])
  <2> DEFINE g == Put(h, field, x(i - 1))
  <2>1. i - 1 \in 0 .. Len(w)
    BY <1>2
  <2>2. x(i - 1) \in AText
    BY <1>3, <2>1
  <2>3. g[field] = x(i - 1) /\ g \in AHeaders /\ \A u : Put(g, field, u) = Put(h, field, u)
    BY <2>2, PutPart
  <2> HIDE DEF g
  <2>4. Grown(g, field, w[i]) = Put(h, field, x(i))
    BY <1>4, <2>3 DEF Grown
  <2>5. Done(field, Reader(s, k, Begun(m, hs, g)), w[i])
          = Reader(s, k, Begun(m, hs, Grown(g, field, w[i])))
    BY <1>4, <2>3, PartDone
  <2>6. ms[i - 1] = Begun(m, hs, g) /\ ms[i] = Begun(m, hs, Put(h, field, x(i)))
    BY <1>5 DEF M, g
  <2> QED BY <1>5, <2>4, <2>5, <2>6
<1>7. Reads(rows, Reader(s0, ks[0], ms[0]), w,
            Reader(Reached(s0, s, w), ks[Len(w)], ms[Len(w)]))
  BY <1>6, Takes
<1>8. M(t) = Begun(m, hs, h)
  BY <1>1, PutPart DEF t, M
<1>9. t \o w \in AText
  BY <1>1 DEF AText
<1>10. Put(h, field, t \o w) \in AHeaders
  BY <1>9, PutPart
<1> QED BY <1>3, <1>5, <1>7, <1>8, <1>10 DEF t, M

-----------------------------------------------------------------------------
(* A header, and the headers.                                              *)

HeaderRowsOf(rows) ==
  /\ \A c \in ASymbols("token") :
       /\ Only(rows, "HeaderLineStart", c, <<"HeaderLineStart", "token", "HeaderName", "newHeader">>)
       /\ Only(rows, "HeaderName", c, <<"HeaderName", "token", "HeaderName", "name">>)
  /\ \A c \in ASymbols("text") :
       /\ Only(rows, "HeaderValue", c, <<"HeaderValue", "text", "HeaderValue", "value">>)
       /\ c # SP => Only(rows, "HeaderLws", c, <<"HeaderLws", "visible", "HeaderValue", "value">>)
  /\ Only(rows, "HeaderName", ":", <<"HeaderName", ":", "SpaceBeforeHeaderValue", "skip">>)
  /\ Only(rows, "SpaceBeforeHeaderValue", SP, <<"SpaceBeforeHeaderValue", SP, "HeaderValue", "skip">>)
  /\ Only(rows, "HeaderLineStart", SP, <<"HeaderLineStart", "blank", "HeaderLws", "fold">>)
  /\ Only(rows, "ExpectingNewline_2", "\n", <<"ExpectingNewline_2", "\n", "HeaderLineStart", "skip">>)
  /\ Only(rows, "HeaderLineStart", "\r", <<"HeaderLineStart", "\r", "ExpectingNewline_3", "skip">>)
  /\ Only(rows, "ExpectingNewline_3", "\n",
          <<"ExpectingNewline_3", "any", "ExpectingNewline_3", "endOfHeaders">>)

\* The rows of both parsers for headers.
LEMMA HeaderRowsAre == \A rows \in Tables : HeaderRowsOf(rows)
<1>1. HeaderRowsOf(RequestRows)
  BY Classes, SymbolClasses, SpecialSymbols
     DEF ASymbols, Only, HeaderRowsOf, RequestRows, RequestLineRows, HeaderRows, BodyHeaderRows,
         BodyRows, TrailerRows
<1>2. HeaderRowsOf(ResponseRows)
  BY Classes, SymbolClasses, SpecialSymbols
     DEF ASymbols, Only, HeaderRowsOf, ResponseRows, StatusLineRows, HeaderRows, ResponseHeaderRows,
         ResponseBodyHeaderRows, BodyRows, TrailerRows, ResponseBodyRows
<1> QED BY <1>1, <1>2 DEF Tables

\* The parser minds the headers that announce a body.
Posts(m) == m.method \in {<<"POST">>, <<"PUT">>}
Heard(rows, m) == rows = ResponseRows \/ Posts(m)

\* The two parsers are told apart by their tables.
LEMMA TablesDiffer == RequestRows # ResponseRows
<1> DEFINE r == <<"RequestMethodStart", "token", "RequestMethod", "method">>
<1>1. r \in RequestRows
  BY DEF RequestRows, RequestLineRows
<1>2. \A x \in ResponseRows : x[1] # "RequestMethodStart"
  BY DEF ResponseRows, StatusLineRows, HeaderRows, ResponseHeaderRows, ResponseBodyHeaderRows,
         BodyRows, TrailerRows, ResponseBodyRows
<1> QED BY <1>1, <1>2

\* The length that a header gives; one that can be reserved.
LengthIn(h) == Truncated(Value(Signed(h.value)))
Fits(h) == strcasecmp(h.name, "Content-Length") => ~ (LengthIn(h) < 0)

\* What the end of a header's line does to the counters.
Announced(h, k) ==
  CASE strcasecmp(h.name, "Content-Length") ->
         [k EXCEPT !.contentSize = LengthIn(h) % SizeModulus]
    [] strcasecmp(h.name, "Transfer-Encoding") /\ strcasecmp(h.value, "chunked") ->
         [k EXCEPT !.chunked = TRUE]
    [] OTHER -> k

Noted(rows, m, h, k) == IF Heard(rows, m) THEN Announced(h, k) ELSE k

ACounters == [contentSize : Int, chunkSizeStr : AText, chunkSize : Int, chunked : BOOLEAN]

\* BodyHeader looks at the last header for what announces the body.
LEMMA BodyHeaderIs ==
  ASSUME NEW s, NEW k \in ACounters, NEW m \in AMessages, NEW hs \in Seq(AHeaders),
         NEW h \in AHeaders, Fits(h)
  PROVE  BodyHeader(Reader(s, k, Begun(m, hs, h))) = Reader(s, Announced(h, k), Begun(m, hs, h))
<1> DEFINE n == Begun(m, hs, h)
           gs == Append(hs, h)
           p == Reader(s, k, n)
<1>1. gs \in Seq(AHeaders) /\ gs[Len(gs)] = h
  BY LastChanged
<1>2. n.headers = gs
  <2> HIDE DEF gs
  <2> QED BY <1>1, HeadersPut DEF Begun, gs
<1>3. p.message = n
  BY DEF Reader
<1>4. \A x : /\ [p EXCEPT !.contentSize = x] = Reader(s, [k EXCEPT !.contentSize = x], n)
             /\ [p EXCEPT !.chunked = x] = Reader(s, [k EXCEPT !.chunked = x], n)
  BY DEF Reader, ACounters
<1> HIDE DEF p, n, gs
<1>5. Last(p.message.headers) = h
  BY <1>1, <1>2, <1>3 DEF Last
<1>6. BodyHeader(p) = Reader(s, Announced(h, k), n)
  <2> DEFINE x == LengthIn(h) % SizeModulus
           sized == strcasecmp(h.name, "Content-Length")
           inChunks == strcasecmp(h.name, "Transfer-Encoding") /\ strcasecmp(h.value, "chunked")
           p1 == [p EXCEPT !.contentSize = x]
           k1 == [k EXCEPT !.contentSize = x]
           p2 == [p EXCEPT !.chunked = TRUE]
           k2 == [k EXCEPT !.chunked = TRUE]
  <2>1. BodyHeader(p) = CASE sized -> p1 [] inChunks -> p2 [] OTHER -> p
    <3>1. sized => ~ (LengthIn(h) < 0)
      BY DEF Fits
    <3>2. BodyHeader(p) = CASE sized -> (IF LengthIn(h) < 0 THEN Throws(p) ELSE p1)
                            [] inChunks -> p2 [] OTHER -> p
      BY <1>5 DEF BodyHeader, LengthIn
    <3> HIDE DEF sized, inChunks, p1, p2
    <3> QED BY <3>1, <3>2
  <2>2. Announced(h, k) = CASE sized -> k1 [] inChunks -> k2 [] OTHER -> k
    BY DEF Announced
  <2>3. p1 = Reader(s, k1, n) /\ p2 = Reader(s, k2, n) /\ p = Reader(s, k, n)
    BY <1>4 DEF p
  <2>4. ~ (sized /\ inChunks)
    <3>1. OtherCase("Content-Length") = "content-length"
          /\ OtherCase("Transfer-Encoding") = "transfer-encoding"
      BY DEF OtherCase
    <3> QED BY <3>1 DEF strcasecmp
  <2> HIDE DEF sized, inChunks, p1, p2, k1, k2
  <2>5. CASE sized
    BY <2>1, <2>2, <2>3, <2>4, <2>5
  <2>6. CASE inChunks
    BY <2>1, <2>2, <2>3, <2>4, <2>6
  <2>7. CASE ~ sized /\ ~ inChunks
    BY <2>1, <2>2, <2>3, <2>7
  <2> QED BY <2>5, <2>6, <2>7
<1> QED BY <1>6 DEF p, n

\* The end of a header's line, where the parsers look at it.
LEMMA HeaderEnds ==
  ASSUME NEW rows \in Tables, NEW k \in ACounters, NEW m \in AMessages, NEW hs \in Seq(AHeaders),
         NEW h \in AHeaders, ~ Heard(rows, m) \/ Fits(h)
  PROVE  Reads(rows, Reader("HeaderValue", k, Begun(m, hs, h)), CRLF,
               Reader("HeaderLineStart", Noted(rows, m, h, k), Begun(m, hs, h)))
<1> DEFINE n == Begun(m, hs, h)
           p == Reader("ExpectingNewline_2", k, n)
           q == Reader("ExpectingNewline_2", Noted(rows, m, h, k), n)
<1>1. Heard(rows, m) => BodyHeader(p) = Reader("ExpectingNewline_2", Announced(h, k), n)
  BY BodyHeaderIs
<1>2. n.method = m.method
  BY HeadersPut, AppendProperties DEF Begun
<1>3. Reads(rows, Reader("HeaderValue", k, n), <<"\r">>, q)
  <2>1. CASE rows = RequestRows
    <3> DEFINE r == <<"HeaderValue", "\r", "ExpectingNewline_2", "bodyHeaderOfPost">>
    <3>1. Only(RequestRows, "HeaderValue", "\r", r)
      BY Classes, SymbolClasses, SpecialSymbols
         DEF Only, RequestRows, RequestLineRows, HeaderRows, BodyHeaderRows, BodyRows, TrailerRows
    <3>2. p.message.method = m.method
      BY <1>2 DEF Reader
    <3>3. Done("bodyHeaderOfPost", p, "\r") = IF Posts(m) THEN BodyHeader(p) ELSE p
      <4> HIDE DEF p
      <4> QED BY <3>2 DEF Done, Texts, Numbers, Posts
    <3>4. q = Done("bodyHeaderOfPost", p, "\r")
      <4> HIDE DEF n
      <4> QED BY <1>1, <2>1, <3>3, TablesDiffer DEF Noted, Heard
    <3> HIDE DEF n
    <3> QED BY <2>1, <3>1, <3>4, ReadsByRow, ReaderReady, SymbolsTyped
  <2>2. CASE rows = ResponseRows
    <3> DEFINE r == <<"HeaderValue", "\r", "ExpectingNewline_2", "bodyHeader">>
    <3>1. Only(ResponseRows, "HeaderValue", "\r", r)
      BY Classes, SymbolClasses, SpecialSymbols
         DEF Only, ResponseRows, StatusLineRows, HeaderRows, ResponseHeaderRows,
             ResponseBodyHeaderRows, BodyRows, TrailerRows, ResponseBodyRows
    <3>3. Done("bodyHeader", p, "\r") = BodyHeader(p)
      <4> HIDE DEF p
      <4> QED BY DEF Done, Texts, Numbers
    <3>4. q = Done("bodyHeader", p, "\r")
      <4> HIDE DEF n
      <4> QED BY <1>1, <2>2, <3>3 DEF Noted, Heard
    <3> HIDE DEF n
    <3> QED BY <2>2, <3>1, <3>4, ReadsByRow, ReaderReady, SymbolsTyped
  <2> QED BY <2>1, <2>2 DEF Tables
<1>4. Reads(rows, q, <<"\n">>, Reader("HeaderLineStart", Noted(rows, m, h, k), n))
  <2> HIDE DEF n
  <2> QED BY HeaderRowsAre, Skips, SymbolsTyped DEF HeaderRowsOf
<1> HIDE DEF n, q
<1>5. Reads(rows, Reader("HeaderValue", k, n), CRLF, Reader("HeaderLineStart", Noted(rows, m, h, k), n))
  BY <1>3, <1>4, ReadsTwo DEF CRLF
<1> QED BY <1>5 DEF n

\* A text, as its first symbol and the others.
LEMMA FirstAndOthers ==
  ASSUME NEW A, NEW w \in Seq(A), w # <<>>
  PROVE  \E c \in A : \E u \in Seq(A) : w = <<c>> \o u /\ c = w[1]
<1>1. Len(w) \in Nat /\ Len(w) # 0
  BY EmptySeq, LenProperties
<1>2. w[1] \in A
  BY <1>1, ElementOfSeq
<1>3. Tail(w) \in Seq(A) /\ Tail(w) = SubSeq(w, 2, Len(w))
  BY HeadTailProperties, TailIsSubSeq
<1>4. SubSeq(w, 1, Len(w)) = <<w[1]>> \o SubSeq(w, 1 + 1, Len(w))
  <2>1. 1 \in 1 .. Len(w) /\ Len(w) \in 1 .. Len(w)
    BY <1>1
  <2> QED BY <2>1, SubSeqRecursiveFirst
<1>5. SubSeq(w, 1, Len(w)) = w /\ 1 + 1 = 2
  BY PrefixFacts
<1>6. w = <<w[1]>> \o Tail(w)
  BY <1>3, <1>4, <1>5
<1> QED BY <1>2, <1>3, <1>6

\* The parts of a header, set.
LEMMA FieldPut ==
  ASSUME NEW n, NEW v, NEW x
  PROVE  /\ Put(Field(n, v), "name", x) = Field(x, v)
         /\ Put(Field(n, v), "value", x) = Field(n, x)
         /\ Field(n, v).name = n /\ Field(n, v).value = v
<1>1. Put(Field(n, v), "name", x) = Field(x, v)
  BY DEF Field, Put
<1>2. Put(Field(n, v), "value", x) = Field(n, x)
  BY DEF Field, Put
<1>3. Field(n, v).name = n /\ Field(n, v).value = v
  BY DEF Field
<1> QED BY <1>1, <1>2, <1>3

\* What a name may hold, a value may.
LEMMA TokensAreText == ASymbols("token") \subseteq ASymbols("text")
BY Classes DEF ASymbols

\* A name, from the beginning of a line.
LEMMA NameReads ==
  ASSUME NEW rows \in Tables, NEW k, NEW m \in AMessages, NEW hs \in Seq(AHeaders),
         NEW w \in AWords("token")
  PROVE  /\ Reads(rows, Reader("HeaderLineStart", k, WithHeaders(m, hs)), w,
                  Reader("HeaderName", k, Begun(m, hs, Field(w, <<>>))))
         /\ Field(w, <<>>) \in AHeaders
<1> DEFINE S == ASymbols("token")
           h(n) == Field(n, <<>>)
           p == Reader("HeaderName", k, WithHeaders(m, hs))
<1>1. PICK c \in S : \E u \in Seq(S) : w = <<c>> \o u
  <2>1. w \in Seq(S) /\ w # <<>>
    BY DEF AWords
  <2> HIDE DEF S
  <2> QED BY <2>1, FirstAndOthers
<1>2. PICK u \in Seq(S) : w = <<c>> \o u
  BY <1>1
<1>3. c \in Alphabet /\ <<c>> \in AText /\ u \in AText /\ <<>> \in AText
  BY Written DEF ASymbols, Alphabet, AText
<1>4. h(<<c>>) \in AHeaders
  BY <1>3, FieldTyped
<1>5. Reads(rows, Reader("HeaderLineStart", k, WithHeaders(m, hs)), <<c>>,
            Reader("HeaderName", k, Begun(m, hs, h(<<c>>))))
  <2>1. Done("newHeader", p, c)
          = [p EXCEPT !.message.headers = Append(@, [name |-> <<c>>, value |-> <<>>])]
    <3> HIDE DEF p
    <3> QED BY DEF Done, Texts, Numbers
  <2>2. p.message = WithHeaders(m, hs) /\ p.message.headers = hs
    BY HeadersPut DEF Reader
  <2>3. \A x : [p EXCEPT !.message.headers = x] = Reader("HeaderName", k, WithHeaders(m, x))
    <3>1. \A y : [p EXCEPT !.message = y] = Reader("HeaderName", k, y)
      BY DEF Reader
    <3>2. \A x : WithHeaders(WithHeaders(m, hs), x) = WithHeaders(m, x)
      BY HeadersPut
    <3> HIDE DEF p
    <3> QED BY <2>2, <3>1, <3>2 DEF WithHeaders
  <2>4. Done("newHeader", p, c) = Reader("HeaderName", k, Begun(m, hs, h(<<c>>)))
    <3> HIDE DEF p
    <3> QED BY <2>1, <2>2, <2>3 DEF Begun, Field
  <2>5. Only(rows, "HeaderLineStart", c, <<"HeaderLineStart", "token", "HeaderName", "newHeader">>)
    BY HeaderRowsAre DEF HeaderRowsOf
  <2> HIDE DEF h
  <2> QED BY <1>3, <2>4, <2>5, ReadsByRow, ReaderReady
<1>6. Taken(rows, "HeaderName", "HeaderName", u, "name")
  BY HeaderRowsAre, TakenIs DEF HeaderRowsOf
<1>7. Reached("HeaderName", "HeaderName", u) = "HeaderName"
  BY DEF Reached
<1>8. Put(h(<<c>>), "name", h(<<c>>)["name"] \o u) = h(w)
  BY <1>2, FieldPut
<1> HIDE DEF h
<1>9. /\ Reads(rows, Reader("HeaderName", k, Begun(m, hs, h(<<c>>))), u,
               Reader("HeaderName", k, Begun(m, hs, h(w))))
      /\ h(w) \in AHeaders
  <2>1. "name" \in Parts
    BY DEF Parts
  <2> QED BY <1>3, <1>4, <1>6, <1>7, <1>8, <2>1, TakesPart
<1>10. Reads(rows, Reader("HeaderLineStart", k, WithHeaders(m, hs)), <<c>> \o u,
             Reader("HeaderName", k, Begun(m, hs, h(w))))
  BY <1>5, <1>9, ReadsBoth
<1> QED BY <1>2, <1>9, <1>10 DEF h

\* A header up to its folds.
LEMMA ValueReads ==
  ASSUME NEW rows \in Tables, NEW k, NEW m \in AMessages, NEW hs \in Seq(AHeaders),
         NEW w \in AWords("token"), NEW v \in Seq(ASymbols("text"))
  PROVE  /\ Reads(rows, Reader("HeaderLineStart", k, WithHeaders(m, hs)), w \o <<":", SP>> \o v,
                  Reader("HeaderValue", k, Begun(m, hs, Field(w, v))))
         /\ Field(w, v) \in AHeaders
<1> DEFINE g == Field(w, <<>>)
           n == Begun(m, hs, g)
<1>1. /\ Reads(rows, Reader("HeaderLineStart", k, WithHeaders(m, hs)), w, Reader("HeaderName", k, n))
      /\ g \in AHeaders
  BY NameReads
<1>2. Reads(rows, Reader("HeaderName", k, n), <<":", SP>>, Reader("HeaderValue", k, n))
  <2> HIDE DEF n
  <2>1. /\ Reads(rows, Reader("HeaderName", k, n), <<":">>, Reader("SpaceBeforeHeaderValue", k, n))
        /\ Reads(rows, Reader("SpaceBeforeHeaderValue", k, n), <<SP>>, Reader("HeaderValue", k, n))
    <3>1. /\ Only(rows, "HeaderName", ":", <<"HeaderName", ":", "SpaceBeforeHeaderValue", "skip">>)
          /\ Only(rows, "SpaceBeforeHeaderValue", SP,
                  <<"SpaceBeforeHeaderValue", SP, "HeaderValue", "skip">>)
      BY HeaderRowsAre DEF HeaderRowsOf
    <3>2. Reads(rows, Reader("HeaderName", k, n), <<":">>, Reader("SpaceBeforeHeaderValue", k, n))
      BY <3>1, Skips, SymbolsTyped
    <3>3. Reads(rows, Reader("SpaceBeforeHeaderValue", k, n), <<SP>>, Reader("HeaderValue", k, n))
      BY <3>1, Skips, SymbolsTyped
    <3> QED BY <3>2, <3>3
  <2> QED BY <2>1, ReadsTwo
<1>3. v \in AText
  BY Written
<1>4. Taken(rows, "HeaderValue", "HeaderValue", v, "value")
  BY HeaderRowsAre, TakenIs DEF HeaderRowsOf
<1>5. Reached("HeaderValue", "HeaderValue", v) = "HeaderValue"
  BY DEF Reached
<1>6. Put(g, "value", g["value"] \o v) = Field(w, v)
  <2>1. <<>> \o v = v
    BY <1>3 DEF AText
  <2>2. g["value"] = <<>> /\ \A x : Put(g, "value", x) = Field(w, x)
    BY FieldPut
  <2> HIDE DEF g
  <2> QED BY <2>1, <2>2
<1>7. "value" \in Parts
  BY DEF Parts
<1> HIDE DEF g
<1>8. /\ Reads(rows, Reader("HeaderValue", k, n), v, Reader("HeaderValue", k, Begun(m, hs, Field(w, v))))
      /\ Field(w, v) \in AHeaders
  BY <1>1, <1>3, <1>4, <1>5, <1>6, <1>7, TakesPart
<1> HIDE DEF n
<1>9. Reads(rows, Reader("HeaderLineStart", k, WithHeaders(m, hs)), w \o <<":", SP>> \o v,
            Reader("HeaderValue", k, Begun(m, hs, Field(w, v))))
  BY <1>1, <1>2, <1>8, ReadsBoth
<1> QED BY <1>8, <1>9

\* The ends of lines and the space are texts.
LEMMA CRLFText == CRLF \in AText /\ <<SP>> \in AText
<1>1. \A c, d \in Alphabet : <<c, d>> \in AText /\ <<c>> \in AText
  BY DEF AText
<1> QED BY <1>1, SymbolsTyped DEF CRLF

\* Two texts, one after the other, are a text.
LEMMA Joined == \A u, v \in AText : u \o v \in AText
BY ConcatProperties DEF AText

\* A value that goes on in the next line is read, unless what it is noted for changes.
LEMMA FoldReads ==
  ASSUME NEW rows \in Tables, NEW k \in ACounters, NEW m \in AMessages, NEW hs \in Seq(AHeaders),
         NEW g \in AHeaders, Noted(rows, m, g, k) = k, ~ Heard(rows, m) \/ Fits(g),
         NEW line \in AWords("text"), line[1] # SP
  PROVE  /\ Reads(rows, Reader("HeaderValue", k, Begun(m, hs, g)), RenderFold(line),
                  Reader("HeaderValue", k, Begun(m, hs, Put(g, "value", g["value"] \o line))))
         /\ Put(g, "value", g["value"] \o line) \in AHeaders
<1> DEFINE n == Begun(m, hs, g)
           h == Put(g, "value", g["value"] \o line)
<1>1. Reads(rows, Reader("HeaderValue", k, n), CRLF, Reader("HeaderLineStart", k, n))
  BY HeaderEnds
<1>2. n.headers # <<>>
  <2> DEFINE gs == Append(hs, g)
  <2>1. gs \in Seq(AHeaders) /\ Len(gs) # 0
    BY AppendProperties, LenProperties
  <2> HIDE DEF gs
  <2>2. n.headers = gs
    BY <2>1, HeadersPut DEF Begun, gs
  <2> HIDE DEF n
  <2> QED BY <2>1, <2>2, EmptySeq
<1>3. Reads(rows, Reader("HeaderLineStart", k, n), <<SP>>, Reader("HeaderLws", k, n))
  <2> DEFINE p == Reader("HeaderLws", k, n)
  <2>1. p.message = n
    BY DEF Reader
  <2>2. Done("fold", p, SP) = p
    <3> HIDE DEF p, n
    <3> QED BY <1>2, <2>1 DEF Done, Texts, Numbers
  <2>3. Only(rows, "HeaderLineStart", SP, <<"HeaderLineStart", "blank", "HeaderLws", "fold">>)
    BY HeaderRowsAre DEF HeaderRowsOf
  <2> HIDE DEF n
  <2> QED BY <2>2, <2>3, ReadsByRow, ReaderReady, SymbolsTyped
<1>4. line \in AText /\ Len(line) # 0 /\ \A i \in 1 .. Len(line) : line[i] \in ASymbols("text")
  <2>1. line \in Seq(ASymbols("text"))
    BY WordsAreTexts
  <2> QED BY <2>1, Written, ElementOfSeq
<1>5. Taken(rows, "HeaderLws", "HeaderValue", line, "value")
  <2>1. \A c \in ASymbols("text") :
          /\ Only(rows, "HeaderValue", c, <<"HeaderValue", "text", "HeaderValue", "value">>)
          /\ c # SP => Only(rows, "HeaderLws", c, <<"HeaderLws", "visible", "HeaderValue", "value">>)
    BY HeaderRowsAre DEF HeaderRowsOf
  <2> QED BY <1>4, <2>1 DEF Taken
<1>6. Reached("HeaderLws", "HeaderValue", line) = "HeaderValue"
  BY <1>4 DEF Reached
<1>7. "value" \in Parts
  BY DEF Parts
<1>8. Reads(rows, Reader("HeaderLws", k, n), line, Reader("HeaderValue", k, Begun(m, hs, h))) /\ h \in AHeaders
  BY <1>4, <1>5, <1>6, <1>7, TakesPart
<1> HIDE DEF n, h
<1>9. Reads(rows, Reader("HeaderValue", k, n), CRLF \o <<SP>> \o line, Reader("HeaderValue", k, Begun(m, hs, h)))
  BY <1>1, <1>3, <1>8, ReadsBoth
<1> QED BY <1>8, <1>9 DEF RenderFold, n, h

\* Texts may be put together in any order.
LEMMA ConcatAssociates == \A s, t, u \in AText : s \o (t \o u) = (s \o t) \o u
BY DEF AText

AWrittenHeaders ==
  {h \in [name : AWords("token"), value : Seq(ASymbols("text")), folds : Seq(AWords("text"))] :
     \A i \in DOMAIN h.folds : h.folds[i][1] # SP}

\* A value that goes on over any number of lines is read.
LEMMA FoldsRead ==
  ASSUME NEW rows \in Tables, NEW k \in ACounters, NEW m \in AMessages, NEW hs \in Seq(AHeaders),
         NEW h \in AWrittenHeaders,
         \/ h.folds = <<>>
         \/ \A v : /\ Noted(rows, m, Field(h.name, v), k) = k
                   /\ ~ Heard(rows, m) \/ Fits(Field(h.name, v))
  PROVE  /\ Reads(rows, Reader("HeaderValue", k, Begun(m, hs, Field(h.name, h.value))),
                  Concat([i \in DOMAIN h.folds |-> RenderFold(h.folds[i])]),
                  Reader("HeaderValue", k, Begun(m, hs, Field(h.name, ValueOf(h)))))
         /\ Field(h.name, ValueOf(h)) \in AHeaders
<1> DEFINE S == ASymbols("text")
           folds == h.folds
           ss == [i \in DOMAIN folds |-> RenderFold(folds[i])]
           P(v) == Reader("HeaderValue", k, Begun(m, hs, Field(h.name, v)))
<1>1. /\ h.name \in AWords("token") /\ h.value \in Seq(S) /\ folds \in Seq(AWords("text"))
      /\ \A i \in DOMAIN folds : folds[i][1] # SP
  BY DEF AWrittenHeaders
<1>2. /\ h.name \in AText /\ h.value \in AText /\ \A v \in Seq(S) : v \in AText
      /\ \A v \in AWords("text") : v \in AText
  BY <1>1, Written, WordsAreTexts
<1>3. Len(folds) \in Nat /\ DOMAIN folds = 1 .. Len(folds)
  BY <1>1, LenProperties
<1>4. \A i \in 1 .. Len(folds) : folds[i] \in AWords("text") /\ folds[i] \in AText /\ folds[i][1] # SP
  BY <1>1, <1>2, <1>3, ElementOfSeq
<1> HIDE DEF folds, S
<1>5. folds \in Seq(AText)
  BY <1>1, <1>4, SeqNarrowed
<1>6. PICK f \in [0 .. Len(folds) -> AText] : ConcatSteps(folds, f)
  BY <1>5, ConcatIs DEF AText
<1>7. \A i \in 1 .. Len(folds) : /\ RenderFold(folds[i]) \in AText
                                 /\ f[i] = f[i - 1] \o folds[i] /\ f[i - 1] \in AText
  <2>1. \A i \in 1 .. Len(folds) : i - 1 \in 0 .. Len(folds)
    BY <1>3
  <2>2. \A i \in 1 .. Len(folds) : RenderFold(folds[i]) \in AText
    BY <1>4, CRLFText, Joined DEF RenderFold
  <2>3. \A i \in 1 .. Len(folds) : f[i] = f[i - 1] \o folds[i]
    BY <1>6 DEF ConcatSteps
  <2> QED BY <1>6, <2>1, <2>2, <2>3
<1>8. ss \in Seq(AText) /\ Len(ss) = Len(folds) /\ \A i \in 1 .. Len(folds) : ss[i] = RenderFold(folds[i])
  <2> DEFINE R(i) == RenderFold(folds[i])
             rs == [i \in 1 .. Len(folds) |-> R(i)]
  <2>1. \A i \in 1 .. Len(folds) : R(i) \in AText
    BY <1>7
  <2> HIDE DEF R
  <2>2. rs \in Seq(AText) /\ Len(rs) = Len(folds) /\ \A i \in 1 .. Len(folds) : rs[i] = R(i)
    BY <1>3, <2>1
  <2>3. ss = rs
    BY <1>3 DEF R
  <2> HIDE DEF rs, ss
  <2> QED BY <2>2, <2>3 DEF R
<1> HIDE DEF ss
<1> DEFINE x(i) == h.value \o f[i]
           g == [i \in 0 .. Len(folds) |-> P(x(i))]
<1>9. /\ g[0] = P(x(0)) /\ g[Len(folds)] = P(x(Len(folds)))
      /\ \A i \in 1 .. Len(folds) : g[i] = P(x(i)) /\ g[i - 1] = P(x(i - 1))
  <2> HIDE DEF P, x
  <2> QED BY <1>3
<1>10. x(0) = h.value /\ x(Len(folds)) = ValueOf(h) /\ x(Len(folds)) \in AText
  <2>1. f[0] = <<>> /\ f[Len(folds)] = Concat(folds) /\ f[Len(folds)] \in AText
    BY <1>3, <1>6 DEF ConcatSteps
  <2>2. h.value \o <<>> = h.value
    BY <1>2 DEF AText
  <2>3. h.value \o f[Len(folds)] \in AText
    BY <1>2, <2>1, Joined
  <2> QED BY <2>1, <2>2, <2>3 DEF ValueOf, folds
<1>11. \A i \in 1 .. Len(folds) : x(i) = x(i - 1) \o folds[i] /\ x(i - 1) \in AText
  <2> SUFFICES ASSUME NEW i \in 1 .. Len(folds) PROVE x(i) = x(i - 1) \o folds[i] /\ x(i - 1) \in AText
    OBVIOUS
  <2> DEFINE y == f[i - 1]
  <2>1. y \in AText /\ f[i] = y \o folds[i] /\ folds[i] \in AText
    BY <1>4, <1>7
  <2> HIDE DEF y
  <2>2. h.value \o (y \o folds[i]) = (h.value \o y) \o folds[i]
    BY <1>2, <2>1, ConcatAssociates
  <2>3. h.value \o y \in AText
    BY <1>2, <2>1, Joined
  <2> QED BY <2>1, <2>2, <2>3 DEF y
<1> HIDE DEF g, x
<1>12. ASSUME NEW i \in 1 .. Len(ss)
       PROVE  Reads(rows, g[i - 1], ss[i], g[i])
  <2> DEFINE v == x(i - 1)
             e == Field(h.name, v)
             line == folds[i]
  <2>1. /\ i \in 1 .. Len(folds) /\ line \in AWords("text") /\ line[1] # SP /\ v \in AText
        /\ ss[i] = RenderFold(line) /\ x(i) = v \o line /\ g[i] = P(x(i)) /\ g[i - 1] = P(v)
    BY <1>4, <1>8, <1>9, <1>11
  <2>2. folds # <<>>
    BY <1>8, EmptySeq
  <2>3. Noted(rows, m, e, k) = k /\ (~ Heard(rows, m) \/ Fits(e))
    BY <2>2 DEF folds
  <2>4. e \in AHeaders /\ Put(e, "value", e["value"] \o line) = Field(h.name, v \o line)
    BY <1>2, <2>1, FieldTyped, FieldPut
  <2> HIDE DEF e, line, v
  <2>5. Reads(rows, Reader("HeaderValue", k, Begun(m, hs, e)), RenderFold(line),
              Reader("HeaderValue", k, Begun(m, hs, Field(h.name, v \o line))))
    BY <2>1, <2>3, <2>4, FoldReads
  <2> QED BY <2>1, <2>5 DEF e
<1>13. Reads(rows, g[0], Concat(ss), g[Len(ss)])
  BY <1>8, <1>12, ReadsParts
<1>14. Field(h.name, ValueOf(h)) \in AHeaders
  BY <1>2, <1>10, FieldTyped
<1> QED BY <1>8, <1>9, <1>10, <1>13, <1>14 DEF ss, folds

AsRead(h) == Field(h.name, ValueOf(h))

\* A header that the parser reads, wherever its lines end.
Readable(rows, m, h) ==
  \/ ~ Heard(rows, m)
  \/ ~ AnnouncesABody(h)
  \/ h.folds = <<>> /\ Fits(AsRead(h))

\* A header is read, and noted if it announces the body.
LEMMA HeaderReads ==
  ASSUME NEW rows \in Tables, NEW k \in ACounters, NEW m \in AMessages, NEW hs \in Seq(AHeaders),
         NEW h \in AWrittenHeaders, Readable(rows, m, h)
  PROVE  /\ Reads(rows, Reader("HeaderLineStart", k, WithHeaders(m, hs)), RenderHeader(h),
                  Reader("HeaderLineStart", Noted(rows, m, AsRead(h), k),
                         WithHeaders(m, Append(hs, AsRead(h)))))
         /\ AsRead(h) \in AHeaders
<1> DEFINE e == Field(h.name, h.value)
           g == AsRead(h)
           folds == Concat([i \in DOMAIN h.folds |-> RenderFold(h.folds[i])])
<1>1. h.name \in AWords("token") /\ h.value \in Seq(ASymbols("text"))
  BY DEF AWrittenHeaders
<1>2. Reads(rows, Reader("HeaderLineStart", k, WithHeaders(m, hs)), h.name \o <<":", SP>> \o h.value,
            Reader("HeaderValue", k, Begun(m, hs, e)))
  BY <1>1, ValueReads
<1>3. \/ h.folds = <<>>
      \/ \A v : /\ Noted(rows, m, Field(h.name, v), k) = k
                /\ ~ Heard(rows, m) \/ Fits(Field(h.name, v))
  <2>1. ASSUME ~ AnnouncesABody(h), NEW v
        PROVE  Noted(rows, m, Field(h.name, v), k) = k /\ Fits(Field(h.name, v))
    <3> DEFINE x == Field(h.name, v)
    <3>1. x.name = h.name
      BY FieldPut
    <3> HIDE DEF x
    <3>2. ~ strcasecmp(x.name, "Content-Length") /\ ~ strcasecmp(x.name, "Transfer-Encoding")
      BY <2>1, <3>1 DEF AnnouncesABody, Named
    <3>3. Announced(x, k) = k /\ Fits(x)
      BY <3>2 DEF Announced, Fits
    <3> QED BY <3>3 DEF Noted, x
  <2>2. ASSUME ~ Heard(rows, m), NEW v PROVE Noted(rows, m, Field(h.name, v), k) = k
    BY <2>2 DEF Noted
  <2> QED BY <2>1, <2>2 DEF Readable
<1>4. /\ Reads(rows, Reader("HeaderValue", k, Begun(m, hs, e)), folds, Reader("HeaderValue", k, Begun(m, hs, g)))
      /\ g \in AHeaders
  BY <1>3, FoldsRead DEF AsRead
<1>7. ~ Heard(rows, m) \/ Fits(g)
  <2>1. g.name = h.name
    BY FieldPut DEF AsRead
  <2> HIDE DEF g
  <2>2. ~ AnnouncesABody(h) => Fits(g)
    BY <2>1 DEF Fits, AnnouncesABody, Named
  <2> QED BY <2>2 DEF Readable, g
<1>5. Reads(rows, Reader("HeaderValue", k, Begun(m, hs, g)), CRLF,
            Reader("HeaderLineStart", Noted(rows, m, g, k), Begun(m, hs, g)))
  BY <1>4, <1>7, HeaderEnds
<1> HIDE DEF e, g, folds
<1>6. Reads(rows, Reader("HeaderLineStart", k, WithHeaders(m, hs)),
            h.name \o <<":", SP>> \o h.value \o folds \o CRLF,
            Reader("HeaderLineStart", Noted(rows, m, g, k), Begun(m, hs, g)))
  BY <1>2, <1>4, <1>5, ReadsBoth
<1> QED BY <1>4, <1>6 DEF RenderHeader, Begun, g, folds

\* No texts together are the empty text.
LEMMA ConcatEmpty == Concat(<<>>) = <<>>
<1> DEFINE ss == <<>>
<1>1. ss \in Seq(AText) /\ Len(ss) = 0
  OBVIOUS
<1> HIDE DEF ss
<1>2. PICK f : ConcatSteps(ss, f)
  BY <1>1, ConcatIs DEF AText
<1>3. Concat(ss) = <<>>
  BY <1>1, <1>2 DEF ConcatSteps
<1> QED BY <1>3 DEF ss

AllRead(list) == [i \in DOMAIN list |-> AsRead(list[i])]

\* Any number of headers are read, one by one.
LEMMA HeadersRead ==
  ASSUME NEW rows \in Tables, NEW m \in AMessages, m.headers = <<>>,
         NEW list \in Seq(AWrittenHeaders), NEW ks,
         \A i \in 1 .. Len(list) : /\ Readable(rows, m, list[i]) /\ ks[i - 1] \in ACounters
                                   /\ ks[i] = Noted(rows, m, AsRead(list[i]), ks[i - 1])
  PROVE  /\ Reads(rows, Reader("HeaderLineStart", ks[0], m), RenderHeaders(list),
                  Reader("HeaderLineStart", ks[Len(list)], WithHeaders(m, AllRead(list))))
         /\ AllRead(list) \in Seq(AHeaders)
<1> DEFINE n == Len(list)
           R(i) == AsRead(list[i])
           T(i) == RenderHeader(list[i])
           all == [i \in 1 .. n |-> R(i)]
           ss == [i \in 1 .. n |-> T(i)]
           x(i) == SubSeq(all, 1, i)
           P(i) == Reader("HeaderLineStart", ks[i], WithHeaders(m, x(i)))
           g == [i \in 0 .. n |-> P(i)]
<1>1. n \in Nat /\ DOMAIN list = 1 .. n /\ \A i \in 1 .. n : list[i] \in AWrittenHeaders
  BY LenProperties, ElementOfSeq
<1>2. \A i \in 1 .. n : \A hs \in Seq(AHeaders) :
        /\ Reads(rows, Reader("HeaderLineStart", ks[i - 1], WithHeaders(m, hs)), T(i),
                 Reader("HeaderLineStart", ks[i], WithHeaders(m, Append(hs, R(i)))))
        /\ R(i) \in AHeaders /\ T(i) \in AText
  <2> SUFFICES ASSUME NEW i \in 1 .. n, NEW hs \in Seq(AHeaders)
               PROVE  /\ Reads(rows, Reader("HeaderLineStart", ks[i - 1], WithHeaders(m, hs)), T(i),
                               Reader("HeaderLineStart", ks[i], WithHeaders(m, Append(hs, R(i)))))
                      /\ R(i) \in AHeaders /\ T(i) \in AText
    OBVIOUS
  <2> DEFINE h == list[i]
             k == ks[i - 1]
  <2>1. h \in AWrittenHeaders /\ k \in ACounters /\ ks[i] = Noted(rows, m, AsRead(h), k)
        /\ Readable(rows, m, h)
    BY <1>1
  <2> HIDE DEF h, k
  <2>2. /\ Reads(rows, Reader("HeaderLineStart", k, WithHeaders(m, hs)), RenderHeader(h),
                 Reader("HeaderLineStart", Noted(rows, m, AsRead(h), k), WithHeaders(m, Append(hs, AsRead(h)))))
        /\ AsRead(h) \in AHeaders
    BY <2>1, HeaderReads
  <2>3. RenderHeader(h) \in AText
    BY <2>2 DEF Reads
  <2> QED BY <2>1, <2>2, <2>3 DEF h, k
<1>3. \A i \in 1 .. n : R(i) \in AHeaders /\ T(i) \in AText
  <2>1. <<>> \in Seq(AHeaders)
    OBVIOUS
  <2> QED BY <1>2, <2>1
<1>4. all = AllRead(list) /\ RenderHeaders(list) = Concat(ss)
  BY <1>1 DEF AllRead, RenderHeaders
<1> HIDE DEF R, T, n
<1>5. all \in Seq(AHeaders) /\ Len(all) = n /\ \A i \in 1 .. n : all[i] = R(i)
  BY <1>1, <1>3
<1>6. ss \in Seq(AText) /\ Len(ss) = n /\ \A i \in 1 .. n : ss[i] = T(i)
  BY <1>1, <1>3
<1> HIDE DEF all, ss
<1>7. /\ x(0) = <<>> /\ x(n) = all
      /\ \A i \in 1 .. n : x(i) = Append(x(i - 1), R(i)) /\ x(i - 1) \in Seq(AHeaders)
  <2>1. /\ SubSeq(all, 1, 0) = <<>> /\ SubSeq(all, 1, Len(all)) = all
        /\ \A i \in 1 .. Len(all) : SubSeq(all, 1, i) = Append(SubSeq(all, 1, i - 1), all[i])
        /\ \A i \in 0 .. Len(all) : SubSeq(all, 1, i) \in Seq(AHeaders)
    BY <1>5, PrefixFacts
  <2>2. \A i \in 1 .. n : i - 1 \in 0 .. n
    BY <1>1
  <2> QED BY <1>5, <2>1, <2>2
<1> HIDE DEF x
<1>8. g[0] = P(0) /\ g[n] = P(n) /\ \A i \in 1 .. n : g[i] = P(i) /\ g[i - 1] = P(i - 1)
  <2> HIDE DEF P
  <2> QED BY <1>1
<1> HIDE DEF g
<1>9. \A i \in 1 .. Len(ss) : Reads(rows, g[i - 1], ss[i], g[i])
  BY <1>2, <1>6, <1>7, <1>8
<1>10. Reads(rows, g[0], Concat(ss), g[Len(ss)])
  BY <1>6, <1>9, ReadsParts
<1>11. WithHeaders(m, <<>>) = m
  <2>1. m.headers \in Seq(AHeaders)
    BY DEF AMessages
  <2>2. WithHeaders(m, m.headers) = m
    BY <2>1, HeadersPut
  <2> QED BY <2>2
<1> QED BY <1>4, <1>5, <1>6, <1>7, <1>8, <1>10, <1>11 DEF n

\* The counters at the end of the headers.
Measured(body) ==
  CASE body.kind = "none"    -> AtFirst
    [] body.kind = "sized"   -> Counters(atoi(body.size) % SizeModulus, <<>>, 0, FALSE)
    [] body.kind = "chunked" -> Counters(0, <<>>, 0, TRUE)

\* The counters of a new parser are counters.
LEMMA AtFirstTyped == AtFirst \in ACounters
<1>1. <<>> \in AText
  BY DEF AText
<1> QED BY <1>1 DEF AtFirst, Counters, ACounters

\* The header that announces a body is a header.
LEMMA HeaderOfTyped ==
  ASSUME NEW name \in ASymbols("token"), NEW v \in Seq(ASymbols("text"))
  PROVE  /\ HeaderOf(name, v) \in AWrittenHeaders /\ HeaderOf(name, v).folds = <<>>
         /\ AsRead(HeaderOf(name, v)) = Field(<<name>>, v)
<1> DEFINE h == HeaderOf(name, v)
<1>1. <<name>> \in AWords("token")
  <2>1. <<name>> \in Seq(ASymbols("token")) /\ <<name>> # <<>>
    OBVIOUS
  <2> QED BY <2>1 DEF AWords
<1>2. <<>> \in Seq(AWords("text")) /\ DOMAIN <<>> = {}
  OBVIOUS
<1>3. h.name = <<name>> /\ h.value = v /\ h.folds = <<>>
  BY DEF HeaderOf
<1>4. h \in AWrittenHeaders
  BY <1>1, <1>2, <1>3 DEF AWrittenHeaders, HeaderOf
<1>5. Concat(<<>>) = <<>>
  BY ConcatEmpty
<1>6. v \o <<>> = v
  OBVIOUS
<1>7. ValueOf(h) = v
  <2> HIDE DEF h
  <2> QED BY <1>3, <1>5, <1>6 DEF ValueOf
<1> HIDE DEF h
<1>8. AsRead(h) = Field(<<name>>, v)
  BY <1>3, <1>7 DEF AsRead
<1> QED BY <1>3, <1>4, <1>8 DEF h

\* MessageOK, in the alphabet of the proofs.
AnExtension(e) ==
  /\ e.name \in Seq(ASymbols("alnum") \cup {SP}) /\ e.value \in Seq(ASymbols("alnum") \cup {SP})
  /\ e.name = <<>> => e.value = <<>>

AWrittenTrailers ==
  {h \in [name : AWords("alnum"), value : Seq(ASymbols("alnum") \cup {SP}), folds : {<<>>}] :
     h.name[1] \notin Range(Digits)}

ABody(body) ==
  \/ body.kind = "none"
  \/ /\ body.kind = "sized"
     /\ body.size \in Seq(Range(Digits)) /\ body.content \in AText
     /\ atoi(body.size) = Len(body.content)
     /\ Len(body.content) < SizeModulus /\ Len(body.content) <= IntMax
  \/ /\ body.kind = "chunked"
     /\ body.chunks \in Seq([size : Seq(Range(HexDigits)), data : AText \ {<<>>}])
     /\ \A i \in DOMAIN body.chunks : strtol16(body.chunks[i].size) = Len(body.chunks[i].data)
     /\ AnExtension(body.extension)
     /\ body.trailers \in Seq(AWrittenTrailers)

AMessage(m) ==
  /\ m.major \in AWords("digit") /\ m.minor \in AWords("digit")
  /\ m.headers \in Seq(AWrittenHeaders)
  /\ ABody(m.body)

\* A size can be the value of a header.
LEMMA DigitTexts == Range(Digits) \subseteq ASymbols("text")
<1>1. Range(Digits) \subseteq Alphabet
  BY DigitsAre, HexDigitsAre DEF Alphabet, isalnum
<1>2. \A c \in Range(Digits) : Accepts("text", c)
  BY DigitsAre, Classes, SpecialSymbols
<1> QED BY <1>1, <1>2 DEF ASymbols

\* The names of the headers that announce a body are names.
LEMMA Announcements ==
  /\ "Content-Length" \in ASymbols("token") /\ "transfer-encoding" \in ASymbols("token")
  /\ "chunked" \in ASymbols("text")
<1>1. /\ {"Content-Length", "transfer-encoding", "chunked"} \subseteq Alphabet
  BY DEF Alphabet
<1>2. /\ "Content-Length" \notin isControl \cup isSpecial /\ isChar("Content-Length")
      /\ "transfer-encoding" \notin isControl \cup isSpecial /\ isChar("transfer-encoding")
  BY Zenon DEF isChar, isControl, isSpecial, Separators, SP, Tab, Semicolon
<1>3. Accepts("token", "Content-Length") /\ Accepts("token", "transfer-encoding")
  BY <1>2 DEF Accepts
<1>4. Accepts("text", "chunked")
  <2>1. "chunked" # Tab
    BY Zenon DEF Tab
  <2> QED BY <2>1, Classes
<1> QED BY <1>1, <1>3, <1>4 DEF ASymbols

\* The two ways to announce a body.
LEMMA CountersPut ==
  ASSUME NEW x
  PROVE  /\ [AtFirst EXCEPT !.contentSize = x] = Counters(x, <<>>, 0, FALSE)
         /\ [AtFirst EXCEPT !.chunked = TRUE] = Counters(0, <<>>, 0, TRUE)
<1> DEFINE y == FALSE
           z == TRUE
<1> HIDE DEF y, z
<1>1. [Counters(0, <<>>, 0, y) EXCEPT !.contentSize = x] = Counters(x, <<>>, 0, y)
  BY DEF Counters
<1>2. [Counters(0, <<>>, 0, y) EXCEPT !.chunked = z] = Counters(0, <<>>, 0, z)
  BY DEF Counters
<1>3. [AtFirst EXCEPT !.contentSize = x] = Counters(x, <<>>, 0, FALSE)
  BY <1>1 DEF y, AtFirst
<1>4. [AtFirst EXCEPT !.chunked = TRUE] = Counters(0, <<>>, 0, TRUE)
  BY <1>2 DEF y, z, AtFirst
<1> QED BY <1>3, <1>4

\* The header that announces a body sets the counters by it.
LEMMA BodyHeadersRead ==
  ASSUME NEW body, ABody(body), NEW rows, NEW m, Heard(rows, m) \/ body.kind = "none"
  PROVE  /\ BodyHeaders(body) = <<>> /\ Measured(body) = AtFirst
         \/ \E h \in AWrittenHeaders : /\ BodyHeaders(body) = <<h>> /\ h.folds = <<>>
                                       /\ Fits(AsRead(h))
                                       /\ Noted(rows, m, AsRead(h), AtFirst) = Measured(body)
<1>1. CASE body.kind = "none"
  BY <1>1 DEF BodyHeaders, Measured
<1>2. CASE body.kind = "sized"
  <2> DEFINE h == HeaderOf("Content-Length", body.size)
             n == atoi(body.size) % SizeModulus
  <2>1. body.size \in Seq(ASymbols("text"))
    BY <1>2, DigitTexts, SeqWidened DEF ABody
  <2>2. h \in AWrittenHeaders /\ h.folds = <<>> /\ AsRead(h) = Field(<<"Content-Length">>, body.size)
    BY <2>1, Announcements, HeaderOfTyped
  <2>3. BodyHeaders(body) = <<h>>
    BY <1>2 DEF BodyHeaders
  <2>7. /\ Truncated(Value(Signed(body.size))) = atoi(body.size)
        /\ ~ (Truncated(Value(Signed(body.size))) < 0)
    <3>1. body.size \in Seq(Range(Digits)) /\ atoi(body.size) \in 0 .. IntMax
      BY <1>2, IntMaxOK, LenProperties DEF ABody, AText
    <3>2. Value(Signed(body.size)) = atoi(body.size)
      BY <3>1, SignedDigits
    <3> QED BY <3>1, <3>2, TruncatedTyped, IntMaxOK
  <2>8. Fits(AsRead(h))
    <3> HIDE DEF h
    <3>1. AsRead(h).value = body.size
      BY <2>2, FieldPut
    <3> QED BY <2>7, <3>1 DEF Fits, LengthIn
  <2>4. Announced(Field(<<"Content-Length">>, body.size), AtFirst) = [AtFirst EXCEPT !.contentSize = n]
    <3> DEFINE e == Field(<<"Content-Length">>, body.size)
    <3>1. strcasecmp(<<"Content-Length">>, "Content-Length")
          /\ ~ strcasecmp(<<"Content-Length">>, "Transfer-Encoding")
      BY DEF strcasecmp, OtherCase
    <3>2. e.name = <<"Content-Length">> /\ e.value = body.size
      BY FieldPut
    <3> HIDE DEF e
    <3>3. LengthIn(e) = atoi(body.size)
      BY <3>2, <2>7 DEF LengthIn
    <3>4. Announced(e, AtFirst) = [AtFirst EXCEPT !.contentSize = n]
      BY <3>1, <3>2, <3>3 DEF Announced
    <3> QED BY <3>4 DEF e
  <2>5. [AtFirst EXCEPT !.contentSize = n] = Counters(n, <<>>, 0, FALSE)
    <3> HIDE DEF n
    <3> QED BY CountersPut
  <2>6. Measured(body) = Counters(n, <<>>, 0, FALSE)
    BY <1>2 DEF Measured
  <2> HIDE DEF h, n
  <2> QED BY <1>2, <2>2, <2>3, <2>4, <2>5, <2>6, <2>8 DEF Noted
<1>3. CASE body.kind = "chunked"
  <2> DEFINE h == HeaderOf("transfer-encoding", <<"chunked">>)
             e == Field(<<"transfer-encoding">>, <<"chunked">>)
  <2>1. <<"chunked">> \in Seq(ASymbols("text"))
    BY Announcements
  <2>2. h \in AWrittenHeaders /\ h.folds = <<>> /\ AsRead(h) = e
    BY <2>1, Announcements, HeaderOfTyped
  <2>3. BodyHeaders(body) = <<h>>
    BY <1>3 DEF BodyHeaders
  <2>4. Announced(e, AtFirst) = [AtFirst EXCEPT !.chunked = TRUE]
    <3>1. /\ ~ strcasecmp(<<"transfer-encoding">>, "Content-Length")
          /\ strcasecmp(<<"transfer-encoding">>, "Transfer-Encoding")
          /\ strcasecmp(<<"chunked">>, "chunked")
      BY DEF strcasecmp, OtherCase
    <3>2. e.name = <<"transfer-encoding">> /\ e.value = <<"chunked">>
      BY FieldPut
    <3> HIDE DEF e
    <3> QED BY <3>1, <3>2 DEF Announced
  <2>7. Fits(e)
    <3>1. ~ strcasecmp(<<"transfer-encoding">>, "Content-Length")
      BY DEF strcasecmp, OtherCase
    <3>2. e.name = <<"transfer-encoding">>
      BY FieldPut
    <3> HIDE DEF e
    <3> QED BY <3>1, <3>2 DEF Fits
  <2>5. [AtFirst EXCEPT !.chunked = TRUE] = Counters(0, <<>>, 0, TRUE)
    BY CountersPut
  <2>6. Measured(body) = Counters(0, <<>>, 0, TRUE)
    BY <1>3 DEF Measured
  <2> HIDE DEF h, e
  <2> QED BY <1>3, <2>2, <2>3, <2>4, <2>5, <2>6, <2>7 DEF Noted
<1> QED BY <1>1, <1>2, <1>3 DEF ABody

\* The headers of a message and the one that announces its body are read.
LEMMA AllHeadersRead ==
  ASSUME NEW rows \in Tables, NEW m \in AMessages, m.headers = <<>>, NEW msg, AMessage(msg),
         IF Heard(rows, m) THEN \A i \in DOMAIN msg.headers : ~ AnnouncesABody(msg.headers[i])
                           ELSE msg.body.kind = "none"
  PROVE  /\ Reads(rows, Reader("HeaderLineStart", AtFirst, m), RenderHeaders(AllHeaders(msg)),
                  Reader("HeaderLineStart", Measured(msg.body), WithHeaders(m, AllRead(AllHeaders(msg)))))
         /\ AllRead(AllHeaders(msg)) \in Seq(AHeaders)
<1> DEFINE hs == msg.headers
           bs == BodyHeaders(msg.body)
           list == AllHeaders(msg)
           n == Len(hs)
           k == Measured(msg.body)
           ks == [i \in 0 .. Len(list) |-> IF i <= n THEN AtFirst ELSE k]
<1>1. hs \in Seq(AWrittenHeaders) /\ ABody(msg.body) /\ list = hs \o bs
  BY DEF AMessage, AllHeaders
<1>2. /\ bs = <<>> /\ k = AtFirst
      \/ \E h \in AWrittenHeaders : /\ bs = <<h>> /\ h.folds = <<>> /\ Fits(AsRead(h))
                                    /\ Noted(rows, m, AsRead(h), AtFirst) = k
  BY <1>1, BodyHeadersRead
<1>3. \A i \in 1 .. n : /\ hs[i] \in AWrittenHeaders /\ Readable(rows, m, hs[i])
                        /\ Noted(rows, m, AsRead(hs[i]), AtFirst) = AtFirst
  <2> SUFFICES ASSUME NEW i \in 1 .. n
               PROVE  /\ hs[i] \in AWrittenHeaders /\ Readable(rows, m, hs[i])
                      /\ Noted(rows, m, AsRead(hs[i]), AtFirst) = AtFirst
    OBVIOUS
  <2> DEFINE h == hs[i]
  <2>1. h \in AWrittenHeaders /\ i \in DOMAIN hs
    BY <1>1, ElementOfSeq, LenProperties
  <2>2. ~ Heard(rows, m) \/ ~ AnnouncesABody(h)
    BY <2>1
  <2> HIDE DEF h
  <2>3. AsRead(h).name = h.name
    BY FieldPut DEF AsRead
  <2>4. Noted(rows, m, AsRead(h), AtFirst) = AtFirst
    BY <2>2, <2>3 DEF Noted, Announced, AnnouncesABody, Named
  <2> QED BY <2>1, <2>2, <2>4 DEF h, Readable
<1> HIDE DEF bs, list, k, n, hs
<1>4. n \in Nat
  BY <1>1, LenProperties DEF n
<1>5. CASE bs = <<>> /\ k = AtFirst
  <2>1. list = hs
    BY <1>1, <1>5
  <2>2. Len(list) = n /\ ks[0] = AtFirst /\ ks[n] = AtFirst
        /\ \A i \in 1 .. n : ks[i] = AtFirst /\ ks[i - 1] = AtFirst
    BY <1>4, <2>1 DEF n
  <2> HIDE DEF ks
  <2>3. \A i \in 1 .. Len(list) : /\ Readable(rows, m, list[i]) /\ ks[i - 1] \in ACounters
                                   /\ ks[i] = Noted(rows, m, AsRead(list[i]), ks[i - 1])
    BY <1>3, <2>1, <2>2, AtFirstTyped
  <2>4. /\ Reads(rows, Reader("HeaderLineStart", ks[0], m), RenderHeaders(list),
                 Reader("HeaderLineStart", ks[Len(list)], WithHeaders(m, AllRead(list))))
        /\ AllRead(list) \in Seq(AHeaders)
    BY <1>1, <2>1, <2>3, HeadersRead
  <2> QED BY <1>5, <2>2, <2>4 DEF list, k
<1>6. CASE \E h \in AWrittenHeaders : /\ bs = <<h>> /\ h.folds = <<>> /\ Fits(AsRead(h))
                                      /\ Noted(rows, m, AsRead(h), AtFirst) = k
  <2>1. PICK h \in AWrittenHeaders : /\ bs = <<h>> /\ h.folds = <<>> /\ Fits(AsRead(h))
                                     /\ Noted(rows, m, AsRead(h), AtFirst) = k
    BY <1>6
  <2>2. /\ list \in Seq(AWrittenHeaders) /\ Len(list) = n + 1 /\ list[n + 1] = h
        /\ \A i \in 1 .. n : list[i] = hs[i]
    <3>1. list = Append(hs, h)
      BY <1>1, <2>1
    <3> QED BY <1>1, <3>1, AppendProperties DEF n
  <2>3. /\ ks[0] = AtFirst /\ ks[n + 1] = k /\ ks[n] = AtFirst
        /\ \A i \in 1 .. n : ks[i] = AtFirst /\ ks[i - 1] = AtFirst
    BY <1>4, <2>2
  <2> HIDE DEF ks
  <2>4. \A i \in 1 .. Len(list) : i \in 1 .. n \/ (i = n + 1 /\ i - 1 = n)
    BY <1>4, <2>2
  <2>5. \A i \in 1 .. Len(list) : /\ Readable(rows, m, list[i]) /\ ks[i - 1] \in ACounters
                                   /\ ks[i] = Noted(rows, m, AsRead(list[i]), ks[i - 1])
    <3>1. Readable(rows, m, h)
      BY <2>1 DEF Readable
    <3> QED BY <1>3, <2>1, <2>2, <2>3, <2>4, <3>1, AtFirstTyped
  <2>6. /\ Reads(rows, Reader("HeaderLineStart", ks[0], m), RenderHeaders(list),
                 Reader("HeaderLineStart", ks[Len(list)], WithHeaders(m, AllRead(list))))
        /\ AllRead(list) \in Seq(AHeaders)
    BY <2>2, <2>5, HeadersRead
  <2> QED BY <2>2, <2>3, <2>6 DEF list, k
<1> QED BY <1>2, <1>5, <1>6

-----------------------------------------------------------------------------
(* The end of the headers.                                                 *)

Connection(h) == Named(h, "Connection")

\* The message's list of headers and the parser's.
LEMMA ReadHeaders ==
  ASSUME NEW msg, AMessage(msg)
  PROVE  LET list == AllHeaders(msg)
             hs == AllRead(list)
         IN  /\ list \in Seq(AWrittenHeaders)
             /\ Len(msg.headers) \in Nat /\ Len(list) \in Nat /\ Len(msg.headers) <= Len(list)
             /\ DOMAIN msg.headers = 1 .. Len(msg.headers)
             /\ \A i \in 1 .. Len(msg.headers) : list[i] = msg.headers[i]
             /\ \A i \in 1 .. Len(list) : i <= Len(msg.headers) \/ ~ Connection(list[i])
             /\ DOMAIN hs = 1 .. Len(list) /\ \A i \in 1 .. Len(list) : hs[i] = AsRead(list[i])
<1> DEFINE us == msg.headers
           bs == BodyHeaders(msg.body)
           list == AllHeaders(msg)
<1>1. us \in Seq(AWrittenHeaders) /\ ABody(msg.body) /\ list = us \o bs
  BY DEF AMessage, AllHeaders
<1>2. bs = <<>> \/ \E h \in AWrittenHeaders : bs = <<h>> /\ ~ Connection(h)
  <2>1. CASE msg.body.kind = "none"
    BY <2>1 DEF BodyHeaders
  <2>2. CASE msg.body.kind = "sized"
    <3> DEFINE h == HeaderOf("Content-Length", msg.body.size)
    <3>1. bs = <<h>>
      BY <2>2 DEF BodyHeaders
    <3>2. msg.body.size \in Seq(ASymbols("text"))
      BY <1>1, <2>2, DigitTexts, SeqWidened DEF ABody
    <3>3. h \in AWrittenHeaders
      BY <3>2, Announcements, HeaderOfTyped
    <3>4. ~ Connection(h)
      BY DEF Connection, Named, HeaderOf, strcasecmp, OtherCase
    <3> QED BY <3>1, <3>3, <3>4
  <2>3. CASE msg.body.kind = "chunked"
    <3> DEFINE h == HeaderOf("transfer-encoding", <<"chunked">>)
    <3>1. bs = <<h>>
      BY <2>3 DEF BodyHeaders
    <3>2. <<"chunked">> \in Seq(ASymbols("text"))
      BY Announcements
    <3>3. h \in AWrittenHeaders
      BY <3>2, Announcements, HeaderOfTyped
    <3>4. ~ Connection(h)
      BY DEF Connection, Named, HeaderOf, strcasecmp, OtherCase
    <3> QED BY <3>1, <3>3, <3>4
  <2> QED BY <1>1, <2>1, <2>2, <2>3 DEF ABody
<1> HIDE DEF us, bs, list
<1>3. Len(us) \in Nat /\ DOMAIN us = 1 .. Len(us)
  BY <1>1, LenProperties
<1>4. /\ list \in Seq(AWrittenHeaders) /\ Len(list) \in Nat /\ Len(us) <= Len(list)
      /\ \A i \in 1 .. Len(us) : list[i] = us[i]
      /\ \A i \in 1 .. Len(list) : i <= Len(us) \/ ~ Connection(list[i])
  <2>1. CASE bs = <<>>
    <3>1. list = us
      BY <1>1, <2>1
    <3> QED BY <1>1, <1>3, <3>1
  <2>2. CASE \E h \in AWrittenHeaders : bs = <<h>> /\ ~ Connection(h)
    <3>1. PICK h \in AWrittenHeaders : bs = <<h>> /\ ~ Connection(h)
      BY <2>2
    <3>2. list = Append(us, h)
      BY <1>1, <3>1
    <3>3. /\ list \in Seq(AWrittenHeaders) /\ Len(list) = Len(us) + 1 /\ list[Len(us) + 1] = h
          /\ \A i \in 1 .. Len(us) : list[i] = us[i]
      BY <1>1, <3>2, AppendProperties
    <3>4. \A i \in 1 .. Len(list) : i <= Len(us) \/ i = Len(us) + 1
      BY <1>3, <3>3
    <3> QED BY <1>3, <3>1, <3>3, <3>4
  <2> QED BY <1>2, <2>1, <2>2
<1>5. DOMAIN list = 1 .. Len(list)
  BY <1>4, LenProperties
<1>6. /\ DOMAIN AllRead(list) = 1 .. Len(list)
      /\ \A i \in 1 .. Len(list) : AllRead(list)[i] = AsRead(list[i])
  BY <1>5 DEF AllRead
<1> QED BY <1>3, <1>4, <1>6 DEF us, list

\* KeepsAlive decides by what was read as the sender meant it.
LEMMA KeepsAliveIs ==
  ASSUME NEW msg, AMessage(msg), NEW m,
         m.headers = AllRead(AllHeaders(msg)), AllRead(AllHeaders(msg)) \in Seq(AHeaders),
         m.versionMajor = atoi(msg.major), m.versionMinor = atoi(msg.minor), m.keepAlive = FALSE
  PROVE  KeepsAlive(m) = Asks(msg)
<1> DEFINE us == msg.headers
           list == AllHeaders(msg)
           hs == AllRead(list)
           I == {i \in 1 .. Len(hs) : strcasecmp(hs[i].name, "Connection")}
           recent == atoi(msg.major) > 1 \/ (atoi(msg.major) = 1 /\ atoi(msg.minor) = 1)
<1>1. /\ Len(us) \in Nat /\ Len(list) \in Nat /\ Len(us) <= Len(list)
      /\ DOMAIN us = 1 .. Len(us)
      /\ \A i \in 1 .. Len(us) : list[i] = us[i]
      /\ \A i \in 1 .. Len(list) : i <= Len(us) \/ ~ Connection(list[i])
      /\ DOMAIN hs = 1 .. Len(list) /\ \A i \in 1 .. Len(list) : hs[i] = AsRead(list[i])
  BY ReadHeaders
<1> HIDE DEF us, list, hs
<1>2. Len(hs) = Len(list)
  BY <1>1, LenProperties DEF hs, list
<1>3. \A i \in 1 .. Len(list) : hs[i].name = list[i].name /\ hs[i].value = ValueOf(list[i])
  <2>1. \A h : AsRead(h).name = h.name /\ AsRead(h).value = ValueOf(h)
    BY FieldPut DEF AsRead
  <2> QED BY <1>1, <2>1
<1>4. I = {i \in 1 .. Len(us) : Connection(us[i])}
  <2>1. \A i \in 1 .. Len(list) : strcasecmp(hs[i].name, "Connection") <=> Connection(list[i])
    BY <1>3 DEF Connection, Named
  <2>2. \A i : i \in 1 .. Len(us) => i \in 1 .. Len(list)
    BY <1>1
  <2>3. \A i \in 1 .. Len(list) : i <= Len(us) => i \in 1 .. Len(us)
    BY <1>1
  <2> QED BY <1>1, <1>2, <2>1, <2>2, <2>3
<1>5. KeepsAlive(m) = IF I = {} THEN recent ELSE strcasecmp(hs[Min(I)].value, "Keep-Alive")
  <2> DEFINE first == SelectInSeq(m.headers, LAMBDA h : strcasecmp(h.name, "Connection"))
  <2>1. first = IF I # {} THEN Min(I) ELSE 0
    BY DEF SelectInSeq, hs, list
  <2>2. I # {} => Min(I) # 0
    <3>1. ASSUME I # {} PROVE Min(I) \in I
      <4>1. I \subseteq Nat
        OBVIOUS
      <4> HIDE DEF I
      <4> QED BY <3>1, <4>1, MinFacts
    <3> QED BY <3>1
  <2>3. KeepsAlive(m) = IF first # 0 THEN strcasecmp(m.headers[first].value, "Keep-Alive")
                        ELSE \/ m.versionMajor > 1
                             \/ m.versionMajor = 1 /\ m.versionMinor = 1
                             \/ m.keepAlive
    BY DEF KeepsAlive
  <2>4. m.headers = hs
    BY DEF hs, list
  <2> HIDE DEF first, I
  <2> QED BY <2>1, <2>2, <2>3, <2>4
<1>6. Asks(msg) <=> \/ \E i \in 1 .. Len(us) :
                         /\ Connection(us[i]) /\ \A j \in 1 .. i - 1 : ~ Connection(us[j])
                         /\ strcasecmp(ValueOf(us[i]), "Keep-Alive")
                    \/ (\A i \in 1 .. Len(us) : ~ Connection(us[i])) /\ recent
  BY <1>1 DEF Asks, Connection, us
<1>7. CASE I = {}
  <2>1. \A i \in 1 .. Len(us) : ~ Connection(us[i])
    BY <1>4, <1>7
  <2> HIDE DEF recent, I
  <2>2. Asks(msg) <=> recent
    BY <1>6, <2>1
  <2>3. recent \in BOOLEAN /\ Asks(msg) \in BOOLEAN
    BY DEF recent, Asks
  <2> QED BY <1>5, <1>7, <2>2, <2>3
<1>8. CASE I # {}
  <2> DEFINE i == Min(I)
  <2>1. i \in I /\ \A j \in I : i <= j
    <3>1. I \subseteq Nat
      OBVIOUS
    <3> HIDE DEF I
    <3> QED BY <1>8, <3>1, MinFacts
  <2> HIDE DEF i
  <2>2. i \in 1 .. Len(us) /\ Connection(us[i]) /\ \A j \in 1 .. Len(us) : Connection(us[j]) => i <= j
    BY <1>4, <2>1
  <2>3. hs[i].value = ValueOf(us[i])
    BY <1>1, <1>3, <2>2
  <2>4. \A j \in 1 .. i - 1 : ~ Connection(us[j])
    BY <1>1, <2>2
  <2>5. ASSUME NEW j \in 1 .. Len(us), Connection(us[j]), \A x \in 1 .. j - 1 : ~ Connection(us[x])
        PROVE  j = i
    BY <1>1, <2>2, <2>5
  <2> HIDE DEF I, recent
  <2>6. Asks(msg) <=> strcasecmp(ValueOf(us[i]), "Keep-Alive")
    BY <1>6, <2>2, <2>4, <2>5
  <2>7. KeepsAlive(m) = strcasecmp(ValueOf(us[i]), "Keep-Alive")
    BY <1>5, <1>8, <2>3 DEF i
  <2>8. strcasecmp(ValueOf(us[i]), "Keep-Alive") \in BOOLEAN /\ Asks(msg) \in BOOLEAN
    BY DEF strcasecmp, Asks
  <2> QED BY <2>6, <2>7, <2>8
<1> QED BY <1>7, <1>8

-----------------------------------------------------------------------------
(* Bodies.                                                                 *)

BodyRowsOf(rows) ==
  /\ \A c : Only(rows, "Post", c, <<"Post", "any", "Post", "body">>)
  /\ \A c : Only(rows, "ChunkData", c, <<"ChunkData", "any", "ChunkData", "chunkData">>)
  /\ \A c \in ASymbols("alnum") :
       /\ Only(rows, "ChunkSize", c, <<"ChunkSize", "alnum", "ChunkSize", "chunkDigit">>)
       /\ Only(rows, "ChunkExtensionName", c, <<"ChunkExtensionName", "alnum", "ChunkExtensionName", "skip">>)
       /\ Only(rows, "ChunkExtensionValue", c, <<"ChunkExtensionValue", "alnum", "ChunkExtensionValue", "skip">>)
       /\ Only(rows, "ChunkSizeNewLine_2", c, <<"ChunkSizeNewLine_2", "alnum", "ChunkTrailerName", "trailer">>)
       /\ Only(rows, "ChunkTrailerName", c, <<"ChunkTrailerName", "alnum", "ChunkTrailerName", "skip">>)
       /\ Only(rows, "ChunkTrailerValue", c, <<"ChunkTrailerValue", "alnum", "ChunkTrailerValue", "skip">>)
  /\ Only(rows, "ChunkSize", Semicolon, <<"ChunkSize", Semicolon, "ChunkExtensionName", "skip">>)
  /\ Only(rows, "ChunkExtensionName", "=", <<"ChunkExtensionName", "=", "ChunkExtensionValue", "skip">>)
  /\ Only(rows, "ChunkExtensionName", SP, <<"ChunkExtensionName", SP, "ChunkExtensionName", "skip">>)
  /\ Only(rows, "ChunkExtensionValue", SP, <<"ChunkExtensionValue", SP, "ChunkExtensionValue", "skip">>)
  /\ Only(rows, "ChunkSize", "\r", <<"ChunkSize", "\r", "ChunkSizeNewLine", "skip">>)
  /\ Only(rows, "ChunkExtensionName", "\r", <<"ChunkExtensionName", "\r", "ChunkSizeNewLine", "skip">>)
  /\ Only(rows, "ChunkExtensionValue", "\r", <<"ChunkExtensionValue", "\r", "ChunkSizeNewLine", "skip">>)
  /\ Only(rows, "ChunkSizeNewLine", "\n", <<"ChunkSizeNewLine", "\n", "ChunkData", "chunkStart">>)
  /\ Only(rows, "ChunkDataNewLine_1", "\r", <<"ChunkDataNewLine_1", "\r", "ChunkDataNewLine_2", "skip">>)
  /\ Only(rows, "ChunkDataNewLine_2", "\n", <<"ChunkDataNewLine_2", "\n", "ChunkSize", "skip">>)
  /\ Only(rows, "ChunkTrailerName", ":", <<"ChunkTrailerName", ":", "ChunkTrailerValue", "skip">>)
  /\ Only(rows, "ChunkTrailerValue", SP, <<"ChunkTrailerValue", SP, "ChunkTrailerValue", "skip">>)
  /\ Only(rows, "ChunkTrailerValue", "\r", <<"ChunkTrailerValue", "\r", "ChunkSizeNewLine", "skip">>)
  /\ Only(rows, "ChunkSizeNewLine_2", "\r", <<"ChunkSizeNewLine_2", "\r", "ChunkSizeNewLine_3", "skip">>)
  /\ Only(rows, "ChunkSizeNewLine_3", "\n", <<"ChunkSizeNewLine_3", "\n", "ChunkSizeNewLine_3", "complete">>)

\* No letter or digit has a meaning.
LEMMA AlnumSymbols ==
  \A c \in ASymbols("alnum") : Accepts("alnum", c) /\ c \notin {SP, Semicolon, "\r", "\n", ":", "="}
BY HexDigitsAre, Classes, SpecialSymbols DEF ASymbols

\* The rows of both parsers for bodies.
LEMMA BodyRowsAre == \A rows \in Tables : BodyRowsOf(rows)
<1>1. BodyRowsOf(RequestRows)
  <2>1. \A c \in ASymbols("alnum") :
          /\ Only(RequestRows, "ChunkSize", c, <<"ChunkSize", "alnum", "ChunkSize", "chunkDigit">>)
          /\ Only(RequestRows, "ChunkExtensionName", c, <<"ChunkExtensionName", "alnum", "ChunkExtensionName", "skip">>)
          /\ Only(RequestRows, "ChunkExtensionValue", c, <<"ChunkExtensionValue", "alnum", "ChunkExtensionValue", "skip">>)
          /\ Only(RequestRows, "ChunkSizeNewLine_2", c, <<"ChunkSizeNewLine_2", "alnum", "ChunkTrailerName", "trailer">>)
          /\ Only(RequestRows, "ChunkTrailerName", c, <<"ChunkTrailerName", "alnum", "ChunkTrailerName", "skip">>)
          /\ Only(RequestRows, "ChunkTrailerValue", c, <<"ChunkTrailerValue", "alnum", "ChunkTrailerValue", "skip">>)
    BY SymbolClasses, AlnumSymbols
       DEF Only, RequestRows, RequestLineRows, HeaderRows, BodyHeaderRows, BodyRows, TrailerRows
  <2>2. \A c : /\ Only(RequestRows, "Post", c, <<"Post", "any", "Post", "body">>)
              /\ Only(RequestRows, "ChunkData", c, <<"ChunkData", "any", "ChunkData", "chunkData">>)
    BY Classes, SymbolClasses
       DEF Only, RequestRows, RequestLineRows, HeaderRows, BodyHeaderRows,
           BodyRows, TrailerRows
  <2>3. /\ Only(RequestRows, "ChunkSize", Semicolon, <<"ChunkSize", Semicolon, "ChunkExtensionName", "skip">>)
        /\ Only(RequestRows, "ChunkExtensionName", "=", <<"ChunkExtensionName", "=", "ChunkExtensionValue", "skip">>)
        /\ Only(RequestRows, "ChunkExtensionName", SP, <<"ChunkExtensionName", SP, "ChunkExtensionName", "skip">>)
        /\ Only(RequestRows, "ChunkExtensionValue", SP, <<"ChunkExtensionValue", SP, "ChunkExtensionValue", "skip">>)
        /\ Only(RequestRows, "ChunkSize", "\r", <<"ChunkSize", "\r", "ChunkSizeNewLine", "skip">>)
        /\ Only(RequestRows, "ChunkExtensionName", "\r", <<"ChunkExtensionName", "\r", "ChunkSizeNewLine", "skip">>)
        /\ Only(RequestRows, "ChunkExtensionValue", "\r", <<"ChunkExtensionValue", "\r", "ChunkSizeNewLine", "skip">>)
        /\ Only(RequestRows, "ChunkSizeNewLine", "\n", <<"ChunkSizeNewLine", "\n", "ChunkData", "chunkStart">>)
        /\ Only(RequestRows, "ChunkDataNewLine_1", "\r", <<"ChunkDataNewLine_1", "\r", "ChunkDataNewLine_2", "skip">>)
    BY Classes, SymbolClasses, SpecialSymbols, HexDigitsAre
       DEF Only, RequestRows, RequestLineRows, HeaderRows, BodyHeaderRows,
           BodyRows, TrailerRows
  <2>4. /\ Only(RequestRows, "ChunkDataNewLine_2", "\n", <<"ChunkDataNewLine_2", "\n", "ChunkSize", "skip">>)
        /\ Only(RequestRows, "ChunkTrailerName", ":", <<"ChunkTrailerName", ":", "ChunkTrailerValue", "skip">>)
        /\ Only(RequestRows, "ChunkTrailerValue", SP, <<"ChunkTrailerValue", SP, "ChunkTrailerValue", "skip">>)
        /\ Only(RequestRows, "ChunkTrailerValue", "\r", <<"ChunkTrailerValue", "\r", "ChunkSizeNewLine", "skip">>)
        /\ Only(RequestRows, "ChunkSizeNewLine_2", "\r", <<"ChunkSizeNewLine_2", "\r", "ChunkSizeNewLine_3", "skip">>)
        /\ Only(RequestRows, "ChunkSizeNewLine_3", "\n", <<"ChunkSizeNewLine_3", "\n", "ChunkSizeNewLine_3", "complete">>)
    BY Classes, SymbolClasses, SpecialSymbols, HexDigitsAre
       DEF Only, RequestRows, RequestLineRows, HeaderRows, BodyHeaderRows,
           BodyRows, TrailerRows
  <2> QED BY <2>1, <2>2, <2>3, <2>4 DEF BodyRowsOf
<1>2. BodyRowsOf(ResponseRows)
  <2>1. \A c \in ASymbols("alnum") :
          /\ Only(ResponseRows, "ChunkSize", c, <<"ChunkSize", "alnum", "ChunkSize", "chunkDigit">>)
          /\ Only(ResponseRows, "ChunkExtensionName", c, <<"ChunkExtensionName", "alnum", "ChunkExtensionName", "skip">>)
          /\ Only(ResponseRows, "ChunkExtensionValue", c, <<"ChunkExtensionValue", "alnum", "ChunkExtensionValue", "skip">>)
          /\ Only(ResponseRows, "ChunkSizeNewLine_2", c, <<"ChunkSizeNewLine_2", "alnum", "ChunkTrailerName", "trailer">>)
          /\ Only(ResponseRows, "ChunkTrailerName", c, <<"ChunkTrailerName", "alnum", "ChunkTrailerName", "skip">>)
          /\ Only(ResponseRows, "ChunkTrailerValue", c, <<"ChunkTrailerValue", "alnum", "ChunkTrailerValue", "skip">>)
    BY SymbolClasses, AlnumSymbols
       DEF Only, ResponseRows, StatusLineRows, HeaderRows, ResponseHeaderRows,
           ResponseBodyHeaderRows, BodyRows, TrailerRows, ResponseBodyRows
  <2>2. \A c : /\ Only(ResponseRows, "Post", c, <<"Post", "any", "Post", "body">>)
              /\ Only(ResponseRows, "ChunkData", c, <<"ChunkData", "any", "ChunkData", "chunkData">>)
    BY Classes, SymbolClasses
       DEF Only, ResponseRows, StatusLineRows, HeaderRows, ResponseHeaderRows,
           ResponseBodyHeaderRows, BodyRows, TrailerRows, ResponseBodyRows
  <2>3. /\ Only(ResponseRows, "ChunkSize", Semicolon, <<"ChunkSize", Semicolon, "ChunkExtensionName", "skip">>)
        /\ Only(ResponseRows, "ChunkExtensionName", "=", <<"ChunkExtensionName", "=", "ChunkExtensionValue", "skip">>)
        /\ Only(ResponseRows, "ChunkExtensionName", SP, <<"ChunkExtensionName", SP, "ChunkExtensionName", "skip">>)
        /\ Only(ResponseRows, "ChunkExtensionValue", SP, <<"ChunkExtensionValue", SP, "ChunkExtensionValue", "skip">>)
        /\ Only(ResponseRows, "ChunkSize", "\r", <<"ChunkSize", "\r", "ChunkSizeNewLine", "skip">>)
        /\ Only(ResponseRows, "ChunkExtensionName", "\r", <<"ChunkExtensionName", "\r", "ChunkSizeNewLine", "skip">>)
        /\ Only(ResponseRows, "ChunkExtensionValue", "\r", <<"ChunkExtensionValue", "\r", "ChunkSizeNewLine", "skip">>)
        /\ Only(ResponseRows, "ChunkSizeNewLine", "\n", <<"ChunkSizeNewLine", "\n", "ChunkData", "chunkStart">>)
        /\ Only(ResponseRows, "ChunkDataNewLine_1", "\r", <<"ChunkDataNewLine_1", "\r", "ChunkDataNewLine_2", "skip">>)
    BY Classes, SymbolClasses, SpecialSymbols, HexDigitsAre
       DEF Only, ResponseRows, StatusLineRows, HeaderRows, ResponseHeaderRows,
           ResponseBodyHeaderRows, BodyRows, TrailerRows, ResponseBodyRows
  <2>4. /\ Only(ResponseRows, "ChunkDataNewLine_2", "\n", <<"ChunkDataNewLine_2", "\n", "ChunkSize", "skip">>)
        /\ Only(ResponseRows, "ChunkTrailerName", ":", <<"ChunkTrailerName", ":", "ChunkTrailerValue", "skip">>)
        /\ Only(ResponseRows, "ChunkTrailerValue", SP, <<"ChunkTrailerValue", SP, "ChunkTrailerValue", "skip">>)
        /\ Only(ResponseRows, "ChunkTrailerValue", "\r", <<"ChunkTrailerValue", "\r", "ChunkSizeNewLine", "skip">>)
        /\ Only(ResponseRows, "ChunkSizeNewLine_2", "\r", <<"ChunkSizeNewLine_2", "\r", "ChunkSizeNewLine_3", "skip">>)
        /\ Only(ResponseRows, "ChunkSizeNewLine_3", "\n", <<"ChunkSizeNewLine_3", "\n", "ChunkSizeNewLine_3", "complete">>)
    BY Classes, SymbolClasses, SpecialSymbols, HexDigitsAre
       DEF Only, ResponseRows, StatusLineRows, HeaderRows, ResponseHeaderRows,
           ResponseBodyHeaderRows, BodyRows, TrailerRows, ResponseBodyRows
  <2> QED BY <2>1, <2>2, <2>3, <2>4 DEF BodyRowsOf
<1> QED BY <1>1, <1>2 DEF Tables

Sized(n) == Counters(n, <<>>, 0, FALSE)
Chunked(digits, n) == Counters(0, digits, n, TRUE)

\* The content so far.
Holding(m, t) == Put(m, "content", t)

\* A symbol of a body that has a size: counted down, the last one ends it.
LEMMA BodyDone ==
  ASSUME NEW n \in 1 .. SizeModulus - 1, NEW m, NEW c
  PROVE  LET x == Holding(m, Append(m["content"], c))
         IN  /\ n # 1 => Done("body", Reader("Post", Sized(n), m), c) = Reader("Post", Sized(n - 1), x)
             /\ n = 1 => Done("body", Reader("Post", Sized(n), m), c) = Completed(Reader("Post", Sized(0), x))
<1> DEFINE p == Reader("Post", Sized(n), m)
           y == FALSE
           d == Decremented(n)
           x == Holding(m, Append(m["content"], c))
           q == [p EXCEPT !.contentSize = Decremented(@), !.message.content = Append(@, c)]
           R(z) == Reader("Post", Counters(z, <<>>, 0, y), x)
<1> HIDE DEF y
<1>1. p = Reader("Post", Counters(n, <<>>, 0, y), m)
  BY DEF y, Sized
<1>2. p.contentSize = n /\ p.message = m
  BY <1>1 DEF Reader, Counters
<1>3. \A u, v : [p EXCEPT !.contentSize = u, !.message = v] = Reader("Post", Counters(u, <<>>, 0, y), v)
  <2>1. \A u : [p EXCEPT !.contentSize = u] = Reader("Post", Counters(u, <<>>, 0, y), m)
    <3> HIDE DEF p
    <3> QED BY <1>1 DEF Reader, Counters
  <2>2. \A k, v : [Reader("Post", k, m) EXCEPT !.message = v] = Reader("Post", k, v)
    BY DEF Reader
  <2>3. \A u, v : [p EXCEPT !.contentSize = u, !.message = v] = [[p EXCEPT !.contentSize = u] EXCEPT !.message = v]
    OBVIOUS
  <2> HIDE DEF p
  <2> QED BY <2>1, <2>2, <2>3
<1> HIDE DEF p
<1>4. q = [p EXCEPT !.contentSize = Decremented(p.contentSize),
                    !.message = [p.message EXCEPT !.content = Append(p.message.content, c)]]
  OBVIOUS
<1>5. [m EXCEPT !.content = Append(m.content, c)] = x
  BY DEF Holding, Put
<1> HIDE DEF q, x
<1>6. q = R(d)
  BY <1>2, <1>3, <1>4, <1>5
<1>7. d = n - 1
  <2>1. n - 1 \in 0 .. SizeModulus - 1 /\ SizeModulus \in Nat \ {0}
    BY SizeModulusOK
  <2> QED BY <2>1 DEF Decremented
<1>8. R(d).contentSize = d
  BY DEF Reader, Counters
<1>9. Done("body", p, c) = IF q.contentSize = 0 THEN Completed(q) ELSE q
  BY DEF Done, Texts, Numbers, Body, q
<1>10. /\ R(n - 1) = Reader("Post", Sized(n - 1), x)
       /\ R(0) = Reader("Post", Sized(0), x)
  BY DEF Sized, y
<1> HIDE DEF R, d
<1>11. n # 1 => Done("body", p, c) = Reader("Post", Sized(n - 1), x)
  BY <1>6, <1>7, <1>8, <1>9, <1>10
<1>12. n = 1 => Done("body", p, c) = Completed(Reader("Post", Sized(0), x))
  BY <1>6, <1>7, <1>8, <1>9, <1>10
<1> QED BY <1>11, <1>12 DEF p, x

\* Setting the content of a message.
LEMMA HoldingTyped ==
  ASSUME NEW m \in AMessages, NEW t \in AText, NEW u
  PROVE  /\ Holding(m, t) \in AMessages /\ Holding(m, t)["content"] = t
         /\ Holding(Holding(m, t), u) = Holding(m, u) /\ Holding(m, m["content"]) = m
         /\ m["content"] \in AText
BY DEF AMessages, Holding, Put

\* A parser that has ended.
LEMMA CompletedReader ==
  \A s, k, m : /\ Completed(Reader(s, k, m)).result = "ParsingCompleted"
               /\ Completed(Reader(s, k, m)).message = m
BY DEF Completed, Reader

\* A symbol appended to two texts is appended to the second.
LEMMA AppendAssociates ==
  \A s, t \in AText : \A c \in Alphabet : Append(s \o t, c) = s \o Append(t, c)
<1> TAKE s \in AText, t \in AText
<1> TAKE c \in Alphabet
<1> DEFINE e == <<c>>
<1>1. e \in AText
  BY DEF AText
<1>2. s \o t \in AText
  BY Joined
<1>3. \A z \in AText : Append(z, c) = z \o e
  BY DEF AText
<1> HIDE DEF e
<1>4. Append(s \o t, c) = (s \o t) \o e /\ Append(t, c) = t \o e
  BY <1>2, <1>3
<1>5. s \o (t \o e) = (s \o t) \o e
  BY <1>1, ConcatAssociates
<1> QED BY Zenon, <1>4, <1>5

\* A text that is added to the content, all but its last symbol in the state s.
Keeps(rows, s, m, w, do, ks, q) ==
  /\ \A c \in Alphabet : \E r : Only(rows, s, c, r) /\ r[3] = s /\ r[4] = do
  /\ \A i \in 1 .. Len(w) : \A t \in AText : \A c \in Alphabet : i # Len(w) =>
       Done(do, Reader(s, ks[i - 1], Holding(m, t)), c) = Reader(s, ks[i], Holding(m, Append(t, c)))
  /\ \A t \in AText : \A c \in Alphabet : Append(t, c) = m["content"] \o w =>
       Done(do, Reader(s, ks[Len(w) - 1], Holding(m, t)), c) = q
  /\ q.result # "ParsingError"

\* A text whose symbols are all added to the content, the last one in its own way.
LEMMA ContentReads ==
  ASSUME NEW rows, NEW s, NEW m \in AMessages, NEW w \in AText, w # <<>>, NEW do, NEW ks, NEW q,
         Keeps(rows, s, m, w, do, ks, q)
  PROVE  Reads(rows, Reader(s, ks[0], m), w, q)
<1> DEFINE x == m["content"]
<1>1. PICK u \in AText, c \in Alphabet : w = Append(u, c)
  BY SequenceEmptyOrAppend DEF AText
<1>2. Len(u) \in Nat /\ Len(w) = Len(u) + 1
  BY <1>1, AppendProperties, LenProperties DEF AText
<1>3. x \in AText
  BY HoldingTyped
<1> DEFINE n == Len(u)
           y(i) == x \o SubSeq(u, 1, i)
           ms == [i \in 0 .. n |-> Holding(m, y(i))]
<1>4. y(0) = x /\ y(n) = x \o u /\ \A i \in 0 .. n : y(i) \in AText
  <2>1. /\ SubSeq(u, 1, 0) = <<>> /\ SubSeq(u, 1, Len(u)) = u
        /\ \A i \in 0 .. Len(u) : SubSeq(u, 1, i) \in AText
    BY PrefixFacts DEF AText
  <2>2. x \o <<>> = x
    BY <1>3 DEF AText
  <2> HIDE DEF x
  <2> QED BY <1>3, <2>1, <2>2, Joined
<1> HIDE DEF x
<1>5. \A i \in 1 .. n : y(i) = Append(y(i - 1), u[i]) /\ u[i] \in Alphabet
  <2>1. \A i \in 1 .. Len(u) : u[i] \in Alphabet
    BY ElementOfSeq DEF AText
  <2> QED BY <1>3, <2>1, Appended DEF AText
<1> HIDE DEF y, n
<1>6. n \in Nat /\ n = Len(w) - 1 /\ \A i \in 1 .. n : i - 1 \in 0 .. n /\ i \in 1 .. Len(w) /\ i # Len(w)
  BY <1>2 DEF n
<1>7. /\ ms[0] = Holding(m, y(0)) /\ ms[n] = Holding(m, y(n))
      /\ \A i \in 1 .. n : ms[i - 1] = Holding(m, y(i - 1)) /\ ms[i] = Holding(m, y(i))
  BY <1>6
<1> HIDE DEF ms
<1>8. \A i \in 1 .. Len(u) :
        Done(do, Reader(s, ks[i - 1], ms[i - 1]), u[i]) = Reader(s, ks[i], ms[i])
  <2> SUFFICES ASSUME NEW i \in 1 .. n
               PROVE  Done(do, Reader(s, ks[i - 1], ms[i - 1]), u[i]) = Reader(s, ks[i], ms[i])
    BY DEF n
  <2> DEFINE t == y(i - 1)
             d == u[i]
  <2>1. t \in AText /\ d \in Alphabet /\ y(i) = Append(t, d)
    BY <1>4, <1>5, <1>6
  <2>2. ms[i - 1] = Holding(m, t) /\ ms[i] = Holding(m, Append(t, d))
    BY <1>7, <2>1
  <2>3. i \in 1 .. Len(w) /\ i # Len(w)
    BY <1>6
  <2> HIDE DEF t, d
  <2>4. Done(do, Reader(s, ks[i - 1], Holding(m, t)), d) = Reader(s, ks[i], Holding(m, Append(t, d)))
    BY <2>1, <2>3 DEF Keeps
  <2> QED BY <2>2, <2>4 DEF d
<1>9. Taken(rows, s, s, u, do) /\ Reached(s, s, u) = s
  <2>1. \A i \in 1 .. Len(u) : u[i] \in Alphabet
    BY <1>5 DEF n
  <2> QED BY <2>1 DEF Taken, Reached, Keeps
<1>10. Reads(rows, Reader(s, ks[0], ms[0]), u, Reader(s, ks[n], ms[n]))
  BY <1>8, <1>9, Takes DEF n
<1>11. Holding(m, y(0)) = m
  BY <1>4, HoldingTyped DEF x
<1>12. Reads(rows, Reader(s, ks[n], ms[n]), <<c>>, q)
  <2> DEFINE t == y(n)
  <2>1. Append(t, c) = x \o w
    <3>1. Append(x \o u, c) = x \o Append(u, c)
      BY <1>3, AppendAssociates
    <3>2. t = x \o u
      BY <1>4
    <3> HIDE DEF t
    <3> QED BY Zenon, <1>1, <3>1, <3>2
  <2>2. t \in AText
    <3>1. n \in 0 .. n
      BY <1>6
    <3> QED BY <1>4, <3>1
  <2>3. ms[n] = Holding(m, t)
    BY <1>7
  <2> HIDE DEF t
  <2>4. Done(do, Reader(s, ks[n], Holding(m, t)), c) = q
    BY <1>6, <2>1, <2>2 DEF x, Keeps
  <2>5. PICK r : Only(rows, s, c, r) /\ r[3] = s /\ r[4] = do
    BY DEF Keeps
  <2>6. q.result # "ParsingError"
    BY DEF Keeps
  <2>7. Reads(rows, Reader(s, ks[n], Holding(m, t)), <<c>>, q)
    BY <2>4, <2>5, <2>6, ReadsByRow
  <2> QED BY <2>3, <2>7
<1>13. Reads(rows, Reader(s, ks[0], m), u \o <<c>>, q)
  BY <1>7, <1>10, <1>11, <1>12, ReadsBoth
<1>14. u \o <<c>> = w
  BY <1>1 DEF AText
<1> QED BY <1>13, <1>14
\* The last symbol of a body of a given size completes the message.
LEMMA SizedReads ==
  ASSUME NEW rows \in Tables, NEW m \in AMessages, NEW w \in AText, Len(w) \in 1 .. SizeModulus - 1
  PROVE  Reads(rows, Reader("Post", Sized(Len(w)), m), w,
               Completed(Reader("Post", Sized(0), Holding(m, m["content"] \o w))))
<1> DEFINE n == Len(w)
           S(i) == Sized(n - i)
           ks == [i \in 0 .. n |-> S(i)]
           q == Completed(Reader("Post", Sized(0), Holding(m, m["content"] \o w)))
<1>1. n \in Nat \ {0} /\ w # <<>> /\ SizeModulus \in Nat
  BY SizeModulusOK
<1> HIDE DEF n
<1>2. /\ ks[0] = S(0) /\ ks[n - 1] = S(n - 1)
      /\ \A i \in 1 .. n : ks[i - 1] = S(i - 1) /\ ks[i] = S(i)
  <2> HIDE DEF S
  <2> QED BY <1>1
<1> HIDE DEF ks
<1>3. \A c \in Alphabet : \E r : Only(rows, "Post", c, r) /\ r[3] = "Post" /\ r[4] = "body"
  <2> TAKE c \in Alphabet
  <2> DEFINE r == <<"Post", "any", "Post", "body">>
  <2>1. Only(rows, "Post", c, r)
    BY BodyRowsAre DEF BodyRowsOf
  <2>2. r[3] = "Post" /\ r[4] = "body"
    OBVIOUS
  <2> HIDE DEF r
  <2> QED BY <2>1, <2>2
<1>4. ASSUME NEW i \in 1 .. n, NEW t \in AText, NEW c \in Alphabet, i # n
      PROVE  Done("body", Reader("Post", ks[i - 1], Holding(m, t)), c)
               = Reader("Post", ks[i], Holding(m, Append(t, c)))
  <2> DEFINE j == n - (i - 1)
  <2>1. j \in 1 .. SizeModulus - 1 /\ j # 1 /\ j - 1 = n - i
    BY <1>1, <1>4 DEF n
  <2>2. ks[i - 1] = Sized(j) /\ ks[i] = Sized(n - i)
    BY <1>2
  <2> HIDE DEF j
  <2>3. Done("body", Reader("Post", Sized(j), Holding(m, t)), c)
          = Reader("Post", Sized(j - 1), Holding(Holding(m, t), Append(Holding(m, t)["content"], c)))
    BY <2>1, BodyDone
  <2>4. Holding(Holding(m, t), Append(Holding(m, t)["content"], c)) = Holding(m, Append(t, c))
    BY HoldingTyped
  <2> QED BY <2>1, <2>2, <2>3, <2>4
<1>5. ASSUME NEW t \in AText, NEW c \in Alphabet, Append(t, c) = m["content"] \o w
      PROVE  Done("body", Reader("Post", ks[n - 1], Holding(m, t)), c) = q
  <2>1. ks[n - 1] = Sized(1)
    <3>1. n - (n - 1) = 1
      BY <1>1
    <3> QED BY <1>2, <3>1
  <2>2. 1 \in 1 .. SizeModulus - 1
    BY <1>1 DEF n
  <2>3. Done("body", Reader("Post", Sized(1), Holding(m, t)), c)
          = Completed(Reader("Post", Sized(0), Holding(Holding(m, t), Append(Holding(m, t)["content"], c))))
    BY <2>2, BodyDone
  <2>4. Holding(Holding(m, t), Append(Holding(m, t)["content"], c)) = Holding(m, Append(t, c))
    BY HoldingTyped
  <2> QED BY <1>5, <2>1, <2>3, <2>4
<1>6. q.result # "ParsingError"
  BY CompletedReader
<1> HIDE DEF q
<1>7. Keeps(rows, "Post", m, w, "body", ks, q)
  BY <1>3, <1>4, <1>5, <1>6 DEF Keeps, n
<1>8. ks[0] = Sized(Len(w))
  <2>1. n - 0 = n
    BY <1>1
  <2> QED BY <1>2, <2>1 DEF n
<1>9. Reads(rows, Reader("Post", ks[0], m), w, q)
  BY <1>1, <1>7, ContentReads
<1> QED BY <1>8, <1>9 DEF q

\* A symbol of a chunk: counted down, the last one ends the chunk.
LEMMA ChunkDataDone ==
  ASSUME NEW n \in Nat \ {0}, NEW m, NEW c
  PROVE  Done("chunkData", Reader("ChunkData", Chunked(<<>>, n), m), c)
           = Reader(IF n = 1 THEN "ChunkDataNewLine_1" ELSE "ChunkData", Chunked(<<>>, n - 1),
                    Holding(m, Append(m["content"], c)))
<1> DEFINE y == TRUE
           e == <<>>
           R(s, z, x) == Reader(s, Counters(0, e, z, y), x)
           p == R("ChunkData", n, m)
           x == Holding(m, Append(m["content"], c))
           s == IF n = 1 THEN "ChunkDataNewLine_1" ELSE "ChunkData"
           u == n - 1
<1> HIDE DEF y, e
<1>1. p.chunkSize = n /\ p.message = m /\ p.state = "ChunkData"
  BY DEF Reader, Counters
<1> DEFINE F(v, a) == [v EXCEPT !.message = a]
           G(v, b) == [v EXCEPT !.chunkSize = b]
           H(v, d) == [v EXCEPT !.state = d]
<1>2. /\ \A v, z, a, b : F(R(v, z, a), b) = R(v, z, b)
      /\ \A v, z, a, b : G(R(v, z, a), b) = R(v, b, a)
      /\ \A v, z, a, d : H(R(v, z, a), d) = R(d, z, a)
  <2>1. \A v, z, a, b : F(R(v, z, a), b) = R(v, z, b)
    BY DEF Reader
  <2>2. \A v, z, a, b : G(R(v, z, a), b) = R(v, b, a)
    BY DEF Reader, Counters
  <2>3. \A v, z, a, d : H(R(v, z, a), d) = R(d, z, a)
    BY DEF Reader
  <2> HIDE DEF F, G, H, R
  <2> QED BY <2>1, <2>2, <2>3
<1>3. [m EXCEPT !.content = Append(m.content, c)] = x
  BY DEF Holding, Put
<1>4. Done("chunkData", p, c) = ChunkData(p, c)
  <2> HIDE DEF p
  <2> QED BY DEF Done, Texts, Numbers
<1> HIDE DEF p, R, x, u, s
<1>5. ChunkData(p, c) = H(G(F(p, x), u), s)
  BY <1>1, <1>3 DEF ChunkData, u, s
<1> HIDE DEF F, G, H
<1>6. H(G(F(p, x), u), s) = R(s, u, x)
  BY <1>2 DEF p
<1> QED BY <1>4, <1>5, <1>6 DEF p, x, R, y, e, u, s, Chunked

\* The data of a chunk is read.
LEMMA ChunkDataReads ==
  ASSUME NEW rows \in Tables, NEW m \in AMessages, NEW w \in AText, w # <<>>
  PROVE  Reads(rows, Reader("ChunkData", Chunked(<<>>, Len(w)), m), w,
               Reader("ChunkDataNewLine_1", Chunked(<<>>, 0), Holding(m, m["content"] \o w)))
<1> DEFINE n == Len(w)
           S(i) == Chunked(<<>>, n - i)
           ks == [i \in 0 .. n |-> S(i)]
           q == Reader("ChunkDataNewLine_1", Chunked(<<>>, 0), Holding(m, m["content"] \o w))
<1>1. n \in Nat \ {0}
  BY EmptySeq, LenProperties DEF AText
<1> HIDE DEF n
<1>2. /\ ks[0] = S(0) /\ ks[n - 1] = S(n - 1)
      /\ \A i \in 1 .. n : ks[i - 1] = S(i - 1) /\ ks[i] = S(i)
  <2> HIDE DEF S
  <2> QED BY <1>1
<1> HIDE DEF ks
<1>3. \A c \in Alphabet : \E r : Only(rows, "ChunkData", c, r) /\ r[3] = "ChunkData" /\ r[4] = "chunkData"
  <2> TAKE c \in Alphabet
  <2> DEFINE r == <<"ChunkData", "any", "ChunkData", "chunkData">>
  <2>1. Only(rows, "ChunkData", c, r)
    BY BodyRowsAre DEF BodyRowsOf
  <2>2. r[3] = "ChunkData" /\ r[4] = "chunkData"
    OBVIOUS
  <2> HIDE DEF r
  <2> QED BY <2>1, <2>2
<1>4. ASSUME NEW i \in 1 .. n, NEW t \in AText, NEW c \in Alphabet, i # n
      PROVE  Done("chunkData", Reader("ChunkData", ks[i - 1], Holding(m, t)), c)
               = Reader("ChunkData", ks[i], Holding(m, Append(t, c)))
  <2> DEFINE j == n - (i - 1)
  <2>1. j \in Nat \ {0} /\ j # 1 /\ j - 1 = n - i
    BY <1>1, <1>4
  <2>2. ks[i - 1] = Chunked(<<>>, j) /\ ks[i] = Chunked(<<>>, n - i)
    BY <1>2
  <2> HIDE DEF j
  <2>3. Done("chunkData", Reader("ChunkData", Chunked(<<>>, j), Holding(m, t)), c)
          = Reader("ChunkData", Chunked(<<>>, j - 1),
                   Holding(Holding(m, t), Append(Holding(m, t)["content"], c)))
    BY <2>1, ChunkDataDone
  <2>4. Holding(Holding(m, t), Append(Holding(m, t)["content"], c)) = Holding(m, Append(t, c))
    BY HoldingTyped
  <2> QED BY <2>1, <2>2, <2>3, <2>4
<1>5. ASSUME NEW t \in AText, NEW c \in Alphabet, Append(t, c) = m["content"] \o w
      PROVE  Done("chunkData", Reader("ChunkData", ks[n - 1], Holding(m, t)), c) = q
  <2>1. ks[n - 1] = Chunked(<<>>, 1)
    <3>1. n - (n - 1) = 1
      BY <1>1
    <3> QED BY <1>2, <3>1
  <2>2. 1 \in Nat \ {0} /\ 1 - 1 = 0
    OBVIOUS
  <2>3. Done("chunkData", Reader("ChunkData", Chunked(<<>>, 1), Holding(m, t)), c)
          = Reader("ChunkDataNewLine_1", Chunked(<<>>, 0),
                   Holding(Holding(m, t), Append(Holding(m, t)["content"], c)))
    BY <2>2, ChunkDataDone
  <2>4. Holding(Holding(m, t), Append(Holding(m, t)["content"], c)) = Holding(m, Append(t, c))
    BY HoldingTyped
  <2> QED BY <1>5, <2>1, <2>3, <2>4
<1>6. q.result # "ParsingError"
  BY ReaderReady
<1> HIDE DEF q
<1>7. Keeps(rows, "ChunkData", m, w, "chunkData", ks, q)
  BY <1>3, <1>4, <1>5, <1>6 DEF Keeps, n
<1>8. ks[0] = Chunked(<<>>, Len(w))
  <2>1. n - 0 = n
    BY <1>1
  <2> QED BY <1>2, <2>1 DEF n
<1>9. Reads(rows, Reader("ChunkData", ks[0], m), w, q)
  BY <1>7, ContentReads
<1> QED BY <1>8, <1>9 DEF q

\* A digit of the size of a chunk is put aside.
LEMMA ChunkDigitDone ==
  ASSUME NEW s, NEW t, NEW n, NEW m, NEW c
  PROVE  Done("chunkDigit", Reader(s, Chunked(t, n), m), c) = Reader(s, Chunked(Append(t, c), n), m)
<1> DEFINE y == TRUE
           p == Reader(s, Counters(0, t, n, y), m)
           u == Append(t, c)
<1> HIDE DEF y
<1>1. p.chunkSizeStr = t
  BY DEF Reader, Counters
<1>2. \A x : [p EXCEPT !.chunkSizeStr = x] = Reader(s, Counters(0, x, n, y), m)
  BY DEF Reader, Counters
<1> HIDE DEF p
<1>3. Done("chunkDigit", p, c) = [p EXCEPT !.chunkSizeStr = Append(p.chunkSizeStr, c)]
  BY DEF Done, Texts, Numbers
<1> QED BY <1>1, <1>2, <1>3 DEF p, y, Chunked

\* The digits of a size are letters or digits.
LEMMA HexSymbols == Range(HexDigits) \subseteq ASymbols("alnum") /\ ASymbols("alnum") \subseteq Alphabet
BY Classes DEF ASymbols, Alphabet, isalnum

\* The size of a chunk is put aside.
LEMMA SizeReads ==
  ASSUME NEW rows \in Tables, NEW m, NEW w \in Seq(Range(HexDigits))
  PROVE  Reads(rows, Reader("ChunkSize", Chunked(<<>>, 0), m), w, Reader("ChunkSize", Chunked(w, 0), m))
<1> DEFINE n == Len(w)
           S(i) == Chunked(SubSeq(w, 1, i), 0)
           ks == [i \in 0 .. n |-> S(i)]
           ms == [i \in 0 .. n |-> m]
<1>1. w \in AText /\ n \in Nat /\ \A i \in 1 .. n : w[i] \in ASymbols("alnum")
  <2>1. \A i \in 1 .. n : w[i] \in Range(HexDigits)
    BY ElementOfSeq
  <2>2. w \in AText
    BY HexSymbols, SeqWidened DEF AText
  <2>3. n \in Nat
    BY LenProperties
  <2> QED BY <2>1, <2>2, <2>3, HexSymbols
<1>2. /\ SubSeq(w, 1, 0) = <<>> /\ SubSeq(w, 1, n) = w
      /\ \A i \in 1 .. n : SubSeq(w, 1, i) = Append(SubSeq(w, 1, i - 1), w[i])
  BY PrefixFacts
<1>3. /\ ks[0] = S(0) /\ ks[n] = S(n) /\ ms[0] = m /\ ms[n] = m
      /\ \A i \in 1 .. n : ks[i - 1] = S(i - 1) /\ ks[i] = S(i) /\ ms[i - 1] = m /\ ms[i] = m
  <2> HIDE DEF S, n
  <2> QED BY <1>1
<1> HIDE DEF ks, ms
<1>4. \A i \in 1 .. n :
        Done("chunkDigit", Reader("ChunkSize", ks[i - 1], ms[i - 1]), w[i])
          = Reader("ChunkSize", ks[i], ms[i])
  <2> SUFFICES ASSUME NEW i \in 1 .. n
               PROVE  Done("chunkDigit", Reader("ChunkSize", ks[i - 1], ms[i - 1]), w[i])
                        = Reader("ChunkSize", ks[i], ms[i])
    OBVIOUS
  <2> DEFINE t == SubSeq(w, 1, i - 1)
  <2>1. ks[i - 1] = Chunked(t, 0) /\ ks[i] = Chunked(Append(t, w[i]), 0) /\ ms[i - 1] = m /\ ms[i] = m
    BY <1>2, <1>3
  <2> HIDE DEF t
  <2> QED BY <2>1, ChunkDigitDone
<1>5. Taken(rows, "ChunkSize", "ChunkSize", w, "chunkDigit")
  <2>1. \A c \in ASymbols("alnum") : Only(rows, "ChunkSize", c, <<"ChunkSize", "alnum", "ChunkSize", "chunkDigit">>)
    BY BodyRowsAre DEF BodyRowsOf
  <2> QED BY <1>1, <2>1 DEF Taken
<1>6. Reached("ChunkSize", "ChunkSize", w) = "ChunkSize"
  BY DEF Reached
<1>7. Reads(rows, Reader("ChunkSize", ks[0], ms[0]), w, Reader("ChunkSize", ks[n], ms[n]))
  BY <1>1, <1>4, <1>5, <1>6, Takes
<1> QED BY <1>2, <1>3, <1>7

\* What an extension and the value of a trailer consist of.
Remark == Seq(ASymbols("alnum") \cup {SP})

\* An extension and the value of a trailer are texts.
LEMMA RemarkText ==
  \A w \in Remark : /\ w \in AText /\ Len(w) \in Nat
                    /\ \A i \in 1 .. Len(w) : w[i] \in ASymbols("alnum") \/ w[i] = SP
<1> TAKE w \in Remark
<1>1. ASymbols("alnum") \cup {SP} \subseteq Alphabet
  BY HexSymbols, SymbolsTyped
<1>2. w \in AText
  BY <1>1, SeqWidened DEF AText, Remark
<1>3. Len(w) \in Nat /\ \A i \in 1 .. Len(w) : w[i] \in ASymbols("alnum") \cup {SP}
  BY ElementOfSeq, LenProperties DEF Remark
<1> QED BY <1>2, <1>3

\* They are skipped.
LEMMA RemarkReads ==
  ASSUME NEW rows, NEW s, NEW k, NEW m, NEW w \in Remark, NEW r1, NEW r2,
         \A c \in ASymbols("alnum") : Only(rows, s, c, r1),
         Only(rows, s, SP, r2),
         r1[3] = s, r2[3] = s, r1[4] = "skip", r2[4] = "skip"
  PROVE  Reads(rows, Reader(s, k, m), w, Reader(s, k, m))
<1>1. w \in AText /\ \A i \in 1 .. Len(w) : w[i] \in ASymbols("alnum") \/ w[i] = SP
  BY RemarkText
<1>2. Taken(rows, s, s, w, "skip")
  BY <1>1 DEF Taken
<1>3. Reached(s, s, w) = s
  BY DEF Reached
<1> QED BY <1>1, <1>2, <1>3, SkipsAll

\* The line of a chunk's size, after the digits.
LEMMA ExtensionReads ==
  ASSUME NEW rows \in Tables, NEW k, NEW m, NEW e, AnExtension(e)
  PROVE  Reads(rows, Reader("ChunkSize", k, m), RenderExtension(e) \o <<"\r">>,
               Reader("ChunkSizeNewLine", k, m))
<1> DEFINE R(s) == Reader(s, k, m)
           a == e.name
           b == e.value
<1>1. a \in Remark /\ b \in Remark /\ (a = <<>> => b = <<>>)
  BY DEF AnExtension, Remark
<1>2. a \in AText /\ b \in AText
  BY <1>1, RemarkText
<1> HIDE DEF a, b
<1>3. /\ Reads(rows, R("ChunkSize"), <<"\r">>, R("ChunkSizeNewLine"))
      /\ Reads(rows, R("ChunkExtensionName"), <<"\r">>, R("ChunkSizeNewLine"))
      /\ Reads(rows, R("ChunkExtensionValue"), <<"\r">>, R("ChunkSizeNewLine"))
  <2>1. /\ Only(rows, "ChunkSize", "\r", <<"ChunkSize", "\r", "ChunkSizeNewLine", "skip">>)
        /\ Only(rows, "ChunkExtensionName", "\r", <<"ChunkExtensionName", "\r", "ChunkSizeNewLine", "skip">>)
        /\ Only(rows, "ChunkExtensionValue", "\r", <<"ChunkExtensionValue", "\r", "ChunkSizeNewLine", "skip">>)
    BY BodyRowsAre DEF BodyRowsOf
  <2>2. Reads(rows, R("ChunkSize"), <<"\r">>, R("ChunkSizeNewLine"))
    BY <2>1, Skips, SymbolsTyped
  <2>3. Reads(rows, R("ChunkExtensionName"), <<"\r">>, R("ChunkSizeNewLine"))
    BY <2>1, Skips, SymbolsTyped
  <2>4. Reads(rows, R("ChunkExtensionValue"), <<"\r">>, R("ChunkSizeNewLine"))
    BY <2>1, Skips, SymbolsTyped
  <2> QED BY <2>2, <2>3, <2>4
<1>4. Reads(rows, R("ChunkSize"), <<Semicolon>>, R("ChunkExtensionName"))
  <2>1. Only(rows, "ChunkSize", Semicolon, <<"ChunkSize", Semicolon, "ChunkExtensionName", "skip">>)
    BY BodyRowsAre DEF BodyRowsOf
  <2> QED BY <2>1, Skips, SymbolsTyped
<1>5. Reads(rows, R("ChunkExtensionName"), <<"=">>, R("ChunkExtensionValue"))
  <2>1. Only(rows, "ChunkExtensionName", "=", <<"ChunkExtensionName", "=", "ChunkExtensionValue", "skip">>)
    BY BodyRowsAre DEF BodyRowsOf
  <2> QED BY <2>1, Skips, SymbolsTyped
<1>6. Reads(rows, R("ChunkExtensionName"), a, R("ChunkExtensionName"))
  <2> DEFINE r1 == <<"ChunkExtensionName", "alnum", "ChunkExtensionName", "skip">>
             r2 == <<"ChunkExtensionName", SP, "ChunkExtensionName", "skip">>
  <2>1. /\ \A c \in ASymbols("alnum") : Only(rows, "ChunkExtensionName", c, r1)
        /\ Only(rows, "ChunkExtensionName", SP, r2)
    BY BodyRowsAre DEF BodyRowsOf
  <2>2. r1[3] = "ChunkExtensionName" /\ r2[3] = "ChunkExtensionName" /\ r1[4] = "skip" /\ r2[4] = "skip"
    OBVIOUS
  <2> HIDE DEF r1, r2
  <2> QED BY <1>1, <2>1, <2>2, RemarkReads
<1>7. Reads(rows, R("ChunkExtensionValue"), b, R("ChunkExtensionValue"))
  <2> DEFINE r1 == <<"ChunkExtensionValue", "alnum", "ChunkExtensionValue", "skip">>
             r2 == <<"ChunkExtensionValue", SP, "ChunkExtensionValue", "skip">>
  <2>1. /\ \A c \in ASymbols("alnum") : Only(rows, "ChunkExtensionValue", c, r1)
        /\ Only(rows, "ChunkExtensionValue", SP, r2)
    BY BodyRowsAre DEF BodyRowsOf
  <2>2. r1[3] = "ChunkExtensionValue" /\ r2[3] = "ChunkExtensionValue" /\ r1[4] = "skip" /\ r2[4] = "skip"
    OBVIOUS
  <2> HIDE DEF r1, r2
  <2> QED BY <1>1, <2>1, <2>2, RemarkReads
<1> HIDE DEF R
<1>8. RenderExtension(e) = After(Semicolon, a) \o After("=", b)
  BY DEF RenderExtension, a, b
<1>9. CASE a = <<>>
  <2>1. RenderExtension(e) = <<>> \o <<>>
    BY <1>1, <1>8, <1>9 DEF After
  <2>2. Reads(rows, R("ChunkSize"), <<>>, R("ChunkSize"))
    BY ReadsNothing
  <2> QED BY <1>3, <2>1, <2>2, ReadsBoth DEF R
<1>10. CASE a # <<>> /\ b = <<>>
  <2>1. RenderExtension(e) = (<<Semicolon>> \o a) \o <<>>
    BY <1>8, <1>10 DEF After
  <2>2. Reads(rows, R("ChunkExtensionName"), <<>>, R("ChunkExtensionName"))
    BY ReadsNothing
  <2> QED BY <1>3, <1>4, <1>6, <2>1, <2>2, ReadsBoth DEF R
<1>11. CASE a # <<>> /\ b # <<>>
  <2>1. RenderExtension(e) = (<<Semicolon>> \o a) \o (<<"=">> \o b)
    BY <1>8, <1>11 DEF After
  <2>2. Reads(rows, R("ChunkSize"), <<Semicolon>> \o a, R("ChunkExtensionName"))
    BY <1>4, <1>6, ReadsBoth
  <2>3. Reads(rows, R("ChunkExtensionName"), <<"=">> \o b, R("ChunkExtensionValue"))
    BY <1>5, <1>7, ReadsBoth
  <2> QED BY <1>3, <2>1, <2>2, <2>3, ReadsBoth DEF R
<1> QED BY <1>9, <1>10, <1>11

\* At the end of its line the size of a chunk becomes a number, and 0 ends the chunks.
LEMMA ChunkStartDone ==
  ASSUME NEW s, NEW t, NEW n, NEW m, NEW c
  PROVE  Done("chunkStart", Reader(s, Chunked(t, n), m), c)
           = Reader(IF strtol16(t) = 0 THEN "ChunkSizeNewLine_2" ELSE "ChunkData",
                    Chunked(<<>>, strtol16(t)), m)
<1> DEFINE y == TRUE
           R(v, x, z) == Reader(v, Counters(0, x, z, y), m)
           p == R(s, t, n)
           u == strtol16(t)
           e == <<>>
           v == IF u = 0 THEN "ChunkSizeNewLine_2" ELSE "ChunkData"
           F(x, a) == [x EXCEPT !.chunkSize = a]
           G(x, a) == [x EXCEPT !.chunkSizeStr = a]
           H(x, a) == [x EXCEPT !.state = a]
<1> HIDE DEF y, e, u
<1>1. p.chunkSizeStr = t
  BY DEF Reader, Counters
<1>2. /\ \A a, b, z, x : F(R(a, b, z), x) = R(a, b, x)
      /\ \A a, b, z, x : G(R(a, b, z), x) = R(a, x, z)
      /\ \A a, b, z, x : H(R(a, b, z), x) = R(x, b, z)
  <2>1. \A a, b, z, x : F(R(a, b, z), x) = R(a, b, x)
    BY DEF Reader, Counters
  <2>2. \A a, b, z, x : G(R(a, b, z), x) = R(a, x, z)
    BY DEF Reader, Counters
  <2>3. \A a, b, z, x : H(R(a, b, z), x) = R(x, b, z)
    BY DEF Reader
  <2> HIDE DEF F, G, H, R
  <2> QED BY <2>1, <2>2, <2>3
<1>3. Done("chunkStart", p, c) = ChunkStart(p)
  <2> HIDE DEF p
  <2> QED BY DEF Done, Texts, Numbers
<1> HIDE DEF p, R, v
<1>4. ChunkStart(p) = H(G(F(p, u), e), v)
  BY <1>1 DEF ChunkStart, u, e, v
<1> HIDE DEF F, G, H
<1>5. H(G(F(p, u), e), v) = R(v, e, u)
  BY <1>2 DEF p
<1> QED BY <1>3, <1>4, <1>5 DEF p, R, y, e, u, v, Chunked

\* The end of the line.
LEMMA ChunkLineEnds ==
  ASSUME NEW rows \in Tables, NEW t, NEW m
  PROVE  Reads(rows, Reader("ChunkSizeNewLine", Chunked(t, 0), m), <<"\n">>,
               Reader(IF strtol16(t) = 0 THEN "ChunkSizeNewLine_2" ELSE "ChunkData",
                      Chunked(<<>>, strtol16(t)), m))
<1> DEFINE r == <<"ChunkSizeNewLine", "\n", "ChunkData", "chunkStart">>
           q == Reader(IF strtol16(t) = 0 THEN "ChunkSizeNewLine_2" ELSE "ChunkData",
                       Chunked(<<>>, strtol16(t)), m)
<1>1. Only(rows, "ChunkSizeNewLine", "\n", r)
  BY BodyRowsAre DEF BodyRowsOf
<1>2. r[3] = "ChunkData" /\ r[4] = "chunkStart"
  OBVIOUS
<1> HIDE DEF r
<1>3. q = Done(r[4], Reader(r[3], Chunked(t, 0), m), "\n")
  BY <1>2, ChunkStartDone
<1>4. q.result # "ParsingError"
  BY ReaderReady
<1> HIDE DEF q
<1>5. Reads(rows, Reader("ChunkSizeNewLine", Chunked(t, 0), m), <<"\n">>, q)
  BY <1>1, <1>3, <1>4, ReadsByRow, SymbolsTyped
<1> QED BY <1>5 DEF q

AChunks == [size : Seq(Range(HexDigits)), data : AText \ {<<>>}]

\* Between two chunks.
NextChunk(m) == Reader("ChunkSize", Chunked(<<>>, 0), m)

\* A chunk is read: its size, its extension and its data.
LEMMA ChunkReads ==
  ASSUME NEW rows \in Tables, NEW m \in AMessages, NEW x \in AChunks,
         strtol16(x.size) = Len(x.data), NEW e, AnExtension(e)
  PROVE  Reads(rows, NextChunk(m), RenderChunk(x, e), NextChunk(Holding(m, m["content"] \o x.data)))
<1> DEFINE w == x.size
           d == x.data
           n == Holding(m, m["content"] \o d)
           ext == RenderExtension(e)
<1>1. w \in Seq(Range(HexDigits)) /\ d \in AText /\ d # <<>> /\ strtol16(w) = Len(d)
  BY DEF AChunks
<1>2. strtol16(w) # 0
  BY <1>1, EmptySeq DEF AText
<1> HIDE DEF w, d
<1>3. Reads(rows, NextChunk(m), w, Reader("ChunkSize", Chunked(w, 0), m))
  BY <1>1, SizeReads DEF NextChunk
<1>4. Reads(rows, Reader("ChunkSize", Chunked(w, 0), m), ext \o <<"\r">>,
            Reader("ChunkSizeNewLine", Chunked(w, 0), m))
  BY ExtensionReads
<1>5. Reads(rows, Reader("ChunkSizeNewLine", Chunked(w, 0), m), <<"\n">>,
            Reader("ChunkData", Chunked(<<>>, Len(d)), m))
  BY <1>1, <1>2, ChunkLineEnds
<1>6. Reads(rows, Reader("ChunkData", Chunked(<<>>, Len(d)), m), d,
            Reader("ChunkDataNewLine_1", Chunked(<<>>, 0), n))
  BY <1>1, ChunkDataReads
<1> HIDE DEF n, ext
<1>7. Reads(rows, Reader("ChunkDataNewLine_1", Chunked(<<>>, 0), n), CRLF, NextChunk(n))
  <2>1. /\ Only(rows, "ChunkDataNewLine_1", "\r", <<"ChunkDataNewLine_1", "\r", "ChunkDataNewLine_2", "skip">>)
        /\ Only(rows, "ChunkDataNewLine_2", "\n", <<"ChunkDataNewLine_2", "\n", "ChunkSize", "skip">>)
    BY BodyRowsAre DEF BodyRowsOf
  <2>2. Reads(rows, Reader("ChunkDataNewLine_1", Chunked(<<>>, 0), n), <<"\r">>,
              Reader("ChunkDataNewLine_2", Chunked(<<>>, 0), n))
    BY <2>1, Skips, SymbolsTyped
  <2>3. Reads(rows, Reader("ChunkDataNewLine_2", Chunked(<<>>, 0), n), <<"\n">>,
              Reader("ChunkSize", Chunked(<<>>, 0), n))
    BY <2>1, Skips, SymbolsTyped
  <2> QED BY <2>2, <2>3, ReadsTwo DEF CRLF, NextChunk
<1>8. CRLF = <<"\r">> \o <<"\n">>
  BY DEF CRLF
<1>9. ext \in AText /\ <<"\r">> \in AText /\ <<"\n">> \in AText
  <2>1. <<"\r">> \in AText /\ <<"\n">> \in AText
    BY SymbolsTyped DEF AText
  <2>2. After(Semicolon, e.name) \in AText /\ After("=", e.value) \in AText
    <3>1. e.name \in AText /\ e.value \in AText
      BY RemarkText DEF AnExtension, Remark
    <3>2. <<Semicolon>> \in AText /\ <<"=">> \in AText /\ <<>> \in AText
      BY SymbolsTyped DEF AText
    <3> QED BY <3>1, <3>2, Joined DEF After
  <2> QED BY <2>1, <2>2, Joined DEF RenderExtension, ext
<1>10. Reads(rows, NextChunk(m), w \o ext \o CRLF, Reader("ChunkData", Chunked(<<>>, Len(d)), m))
  <2>1. w \in AText
    BY <1>3 DEF Reads
  <2>2. Reads(rows, NextChunk(m), (w \o (ext \o <<"\r">>)) \o <<"\n">>,
              Reader("ChunkData", Chunked(<<>>, Len(d)), m))
    BY <1>3, <1>4, <1>5, ReadsBoth
  <2>3. w \o (ext \o <<"\r">>) = (w \o ext) \o <<"\r">>
    BY <1>9, <2>1, ConcatAssociates
  <2>4. w \o ext \in AText
    BY <1>9, <2>1, Joined
  <2>5. (w \o ext) \o (<<"\r">> \o <<"\n">>) = ((w \o ext) \o <<"\r">>) \o <<"\n">>
    BY <1>9, <2>4, ConcatAssociates
  <2> QED BY <1>8, <2>2, <2>3, <2>5
<1>11. Reads(rows, NextChunk(m), w \o ext \o CRLF \o d \o CRLF, NextChunk(n))
  BY <1>6, <1>7, <1>10, ReadsBoth
<1> QED BY <1>11 DEF RenderChunk, w, d, ext, n

\* Any number of chunks are read, and their data put together.
LEMMA ChunksRead ==
  ASSUME NEW rows \in Tables, NEW m \in AMessages, m["content"] = <<>>, NEW e, AnExtension(e),
         NEW chunks \in Seq(AChunks),
         \A i \in DOMAIN chunks : strtol16(chunks[i].size) = Len(chunks[i].data)
  PROVE  LET t == Concat([i \in DOMAIN chunks |-> chunks[i].data])
         IN  /\ Reads(rows, NextChunk(m), Concat([i \in DOMAIN chunks |-> RenderChunk(chunks[i], e)]),
                      NextChunk(Holding(m, t)))
             /\ t \in AText
<1> DEFINE n == Len(chunks)
           D(i) == chunks[i].data
           T(i) == RenderChunk(chunks[i], e)
           ds == [i \in 1 .. n |-> D(i)]
           ss == [i \in 1 .. n |-> T(i)]
           t == Concat(ds)
<1>1. /\ n \in Nat /\ DOMAIN chunks = 1 .. n
      /\ \A i \in 1 .. n : chunks[i] \in AChunks /\ strtol16(chunks[i].size) = Len(chunks[i].data)
  BY LenProperties, ElementOfSeq
<1>2. ASSUME NEW i \in 1 .. n, NEW f \in AText
      PROVE  /\ Reads(rows, NextChunk(Holding(m, f)), T(i), NextChunk(Holding(m, f \o D(i))))
             /\ D(i) \in AText /\ T(i) \in AText
  <2> DEFINE x == chunks[i]
             h == Holding(m, f)
  <2>1. x \in AChunks /\ strtol16(x.size) = Len(x.data)
    BY <1>1
  <2>2. h \in AMessages /\ h["content"] = f /\ \A u : Holding(h, u) = Holding(m, u)
    BY HoldingTyped
  <2>3. x.data \in AText
    BY <2>1 DEF AChunks
  <2> HIDE DEF x, h
  <2>4. Reads(rows, NextChunk(h), RenderChunk(x, e), NextChunk(Holding(h, h["content"] \o x.data)))
    BY <2>1, <2>2, ChunkReads
  <2>5. RenderChunk(x, e) \in AText
    BY <2>4 DEF Reads
  <2> QED BY <2>2, <2>3, <2>4, <2>5 DEF x, h
<1>3. \A i \in 1 .. n : D(i) \in AText /\ T(i) \in AText
  <2>1. <<>> \in AText
    BY DEF AText
  <2> QED BY <1>2, <2>1
<1>4. /\ [i \in DOMAIN chunks |-> RenderChunk(chunks[i], e)] = ss
      /\ [i \in DOMAIN chunks |-> chunks[i].data] = ds
  BY <1>1
<1> HIDE DEF D, T, n
<1>5. ds \in Seq(AText) /\ Len(ds) = n /\ \A i \in 1 .. n : ds[i] = D(i)
  BY <1>1, <1>3
<1>6. ss \in Seq(AText) /\ Len(ss) = n /\ \A i \in 1 .. n : ss[i] = T(i)
  BY <1>1, <1>3
<1> HIDE DEF ds, ss
<1>7. PICK f \in [0 .. n -> AText] : ConcatSteps(ds, f)
  BY <1>5, ConcatIs DEF AText
<1>8. /\ f[0] = <<>> /\ f[n] = t /\ t \in AText
      /\ \A i \in 1 .. n : f[i - 1] \in AText /\ f[i] = f[i - 1] \o D(i)
  <2>1. n \in 0 .. n /\ \A i \in 1 .. n : i - 1 \in 0 .. n
    BY <1>1
  <2>2. /\ f[0] = <<>> /\ t = f[n]
        /\ \A i \in 1 .. n : f[i] = f[i - 1] \o D(i)
    BY <1>5, <1>7 DEF ConcatSteps
  <2> HIDE DEF t
  <2> QED BY <1>7, <2>1, <2>2
<1> DEFINE P(i) == NextChunk(Holding(m, f[i]))
           g == [i \in 0 .. n |-> P(i)]
<1>9. g[0] = P(0) /\ g[n] = P(n) /\ \A i \in 1 .. n : g[i - 1] = P(i - 1) /\ g[i] = P(i)
  <2> HIDE DEF P
  <2> QED BY <1>1
<1> HIDE DEF g, t
<1>10. \A i \in 1 .. Len(ss) : Reads(rows, g[i - 1], ss[i], g[i])
  <2> SUFFICES ASSUME NEW i \in 1 .. n PROVE Reads(rows, g[i - 1], ss[i], g[i])
    BY <1>6
  <2> DEFINE u == f[i - 1]
  <2>1. u \in AText /\ f[i] = u \o D(i)
    BY <1>8
  <2>2. g[i - 1] = NextChunk(Holding(m, u)) /\ g[i] = NextChunk(Holding(m, f[i]))
    BY <1>9
  <2> HIDE DEF u
  <2>3. Reads(rows, NextChunk(Holding(m, u)), T(i), NextChunk(Holding(m, u \o D(i))))
    BY <1>2, <2>1
  <2> QED BY <1>6, <2>1, <2>2, <2>3
<1>11. Reads(rows, g[0], Concat(ss), g[Len(ss)])
  BY <1>6, <1>10, ReadsParts
<1>12. Holding(m, <<>>) = m
  <2>1. <<>> \in AText
    BY DEF AText
  <2>2. Holding(m, m["content"]) = m
    BY <2>1, HoldingTyped
  <2> QED BY <2>2
<1>13. Reads(rows, NextChunk(m), Concat(ss), NextChunk(Holding(m, t)))
  BY <1>6, <1>8, <1>9, <1>11, <1>12
<1> QED BY <1>4, <1>8, <1>13 DEF t

\* After the last chunk, and after each trailer.
AfterChunks(m) == Reader("ChunkSizeNewLine_2", Chunked(<<>>, 0), m)

\* The size of the last chunk.
LEMMA ZeroIs == strtol16(<<"0">>) = 0
<1> DEFINE w == <<"0">>
<1>1. "0" \in Range(HexDigits)
  BY HexDigitsAre
<1>2. w \in Seq(Range(HexDigits)) /\ Len(w) = 1 /\ w[1] = "0"
  BY <1>1
<1> HIDE DEF w
<1>3. PICK f : NumberSteps(w, HexDigits, f)
  BY <1>2, TenDigits, NumberIs
<1>4. LeadingDigits(w, HexDigits) = w
  BY <1>2, AllDigits
<1>5. f[0] = 0 /\ f[1] = NumberOf(w, HexDigits) /\ f[1] = f[0] * Len(HexDigits) + DigitValue("0", HexDigits)
  <2>1. /\ f[0] = 0 /\ f[Len(w)] = NumberOf(w, HexDigits)
        /\ \A i \in 1 .. Len(w) : f[i] = f[i - 1] * Len(HexDigits) + DigitValue(w[i], HexDigits)
    BY <1>3, <1>4 DEF NumberSteps
  <2>2. 1 \in 1 .. Len(w) /\ 1 - 1 = 0
    BY <1>2
  <2>3. f[1] = f[1 - 1] * Len(HexDigits) + DigitValue(w[1], HexDigits)
    BY <2>1, <2>2
  <2> QED BY <1>2, <2>1, <2>2, <2>3
<1>6. DigitValue("0", HexDigits) = 0
  <2> DEFINE I == {i \in 1 .. Len(HexDigits) : HexDigits[i] = "0"}
  <2>1. Len(HexDigits) \in Nat
    BY TenDigits, LenProperties
  <2>2. HexDigits[1] = "0" /\ 1 \in 1 .. Len(HexDigits)
    <3> DEFINE t == <<"a", "b", "c", "d", "e", "f">>
               S == Range(Digits) \cup {"a", "b", "c", "d", "e", "f"}
    <3>1. Digits \in Seq(S) /\ t \in Seq(S)
      BY TenDigits, SeqWidened
    <3>2. HexDigits = Digits \o t /\ Len(t) = 6
      BY DEF HexDigits
    <3>3. Digits[1] = "0"
      BY DEF Digits
    <3> HIDE DEF t, S
    <3>4. /\ Len(Digits \o t) = Len(Digits) + Len(t)
          /\ \A i \in 1 .. Len(Digits) + Len(t) :
               (Digits \o t)[i] = IF i <= Len(Digits) THEN Digits[i] ELSE t[i - Len(Digits)]
      BY <3>1, ConcatProperties
    <3>5. Len(Digits) + Len(t) = 16 /\ 1 \in 1 .. Len(Digits) + Len(t) /\ 1 <= Len(Digits)
      BY <3>2, TenDigits
    <3>6. (Digits \o t)[1] = Digits[1]
      BY <3>4, <3>5
    <3>7. 1 \in 1 .. Len(HexDigits)
      BY <3>2, <3>4, <3>5
    <3> QED BY <3>2, <3>3, <3>6, <3>7
  <2>3. 1 \in I /\ I \subseteq Nat /\ \A i \in I : 1 <= i
    BY <2>1, <2>2
  <2> HIDE DEF I
  <2>4. Min(I) \in I /\ \A i \in I : Min(I) <= i
    BY <2>3, MinFacts
  <2>5. Min(I) = 1
    <3> DEFINE j == Min(I)
    <3>1. j \in Nat /\ j <= 1 /\ 1 <= j
      BY <2>3, <2>4
    <3> HIDE DEF j
    <3>2. j = 1
      BY <3>1
    <3> QED BY <3>2 DEF j
  <2>6. SelectInSeq(HexDigits, LAMBDA d : d = "0") = 1
    BY <2>3, <2>5 DEF SelectInSeq, I
  <2> QED BY <2>6 DEF DigitValue
<1>7. NumberOf(w, HexDigits) = 0
  <2>1. Len(HexDigits) \in Nat
    BY TenDigits, LenProperties
  <2> QED BY <1>5, <1>6, <2>1
<1> QED BY <1>7 DEF strtol16, w

\* The last chunk leads to the trailers.
LEMMA LastChunkReads ==
  ASSUME NEW rows \in Tables, NEW m
  PROVE  Reads(rows, NextChunk(m), <<"0">> \o CRLF, AfterChunks(m))
<1> DEFINE w == <<"0">>
<1>1. w \in Seq(Range(HexDigits))
  <2>1. "0" \in Range(HexDigits)
    BY HexDigitsAre
  <2> QED BY <2>1
<1>2. strtol16(w) = 0
  BY ZeroIs
<1> HIDE DEF w
<1>3. Reads(rows, NextChunk(m), w, Reader("ChunkSize", Chunked(w, 0), m))
  BY <1>1, SizeReads DEF NextChunk
<1>4. Reads(rows, Reader("ChunkSize", Chunked(w, 0), m), <<"\r">>,
            Reader("ChunkSizeNewLine", Chunked(w, 0), m))
  <2>1. Only(rows, "ChunkSize", "\r", <<"ChunkSize", "\r", "ChunkSizeNewLine", "skip">>)
    BY BodyRowsAre DEF BodyRowsOf
  <2> QED BY <2>1, Skips, SymbolsTyped
<1>5. Reads(rows, Reader("ChunkSizeNewLine", Chunked(w, 0), m), <<"\n">>, AfterChunks(m))
  BY <1>2, ChunkLineEnds DEF AfterChunks
<1>6. Reads(rows, Reader("ChunkSize", Chunked(w, 0), m), CRLF, AfterChunks(m))
  BY <1>4, <1>5, ReadsTwo DEF CRLF
<1>7. Reads(rows, NextChunk(m), w \o CRLF, AfterChunks(m))
  BY <1>3, <1>6, ReadsBoth
<1> QED BY <1>7 DEF w

\* The name of a trailer is skipped.
LEMMA TrailerNameReads ==
  ASSUME NEW rows \in Tables, NEW k, NEW m, NEW w \in AWords("alnum"), w[1] \notin Range(Digits)
  PROVE  Reads(rows, Reader("ChunkSizeNewLine_2", k, m), w, Reader("ChunkTrailerName", k, m))
<1> DEFINE S == ASymbols("alnum")
<1>1. PICK c \in S : \E u \in Seq(S) : w = <<c>> \o u /\ c = w[1]
  <2>1. w \in Seq(S) /\ w # <<>>
    BY DEF AWords
  <2> HIDE DEF S
  <2> QED BY <2>1, FirstAndOthers
<1>2. PICK u \in Seq(S) : w = <<c>> \o u /\ c = w[1]
  BY <1>1
<1>3. c \in Alphabet /\ u \in AText
  BY Written, HexSymbols
<1>4. Reads(rows, Reader("ChunkSizeNewLine_2", k, m), <<c>>, Reader("ChunkTrailerName", k, m))
  <2> DEFINE p == Reader("ChunkTrailerName", k, m)
             r == <<"ChunkSizeNewLine_2", "alnum", "ChunkTrailerName", "trailer">>
  <2>1. Done("trailer", p, c) = p
    <3> HIDE DEF p
    <3> QED BY <1>2 DEF Done, Texts, Numbers
  <2>2. Only(rows, "ChunkSizeNewLine_2", c, r)
    BY BodyRowsAre DEF BodyRowsOf
  <2>3. r[3] = "ChunkTrailerName" /\ r[4] = "trailer"
    OBVIOUS
  <2>4. p.result # "ParsingError"
    BY ReaderReady
  <2> HIDE DEF r
  <2>5. p = Done(r[4], Reader(r[3], k, m), c)
    BY <2>1, <2>3
  <2> HIDE DEF p
  <2>6. Reads(rows, Reader("ChunkSizeNewLine_2", k, m), <<c>>, p)
    BY <1>3, <2>2, <2>4, <2>5, ReadsByRow
  <2> QED BY <2>6 DEF p
<1>5. Taken(rows, "ChunkTrailerName", "ChunkTrailerName", u, "skip")
  <2> DEFINE r == <<"ChunkTrailerName", "alnum", "ChunkTrailerName", "skip">>
  <2>1. \A d \in ASymbols("alnum") : Only(rows, "ChunkTrailerName", d, r)
    BY BodyRowsAre DEF BodyRowsOf
  <2>2. r[3] = "ChunkTrailerName" /\ r[4] = "skip"
    OBVIOUS
  <2> HIDE DEF r
  <2> QED BY <2>1, <2>2, TakenIs
<1>6. Reached("ChunkTrailerName", "ChunkTrailerName", u) = "ChunkTrailerName"
  BY DEF Reached
<1>7. Reads(rows, Reader("ChunkTrailerName", k, m), u, Reader("ChunkTrailerName", k, m))
  BY <1>3, <1>5, <1>6, SkipsAll
<1> QED BY <1>2, <1>4, <1>7, ReadsBoth

\* A trailer is skipped.
LEMMA TrailerReads ==
  ASSUME NEW rows \in Tables, NEW m, NEW h \in AWrittenTrailers
  PROVE  Reads(rows, AfterChunks(m), RenderHeader(h), AfterChunks(m))
<1> DEFINE a == h.name
           b == h.value
           k == Chunked(<<>>, 0)
           R(s) == Reader(s, k, m)
<1>1. a \in AWords("alnum") /\ b \in Remark /\ h.folds = <<>> /\ a[1] \notin Range(Digits)
  BY DEF AWrittenTrailers, Remark
<1>2. RenderHeader(h) = a \o <<":", SP>> \o b \o <<>> \o CRLF
  <2>1. [i \in DOMAIN h.folds |-> RenderFold(h.folds[i])] = <<>>
    BY <1>1
  <2> QED BY <2>1, ConcatEmpty DEF RenderHeader
<1> HIDE DEF a, b
<1>3. b \in AText
  BY <1>1, RemarkText
<1>4. Reads(rows, R("ChunkSizeNewLine_2"), a, R("ChunkTrailerName"))
  BY <1>1, TrailerNameReads
<1>5. Reads(rows, R("ChunkTrailerName"), <<":", SP>>, R("ChunkTrailerValue"))
  <2>1. /\ Only(rows, "ChunkTrailerName", ":", <<"ChunkTrailerName", ":", "ChunkTrailerValue", "skip">>)
        /\ Only(rows, "ChunkTrailerValue", SP, <<"ChunkTrailerValue", SP, "ChunkTrailerValue", "skip">>)
    BY BodyRowsAre DEF BodyRowsOf
  <2>2. Reads(rows, R("ChunkTrailerName"), <<":">>, R("ChunkTrailerValue"))
    BY <2>1, Skips, SymbolsTyped
  <2>3. Reads(rows, R("ChunkTrailerValue"), <<SP>>, R("ChunkTrailerValue"))
    BY <2>1, Skips, SymbolsTyped
  <2> HIDE DEF R
  <2> QED BY <2>2, <2>3, ReadsTwo
<1>6. Reads(rows, R("ChunkTrailerValue"), b, R("ChunkTrailerValue"))
  <2> DEFINE r1 == <<"ChunkTrailerValue", "alnum", "ChunkTrailerValue", "skip">>
             r2 == <<"ChunkTrailerValue", SP, "ChunkTrailerValue", "skip">>
  <2>1. /\ \A c \in ASymbols("alnum") : Only(rows, "ChunkTrailerValue", c, r1)
        /\ Only(rows, "ChunkTrailerValue", SP, r2)
    BY BodyRowsAre DEF BodyRowsOf
  <2>2. r1[3] = "ChunkTrailerValue" /\ r2[3] = "ChunkTrailerValue" /\ r1[4] = "skip" /\ r2[4] = "skip"
    OBVIOUS
  <2> HIDE DEF r1, r2
  <2> QED BY <1>1, <2>1, <2>2, RemarkReads
<1>7. Reads(rows, R("ChunkTrailerValue"), <<"\r">>, R("ChunkSizeNewLine"))
  <2>1. Only(rows, "ChunkTrailerValue", "\r", <<"ChunkTrailerValue", "\r", "ChunkSizeNewLine", "skip">>)
    BY BodyRowsAre DEF BodyRowsOf
  <2> QED BY <2>1, Skips, SymbolsTyped
<1>8. Reads(rows, R("ChunkSizeNewLine"), <<"\n">>, R("ChunkSizeNewLine_2"))
  <2>1. Reads(rows, R("ChunkSizeNewLine"), <<"\n">>,
              Reader(IF strtol16(<<>>) = 0 THEN "ChunkSizeNewLine_2" ELSE "ChunkData",
                     Chunked(<<>>, strtol16(<<>>)), m))
    BY ChunkLineEnds
  <2> QED BY <2>1, NoDigits
<1> HIDE DEF R
<1>9. Reads(rows, R("ChunkTrailerValue"), CRLF, R("ChunkSizeNewLine_2"))
  BY <1>7, <1>8, ReadsTwo DEF CRLF
<1>10. Reads(rows, R("ChunkTrailerValue"), <<>>, R("ChunkTrailerValue"))
  BY ReadsNothing
<1>11. Reads(rows, R("ChunkSizeNewLine_2"), a \o <<":", SP>> \o b \o <<>> \o CRLF, R("ChunkSizeNewLine_2"))
  BY <1>4, <1>5, <1>6, <1>9, <1>10, ReadsBoth
<1> QED BY <1>2, <1>11 DEF R, AfterChunks

\* Any number of trailers are skipped.
LEMMA TrailersRead ==
  ASSUME NEW rows \in Tables, NEW m, NEW list \in Seq(AWrittenTrailers)
  PROVE  Reads(rows, AfterChunks(m), RenderHeaders(list), AfterChunks(m))
<1> DEFINE n == Len(list)
           T(i) == RenderHeader(list[i])
           ss == [i \in 1 .. n |-> T(i)]
           p == AfterChunks(m)
           g == [i \in 0 .. n |-> p]
<1>1. n \in Nat /\ DOMAIN list = 1 .. n
  BY LenProperties
<1>2. ASSUME NEW i \in 1 .. n
      PROVE  Reads(rows, p, T(i), p) /\ T(i) \in AText
  <2> DEFINE h == list[i]
  <2>1. h \in AWrittenTrailers
    BY ElementOfSeq
  <2> HIDE DEF h
  <2>2. Reads(rows, p, RenderHeader(h), p)
    BY <2>1, TrailerReads
  <2>3. RenderHeader(h) \in AText
    BY <2>2 DEF Reads
  <2> QED BY <2>2, <2>3 DEF h
<1>3. RenderHeaders(list) = Concat(ss)
  BY <1>1 DEF RenderHeaders
<1> HIDE DEF T, n, p
<1>4. ss \in Seq(AText) /\ Len(ss) = n /\ \A i \in 1 .. n : ss[i] = T(i)
  BY <1>1, <1>2
<1>5. g[0] = p /\ g[n] = p /\ \A i \in 1 .. n : g[i - 1] = p /\ g[i] = p
  BY <1>1
<1> HIDE DEF ss, g
<1>6. \A i \in 1 .. Len(ss) : Reads(rows, g[i - 1], ss[i], g[i])
  BY <1>2, <1>4, <1>5
<1>7. Reads(rows, g[0], Concat(ss), g[Len(ss)])
  BY <1>4, <1>6, ReadsParts
<1> QED BY <1>3, <1>4, <1>5, <1>7 DEF p

\* The empty line after the trailers ends the message.
LEMMA MessageEnds ==
  ASSUME NEW rows \in Tables, NEW m
  PROVE  \E s : \E k : Reads(rows, AfterChunks(m), CRLF, Completed(Reader(s, k, m)))
<1> DEFINE k == Chunked(<<>>, 0)
           R(s) == Reader(s, k, m)
           p == R("ChunkSizeNewLine_3")
           q == Completed(p)
           r == <<"ChunkSizeNewLine_3", "\n", "ChunkSizeNewLine_3", "complete">>
<1>1. /\ Only(rows, "ChunkSizeNewLine_2", "\r", <<"ChunkSizeNewLine_2", "\r", "ChunkSizeNewLine_3", "skip">>)
      /\ Only(rows, "ChunkSizeNewLine_3", "\n", r)
  BY BodyRowsAre DEF BodyRowsOf
<1>2. Reads(rows, R("ChunkSizeNewLine_2"), <<"\r">>, p)
  BY <1>1, Skips, SymbolsTyped
<1>3. r[3] = "ChunkSizeNewLine_3" /\ r[4] = "complete"
  OBVIOUS
<1>4. Done("complete", p, "\n") = q
  <2> HIDE DEF p
  <2> QED BY DEF Done, Texts, Numbers
<1>5. q.result # "ParsingError"
  BY CompletedReader
<1> HIDE DEF r, q
<1>6. Reads(rows, p, <<"\n">>, q)
  BY <1>1, <1>3, <1>4, <1>5, ReadsByRow, SymbolsTyped
<1> HIDE DEF R, p
<1>7. Reads(rows, R("ChunkSizeNewLine_2"), CRLF, q)
  BY <1>2, <1>6, ReadsTwo DEF CRLF
<1> QED BY <1>7 DEF AfterChunks, R, p, q

\* A parser that has read the whole message m.
HasCompleted(q, m) == q.result = "ParsingCompleted" /\ q.message = m

\* A body in chunks is read to its end.
LEMMA ChunkedReads ==
  ASSUME NEW rows \in Tables, NEW m \in AMessages, m["content"] = <<>>,
         NEW body, ABody(body), body.kind = "chunked"
  PROVE  /\ \E q : Reads(rows, NextChunk(m), RenderBody(body), q) /\ HasCompleted(q, Holding(m, Content(body)))
         /\ Content(body) \in AText
<1> DEFINE chunks == body.chunks
           e == body.extension
           t == Concat([i \in DOMAIN chunks |-> chunks[i].data])
           w == Concat([i \in DOMAIN chunks |-> RenderChunk(chunks[i], e)])
           n == Holding(m, t)
           trailers == RenderHeaders(body.trailers)
<1>1. /\ chunks \in Seq(AChunks) /\ AnExtension(e) /\ body.trailers \in Seq(AWrittenTrailers)
      /\ \A i \in DOMAIN chunks : strtol16(chunks[i].size) = Len(chunks[i].data)
  BY DEF ABody, AChunks
<1>2. Content(body) = t /\ RenderBody(body) = w \o <<"0">> \o CRLF \o trailers \o CRLF
  BY DEF Content, RenderBody
<1>3. Reads(rows, NextChunk(m), w, NextChunk(n)) /\ t \in AText
  <2> HIDE DEF chunks, e
  <2> QED BY <1>1, ChunksRead
<1> HIDE DEF n, w, t
<1>4. Reads(rows, NextChunk(n), <<"0">> \o CRLF, AfterChunks(n))
  BY LastChunkReads
<1>5. Reads(rows, AfterChunks(n), trailers, AfterChunks(n))
  BY <1>1, TrailersRead
<1>6. PICK s, k : Reads(rows, AfterChunks(n), CRLF, Completed(Reader(s, k, n)))
  BY MessageEnds
<1> DEFINE q == Completed(Reader(s, k, n))
<1>7. HasCompleted(q, n)
  BY CompletedReader DEF HasCompleted
<1> HIDE DEF q, trailers
<1>8. w \o (<<"0">> \o CRLF) = (w \o <<"0">>) \o CRLF
  <2>1. w \in AText
    BY <1>3 DEF Reads
  <2>2. <<"0">> \in AText
    BY HexDigitsAre DEF AText, Alphabet, isalnum
  <2> QED BY <2>1, <2>2, CRLFText, ConcatAssociates
<1>9. Reads(rows, NextChunk(m), (w \o (<<"0">> \o CRLF)) \o trailers \o CRLF, q)
  BY <1>3, <1>4, <1>5, <1>6, ReadsBoth DEF q
<1>10. Reads(rows, NextChunk(m), RenderBody(body), q)
  BY <1>2, <1>8, <1>9
<1> QED BY <1>2, <1>3, <1>7, <1>10 DEF n

-----------------------------------------------------------------------------
(* The end of the headers, and the body.                                   *)

Kept(m) == Put(m, "keepAlive", KeepsAlive(m))

\* What follows the headers: chunks, a body that has a size, or nothing.
LEMMA EndOfHeadersIs ==
  ASSUME NEW k, NEW m
  PROVE  Done("endOfHeaders", Reader("ExpectingNewline_3", k, m), "\n")
           = CASE k.chunked -> Reader("ChunkSize", k, Kept(m))
               [] ~ k.chunked /\ k.contentSize # 0 -> Reader("Post", k, Kept(m))
               [] OTHER             -> Completed(Reader("ExpectingNewline_3", k, Kept(m)))
<1> DEFINE p == Reader("ExpectingNewline_3", k, m)
           q == Reader("ExpectingNewline_3", k, Kept(m))
<1>1. [p EXCEPT !.message.keepAlive = KeepsAlive(p.message)] = q
  <2>1. \A x : [p EXCEPT !.message = x] = Reader("ExpectingNewline_3", k, x)
    BY DEF Reader
  <2>2. p.message = m
    BY DEF Reader
  <2> HIDE DEF p
  <2> QED BY <2>1, <2>2 DEF Kept, Put
<1>2. q.chunked = k.chunked /\ q.contentSize = k.contentSize
  BY DEF Reader
<1>3. \A s : [q EXCEPT !.state = s] = Reader(s, k, Kept(m))
  BY DEF Reader
<1>4. Done("endOfHeaders", p, "\n") = EndOfHeaders(p, "\n")
  <2> HIDE DEF p
  <2> QED BY DEF Done, Texts, Numbers
<1> HIDE DEF p, q
<1>5. EndOfHeaders(p, "\n")
        = CASE q.chunked -> [q EXCEPT !.state = "ChunkSize"]
            [] ~ q.chunked /\ q.contentSize # 0 -> [q EXCEPT !.state = "Post"]
            [] OTHER             -> Completed(q)
  BY <1>1 DEF EndOfHeaders
<1>6. EndOfHeaders(p, "\n")
        = CASE k.chunked -> Reader("ChunkSize", k, Kept(m))
            [] ~ k.chunked /\ k.contentSize # 0 -> Reader("Post", k, Kept(m))
            [] OTHER             -> Completed(q)
  BY <1>2, <1>3, <1>5
<1> QED BY <1>4, <1>6 DEF p, q

\* The counters of a body that has a size and of one in chunks.
LEMMA CountersAre ==
  \A n, d : /\ ~ Sized(n).chunked /\ Sized(n).contentSize = n
            /\ Chunked(d, n).chunked
BY DEF Sized, Chunked, Counters

\* Noting whether to keep the connection changes nothing else.
LEMMA KeptTyped ==
  ASSUME NEW m \in AMessages
  PROVE  Kept(m) \in AMessages /\ Kept(m)["content"] = m["content"]
<1>1. KeepsAlive(m) \in BOOLEAN
  BY KeepsAliveTyped
<1> DEFINE x == KeepsAlive(m)
<1> HIDE DEF x
<1>2. Put(m, "keepAlive", x) \in AMessages /\ Put(m, "keepAlive", x)["content"] = m["content"]
  BY <1>1 DEF Put, AMessages, x
<1> QED BY <1>2 DEF Kept, x

\* The empty line after the headers does what the end of the headers does.
LEMMA HeadersEnd ==
  ASSUME NEW rows \in Tables, NEW k, NEW m, NEW q, q.result # "ParsingError",
         Done("endOfHeaders", Reader("ExpectingNewline_3", k, m), "\n") = q
  PROVE  Reads(rows, Reader("HeaderLineStart", k, m), CRLF, q)
<1> DEFINE r == <<"ExpectingNewline_3", "any", "ExpectingNewline_3", "endOfHeaders">>
<1>1. /\ Only(rows, "HeaderLineStart", "\r", <<"HeaderLineStart", "\r", "ExpectingNewline_3", "skip">>)
      /\ Only(rows, "ExpectingNewline_3", "\n", r)
  BY HeaderRowsAre DEF HeaderRowsOf
<1>2. Reads(rows, Reader("HeaderLineStart", k, m), <<"\r">>, Reader("ExpectingNewline_3", k, m))
  BY <1>1, Skips, SymbolsTyped
<1>3. r[3] = "ExpectingNewline_3" /\ r[4] = "endOfHeaders"
  OBVIOUS
<1> HIDE DEF r
<1>4. Reads(rows, Reader("ExpectingNewline_3", k, m), <<"\n">>, q)
  BY <1>1, <1>3, ReadsByRow, SymbolsTyped
<1> QED BY <1>2, <1>4, ReadsTwo DEF CRLF

\* The counters by which a body was announced, and its text.
LEMMA MeasuredIs ==
  ASSUME NEW body, ABody(body)
  PROVE  /\ body.kind = "none" => Measured(body) = Sized(0) /\ Content(body) = <<>> /\ RenderBody(body) = <<>>
         /\ body.kind = "sized" => /\ Measured(body) = Sized(Len(Content(body)))
                                   /\ Content(body) = body.content /\ RenderBody(body) = body.content
                                   /\ Content(body) \in AText /\ Len(Content(body)) < SizeModulus
         /\ body.kind = "chunked" => Measured(body) = Chunked(<<>>, 0)
<1>1. CASE body.kind = "none"
  BY <1>1 DEF Measured, AtFirst, Sized, Content, RenderBody
<1>2. CASE body.kind = "sized"
  <2> DEFINE t == body.content
             n == Len(t)
  <2>1. t \in AText /\ atoi(body.size) = n /\ n < SizeModulus
    BY <1>2 DEF ABody
  <2>2. Content(body) = t /\ RenderBody(body) = t
    BY <1>2 DEF Content, RenderBody
  <2>3. Measured(body) = Sized(atoi(body.size) % SizeModulus)
    BY <1>2 DEF Measured, Sized
  <2>4. n % SizeModulus = n
    <3>1. n \in Nat /\ SizeModulus \in Nat \ {0}
      BY <2>1, SizeModulusOK, LenProperties DEF AText
    <3> HIDE DEF n
    <3> QED BY <2>1, <3>1
  <2> QED BY <1>2, <2>1, <2>2, <2>3, <2>4
<1>3. CASE body.kind = "chunked"
  BY <1>3 DEF Measured, Chunked
<1> QED BY <1>1, <1>2, <1>3 DEF ABody

\* A body is read, however it is measured.
LEMMA BodyReads ==
  ASSUME NEW rows \in Tables, NEW m \in AMessages, m["content"] = <<>>, NEW body, ABody(body)
  PROVE  /\ \E p : \E q : /\ Reads(rows, Reader("HeaderLineStart", Measured(body), m), CRLF, p)
                          /\ Reads(rows, p, RenderBody(body), q)
                          /\ HasCompleted(q, Holding(Kept(m), Content(body)))
         /\ Content(body) \in AText
<1> DEFINE k == Measured(body)
           n == Kept(m)
           t == Content(body)
           e == Reader("ExpectingNewline_3", k, m)
           c == Completed(Reader("ExpectingNewline_3", k, n))
<1>1. n \in AMessages /\ n["content"] = <<>>
  BY KeptTyped
<1>2. Done("endOfHeaders", e, "\n")
        = CASE k.chunked -> Reader("ChunkSize", k, n)
            [] ~ k.chunked /\ k.contentSize # 0 -> Reader("Post", k, n)
            [] OTHER             -> c
  BY EndOfHeadersIs
<1>3. <<>> \in AText /\ Len(<<>>) = 0
  BY DEF AText
<1>4. Holding(n, <<>>) = n
  <2>1. Holding(n, n["content"]) = n
    <3> HIDE DEF n
    <3> QED BY <1>1, <1>3, HoldingTyped
  <2> QED BY <1>1, <2>1
<1>5. c.result = "ParsingCompleted" /\ HasCompleted(c, n)
  BY CompletedReader DEF HasCompleted
<1> HIDE DEF n, e, c
<1>6. ASSUME t = <<>>, k = Sized(0), RenderBody(body) = <<>>
      PROVE  \E p : \E q : /\ Reads(rows, Reader("HeaderLineStart", k, m), CRLF, p)
                           /\ Reads(rows, p, RenderBody(body), q)
                           /\ HasCompleted(q, Holding(n, t))
  <2>1. ~ k.chunked /\ k.contentSize = 0
    BY <1>6, CountersAre
  <2> HIDE DEF k, t
  <2>2. Done("endOfHeaders", e, "\n") = c
    BY <1>2, <2>1
  <2>3. Reads(rows, Reader("HeaderLineStart", k, m), CRLF, c)
    BY <1>5, <2>2, HeadersEnd DEF e
  <2>4. Reads(rows, c, RenderBody(body), c)
    BY <1>6, ReadsNothing
  <2> QED BY <1>4, <1>5, <1>6, <2>3, <2>4
<1>7. CASE body.kind = "none"
  BY <1>3, <1>6, <1>7, MeasuredIs DEF n
<1>8. CASE body.kind = "sized"
  <2>1. k = Sized(Len(t)) /\ RenderBody(body) = t /\ t \in AText /\ Len(t) < SizeModulus
    BY <1>8, MeasuredIs
  <2> HIDE DEF k, t
  <2>2. CASE t = <<>>
    BY <1>3, <1>6, <2>1, <2>2 DEF k, t, n
  <2>3. CASE t # <<>>
    <3>1. Len(t) \in 1 .. SizeModulus - 1 /\ Len(t) # 0
      BY <2>1, <2>3, SizeModulusOK, EmptySeq, LenProperties DEF AText
    <3>2. ~ k.chunked /\ k.contentSize # 0
      BY <2>1, <3>1, CountersAre
    <3> DEFINE p == Reader("Post", k, n)
               q == Completed(Reader("Post", Sized(0), Holding(n, t)))
    <3>3. Done("endOfHeaders", e, "\n") = p
      BY <1>2, <3>2
    <3>4. p.result # "ParsingError"
      BY ReaderReady
    <3>5. Reads(rows, Reader("HeaderLineStart", k, m), CRLF, p)
      <4> HIDE DEF p
      <4> QED BY <3>3, <3>4, HeadersEnd DEF e
    <3>6. <<>> \o t = t
      BY <2>1 DEF AText
    <3>7. Reads(rows, p, t, q)
      <4>1. Reads(rows, Reader("Post", Sized(Len(t)), n), t,
                  Completed(Reader("Post", Sized(0), Holding(n, n["content"] \o t))))
        BY <1>1, <2>1, <3>1, SizedReads
      <4> QED BY <1>1, <2>1, <3>6, <4>1
    <3>8. HasCompleted(q, Holding(n, t))
      BY CompletedReader DEF HasCompleted
    <3> HIDE DEF p, q
    <3> QED BY <2>1, <3>5, <3>7, <3>8 DEF k, t, n
  <2> QED BY <2>2, <2>3
<1>9. CASE body.kind = "chunked"
  <2>1. k = Chunked(<<>>, 0)
    BY <1>9, MeasuredIs
  <2> HIDE DEF k
  <2>2. k.chunked
    BY <2>1, CountersAre
  <2> DEFINE p == Reader("ChunkSize", k, n)
  <2>3. Done("endOfHeaders", e, "\n") = p
    BY <1>2, <2>2
  <2>4. p.result # "ParsingError"
    BY ReaderReady
  <2>5. p = NextChunk(n)
    BY <2>1 DEF NextChunk
  <2> HIDE DEF p, t
  <2>6. Reads(rows, Reader("HeaderLineStart", k, m), CRLF, p)
    BY <2>3, <2>4, HeadersEnd DEF e
  <2>7. t \in AText /\ \E q : Reads(rows, NextChunk(n), RenderBody(body), q) /\ HasCompleted(q, Holding(n, t))
    BY <1>1, <1>9, ChunkedReads DEF t
  <2> QED BY <2>5, <2>6, <2>7 DEF k, t, n
<1> QED BY <1>7, <1>8, <1>9 DEF ABody, n

-----------------------------------------------------------------------------
(* A message.                                                              *)

\* What the first line has left in m.
FirstLine(m, msg) ==
  /\ m \in AMessages
  /\ m.headers = <<>> /\ m["content"] = <<>> /\ m.keepAlive = FALSE
  /\ m.versionMajor = atoi(msg.major) /\ m.versionMinor = atoi(msg.minor)

\* The rest of the message keeps it.
SameLine(m, n) ==
  /\ m.method = n.method /\ m.uri = n.uri /\ m.status = n.status /\ m.statusCode = n.statusCode

\* After its first line a message is read to its end, and rightly.
LEMMA MessageReads ==
  ASSUME NEW rows \in Tables, NEW p, NEW line, NEW m, NEW msg, AMessage(msg), FirstLine(m, msg),
         Reads(rows, p, line \o CRLF, Reader("HeaderLineStart", AtFirst, m)),
         IF Heard(rows, m) THEN \A i \in DOMAIN msg.headers : ~ AnnouncesABody(msg.headers[i])
                           ELSE msg.body.kind = "none"
  PROVE  \E q : /\ Reads(rows, p, Render(line, msg), q) /\ q.result = "ParsingCompleted"
                /\ HasRead(q.message, msg) /\ SameLine(q.message, m)
<1> DEFINE hs == AllRead(AllHeaders(msg))
           n == WithHeaders(m, hs)
           body == msg.body
           k == Measured(body)
           t == Content(body)
           x == Holding(Kept(n), t)
<1>1. m \in AMessages /\ m.headers = <<>> /\ ABody(body)
  BY DEF FirstLine, AMessage
<1>2. /\ Reads(rows, Reader("HeaderLineStart", AtFirst, m), RenderHeaders(AllHeaders(msg)),
               Reader("HeaderLineStart", k, n))
      /\ hs \in Seq(AHeaders)
  BY <1>1, AllHeadersRead
<1> HIDE DEF hs
<1>3. n \in AMessages /\ n.headers = hs /\ n["content"] = <<>> /\ SameLine(n, m)
      /\ n.versionMajor = m.versionMajor /\ n.versionMinor = m.versionMinor /\ n.keepAlive = FALSE
  <2>1. n \in AMessages /\ n.headers = hs
    BY <1>1, <1>2, HeadersPut
  <2>2. /\ n["content"] = m["content"] /\ SameLine(n, m)
        /\ n.versionMajor = m.versionMajor /\ n.versionMinor = m.versionMinor
        /\ n.keepAlive = m.keepAlive
    BY <1>1 DEF WithHeaders, AMessages, SameLine
  <2> HIDE DEF n
  <2> QED BY <2>1, <2>2 DEF FirstLine
<1> HIDE DEF n, k, t, body
<1>4. /\ \E a : \E q : /\ Reads(rows, Reader("HeaderLineStart", k, n), CRLF, a)
                       /\ Reads(rows, a, RenderBody(body), q)
                       /\ HasCompleted(q, x)
      /\ t \in AText
  BY <1>1, <1>3, BodyReads DEF k, t
<1>5. PICK a, q : /\ Reads(rows, Reader("HeaderLineStart", k, n), CRLF, a)
                  /\ Reads(rows, a, RenderBody(body), q)
                  /\ HasCompleted(q, x)
  BY <1>4
<1>6. Reads(rows, p, (((line \o CRLF) \o RenderHeaders(AllHeaders(msg))) \o CRLF) \o RenderBody(body), q)
  BY <1>2, <1>5, ReadsBoth
<1>7. Render(line, msg) = (((line \o CRLF) \o RenderHeaders(AllHeaders(msg))) \o CRLF) \o RenderBody(body)
  BY DEF Render, body
<1>8. KeepsAlive(n) = Asks(msg)
  BY <1>2, <1>3, KeepsAliveIs DEF hs, FirstLine
<1>9. /\ x.keepAlive = Asks(msg) /\ x.content = t /\ x.headers = n.headers
      /\ x.versionMajor = n.versionMajor /\ x.versionMinor = n.versionMinor /\ SameLine(x, n)
  <2> DEFINE b == KeepsAlive(n)
  <2> HIDE DEF b
  <2>1. x = [[n EXCEPT !.keepAlive = b] EXCEPT !.content = t]
    BY DEF Holding, Kept, Put, b
  <2> HIDE DEF x
  <2>2. /\ x.keepAlive = b /\ x.content = t /\ x.headers = n.headers
        /\ x.versionMajor = n.versionMajor /\ x.versionMinor = n.versionMinor /\ SameLine(x, n)
    BY <1>3, <2>1 DEF AMessages, SameLine
  <2> QED BY <1>8, <2>2 DEF b
<1>10. q.result = "ParsingCompleted" /\ q.message = x
  BY <1>5 DEF HasCompleted
<1>11. hs = [i \in DOMAIN AllHeaders(msg) |->
               [name |-> AllHeaders(msg)[i].name, value |-> ValueOf(AllHeaders(msg)[i])]]
  BY DEF hs, AllRead, AsRead, Field
<1> HIDE DEF x
<1>12. HasRead(x, msg)
  BY <1>3, <1>9, <1>11 DEF HasRead, FirstLine, t, body
<1>13. SameLine(x, m)
  BY <1>3, <1>9 DEF SameLine
<1> QED BY <1>6, <1>7, <1>10, <1>12, <1>13

-----------------------------------------------------------------------------
(* The messages of the specification.                                      *)

\* Any character is a symbol.
LEMMA StringsAreTexts == STRING \subseteq Alphabet /\ Seq(STRING) \subseteq AText
<1>1. STRING \subseteq Alphabet
  BY DEF Alphabet
<1> QED BY <1>1, SeqWidened DEF AText

\* A header of the specification is one of this proof.
LEMMA HeadersWidened == WrittenHeaders \subseteq AWrittenHeaders
<1> DEFINE A == Words("text")
           B == AWords("text")
<1>1. Seq(A) \subseteq Seq(B)
  BY Widened, SeqWidened
<1> HIDE DEF A, B
<1>2. SUFFICES ASSUME NEW h \in WrittenHeaders PROVE h \in AWrittenHeaders
  OBVIOUS
<1>3. /\ h \in [name : Words("token"), value : Seq(Symbols("text")), folds : Seq(A)]
      /\ \A i \in DOMAIN h.folds : h.folds[i][1] # SP
  BY DEF WrittenHeaders, A
<1>4. h \in [name : AWords("token"), value : Seq(ASymbols("text")), folds : Seq(B)]
  BY <1>1, <1>3, Widened
<1> QED BY <1>3, <1>4 DEF AWrittenHeaders, B

\* A remark of the specification is one of this proof.
LEMMA AlnumOrSpace ==
  Seq(Symbols("alnum") \cup {SP}) \subseteq Seq(ASymbols("alnum") \cup {SP})
<1>1. Symbols("alnum") \subseteq ASymbols("alnum")
  BY DEF Symbols, ASymbols, Alphabet
<1> QED BY <1>1, SeqWidened

\* A trailer of the specification is one of this proof.
LEMMA TrailersWidened == WrittenTrailers \subseteq AWrittenTrailers
<1>1. SUFFICES ASSUME NEW h \in WrittenTrailers PROVE h \in AWrittenTrailers
  OBVIOUS
<1>2. /\ h \in [name : Words("alnum"), value : Seq(Symbols("alnum") \cup {SP}), folds : {<<>>}]
      /\ h.name[1] \notin Range(Digits)
  BY DEF WrittenTrailers
<1>3. h \in [name : AWords("alnum"), value : Seq(ASymbols("alnum") \cup {SP}), folds : {<<>>}]
  BY <1>2, AlnumOrSpace, Widened
<1> QED BY <1>2, <1>3 DEF AWrittenTrailers

\* A body of the specification is one of this proof.
LEMMA BodyWidened ==
  ASSUME NEW body, BodyOK(body)
  PROVE  ABody(body)
<1>1. CASE body.kind = "none"
  BY <1>1 DEF ABody
<1>2. CASE /\ body.kind = "sized"
           /\ body.size \in Seq(Range(Digits)) /\ body.content \in Seq(STRING)
           /\ atoi(body.size) = Len(body.content)
           /\ Len(body.content) < SizeModulus /\ Len(body.content) <= IntMax
  BY <1>2, StringsAreTexts DEF ABody
<1>3. CASE /\ body.kind = "chunked"
           /\ body.chunks \in Seq([size : Seq(Range(HexDigits)), data : Seq(STRING) \ {<<>>}])
           /\ \A i \in DOMAIN body.chunks : strtol16(body.chunks[i].size) = Len(body.chunks[i].data)
           /\ ExtensionOK(body.extension)
           /\ body.trailers \in Seq(WrittenTrailers)
  <2> DEFINE A == [size : Seq(Range(HexDigits)), data : Seq(STRING) \ {<<>>}]
             B == [size : Seq(Range(HexDigits)), data : AText \ {<<>>}]
  <2>1. A \subseteq B
    BY StringsAreTexts
  <2>2. body.chunks \in Seq(B)
    <3>1. body.chunks \in Seq(A)
      BY <1>3
    <3> HIDE DEF A, B
    <3> QED BY <2>1, <3>1, SeqWidened
  <2>3. body.trailers \in Seq(AWrittenTrailers)
    BY <1>3, TrailersWidened, SeqWidened
  <2>4. AnExtension(body.extension)
    BY <1>3, AlnumOrSpace DEF ExtensionOK, AnExtension
  <2> QED BY <1>3, <2>2, <2>3, <2>4 DEF ABody
<1> QED BY <1>1, <1>2, <1>3 DEF BodyOK

\* A message of the specification is one of this proof.
LEMMA MessageWidened ==
  ASSUME NEW m, MessageOK(m)
  PROVE  AMessage(m)
<1>1. m.major \in AWords("digit") /\ m.minor \in AWords("digit")
  BY Widened DEF MessageOK
<1>2. m.headers \in Seq(AWrittenHeaders)
  BY HeadersWidened, SeqWidened DEF MessageOK
<1> QED BY <1>1, <1>2, BodyWidened DEF MessageOK, AMessage

\* What the first line of a request leaves in the message.
LEMMA RequestedIs ==
  ASSUME NEW m, m.method \in AText, m.uri \in AText, atoi(m.major) \in Nat, atoi(m.minor) \in Nat
  PROVE  /\ FirstLine(Requested(m), m) \/ Requested(m) \notin AMessages
         /\ Requested(m).method = m.method /\ Requested(m).uri = m.uri
<1> DEFINE x == m.method
           y == m.uri
           a == atoi(m.major)
           b == atoi(m.minor)
           n == NewMessage
           n1 == Put(n, "method", x)
           n2 == Put(n1, "uri", y)
           n3 == Put(n2, "versionMajor", a)
           n4 == Put(n3, "versionMinor", b)
<1>1. Requested(m) = n4
  BY DEF Requested, Versioned
<1>2. /\ n \in AMessages /\ n.headers = <<>> /\ n["content"] = <<>> /\ n.keepAlive = FALSE
  BY NewMessageTyped DEF NewMessage
<1> HIDE DEF n, x, y, a, b
<1>3. n1 \in AMessages /\ n2 \in AMessages /\ n3 \in AMessages /\ n4 \in AMessages
  <2>1. n1 \in AMessages
    BY <1>2, PutText DEF Texts, x
  <2>2. n2 \in AMessages
    BY <2>1, PutText DEF Texts, y
  <2>3. n3 \in AMessages
    BY <2>2, PutNumber DEF Numbers, a
  <2>4. n4 \in AMessages
    BY <2>3, PutNumber DEF Numbers, b
  <2> QED BY <2>1, <2>2, <2>3, <2>4
<1>4. n1.method = x /\ n1.headers = n.headers /\ n1["content"] = n["content"] /\ n1.keepAlive = n.keepAlive
  BY <1>2 DEF Put, AMessages
<1> HIDE DEF n1
<1>5. /\ n2.method = n1.method /\ n2.headers = n1.headers /\ n2["content"] = n1["content"]
      /\ n2.keepAlive = n1.keepAlive /\ n2.uri = y
  BY <1>3 DEF Put, AMessages
<1> HIDE DEF n2
<1>6. /\ n3.method = n2.method /\ n3.headers = n2.headers /\ n3["content"] = n2["content"]
      /\ n3.keepAlive = n2.keepAlive /\ n3.uri = n2.uri /\ n3.versionMajor = a
  BY <1>3 DEF Put, AMessages
<1> HIDE DEF n3
<1>7. /\ n4.method = n3.method /\ n4.headers = n3.headers /\ n4["content"] = n3["content"]
      /\ n4.keepAlive = n3.keepAlive /\ n4.uri = n3.uri /\ n4.versionMajor = n3.versionMajor
      /\ n4.versionMinor = b
  BY <1>3 DEF Put, AMessages
<1> HIDE DEF n4
<1> QED BY <1>1, <1>2, <1>3, <1>4, <1>5, <1>6, <1>7 DEF FirstLine, x, y, a, b

\* A new request parser reads a request to its last symbol, and rightly.
LEMMA RequestReads ==
  ASSUME NEW m, RequestOK(m)
  PROVE  \E q : /\ Reads(RequestRows, NewParser("RequestMethodStart"), Render(RequestLine(m), m), q)
                /\ q.result = "ParsingCompleted" /\ HasReadRequest(q.message, m)
<1> DEFINE n == Requested(m)
           p == NewParser("RequestMethodStart")
           line == RequestLine(m)
           rows == RequestRows
<1>1. /\ m.method \in AWords("token") /\ m.uri \in AWords("visible")
      /\ m.major \in AWords("digit") /\ m.minor \in AWords("digit")
      /\ AMessage(m)
  BY Widened, MessageWidened DEF RequestOK, AMessage
<1>2. /\ Reads(rows, p, line \o CRLF, Reader("HeaderLineStart", AtFirst, n))
      /\ n \in AMessages
  BY <1>1, RequestLineReads
<1>3. /\ m.method \in AText /\ m.uri \in AText /\ atoi(m.major) \in Nat /\ atoi(m.minor) \in Nat
  <2>1. m.method \in AText /\ m.uri \in AText
    BY <1>1, WordsAreTexts, Written
  <2>2. m.major \in Seq(Range(Digits)) /\ m.minor \in Seq(Range(Digits))
    BY <1>1, WordsAreTexts, DigitsWritten
  <2> QED BY <2>1, <2>2, AtoiTyped
<1>4. FirstLine(n, m) /\ n.method = m.method /\ n.uri = m.uri
  BY <1>2, <1>3, RequestedIs
<1> HIDE DEF n, p, line, rows
<1>5. Heard(rows, n) <=> Posts(m)
  BY <1>4, TablesDiffer DEF Heard, rows, Posts
<1>6. IF Heard(rows, n) THEN \A i \in DOMAIN m.headers : ~ AnnouncesABody(m.headers[i])
                        ELSE m.body.kind = "none"
  BY <1>5 DEF RequestOK, Posts
<1>7. rows \in Tables
  BY DEF rows, Tables
<1>8. PICK q : /\ Reads(rows, p, Render(line, m), q) /\ q.result = "ParsingCompleted"
               /\ HasRead(q.message, m) /\ SameLine(q.message, n)
  BY <1>1, <1>2, <1>4, <1>6, <1>7, MessageReads
<1>9. HasReadRequest(q.message, m)
  BY <1>4, <1>8 DEF HasReadRequest, SameLine
<1> QED BY <1>8, <1>9 DEF rows, p, line

\* What the first line of a response leaves in the message.
LEMMA AnsweredIs ==
  ASSUME NEW m, m.status \in AText, atoi(m.code) \in Nat, atoi(m.major) \in Nat, atoi(m.minor) \in Nat
  PROVE  /\ FirstLine(Answered(m), m) \/ Answered(m) \notin AMessages
         /\ Answered(m).statusCode = atoi(m.code) /\ Answered(m).status = m.status
<1> DEFINE x == m.status
           y == atoi(m.code)
           a == atoi(m.major)
           b == atoi(m.minor)
           n == NewMessage
           n1 == Put(n, "versionMajor", a)
           n2 == Put(n1, "versionMinor", b)
           n3 == Put(n2, "statusCode", y)
           n4 == Put(n3, "status", x)
<1>1. Answered(m) = n4
  BY DEF Answered, Versioned
<1>2. /\ n \in AMessages /\ n.headers = <<>> /\ n["content"] = <<>> /\ n.keepAlive = FALSE
  BY NewMessageTyped DEF NewMessage
<1> HIDE DEF n, x, y, a, b
<1>3. n1 \in AMessages /\ n2 \in AMessages /\ n3 \in AMessages /\ n4 \in AMessages
  <2>1. n1 \in AMessages
    BY <1>2, PutNumber DEF Numbers, a
  <2>2. n2 \in AMessages
    BY <2>1, PutNumber DEF Numbers, b
  <2>3. n3 \in AMessages
    BY <2>2, PutNumber DEF Numbers, y
  <2>4. n4 \in AMessages
    BY <2>3, PutText DEF Texts, x
  <2> QED BY <2>1, <2>2, <2>3, <2>4
<1>4. n1.versionMajor = a /\ n1.headers = n.headers /\ n1["content"] = n["content"] /\ n1.keepAlive = n.keepAlive
  BY <1>2 DEF Put, AMessages
<1> HIDE DEF n1
<1>5. /\ n2.versionMajor = n1.versionMajor /\ n2.headers = n1.headers /\ n2["content"] = n1["content"]
      /\ n2.keepAlive = n1.keepAlive /\ n2.versionMinor = b
  BY <1>3 DEF Put, AMessages
<1> HIDE DEF n2
<1>6. /\ n3.versionMajor = n2.versionMajor /\ n3.headers = n2.headers /\ n3["content"] = n2["content"]
      /\ n3.keepAlive = n2.keepAlive /\ n3.versionMinor = n2.versionMinor /\ n3.statusCode = y
  BY <1>3 DEF Put, AMessages
<1> HIDE DEF n3
<1>7. /\ n4.versionMajor = n3.versionMajor /\ n4.headers = n3.headers /\ n4["content"] = n3["content"]
      /\ n4.keepAlive = n3.keepAlive /\ n4.versionMinor = n3.versionMinor
      /\ n4.statusCode = n3.statusCode /\ n4.status = x
  BY <1>3 DEF Put, AMessages
<1> HIDE DEF n4
<1> QED BY <1>1, <1>2, <1>3, <1>4, <1>5, <1>6, <1>7 DEF FirstLine, x, y, a, b

\* A new response parser reads a response to its last symbol, and rightly.
LEMMA ResponseReads ==
  ASSUME NEW m, ResponseOK(m)
  PROVE  \E q : /\ Reads(ResponseRows, NewParser("ResponseStatusStart"), Render(StatusLine(m), m), q)
                /\ q.result = "ParsingCompleted" /\ HasReadResponse(q.message, m)
<1> DEFINE n == Answered(m)
           p == NewParser("ResponseStatusStart")
           line == StatusLine(m)
           rows == ResponseRows
<1>1. /\ m.code \in Seq(ASymbols("digit")) /\ atoi(m.code) \in 100 .. 999
      /\ m.status \in AWords("inLine")
      /\ m.major \in AWords("digit") /\ m.minor \in AWords("digit")
      /\ AMessage(m)
  BY Widened, MessageWidened DEF ResponseOK, AMessage
<1>2. /\ Reads(rows, p, line \o CRLF, Reader("HeaderLineStart", AtFirst, n))
      /\ n \in AMessages
  BY <1>1, StatusLineReads
<1>3. /\ m.status \in AText /\ atoi(m.major) \in Nat /\ atoi(m.minor) \in Nat /\ atoi(m.code) \in Nat
  <2>1. m.status \in AText
    BY <1>1, WordsAreTexts, Written
  <2>2. m.major \in Seq(Range(Digits)) /\ m.minor \in Seq(Range(Digits)) /\ m.code \in Seq(Range(Digits))
    BY <1>1, WordsAreTexts, DigitsWritten
  <2> QED BY <2>1, <2>2, AtoiTyped
<1>4. FirstLine(n, m) /\ n.statusCode = atoi(m.code) /\ n.status = m.status
  BY <1>2, <1>3, AnsweredIs
<1> HIDE DEF n, p, line, rows
<1>5. Heard(rows, n)
  BY DEF Heard, rows
<1>6. IF Heard(rows, n) THEN \A i \in DOMAIN m.headers : ~ AnnouncesABody(m.headers[i])
                        ELSE m.body.kind = "none"
  BY <1>5 DEF ResponseOK
<1>7. rows \in Tables
  BY DEF rows, Tables
<1>8. PICK q : /\ Reads(rows, p, Render(line, m), q) /\ q.result = "ParsingCompleted"
               /\ HasRead(q.message, m) /\ SameLine(q.message, n)
  BY <1>1, <1>2, <1>4, <1>6, <1>7, MessageReads
<1>9. HasReadResponse(q.message, m)
  BY <1>4, <1>8 DEF HasReadResponse, SameLine
<1> QED BY <1>8, <1>9 DEF rows, p, line

-----------------------------------------------------------------------------
(* The parsers, called with the pieces of a text.                          *)

\* Parse of a piece of a text is where reading it leads.
LEMMA ParseReads ==
  ASSUME NEW rows, NEW w \in AText, NEW f, ReadBy(rows, w, f), NEW n \in 1 .. Len(w)
  PROVE  Parse(rows, f[0], SubSeq(w, 1, n)) = f[n]
<1> DEFINE s == SubSeq(w, 1, n)
           Equation(g) == g = [i \in 0 .. Len(s) |-> IF i = 0 THEN Started(f[0])
                                                    ELSE Consume(rows, g[i - 1], s[i])]
           h == [i \in 0 .. n |-> f[i]]
<1>1. /\ n \in Nat /\ Len(s) = n
      /\ \A i \in 1 .. n : i \in 1 .. Len(w) /\ s[i] = w[i]
  <2>1. Len(w) \in Nat
    BY LenProperties DEF AText
  <2> QED BY <2>1 DEF AText
<1>2. Parse(rows, f[0], s) = (CHOOSE g : Equation(g))[Len(s)]
  BY DEF Parse, Fold, Started
<1> HIDE DEF s
<1>3. \A i \in 1 .. n : Ready(f[i - 1]) /\ f[i] = Step(rows, f[i - 1], s[i])
  BY <1>1 DEF ReadBy
<1>4. \A i \in 1 .. n : f[i] = Consume(rows, f[i - 1], s[i])
  BY <1>3 DEF Ready, Consume
<1>5. Started(f[0]) = f[0]
  <2>1. 1 \in 1 .. n /\ 1 - 1 = 0
    BY <1>1
  <2> QED BY <1>3, <2>1 DEF Ready
<1>6. \A i \in 1 .. n : i - 1 \in 0 .. n /\ i \in 0 .. n /\ i # 0
  BY <1>1
<1>7. \A i \in 0 .. n : i = 0 \/ i \in 1 .. n
  BY <1>1
<1>8. Equation(h)
  <2>1. \A i \in 0 .. n : f[i] = IF i = 0 THEN Started(f[0]) ELSE Consume(rows, h[i - 1], s[i])
    BY <1>4, <1>5, <1>6, <1>7
  <2>2. [i \in 0 .. n |-> f[i]]
          = [i \in 0 .. n |-> IF i = 0 THEN Started(f[0]) ELSE Consume(rows, h[i - 1], s[i])]
    <3> HIDE DEF h
    <3> QED BY <2>1
  <2> QED BY <1>1, <2>2
<1> DEFINE g == CHOOSE g : Equation(g)
<1>9. Equation(g) /\ Parse(rows, f[0], s) = g[n]
  <2> HIDE DEF Equation, h
  <2> QED BY <1>1, <1>2, <1>8
<1> HIDE DEF g, h
<1>10. g[0] = f[0] /\ \A i \in 1 .. n : g[i] = Consume(rows, g[i - 1], s[i])
  BY <1>1, <1>5, <1>6, <1>9
<1> HIDE DEF Equation
<1>11. \A i \in 0 .. n : Agree(g, f, i)
  <2>1. \A i \in 1 .. n : Agree(g, f, i - 1) => Agree(g, f, i)
    BY <1>4, <1>10 DEF Agree
  <2>2. Agree(g, f, 0)
    BY <1>10 DEF Agree
  <2> QED BY <1>1, <2>1, <2>2, SameIteration
<1>12. n \in 0 .. n
  BY <1>1
<1> QED BY <1>9, <1>11, <1>12 DEF Agree, s

\* What is left of a text leads on.
LEMMA PieceReads ==
  ASSUME NEW rows, NEW p, NEW w, NEW q, Reads(rows, p, w, q), NEW n \in 1 .. Len(w)
  PROVE  Reads(rows, Parse(rows, p, SubSeq(w, 1, n)), SubSeq(w, n + 1, Len(w)), q)
<1>1. PICK f : f[0] = p /\ f[Len(w)] = q /\ ReadBy(rows, w, f)
  BY DEF Reads
<1> DEFINE t == SubSeq(w, n + 1, Len(w))
           m == Len(w) - n
           g == [i \in 0 .. m |-> f[n + i]]
<1>2. w \in AText /\ Len(w) \in Nat
  BY LenProperties DEF Reads, AText
<1>3. Parse(rows, p, SubSeq(w, 1, n)) = f[n]
  BY <1>1, <1>2, ParseReads
<1>4. /\ m \in Nat /\ n \in Nat /\ n + m = Len(w) /\ t \in AText /\ Len(t) = m
      /\ \A i \in 1 .. m : t[i] = w[n + i] /\ n + i \in 1 .. Len(w)
  BY <1>2 DEF AText
<1> HIDE DEF m, t
<1>5. g[0] = f[n] /\ g[m] = q
  BY <1>1, <1>4
<1>6. \A i \in 1 .. m : g[i] = f[n + i] /\ g[i - 1] = f[(n + i) - 1]
  BY <1>4
<1> HIDE DEF g
<1>7. ReadBy(rows, t, g)
  <2> SUFFICES ASSUME NEW i \in 1 .. m
               PROVE  Ready(g[i - 1]) /\ g[i] = Step(rows, g[i - 1], t[i])
    BY <1>4 DEF ReadBy
  <2>1. Ready(f[(n + i) - 1]) /\ f[n + i] = Step(rows, f[(n + i) - 1], w[n + i])
    BY <1>1, <1>4 DEF ReadBy
  <2> QED BY <1>4, <1>6, <2>1
<1> QED BY <1>3, <1>4, <1>5, <1>7 DEF Reads, t

\* A parser with a text before it is not complete.
LEMMA ReadsToTheEnd ==
  ASSUME NEW rows, NEW p, NEW w, NEW q, Reads(rows, p, w, q)
  PROVE  IF w = <<>> THEN p = q ELSE p.result = "ParsingIncompleted"
<1>1. PICK f : f[0] = p /\ f[Len(w)] = q /\ ReadBy(rows, w, f)
  BY DEF Reads
<1>2. CASE w = <<>>
  BY <1>1, <1>2
<1>3. CASE w # <<>>
  <2>1. 1 \in 1 .. Len(w) /\ 1 - 1 = 0
    BY <1>3 DEF Reads, AText
  <2> QED BY <1>1, <1>3, <2>1 DEF ReadBy, Ready
<1> QED BY <1>2, <1>3

-----------------------------------------------------------------------------
(* The parser of a document is on its way to what the document means: what *)
(* is left of the text leads it there.                                     *)

RequestDue(d) ==
  \E q : /\ Reads(RequestRows, d.into, d.rest, q)
         /\ q.result = "ParsingCompleted" /\ HasReadRequest(q.message, d.meaning)

ResponseDue(d) ==
  \E q : /\ Reads(ResponseRows, d.into, d.rest, q)
         /\ q.result = "ParsingCompleted" /\ HasReadResponse(q.message, d.meaning)

DocumentInv ==
  /\ document = Document(document.kind, document.meaning, document.rest, document.into)
  /\ document.kind \in {"request", "response", "url"}
  /\ document.kind = "request" => RequestDue(document)
  /\ document.kind = "response" => ResponseDue(document)

\* The fields of a document.
LEMMA FieldsOf ==
  \A kind, meaning, text, into :
    LET d == Document(kind, meaning, text, into)
    IN  d.kind = kind /\ d.meaning = meaning /\ d.rest = text /\ d.into = into
BY DEF Document

\* At first the whole text is before the parser.
LEMMA InitDue == InitDocument => DocumentInv
<1> SUFFICES ASSUME InitDocument PROVE DocumentInv
  OBVIOUS
<1>1. ASSUME NEW m \in Requests,
             document = Document("request", m, Render(RequestLine(m), m), NewParser("RequestMethodStart"))
      PROVE  DocumentInv
  <2>1. RequestDue(document)
    BY <1>1, MessagesOK, FieldsOf, RequestReads DEF RequestDue
  <2> QED BY <1>1, <2>1, FieldsOf DEF DocumentInv
<1>2. ASSUME NEW m \in Responses,
             document = Document("response", m, Render(StatusLine(m), m), NewParser("ResponseStatusStart"))
      PROVE  DocumentInv
  <2>1. ResponseDue(document)
    BY <1>2, MessagesOK, FieldsOf, ResponseReads DEF ResponseDue
  <2> QED BY <1>2, <2>1, FieldsOf DEF DocumentInv
<1>3. ASSUME NEW u \in Urls, document = Document("url", u, RenderUrl(u), NewUrl) PROVE DocumentInv
  BY <1>3, FieldsOf DEF DocumentInv
<1> QED BY <1>1, <1>2, <1>3 DEF InitDocument

\* What a call of a parser with a piece changes.
LEMMA PieceIs ==
  ASSUME NEW rows, document = Document(document.kind, document.meaning, document.rest, document.into),
         ParsePiece(rows)
  PROVE  \E n \in 1 .. Len(document.rest) :
           document' = Document(document.kind, document.meaning,
                                SubSeq(document.rest, n + 1, Len(document.rest)),
                                Parse(rows, document.into, SubSeq(document.rest, 1, n)))
<1>1. PICK n \in 1 .. Len(document.rest) :
        document' = [document EXCEPT !.into = Parse(rows, @, SubSeq(document.rest, 1, n)),
                                     !.rest = SubSeq(@, n + 1, Len(@))]
  BY DEF ParsePiece
<1> DEFINE x == SubSeq(document.rest, n + 1, Len(document.rest))
           y == Parse(rows, document.into, SubSeq(document.rest, 1, n))
<1>2. document' = [document EXCEPT !.into = y, !.rest = x]
  BY <1>1
<1> HIDE DEF x, y
<1>3. document' = Document(document.kind, document.meaning, x, y)
  BY <1>2 DEF Document
<1> QED BY <1>3 DEF x, y

\* Every piece leaves the rest before the parser: DocumentInv is inductive.
LEMMA NextDue == DocumentInv /\ [NextDocument]_document => DocumentInv'
<1> SUFFICES ASSUME DocumentInv, [NextDocument]_document PROVE DocumentInv'
  OBVIOUS
<1>1. CASE ParseRequest
  <2>1. PICK n \in 1 .. Len(document.rest) :
          document' = Document(document.kind, document.meaning,
                               SubSeq(document.rest, n + 1, Len(document.rest)),
                               Parse(RequestRows, document.into, SubSeq(document.rest, 1, n)))
    BY <1>1, PieceIs DEF ParseRequest, DocumentInv
  <2>2. /\ document'.kind = "request" /\ document'.meaning = document.meaning
        /\ document'.rest = SubSeq(document.rest, n + 1, Len(document.rest))
        /\ document'.into = Parse(RequestRows, document.into, SubSeq(document.rest, 1, n))
    <3> DEFINE x == SubSeq(document.rest, n + 1, Len(document.rest))
               y == Parse(RequestRows, document.into, SubSeq(document.rest, 1, n))
    <3>1. document' = Document("request", document.meaning, x, y)
      BY <1>1, <2>1 DEF ParseRequest
    <3> HIDE DEF x, y
    <3>2. /\ document'.kind = "request" /\ document'.meaning = document.meaning
          /\ document'.rest = x /\ document'.into = y
      BY <3>1, FieldsOf
    <3> QED BY <3>2 DEF x, y
  <2>3. RequestDue(document')
    BY <1>1, <2>2, PieceReads DEF ParseRequest, DocumentInv, RequestDue
  <2>4. document' = Document(document'.kind, document'.meaning, document'.rest, document'.into)
    BY <1>1, <2>1, <2>2 DEF ParseRequest
  <2> QED BY <2>2, <2>3, <2>4 DEF DocumentInv
<1>2. CASE ParseResponse
  <2>1. PICK n \in 1 .. Len(document.rest) :
          document' = Document(document.kind, document.meaning,
                               SubSeq(document.rest, n + 1, Len(document.rest)),
                               Parse(ResponseRows, document.into, SubSeq(document.rest, 1, n)))
    BY <1>2, PieceIs DEF ParseResponse, DocumentInv
  <2>2. /\ document'.kind = "response" /\ document'.meaning = document.meaning
        /\ document'.rest = SubSeq(document.rest, n + 1, Len(document.rest))
        /\ document'.into = Parse(ResponseRows, document.into, SubSeq(document.rest, 1, n))
    <3> DEFINE x == SubSeq(document.rest, n + 1, Len(document.rest))
               y == Parse(ResponseRows, document.into, SubSeq(document.rest, 1, n))
    <3>1. document' = Document("response", document.meaning, x, y)
      BY <1>2, <2>1 DEF ParseResponse
    <3> HIDE DEF x, y
    <3>2. /\ document'.kind = "response" /\ document'.meaning = document.meaning
          /\ document'.rest = x /\ document'.into = y
      BY <3>1, FieldsOf
    <3> QED BY <3>2 DEF x, y
  <2>3. ResponseDue(document')
    BY <1>2, <2>2, PieceReads DEF ParseResponse, DocumentInv, ResponseDue
  <2>4. document' = Document(document'.kind, document'.meaning, document'.rest, document'.into)
    BY <1>2, <2>1, <2>2 DEF ParseResponse
  <2> QED BY <2>2, <2>3, <2>4 DEF DocumentInv
<1>3. CASE ParseUrl
  <2> DEFINE y == parse_(document.rest)
  <2>1. document' = [document EXCEPT !.into = y, !.rest = <<>>] /\ document.kind = "url"
    BY <1>3 DEF ParseUrl
  <2> HIDE DEF y
  <2>2. document' = Document("url", document.meaning, <<>>, y)
    BY <2>1 DEF DocumentInv, Document
  <2> QED BY <2>2, FieldsOf DEF DocumentInv
<1>4. CASE UNCHANGED document
  BY <1>4 DEF DocumentInv, RequestDue, ResponseDue
<1> QED BY <1>1, <1>2, <1>3, <1>4 DEF NextDocument

\* HttpRequestParser reads every request that is written as HTTP allows: complete at
\* its last character and not before, in whatever pieces it comes, and as what it says.
THEOREM RequestsAreParsed == DocumentSpec => []RequestsParsed
<1>1. DocumentInv => RequestsParsed
  <2> SUFFICES ASSUME DocumentInv, document.kind = "request"
               PROVE  /\ CompleteAtEnd
                      /\ document.rest = <<>> =>
                           HasReadRequest(document.into.message, document.meaning)
    BY DEF RequestsParsed
  <2>1. PICK q : /\ Reads(RequestRows, document.into, document.rest, q)
                 /\ q.result = "ParsingCompleted" /\ HasReadRequest(q.message, document.meaning)
    BY DEF DocumentInv, RequestDue
  <2>2. IF document.rest = <<>> THEN document.into = q
                                ELSE document.into.result = "ParsingIncompleted"
    BY <2>1, ReadsToTheEnd
  <2> QED BY <2>1, <2>2 DEF CompleteAtEnd
<1> QED BY <1>1, InitDue, NextDue, PTL DEF DocumentSpec

\* HttpResponseParser reads every response in the same way.
THEOREM ResponsesAreParsed == DocumentSpec => []ResponsesParsed
<1>1. DocumentInv => ResponsesParsed
  <2> SUFFICES ASSUME DocumentInv, document.kind = "response"
               PROVE  /\ CompleteAtEnd
                      /\ document.rest = <<>> =>
                           HasReadResponse(document.into.message, document.meaning)
    BY DEF ResponsesParsed
  <2>1. PICK q : /\ Reads(ResponseRows, document.into, document.rest, q)
                 /\ q.result = "ParsingCompleted" /\ HasReadResponse(q.message, document.meaning)
    BY DEF DocumentInv, ResponseDue
  <2>2. IF document.rest = <<>> THEN document.into = q
                                ELSE document.into.result = "ParsingIncompleted"
    BY <2>1, ReadsToTheEnd
  <2> QED BY <2>1, <2>2 DEF CompleteAtEnd
<1> QED BY <1>1, InitDue, NextDue, PTL DEF DocumentSpec

-----------------------------------------------------------------------------
(* URLs: parsers in the middle of one.                                     *)

UrlAlphabet == STRING \cup NameSymbols \cup {"+", ":", "/", "@", "?", "#"}
UrlTexts == Seq(UrlAlphabet)

UrlStates ==
  {"Scheme", "SlashAfterScheme1", "SlashAfterScheme2", "UsernameOrHostname", "Password",
   "Hostname", "PortOrPassword", "Port", "Path", "Query", "Fragment"}

UrlParts ==
  {"scheme", "username", "password", "hostname", "port", "path", "query", "fragment",
   "usernameOrHostname", "portOrPassword"}

AUrls ==
  [state : UrlStates, valid : {TRUE}, scheme : UrlTexts, username : UrlTexts,
   password : UrlTexts, hostname : UrlTexts, port : UrlTexts, path : UrlTexts,
   query : UrlTexts, fragment : UrlTexts, integerPort : Nat,
   usernameOrHostname : UrlTexts, portOrPassword : UrlTexts]

Valid(p) == p.valid = TRUE
UrlAt(s, x) == [x EXCEPT !.state = s]

\* A new parser is one in the middle of a URL.
LEMMA NewUrlTyped == NewUrl \in AUrls /\ UrlAt("Scheme", NewUrl) = NewUrl
<1>1. <<>> \in UrlTexts /\ <<"/">> \in UrlTexts
  BY DEF UrlTexts, UrlAlphabet
<1>2. NewUrl \in AUrls
  BY <1>1 DEF NewUrl, AUrls, UrlStates
<1> QED BY <1>2 DEF UrlAt, NewUrl

UrlSame(x, y, f) == \A g \in UrlParts : g # f => x[g] = y[g]

\* Setting a part of a URL.
LEMMA UrlPut ==
  ASSUME NEW x \in AUrls, NEW f \in UrlParts, NEW t \in UrlTexts, NEW v
  PROVE  /\ x[f] \in UrlTexts
         /\ Put(x, f, t) \in AUrls /\ Put(x, f, t)[f] = t
         /\ UrlSame(Put(x, f, t), x, f)
         /\ Put(x, f, t).integerPort = x.integerPort
         /\ Put(Put(x, f, t), f, v) = Put(x, f, v) /\ Put(x, f, x[f]) = x
<1>1. x[f] \in UrlTexts /\ Put(x, f, t) \in AUrls
  BY DEF AUrls, UrlParts, Put
<1>2. Put(x, f, t)[f] = t /\ Put(x, f, t).integerPort = x.integerPort /\ UrlSame(Put(x, f, t), x, f)
  BY DEF AUrls, UrlParts, Put, UrlSame
<1>3. Put(Put(x, f, t), f, v) = Put(x, f, v) /\ Put(x, f, x[f]) = x
  BY DEF AUrls, UrlParts, Put
<1> QED BY <1>1, <1>2, <1>3

\* The state is no part of the URL.
LEMMA UrlPutAt ==
  ASSUME NEW x \in AUrls, NEW s \in UrlStates, NEW f \in UrlParts, NEW t
  PROVE  /\ UrlAt(s, x)[f] = x[f] /\ Put(UrlAt(s, x), f, t) = UrlAt(s, Put(x, f, t))
BY DEF AUrls, UrlParts, Put, UrlAt

\* A parser that goes to a state is in it.
LEMMA UrlAtIs ==
  ASSUME NEW x \in AUrls, NEW s \in UrlStates
  PROVE  /\ UrlAt(s, x) \in AUrls /\ UrlAt(s, x).state = s
         /\ UrlAt(s, x).integerPort = x.integerPort
BY DEF AUrls, UrlAt

\* Of two states the last one counts.
LEMMA UrlAtMoved ==
  ASSUME NEW x, NEW s, NEW t
  PROVE  [UrlAt(s, x) EXCEPT !.state = t] = UrlAt(t, x)
BY DEF UrlAt

\* In the middle of a URL nothing was wrong.
LEMMA UrlValid == \A x \in AUrls : Valid(x)
BY DEF AUrls, Valid

\* A text that leads one parser to another, each of its symbols read.
UrlReadBy(w, f) == \A i \in 1 .. Len(w) : Valid(f[i - 1]) /\ f[i] = UrlStep(f[i - 1], w[i])

UrlReads(p, w, q) ==
  /\ w \in UrlTexts
  /\ \E f : f[0] = p /\ f[Len(w)] = q /\ UrlReadBy(w, f)

\* The empty text leads from a parser to itself.
LEMMA UrlReadsNothing == \A p : UrlReads(p, <<>>, p)
<1> TAKE p
<1> DEFINE f == [i \in 0 .. 0 |-> p]
<1>1. f[0] = p /\ Len(<<>>) = 0 /\ \A i \in 1 .. 0 : FALSE
  OBVIOUS
<1>2. <<>> \in UrlTexts
  BY DEF UrlTexts
<1> HIDE DEF f
<1> QED BY <1>1, <1>2 DEF UrlReads, UrlReadBy

\* One symbol leads a parser to its next step.
LEMMA UrlReadsOne ==
  ASSUME NEW p, NEW c \in UrlAlphabet, Valid(p)
  PROVE  UrlReads(p, <<c>>, UrlStep(p, c))
<1> DEFINE q == UrlStep(p, c)
           f == [i \in 0 .. 1 |-> IF i = 0 THEN p ELSE q]
<1>1. f[0] = p /\ f[1] = q /\ Len(<<c>>) = 1 /\ <<c>>[1] = c
  OBVIOUS
<1> HIDE DEF f
<1>2. \A i \in 1 .. 1 : Valid(f[i - 1]) /\ f[i] = UrlStep(f[i - 1], <<c>>[i])
  BY <1>1
<1>3. <<c>> \in UrlTexts
  BY DEF UrlTexts
<1> QED BY <1>1, <1>2, <1>3 DEF UrlReads, UrlReadBy

\* Reading composes: two texts, one after the other.
LEMMA UrlReadsBoth ==
  ASSUME NEW p, NEW u, NEW q, NEW v, NEW r, UrlReads(p, u, q), UrlReads(q, v, r)
  PROVE  UrlReads(p, u \o v, r)
<1> DEFINE m == Len(u)
           n == Len(v)
           w == u \o v
<1>1. /\ m \in Nat /\ n \in Nat /\ w \in UrlTexts /\ Len(w) = m + n
      /\ \A i \in 1 .. m : w[i] = u[i]
      /\ \A i \in 1 .. n : w[m + i] = v[i]
  BY ConcatParts DEF UrlReads, UrlTexts
<1>2. PICK f : f[0] = p /\ f[m] = q /\ UrlReadBy(u, f)
  BY DEF UrlReads
<1>3. PICK g : g[0] = q /\ g[n] = r /\ UrlReadBy(v, g)
  BY DEF UrlReads
<1> HIDE DEF m, n, w
<1>4. PICK h : Glues(h, f, m, g, n)
  BY <1>1, <1>2, <1>3, Glued
<1>5. \A i \in 1 .. m : Valid(h[i - 1]) /\ h[i] = UrlStep(h[i - 1], w[i])
  BY <1>1, <1>2, <1>4 DEF Glues, UrlReadBy, m
<1>6. \A i \in 1 .. n : Valid(h[(m + i) - 1]) /\ h[m + i] = UrlStep(h[(m + i) - 1], w[m + i])
  BY <1>1, <1>3, <1>4 DEF Glues, UrlReadBy, n
<1>7. \A i \in 1 .. m + n : Valid(h[i - 1]) /\ h[i] = UrlStep(h[i - 1], w[i])
  BY <1>1, <1>5, <1>6, PlacesOfBoth
<1>8. UrlReadBy(w, h)
  BY <1>1, <1>7 DEF UrlReadBy
<1> QED BY <1>1, <1>2, <1>3, <1>4, <1>8 DEF Glues, UrlReads, w

\* r is the one row that a state has for a symbol.
UrlOnly(s, c, r) == \A y : y \in UrlRows /\ y[1] = s /\ UrlAccepts(y[2], c) <=> y = r

\* The one row that a state has for a symbol is the step.
LEMMA UrlStepByRow ==
  ASSUME NEW s \in UrlStates, NEW x \in AUrls, NEW c, NEW r, UrlOnly(s, c, r)
  PROVE  UrlStep(UrlAt(s, x), c) = UrlDone(r[4], UrlAt(r[3], x), c)
<1> DEFINE p == UrlAt(s, x)
           row == {y \in UrlRows : y[1] = p.state /\ UrlAccepts(y[2], c)}
<1>1. p.state = s /\ [p EXCEPT !.state = r[3]] = UrlAt(r[3], x)
  BY UrlAtIs, UrlAtMoved
<1> HIDE DEF p
<1>2. row = {r}
  BY <1>1 DEF UrlOnly
<1>3. UrlStep(p, c) = IF row = {} THEN Rejected(p)
                      ELSE LET y == CHOOSE y \in row : TRUE
                           IN  UrlDone(y[4], [p EXCEPT !.state = y[3]], c)
  BY DEF UrlStep
<1> HIDE DEF row
<1>4. (CHOOSE y \in row : TRUE) = r /\ row # {}
  BY <1>2
<1>5. UrlStep(p, c) = UrlDone(r[4], [p EXCEPT !.state = r[3]], c)
  BY <1>3, <1>4
<1> QED BY <1>1, <1>5 DEF p

\* The same, as the reading of one symbol.
LEMMA UrlReadsByRow ==
  ASSUME NEW s \in UrlStates, NEW x \in AUrls, NEW c \in UrlAlphabet, NEW r, UrlOnly(s, c, r)
  PROVE  UrlReads(UrlAt(s, x), <<c>>, UrlDone(r[4], UrlAt(r[3], x), c))
BY UrlStepByRow, UrlReadsOne, UrlAtIs, UrlValid

\* A row that skips its symbol only moves on.
LEMMA UrlSkips ==
  ASSUME NEW s \in UrlStates, NEW x \in AUrls, NEW c \in UrlAlphabet, NEW r, UrlOnly(s, c, r),
         r[4] = "skip"
  PROVE  UrlReads(UrlAt(s, x), <<c>>, UrlAt(r[3], x))
<1>1. UrlDone("skip", UrlAt(r[3], x), c) = UrlAt(r[3], x)
  BY DEF UrlDone
<1> QED BY <1>1, UrlReadsByRow

\* A row that names a part appends its symbol to it.
LEMMA UrlPartDone ==
  ASSUME NEW s \in UrlStates, NEW x \in AUrls, NEW do \in UrlParts, NEW c
  PROVE  UrlDone(do, UrlAt(s, x), c) = UrlAt(s, Put(x, do, Append(x[do], c)))
<1> DEFINE p == UrlAt(s, x)
<1>1. UrlDone(do, p, c) = Put(p, do, Append(p[do], c))
  <2> HIDE DEF p
  <2>1. do \notin {"skip", "isUsername", "isHostname", "isPort", "areHostnameAndPort",
                   "areUsernameAndPassword"}
    BY DEF UrlParts
  <2> QED BY <2>1 DEF UrlDone, Put
<1> QED BY <1>1, UrlPutAt

\* A text whose symbols are all put into the same part.
UrlTaken(s, w, do) == \A i \in 1 .. Len(w) : \E r : UrlOnly(s, w[i], r) /\ r[3] = s /\ r[4] = do

\* A text whose symbols are all appended to a part is in that part.
LEMMA UrlTakes ==
  ASSUME NEW s \in UrlStates, NEW x \in AUrls, NEW do \in UrlParts, NEW w \in UrlTexts,
         UrlTaken(s, w, do)
  PROVE  /\ UrlReads(UrlAt(s, x), w, UrlAt(s, Put(x, do, x[do] \o w)))
         /\ Put(x, do, x[do] \o w) \in AUrls
<1> DEFINE t == x[do]
           y(i) == t \o SubSeq(w, 1, i)
           f == [i \in 0 .. Len(w) |-> UrlAt(s, Put(x, do, y(i)))]
<1>1. t \in UrlTexts /\ Len(w) \in Nat
  BY UrlPut DEF UrlTexts
<1> HIDE DEF t
<1>2. /\ y(0) = t /\ y(Len(w)) = t \o w
      /\ \A i \in 0 .. Len(w) : y(i) \in UrlTexts
  <2>1. /\ SubSeq(w, 1, 0) = <<>> /\ SubSeq(w, 1, Len(w)) = w
        /\ \A i \in 0 .. Len(w) : SubSeq(w, 1, i) \in UrlTexts
    BY PrefixFacts DEF UrlTexts
  <2> QED BY <1>1, <2>1 DEF UrlTexts
<1>3. \A i \in 1 .. Len(w) : y(i) = Append(y(i - 1), w[i])
  BY <1>1, Appended DEF UrlTexts
<1> HIDE DEF y
<1>4. /\ f[0] = UrlAt(s, Put(x, do, y(0))) /\ f[Len(w)] = UrlAt(s, Put(x, do, y(Len(w))))
      /\ \A i \in 1 .. Len(w) : /\ f[i - 1] = UrlAt(s, Put(x, do, y(i - 1)))
                                /\ f[i] = UrlAt(s, Put(x, do, y(i)))
  BY <1>1
<1> HIDE DEF f
<1>5. ASSUME NEW i \in 1 .. Len(w)
      PROVE  Valid(f[i - 1]) /\ f[i] = UrlStep(f[i - 1], w[i])
  <2> DEFINE n == Put(x, do, y(i - 1))
  <2>1. i - 1 \in 0 .. Len(w)
    BY <1>1
  <2>2. n \in AUrls /\ n[do] = y(i - 1) /\ \A v : Put(n, do, v) = Put(x, do, v)
    <3> DEFINE t1 == y(i - 1)
    <3>1. t1 \in UrlTexts
      BY <1>2, <2>1
    <3> HIDE DEF t1
    <3>2. Put(x, do, t1) \in AUrls /\ Put(x, do, t1)[do] = t1
      BY <3>1, UrlPut
    <3>3. \A v : Put(Put(x, do, t1), do, v) = Put(x, do, v)
      BY <3>1, UrlPut
    <3> QED BY <3>2, <3>3 DEF t1
  <2>3. f[i - 1] = UrlAt(s, n)
    BY <1>4
  <2> HIDE DEF n
  <2>4. PICK r : UrlOnly(s, w[i], r) /\ r[3] = s /\ r[4] = do
    BY DEF UrlTaken
  <2>5. UrlStep(UrlAt(s, n), w[i]) = UrlDone(do, UrlAt(s, n), w[i])
    BY <2>2, <2>4, UrlStepByRow
  <2>6. UrlDone(do, UrlAt(s, n), w[i]) = UrlAt(s, Put(n, do, Append(n[do], w[i])))
    BY <2>2, UrlPartDone
  <2>7. UrlAt(s, Put(n, do, Append(n[do], w[i]))) = f[i]
    BY <1>3, <1>4, <2>2
  <2> QED BY <2>2, <2>3, <2>5, <2>6, <2>7, UrlAtIs, UrlValid
<1>6. UrlReadBy(w, f)
  BY <1>5 DEF UrlReadBy
<1>7. Put(x, do, t) = x
  BY UrlPut DEF t
<1>8. f[0] = UrlAt(s, x) /\ f[Len(w)] = UrlAt(s, Put(x, do, t \o w))
  BY <1>2, <1>4, <1>7
<1>9. Put(x, do, t \o w) \in AUrls
  <2>1. Len(w) \in 0 .. Len(w)
    BY <1>1
  <2>2. t \o w \in UrlTexts
    BY <1>2, <2>1
  <2> QED BY <2>2, UrlPut
<1>10. UrlReads(UrlAt(s, x), w, UrlAt(s, Put(x, do, t \o w)))
  BY <1>6, <1>8 DEF UrlReads
<1> QED BY <1>9, <1>10 DEF t

-----------------------------------------------------------------------------
(* The rows, and the parts that change places.                             *)

SchemeSymbols == isalnum \cup {"+", "-", "."}
SecretSymbols == isalnum \cup {"%"}
PathSymbols == {c \in UrlAlphabet : c \notin {"#", "?"}}

\* What the classes of UrlAccepts stand for.
LEMMA UrlClasses ==
  \A c : /\ UrlAccepts("scheme", c) <=> c \in SchemeSymbols
         /\ UrlAccepts("alnum", c) <=> c \in isalnum
         /\ UrlAccepts("name", c) <=> c \in NameSymbols
         /\ UrlAccepts("secret", c) <=> c \in SecretSymbols
         /\ UrlAccepts("firstLetter", c) <=> c \in SecretSymbols /\ c \notin Range(Digits)
         /\ UrlAccepts("digit", c) <=> c \in Range(Digits)
         /\ UrlAccepts("pathChar", c) <=> c \notin {"#", "?"}
         /\ UrlAccepts("any", c)
BY DEF UrlAccepts, SchemeSymbols, SecretSymbols, NameSymbols

\* A symbol as a class stands for itself.
LEMMA UrlSymbolClasses ==
  \A s \in {":", "/", "@", "#", "?"} : \A c : UrlAccepts(s, c) <=> c = s
BY DEF UrlAccepts

\* No symbol with a meaning occurs in a scheme, a name or a number.
LEMMA UrlWordSymbols ==
  /\ \A c \in SchemeSymbols \cup NameSymbols \cup SecretSymbols \cup isalnum \cup Range(Digits) :
       c \notin {":", "/", "@", "#", "?"}
  /\ Range(Digits) \subseteq isalnum /\ isalnum \subseteq NameSymbols
  /\ SecretSymbols \subseteq NameSymbols
  /\ SchemeSymbols \subseteq UrlAlphabet /\ NameSymbols \subseteq UrlAlphabet
  /\ {":", "/", "@", "#", "?"} \subseteq UrlAlphabet
<1>1. Range(Digits) \subseteq isalnum
  BY DigitsAre, HexDigitsAre DEF isalnum
<1>2. \A c \in isalnum : c \notin {":", "/", "@", "#", "?"}
  BY HexDigitsAre DEF isalnum
<1> QED BY <1>1, <1>2 DEF SchemeSymbols, NameSymbols, SecretSymbols, isUnreserved, UrlAlphabet

\* The rows up to the authority.
LEMMA SchemeRows ==
  /\ \A c \in SchemeSymbols : UrlOnly("Scheme", c, <<"Scheme", "scheme", "Scheme", "scheme">>)
  /\ UrlOnly("Scheme", ":", <<"Scheme", ":", "SlashAfterScheme1", "skip">>)
  /\ UrlOnly("SlashAfterScheme1", "/", <<"SlashAfterScheme1", "/", "SlashAfterScheme2", "skip">>)
  /\ UrlOnly("SlashAfterScheme2", "/", <<"SlashAfterScheme2", "/", "UsernameOrHostname", "skip">>)
BY UrlClasses, UrlSymbolClasses, UrlWordSymbols DEF UrlOnly, UrlRows

\* The rows for the names of the user and the host.
LEMMA NameRows ==
  /\ \A c \in NameSymbols :
       /\ UrlOnly("UsernameOrHostname", c,
                  <<"UsernameOrHostname", "name", "UsernameOrHostname", "usernameOrHostname">>)
       /\ UrlOnly("Hostname", c, <<"Hostname", "name", "Hostname", "hostname">>)
  /\ UrlOnly("UsernameOrHostname", ":", <<"UsernameOrHostname", ":", "PortOrPassword", "skip">>)
  /\ UrlOnly("UsernameOrHostname", "@", <<"UsernameOrHostname", "@", "Hostname", "isUsername">>)
  /\ UrlOnly("UsernameOrHostname", "/", <<"UsernameOrHostname", "/", "Path", "isHostname">>)
  /\ UrlOnly("Hostname", ":", <<"Hostname", ":", "Port", "skip">>)
  /\ UrlOnly("Hostname", "/", <<"Hostname", "/", "Path", "skip">>)
BY UrlClasses, UrlSymbolClasses, UrlWordSymbols DEF UrlOnly, UrlRows

\* The rows for the port.
LEMMA PortRows ==
  /\ \A c \in Range(Digits) :
       /\ UrlOnly("PortOrPassword", c, <<"PortOrPassword", "digit", "PortOrPassword", "portOrPassword">>)
       /\ UrlOnly("Port", c, <<"Port", "digit", "Port", "portOrPassword">>)
  /\ UrlOnly("PortOrPassword", "/", <<"PortOrPassword", "/", "Path", "areHostnameAndPort">>)
  /\ UrlOnly("Port", "/", <<"Port", "/", "Path", "isPort">>)
BY UrlClasses, UrlSymbolClasses, UrlWordSymbols DEF UrlOnly, UrlRows

\* The rows for the password.
LEMMA PasswordRows ==
  /\ \A c \in SecretSymbols :
       /\ UrlOnly("Password", c, <<"Password", "secret", "Password", "password">>)
       /\ c \notin Range(Digits) =>
            UrlOnly("PortOrPassword", c,
                    <<"PortOrPassword", "firstLetter", "Password", "areUsernameAndPassword">>)
  /\ UrlOnly("Password", "@", <<"Password", "@", "Hostname", "skip">>)
BY UrlClasses, UrlSymbolClasses, UrlWordSymbols DEF UrlOnly, UrlRows

\* The rows from the path on.
LEMMA PathRows ==
  /\ \A c \in PathSymbols :
       /\ UrlOnly("Path", c, <<"Path", "pathChar", "Path", "path">>)
       /\ UrlOnly("Query", c, <<"Query", "pathChar", "Query", "query">>)
  /\ \A c \in UrlAlphabet : UrlOnly("Fragment", c, <<"Fragment", "any", "Fragment", "fragment">>)
  /\ UrlOnly("Path", "?", <<"Path", "?", "Query", "skip">>)
  /\ UrlOnly("Path", "#", <<"Path", "#", "Fragment", "skip">>)
  /\ UrlOnly("Query", "#", <<"Query", "#", "Fragment", "skip">>)
BY UrlClasses, UrlSymbolClasses, UrlWordSymbols DEF UrlOnly, UrlRows, PathSymbols

\* A state that puts the symbols of C into a part.
PutsAll(s, C, do) ==
  /\ s \in UrlStates /\ do \in UrlParts /\ C \subseteq UrlAlphabet
  /\ \E r : r[3] = s /\ r[4] = do /\ \A c \in C : UrlOnly(s, c, r)

\* A part that is read.
PartReads(s, x, do, w) ==
  \E y \in AUrls : /\ UrlReads(UrlAt(s, x), w, UrlAt(s, y))
                   /\ y[do] = x[do] \o w /\ UrlSame(y, x, do)
                   /\ y.integerPort = x.integerPort

\* A text over what a state puts into a part is read into that part.
LEMMA UrlPartReads ==
  ASSUME NEW s, NEW C, NEW do, PutsAll(s, C, do), NEW x \in AUrls, NEW w \in Seq(C)
  PROVE  PartReads(s, x, do, w)
<1>1. w \in UrlTexts /\ s \in UrlStates /\ do \in UrlParts
  BY SeqWidened DEF UrlTexts, PutsAll
<1>2. UrlTaken(s, w, do)
  <2>1. \A i \in 1 .. Len(w) : w[i] \in C
    BY ElementOfSeq
  <2> QED BY <2>1 DEF UrlTaken, PutsAll
<1> DEFINE t == x[do] \o w
           y == Put(x, do, t)
<1>3. UrlReads(UrlAt(s, x), w, UrlAt(s, y)) /\ y \in AUrls
  BY <1>1, <1>2, UrlTakes
<1>4. t \in UrlTexts
  <2>1. x[do] \in UrlTexts
    BY <1>1, UrlPut
  <2> QED BY <1>1, <2>1 DEF UrlTexts
<1> HIDE DEF t
<1>5. y[do] = t /\ UrlSame(y, x, do) /\ y.integerPort = x.integerPort
  BY <1>1, <1>4, UrlPut
<1> HIDE DEF y
<1> QED BY <1>3, <1>5 DEF t, PartReads

\* The states of the names.
LEMMA NamesAre ==
  /\ PutsAll("UsernameOrHostname", NameSymbols, "usernameOrHostname")
  /\ PutsAll("Hostname", NameSymbols, "hostname")
<1> DEFINE r1 == <<"UsernameOrHostname", "name", "UsernameOrHostname", "usernameOrHostname">>
           r2 == <<"Hostname", "name", "Hostname", "hostname">>
<1>1. r1[3] = "UsernameOrHostname" /\ r1[4] = "usernameOrHostname" /\ r2[3] = "Hostname" /\ r2[4] = "hostname"
  OBVIOUS
<1>2. \A c \in NameSymbols : UrlOnly("UsernameOrHostname", c, r1) /\ UrlOnly("Hostname", c, r2)
  BY NameRows
<1> HIDE DEF r1, r2
<1> QED BY <1>1, <1>2, UrlWordSymbols DEF PutsAll, UrlStates, UrlParts

\* The states of the port.
LEMMA PortsAre ==
  /\ PutsAll("PortOrPassword", Range(Digits), "portOrPassword")
  /\ PutsAll("Port", Range(Digits), "portOrPassword")
<1> DEFINE r1 == <<"PortOrPassword", "digit", "PortOrPassword", "portOrPassword">>
           r2 == <<"Port", "digit", "Port", "portOrPassword">>
<1>1. r1[3] = "PortOrPassword" /\ r1[4] = "portOrPassword" /\ r2[3] = "Port" /\ r2[4] = "portOrPassword"
  OBVIOUS
<1>2. \A c \in Range(Digits) : UrlOnly("PortOrPassword", c, r1) /\ UrlOnly("Port", c, r2)
  BY PortRows
<1> HIDE DEF r1, r2
<1> QED BY <1>1, <1>2, UrlWordSymbols DEF PutsAll, UrlStates, UrlParts

\* The state of the scheme.
LEMMA SchemeIs == PutsAll("Scheme", SchemeSymbols, "scheme")
<1> DEFINE r == <<"Scheme", "scheme", "Scheme", "scheme">>
<1>1. r[3] = "Scheme" /\ r[4] = "scheme"
  OBVIOUS
<1>2. \A c \in SchemeSymbols : UrlOnly("Scheme", c, r)
  BY SchemeRows
<1> HIDE DEF r
<1> QED BY <1>1, <1>2, UrlWordSymbols DEF PutsAll, UrlStates, UrlParts

\* The states of the path, the query and the fragment.
LEMMA PathsAre ==
  /\ PutsAll("Path", PathSymbols, "path") /\ PutsAll("Query", PathSymbols, "query")
  /\ PutsAll("Fragment", UrlAlphabet, "fragment")
<1> DEFINE r1 == <<"Path", "pathChar", "Path", "path">>
           r2 == <<"Query", "pathChar", "Query", "query">>
           r3 == <<"Fragment", "any", "Fragment", "fragment">>
<1>1. /\ r1[3] = "Path" /\ r1[4] = "path" /\ r2[3] = "Query" /\ r2[4] = "query"
      /\ r3[3] = "Fragment" /\ r3[4] = "fragment"
  OBVIOUS
<1>2. /\ \A c \in PathSymbols : UrlOnly("Path", c, r1) /\ UrlOnly("Query", c, r2)
      /\ \A c \in UrlAlphabet : UrlOnly("Fragment", c, r3)
  BY PathRows
<1>3. PathSymbols \subseteq UrlAlphabet
  BY DEF PathSymbols
<1> HIDE DEF r1, r2, r3
<1> QED BY <1>1, <1>2, <1>3 DEF PutsAll, UrlStates, UrlParts

\* A symbol that leads from one state to another and does what its row does.
UrlTurn(s, c, t, do) ==
  /\ s \in UrlStates /\ t \in UrlStates /\ c \in UrlAlphabet
  /\ \E r : r[3] = t /\ r[4] = do /\ UrlOnly(s, c, r)

\* A symbol that leads to another state, as the reading of it.
LEMMA UrlTurns ==
  ASSUME NEW s, NEW c, NEW t, NEW do, UrlTurn(s, c, t, do), NEW x \in AUrls
  PROVE  UrlReads(UrlAt(s, x), <<c>>, UrlDone(do, UrlAt(t, x), c))
BY UrlReadsByRow DEF UrlTurn

\* The same, when nothing else is done.
LEMMA UrlPasses ==
  ASSUME NEW s, NEW c, NEW t, UrlTurn(s, c, t, "skip"), NEW x \in AUrls
  PROVE  UrlReads(UrlAt(s, x), <<c>>, UrlAt(t, x))
BY UrlSkips DEF UrlTurn

\* A row for a symbol leads to another state.
LEMMA TurnIs ==
  ASSUME NEW s \in UrlStates, NEW t \in UrlStates, NEW c \in UrlAlphabet, NEW do, NEW class,
         UrlOnly(s, c, <<s, class, t, do>>)
  PROVE  UrlTurn(s, c, t, do)
<1> DEFINE r == <<s, class, t, do>>
<1>1. r[3] = t /\ r[4] = do
  OBVIOUS
<1> HIDE DEF r
<1> QED BY <1>1 DEF UrlTurn, r

\* The symbols that lead from one state to another.
LEMMA TurnsAre ==
  /\ UrlTurn("Scheme", ":", "SlashAfterScheme1", "skip")
  /\ UrlTurn("SlashAfterScheme1", "/", "SlashAfterScheme2", "skip")
  /\ UrlTurn("SlashAfterScheme2", "/", "UsernameOrHostname", "skip")
  /\ UrlTurn("UsernameOrHostname", ":", "PortOrPassword", "skip")
  /\ UrlTurn("UsernameOrHostname", "@", "Hostname", "isUsername")
  /\ UrlTurn("UsernameOrHostname", "/", "Path", "isHostname")
  /\ UrlTurn("Hostname", ":", "Port", "skip")
  /\ UrlTurn("Hostname", "/", "Path", "skip")
  /\ UrlTurn("PortOrPassword", "/", "Path", "areHostnameAndPort")
  /\ UrlTurn("Port", "/", "Path", "isPort")
  /\ UrlTurn("Password", "@", "Hostname", "skip")
  /\ UrlTurn("Path", "?", "Query", "skip")
  /\ UrlTurn("Path", "#", "Fragment", "skip")
  /\ UrlTurn("Query", "#", "Fragment", "skip")
<1>1. /\ "Scheme" \in UrlStates /\ "SlashAfterScheme1" \in UrlStates
      /\ "SlashAfterScheme2" \in UrlStates /\ "UsernameOrHostname" \in UrlStates
      /\ "PortOrPassword" \in UrlStates /\ "Hostname" \in UrlStates /\ "Path" \in UrlStates
      /\ "Port" \in UrlStates /\ "Password" \in UrlStates /\ "Query" \in UrlStates
      /\ "Fragment" \in UrlStates
  BY DEF UrlStates
<1>2. /\ ":" \in UrlAlphabet /\ "/" \in UrlAlphabet /\ "@" \in UrlAlphabet /\ "#" \in UrlAlphabet
      /\ "?" \in UrlAlphabet
  BY UrlWordSymbols
<1>3. /\ UrlTurn("Scheme", ":", "SlashAfterScheme1", "skip")
      /\ UrlTurn("SlashAfterScheme1", "/", "SlashAfterScheme2", "skip")
      /\ UrlTurn("SlashAfterScheme2", "/", "UsernameOrHostname", "skip")
  BY <1>1, <1>2, TurnIs, SchemeRows
<1>4. /\ UrlTurn("UsernameOrHostname", ":", "PortOrPassword", "skip")
      /\ UrlTurn("UsernameOrHostname", "@", "Hostname", "isUsername")
      /\ UrlTurn("UsernameOrHostname", "/", "Path", "isHostname")
  BY <1>1, <1>2, TurnIs, NameRows
<1>5. UrlTurn("Hostname", ":", "Port", "skip") /\ UrlTurn("Hostname", "/", "Path", "skip")
  BY <1>1, <1>2, TurnIs, NameRows
<1>6. /\ UrlTurn("PortOrPassword", "/", "Path", "areHostnameAndPort")
      /\ UrlTurn("Port", "/", "Path", "isPort")
  BY <1>1, <1>2, TurnIs, PortRows
<1>7. UrlTurn("Password", "@", "Hostname", "skip")
  BY <1>1, <1>2, TurnIs, PasswordRows
<1>8. /\ UrlTurn("Path", "?", "Query", "skip") /\ UrlTurn("Path", "#", "Fragment", "skip")
      /\ UrlTurn("Query", "#", "Fragment", "skip")
  BY <1>1, <1>2, TurnIs, PathRows
<1> QED BY <1>3, <1>4, <1>5, <1>6, <1>7, <1>8

UrlSameTwo(x, y, f, h) == \A g \in UrlParts : g # f /\ g # h => x[g] = y[g]

\* std::swap of two parts.
Swap(x, f, h) == Put(Put(x, f, x[h]), h, x[f])

\* Two parts of a URL change places, and nothing else.
LEMMA SwapIs ==
  ASSUME NEW x \in AUrls, NEW f \in UrlParts, NEW h \in UrlParts, f # h, NEW s \in UrlStates
  PROVE  /\ Swap(x, f, h) \in AUrls
         /\ Swap(x, f, h)[f] = x[h] /\ Swap(x, f, h)[h] = x[f]
         /\ UrlSameTwo(Swap(x, f, h), x, f, h)
         /\ Swap(x, f, h).integerPort = x.integerPort
         /\ Swap(UrlAt(s, x), f, h) = UrlAt(s, Swap(x, f, h))
<1> DEFINE t == x[h]
           v == x[f]
           y == Put(x, f, t)
           z == Put(y, h, v)
<1>1. t \in UrlTexts /\ v \in UrlTexts
  BY UrlPut DEF UrlTexts, AUrls, UrlParts
<1>2. Swap(x, f, h) = z
  BY DEF Swap
<1>3. Swap(UrlAt(s, x), f, h) = UrlAt(s, z)
  <2>1. UrlAt(s, x)[h] = t /\ UrlAt(s, x)[f] = v
    BY UrlPutAt
  <2>2. Put(UrlAt(s, x), f, t) = UrlAt(s, y)
    BY UrlPutAt
  <2>3. y \in AUrls
    BY <1>1, UrlPut
  <2> HIDE DEF y, t, v
  <2>4. Put(UrlAt(s, y), h, v) = UrlAt(s, z)
    BY <2>3, UrlPutAt
  <2> QED BY <2>1, <2>2, <2>4 DEF Swap
<1> HIDE DEF t, v
<1>4. y \in AUrls /\ y[f] = t /\ UrlSame(y, x, f) /\ y.integerPort = x.integerPort
  BY <1>1, UrlPut
<1> HIDE DEF y
<1>5. z \in AUrls /\ z[h] = v /\ UrlSame(z, y, h) /\ z.integerPort = y.integerPort
  BY <1>1, <1>4, UrlPut
<1> HIDE DEF z
<1>6. z[f] = t /\ UrlSameTwo(z, x, f, h) /\ z.integerPort = x.integerPort
  BY <1>4, <1>5 DEF UrlSame, UrlSameTwo
<1> QED BY <1>2, <1>3, <1>5, <1>6 DEF t, v

\* std::swap of a part with what was put aside.
LEMMA SwapsAre ==
  /\ \A x : IsUsername(x) = Swap(x, "username", "usernameOrHostname")
  /\ \A x : IsHostname(x) = Swap(x, "hostname", "usernameOrHostname")
  /\ \A x : IsPassword(x) = Swap(x, "password", "portOrPassword")
BY DEF IsUsername, IsHostname, IsPassword, Swap, Put

\* IsPort also sets the number.
Numbered(x, n) == [x EXCEPT !.integerPort = n]

\* Setting the number of the port.
LEMMA NumberedIs ==
  ASSUME NEW x \in AUrls, NEW n \in Nat, NEW s \in UrlStates
  PROVE  /\ Numbered(x, n) \in AUrls /\ Numbered(x, n).integerPort = n
         /\ \A g \in UrlParts : Numbered(x, n)[g] = x[g]
         /\ Numbered(UrlAt(s, x), n) = UrlAt(s, Numbered(x, n))
BY DEF Numbered, AUrls, UrlParts, UrlAt

\* IsPort swaps and sets the number.
LEMMA IsPortIs ==
  \A x : IsPort(x) = Numbered(Swap(x, "port", "portOrPassword"), atoi(x.portOrPassword) % 65536)
<1> TAKE x
<1> DEFINE n == atoi(x.portOrPassword) % 65536
<1>1. IsPort(x) = [x EXCEPT !.port = x.portOrPassword, !.portOrPassword = x.port, !.integerPort = n]
  BY DEF IsPort
<1> HIDE DEF n
<1>2. IsPort(x) = Numbered(Swap(x, "port", "portOrPassword"), n)
  BY <1>1 DEF Swap, Put, Numbered
<1> QED BY <1>2 DEF n

-----------------------------------------------------------------------------
(* User, password, host and port.                                          *)

\* The parts that the authority of a URL is read into.
Authority(x, user, password, host, port, aside, digits) ==
  /\ x.username = user /\ x.password = password /\ x.hostname = host /\ x.port = port
  /\ x.usernameOrHostname = aside /\ x.portOrPassword = digits

\* The parts it leaves alone.
Elsewhere(x, y) ==
  x.scheme = y.scheme /\ x.path = y.path /\ x.query = y.query /\ x.fragment = y.fragment

\* The empty text is a text, and adds nothing.
LEMMA UrlEmpty == \A C : <<>> \in Seq(C) /\ \A w \in Seq(C) : <<>> \o w = w
OBVIOUS

\* A part of the authority is set, the others stay.
LEMMA AsidePut ==
  ASSUME NEW x \in AUrls, NEW a, NEW b, NEW h, NEW p, NEW o, NEW d,
         Authority(x, a, b, h, p, o, d), NEW y
  PROVE  /\ UrlSame(y, x, "usernameOrHostname") =>
              Authority(y, a, b, h, p, y.usernameOrHostname, d) /\ Elsewhere(y, x)
         /\ UrlSame(y, x, "portOrPassword") =>
              Authority(y, a, b, h, p, o, y.portOrPassword) /\ Elsewhere(y, x)
         /\ UrlSame(y, x, "hostname") =>
              Authority(y, a, b, y.hostname, p, o, d) /\ Elsewhere(y, x)
         /\ UrlSame(y, x, "password") =>
              Authority(y, a, y.password, h, p, o, d) /\ Elsewhere(y, x)
BY DEF Authority, Elsewhere, UrlSame, UrlParts

\* What was put aside takes its place in the authority.
LEMMA Swapped ==
  ASSUME NEW x \in AUrls, NEW a, NEW b, NEW h, NEW p, NEW o, NEW d,
         Authority(x, a, b, h, p, o, d)
  PROVE  /\ /\ Swap(x, "username", "usernameOrHostname") \in AUrls
            /\ Authority(Swap(x, "username", "usernameOrHostname"), o, b, h, p, a, d)
            /\ Elsewhere(Swap(x, "username", "usernameOrHostname"), x)
         /\ /\ Swap(x, "hostname", "usernameOrHostname") \in AUrls
            /\ Authority(Swap(x, "hostname", "usernameOrHostname"), a, b, o, p, h, d)
            /\ Elsewhere(Swap(x, "hostname", "usernameOrHostname"), x)
         /\ /\ Swap(x, "password", "portOrPassword") \in AUrls
            /\ Authority(Swap(x, "password", "portOrPassword"), a, d, h, p, o, b)
            /\ Elsewhere(Swap(x, "password", "portOrPassword"), x)
         /\ /\ Swap(x, "port", "portOrPassword") \in AUrls
            /\ Authority(Swap(x, "port", "portOrPassword"), a, b, h, d, o, p)
            /\ Elsewhere(Swap(x, "port", "portOrPassword"), x)
<1>1. ASSUME NEW f \in UrlParts, NEW g \in UrlParts, f # g
      PROVE  /\ Swap(x, f, g) \in AUrls /\ Swap(x, f, g)[f] = x[g] /\ Swap(x, f, g)[g] = x[f]
             /\ UrlSameTwo(Swap(x, f, g), x, f, g)
  <2> DEFINE s == "Path"
  <2>1. s \in UrlStates
    BY DEF UrlStates
  <2> HIDE DEF s
  <2> QED BY <1>1, <2>1, SwapIs
<1>2. /\ Swap(x, "username", "usernameOrHostname") \in AUrls
      /\ Authority(Swap(x, "username", "usernameOrHostname"), o, b, h, p, a, d)
      /\ Elsewhere(Swap(x, "username", "usernameOrHostname"), x)
  <2> DEFINE y == Swap(x, "username", "usernameOrHostname")
  <2>1. /\ y \in AUrls /\ y["username"] = x["usernameOrHostname"]
        /\ y["usernameOrHostname"] = x["username"]
        /\ UrlSameTwo(y, x, "username", "usernameOrHostname")
    BY <1>1 DEF UrlParts
  <2> HIDE DEF y
  <2>2. y \in AUrls /\ Authority(y, o, b, h, p, a, d) /\ Elsewhere(y, x)
    BY <2>1 DEF Authority, Elsewhere, UrlSameTwo, UrlParts
  <2> QED BY <2>2 DEF y
<1>3. /\ Swap(x, "hostname", "usernameOrHostname") \in AUrls
      /\ Authority(Swap(x, "hostname", "usernameOrHostname"), a, b, o, p, h, d)
      /\ Elsewhere(Swap(x, "hostname", "usernameOrHostname"), x)
  <2> DEFINE y == Swap(x, "hostname", "usernameOrHostname")
  <2>1. /\ y \in AUrls /\ y["hostname"] = x["usernameOrHostname"]
        /\ y["usernameOrHostname"] = x["hostname"]
        /\ UrlSameTwo(y, x, "hostname", "usernameOrHostname")
    BY <1>1 DEF UrlParts
  <2> HIDE DEF y
  <2>2. y \in AUrls /\ Authority(y, a, b, o, p, h, d) /\ Elsewhere(y, x)
    BY <2>1 DEF Authority, Elsewhere, UrlSameTwo, UrlParts
  <2> QED BY <2>2 DEF y
<1>4. /\ Swap(x, "password", "portOrPassword") \in AUrls
      /\ Authority(Swap(x, "password", "portOrPassword"), a, d, h, p, o, b)
      /\ Elsewhere(Swap(x, "password", "portOrPassword"), x)
  <2> DEFINE y == Swap(x, "password", "portOrPassword")
  <2>1. /\ y \in AUrls /\ y["password"] = x["portOrPassword"]
        /\ y["portOrPassword"] = x["password"]
        /\ UrlSameTwo(y, x, "password", "portOrPassword")
    BY <1>1 DEF UrlParts
  <2> HIDE DEF y
  <2>2. y \in AUrls /\ Authority(y, a, d, h, p, o, b) /\ Elsewhere(y, x)
    BY <2>1 DEF Authority, Elsewhere, UrlSameTwo, UrlParts
  <2> QED BY <2>2 DEF y
<1>5. /\ Swap(x, "port", "portOrPassword") \in AUrls
      /\ Authority(Swap(x, "port", "portOrPassword"), a, b, h, d, o, p)
      /\ Elsewhere(Swap(x, "port", "portOrPassword"), x)
  <2> DEFINE y == Swap(x, "port", "portOrPassword")
  <2>1. /\ y \in AUrls /\ y["port"] = x["portOrPassword"]
        /\ y["portOrPassword"] = x["port"]
        /\ UrlSameTwo(y, x, "port", "portOrPassword")
    BY <1>1 DEF UrlParts
  <2> HIDE DEF y
  <2>2. y \in AUrls /\ Authority(y, a, b, h, d, o, p) /\ Elsewhere(y, x)
    BY <2>1 DEF Authority, Elsewhere, UrlSameTwo, UrlParts
  <2> QED BY <2>2 DEF y
<1> QED BY <1>2, <1>3, <1>4, <1>5

\* What was put aside is the port, and its number with it.
LEMMA PortIsRead ==
  ASSUME NEW x \in AUrls, NEW s \in UrlStates, NEW a, NEW b, NEW h, NEW p, NEW o,
         NEW d \in Seq(Range(Digits)), Authority(x, a, b, h, p, o, d)
  PROVE  \E y \in AUrls : /\ IsPort(UrlAt(s, x)) = UrlAt(s, y)
                          /\ Authority(y, a, b, h, d, o, p) /\ Elsewhere(y, x)
                          /\ y.integerPort = atoi(d) % 65536
<1> DEFINE n == atoi(d) % 65536
           z == Swap(x, "port", "portOrPassword")
           y == Numbered(z, n)
<1>1. n \in Nat
  BY AtoiTyped
<1>2. z \in AUrls /\ Authority(z, a, b, h, d, o, p) /\ Elsewhere(z, x)
  BY Swapped
<1>3. UrlAt(s, x).portOrPassword = d
  <2>1. UrlAt(s, x)["portOrPassword"] = x["portOrPassword"]
    BY UrlPutAt DEF UrlParts
  <2> QED BY <2>1 DEF Authority
<1>4. Swap(UrlAt(s, x), "port", "portOrPassword") = UrlAt(s, z)
  BY SwapIs DEF UrlParts
<1>5. IsPort(UrlAt(s, x)) = Numbered(UrlAt(s, z), n)
  BY <1>3, <1>4, IsPortIs
<1> HIDE DEF n, z
<1>6. /\ y \in AUrls /\ y.integerPort = n /\ (\A g \in UrlParts : y[g] = z[g])
      /\ Numbered(UrlAt(s, z), n) = UrlAt(s, y)
  BY <1>1, <1>2, NumberedIs
<1> HIDE DEF y
<1>7. Authority(y, a, b, h, d, o, p) /\ Elsewhere(y, x)
  BY <1>2, <1>6 DEF Authority, Elsewhere, UrlParts
<1> QED BY <1>5, <1>6, <1>7 DEF n

\* What a row does besides putting its symbol into a part.
LEMMA UrlActs ==
  \A u, c : /\ UrlDone("isUsername", u, c) = IsUsername(u)
            /\ UrlDone("isHostname", u, c) = IsHostname(u)
            /\ UrlDone("isPort", u, c) = IsPort(u)
            /\ UrlDone("areHostnameAndPort", u, c) = IsPort(IsHostname(u))
            /\ UrlDone("areUsernameAndPassword", u, c)
                 = [IsPassword(IsUsername(u)) EXCEPT !.password = Append(@, c)]
BY DEF UrlDone

\* What the rows swap, in whatever state.
LEMMA ActsAt ==
  ASSUME NEW x \in AUrls, NEW s \in UrlStates
  PROVE  /\ IsUsername(UrlAt(s, x)) = UrlAt(s, Swap(x, "username", "usernameOrHostname"))
         /\ IsHostname(UrlAt(s, x)) = UrlAt(s, Swap(x, "hostname", "usernameOrHostname"))
         /\ IsPassword(UrlAt(s, x)) = UrlAt(s, Swap(x, "password", "portOrPassword"))
<1>1. /\ "username" \in UrlParts /\ "usernameOrHostname" \in UrlParts /\ "hostname" \in UrlParts
      /\ "password" \in UrlParts /\ "portOrPassword" \in UrlParts
  BY DEF UrlParts
<1> QED BY <1>1, SwapsAre, SwapIs

\* The parts of the authority, each read where it may stand.
LEMMA NameAsideReads ==
  ASSUME NEW x \in AUrls, NEW w \in Seq(NameSymbols), NEW a, NEW b, NEW h, NEW p, NEW d,
         Authority(x, a, b, h, p, <<>>, d)
  PROVE  \E y \in AUrls :
           /\ UrlReads(UrlAt("UsernameOrHostname", x), w, UrlAt("UsernameOrHostname", y))
           /\ Authority(y, a, b, h, p, w, d) /\ Elsewhere(y, x)
<1> DEFINE do == "usernameOrHostname"
<1>1. PartReads("UsernameOrHostname", x, do, w)
  BY NamesAre, UrlPartReads
<1>2. x[do] \o w = w
  BY UrlEmpty DEF Authority
<1>3. PICK y \in AUrls :
        /\ UrlReads(UrlAt("UsernameOrHostname", x), w, UrlAt("UsernameOrHostname", y))
        /\ y[do] = w /\ UrlSame(y, x, do)
  BY <1>1, <1>2 DEF PartReads
<1>4. Authority(y, a, b, h, p, w, d) /\ Elsewhere(y, x)
  BY <1>3, AsidePut
<1> QED BY <1>3, <1>4

\* The host after a user is read into its place.
LEMMA HostReads ==
  ASSUME NEW x \in AUrls, NEW w \in Seq(NameSymbols), NEW a, NEW b, NEW p, NEW o, NEW d,
         Authority(x, a, b, <<>>, p, o, d)
  PROVE  \E y \in AUrls : /\ UrlReads(UrlAt("Hostname", x), w, UrlAt("Hostname", y))
                          /\ Authority(y, a, b, w, p, o, d) /\ Elsewhere(y, x)
<1> DEFINE do == "hostname"
<1>1. PartReads("Hostname", x, do, w)
  BY NamesAre, UrlPartReads
<1>2. x[do] \o w = w
  BY UrlEmpty DEF Authority
<1>3. PICK y \in AUrls : /\ UrlReads(UrlAt("Hostname", x), w, UrlAt("Hostname", y))
                         /\ y[do] = w /\ UrlSame(y, x, do)
  BY <1>1, <1>2 DEF PartReads
<1>4. Authority(y, a, b, w, p, o, d) /\ Elsewhere(y, x)
  BY <1>3, AsidePut
<1> QED BY <1>3, <1>4

PortStates == {"PortOrPassword", "Port"}

\* Digits that may be a port are put aside.
LEMMA DigitsAsideRead ==
  ASSUME NEW s \in PortStates, NEW x \in AUrls, NEW w \in Seq(Range(Digits)),
         NEW a, NEW b, NEW h, NEW p, NEW o, Authority(x, a, b, h, p, o, <<>>)
  PROVE  \E y \in AUrls : /\ UrlReads(UrlAt(s, x), w, UrlAt(s, y))
                          /\ Authority(y, a, b, h, p, o, w) /\ Elsewhere(y, x)
<1> DEFINE do == "portOrPassword"
<1>1. PartReads(s, x, do, w)
  BY PortsAre, UrlPartReads DEF PortStates
<1>2. x[do] \o w = w
  BY UrlEmpty DEF Authority
<1>3. PICK y \in AUrls : UrlReads(UrlAt(s, x), w, UrlAt(s, y)) /\ y[do] = w /\ UrlSame(y, x, do)
  BY <1>1, <1>2 DEF PartReads
<1>4. Authority(y, a, b, h, p, o, w) /\ Elsewhere(y, x)
  BY <1>3, AsidePut
<1> QED BY <1>3, <1>4

\* The host, and the port if there is one, and the slash that follows.
HostAndPort(host, port) == host \o After(":", port) \o <<"/">>

HostAndPortRead(s, x, user, password, host, port) ==
  \E y \in AUrls :
    /\ UrlReads(UrlAt(s, x), HostAndPort(host, port), UrlAt("Path", y))
    /\ Authority(y, user, password, host, port, <<>>, <<>>) /\ Elsewhere(y, x)
    /\ port # <<>> => y.integerPort = atoi(port) % 65536

\* Leaving the other parts alone composes.
LEMMA ElsewhereBoth == \A x, y, z : Elsewhere(x, y) /\ Elsewhere(y, z) => Elsewhere(x, z)
BY DEF Elsewhere

\* A host without a port, and the slash.
LEMMA HostOnlyReads ==
  ASSUME NEW s, NEW x, NEW user, NEW password, NEW host \in Seq(NameSymbols), NEW port, port = <<>>,
         NEW y \in AUrls,
         UrlReads(UrlAt(s, x), host \o <<"/">>, UrlAt("Path", y)),
         Authority(y, user, password, host, <<>>, <<>>, <<>>), Elsewhere(y, x)
  PROVE  HostAndPortRead(s, x, user, password, host, port)
<1>1. host \o <<>> = host
  BY EmptySeq
<1>2. HostAndPort(host, port) = host \o <<"/">>
  BY <1>1 DEF HostAndPort, After
<1>3. UrlReads(UrlAt(s, x), HostAndPort(host, port), UrlAt("Path", y))
  BY <1>2
<1>4. Authority(y, user, password, host, port, <<>>, <<>>)
  OBVIOUS
<1>5. port # <<>> => y.integerPort = atoi(port) % 65536
  OBVIOUS
<1> DEFINE Read(z) == /\ UrlReads(UrlAt(s, x), HostAndPort(host, port), UrlAt("Path", z))
                      /\ Authority(z, user, password, host, port, <<>>, <<>>) /\ Elsewhere(z, x)
                      /\ port # <<>> => z.integerPort = atoi(port) % 65536
<1>6. Read(y)
  BY <1>3, <1>4, <1>5
<1>7. HostAndPortRead(s, x, user, password, host, port) <=> \E z \in AUrls : Read(z)
  BY DEF HostAndPortRead
<1> HIDE DEF Read
<1> QED BY <1>6, <1>7

\* A host with a port, and the slash.
LEMMA HostWithPortReads ==
  ASSUME NEW s, NEW x, NEW user, NEW password, NEW host, NEW port, port # <<>>, NEW y \in AUrls,
         UrlReads(UrlAt(s, x), (host \o (<<":">> \o port)) \o <<"/">>, UrlAt("Path", y)),
         Authority(y, user, password, host, port, <<>>, <<>>), Elsewhere(y, x),
         y.integerPort = atoi(port) % 65536
  PROVE  HostAndPortRead(s, x, user, password, host, port)
<1>1. HostAndPort(host, port) = (host \o (<<":">> \o port)) \o <<"/">>
  BY DEF HostAndPort, After
<1> QED BY <1>1 DEF HostAndPortRead

\* Without a user, the host and the port find their places at the slash.
LEMMA HostWithoutUser ==
  ASSUME NEW x \in AUrls, NEW host \in Seq(NameSymbols), NEW port \in Seq(Range(Digits)),
         Authority(x, <<>>, <<>>, <<>>, <<>>, <<>>, <<>>)
  PROVE  HostAndPortRead("UsernameOrHostname", x, <<>>, <<>>, host, port)
<1>1. PICK x1 \in AUrls :
        /\ UrlReads(UrlAt("UsernameOrHostname", x), host, UrlAt("UsernameOrHostname", x1))
        /\ Authority(x1, <<>>, <<>>, <<>>, <<>>, host, <<>>) /\ Elsewhere(x1, x)
  BY NameAsideReads
<1>2. "Path" \in UrlStates
  BY DEF UrlStates
<1>3. CASE port = <<>>
  <2> DEFINE y == Swap(x1, "hostname", "usernameOrHostname")
  <2>1. y \in AUrls /\ Authority(y, <<>>, <<>>, host, <<>>, <<>>, <<>>) /\ Elsewhere(y, x1)
    BY <1>1, Swapped
  <2>2. UrlDone("isHostname", UrlAt("Path", x1), "/") = UrlAt("Path", y)
    BY <1>2, ActsAt, UrlActs
  <2> HIDE DEF y
  <2>3. UrlReads(UrlAt("UsernameOrHostname", x1), <<"/">>, UrlAt("Path", y))
    BY <2>2, UrlTurns, TurnsAre
  <2>4. UrlReads(UrlAt("UsernameOrHostname", x), host \o <<"/">>, UrlAt("Path", y))
    BY <1>1, <2>3, UrlReadsBoth
  <2>5. Elsewhere(y, x)
    BY <1>1, <2>1, ElsewhereBoth
  <2> QED BY <1>3, <2>1, <2>4, <2>5, HostOnlyReads
<1>4. CASE port # <<>>
  <2>1. UrlReads(UrlAt("UsernameOrHostname", x1), <<":">>, UrlAt("PortOrPassword", x1))
    BY UrlPasses, TurnsAre
  <2>2. PICK x2 \in AUrls :
          /\ UrlReads(UrlAt("PortOrPassword", x1), port, UrlAt("PortOrPassword", x2))
          /\ Authority(x2, <<>>, <<>>, <<>>, <<>>, host, port) /\ Elsewhere(x2, x1)
    BY <1>1, DigitsAsideRead DEF PortStates
  <2> DEFINE x3 == Swap(x2, "hostname", "usernameOrHostname")
  <2>3. x3 \in AUrls /\ Authority(x3, <<>>, <<>>, host, <<>>, <<>>, port) /\ Elsewhere(x3, x2)
    BY <2>2, Swapped
  <2>4. IsHostname(UrlAt("Path", x2)) = UrlAt("Path", x3)
    BY <1>2, ActsAt
  <2> HIDE DEF x3
  <2>5. PICK y \in AUrls : /\ IsPort(UrlAt("Path", x3)) = UrlAt("Path", y)
                           /\ Authority(y, <<>>, <<>>, host, port, <<>>, <<>>) /\ Elsewhere(y, x3)
                           /\ y.integerPort = atoi(port) % 65536
    BY <1>2, <2>3, PortIsRead
  <2>6. UrlDone("areHostnameAndPort", UrlAt("Path", x2), "/") = UrlAt("Path", y)
    BY <2>4, <2>5, UrlActs
  <2>7. UrlReads(UrlAt("PortOrPassword", x2), <<"/">>, UrlAt("Path", y))
    BY <2>6, UrlTurns, TurnsAre
  <2>8. UrlReads(UrlAt("UsernameOrHostname", x), (host \o (<<":">> \o port)) \o <<"/">>, UrlAt("Path", y))
    BY <1>1, <2>1, <2>2, <2>7, UrlReadsBoth
  <2>9. Elsewhere(y, x)
    BY <1>1, <2>2, <2>3, <2>5, ElsewhereBoth
  <2> QED BY <1>4, <2>5, <2>8, <2>9, HostWithPortReads
<1> QED BY <1>3, <1>4

\* The same after a user, who is there already.
LEMMA HostAfterUser ==
  ASSUME NEW x \in AUrls, NEW host \in Seq(NameSymbols), NEW port \in Seq(Range(Digits)),
         NEW user, NEW password, Authority(x, user, password, <<>>, <<>>, <<>>, <<>>)
  PROVE  HostAndPortRead("Hostname", x, user, password, host, port)
<1>1. PICK x1 \in AUrls :
        /\ UrlReads(UrlAt("Hostname", x), host, UrlAt("Hostname", x1))
        /\ Authority(x1, user, password, host, <<>>, <<>>, <<>>) /\ Elsewhere(x1, x)
  BY HostReads
<1>2. "Path" \in UrlStates
  BY DEF UrlStates
<1>3. CASE port = <<>>
  <2>1. UrlReads(UrlAt("Hostname", x1), <<"/">>, UrlAt("Path", x1))
    BY UrlPasses, TurnsAre
  <2>2. UrlReads(UrlAt("Hostname", x), host \o <<"/">>, UrlAt("Path", x1))
    BY <1>1, <2>1, UrlReadsBoth
  <2> QED BY <1>1, <1>3, <2>2, HostOnlyReads
<1>4. CASE port # <<>>
  <2>1. UrlReads(UrlAt("Hostname", x1), <<":">>, UrlAt("Port", x1))
    BY UrlPasses, TurnsAre
  <2>2. PICK x2 \in AUrls : /\ UrlReads(UrlAt("Port", x1), port, UrlAt("Port", x2))
                            /\ Authority(x2, user, password, host, <<>>, <<>>, port)
                            /\ Elsewhere(x2, x1)
    BY <1>1, DigitsAsideRead DEF PortStates
  <2>3. PICK y \in AUrls : /\ IsPort(UrlAt("Path", x2)) = UrlAt("Path", y)
                           /\ Authority(y, user, password, host, port, <<>>, <<>>) /\ Elsewhere(y, x2)
                           /\ y.integerPort = atoi(port) % 65536
    BY <1>2, <2>2, PortIsRead
  <2>4. UrlDone("isPort", UrlAt("Path", x2), "/") = UrlAt("Path", y)
    BY <2>3, UrlActs
  <2>5. UrlReads(UrlAt("Port", x2), <<"/">>, UrlAt("Path", y))
    BY <2>4, UrlTurns, TurnsAre
  <2>6. UrlReads(UrlAt("Hostname", x), (host \o (<<":">> \o port)) \o <<"/">>, UrlAt("Path", y))
    BY <1>1, <2>1, <2>2, <2>5, UrlReadsBoth
  <2>7. Elsewhere(y, x)
    BY <1>1, <2>2, <2>3, ElsewhereBoth
  <2> QED BY <1>4, <2>3, <2>6, <2>7, HostWithPortReads
<1> QED BY <1>3, <1>4

\* A URL is its parts.
LEMMA UrlEqualAt ==
  ASSUME NEW x \in AUrls, NEW y \in AUrls, NEW s, \A g \in UrlParts : x[g] = y[g],
         x.integerPort = y.integerPort
  PROVE  UrlAt(s, x) = UrlAt(s, y)
BY DEF AUrls, UrlParts, UrlAt

\* The same authority and the same other parts are the same parts.
LEMMA AuthorityDecides ==
  ASSUME NEW x, NEW y, NEW a, NEW b, NEW h, NEW p, NEW o, NEW d,
         Authority(x, a, b, h, p, o, d), Authority(y, a, b, h, p, o, d), Elsewhere(x, y)
  PROVE  \A g \in UrlParts : x[g] = y[g]
BY DEF Authority, Elsewhere, UrlParts

\* The first symbol of a password that no port has: what was read so far
\* becomes its beginning, and what was taken for a host the user.
LEMMA LetterDone ==
  ASSUME NEW x \in AUrls, NEW user, Authority(x, <<>>, <<>>, <<>>, <<>>, user, <<>>),
         NEW t \in UrlTexts, NEW c \in UrlAlphabet, NEW s \in UrlStates
  PROVE  UrlDone("areUsernameAndPassword", UrlAt(s, Put(x, "portOrPassword", t)), c)
           = UrlAt(s, Put(Swap(x, "username", "usernameOrHostname"), "password", Append(t, c)))
<1> DEFINE z == Swap(x, "username", "usernameOrHostname")
           x1 == Put(x, "portOrPassword", t)
           x2 == Swap(x1, "username", "usernameOrHostname")
           x3 == Swap(x2, "password", "portOrPassword")
           v == Append(t, c)
           y == Put(x3, "password", v)
           y1 == Put(z, "password", v)
<1>1. /\ "username" \in UrlParts /\ "usernameOrHostname" \in UrlParts /\ "password" \in UrlParts
      /\ "portOrPassword" \in UrlParts
  BY DEF UrlParts
<1>2. v \in UrlTexts
  BY DEF UrlTexts
<1>3. /\ z \in AUrls /\ Authority(z, user, <<>>, <<>>, <<>>, <<>>, <<>>) /\ Elsewhere(z, x)
      /\ z.integerPort = x.integerPort
  BY <1>1, Swapped, SwapIs
<1>4. /\ x1 \in AUrls /\ Authority(x1, <<>>, <<>>, <<>>, <<>>, user, t) /\ Elsewhere(x1, x)
      /\ x1.integerPort = x.integerPort
  <2>1. x1 \in AUrls /\ UrlSame(x1, x, "portOrPassword") /\ x1["portOrPassword"] = t
        /\ x1.integerPort = x.integerPort
    BY <1>1, UrlPut
  <2> HIDE DEF x1
  <2> QED BY <2>1, AsidePut
<1> HIDE DEF z, x1, v
<1>5. /\ x2 \in AUrls /\ Authority(x2, user, <<>>, <<>>, <<>>, <<>>, t) /\ Elsewhere(x2, x1)
      /\ x2.integerPort = x1.integerPort /\ IsUsername(UrlAt(s, x1)) = UrlAt(s, x2)
  BY <1>1, <1>4, Swapped, SwapIs, ActsAt
<1> HIDE DEF x2
<1>6. /\ x3 \in AUrls /\ Authority(x3, user, t, <<>>, <<>>, <<>>, <<>>) /\ Elsewhere(x3, x2)
      /\ x3.integerPort = x2.integerPort /\ IsPassword(UrlAt(s, x2)) = UrlAt(s, x3)
  BY <1>1, <1>5, Swapped, SwapIs, ActsAt
<1> HIDE DEF x3
<1>7. y \in AUrls /\ Authority(y, user, v, <<>>, <<>>, <<>>, <<>>) /\ Elsewhere(y, x3)
      /\ y.integerPort = x3.integerPort
  <2>1. y \in AUrls /\ UrlSame(y, x3, "password") /\ y["password"] = v
        /\ y.integerPort = x3.integerPort
    BY <1>1, <1>2, <1>6, UrlPut
  <2> HIDE DEF y
  <2> QED BY <1>6, <2>1, AsidePut
<1>8. y1 \in AUrls /\ Authority(y1, user, v, <<>>, <<>>, <<>>, <<>>) /\ Elsewhere(y1, z)
      /\ y1.integerPort = z.integerPort
  <2>1. y1 \in AUrls /\ UrlSame(y1, z, "password") /\ y1["password"] = v
        /\ y1.integerPort = z.integerPort
    BY <1>1, <1>2, <1>3, UrlPut
  <2> HIDE DEF y1
  <2> QED BY <1>3, <2>1, AsidePut
<1>9. UrlDone("areUsernameAndPassword", UrlAt(s, x1), c) = UrlAt(s, y)
  <2>1. UrlDone("areUsernameAndPassword", UrlAt(s, x1), c)
          = [UrlAt(s, x3) EXCEPT !.password = Append(@, c)]
    BY <1>5, <1>6, UrlActs
  <2>2. UrlAt(s, x3).password = t
    <3>1. UrlAt(s, x3)["password"] = x3["password"]
      BY <1>1, <1>6, UrlPutAt
    <3> QED BY <1>6, <3>1 DEF Authority
  <2>3. [UrlAt(s, x3) EXCEPT !.password = Append(@, c)] = Put(UrlAt(s, x3), "password", v)
    BY <2>2 DEF Put, v
  <2>4. Put(UrlAt(s, x3), "password", v) = UrlAt(s, y)
    BY <1>1, <1>6, UrlPutAt
  <2> QED BY <2>1, <2>3, <2>4
<1> HIDE DEF y, y1
<1>10. Elsewhere(y, y1) /\ y.integerPort = y1.integerPort
  BY <1>3, <1>4, <1>5, <1>6, <1>7, <1>8 DEF Elsewhere
<1>11. \A g \in UrlParts : y[g] = y1[g]
  BY <1>7, <1>8, <1>10, AuthorityDecides
<1>12. UrlAt(s, y) = UrlAt(s, y1)
  BY <1>7, <1>8, <1>10, <1>11, UrlEqualAt
<1> QED BY <1>9, <1>12 DEF x1, y1, z, v

\* A password, whose beginning may look like a port, is read into its place.
LEMMA PasswordReads ==
  ASSUME NEW x \in AUrls, NEW user, Authority(x, <<>>, <<>>, <<>>, <<>>, user, <<>>),
         NEW w \in Seq(SecretSymbols), \E i \in DOMAIN w : w[i] \notin Range(Digits)
  PROVE  \E y \in AUrls :
           /\ UrlReads(UrlAt("PortOrPassword", x), w, UrlAt("Password", y))
           /\ Authority(y, user, w, <<>>, <<>>, <<>>, <<>>) /\ Elsewhere(y, x)
<1> DEFINE z == Swap(x, "username", "usernameOrHostname")
           n == Len(w)
           t(i) == SubSeq(w, 1, i)
           Number(i) == \A j \in 1 .. i : w[j] \in Range(Digits)
           Before(i) == UrlAt("PortOrPassword", Put(x, "portOrPassword", t(i)))
           Within(i) == UrlAt("Password", Put(z, "password", t(i)))
           f == [i \in 0 .. n |-> IF Number(i) THEN Before(i) ELSE Within(i)]
<1>1. /\ "username" \in UrlParts /\ "usernameOrHostname" \in UrlParts /\ "password" \in UrlParts
      /\ "portOrPassword" \in UrlParts /\ "PortOrPassword" \in UrlStates /\ "Password" \in UrlStates
  BY DEF UrlParts, UrlStates
<1>2. z \in AUrls /\ Authority(z, user, <<>>, <<>>, <<>>, <<>>, <<>>) /\ Elsewhere(z, x)
  BY Swapped
<1>3. w \in UrlTexts /\ n \in Nat
  BY SeqWidened, UrlWordSymbols DEF UrlTexts
<1>4. /\ t(0) = <<>> /\ t(n) = w
      /\ \A i \in 0 .. n : t(i) \in UrlTexts
      /\ \A i \in 1 .. n : t(i) = Append(t(i - 1), w[i]) /\ w[i] \in UrlAlphabet
  BY <1>3, PrefixFacts DEF UrlTexts
<1>5. \A i \in 1 .. n : w[i] \in SecretSymbols
  BY ElementOfSeq
<1>6. \A i \in 1 .. n : /\ i \in 0 .. n /\ i - 1 \in 0 .. n
                        /\ Number(i) <=> Number(i - 1) /\ w[i] \in Range(Digits)
  <2>1. \A i \in 1 .. n : \A j \in 1 .. i : j \in 1 .. i - 1 \/ j = i
    BY <1>3
  <2>2. \A i \in 1 .. n : i \in 1 .. i /\ \A j \in 1 .. i - 1 : j \in 1 .. i
    BY <1>3
  <2> QED BY <1>3, <2>1, <2>2
<1>7. /\ \A i \in 0 .. n : f[i] = IF Number(i) THEN Before(i) ELSE Within(i)
      /\ Number(0) /\ ~ Number(n)
  <2>1. Number(0)
    OBVIOUS
  <2>2. ~ Number(n)
    <3>1. DOMAIN w = 1 .. n
      OBVIOUS
    <3> QED BY <3>1
  <2> HIDE DEF Number, Before, Within
  <2> QED BY <2>1, <2>2
<1> HIDE DEF z, n, t, f, Number
<1>8. f[0] = UrlAt("PortOrPassword", x) /\ f[n] = UrlAt("Password", Put(z, "password", w))
  <2>1. Before(0) = UrlAt("PortOrPassword", x)
    <3>1. Put(x, "portOrPassword", x["portOrPassword"]) = x
      BY <1>1, <1>3, UrlPut
    <3>2. x["portOrPassword"] = <<>>
      BY DEF Authority
    <3> QED BY <1>4, <3>1, <3>2
  <2>2. Within(n) = UrlAt("Password", Put(z, "password", w))
    BY <1>4
  <2>3. 0 \in 0 .. n /\ n \in 0 .. n
    BY <1>3
  <2> HIDE DEF Before, Within
  <2> QED BY <1>7, <2>1, <2>2, <2>3
<1>9. ASSUME NEW i \in 1 .. n
      PROVE  Valid(f[i - 1]) /\ f[i] = UrlStep(f[i - 1], w[i])
  <2> DEFINE c == w[i]
             u == t(i - 1)
             p == Put(x, "portOrPassword", u)
             q == Put(z, "password", u)
  <2>1. u \in UrlTexts /\ c \in SecretSymbols /\ c \in UrlAlphabet /\ t(i) = Append(u, c)
    BY <1>4, <1>5, <1>6
  <2>2. /\ p \in AUrls /\ p["portOrPassword"] = u
        /\ Put(p, "portOrPassword", Append(u, c)) = Put(x, "portOrPassword", Append(u, c))
    BY <1>1, <2>1, UrlPut
  <2>3. /\ q \in AUrls /\ q["password"] = u
        /\ Put(q, "password", Append(u, c)) = Put(z, "password", Append(u, c))
    BY <1>1, <1>2, <2>1, UrlPut
  <2>4. /\ Before(i - 1) = UrlAt("PortOrPassword", p) /\ Within(i - 1) = UrlAt("Password", q)
        /\ Before(i) = UrlAt("PortOrPassword", Put(x, "portOrPassword", Append(u, c)))
        /\ Within(i) = UrlAt("Password", Put(z, "password", Append(u, c)))
    BY <2>1
  <2>5. /\ f[i] = IF Number(i) THEN Before(i) ELSE Within(i)
        /\ f[i - 1] = IF Number(i - 1) THEN Before(i - 1) ELSE Within(i - 1)
        /\ Number(i) <=> Number(i - 1) /\ c \in Range(Digits)
    <3> HIDE DEF Before, Within
    <3> QED BY <1>6, <1>7
  <2> HIDE DEF c, u, p, q, Before, Within
  <2>6. CASE Number(i - 1) /\ c \in Range(Digits)
    <3> DEFINE r == <<"PortOrPassword", "digit", "PortOrPassword", "portOrPassword">>
    <3>1. UrlOnly("PortOrPassword", c, r)
      BY <2>6, PortRows
    <3>2. r[3] = "PortOrPassword" /\ r[4] = "portOrPassword"
      OBVIOUS
    <3> HIDE DEF r
    <3>3. UrlStep(UrlAt("PortOrPassword", p), c)
            = UrlDone("portOrPassword", UrlAt("PortOrPassword", p), c)
      BY <1>1, <2>2, <3>1, <3>2, UrlStepByRow
    <3>4. UrlDone("portOrPassword", UrlAt("PortOrPassword", p), c)
            = UrlAt("PortOrPassword", Put(p, "portOrPassword", Append(u, c)))
      BY <1>1, <2>2, UrlPartDone
    <3>5. f[i] = Before(i) /\ f[i - 1] = Before(i - 1)
      BY <2>5, <2>6
    <3>6. Valid(UrlAt("PortOrPassword", p))
      BY <1>1, <2>2, UrlAtIs, UrlValid
    <3> QED BY <2>2, <2>4, <3>3, <3>4, <3>5, <3>6 DEF c
  <2>7. CASE Number(i - 1) /\ c \notin Range(Digits)
    <3> DEFINE r == <<"PortOrPassword", "firstLetter", "Password", "areUsernameAndPassword">>
    <3>1. UrlOnly("PortOrPassword", c, r)
      BY <2>1, <2>7, PasswordRows
    <3>2. r[3] = "Password" /\ r[4] = "areUsernameAndPassword"
      OBVIOUS
    <3> HIDE DEF r
    <3>3. UrlStep(UrlAt("PortOrPassword", p), c)
            = UrlDone("areUsernameAndPassword", UrlAt("Password", p), c)
      BY <1>1, <2>2, <3>1, <3>2, UrlStepByRow
    <3>4. UrlDone("areUsernameAndPassword", UrlAt("Password", p), c)
            = UrlAt("Password", Put(z, "password", Append(u, c)))
      BY <1>1, <2>1, LetterDone DEF p, z
    <3>5. f[i] = Within(i) /\ f[i - 1] = Before(i - 1)
      BY <2>5, <2>7
    <3>6. Valid(UrlAt("PortOrPassword", p))
      BY <1>1, <2>2, UrlAtIs, UrlValid
    <3> QED BY <2>4, <3>3, <3>4, <3>5, <3>6 DEF c
  <2>8. CASE ~ Number(i - 1)
    <3> DEFINE r == <<"Password", "secret", "Password", "password">>
    <3>1. UrlOnly("Password", c, r)
      BY <2>1, PasswordRows
    <3>2. r[3] = "Password" /\ r[4] = "password"
      OBVIOUS
    <3> HIDE DEF r
    <3>3. UrlStep(UrlAt("Password", q), c) = UrlDone("password", UrlAt("Password", q), c)
      BY <1>1, <2>3, <3>1, <3>2, UrlStepByRow
    <3>4. UrlDone("password", UrlAt("Password", q), c)
            = UrlAt("Password", Put(q, "password", Append(u, c)))
      BY <1>1, <2>3, UrlPartDone
    <3>5. f[i] = Within(i) /\ f[i - 1] = Within(i - 1)
      BY <2>5, <2>8
    <3>6. Valid(UrlAt("Password", q))
      BY <1>1, <2>3, UrlAtIs, UrlValid
    <3> QED BY <2>3, <2>4, <3>3, <3>4, <3>5, <3>6 DEF c
  <2> QED BY <2>6, <2>7, <2>8
<1> DEFINE y == Put(z, "password", w)
<1>10. UrlReads(UrlAt("PortOrPassword", x), w, UrlAt("Password", y))
  <2> HIDE DEF y
  <2>1. UrlReadBy(w, f)
    BY <1>9 DEF UrlReadBy, n
  <2> QED BY <1>3, <1>8, <2>1 DEF UrlReads, n, y
<1>11. y \in AUrls /\ y["password"] = w /\ UrlSame(y, z, "password")
  BY <1>1, <1>2, <1>3, UrlPut
<1> HIDE DEF y
<1>12. Authority(y, user, w, <<>>, <<>>, <<>>, <<>>) /\ Elsewhere(y, x)
  BY <1>2, <1>11, AsidePut, ElsewhereBoth
<1> QED BY <1>10, <1>11, <1>12

-----------------------------------------------------------------------------
(* A whole URL.                                                            *)

\* Two texts, one after the other, are a text.
LEMMA UrlJoined == \A s, t \in UrlTexts : s \o t \in UrlTexts
BY ConcatParts DEF UrlTexts

Associate(s, t, w) == (s \o t) \o w = s \o (t \o w)

\* Texts may be put together in any order.
LEMMA UrlAssociates == \A s, t, w \in UrlTexts : Associate(s, t, w)
BY DEF UrlTexts, Associate

\* The user, with or without a password, and the @ that follows.
User(user, password) == user \o After(":", password) \o <<"@">>

\* A user alone is read into its place at the @.
LEMMA UserWithoutPassword ==
  ASSUME NEW x \in AUrls, Authority(x, <<>>, <<>>, <<>>, <<>>, <<>>, <<>>),
         NEW user \in Seq(NameSymbols)
  PROVE  \E y \in AUrls :
           /\ UrlReads(UrlAt("UsernameOrHostname", x), User(user, <<>>), UrlAt("Hostname", y))
           /\ Authority(y, user, <<>>, <<>>, <<>>, <<>>, <<>>) /\ Elsewhere(y, x)
<1>1. PICK x1 \in AUrls :
        /\ UrlReads(UrlAt("UsernameOrHostname", x), user, UrlAt("UsernameOrHostname", x1))
        /\ Authority(x1, <<>>, <<>>, <<>>, <<>>, user, <<>>) /\ Elsewhere(x1, x)
  BY NameAsideReads
<1> DEFINE y == Swap(x1, "username", "usernameOrHostname")
<1>2. y \in AUrls /\ Authority(y, user, <<>>, <<>>, <<>>, <<>>, <<>>) /\ Elsewhere(y, x1)
  BY <1>1, Swapped
<1>3. UrlDone("isUsername", UrlAt("Hostname", x1), "@") = UrlAt("Hostname", y)
  <2>1. "Hostname" \in UrlStates
    BY DEF UrlStates
  <2> QED BY <2>1, ActsAt, UrlActs
<1> HIDE DEF y
<1>4. UrlReads(UrlAt("UsernameOrHostname", x1), <<"@">>, UrlAt("Hostname", y))
  BY <1>3, UrlTurns, TurnsAre
<1>5. UrlReads(UrlAt("UsernameOrHostname", x), user \o <<"@">>, UrlAt("Hostname", y))
  BY <1>1, <1>4, UrlReadsBoth
<1>6. User(user, <<>>) = user \o <<"@">>
  <2>1. user \o <<>> = user
    BY EmptySeq
  <2> QED BY <2>1 DEF User, After
<1>7. Elsewhere(y, x)
  BY <1>1, <1>2, ElsewhereBoth
<1>8. UrlReads(UrlAt("UsernameOrHostname", x), User(user, <<>>), UrlAt("Hostname", y))
  BY <1>5, <1>6
<1> QED BY <1>2, <1>7, <1>8

\* A user with a password is, at the first symbol that no port has.
LEMMA UserWithPassword ==
  ASSUME NEW x \in AUrls, Authority(x, <<>>, <<>>, <<>>, <<>>, <<>>, <<>>),
         NEW user \in Seq(NameSymbols), NEW w \in Seq(SecretSymbols), w # <<>>,
         \E i \in DOMAIN w : w[i] \notin Range(Digits)
  PROVE  \E y \in AUrls :
           /\ UrlReads(UrlAt("UsernameOrHostname", x), User(user, w), UrlAt("Hostname", y))
           /\ Authority(y, user, w, <<>>, <<>>, <<>>, <<>>) /\ Elsewhere(y, x)
<1>1. PICK x1 \in AUrls :
        /\ UrlReads(UrlAt("UsernameOrHostname", x), user, UrlAt("UsernameOrHostname", x1))
        /\ Authority(x1, <<>>, <<>>, <<>>, <<>>, user, <<>>) /\ Elsewhere(x1, x)
  BY NameAsideReads
<1>2. UrlReads(UrlAt("UsernameOrHostname", x1), <<":">>, UrlAt("PortOrPassword", x1))
  BY UrlPasses, TurnsAre
<1>3. PICK y \in AUrls :
        /\ UrlReads(UrlAt("PortOrPassword", x1), w, UrlAt("Password", y))
        /\ Authority(y, user, w, <<>>, <<>>, <<>>, <<>>) /\ Elsewhere(y, x1)
  BY <1>1, PasswordReads
<1>4. UrlReads(UrlAt("Password", y), <<"@">>, UrlAt("Hostname", y))
  BY UrlPasses, TurnsAre
<1>5. UrlReads(UrlAt("UsernameOrHostname", x), (user \o (<<":">> \o w)) \o <<"@">>,
               UrlAt("Hostname", y))
  BY <1>1, <1>2, <1>3, <1>4, UrlReadsBoth
<1>6. User(user, w) = (user \o (<<":">> \o w)) \o <<"@">>
  BY DEF User, After
<1>7. Elsewhere(y, x)
  BY <1>1, <1>3, ElsewhereBoth
<1>8. UrlReads(UrlAt("UsernameOrHostname", x), User(user, w), UrlAt("Hostname", y))
  BY <1>5, <1>6
<1> QED BY <1>3, <1>7, <1>8

\* Everything between the scheme and the slash that begins the path.
UserOrNothing(user, password) == IF user = <<>> THEN <<>> ELSE User(user, password)
SiteText(user, password, host, port) ==
  UserOrNothing(user, password) \o HostAndPort(host, port)

SiteRead(x, user, password, host, port) ==
  \E y \in AUrls :
    /\ UrlReads(UrlAt("UsernameOrHostname", x), SiteText(user, password, host, port),
                UrlAt("Path", y))
    /\ Authority(y, user, password, host, port, <<>>, <<>>) /\ Elsewhere(y, x)
    /\ port # <<>> => y.integerPort = atoi(port) % 65536

\* A password goes with a user, and is not a number.
PasswordOK(user, password) ==
  password # <<>> => /\ user # <<>>
                     /\ \E i \in DOMAIN password : password[i] \notin Range(Digits)

\* The host after what precedes it.
LEMMA HostOfSite ==
  ASSUME NEW x, NEW x1, NEW s, NEW user, NEW password, NEW host, NEW port, NEW w,
         UrlReads(UrlAt("UsernameOrHostname", x), w, UrlAt(s, x1)), Elsewhere(x1, x),
         HostAndPortRead(s, x1, user, password, host, port),
         SiteText(user, password, host, port) = w \o HostAndPort(host, port)
  PROVE  SiteRead(x, user, password, host, port)
<1> DEFINE v == HostAndPort(host, port)
           Number(z) == port # <<>> => z.integerPort = atoi(port) % 65536
           Read(z) == /\ UrlReads(UrlAt("UsernameOrHostname", x),
                                  SiteText(user, password, host, port), UrlAt("Path", z))
                      /\ Authority(z, user, password, host, port, <<>>, <<>>) /\ Elsewhere(z, x)
                      /\ Number(z)
<1>1. PICK y \in AUrls : /\ UrlReads(UrlAt(s, x1), v, UrlAt("Path", y))
                         /\ Authority(y, user, password, host, port, <<>>, <<>>) /\ Elsewhere(y, x1)
                         /\ Number(y)
  BY DEF HostAndPortRead
<1>2. SiteRead(x, user, password, host, port) <=> \E z \in AUrls : Read(z)
  BY DEF SiteRead
<1> HIDE DEF v, Number
<1>3. UrlReads(UrlAt("UsernameOrHostname", x), w \o v, UrlAt("Path", y))
  BY <1>1, UrlReadsBoth
<1>4. Elsewhere(y, x)
  BY <1>1, ElsewhereBoth
<1>5. SiteText(user, password, host, port) = w \o v
  BY DEF v
<1>6. Read(y)
  BY <1>1, <1>3, <1>4, <1>5
<1> HIDE DEF Read
<1> QED BY <1>2, <1>6

\* The whole authority is read, with a user or without, and the slash after it.
LEMMA SiteReads ==
  ASSUME NEW x \in AUrls, Authority(x, <<>>, <<>>, <<>>, <<>>, <<>>, <<>>),
         NEW user \in Seq(NameSymbols), NEW password \in Seq(SecretSymbols),
         PasswordOK(user, password),
         NEW host \in Seq(NameSymbols), NEW port \in Seq(Range(Digits))
  PROVE  SiteRead(x, user, password, host, port)
<1>1. CASE user = <<>>
  <2>1. password = <<>>
    BY <1>1 DEF PasswordOK
  <2>2. HostAndPortRead("UsernameOrHostname", x, <<>>, <<>>, host, port)
    BY HostWithoutUser
  <2>3. UrlReads(UrlAt("UsernameOrHostname", x), <<>>, UrlAt("UsernameOrHostname", x))
    BY UrlReadsNothing
  <2>4. SiteText(user, password, host, port) = <<>> \o HostAndPort(host, port)
    BY <1>1 DEF SiteText, UserOrNothing
  <2>5. Elsewhere(x, x)
    BY DEF Elsewhere
  <2> QED BY <1>1, <2>1, <2>2, <2>3, <2>4, <2>5, HostOfSite
<1>2. CASE user # <<>>
  <2>1. PICK x1 \in AUrls :
          /\ UrlReads(UrlAt("UsernameOrHostname", x), User(user, password), UrlAt("Hostname", x1))
          /\ Authority(x1, user, password, <<>>, <<>>, <<>>, <<>>) /\ Elsewhere(x1, x)
    <3>1. CASE password = <<>>
      BY <3>1, UserWithoutPassword
    <3>2. CASE password # <<>>
      BY <3>2, UserWithPassword DEF PasswordOK
    <3> QED BY <3>1, <3>2
  <2>2. HostAndPortRead("Hostname", x1, user, password, host, port)
    BY <2>1, HostAfterUser
  <2>3. SiteText(user, password, host, port) = User(user, password) \o HostAndPort(host, port)
    BY <1>2 DEF SiteText, UserOrNothing
  <2> QED BY <2>1, <2>2, <2>3, HostOfSite
<1> QED BY <1>1, <1>2

\* The parts of a URL that are not its authority.
Around(x, scheme, path, query, fragment) ==
  x.scheme = scheme /\ x.path = path /\ x.query = query /\ x.fragment = fragment

\* A part outside the authority is set, the others stay.
LEMMA AroundPut ==
  ASSUME NEW x, NEW y, NEW s, NEW p, NEW q, NEW f, Around(x, s, p, q, f)
  PROVE  /\ Elsewhere(y, x) => Around(y, s, p, q, f)
         /\ UrlSame(y, x, "scheme") => Around(y, y.scheme, p, q, f)
         /\ UrlSame(y, x, "path") => Around(y, s, y.path, q, f)
         /\ UrlSame(y, x, "query") => Around(y, s, p, y.query, f)
         /\ UrlSame(y, x, "fragment") => Around(y, s, p, q, y.fragment)
BY DEF Around, Elsewhere, UrlSame, UrlParts

\* The authority stays when a part outside it is set.
LEMMA AuthorityStays ==
  ASSUME NEW x, NEW y, NEW a, NEW b, NEW h, NEW p, NEW o, NEW d, Authority(x, a, b, h, p, o, d),
         NEW f, f \in {"scheme", "path", "query", "fragment"}, UrlSame(y, x, f)
  PROVE  Authority(y, a, b, h, p, o, d)
BY DEF Authority, UrlSame, UrlParts

NothingAside(x) == Authority(x, <<>>, <<>>, <<>>, <<>>, <<>>, <<>>)

\* At first all parts are empty but the path, which is the slash.
LEMMA NewUrlIs == NothingAside(NewUrl) /\ Around(NewUrl, <<>>, <<"/">>, <<>>, <<>>)
BY DEF NothingAside, Authority, Around, NewUrl

\* What follows the scheme.
LEMMA Slashes == (<<":">> \o <<"/">>) \o <<"/">> = <<":", "/", "/">>
<1> DEFINE c == <<":">>
           e == <<"/">>
           u == c \o e
           v == u \o e
           w == <<":", "/", "/">>
<1>1. ":" \in UrlAlphabet /\ "/" \in UrlAlphabet
  BY UrlWordSymbols
<1>2. /\ c \in UrlTexts /\ e \in UrlTexts /\ w \in UrlTexts /\ Len(w) = 3
      /\ Len(c) = 1 /\ Len(e) = 1 /\ c[1] = ":" /\ e[1] = "/"
      /\ w[1] = ":" /\ w[2] = "/" /\ w[3] = "/"
  BY <1>1 DEF UrlTexts
<1> HIDE DEF c, e, w
<1>3. u \in UrlTexts /\ Len(u) = 2 /\ u[1] = ":" /\ u[2] = "/"
  BY <1>2, ConcatProperties DEF UrlTexts
<1> HIDE DEF u
<1>4. v \in UrlTexts /\ Len(v) = 3 /\ v[1] = ":" /\ v[2] = "/" /\ v[3] = "/"
  <2>1. /\ v \in UrlTexts /\ Len(v) = Len(u) + Len(e)
        /\ \A i \in 1 .. Len(u) : v[i] = u[i]
        /\ \A i \in 1 .. Len(e) : v[Len(u) + i] = e[i]
    <3>1. u \in Seq(UrlAlphabet) /\ e \in Seq(UrlAlphabet)
      BY <1>2, <1>3 DEF UrlTexts
    <3> QED BY <3>1, ConcatParts DEF UrlTexts
  <2> HIDE DEF v
  <2> QED BY <1>2, <1>3, <2>1
<1> HIDE DEF v
<1>5. v = w
  BY <1>2, <1>4, SeqEqual DEF UrlTexts
<1> QED BY <1>5 DEF c, e, u, v, w

\* The scheme is read, and what separates it from the authority.
LEMMA SchemeReads ==
  ASSUME NEW scheme \in Seq(SchemeSymbols)
  PROVE  \E y \in AUrls :
           /\ UrlReads(NewUrl, scheme \o <<":", "/", "/">>, UrlAt("UsernameOrHostname", y))
           /\ NothingAside(y) /\ Around(y, scheme, <<"/">>, <<>>, <<>>)
<1> DEFINE do == "scheme"
           x == NewUrl
<1>1. x \in AUrls /\ UrlAt("Scheme", x) = x
  BY NewUrlTyped
<1>2. NothingAside(x) /\ Around(x, <<>>, <<"/">>, <<>>, <<>>)
  BY NewUrlIs
<1> HIDE DEF x
<1>3. PartReads("Scheme", x, do, scheme)
  BY <1>1, SchemeIs, UrlPartReads
<1>4. x[do] \o scheme = scheme
  BY <1>2, UrlEmpty DEF Around
<1>5. PICK y \in AUrls : /\ UrlReads(UrlAt("Scheme", x), scheme, UrlAt("Scheme", y))
                         /\ y[do] = scheme /\ UrlSame(y, x, do)
  BY <1>3, <1>4 DEF PartReads
<1>6. NothingAside(y) /\ Around(y, scheme, <<"/">>, <<>>, <<>>)
  BY <1>2, <1>5, AroundPut, AuthorityStays DEF NothingAside
<1>7. /\ UrlReads(UrlAt("Scheme", y), <<":">>, UrlAt("SlashAfterScheme1", y))
      /\ UrlReads(UrlAt("SlashAfterScheme1", y), <<"/">>, UrlAt("SlashAfterScheme2", y))
      /\ UrlReads(UrlAt("SlashAfterScheme2", y), <<"/">>, UrlAt("UsernameOrHostname", y))
  BY UrlPasses, TurnsAre
<1>8. UrlReads(UrlAt("Scheme", y), (<<":">> \o <<"/">>) \o <<"/">>, UrlAt("UsernameOrHostname", y))
  BY <1>7, UrlReadsBoth
<1>9. (<<":">> \o <<"/">>) \o <<"/">> = <<":", "/", "/">>
  BY Slashes
<1>10. UrlReads(UrlAt("Scheme", x), scheme \o <<":", "/", "/">>, UrlAt("UsernameOrHostname", y))
  BY <1>5, <1>8, <1>9, UrlReadsBoth
<1> QED BY <1>1, <1>6, <1>10 DEF x

\* From the path on the authority stays as it is, and so does the port.
Further(y, x) ==
  /\ \A a, b, h, p, o, d : Authority(x, a, b, h, p, o, d) => Authority(y, a, b, h, p, o, d)
  /\ y.integerPort = x.integerPort

\* Leaving the authority alone composes.
LEMMA FurtherBoth == \A x, y, z : Further(x, y) /\ Further(y, z) => Further(x, z)
BY DEF Further

\* Setting one of the last three parts leaves the authority alone.
LEMMA FurtherPart ==
  ASSUME NEW x, NEW y, NEW f, f \in {"path", "query", "fragment"}, UrlSame(y, x, f),
         y.integerPort = x.integerPort
  PROVE  Further(y, x)
BY AuthorityStays DEF Further

TailStates == {"Path", "Query", "Fragment"}

\* The rest of the path is read.
LEMMA PathReads ==
  ASSUME NEW x \in AUrls, NEW scheme, NEW t \in Seq(PathSymbols), NEW path,
         path = <<"/">> \o t, Around(x, scheme, <<"/">>, <<>>, <<>>)
  PROVE  \E y \in AUrls : /\ UrlReads(UrlAt("Path", x), t, UrlAt("Path", y))
                          /\ Around(y, scheme, path, <<>>, <<>>) /\ Further(y, x)
<1> DEFINE do == "path"
<1>1. PartReads("Path", x, do, t)
  BY PathsAre, UrlPartReads
<1>2. x[do] \o t = path
  BY DEF Around
<1>3. PICK y \in AUrls : /\ UrlReads(UrlAt("Path", x), t, UrlAt("Path", y))
                         /\ y[do] = path /\ UrlSame(y, x, do) /\ y.integerPort = x.integerPort
  BY <1>1, <1>2 DEF PartReads
<1> QED BY <1>3, AroundPut, FurtherPart

\* The query, if there is one, is read.
LEMMA QueryReads ==
  ASSUME NEW x \in AUrls, NEW scheme, NEW path, NEW query \in Seq(PathSymbols),
         Around(x, scheme, path, <<>>, <<>>)
  PROVE  \E y \in AUrls : \E s \in TailStates :
           /\ s # "Fragment"
           /\ UrlReads(UrlAt("Path", x), After("?", query), UrlAt(s, y))
           /\ Around(y, scheme, path, query, <<>>) /\ Further(y, x)
<1> DEFINE do == "query"
<1>1. CASE query = <<>>
  <2>1. UrlReads(UrlAt("Path", x), After("?", query), UrlAt("Path", x))
    BY <1>1, UrlReadsNothing DEF After
  <2>2. Further(x, x) /\ Around(x, scheme, path, query, <<>>)
    BY <1>1 DEF Further
  <2> QED BY <2>1, <2>2 DEF TailStates
<1>2. CASE query # <<>>
  <2>1. UrlReads(UrlAt("Path", x), <<"?">>, UrlAt("Query", x))
    BY UrlPasses, TurnsAre
  <2>2. PartReads("Query", x, do, query)
    BY PathsAre, UrlPartReads
  <2>3. x[do] \o query = query
    BY UrlEmpty DEF Around
  <2>4. PICK y \in AUrls : /\ UrlReads(UrlAt("Query", x), query, UrlAt("Query", y))
                           /\ y[do] = query /\ UrlSame(y, x, do) /\ y.integerPort = x.integerPort
    BY <2>2, <2>3 DEF PartReads
  <2>5. UrlReads(UrlAt("Path", x), <<"?">> \o query, UrlAt("Query", y))
    BY <2>1, <2>4, UrlReadsBoth
  <2>6. Around(y, scheme, path, query, <<>>) /\ Further(y, x)
    BY <2>4, AroundPut, FurtherPart
  <2> QED BY <1>2, <2>5, <2>6 DEF After, TailStates
<1> QED BY <1>1, <1>2

\* The fragment, if there is one, is read.
LEMMA FragmentReads ==
  ASSUME NEW x \in AUrls, NEW s \in TailStates, s # "Fragment",
         NEW scheme, NEW path, NEW query, NEW fragment \in UrlTexts,
         Around(x, scheme, path, query, <<>>)
  PROVE  \E y \in AUrls : \E t \in TailStates :
           /\ UrlReads(UrlAt(s, x), After("#", fragment), UrlAt(t, y))
           /\ Around(y, scheme, path, query, fragment) /\ Further(y, x)
<1> DEFINE do == "fragment"
<1>1. CASE fragment = <<>>
  <2>1. UrlReads(UrlAt(s, x), After("#", fragment), UrlAt(s, x))
    BY <1>1, UrlReadsNothing DEF After
  <2>2. Further(x, x) /\ Around(x, scheme, path, query, fragment)
    BY <1>1 DEF Further
  <2> QED BY <2>1, <2>2
<1>2. CASE fragment # <<>>
  <2>1. UrlReads(UrlAt(s, x), <<"#">>, UrlAt("Fragment", x))
    BY UrlPasses, TurnsAre DEF TailStates
  <2>2. PartReads("Fragment", x, do, fragment)
    BY PathsAre, UrlPartReads DEF UrlTexts
  <2>3. x[do] \o fragment = fragment
    BY UrlEmpty DEF Around, UrlTexts
  <2>4. PICK y \in AUrls : /\ UrlReads(UrlAt("Fragment", x), fragment, UrlAt("Fragment", y))
                           /\ y[do] = fragment /\ UrlSame(y, x, do) /\ y.integerPort = x.integerPort
    BY <2>2, <2>3 DEF PartReads
  <2>5. UrlReads(UrlAt(s, x), <<"#">> \o fragment, UrlAt("Fragment", y))
    BY <2>1, <2>4, UrlReadsBoth
  <2>6. Around(y, scheme, path, query, fragment) /\ Further(y, x)
    BY <2>4, AroundPut, FurtherPart
  <2> QED BY <1>2, <2>5, <2>6 DEF After, TailStates
<1> QED BY <1>1, <1>2

UrlTextsJoined(scheme, user, host, port, e, t) ==
  (((scheme \o user) \o host) \o port) \o (e \o t)
    = (scheme \o (user \o ((host \o port) \o e))) \o t

\* The slash that begins the path ends the authority.
LEMMA UrlTextsJoin ==
  ASSUME NEW scheme \in UrlTexts, NEW user \in UrlTexts, NEW host \in UrlTexts,
         NEW port \in UrlTexts, NEW e \in UrlTexts, NEW t \in UrlTexts
  PROVE  UrlTextsJoined(scheme, user, host, port, e, t)
<1> DEFINE a == scheme \o user
           h == host \o port
           k == h \o e
           b == a \o h
<1>1. a \in UrlTexts /\ h \in UrlTexts
  BY UrlJoined
<1> HIDE DEF a, h
<1>2. b \in UrlTexts /\ k \in UrlTexts
  BY <1>1, UrlJoined
<1> HIDE DEF b, k
<1>3. /\ Associate(a, host, port) /\ Associate(b, e, t) /\ Associate(a, h, e)
      /\ Associate(scheme, user, k)
  BY <1>1, <1>2, UrlAssociates
<1>4. (a \o host) \o port = b
  BY Zenon, <1>3 DEF Associate, h, b
<1>5. b \o e = a \o k
  BY Zenon, <1>3 DEF Associate, b, k
<1>6. a \o k = scheme \o (user \o k)
  BY Zenon, <1>3 DEF Associate, a
<1>7. ((a \o host) \o port) \o (e \o t) = (scheme \o (user \o k)) \o t
  BY Zenon, <1>3, <1>4, <1>5, <1>6 DEF Associate
<1> QED BY Zenon, <1>7 DEF UrlTextsJoined, a, h, k

\* Everything a URL says.
UrlMeant(q, u) ==
  /\ Authority(q, u.username, u.password, u.hostname, u.port, <<>>, <<>>)
  /\ Around(q, u.scheme, u.path, u.query, u.fragment)
  /\ u.port # <<>> => q.integerPort = atoi(u.port) % 65536

\* The parts of a URL are texts of their states.
LEMMA UrlFields ==
  ASSUME NEW u, UrlOK(u)
  PROVE  /\ u.scheme \in Seq(SchemeSymbols) /\ u.username \in Seq(NameSymbols)
         /\ u.password \in Seq(SecretSymbols) /\ u.hostname \in Seq(NameSymbols)
         /\ u.port \in Seq(Range(Digits)) /\ u.query \in Seq(PathSymbols)
         /\ u.fragment \in UrlTexts /\ PasswordOK(u.username, u.password)
         /\ \E t \in Seq(PathSymbols) : u.path = <<"/">> \o t
         /\ DOMAIN u = {"scheme", "username", "hostname", "password", "port", "path", "query",
                        "fragment"}
<1>1. /\ u.scheme \in Seq(SchemeSymbols) /\ u.username \in Seq(NameSymbols)
      /\ u.password \in Seq(SecretSymbols) /\ u.hostname \in Seq(NameSymbols)
      /\ u.port \in Seq(Range(Digits)) /\ u.query \in Seq(UrlText) /\ u.path \in Seq(UrlText)
      /\ u.fragment \in Seq(STRING)
      /\ DOMAIN u = {"scheme", "username", "hostname", "password", "port", "path", "query",
                     "fragment"}
  BY DEF UrlOK, SchemeSymbols, SecretSymbols
<1>2. PasswordOK(u.username, u.password) /\ u.path # <<>> /\ u.path[1] = "/"
  BY DEF UrlOK, PasswordOK
<1>3. UrlText \subseteq PathSymbols /\ STRING \subseteq UrlAlphabet
  BY UrlClasses DEF UrlText, PathSymbols, UrlAlphabet
<1>4. u.query \in Seq(PathSymbols) /\ u.path \in Seq(PathSymbols) /\ u.fragment \in UrlTexts
  BY <1>1, <1>3, SeqWidened DEF UrlTexts
<1>5. \E t \in Seq(PathSymbols) : u.path = <<"/">> \o t
  <2> DEFINE p == u.path
  <2>1. p \in Seq(PathSymbols) /\ p # <<>> /\ p[1] = "/"
    BY <1>2, <1>4
  <2> HIDE DEF p
  <2>2. Tail(p) \in Seq(PathSymbols) /\ p = <<p[1]>> \o Tail(p)
    BY <2>1
  <2> QED BY <2>1, <2>2 DEF p
<1> QED BY <1>1, <1>2, <1>4, <1>5

\* A whole URL is read, every part into its place.
LEMMA UrlIsRead ==
  ASSUME NEW u, UrlOK(u)
  PROVE  \E q \in AUrls : \E s \in TailStates :
           UrlReads(NewUrl, RenderUrl(u), UrlAt(s, q)) /\ UrlMeant(q, u)
<1> DEFINE scheme == u.scheme
           user == u.username
           password == u.password
           host == u.hostname
           port == u.port
           path == u.path
           query == u.query
           fragment == u.fragment
           begin == scheme \o <<":", "/", "/">>
           site == SiteText(user, password, host, port)
           Number(q) == port # <<>> => q.integerPort = atoi(port) % 65536
<1>1. /\ scheme \in Seq(SchemeSymbols) /\ user \in Seq(NameSymbols)
      /\ password \in Seq(SecretSymbols) /\ host \in Seq(NameSymbols)
      /\ port \in Seq(Range(Digits)) /\ query \in Seq(PathSymbols)
      /\ fragment \in UrlTexts /\ PasswordOK(user, password)
      /\ \E t \in Seq(PathSymbols) : path = <<"/">> \o t
  BY UrlFields
<1>2. RenderUrl(u) = (((((begin \o UserOrNothing(user, password)) \o host) \o After(":", port)) \o path)
                        \o After("?", query)) \o After("#", fragment)
  BY DEF RenderUrl, UserOrNothing, User
<1>3. \A q : UrlMeant(q, u) <=> /\ Authority(q, user, password, host, port, <<>>, <<>>)
                                /\ Around(q, scheme, path, query, fragment) /\ Number(q)
  BY DEF UrlMeant
<1> HIDE DEF scheme, user, password, host, port, path, query, fragment
<1>4. PICK t \in Seq(PathSymbols) : path = <<"/">> \o t
  BY <1>1
<1>5. PICK x1 \in AUrls : /\ UrlReads(NewUrl, begin, UrlAt("UsernameOrHostname", x1))
                          /\ NothingAside(x1) /\ Around(x1, scheme, <<"/">>, <<>>, <<>>)
  BY <1>1, SchemeReads
<1>6. PICK x2 \in AUrls : /\ UrlReads(UrlAt("UsernameOrHostname", x1), site, UrlAt("Path", x2))
                          /\ Authority(x2, user, password, host, port, <<>>, <<>>)
                          /\ Elsewhere(x2, x1) /\ Number(x2)
  <2>1. SiteRead(x1, user, password, host, port)
    BY <1>1, <1>5, SiteReads DEF NothingAside
  <2> QED BY <2>1 DEF SiteRead
<1>7. Around(x2, scheme, <<"/">>, <<>>, <<>>)
  BY <1>5, <1>6, AroundPut
<1>8. PICK x3 \in AUrls : /\ UrlReads(UrlAt("Path", x2), t, UrlAt("Path", x3))
                          /\ Around(x3, scheme, path, <<>>, <<>>) /\ Further(x3, x2)
  BY <1>4, <1>7, PathReads
<1>9. PICK x4 \in AUrls, s4 \in TailStates :
        /\ s4 # "Fragment" /\ UrlReads(UrlAt("Path", x3), After("?", query), UrlAt(s4, x4))
        /\ Around(x4, scheme, path, query, <<>>) /\ Further(x4, x3)
  BY <1>1, <1>8, QueryReads
<1>10. PICK q \in AUrls, s \in TailStates :
         /\ UrlReads(UrlAt(s4, x4), After("#", fragment), UrlAt(s, q))
         /\ Around(q, scheme, path, query, fragment) /\ Further(q, x4)
  BY <1>1, <1>9, FragmentReads
<1>11. UrlMeant(q, u)
  <2>1. Further(q, x2)
    BY <1>8, <1>9, <1>10, FurtherBoth
  <2>2. Number(q)
    BY <1>6, <2>1 DEF Further
  <2>3. Authority(q, user, password, host, port, <<>>, <<>>)
    BY <1>6, <2>1 DEF Further
  <2> HIDE DEF Number
  <2> QED BY <1>3, <1>10, <2>2, <2>3
<1>12. RenderUrl(u) = (((begin \o site) \o t) \o After("?", query)) \o After("#", fragment)
  <2> DEFINE w == UserOrNothing(user, password)
             v == After(":", port)
             e == <<"/">>
  <2>1. begin \in UrlTexts /\ After("?", query) \in UrlTexts
    BY <1>5, <1>9 DEF UrlReads
  <2>2. host \in UrlTexts /\ t \in UrlTexts
    <3>1. NameSymbols \subseteq UrlAlphabet /\ PathSymbols \subseteq UrlAlphabet
      BY UrlWordSymbols DEF PathSymbols
    <3> QED BY <1>1, <3>1, SeqWidened DEF UrlTexts
  <2>3. \A c \in {":", "/", "@"} : <<c>> \in UrlTexts
    BY UrlWordSymbols DEF UrlTexts
  <2>4. e \in UrlTexts
    BY <2>3
  <2>5. v \in UrlTexts /\ port \in UrlTexts
    <3>1. Range(Digits) \subseteq UrlAlphabet
      BY UrlWordSymbols
    <3>2. port \in UrlTexts /\ <<>> \in UrlTexts
      BY <1>1, <3>1, SeqWidened, UrlEmpty DEF UrlTexts
    <3> QED BY <2>3, <3>2, UrlJoined DEF After
  <2>6. w \in UrlTexts
    <3>1. NameSymbols \subseteq UrlAlphabet /\ SecretSymbols \subseteq UrlAlphabet
      BY UrlWordSymbols
    <3>2. user \in UrlTexts /\ password \in UrlTexts /\ <<>> \in UrlTexts
      BY <1>1, <3>1, SeqWidened, UrlEmpty DEF UrlTexts
    <3>3. After(":", password) \in UrlTexts
      BY <2>3, <3>2, UrlJoined DEF After
    <3>4. User(user, password) \in UrlTexts
      <4> DEFINE a == After(":", password)
                 b == <<"@">>
      <4>1. a \in UrlTexts /\ b \in UrlTexts
        BY <2>3, <3>3
      <4>2. User(user, password) = (user \o a) \o b
        BY DEF User
      <4> HIDE DEF a, b
      <4> QED BY <3>2, <4>1, <4>2, UrlJoined
    <3> QED BY <3>2, <3>4 DEF UserOrNothing
  <2>7. path = e \o t /\ site = w \o ((host \o v) \o e)
    BY <1>4 DEF SiteText, HostAndPort
  <2> HIDE DEF begin, site, w, v, e
  <2>8. (((begin \o w) \o host) \o v) \o path = (begin \o site) \o t
    <3>1. UrlTextsJoined(begin, w, host, v, e, t)
      BY <2>1, <2>2, <2>4, <2>5, <2>6, UrlTextsJoin
    <3> QED BY Zenon, <2>7, <3>1 DEF UrlTextsJoined
  <2> QED BY <1>2, <2>8 DEF w, v
<1>13. UrlReads(NewUrl, RenderUrl(u), UrlAt(s, q))
  <2> HIDE DEF begin, site
  <2>1. UrlReads(NewUrl, begin \o site, UrlAt("Path", x2))
    BY <1>5, <1>6, UrlReadsBoth
  <2>2. UrlReads(NewUrl, (begin \o site) \o t, UrlAt("Path", x3))
    BY <1>8, <2>1, UrlReadsBoth
  <2>3. UrlReads(NewUrl, ((begin \o site) \o t) \o After("?", query), UrlAt(s4, x4))
    BY <1>9, <2>2, UrlReadsBoth
  <2>4. UrlReads(NewUrl, (((begin \o site) \o t) \o After("?", query)) \o After("#", fragment), UrlAt(s, q))
    BY <1>10, <2>3, UrlReadsBoth
  <2> QED BY Zenon, <1>12, <2>4
<1> QED BY <1>11, <1>13

UrlRead(v, c) == IF v.valid THEN UrlStep(v, c) ELSE v

\* The fold of parse_ is where reading the text leads.
LEMMA UrlFolded ==
  ASSUME NEW w, NEW q, UrlReads(NewUrl, w, q)
  PROVE  Fold(LAMBDA v, c : IF v.valid THEN UrlStep(v, c) ELSE v, NewUrl, w) = q
<1> DEFINE n == Len(w)
           Equation(g) == g = [i \in 0 .. Len(w) |-> IF i = 0 THEN NewUrl
                                                    ELSE UrlRead(g[i - 1], w[i])]
<1>1. n \in Nat
  BY LenProperties DEF UrlReads, UrlTexts
<1>2. PICK f : f[0] = NewUrl /\ f[n] = q /\ UrlReadBy(w, f)
  BY DEF UrlReads
<1> DEFINE h == [i \in 0 .. n |-> f[i]]
<1>3. Fold(LAMBDA v, c : IF v.valid THEN UrlStep(v, c) ELSE v, NewUrl, w)
        = (CHOOSE g : Equation(g))[n]
  BY DEF Fold, UrlRead
<1>4. \A i \in 1 .. n : f[i] = UrlRead(f[i - 1], w[i])
  BY <1>2 DEF UrlReadBy, UrlRead, Valid
<1>5. /\ \A i \in 1 .. n : i - 1 \in 0 .. n /\ i \in 0 .. n /\ i # 0
      /\ \A i \in 0 .. n : i = 0 \/ i \in 1 .. n
  BY <1>1
<1>6. Equation(h)
  <2>1. \A i \in 0 .. n : f[i] = IF i = 0 THEN NewUrl ELSE UrlRead(h[i - 1], w[i])
    BY <1>2, <1>4, <1>5
  <2>2. [i \in 0 .. n |-> f[i]]
          = [i \in 0 .. n |-> IF i = 0 THEN NewUrl ELSE UrlRead(h[i - 1], w[i])]
    <3> HIDE DEF h
    <3> QED BY <2>1
  <2> QED BY <2>2
<1> DEFINE g == CHOOSE g : Equation(g)
<1>7. Equation(g)
  <2> HIDE DEF Equation, h
  <2> QED BY <1>6
<1> HIDE DEF g, h
<1>8. g[0] = NewUrl /\ \A i \in 1 .. n : g[i] = UrlRead(g[i - 1], w[i])
  BY <1>1, <1>5, <1>7
<1> HIDE DEF Equation
<1>9. \A i \in 0 .. n : Agree(g, f, i)
  <2>1. \A i \in 1 .. n : Agree(g, f, i - 1) => Agree(g, f, i)
    BY <1>4, <1>8 DEF Agree
  <2>2. Agree(g, f, 0)
    BY <1>2, <1>8 DEF Agree
  <2> HIDE DEF n
  <2> QED BY <1>1, <2>1, <2>2, SameIteration
<1>10. g[n] = q
  <2>1. n \in 0 .. n
    BY <1>1
  <2> HIDE DEF n
  <2> QED BY <1>2, <1>9, <2>1 DEF Agree
<1> QED BY <1>3, <1>10 DEF g

\* parse_ returns it if no name was left aside.
LEMMA UrlReturned ==
  ASSUME NEW w, NEW q, UrlReads(NewUrl, w, q), q.usernameOrHostname = <<>>
  PROVE  parse_(w) = q
<1> DEFINE u == Fold(LAMBDA v, c : IF v.valid THEN UrlStep(v, c) ELSE v, NewUrl, w)
<1>1. u = q
  BY UrlFolded
<1>2. parse_(w) = IF u.usernameOrHostname = <<>> THEN u
                  ELSE [u EXCEPT !.hostname = u.usernameOrHostname]
  BY DEF parse_
<1> HIDE DEF u
<1> QED BY <1>1, <1>2

\* parse_ of a URL has read it.
LEMMA UrlIsParsed ==
  ASSUME NEW u, UrlOK(u)
  PROVE  HasReadUrl(parse_(RenderUrl(u)), u) /\ RenderUrl(u) # <<>>
<1>1. PICK q \in AUrls, s \in TailStates :
        UrlReads(NewUrl, RenderUrl(u), UrlAt(s, q)) /\ UrlMeant(q, u)
  BY UrlIsRead
<1> DEFINE v == UrlAt(s, q)
<1>2. s \in UrlStates /\ s # "Scheme"
  BY DEF TailStates, UrlStates
<1>3. v \in AUrls /\ v.state = s /\ v.integerPort = q.integerPort
  BY <1>2, UrlAtIs
<1>4. \A f \in UrlParts : v[f] = q[f]
  BY <1>2, UrlPutAt
<1> HIDE DEF v
<1>5. UrlMeant(v, u)
  BY <1>1, <1>3, <1>4 DEF UrlMeant, Authority, Around, UrlParts
<1>6. parse_(RenderUrl(u)) = v
  BY <1>1, <1>5, UrlReturned DEF v, UrlMeant, Authority
<1>7. RenderUrl(u) # <<>>
  <2>1. NewUrl.state = "Scheme"
    BY DEF NewUrl
  <2> QED BY <1>1, <1>2, <1>3, <2>1 DEF UrlReads, v
<1>8. HasReadUrl(v, u)
  <2>1. v.valid
    BY <1>3, UrlValid DEF Valid
  <2>2. \A f \in DOMAIN u : v[f] = u[f]
    <3>1. /\ v["scheme"] = u["scheme"] /\ v["username"] = u["username"]
          /\ v["password"] = u["password"] /\ v["hostname"] = u["hostname"]
          /\ v["port"] = u["port"] /\ v["path"] = u["path"]
          /\ v["query"] = u["query"] /\ v["fragment"] = u["fragment"]
      BY <1>5 DEF UrlMeant, Authority, Around
    <3>2. DOMAIN u = {"scheme", "username", "hostname", "password", "port", "path", "query",
                      "fragment"}
      BY UrlFields
    <3> QED BY <3>1, <3>2
  <2>3. v.portOrPassword = <<>> /\ v.port = u.port /\ v.scheme = u.scheme
    BY <1>5 DEF UrlMeant, Authority, Around
  <2>4. u.port # <<>> => v.integerPort = atoi(u.port)
    <3> DEFINE n == atoi(u.port)
    <3>1. n \in Nat /\ n < 65536
      BY UrlFields, AtoiTyped DEF UrlOK
    <3>2. u.port # <<>> => v.integerPort = n % 65536
      BY <1>5 DEF UrlMeant
    <3> HIDE DEF n
    <3>3. n % 65536 = n
      BY <3>1
    <3> QED BY <3>2, <3>3 DEF n
  <2> QED BY <2>1, <2>2, <2>3, <2>4 DEF HasReadUrl, httpPort
<1> QED BY <1>6, <1>7, <1>8

\* A URL is still to be parsed, or has been read right.
UrlInv ==
  document.kind = "url" =>
    IF document.rest = <<>> THEN HasReadUrl(document.into, document.meaning)
    ELSE document.rest = RenderUrl(document.meaning) /\ UrlOK(document.meaning)

\* At first a URL is still to be parsed.
LEMMA InitUrl == InitDocument => UrlInv
<1>1. ASSUME NEW u \in Urls, document = Document("url", u, RenderUrl(u), NewUrl) PROVE UrlInv
  BY <1>1, FieldsOf, MessagesOK, UrlIsParsed DEF UrlInv
<1>2. ASSUME NEW m, NEW t, NEW p, NEW k, k # "url", document = Document(k, m, t, p) PROVE UrlInv
  BY <1>2, FieldsOf DEF UrlInv
<1> QED BY <1>1, <1>2 DEF InitDocument

\* UrlInv is inductive, given DocumentInv.
LEMMA NextUrl == DocumentInv /\ UrlInv /\ [NextDocument]_document => UrlInv'
<1> SUFFICES ASSUME DocumentInv, UrlInv, [NextDocument]_document PROVE UrlInv'
  OBVIOUS
<1>1. ASSUME NEW rows, ParsePiece(rows), document.kind # "url" PROVE UrlInv'
  <2>1. document'.kind = document.kind
    BY <1>1, PieceIs, FieldsOf DEF DocumentInv
  <2> QED BY <1>1, <2>1 DEF UrlInv
<1>2. CASE ParseRequest
  BY <1>1, <1>2 DEF ParseRequest
<1>3. CASE ParseResponse
  BY <1>1, <1>3 DEF ParseResponse
<1>4. CASE ParseUrl
  <2> DEFINE y == parse_(document.rest)
  <2>1. document' = [document EXCEPT !.into = y, !.rest = <<>>] /\ document.kind = "url"
        /\ document.rest # <<>>
    BY <1>4 DEF ParseUrl
  <2>2. HasReadUrl(y, document.meaning)
    BY <2>1, UrlIsParsed DEF UrlInv
  <2> HIDE DEF y
  <2>3. document' = Document("url", document.meaning, <<>>, y)
    BY <2>1 DEF DocumentInv, Document
  <2> QED BY <2>2, <2>3, FieldsOf DEF UrlInv
<1>5. CASE UNCHANGED document
  BY <1>5 DEF UrlInv
<1> QED BY <1>2, <1>3, <1>4, <1>5 DEF NextDocument

\* UrlParser reads every URL with a path as what it says: each part in its place,
\* nothing left aside, and the port the one meant.
THEOREM UrlsAreParsed == DocumentSpec => []UrlsParsed
<1>1. UrlInv => UrlsParsed
  BY DEF UrlInv, UrlsParsed
<1> QED BY <1>1, InitDue, NextDue, InitUrl, NextUrl, PTL DEF DocumentSpec
=============================================================================
