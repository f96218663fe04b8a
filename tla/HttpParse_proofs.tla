-------------------------- MODULE HttpParse_proofs --------------------------
(***************************************************************************)
(* What the parser of the http check makes of the texts a peer answers     *)
(* with: where its loop stands in a text does not depend on the pieces in  *)
(* which the text has come.                                                *)
(***************************************************************************)
EXTENDS HttpAnswers, SequenceTheorems, WellFoundedInduction, TLAPS
-----------------------------------------------------------------------------
(***************************************************************************)
(* Induction, and the parser's loop as a function.                         *)
(***************************************************************************)
\* Induction from m to n, over the set of the numbers for which a fact holds.
LEMMA UpTo ==
  ASSUME NEW m \in Nat, NEW n \in Nat, NEW S, m \in S,
         \A i \in m..n : i < n /\ i \in S => i + 1 \in S
  PROVE  \A i \in m..n : i \in S
<1> SUFFICES ASSUME NEW k \in m..n, k \notin S PROVE FALSE
  OBVIOUS
<1> DEFINE T == {i \in m..n : i \notin S}
<1>1. T \subseteq Nat /\ T # {}
  OBVIOUS
<1>2. PICK i \in T : \A j \in T : ~(<<j, i>> \in OpToRel(<, Nat))
  BY <1>1, WFMin, NatLessThanWellFounded
<1>3. \A j \in T : j < i => <<j, i>> \in OpToRel(<, Nat)
  BY <1>1 DEF OpToRel
<1>4. \A j \in T : ~(j < i)
  BY <1>2, <1>3, Zenon
<1>5. i \in m..n /\ i \notin S /\ i # m
  OBVIOUS
<1>6. i - 1 \in m..n /\ i - 1 < n /\ i - 1 < i /\ (i - 1) + 1 = i
  BY <1>5
<1>7. i - 1 \in S
  BY <1>4, <1>6
<1> QED BY <1>5, <1>6, <1>7

\* A context as the parser finds it.
Scannable(c) == c.pos \in Nat /\ Len(c.recv) \in Nat /\ c.pos <= Len(c.recv)

\* f is the parser's loop over the buffer up to character n.
IsScan(f, c, n) ==
  f = [i \in c.pos .. n |->
         IF i = c.pos THEN c ELSE ParseChar(f[i - 1], c.recv[i])]

\* The loop is defined on every buffer.
LEMMA ScanExists ==
  ASSUME NEW c, Scannable(c)
  PROVE  \E f : IsScan(f, c, Len(c.recv))
<1> DEFINE S == {n \in Nat : \E f : IsScan(f, c, n)}
<1>1. c.pos \in S
  <2> DEFINE f == [i \in c.pos .. c.pos |-> c]
  <2>1. IsScan(f, c, c.pos)
    BY DEF IsScan, Scannable
  <2> QED BY <2>1 DEF Scannable
<1>2. ASSUME NEW n \in c.pos .. Len(c.recv), n \in S PROVE n + 1 \in S
  <2>1. PICK f : IsScan(f, c, n)
    BY <1>2
  <2> DEFINE g == [i \in c.pos .. n + 1 |->
                     IF i = n + 1 THEN ParseChar(f[n], c.recv[n + 1]) ELSE f[i]]
  <2>2. n \in Nat /\ c.pos \in Nat /\ c.pos <= n
    BY DEF Scannable
  <2>3. \A i \in c.pos .. n : f[i] = IF i = c.pos THEN c ELSE ParseChar(f[i - 1], c.recv[i])
    BY <2>1, <2>2 DEF IsScan
  <2>4. \A i \in c.pos .. n + 1 :
          g[i] = IF i = c.pos THEN c ELSE ParseChar(g[i - 1], c.recv[i])
    <3> TAKE i \in c.pos .. n + 1
    <3>1. CASE i = n + 1
      <4>1. i # c.pos /\ i - 1 = n /\ g[i - 1] = f[n]
        BY <2>2, <3>1
      <4> QED BY <3>1, <4>1
    <3>2. CASE i \in c.pos .. n /\ i # c.pos
      <4>1. i - 1 \in c.pos .. n /\ i # n + 1 /\ i - 1 # n + 1
        BY <2>2, <3>2
      <4> QED BY <2>3, <3>2, <4>1
    <3>3. CASE i = c.pos
      BY <2>2, <2>3, <3>3
    <3> QED BY <2>2, <3>1, <3>2, <3>3
  <2>5. IsScan(g, c, n + 1)
    BY <2>4 DEF IsScan
  <2> QED BY <2>2, <2>5
<1> HIDE DEF S
<1>3. Len(c.recv) \in S
  <2>1. \A n \in c.pos .. Len(c.recv) : n < Len(c.recv) /\ n \in S => n + 1 \in S
    BY <1>2
  <2>2. c.pos \in Nat /\ Len(c.recv) \in Nat
    BY DEF Scannable
  <2>3. \A n \in c.pos .. Len(c.recv) : n \in S
    BY <1>1, <2>1, <2>2, UpTo, Zenon
  <2> QED BY <2>2, <2>3 DEF Scannable
<1> QED BY <1>3 DEF S

\* The loop starts with the context and takes one character at a time.
LEMMA ScanStep ==
  ASSUME NEW c, Scannable(c)
  PROVE  /\ Scan(c)[c.pos] = c
         /\ \A i \in c.pos .. Len(c.recv) : i # c.pos =>
              Scan(c)[i] = ParseChar(Scan(c)[i - 1], c.recv[i])
<1>1. Scan(c) = CHOOSE f : IsScan(f, c, Len(c.recv))
  BY DEF Scan, IsScan
<1>2. IsScan(Scan(c), c, Len(c.recv))
  BY <1>1, ScanExists, Zenon
<1> HIDE DEF Scan
<1>3. \A i \in c.pos .. Len(c.recv) :
        Scan(c)[i] = IF i = c.pos THEN c ELSE ParseChar(Scan(c)[i - 1], c.recv[i])
  BY <1>2 DEF IsScan
<1> QED BY <1>3 DEF Scannable

-----------------------------------------------------------------------------
(***************************************************************************)
(* The parser's loop.                                                      *)
(***************************************************************************)
\* The states in which the loop goes on.
Running == {"start", "H", "HT", "HTT", "HTTP", "first_major_digit", "major_digit",
            "first_minor_digit", "minor_digit", "status", "space_after_status",
            "status_text", "lf", "cr", "almost_done"}

\* The loop goes on in none of its two endings.
LEMMA Endings == "error" \notin Running /\ "done" \notin Running /\ "error" # "done"
BY DEF Running

\* The contexts.
Ctx == [recv : Seq(Chars), pos : Nat, end : Nat,
        state : Running \cup {"error", "done", "receive_body"},
        code : Nat, count : Nat, start : Int, stop : Nat, old : BOOLEAN]

\* What the parser's loop works on is the same in two contexts.
Same(c, d) ==
  /\ c.pos = d.pos /\ c.state = d.state /\ c.code = d.code
  /\ c.count = d.count /\ c.start = d.start /\ c.stop = d.stop

\* The states the loop goes through.
LEMMA NextStateType ==
  ASSUME NEW st \in Running, NEW ch, NEW count
  PROVE  NextState(st, ch, count) \in Running \cup {"error", "done"}
BY DEF NextState, Expect, Running

\* A turn of the loop keeps the buffer, and goes on by one character unless
\* the loop has ended.
LEMMA ParseCharType ==
  ASSUME NEW c \in Ctx, NEW ch, c.state # "receive_body"
  PROVE  /\ ParseChar(c, ch) \in Ctx
         /\ ParseChar(c, ch).state # "receive_body"
         /\ ParseChar(c, ch).recv = c.recv
         /\ ParseChar(c, ch).end = c.end
         /\ ParseChar(c, ch).old = c.old
         /\ c.state \in Running => ParseChar(c, ch).pos = c.pos + 1
         /\ c.state \notin Running => ParseChar(c, ch) = c
<1>1. CASE c.state \in Running
  <2> DEFINE next == NextState(c.state, ch, c.count)
  <2>1. next \in Running \cup {"error", "done"}
    BY <1>1, NextStateType
  <2>2. c.state \notin {"error", "done"}
    BY <1>1 DEF Running
  <2>3. "receive_body" \notin Running \cup {"error", "done"}
    BY DEF Running
  <2> HIDE DEF next
  <2> DEFINE digit == c.state = "status" /\ IsDigit(ch)
             code == IF digit THEN c.code * 10 + Digits[ch] ELSE c.code
             count == IF digit THEN c.count + 1 ELSE c.count
             start == IF digit /\ c.count = 2 THEN (c.pos + 1) - 2 ELSE c.start
             stop == IF next # "done" THEN c.stop
                     ELSE IF c.state = "almost_done" THEN (c.pos + 1) - 1 ELSE c.pos + 1
  <2>4. IsDigit(ch) => Digits[ch] \in Nat
    BY DEF IsDigit, Digits
  <2>5. ParseChar(c, ch) =
          [c EXCEPT !.pos = c.pos + 1, !.state = next, !.code = code,
                    !.count = count, !.start = start, !.stop = stop]
    BY <2>2 DEF ParseChar, next, Ctx
  <2>6. /\ c.pos + 1 \in Nat
        /\ code \in Nat /\ count \in Nat /\ start \in Int /\ stop \in Nat
    BY <2>4, SMTT(30) DEF Ctx
  <2> HIDE DEF code, count, start, stop
  <2>7. ParseChar(c, ch) \in Ctx
    BY <2>1, <2>5, <2>6 DEF Ctx
  <2>8. ParseChar(c, ch).state = next /\ ParseChar(c, ch).pos = c.pos + 1
    BY <2>5 DEF Ctx
  <2>9. /\ ParseChar(c, ch).recv = c.recv /\ ParseChar(c, ch).end = c.end
        /\ ParseChar(c, ch).old = c.old
    BY <2>5 DEF Ctx
  <2> QED BY <1>1, <2>1, <2>3, <2>7, <2>8, <2>9
<1>2. CASE c.state \notin Running
  <2>1. c.state \in {"error", "done"}
    BY <1>2 DEF Ctx
  <2> QED BY <1>2, <2>1 DEF ParseChar
<1> QED BY <1>1, <1>2

\* A turn of the loop does the same in two contexts that differ in the buffer.
LEMMA ParseCharSame ==
  ASSUME NEW c \in Ctx, NEW d \in Ctx, NEW ch, Same(c, d)
  PROVE  Same(ParseChar(c, ch), ParseChar(d, ch))
<1>1. CASE c.state \in {"error", "done"}
  BY <1>1 DEF Same, ParseChar
<1>2. CASE c.state \notin {"error", "done"}
  BY <1>2 DEF Same, ParseChar, Ctx
<1> QED BY <1>1, <1>2

\* A context whose header is still to be read.
Ready(c) == c \in Ctx /\ c.pos <= Len(c.recv) /\ c.state # "receive_body"

\* The parser's loop is defined on such a context.
LEMMA ReadyScannable ==
  ASSUME NEW c, Ready(c)
  PROVE  Scannable(c)
BY DEF Ready, Ctx, Scannable

\* Along the loop the buffer stays, and the position is the number of
\* characters read until the loop ends.
LEMMA ScanType ==
  ASSUME NEW c, Ready(c), NEW i \in c.pos .. Len(c.recv)
  PROVE  /\ Scan(c)[i] \in Ctx
         /\ Scan(c)[i].state # "receive_body"
         /\ Scan(c)[i].recv = c.recv /\ Scan(c)[i].end = c.end
         /\ Scan(c)[i].old = c.old
         /\ Scan(c)[i].pos <= i
         /\ Scan(c)[i].state \in Running => Scan(c)[i].pos = i
<1> DEFINE Typed(d, k) == /\ d \in Ctx /\ d.state # "receive_body"
                          /\ d.recv = c.recv /\ d.end = c.end /\ d.old = c.old
                          /\ d.pos <= k
                          /\ d.state \in Running => d.pos = k
           S == {k \in Nat : Typed(Scan(c)[k], k)}
<1>1. c.pos \in Nat /\ Len(c.recv) \in Nat
  BY DEF Ready, Ctx
<1>2. c.pos \in S
  BY <1>1, ScanStep, ReadyScannable DEF Ready
<1>3. ASSUME NEW k \in c.pos .. Len(c.recv), k < Len(c.recv), k \in S PROVE k + 1 \in S
  <2>1. k \in Nat /\ k + 1 \in c.pos .. Len(c.recv) /\ k + 1 # c.pos /\ (k + 1) - 1 = k
    BY <1>1, <1>3
  <2>2. Scan(c)[k + 1] = ParseChar(Scan(c)[k], c.recv[k + 1])
    BY <2>1, ScanStep, ReadyScannable
  <2>3. PICK d : d = Scan(c)[k]
    OBVIOUS
  <2>4. Typed(d, k)
    BY <1>3, <2>3
  <2>5. PICK e : e = ParseChar(d, c.recv[k + 1])
    OBVIOUS
  <2>6. /\ e \in Ctx /\ e.state # "receive_body"
        /\ e.recv = d.recv /\ e.end = d.end /\ e.old = d.old
        /\ d.state \in Running => e.pos = d.pos + 1
        /\ d.state \notin Running => e = d
    BY <2>4, <2>5, ParseCharType
  <2>7. d.pos \in Nat /\ e.pos \in Nat
    BY <2>4, <2>6 DEF Ctx
  <2>8. e.pos <= k + 1 /\ (e.state \in Running => e.pos = k + 1)
    BY <2>1, <2>4, <2>6, <2>7
  <2>9. Typed(e, k + 1)
    BY <2>4, <2>6, <2>8
  <2> QED BY <2>1, <2>2, <2>3, <2>5, <2>9
<1> HIDE DEF S
<1>4. \A k \in c.pos .. Len(c.recv) : k < Len(c.recv) /\ k \in S => k + 1 \in S
  BY <1>3
<1>5. i \in S
  BY <1>1, <1>2, <1>4, UpTo, Zenon
<1> QED BY <1>5 DEF S

\* When the loop has ended, more characters change nothing.
LEMMA ScanEnds ==
  ASSUME NEW c, Ready(c), NEW i \in c.pos .. Len(c.recv),
         Scan(c)[i].state \notin Running, NEW j \in i .. Len(c.recv)
  PROVE  Scan(c)[j] = Scan(c)[i]
<1> DEFINE S == {k \in Nat : Scan(c)[k] = Scan(c)[i]}
<1>1. c.pos \in Nat /\ Len(c.recv) \in Nat /\ i \in Nat
  BY DEF Ready, Ctx
<1>2. i \in S
  BY <1>1
<1>3. ASSUME NEW k \in i .. Len(c.recv), k < Len(c.recv), k \in S PROVE k + 1 \in S
  <2>1. /\ k \in Nat /\ k + 1 \in c.pos .. Len(c.recv) /\ k + 1 # c.pos /\ (k + 1) - 1 = k
    BY <1>1, <1>3
  <2>2. Scan(c)[k + 1] = ParseChar(Scan(c)[i], c.recv[k + 1])
    BY <1>3, <2>1, ScanStep, ReadyScannable
  <2>3. ParseChar(Scan(c)[i], c.recv[k + 1]) = Scan(c)[i]
    BY ScanType, ParseCharType
  <2> QED BY <2>1, <2>2, <2>3
<1> HIDE DEF S
<1>4. \A k \in i .. Len(c.recv) : k < Len(c.recv) /\ k \in S => k + 1 \in S
  BY <1>3
<1>5. j \in S
  BY <1>1, <1>2, <1>4, UpTo, Zenon
<1> QED BY <1>5 DEF S

\* The loop goes on where it stopped: from a context in which an earlier call
\* has left it, it comes to what one call makes of the text from its start.
LEMMA ScanResumes ==
  ASSUME NEW c, NEW d, Ready(c), Ready(d),
         c.pos \in d.pos .. Len(d.recv), Same(c, Scan(d)[c.pos]),
         Len(c.recv) <= Len(d.recv),
         \A k \in 1 .. Len(c.recv) : c.recv[k] = d.recv[k],
         NEW i \in c.pos .. Len(c.recv)
  PROVE  Same(Scan(c)[i], Scan(d)[i])
<1> DEFINE S == {k \in Nat : Same(Scan(c)[k], Scan(d)[k])}
<1>1. c.pos \in Nat /\ Len(c.recv) \in Nat /\ d.pos \in Nat /\ Len(d.recv) \in Nat
  BY DEF Ready, Ctx
<1>2. c.pos \in S
  BY <1>1, ScanStep, ReadyScannable
<1>3. ASSUME NEW k \in c.pos .. Len(c.recv), k < Len(c.recv), k \in S PROVE k + 1 \in S
  <2>1. /\ k \in Nat /\ k + 1 \in c.pos .. Len(c.recv) /\ k + 1 # c.pos /\ (k + 1) - 1 = k
        /\ k + 1 \in d.pos .. Len(d.recv) /\ k + 1 # d.pos /\ k \in d.pos .. Len(d.recv)
        /\ k + 1 \in 1 .. Len(c.recv)
    BY <1>1, <1>3, SMTT(30)
  <2>2. Scan(c)[k + 1] = ParseChar(Scan(c)[k], c.recv[k + 1])
    BY <2>1, ScanStep, ReadyScannable
  <2>3. Scan(d)[k + 1] = ParseChar(Scan(d)[k], c.recv[k + 1])
    BY <2>1, ScanStep, ReadyScannable
  <2>4. Scan(c)[k] \in Ctx /\ Scan(d)[k] \in Ctx
    BY <2>1, ScanType
  <2>5. Same(ParseChar(Scan(c)[k], c.recv[k + 1]), ParseChar(Scan(d)[k], c.recv[k + 1]))
    BY <1>3, <2>4, ParseCharSame
  <2> QED BY <2>1, <2>2, <2>3, <2>5
<1> HIDE DEF S
<1>4. \A k \in c.pos .. Len(c.recv) : k < Len(c.recv) /\ k \in S => k + 1 \in S
  BY <1>3
<1>5. i \in S
  BY <1>1, <1>2, <1>4, UpTo, Zenon
<1> QED BY <1>5 DEF S

-----------------------------------------------------------------------------
(***************************************************************************)
(* The answers.                                                            *)
(***************************************************************************)
\* What the parser's loop makes of a text that has come at once.
Whole(text) == [NewCtx EXCEPT !.recv = text]

\* How long the header of a response is.
HeaderLen(length) == IF length = "none" THEN 18 ELSE 21

\* What AnswersAssumption says of the responses.
IsResponse(code, length, body) ==
  /\ code \in [1..3 -> DOMAIN Digits]
  /\ length \in DOMAIN Lengths \cup {"none"}
  /\ body \in Seq(Chars)

\* The length and the characters of two texts put together.
LEMMA Concat ==
  ASSUME NEW s \in Seq(Chars), NEW t \in Seq(Chars)
  PROVE  /\ s \o t \in Seq(Chars)
         /\ Len(s \o t) = Len(s) + Len(t)
         /\ \A i \in 1 .. Len(s) : (s \o t)[i] = s[i]
         /\ \A i \in 1 .. Len(t) : (s \o t)[Len(s) + i] = t[i]
OBVIOUS

\* A status code is a text of three characters.
LEMMA CodeChars ==
  ASSUME NEW code \in [1..3 -> DOMAIN Digits]
  PROVE  code \in Seq(Chars) /\ Len(code) = 3
<1>1. DOMAIN Digits \subseteq Chars
  BY DEF Chars
<1>2. code \in [1..3 -> Chars]
  BY <1>1
<1>3. code \in Seq(Chars)
  BY <1>2, SeqDef
<1>4. DOMAIN code = 1..3
  OBVIOUS
<1> QED BY <1>3, <1>4

\* The characters of a response.
StatusLineChars(t, code) ==
  /\ t[1] = "H" /\ t[2] = "T" /\ t[3] = "T" /\ t[4] = "P" /\ t[5] = "/"
  /\ t[6] = "1" /\ t[7] = "." /\ t[8] = "1" /\ t[9] = "SP"
  /\ t[10] = code[1] /\ t[11] = code[2] /\ t[12] = code[3]
  /\ t[13] = "SP" /\ t[14] = "m" /\ t[15] = "CR" /\ t[16] = "LF"

HeaderChars(t, length) ==
  /\ length = "none" => t[17] = "CR" /\ t[18] = "LF"
  /\ length # "none" => /\ t[17] = length /\ t[18] = "CR" /\ t[19] = "LF"
                        /\ t[20] = "CR" /\ t[21] = "LF"

\* Where the characters of a response are.
LEMMA TextChars ==
  ASSUME NEW code, NEW length, NEW body, IsResponse(code, length, body),
         NEW t, t = Text(code, length, body)
  PROVE  /\ t \in Seq(Chars)
         /\ Len(t) = HeaderLen(length) + Len(body)
         /\ StatusLineChars(t, code)
         /\ HeaderChars(t, length)
         /\ \A i \in 1 .. Len(body) : t[HeaderLen(length) + i] = body[i]
<1>1. code \in Seq(Chars) /\ Len(code) = 3 /\ body \in Seq(Chars) /\ Len(body) \in Nat
  BY CodeChars DEF IsResponse
<1> DEFINE a == <<"H", "T", "T", "P", "/", "1", ".", "1", "SP">>
           b == <<"SP", "m", "CR", "LF">>
           l == IF length = "none" THEN <<>> ELSE <<length, "CR", "LF">>
           e == <<"CR", "LF">>
           u == a \o code
           v == u \o b
           w == v \o l
           x == w \o e
<1>0. /\ "H" \in Chars /\ "T" \in Chars /\ "P" \in Chars /\ "/" \in Chars /\ "1" \in Chars
      /\ "." \in Chars /\ "SP" \in Chars /\ "m" \in Chars /\ "CR" \in Chars /\ "LF" \in Chars
  BY DEF Chars, Digits
<1>2. /\ a \in Seq(Chars) /\ Len(a) = 9
      /\ a[1] = "H" /\ a[2] = "T" /\ a[3] = "T" /\ a[4] = "P" /\ a[5] = "/"
      /\ a[6] = "1" /\ a[7] = "." /\ a[8] = "1" /\ a[9] = "SP"
  BY <1>0
<1>3. /\ b \in Seq(Chars) /\ Len(b) = 4
      /\ b[1] = "SP" /\ b[2] = "m" /\ b[3] = "CR" /\ b[4] = "LF"
  BY <1>0
<1>4. e \in Seq(Chars) /\ Len(e) = 2 /\ e[1] = "CR" /\ e[2] = "LF"
  BY <1>0
<1>5. length # "none" => length \in Chars
  BY DEF IsResponse, Chars
<1>6. /\ l \in Seq(Chars)
      /\ length = "none" => Len(l) = 0 /\ HeaderLen(length) = 18
      /\ length # "none" => Len(l) = 3 /\ HeaderLen(length) = 21
  BY <1>0, <1>5 DEF HeaderLen
<1>21. length # "none" => l[1] = length /\ l[2] = "CR" /\ l[3] = "LF"
  OBVIOUS
<1>7. t = x \o body
  BY Zenon DEF Text
<1> HIDE DEF a, b, l, e
<1>8. /\ u \in Seq(Chars) /\ Len(u) = 12
      /\ \A i \in 1..9 : u[i] = a[i]
      /\ \A i \in 1..3 : u[9 + i] = code[i]
  <2>1. /\ u \in Seq(Chars) /\ Len(u) = Len(a) + Len(code)
        /\ \A i \in 1..Len(a) : u[i] = a[i]
        /\ \A i \in 1..Len(code) : u[Len(a) + i] = code[i]
    BY <1>1, <1>2, Concat, Zenon
  <2> HIDE DEF u
  <2> QED BY <1>1, <1>2, <2>1
<1> HIDE DEF u
<1>9. /\ v \in Seq(Chars) /\ Len(v) = 16
      /\ \A i \in 1..12 : v[i] = u[i]
      /\ \A i \in 1..4 : v[12 + i] = b[i]
  <2>1. /\ v \in Seq(Chars) /\ Len(v) = Len(u) + Len(b)
        /\ \A i \in 1..Len(u) : v[i] = u[i]
        /\ \A i \in 1..Len(b) : v[Len(u) + i] = b[i]
    BY <1>3, <1>8, Concat, Zenon
  <2> HIDE DEF v
  <2> QED BY <1>3, <1>8, <2>1
<1> HIDE DEF v
<1>10. /\ w \in Seq(Chars) /\ Len(w) = 16 + Len(l)
       /\ \A i \in 1..16 : w[i] = v[i]
       /\ \A i \in 1..Len(l) : w[16 + i] = l[i]
  <2>1. /\ w \in Seq(Chars) /\ Len(w) = Len(v) + Len(l)
        /\ \A i \in 1..Len(v) : w[i] = v[i]
        /\ \A i \in 1..Len(l) : w[Len(v) + i] = l[i]
    BY <1>6, <1>9, Concat, ZenonT(30)
  <2> HIDE DEF w
  <2> QED BY <1>6, <1>9, <2>1
<1> HIDE DEF w
<1>11. Len(l) \in Nat /\ Len(w) \in Nat /\ HeaderLen(length) = 18 + Len(l)
  <2>1. Len(l) \in Nat /\ Len(w) \in Nat
    BY <1>6, <1>10
  <2>2. 18 + 0 = 18 /\ 18 + 3 = 21
    OBVIOUS
  <2>3. HeaderLen(length) = 18 + Len(l)
    BY <1>6, <2>2, Zenon
  <2> QED BY <2>1, <2>3
<1>12. /\ x \in Seq(Chars) /\ Len(x) = HeaderLen(length)
       /\ \A i \in 1..(16 + Len(l)) : x[i] = w[i]
       /\ \A i \in 1..2 : x[16 + Len(l) + i] = e[i]
  <2>1. /\ x \in Seq(Chars) /\ Len(x) = Len(w) + Len(e)
        /\ \A i \in 1..Len(w) : x[i] = w[i]
        /\ \A i \in 1..Len(e) : x[Len(w) + i] = e[i]
    BY <1>4, <1>10, Concat, Zenon
  <2> HIDE DEF x
  <2>2. Len(x) = HeaderLen(length)
    BY <1>4, <1>10, <1>11, <2>1
  <2> QED BY <1>4, <1>10, <1>11, <2>1, <2>2
<1> HIDE DEF x
<1>13. /\ t \in Seq(Chars) /\ Len(t) = HeaderLen(length) + Len(body)
       /\ \A i \in 1..HeaderLen(length) : t[i] = x[i]
       /\ \A i \in 1..Len(body) : t[HeaderLen(length) + i] = body[i]
  <2>1. /\ x \o body \in Seq(Chars) /\ Len(x \o body) = Len(x) + Len(body)
        /\ \A i \in 1..Len(x) : (x \o body)[i] = x[i]
        /\ \A i \in 1..Len(body) : (x \o body)[Len(x) + i] = body[i]
    BY <1>1, <1>12, Concat, Zenon
  <2> QED BY <1>7, <1>12, <2>1, Zenon
<1>14. \A i \in 1..16 : t[i] = v[i]
  <2> TAKE i \in 1..16
  <2>1. i \in 1..(16 + Len(l)) /\ i \in 1..HeaderLen(length)
    BY <1>11
  <2> QED BY <1>10, <1>12, <1>13, <2>1
<1>15. \A i \in 1..9 : t[i] = a[i]
  BY <1>8, <1>9, <1>14, SMTT(30)
<1>16. t[10] = code[1] /\ t[11] = code[2] /\ t[12] = code[3]
  BY <1>8, <1>9, <1>14
<1>17. t[13] = b[1] /\ t[14] = b[2] /\ t[15] = b[3] /\ t[16] = b[4]
  BY <1>9, <1>14
<1>18. length = "none" => t[17] = e[1] /\ t[18] = e[2]
  <2> SUFFICES ASSUME length = "none" PROVE t[17] = e[1] /\ t[18] = e[2]
    OBVIOUS
  <2>1. Len(l) = 0 /\ HeaderLen(length) = 18
    BY <1>6, <1>11
  <2> QED BY <1>12, <1>13, <2>1, SMTT(30)
<1>19. length # "none" => /\ t[17] = l[1] /\ t[18] = l[2] /\ t[19] = l[3]
                          /\ t[20] = e[1] /\ t[21] = e[2]
  <2> SUFFICES ASSUME length # "none"
               PROVE  /\ t[17] = l[1] /\ t[18] = l[2] /\ t[19] = l[3]
                      /\ t[20] = e[1] /\ t[21] = e[2]
    OBVIOUS
  <2>1. Len(l) = 3 /\ HeaderLen(length) = 21
    BY <1>6, <1>11
  <2>2. t[17] = w[17] /\ t[18] = w[18] /\ t[19] = w[19]
    <3>1. \A i \in 17..19 : i \in 1..HeaderLen(length) /\ i \in 1..(16 + Len(l))
      BY <2>1
    <3>2. \A i \in 17..19 : t[i] = w[i]
      BY <1>12, <1>13, <3>1
    <3> QED BY <3>2
  <2>3. w[17] = l[1] /\ w[18] = l[2] /\ w[19] = l[3]
    BY <1>10, <2>1
  <2>4. t[20] = e[1] /\ t[21] = e[2]
    <3>1. \A i \in 20..21 : i \in 1..HeaderLen(length)
      BY <2>1
    <3>2. t[20] = x[20] /\ t[21] = x[21]
      BY <1>13, <3>1
    <3>3. x[20] = e[1] /\ x[21] = e[2]
      BY <1>12, <2>1
    <3> QED BY <3>2, <3>3
  <2> QED BY <2>2, <2>3, <2>4
<1>20. /\ t[1] = "H" /\ t[2] = "T" /\ t[3] = "T" /\ t[4] = "P" /\ t[5] = "/"
       /\ t[6] = "1" /\ t[7] = "." /\ t[8] = "1" /\ t[9] = "SP"
  BY <1>2, <1>15
<1>22. StatusLineChars(t, code)
  BY <1>3, <1>16, <1>17, <1>20 DEF StatusLineChars
<1>23. HeaderChars(t, length)
  BY <1>4, <1>18, <1>19, <1>21 DEF HeaderChars
<1> QED BY <1>13, <1>22, <1>23

\* The loop is done with i characters, not yet with the header.
Reached(c, i, st, code, count, start) ==
  /\ c \in Ctx /\ c.pos = i /\ c.state = st /\ c.code = code
  /\ c.count = count /\ c.start = start

\* A turn outside the status code.
LEMMA Turn ==
  ASSUME NEW c, NEW i \in Nat, NEW st \in Running, st # "status", NEW ch,
         NEW code, NEW count, NEW start, Reached(c, i, st, code, count, start),
         NEW next, NextState(st, ch, count) = next
  PROVE  Reached(ParseChar(c, ch), i + 1, next, code, count, start)
<1>1. st \notin {"error", "done", "receive_body"}
  BY DEF Running
<1>2. c \in Ctx /\ ParseChar(c, ch) \in Ctx
  BY <1>1, ParseCharType DEF Reached
<1> QED BY <1>1, <1>2 DEF ParseChar, Reached, Ctx

\* A turn on a digit of the status code.
LEMMA DigitTurn ==
  ASSUME NEW c, NEW i \in Nat, NEW ch \in DOMAIN Digits, NEW code \in Nat,
         NEW count \in Nat, NEW start, Reached(c, i, "status", code, count, start)
  PROVE  Reached(ParseChar(c, ch), i + 1,
                 IF count = 2 THEN "space_after_status" ELSE "status",
                 code * 10 + Digits[ch], count + 1, IF count = 2 THEN i - 1 ELSE start)
<1>1. ch # "SP"
  BY DEF Digits
<1>2. NextState("status", ch, count) = IF count = 2 THEN "space_after_status" ELSE "status"
  BY <1>1 DEF NextState, Expect
<1>3. (i + 1) - 2 = i - 1
  OBVIOUS
<1>4. c \in Ctx /\ ParseChar(c, ch) \in Ctx
  BY ParseCharType DEF Reached
<1> QED BY <1>2, <1>3, <1>4 DEF ParseChar, Reached, Ctx, IsDigit

\* The last turn, on the LF of the empty line.
LEMMA LastTurn ==
  ASSUME NEW c, NEW i \in Nat, NEW code, NEW count, NEW start,
         Reached(c, i, "almost_done", code, count, start)
  PROVE  /\ Reached(ParseChar(c, "LF"), i + 1, "done", code, count, start)
         /\ ParseChar(c, "LF").stop = i
<1>1. NextState("almost_done", "LF", count) = "done"
  BY DEF NextState, Expect
<1>2. (i + 1) - 1 = i
  OBVIOUS
<1>3. Reached(ParseChar(c, "LF"), i + 1, "done", code, count, start)
  BY <1>1, Turn DEF Running
<1> QED BY <1>1, <1>2, <1>3 DEF ParseChar, Reached, Ctx

\* The loop over a text that has come at once.
LEMMA WholeScan ==
  ASSUME NEW t \in Seq(Chars)
  PROVE  /\ Ready(Whole(t)) /\ Whole(t).pos = 0 /\ Whole(t).recv = t
         /\ Reached(Scan(Whole(t))[0], 0, "start", 0, 0, 0)
         /\ \A i \in 1..Len(t) :
              Scan(Whole(t))[i] = ParseChar(Scan(Whole(t))[i - 1], t[i])
<1>1. NewCtx \in Ctx
  BY ParseAssumption DEF NewCtx, Ctx, Running
<1>2. /\ NewCtx.pos = 0 /\ NewCtx.state = "start" /\ NewCtx.code = 0
      /\ NewCtx.count = 0 /\ NewCtx.start = 0
  BY DEF NewCtx
<1>3. /\ Whole(t) \in Ctx /\ Whole(t).pos = 0 /\ Whole(t).recv = t
      /\ Reached(Whole(t), 0, "start", 0, 0, 0)
  BY <1>1, <1>2 DEF Whole, Ctx, Reached
<1>4. Ready(Whole(t)) /\ Scannable(Whole(t))
  <2>1. "start" # "receive_body"
    OBVIOUS
  <2> QED BY <1>3, <2>1, ReadyScannable DEF Ready, Reached
<1>5. \A i \in 0..Len(t) : i # 0 => Scan(Whole(t))[i] = ParseChar(Scan(Whole(t))[i - 1], t[i])
  BY <1>3, <1>4, ScanStep
<1>6. Scan(Whole(t))[0] = Whole(t)
  BY <1>3, <1>4, ScanStep
<1> QED BY <1>3, <1>4, <1>5, <1>6

\* The value of the three digits.
CodeOf(code) == (Digits[code[1]] * 10 + Digits[code[2]]) * 10 + Digits[code[3]]

\* The loop over a response, up to the end of its status line.
LEMMA StatusLineScan ==
  ASSUME NEW code, NEW length, NEW body, IsResponse(code, length, body),
         NEW t, t = Text(code, length, body)
  PROVE  /\ \A i \in 0..16 : Scan(Whole(t))[i].state \in Running
         /\ Reached(Scan(Whole(t))[16], 16, "cr", CodeOf(code), 3, 10)
<1> DEFINE S == Scan(Whole(t))
<1>1. /\ t \in Seq(Chars) /\ Len(t) \in Nat /\ Len(t) >= 18
      /\ \A i \in 1..3 : code[i] \in DOMAIN Digits
  <2>1. t \in Seq(Chars) /\ Len(t) = HeaderLen(length) + Len(body)
    BY TextChars
  <2>2. Len(body) \in Nat /\ \A i \in 1..3 : code[i] \in DOMAIN Digits
    BY DEF IsResponse
  <2> QED BY <2>1, <2>2 DEF HeaderLen
<1>2. /\ t[1] = "H" /\ t[2] = "T" /\ t[3] = "T" /\ t[4] = "P" /\ t[5] = "/"
      /\ t[6] = "1" /\ t[7] = "." /\ t[8] = "1" /\ t[9] = "SP"
      /\ t[10] = code[1] /\ t[11] = code[2] /\ t[12] = code[3]
      /\ t[13] = "SP" /\ t[14] = "m" /\ t[15] = "CR" /\ t[16] = "LF"
  <2>1. StatusLineChars(t, code)
    BY TextChars
  <2> QED BY <2>1 DEF StatusLineChars
<1>3. /\ Reached(S[0], 0, "start", 0, 0, 0)
      /\ \A i \in 0..15 : S[i + 1] = ParseChar(S[i], t[i + 1])
  <2>1. Reached(S[0], 0, "start", 0, 0, 0)
    BY <1>1, WholeScan
  <2>2. \A i \in 1..Len(t) : S[i] = ParseChar(S[i - 1], t[i])
    BY <1>1, WholeScan
  <2>3. \A i \in 0..15 : i + 1 \in 1..Len(t) /\ (i + 1) - 1 = i
    BY <1>1
  <2> HIDE DEF S
  <2> QED BY <2>1, <2>2, <2>3
<1>4. \A i \in 1..3 : Digits[code[i]] \in Nat
  BY <1>1 DEF Digits
<1>5. /\ "0" \in DOMAIN Digits /\ "1" \in DOMAIN Digits \ {"0"} /\ "." \notin DOMAIN Digits
  BY DEF Digits
<1> HIDE DEF S
<1>6. Reached(S[1], 1, "H", 0, 0, 0)
  <2>1. NextState("start", "H", 0) = "H"
    BY <1>5 DEF NextState, Expect
  <2>2. S[1] = ParseChar(S[0], "H")
    BY <1>2, <1>3
  <2> QED BY <1>3, <2>1, <2>2, Turn, SMTT(30) DEF Running
<1>7. Reached(S[2], 2, "HT", 0, 0, 0)
  <2>1. NextState("H", "T", 0) = "HT"
    BY <1>5 DEF NextState, Expect
  <2>2. S[2] = ParseChar(S[1], "T")
    BY <1>2, <1>3
  <2> QED BY <1>6, <2>1, <2>2, Turn DEF Running
<1>8. Reached(S[3], 3, "HTT", 0, 0, 0)
  <2>1. NextState("HT", "T", 0) = "HTT"
    BY <1>5 DEF NextState, Expect
  <2>2. S[3] = ParseChar(S[2], "T")
    BY <1>2, <1>3
  <2> QED BY <1>7, <2>1, <2>2, Turn DEF Running
<1>9. Reached(S[4], 4, "HTTP", 0, 0, 0)
  <2>1. NextState("HTT", "P", 0) = "HTTP"
    BY <1>5 DEF NextState, Expect
  <2>2. S[4] = ParseChar(S[3], "P")
    BY <1>2, <1>3
  <2> QED BY <1>8, <2>1, <2>2, Turn DEF Running
<1>10. Reached(S[5], 5, "first_major_digit", 0, 0, 0)
  <2>1. NextState("HTTP", "/", 0) = "first_major_digit"
    BY <1>5 DEF NextState, Expect
  <2>2. S[5] = ParseChar(S[4], "/")
    BY <1>2, <1>3
  <2> QED BY <1>9, <2>1, <2>2, Turn DEF Running
<1>11. Reached(S[6], 6, "major_digit", 0, 0, 0)
  <2>1. NextState("first_major_digit", "1", 0) = "major_digit"
    BY <1>5 DEF NextState, Expect
  <2>2. S[6] = ParseChar(S[5], "1")
    BY <1>2, <1>3
  <2> QED BY <1>10, <2>1, <2>2, Turn DEF Running
<1>12. Reached(S[7], 7, "first_minor_digit", 0, 0, 0)
  <2>1. NextState("major_digit", ".", 0) = "first_minor_digit"
    BY <1>5 DEF NextState, Expect
  <2>2. S[7] = ParseChar(S[6], ".")
    BY <1>2, <1>3
  <2> QED BY <1>11, <2>1, <2>2, Turn DEF Running
<1>13. Reached(S[8], 8, "minor_digit", 0, 0, 0)
  <2>1. NextState("first_minor_digit", "1", 0) = "minor_digit"
    BY <1>5 DEF NextState, Expect
  <2>2. S[8] = ParseChar(S[7], "1")
    BY <1>2, <1>3
  <2> QED BY <1>12, <2>1, <2>2, Turn DEF Running
<1>14. Reached(S[9], 9, "status", 0, 0, 0)
  <2>1. NextState("minor_digit", "SP", 0) = "status"
    BY <1>5 DEF NextState, Expect
  <2>2. S[9] = ParseChar(S[8], "SP")
    BY <1>2, <1>3
  <2> QED BY <1>13, <2>1, <2>2, Turn DEF Running
<1>15. Reached(S[10], 10, "status", Digits[code[1]], 1, 0)
  <2>1. S[10] = ParseChar(S[9], code[1])
    BY <1>2, <1>3
  <2>2. 0 \in Nat
    BY <1>4
  <2>3. Reached(S[10], 9 + 1, IF 0 = 2 THEN "space_after_status" ELSE "status",
                (0) * 10 + Digits[code[1]], 0 + 1,
                IF 0 = 2 THEN 9 - 1 ELSE 0)
    BY <1>1, <1>14, <2>1, <2>2, DigitTurn
  <2> QED BY <1>4, <2>3
<1>16. Reached(S[11], 11, "status", Digits[code[1]] * 10 + Digits[code[2]], 2, 0)
  <2>1. S[11] = ParseChar(S[10], code[2])
    BY <1>2, <1>3
  <2>2. Digits[code[1]] \in Nat
    BY <1>4
  <2>3. Reached(S[11], 10 + 1, IF 1 = 2 THEN "space_after_status" ELSE "status",
                (Digits[code[1]]) * 10 + Digits[code[2]], 1 + 1,
                IF 1 = 2 THEN 10 - 1 ELSE 0)
    BY <1>1, <1>15, <2>1, <2>2, DigitTurn
  <2> QED BY <1>4, <2>3
<1>17. Reached(S[12], 12, "space_after_status", CodeOf(code), 3, 10)
  <2>1. S[12] = ParseChar(S[11], code[3])
    BY <1>2, <1>3
  <2>2. Digits[code[1]] * 10 + Digits[code[2]] \in Nat
    BY <1>4
  <2>3. Reached(S[12], 11 + 1, IF 2 = 2 THEN "space_after_status" ELSE "status",
                (Digits[code[1]] * 10 + Digits[code[2]]) * 10 + Digits[code[3]], 2 + 1,
                IF 2 = 2 THEN 11 - 1 ELSE 0)
    BY <1>1, <1>16, <2>1, <2>2, DigitTurn
  <2> QED BY <1>4, <2>3 DEF CodeOf
<1>18. Reached(S[13], 13, "status_text", CodeOf(code), 3, 10)
  <2>1. NextState("space_after_status", "SP", 3) = "status_text"
    BY DEF NextState, Expect
  <2>2. S[13] = ParseChar(S[12], "SP")
    BY <1>2, <1>3
  <2> QED BY <1>17, <2>1, <2>2, Turn DEF Running
<1>19. Reached(S[14], 14, "status_text", CodeOf(code), 3, 10)
  <2>1. NextState("status_text", "m", 3) = "status_text"
    BY DEF NextState, Expect
  <2>2. S[14] = ParseChar(S[13], "m")
    BY <1>2, <1>3
  <2> QED BY <1>18, <2>1, <2>2, Turn DEF Running
<1>20. Reached(S[15], 15, "lf", CodeOf(code), 3, 10)
  <2>1. NextState("status_text", "CR", 3) = "lf"
    BY DEF NextState, Expect
  <2>2. S[15] = ParseChar(S[14], "CR")
    BY <1>2, <1>3
  <2> QED BY <1>19, <2>1, <2>2, Turn DEF Running
<1>21. Reached(S[16], 16, "cr", CodeOf(code), 3, 10)
  <2>1. NextState("lf", "LF", 3) = "cr"
    BY DEF NextState, Expect
  <2>2. S[16] = ParseChar(S[15], "LF")
    BY <1>2, <1>3
  <2> QED BY <1>20, <2>1, <2>2, Turn DEF Running
<1>22. \A i \in 0..16 : S[i].state \in Running
  <2>1. /\ S[0].state \in Running /\ S[1].state \in Running /\ S[2].state \in Running
        /\ S[3].state \in Running /\ S[4].state \in Running /\ S[5].state \in Running
    BY <1>3, <1>6, <1>7, <1>8, <1>9, <1>10 DEF Reached, Running
  <2>2. /\ S[6].state \in Running /\ S[7].state \in Running /\ S[8].state \in Running
        /\ S[9].state \in Running /\ S[10].state \in Running /\ S[11].state \in Running
    BY <1>11, <1>12, <1>13, <1>14, <1>15, <1>16 DEF Reached, Running
  <2>3. /\ S[12].state \in Running /\ S[13].state \in Running /\ S[14].state \in Running
        /\ S[15].state \in Running /\ S[16].state \in Running
    BY <1>17, <1>18, <1>19, <1>20, <1>21 DEF Reached, Running
  <2> QED BY ONLY <2>1, <2>2, <2>3, SMTT(30)
<1> QED BY <1>21, <1>22 DEF S


\* The loop over a response ends with its header.
LEMMA HeaderScan ==
  ASSUME NEW code, NEW length, NEW body, IsResponse(code, length, body),
         NEW t, t = Text(code, length, body)
  PROVE  /\ \A i \in 0..(HeaderLen(length) - 1) : Scan(Whole(t))[i].state \in Running
         /\ Reached(Scan(Whole(t))[HeaderLen(length)], HeaderLen(length), "done",
                    CodeOf(code), 3, 10)
         /\ Scan(Whole(t))[HeaderLen(length)].stop = HeaderLen(length) - 1
<1> DEFINE S == Scan(Whole(t))
           At(i, st) == Reached(S[i], i, st, CodeOf(code), 3, 10)
<1>1. t \in Seq(Chars) /\ Len(t) = HeaderLen(length) + Len(body) /\ HeaderChars(t, length)
  BY TextChars
<1>2. Len(body) \in Nat
  BY DEF IsResponse
<1>3. /\ \A i \in 0..16 : S[i].state \in Running
      /\ At(16, "cr")
  BY StatusLineScan
<1>4. \A i \in 1..Len(t) : S[i] = ParseChar(S[i - 1], t[i])
  BY <1>1, WholeScan
<1> HIDE DEF S
<1>5. CASE length = "none"
  <2>1. HeaderLen(length) = 18 /\ 18 - 1 = 17 /\ t[17] = "CR" /\ t[18] = "LF"
    BY <1>1, <1>5 DEF HeaderLen, HeaderChars
  <2>2. S[17] = ParseChar(S[16], t[17]) /\ S[18] = ParseChar(S[17], t[18])
    BY <1>1, <1>2, <1>4, <2>1
  <2>3. At(17, "almost_done")
    <3>1. NextState("cr", "CR", 3) = "almost_done"
      BY DEF NextState, Expect
    <3>2. S[17] = ParseChar(S[16], "CR")
      BY <2>1, <2>2
    <3> QED BY <1>3, <3>1, <3>2, Turn DEF Running
  <2>4. At(18, "done") /\ S[18].stop = 17
    <3>1. S[18] = ParseChar(S[17], "LF")
      BY <2>1, <2>2
    <3> QED BY <2>3, <3>1, LastTurn
  <2>5. \A i \in 0..17 : S[i].state \in Running
    BY <1>3, <2>3 DEF Reached, Running
  <2> QED BY <2>4, <2>5, <2>1 DEF S
<1>6. CASE length # "none"
  <2>1. /\ HeaderLen(length) = 21 /\ 21 - 1 = 20 /\ length # "CR"
        /\ t[17] = length /\ t[18] = "CR" /\ t[19] = "LF" /\ t[20] = "CR" /\ t[21] = "LF"
    BY <1>1, <1>6 DEF HeaderLen, HeaderChars, IsResponse, Lengths
  <2>2. /\ S[17] = ParseChar(S[16], t[17]) /\ S[18] = ParseChar(S[17], t[18])
        /\ S[19] = ParseChar(S[18], t[19]) /\ S[20] = ParseChar(S[19], t[20])
        /\ S[21] = ParseChar(S[20], t[21])
    BY <1>1, <1>2, <1>4, <2>1
  <2>3. At(17, "status_text")
    <3>1. NextState("cr", length, 3) = "status_text"
      BY <2>1 DEF NextState, Expect
    <3>2. S[17] = ParseChar(S[16], length)
      BY <2>1, <2>2
    <3> QED BY <1>3, <3>1, <3>2, Turn DEF Running
  <2>4. At(18, "lf")
    <3>1. NextState("status_text", "CR", 3) = "lf"
      BY DEF NextState, Expect
    <3>2. S[18] = ParseChar(S[17], "CR")
      BY <2>1, <2>2
    <3> QED BY <2>3, <3>1, <3>2, Turn DEF Running
  <2>5. At(19, "cr")
    <3>1. NextState("lf", "LF", 3) = "cr"
      BY DEF NextState, Expect
    <3>2. S[19] = ParseChar(S[18], "LF")
      BY <2>1, <2>2
    <3> QED BY <2>4, <3>1, <3>2, Turn DEF Running
  <2>6. At(20, "almost_done")
    <3>1. NextState("cr", "CR", 3) = "almost_done"
      BY DEF NextState, Expect
    <3>2. S[20] = ParseChar(S[19], "CR")
      BY <2>1, <2>2
    <3> QED BY <2>5, <3>1, <3>2, Turn DEF Running
  <2>7. At(21, "done") /\ S[21].stop = 20
    <3>1. S[21] = ParseChar(S[20], "LF")
      BY <2>1, <2>2
    <3> QED BY <2>6, <3>1, LastTurn
  <2>8. \A i \in 0..20 : S[i].state \in Running
    <3>1. /\ S[17].state \in Running /\ S[18].state \in Running
          /\ S[19].state \in Running /\ S[20].state \in Running
      BY <2>3, <2>4, <2>5, <2>6 DEF Reached, Running
    <3> QED BY <1>3, <3>1, SMTT(30)
  <2> QED BY <2>7, <2>8, <2>1 DEF S
<1> QED BY <1>5, <1>6

-----------------------------------------------------------------------------
(***************************************************************************)
(* The context between two calls of the parser.                            *)
(***************************************************************************)
\* A context as reinit leaves it.
Clean(c) ==
  /\ c.recv = <<>> /\ c.pos = 0 /\ c.state = "start" /\ c.code = 0
  /\ c.count = 0 /\ c.start = 0 /\ c.stop = 0 /\ c.old = FALSE

\* A context between two calls.
Between(c) ==
  /\ c \in Ctx /\ c.state \notin {"error", "done"}
  /\ c.pos <= Len(c.recv) /\ Len(c.recv) < c.end /\ BufSize <= c.end

\* Between two calls the parser is within what has come.
LEMMA BetweenCounts ==
  ASSUME NEW c, Between(c)
  PROVE  c.pos \in Nat /\ Len(c.recv) \in Nat /\ c.pos <= Len(c.recv)
BY DEF Between, Ctx

\* The text is what has come and then what is still to come.
Split(got, rest, text) ==
  /\ Len(got) + Len(rest) = Len(text)
  /\ \A i \in 1..Len(got) : got[i] = text[i]
  /\ \A i \in 1..Len(rest) : rest[i] = text[Len(got) + i]

\* The parser is where one call on the first m characters of the text would
\* have left it.
Follows(c, m, text) ==
  LET w == Scan(Whole(text))[m]
  IN \/ c.state \in Running /\ Same(c, w)
     \/ /\ c.state = "receive_body" /\ w.state = "done"
        /\ c.pos = w.pos /\ c.code = w.code /\ c.start = w.start /\ c.stop = w.stop

-----------------------------------------------------------------------------
(***************************************************************************)
(* One call of the parser.                                                 *)
(***************************************************************************)
\* The answers of the peer are responses or other texts.
LEMMA AnswerKinds ==
  ASSUME NEW a \in Answers
  PROVE  \/ \E code, length, body : IsResponse(code, length, body) /\ a = Answer(code, length, body)
         \/ \E text \in OtherTexts : a = Garbled(text)
<1>1. CASE a \in {Answer(r.code, r.length, r.body) : r \in Responses}
  <2>1. PICK r \in Responses : a = Answer(r.code, r.length, r.body)
    BY <1>1
  <2>2. IsResponse(r.code, r.length, r.body)
    BY AnswersAssumption DEF IsResponse
  <2> QED BY <2>1, <2>2
<1>2. CASE a \in {Garbled(text) : text \in OtherTexts}
  BY <1>2
<1> QED BY <1>1, <1>2 DEF Answers

\* What the peer sends is a text.
LEMMA AnswerText ==
  ASSUME NEW a \in Answers \cup {NoAnswer}
  PROVE  a.text \in Seq(Chars) /\ Len(a.text) \in Nat
<1>1. CASE \E code, length, body : IsResponse(code, length, body) /\ a = Answer(code, length, body)
  <2>1. PICK code, length, body : IsResponse(code, length, body) /\ a = Answer(code, length, body)
    BY <1>1
  <2>2. a.text = Text(code, length, body)
    BY <2>1 DEF Answer
  <2> QED BY <2>1, <2>2, TextChars
<1>2. CASE \E text \in OtherTexts : a = Garbled(text)
  <2>1. PICK text \in OtherTexts : a = Garbled(text)
    BY <1>2
  <2>2. a.text = text
    BY <2>1 DEF Garbled
  <2>3. text \in Seq(Chars)
    BY AnswersAssumption
  <2> QED BY <2>2, <2>3
<1>3. CASE a = NoAnswer
  BY <1>3 DEF NoAnswer, Garbled
<1> QED BY <1>1, <1>2, <1>3, AnswerKinds

\* What has come is added to the buffer, and the buffer is large enough; where
\* it was before, nothing else changes.
LEMMA ReceivedType ==
  ASSUME NEW c, Between(c), NEW data \in Seq(Chars), Fits(c, Len(data))
  PROVE  /\ Between(Received(c, data))
         /\ Received(c, data).recv = c.recv \o data
         /\ Len(c.recv) + Len(data) < c.end =>
              Received(c, data) = [c EXCEPT !.recv = c.recv \o data]
<1> DEFINE all == c.recv \o data
           Enough(k) == Len(all) < c.end * k
           k0 == CHOOSE k \in Doublings : Enough(k) /\ \A j \in Doublings : Enough(j) => k <= j
<1>1. /\ all \in Seq(Chars) /\ Len(all) \in Nat /\ Len(all) = Len(c.recv) + Len(data)
      /\ c.end \in Nat /\ c.pos \in Nat /\ c.pos <= Len(all) /\ BufSize <= c.end /\ BufSize \in Nat
  <2>1. c.recv \in Seq(Chars) /\ c.end \in Nat /\ c.pos \in Nat
    BY DEF Between, Ctx
  <2> QED BY <2>1, ParseAssumption DEF Between
<1>2. \E k \in Doublings : Enough(k)
  BY <1>1 DEF Fits
<1>3. \E k \in Doublings : Enough(k) /\ \A j \in Doublings : Enough(j) => k <= j
  BY <1>1, <1>2 DEF Doublings
<1>4. k0 \in Doublings /\ Enough(k0) /\ \A j \in Doublings : Enough(j) => k0 <= j
  BY <1>3
<1>5. k0 \in 1..8
  BY <1>4 DEF Doublings
<1> DEFINE size == c.end * k0
           old == c.old \/ (size # c.end /\ c.count = 3 /\ c.state # "receive_body")
           pos == IF size # c.end THEN 0 ELSE c.pos
<1>6. Received(c, data) = [c EXCEPT !.recv = all, !.end = size, !.pos = pos, !.old = old]
  BY DEF Received, Between, Ctx
<1>7. size \in Nat /\ Len(all) < size /\ BufSize <= size
  <2>1. \A e \in Nat, k \in Doublings : e * k \in Nat /\ e * k >= e
    BY DEF Doublings
  <2>2. size \in Nat /\ size >= c.end
    BY <1>1, <1>4, <2>1
  <2> QED BY <1>1, <1>4, <2>2
<1>8. pos \in Nat /\ pos <= Len(all) /\ old \in BOOLEAN
  BY <1>1 DEF Between, Ctx
<1>9. Between(Received(c, data)) /\ Received(c, data).recv = all
  <2> HIDE DEF all, size, pos, old
  <2>1. Received(c, data) \in Ctx
    BY <1>1, <1>6, <1>7, <1>8 DEF Between, Ctx
  <2> QED BY <1>1, <1>6, <1>7, <1>8, <2>1 DEF Between, Ctx
<1>10. ASSUME Len(c.recv) + Len(data) < c.end
       PROVE  Received(c, data) = [c EXCEPT !.recv = all]
  <2>1. Enough(1) /\ 1 \in Doublings
    BY <1>1, <1>10 DEF Doublings
  <2>2. k0 = 1
    BY <1>4, <1>5, <2>1
  <2>3. size = c.end
    <3>1. \A e \in Nat : e * 1 = e
      OBVIOUS
    <3> QED BY <1>1, <2>2, <3>1, Zenon
  <2>4. pos = c.pos /\ old = c.old
    BY <2>3 DEF Between, Ctx
  <2> HIDE DEF all, size, pos, old
  <2> QED BY <1>6, <2>3, <2>4 DEF Between, Ctx
<1> QED BY <1>9, <1>10

\* The three returns of parse_status_line.
LEMMA ParsedCases ==
  ASSUME NEW c, Between(c), NEW run, run = Scan(c)[Len(c.recv)]
  PROVE  /\ c.state = "receive_body" => ParsedHeader(c) = [rc |-> "ok", ctx |-> c]
         /\ c.state # "receive_body" =>
              /\ run.state = "error" => ParsedHeader(c) = [rc |-> "error", ctx |-> c]
              /\ run.state = "done" =>
                   ParsedHeader(c) = [rc |-> "ok", ctx |-> [run EXCEPT !.state = "receive_body"]]
              /\ run.state \in Running => ParsedHeader(c) = [rc |-> "again", ctx |-> run]
<1>1. ASSUME c.state = "receive_body" PROVE ParsedHeader(c) = [rc |-> "ok", ctx |-> c]
  BY <1>1 DEF ParsedHeader
<1>2. ASSUME c.state # "receive_body", run.state = "error"
      PROVE  ParsedHeader(c) = [rc |-> "error", ctx |-> c]
  BY <1>2 DEF ParsedHeader
<1>3. ASSUME c.state # "receive_body", run.state = "done"
      PROVE  ParsedHeader(c) = [rc |-> "ok", ctx |-> [run EXCEPT !.state = "receive_body"]]
  BY <1>3 DEF ParsedHeader
<1>4. ASSUME c.state # "receive_body", run.state \in Running
      PROVE  ParsedHeader(c) = [rc |-> "again", ctx |-> run]
  <2>1. run.state # "error" /\ run.state # "done"
    BY <1>4 DEF Running
  <2> QED BY <1>4, <2>1 DEF ParsedHeader
<1> QED BY <1>1, <1>2, <1>3, <1>4

\* A call of the parser leaves the buffer and a context for the next call.
LEMMA ParsedType ==
  ASSUME NEW c, Between(c)
  PROVE  /\ Between(ParsedHeader(c).ctx)
         /\ ParsedHeader(c).ctx.recv = c.recv /\ ParsedHeader(c).ctx.end = c.end
         /\ ParsedHeader(c).rc \in {"ok", "error", "again"}
<1>1. CASE c.state = "receive_body"
  BY <1>1, ParsedCases
<1>2. CASE c.state # "receive_body"
  <2> DEFINE run == Scan(c)[Len(c.recv)]
  <2>1. Ready(c) /\ c.pos \in Nat /\ Len(c.recv) \in Nat
    BY <1>2 DEF Between, Ready, Ctx
  <2>2. /\ run \in Ctx /\ run.state # "receive_body" /\ run.recv = c.recv
        /\ run.end = c.end /\ run.pos <= Len(c.recv)
    BY <2>1, ScanType DEF Ready
  <2> HIDE DEF run
  <2>3. run.state \in Running \cup {"error", "done"}
    BY <2>2 DEF Ctx
  <2>4. CASE run.state = "error"
    <3>1. ParsedHeader(c) = [rc |-> "error", ctx |-> c]
      BY <1>2, <2>4, ParsedCases DEF run
    <3> QED BY <3>1
  <2>5. CASE run.state = "done"
    <3>1. ParsedHeader(c) = [rc |-> "ok", ctx |-> [run EXCEPT !.state = "receive_body"]]
      BY <1>2, <2>5, ParsedCases DEF run
    <3>2. PICK new : new = [run EXCEPT !.state = "receive_body"]
      OBVIOUS
    <3>3. new \in Ctx /\ new.state = "receive_body" /\ new.recv = c.recv /\ new.end = c.end
          /\ new.pos <= Len(c.recv)
      BY <2>2, <3>2 DEF Ctx
    <3>4. Between(new)
      BY <3>3 DEF Between
    <3>5. ParsedHeader(c).ctx = new /\ ParsedHeader(c).rc = "ok"
      BY <3>1, <3>2
    <3> QED BY <3>3, <3>4, <3>5
  <2>6. CASE run.state \in Running
    <3>1. ParsedHeader(c) = [rc |-> "again", ctx |-> run]
      BY <1>2, <2>6, ParsedCases DEF run
    <3>2. Between(run)
      BY <2>2, <2>6 DEF Between, Running
    <3> QED BY <2>2, <3>1, <3>2
  <2> QED BY <2>3, <2>4, <2>5, <2>6
<1> QED BY <1>1, <1>2

\* A call on more of the text comes to what one call on all of it would.
LEMMA ParsedFollows ==
  ASSUME NEW text \in Seq(Chars), NEW c, Between(c), NEW m \in 0..Len(c.recv),
         Len(c.recv) <= Len(text), \A i \in 1..Len(c.recv) : c.recv[i] = text[i],
         Follows(c, m, text), NEW w, w = Scan(Whole(text))[Len(c.recv)]
  PROVE  /\ w.state \in Running \cup {"error", "done"}
         /\ w.state = "error" => ParsedHeader(c).rc = "error"
         /\ w.state \in Running => ParsedHeader(c).rc = "again"
         /\ w.state = "done" => ParsedHeader(c).rc = "ok"
         /\ w.state # "error" => Follows(ParsedHeader(c).ctx, Len(c.recv), text)
         /\ ParsedHeader(c).ctx.old = c.old
<1> DEFINE S == Scan(Whole(text))
           n == Len(c.recv)
<1>1. n \in Nat /\ Len(text) \in Nat /\ m \in 0..Len(text) /\ n \in 0..Len(text) /\ n \in m..Len(text)
  BY DEF Between, Ctx
<1>2. Ready(Whole(text)) /\ Whole(text).pos = 0 /\ Whole(text).recv = text
  BY WholeScan
<1>3. /\ S[m] \in Ctx /\ S[n] \in Ctx /\ S[m].state # "receive_body" /\ S[n].state # "receive_body"
      /\ S[m].state \in Running => S[m].pos = m
  BY <1>1, <1>2, ScanType
<1>4. w.state \in Running \cup {"error", "done"}
  BY <1>3 DEF Ctx
<1>5. CASE c.state = "receive_body"
  <2>1. /\ S[m].state = "done" /\ c.pos = S[m].pos /\ c.code = S[m].code
        /\ c.start = S[m].start /\ c.stop = S[m].stop
    BY <1>5 DEF Follows, Running
  <2>2. S[m].state \notin Running
    BY <2>1 DEF Running
  <2>3. S[n] = S[m]
    BY <1>1, <1>2, <2>2, ScanEnds
  <2>4. ParsedHeader(c).rc = "ok" /\ ParsedHeader(c).ctx = c
    BY <1>5, ParsedCases
  <2>5. w.state = "done" /\ "done" \notin Running /\ "done" # "error"
    BY <2>1, <2>3 DEF Running
  <2>6. Follows(c, n, text)
    BY <1>5, <2>1, <2>3 DEF Follows
  <2> QED BY <1>4, <2>4, <2>5, <2>6
<1>6. CASE c.state # "receive_body"
  <2> DEFINE run == Scan(c)[n]
  <2>1. c.state \in Running /\ Same(c, S[m])
    BY <1>6 DEF Follows
  <2>2. c.pos = m /\ Same(c, S[c.pos])
    BY <1>3, <2>1 DEF Same
  <2>3. Ready(c)
    BY <1>6 DEF Ready, Between
  <2>4. Same(run, S[n])
    BY <1>1, <1>2, <2>2, <2>3, ScanResumes, SMTT(30)
  <2>5. run \in Ctx /\ run.old = c.old /\ run.recv = c.recv
    BY <1>1, <2>2, <2>3, ScanType
  <2> HIDE DEF run
  <2>6. run.state = w.state
    BY <2>4 DEF Same
  <2>7. CASE w.state = "error"
    <3>1. ParsedHeader(c) = [rc |-> "error", ctx |-> c]
      BY <1>6, <2>6, <2>7, ParsedCases DEF run
    <3>2. "error" \notin Running /\ "error" # "done"
      BY DEF Running
    <3> QED BY <1>4, <2>7, <3>1, <3>2
  <2>8. CASE w.state \in Running
    <3>1. ParsedHeader(c) = [rc |-> "again", ctx |-> run]
      BY <1>6, <2>6, <2>8, ParsedCases DEF run
    <3>2. "error" \notin Running /\ "done" \notin Running
      BY DEF Running
    <3>3. Follows(run, n, text)
      BY <2>4, <2>6, <2>8 DEF Follows
    <3> QED BY <1>4, <2>5, <2>8, <3>1, <3>2, <3>3
  <2>9. CASE w.state = "done"
    <3>1. ParsedHeader(c) = [rc |-> "ok", ctx |-> [run EXCEPT !.state = "receive_body"]]
      BY <1>6, <2>6, <2>9, ParsedCases DEF run
    <3>2. PICK new : new = [run EXCEPT !.state = "receive_body"]
      OBVIOUS
    <3>3. /\ new.state = "receive_body" /\ new.pos = run.pos /\ new.code = run.code
          /\ new.start = run.start /\ new.stop = run.stop /\ new.old = run.old
      BY <2>5, <3>2 DEF Ctx
    <3>4. Follows(new, n, text)
      BY <2>4, <2>9, <3>3 DEF Follows, Same
    <3>5. ParsedHeader(c).rc = "ok" /\ ParsedHeader(c).ctx = new
      BY <3>1, <3>2
    <3>6. "done" \notin Running /\ "error" # "done"
      BY DEF Running
    <3> QED BY <1>4, <2>5, <2>9, <3>3, <3>4, <3>5, <3>6
  <2> QED BY <1>4, <2>7, <2>8, <2>9
<1> QED BY <1>5, <1>6

\* The returns of http_parse.
LEMMA HttpParseCases ==
  ASSUME NEW c, Between(c), NEW rx, NEW p \in http_parse(c, rx)
  PROVE  \/ Len(c.recv) = c.pos /\ p.rc = "again" /\ p.ctx = c
         \/ /\ Len(c.recv) > c.pos /\ ParsedHeader(c).rc # "ok"
            /\ p.rc = ParsedHeader(c).rc /\ p.ctx = ParsedHeader(c).ctx
         \/ /\ Len(c.recv) > c.pos /\ ParsedHeader(c).rc = "ok"
            /\ p.rc \in Judged(ParsedHeader(c).ctx, rx) /\ p.ctx = ParsedHeader(c).ctx
<1>1. Len(c.recv) \in Nat /\ c.pos \in Nat /\ c.pos <= Len(c.recv)
  BY DEF Between, Ctx
<1>2. CASE Len(c.recv) = c.pos
  <2>1. http_parse(c, rx) = {[rc |-> "again", error |-> FALSE, ctx |-> c]}
    <3>1. ~(Len(c.recv) > c.pos)
      BY <1>1, <1>2
    <3> QED BY <1>2, <3>1, Zenon DEF http_parse
  <2>2. p = [rc |-> "again", error |-> FALSE, ctx |-> c]
    BY <2>1, Zenon
  <2> QED BY <1>2, <2>2
<1>3. CASE Len(c.recv) # c.pos /\ ParsedHeader(c).rc # "ok"
  <2>1. Len(c.recv) > c.pos
    BY <1>1, <1>3
  <2>2. p = [rc |-> ParsedHeader(c).rc, error |-> FALSE, ctx |-> ParsedHeader(c).ctx]
    BY <1>3, <2>1 DEF http_parse
  <2> QED BY <1>3, <2>1, <2>2
<1>4. CASE Len(c.recv) # c.pos /\ ParsedHeader(c).rc = "ok"
  <2>1. Len(c.recv) > c.pos
    BY <1>1, <1>4
  <2>2. \E rc \in Judged(ParsedHeader(c).ctx, rx) :
          p = [rc |-> rc, error |-> MarksConnection(ParsedHeader(c).ctx.code),
               ctx |-> ParsedHeader(c).ctx]
    <3>1. ~(Len(c.recv) = c.pos) /\ ~(Len(c.recv) > c.pos /\ ParsedHeader(c).rc # "ok")
      BY <1>4
    <3>2. http_parse(c, rx) =
            {[rc |-> rc, error |-> MarksConnection(ParsedHeader(c).ctx.code),
              ctx |-> ParsedHeader(c).ctx] : rc \in Judged(ParsedHeader(c).ctx, rx)}
      BY <3>1, Zenon DEF http_parse
    <3> QED BY <3>2
  <2> QED BY <1>4, <2>1, <2>2
<1> QED BY <1>2, <1>3, <1>4

\* What http_parse may say.
LEMMA JudgedType ==
  ASSUME NEW c, NEW rx, NEW rc \in Judged(c, rx)
  PROVE  rc \in {"ok", "error", "again"}
<1>1. \A body, l : BodyVerdicts(body, l) \subseteq {"ok", "error", "again"}
  BY DEF BodyVerdicts
<1> QED BY <1>1 DEF Judged

\* http_parse leaves a context between two calls, with the buffer as it was.
LEMMA HttpParseType ==
  ASSUME NEW c, Between(c), NEW rx, NEW p \in http_parse(c, rx)
  PROVE  /\ Between(p.ctx) /\ p.ctx.recv = c.recv /\ p.ctx.end = c.end
         /\ p.rc \in {"ok", "error", "again"}
BY HttpParseCases, ParsedType, JudgedType
=============================================================================
