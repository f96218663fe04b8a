------------------------- MODULE HttpAnswers_proofs -------------------------
(***************************************************************************)
(* The status of a peer is the documented one, and the verdict on an       *)
(* answer does not depend on the pieces it comes in.                       *)
(***************************************************************************)
EXTENDS HttpParse_proofs
-----------------------------------------------------------------------------
(***************************************************************************)
(* The published status is the documented one, for all rise and fall       *)
(* counts and any sequence of checks, and so here, where the results are   *)
(* those of the http parser.                                               *)
(***************************************************************************)
\* c counts the latest checks of s with the given result, up to StatusCap:
\* the link between a counter in shared memory and the history.
Counts(c, s, result) ==
  /\ c \in 0..StatusCap
  /\ c <= Len(s)
  /\ \A j \in (Len(s) - c + 1)..Len(s) : s[j] = result
  /\ c < StatusCap /\ c < Len(s) => s[Len(s) - c] # result

\* The inductive invariant: the flag alone says nothing of the next change,
\* the counters have to be right as well.
HistoryInv ==
  /\ results \in Seq(BOOLEAN)
  /\ down \in BOOLEAN
  /\ Counts(rise_count, results, TRUE)
  /\ Counts(fall_count, results, FALSE)
  /\ DownIsDeclared

\* The cap is above both thresholds.
LEMMA CapBound ==
  StatusCap \in Nat /\ RiseCount \in 1..StatusCap /\ FallCount \in 1..StatusCap
BY StatusAssumption DEF StatusCap

\* A counter reaches n exactly when a run of n results has just ended.
LEMMA CounterIsRun ==
  ASSUME NEW s \in Seq(BOOLEAN), NEW result \in BOOLEAN,
         NEW c, Counts(c, s, result), NEW n \in 1..StatusCap
  PROVE  c >= n <=> RunEndsAt(s, Len(s), n, result)
<1>1. Len(s) \in Nat /\ StatusCap \in Nat
  BY CapBound
<1>2. ASSUME c >= n PROVE RunEndsAt(s, Len(s), n, result)
  BY <1>1, <1>2 DEF Counts, RunEndsAt
<1>3. ASSUME RunEndsAt(s, Len(s), n, result), ~(c >= n) PROVE FALSE
  <2>1. Len(s) - c \in (Len(s) - n + 1)..Len(s) /\ c < StatusCap /\ c < Len(s)
    BY <1>1, <1>3 DEF Counts, RunEndsAt
  <2> QED BY <1>1, <1>3, <2>1 DEF Counts, RunEndsAt
<1> QED BY <1>2, <1>3

\* A check with the counted result counts one more.
LEMMA CountGrows ==
  ASSUME NEW s \in Seq(BOOLEAN), NEW result \in BOOLEAN,
         NEW c, Counts(c, s, result)
  PROVE  Counts(CountOneMore(c), Append(s, result), result)
<1> DEFINE t == Append(s, result)
<1>1. /\ Len(s) \in Nat /\ StatusCap \in Nat
      /\ Len(t) = Len(s) + 1
      /\ t[Len(s) + 1] = result
      /\ \A i \in 1..Len(s) : t[i] = s[i]
  BY CapBound
<1> HIDE DEF t
<1>2. CASE c < StatusCap
  <2>1. CountOneMore(c) = c + 1 /\ c + 1 \in 0..StatusCap /\ Len(t) - (c + 1) = Len(s) - c
    BY <1>1, <1>2 DEF Counts, CountOneMore
  <2> QED BY <1>1, <1>2, <2>1 DEF Counts
<1>3. CASE c = StatusCap
  <2>1. CountOneMore(c) = c
    BY <1>3, <1>1 DEF CountOneMore
  <2> QED BY <1>1, <1>3, <2>1 DEF Counts
<1> QED BY <1>1, <1>2, <1>3 DEF t, Counts

\* A check with the other result leaves a run of length zero.
LEMMA CountResets ==
  ASSUME NEW s \in Seq(BOOLEAN), NEW result \in BOOLEAN
  PROVE  Counts(0, Append(s, ~result), result)
<1> DEFINE t == Append(s, ~result)
<1>1. Len(t) \in Nat \ {0} /\ t[Len(t)] = ~result
  OBVIOUS
<1>2. t[Len(t)] # result
  BY <1>1, Zenon
<1> QED BY <1>1, <1>2, CapBound DEF Counts

\* One more check: the peer is declared down if the check completes a run of
\* failures, or it was and the check completes no run of successes.
LEMMA DeclaredStep ==
  ASSUME NEW s \in Seq(BOOLEAN), NEW result \in BOOLEAN
  PROVE  LET t == Append(s, result) IN
         DeclaredDown(t) <=>
           \/ FallsAt(t, Len(t))
           \/ DeclaredDown(s) /\ ~RisesAt(t, Len(t))
<1> DEFINE t == Append(s, result)
           L == Len(s)
<1>1. L \in Nat /\ Len(t) = L + 1 /\ \A i \in 1..L : t[i] = s[i]
  OBVIOUS
<1> HIDE DEF t
<1>2. ASSUME NEW i \in 1..L
      PROVE  /\ FallsAt(t, i) => FallsAt(s, i)
             /\ FallsAt(s, i) => FallsAt(t, i)
             /\ RisesAt(t, i) => RisesAt(s, i)
             /\ RisesAt(s, i) => RisesAt(t, i)
  <2>1. \A n \in 1..i : \A j \in (i - n + 1)..i : t[j] = s[j]
    BY <1>1
  <2>2. FallCount <= i => FallCount \in 1..i
    BY StatusAssumption
  <2>3. RiseCount <= i => RiseCount \in 1..i
    BY StatusAssumption
  <2> QED BY <1>1, <2>1, <2>2, <2>3, StatusAssumption DEF FallsAt, RisesAt, RunEndsAt
<1>3. ASSUME DeclaredDown(t), ~FallsAt(t, L + 1)
      PROVE  DeclaredDown(s) /\ ~RisesAt(t, L + 1)
  <2>1. PICK i \in 0..(L + 1) :
          /\ StartsDown(t, i)
          /\ \A k \in (i + 1)..(L + 1) : ~RisesAt(t, k)
    BY <1>1, <1>3 DEF DeclaredDown
  <2>2. i \in 0..L
    BY <1>1, <1>3, <2>1 DEF StartsDown
  <2>3. ~RisesAt(t, L + 1)
    BY <1>1, <2>1, <2>2
  <2>4. \A k \in (i + 1)..L : ~RisesAt(s, k)
    BY <1>1, <1>2, <2>1, <2>2, StatusAssumption
  <2>5. StartsDown(s, i)
    BY <1>1, <1>2, <2>1, <2>2, StatusAssumption DEF StartsDown
  <2> QED BY <2>2, <2>3, <2>4, <2>5 DEF DeclaredDown
<1>4. ASSUME FallsAt(t, L + 1) PROVE DeclaredDown(t)
  BY <1>1, <1>4 DEF DeclaredDown, StartsDown
<1>5. ASSUME DeclaredDown(s), ~RisesAt(t, L + 1)
      PROVE  DeclaredDown(t)
  <2>1. PICK i \in 0..L :
          /\ StartsDown(s, i)
          /\ \A k \in (i + 1)..L : ~RisesAt(s, k)
    BY <1>5 DEF DeclaredDown
  <2>2. \A k \in (i + 1)..(L + 1) : ~RisesAt(t, k)
    BY <1>1, <1>2, <1>5, <2>1, StatusAssumption
  <2>3. StartsDown(t, i)
    BY <1>1, <1>2, <2>1, StatusAssumption DEF StartsDown
  <2> QED BY <1>1, <2>2, <2>3 DEF DeclaredDown
<1>6. DeclaredDown(t) \in BOOLEAN /\ DeclaredDown(s) \in BOOLEAN
  BY DEF DeclaredDown
<1> QED BY <1>1, <1>3, <1>4, <1>5, <1>6 DEF t

-----------------------------------------------------------------------------
\* A successful check keeps the invariant.
LEMMA RiseStep ==
  ASSUME HistoryInv, rise, results' = Append(results, TRUE)
  PROVE  HistoryInv'
<1> DEFINE t == Append(results, TRUE)
<1>1. t \in Seq(BOOLEAN) /\ Len(t) \in Nat \ {0} /\ t[Len(t)] = TRUE
  BY DEF HistoryInv
<1>2. Counts(rise_count', t, TRUE)
  BY CountGrows DEF HistoryInv, rise
<1>3. Counts(fall_count', t, FALSE)
  BY CountResets DEF HistoryInv, rise
<1>4. ~FallsAt(t, Len(t))
  BY <1>1, StatusAssumption DEF FallsAt, RunEndsAt
<1>5. rise_count' >= RiseCount <=> RisesAt(t, Len(t))
  BY <1>1, <1>2, CounterIsRun, CapBound DEF RisesAt
<1>6. rise_count' < RiseCount <=> ~(rise_count' >= RiseCount)
  BY <1>2, CapBound DEF Counts
<1>7. DeclaredDown(t) <=> DeclaredDown(results) /\ ~RisesAt(t, Len(t))
  BY <1>4, DeclaredStep DEF HistoryInv
<1>8. down' = (down /\ ~RisesAt(t, Len(t)))
  BY <1>5, <1>6 DEF rise
<1>9. DeclaredDown(t) \in BOOLEAN /\ down' \in BOOLEAN
  BY DEF DeclaredDown, rise
<1>10. down' = DeclaredDown(t)
  BY <1>7, <1>8, <1>9 DEF HistoryInv, DownIsDeclared
<1> QED BY <1>1, <1>2, <1>3, <1>9, <1>10 DEF HistoryInv, DownIsDeclared

\* A failed check keeps the invariant.
LEMMA FallStep ==
  ASSUME HistoryInv, fall, results' = Append(results, FALSE)
  PROVE  HistoryInv'
<1> DEFINE t == Append(results, FALSE)
<1>1. t \in Seq(BOOLEAN) /\ Len(t) \in Nat \ {0} /\ t[Len(t)] = FALSE
  BY DEF HistoryInv
<1>2. Counts(rise_count', t, TRUE)
  BY CountResets DEF HistoryInv, fall
<1>3. Counts(fall_count', t, FALSE)
  BY CountGrows DEF HistoryInv, fall
<1>4. ~RisesAt(t, Len(t))
  BY <1>1, StatusAssumption DEF RisesAt, RunEndsAt
<1>5. fall_count' >= FallCount <=> FallsAt(t, Len(t))
  BY <1>1, <1>3, CounterIsRun, CapBound DEF FallsAt
<1>6. DeclaredDown(t) <=> FallsAt(t, Len(t)) \/ DeclaredDown(results)
  BY <1>4, DeclaredStep DEF HistoryInv
<1>7. down' = (down \/ FallsAt(t, Len(t)))
  BY <1>5 DEF fall
<1>8. DeclaredDown(t) \in BOOLEAN /\ down' \in BOOLEAN
  BY DEF DeclaredDown, fall
<1>9. down' = DeclaredDown(t)
  BY <1>6, <1>7, <1>8 DEF HistoryInv, DownIsDeclared
<1> QED BY <1>1, <1>2, <1>3, <1>8, <1>9 DEF HistoryInv, DownIsDeclared

\* After any sequence of checks, for all thresholds and either default, the
\* flag status_update publishes is the one the documentation of rise, fall
\* and default_down defines.
THEOREM StatusIsDeclared == HistorySpec => []DownIsDeclared
<1>1. HistoryInit => HistoryInv
  <2> SUFFICES ASSUME HistoryInit PROVE HistoryInv
    OBVIOUS
  <2>1. results \in Seq(BOOLEAN) /\ Len(results) = 0
    BY DEF HistoryInit
  <2>2. Counts(0, results, TRUE) /\ Counts(0, results, FALSE)
    BY <2>1, CapBound DEF Counts
  <2>3. DeclaredDown(results) <=> DefaultDown
    BY <2>1 DEF DeclaredDown, StartsDown
  <2>4. DeclaredDown(results) = DefaultDown
    BY <2>3, StatusAssumption DEF DeclaredDown
  <2> QED BY <2>1, <2>2, <2>4, StatusAssumption
          DEF HistoryInit, StatusInit, HistoryInv, DownIsDeclared
<1>2. HistoryInv /\ [HistoryNext]_hvars => HistoryInv'
  <2>1. ASSUME HistoryInv, UNCHANGED hvars PROVE HistoryInv'
    BY <2>1 DEF HistoryInv, hvars, DownIsDeclared
  <2>2. ASSUME HistoryInv, HistoryNext PROVE HistoryInv'
    BY <2>2, RiseStep, FallStep DEF HistoryNext, checked, status_update
  <2> QED BY <2>1, <2>2
<1>3. HistoryInv => DownIsDeclared
  BY DEF HistoryInv
<1> QED BY <1>1, <1>2, <1>3, PTL DEF HistorySpec

-----------------------------------------------------------------------------
\* Whatever the peer answers and in whatever pieces, each handler of the http
\* check counts the result of one check or none.
LEMMA HandlerCounts == AnswersNext => [HistoryNext]_hvars
<1>1. ASSUME NEW error, Failed(error) PROVE HistoryNext
  BY <1>1 DEF Failed, HistoryNext
<1>2. ASSUME connect_handler PROVE HistoryNext \/ UNCHANGED hvars
  BY <1>2 DEF connect_handler, HistoryNext
<1>3. ASSUME recv_handler PROVE HistoryNext \/ UNCHANGED hvars
  <2>1. PICK parsed, closed, rest : Handled(parsed, closed, rest)
    BY <1>3, Zenon DEF recv_handler
  <2>2. \/ checked(FALSE) \/ UNCHANGED hvars
        \/ \E rc : checked(rc = "ok")
    BY <2>1, Zenon DEF Handled
  <2>3. \A rc : (rc = "ok") \in BOOLEAN
    OBVIOUS
  <2> QED BY <2>2, <2>3, Zenon DEF HistoryNext
<1>4. ASSUME send_handler \/ discard_handler PROVE UNCHANGED hvars
  BY <1>4 DEF send_handler, discard_handler
<1>5. ASSUME send_fail \/ recv_fail \/ timeout_handler PROVE HistoryNext
  BY <1>1, <1>5 DEF send_fail, recv_fail, timeout_handler
<1> QED BY <1>2, <1>3, <1>4, <1>5 DEF AnswersNext

\* The http checks of a worker, with any answers in any pieces and over any
\* connections, implement a sequence of results: a handler counts one result
\* at most, and none changes the record without a result.
THEOREM AnswersCounted == AnswersSpec => HistorySpec
<1>1. AnswersInit => HistoryInit
  BY DEF AnswersInit
<1>2. [AnswersNext]_avars => [HistoryNext]_hvars
  BY HandlerCounts DEF avars
<1> QED BY <1>1, <1>2, PTL DEF AnswersSpec, HistorySpec

\* So the published status is the documented one after every handler of the
\* http check, whatever the peer answers.
THEOREM AnswersDeclare == AnswersSpec => []DownIsDeclared
BY AnswersCounted, StatusIsDeclared, PTL

-----------------------------------------------------------------------------
(***************************************************************************)
(* The verdict on a response.                                              *)
(***************************************************************************)
\* The class of the code is its first digit.
LEMMA AliveCode ==
  ASSUME NEW code \in [1..3 -> DOMAIN Digits]
  PROVE  Alive(CodeOf(code)) <=> Digits[code[1]] \in StatusAlive
<1>1. \A x \in DOMAIN Digits : Digits[x] \in 0..5
  BY DEF Digits
<1>2. PICK a \in 0..5, b \in 0..5, c \in 0..5 :
        a = Digits[code[1]] /\ b = Digits[code[2]] /\ c = Digits[code[3]]
  BY <1>1
<1>3. ((a * 10 + b) * 10 + c) \div 100 = a
  OBVIOUS
<1> QED BY <1>2, <1>3 DEF Alive, CodeOf

\* The text begins with what has come.
Begins(text, got) == Len(got) <= Len(text) /\ \A i \in 1..Len(got) : got[i] = text[i]

\* After the first h characters comes the body.
BodyAfter(got, h, body) == \A i \in 1..(Len(got) - h) : got[h + i] = body[i]

\* The length of a response that announces two characters is found.
LEMMA LengthInHeader ==
  ASSUME NEW code, NEW body, IsResponse(code, "clen2", body),
         NEW t, t = Text(code, "clen2", body),
         NEW h, h = HeaderLen("clen2"), NEW c, ~c.old, c.start = 10, c.stop = h - 1,
         \A i \in 1..h : c.recv[i] = t[i], NEW l \in ContentLength(c)
  PROVE  l.found /\ l.len = 2
<1> DEFINE at == {i \in c.start .. c.stop - 1 :
                    c.recv[i] \in DOMAIN Lengths
                    /\ \E j \in i .. c.stop - 1 : c.recv[j] = "CR"}
           found == IF at = {} THEN {}
                    ELSE {Lengths[c.recv[CHOOSE i \in at : \A j \in at : i <= j]]}
<1>0. h = 21
  BY DEF HeaderLen
<1>1. /\ t[13] = "SP" /\ t[14] = "m" /\ t[15] = "CR" /\ t[16] = "LF"
      /\ t[10] = code[1] /\ t[11] = code[2] /\ t[12] = code[3]
      /\ t[17] = "clen2" /\ t[18] = "CR" /\ t[19] = "LF"
  <2>1. StatusLineChars(t, code) /\ HeaderChars(t, "clen2")
    BY TextChars
  <2> QED BY <2>1 DEF StatusLineChars, HeaderChars
<1>2. code[1] \notin DOMAIN Lengths /\ code[2] \notin DOMAIN Lengths /\ code[3] \notin DOMAIN Lengths
  <2>1. \A x \in DOMAIN Digits : x \notin DOMAIN Lengths
    BY DEF Digits, Lengths
  <2> QED BY <2>1 DEF IsResponse
<1>3. /\ "SP" \notin DOMAIN Lengths /\ "m" \notin DOMAIN Lengths /\ "CR" \notin DOMAIN Lengths
      /\ "LF" \notin DOMAIN Lengths /\ "clen2" \in DOMAIN Lengths /\ Lengths["clen2"] = 2
  BY DEF Lengths
<1>4. \A i \in 10..19 : c.recv[i] \in DOMAIN Lengths <=> i = 17
  <2>1. \A i \in 10..19 : c.recv[i] = t[i]
    BY <1>0
  <2> QED BY <1>1, <1>2, <1>3, <2>1
<1>5. c.recv[17] = "clen2" /\ c.recv[18] = "CR"
  BY <1>0, <1>1
<1>6. at = {17}
  BY <1>0, <1>4, <1>5
<1>7. (CHOOSE i \in at : \A j \in at : i <= j) = 17
  BY <1>6
<1>8. found = {2}
  BY <1>3, <1>5, <1>6, <1>7
<1>9. l \in {[found |-> TRUE, len |-> n] : n \in found}
            \cup (IF found = {} \/ c.old THEN {[found |-> FALSE, len |-> 0]} ELSE {})
  BY DEF ContentLength
<1> HIDE DEF found
<1>10. l \in {[found |-> TRUE, len |-> n] : n \in found}
  BY <1>8, <1>9
<1>11. l = [found |-> TRUE, len |-> 2]
  BY <1>8, <1>10
<1> QED BY <1>11

\* The same, of what has come of the response.
LEMMA LengthFound ==
  ASSUME NEW code, NEW body, IsResponse(code, "clen2", body),
         NEW t, t = Text(code, "clen2", body),
         NEW h, h = HeaderLen("clen2"), NEW c, ~c.old, c.start = 10, c.stop = h - 1,
         Begins(t, c.recv), Len(c.recv) \in Nat, h <= Len(c.recv), NEW l \in ContentLength(c)
  PROVE  l.found /\ l.len = 2
<1>1. h = 21
  BY DEF HeaderLen
<1>2. \A i \in 1..h : c.recv[i] = t[i]
  BY <1>1 DEF Begins
<1> QED BY <1>2, LengthInHeader

\* The body is judged when all of it has come, and then by its match.
LEMMA BodyJudged ==
  ASSUME NEW b, Len(b) \in Nat, NEW l, l.found, l.len = 2,
         NEW rc \in BodyVerdicts(b, l)
  PROVE  /\ rc = "again" <=> Len(b) < 2
         /\ rc = "ok" <=> Len(b) >= 2 /\ \E i \in DOMAIN b : b[i] = "m"
<1>1. rc = IF Len(b) < 2 THEN "again"
           ELSE IF \E i \in DOMAIN b : b[i] = "m" THEN "ok" ELSE "error"
  BY DEF BodyVerdicts
<1> QED BY <1>1

\* What follows the first k elements of a sequence.
LEMMA Rest ==
  ASSUME NEW s \in Seq(Chars), NEW k \in 0..Len(s)
  PROVE  LET r == SubSeq(s, k + 1, Len(s))
         IN /\ r \in Seq(Chars) /\ Len(r) = Len(s) - k /\ DOMAIN r = 1..(Len(s) - k)
            /\ \A i \in 1..(Len(s) - k) : r[i] = s[k + i]
OBVIOUS

\* rc may be said of the body that follows the first h characters of got.
SaidOf(rc, got, h, l) == rc \in BodyVerdicts(SubSeq(got, h + 1, Len(got)), l)

\* A response of which the body is expected, and the length is given.
LEMMA SizedJudged ==
  ASSUME NEW body \in Seq(Chars), Len(body) = 2,
         NEW r \in Seq(Chars), NEW h \in Nat, NEW n \in Nat, n = Len(r), h <= n,
         BodyAfter(r, h, body), NEW l, l.found, l.len = 2,
         NEW rc, SaidOf(rc, r, h, l)
  PROVE  /\ n < h + 2 => rc = "again"
         /\ n = h + 2 =>
              rc # "again" /\ (rc = "ok" <=> \E i \in DOMAIN body : body[i] = "m")
<1> DEFINE b == SubSeq(r, h + 1, Len(r))
<1>1. /\ Len(b) = n - h /\ DOMAIN b = 1..(n - h)
      /\ \A i \in 1..(n - h) : b[i] = r[h + i]
  <2>1. h \in 0..Len(r)
    OBVIOUS
  <2>2. /\ Len(b) = Len(r) - h /\ DOMAIN b = 1..(Len(r) - h)
        /\ \A i \in 1..(Len(r) - h) : b[i] = r[h + i]
    BY <2>1, Rest
  <2> HIDE DEF b
  <2> QED BY <2>2
<1>2. rc \in BodyVerdicts(b, l)
  BY Zenon DEF SaidOf
<1> HIDE DEF b
<1>3. Len(b) \in Nat
  BY <1>1
<1>4. /\ rc = "again" <=> Len(b) < 2
      /\ rc = "ok" <=> Len(b) >= 2 /\ \E i \in DOMAIN b : b[i] = "m"
  BY <1>2, <1>3, BodyJudged, Zenon
<1>5. n < h + 2 => Len(b) < 2
  BY <1>1
<1>6. n = h + 2 => /\ ~(Len(b) < 2) /\ Len(b) >= 2
                /\ DOMAIN b = DOMAIN body /\ \A i \in DOMAIN b : b[i] = body[i]
  <2> SUFFICES ASSUME n = h + 2
               PROVE  /\ ~(Len(b) < 2) /\ Len(b) >= 2
                      /\ DOMAIN b = DOMAIN body /\ \A i \in DOMAIN b : b[i] = body[i]
    OBVIOUS
  <2>1. n - h = 2 /\ DOMAIN body = 1..2
    OBVIOUS
  <2>2. Len(b) = 2 /\ DOMAIN b = 1..2
    BY <1>1, <2>1
  <2>3. \A i \in 1..2 : b[i] = body[i]
    BY <1>1, <2>1 DEF BodyAfter
  <2> QED BY <2>1, <2>2, <2>3
<1> QED BY <1>4, <1>5, <1>6, Zenon

\* After the header of a response comes its body.
LEMMA BodyComes ==
  ASSUME NEW code, NEW body, IsResponse(code, "clen2", body), Len(body) \in Nat,
         NEW t, t = Text(code, "clen2", body), NEW h, h = HeaderLen("clen2"),
         NEW r, Begins(t, r), Len(r) \in Nat, h <= Len(r), Len(r) <= h + Len(body)
  PROVE  BodyAfter(r, h, body)
<1>1. h = 21
  BY DEF HeaderLen
<1>2. \A i \in 1..Len(body) : t[h + i] = body[i]
  BY TextChars, SMTT(30)
<1>3. \A i \in 1..(Len(r) - h) : r[h + i] = t[h + i] /\ i \in 1..Len(body)
  BY <1>1, SMTT(30) DEF Begins
<1> QED BY <1>2, <1>3, Zenon DEF BodyAfter

\* The parser is at the start of the body behind a header of length H.
AtBody(c, code, H) ==
  /\ c.state = "done" /\ c.pos = H /\ c.code = CodeOf(code)
  /\ c.start = 10 /\ c.stop = H - 1

\* The parser reads the header of a response to its end, and stays there.
LEMMA ResponseScan ==
  ASSUME NEW code, NEW length, NEW body, IsResponse(code, length, body),
         NEW t, t = Text(code, length, body), NEW n \in 0..Len(t)
  PROVE  /\ n < HeaderLen(length) => Scan(Whole(t))[n].state \in Running
         /\ n >= HeaderLen(length) => AtBody(Scan(Whole(t))[n], code, HeaderLen(length))
         /\ HeaderLen(length) <= Len(t)
<1> DEFINE S == Scan(Whole(t))
           H == HeaderLen(length)
<1>1. t \in Seq(Chars) /\ Len(t) = H + Len(body)
  BY TextChars
<1>2. Len(body) \in Nat /\ H \in {18, 21}
  BY DEF IsResponse, HeaderLen
<1>3. /\ \A i \in 0..(H - 1) : S[i].state \in Running
      /\ Reached(S[H], H, "done", CodeOf(code), 3, 10) /\ S[H].stop = H - 1
  BY HeaderScan, Zenon
<1>4. Ready(Whole(t)) /\ Whole(t).pos = 0 /\ Whole(t).recv = t
  BY <1>1, WholeScan, Zenon
<1> HIDE DEF S, H
<1>5. S[H].state = "done" /\ AtBody(S[H], code, H)
  BY <1>3 DEF Reached, AtBody
<1>6. H \in 0..Len(t) /\ H <= Len(t)
  BY <1>1, <1>2
<1>7. n < H => n \in 0..(H - 1)
  BY <1>2
<1>8. ASSUME n >= H PROVE S[n] = S[H]
  <2>1. S[H].state \notin Running
    BY <1>5, Endings, Zenon
  <2>2. n \in H..Len(t)
    BY <1>2, <1>8
  <2> QED BY <1>4, <1>6, <2>1, <2>2, ScanEnds DEF S
<1>9. n >= H => AtBody(S[n], code, H)
  BY <1>5, <1>8
<1> QED BY <1>3, <1>6, <1>7, <1>9, Zenon DEF S, H

\* The verdict rc, after got of the response t, is the one the response calls for.
SaidRightly(rc, got, t, body, rx, alive) ==
  /\ rc = "again" => Len(got) < Len(t)
  /\ rc # "again" => (rc = "ok" <=> alive /\ (rx => \E i \in DOMAIN body : body[i] = "m"))
  /\ rc # "again" /\ rx /\ alive => Len(got) = Len(t)

\* What is said of a response when its header has come.
LEMMA ResponseJudged ==
  ASSUME NEW code, NEW length, NEW body, IsResponse(code, length, body),
         NEW t, t = Text(code, length, body),
         NEW c, Between(c), Begins(t, c.recv), ~c.old, Follows(c, Len(c.recv), t), c.state = "receive_body",
         NEW rx \in BOOLEAN,
         NEW alive \in BOOLEAN, alive <=> Digits[code[1]] \in StatusAlive,
         rx /\ alive => length = "clen2" /\ Len(body) = 2,
         NEW rc \in Judged(c, rx)
  PROVE  SaidRightly(rc, c.recv, t, body, rx, alive)
<1> SUFFICES /\ rc = "again" => Len(c.recv) < Len(t)
             /\ rc # "again" =>
                  (rc = "ok" <=> alive /\ (rx => \E i \in DOMAIN body : body[i] = "m"))
             /\ rc # "again" /\ rx /\ alive => Len(c.recv) = Len(t)
  BY Zenon DEF SaidRightly
<1> DEFINE H == HeaderLen(length)
           n == Len(c.recv)
           w == Scan(Whole(t))[n]
<1>1. /\ t \in Seq(Chars) /\ Len(t) = H + Len(body) /\ Len(body) \in Nat /\ H \in {18, 21}
      /\ n \in 0..Len(t)
  <2>1. t \in Seq(Chars) /\ Len(t) = H + Len(body)
    BY TextChars, SMTT(30)
  <2>2. Len(body) \in Nat /\ n \in Nat /\ H \in {18, 21} /\ Len(t) \in Nat
    BY <2>1, SMTT(30) DEF IsResponse, Between, Ctx, HeaderLen
  <2>3. n <= Len(t)
    BY SMTT(30) DEF Begins
  <2> QED BY <2>1, <2>2, <2>3
<1>2. /\ n < H => w.state \in Running
      /\ n >= H => AtBody(w, code, H)
  BY <1>1, ResponseScan, Zenon
<1>3. "receive_body" \notin Running
  BY DEF Running
<1>4. /\ w.state = "done" /\ c.pos = w.pos /\ c.code = w.code
      /\ c.start = w.start /\ c.stop = w.stop
  BY <1>3, Zenon DEF Follows
<1> HIDE DEF w, H
<1>5. n >= H
  <2>1. ~(n < H)
    BY <1>2, <1>4, Endings, Zenon
  <2> HIDE DEF n
  <2> QED BY <1>1, <2>1, SMTT(30)
<1>6. c.pos = H /\ c.code = CodeOf(code) /\ c.start = 10 /\ c.stop = H - 1
  <2>1. AtBody(w, code, H)
    BY <1>2, <1>5, Zenon
  <2> QED BY <1>4, <2>1, Zenon DEF AtBody
<1>7. Alive(c.code) <=> alive
  BY <1>6, AliveCode, SMTT(30) DEF IsResponse
<1>8. CASE ~alive
  <2>1. rc = "error"
    BY <1>7, <1>8 DEF Judged
  <2> QED BY <1>8, <2>1
<1>9. CASE alive /\ ~rx
  <2>1. rc = "ok"
    BY <1>7, <1>9 DEF Judged
  <2> QED BY <1>9, <2>1
<1>10. CASE alive /\ rx
  <2>1. length = "clen2" /\ Len(body) = 2
    BY <1>10
  <2>2. H = HeaderLen("clen2")
    BY <2>1 DEF H
  <2>3. n \in Nat /\ H \in 0..n /\ n <= H + 2 /\ Len(t) = H + 2
    <3>1. Len(body) = 2
      BY <2>1
    <3> HIDE DEF n
    <3> QED BY <1>1, <1>5, <3>1
  <2>4. PICK l \in ContentLength(c) :
          rc \in BodyVerdicts(SubSeq(c.recv, H + 1, Len(c.recv)), l)
    <3>1. Judged(c, rx) = UNION {BodyVerdicts(SubSeq(c.recv, c.pos + 1, Len(c.recv)), l) :
                                   l \in ContentLength(c)}
      BY <1>7, <1>10, Zenon DEF Judged
    <3>2. PICK l \in ContentLength(c) :
            rc \in BodyVerdicts(SubSeq(c.recv, c.pos + 1, Len(c.recv)), l)
      BY <3>1, Zenon
    <3> QED BY <1>6, <3>2, Zenon
  <2>5. IsResponse(code, "clen2", body) /\ t = Text(code, "clen2", body)
    BY <2>1
  <2>6. c.recv \in Seq(Chars)
    BY DEF Between, Ctx
  <2>7. /\ n < H + 2 => rc = "again"
        /\ n = H + 2 => rc # "again" /\ (rc = "ok" <=> \E i \in DOMAIN body : body[i] = "m")
    <3>1. n \in Nat /\ H \in Nat /\ H <= n /\ n <= H + Len(body) /\ Len(body) \in Nat
      <4> HIDE DEF n
      <4> QED BY <1>1, <2>3
    <3>2. l.found /\ l.len = 2
      BY <1>6, <2>2, <2>4, <2>5, <3>1, LengthFound
    <3>3. BodyAfter(c.recv, H, body)
      BY <2>2, <2>5, <3>1, BodyComes
    <3>4. body \in Seq(Chars)
      BY DEF IsResponse
    <3>5. SaidOf(rc, c.recv, H, l)
      BY <2>4, Zenon DEF SaidOf
    <3> QED BY ONLY <2>1, <2>6, <3>1, <3>2, <3>3, <3>4, <3>5, SizedJudged
  <2>8. n < H + 2 \/ n = H + 2
    <3> HIDE DEF n
    <3> QED BY <1>1, <2>3
  <2> QED BY <1>10, <2>3, <2>7, <2>8, Zenon
<1> QED BY <1>8, <1>9, <1>10

\* The fields of a response.
LEMMA ResponseFields ==
  ASSUME NEW code, NEW length, NEW body, NEW a, a = Answer(code, length, body)
  PROVE  /\ a.text = Text(code, length, body) /\ a.whole /\ a.alive \in BOOLEAN
         /\ a.sized <=> length = "clen2" /\ Len(body) = 2
         /\ a.alive <=> Digits[code[1]] \in StatusAlive
         /\ a.matches <=> \E i \in DOMAIN body : body[i] = "m"
<1>1. a.text = Text(code, length, body) /\ a.whole
  BY Zenon DEF Answer
<1>2. a.sized = (length = "clen2" /\ Len(body) = 2)
  BY Zenon DEF Answer
<1>3. a.alive = (Digits[code[1]] \in StatusAlive)
  BY Zenon DEF Answer
<1>4. a.matches = (\E i \in DOMAIN body : body[i] = "m")
  BY Zenon DEF Answer
<1>5. a.alive \in BOOLEAN
  BY <1>3
<1> QED BY <1>1, <1>2, <1>3, <1>4, <1>5

\* The fields of an answer that is not a response.
LEMMA OtherFields ==
  ASSUME NEW text, NEW a, a = Garbled(text)
  PROVE  a.text = text /\ ~a.whole /\ ~a.sized /\ ~a.alive /\ ~a.matches
BY Zenon DEF Garbled

\* The parser finds no header in the other texts.
LEMMA OtherScan ==
  ASSUME NEW text \in OtherTexts, Len(text) < BufSize, NEW n \in 0..Len(text)
  PROVE  Scan(Whole(text))[n].state # "done"
<1> DEFINE w == Whole(text)
<1> SUFFICES ASSUME Scan(w)[n].state = "done" PROVE FALSE
  OBVIOUS
<1>1. text \in Seq(Chars) /\ ParsedHeader(w).rc # "ok"
  BY AnswersAssumption DEF Whole
<1>2. Ready(w) /\ w.pos = 0 /\ w.recv = text
  BY <1>1, WholeScan
<1>3. w.end = BufSize /\ w.state = "start"
  BY DEF Whole, NewCtx
<1> HIDE DEF w
<1>4. Between(w)
  BY <1>1, <1>2, <1>3, ParseAssumption DEF Between, Ready
<1>5. Scan(w)[Len(w.recv)] = Scan(w)[n]
  <2>1. Scan(w)[n].state \notin Running
    BY DEF Running
  <2>2. n \in w.pos .. Len(w.recv) /\ Len(w.recv) \in n .. Len(w.recv)
    BY <1>1, <1>2
  <2> QED BY <1>2, <2>1, <2>2, ScanEnds
<1>6. ParsedHeader(w) = [rc |-> "ok", ctx |-> [Scan(w)[n] EXCEPT !.state = "receive_body"]]
  <2>1. w.state # "receive_body"
    BY <1>3
  <2> QED BY <1>4, <1>5, <2>1, ParsedCases
<1> QED BY <1>1, <1>6

\* What http_parse says of an answer that fits the buffer, when c holds what
\* has come of it and there is something to parse.
LEMMA AnswerJudged ==
  ASSUME NEW a \in Answers, Len(a.text) < BufSize,
         NEW c, Between(c), NEW m \in 0..Len(c.recv), Begins(a.text, c.recv),
         Follows(c, m, a.text), ~c.old, c.pos < Len(c.recv),
         NEW rx \in BOOLEAN, NEW p \in http_parse(c, rx)
  PROVE  /\ p.rc = "again" => Follows(p.ctx, Len(c.recv), a.text) /\ ~p.ctx.old
         /\ (rx => a.sized \/ ~a.alive) =>
              /\ p.rc = "again" => ~a.whole \/ Len(c.recv) < Len(a.text)
              /\ p.rc # "again" => (p.rc = "ok" <=> a.alive /\ (rx => a.matches))
              /\ p.rc # "again" /\ rx /\ a.alive => Len(c.recv) = Len(a.text)
<1> DEFINE n == Len(c.recv)
           t == a.text
           w == Scan(Whole(t))[n]
           q == ParsedHeader(c)
<1>1. t \in Seq(Chars) /\ n \in 0..Len(t)
  <2>1. t \in Seq(Chars) /\ Len(t) \in Nat
    BY AnswerText
  <2>2. n \in Nat
    BY DEF Between, Ctx
  <2> QED BY <2>1, <2>2 DEF Begins
<1>2. /\ w.state \in Running \cup {"error", "done"}
      /\ w.state = "error" => q.rc = "error"
      /\ w.state \in Running => q.rc = "again"
      /\ w.state = "done" => q.rc = "ok"
      /\ w.state # "error" => Follows(q.ctx, n, t)
      /\ q.ctx.old = c.old
  BY <1>1, ParsedFollows DEF Begins
<1>3. /\ q.rc # "ok" => p.rc = q.rc
      /\ q.rc = "ok" => p.rc \in Judged(q.ctx, rx)
      /\ p.ctx = q.ctx
  <2>1. n # c.pos
    BY DEF Between, Ctx
  <2> QED BY <2>1, HttpParseCases
<1>4. Between(q.ctx) /\ q.ctx.recv = c.recv
  BY ParsedType
<1> HIDE DEF w, q, t
<1>5. "error" \notin Running /\ "done" \notin Running
  BY Endings, Zenon
<1>6. p.rc = "again" => Follows(p.ctx, n, t) /\ ~p.ctx.old
  BY <1>2, <1>3
<1>7. CASE \E code, length, body : IsResponse(code, length, body) /\ a = Answer(code, length, body)
  <2>1. PICK code, length, body : IsResponse(code, length, body) /\ a = Answer(code, length, body)
    BY <1>7
  <2>2. /\ t = Text(code, length, body) /\ a.whole /\ a.alive \in BOOLEAN
        /\ a.sized <=> length = "clen2" /\ Len(body) = 2
        /\ a.alive <=> Digits[code[1]] \in StatusAlive
        /\ a.matches <=> \E i \in DOMAIN body : body[i] = "m"
    BY <2>1, ResponseFields, SMTT(30) DEF t
  <2>3. /\ n < HeaderLen(length) => w.state \in Running
        /\ n >= HeaderLen(length) => w.state = "done"
        /\ HeaderLen(length) <= Len(t)
    <3>1. \A k \in 0..Len(t) :
            /\ k < HeaderLen(length) => Scan(Whole(t))[k].state \in Running
            /\ k >= HeaderLen(length) => AtBody(Scan(Whole(t))[k], code, HeaderLen(length))
            /\ HeaderLen(length) <= Len(t)
      BY <2>1, <2>2, ResponseScan, Zenon
    <3> QED BY <1>1, <3>1, Zenon DEF w, AtBody
  <2>4. HeaderLen(length) \in Nat /\ n \in Nat /\ Len(t) \in Nat
    BY <1>1 DEF HeaderLen
  <2>5. CASE n < HeaderLen(length)
    <3>1. p.rc = "again"
      BY <1>2, <1>3, <2>3, <2>5
    <3>2. n < Len(t)
      <4> HIDE DEF n
      <4> QED BY <2>3, <2>4, <2>5
    <3> QED BY <1>6, <3>1, <3>2 DEF t
  <2>6. CASE n >= HeaderLen(length)
    <3>1. w.state = "done" /\ q.rc = "ok"
      BY <1>2, <2>3, <2>6
    <3>2. p.rc \in Judged(q.ctx, rx)
      BY <1>3, <3>1
    <3>3. q.ctx.state = "receive_body" /\ Follows(q.ctx, Len(q.ctx.recv), t)
      <4>1. Follows(q.ctx, n, t)
        BY <1>2, <3>1
      <4>2. q.ctx.state = "receive_body"
        BY <4>1, <3>1, <1>5, Zenon DEF Follows, Same, w
      <4> QED BY <1>4, <4>1, <4>2, Zenon
    <3>4. Begins(t, q.ctx.recv) /\ ~q.ctx.old
      BY <1>2, <1>4 DEF t
    <3>5. SUFFICES ASSUME rx => a.sized \/ ~a.alive
                   PROVE  /\ p.rc = "again" => Len(c.recv) < Len(t)
                          /\ p.rc # "again" => (p.rc = "ok" <=> a.alive /\ (rx => a.matches))
                          /\ p.rc # "again" /\ rx /\ a.alive => Len(c.recv) = Len(t)
      BY <1>6 DEF t
    <3>6. rx /\ a.alive => length = "clen2" /\ Len(body) = 2
      BY <2>2, <3>5, Zenon
    <3>7. /\ p.rc = "again" => Len(q.ctx.recv) < Len(t)
          /\ p.rc # "again" =>
               (p.rc = "ok" <=> a.alive /\ (rx => \E i \in DOMAIN body : body[i] = "m"))
          /\ p.rc # "again" /\ rx /\ a.alive => Len(q.ctx.recv) = Len(t)
      <4>1. rx \in BOOLEAN /\ Between(q.ctx)
        BY <1>4, Zenon
      <4>2. IsResponse(code, length, body) /\ t = Text(code, length, body)
        BY <2>1, <2>2, Zenon
      <4>3. a.alive \in BOOLEAN /\ (a.alive <=> Digits[code[1]] \in StatusAlive)
        BY <2>2, Zenon
      <4>4. SaidRightly(p.rc, q.ctx.recv, t, body, rx, a.alive)
        BY ONLY <3>2, <3>3, <3>4, <3>6, <4>1, <4>2, <4>3, ResponseJudged, SMTT(30)
      <4> QED BY ONLY <4>4, Zenon DEF SaidRightly
    <3> QED BY <1>4, <2>2, <3>7, Zenon
  <2> QED BY <2>4, <2>5, <2>6, SMTT(30)
<1>8. CASE \E text \in OtherTexts : a = Garbled(text)
  <2>1. PICK text \in OtherTexts : a = Garbled(text)
    BY <1>8
  <2>2. t = text /\ ~a.whole /\ ~a.sized /\ ~a.alive /\ ~a.matches
    BY <2>1, OtherFields DEF t
  <2>3. w.state # "done"
    BY <1>1, <2>1, <2>2, OtherScan DEF w, t
  <2>4. p.rc # "ok"
    BY <1>2, <1>3, <2>3
  <2> QED BY <1>6, <2>2, <2>4 DEF t
<1> QED BY <1>7, <1>8, AnswerKinds


-----------------------------------------------------------------------------
(***************************************************************************)
(* The inductive invariant.                                                *)
(***************************************************************************)
\* The types, with a context between two calls of the parser.
AnswersTypeOK ==
  /\ regex \in BOOLEAN /\ stale \in BOOLEAN
  /\ conn \in {"none", "open", "sent", "kept"} /\ verdict \in {"none", "ok", "error"}
  /\ stream \in Seq(Chars) /\ answer \in Answers \cup {NoAnswer} /\ Between(ctx)

\* The three invariants are not inductive: what the parser will say depends on
\* the context in which the earlier pieces have left it.
AnswersInv ==
  /\ AnswersTypeOK
  /\ conn # "sent" => Clean(ctx)
  /\ conn = "sent" => answer \in Answers
  /\ conn \in {"open", "sent"} => verdict = "none"
  /\ conn = "sent" /\ ~stale /\ Len(answer.text) < BufSize =>
       /\ Split(ctx.recv, stream, answer.text)
       /\ ctx.old = FALSE
       /\ Follows(ctx, Len(ctx.recv), answer.text)
  /\ VerdictIsReference
  /\ AnswerIsJudged
  /\ JudgedIsRead

-----------------------------------------------------------------------------
(***************************************************************************)
(* The steps of a check.                                                   *)
(***************************************************************************)
\* reinit leaves a clean context.
LEMMA ReinitClean ==
  ASSUME NEW c, Between(c)
  PROVE  Between(http_reinit(c)) /\ Clean(http_reinit(c))
<1> DEFINE r == http_reinit(c)
<1>1. c \in Ctx /\ c.end \in Nat /\ 0 < c.end /\ BufSize <= c.end
  BY DEF Between, Ctx
<1>2. /\ r \in Ctx /\ r.recv = <<>> /\ r.pos = 0 /\ r.end = c.end /\ r.state = "start"
      /\ r.code = 0 /\ r.count = 0 /\ r.start = 0 /\ r.stop = 0 /\ r.old = FALSE
  <2>1. r \in Ctx
    <3> DEFINE none == <<>>
               first == "start"
               no == FALSE
    <3>1. r = [c EXCEPT !.recv = none, !.pos = 0, !.state = first, !.code = 0,
                        !.count = 0, !.start = 0, !.stop = 0, !.old = no]
      BY Zenon DEF http_reinit, Reset
    <3>2. none \in Seq(Chars) /\ first \in Running /\ no \in BOOLEAN
      BY DEF Running
    <3> DEFINE d == [c EXCEPT !.recv = none, !.pos = 0, !.state = first, !.code = 0]
    <3> HIDE DEF none, first, no, r
    <3>3. d \in Ctx
      BY <1>1, <3>2 DEF Ctx
    <3> DEFINE e == [d EXCEPT !.count = 0, !.start = 0, !.stop = 0]
    <3>4. r = [e EXCEPT !.old = no]
      BY <3>1
    <3> HIDE DEF d
    <3>5. e \in Ctx
      <4>1. [d EXCEPT !.count = 0] \in Ctx
        BY <3>3 DEF Ctx
      <4>2. \A x \in Ctx : [x EXCEPT !.start = 0] \in Ctx
        BY DEF Ctx
      <4>3. \A x \in Ctx : [x EXCEPT !.stop = 0] \in Ctx
        BY DEF Ctx
      <4> QED BY <4>1, <4>2, <4>3
    <3> HIDE DEF e
    <3> QED BY <3>2, <3>4, <3>5 DEF Ctx
  <2>2. r.recv = <<>> /\ r.pos = 0 /\ r.end = c.end /\ r.state = "start"
    BY <1>1 DEF http_reinit, Reset, Ctx
  <2>3. r.code = 0 /\ r.count = 0 /\ r.start = 0 /\ r.stop = 0
    BY <1>1 DEF http_reinit, Reset, Ctx
  <2>4. r.old = FALSE
    BY <1>1 DEF http_reinit, Reset, Ctx
  <2> HIDE DEF r
  <2> QED BY <2>1, <2>2, <2>3, <2>4
<1> HIDE DEF r
<1>3. Len(r.recv) = 0
  BY <1>2
<1>4. Between(r)
  BY <1>1, <1>2, <1>3 DEF Between
<1> QED BY <1>2, <1>4 DEF Clean, r

\* The end of a check: the context is clean, and a connection that is kept
\* brings what was not read.
LEMMA CleanedClean ==
  ASSUME NEW error, NEW rest \in Seq(Chars), NEW c, Between(c), Cleaned(error, rest, c)
  PROVE  /\ conn' \in {"kept", "none"} /\ stream' \in Seq(Chars)
         /\ Between(ctx') /\ Clean(ctx') /\ (conn' = "kept" => stream' = rest)
<1>1. Between(ctx') /\ Clean(ctx')
  BY ReinitClean DEF Cleaned
<1>2. <<>> \in Seq(Chars)
  OBVIOUS
<1>3. CASE conn' = "kept" /\ stream' = rest
  BY <1>1, <1>3
<1>4. CASE conn' = "none" /\ stream' = <<>>
  BY <1>1, <1>2, <1>4
<1> QED BY <1>3, <1>4 DEF Cleaned

\* More of the text has come.
LEMMA SplitMore ==
  ASSUME NEW r \in Seq(Chars), NEW s \in Seq(Chars), NEW t \in Seq(Chars), Split(r, s, t),
         NEW n \in 0..Len(s)
  PROVE  LET more == r \o SubSeq(s, 1, n)
             rest == SubSeq(s, n + 1, Len(s))
         IN /\ Split(more, rest, t) /\ Begins(t, more)
            /\ Len(r) \in 0..Len(more) /\ Len(more) = Len(r) + n
            /\ rest = <<>> <=> Len(more) = Len(t)
<1> DEFINE more == r \o SubSeq(s, 1, n)
           rest == SubSeq(s, n + 1, Len(s))
<1>1. /\ more \in Seq(Chars) /\ Len(more) = Len(r) + n
      /\ \A i \in 1..Len(r) : more[i] = r[i]
      /\ \A i \in 1..n : more[Len(r) + i] = s[i]
  OBVIOUS
<1>2. /\ rest \in Seq(Chars) /\ Len(rest) = Len(s) - n
      /\ \A i \in 1..(Len(s) - n) : rest[i] = s[n + i]
  BY Rest
<1> HIDE DEF more, rest
<1>3. /\ Len(r) + Len(s) = Len(t)
      /\ \A i \in 1..Len(r) : r[i] = t[i]
      /\ \A i \in 1..Len(s) : s[i] = t[Len(r) + i]
  BY DEF Split
<1>4. \A i \in 1..Len(more) : more[i] = t[i]
  <2> TAKE i \in 1..Len(more)
  <2>1. CASE i \in 1..Len(r)
    BY <1>1, <1>3, <2>1
  <2>2. CASE i \notin 1..Len(r)
    <3>1. PICK j \in 1..n : i = Len(r) + j
      <4>1. i - Len(r) \in 1..n /\ i = Len(r) + (i - Len(r))
        BY <1>1, <2>2
      <4> QED BY <4>1
    <3>2. j \in 1..Len(s)
      OBVIOUS
    <3> QED BY <1>1, <1>3, <3>1, <3>2
  <2> QED BY <2>1, <2>2
<1>5. \A i \in 1..Len(rest) : rest[i] = t[Len(more) + i]
  <2> TAKE i \in 1..Len(rest)
  <2>1. i \in 1..(Len(s) - n) /\ n + i \in 1..Len(s) /\ Len(r) + (n + i) = Len(more) + i
    BY <1>1, <1>2
  <2>2. rest[i] = s[n + i] /\ s[n + i] = t[Len(r) + (n + i)]
    BY <1>2, <1>3, <2>1, Zenon
  <2> QED BY <2>1, <2>2
<1>6. Len(more) + Len(rest) = Len(t) /\ Len(more) <= Len(t) /\ Len(r) \in 0..Len(more)
  <2>1. /\ Len(r) \in Nat /\ Len(s) \in Nat /\ Len(t) \in Nat /\ n \in 0..Len(s)
        /\ Len(more) = Len(r) + n /\ Len(rest) = Len(s) - n /\ Len(r) + Len(s) = Len(t)
    BY <1>1, <1>2, <1>3
  <2> QED BY ONLY <2>1, SMTT(30)
<1>7. rest = <<>> <=> Len(rest) = 0
  BY <1>2, EmptySeq
<1>8. Len(rest) = 0 <=> Len(more) = Len(t)
  <2>1. Len(rest) \in Int /\ Len(more) \in Int /\ Len(t) \in Int
    BY <1>1, <1>2
  <2> QED BY ONLY <1>6, <2>1
<1>9. Split(more, rest, t) /\ Begins(t, more)
  BY <1>4, <1>5, <1>6, Zenon DEF Split, Begins
<1> QED BY <1>1, <1>6, <1>7, <1>8, <1>9, Zenon DEF more, rest


\* The context of a new connection.
LEMMA NewCtxClean == Between(NewCtx) /\ Clean(NewCtx)
<1>1. NewCtx \in Ctx
  BY ParseAssumption DEF NewCtx, Ctx, Running
<1>2. Clean(NewCtx) /\ NewCtx.end = BufSize
  BY Zenon DEF NewCtx, Clean
<1>3. Len(NewCtx.recv) = 0
  BY <1>2 DEF Clean
<1> QED BY <1>1, <1>2, <1>3, ParseAssumption DEF Between, Clean

\* The invariant at the start.
LEMMA AnswersInvInit ==
  ASSUME AnswersInit
  PROVE  AnswersInv
<1>1. Between(ctx) /\ Clean(ctx)
  BY NewCtxClean DEF AnswersInit
<1>2. AnswersTypeOK
  <2>1. regex \in BOOLEAN /\ stale = FALSE /\ stream = <<>>
    BY Zenon DEF AnswersInit
  <2>2. conn = "none" /\ verdict = "none" /\ answer = NoAnswer
    BY DEF AnswersInit
  <2>3. stale \in BOOLEAN
    BY <2>1, Zenon
  <2>4. stream \in Seq(Chars)
    BY <2>1
  <2> QED BY <1>1, <2>1, <2>2, <2>3, <2>4, Zenon DEF AnswersTypeOK
<1> QED BY <1>1, <1>2 DEF AnswersInit, AnswersInv, VerdictIsReference, AnswerIsJudged, JudgedIsRead

\* A check that ends without a verdict.
LEMMA FailedKeeps ==
  ASSUME AnswersInv, conn \in {"open", "sent"}, NEW error, Failed(error)
  PROVE  AnswersInv'
<1>1. stream \in Seq(Chars) /\ Between(ctx) /\ verdict = "none" /\ AnswersTypeOK
  <2>1. AnswersTypeOK /\ verdict = "none"
    BY DEF AnswersInv
  <2> QED BY <2>1 DEF AnswersTypeOK
<1>2. /\ conn' \in {"kept", "none"} /\ stream' \in Seq(Chars)
      /\ Between(ctx') /\ Clean(ctx')
  <2>1. Cleaned(error, stream, ctx)
    BY DEF Failed
  <2> QED BY <1>1, <2>1, CleanedClean, Zenon
<1>3. UNCHANGED <<regex, answer, stale, verdict>>
  BY DEF Failed
<1>4. AnswersTypeOK'
  BY <1>1, <1>2, <1>3 DEF AnswersTypeOK
<1> QED BY <1>1, <1>2, <1>3, <1>4 DEF AnswersInv, VerdictIsReference, AnswerIsJudged, JudgedIsRead

\* A check that begins.
LEMMA ConnectKeeps ==
  ASSUME AnswersInv, connect_handler
  PROVE  AnswersInv'
<1>1. Between(ctx) /\ Clean(ctx) /\ stream \in Seq(Chars) /\ regex \in BOOLEAN
  BY DEF AnswersInv, AnswersTypeOK, connect_handler
<1>2. /\ conn' \in {"open", "none"} /\ stream' \in Seq(Chars)
      /\ ctx' = ctx \/ ctx' = http_reinit(ctx)
  <2>1. <<>> \in Seq(Chars)
    OBVIOUS
  <2> QED BY <1>1, <2>1 DEF connect_handler
<1>3. Between(ctx') /\ Clean(ctx')
  BY <1>1, <1>2, ReinitClean
<1>4. answer' = NoAnswer /\ stale' = FALSE /\ verdict' = "none" /\ regex' = regex
  BY DEF connect_handler
<1>5. AnswersTypeOK'
  BY <1>1, <1>2, <1>3, <1>4 DEF AnswersTypeOK
<1> QED BY <1>2, <1>3, <1>4, <1>5 DEF AnswersInv, VerdictIsReference, AnswerIsJudged, JudgedIsRead

\* What comes between two checks.
LEMMA DiscardKeeps ==
  ASSUME AnswersInv, discard_handler
  PROVE  AnswersInv'
<1>1. Between(ctx) /\ Clean(ctx) /\ stream \in Seq(Chars) /\ AnswersTypeOK /\ conn = "kept"
  BY DEF AnswersInv, AnswersTypeOK, discard_handler
<1>2. UNCHANGED <<regex, answer, stale, verdict>>
  BY DEF discard_handler
<1>3. CASE /\ \E n \in 1..Len(stream) : stream' = SubSeq(stream, n + 1, Len(stream))
           /\ UNCHANGED <<conn, requests, ctx>>
  <2>1. stream' \in Seq(Chars) /\ stream # <<>>
    BY <1>1, <1>3
  <2>2. AnswersTypeOK'
    BY <1>1, <1>2, <1>3, <2>1 DEF AnswersTypeOK
  <2>3. JudgedIsRead'
    BY <1>1, <1>2, <1>3, <2>1 DEF AnswersInv, JudgedIsRead, Clear
  <2>4. VerdictIsReference'
    BY <1>2 DEF AnswersInv, VerdictIsReference, Clear
  <2> QED BY <1>1, <1>3, <2>2, <2>3, <2>4 DEF AnswersInv, AnswerIsJudged
<1>4. CASE Cleaned(TRUE, <<>>, ctx)
  <2>1. conn' = "none" /\ stream' \in Seq(Chars) /\ Between(ctx') /\ Clean(ctx')
    <3>1. conn' = "none" /\ stream' = <<>>
      BY <1>4 DEF Cleaned
    <3>2. Between(ctx') /\ Clean(ctx')
      BY <1>1, <1>4, ReinitClean DEF Cleaned
    <3> QED BY <3>1, <3>2
  <2>2. AnswersTypeOK'
    BY <1>1, <1>2, <2>1 DEF AnswersTypeOK
  <2>3. VerdictIsReference'
    BY <1>2 DEF AnswersInv, VerdictIsReference, Clear
  <2> QED BY <2>1, <2>2, <2>3 DEF AnswersInv, AnswerIsJudged, JudgedIsRead
<1> QED BY <1>3, <1>4 DEF discard_handler


\* A request is sent over a connection with nothing to come.
LEMMA FirstFollows ==
  ASSUME NEW c, Between(c), Clean(c), NEW t \in Seq(Chars)
  PROVE  Split(c.recv, t, t) /\ Len(c.recv) = 0 /\ Follows(c, 0, t)
<1>1. c.recv = <<>> /\ Len(<<>>) = 0
  BY DEF Clean
<1>2. Len(c.recv) = 0
  BY <1>1
<1>3. Split(<<>>, t, t)
  BY DEF Split
<1>4. /\ Reached(Scan(Whole(t))[0], 0, "start", 0, 0, 0)
      /\ Scan(Whole(t))[0].stop = 0
  <2>1. Reached(Scan(Whole(t))[0], 0, "start", 0, 0, 0) /\ Ready(Whole(t)) /\ Whole(t).pos = 0
    BY WholeScan
  <2>2. Scan(Whole(t))[0] = Whole(t)
    BY <2>1, ScanStep, ReadyScannable DEF Scannable
  <2>3. Whole(t).stop = 0
    BY DEF Whole, NewCtx
  <2> QED BY <2>1, <2>2, <2>3
<1>5. Follows(c, 0, t)
  BY <1>4 DEF Follows, Same, Reached, Clean, Running
<1> QED BY <1>1, <1>2, <1>3, <1>5

\* A request is sent.
LEMMA SendKeeps ==
  ASSUME AnswersInv, send_handler
  PROVE  AnswersInv'
<1>1. /\ Between(ctx) /\ Clean(ctx) /\ stream \in Seq(Chars) /\ regex \in BOOLEAN
      /\ verdict = "none" /\ conn = "open"
  BY DEF AnswersInv, AnswersTypeOK, send_handler
<1>2. PICK a \in Answers : answer' = a /\ stream' = stream \o a.text
  BY DEF send_handler
<1>3. conn' = "sent" /\ stale' = (stream # <<>>) /\ UNCHANGED <<regex, ctx, verdict>>
  BY DEF send_handler
<1>4. a.text \in Seq(Chars)
  BY AnswerText
<1>5. stream' \in Seq(Chars) /\ stale' \in BOOLEAN
  BY <1>1, <1>2, <1>3, <1>4
<1>6. AnswersTypeOK'
  <2>1. answer' \in Answers \cup {NoAnswer} /\ regex' \in BOOLEAN /\ verdict' = "none"
    BY <1>1, <1>2, <1>3
  <2>2. Between(ctx')
    BY <1>1, <1>3
  <2> QED BY <1>3, <1>5, <2>1, <2>2 DEF AnswersTypeOK
<1>7. ASSUME ~stale' PROVE stream' = a.text
  <2>1. stream = <<>>
    BY <1>3, <1>7
  <2> QED BY <1>2, <1>4, <2>1, ConcatEmptySeq
<1>8. ASSUME ~stale'
      PROVE  /\ Split(ctx'.recv, stream', answer'.text) /\ ctx'.old = FALSE
             /\ Follows(ctx', Len(ctx'.recv), answer'.text)
  <2>1. Split(ctx.recv, a.text, a.text) /\ Len(ctx.recv) = 0 /\ Follows(ctx, 0, a.text)
    BY <1>1, <1>4, FirstFollows
  <2>2. ctx.old = FALSE
    BY <1>1 DEF Clean
  <2> QED BY <1>2, <1>3, <1>7, <1>8, <2>1, <2>2
<1>9. AnswerIsJudged'
  <2> SUFFICES ASSUME stream' = <<>>, ~stale', a.whole PROVE FALSE
    BY <1>2 DEF AnswerIsJudged, Clear
  <2>1. a.text = <<>> /\ Len(a.text) = 0
    BY <1>4, <1>7
  <2>2. CASE \E text \in OtherTexts : a = Garbled(text)
    BY <2>2, OtherFields
  <2>3. CASE \E code, length, body : IsResponse(code, length, body) /\ a = Answer(code, length, body)
    <3>1. PICK code, length, body : IsResponse(code, length, body) /\ a = Answer(code, length, body)
      BY <2>3
    <3>2. a.text = Text(code, length, body)
      BY <3>1, ResponseFields
    <3>3. HeaderLen(length) <= Len(a.text)
      <4>1. 0 \in 0..Len(a.text)
        BY <2>1
      <4> QED BY <3>1, <3>2, <4>1, ResponseScan
    <3> QED BY <2>1, <3>3 DEF HeaderLen
  <2> QED BY <2>2, <2>3, AnswerKinds
<1>10. VerdictIsReference' /\ JudgedIsRead'
  BY <1>1, <1>3 DEF VerdictIsReference, JudgedIsRead
<1> QED BY <1>1, <1>2, <1>3, <1>6, <1>8, <1>9, <1>10 DEF AnswersInv


\* What recv_handler has before it parses.
LEMMA ReceivedFollows ==
  ASSUME NEW c, Between(c), NEW s \in Seq(Chars), NEW n \in 0..Len(s), Fits(c, n),
         NEW t \in Seq(Chars), Len(t) < BufSize, Split(c.recv, s, t), ~c.old,
         Follows(c, Len(c.recv), t)
  PROVE  LET got == Received(c, SubSeq(s, 1, n))
             rest == SubSeq(s, n + 1, Len(s))
         IN /\ Split(got.recv, rest, t) /\ Begins(t, got.recv)
            /\ Len(c.recv) \in 0..Len(got.recv) /\ Len(got.recv) = Len(c.recv) + n
            /\ Follows(got, Len(c.recv), t) /\ ~got.old /\ got.pos = c.pos
            /\ rest = <<>> <=> Len(got.recv) = Len(t)
<1> DEFINE got == Received(c, SubSeq(s, 1, n))
           rest == SubSeq(s, n + 1, Len(s))
           data == SubSeq(s, 1, n)
           more == c.recv \o data
<1>1. data \in Seq(Chars) /\ Len(data) = n
  OBVIOUS
<1>2. c.recv \in Seq(Chars) /\ BufSize <= c.end /\ c.end \in Nat
  BY DEF Between, Ctx
<1>3. /\ Split(more, rest, t) /\ Begins(t, more)
      /\ Len(c.recv) \in 0..Len(more) /\ Len(more) = Len(c.recv) + n
      /\ rest = <<>> <=> Len(more) = Len(t)
  <2> DEFINE After(r) ==
        LET all == r \o SubSeq(s, 1, n)
        IN /\ Split(all, rest, t) /\ Begins(t, all)
           /\ Len(r) \in 0..Len(all) /\ Len(all) = Len(r) + n
           /\ rest = <<>> <=> Len(all) = Len(t)
  <2>1. \A r \in Seq(Chars) : Split(r, s, t) => After(r)
    <3> SUFFICES ASSUME NEW r \in Seq(Chars), Split(r, s, t) PROVE After(r)
      BY Zenon
    <3> QED BY SplitMore
  <2>2. After(c.recv)
    BY <1>2, <2>1, Zenon
  <2> QED BY <2>2, Zenon
<1> HIDE DEF data, more, got, rest
<1>4. Len(c.recv) + Len(data) < c.end
  <2>1. Len(more) <= Len(t)
    BY <1>3 DEF Begins
  <2> QED BY <1>1, <1>2, <1>3, <2>1, ParseAssumption
<1>5. got = [c EXCEPT !.recv = more]
  BY <1>1, <1>4, ReceivedType DEF data, more, got
<1>6. /\ got.recv = more /\ got.pos = c.pos /\ got.state = c.state /\ got.code = c.code
      /\ got.count = c.count /\ got.start = c.start /\ got.stop = c.stop /\ got.old = c.old
  BY <1>5 DEF Between, Ctx
<1>7. Follows(got, Len(c.recv), t)
  BY <1>6 DEF Follows, Same
<1> QED BY <1>3, <1>6, <1>7 DEF got, rest


\* What has come is parsed, and the check goes on or ends.
LEMMA RecvKeeps ==
  ASSUME AnswersInv, recv_handler
  PROVE  AnswersInv'
<1>1. PICK n \in 0..Len(stream) :
        /\ Fits(ctx, n)
        /\ \E parsed \in http_parse(Received(ctx, SubSeq(stream, 1, n)), regex), closed \in BOOLEAN :
             (n > 0 \/ closed) /\ Handled(parsed, closed, SubSeq(stream, n + 1, Len(stream)))
  BY DEF recv_handler
<1> DEFINE got == Received(ctx, SubSeq(stream, 1, n))
           rest == SubSeq(stream, n + 1, Len(stream))
           t == answer.text
           Fit == ~stale /\ Len(t) < BufSize
<1>2. PICK p \in http_parse(got, regex), closed \in BOOLEAN :
        (n > 0 \/ closed) /\ Handled(p, closed, rest)
  BY <1>1
<1>3. conn = "sent" /\ UNCHANGED <<regex, answer, stale>>
  BY DEF recv_handler
<1>4. /\ AnswersTypeOK /\ answer \in Answers /\ verdict = "none"
      /\ Fit => /\ Split(ctx.recv, stream, t) /\ ctx.old = FALSE
                /\ Follows(ctx, Len(ctx.recv), t)
  BY <1>3 DEF AnswersInv
<1>5. Between(ctx) /\ stream \in Seq(Chars) /\ regex \in BOOLEAN
  BY <1>4 DEF AnswersTypeOK
<1>6. t \in Seq(Chars)
  BY <1>4, AnswerText
<1>7. rest \in Seq(Chars)
  BY <1>5
<1>8. Between(got)
  <2>1. SubSeq(stream, 1, n) \in Seq(Chars) /\ Len(SubSeq(stream, 1, n)) = n
    BY <1>5
  <2> QED BY <1>1, <1>5, <2>1, ReceivedType
<1>9. Between(p.ctx) /\ p.ctx.recv = got.recv /\ p.rc \in {"ok", "error", "again"}
  BY <1>2, <1>8, HttpParseType
<1>10. ASSUME Fit
       PROVE  /\ Split(got.recv, rest, t) /\ Begins(t, got.recv)
              /\ Len(ctx.recv) \in 0..Len(got.recv) /\ Len(got.recv) = Len(ctx.recv) + n
              /\ Follows(got, Len(ctx.recv), t) /\ ~got.old /\ got.pos = ctx.pos
              /\ rest = <<>> <=> Len(got.recv) = Len(t)
  <2>1. ~ctx.old
    BY <1>4, <1>10
  <2> QED BY <1>1, <1>4, <1>5, <1>6, <1>10, <2>1, ReceivedFollows
<1> HIDE DEF got, rest
<1>11. ASSUME Fit, n > 0 \/ p.rc # "again"
       PROVE  got.pos < Len(got.recv)
  <2>1. /\ got.pos \in Nat /\ Len(got.recv) \in Nat /\ got.pos <= Len(got.recv)
        /\ ctx.pos \in Nat /\ Len(ctx.recv) \in Nat /\ ctx.pos <= Len(ctx.recv)
    BY ONLY <1>5, <1>8, BetweenCounts
  <2>2. CASE n > 0
    <3>1. Len(got.recv) = Len(ctx.recv) + n /\ got.pos = ctx.pos
      BY <1>10, <1>11
    <3> QED BY ONLY <2>1, <2>2, <3>1, n \in Int
  <2>3. CASE p.rc # "again"
    <3>1. got.pos # Len(got.recv)
      BY <1>2, <1>8, <2>3, HttpParseCases
    <3> QED BY <2>1, <3>1
  <2> QED BY <1>11, <2>2, <2>3
<1>12. ASSUME Fit, n > 0 \/ p.rc # "again"
       PROVE  /\ p.rc = "again" => Follows(p.ctx, Len(got.recv), t) /\ ~p.ctx.old
              /\ (regex => answer.sized \/ ~answer.alive) =>
                   /\ p.rc = "again" => ~answer.whole \/ Len(got.recv) < Len(t)
                   /\ p.rc # "again" =>
                        (p.rc = "ok" <=> answer.alive /\ (regex => answer.matches))
                   /\ p.rc # "again" /\ regex /\ answer.alive => Len(got.recv) = Len(t)
  <2>1. got.pos < Len(got.recv)
    BY <1>11, <1>12
  <2> QED BY <1>2, <1>4, <1>5, <1>8, <1>10, <1>12, <2>1, AnswerJudged, Zenon
<1>13. CASE p.rc = "again" /\ ~closed
  <2>1. n > 0 /\ stream' = rest /\ ctx' = p.ctx /\ conn' = conn /\ verdict' = verdict
    BY <1>2, <1>13 DEF Handled
  <2>2. AnswersTypeOK'
    <3>1. Between(ctx') /\ stream' \in Seq(Chars)
      BY <1>7, <1>9, <2>1
    <3> QED BY <1>3, <1>4, <2>1, <3>1 DEF AnswersTypeOK
  <2>3. ASSUME Fit
        PROVE  /\ Split(ctx'.recv, stream', t) /\ ctx'.old = FALSE
               /\ Follows(ctx', Len(ctx'.recv), t)
    <3>1. Split(got.recv, rest, t) /\ Follows(p.ctx, Len(got.recv), t) /\ ~p.ctx.old
      BY <1>10, <1>12, <1>13, <2>1, <2>3
    <3>2. p.ctx.old \in BOOLEAN
      BY <1>9 DEF Between, Ctx
    <3> QED BY <1>9, <2>1, <3>1, <3>2
  <2>4. AnswerIsJudged'
    <3> SUFFICES ASSUME stream' = <<>>, Fit, regex => answer.sized \/ ~answer.alive
                 PROVE  ~answer.whole
      BY <1>3 DEF AnswerIsJudged, Clear
    <3>1. Len(got.recv) = Len(t) /\ Len(t) \in Nat
      BY <1>6, <1>10, <2>1, SMTT(30)
    <3>2. ~(Len(got.recv) < Len(t))
      BY ONLY <3>1
    <3> QED BY <1>12, <1>13, <2>1, <3>2, Zenon
  <2>5. VerdictIsReference' /\ JudgedIsRead'
    BY <1>3, <1>4, <2>1 DEF VerdictIsReference, JudgedIsRead
  <2> HIDE DEF Fit
  <2> QED BY <1>3, <1>4, <2>1, <2>2, <2>3, <2>4, <2>5 DEF AnswersInv, Fit
<1>14. CASE p.rc = "again" /\ closed
  <2>1. Cleaned(TRUE, rest, p.ctx) /\ verdict' = verdict
    BY <1>2, <1>14 DEF Handled
  <2>2. conn' \in {"kept", "none"} /\ stream' \in Seq(Chars) /\ Between(ctx') /\ Clean(ctx')
    BY <1>7, <1>9, <2>1, CleanedClean, Zenon
  <2>3. AnswersTypeOK'
    BY <1>3, <1>4, <2>1, <2>2 DEF AnswersTypeOK
  <2> QED BY <1>4, <2>1, <2>2, <2>3 DEF AnswersInv, VerdictIsReference, AnswerIsJudged, JudgedIsRead
<1>15. CASE p.rc # "again"
  <2>1. Cleaned(p.error, rest, p.ctx) /\ verdict' = p.rc
    BY <1>2, <1>15 DEF Handled
  <2>2. /\ conn' \in {"kept", "none"} /\ stream' \in Seq(Chars) /\ Between(ctx') /\ Clean(ctx')
        /\ conn' = "kept" => stream' = rest
    BY <1>7, <1>9, <2>1, CleanedClean, Zenon
  <2>3. AnswersTypeOK'
    BY <1>3, <1>4, <1>9, <1>15, <2>1, <2>2 DEF AnswersTypeOK
  <2>4. VerdictIsReference'
    <3> SUFFICES ASSUME Fit, regex => answer.sized \/ ~answer.alive
                 PROVE  p.rc = "ok" <=> answer.alive /\ (regex => answer.matches)
      BY <1>3, <2>1 DEF VerdictIsReference, Clear
    <3> QED BY <1>12, <1>15, Zenon
  <2>5. JudgedIsRead'
    <3> SUFFICES ASSUME Fit, regex => answer.sized \/ ~answer.alive, regex, answer.alive
                 PROVE  rest = <<>>
      BY <1>3, <2>2 DEF JudgedIsRead, Clear
    <3> QED BY <1>10, <1>12, <1>15, Zenon
  <2> QED BY <2>2, <2>3, <2>4, <2>5 DEF AnswersInv, AnswerIsJudged
<1> QED BY <1>13, <1>14, <1>15


-----------------------------------------------------------------------------
(***************************************************************************)
(* The theorems about the parser.                                          *)
(***************************************************************************)
\* Every handler keeps the invariant.
LEMMA AnswersInvStep ==
  ASSUME AnswersInv, [AnswersNext]_avars
  PROVE  AnswersInv'
<1>1. CASE UNCHANGED avars
  <2>1. UNCHANGED <<regex, conn, ctx, stream, answer, stale, verdict>>
    BY <1>1 DEF avars, link
  <2> QED BY <2>1, Zenon DEF AnswersInv, AnswersTypeOK, Between, Clean, VerdictIsReference,
                             AnswerIsJudged, JudgedIsRead, Clear
<1>2. CASE send_fail
  BY <1>2, FailedKeeps DEF send_fail
<1>3. CASE recv_fail
  BY <1>3, FailedKeeps DEF recv_fail
<1>4. CASE timeout_handler
  BY <1>4, FailedKeeps DEF timeout_handler
<1> QED BY <1>1, <1>2, <1>3, <1>4, ConnectKeeps, SendKeeps, RecvKeeps, DiscardKeeps
        DEF AnswersNext

\* The invariant, for any answers of the assumed form, any buffer, any piece
\* sizes and any number of checks.
THEOREM AnswersInvariant == AnswersSpec => []AnswersInv
<1>1. AnswersInit => AnswersInv
  BY AnswersInvInit
<1>2. AnswersInv /\ [AnswersNext]_avars => AnswersInv'
  BY AnswersInvStep
<1> QED BY <1>1, <1>2, PTL DEF AnswersSpec

\* The verdict of http_parse on an answer that is clear does not depend on the
\* pieces in which recv_handler has read it: it is the verdict on the answer as
\* a whole, its class of code and the match in its body.
THEOREM VerdictIndependent == AnswersSpec => []VerdictIsReference
BY AnswersInvariant, PTL DEF AnswersInv

\* http_parse returns NGX_AGAIN for a clear response only as long as some of it
\* is still to come, so that no check waits for its timeout after all has.
THEOREM NoNeedlessWait == AnswersSpec => []AnswerIsJudged
BY AnswersInvariant, PTL DEF AnswersInv

\* The connection that clean_event keeps after a verdict on a body brings
\* nothing of that answer to the next check.
THEOREM KeptIsRead == AnswersSpec => []JudgedIsRead
BY AnswersInvariant, PTL DEF AnswersInv
=============================================================================
