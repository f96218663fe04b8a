----------------------------- MODULE HttpParse -----------------------------
(***************************************************************************)
(* The answer to an http check: the buffer it is received in, the parser   *)
(* of its first lines (ngx_upstream_check_http_parse_status_line) and the  *)
(* verdict on it (ngx_http_upstream_check_http_parse).  Both are called    *)
(* again each time more of the answer has come, on what is kept in the     *)
(* context ctx of the check.                                               *)
(*                                                                         *)
(* An answer is a sequence of characters.  The parser tells apart the      *)
(* letters of HTTP, digits, '.', the blank ("SP"), CR and LF; any other    *)
(* character is "x".  Some stand for more than one: the Content-Length     *)
(* headers, and "m" for text that the regular expression of the check      *)
(* matches.                                                                *)
(***************************************************************************)
EXTENDS Integers, Sequences

CONSTANTS
  BufSize,      \* ngx_pagesize / 2, the first size of the receive buffer
  StatusAlive   \* the classes of status codes that count as alive (2 for 2xx)

ASSUME ParseAssumption ==
  /\ BufSize \in Nat \ {0}
  /\ StatusAlive \subseteq Nat

Digits == [c \in {"0", "1", "2", "3", "4", "5"} |->
             CASE c = "0" -> 0 [] c = "1" -> 1 [] c = "2" -> 2
               [] c = "3" -> 3 [] c = "4" -> 4 [] OTHER -> 5]
IsDigit(c) == c \in DOMAIN Digits

\* Content-Length headers and what ngx_atoi makes of them.  It starts to read
\* behind the blank that it expects after the colon; without that blank there
\* is nothing to read, and NGX_ERROR is the largest unsigned number.
Huge == 1000
Lengths == [c \in {"clen0", "clen2", "clen_without_blank"} |->
              CASE c = "clen0" -> 0 [] c = "clen2" -> 2 [] OTHER -> Huge]

Chars == {"H", "T", "P", "/", ".", "SP", "CR", "LF", "m", "x"}
         \cup DOMAIN Digits \cup DOMAIN Lengths

-----------------------------------------------------------------------------
(***************************************************************************)
(* The context between two calls.  recv is what the buffer holds, pos how  *)
(* much of it the parser is done with and end its size.  start says where  *)
(* the status code was found, stop where the header ends; old says that    *)
(* the buffer was replaced between the two.                                *)
(***************************************************************************)
Reset(ctx) ==
  [ctx EXCEPT !.recv = <<>>, !.pos = 0, !.state = "start", !.code = 0,
              !.count = 0, !.start = 0, !.stop = 0, !.old = FALSE]

\* http_init: nothing is allocated until the first read event.
NewCtx == [recv |-> <<>>, pos |-> 0, end |-> BufSize, state |-> "start", code |-> 0,
           count |-> 0, start |-> 0, stop |-> 0, old |-> FALSE]

\* Variant with a bug: the parser's state is left as it was.
http_reinit_keep_state(ctx) ==
  [ctx EXCEPT !.recv = <<>>, !.pos = 0, !.code = 0, !.count = 0,
              !.start = 0, !.stop = 0, !.old = FALSE]

\* http_reinit: the buffer keeps its size.
http_reinit(ctx) == Reset(ctx)

Doublings == {1, 2, 4, 8}   \* bound: the buffer is not enlarged further

\* The bound as a guard: n more bytes fit after as many doublings.
Fits(ctx, n) == \E k \in Doublings : Len(ctx.recv) + n < ctx.end * k

\* The loop of recv_handler that reads what has come.  A full buffer is
\* replaced by one of twice the size, before the next read: what it holds is
\* copied, and the parser's position goes back to the start.
Received(ctx, data) ==
  LET all == ctx.recv \o data
      size == ctx.end * CHOOSE k \in Doublings :
                /\ Len(all) < ctx.end * k
                /\ \A j \in Doublings : Len(all) < ctx.end * j => k <= j
      grown == size # ctx.end
  IN [ctx EXCEPT !.recv = all, !.end = size,
                 !.pos = IF grown THEN 0 ELSE @,
                 !.old = @ \/ (grown /\ ctx.count = 3 /\ ctx.state # "receive_body")]

-----------------------------------------------------------------------------
\* What a character does to the state of the parser; code, count, start and
\* stop change only where they are assigned.
Expect(c, set, next) == IF c \in set THEN next ELSE "error"

NextState(st, c, count) ==
  CASE st = "start" -> Expect(c, {"H"}, "H")
    [] st = "H" -> Expect(c, {"T"}, "HT")
    [] st = "HT" -> Expect(c, {"T"}, "HTT")
    [] st = "HTT" -> Expect(c, {"P"}, "HTTP")
    [] st = "HTTP" -> Expect(c, {"/"}, "first_major_digit")
    [] st = "first_major_digit" -> Expect(c, DOMAIN Digits \ {"0"}, "major_digit")
    [] st = "major_digit" -> IF c = "." THEN "first_minor_digit"
                             ELSE Expect(c, DOMAIN Digits, st)
    [] st = "first_minor_digit" -> Expect(c, DOMAIN Digits, "minor_digit")
    [] st = "minor_digit" -> IF c = "SP" THEN "status" ELSE Expect(c, DOMAIN Digits, st)
    [] st = "status" -> IF c = "SP" THEN st
                        ELSE Expect(c, DOMAIN Digits,
                                    IF count = 2 THEN "space_after_status" ELSE st)
    [] st = "space_after_status" -> CASE c \in {"SP", "."} -> "status_text"
                                      [] c = "CR" -> "almost_done"
                                      [] c = "LF" -> "done"
                                      [] OTHER -> "error"
    [] st = "status_text" -> CASE c = "CR" -> "lf" [] c = "LF" -> "done" [] OTHER -> st
    [] st = "lf" -> Expect(c, {"LF"}, "cr")
    [] st = "cr" -> IF c = "CR" THEN "almost_done" ELSE "status_text"
    [] st = "almost_done" -> Expect(c, {"LF"}, "done")

\* One turn of the parser's loop.
ParseChar(ctx, c) ==
  LET p == ctx.pos + 1
      next == NextState(ctx.state, c, ctx.count)
      digit == ctx.state = "status" /\ IsDigit(c)
  IN IF ctx.state \in {"error", "done"} THEN ctx
     ELSE [ctx EXCEPT !.pos = p, !.state = next,
             !.code = IF digit THEN @ * 10 + Digits[c] ELSE @,
             !.count = IF digit THEN @ + 1 ELSE @,
             !.start = IF digit /\ ctx.count = 2 THEN p - 2 ELSE @,
             !.stop = IF next # "done" THEN @
                      ELSE IF ctx.state = "almost_done" THEN p - 1 ELSE p]

\* The parser's loop: the context when it is done with i characters of the
\* buffer.  The loop ends with an error, or at the end of the header.
Scan(ctx) ==
  LET at[i \in ctx.pos .. Len(ctx.recv)] ==
        IF i = ctx.pos THEN ctx ELSE ParseChar(at[i - 1], ctx.recv[i])
  IN at

\* parse_status_line: NGX_ERROR, NGX_AGAIN or, with the position set to the
\* start of the body, NGX_OK.  An error ends the check, and with it the context.
ParsedHeader(ctx) ==
  LET run == Scan(ctx)[Len(ctx.recv)]
  IN IF ctx.state = "receive_body" THEN [rc |-> "ok", ctx |-> ctx]
     ELSE CASE run.state = "error" -> [rc |-> "error", ctx |-> ctx]
            [] run.state = "done" -> [rc |-> "ok", ctx |-> [run EXCEPT !.state = "receive_body"]]
            [] OTHER -> [rc |-> "again", ctx |-> run]

\* The Content-Length the search from the status code to the end of the header
\* finds, or none.  When the buffer was replaced in between, the search leaves
\* the old one and may find it or not.
ContentLength(ctx) ==
  LET at == {i \in ctx.start .. ctx.stop - 1 :
               ctx.recv[i] \in DOMAIN Lengths
               /\ \E j \in i .. ctx.stop - 1 : ctx.recv[j] = "CR"}
      found == IF at = {} THEN {}
               ELSE {Lengths[ctx.recv[CHOOSE i \in at : \A j \in at : i <= j]]}
  IN {[found |-> TRUE, len |-> n] : n \in found}
     \cup (IF found = {} \/ ctx.old THEN {[found |-> FALSE, len |-> 0]} ELSE {})

Alive(code) == code \div 100 \in StatusAlive

\* Only a parsed answer of class 2xx or 3xx leaves the connection unmarked.
MarksConnection(code) == code \div 100 \notin {2, 3}

\* Variants with a bug: the part of the body that has come is judged at once;
\* one byte more than announced is waited for.
BodyVerdicts_at_once(body, length) ==
  {IF \E i \in DOMAIN body : body[i] = "m" THEN "ok" ELSE "error"}

BodyVerdicts_one_more(body, length) ==
  {IF known /\ Len(body) <= length.len THEN "again"
   ELSE IF \E i \in DOMAIN body : body[i] = "m" THEN "ok"
   ELSE IF known THEN "error" ELSE "again" :
     known \in IF length.found THEN {TRUE} ELSE BOOLEAN}

\* The verdict on the body, with the length found or not.  found_body_len is
\* not initialised: when nothing is found it may be 1 all the same.
BodyVerdicts(body, length) ==
  {IF known /\ Len(body) < length.len THEN "again"
   ELSE IF \E i \in DOMAIN body : body[i] = "m" THEN "ok"
   ELSE IF known THEN "error" ELSE "again" :
     known \in IF length.found THEN {TRUE} ELSE BOOLEAN}

\* What may be said of an answer whose header is parsed.
Judged(ctx, regex) ==
  LET body == SubSeq(ctx.recv, ctx.pos + 1, Len(ctx.recv))
  IN CASE ~Alive(ctx.code) -> {"error"}
       [] Alive(ctx.code) /\ ~regex -> {"ok"}
       [] OTHER -> UNION {BodyVerdicts(body, l) : l \in ContentLength(ctx)}

\* http_parse: what it may return, whether it marks the connection, and the
\* context it leaves.
http_parse(ctx, regex) ==
  LET parsed == ParsedHeader(ctx)
      new == parsed.ctx
      outcome(rc, error) == [rc |-> rc, error |-> error, ctx |-> new]
  IN CASE Len(ctx.recv) = ctx.pos -> {[rc |-> "again", error |-> FALSE, ctx |-> ctx]}
       [] Len(ctx.recv) > ctx.pos /\ parsed.rc # "ok" -> {outcome(parsed.rc, FALSE)}
       [] OTHER -> {outcome(rc, MarksConnection(new.code)) : rc \in Judged(new, regex)}

=============================================================================
