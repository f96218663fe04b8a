---------------------------- MODULE HttpAnswers ----------------------------
(***************************************************************************)
(* The http checks of one worker and the answers of the peer: what the     *)
(* parser makes of bytes that come in any pieces, over connections that    *)
(* are kept between checks.  HttpUpstreamCheck leaves the outcome of a     *)
(* check open and treats the workers, their timers and their claims; here  *)
(* a handler is one step.                                                  *)
(*                                                                         *)
(* stream is what the peer has answered, or will answer, on the connection *)
(* and the worker has not read.  Bytes that are not read when a check ends *)
(* stay in it as long as the connection is kept.                           *)
(***************************************************************************)
EXTENDS HttpParse, StatusHistory

CONSTANTS
  Responses,         \* the http responses of the peer: code, length and body
  OtherTexts,        \* what else it may send, in which no header ends
  KeepaliveRequests  \* check_keepalive_requests

ASSUME AnswersAssumption ==
  /\ KeepaliveRequests \in Nat \ {0}
  /\ \A r \in Responses : /\ r.code \in [1..3 -> DOMAIN Digits]
                         /\ r.length \in DOMAIN Lengths \cup {"none"}
                         /\ r.body \in Seq(Chars)
  /\ \A text \in OtherTexts : /\ text \in Seq(Chars)
                             /\ ParsedHeader([NewCtx EXCEPT !.recv = text]).rc # "ok"

VARIABLES
  regex,     \* is check_http_expect_body set
  conn,      \* "none", "open" (connect_done), "sent" (send_done) or "kept"
  requests,  \* requests sent over the connection
  ctx,       \* check_data
  stream,    \* the bytes to come on the connection
  answer,    \* the answer to the request sent last
  stale,     \* bytes of an earlier answer were still to come then
  verdict    \* what the parser said of the answer, if it did

link == <<conn, requests, ctx, stream>>
avars == <<hvars, link, regex, answer, stale, verdict>>

-----------------------------------------------------------------------------
(***************************************************************************)
(* Answers.                                                                *)
(***************************************************************************)
\* An answer as servers write it; length is one of the Content-Length headers
\* or "none", and the "m" in the header is text the expression matches too.
Text(code, length, body) ==
  <<"H", "T", "T", "P", "/", "1", ".", "1", "SP">> \o code \o <<"SP", "m", "CR", "LF">>
  \o (IF length = "none" THEN <<>> ELSE <<length, "CR", "LF">>)
  \o <<"CR", "LF">> \o body

Answer(code, length, body) ==
  [text |-> Text(code, length, body), whole |-> TRUE,
   sized |-> length = "clen2" /\ Len(body) = 2,
   alive |-> Digits[code[1]] \in StatusAlive,
   matches |-> \E i \in DOMAIN body : body[i] = "m"]

\* An answer that is not an http response, or not all of one.
Garbled(text) == [text |-> text, whole |-> FALSE, sized |-> FALSE, alive |-> FALSE,
                  matches |-> FALSE]

Answers == {Answer(r.code, r.length, r.body) : r \in Responses}
           \cup {Garbled(text) : text \in OtherTexts}

NoAnswer == Garbled(<<>>)

AnswersInit ==
  /\ HistoryInit
  /\ regex \in BOOLEAN
  /\ conn = "none" /\ requests = 0 /\ ctx = NewCtx /\ stream = <<>>
  /\ answer = NoAnswer /\ stale = FALSE /\ verdict = "none"

-----------------------------------------------------------------------------
\* The connection as clean_event leaves it, with rest still to come on it, and
\* the context as reinit does.
Cleaned(error, rest, new) ==
  LET keep == ~error /\ requests < KeepaliveRequests
  IN /\ conn' = IF keep THEN "kept" ELSE "none"
     /\ requests' = IF keep THEN requests ELSE 0
     /\ stream' = IF keep THEN rest ELSE <<>>
     /\ ctx' = http_reinit(new)

\* A check ends without a verdict on an answer: status_update, clean_event.
Failed(error) ==
  /\ checked(FALSE)
  /\ Cleaned(error, stream, ctx)
  /\ UNCHANGED <<regex, answer, stale, verdict>>

\* connect_handler: a kept connection that still answers is used again, any
\* other is replaced, which may fail.
connect_handler ==
  /\ conn \in {"none", "kept"}
  /\ Len(results) < MaxChecks
  /\ answer' = NoAnswer /\ stale' = FALSE /\ verdict' = "none"
  /\ \/ /\ conn = "kept" /\ conn' = "open"
        /\ UNCHANGED <<requests, stream, hvars, ctx>>
     \/ /\ conn' = "open" /\ requests' = 0 /\ stream' = <<>>
        /\ UNCHANGED <<hvars, ctx>>
     \/ /\ checked(FALSE)
        /\ conn' = "none" /\ requests' = 0 /\ stream' = <<>> /\ ctx' = http_reinit(ctx)
  /\ UNCHANGED regex

\* The request is sent, and the peer will answer it.
send_handler ==
  /\ conn = "open"
  /\ conn' = "sent" /\ requests' = requests + 1
  /\ \E a \in Answers : answer' = a /\ stream' = stream \o a.text
  /\ stale' = (stream # <<>>)
  /\ UNCHANGED <<hvars, regex, ctx, verdict>>

\* Sending fails, which marks the connection, or its preparation does.
send_fail ==
  /\ conn = "open"
  /\ \E error \in BOOLEAN : Failed(error)

\* The end of recv_handler: NGX_AGAIN is a failure only when the peer has
\* closed.
Handled(parsed, closed, rest) ==
  \/ /\ parsed.rc = "again" /\ ~closed
     /\ stream' = rest /\ ctx' = parsed.ctx
     /\ UNCHANGED <<hvars, conn, requests, verdict>>
  \/ /\ parsed.rc = "again" /\ closed
     /\ checked(FALSE) /\ Cleaned(TRUE, rest, parsed.ctx)
     /\ UNCHANGED verdict
  \/ /\ parsed.rc # "again"
     /\ checked(parsed.rc = "ok") /\ Cleaned(parsed.error, rest, parsed.ctx)
     /\ verdict' = parsed.rc

\* recv_handler reads n more bytes, the peer may have closed, and what has come
\* is parsed.
recv_handler ==
  /\ conn = "sent"
  /\ \E n \in 0..Len(stream) :
       LET rest == SubSeq(stream, n + 1, Len(stream))
           got == Received(ctx, SubSeq(stream, 1, n))
       IN /\ Fits(ctx, n)
          /\ \E parsed \in http_parse(got, regex), closed \in BOOLEAN :
               /\ n > 0 \/ closed
               /\ Handled(parsed, closed, rest)
  /\ UNCHANGED <<regex, answer, stale>>

\* A read fails and marks the connection; before the request is sent, only the
\* re-arming of the read event can fail.
recv_fail ==
  /\ conn \in {"open", "sent"}
  /\ Failed(conn = "sent")

\* check_timeout_ev expires.
timeout_handler ==
  /\ conn \in {"open", "sent"}
  /\ Failed(TRUE)

\* discard_handler: what comes on a kept connection is thrown away, and a
\* connection that was closed is cleaned up.
discard_handler ==
  /\ conn = "kept"
  /\ \/ /\ \E n \in 1..Len(stream) : stream' = SubSeq(stream, n + 1, Len(stream))
        /\ UNCHANGED <<conn, requests, ctx>>
     \/ Cleaned(TRUE, <<>>, ctx)
  /\ UNCHANGED <<hvars, regex, answer, stale, verdict>>

AnswersNext ==
  \/ connect_handler
  \/ send_handler
  \/ send_fail
  \/ recv_handler
  \/ recv_fail
  \/ timeout_handler
  \/ discard_handler

AnswersSpec == AnswersInit /\ [][AnswersNext]_avars

-----------------------------------------------------------------------------
\* The answer to the request can be judged on its own: it fits the first buffer
\* of recv_handler, gives its length where a body is expected, and no bytes of
\* an earlier answer were left when the request was sent.
Clear == ~stale /\ Len(answer.text) < BufSize /\ (regex => answer.sized \/ ~answer.alive)

\* What http_parse says of an answer does not depend on the pieces it comes in:
\* it is the verdict on the answer as a whole.
VerdictIsReference ==
  verdict # "none" /\ Clear =>
    (verdict = "ok" <=> answer.alive /\ (regex => answer.matches))

\* No check waits for its timeout when all of the answer has come: http_parse
\* returns NGX_AGAIN only for an answer that is not complete.
AnswerIsJudged == conn = "sent" /\ stream = <<>> /\ Clear => ~answer.whole

\* A check that judges the body of an answer has read all of it, so that a kept
\* connection brings nothing of it to the next check.
JudgedIsRead ==
  conn = "kept" /\ verdict # "none" /\ Clear /\ regex /\ answer.alive => stream = <<>>
=============================================================================
