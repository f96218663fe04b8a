--------------------------- MODULE MCHttpAnswers ---------------------------
(***************************************************************************)
(* HttpAnswers for model checking: the answers of the peer.                *)
(***************************************************************************)
EXTENDS HttpAnswers

Response(code, length, body) == [code |-> code, length |-> length, body |-> body]

OK200 == <<"2", "0", "0">>

\* A body that matches and one that does not, a code that is not alive, no
\* length, a length that cannot be read, and a longer body than announced.
MCResponses ==
  {Response(OK200, "clen2", <<"x", "m">>),
   Response(OK200, "clen2", <<"x", "x">>),
   Response(<<"5", "0", "3">>, "clen2", <<"x", "m">>),
   Response(OK200, "none", <<"x", "m">>),
   Response(OK200, "clen_without_blank", <<"x", "m">>),
   Response(OK200, "clen2", <<"x", "m", "x", "x">>)}

\* A code that is no number, and an answer that ends in its status line.
MCOtherTexts ==
  {<<"H", "T", "T", "P", "/", "1", ".", "1", "SP", "2", "x">>,
   <<"H", "T", "T", "P", "/", "1", ".", "1", "SP", "2">>}
=============================================================================
