------------------------- MODULE MCRedirectPipeline -------------------------
(***************************************************************************)
(* Chunks for checking RedirectPipeline with TLC.  They are the shapes     *)
(* `_listen` tells apart: a whole line, an open line, a chunk that ends a  *)
(* line and opens the next one, a lone newline, a '\r\n' in one piece or   *)
(* cut in two, and half of a character.                                    *)
(***************************************************************************)
EXTENDS RedirectPipeline

NLChar == "nl"
CRChar == "cr"
BadChar == "bad"

\* For two DUTs at once: whole lines against open lines.
FewChunks == {<<"a", NLChar>>, <<"b">>}

\* For one DUT: every shape.
AllChunks ==
    {<<"a", NLChar>>, <<"b">>, <<NLChar, "a">>, <<NLChar>>,
     <<"a", CRChar, NLChar>>, <<"b", BadChar>>, <<BadChar>>}

=============================================================================
