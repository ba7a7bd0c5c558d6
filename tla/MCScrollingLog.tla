--------------------------- MODULE MCScrollingLog ---------------------------
(* An instance of ScrollingLog for TLC. *)
EXTENDS ScrollingLog

CONSTANTS io, shell

MCLetters == {"a", "b", "d", "e", "p", "q", "r", "s"}

\* The server's calls end their line; one text is longer than the width.  The
\* client's io thread logs a message in parts.  The two programs share no letter,
\* so only the client's parts are Unended.
MCPrograms ==
  { [t \in {io, shell} |->
       IF t = io THEN << <<"a", NL>>, <<"b", "b", "b", NL>> >>
                 ELSE << <<"d", NL>>, <<"e", NL>> >>],
    [t \in {io, shell} |->
       IF t = io THEN << <<"p">>, <<"q", "q">>, <<"r", NL>> >>
                 ELSE << <<"s", NL>> >>] }
=============================================================================
