------------------------------ MODULE MCShell ------------------------------
(* An instance of Shell for TLC. *)
EXTENDS Shell

\* Spaces, quotes and escape sequences; what looks like an address; numbers
\* around 255; zeros in front; ports around 65535.
MCKeyboards ==
  { {" ", QUOTE, "q", ESC}, {"9", ".", "x"}, {"2", "5", "."}, {"0", "1", "."},
    {"3", "5", "6", "-"} }

MCMaxLength == [k \in MCKeyboards |-> IF "-" \in k THEN 6 ELSE 9]

MCCommands == { quit_command, <<"q", "q">> }
=============================================================================
