----------------------------- MODULE MCTextFlow -----------------------------
(* TextFlow on a small instance for TLC.                                    *)
EXTENDS TextFlow

\* One of each kind of symbol that a reader or a writer treats in its own way.
MCLetter ==
  Control \cup {Quote, Backslash, ":", "{", "}", "[", "]", "a", "n", "t",
              "seq", "role", "scopes", "ts"}
=============================================================================
