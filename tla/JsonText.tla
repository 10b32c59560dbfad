------------------------------ MODULE JsonText ------------------------------
(***************************************************************************)
(* JSON texts as the Gateway writes and reads them.  A text is a sequence  *)
(* of symbols: punctuation, a character that matters to an escape, or a    *)
(* whole word (a member's name, a number, true) that no other sequence of  *)
(* symbols spells.                                                         *)
(***************************************************************************)
EXTENDS Naturals, Sequences, SequencesExt

CONSTANT NoText   \* what a reader gets where there is nothing to be read

Quote == "\""
Backslash == "\\"

\* "ctl" stands for any control character but the first three.
ControlEscape ==
  [newline |-> "n", return |-> "r", tab |-> "t", ctl |-> "u0001"]
Control == DOMAIN ControlEscape

Quoted(s) == <<Quote>> \o s \o <<Quote>>

Commas(ts) ==
  FlattenSeq([i \in DOMAIN ts |-> IF i = 1 THEN ts[i] ELSE <<",">> \o ts[i]])
Member(name, value) == Quoted(<<name>>) \o <<":">> \o value
Object(members) == <<"{">> \o Commas(members) \o <<"}">>
Array(values) == <<"[">> \o Commas(values) \o <<"]">>

JsonString(s) ==
  Quoted(FlattenSeq([i \in DOMAIN s |->
    IF s[i] \in Control THEN <<Backslash, ControlEscape[s[i]]>>
    ELSE IF s[i] \in {Quote, Backslash} THEN <<Backslash, s[i]>>
    ELSE <<s[i]>>]))

\* What a loop over a text has come to, from what it has at first, when it has
\* done a step for each symbol.
Loop(Step(_, _), first, s) ==
  LET was[i \in 0 .. Len(s)] ==
        IF i = 0 THEN first ELSE Step(was[i - 1], s[i])
  IN  was[Len(s)]

\* How deep in brackets, and whether in a string or behind a backslash of one,
\* a text is before each of its symbols and at its end.
Outside == [depth |-> 0, mode |-> "bare"]
Past(was, c, opens, closes) ==
  [depth |-> IF was.mode # "bare" THEN was.depth
             ELSE IF c \in opens THEN was.depth + 1
             ELSE IF c \in closes THEN was.depth - 1
             ELSE was.depth,
   mode |-> IF was.mode = "escaped" THEN "quoted"
            ELSE IF c = Quote
              THEN IF was.mode = "bare" THEN "quoted" ELSE "bare"
            ELSE IF c = Backslash /\ was.mode = "quoted" THEN "escaped"
            ELSE was.mode]
Scan(t, opens, closes) ==
  LET Note(at, c) == Append(at, Past(at[Len(at)], c, opens, closes))
  IN  Loop(Note, <<Outside>>, t)

\* Reads a string up to its closing quote, or the end, and understands the
\* escapes "known"; of any other it keeps the letter.
Meant(c, known) == IF c \in DOMAIN known THEN known[c] ELSE c
Read(was, c, known) ==
  IF was.mode = "closed" THEN was
  ELSE IF was.mode = "escaped"
  THEN [out |-> Append(was.out, Meant(c, known)), mode |-> "open"]
  ELSE IF c = Backslash THEN [out |-> was.out, mode |-> "escaped"]
  ELSE IF c = Quote THEN [out |-> was.out, mode |-> "closed"]
  ELSE [out |-> Append(was.out, c), mode |-> "open"]
Spelled(s, known) ==
  LET Next(was, c) == Read(was, c, known)
  IN  Loop(Next, [out |-> <<>>, mode |-> "open"], s).out

JsonEscape == [n |-> "newline", r |-> "return", t |-> "tab", u0001 |-> "ctl"]

\* One string and nothing else; a bare control character is no JSON.
IsString(value) ==
  LET at == Scan(value, {}, {})
  IN  /\ value # NoText
      /\ ToSet(value) \cap Control = {}
      /\ \A i \in 1 .. Len(value) + 1 :
           at[i].mode = "bare" <=> i \notin 2 .. Len(value)

StringOf(value) ==
  IF IsString(value) THEN Spelled(SubSeq(value, 2, Len(value)), JsonEscape)
  ELSE NoText

\* The value of an object's own member.
ValueOf(t, name) ==
  LET at == Scan(t, {"{", "["}, {"}", "]"})
      Outer(i) == at[i] = [depth |-> 1, mode |-> "bare"]
      starts == {i \in 5 .. Len(t) : /\ Outer(i - 4)
                                     /\ SubSeq(t, i - 4, i - 1)
                                          = Quoted(<<name>>) \o <<":">>}
      ends == {j \in DOMAIN t : t[j] \in {",", "}"} /\ Outer(j)}
      After(i) == {j \in ends : j >= i}
  IN  IF t = NoText \/ starts = {} \/ After(Min(starts)) = {} THEN NoText
      ELSE SubSeq(t, Min(starts), Min(After(Min(starts))) - 1)
=============================================================================
